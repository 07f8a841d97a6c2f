------------------------- MODULE WsConnectionProofs -------------------------
(***************************************************************************)
(* Proofs about WsConnection, for any number of broadcasting threads and   *)
(* any limit of the queue of frames: one write is in flight at a time, and *)
(* what a client receives of a thread has no gap, repetition or mixture.   *)
(***************************************************************************)
EXTENDS WsConnection, SequenceTheorems, TLAPS

-----------------------------------------------------------------------------
(* The connection's life: nothing, the handshake, open, closed. *)

IsWritten(h) == h.kind = "written"
IsHandshake(h) == \/ h.kind = "read" /\ h.what = "request"
                  \/ IsWritten(h) /\ h.what \in {Response, Refusal}

(* One thing at a time moves the handshake on. *)
HandshakeToken ==
  \/ connection = "none" /\ reading = "none" /\ queue = <<>> /\ flight = <<>>
  \/ connection # "none" /\ reading = "request" /\ queue = <<>> /\ flight = <<>>
  \/ /\ connection # "none" /\ reading = "none" /\ queue # <<>> /\ flight = <<>>
     /\ Len(queue) = 1 /\ IsHandshake(queue[1])
  \/ /\ connection # "none" /\ reading = "none" /\ queue = <<>> /\ flight # <<>>
     /\ Len(flight) = 1 /\ flight[1] \in {Response, Refusal}

BeforeOpen ==
  ~open /\ ~closed => /\ HandshakeToken
                      /\ outbox = <<>> /\ ~writing
                      /\ \A b \in Broadcasters : targets[b] = None

AfterHandshake ==
  /\ accept = "accepted" => connection = "none"
  /\ member => open
  /\ open \/ closed =>
       /\ connection # "none" /\ reading # "request"
       /\ \A i \in 1 .. Len(queue) : ~IsHandshake(queue[i])
       /\ \A i \in 1 .. Len(flight) : flight[i] \in Frames \cup {Pong}

(* At most one write of the outbox's first frame is in flight or being
   acknowledged. *)
OneWrite ==
  open =>
    /\ ~writing => outbox = <<>>
    /\ writing => outbox # <<>>
    /\ Len(flight) <= 1 /\ (flight # <<>> => writing /\ flight[1] = outbox[1])
    /\ \A i \in 1 .. Len(queue) : IsWritten(queue[i]) =>
         /\ flight = <<>> /\ writing /\ queue[i].what = outbox[1]
         /\ \A j \in 1 .. Len(queue) : IsWritten(queue[j]) => j = i

LifeInv == /\ TypeOK
           /\ BeforeOpen /\ AfterHandshake /\ OneWrite
           /\ ~garbled

-----------------------------------------------------------------------------
(* Where the frames of a thread are. *)

Waits(i, b, n) == i \in 1 .. Len(outbox) /\ outbox[i] = [from |-> b, n |-> n]
Posted(i, b, n) ==
  i \in 1 .. Len(queue) /\ queue[i].kind = "send" /\ queue[i].what = [from |-> b, n |-> n]
Aimed(b, n) == targets[b] = [from |-> b, n |-> n]
Arrived(i, b, n) == i \in 1 .. Len(received[b]) /\ received[b][i] = n

(* The outbox's first frame has been delivered. *)
Acknowledged == \E i \in 1 .. Len(queue) : IsWritten(queue[i]) /\ queue[i].ok

(* They are in the order of their numbers ... *)
InOrder ==
  \A b \in Broadcasters : \A m, n \in 1 .. MaxFrames :
    /\ \A i, j : Waits(i, b, m) /\ Waits(j, b, n) /\ i < j => m < n
    /\ \A i, j : Waits(i, b, m) /\ Posted(j, b, n) => m < n
    /\ \A i, j : Posted(i, b, m) /\ Posted(j, b, n) /\ i < j => m < n
    /\ \A i : (Waits(i, b, m) \/ Posted(i, b, m)) /\ Aimed(b, n) => m < n
    /\ \A i, j : Arrived(i, b, m) /\ Waits(j, b, n) /\ (j # 1 \/ ~Acknowledged) => m < n
    /\ \A i, j : Arrived(i, b, m) /\ Posted(j, b, n) => m < n
    /\ \A i : Arrived(i, b, m) /\ Aimed(b, n) => m < n
    /\ \A i : Arrived(i, b, m) => m <= received[b][Len(received[b])]

(* ... none is missing ... *)
Known(b, n) == \/ \E i : Waits(i, b, n) \/ Posted(i, b, n) \/ Arrived(i, b, n)
               \/ Aimed(b, n)
NoneMissing ==
  \A b \in Broadcasters : \A n \in 1 .. MaxFrames :
    /\ Known(b, n) => n <= sent[b]
    /\ Known(b, n) /\ n < sent[b] => Known(b, n + 1)

(* ... and what is acknowledged was received. *)
AcknowledgedArrived ==
  Acknowledged => \A b \in Broadcasters : \A n \in 1 .. MaxFrames :
                    Waits(1, b, n) => \E i : Arrived(i, b, n)

OpenInv == InOrder /\ NoneMissing /\ AcknowledgedArrived

ReceivedType ==
  /\ received \in [Broadcasters -> Seq(1 .. MaxFrames)]
  /\ \A b \in Broadcasters : \A i \in 1 .. Len(received[b]) : received[b][i] <= sent[b]

(* A thread sends its own frames. *)
OwnFrames == \A b \in Broadcasters : targets[b] # None => targets[b].from = b

OrderInv == /\ ReceivedType /\ OwnFrames
            /\ ~open /\ ~closed => \A b \in Broadcasters : received[b] = <<>>
            /\ open => OpenInv
            /\ ClientSeesEveryFrame

-----------------------------------------------------------------------------
(* Sequences. *)

LEMMA Appending ==
  ASSUME NEW S, NEW s \in Seq(S), NEW e \in S
  PROVE  /\ Append(s, e) \in Seq(S) /\ Append(s, e) # <<>>
         /\ Len(s) \in Nat /\ Len(Append(s, e)) = Len(s) + 1
         /\ \A i \in 1 .. Len(s) : Append(s, e)[i] = s[i]
         /\ Append(s, e)[Len(s) + 1] = e
<1>1. /\ Append(s, e) \in Seq(S) /\ Len(s) \in Nat /\ Len(Append(s, e)) = Len(s) + 1
      /\ \A i \in 1 .. Len(s) : Append(s, e)[i] = s[i]
      /\ Append(s, e)[Len(s) + 1] = e
  BY AppendProperties, LenProperties
<1>2. Len(Append(s, e)) # 0
  BY <1>1
<1> QED  BY <1>1, <1>2, EmptySeq

LEMMA Taking ==
  ASSUME NEW S, NEW s \in Seq(S), s # <<>>
  PROVE  /\ Tail(s) \in Seq(S) /\ Head(s) = s[1] /\ s[1] \in S
         /\ Len(s) \in Nat \ {0} /\ Len(Tail(s)) = Len(s) - 1
         /\ \A i \in 1 .. Len(s) - 1 : Tail(s)[i] = s[i + 1]
         /\ Tail(s) = <<>> <=> Len(s) = 1
<1>1. Len(s) \in Nat /\ Len(s) # 0
  BY LenProperties, EmptySeq
<1>2. /\ Tail(s) \in Seq(S) /\ Head(s) = s[1] /\ Len(Tail(s)) = Len(s) - 1
      /\ \A i \in 1 .. Len(s) - 1 : Tail(s)[i] = s[i + 1]
  BY HeadTailProperties
<1>3. s[1] \in S
  BY <1>1, ElementOfSeq
<1>4. Tail(s) = <<>> <=> Len(s) = 1
  BY <1>1, <1>2, EmptySeq
<1> QED  BY <1>1, <1>2, <1>3, <1>4

LEMMA OnlyRemoved ==
  ASSUME NEW S, NEW s \in Seq(S), Len(s) = 1, NEW i \in DOMAIN s
  PROVE  i = 1 /\ RemoveAt(s, i) = <<>>
<1>1. i = 1
  BY LenProperties
<1>2. SubSeq(s, 1, 0) = <<>> /\ SubSeq(s, 2, 1) = <<>>
  OBVIOUS
<1>3. <<>> \o <<>> = <<>>
  OBVIOUS
<1> QED  BY <1>1, <1>2, <1>3 DEF RemoveAt

-----------------------------------------------------------------------------
(* The connection's life: one lemma per action. *)

LEMMA WrittenKinds ==
  /\ Response \notin Frames \cup {Pong} /\ Refusal \notin Frames \cup {Pong}
  /\ Response # Refusal
BY SendersAssumption DEF Response, Refusal, Frames, Pong

LEMMA AcceptingKeepsLifeInv ==
  ASSUME LifeInv, ClientConnects \/ AcceptHandler \/ Stop PROVE LifeInv'
<1> USE DEF LifeInv, ClientConnects, AcceptHandler, Stop, outVars, castVars, wireVars
<1>1. TypeOK'
  BY DEF TypeOK, Parts
<1>2. (open' <=> open) /\ (closed' <=> closed) /\ garbled' = garbled
  OBVIOUS
<1>3. BeforeOpen'
  BY DEF BeforeOpen, AfterHandshake, HandshakeToken
<1>4. AfterHandshake'
  BY DEF BeforeOpen, AfterHandshake, HandshakeToken, IsHandshake, IsWritten
<1>5. OneWrite'
  BY DEF OneWrite, IsWritten
<1> QED  BY <1>1, <1>2, <1>3, <1>4, <1>5

LEMMA BroadcastKeepsLifeInv ==
  ASSUME LifeInv, NEW b \in Broadcasters, Broadcast(b) PROVE LifeInv'
<1> USE WsAssumption DEF LifeInv, Broadcast, serverVars, outVars, wireVars
<1>1. sent' \in [Broadcasters -> 0 .. MaxFrames] /\ sent'[b] \in 1 .. MaxFrames
  BY DEF TypeOK
<1>2. [from |-> b, n |-> sent'[b]] \in Frames
  BY <1>1 DEF Frames
<1>3. TypeOK'
  <2>1. targets' \in [Broadcasters -> Frames \cup {None}]
    BY <1>2 DEF TypeOK
  <2> QED  BY <1>1, <2>1 DEF TypeOK
<1>4. BeforeOpen' /\ AfterHandshake' /\ OneWrite'
  BY DEF BeforeOpen, AfterHandshake, OneWrite, HandshakeToken, IsHandshake, IsWritten, TypeOK
<1> QED  BY <1>3, <1>4

LEMMA SendTextKeepsLifeInv ==
  ASSUME LifeInv, NEW b \in Broadcasters, SendText(b) PROVE LifeInv'
<1> USE DEF LifeInv, SendText, serverVars, outVars, wireVars
<1> DEFINE h == [kind |-> "send", ok |-> TRUE, what |-> targets[b]]
<1>1. h \in Handlers /\ ~IsHandshake(h) /\ ~IsWritten(h)
  BY DEF TypeOK, Handlers, IsHandshake, IsWritten
<1>2. CASE open
  <2>1. queue' = Append(queue, h) /\ queue \in Seq(Handlers)
    BY <1>2 DEF TypeOK
  <2> HIDE DEF h
  <2>2. /\ queue' \in Seq(Handlers) /\ Len(queue) \in Nat /\ Len(queue') = Len(queue) + 1
        /\ \A i \in 1 .. Len(queue) : queue'[i] = queue[i]
        /\ queue'[Len(queue) + 1] = h
    BY <1>1, <2>1, Appending
  <2>3. TypeOK'
    BY <2>2 DEF TypeOK
  <2>4. \A i \in 1 .. Len(queue') :
          \/ i \in 1 .. Len(queue) /\ queue'[i] = queue[i]
          \/ queue'[i] = h
    BY <2>2
  <2>5. \A i \in 1 .. Len(queue') : ~IsHandshake(queue'[i])
    BY <1>1, <1>2, <2>4 DEF AfterHandshake
  <2>6. BeforeOpen' /\ AfterHandshake'
    BY <1>2, <2>5 DEF BeforeOpen, AfterHandshake
  <2>7. \A i \in 1 .. Len(queue') : IsWritten(queue'[i]) =>
          i \in 1 .. Len(queue) /\ queue'[i] = queue[i]
    BY <1>1, <2>4
  <2>8. OneWrite'
    BY <1>2, <2>7 DEF OneWrite
  <2> QED  BY <2>3, <2>6, <2>8
<1>3. CASE ~open
  <2>1. TypeOK'
    BY <1>3 DEF TypeOK
  <2>2. BeforeOpen' /\ AfterHandshake' /\ OneWrite'
    BY <1>3 DEF BeforeOpen, AfterHandshake, OneWrite, HandshakeToken, IsHandshake, IsWritten, TypeOK
  <2> QED  BY <2>1, <2>2
<1> QED  BY <1>2, <1>3

LEMMA ReadCompletesKeepsLifeInv ==
  ASSUME LifeInv, ReadCompletes PROVE LifeInv'
<1> USE DEF LifeInv, serverVars, outVars, castVars, wireVars
<1>1. PICK good \in BOOLEAN :
        queue' = Append(queue, [kind |-> "read", ok |-> good, what |-> reading])
  BY DEF ReadCompletes, Ready
<1>2. /\ reading # "none" /\ reading' = "none"
      /\ UNCHANGED <<serverVars, connection, outVars, open, closed, member, castVars, wireVars,
                     pings, undefined>>
  BY DEF ReadCompletes
<1> DEFINE h == [kind |-> "read", ok |-> good, what |-> reading]
<1>3. h \in Handlers /\ ~IsWritten(h) /\ (IsHandshake(h) <=> reading = "request")
      /\ queue' = Append(queue, h)
  BY <1>1, <1>2 DEF TypeOK, Handlers, IsHandshake, IsWritten
<1> HIDE DEF h
<1>4. /\ queue' \in Seq(Handlers) /\ Len(queue) \in Nat /\ Len(queue') = Len(queue) + 1
      /\ \A i \in 1 .. Len(queue) : queue'[i] = queue[i]
      /\ queue'[Len(queue) + 1] = h /\ queue' # <<>>
  BY <1>1, <1>3, Appending DEF TypeOK
<1>5. TypeOK'
  BY <1>2, <1>4 DEF TypeOK, Parts
<1>6. BeforeOpen'
  <2>1. queue = <<>> => Len(queue) = 0
    OBVIOUS
  <2> QED  BY <1>2, <1>3, <1>4, <2>1 DEF BeforeOpen, HandshakeToken
<1>7. AfterHandshake'
  BY <1>2, <1>3, <1>4 DEF AfterHandshake, IsHandshake, IsWritten
<1>8. OneWrite'
  BY <1>2, <1>3, <1>4 DEF OneWrite, IsWritten
<1> QED  BY <1>2, <1>5, <1>6, <1>7, <1>8

(* A write ends, one way or the other; it was the only one unless the
   connection is closed. *)
LEMMA WriteEndsKeepsLifeInv ==
  ASSUME LifeInv, flight # <<>>, NEW good \in BOOLEAN,
         queue' = Append(queue, [kind |-> "written", ok |-> good, what |-> flight[1]]),
         flight' = Tail(flight), garbled' = garbled,
         UNCHANGED <<serverVars, connection, reading, outbox, writing, open, closed, member,
                     castVars, pings, undefined>>
  PROVE  LifeInv'
<1> USE DEF LifeInv, serverVars, castVars
<1> DEFINE h == [kind |-> "written", ok |-> good, what |-> flight[1]]
<1>1. /\ flight' \in Seq(Written) /\ flight[1] \in Written /\ Len(flight) \in Nat \ {0}
      /\ Len(flight') = Len(flight) - 1 /\ (flight' = <<>> <=> Len(flight) = 1)
      /\ \A i \in 1 .. Len(flight') : flight'[i] = flight[i + 1]
  BY Taking DEF TypeOK
<1>2. h \in Handlers /\ IsWritten(h) /\ h.what = flight[1]
      /\ (IsHandshake(h) <=> flight[1] \in {Response, Refusal})
  BY <1>1 DEF Handlers, IsHandshake, IsWritten
<1>3. queue' = Append(queue, h) /\ queue \in Seq(Handlers)
  BY DEF TypeOK
<1> HIDE DEF h
<1>4. /\ queue' \in Seq(Handlers) /\ Len(queue) \in Nat /\ Len(queue') = Len(queue) + 1
      /\ \A i \in 1 .. Len(queue) : queue'[i] = queue[i]
      /\ queue'[Len(queue) + 1] = h /\ queue' # <<>>
  BY <1>2, <1>3, Appending
<1>5. TypeOK'
  BY <1>1, <1>4 DEF TypeOK
<1>6. BeforeOpen'
  <2>1. queue = <<>> => Len(queue) = 0
    OBVIOUS
  <2> QED  BY <1>1, <1>2, <1>4, <2>1 DEF BeforeOpen, HandshakeToken
<1>7. AfterHandshake'
  <2>1. open \/ closed => flight[1] \notin {Response, Refusal}
    BY <1>1, WrittenKinds DEF AfterHandshake
  <2>2. open \/ closed => \A i \in 1 .. Len(queue') : ~IsHandshake(queue'[i])
    BY <1>2, <1>4, <2>1 DEF AfterHandshake
  <2>3. open \/ closed => \A i \in 1 .. Len(flight') : flight'[i] \in Frames \cup {Pong}
    BY <1>1 DEF AfterHandshake
  <2> QED  BY <2>2, <2>3 DEF AfterHandshake, IsHandshake, IsWritten
<1>8. OneWrite'
  <2>1. open => /\ Len(flight) = 1 /\ flight' = <<>> /\ writing /\ flight[1] = outbox[1]
                /\ \A i \in 1 .. Len(queue) : ~IsWritten(queue[i])
    BY <1>1 DEF OneWrite
  <2> QED  BY <1>1, <1>2, <1>4, <2>1 DEF OneWrite, IsWritten
<1> QED  BY <1>5, <1>6, <1>7, <1>8

(* A write that goes through is the only one: it is removed from the front. *)
LEMMA WriteIsAlone ==
  ASSUME LifeInv, flight # <<>>, ~closed
  PROVE  Len(flight) = 1 /\ Tail(flight) = <<>>
<1>1. Len(flight) \in Nat \ {0} /\ (Tail(flight) = <<>> <=> Len(flight) = 1)
  BY Taking DEF LifeInv, TypeOK
<1> QED  BY <1>1 DEF LifeInv, TypeOK, BeforeOpen, HandshakeToken, OneWrite

LEMMA WriteCompletesIs ==
  ASSUME LifeInv, WriteCompletes
  PROVE  /\ flight # <<>> /\ ~closed /\ flight' = Tail(flight) /\ garbled' = garbled
         /\ queue' = Append(queue, [kind |-> "written", ok |-> TRUE, what |-> flight[1]])
         /\ received' = [b \in Broadcasters |-> IF flight[1].from = b
                                                  THEN Append(received[b], flight[1].n)
                                                  ELSE received[b]]
         /\ UNCHANGED <<serverVars, connection, reading, outbox, writing, open, closed, member,
                        castVars, pings, undefined>>
<1>1. flight # <<>> /\ ~closed /\ Len(flight) = 1 /\ Tail(flight) = <<>>
  BY WriteIsAlone DEF WriteCompletes
<1>2. \A i \in DOMAIN flight : i = 1 /\ RemoveAt(flight, i) = <<>>
  BY <1>1, OnlyRemoved DEF LifeInv, TypeOK
<1>3. PICK i \in DOMAIN flight :
        /\ Ready("written", TRUE, flight[i]) /\ flight' = RemoveAt(flight, i)
        /\ received' = [b \in Broadcasters |-> IF flight[i].from = b
                                                 THEN Append(received[b], flight[i].n)
                                                 ELSE received[b]]
        /\ garbled' = (garbled \/ Len(flight) > 1)
  BY DEF WriteCompletes
<1>4. i = 1 /\ flight' = Tail(flight)
  BY <1>1, <1>2, <1>3
<1>5. garbled' = garbled
  BY <1>1, <1>3 DEF LifeInv, TypeOK
<1> QED  BY <1>1, <1>3, <1>4, <1>5 DEF WriteCompletes, Ready

LEMMA WriteCompletesKeepsLifeInv ==
  ASSUME LifeInv, WriteCompletes PROVE LifeInv'
BY WriteCompletesIs, WriteEndsKeepsLifeInv

LEMMA WriteFailsKeepsLifeInv ==
  ASSUME LifeInv, WriteFails PROVE LifeInv'
<1>1. Head(flight) = flight[1]
  BY Taking DEF LifeInv, TypeOK, WriteFails
<1> QED  BY <1>1, WriteEndsKeepsLifeInv DEF WriteFails, Ready, LifeInv, wireVars

(* The handler at the head of the strand's queue is run. *)
LEMMA RunsFirst ==
  ASSUME LifeInv, NEW kind, Runs(kind)
  PROVE  /\ queue # <<>> /\ queue[1] = Head(queue) /\ Head(queue) \in Handlers
         /\ Head(queue).kind = kind /\ queue' \in Seq(Handlers)
         /\ Len(queue) \in Nat \ {0} /\ Len(queue') = Len(queue) - 1
         /\ (queue' = <<>> <=> Len(queue) = 1)
         /\ \A i \in 1 .. Len(queue') : i + 1 \in 1 .. Len(queue) /\ queue'[i] = queue[i + 1]
<1>1. queue # <<>> /\ queue \in Seq(Handlers) /\ queue' = Tail(queue) /\ Head(queue).kind = kind
  BY DEF Runs, LifeInv, TypeOK
<1> QED  BY <1>1, Taking

(* During the handshake the queue holds nothing but its token. *)
LEMMA HandshakeRuns ==
  ASSUME LifeInv, queue # <<>>, IsHandshake(queue[1])
  PROVE  /\ ~open /\ ~closed /\ connection # "none" /\ reading = "none" /\ flight = <<>>
         /\ Len(queue) = 1 /\ outbox = <<>> /\ ~writing /\ ~member
         /\ \A b \in Broadcasters : targets[b] = None
<1>1. Len(queue) \in Nat /\ Len(queue) # 0
  BY LenProperties, EmptySeq DEF LifeInv, TypeOK
<1>2. 1 \in 1 .. Len(queue)
  BY <1>1
<1>3. ~open /\ ~closed
  BY <1>2 DEF LifeInv, AfterHandshake
<1> QED  BY <1>3 DEF LifeInv, BeforeOpen, HandshakeToken, AfterHandshake

LEMMA RequestReadKeepsLifeInv ==
  ASSUME LifeInv, RequestRead PROVE LifeInv'
<1> USE DEF LifeInv, serverVars, castVars, wireVars
<1>1. /\ queue # <<>> /\ IsHandshake(queue[1])
      /\ queue' \in Seq(Handlers) /\ (queue' = <<>> <=> Len(queue) = 1)
  BY RunsFirst DEF RequestRead, IsHandshake, what
<1>2. /\ ~open /\ ~closed /\ connection # "none" /\ reading = "none" /\ flight = <<>>
      /\ outbox = <<>> /\ ~writing /\ ~member /\ queue' = <<>> /\ Len(queue') = 0
      /\ \A b \in Broadcasters : targets[b] = None
  BY <1>1, HandshakeRuns, EmptySeq
<1>3. /\ reading' = reading /\ connection' = connection /\ writing' = writing /\ garbled' = garbled
      /\ UNCHANGED <<serverVars, castVars, pings, undefined>>
  BY DEF RequestRead
<1>4. CASE ~ok /\ CloseUnlessClosed /\ UNCHANGED flight
  <2>1. closed' = TRUE /\ open' = FALSE /\ outbox' = <<>> /\ member' = FALSE /\ flight' = flight
    BY <1>2, <1>4 DEF CloseUnlessClosed, Close
  <2>2. TypeOK'
    BY <1>1, <1>2, <1>3, <2>1 DEF TypeOK
  <2>3. BeforeOpen' /\ AfterHandshake' /\ OneWrite'
    BY <1>2, <1>3, <2>1, EmptySeq DEF BeforeOpen, AfterHandshake, OneWrite
  <2> QED  BY <1>3, <2>2, <2>3
<1>5. CASE /\ flight' \in {Append(flight, Response), Append(flight, Refusal)}
           /\ UNCHANGED <<closed, open, outbox, member>>
  <2>1. PICK f \in {Response, Refusal} : flight' = Append(<<>>, f)
    BY <1>2, <1>5
  <2>2. f \in Written /\ <<>> \in Seq(Written) /\ Len(<<>>) = 0
    BY EmptySeq DEF Written
  <2>3. flight' \in Seq(Written) /\ Len(flight') = 1 /\ flight'[1] = f /\ flight' # <<>>
    BY <2>1, <2>2, Appending
  <2>4. TypeOK'
    BY <1>1, <1>3, <1>5, <2>3 DEF TypeOK
  <2>5. BeforeOpen' /\ AfterHandshake' /\ OneWrite'
    BY <1>2, <1>3, <1>5, <2>3 DEF BeforeOpen, HandshakeToken, AfterHandshake, OneWrite
  <2> QED  BY <1>3, <2>4, <2>5
<1> QED  BY <1>4, <1>5 DEF RequestRead

LEMMA HandshakeWrittenKeepsLifeInv ==
  ASSUME LifeInv, HandshakeWritten PROVE LifeInv'
<1> USE DEF LifeInv, serverVars, castVars, wireVars
<1>1. /\ queue # <<>> /\ IsHandshake(queue[1])
      /\ queue' \in Seq(Handlers) /\ (queue' = <<>> <=> Len(queue) = 1)
  BY RunsFirst DEF HandshakeWritten, IsHandshake, IsWritten, what
<1>2. /\ ~open /\ ~closed /\ connection # "none" /\ reading = "none" /\ flight = <<>>
      /\ outbox = <<>> /\ ~writing /\ ~member /\ queue' = <<>> /\ Len(queue') = 0
      /\ \A b \in Broadcasters : targets[b] = None
  BY <1>1, HandshakeRuns, EmptySeq
<1>3. /\ flight' = flight /\ connection' = connection /\ writing' = writing /\ garbled' = garbled
      /\ UNCHANGED <<serverVars, castVars, pings, undefined>>
  BY DEF HandshakeWritten
<1>4. Len(flight) = 0 /\ Len(outbox) = 0
  BY <1>2, EmptySeq
<1>5. CASE open' = TRUE /\ member' = TRUE /\ reading' = "header" /\ UNCHANGED <<closed, outbox>>
  <2>1. TypeOK'
    BY <1>1, <1>2, <1>3, <1>5 DEF TypeOK, Parts
  <2>2. BeforeOpen' /\ AfterHandshake' /\ OneWrite'
    BY <1>2, <1>3, <1>4, <1>5 DEF BeforeOpen, AfterHandshake, OneWrite
  <2> QED  BY <1>3, <2>1, <2>2
<1>6. CASE CloseUnlessClosed /\ UNCHANGED reading
  <2>1. closed' = TRUE /\ open' = FALSE /\ outbox' = <<>> /\ member' = FALSE
    BY <1>2, <1>6 DEF CloseUnlessClosed, Close
  <2>2. TypeOK'
    BY <1>1, <1>2, <1>3, <1>6, <2>1 DEF TypeOK
  <2>3. BeforeOpen' /\ AfterHandshake' /\ OneWrite'
    BY <1>2, <1>3, <1>4, <1>6, <2>1 DEF BeforeOpen, AfterHandshake, OneWrite
  <2> QED  BY <1>3, <2>2, <2>3
<1> QED  BY <1>5, <1>6 DEF HandshakeWritten

(* A handler of the open or closed connection is run. *)
LEMMA AfterHandshakeRuns ==
  ASSUME LifeInv, queue # <<>>, ~IsHandshake(queue[1])
  PROVE  (open \/ closed) /\ connection # "none" /\ reading # "request"
<1>1. open \/ closed
  BY EmptySeq DEF LifeInv, BeforeOpen, HandshakeToken
<1> QED  BY <1>1 DEF LifeInv, AfterHandshake

(* What a handler may leave of the outgoing frames. *)
SameOut == UNCHANGED <<closed, open, member, outVars>>
Closing == ~closed /\ Close /\ UNCHANGED <<writing, flight>>
Queued(f) == /\ open /\ outbox' = Append(outbox, f) /\ writing' = TRUE
             /\ UNCHANGED <<closed, open, member>>
             /\ \/ writing /\ UNCHANGED flight
                \/ ~writing /\ outbox = <<>> /\ flight = <<>> /\ flight' = Append(<<>>, f)
                            /\ \A i \in 1 .. Len(queue) : ~IsWritten(queue[i])

LEMMA EnqueueIs ==
  ASSUME LifeInv, NEW f \in Frames \cup {Pong}, open \/ closed, Enqueue(f)
  PROVE  SameOut \/ Closing \/ Queued(f)
<1>1. CASE closed
  BY <1>1 DEF Enqueue, SameOut
<1>2. CASE ~closed /\ TooSlow
  BY <1>2 DEF Enqueue, Closing
<1>3. CASE ~closed /\ ~TooSlow
  <2>1. open /\ outbox' = Append(outbox, f) /\ UNCHANGED <<closed, open, member>>
    BY <1>3 DEF Enqueue
  <2>2. outbox' # <<>> /\ (outbox = <<>> => Head(outbox') = f)
    BY <2>1, Appending DEF LifeInv, TypeOK
  <2>3. CASE writing
    BY <1>3, <2>1, <2>3 DEF Enqueue, MayStart, Queued, LifeInv, TypeOK
  <2>4. CASE ~writing
    <3>1. outbox = <<>> /\ \A i \in 1 .. Len(queue) : ~IsWritten(queue[i])
      BY <2>1, <2>4 DEF LifeInv, OneWrite
    <3>2. flight = <<>>
      BY <2>1, <2>4 DEF LifeInv, OneWrite
    <3>3. writing' = TRUE /\ flight' = Append(flight, Head(outbox'))
      BY <1>3, <2>2, <2>4 DEF Enqueue, MayStart, WriteNext
    <3> QED  BY <2>1, <2>2, <2>4, <3>1, <3>2, <3>3 DEF Queued
  <2> QED  BY <2>3, <2>4 DEF LifeInv, TypeOK
<1> QED  BY <1>1, <1>2, <1>3

LEMMA CloseUnlessClosedIs ==
  ASSUME CloseUnlessClosed, UNCHANGED <<writing, flight>>
  PROVE  SameOut \/ Closing
BY DEF CloseUnlessClosed, SameOut, Closing, outVars

(* What OneWrite says of the queue stays true when its head is taken. *)
LEMMA StillOneWritten ==
  ASSUME LifeInv, open, Len(queue) \in Nat \ {0}, Len(queue') = Len(queue) - 1,
         \A i \in 1 .. Len(queue') : i + 1 \in 1 .. Len(queue) /\ queue'[i] = queue[i + 1],
         NEW i \in 1 .. Len(queue'), IsWritten(queue'[i])
  PROVE  /\ flight = <<>> /\ writing /\ queue'[i].what = outbox[1]
         /\ \A j \in 1 .. Len(queue') : IsWritten(queue'[j]) => j = i
<1>1. /\ i + 1 \in 1 .. Len(queue) /\ IsWritten(queue[i + 1])
      /\ queue[i + 1].what = queue'[i].what
  OBVIOUS
<1>2. /\ flight = <<>> /\ writing /\ queue[i + 1].what = outbox[1]
      /\ \A j \in 1 .. Len(queue) : IsWritten(queue[j]) => j = i + 1
  BY <1>1 DEF LifeInv, OneWrite
<1>3. ASSUME NEW j \in 1 .. Len(queue'), IsWritten(queue'[j]) PROVE j = i
  <2>1. j + 1 = i + 1
    BY <1>2, <1>3
  <2> QED  BY <2>1
<1> QED  BY <1>1, <1>2, <1>3

(* A handler that is no completion of a write is run and leaves this. *)
LEMMA HandlerKeepsLifeInv ==
  ASSUME LifeInv, NEW kind, Runs(kind), ~IsHandshake(Head(queue)), ~IsWritten(Head(queue)),
         SameOut \/ Closing \/ (\E f \in Frames \cup {Pong} : Queued(f) /\ ~TooSlow),
         reading' \in (Parts \cup {"none"}) \ {"request"}, pings' \in 0 .. MaxPings,
         UNCHANGED <<serverVars, connection, castVars, wireVars, undefined>>
  PROVE  LifeInv'
<1> USE DEF LifeInv, serverVars, castVars, wireVars
<1>1. /\ queue # <<>> /\ queue[1] = Head(queue) /\ queue' \in Seq(Handlers)
      /\ Len(queue) \in Nat \ {0} /\ Len(queue') = Len(queue) - 1
      /\ \A i \in 1 .. Len(queue') : i + 1 \in 1 .. Len(queue) /\ queue'[i] = queue[i + 1]
  BY RunsFirst
<1>2. (open \/ closed) /\ connection # "none" /\ reading # "request"
  BY <1>1, AfterHandshakeRuns
<1>3. \A i \in 1 .. Len(queue') : ~IsHandshake(queue'[i])
  BY <1>1, <1>2 DEF AfterHandshake
<1>4. CASE SameOut
  <2>1. TypeOK'
    BY <1>1, <1>4 DEF TypeOK, SameOut, outVars
  <2>2. BeforeOpen' /\ AfterHandshake'
    BY <1>2, <1>3, <1>4 DEF BeforeOpen, AfterHandshake, SameOut, outVars
  <2>3. OneWrite'
    <3>1. UNCHANGED <<open, outbox, writing, flight>>
      BY <1>4 DEF SameOut, outVars
    <3>2. ASSUME open, NEW i \in 1 .. Len(queue'), IsWritten(queue'[i])
          PROVE  /\ flight = <<>> /\ writing /\ queue'[i].what = outbox[1]
                 /\ \A j \in 1 .. Len(queue') : IsWritten(queue'[j]) => j = i
      BY <1>1, <3>2, StillOneWritten
    <3> QED  BY <3>1, <3>2 DEF OneWrite
  <2> QED  BY <2>1, <2>2, <2>3
<1>5. CASE Closing
  <2>1. TypeOK'
    <3>1. outbox' \in Seq(Frames \cup {Pong}) /\ Len(outbox') <= Limit
      BY <1>5, EmptySeq, WsAssumption DEF Closing, Close
    <3> QED  BY <1>1, <1>5, <3>1 DEF TypeOK, Closing, Close
  <2>2. BeforeOpen' /\ AfterHandshake' /\ OneWrite'
    BY <1>2, <1>3, <1>5 DEF BeforeOpen, AfterHandshake, OneWrite, Closing, Close
  <2> QED  BY <2>1, <2>2
<1>6. ASSUME NEW f \in Frames \cup {Pong}, Queued(f), ~TooSlow PROVE LifeInv'
  <2> USE <1>6 DEF Queued
  <2>1. /\ outbox' \in Seq(Frames \cup {Pong}) /\ outbox' # <<>>
        /\ Len(outbox) \in Nat /\ Len(outbox') = Len(outbox) + 1
        /\ \A i \in 1 .. Len(outbox) : outbox'[i] = outbox[i]
        /\ outbox'[Len(outbox) + 1] = f
    <3>1. outbox' = Append(outbox, f) /\ outbox \in Seq(Frames \cup {Pong})
      BY DEF TypeOK
    <3> HIDE DEF Queued
    <3> QED  BY <3>1, Appending
  <2>2. Len(outbox') <= Limit
    BY <2>1, WsAssumption DEF TooSlow
  <2>3. f \in Written /\ <<>> \in Seq(Written) /\ Len(<<>>) = 0
    BY EmptySeq DEF Written
  <2>4. ~writing => flight' \in Seq(Written) /\ Len(flight') = 1 /\ flight'[1] = f
    BY <2>3, Appending
  <2>5. TypeOK'
    BY <1>1, <2>1, <2>2, <2>4 DEF TypeOK
  <2>6. BeforeOpen'
    BY DEF BeforeOpen
  <2>7. AfterHandshake'
    BY <1>2, <1>3, <2>4 DEF AfterHandshake
  <2>8. writing => outbox'[1] = outbox[1]
    BY <2>1, EmptySeq DEF OneWrite, TypeOK
  <2>9. ~writing => outbox'[1] = f
    BY <2>1, <2>3
  <2>10. OneWrite'
    <3>1. ASSUME NEW i \in 1 .. Len(queue'), IsWritten(queue'[i])
          PROVE  /\ flight = <<>> /\ writing /\ queue'[i].what = outbox[1]
                 /\ \A j \in 1 .. Len(queue') : IsWritten(queue'[j]) => j = i
      BY <1>1, <3>1, StillOneWritten
    <3>2. Len(flight') <= 1 /\ (flight' # <<>> => writing' /\ flight'[1] = outbox'[1])
      BY <2>4, <2>8, <2>9 DEF OneWrite
    <3> QED  BY <2>1, <2>8, <3>1, <3>2 DEF OneWrite
  <2> QED  BY <2>5, <2>6, <2>7, <2>10
<1> QED  BY <1>4, <1>5, <1>6

LEMMA FrameReadKeepsLifeInv ==
  ASSUME LifeInv, FrameRead PROVE LifeInv'
<1>1. /\ Runs("read") /\ Head(queue).kind = "read" /\ Head(queue).what # "request"
      /\ queue # <<>> /\ queue[1] = Head(queue)
      /\ ~IsHandshake(Head(queue)) /\ ~IsWritten(Head(queue))
  BY RunsFirst DEF FrameRead, what, IsHandshake, IsWritten
<1>2. (open \/ closed) /\ reading # "request" /\ pings \in 0 .. MaxPings /\ reading \in Parts \cup {"none"}
  BY <1>1, AfterHandshakeRuns DEF LifeInv, TypeOK
<1>3. UNCHANGED <<serverVars, connection, castVars, wireVars, undefined>>
  BY DEF FrameRead
<1>4. CASE Enqueue(Pong) /\ pings < MaxPings /\ pings' = pings + 1 /\ reading' = "header"
  <2>1. SameOut \/ Closing \/ (Queued(Pong) /\ ~TooSlow)
    <3>1. SameOut \/ Closing \/ Queued(Pong)
      BY <1>2, <1>4, EnqueueIs
    <3>2. TooSlow => SameOut \/ Closing
      BY <1>4 DEF Enqueue, SameOut, Closing
    <3> QED  BY <3>1, <3>2
  <2>2. pings' \in 0 .. MaxPings /\ reading' \in (Parts \cup {"none"}) \ {"request"}
    BY <1>2, <1>4, WsAssumption DEF Parts
  <2> QED  BY <1>1, <1>3, <2>1, <2>2, HandlerKeepsLifeInv
<1>5. CASE /\ (SameOut \/ (CloseUnlessClosed /\ UNCHANGED <<writing, flight>>)) /\ pings' = pings
           /\ reading' \in {"length", "mask", "payload", "header", reading}
  <2>1. SameOut \/ Closing
    BY <1>5, CloseUnlessClosedIs
  <2>2. pings' \in 0 .. MaxPings /\ reading' \in (Parts \cup {"none"}) \ {"request"}
    BY <1>2, <1>5 DEF Parts
  <2> QED  BY <1>1, <1>3, <2>1, <2>2, HandlerKeepsLifeInv
<1>6. CASE HandleFrame
  BY <1>4, <1>5, <1>6 DEF HandleFrame, SameOut, outVars
<1>7. CASE ~HandleFrame
  <2>1. /\ SameOut \/ (CloseUnlessClosed /\ UNCHANGED <<writing, flight>>)
        /\ pings' = pings
        /\ reading' \in {"length", "mask", "payload", "header", reading}
    BY <1>7 DEF FrameRead, SameOut, outVars
  <2> QED  BY <1>5, <2>1
<1> QED  BY <1>6, <1>7

LEMMA SendPostedKeepsLifeInv ==
  ASSUME LifeInv, SendPosted PROVE LifeInv'
<1>1. /\ Runs("send") /\ Head(queue).kind = "send" /\ queue # <<>> /\ queue[1] = Head(queue)
      /\ ~IsHandshake(Head(queue)) /\ ~IsWritten(Head(queue)) /\ Head(queue) \in Handlers
  BY RunsFirst DEF SendPosted, IsHandshake, IsWritten
<1>2. Head(queue).what \in Frames
  BY <1>1 DEF Handlers
<1>3. (open \/ closed) /\ reading # "request" /\ pings \in 0 .. MaxPings /\ reading \in Parts \cup {"none"}
  BY <1>1, AfterHandshakeRuns DEF LifeInv, TypeOK
<1>4. UNCHANGED <<serverVars, connection, reading, castVars, wireVars, pings, undefined>>
      /\ Enqueue(Head(queue).what)
  BY DEF SendPosted, what
<1>5. SameOut \/ Closing \/ (Queued(Head(queue).what) /\ ~TooSlow)
  <2>1. SameOut \/ Closing \/ Queued(Head(queue).what)
    BY <1>2, <1>3, <1>4, EnqueueIs
  <2>2. TooSlow => SameOut \/ Closing
    BY <1>4 DEF Enqueue, SameOut, Closing
  <2> QED  BY <2>1, <2>2
<1> QED  BY <1>1, <1>2, <1>3, <1>4, <1>5, HandlerKeepsLifeInv

(* The completion of a frame's write: what it knows, and what it leaves. *)
LEMMA FrameWrittenIs ==
  ASSUME LifeInv, FrameWritten
  PROVE  /\ Runs("written") /\ ~IsHandshake(Head(queue)) /\ IsWritten(Head(queue))
         /\ (open \/ closed) /\ connection # "none" /\ reading # "request"
         /\ open => /\ flight = <<>> /\ writing /\ outbox # <<>> /\ Head(queue).what = outbox[1]
                    /\ \A i \in 1 .. Len(queue') : ~IsWritten(queue'[i])
         /\ UNCHANGED <<serverVars, connection, reading, castVars, wireVars, pings>>
<1>1. /\ Runs("written") /\ Head(queue).kind = "written" /\ Head(queue).what \notin {Response, Refusal}
      /\ queue # <<>> /\ queue[1] = Head(queue) /\ Len(queue) \in Nat \ {0}
      /\ ~IsHandshake(Head(queue)) /\ IsWritten(Head(queue))
      /\ Len(queue') = Len(queue) - 1
      /\ \A i \in 1 .. Len(queue') : i + 1 \in 1 .. Len(queue) /\ queue'[i] = queue[i + 1]
  BY RunsFirst DEF FrameWritten, what, IsHandshake, IsWritten
<1>2. (open \/ closed) /\ connection # "none" /\ reading # "request"
  BY <1>1, AfterHandshakeRuns
<1>3. 1 \in 1 .. Len(queue)
  BY <1>1
<1>4. ASSUME open
      PROVE  /\ flight = <<>> /\ writing /\ outbox # <<>> /\ Head(queue).what = outbox[1]
             /\ \A i \in 1 .. Len(queue') : ~IsWritten(queue'[i])
  <2>1. flight = <<>> /\ writing /\ outbox # <<>> /\ Head(queue).what = outbox[1]
    BY <1>1, <1>3, <1>4 DEF LifeInv, OneWrite
  <2>2. \A i \in 1 .. Len(queue') : i + 1 # 1
    BY <1>1
  <2> QED  BY <1>1, <1>3, <1>4, <2>1, <2>2 DEF LifeInv, OneWrite
<1>5. UNCHANGED <<serverVars, connection, reading, castVars, wireVars, pings>>
  BY DEF FrameWritten
<1> QED  BY <1>1, <1>2, <1>4, <1>5

LEMMA FrameWrittenKeepsLifeInv ==
  ASSUME LifeInv, FrameWritten PROVE LifeInv'
<1> USE FrameWrittenIs DEF LifeInv, serverVars, castVars, wireVars
<1>1. /\ queue # <<>> /\ queue[1] = Head(queue) /\ queue' \in Seq(Handlers)
      /\ Len(queue) \in Nat \ {0} /\ Len(queue') = Len(queue) - 1
      /\ \A i \in 1 .. Len(queue') : i + 1 \in 1 .. Len(queue) /\ queue'[i] = queue[i + 1]
  BY RunsFirst
<1>2. \A i \in 1 .. Len(queue') : ~IsHandshake(queue'[i])
  BY <1>1 DEF AfterHandshake
<1>3. CASE ~ok /\ CloseUnlessClosed /\ UNCHANGED <<writing, flight, undefined>>
  <2>1. closed' /\ ~open' /\ outbox' \in Seq(Frames \cup {Pong}) /\ Len(outbox') <= Limit
        /\ closed' \in BOOLEAN /\ open' \in BOOLEAN /\ member' \in BOOLEAN /\ ~member'
    <3>1. CASE closed
      BY <1>3, <3>1 DEF CloseUnlessClosed, TypeOK, AfterHandshake
    <3>2. CASE ~closed
      <4>1. closed' = TRUE /\ open' = FALSE /\ outbox' = <<>> /\ member' = FALSE
        BY <1>3, <3>2 DEF CloseUnlessClosed, Close
      <4>2. <<>> \in Seq(Frames \cup {Pong}) /\ Len(<<>>) = 0 /\ 0 <= Limit
        BY EmptySeq, WsAssumption
      <4> QED  BY <4>1, <4>2
    <3> QED  BY <3>1, <3>2
  <2>2. TypeOK'
    BY <1>1, <1>3, <2>1 DEF TypeOK
  <2>3. BeforeOpen' /\ AfterHandshake' /\ OneWrite'
    BY <1>2, <1>3, <2>1 DEF BeforeOpen, AfterHandshake, OneWrite
  <2> QED  BY <2>2, <2>3
<1>4. CASE /\ ok /\ undefined' = (undefined \/ outbox = <<>>)
           /\ outbox' = IF outbox = <<>> THEN outbox ELSE Tail(outbox)
           /\ IF closed THEN writing' = FALSE /\ UNCHANGED flight ELSE WriteNext(outbox')
           /\ UNCHANGED <<closed, open, member>>
  <2>1. outbox' \in Seq(Frames \cup {Pong}) /\ Len(outbox') <= Limit
    <3>1. CASE outbox = <<>>
      BY <1>4, <3>1 DEF TypeOK
    <3>2. CASE outbox # <<>>
      <4>1. Tail(outbox) \in Seq(Frames \cup {Pong}) /\ Len(Tail(outbox)) = Len(outbox) - 1
            /\ Len(outbox) \in Nat /\ Len(outbox) <= Limit
        BY <3>2, Taking DEF TypeOK
      <4> QED  BY <1>4, <3>2, <4>1, WsAssumption
    <3> QED  BY <3>1, <3>2
  <2>2. CASE closed
    <3>1. TypeOK'
      BY <1>1, <1>4, <2>1, <2>2 DEF TypeOK
    <3>2. BeforeOpen' /\ AfterHandshake' /\ OneWrite'
      BY <1>2, <1>4, <2>2 DEF BeforeOpen, AfterHandshake, OneWrite, TypeOK
    <3> QED  BY <3>1, <3>2
  <2>3. CASE ~closed /\ outbox' = <<>>
    <3>1. open /\ writing' = FALSE /\ flight' = <<>> /\ Len(flight') = 0
      BY <1>4, <2>3, EmptySeq DEF WriteNext
    <3>2. TypeOK'
      BY <1>1, <1>4, <2>1, <3>1 DEF TypeOK
    <3>3. BeforeOpen' /\ AfterHandshake' /\ OneWrite'
      BY <1>2, <1>4, <2>3, <3>1 DEF BeforeOpen, AfterHandshake, OneWrite
    <3> QED  BY <3>2, <3>3
  <2>4. CASE ~closed /\ outbox' # <<>>
    <3>1. Head(outbox') = outbox'[1] /\ outbox'[1] \in Frames \cup {Pong}
      BY <2>1, <2>4, Taking
    <3>2. open /\ writing' = TRUE /\ flight' = Append(<<>>, outbox'[1])
      BY <1>4, <2>4, <3>1 DEF WriteNext
    <3>3. outbox'[1] \in Written /\ <<>> \in Seq(Written) /\ Len(<<>>) = 0
      BY <3>1, EmptySeq DEF Written
    <3>4. flight' \in Seq(Written) /\ Len(flight') = 1 /\ flight'[1] = outbox'[1]
      BY <3>2, <3>3, Appending
    <3>5. TypeOK'
      BY <1>1, <1>4, <2>1, <3>2, <3>4 DEF TypeOK
    <3>6. BeforeOpen' /\ AfterHandshake'
      <4>1. \A i \in 1 .. Len(flight') : flight'[i] \in Frames \cup {Pong}
        BY <3>1, <3>4
      <4>2. open' /\ (member' => open') /\ accept' = accept /\ connection' = connection
            /\ reading' = reading
        BY <1>4, <3>2
      <4> QED  BY <1>2, <4>1, <4>2 DEF BeforeOpen, AfterHandshake
    <3>7. OneWrite'
      BY <1>4, <2>4, <3>2, <3>4 DEF OneWrite
    <3> QED  BY <3>5, <3>6, <3>7
  <2> QED  BY <2>2, <2>3, <2>4
<1> QED  BY <1>3, <1>4 DEF FrameWritten

LEMMA ReleaseKeepsLifeInv ==
  ASSUME LifeInv, Release \/ UNCHANGED vars PROVE LifeInv'
<1> USE DEF LifeInv, Release, vars, serverVars, outVars, castVars, wireVars
<1>1. TypeOK'
  BY DEF TypeOK
<1>2. BeforeOpen' /\ AfterHandshake'
  BY DEF BeforeOpen, AfterHandshake, HandshakeToken, Unreferenced
<1>3. OneWrite'
  BY DEF OneWrite
<1> QED  BY <1>1, <1>2, <1>3

LEMMA NextKeepsLifeInv == LifeInv /\ [Next]_vars => LifeInv'
BY AcceptingKeepsLifeInv, BroadcastKeepsLifeInv, SendTextKeepsLifeInv, ReadCompletesKeepsLifeInv,
   WriteCompletesKeepsLifeInv, WriteFailsKeepsLifeInv, RequestReadKeepsLifeInv,
   HandshakeWrittenKeepsLifeInv, FrameReadKeepsLifeInv, SendPostedKeepsLifeInv,
   FrameWrittenKeepsLifeInv, ReleaseKeepsLifeInv
   DEF Next

LEMMA InitLifeInv == Init => LifeInv
<1> SUFFICES ASSUME Init PROVE LifeInv
  OBVIOUS
<1> USE DEF Init
<1>1. TypeOK
  <2>1. /\ queue \in Seq(Handlers) /\ flight \in Seq(Written)
        /\ outbox \in Seq(Frames \cup {Pong}) /\ Len(outbox) = 0
    BY EmptySeq
  <2>2. 0 <= Limit /\ 0 \in 0 .. MaxFrames /\ 0 \in 0 .. MaxPings
    BY WsAssumption
  <2> QED  BY <2>1, <2>2 DEF TypeOK
<1>2. BeforeOpen /\ AfterHandshake /\ OneWrite
  BY DEF BeforeOpen, AfterHandshake, OneWrite, HandshakeToken
<1> QED  BY <1>1, <1>2 DEF LifeInv

-----------------------------------------------------------------------------
(* How the places of frames move. *)

LEMMA QueueGrown ==
  ASSUME LifeInv, NEW h \in Handlers, queue' = Append(queue, h)
  PROVE  /\ \A i, b, n : Posted(i, b, n)' <=>
              \/ Posted(i, b, n)
              \/ i = Len(queue) + 1 /\ h.kind = "send" /\ h.what = [from |-> b, n |-> n]
         /\ \A i, b, n : Posted(i, b, n) => i \in Nat /\ i <= Len(queue)
         /\ Acknowledged' <=> Acknowledged \/ (IsWritten(h) /\ h.ok)
         /\ Len(queue) \in Nat
<1>1. /\ Len(queue) \in Nat /\ Len(queue') = Len(queue) + 1
      /\ \A i \in 1 .. Len(queue) : queue'[i] = queue[i]
      /\ queue'[Len(queue) + 1] = h
  BY Appending DEF LifeInv, TypeOK
<1>2. 1 .. Len(queue') = (1 .. Len(queue)) \cup {Len(queue) + 1}
  BY <1>1
<1>3. Acknowledged' <=> Acknowledged \/ (IsWritten(h) /\ h.ok)
  BY <1>1, <1>2 DEF Acknowledged, IsWritten
<1>4. \A i, b, n : Posted(i, b, n)' <=>
              \/ Posted(i, b, n)
              \/ i = Len(queue) + 1 /\ h.kind = "send" /\ h.what = [from |-> b, n |-> n]
  BY <1>1, <1>2 DEF Posted
<1>5. \A i, b, n : Posted(i, b, n) => i \in Nat /\ i <= Len(queue)
  BY <1>1 DEF Posted
<1> QED  BY <1>1, <1>3, <1>4, <1>5

LEMMA QueueTaken ==
  ASSUME LifeInv, NEW kind, Runs(kind)
  PROVE  /\ \A i, b, n : Posted(i, b, n)' => i \in Nat /\ Posted(i + 1, b, n)
         /\ \A i, b, n : Posted(i, b, n) =>
              \/ i = 1 /\ kind = "send" /\ Head(queue).what = [from |-> b, n |-> n]
              \/ Posted(i - 1, b, n)'
         /\ ~IsWritten(Head(queue)) => (Acknowledged' <=> Acknowledged)
<1>1. /\ queue # <<>> /\ queue[1] = Head(queue) /\ Head(queue).kind = kind
      /\ Len(queue) \in Nat \ {0} /\ Len(queue') = Len(queue) - 1
      /\ \A i \in 1 .. Len(queue') : i + 1 \in 1 .. Len(queue) /\ queue'[i] = queue[i + 1]
  BY RunsFirst
<1>2. \A i \in 1 .. Len(queue) : i = 1 \/ (i - 1 \in 1 .. Len(queue') /\ queue'[i - 1] = queue[i])
  BY <1>1
<1>3. \A i, b, n : Posted(i, b, n)' => i \in Nat /\ Posted(i + 1, b, n)
  BY <1>1 DEF Posted
<1>4. \A i, b, n : Posted(i, b, n) =>
              \/ i = 1 /\ kind = "send" /\ Head(queue).what = [from |-> b, n |-> n]
              \/ Posted(i - 1, b, n)'
  BY <1>1, <1>2 DEF Posted
<1>5. ~IsWritten(Head(queue)) => (Acknowledged' <=> Acknowledged)
  BY <1>1, <1>2 DEF Acknowledged, IsWritten
<1> QED  BY <1>3, <1>4, <1>5

LEMMA OutGrown ==
  ASSUME LifeInv, NEW f \in Frames \cup {Pong}, outbox' = Append(outbox, f)
  PROVE  /\ \A i, b, n : Waits(i, b, n)' <=>
              \/ Waits(i, b, n)
              \/ i = Len(outbox) + 1 /\ f = [from |-> b, n |-> n]
         /\ \A i, b, n : Waits(i, b, n) => i \in Nat \ {0} /\ i <= Len(outbox)
         /\ Len(outbox) \in Nat
<1>1. /\ Len(outbox) \in Nat /\ Len(outbox') = Len(outbox) + 1
      /\ \A i \in 1 .. Len(outbox) : outbox'[i] = outbox[i]
      /\ outbox'[Len(outbox) + 1] = f
  BY Appending DEF LifeInv, TypeOK
<1>2. 1 .. Len(outbox') = (1 .. Len(outbox)) \cup {Len(outbox) + 1}
  BY <1>1
<1> QED  BY <1>1, <1>2 DEF Waits

LEMMA OutTaken ==
  ASSUME LifeInv, outbox # <<>>, outbox' = Tail(outbox)
  PROVE  \A i, b, n : /\ Waits(i, b, n)' => i \in Nat \ {0} /\ Waits(i + 1, b, n)
                      /\ Waits(i, b, n) => i \in Nat \ {0} /\ (i = 1 \/ Waits(i - 1, b, n)')
<1>1. /\ Len(outbox) \in Nat \ {0} /\ Len(outbox') = Len(outbox) - 1
      /\ \A i \in 1 .. Len(outbox') : outbox'[i] = outbox[i + 1]
  BY Taking DEF LifeInv, TypeOK
<1>2. /\ \A i \in 1 .. Len(outbox') : i + 1 \in 1 .. Len(outbox)
      /\ \A i \in 1 .. Len(outbox) : i = 1 \/ (i - 1 \in 1 .. Len(outbox') /\ i - 1 + 1 = i)
  BY <1>1
<1> QED  BY <1>1, <1>2 DEF Waits

LEMMA OutKept ==
  ASSUME UNCHANGED outbox PROVE \A i, b, n : Waits(i, b, n)' <=> Waits(i, b, n)
BY DEF Waits

LEMMA NothingElseMoves ==
  ASSUME UNCHANGED <<targets, received>>
  PROVE  /\ \A b, n : Aimed(b, n)' <=> Aimed(b, n)
         /\ \A i, b, n : Arrived(i, b, n)' <=> Arrived(i, b, n)
         /\ \A b : received'[b][Len(received'[b])] = received[b][Len(received[b])]
BY DEF Aimed, Arrived

-----------------------------------------------------------------------------
(* The order of frames: one lemma per way in which they move. *)

(* They stay where they are; other handlers come and go. *)
LEMMA NoMoveKeepsOpenInv ==
  ASSUME OpenInv, UNCHANGED <<targets, received, sent>>,
         \A i, n : \A b \in Broadcasters : Waits(i, b, n)' <=> Waits(i, b, n),
         Acknowledged' <=> Acknowledged,
         \A i, b, n : Posted(i, b, n)' <=> Posted(i, b, n)
  PROVE  OpenInv'
<1> USE NothingElseMoves
<1>1. InOrder'
  BY DEF OpenInv, InOrder
<1>2. NoneMissing' /\ AcknowledgedArrived'
  BY DEF OpenInv, NoneMissing, Known, AcknowledgedArrived
<1> QED  BY <1>1, <1>2 DEF OpenInv

(* Another handler than a frame's is run. *)
LEMMA ShiftKeepsOpenInv ==
  ASSUME OpenInv, UNCHANGED <<targets, received, sent>>,
         \A i, n : \A b \in Broadcasters : Waits(i, b, n)' <=> Waits(i, b, n),
         Acknowledged' <=> Acknowledged,
         \A i, b, n : Posted(i, b, n)' => i \in Nat /\ Posted(i + 1, b, n),
         \A i, b, n : Posted(i, b, n) => Posted(i - 1, b, n)'
  PROVE  OpenInv'
<1> USE NothingElseMoves
<1>1. ASSUME NEW b \in Broadcasters, NEW m \in 1 .. MaxFrames, NEW n \in 1 .. MaxFrames
      PROVE  /\ \A i, j : Waits(i, b, m)' /\ Waits(j, b, n)' /\ i < j => m < n
             /\ \A i, j : Waits(i, b, m)' /\ Posted(j, b, n)' => m < n
             /\ \A i, j : Posted(i, b, m)' /\ Posted(j, b, n)' /\ i < j => m < n
             /\ \A i : (Waits(i, b, m)' \/ Posted(i, b, m)') /\ Aimed(b, n)' => m < n
  <2>1. \A i, j : Waits(i, b, m)' /\ Waits(j, b, n)' /\ i < j => m < n
    BY DEF OpenInv, InOrder
  <2>2. \A i, j : Waits(i, b, m)' /\ Posted(j, b, n)' => m < n
    BY DEF OpenInv, InOrder
  <2>3. \A i, j : Posted(i, b, m)' /\ Posted(j, b, n)' /\ i < j => m < n
    <3>1. \A i, j : Posted(i, b, m)' /\ Posted(j, b, n)' /\ i < j
            => Posted(i + 1, b, m) /\ Posted(j + 1, b, n) /\ i + 1 < j + 1
      OBVIOUS
    <3> QED  BY <3>1 DEF OpenInv, InOrder
  <2>4. \A i : (Waits(i, b, m)' \/ Posted(i, b, m)') /\ Aimed(b, n)' => m < n
    BY DEF OpenInv, InOrder
  <2> QED  BY <2>1, <2>2, <2>3, <2>4
<1>2. ASSUME NEW b \in Broadcasters, NEW m \in 1 .. MaxFrames, NEW n \in 1 .. MaxFrames
      PROVE  /\ \A i, j : Arrived(i, b, m)' /\ Waits(j, b, n)' /\ (j # 1 \/ ~Acknowledged') => m < n
             /\ \A i, j : Arrived(i, b, m)' /\ Posted(j, b, n)' => m < n
             /\ \A i : Arrived(i, b, m)' /\ Aimed(b, n)' => m < n
             /\ \A i : Arrived(i, b, m)' => m <= received'[b][Len(received'[b])]
  BY DEF OpenInv, InOrder
<1>3. InOrder'
  BY <1>1, <1>2 DEF InOrder
<1>4. \A n : \A b \in Broadcasters : Known(b, n)' <=> Known(b, n)
  BY DEF Known
<1>5. NoneMissing' /\ AcknowledgedArrived'
  BY <1>4 DEF OpenInv, NoneMissing, AcknowledgedArrived
<1> QED  BY <1>3, <1>5 DEF OpenInv

(* A frame goes from the strand's queue to the end of the outbox. *)
LEMMA SentKeepsOpenInv ==
  ASSUME OpenInv, UNCHANGED <<targets, received, sent>>,
         NEW f, Posted(1, f.from, f.n), NEW k \in Nat \ {0},
         \A i, b, n : Waits(i, b, n)' <=>
            Waits(i, b, n) \/ (i = k /\ f = [from |-> b, n |-> n]),
         \A i, b, n : Waits(i, b, n) => i \in Nat \ {0} /\ i < k,
         Acknowledged' <=> Acknowledged, Acknowledged => k # 1,
         \A i, b, n : Posted(i, b, n) => i \in Nat \ {0},
         \A i, b, n : Posted(i, b, n)' => i \in Nat \ {0} /\ Posted(i + 1, b, n),
         \A i, b, n : Posted(i, b, n) => \/ i = 1 /\ f = [from |-> b, n |-> n]
                                         \/ Posted(i - 1, b, n)'
  PROVE  OpenInv'
<1> USE NothingElseMoves
<1>1. ASSUME NEW b \in Broadcasters, NEW m \in 1 .. MaxFrames, NEW n \in 1 .. MaxFrames
      PROVE  /\ \A i, j : Waits(i, b, m)' /\ Waits(j, b, n)' /\ i < j => m < n
             /\ \A i, j : Waits(i, b, m)' /\ Posted(j, b, n)' => m < n
             /\ \A i, j : Posted(i, b, m)' /\ Posted(j, b, n)' /\ i < j => m < n
             /\ \A i : (Waits(i, b, m)' \/ Posted(i, b, m)') /\ Aimed(b, n)' => m < n
  <2>1. \A i, j : Waits(i, b, m)' /\ Waits(j, b, n)' /\ i < j
           => Waits(i, b, m) /\ (Waits(j, b, n) \/ Posted(1, b, n))
    OBVIOUS
  <2>2. \A i, j : Waits(i, b, m)' /\ Posted(j, b, n)'
           => \/ Waits(i, b, m) /\ Posted(j + 1, b, n)
              \/ Posted(1, b, m) /\ Posted(j + 1, b, n) /\ 1 < j + 1
    OBVIOUS
  <2>3. \A i, j : Posted(i, b, m)' /\ Posted(j, b, n)' /\ i < j
           => Posted(i + 1, b, m) /\ Posted(j + 1, b, n) /\ i + 1 < j + 1
    OBVIOUS
  <2>4. \A i : Waits(i, b, m)' => Waits(i, b, m) \/ Posted(1, b, m)
    OBVIOUS
  <2>5. /\ \A i, j : Waits(i, b, m)' /\ Waits(j, b, n)' /\ i < j => m < n
        /\ \A i, j : Waits(i, b, m)' /\ Posted(j, b, n)' => m < n
    BY <2>1, <2>2 DEF OpenInv, InOrder
  <2>6. \A i, j : Posted(i, b, m)' /\ Posted(j, b, n)' /\ i < j => m < n
    BY <2>3 DEF OpenInv, InOrder
  <2>7. \A i : (Waits(i, b, m)' \/ Posted(i, b, m)') /\ Aimed(b, n)' => m < n
    BY <2>4 DEF OpenInv, InOrder
  <2> QED  BY <2>5, <2>6, <2>7
<1>2. ASSUME NEW b \in Broadcasters, NEW m \in 1 .. MaxFrames, NEW n \in 1 .. MaxFrames
      PROVE  /\ \A i, j : Arrived(i, b, m)' /\ Waits(j, b, n)' /\ (j # 1 \/ ~Acknowledged') => m < n
             /\ \A i, j : Arrived(i, b, m)' /\ Posted(j, b, n)' => m < n
             /\ \A i : Arrived(i, b, m)' /\ Aimed(b, n)' => m < n
             /\ \A i : Arrived(i, b, m)' => m <= received'[b][Len(received'[b])]
  <2>1. \A j : Waits(j, b, n)' => Waits(j, b, n) \/ Posted(1, b, n)
    OBVIOUS
  <2>2. \A i, j : Arrived(i, b, m)' /\ Waits(j, b, n)' /\ (j # 1 \/ ~Acknowledged') => m < n
    BY <2>1 DEF OpenInv, InOrder
  <2> QED  BY <2>2 DEF OpenInv, InOrder
<1>3. InOrder'
  BY <1>1, <1>2 DEF InOrder
<1>4. \A n : \A b \in Broadcasters : Known(b, n)' <=> Known(b, n)
  <2>1. \A i, b, n : Waits(i, b, n) \/ Posted(i, b, n)
                       => Waits(i, b, n)' \/ Waits(k, b, n)' \/ Posted(i - 1, b, n)'
    OBVIOUS
  <2>2. \A i, b, n : Waits(i, b, n)' \/ Posted(i, b, n)'
                       => Waits(i, b, n) \/ Posted(1, b, n) \/ Posted(i + 1, b, n)
    OBVIOUS
  <2> QED  BY <2>1, <2>2 DEF Known
<1>5. NoneMissing'
  BY <1>4 DEF OpenInv, NoneMissing
<1>6. AcknowledgedArrived'
  BY DEF OpenInv, AcknowledgedArrived
<1> QED  BY <1>3, <1>5, <1>6 DEF OpenInv

(* A thread posts its frame: from its hands to the end of the strand's queue. *)
LEMMA PostedKeepsOpenInv ==
  ASSUME OpenInv, UNCHANGED <<received, sent>>,
         NEW a \in Broadcasters, NEW k \in Nat,
         \A i, b, n : Waits(i, b, n)' <=> Waits(i, b, n),
         Acknowledged' <=> Acknowledged,
         \A n : \A b \in Broadcasters : Aimed(b, n)' <=> b # a /\ Aimed(b, n),
         \A i, b, n : Posted(i, b, n) => i \in Nat /\ i < k,
         \A i, n : \A b \in Broadcasters :
            Posted(i, b, n)' <=> Posted(i, b, n) \/ (i = k /\ b = a /\ Aimed(a, n))
  PROVE  OpenInv'
<1>0. /\ \A i, b, n : Arrived(i, b, n)' <=> Arrived(i, b, n)
      /\ \A b : received'[b][Len(received'[b])] = received[b][Len(received[b])]
  BY DEF Arrived
<1>1. ASSUME NEW b \in Broadcasters, NEW m \in 1 .. MaxFrames, NEW n \in 1 .. MaxFrames
      PROVE  /\ \A i, j : Waits(i, b, m)' /\ Waits(j, b, n)' /\ i < j => m < n
             /\ \A i, j : Waits(i, b, m)' /\ Posted(j, b, n)' => m < n
             /\ \A i, j : Posted(i, b, m)' /\ Posted(j, b, n)' /\ i < j => m < n
             /\ \A i : (Waits(i, b, m)' \/ Posted(i, b, m)') /\ Aimed(b, n)' => m < n
  <2>1. \A i, j : Waits(i, b, m)' /\ Waits(j, b, n)' /\ i < j => m < n
    BY DEF OpenInv, InOrder
  <2>2. \A i, j : Waits(i, b, m)' /\ Posted(j, b, n)' => m < n
    BY DEF OpenInv, InOrder
  <2>3. \A i, j : Posted(i, b, m)' /\ Posted(j, b, n)' /\ i < j => m < n
    <3>1. \A i, j : Posted(i, b, m)' /\ Posted(j, b, n)' /\ i < j
            => Posted(i, b, m) /\ (Posted(j, b, n) \/ Aimed(b, n))
      OBVIOUS
    <3> QED  BY <3>1 DEF OpenInv, InOrder
  <2>4. \A i : (Waits(i, b, m)' \/ Posted(i, b, m)') /\ Aimed(b, n)' => m < n
    BY DEF OpenInv, InOrder
  <2> QED  BY <2>1, <2>2, <2>3, <2>4
<1>2. ASSUME NEW b \in Broadcasters, NEW m \in 1 .. MaxFrames, NEW n \in 1 .. MaxFrames
      PROVE  /\ \A i, j : Arrived(i, b, m)' /\ Waits(j, b, n)' /\ (j # 1 \/ ~Acknowledged') => m < n
             /\ \A i, j : Arrived(i, b, m)' /\ Posted(j, b, n)' => m < n
             /\ \A i : Arrived(i, b, m)' /\ Aimed(b, n)' => m < n
             /\ \A i : Arrived(i, b, m)' => m <= received'[b][Len(received'[b])]
  BY <1>0 DEF OpenInv, InOrder
<1>3. InOrder'
  BY <1>1, <1>2 DEF InOrder
<1>4. \A n : \A b \in Broadcasters : Known(b, n)' <=> Known(b, n)
  BY <1>0 DEF Known
<1>5. NoneMissing'
  BY <1>4 DEF OpenInv, NoneMissing
<1>6. AcknowledgedArrived'
  BY <1>0 DEF OpenInv, AcknowledgedArrived
<1> QED  BY <1>3, <1>5, <1>6 DEF OpenInv

(* A thread takes up the next frame. *)
LEMMA AimedKeepsOpenInv ==
  ASSUME OpenInv, TypeOK, ReceivedType, UNCHANGED <<outbox, queue, received>>,
         NEW a \in Broadcasters, \A n : ~Aimed(a, n), sent[a] < MaxFrames,
         sent' = [sent EXCEPT ![a] = @ + 1],
         \A n : \A b \in Broadcasters : Aimed(b, n)' <=> Aimed(b, n) \/ (b = a /\ n = sent[a] + 1)
  PROVE  OpenInv'
<1>0. /\ \A i, b, n : Arrived(i, b, n)' <=> Arrived(i, b, n)
      /\ \A i, b, n : Waits(i, b, n)' <=> Waits(i, b, n)
      /\ \A i, b, n : Posted(i, b, n)' <=> Posted(i, b, n)
      /\ Acknowledged' <=> Acknowledged
      /\ \A b : received'[b][Len(received'[b])] = received[b][Len(received[b])]
  BY DEF Arrived, Waits, Posted, Acknowledged, IsWritten
<1>1. sent[a] \in 0 .. MaxFrames /\ MaxFrames \in Nat /\ sent'[a] = sent[a] + 1
  BY WsAssumption DEF TypeOK
<1>2. \A b \in Broadcasters : b # a => sent'[b] = sent[b]
  BY DEF TypeOK
<1>3. ASSUME NEW b \in Broadcasters, NEW m \in 1 .. MaxFrames, NEW n \in 1 .. MaxFrames
      PROVE  /\ \A i : (Waits(i, b, m)' \/ Posted(i, b, m)') /\ Aimed(b, n)' => m < n
             /\ \A i : Arrived(i, b, m)' /\ Aimed(b, n)' => m < n
  <2>1. \A i : Waits(i, b, m) \/ Posted(i, b, m) \/ Arrived(i, b, m) => m <= sent[b]
    BY DEF OpenInv, NoneMissing, Known
  <2>2. CASE Aimed(b, n)
    BY <1>0, <2>2 DEF OpenInv, InOrder
  <2>3. CASE ~Aimed(b, n)
    BY <1>0, <1>1, <2>1, <2>3
  <2> QED  BY <2>2, <2>3
<1>4. InOrder'
  BY <1>0, <1>3 DEF OpenInv, InOrder
<1>5. \A n : \A b \in Broadcasters : Known(b, n)' <=> Known(b, n) \/ (b = a /\ n = sent[a] + 1)
  BY <1>0 DEF Known
<1>6. NoneMissing'
  BY <1>1, <1>2, <1>5 DEF OpenInv, NoneMissing
<1>7. AcknowledgedArrived'
  BY <1>0 DEF OpenInv, AcknowledgedArrived
<1> QED  BY <1>4, <1>6, <1>7 DEF OpenInv

(* The write of the outbox's first frame is acknowledged: the frame leaves. *)
LEMMA PoppedKeepsOpenInv ==
  ASSUME OpenInv, UNCHANGED <<targets, received, sent>>, TypeOK, Acknowledged, ~Acknowledged',
         \A i, b, n : Waits(i, b, n)' => i \in Nat \ {0} /\ Waits(i + 1, b, n),
         \A i, b, n : Waits(i, b, n) => i = 1 \/ Waits(i - 1, b, n)',
         \A i, b, n : Posted(i, b, n)' => i \in Nat /\ Posted(i + 1, b, n),
         \A i, b, n : Posted(i, b, n) => Posted(i - 1, b, n)'
  PROVE  OpenInv'
<1> USE NothingElseMoves
<1>1. ASSUME NEW b \in Broadcasters, NEW m \in 1 .. MaxFrames, NEW n \in 1 .. MaxFrames
      PROVE  /\ \A i, j : Waits(i, b, m)' /\ Waits(j, b, n)' /\ i < j => m < n
             /\ \A i, j : Waits(i, b, m)' /\ Posted(j, b, n)' => m < n
             /\ \A i, j : Posted(i, b, m)' /\ Posted(j, b, n)' /\ i < j => m < n
             /\ \A i : (Waits(i, b, m)' \/ Posted(i, b, m)') /\ Aimed(b, n)' => m < n
  <2>1. \A i, j : Waits(i, b, m)' /\ Waits(j, b, n)' /\ i < j
           => Waits(i + 1, b, m) /\ Waits(j + 1, b, n) /\ i + 1 < j + 1
    OBVIOUS
  <2>2. \A i, j : Posted(i, b, m)' /\ Posted(j, b, n)' /\ i < j
           => Posted(i + 1, b, m) /\ Posted(j + 1, b, n) /\ i + 1 < j + 1
    OBVIOUS
  <2>3. \A i : Waits(i, b, m)' \/ Posted(i, b, m)' => Waits(i + 1, b, m) \/ Posted(i + 1, b, m)
    OBVIOUS
  <2>4. \A i, j : Waits(i, b, m)' /\ Waits(j, b, n)' /\ i < j => m < n
    BY <2>1 DEF OpenInv, InOrder
  <2>5. \A i, j : Posted(i, b, m)' /\ Posted(j, b, n)' /\ i < j => m < n
    BY <2>2 DEF OpenInv, InOrder
  <2>6. \A i : (Waits(i, b, m)' \/ Posted(i, b, m)') /\ Aimed(b, n)' => m < n
    BY <2>3 DEF OpenInv, InOrder
  <2>7. \A i, j : Waits(i, b, m)' /\ Posted(j, b, n)' => m < n
    BY DEF OpenInv, InOrder
  <2> QED  BY <2>4, <2>5, <2>6, <2>7
<1>2. ASSUME NEW b \in Broadcasters, NEW m \in 1 .. MaxFrames, NEW n \in 1 .. MaxFrames
      PROVE  /\ \A i, j : Arrived(i, b, m)' /\ Waits(j, b, n)' /\ (j # 1 \/ ~Acknowledged') => m < n
             /\ \A i, j : Arrived(i, b, m)' /\ Posted(j, b, n)' => m < n
             /\ \A i : Arrived(i, b, m)' /\ Aimed(b, n)' => m < n
             /\ \A i : Arrived(i, b, m)' => m <= received'[b][Len(received'[b])]
  <2>1. \A j : Waits(j, b, n)' => Waits(j + 1, b, n) /\ j + 1 # 1
    OBVIOUS
  <2>2. \A i, j : Arrived(i, b, m)' /\ Waits(j, b, n)' => m < n
    BY <2>1 DEF OpenInv, InOrder
  <2> QED  BY <2>2 DEF OpenInv, InOrder
<1>3. InOrder'
  BY <1>1, <1>2 DEF InOrder
<1>4. \A b \in Broadcasters : \A n \in 1 .. MaxFrames : Known(b, n)' <=> Known(b, n)
  <2>1. \A b \in Broadcasters : \A n \in 1 .. MaxFrames : Waits(1, b, n) => \E i : Arrived(i, b, n)
    BY DEF OpenInv, AcknowledgedArrived
  <2> QED  BY <2>1 DEF Known
<1>5. ASSUME NEW b \in Broadcasters, NEW n \in 1 .. MaxFrames
      PROVE  /\ Known(b, n)' => n <= sent'[b]
             /\ Known(b, n)' /\ n < sent'[b] => Known(b, n + 1)'
  <2>1. n < sent[b] => n + 1 \in 1 .. MaxFrames
    BY WsAssumption DEF TypeOK
  <2>2. n < sent[b] => (Known(b, n + 1)' <=> Known(b, n + 1))
    BY <1>4, <2>1
  <2> QED  BY <1>4, <2>2 DEF OpenInv, NoneMissing
<1>6. NoneMissing' /\ AcknowledgedArrived'
  BY <1>5 DEF NoneMissing, AcknowledgedArrived
<1> QED  BY <1>3, <1>6 DEF OpenInv

(* The client receives the outbox's first frame. *)
LEMMA DeliveredKeepsOrder ==
  ASSUME OpenInv, TypeOK, ReceivedType, ClientSeesEveryFrame,
         UNCHANGED <<outbox, targets, sent, garbled>>, outbox # <<>>, ~Acknowledged, Acknowledged',
         \A i, b, n : Posted(i, b, n)' <=> Posted(i, b, n),
         received' = [b \in Broadcasters |-> IF outbox[1].from = b
                                               THEN Append(received[b], outbox[1].n)
                                               ELSE received[b]]
  PROVE  OpenInv' /\ ReceivedType' /\ ClientSeesEveryFrame'
<1> DEFINE f == outbox[1]
<1>1. outbox[1] \in Frames \cup {Pong} /\ 1 \in 1 .. Len(outbox)
  BY Taking DEF TypeOK
<1>2. /\ \A i, b, n : Waits(i, b, n)' <=> Waits(i, b, n)
      /\ \A b, n : Aimed(b, n)' <=> Aimed(b, n)
      /\ \A i, b, n : Waits(i, b, n) => i \in Nat \ {0}
      /\ \A b, n : Waits(1, b, n) => outbox[1].from = b /\ outbox[1].n = n
  BY DEF Waits, Aimed
<1>3. CASE f.from \notin Broadcasters
  <2>1. received' = received
    BY <1>3 DEF ReceivedType
  <2>2. \A b \in Broadcasters : \A n : ~Waits(1, b, n)
    BY <1>2, <1>3
  <2>3. /\ \A i, b, n : Arrived(i, b, n)' <=> Arrived(i, b, n)
    BY <2>1 DEF Arrived
  <2>4. InOrder'
    BY <1>2, <2>1, <2>3 DEF OpenInv, InOrder
  <2>5. NoneMissing' /\ AcknowledgedArrived'
    BY <1>2, <2>2, <2>3 DEF OpenInv, NoneMissing, AcknowledgedArrived, Known
  <2> QED  BY <2>1, <2>4, <2>5 DEF OpenInv, ReceivedType, ClientSeesEveryFrame
<1>4. CASE f.from \in Broadcasters
  <2>1. f \in Frames
    BY <1>1, <1>4, SendersAssumption DEF Pong
  <2> DEFINE a == f.from
             p == f.n
             l == Len(received[a])
  <2>2. f = [from |-> a, n |-> p] /\ a \in Broadcasters /\ p \in 1 .. MaxFrames
    BY <2>1 DEF Frames
  <2>3. Waits(1, a, p) /\ \A i, n : Waits(i, a, n) /\ i = 1 => n = p
    BY <1>1, <2>2 DEF Waits
  <2>4. received[a] \in Seq(1 .. MaxFrames) /\ received'[a] = Append(received[a], p)
    BY <1>4 DEF ReceivedType
  <2> HIDE DEF f, a, p, l
  <2>5. /\ l \in Nat /\ received'[a] \in Seq(1 .. MaxFrames)
        /\ Len(received'[a]) = l + 1 /\ received'[a][l + 1] = p
        /\ \A i \in 1 .. l : received'[a][i] = received[a][i]
    <3>1. /\ Len(received[a]) \in Nat /\ received'[a] \in Seq(1 .. MaxFrames)
          /\ Len(received'[a]) = Len(received[a]) + 1 /\ received'[a][Len(received[a]) + 1] = p
          /\ \A i \in 1 .. Len(received[a]) : received'[a][i] = received[a][i]
      <4>1. /\ Len(received[a]) \in Nat /\ Append(received[a], p) \in Seq(1 .. MaxFrames)
            /\ Len(Append(received[a], p)) = Len(received[a]) + 1
            /\ Append(received[a], p)[Len(received[a]) + 1] = p
            /\ \A i \in 1 .. Len(received[a]) : Append(received[a], p)[i] = received[a][i]
        BY <2>2, <2>4, Appending
      <4> QED  BY <2>4, <4>1
    <3> QED  BY <3>1 DEF l
  <2>6. \A b \in Broadcasters : b # a => received'[b] = received[b]
    BY DEF a, f
  <2>7. \A i, n : \A b \in Broadcasters :
          Arrived(i, b, n)' <=> Arrived(i, b, n) \/ (b = a /\ i = l + 1 /\ n = p)
    <3>1. ASSUME NEW i, NEW n
          PROVE  Arrived(i, a, n)' <=> Arrived(i, a, n) \/ (i = l + 1 /\ n = p)
      <4>1. 1 .. (l + 1) = (1 .. l) \cup {l + 1} /\ l + 1 \notin 1 .. l
        BY <2>5
      <4>2. Arrived(i, a, n) <=> i \in 1 .. l /\ received[a][i] = n
        BY DEF Arrived, l
      <4>3. Arrived(i, a, n)' <=> i \in 1 .. l + 1 /\ received'[a][i] = n
        <5>1. Arrived(i, a, n)' <=> i \in 1 .. Len(received'[a]) /\ received'[a][i] = n
          BY DEF Arrived, a, f
        <5> QED  BY <2>5, <5>1
      <4> QED  BY <2>5, <4>1, <4>2, <4>3
    <3>2. ASSUME NEW i, NEW n, NEW b \in Broadcasters, b # a
          PROVE  Arrived(i, b, n)' <=> Arrived(i, b, n)
      BY <2>6, <3>2 DEF Arrived
    <3>3. ASSUME NEW i, NEW n, NEW b \in Broadcasters
          PROVE  Arrived(i, b, n)' <=> Arrived(i, b, n) \/ (b = a /\ i = l + 1 /\ n = p)
      <4>1. CASE b = a
        <5>1. Arrived(i, b, n)' <=> Arrived(i, a, n)'
          BY <4>1 DEF Arrived, a, f
        <5> QED  BY <3>1, <4>1, <5>1
      <4>2. CASE b # a
        BY <3>2, <4>2
      <4> QED  BY <4>1, <4>2
    <3> QED  BY <3>3
  <2>8. \A i : \A n \in 1 .. MaxFrames : Arrived(i, a, n) => n < p
    BY <2>2, <2>3 DEF OpenInv, InOrder
  <2>9. ASSUME NEW b \in Broadcasters, NEW m \in 1 .. MaxFrames, NEW n \in 1 .. MaxFrames
        PROVE  /\ \A i, j : Arrived(i, b, m)' /\ Waits(j, b, n)' /\ (j # 1 \/ ~Acknowledged') => m < n
               /\ \A i, j : Arrived(i, b, m)' /\ Posted(j, b, n)' => m < n
               /\ \A i : Arrived(i, b, m)' /\ Aimed(b, n)' => m < n
               /\ \A i : Arrived(i, b, m)' => m <= received'[b][Len(received'[b])]
    <3>1. ASSUME NEW i, Arrived(i, b, m)'
          PROVE  /\ \A j : Waits(j, b, n)' /\ j # 1 => m < n
                 /\ \A j : Posted(j, b, n)' => m < n
                 /\ Aimed(b, n)' => m < n
      <4>1. CASE Arrived(i, b, m)
        BY <1>2, <4>1 DEF OpenInv, InOrder
      <4>2. CASE b = a /\ m = p
        <5>1. \A j : Waits(j, b, n) /\ j # 1 => 1 < j
          BY <1>2
        <5> QED  BY <1>2, <2>3, <4>2, <5>1 DEF OpenInv, InOrder
      <4> QED  BY <2>7, <3>1, <4>1, <4>2
    <3>2. ASSUME NEW i, Arrived(i, b, m)'
          PROVE  m <= received'[b][Len(received'[b])]
      <4>1. CASE b = a
        BY <2>2, <2>5, <2>7, <2>8, <3>2, <4>1
      <4>2. CASE b # a
        BY <2>6, <2>7, <3>2, <4>2 DEF OpenInv, InOrder
      <4> QED  BY <4>1, <4>2
    <3> QED  BY <3>1, <3>2
  <2>10. InOrder'
    <3>1. ASSUME NEW b \in Broadcasters, NEW m \in 1 .. MaxFrames, NEW n \in 1 .. MaxFrames
          PROVE  /\ \A i, j : Waits(i, b, m)' /\ Waits(j, b, n)' /\ i < j => m < n
                 /\ \A i, j : Waits(i, b, m)' /\ Posted(j, b, n)' => m < n
                 /\ \A i, j : Posted(i, b, m)' /\ Posted(j, b, n)' /\ i < j => m < n
                 /\ \A i : (Waits(i, b, m)' \/ Posted(i, b, m)') /\ Aimed(b, n)' => m < n
      BY <1>2 DEF OpenInv, InOrder
    <3> QED  BY <2>9, <3>1 DEF InOrder
  <2>11. \A n : \A b \in Broadcasters : Known(b, n)' <=> Known(b, n)
    BY <1>2, <2>3, <2>7 DEF Known
  <2>12. NoneMissing'
    BY <2>11 DEF OpenInv, NoneMissing
  <2>13. AcknowledgedArrived'
    BY <1>2, <2>7 DEF AcknowledgedArrived, a, p, f
  <2>14. p <= sent[a]
    BY <2>2, <2>3 DEF OpenInv, NoneMissing, Known
  <2>15. ReceivedType'
    <3>1. received' \in [Broadcasters -> Seq(1 .. MaxFrames)]
      <4>1. \A b \in Broadcasters : received'[b] \in Seq(1 .. MaxFrames)
        BY <2>5, <2>6 DEF ReceivedType
      <4> QED  BY <4>1
    <3>2. \A b \in Broadcasters : \A i \in 1 .. Len(received'[b]) : received'[b][i] <= sent'[b]
      <4>1. \A i \in 1 .. l + 1 : received'[a][i] <= sent[a]
        <5>1. \A i \in 1 .. l + 1 : i \in 1 .. l \/ i = l + 1
          BY <2>5
        <5> QED  BY <2>2, <2>5, <2>14, <5>1 DEF ReceivedType, l
      <4> QED  BY <2>5, <2>6, <4>1 DEF ReceivedType
    <3> QED  BY <3>1, <3>2 DEF ReceivedType
  <2>16. ASSUME l # 0 PROVE p = received[a][l] + 1
    <3> DEFINE q == received[a][l]
    <3>1. l \in 1 .. l /\ q \in 1 .. MaxFrames
      <4>1. l \in 1 .. l
        BY <2>5, <2>16
      <4>2. \A i \in 1 .. Len(received[a]) : received[a][i] \in 1 .. MaxFrames
        BY <2>4, ElementOfSeq
      <4> QED  BY <4>1, <4>2 DEF l
    <3> HIDE DEF q
    <3>2. Arrived(l, a, q)
      BY <3>1 DEF Arrived, l, q
    <3>3. q < p /\ sent[a] \in Nat
      BY <2>2, <2>8, <3>1, <3>2 DEF TypeOK
    <3>4. Known(a, q + 1) /\ q + 1 \in 1 .. MaxFrames
      <4>1. q < sent[a] /\ q + 1 \in 1 .. MaxFrames
        BY <2>2, <2>14, <3>1, <3>3, WsAssumption
      <4> QED  BY <2>2, <3>1, <3>2, <4>1 DEF OpenInv, NoneMissing, Known
    <3>5. \A i : ~Arrived(i, a, q + 1)
      <4>1. \A i : Arrived(i, a, q + 1) => q + 1 <= q
        BY <2>2, <3>4 DEF OpenInv, InOrder, q, l
      <4> QED  BY <3>1, <4>1
    <3>6. q + 1 = p \/ p < q + 1
      <4>1. \A i : Waits(i, a, q + 1) => i = 1 \/ 1 < i
        BY <1>2
      <4>2. CASE \E i : Waits(i, a, q + 1)
        BY <2>2, <2>3, <3>4, <4>1, <4>2 DEF OpenInv, InOrder
      <4>3. CASE (\E i : Posted(i, a, q + 1)) \/ Aimed(a, q + 1)
        BY <2>2, <2>3, <3>4, <4>3 DEF OpenInv, InOrder
      <4> QED  BY <3>4, <3>5, <4>2, <4>3 DEF Known
    <3>7. p = q + 1
      BY <2>2, <3>1, <3>3, <3>6
    <3> QED  BY <3>7 DEF q
  <2>17. ClientSeesEveryFrame'
    <3>1. ASSUME NEW i \in 1 .. l PROVE received'[a][i + 1] = received'[a][i] + 1
      <4>1. CASE i = l
        BY <2>5, <2>16, <4>1
      <4>2. CASE i # l
        <5>1. i \in 1 .. l - 1 /\ i + 1 \in 1 .. l
          BY <2>5, <4>2
        <5> QED  BY <2>2, <2>5, <5>1 DEF ClientSeesEveryFrame, l
      <4> QED  BY <4>1, <4>2
    <3>2. \A b \in Broadcasters : \A i \in 1 .. Len(received'[b]) - 1 :
            received'[b][i + 1] = received'[b][i] + 1
      <4>1. l + 1 - 1 = l
        BY <2>5
      <4>2. ASSUME NEW b \in Broadcasters
            PROVE  \A i \in 1 .. Len(received'[b]) - 1 : received'[b][i + 1] = received'[b][i] + 1
        <5>1. CASE b = a
          BY <2>5, <3>1, <4>1, <5>1
        <5>2. CASE b # a
          <6>1. received'[b] = received[b]
            BY <2>6, <5>2
          <6>2. \A i \in 1 .. Len(received[b]) - 1 : received[b][i + 1] = received[b][i] + 1
            BY DEF ClientSeesEveryFrame
          <6> QED  BY <6>1, <6>2
        <5> QED  BY <5>1, <5>2
      <4> QED  BY <4>2
    <3> QED  BY <3>2 DEF ClientSeesEveryFrame
  <2> QED  BY <2>10, <2>12, <2>13, <2>15, <2>17 DEF OpenInv
<1> QED  BY <1>3, <1>4

-----------------------------------------------------------------------------
(* The order of frames: one lemma per action. *)

LEMMA NoneIsNoFrame == \A b, n : None # [from |-> b, n |-> n]
<1>1. DOMAIN None = {}
  BY DEF None
<1>2. \A b, n : DOMAIN [from |-> b, n |-> n] = {"from", "n"}
  OBVIOUS
<1> QED  BY <1>1, <1>2

(* Without an open connection there is nothing to keep in order. *)
LEMMA NotOpenKeepsOrderInv ==
  ASSUME OrderInv, ~open', closed' \/ (~open /\ ~closed), OwnFrames',
         UNCHANGED <<received, sent, garbled>>
  PROVE  OrderInv'
BY DEF OrderInv, ReceivedType, ClientSeesEveryFrame

LEMMA OpenKeepsOrderInv ==
  ASSUME OrderInv, open', OwnFrames', OpenInv', UNCHANGED <<received, sent, garbled>>
  PROVE  OrderInv'
BY DEF OrderInv, ReceivedType, ClientSeesEveryFrame

(* The frames' places are not touched by the rest of the server. *)
LEMMA QuietKeepsOrderInv ==
  ASSUME LifeInv, OrderInv,
         UNCHANGED <<open, closed, outbox, targets, received, sent, garbled>>,
         queue' = queue \/ (\E h \in Handlers : /\ queue' = Append(queue, h) /\ h.kind # "send"
                                                /\ ~(IsWritten(h) /\ h.ok))
  PROVE  OrderInv'
<1>1. OwnFrames'
  BY DEF OrderInv, OwnFrames
<1>2. CASE open
  <2>1. \A i, b, n : Waits(i, b, n)' <=> Waits(i, b, n)
    BY DEF Waits
  <2>2. /\ Acknowledged' <=> Acknowledged
        /\ \A i, b, n : Posted(i, b, n)' <=> Posted(i, b, n)
    <3>1. CASE queue' = queue
      BY <3>1 DEF Acknowledged, Posted, IsWritten
    <3>2. ASSUME NEW h \in Handlers, queue' = Append(queue, h), h.kind # "send",
                 ~(IsWritten(h) /\ h.ok)
          PROVE  /\ Acknowledged' <=> Acknowledged
                 /\ \A i, b, n : Posted(i, b, n)' <=> Posted(i, b, n)
      BY <3>2, QueueGrown
    <3> QED  BY <3>1, <3>2
  <2>3. OpenInv /\ OpenInv'
    BY <1>2, <2>1, <2>2, NoMoveKeepsOpenInv DEF OrderInv
  <2> QED  BY <1>1, <1>2, <2>3, OpenKeepsOrderInv
<1>3. CASE ~open
  <2>1. closed \/ (~open /\ ~closed)
    BY <1>3 DEF LifeInv, TypeOK
  <2> QED  BY <1>1, <1>3, <2>1, NotOpenKeepsOrderInv
<1> QED  BY <1>2, <1>3

LEMMA OthersKeepOrderInv ==
  ASSUME LifeInv, OrderInv,
         \/ ClientConnects \/ AcceptHandler \/ Stop \/ Release \/ ReadCompletes \/ WriteFails
         \/ UNCHANGED vars
  PROVE  OrderInv'
<1>1. CASE ClientConnects \/ AcceptHandler \/ Stop \/ Release \/ UNCHANGED vars
  <2>1. UNCHANGED <<open, closed, outbox, targets, received, sent, garbled>> /\ queue' = queue
    BY <1>1 DEF ClientConnects, AcceptHandler, Stop, Release, vars, outVars, castVars, wireVars
  <2> QED  BY <2>1, QuietKeepsOrderInv
<1>2. CASE ReadCompletes
  <2>1. UNCHANGED <<open, closed, outbox, targets, received, sent, garbled>>
    BY <1>2 DEF ReadCompletes, outVars, castVars, wireVars
  <2>2. PICK good \in BOOLEAN :
          queue' = Append(queue, [kind |-> "read", ok |-> good, what |-> reading])
    BY <1>2 DEF ReadCompletes, Ready
  <2>3. reading \in Parts
    BY <1>2 DEF ReadCompletes, LifeInv, TypeOK
  <2>4. [kind |-> "read", ok |-> good, what |-> reading] \in Handlers
    BY <2>3 DEF Handlers
  <2> QED  BY <2>1, <2>2, <2>4, QuietKeepsOrderInv DEF IsWritten
<1>3. CASE WriteFails
  <2>1. UNCHANGED <<open, closed, outbox, targets, received, sent, garbled>>
    BY <1>3 DEF WriteFails, castVars, wireVars
  <2>2. Head(flight) \in Written
    BY <1>3, Taking DEF WriteFails, LifeInv, TypeOK
  <2>3. [kind |-> "written", ok |-> FALSE, what |-> Head(flight)] \in Handlers
    BY <2>2 DEF Handlers
  <2> QED  BY <1>3, <2>1, <2>3, QuietKeepsOrderInv DEF IsWritten, WriteFails, Ready
<1> QED  BY <1>1, <1>2, <1>3

LEMMA BroadcastKeepsOrderInv ==
  ASSUME LifeInv, OrderInv, NEW a \in Broadcasters, Broadcast(a) PROVE OrderInv'
<1>1. /\ UNCHANGED <<open, closed, outbox, queue, received, garbled>>
      /\ targets[a] = None /\ sent[a] < MaxFrames /\ sent' = [sent EXCEPT ![a] = @ + 1]
      /\ targets' = [targets EXCEPT ![a] = IF member THEN [from |-> a, n |-> sent'[a]] ELSE None]
  BY DEF Broadcast, outVars, wireVars
<1>2. sent[a] \in Nat /\ sent'[a] = sent[a] + 1
      /\ \A b \in Broadcasters : sent[b] \in Nat /\ sent[b] <= sent'[b]
  BY <1>1 DEF LifeInv, TypeOK
<1>3. /\ targets' \in [Broadcasters -> Frames \cup {None}]
      /\ \A b \in Broadcasters : b # a => targets'[b] = targets[b]
      /\ targets'[a] = IF member THEN [from |-> a, n |-> sent[a] + 1] ELSE None
  BY <1>1, <1>2, BroadcastKeepsLifeInv DEF LifeInv, TypeOK
<1>4. OwnFrames'
  BY <1>3 DEF OrderInv, OwnFrames
<1>5. ReceivedType'
  <2>1. \A b \in Broadcasters : \A i \in 1 .. Len(received[b]) : received[b][i] \in 1 .. MaxFrames
    BY ElementOfSeq DEF OrderInv, ReceivedType
  <2>2. ASSUME NEW b \in Broadcasters, NEW i \in 1 .. Len(received[b])
        PROVE  received[b][i] <= sent'[b]
    BY <1>1, <1>2, <2>1 DEF OrderInv, ReceivedType
  <2> QED  BY <1>1, <2>2 DEF OrderInv, ReceivedType
<1>6. ClientSeesEveryFrame'
  BY <1>1 DEF OrderInv, ClientSeesEveryFrame
<1>7. CASE open
  <2>1. member
    BY <1>7 DEF LifeInv, TypeOK
  <2>2. \A b \in Broadcasters : \A n : Aimed(b, n)' <=> Aimed(b, n) \/ (b = a /\ n = sent[a] + 1)
    <3>1. ASSUME NEW n PROVE Aimed(a, n)' <=> n = sent[a] + 1
      <4>1. [from |-> a, n |-> sent[a] + 1] = [from |-> a, n |-> n] <=> n = sent[a] + 1
        OBVIOUS
      <4> QED  BY <1>3, <2>1, <4>1 DEF Aimed
    <3>2. \A n : ~Aimed(a, n)
      BY <1>1, NoneIsNoFrame DEF Aimed
    <3>3. ASSUME NEW b \in Broadcasters, b # a, NEW n PROVE Aimed(b, n)' <=> Aimed(b, n)
      BY <1>3, <3>3 DEF Aimed
    <3>4. ASSUME NEW b \in Broadcasters, NEW n
          PROVE  Aimed(b, n)' <=> Aimed(b, n) \/ (b = a /\ n = sent[a] + 1)
      <4>1. CASE b = a
        BY <3>1, <3>2, <4>1
      <4>2. CASE b # a
        BY <3>3, <4>2
      <4> QED  BY <4>1, <4>2
    <3> QED  BY <3>4
  <2>3. \A n : ~Aimed(a, n)
    BY <1>1, NoneIsNoFrame DEF Aimed
  <2>4. OpenInv'
    BY <1>1, <1>7, <2>2, <2>3, AimedKeepsOpenInv DEF OrderInv, LifeInv
  <2> QED  BY <1>1, <1>4, <1>5, <1>6, <1>7, <2>4 DEF OrderInv
<1>8. CASE ~open
  BY <1>1, <1>4, <1>5, <1>6, <1>8 DEF OrderInv
<1> QED  BY <1>7, <1>8

LEMMA SendTextKeepsOrderInv ==
  ASSUME LifeInv, OrderInv, NEW a \in Broadcasters, SendText(a) PROVE OrderInv'
<1>1. /\ UNCHANGED <<open, closed, outbox, received, sent, garbled>>
      /\ targets[a] # None /\ targets' = [targets EXCEPT ![a] = None]
      /\ open => queue' = Append(queue, [kind |-> "send", ok |-> TRUE, what |-> targets[a]])
  BY DEF SendText, outVars, wireVars
<1>2. /\ targets'[a] = None
      /\ \A b \in Broadcasters : b # a => targets'[b] = targets[b]
  BY <1>1 DEF LifeInv, TypeOK
<1>3. OwnFrames'
  BY <1>2 DEF OrderInv, OwnFrames
<1>4. CASE open
  <2> DEFINE h == [kind |-> "send", ok |-> TRUE, what |-> targets[a]]
  <2>1. targets[a] \in Frames /\ targets[a].from = a
    BY <1>1 DEF LifeInv, TypeOK, OrderInv, OwnFrames
  <2>2. h \in Handlers /\ h.kind = "send" /\ h.what = targets[a] /\ ~IsWritten(h)
    BY <2>1 DEF Handlers, IsWritten
  <2>3. queue' = Append(queue, h)
    BY <1>1, <1>4
  <2> HIDE DEF h
  <2>4. /\ \A i, b, n : Posted(i, b, n)' <=>
              \/ Posted(i, b, n)
              \/ i = Len(queue) + 1 /\ h.kind = "send" /\ h.what = [from |-> b, n |-> n]
        /\ \A i, b, n : Posted(i, b, n) => i \in Nat /\ i <= Len(queue)
        /\ Acknowledged' <=> Acknowledged \/ (IsWritten(h) /\ h.ok)
        /\ Len(queue) \in Nat
    BY <2>2, <2>3, QueueGrown
  <2>5. \A i, n : \A b \in Broadcasters :
          Posted(i, b, n)' <=> Posted(i, b, n) \/ (i = Len(queue) + 1 /\ b = a /\ Aimed(a, n))
    <3>1. \A b, n : h.what = [from |-> b, n |-> n] <=> b = a /\ Aimed(a, n)
      BY <2>1, <2>2 DEF Aimed
    <3> QED  BY <2>2, <2>4, <3>1
  <2>6. \A n : \A b \in Broadcasters : Aimed(b, n)' <=> b # a /\ Aimed(b, n)
    <3>1. ASSUME NEW b \in Broadcasters, NEW n PROVE Aimed(b, n)' <=> b # a /\ Aimed(b, n)
      <4>1. CASE b = a
        BY <1>2, <4>1, NoneIsNoFrame DEF Aimed
      <4>2. CASE b # a
        BY <1>2, <4>2 DEF Aimed
      <4> QED  BY <4>1, <4>2
    <3> QED  BY <3>1
  <2>7. /\ Len(queue) + 1 \in Nat /\ Acknowledged' <=> Acknowledged
        /\ \A i, b, n : Posted(i, b, n) => i \in Nat /\ i < Len(queue) + 1
        /\ \A i, b, n : Waits(i, b, n)' <=> Waits(i, b, n)
    BY <1>1, <2>2, <2>4 DEF Waits
  <2>8. OpenInv'
    BY <1>1, <1>4, <2>5, <2>6, <2>7, PostedKeepsOpenInv DEF OrderInv
  <2> QED  BY <1>1, <1>3, <1>4, <2>8, OpenKeepsOrderInv
<1>5. CASE ~open
  <2>1. closed \/ (~open /\ ~closed)
    BY <1>5 DEF LifeInv, TypeOK
  <2> QED  BY <1>1, <1>3, <1>5, <2>1, NotOpenKeepsOrderInv
<1> QED  BY <1>4, <1>5

LEMMA WriteCompletesKeepsOrderInv ==
  ASSUME LifeInv, OrderInv, WriteCompletes PROVE OrderInv'
<1>1. /\ flight # <<>> /\ ~closed
      /\ queue' = Append(queue, [kind |-> "written", ok |-> TRUE, what |-> flight[1]])
      /\ received' = [b \in Broadcasters |-> IF flight[1].from = b
                                               THEN Append(received[b], flight[1].n)
                                               ELSE received[b]]
      /\ UNCHANGED <<outbox, targets, sent, garbled, open, closed>>
  BY WriteCompletesIs DEF castVars
<1>2. flight[1] \in Written /\ 1 \in 1 .. Len(flight)
  BY <1>1, Taking DEF LifeInv, TypeOK
<1>3. OwnFrames'
  BY <1>1 DEF OrderInv, OwnFrames
<1>4. CASE open
  <2>1. flight[1] = outbox[1] /\ outbox # <<>> /\ ~Acknowledged
    BY <1>1, <1>4 DEF LifeInv, OneWrite, Acknowledged
  <2> DEFINE h == [kind |-> "written", ok |-> TRUE, what |-> flight[1]]
  <2>2. h \in Handlers /\ h.kind = "written" /\ IsWritten(h) /\ h.ok /\ queue' = Append(queue, h)
    BY <1>1, <1>2 DEF Handlers, IsWritten
  <2> HIDE DEF h
  <2>3. Acknowledged' /\ \A i, b, n : Posted(i, b, n)' <=> Posted(i, b, n)
    BY <2>2, QueueGrown
  <2>4. received' = [b \in Broadcasters |-> IF outbox[1].from = b
                                               THEN Append(received[b], outbox[1].n)
                                               ELSE received[b]]
    BY <1>1, <2>1
  <2>5. OpenInv' /\ ReceivedType' /\ ClientSeesEveryFrame'
    BY <1>1, <1>4, <2>1, <2>3, <2>4, DeliveredKeepsOrder DEF OrderInv, LifeInv
  <2> QED  BY <1>1, <1>3, <1>4, <2>5 DEF OrderInv
<1>5. CASE ~open
  <2>1. flight[1] \in {Response, Refusal}
    BY <1>1, <1>5 DEF LifeInv, BeforeOpen, HandshakeToken
  <2>2. flight[1].from \notin Broadcasters
    BY <2>1, SendersAssumption DEF Response, Refusal
  <2>3. received' = received
    <3>1. received' = [b \in Broadcasters |-> received[b]]
      BY <1>1, <2>2
    <3> QED  BY <3>1 DEF OrderInv, ReceivedType
  <2> QED  BY <1>1, <1>3, <1>5, <2>3, NotOpenKeepsOrderInv
<1> QED  BY <1>4, <1>5

LEMMA RequestReadKeepsOrderInv ==
  ASSUME LifeInv, OrderInv, RequestRead PROVE OrderInv'
<1>1. queue # <<>> /\ IsHandshake(queue[1])
  BY RunsFirst DEF RequestRead, IsHandshake, what
<1>2. ~open /\ ~closed
  BY <1>1, HandshakeRuns
<1>3. ~open' /\ UNCHANGED <<targets, received, sent, garbled>>
  BY <1>2 DEF RequestRead, CloseUnlessClosed, Close, castVars, wireVars
<1>4. OwnFrames'
  BY <1>3 DEF OrderInv, OwnFrames
<1> QED  BY <1>2, <1>3, <1>4, NotOpenKeepsOrderInv

(* The connection opens with nothing under way. *)
LEMMA HandshakeWrittenKeepsOrderInv ==
  ASSUME LifeInv, OrderInv, HandshakeWritten PROVE OrderInv'
<1>1. queue # <<>> /\ IsHandshake(queue[1]) /\ (queue' = <<>> <=> Len(queue) = 1)
  BY RunsFirst DEF HandshakeWritten, IsHandshake, IsWritten, what
<1>2. /\ ~open /\ ~closed /\ outbox = <<>> /\ queue' = <<>>
      /\ \A b \in Broadcasters : targets[b] = None
  BY <1>1, HandshakeRuns
<1>3. UNCHANGED <<targets, received, sent, garbled>>
  BY DEF HandshakeWritten, castVars, wireVars
<1>4. OwnFrames'
  BY <1>3 DEF OrderInv, OwnFrames
<1>5. CASE open'
  <2>1. outbox' = <<>>
    BY <1>2, <1>5 DEF HandshakeWritten, CloseUnlessClosed, Close
  <2>2. 1 .. Len(outbox') = {} /\ 1 .. Len(queue') = {}
    BY <1>2, <2>1, EmptySeq
  <2>3. \A b \in Broadcasters : received'[b] = <<>> /\ 1 .. Len(received'[b]) = {}
    BY <1>2, <1>3, EmptySeq DEF OrderInv
  <2>4. /\ \A i, b, n : ~Waits(i, b, n)' /\ ~Posted(i, b, n)'
        /\ ~Acknowledged'
    BY <2>2 DEF Waits, Posted, Acknowledged
  <2>5. \A n : \A b \in Broadcasters : ~Aimed(b, n)'
    BY <1>2, <1>3, NoneIsNoFrame DEF Aimed
  <2>6. \A i, n : \A b \in Broadcasters : ~Arrived(i, b, n)'
    BY <2>3 DEF Arrived
  <2>7. InOrder'
    BY <2>4, <2>5, <2>6 DEF InOrder
  <2>8. NoneMissing' /\ AcknowledgedArrived'
    BY <2>4, <2>5, <2>6 DEF NoneMissing, Known, AcknowledgedArrived
  <2>9. OpenInv'
    BY <2>7, <2>8 DEF OpenInv
  <2> QED  BY <1>3, <1>4, <1>5, <2>9, OpenKeepsOrderInv
<1>6. CASE ~open'
  BY <1>2, <1>3, <1>4, <1>6, NotOpenKeepsOrderInv
<1> QED  BY <1>5, <1>6

(* A handler that is no completion of a write is run: what is queued is its
   own frame, or the pong that answers a ping. *)
LEMMA HandlerKeepsOrderInv ==
  ASSUME LifeInv, OrderInv, NEW kind, Runs(kind), ~IsHandshake(Head(queue)), kind # "written",
         \/ (SameOut \/ Queued(Pong)) /\ kind = "read"
         \/ Queued(Head(queue).what) /\ kind = "send"
         \/ SameOut /\ closed
         \/ Closing,
         UNCHANGED <<targets, received, sent, garbled>>
  PROVE  OrderInv'
<1>1. /\ queue # <<>> /\ queue[1] = Head(queue) /\ Head(queue) \in Handlers
      /\ Head(queue).kind = kind /\ ~IsWritten(Head(queue)) /\ 1 \in 1 .. Len(queue)
  BY RunsFirst DEF IsWritten
<1>2. open \/ closed
  BY <1>1, AfterHandshakeRuns
<1>3. OwnFrames'
  BY DEF OrderInv, OwnFrames
<1>4. /\ \A i, b, n : Posted(i, b, n)' => i \in Nat /\ Posted(i + 1, b, n)
      /\ \A i, b, n : Posted(i, b, n) =>
           \/ i = 1 /\ kind = "send" /\ Head(queue).what = [from |-> b, n |-> n]
           \/ Posted(i - 1, b, n)'
      /\ Acknowledged' <=> Acknowledged
  BY <1>1, QueueTaken
<1>5. CASE Closing
  BY <1>3, <1>5, NotOpenKeepsOrderInv DEF Closing, Close
<1>6. CASE SameOut /\ closed
  <2>1. ~open' /\ closed'
    BY <1>6 DEF LifeInv, TypeOK, SameOut
  <2> QED  BY <1>3, <2>1, NotOpenKeepsOrderInv
<1>7. CASE SameOut /\ kind = "read" /\ open
  <2>1. \A i, n : \A b \in Broadcasters : Waits(i, b, n)' <=> Waits(i, b, n)
    BY <1>7 DEF SameOut, outVars, Waits
  <2>2. OpenInv'
    BY <1>4, <1>7, <2>1, ShiftKeepsOpenInv DEF OrderInv
  <2> QED  BY <1>3, <1>7, <2>2, OpenKeepsOrderInv DEF SameOut
<1>8. CASE Queued(Pong) /\ kind = "read"
  <2>1. open /\ open' /\ outbox' = Append(outbox, Pong)
    BY <1>8 DEF Queued
  <2>2. \A i, b, n : Waits(i, b, n)' <=>
           \/ Waits(i, b, n)
           \/ i = Len(outbox) + 1 /\ Pong = [from |-> b, n |-> n]
    BY <2>1, OutGrown
  <2>3. \A n : \A b \in Broadcasters : Pong # [from |-> b, n |-> n]
    BY SendersAssumption DEF Pong
  <2>4. OpenInv'
    BY <1>4, <1>8, <2>1, <2>2, <2>3, ShiftKeepsOpenInv DEF OrderInv
  <2> QED  BY <1>3, <2>1, <2>4, OpenKeepsOrderInv
<1>9. CASE Queued(Head(queue).what) /\ kind = "send"
  <2> DEFINE f == Head(queue).what
  <2>1. f \in Frames /\ f = [from |-> f.from, n |-> f.n]
    BY <1>1, <1>9 DEF Handlers, Frames
  <2>2. Posted(1, f.from, f.n)
    BY <1>1, <1>9, <2>1 DEF Posted
  <2>3. open /\ open' /\ outbox' = Append(outbox, f)
    BY <1>9 DEF Queued
  <2> HIDE DEF f
  <2>4. /\ \A i, b, n : Waits(i, b, n)' <=>
              \/ Waits(i, b, n)
              \/ i = Len(outbox) + 1 /\ f = [from |-> b, n |-> n]
        /\ \A i, b, n : Waits(i, b, n) => i \in Nat \ {0} /\ i <= Len(outbox)
        /\ Len(outbox) \in Nat
    BY <2>1, <2>3, OutGrown
  <2>5. Acknowledged => Len(outbox) + 1 # 1
    <3>1. Acknowledged => outbox # <<>>
      BY <2>3 DEF LifeInv, OneWrite, Acknowledged
    <3>2. outbox # <<>> => Len(outbox) # 0
      BY EmptySeq DEF LifeInv, TypeOK
    <3> QED  BY <2>4, <3>1, <3>2
  <2>6. /\ \A i, b, n : Posted(i, b, n) => i \in Nat \ {0}
        /\ \A i, b, n : Posted(i, b, n)' => i \in Nat \ {0}
    <3>1. queue \in Seq(Handlers) /\ queue' \in Seq(Handlers)
      BY RunsFirst DEF LifeInv, TypeOK
    <3>2. Len(queue) \in Nat /\ Len(queue') \in Nat
      BY <3>1, LenProperties
    <3> QED  BY <3>2 DEF Posted
  <2>7. /\ \A i, b, n : Posted(i, b, n)' => i \in Nat \ {0} /\ Posted(i + 1, b, n)
        /\ \A i, b, n : Posted(i, b, n) => \/ i = 1 /\ f = [from |-> b, n |-> n]
                                           \/ Posted(i - 1, b, n)'
    BY <1>4, <2>6 DEF f
  <2>8. Len(outbox) + 1 \in Nat \ {0} /\ \A i, b, n : Waits(i, b, n) => i \in Nat \ {0} /\ i < Len(outbox) + 1
    BY <2>4
  <2>9. OpenInv
    BY <2>3 DEF OrderInv
  <2>10. OpenInv'
    BY <1>4, <2>2, <2>4, <2>5, <2>6, <2>7, <2>8, <2>9, SentKeepsOpenInv
  <2> QED  BY <1>3, <2>3, <2>10, OpenKeepsOrderInv
<1> QED  BY <1>2, <1>5, <1>6, <1>7, <1>8, <1>9

LEMMA FrameReadKeepsOrderInv ==
  ASSUME LifeInv, OrderInv, FrameRead PROVE OrderInv'
<1>1. Runs("read") /\ ~IsHandshake(Head(queue)) /\ queue # <<>> /\ queue[1] = Head(queue)
  BY RunsFirst DEF FrameRead, what, IsHandshake, IsWritten
<1>2. open \/ closed
  BY <1>1, AfterHandshakeRuns
<1>3. UNCHANGED <<targets, received, sent, garbled>>
  BY DEF FrameRead, castVars, wireVars
<1>4. SameOut \/ Closing \/ Queued(Pong)
  <2>1. \/ SameOut \/ Enqueue(Pong)
        \/ CloseUnlessClosed /\ UNCHANGED <<writing, flight>>
    BY DEF FrameRead, HandleFrame, SameOut, outVars
  <2> QED  BY <1>2, <2>1, EnqueueIs, CloseUnlessClosedIs
<1> QED  BY <1>1, <1>3, <1>4, HandlerKeepsOrderInv

LEMMA SendPostedKeepsOrderInv ==
  ASSUME LifeInv, OrderInv, SendPosted PROVE OrderInv'
<1>1. /\ Runs("send") /\ ~IsHandshake(Head(queue)) /\ queue # <<>> /\ queue[1] = Head(queue)
      /\ Head(queue) \in Handlers /\ Head(queue).kind = "send"
  BY RunsFirst DEF SendPosted, IsHandshake, IsWritten
<1>2. Head(queue).what \in Frames
  BY <1>1 DEF Handlers
<1>3. open \/ closed
  BY <1>1, AfterHandshakeRuns
<1>4. UNCHANGED <<targets, received, sent, garbled>> /\ Enqueue(Head(queue).what)
  BY DEF SendPosted, what, castVars, wireVars
<1>5. (SameOut /\ closed) \/ Closing \/ Queued(Head(queue).what)
  <2>1. SameOut \/ Closing \/ Queued(Head(queue).what)
    BY <1>2, <1>3, <1>4, EnqueueIs
  <2>2. CASE ~closed /\ SameOut
    <3>1. CASE TooSlow
      BY <1>4, <2>2, <3>1 DEF Enqueue, Closing
    <3>2. CASE ~TooSlow
      <4>1. outbox' = Append(outbox, Head(queue).what) /\ outbox' = outbox
        BY <1>4, <2>2, <3>2 DEF Enqueue, SameOut, outVars
      <4>2. Len(outbox) \in Nat /\ Len(Append(outbox, Head(queue).what)) = Len(outbox) + 1
        BY <1>2, Appending DEF LifeInv, TypeOK
      <4>3. \A n \in Nat : n + 1 # n
        OBVIOUS
      <4> QED  BY <4>1, <4>2, <4>3
    <3> QED  BY <3>1, <3>2
  <2> QED  BY <2>1, <2>2
<1> QED  BY <1>1, <1>4, <1>5, HandlerKeepsOrderInv

LEMMA FrameWrittenKeepsOrderInv ==
  ASSUME LifeInv, OrderInv, FrameWritten PROVE OrderInv'
<1>1. /\ Runs("written") /\ IsWritten(Head(queue)) /\ (open \/ closed)
      /\ open => /\ outbox # <<>>
                 /\ \A i \in 1 .. Len(queue') : ~IsWritten(queue'[i])
      /\ UNCHANGED <<targets, received, sent, garbled>>
  BY FrameWrittenIs DEF castVars, wireVars
<1>2. OwnFrames'
  BY <1>1 DEF OrderInv, OwnFrames
<1>3. queue[1] = Head(queue) /\ 1 \in 1 .. Len(queue)
  BY <1>1, RunsFirst
<1>4. CASE ~open'
  <2>1. closed'
    BY <1>1, <1>4 DEF FrameWritten, CloseUnlessClosed, Close
  <2> QED  BY <1>1, <1>2, <1>4, <2>1, NotOpenKeepsOrderInv
<1>5. CASE open'
  <2>1. open /\ ~closed /\ ok /\ outbox' = IF outbox = <<>> THEN outbox ELSE Tail(outbox)
    BY <1>5 DEF FrameWritten, CloseUnlessClosed, Close, LifeInv, TypeOK
  <2>2. Acknowledged
    BY <1>1, <1>3, <2>1 DEF Acknowledged, ok
  <2>3. ~Acknowledged'
    BY <1>1, <2>1 DEF Acknowledged, IsWritten
  <2>4. /\ \A i, b, n : Posted(i, b, n)' => i \in Nat /\ Posted(i + 1, b, n)
        /\ \A i, b, n : Posted(i, b, n) => Posted(i - 1, b, n)'
    <3>1. "written" # "send"
      OBVIOUS
    <3>2. Runs("written")
      BY <1>1
    <3> QED  BY <3>1, <3>2, QueueTaken
  <2>5. \A i, b, n : /\ Waits(i, b, n)' => i \in Nat \ {0} /\ Waits(i + 1, b, n)
                     /\ Waits(i, b, n) => i \in Nat \ {0} /\ (i = 1 \/ Waits(i - 1, b, n)')
    BY <1>1, <2>1, OutTaken
  <2>6. OpenInv'
    BY <1>1, <2>1, <2>2, <2>3, <2>4, <2>5, PoppedKeepsOpenInv DEF OrderInv, LifeInv
  <2> QED  BY <1>1, <1>2, <1>5, <2>6, OpenKeepsOrderInv
<1> QED  BY <1>4, <1>5

-----------------------------------------------------------------------------
(* The inductive invariant, and what it is for. *)

IInv == LifeInv /\ OrderInv

LEMMA InitIInv == Init => IInv
<1> SUFFICES ASSUME Init PROVE IInv
  OBVIOUS
<1>1. LifeInv
  BY InitLifeInv
<1>2. \A b \in Broadcasters : received[b] = <<>> /\ Len(received[b]) = 0
  BY EmptySeq DEF Init
<1>3. ReceivedType
  <2>1. received \in [Broadcasters -> Seq(1 .. MaxFrames)]
    BY EmptySeq DEF Init
  <2> QED  BY <1>2, <2>1 DEF ReceivedType
<1>4. OwnFrames /\ ~open /\ ~garbled
  BY DEF Init, OwnFrames
<1>5. ClientSeesEveryFrame
  BY <1>2, <1>4 DEF ClientSeesEveryFrame
<1> QED  BY <1>1, <1>2, <1>3, <1>4, <1>5 DEF IInv, OrderInv

LEMMA NextKeepsIInv == IInv /\ [Next]_vars => IInv'
<1> SUFFICES ASSUME LifeInv, OrderInv, [Next]_vars PROVE OrderInv'
  BY NextKeepsLifeInv DEF IInv
<1> QED
  BY OthersKeepOrderInv, BroadcastKeepsOrderInv, SendTextKeepsOrderInv,
     WriteCompletesKeepsOrderInv, RequestReadKeepsOrderInv, HandshakeWrittenKeepsOrderInv,
     FrameReadKeepsOrderInv, SendPostedKeepsOrderInv, FrameWrittenKeepsOrderInv
     DEF Next

LEMMA IInvHolds == Spec => []IInv
BY InitIInv, NextKeepsIInv, PTL DEF Spec

(* The variables of the connection keep their types, and an open connection
   is in connections_ and not closed. *)
THEOREM TypeCorrectness == Spec => []TypeOK
<1>1. IInv => TypeOK
  BY DEF IInv, LifeInv
<1> QED  BY <1>1, IInvHolds, PTL

(* However many threads broadcast, and however their frames are interleaved
   with pings, closing and the end of writes, the client receives the frames
   of each thread whole, in order and with none left out or repeated:
   outbox_, writing_ and the order of the strand are enough for it. *)
THEOREM FramesArriveInOrder == Spec => []ClientSeesEveryFrame
<1>1. IInv => ClientSeesEveryFrame
  BY DEF IInv, OrderInv
<1> QED  BY <1>1, IInvHolds, PTL
=============================================================================
