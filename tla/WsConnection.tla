---------------------------- MODULE WsConnection ----------------------------
(***************************************************************************)
(* The WebSocket server (src/api/ws_server.cpp) with one client: the       *)
(* accept loop, the connection's handshake, its frame read loop, its       *)
(* queue of outgoing frames with one write in flight, and close(), while   *)
(* several polling threads broadcast.                                      *)
(*                                                                         *)
(* The connection's handlers run on its strand: one at a time, in the      *)
(* order they were queued.  An asynchronous read or write is outstanding   *)
(* until the system completes it; its handler is then in the queue with    *)
(* the outcome, whatever happens to the socket before it runs.  Closing    *)
(* the socket makes the outstanding operations fail.                       *)
(***************************************************************************)
EXTENDS Integers, SequencesExt

CONSTANTS
  Broadcasters,   \* threads that call broadcast()
  Limit,          \* kMaxQueuedFrames
  MaxFrames,      \* bound of a run: broadcasts of each thread
  MaxPings        \* bound of a run: pings of the client

ASSUME WsAssumption == Limit \in Nat \ {0} /\ MaxFrames \in Nat /\ MaxPings \in Nat
(* What is not a broadcast is told from what a thread sends by its sender. *)
ASSUME SendersAssumption == Broadcasters \cap {"pong", "response", "refusal"} = {}

VARIABLES
  acceptor, accept,   \* the acceptor; its outstanding accept, or the handler's outcome
  connection,         \* "none", "started" once accepted, "released" when destroyed
  queue,              \* the strand: handlers that are ready to run
  reading,            \* the outstanding read
  flight,             \* the outstanding writes
  open, closed,       \* open_, closed_
  outbox, writing,    \* outbox_, writing_
  member,             \* the connection is in connections_
  targets, sent,      \* each broadcast in progress; the broadcasts of each thread
  received,           \* history: what the client received of each thread, in order
  garbled,            \* history: bytes of two writes were mixed
  pings,              \* history: pings received
  undefined           \* history: pop_front was called on an empty deque

serverVars == <<acceptor, accept>>
outVars    == <<outbox, writing, flight>>
castVars   == <<targets, sent>>
wireVars   == <<received, garbled>>
vars == <<serverVars, connection, queue, reading, outVars, open, closed, member,
          castVars, wireVars, pings, undefined>>

None == <<>>
Frames == [from : Broadcasters, n : 1 .. MaxFrames]
Pong == [from |-> "pong", n |-> 0]
Response == [from |-> "response", n |-> 0]     \* 101 Switching Protocols
Refusal == [from |-> "refusal", n |-> 0]       \* 400 or 401
Parts == {"request", "header", "length", "mask", "payload"}
Written == Frames \cup {Pong, Response, Refusal}
Handlers == [kind : {"read"}, ok : BOOLEAN, what : Parts]
              \cup [kind : {"written"}, ok : BOOLEAN, what : Written]
              \cup [kind : {"send"}, ok : {TRUE}, what : Frames]

TypeOK ==
  /\ acceptor \in {"open", "closed"}
  /\ accept \in {"waiting", "accepted", "failed", "aborted", "none"}
  /\ connection \in {"none", "started", "released"}
  /\ queue \in Seq(Handlers) /\ reading \in Parts \cup {"none"}
  /\ flight \in Seq(Written)
  /\ {open, closed, writing, member, garbled, undefined} \subseteq BOOLEAN
  /\ outbox \in Seq(Frames \cup {Pong}) /\ Len(outbox) <= Limit
  /\ open => ~closed /\ member
  /\ targets \in [Broadcasters -> Frames \cup {None}]
  /\ sent \in [Broadcasters -> 0 .. MaxFrames]
  /\ pings \in 0 .. MaxPings

Init ==
  /\ acceptor = "open" /\ accept = "waiting" /\ connection = "none"
  /\ queue = <<>> /\ reading = "none" /\ flight = <<>>
  /\ open = FALSE /\ closed = FALSE /\ outbox = <<>> /\ writing = FALSE
  /\ member = FALSE /\ targets = [b \in Broadcasters |-> None]
  /\ sent = [b \in Broadcasters |-> 0]
  /\ received = [b \in Broadcasters |-> <<>>] /\ garbled = FALSE /\ pings = 0 /\ undefined = FALSE

-----------------------------------------------------------------------------
(* Plausible mistakes: variants of the definitions below, not part of the
   specification.  Each is what some property is there to notice. *)

(* The limit is looked at one frame too late. *)
TooSlowOneLate == Len(outbox) > Limit

(* A write is started although one is in flight. *)
MayStartAlways == TRUE

(* A closed connection is not taken out of connections_. *)
CloseKeepsMember ==
  /\ closed' = TRUE /\ open' = FALSE /\ outbox' = <<>> /\ UNCHANGED member

(* When the queue is empty after a write, writing_ stays set. *)
WriteNextStaysBusy(frames) ==
  \/ frames = <<>> /\ UNCHANGED <<writing, flight>>
  \/ frames # <<>> /\ writing' = TRUE /\ flight' = Append(flight, Head(frames))

-----------------------------------------------------------------------------
(* Helpers, all of them on the strand. *)

TooSlow == Len(outbox) >= Limit
MayStart == ~writing

(* write_next, when the outbox holds these frames and closed_ is false. *)
WriteNext(frames) ==
  \/ frames = <<>> /\ writing' = FALSE /\ UNCHANGED flight
  \/ frames # <<>> /\ writing' = TRUE /\ flight' = Append(flight, Head(frames))

(* close() the first time: the socket, the outbox, and on_closed_. *)
Close == closed' = TRUE /\ open' = FALSE /\ outbox' = <<>> /\ member' = FALSE
CloseUnlessClosed ==
  IF closed THEN UNCHANGED <<closed, open, outbox, member>> ELSE Close

Enqueue(frame) ==
  IF closed THEN UNCHANGED <<closed, open, member, outVars>>
  ELSE IF TooSlow THEN Close /\ UNCHANGED <<writing, flight>>
  ELSE /\ outbox' = Append(outbox, frame)
       /\ IF MayStart THEN WriteNext(outbox') ELSE UNCHANGED <<writing, flight>>
       /\ UNCHANGED <<closed, open, member>>

(* The handler at the head of the strand's queue. *)
Runs(kind) == queue # <<>> /\ Head(queue).kind = kind /\ queue' = Tail(queue)
ok == Head(queue).ok
what == Head(queue).what

-----------------------------------------------------------------------------
(* WsServer: the accept loop and stop(). *)

(* The system completes the accept. *)
ClientConnects ==
  /\ accept = "waiting" /\ acceptor = "open" /\ accept' \in {"accepted", "failed"}
  /\ accept' = "accepted" => connection = "none"
  /\ UNCHANGED <<acceptor, connection, queue, reading, outVars, open, closed, member,
                 castVars, wireVars, pings, undefined>>

(* The handler: start the connection, whose first read is the request, and
   accept again.  Accepting on a closed acceptor fails at once, with another
   error than the one the loop ends on. *)
AcceptHandler ==
  /\ \/ accept = "aborted" /\ accept' = "none" /\ UNCHANGED <<connection, reading>>
     \/ /\ accept \in {"accepted", "failed"}
        /\ accept' = IF acceptor = "open" THEN "waiting" ELSE "failed"
        /\ \/ accept = "failed" /\ UNCHANGED <<connection, reading>>
           \/ accept = "accepted" /\ connection' = "started" /\ reading' = "request"
  /\ UNCHANGED <<acceptor, queue, outVars, open, closed, member, castVars, wireVars,
                 pings, undefined>>

Stop ==
  /\ acceptor = "open" /\ acceptor' = "closed"
  /\ accept' = IF accept = "waiting" THEN "aborted" ELSE accept
  /\ UNCHANGED <<connection, queue, reading, outVars, open, closed, member, castVars,
                 wireVars, pings, undefined>>

(* broadcast: the targets are copied under the lock, then send_text, which
   posts the frame unless the connection is not open. *)
Broadcast(b) ==
  /\ targets[b] = None /\ sent[b] < MaxFrames
  /\ sent' = [sent EXCEPT ![b] = @ + 1]
  /\ targets' = [targets EXCEPT ![b] = IF member THEN [from |-> b, n |-> sent'[b]]
                                                 ELSE None]
  /\ UNCHANGED <<serverVars, connection, queue, reading, outVars, open, closed, member,
                 wireVars, pings, undefined>>

SendText(b) ==
  /\ targets[b] # None /\ targets' = [targets EXCEPT ![b] = None]
  /\ queue' = IF open THEN Append(queue, [kind |-> "send", ok |-> TRUE,
                                          what |-> targets[b]])
                      ELSE queue
  /\ UNCHANGED <<serverVars, connection, reading, outVars, open, closed, member, sent,
                 wireVars, pings, undefined>>

-----------------------------------------------------------------------------
(* The system and the client: outstanding operations complete. *)

Ready(kind, good, of) == queue' = Append(queue, [kind |-> kind, ok |-> good, what |-> of])

(* A read is complete, or the client is gone; closing aborts it. *)
ReadCompletes ==
  /\ reading # "none" /\ reading' = "none"
  /\ \E good \in BOOLEAN : (good => ~closed) /\ Ready("read", good, reading)
  /\ UNCHANGED <<serverVars, connection, outVars, open, closed, member, castVars, wireVars,
                 pings, undefined>>

(* A write is complete; beside another one its bytes are mixed with those. *)
WriteCompletes ==
  /\ flight # <<>> /\ ~closed
  /\ \E i \in DOMAIN flight :
       /\ Ready("written", TRUE, flight[i]) /\ flight' = RemoveAt(flight, i)
       /\ received' = [b \in Broadcasters |-> IF flight[i].from = b
                                                THEN Append(received[b], flight[i].n)
                                                ELSE received[b]]
       /\ garbled' = (garbled \/ Len(flight) > 1)
  /\ UNCHANGED <<serverVars, connection, reading, outbox, writing, open, closed,
                 member, castVars, pings, undefined>>

WriteFails ==
  /\ flight # <<>> /\ Ready("written", FALSE, Head(flight)) /\ flight' = Tail(flight)
  /\ UNCHANGED <<serverVars, connection, reading, outbox, writing, open, closed,
                 member, castVars, wireVars, pings, undefined>>

-----------------------------------------------------------------------------
(* The connection's handlers. *)

(* The handshake: an answer, or a refusal after which it closes. *)
RequestRead ==
  /\ Runs("read") /\ what = "request"
  /\ \/ ~ok /\ CloseUnlessClosed /\ UNCHANGED flight
     \/ /\ ok /\ flight' \in {Append(flight, Response), Append(flight, Refusal)}
        /\ UNCHANGED <<closed, open, outbox, member>>
  /\ UNCHANGED <<serverVars, connection, reading, writing, castVars, wireVars, pings,
                 undefined>>

HandshakeWritten ==
  /\ Runs("written") /\ what \in {Response, Refusal}
  /\ \/ /\ what = Response /\ ok
        /\ open' = TRUE /\ member' = TRUE /\ reading' = "header"
        /\ UNCHANGED <<closed, outbox>>
     \/ (what = Refusal \/ ~ok) /\ CloseUnlessClosed /\ UNCHANGED reading
  /\ UNCHANGED <<serverVars, connection, writing, flight, castVars, wireVars, pings,
                 undefined>>

(* handle_frame, then the next header - on a socket it may have closed. *)
HandleFrame ==
  /\ reading' = "header"
  /\ \/ CloseUnlessClosed /\ UNCHANGED <<writing, flight, pings>>     \* close frame
     \/ pings < MaxPings /\ pings' = pings + 1 /\ Enqueue(Pong)       \* ping
     \/ UNCHANGED <<closed, open, member, outVars, pings>>            \* any other

FrameRead ==
  /\ Runs("read") /\ what # "request"
  /\ \/ ~ok /\ CloseUnlessClosed /\ UNCHANGED <<reading, writing, flight, pings>>
     \/ /\ ok /\ what = "header" /\ reading' = "length"
        /\ UNCHANGED <<closed, open, member, outVars, pings>>
     \/ /\ ok /\ what \in {"header", "length"} /\ reading' = "mask"
        /\ UNCHANGED <<closed, open, member, outVars, pings>>
     \/ /\ ok /\ what \in {"header", "length"}    \* not masked, or too long
        /\ CloseUnlessClosed /\ UNCHANGED <<reading, writing, flight, pings>>
     \/ /\ ok /\ what = "mask" /\ reading' = "payload"
        /\ UNCHANGED <<closed, open, member, outVars, pings>>
     \/ ok /\ what \in {"mask", "payload"} /\ HandleFrame
  /\ UNCHANGED <<serverVars, connection, castVars, wireVars, undefined>>

SendPosted ==
  /\ Runs("send") /\ Enqueue(what)
  /\ UNCHANGED <<serverVars, connection, reading, castVars, wireVars, pings, undefined>>

(* The completion of write_next's write.  close() may have emptied the
   outbox since; what pop_front does then is undefined, and nothing looks at
   the outbox of a closed connection again. *)
FrameWritten ==
  /\ Runs("written") /\ what \notin {Response, Refusal}
  /\ \/ ~ok /\ CloseUnlessClosed /\ UNCHANGED <<writing, flight, undefined>>
     \/ /\ ok /\ undefined' = (undefined \/ outbox = <<>>)
        /\ outbox' = IF outbox = <<>> THEN outbox ELSE Tail(outbox)
        /\ IF closed THEN writing' = FALSE /\ UNCHANGED flight ELSE WriteNext(outbox')
        /\ UNCHANGED <<closed, open, member>>
  /\ UNCHANGED <<serverVars, connection, reading, castVars, wireVars, pings>>

(* The last shared_ptr is gone: no operation, handler or list holds one. *)
Unreferenced == /\ reading = "none" /\ flight = <<>> /\ queue = <<>> /\ ~member
                /\ \A b \in Broadcasters : targets[b] = None
Release ==
  /\ connection = "started" /\ Unreferenced /\ connection' = "released"
  /\ UNCHANGED <<serverVars, queue, reading, outVars, open, closed, member, castVars,
                 wireVars, pings, undefined>>

-----------------------------------------------------------------------------
Strand == RequestRead \/ HandshakeWritten \/ FrameRead \/ SendPosted \/ FrameWritten
Next ==
  \/ ClientConnects \/ AcceptHandler \/ Stop
  \/ \E b \in Broadcasters : Broadcast(b) \/ SendText(b)
  \/ ReadCompletes \/ WriteCompletes \/ WriteFails
  \/ RequestRead \/ HandshakeWritten \/ FrameRead \/ SendPosted \/ FrameWritten
  \/ Release

(* The io threads run what is ready; a thread that broadcasts goes on; an
   operation on a closed socket fails; and a client that stays connected
   takes what is sent to it. *)
Fairness ==
  /\ WF_vars(Strand) /\ WF_vars(Release)
  /\ \A b \in Broadcasters : WF_vars(SendText(b))
  /\ WF_vars(closed /\ ReadCompletes)
  /\ WF_vars(WriteCompletes \/ WriteFails)

Spec == Init /\ [][Next]_vars /\ Fairness

-----------------------------------------------------------------------------
(* Properties. *)

(* The client reads whole frames, and of each broadcasting thread every
   frame from the first one on, in order: none is mixed with another, left
   out or repeated until the connection ends (the outbox and its single
   write in flight; a client too slow is dropped, not skipped). *)
ClientSeesEveryFrame ==
  /\ ~garbled
  /\ \A b \in Broadcasters : \A i \in 1 .. Len(received[b]) - 1 :
       received[b][i + 1] = received[b][i] + 1

(* A connection that closed is forgotten: it leaves connections_, its
   operations end, and nothing keeps the object alive. *)
ClosedIsReleased == closed ~> connection = "released"

(* A frame in the outbox is delivered or the connection ends; the queue
   never stands still with writing_ set and nothing in flight. *)
QueuedIsDelivered == outbox # <<>> ~> (outbox = <<>> \/ closed)

(* "A client this far behind is too slow [...] and is disconnected instead
   of buffering without bound" (ws_server.hpp): disconnecting is all that
   happens to it.  When the limit is reached while the completion of a write
   is queued, that handler pops from the deque close() emptied. *)
DisconnectIsClean == ~undefined
=============================================================================
