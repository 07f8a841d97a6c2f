--------------------------- MODULE SegmentReader ----------------------------
(***************************************************************************)
(* read_segment (segment.cpp) over a file in units of eight bytes, the     *)
(* step of its search for a batch, with the batch layout of serializer.hpp: *)
(*                                                                         *)
(*   segment header  4 units, then the tag table, padded to whole units     *)
(*   batch header    2 units: magic and version; count and checksum         *)
(*   sample          3 units                                                *)
(*                                                                         *)
(* A file is [units, bytes]: its last unit may be there only in part.  A    *)
(* checksum is the sequence of units it was computed over, so no two        *)
(* payloads share one.  Read as a count, a unit that holds none is Huge,    *)
(* more than any file holds.                                                *)
(***************************************************************************)
EXTENDS Integers, Sequences, FiniteSetsExt

UnitBytes == 8
HeaderUnits == 4
BatchHeaderUnits == 2
SampleUnits == 3

CONSTANT Huge   \* what a unit that holds no count reads as

\* Units: the start of a batch, its count and checksum, and anything else.
Start(version) == [magic |-> TRUE, version |-> version, count |-> Huge, sum |-> <<>>]
CountAndSum(count, sum) == [magic |-> FALSE, version |-> 0, count |-> count, sum |-> sum]
Data(id) == [magic |-> FALSE, version |-> 0, count |-> Huge, sum |-> <<id>>]

kVersion == 2

\* Serializer::serialize.  A sample is the sequence of its three units.
Serialize(payload) ==
    <<Start(kVersion), CountAndSum(Len(payload) \div SampleUnits, payload)>> \o payload

\* required_buffer_size, in units.
RequiredUnits(count) == BatchHeaderUnits + count * SampleUnits

-----------------------------------------------------------------------------
\* Units are numbered from 0, as positions in the file are.
At(file, pos) == file.units[pos + 1]
WholeUnits(file) == file.bytes \div UnitBytes
EndsAt(file, pos) == pos * UnitBytes >= file.bytes

\* peek: the header at pos can be made out.
Recognised(file, pos) == At(file, pos).magic /\ At(file, pos).version = kVersion

Payload(file, pos, count) ==
    SubSeq(file.units, pos + BatchHeaderUnits + 1, pos + RequiredUnits(count))

\* As a bug would have it: the search goes in steps of a batch header.
NextHeaderBySteps(file, pos) ==
    Min({p \in pos + 1..WholeUnits(file) + 1 :
            /\ (p - pos) % BatchHeaderUnits = 0
            /\ p + BatchHeaderUnits > WholeUnits(file) \/ At(file, p).magic})

\* The next position that starts with the magic and has room for a batch
\* header, or the first one that has no such room.
NextHeader(file, pos) ==
    Min({p \in pos + 1..WholeUnits(file) + 1 :
            p + BatchHeaderUnits > WholeUnits(file) \/ At(file, p).magic})

(***************************************************************************)
(* The loop over the batches from position pos on: what it delivers, how   *)
(* many damaged regions it counts and whether it ends inside a batch.       *)
(***************************************************************************)
Nothing == [delivered |-> <<>>, corrupt |-> 0, truncated |-> FALSE]

ReadBatches(file, first) ==
    LET from[pos \in first..Len(file.units) + 1] ==
            LET header == At(file, pos + 1)
                batch  == RequiredUnits(header.count)
                sample == Payload(file, pos, header.count)
            IN  IF EndsAt(file, pos)
                THEN Nothing
                ELSE IF pos + BatchHeaderUnits > WholeUnits(file)
                THEN [Nothing EXCEPT !.truncated = TRUE]
                ELSE IF ~Recognised(file, pos)
                THEN LET rest == from[NextHeader(file, pos)]
                     IN  [rest EXCEPT !.corrupt = @ + 1]
                ELSE IF pos + batch > WholeUnits(file)
                THEN [Nothing EXCEPT !.truncated = TRUE]
                ELSE LET rest == from[pos + batch]
                     IN  IF sample = header.sum
                         THEN [rest EXCEPT !.delivered = <<sample>> \o @]
                         ELSE [rest EXCEPT !.corrupt = @ + 1]
    IN  from[first]

(***************************************************************************)
(* read_segment.  The segment header is a record of what its checks ask:   *)
(* its magic and version, the units its tag table takes and whether the     *)
(* table's checksum agrees and the table can be parsed.                     *)
(***************************************************************************)
NoError == ""

ReadSegment(file) ==
    LET failed(why) == [error |-> why, result |-> Nothing]
        tableEnd == HeaderUnits + file.header.tableUnits
    IN  IF WholeUnits(file) < HeaderUnits THEN failed("too short")
        ELSE IF ~file.header.magic THEN failed("bad magic")
        ELSE IF ~file.header.version THEN failed("unsupported version")
        ELSE IF tableEnd > WholeUnits(file) THEN failed("tag table cut off")
        ELSE IF ~file.header.tableIntact THEN failed("tag table damaged")
        ELSE [error |-> NoError, result |-> ReadBatches(file, tableEnd)]

=============================================================================
