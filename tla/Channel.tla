------------------------------ MODULE Channel ------------------------------
(***************************************************************************)
(* What one direction of a serial line promises: bytes come out in the     *)
(* order they went in, each of them once, or are thrown away by a flush    *)
(* that leaves at most the one a register of the device holds.             *)
(***************************************************************************)
EXTENDS Sequences, Naturals

CONSTANT Numbers        \* bytes are numbered, modulo this

VARIABLES
    queue,              \* the bytes on their way
    fresh,              \* the number of the next byte to go in
    intact              \* have no bytes been overwritten?

Init == queue = <<>>

Put ==
    /\ queue' = Append(queue, fresh)
    /\ fresh' = (fresh + 1) % Numbers

Get ==
    /\ queue # <<>>
    /\ queue' = Tail(queue)
    /\ UNCHANGED fresh

Flush ==
    /\ queue # <<>>
    /\ queue' \in {<<>>, SubSeq(queue, 1, 1), SubSeq(queue, Len(queue), Len(queue))}
    /\ UNCHANGED fresh

Next == Put \/ Get \/ Flush

\* Nothing is promised of the step that overwrites bytes, nor of any after it.
Spec == Init /\ [][intact' => Next]_<<queue, fresh>>
=============================================================================
