---------------------------- MODULE HandlerList ----------------------------
(***************************************************************************)
(* What a chain of interrupt handlers promises: a list with room for Count *)
(* handlers that are added at either end and taken away one at a time,     *)
(* each call at once and with the result it reports.                       *)
(***************************************************************************)
EXTENDS Naturals, Sequences

CONSTANTS
    Handlers,
    Count

VARIABLES
    list,               \* the handlers in the order they are called
    result              \* what the last call reported: 0, or 1 for failure

Init == list = <<>> /\ result = 0

Add(h) ==
    /\ Len(list) < Count
    /\ list' \in {Append(list, h), <<h>> \o list}
    /\ result' = 0

(* The first occurrence goes, the others keep their order. *)
Remove(h) ==
    \E i \in 1 .. Len(list) :
        /\ list[i] = h /\ \A j \in 1 .. i - 1 : list[j] # h
        /\ list' = SubSeq(list, 1, i - 1) \o SubSeq(list, i + 1, Len(list))
        /\ result' = 0

Fail(h) ==
    /\ Len(list) = Count \/ \A i \in 1 .. Len(list) : list[i] # h
    /\ UNCHANGED list
    /\ result' = 1

Next == \E h \in Handlers : Add(h) \/ Remove(h) \/ Fail(h)

Spec == Init /\ [][Next]_<<list, result>>
=============================================================================
