------------------------------ MODULE Listing ------------------------------
(***************************************************************************)
(* What MERGE and NEXT promise: a list in order, whose rows are handed out *)
(* from the first to the last, each once, until another list takes its     *)
(* place.                                                                  *)
(***************************************************************************)
EXTENDS Naturals, Sequences

CONSTANT Before(_, _)    \* the order of the rows

VARIABLES
    rows,                \* the list
    given,               \* how many of its rows were handed out
    turn                 \* changes with every list, and with nothing else

Init == rows = <<>> /\ given = 0 /\ turn = FALSE

Ordered(list) == \A i \in 1..(Len(list) - 1) : ~Before(list[i + 1], list[i])

(* A new list, be it of the same rows: nothing of it was handed out. *)
Open ==
    /\ Ordered(rows')
    /\ given' = 0
    /\ turn' = ~turn

(* Some of the rows that follow, at least one. *)
Take ==
    /\ given' \in (given + 1)..Len(rows)
    /\ UNCHANGED <<rows, turn>>

Next == Open \/ Take

Spec == Init /\ [][Next]_<<rows, given, turn>>
=============================================================================
