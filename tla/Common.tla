------------------------------ MODULE Common -------------------------------
(***************************************************************************)
(* What the handlers of the engine have in common: what each reports and   *)
(* what the interpreter loop does with it (execute_commands), and the ways *)
(* they put lists together.                                                *)
(***************************************************************************)
EXTENDS Naturals, Sequences, FiniteSets

VARIABLE
    status       \* Result of the last handler, or "crash", or "ended"

\* engine.hpp: enum class Status.
Outcomes ==
    {"ok", "malformed", "unsupported", "invalid_state", "not_found", "limit"}

\* The loop of execute_commands takes the next command of the journal, after
\* ok and after unsupported; any other outcome ends it.
Continues(outcome) == outcome \in {"ok", "unsupported"}

\* The outcomes that end the journal with the line they happened at.
Fatal == Outcomes \ {"ok", "unsupported"}

-----------------------------------------------------------------------------
\* The elements of a finite set as an order has them: the rank of each is the
\* number of those that are not after it.
Arranged(set, order) ==
    LET rank == [x \in set |-> Cardinality({y \in set : <<y, x>> \in order})]
    IN  [i \in 1..Cardinality(set) |-> CHOOSE x \in set : rank[x] = i]

\* The numbers of a finite set, the least first.
InOrder(numbers) ==
    Arranged(numbers, {pair \in numbers \X numbers : pair[1] <= pair[2]})

\* std::sort.  Where neither of two elements comes before the other, they stay
\* in the order they were in.
Sorted(list, Before(_, _)) ==
    LET order == {pair \in (DOMAIN list) \X (DOMAIN list) :
                    \/ Before(list[pair[1]], list[pair[2]])
                    \/ /\ pair[1] <= pair[2]
                       /\ ~Before(list[pair[2]], list[pair[1]])}
        place == Arranged(DOMAIN list, order)
    IN  [i \in DOMAIN list |-> list[place[i]]]

\* The elements of a list at some places.
At(list, places) ==
    LET place == InOrder(places) IN [i \in DOMAIN place |-> list[place[i]]]

\* The lists, one after the other.
Flat(lists) ==
    LET flat[n \in 0..Len(lists)] == IF n = 0 THEN <<>> ELSE flat[n - 1] \o lists[n]
    IN  flat[Len(lists)]

\* The sum of a list of numbers.
Total(numbers) ==
    LET sum[n \in 0..Len(numbers)] == IF n = 0 THEN 0 ELSE sum[n - 1] + numbers[n]
    IN  sum[Len(numbers)]
=============================================================================
