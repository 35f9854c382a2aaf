------------------------------- MODULE Store -------------------------------
(***************************************************************************)
(* What the handlers of one journal share: the epoch, the outcome of the   *)
(* last handler, and the rules by which objects get and lose their place   *)
(* in memory.                                                              *)
(*                                                                         *)
(* Title views, cursors and watches hold raw pointers.  An object is       *)
(* therefore known by the address it was given.  An allocation returns any *)
(* address no live object of its kind has: an address may be used again    *)
(* once its object is gone, and need not be.                               *)
(***************************************************************************)
EXTENDS Naturals, Sequences, FiniteSets, Functions, Common

CONSTANTS
    MaxEpoch     \* bound of the model: epochs a journal reaches

ASSUME StoreConstants == MaxEpoch \in Nat

VARIABLES
    epoch        \* Store.epoch

\* A handler that follows a pointer to an object that is gone may still
\* report ok, with a meaningless digest, or take the process down.
Crash == "crash"

ReadOutcome(valid) == IF valid THEN {"ok"} ELSE {"ok", Crash}

NextEpoch ==
    /\ epoch < MaxEpoch
    /\ epoch' = epoch + 1

\* The function f with x mapped to v.
Put(f, x, v) == [y \in DOMAIN f \cup {x} |-> IF y = x THEN v ELSE f[y]]

\* The ways to allocate one object for each id out of the free addresses.
Placements(ids, free) == Injection(ids, free)

\* The ids in ascending order, as restore_snapshot sorts them.
Ascending(ids) ==
    {s \in [1..Cardinality(ids) -> ids] :
        \A i, j \in 1..Cardinality(ids) : i < j => s[i] < s[j]}
=============================================================================
