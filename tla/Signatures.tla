----------------------------- MODULE Signatures -----------------------------
(***************************************************************************)
(* The signatures that close a session (src/src/session.cpp,               *)
(* signature.cpp): SIGPLAN lays out the slots, FINALIZE closes the plan,   *)
(* SIGN writes the slots that were requested.  A signature is a hash of    *)
(* last_digest and its place; here a slot is blank or signed.              *)
(***************************************************************************)
EXTENDS Naturals, Sequences, Common

CONSTANT
    SlotLimit       \* most slots (the code: 1024)

ASSUME SignatureConstants == SlotLimit \in Nat

VARIABLES
    slots,          \* SignaturePlan.slots
    requested,      \* SignaturePlan.requested_slots
    finalized       \* SignaturePlan.finalized

signatureVars == <<slots, requested, finalized>>

SignatureInit ==
    /\ slots = <<>>
    /\ requested = 0
    /\ finalized = FALSE

-----------------------------------------------------------------------------
(* SIGPLAN allocated requested *)

PlanCheck(allocated, wanted) ==
    IF allocated \in 1..SlotLimit /\ wanted \in 1..allocated THEN "ok" ELSE "limit"

\* Mutant: the slots of the plan before keep what they hold.
LaidOutOver(allocated) ==
    [i \in 1..allocated |-> IF i <= Len(slots) THEN slots[i] ELSE "blank"]

LaidOut(allocated) == [i \in 1..allocated |-> "blank"]

ConfigureSignatures(allocated, wanted) ==
    /\ status' = PlanCheck(allocated, wanted)
    /\ IF status' = "ok"
       THEN /\ slots' = LaidOut(allocated)
            /\ requested' = wanted
            /\ finalized' = FALSE
       ELSE UNCHANGED signatureVars

-----------------------------------------------------------------------------
(* FINALIZE *)

FinalizeSession ==
    /\ status' = IF slots = <<>> THEN "invalid_state" ELSE "ok"
    /\ finalized' = (finalized \/ status' = "ok")
    /\ UNCHANGED <<slots, requested>>

-----------------------------------------------------------------------------
(* SIGN *)

WriteSignatures ==
    /\ status' = IF finalized THEN "ok" ELSE "invalid_state"
    /\ slots' = IF finalized
                THEN [i \in DOMAIN slots |->
                         IF i <= requested THEN "signed" ELSE slots[i]]
                ELSE slots
    /\ UNCHANGED <<requested, finalized>>

-----------------------------------------------------------------------------
SignatureNext ==
    \/ \E allocated, wanted \in 0..(SlotLimit + 1) :
          ConfigureSignatures(allocated, wanted)
    \/ FinalizeSession
    \/ WriteSignatures

-----------------------------------------------------------------------------
SignatureTypeOK ==
    /\ slots \in Seq({"blank", "signed"})
    /\ requested \in Nat
    /\ finalized \in BOOLEAN

(* The signatures there are belong to the plan there is: it was finalized,  *)
(* they are the slots it asked for, all of them or none, and the plan asks  *)
(* for no slot it does not have.  Planning again after SIGN starts over.    *)
SignedAsPlanned ==
    LET signed == {i \in DOMAIN slots : slots[i] = "signed"}
    IN  /\ requested <= Len(slots)
        /\ signed # {} => finalized /\ signed = 1..requested
=============================================================================
