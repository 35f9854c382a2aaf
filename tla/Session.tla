------------------------------ MODULE Session ------------------------------
(***************************************************************************)
(* The commands dispatch_session takes (src/src/engine.cpp:447): tickets,  *)
(* the timeline, roles and the closing signatures of one journal, in any   *)
(* order.  Each family keeps its own state in the Store; what they share   *)
(* is the Result, and the first fatal one ends the journal for them all.   *)
(***************************************************************************)
EXTENDS Tickets, Timeline, Acl, Signatures

CONSTANT
    MaxCommands     \* bound of the model: commands of a journal

ASSUME SessionConstants == MaxCommands \in Nat

VARIABLE
    ran             \* history: how many commands ran

vars == <<ticketVars, timelineVars, aclVars, signatureVars, status, ran>>

Init ==
    /\ TicketInit
    /\ TimelineInit
    /\ AclInit
    /\ SignatureInit
    /\ status = "ok"
    /\ ran = 0

Next ==
    /\ Continues(status)
    /\ ran < MaxCommands
    /\ ran' = ran + 1
    /\ \/ TicketNext    /\ UNCHANGED <<timelineVars, aclVars, signatureVars>>
       \/ TimelineNext  /\ UNCHANGED <<ticketVars, aclVars, signatureVars>>
       \/ AclNext       /\ UNCHANGED <<ticketVars, timelineVars, signatureVars>>
       \/ SignatureNext /\ UNCHANGED <<ticketVars, timelineVars, aclVars>>

Spec == Init /\ [][Next]_vars

=============================================================================
