------------------------------ MODULE Tickets ------------------------------
(***************************************************************************)
(* Session tickets (src/src/tickets.cpp): ISSUE, RENEWTICKET and           *)
(* CHECKTICKET.  Time is the ticket epoch, which issues and renewals       *)
(* advance and checks do not; a ticket whose time is over is revoked by    *)
(* the next check of it, and by nothing else.                              *)
(*                                                                         *)
(* Subjects are abstracted to whether valid_subject accepts them, tokens   *)
(* and digests are left out.  Tickets are numbered from 1 here.            *)
(***************************************************************************)
EXTENDS Naturals, Sequences, Common

CONSTANT
    TtlLimit      \* longest time to live (the code: 4096)

ASSUME TicketConstants == TtlLimit \in Nat

VARIABLES
    tickets,      \* TicketState.tickets
    epoch,        \* TicketState.epoch
    reported      \* history: tickets some check has reported expired

ticketVars == <<tickets, epoch, reported>>

Ticket == [issued : Nat, expires : Nat, revoked : BOOLEAN]

TicketInit ==
    /\ tickets = <<>>
    /\ epoch = 0
    /\ reported = {}

-----------------------------------------------------------------------------
(* ISSUE subject ttl *)

\* The ticket a new or renewed one is: issued in the epoch that begins.
Granted(ttl) ==
    [issued |-> epoch + 1, expires |-> epoch + 1 + ttl, revoked |-> FALSE]

IssueCheck(subjectValid, ttl) ==
    IF subjectValid /\ ttl \in 1..TtlLimit THEN "ok" ELSE "limit"

IssueTicket(subjectValid, ttl) ==
    /\ status' = IssueCheck(subjectValid, ttl)
    /\ IF status' = "ok"
       THEN /\ epoch' = epoch + 1
            /\ tickets' = Append(tickets, Granted(ttl))
       ELSE UNCHANGED <<epoch, tickets>>
    /\ UNCHANGED reported

-----------------------------------------------------------------------------
(* RENEWTICKET index ttl: an expired ticket no check has seen is renewed as *)
(* well as a live one.                                                      *)

RenewCheck(index, ttl) ==
    IF index \notin 1..Len(tickets) \/ ttl \notin 1..TtlLimit THEN "limit"
    ELSE IF tickets[index].revoked THEN "invalid_state" ELSE "ok"

RenewTicket(index, ttl) ==
    /\ status' = RenewCheck(index, ttl)
    /\ IF status' = "ok"
       THEN /\ epoch' = epoch + 1
            /\ tickets' = [tickets EXCEPT ![index] = Granted(ttl)]
       ELSE UNCHANGED <<epoch, tickets>>
    /\ UNCHANGED reported

-----------------------------------------------------------------------------
(* CHECKTICKET index *)

Alive(ticket) == ticket.expires >= epoch

TicketCheck(index) ==
    IF index \notin 1..Len(tickets) THEN "limit"
    ELSE IF tickets[index].revoked THEN "invalid_state" ELSE "ok"

\* Mutant: the ticket is reported expired and left as it is.
RevokeLater(index) ==
    /\ reported' = reported \cup {index}
    /\ UNCHANGED tickets

Revoke(index) ==
    /\ reported' = reported \cup {index}
    /\ tickets' = [tickets EXCEPT ![index] = [@ EXCEPT !.revoked = TRUE]]

CheckTicket(index) ==
    /\ status' = TicketCheck(index)
    /\ IF status' = "ok" /\ ~Alive(tickets[index]) THEN Revoke(index)
       ELSE UNCHANGED <<tickets, reported>>
    /\ UNCHANGED epoch

-----------------------------------------------------------------------------
TicketNext ==
    \/ \E subjectValid \in BOOLEAN, ttl \in 0..(TtlLimit + 1) :
          IssueTicket(subjectValid, ttl)
    \/ \E index \in 1..(Len(tickets) + 1), ttl \in 0..(TtlLimit + 1) :
          RenewTicket(index, ttl)
    \/ \E index \in 1..(Len(tickets) + 1) : CheckTicket(index)

-----------------------------------------------------------------------------
(* Every variable keeps its type. *)
TicketTypeOK ==
    /\ tickets \in Seq(Ticket)
    /\ epoch \in Nat
    /\ reported \subseteq 1..Len(tickets)

(* Issues and renewals share one clock: no two tickets were granted in the  *)
(* same epoch, each in one that has begun, so (with the subject and the     *)
(* expiry) no two grants seed their tokens alike.                           *)
GrantsDistinct ==
    /\ \A i \in 1..Len(tickets) : tickets[i].issued \in 1..epoch
    /\ \A i, j \in 1..Len(tickets) :
          tickets[i].issued = tickets[j].issued => i = j

(* A ticket that has been reported expired once is revoked ever after, and  *)
(* those are all the revoked ones: no sequence of renewals brings it back,  *)
(* and none is revoked behind its holder's back.                            *)
ReportedAreRevoked ==
    \A i \in 1..Len(tickets) : tickets[i].revoked <=> i \in reported

(* A ticket is revoked only after its time to live, counted in grants, has  *)
(* passed: at least that many epochs begun since its own.                   *)
RevokedAfterExpiry ==
    \A i \in 1..Len(tickets) :
        /\ tickets[i].revoked => tickets[i].expires < epoch
        /\ tickets[i].expires - tickets[i].issued \in 1..TtlLimit

(* A revoked ticket is never touched again, and no ticket is dropped or     *)
(* moved.                                                                   *)
RevokedForGood ==
    [][/\ Len(tickets') >= Len(tickets)
       /\ \A i \in 1..Len(tickets) :
             tickets[i].revoked => tickets'[i] = tickets[i]]_ticketVars
=============================================================================
