--------------------------- MODULE SessionProofs ---------------------------
(***************************************************************************)
(* What holds of the session commands however long the journal is, however *)
(* many tickets it issues and however long they live.  Each family of      *)
(* commands has an invariant of its own, which the others leave alone.     *)
(***************************************************************************)
EXTENDS Session, FiniteSetTheorems, TLAPS

(* The inductive invariant of tickets: its parts hold each other up.  That  *)
(* a grant is in a new epoch is what keeps the issue epochs apart; that the *)
(* revoked tickets are the reported ones is what stops a renewal from       *)
(* moving the expiry of a revoked ticket.                                   *)
TicketInv ==
    TicketTypeOK /\ GrantsDistinct /\ ReportedAreRevoked /\ RevokedAfterExpiry

(* The inductive invariant of signatures: blank slots stay behind those     *)
(* that were requested, whatever order plans and signatures come in.        *)
SignatureInv == SignatureTypeOK /\ SignedAsPlanned

(* The inductive invariant of access control: a verdict names a role that   *)
(* is defined, so that granting it something has no say on other verdicts.  *)
AclInv ==
    /\ AclTypeOK
    /\ AllowsHold
    /\ \A i \in 1..Len(checks) : checks[i].role \in DOMAIN granted

\* The fields of a ticket.
LEMMA TicketFields ==
    ASSUME NEW t \in Ticket
    PROVE  t.issued \in Nat /\ t.expires \in Nat /\ t.revoked \in BOOLEAN
BY DEF Ticket

\* A ticket that is revoked is otherwise as it was.
LEMMA Revoked ==
    ASSUME NEW t \in Ticket
    PROVE  LET new == [t EXCEPT !.revoked = TRUE]
           IN  /\ new \in Ticket /\ new.revoked
               /\ new.issued = t.issued /\ new.expires = t.expires
<1>1. [t EXCEPT !.revoked = TRUE] \in Ticket
    BY DEF Ticket
<1>2. /\ [t EXCEPT !.revoked = TRUE].issued = t.issued
      /\ [t EXCEPT !.revoked = TRUE].expires = t.expires
    BY DEF Ticket
<1>3. [t EXCEPT !.revoked = TRUE].revoked
    BY DEF Ticket
<1> QED BY <1>1, <1>2, <1>3

\* A grant in the epoch that begins is a ticket, later than all there are.
LEMMA GrantFits ==
    ASSUME TicketTypeOK, NEW ttl \in 1..TtlLimit
    PROVE  /\ Granted(ttl) \in Ticket
           /\ Granted(ttl).issued = epoch + 1
           /\ ~Granted(ttl).revoked
           /\ Granted(ttl).expires - Granted(ttl).issued \in 1..TtlLimit
BY TicketConstants DEF Granted, Ticket, TicketTypeOK

\* Every command of the family keeps its invariant, and so does every other.
LEMMA TicketNextInv ==
    TicketInv /\ (TicketNext \/ UNCHANGED ticketVars) => TicketInv'
<1> SUFFICES ASSUME TicketInv, TicketNext \/ UNCHANGED ticketVars
             PROVE  TicketInv'
    OBVIOUS
<1> USE TicketConstants DEF TicketInv
<1>1. ASSUME NEW subjectValid \in BOOLEAN, NEW ttl \in 0..(TtlLimit + 1),
             IssueTicket(subjectValid, ttl)
      PROVE  TicketInv'
    <2>2. CASE status' # "ok"
        BY <1>1, <2>2 DEF IssueTicket, TicketTypeOK, GrantsDistinct,
            ReportedAreRevoked, RevokedAfterExpiry
    <2>3. CASE status' = "ok"
        <3>1. ttl \in 1..TtlLimit
            BY <1>1, <2>3 DEF IssueTicket, IssueCheck
        <3>2. /\ tickets' = Append(tickets, Granted(ttl))
              /\ epoch' = epoch + 1 /\ reported' = reported
            BY <1>1, <2>3 DEF IssueTicket
        <3> DEFINE new == Granted(ttl)
        <3>3. /\ new \in Ticket /\ new.issued = epoch + 1 /\ ~new.revoked
              /\ new.expires - new.issued \in 1..TtlLimit
            BY GrantFits, <3>1
        <3> HIDE DEF new
        <3>4. /\ tickets \in Seq(Ticket) /\ epoch \in Nat
              /\ reported \subseteq 1..Len(tickets)
            BY DEF TicketTypeOK
        <3>5. /\ tickets' \in Seq(Ticket)
              /\ Len(tickets') = Len(tickets) + 1
              /\ tickets'[Len(tickets) + 1] = new
              /\ \A i \in 1..Len(tickets) : tickets'[i] = tickets[i]
            BY <3>2, <3>3, <3>4 DEF new
        <3>6. \A i \in 1..Len(tickets') :
                  i \in 1..Len(tickets) \/ i = Len(tickets) + 1
            BY <3>4, <3>5
        <3>7. TicketTypeOK'
            BY <3>2, <3>4, <3>5 DEF TicketTypeOK
        <3>8. GrantsDistinct'
            <4>1. /\ \A i \in 1..Len(tickets) : tickets[i].issued \in 1..epoch
                  /\ \A i, j \in 1..Len(tickets) :
                        tickets[i].issued = tickets[j].issued => i = j
                BY DEF GrantsDistinct
            <4>2. \A i \in 1..Len(tickets') : tickets'[i].issued \in 1..epoch'
                BY <3>2, <3>3, <3>4, <3>5, <3>6, <4>1
            <4>3. \A i, j \in 1..Len(tickets') :
                      tickets'[i].issued = tickets'[j].issued => i = j
                <5> TAKE i, j \in 1..Len(tickets')
                <5>1. CASE i \in 1..Len(tickets) /\ j \in 1..Len(tickets)
                    BY <3>5, <4>1, <5>1
                <5>2. \A k \in 1..Len(tickets) :
                          tickets'[k].issued # tickets'[Len(tickets) + 1].issued
                    BY <3>3, <3>4, <3>5, <4>1
                <5> QED BY <3>6, <5>1, <5>2
            <4> QED BY <4>2, <4>3 DEF GrantsDistinct
        <3>9. ReportedAreRevoked'
            BY <3>2, <3>3, <3>4, <3>5, <3>6 DEF ReportedAreRevoked
        <3>10. RevokedAfterExpiry'
            <4>1. \A i \in 1..Len(tickets) : tickets[i] \in Ticket
                BY <3>4
            <4>2. ASSUME NEW i \in 1..Len(tickets')
                  PROVE  /\ tickets'[i].revoked => tickets'[i].expires < epoch'
                         /\ tickets'[i].expires - tickets'[i].issued \in 1..TtlLimit
                <5>1. CASE i \in 1..Len(tickets)
                    <6>1. tickets'[i] = tickets[i] /\ tickets[i].expires \in Nat
                        BY <3>5, <4>1, <5>1, TicketFields
                    <6>2. tickets[i].revoked => tickets[i].expires < epoch
                        BY <5>1 DEF RevokedAfterExpiry
                    <6>3. tickets[i].revoked => tickets[i].expires < epoch + 1
                        BY <3>4, <6>1, <6>2
                    <6> QED BY <3>2, <5>1, <6>1, <6>3 DEF RevokedAfterExpiry
                <5>2. CASE i = Len(tickets) + 1
                    BY <3>3, <3>5, <5>2
                <5> QED BY <3>6, <5>1, <5>2
            <4> QED BY <4>2 DEF RevokedAfterExpiry
        <3> QED BY <3>7, <3>8, <3>9, <3>10
    <2> QED BY <2>2, <2>3
<1>2. ASSUME NEW index \in 1..(Len(tickets) + 1), NEW ttl \in 0..(TtlLimit + 1),
             RenewTicket(index, ttl)
      PROVE  TicketInv'
    <2>2. CASE status' # "ok"
        BY <1>2, <2>2 DEF RenewTicket, TicketTypeOK, GrantsDistinct,
            ReportedAreRevoked, RevokedAfterExpiry
    <2>3. CASE status' = "ok"
        <3>1. ttl \in 1..TtlLimit /\ index \in 1..Len(tickets)
              /\ ~tickets[index].revoked
            BY <1>2, <2>3 DEF RenewTicket, RenewCheck
        <3>2. /\ tickets' = [tickets EXCEPT ![index] = Granted(ttl)]
              /\ epoch' = epoch + 1 /\ reported' = reported
            BY <1>2, <2>3 DEF RenewTicket
        <3> DEFINE new == Granted(ttl)
        <3>3. /\ new \in Ticket /\ new.issued = epoch + 1 /\ ~new.revoked
              /\ new.expires - new.issued \in 1..TtlLimit
            BY GrantFits, <3>1
        <3> HIDE DEF new
        <3>4. /\ tickets \in Seq(Ticket) /\ epoch \in Nat
              /\ reported \subseteq 1..Len(tickets)
            BY DEF TicketTypeOK
        <3>5. /\ tickets' \in Seq(Ticket)
              /\ Len(tickets') = Len(tickets)
              /\ tickets'[index] = new
              /\ \A i \in 1..Len(tickets) : i # index => tickets'[i] = tickets[i]
            BY <3>1, <3>2, <3>3, <3>4 DEF new
        <3>6. TicketTypeOK'
            BY <3>2, <3>4, <3>5 DEF TicketTypeOK
        <3>7. GrantsDistinct'
            BY <3>1, <3>2, <3>3, <3>4, <3>5 DEF GrantsDistinct
        <3>8. ReportedAreRevoked'
            BY <3>1, <3>2, <3>3, <3>4, <3>5 DEF ReportedAreRevoked
        <3>9. RevokedAfterExpiry'
            <4>1. \A i \in 1..Len(tickets) : tickets[i] \in Ticket
                BY <3>4
            <4>2. ASSUME NEW i \in 1..Len(tickets')
                  PROVE  /\ tickets'[i].revoked => tickets'[i].expires < epoch'
                         /\ tickets'[i].expires - tickets'[i].issued \in 1..TtlLimit
                <5>1. CASE i # index
                    <6>1. i \in 1..Len(tickets)
                        BY <3>5
                    <6>2. tickets'[i] = tickets[i] /\ tickets[i].expires \in Nat
                        BY <3>5, <4>1, <5>1, <6>1, TicketFields
                    <6>3. tickets[i].revoked => tickets[i].expires < epoch
                        BY <6>1 DEF RevokedAfterExpiry
                    <6>4. tickets[i].revoked => tickets[i].expires < epoch + 1
                        BY <3>4, <6>2, <6>3
                    <6> QED BY <3>2, <6>1, <6>2, <6>4 DEF RevokedAfterExpiry
                <5>2. CASE i = index
                    BY <3>3, <3>5, <5>2
                <5> QED BY <5>1, <5>2
            <4> QED BY <4>2 DEF RevokedAfterExpiry
        <3> QED BY <3>6, <3>7, <3>8, <3>9
    <2> QED BY <2>2, <2>3
<1>3. ASSUME NEW index \in 1..(Len(tickets) + 1), CheckTicket(index)
      PROVE  TicketInv'
    <2>2. CASE ~(status' = "ok" /\ ~Alive(tickets[index]))
        BY <1>3, <2>2 DEF CheckTicket, TicketTypeOK, GrantsDistinct,
            ReportedAreRevoked, RevokedAfterExpiry
    <2>3. CASE status' = "ok" /\ ~Alive(tickets[index])
        <3>1. index \in 1..Len(tickets)
            BY <1>3, <2>3 DEF CheckTicket, TicketCheck
        <3>2. /\ reported' = reported \cup {index} /\ epoch' = epoch
              /\ tickets' = [tickets EXCEPT ![index] = [@ EXCEPT !.revoked = TRUE]]
            BY <1>3, <2>3 DEF CheckTicket, Revoke
        <3>3. /\ tickets \in Seq(Ticket) /\ epoch \in Nat
              /\ reported \subseteq 1..Len(tickets)
            BY DEF TicketTypeOK
        <3> DEFINE new == [tickets[index] EXCEPT !.revoked = TRUE]
        <3>4. /\ new \in Ticket /\ new.revoked
              /\ new.issued = tickets[index].issued
              /\ new.expires = tickets[index].expires
            <4>1. tickets[index] \in Ticket
                BY <3>1, <3>3
            <4> QED BY <4>1, Revoked
        <3>5. tickets' = [tickets EXCEPT ![index] = new]
            BY <3>2
        <3> HIDE DEF new
        <3>6. /\ tickets' \in Seq(Ticket)
              /\ Len(tickets') = Len(tickets)
              /\ tickets'[index] = new
              /\ \A i \in 1..Len(tickets) : i # index => tickets'[i] = tickets[i]
            BY <3>1, <3>3, <3>4, <3>5
        <3>7. \A i \in 1..Len(tickets) : /\ tickets'[i].issued = tickets[i].issued
                                         /\ tickets'[i].expires = tickets[i].expires
            BY <3>4, <3>6
        <3>8. TicketTypeOK'
            BY <3>1, <3>2, <3>3, <3>6 DEF TicketTypeOK
        <3>9. GrantsDistinct'
            BY <3>2, <3>3, <3>6, <3>7 DEF GrantsDistinct
        <3>10. ReportedAreRevoked'
            BY <3>1, <3>2, <3>3, <3>4, <3>6 DEF ReportedAreRevoked
        <3>11. tickets[index].expires < epoch
            <4>1. tickets[index].expires \in Nat
                BY <3>1, <3>3, TicketFields
            <4>2. ~(tickets[index].expires >= epoch)
                BY <2>3 DEF Alive
            <4> QED BY <3>3, <4>1, <4>2
        <3>12. RevokedAfterExpiry'
            <4>1. \A i \in 1..Len(tickets) :
                      tickets'[i].revoked => tickets[i].revoked \/ i = index
                BY <3>6
            <4> QED BY <3>2, <3>3, <3>6, <3>7, <3>11, <4>1 DEF RevokedAfterExpiry
        <3> QED BY <3>8, <3>9, <3>10, <3>12
    <2> QED BY <2>2, <2>3
<1>4. CASE UNCHANGED ticketVars
    BY <1>4 DEF ticketVars, TicketTypeOK, GrantsDistinct, ReportedAreRevoked, RevokedAfterExpiry
<1> QED BY <1>1, <1>2, <1>3, <1>4 DEF TicketNext

\* A plan of blank slots, or one that asks for the slots it has.
LEMMA SignatureNextInv ==
    SignatureInv /\ (SignatureNext \/ UNCHANGED signatureVars) => SignatureInv'
<1> SUFFICES ASSUME SignatureInv, SignatureNext \/ UNCHANGED signatureVars
             PROVE  SignatureInv'
    OBVIOUS
<1> USE SignatureConstants DEF SignatureInv
<1>0. /\ slots \in Seq({"blank", "signed"})
      /\ requested \in Nat /\ finalized \in BOOLEAN
      /\ requested <= Len(slots)
      /\ (\E i \in DOMAIN slots : slots[i] = "signed") =>
            finalized /\ \A i \in DOMAIN slots : slots[i] = "signed" <=> i <= requested
    BY DEF SignatureTypeOK, SignedAsPlanned
<1>1. ASSUME NEW allocated \in 0..(SlotLimit + 1), NEW wanted \in 0..(SlotLimit + 1),
             ConfigureSignatures(allocated, wanted)
      PROVE  SignatureInv'
    <2>1. CASE status' # "ok"
        BY <1>1, <2>1 DEF ConfigureSignatures, signatureVars, SignatureTypeOK, SignedAsPlanned
    <2>2. CASE status' = "ok"
        <3>1. wanted \in 1..allocated /\ allocated \in Nat
            BY <1>1, <2>2 DEF ConfigureSignatures, PlanCheck
        <3>2. /\ slots' = [i \in 1..allocated |-> "blank"]
              /\ requested' = wanted /\ finalized' = FALSE
            BY <1>1, <2>2 DEF ConfigureSignatures, LaidOut
        <3>3. slots' \in Seq({"blank", "signed"}) /\ Len(slots') = allocated
            BY <3>1, <3>2
        <3>4. {i \in DOMAIN slots' : slots'[i] = "signed"} = {}
            BY <3>2
        <3>5. requested' \in Nat /\ requested' <= Len(slots')
            BY <3>1, <3>2, <3>3
        <3>8. finalized' \in BOOLEAN
            BY <3>2, Zenon
        <3>6. SignatureTypeOK'
            BY <3>3, <3>5, <3>8 DEF SignatureTypeOK
        <3>7. SignedAsPlanned'
            BY <3>4, <3>5 DEF SignedAsPlanned
        <3> QED BY <3>6, <3>7
    <2> QED BY <2>1, <2>2
<1>2. CASE FinalizeSession
    BY <1>0, <1>2 DEF FinalizeSession, SignatureTypeOK, SignedAsPlanned
<1>3. CASE WriteSignatures
    <2>1. CASE ~finalized
        BY <1>3, <2>1 DEF WriteSignatures, SignatureTypeOK, SignedAsPlanned
    <2>2. CASE finalized
        <3>1. /\ slots' = [i \in DOMAIN slots |-> IF i <= requested THEN "signed" ELSE slots[i]]
              /\ requested' = requested /\ finalized' = finalized
            BY <1>3, <2>2 DEF WriteSignatures
        <3>2. slots' \in Seq({"blank", "signed"}) /\ Len(slots') = Len(slots)
            BY <1>0, <3>1
        <3>3. \A i \in DOMAIN slots' : slots'[i] = "signed" <=> i <= requested
            BY <1>0, <3>1
        <3>4. {i \in DOMAIN slots' : slots'[i] = "signed"} = 1..requested
            BY <1>0, <3>2, <3>3
        <3> QED BY <1>0, <2>2, <3>1, <3>2, <3>4 DEF SignatureTypeOK, SignedAsPlanned
    <2> QED BY <2>1, <2>2
<1>4. CASE UNCHANGED signatureVars
    BY <1>4 DEF signatureVars, SignatureTypeOK, SignedAsPlanned
<1> QED BY <1>1, <1>2, <1>3, <1>4 DEF SignatureNext

\* What is left of the verdicts is the end of the list.
LEMMA TrimmedList ==
    ASSUME NEW list \in Seq(Verdict), Len(list) <= CheckLimit + 1
    PROVE  /\ Trimmed(list) \in Seq(Verdict)
           /\ Len(Trimmed(list)) <= CheckLimit
           /\ \E shift \in Nat : \A i \in 1..Len(Trimmed(list)) :
                 i + shift \in 1..Len(list) /\ Trimmed(list)[i] = list[i + shift]
<1> USE AclConstants
<1>1. CASE Len(list) <= CheckLimit
    <2>1. Trimmed(list) = list
        BY <1>1 DEF Trimmed
    <2>2. \A i \in 1..Len(list) : i + 0 \in 1..Len(list) /\ list[i] = list[i + 0]
        OBVIOUS
    <2> QED BY <1>1, <2>1, <2>2
<1>2. CASE Len(list) > CheckLimit
    <2>1. Trimmed(list) = SubSeq(list, CheckTrim + 1, Len(list))
        BY <1>2 DEF Trimmed
    <2>2. Len(list) = CheckLimit + 1
        BY <1>2
    <2>3. /\ Trimmed(list) \in Seq(Verdict)
          /\ Len(Trimmed(list)) = Len(list) - CheckTrim
          /\ \A i \in 1..Len(Trimmed(list)) : Trimmed(list)[i] = list[i + CheckTrim]
        BY <2>1, <2>2
    <2>4. \A i \in 1..Len(Trimmed(list)) : i + CheckTrim \in 1..Len(list)
        BY <2>2, <2>3
    <2>5. CheckTrim \in Nat /\ Len(Trimmed(list)) <= CheckLimit
        BY <2>2, <2>3
    <2> QED BY <2>3, <2>4, <2>5
<1> QED BY <1>1, <1>2

\* What a list of verdicts has to be, for the permissions there are.
Holds(list, roles) ==
    /\ \A i \in 1..Len(list) : list[i].allow =>
          list[i].permission \in roles[list[i].role]
    /\ \A i, j \in 1..Len(list) :
          /\ i < j
          /\ list[i].role = list[j].role
          /\ list[i].permission = list[j].permission
          => (list[i].allow => list[j].allow)

\* A verdict given now agrees with every allow before it.
LEMMA VerdictHolds ==
    ASSUME AclInv, NEW role \in DOMAIN granted, NEW permission,
           permission \in Permissions \cup {BadName}
    PROVE  LET verdict == [role |-> role, permission |-> permission,
                           allow |-> permission \in granted[role]]
               list == Append(checks, verdict)
           IN  list \in Seq(Verdict) /\ Holds(list, granted)
<1> DEFINE verdict == [role |-> role, permission |-> permission,
                       allow |-> permission \in granted[role]]
           list == Append(checks, verdict)
<1>1. checks \in Seq(Verdict) /\ role \in Roles
    BY DEF AclInv, AclTypeOK
<1>2. verdict \in Verdict
    BY <1>1 DEF Verdict
<1>3. /\ verdict.role = role /\ verdict.permission = permission
      /\ verdict.allow <=> permission \in granted[role]
    OBVIOUS
<1> HIDE DEF verdict
<1>4. /\ list \in Seq(Verdict) /\ Len(list) = Len(checks) + 1
      /\ list[Len(checks) + 1] = verdict
      /\ \A i \in 1..Len(checks) : list[i] = checks[i]
    BY <1>1, <1>2
<1> HIDE DEF list
<1>5. Holds(checks, granted)
    BY <1>1 DEF AclInv, AllowsHold, Holds
<1>6. \A i \in 1..Len(list) : i \in 1..Len(checks) \/ i = Len(checks) + 1
    BY <1>1, <1>4
<1>7. \A i \in 1..Len(list) : list[i].allow => list[i].permission \in granted[list[i].role]
    BY <1>3, <1>4, <1>5, <1>6 DEF Holds
<1>8. ASSUME NEW i \in 1..Len(list), NEW j \in 1..Len(list), i < j,
             list[i].role = list[j].role, list[i].permission = list[j].permission,
             list[i].allow
      PROVE  list[j].allow
    <2>1. i \in 1..Len(checks)
        BY <1>1, <1>4, <1>8
    <2>2. CASE j \in 1..Len(checks)
        BY <1>4, <1>5, <1>8, <2>1, <2>2 DEF Holds
    <2>3. CASE j = Len(checks) + 1
        BY <1>3, <1>4, <1>7, <1>8, <2>3
    <2> QED BY <1>6, <2>2, <2>3
<1> QED BY <1>4, <1>7, <1>8 DEF Holds, list, verdict

\* Every command of the family keeps its invariant, and so does every other.
LEMMA AclNextInv == AclInv /\ (AclNext \/ UNCHANGED aclVars) => AclInv'
<1> SUFFICES ASSUME AclInv, AclNext \/ UNCHANGED aclVars PROVE AclInv'
    OBVIOUS
<1> USE AclConstants
<1>0. /\ DOMAIN granted \subseteq Roles
      /\ \A role \in DOMAIN granted : granted[role] \subseteq Permissions
      /\ checks \in Seq(Verdict) /\ Len(checks) <= CheckLimit
      /\ Holds(checks, granted)
      /\ \A i \in 1..Len(checks) : checks[i].role \in DOMAIN granted
    BY DEF AclInv, AclTypeOK, AllowsHold, Holds
<1>1. ASSUME Holds(checks, granted'),
             DOMAIN granted' \subseteq Roles,
             \A role \in DOMAIN granted' : granted'[role] \subseteq Permissions,
             \A i \in 1..Len(checks) : checks[i].role \in DOMAIN granted',
             checks' = checks
      PROVE  AclInv'
    BY <1>0, <1>1 DEF AclInv, AclTypeOK, AllowsHold, Holds
<1>2. ASSUME NEW role \in Roles \cup {BadName}, DefineRole(role) PROVE AclInv'
    <2>1. CASE status' # "ok"
        BY <1>0, <1>1, <1>2, <2>1 DEF DefineRole
    <2>2. CASE status' = "ok"
        <3>1. role \in Roles /\ role \notin DOMAIN granted
            BY <1>2, <2>2 DEF DefineRole, DefineCheck
        <3>2. /\ checks' = checks
              /\ granted' = [r \in DOMAIN granted \cup {role} |->
                                IF r = role THEN {} ELSE granted[r]]
            BY <1>2, <2>2 DEF DefineRole
        <3>3. /\ DOMAIN granted' = DOMAIN granted \cup {role}
              /\ \A r \in DOMAIN granted : granted'[r] = granted[r]
              /\ granted'[role] = {}
            BY <3>1, <3>2
        <3>4. Holds(checks, granted')
            BY <1>0, <3>3 DEF Holds
        <3> QED BY <1>0, <1>1, <3>1, <3>2, <3>3, <3>4
    <2> QED BY <2>1, <2>2
<1>3. ASSUME NEW role \in Roles, NEW permission \in Permissions \cup {BadName},
             GrantRole(role, permission)
      PROVE  AclInv'
    <2>1. CASE status' # "ok"
        BY <1>0, <1>1, <1>3, <2>1 DEF GrantRole
    <2>2. CASE status' = "ok"
        <3>1. permission \in Permissions /\ role \in DOMAIN granted
            BY <1>3, <2>2 DEF GrantRole, GrantCheck
        <3>2. /\ checks' = checks
              /\ granted' = [granted EXCEPT ![role] = @ \cup {permission}]
            BY <1>3, <2>2 DEF GrantRole
        <3>3. /\ DOMAIN granted' = DOMAIN granted
              /\ \A r \in DOMAIN granted : granted[r] \subseteq granted'[r]
              /\ \A r \in DOMAIN granted : granted'[r] \subseteq Permissions
            BY <1>0, <3>1, <3>2
        <3>4. Holds(checks, granted')
            BY <1>0, <3>3 DEF Holds
        <3> QED BY <1>0, <1>1, <3>2, <3>3, <3>4
    <2> QED BY <2>1, <2>2
<1>4. ASSUME NEW role \in Roles, NEW permission \in Permissions \cup {BadName},
             CheckPermission(role, permission)
      PROVE  AclInv'
    <2> DEFINE verdict == [role |-> role, permission |-> permission,
                           allow |-> permission \in granted[role]]
               list == Append(checks, verdict)
    <2>1. CASE status' # "ok"
        BY <1>0, <1>1, <1>4, <2>1 DEF CheckPermission
    <2>2. CASE status' = "ok"
        <3>1. role \in DOMAIN granted
            BY <1>4, <2>2 DEF CheckPermission
        <3>2. checks' = Trimmed(list) /\ granted' = granted
            BY <1>4, <2>2 DEF CheckPermission
        <3>3. list \in Seq(Verdict) /\ Holds(list, granted)
            BY <3>1, VerdictHolds
        <3>4. Len(list) <= CheckLimit + 1
            BY <1>0
        <3> HIDE DEF list
        <3>5. /\ checks' \in Seq(Verdict) /\ Len(checks') <= CheckLimit
              /\ \E shift \in Nat : \A i \in 1..Len(checks') :
                    i + shift \in 1..Len(list) /\ checks'[i] = list[i + shift]
            BY <3>2, <3>3, <3>4, TrimmedList
        <3>6. PICK shift \in Nat : \A i \in 1..Len(checks') :
                  i + shift \in 1..Len(list) /\ checks'[i] = list[i + shift]
            BY <3>5
        <3>7. Holds(checks', granted)
            <4>1. \A i, j \in 1..Len(checks') : i < j => i + shift < j + shift
                BY <3>5
            <4>2. \A i \in 1..Len(checks') : checks'[i].allow =>
                      checks'[i].permission \in granted[checks'[i].role]
                BY <3>3, <3>6 DEF Holds
            <4>3. \A i, j \in 1..Len(checks') :
                      /\ i < j
                      /\ checks'[i].role = checks'[j].role
                      /\ checks'[i].permission = checks'[j].permission
                      => (checks'[i].allow => checks'[j].allow)
                <5> SUFFICES ASSUME NEW i \in 1..Len(checks'), NEW j \in 1..Len(checks'),
                                    i < j,
                                    checks'[i].role = checks'[j].role,
                                    checks'[i].permission = checks'[j].permission,
                                    checks'[i].allow
                             PROVE  checks'[j].allow
                    OBVIOUS
                <5>1. /\ i + shift \in 1..Len(list) /\ checks'[i] = list[i + shift]
                      /\ j + shift \in 1..Len(list) /\ checks'[j] = list[j + shift]
                    BY <3>6
                <5>2. i + shift < j + shift
                    BY <4>1
                <5> QED BY <3>3, <5>1, <5>2 DEF Holds
            <4> QED BY <4>2, <4>3 DEF Holds
        <3>8. \A i \in 1..Len(checks') : checks'[i].role \in DOMAIN granted
            <4>1. \A i \in 1..Len(list) : list[i].role \in DOMAIN granted
                BY <1>0, <3>1 DEF list
            <4> QED BY <3>6, <4>1
        <3>9. AclTypeOK'
            BY <1>0, <3>2, <3>5 DEF AclTypeOK
        <3>10. AllowsHold'
            <4>1. DOMAIN checks' = 1..Len(checks')
                BY <3>5
            <4>2. \A i \in DOMAIN checks' : checks'[i].allow =>
                      checks'[i].permission \in granted'[checks'[i].role]
                BY <3>2, <3>7, <4>1 DEF Holds
            <4>3. \A i, j \in DOMAIN checks' :
                      /\ i < j
                      /\ checks'[i].role = checks'[j].role
                      /\ checks'[i].permission = checks'[j].permission
                      => (checks'[i].allow => checks'[j].allow)
                BY <3>7, <4>1 DEF Holds
            <4> QED BY <4>2, <4>3 DEF AllowsHold
        <3> QED BY <3>2, <3>8, <3>9, <3>10 DEF AclInv
    <2> QED BY <2>1, <2>2
<1>5. CASE UNCHANGED aclVars
    BY <1>0, <1>1, <1>5 DEF aclVars
<1> QED BY <1>2, <1>3, <1>4, <1>5 DEF AclNext

-----------------------------------------------------------------------------
(* What Common's operators make of a list, as in QueriesProofs: of any set  *)
(* and any total order of it, of numbers, and of the places of a list.      *)

\* The order has every two elements of the set one way round.
TotalOn(order, set) ==
    /\ \A x, y \in set : <<x, y>> \in order \/ <<y, x>> \in order
    /\ \A x, y \in set : <<x, y>> \in order /\ <<y, x>> \in order => x = y
    /\ \A x, y, z \in set :
          <<x, y>> \in order /\ <<y, z>> \in order => <<x, z>> \in order

\* The list goes through the set, each element once, as the order has them.
Goes(list, set, order) ==
    /\ list \in [1..Cardinality(set) -> set]
    /\ \A i, j \in 1..Cardinality(set) : i # j => list[i] # list[j]
    /\ \A i, j \in 1..Cardinality(set) : i < j => <<list[i], list[j]>> \in order
    /\ \A x \in set : \E i \in 1..Cardinality(set) : list[i] = x

(* A finite set is arranged as a total order of it has it.                  *)
LEMMA ArrangedGoes ==
    ASSUME NEW set, IsFiniteSet(set), NEW order, TotalOn(order, set)
    PROVE  Goes(Arranged(set, order), set, order)
<1> DEFINE n == Cardinality(set)
           Upto(x) == {y \in set : <<y, x>> \in order}
           rank == [x \in set |-> Cardinality(Upto(x))]
<1>1. n \in Nat
  BY FS_CardinalityType
<1>2. \A x \in set : IsFiniteSet(Upto(x)) /\ rank[x] \in Nat /\ rank[x] <= n
  <2>1. ASSUME NEW x \in set
        PROVE  IsFiniteSet(Upto(x)) /\ rank[x] \in Nat /\ rank[x] <= n
    <3>1. Upto(x) \in SUBSET set
      OBVIOUS
    <3>2. IsFiniteSet(Upto(x)) /\ Cardinality(Upto(x)) <= n
      <4> HIDE DEF Upto
      <4> QED
        BY <3>1, FS_Subset
    <3> QED
      BY <3>2, FS_CardinalityType
  <2> QED
    BY <2>1
<1>3. ASSUME NEW x \in set, NEW y \in set, x # y, <<x, y>> \in order
      PROVE  rank[x] < rank[y]
  <2>1. Upto(x) \in SUBSET Upto(y)
    BY <1>3 DEF TotalOn
  <2>2. y \in Upto(y) /\ y \notin Upto(x)
    BY <1>3 DEF TotalOn
  <2>3. Upto(x) # Upto(y)
    BY <2>2
  <2>4. IsFiniteSet(Upto(x)) /\ IsFiniteSet(Upto(y))
    BY <1>2
  <2>5. /\ Cardinality(Upto(x)) <= Cardinality(Upto(y))
        /\ Cardinality(Upto(x)) # Cardinality(Upto(y))
    <3> HIDE DEF Upto
    <3> QED
      BY <2>1, <2>3, <2>4, FS_Subset
  <2>6. rank[x] = Cardinality(Upto(x)) /\ rank[y] = Cardinality(Upto(y))
    OBVIOUS
  <2>7. rank[x] \in Nat /\ rank[y] \in Nat
    BY <1>2
  <2> HIDE DEF Upto, rank
  <2> QED
    BY <2>5, <2>6, <2>7
<1>4. \A x \in set : rank[x] \in 1..n
  <2>1. ASSUME NEW x \in set PROVE rank[x] # 0
    <3>1. x \in Upto(x)
      BY DEF TotalOn
    <3>2. IsFiniteSet(Upto(x)) /\ Upto(x) # {}
      BY <1>2, <3>1
    <3>3. Cardinality(Upto(x)) # 0
      <4> HIDE DEF Upto
      <4> QED
        BY <3>2, FS_EmptySet
    <3> QED
      BY <3>3
  <2> HIDE DEF rank, n, Upto
  <2> QED
    BY <2>1, <1>1, <1>2
<1>5. \A x, y \in set : x # y => rank[x] # rank[y]
  <2>1. ASSUME NEW x \in set, NEW y \in set, x # y PROVE rank[x] # rank[y]
    <3>1. rank[x] \in Nat /\ rank[y] \in Nat
      BY <1>2
    <3>2. <<x, y>> \in order \/ <<y, x>> \in order
      BY DEF TotalOn
    <3>3. rank[x] < rank[y] \/ rank[y] < rank[x]
      <4> HIDE DEF rank
      <4> QED
        BY <3>2, <2>1, <1>3
    <3> HIDE DEF rank
    <3> QED
      BY <3>1, <3>3
  <2> QED
    BY <2>1
<1>6. rank \in Injection(set, 1..n)
  <2>1. rank \in [set -> 1..n]
    BY <1>4
  <2> HIDE DEF rank
  <2> QED
    BY <2>1, <1>5 DEF Injection, IsInjective
<1>7. \A i \in 1..n : \E x \in set : rank[x] = i
  <2>1. IsFiniteSet(1..n) /\ Cardinality(1..n) = n
    <3> HIDE DEF n
    <3> QED
      BY <1>1, FS_Interval
  <2>2. Cardinality(set) = Cardinality(1..n)
    BY <2>1
  <2>3. rank \in Surjection(set, 1..n)
    <3> HIDE DEF rank, n
    <3> QED
      BY <1>6, <2>1, <2>2, FS_Injection
  <2> HIDE DEF rank, n
  <2> QED
    BY <2>3 DEF Surjection
<1> DEFINE list == [i \in 1..n |-> CHOOSE x \in set : rank[x] = i]
<1>8. Arranged(set, order) = list
  BY DEF Arranged
<1>9. \A i \in 1..n : list[i] \in set /\ rank[list[i]] = i
  <2>1. ASSUME NEW i \in 1..n PROVE list[i] \in set /\ rank[list[i]] = i
    <3>1. \E x \in set : rank[x] = i
      BY <1>7
    <3>2. list[i] = CHOOSE x \in set : rank[x] = i
      OBVIOUS
    <3> HIDE DEF rank, list, n
    <3> QED
      BY <3>1, <3>2
  <2> QED
    BY <2>1
<1>10. list \in [1..n -> set]
  <2>1. \A i \in 1..n : (CHOOSE x \in set : rank[x] = i) \in set
    <3> HIDE DEF rank, n
    <3> QED
      BY <1>7
  <2> HIDE DEF rank, n
  <2> QED
    BY <2>1
<1>11. \A x \in set : \E i \in 1..n : list[i] = x
  <2>1. ASSUME NEW x \in set PROVE list[rank[x]] = x
    <3> HIDE DEF rank, list
    <3> QED
      BY <1>4, <1>9, <1>5
  <2> HIDE DEF rank, list, n
  <2> QED
    BY <2>1, <1>4
<1>12. \A i, j \in 1..n : i < j => <<list[i], list[j]>> \in order
  <2>1. ASSUME NEW i \in 1..n, NEW j \in 1..n, i < j
        PROVE  <<list[i], list[j]>> \in order
    <3>1. /\ list[i] \in set /\ list[j] \in set
          /\ rank[list[i]] = i /\ rank[list[j]] = j
      <4> HIDE DEF rank, list
      <4> QED
        BY <1>9
    <3>2. list[i] # list[j]
      <4> HIDE DEF rank, list
      <4> QED
        BY <3>1, <2>1, <1>1
    <3>3. <<list[i], list[j]>> \in order \/ <<list[j], list[i]>> \in order
      <4> HIDE DEF rank, list
      <4> QED
        BY <3>1 DEF TotalOn
    <3>4. ~(rank[list[j]] < rank[list[i]])
      <4> HIDE DEF rank, list
      <4> QED
        BY <3>1, <2>1, <1>1
    <3> HIDE DEF rank, list
    <3> QED
      BY <3>1, <3>2, <3>3, <3>4, <1>3
  <2> HIDE DEF list, n
  <2> QED
    BY <2>1
<1>13. \A i, j \in 1..n : i # j => list[i] # list[j]
  <2> HIDE DEF rank, list, n
  <2> QED
    BY <1>9
<1> HIDE DEF list
<1> QED
  BY <1>8, <1>10, <1>11, <1>12, <1>13 DEF Goes

\* A list, rearranged as an order of its places has it.
Rearranged(list, sorted, order) ==
    \E place \in [DOMAIN list -> DOMAIN list] :
        /\ \A i, j \in DOMAIN list : i # j => place[i] # place[j]
        /\ \A i, j \in DOMAIN list : i < j => <<place[i], place[j]>> \in order
        /\ \A x \in DOMAIN list : \E i \in DOMAIN list : place[i] = x
        /\ sorted = [i \in DOMAIN list |-> list[place[i]]]

(* The places of a list, arranged, rearrange it.                            *)
LEMMA ArrangedList ==
    ASSUME NEW S, NEW list \in Seq(S), NEW order, TotalOn(order, DOMAIN list)
    PROVE  Rearranged(list, [i \in DOMAIN list |->
                                list[Arranged(DOMAIN list, order)[i]]], order)
<1> DEFINE place == Arranged(DOMAIN list, order)
<1>1. /\ DOMAIN list = 1..Len(list)
      /\ IsFiniteSet(DOMAIN list)
      /\ Cardinality(DOMAIN list) = Len(list)
  <2>1. Len(list) \in Nat /\ DOMAIN list = 1..Len(list)
    OBVIOUS
  <2>2. IsFiniteSet(1..Len(list)) /\ Cardinality(1..Len(list)) = Len(list)
    BY <2>1, FS_Interval
  <2> QED
    BY <2>1, <2>2
<1>2. Goes(place, DOMAIN list, order)
  BY <1>1, ArrangedGoes
<1> HIDE DEF place
<1>3. /\ place \in [DOMAIN list -> DOMAIN list]
      /\ \A i, j \in DOMAIN list : i # j => place[i] # place[j]
      /\ \A i, j \in DOMAIN list : i < j => <<place[i], place[j]>> \in order
      /\ \A x \in DOMAIN list : \E i \in DOMAIN list : place[i] = x
  BY <1>1, <1>2 DEF Goes
<1>4. Rearranged(list, [i \in DOMAIN list |-> list[place[i]]], order)
  BY <1>3 DEF Rearranged
<1> QED
  BY <1>4 DEF place

(* The numbers of a finite set are put in order.                            *)
LEMMA InOrderIs ==
    ASSUME NEW set \in SUBSET Nat, IsFiniteSet(set)
    PROVE  /\ Cardinality(set) \in Nat
           /\ InOrder(set) \in [1..Cardinality(set) -> set]
           /\ InOrder(set) \in Seq(set)
           /\ Len(InOrder(set)) = Cardinality(set)
           /\ DOMAIN InOrder(set) = 1..Cardinality(set)
           /\ \A i, j \in 1..Cardinality(set) :
                 i < j => InOrder(set)[i] < InOrder(set)[j]
           /\ \A x \in set : \E i \in 1..Cardinality(set) : InOrder(set)[i] = x
<1> DEFINE order == {pair \in set \X set : pair[1] <= pair[2]}
           n == Cardinality(set)
<1>1. \A x, y \in set : <<x, y>> \in order <=> x <= y
  OBVIOUS
<1>2. TotalOn(order, set)
  <2> HIDE DEF order
  <2> QED
    BY <1>1 DEF TotalOn
<1>3. n \in Nat
  BY FS_CardinalityType
<1>4. Goes(InOrder(set), set, order)
  BY <1>2, ArrangedGoes DEF InOrder
<1> HIDE DEF order, n
<1>5. /\ InOrder(set) \in [1..n -> set]
      /\ \A i, j \in 1..n : i # j => InOrder(set)[i] # InOrder(set)[j]
      /\ \A i, j \in 1..n : i < j => <<InOrder(set)[i], InOrder(set)[j]>> \in order
      /\ \A x \in set : \E i \in 1..n : InOrder(set)[i] = x
  BY <1>4 DEF Goes, n
<1>6. \A i, j \in 1..n : i < j => InOrder(set)[i] < InOrder(set)[j]
  <2>1. ASSUME NEW i \in 1..n, NEW j \in 1..n, i < j
        PROVE  InOrder(set)[i] < InOrder(set)[j]
    <3>1. InOrder(set)[i] \in set /\ InOrder(set)[j] \in set
      BY <1>5
    <3>2. InOrder(set)[i] # InOrder(set)[j]
      BY <1>3, <1>5, <2>1
    <3>3. InOrder(set)[i] <= InOrder(set)[j]
      <4>1. <<InOrder(set)[i], InOrder(set)[j]>> \in order
        BY <1>5, <2>1
      <4> QED
        BY <1>1, <4>1, <3>1
    <3>4. InOrder(set)[i] \in Nat /\ InOrder(set)[j] \in Nat
      BY <3>1
    <3> QED
      BY <3>2, <3>3, <3>4
  <2> QED
    BY <2>1
<1>7. InOrder(set) \in Seq(set) /\ Len(InOrder(set)) = n
  BY <1>3, <1>5
<1> QED
  BY <1>3, <1>5, <1>6, <1>7 DEF n

\* Which places of a list come before which: none before one that comes before
\* it, and any place on one side or the other of two that are so.
Weak(before, D) ==
    /\ \A x, y \in D : <<x, y>> \in before => <<y, x>> \notin before
    /\ \A x, y, z \in D :
          <<x, y>> \in before => <<x, z>> \in before \/ <<z, y>> \in before

\* The order std::sort puts the places in.
Stable(before, D) ==
    {pair \in D \X D : \/ pair \in before
                       \/ pair[1] <= pair[2] /\ <<pair[2], pair[1]>> \notin before}

(* It is a total order.                                                     *)
LEMMA StableIsTotal ==
    ASSUME NEW D \in SUBSET Nat, NEW before, Weak(before, D)
    PROVE  TotalOn(Stable(before, D), D)
<1> DEFINE order == Stable(before, D)
<1>1. ASSUME NEW x \in D, NEW y \in D
      PROVE  <<x, y>> \in order <=>
                \/ <<x, y>> \in before
                \/ x <= y /\ <<y, x>> \notin before
  BY DEF Stable
<1> HIDE DEF order
<1>2. ASSUME NEW x \in D, NEW y \in D
      PROVE  <<x, y>> \in order \/ <<y, x>> \in order
  <2>1. x \in Nat /\ y \in Nat
    OBVIOUS
  <2>2. x <= y \/ y <= x
    BY <2>1
  <2> QED
    BY <1>1, <2>2
<1>3. ASSUME NEW x \in D, NEW y \in D, <<x, y>> \in order, <<y, x>> \in order
      PROVE  x = y
  <2>1. x \in Nat /\ y \in Nat
    OBVIOUS
  <2>2. x <= y /\ y <= x
    BY <1>1, <1>3 DEF Weak
  <2> QED
    BY <2>1, <2>2
<1>4. ASSUME NEW x \in D, NEW y \in D, NEW z \in D,
             <<x, y>> \in order, <<y, z>> \in order
      PROVE  <<x, z>> \in order
  <2>1. x \in Nat /\ y \in Nat /\ z \in Nat
    OBVIOUS
  <2>2. CASE <<x, y>> \in before
    BY <1>1, <1>4, <2>2 DEF Weak
  <2>3. CASE <<y, z>> \in before
    BY <1>1, <1>4, <2>3 DEF Weak
  <2>4. CASE <<x, y>> \notin before /\ <<y, z>> \notin before
    <3>1. x <= y /\ y <= z /\ <<y, x>> \notin before /\ <<z, y>> \notin before
      BY <1>1, <1>4, <2>4
    <3>2. x <= z
      BY <2>1, <3>1
    <3>3. <<z, x>> \notin before
      BY <3>1 DEF Weak
    <3> QED
      BY <1>1, <3>2, <3>3
  <2> QED
    BY <2>2, <2>3, <2>4
<1>5. TotalOn(order, D)
  BY <1>2, <1>3, <1>4 DEF TotalOn
<1> QED
  BY <1>5 DEF order

(* std::sort of a list whose places come before each other in such a way.   *)
LEMMA SortedList ==
    ASSUME NEW S, NEW list \in Seq(S), NEW before, Weak(before, DOMAIN list)
    PROVE  Rearranged(list,
                      [i \in DOMAIN list |->
                          list[Arranged(DOMAIN list, Stable(before, DOMAIN list))[i]]],
                      Stable(before, DOMAIN list))
<1>1. DOMAIN list \in SUBSET Nat
  OBVIOUS
<1>2. TotalOn(Stable(before, DOMAIN list), DOMAIN list)
  BY <1>1, StableIsTotal
<1> QED
  BY <1>2, ArrangedList

-----------------------------------------------------------------------------
(* The timeline.  Its events are sorted, picked and dropped: what is said   *)
(* of them is how often each of them is in a list.                          *)

Event == [stamp : Nat, tag : Nat]

\* No event comes before one that is in front of it.
InTime(list) == \A i, j \in DOMAIN list : i < j => ~Before(list[j], list[i])

\* Each event is in one list at most as often as in another.
Fewer(few, many) == \A e \in Event : Copies(few, e) <= Copies(many, e)

\* The events of a list that are of a span.
InSpan(list, begin, end) ==
    At(list, {i \in DOMAIN list : list[i].stamp \in begin..end})

TimelineTypeOK ==
    /\ events \in Seq(Event)
    /\ window \in Seq(Event)
    /\ recorded \in Seq(Event)
    /\ retained \in Nat
    /\ span \in Nat \X Nat

WindowFits ==
    window # <<>> =>
        /\ changed = {} => window = Within(span[1], span[2])
        /\ "dropped" \notin changed => Fewer(window, Within(span[1], span[2]))

(* The inductive invariant of the timeline: every event, and not only one   *)
(* that is there still, was recorded as often; and a window is sorted since *)
(* the events it was copied from were, two neighbours or not.               *)
TimelineInv ==
    /\ TimelineTypeOK
    /\ InTime(events) /\ InTime(window)
    /\ retained + Len(events) = Len(recorded)
    /\ Fewer(events, recorded)
    /\ WindowFits

\* An event is in a list a number of times.
LEMMA CopiesCount ==
    ASSUME NEW list \in Seq(Event), NEW e
    PROVE  /\ IsFiniteSet({i \in DOMAIN list : list[i] = e})
           /\ Copies(list, e) \in Nat
<1> DEFINE found == {i \in DOMAIN list : list[i] = e}
<1>1. IsFiniteSet(1..Len(list)) /\ DOMAIN list = 1..Len(list)
    BY FS_Interval
<1>2. found \in SUBSET (1..Len(list))
    BY <1>1
<1>3. IsFiniteSet(found)
    <2> HIDE DEF found
    <2> QED BY <1>1, <1>2, FS_Subset
<1>4. Cardinality(found) \in Nat
    <2> HIDE DEF found
    <2> QED BY <1>3, FS_CardinalityType
<1> QED BY <1>3, <1>4 DEF Copies

\* Each copy of an event in one list has a copy of its own in another.
Moves(to, few, many, e) ==
    /\ \A i \in DOMAIN few :
          few[i] = e => to[i] \in DOMAIN many /\ many[to[i]] = e
    /\ \A i, j \in DOMAIN few :
          few[i] = e /\ few[j] = e /\ i # j => to[i] # to[j]

\* Where each copy in one list has a copy of its own in another, the other has
\* as many.
LEMMA CopiesMove ==
    ASSUME NEW few \in Seq(Event), NEW many \in Seq(Event), NEW e, NEW to,
           Moves(to, few, many, e)
    PROVE  Copies(few, e) <= Copies(many, e)
<1> DEFINE A == {i \in DOMAIN few : few[i] = e}
           B == {i \in DOMAIN many : many[i] = e}
           f == [i \in A |-> to[i]]
<1>1. f \in [A -> B]
    BY DEF Moves
<1>2. \A i, j \in A : f[i] = f[j] => i = j
    BY DEF Moves
<1>3. IsFiniteSet(B)
    BY CopiesCount
<1>4. Copies(few, e) = Cardinality(A) /\ Copies(many, e) = Cardinality(B)
    BY DEF Copies
<1> HIDE DEF A, B, f
<1>5. f \in Injection(A, B)
    BY <1>1, <1>2 DEF Injection, IsInjective
<1>6. Cardinality(A) <= Cardinality(B)
    BY <1>3, <1>5, FS_Injection
<1> QED BY <1>4, <1>6

\* What is appended is there once more.
LEMMA CopiesAppend ==
    ASSUME NEW list \in Seq(Event), NEW x \in Event, NEW e
    PROVE  /\ Append(list, x) \in Seq(Event)
           /\ Len(Append(list, x)) = Len(list) + 1
           /\ Copies(Append(list, x), e) =
                  Copies(list, e) + (IF x = e THEN 1 ELSE 0)
<1> DEFINE n == Len(list)
           found == {i \in DOMAIN list : list[i] = e}
           new == {i \in DOMAIN Append(list, x) : Append(list, x)[i] = e}
<1>1. n \in Nat /\ DOMAIN list = 1..n /\ DOMAIN Append(list, x) = 1..(n + 1)
    OBVIOUS
<1>2. /\ \A i \in 1..n : Append(list, x)[i] = list[i]
      /\ Append(list, x)[n + 1] = x
    OBVIOUS
<1>3. IsFiniteSet(found) /\ n + 1 \notin found
    BY <1>1, CopiesCount
<1>4. CASE x = e
    <2>1. \A i : i \in new <=> i \in found \/ i = n + 1
        BY <1>1, <1>2, <1>4
    <2>0. Copies(Append(list, x), e) = Cardinality(new) /\ Copies(list, e) = Cardinality(found)
        BY DEF Copies
    <2> HIDE DEF new, found, n
    <2>2. new = found \cup {n + 1}
        BY <2>1
    <2>3. Cardinality(new) = Cardinality(found) + 1
        BY <1>3, <2>2, FS_AddElement
    <2> QED BY <1>4, <2>0, <2>3
<1>5. CASE x # e
    <2>1. \A i : i \in new <=> i \in found
        BY <1>1, <1>2, <1>5
    <2>2. new = found
        <3> HIDE DEF new, found
        <3> QED BY <2>1
    <2>3. Copies(Append(list, x), e) = Copies(list, e)
        BY <2>2 DEF Copies
    <2>4. Copies(list, e) \in Nat
        BY CopiesCount
    <2> QED BY <1>5, <2>3, <2>4
<1> QED BY <1>4, <1>5

\* Events that are in order stay so whichever is put next to them.
LEMMA EventOrder ==
    ASSUME NEW x \in Event, NEW y \in Event, NEW z \in Event, Before(x, y)
    PROVE  ~Before(y, x) /\ (Before(x, z) \/ Before(z, y))
<1> DEFINE a == x.stamp
           b == y.stamp
           c == z.stamp
           p == x.tag
           q == y.tag
           t == z.tag
<1>1. a \in Nat /\ b \in Nat /\ c \in Nat /\ p \in Nat /\ q \in Nat /\ t \in Nat
    BY DEF Event
<1>2. /\ Before(x, y) <=> (a < b \/ (a = b /\ p < q))
      /\ Before(y, x) <=> (b < a \/ (b = a /\ q < p))
      /\ Before(x, z) <=> (a < c \/ (a = c /\ p < t))
      /\ Before(z, y) <=> (c < b \/ (c = b /\ t < q))
    BY DEF Before
<1> HIDE DEF a, b, c, p, q, t
<1>3. a < b \/ (a = b /\ p < q)
    BY <1>2
<1>4. ~(b < a \/ (b = a /\ q < p))
    BY <1>1, <1>3
<1>5. (a < c \/ (a = c /\ p < t)) \/ (c < b \/ (c = b /\ t < q))
    BY <1>1, <1>3
<1> QED BY <1>2, <1>4, <1>5

\* The events, sorted, are the same events, each as often.
LEMMA EventsSorted ==
    ASSUME NEW list \in Seq(Event), NEW sorted, sorted = Sorted(list, Before)
    PROVE  /\ sorted \in Seq(Event)
           /\ Len(sorted) = Len(list)
           /\ InTime(sorted)
           /\ Fewer(sorted, list)
           /\ Fewer(list, sorted)
<1> DEFINE D == DOMAIN list
           before == {pair \in D \X D : Before(list[pair[1]], list[pair[2]])}
           order == {pair \in D \X D :
                        \/ Before(list[pair[1]], list[pair[2]])
                        \/ /\ pair[1] <= pair[2]
                           /\ ~Before(list[pair[2]], list[pair[1]])}
<1>1. Sorted(list, Before) = [i \in D |-> list[Arranged(D, order)[i]]]
    BY DEF Sorted
<1>2. order = Stable(before, D)
    BY DEF Stable
<1>3. \A x \in D : list[x] \in Event
    OBVIOUS
<1>4. \A x, y \in D : <<x, y>> \in before <=> Before(list[x], list[y])
    OBVIOUS
<1>5. \A x, y \in D : <<x, y>> \in order =>
          Before(list[x], list[y]) \/ ~Before(list[y], list[x])
    OBVIOUS
<1> HIDE DEF before, order
<1>6. ASSUME NEW x \in D, NEW y \in D, Before(list[x], list[y])
      PROVE  ~Before(list[y], list[x])
    BY <1>3, <1>6, EventOrder
<1>7. Weak(before, D)
    <2>1. \A x, y \in D : <<x, y>> \in before => <<y, x>> \notin before
        BY <1>4, <1>6
    <2>2. ASSUME NEW x \in D, NEW y \in D, NEW z \in D, <<x, y>> \in before
          PROVE  <<x, z>> \in before \/ <<z, y>> \in before
        <3>1. list[x] \in Event /\ list[y] \in Event /\ list[z] \in Event
            BY <1>3
        <3>2. Before(list[x], list[y])
            BY <1>4, <2>2
        <3>3. Before(list[x], list[z]) \/ Before(list[z], list[y])
            BY <3>1, <3>2, EventOrder
        <3> QED BY <1>4, <3>3
    <2> QED BY <2>1, <2>2 DEF Weak
<1>8. Rearranged(list, sorted, order)
    BY <1>1, <1>2, <1>7, SortedList
<1>9. PICK place \in [D -> D] :
          /\ \A i, j \in D : i # j => place[i] # place[j]
          /\ \A i, j \in D : i < j => <<place[i], place[j]>> \in order
          /\ \A x \in D : \E i \in D : place[i] = x
          /\ sorted = [i \in D |-> list[place[i]]]
    BY <1>8 DEF Rearranged
<1>10. D = 1..Len(list) /\ Len(list) \in Nat
    OBVIOUS
<1>11. sorted \in Seq(Event) /\ Len(sorted) = Len(list) /\ DOMAIN sorted = D
    <2>1. sorted \in [1..Len(list) -> Event]
        BY <1>9, <1>10
    <2> QED BY <1>10, <2>1
<1>12. InTime(sorted)
    <2>1. ASSUME NEW i \in D, NEW j \in D, i < j
          PROVE  ~Before(sorted[j], sorted[i])
        <3>1. <<place[i], place[j]>> \in order /\ place[i] \in D /\ place[j] \in D
            BY <1>9, <2>1
        <3>2. ~Before(list[place[j]], list[place[i]])
            BY <1>5, <1>6, <3>1
        <3> QED BY <1>9, <3>2
    <2> QED BY <1>11, <2>1 DEF InTime
<1>13. ASSUME NEW e \in Event PROVE Copies(sorted, e) <= Copies(list, e)
    <2>1. \A i \in DOMAIN sorted :
              sorted[i] = e => place[i] \in DOMAIN list /\ list[place[i]] = e
        BY <1>9
    <2>2. \A i, j \in DOMAIN sorted :
              sorted[i] = e /\ sorted[j] = e /\ i # j => place[i] # place[j]
        BY <1>9, <1>11
    <2>3. sorted \in Seq(Event) /\ list \in Seq(Event)
        BY <1>11
    <2>4. Moves(place, sorted, list, e)
        BY <2>1, <2>2 DEF Moves
    <2> QED BY <2>3, <2>4, CopiesMove
<1> DEFINE back == [x \in D |-> CHOOSE i \in D : place[i] = x]
<1>14. \A x \in D : back[x] \in D /\ place[back[x]] = x
    BY <1>9
<1> HIDE DEF back
<1>15. ASSUME NEW e \in Event PROVE Copies(list, e) <= Copies(sorted, e)
    <2>1. \A x \in DOMAIN list :
              list[x] = e => back[x] \in DOMAIN sorted /\ sorted[back[x]] = e
        BY <1>9, <1>11, <1>14
    <2>2. \A x, y \in DOMAIN list :
              list[x] = e /\ list[y] = e /\ x # y => back[x] # back[y]
        BY <1>14
    <2>3. Moves(back, list, sorted, e)
        BY <2>1, <2>2 DEF Moves
    <2> QED BY <1>11, <2>3, CopiesMove
<1> QED BY <1>11, <1>12, <1>13, <1>15 DEF Fewer

\* What a window has: the events of its span, each as often and in their order.
LEMMA SpanIs ==
    ASSUME NEW list \in Seq(Event), NEW begin \in Nat, NEW end \in Nat
    PROVE  /\ InSpan(list, begin, end) \in Seq(Event)
           /\ InTime(list) => InTime(InSpan(list, begin, end))
           /\ \A e \in Event :
                 Copies(InSpan(list, begin, end), e) =
                     IF e.stamp \in begin..end THEN Copies(list, e) ELSE 0
<1> DEFINE places == {i \in DOMAIN list : list[i].stamp \in begin..end}
           place == InOrder(places)
           n == Cardinality(places)
           part == InSpan(list, begin, end)
<1>1. DOMAIN list = 1..Len(list) /\ Len(list) \in Nat
    OBVIOUS
<1>2. places \in SUBSET Nat /\ IsFiniteSet(places)
    <2>1. places \in SUBSET (1..Len(list)) /\ IsFiniteSet(1..Len(list))
        BY <1>1, FS_Interval
    <2>2. places \in SUBSET Nat
        BY <1>1
    <2> HIDE DEF places
    <2> QED BY <2>1, <2>2, FS_Subset
<1>3. /\ n \in Nat
      /\ place \in [1..n -> places]
      /\ DOMAIN place = 1..n
      /\ \A i, j \in 1..n : i < j => place[i] < place[j]
      /\ \A x \in places : \E i \in 1..n : place[i] = x
    <2> HIDE DEF places
    <2> QED BY <1>2, InOrderIs
<1>4. part = [i \in 1..n |-> list[place[i]]]
    <2>1. part = [i \in DOMAIN place |-> list[place[i]]]
        BY DEF InSpan, At
    <2> HIDE DEF part, place, n
    <2> QED BY <1>3, <2>1
<1>5. \A x : x \in places <=> x \in DOMAIN list /\ list[x].stamp \in begin..end
    OBVIOUS
<1> HIDE DEF places, place, n, part
<1>6. \A i \in 1..n : place[i] \in DOMAIN list
    BY <1>3, <1>5
<1>7. part \in Seq(Event) /\ DOMAIN part = 1..n
    <2>1. part \in [1..n -> Event]
        BY <1>4, <1>6
    <2> QED BY <1>3, <2>1
<1>8. ASSUME InTime(list) PROVE InTime(part)
    <2>1. ASSUME NEW i \in 1..n, NEW j \in 1..n, i < j
          PROVE  ~Before(part[j], part[i])
        <3>1. place[i] < place[j] /\ place[i] \in DOMAIN list /\ place[j] \in DOMAIN list
            BY <1>3, <1>6, <2>1
        <3> QED BY <1>4, <1>8, <3>1 DEF InTime
    <2> QED BY <1>7, <2>1 DEF InTime
<1>9. \A i, j \in 1..n : i # j => place[i] # place[j]
    <2>1. ASSUME NEW i \in 1..n, NEW j \in 1..n, i # j PROVE place[i] # place[j]
        <3>1. place[i] \in Nat /\ place[j] \in Nat
            BY <1>2, <1>3
        <3>2. i < j \/ j < i
            BY <1>3, <2>1
        <3>3. place[i] < place[j] \/ place[j] < place[i]
            BY <1>3, <3>2
        <3> QED BY <3>1, <3>3
    <2> QED BY <2>1
<1>10. ASSUME NEW e \in Event, e.stamp \in begin..end
       PROVE  Copies(part, e) = Copies(list, e)
    <2>1. Copies(part, e) <= Copies(list, e)
        <3>1. \A i \in DOMAIN part :
                  part[i] = e => place[i] \in DOMAIN list /\ list[place[i]] = e
            BY <1>4, <1>6, <1>7
        <3>2. \A i, j \in DOMAIN part :
                  part[i] = e /\ part[j] = e /\ i # j => place[i] # place[j]
            BY <1>7, <1>9
        <3>3. Moves(place, part, list, e)
            BY <3>1, <3>2 DEF Moves
        <3> QED BY <1>7, <3>3, CopiesMove
    <2> DEFINE back == [x \in places |-> CHOOSE i \in 1..n : place[i] = x]
    <2>2. \A x \in places : back[x] \in 1..n /\ place[back[x]] = x
        BY <1>3
    <2> HIDE DEF back
    <2>3. Copies(list, e) <= Copies(part, e)
        <3>1. \A x \in DOMAIN list : list[x] = e => x \in places
            BY <1>5, <1>10
        <3>2. \A x \in DOMAIN list :
                  list[x] = e => back[x] \in DOMAIN part /\ part[back[x]] = e
            BY <1>4, <1>7, <2>2, <3>1
        <3>3. \A x, y \in DOMAIN list :
                  list[x] = e /\ list[y] = e /\ x # y => back[x] # back[y]
            BY <2>2, <3>1
        <3>4. Moves(back, list, part, e)
            BY <3>2, <3>3 DEF Moves
        <3> QED BY <1>7, <3>4, CopiesMove
    <2>4. Copies(part, e) \in Nat /\ Copies(list, e) \in Nat
        BY <1>7, CopiesCount
    <2> QED BY <2>1, <2>3, <2>4
<1>11. ASSUME NEW e \in Event, e.stamp \notin begin..end
       PROVE  Copies(part, e) = 0
    <2>1. \A i \in DOMAIN part : part[i] # e
        BY <1>3, <1>4, <1>5, <1>7, <1>11
    <2>2. {i \in DOMAIN part : part[i] = e} = {}
        BY <2>1
    <2> QED BY <2>2, FS_EmptySet DEF Copies
<1>12. \A e \in Event :
          Copies(part, e) = IF e.stamp \in begin..end THEN Copies(list, e) ELSE 0
    BY <1>10, <1>11
<1> QED BY <1>7, <1>8, <1>12 DEF part

\* Of more events, a window has more.
LEMMA SpanGrows ==
    ASSUME NEW few \in Seq(Event), NEW many \in Seq(Event), Fewer(few, many),
           NEW begin \in Nat, NEW end \in Nat
    PROVE  Fewer(InSpan(few, begin, end), InSpan(many, begin, end))
<1>1. ASSUME NEW e \in Event
      PROVE  Copies(InSpan(few, begin, end), e) <= Copies(InSpan(many, begin, end), e)
    <2>1. Copies(few, e) <= Copies(many, e)
        BY DEF Fewer
    <2>2. /\ Copies(InSpan(few, begin, end), e) =
                 IF e.stamp \in begin..end THEN Copies(few, e) ELSE 0
          /\ Copies(InSpan(many, begin, end), e) =
                 IF e.stamp \in begin..end THEN Copies(many, e) ELSE 0
        BY SpanIs
    <2> QED BY <2>1, <2>2
<1> QED BY <1>1 DEF Fewer

\* At most as often as in a list that has them at most as often as a third.
LEMMA FewerGoesOn ==
    ASSUME NEW a \in Seq(Event), NEW b \in Seq(Event), NEW c \in Seq(Event),
           Fewer(a, b), Fewer(b, c)
    PROVE  Fewer(a, c)
<1>1. ASSUME NEW e \in Event PROVE Copies(a, e) <= Copies(c, e)
    <2>1. Copies(a, e) <= Copies(b, e) /\ Copies(b, e) <= Copies(c, e)
        BY DEF Fewer
    <2>2. Copies(a, e) \in Nat /\ Copies(b, e) \in Nat /\ Copies(c, e) \in Nat
        BY CopiesCount
    <2> QED BY <2>1, <2>2
<1> QED BY <1>1 DEF Fewer

\* What RETAIN leaves of a list.
LatestOf(list, count) == SubSeq(list, Len(list) - count + 1, Len(list))

\* The latest events are some of the events, in their order.
LEMMA LatestAre ==
    ASSUME NEW list \in Seq(Event), NEW count \in 0..Len(list)
    PROVE  /\ LatestOf(list, count) \in Seq(Event)
           /\ Len(LatestOf(list, count)) = count
           /\ InTime(list) => InTime(LatestOf(list, count))
           /\ Fewer(LatestOf(list, count), list)
<1> DEFINE n == Len(list)
           kept == LatestOf(list, count)
           skip == n - count
           to == [i \in 1..count |-> skip + i]
<1>1. n \in Nat /\ count \in Nat /\ skip \in Nat /\ DOMAIN list = 1..n
    OBVIOUS
<1>2. /\ kept \in Seq(Event) /\ Len(kept) = count /\ DOMAIN kept = 1..count
      /\ \A i \in 1..count : kept[i] = list[skip + i]
    BY DEF LatestOf
<1> HIDE DEF kept
<1>3. \A i \in 1..count : skip + i \in DOMAIN list
    BY <1>1
<1>4. ASSUME InTime(list) PROVE InTime(kept)
    <2>1. ASSUME NEW i \in 1..count, NEW j \in 1..count, i < j
          PROVE  ~Before(kept[j], kept[i])
        <3>1. /\ skip + i \in DOMAIN list /\ skip + j \in DOMAIN list
              /\ skip + i < skip + j
            BY <1>1, <1>3, <2>1
        <3>2. ~Before(list[skip + j], list[skip + i])
            BY <1>4, <3>1 DEF InTime
        <3> QED BY <1>2, <3>2
    <2> QED BY <1>2, <2>1 DEF InTime
<1>5. ASSUME NEW e \in Event PROVE Copies(kept, e) <= Copies(list, e)
    <2>1. \A i \in DOMAIN kept :
              kept[i] = e => to[i] \in DOMAIN list /\ list[to[i]] = e
        BY <1>2, <1>3
    <2>2. \A i, j \in DOMAIN kept :
              kept[i] = e /\ kept[j] = e /\ i # j => to[i] # to[j]
        BY <1>1, <1>2
    <2>3. kept \in Seq(Event) /\ list \in Seq(Event)
        BY <1>2
    <2>4. Moves(to, kept, list, e)
        BY <2>1, <2>2 DEF Moves
    <2> HIDE DEF to
    <2> QED BY <2>3, <2>4, CopiesMove
<1> QED BY <1>2, <1>4, <1>5 DEF Fewer, kept

\* The commands of the timeline keep its invariant.
LEMMA TimelineNextInv ==
    TimelineInv /\ (TimelineNext \/ UNCHANGED timelineVars) => TimelineInv'
<1> SUFFICES ASSUME TimelineInv, TimelineNext \/ UNCHANGED timelineVars
             PROVE  TimelineInv'
    OBVIOUS
<1> USE DEF TimelineInv, TimelineTypeOK
<1>0. \A b, e : Within(b, e) = InSpan(events, b, e)
    BY DEF Within, InSpan
<1>1. \A b, e : Within(b, e)' = InSpan(events', b, e)
    BY DEF Within, InSpan
<1>2. span[1] \in Nat /\ span[2] \in Nat
    OBVIOUS
<1>3. CASE UNCHANGED timelineVars
    BY <1>3, <1>0, <1>1 DEF timelineVars, WindowFits, InTime, Fewer, Copies, Within
<1>4. ASSUME NEW tag \in Tags, NEW stamp \in Stamps, RecordTimeline(tag, stamp)
      PROVE  TimelineInv'
    <2> DEFINE event == [stamp |-> stamp, tag |-> tag]
               longer == Append(events, event)
    <2>1. CASE status' = "ok"
        <3>1. /\ events' = Sorted(longer, Before)
              /\ recorded' = Append(recorded, event)
              /\ changed' = changed \cup {"recorded"}
              /\ window' = window /\ retained' = retained /\ span' = span
            BY <1>4, <2>1 DEF RecordTimeline, WithEvent
        <3>2. event \in Event
            BY TimelineConstants DEF Event
        <3> HIDE DEF event
        <3>3. /\ longer \in Seq(Event) /\ Len(longer) = Len(events) + 1
              /\ recorded' \in Seq(Event) /\ Len(recorded') = Len(recorded) + 1
            BY <3>1, <3>2
        <3>4. Fewer(longer, recorded')
            <4>1. ASSUME NEW e \in Event PROVE Copies(longer, e) <= Copies(recorded', e)
                <5>1. /\ Copies(longer, e) = Copies(events, e) + (IF event = e THEN 1 ELSE 0)
                      /\ Copies(recorded', e) = Copies(recorded, e) + (IF event = e THEN 1 ELSE 0)
                    BY <3>1, <3>2, CopiesAppend
                <5>2. Copies(events, e) \in Nat /\ Copies(recorded, e) \in Nat
                    BY CopiesCount
                <5>3. Copies(events, e) <= Copies(recorded, e)
                    BY DEF Fewer
                <5> QED BY <5>1, <5>2, <5>3
            <4> QED BY <4>1 DEF Fewer
        <3>5. Fewer(events, longer)
            <4>1. ASSUME NEW e \in Event PROVE Copies(events, e) <= Copies(longer, e)
                <5>1. Copies(longer, e) = Copies(events, e) + (IF event = e THEN 1 ELSE 0)
                    BY <3>2, CopiesAppend
                <5>2. Copies(events, e) \in Nat
                    BY CopiesCount
                <5> QED BY <5>1, <5>2
            <4> QED BY <4>1 DEF Fewer
        <3> HIDE DEF longer
        <3>6. /\ events' \in Seq(Event) /\ Len(events') = Len(longer)
              /\ InTime(events') /\ Fewer(events', longer) /\ Fewer(longer, events')
            BY <3>1, <3>3, EventsSorted
        <3>7. Fewer(events', recorded') /\ Fewer(events, events')
            BY <3>3, <3>4, <3>5, <3>6, FewerGoesOn
        <3>8. WindowFits'
            <4>1. SUFFICES ASSUME window # <<>>, "dropped" \notin changed
                           PROVE  Fewer(window, InSpan(events', span[1], span[2]))
                BY <1>1, <3>1 DEF WindowFits, Fewer, Copies
            <4>2. Fewer(window, InSpan(events, span[1], span[2]))
                BY <1>0, <4>1 DEF WindowFits
            <4>3. Fewer(InSpan(events, span[1], span[2]), InSpan(events', span[1], span[2]))
                BY <1>2, <3>6, <3>7, SpanGrows
            <4>4. /\ InSpan(events, span[1], span[2]) \in Seq(Event)
                  /\ InSpan(events', span[1], span[2]) \in Seq(Event)
                BY <1>2, <3>6, SpanIs
            <4> QED BY <4>2, <4>3, <4>4, FewerGoesOn
        <3>9. InTime(window)' /\ InTime(events)' /\ Fewer(events, recorded)'
            BY <3>1, <3>6, <3>7 DEF InTime, Fewer, Copies
        <3>10. retained' + Len(events') = Len(recorded')
            BY <3>1, <3>3, <3>6
        <3> QED BY <3>1, <3>3, <3>6, <3>8, <3>9, <3>10
    <2>2. CASE status' # "ok"
        <3>1. UNCHANGED timelineVars
            BY <1>4, <2>2 DEF RecordTimeline, timelineVars
        <3> QED BY <1>3, <3>1
    <2> QED BY <2>1, <2>2
<1>5. ASSUME NEW begin \in Stamps, NEW end \in Stamps, WindowTimeline(begin, end)
      PROVE  TimelineInv'
    <2>1. begin \in Nat /\ end \in Nat
        BY TimelineConstants
    <2>2. CASE begin > end
        <3>1. UNCHANGED timelineVars
            BY <1>5, <2>2 DEF WindowTimeline, timelineVars
        <3> QED BY <1>3, <3>1
    <2>3. CASE ~(begin > end)
        <3>1. /\ window' = InSpan(events, begin, end)
              /\ span' = <<begin, end>>
              /\ events' = events /\ retained' = retained /\ recorded' = recorded
            BY <1>0, <1>5, <2>3 DEF WindowTimeline
        <3>2. window' \in Seq(Event) /\ InTime(window')
            BY <2>1, <3>1, SpanIs
        <3>3. window' = Within(span[1], span[2])'
            BY <1>1, <3>1
        <3>4. Fewer(window', window')
            <4>1. \A e : Copies(window', e) \in Nat
                BY <3>2, CopiesCount
            <4>2. \A e : Copies(window', e) <= Copies(window', e)
                BY <4>1
            <4> QED BY <4>2 DEF Fewer
        <3>5. WindowFits'
            BY <3>3, <3>4 DEF WindowFits, Fewer, Copies
        <3>6. InTime(window)' /\ InTime(events)' /\ Fewer(events, recorded)'
            BY <3>1, <3>2 DEF InTime, Fewer, Copies
        <3> QED BY <2>1, <3>1, <3>2, <3>5, <3>6
    <2> QED BY <2>2, <2>3
<1>6. ASSUME NEW count \in 0..Len(events), RetainTimeline(count)
      PROVE  TimelineInv'
    <2>1. CASE status' = "ok" /\ Len(events) > count
        <3>1. /\ events' = LatestOf(events, count)
              /\ retained' = retained + (Len(events) - count)
              /\ "dropped" \in changed' /\ changed' # {}
              /\ window' = window /\ recorded' = recorded /\ span' = span
            BY <1>6, <2>1 DEF RetainTimeline, Latest, Dropped, LatestOf
        <3>2. /\ events' \in Seq(Event) /\ Len(events') = count
              /\ InTime(events') /\ Fewer(events', events)
            <4>1. events \in Seq(Event) /\ InTime(events) /\ count \in 0..Len(events)
                OBVIOUS
            <4> HIDE DEF TimelineInv, TimelineTypeOK
            <4> QED BY <3>1, <4>1, LatestAre
        <3>3. Fewer(events', recorded')
            BY <3>1, <3>2, FewerGoesOn
        <3>4. WindowFits'
            BY <3>1 DEF WindowFits
        <3>5. InTime(window)' /\ InTime(events)' /\ Fewer(events, recorded)'
            BY <3>1, <3>2, <3>3 DEF InTime, Fewer, Copies
        <3>6. retained' \in Nat /\ retained' + Len(events') = Len(recorded')
            <4>1. /\ Len(events) \in Nat /\ retained \in Nat /\ count \in 0..Len(events)
                  /\ retained + Len(events) = Len(recorded)
                OBVIOUS
            <4>2. \A r, n \in Nat : \A c \in 0..n :
                      r + (n - c) \in Nat /\ (r + (n - c)) + c = r + n
                OBVIOUS
            <4>3. retained' = retained + (Len(events) - count) /\ recorded' = recorded
                BY <3>1
            <4> HIDE DEF TimelineInv, TimelineTypeOK
            <4> QED BY <3>2, <4>1, <4>2, <4>3
        <3> QED BY <3>1, <3>2, <3>4, <3>5, <3>6
    <2>2. CASE ~(status' = "ok" /\ Len(events) > count)
        <3>1. UNCHANGED timelineVars
            BY <1>6, <2>2 DEF RetainTimeline, timelineVars
        <3> QED BY <1>3, <3>1
    <2> QED BY <2>1, <2>2
<1> QED BY <1>3, <1>4, <1>5, <1>6 DEF TimelineNext

\* What the invariant says of neighbours, and of the events that are there.
LEMMA TimelineTells == TimelineInv => EventsKept /\ WindowTells
<1> SUFFICES ASSUME TimelineInv PROVE EventsKept /\ WindowTells
    OBVIOUS
<1> USE DEF TimelineInv, TimelineTypeOK
<1>1. ASSUME NEW list \in Seq(Event), InTime(list), NEW i \in 1..(Len(list) - 1)
      PROVE  ~Before(list[i + 1], list[i])
    <2>1. i \in DOMAIN list /\ i + 1 \in DOMAIN list /\ i < i + 1
        OBVIOUS
    <2> QED BY <1>1, <2>1 DEF InTime
<1>2. \A list \in {events, window} : \A i \in 1..(Len(list) - 1) :
          ~Before(list[i + 1], list[i])
    BY <1>1
<1>3. \A e \in Range(events) : e \in Event
    BY DEF Range
<1>4. EventsKept
    BY <1>2, <1>3 DEF EventsKept, Fewer
<1>5. \A e \in Range(window) : e \in Event
    BY DEF Range
<1>6. WindowTells
    BY <1>5 DEF WindowTells, WindowFits, Fewer
<1> QED BY <1>4, <1>6

-----------------------------------------------------------------------------
(* The invariants of the families, and what a command may report.          *)
Inv ==
    /\ TicketInv /\ TimelineInv /\ SignatureInv /\ AclInv
    /\ status \in Outcomes

\* The invariant holds when the journal starts.
LEMMA InitInv == Init => Inv
<1> SUFFICES ASSUME Init PROVE Inv
    OBVIOUS
<1> USE DEF Init
<1>1. TicketInv
    BY DEF TicketInit, TicketInv, TicketTypeOK, GrantsDistinct, ReportedAreRevoked,
           RevokedAfterExpiry
<1>2. SignatureInv
    <2>1. slots = <<>> /\ requested = 0 /\ finalized = FALSE
        BY DEF SignatureInit
    <2>2. {i \in DOMAIN slots : slots[i] = "signed"} = {} /\ Len(slots) = 0
        BY <2>1
    <2>3. SignatureTypeOK
        <3>1. finalized \in BOOLEAN
            BY <2>1, Zenon
        <3>2. slots \in Seq({"blank", "signed"}) /\ requested \in Nat
            BY <2>1
        <3> QED BY <3>1, <3>2 DEF SignatureTypeOK
    <2>4. SignedAsPlanned
        BY <2>1, <2>2 DEF SignedAsPlanned
    <2> QED BY <2>3, <2>4 DEF SignatureInv
<1>3. AclInv
    BY AclConstants DEF AclInit, AclInv, AclTypeOK, AllowsHold
<1>4. TimelineInv
    <2>1. /\ events = <<>> /\ window = <<>> /\ recorded = <<>>
          /\ retained = 0 /\ span = <<0, 0>>
        BY DEF TimelineInit
    <2>2. TimelineTypeOK
        BY <2>1 DEF TimelineTypeOK
    <2>3. InTime(events) /\ InTime(window)
        BY <2>1 DEF InTime
    <2>4. Fewer(events, recorded)
        <3>1. <<>> \in Seq(Event)
            OBVIOUS
        <3>2. \A e : Copies(<<>>, e) \in Nat
            BY <3>1, CopiesCount
        <3> QED BY <2>1, <3>2 DEF Fewer
    <2> QED BY <2>1, <2>2, <2>3, <2>4 DEF TimelineInv, WindowFits
<1> QED BY <1>1, <1>2, <1>3, <1>4 DEF Inv, Outcomes

\* Whatever command runs, the result of the last is one of the outcomes.
LEMMA NextOutcome == Next => status' \in Outcomes
<1> SUFFICES ASSUME Next PROVE status' \in Outcomes
    OBVIOUS
<1>1. TicketNext => status' \in Outcomes
    BY DEF TicketNext, IssueTicket, IssueCheck, RenewTicket, RenewCheck,
           CheckTicket, TicketCheck, Outcomes
<1>2. TimelineNext => status' \in Outcomes
    BY DEF TimelineNext, RecordTimeline, RecordCheck, WindowTimeline,
           RetainTimeline, Outcomes
<1>3. AclNext => status' \in Outcomes
    BY DEF AclNext, DefineRole, DefineCheck, GrantRole, GrantCheck,
           CheckPermission, Outcomes
<1>4. SignatureNext => status' \in Outcomes
    BY DEF SignatureNext, ConfigureSignatures, PlanCheck, FinalizeSession,
           WriteSignatures, Outcomes
<1> QED BY <1>1, <1>2, <1>3, <1>4 DEF Next

\* Every command keeps the invariant: its own family's by the lemma above,
\* the others' because it leaves their state alone.
LEMMA NextInv == Inv /\ [Next]_vars => Inv'
<1> SUFFICES ASSUME Inv, [Next]_vars PROVE Inv'
    OBVIOUS
<1>1. CASE Next
    <2>1. TicketNext \/ UNCHANGED ticketVars
        BY <1>1 DEF Next
    <2>2. SignatureNext \/ UNCHANGED signatureVars
        BY <1>1 DEF Next
    <2>3. AclNext \/ UNCHANGED aclVars
        BY <1>1 DEF Next
    <2>4. TimelineNext \/ UNCHANGED timelineVars
        BY <1>1 DEF Next
    <2> QED BY <1>1, <2>1, <2>2, <2>3, <2>4, TicketNextInv, SignatureNextInv,
               AclNextInv, TimelineNextInv, NextOutcome DEF Inv
<1>2. CASE UNCHANGED vars
    <2>1. /\ UNCHANGED ticketVars /\ UNCHANGED signatureVars
          /\ UNCHANGED aclVars /\ UNCHANGED timelineVars /\ status' = status
        BY <1>2 DEF vars
    <2> QED BY <2>1, TicketNextInv, SignatureNextInv, AclNextInv, TimelineNextInv
            DEF Inv
<1> QED BY <1>1, <1>2

(* The invariant holds throughout every journal. *)
THEOREM Safety == Spec => []Inv
BY InitInv, NextInv, PTL DEF Spec

(* Every grant, an issue or a renewal, has an epoch of its own. *)
THEOREM GrantsAreDistinct == Spec => []GrantsDistinct
<1>1. Inv => GrantsDistinct BY DEF Inv, TicketInv
<1> QED BY Safety, <1>1, PTL

(* The tickets reported expired are the revoked ones. *)
THEOREM ReportedRevoked == Spec => []ReportedAreRevoked
<1>1. Inv => ReportedAreRevoked BY DEF Inv, TicketInv
<1> QED BY Safety, <1>1, PTL

(* No ticket is revoked before its time is over. *)
THEOREM NoEarlyRevocation == Spec => []RevokedAfterExpiry
<1>1. Inv => RevokedAfterExpiry BY DEF Inv, TicketInv
<1> QED BY Safety, <1>1, PTL

(* A revoked ticket stays as it is, by renewals and checks refusing it. *)
THEOREM RevokedStays == Spec => RevokedForGood
<1>1. ASSUME Inv, [Next]_vars
      PROVE  [/\ Len(tickets') >= Len(tickets)
              /\ \A i \in 1..Len(tickets) :
                    tickets[i].revoked => tickets'[i] = tickets[i]]_ticketVars
    <2> SUFFICES ASSUME TicketNext
                 PROVE  /\ Len(tickets') >= Len(tickets)
                        /\ \A i \in 1..Len(tickets) :
                              tickets[i].revoked => tickets'[i] = tickets[i]
        BY <1>1 DEF Next, vars
    <2>1. tickets \in Seq(Ticket)
        BY <1>1 DEF Inv, TicketInv, TicketTypeOK
    <2>2. ASSUME NEW subjectValid \in BOOLEAN, NEW ttl \in 0..(TtlLimit + 1),
                 IssueTicket(subjectValid, ttl)
          PROVE  /\ Len(tickets') >= Len(tickets)
                 /\ \A i \in 1..Len(tickets) : tickets'[i] = tickets[i]
        BY <2>1, <2>2 DEF IssueTicket
    <2>3. ASSUME NEW index \in 1..(Len(tickets) + 1), NEW ttl \in 0..(TtlLimit + 1),
                 RenewTicket(index, ttl)
          PROVE  /\ Len(tickets') >= Len(tickets)
                 /\ \A i \in 1..Len(tickets) :
                       tickets[i].revoked => tickets'[i] = tickets[i]
        BY <2>1, <2>3 DEF RenewTicket, RenewCheck
    <2>4. ASSUME NEW index \in 1..(Len(tickets) + 1), CheckTicket(index)
          PROVE  /\ Len(tickets') >= Len(tickets)
                 /\ \A i \in 1..Len(tickets) :
                       tickets[i].revoked => tickets'[i] = tickets[i]
        BY <2>1, <2>4 DEF CheckTicket, TicketCheck, Revoke
    <2> QED BY <2>2, <2>3, <2>4 DEF TicketNext
<1> QED BY Safety, <1>1, PTL DEF Spec, RevokedForGood

(* The events are those recorded, but for as many as were dropped, and they *)
(* are sorted whatever the order they came in.                              *)
THEOREM TimelineIsKept == Spec => []EventsKept
<1>1. Inv => EventsKept BY TimelineTells DEF Inv
<1> QED BY Safety, <1>1, PTL

(* A window tells the events of its span until events are recorded or       *)
(* dropped, and shows none that was not there until events are dropped.     *)
THEOREM WindowsTell == Spec => []WindowTells
<1>1. Inv => WindowTells BY TimelineTells DEF Inv
<1> QED BY Safety, <1>1, PTL

(* The signatures there are belong to the plan there is. *)
THEOREM SignaturesFitPlan == Spec => []SignedAsPlanned
<1>1. Inv => SignedAsPlanned BY DEF Inv, SignatureInv
<1> QED BY Safety, <1>1, PTL

(* A verdict of allow stays right, whatever is defined and granted later. *)
THEOREM AllowedStays == Spec => []AllowsHold
<1>1. Inv => AllowsHold BY DEF Inv, AclInv
<1> QED BY Safety, <1>1, PTL
=============================================================================
