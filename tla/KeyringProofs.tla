--------------------------- MODULE KeyringProofs ---------------------------
(* Proofs about Keyring, for any identifiers and any bounds.  The inductive *)
(* invariant is Inv: next to the types it needs that leases have unique     *)
(* identifiers (so that find_lease finds the lease it is asked for) and     *)
(* that whoever holds a lease has seen an event (so that a release comes    *)
(* after its issue).                                                        *)
EXTENDS Keyring, SequenceTheorems, FiniteSetTheorems, WellFoundedInduction, TLAPS

EventBeforeLease == Len(leases) > 0 => events > 0

Inv == TypeOK /\ LeasesFindable /\ ReleaseAfterIssue /\ EventBeforeLease

-----------------------------------------------------------------------------
(* Extending a sequence by one element.                                     *)
LEMMA AppendFacts ==
    ASSUME NEW S, NEW s \in Seq(S), NEW e \in S
    PROVE  /\ Append(s, e) \in Seq(S)
           /\ Len(Append(s, e)) = Len(s) + 1
           /\ Append(s, e)[Len(s) + 1] = e
           /\ \A i \in 1..Len(s) : Append(s, e)[i] = s[i]
OBVIOUS

(* A sequence over a set is one over any larger set.                        *)
LEMMA SeqMonotone ==
    ASSUME NEW S, NEW T, S \subseteq T, NEW s \in Seq(S)
    PROVE  s \in Seq(T)
OBVIOUS

(* A nonempty set of numbers has a least one.                               *)
LEMMA LeastNumber ==
    ASSUME NEW T, T \subseteq Nat, T # {}
    PROVE  \E x \in T : \A y \in T : x <= y
<1>1. PICK x \in T : \A y \in T : <<y, x>> \notin OpToRel(<, Nat)
  BY NatLessThanWellFounded, WFMin
<1>2. ASSUME NEW y \in T PROVE x <= y
  <2>1. x \in Nat /\ y \in Nat
    OBVIOUS
  <2>2. ~(y < x)
    BY <1>1, <2>1 DEF OpToRel
  <2> QED
    BY <2>1, <2>2
<1> QED
  BY <1>2

(* find_if on the active keys returns a key of the id it is asked for, and   *)
(* the first one.                                                           *)
LEMMA FindKeyOf ==
    ASSUME active \in Seq(KeyIds), NEW id \in KeyIdsIn(active)
    PROVE  /\ FindKey(id) \in 1..Len(active) /\ active[FindKey(id)] = id
           /\ ~Shadowed(FindKey(id))
<1> DEFINE P(i) == active[i] = id /\ \A j \in 1..(i - 1) : active[j] # id
           T == {i \in 1..Len(active) : active[i] = id}
<1>1. T \subseteq Nat /\ T # {} /\ DOMAIN active = 1..Len(active)
  BY DEF KeyIdsIn
<1>2. PICK x \in T : \A y \in T : x <= y
  BY <1>1, LeastNumber
<1>3. x \in DOMAIN active /\ P(x)
  BY <1>1, <1>2
<1> HIDE DEF P
<1>4. (CHOOSE i \in DOMAIN active : P(i)) \in DOMAIN active
      /\ P(CHOOSE i \in DOMAIN active : P(i))
  BY <1>3
<1>5. FindKey(id) = (CHOOSE i \in DOMAIN active : P(i))
  BY DEF FindKey, P
<1>6. FindKey(id) \in 1..Len(active) /\ P(FindKey(id))
  BY <1>1, <1>4, <1>5
<1> QED
  BY <1>6 DEF P, Shadowed

(* find_lease returns the lease it is asked for.                            *)
LEMMA FindLeaseOf ==
    ASSUME leases \in Seq(Lease), LeasesFindable,
           NEW id \in LeaseIdsIn(leases)
    PROVE  FindLease(id) \in 1..Len(leases) /\ leases[FindLease(id)].lease_id = id
<1> DEFINE P(i) == /\ leases[i].lease_id = id
                   /\ \A j \in 1..(i - 1) : leases[j].lease_id # id
<1>1. DOMAIN leases = 1..Len(leases)
  OBVIOUS
<1>2. PICK x \in 1..Len(leases) : leases[x].lease_id = id
  BY <1>1 DEF LeaseIdsIn
<1>3. P(x)
  BY <1>2 DEF LeasesFindable
<1> HIDE DEF P
<1>4. (CHOOSE i \in DOMAIN leases : P(i)) \in DOMAIN leases
      /\ P(CHOOSE i \in DOMAIN leases : P(i))
  BY <1>1, <1>3
<1>5. FindLease(id) = (CHOOSE i \in DOMAIN leases : P(i))
  BY DEF FindLease, P
<1> QED
  BY <1>1, <1>4, <1>5 DEF P

-----------------------------------------------------------------------------
LEMMA InitInv == Init => Inv
<1> SUFFICES ASSUME Init PROVE Inv
  OBVIOUS
<1>1. /\ <<>> \in Seq(KeyIds) /\ <<>> \in Seq(1..Len(active))
      /\ <<>> \in Seq(Lease) /\ <<>> \in Seq(Record)
  OBVIOUS
<1>2. TypeOK
  BY <1>1 DEF Init, TypeOK, Outcomes
<1> QED
  BY <1>2 DEF Init, Inv, LeasesFindable, ReleaseAfterIssue, EventBeforeLease

(* What every command does to the event count.                              *)
LEMMA EventsGrow ==
    ASSUME events \in Nat, RecordEvent
    PROVE  events' \in Nat /\ events' >= events /\ (status' = "ok" => events' > 0)
BY DEF RecordEvent

(* Commands that leave the leases alone and only add keys.                  *)
LEMMA KeysGrowInv ==
    ASSUME Inv, UNCHANGED leases, events' \in Nat, events' >= events,
           epoch' \in Nat, epoch' >= epoch,
           active' \in Seq(KeyIds), Len(active') >= Len(active),
           \A i \in 1..Len(active) : active'[i] = active[i]
    PROVE  LeasesFindable' /\ ReleaseAfterIssue' /\ EventBeforeLease'
<1>1. leases \in Seq(Lease) /\ epoch \in Nat /\ events \in Nat
      /\ active \in Seq(KeyIds)
  BY DEF Inv, TypeOK
<1>2. LeasesFindable'
  <2>1. ASSUME NEW i \in 1..Len(leases)
        PROVE  \E k \in 1..Len(active') : active'[k] = leases[i].key_id
    <3>1. PICK k \in 1..Len(active) : active[k] = leases[i].key_id
      BY DEF Inv, LeasesFindable
    <3> QED
      BY <1>1, <3>1
  <2> QED
    BY <2>1 DEF Inv, LeasesFindable
<1>3. ReleaseAfterIssue'
  <2> SUFFICES ASSUME NEW i \in 1..Len(leases)
               PROVE  /\ leases[i].issued_epoch <= epoch'
                      /\ ~leases[i].active =>
                            leases[i].issued_epoch < leases[i].released_epoch
    BY DEF ReleaseAfterIssue
  <2>1. leases[i] \in Lease
    BY <1>1
  <2>2. /\ leases[i].issued_epoch <= epoch
        /\ ~leases[i].active =>
              leases[i].issued_epoch < leases[i].released_epoch
    BY DEF Inv, ReleaseAfterIssue
  <2>3. leases[i].issued_epoch \in Nat
    BY <2>1 DEF Lease
  <2>4. leases[i].issued_epoch <= epoch'
    BY <1>1, <2>2, <2>3
  <2> QED
    BY <2>2, <2>4
<1>4. EventBeforeLease'
  BY <1>1 DEF Inv, EventBeforeLease
<1> QED
  BY <1>2, <1>3, <1>4

LEMMA AddKeyInv ==
    ASSUME Inv, NEW id \in KeyIds, NEW sizeValid \in BOOLEAN,
           AddKey(id, sizeValid)
    PROVE  Inv'
<1>1. /\ active \in Seq(KeyIds) /\ retired \in Seq(1..Len(active))
      /\ events \in Nat /\ epoch \in Nat
  BY DEF Inv, TypeOK
<1>2. status' \in Outcomes /\ UNCHANGED <<leases, history, selected, epoch, retired>>
  BY DEF AddKey, AddKeyCheck, Outcomes
<1>3. events' \in Nat /\ events' >= events
  BY <1>1, EventsGrow DEF AddKey
<1>4. /\ active' \in Seq(KeyIds) /\ Len(active') >= Len(active)
      /\ \A i \in 1..Len(active) : active'[i] = active[i]
  <2>1. active' = Append(active, id) \/ active' = active
    BY DEF AddKey
  <2>2. CASE active' = Append(active, id)
    BY <1>1, <2>2, AppendFacts
  <2>3. CASE active' = active
    BY <1>1, <2>3
  <2> QED
    BY <2>1, <2>2, <2>3
<1>5. retired' \in Seq(1..Len(active'))
  <2>1. 1..Len(active) \subseteq 1..Len(active')
    BY <1>1, <1>4
  <2> QED
    BY <1>1, <1>2, <2>1, SeqMonotone
<1>6. TypeOK'
  BY <1>2, <1>3, <1>4, <1>5 DEF Inv, TypeOK
<1>7. LeasesFindable' /\ ReleaseAfterIssue' /\ EventBeforeLease'
  BY <1>1, <1>2, <1>3, <1>4, KeysGrowInv
<1> QED
  BY <1>6, <1>7 DEF Inv

LEMMA RotateKeyInv ==
    ASSUME Inv, NEW old \in KeyIds, NEW new \in KeyIds,
           NEW sizeValid \in BOOLEAN, RotateKey(old, new, sizeValid)
    PROVE  Inv'
<1>1. /\ active \in Seq(KeyIds) /\ retired \in Seq(1..Len(active))
      /\ events \in Nat /\ epoch \in Nat
  BY DEF Inv, TypeOK
<1>2. status' \in Outcomes /\ UNCHANGED <<leases, history, selected, epoch>>
  BY DEF RotateKey, RotateCheck, Outcomes
<1>3. events' \in Nat /\ events' >= events
  BY <1>1, EventsGrow DEF RotateKey
<1>4. CASE status' = "ok"
  <2>1. old \in KeyIdsIn(active)
    BY <1>4 DEF RotateKey, RotateCheck
  <2>2. active' = Append(active, new) /\ retired' = Append(retired, FindKey(old))
    BY <1>4 DEF RotateKey
  <2>3. /\ active' \in Seq(KeyIds) /\ Len(active') = Len(active) + 1
        /\ \A i \in 1..Len(active) : active'[i] = active[i]
    BY <1>1, <2>2, AppendFacts
  <2>4. retired' \in Seq(1..Len(active'))
    <3>1. FindKey(old) \in 1..Len(active)
      BY <1>1, <2>1, FindKeyOf
    <3>2. 1..Len(active) \subseteq 1..Len(active')
      BY <1>1, <2>3
    <3>3. retired' \in Seq(1..Len(active))
      BY <1>1, <2>2, <3>1, AppendFacts
    <3> QED
      BY <3>2, <3>3, SeqMonotone
  <2>5. TypeOK'
    BY <1>2, <1>3, <2>3, <2>4 DEF Inv, TypeOK
  <2>6. LeasesFindable' /\ ReleaseAfterIssue' /\ EventBeforeLease'
    BY <1>1, <1>2, <1>3, <2>3, KeysGrowInv
  <2> QED
    BY <2>5, <2>6 DEF Inv
<1>5. CASE status' # "ok"
  <2>1. UNCHANGED <<active, retired>>
    BY <1>5 DEF RotateKey
  <2>2. TypeOK'
    BY <1>2, <1>3, <2>1 DEF Inv, TypeOK
  <2>3. LeasesFindable' /\ ReleaseAfterIssue' /\ EventBeforeLease'
    BY <1>1, <1>2, <1>3, <2>1, KeysGrowInv
  <2> QED
    BY <2>2, <2>3 DEF Inv
<1> QED
  BY <1>4, <1>5

LEMMA LeaseKeyInv ==
    ASSUME Inv, NEW lease \in LeaseIds \cup {NoLease}, NEW key \in KeyIds,
           NEW scopeValid \in BOOLEAN, LeaseKey(lease, key, scopeValid)
    PROVE  Inv'
<1>1. /\ leases \in Seq(Lease) /\ history \in Seq(Record)
      /\ active \in Seq(KeyIds) /\ events \in Nat /\ epoch \in Nat
  BY DEF Inv, TypeOK
<1>2. status' \in Outcomes /\ UNCHANGED <<active, retired, epoch>>
  BY DEF LeaseKey, LeaseCheck, Outcomes
<1>3. events' \in Nat /\ events' >= events /\ (status' = "ok" => events' > 0)
  BY <1>1, EventsGrow DEF LeaseKey
<1>4. CASE status' = "ok"
  <2> DEFINE granted == [lease_id |-> lease, key_id |-> key,
                         issued_epoch |-> epoch, released_epoch |-> 0,
                         active |-> TRUE]
             record == [what |-> "lease", lease_id |-> lease]
  <2>1. lease \in LeaseIds /\ lease \notin LeaseIdsIn(leases)
        /\ key \in KeyIdsIn(active)
    BY <1>4 DEF LeaseKey, LeaseCheck
  <2>2. /\ leases' = Append(leases, granted)
        /\ selected' = lease
        /\ history' = Append(history, record)
    BY <1>4 DEF LeaseKey, GrantLease
  <2>3. granted \in Lease /\ record \in Record
    BY <1>1, <2>1 DEF Lease, Record
  <2>4. granted.lease_id = lease /\ granted.key_id = key /\ granted.active
        /\ granted.issued_epoch = epoch
    OBVIOUS
  <2> HIDE DEF granted, record
  <2>5. /\ leases' \in Seq(Lease) /\ Len(leases') = Len(leases) + 1
        /\ leases'[Len(leases) + 1] = granted
        /\ \A i \in 1..Len(leases) : leases'[i] = leases[i]
        /\ history' \in Seq(Record)
    BY <1>1, <2>2, <2>3, AppendFacts
  <2>6. TypeOK'
    BY <1>2, <1>3, <2>1, <2>2, <2>5 DEF Inv, TypeOK
  <2>7. LeasesFindable'
    <3>0. \A i \in 1..Len(leases') : i \in 1..Len(leases) \/ i = Len(leases) + 1
      <4>1. Len(leases) \in Nat /\ Len(leases') = Len(leases) + 1
        BY <1>1, <2>5
      <4> QED
        BY <4>1
    <3>1. \A i \in 1..Len(leases) : leases[i].lease_id # lease
      BY <1>1, <2>1 DEF LeaseIdsIn
    <3>2. \E k \in 1..Len(active) : active[k] = key
      BY <1>1, <2>1 DEF KeyIdsIn
    <3>3. ASSUME NEW i \in 1..Len(leases'), NEW j \in 1..Len(leases'),
                 leases'[i].lease_id = leases'[j].lease_id
          PROVE  i = j
      <4>1. CASE i \in 1..Len(leases) /\ j \in 1..Len(leases)
        BY <2>5, <3>3, <4>1 DEF Inv, LeasesFindable
      <4>2. CASE i = Len(leases) + 1 /\ j \in 1..Len(leases)
        BY <2>4, <2>5, <3>1, <3>3, <4>2
      <4>3. CASE i \in 1..Len(leases) /\ j = Len(leases) + 1
        BY <2>4, <2>5, <3>1, <3>3, <4>3
      <4> QED
        BY <3>0, <4>1, <4>2, <4>3
    <3>4. ASSUME NEW i \in 1..Len(leases')
          PROVE  \E k \in 1..Len(active') : active'[k] = leases'[i].key_id
      <4>1. CASE i \in 1..Len(leases)
        BY <1>2, <2>5, <4>1 DEF Inv, LeasesFindable
      <4>2. CASE i = Len(leases) + 1
        BY <1>2, <2>4, <2>5, <3>2, <4>2
      <4> QED
        BY <3>0, <4>1, <4>2
    <3> QED
      BY <3>3, <3>4 DEF LeasesFindable
  <2>8. ReleaseAfterIssue'
    <3> SUFFICES ASSUME NEW i \in 1..Len(leases')
                 PROVE  /\ leases'[i].issued_epoch <= epoch'
                        /\ ~leases'[i].active =>
                              leases'[i].issued_epoch < leases'[i].released_epoch
      BY DEF ReleaseAfterIssue
    <3>1. CASE i = Len(leases) + 1
      BY <1>1, <1>2, <2>4, <2>5, <3>1
    <3>2. CASE i \in 1..Len(leases)
      BY <1>2, <2>5, <3>2 DEF Inv, ReleaseAfterIssue
    <3> QED
      BY <1>1, <2>5, <3>1, <3>2
  <2>9. EventBeforeLease'
    BY <1>3, <1>4 DEF EventBeforeLease
  <2> QED
    BY <2>6, <2>7, <2>8, <2>9 DEF Inv
<1>5. CASE status' # "ok"
  <2>1. UNCHANGED <<leases, selected, history>>
    BY <1>5 DEF LeaseKey
  <2>2. TypeOK'
    BY <1>2, <1>3, <2>1 DEF Inv, TypeOK
  <2>3. LeasesFindable' /\ ReleaseAfterIssue' /\ EventBeforeLease'
    BY <1>1, <1>2, <1>3, <2>1, KeysGrowInv
  <2> QED
    BY <2>2, <2>3 DEF Inv
<1> QED
  BY <1>4, <1>5

(* What KEYRELEASE does to the leases: one of them, active, is closed with  *)
(* the sum of epoch and event count, the others stay as they are.           *)
LEMMA EndLeaseEffect ==
    ASSUME Inv, NEW lease \in LeaseIdsIn(leases), EndLease(lease)
    PROVE  LET i == FindLease(lease)
           IN  /\ i \in 1..Len(leases)
               /\ leases' \in Seq(Lease)
               /\ Len(leases') = Len(leases)
               /\ leases'[i].lease_id = leases[i].lease_id
               /\ leases'[i].key_id = leases[i].key_id
               /\ leases'[i].issued_epoch = leases[i].issued_epoch
               /\ leases'[i].released_epoch = epoch + events
               /\ \A j \in 1..Len(leases) : j # i => leases'[j] = leases[j]
<1> DEFINE i == FindLease(lease)
           closed == [leases[i] EXCEPT !.active = FALSE,
                                       !.released_epoch = epoch + events]
<1>1. leases \in Seq(Lease) /\ epoch \in Nat /\ events \in Nat
  BY DEF Inv, TypeOK
<1>2. i \in 1..Len(leases)
  BY <1>1, FindLeaseOf DEF Inv
<1>3. leases[i] \in Lease
  BY <1>1, <1>2
<1>4. /\ closed \in Lease
      /\ closed.lease_id = leases[i].lease_id
      /\ closed.key_id = leases[i].key_id
      /\ closed.issued_epoch = leases[i].issued_epoch
      /\ closed.released_epoch = epoch + events
  <2>1. epoch + events \in Nat
    BY <1>1
  <2> DEFINE old == leases[i]
             sum == epoch + events
  <2>2. old \in Lease /\ sum \in Nat
    BY <1>3, <2>1
  <2> HIDE DEF old, sum
  <2>3. /\ [old EXCEPT !.active = FALSE, !.released_epoch = sum] \in Lease
        /\ [old EXCEPT !.active = FALSE, !.released_epoch = sum].lease_id
               = old.lease_id
        /\ [old EXCEPT !.active = FALSE, !.released_epoch = sum].key_id
               = old.key_id
        /\ [old EXCEPT !.active = FALSE, !.released_epoch = sum].issued_epoch
               = old.issued_epoch
        /\ [old EXCEPT !.active = FALSE, !.released_epoch = sum].released_epoch
               = sum
    BY <2>2 DEF Lease
  <2> QED
    BY <2>3 DEF old, sum
<1>5. leases' = [leases EXCEPT ![i] = closed]
  BY DEF EndLease
<1> HIDE DEF i, closed
<1>6. /\ leases' \in Seq(Lease)
      /\ Len(leases') = Len(leases)
      /\ leases'[i] = closed
      /\ \A j \in 1..Len(leases) : j # i => leases'[j] = leases[j]
  BY <1>1, <1>2, <1>4, <1>5
<1> QED
  BY <1>2, <1>4, <1>6 DEF i

LEMMA ReleaseKeyInv ==
    ASSUME Inv, NEW lease \in LeaseIds \cup {NoLease}, ReleaseKey(lease)
    PROVE  Inv'
<1>1. /\ leases \in Seq(Lease) /\ history \in Seq(Record)
      /\ active \in Seq(KeyIds) /\ events \in Nat /\ epoch \in Nat
  BY DEF Inv, TypeOK
<1>2. status' \in Outcomes /\ UNCHANGED <<active, retired, epoch>>
  BY DEF ReleaseKey, ReleaseCheck, Outcomes
<1>3. events' \in Nat /\ events' >= events
  BY <1>1, EventsGrow DEF ReleaseKey
<1>4. CASE status' = "ok"
  <2> DEFINE k == FindLease(lease)
             record == [what |-> "release", lease_id |-> lease]
  <2>1. lease \in LeaseIdsIn(leases) /\ EndLease(lease)
    BY <1>4 DEF ReleaseKey, ReleaseCheck
  <2>2. /\ k \in 1..Len(leases)
        /\ leases' \in Seq(Lease)
        /\ Len(leases') = Len(leases)
        /\ leases'[k].lease_id = leases[k].lease_id
        /\ leases'[k].key_id = leases[k].key_id
        /\ leases'[k].issued_epoch = leases[k].issued_epoch
        /\ leases'[k].released_epoch = epoch + events
        /\ \A j \in 1..Len(leases) : j # k => leases'[j] = leases[j]
    BY <2>1, EndLeaseEffect
  <2>3. selected' = lease /\ history' = Append(history, record)
    BY <2>1 DEF EndLease
  <2>4. lease \in LeaseIds
    <3>1. leases[k].lease_id = lease
      BY <1>1, <2>1, FindLeaseOf DEF Inv
    <3>2. leases[k] \in Lease
      BY <1>1, <2>2
    <3> QED
      BY <3>1, <3>2 DEF Lease
  <2> HIDE DEF k
  <2>5. TypeOK'
    <3>1. record \in Record
      BY <2>4 DEF Record
    <3>2. history' \in Seq(Record)
      BY <1>1, <2>3, <3>1, AppendFacts
    <3> QED
      BY <1>2, <1>3, <2>2, <2>3, <2>4, <3>2 DEF Inv, TypeOK
  <2>6. /\ \A i \in 1..Len(leases) : leases'[i].lease_id = leases[i].lease_id
        /\ \A i \in 1..Len(leases) : leases'[i].key_id = leases[i].key_id
    BY <2>2
  <2>7. LeasesFindable'
    <3>1. ASSUME NEW i \in 1..Len(leases), NEW j \in 1..Len(leases),
                 leases'[i].lease_id = leases'[j].lease_id
          PROVE  i = j
      BY <2>6, <3>1 DEF Inv, LeasesFindable
    <3>2. ASSUME NEW i \in 1..Len(leases)
          PROVE  \E a \in 1..Len(active) : active[a] = leases'[i].key_id
      BY <2>6 DEF Inv, LeasesFindable
    <3> QED
      BY <1>2, <2>2, <3>1, <3>2 DEF LeasesFindable
  <2>8. ReleaseAfterIssue'
    <3> SUFFICES ASSUME NEW i \in 1..Len(leases)
                 PROVE  /\ leases'[i].issued_epoch <= epoch'
                        /\ ~leases'[i].active =>
                              leases'[i].issued_epoch < leases'[i].released_epoch
      BY <2>2 DEF ReleaseAfterIssue
    <3>1. CASE i # k
      BY <1>2, <2>2, <3>1 DEF Inv, ReleaseAfterIssue
    <3>2. CASE i = k
      <4>1. leases[k].issued_epoch <= epoch
        BY <2>2 DEF Inv, ReleaseAfterIssue
      <4>2. leases[k].issued_epoch \in Nat
        <5>1. leases[k] \in Lease
          BY <1>1, <2>2
        <5> QED
          BY <5>1 DEF Lease
      <4>3. events > 0
        BY <1>1, <2>2 DEF Inv, EventBeforeLease
      <4> QED
        BY <1>1, <1>2, <2>2, <3>2, <4>1, <4>2, <4>3
    <3> QED
      BY <3>1, <3>2
  <2>9. EventBeforeLease'
    BY <1>1, <1>3, <2>2 DEF Inv, EventBeforeLease
  <2> QED
    BY <2>5, <2>7, <2>8, <2>9 DEF Inv
<1>5. CASE status' # "ok"
  <2>1. UNCHANGED <<leases, selected, history>>
    BY <1>5 DEF ReleaseKey
  <2>2. TypeOK'
    BY <1>2, <1>3, <2>1 DEF Inv, TypeOK
  <2>3. LeasesFindable' /\ ReleaseAfterIssue' /\ EventBeforeLease'
    BY <1>1, <1>2, <1>3, <2>1, KeysGrowInv
  <2> QED
    BY <2>2, <2>3 DEF Inv
<1> QED
  BY <1>4, <1>5

(* Steps that touch neither keys nor leases.                                *)
LEMMA BystanderInv ==
    ASSUME Inv, UNCHANGED <<active, retired, leases, history, selected>>,
           epoch' \in Nat, epoch' >= epoch, events' \in Nat, events' >= events,
           status' \in Outcomes \cup {"ended", "crash"}
    PROVE  Inv'
<1>1. active \in Seq(KeyIds) /\ leases \in Seq(Lease)
  BY DEF Inv, TypeOK
<1>2. TypeOK'
  BY DEF Inv, TypeOK
<1>3. LeasesFindable' /\ ReleaseAfterIssue' /\ EventBeforeLease'
  BY <1>1, KeysGrowInv
<1> QED
  BY <1>2, <1>3 DEF Inv

LEMMA AuditInv ==
    ASSUME Inv, NEW view, AuditKeyring(view)
    PROVE  Inv'
<1>1. epoch \in Nat /\ events \in Nat
  BY DEF Inv, TypeOK
<1>2. events' \in Nat /\ events' >= events
  BY <1>1, EventsGrow DEF AuditKeyring
<1>3. status' \in Outcomes
  BY DEF AuditKeyring, Outcomes
<1>4. UNCHANGED <<active, retired, leases, history, selected, epoch>>
  BY Zenon DEF AuditKeyring
<1> QED
  BY <1>1, <1>2, <1>3, <1>4, BystanderInv

LEMMA OtherInv ==
    ASSUME Inv, NEW epochs \in {0, 1}, OtherCommand(epochs)
    PROVE  Inv'
<1>1. epoch \in Nat /\ events \in Nat
  BY DEF Inv, TypeOK
<1>2. events' \in Nat /\ events' >= events
  BY <1>1, EventsGrow DEF OtherCommand
<1>3. epoch' \in Nat /\ epoch' >= epoch
  BY <1>1 DEF OtherCommand
<1> QED
  BY <1>2, <1>3, BystanderInv DEF OtherCommand, Outcomes

LEMMA DestroyInv ==
    ASSUME Inv, DestroyStore
    PROVE  Inv'
<1>1. epoch \in Nat /\ events \in Nat
  BY DEF Inv, TypeOK
<1>2. epoch' = epoch /\ events' = events
  BY DEF DestroyStore
<1>3. status' \in {"ended", "crash"}
  BY DEF DestroyStore
<1> QED
  BY <1>1, <1>2, <1>3, BystanderInv DEF DestroyStore

LEMMA StepInv == Inv /\ [Next]_vars => Inv'
<1> SUFFICES ASSUME Inv, [Next]_vars PROVE Inv'
  OBVIOUS
<1>1. CASE UNCHANGED vars
  BY <1>1 DEF vars, Inv, TypeOK, LeasesFindable, ReleaseAfterIssue,
              EventBeforeLease
<1>2. CASE Command
  <2>1. ASSUME NEW id \in KeyIds, NEW sizeValid \in BOOLEAN,
               AddKey(id, sizeValid)
        PROVE  Inv'
    BY <2>1, AddKeyInv
  <2>2. ASSUME NEW old \in KeyIds, NEW new \in KeyIds,
               NEW sizeValid \in BOOLEAN, RotateKey(old, new, sizeValid)
        PROVE  Inv'
    BY <2>2, RotateKeyInv
  <2>3. ASSUME NEW lease \in LeaseIds \cup {NoLease}, NEW key \in KeyIds,
               NEW scopeValid \in BOOLEAN, LeaseKey(lease, key, scopeValid)
        PROVE  Inv'
    BY <2>3, LeaseKeyInv
  <2>4. ASSUME NEW lease \in LeaseIds \cup {NoLease}, ReleaseKey(lease)
        PROVE  Inv'
    BY <2>4, ReleaseKeyInv
  <2>5. ASSUME NEW view \in {"active", "leases", "history", "mystery", ""},
               AuditKeyring(view)
        PROVE  Inv'
    BY <2>5, AuditInv
  <2>6. ASSUME NEW epochs \in {0, 1}, OtherCommand(epochs)
        PROVE  Inv'
    BY <2>6, OtherInv
  <2> QED
    BY <1>2, <2>1, <2>2, <2>3, <2>4, <2>5, <2>6 DEF Command
<1>3. CASE DestroyStore
  BY <1>3, DestroyInv
<1> QED
  BY <1>1, <1>2, <1>3 DEF Next

(* The inductive invariant holds in every run.                              *)
THEOREM Safety == Spec => []Inv
<1>1. Init => Inv
  BY InitInv
<1>2. Inv /\ [Next]_vars => Inv'
  BY StepInv
<1> QED
  BY <1>1, <1>2, PTL DEF Spec

(* Every variable of the keyring keeps its type, and retired keys stay      *)
(* places of active ones, for any keys, leases and rotations.               *)
THEOREM TypeCorrect == Spec => []TypeOK
<1>1. Inv => TypeOK
  BY DEF Inv
<1> QED
  BY <1>1, Safety, PTL

(* Lease identifiers are never given twice, and the key of a lease can be   *)
(* found for as long as the store lives, whatever ROTATE did since.         *)
THEOREM LeasesStayFindable == Spec => []LeasesFindable
<1>1. Inv => LeasesFindable
  BY DEF Inv
<1> QED
  BY <1>1, Safety, PTL

(* A released lease records a release later than its issue.                 *)
THEOREM ReleasesComeLater == Spec => []ReleaseAfterIssue
<1>1. Inv => ReleaseAfterIssue
  BY DEF Inv
<1> QED
  BY <1>1, Safety, PTL

-----------------------------------------------------------------------------
LEMMA ReleasedStepLemma ==
    ASSUME Inv, [Next]_vars
    PROVE  /\ Len(leases') >= Len(leases)
           /\ \A i \in 1..Len(leases) :
                 ~leases[i].active => leases'[i] = leases[i]
<1>1. leases \in Seq(Lease) /\ Len(leases) \in Nat
  BY DEF Inv, TypeOK
<1>2. CASE UNCHANGED leases
  BY <1>1, <1>2
<1>3. ASSUME NEW lease, NEW key, NEW scopeValid, LeaseKey(lease, key, scopeValid),
             lease \in LeaseIds \cup {NoLease}, key \in KeyIds,
             leases' # leases
      PROVE  /\ Len(leases') = Len(leases) + 1
             /\ \A i \in 1..Len(leases) : leases'[i] = leases[i]
  <2> DEFINE granted == [lease_id |-> lease, key_id |-> key,
                         issued_epoch |-> epoch, released_epoch |-> 0,
                         active |-> TRUE]
  <2>1. lease \in LeaseIds /\ leases' = Append(leases, granted)
    BY <1>3 DEF LeaseKey, LeaseCheck, GrantLease
  <2>2. granted \in Lease
    BY <1>3, <2>1 DEF Lease, Inv, TypeOK
  <2> HIDE DEF granted
  <2> QED
    BY <1>1, <2>1, <2>2, AppendFacts
<1>4. ASSUME NEW lease, ReleaseKey(lease), leases' # leases
      PROVE  /\ Len(leases') = Len(leases)
             /\ \A i \in 1..Len(leases) :
                   ~leases[i].active => leases'[i] = leases[i]
  <2>1. /\ lease \in LeaseIdsIn(leases) /\ leases[FindLease(lease)].active
        /\ EndLease(lease)
    BY <1>4 DEF ReleaseKey, ReleaseCheck
  <2>2. /\ Len(leases') = Len(leases)
        /\ \A j \in 1..Len(leases) : j # FindLease(lease) => leases'[j] = leases[j]
    BY <2>1, EndLeaseEffect
  <2> QED
    BY <2>1, <2>2
<1>5. CASE leases' # leases
  <2>1. \/ \E lease \in LeaseIds \cup {NoLease}, key \in KeyIds,
              scopeValid \in BOOLEAN : LeaseKey(lease, key, scopeValid)
        \/ \E lease \in LeaseIds \cup {NoLease} : ReleaseKey(lease)
    BY <1>5 DEF Next, Command, vars, AddKey, RotateKey, AuditKeyring,
                OtherCommand, DestroyStore
  <2> QED
    BY <1>1, <1>3, <1>4, <1>5, <2>1
<1> QED
  BY <1>2, <1>5

(* A lease, once released, is never touched again, and no lease is ever     *)
(* dropped.                                                                 *)
THEOREM ReleasedIsForGood == Spec => ReleasedForGood
<1>1. Inv /\ [Next]_vars =>
         [/\ Len(leases') >= Len(leases)
          /\ \A i \in 1..Len(leases) :
                ~leases[i].active => leases'[i] = leases[i]]_vars
  BY ReleasedStepLemma
<1> QED
  BY <1>1, Safety, PTL DEF Spec, ReleasedForGood

-----------------------------------------------------------------------------
\* What the retired list is to the keys: it has first keys of an identifier
\* only, and each no more often than there are keys behind it.
ShadowedIn(keys, i) == \E j \in 1..(i - 1) : keys[j] = keys[i]

TimesIn(list, i) == {k \in 1..Len(list) : list[k] = i}

RetiredFit(keys, list) ==
    /\ \A k \in 1..Len(list) : ~ShadowedIn(keys, list[k])
    /\ \A i \in 1..Len(keys) :
          /\ IsFiniteSet(TimesIn(list, i))
          /\ Cardinality(TimesIn(list, i)) <= Len(keys) - i

(* A key that comes in goes behind the others, and is not retired yet.      *)
LEMMA FitGrows ==
    ASSUME NEW keys \in Seq(KeyIds), NEW list \in Seq(1..Len(keys)),
           NEW id \in KeyIds, RetiredFit(keys, list)
    PROVE  RetiredFit(Append(keys, id), list)
<1> DEFINE n == Len(keys)
           more == Append(keys, id)
<1>1. /\ n \in Nat /\ Len(more) = n + 1
      /\ \A i \in 1..n : more[i] = keys[i]
  BY AppendFacts
<1>2. \A k \in 1..Len(list) : list[k] \in 1..n
  OBVIOUS
<1> HIDE DEF n, more
<1>3. ASSUME NEW k \in 1..Len(list) PROVE ~ShadowedIn(more, list[k])
  <2>1. ~ShadowedIn(keys, list[k])
    BY DEF RetiredFit
  <2>2. list[k] \in 1..n /\ \A j \in 1..(list[k] - 1) : j \in 1..n
    BY <1>1, <1>2
  <2> QED
    BY <1>1, <2>1, <2>2 DEF ShadowedIn
<1>4. ASSUME NEW i \in 1..Len(more)
      PROVE  /\ IsFiniteSet(TimesIn(list, i))
             /\ Cardinality(TimesIn(list, i)) <= Len(more) - i
  <2>1. CASE i \in 1..n
    <3>1. /\ IsFiniteSet(TimesIn(list, i))
          /\ Cardinality(TimesIn(list, i)) <= n - i
      BY <2>1 DEF RetiredFit, n
    <3>2. Cardinality(TimesIn(list, i)) \in Nat
      BY <3>1, FS_CardinalityType
    <3> QED
      BY <1>1, <2>1, <3>1, <3>2
  <2>2. CASE i = n + 1
    <3>1. TimesIn(list, i) = {}
      BY <1>1, <1>2, <2>2 DEF TimesIn
    <3>2. IsFiniteSet(TimesIn(list, i)) /\ Cardinality(TimesIn(list, i)) = 0
      BY <3>1, FS_EmptySet
    <3>3. Len(more) - i = 0
      BY <1>1, <2>2
    <3> QED
      BY <3>2, <3>3
  <2> QED
    BY <1>1, <2>1, <2>2
<1> QED
  BY <1>3, <1>4 DEF RetiredFit, more

(* A rotation retires the first key of an identifier once more, and puts a  *)
(* replacement behind all keys.                                             *)
LEMMA FitRotates ==
    ASSUME NEW keys \in Seq(KeyIds), NEW list \in Seq(1..Len(keys)),
           NEW id \in KeyIds, NEW x \in 1..Len(keys), ~ShadowedIn(keys, x),
           RetiredFit(keys, list)
    PROVE  RetiredFit(Append(keys, id), Append(list, x))
<1> DEFINE n == Len(keys)
           m == Len(list)
           more == Append(keys, id)
           longer == Append(list, x)
<1>1. /\ n \in Nat /\ Len(more) = n + 1
      /\ \A i \in 1..n : more[i] = keys[i]
  BY AppendFacts
<1>2. /\ m \in Nat /\ Len(longer) = m + 1 /\ longer[m + 1] = x
      /\ \A k \in 1..m : longer[k] = list[k]
  BY AppendFacts
<1>3. (\A k \in 1..m : list[k] \in 1..n) /\ x \in 1..n
  OBVIOUS
<1>4. RetiredFit(more, list)
  BY FitGrows
<1>5. \A k \in 1..m : ~ShadowedIn(more, list[k])
  BY <1>4 DEF RetiredFit
<1> HIDE DEF n, m, more, longer
<1>6. ASSUME NEW k \in 1..Len(longer) PROVE ~ShadowedIn(more, longer[k])
  <2>1. CASE k \in 1..m
    BY <1>2, <1>5, <2>1
  <2>2. CASE k = m + 1
    <3>1. \A j \in 1..(x - 1) : j \in 1..n
      BY <1>1, <1>3
    <3>2. ~ShadowedIn(more, x)
      BY <1>1, <1>3, <3>1 DEF ShadowedIn
    <3> QED
      BY <1>2, <2>2, <3>2
  <2> QED
    BY <1>2, <2>1, <2>2
<1>7. ASSUME NEW i \in 1..Len(more)
      PROVE  /\ IsFiniteSet(TimesIn(longer, i))
             /\ Cardinality(TimesIn(longer, i)) <= Len(more) - i
  <2>1. /\ IsFiniteSet(TimesIn(list, i))
        /\ Cardinality(TimesIn(list, i)) <= Len(more) - i
    BY <1>4 DEF RetiredFit
  <2>2. CASE i # x
    <3>1. TimesIn(longer, i) = TimesIn(list, i)
      BY <1>2, <2>2 DEF TimesIn, m
    <3> QED
      BY <2>1, <3>1
  <2>3. CASE i = x
    <3>1. TimesIn(longer, i) = TimesIn(list, i) \cup {m + 1}
      BY <1>2, <2>3 DEF TimesIn, m
    <3>2. m + 1 \notin TimesIn(list, i)
      BY <1>2 DEF TimesIn, m
    <3>3. /\ IsFiniteSet(TimesIn(longer, i))
          /\ Cardinality(TimesIn(longer, i)) = Cardinality(TimesIn(list, i)) + 1
      BY <2>1, <3>1, <3>2, FS_AddElement
    <3>4. Cardinality(TimesIn(list, i)) <= n - i
      BY <1>3, <2>3 DEF RetiredFit, n
    <3>5. Cardinality(TimesIn(list, i)) \in Nat
      BY <2>1, FS_CardinalityType
    <3> QED
      BY <1>1, <1>3, <2>3, <3>3, <3>4, <3>5
  <2> QED
    BY <2>2, <2>3
<1> QED
  BY <1>6, <1>7 DEF RetiredFit, more, longer

(* What ~Store does to a key, by the rotations that named its identifier.   *)
LEMMA DeletionsAre ==
    ASSUME active \in Seq(KeyIds), retired \in Seq(1..Len(active)),
           RetiredFit(active, retired), NEW i \in 1..Len(active)
    PROVE  /\ Deletions(i) = IF Shadowed(i) THEN 1
                             ELSE 1 + Cardinality(RotationsNaming(i))
           /\ Deletions(i) <= Len(active) - i + 1
<1>1. DOMAIN retired = 1..Len(retired) /\ Len(active) \in Nat
  OBVIOUS
<1>2. \A k \in 1..Len(retired) : retired[k] \in 1..Len(active)
  OBVIOUS
<1>3. \A k \in 1..Len(retired) : ~Shadowed(retired[k])
  BY DEF RetiredFit, ShadowedIn, Shadowed
<1>4. Deletions(i) = 1 + Cardinality(TimesIn(retired, i))
  BY <1>1 DEF Deletions, TimesIn
<1>5. CASE Shadowed(i)
  <2>1. TimesIn(retired, i) = {}
    BY <1>3, <1>5 DEF TimesIn
  <2> QED
    BY <1>1, <1>4, <1>5, <2>1, FS_EmptySet
<1>6. CASE ~Shadowed(i)
  <2>1. ASSUME NEW k \in 1..Len(retired), active[retired[k]] = active[i]
        PROVE  retired[k] = i
    <3>1. ~(retired[k] < i)
      BY <1>2, <1>6, <2>1 DEF Shadowed
    <3>2. ~(i < retired[k])
      BY <1>2, <1>3, <2>1 DEF Shadowed
    <3> QED
      BY <1>2, <3>1, <3>2
  <2>2. RotationsNaming(i) = TimesIn(retired, i)
    BY <1>1, <2>1 DEF RotationsNaming, TimesIn
  <2>3. /\ Cardinality(TimesIn(retired, i)) \in Nat
        /\ Cardinality(TimesIn(retired, i)) <= Len(active) - i
    BY FS_CardinalityType DEF RetiredFit
  <2> QED
    BY <1>1, <1>4, <1>6, <2>2, <2>3
<1> QED
  BY <1>5, <1>6

\* The deletions follow the rotations, and commands come before deletions.
FreedInv ==
    /\ RetiredFit(active, retired)
    /\ status \in Outcomes => DOMAIN freed = {}
    /\ DeletionsFollowRotations

LEMMA FreedStep ==
    ASSUME Inv, FreedInv, [Next]_vars
    PROVE  FreedInv'
<1>1. active \in Seq(KeyIds) /\ retired \in Seq(1..Len(active))
  BY DEF Inv, TypeOK
<1>2. CASE DestroyStore
  <2>1. /\ UNCHANGED <<active, retired>> /\ status' \in {"ended", "crash"}
        /\ freed' = [i \in DOMAIN active |-> Deletions(i)]
    BY <1>2 DEF DestroyStore
  <2>2. DOMAIN active = 1..Len(active)
    BY <1>1
  <2>3. \A i \in 1..Len(active) :
           /\ freed'[i] = IF Shadowed(i) THEN 1
                          ELSE 1 + Cardinality(RotationsNaming(i))
           /\ freed'[i] <= Len(active) - i + 1
    BY <1>1, <2>1, <2>2, DeletionsAre DEF FreedInv
  <2>4. DeletionsFollowRotations'
    BY <2>1, <2>2, <2>3 DEF DeletionsFollowRotations, Shadowed, RotationsNaming
  <2>5. status' \notin Outcomes
    BY <2>1 DEF Outcomes
  <2> QED
    BY <2>1, <2>4, <2>5 DEF FreedInv
<1>3. CASE Continues(status) /\ Command
  <2>1. DOMAIN freed = {}
    BY <1>3 DEF FreedInv, Continues, Outcomes
  <2>2. UNCHANGED freed
    BY <1>3, Zenon DEF Command, AddKey, RotateKey, LeaseKey, ReleaseKey, AuditKeyring,
               OtherCommand
  <2>3. RetiredFit(active', retired')
    <3>1. ASSUME NEW id \in KeyIds, NEW sizeValid \in BOOLEAN, AddKey(id, sizeValid)
          PROVE  RetiredFit(active', retired')
      <4>1. retired' = retired /\ (active' = Append(active, id) \/ active' = active)
        BY <3>1 DEF AddKey
      <4> QED
        BY <1>1, <4>1, FitGrows DEF FreedInv
    <3>2. ASSUME NEW old \in KeyIds, NEW new \in KeyIds, NEW sizeValid \in BOOLEAN,
                 RotateKey(old, new, sizeValid)
          PROVE  RetiredFit(active', retired')
      <4>1. CASE status' = "ok"
        <5>1. /\ old \in KeyIdsIn(active)
              /\ active' = Append(active, new)
              /\ retired' = Append(retired, FindKey(old))
          BY <3>2, <4>1 DEF RotateKey, RotateCheck
        <5>2. FindKey(old) \in 1..Len(active) /\ ~ShadowedIn(active, FindKey(old))
          BY <1>1, <5>1, FindKeyOf DEF Shadowed, ShadowedIn
        <5> QED
          BY <1>1, <5>1, <5>2, FitRotates DEF FreedInv
      <4>2. CASE status' # "ok"
        BY <3>2, <4>2 DEF RotateKey, FreedInv
      <4> QED
        BY <4>1, <4>2
    <3>3. ASSUME NEW lease, NEW key, NEW scopeValid, LeaseKey(lease, key, scopeValid)
          PROVE  RetiredFit(active', retired')
      BY <3>3 DEF LeaseKey, FreedInv
    <3>4. ASSUME NEW lease, ReleaseKey(lease) PROVE RetiredFit(active', retired')
      BY <3>4 DEF ReleaseKey, FreedInv
    <3>5. ASSUME NEW view, AuditKeyring(view) PROVE RetiredFit(active', retired')
      <4>1. UNCHANGED <<active, retired>>
        BY <3>5, Zenon DEF AuditKeyring
      <4> QED
        BY <4>1 DEF FreedInv
    <3>6. ASSUME NEW epochs, OtherCommand(epochs) PROVE RetiredFit(active', retired')
      BY <3>6 DEF OtherCommand, FreedInv
    <3> QED
      BY <1>3, <3>1, <3>2, <3>3, <3>4, <3>5, <3>6 DEF Command
  <2> QED
    BY <2>1, <2>2, <2>3 DEF FreedInv, DeletionsFollowRotations
<1>4. CASE UNCHANGED vars
  BY <1>4 DEF vars, FreedInv, DeletionsFollowRotations, Shadowed, RotationsNaming
<1> QED
  BY <1>2, <1>3, <1>4 DEF Next

(* ~Store deletes a key once more for each rotation that named its          *)
(* identifier, whatever identifiers rotations gave out again; no key that   *)
(* stands behind another of its identifier is deleted twice, and for every  *)
(* deletion too many there is a replacement (rotate_key and ~Store).        *)
THEOREM RotationsAreDeletions == Spec => []DeletionsFollowRotations
<1>1. Init => FreedInv
  <2> SUFFICES ASSUME Init PROVE FreedInv
    OBVIOUS
  <2>1. Len(active) = 0 /\ Len(retired) = 0 /\ DOMAIN freed = {}
    BY DEF Init
  <2> QED
    BY <2>1 DEF FreedInv, RetiredFit, DeletionsFollowRotations
<1>2. Inv /\ FreedInv /\ [Next]_vars => FreedInv'
  BY FreedStep
<1>3. FreedInv => DeletionsFollowRotations
  BY DEF FreedInv
<1> QED
  BY <1>1, <1>2, <1>3, Safety, PTL DEF Spec

-----------------------------------------------------------------------------
(* HistoryTellsLeases, of any list of records and any leases.               *)
ToldIn(list, what, id) ==
    {k \in 1..Len(list) : list[k].what = what /\ list[k].lease_id = id}

\* One lease: granted at a place of its own, released after it if at all.
TellsOf(list, lease) ==
    \E k \in 1..Len(list) :
        /\ ToldIn(list, "lease", lease.lease_id) = {k}
        /\ IF lease.active
           THEN ToldIn(list, "release", lease.lease_id) = {}
           ELSE \E r \in 1..Len(list) :
                   k < r /\ ToldIn(list, "release", lease.lease_id) = {r}

\* Every record is of a lease.
RecordsOf(list, all) ==
    \A k \in 1..Len(list) : \E i \in 1..Len(all) :
        all[i].lease_id = list[k].lease_id

\* The grant of one lease comes before that of another.
Ahead(list, before, after) ==
    \A k \in ToldIn(list, "lease", before.lease_id),
       l \in ToldIn(list, "lease", after.lease_id) : k < l

Tells(list, all) ==
    /\ RecordsOf(list, all)
    /\ \A i \in 1..Len(all) : TellsOf(list, all[i])
    /\ \A i, j \in 1..Len(all) : i < j => Ahead(list, all[i], all[j])

LEMMA TellsIs ==
    ASSUME history \in Seq(Record), leases \in Seq(Lease)
    PROVE  HistoryTellsLeases <=> Tells(history, leases)
<1>1. DOMAIN history = 1..Len(history) /\ DOMAIN leases = 1..Len(leases)
  OBVIOUS
<1>2. \A what, id : Told(what, id) = ToldIn(history, what, id)
  BY <1>1 DEF Told, ToldIn
<1>3. (\A k \in DOMAIN history : history[k].lease_id \in LeaseIdsIn(leases))
         <=> RecordsOf(history, leases)
  BY <1>1 DEF LeaseIdsIn, RecordsOf
<1> HIDE DEF ToldIn
<1> QED
  BY <1>1, <1>2, <1>3 DEF HistoryTellsLeases, Tells, TellsOf, Ahead

(* What is told of a lease after one more record.                           *)
LEMMA ToldAfter ==
    ASSUME NEW list \in Seq(Record), NEW r \in Record, NEW what, NEW id
    PROVE  /\ r.what = what /\ r.lease_id = id =>
                 ToldIn(Append(list, r), what, id)
                    = ToldIn(list, what, id) \cup {Len(list) + 1}
           /\ ~(r.what = what /\ r.lease_id = id) =>
                 ToldIn(Append(list, r), what, id) = ToldIn(list, what, id)
<1>1. /\ Len(list) \in Nat
      /\ Len(Append(list, r)) = Len(list) + 1
      /\ Append(list, r)[Len(list) + 1] = r
      /\ \A i \in 1..Len(list) : Append(list, r)[i] = list[i]
  BY AppendFacts
<1> DEFINE more == Append(list, r)
           n == Len(list)
<1>2. 1..Len(more) = 1..n \cup {n + 1} /\ n + 1 \notin 1..n
  BY <1>1
<1>3. more[n + 1] = r /\ \A i \in 1..n : more[i] = list[i]
  BY <1>1
<1> HIDE DEF more, n
<1>4. ToldIn(more, what, id)
         = {k \in 1..n : list[k].what = what /\ list[k].lease_id = id}
             \cup {k \in {n + 1} : r.what = what /\ r.lease_id = id}
  BY <1>2, <1>3 DEF ToldIn
<1>5. ToldIn(list, what, id)
         = {k \in 1..n : list[k].what = what /\ list[k].lease_id = id}
  BY DEF ToldIn, n
<1>6. CASE r.what = what /\ r.lease_id = id
  BY <1>4, <1>5, <1>6 DEF more, n
<1>7. CASE ~(r.what = what /\ r.lease_id = id)
  BY <1>4, <1>5, <1>7 DEF more, n
<1> QED
  BY <1>6, <1>7

LEMMA ToldMore ==
    ASSUME NEW list \in Seq(Record), NEW r \in Record
    PROVE  ToldIn(Append(list, r), r.what, r.lease_id)
              = ToldIn(list, r.what, r.lease_id) \cup {Len(list) + 1}
BY ToldAfter

LEMMA ToldSame ==
    ASSUME NEW list \in Seq(Record), NEW r \in Record, NEW what, NEW id,
           r.what # what \/ r.lease_id # id
    PROVE  ToldIn(Append(list, r), what, id) = ToldIn(list, what, id)
BY ToldAfter

(* Of a lease the new record is not about, it tells the same.               *)
LEMMA TellsOfOthers ==
    ASSUME NEW list \in Seq(Record), NEW r \in Record, NEW lease,
           r.lease_id # lease.lease_id, TellsOf(list, lease)
    PROVE  TellsOf(Append(list, r), lease)
<1>1. \A what : ToldIn(Append(list, r), what, lease.lease_id)
                   = ToldIn(list, what, lease.lease_id)
  BY ToldAfter
<1>2. 1..Len(list) \subseteq 1..Len(Append(list, r))
  BY AppendFacts
<1> HIDE DEF ToldIn
<1> QED
  BY <1>1, <1>2 DEF TellsOf

(* A grant, of a lease with an identifier of its own.                       *)
LEMMA GrantTells ==
    ASSUME NEW list \in Seq(Record), NEW all \in Seq(Lease), Tells(list, all),
           NEW granted \in Lease, granted.active,
           \A i \in 1..Len(all) : all[i].lease_id # granted.lease_id,
           NEW r \in Record, r.what = "lease", r.lease_id = granted.lease_id
    PROVE  Tells(Append(list, r), Append(all, granted))
<1> DEFINE n == Len(list)
           m == Len(all)
           list2 == Append(list, r)
           all2 == Append(all, granted)
           id == granted.lease_id
<1>1. /\ n \in Nat /\ Len(list2) = n + 1
      /\ list2[n + 1] = r /\ \A k \in 1..n : list2[k] = list[k]
  BY AppendFacts
<1>2. /\ m \in Nat /\ Len(all2) = m + 1
      /\ all2[m + 1] = granted /\ \A i \in 1..m : all2[i] = all[i]
  BY AppendFacts
<1>3. \A what : ToldIn(list, what, id) = {}
  BY DEF Tells, RecordsOf, ToldIn
<1>4. ToldIn(list2, "lease", id) = {n + 1} /\ ToldIn(list2, "release", id) = {}
  <2>1. ToldIn(list2, r.what, r.lease_id) = ToldIn(list, r.what, r.lease_id) \cup {n + 1}
    BY ToldMore
  <2>2. ToldIn(list2, "release", id) = ToldIn(list, "release", id)
    BY ToldSame
  <2> HIDE DEF list2, n, id
  <2> QED
    BY <1>3, <2>1, <2>2 DEF id
<1>5. ASSUME NEW i \in 1..m
      PROVE  ToldIn(list2, "lease", all[i].lease_id) = ToldIn(list, "lease", all[i].lease_id)
  <2>1. r.lease_id # all[i].lease_id
    OBVIOUS
  <2> QED
    BY <2>1, ToldSame
<1>6. \A what, x : ToldIn(list, what, x) \subseteq 1..n
  BY DEF ToldIn
<1>7. RecordsOf(list2, all2)
  <2> SUFFICES ASSUME NEW k \in 1..Len(list2)
               PROVE  \E i \in 1..Len(all2) : all2[i].lease_id = list2[k].lease_id
    BY DEF RecordsOf
  <2>1. CASE k = n + 1
    BY <2>1, <1>1, <1>2
  <2>2. CASE k \in 1..n
    <3>1. PICK i \in 1..m : all[i].lease_id = list[k].lease_id
      BY <2>2 DEF Tells, RecordsOf
    <3>2. i \in 1..Len(all2) /\ all2[i] = all[i] /\ list2[k] = list[k]
      BY <1>1, <1>2, <2>2
    <3> QED
      BY <3>1, <3>2
  <2>3. k = n + 1 \/ k \in 1..n
    BY <1>1
  <2> QED
    BY <2>1, <2>2, <2>3
<1>8. ASSUME NEW i \in 1..Len(all2) PROVE TellsOf(list2, all2[i])
  <2>1. CASE i = m + 1
    <3>1. n + 1 \in 1..Len(list2)
      BY <1>1
    <3> QED
      BY <2>1, <3>1, <1>2, <1>4 DEF TellsOf
  <2>2. CASE i \in 1..m
    <3>1. TellsOf(list, all[i])
      BY <2>2 DEF Tells
    <3>2. TellsOf(list2, all[i])
      BY <2>2, <3>1, TellsOfOthers
    <3> QED
      BY <2>2, <3>2, <1>2
  <2> QED
    BY <2>1, <2>2, <1>2
<1>9. ASSUME NEW i \in 1..Len(all2), NEW j \in 1..Len(all2), i < j
      PROVE  Ahead(list2, all2[i], all2[j])
  <2>1. i \in 1..m /\ (j \in 1..m \/ j = m + 1)
    BY <1>2, <1>9
  <2>2. CASE j \in 1..m
    <3>1. Ahead(list, all[i], all[j])
      BY <1>9, <2>1, <2>2 DEF Tells
    <3> QED
      BY <3>1, <2>1, <2>2, <1>2, <1>5 DEF Ahead
  <2>3. CASE j = m + 1
    <3>1. ToldIn(list2, "lease", all2[j].lease_id) = {n + 1}
      BY <2>3, <1>2, <1>4
    <3>2. ToldIn(list2, "lease", all2[i].lease_id) \subseteq 1..n
      <4>1. all2[i].lease_id = all[i].lease_id
        BY <2>1, <1>2
      <4>2. ToldIn(list2, "lease", all[i].lease_id) = ToldIn(list, "lease", all[i].lease_id)
        BY <2>1, <1>5
      <4>3. ToldIn(list, "lease", all[i].lease_id) \subseteq 1..n
        BY <1>6
      <4> QED
        BY <4>1, <4>2, <4>3
    <3>3. \A k \in 1..n, l \in {n + 1} : k < l
      BY <1>1
    <3> HIDE DEF list2, all2, n
    <3> QED
      BY <3>1, <3>2, <3>3 DEF Ahead
  <2> QED
    BY <2>1, <2>2, <2>3
<1> HIDE DEF list2, all2
<1> QED
  BY <1>7, <1>8, <1>9 DEF Tells, list2, all2

\* The lease at x is closed, and nothing else changes.
Closes(all, all2, x) ==
    /\ Len(all2) = Len(all)
    /\ x \in 1..Len(all)
    /\ all[x].active
    /\ ~all2[x].active
    /\ all2[x].lease_id = all[x].lease_id
    /\ \A i \in 1..Len(all) : i # x => all2[i] = all[i]

Unique(all) ==
    \A i, j \in 1..Len(all) : all[i].lease_id = all[j].lease_id => i = j

(* A release, of a lease that is active: the lease becomes closed.          *)
LEMMA ReleaseTells ==
    ASSUME NEW list \in Seq(Record), NEW all \in Seq(Lease), Tells(list, all),
           NEW all2 \in Seq(Lease), Unique(all), NEW x, Closes(all, all2, x),
           NEW r \in Record, r.what = "release", r.lease_id = all[x].lease_id
    PROVE  Tells(Append(list, r), all2)
<1> DEFINE n == Len(list)
           list2 == Append(list, r)
           id == all[x].lease_id
<1>1. /\ n \in Nat /\ Len(list2) = n + 1
      /\ list2[n + 1] = r /\ \A k \in 1..n : list2[k] = list[k]
  BY AppendFacts
<1>2. /\ \A i \in 1..Len(all) : all2[i].lease_id = all[i].lease_id
      /\ x \in 1..Len(all) /\ all[x].active /\ ~all2[x].active
      /\ \A i \in 1..Len(all) : i # x => all2[i] = all[i]
      /\ Len(all2) = Len(all)
  BY DEF Closes
<1>3. ASSUME NEW y PROVE ToldIn(list2, "lease", y) = ToldIn(list, "lease", y)
  BY ToldSame
<1>4. RecordsOf(list2, all2)
  <2> SUFFICES ASSUME NEW k \in 1..Len(list2)
               PROVE  \E i \in 1..Len(all) : all2[i].lease_id = list2[k].lease_id
    BY <1>2 DEF RecordsOf
  <2>1. CASE k = n + 1
    BY <2>1, <1>1, <1>2
  <2>2. CASE k \in 1..n
    BY <2>2, <1>1, <1>2 DEF Tells, RecordsOf
  <2> QED
    BY <2>1, <2>2, <1>1
<1>5. ASSUME NEW i \in 1..Len(all) PROVE TellsOf(list2, all2[i])
  <2>1. TellsOf(list, all[i])
    BY DEF Tells
  <2>2. CASE i # x
    <3>1. r.lease_id # all[i].lease_id
      BY <2>2, <1>2 DEF Unique
    <3>2. TellsOf(list2, all[i])
      BY <2>1, <3>1, TellsOfOthers
    <3> QED
      BY <2>2, <3>2, <1>2
  <2>3. CASE i = x
    <3>1. PICK k \in 1..n : ToldIn(list, "lease", id) = {k}
                            /\ ToldIn(list, "release", id) = {}
      BY <2>1, <2>3, <1>2 DEF TellsOf
    <3>2. ToldIn(list2, "release", id) = {n + 1} /\ ToldIn(list2, "lease", id) = {k}
      <4>1. ToldIn(list2, r.what, r.lease_id)
               = ToldIn(list, r.what, r.lease_id) \cup {n + 1}
        BY ToldMore
      <4>2. ToldIn(list2, "lease", id) = ToldIn(list, "lease", id)
        BY <1>3
      <4> HIDE DEF list2, n, id
      <4> QED
        BY <3>1, <4>1, <4>2 DEF id
    <3>3. k \in 1..Len(list2) /\ n + 1 \in 1..Len(list2) /\ k < n + 1
      BY <1>1
    <3> HIDE DEF list2
    <3> QED
      BY <2>3, <3>2, <3>3, <1>2 DEF TellsOf
  <2> QED
    BY <2>2, <2>3
<1>6. ASSUME NEW i \in 1..Len(all), NEW j \in 1..Len(all), i < j
      PROVE  Ahead(list2, all2[i], all2[j])
  <2>1. Ahead(list, all[i], all[j])
    BY <1>6 DEF Tells
  <2> QED
    BY <2>1, <1>2, <1>3 DEF Ahead
<1> HIDE DEF list2
<1> QED
  BY <1>2, <1>4, <1>5, <1>6 DEF Tells, list2

TellsNow == Tells(history, leases)

LEMMA TellsNowIs ==
    history \in Seq(Record) /\ leases \in Seq(Lease)
        => (HistoryTellsLeases <=> TellsNow)
BY TellsIs DEF TellsNow

LEMMA TellsNextIs ==
    (history \in Seq(Record) /\ leases \in Seq(Lease)
        => (HistoryTellsLeases <=> TellsNow))'
BY TellsNowIs, PTL

LEMMA HistoryStep ==
    ASSUME Inv, Inv', HistoryTellsLeases, [Next]_vars
    PROVE  HistoryTellsLeases'
<1>1. /\ history \in Seq(Record) /\ leases \in Seq(Lease)
      /\ history' \in Seq(Record) /\ leases' \in Seq(Lease)
  BY DEF Inv, TypeOK
<1>2. Tells(history, leases)
  BY <1>1, TellsIs
<1>3. HistoryTellsLeases' <=> Tells(history', leases')
  BY <1>1, TellsNextIs DEF TellsNow
<1>4. CASE UNCHANGED <<history, leases>>
  BY <1>4 DEF HistoryTellsLeases, Told, LeaseIdsIn
<1>5. ASSUME NEW lease, NEW key, GrantLease(lease, key),
             lease \in LeaseIds, lease \notin LeaseIdsIn(leases), key \in KeyIds
      PROVE  HistoryTellsLeases'
  <2> DEFINE granted == [lease_id |-> lease, key_id |-> key,
                         issued_epoch |-> epoch, released_epoch |-> 0,
                         active |-> TRUE]
             record == [what |-> "lease", lease_id |-> lease]
  <2>1. leases' = Append(leases, granted) /\ history' = Append(history, record)
    BY <1>5 DEF GrantLease
  <2>2. /\ granted \in Lease /\ granted.active /\ granted.lease_id = lease
        /\ record \in Record /\ record.what = "lease" /\ record.lease_id = lease
    BY <1>5 DEF Lease, Record, Inv, TypeOK
  <2>3. \A i \in 1..Len(leases) : leases[i].lease_id # lease
    BY <1>1, <1>5 DEF LeaseIdsIn
  <2> HIDE DEF granted, record
  <2>4. Tells(Append(history, record), Append(leases, granted))
    BY <1>1, <1>2, <2>2, <2>3, GrantTells
  <2>5. Tells(history', leases')
    BY <2>1, <2>4
  <2> QED
    BY <1>3, <2>5
<1>6. ASSUME NEW lease, EndLease(lease), lease \in LeaseIdsIn(leases),
             leases[FindLease(lease)].active
      PROVE  HistoryTellsLeases'
  <2> DEFINE x == FindLease(lease)
             record == [what |-> "release", lease_id |-> lease]
  <2>1. /\ x \in 1..Len(leases)
        /\ Len(leases') = Len(leases)
        /\ leases'[x].lease_id = leases[x].lease_id
        /\ \A j \in 1..Len(leases) : j # x => leases'[j] = leases[j]
    BY <1>6, EndLeaseEffect
  <2>2. leases[x].lease_id = lease
    BY <1>1, <1>6, FindLeaseOf DEF Inv
  <2>3. ~leases'[x].active
    <3>1. leases[x] \in Lease
      BY <1>1, <2>1
    <3> DEFINE closed == [leases[x] EXCEPT !.active = FALSE,
                                           !.released_epoch = epoch + events]
    <3>2. ~closed.active
      BY <3>1 DEF Lease
    <3>3. leases' = [leases EXCEPT ![x] = closed]
      BY <1>6 DEF EndLease
    <3> HIDE DEF closed, x
    <3> QED
      BY <1>1, <2>1, <3>2, <3>3
  <2>4. history' = Append(history, record)
    BY <1>6 DEF EndLease
  <2>5. record \in Record /\ record.what = "release" /\ record.lease_id = lease
    <3>1. lease \in LeaseIds
      <4>1. leases[x] \in Lease
        BY <1>1, <2>1
      <4> HIDE DEF x
      <4> QED
        BY <2>2, <4>1 DEF Lease
    <3> QED
      BY <3>1 DEF Record
  <2>6. leases[x].active
    BY <1>6
  <2>7. Unique(leases) /\ Closes(leases, leases', x)
    BY <2>1, <2>3, <2>6 DEF Inv, LeasesFindable, Unique, Closes
  <2> HIDE DEF x, record
  <2>8. Tells(Append(history, record), leases')
    BY <1>1, <1>2, <2>2, <2>5, <2>7, ReleaseTells
  <2>9. Tells(history', leases')
    BY <2>4, <2>8
  <2> QED
    BY <1>3, <2>9
<1>7. ASSUME NEW lease \in LeaseIds \cup {NoLease}, NEW key \in KeyIds,
             NEW scopeValid \in BOOLEAN, LeaseKey(lease, key, scopeValid)
      PROVE  HistoryTellsLeases'
  <2>1. CASE status' = "ok"
    <3>1. /\ lease \in LeaseIds /\ lease \notin LeaseIdsIn(leases)
          /\ GrantLease(lease, key)
      BY <1>7, <2>1 DEF LeaseKey, LeaseCheck
    <3> QED
      BY <3>1, <1>5
  <2>2. CASE status' # "ok"
    BY <1>4, <1>7, <2>2 DEF LeaseKey
  <2> QED
    BY <2>1, <2>2
<1>8. ASSUME NEW lease \in LeaseIds \cup {NoLease}, ReleaseKey(lease)
      PROVE  HistoryTellsLeases'
  <2>1. CASE status' = "ok"
    <3>1. /\ lease \in LeaseIdsIn(leases) /\ leases[FindLease(lease)].active
          /\ EndLease(lease)
      BY <1>8, <2>1 DEF ReleaseKey, ReleaseCheck
    <3> QED
      BY <3>1, <1>6
  <2>2. CASE status' # "ok"
    BY <1>4, <1>8, <2>2 DEF ReleaseKey
  <2> QED
    BY <2>1, <2>2
<1>9. ASSUME NEW id, NEW sizeValid, AddKey(id, sizeValid)
      PROVE  UNCHANGED <<history, leases>>
  BY <1>9 DEF AddKey
<1>10. ASSUME NEW old, NEW new, NEW sizeValid, RotateKey(old, new, sizeValid)
       PROVE  UNCHANGED <<history, leases>>
  BY <1>10 DEF RotateKey
<1>11. ASSUME NEW view, AuditKeyring(view) PROVE UNCHANGED <<history, leases>>
  BY <1>11, Zenon DEF AuditKeyring
<1>12. ASSUME NEW epochs, OtherCommand(epochs) PROVE UNCHANGED <<history, leases>>
  BY <1>12 DEF OtherCommand
<1>13. ASSUME DestroyStore PROVE UNCHANGED <<history, leases>>
  BY <1>13 DEF DestroyStore
<1>14. CASE UNCHANGED vars
  BY <1>4, <1>14 DEF vars
<1> QED
  BY <1>4, <1>7, <1>8, <1>9, <1>10, <1>11, <1>12, <1>13, <1>14 DEF Next, Command

(* The history and the leases tell the same story, through any number of    *)
(* grants, releases and refusals: each lease was granted once, in order,    *)
(* and released once, later, if and only if it is no longer active.         *)
THEOREM HistoryIsTold == Spec => []HistoryTellsLeases
<1>1. Init => HistoryTellsLeases
  BY DEF Init, HistoryTellsLeases
<1>2. Inv /\ Inv' /\ HistoryTellsLeases /\ [Next]_vars => HistoryTellsLeases'
  BY HistoryStep
<1> QED
  BY <1>1, <1>2, Safety, PTL DEF Spec
-----------------------------------------------------------------------------
\* Pairs of a place and a number up to the size of the set at that place.
Pairs(m, n, L) == {p \in (1..m) \X (1..n) : p[2] <= Cardinality(L[p[1]])}

Members(m, L) == UNION {L[a] : a \in 1..m}

NoneShared(m, L) == \A a, b \in 1..m : \A i \in L[a] : i \in L[b] => a = b

(* There are as many of these pairs as elements in the sets, when no two    *)
(* sets have one in common.                                                 *)
LEMMA PairsCounted ==
    ASSUME NEW m \in Nat, NEW n \in Nat, NEW L \in [1..m -> SUBSET (1..n)],
           NoneShared(m, L)
    PROVE  Cardinality(Pairs(m, n, L)) = Cardinality(Members(m, L))
<1> DEFINE size == [a \in 1..m |-> Cardinality(L[a])]
           F == [a \in 1..m |-> CHOOSE f : f \in Bijection(1..size[a], L[a])]
           P == {p \in (1..m) \X (1..n) : p[2] <= size[p[1]]}
           U == UNION {L[a] : a \in 1..m}
           g == [p \in P |-> F[p[1]][p[2]]]
<1>1. ASSUME NEW a \in 1..m
      PROVE  /\ size[a] \in 0..n
             /\ F[a] \in Bijection(1..size[a], L[a])
  <2>1. IsFiniteSet(1..n) /\ Cardinality(1..n) = n
    BY FS_Interval
  <2>2. IsFiniteSet(L[a]) /\ Cardinality(L[a]) <= n
    BY <2>1, FS_Subset
  <2>3. Cardinality(L[a]) \in Nat /\ ExistsBijection(1..Cardinality(L[a]), L[a])
    BY <2>2, FS_CardinalityType
  <2> QED
    BY <2>2, <2>3 DEF ExistsBijection
<1>2. ASSUME NEW a \in 1..m
      PROVE  /\ \A k \in 1..size[a] : F[a][k] \in L[a]
             /\ \A k, l \in 1..size[a] : F[a][k] = F[a][l] => k = l
             /\ \A i \in L[a] : \E k \in 1..size[a] : F[a][k] = i
  <2> HIDE DEF F, size
  <2>1. F[a] \in Bijection(1..size[a], L[a])
    BY <1>1
  <2> QED
    BY <2>1 DEF Bijection, Injection, Surjection, IsInjective
<1>3. \A p \in P : /\ p[1] \in 1..m /\ p[2] \in 1..size[p[1]]
                   /\ p = <<p[1], p[2]>>
  <2> SUFFICES ASSUME NEW p \in P
               PROVE  /\ p[1] \in 1..m /\ p[2] \in 1..size[p[1]]
                      /\ p = <<p[1], p[2]>>
    OBVIOUS
  <2>1. p[1] \in 1..m /\ p[2] \in 1..n /\ p[2] <= size[p[1]] /\ p = <<p[1], p[2]>>
    OBVIOUS
  <2>2. size[p[1]] \in 0..n
    BY <2>1, <1>1
  <2> HIDE DEF size, P
  <2> QED
    BY <2>1, <2>2
<1>4. \A a \in 1..m, k \in 1..n : k <= size[a] => <<a, k>> \in P
  OBVIOUS
<1>5. U \subseteq 1..n /\ \A a \in 1..m : L[a] \subseteq U
  OBVIOUS
<1>51. \A i \in U : \E a \in 1..m : i \in L[a]
  OBVIOUS
<1> HIDE DEF F, size, P, U
<1>6. g \in [P -> U]
  BY <1>2, <1>3, <1>5
<1>7. ASSUME NEW p \in P, NEW q \in P, g[p] = g[q] PROVE p = q
  <2>1. F[p[1]][p[2]] \in L[p[1]] /\ F[q[1]][q[2]] \in L[q[1]]
    BY <1>2, <1>3
  <2>2. p[1] = q[1]
    BY <1>3, <1>7, <2>1 DEF NoneShared
  <2>3. p[2] = q[2]
    BY <1>2, <1>3, <1>7, <2>2
  <2> QED
    BY <1>3, <2>2, <2>3
<1>8. ASSUME NEW i \in U PROVE \E p \in P : g[p] = i
  <2>1. PICK a \in 1..m : i \in L[a]
    BY <1>51
  <2>2. PICK k \in 1..size[a] : F[a][k] = i
    BY <2>1, <1>2
  <2>3. k \in 1..n /\ k <= size[a]
    BY <1>1
  <2>4. <<a, k>> \in P
    BY <2>3, <1>4
  <2>5. g[<<a, k>>] = i
    BY <2>2, <2>4
  <2> QED
    BY <2>4, <2>5
<1>9. g \in Bijection(P, U)
  <2> HIDE DEF g
  <2> QED
    BY <1>6, <1>7, <1>8 DEF Bijection, Injection, Surjection, IsInjective
<1>10. IsFiniteSet(U)
  <2>1. IsFiniteSet(1..n)
    BY FS_Interval
  <2> QED
    BY <1>5, <2>1, FS_Subset
<1>11. IsFiniteSet(P)
  <2>1. g \in Injection(P, U)
    BY <1>9 DEF Bijection
  <2> HIDE DEF g
  <2> QED
    BY <2>1, <1>10, FS_Injection
<1>12. Cardinality(U) = Cardinality(P)
  BY <1>9, <1>11, FS_Bijection DEF ExistsBijection
<1>13. P = Pairs(m, n, L) /\ U = Members(m, L)
  BY DEF P, size, Pairs, U, Members
<1> QED
  BY <1>12, <1>13

LEMMA AuditStep ==
    ASSUME Inv
    PROVE  AuditAccounts
<1> SUFFICES ASSUME AuditKeyring("active")
             PROVE  LET counted == Cardinality(
                               {p \in (1..Len(lines')) \X (1..Len(leases)) :
                                   p[2] <= lines'[p[1]].leases})
                        granted == Cardinality({i \in DOMAIN leases : leases[i].active})
                    IN  /\ counted >= granted
                        /\ (\A i \in DOMAIN active : ~Shadowed(i))
                              => counted = granted
  BY DEF AuditAccounts
<1> DEFINE m == Len(active)
           n == Len(leases)
           L == [a \in 1..m |-> {i \in 1..n : leases[i].key_id = active[a]
                                              /\ leases[i].active}]
           First == [a \in 1..m |-> IF Shadowed(a) THEN {} ELSE L[a]]
           Granted == {i \in 1..n : leases[i].active}
<1>1. /\ active \in Seq(KeyIds) /\ leases \in Seq(Lease)
      /\ m \in Nat /\ n \in Nat /\ DOMAIN active = 1..m /\ DOMAIN leases = 1..n
  BY DEF Inv, TypeOK
<1>2. lines' = [a \in 1..m |-> [key |-> active[a], leases |-> ActiveLeaseCount(active[a])]]
  <2>1. lines' = AuditLines("active")
    BY Zenon DEF AuditKeyring
  <2>2. AuditLines("active")
           = [a \in DOMAIN active |->
                 [key |-> active[a], leases |-> ActiveLeaseCount(active[a])]]
    BY Zenon DEF AuditLines
  <2> QED
    BY <1>1, <2>1, <2>2
<1>3. \A a \in 1..m : lines'[a].leases = Cardinality(L[a])
  BY <1>1, <1>2 DEF ActiveLeaseCount
<1>4. Len(lines') = m
  BY <1>1, <1>2
<1>5. First \in [1..m -> SUBSET (1..n)]
  OBVIOUS
<1>6. NoneShared(m, First)
  <2> SUFFICES ASSUME NEW a \in 1..m, NEW b \in 1..m,
                      NEW i \in First[a], i \in First[b]
               PROVE  a = b
    BY DEF NoneShared
  <2>1. ~Shadowed(a) /\ ~Shadowed(b) /\ active[a] = active[b]
    OBVIOUS
  <2>2. ~(a < b) /\ ~(b < a)
    BY <2>1 DEF Shadowed
  <2> QED
    BY <2>2
<1>7. Members(m, First) = Granted
  <2>1. ASSUME NEW i \in Granted PROVE \E a \in 1..m : i \in First[a]
    <3> DEFINE id == leases[i].key_id
    <3>1. i \in 1..n /\ leases[i].active
      OBVIOUS
    <3>2. id \in KeyIdsIn(active)
      BY <1>1, <3>1 DEF Inv, LeasesFindable, KeyIdsIn
    <3>3. FindKey(id) \in 1..m /\ active[FindKey(id)] = id /\ ~Shadowed(FindKey(id))
      BY <1>1, <3>2, FindKeyOf
    <3>4. i \in First[FindKey(id)]
      BY <3>1, <3>3
    <3> QED
      BY <3>3, <3>4
  <2>2. \A a \in 1..m : First[a] \subseteq Granted
    OBVIOUS
  <2> HIDE DEF First, Granted
  <2> QED
    BY <2>1, <2>2 DEF Members
<1>8. \A a \in 1..m : First[a] = L[a] \/ First[a] = {}
  OBVIOUS
<1>9. (\A i \in DOMAIN active : ~Shadowed(i)) => First = L
  BY <1>1
<1>10. \A a \in 1..m : L[a] \subseteq 1..n
  OBVIOUS
<1> HIDE DEF m, n, L, First, Granted
<1>11. Cardinality(Pairs(m, n, First)) = Cardinality(Granted)
  BY <1>1, <1>5, <1>6, <1>7, PairsCounted
<1>12. Pairs(m, n, First) \subseteq Pairs(m, n, L)
  <2> SUFFICES ASSUME NEW a \in 1..m, NEW k \in 1..n, k <= Cardinality(First[a])
               PROVE  k <= Cardinality(L[a])
    BY DEF Pairs
  <2>1. CASE First[a] = L[a]
    BY <2>1
  <2>2. CASE First[a] = {}
    <3>1. Cardinality(First[a]) = 0
      BY <2>2, FS_EmptySet
    <3> QED
      BY <3>1
  <2> QED
    BY <1>8, <2>1, <2>2
<1>13. IsFiniteSet(Pairs(m, n, L))
  <2>1. IsFiniteSet(1..m) /\ IsFiniteSet(1..n)
    BY <1>1, FS_Interval
  <2>2. IsFiniteSet((1..m) \X (1..n))
    BY <2>1, FS_Product
  <2> QED
    BY <2>2, FS_Subset DEF Pairs
<1>14. /\ Cardinality(Pairs(m, n, First)) <= Cardinality(Pairs(m, n, L))
       /\ Cardinality(Pairs(m, n, First)) \in Nat
       /\ Cardinality(Pairs(m, n, L)) \in Nat
  BY <1>12, <1>13, FS_Subset, FS_CardinalityType
<1>15. {p \in (1..Len(lines')) \X (1..n) : p[2] <= lines'[p[1]].leases}
          = Pairs(m, n, L)
  BY <1>3, <1>4 DEF Pairs
<1>16. {i \in DOMAIN leases : leases[i].active} = Granted
  BY <1>1 DEF Granted
<1> QED
  BY <1>9, <1>11, <1>14, <1>15, <1>16 DEF n

(* KEYAUDIT active accounts for every active lease, in the line of the      *)
(* first key of its identifier, for the key of a lease may always be found; *)
(* and once only, unless a rotation gave that identifier out again.         *)
THEOREM AuditAccountsForAll == Spec => AuditAccountsForLeases
<1>1. Inv /\ [Next]_vars => [AuditAccounts]_vars
  BY AuditStep
<1>2. Spec => [][AuditAccounts]_vars
  BY <1>1, Safety, PTL DEF Spec
<1> QED
  BY <1>2 DEF AuditAccountsForLeases
=============================================================================
