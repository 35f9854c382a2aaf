------------------------------ MODULE Keyring ------------------------------
(***************************************************************************)
(* The keyring and its leases: KEY, ROTATE, KEYLEASE, KEYRELEASE and       *)
(* KEYAUDIT (src/src/store.cpp, rekey.cpp, key_audit.cpp), up to the       *)
(* destruction of the store that owns the keys.                            *)
(*                                                                         *)
(* Keys are only ever added to active_keys, so a Key object is known by    *)
(* its place there; retired_keys holds places of active_keys.  Material    *)
(* and scopes are abstracted to whether their length is accepted, hashes   *)
(* are left out.                                                           *)
(***************************************************************************)
EXTENDS Naturals, Sequences, FiniteSets, Common

CONSTANTS
    KeyIds,        \* key identifiers
    LeaseIds,      \* valid lease identifiers (the code: any but 0)
    NoLease,       \* the reserved identifier 0, and "none selected"
    MaxKeys,       \* bound of the model: keys of one journal
    MaxEvents      \* bound of the model: events of one journal

ASSUME KeyringConstants ==
    /\ NoLease \notin LeaseIds
    /\ MaxKeys \in Nat
    /\ MaxEvents \in Nat

VARIABLES
    active,        \* Store.active_keys: the ids of the keys
    retired,       \* Store.retired_keys: places in active
    leases,        \* KeyAuditState.leases
    history,       \* KeyAuditState.history
    selected,      \* KeyAuditState.selected_lease
    lines,         \* InspectState.lines, as KEYAUDIT leaves them
    epoch,         \* Store.epoch
    events,        \* the length of Store.events
    freed          \* times each key was deleted; empty while the store lives

vars == <<active, retired, leases, history, selected, lines, epoch, events,
          freed, status>>

Lease == [lease_id : LeaseIds, key_id : KeyIds, issued_epoch : Nat,
          released_epoch : Nat, active : BOOLEAN]

Record == [what : {"lease", "release"}, lease_id : LeaseIds]

Init ==
    /\ active = <<>>
    /\ retired = <<>>
    /\ leases = <<>>
    /\ history = <<>>
    /\ selected = NoLease
    /\ lines = <<>>
    /\ epoch = 0
    /\ events = 0
    /\ freed = <<>>
    /\ status = "ok"

KeyIdsIn(keys) == {keys[i] : i \in DOMAIN keys}

LeaseIdsIn(list) == {list[i].lease_id : i \in DOMAIN list}

\* Mutant: the last key of that id, the one that was added last.
FindKeyAddedLast(id) ==
    CHOOSE i \in DOMAIN active :
        active[i] = id /\ \A j \in (i + 1)..Len(active) : active[j] # id

\* The first key of that id, and the first lease of that id.
FindKey(id) ==
    CHOOSE i \in DOMAIN active :
        active[i] = id /\ \A j \in 1..(i - 1) : active[j] # id

FindLease(id) ==
    CHOOSE i \in DOMAIN leases :
        leases[i].lease_id = id /\ \A j \in 1..(i - 1) : leases[j].lease_id # id

\* Every handler that succeeds adds one event.
RecordEvent ==
    IF status' = "ok" THEN events < MaxEvents /\ events' = events + 1
    ELSE UNCHANGED events

-----------------------------------------------------------------------------
(* KEY id material *)

AddKeyCheck(id, sizeValid) ==
    IF ~sizeValid THEN "limit"
    ELSE IF id \in KeyIdsIn(active) THEN "invalid_state" ELSE "ok"

AddKey(id, sizeValid) ==
    /\ status' = AddKeyCheck(id, sizeValid)
    /\ active' = IF status' = "ok" THEN Append(active, id) ELSE active
    /\ Len(active') <= MaxKeys
    /\ RecordEvent
    /\ UNCHANGED <<retired, leases, history, selected, lines, epoch, freed>>

-----------------------------------------------------------------------------
(* ROTATE old new material: the old key goes on the retired list and stays  *)
(* on the active one.  Nothing looks whether the new id is taken.           *)

RotateCheck(old, sizeValid) ==
    IF ~sizeValid THEN "limit"
    ELSE IF old \notin KeyIdsIn(active) THEN "not_found" ELSE "ok"

\* Mutant: the new key takes the place of the old one.
RotateKeyInPlace(old, new, sizeValid) ==
    /\ status' = RotateCheck(old, sizeValid)
    /\ IF status' = "ok"
       THEN /\ active' = [active EXCEPT ![FindKey(old)] = new]
            /\ retired' = Append(retired, FindKey(old))
       ELSE UNCHANGED <<active, retired>>
    /\ RecordEvent
    /\ UNCHANGED <<leases, history, selected, lines, epoch, freed>>

RotateKey(old, new, sizeValid) ==
    /\ status' = RotateCheck(old, sizeValid)
    /\ IF status' = "ok"
       THEN /\ active' = Append(active, new)
            /\ retired' = Append(retired, FindKey(old))
       ELSE UNCHANGED <<active, retired>>
    /\ Len(active') <= MaxKeys
    /\ RecordEvent
    /\ UNCHANGED <<leases, history, selected, lines, epoch, freed>>

-----------------------------------------------------------------------------
(* KEYLEASE lease key scope *)

\* Mutant: the reserved identifier is accepted.
LeaseCheckReserved(lease, key, scopeValid) ==
    IF ~scopeValid THEN "limit"
    ELSE IF lease \in LeaseIdsIn(leases) THEN "invalid_state"
    ELSE IF key \notin KeyIdsIn(active) THEN "not_found" ELSE "ok"

LeaseCheck(lease, key, scopeValid) ==
    IF lease = NoLease \/ ~scopeValid THEN "limit"
    ELSE IF lease \in LeaseIdsIn(leases) THEN "invalid_state"
    ELSE IF key \notin KeyIdsIn(active) THEN "not_found" ELSE "ok"

GrantLease(lease, key) ==
    /\ leases' = Append(leases, [lease_id |-> lease, key_id |-> key,
                                 issued_epoch |-> epoch, released_epoch |-> 0,
                                 active |-> TRUE])
    /\ selected' = lease
    /\ history' = Append(history, [what |-> "lease", lease_id |-> lease])

LeaseKey(lease, key, scopeValid) ==
    /\ status' = LeaseCheck(lease, key, scopeValid)
    /\ IF status' = "ok" THEN GrantLease(lease, key)
       ELSE UNCHANGED <<leases, selected, history>>
    /\ RecordEvent
    /\ UNCHANGED <<active, retired, lines, epoch, freed>>

-----------------------------------------------------------------------------
(* KEYRELEASE lease: the release is stamped with epoch plus event count.    *)

ReleaseCheck(lease) ==
    IF lease \notin LeaseIdsIn(leases) THEN "not_found"
    ELSE IF ~leases[FindLease(lease)].active THEN "invalid_state" ELSE "ok"

\* Mutant: the release is not written to the history.
EndLeaseUnrecorded(lease) ==
    /\ leases' = [leases EXCEPT ![FindLease(lease)] =
                     [@ EXCEPT !.active = FALSE,
                               !.released_epoch = epoch + events]]
    /\ selected' = lease
    /\ UNCHANGED history

EndLease(lease) ==
    /\ leases' = [leases EXCEPT ![FindLease(lease)] =
                     [@ EXCEPT !.active = FALSE,
                               !.released_epoch = epoch + events]]
    /\ selected' = lease
    /\ history' = Append(history, [what |-> "release", lease_id |-> lease])

ReleaseKey(lease) ==
    /\ status' = ReleaseCheck(lease)
    /\ IF status' = "ok" THEN EndLease(lease)
       ELSE UNCHANGED <<leases, selected, history>>
    /\ RecordEvent
    /\ UNCHANGED <<active, retired, lines, epoch, freed>>

-----------------------------------------------------------------------------
(* KEYAUDIT view: the lines are emptied before the view is looked at.       *)

\* Mutant: released leases count.
LeaseCount(key) == Cardinality({i \in DOMAIN leases : leases[i].key_id = key})

ActiveLeaseCount(key) ==
    Cardinality({i \in DOMAIN leases : leases[i].key_id = key /\ leases[i].active})

AuditLines(view) ==
    CASE view = "active"  -> [i \in DOMAIN active |->
                                 [key |-> active[i],
                                  leases |-> ActiveLeaseCount(active[i])]]
      [] view = "leases"  -> leases
      [] view = "history" -> history
      [] OTHER            -> <<>>

AuditKeyring(view) ==
    /\ lines' = IF view = "" THEN lines ELSE AuditLines(view)
    /\ status' = CASE view = ""                                  -> "limit"
                   [] view \notin {"active", "leases", "history"} -> "unsupported"
                   [] lines' = <<>>                              -> "invalid_state"
                   [] OTHER                                      -> "ok"
    /\ RecordEvent
    /\ UNCHANGED <<active, retired, leases, history, selected, epoch, freed>>

-----------------------------------------------------------------------------
(* What the rest of the journal does to the keyring: DOC and other commands *)
(* raise the event count, some of them the epoch.                           *)

OtherCommand(epochs) ==
    /\ epoch' = epoch + epochs
    /\ status' = "ok"
    /\ RecordEvent
    /\ UNCHANGED <<active, retired, leases, history, selected, lines, freed>>

-----------------------------------------------------------------------------
(* Store::~Store, after the last command: both lists are deleted.  Deleting *)
(* a key again may go unnoticed or take the process down.                   *)

Deletions(i) == 1 + Cardinality({k \in DOMAIN retired : retired[k] = i})

DestroyStore ==
    /\ status \in Outcomes
    /\ freed' = [i \in DOMAIN active |-> Deletions(i)]
    /\ status' \in IF \A i \in DOMAIN active : freed'[i] = 1
                   THEN {"ended"} ELSE {"ended", "crash"}
    /\ UNCHANGED <<active, retired, leases, history, selected, lines, epoch,
                   events>>

-----------------------------------------------------------------------------
Command ==
    \/ \E id \in KeyIds, sizeValid \in BOOLEAN : AddKey(id, sizeValid)
    \/ \E old, new \in KeyIds, sizeValid \in BOOLEAN :
          RotateKey(old, new, sizeValid)
    \/ \E lease \in LeaseIds \cup {NoLease}, key \in KeyIds,
          scopeValid \in BOOLEAN : LeaseKey(lease, key, scopeValid)
    \/ \E lease \in LeaseIds \cup {NoLease} : ReleaseKey(lease)
    \/ \E view \in {"active", "leases", "history", "mystery", ""} :
          AuditKeyring(view)
    \/ \E epochs \in {0, 1} : OtherCommand(epochs)

Next == (Continues(status) /\ Command) \/ DestroyStore

Spec == Init /\ [][Next]_vars

-----------------------------------------------------------------------------
(* Every variable of the keyring keeps its type; a retired key is one of    *)
(* the active ones.                                                         *)
TypeOK ==
    /\ active \in Seq(KeyIds)
    /\ retired \in Seq(1..Len(active))
    /\ leases \in Seq(Lease)
    /\ history \in Seq(Record)
    /\ selected \in LeaseIds \cup {NoLease}
    /\ epoch \in Nat
    /\ events \in Nat
    /\ status \in Outcomes \cup {"ended", "crash"}

(* No lease identifier is given out twice, also after its release, and the  *)
(* key of every lease can still be found, whatever was rotated since.       *)
LeasesFindable ==
    /\ \A i, j \in 1..Len(leases) :
          leases[i].lease_id = leases[j].lease_id => i = j
    /\ \A i \in 1..Len(leases) : \E k \in 1..Len(active) :
          active[k] = leases[i].key_id

(* A lease is released after it was issued, by the epochs it records: the   *)
(* release adds the event count to the epoch, the issue does not.           *)
ReleaseAfterIssue ==
    \A i \in 1..Len(leases) :
        /\ leases[i].issued_epoch <= epoch
        /\ ~leases[i].active =>
              leases[i].issued_epoch < leases[i].released_epoch

\* Where the history speaks of a grant, and of a release, of a lease.
Told(what, id) ==
    {k \in DOMAIN history : history[k].what = what /\ history[k].lease_id = id}

(* The history tells the state of every lease, and of no other: it was      *)
(* granted once, in the order of the leases, and released once after that   *)
(* if it is no longer active, and not at all if it is.                      *)
HistoryTellsLeases ==
    /\ \A k \in DOMAIN history : history[k].lease_id \in LeaseIdsIn(leases)
    /\ \A i \in DOMAIN leases : \E k \in DOMAIN history :
          /\ Told("lease", leases[i].lease_id) = {k}
          /\ IF leases[i].active
             THEN Told("release", leases[i].lease_id) = {}
             ELSE \E r \in DOMAIN history :
                     k < r /\ Told("release", leases[i].lease_id) = {r}
    /\ \A i, j \in DOMAIN leases : i < j =>
          \A k \in Told("lease", leases[i].lease_id),
             l \in Told("lease", leases[j].lease_id) : k < l

\* A key behind another of its id, given out by a rotation that did not look.
Shadowed(i) == \E j \in 1..(i - 1) : active[j] = active[i]

\* An audit counts, over its lines, no fewer leases than there are active
\* ones, and no more unless a key is shadowed.
AuditAccounts ==
    AuditKeyring("active") /\ status' = "ok" =>
        LET counted == Cardinality({p \in (1..Len(lines')) \X (1..Len(leases)) :
                                       p[2] <= lines'[p[1]].leases})
            granted == Cardinality({i \in DOMAIN leases : leases[i].active})
        IN  /\ counted >= granted
            /\ (\A i \in DOMAIN active : ~Shadowed(i)) => counted = granted

(* KEYAUDIT active misses no active lease, whatever was rotated, and counts *)
(* none twice unless a rotation gave an identifier out again.               *)
AuditAccountsForLeases == [][AuditAccounts]_vars

(* A lease, once released, is not touched again, and no lease is dropped.   *)
ReleasedForGood ==
    [][/\ Len(leases') >= Len(leases)
       /\ \A i \in 1..Len(leases) :
             ~leases[i].active => leases'[i] = leases[i]]_vars

\* The rotations that named the identifier a key has.
RotationsNaming(i) == {k \in DOMAIN retired : active[retired[k]] = active[i]}

(* How often ~Store deletes a key, after any rotations: all that named its  *)
(* identifier hit the key that had it first, also when a rotation gave the  *)
(* identifier out again; a shadowed key is deleted once.  Every deletion    *)
(* too many has a replacement behind it: a key is not deleted more often    *)
(* than there are keys from it on, and the last of them once.               *)
DeletionsFollowRotations ==
    \A i \in DOMAIN freed :
        /\ freed[i] = IF Shadowed(i) THEN 1
                      ELSE 1 + Cardinality(RotationsNaming(i))
        /\ freed[i] <= Len(active) - i + 1

(* A journal with a rotation ends well (archive-07 and archive-19 of        *)
(* archive_replay_tests.cpp expect ok): no key is deleted twice.            *)
EndsWithoutCrash == status # "crash"

=============================================================================
