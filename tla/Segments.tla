------------------------------ MODULE Segments ------------------------------
(***************************************************************************)
(* Journal segments (src/src/wal.cpp): SEGMENT opens a segment and says    *)
(* how many entries it will have, ENTRY appends one, SEALSEG closes the    *)
(* segment for good and REPLAY plays a sealed segment into the store.      *)
(*                                                                         *)
(* Abstracted: the bytes of kinds and payloads (an entry is told apart by  *)
(* its kind and payload, valid or not) and the hashes.  A seal or replay   *)
(* digest is an injective function of what the code hashes into it.  The   *)
(* per-entry checksum and digest are functions of the entry and of         *)
(* last_digest; nothing reads them back, and they are left out.            *)
(***************************************************************************)
EXTENDS Naturals, Sequences, Common

CONSTANTS
    Ids,          \* valid segment identifiers (the code: any but 0)
    NoId,         \* the reserved identifier 0
    Kinds,        \* kinds valid_segment_kind accepts
    Payloads,     \* payloads of at most 8192 bytes
    BadKind,      \* a kind valid_segment_kind refuses
    BadPayload,   \* a payload of more than 8192 bytes
    EntryLimit,   \* most entries a segment may declare (the code: 512)
    MaxHistory    \* bound of the model: seals and replays of one journal

ASSUME SegmentConstants ==
    /\ NoId \notin Ids
    /\ BadKind \notin Kinds
    /\ BadPayload \notin Payloads
    /\ EntryLimit \in Nat
    /\ MaxHistory \in Nat

VARIABLES
    open,         \* SegmentState.open
    active,       \* SegmentState.active_segment
    expected,     \* SegmentState.expected_entries
    sequence,     \* SegmentState.sequence
    pending,      \* SegmentState.pending
    positions,    \* SegmentState.positions: ordinal |-> index in pending
    sealed,       \* SegmentState.sealed
    history,      \* SegmentState.replay_history, digests of seals and replays
    effects,      \* the markers REPLAY pushes on Store.events
    epoch         \* Store.epoch

openVars == <<open, active, expected, sequence, pending, positions>>
vars == <<openVars, sealed, history, effects, epoch, status>>

Entry == [ordinal : Nat, kind : Kinds, payload : Payloads]

\* The image of a segment; seal_digest stands in "history".
Image == [segment_id : Ids, expected_entries : Nat, entries : Seq(Entry)]

Init ==
    /\ open = FALSE
    /\ active = NoId
    /\ expected = 0
    /\ sequence = 0
    /\ pending = <<>>
    /\ positions = [ordinal \in {} |-> 0]
    /\ sealed = <<>>
    /\ history = <<>>
    /\ effects = <<>>
    /\ epoch = 0
    /\ status = "ok"

ImageIds(images) == {images[i].segment_id : i \in DOMAIN images}

\* find_segment: the first image of that identifier.
FindImage(images, id) ==
    images[CHOOSE i \in DOMAIN images :
               /\ images[i].segment_id = id
               /\ \A j \in 1..(i - 1) : images[j].segment_id # id]

SealedIds == ImageIds(sealed)

FindSegment(id) == FindImage(sealed, id)

\* Mutant: the digest is seeded with the epoch the replay happens at.
DigestWithEpoch(op, image) == <<op, image.segment_id, image.entries, epoch>>

\* summarize_segment, and the digest loop of replay_segment.
Digest(op, image) == <<op, image.segment_id, image.entries>>

\* What the entries of a segment are once replayed.
Items(entries) ==
    [i \in DOMAIN entries |->
        [kind |-> entries[i].kind, payload |-> entries[i].payload]]

-----------------------------------------------------------------------------
(* SEGMENT id count *)

\* Mutant: the reserved identifier is accepted.
BeginCheckReserved(id, count) ==
    IF count = 0 \/ count > EntryLimit THEN "limit"
    ELSE IF open \/ id \in SealedIds THEN "invalid_state" ELSE "ok"

BeginCheck(id, count) ==
    CASE id = NoId \/ count = 0 \/ count > EntryLimit -> "limit"
      [] OTHER -> IF open \/ id \in SealedIds THEN "invalid_state" ELSE "ok"

\* Mutant: the sequence of the segment before goes on.
OpenSegmentKeepsSequence(id, count) ==
    /\ open' = TRUE
    /\ active' = id
    /\ expected' = count
    /\ pending' = <<>>
    /\ positions' = [ordinal \in {} |-> 0]
    /\ UNCHANGED sequence

OpenSegment(id, count) ==
    /\ open' = TRUE
    /\ active' = id
    /\ expected' = count
    /\ sequence' = 0
    /\ pending' = <<>>
    /\ positions' = [ordinal \in {} |-> 0]

BeginSegment(id, count) ==
    /\ Continues(status)
    /\ status' = BeginCheck(id, count)
    /\ IF status' = "ok" THEN OpenSegment(id, count) ELSE UNCHANGED openVars
    /\ UNCHANGED <<sealed, history, effects, epoch>>

-----------------------------------------------------------------------------
(* ENTRY kind payload *)

AppendCheck(kind, payload) ==
    IF ~open THEN "invalid_state"
    ELSE IF \/ kind \notin Kinds \/ payload \notin Payloads
            \/ Len(pending) >= expected
         THEN "limit" ELSE "ok"

PushEntry(kind, payload) ==
    /\ sequence' = sequence + 1
    /\ pending' = Append(pending, [ordinal |-> sequence, kind |-> kind,
                                   payload |-> payload])
    /\ positions' = [ordinal \in DOMAIN positions \cup {sequence} |->
                        IF ordinal = sequence THEN Len(pending)
                        ELSE positions[ordinal]]

AppendSegment(kind, payload) ==
    /\ Continues(status)
    /\ status' = AppendCheck(kind, payload)
    /\ IF status' = "ok" THEN PushEntry(kind, payload)
       ELSE UNCHANGED <<sequence, pending, positions>>
    /\ UNCHANGED <<open, active, expected, sealed, history, effects, epoch>>

-----------------------------------------------------------------------------
(* SEALSEG *)

\* Mutant: an incomplete segment is sealed.
SealCheckPartial == IF open THEN "ok" ELSE "invalid_state"

SealCheck ==
    IF open /\ Len(pending) = expected THEN "ok" ELSE "invalid_state"

\* clear_open_segment: sequence and positions stay until the next SEGMENT.
ClearOpenSegment ==
    /\ open' = FALSE
    /\ active' = NoId
    /\ expected' = 0
    /\ pending' = <<>>
    /\ UNCHANGED <<sequence, positions>>

PushImage ==
    LET image == [segment_id |-> active, expected_entries |-> expected,
                  entries |-> pending]
    IN  /\ sealed' = Append(sealed, image)
        /\ history' = Append(history, Digest("seal", image))

SealSegment ==
    /\ Continues(status)
    /\ Len(history) < MaxHistory
    /\ status' = SealCheck
    /\ IF status' = "ok" THEN PushImage /\ ClearOpenSegment
       ELSE UNCHANGED <<sealed, history, openVars>>
    /\ UNCHANGED <<effects, epoch>>

-----------------------------------------------------------------------------
(* REPLAY id *)

ReplayCheck(id) ==
    IF id \notin SealedIds THEN "not_found"
    ELSE IF FindSegment(id).entries = <<>> THEN "invalid_state" ELSE "ok"

\* Mutant: the epoch moves once for the whole segment.
MaterializeOnce(image) ==
    /\ effects' = effects \o Items(image.entries)
    /\ epoch' = epoch + 1
    /\ history' = Append(history, Digest("replay", image))

\* materialize_segment_effect for each entry, then the history record.
Materialize(image) ==
    /\ effects' = effects \o Items(image.entries)
    /\ epoch' = epoch + Len(image.entries)
    /\ history' = Append(history, Digest("replay", image))

ReplaySegment(id) ==
    /\ Continues(status)
    /\ Len(history) < MaxHistory
    /\ status' = ReplayCheck(id)
    /\ IF status' = "ok" THEN Materialize(FindSegment(id))
       ELSE UNCHANGED <<effects, epoch, history>>
    /\ UNCHANGED <<openVars, sealed>>

-----------------------------------------------------------------------------
Next ==
    \/ \E id \in Ids \cup {NoId}, count \in 0..(EntryLimit + 1) :
          BeginSegment(id, count)
    \/ \E kind \in Kinds \cup {BadKind}, payload \in Payloads \cup {BadPayload} :
          AppendSegment(kind, payload)
    \/ SealSegment
    \/ \E id \in Ids \cup {NoId} : ReplaySegment(id)

Spec == Init /\ [][Next]_vars

-----------------------------------------------------------------------------
(* Every variable of the component keeps its type: the state of an open    *)
(* segment, the images and the outcome of the last handler.                *)
TypeOK ==
    /\ open \in BOOLEAN
    /\ active \in Ids \cup {NoId}
    /\ expected \in Nat
    /\ sequence \in Nat
    /\ pending \in Seq(Entry)
    /\ DOMAIN positions \subseteq Nat
    /\ \A ordinal \in DOMAIN positions : positions[ordinal] \in Nat
    /\ sealed \in Seq(Image)
    /\ effects \in Seq([kind : Kinds, payload : Payloads])
    /\ epoch \in Nat
    /\ status \in Outcomes

(* Ordinals handed out by append_segment count the entries of the open     *)
(* segment from zero with no gap, and positions names each entry's place:  *)
(* nothing of an earlier segment leaks into the one being written, although *)
(* sealing leaves sequence and positions as they were.                     *)
OpenConsistent ==
    open =>
        /\ active \in Ids \ SealedIds
        /\ expected \in 1..EntryLimit
        /\ Len(pending) <= expected
        /\ sequence = Len(pending)
        /\ DOMAIN positions = 0..(sequence - 1)
        /\ \A i \in 1..Len(pending) :
              /\ pending[i].ordinal = i - 1
              /\ positions[i - 1] = i - 1

(* A segment found by REPLAY is whole: as many entries as SEGMENT declared, *)
(* at least one, numbered from zero in order.                              *)
SealedComplete ==
    \A i \in 1..Len(sealed) :
        /\ Len(sealed[i].entries) = sealed[i].expected_entries
        /\ sealed[i].expected_entries \in 1..EntryLimit
        /\ \A k \in 1..Len(sealed[i].entries) :
              sealed[i].entries[k].ordinal = k - 1

(* No two sealed segments share an identifier, so find_segment's first     *)
(* match is the only one.                                                  *)
SealedUnique ==
    \A i, j \in 1..Len(sealed) :
        sealed[i].segment_id = sealed[j].segment_id => i = j

(* A replay digest depends on the sealed segment alone: replaying the same  *)
(* segment again, whatever happened in between, gives the same digest.     *)
ReplayDeterministic ==
    \A i, j \in DOMAIN history :
        history[i][1] = "replay" /\ history[j][1] = "replay"
            /\ history[i][2] = history[j][2] => history[i] = history[j]

(* A segment, once sealed, is never changed, moved or dropped.             *)
SealedForGood ==
    [][/\ Len(sealed') >= Len(sealed)
       /\ \A i \in 1..Len(sealed) : sealed'[i] = sealed[i]]_vars

(* A segment command that fails leaves no trace in the store: the checks of *)
(* each handler precede its first assignment.                              *)
FailuresLeaveNoTrace ==
    [][status' \in Fatal
          => UNCHANGED <<openVars, sealed, history, effects, epoch>>]_vars

(* The component implements SegmentLog: the sealed images are its segments. *)
Log == INSTANCE SegmentLog WITH
    log <- [id \in SealedIds |-> Items(FindSegment(id).entries)]

Implements == Log!Spec
=============================================================================
