--------------------------- MODULE SegmentsProofs ---------------------------
(* Proofs about Segments, for any set of identifiers, kinds and payloads    *)
(* and any entry limit.                                                     *)
EXTENDS Segments, SequenceTheorems, TLAPS

Inv == TypeOK /\ OpenConsistent /\ SealedComplete /\ SealedUnique

-----------------------------------------------------------------------------
(* Extending a sequence by one element: its length, its last element, and  *)
(* the elements that were already there.                                   *)
LEMMA AppendFacts ==
    ASSUME NEW S, NEW s \in Seq(S), NEW e \in S
    PROVE  /\ Append(s, e) \in Seq(S)
           /\ Len(Append(s, e)) = Len(s) + 1
           /\ Append(s, e)[Len(s) + 1] = e
           /\ \A i \in 1..Len(s) : Append(s, e)[i] = s[i]
OBVIOUS

(* A function on 1..n is a sequence. *)
LEMMA FunctionIsSeq ==
    ASSUME NEW S, NEW n \in Nat, NEW f \in [1..n -> S]
    PROVE  f \in Seq(S) /\ Len(f) = n
<1>1. f \in UNION {[1..m -> S] : m \in Nat}
  OBVIOUS
<1>2. f \in Seq(S)
  BY <1>1, SeqDef, Zenon
<1> QED
  BY <1>2, LenProperties

UniqueIds(images) ==
    \A i, j \in 1..Len(images) :
        images[i].segment_id = images[j].segment_id => i = j

(* With unique identifiers, find_segment returns the image it is asked for. *)
LEMMA FindImageOf ==
    ASSUME NEW images \in Seq(Image), UniqueIds(images),
           NEW i \in 1..Len(images)
    PROVE  FindImage(images, images[i].segment_id) = images[i]
<1> DEFINE id == images[i].segment_id
           P(j) == /\ images[j].segment_id = id
                   /\ \A k \in 1..(j - 1) : images[k].segment_id # id
<1>1. DOMAIN images = 1..Len(images)
  OBVIOUS
<1>2. P(i)
  BY DEF UniqueIds
<1>3. \A j \in DOMAIN images : P(j) => j = i
  BY <1>1 DEF UniqueIds
<1> HIDE DEF P
<1>4. (CHOOSE j \in DOMAIN images : P(j)) = i
  BY <1>1, <1>2, <1>3
<1> QED
  BY <1>4 DEF FindImage, P

(* The identifiers of a sequence of images, by position. *)
LEMMA ImageIdsAre ==
    ASSUME NEW images \in Seq(Image)
    PROVE  ImageIds(images) = {images[i].segment_id : i \in 1..Len(images)}
BY DEF ImageIds

LEMMA SealedIdsAre ==
    ASSUME TypeOK
    PROVE  SealedIds = {sealed[i].segment_id : i \in 1..Len(sealed)}
BY ImageIdsAre DEF TypeOK, SealedIds

LEMMA FindSegmentOf ==
    ASSUME TypeOK, SealedUnique, NEW i \in 1..Len(sealed)
    PROVE  FindSegment(sealed[i].segment_id) = sealed[i]
BY FindImageOf DEF TypeOK, SealedUnique, UniqueIds, FindSegment

-----------------------------------------------------------------------------
LEMMA InitInv == Init => Inv
<1> SUFFICES ASSUME Init PROVE Inv
  OBVIOUS
<1>1. /\ <<>> \in Seq(Entry) /\ <<>> \in Seq(Image)
      /\ <<>> \in Seq([kind : Kinds, payload : Payloads])
  OBVIOUS
<1>2. TypeOK
  BY <1>1 DEF Init, TypeOK, Outcomes
<1> QED
  BY <1>2 DEF Init, Inv, OpenConsistent, SealedComplete, SealedUnique

(* Steps that leave the segment state alone keep the invariant on it. *)
LEMMA UnchangedInv ==
    ASSUME Inv, UNCHANGED <<openVars, sealed>>
    PROVE  OpenConsistent' /\ SealedComplete' /\ SealedUnique'
BY DEF Inv, openVars, OpenConsistent, SealedComplete, SealedUnique, SealedIds,
       ImageIds

LEMMA BeginInv ==
    ASSUME Inv, NEW id \in Ids \cup {NoId}, NEW count \in 0..(EntryLimit + 1),
           BeginSegment(id, count)
    PROVE  Inv'
<1> USE SegmentConstants
<1>1. BeginCheck(id, count) \in Outcomes
  BY DEF BeginCheck, Outcomes
<1>2. CASE BeginCheck(id, count) = "ok"
  <2>1. id # NoId /\ count # 0 /\ count <= EntryLimit /\ id \notin SealedIds
    BY <1>2 DEF BeginCheck
  <2>2. OpenSegment(id, count) /\ UNCHANGED <<sealed, history, effects, epoch>>
    BY <1>2 DEF BeginSegment
  <2>3. TypeOK'
    BY <1>1, <2>1, <2>2 DEF Inv, TypeOK, BeginSegment, OpenSegment
  <2>4. OpenConsistent'
    BY <2>1, <2>2 DEF OpenSegment, OpenConsistent, SealedIds
  <2>5. SealedComplete' /\ SealedUnique'
    BY <2>2 DEF Inv, SealedComplete, SealedUnique
  <2> QED
    BY <2>3, <2>4, <2>5 DEF Inv
<1>3. CASE BeginCheck(id, count) # "ok"
  <2>1. UNCHANGED <<openVars, sealed, history, effects, epoch>>
    BY <1>3 DEF BeginSegment
  <2>2. TypeOK'
    BY <1>1, <2>1 DEF Inv, TypeOK, BeginSegment, openVars
  <2> QED
    BY <2>1, <2>2, UnchangedInv DEF Inv
<1> QED
  BY <1>2, <1>3

LEMMA AppendInv ==
    ASSUME Inv, NEW kind \in Kinds \cup {BadKind},
           NEW payload \in Payloads \cup {BadPayload},
           AppendSegment(kind, payload)
    PROVE  Inv'
<1>1. AppendCheck(kind, payload) \in Outcomes
  BY DEF AppendCheck, Outcomes
<1>2. CASE AppendCheck(kind, payload) = "ok"
  <2> DEFINE e == [ordinal |-> sequence, kind |-> kind, payload |-> payload]
  <2>1. open /\ kind \in Kinds /\ payload \in Payloads /\ ~(Len(pending) >= expected)
    BY <1>2 DEF AppendCheck
  <2>2. /\ PushEntry(kind, payload)
        /\ UNCHANGED <<open, active, expected, sealed, history, effects, epoch>>
    BY <1>2 DEF AppendSegment
  <2>3. /\ sequence' = sequence + 1
        /\ pending' = Append(pending, e)
        /\ positions' = [ordinal \in DOMAIN positions \cup {sequence} |->
                           IF ordinal = sequence THEN Len(pending)
                           ELSE positions[ordinal]]
    BY <2>2 DEF PushEntry
  <2>4. /\ pending \in Seq(Entry) /\ e \in Entry /\ sequence \in Nat
        /\ sequence = Len(pending) /\ DOMAIN positions = 0..(sequence - 1)
    BY <2>1 DEF Inv, TypeOK, OpenConsistent, Entry
  <2>5. /\ pending' \in Seq(Entry)
        /\ Len(pending') = Len(pending) + 1
        /\ pending'[Len(pending) + 1] = e
        /\ \A i \in 1..Len(pending) : pending'[i] = pending[i]
    BY <2>3, <2>4, AppendFacts
  <2>6. TypeOK'
    <3>1. DOMAIN positions' \subseteq Nat /\ \A o \in DOMAIN positions' : positions'[o] \in Nat
      BY <2>3, <2>4 DEF Inv, TypeOK
    <3> QED
      BY <1>1, <2>2, <2>3, <2>4, <2>5, <3>1 DEF Inv, TypeOK, AppendSegment
  <2>7. OpenConsistent'
    <3>1. active' \in Ids \ SealedIds' /\ expected' \in 1..EntryLimit
      BY <2>1, <2>2 DEF Inv, OpenConsistent, SealedIds
    <3>2. Len(pending') <= expected'
      BY <2>1, <2>2, <2>5, <2>4 DEF Inv, TypeOK, OpenConsistent
    <3>3. sequence' = Len(pending') /\ DOMAIN positions' = 0..(sequence' - 1)
      BY <2>3, <2>4, <2>5
    <3>4. \A i \in 1..Len(pending') :
             pending'[i].ordinal = i - 1 /\ positions'[i - 1] = i - 1
      <4> SUFFICES ASSUME NEW i \in 1..Len(pending')
                   PROVE  pending'[i].ordinal = i - 1 /\ positions'[i - 1] = i - 1
        OBVIOUS
      <4>1. CASE i = Len(pending) + 1
        BY <4>1, <2>3, <2>4, <2>5
      <4>2. CASE i \in 1..Len(pending)
        <5>1. pending[i].ordinal = i - 1 /\ positions[i - 1] = i - 1
          BY <2>1, <4>2 DEF Inv, OpenConsistent
        <5> QED
          BY <5>1, <4>2, <2>3, <2>4, <2>5
      <4> QED
        BY <4>1, <4>2, <2>4, <2>5
    <3> QED
      BY <3>1, <3>2, <3>3, <3>4 DEF OpenConsistent
  <2>8. SealedComplete' /\ SealedUnique'
    BY <2>2 DEF Inv, SealedComplete, SealedUnique
  <2> QED
    BY <2>6, <2>7, <2>8 DEF Inv
<1>3. CASE AppendCheck(kind, payload) # "ok"
  <2>1. UNCHANGED <<openVars, sealed, history, effects, epoch>>
    BY <1>3 DEF AppendSegment, openVars
  <2>2. TypeOK'
    BY <1>1, <2>1 DEF Inv, TypeOK, AppendSegment, openVars
  <2> QED
    BY <2>1, <2>2, UnchangedInv DEF Inv
<1> QED
  BY <1>2, <1>3

LEMMA SealInv ==
    ASSUME Inv, SealSegment
    PROVE  Inv'
<1>1. SealCheck \in Outcomes
  BY DEF SealCheck, Outcomes
<1>2. CASE SealCheck = "ok"
  <2> DEFINE image == [segment_id |-> active, expected_entries |-> expected,
                       entries |-> pending]
  <2>1. open /\ Len(pending) = expected
    BY <1>2 DEF SealCheck
  <2>2. /\ sealed' = Append(sealed, image)
        /\ open' = FALSE /\ active' = NoId /\ expected' = 0 /\ pending' = <<>>
        /\ UNCHANGED <<sequence, positions, effects, epoch>>
    BY <1>2 DEF SealSegment, PushImage, ClearOpenSegment
  <2>3. image \in Image /\ sealed \in Seq(Image)
    BY <2>1 DEF Inv, TypeOK, OpenConsistent, Image
  <2>4. /\ sealed' \in Seq(Image)
        /\ Len(sealed') = Len(sealed) + 1
        /\ sealed'[Len(sealed) + 1] = image
        /\ \A i \in 1..Len(sealed) : sealed'[i] = sealed[i]
    BY <2>2, <2>3, AppendFacts
  <2>5. TypeOK'
    <3>1. <<>> \in Seq(Entry)
      OBVIOUS
    <3> QED
      BY <1>1, <2>2, <2>4, <3>1 DEF Inv, TypeOK, SealSegment
  <2>6. OpenConsistent'
    BY <2>2 DEF OpenConsistent
  <2>7. SealedComplete'
    <3>1. /\ Len(image.entries) = image.expected_entries
          /\ image.expected_entries \in 1..EntryLimit
          /\ \A k \in 1..Len(image.entries) : image.entries[k].ordinal = k - 1
      BY <2>1 DEF Inv, OpenConsistent
    <3> HIDE DEF image
    <3> SUFFICES ASSUME NEW i \in 1..Len(sealed')
                 PROVE /\ Len(sealed'[i].entries) = sealed'[i].expected_entries
                       /\ sealed'[i].expected_entries \in 1..EntryLimit
                       /\ \A k \in 1..Len(sealed'[i].entries) :
                             sealed'[i].entries[k].ordinal = k - 1
      BY DEF SealedComplete
    <3>2. CASE i = Len(sealed) + 1
      BY <3>1, <3>2, <2>4
    <3>3. CASE i \in 1..Len(sealed)
      BY <3>3, <2>4 DEF Inv, SealedComplete
    <3> QED
      BY <3>2, <3>3, <2>3, <2>4
  <2>8. SealedUnique'
    <3>1. \A i \in 1..Len(sealed) : sealed[i].segment_id # active
      BY <2>1, SealedIdsAre DEF Inv, OpenConsistent
    <3>2. image.segment_id = active
      OBVIOUS
    <3> HIDE DEF image
    <3> SUFFICES ASSUME NEW i \in 1..Len(sealed'), NEW j \in 1..Len(sealed'),
                        sealed'[i].segment_id = sealed'[j].segment_id
                 PROVE  i = j
      BY DEF SealedUnique
    <3>3. CASE i \in 1..Len(sealed) /\ j \in 1..Len(sealed)
      BY <3>3, <2>4 DEF Inv, SealedUnique
    <3>4. CASE i = Len(sealed) + 1 \/ j = Len(sealed) + 1
      BY <3>1, <3>2, <3>4, <2>3, <2>4
    <3> QED
      BY <3>3, <3>4, <2>3, <2>4
  <2> QED
    BY <2>5, <2>6, <2>7, <2>8 DEF Inv
<1>3. CASE SealCheck # "ok"
  <2>1. UNCHANGED <<openVars, sealed, history, effects, epoch>>
    BY <1>3 DEF SealSegment
  <2>2. TypeOK'
    BY <1>1, <2>1 DEF Inv, TypeOK, SealSegment, openVars
  <2> QED
    BY <2>1, <2>2, UnchangedInv DEF Inv
<1> QED
  BY <1>2, <1>3

(* What REPLAY finds is one of the sealed images. *)
LEMMA FoundIsSealed ==
    ASSUME Inv, NEW id \in SealedIds
    PROVE  \E i \in 1..Len(sealed) :
              sealed[i].segment_id = id /\ FindSegment(id) = sealed[i]
<1>1. PICK i \in 1..Len(sealed) : sealed[i].segment_id = id
  BY SealedIdsAre DEF Inv
<1> QED
  BY <1>1, FindSegmentOf DEF Inv

(* The items of a whole segment are what SegmentLog calls its contents. *)
LEMMA ItemsOf ==
    ASSUME NEW es \in Seq(Entry), Len(es) \in 1..EntryLimit
    PROVE  /\ Items(es) \in Log!Contents
           /\ Items(es) \in Seq([kind : Kinds, payload : Payloads])
           /\ Len(Items(es)) = Len(es)
<1>1. Items(es) \in [1..Len(es) -> [kind : Kinds, payload : Payloads]]
  <2>1. DOMAIN es = 1..Len(es) /\ \A k \in 1..Len(es) : es[k] \in Entry
    OBVIOUS
  <2> QED
    BY <2>1 DEF Items, Entry
<1>2. /\ Items(es) \in Seq([kind : Kinds, payload : Payloads])
      /\ Len(Items(es)) = Len(es)
  <2>1. Len(es) \in Nat
    OBVIOUS
  <2> QED
    BY <1>1, <2>1, FunctionIsSeq, Zenon
<1>3. Items(es) \in Log!Contents
  BY <1>1, SegmentConstants DEF Log!Contents, Log!Item
<1> QED
  BY <1>2, <1>3

LEMMA ItemsAreContents ==
    ASSUME Inv, NEW id \in SealedIds
    PROVE  /\ FindSegment(id).entries \in Seq(Entry)
           /\ Len(FindSegment(id).entries) \in 1..EntryLimit
           /\ Items(FindSegment(id).entries) \in Log!Contents
           /\ Items(FindSegment(id).entries) \in Seq([kind : Kinds, payload : Payloads])
           /\ Len(Items(FindSegment(id).entries)) = Len(FindSegment(id).entries)
<1>1. FindSegment(id).entries \in Seq(Entry)
      /\ Len(FindSegment(id).entries) \in 1..EntryLimit
  <2>1. PICK i \in 1..Len(sealed) : FindSegment(id) = sealed[i]
    BY FoundIsSealed
  <2>2. sealed[i] \in Image
    BY DEF Inv, TypeOK
  <2> QED
    BY <2>1, <2>2 DEF Inv, SealedComplete, Image
<1> QED
  BY <1>1, ItemsOf

LEMMA ReplayInv ==
    ASSUME Inv, NEW id \in Ids \cup {NoId}, ReplaySegment(id)
    PROVE  Inv'
<1>1. ReplayCheck(id) \in Outcomes
  BY DEF ReplayCheck, Outcomes
<1>2. UNCHANGED <<openVars, sealed>>
  BY DEF ReplaySegment
<1>3. effects' \in Seq([kind : Kinds, payload : Payloads]) /\ epoch' \in Nat
  <2>1. CASE ReplayCheck(id) = "ok"
    <3> DEFINE es == FindSegment(id).entries
    <3>1. id \in SealedIds
      BY <2>1 DEF ReplayCheck
    <3>2. /\ Len(es) \in 1..EntryLimit
          /\ Items(es) \in Seq([kind : Kinds, payload : Payloads])
      BY <3>1, ItemsAreContents
    <3>4. effects' = effects \o Items(es) /\ epoch' = epoch + Len(es)
      BY <2>1 DEF ReplaySegment, Materialize
    <3> HIDE DEF es
    <3> QED
      BY <3>2, <3>4 DEF Inv, TypeOK
  <2>2. CASE ReplayCheck(id) # "ok"
    BY <2>2 DEF ReplaySegment, Inv, TypeOK
  <2> QED
    BY <2>1, <2>2
<1>4. TypeOK'
  BY <1>1, <1>2, <1>3 DEF Inv, TypeOK, ReplaySegment, openVars
<1> QED
  BY <1>2, <1>4, UnchangedInv DEF Inv

LEMMA NextInv == Inv /\ [Next]_vars => Inv'
<1> SUFFICES ASSUME Inv, [Next]_vars PROVE Inv'
  OBVIOUS
<1>1. ASSUME NEW id \in Ids \cup {NoId}, NEW count \in 0..(EntryLimit + 1),
             BeginSegment(id, count)
      PROVE  Inv'
  BY <1>1, BeginInv
<1>2. ASSUME NEW kind \in Kinds \cup {BadKind},
             NEW payload \in Payloads \cup {BadPayload},
             AppendSegment(kind, payload)
      PROVE  Inv'
  BY <1>2, AppendInv
<1>3. CASE SealSegment
  BY <1>3, SealInv
<1>4. ASSUME NEW id \in Ids \cup {NoId}, ReplaySegment(id)
      PROVE  Inv'
  BY <1>4, ReplayInv
<1>5. CASE UNCHANGED vars
  <2>1. TypeOK'
    BY <1>5 DEF Inv, TypeOK, vars, openVars
  <2> QED
    BY <1>5, <2>1, UnchangedInv DEF Inv, vars
<1> QED
  BY <1>1, <1>2, <1>3, <1>4, <1>5 DEF Next

-----------------------------------------------------------------------------
(* Every state of every journal satisfies the invariant: types are kept,    *)
(* the open segment is consistent, sealed segments are whole and unique.    *)
THEOREM Safety == Spec => []Inv
<1>1. Init => Inv
  BY InitInv
<1>2. Inv /\ [Next]_vars => Inv'
  BY NextInv
<1> QED
  BY <1>1, <1>2, PTL DEF Spec

(* Types are kept: the type invariant of Segments holds in every state. *)
THEOREM TypeCorrect == Spec => []TypeOK
<1>1. Inv => TypeOK
  BY DEF Inv
<1> QED
  BY <1>1, Safety, PTL

(* The open segment of wal.cpp is always consistent: contiguous ordinals,   *)
(* positions that point at their entries, never more than was declared.     *)
THEOREM OpenIsConsistent == Spec => []OpenConsistent
<1>1. Inv => OpenConsistent
  BY DEF Inv
<1> QED
  BY <1>1, Safety, PTL

(* Every sealed segment is whole and has an identifier of its own.          *)
THEOREM SealedAreWhole == Spec => [](SealedComplete /\ SealedUnique)
<1>1. Inv => SealedComplete /\ SealedUnique
  BY DEF Inv
<1> QED
  BY <1>1, Safety, PTL

(* Sealing appends; no command changes, moves or drops a sealed segment.    *)
THEOREM SealedIsForGood == Spec => SealedForGood
<1> DEFINE Kept == /\ Len(sealed') >= Len(sealed)
                   /\ \A i \in 1..Len(sealed) : sealed'[i] = sealed[i]
<1>1. Inv /\ [Next]_vars => [Kept]_vars
  <2> SUFFICES ASSUME Inv, [Next]_vars PROVE Kept
    OBVIOUS
  <2>1. sealed \in Seq(Image)
    BY DEF Inv, TypeOK
  <2>2. CASE UNCHANGED sealed
    BY <2>1, <2>2
  <2>3. CASE SealSegment /\ SealCheck = "ok"
    <3>1. sealed' = Append(sealed, [segment_id |-> active,
                         expected_entries |-> expected, entries |-> pending])
      BY <2>3 DEF SealSegment, PushImage
    <3>2. [segment_id |-> active, expected_entries |-> expected,
           entries |-> pending] \in Image
      BY <2>3 DEF SealCheck, Inv, TypeOK, OpenConsistent, Image
    <3> QED
      BY <2>1, <3>1, <3>2, AppendFacts
  <2>4. UNCHANGED sealed \/ (SealSegment /\ SealCheck = "ok")
    BY DEF Next, vars, BeginSegment, AppendSegment, SealSegment, ReplaySegment
  <2> QED
    BY <2>2, <2>3, <2>4
<1>2. Spec => [][Kept]_vars
  BY <1>1, Safety, PTL DEF Spec
<1> QED
  BY <1>2 DEF SealedForGood

(* A segment command that fails changes nothing but the outcome.            *)
THEOREM FailureIsTraceless == Spec => FailuresLeaveNoTrace
<1> DEFINE Traceless == status' \in Fatal
                          => UNCHANGED <<openVars, sealed, history, effects, epoch>>
<1>1. [Next]_vars => [Traceless]_vars
  <2> SUFFICES ASSUME Next, status' \in Fatal
               PROVE  UNCHANGED <<openVars, sealed, history, effects, epoch>>
    OBVIOUS
  <2>1. status' # "ok"
    BY DEF Fatal
  <2> QED
    BY <2>1 DEF Next, BeginSegment, AppendSegment, SealSegment, ReplaySegment,
                openVars
<1>2. Spec => [][Traceless]_vars
  BY <1>1, PTL DEF Spec
<1> QED
  BY <1>2 DEF FailuresLeaveNoTrace

-----------------------------------------------------------------------------
(* Refinement: the state function that stands for SegmentLog's "log". *)
SealedLog == [id \in SealedIds |-> Items(FindSegment(id).entries)]

LEMMA InitRefines == Init => Log!Init
<1> SUFFICES ASSUME Init PROVE Log!Init
  OBVIOUS
<1>1. SealedIds = {}
  BY DEF Init, SealedIds, ImageIds
<1>2. SealedLog = [id \in {} |-> <<>>]
  BY <1>1 DEF SealedLog
<1> QED
  BY <1>2 DEF Init, Log!Init, SealedLog

(* Sealing the open segment is one Commit of what was written to it. *)
LEMMA SealRefines ==
    ASSUME Inv, Inv', SealSegment, SealCheck = "ok"
    PROVE  Log!Commit
<1> DEFINE image == [segment_id |-> active, expected_entries |-> expected,
                     entries |-> pending]
<1>1. open /\ Len(pending) = expected
  BY DEF SealCheck
<1>2. sealed' = Append(sealed, image) /\ UNCHANGED <<effects, epoch>>
  BY DEF SealSegment, PushImage
<1>3. image \in Image /\ sealed \in Seq(Image) /\ active \in Ids \ SealedIds
  BY <1>1 DEF Inv, TypeOK, OpenConsistent, Image
<1>4. /\ Len(sealed') = Len(sealed) + 1
      /\ sealed'[Len(sealed) + 1] = image
      /\ \A i \in 1..Len(sealed) : sealed'[i] = sealed[i]
  BY <1>2, <1>3, AppendFacts
<1>5. image.segment_id = active /\ image.entries = pending
  OBVIOUS
<1>6. sealed' \in Seq(Image) /\ UniqueIds(sealed')
  BY DEF Inv, TypeOK, SealedUnique, UniqueIds
<1>61. FindImage(sealed', active) = image
  BY <1>3, <1>4, <1>5, <1>6, FindImageOf
<1> HIDE DEF image
<1>7. SealedIds' = SealedIds \cup {active}
  BY <1>3, <1>4, <1>5, <1>6, ImageIdsAre DEF SealedIds
<1>8. ASSUME NEW id \in SealedIds PROVE FindImage(sealed', id) = FindSegment(id)
  <2>1. PICK i \in 1..Len(sealed) :
           sealed[i].segment_id = id /\ FindSegment(id) = sealed[i]
    BY FoundIsSealed
  <2>2. i \in 1..Len(sealed')
    BY <1>3, <1>4
  <2>3. FindImage(sealed', sealed'[i].segment_id) = sealed'[i]
    BY <2>2, <1>6, FindImageOf
  <2> QED
    BY <2>1, <2>3, <1>4
<1>9. SealedLog' = [x \in DOMAIN SealedLog \cup {active} |->
                       IF x = active THEN Items(pending) ELSE SealedLog[x]]
  <2>1. SealedLog' = [x \in SealedIds' |-> Items(FindImage(sealed', x).entries)]
    BY DEF SealedLog, FindSegment, Items
  <2>2. SealedLog = [x \in SealedIds |-> Items(FindSegment(x).entries)]
    BY DEF SealedLog
  <2>3. FindImage(sealed', active).entries = pending
    BY <1>5, <1>61
  <2> HIDE DEF SealedLog
  <2> QED
    BY <1>3, <1>7, <1>8, <2>1, <2>2, <2>3
<1>10. Items(pending) \in Log!Contents
  <2>1. pending \in Seq(Entry) /\ Len(pending) \in 1..EntryLimit
    BY <1>1 DEF Inv, TypeOK, OpenConsistent
  <2> QED
    BY <2>1, ItemsOf
<1> QED
  BY <1>2, <1>3, <1>9, <1>10 DEF Log!Commit, SealedLog

(* Replaying a segment is one Apply of its items. *)
LEMMA ReplayRefines ==
    ASSUME Inv, NEW id, ReplaySegment(id), ReplayCheck(id) = "ok"
    PROVE  Log!Apply
<1>1. id \in SealedIds
  BY DEF ReplayCheck
<1>2. /\ effects' = effects \o Items(FindSegment(id).entries)
      /\ epoch' = epoch + Len(FindSegment(id).entries)
      /\ UNCHANGED sealed
  BY DEF ReplaySegment, Materialize
<1>3. SealedLog[id] = Items(FindSegment(id).entries) /\ id \in DOMAIN SealedLog
  BY <1>1 DEF SealedLog
<1>4. Len(Items(FindSegment(id).entries)) = Len(FindSegment(id).entries)
  BY <1>1, ItemsAreContents
<1>5. SealedLog' = SealedLog
  BY <1>2 DEF SealedLog, SealedIds, FindSegment, Items
<1> QED
  BY <1>2, <1>3, <1>4, <1>5 DEF Log!Apply, SealedLog

LEMMA StepRefines ==
    ASSUME Inv, Inv', [Next]_vars
    PROVE  [Log!Next]_(Log!vars)
<1>1. CASE SealSegment /\ SealCheck = "ok"
  BY <1>1, SealRefines DEF Log!Next
<1>2. CASE \E id \in Ids \cup {NoId} : ReplaySegment(id) /\ ReplayCheck(id) = "ok"
  BY <1>2, ReplayRefines DEF Log!Next
<1>3. CASE UNCHANGED <<sealed, effects, epoch>>
  <2>1. SealedLog' = SealedLog
    BY <1>3 DEF SealedLog, SealedIds, FindSegment, Items
  <2> QED
    BY <1>3, <2>1 DEF Log!vars, SealedLog
<1> QED
  BY <1>1, <1>2, <1>3 DEF Next, vars, BeginSegment, AppendSegment, SealSegment,
                          ReplaySegment

(* The segments of wal.cpp implement SegmentLog: whatever the entries,      *)
(* failures and reopenings in between, a reader of sealed segments sees     *)
(* whole segments appear at once and never change.                          *)
THEOREM SegmentsImplementLog == Spec => Implements
<1>1. Init => Log!Init
  BY InitRefines
<1>2. Inv /\ Inv' /\ [Next]_vars => [Log!Next]_(Log!vars)
  BY StepRefines
<1> QED
  BY <1>1, <1>2, Safety, PTL DEF Spec, Implements, Log!Spec
-----------------------------------------------------------------------------
(* What the history records: seals and replays of images that are sealed.   *)
Record == {"seal", "replay"} \X Ids \X Seq(Entry)

Records(images) ==
    {Digest(op, images[i]) : op \in {"seal", "replay"}, i \in 1..Len(images)}

HistoryOfSealed ==
    /\ history \in Seq(Record)
    /\ \A k \in 1..Len(history) : history[k] \in Records(sealed)

(* Records of images stay such when another image is sealed.                *)
LEMMA RecordsGrow ==
    ASSUME NEW images \in Seq(Image), NEW image \in Image
    PROVE  /\ Records(images) \subseteq Records(Append(images, image))
           /\ Digest("seal", image) \in Records(Append(images, image))
<1>1. /\ Len(Append(images, image)) = Len(images) + 1
      /\ Len(images) \in Nat
      /\ Append(images, image)[Len(images) + 1] = image
      /\ \A i \in 1..Len(images) : Append(images, image)[i] = images[i]
  BY AppendFacts
<1>2. Len(images) + 1 \in 1..Len(Append(images, image))
  BY <1>1
<1>3. ASSUME NEW op \in {"seal", "replay"}, NEW i \in 1..Len(images)
      PROVE  Digest(op, images[i]) \in Records(Append(images, image))
  <2>1. i \in 1..Len(Append(images, image)) /\ Append(images, image)[i] = images[i]
    BY <1>1
  <2> QED
    BY <2>1 DEF Records
<1>4. Digest("seal", image) \in Records(Append(images, image))
  BY <1>1, <1>2 DEF Records
<1> QED
  BY <1>3, <1>4 DEF Records

LEMMA RecordType ==
    ASSUME NEW image \in Image, NEW op \in {"seal", "replay"}
    PROVE  Digest(op, image) \in Record
BY DEF Digest, Record, Image

(* One more record of an image that is sealed.                              *)
LEMMA RecordAdded ==
    ASSUME NEW images, NEW list \in Seq(Record), NEW r \in Record,
           \A k \in 1..Len(list) : list[k] \in Records(images),
           r \in Records(images)
    PROVE  /\ Append(list, r) \in Seq(Record)
           /\ \A k \in 1..Len(Append(list, r)) : Append(list, r)[k] \in Records(images)
<1>1. /\ Append(list, r) \in Seq(Record)
      /\ Len(list) \in Nat
      /\ Len(Append(list, r)) = Len(list) + 1
      /\ Append(list, r)[Len(list) + 1] = r
      /\ \A i \in 1..Len(list) : Append(list, r)[i] = list[i]
  BY AppendFacts
<1>2. ASSUME NEW k \in 1..Len(Append(list, r))
      PROVE  Append(list, r)[k] \in Records(images)
  <2>1. CASE k = Len(list) + 1
    BY <2>1, <1>1
  <2>2. CASE k \in 1..Len(list)
    BY <2>2, <1>1
  <2> QED
    BY <2>1, <2>2, <1>1
<1> QED
  BY <1>1, <1>2

LEMMA HistoryNext ==
    ASSUME Inv, HistoryOfSealed, [Next]_vars
    PROVE  HistoryOfSealed'
<1>1. sealed \in Seq(Image)
  BY DEF Inv, TypeOK
<1>2. CASE UNCHANGED <<history, sealed>>
  BY <1>2 DEF HistoryOfSealed, Records, Digest
<1>3. CASE SealSegment /\ SealCheck = "ok"
  <2> DEFINE image == [segment_id |-> active, expected_entries |-> expected,
                       entries |-> pending]
  <2>1. /\ sealed' = Append(sealed, image)
        /\ history' = Append(history, Digest("seal", image))
    BY <1>3 DEF SealSegment, PushImage
  <2>2. image \in Image
    BY <1>3 DEF SealCheck, Inv, TypeOK, OpenConsistent, Image
  <2> HIDE DEF image
  <2>3. /\ \A k \in 1..Len(history) : history[k] \in Records(Append(sealed, image))
        /\ Digest("seal", image) \in Records(Append(sealed, image))
    BY <1>1, <2>2, RecordsGrow DEF HistoryOfSealed
  <2>4. Digest("seal", image) \in Record
    BY <2>2, RecordType
  <2>5. /\ history' \in Seq(Record)
        /\ \A k \in 1..Len(history') : history'[k] \in Records(sealed')
    BY <2>1, <2>3, <2>4, RecordAdded DEF HistoryOfSealed
  <2> QED
    BY <2>5 DEF HistoryOfSealed
<1>4. CASE \E id \in Ids \cup {NoId} : ReplaySegment(id) /\ ReplayCheck(id) = "ok"
  <2>1. PICK id \in Ids \cup {NoId} : ReplaySegment(id) /\ ReplayCheck(id) = "ok"
    BY <1>4
  <2>2. id \in SealedIds
    BY <2>1 DEF ReplayCheck
  <2>3. PICK i \in 1..Len(sealed) : FindSegment(id) = sealed[i]
    BY <2>2, FoundIsSealed
  <2>4. history' = Append(history, Digest("replay", sealed[i])) /\ sealed' = sealed
    BY <2>1, <2>3 DEF ReplaySegment, Materialize
  <2>5. Digest("replay", sealed[i]) \in Records(sealed)
    BY DEF Records
  <2>6. Digest("replay", sealed[i]) \in Record
    <3>1. sealed[i] \in Image
      BY <1>1
    <3> QED
      BY <3>1, RecordType
  <2>7. /\ history' \in Seq(Record)
        /\ \A k \in 1..Len(history') : history'[k] \in Records(sealed)
    BY <2>4, <2>5, <2>6, RecordAdded DEF HistoryOfSealed
  <2> QED
    BY <2>4, <2>7 DEF HistoryOfSealed
<1>5. ASSUME SealSegment, SealCheck # "ok" PROVE UNCHANGED <<history, sealed>>
  BY <1>5 DEF SealSegment
<1>6. ASSUME NEW id, ReplaySegment(id), ReplayCheck(id) # "ok"
      PROVE  UNCHANGED <<history, sealed>>
  BY <1>6 DEF ReplaySegment
<1>7. ASSUME NEW id, NEW count, BeginSegment(id, count)
      PROVE  UNCHANGED <<history, sealed>>
  BY <1>7 DEF BeginSegment
<1>8. ASSUME NEW kind, NEW payload, AppendSegment(kind, payload)
      PROVE  UNCHANGED <<history, sealed>>
  BY <1>8 DEF AppendSegment
<1>9. CASE UNCHANGED vars
  BY <1>2, <1>9 DEF vars
<1> QED
  BY <1>2, <1>3, <1>4, <1>5, <1>6, <1>7, <1>8, <1>9 DEF Next

(* The digests of two replays of one segment are equal, whatever happened   *)
(* in between: its identifier names one image, which never changes.         *)
THEOREM ReplaysAgree == Spec => []ReplayDeterministic
<1>1. Init => HistoryOfSealed
  <2>1. <<>> \in Seq(Record) /\ Len(<<>>) = 0
    OBVIOUS
  <2> QED
    BY <2>1 DEF Init, HistoryOfSealed
<1>2. Inv /\ HistoryOfSealed /\ [Next]_vars => HistoryOfSealed'
  BY HistoryNext
<1>3. Inv /\ HistoryOfSealed => ReplayDeterministic
  <2> SUFFICES ASSUME Inv, HistoryOfSealed,
                      NEW i \in DOMAIN history, NEW j \in DOMAIN history,
                      history[i][1] = "replay", history[j][1] = "replay",
                      history[i][2] = history[j][2]
               PROVE  history[i] = history[j]
    BY DEF ReplayDeterministic
  <2>1. i \in 1..Len(history) /\ j \in 1..Len(history)
    BY DEF HistoryOfSealed
  <2>2. history[i] \in Records(sealed) /\ history[j] \in Records(sealed)
    BY <2>1 DEF HistoryOfSealed
  <2>3. PICK p \in {"seal", "replay"}, a \in 1..Len(sealed) :
           history[i] = Digest(p, sealed[a])
    BY <2>2 DEF Records
  <2>4. PICK q \in {"seal", "replay"}, b \in 1..Len(sealed) :
           history[j] = Digest(q, sealed[b])
    BY <2>2 DEF Records
  <2>5. p = q /\ sealed[a].segment_id = sealed[b].segment_id
    BY <2>3, <2>4 DEF Digest
  <2>6. a = b
    BY <2>5 DEF Inv, SealedUnique
  <2> QED
    BY <2>3, <2>4, <2>5, <2>6
<1> QED
  BY <1>1, <1>2, <1>3, Safety, PTL DEF Spec
=============================================================================
