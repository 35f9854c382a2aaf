------------------------- MODULE CheckpointsProofs -------------------------
(* Proofs about Checkpoints, for any limits, buffers and names.  The        *)
(* inductive invariant is Inv: next to the types it needs SummaryOfSelected *)
(* and, in place of the suffix EvaluationsRecent speaks of, the position    *)
(* each evaluation kept has among all there were (KeptPlaces), with as many *)
(* kept as there were as long as none had to be dropped (KeptCount).        *)
EXTENDS Checkpoints, SequenceTheorems, TLAPS

Line == [buffer : Buffers, of : CheckpointIds \cup {NoId}]
Verdict == [scope : Scopes, operation : Operations, pass : BOOLEAN]

KeptPlaces ==
    /\ Len(evaluations) <= Len(evaluated)
    /\ \A i \in 1..Len(evaluations) :
          evaluations[i] = evaluated[Len(evaluated) - Len(evaluations) + i]

KeptCount ==
    /\ Len(evaluations) <= EvaluationLimit
    /\ IF Len(evaluated) <= EvaluationLimit
       THEN Len(evaluations) = Len(evaluated)
       ELSE Len(evaluations) >= EvaluationLimit + 1 - EvaluationTrim

Inv ==
    /\ lines \in Seq(Line)
    /\ evaluations \in Seq(Verdict)
    /\ evaluated \in Seq(Verdict)
    /\ SummaryOfSelected
    /\ KeptPlaces
    /\ KeptCount

-----------------------------------------------------------------------------
(* Extending a sequence by one element.                                     *)
LEMMA AppendFacts ==
    ASSUME NEW S, NEW s \in Seq(S), NEW e \in S
    PROVE  /\ Append(s, e) \in Seq(S)
           /\ Len(s) \in Nat
           /\ Len(Append(s, e)) = Len(s) + 1
           /\ Append(s, e)[Len(s) + 1] = e
           /\ \A i \in 1..Len(s) : Append(s, e)[i] = s[i]
OBVIOUS

LEMMA ReverseFacts ==
    ASSUME NEW S, NEW s \in Seq(S)
    PROVE  /\ Reverse(s) \in Seq(S)
           /\ Len(Reverse(s)) = Len(s)
           /\ \A i \in 1..Len(s) : Reverse(s)[i] = s[Len(s) - i + 1]
<1>1. \A i \in 1..Len(s) : s[(Len(s) - i) + 1] \in S
  OBVIOUS
<1>2. Reverse(s) \in [1..Len(s) -> S]
  BY <1>1 DEF Reverse
<1> QED
  BY <1>2 DEF Reverse

(* A sequence whose elements are the last of another is a suffix of it.     *)
LEMMA LastAreSuffix ==
    ASSUME NEW S, NEW s \in Seq(S), NEW t \in Seq(S), Len(s) <= Len(t),
           \A i \in 1..Len(s) : s[i] = t[Len(t) - Len(s) + i]
    PROVE  IsSuffix(s, t)
<1> DEFINE r == Reverse(s)
           q == Reverse(t)
<1>1. /\ r \in Seq(S) /\ q \in Seq(S)
      /\ Len(r) = Len(s) /\ Len(q) = Len(t)
      /\ \A i \in 1..Len(s) : r[i] = s[Len(s) - i + 1]
      /\ \A i \in 1..Len(t) : q[i] = t[Len(t) - i + 1]
  BY ReverseFacts
<1>2. Len(s) \in Nat /\ Len(t) \in Nat
  OBVIOUS
<1>3. ASSUME NEW i \in 1..Len(s) PROVE r[i] = q[i]
  <2>1. Len(s) - i + 1 \in 1..Len(s) /\ i \in 1..Len(t)
    BY <1>2
  <2>2. s[Len(s) - i + 1] = t[Len(t) - Len(s) + (Len(s) - i + 1)]
    BY <2>1
  <2>3. Len(t) - Len(s) + (Len(s) - i + 1) = Len(t) - i + 1
    BY <1>2
  <2> QED
    BY <1>1, <2>1, <2>2, <2>3
<1> HIDE DEF r, q
<1>4. /\ SubSeq(r, 1, Len(r)) \in Seq(S)
      /\ Len(SubSeq(r, 1, Len(r))) = Len(s)
      /\ \A i \in 1..Len(s) : SubSeq(r, 1, Len(r))[i] = r[i]
  BY <1>1, <1>2, SubSeqFull
<1>5. /\ SubSeq(q, 1, Len(r)) \in Seq(S)
      /\ Len(SubSeq(q, 1, Len(r))) = Len(s)
      /\ \A i \in 1..Len(s) : SubSeq(q, 1, Len(r))[i] = q[i]
  <2>1. \A i \in 1..Len(s) : q[i] \in S
    BY <1>1, <1>2
  <2>2. /\ SubSeq(q, 1, Len(s)) \in Seq(S)
        /\ Len(SubSeq(q, 1, Len(s))) = IF 1 <= Len(s) THEN Len(s) - 1 + 1 ELSE 0
        /\ \A i \in 1..(Len(s) - 1 + 1) : SubSeq(q, 1, Len(s))[i] = q[1 + i - 1]
    BY <1>2, <2>1, SubSeqProperties
  <2> QED
    BY <1>1, <1>2, <2>2
<1>6. SubSeq(r, 1, Len(r)) = SubSeq(q, 1, Len(r))
  BY <1>3, <1>4, <1>5, SeqEqual
<1> QED
  BY <1>1, <1>6 DEF IsSuffix, IsPrefix, r, q

-----------------------------------------------------------------------------
LEMMA InitInv == Init => Inv
<1> SUFFICES ASSUME Init PROVE Inv
  OBVIOUS
<1>1. <<>> \in Seq(Line) /\ <<>> \in Seq(Verdict) /\ Len(<<>>) = 0
  OBVIOUS
<1> QED
  BY <1>1, CheckpointConstants
     DEF Init, Inv, SummaryOfSelected, KeptPlaces, KeptCount

(* A policy check adds one evaluation and drops the oldest when there are   *)
(* too many.                                                                *)
LEMMA EvaluateKeeps ==
    ASSUME Inv, NEW verdict \in Verdict,
           evaluations' = Trimmed(Append(evaluations, verdict)),
           evaluated' = Append(evaluated, verdict)
    PROVE  /\ evaluations' \in Seq(Verdict)
           /\ evaluated' \in Seq(Verdict)
           /\ KeptPlaces'
           /\ KeptCount'
<1> DEFINE more == Append(evaluations, verdict)
<1>1. evaluations \in Seq(Verdict) /\ evaluated \in Seq(Verdict)
      /\ KeptPlaces /\ KeptCount
  BY DEF Inv
<1>2. /\ more \in Seq(Verdict)
      /\ Len(evaluations) \in Nat
      /\ Len(more) = Len(evaluations) + 1
      /\ more[Len(evaluations) + 1] = verdict
      /\ \A i \in 1..Len(evaluations) : more[i] = evaluations[i]
  BY <1>1, AppendFacts
<1>3. /\ evaluated' \in Seq(Verdict)
      /\ Len(evaluated) \in Nat
      /\ Len(evaluated') = Len(evaluated) + 1
      /\ evaluated'[Len(evaluated) + 1] = verdict
      /\ \A i \in 1..Len(evaluated) : evaluated'[i] = evaluated[i]
  BY <1>1, AppendFacts
<1> HIDE DEF more
<1>4. EvaluationLimit \in Nat /\ EvaluationTrim \in 1..EvaluationLimit
  BY CheckpointConstants
<1>5. ASSUME NEW i \in 1..Len(more)
      PROVE  more[i] = evaluated'[Len(evaluated') - Len(more) + i]
  <2>1. CASE i = Len(evaluations) + 1
    <3>1. Len(evaluated') - Len(more) + i = Len(evaluated) + 1
      BY <1>2, <1>3, <2>1
    <3> QED
      BY <1>2, <1>3, <2>1, <3>1
  <2>2. CASE i \in 1..Len(evaluations)
    <3>1. evaluations[i] = evaluated[Len(evaluated) - Len(evaluations) + i]
      BY <1>1, <2>2 DEF KeptPlaces
    <3>2. Len(evaluated) - Len(evaluations) + i \in 1..Len(evaluated)
      BY <1>1, <1>2, <1>3, <2>2 DEF KeptPlaces
    <3>3. Len(evaluated') - Len(more) + i = Len(evaluated) - Len(evaluations) + i
      BY <1>2, <1>3, <2>2
    <3> QED
      BY <1>2, <1>3, <2>2, <3>1, <3>2, <3>3
  <2> QED
    <3>1. i = Len(evaluations) + 1 \/ i \in 1..Len(evaluations)
      BY <1>2
    <3> QED
      BY <2>1, <2>2, <3>1
<1>6. CASE Len(more) <= EvaluationLimit
  <2>1. evaluations' = more
    BY <1>2, <1>4, <1>6 DEF Trimmed, more
  <2> QED
    <3>1. KeptPlaces'
      <4>1. Len(evaluations') <= Len(evaluated')
        BY <1>1, <1>2, <1>3, <2>1 DEF KeptPlaces
      <4>2. \A i \in 1..Len(evaluations') :
               evaluations'[i] = evaluated'[Len(evaluated') - Len(evaluations') + i]
        BY <1>5, <2>1
      <4> QED
        BY <4>1, <4>2 DEF KeptPlaces
    <3>2. KeptCount'
      BY <1>1, <1>2, <1>3, <1>4, <1>6, <2>1 DEF KeptPlaces, KeptCount
    <3> QED
      BY <1>2, <1>3, <2>1, <3>1, <3>2
<1>7. CASE Len(more) > EvaluationLimit
  <2>1. evaluations' = SubSeq(more, EvaluationTrim + 1, Len(more))
    BY <1>7 DEF Trimmed, more
  <2>2. Len(more) = EvaluationLimit + 1
    BY <1>1, <1>2, <1>4, <1>7 DEF KeptCount
  <2>3. \A i \in (EvaluationTrim + 1)..Len(more) : more[i] \in Verdict
    BY <1>2, <1>4
  <2>4. /\ evaluations' \in Seq(Verdict)
        /\ Len(evaluations') = Len(more) - EvaluationTrim
        /\ \A i \in 1..(Len(more) - EvaluationTrim) :
              evaluations'[i] = more[EvaluationTrim + i]
    <3>1. /\ SubSeq(more, EvaluationTrim + 1, Len(more)) \in Seq(Verdict)
          /\ Len(SubSeq(more, EvaluationTrim + 1, Len(more)))
                = IF EvaluationTrim + 1 <= Len(more)
                  THEN Len(more) - (EvaluationTrim + 1) + 1 ELSE 0
          /\ \A i \in 1..(Len(more) - (EvaluationTrim + 1) + 1) :
                SubSeq(more, EvaluationTrim + 1, Len(more))[i]
                   = more[(EvaluationTrim + 1) + i - 1]
      BY <1>2, <1>4, <2>3, SubSeqProperties
    <3> QED
      BY <1>2, <1>4, <2>1, <2>2, <3>1
  <2>5. KeptCount'
    BY <1>1, <1>2, <1>3, <1>4, <2>2, <2>4 DEF KeptCount, KeptPlaces
  <2>6. KeptPlaces'
    <3>1. Len(evaluations') <= Len(evaluated')
      BY <1>1, <1>2, <1>3, <1>4, <2>4 DEF KeptPlaces
    <3>2. ASSUME NEW i \in 1..Len(evaluations')
          PROVE  evaluations'[i]
                   = evaluated'[Len(evaluated') - Len(evaluations') + i]
      <4>1. EvaluationTrim + i \in 1..Len(more)
        <5>1. i \in 1..(Len(more) - EvaluationTrim)
          BY <2>4
        <5> QED
          BY <1>2, <1>4, <5>1
      <4>2. more[EvaluationTrim + i]
              = evaluated'[Len(evaluated') - Len(more) + (EvaluationTrim + i)]
        BY <1>5, <4>1
      <4>3. Len(evaluated') - Len(more) + (EvaluationTrim + i)
              = Len(evaluated') - Len(evaluations') + i
        <5>1. i \in 1..(Len(more) - EvaluationTrim)
          BY <2>4
        <5>2. Len(evaluations') = Len(more) - EvaluationTrim
          BY <2>4
        <5> QED
          BY <1>2, <1>3, <1>4, <5>1, <5>2
      <4> QED
        BY <2>4, <4>2, <4>3
    <3> QED
      BY <3>1, <3>2 DEF KeptPlaces
  <2> QED
    BY <1>3, <2>4, <2>5, <2>6
<1> QED
  BY <1>2, <1>4, <1>6, <1>7

(* The summary is kept by a step that neither crashes nor touches it.       *)
LEMMA SummaryStays ==
    ASSUME Inv, status' # "crash", UNCHANGED <<summary, selected, cleared, lines>>
    PROVE  SummaryOfSelected' /\ lines' \in Seq(Line)
BY DEF Inv, SummaryOfSelected

LEMMA EvaluationsStay ==
    ASSUME Inv, UNCHANGED <<evaluations, evaluated>>
    PROVE  /\ evaluations' \in Seq(Verdict) /\ evaluated' \in Seq(Verdict)
           /\ KeptPlaces' /\ KeptCount'
BY DEF Inv, KeptPlaces, KeptCount

LEMMA NextInv == Inv /\ [Next]_vars => Inv'
<1> SUFFICES ASSUME Inv, [Next]_vars PROVE Inv'
  OBVIOUS
<1>1. ASSUME NEW id \in CheckpointIds \cup {NoId}, CaptureCheckpoint(id)
      PROVE  Inv'
  <2>1. UNCHANGED <<lines, evaluations, evaluated>> /\ status' # "crash"
    BY <1>1 DEF CaptureCheckpoint, CaptureCheck, policyVars
  <2>2. CASE status' = "ok"
    BY <1>1, <2>1, <2>2, EvaluationsStay
       DEF CaptureCheckpoint, RecordCheckpoint, Inv, SummaryOfSelected
  <2>3. CASE status' # "ok"
    BY <1>1, <2>1, <2>3, EvaluationsStay, SummaryStays
       DEF CaptureCheckpoint, checkpointVars, Inv
  <2> QED
    BY <2>2, <2>3
<1>2. ASSUME NEW id \in CheckpointIds, InspectCheckpoint(id)
      PROVE  Inv'
  <2>1. UNCHANGED <<evaluations, evaluated>> /\ status' # "crash"
    BY <1>2 DEF InspectCheckpoint, policyVars
  <2>2. CASE status' = "ok"
    <3>1. PICK buffer \in Buffers :
              /\ lines' = <<[buffer |-> buffer, of |-> id]>>
              /\ summary' = buffer
      BY <1>2, <2>2 DEF InspectCheckpoint
    <3>2. selected' = id
      BY <1>2, <2>2 DEF InspectCheckpoint
    <3>3. [buffer |-> buffer, of |-> id] \in Line
      BY DEF Line
    <3>4. lines' \in Seq(Line) /\ 1 \in DOMAIN lines'
          /\ lines'[1] = [buffer |-> buffer, of |-> id]
      BY <3>1, <3>3
    <3>5. SummaryOfSelected'
      BY <2>1, <3>1, <3>2, <3>4 DEF SummaryOfSelected
    <3> QED
      BY <2>1, <3>4, <3>5, EvaluationsStay DEF Inv
  <2>3. CASE status' # "ok"
    BY <1>2, <2>1, <2>3, EvaluationsStay, SummaryStays DEF InspectCheckpoint, Inv
  <2> QED
    BY <2>2, <2>3
<1>3. ASSUME NEW known \in BOOLEAN, InspectStore(known)
      PROVE  Inv'
  <2>1. /\ UNCHANGED <<evaluations, evaluated>>
        /\ status' # "crash" /\ cleared'
    BY <1>3 DEF InspectStore, policyVars
  <2>2. lines' \in Seq(Line)
    <3>1. lines' = <<>> \/ \E buffer \in Buffers :
                              lines' = <<[buffer |-> buffer, of |-> NoId]>>
      BY <1>3 DEF InspectStore
    <3>2. \A buffer \in Buffers : [buffer |-> buffer, of |-> NoId] \in Line
      BY DEF Line
    <3>3. \A entry \in Line : <<entry>> \in Seq(Line)
      OBVIOUS
    <3>4. <<>> \in Seq(Line)
      OBVIOUS
    <3> QED
      BY <3>1, <3>2, <3>3, <3>4
  <2> QED
    BY <2>1, <2>2, EvaluationsStay DEF Inv, SummaryOfSelected
<1>4. CASE AddReport
  <2>1. PICK buffer \in Buffers :
            lines' = Append(lines, [buffer |-> buffer, of |-> NoId])
    BY <1>4 DEF AddReport
  <2>2. /\ UNCHANGED <<summary, selected, cleared, evaluations, evaluated>>
        /\ status' # "crash"
    BY <1>4 DEF AddReport, checkpointVars, policyVars
  <2>3. [buffer |-> buffer, of |-> NoId] \in Line /\ lines \in Seq(Line)
    BY DEF Line, Inv
  <2>4. /\ lines' \in Seq(Line)
        /\ DOMAIN lines \subseteq DOMAIN lines'
        /\ \A i \in DOMAIN lines : lines'[i] = lines[i]
    BY <2>1, <2>3
  <2>5. SummaryOfSelected'
    BY <2>2, <2>4 DEF Inv, SummaryOfSelected
  <2> QED
    BY <2>2, <2>4, <2>5, EvaluationsStay DEF Inv
<1>5. ASSUME NEW scope, NEW operation, NEW threshold,
             DefinePolicy(scope, operation, threshold)
      PROVE  Inv'
  <2>1. /\ UNCHANGED <<summary, selected, cleared, lines, evaluations, evaluated>>
        /\ status' # "crash"
    BY <1>5 DEF DefinePolicy, DefineCheck, checkpointVars
  <2> QED
    BY <2>1, EvaluationsStay, SummaryStays DEF Inv
<1>6. ASSUME NEW scope \in Scopes, NEW operation \in Operations,
             EvaluatePolicy(scope, operation)
      PROVE  Inv'
  <2>1. UNCHANGED <<summary, selected, cleared, lines>>
    BY <1>6 DEF EvaluatePolicy, checkpointVars
  <2>2. CASE status' = "ok"
    <3>1. PICK i \in Matching(scope, operation), value \in Measures(scope) :
              Evaluate(rules[i], value)
      BY <1>6, <2>2 DEF EvaluatePolicy
    <3> DEFINE verdict == [scope |-> rules[i].scope,
                           operation |-> rules[i].operation,
                           pass |-> Passes(rules[i], value)]
    <3>2. /\ evaluations' = Trimmed(Append(evaluations, verdict))
          /\ evaluated' = Append(evaluated, verdict)
      BY <3>1 DEF Evaluate
    <3>3. Passes(rules[i], value) \in BOOLEAN
      <4>1. /\ (value <= rules[i].threshold) \in BOOLEAN
            /\ (value >= rules[i].threshold) \in BOOLEAN
        OBVIOUS
      <4> QED
        BY <4>1, Zenon DEF Passes
    <3>4. verdict \in Verdict
      BY <3>3 DEF Matching, Verdict
    <3> HIDE DEF verdict
    <3>5. /\ evaluations' \in Seq(Verdict) /\ evaluated' \in Seq(Verdict)
          /\ KeptPlaces' /\ KeptCount'
      BY <3>2, <3>4, EvaluateKeeps
    <3> QED
      BY <2>1, <2>2, <3>5, SummaryStays DEF Inv
  <2>3. CASE status' # "ok"
    <3>1. UNCHANGED <<evaluations, evaluated>>
      BY <1>6, <2>3 DEF EvaluatePolicy
    <3>2. CASE status' # "crash"
      BY <2>1, <3>1, <3>2, EvaluationsStay, SummaryStays DEF Inv
    <3>3. CASE status' = "crash"
      <4>1. ReadsFreed(scope)
        BY <1>6, <3>3 DEF EvaluatePolicy
      <4>2. /\ summary # NoBuffer
            /\ \A i \in DOMAIN lines :
                  lines[i] # [buffer |-> summary, of |-> selected]
        BY <4>1 DEF ReadsFreed, Range
      <4>3. \A i \in DOMAIN lines :
               ~(lines[i].buffer = summary /\ lines[i].of = selected)
        <5>1. \A i \in DOMAIN lines : lines[i] \in Line
          BY DEF Inv
        <5> QED
          BY <4>2, <5>1 DEF Line
      <4>4. cleared
        BY <4>2, <4>3 DEF Inv, SummaryOfSelected
      <4>5. SummaryOfSelected'
        BY <2>1, <4>2, <4>4 DEF SummaryOfSelected
      <4> QED
        BY <2>1, <3>1, <4>5, EvaluationsStay DEF Inv
    <3> QED
      BY <3>2, <3>3
  <2> QED
    BY <2>2, <2>3
<1>7. ASSUME NEW count, ChangeDocuments(count)
      PROVE  Inv'
  <2>1. /\ UNCHANGED <<summary, selected, cleared, lines, evaluations, evaluated>>
        /\ status' # "crash"
    BY <1>7 DEF ChangeDocuments, checkpointVars, policyVars
  <2> QED
    BY <2>1, EvaluationsStay, SummaryStays DEF Inv
<1>8. CASE UNCHANGED vars
  BY <1>8 DEF vars, checkpointVars, policyVars, Inv, SummaryOfSelected,
              KeptPlaces, KeptCount
<1> QED
  BY <1>1, <1>2, <1>3, <1>4, <1>5, <1>6, <1>7, <1>8 DEF Next

THEOREM Safety == Spec => []Inv
<1>1. Init => Inv
  BY InitInv
<1>2. Inv /\ [Next]_vars => Inv'
  BY NextInv
<1> QED
  BY <1>1, <1>2, PTL DEF Spec

(* The summary that CHECKVIEW left a pointer to is there, and is the one of *)
(* the checkpoint selected last, unless INSPECT or KEYAUDIT cleared the     *)
(* lines since; only then does POLICYCHECK crash.                           *)
THEOREM SummaryIsOfSelected == Spec => []SummaryOfSelected
<1>1. Inv => SummaryOfSelected
  BY DEF Inv
<1> QED
  BY <1>1, Safety, PTL

(* The evaluations POLICYCHECK keeps are the latest, whatever the limit and *)
(* however many are dropped at a time.                                      *)
THEOREM EvaluationsAreRecent == Spec => []EvaluationsRecent
<1>1. Inv => EvaluationsRecent
  <2> SUFFICES ASSUME Inv PROVE EvaluationsRecent
    OBVIOUS
  <2>1. IsSuffix(evaluations, evaluated)
    BY LastAreSuffix DEF Inv, KeptPlaces
  <2>2. Len(evaluations) \in Nat /\ Len(evaluated) \in Nat
    BY DEF Inv
  <2> QED
    BY <2>1, <2>2 DEF Inv, KeptCount, EvaluationsRecent
<1> QED
  BY <1>1, Safety, PTL
=============================================================================
