---------------------------- MODULE Checkpoints ----------------------------
(***************************************************************************)
(* Checkpoints, inspection lines and policies: CHECKPOINT, CHECKVIEW,      *)
(* INSPECT, POLICY and POLICYCHECK (src/src/checkpoints.cpp, inspect.cpp,  *)
(* policy.cpp).                                                            *)
(*                                                                         *)
(* CHECKVIEW keeps a raw pointer to the characters of the last line it     *)
(* writes, and POLICYCHECK hashes them.  A line is the buffer that holds   *)
(* its characters and what it says; a report of several lines stands as    *)
(* one.  The buffer of a line outlives the growth of the list and dies     *)
(* when the list is cleared.                                               *)
(***************************************************************************)
EXTENDS Naturals, Sequences, FiniteSets, SequencesExt, Common

CONSTANTS
    CheckpointIds,     \* valid checkpoint identifiers (the code: any but 0)
    NoId,              \* the reserved identifier 0, and "none selected"
    Buffers,           \* addresses of character buffers
    NoBuffer,          \* nullptr
    Scopes,            \* valid scope names; "documents" and "checkpoints" count
    Operations,        \* valid operation names; "max" is special
    BadName,           \* a name valid_name refuses
    Thresholds,        \* thresholds, 0 among them
    EvaluationLimit,   \* most evaluations kept (the code: 64)
    EvaluationTrim,    \* evaluations dropped beyond that (the code: 16)
    MaxHash,           \* hashes are 0 to MaxHash (the code: 65535)
    MaxLines,          \* bound of the model: inspection lines
    MaxEvents          \* bound of the model: events of one journal

ASSUME CheckpointConstants ==
    /\ NoId \notin CheckpointIds
    /\ NoBuffer \notin Buffers
    /\ BadName \notin Scopes \cup Operations
    /\ Thresholds \subseteq Nat
    /\ EvaluationLimit \in Nat /\ EvaluationTrim \in 1..EvaluationLimit
    /\ {MaxHash, MaxLines, MaxEvents} \subseteq Nat

VARIABLES
    documents,     \* the size of Store.documents
    events,        \* the size of Store.events
    entries,       \* CheckpointState.entries
    selected,      \* CheckpointState.selected
    summary,       \* CheckpointState.selected_summary
    lines,         \* InspectState.lines
    rules,         \* PolicyState.rules
    evaluations,   \* PolicyState.evaluations
    evaluated,     \* history: every evaluation there ever was
    cleared        \* history: lines cleared since summary was set

checkpointVars == <<entries, selected, summary>>
policyVars == <<rules, evaluations, evaluated>>
vars == <<documents, events, checkpointVars, lines, policyVars, cleared, status>>

Init ==
    /\ documents = 0
    /\ events = 0
    /\ entries = <<>>
    /\ selected = NoId
    /\ summary = NoBuffer
    /\ lines = <<>>
    /\ rules = <<>>
    /\ evaluations = <<>>
    /\ evaluated = <<>>
    /\ cleared = FALSE
    /\ status = "ok"

CapturedIds == {entries[i].id : i \in DOMAIN entries}

LiveBuffers == {lines[i].buffer : i \in DOMAIN lines}

\* Every handler that succeeds adds one event.
RecordEvent ==
    IF status' = "ok" THEN events < MaxEvents /\ events' = events + 1
    ELSE UNCHANGED events

-----------------------------------------------------------------------------
(* CHECKPOINT id *)

CaptureCheck(id) ==
    IF id = NoId THEN "limit"
    ELSE IF id \in CapturedIds THEN "invalid_state" ELSE "ok"

\* Mutant: the summary of the checkpoint before stays selected.
RecordCheckpointKeepsSummary(id) ==
    /\ entries' = Append(entries, [id |-> id, documents |-> documents,
                                   events |-> events])
    /\ selected' = id
    /\ cleared' = FALSE
    /\ UNCHANGED summary

RecordCheckpoint(id) ==
    /\ entries' = Append(entries, [id |-> id, documents |-> documents,
                                   events |-> events])
    /\ selected' = id
    /\ summary' = NoBuffer
    /\ cleared' = FALSE

CaptureCheckpoint(id) ==
    /\ status' = CaptureCheck(id)
    /\ IF status' = "ok" THEN RecordCheckpoint(id)
       ELSE UNCHANGED <<checkpointVars, cleared>>
    /\ RecordEvent
    /\ UNCHANGED <<documents, lines, policyVars>>

-----------------------------------------------------------------------------
(* CHECKVIEW id: the lines are replaced; the pointer goes to the new one,   *)
(* which may get the place of one that has just been cleared.               *)

InspectCheckpoint(id) ==
    /\ status' = IF id \in CapturedIds THEN "ok" ELSE "not_found"
    /\ IF status' = "ok"
       THEN /\ \E buffer \in Buffers :
                  /\ lines' = <<[buffer |-> buffer, of |-> id]>>
                  /\ summary' = buffer
            /\ selected' = id
            /\ cleared' = FALSE
       ELSE UNCHANGED <<lines, summary, selected, cleared>>
    /\ RecordEvent
    /\ UNCHANGED <<documents, entries, policyVars>>

-----------------------------------------------------------------------------
(* INSPECT view: the lines are cleared before the view is looked at.        *)
(* KEYAUDIT does the same to them.                                          *)

InspectStore(known) ==
    /\ status' = IF known THEN "ok" ELSE "unsupported"
    /\ IF known THEN \E buffer \in Buffers : lines' = <<[buffer |-> buffer, of |-> NoId]>>
       ELSE lines' = <<>>
    /\ cleared' = TRUE
    /\ RecordEvent
    /\ UNCHANGED <<documents, checkpointVars, policyVars>>

\* SNAPINFO and SHARDINFO add to the lines there are.
AddReport ==
    /\ Len(lines) < MaxLines
    /\ status' = "ok"
    /\ \E buffer \in Buffers \ LiveBuffers :
          lines' = Append(lines, [buffer |-> buffer, of |-> NoId])
    /\ RecordEvent
    /\ UNCHANGED <<documents, checkpointVars, policyVars, cleared>>

-----------------------------------------------------------------------------
(* POLICY scope operation threshold *)

DefineCheck(scope, operation, threshold) ==
    IF BadName \in {scope, operation} \/ threshold = 0 THEN "limit"
    ELSE IF \E i \in DOMAIN rules :
               rules[i].scope = scope /\ rules[i].operation = operation
    THEN "invalid_state" ELSE "ok"

DefinePolicy(scope, operation, threshold) ==
    /\ status' = DefineCheck(scope, operation, threshold)
    /\ rules' = IF status' = "ok"
                THEN Append(rules, [scope |-> scope, operation |-> operation,
                                    threshold |-> threshold])
                ELSE rules
    /\ RecordEvent
    /\ UNCHANGED <<documents, checkpointVars, lines, evaluations, evaluated, cleared>>

-----------------------------------------------------------------------------
(* POLICYCHECK scope operation *)

\* measure_scope: what a scope may measure.  With a summary selected the
\* scope "checkpoints" is not a count but a hash of the summary.
Measures(scope) ==
    CASE scope = "documents"   -> {documents}
      [] scope = "checkpoints" -> IF summary = NoBuffer THEN {Len(entries)}
                                  ELSE 0..MaxHash
      [] OTHER                 -> {0}

Passes(rule, value) ==
    IF rule.operation = "max" THEN value <= rule.threshold
    ELSE value >= rule.threshold

\* Mutant: the newest evaluations are dropped.
TrimmedAtTheEnd(list) ==
    IF Len(list) > EvaluationLimit
    THEN SubSeq(list, 1, Len(list) - EvaluationTrim) ELSE list

\* Beyond the limit the oldest evaluations are dropped, several at a time.
Trimmed(list) ==
    IF Len(list) > EvaluationLimit
    THEN SubSeq(list, EvaluationTrim + 1, Len(list)) ELSE list

\* The hash reads as many characters as the summary had: a line that got its
\* place since may be shorter.
ReadsFreed(scope) ==
    /\ scope = "checkpoints"
    /\ summary # NoBuffer
    /\ [buffer |-> summary, of |-> selected] \notin Range(lines)

Evaluate(rule, value) ==
    LET verdict == [scope |-> rule.scope, operation |-> rule.operation,
                    pass |-> Passes(rule, value)]
    IN  /\ evaluations' = Trimmed(Append(evaluations, verdict))
        /\ evaluated' = Append(evaluated, verdict)

Matching(scope, operation) ==
    {i \in DOMAIN rules : rules[i].scope = scope /\ rules[i].operation = operation}

EvaluatePolicy(scope, operation) ==
    /\ status' \in CASE Matching(scope, operation) = {} -> {"not_found"}
                     [] ReadsFreed(scope) -> {"ok", "crash"}
                     [] OTHER -> {"ok"}
    /\ IF status' = "ok"
       THEN \E i \in Matching(scope, operation), value \in Measures(scope) :
               /\ \A j \in Matching(scope, operation) : i <= j
               /\ Evaluate(rules[i], value)
       ELSE UNCHANGED <<evaluations, evaluated>>
    /\ RecordEvent
    /\ UNCHANGED <<documents, checkpointVars, lines, rules, cleared>>

-----------------------------------------------------------------------------
\* DOC adds a document; RESTORE may leave any number of them.
ChangeDocuments(count) ==
    /\ documents' = count
    /\ status' = "ok"
    /\ RecordEvent
    /\ UNCHANGED <<checkpointVars, lines, policyVars, cleared>>

Next ==
    /\ Continues(status)
    /\ \/ \E id \in CheckpointIds \cup {NoId} : CaptureCheckpoint(id)
       \/ \E id \in CheckpointIds : InspectCheckpoint(id)
       \/ \E known \in BOOLEAN : InspectStore(known)
       \/ AddReport
       \/ \E scope \in Scopes \cup {BadName}, operation \in Operations,
             threshold \in Thresholds : DefinePolicy(scope, operation, threshold)
       \/ \E scope \in Scopes, operation \in Operations :
             EvaluatePolicy(scope, operation)
       \/ \E count \in {0, documents + 1} : ChangeDocuments(count)

Spec == Init /\ [][Next]_vars

-----------------------------------------------------------------------------
(* The summary a policy reads is the one of the checkpoint selected last,   *)
(* and still there, unless INSPECT or KEYAUDIT cleared the lines since: a   *)
(* new checkpoint forgets the old summary, and reports that are added to    *)
(* the lines do not displace it.  Only after such a clearing does a policy  *)
(* check die of what it reads.                                              *)
SummaryOfSelected ==
    /\ summary # NoBuffer /\ ~cleared =>
          \E i \in DOMAIN lines :
              lines[i].buffer = summary /\ lines[i].of = selected
    /\ status = "crash" => cleared /\ summary # NoBuffer

(* However often the evaluations were trimmed, those kept are the latest,   *)
(* in order, and enough of them.                                            *)
EvaluationsRecent ==
    /\ IsSuffix(evaluations, evaluated)
    /\ Len(evaluations) >=
          IF Len(evaluated) <= EvaluationLimit THEN Len(evaluated)
          ELSE EvaluationLimit + 1 - EvaluationTrim
=============================================================================
