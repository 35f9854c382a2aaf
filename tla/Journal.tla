------------------------------ MODULE Journal ------------------------------
(***************************************************************************)
(* One journal through the engine (src/src/parser.cpp, engine.cpp): the    *)
(* script is parsed line by line, then each command is offered to the      *)
(* dispatchers of the profile, in order, until one of them has an outcome  *)
(* other than unsupported.                                                 *)
(*                                                                         *)
(* A line is blank (or a comment), invalid, or a command: a verb, a number *)
(* of arguments, and whether those that must be numbers or hexadecimal     *)
(* are.  What the handlers do is in the other modules; here a handler may  *)
(* report anything.  The Result of the command being executed, so far, is  *)
(* the variable status.                                                    *)
(***************************************************************************)
EXTENDS Naturals, Sequences, Common

CONSTANTS
    Lines,         \* lines a script is made of
    MaxLines,      \* bound of the model: lines of a script
    CommandLimit   \* most commands of a script (the code: 1024)

ASSUME JournalConstants ==
    /\ \A text \in Lines : text.is \in {"blank", "invalid", "command"}
    /\ MaxLines \in Nat
    /\ CommandLimit \in Nat

-----------------------------------------------------------------------------
(* The command language: which dispatcher of the engine knows which verb,   *)
(* and how many arguments it wants.                                         *)

\* dispatch_archive
ArchiveArity ==
    [DOC |-> 3, VIEW |-> 1, RENAME |-> 2, MANIFEST |-> 0, KEY |-> 2, ROTATE |-> 3,
     KEYLEASE |-> 3, KEYRELEASE |-> 1, KEYAUDIT |-> 1, PAGE |-> 2, CURSOR |-> 2,
     COMPACT |-> 0, SEGMENT |-> 2, ENTRY |-> 2, SEALSEG |-> 0, REPLAY |-> 1,
     SNAPSHOT |-> 1, RESTORE |-> 1, SNAPINFO |-> 0, CACHE |-> 2, TOUCH |-> 1,
     EVICT |-> 1]

\* dispatch_query, but for its two verbs with a list of arguments: the commands
\* on the objects and their indexes, then the reports.
QueryArity ==
    [SCAN |-> 1, NODE |-> 2, WATCH |-> 1, DROP |-> 1, AUDIT |-> 0, WATCHSNAP |-> 1,
     WATCHREVIEW |-> 1, ROW |-> 1, PROJECT |-> 0, FOLLOW |-> 1, EXPORT |-> 0,
     BLOOM |-> 2, PROBE |-> 1, INDEX |-> 2, SEEK |-> 1, PLAN |-> 2, EVAL |-> 0,
     METRICS |-> 1, REDUCE |-> 0]

ReportArity ==
    [INSPECT |-> 1, DIGEST |-> 2, VERIFY |-> 1, MERGE |-> 1, NEXT |-> 1,
     SAMPLE |-> 2, FOLD |-> 0, DIFFSNAP |-> 2, LEDGER |-> 1, FOLDLEDGER |-> 0,
     QUOTA |-> 1, ENFORCE |-> 1, RELATE |-> 1, WALKREL |-> 2, CHECKPOINT |-> 1,
     CHECKVIEW |-> 1, POLICY |-> 3, POLICYCHECK |-> 2, SHARD |-> 1,
     REBALANCE |-> 1, SHARDINFO |-> 0]

\* dispatch_codec
CodecArity ==
    [VECTOR |-> 3, DECODE |-> 0, LABEL |-> 2, RENDER |-> 0, PALETTE |-> 1,
     COLOR |-> 0, NORMALIZE |-> 1, TOKENS |-> 1, PACK |-> 1, UNPACK |-> 0]

\* dispatch_session
SessionArity ==
    [SIGPLAN |-> 2, FINALIZE |-> 0, SIGN |-> 0, ROLE |-> 1, GRANT |-> 2,
     CHECK |-> 2, TIME |-> 2, WINDOW |-> 2, RETAIN |-> 1, ISSUE |-> 2,
     RENEWTICKET |-> 2, CHECKTICKET |-> 1]

\* The families of commands, in the order execute_commands asks them.
Families == <<"archive", "query", "codec", "session">>

\* The rows of two tables.
Joined(f, g) ==
    [verb \in DOMAIN f \cup DOMAIN g |->
        IF verb \in DOMAIN f THEN f[verb] ELSE g[verb]]

Arity(family) ==
    CASE family = "archive" -> ArchiveArity
      [] family = "query"   -> Joined(QueryArity, ReportArity)
      [] family = "codec"   -> CodecArity
      [] family = "session" -> SessionArity

\* The verbs of dispatch_query whose number of arguments varies.
Knows(family, verb) ==
    \/ verb \in DOMAIN Arity(family)
    \/ family = "query" /\ verb \in {"SCHEMA", "LINKS"}

\* The check each branch of a dispatcher makes first.
Accepts(family, verb, argc) ==
    \/ verb \in DOMAIN Arity(family) /\ argc = Arity(family)[verb]
    \/ verb = "SCHEMA" /\ argc >= 4 /\ argc % 3 = 1
    \/ verb = "LINKS" /\ argc > 0

-----------------------------------------------------------------------------
VARIABLES
    script,        \* the lines after the header
    header,        \* whether size and VSP1 header are valid
    profile,       \* the Profile execute_script is called with
    phase,         \* "parsing", "running" or "done"
    line,          \* the next line to parse
    commands,      \* the lines of the commands parsed so far
    at,            \* the command being executed
    stage,         \* the dispatcher it is offered to next
    calls,         \* history: the handler calls, line and outcome
    answer         \* what execute_script returns, and the line it names

vars == <<script, header, profile, phase, line, commands, at, stage, status,
          calls, answer>>

Profiles == {Families[i] : i \in DOMAIN Families} \cup {"all"}

NoAnswer == [status |-> "none", line |-> 0]

Init ==
    /\ script \in UNION {[1..n -> Lines] : n \in 0..MaxLines}
    /\ header \in BOOLEAN
    /\ profile \in Profiles
    /\ phase = "parsing"
    /\ line = 1
    /\ commands = <<>>
    /\ at = 1
    /\ stage = 1
    /\ status = "unsupported"
    /\ calls = <<>>
    /\ answer = NoAnswer

Finish(outcome, where) ==
    /\ phase' = "done"
    /\ answer' = [status |-> outcome, line |-> where]

-----------------------------------------------------------------------------
(* parse_script: no command is executed before the whole script is parsed.  *)

Parsing ==
    /\ phase = "parsing"
    /\ UNCHANGED <<script, header, profile, at, stage, status, calls>>

RejectScript ==
    /\ Parsing
    /\ ~header
    /\ Finish("malformed", 0)
    /\ UNCHANGED <<line, commands>>

RejectLine ==
    /\ Parsing
    /\ header /\ line <= Len(script)
    /\ script[line].is = "invalid"
    /\ Finish("malformed", 0)
    /\ UNCHANGED <<line, commands>>

\* Mutant: a blank line is read over and over.
SkipLineNever ==
    /\ Parsing
    /\ header /\ line <= Len(script)
    /\ script[line].is = "blank"
    /\ UNCHANGED <<line, phase, commands, answer>>

SkipLine ==
    /\ Parsing
    /\ header /\ line <= Len(script)
    /\ script[line].is = "blank"
    /\ line' = line + 1
    /\ UNCHANGED <<phase, commands, answer>>

ParseCommand ==
    /\ Parsing
    /\ header /\ line <= Len(script)
    /\ script[line].is = "command"
    /\ commands' = Append(commands, line)
    /\ line' = line + 1
    /\ IF Len(commands') > CommandLimit THEN Finish("limit", 0)
       ELSE UNCHANGED <<phase, answer>>

\* Mutant: the lines parsed so far are executed.
StartExecutionEarly ==
    /\ Parsing
    /\ header
    /\ phase' = "running"
    /\ UNCHANGED <<line, commands, answer>>

StartExecution ==
    /\ Parsing
    /\ header /\ line > Len(script)
    /\ phase' = "running"
    /\ UNCHANGED <<line, commands, answer>>

-----------------------------------------------------------------------------
(* execute_commands *)

Enabled(family) == profile \in {family, "all"}

Command == script[commands[at]]

Running ==
    /\ phase = "running"
    /\ UNCHANGED <<script, header, profile, line, commands>>

\* The dispatcher is skipped: not of the profile, or the command has its
\* outcome already.
PassOver ==
    /\ Running
    /\ at <= Len(commands) /\ stage <= Len(Families)
    /\ status # "unsupported" \/ ~Enabled(Families[stage])
    /\ stage' = stage + 1
    /\ UNCHANGED <<phase, at, status, calls, answer>>

\* The dispatcher compares the verb with those it knows, checks the
\* arguments and calls the handler.
Dispatch ==
    /\ Running
    /\ at <= Len(commands) /\ stage <= Len(Families)
    /\ status = "unsupported" /\ Enabled(Families[stage])
    /\ stage' = stage + 1
    /\ LET family == Families[stage]
       IN  CASE ~Knows(family, Command.verb) ->
                  UNCHANGED <<status, calls>>
             [] Knows(family, Command.verb)
                /\ ~(Accepts(family, Command.verb, Command.argc)
                     /\ Command.parses) ->
                  status' = "malformed" /\ UNCHANGED calls
             [] OTHER ->
                  \E outcome \in Outcomes :
                     /\ status' = outcome
                     /\ calls' = Append(calls, [line |-> commands[at],
                                                outcome |-> outcome])
    /\ UNCHANGED <<phase, at, answer>>

\* Mutant: an unsupported command is tried once more.
FinishCommandRetries ==
    /\ Running
    /\ at <= Len(commands) /\ stage > Len(Families)
    /\ Len(calls) < 2 * MaxLines
    /\ IF Continues(status)
       THEN /\ at' = IF status = "unsupported" THEN at ELSE at + 1
            /\ stage' = 1
            /\ status' = "unsupported"
            /\ UNCHANGED <<phase, answer>>
       ELSE /\ Finish(status, commands[at])
            /\ UNCHANGED <<at, stage, status>>
    /\ UNCHANGED calls

\* After the last dispatcher: on to the next command, or out.
FinishCommand ==
    /\ Running
    /\ at <= Len(commands) /\ stage > Len(Families)
    /\ IF Continues(status)
       THEN /\ at' = at + 1
            /\ stage' = 1
            /\ status' = "unsupported"
            /\ UNCHANGED <<phase, answer>>
       ELSE /\ Finish(status, commands[at])
            /\ UNCHANGED <<at, stage, status>>
    /\ UNCHANGED calls

\* Mutant: the last command is left out.
FinishJournalOffByOne ==
    /\ Running
    /\ at >= Len(commands)
    /\ Finish("ok", 0)
    /\ UNCHANGED <<at, stage, status, calls>>

FinishJournal ==
    /\ Running
    /\ at > Len(commands)
    /\ Finish("ok", 0)
    /\ UNCHANGED <<at, stage, status, calls>>

-----------------------------------------------------------------------------
Next ==
    \/ RejectScript \/ RejectLine \/ SkipLine \/ ParseCommand \/ StartExecution
    \/ PassOver \/ Dispatch \/ FinishCommand \/ FinishJournal

Spec == Init /\ [][Next]_vars

\* A single thread that never waits: some step is always taken.
FairSpec == Spec /\ WF_vars(Next)

-----------------------------------------------------------------------------
CommandLines == {i \in DOMAIN script : script[i].is = "command"}

\* A command some dispatcher of the profile knows.
Known(i) == \E k \in DOMAIN Families :
                Enabled(Families[k]) /\ Knows(Families[k], script[i].verb)

CalledLines == {calls[k].line : k \in DOMAIN calls}

(* No handler runs before the whole script has been found well formed: a    *)
(* bad line at the end of a journal leaves no effect of those before it.    *)
ParsedBeforeRun ==
    calls # <<>> =>
        /\ header
        /\ \A i \in DOMAIN script : script[i].is # "invalid"
        /\ Len(commands) <= CommandLimit
        /\ {commands[k] : k \in DOMAIN commands} = CommandLines

(* Each command runs at most one handler, of a family of the profile, and   *)
(* they run in the order of the script: a handler that says unsupported     *)
(* makes the engine ask the next dispatcher, which must not know the verb.  *)
CalledInOrder ==
    /\ \A k \in 1..(Len(calls) - 1) : calls[k].line < calls[k + 1].line
    /\ \A k \in DOMAIN calls : calls[k].line \in CommandLines /\ Known(calls[k].line)

(* A journal that ends well has run every command its profile knows; one    *)
(* that fails in line n has run all before n that it knows, and nothing     *)
(* after: a handler that fails is the last, and the answer is its outcome.  *)
AnswerComplete ==
    /\ phase = "done" /\ (answer.status = "ok" \/ answer.line > 0) =>
          \A i \in CommandLines :
             Known(i) /\ (answer.status = "ok" \/ i < answer.line) => i \in CalledLines
    /\ \A k \in DOMAIN calls :
          ~Continues(calls[k].outcome) =>
             /\ k = Len(calls)
             /\ phase = "done" => answer = [status |-> calls[k].outcome,
                                            line |-> calls[k].line]

(* Every journal comes to an answer. *)
Answers == <>(phase = "done")

(* A journal with a command that is unsupported fails with that status      *)
(* (key_watch_activity_tests.cpp, "unknown key audit report rejected").     *)
UnsupportedReported ==
    phase = "done" /\ (\E k \in DOMAIN calls : calls[k].outcome = "unsupported")
        => answer.status # "ok"
=============================================================================
