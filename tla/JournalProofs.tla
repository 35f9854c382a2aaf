--------------------------- MODULE JournalProofs ---------------------------
(* Proofs about Journal, for any set of lines and any limits.  The          *)
(* inductive invariant is Inv: what the parser has established about the    *)
(* lines before the one it reads (ParseInv), that the commands before the   *)
(* current one are dealt with (DealtWith), and how far the dispatchers are  *)
(* with the current one (CurrentInv).  That a command runs one handler only *)
(* rests on the tables of verbs: no verb is known to two dispatchers        *)
(* (KnownOnce).                                                             *)
EXTENDS Journal, TLAPS

Call == [line : Nat, outcome : Outcomes]

TypeOK ==
    /\ script \in Seq(Lines)
    /\ phase \in {"parsing", "running", "done"}
    /\ line \in 1..(Len(script) + 1)
    /\ commands \in Seq(Nat)
    /\ at \in 1..(Len(commands) + 1)
    /\ stage \in 1..5
    /\ status \in Outcomes
    /\ calls \in Seq(Call)

\* The journal has been parsed and its commands are, or were, executed.
Begun ==
    \/ phase = "running"
    \/ phase = "done" /\ (answer.status = "ok" \/ answer.line > 0)

ParseInv ==
    /\ \A j, k \in 1..Len(commands) : j < k => commands[j] < commands[k]
    /\ \A k \in 1..Len(commands) : commands[k] \in CommandLines /\ commands[k] < line
    /\ \A i \in CommandLines :
          i < line => \E k \in 1..Len(commands) : commands[k] = i
    /\ \A i \in 1..Len(script) : i < line => script[i].is # "invalid"
    /\ phase = "parsing" => /\ at = 1 /\ stage = 1 /\ status = "unsupported"
                            /\ answer = NoAnswer
                            /\ Len(commands) <= CommandLimit
    /\ Begun => /\ header
                /\ line = Len(script) + 1
                /\ Len(commands) <= CommandLimit
    /\ ~Begun => calls = <<>>

\* Handlers were called for commands of the profile, none beyond the current.
CallsSoFar ==
    \A k \in 1..Len(calls) :
        /\ calls[k].line \in CommandLines
        /\ Known(calls[k].line)
        /\ at <= Len(commands) => calls[k].line <= commands[at]

CallsAscend == \A k \in 1..(Len(calls) - 1) : calls[k].line < calls[k + 1].line

\* The commands before the current one have run, if the profile knows them.
DealtWith ==
    \A j \in 1..Len(commands) :
        j < at /\ Known(commands[j]) => commands[j] \in CalledLines

\* A handler that failed was the last, and its outcome is the one that counts.
FailedIsLast ==
    \A k \in 1..Len(calls) :
        ~Continues(calls[k].outcome) =>
            /\ k = Len(calls)
            /\ phase = "running" => /\ at <= Len(commands)
                                    /\ calls[k].line = commands[at]
                                    /\ status = calls[k].outcome
            /\ phase = "done" => answer = [status |-> calls[k].outcome,
                                           line |-> calls[k].line]

\* A dispatcher already asked that knows the verb of the current command.
AskedOneThatKnows ==
    \E s \in 1..4 : s < stage /\ Enabled(Families[s]) /\ Knows(Families[s], Command.verb)

\* The current command: as long as no dispatcher had an outcome for it, it has
\* run exactly if one of those asked knows it.
CurrentInv ==
    phase = "running" /\ at <= Len(commands) =>
        /\ status = "unsupported" =>
              (AskedOneThatKnows <=> commands[at] \in CalledLines)
        /\ status = "ok" => commands[at] \in CalledLines

\* How the journal ended.
EndInv ==
    phase = "done" =>
        /\ answer.status = "ok" => at = Len(commands) + 1
        /\ answer.status # "ok" /\ answer.line > 0 =>
              at <= Len(commands) /\ answer.line = commands[at]

Inv ==
    /\ TypeOK
    /\ ParseInv
    /\ CallsSoFar
    /\ CallsAscend
    /\ DealtWith
    /\ FailedIsLast
    /\ CurrentInv
    /\ EndInv

-----------------------------------------------------------------------------
(* Extending a sequence by one element.                                     *)
LEMMA AppendFacts ==
    ASSUME NEW S, NEW s \in Seq(S), NEW e \in S
    PROVE  /\ Append(s, e) \in Seq(S)
           /\ Len(s) \in Nat
           /\ Len(Append(s, e)) = Len(s) + 1
           /\ Append(s, e)[Len(s) + 1] = e
           /\ \A i \in 1..Len(s) : Append(s, e)[i] = s[i]
OBVIOUS

LEMMA FourFamilies ==
    /\ Len(Families) = 4
    /\ DOMAIN Families = 1..4
    /\ Families[1] = "archive" /\ Families[2] = "query"
    /\ Families[3] = "codec" /\ Families[4] = "session"
BY DEF Families

(* What each dispatcher knows.                                              *)
LEMMA VerbTables ==
    ASSUME NEW verb
    PROVE  /\ Knows("archive", verb) <=> verb \in DOMAIN ArchiveArity
           /\ Knows("query", verb) <=>
                 verb \in DOMAIN QueryArity \cup DOMAIN ReportArity \cup {"SCHEMA", "LINKS"}
           /\ Knows("codec", verb) <=> verb \in DOMAIN CodecArity
           /\ Knows("session", verb) <=> verb \in DOMAIN SessionArity
<1>1. Arity("archive") = ArchiveArity
  BY DEF Arity
<1>2. Arity("query") = Joined(QueryArity, ReportArity)
  BY DEF Arity
<1>3. Arity("codec") = CodecArity
  BY DEF Arity
<1>4. Arity("session") = SessionArity
  BY DEF Arity
<1>5. DOMAIN Joined(QueryArity, ReportArity) = DOMAIN QueryArity \cup DOMAIN ReportArity
  BY DEF Joined
<1> QED
  BY <1>1, <1>2, <1>3, <1>4, <1>5 DEF Knows

(* No verb is known to two dispatchers.                                     *)
LEMMA KnownOnce ==
    ASSUME NEW verb, NEW a \in 1..4, NEW b \in 1..4,
           Knows(Families[a], verb), Knows(Families[b], verb)
    PROVE  a = b
<1>1. DOMAIN ArchiveArity \cap DOMAIN CodecArity = {}
  BY DEF ArchiveArity, CodecArity
<1>2. DOMAIN ArchiveArity \cap DOMAIN SessionArity = {}
  BY DEF ArchiveArity, SessionArity
<1>3. DOMAIN CodecArity \cap DOMAIN SessionArity = {}
  BY DEF CodecArity, SessionArity
<1>4. DOMAIN ArchiveArity \cap DOMAIN QueryArity = {}
  BY DEF ArchiveArity, QueryArity
<1>5. DOMAIN ArchiveArity \cap DOMAIN ReportArity = {}
  BY DEF ArchiveArity, ReportArity
<1>6. DOMAIN CodecArity \cap DOMAIN QueryArity = {}
  BY DEF CodecArity, QueryArity
<1>7. DOMAIN CodecArity \cap DOMAIN ReportArity = {}
  BY DEF CodecArity, ReportArity
<1>8. DOMAIN SessionArity \cap DOMAIN QueryArity = {}
  BY DEF SessionArity, QueryArity
<1>9. DOMAIN SessionArity \cap DOMAIN ReportArity = {}
  BY DEF SessionArity, ReportArity
<1>10. \A other \in {"SCHEMA", "LINKS"} :
           /\ other \notin DOMAIN ArchiveArity
           /\ other \notin DOMAIN CodecArity
           /\ other \notin DOMAIN SessionArity
  BY DEF ArchiveArity, CodecArity, SessionArity
<1>11. a \in {1, 2, 3, 4} /\ b \in {1, 2, 3, 4}
  OBVIOUS
<1> QED
  BY <1>1, <1>2, <1>3, <1>4, <1>5, <1>6, <1>7, <1>8, <1>9, <1>10, <1>11,
     FourFamilies, VerbTables

-----------------------------------------------------------------------------
LEMMA InitInv == Init => Inv
<1> SUFFICES ASSUME Init PROVE Inv
  OBVIOUS
<1>1. script \in Seq(Lines) /\ Len(script) \in Nat
  <2>1. PICK n \in 0..MaxLines : script \in [1..n -> Lines]
    BY DEF Init
  <2> QED
    BY <2>1, JournalConstants
<1>2. <<>> \in Seq(Nat) /\ <<>> \in Seq(Call) /\ Len(<<>>) = 0
  OBVIOUS
<1>3. TypeOK
  BY <1>1, <1>2 DEF Init, TypeOK, Outcomes
<1>4. ParseInv
  BY <1>1, <1>2, JournalConstants DEF Init, ParseInv, Begun, CommandLines, NoAnswer
<1>5. CallsSoFar /\ CallsAscend /\ DealtWith /\ FailedIsLast
  BY <1>2 DEF Init, CallsSoFar, CallsAscend, DealtWith, FailedIsLast
<1> QED
  BY <1>3, <1>4, <1>5 DEF Init, Inv, CurrentInv, EndInv

(* What is known of a line depends on the script and the profile only.      *)
LEMMA KnownStays ==
    ASSUME UNCHANGED <<script, profile>>
    PROVE  /\ CommandLines' = CommandLines
           /\ \A i : Known(i)' <=> Known(i)
BY DEF CommandLines, Known, Enabled

(* While the script is parsed no handler is called, whatever the parser     *)
(* reads.                                                                   *)
LEMMA ParsingCallsNothing ==
    ASSUME Inv, Parsing, commands' \in Seq(Nat),
           phase' = "done" => answer'.status # "ok" /\ answer'.line = 0
    PROVE  /\ calls' = <<>> /\ at' = 1 /\ stage' = 1 /\ status' = "unsupported"
           /\ CallsSoFar' /\ CallsAscend' /\ DealtWith' /\ FailedIsLast'
           /\ CurrentInv' /\ EndInv'
<1>1. calls = <<>> /\ at = 1 /\ stage = 1 /\ status = "unsupported"
  BY DEF Parsing, Inv, ParseInv, Begun
<1>2. calls' = <<>> /\ at' = 1 /\ stage' = 1 /\ status' = "unsupported"
  BY <1>1 DEF Parsing
<1>3. Len(calls') = 0 /\ DOMAIN calls' = {}
  BY <1>2
<1>4. CallsSoFar' /\ CallsAscend' /\ FailedIsLast'
  BY <1>3 DEF CallsSoFar, CallsAscend, FailedIsLast
<1>5. DealtWith'
  BY <1>2 DEF DealtWith
<1>6. CurrentInv'
  BY <1>2, <1>3 DEF CurrentInv, AskedOneThatKnows, CalledLines
<1>7. EndInv'
  BY DEF EndInv
<1> QED
  BY <1>2, <1>4, <1>5, <1>6, <1>7

LEMMA ParsingStep ==
    ASSUME Inv, RejectScript \/ RejectLine \/ SkipLine \/ ParseCommand
                \/ StartExecution
    PROVE  Inv'
<1>1. /\ script \in Seq(Lines) /\ Len(script) \in Nat
      /\ line \in 1..(Len(script) + 1)
      /\ commands \in Seq(Nat) /\ Len(commands) \in Nat
  BY DEF Inv, TypeOK
<1>2. Parsing
  BY DEF RejectScript, RejectLine, SkipLine, ParseCommand, StartExecution
<1>3. /\ phase = "parsing"
      /\ UNCHANGED <<script, header, profile, at, stage, status, calls>>
      /\ CommandLines' = CommandLines
  BY <1>2, KnownStays DEF Parsing
<1>4. /\ at = 1 /\ stage = 1 /\ status = "unsupported"
      /\ calls = <<>> /\ Len(commands) <= CommandLimit
  BY <1>3 DEF Inv, ParseInv, Begun
<1>5. CASE RejectScript \/ RejectLine
  <2>1. /\ UNCHANGED <<line, commands>>
        /\ phase' = "done" /\ answer' = [status |-> "malformed", line |-> 0]
    BY <1>5 DEF RejectScript, RejectLine, Finish
  <2>2. ~Begun'
    BY <2>1 DEF Begun
  <2>3. TypeOK'
    BY <1>3, <2>1 DEF Inv, TypeOK
  <2>4. ParseInv'
    BY <1>3, <1>4, <2>1, <2>2 DEF Inv, ParseInv
  <2> QED
    BY <1>1, <1>2, <2>1, <2>3, <2>4, ParsingCallsNothing DEF Inv
<1>6. CASE SkipLine
  <2>1. /\ UNCHANGED <<phase, commands, answer>>
        /\ header /\ line <= Len(script) /\ script[line].is = "blank"
        /\ line' = line + 1
    BY <1>6 DEF SkipLine
  <2>2. ~Begun'
    BY <1>3, <2>1 DEF Begun
  <2>3. TypeOK'
    BY <1>1, <1>3, <2>1 DEF Inv, TypeOK
  <2>4. line \notin CommandLines
    BY <2>1 DEF CommandLines
  <2>5. \A k \in 1..Len(commands) : commands[k] \in Nat
    BY <1>1
  <2>6. CommandLines \subseteq Nat
    BY <1>1 DEF CommandLines
  <2>7. \A i \in CommandLines : i < line' <=> i < line
    BY <1>1, <2>1, <2>4, <2>6
  <2>8. \A k \in 1..Len(commands) :
           commands[k] \in CommandLines /\ commands[k] < line'
    BY <1>1, <2>1, <2>5 DEF Inv, ParseInv
  <2>9. \A i \in 1..Len(script) : i < line' => script[i].is # "invalid"
    BY <1>1, <2>1 DEF Inv, ParseInv
  <2>10. ParseInv'
    BY <1>3, <1>4, <2>1, <2>2, <2>7, <2>8, <2>9 DEF Inv, ParseInv
  <2> QED
    BY <1>1, <1>2, <1>3, <2>1, <2>3, <2>10, ParsingCallsNothing DEF Inv
<1>7. CASE ParseCommand
  <2>1. /\ header /\ line <= Len(script) /\ script[line].is = "command"
        /\ commands' = Append(commands, line)
        /\ line' = line + 1
        /\ IF Len(commands') > CommandLimit
           THEN phase' = "done" /\ answer' = [status |-> "limit", line |-> 0]
           ELSE UNCHANGED <<phase, answer>>
    BY <1>7 DEF ParseCommand, Finish
  <2>2. /\ commands' \in Seq(Nat)
        /\ Len(commands') = Len(commands) + 1
        /\ commands'[Len(commands) + 1] = line
        /\ \A k \in 1..Len(commands) : commands'[k] = commands[k]
    BY <1>1, <2>1, AppendFacts
  <2>3. ~Begun'
    BY <1>3, <2>1 DEF Begun
  <2>4. TypeOK'
    BY <1>1, <1>3, <1>4, <2>1, <2>2 DEF Inv, TypeOK
  <2>5. line \in CommandLines
    BY <1>1, <2>1 DEF CommandLines
  <2>6. \A k \in 1..Len(commands) : /\ commands[k] \in CommandLines
                                    /\ commands[k] < line
                                    /\ commands[k] \in Nat
    BY <1>1 DEF Inv, ParseInv
  <2>7. CommandLines \subseteq Nat
    BY <1>1 DEF CommandLines
  <2>8. ASSUME NEW j \in 1..Len(commands'), NEW k \in 1..Len(commands'), j < k
        PROVE  commands'[j] < commands'[k]
    <3>1. j \in 1..Len(commands)
      BY <1>1, <2>2, <2>8
    <3>2. CASE k = Len(commands) + 1
      BY <2>2, <2>6, <3>1, <3>2
    <3>3. CASE k \in 1..Len(commands)
      BY <2>2, <2>8, <3>1, <3>3 DEF Inv, ParseInv
    <3> QED
      BY <1>1, <2>2, <3>2, <3>3
  <2>9. \A k \in 1..Len(commands') : commands'[k] \in CommandLines /\ commands'[k] < line'
    BY <1>1, <2>1, <2>2, <2>5, <2>6
  <2>10. ASSUME NEW i \in CommandLines, i < line'
         PROVE  \E k \in 1..Len(commands') : commands'[k] = i
    <3>1. i = line \/ i < line
      BY <1>1, <2>1, <2>7, <2>10
    <3>2. CASE i = line
      BY <1>1, <2>2, <3>2
    <3>3. CASE i < line
      <4>1. PICK k \in 1..Len(commands) : commands[k] = i
        BY <3>3 DEF Inv, ParseInv
      <4>2. k \in 1..Len(commands') /\ commands'[k] = commands[k]
        BY <1>1, <2>2, <4>1
      <4> QED
        BY <4>1, <4>2
    <3> QED
      BY <3>1, <3>2, <3>3
  <2>11. \A i \in 1..Len(script) : i < line' => script[i].is # "invalid"
    BY <1>1, <2>1 DEF Inv, ParseInv
  <2>12. phase' = "parsing" => Len(commands') <= CommandLimit
    BY <1>1, <2>1, <2>2, JournalConstants
  <2>13. ParseInv'
    BY <1>3, <1>4, <2>1, <2>3, <2>8, <2>9, <2>10, <2>11, <2>12
       DEF Inv, ParseInv
  <2> QED
    BY <1>2, <1>3, <2>1, <2>2, <2>4, <2>13, ParsingCallsNothing DEF Inv
<1>8. CASE StartExecution
  <2>1. /\ UNCHANGED <<line, commands, answer>>
        /\ header /\ line > Len(script) /\ phase' = "running"
    BY <1>8 DEF StartExecution
  <2>2. TypeOK'
    BY <1>3, <2>1 DEF Inv, TypeOK
  <2>3. line = Len(script) + 1
    BY <1>1, <2>1
  <2>4. Begun'
    BY <2>1 DEF Begun
  <2>5. ParseInv'
    BY <1>3, <1>4, <2>1, <2>3, <2>4 DEF Inv, ParseInv
  <2> QED
    BY <1>1, <1>2, <2>1, <2>2, <2>5, ParsingCallsNothing DEF Inv
<1> QED
  BY <1>5, <1>6, <1>7, <1>8

-----------------------------------------------------------------------------
(* Execution changes nothing the parser has established.                    *)
LEMMA RunningKeeps ==
    ASSUME Inv, Running, at' \in 1..(Len(commands) + 1), Begun'
    PROVE  /\ ParseInv'
           /\ UNCHANGED <<script, header, profile, line, commands>>
           /\ CommandLines' = CommandLines
           /\ \A i : Known(i)' <=> Known(i)
           /\ Begun
<1>1. /\ phase = "running"
      /\ UNCHANGED <<script, header, profile, line, commands>>
  BY DEF Running
<1>2. CommandLines' = CommandLines /\ \A i : Known(i)' <=> Known(i)
  BY <1>1, KnownStays
<1>3. Begun
  BY <1>1 DEF Begun
<1>4. phase' # "parsing"
  BY DEF Begun
<1>5. ParseInv'
  BY <1>1, <1>2, <1>3, <1>4 DEF Inv, ParseInv
<1> QED
  BY <1>1, <1>2, <1>3, <1>5

(* A dispatcher that is passed over, or that does not know the verb, leaves *)
(* the command to those after it.                                           *)
LEMMA AskedOn ==
    ASSUME Inv, Running, at <= Len(commands), stage <= 4, stage' = stage + 1,
           at' = at, phase' = "running", UNCHANGED <<status, calls>>,
           status # "unsupported" \/ ~Enabled(Families[stage])
                                  \/ ~Knows(Families[stage], Command.verb)
    PROVE  Inv'
<1>1. /\ phase = "running"
      /\ stage \in 1..5 /\ at \in 1..(Len(commands) + 1)
      /\ commands \in Seq(Nat) /\ Len(commands) \in Nat
  BY DEF Inv, TypeOK, Running
<1>2. /\ ParseInv'
      /\ UNCHANGED <<script, header, profile, line, commands>>
      /\ CommandLines' = CommandLines
      /\ \A i : Known(i)' <=> Known(i)
  BY <1>1, RunningKeeps DEF Begun
<1>3. TypeOK'
  BY <1>1, <1>2 DEF Inv, TypeOK
<1>4. CallsSoFar' /\ CallsAscend' /\ DealtWith'
  BY <1>2 DEF Inv, CallsSoFar, CallsAscend, DealtWith, CalledLines
<1>5. FailedIsLast'
  BY <1>1, <1>2 DEF Inv, FailedIsLast
<1>6. ASSUME status = "unsupported" PROVE AskedOneThatKnows' <=> AskedOneThatKnows
  <2>1. Command' = Command /\ \A f : Enabled(f)' <=> Enabled(f)
    BY <1>2 DEF Command, Enabled
  <2>2. ~(Enabled(Families[stage]) /\ Knows(Families[stage], Command.verb))
    BY <1>6
  <2>3. \A s \in 1..4 : s < stage' <=> s < stage \/ s = stage
    BY <1>1
  <2> QED
    BY <1>1, <2>1, <2>2, <2>3 DEF AskedOneThatKnows
<1>7. CurrentInv'
  BY <1>1, <1>2, <1>6 DEF Inv, CurrentInv, CalledLines
<1>8. EndInv'
  BY DEF EndInv
<1> QED
  BY <1>2, <1>3, <1>4, <1>5, <1>7, <1>8 DEF Inv

LEMMA DispatchStep ==
    ASSUME Inv, Dispatch
    PROVE  Inv'
<1> DEFINE family == Families[stage]
           verb == Command.verb
           well == Accepts(family, verb, Command.argc) /\ Command.parses
<1>1. /\ phase = "running" /\ phase' = "running"
      /\ stage \in 1..5 /\ at \in 1..Len(commands)
      /\ commands \in Seq(Nat) /\ Len(commands) \in Nat
      /\ calls \in Seq(Call) /\ Len(calls) \in Nat
      /\ status = "unsupported" /\ Enabled(family)
      /\ stage' = stage + 1 /\ UNCHANGED <<at, answer>>
      /\ Running
    BY DEF Dispatch, Inv, TypeOK, Running
<1>2. stage \in 1..4
  BY <1>1, FourFamilies DEF Dispatch
<1>3. /\ ParseInv'
      /\ UNCHANGED <<script, header, profile, line, commands>>
      /\ CommandLines' = CommandLines
      /\ \A i : Known(i)' <=> Known(i)
  BY <1>1, RunningKeeps DEF Begun
<1>4. commands[at] \in Nat /\ commands[at] \in CommandLines
  <2>1. commands[at] \in Nat
    BY <1>1
  <2>2. commands[at] \in CommandLines
    BY <1>1 DEF Inv, ParseInv
  <2> QED
    BY <2>1, <2>2
<1>5. \A k \in 1..Len(calls) : Continues(calls[k].outcome)
  BY <1>1 DEF Inv, FailedIsLast, Continues
<1>6. CASE ~Knows(family, verb)
  <2>1. UNCHANGED <<status, calls>>
    BY <1>6 DEF Dispatch
  <2> QED
    BY <1>1, <1>2, <1>6, <2>1, AskedOn
<1>7. CASE Knows(family, verb) /\ ~well
  <2>1. status' = "malformed" /\ UNCHANGED calls
    BY <1>7 DEF Dispatch
  <2>2. TypeOK'
    BY <1>1, <1>2, <1>3, <2>1 DEF Inv, TypeOK, Outcomes
  <2>3. CallsSoFar' /\ CallsAscend' /\ DealtWith'
    BY <1>1, <1>3, <2>1 DEF Inv, CallsSoFar, CallsAscend, DealtWith, CalledLines
  <2>4. FailedIsLast'
    BY <1>5, <2>1 DEF FailedIsLast
  <2>5. CurrentInv' /\ EndInv'
    BY <1>1, <2>1 DEF CurrentInv, EndInv
  <2> QED
    BY <1>3, <2>2, <2>3, <2>4, <2>5 DEF Inv
<1>8. CASE Knows(family, verb) /\ well
  <2>1. PICK outcome \in Outcomes :
            /\ status' = outcome
            /\ calls' = Append(calls, [line |-> commands[at], outcome |-> outcome])
    BY <1>8 DEF Dispatch
  <2> DEFINE call == [line |-> commands[at], outcome |-> outcome]
  <2>2. /\ call \in Call
        /\ call.line = commands[at] /\ call.outcome = outcome
        /\ calls' = Append(calls, call)
    BY <1>1, <2>1 DEF Call
  <2> HIDE DEF call
  <2>3. /\ calls' \in Seq(Call)
        /\ Len(calls') = Len(calls) + 1
        /\ calls'[Len(calls) + 1] = call
        /\ \A k \in 1..Len(calls) : calls'[k] = calls[k]
    BY <1>1, <2>2, AppendFacts
  <2>4. CalledLines' = CalledLines \cup {commands[at]}
    <3>1. DOMAIN calls' = DOMAIN calls \cup {Len(calls) + 1}
          /\ DOMAIN calls = 1..Len(calls)
      BY <1>1, <2>3
    <3> QED
      BY <2>2, <2>3, <3>1 DEF CalledLines
  <2>5. commands[at] \notin CalledLines
    <3>1. ~AskedOneThatKnows
      <4> SUFFICES ASSUME NEW s \in 1..4, s < stage, Knows(Families[s], verb)
                   PROVE  FALSE
        BY DEF AskedOneThatKnows
      <4>1. s = stage
        BY <1>2, <1>8, KnownOnce
      <4> QED
        BY <1>2, <4>1
    <3> QED
      BY <1>1, <3>1 DEF Inv, CurrentInv
  <2>6. \A k \in 1..Len(calls) : calls[k].line < commands[at]
    <3>1. ASSUME NEW k \in 1..Len(calls) PROVE calls[k].line < commands[at]
      <4>1. calls[k].line \in Nat
        <5>1. calls[k] \in Call
          BY <1>1
        <5> QED
          BY <5>1 DEF Call
      <4>2. calls[k].line <= commands[at]
        BY <1>1 DEF Inv, CallsSoFar
      <4>3. calls[k].line # commands[at]
        BY <1>1, <2>5 DEF CalledLines
      <4> QED
        BY <1>4, <4>1, <4>2, <4>3
    <3> QED
      BY <3>1
  <2>7. commands[at] \in CommandLines /\ Known(commands[at]) /\ commands[at] \in Nat
    BY <1>1, <1>2, <1>4, <1>8, FourFamilies DEF Known, Command
  <2>8. TypeOK'
    <3>1. stage' \in 1..5 /\ status' \in Outcomes /\ calls' \in Seq(Call)
      BY <1>1, <1>2, <2>1, <2>3
    <3> QED
      BY <1>1, <1>3, <3>1 DEF Inv, TypeOK
  <2>9. CallsSoFar'
    <3> SUFFICES ASSUME NEW k \in 1..Len(calls')
                 PROVE  /\ calls'[k].line \in CommandLines
                        /\ Known(calls'[k].line)
                        /\ calls'[k].line <= commands[at]
      BY <1>1, <1>3 DEF CallsSoFar
    <3>1. CASE k = Len(calls) + 1
      BY <2>2, <2>3, <2>7, <3>1
    <3>2. CASE k \in 1..Len(calls)
      <4>1. calls'[k] = calls[k]
        BY <2>3, <3>2
      <4>2. /\ calls[k].line \in CommandLines
            /\ Known(calls[k].line)
            /\ at <= Len(commands) => calls[k].line <= commands[at]
        BY <3>2 DEF Inv, CallsSoFar
      <4>3. at <= Len(commands)
        BY <1>1
      <4> QED
        BY <4>1, <4>2, <4>3
    <3> QED
      BY <1>1, <2>3, <3>1, <3>2
  <2>10. CallsAscend'
    <3> SUFFICES ASSUME NEW k \in 1..Len(calls)
                 PROVE  calls'[k].line < calls'[k + 1].line
      BY <1>1, <2>3 DEF CallsAscend
    <3>1. CASE k = Len(calls)
      BY <2>2, <2>3, <2>6, <3>1
    <3>2. CASE k # Len(calls)
      <4>1. k \in 1..(Len(calls) - 1) /\ k + 1 \in 1..Len(calls)
        BY <1>1, <3>2
      <4> QED
        BY <2>3, <4>1 DEF Inv, CallsAscend
    <3> QED
      BY <3>1, <3>2
  <2>11. DealtWith'
    BY <1>1, <1>3, <2>4 DEF Inv, DealtWith
  <2>12. FailedIsLast'
    BY <1>1, <1>3, <1>5, <2>1, <2>2, <2>3 DEF FailedIsLast
  <2>13. CurrentInv'
    <3>1. AskedOneThatKnows'
      <4>1. Command' = Command /\ \A f : Enabled(f)' <=> Enabled(f)
        BY <1>1, <1>3 DEF Command, Enabled
      <4> QED
        BY <1>1, <1>2, <1>8, <4>1 DEF AskedOneThatKnows
    <3>2. commands'[at'] \in CalledLines'
      BY <1>1, <1>3, <2>4
    <3> QED
      BY <3>1, <3>2 DEF CurrentInv
  <2>14. EndInv'
    BY <1>1 DEF EndInv
  <2> QED
    BY <1>3, <2>8, <2>9, <2>10, <2>11, <2>12, <2>13, <2>14 DEF Inv
<1> QED
  BY <1>6, <1>7, <1>8

LEMMA FinishCommandStep ==
    ASSUME Inv, FinishCommand
    PROVE  Inv'
<1>1. /\ phase = "running" /\ Running
      /\ stage = 5 /\ at \in 1..Len(commands) /\ at + 1 \in 1..(Len(commands) + 1)
      /\ commands \in Seq(Nat) /\ Len(commands) \in Nat
      /\ calls \in Seq(Call) /\ Len(calls) \in Nat
      /\ status \in Outcomes
      /\ UNCHANGED calls
  BY FourFamilies DEF FinishCommand, Inv, TypeOK, Running
<1>2. commands[at] \in Nat /\ commands[at] \in CommandLines /\ commands[at] > 0
  <2>1. commands[at] \in CommandLines
    BY <1>1 DEF Inv, ParseInv
  <2>2. CommandLines \subseteq 1..Len(script) /\ Len(script) \in Nat
    BY DEF CommandLines, Inv, TypeOK
  <2>3. commands[at] \in 1..Len(script)
    BY <2>1, <2>2
  <2> QED
    BY <2>1, <2>2, <2>3
<1>3. \A k \in 1..Len(calls) : /\ calls[k].line \in Nat
                               /\ calls[k].line <= commands[at]
  <2>1. \A k \in 1..Len(calls) : calls[k] \in Call
    BY <1>1
  <2> QED
    BY <1>1, <2>1 DEF Call, Inv, CallsSoFar
<1>4. CASE Continues(status)
  <2>1. /\ at' = at + 1 /\ stage' = 1 /\ status' = "unsupported"
        /\ UNCHANGED <<phase, answer>>
    BY <1>4 DEF FinishCommand
  <2>2. /\ ParseInv'
        /\ UNCHANGED <<script, header, profile, line, commands>>
        /\ CommandLines' = CommandLines
        /\ \A i : Known(i)' <=> Known(i)
    BY <1>1, <2>1, RunningKeeps DEF Begun
  <2>3. TypeOK'
    BY <1>1, <2>1, <2>2 DEF Inv, TypeOK, Outcomes
  <2>4. at + 1 <= Len(commands) =>
           /\ commands[at + 1] \in Nat
           /\ commands[at] < commands[at + 1]
    BY <1>1 DEF Inv, ParseInv
  <2>5. CallsSoFar'
    <3> SUFFICES ASSUME NEW k \in 1..Len(calls)
                 PROVE  /\ calls[k].line \in CommandLines
                        /\ Known(calls[k].line)
                        /\ at + 1 <= Len(commands) =>
                              calls[k].line <= commands[at + 1]
      BY <1>1, <2>1, <2>2 DEF CallsSoFar
    <3>1. calls[k].line \in CommandLines /\ Known(calls[k].line)
      BY DEF Inv, CallsSoFar
    <3>2. at + 1 <= Len(commands) => calls[k].line <= commands[at + 1]
      BY <1>2, <1>3, <2>4
    <3> QED
      BY <3>1, <3>2
  <2>6. Known(commands[at]) => commands[at] \in CalledLines
    <3>1. CASE status = "ok"
      BY <1>1, <3>1 DEF Inv, CurrentInv
    <3>2. CASE status = "unsupported"
      <4>1. ASSUME Known(commands[at]) PROVE AskedOneThatKnows
        BY <1>1, <4>1, FourFamilies DEF Known, AskedOneThatKnows, Command
      <4> QED
        BY <1>1, <3>2, <4>1 DEF Inv, CurrentInv
    <3> QED
      BY <1>4, <3>1, <3>2 DEF Continues
  <2>7. DealtWith'
    <3> SUFFICES ASSUME NEW j \in 1..Len(commands), j < at + 1, Known(commands[j])
                 PROVE  commands[j] \in CalledLines
      BY <1>1, <2>1, <2>2 DEF DealtWith, CalledLines
    <3>1. j = at \/ j < at
      BY <1>1
    <3> QED
      BY <2>6, <3>1 DEF Inv, DealtWith
  <2>8. FailedIsLast'
    BY <1>1, <1>4 DEF Inv, FailedIsLast
  <2>9. CurrentInv'
    <3> SUFFICES ASSUME at + 1 <= Len(commands)
                 PROVE  ~AskedOneThatKnows' /\ commands[at + 1] \notin CalledLines
      BY <1>1, <2>1, <2>2 DEF CurrentInv, CalledLines
    <3>1. ~AskedOneThatKnows'
      BY <2>1 DEF AskedOneThatKnows
    <3>2. \A k \in 1..Len(calls) : calls[k].line # commands[at + 1]
      BY <1>2, <1>3, <2>4
    <3>3. DOMAIN calls = 1..Len(calls)
      BY <1>1
    <3> QED
      BY <3>1, <3>2, <3>3 DEF CalledLines
  <2>10. EndInv'
    BY <1>1, <2>1 DEF EndInv
  <2> QED
    BY <1>1, <2>2, <2>3, <2>5, <2>7, <2>8, <2>9, <2>10 DEF Inv, CallsAscend
<1>5. CASE ~Continues(status)
  <2>1. /\ phase' = "done"
        /\ answer' = [status |-> status, line |-> commands[at]]
        /\ UNCHANGED <<at, stage, status>>
    BY <1>5 DEF FinishCommand, Finish
  <2>2. /\ ParseInv'
        /\ UNCHANGED <<script, header, profile, line, commands>>
        /\ CommandLines' = CommandLines
        /\ \A i : Known(i)' <=> Known(i)
    BY <1>1, <1>2, <2>1, RunningKeeps DEF Begun
  <2>3. TypeOK'
    BY <1>1, <2>1, <2>2 DEF Inv, TypeOK
  <2>4. CallsSoFar' /\ CallsAscend' /\ DealtWith'
    BY <1>1, <2>1, <2>2 DEF Inv, CallsSoFar, CallsAscend, DealtWith, CalledLines
  <2>5. FailedIsLast'
    BY <1>1, <2>1, <2>2 DEF Inv, FailedIsLast
  <2>6. CurrentInv' /\ EndInv'
    BY <1>1, <1>5, <2>1, <2>2 DEF CurrentInv, EndInv, Continues
  <2> QED
    BY <2>2, <2>3, <2>4, <2>5, <2>6 DEF Inv
<1> QED
  BY <1>4, <1>5

LEMMA FinishJournalStep ==
    ASSUME Inv, FinishJournal
    PROVE  Inv'
<1>1. /\ phase = "running" /\ Running
      /\ at = Len(commands) + 1
      /\ UNCHANGED <<at, stage, status, calls>>
      /\ phase' = "done" /\ answer' = [status |-> "ok", line |-> 0]
      /\ Len(commands) \in Nat
  <2>1. at \in 1..(Len(commands) + 1) /\ Len(commands) \in Nat
    BY DEF Inv, TypeOK
  <2> QED
    BY <2>1 DEF FinishJournal, Finish, Running
<1>2. /\ ParseInv'
      /\ UNCHANGED <<script, header, profile, line, commands>>
      /\ CommandLines' = CommandLines
      /\ \A i : Known(i)' <=> Known(i)
  BY <1>1, RunningKeeps DEF Begun
<1>3. TypeOK'
  BY <1>1, <1>2 DEF Inv, TypeOK
<1>4. CallsSoFar' /\ CallsAscend' /\ DealtWith'
  BY <1>1, <1>2 DEF Inv, CallsSoFar, CallsAscend, DealtWith, CalledLines
<1>5. FailedIsLast'
  BY <1>1 DEF Inv, FailedIsLast
<1>6. CurrentInv' /\ EndInv'
  BY <1>1, <1>2 DEF CurrentInv, EndInv
<1> QED
  BY <1>2, <1>3, <1>4, <1>5, <1>6 DEF Inv

LEMMA NextInv == Inv /\ [Next]_vars => Inv'
<1> SUFFICES ASSUME Inv, [Next]_vars PROVE Inv'
  OBVIOUS
<1>1. ASSUME PassOver PROVE Inv'
  <2>1. /\ Running /\ phase' = "running" /\ stage <= 4
        /\ at <= Len(commands) /\ stage' = stage + 1
        /\ UNCHANGED <<at, status, calls>>
        /\ status # "unsupported" \/ ~Enabled(Families[stage])
    BY <1>1, FourFamilies DEF PassOver, Running
  <2> QED
    BY <2>1, AskedOn
<1>2. CASE UNCHANGED vars
  <2>1. TypeOK' /\ ParseInv'
    BY <1>2 DEF vars, Inv, TypeOK, ParseInv, Begun, CommandLines
  <2>2. CallsSoFar' /\ CallsAscend' /\ DealtWith'
    BY <1>2 DEF vars, Inv, CallsSoFar, CallsAscend, DealtWith, CommandLines, Known,
                CalledLines, Enabled
  <2>3. FailedIsLast' /\ EndInv'
    BY <1>2 DEF vars, Inv, FailedIsLast, EndInv
  <2>4. CurrentInv'
    BY <1>2 DEF vars, Inv, CurrentInv, AskedOneThatKnows, CalledLines, Command, Enabled
  <2> QED
    BY <2>1, <2>2, <2>3, <2>4 DEF Inv
<1> QED
  BY <1>1, <1>2, ParsingStep, DispatchStep, FinishCommandStep,
     FinishJournalStep DEF Next

THEOREM Safety == Spec => []Inv
<1>1. Init => Inv
  BY InitInv
<1>2. Inv /\ [Next]_vars => Inv'
  BY NextInv
<1> QED
  BY <1>1, <1>2, PTL DEF Spec

(* No handler runs before the whole script, however long, has been found    *)
(* well formed.                                                             *)
THEOREM ParsedFirst == Spec => []ParsedBeforeRun
<1>1. Inv => ParsedBeforeRun
  <2> SUFFICES ASSUME Inv, calls # <<>> PROVE ParsedBeforeRun
    BY DEF ParsedBeforeRun
  <2>1. /\ header /\ line = Len(script) + 1 /\ Len(commands) <= CommandLimit
    BY DEF Inv, ParseInv
  <2>2. /\ DOMAIN script = 1..Len(script) /\ Len(script) \in Nat
        /\ DOMAIN commands = 1..Len(commands)
    BY DEF Inv, TypeOK
  <2>3. \A i \in DOMAIN script : script[i].is # "invalid"
    BY <2>1, <2>2 DEF Inv, ParseInv
  <2>4. ASSUME NEW i \in CommandLines PROVE \E k \in DOMAIN commands : commands[k] = i
    <3>1. i < line
      BY <2>1, <2>2 DEF CommandLines
    <3> QED
      BY <2>2, <3>1 DEF Inv, ParseInv
  <2>5. \A k \in DOMAIN commands : commands[k] \in CommandLines
    BY <2>2 DEF Inv, ParseInv
  <2> QED
    BY <2>1, <2>3, <2>4, <2>5 DEF ParsedBeforeRun
<1> QED
  BY <1>1, Safety, PTL

(* A command runs at most one handler, of a dispatcher of the profile, and  *)
(* the handlers run in the order of the script.                             *)
THEOREM CalledOnceInOrder == Spec => []CalledInOrder
<1>1. Inv => CalledInOrder
  <2> SUFFICES ASSUME Inv PROVE CalledInOrder
    OBVIOUS
  <2>1. DOMAIN calls = 1..Len(calls)
    BY DEF Inv, TypeOK
  <2>2. \A k \in DOMAIN calls : calls[k].line \in CommandLines /\ Known(calls[k].line)
    BY <2>1 DEF Inv, CallsSoFar
  <2> QED
    BY <2>2 DEF Inv, CallsAscend, CalledInOrder
<1> QED
  BY <1>1, Safety, PTL

(* A journal that ends well has run every command its profile knows; one    *)
(* that fails has run all it knows before the line it names and none after, *)
(* and its answer is the outcome of the handler that failed.                *)
THEOREM AnswerIsComplete == Spec => []AnswerComplete
<1>1. Inv => AnswerComplete
  <2> SUFFICES ASSUME Inv PROVE AnswerComplete
    OBVIOUS
  <2>1. /\ DOMAIN script = 1..Len(script) /\ Len(script) \in Nat
        /\ DOMAIN calls = 1..Len(calls)
        /\ at \in 1..(Len(commands) + 1) /\ Len(commands) \in Nat
        /\ commands \in Seq(Nat)
    BY DEF Inv, TypeOK
  <2>2. ASSUME phase = "done", answer.status = "ok" \/ answer.line > 0,
               NEW i \in CommandLines, Known(i),
               answer.status = "ok" \/ i < answer.line
        PROVE  i \in CalledLines
    <3>1. line = Len(script) + 1
      BY <2>2 DEF Inv, ParseInv, Begun
    <3>2. i < line
      BY <2>1, <3>1 DEF CommandLines
    <3>3. PICK k \in 1..Len(commands) : commands[k] = i
      BY <3>2 DEF Inv, ParseInv
    <3>4. k < at
      <4>1. CASE answer.status = "ok"
        BY <2>1, <2>2, <4>1 DEF Inv, EndInv
      <4>2. CASE answer.status # "ok"
        <5>1. at \in 1..Len(commands) /\ commands[k] < commands[at]
          BY <2>1, <2>2, <3>3, <4>2 DEF Inv, EndInv
        <5>2. at < k => commands[at] < commands[k]
          BY <5>1 DEF Inv, ParseInv
        <5>3. commands[at] \in Nat /\ commands[k] \in Nat
          BY <2>1, <5>1
        <5> QED
          BY <2>1, <5>1, <5>2, <5>3
      <4> QED
        BY <4>1, <4>2
    <3> QED
      BY <2>2, <3>3, <3>4 DEF Inv, DealtWith
  <2>3. ASSUME NEW k \in DOMAIN calls, ~Continues(calls[k].outcome)
        PROVE  /\ k = Len(calls)
               /\ phase = "done" => answer = [status |-> calls[k].outcome,
                                              line |-> calls[k].line]
    BY <2>1, <2>3 DEF Inv, FailedIsLast
  <2> QED
    BY <2>2, <2>3 DEF AnswerComplete
<1> QED
  BY <1>1, Safety, PTL
=============================================================================
