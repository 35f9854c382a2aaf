------------------------------ MODULE Timeline ------------------------------
(***************************************************************************)
(* The timeline (src/src/timeline.cpp): TIME records an event, WINDOW      *)
(* copies those of a span, RETAIN drops all but the latest.  Events are    *)
(* kept sorted by stamp and tag, whatever the order they come in.          *)
(*                                                                         *)
(* An event's digest is left out; events that agree in stamp and tag are   *)
(* the same here, so the order std::sort leaves them in does not show.     *)
(***************************************************************************)
EXTENDS SequencesExt, Common

CONSTANTS
    Stamps,       \* stamps commands use; 0 is invalid
    Tags          \* tags commands use; 0 is invalid

ASSUME TimelineConstants ==
    /\ Stamps \subseteq Nat
    /\ Tags \subseteq Nat

VARIABLES
    events,       \* TimelineState.events
    window,       \* TimelineState.window
    retained,     \* TimelineState.retained: the number of events dropped
    recorded,     \* history: every event there ever was
    span,         \* history: the span of the last WINDOW
    changed       \* history: what became of events since, {} if nothing

timelineVars == <<events, window, retained, recorded, span, changed>>

TimelineInit ==
    /\ events = <<>>
    /\ window = <<>>
    /\ retained = 0
    /\ recorded = <<>>
    /\ span = <<0, 0>>
    /\ changed = {}

\* The order of std::sort in record_timeline.
Before(left, right) ==
    \/ left.stamp < right.stamp
    \/ left.stamp = right.stamp /\ left.tag < right.tag

-----------------------------------------------------------------------------
(* TIME tag stamp *)

\* Mutant: the event stays where it was appended.
AppendedOnly(event) == Append(events, event)

WithEvent(event) == Sorted(Append(events, event), Before)

RecordCheck(tag, stamp) == IF tag = 0 \/ stamp = 0 THEN "limit" ELSE "ok"

RecordTimeline(tag, stamp) ==
    LET event == [stamp |-> stamp, tag |-> tag]
    IN  /\ status' = RecordCheck(tag, stamp)
        /\ IF status' = "ok"
           THEN /\ events' = WithEvent(event)
                /\ recorded' = Append(recorded, event)
                /\ changed' = changed \cup {"recorded"}
           ELSE UNCHANGED <<events, recorded, changed>>
        /\ UNCHANGED <<window, retained, span>>

-----------------------------------------------------------------------------
(* WINDOW begin end: an empty window is not found, and empties the old one. *)

Within(begin, end) ==
    At(events, {i \in DOMAIN events : events[i].stamp \in begin..end})

\* Mutant: the window of before is not emptied.
WindowTimelineAdds(begin, end) ==
    /\ IF begin > end
       THEN /\ status' = "malformed"
            /\ UNCHANGED <<window, span, changed>>
       ELSE /\ window' = window \o Within(begin, end)
            /\ status' = IF window' = <<>> THEN "not_found" ELSE "ok"
            /\ span' = <<begin, end>>
            /\ changed' = {}
    /\ UNCHANGED <<events, retained, recorded>>

WindowTimeline(begin, end) ==
    /\ IF begin > end
       THEN /\ status' = "malformed"
            /\ UNCHANGED <<window, span, changed>>
       ELSE /\ window' = Within(begin, end)
            /\ status' = IF window' = <<>> THEN "not_found" ELSE "ok"
            /\ span' = <<begin, end>>
            /\ changed' = {}
    /\ UNCHANGED <<events, retained, recorded>>

-----------------------------------------------------------------------------
(* RETAIN count: the window is not looked at. *)

Latest(count) == SubSeq(events, Len(events) - count + 1, Len(events))

Dropped(count) == Len(events) - count

RetainTimeline(count) ==
    /\ status' = IF count = 0 THEN "limit" ELSE "ok"
    /\ IF status' = "ok" /\ Len(events) > count
       THEN /\ events' = Latest(count)
            /\ retained' = retained + Dropped(count)
            /\ changed' = changed \cup {"dropped"}
       ELSE UNCHANGED <<events, retained, changed>>
    /\ UNCHANGED <<window, recorded, span>>

-----------------------------------------------------------------------------
TimelineNext ==
    \/ \E tag \in Tags, stamp \in Stamps : RecordTimeline(tag, stamp)
    \/ \E begin, end \in Stamps : WindowTimeline(begin, end)
    \/ \E count \in 0..Len(events) : RetainTimeline(count)

-----------------------------------------------------------------------------
\* How often an event is in a list.
Copies(list, event) == Cardinality({i \in DOMAIN list : list[i] = event})

(* The events, and a window of them, are sorted, although they come in any  *)
(* order and RETAIN and late events take turns.  None is lost or made up:   *)
(* those there are, with the number RETAIN has dropped, are those recorded. *)
EventsKept ==
    /\ \A list \in {events, window} : \A i \in 1..(Len(list) - 1) :
          ~Before(list[i + 1], list[i])
    /\ retained + Len(events) = Len(recorded)
    /\ \A event \in Range(events) : Copies(events, event) <= Copies(recorded, event)

(* A window is every event of its span, and no other, as long as nothing    *)
(* was recorded or dropped since.  An event recorded since is missing from  *)
(* it at most, an event dropped since is in it still.                       *)
WindowTells ==
    window # <<>> =>
        LET current == Within(span[1], span[2])
        IN  /\ changed = {} => window = current
            /\ "dropped" \notin changed => \A e \in Range(window) :
                   Copies(window, e) <= Copies(current, e)
=============================================================================
