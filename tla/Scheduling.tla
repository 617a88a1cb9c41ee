----------------------------- MODULE Scheduling -----------------------------
(***************************************************************************)
(* The review scheduler (scheduler/spacing.py, store.py, controller.py,    *)
(* authority.py) for one target: a ladder of intervals, a row recomputed   *)
(* from Learning's freshness, Learning's watermark and the row's own       *)
(* review events, and the CURRENT/STALE handshake with the Planner.        *)
(*                                                                         *)
(* recompute_schedule_item takes its three reads one after the other and   *)
(* then writes, fenced by the epoch; a process that was superseded in      *)
(* between still finishes its reads.  Learning is modelled by what the     *)
(* scheduler sees of it: commits bump the watermark, the projection row    *)
(* that freshness is read from follows later, without a bump.              *)
(***************************************************************************)
EXTENDS Naturals, Sequences, FiniteSets, FiniteSetsExt

CONSTANTS
  Events,       \* review_event ids
  Interval,     \* INTERVAL_DAYS, one per stage, increasing
  Grace,        \* GRACE_DAYS
  MaxNow,       \* bound: days
  MaxMark       \* bound: evidence commits

VARIABLES
  newest,       \* runtime_epoch: 1, or 2 once a second process started
  now,
  mark,         \* Learning's evidence watermark
  strongAt,     \* the last strong retrieval among the committed claims
  shownAt,      \* the one Learning's projection row shows
  events,       \* review_event rows: id -> [engaged, at] or None
  item,         \* the schedule_item row
  job           \* recompute_schedule_item, per process

schedVars == <<newest, now, mark, strongAt, shownAt, events, item, job>>

Procs == {1, 2}
Never == 0
NoEvent == [engaged |-> FALSE, at |-> Never]
NoItem == [state |-> "none", stage |-> 0, start |-> Never, end |-> Never, mark |-> 0,
           anchor |-> Never]
NoJob == [at |-> "idle", anchor |-> Never, mark |-> 0]

Recorded == {e \in Events : events[e] # NoEvent}

Init ==
  /\ newest = 1
  /\ now = 1
  /\ mark = 0
  /\ strongAt = Never /\ shownAt = Never
  /\ events = [e \in Events |-> NoEvent]
  /\ item = NoItem
  /\ job = [p \in Procs |-> NoJob]

(***************************************************************************)
(* The policy                                                              *)
(***************************************************************************)
\* role_of: an engaged event advances the ladder, a dated one moves the anchor.
Advances(ev) == ev.engaged
Anchors(ev) == ev.at # Never

\* stage_from_history
StageFromHistory(evs) ==
  LET engaged == Cardinality({e \in Events : Advances(evs[e])})
  IN Min({engaged + 1, Len(Interval)})

\* Faulty variant: a review event replaces the strong retrieval.
LatestEvent(strong, evs) ==
  LET instants == {evs[e].at : e \in {e \in Events : evs[e] # NoEvent}}
  IN IF instants = {} THEN strong ELSE Min(instants)

\* anchor_of: the newest instant among the strong retrieval and the events.
AnchorOf(strong, evs) ==
  Max({strong} \cup {evs[e].at : e \in {e \in Events : Anchors(evs[e])}})

StateAt(day, start, end) ==
  IF day < start THEN "UPCOMING" ELSE IF day > end THEN "OVERDUE" ELSE "DUE"

\* plan_schedule_item: without an anchor a NOT_SCHEDULED row is written all
\* the same.
Planned(anchor, evs, m, day) ==
  IF anchor = Never
  THEN [NoItem EXCEPT !.state = "NOT_SCHEDULED", !.mark = m]
  ELSE LET stage == StageFromHistory(evs)
           start == anchor + Interval[stage]
       IN [state |-> StateAt(day, start, start + Grace), stage |-> stage,
           start |-> start, end |-> start + Grace, mark |-> m, anchor |-> anchor]

\* The buckets of get_schedule_view, judged at the reader's own time.
DueNow == item.start # Never /\ StateAt(now, item.start, item.end) \in {"DUE", "OVERDUE"}

\* currency_of.
Current == item # NoItem /\ item.mark = mark

(***************************************************************************)
(* recompute_schedule_item                                                 *)
(***************************************************************************)
Running(p) == p <= newest

ReadFreshness(p) ==
  /\ Running(p) /\ job[p].at = "idle"
  /\ job' = [job EXCEPT ![p] = [at |-> "fresh", anchor |-> shownAt, mark |-> 0]]
  /\ UNCHANGED <<newest, now, mark, strongAt, shownAt, events, item>>

ReadWatermark(p) ==
  /\ job[p].at = "fresh"
  /\ job' = [job EXCEPT ![p].at = "marked", ![p].mark = mark]
  /\ UNCHANGED <<newest, now, mark, strongAt, shownAt, events, item>>

\* Faulty variant: the upsert is not fenced.
AnyEpoch(p) == TRUE

Fenced(p) == p = newest

\* The events are read and the row written without another write between
\* them: the newest process is the only writer.  A superseded process raises.
CommitRow(p) ==
  /\ job[p].at = "marked"
  /\ item' = IF Fenced(p)
             THEN Planned(AnchorOf(job[p].anchor, events), events, job[p].mark, now)
             ELSE item
  /\ job' = [job EXCEPT ![p] = NoJob]
  /\ UNCHANGED <<newest, now, mark, strongAt, shownAt, events>>

(***************************************************************************)
(* Review events, Learning, time, a second process                         *)
(***************************************************************************)
\* record_review_event: the same id is recorded once; a declared time is
\* kept, an empty one is stamped by the store.
RecordReviewEvent(e, engaged, at) ==
  /\ item # NoItem /\ job[newest].at = "idle"
  /\ events[e] = NoEvent
  /\ at <= now
  /\ events' = [events EXCEPT ![e] = [engaged |-> engaged, at |-> at]]
  /\ UNCHANGED <<newest, now, mark, strongAt, shownAt, item, job>>

\* The newest process commits evidence; a strong retrieval counts from today.
CommitEvidence(strong) ==
  /\ mark < MaxMark /\ job[newest].at = "idle"
  /\ mark' = mark + 1
  /\ strongAt' = IF strong THEN now ELSE strongAt
  /\ UNCHANGED <<newest, now, shownAt, events, item, job>>

RebuildProjection ==
  /\ shownAt # strongAt /\ job[newest].at = "idle"
  /\ shownAt' = strongAt
  /\ UNCHANGED <<newest, now, mark, strongAt, events, item, job>>

SecondProcess ==
  /\ newest = 1
  /\ newest' = 2
  /\ UNCHANGED <<now, mark, strongAt, shownAt, events, item, job>>

Day ==
  /\ now < MaxNow
  /\ now' = now + 1
  /\ UNCHANGED <<newest, mark, strongAt, shownAt, events, item, job>>

Next ==
  \/ SecondProcess \/ Day \/ RebuildProjection
  \/ \E strong \in BOOLEAN : CommitEvidence(strong)
  \/ \E p \in Procs : ReadFreshness(p) \/ ReadWatermark(p) \/ CommitRow(p)
  \/ \E e \in Events, engaged \in BOOLEAN, at \in 1..now : RecordReviewEvent(e, engaged, at)

(***************************************************************************)
(* Properties                                                              *)
(***************************************************************************)
\* The ladder only lengthens: while strong retrievals and review events are
\* added, a recomputed row never moves the review window to an earlier day,
\* whatever order the events were declared in and whichever process writes.
WindowsMoveForward ==
  [][item.start # Never => item'.start >= item.start]_schedVars

\* A row never moves back to older evidence: a process that read its inputs
\* before another one took over cannot overwrite the row it wrote.
RowsFollowTheWatermark ==
  [][item'.mark >= item.mark]_schedVars

\* Not so: "Whether one row was computed against the current evidence set"
\* (ScheduleCurrency), that is, a CURRENT row accounts for the strongest
\* retrieval committed so far.  The projection row that freshness is read
\* from may be behind the watermark the item carries.
CurrentMeansCurrent ==
  Current => item.anchor >= strongAt
=============================================================================
