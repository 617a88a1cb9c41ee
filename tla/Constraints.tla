---------------------------- MODULE Constraints ----------------------------
(***************************************************************************)
(* What the user forbids or asks for in so many words (user_config/store.py*)
(* and constraints.py): planner constraints and session focuses, each with *)
(* a window of its own, read by the planner at the instant of the letter   *)
(* and again by the pre-delivery guard at the instant of the delivery      *)
(* (runtime/pre_delivery_guard.py).  The two readers use different reads   *)
(* of the same rows.                                                       *)
(***************************************************************************)
EXTENDS Naturals, FiniteSets

CONSTANTS
  Rules,       \* planner_constraint ids
  RuleForms,   \* rows a caller may hand in
  FocusIds,    \* session_focus ids, ordered as text
  Stamps,      \* instants as written: [time, text]
  Targets,
  MaxNow,      \* bound: instants
  MaxFlips,    \* bound: changes of a row's active flag
  MaxRows      \* bound: rows of both tables

VARIABLES
  rules,       \* planner_constraint rows
  foci,        \* session_focus rows of the conversation
  instant,     \* the clock
  newest,      \* whether this process still holds the runtime epoch
  opening,     \* the teaching opening on its way, and what stood against it
  flips

constraintVars == <<rules, foci, instant, newest, opening, flips>>

Never == [time |-> 0, text |-> 0]
NoRow == [type |-> "none"]
NoOpening == [at |-> "idle"]

Init ==
  /\ rules = [i \in Rules |-> NoRow] /\ foci = [i \in FocusIds |-> NoRow]
  /\ instant = 1 /\ newest = TRUE /\ opening = NoOpening /\ flips = 0

\* _parse_instant: a stamp without an offset is refused, never assumed UTC.
Readable(s) == s.time # 0

RoomLeft ==
  Cardinality({i \in Rules : rules[i] # NoRow})
    + Cardinality({i \in FocusIds : foci[i] # NoRow}) < MaxRows

(***************************************************************************)
(* The rows                                                                *)
(***************************************************************************)
\* _constraint_rejection: the turn it came from must be a durable one.
Acceptable(row) == row.turn # "unknown"

\* record_planner_constraint: a row is written once.  The same content again
\* is answered from the row, other content is a conflict.
RecordPlannerConstraint(i, row) ==
  /\ newest /\ RoomLeft /\ rules[i] = NoRow /\ Acceptable(row)
  /\ rules' = [rules EXCEPT ![i] = row]
  /\ UNCHANGED <<foci, instant, newest, opening, flips>>

\* set_planner_constraint_active; ghost: a row that was turned off meanwhile
\* no longer stands against the opening.
SetPlannerConstraintActive(i, on) ==
  /\ newest /\ rules[i] # NoRow /\ rules[i].active # on /\ flips < MaxFlips
  /\ rules' = [rules EXCEPT ![i].active = on] /\ flips' = flips + 1
  /\ opening' = IF opening.at = "idle" THEN opening ELSE [opening EXCEPT !.against = @ \ {i}]
  /\ UNCHANGED <<foci, instant, newest>>

\* set_session_focus: append-first, several may be in force.
SetSessionFocus(i, from, to) ==
  /\ newest /\ RoomLeft /\ foci[i] = NoRow
  /\ foci' = [foci EXCEPT ![i] = [type |-> "focus", from |-> from, to |-> to]]
  /\ UNCHANGED <<rules, instant, newest, opening, flips>>

(***************************************************************************)
(* The reads                                                               *)
(***************************************************************************)
\* Both ends of a window are inclusive.
Opened(row, t) == row.from.time <= t
InForce(row, t) == Opened(row, t) /\ (row.to = Never \/ t <= row.to.time)

\* _active_constraints: a row that cannot be placed in time fails the read;
\* one that is off, or speaks of something else, is not looked at.
ReadFails(S, t) ==
  \E i \in S : ~Readable(rules[i].from)
                 \/ (Opened(rules[i], t) /\ rules[i].to # Never /\ ~Readable(rules[i].to))
Active(S, t) == {i \in S : InForce(rules[i], t)}
SwitchedOn == {i \in Rules : rules[i] # NoRow /\ rules[i].active}

\* target_leg_of
TargetLeg(row) ==
  IF row.kind = "none" /\ row.target = "none" THEN "NOT_TARGET_LIMITED"
  ELSE IF row.kind = "none" \/ row.target = "none" THEN "HALF_DECLARED"
  ELSE "TARGET_LIMITED"

\* _matches_target, the store's read: a half-declared row matches no target.
MatchesTarget(row, x) ==
  TargetLeg(row) = "NOT_TARGET_LIMITED"
    \/ (TargetLeg(row) = "TARGET_LIMITED" /\ row.target = x)

\* Faulty variant: the view's read drops a half-declared row as well.
FullyDeclared(row, x) == MatchesTarget(row, x)

\* applies_to, the view's read: a half-declared row speaks of every target.
AppliesTo(row, x) == TargetLeg(row) # "TARGET_LIMITED" \/ row.target = x

\* get_planner_constraint_view, entries_of_type.
OfType(type, t) == {i \in Active(SwitchedOn, t) : rules[i].type = type}

\* active_constraints_for_target
About(x) == {i \in SwitchedOn : MatchesTarget(rules[i], x)}

(***************************************************************************)
(* Session focus                                                           *)
(***************************************************************************)
Written == {i \in FocusIds : foci[i] # NoRow}

\* get_session_focus_for_conversation: the largest start as text, whether or
\* not it is in force; what the page shows.
CurrentFocus ==
  CHOOSE i \in Written : \A j \in Written :
    foci[j].from.text < foci[i].from.text \/ (foci[j].from.text = foci[i].from.text /\ j <= i)

FocusUnreadable ==
  \E i \in Written : ~Readable(foci[i].from)
    \/ (Opened(foci[i], instant) /\ foci[i].to # Never /\ ~Readable(foci[i].to))

\* Faulty variant: the focus that started first.
OldestStarted(i, j) == foci[i].from.time <= foci[j].from.time

\* The newest started wins, ties go to the larger id.
StartedAfter(i, j) ==
  foci[j].from.time < foci[i].from.time \/ (foci[j].from.time = foci[i].from.time /\ j <= i)

\* effective_session_focus: which focus governs at an instant.
EffectiveFocus(t) ==
  LET open == {i \in Written : InForce(foci[i], t)} IN
  IF open = {} THEN 0 ELSE CHOOSE i \in open : \A j \in open : StartedAfter(i, j)

(***************************************************************************)
(* The planner and the guard                                               *)
(***************************************************************************)
\* resolve_user_intent_scope: an explicit request outranks a just-chat switch.
Requested(t) == {rules[i].target : i \in {k \in OfType("MANUAL_FOCUS", t) : rules[k].target # "none"}}
Scope(t) ==
  IF Requested(t) # {} THEN "TARGETED_LEARNING_REQUEST"
  ELSE IF OfType("MANUAL_FOCUS", t) # {} THEN "LEARNING_REQUEST"
  ELSE IF OfType("JUST_CHAT", t) # {} THEN "JUST_CHAT" ELSE "OPEN"

\* Candidates the rows suppress: no automatic candidate of a target that must
\* not be taught by itself, no review of one whose review is suppressed.
Suppressed(x, mode, t) ==
  \/ x \notin Requested(t) /\ \E i \in OfType("DO_NOT_AUTO_TEACH", t) : AppliesTo(rules[i], x)
  \/ mode = "REVIEW" /\ \E i \in OfType("SUPPRESS_REVIEW", t) : AppliesTo(rules[i], x)

\* The planner selects a target for a letter of this instant, if it selects
\* one: not without the view, not in a just-chat scope, not outside a targeted
\* one.  Ghost: the rows in force that stand against it.
Plan(x, mode) ==
  /\ opening.at = "idle" /\ ~ReadFails(SwitchedOn, instant)
  /\ Scope(instant) # "JUST_CHAT"
  /\ Scope(instant) = "TARGETED_LEARNING_REQUEST" => x \in Requested(instant)
  /\ ~Suppressed(x, mode, instant)
  /\ opening' = [at |-> "planned", target |-> x, mode |-> mode, asOf |-> instant,
                 asked |-> x \in Requested(instant),
                 against |-> Active(SwitchedOn, instant)]
  /\ UNCHANGED <<rules, foci, instant, newest, flips>>

\* The pre-delivery guard's two constraint legs; a read that fails leaves its
\* condition unchecked.
NewTargetSuppressed ==
  /\ ~ReadFails(About(opening.target), instant)
  /\ \E i \in Active(About(opening.target), instant) : rules[i].type = "SUPPRESS_REVIEW"
JustChatHardSwitch == ~ReadFails(SwitchedOn, instant) /\ OfType("JUST_CHAT", instant) # {}

\* guard_verdict: one condition that holds invalidates, an unchecked one does
\* not.
Invalidated == NewTargetSuppressed \/ JustChatHardSwitch

\* The guard runs, its result is recorded, and the opening goes out or not.
PreDeliveryGuard ==
  /\ opening.at = "planned"
  /\ opening' = [opening EXCEPT !.at = IF Invalidated THEN "invalid" ELSE "out"]
  /\ UNCHANGED <<rules, foci, instant, newest, flips>>

Finish ==
  /\ opening.at \in {"out", "invalid"} /\ opening' = NoOpening
  /\ UNCHANGED <<rules, foci, instant, newest, flips>>

Tick ==
  /\ instant < MaxNow /\ instant' = instant + 1
  /\ UNCHANGED <<rules, foci, newest, opening, flips>>

\* Another process opens the database: _require_current_epoch refuses.
TakeOver ==
  /\ newest /\ newest' = FALSE /\ UNCHANGED <<rules, foci, instant, opening, flips>>

Next ==
  \/ \E i \in Rules : (\E row \in RuleForms : RecordPlannerConstraint(i, row))
                        \/ \E on \in BOOLEAN : SetPlannerConstraintActive(i, on)
  \/ \E i \in FocusIds, from \in Stamps, to \in Stamps \cup {Never} : SetSessionFocus(i, from, to)
  \/ \E x \in Targets, mode \in {"REVIEW", "REPAIR"} : Plan(x, mode)
  \/ PreDeliveryGuard \/ Finish \/ Tick \/ TakeOver

Spec == Init /\ [][Next]_constraintVars

(***************************************************************************)
(* Properties                                                              *)
(***************************************************************************)
\* A constraint that was in force when the letter came, was not turned off
\* and is still in force when the opening goes out is honoured, by the planner
\* or by the guard, although they read the rows differently: no opening in
\* just chat, no automatic one of a target that must not be taught
\* unasked, none of a target whose review is suppressed and no review at all
\* under a half-declared suppression (_context_for, _target_suppression_of,
\* _just_chat_switch_of).
Forbids(i) ==
  LET row == rules[i]
      speaks == "none" \in {row.kind, row.target} \/ row.target = opening.target
  IN
  \/ row.type = "JUST_CHAT"
  \/ row.type = "DO_NOT_AUTO_TEACH" /\ speaks /\ ~opening.asked
  \/ /\ row.type = "SUPPRESS_REVIEW" /\ speaks
     /\ opening.mode = "REVIEW" \/ TargetLeg(row) # "HALF_DECLARED"
StandingConstraintsHold ==
  [][(opening.at = "planned" /\ opening'.at = "out" /\ ~ReadFails(SwitchedOn, instant))
       => \A i \in opening.against : InForce(rules[i], instant) => ~Forbids(i)]_constraintVars

\* The page and the planner agree on the focus: when every start is written
\* with one offset and the page's focus is in force, it is the one that
\* governs (get_session_focus_for_conversation, effective_session_focus).
FocusReadsAgree ==
  (/\ Written # {} /\ ~FocusUnreadable
   /\ \A i, j \in Written : foci[i].from.text < foci[j].from.text
                              <=> foci[i].from.time < foci[j].from.time
   /\ InForce(foci[CurrentFocus], instant))
    => EffectiveFocus(instant) = CurrentFocus

\* Not so: "the guard and the Planner cannot disagree about whether the switch is on"
\* (_just_chat_switch_of): what was planned at an instant is not invalidated
\* at that instant for a switch that was on already.
SwitchReadAlike ==
  (opening.at = "invalid" /\ opening.asOf = instant)
    => ~\E i \in opening.against : rules[i].type = "JUST_CHAT" /\ InForce(rules[i], instant)
=============================================================================
