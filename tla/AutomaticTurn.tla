---------------------------- MODULE AutomaticTurn ----------------------------
(***************************************************************************)
(* The automatic teaching leg of an ordinary letter: the read pass before  *)
(* the decision cycle, the planner's record, the gate and CP2, the         *)
(* delivery of the opening, and what a re-entry of the same letter replays *)
(* (src/elc/runtime/automatic_turn.py, automatic_teaching.py,              *)
(* automatic_controls.py, teaching/gate.py, teaching/budget.py,            *)
(* teaching/rollout.py, platform/db/planner_store.py and the leg in        *)
(* runtime/controller.py).                                                 *)
(*                                                                         *)
(* One conversation.  Its letters are handled one at a time by the host's  *)
(* work thread, so a change of settings falls between two letters and only *)
(* a death or a refused write interrupts one.  The planner's arithmetic is *)
(* Planner's; here its answer is a function of what the read pass saw.     *)
(***************************************************************************)
EXTENDS Integers, FiniteSets

CONSTANTS
  Letters,      \* the letters of the conversation, numbered as they arrive
  Cooldown,     \* COOLDOWN_WINDOW_SECONDS, in ticks
  Stage,        \* the declared rollout stage
  MaxClock,     \* bound on time
  MaxFaults     \* bound on deaths and refused writes

VARIABLES
  clock,
  enabled,      \* the teaching frequency allows automatic teaching
  wanted,       \* what there is to teach: "gently", "anyway", "unproven"
  letter,       \* per letter: status and the instant it was received
  cycle,        \* planner_execution_status and evaluation of its cycle
  gate,         \* gate_decision of its cycle
  moment,       \* the automatic moment of its cycle: state, opened_at
  holder,       \* active_teaching_lock: a letter's moment, TheUser or Nobody
  said,         \* what the letter was answered with
  leg,          \* the process: where it is, for which letter, with which plan
  slips         \* deaths and refused writes so far

autoVars == <<clock, enabled, wanted, letter, cycle, gate, moment, holder,
              said, leg, slips>>

NoPlan == [flow |-> "none", mode |-> FALSE, wants |-> "none"]
NoMoment == [state |-> "none", opened |-> 0]
Nobody == 0
TheUser == -1
Idle == [at |-> "idle", of |-> Nobody, plan |-> NoPlan, budget |-> "none"]

Init ==
  /\ clock = 0 /\ enabled = TRUE /\ wanted = "gently"
  /\ letter = [t \in Letters |-> [status |-> "none", received |-> 0]]
  /\ cycle = [t \in Letters |-> NoPlan]
  /\ gate = [t \in Letters |-> "none"]
  /\ moment = [t \in Letters |-> NoMoment]
  /\ holder = Nobody
  /\ said = [t \in Letters |-> "none"]
  /\ leg = Idle /\ slips = 0

Step(at) == leg' = [leg EXCEPT !.at = at]

----------------------------------------------------------------------------
(* What the read pass derives *)

AutomaticStages == {"STUDY_FIRST", "BALANCED", "LOUNGE"}

(* stage_allows_automatic and mode_allows_automatic. *)
AutomaticTeachingEnabled(mode) == Stage \in AutomaticStages /\ mode

(* conversation_priority_view_of: a held lock protects the conversation. *)
FlowPriority == IF holder = Nobody THEN "NORMAL" ELSE "PROTECTED"

(* Faulty variant: only the moments still open start a cooldown. *)
OpenOnly(asOf) ==
  \E m \in Letters : /\ moment[m].state = "AWAITING_USER"
                     /\ moment[m].opened <= asOf
                     /\ asOf - moment[m].opened < Cooldown

(* session_budget_view_of: every automatic moment of the conversation,     *)
(* live or closed, that had opened at the instant of the letter.           *)
CooldownActive(asOf) ==
  \E m \in Letters : /\ moment[m].state # "none"
                     /\ moment[m].opened <= asOf
                     /\ asOf - moment[m].opened < Cooldown

BudgetAt(asOf) == IF CooldownActive(asOf) THEN "cooling" ELSE "clear"

PlanNow == [flow |-> FlowPriority, mode |-> enabled, wants |-> wanted]

(* The planner's choice on what was read. *)
Selects(p) == p.wants \in {"anyway", "unproven"} \/ (p.wants = "gently" /\ p.flow = "NORMAL")

----------------------------------------------------------------------------
(* A letter *)

(* CP0 and the learning leg; one letter is in hand at a time.  A new       *)
(* letter first closes the one still parked, without a reply               *)
(* (close_parked_turn_without_reply); it does not touch that letter's      *)
(* moment.                                                                 *)
Receive(t) ==
  /\ leg.at = "idle"
  /\ letter[t].status = "none"
  /\ \A u \in Letters : u < t => letter[u].status # "none"
  /\ letter' = [u \in Letters |->
       CASE u = t -> [status |-> "GENERATING", received |-> clock]
         [] u # t /\ letter[u].status = "GENERATING" ->
              [letter[u] EXCEPT !.status = "UNANSWERED"]
         [] OTHER -> letter[u]]
  /\ leg' = [Idle EXCEPT !.at = "assemble", !.of = t]
  /\ UNCHANGED <<clock, enabled, wanted, cycle, gate, moment, holder, said, slips>>

(* begin_turn again with the same command: the parked row keeps it. *)
Reenter(t) ==
  /\ leg.at = "idle"
  /\ letter[t].status = "GENERATING"
  /\ leg' = [Idle EXCEPT !.at = "assemble", !.of = t]
  /\ UNCHANGED <<clock, enabled, wanted, letter, cycle, gate, moment, holder, said, slips>>

(* assemble_automatic_turn, then record_decision_cycle.  Any single read   *)
(* may fail: a budget that cannot be read is remembered as such, and an    *)
(* assembly that fails leaves the letter an ordinary one.                  *)
Assemble ==
  /\ leg.at = "assemble"
  /\ \/ \E b \in {BudgetAt(letter[leg.of].received), "unreadable"} :
          leg' = [leg EXCEPT !.at = "plan", !.plan = PlanNow, !.budget = b]
     \/ Step("normal")
  /\ UNCHANGED <<clock, enabled, wanted, letter, cycle, gate, moment, holder, said, slips>>

(* Faulty variant: whatever the cycle holds is accepted as the answer. *)
AnyPlan(stored, submitted) == TRUE

(* record_planner_cycle's replay: the stored evaluation is accepted only   *)
(* when the submitted one is the same.                                     *)
SamePlan(stored, submitted) == stored = submitted

(* record_planner_cycle: the first record of a cycle stays.  A different   *)
(* one is a conflict, which ends the leg; so does a plan that selects      *)
(* nothing.                                                                *)
RecordPlannerCycle ==
  /\ leg.at = "plan"
  /\ LET stored == cycle[leg.of]
         fresh == stored = NoPlan
         kept == IF fresh THEN leg.plan ELSE stored
     IN /\ cycle' = [cycle EXCEPT ![leg.of] = kept]
        /\ Step(IF (fresh \/ SamePlan(stored, leg.plan)) /\ Selects(kept)
                THEN "gate" ELSE "normal")
  /\ UNCHANGED <<clock, enabled, wanted, letter, gate, moment, holder, said, slips>>

(* _durable_gate_replay: a cycle the gate has decided is not decided       *)
(* again.                                                                  *)
ReplayGate ==
  /\ leg.at = "gate" /\ gate[leg.of] # "none"
  /\ Step(IF gate[leg.of] = "ALLOW" THEN "deliver" ELSE "normal")
  /\ UNCHANGED <<clock, enabled, wanted, letter, cycle, gate, moment, holder, said, slips>>

(* The refusals before the gate is asked: the budget was not readable, the *)
(* error the opening would use is not verified.                            *)
Unauthorized ==
  (IF leg.budget = "unreadable" THEN {"BUDGET_UNREADABLE"} ELSE {})
    \cup (IF leg.plan.wants = "unproven" THEN {"NOT_VERIFIED"} ELSE {})

(* decide_automatic_open *)
GateReasons ==
  {r \in {"AUTO_TEACH_DISABLED", "TEACHING_LOCK_CONFLICT", "HARD_PROTECTED_FLOW",
          "HARD_COOLDOWN_ACTIVE"} :
     \/ r = "AUTO_TEACH_DISABLED" /\ ~AutomaticTeachingEnabled(leg.plan.mode)
     \/ r = "TEACHING_LOCK_CONFLICT" /\ holder # Nobody
     \/ r = "HARD_PROTECTED_FLOW" /\ leg.plan.flow = "PROTECTED"
     \/ r = "HARD_COOLDOWN_ACTIVE" /\ leg.budget = "cooling"}

(* decide_automatic_teaching opens only when neither objects. *)
Reasons == Unauthorized \cup GateReasons

(* record_gate_denial: the decision row of the cycle. *)
Decided(verdict) == [gate EXCEPT ![leg.of] = verdict]

(* A denial, or a degraded verdict when a critical fact is unknown: one    *)
(* transaction, no moment.                                                 *)
DenyOpening ==
  /\ leg.at = "gate" /\ gate[leg.of] = "none"
  /\ \E verdict \in (IF Reasons # {} THEN {"DENY"} ELSE {}) \cup {"DEGRADED"} :
       gate' = Decided(verdict)
  /\ Step("normal")
  /\ UNCHANGED <<clock, enabled, wanted, letter, cycle, moment, holder, said, slips>>

(* open_teaching_moment *)
Opened == [moment EXCEPT ![leg.of] = [state |-> "OPENING", opened |-> clock]]

(* commit_cp2_open: the decision, the moment, its first action and the     *)
(* lock, in one transaction.                                               *)
CommitCp2Open ==
  /\ leg.at = "gate" /\ gate[leg.of] = "none" /\ Reasons = {}
  /\ gate' = Decided("ALLOW")
  /\ moment' = Opened
  /\ holder' = leg.of
  /\ Step("deliver")
  /\ UNCHANGED <<clock, enabled, wanted, letter, cycle, said, slips>>

(* _deliver_teaching_action: the guard lets an opening out only while its  *)
(* moment holds the lock; otherwise, or when nothing valid came back, the  *)
(* letter ends without a reply.                                            *)
DeliverOpening ==
  /\ leg.at = "deliver"
  /\ \/ /\ holder = leg.of
        /\ said' = [said EXCEPT ![leg.of] = "opening"]
        /\ letter' = [letter EXCEPT ![leg.of].status = "DONE"]
        /\ Step("land")
     \/ /\ letter' = [letter EXCEPT ![leg.of].status = "UNANSWERED"]
        /\ Step("abort")
        /\ UNCHANGED said
  /\ UNCHANGED <<clock, enabled, wanted, cycle, gate, moment, holder, slips>>

(* _finish_automatic_open: a delivered opening waits for the user. *)
LandOpening ==
  /\ leg.at = "land"
  /\ moment' = IF moment[leg.of].state = "OPENING"
               THEN [moment EXCEPT ![leg.of] = [state |-> "AWAITING_USER", opened |-> clock]]
               ELSE moment
  /\ leg' = Idle
  /\ UNCHANGED <<clock, enabled, wanted, letter, cycle, gate, holder, said, slips>>

(* _abort_opening: the moment closes and gives its lock back. *)
AbortOpening ==
  /\ leg.at = "abort"
  /\ moment' = [moment EXCEPT ![leg.of].state = "CLOSED"]
  /\ holder' = IF holder = leg.of THEN Nobody ELSE holder
  /\ leg' = Idle
  /\ UNCHANGED <<clock, enabled, wanted, letter, cycle, gate, said, slips>>

(* The ordinary reply; it takes the turn's first action, whichever leg     *)
(* created it.                                                             *)
ReplyNormally ==
  /\ leg.at = "normal"
  /\ \/ /\ said' = [said EXCEPT ![leg.of] = "reply"]
        /\ letter' = [letter EXCEPT ![leg.of].status = "DONE"]
     \/ /\ letter' = [letter EXCEPT ![leg.of].status = "UNANSWERED"]
        /\ UNCHANGED said
  /\ leg' = Idle
  /\ UNCHANGED <<clock, enabled, wanted, cycle, gate, moment, holder, slips>>

(* A store refuses a write during the delivery: the turn answers an error  *)
(* and stays open for the same command.                                    *)
RefusedWrite ==
  /\ leg.at \in {"deliver", "normal"} /\ slips < MaxFaults
  /\ leg' = Idle /\ slips' = slips + 1
  /\ UNCHANGED <<clock, enabled, wanted, letter, cycle, gate, moment, holder, said>>

----------------------------------------------------------------------------
(* The process dies; the next one aborts or sweeps what held the lock and  *)
(* closes the letters whose moment is over (run_startup_recovery).         *)
Restart ==
  /\ slips < MaxFaults /\ slips' = slips + 1
  /\ leg' = Idle
  /\ holder' = Nobody
  /\ moment' = [t \in Letters |->
       IF holder = t THEN [moment[t] EXCEPT !.state = "CLOSED"] ELSE moment[t]]
  /\ letter' = [t \in Letters |->
       IF letter[t].status = "GENERATING" /\ moment'[t].state = "CLOSED"
       THEN [letter[t] EXCEPT !.status = "UNANSWERED"] ELSE letter[t]]
  /\ UNCHANGED <<clock, enabled, wanted, cycle, gate, said>>

----------------------------------------------------------------------------
(* Between letters *)

(* The user ends the moment in hand, or opens or ends one of their own. *)
UserTeaching ==
  /\ leg.at = "idle"
  /\ \/ /\ holder \in Letters /\ moment[holder].state = "AWAITING_USER"
        /\ moment' = [moment EXCEPT ![holder].state = "CLOSED"]
        /\ holder' = Nobody
     \/ /\ holder = Nobody /\ holder' = TheUser /\ UNCHANGED moment
     \/ /\ holder = TheUser /\ holder' = Nobody /\ UNCHANGED moment
  /\ UNCHANGED <<clock, enabled, wanted, letter, cycle, gate, said, leg, slips>>

SetFrequency ==
  /\ leg.at = "idle"
  /\ enabled' = ~enabled
  /\ UNCHANGED <<clock, wanted, letter, cycle, gate, moment, holder, said, leg, slips>>

EvidenceMoves ==
  /\ leg.at = "idle"
  /\ wanted' \in {"gently", "anyway", "unproven"} \ {wanted}
  /\ UNCHANGED <<clock, enabled, letter, cycle, gate, moment, holder, said, leg, slips>>

Tick ==
  /\ clock < MaxClock
  /\ clock' = clock + 1
  /\ UNCHANGED <<enabled, wanted, letter, cycle, gate, moment, holder, said, leg, slips>>

Next ==
  \/ \E t \in Letters : Receive(t) \/ Reenter(t)
  \/ Assemble \/ RecordPlannerCycle \/ ReplayGate \/ DenyOpening \/ CommitCp2Open
  \/ DeliverOpening \/ LandOpening \/ AbortOpening \/ ReplyNormally \/ RefusedWrite
  \/ Restart \/ UserTeaching \/ SetFrequency \/ EvidenceMoves \/ Tick

Spec == Init /\ [][Next]_autoVars

----------------------------------------------------------------------------
(* Properties *)

(* Two automatic openings of a conversation are at least the cooldown      *)
(* apart, although the budget is judged at the instant the letter was      *)
(* received and the opening is stamped when it lands, and although a       *)
(* letter may be parked and answered after a restart                       *)
(* (session_budget_view_of).                                               *)
CooldownHolds ==
  \A m, n \in Letters :
    (/\ m # n /\ moment[m].state # "none" /\ moment[n].state # "none"
     /\ moment[m].opened <= moment[n].opened)
    => moment[n].opened - moment[m].opened >= Cooldown

(* An opening reaches the user only while automatic teaching is on, also   *)
(* when the letter is re-entered after the user turned it off: the durable *)
(* ALLOW of the earlier pass is not followed (record_planner_cycle's       *)
(* replay, _durable_gate_replay).                                          *)
OpeningsHaveConsent ==
  [][\A t \in Letters :
       said[t] # "opening" /\ said'[t] = "opening" => enabled /\ Stage \in AutomaticStages]_autoVars
=============================================================================
