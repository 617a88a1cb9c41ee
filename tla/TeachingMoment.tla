---------------------------- MODULE TeachingMoment ----------------------------
(***************************************************************************)
(* The teaching moments of one conversation: the request that opens one,   *)
(* the replies inside it, the presentation ladder, the limits, the durable *)
(* lock, and what a new process does with the moment of a dead one.        *)
(*                                                                         *)
(* Every store write of the code is fenced by MAX(epoch), so a replaced    *)
(* process can change nothing any more: opening an epoch ends the previous *)
(* process here.  Within a process the coordinator's lease lets one leg    *)
(* run at a time, so there is one pc.  A durable write is one step.        *)
(*   teaching/{store,ladder,limits,next_action,gate,flow}.py,              *)
(*   runtime/controller.py: request_teaching, respond_to_teaching,         *)
(*   run_startup_recovery                                                  *)
(***************************************************************************)
EXTENDS Naturals, FiniteSets

CONSTANTS
    Opens,          \* requests to open a moment (a moment is named by its request)
    Replies,        \* replies inside a moment
    Envelopes,      \* what a reply may say
    MaxEpoch,       \* runtime incarnations
    MaxFaults,      \* failing steps in a behaviour
    HintRungs,      \* length of the target's hint_ladder
    SoftAttempts, HardAttempts, SoftTurns, HardTurns,   \* TeachingLimits
    WebHost         \* TRUE: the web host's callers; FALSE: any caller of the API

Free == "free"
Msgs == Opens \cup Replies

(* One word per behaviour: SKIP stands for REJECT_TARGET and CHANGE_TOPIC, *)
(* CONTINUE for ASK_CLARIFICATION, NONE for META_DISCUSSION; SUCCESS and   *)
(* FAILURE are the two classes of evaluation that decide_next_action tells *)
(* apart.                                                                  *)
Intents  == {"SWITCH_TARGET", "SKIP", "ASK_HINT", "ASK_ANSWER",
             "ASK_EXPLANATION", "CONTINUE", "NONE"}
Answers  == {"none", "SUCCESS", "FAILURE"}
Envelope == [intent : Intents, attempt : Answers]

ASSUME TeachingAssumption ==
    /\ Opens /= {} /\ Opens \cap Replies = {} /\ Free \notin Opens
    /\ Envelopes \subseteq Envelope /\ Envelopes /= {}
    /\ MaxEpoch \in Nat /\ MaxFaults \in Nat /\ HintRungs \in 0..3
    /\ SoftAttempts \in Nat /\ HardAttempts \in Nat
    /\ SoftTurns \in Nat /\ HardTurns \in Nat
    /\ WebHost \in BOOLEAN

VARIABLES
    epoch,      \* MAX(epoch): the live process
    newest,     \* the turn with the last turn_sequence of the conversation
    turn,       \* [Msgs -> turn_record with its decision cycles and its input]
    act,        \* [Msgs -> [Slots -> generation_action_intent]]
    said,       \* [Msgs -> the canonical assistant turn of that turn]
    moment,     \* [Opens -> teaching_moment]
    lock,       \* active_teaching_lock of the conversation
    gate,       \* [Msgs -> the Gate verdict recorded for that turn]
    attempts,   \* attempt_record rows (with the evaluation)
    pc, leg,    \* where the process's leg stands, and its locals
    faults      \* failing steps so far

stored == <<turn, act, said, moment, lock, gate, attempts>>
vars == <<epoch, newest, turn, act, said, moment, lock, gate, attempts, pc, leg, faults>>

----------------------------------------------------------------------------
(* Phases and support levels are their ranks: INITIAL_PROMPT 0, the three  *)
(* hints 1..3, FULL_REVEAL 4, POST_REVEAL_OPTIONAL_ATTEMPT 5, EXPLANATION  *)
(* 6; NONE 0, CONTEXT_ONLY 1, the hints' 2..4, FULL_FORM_SHOWN 5.          *)
FullReveal  == 4
PostReveal  == 5
Explanation == 6
ContextOnly == 1
FullForm    == 5

Slots == {"teaching-open", "hint", "retry", "reveal", "explanation", "resume"}
Kinds == {"HINT", "RETRY", "REVEAL", "EXPLANATION"}

LiveStates == {"OPENING", "AWAITING_USER", "EVALUATING", "DECIDING_NEXT_ACTION",
               "COMPLETING", "ABORTING"}
ReplyPath  == {"AWAITING_USER", "EVALUATING", "DECIDING_NEXT_ACTION"}
States     == LiveStates \cup {"ABSENT", "TEACHING_TERMINAL", "RESUMING", "CLOSED"}

NoEnv    == [intent |-> "NONE", attempt |-> "none"]
NoTurn   == [status |-> "ABSENT", owner |-> 0, cycle |-> 0, env |-> NoEnv,
             first |-> "none"]
NoAct    == [status |-> "ABSENT", owner |-> 0, mom |-> Free]
NotSaid  == [slot |-> "none", support |-> 0]
Open     == [comp |-> "none", abort |-> "none"]
NoMoment == [state |-> "ABSENT", phase |-> 0, support |-> 0, index |-> 0,
             closure |-> Open]

Completed(word) == [comp |-> word, abort |-> "none"]
Aborted(word)   == [comp |-> "none", abort |-> word]

StepTo(phase, support, slot) ==
    [phase |-> phase, support |-> support, slot |-> slot]
FreshLeg(m, o, goal, todo) ==
    [msg |-> m, mom |-> o, env |-> NoEnv, goal |-> goal, closure |-> Open,
     step |-> StepTo(0, 0, "none"), kind |-> "RETRY", back |-> "idle",
     todo |-> todo]
AnyOpen == CHOOSE o \in Opens : TRUE
NoLeg   == FreshLeg(AnyOpen, AnyOpen, "none", {})

Live(m) == turn[m].status \notin {"ABSENT", "DONE"}

(* _owning_epoch_refusal: only the epoch that owns the opening turn moves  *)
(* the moment.                                                             *)
Mine(o) == turn[o].owner = epoch

(* get_action_for_turn: the first action of the turn.                      *)
HasAction(m)   == turn[m].first /= "none"
FirstAction(m) == act[m][turn[m].first]

----------------------------------------------------------------------------
(* ladder.py                                                               *)

(* ladder_step: an exhausted hint is a reveal, an explanation after the    *)
(* reveal keeps the full form, a retry stays where it is.                  *)
LadderStep(mo, kind) ==
    IF kind = "HINT" /\ mo.phase < HintRungs
    THEN StepTo(mo.phase + 1, mo.phase + 2, "hint")
    ELSE CASE kind \in {"HINT", "REVEAL"} -> StepTo(FullReveal, FullForm, "reveal")
           [] kind = "EXPLANATION" ->
                  StepTo(Explanation,
                         IF mo.phase >= FullReveal THEN FullForm ELSE mo.support,
                         "explanation")
           [] OTHER -> StepTo(mo.phase, mo.support, "retry")

(* _support_ceiling *)
Ceiling(phase) == IF phase < FullReveal THEN phase + 1 ELSE FullForm

(* Faulty variant: the refusal looks at the ceiling only.                  *)
RefusedByCeiling(mo, step) == step.support > Ceiling(step.phase)

(* ladder_step_refusal *)
Refused(mo, step) ==
    \/ step.phase < mo.phase
    \/ step.support < mo.support
    \/ step.support > Ceiling(step.phase)

(* What a delivered step puts before the learner: an explanation and a     *)
(* retry show no more of the form than was shown before.                   *)
Shows(step) == IF step.slot \in {"hint", "reveal"} THEN step.support ELSE 0

----------------------------------------------------------------------------
(* limits.py, next_action.py, gate.py                                      *)

AttemptsOf(o) == {a \in attempts : a.mom = o}
Delivered(o, slots) ==
    {m \in Msgs : said[m].slot \in slots /\ act[m][said[m].slot].mom = o}
TeachingSlots == Slots \ {"resume"}

(* teaching_load *)
AttemptLoad(o) == Cardinality(AttemptsOf(o))
TurnLoad(o)    == Cardinality(Delivered(o, TeachingSlots))

(* Faulty variant: a load that has reached its cap may still grow.         *)
HardLimitOffByOne(o, kind) ==
    \/ AttemptLoad(o) > HardAttempts /\ kind \in {"HINT", "RETRY"}
    \/ TurnLoad(o) > HardTurns /\ kind /= "REVEAL"

(* The hard caps, as continuation_verdict and the continuation Gate both   *)
(* test them.                                                              *)
HardLimit(o, kind) ==
    \/ AttemptLoad(o) >= HardAttempts /\ kind \in {"HINT", "RETRY"}
    \/ TurnLoad(o) >= HardTurns /\ kind /= "REVEAL"

SoftLimit(o) == AttemptLoad(o) >= SoftAttempts \/ TurnLoad(o) >= SoftTurns

(* _delivery_kind_for *)
KindOf(intent) ==
    CASE intent = "ASK_HINT"        -> "HINT"
      [] intent = "ASK_ANSWER"      -> "REVEAL"
      [] intent = "ASK_EXPLANATION" -> "EXPLANATION"
      [] OTHER                      -> "RETRY"

Asks == {"ASK_HINT", "ASK_ANSWER", "ASK_EXPLANATION"}

(* decide_next_action: leave, close on success, or continue unless a limit *)
(* is met.  A limit closes the moment after asking the Gate about the      *)
(* refused kind.                                                           *)
Decision(o, env) ==
    LET kind == KindOf(env.intent)
        plan(goal, closure, gated) ==
            [goal |-> goal, closure |-> closure, gated |-> gated, kind |-> kind]
    IN IF env.intent = "SWITCH_TARGET" THEN plan("close", Aborted("USER_SWITCH_TARGET"), FALSE)
       ELSE IF env.intent = "SKIP" THEN plan("close", Aborted("USER_SKIP"), FALSE)
       ELSE IF env.attempt = "SUCCESS" /\ env.intent \notin Asks
            THEN plan("close", Completed("SUCCESS"), FALSE)
       ELSE IF HardLimit(o, kind) THEN plan("close", Completed("REVEALED"), TRUE)
       ELSE IF SoftLimit(o) /\ env.intent = "NONE"
            THEN plan("close", Completed("PARTIAL_PROGRESS"), TRUE)
       ELSE plan("continue", Open, TRUE)

(* _continuation_gate: a recorded verdict is replayed; otherwise the hard  *)
(* caps, and facts outside this model that degrade or deny.                *)
GateVerdicts(m, o, kind) ==
    IF gate[m] /= "none" THEN {gate[m]}
    ELSE {"DEGRADED", IF HardLimit(o, kind) THEN "HARD" ELSE "ALLOW"}
         \cup IF HardLimit(o, kind) THEN {} ELSE {"POLICY"}

(* _execute_next_action after the Gate: what the leg goes on with.         *)
AfterGate(plan, verdict) ==
    IF plan.goal = "close" \/ verdict = "ALLOW" THEN plan
    ELSE [plan EXCEPT !.goal = "close",
                      !.closure = CASE verdict = "DEGRADED" -> Aborted("SYSTEM_FAILURE")
                                    [] verdict = "POLICY"   -> Aborted("POLICY_STOP")
                                    [] OTHER                -> Completed("REVEALED")]

----------------------------------------------------------------------------
(* Steps of a leg                                                          *)

Goto(label)   == pc' = label /\ leg' = leg
Leave         == pc' = leg.back /\ leg' = FreshLeg(AnyOpen, AnyOpen, "none", leg.todo)
UnchangedBut  == UNCHANGED <<epoch, newest, faults>>

(* transition_moment: refused when another epoch owns the opening turn; a  *)
(* step that writes nothing is not refused.                                *)
PutMoment(o, record, label) ==
    \/ /\ Mine(o) \/ record = moment[o]
       /\ moment' = [moment EXCEPT ![o] = record]
       /\ Goto(label)
    \/ /\ ~Mine(o) /\ record /= moment[o]
       /\ UNCHANGED moment
       /\ Leave

TurnStatus(m, status) == turn' = [turn EXCEPT ![m].status = status]
ActStatus(m, slot, status) == act' = [act EXCEPT ![m][slot].status = status]

----------------------------------------------------------------------------
(* run_startup_recovery: opening an epoch ends the previous process        *)

Start ==
    /\ epoch < MaxEpoch
    /\ epoch' = epoch + 1
    /\ pc' = "openings"
    /\ leg' = FreshLeg(AnyOpen, AnyOpen, "none", {m \in Msgs : Live(m)})
    /\ UNCHANGED <<newest, stored, faults>>

ForeignLock == lock /= Free /\ ~Mine(lock)

(* abort_undelivered_openings: an opening nobody has seen is aborted       *)
(* quietly by the claimed turn; every other orphan is left to the sweep.   *)
AbortUndeliveredOpenings ==
    /\ pc = "openings"
    /\ IF ForeignLock /\ moment[lock].state = "OPENING" /\ said[lock].slot = "none"
       THEN /\ turn' = [turn EXCEPT ![lock].owner = IF Live(lock) THEN epoch ELSE @]
            /\ pc' = "finish"
            /\ leg' = [leg EXCEPT !.mom = lock, !.goal = "quiet", !.back = "sweep",
                                  !.closure = Aborted("DELIVERY_FAILURE")]
       ELSE Goto("sweep") /\ UNCHANGED turn
    /\ UNCHANGED <<act, said, moment, lock, gate, attempts>> /\ UnchangedBut

(* Faulty variant: the sweep keeps a half-presented moment for later.      *)
SweepSparesOpenings ==
    /\ pc = "sweep"
    /\ IF ForeignLock /\ moment[lock].state /= "OPENING"
       THEN /\ moment' = [moment EXCEPT ![lock].state = "CLOSED",
                                        ![lock].closure.abort = "SYSTEM_RECOVERY_ABORT"]
            /\ lock' = Free
       ELSE UNCHANGED <<moment, lock>>
    /\ Goto("residue")
    /\ UNCHANGED <<turn, act, said, gate, attempts>> /\ UnchangedBut

(* recover_orphan_teaching_locks: an orphan closes and its lock goes, in   *)
(* one transaction; a completion it had already written stays.             *)
RecoverOrphanTeachingLocks ==
    /\ pc = "sweep"
    /\ IF ForeignLock
       THEN /\ moment' = [moment EXCEPT ![lock].state = "CLOSED",
                                        ![lock].closure.abort = "SYSTEM_RECOVERY_ABORT"]
            /\ lock' = Free
       ELSE UNCHANGED <<moment, lock>>
    /\ Goto("residue")
    /\ UNCHANGED <<turn, act, said, gate, attempts>> /\ UnchangedBut

(* reconcile_delivering_residue and _close_residual_turns, for one turn.   *)
CloseResidualTurn(m) ==
    /\ pc = "residue" /\ m \in leg.todo
    /\ LET settled == Live(m) /\ HasAction(m)
                      /\ \/ FirstAction(m).status = "TERMINAL"
                         \/ moment[FirstAction(m).mom].state = "CLOSED"
       IN turn' = [turn EXCEPT ![m] =
                     IF settled THEN [@ EXCEPT !.status = "DONE", !.owner = epoch] ELSE @]
    /\ leg' = [leg EXCEPT !.todo = @ \ {m}]
    /\ UNCHANGED <<pc, act, said, moment, lock, gate, attempts>> /\ UnchangedBut

Serve ==
    /\ pc = "residue" /\ leg.todo = {}
    /\ Leave
    /\ UNCHANGED stored /\ UnchangedBut

----------------------------------------------------------------------------
(* CP0 *)

Commit(m, env, claimable) ==
    /\ turn' = [turn EXCEPT ![m] =
                  IF @.status = "ABSENT"
                  THEN [status |-> "USER_COMMITTED", owner |-> epoch, cycle |-> 0,
                        env |-> env, first |-> "none"]
                  ELSE [@ EXCEPT !.owner = IF Live(m) /\ claimable THEN epoch ELSE turn[m].owner]]
    /\ newest' = IF turn[m].status = "ABSENT" THEN m ELSE newest
    /\ UNCHANGED <<epoch, faults>>

(* request_teaching up to the decision cycle: the web host mints a fresh   *)
(* id for every request, another caller may send one again.                *)
RequestTeaching(o) ==
    /\ pc = "idle"
    /\ WebHost => turn[o].status = "ABSENT"
    /\ Commit(o, NoEnv, TRUE)
    /\ pc' = "openEntry" /\ leg' = FreshLeg(o, o, "opening", {})
    /\ UNCHANGED <<act, said, moment, lock, gate, attempts>>

(* respond_to_teaching up to the claim: a DELIVERING turn is not claimed   *)
(* before its action is settled.  The web host answers only a moment that  *)
(* awaits the user; a caller that sends a reply again repeats it.          *)
RespondToTeaching(m, env) ==
    /\ pc = "idle"
    /\ WebHost => /\ turn[m].status = "ABSENT"
                  /\ lock /= Free /\ moment[lock].state = "AWAITING_USER"
    /\ turn[m].status /= "ABSENT" => env = turn[m].env
    /\ Commit(m, env, turn[m].status /= "DELIVERING")
    /\ pc' = "replyEntry"
    /\ leg' = [FreshLeg(m, AnyOpen, "none", {}) EXCEPT !.env = env]
    /\ UNCHANGED <<act, said, moment, lock, gate, attempts>>

----------------------------------------------------------------------------
(* The opening leg *)

OpeningStep == StepTo(0, ContextOnly, "teaching-open")

(* request_teaching after CP0, and _resume_or_replay_teaching: a recorded  *)
(* cycle is resumed when its moment is half-presented, repaired once when  *)
(* its Gate found a stale snapshot, and otherwise only replayed.           *)
EnterOpening ==
    /\ pc = "openEntry"
    /\ LET o == leg.msg
           t == turn[o]
       IN \/ /\ t.cycle > 0 /\ moment[o].state = "OPENING"
             /\ pc' = "deliver" /\ leg' = [leg EXCEPT !.step = OpeningStep]
             /\ UNCHANGED turn
          \/ /\ t.cycle > 0 /\ moment[o].state /= "OPENING"
             /\ IF gate[o] = "STALE" /\ t.cycle = 1 THEN Goto("repair") ELSE Leave
             /\ UNCHANGED turn
          \/ /\ t.cycle = 0 /\ t.status \in {"USER_COMMITTED", "DECIDING"}
             /\ TurnStatus(o, "DECIDING") /\ Goto("cycle")
          \/ /\ t.cycle = 0 /\ t.status \notin {"USER_COMMITTED", "DECIDING"}
             /\ Leave /\ UNCHANGED turn
    /\ UNCHANGED <<act, said, moment, lock, gate, attempts>> /\ UnchangedBut

(* record_decision_cycle: the first cycle, or the one repair cycle.        *)
RecordCycle ==
    /\ pc \in {"cycle", "repair"}
    /\ turn' = [turn EXCEPT ![leg.msg].cycle = @ + 1]
    /\ Goto("openGate")
    /\ UNCHANGED <<act, said, moment, lock, gate, attempts>> /\ UnchangedBut

(* Faulty variant: the Gate does not ask for the lock.                     *)
OpenVerdictsBlind == {"ALLOW", "DENY", "DEGRADED", "STALE"}

(* decide_user_initiated_open: unknown facts degrade, a held lock or any   *)
(* other blocking fact denies.                                             *)
OpenVerdicts ==
    {"DENY", "DEGRADED", "STALE"} \cup IF lock = Free THEN {"ALLOW"} ELSE {}

(* _run_open_gate for the verdicts that open nothing.                      *)
RefuseOpening(v) ==
    /\ pc = "openGate" /\ v \in OpenVerdicts \ {"ALLOW"}
    /\ gate' = [gate EXCEPT ![leg.msg] = v]
    /\ IF v = "STALE" /\ turn[leg.msg].cycle = 1 THEN Goto("repair") ELSE Leave
    /\ UNCHANGED <<turn, act, said, moment, lock, attempts>> /\ UnchangedBut

(* open_teaching_moment (CP2): Gate verdict, moment, opening action and    *)
(* lock in one transaction.                                                *)
OpenTeachingMoment ==
    /\ pc = "openGate" /\ "ALLOW" \in OpenVerdicts
    /\ LET o == leg.msg
       IN /\ gate' = [gate EXCEPT ![o] = "ALLOW"]
          /\ moment' = [moment EXCEPT ![o] = [NoMoment EXCEPT !.state = "OPENING"]]
          /\ act' = [act EXCEPT ![o]["teaching-open"] =
                       [status |-> "PREPARED", owner |-> epoch, mom |-> o]]
          /\ turn' = [turn EXCEPT ![o].first = "teaching-open"]
          /\ lock' = o
    /\ pc' = "deliver" /\ leg' = [leg EXCEPT !.step = OpeningStep]
    /\ UNCHANGED <<said, attempts>> /\ UnchangedBut

----------------------------------------------------------------------------
(* _deliver_teaching_action *)

(* A turn whose first action is finished is replayed, not delivered again: *)
(* _replay_action_delivery.                                                *)
ReplayDelivery ==
    /\ pc = "deliver"
    /\ LET m == leg.msg
       IN /\ HasAction(m) /\ FirstAction(m).status = "TERMINAL"
          /\ turn' = [turn EXCEPT ![m].status = "DONE"]
          /\ Goto(IF said[m].slot /= "none" THEN "land" ELSE "undelivered")
    /\ UNCHANGED <<act, said, moment, lock, gate, attempts>> /\ UnchangedBut

BeginDelivery ==
    /\ pc = "deliver"
    /\ ~(HasAction(leg.msg) /\ FirstAction(leg.msg).status = "TERMINAL")
    /\ turn' = [turn EXCEPT ![leg.msg].status = IF @ = "DECIDING" THEN "GENERATING" ELSE @]
    /\ Goto("dispatch")
    /\ UNCHANGED <<act, said, moment, lock, gate, attempts>> /\ UnchangedBut

(* create_action and _ensure_requested: the action of this slot is created *)
(* once and runs from PREPARED (which stands for REQUESTED too) only.      *)
CreateAction ==
    /\ pc = "dispatch"
    /\ act[leg.msg][leg.step.slot].status = "ABSENT"
    /\ act' = [act EXCEPT ![leg.msg][leg.step.slot] =
                 [status |-> "PREPARED", owner |-> epoch, mom |-> leg.mom]]
    /\ turn' = [turn EXCEPT ![leg.msg].first = IF @ = "none" THEN leg.step.slot ELSE @]
    /\ UNCHANGED <<pc, leg, said, moment, lock, gate, attempts>> /\ UnchangedBut

RunAction ==
    /\ pc = "dispatch"
    /\ LET a == act[leg.msg][leg.step.slot]
       IN /\ a.status /= "ABSENT"
          /\ IF a.status = "PREPARED" /\ a.owner = epoch
             THEN ActStatus(leg.msg, leg.step.slot, "RUNNING") /\ Goto("produce")
             ELSE UNCHANGED act /\ Leave
    /\ UNCHANGED <<turn, said, moment, lock, gate, attempts>> /\ UnchangedBut

(* _pre_delivery_guard_facts, the conditions that these rows decide: a     *)
(* later turn supersedes the action, and the lock must be its moment's.    *)
(* The closing word is said after the lock is released.                    *)
Invalidated(m, slot) ==
    newest /= m \/ (slot /= "resume" /\ lock /= act[m][slot].mom)

(* The buffered reply passes the pre-delivery guard and its delivery       *)
(* begins, or the action ends without output (the provider gave none, or   *)
(* the guard invalidated it, for these conditions or another).             *)
ProduceReply ==
    /\ pc = "produce" /\ ~Invalidated(leg.msg, leg.step.slot)
    /\ ActStatus(leg.msg, leg.step.slot, "DELIVERING") /\ Goto("send")
    /\ UNCHANGED <<turn, said, moment, lock, gate, attempts>> /\ UnchangedBut

ProduceNothing ==
    /\ pc = "produce"
    /\ ActStatus(leg.msg, leg.step.slot, "TERMINAL") /\ Goto("silent")
    /\ UNCHANGED <<turn, said, moment, lock, gate, attempts>> /\ UnchangedBut

(* finalize_delivery, one durable write at a time.                         *)
SendReply ==
    /\ pc = "send"
    /\ turn' = [turn EXCEPT ![leg.msg].status = IF @ = "GENERATING" THEN "DELIVERING" ELSE @]
    /\ Goto("transcribe")
    /\ UNCHANGED <<act, said, moment, lock, gate, attempts>> /\ UnchangedBut

(* canonicalize_assistant_turn: one assistant turn per turn.               *)
TranscribeReply ==
    /\ pc = "transcribe"
    /\ said' = [said EXCEPT ![leg.msg] =
                  IF @.slot /= "none" THEN @
                  ELSE [slot |-> leg.step.slot, support |-> Shows(leg.step)]]
    /\ Goto("complete")
    /\ UNCHANGED <<turn, act, moment, lock, gate, attempts>> /\ UnchangedBut

CompleteAction ==
    /\ pc = "complete"
    /\ ActStatus(leg.msg, leg.step.slot, "TERMINAL") /\ Goto("closeTurn")
    /\ UNCHANGED <<turn, said, moment, lock, gate, attempts>> /\ UnchangedBut

(* terminalize_turn: a turn that is already terminal is refused.           *)
TerminalizeTurn ==
    /\ pc \in {"closeTurn", "silent"}
    /\ IF Live(leg.msg)
       THEN TurnStatus(leg.msg, "DONE")
            /\ Goto(IF pc = "silent" THEN "undelivered" ELSE "land")
       ELSE UNCHANGED turn /\ Leave
    /\ UNCHANGED <<act, said, moment, lock, gate, attempts>> /\ UnchangedBut

(* An opening that was not delivered is aborted without a further word, a  *)
(* continuation is aborted and resumed, a closing word is dropped.         *)
Undelivered ==
    /\ pc = "undelivered"
    /\ IF leg.goal = "close" THEN Goto("land")
       ELSE /\ pc' = "finish"
            /\ leg' = [leg EXCEPT !.goal = IF @ = "opening" THEN "quiet" ELSE "close",
                                  !.closure = Aborted("DELIVERY_FAILURE")]
    /\ UNCHANGED stored /\ UnchangedBut

(* Faulty variant: the landing writes the phase and forgets the support.   *)
LandedPhaseOnly(mo) ==
    CASE leg.goal = "opening" ->
             IF mo.state = "OPENING"
             THEN [mo EXCEPT !.state = "AWAITING_USER", !.support = ContextOnly] ELSE mo
      [] leg.goal = "continue" ->
             [mo EXCEPT !.state = "AWAITING_USER", !.phase = leg.step.phase]
      [] OTHER -> [mo EXCEPT !.state = "CLOSED"]

(* What a finished delivery does to its moment: _finish_teaching_open,     *)
(* _deliver_continuation, _resume_and_close / _abort_opening.              *)
Landed(mo) ==
    CASE leg.goal = "opening" ->
             IF mo.state = "OPENING"
             THEN [mo EXCEPT !.state = "AWAITING_USER", !.support = ContextOnly] ELSE mo
      [] leg.goal = "continue" ->
             [mo EXCEPT !.state = "AWAITING_USER", !.phase = leg.step.phase,
                        !.support = leg.step.support]
      [] OTHER -> [mo EXCEPT !.state = "CLOSED"]

Land ==
    /\ pc = "land"
    /\ moment' = [moment EXCEPT ![leg.mom] = IF Mine(leg.mom) THEN Landed(@) ELSE @]
    /\ Leave
    /\ UNCHANGED <<turn, act, said, lock, gate, attempts>> /\ UnchangedBut

----------------------------------------------------------------------------
(* The reply leg: _respond_to_teaching_guarded *)

EnterReply ==
    /\ pc = "replyEntry"
    /\ LET m == leg.msg
           answerable == lock /= Free /\ moment[lock].state \in ReplyPath
       IN \/ turn[m].status = "DONE" /\ Goto("reconcile") /\ UNCHANGED turn
          \/ turn[m].status = "DELIVERING" /\ Goto("inflight") /\ UNCHANGED turn
          \/ /\ turn[m].status \in {"USER_COMMITTED", "DECIDING", "GENERATING"}
             /\ answerable
             /\ turn' = [turn EXCEPT ![m].status = IF @ = "USER_COMMITTED" THEN "DECIDING" ELSE @]
             /\ leg' = [leg EXCEPT !.mom = lock]
             /\ pc' = IF leg.env.attempt = "none" THEN "deciding" ELSE "evaluate"
          \/ /\ turn[m].status \in {"USER_COMMITTED", "DECIDING", "GENERATING"}
             /\ ~answerable
             /\ Leave /\ UNCHANGED turn
    /\ UNCHANGED <<act, said, moment, lock, gate, attempts>> /\ UnchangedBut

(* _advance_reply_path(moment, 1) *)
Evaluate ==
    /\ pc = "evaluate"
    /\ PutMoment(leg.mom,
                 [moment[leg.mom] EXCEPT !.state = IF @ = "AWAITING_USER" THEN "EVALUATING" ELSE @],
                 "attempt")
    /\ UNCHANGED <<turn, act, said, lock, gate, attempts>> /\ UnchangedBut

(* The most of the form that the learner has been shown in this moment.    *)
Shown(o) == {said[m].support : m \in Delivered(o, TeachingSlots)} \cup {ContextOnly}

(* Faulty variant: the counter of the moment is not advanced.              *)
InsertAttemptNoCount(o, m) ==
    /\ attempts' = attempts \cup
         {[mom |-> o, msg |-> m, index |-> moment[o].index + 1,
           support |-> moment[o].support,
           seen |-> CHOOSE s \in Shown(o) : \A t \in Shown(o) : s >= t]}
    /\ UNCHANGED moment

(* record_attempt's insert: the row takes the support of the moment, and   *)
(* the counter of the moment moves with it.  "seen" is what the learner    *)
(* had seen; the code does not keep it.                                    *)
InsertAttempt(o, m) ==
    /\ attempts' = attempts \cup
         {[mom |-> o, msg |-> m, index |-> moment[o].index + 1,
           support |-> moment[o].support,
           seen |-> CHOOSE s \in Shown(o) : \A t \in Shown(o) : s >= t]}
    /\ moment' = [moment EXCEPT ![o].index = @ + 1]

(* record_attempt: one attempt per reply and moment, made while the moment *)
(* is EVALUATING; an attempt id (turn, index) another moment already uses  *)
(* leaves the leg without its row.                                         *)
RecordAttempt ==
    /\ pc = "attempt"
    /\ LET o == leg.mom
           m == leg.msg
           known == \E a \in attempts : a.mom = o /\ a.msg = m
           clash == \E a \in attempts : a.msg = m /\ a.index = moment[o].index + 1
       IN \/ known /\ Goto("judge") /\ UNCHANGED <<attempts, moment>>
          \/ /\ ~known /\ ~clash /\ moment[o].state = "EVALUATING"
             /\ InsertAttempt(o, m) /\ Goto("judge")
          \/ /\ ~known /\ (clash \/ moment[o].state /= "EVALUATING")
             /\ Leave /\ UNCHANGED <<attempts, moment>>
    /\ UNCHANGED <<turn, act, said, lock, gate>> /\ UnchangedBut

(* After the evaluation: an attempt at the reveal moves the phase on.      *)
MarkPostReveal ==
    /\ pc = "judge"
    /\ PutMoment(leg.mom,
                 [moment[leg.mom] EXCEPT !.phase = IF @ = FullReveal THEN PostReveal ELSE @],
                 "deciding")
    /\ UNCHANGED <<turn, act, said, lock, gate, attempts>> /\ UnchangedBut

(* _advance_reply_path(moment, 2), one state at a time.                    *)
AdvanceToDeciding ==
    /\ pc = "deciding"
    /\ LET mo == moment[leg.mom]
       IN PutMoment(leg.mom,
                    [mo EXCEPT !.state = IF @ = "AWAITING_USER" THEN "EVALUATING"
                                         ELSE "DECIDING_NEXT_ACTION"],
                    IF mo.state = "AWAITING_USER" THEN "deciding" ELSE "decide")
    /\ UNCHANGED <<turn, act, said, lock, gate, attempts>> /\ UnchangedBut

(* decide_next_action, the continuation Gate and _execute_next_action: a   *)
(* closure goes on to _terminalize_moment; a continuation takes a ladder   *)
(* step, and a step the ladder refuses ends the leg where it stands.       *)
Decide(verdict) ==
    /\ pc = "decide"
    /\ LET m    == leg.msg
           o    == leg.mom
           d    == Decision(o, leg.env)
           plan == IF d.gated THEN AfterGate(d, verdict) ELSE d
           step == LadderStep(moment[o], plan.kind)
       IN /\ verdict \in IF d.gated THEN GateVerdicts(m, o, d.kind) ELSE {"none"}
          /\ gate' = IF d.gated THEN [gate EXCEPT ![m] = verdict] ELSE gate
          /\ \/ /\ plan.goal = "close"
                /\ pc' = "finish"
                /\ leg' = [leg EXCEPT !.goal = "close", !.closure = plan.closure]
             \/ /\ plan.goal /= "close" /\ ~Refused(moment[o], step)
                /\ pc' = "deliver"
                /\ leg' = [leg EXCEPT !.goal = "continue", !.kind = plan.kind,
                                      !.step = step]
             \/ plan.goal /= "close" /\ Refused(moment[o], step) /\ Leave
    /\ UNCHANGED <<turn, act, said, moment, lock, attempts>> /\ UnchangedBut

----------------------------------------------------------------------------
(* _terminalize_moment, _resume_and_close, _abort_opening *)

Closing(closure) == IF closure.comp /= "none" THEN "COMPLETING" ELSE "ABORTING"

(* The closure is written with COMPLETING or ABORTING; a moment already    *)
(* there keeps its own.                                                    *)
Finish ==
    /\ pc = "finish"
    /\ LET mo      == moment[leg.mom]
           decided == mo.state \in {"COMPLETING", "ABORTING"}
           may     == \/ mo.state = "DECIDING_NEXT_ACTION"
                      \/ mo.state = "OPENING" /\ leg.goal = "quiet"
       IN \/ /\ may
             /\ PutMoment(leg.mom,
                          [mo EXCEPT !.state = Closing(leg.closure),
                                     !.closure = leg.closure],
                          "terminalize")
          \/ decided /\ Goto("terminalize") /\ UNCHANGED moment
          \/ ~may /\ ~decided /\ Leave /\ UNCHANGED moment
    /\ UNCHANGED <<turn, act, said, lock, gate, attempts>> /\ UnchangedBut

(* Faulty variant: the lock is released with the closing word, later.      *)
TerminalizeKeepsLock ==
    /\ pc = "terminalize"
    /\ IF Mine(leg.mom)
       THEN /\ moment' = [moment EXCEPT ![leg.mom].state = "TEACHING_TERMINAL"]
            /\ Goto("resume")
       ELSE UNCHANGED moment /\ Leave
    /\ UNCHANGED <<turn, act, said, lock, gate, attempts>> /\ UnchangedBut

(* terminalize_moment: the terminal state and the lock in one transaction. *)
TerminalizeMoment ==
    /\ pc = "terminalize"
    /\ IF Mine(leg.mom)
       THEN /\ moment' = [moment EXCEPT ![leg.mom].state = "TEACHING_TERMINAL"]
            /\ lock' = IF lock = leg.mom THEN Free ELSE lock
            /\ Goto("resume")
       ELSE UNCHANGED <<moment, lock>> /\ Leave
    /\ UNCHANGED <<turn, act, said, gate, attempts>> /\ UnchangedBut

(* Faulty variant: the state takes the word of the closing action.         *)
ResumeWrongWord ==
    /\ pc = "resume"
    /\ moment' = [moment EXCEPT ![leg.mom].state = "RESUME"]
    /\ pc' = IF leg.goal = "close" THEN "deliver" ELSE "land"
    /\ leg' = [leg EXCEPT !.step = StepTo(0, 0, "resume")]
    /\ UNCHANGED <<turn, act, said, lock, gate, attempts>> /\ UnchangedBut

(* The closing word is delivered from RESUMING, except when an opening or  *)
(* a lost delivery is aborted.                                             *)
Resume ==
    /\ pc = "resume"
    /\ IF Mine(leg.mom)
       THEN /\ moment' = [moment EXCEPT ![leg.mom].state = "RESUMING"]
            /\ pc' = IF leg.goal = "close" THEN "deliver" ELSE "land"
            /\ leg' = [leg EXCEPT !.step = StepTo(0, 0, "resume")]
       ELSE UNCHANGED moment /\ Leave
    /\ UNCHANGED <<turn, act, said, lock, gate, attempts>> /\ UnchangedBut

----------------------------------------------------------------------------
(* A reply that comes again while its delivery was under way or was over   *)

(* _reconcile_delivering_reply, the action: another epoch's is left alone. *)
SettleAction ==
    /\ pc = "inflight"
    /\ LET m == leg.msg
           open == HasAction(m) /\ FirstAction(m).status /= "TERMINAL"
           lost == said[m].slot = "none"
       IN IF open /\ (\/ FirstAction(m).owner /= epoch
                      \/ ~lost /\ FirstAction(m).status /= "DELIVERING")
          THEN UNCHANGED act /\ Leave
          ELSE /\ act' = IF open THEN [act EXCEPT ![m][turn[m].first].status = "TERMINAL"]
                                 ELSE act
               /\ Goto("settle")
    /\ UNCHANGED <<turn, said, moment, lock, gate, attempts>> /\ UnchangedBut

(* ... and its turn, claimed and closed.                                   *)
SettleTurn ==
    /\ pc = "settle"
    /\ turn' = [turn EXCEPT ![leg.msg].owner = epoch, ![leg.msg].status = "DONE"]
    /\ Goto(IF said[leg.msg].slot = "none" THEN "lost" ELSE "reconcile")
    /\ UNCHANGED <<act, said, moment, lock, gate, attempts>> /\ UnchangedBut

(* _abort_lost_delivery: whatever moment holds the lock is aborted.        *)
AbortLostDelivery ==
    /\ pc = "lost"
    /\ IF lock = Free THEN Leave
       ELSE /\ pc' = "finish"
            /\ leg' = [leg EXCEPT !.mom = lock, !.goal = "lost",
                                  !.closure = Aborted("DELIVERY_FAILURE")]
    /\ UNCHANGED stored /\ UnchangedBut

(* The rung that a delivered turn had reached, from the delivered hints of *)
(* the moment or from the ladder.                                          *)
Reconciled(mo, o, slot) ==
    LET shown == Cardinality(Delivered(o, {"hint"}))
        same  == [phase |-> mo.phase, support |-> mo.support]
    IN CASE slot = "hint" /\ shown > HintRungs -> [phase |-> FullReveal, support |-> FullForm]
         [] slot = "hint" /\ shown \in 1..HintRungs -> [phase |-> shown, support |-> shown + 1]
         [] slot = "reveal" -> [phase |-> FullReveal, support |-> FullForm]
         [] slot = "explanation" ->
                LET step == LadderStep(mo, "EXPLANATION")
                IN [phase |-> step.phase, support |-> step.support]
         [] OTHER -> same

(* _reconcile_moment_ladder: a delivered continuation whose landing is     *)
(* missing is landed now; one that has landed changes nothing.             *)
ReconcileMomentLadder ==
    /\ pc = "reconcile"
    /\ LET m    == leg.msg
           o    == FirstAction(m).mom
           mo   == moment[o]
           to   == Reconciled(mo, o, turn[m].first)
           due  == /\ HasAction(m) /\ FirstAction(m).status = "TERMINAL"
                   /\ mo.state \in ReplyPath
                   /\ turn[m].first \in {"hint", "retry", "reveal", "explanation"}
                   /\ to.phase >= mo.phase /\ to.support >= mo.support
       IN moment' = IF due /\ Mine(o)
                    THEN [moment EXCEPT ![o] =
                            [mo EXCEPT !.state = "AWAITING_USER", !.phase = to.phase,
                                       !.support = to.support]]
                    ELSE moment
    /\ Leave
    /\ UNCHANGED <<turn, act, said, lock, gate, attempts>> /\ UnchangedBut

----------------------------------------------------------------------------
(* Failure: a step raises or is refused by the store before it writes.     *)
(* The leg ends; recovery goes on with its next part, where the code does. *)

Fault ==
    /\ faults < MaxFaults /\ pc \notin {"down", "idle"}
    /\ faults' = faults + 1
    /\ \/ pc = "openings" /\ Goto("sweep")
       \/ pc \in {"sweep", "residue"} /\ pc' = "idle" /\ leg' = NoLeg
       \/ /\ pc = "residue"
          /\ \E m \in leg.todo : leg' = [leg EXCEPT !.todo = @ \ {m}]
          /\ pc' = pc
       \/ pc \notin {"openings", "sweep", "residue"} /\ Leave
    /\ UNCHANGED <<epoch, newest, stored>>

Init ==
    /\ epoch = 0 /\ newest = "none"
    /\ turn = [m \in Msgs |-> NoTurn]
    /\ act = [m \in Msgs |-> [s \in Slots |-> NoAct]]
    /\ said = [m \in Msgs |-> NotSaid]
    /\ moment = [o \in Opens |-> NoMoment]
    /\ lock = Free
    /\ gate = [m \in Msgs |-> "none"]
    /\ attempts = {}
    /\ pc = "down" /\ leg = NoLeg
    /\ faults = 0

Step ==
    \/ AbortUndeliveredOpenings \/ RecoverOrphanTeachingLocks \/ Serve
    \/ \E m \in Msgs : CloseResidualTurn(m)
    \/ EnterOpening \/ RecordCycle \/ OpenTeachingMoment
    \/ \E v \in {"DENY", "DEGRADED", "STALE"} : RefuseOpening(v)
    \/ ReplayDelivery \/ BeginDelivery \/ CreateAction \/ RunAction
    \/ ProduceReply \/ ProduceNothing \/ SendReply \/ TranscribeReply
    \/ CompleteAction \/ TerminalizeTurn \/ Undelivered \/ Land
    \/ EnterReply \/ Evaluate \/ RecordAttempt \/ MarkPostReveal \/ AdvanceToDeciding
    \/ \E v \in {"none", "ALLOW", "DEGRADED", "HARD", "POLICY"} : Decide(v)
    \/ Finish \/ TerminalizeMoment \/ Resume
    \/ SettleAction \/ SettleTurn \/ AbortLostDelivery \/ ReconcileMomentLadder

Next ==
    \/ Start \/ Fault \/ Step
    \/ \E o \in Opens : RequestTeaching(o)
    \/ \E m \in Replies, env \in Envelopes : RespondToTeaching(m, env)

Spec == Init /\ [][Next]_vars

(* A leg that has started runs on: nothing in it waits for another actor.  *)
(* No fairness of the learner, of restarts or of failures is assumed.      *)
Fairness == WF_vars(Step)

FairSpec == Spec /\ Fairness

----------------------------------------------------------------------------
(* Properties *)

Labels == {"down", "idle", "openings", "sweep", "residue", "openEntry", "cycle",
           "repair", "openGate", "deliver", "dispatch", "produce", "send",
           "transcribe", "complete", "closeTurn", "silent", "undelivered", "land",
           "replyEntry", "evaluate", "attempt", "judge", "deciding", "decide",
           "finish", "terminalize", "resume", "inflight", "settle", "lost",
           "reconcile"}
Verdicts   == {"none", "ALLOW", "DENY", "DEGRADED", "STALE", "HARD", "POLICY"}
Closures   == [comp : {"none", "SUCCESS", "REVEALED", "PARTIAL_PROGRESS"},
               abort : {"none", "USER_SWITCH_TARGET", "USER_SKIP", "SYSTEM_FAILURE",
                        "POLICY_STOP", "DELIVERY_FAILURE", "SYSTEM_RECOVERY_ABORT"}]
TurnStates == {"ABSENT", "USER_COMMITTED", "DECIDING", "GENERATING", "DELIVERING", "DONE"}
ActStates  == {"ABSENT", "PREPARED", "RUNNING", "DELIVERING", "TERMINAL"}

TurnRow    == [status : TurnStates, owner : Nat, cycle : Nat, env : Envelope,
               first : Slots \cup {"none"}]
ActRow     == [status : ActStates, owner : Nat, mom : Opens \cup {Free}]
SaidRow    == [slot : Slots \cup {"none"}, support : 0..FullForm]
MomentRow  == [state : States, phase : 0..Explanation, support : 0..FullForm,
               index : Nat, closure : Closures]
AttemptRow == [mom : Opens, msg : Replies, index : Nat, support : 0..FullForm,
               seen : 0..FullForm]
Goals      == {"none", "opening", "continue", "close", "quiet", "lost"}
LadderPlan == [phase : 0..Explanation, support : 0..FullForm, slot : Slots \cup {"none"}]
LegRow     == [msg : Msgs, mom : Opens, env : Envelope, goal : Goals,
               closure : Closures, step : LadderPlan, kind : Kinds,
               back : {"idle", "sweep"}, todo : SUBSET Msgs]

(* Every row and every local of the leg has the values of the enums the    *)
(* code declares (teaching/types.py), and an attempt never names more      *)
(* support than the full form.                                             *)
TypeOK ==
    /\ epoch \in Nat /\ faults \in Nat /\ newest \in Msgs \cup {"none"}
    /\ turn \in [Msgs -> TurnRow]
    /\ act \in [Msgs -> [Slots -> ActRow]]
    /\ said \in [Msgs -> SaidRow]
    /\ moment \in [Opens -> MomentRow]
    /\ lock \in Opens \cup {Free}
    /\ gate \in [Msgs -> Verdicts]
    /\ attempts \subseteq AttemptRow
    /\ pc \in Labels
    /\ leg \in LegRow

(* The durable lock names a moment exactly while that moment is live: no   *)
(* crash, refusal or failing write between any two transactions of a leg   *)
(* or of recovery leaves a lock held by a finished episode, or a live      *)
(* episode without its lock (open_teaching_moment, terminalize_moment,     *)
(* recover_orphan_teaching_locks; so there is at most one live moment).    *)
LockIsLive == \A o \in Opens : lock = o <=> moment[o].state \in LiveStates

(* A moment is locked exactly as long as it lives, in rows of the declared *)
(* vocabularies (teaching/store.py).                                       *)
MomentsAreLocked == TypeOK /\ LockIsLive

(* The presentation ladder is one-way and a finished episode stays         *)
(* finished: neither a delivery, nor a replay of an old reply, nor         *)
(* recovery lowers phase or support or brings a moment back to life        *)
(* (ladder.py, _terminal_tail_refusal, _reconcile_moment_ladder).          *)
LadderOneWay ==
    [][\A o \in Opens :
         /\ moment'[o].phase >= moment[o].phase
         /\ moment'[o].support >= moment[o].support
         /\ moment[o].state \notin LiveStates \cup {"ABSENT"}
               => moment'[o].state \notin LiveStates]_vars

(* The attempts of a moment are numbered 1, 2, ... without gap or repeat,  *)
(* and the counter of the moment is the last number, whichever replies     *)
(* failed halfway or came twice (record_attempt).                          *)
AttemptsDense ==
    \A o \in Opens :
        /\ {a.index : a \in AttemptsOf(o)} = 1..moment[o].index
        /\ AttemptLoad(o) = moment[o].index

(* An attempt is never recorded with less support than the learner had     *)
(* been shown when answering (STATE_MACHINES section 3; attempt_record_for *)
(* copies the support of the moment, which moves only after a delivery).   *)
SupportCoversShown == \A a \in attempts : a.support >= a.seen

(* The hint rungs are never ahead of the deliveries: a rung is reached     *)
(* after at least as many delivered hints as it stands for, however often  *)
(* a reply fails halfway or is sent again (_deliver_continuation lands     *)
(* after it delivers, _reconcile_moment_ladder counts what was delivered). *)
RungsWereShown ==
    \A o \in Opens : moment[o].phase \in 1..3 =>
        moment[o].phase <= Cardinality(Delivered(o, {"hint"}))

(* Nothing past a hard cap is delivered: no hint or retry once the hard    *)
(* attempt limit is met, nothing but a reveal or the closing word once the *)
(* hard turn limit is, whatever was decided earlier and is sent again      *)
(* (limits.py, _pre_delivery_guard_facts).                                 *)
HardCapsHold ==
    [][\A m \in Replies : said'[m] /= said[m] =>
         LET o == act[m][said'[m].slot].mom
         IN /\ said'[m].slot \in {"hint", "retry"} => AttemptLoad(o) < HardAttempts
            /\ said'[m].slot \in {"hint", "retry", "explanation"}
                  => TurnLoad(o) < HardTurns]_vars

(* Recovery leaves no moment behind that nobody may move: a serving        *)
(* process owns the opening turn of the moment that holds the lock, unless *)
(* a step of recovery failed (run_startup_recovery).                       *)
NoForeignLock == pc = "idle" /\ faults = 0 => ~ForeignLock

(* Nobody is misjudged or shut out: an answer is booked with all the help  *)
(* that was shown, and after recovery the lock is the serving process's    *)
(* own (attempt_record_for, run_startup_recovery).                         *)
SupportIsHonest == SupportCoversShown /\ NoForeignLock

(* A reply, resent or failing halfway, only moves its moment forward and   *)
(* is counted once (record_attempt, ladder.py).                            *)
RepliesMoveForward == []AttemptsDense /\ LadderOneWay

(* Help is given rung by rung and never past a cap: no rung without the    *)
(* deliveries it stands for, no delivery beyond a hard limit               *)
(* (_reconcile_moment_ladder, limits.py).                                  *)
LadderIsEarned == []RungsWereShown /\ HardCapsHold

(* A moment has one closure at the end: a completion or an abort, not both *)
(* and not neither (store.py, terminalize_moment).                         *)
OneClosure ==
    \A o \in Opens : moment[o].state \in {"TEACHING_TERMINAL", "RESUMING", "CLOSED"} =>
        (moment[o].closure.comp = "none") /= (moment[o].closure.abort = "none")

(* "the phase is a claim about what the user was actually shown" (docstring*)
(* of _deliver_continuation): the support of a moment has been shown.      *)
SupportWasShown == \A o \in Opens : \E s \in Shown(o) : s >= moment[o].support

(* A moment passes through its transient states: whatever crashes, an      *)
(* opening is presented or aborted, an evaluation ends, and a closure that *)
(* has been decided is carried out.                                        *)
TransientMovesOn ==
    \A o \in Opens :
        []<>(moment[o].state \notin {"OPENING", "EVALUATING", "COMPLETING", "ABORTING"})

(* "the moment can never sit at DECIDING_NEXT_ACTION forever" (docstring   *)
(* of _deliver_continuation).                                              *)
DecidingMovesOn ==
    \A o \in Opens : moment[o].state = "DECIDING_NEXT_ACTION"
                        ~> moment[o].state /= "DECIDING_NEXT_ACTION"
==============================================================================
