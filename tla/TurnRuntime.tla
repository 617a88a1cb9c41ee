----------------------------- MODULE TurnRuntime -----------------------------
(***************************************************************************)
(* The normal persona turn of one conversation: from the user's input to a *)
(* terminal TurnRecord, across process deaths, fenced-off processes, user  *)
(* interrupts and failing steps.                                           *)
(*                                                                         *)
(* A runtime is one process incarnation, identified by the runtime_epoch   *)
(* it opened; the newest epoch row fences every older runtime, which may   *)
(* still be running.  A runtime drives at most one leg of the conversation *)
(* at a time: the in-process lease is held exactly while its pc is not     *)
(* "idle".  Every durable write is one short transaction and so one step;  *)
(* provider calls and chunk releases are steps of their own.               *)
(*   runtime/controller.py, persona/runtime.py, conversation/store.py,     *)
(*   platform/db/{generation,delivery,decision_cycle}_store.py             *)
(***************************************************************************)
EXTENDS DeliveryFacts, FiniteSets

CONSTANTS
    Inputs,         \* the user's messages (stable client_message_ids)
    MaxEpoch,       \* runtime incarnations
    MaxAttempts,    \* max_provider_attempts of one dispatch
    MaxFaults,      \* failing steps in a behaviour
    FaultKinds,     \* which steps may fail: SUBSET {"leg", "raise", "refuse"}
    InterruptKinds, \* what an InterruptRequest may name: {"turn", "action"}
    Parking         \* whether begin_turn_parked is used

ASSUME TurnRuntimeAssumption ==
    /\ Inputs /= {} /\ MaxEpoch \in Nat /\ MaxAttempts \in Nat \ {0} /\ MaxFaults \in Nat
    /\ FaultKinds \subseteq {"leg", "raise", "refuse"}
    /\ InterruptKinds \subseteq {"turn", "action"}
    /\ Parking \in BOOLEAN

VARIABLES
    dbEpoch,    \* MAX(epoch) of runtime_epoch
    conv,       \* conversation row: next_turn_sequence, next_message_sequence
    turn,       \* [Inputs -> turn_record (with its user_turn)]
    action,     \* [Inputs -> generation_action_intent of that turn]
    row,        \* [Inputs -> server_delivery_record of that action]
    asst,       \* [Inputs -> assistant_turn of that turn]
    est,        \* [Inputs -> exposure_estimate of that action]
    interrupts, \* interrupt_request rows: <<input, what it names>>
    parked,     \* turns begin_turn_parked has returned
    pc, job,    \* per runtime: where its leg stands, and the leg's locals
    work,       \* per runtime: the plan or worklist it read once
    faults,     \* failing steps so far
    shown       \* history: what reached the client, per turn

stored == <<conv, turn, action, row, asst, est>>
vars == <<dbEpoch, stored, interrupts, parked, pc, job, work, faults, shown>>

----------------------------------------------------------------------------
Epochs == 1..MaxEpoch

TerminalTurn == {"COMPLETED", "CANCELLED_BY_USER", "FAILED_FINAL"}

TurnStatus == {"ABSENT", "USER_COMMITTED", "ANALYZING", "GENERATING",
               "DELIVERING"} \cup TerminalTurn

ActionStatus == {"ABSENT", "PREPARED", "REQUESTED", "GENERATING", "VALIDATING",
                 "READY_TO_DELIVER", "DELIVERING", "TERMINAL"}

Outcome == {"NONE", "REPLIED_FULL", "REPLIED_PARTIAL", "CANCELLED_BY_USER",
            "FAILED_USER_VISIBLE", "NO_ASSISTANT_OUTPUT"}

Label == {"down", "dead", "idle", "recover", "handoff", "cp0", "adopt",
          "advance", "closeParked", "dispatch", "call", "provider", "validating",
          "verdict", "retry", "begin", "deliver", "open", "guard", "take",
          "emit", "record", "freeze", "estimate", "transcribe", "settle",
          "close", "repair", "repairText", "repairEstimate"}

NoTurn   == [status |-> "ABSENT", owner |-> 0, version |-> 0, seq |-> 0,
             msg |-> 0, cycle |-> FALSE]
NoAction == [status |-> "ABSENT", owner |-> 0, attempts |-> 0]
RowOf(word, prefix, closed) ==
    [word |-> word, prefix |-> prefix, closed |-> closed]
NoRow    == RowOf("ABSENT", 0, FALSE)
AsstOf(content, word, msg) ==
    [present |-> TRUE, content |-> content, word |-> word, msg |-> msg]
ConvOf(nextTurn, nextMsg) == [nextTurn |-> nextTurn, nextMsg |-> nextMsg]
NoAsst   == [present |-> FALSE, content |-> 0, word |-> "ABSENT", msg |-> 0]
NoShow   == [count |-> 0, runs |-> 0, late |-> 0, fenced |-> 0]

(* The locals of a leg: the input it serves, the turn its current tail     *)
(* finishes and the label that tail returns to, the state_version it read, *)
(* its attempt counter and budget_end, the run's released and durable      *)
(* prefixes and final word, the outcome it will terminalize with.          *)
AnyInput == CHOOSE i \in Inputs : TRUE
FreshJob(input, target, back) ==
    [input |-> input, target |-> target, back |-> back, ver |-> 0,
     attempts |-> 0, budget |-> 0, released |-> 0, durable |-> 0,
     word |-> "ABSENT", outcome |-> "NONE"]
NoJob == FreshJob(AnyInput, AnyInput, "idle")

(* The word and the outcome a leg will end with.                           *)
Ending(j, word, outcome) == [j EXCEPT !.word = word, !.outcome = outcome]

Live(i)    == turn[i].status \notin TerminalTurn \cup {"ABSENT"}
Running(i) == action[i].status \notin {"TERMINAL", "ABSENT"}

(* _PENDING_INTERRUPT_PREDICATE: what the request names is still live.     *)
Pending(r) == IF r[2] = "turn" THEN Live(r[1]) ELSE Running(r[1])

(* Faulty variant: the fence is dropped.                                   *)
FenceDropped(e) == e \in 1..dbEpoch

(* _require_current_epoch: the fence every durable write passes.           *)
Current(e) == e = dbEpoch

----------------------------------------------------------------------------
(* Steps of a leg.                                                         *)

Goto(e, label) == pc' = [pc EXCEPT ![e] = label]

(* The leg ends (a return or an exception): the lease is released.         *)
Leave(e) ==
    /\ Goto(e, "idle")
    /\ job' = [job EXCEPT ![e] = NoJob]
    /\ work' = [work EXCEPT ![e] = {}]

(* The leg or the sub-leg is finished: back to its caller.                 *)
Return(e) ==
    IF job[e].back = "idle"
    THEN Leave(e)
    ELSE /\ Goto(e, job[e].back)
         /\ job' = [job EXCEPT ![e] = FreshJob(@.input, @.input, "idle")]
         /\ UNCHANGED work

(* transition_turn / terminalize_turn: owner check, then status and        *)
(* version move together.                                                  *)
Moved(t, status) == [t EXCEPT !.status = status, !.version = t.version + 1]

MoveTurn(e, i, status) ==
    /\ Current(e)
    /\ turn[i].owner = e /\ Live(i)
    /\ turn' = [turn EXCEPT ![i] = Moved(@, status)]

(* transition_action: owner and status CAS.                                *)
InStatus(a, status) == [a EXCEPT !.status = status]

MoveAction(e, i, from, to) ==
    /\ Current(e)
    /\ action[i].owner = e /\ action[i].status = from
    /\ action' = [action EXCEPT ![i] = InStatus(@, to)]

(* claim_turn_for_recovery: the newest epoch adopts a foreign live turn.   *)
OwnedBy(t, e) == [t EXCEPT !.owner = e, !.version = t.version + 1]

(* Faulty variant: the turn is not adopted.                                *)
NeverAdopted(e, i) == turn

Adopted(e, i) ==
    IF Live(i) /\ turn[i].owner /= e
    THEN [turn EXCEPT ![i] = OwnedBy(@, e)]
    ELSE turn

(* Faulty variant: the message position is used and not counted.           *)
CanonicalizeUncounted(e, i, content, word) ==
    /\ Current(e) /\ turn[i].owner = e
    /\ asst' = IF asst[i].present THEN asst
               ELSE [asst EXCEPT ![i] = AsstOf(content, word, conv.nextMsg)]
    /\ UNCHANGED conv

(* canonicalize_assistant_turn: the existing row, or a new one at the next *)
(* message position.  The turn's status is not read.                       *)
Canonicalize(e, i, content, word) ==
    /\ Current(e) /\ turn[i].owner = e
    /\ IF asst[i].present
       THEN UNCHANGED <<asst, conv>>
       ELSE /\ asst' = [asst EXCEPT ![i] = AsstOf(content, word, conv.nextMsg)]
            /\ conv' = ConvOf(conv.nextTurn, conv.nextMsg + 1)

(* Faulty variant: a closed row is advanced like an open one.              *)
AdvancedReopening(old, new) ==
    IF old.word = "ABSENT" \/ new.prefix >= old.prefix THEN new ELSE old

(* record_server_delivery: the rule a submission must meet to advance the  *)
(* row; a refused submission leaves the row as it is.                      *)
Advanced(old, new) ==
    IF old.word = "ABSENT" \/ (~old.closed /\ new.prefix >= old.prefix)
    THEN new ELSE old

(* Faulty variant: the outcome is stored as the status.                    *)
StatusIsOutcome(outcome) == outcome

(* terminalize_turn's mapping from the outcome to the terminal status.     *)
StatusOf(outcome) ==
    CASE outcome = "CANCELLED_BY_USER"   -> "CANCELLED_BY_USER"
      [] outcome = "FAILED_USER_VISIBLE" -> "FAILED_FINAL"
      [] OTHER                           -> "COMPLETED"

----------------------------------------------------------------------------
(* Process life.                                                           *)

(* open_runtime_epoch + adopt_epoch: a new process opens the next epoch    *)
(* and starts its startup recovery by reading the plan: the live turns of  *)
(* other epochs.  The previous process may still be alive.                 *)
StartRuntime(e) ==
    /\ pc[e] = "down" /\ e = dbEpoch + 1
    /\ dbEpoch' = e
    /\ Goto(e, "recover")
    /\ work' = [work EXCEPT ![e] = {<<i, "turn">> : i \in {j \in Inputs : Live(j)}}]
    /\ UNCHANGED <<stored, interrupts, parked, job, faults, shown>>

(* The process dies at any point; what it held in memory is gone.          *)
Crash(e) ==
    /\ pc[e] \notin {"down", "dead"}
    /\ pc' = [pc EXCEPT ![e] = "dead"]
    /\ job' = [job EXCEPT ![e] = NoJob]
    /\ work' = [work EXCEPT ![e] = {}]
    /\ UNCHANGED <<dbEpoch, stored, interrupts, parked, faults, shown>>

(* Labels whose next effect is a fenced write: a stale runtime's leg ends  *)
(* there with a StaleEpoch exception.                                      *)
FencedLabels == Label \ {"down", "dead", "idle", "take", "emit"}

Fenced(e) ==
    /\ ~Current(e) /\ pc[e] \in FencedLabels
    /\ Leave(e)
    /\ UNCHANGED <<dbEpoch, stored, interrupts, parked, faults, shown>>

(* A write of the leg fails (or an exception ends it) while the process    *)
(* stays up: the durable state is left as the last transaction made it.    *)
(* Startup recovery swallows the failure of one turn and goes on.          *)
LegFault(e) ==
    /\ "leg" \in FaultKinds /\ faults < MaxFaults
    /\ pc[e] \in FencedLabels \ {"recover", "record", "estimate", "repairEstimate"}
    /\ faults' = faults + 1
    /\ IF job[e].back = "recover" THEN Return(e) ELSE Leave(e)
    /\ UNCHANGED <<dbEpoch, stored, interrupts, parked, shown>>

(* _write_initial_estimate swallows a failing write: the leg goes on       *)
(* without an estimate.                                                    *)
EstimateLost(e) ==
    /\ "leg" \in FaultKinds /\ faults < MaxFaults
    /\ pc[e] \in {"estimate", "repairEstimate"}
    /\ faults' = faults + 1
    /\ Goto(e, IF pc[e] = "estimate" /\ job[e].durable > 0 THEN "transcribe"
               ELSE IF pc[e] = "estimate" THEN "settle" ELSE "close")
    /\ UNCHANGED <<dbEpoch, stored, interrupts, parked, job, work, shown>>

----------------------------------------------------------------------------
(* Startup recovery: reconcile_delivering_residue over the plan.           *)

(* Only a live turn whose action already reached TERMINAL is repaired; the *)
(* others are left for a re-entry of their input.                          *)
RecoverTurn(e) ==
    /\ pc[e] = "recover"
    /\ \E w \in work[e] :
         /\ work' = [work EXCEPT ![e] = @ \ {w}]
         /\ IF Live(w[1]) /\ action[w[1]].status = "TERMINAL"
            THEN /\ Goto(e, "repair")
                 /\ job' = [job EXCEPT ![e] = FreshJob(w[1], w[1], "recover")]
            ELSE UNCHANGED <<pc, job>>
    /\ UNCHANGED <<dbEpoch, stored, interrupts, parked, faults, shown>>

RecoveryDone(e) ==
    /\ pc[e] = "recover" /\ work[e] = {}
    /\ Leave(e)
    /\ UNCHANGED <<dbEpoch, stored, interrupts, parked, faults, shown>>

(* _reconcile_delivering_turn: adopt the turn, *)
RepairClaim(e) ==
    LET i == job[e].target IN
    /\ pc[e] = "repair" /\ Current(e)
    /\ turn' = Adopted(e, i)
    /\ Goto(e, "repairText")
    /\ UNCHANGED <<dbEpoch, conv, action, row, asst, est, interrupts, parked,
                   job, work, faults, shown>>

(* canonicalize a durable prefix that has no transcript, *)
(* and take the outcome the durable facts entail (_reconciled_turn_outcome) *)
ReconciledOutcome(i) ==
    LET prefix == row[i].prefix
        word   == IF asst[i].present THEN asst[i].word ELSE row[i].word
    IN  IF prefix = 0 /\ ~asst[i].present THEN "NO_ASSISTANT_OUTPUT"
        ELSE IF row[i].word = "CANCELLED" /\ prefix > 0 THEN "CANCELLED_BY_USER"
        ELSE IF word = "SENT_COMPLETE" THEN "REPLIED_FULL"
        ELSE "REPLIED_PARTIAL"

RepairText(e) ==
    LET i == job[e].target IN
    /\ pc[e] = "repairText" /\ Current(e)
    /\ IF ~asst[i].present /\ row[i].prefix > 0
       THEN Canonicalize(e, i, row[i].prefix, "SENT_PARTIAL")
       ELSE UNCHANGED <<asst, conv>>
    /\ job' = [job EXCEPT ![e] = Ending(@, @.word, ReconciledOutcome(i))]
    /\ Goto(e, "repairEstimate")
    /\ UNCHANGED <<dbEpoch, turn, action, row, est, interrupts, parked, work,
                   faults, shown>>

(* and write the estimate the delivery owes when a row exists and no       *)
(* estimate does (a SENDING row derives none).                             *)
RepairEstimate(e) ==
    LET i == job[e].target IN
    /\ pc[e] = "repairEstimate" /\ Current(e)
    /\ est' = IF row[i].word \in EstimableWord /\ ~est[i].present
              THEN [est EXCEPT ![i] = EstimateOf(row[i].word, row[i].prefix, -1, -1)]
              ELSE est
    /\ Goto(e, "close")
    /\ UNCHANGED <<dbEpoch, conv, turn, action, row, asst, interrupts, parked,
                   job, work, faults, shown>>

----------------------------------------------------------------------------
(* Entry: begin_turn / begin_turn_parked, under the conversation lease.    *)

(* The lease is taken and the pending interrupt requests are read once.    *)
BeginTurn(e, i) ==
    /\ pc[e] = "idle"
    /\ Goto(e, "handoff")
    /\ job' = [job EXCEPT ![e] = FreshJob(i, i, "idle")]
    /\ work' = [work EXCEPT ![e] = {r \in interrupts : Pending(r)}]
    /\ UNCHANGED <<dbEpoch, stored, interrupts, parked, faults, shown>>

Cancelling(j, i, prefix) ==
    [j EXCEPT !.target = i, !.durable = prefix, !.back = "handoff",
              !.outcome = "CANCELLED_BY_USER"]

(* Faulty variant: the cancelled prefix is not transcribed.                *)
CancelActionUntranscribed(e, i) ==
    /\ pc[e] = "handoff" /\ <<i, "action">> \in work[e]
    /\ Current(e) /\ Running(i) /\ action[i].owner = e
    /\ row' = IF row[i].word = "ABSENT" THEN row
              ELSE [row EXCEPT ![i] = Advanced(@, RowOf("CANCELLED", @.prefix, TRUE))]
    /\ work' = [work EXCEPT ![e] = @ \ {<<i, "action">>}]
    /\ job' = [job EXCEPT ![e] = Cancelling(@, i, 0)]
    /\ Goto(e, "settle")
    /\ UNCHANGED <<dbEpoch, conv, turn, action, asst, est, interrupts, parked,
                   faults, shown>>

(* _reconcile_pending_interrupt, a request naming an action this epoch     *)
(* owns: its delivery is cancelled with the durable prefix kept.  The rest *)
(* is the shared tail: transcribe, settle, close.                          *)
CancelAction(e, i) ==
    /\ pc[e] = "handoff" /\ <<i, "action">> \in work[e]
    /\ Current(e) /\ Running(i) /\ action[i].owner = e
    /\ row' = IF row[i].word = "ABSENT" THEN row
              ELSE [row EXCEPT ![i] = Advanced(@, RowOf("CANCELLED", @.prefix, TRUE))]
    /\ work' = [work EXCEPT ![e] = @ \ {<<i, "action">>}]
    /\ job' = [job EXCEPT ![e] = Cancelling(@, i, row[i].prefix)]
    /\ Goto(e, IF row[i].prefix > 0 THEN "transcribe" ELSE "settle")
    /\ UNCHANGED <<dbEpoch, conv, turn, action, asst, est, interrupts, parked,
                   faults, shown>>

(* A request naming a turn this epoch owns: the turn is terminalized, its  *)
(* action and its delivery row are not touched.                            *)
CancelTurn(e, i) ==
    /\ pc[e] = "handoff" /\ <<i, "turn">> \in work[e]
    /\ MoveTurn(e, i, "CANCELLED_BY_USER")
    /\ work' = [work EXCEPT ![e] = @ \ {<<i, "turn">>}]
    /\ UNCHANGED <<dbEpoch, conv, action, row, asst, est, interrupts, parked,
                   pc, job, faults, shown>>

(* A request whose target is terminal by now, or another epoch's, is       *)
(* skipped and stays durable.                                              *)
SkipRequest(e, r) ==
    /\ pc[e] = "handoff" /\ r \in work[e]
    /\ \/ ~Pending(r)
       \/ (IF r[2] = "turn" THEN turn[r[1]].owner ELSE action[r[1]].owner) /= e
    /\ work' = [work EXCEPT ![e] = @ \ {r}]
    /\ UNCHANGED <<dbEpoch, stored, interrupts, parked, pc, job, faults, shown>>

HandoffDone(e) ==
    /\ pc[e] = "handoff" /\ work[e] = {}
    /\ Goto(e, "cp0")
    /\ UNCHANGED <<dbEpoch, stored, interrupts, parked, job, work, faults, shown>>

(* commit_user_turn (CP0): the turn of this input, created once.           *)
NewTurn(e, c) ==
    [status |-> "USER_COMMITTED", owner |-> e, version |-> 1,
     seq |-> c.nextTurn, msg |-> c.nextMsg, cycle |-> FALSE]

CommitUserTurn(e) ==
    LET i == job[e].input IN
    /\ pc[e] = "cp0" /\ Current(e)
    /\ IF turn[i].status = "ABSENT"
       THEN /\ turn' = [turn EXCEPT ![i] = NewTurn(e, conv)]
            /\ conv' = ConvOf(conv.nextTurn + 1, conv.nextMsg + 1)
       ELSE UNCHANGED <<turn, conv>>
    /\ Goto(e, "adopt")
    /\ UNCHANGED <<dbEpoch, action, row, asst, est, interrupts, parked, job,
                   work, faults, shown>>

AtVersion(j, version) == [j EXCEPT !.ver = version]

(* Faulty variant: only a turn this runtime finished itself is replayed.   *)
ReplayOwnTerminal(e) ==
    /\ pc[e] = "adopt" /\ turn[job[e].input].status \in TerminalTurn
    /\ turn[job[e].input].owner = e
    /\ Leave(e)
    /\ UNCHANGED <<dbEpoch, stored, interrupts, parked, faults, shown>>

(* A terminal turn is replayed to the caller; a foreign live one adopted.  *)
ReplayTerminal(e) ==
    /\ pc[e] = "adopt" /\ turn[job[e].input].status \in TerminalTurn
    /\ Leave(e)
    /\ UNCHANGED <<dbEpoch, stored, interrupts, parked, faults, shown>>

(* Faulty variant: the leg keeps the version it read before the adoption.  *)
AdoptTurnStale(e) ==
    LET i == job[e].input IN
    /\ pc[e] = "adopt" /\ Live(i) /\ Current(e)
    /\ turn' = Adopted(e, i)
    /\ job' = [job EXCEPT ![e] = AtVersion(@, turn[i].version)]
    /\ Goto(e, "advance")
    /\ UNCHANGED <<dbEpoch, conv, action, row, asst, est, interrupts, parked,
                   work, faults, shown>>

AdoptTurn(e) ==
    LET i == job[e].input IN
    /\ pc[e] = "adopt" /\ Live(i) /\ Current(e)
    /\ turn' = Adopted(e, i)
    /\ job' = [job EXCEPT ![e] = AtVersion(@, turn'[i].version)]
    /\ Goto(e, "advance")
    /\ UNCHANGED <<dbEpoch, conv, action, row, asst, est, interrupts, parked,
                   work, faults, shown>>

(* A turn already DELIVERING is never generated again: its residue is      *)
(* repaired when its action is TERMINAL and refused otherwise.             *)
RepairDelivering(e) ==
    LET i == job[e].input IN
    /\ pc[e] = "advance" /\ turn[i].status = "DELIVERING"
    /\ action[i].status = "TERMINAL"
    /\ Goto(e, "repair")
    /\ UNCHANGED <<dbEpoch, stored, interrupts, parked, job, work, faults, shown>>

RefuseDelivering(e) ==
    LET i == job[e].input IN
    /\ pc[e] = "advance" /\ turn[i].status = "DELIVERING"
    /\ action[i].status /= "TERMINAL"
    /\ Leave(e)
    /\ UNCHANGED <<dbEpoch, stored, interrupts, parked, faults, shown>>

(* Faulty variant: an uncertain delivery is taken up as a generation.      *)
AdvanceTurnReplaying(e) ==
    LET i == job[e].input IN
    /\ pc[e] = "advance" /\ job[e].ver = turn[i].version
    /\ turn[i].status \in {"USER_COMMITTED", "ANALYZING", "DELIVERING"}
    /\ MoveTurn(e, i, IF turn[i].status = "USER_COMMITTED" THEN "ANALYZING"
                      ELSE "GENERATING")
    /\ job' = [job EXCEPT ![e] = AtVersion(@, @.ver + 1)]
    /\ UNCHANGED <<dbEpoch, conv, action, row, asst, est, interrupts, parked,
                   pc, work, faults, shown>>

(* USER_COMMITTED -> ANALYZING, and after the learning analysis (which     *)
(* never blocks the turn) ANALYZING -> GENERATING; both under the          *)
(* state_version the leg read.                                             *)
AdvanceTurn(e) ==
    LET i == job[e].input IN
    /\ pc[e] = "advance" /\ job[e].ver = turn[i].version
    /\ turn[i].status \in {"USER_COMMITTED", "ANALYZING"}
    /\ MoveTurn(e, i, IF turn[i].status = "USER_COMMITTED" THEN "ANALYZING"
                      ELSE "GENERATING")
    /\ job' = [job EXCEPT ![e] = AtVersion(@, @.ver + 1)]
    /\ UNCHANGED <<dbEpoch, conv, action, row, asst, est, interrupts, parked,
                   pc, work, faults, shown>>

(* begin_turn_parked returns here; the turn rests at GENERATING.           *)
ParkTurn(e) ==
    /\ Parking
    /\ pc[e] = "advance" /\ turn[job[e].input].status = "GENERATING"
    /\ parked' = parked \cup {job[e].input}
    /\ Leave(e)
    /\ UNCHANGED <<dbEpoch, stored, interrupts, faults, shown>>

(* record_decision_cycle: once per turn, under the version CAS.            *)
WithCycle(t) == [t EXCEPT !.cycle = TRUE, !.version = t.version + 1]

RecordCycle(e) ==
    LET i == job[e].input IN
    /\ pc[e] = "advance" /\ turn[i].status = "GENERATING" /\ Current(e)
    /\ IF turn[i].cycle
       THEN UNCHANGED <<turn, job>>
       ELSE /\ turn[i].owner = e /\ job[e].ver = turn[i].version
            /\ turn' = [turn EXCEPT ![i] = WithCycle(@)]
            /\ job' = [job EXCEPT ![e] = AtVersion(@, @.ver + 1)]
    /\ Goto(e, "dispatch")
    /\ UNCHANGED <<dbEpoch, conv, action, row, asst, est, interrupts, parked,
                   work, faults, shown>>

(* close_parked_turn_without_reply: a parked round whose re-entry will     *)
(* never come ends without output, under the same lease.                   *)
CloseParked(e, i) ==
    /\ pc[e] = "idle" /\ i \in parked /\ Live(i)
    /\ Goto(e, "closeParked")
    /\ job' = [job EXCEPT ![e] = Ending(FreshJob(i, i, "idle"), "ABSENT",
                                        "NO_ASSISTANT_OUTPUT")]
    /\ UNCHANGED <<dbEpoch, stored, interrupts, parked, work, faults, shown>>

CloseParkedClaim(e) ==
    /\ pc[e] = "closeParked" /\ Current(e)
    /\ turn' = Adopted(e, job[e].target)
    /\ Goto(e, "close")
    /\ UNCHANGED <<dbEpoch, conv, action, row, asst, est, interrupts, parked,
                   job, work, faults, shown>>

----------------------------------------------------------------------------
(* Generation: PersonaRuntime.run_action.                                  *)

(* claim_action_for_recovery: a foreign live action is re-armed.           *)
Rearmed(a, e) == [a EXCEPT !.status = "REQUESTED", !.owner = e]

ClaimAction(e) ==
    LET i == job[e].input IN
    /\ pc[e] = "dispatch" /\ Current(e)
    /\ Running(i) /\ action[i].owner /= e
    /\ action' = [action EXCEPT ![i] = Rearmed(@, e)]
    /\ UNCHANGED <<dbEpoch, conv, turn, row, asst, est, interrupts, parked,
                   pc, job, work, faults, shown>>

NewAction(e) == [status |-> "PREPARED", owner |-> e, attempts |-> 0]

CreateAction(e) ==
    LET i == job[e].input IN
    /\ pc[e] = "dispatch" /\ Current(e) /\ action[i].status = "ABSENT"
    /\ action' = [action EXCEPT ![i] = NewAction(e)]
    /\ UNCHANGED <<dbEpoch, conv, turn, row, asst, est, interrupts, parked,
                   pc, job, work, faults, shown>>

Budgeted(j, n) == [j EXCEPT !.attempts = n, !.budget = n + MaxAttempts]

(* _ensure_requested: PREPARED moves to REQUESTED, REQUESTED is dispatched *)
(* as it is; the budget counts from the durable attempt_count.             *)
EnsureRequested(e) ==
    LET i == job[e].input IN
    /\ pc[e] = "dispatch" /\ action[i].owner = e
    /\ \/ MoveAction(e, i, "PREPARED", "REQUESTED")
       \/ action[i].status = "REQUESTED" /\ UNCHANGED action
    /\ job' = [job EXCEPT ![e] = Budgeted(@, action[i].attempts)]
    /\ Goto(e, "call")
    /\ UNCHANGED <<dbEpoch, conv, turn, row, asst, est, interrupts, parked,
                   work, faults, shown>>

(* Any other status is outside the pipeline: the dispatch is refused.      *)
RefuseDispatch(e) ==
    LET i == job[e].input IN
    /\ pc[e] = "dispatch"
    /\ \/ action[i].status = "TERMINAL"
       \/ /\ action[i].owner = e
          /\ action[i].status \notin {"ABSENT", "PREPARED", "REQUESTED"}
    /\ Leave(e)
    /\ UNCHANGED <<dbEpoch, stored, interrupts, parked, faults, shown>>

CallProvider(e) ==
    /\ pc[e] = "call"
    /\ MoveAction(e, job[e].input, "REQUESTED", "GENERATING")
    /\ Goto(e, "provider")
    /\ UNCHANGED <<dbEpoch, conv, turn, row, asst, est, interrupts, parked,
                   job, work, faults, shown>>

(* The provider answers (text or nothing) and the attempt is recorded.     *)
Attempted(x, n) == [x EXCEPT !.attempts = n]

RecordAttempt(e) ==
    LET i == job[e].input IN
    /\ pc[e] = "provider" /\ Current(e)
    /\ action' = [action EXCEPT ![i] = Attempted(@, job[e].attempts + 1)]
    /\ job' = [job EXCEPT ![e] = Attempted(@, job[e].attempts + 1)]
    /\ \E answer \in {"validating", "retry"} : Goto(e, answer)
    /\ UNCHANGED <<dbEpoch, conv, turn, row, asst, est, interrupts, parked,
                   work, faults, shown>>

StartValidation(e) ==
    /\ pc[e] = "validating"
    /\ MoveAction(e, job[e].input, "GENERATING", "VALIDATING")
    /\ Goto(e, "verdict")
    /\ UNCHANGED <<dbEpoch, conv, turn, row, asst, est, interrupts, parked,
                   job, work, faults, shown>>

AcceptOutput(e) ==
    /\ pc[e] = "verdict"
    /\ MoveAction(e, job[e].input, "VALIDATING", "READY_TO_DELIVER")
    /\ Goto(e, "begin")
    /\ UNCHANGED <<dbEpoch, conv, turn, row, asst, est, interrupts, parked,
                   job, work, faults, shown>>

(* No output, or the RETRY verdict: back to REQUESTED inside the budget.   *)
RetryAction(e) ==
    LET i == job[e].input IN
    /\ pc[e] \in {"retry", "verdict"} /\ job[e].attempts < job[e].budget
    /\ MoveAction(e, i, action[i].status, "REQUESTED")
    /\ Goto(e, "call")
    /\ UNCHANGED <<dbEpoch, conv, turn, row, asst, est, interrupts, parked,
                   job, work, faults, shown>>

(* Faulty variant: the turn of a failed generation is not closed.          *)
GiveUpUnclosed(e) ==
    LET i == job[e].input IN
    /\ \/ pc[e] = "retry" /\ job[e].attempts >= job[e].budget
       \/ pc[e] = "verdict"
    /\ MoveAction(e, i, action[i].status, "TERMINAL")
    /\ Leave(e)
    /\ UNCHANGED <<dbEpoch, conv, turn, row, asst, est, interrupts, parked,
                   faults, shown>>

(* The budget is spent, or the verdict rejects the output: the action ends *)
(* undelivered and the turn fails.                                         *)
GiveUp(e) ==
    LET i == job[e].input IN
    /\ \/ pc[e] = "retry" /\ job[e].attempts >= job[e].budget
       \/ pc[e] = "verdict"
    /\ MoveAction(e, i, action[i].status, "TERMINAL")
    /\ job' = [job EXCEPT ![e] = Ending(@, @.word, "FAILED_USER_VISIBLE")]
    /\ Goto(e, "close")
    /\ UNCHANGED <<dbEpoch, conv, turn, row, asst, est, interrupts, parked,
                   work, faults, shown>>

----------------------------------------------------------------------------
(* Delivery: finalize_streamed_delivery.                                   *)

BeginDelivery(e) ==
    /\ pc[e] = "begin"
    /\ MoveAction(e, job[e].input, "READY_TO_DELIVER", "DELIVERING")
    /\ Goto(e, "deliver")
    /\ UNCHANGED <<dbEpoch, conv, turn, row, asst, est, interrupts, parked,
                   job, work, faults, shown>>

DeliverTurn(e) ==
    LET i == job[e].input IN
    /\ pc[e] = "deliver" /\ turn[i].status = "GENERATING"
    /\ MoveTurn(e, i, "DELIVERING")
    /\ Goto(e, "open")
    /\ UNCHANGED <<dbEpoch, conv, action, row, asst, est, interrupts, parked,
                   job, work, faults, shown>>

OpenRow(e) ==
    LET i == job[e].input IN
    /\ pc[e] = "open" /\ Current(e)
    /\ row' = [row EXCEPT ![i] = Advanced(@, RowOf("SENDING", 0, FALSE))]
    /\ Goto(e, "guard")
    /\ UNCHANGED <<dbEpoch, conv, turn, action, asst, est, interrupts, parked,
                   job, work, faults, shown>>

(* The cancelled tail of a stream: the row freezes CANCELLED, no estimate  *)
(* is written.                                                             *)
ToCancelled(e) ==
    /\ job' = [job EXCEPT ![e] = Ending(@, "CANCELLED", "CANCELLED_BY_USER")]
    /\ Goto(e, "freeze")

(* Faulty variant: a newer turn of the conversation is not looked for.     *)
GuardIgnoresNewer(e) ==
    /\ pc[e] = "guard" /\ Current(e)
    /\ IF <<job[e].input, "action">> \in interrupts
       THEN ToCancelled(e)
       ELSE Goto(e, "take") /\ UNCHANGED job
    /\ UNCHANGED <<dbEpoch, stored, interrupts, parked, work, faults, shown>>

(* The pre-delivery guard: a pending interrupt on this action or a newer   *)
(* turn in the conversation invalidates the delivery before any release.   *)
PreDeliveryGuard(e) ==
    LET i == job[e].input
        cancelled  == <<i, "action">> \in interrupts
        superseded == turn[i].seq < conv.nextTurn - 1
    IN
    /\ pc[e] = "guard" /\ Current(e)
    /\ IF cancelled \/ superseded
       THEN ToCancelled(e)
       ELSE Goto(e, "take") /\ UNCHANGED job
    /\ UNCHANGED <<dbEpoch, stored, interrupts, parked, work, faults, shown>>

(* InterruptAwareTransport.take: a pending request stops the stream.       *)
TakeInterrupted(e) ==
    /\ pc[e] = "take" /\ <<job[e].input, "action">> \in interrupts
    /\ Running(job[e].input)
    /\ ToCancelled(e)
    /\ UNCHANGED <<dbEpoch, stored, interrupts, parked, work, faults, shown>>

(* Faulty variant: the transport does not look for an interrupt.           *)
TakeChunkDeaf(e) ==
    /\ pc[e] = "take" /\ job[e].released < TextLength
    /\ Goto(e, "emit")
    /\ UNCHANGED <<dbEpoch, stored, interrupts, parked, job, work, faults, shown>>

(* The source offers a chunk and the chunk guard accepts it, *)
TakeChunk(e) ==
    /\ pc[e] = "take" /\ <<job[e].input, "action">> \notin interrupts
    /\ job[e].released < TextLength
    /\ Goto(e, "emit")
    /\ UNCHANGED <<dbEpoch, stored, interrupts, parked, job, work, faults, shown>>

(* or the stream ends: cleanly, or by a stop, a source failure or a        *)
(* refusal of the chunk guard.                                             *)
EndStream(e) ==
    LET j == job[e] IN
    /\ pc[e] = "take" /\ <<j.input, "action">> \notin interrupts
    /\ \E clean \in BOOLEAN :
         LET word == RunWord(j.released, clean) IN
         job' = [job EXCEPT ![e] = Ending(@, word,
                   IF word = "SENT_COMPLETE" THEN "REPLIED_FULL"
                   ELSE IF j.durable > 0 THEN "REPLIED_PARTIAL"
                   ELSE "FAILED_USER_VISIBLE")]
    /\ Goto(e, "freeze")
    /\ UNCHANGED <<dbEpoch, stored, interrupts, parked, work, faults, shown>>

Sent(j, released, durable) ==
    [j EXCEPT !.released = released, !.durable = durable]

Shown(s, first, interrupted, fenced) ==
    [count  |-> s.count + 1,
     runs   |-> s.runs + (IF first THEN 1 ELSE 0),
     late   |-> s.late + (IF interrupted THEN 1 ELSE 0),
     fenced |-> s.fenced + (IF fenced THEN 1 ELSE 0)]

(* transport.emit: the chunk reaches the client before anything is         *)
(* recorded.  The fence is not consulted here.                             *)
EmitChunk(e) ==
    LET i == job[e].input IN
    /\ pc[e] = "emit"
    /\ shown' = [shown EXCEPT ![i] = Shown(@, job[e].released = 0,
                          <<i, "action">> \in interrupts, ~Current(e))]
    /\ job' = [job EXCEPT ![e] = Sent(@, @.released + 1, @.durable)]
    /\ Goto(e, "record")
    /\ UNCHANGED <<dbEpoch, stored, interrupts, parked, work, faults>>

(* on_chunk: the released prefix becomes durable.                          *)
RecordChunk(e) ==
    LET i == job[e].input IN
    /\ pc[e] = "record" /\ Current(e)
    /\ row' = [row EXCEPT ![i] =
                   Advanced(@, RowOf("SENT_PARTIAL", job[e].released, FALSE))]
    /\ job' = [job EXCEPT ![e] = Sent(@, @.released, @.released)]
    /\ Goto(e, "take")
    /\ UNCHANGED <<dbEpoch, conv, turn, action, asst, est, interrupts, parked,
                   work, faults, shown>>

(* The record refuses the chunk (a value): the run stops with its released *)
(* prefix ahead of the durable one.                                        *)
RefuseChunk(e) ==
    /\ "refuse" \in FaultKinds /\ faults < MaxFaults
    /\ pc[e] = "record" /\ Current(e)
    /\ faults' = faults + 1
    /\ job' = [job EXCEPT ![e] = Ending(@, "SENT_PARTIAL",
                   IF @.durable > 0 THEN "REPLIED_PARTIAL"
                   ELSE "FAILED_USER_VISIBLE")]
    /\ Goto(e, "freeze")
    /\ UNCHANGED <<dbEpoch, stored, interrupts, parked, work, shown>>

(* The transport or the record raises: the run value is lost and rebuilt   *)
(* as FAILED with nothing released and nothing durable.                    *)
StreamRaises(e) ==
    /\ "raise" \in FaultKinds /\ faults < MaxFaults
    /\ pc[e] \in {"emit", "record"}
    /\ faults' = faults + 1
    /\ job' = [job EXCEPT ![e] = Ending(Sent(@, 0, 0), "FAILED",
                                        "FAILED_USER_VISIBLE")]
    /\ Goto(e, "freeze")
    /\ UNCHANGED <<dbEpoch, stored, interrupts, parked, work, shown>>

----------------------------------------------------------------------------
(* The tail every delivery ends with.                                      *)

(* Faulty variant: a cancelled stream closes its turn at once.             *)
FreezeRowClosing(e) ==
    LET j == job[e] IN
    /\ pc[e] = "freeze" /\ Current(e)
    /\ row' = [row EXCEPT ![j.target] = Advanced(@, RowOf(j.word, j.durable, TRUE))]
    /\ Goto(e, IF j.word /= "CANCELLED" THEN "estimate" ELSE "close")
    /\ UNCHANGED <<dbEpoch, conv, turn, action, asst, est, interrupts, parked,
                   job, work, faults, shown>>

(* The row's terminal write; one that would move the row back is refused   *)
(* and the leg goes on.                                                    *)
FreezeRow(e) ==
    LET j == job[e] IN
    /\ pc[e] = "freeze" /\ Current(e)
    /\ row' = [row EXCEPT ![j.target] = Advanced(@, RowOf(j.word, j.durable, TRUE))]
    /\ Goto(e, IF j.word /= "CANCELLED" THEN "estimate"
               ELSE IF j.durable > 0 THEN "transcribe" ELSE "settle")
    /\ UNCHANGED <<dbEpoch, conv, turn, action, asst, est, interrupts, parked,
                   job, work, faults, shown>>

(* record_initial_exposure_estimate: written once.                         *)
WriteEstimate(e) ==
    LET j == job[e] IN
    /\ pc[e] = "estimate" /\ Current(e)
    /\ est' = IF est[j.target].present THEN est
              ELSE [est EXCEPT ![j.target] =
                      EstimateOf(j.word, j.durable, TextLength, j.released)]
    /\ Goto(e, IF j.durable > 0 THEN "transcribe" ELSE "settle")
    /\ UNCHANGED <<dbEpoch, conv, turn, action, row, asst, interrupts, parked,
                   job, work, faults, shown>>

(* Faulty variant: what was released is transcribed, recorded or not.      *)
TranscribeReleased(e) ==
    LET j == job[e] IN
    /\ pc[e] = "transcribe"
    /\ Canonicalize(e, j.target, j.released,
                    IF j.word = "SENT_COMPLETE" THEN j.word ELSE "SENT_PARTIAL")
    /\ Goto(e, "settle")
    /\ UNCHANGED <<dbEpoch, turn, action, row, est, interrupts, parked, job,
                   work, faults, shown>>

(* The durable prefix enters the transcript, verbatim.                     *)
Transcribe(e) ==
    LET j == job[e] IN
    /\ pc[e] = "transcribe"
    /\ Canonicalize(e, j.target, j.durable,
                    IF j.word = "SENT_COMPLETE" THEN j.word ELSE "SENT_PARTIAL")
    /\ Goto(e, "settle")
    /\ UNCHANGED <<dbEpoch, turn, action, row, est, interrupts, parked, job,
                   work, faults, shown>>

(* Faulty variant: the action is left as it is.                            *)
SettleNothing(e) ==
    /\ pc[e] = "settle" /\ Current(e) /\ Running(job[e].target)
    /\ Goto(e, "close")
    /\ UNCHANGED <<dbEpoch, stored, interrupts, parked, job, work, faults, shown>>

(* complete_delivery / terminalize_failure: the action ends.  A leg ends   *)
(* its own DELIVERING action; a handoff that found nothing sent ends the   *)
(* action from the status it read.                                         *)
SettleAction(e) ==
    LET j == job[e]
        from == IF j.back = "handoff" /\ j.durable = 0
                THEN action[j.target].status ELSE "DELIVERING"
    IN
    /\ pc[e] = "settle" /\ Running(j.target)
    /\ MoveAction(e, j.target, from, "TERMINAL")
    /\ Goto(e, "close")
    /\ UNCHANGED <<dbEpoch, conv, turn, row, asst, est, interrupts, parked,
                   job, work, faults, shown>>

(* terminalize_turn.  The handoff skips a turn that is terminal already or *)
(* another epoch's.                                                        *)
CloseTurn(e) ==
    LET j == job[e] IN
    /\ pc[e] = "close" /\ Current(e)
    /\ IF Live(j.target) /\ turn[j.target].owner = e
       THEN MoveTurn(e, j.target, StatusOf(j.outcome))
       ELSE j.back = "handoff" /\ UNCHANGED turn
    /\ Return(e)
    /\ UNCHANGED <<dbEpoch, conv, action, row, asst, est, interrupts, parked,
                   faults, shown>>

----------------------------------------------------------------------------
(* request_interrupt: filed outside the lease and outside the fence, by    *)
(* anyone, for a turn or an action the user can see.                       *)
RequestInterrupt(i, kind) ==
    /\ kind \in InterruptKinds
    /\ IF kind = "turn" THEN turn[i].status /= "ABSENT"
       ELSE action[i].status /= "ABSENT"
    /\ interrupts' = interrupts \cup {<<i, kind>>}
    /\ UNCHANGED <<dbEpoch, stored, parked, pc, job, work, faults, shown>>

----------------------------------------------------------------------------
Init ==
    /\ dbEpoch = 0
    /\ conv = ConvOf(1, 1)
    /\ turn = [i \in Inputs |-> NoTurn]
    /\ action = [i \in Inputs |-> NoAction]
    /\ row = [i \in Inputs |-> NoRow]
    /\ asst = [i \in Inputs |-> NoAsst]
    /\ est = [i \in Inputs |-> NoEstimate]
    /\ interrupts = {} /\ parked = {}
    /\ pc = [e \in Epochs |-> "down"]
    /\ job = [e \in Epochs |-> NoJob]
    /\ work = [e \in Epochs |-> {}]
    /\ faults = 0
    /\ shown = [i \in Inputs |-> NoShow]

(* What a runtime does inside a leg it has started.                        *)
LegStep(e) ==
    \/ RecoverTurn(e) \/ RecoveryDone(e)
    \/ RepairClaim(e) \/ RepairText(e) \/ RepairEstimate(e)
    \/ \E i \in Inputs : CancelAction(e, i) \/ CancelTurn(e, i)
    \/ \E r \in Inputs \X InterruptKinds : SkipRequest(e, r)
    \/ HandoffDone(e) \/ CommitUserTurn(e) \/ ReplayTerminal(e) \/ AdoptTurn(e)
    \/ RepairDelivering(e) \/ RefuseDelivering(e) \/ AdvanceTurn(e)
    \/ ParkTurn(e) \/ RecordCycle(e) \/ CloseParkedClaim(e)
    \/ ClaimAction(e) \/ CreateAction(e) \/ EnsureRequested(e)
    \/ RefuseDispatch(e) \/ CallProvider(e) \/ RecordAttempt(e)
    \/ StartValidation(e) \/ AcceptOutput(e) \/ RetryAction(e) \/ GiveUp(e)
    \/ BeginDelivery(e) \/ DeliverTurn(e) \/ OpenRow(e) \/ PreDeliveryGuard(e)
    \/ TakeInterrupted(e) \/ TakeChunk(e) \/ EndStream(e) \/ EmitChunk(e)
    \/ RecordChunk(e) \/ FreezeRow(e) \/ WriteEstimate(e) \/ Transcribe(e)
    \/ SettleAction(e) \/ CloseTurn(e) \/ Fenced(e)

Failure(e) ==
    \/ LegFault(e) \/ EstimateLost(e) \/ RefuseChunk(e) \/ StreamRaises(e)

Next ==
    \/ \E e \in Epochs :
         \/ StartRuntime(e) \/ Crash(e) \/ LegStep(e) \/ Failure(e)
         \/ \E i \in Inputs : BeginTurn(e, i) \/ CloseParked(e, i)
    \/ \E i \in Inputs, kind \in InterruptKinds : RequestInterrupt(i, kind)

Spec == Init /\ [][Next]_vars

(* A leg that has begun keeps running: it is one thread of a live process. *)
LegFairness == \A e \in Epochs : WF_vars(LegStep(e))

(* The client re-submits an input to the newest runtime whenever that one  *)
(* is free, again and again: the re-entry every unfinished turn waits for. *)
Resubmission ==
    \A i \in Inputs : SF_vars(\E e \in Epochs : Current(e) /\ BeginTurn(e, i))

FairSpec == Spec /\ LegFairness /\ Resubmission

----------------------------------------------------------------------------
(* Properties.                                                             *)

ConvType == [nextTurn : Nat, nextMsg : Nat]
TurnType == [status : TurnStatus, owner : 0..MaxEpoch, version : Nat,
             seq : Nat, msg : Nat, cycle : BOOLEAN]
ActionType == [status : ActionStatus, owner : 0..MaxEpoch, attempts : Nat]
RowType == [word : RowWord, prefix : Nat, closed : BOOLEAN]
AsstType == [present : BOOLEAN, content : Nat, word : RowWord, msg : Nat]
ShownType == [count : Nat, runs : Nat, late : Nat, fenced : Nat]
JobType == [input : Inputs, target : Inputs,
            back : {"idle", "handoff", "recover"}, ver : Nat, attempts : Nat,
            budget : Nat, released : Nat, durable : Nat, word : RowWord,
            outcome : Outcome]

(* Every variable keeps its type: the rows, the legs' locals and the words *)
(* they use stay inside the vocabularies of the code.                      *)
TypeOK ==
    /\ dbEpoch \in 0..MaxEpoch
    /\ conv \in ConvType
    /\ turn \in [Inputs -> TurnType]
    /\ action \in [Inputs -> ActionType]
    /\ row \in [Inputs -> RowType]
    /\ asst \in [Inputs -> AsstType]
    /\ est \in [Inputs -> EstimateType]
    /\ interrupts \subseteq Inputs \X InterruptKinds
    /\ parked \subseteq Inputs
    /\ pc \in [Epochs -> Label]
    /\ job \in [Epochs -> JobType]
    /\ work \in [Epochs -> SUBSET (Inputs \X {"turn", "action"})]
    /\ faults \in 0..MaxFaults
    /\ shown \in [Inputs -> ShownType]

(* RA 17 "never replayed from the top": whatever crashes, re-entries and   *)
(* takeovers happen, at most one stream run of a turn ever reaches the     *)
(* client, and it never sends more than the validated text.                *)
OneVisibleStream ==
    \A i \in Inputs : shown[i].runs <= 1 /\ shown[i].count <= TextLength

(* R-INV-006: the transcript holds exactly the durable sent prefix, so     *)
(* never a chunk the client was not sent.                                  *)
TranscriptWasShown ==
    \A i \in Inputs : asst[i].present =>
        asst[i].content = row[i].prefix /\ asst[i].content <= shown[i].count

(* Turn positions and message positions of the conversation are dense and  *)
(* never used twice, across user turns and assistant turns.                *)
PositionsDense ==
    LET said     == {i \in Inputs : turn[i].status /= "ABSENT"}
        replied  == {i \in Inputs : asst[i].present}
        turnPos  == {turn[i].seq : i \in said}
        msgPos   == {turn[i].msg : i \in said} \cup {asst[i].msg : i \in replied}
    IN  /\ turnPos = 1..(conv.nextTurn - 1)
        /\ Cardinality(said) = conv.nextTurn - 1
        /\ msgPos = 1..(conv.nextMsg - 1)
        /\ Cardinality(said) + Cardinality(replied) = conv.nextMsg - 1

(* A filed interrupt stops the stream: at most the chunk already taken     *)
(* still reaches the client; and a runtime that was fenced off shows at    *)
(* most one chunk before its next write stops it.                          *)
StopsPromptly ==
    \A i \in Inputs : shown[i].late <= 1 /\ shown[i].fenced <= 1

(* Stream and transcript agree, and both stop when they must: nothing is   *)
(* transcribed that was not sent, and an interrupt or a fence is overrun   *)
(* by one chunk at most (finalize_streamed_delivery).                      *)
StreamIsTrue == TranscriptWasShown /\ StopsPromptly

(* An action is never owned by a newer runtime than its turn: whoever may  *)
(* finish a delivery may also close its turn.                              *)
OwnersOrdered ==
    \A i \in Inputs : action[i].owner <= turn[i].owner /\ turn[i].owner <= dbEpoch

(* The state_version a current leg remembers is the durable one, so the    *)
(* lease makes every CAS of the leg succeed.                               *)
LegHoldsVersion ==
    \A e \in Epochs : Current(e) /\ pc[e] = "advance" =>
        job[e].ver = turn[job[e].input].version

(* The lease is what the code takes it for, across deaths and takeovers:   *)
(* whoever may finish a delivery may close its turn, and a leg that still  *)
(* may write holds the version it writes against (claim_turn_for_recovery, *)
(* claim_action_for_recovery, _begin_turn_guarded).                        *)
LeaseHeld == TypeOK /\ OwnersOrdered /\ LegHoldsVersion

(* Only the newest runtime writes: a changed turn or action row is left    *)
(* owned by the newest epoch.                                              *)
OnlyNewestWrites ==
    [][\A i \in Inputs :
         /\ turn'[i] /= turn[i] => turn'[i].owner = dbEpoch'
         /\ action'[i] /= action[i] => action'[i].owner = dbEpoch']_vars

(* Terminal means final: a terminal turn or action, an assistant turn and  *)
(* a frozen delivery row never change again.                               *)
TerminalIsFinal ==
    [][\A i \in Inputs :
         /\ turn[i].status \in TerminalTurn => turn'[i] = turn[i]
         /\ action[i].status = "TERMINAL" => action'[i] = action[i]
         /\ asst[i].present => asst'[i] = asst[i]
         /\ row[i].closed => row'[i] = row[i]]_vars

(* No write comes too late: neither from a runtime that was replaced nor   *)
(* onto a row that is final (_require_current_epoch, the stores' CAS).     *)
WritesAreFenced == OnlyNewestWrites /\ TerminalIsFinal

(* R-INV-011: a runtime that is not fenced off releases output only for    *)
(* the newest turn of the conversation, while that turn is DELIVERING.     *)
OutputOnlyForNewestTurn ==
    [][\A i \in Inputs :
         shown'[i].count > shown[i].count /\ shown'[i].fenced = shown[i].fenced
           => turn[i].status = "DELIVERING" /\ turn[i].seq = conv.nextTurn - 1]_vars

(* The exposure ceiling never understates what the client may hold.        *)
CeilingCoversShown ==
    \A i \in Inputs : est[i].present => est[i].max >= HeldLevel(shown[i].count)

(* What the next reader relies on is kept in order: positions have no gap  *)
(* and no repeat, and the exposure bound is never too small                *)
(* (commit_user_turn, canonicalize_assistant_turn,                         *)
(* record_initial_exposure_estimate).                                      *)
OrderIsKept == PositionsDense /\ CeilingCoversShown

(* RA 17: once its turn is terminal, a durably sent prefix is in the       *)
(* transcript.                                                             *)
SentIsTranscribed ==
    \A i \in Inputs :
        turn[i].status \in TerminalTurn /\ row[i].prefix > 0 => asst[i].present

(* A terminal turn has no live action behind it.                           *)
NoLiveActionBehindTerminalTurn ==
    \A i \in Inputs : turn[i].status \in TerminalTurn => ~Running(i)

(* A barge-in loses nothing and leaves nothing behind: what was durably    *)
(* sent is in the transcript before the turn ends, and no action outlives  *)
(* its turn (_cancel_interrupted_delivery, finalize_streamed_delivery).    *)
CancelIsClean == SentIsTranscribed /\ NoLiveActionBehindTerminalTurn

(* The transcript of a terminal turn is frozen: a late cancellation or a   *)
(* repair adds no assistant message to a turn that has ended.              *)
TranscriptFrozen ==
    [][\A i \in Inputs : turn[i].status \in TerminalTurn => asst'[i] = asst[i]]_vars

(* Every leg ends, whatever it meets: no re-entry, retry, refusal or fence *)
(* leaves the conversation lease held for ever.                            *)
LegEnds ==
    \A e \in Epochs : []<>(pc[e] \in {"down", "dead", "idle"})

(* No runtime is left to serve the conversation.                           *)
Unserved == \E e \in Epochs : Current(e) /\ pc[e] = "dead"

(* A delivery that its own runtime never finished: the action is live and  *)
(* no newer runtime may finish it.                                         *)
Orphaned(i) == /\ turn[i].status = "DELIVERING"
               /\ Running(i) /\ action[i].owner < dbEpoch

(* A re-submitted input ends in a terminal turn, unless its delivery was   *)
(* orphaned by a process death or a step failed on the way.                *)
TurnsSettle ==
    \A i \in Inputs : []<>(\/ turn[i].status \in TerminalTurn \cup {"ABSENT"}
                           \/ Orphaned(i) \/ Unserved \/ faults > 0)

(* Every leg gives the conversation's lease back and every re-submitted    *)
(* input ends, with retries, a barge-in and a takeover, and no repair      *)
(* touches a transcript that is closed (controller.py).                    *)
TurnsEnd == TranscriptFrozen /\ LegEnds /\ TurnsSettle

(* RA 23 and recovery_disposition: an uncertain delivery is completed from *)
(* the record, so a DELIVERING turn is always brought to its end.          *)
UncertainDeliveryCloses ==
    \A i \in Inputs : turn[i].status = "DELIVERING"
        ~> turn[i].status \in TerminalTurn \/ Unserved
=============================================================================
