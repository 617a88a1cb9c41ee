----------------------------- MODULE Projections -----------------------------
(***************************************************************************)
(* CP4, the projections of one conversation: after a turn has ended, and   *)
(* outside the conversation's guard, a job per kind turns it into          *)
(* relationship memories and into the conversation's episode.  A pass is   *)
(* ensure -> list -> (claim -> execute -> report)*, each write its own     *)
(* short transaction; the startup sweep re-opens the runs of a dead        *)
(* process and fills the gaps first.  As in TurnRuntime, a runtime is a    *)
(* process incarnation and a newer one fences it without stopping it.      *)
(*   runtime/projections.py, platform/db/projection_store.py,              *)
(*   relationship/{projection,controller,store,episode_store}.py           *)
(***************************************************************************)
EXTENDS Integers

CONSTANTS
    MaxTurn,        \* turns of the conversation, named by turn_sequence
    Contents,       \* memory contents the recorder may propose
    Proposed(_),    \* the contents it proposes for a turn: deterministic
    MaxEpoch,       \* runtime incarnations
    MaxFaults,      \* failing steps in a behaviour
    FaultKinds      \* SUBSET {"transient", "raise", "refuse"}

Turns  == 1..MaxTurn
Epochs == 1..MaxEpoch

ASSUME ProjectionsAssumption ==
    /\ MaxTurn \in Nat \ {0} /\ MaxEpoch \in Nat /\ MaxFaults \in Nat
    /\ \A t \in Turns : Proposed(t) \subseteq Contents
    /\ FaultKinds \subseteq {"transient", "raise", "refuse"}

VARIABLES
    dbEpoch,    \* MAX(epoch) of runtime_epoch
    said,       \* user turns committed so far: 1..said
    ended,      \* [Turns -> how the turn ended]
    jobs,       \* [Jobs -> projection_job.status]
    memories,   \* relationship_memory rows: <<source turn, content>>
    episode,    \* episode row: source_turn_sequence_end (0: no row)
    pc, leg,    \* per runtime: where its pass stands, and the pass's locals
    claimed,    \* per runtime: _claimed_here
    unavailable,\* per runtime: its startup sweep reported a failure
    faults      \* failing steps so far

durable == <<said, ended, jobs, memories, episode>>
vars == <<dbEpoch, durable, pc, leg, claimed, unavailable, faults>>

----------------------------------------------------------------------------
Kinds == {"RELATIONSHIP", "EPISODE"}    \* SUPPORTED_PROJECTION_TYPES
Jobs  == Turns \X Kinds

Claimable == {"PENDING", "FAILED_RETRYABLE"}
Finished  == {"COMMITTED", "REJECTED"}
JobState  == {"ABSENT", "RUNNING"} \cup Claimable \cup Finished

Label == {"down", "dead", "idle", "turn", "ensure", "reopen", "missing",
          "list", "next", "exec", "memory", "upsert", "complete", "fail",
          "reject"}

(* The locals of a pass: the turn it follows, the kinds still to ensure,   *)
(* the views run_pending has listed, the job in hand, the proposals still  *)
(* to commit and the last turn of the history it read.                     *)
LegOf(turn, queue) ==
    [turn |-> turn, kinds |-> Kinds, queue |-> queue,
     job |-> <<1, "EPISODE">>, todo |-> {}, read |-> 0]
NoLeg == LegOf(0, {})

(* Faulty variant: the fence is not consulted.                             *)
Unfenced(e) == dbEpoch > 0

(* _require_current_epoch, in every write of every store.                  *)
Current(e) == e = dbEpoch

Goto(e, label) == pc' = [pc EXCEPT ![e] = label]

(* The pass ends, by a return or by an exception that run_after_turn (or   *)
(* the startup sweep) swallows.                                            *)
EndPass(e) ==
    /\ Goto(e, "idle")
    /\ leg' = [leg EXCEPT ![e] = NoLeg]

(* The same in the startup sweep, which reports that it failed.            *)
Starting(e) == leg[e].turn = 0
BreakPass(e) ==
    /\ EndPass(e)
    /\ unavailable' = [unavailable EXCEPT ![e] = @ \/ Starting(e)]

(* _settle: a run that reported is forgotten.                              *)
Settled(e, j) == [claimed EXCEPT ![e] = @ \ {j}]

(* _advance: a status compare-and-set on the job row.                      *)
Advance(e, j, from, to) ==
    /\ Current(e) /\ jobs[j] \in from
    /\ jobs' = [jobs EXCEPT ![j] = to]

----------------------------------------------------------------------------
(* Processes and turns (TurnRuntime in one step each).                     *)

(* A new process opens its epoch; the startup sweep begins with the        *)
(* RUNNING rows, of which a fresh runtime has claimed none.                *)
StartRuntime(e) ==
    /\ pc[e] = "down" /\ e = dbEpoch + 1
    /\ dbEpoch' = e
    /\ Goto(e, "reopen")
    /\ leg' = [leg EXCEPT ![e] = LegOf(0, {j \in Jobs : jobs[j] = "RUNNING"})]
    /\ UNCHANGED <<durable, claimed, unavailable, faults>>

Crash(e) ==
    /\ pc[e] \notin {"down", "dead"}
    /\ pc' = [pc EXCEPT ![e] = "dead"]
    /\ leg' = [leg EXCEPT ![e] = NoLeg]
    /\ claimed' = [claimed EXCEPT ![e] = {}]
    /\ UNCHANGED <<dbEpoch, durable, unavailable, faults>>

(* A new message commits its user turn, *)
CommitTurn(e) ==
    /\ pc[e] = "idle" /\ Current(e) /\ said < MaxTurn
    /\ said' = said + 1
    /\ Goto(e, "turn")
    /\ leg' = [leg EXCEPT ![e] = LegOf(said + 1, {})]
    /\ UNCHANGED <<dbEpoch, ended, jobs, memories, episode, claimed,
                   unavailable, faults>>

(* or a known one is submitted again: an unfinished turn is taken up, a    *)
(* terminal one replayed, and either way the pass follows.                 *)
Resubmit(e, t) ==
    /\ pc[e] = "idle" /\ Current(e) /\ t <= said
    /\ Goto(e, IF ended[t] = "open" THEN "turn" ELSE "ensure")
    /\ leg' = [leg EXCEPT ![e] = LegOf(t, {})]
    /\ UNCHANGED <<dbEpoch, durable, claimed, unavailable, faults>>

(* The turn reaches COMPLETED or another terminal status.                  *)
FinishTurn(e) ==
    /\ pc[e] = "turn" /\ Current(e)
    /\ \E how \in {"COMPLETED", "other"} :
         ended' = [ended EXCEPT ![leg[e].turn] = how]
    /\ Goto(e, "ensure")
    /\ UNCHANGED <<dbEpoch, said, jobs, memories, episode, leg, claimed,
                   unavailable, faults>>

(* A stale runtime's next write raises, and the pass is over.  Reads are   *)
(* not fenced: a stale pass still reads the history it projects.           *)
FencedLabels == Label \ {"down", "dead", "idle", "list", "exec"}

Fenced(e) ==
    /\ ~Current(e) /\ pc[e] \in FencedLabels
    /\ BreakPass(e)
    /\ UNCHANGED <<dbEpoch, durable, claimed, faults>>

----------------------------------------------------------------------------
(* Making the jobs.                                                        *)

(* enqueue_projection: an existing row is the same job and is left alone,  *)
(* before the fence is asked.                                              *)
Enqueue(e, j) ==
    IF jobs[j] = "ABSENT"
    THEN Current(e) /\ jobs' = [jobs EXCEPT ![j] = "PENDING"]
    ELSE UNCHANGED jobs

(* Faulty variant: an existing row is enqueued again.                      *)
EnsureJobAgain(e, k) ==
    LET j == <<leg[e].turn, k>> IN
    /\ pc[e] = "ensure" /\ Current(e) /\ k \in leg[e].kinds
    /\ ended[leg[e].turn] = "COMPLETED"
    /\ jobs' = [jobs EXCEPT ![j] = "PENDING"]
    /\ leg' = [leg EXCEPT ![e].kinds = @ \ {k}]
    /\ UNCHANGED <<dbEpoch, said, ended, memories, episode, pc, claimed,
                   unavailable, faults>>

(* _ensure_for_turn: only a COMPLETED turn has jobs.                        *)
EnsureJob(e, k) ==
    /\ pc[e] = "ensure" /\ k \in leg[e].kinds
    /\ ended[leg[e].turn] = "COMPLETED"
    /\ Enqueue(e, <<leg[e].turn, k>>)
    /\ leg' = [leg EXCEPT ![e].kinds = @ \ {k}]
    /\ UNCHANGED <<dbEpoch, said, ended, memories, episode, pc, claimed,
                   unavailable, faults>>

(* All jobs ensured, or the turn has none: the queue is run either way.    *)
EnsureDone(e) ==
    /\ pc[e] = "ensure"
    /\ leg[e].kinds = {} \/ ended[leg[e].turn] /= "COMPLETED"
    /\ Goto(e, "list")
    /\ UNCHANGED <<dbEpoch, durable, leg, claimed, unavailable, faults>>

(* recover_stale_running: a run that never reported goes back to the retry *)
(* edge.                                                                   *)
ReopenJob(e) ==
    /\ pc[e] = "reopen"
    /\ \E j \in leg[e].queue \ claimed[e] :
         /\ Advance(e, j, {"RUNNING"}, "FAILED_RETRYABLE")
         /\ leg' = [leg EXCEPT ![e].queue = @ \ {j}]
    /\ UNCHANGED <<dbEpoch, said, ended, memories, episode, pc, claimed,
                   unavailable, faults>>

ReopenDone(e) ==
    /\ pc[e] = "reopen" /\ leg[e].queue = {}
    /\ Goto(e, "missing")
    /\ UNCHANGED <<dbEpoch, durable, leg, claimed, unavailable, faults>>

(* ensure_missing_jobs: the crash gaps, one row at a time.                 *)
Missing == {j \in Jobs : ended[j[1]] = "COMPLETED" /\ jobs[j] = "ABSENT"}

EnsureMissing(e) ==
    /\ pc[e] = "missing"
    /\ \E j \in Missing : Enqueue(e, j)
    /\ UNCHANGED <<dbEpoch, said, ended, memories, episode, pc, leg, claimed,
                   unavailable, faults>>

MissingDone(e) ==
    /\ pc[e] = "missing" /\ Missing = {}
    /\ Goto(e, "list")
    /\ UNCHANGED <<dbEpoch, durable, leg, claimed, unavailable, faults>>

----------------------------------------------------------------------------
(* run_pending and _run_one.                                               *)

(* Faulty variant: a failed job is not listed again.                       *)
ListFresh(e) ==
    /\ pc[e] = "list"
    /\ leg' = [leg EXCEPT ![e].queue = {j \in Jobs : jobs[j] = "PENDING"}]
    /\ Goto(e, "next")
    /\ UNCHANGED <<dbEpoch, durable, claimed, unavailable, faults>>

(* pending_projections: the views of this pass, read once.                 *)
ListPending(e) ==
    /\ pc[e] = "list"
    /\ leg' = [leg EXCEPT ![e].queue = {j \in Jobs : jobs[j] \in Claimable}]
    /\ Goto(e, "next")
    /\ UNCHANGED <<dbEpoch, durable, claimed, unavailable, faults>>

(* The view is revalidated and the row claimed.                            *)
ClaimJob(e, j) ==
    /\ pc[e] = "next" /\ j \in leg[e].queue
    /\ Advance(e, j, Claimable, "RUNNING")
    /\ leg' = [leg EXCEPT ![e].queue = @ \ {j}, ![e].job = j]
    /\ claimed' = [claimed EXCEPT ![e] = @ \cup {j}]
    /\ Goto(e, "exec")
    /\ UNCHANGED <<dbEpoch, said, ended, memories, episode, unavailable,
                   faults>>

PassDone(e) ==
    /\ pc[e] = "next" /\ leg[e].queue = {}
    /\ EndPass(e)
    /\ UNCHANGED <<dbEpoch, durable, claimed, unavailable, faults>>

(* RelationshipProjectionExecutor.project: the proposals of the turn, *)
ReadProposals(e) ==
    /\ pc[e] = "exec" /\ leg[e].job[2] = "RELATIONSHIP"
    /\ leg' = [leg EXCEPT ![e].todo = Proposed(leg[e].job[1])]
    /\ Goto(e, "memory")
    /\ UNCHANGED <<dbEpoch, durable, claimed, unavailable, faults>>

(* Faulty variant: the active rows are not searched for a duplicate.       *)
CommittedTwice(t, c) == memories \cup {<<t, c>>}

(* commit_memory: the row of this turn and content, unless it exists or an *)
(* active memory says the same.                                            *)
Committed(t, c) ==
    IF \E m \in memories : m[2] = c THEN memories
    ELSE memories \cup {<<t, c>>}

CommitMemory(e) ==
    /\ pc[e] = "memory" /\ Current(e)
    /\ \E c \in leg[e].todo :
         /\ memories' = Committed(leg[e].job[1], c)
         /\ leg' = [leg EXCEPT ![e].todo = @ \ {c}]
    /\ UNCHANGED <<dbEpoch, said, ended, jobs, episode, pc, claimed,
                   unavailable, faults>>

MemoriesDone(e) ==
    /\ pc[e] = "memory" /\ leg[e].todo = {}
    /\ Goto(e, "complete")
    /\ UNCHANGED <<dbEpoch, durable, leg, claimed, unavailable, faults>>

(* Faulty variant: the range of the history ends one past its last turn.   *)
ReadHistoryAhead(e) ==
    /\ pc[e] = "exec" /\ leg[e].job[2] = "EPISODE"
    /\ leg' = [leg EXCEPT ![e].read = said + 1]
    /\ Goto(e, "upsert")
    /\ UNCHANGED <<dbEpoch, durable, claimed, unavailable, faults>>

(* EpisodeProjectionExecutor.project: the whole history is read, and the   *)
(* episode rebuilt from it, *)
ReadHistory(e) ==
    /\ pc[e] = "exec" /\ leg[e].job[2] = "EPISODE"
    /\ leg' = [leg EXCEPT ![e].read = said]
    /\ Goto(e, "upsert")
    /\ UNCHANGED <<dbEpoch, durable, claimed, unavailable, faults>>

(* and upsert_episode replaces the row whatever it covered before.         *)
UpsertEpisode(e) ==
    /\ pc[e] = "upsert" /\ Current(e)
    /\ episode' = leg[e].read
    /\ Goto(e, "complete")
    /\ UNCHANGED <<dbEpoch, said, ended, jobs, memories, leg, claimed,
                   unavailable, faults>>

(* Faulty variant: the run is reported committed before it executes.       *)
CompleteEarly(e) ==
    /\ pc[e] \in {"exec", "memory", "upsert", "complete"}
    /\ Advance(e, leg[e].job, {"RUNNING"}, "COMMITTED")
    /\ claimed' = Settled(e, leg[e].job)
    /\ Goto(e, "next")
    /\ UNCHANGED <<dbEpoch, said, ended, memories, episode, leg, unavailable,
                   faults>>

CompleteJob(e) ==
    /\ pc[e] = "complete"
    /\ Advance(e, leg[e].job, {"RUNNING"}, "COMMITTED")
    /\ claimed' = Settled(e, leg[e].job)
    /\ Goto(e, "next")
    /\ UNCHANGED <<dbEpoch, said, ended, memories, episode, leg, unavailable,
                   faults>>

(* Faulty variant: a failed run is forgotten and not recorded.             *)
FailUnrecorded(e) ==
    /\ pc[e] = "fail" /\ Current(e)
    /\ claimed' = Settled(e, leg[e].job)
    /\ Goto(e, "next")
    /\ UNCHANGED <<dbEpoch, durable, leg, unavailable, faults>>

FailJob(e) ==
    /\ pc[e] = "fail"
    /\ Advance(e, leg[e].job, {"RUNNING"}, "FAILED_RETRYABLE")
    /\ claimed' = Settled(e, leg[e].job)
    /\ Goto(e, "next")
    /\ UNCHANGED <<dbEpoch, said, ended, memories, episode, leg, unavailable,
                   faults>>

(* _reject takes a row in any unfinished status.                           *)
RejectJob(e) ==
    /\ pc[e] = "reject"
    /\ Advance(e, leg[e].job, Claimable \cup {"RUNNING"}, "REJECTED")
    /\ claimed' = Settled(e, leg[e].job)
    /\ Goto(e, "next")
    /\ UNCHANGED <<dbEpoch, said, ended, memories, episode, leg, unavailable,
                   faults>>

----------------------------------------------------------------------------
(* What may go wrong.                                                      *)

Fault(kind) ==
    /\ kind \in FaultKinds /\ faults < MaxFaults
    /\ faults' = faults + 1

(* A transient error.  The turn's own leg fails and no pass follows; the   *)
(* sweep cannot re-open or enqueue, or a pass cannot list, and stops;      *)
(* enqueueing after a turn fails and the queue is run all the same; *)
PassError(e) ==
    /\ Fault("transient")
    /\ \/ pc[e] \in {"turn", "reopen", "missing", "list"} /\ BreakPass(e)
       \/ pc[e] = "ensure" /\ Goto(e, "list") /\ UNCHANGED <<leg, unavailable>>
    /\ UNCHANGED <<dbEpoch, durable, claimed>>

(* the base version cannot be read and the view is passed over unclaimed;  *)
(* the executor fails and the row stays retryable.                         *)
JobError(e) ==
    /\ Fault("transient")
    /\ \/ /\ pc[e] = "next" /\ UNCHANGED pc
          /\ \E j \in leg[e].queue : leg' = [leg EXCEPT ![e].queue = @ \ {j}]
          /\ unavailable' = [unavailable EXCEPT ![e] = @ \/ Starting(e)]
       \/ pc[e] = "exec" /\ Goto(e, "fail") /\ UNCHANGED <<leg, unavailable>>
    /\ UNCHANGED <<dbEpoch, durable, claimed>>

(* A deterministic refusal, before the claim (the source no longer matches *)
(* or the base is refused), of the executor or of upsert_episode: the job  *)
(* is rejected.                                                            *)
Refusal(e) ==
    /\ Fault("refuse")
    /\ \/ /\ pc[e] = "next"
          /\ \E j \in leg[e].queue :
               leg' = [leg EXCEPT ![e].queue = @ \ {j}, ![e].job = j]
       \/ pc[e] \in {"exec", "upsert"} /\ UNCHANGED leg
    /\ Goto(e, "reject")
    /\ UNCHANGED <<dbEpoch, durable, claimed, unavailable>>

(* An exception: the whole pass ends where it is, the run unreported.      *)
PassRaises(e) ==
    /\ Fault("raise")
    /\ pc[e] \in {"reopen", "missing", "ensure", "list", "next", "exec",
                  "memory", "upsert", "complete", "fail", "reject"}
    /\ BreakPass(e)
    /\ UNCHANGED <<dbEpoch, durable, claimed>>

----------------------------------------------------------------------------
Init ==
    /\ dbEpoch = 0 /\ said = 0
    /\ ended = [t \in Turns |-> "open"]
    /\ jobs = [j \in Jobs |-> "ABSENT"]
    /\ memories = {} /\ episode = 0
    /\ pc = [e \in Epochs |-> "down"]
    /\ leg = [e \in Epochs |-> NoLeg]
    /\ claimed = [e \in Epochs |-> {}]
    /\ unavailable = [e \in Epochs |-> FALSE]
    /\ faults = 0

PassStep(e) ==
    \/ FinishTurn(e) \/ (\E k \in Kinds : EnsureJob(e, k)) \/ EnsureDone(e)
    \/ ReopenJob(e) \/ ReopenDone(e) \/ EnsureMissing(e) \/ MissingDone(e)
    \/ ListPending(e) \/ (\E j \in Jobs : ClaimJob(e, j)) \/ PassDone(e)
    \/ ReadProposals(e) \/ CommitMemory(e) \/ MemoriesDone(e)
    \/ ReadHistory(e) \/ UpsertEpisode(e)
    \/ CompleteJob(e) \/ FailJob(e) \/ RejectJob(e) \/ Fenced(e)

Failure(e) == PassError(e) \/ JobError(e) \/ Refusal(e) \/ PassRaises(e)

Next ==
    \E e \in Epochs :
      \/ StartRuntime(e) \/ Crash(e) \/ CommitTurn(e)
      \/ (\E t \in Turns : Resubmit(e, t)) \/ PassStep(e) \/ Failure(e)

Spec == Init /\ [][Next]_vars

(* A pass runs to its end, and messages keep coming: at the least the last *)
(* one again.  Every such entry runs the conversation's queue.             *)
Fairness ==
    /\ \A e \in Epochs : WF_vars(PassStep(e))
    /\ \A t \in Turns : SF_vars(\E e \in Epochs : Resubmit(e, t))

FairSpec == Spec /\ Fairness

----------------------------------------------------------------------------
(* Properties.                                                             *)

LegType ==
    [turn : 0..MaxTurn, kinds : SUBSET Kinds, queue : SUBSET Jobs,
     job : Jobs, todo : SUBSET Contents, read : 0..MaxTurn]

(* Every variable keeps its type.                                          *)
TypeOK ==
    /\ dbEpoch \in 0..MaxEpoch /\ said \in 0..MaxTurn
    /\ ended \in [Turns -> {"open", "COMPLETED", "other"}]
    /\ jobs \in [Jobs -> JobState]
    /\ memories \subseteq Turns \X Contents
    /\ episode \in 0..MaxTurn
    /\ pc \in [Epochs -> Label]
    /\ leg \in [Epochs -> LegType]
    /\ claimed \in [Epochs -> SUBSET Jobs]
    /\ unavailable \in [Epochs -> BOOLEAN]
    /\ faults \in 0..MaxFaults

(* The episode never goes back: no pass, however stale the history it has  *)
(* read, replaces a row by one that covers fewer turns.                    *)
EpisodeNeverShrinks == [][episode' >= episode]_vars

(* A committed job did its work: the episode covers its turn, its memories *)
(* are there.                                                              *)
CommittedIsApplied ==
    \A t \in Turns :
        /\ jobs[<<t, "EPISODE">>] = "COMMITTED" => episode >= t
        /\ jobs[<<t, "RELATIONSHIP">>] = "COMMITTED" =>
             \A c \in Proposed(t) : \E m \in memories : m[2] = c

(* Runs that are repeated after a crash or an exception say nothing twice: *)
(* no two memories have the same content.                                  *)
MemoriesDistinct ==
    \A m, n \in memories : m[2] = n[2] => m = n

(* A RUNNING row is never abandoned silently: the newest runtime holds its *)
(* claim, or has not finished re-opening what it found, or reported that   *)
(* it could not.                                                           *)
RunningIsHeld ==
    \A j \in Jobs, e \in Epochs :
        Current(e) /\ jobs[j] = "RUNNING" =>
            \/ j \in claimed[e] \/ unavailable[e] \/ pc[e] = "dead"
            \/ pc[e] = "reopen" /\ j \in leg[e].queue

(* What the job rows say is so, in a crash or takeover at any point: a     *)
(* COMMITTED job is applied, nothing is remembered twice, and no RUNNING   *)
(* row is forgotten (projections.py, projection_store.py).                 *)
WorkIsAccounted == TypeOK /\ CommittedIsApplied /\ MemoriesDistinct /\ RunningIsHeld

(* Finished work is final, and only a COMPLETED turn has work.             *)
FinishedIsFinal ==
    [][\A j \in Jobs :
         /\ jobs[j] \in Finished => jobs'[j] = jobs[j]
         /\ jobs[j] = "ABSENT" /\ jobs'[j] /= "ABSENT" =>
              ended[j[1]] = "COMPLETED"]_vars

(* What was projected stands: no stale pass takes the episode back, and no *)
(* pass re-opens finished work (upsert_episode, _advance).                 *)
HistoryStands == EpisodeNeverShrinks /\ FinishedIsFinal

(* The newest runtime is dead.                                             *)
Unserved == \E e \in Epochs : Current(e) /\ pc[e] = "dead"

(* A run that raised stays claimed by its runtime, and a row a failed      *)
(* sweep did not re-open stays RUNNING: neither moves before a restart.    *)
Stranded(j) ==
    \E e \in Epochs :
        /\ Current(e) /\ pc[e] = "idle" /\ jobs[j] = "RUNNING"
        /\ j \in claimed[e] \/ unavailable[e]

(* Every COMPLETED turn is projected in the end, except what an exception  *)
(* or a failed sweep left behind in a runtime that goes on.                *)
ProjectionsSettle ==
    \A j \in Jobs : []<>(ended[j[1]] = "COMPLETED"
                            => jobs[j] \in Finished \/ Stranded(j) \/ Unserved)
=============================================================================
