-------------------------- MODULE ProjectionsProofs --------------------------
(***************************************************************************)
(* The projections keep their promises for every number of turns,          *)
(* runtimes, contents and faults.                                          *)
(*                                                                         *)
(* The argument: only the newest runtime writes, and it is one thread, so  *)
(* what its pass has read stays true until its own next write.  `Holds(e)` *)
(* says what the newest runtime's pass may rely on at each label; a step   *)
(* of another runtime changes neither the rows nor that pass (Footprint).  *)
(***************************************************************************)
EXTENDS Projections, TLAPS

(* A job's work is done: the episode covers its turn, or every content it  *)
(* proposes is remembered.                                                 *)
Applied(j) ==
    IF j[2] = "EPISODE" THEN episode >= j[1]
    ELSE \A c \in Proposed(j[1]) : \E m \in memories : m[2] = c

(* What the newest runtime's pass knows of its turn and of its own job.    *)
Holds(e) ==
    /\ pc[e] = "turn" =>
         /\ leg[e].turn \in Turns /\ leg[e].turn <= said
         /\ ended[leg[e].turn] = "open"
    /\ pc[e] = "reopen" => Starting(e)
    /\ pc[e] \in {"exec", "memory", "upsert", "complete", "fail"} =>
         leg[e].job[1] <= said
    /\ pc[e] = "upsert" => leg[e].job[2] = "EPISODE" /\ leg[e].read = said
    /\ pc[e] = "memory" =>
         /\ leg[e].job[2] = "RELATIONSHIP"
         /\ \A c \in Proposed(leg[e].job[1]) :
              c \in leg[e].todo \/ \E m \in memories : m[2] = c
    /\ pc[e] = "complete" => Applied(leg[e].job)

(* Rows and turns agree.                                                   *)
RowsAgree ==
    /\ \A t \in Turns : ended[t] /= "open" => t <= said
    /\ \A j \in Jobs : jobs[j] /= "ABSENT" => ended[j[1]] = "COMPLETED"
    /\ \A j \in Jobs : jobs[j] = "COMMITTED" => Applied(j)
    /\ episode <= said

(* RunningIsHeld, of one runtime.                                          *)
Held(e) ==
    \A j \in Jobs : jobs[j] = "RUNNING" =>
        \/ j \in claimed[e] \/ unavailable[e] \/ pc[e] = "dead"
        \/ (pc[e] = "reopen" /\ j \in leg[e].queue)

PassInv ==
    /\ RowsAgree
    /\ \A e \in Epochs : Current(e) => Holds(e) /\ Held(e)

----------------------------------------------------------------------------
(* What the assumption says of the constants.                              *)
LEMMA Constants ==
    /\ MaxTurn \in Nat \ {0} /\ MaxEpoch \in Nat
    /\ \A t \in Turns : Proposed(t) \subseteq Contents
  BY ProjectionsAssumption

(* A step of one runtime.                                                  *)
Step(e) ==
    \/ StartRuntime(e) \/ Crash(e) \/ CommitTurn(e)
    \/ (\E t \in Turns : Resubmit(e, t)) \/ PassStep(e) \/ Failure(e)

(* The locals of a pass keep their type under every edit a step makes.     *)
LEMMA LegEdits ==
    ASSUME NEW l \in LegType
    PROVE  /\ l.kinds \subseteq Kinds /\ l.queue \subseteq Jobs
           /\ l.todo \subseteq Contents /\ l.read \in 0..MaxTurn
           /\ l.turn \in 0..MaxTurn /\ l.job \in Jobs
           /\ \A s \in SUBSET Kinds : [l EXCEPT !.kinds = s] \in LegType
           /\ \A s \in SUBSET Jobs : [l EXCEPT !.queue = s] \in LegType
           /\ \A s \in SUBSET Jobs, j \in Jobs :
                [l EXCEPT !.queue = s, !.job = j] \in LegType
           /\ \A s \in SUBSET Contents : [l EXCEPT !.todo = s] \in LegType
           /\ \A n \in 0..MaxTurn : [l EXCEPT !.read = n] \in LegType
  BY DEF LegType

(* A fresh leg is well typed.                                              *)
LEMMA LegsOf ==
    /\ \A t \in 0..MaxTurn, q \in SUBSET Jobs : LegOf(t, q) \in LegType
    /\ NoLeg \in LegType
  <1>1. <<1, "EPISODE">> \in Jobs BY Constants DEF Jobs, Turns, Kinds
  <1>2. \A t \in 0..MaxTurn, q \in SUBSET Jobs : LegOf(t, q) \in LegType
    BY <1>1, Constants DEF LegOf, LegType
  <1> QED BY <1>2, Constants DEF NoLeg

(* The locals of a pass keep their type.                                   *)
LEMMA LegStep ==
    ASSUME TypeOK, NEW e \in Epochs, Step(e)
    PROVE  leg' \in [Epochs -> LegType]
  <1>1. /\ leg \in [Epochs -> LegType] /\ leg[e] \in LegType
        /\ \A l \in LegType : [leg EXCEPT ![e] = l] \in [Epochs -> LegType]
        /\ said \in 0..MaxTurn /\ MaxTurn \in Nat
    BY Constants DEF TypeOK
  <1>2. /\ leg[e].kinds \subseteq Kinds /\ leg[e].queue \subseteq Jobs
        /\ leg[e].todo \subseteq Contents /\ leg[e].job \in Jobs
        /\ leg[e].job[1] \in Turns
    BY <1>1, LegEdits DEF Jobs
  <1> USE <1>1, <1>2 DEF durable
  <1>3. CASE StartRuntime(e) BY <1>3, LegsOf, Constants DEF StartRuntime
  <1>4. CASE Crash(e) BY <1>4, LegsOf DEF Crash
  <1>5. CASE CommitTurn(e) BY <1>5, LegsOf DEF CommitTurn
  <1>6. CASE \E t \in Turns : Resubmit(e, t) BY <1>6, LegsOf DEF Resubmit, Turns
  <1>7. CASE PassStep(e)
    <2>1. CASE FinishTurn(e) BY <2>1 DEF FinishTurn
    <2>2. CASE \E k \in Kinds : EnsureJob(e, k)
      <3> PICK k \in Kinds : leg' = [leg EXCEPT ![e].kinds = @ \ {k}]
        BY <2>2 DEF EnsureJob, Enqueue
      <3>1. leg[e].kinds \ {k} \in SUBSET Kinds OBVIOUS
      <3>2. [leg[e] EXCEPT !.kinds = @ \ {k}] \in LegType BY <3>1, LegEdits
      <3> QED BY <3>2
    <2>3. CASE EnsureDone(e) BY <2>3 DEF EnsureDone
    <2>4. CASE ReopenJob(e)
      <3> PICK j \in Jobs : leg' = [leg EXCEPT ![e].queue = @ \ {j}]
        BY <2>4 DEF ReopenJob
      <3>1. leg[e].queue \ {j} \in SUBSET Jobs OBVIOUS
      <3>2. [leg[e] EXCEPT !.queue = @ \ {j}] \in LegType BY <3>1, LegEdits
      <3> QED BY <3>2
    <2>5. CASE ReopenDone(e) BY <2>5 DEF ReopenDone
    <2>6. CASE EnsureMissing(e) BY <2>6 DEF EnsureMissing, Enqueue
    <2>7. CASE MissingDone(e) BY <2>7 DEF MissingDone
    <2>8. CASE ListPending(e)
      <3>1. {j \in Jobs : jobs[j] \in Claimable} \in SUBSET Jobs OBVIOUS
      <3>2. [leg[e] EXCEPT !.queue = {j \in Jobs : jobs[j] \in Claimable}] \in LegType
        BY <3>1, LegEdits
      <3> QED BY <3>2, <2>8 DEF ListPending
    <2>9. CASE \E j \in Jobs : ClaimJob(e, j)
      <3> PICK j \in Jobs :
            leg' = [leg EXCEPT ![e].queue = @ \ {j}, ![e].job = j]
        BY <2>9 DEF ClaimJob
      <3>1. leg[e].queue \ {j} \in SUBSET Jobs OBVIOUS
      <3>2. [leg[e] EXCEPT !.queue = @ \ {j}, !.job = j] \in LegType
        BY <3>1, LegEdits
      <3>3. leg' = [leg EXCEPT ![e] = [leg[e] EXCEPT !.queue = @ \ {j}, !.job = j]]
        OBVIOUS
      <3> QED BY <3>2, <3>3
    <2>10. CASE PassDone(e) BY <2>10, LegsOf DEF PassDone, EndPass
    <2>11. CASE ReadProposals(e) BY <2>11, LegEdits, Constants DEF ReadProposals
    <2>12. CASE CommitMemory(e)
      <3> PICK c \in Contents : leg' = [leg EXCEPT ![e].todo = @ \ {c}]
        BY <2>12 DEF CommitMemory
      <3>1. leg[e].todo \ {c} \in SUBSET Contents OBVIOUS
      <3>2. [leg[e] EXCEPT !.todo = @ \ {c}] \in LegType BY <3>1, LegEdits
      <3> QED BY <3>2
    <2>13. CASE MemoriesDone(e) BY <2>13 DEF MemoriesDone
    <2>14. CASE ReadHistory(e) BY <2>14, LegEdits DEF ReadHistory
    <2>15. CASE UpsertEpisode(e) BY <2>15 DEF UpsertEpisode
    <2>16. CASE CompleteJob(e) BY <2>16 DEF CompleteJob
    <2>17. CASE FailJob(e) BY <2>17 DEF FailJob
    <2>18. CASE RejectJob(e) BY <2>18 DEF RejectJob
    <2>19. CASE Fenced(e) BY <2>19, LegsOf DEF Fenced, BreakPass, EndPass
    <2> QED BY <1>7, <2>1, <2>2, <2>3, <2>4, <2>5, <2>6, <2>7, <2>8, <2>9, <2>10,
               <2>11, <2>12, <2>13, <2>14, <2>15, <2>16, <2>17, <2>18,
               <2>19 DEF PassStep
  <1>8. CASE Failure(e)
    <2> USE LegsOf, LegEdits DEF BreakPass, EndPass
    <2>1. CASE PassError(e) BY <2>1 DEF PassError
    <2>2. CASE JobError(e) BY <2>2 DEF JobError
    <2>3. CASE Refusal(e)
      <3>1. CASE UNCHANGED leg BY <3>1
      <3>2. CASE ~UNCHANGED leg
        <4> PICK j \in Jobs :
              leg' = [leg EXCEPT ![e].queue = @ \ {j}, ![e].job = j]
          BY <2>3, <3>2 DEF Refusal
        <4>1. leg[e].queue \ {j} \in SUBSET Jobs OBVIOUS
        <4>2. [leg[e] EXCEPT !.queue = @ \ {j}, !.job = j] \in LegType
          BY <4>1, LegEdits
        <4>3. leg' = [leg EXCEPT ![e] = [leg[e] EXCEPT !.queue = @ \ {j}, !.job = j]]
          OBVIOUS
        <4> QED BY <4>2, <4>3
      <3> QED BY <3>1, <3>2
    <2>4. CASE PassRaises(e) BY <2>4 DEF PassRaises
    <2> QED BY <1>8, <2>1, <2>2, <2>3, <2>4 DEF Failure
  <1> QED BY <1>3, <1>4, <1>5, <1>6, <1>7, <1>8 DEF Step

(* Type correctness is inductive.                                          *)
LEMMA TypeInit == Init => TypeOK
  BY LegsOf, Constants, ProjectionsAssumption
     DEF Init, TypeOK, Label, JobState, Epochs

(* Every step keeps the types.                                             *)
LEMMA TypeStep == TypeOK /\ [Next]_vars => TypeOK'
  <1> SUFFICES ASSUME TypeOK, [Next]_vars PROVE TypeOK' OBVIOUS
  <1>1. CASE UNCHANGED vars BY <1>1 DEF vars, durable, TypeOK
  <1>2. CASE Next
    <2> PICK e \in Epochs : Step(e) BY <1>2 DEF Next, Step
    <2>1. leg' \in [Epochs -> LegType] BY LegStep
    <2>2. /\ leg[e].todo \subseteq Contents /\ leg[e].queue \subseteq Jobs
          /\ leg[e].read \in 0..MaxTurn /\ leg[e].job \in Jobs
          /\ leg[e].job[1] \in Turns
          /\ e \in 1..MaxEpoch /\ MaxTurn \in Nat /\ MaxEpoch \in Nat /\ MaxFaults \in Nat
      BY Constants, ProjectionsAssumption, LegEdits DEF TypeOK, Epochs, Jobs
    <2>3. /\ {"dead", "idle", "turn", "ensure", "reopen", "missing", "list",
              "next", "exec", "memory", "upsert", "complete", "fail",
              "reject"} \subseteq Label
          /\ {"RUNNING", "PENDING", "FAILED_RETRYABLE", "COMMITTED",
              "REJECTED"} \subseteq JobState
      BY DEF Label, JobState, Claimable, Finished
    <2> USE <2>1, <2>2, <2>3 DEF TypeOK, Goto, durable
    <2>4. CASE StartRuntime(e) BY <2>4 DEF StartRuntime
    <2>5. CASE Crash(e) BY <2>5 DEF Crash
    <2>6. CASE CommitTurn(e) BY <2>6 DEF CommitTurn
    <2>7. CASE \E t \in Turns : Resubmit(e, t) BY <2>7 DEF Resubmit
    <2>8. CASE PassStep(e)
      <3> USE DEF Advance, Settled
      <3>1. CASE FinishTurn(e) BY <3>1 DEF FinishTurn
      <3>2. CASE \E k \in Kinds : EnsureJob(e, k) BY <3>2 DEF EnsureJob, Enqueue
      <3>3. CASE EnsureDone(e) BY <3>3 DEF EnsureDone
      <3>4. CASE ReopenJob(e) BY <3>4 DEF ReopenJob
      <3>5. CASE ReopenDone(e) BY <3>5 DEF ReopenDone
      <3>6. CASE EnsureMissing(e) BY <3>6 DEF EnsureMissing, Enqueue, Missing
      <3>7. CASE MissingDone(e) BY <3>7 DEF MissingDone
      <3>8. CASE ListPending(e) BY <3>8 DEF ListPending
      <3>9. CASE \E j \in Jobs : ClaimJob(e, j) BY <3>9 DEF ClaimJob
      <3>10. CASE PassDone(e) BY <3>10 DEF PassDone, EndPass
      <3>11. CASE ReadProposals(e) BY <3>11 DEF ReadProposals
      <3>12. CASE CommitMemory(e) BY <3>12 DEF CommitMemory, Committed
      <3>13. CASE MemoriesDone(e) BY <3>13 DEF MemoriesDone
      <3>14. CASE ReadHistory(e) BY <3>14 DEF ReadHistory
      <3>15. CASE UpsertEpisode(e) BY <3>15 DEF UpsertEpisode
      <3>16. CASE CompleteJob(e) BY <3>16 DEF CompleteJob
      <3>17. CASE FailJob(e) BY <3>17 DEF FailJob
      <3>18. CASE RejectJob(e) BY <3>18 DEF RejectJob
      <3>19. CASE Fenced(e) BY <3>19 DEF Fenced, BreakPass, EndPass, Starting
      <3> QED BY <2>8, <3>1, <3>2, <3>3, <3>4, <3>5, <3>6, <3>7, <3>8, <3>9, <3>10,
                 <3>11, <3>12, <3>13, <3>14, <3>15, <3>16, <3>17, <3>18,
                 <3>19 DEF PassStep
    <2>9. CASE Failure(e)
      <3> USE DEF Fault, BreakPass, EndPass, Starting
      <3>1. CASE PassError(e)
        <4>1. CASE BreakPass(e) BY <3>1, <4>1 DEF PassError
        <4>2. CASE ~BreakPass(e) BY <3>1, <4>2 DEF PassError
        <4> QED BY <4>1, <4>2
      <3>2. CASE JobError(e)
        <4>1. CASE pc[e] = "exec" BY <3>2, <4>1 DEF JobError
        <4>2. CASE pc[e] = "next"
          <5>1. /\ unavailable' = [unavailable EXCEPT ![e] = @ \/ Starting(e)]
                /\ faults < MaxFaults /\ faults' = faults + 1
                /\ UNCHANGED <<dbEpoch, durable, pc, claimed>>
            BY <3>2, <4>2 DEF JobError
          <5> QED BY <5>1
        <4> QED BY <3>2, <4>1, <4>2 DEF JobError
      <3>3. CASE Refusal(e) BY <3>3 DEF Refusal
      <3>4. CASE PassRaises(e) BY <3>4 DEF PassRaises
      <3> QED BY <2>9, <3>1, <3>2, <3>3, <3>4 DEF Failure
    <2> QED BY <2>4, <2>5, <2>6, <2>7, <2>8, <2>9 DEF Step
  <1> QED BY <1>1, <1>2

(* Every reachable state of the projections is well typed.                 *)
THEOREM TypeCorrect == Spec => []TypeOK
  BY TypeInit, TypeStep, PTL DEF Spec

----------------------------------------------------------------------------
(* The pass of another runtime is left alone, and an old runtime writes no *)
(* row.                                                                    *)
LEMMA Footprint ==
    ASSUME TypeOK, NEW e \in Epochs, Step(e)
    PROVE  /\ \A f \in Epochs \ {e} :
                /\ pc'[f] = pc[f] /\ leg'[f] = leg[f]
                /\ claimed'[f] = claimed[f] /\ unavailable'[f] = unavailable[f]
           /\ ~StartRuntime(e) => dbEpoch' = dbEpoch
           /\ ~StartRuntime(e) /\ ~Current(e) => UNCHANGED durable
  <1> USE DEF TypeOK, Goto, durable, Advance, Settled, BreakPass, EndPass, Fault
  <1>1. CASE StartRuntime(e) BY <1>1 DEF StartRuntime
  <1>2. CASE Crash(e) BY <1>2 DEF Crash
  <1>3. CASE CommitTurn(e) BY <1>3 DEF CommitTurn
  <1>4. CASE \E t \in Turns : Resubmit(e, t) BY <1>4 DEF Resubmit
  <1>5. CASE PassStep(e)
    <2>1. CASE FinishTurn(e) BY <2>1 DEF FinishTurn
    <2>2. CASE \E k \in Kinds : EnsureJob(e, k) BY <2>2 DEF EnsureJob, Enqueue
    <2>3. CASE EnsureDone(e) BY <2>3 DEF EnsureDone
    <2>4. CASE ReopenJob(e) BY <2>4 DEF ReopenJob
    <2>5. CASE ReopenDone(e) BY <2>5 DEF ReopenDone
    <2>6. CASE EnsureMissing(e) BY <2>6 DEF EnsureMissing, Enqueue
    <2>7. CASE MissingDone(e) BY <2>7 DEF MissingDone
    <2>8. CASE ListPending(e) BY <2>8 DEF ListPending
    <2>9. CASE \E j \in Jobs : ClaimJob(e, j) BY <2>9 DEF ClaimJob
    <2>10. CASE PassDone(e) BY <2>10 DEF PassDone
    <2>11. CASE ReadProposals(e) BY <2>11 DEF ReadProposals
    <2>12. CASE CommitMemory(e) BY <2>12 DEF CommitMemory
    <2>13. CASE MemoriesDone(e) BY <2>13 DEF MemoriesDone
    <2>14. CASE ReadHistory(e) BY <2>14 DEF ReadHistory
    <2>15. CASE UpsertEpisode(e) BY <2>15 DEF UpsertEpisode
    <2>16. CASE CompleteJob(e) BY <2>16 DEF CompleteJob
    <2>17. CASE FailJob(e) BY <2>17 DEF FailJob
    <2>18. CASE RejectJob(e) BY <2>18 DEF RejectJob
    <2>19. CASE Fenced(e) BY <2>19 DEF Fenced
    <2> QED BY <1>5, <2>1, <2>2, <2>3, <2>4, <2>5, <2>6, <2>7, <2>8, <2>9,
               <2>10, <2>11, <2>12, <2>13, <2>14, <2>15, <2>16, <2>17, <2>18,
               <2>19 DEF PassStep
  <1>6. CASE Failure(e)
    <2>1. CASE PassError(e) BY <2>1 DEF PassError
    <2>2. CASE JobError(e) BY <2>2 DEF JobError
    <2>3. CASE Refusal(e) BY <2>3 DEF Refusal
    <2>4. CASE PassRaises(e) BY <2>4 DEF PassRaises
    <2> QED BY <1>6, <2>1, <2>2, <2>3, <2>4 DEF Failure
  <1> QED BY <1>1, <1>2, <1>3, <1>4, <1>5, <1>6 DEF Step

(* What is remembered is not forgotten: a job whose work is done stays so  *)
(* while the episode grows and the memories are kept.                      *)
LEMMA AppliedStays ==
    ASSUME TypeOK, TypeOK', NEW j \in Jobs, Applied(j),
           episode' >= episode, memories \subseteq memories'
    PROVE  Applied(j)'
  BY Constants DEF Applied, TypeOK, Jobs, Turns

(* Rows that do not change keep agreeing.                                  *)
LEMMA RowsKept == RowsAgree /\ UNCHANGED durable => RowsAgree'
  BY DEF RowsAgree, durable, Applied

----------------------------------------------------------------------------
(* The rows keep agreeing, and the work of a committed job stays done.     *)
Rows ==
    /\ RowsAgree' /\ episode' >= episode /\ memories \subseteq memories'
    /\ said' >= said

LEMMA RowsStep ==
    ASSUME TypeOK, TypeOK', PassInv, NEW e \in Epochs, Step(e)
    PROVE  Rows
  <1>1. /\ said \in Nat /\ episode \in Nat /\ leg[e].job \in Jobs
        /\ \A j \in Jobs : j[1] \in Turns
        /\ Turns \subseteq Nat
    <2>1. leg[e].job \in Jobs BY LegEdits DEF TypeOK
    <2>2. \A j \in Jobs : j[1] \in Turns BY DEF Jobs
    <2> QED BY <2>1, <2>2, Constants DEF TypeOK, Turns
  <1>2. CASE UNCHANGED durable BY <1>1, <1>2, RowsKept DEF Rows, PassInv, durable
  <1>3. CASE Current(e) /\ ~UNCHANGED durable
    <2> USE <1>1, <1>3
    <2>1. Holds(e) /\ RowsAgree BY DEF PassInv
    <2>2. \A j \in Jobs : /\ Applied(j)
                           /\ episode' >= episode /\ memories \subseteq memories'
                           => Applied(j)'
      BY AppliedStays
    <2>3. CASE CommitTurn(e)
      BY <2>1, <2>2, <2>3 DEF CommitTurn, Rows, RowsAgree
    <2>4. CASE FinishTurn(e)
      BY <2>1, <2>2, <2>4 DEF FinishTurn, Rows, RowsAgree, Holds, TypeOK
    <2>5. CASE \E k \in Kinds : EnsureJob(e, k)
      BY <2>1, <2>2, <2>5 DEF EnsureJob, Enqueue, Rows, RowsAgree, TypeOK, durable
    <2>6. CASE ReopenJob(e)
      BY <2>1, <2>2, <2>6 DEF ReopenJob, Advance, Rows, RowsAgree, TypeOK
    <2>7. CASE EnsureMissing(e)
      BY <2>1, <2>2, <2>7 DEF EnsureMissing, Enqueue, Missing, Rows, RowsAgree, TypeOK
    <2>8. CASE \E j \in Jobs : ClaimJob(e, j)
      BY <2>1, <2>2, <2>8 DEF ClaimJob, Advance, Claimable, Rows, RowsAgree, TypeOK
    <2>9. CASE CommitMemory(e)
      BY <2>1, <2>2, <2>9 DEF CommitMemory, Committed, Rows, RowsAgree
    <2>10. CASE UpsertEpisode(e)
      BY <2>1, <2>2, <2>10 DEF UpsertEpisode, Rows, RowsAgree, Holds
    <2>11. CASE CompleteJob(e)
      BY <2>1, <2>2, <2>11 DEF CompleteJob, Advance, Rows, RowsAgree, Holds, TypeOK
    <2>12. CASE FailJob(e)
      BY <2>1, <2>2, <2>12 DEF FailJob, Advance, Rows, RowsAgree, TypeOK
    <2>13. CASE RejectJob(e)
      BY <2>1, <2>2, <2>13 DEF RejectJob, Advance, Claimable, Rows, RowsAgree, TypeOK
    <2> QED
      BY <2>3, <2>4, <2>5, <2>6, <2>7, <2>8, <2>9, <2>10, <2>11, <2>12, <2>13
         DEF Step, StartRuntime, Crash, Resubmit, PassStep, EnsureDone,
             ReopenDone, MissingDone, ListPending, PassDone, ReadProposals,
             MemoriesDone, ReadHistory, Fenced, Failure, PassError, JobError,
             Refusal, PassRaises
  <1> QED BY <1>2, <1>3, Footprint DEF StartRuntime

----------------------------------------------------------------------------
(* What the newest runtime's pass knows stays true under its own steps.    *)
LEMMA HoldsStep ==
    ASSUME TypeOK, TypeOK', PassInv, NEW e \in Epochs, Current(e), Step(e)
    PROVE  Holds(e)'
  <1>1. /\ said \in Nat /\ episode \in Nat /\ leg[e] \in LegType
        /\ leg[e].job \in Jobs /\ leg[e].turn \in 0..MaxTurn
        /\ leg[e].queue \subseteq Jobs
        /\ \A j \in Jobs : j[1] \in Turns
        /\ Turns \subseteq Nat /\ pc[e] \in Label
    <2>1. leg[e] \in LegType BY DEF TypeOK
    <2>2. /\ leg[e].job \in Jobs /\ leg[e].turn \in 0..MaxTurn
          /\ leg[e].queue \subseteq Jobs
      BY <2>1, LegEdits
    <2>3. \A j \in Jobs : j[1] \in Turns BY DEF Jobs
    <2> QED BY <2>1, <2>2, <2>3, Constants DEF TypeOK, Turns
  <1>2. Holds(e) /\ RowsAgree BY DEF PassInv
  <1> USE <1>1, <1>2 DEF Holds, TypeOK, Goto, durable, LegType
  <1>3. CASE StartRuntime(e) BY <1>3 DEF StartRuntime, Current
  <1>4. CASE Crash(e) BY <1>4 DEF Crash
  <1>5. CASE CommitTurn(e) BY <1>5 DEF CommitTurn, LegOf, RowsAgree, Turns
  <1>6. CASE \E t \in Turns : Resubmit(e, t) BY <1>6 DEF Resubmit, LegOf
  <1>7. CASE PassStep(e)
    <2>1. CASE FinishTurn(e)
      BY <2>1 DEF FinishTurn
    <2>2. CASE \E k \in Kinds : EnsureJob(e, k)
      BY <2>2 DEF EnsureJob, Enqueue
    <2>3. CASE EnsureDone(e)
      BY <2>3 DEF EnsureDone
    <2>4. CASE ReopenJob(e)
      <3>1. /\ pc[e] = "reopen" /\ pc'[e] = "reopen"
            /\ leg'[e].turn = leg[e].turn
        BY <2>4 DEF ReopenJob
      <3> QED BY <3>1 DEF Starting
    <2>5. CASE ReopenDone(e)
      BY <2>5 DEF ReopenDone
    <2>6. CASE EnsureMissing(e)
      BY <2>6 DEF EnsureMissing, Enqueue
    <2>7. CASE MissingDone(e)
      BY <2>7 DEF MissingDone
    <2>8. CASE ListPending(e)
      BY <2>8 DEF ListPending
    <2>9. CASE \E j \in Jobs : ClaimJob(e, j)
      BY <2>9 DEF ClaimJob, Advance, Claimable, RowsAgree
    <2>10. CASE PassDone(e)
      BY <2>10 DEF PassDone, EndPass, LegOf, NoLeg
    <2>11. CASE ReadProposals(e)
      BY <2>11 DEF ReadProposals, Kinds
    <2>12. CASE CommitMemory(e)
      <3> PICK c \in leg[e].todo :
            /\ memories' = Committed(leg[e].job[1], c)
            /\ leg' = [leg EXCEPT ![e].todo = @ \ {c}]
        BY <2>12 DEF CommitMemory
      <3>1. /\ leg'[e].todo = leg[e].todo \ {c} /\ leg'[e].job = leg[e].job
            /\ pc[e] = "memory" /\ pc'[e] = "memory" /\ said' = said
        BY <2>12 DEF CommitMemory
      <3>2. /\ memories \subseteq memories'
            /\ \E m \in memories' : m[2] = c
        <4>1. CASE \E m \in memories : m[2] = c BY <4>1 DEF Committed
        <4>2. CASE ~\E m \in memories : m[2] = c
          <5>1. memories' = memories \cup {<<leg[e].job[1], c>>}
            BY <4>2 DEF Committed
          <5>2. <<leg[e].job[1], c>>[2] = c OBVIOUS
          <5> QED BY <5>1, <5>2
        <4> QED BY <4>1, <4>2
      <3> QED BY <3>1, <3>2
    <2>13. CASE MemoriesDone(e)
      BY <2>13 DEF MemoriesDone, Applied
    <2>14. CASE ReadHistory(e)
      BY <2>14 DEF ReadHistory, Kinds
    <2>15. CASE UpsertEpisode(e)
      BY <2>15 DEF UpsertEpisode, Applied
    <2>16. CASE CompleteJob(e)
      BY <2>16 DEF CompleteJob, Advance, Settled
    <2>17. CASE FailJob(e)
      BY <2>17 DEF FailJob, Advance, Settled
    <2>18. CASE RejectJob(e)
      BY <2>18 DEF RejectJob, Advance, Settled
    <2>19. CASE Fenced(e) BY <2>19 DEF Fenced
    <2> QED BY <1>7, <2>1, <2>2, <2>3, <2>4, <2>5, <2>6, <2>7, <2>8, <2>9, <2>10,
               <2>11, <2>12, <2>13, <2>14, <2>15, <2>16, <2>17, <2>18, <2>19
               DEF PassStep
  <1>8. CASE Failure(e)
    <2> USE DEF BreakPass, EndPass
    <2>1. CASE PassError(e) BY <2>1 DEF PassError
    <2>2. CASE JobError(e) BY <2>2 DEF JobError
    <2>3. CASE Refusal(e) BY <2>3 DEF Refusal
    <2>4. CASE PassRaises(e) BY <2>4 DEF PassRaises
    <2> QED BY <1>8, <2>1, <2>2, <2>3, <2>4 DEF Failure
  <1> QED BY <1>3, <1>4, <1>5, <1>6, <1>7, <1>8 DEF Step

(* The newest runtime keeps hold of every RUNNING row.                     *)
LEMMA HeldStep ==
    ASSUME TypeOK, TypeOK', PassInv, NEW e \in Epochs, Current(e), Step(e)
    PROVE  Held(e)'
  <1>1. /\ leg[e] \in LegType /\ leg[e].job \in Jobs
        /\ leg[e].queue \subseteq Jobs
    <2>1. leg[e] \in LegType BY DEF TypeOK
    <2> QED BY <2>1, LegEdits
  <1>2. Holds(e) /\ Held(e) BY DEF PassInv
  <1> USE <1>1, <1>2 DEF Held, TypeOK, Goto, durable, LegType
  <1>3. CASE StartRuntime(e)
    BY <1>3, Constants DEF StartRuntime, Current, Epochs
  <1>4. CASE Crash(e) BY <1>4 DEF Crash
  <1>5. CASE CommitTurn(e) BY <1>5 DEF CommitTurn
  <1>6. CASE \E t \in Turns : Resubmit(e, t) BY <1>6 DEF Resubmit
  <1>7. CASE PassStep(e)
    <2>1. CASE FinishTurn(e)
      BY <2>1 DEF FinishTurn
    <2>2. CASE \E k \in Kinds : EnsureJob(e, k)
      BY <2>2 DEF EnsureJob, Enqueue
    <2>3. CASE EnsureDone(e)
      BY <2>3 DEF EnsureDone
    <2>4. CASE ReopenJob(e)
      <3> PICK j \in leg[e].queue :
            /\ jobs' = [jobs EXCEPT ![j] = "FAILED_RETRYABLE"]
            /\ leg' = [leg EXCEPT ![e].queue = @ \ {j}]
        BY <2>4 DEF ReopenJob, Advance
      <3>1. /\ leg'[e].queue = leg[e].queue \ {j} /\ jobs'[j] /= "RUNNING"
            /\ \A i \in Jobs \ {j} : jobs'[i] = jobs[i]
            /\ UNCHANGED <<pc, claimed, unavailable>>
        BY <2>4 DEF ReopenJob
      <3> QED BY <3>1
    <2>5. CASE ReopenDone(e)
      BY <2>5 DEF ReopenDone
    <2>6. CASE EnsureMissing(e)
      BY <2>6 DEF EnsureMissing, Enqueue, Missing
    <2>7. CASE MissingDone(e)
      BY <2>7 DEF MissingDone
    <2>8. CASE ListPending(e)
      BY <2>8 DEF ListPending
    <2>9. CASE \E j \in Jobs : ClaimJob(e, j)
      BY <2>9 DEF ClaimJob, Advance, Claimable
    <2>10. CASE PassDone(e)
      BY <2>10 DEF PassDone, EndPass
    <2>11. CASE ReadProposals(e)
      BY <2>11 DEF ReadProposals
    <2>12. CASE CommitMemory(e)
      BY <2>12 DEF CommitMemory, Committed
    <2>13. CASE MemoriesDone(e)
      BY <2>13 DEF MemoriesDone
    <2>14. CASE ReadHistory(e)
      BY <2>14 DEF ReadHistory
    <2>15. CASE UpsertEpisode(e)
      BY <2>15 DEF UpsertEpisode
    <2>16. CASE CompleteJob(e)
      BY <2>16 DEF CompleteJob, Advance, Settled
    <2>17. CASE FailJob(e)
      BY <2>17 DEF FailJob, Advance, Settled
    <2>18. CASE RejectJob(e)
      BY <2>18 DEF RejectJob, Advance, Settled
    <2>19. CASE Fenced(e) BY <2>19 DEF Fenced
    <2> QED BY <1>7, <2>1, <2>2, <2>3, <2>4, <2>5, <2>6, <2>7, <2>8, <2>9, <2>10,
               <2>11, <2>12, <2>13, <2>14, <2>15, <2>16, <2>17, <2>18, <2>19
               DEF PassStep
  <1>8. CASE Failure(e)
    <2> USE DEF BreakPass, EndPass, Holds
    <2>1. CASE PassError(e) BY <2>1 DEF PassError
    <2>2. CASE JobError(e) BY <2>2 DEF JobError
    <2>3. CASE Refusal(e) BY <2>3 DEF Refusal
    <2>4. CASE PassRaises(e) BY <2>4 DEF PassRaises
    <2> QED BY <1>8, <2>1, <2>2, <2>3, <2>4 DEF Failure
  <1> QED BY <1>3, <1>4, <1>5, <1>6, <1>7, <1>8 DEF Step

----------------------------------------------------------------------------
(* The invariant holds before any runtime has started.                     *)
LEMMA PassInit == Init => PassInv
  BY Constants DEF Init, PassInv, RowsAgree, Held, Holds, Current, Epochs

(* The invariant is inductive: a step of the newest runtime keeps what it  *)
(* knows, a new runtime starts from the rows it lists, and a step of an    *)
(* old one changes nothing of either.                                      *)
LEMMA PassStepInv ==
    ASSUME TypeOK, TypeOK', PassInv, [Next]_vars
    PROVE  PassInv'
  <1>1. CASE UNCHANGED vars
    BY <1>1, RowsKept DEF vars, durable, PassInv, Held, Holds, Current, Applied, Starting
  <1>2. CASE Next
    <2> PICK e \in Epochs : Step(e) BY <1>2 DEF Next, Step
    <2>1. RowsAgree' BY RowsStep DEF Rows
    <2>2. CASE StartRuntime(e)
      <3>1. \A f \in Epochs : Current(f)' => f = e
        BY <2>2 DEF StartRuntime, Current
      <3>2. /\ pc'[e] = "reopen" /\ leg'[e].turn = 0
            /\ leg'[e].queue = {j \in Jobs : jobs[j] = "RUNNING"} /\ jobs' = jobs
        BY <2>2 DEF StartRuntime, Goto, LegOf, TypeOK, durable
      <3>3. Holds(e)' /\ Held(e)' BY <3>2 DEF Holds, Held, Starting
      <3> QED BY <2>1, <3>1, <3>3 DEF PassInv
    <2>3. CASE ~StartRuntime(e)
      <3>1. dbEpoch' = dbEpoch BY <2>3, Footprint
      <3> SUFFICES ASSUME NEW f \in Epochs, Current(f)
                   PROVE  Holds(f)' /\ Held(f)'
        BY <2>1, <3>1 DEF PassInv, Current
      <3>2. CASE f = e BY <3>2, HoldsStep, HeldStep
      <3>3. CASE f /= e
        <4>1. /\ pc'[f] = pc[f] /\ leg'[f] = leg[f]
              /\ claimed'[f] = claimed[f] /\ unavailable'[f] = unavailable[f]
              /\ UNCHANGED durable
          BY <2>3, <3>3, Footprint DEF Current
        <4>2. Holds(f) /\ Held(f) BY DEF PassInv
        <4> QED BY <4>1, <4>2 DEF Holds, Held, Starting, Applied, durable
      <3> QED BY <3>2, <3>3
    <2> QED BY <2>2, <2>3
  <1> QED BY <1>1, <1>2

(* Both invariants hold in every reachable state.                          *)
LEMMA PassInvariant == Spec => [](TypeOK /\ PassInv)
  <1>1. Init => TypeOK /\ PassInv BY TypeInit, PassInit
  <1>2. TypeOK /\ PassInv /\ [Next]_vars => (TypeOK /\ PassInv)'
    BY TypeStep, PassStepInv
  <1> QED BY <1>1, <1>2, PTL DEF Spec

(* A committed projection job has done its work, whatever crashed, raised  *)
(* or took over while it ran (_run_one reports only after the executor).   *)
THEOREM CommittedWork == Spec => []CommittedIsApplied
  <1>1. TypeOK /\ PassInv => CommittedIsApplied
    BY DEF PassInv, RowsAgree, Applied, CommittedIsApplied, Jobs, Kinds
  <1> QED BY <1>1, PassInvariant, PTL

(* No RUNNING row is abandoned silently: the newest runtime holds it, is   *)
(* re-opening it or has reported that it could not.                        *)
THEOREM RunsAreHeld == Spec => []RunningIsHeld
  <1>1. TypeOK /\ PassInv => RunningIsHeld BY DEF PassInv, Held, RunningIsHeld
  <1> QED BY <1>1, PassInvariant, PTL

(* The episode never goes back although upsert_episode overwrites without  *)
(* looking: the epoch fence keeps every stale reader out.                  *)
THEOREM EpisodeGrows == Spec => EpisodeNeverShrinks
  <1>1. TypeOK /\ TypeOK' /\ PassInv /\ [Next]_vars => [episode' >= episode]_vars
    BY RowsStep DEF Next, Step, Rows
  <1> QED BY <1>1, PassInvariant, PTL DEF EpisodeNeverShrinks, Spec

----------------------------------------------------------------------------
(* Finished rows do not move and a row appears only for a COMPLETED turn.  *)
JobsMoveOn ==
    \A j \in Jobs :
        /\ jobs[j] \in Finished => jobs'[j] = jobs[j]
        /\ (jobs[j] = "ABSENT" /\ jobs'[j] /= "ABSENT") => ended[j[1]] = "COMPLETED"

LEMMA JobsStep ==
    ASSUME TypeOK, NEW e \in Epochs, Step(e)
    PROVE  JobsMoveOn
  <1>1. CASE UNCHANGED jobs BY <1>1 DEF JobsMoveOn
  <1>2. CASE ~UNCHANGED jobs
    <2> USE <1>2 DEF TypeOK, JobsMoveOn, Finished, Advance, Claimable
    <2>1. CASE \E k \in Kinds : EnsureJob(e, k) BY <2>1 DEF EnsureJob, Enqueue
    <2>2. CASE ReopenJob(e) BY <2>2 DEF ReopenJob
    <2>3. CASE EnsureMissing(e) BY <2>3 DEF EnsureMissing, Enqueue, Missing
    <2>4. CASE \E j \in Jobs : ClaimJob(e, j) BY <2>4 DEF ClaimJob
    <2>5. CASE CompleteJob(e) BY <2>5 DEF CompleteJob
    <2>6. CASE FailJob(e) BY <2>6 DEF FailJob
    <2>7. CASE RejectJob(e) BY <2>7 DEF RejectJob
    <2> HIDE DEF TypeOK, JobsMoveOn, Finished, Advance, Claimable
    <2> QED
      BY <2>1, <2>2, <2>3, <2>4, <2>5, <2>6, <2>7
         DEF Step, StartRuntime, Crash, CommitTurn, Resubmit, PassStep,
             FinishTurn, EnsureDone, ReopenDone, MissingDone, ListPending,
             PassDone, ReadProposals, CommitMemory, MemoriesDone, ReadHistory,
             UpsertEpisode, Fenced, Failure, PassError, JobError, Refusal,
             PassRaises, durable
  <1> QED BY <1>1, <1>2

(* A job that was committed or rejected keeps that word for ever, and only *)
(* a COMPLETED turn has jobs (the compare-and-set of _advance).            *)
THEOREM FinalStays == Spec => FinishedIsFinal
  <1>1. TypeOK /\ [Next]_vars => [JobsMoveOn]_vars BY JobsStep DEF Next, Step
  <1>2. [][JobsMoveOn]_vars => FinishedIsFinal
    <2>1. [JobsMoveOn]_vars =>
            [\A j \in Jobs :
               /\ jobs[j] \in Finished => jobs'[j] = jobs[j]
               /\ jobs[j] = "ABSENT" /\ jobs'[j] /= "ABSENT" =>
                    ended[j[1]] = "COMPLETED"]_vars
      BY DEF JobsMoveOn
    <2> QED BY <2>1, PTL DEF FinishedIsFinal
  <1> QED BY <1>1, <1>2, TypeCorrect, PTL DEF Spec

(* Only commit_memory writes a memory, and it adds a content once.         *)
LEMMA MemoryStep ==
    ASSUME TypeOK, NEW e \in Epochs, Step(e), MemoriesDistinct
    PROVE  MemoriesDistinct'
  <1>1. CASE UNCHANGED memories BY <1>1 DEF MemoriesDistinct
  <1>2. CASE CommitMemory(e)
    BY <1>2 DEF CommitMemory, Committed, MemoriesDistinct
  <1> QED
    BY <1>1, <1>2
       DEF Step, StartRuntime, Crash, CommitTurn, Resubmit, PassStep,
           FinishTurn, EnsureJob, EnsureDone, ReopenJob, ReopenDone,
           EnsureMissing, MissingDone, ListPending, ClaimJob, PassDone,
           ReadProposals, MemoriesDone, ReadHistory, UpsertEpisode,
           CompleteJob, FailJob, RejectJob, Fenced, Failure, PassError,
           JobError, Refusal, PassRaises, durable

(* However often a run is repeated, nothing is remembered twice.           *)
THEOREM NothingSaidTwice == Spec => []MemoriesDistinct
  <1>1. Init => MemoriesDistinct BY DEF Init, MemoriesDistinct
  <1>2. TypeOK /\ MemoriesDistinct /\ [Next]_vars => MemoriesDistinct'
    <2> SUFFICES ASSUME TypeOK, MemoriesDistinct, [Next]_vars
                 PROVE  MemoriesDistinct' OBVIOUS
    <2>1. CASE UNCHANGED vars BY <2>1 DEF vars, durable, MemoriesDistinct
    <2>2. CASE Next BY <2>2, MemoryStep DEF Next, Step
    <2> QED BY <2>1, <2>2
  <1> QED BY <1>1, <1>2, TypeCorrect, PTL DEF Spec
(* What the projection rows say is so, for any number of turns, runtimes   *)
(* and faults (projections.py, projection_store.py).                       *)
THEOREM WorkStaysAccounted == Spec => []WorkIsAccounted
  <1>1. TypeOK /\ CommittedIsApplied /\ MemoriesDistinct /\ RunningIsHeld
          => WorkIsAccounted
    BY DEF WorkIsAccounted
  <1> QED BY <1>1, TypeCorrect, CommittedWork, NothingSaidTwice, RunsAreHeld, PTL

(* What was projected stands (upsert_episode behind the epoch fence, the   *)
(* compare-and-set of _advance).                                           *)
THEOREM HistoryIsKept == Spec => HistoryStands
  <1> QED BY EpisodeGrows, FinalStays, PTL DEF HistoryStands

=============================================================================
