------------------------------ MODULE Learning ------------------------------
(***************************************************************************)
(* Learning evidence and the learner-state projection                      *)
(* (learning/store.py, learning/teaching_evidence.py and the calls of      *)
(* runtime/controller.py into them).                                       *)
(*                                                                         *)
(* Two routes bring evidence in.  The silent route analyses a user turn:   *)
(* one artifact row, then one commit of an evidence group, then a rebuild  *)
(* of the projection row of the target that was observed.  The teaching    *)
(* route writes an opportunity and a PENDING proposal, commits the group   *)
(* in a second transaction and settles the proposal in a third; whatever   *)
(* a dead process leaves PENDING is retried by the next process's startup. *)
(* Every write is fenced by the runtime epoch.  A claim may be superseded  *)
(* or invalidated; every change of the claims bumps one watermark, and a   *)
(* snapshot is served only when every projection row carries it.           *)
(***************************************************************************)
EXTENDS Naturals, Sequences, FiniteSets

CONSTANTS
  Turns,           \* user turns the silent route analyses
  Attempts,        \* teaching attempts
  Targets,         \* learning targets (type and id)
  Capability,      \* the target an alternative success is credited to
  MaxEpoch,        \* bound: processes started on one database
  MaxClaims,       \* bound: claim rows
  NoTarget

VARIABLES
  epoch,           \* runtime_epoch: the newest process
  flow,            \* what each process is in the middle of
  ready,           \* processes whose startup retry is over
  artifact,        \* analysis_artifact per turn
  claims,          \* evidence_claim rows, in the order of insertion
  commitAt,        \* evidence_commit.watermark_after per group, 0 = none
  watermark,       \* evidence_watermark
  row,             \* learner_target_state per target, wm = 0 = no row
  proposal,        \* teaching_evidence_proposal per attempt
  opportunity,     \* attempts with their learning_opportunity_record
  cycle,           \* the snapshot a planner cycle was decided on
  lost             \* targets whose silent rebuild died with its process

vars == <<epoch, flow, ready, artifact, claims, commitAt, watermark, row,
          proposal, opportunity, cycle, lost>>

Epochs == 1..MaxEpoch
Silent(t) == <<"silent", t>>
Taught(a) == <<"taught", a>>
Groups == {Silent(t) : t \in Turns} \cup {Taught(a) : a \in Attempts}
Kinds == {"ok", "alternative", "invalid", "integrity"}
Verdicts == {"none", "COMMITTED", "REJECTED", "PENDING"}
NoRow == [wm |-> 0, of |-> {}]
Down == [at |-> "down"]
Idle == [at |-> "idle"]

Flows ==
  {Down, Idle}
    \cup [at : {"commit"}, turn : Turns, target : Targets \cup {NoTarget}]
    \cup [at : {"rebuild"}, target : Targets]
    \cup [at : {"propose"}, attempt : Attempts]
    \cup [at : {"group", "settle"}, attempt : Attempts, verdict : Verdicts,
          todo : SUBSET Attempts]
    \cup [at : {"retry"}, todo : SUBSET Attempts]
    \cup [at : {"repair"}, todo : SUBSET Targets]

TypeOK ==
  /\ epoch \in 0..MaxEpoch
  /\ \A e \in Epochs : flow[e] \in Flows
  /\ ready \subseteq Epochs
  /\ artifact \in [Turns -> [status : {"none", "PRODUCED", "COMMITTED", "REJECTED"},
                             target : Targets \cup {NoTarget}]]
  /\ \A i \in DOMAIN claims :
       claims[i] \in [group : Groups, target : Targets, sup : 0..MaxClaims,
                      status : {"ACTIVE", "SUPERSEDED", "INVALIDATED"}]
  /\ commitAt \in [Groups -> 0..watermark]
  /\ \A T \in Targets : row[T].wm <= watermark /\ row[T].of \subseteq DOMAIN claims
  /\ proposal \in [Attempts -> [status : {"none", "PENDING", "COMMITTED", "REJECTED"},
                                kind : Kinds, target : Targets \cup {NoTarget},
                                by : 0..MaxEpoch]]
  /\ opportunity \subseteq Attempts
  /\ lost \subseteq Targets

Init ==
  /\ epoch = 0
  /\ flow = [e \in Epochs |-> Down]
  /\ ready = {}
  /\ artifact = [t \in Turns |-> [status |-> "none", target |-> NoTarget]]
  /\ claims = <<>>
  /\ commitAt = [g \in Groups |-> 0]
  /\ watermark = 0
  /\ row = [T \in Targets |-> NoRow]
  /\ proposal = [a \in Attempts |-> [status |-> "none", kind |-> "ok",
                                  target |-> NoTarget, by |-> 0]]
  /\ opportunity = {}
  /\ cycle = [wm |-> 0, view |-> <<>>]
  /\ lost = {}

(***************************************************************************)
(* Claims, watermark, projection                                           *)
(***************************************************************************)
Active(cs, T) ==
  {i \in DOMAIN cs : cs[i].target = T /\ cs[i].status = "ACTIVE"}

Claim(g, T, sup) == [group |-> g, target |-> T, sup |-> sup, status |-> "ACTIVE"]

\* Faulty variant: the rebuild estimates over every claim, not the ACTIVE ones.
RebuiltFromEveryClaim(T) ==
  IF \E i \in DOMAIN claims : claims[i].target = T
  THEN [wm |-> watermark, of |-> {i \in DOMAIN claims : claims[i].target = T}]
  ELSE NoRow

\* The row a rebuild leaves: the target's ACTIVE claims at the watermark of
\* the same transaction; no row for a target that has no claim at all.
Rebuilt(T) ==
  IF \E i \in DOMAIN claims : claims[i].target = T
  THEN [wm |-> watermark, of |-> Active(claims, T)]
  ELSE NoRow

\* Faulty variant: a claim already superseded can be corrected again.
AnyClaim(i) == i \in DOMAIN claims

\* Only an ACTIVE claim can be corrected.
Correctable(i) == i \in DOMAIN claims /\ claims[i].status = "ACTIVE"

StaleRows == {T \in Targets : row[T].wm # 0 /\ row[T].wm # watermark}

Present == {T \in Targets : row[T].wm # 0}

(***************************************************************************)
(* The epoch fence                                                         *)
(***************************************************************************)
Current(e) == e = epoch

\* StaleStoreEpochError: the old process's write raises and its flow ends
\* with nothing written.
Refused(e) ==
  /\ ~Current(e)
  /\ flow[e].at \notin {"down", "idle"}
  /\ flow' = [flow EXCEPT ![e] = Idle]
  /\ lost' = IF flow[e].at = "rebuild" THEN lost \cup {flow[e].target} ELSE lost
  /\ UNCHANGED <<epoch, ready, artifact, claims, commitAt, watermark, row, proposal,
                 opportunity, cycle>>

Start ==
  /\ epoch < MaxEpoch
  /\ epoch' = epoch + 1
  /\ flow' = [flow EXCEPT ![epoch + 1] =
                [at |-> "retry", todo |-> {a \in Attempts : proposal[a].status = "PENDING"}]]
  /\ UNCHANGED <<ready, artifact, claims, commitAt, watermark, row, proposal,
                 opportunity, cycle, lost>>

Die(e) ==
  /\ flow[e].at # "down"
  /\ flow' = [flow EXCEPT ![e] = Down]
  /\ lost' = IF flow[e].at = "rebuild" THEN lost \cup {flow[e].target} ELSE lost
  /\ UNCHANGED <<epoch, ready, artifact, claims, commitAt, watermark, row, proposal,
                 opportunity, cycle>>

(***************************************************************************)
(* The silent route                                                        *)
(***************************************************************************)
\* record_learning_analysis: the artifact row.
Produced(t, T) == [artifact EXCEPT ![t] = [status |-> "PRODUCED", target |-> T]]

\* _silent_claim_for_proposal: the claim of the resolved target, if any.
SilentClaims(t, T) == IF T = NoTarget THEN <<>> ELSE <<Claim(Silent(t), T, 0)>>

\* _run_learning_analysis runs once, in the turn's own analysis step; the
\* target is dropped when nothing was resolved, when the observation is not
\* admitted, or when the target is under teaching.
RecordAnalysis(e, t, T) ==
  /\ Current(e) /\ flow[e] = Idle /\ e \in ready
  /\ artifact[t].status = "none"
  /\ artifact' = Produced(t, T)
  /\ flow' = [flow EXCEPT ![e] = [at |-> "commit", turn |-> t, target |-> T]]
  /\ UNCHANGED <<epoch, ready, claims, commitAt, watermark, row, proposal, opportunity,
                 cycle, lost>>

\* commit_learning_evidence: a refused proposal (an utterance that is not
\* observable, or another hash or target than the turn's) is REJECTED with
\* the error; otherwise group, claim, watermark, commit and artifact in one transaction.
CommitAnalysis(e, refused) ==
  /\ Current(e) /\ flow[e].at = "commit"
  /\ LET t == flow[e].turn
         T == artifact[t].target
     IN IF refused
        THEN /\ artifact' = [artifact EXCEPT ![t].status = "REJECTED"]
             /\ flow' = [flow EXCEPT ![e] = Idle]
             /\ UNCHANGED <<claims, commitAt, watermark>>
        ELSE /\ Len(claims) < MaxClaims
             /\ artifact' = [artifact EXCEPT ![t].status = "COMMITTED"]
             /\ claims' = claims \o SilentClaims(t, T)
             /\ watermark' = watermark + 1
             /\ commitAt' = [commitAt EXCEPT ![Silent(t)] = watermark + 1]
             /\ flow' = [flow EXCEPT ![e] =
                           IF T = NoTarget THEN Idle ELSE [at |-> "rebuild", target |-> T]]
  /\ UNCHANGED <<epoch, ready, row, proposal, opportunity, cycle, lost>>

\* Faulty variant: the turn does not rebuild the row it brought evidence for.
SkipRebuild(e) ==
  /\ Current(e) /\ flow[e].at = "rebuild"
  /\ flow' = [flow EXCEPT ![e] = Idle]
  /\ UNCHANGED <<epoch, ready, artifact, claims, commitAt, watermark, row, proposal,
                 opportunity, cycle, lost>>

RebuildSilentTarget(e) ==
  /\ Current(e) /\ flow[e].at = "rebuild"
  /\ row' = [row EXCEPT ![flow[e].target] = Rebuilt(flow[e].target)]
  /\ flow' = [flow EXCEPT ![e] = Idle]
  /\ UNCHANGED <<epoch, ready, artifact, claims, commitAt, watermark, proposal,
                 opportunity, cycle, lost>>

(***************************************************************************)
(* The teaching route                                                      *)
(***************************************************************************)
\* The claims an attempt's outcome turns into: an alternative success credits
\* the capability and leaves a neutral claim on the focus target.
TeachingClaims(a) ==
  LET T == proposal[a].target
      focus == Claim(Taught(a), T, 0)
  IN IF proposal[a].kind = "alternative" /\ T # Capability
     THEN <<Claim(Taught(a), Capability, 0), focus>>
     ELSE <<focus>>

\* _commit_attempt_evidence: the opportunity first, then the proposal.
RecordOpportunity(e, a) ==
  /\ Current(e) /\ flow[e] = Idle /\ e \in ready
  /\ a \notin opportunity
  /\ opportunity' = opportunity \cup {a}
  /\ flow' = [flow EXCEPT ![e] = [at |-> "propose", attempt |-> a]]
  /\ UNCHANGED <<epoch, ready, artifact, claims, commitAt, watermark, row, proposal,
                 cycle, lost>>

\* An outcome that proves nothing makes no proposal.
ProposeNothing(e) ==
  /\ flow[e].at = "propose"
  /\ flow' = [flow EXCEPT ![e] = Idle]
  /\ UNCHANGED <<epoch, ready, artifact, claims, commitAt, watermark, row, proposal,
                 opportunity, cycle, lost>>

\* record_teaching_evidence_proposal
RecordProposal(e, kind, T) ==
  /\ Current(e) /\ flow[e].at = "propose"
  /\ LET a == flow[e].attempt
     IN /\ proposal[a].status = "none"
        /\ proposal' = [proposal EXCEPT ![a] = [status |-> "PENDING", kind |-> kind,
                                                 target |-> T, by |-> e]]
        /\ flow' = [flow EXCEPT ![e] =
                      [at |-> "group", attempt |-> a, verdict |-> "none", todo |-> {}]]
  /\ UNCHANGED <<epoch, ready, artifact, claims, commitAt, watermark, row, opportunity,
                 cycle, lost>>

\* Faulty variant: the group is inserted again when its commit is there.
AlwaysNew(a) == FALSE

\* The replay test of commit_evidence_group.
AlreadyCommitted(a) == commitAt[Taught(a)] # 0

\* _claim_refusal, _opportunity_link_refusal: a claim whose columns or whose
\* opportunity do not fit.
ClaimRefused(a) == proposal[a].kind = "invalid"

\* commit_evidence_group: a commit that is there is replayed; a refused claim
\* or a broken row writes nothing; otherwise one transaction.
CommitGroup(e) ==
  /\ Current(e) /\ flow[e].at = "group"
  /\ LET a == flow[e].attempt
         Verdict(v) == flow' = [flow EXCEPT ![e].at = "settle", ![e].verdict = v]
     IN \/ /\ AlreadyCommitted(a)
           /\ Verdict("COMMITTED")
           /\ UNCHANGED <<claims, commitAt, watermark>>
        \/ /\ ~AlreadyCommitted(a)
           /\ ClaimRefused(a) \/ proposal[a].kind = "integrity"
           /\ Verdict(IF ClaimRefused(a) THEN "REJECTED" ELSE "PENDING")
           /\ UNCHANGED <<claims, commitAt, watermark>>
        \/ /\ ~AlreadyCommitted(a)
           /\ proposal[a].kind \in {"ok", "alternative"}
           /\ Len(claims) + 2 <= MaxClaims
           /\ claims' = claims \o TeachingClaims(a)
           /\ watermark' = watermark + 1
           /\ commitAt' = [commitAt EXCEPT ![Taught(a)] = watermark + 1]
           /\ Verdict("COMMITTED")
  /\ UNCHANGED <<epoch, ready, artifact, row, proposal, opportunity, cycle, lost>>

\* Faulty variant: any error of the commit rejects the proposal.
SettledStrictly(v) == IF v = "COMMITTED" THEN v ELSE "REJECTED"

\* What the settling transaction writes: an error that is not a validation
\* failure leaves the proposal PENDING.
Settled(v) == v

\* _settle_proposal: a transaction of its own, only on a PENDING row.
Settle(e) ==
  /\ Current(e) /\ flow[e].at = "settle"
  /\ LET a == flow[e].attempt
     IN proposal' = IF proposal[a].status = "PENDING"
                    THEN [proposal EXCEPT ![a].status = Settled(flow[e].verdict)]
                    ELSE proposal
  /\ flow' = [flow EXCEPT ![e] =
                IF e \in ready THEN Idle ELSE [at |-> "retry", todo |-> flow[e].todo]]
  /\ UNCHANGED <<epoch, ready, artifact, claims, commitAt, watermark, row, opportunity,
                 cycle, lost>>

\* Faulty variant: startup serves turns without retrying.
NothingToRetry(todo) == {}

ToRetry(todo) == todo

\* _retry_pending_evidence: every proposal that was PENDING at startup, one
\* after the other, before the process serves turns.
RetryNext(e) ==
  /\ Current(e) /\ flow[e].at = "retry"
  /\ IF ToRetry(flow[e].todo) = {}
     THEN /\ flow' = [flow EXCEPT ![e] = Idle]
          /\ ready' = ready \cup {e}
     ELSE /\ \E a \in flow[e].todo :
               flow' = [flow EXCEPT ![e] = [at |-> "group", attempt |-> a,
                                            verdict |-> "none",
                                            todo |-> flow[e].todo \ {a}]]
          /\ UNCHANGED ready
  /\ UNCHANGED <<epoch, artifact, claims, commitAt, watermark, row, proposal, opportunity,
                 cycle, lost>>

(***************************************************************************)
(* Corrections                                                             *)
(***************************************************************************)
BumpWatermark == watermark' = watermark + 1

Supersede(e, i) ==
  /\ Current(e) /\ flow[e] = Idle /\ e \in ready
  /\ Correctable(i) /\ Len(claims) < MaxClaims
  /\ claims' = Append([claims EXCEPT ![i].status = "SUPERSEDED"],
                      Claim(claims[i].group, claims[i].target, i))
  /\ BumpWatermark
  /\ UNCHANGED <<epoch, flow, ready, artifact, commitAt, row, proposal, opportunity,
                 cycle, lost>>

Invalidate(e, i) ==
  /\ Current(e) /\ flow[e] = Idle /\ e \in ready
  /\ Correctable(i)
  /\ claims' = [claims EXCEPT ![i].status = "INVALIDATED"]
  /\ BumpWatermark
  /\ UNCHANGED <<epoch, flow, ready, artifact, commitAt, row, proposal, opportunity,
                 cycle, lost>>

(***************************************************************************)
(* Reading                                                                 *)
(***************************************************************************)
\* get_learning_snapshot answers CONFLICT while a row is stale;
\* _snapshot_with_repair then rebuilds the stale rows one by one.
BeginRepair(e) ==
  /\ Current(e) /\ flow[e] = Idle /\ e \in ready
  /\ StaleRows # {}
  /\ flow' = [flow EXCEPT ![e] = [at |-> "repair", todo |-> StaleRows]]
  /\ UNCHANGED <<epoch, ready, artifact, claims, commitAt, watermark, row, proposal,
                 opportunity, cycle, lost>>

RepairNext(e, T) ==
  /\ Current(e) /\ flow[e].at = "repair" /\ T \in flow[e].todo
  /\ row' = [row EXCEPT ![T] = Rebuilt(T)]
  /\ flow' = [flow EXCEPT ![e] = IF flow[e].todo = {T} THEN Idle
                                 ELSE [@ EXCEPT !.todo = flow[e].todo \ {T}]]
  /\ UNCHANGED <<epoch, ready, artifact, claims, commitAt, watermark, proposal,
                 opportunity, cycle, lost>>

SnapshotOk == Present # {} /\ StaleRows = {}

\* A planner cycle binds the snapshot and its watermark.  Reads are not
\* fenced: an old process may take it too.
TakeSnapshot(e) ==
  /\ flow[e] = Idle /\ e \in ready
  /\ SnapshotOk
  /\ cycle' = [wm |-> watermark, view |-> [T \in Present |-> row[T].of]]
  /\ UNCHANGED <<epoch, flow, ready, artifact, claims, commitAt, watermark, row, proposal,
                 opportunity, lost>>

\* Faulty variant: the status check skips the watermark comparison.
AlwaysValid == StaleRows = {} /\ cycle.wm # 0

\* _snapshot_status: a cycle is VALID while the evidence it was decided on
\* is the evidence of a fresh snapshot.
SnapshotValid == StaleRows = {} /\ cycle.wm # 0 /\ cycle.wm = watermark

Next ==
  \/ Start
  \/ \E e \in Epochs :
       \/ Die(e) \/ Refused(e) \/ RebuildSilentTarget(e) \/ ProposeNothing(e)
       \/ CommitGroup(e) \/ Settle(e) \/ RetryNext(e) \/ BeginRepair(e) \/ TakeSnapshot(e)
       \/ \E t \in Turns, T \in Targets \cup {NoTarget} : RecordAnalysis(e, t, T)
       \/ \E refused \in BOOLEAN : CommitAnalysis(e, refused)
       \/ \E a \in Attempts : RecordOpportunity(e, a)
       \/ \E T \in Targets :
            \/ RepairNext(e, T)
            \/ \E kind \in Kinds : RecordProposal(e, kind, T)
       \/ \E i \in DOMAIN claims : Supersede(e, i) \/ Invalidate(e, i)

Spec == Init /\ [][Next]_vars

(***************************************************************************)
(* Properties                                                              *)
(***************************************************************************)
\* A projection row that carries the current watermark was estimated from
\* exactly the claims of its target that are ACTIVE now: no order of commits,
\* corrections and rebuilds by two processes makes a row look fresh and be
\* wrong (the test get_learning_snapshot and the repair rely on).
FreshRowsExact ==
  \A T \in Targets :
    row[T].wm # 0 /\ row[T].wm = watermark => row[T].of = Active(claims, T)

\* A planner cycle that _snapshot_status calls VALID was decided on the
\* evidence that stands now, also when commits, corrections and rebuilds
\* happened between the two reads.
ValidCyclesAreCurrent ==
  SnapshotValid =>
    \A T \in DOMAIN cycle.view : cycle.view[T] = Active(claims, T)

\* A proposal or an artifact settled COMMITTED has its commit, a REJECTED one
\* has none, and a group's claims are inserted once however often the commit
\* is retried after a death between the group and its settlement.
SettledAsCommitted ==
  /\ \A a \in Attempts :
       /\ proposal[a].status = "COMMITTED" => commitAt[Taught(a)] # 0
       /\ proposal[a].status = "REJECTED" => commitAt[Taught(a)] = 0
       /\ Cardinality({i \in DOMAIN claims : claims[i].group = Taught(a) /\ claims[i].sup = 0})
            = IF commitAt[Taught(a)] = 0 THEN 0 ELSE Len(TeachingClaims(a))
  /\ \A t \in Turns : (artifact[t].status = "COMMITTED") <=> (commitAt[Silent(t)] # 0)

\* Once the newest process serves turns, no teaching evidence that an older
\* process left behind is still PENDING, except what the database refuses
\* outright: nothing a dead or superseded process did is forgotten, and a
\* superseded process cannot add more.
StartupSettlesOldEvidence ==
  epoch \in ready =>
    \A a \in Attempts :
      proposal[a].status = "PENDING" /\ proposal[a].by # epoch
        => proposal[a].kind = "integrity"

\* Only an error of the data itself discards evidence: a proposal is REJECTED
\* only when its claims were refused.
OnlyRefusedIsRejected ==
  \A a \in Attempts : proposal[a].status = "REJECTED" => proposal[a].kind = "invalid"

\* Corrections form chains: a superseded claim has one successor, with its
\* group and target, and a claim that still counts or was invalidated has
\* none; so an origin counts at most once in an estimate.
CorrectionsFormChains ==
  \A i \in DOMAIN claims :
    LET next == {j \in DOMAIN claims : claims[j].sup = i}
    IN /\ Cardinality(next) = IF claims[i].status = "SUPERSEDED" THEN 1 ELSE 0
       /\ \A j \in next : j > i /\ claims[j].group = claims[i].group
                              /\ claims[j].target = claims[i].target

\* Silent evidence reaches the projection: a target without a row although a
\* turn brought evidence for it has a process about to rebuild it, or lost
\* that process between the commit and the rebuild.
SilentEvidenceIsProjected ==
  \A i \in DOMAIN claims :
    claims[i].group[1] = "silent" /\ row[claims[i].target].wm = 0 =>
      \/ claims[i].target \in lost
      \/ \E e \in Epochs : flow[e] = [at |-> "rebuild", target |-> claims[i].target]
=============================================================================
