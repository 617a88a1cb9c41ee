---------------------------- MODULE LearnerProofs ----------------------------
(***************************************************************************)
(* Proofs about the learner's side of the runtime (MCLearner): the         *)
(* learning evidence, the planning ledger, the teaching gate, the review   *)
(* schedule, the automatic openings and the planner.  Each part has its    *)
(* inductive invariant, the lemmas on the steps of its component and one   *)
(* theorem of the whole specification.                                     *)
(***************************************************************************)
EXTENDS MCLearner, TLAPS, FiniteSetTheorems

(***************************************************************************)
(* Learning evidence                                                       *)
(***************************************************************************)
\* The forms of what a process is in the middle of.
FlowShaped(f) ==
  \/ f = Evidence!Down \/ f = Evidence!Idle
  \/ \E t \in Turns, T \in Targets \cup {NoTarget} : f = [at |-> "commit", turn |-> t, target |-> T]
  \/ \E T \in Targets : f = [at |-> "rebuild", target |-> T]
  \/ \E a \in Attempts : f = [at |-> "propose", attempt |-> a]
  \/ \E step \in {"group", "settle"}, a \in Attempts, v \in Evidence!Verdicts,
        rest \in SUBSET Attempts :
       f = [at |-> step, attempt |-> a, verdict |-> v, todo |-> rest]
  \/ \E rest \in SUBSET Attempts : f = [at |-> "retry", todo |-> rest]
  \/ \E rest \in SUBSET Targets : f = [at |-> "repair", todo |-> rest]

FlowsTyped ==
  /\ flow = [e \in Evidence!Epochs |-> flow[e]]
  /\ \A e \in Evidence!Epochs : FlowShaped(flow[e])

\* A process that has not started does nothing.
EpochsTyped ==
  /\ epoch \in 0..MaxEpoch /\ ready \subseteq 1..epoch
  /\ \A e \in Evidence!Epochs : e > epoch => flow[e] = Evidence!Down
  /\ opportunity \subseteq Attempts /\ lost \subseteq Targets

ArtifactsTyped ==
  /\ artifact = [t \in Turns |-> artifact[t]]
  /\ \A t \in Turns :
       /\ artifact[t] = [status |-> artifact[t].status, target |-> artifact[t].target]
       /\ artifact[t].status \in {"none", "PRODUCED", "COMMITTED", "REJECTED"}
       /\ artifact[t].target \in Targets \cup {NoTarget}

\* What was proposed names a target and the process that proposed it.
ProposalsTyped ==
  /\ proposal = [a \in Attempts |-> proposal[a]]
  /\ \A a \in Attempts :
       /\ proposal[a] = [status |-> proposal[a].status, kind |-> proposal[a].kind,
                         target |-> proposal[a].target, by |-> proposal[a].by]
       /\ proposal[a].status \in {"none", "PENDING", "COMMITTED", "REJECTED"}
       /\ proposal[a].kind \in Evidence!Kinds
       /\ proposal[a].target \in Targets \cup {NoTarget}
       /\ proposal[a].status # "none" => proposal[a].target \in Targets
       /\ proposal[a].by \in 0..MaxEpoch

ClaimForms ==
  [group : Evidence!Groups, target : Targets, sup : 0..MaxClaims,
   status : {"ACTIVE", "SUPERSEDED", "INVALIDATED"}]

ClaimShaped(c) ==
  /\ c = [group |-> c.group, target |-> c.target, sup |-> c.sup, status |-> c.status]
  /\ c.group \in Evidence!Groups /\ c.target \in Targets /\ c.sup \in 0..MaxClaims
  /\ c.status \in {"ACTIVE", "SUPERSEDED", "INVALIDATED"}

ClaimsTyped == claims \in Seq(ClaimForms) /\ Len(claims) <= MaxClaims

\* Claims come with a commit, and a commit with a watermark.
MarksTyped ==
  /\ watermark \in Nat /\ (Len(claims) > 0 => watermark # 0)
  /\ commitAt = [g \in Evidence!Groups |-> commitAt[g]]
  /\ \A g \in Evidence!Groups : commitAt[g] \in 0..watermark

StatesTyped ==
  /\ row = [T \in Targets |-> row[T]]
  /\ \A T \in Targets : row[T].wm \in 0..watermark /\ row[T].of \subseteq DOMAIN claims

EvidenceTyped ==
  /\ FlowsTyped /\ EpochsTyped /\ ArtifactsTyped /\ ProposalsTyped /\ ClaimsTyped
  /\ MarksTyped /\ StatesTyped

LEMMA FlowForms ==
  ASSUME NEW f, FlowShaped(f)
  PROVE  /\ f.at \in {"down", "idle", "commit", "rebuild", "propose", "group", "settle", "retry", "repair"}
         /\ f.at = "down" => f = Evidence!Down
         /\ f.at = "idle" => f = Evidence!Idle
         /\ f.at = "commit" => /\ f = [at |-> "commit", turn |-> f.turn, target |-> f.target]
                               /\ f.turn \in Turns /\ f.target \in Targets \cup {NoTarget}
         /\ f.at = "rebuild" => f = [at |-> "rebuild", target |-> f.target] /\ f.target \in Targets
         /\ f.at = "propose" => f = [at |-> "propose", attempt |-> f.attempt] /\ f.attempt \in Attempts
         /\ f.at \in {"group", "settle"} =>
              /\ f = [at |-> f.at, attempt |-> f.attempt, verdict |-> f.verdict, todo |-> f.todo]
              /\ f.attempt \in Attempts /\ f.todo \subseteq Attempts
              /\ f.verdict \in Evidence!Verdicts
         /\ f.at = "retry" => f = [at |-> "retry", todo |-> f.todo] /\ f.todo \subseteq Attempts
         /\ f.at = "repair" => f = [at |-> "repair", todo |-> f.todo] /\ f.todo \subseteq Targets
<1>1. CASE f = Evidence!Down \/ f = Evidence!Idle
  BY <1>1 DEF Evidence!Down, Evidence!Idle
<1>2. CASE \E t \in Turns, T \in Targets \cup {NoTarget} : f = [at |-> "commit", turn |-> t, target |-> T]
  BY <1>2
<1>3. CASE \E T \in Targets : f = [at |-> "rebuild", target |-> T]
  BY <1>3
<1>4. CASE \E a \in Attempts : f = [at |-> "propose", attempt |-> a]
  BY <1>4
<1>5. CASE \E step \in {"group", "settle"}, a \in Attempts, v \in Evidence!Verdicts,
              rest \in SUBSET Attempts :
             f = [at |-> step, attempt |-> a, verdict |-> v, todo |-> rest]
  BY <1>5
<1>6. CASE \E rest \in SUBSET Attempts : f = [at |-> "retry", todo |-> rest]
  BY <1>6
<1>7. CASE \E rest \in SUBSET Targets : f = [at |-> "repair", todo |-> rest]
  BY <1>7
<1> QED BY <1>1, <1>2, <1>3, <1>4, <1>5, <1>6, <1>7 DEF FlowShaped

LEMMA ClaimsShaped == \A c : ClaimShaped(c) <=> c \in ClaimForms
  BY DEF ClaimShaped, ClaimForms

LEMMA FlowSteps ==
  ASSUME FlowsTyped, NEW e \in Evidence!Epochs, NEW f, FlowShaped(f), flow' = [flow EXCEPT ![e] = f]
  PROVE  /\ FlowsTyped' /\ flow'[e] = f
         /\ \A d \in Evidence!Epochs : d # e => flow'[d] = flow[d]
  BY DEF FlowsTyped

\* The typed forms are the ones the module's type invariant states.
LEMMA EvidenceTypes == EvidenceTyped => Evidence!TypeOK
<1> SUFFICES ASSUME EvidenceTyped PROVE Evidence!TypeOK
  OBVIOUS
<1>1. epoch \in 0..MaxEpoch /\ ready \subseteq Evidence!Epochs /\ opportunity \subseteq Attempts /\ lost \subseteq Targets
  BY EvidenceAssumption DEF EvidenceTyped, EpochsTyped, Evidence!Epochs
<1>2. ASSUME NEW e \in Evidence!Epochs PROVE flow[e] \in Evidence!Flows
  <2>1. FlowShaped(flow[e])
    BY DEF EvidenceTyped, FlowsTyped
  <2>2. CASE \E step \in {"group", "settle"}, a \in Attempts,
                 v \in Evidence!Verdicts, rest \in SUBSET Attempts :
               flow[e] = [at |-> step, attempt |-> a, verdict |-> v, todo |-> rest]
    <3>1. PICK step \in {"group", "settle"}, a \in Attempts,
               v \in Evidence!Verdicts, rest \in SUBSET Attempts :
            flow[e] = [at |-> step, attempt |-> a, verdict |-> v, todo |-> rest]
      BY <2>2
    <3>2. flow[e] \in [at : {"group", "settle"}, attempt : Attempts, verdict : Evidence!Verdicts,
                       todo : SUBSET Attempts]
      BY <3>1
    <3> QED BY <3>2 DEF Evidence!Flows
  <2>3. CASE flow[e] \in {Evidence!Down, Evidence!Idle}
    BY <2>3 DEF Evidence!Flows
  <2>4. CASE \E t \in Turns, T \in Targets \cup {NoTarget} :
               flow[e] = [at |-> "commit", turn |-> t, target |-> T]
    BY <2>4 DEF Evidence!Flows
  <2>5. CASE \E T \in Targets : flow[e] = [at |-> "rebuild", target |-> T]
    BY <2>5 DEF Evidence!Flows
  <2>6. CASE \E a \in Attempts : flow[e] = [at |-> "propose", attempt |-> a]
    BY <2>6 DEF Evidence!Flows
  <2>7. CASE \E rest \in SUBSET Attempts : flow[e] = [at |-> "retry", todo |-> rest]
    BY <2>7 DEF Evidence!Flows
  <2>8. CASE \E rest \in SUBSET Targets : flow[e] = [at |-> "repair", todo |-> rest]
    BY <2>8 DEF Evidence!Flows
  <2> QED BY <2>1, <2>2, <2>3, <2>4, <2>5, <2>6, <2>7, <2>8 DEF FlowShaped
<1>3. artifact \in [Turns -> [status : {"none", "PRODUCED", "COMMITTED", "REJECTED"},
                             target : Targets \cup {NoTarget}]]
  BY DEF EvidenceTyped, ArtifactsTyped
<1>4. ASSUME NEW i \in DOMAIN claims
      PROVE  claims[i] \in [group : Evidence!Groups, target : Targets, sup : 0..MaxClaims,
                            status : {"ACTIVE", "SUPERSEDED", "INVALIDATED"}]
  <2>1. claims[i] \in ClaimForms
    BY DEF EvidenceTyped, ClaimsTyped
  <2> QED BY <2>1 DEF ClaimForms
<1>5. commitAt \in [Evidence!Groups -> 0..watermark]
  BY DEF EvidenceTyped, MarksTyped
<1>6. \A T \in Targets : row[T].wm <= watermark /\ row[T].of \subseteq DOMAIN claims
  BY DEF EvidenceTyped, StatesTyped, MarksTyped
<1>7. proposal \in [Attempts -> [status : {"none", "PENDING", "COMMITTED", "REJECTED"},
                                kind : Evidence!Kinds, target : Targets \cup {NoTarget},
                                by : 0..MaxEpoch]]
  <2>1. \A a \in Attempts : proposal[a] \in [status : {"none", "PENDING", "COMMITTED", "REJECTED"},
                                kind : Evidence!Kinds, target : Targets \cup {NoTarget},
                                by : 0..MaxEpoch]
    BY DEF EvidenceTyped, ProposalsTyped
  <2> QED BY <2>1 DEF EvidenceTyped, ProposalsTyped
<1> QED BY <1>1, <1>2, <1>3, <1>4, <1>5, <1>6, <1>7 DEF Evidence!TypeOK

\* What a step does to the flow of its process, and what it leaves alone.
FlowMoves(e, f) ==
  /\ flow' = [flow EXCEPT ![e] = f] /\ FlowShaped(f)
  /\ epoch' = epoch /\ e <= epoch

EvidenceStays == UNCHANGED <<claims, commitAt, watermark, row, cycle>>

LEMMA FlowMoved ==
  ASSUME EvidenceTyped, NEW e \in Evidence!Epochs, NEW f, FlowMoves(e, f),
         ready' \subseteq 1..epoch, opportunity' \subseteq Attempts, lost' \subseteq Targets
  PROVE  /\ FlowsTyped' /\ EpochsTyped' /\ flow'[e] = f
         /\ \A d \in Evidence!Epochs : d # e => flow'[d] = flow[d]
<1>1. /\ FlowsTyped' /\ flow'[e] = f
      /\ \A d \in Evidence!Epochs : d # e => flow'[d] = flow[d]
  BY FlowSteps DEF FlowMoves, EvidenceTyped
<1>2. \A d \in Evidence!Epochs : d > epoch => d # e
  BY EvidenceAssumption DEF FlowMoves, EvidenceTyped, EpochsTyped, Evidence!Epochs
<1> QED BY <1>1, <1>2 DEF FlowMoves, EvidenceTyped, EpochsTyped

LEMMA StoresKept ==
  EvidenceTyped /\ UNCHANGED <<claims, commitAt, watermark, row>>
    => ClaimsTyped' /\ MarksTyped' /\ StatesTyped'
  BY DEF EvidenceTyped, ClaimsTyped, MarksTyped, StatesTyped

LEMMA StartTyped == ASSUME EvidenceTyped, Evidence!Start PROVE EvidenceTyped'
<1>1. /\ epoch + 1 \in Evidence!Epochs /\ epoch' = epoch + 1
      /\ flow' = [flow EXCEPT ![epoch + 1] =
                    [at |-> "retry", todo |-> {a \in Attempts : proposal[a].status = "PENDING"}]]
      /\ UNCHANGED <<ready, artifact, claims, commitAt, watermark, row, proposal, opportunity, lost>>
  BY EvidenceAssumption DEF Evidence!Start, EvidenceTyped, EpochsTyped, Evidence!Epochs
<1>2. FlowShaped([at |-> "retry", todo |-> {a \in Attempts : proposal[a].status = "PENDING"}])
  BY DEF FlowShaped
<1>3. FlowsTyped' /\ \A d \in Evidence!Epochs : d # epoch + 1 => flow'[d] = flow[d]
  BY <1>1, <1>2, FlowSteps DEF EvidenceTyped
<1>4. EpochsTyped'
  BY <1>1, <1>3, EvidenceAssumption DEF EvidenceTyped, EpochsTyped, Evidence!Epochs
<1> QED BY <1>1, <1>3, <1>4, StoresKept DEF EvidenceTyped, ArtifactsTyped, ProposalsTyped

\* The steps that write neither an artifact nor a proposal nor a claim.
LEMMA QuietTyped ==
  ASSUME EvidenceTyped, NEW e \in Evidence!Epochs, NEW f, FlowMoves(e, f),
         ready' \subseteq 1..epoch, opportunity' \subseteq Attempts, lost' \subseteq Targets,
         UNCHANGED <<artifact, proposal, claims, commitAt, watermark, row>>
  PROVE  EvidenceTyped'
<1>1. FlowsTyped' /\ EpochsTyped'
  BY FlowMoved
<1> QED BY <1>1, StoresKept DEF EvidenceTyped, ArtifactsTyped, ProposalsTyped

LEMMA EndedFlow ==
  ASSUME EvidenceTyped, NEW e \in Evidence!Epochs, Evidence!Die(e) \/ Evidence!Refused(e)
  PROVE  \E f \in {Evidence!Down, Evidence!Idle} :
           /\ FlowMoves(e, f) /\ UNCHANGED <<ready, opportunity, artifact, proposal>> /\ EvidenceStays
           /\ Evidence!Refused(e) => e # epoch
           /\ f = Evidence!Idle => Evidence!Refused(e)
           /\ lost' = IF flow[e].at = "rebuild" THEN lost \cup {flow[e].target} ELSE lost
           /\ lost' \subseteq Targets
<1>1. FlowShaped(Evidence!Down) /\ FlowShaped(Evidence!Idle)
  BY DEF FlowShaped
<1>2. flow[e].at = "rebuild" => flow[e].target \in Targets
  BY FlowForms DEF EvidenceTyped, FlowsTyped
<1>3. flow[e].at # "down"
  BY DEF Evidence!Die, Evidence!Refused
<1>4. e <= epoch
  BY <1>3 DEF EvidenceTyped, EpochsTyped, Evidence!Epochs, Evidence!Down
<1>5. CASE Evidence!Die(e)
  <2>1. (Evidence!Refused(e) => e # epoch) /\ Evidence!Down # Evidence!Idle
    BY DEF Evidence!Refused, Evidence!Current, Evidence!Down, Evidence!Idle
  <2>2. FlowMoves(e, Evidence!Down)
    BY <1>1, <1>4, <1>5 DEF Evidence!Die, FlowMoves
  <2> QED BY <1>2, <1>5, <2>1, <2>2 DEF Evidence!Die, EvidenceStays, EvidenceTyped, EpochsTyped
<1>6. CASE Evidence!Refused(e)
  BY <1>1, <1>2, <1>4, <1>6 DEF Evidence!Refused, Evidence!Current, FlowMoves, EvidenceStays, EvidenceTyped, EpochsTyped
<1> QED BY <1>5, <1>6

LEMMA RecordAnalysisDoes ==
  ASSUME EvidenceTyped, NEW e \in Evidence!Epochs, NEW t \in Turns, NEW T \in Targets \cup {NoTarget},
         Evidence!RecordAnalysis(e, t, T)
  PROVE  /\ EvidenceTyped' /\ FlowMoves(e, [at |-> "commit", turn |-> t, target |-> T])
         /\ e = epoch /\ e \in ready /\ flow[e] = Evidence!Idle
         /\ artifact[t].status = "none" /\ artifact'[t].status = "PRODUCED"
         /\ \A u \in Turns : u # t => artifact'[u] = artifact[u]
         /\ EvidenceStays /\ UNCHANGED <<ready, proposal, opportunity, lost>>
<1> DEFINE f == [at |-> "commit", turn |-> t, target |-> T]
<1>1. FlowShaped(f)
  BY DEF FlowShaped
<1> HIDE DEF f
<1>2. /\ FlowMoves(e, f) /\ e = epoch /\ e \in ready /\ flow[e] = Evidence!Idle
      /\ artifact[t].status = "none" /\ EvidenceStays /\ UNCHANGED <<ready, proposal, opportunity, lost>>
      /\ artifact' = [artifact EXCEPT ![t] = [status |-> "PRODUCED", target |-> T]]
  BY <1>1 DEF Evidence!RecordAnalysis, Evidence!Current, Evidence!Produced, FlowMoves, EvidenceStays,
              EvidenceTyped, EpochsTyped, f
<1>3. /\ artifact' = [u \in Turns |-> artifact'[u]]
      /\ artifact'[t] = [status |-> "PRODUCED", target |-> T]
      /\ \A u \in Turns : u # t => artifact'[u] = artifact[u]
  BY <1>2 DEF EvidenceTyped, ArtifactsTyped
<1>4. ArtifactsTyped'
  BY <1>3 DEF EvidenceTyped, ArtifactsTyped
<1>5. FlowsTyped' /\ EpochsTyped'
  BY <1>2, FlowMoved DEF EvidenceTyped, EpochsTyped
<1>6. ProposalsTyped' /\ ClaimsTyped' /\ MarksTyped' /\ StatesTyped'
  BY <1>2, StoresKept DEF EvidenceTyped, ProposalsTyped, EvidenceStays
<1>7. EvidenceTyped'
  BY <1>4, <1>5, <1>6 DEF EvidenceTyped
<1>8. artifact'[t].status = "PRODUCED"
  BY <1>3
<1> QED BY <1>2, <1>3, <1>7, <1>8 DEF f

LEMMA RebuildDoes ==
  ASSUME EvidenceTyped, NEW e \in Evidence!Epochs, NEW T \in Targets,
         row' = [row EXCEPT ![T] = Evidence!Rebuilt(T)], UNCHANGED <<claims, commitAt, watermark>>
  PROVE  /\ ClaimsTyped' /\ MarksTyped' /\ StatesTyped'
         /\ row'[T] = Evidence!Rebuilt(T) /\ \A U \in Targets : U # T => row'[U] = row[U]
<1>1. /\ row' = [U \in Targets |-> row'[U]] /\ row'[T] = Evidence!Rebuilt(T)
      /\ \A U \in Targets : U # T => row'[U] = row[U]
  BY DEF EvidenceTyped, StatesTyped
<1>2. Evidence!Rebuilt(T).wm \in 0..watermark /\ Evidence!Rebuilt(T).of \subseteq DOMAIN claims
  BY DEF Evidence!Rebuilt, Evidence!NoRow, Evidence!Active, EvidenceTyped, MarksTyped
<1>3. ClaimsTyped' /\ MarksTyped'
  BY DEF EvidenceTyped, ClaimsTyped, MarksTyped
<1>4. ASSUME NEW U \in Targets PROVE (row[U].wm \in 0..watermark /\ row[U].of \subseteq DOMAIN claims)'
  BY <1>1, <1>2 DEF EvidenceTyped, StatesTyped
<1>5. StatesTyped'
  BY <1>1, <1>4 DEF StatesTyped
<1> QED BY <1>1, <1>3, <1>5

LEMMA SilentRebuildDoes ==
  ASSUME EvidenceTyped, NEW e \in Evidence!Epochs, Evidence!RebuildSilentTarget(e)
  PROVE  /\ EvidenceTyped' /\ FlowMoves(e, Evidence!Idle) /\ e = epoch
         /\ flow[e] = [at |-> "rebuild", target |-> flow[e].target]
         /\ flow[e].target \in Targets
         /\ row' = [row EXCEPT ![flow[e].target] = Evidence!Rebuilt(flow[e].target)]
         /\ UNCHANGED <<claims, commitAt, watermark, cycle, ready, artifact, proposal, opportunity, lost>>
<1>1. /\ flow[e] = [at |-> "rebuild", target |-> flow[e].target] /\ flow[e].target \in Targets
  BY FlowForms DEF EvidenceTyped, FlowsTyped, Evidence!RebuildSilentTarget
<1>2. FlowShaped(Evidence!Idle)
  BY DEF FlowShaped
<1>3. /\ FlowMoves(e, Evidence!Idle) /\ e = epoch
      /\ row' = [row EXCEPT ![flow[e].target] = Evidence!Rebuilt(flow[e].target)]
      /\ UNCHANGED <<claims, commitAt, watermark, cycle, ready, artifact, proposal, opportunity, lost>>
  BY <1>2 DEF Evidence!RebuildSilentTarget, Evidence!Current, FlowMoves, EvidenceTyped, EpochsTyped
<1>4. FlowsTyped' /\ EpochsTyped'
  BY <1>3, FlowMoved DEF EvidenceTyped, EpochsTyped
<1>5. ClaimsTyped' /\ MarksTyped' /\ StatesTyped'
  BY <1>1, <1>3, RebuildDoes
<1>6. EvidenceTyped'
  BY <1>3, <1>4, <1>5 DEF EvidenceTyped, ArtifactsTyped, ProposalsTyped
<1> QED BY <1>1, <1>3, <1>6

LEMMA RepairDoes ==
  ASSUME EvidenceTyped, NEW e \in Evidence!Epochs, NEW T \in Targets, Evidence!RepairNext(e, T)
  PROVE  /\ EvidenceTyped' /\ e = epoch /\ flow[e].at = "repair"
         /\ \E f : FlowMoves(e, f) /\ f.at \in {"idle", "repair"}
         /\ row' = [row EXCEPT ![T] = Evidence!Rebuilt(T)]
         /\ UNCHANGED <<claims, commitAt, watermark, cycle, ready, artifact, proposal, opportunity, lost>>
<1> DEFINE f == IF flow[e].todo = {T} THEN Evidence!Idle
                ELSE [at |-> "repair", todo |-> flow[e].todo \ {T}]
<1>1. flow[e] = [at |-> "repair", todo |-> flow[e].todo] /\ flow[e].todo \subseteq Targets
  BY FlowForms DEF EvidenceTyped, FlowsTyped, Evidence!RepairNext
<1>2. FlowShaped(f) /\ f.at \in {"idle", "repair"}
  BY <1>1 DEF FlowShaped, Evidence!Idle
<1>3. [flow[e] EXCEPT !.todo = flow[e].todo \ {T}] = [at |-> "repair", todo |-> flow[e].todo \ {T}]
  BY <1>1
<1>4. flow' = [flow EXCEPT ![e] = IF flow[e].todo = {T} THEN Evidence!Idle
                                 ELSE [flow[e] EXCEPT !.todo = flow[e].todo \ {T}]]
  BY DEF Evidence!RepairNext, EvidenceTyped, FlowsTyped
<1>5. flow' = [flow EXCEPT ![e] = f]
  BY <1>3, <1>4
<1> HIDE DEF f
<1>6. /\ FlowMoves(e, f) /\ e = epoch
      /\ row' = [row EXCEPT ![T] = Evidence!Rebuilt(T)]
      /\ UNCHANGED <<claims, commitAt, watermark, cycle, ready, artifact, proposal, opportunity, lost>>
  <2>1. /\ e = epoch /\ row' = [row EXCEPT ![T] = Evidence!Rebuilt(T)]
        /\ UNCHANGED <<epoch, claims, commitAt, watermark, cycle, ready, artifact, proposal, opportunity, lost>>
    BY Zenon DEF Evidence!RepairNext, Evidence!Current
  <2> QED BY <1>2, <1>5, <2>1 DEF FlowMoves, EvidenceTyped, EpochsTyped
<1>7. FlowsTyped' /\ EpochsTyped'
  BY <1>6, FlowMoved DEF EvidenceTyped, EpochsTyped
<1>8. ClaimsTyped' /\ MarksTyped' /\ StatesTyped'
  BY <1>6, RebuildDoes
<1>9. EvidenceTyped'
  BY <1>6, <1>7, <1>8 DEF EvidenceTyped, ArtifactsTyped, ProposalsTyped
<1> QED BY <1>1, <1>2, <1>6, <1>9

LEMMA OpportunityDoes ==
  ASSUME EvidenceTyped, NEW e \in Evidence!Epochs, NEW a \in Attempts, Evidence!RecordOpportunity(e, a)
  PROVE  /\ EvidenceTyped' /\ FlowMoves(e, [at |-> "propose", attempt |-> a])
         /\ e = epoch /\ e \in ready /\ flow[e] = Evidence!Idle
         /\ EvidenceStays /\ UNCHANGED <<ready, artifact, proposal, lost>>
<1> DEFINE f == [at |-> "propose", attempt |-> a]
<1>1. FlowShaped(f)
  BY DEF FlowShaped
<1> HIDE DEF f
<1>2. /\ FlowMoves(e, f) /\ e = epoch /\ e \in ready /\ flow[e] = Evidence!Idle
      /\ EvidenceStays /\ UNCHANGED <<ready, artifact, proposal, lost>>
      /\ opportunity' \subseteq Attempts
  BY <1>1 DEF Evidence!RecordOpportunity, Evidence!Current, FlowMoves, EvidenceStays, EvidenceTyped, EpochsTyped, f
<1>3. EvidenceTyped'
  BY <1>2, QuietTyped DEF EvidenceTyped, EpochsTyped, EvidenceStays
<1> QED BY <1>2, <1>3 DEF f

LEMMA NothingProposedDoes ==
  ASSUME EvidenceTyped, NEW e \in Evidence!Epochs, Evidence!ProposeNothing(e)
  PROVE  /\ EvidenceTyped' /\ FlowMoves(e, Evidence!Idle) /\ flow[e].at = "propose"
         /\ EvidenceStays /\ UNCHANGED <<ready, artifact, proposal, opportunity, lost>>
<1>1. FlowShaped(Evidence!Idle)
  BY DEF FlowShaped
<1>2. e <= epoch
  BY DEF EvidenceTyped, EpochsTyped, Evidence!Epochs, Evidence!Down, Evidence!ProposeNothing
<1>3. /\ FlowMoves(e, Evidence!Idle) /\ flow[e].at = "propose" /\ EvidenceStays
      /\ UNCHANGED <<ready, artifact, proposal, opportunity, lost>>
  BY <1>1, <1>2 DEF Evidence!ProposeNothing, FlowMoves, EvidenceStays
<1>4. EvidenceTyped'
  BY <1>3, QuietTyped DEF EvidenceTyped, EpochsTyped, EvidenceStays
<1> QED BY <1>3, <1>4

LEMMA ProposalDoes ==
  ASSUME EvidenceTyped, NEW e \in Evidence!Epochs, NEW kind \in Evidence!Kinds, NEW T \in Targets,
         Evidence!RecordProposal(e, kind, T)
  PROVE  \E a \in Attempts :
         /\ EvidenceTyped' /\ e = epoch /\ flow[e] = [at |-> "propose", attempt |-> a]
         /\ FlowMoves(e, [at |-> "group", attempt |-> a, verdict |-> "none", todo |-> {}])
         /\ proposal[a].status = "none"
         /\ proposal'[a] = [status |-> "PENDING", kind |-> kind, target |-> T, by |-> e]
         /\ \A b \in Attempts : b # a => proposal'[b] = proposal[b]
         /\ EvidenceStays /\ UNCHANGED <<ready, artifact, opportunity, lost>>
<1> DEFINE a == flow[e].attempt
           f == [at |-> "group", attempt |-> a, verdict |-> "none", todo |-> {}]
           p == [status |-> "PENDING", kind |-> kind, target |-> T, by |-> e]
<1>1. flow[e] = [at |-> "propose", attempt |-> a] /\ a \in Attempts
  BY FlowForms DEF EvidenceTyped, FlowsTyped, Evidence!RecordProposal
<1>2. FlowShaped(f)
  BY <1>1 DEF FlowShaped, Evidence!Verdicts
<1>3. /\ e = epoch /\ proposal[a].status = "none" /\ EvidenceStays
      /\ flow' = [flow EXCEPT ![e] = f] /\ proposal' = [proposal EXCEPT ![a] = p]
      /\ UNCHANGED <<epoch, ready, artifact, opportunity, lost>>
  BY DEF Evidence!RecordProposal, Evidence!Current, EvidenceStays
<1>4. /\ p = [status |-> p.status, kind |-> p.kind, target |-> p.target, by |-> p.by]
      /\ p.status = "PENDING" /\ p.kind = kind /\ p.target = T /\ p.by = e
  OBVIOUS
<1> HIDE DEF a, f, p
<1>5. /\ proposal' = [b \in Attempts |-> proposal'[b]] /\ proposal'[a] = p
      /\ \A b \in Attempts : b # a => proposal'[b] = proposal[b]
  BY <1>1, <1>3 DEF EvidenceTyped, ProposalsTyped
<1>6. e \in 0..MaxEpoch
  BY EvidenceAssumption DEF Evidence!Epochs
<1>7. ProposalsTyped'
  <2>1. ASSUME NEW b \in Attempts
        PROVE  (/\ proposal[b] = [status |-> proposal[b].status, kind |-> proposal[b].kind,
                         target |-> proposal[b].target, by |-> proposal[b].by]
                /\ proposal[b].status \in {"none", "PENDING", "COMMITTED", "REJECTED"}
                /\ proposal[b].kind \in Evidence!Kinds
                /\ proposal[b].target \in Targets \cup {NoTarget}
                /\ proposal[b].status # "none" => proposal[b].target \in Targets
                /\ proposal[b].by \in 0..MaxEpoch)'
    <3>1. CASE b = a
      BY <1>4, <1>5, <1>6, <3>1
    <3>2. CASE b # a
      BY <1>5, <3>2 DEF EvidenceTyped, ProposalsTyped
    <3> QED BY <3>1, <3>2
  <2> QED BY <1>5, <2>1 DEF ProposalsTyped
<1>8. FlowMoves(e, f)
  BY <1>2, <1>3 DEF FlowMoves, EvidenceTyped, EpochsTyped
<1>9. FlowsTyped' /\ EpochsTyped'
  BY <1>3, <1>8, FlowMoved DEF EvidenceTyped, EpochsTyped
<1>10. EvidenceTyped'
  BY <1>3, <1>7, <1>9, StoresKept DEF EvidenceTyped, ArtifactsTyped, EvidenceStays
<1> QED BY <1>1, <1>3, <1>5, <1>8, <1>10 DEF a, f, p

LEMMA SettleDoes ==
  ASSUME EvidenceTyped, NEW e \in Evidence!Epochs, Evidence!Settle(e)
  PROVE  \E a \in Attempts :
         /\ EvidenceTyped' /\ e = epoch /\ flow[e].at = "settle" /\ flow[e].attempt = a
         /\ FlowMoves(e, IF e \in ready THEN Evidence!Idle ELSE [at |-> "retry", todo |-> flow[e].todo])
         /\ \A b \in Attempts :
              /\ proposal'[b].kind = proposal[b].kind /\ proposal'[b].by = proposal[b].by
              /\ proposal'[b].target = proposal[b].target
              /\ proposal'[b].status = IF b = a /\ proposal[b].status = "PENDING"
                                       THEN flow[e].verdict ELSE proposal[b].status
         /\ EvidenceStays /\ UNCHANGED <<ready, artifact, opportunity, lost>>
<1> DEFINE a == flow[e].attempt
           v == flow[e].verdict
           f == IF e \in ready THEN Evidence!Idle ELSE [at |-> "retry", todo |-> flow[e].todo]
<1>1. a \in Attempts /\ flow[e].todo \subseteq Attempts /\ v \in Evidence!Verdicts
  BY FlowForms DEF EvidenceTyped, FlowsTyped, Evidence!Settle
<1>2. FlowShaped(f)
  BY <1>1 DEF FlowShaped
<1>3. /\ e = epoch /\ EvidenceStays /\ flow[e].at = "settle"
      /\ flow' = [flow EXCEPT ![e] = f]
      /\ proposal' = IF proposal[a].status = "PENDING" THEN [proposal EXCEPT ![a].status = v] ELSE proposal
      /\ UNCHANGED <<epoch, ready, artifact, opportunity, lost>>
  BY DEF Evidence!Settle, Evidence!Current, Evidence!Settled, EvidenceStays
<1>4. \A b \in Attempts : proposal[b] = [status |-> proposal[b].status, kind |-> proposal[b].kind,
                                         target |-> proposal[b].target, by |-> proposal[b].by]
  BY DEF EvidenceTyped, ProposalsTyped
<1> HIDE DEF a, v, f
<1>5. /\ proposal' = [b \in Attempts |-> proposal'[b]]
      /\ \A b \in Attempts : b # a => proposal'[b] = proposal[b]
      /\ proposal'[a] = [proposal[a] EXCEPT !.status = IF proposal[a].status = "PENDING" THEN v ELSE proposal[a].status]
  BY <1>1, <1>3, <1>4 DEF EvidenceTyped, ProposalsTyped
<1>6. proposal'[a] = [status |-> IF proposal[a].status = "PENDING" THEN v ELSE proposal[a].status,
                      kind |-> proposal[a].kind, target |-> proposal[a].target, by |-> proposal[a].by]
  BY <1>1, <1>4, <1>5
<1>7. \A b \in Attempts :
        /\ proposal'[b] = [status |-> proposal'[b].status, kind |-> proposal[b].kind,
                           target |-> proposal[b].target, by |-> proposal[b].by]
        /\ proposal'[b].status = IF b = a /\ proposal[b].status = "PENDING" THEN v ELSE proposal[b].status
  <2> TAKE b \in Attempts
  <2>1. CASE b = a
    <3>1. proposal'[a].status = IF proposal[a].status = "PENDING" THEN v ELSE proposal[a].status
      BY <1>6
    <3> QED BY <1>6, <2>1, <3>1
  <2>2. CASE b # a
    <3>1. proposal'[b] = proposal[b]
      BY <1>5, <2>2
    <3> QED BY <1>4, <2>2, <3>1
  <2> QED BY <2>1, <2>2
<1>8. \A b \in Attempts :
        /\ proposal'[b].kind = proposal[b].kind /\ proposal'[b].by = proposal[b].by
        /\ proposal'[b].target = proposal[b].target
  <2> SUFFICES ASSUME NEW b \in Attempts
               PROVE  /\ proposal'[b].kind = proposal[b].kind /\ proposal'[b].by = proposal[b].by
                      /\ proposal'[b].target = proposal[b].target
    OBVIOUS
  <2>1. CASE b = a
    BY <1>6, <2>1
  <2>2. CASE b # a
    BY <1>5, <2>2
  <2> QED BY <2>1, <2>2
<1>9. ProposalsTyped'
  BY <1>1, <1>5, <1>7, <1>8 DEF EvidenceTyped, ProposalsTyped, Evidence!Verdicts
<1>10. FlowMoves(e, f)
  BY <1>2, <1>3 DEF FlowMoves, EvidenceTyped, EpochsTyped
<1>11. FlowsTyped' /\ EpochsTyped'
  BY <1>3, <1>10, FlowMoved DEF EvidenceTyped, EpochsTyped
<1>12. EvidenceTyped'
  BY <1>3, <1>9, <1>11, StoresKept DEF EvidenceTyped, ArtifactsTyped, EvidenceStays
<1> QED BY <1>1, <1>3, <1>7, <1>8, <1>10, <1>12 DEF a, v, f

LEMMA RetryDoes ==
  ASSUME EvidenceTyped, NEW e \in Evidence!Epochs, Evidence!RetryNext(e)
  PROVE  /\ EvidenceTyped' /\ e = epoch /\ flow[e].at = "retry"
         /\ \/ flow[e].todo = {} /\ FlowMoves(e, Evidence!Idle) /\ ready' = ready \cup {e}
            \/ \E a \in flow[e].todo :
                 /\ a \in Attempts /\ UNCHANGED ready
                 /\ FlowMoves(e, [at |-> "group", attempt |-> a, verdict |-> "none", todo |-> flow[e].todo \ {a}])
         /\ EvidenceStays /\ UNCHANGED <<artifact, proposal, opportunity, lost>>
<1>1. flow[e].todo \subseteq Attempts
  BY FlowForms DEF EvidenceTyped, FlowsTyped, Evidence!RetryNext
<1>2. /\ e = epoch /\ epoch' = epoch /\ e <= epoch /\ flow[e].at = "retry" /\ EvidenceStays
      /\ UNCHANGED <<artifact, proposal, opportunity, lost>>
  BY DEF Evidence!RetryNext, Evidence!Current, EvidenceStays, EvidenceTyped, EpochsTyped
<1>3. CASE flow[e].todo = {}
  <2>1. FlowShaped(Evidence!Idle)
    BY DEF FlowShaped
  <2>2. FlowMoves(e, Evidence!Idle) /\ ready' = ready \cup {e}
    BY <1>2, <1>3, <2>1 DEF Evidence!RetryNext, Evidence!ToRetry, FlowMoves
  <2>3. ready' \subseteq 1..epoch
    <3>1. e \in 1..epoch /\ ready \subseteq 1..epoch
      BY <1>2 DEF EvidenceTyped, EpochsTyped, Evidence!Epochs
    <3> QED BY <2>2, <3>1
  <2>4. EvidenceTyped'
    BY <1>2, <2>2, <2>3, QuietTyped DEF EvidenceTyped, EpochsTyped, EvidenceStays
  <2> QED BY <1>2, <1>3, <2>2, <2>4
<1>4. CASE flow[e].todo # {}
  <2>1. PICK a \in flow[e].todo :
          /\ flow' = [flow EXCEPT ![e] = [at |-> "group", attempt |-> a, verdict |-> "none", todo |-> flow[e].todo \ {a}]]
          /\ UNCHANGED ready
    BY <1>4 DEF Evidence!RetryNext, Evidence!ToRetry
  <2> DEFINE f == [at |-> "group", attempt |-> a, verdict |-> "none", todo |-> flow[e].todo \ {a}]
  <2>2. FlowShaped(f) /\ a \in Attempts
    BY <1>1 DEF FlowShaped, Evidence!Verdicts
  <2> HIDE DEF f
  <2>3. FlowMoves(e, f)
    BY <1>2, <2>1, <2>2 DEF FlowMoves, f
  <2>4. EvidenceTyped'
    BY <1>2, <2>1, <2>3, QuietTyped DEF EvidenceTyped, EpochsTyped, EvidenceStays
  <2> QED BY <1>2, <2>1, <2>2, <2>3, <2>4 DEF f
<1> QED BY <1>3, <1>4

LEMMA BeginRepairDoes ==
  ASSUME EvidenceTyped, NEW e \in Evidence!Epochs, Evidence!BeginRepair(e)
  PROVE  /\ EvidenceTyped' /\ e = epoch /\ e \in ready /\ flow[e] = Evidence!Idle
         /\ FlowMoves(e, [at |-> "repair", todo |-> Evidence!StaleRows])
         /\ EvidenceStays /\ UNCHANGED <<ready, artifact, proposal, opportunity, lost>>
<1> DEFINE f == [at |-> "repair", todo |-> Evidence!StaleRows]
<1>1. FlowShaped(f)
  BY DEF FlowShaped, Evidence!StaleRows
<1> HIDE DEF f
<1>2. /\ FlowMoves(e, f) /\ e = epoch /\ e \in ready /\ flow[e] = Evidence!Idle
      /\ EvidenceStays /\ UNCHANGED <<ready, artifact, proposal, opportunity, lost>>
  BY <1>1 DEF Evidence!BeginRepair, Evidence!Current, FlowMoves, EvidenceStays, EvidenceTyped, EpochsTyped, f
<1>3. EvidenceTyped'
  BY <1>2, QuietTyped DEF EvidenceTyped, EpochsTyped, EvidenceStays
<1> QED BY <1>2, <1>3 DEF f

LEMMA SnapshotDoes ==
  ASSUME EvidenceTyped, NEW e \in Evidence!Epochs, Evidence!TakeSnapshot(e)
  PROVE  EvidenceTyped'
  BY DEF Evidence!TakeSnapshot, EvidenceTyped, FlowsTyped, EpochsTyped, ArtifactsTyped, ProposalsTyped,
         ClaimsTyped, MarksTyped, StatesTyped

LEMMA ClaimMade ==
  ASSUME NEW g \in Evidence!Groups, NEW T \in Targets, NEW s \in 0..MaxClaims
  PROVE  /\ Evidence!Claim(g, T, s) \in ClaimForms
         /\ Evidence!Claim(g, T, s).group = g /\ Evidence!Claim(g, T, s).target = T
         /\ Evidence!Claim(g, T, s).sup = s /\ Evidence!Claim(g, T, s).status = "ACTIVE"
<1>1. ClaimShaped(Evidence!Claim(g, T, s))
  BY DEF ClaimShaped, Evidence!Claim
<1> QED BY <1>1, ClaimsShaped DEF Evidence!Claim

\* The claims that were there stay in their places before new ones.
Appended(new) ==
  /\ DOMAIN claims = 1..Len(claims) /\ DOMAIN claims' = 1..(Len(claims) + Len(new))
  /\ \A i \in DOMAIN claims : i \in DOMAIN claims' /\ claims'[i] = claims[i]
  /\ \A i \in DOMAIN claims' :
       i \notin DOMAIN claims => i > Len(claims) /\ i - Len(claims) \in 1..Len(new)
                                  /\ claims'[i] = new[i - Len(claims)]
  /\ \A k \in 1..Len(new) : Len(claims) + k \in DOMAIN claims' /\ claims'[Len(claims) + k] = new[k]

\* The transaction that commits a group of fresh claims.
GroupCommit(g, new) ==
  /\ new \in Seq(ClaimForms) /\ Len(claims) + Len(new) <= MaxClaims
  /\ \A k \in 1..Len(new) : new[k].group = g /\ new[k].sup = 0 /\ new[k].status = "ACTIVE"
  /\ claims' = claims \o new /\ watermark' = watermark + 1
  /\ commitAt' = [commitAt EXCEPT ![g] = watermark + 1]
  /\ UNCHANGED <<row, cycle>>

LEMMA GroupCommitDoes ==
  ASSUME EvidenceTyped, NEW g \in Evidence!Groups, NEW new, GroupCommit(g, new)
  PROVE  /\ ClaimsTyped' /\ MarksTyped' /\ StatesTyped' /\ Appended(new)
         /\ commitAt'[g] = watermark + 1
         /\ \A h \in Evidence!Groups : h # g => commitAt'[h] = commitAt[h]
<1>1. Appended(new)
  BY DEF EvidenceTyped, ClaimsTyped, GroupCommit, Appended
<1>2. ClaimsTyped'
  BY DEF EvidenceTyped, ClaimsTyped, GroupCommit
<1>3. /\ commitAt' = [h \in Evidence!Groups |-> commitAt'[h]] /\ commitAt'[g] = watermark + 1
      /\ \A h \in Evidence!Groups : h # g => commitAt'[h] = commitAt[h]
  BY DEF EvidenceTyped, MarksTyped, GroupCommit
<1>4. MarksTyped'
  BY <1>3 DEF EvidenceTyped, MarksTyped, GroupCommit
<1>5. StatesTyped'
  BY <1>1 DEF EvidenceTyped, StatesTyped, MarksTyped, GroupCommit, Appended
<1> QED BY <1>1, <1>2, <1>3, <1>4, <1>5

LEMMA TeachingClaimsAre ==
  ASSUME EvidenceTyped, NEW a \in Attempts, proposal[a].status # "none"
  PROVE  LET new == Evidence!TeachingClaims(a) IN
         /\ new \in Seq(ClaimForms) /\ Len(new) \in {1, 2}
         /\ \A k \in 1..Len(new) : new[k].group = Evidence!Taught(a) /\ new[k].sup = 0 /\ new[k].status = "ACTIVE"
<1> DEFINE T == proposal[a].target
           c == Evidence!Claim(Evidence!Taught(a), Capability, 0)
           d == Evidence!Claim(Evidence!Taught(a), T, 0)
           g == Evidence!Taught(a)
<1>1. T \in Targets /\ g \in Evidence!Groups /\ 0 \in 0..MaxClaims
  BY EvidenceAssumption DEF EvidenceTyped, ProposalsTyped, Evidence!Groups
<1>2. c \in ClaimForms /\ c.group = g /\ c.sup = 0 /\ c.status = "ACTIVE"
  BY <1>1, ClaimMade, EvidenceAssumption
<1>3. d \in ClaimForms /\ d.group = g /\ d.sup = 0 /\ d.status = "ACTIVE"
  BY <1>1, ClaimMade
<1>4. Evidence!TeachingClaims(a) = <<c, d>> \/ Evidence!TeachingClaims(a) = <<d>>
  BY DEF Evidence!TeachingClaims
<1> HIDE DEF c, d, g
<1>5. CASE Evidence!TeachingClaims(a) = <<c, d>>
  BY <1>2, <1>3, <1>5 DEF g
<1>6. CASE Evidence!TeachingClaims(a) = <<d>>
  BY <1>3, <1>6 DEF g
<1> QED BY <1>4, <1>5, <1>6

LEMMA SilentClaimsAre ==
  ASSUME EvidenceTyped, NEW t \in Turns, NEW T \in Targets \cup {NoTarget}
  PROVE  LET new == Evidence!SilentClaims(t, T) IN
         /\ new \in Seq(ClaimForms) /\ Len(new) \in {0, 1}
         /\ T = NoTarget => Len(new) = 0
         /\ \A k \in 1..Len(new) : /\ new[k].group = Evidence!Silent(t) /\ new[k].sup = 0
                                    /\ new[k].status = "ACTIVE" /\ new[k].target = T
<1> DEFINE d == Evidence!Claim(Evidence!Silent(t), T, 0)
           g == Evidence!Silent(t)
<1>1. g \in Evidence!Groups /\ 0 \in 0..MaxClaims
  BY EvidenceAssumption DEF Evidence!Groups
<1>2. CASE T = NoTarget
  BY <1>2 DEF Evidence!SilentClaims
<1>3. CASE T # NoTarget
  <2>1. d \in ClaimForms /\ d.group = g /\ d.sup = 0 /\ d.status = "ACTIVE" /\ d.target = T
    BY <1>1, <1>3, ClaimMade
  <2>2. Evidence!SilentClaims(t, T) = <<d>>
    BY <1>3 DEF Evidence!SilentClaims
  <2> HIDE DEF d, g
  <2> QED BY <1>3, <2>1, <2>2 DEF g
<1> QED BY <1>2, <1>3

AnalysisRefused(e, t) ==
  artifact'[t].status = "REJECTED" /\ FlowMoves(e, Evidence!Idle) /\ EvidenceStays

AnalysisCommitted(e, t) ==
  /\ artifact'[t].status = "COMMITTED"
  /\ GroupCommit(Evidence!Silent(t), Evidence!SilentClaims(t, artifact[t].target))
  /\ FlowMoves(e, IF artifact[t].target = NoTarget THEN Evidence!Idle
                  ELSE [at |-> "rebuild", target |-> artifact[t].target])

LEMMA CommitAnalysisDoes ==
  ASSUME EvidenceTyped, NEW e \in Evidence!Epochs, NEW refused \in BOOLEAN,
         Evidence!CommitAnalysis(e, refused)
  PROVE  \E t \in Turns :
         /\ EvidenceTyped' /\ e = epoch /\ flow[e].at = "commit" /\ flow[e].turn = t
         /\ \A u \in Turns : u # t => artifact'[u] = artifact[u]
         /\ UNCHANGED <<ready, proposal, opportunity, lost>>
         /\ AnalysisRefused(e, t) \/ AnalysisCommitted(e, t)
<1> DEFINE t == flow[e].turn
           T == artifact[t].target
           f == IF T = NoTarget THEN Evidence!Idle ELSE [at |-> "rebuild", target |-> T]
           s == IF refused THEN "REJECTED" ELSE "COMMITTED"
<1>1. t \in Turns
  BY FlowForms DEF EvidenceTyped, FlowsTyped, Evidence!CommitAnalysis
<1>2. T \in Targets \cup {NoTarget}
  BY <1>1 DEF EvidenceTyped, ArtifactsTyped
<1>3. FlowShaped(f) /\ FlowShaped(Evidence!Idle)
  BY <1>2 DEF FlowShaped
<1>4. /\ e = epoch /\ epoch' = epoch /\ e <= epoch /\ flow[e].at = "commit"
      /\ UNCHANGED <<ready, row, proposal, opportunity, cycle, lost>>
      /\ artifact' = [artifact EXCEPT ![t].status = s]
  BY DEF Evidence!CommitAnalysis, Evidence!Current, EvidenceTyped, EpochsTyped
<1>5. /\ artifact' = [u \in Turns |-> artifact'[u]]
      /\ artifact'[t] = [artifact[t] EXCEPT !.status = s]
      /\ \A u \in Turns : u # t => artifact'[u] = artifact[u]
  BY <1>1, <1>4 DEF EvidenceTyped, ArtifactsTyped
<1>6. artifact[t] = [status |-> artifact[t].status, target |-> T]
  BY <1>1 DEF EvidenceTyped, ArtifactsTyped
<1>7. artifact'[t] = [status |-> s, target |-> T]
  BY <1>5, <1>6
<1>8. artifact'[t].status = s /\ artifact'[t].target = T
  BY <1>7
<1>9. ArtifactsTyped'
  <2>1. ASSUME NEW u \in Turns
        PROVE  (/\ artifact[u] = [status |-> artifact[u].status, target |-> artifact[u].target]
                /\ artifact[u].status \in {"none", "PRODUCED", "COMMITTED", "REJECTED"}
                /\ artifact[u].target \in Targets \cup {NoTarget})'
    <3>1. CASE u = t
      BY <1>2, <1>7, <1>8, <3>1
    <3>2. CASE u # t
      BY <1>5, <3>2 DEF EvidenceTyped, ArtifactsTyped
    <3> QED BY <3>1, <3>2
  <2> QED BY <1>5, <2>1 DEF ArtifactsTyped
<1>10. CASE refused
  <2>1. flow' = [flow EXCEPT ![e] = Evidence!Idle] /\ EvidenceStays
    BY <1>4, <1>10 DEF Evidence!CommitAnalysis, EvidenceStays
  <2>2. FlowMoves(e, Evidence!Idle)
    BY <1>3, <1>4, <2>1 DEF FlowMoves
  <2>3. FlowsTyped' /\ EpochsTyped'
    BY <1>4, <2>2, FlowMoved DEF EvidenceTyped, EpochsTyped
  <2>4. EvidenceTyped'
    BY <1>4, <1>9, <2>1, <2>3, StoresKept DEF EvidenceTyped, ProposalsTyped, EvidenceStays
  <2> HIDE DEF t, f, T
  <2> QED BY <1>1, <1>4, <1>5, <1>8, <1>10, <2>1, <2>2, <2>4 DEF AnalysisRefused, t
<1>11. CASE ~refused
  <2>1. /\ flow' = [flow EXCEPT ![e] = f] /\ Len(claims) < MaxClaims
        /\ claims' = claims \o Evidence!SilentClaims(t, T) /\ watermark' = watermark + 1
        /\ commitAt' = [commitAt EXCEPT ![Evidence!Silent(t)] = watermark + 1]
    BY <1>11 DEF Evidence!CommitAnalysis
  <2>2. FlowMoves(e, f)
    BY <1>3, <1>4, <2>1 DEF FlowMoves
  <2>3. FlowsTyped' /\ EpochsTyped'
    BY <1>4, <2>2, FlowMoved DEF EvidenceTyped, EpochsTyped
  <2>4. LET new == Evidence!SilentClaims(t, T) IN
        /\ new \in Seq(ClaimForms) /\ Len(new) \in {0, 1}
        /\ \A k \in 1..Len(new) : new[k].group = Evidence!Silent(t) /\ new[k].sup = 0 /\ new[k].status = "ACTIVE"
    BY <1>1, <1>2, SilentClaimsAre
  <2>5. Len(claims) + Len(Evidence!SilentClaims(t, T)) <= MaxClaims
    <3>1. Len(claims) \in Nat
      BY DEF EvidenceTyped, ClaimsTyped
    <3>2. MaxClaims \in Nat
      BY EvidenceAssumption
    <3>3. Len(claims) < MaxClaims
      BY <2>1
    <3>4. Len(Evidence!SilentClaims(t, T)) \in {0, 1}
      BY <2>4
    <3>5. \A m, n, b \in Nat : m < b /\ n \in {0, 1} => m + n <= b
      OBVIOUS
    <3> QED BY <3>1, <3>2, <3>3, <3>4, <3>5
  <2>6. GroupCommit(Evidence!Silent(t), Evidence!SilentClaims(t, T))
    BY <1>4, <2>1, <2>4, <2>5 DEF GroupCommit
  <2>7. Evidence!Silent(t) \in Evidence!Groups
    BY <1>1 DEF Evidence!Groups
  <2>8. ClaimsTyped' /\ MarksTyped' /\ StatesTyped'
    BY <2>6, <2>7, GroupCommitDoes
  <2>9. EvidenceTyped'
    BY <1>4, <1>9, <2>3, <2>8 DEF EvidenceTyped, ProposalsTyped
  <2>10. AnalysisCommitted(e, t)
    BY <1>8, <1>11, <2>2, <2>6 DEF AnalysisCommitted
  <2> HIDE DEF t, f, T
  <2> QED BY <1>1, <1>4, <1>5, <2>9, <2>10 DEF t
<1> QED BY <1>10, <1>11

\* What is on its way into a commit was proposed.
FlowsProposed ==
  \A e \in Evidence!Epochs :
    flow[e].at \in {"group", "settle"} => proposal[flow[e].attempt].status # "none"

\* The ways a commit of an attempt's group ends.
GroupOutcome(a, v) ==
  \/ v = "COMMITTED" /\ commitAt[Evidence!Taught(a)] # 0 /\ EvidenceStays
  \/ v = "REJECTED" /\ proposal[a].kind = "invalid" /\ EvidenceStays
  \/ v = "PENDING" /\ proposal[a].kind = "integrity" /\ EvidenceStays
  \/ /\ v = "COMMITTED" /\ proposal[a].kind \in {"ok", "alternative"}
     /\ commitAt[Evidence!Taught(a)] = 0
     /\ GroupCommit(Evidence!Taught(a), Evidence!TeachingClaims(a))

LEMMA CommitGroupDoes ==
  ASSUME EvidenceTyped, FlowsProposed, NEW e \in Evidence!Epochs, Evidence!CommitGroup(e)
  PROVE  \E a \in Attempts, v \in Evidence!Verdicts :
         /\ EvidenceTyped' /\ e = epoch /\ flow[e].at = "group" /\ flow[e].attempt = a
         /\ FlowMoves(e, [at |-> "settle", attempt |-> a, verdict |-> v, todo |-> flow[e].todo])
         /\ UNCHANGED <<ready, artifact, proposal, opportunity, lost>>
         /\ GroupOutcome(a, v)
<1> DEFINE a == flow[e].attempt
           f(v) == [at |-> "settle", attempt |-> a, verdict |-> v, todo |-> flow[e].todo]
<1>1. /\ a \in Attempts /\ flow[e].todo \subseteq Attempts
      /\ flow[e] = [at |-> "group", attempt |-> a, verdict |-> flow[e].verdict, todo |-> flow[e].todo]
  BY FlowForms DEF EvidenceTyped, FlowsTyped, Evidence!CommitGroup
<1>2. \A v \in Evidence!Verdicts : FlowShaped(f(v))
  BY <1>1 DEF FlowShaped
<1>3. \A v \in Evidence!Verdicts : [flow EXCEPT ![e].at = "settle", ![e].verdict = v] = [flow EXCEPT ![e] = f(v)]
  <2> SUFFICES ASSUME NEW v \in Evidence!Verdicts
               PROVE  [flow EXCEPT ![e].at = "settle", ![e].verdict = v] = [flow EXCEPT ![e] = f(v)]
    OBVIOUS
  <2>1. flow = [d \in Evidence!Epochs |-> flow[d]]
    BY DEF EvidenceTyped, FlowsTyped
  <2>2. [[flow[e] EXCEPT !.at = "settle"] EXCEPT !.verdict = v] = f(v)
    <3>1. PICK x, y, z : /\ flow[e] = [at |-> "group", attempt |-> x, verdict |-> y, todo |-> z]
                         /\ x = a /\ z = flow[e].todo
      BY <1>1
    <3>2. [[flow[e] EXCEPT !.at = "settle"] EXCEPT !.verdict = v]
            = [at |-> "settle", attempt |-> x, verdict |-> v, todo |-> z]
      <4>1. [flow[e] EXCEPT !.at = "settle"] = [at |-> "settle", attempt |-> x, verdict |-> y, todo |-> z]
        BY <3>1
      <4>2. [[at |-> "settle", attempt |-> x, verdict |-> y, todo |-> z] EXCEPT !.verdict = v]
              = [at |-> "settle", attempt |-> x, verdict |-> v, todo |-> z]
        OBVIOUS
      <4> QED BY <4>1, <4>2
    <3> QED BY <3>1, <3>2, Zenon
  <2>3. [flow EXCEPT ![e].at = "settle", ![e].verdict = v]
          = [flow EXCEPT ![e] = [[flow[e] EXCEPT !.at = "settle"] EXCEPT !.verdict = v]]
    BY <2>1
  <2> QED BY <2>2, <2>3
<1>4. /\ e = epoch /\ epoch' = epoch /\ e <= epoch /\ flow[e].at = "group"
      /\ UNCHANGED <<ready, artifact, row, proposal, opportunity, cycle, lost>>
  BY DEF Evidence!CommitGroup, Evidence!Current, EvidenceTyped, EpochsTyped
<1>5. proposal[a].status # "none"
  BY <1>1 DEF FlowsProposed
<1>6. PICK v \in Evidence!Verdicts : flow' = [flow EXCEPT ![e].at = "settle", ![e].verdict = v] /\ GroupOutcome(a, v)
  <2>1. CASE /\ Evidence!AlreadyCommitted(a)
             /\ flow' = [flow EXCEPT ![e].at = "settle", ![e].verdict = "COMMITTED"]
             /\ UNCHANGED <<claims, commitAt, watermark>>
    BY <1>4, <2>1 DEF Evidence!AlreadyCommitted, GroupOutcome, EvidenceStays, Evidence!Verdicts
  <2>2. CASE /\ ~Evidence!AlreadyCommitted(a)
             /\ Evidence!ClaimRefused(a) \/ proposal[a].kind = "integrity"
             /\ flow' = [flow EXCEPT ![e].at = "settle",
                                     ![e].verdict = IF Evidence!ClaimRefused(a) THEN "REJECTED" ELSE "PENDING"]
             /\ UNCHANGED <<claims, commitAt, watermark>>
    BY <1>4, <2>2 DEF Evidence!ClaimRefused, GroupOutcome, EvidenceStays, Evidence!Verdicts
  <2>3. CASE /\ ~Evidence!AlreadyCommitted(a)
             /\ proposal[a].kind \in {"ok", "alternative"}
             /\ Len(claims) + 2 <= MaxClaims
             /\ claims' = claims \o Evidence!TeachingClaims(a)
             /\ watermark' = watermark + 1
             /\ commitAt' = [commitAt EXCEPT ![Evidence!Taught(a)] = watermark + 1]
             /\ flow' = [flow EXCEPT ![e].at = "settle", ![e].verdict = "COMMITTED"]
    <3>1. LET new == Evidence!TeachingClaims(a) IN
          /\ new \in Seq(ClaimForms) /\ Len(new) \in {1, 2}
          /\ \A k \in 1..Len(new) : new[k].group = Evidence!Taught(a) /\ new[k].sup = 0 /\ new[k].status = "ACTIVE"
      BY <1>1, <1>5, TeachingClaimsAre
    <3>2. Len(claims) + Len(Evidence!TeachingClaims(a)) <= MaxClaims
      <4>1. Len(claims) \in Nat
        BY DEF EvidenceTyped, ClaimsTyped
      <4>2. Len(Evidence!TeachingClaims(a)) \in {1, 2} /\ Len(claims) + 2 <= MaxClaims
        BY <2>3, <3>1
      <4>3. \A x \in {1, 2}, y \in Nat : y + 2 <= MaxClaims => y + x <= MaxClaims
        BY EvidenceAssumption
      <4> QED BY <4>1, <4>2, <4>3
    <3>3. GroupCommit(Evidence!Taught(a), Evidence!TeachingClaims(a))
      BY <1>4, <2>3, <3>1, <3>2 DEF GroupCommit
    <3>4. GroupOutcome(a, "COMMITTED")
      BY <2>3, <3>3 DEF GroupOutcome, Evidence!AlreadyCommitted
    <3> QED BY <2>3, <3>4 DEF Evidence!Verdicts
  <2> QED BY <2>1, <2>2, <2>3 DEF Evidence!CommitGroup
<1>7. flow' = [flow EXCEPT ![e] = f(v)]
  BY <1>3, <1>6
<1>8. FlowMoves(e, f(v))
  BY <1>2, <1>4, <1>7 DEF FlowMoves
<1>9. FlowsTyped' /\ EpochsTyped'
  BY <1>4, <1>8, FlowMoved DEF EvidenceTyped, EpochsTyped
<1>10. ClaimsTyped' /\ MarksTyped' /\ StatesTyped'
  <2>1. CASE EvidenceStays
    BY <2>1, StoresKept DEF EvidenceStays
  <2>2. CASE GroupCommit(Evidence!Taught(a), Evidence!TeachingClaims(a))
    <3>1. Evidence!Taught(a) \in Evidence!Groups
      BY <1>1 DEF Evidence!Groups
    <3> QED BY <2>2, <3>1, GroupCommitDoes
  <2> QED BY <1>6, <2>1, <2>2 DEF GroupOutcome
<1>11. EvidenceTyped'
  BY <1>4, <1>9, <1>10 DEF EvidenceTyped, ProposalsTyped, ArtifactsTyped
<1> QED BY <1>1, <1>4, <1>6, <1>8, <1>11

\* A correction changes the status of one claim and nothing else of it.
Marked(i, status) ==
  /\ claims'[i].group = claims[i].group /\ claims'[i].target = claims[i].target
  /\ claims'[i].sup = claims[i].sup /\ claims'[i].status = status
  /\ \A j \in DOMAIN claims : j # i => claims'[j] = claims[j]

CorrectedBy(i, c) ==
  /\ i \in DOMAIN claims /\ claims[i].status = "ACTIVE"
  /\ DOMAIN claims = 1..Len(claims) /\ DOMAIN claims' = 1..(Len(claims) + 1)
  /\ Marked(i, "SUPERSEDED")
  /\ claims'[Len(claims) + 1] = c
  /\ c.group = claims[i].group /\ c.target = claims[i].target /\ c.sup = i /\ c.status = "ACTIVE"

LEMMA MarkedClaim ==
  ASSUME EvidenceTyped, NEW i \in DOMAIN claims, NEW status \in {"ACTIVE", "SUPERSEDED", "INVALIDATED"}
  PROVE  LET cs == [claims EXCEPT ![i].status = status] IN
         /\ cs \in Seq(ClaimForms) /\ Len(cs) = Len(claims) /\ DOMAIN cs = DOMAIN claims
         /\ cs[i].group = claims[i].group /\ cs[i].target = claims[i].target
         /\ cs[i].sup = claims[i].sup /\ cs[i].status = status
         /\ \A j \in DOMAIN claims : j # i => cs[j] = claims[j]
<1> DEFINE c == [claims[i] EXCEPT !.status = status]
           cs == [claims EXCEPT ![i].status = status]
<1>1. claims \in Seq(ClaimForms)
  BY DEF EvidenceTyped, ClaimsTyped
<1>2. ClaimShaped(claims[i])
  BY <1>1, ClaimsShaped
<1>3. c = [group |-> claims[i].group, target |-> claims[i].target, sup |-> claims[i].sup, status |-> status]
  BY <1>2 DEF ClaimShaped
<1>4. /\ c.group = claims[i].group /\ c.target = claims[i].target /\ c.sup = claims[i].sup
      /\ c.status = status
  BY <1>3
<1>5. ClaimShaped(c)
  BY <1>2, <1>3, <1>4 DEF ClaimShaped
<1>6. c \in ClaimForms
  BY <1>5, ClaimsShaped
<1>7. cs = [claims EXCEPT ![i] = c]
  BY <1>1
<1> HIDE DEF c, cs
<1>8. /\ cs \in Seq(ClaimForms) /\ Len(cs) = Len(claims) /\ DOMAIN cs = DOMAIN claims
      /\ cs[i] = c /\ \A j \in DOMAIN claims : j # i => cs[j] = claims[j]
  BY <1>1, <1>6, <1>7
<1>9. /\ cs \in Seq(ClaimForms) /\ Len(cs) = Len(claims) /\ DOMAIN cs = DOMAIN claims
      /\ cs[i].group = claims[i].group /\ cs[i].target = claims[i].target
      /\ cs[i].sup = claims[i].sup /\ cs[i].status = status
      /\ \A j \in DOMAIN claims : j # i => cs[j] = claims[j]
  BY <1>4, <1>8
<1> QED BY <1>9 DEF cs

LEMMA WatermarkMoves ==
  ASSUME EvidenceTyped, watermark' = watermark + 1, UNCHANGED <<commitAt, row>>,
         DOMAIN claims \subseteq DOMAIN claims'
  PROVE  MarksTyped' /\ StatesTyped'
<1>1. MarksTyped'
  BY DEF EvidenceTyped, MarksTyped
<1>2. \A T \in Targets : row[T].wm \in 0..(watermark + 1) /\ row[T].of \subseteq DOMAIN claims'
  BY DEF EvidenceTyped, MarksTyped, StatesTyped
<1> QED BY <1>1, <1>2 DEF EvidenceTyped, StatesTyped

LEMMA SupersedeDoes ==
  ASSUME EvidenceTyped, NEW e \in Evidence!Epochs, NEW i \in DOMAIN claims, Evidence!Supersede(e, i)
  PROVE  /\ EvidenceTyped' /\ \E c : CorrectedBy(i, c) /\ watermark' = watermark + 1
         /\ UNCHANGED <<epoch, flow, ready, artifact, commitAt, row, proposal, opportunity, cycle, lost>>
<1> DEFINE cs == [claims EXCEPT ![i].status = "SUPERSEDED"]
           c == Evidence!Claim(claims[i].group, claims[i].target, i)
<1>1. /\ claims[i].status = "ACTIVE" /\ Len(claims) < MaxClaims /\ claims' = Append(cs, c)
      /\ watermark' = watermark + 1
      /\ UNCHANGED <<epoch, flow, ready, artifact, commitAt, row, proposal, opportunity, cycle, lost>>
  BY DEF Evidence!Supersede, Evidence!Correctable, Evidence!BumpWatermark
<1>2. claims \in Seq(ClaimForms) /\ Len(claims) \in Nat /\ DOMAIN claims = 1..Len(claims)
  BY DEF EvidenceTyped, ClaimsTyped
<1>3. claims[i].group \in Evidence!Groups /\ claims[i].target \in Targets
  BY <1>2, ClaimsShaped DEF ClaimShaped
<1>4. i \in 0..MaxClaims
  BY <1>1, <1>2, EvidenceAssumption
<1>5. /\ c \in ClaimForms /\ c.group = claims[i].group /\ c.target = claims[i].target /\ c.sup = i
      /\ c.status = "ACTIVE"
  BY <1>3, <1>4, ClaimMade
<1>6. /\ cs \in Seq(ClaimForms) /\ Len(cs) = Len(claims) /\ DOMAIN cs = DOMAIN claims
      /\ cs[i].group = claims[i].group /\ cs[i].target = claims[i].target
      /\ cs[i].sup = claims[i].sup /\ cs[i].status = "SUPERSEDED"
      /\ \A j \in DOMAIN claims : j # i => cs[j] = claims[j]
  BY MarkedClaim
<1> HIDE DEF cs, c
<1>7. /\ claims' \in Seq(ClaimForms) /\ Len(claims') = Len(claims) + 1
      /\ DOMAIN claims' = 1..(Len(claims) + 1) /\ claims'[Len(claims) + 1] = c
      /\ \A j \in DOMAIN claims : claims'[j] = cs[j]
  BY <1>1, <1>2, <1>5, <1>6
<1>8. CorrectedBy(i, c)
  BY <1>1, <1>2, <1>5, <1>6, <1>7 DEF CorrectedBy, Marked
<1>9. ClaimsTyped'
  BY <1>1, <1>2, <1>7, EvidenceAssumption DEF ClaimsTyped
<1>10. MarksTyped' /\ StatesTyped'
  <2>1. DOMAIN claims \subseteq DOMAIN claims'
    BY <1>2, <1>7
  <2> QED BY <1>1, <2>1, WatermarkMoves
<1>11. EvidenceTyped'
  BY <1>1, <1>9, <1>10 DEF EvidenceTyped, FlowsTyped, EpochsTyped, ProposalsTyped, ArtifactsTyped
<1> QED BY <1>1, <1>8, <1>11

LEMMA InvalidateDoes ==
  ASSUME EvidenceTyped, NEW e \in Evidence!Epochs, NEW i \in DOMAIN claims, Evidence!Invalidate(e, i)
  PROVE  /\ EvidenceTyped' /\ claims[i].status = "ACTIVE" /\ DOMAIN claims' = DOMAIN claims
         /\ Marked(i, "INVALIDATED") /\ watermark' = watermark + 1
         /\ UNCHANGED <<epoch, flow, ready, artifact, commitAt, row, proposal, opportunity, cycle, lost>>
<1> DEFINE cs == [claims EXCEPT ![i].status = "INVALIDATED"]
<1>1. /\ claims[i].status = "ACTIVE" /\ claims' = cs /\ watermark' = watermark + 1
      /\ UNCHANGED <<epoch, flow, ready, artifact, commitAt, row, proposal, opportunity, cycle, lost>>
  BY DEF Evidence!Invalidate, Evidence!Correctable, Evidence!BumpWatermark
<1>2. /\ cs \in Seq(ClaimForms) /\ Len(cs) = Len(claims) /\ DOMAIN cs = DOMAIN claims
      /\ cs[i].group = claims[i].group /\ cs[i].target = claims[i].target
      /\ cs[i].sup = claims[i].sup /\ cs[i].status = "INVALIDATED"
      /\ \A j \in DOMAIN claims : j # i => cs[j] = claims[j]
  BY MarkedClaim
<1> HIDE DEF cs
<1>3. ClaimsTyped' /\ DOMAIN claims' = DOMAIN claims /\ Marked(i, "INVALIDATED")
  BY <1>1, <1>2 DEF EvidenceTyped, ClaimsTyped, Marked
<1>4. MarksTyped' /\ StatesTyped'
  BY <1>1, <1>3, WatermarkMoves
<1>5. EvidenceTyped'
  BY <1>1, <1>3, <1>4 DEF EvidenceTyped, FlowsTyped, EpochsTyped, ProposalsTyped, ArtifactsTyped
<1> QED BY <1>1, <1>3, <1>5

\* The ways a step changes what the stores hold.
RowRebuilt(T) ==
  row' = [row EXCEPT ![T] = Evidence!Rebuilt(T)] /\ UNCHANGED <<claims, commitAt, watermark, cycle>>

Superseded(i) ==
  /\ i \in DOMAIN claims /\ \E c : CorrectedBy(i, c)
  /\ watermark' = watermark + 1 /\ UNCHANGED <<commitAt, row, cycle>>

Invalidated(i) ==
  /\ i \in DOMAIN claims /\ DOMAIN claims' = DOMAIN claims
  /\ claims[i].status = "ACTIVE" /\ Marked(i, "INVALIDATED")
  /\ watermark' = watermark + 1 /\ UNCHANGED <<commitAt, row, cycle>>

SnapshotTaken ==
  /\ Evidence!SnapshotOk /\ UNCHANGED <<claims, commitAt, watermark, row>>
  /\ cycle' = [wm |-> watermark, view |-> [T \in Evidence!Present |-> row[T].of]]

StoreStep ==
  \/ EvidenceStays \/ SnapshotTaken
  \/ \E g \in Evidence!Groups : \E new : GroupCommit(g, new)
  \/ \E T \in Targets : RowRebuilt(T)
  \/ \E i : Superseded(i) \/ Invalidated(i)

LEMMA EvidenceStep ==
  ASSUME EvidenceTyped, FlowsProposed, Evidence!Next
  PROVE  EvidenceTyped' /\ StoreStep
<1>1. CASE Evidence!Start
  BY <1>1, StartTyped DEF Evidence!Start, StoreStep, EvidenceStays
<1>2. ASSUME NEW e \in Evidence!Epochs, Evidence!Die(e) \/ Evidence!Refused(e)
      PROVE  EvidenceTyped' /\ StoreStep
  <2>1. PICK f \in {Evidence!Down, Evidence!Idle} :
           /\ FlowMoves(e, f) /\ UNCHANGED <<ready, opportunity, artifact, proposal>> /\ EvidenceStays
           /\ lost' \subseteq Targets
    BY <1>2, EndedFlow
  <2>2. EvidenceTyped'
    BY <2>1, QuietTyped DEF EvidenceTyped, EpochsTyped, EvidenceStays
  <2> QED BY <2>1, <2>2 DEF StoreStep
<1>3. ASSUME NEW e \in Evidence!Epochs, Evidence!RebuildSilentTarget(e)
      PROVE  EvidenceTyped' /\ StoreStep
  BY <1>3, SilentRebuildDoes DEF StoreStep, RowRebuilt
<1>4. ASSUME NEW e \in Evidence!Epochs, Evidence!ProposeNothing(e)
      PROVE  EvidenceTyped' /\ StoreStep
  BY <1>4, NothingProposedDoes DEF StoreStep
<1>5. ASSUME NEW e \in Evidence!Epochs, Evidence!CommitGroup(e)
      PROVE  EvidenceTyped' /\ StoreStep
  <2>1. PICK a \in Attempts, v \in Evidence!Verdicts : EvidenceTyped' /\ GroupOutcome(a, v)
    BY <1>5, CommitGroupDoes
  <2>2. Evidence!Taught(a) \in Evidence!Groups
    BY DEF Evidence!Groups
  <2> QED BY <2>1, <2>2 DEF StoreStep, GroupOutcome
<1>6. ASSUME NEW e \in Evidence!Epochs, Evidence!Settle(e)
      PROVE  EvidenceTyped' /\ StoreStep
  BY <1>6, SettleDoes DEF StoreStep
<1>7. ASSUME NEW e \in Evidence!Epochs, Evidence!RetryNext(e)
      PROVE  EvidenceTyped' /\ StoreStep
  BY <1>7, RetryDoes DEF StoreStep
<1>8. ASSUME NEW e \in Evidence!Epochs, Evidence!BeginRepair(e)
      PROVE  EvidenceTyped' /\ StoreStep
  BY <1>8, BeginRepairDoes DEF StoreStep
<1>9. ASSUME NEW e \in Evidence!Epochs, Evidence!TakeSnapshot(e)
      PROVE  EvidenceTyped' /\ StoreStep
  BY <1>9, SnapshotDoes DEF StoreStep, SnapshotTaken, Evidence!TakeSnapshot
<1>10. ASSUME NEW e \in Evidence!Epochs, NEW t \in Turns, NEW T \in Targets \cup {NoTarget},
              Evidence!RecordAnalysis(e, t, T)
       PROVE  EvidenceTyped' /\ StoreStep
  BY <1>10, RecordAnalysisDoes DEF StoreStep
<1>11. ASSUME NEW e \in Evidence!Epochs, NEW refused \in BOOLEAN, Evidence!CommitAnalysis(e, refused)
       PROVE  EvidenceTyped' /\ StoreStep
  <2>1. PICK t \in Turns : EvidenceTyped' /\ (AnalysisRefused(e, t) \/ AnalysisCommitted(e, t))
    BY <1>11, CommitAnalysisDoes
  <2>2. Evidence!Silent(t) \in Evidence!Groups
    BY DEF Evidence!Groups
  <2> QED BY <2>1, <2>2 DEF StoreStep, AnalysisRefused, AnalysisCommitted
<1>12. ASSUME NEW e \in Evidence!Epochs, NEW a \in Attempts, Evidence!RecordOpportunity(e, a)
       PROVE  EvidenceTyped' /\ StoreStep
  BY <1>12, OpportunityDoes DEF StoreStep
<1>13. ASSUME NEW e \in Evidence!Epochs, NEW T \in Targets, Evidence!RepairNext(e, T)
       PROVE  EvidenceTyped' /\ StoreStep
  BY <1>13, RepairDoes DEF StoreStep, RowRebuilt
<1>14. ASSUME NEW e \in Evidence!Epochs, NEW T \in Targets, NEW kind \in Evidence!Kinds,
              Evidence!RecordProposal(e, kind, T)
       PROVE  EvidenceTyped' /\ StoreStep
  BY <1>14, ProposalDoes DEF StoreStep
<1>15. ASSUME NEW e \in Evidence!Epochs, NEW i \in DOMAIN claims, Evidence!Supersede(e, i)
       PROVE  EvidenceTyped' /\ StoreStep
  BY <1>15, SupersedeDoes DEF StoreStep, Superseded
<1>16. ASSUME NEW e \in Evidence!Epochs, NEW i \in DOMAIN claims, Evidence!Invalidate(e, i)
       PROVE  EvidenceTyped' /\ StoreStep
  BY <1>16, InvalidateDoes DEF StoreStep, Invalidated
<1> QED BY <1>1, <1>2, <1>3, <1>4, <1>5, <1>6, <1>7, <1>8, <1>9, <1>10, <1>11, <1>12, <1>13, <1>14,
           <1>15, <1>16 DEF Evidence!Next

\* A cycle with the current watermark shows the claims that stand.
CycleExact ==
  /\ cycle.wm \in 0..watermark
  /\ cycle.wm # 0 /\ cycle.wm = watermark =>
       \A T \in DOMAIN cycle.view : cycle.view[T] = Evidence!Active(claims, T)

\* Nothing that looks fresh was estimated from other claims.
ViewsExact == Evidence!FreshRowsExact /\ CycleExact

LEMMA ViewsKept ==
  ASSUME EvidenceTyped, EvidenceTyped', ViewsExact, StoreStep
  PROVE  ViewsExact'
<1>1. CASE EvidenceStays
  BY <1>1 DEF ViewsExact, EvidenceStays, Evidence!FreshRowsExact, CycleExact, Evidence!Active
<1>2. CASE SnapshotTaken
  <2>1. Evidence!FreshRowsExact'
    BY <1>2 DEF SnapshotTaken, ViewsExact, Evidence!FreshRowsExact, Evidence!Active
  <2>2. /\ cycle'.wm = watermark /\ DOMAIN cycle'.view = Evidence!Present
        /\ \A T \in Evidence!Present : cycle'.view[T] = row[T].of
    BY <1>2 DEF SnapshotTaken
  <2>3. \A T \in Evidence!Present : T \in Targets /\ row[T].wm # 0 /\ row[T].wm = watermark
    BY <1>2 DEF SnapshotTaken, Evidence!SnapshotOk, Evidence!StaleRows, Evidence!Present
  <2>4. \A T \in Evidence!Present : row[T].of = Evidence!Active(claims, T)
    BY <2>3 DEF ViewsExact, Evidence!FreshRowsExact
  <2>5. UNCHANGED <<claims, watermark>> /\ watermark \in Nat
    BY <1>2 DEF SnapshotTaken, EvidenceTyped, MarksTyped
  <2>6. CycleExact'
    BY <2>2, <2>4, <2>5 DEF CycleExact
  <2> QED BY <2>1, <2>6 DEF ViewsExact
<1>3. CASE watermark' = watermark + 1 /\ UNCHANGED <<row, cycle>>
  BY <1>3 DEF ViewsExact, Evidence!FreshRowsExact, CycleExact, EvidenceTyped, StatesTyped, MarksTyped
<1>4. ASSUME NEW T \in Targets, RowRebuilt(T) PROVE ViewsExact'
  <2>1. /\ row'[T] = Evidence!Rebuilt(T) /\ \A U \in Targets : U # T => row'[U] = row[U]
        /\ UNCHANGED <<claims, watermark, cycle>>
    BY <1>4 DEF RowRebuilt, EvidenceTyped, StatesTyped
  <2>2. CycleExact'
    BY <2>1 DEF ViewsExact, CycleExact
  <2>3. Evidence!Rebuilt(T).wm # 0 => Evidence!Rebuilt(T).of = Evidence!Active(claims, T)
    BY DEF Evidence!Rebuilt, Evidence!NoRow
  <2>4. Evidence!FreshRowsExact'
    BY <2>1, <2>3 DEF ViewsExact, Evidence!FreshRowsExact
  <2> QED BY <2>2, <2>4 DEF ViewsExact
<1> QED BY <1>1, <1>2, <1>3, <1>4 DEF StoreStep, GroupCommit, Superseded, Invalidated

\* A correction points back at the one claim it supersedes, and takes over
\* its group and target.
Chained ==
  /\ \A j \in DOMAIN claims : claims[j].sup \in Nat /\ claims[j].sup < j
  /\ \A i, j \in DOMAIN claims : claims[j].sup = i =>
       /\ claims[i].status = "SUPERSEDED"
       /\ claims[j].group = claims[i].group /\ claims[j].target = claims[i].target
  /\ \A i, j, k \in DOMAIN claims : claims[j].sup = i /\ claims[k].sup = i => j = k
  /\ \A i \in DOMAIN claims : claims[i].status = "SUPERSEDED" => \E j \in DOMAIN claims : claims[j].sup = i

LEMMA ChainsKept ==
  ASSUME EvidenceTyped, EvidenceTyped', Chained, StoreStep
  PROVE  Chained'
<1> DEFINE n == Len(claims)
<1>0. n \in Nat /\ DOMAIN claims = 1..n
  BY DEF EvidenceTyped, ClaimsTyped
<1>1. CASE claims' = claims
  BY <1>1 DEF Chained
<1>2. ASSUME NEW g \in Evidence!Groups, NEW new, GroupCommit(g, new) PROVE Chained'
  <2>1. Appended(new)
    BY <1>2, GroupCommitDoes
  <2>2. \A j \in DOMAIN claims' : j \notin DOMAIN claims =>
          j \in Nat /\ j > 0 /\ claims'[j].sup = 0 /\ claims'[j].status = "ACTIVE"
    BY <1>0, <1>2, <2>1 DEF Appended, GroupCommit
  <2>3. \A j \in DOMAIN claims : j \in DOMAIN claims' /\ claims'[j] = claims[j]
    BY <2>1 DEF Appended
  <2>4. 0 \notin DOMAIN claims'
    BY <1>0, <2>1 DEF Appended
  <2>5. \A j \in DOMAIN claims' : claims'[j].sup \in Nat /\ claims'[j].sup < j
    BY <1>0, <2>2, <2>3 DEF Chained
  <2>6. \A i, j \in DOMAIN claims' : claims'[j].sup = i => j \in DOMAIN claims /\ i \in DOMAIN claims
    <3>1. ASSUME NEW i \in DOMAIN claims', NEW j \in DOMAIN claims', claims'[j].sup = i
          PROVE  j \in DOMAIN claims /\ i \in DOMAIN claims
      <4>1. j \in DOMAIN claims
        BY <2>2, <2>4, <3>1
      <4>2. i < j /\ i > 0 /\ i \in Nat
        BY <2>1, <2>5, <3>1 DEF Appended
      <4> QED BY <1>0, <4>1, <4>2
    <3> QED BY <3>1
  <2>7. \A i, j \in DOMAIN claims' : claims'[j].sup = i =>
          /\ claims'[i].status = "SUPERSEDED"
          /\ claims'[j].group = claims'[i].group /\ claims'[j].target = claims'[i].target
    BY <2>3, <2>6 DEF Chained
  <2>8. \A i, j, k \in DOMAIN claims' : claims'[j].sup = i /\ claims'[k].sup = i => j = k
    BY <2>3, <2>6 DEF Chained
  <2>9. \A i \in DOMAIN claims' : claims'[i].status = "SUPERSEDED" => \E j \in DOMAIN claims' : claims'[j].sup = i
    BY <2>2, <2>3 DEF Chained
  <2> QED BY <2>5, <2>7, <2>8, <2>9 DEF Chained
<1>3. ASSUME NEW h, Superseded(h) PROVE Chained'
  <2>1. PICK c : CorrectedBy(h, c)
    BY <1>3 DEF Superseded
  <2>2. /\ DOMAIN claims' = 1..(n + 1) /\ claims'[n + 1] = c /\ h \in DOMAIN claims
        /\ c.group = claims[h].group /\ c.target = claims[h].target /\ c.sup = h /\ c.status = "ACTIVE"
        /\ claims[h].status = "ACTIVE" /\ claims'[h].status = "SUPERSEDED"
    BY <2>1 DEF CorrectedBy, Marked
  <2>3. \A j \in DOMAIN claims :
          /\ j \in DOMAIN claims' /\ j # n + 1
          /\ claims'[j].group = claims[j].group /\ claims'[j].target = claims[j].target
          /\ claims'[j].sup = claims[j].sup
          /\ claims'[j].status = IF j = h THEN "SUPERSEDED" ELSE claims[j].status
    BY <1>0, <2>1 DEF CorrectedBy, Marked
  <2>4. \A j \in DOMAIN claims' : j \in DOMAIN claims \/ j = n + 1
    BY <1>0, <2>2
  <2>5. \A j \in DOMAIN claims' : claims'[j].sup \in Nat /\ claims'[j].sup < j
    BY <1>0, <2>2, <2>3, <2>4 DEF Chained
  <2>6. \A i, j \in DOMAIN claims' : claims'[j].sup = i => i \in DOMAIN claims
    BY <1>0, <2>2, <2>4, <2>5
  <2>7. \A j \in DOMAIN claims : claims[j].sup # h
    BY <2>2 DEF Chained
  <2>8. \A i, j \in DOMAIN claims' : claims'[j].sup = i =>
          /\ claims'[i].status = "SUPERSEDED"
          /\ claims'[j].group = claims'[i].group /\ claims'[j].target = claims'[i].target
    <3>1. ASSUME NEW i \in DOMAIN claims', NEW j \in DOMAIN claims', claims'[j].sup = i
          PROVE  /\ claims'[i].status = "SUPERSEDED"
                 /\ claims'[j].group = claims'[i].group /\ claims'[j].target = claims'[i].target
      <4>1. i \in DOMAIN claims
        BY <2>6, <3>1
      <4>2. CASE j = n + 1
        BY <2>2, <2>3, <3>1, <4>2
      <4>3. CASE j \in DOMAIN claims
        BY <2>3, <3>1, <4>1, <4>3 DEF Chained
      <4> QED BY <2>4, <4>2, <4>3
    <3> QED BY <3>1
  <2>9. \A i, j, k \in DOMAIN claims' : claims'[j].sup = i /\ claims'[k].sup = i => j = k
    BY <2>2, <2>3, <2>4, <2>6, <2>7 DEF Chained
  <2>10. \A i \in DOMAIN claims' : claims'[i].status = "SUPERSEDED" => \E j \in DOMAIN claims' : claims'[j].sup = i
    <3>1. ASSUME NEW i \in DOMAIN claims', claims'[i].status = "SUPERSEDED"
          PROVE  \E j \in DOMAIN claims' : claims'[j].sup = i
      <4>1. i \in DOMAIN claims
        BY <2>2, <2>4, <3>1
      <4>2. CASE i = h
        <5>1. n + 1 \in DOMAIN claims'
          BY <1>0, <2>2
        <5> QED BY <2>2, <4>2, <5>1
      <4>3. CASE i # h
        BY <2>3, <3>1, <4>1, <4>3 DEF Chained
      <4> QED BY <4>2, <4>3
    <3> QED BY <3>1
  <2> QED BY <2>5, <2>8, <2>9, <2>10 DEF Chained
<1>4. ASSUME NEW h, Invalidated(h) PROVE Chained'
  <2>1. /\ DOMAIN claims' = DOMAIN claims /\ h \in DOMAIN claims /\ claims[h].status = "ACTIVE"
        /\ \A j \in DOMAIN claims :
             /\ claims'[j].group = claims[j].group /\ claims'[j].target = claims[j].target
             /\ claims'[j].sup = claims[j].sup
             /\ claims'[j].status = IF j = h THEN "INVALIDATED" ELSE claims[j].status
    BY <1>4 DEF Invalidated, Marked
  <2>2. \A j \in DOMAIN claims : claims[j].sup # h
    BY <2>1 DEF Chained
  <2> QED BY <2>1, <2>2 DEF Chained
<1> QED BY <1>1, <1>2, <1>3, <1>4 DEF StoreStep, EvidenceStays, SnapshotTaken, RowRebuilt

LEMMA ChainsForm ==
  ASSUME EvidenceTyped, Chained
  PROVE  Evidence!CorrectionsFormChains
<1> SUFFICES ASSUME NEW i \in DOMAIN claims
             PROVE  LET next == {j \in DOMAIN claims : claims[j].sup = i}
                    IN /\ Evidence!Cardinality(next) = IF claims[i].status = "SUPERSEDED" THEN 1 ELSE 0
                       /\ \A j \in next : j > i /\ claims[j].group = claims[i].group
                                              /\ claims[j].target = claims[i].target
  BY DEF Evidence!CorrectionsFormChains
<1> DEFINE next == {j \in DOMAIN claims : claims[j].sup = i}
<1>1. \A S : Evidence!Cardinality(S) = Cardinality(S)
  BY DEF Evidence!Cardinality, Cardinality
<1>2. \A j \in next : j > i /\ claims[j].group = claims[i].group /\ claims[j].target = claims[i].target
  <2>1. \A j \in next : i < j /\ i \in Nat /\ j \in Nat
    BY DEF Chained, EvidenceTyped, ClaimsTyped
  <2> QED BY <2>1 DEF Chained
<1>3. CASE claims[i].status = "SUPERSEDED"
  <2>1. PICK j \in DOMAIN claims : claims[j].sup = i
    BY <1>3 DEF Chained
  <2>2. next = {j}
    BY <2>1 DEF Chained
  <2>3. Cardinality(next) = 1
    BY <2>2, FS_Singleton
  <2> QED BY <1>1, <1>2, <1>3, <2>3
<1>4. CASE claims[i].status # "SUPERSEDED"
  <2>1. next = {}
    BY <1>4 DEF Chained
  <2>2. Cardinality(next) = 0
    BY <2>1, FS_EmptySet
  <2> QED BY <1>1, <1>2, <1>4, <2>2
<1> QED BY <1>3, <1>4

Originals(a) == {i \in DOMAIN claims : claims[i].group = Evidence!Taught(a) /\ claims[i].sup = 0}

\* The claims of an attempt are inserted with the commit of its group, once.
GroupsOnce ==
  \A a \in Attempts :
    /\ commitAt[Evidence!Taught(a)] = 0 => Originals(a) = {}
    /\ commitAt[Evidence!Taught(a)] # 0 =>
         /\ proposal[a].status # "none" /\ proposal[a].kind \in {"ok", "alternative"}
         /\ Cardinality(Originals(a)) = Len(Evidence!TeachingClaims(a))

\* What is retried or committed was proposed, and a process that settles
\* knows how the commit ended.
FlowSound(f, p, c) ==
  /\ f.at \in {"group", "settle"} => p[f.attempt].status # "none"
  /\ f.at \in {"retry", "group", "settle"} => \A a \in f.todo : p[a].status # "none"
  /\ f.at = "settle" =>
       \/ f.verdict = "COMMITTED" /\ c[Evidence!Taught(f.attempt)] # 0
       \/ f.verdict = "REJECTED" /\ p[f.attempt].kind = "invalid"
       \/ f.verdict = "PENDING" /\ p[f.attempt].kind = "integrity"

FlowsSound == \A e \in Evidence!Epochs : FlowSound(flow[e], proposal, commitAt)

RowsSettled ==
  \A a \in Attempts :
    /\ proposal[a].status = "COMMITTED" => commitAt[Evidence!Taught(a)] # 0
    /\ proposal[a].status = "REJECTED" => proposal[a].kind = "invalid"

SettlementInv == GroupsOnce /\ FlowsSound /\ RowsSettled

\* What was proposed stays as it was proposed, what was committed stays.
CommitsStand == \A g \in Evidence!Groups : commitAt[g] # 0 => commitAt'[g] # 0

ProposalsStand ==
  \A a \in Attempts : proposal[a].status # "none" =>
    /\ proposal'[a].status # "none" /\ proposal'[a].kind = proposal[a].kind
    /\ proposal'[a].target = proposal[a].target /\ proposal'[a].by = proposal[a].by

LEMMA StoreStepStands == ASSUME EvidenceTyped, StoreStep PROVE CommitsStand
<1>1. CASE UNCHANGED commitAt
  BY <1>1 DEF CommitsStand
<1>2. ASSUME NEW g \in Evidence!Groups, NEW new, GroupCommit(g, new) PROVE CommitsStand
  <2>1. commitAt'[g] = watermark + 1 /\ \A h \in Evidence!Groups : h # g => commitAt'[h] = commitAt[h]
    BY <1>2, GroupCommitDoes
  <2>2. watermark + 1 # 0
    BY DEF EvidenceTyped, MarksTyped
  <2> QED BY <2>1, <2>2 DEF CommitsStand
<1> QED BY <1>1, <1>2 DEF StoreStep, EvidenceStays, SnapshotTaken, RowRebuilt, Superseded, Invalidated

LEMMA GroupNames ==
  /\ \A a \in Attempts : Evidence!Taught(a) \in Evidence!Groups
  /\ \A t \in Turns : Evidence!Silent(t) \in Evidence!Groups
  /\ \A a, b : Evidence!Taught(a) = Evidence!Taught(b) => a = b
  /\ \A t, u : Evidence!Silent(t) = Evidence!Silent(u) => t = u
  /\ \A a, t : Evidence!Taught(a) # Evidence!Silent(t)
  /\ \A a : Evidence!Taught(a)[1] = "taught"
  /\ \A t : Evidence!Silent(t)[1] = "silent"
  BY DEF Evidence!Groups, Evidence!Taught, Evidence!Silent

LEMMA FlowSoundStands ==
  ASSUME NEW f, FlowShaped(f), FlowSound(f, proposal, commitAt), CommitsStand, ProposalsStand
  PROVE  FlowSound(f, proposal', commitAt')
<1>1. /\ f.at \in {"group", "settle"} => f.attempt \in Attempts
      /\ f.at \in {"retry", "group", "settle"} => f.todo \subseteq Attempts
  BY FlowForms
<1> QED BY <1>1, GroupNames DEF FlowSound, CommitsStand, ProposalsStand

LEMMA FlowsSoundMoved ==
  ASSUME EvidenceTyped, FlowsSound, NEW e \in Evidence!Epochs, NEW f, FlowShaped(f),
         flow' = [flow EXCEPT ![e] = f], CommitsStand, ProposalsStand,
         FlowSound(f, proposal', commitAt')
  PROVE  FlowsSound'
<1>1. flow'[e] = f /\ \A d \in Evidence!Epochs : d # e => flow'[d] = flow[d]
  BY FlowSteps DEF EvidenceTyped
<1>2. ASSUME NEW d \in Evidence!Epochs PROVE FlowSound(flow[d], proposal', commitAt')
  BY FlowSoundStands DEF FlowsSound, EvidenceTyped, FlowsTyped
<1>3. ASSUME NEW d \in Evidence!Epochs PROVE FlowSound(flow'[d], proposal', commitAt')
  BY <1>1, <1>2
<1> QED BY <1>3 DEF FlowsSound

LEMMA FlowsSoundStayed ==
  ASSUME EvidenceTyped, FlowsSound, flow' = flow, CommitsStand, ProposalsStand
  PROVE  FlowsSound'
<1>1. ASSUME NEW d \in Evidence!Epochs PROVE FlowSound(flow[d], proposal', commitAt')
  BY FlowSoundStands DEF FlowsSound, EvidenceTyped, FlowsTyped
<1> QED BY <1>1 DEF FlowsSound

LEMMA TeachingClaimsStand ==
  ASSUME NEW a, proposal'[a].kind = proposal[a].kind, proposal'[a].target = proposal[a].target
  PROVE  Evidence!TeachingClaims(a)' = Evidence!TeachingClaims(a)
  BY DEF Evidence!TeachingClaims, Evidence!Claim, Evidence!Taught

\* Corrections and the commits of other groups insert nothing for an attempt.
LEMMA OriginalsStand ==
  ASSUME EvidenceTyped, EvidenceTyped', StoreStep, NEW a \in Attempts,
         commitAt'[Evidence!Taught(a)] = commitAt[Evidence!Taught(a)]
  PROVE  Originals(a)' = Originals(a)
<1> DEFINE n == Len(claims)
<1>0. n \in Nat /\ DOMAIN claims = 1..n
  BY DEF EvidenceTyped, ClaimsTyped
<1>1. CASE claims' = claims /\ commitAt' = commitAt
  BY <1>1 DEF Originals, Evidence!Taught
<1>2. ASSUME NEW g \in Evidence!Groups, NEW new, GroupCommit(g, new)
      PROVE  Originals(a)' = Originals(a)
  <2>1. Appended(new) /\ g # Evidence!Taught(a)
    <3>1. Appended(new) /\ commitAt'[g] = watermark + 1
      BY <1>2, GroupCommitDoes
    <3>2. commitAt[g] \in 0..watermark /\ watermark \in Nat
      BY DEF EvidenceTyped, MarksTyped
    <3> QED BY <3>1, <3>2
  <2>2. \A j \in DOMAIN claims' : j \notin DOMAIN claims => claims'[j].group = g
    BY <1>2, <2>1 DEF Appended, GroupCommit
  <2>3. \A j \in DOMAIN claims : j \in DOMAIN claims' /\ claims'[j] = claims[j]
    BY <2>1 DEF Appended
  <2> QED BY <2>1, <2>2, <2>3, GroupNames DEF Originals, Evidence!Taught
<1>3. ASSUME NEW h, Superseded(h)
      PROVE  Originals(a)' = Originals(a)
  <2>1. PICK c : CorrectedBy(h, c)
    BY <1>3 DEF Superseded
  <2>2. /\ DOMAIN claims' = 1..(n + 1) /\ claims'[n + 1] = c /\ c.sup = h /\ h # 0
    BY <1>0, <2>1 DEF CorrectedBy
  <2>3. \A j \in DOMAIN claims : claims'[j].group = claims[j].group /\ claims'[j].sup = claims[j].sup
    BY <2>1 DEF CorrectedBy, Marked
  <2>4. \A j : j \in DOMAIN claims' <=> j \in DOMAIN claims \/ j = n + 1
    BY <1>0, <2>2
  <2> QED BY <1>3, <2>2, <2>3, <2>4 DEF Originals, Evidence!Taught, Superseded
<1>4. ASSUME NEW h, Invalidated(h)
      PROVE  Originals(a)' = Originals(a)
  BY <1>4 DEF Invalidated, Marked, Originals, Evidence!Taught
<1> QED BY <1>1, <1>2, <1>3, <1>4 DEF StoreStep, EvidenceStays, SnapshotTaken, RowRebuilt

LEMMA PairSize == \A x, y : x # y => Cardinality({x, y}) = 2
<1> SUFFICES ASSUME NEW x, NEW y, x # y PROVE Cardinality({x, y}) = 2
  OBVIOUS
<1>1. IsFiniteSet({x}) /\ Cardinality({x}) = 1
  BY FS_Singleton
<1>2. {x, y} = {x} \cup {y} /\ y \notin {x}
  OBVIOUS
<1>3. Cardinality({x} \cup {y}) = Cardinality({x}) + 1
  BY <1>1, <1>2, FS_AddElement
<1> QED BY <1>1, <1>2, <1>3

LEMMA OriginalsInserted ==
  ASSUME EvidenceTyped, NEW a \in Attempts, proposal[a].status # "none", Originals(a) = {},
         GroupCommit(Evidence!Taught(a), Evidence!TeachingClaims(a))
  PROVE  Cardinality(Originals(a)') = Len(Evidence!TeachingClaims(a))
<1> DEFINE n == Len(claims)
           new == Evidence!TeachingClaims(a)
<1>1. Appended(new) /\ n \in Nat
  BY GroupCommitDoes, GroupNames DEF EvidenceTyped, ClaimsTyped
<1>2. Len(new) \in {1, 2}
  BY TeachingClaimsAre
<1>3. \A k \in 1..Len(new) : new[k].group = Evidence!Taught(a) /\ new[k].sup = 0
  BY DEF GroupCommit
<1> HIDE DEF new
<1>4. \A j : j \in Originals(a)' <=> j \in (n + 1)..(n + Len(new))
  <2>1. ASSUME NEW j \in Originals(a)' PROVE j \in (n + 1)..(n + Len(new))
    <3>1. j \in DOMAIN claims' /\ claims'[j].group = Evidence!Taught(a) /\ claims'[j].sup = 0
      BY DEF Originals, Evidence!Taught
    <3>2. j \notin DOMAIN claims
      BY <1>1, <3>1 DEF Originals, Appended
    <3> QED BY <1>1, <1>2, <3>1, <3>2 DEF Appended
  <2>2. ASSUME NEW j \in (n + 1)..(n + Len(new)) PROVE j \in Originals(a)'
    <3>1. j - n \in 1..Len(new) /\ j = n + (j - n)
      BY <1>1, <1>2
    <3>2. j \in DOMAIN claims' /\ claims'[j] = new[j - n]
      BY <1>1, <3>1 DEF Appended
    <3> QED BY <1>3, <3>1, <3>2 DEF Originals, Evidence!Taught
  <2> QED BY <2>1, <2>2
<1>5. CASE Len(new) = 1
  <2>1. Originals(a)' = {n + 1}
    BY <1>1, <1>4, <1>5
  <2> QED BY <1>5, <2>1, FS_Singleton DEF new
<1>6. CASE Len(new) = 2
  <2>1. Originals(a)' = {n + 1, n + 2} /\ n + 1 # n + 2
    BY <1>1, <1>4, <1>6
  <2>2. Cardinality({n + 1, n + 2}) = 2
    <3> DEFINE x == n + 1
               y == n + 2
    <3>1. x # y
      BY <2>1
    <3> HIDE DEF x, y
    <3>2. Cardinality({x, y}) = 2
      BY <3>1, PairSize, Zenon
    <3> QED BY <3>2 DEF x, y
  <2> QED BY <1>6, <2>1, <2>2 DEF new
<1> QED BY <1>2, <1>5, <1>6

\* A step that commits no teaching group and changes no proposal.
LEMMA SettlementQuiet ==
  ASSUME EvidenceTyped, EvidenceTyped', StoreStep, SettlementInv, FlowsSound',
         UNCHANGED proposal,
         \A a \in Attempts : commitAt'[Evidence!Taught(a)] = commitAt[Evidence!Taught(a)]
  PROVE  SettlementInv'
<1>1. \A a \in Attempts : Originals(a)' = Originals(a)
  BY OriginalsStand
<1>2. \A a \in Attempts : Evidence!TeachingClaims(a)' = Evidence!TeachingClaims(a)
  BY TeachingClaimsStand
<1>3. \A a \in Attempts : Evidence!Taught(a)' = Evidence!Taught(a)
  BY DEF Evidence!Taught
<1>4. GroupsOnce'
  BY <1>1, <1>2, <1>3 DEF SettlementInv, GroupsOnce
<1>5. RowsSettled'
  BY <1>3 DEF SettlementInv, RowsSettled
<1> QED BY <1>4, <1>5 DEF SettlementInv

LEMMA QuietFlowSound ==
  ASSUME NEW f, NEW p, NEW c, f.at \notin {"group", "settle", "retry"}
  PROVE  FlowSound(f, p, c)
  BY DEF FlowSound

LEMMA SettlementKept ==
  ASSUME EvidenceTyped, SettlementInv, Evidence!Next
  PROVE  SettlementInv'
<1>0. FlowsProposed
  BY DEF SettlementInv, FlowsSound, FlowSound, FlowsProposed
<1>1. EvidenceTyped' /\ StoreStep /\ CommitsStand
  BY <1>0, EvidenceStep, StoreStepStands
<1>2. ASSUME UNCHANGED proposal PROVE ProposalsStand
  BY <1>2 DEF ProposalsStand
<1>3. ASSUME UNCHANGED <<proposal, commitAt>>, NEW e \in Evidence!Epochs, NEW f, FlowShaped(f),
             flow' = [flow EXCEPT ![e] = f], FlowSound(f, proposal, commitAt)
      PROVE  SettlementInv'
  <2>1. FlowsSound'
    BY <1>1, <1>2, <1>3, FlowsSoundMoved DEF SettlementInv
  <2> QED BY <1>1, <1>3, <2>1, SettlementQuiet
<1>4. ASSUME UNCHANGED <<proposal, commitAt, flow>> PROVE SettlementInv'
  <2>1. FlowsSound'
    BY <1>1, <1>2, <1>4, FlowsSoundStayed DEF SettlementInv
  <2> QED BY <1>1, <1>4, <2>1, SettlementQuiet
<1>5. CASE Evidence!Start
  <2> DEFINE f == [at |-> "retry", todo |-> {a \in Attempts : proposal[a].status = "PENDING"}]
  <2>1. /\ epoch + 1 \in Evidence!Epochs /\ flow' = [flow EXCEPT ![epoch + 1] = f]
        /\ UNCHANGED <<proposal, commitAt>>
    BY <1>5, EvidenceAssumption DEF Evidence!Start, EvidenceTyped, EpochsTyped, Evidence!Epochs
  <2>2. FlowShaped(f) /\ FlowSound(f, proposal, commitAt)
    BY DEF FlowShaped, FlowSound
  <2> HIDE DEF f
  <2> QED BY <1>3, <2>1, <2>2
<1>6. ASSUME NEW e \in Evidence!Epochs, Evidence!Die(e) \/ Evidence!Refused(e) PROVE SettlementInv'
  <2>1. PICK f \in {Evidence!Down, Evidence!Idle} :
           FlowMoves(e, f) /\ UNCHANGED <<ready, opportunity, artifact, proposal>> /\ EvidenceStays
    BY <1>6, EndedFlow
  <2>2. FlowSound(f, proposal, commitAt)
    BY DEF Evidence!Down, Evidence!Idle, FlowSound
  <2> QED BY <1>3, <2>1, <2>2 DEF FlowMoves, EvidenceStays
<1>7. ASSUME NEW e \in Evidence!Epochs, Evidence!RebuildSilentTarget(e) \/ Evidence!ProposeNothing(e)
      PROVE  SettlementInv'
  <2>1. FlowMoves(e, Evidence!Idle) /\ UNCHANGED <<proposal, commitAt>>
    BY <1>7, SilentRebuildDoes, NothingProposedDoes DEF EvidenceStays
  <2>2. FlowSound(Evidence!Idle, proposal, commitAt)
    BY DEF Evidence!Idle, FlowSound
  <2> QED BY <1>3, <2>1, <2>2 DEF FlowMoves
<1>8. ASSUME NEW e \in Evidence!Epochs, Evidence!CommitGroup(e) PROVE SettlementInv'
  <2>1. PICK a \in Attempts, v \in Evidence!Verdicts :
          /\ flow[e].at = "group" /\ flow[e].attempt = a
          /\ FlowMoves(e, [at |-> "settle", attempt |-> a, verdict |-> v, todo |-> flow[e].todo])
          /\ UNCHANGED proposal /\ GroupOutcome(a, v)
    BY <1>0, <1>8, CommitGroupDoes
  <2> DEFINE f == [at |-> "settle", attempt |-> a, verdict |-> v, todo |-> flow[e].todo]
  <2>2. proposal[a].status # "none"
    BY <1>0, <2>1 DEF FlowsProposed
  <2>3. f.at = "settle" /\ f.attempt = a /\ f.verdict = v
    OBVIOUS
  <2>t. f.todo = flow[e].todo /\ \A b \in flow[e].todo : proposal[b].status # "none"
    BY <2>1 DEF SettlementInv, FlowsSound, FlowSound
  <2> HIDE DEF f
  <2>4. GroupCommit(Evidence!Taught(a), Evidence!TeachingClaims(a)) => commitAt'[Evidence!Taught(a)] # 0
    <3>1. GroupCommit(Evidence!Taught(a), Evidence!TeachingClaims(a))
             => commitAt'[Evidence!Taught(a)] = watermark + 1
      BY GroupCommitDoes, GroupNames
    <3> QED BY <3>1 DEF EvidenceTyped, MarksTyped
  <2>5. FlowSound(f, proposal', commitAt')
    BY <2>1, <2>2, <2>3, <2>4, <2>t DEF FlowSound, GroupOutcome, EvidenceStays
  <2>6. FlowsSound'
    BY <1>1, <1>2, <2>1, <2>5, FlowsSoundMoved DEF SettlementInv, FlowMoves, f
  <2>7. CASE EvidenceStays
    BY <1>1, <2>1, <2>6, <2>7, SettlementQuiet DEF EvidenceStays
  <2>8. CASE /\ proposal[a].kind \in {"ok", "alternative"} /\ commitAt[Evidence!Taught(a)] = 0
             /\ GroupCommit(Evidence!Taught(a), Evidence!TeachingClaims(a))
    <3>1. \A b \in Attempts : b # a => commitAt'[Evidence!Taught(b)] = commitAt[Evidence!Taught(b)]
      BY <2>8, GroupCommitDoes, GroupNames
    <3>2. \A b \in Attempts : b # a => Originals(b)' = Originals(b)
      BY <1>1, <3>1, OriginalsStand
    <3>3. \A b \in Attempts : Evidence!TeachingClaims(b)' = Evidence!TeachingClaims(b)
      BY <2>1, TeachingClaimsStand
    <3>4. \A b \in Attempts : Evidence!Taught(b)' = Evidence!Taught(b)
      BY DEF Evidence!Taught
    <3>5. Originals(a) = {}
      BY <2>8 DEF SettlementInv, GroupsOnce
    <3>6. Cardinality(Originals(a)') = Len(Evidence!TeachingClaims(a))
      BY <2>2, <2>8, <3>5, OriginalsInserted
    <3>7. GroupsOnce'
      <4> SUFFICES ASSUME NEW b \in Attempts
                   PROVE  (/\ commitAt[Evidence!Taught(b)] = 0 => Originals(b) = {}
                           /\ commitAt[Evidence!Taught(b)] # 0 =>
                                /\ proposal[b].status # "none" /\ proposal[b].kind \in {"ok", "alternative"}
                                /\ Cardinality(Originals(b)) = Len(Evidence!TeachingClaims(b)))'
        BY DEF GroupsOnce
      <4>1. CASE b = a
        BY <2>1, <2>2, <2>4, <2>8, <3>3, <3>4, <3>6, <4>1
      <4>2. CASE b # a
        BY <2>1, <3>1, <3>2, <3>3, <3>4, <4>2 DEF SettlementInv, GroupsOnce
      <4> QED BY <4>1, <4>2
    <3>8. RowsSettled'
      BY <1>1, <2>1, <3>4, GroupNames DEF SettlementInv, RowsSettled, CommitsStand
    <3> QED BY <2>6, <3>7, <3>8 DEF SettlementInv
  <2> QED BY <2>1, <2>7, <2>8 DEF GroupOutcome
<1>9. ASSUME NEW e \in Evidence!Epochs, Evidence!Settle(e) PROVE SettlementInv'
  <2>1. PICK a \in Attempts :
         /\ flow[e].at = "settle" /\ flow[e].attempt = a
         /\ FlowMoves(e, IF e \in ready THEN Evidence!Idle ELSE [at |-> "retry", todo |-> flow[e].todo])
         /\ \A b \in Attempts :
              /\ proposal'[b].kind = proposal[b].kind /\ proposal'[b].by = proposal[b].by
              /\ proposal'[b].target = proposal[b].target
              /\ proposal'[b].status = IF b = a /\ proposal[b].status = "PENDING"
                                       THEN flow[e].verdict ELSE proposal[b].status
         /\ EvidenceStays
    BY <1>9, SettleDoes
  <2> DEFINE f == IF e \in ready THEN Evidence!Idle ELSE [at |-> "retry", todo |-> flow[e].todo]
  <2>3. FlowSound(flow[e], proposal, commitAt)
    BY DEF SettlementInv, FlowsSound
  <2>2. f.at \notin {"group", "settle"} /\ (f.at = "retry" => f.todo = flow[e].todo)
    BY DEF Evidence!Idle
  <2>t. flow[e].todo \subseteq Attempts /\ \A b \in flow[e].todo : proposal[b].status # "none"
    BY <2>1, <2>3, FlowForms DEF EvidenceTyped, FlowsTyped, FlowSound
  <2> HIDE DEF f
  <2>4. ProposalsStand
    BY <2>1, <2>3 DEF ProposalsStand, FlowSound
  <2>5. FlowSound(f, proposal', commitAt')
    BY <2>2, <2>4, <2>t DEF FlowSound, ProposalsStand
  <2>6. FlowsSound'
    BY <1>1, <2>1, <2>4, <2>5, FlowsSoundMoved DEF SettlementInv, FlowMoves, f
  <2>7. \A b \in Attempts : Originals(b)' = Originals(b)
    BY <1>1, <2>1, OriginalsStand DEF EvidenceStays
  <2>8. \A b \in Attempts : Evidence!TeachingClaims(b)' = Evidence!TeachingClaims(b)
    BY <2>1, TeachingClaimsStand
  <2>9. \A b \in Attempts : Evidence!Taught(b)' = Evidence!Taught(b)
    BY DEF Evidence!Taught
  <2>10. GroupsOnce'
    BY <2>1, <2>4, <2>7, <2>8, <2>9 DEF SettlementInv, GroupsOnce, ProposalsStand, EvidenceStays
  <2>11. RowsSettled'
    BY <2>1, <2>3, <2>9 DEF SettlementInv, RowsSettled, FlowSound, EvidenceStays
  <2> QED BY <2>6, <2>10, <2>11 DEF SettlementInv
<1>10. ASSUME NEW e \in Evidence!Epochs, Evidence!RetryNext(e) PROVE SettlementInv'
  <2>1. /\ flow[e].at = "retry" /\ EvidenceStays /\ UNCHANGED proposal
        /\ \A a \in flow[e].todo : proposal[a].status # "none"
    BY <1>10, RetryDoes DEF SettlementInv, FlowsSound, FlowSound
  <2>2. CASE FlowMoves(e, Evidence!Idle)
    <3>1. FlowSound(Evidence!Idle, proposal, commitAt)
      BY DEF Evidence!Idle, FlowSound
    <3> QED BY <1>3, <2>1, <2>2, <3>1 DEF FlowMoves, EvidenceStays
  <2>3. ASSUME NEW a \in flow[e].todo,
               FlowMoves(e, [at |-> "group", attempt |-> a, verdict |-> "none", todo |-> flow[e].todo \ {a}])
        PROVE  SettlementInv'
    <3> DEFINE f == [at |-> "group", attempt |-> a, verdict |-> "none", todo |-> flow[e].todo \ {a}]
    <3>1. FlowSound(f, proposal, commitAt)
      BY <2>1 DEF FlowSound
    <3> HIDE DEF f
    <3> QED BY <1>3, <2>1, <2>3, <3>1 DEF FlowMoves, EvidenceStays, f
  <2> QED BY <1>10, <2>2, <2>3, RetryDoes
<1>11. ASSUME NEW e \in Evidence!Epochs, Evidence!BeginRepair(e) PROVE SettlementInv'
  <2> DEFINE f == [at |-> "repair", todo |-> Evidence!StaleRows]
  <2>1. FlowMoves(e, f) /\ UNCHANGED <<proposal, commitAt>>
    BY <1>11, BeginRepairDoes DEF EvidenceStays
  <2>2. FlowSound(f, proposal, commitAt)
    BY DEF FlowSound
  <2> HIDE DEF f
  <2> QED BY <1>3, <2>1, <2>2 DEF FlowMoves
<1>12. ASSUME NEW e \in Evidence!Epochs, Evidence!TakeSnapshot(e) PROVE SettlementInv'
  BY <1>4, <1>12 DEF Evidence!TakeSnapshot
<1>13. ASSUME NEW e \in Evidence!Epochs, NEW t \in Turns, NEW T \in Targets \cup {NoTarget},
              Evidence!RecordAnalysis(e, t, T)
       PROVE  SettlementInv'
  <2> DEFINE f == [at |-> "commit", turn |-> t, target |-> T]
  <2>1. FlowMoves(e, f) /\ UNCHANGED <<proposal, commitAt>>
    BY <1>13, RecordAnalysisDoes DEF EvidenceStays
  <2>2. FlowSound(f, proposal, commitAt)
    BY DEF FlowSound
  <2> HIDE DEF f
  <2> QED BY <1>3, <2>1, <2>2 DEF FlowMoves
<1>14. ASSUME NEW e \in Evidence!Epochs, NEW refused \in BOOLEAN, Evidence!CommitAnalysis(e, refused)
       PROVE  SettlementInv'
  <2>1. PICK t \in Turns : /\ UNCHANGED proposal
                           /\ AnalysisRefused(e, t) \/ AnalysisCommitted(e, t)
    BY <1>14, CommitAnalysisDoes
  <2>2. \E f : /\ f.at \notin {"group", "settle", "retry"}
                /\ FlowMoves(e, f)
    BY <2>1 DEF AnalysisRefused, AnalysisCommitted, Evidence!Idle
  <2>3. PICK f : f.at \notin {"group", "settle", "retry"} /\ FlowMoves(e, f)
    BY <2>2
  <2>4. FlowSound(f, proposal', commitAt')
    BY <2>3, QuietFlowSound
  <2>5. FlowsSound'
    BY <1>1, <1>2, <2>1, <2>3, <2>4, FlowsSoundMoved DEF SettlementInv, FlowMoves
  <2>6. \A a \in Attempts : commitAt'[Evidence!Taught(a)] = commitAt[Evidence!Taught(a)]
    <3>1. CASE EvidenceStays
      BY <3>1 DEF EvidenceStays
    <3>2. CASE GroupCommit(Evidence!Silent(t), Evidence!SilentClaims(t, artifact[t].target))
      BY <3>2, GroupCommitDoes, GroupNames
    <3> QED BY <2>1, <3>1, <3>2 DEF AnalysisRefused, AnalysisCommitted
  <2> QED BY <1>1, <2>1, <2>5, <2>6, SettlementQuiet
<1>15. ASSUME NEW e \in Evidence!Epochs, NEW a \in Attempts, Evidence!RecordOpportunity(e, a)
       PROVE  SettlementInv'
  <2> DEFINE f == [at |-> "propose", attempt |-> a]
  <2>1. FlowMoves(e, f) /\ UNCHANGED <<proposal, commitAt>>
    BY <1>15, OpportunityDoes DEF EvidenceStays
  <2>2. FlowSound(f, proposal, commitAt)
    BY DEF FlowSound
  <2> HIDE DEF f
  <2> QED BY <1>3, <2>1, <2>2 DEF FlowMoves
<1>16. ASSUME NEW e \in Evidence!Epochs, NEW T \in Targets, Evidence!RepairNext(e, T)
       PROVE  SettlementInv'
  <2>1. PICK f : FlowMoves(e, f) /\ f.at \in {"idle", "repair"}
    BY <1>16, RepairDoes
  <2>2. FlowSound(f, proposal, commitAt) /\ UNCHANGED <<proposal, commitAt>>
    BY <1>16, <2>1, RepairDoes, QuietFlowSound
  <2> QED BY <1>3, <2>1, <2>2 DEF FlowMoves
<1>17. ASSUME NEW e \in Evidence!Epochs, NEW T \in Targets, NEW kind \in Evidence!Kinds,
              Evidence!RecordProposal(e, kind, T)
       PROVE  SettlementInv'
  <2>1. PICK a \in Attempts :
         /\ EvidenceTyped' /\ e = epoch /\ flow[e] = [at |-> "propose", attempt |-> a]
         /\ FlowMoves(e, [at |-> "group", attempt |-> a, verdict |-> "none", todo |-> {}])
         /\ proposal[a].status = "none"
         /\ proposal'[a] = [status |-> "PENDING", kind |-> kind, target |-> T, by |-> e]
         /\ \A b \in Attempts : b # a => proposal'[b] = proposal[b]
         /\ EvidenceStays /\ UNCHANGED <<ready, artifact, opportunity, lost>>
    BY <1>17, ProposalDoes, Zenon
  <2> DEFINE f == [at |-> "group", attempt |-> a, verdict |-> "none", todo |-> {}]
  <2>2. proposal'[a].status = "PENDING"
    BY <2>1
  <2>3. ProposalsStand
    BY <2>1 DEF ProposalsStand
  <2>4. FlowSound(f, proposal', commitAt')
    BY <2>2 DEF FlowSound
  <2> HIDE DEF f
  <2>5. FlowsSound'
    BY <1>1, <2>1, <2>3, <2>4, FlowsSoundMoved DEF SettlementInv, FlowMoves, f
  <2>6. commitAt[Evidence!Taught(a)] = 0
    BY <2>1 DEF SettlementInv, GroupsOnce
  <2>7. \A b \in Attempts : Originals(b)' = Originals(b)
    BY <1>1, <2>1, OriginalsStand DEF EvidenceStays
  <2>8. \A b \in Attempts : b # a => Evidence!TeachingClaims(b)' = Evidence!TeachingClaims(b)
    BY <2>1, TeachingClaimsStand
  <2>9. \A b \in Attempts : Evidence!Taught(b)' = Evidence!Taught(b)
    BY DEF Evidence!Taught
  <2>10. GroupsOnce'
    BY <2>1, <2>6, <2>7, <2>8, <2>9 DEF SettlementInv, GroupsOnce, EvidenceStays
  <2>11. RowsSettled'
    BY <2>1, <2>2, <2>9 DEF SettlementInv, RowsSettled, EvidenceStays
  <2> QED BY <2>5, <2>10, <2>11 DEF SettlementInv
<1>18. ASSUME NEW e \in Evidence!Epochs, NEW i \in DOMAIN claims,
              Evidence!Supersede(e, i) \/ Evidence!Invalidate(e, i)
       PROVE  SettlementInv'
  BY <1>4, <1>18 DEF Evidence!Supersede, Evidence!Invalidate
<1> QED BY <1>5, <1>6, <1>7, <1>8, <1>9, <1>10, <1>11, <1>12, <1>13, <1>14, <1>15, <1>16, <1>17,
           <1>18 DEF Evidence!Next

\* A turn that is being analysed has its artifact, and no other process has it.
AnalysesCommitted ==
  \A t \in Turns : (artifact[t].status = "COMMITTED") <=> (commitAt[Evidence!Silent(t)] # 0)
AnalysesProduced ==
  \A e \in Evidence!Epochs : flow[e].at = "commit" => artifact[flow[e].turn].status = "PRODUCED"
AnalysesApart ==
  \A e, d \in Evidence!Epochs :
    flow[e].at = "commit" /\ flow[d].at = "commit" /\ flow[e].turn = flow[d].turn => e = d
AnalysisInv == AnalysesCommitted /\ AnalysesProduced /\ AnalysesApart

\* Evidence an older process left and the newest one has yet to retry.
Awaiting(a) ==
  proposal[a].status = "PENDING" /\ proposal[a].kind # "integrity" /\ proposal[a].by # epoch

\* The startup retry has everything that awaits it on its list or in hand.
RetryInv ==
  /\ epoch \in ready => \A a \in Attempts : ~Awaiting(a)
  /\ epoch \in Evidence!Epochs /\ epoch \notin ready =>
       /\ flow[epoch].at \in {"down", "retry", "group", "settle"}
       /\ flow[epoch].at = "retry" => \A a \in Attempts : Awaiting(a) => a \in flow[epoch].todo
       /\ flow[epoch].at \in {"group", "settle"} =>
            \A a \in Attempts : Awaiting(a) => a \in flow[epoch].todo \/ a = flow[epoch].attempt

LEMMA AnalysisQuiet ==
  ASSUME EvidenceTyped, AnalysisInv, UNCHANGED artifact, NEW e \in Evidence!Epochs, NEW f,
         FlowShaped(f), flow' = [flow EXCEPT ![e] = f] \/ flow' = flow, f.at # "commit",
         \A t \in Turns : commitAt'[Evidence!Silent(t)] = commitAt[Evidence!Silent(t)]
  PROVE  AnalysisInv'
<1>1. \A d \in Evidence!Epochs : flow'[d] = flow[d] \/ flow'[d] = f
  BY FlowSteps DEF EvidenceTyped
<1>2. \A t \in Turns : Evidence!Silent(t)' = Evidence!Silent(t)
  BY DEF Evidence!Silent
<1>3. AnalysesCommitted'
  BY <1>2 DEF AnalysisInv, AnalysesCommitted
<1>4. AnalysesProduced'
  BY <1>1 DEF AnalysisInv, AnalysesProduced
<1>5. AnalysesApart'
  BY <1>1 DEF AnalysisInv, AnalysesApart
<1> QED BY <1>3, <1>4, <1>5 DEF AnalysisInv

LEMMA AnalysisRecorded ==
  ASSUME EvidenceTyped, AnalysisInv, NEW e \in Evidence!Epochs, NEW t \in Turns,
         NEW T \in Targets \cup {NoTarget}, Evidence!RecordAnalysis(e, t, T)
  PROVE  AnalysisInv'
<1> DEFINE f == [at |-> "commit", turn |-> t, target |-> T]
<1>1. /\ FlowMoves(e, f) /\ artifact[t].status = "none" /\ artifact'[t].status = "PRODUCED"
      /\ \A u \in Turns : u # t => artifact'[u] = artifact[u]
      /\ EvidenceStays
  BY RecordAnalysisDoes
<1>2. f.turn = t
  OBVIOUS
<1> HIDE DEF f
<1>3. flow'[e] = f /\ \A d \in Evidence!Epochs : d # e => flow'[d] = flow[d]
  BY <1>1, FlowSteps DEF EvidenceTyped, FlowMoves
<1>4. \A d \in Evidence!Epochs : flow[d].at = "commit" => flow[d].turn \in Turns /\ flow[d].turn # t
  BY <1>1, FlowForms DEF EvidenceTyped, FlowsTyped, AnalysisInv, AnalysesProduced
<1>5. AnalysesCommitted'
  BY <1>1 DEF AnalysisInv, AnalysesCommitted, EvidenceStays, Evidence!Silent
<1>6. AnalysesProduced'
  BY <1>1, <1>2, <1>3, <1>4 DEF AnalysisInv, AnalysesProduced
<1>7. AnalysesApart'
  BY <1>2, <1>3, <1>4 DEF AnalysisInv, AnalysesApart
<1> QED BY <1>5, <1>6, <1>7 DEF AnalysisInv

LEMMA AnalysisSettled ==
  ASSUME EvidenceTyped, AnalysisInv, NEW e \in Evidence!Epochs, NEW refused \in BOOLEAN,
         Evidence!CommitAnalysis(e, refused)
  PROVE  AnalysisInv'
<1>1. PICK t \in Turns :
         /\ EvidenceTyped' /\ e = epoch /\ flow[e].at = "commit" /\ flow[e].turn = t
         /\ \A u \in Turns : u # t => artifact'[u] = artifact[u]
         /\ UNCHANGED <<ready, proposal, opportunity, lost>>
         /\ AnalysisRefused(e, t) \/ AnalysisCommitted(e, t)
  BY CommitAnalysisDoes, Zenon
<1>2. PICK f : FlowMoves(e, f) /\ f.at \in {"idle", "rebuild"}
  BY <1>1 DEF AnalysisRefused, AnalysisCommitted, Evidence!Idle
<1>3. flow'[e] = f /\ \A d \in Evidence!Epochs : d # e => flow'[d] = flow[d]
  BY <1>2, FlowSteps DEF EvidenceTyped, FlowMoves
<1>4. \A d \in Evidence!Epochs : d # e /\ flow[d].at = "commit" => flow[d].turn \in Turns /\ flow[d].turn # t
  BY <1>1, FlowForms DEF EvidenceTyped, FlowsTyped, AnalysisInv, AnalysesApart
<1>5. artifact[t].status = "PRODUCED"
  BY <1>1 DEF AnalysisInv, AnalysesProduced
<1>6. \A u \in Turns : Evidence!Silent(u)' = Evidence!Silent(u)
  BY DEF Evidence!Silent
<1>7. AnalysesCommitted'
  <2>1. CASE AnalysisRefused(e, t)
    BY <1>1, <1>5, <1>6, <2>1 DEF AnalysisRefused, EvidenceStays, AnalysisInv, AnalysesCommitted
  <2>2. CASE AnalysisCommitted(e, t)
    <3>1. /\ commitAt'[Evidence!Silent(t)] = watermark + 1
          /\ \A u \in Turns : u # t => commitAt'[Evidence!Silent(u)] = commitAt[Evidence!Silent(u)]
      BY <2>2, GroupCommitDoes, GroupNames DEF AnalysisCommitted
    <3>2. watermark + 1 # 0
      BY DEF EvidenceTyped, MarksTyped
    <3>3. artifact'[t].status = "COMMITTED"
      BY <2>2 DEF AnalysisCommitted
    <3> QED BY <1>1, <1>6, <3>1, <3>2, <3>3 DEF AnalysisInv, AnalysesCommitted
  <2> QED BY <1>1, <2>1, <2>2
<1>8. AnalysesProduced'
  BY <1>1, <1>2, <1>3, <1>4 DEF AnalysisInv, AnalysesProduced
<1>9. AnalysesApart'
  BY <1>2, <1>3 DEF AnalysisInv, AnalysesApart
<1> QED BY <1>7, <1>8, <1>9 DEF AnalysisInv

LEMMA AnalysisKept ==
  ASSUME EvidenceTyped, FlowsProposed, AnalysisInv, Evidence!Next
  PROVE  AnalysisInv'
<1>1. ASSUME UNCHANGED <<artifact, commitAt>>, NEW e \in Evidence!Epochs, NEW f, FlowShaped(f),
             flow' = [flow EXCEPT ![e] = f], f.at # "commit"
      PROVE  AnalysisInv'
  BY <1>1, AnalysisQuiet
<1>2. ASSUME UNCHANGED <<artifact, commitAt, flow>>, NEW e \in Evidence!Epochs PROVE AnalysisInv'
  <2>1. FlowShaped(Evidence!Idle) /\ Evidence!Idle.at # "commit"
    BY DEF FlowShaped, Evidence!Idle
  <2> QED BY <1>2, <2>1, AnalysisQuiet
<1>3. CASE Evidence!Start
  <2> DEFINE f == [at |-> "retry", todo |-> {a \in Attempts : proposal[a].status = "PENDING"}]
  <2>1. /\ epoch + 1 \in Evidence!Epochs /\ flow' = [flow EXCEPT ![epoch + 1] = f]
        /\ UNCHANGED <<artifact, commitAt>>
    BY <1>3, EvidenceAssumption DEF Evidence!Start, EvidenceTyped, EpochsTyped, Evidence!Epochs
  <2>2. FlowShaped(f) /\ f.at # "commit"
    BY DEF FlowShaped
  <2> HIDE DEF f
  <2> QED BY <1>1, <2>1, <2>2
<1>4. ASSUME NEW e \in Evidence!Epochs, Evidence!Die(e) \/ Evidence!Refused(e) PROVE AnalysisInv'
  <2>1. PICK f \in {Evidence!Down, Evidence!Idle} :
           FlowMoves(e, f) /\ UNCHANGED <<ready, opportunity, artifact, proposal>> /\ EvidenceStays
    BY <1>4, EndedFlow
  <2>2. f.at # "commit"
    BY DEF Evidence!Down, Evidence!Idle
  <2> QED BY <1>1, <2>1, <2>2 DEF FlowMoves, EvidenceStays
<1>5. ASSUME NEW e \in Evidence!Epochs, Evidence!RebuildSilentTarget(e) \/ Evidence!ProposeNothing(e)
      PROVE  AnalysisInv'
  <2>1. FlowMoves(e, Evidence!Idle) /\ UNCHANGED <<artifact, commitAt>>
    BY <1>5, SilentRebuildDoes, NothingProposedDoes DEF EvidenceStays
  <2>2. Evidence!Idle.at # "commit"
    BY DEF Evidence!Idle
  <2> QED BY <1>1, <2>1, <2>2 DEF FlowMoves
<1>6. ASSUME NEW e \in Evidence!Epochs, Evidence!CommitGroup(e) PROVE AnalysisInv'
  <2>1. PICK a \in Attempts, v \in Evidence!Verdicts :
          /\ FlowMoves(e, [at |-> "settle", attempt |-> a, verdict |-> v, todo |-> flow[e].todo])
          /\ UNCHANGED artifact /\ GroupOutcome(a, v)
    BY <1>6, CommitGroupDoes
  <2> DEFINE f == [at |-> "settle", attempt |-> a, verdict |-> v, todo |-> flow[e].todo]
  <2>2. f.at # "commit"
    OBVIOUS
  <2> HIDE DEF f
  <2>3. \A t \in Turns : commitAt'[Evidence!Silent(t)] = commitAt[Evidence!Silent(t)]
    <3>1. CASE EvidenceStays
      BY <3>1 DEF EvidenceStays
    <3>2. CASE GroupCommit(Evidence!Taught(a), Evidence!TeachingClaims(a))
      BY <3>2, GroupCommitDoes, GroupNames
    <3> QED BY <2>1, <3>1, <3>2 DEF GroupOutcome
  <2> QED BY <2>1, <2>2, <2>3, AnalysisQuiet DEF FlowMoves, f
<1>7. ASSUME NEW e \in Evidence!Epochs, Evidence!Settle(e) PROVE AnalysisInv'
  <2> DEFINE f == IF e \in ready THEN Evidence!Idle ELSE [at |-> "retry", todo |-> flow[e].todo]
  <2>1. FlowMoves(e, f) /\ UNCHANGED <<artifact, commitAt>>
    BY <1>7, SettleDoes DEF EvidenceStays
  <2>2. f.at # "commit"
    BY DEF Evidence!Idle
  <2> HIDE DEF f
  <2> QED BY <1>1, <2>1, <2>2 DEF FlowMoves
<1>8. ASSUME NEW e \in Evidence!Epochs, Evidence!RetryNext(e) PROVE AnalysisInv'
  <2>1. PICK f : FlowMoves(e, f) /\ f.at # "commit"
    <3>1. CASE FlowMoves(e, Evidence!Idle)
      BY <3>1 DEF Evidence!Idle
    <3>2. ASSUME NEW a, FlowMoves(e, [at |-> "group", attempt |-> a, verdict |-> "none",
                                       todo |-> flow[e].todo \ {a}])
          PROVE  \E f : FlowMoves(e, f) /\ f.at # "commit"
      BY <3>2
    <3> QED BY <1>8, <3>1, <3>2, RetryDoes
  <2>2. UNCHANGED <<artifact, commitAt>>
    BY <1>8, RetryDoes DEF EvidenceStays
  <2> QED BY <1>1, <2>1, <2>2 DEF FlowMoves
<1>9. ASSUME NEW e \in Evidence!Epochs, Evidence!BeginRepair(e) PROVE AnalysisInv'
  <2> DEFINE f == [at |-> "repair", todo |-> Evidence!StaleRows]
  <2>1. FlowMoves(e, f) /\ UNCHANGED <<artifact, commitAt>>
    BY <1>9, BeginRepairDoes DEF EvidenceStays
  <2>2. f.at # "commit"
    OBVIOUS
  <2> HIDE DEF f
  <2> QED BY <1>1, <2>1, <2>2 DEF FlowMoves
<1>10. ASSUME NEW e \in Evidence!Epochs, Evidence!TakeSnapshot(e) PROVE AnalysisInv'
  BY <1>2, <1>10 DEF Evidence!TakeSnapshot
<1>11. ASSUME NEW e \in Evidence!Epochs, NEW a \in Attempts, Evidence!RecordOpportunity(e, a)
       PROVE  AnalysisInv'
  <2> DEFINE f == [at |-> "propose", attempt |-> a]
  <2>1. FlowMoves(e, f) /\ UNCHANGED <<artifact, commitAt>>
    BY <1>11, OpportunityDoes DEF EvidenceStays
  <2>2. f.at # "commit"
    OBVIOUS
  <2> HIDE DEF f
  <2> QED BY <1>1, <2>1, <2>2 DEF FlowMoves
<1>12. ASSUME NEW e \in Evidence!Epochs, NEW T \in Targets, Evidence!RepairNext(e, T)
       PROVE  AnalysisInv'
  <2>1. PICK f : FlowMoves(e, f) /\ f.at \in {"idle", "repair"}
    BY <1>12, RepairDoes
  <2>2. UNCHANGED <<artifact, commitAt>>
    BY <1>12, RepairDoes
  <2> QED BY <1>1, <2>1, <2>2 DEF FlowMoves
<1>13. ASSUME NEW e \in Evidence!Epochs, NEW T \in Targets, NEW kind \in Evidence!Kinds,
              Evidence!RecordProposal(e, kind, T)
       PROVE  AnalysisInv'
  <2>1. PICK a \in Attempts :
         /\ EvidenceTyped' /\ e = epoch /\ flow[e] = [at |-> "propose", attempt |-> a]
         /\ FlowMoves(e, [at |-> "group", attempt |-> a, verdict |-> "none", todo |-> {}])
         /\ proposal[a].status = "none"
         /\ proposal'[a] = [status |-> "PENDING", kind |-> kind, target |-> T, by |-> e]
         /\ \A b \in Attempts : b # a => proposal'[b] = proposal[b]
         /\ EvidenceStays /\ UNCHANGED <<ready, artifact, opportunity, lost>>
    BY <1>13, ProposalDoes, Zenon
  <2> DEFINE f == [at |-> "group", attempt |-> a, verdict |-> "none", todo |-> {}]
  <2>2. f.at # "commit"
    OBVIOUS
  <2> HIDE DEF f
  <2> QED BY <1>1, <2>1, <2>2 DEF FlowMoves, EvidenceStays, f
<1>14. ASSUME NEW e \in Evidence!Epochs, NEW i \in DOMAIN claims,
              Evidence!Supersede(e, i) \/ Evidence!Invalidate(e, i)
       PROVE  AnalysisInv'
  BY <1>2, <1>14 DEF Evidence!Supersede, Evidence!Invalidate
<1> QED BY <1>3, <1>4, <1>5, <1>6, <1>7, <1>8, <1>9, <1>10, <1>11, <1>12, <1>13, <1>14,
           AnalysisRecorded, AnalysisSettled DEF Evidence!Next

\* A step of another process, or one that leaves its list and the proposals.
LEMMA RetryQuiet ==
  ASSUME EvidenceTyped, RetryInv, UNCHANGED <<epoch, ready, proposal>>, NEW e \in Evidence!Epochs, NEW f,
         FlowShaped(f), flow' = [flow EXCEPT ![e] = f] \/ flow' = flow,
         e = epoch => e \in ready \/ f.at = "down"
  PROVE  RetryInv'
<1>1. /\ \A d \in Evidence!Epochs : d # e => flow'[d] = flow[d]
      /\ flow'[e] = f \/ flow'[e] = flow[e]
  BY FlowSteps DEF EvidenceTyped
<1>2. \A a \in Attempts : Awaiting(a)' = Awaiting(a)
  BY DEF Awaiting
<1> QED BY <1>1, <1>2 DEF RetryInv

LEMMA RetryKept ==
  ASSUME EvidenceTyped, FlowsProposed, FlowsSound, RetryInv, Evidence!Next
  PROVE  RetryInv'
<1>1. ASSUME UNCHANGED <<epoch, ready, proposal, flow>>, NEW e \in Evidence!Epochs PROVE RetryInv'
  <2>1. FlowShaped(Evidence!Down) /\ Evidence!Down.at = "down"
    BY DEF FlowShaped, Evidence!Down
  <2> QED BY <1>1, <2>1, RetryQuiet
<1>2. ASSUME NEW e \in Evidence!Epochs, NEW f, FlowMoves(e, f), UNCHANGED <<ready, proposal>>,
             e = epoch => e \in ready \/ f.at = "down"
      PROVE  RetryInv'
  BY <1>2, RetryQuiet DEF FlowMoves
<1>3. CASE Evidence!Start
  <2> DEFINE f == [at |-> "retry", todo |-> {a \in Attempts : proposal[a].status = "PENDING"}]
  <2>1. /\ epoch + 1 \in Evidence!Epochs /\ flow' = [flow EXCEPT ![epoch + 1] = f]
        /\ UNCHANGED <<ready, proposal>> /\ epoch' = epoch + 1
    BY <1>3, EvidenceAssumption DEF Evidence!Start, EvidenceTyped, EpochsTyped, Evidence!Epochs
  <2>2. FlowShaped(f) /\ f.at = "retry" /\ f.todo = {a \in Attempts : proposal[a].status = "PENDING"}
    BY DEF FlowShaped
  <2> HIDE DEF f
  <2>3. flow'[epoch'] = f
    BY <2>1, <2>2, FlowSteps DEF EvidenceTyped
  <2>4. epoch' \notin ready'
    BY <2>1 DEF EvidenceTyped, EpochsTyped
  <2>5. \A a \in Attempts : Awaiting(a)' => a \in flow'[epoch'].todo
    BY <2>1, <2>2, <2>3 DEF Awaiting
  <2> QED BY <2>2, <2>3, <2>4, <2>5 DEF RetryInv
<1>4. ASSUME NEW e \in Evidence!Epochs, Evidence!Die(e) \/ Evidence!Refused(e) PROVE RetryInv'
  <2>1. PICK f \in {Evidence!Down, Evidence!Idle} :
           /\ FlowMoves(e, f) /\ UNCHANGED <<ready, opportunity, artifact, proposal>> /\ EvidenceStays
           /\ Evidence!Refused(e) => e # epoch
           /\ f = Evidence!Idle => Evidence!Refused(e)
    BY <1>4, EndedFlow
  <2>2. e = epoch => f.at = "down"
    BY <2>1 DEF Evidence!Down
  <2> QED BY <1>2, <2>1, <2>2
<1>5. ASSUME NEW e \in Evidence!Epochs, flow[e].at \in {"idle", "commit", "rebuild", "propose", "repair"}
      PROVE  e = epoch => e \in ready
  BY <1>5 DEF RetryInv
<1>6. ASSUME NEW e \in Evidence!Epochs, Evidence!RebuildSilentTarget(e) \/ Evidence!ProposeNothing(e)
      PROVE  RetryInv'
  <2>1. FlowMoves(e, Evidence!Idle) /\ UNCHANGED <<ready, proposal>> /\ flow[e].at \in {"rebuild", "propose"}
    BY <1>6, SilentRebuildDoes, NothingProposedDoes DEF Evidence!RebuildSilentTarget
  <2> QED BY <1>2, <1>5, <2>1
<1>7. ASSUME NEW e \in Evidence!Epochs, Evidence!CommitGroup(e) PROVE RetryInv'
  <2>1. PICK a \in Attempts, v \in Evidence!Verdicts :
          /\ e = epoch /\ flow[e].at = "group" /\ flow[e].attempt = a
          /\ FlowMoves(e, [at |-> "settle", attempt |-> a, verdict |-> v, todo |-> flow[e].todo])
          /\ UNCHANGED <<ready, proposal>>
    BY <1>7, CommitGroupDoes
  <2> DEFINE f == [at |-> "settle", attempt |-> a, verdict |-> v, todo |-> flow[e].todo]
  <2>2. f.at = "settle" /\ f.attempt = a /\ f.todo = flow[e].todo
    OBVIOUS
  <2> HIDE DEF f
  <2>3. flow'[e] = f /\ epoch' = epoch
    BY <2>1, FlowSteps DEF EvidenceTyped, FlowMoves, f
  <2>4. \A b \in Attempts : Awaiting(b)' = Awaiting(b)
    BY <2>1, <2>3 DEF Awaiting
  <2> QED BY <2>1, <2>2, <2>3, <2>4 DEF RetryInv
<1>8. ASSUME NEW e \in Evidence!Epochs, Evidence!Settle(e) PROVE RetryInv'
  <2>1. PICK a \in Attempts :
         /\ e = epoch /\ flow[e].at = "settle" /\ flow[e].attempt = a
         /\ FlowMoves(e, IF e \in ready THEN Evidence!Idle ELSE [at |-> "retry", todo |-> flow[e].todo])
         /\ \A b \in Attempts :
              /\ proposal'[b].kind = proposal[b].kind /\ proposal'[b].by = proposal[b].by
              /\ proposal'[b].target = proposal[b].target
              /\ proposal'[b].status = IF b = a /\ proposal[b].status = "PENDING"
                                       THEN flow[e].verdict ELSE proposal[b].status
         /\ EvidenceStays /\ UNCHANGED ready
    BY <1>8, SettleDoes
  <2> DEFINE f == IF e \in ready THEN Evidence!Idle ELSE [at |-> "retry", todo |-> flow[e].todo]
  <2>2. e \notin ready => f.at = "retry" /\ f.todo = flow[e].todo
    OBVIOUS
  <2>m. FlowMoves(e, f)
    BY <2>1
  <2> HIDE DEF f
  <2>3. flow'[e] = f /\ epoch' = epoch
    BY <2>m, FlowSteps DEF EvidenceTyped, FlowMoves
  <2>4. FlowSound(flow[e], proposal, commitAt)
    BY DEF FlowsSound
  <2>5. \A b \in Attempts : Awaiting(b)' => Awaiting(b) /\ b # a
    BY <2>1, <2>3, <2>4 DEF Awaiting, FlowSound
  <2> QED BY <2>1, <2>2, <2>3, <2>5 DEF RetryInv
<1>9. ASSUME NEW e \in Evidence!Epochs, Evidence!RetryNext(e) PROVE RetryInv'
  <2>1. e = epoch /\ flow[e].at = "retry" /\ UNCHANGED proposal
    BY <1>9, RetryDoes
  <2>2. CASE flow[e].todo = {} /\ FlowMoves(e, Evidence!Idle) /\ ready' = ready \cup {e}
    <3>1. epoch' = epoch /\ epoch \in ready'
      BY <2>1, <2>2 DEF FlowMoves
    <3>2. \A b \in Attempts : ~Awaiting(b)
      BY <2>1, <2>2 DEF RetryInv
    <3>3. \A b \in Attempts : ~Awaiting(b)'
      BY <2>1, <3>1, <3>2 DEF Awaiting
    <3> QED BY <3>1, <3>3 DEF RetryInv
  <2>3. ASSUME NEW a \in flow[e].todo, UNCHANGED ready,
               FlowMoves(e, [at |-> "group", attempt |-> a, verdict |-> "none", todo |-> flow[e].todo \ {a}])
        PROVE  RetryInv'
    <3> DEFINE f == [at |-> "group", attempt |-> a, verdict |-> "none", todo |-> flow[e].todo \ {a}]
    <3>1. f.at = "group" /\ f.attempt = a /\ f.todo = flow[e].todo \ {a}
      OBVIOUS
    <3> HIDE DEF f
    <3>2. flow'[e] = f /\ epoch' = epoch
      BY <2>3, FlowSteps DEF EvidenceTyped, FlowMoves, f
    <3>3. \A b \in Attempts : Awaiting(b)' = Awaiting(b)
      BY <2>1, <3>2 DEF Awaiting
    <3> QED BY <2>1, <2>3, <3>1, <3>2, <3>3 DEF RetryInv
  <2> QED BY <1>9, <2>2, <2>3, RetryDoes
<1>10. ASSUME NEW e \in Evidence!Epochs, Evidence!BeginRepair(e) PROVE RetryInv'
  <2>1. e \in ready /\ FlowMoves(e, [at |-> "repair", todo |-> Evidence!StaleRows]) /\ UNCHANGED <<ready, proposal>>
    BY <1>10, BeginRepairDoes
  <2> QED BY <1>2, <2>1
<1>11. ASSUME NEW e \in Evidence!Epochs, Evidence!TakeSnapshot(e) PROVE RetryInv'
  BY <1>1, <1>11 DEF Evidence!TakeSnapshot
<1>12. ASSUME NEW e \in Evidence!Epochs, NEW t \in Turns, NEW T \in Targets \cup {NoTarget},
              Evidence!RecordAnalysis(e, t, T)
       PROVE  RetryInv'
  <2>1. e \in ready /\ FlowMoves(e, [at |-> "commit", turn |-> t, target |-> T]) /\ UNCHANGED <<ready, proposal>>
    BY <1>12, RecordAnalysisDoes
  <2> QED BY <1>2, <2>1
<1>13. ASSUME NEW e \in Evidence!Epochs, NEW refused \in BOOLEAN, Evidence!CommitAnalysis(e, refused)
       PROVE  RetryInv'
  <2>1. PICK t \in Turns :
         /\ EvidenceTyped' /\ e = epoch /\ flow[e].at = "commit" /\ flow[e].turn = t
         /\ \A u \in Turns : u # t => artifact'[u] = artifact[u]
         /\ UNCHANGED <<ready, proposal, opportunity, lost>>
         /\ AnalysisRefused(e, t) \/ AnalysisCommitted(e, t)
    BY <1>13, CommitAnalysisDoes, Zenon
  <2>2. PICK f : FlowMoves(e, f)
    BY <2>1 DEF AnalysisRefused, AnalysisCommitted
  <2> QED BY <1>2, <1>5, <2>1, <2>2
<1>14. ASSUME NEW e \in Evidence!Epochs, NEW a \in Attempts, Evidence!RecordOpportunity(e, a)
       PROVE  RetryInv'
  <2>1. e \in ready /\ FlowMoves(e, [at |-> "propose", attempt |-> a]) /\ UNCHANGED <<ready, proposal>>
    BY <1>14, OpportunityDoes
  <2> QED BY <1>2, <2>1
<1>15. ASSUME NEW e \in Evidence!Epochs, NEW T \in Targets, Evidence!RepairNext(e, T)
       PROVE  RetryInv'
  <2>1. PICK f : FlowMoves(e, f)
    BY <1>15, RepairDoes
  <2>2. UNCHANGED <<ready, proposal>> /\ flow[e].at = "repair"
    BY <1>15, RepairDoes
  <2> QED BY <1>2, <1>5, <2>1, <2>2
<1>16. ASSUME NEW e \in Evidence!Epochs, NEW T \in Targets, NEW kind \in Evidence!Kinds,
              Evidence!RecordProposal(e, kind, T)
       PROVE  RetryInv'
  <2>1. PICK a \in Attempts :
         /\ EvidenceTyped' /\ e = epoch /\ flow[e] = [at |-> "propose", attempt |-> a]
         /\ FlowMoves(e, [at |-> "group", attempt |-> a, verdict |-> "none", todo |-> {}])
         /\ proposal[a].status = "none"
         /\ proposal'[a] = [status |-> "PENDING", kind |-> kind, target |-> T, by |-> e]
         /\ \A b \in Attempts : b # a => proposal'[b] = proposal[b]
         /\ EvidenceStays /\ UNCHANGED <<ready, artifact, opportunity, lost>>
    BY <1>16, ProposalDoes, Zenon
  <2>2. flow[e].at = "propose" /\ epoch' = epoch /\ proposal'[a].by = e
    BY <2>1 DEF FlowMoves
  <2>3. epoch \in ready
    BY <1>5, <2>1, <2>2
  <2>4. \A b \in Attempts : Awaiting(b)' => Awaiting(b)
    BY <2>1, <2>2 DEF Awaiting
  <2> QED BY <2>1, <2>2, <2>3, <2>4 DEF RetryInv
<1>17. ASSUME NEW e \in Evidence!Epochs, NEW i \in DOMAIN claims,
              Evidence!Supersede(e, i) \/ Evidence!Invalidate(e, i)
       PROVE  RetryInv'
  BY <1>1, <1>17 DEF Evidence!Supersede, Evidence!Invalidate
<1> QED BY <1>3, <1>4, <1>6, <1>7, <1>8, <1>9, <1>10, <1>11, <1>12, <1>13, <1>14, <1>15, <1>16, <1>17
        DEF Evidence!Next

\* A step that keeps the claims and the rows, and loses no rebuild silently.
LEMMA ProjectedQuiet ==
  ASSUME EvidenceTyped, Evidence!SilentEvidenceIsProjected, UNCHANGED <<claims, row>>,
         lost \subseteq lost', NEW e \in Evidence!Epochs, NEW f, FlowShaped(f),
         flow' = [flow EXCEPT ![e] = f] \/ flow' = flow,
         flow' # flow /\ flow[e].at = "rebuild" => flow[e].target \in lost'
  PROVE  Evidence!SilentEvidenceIsProjected'
<1>1. \A d \in Evidence!Epochs : d # e => flow'[d] = flow[d]
  BY FlowSteps DEF EvidenceTyped
<1>2. \A T : flow[e] = [at |-> "rebuild", target |-> T] => flow[e].at = "rebuild" /\ flow[e].target = T
  OBVIOUS
<1> SUFFICES ASSUME NEW i \in DOMAIN claims, claims[i].group[1] = "silent", row[claims[i].target].wm = 0
             PROVE  \/ claims[i].target \in lost'
                    \/ \E d \in Evidence!Epochs : flow'[d] = [at |-> "rebuild", target |-> claims[i].target]
  BY DEF Evidence!SilentEvidenceIsProjected
<1>3. CASE claims[i].target \in lost
  BY <1>3
<1>4. ASSUME NEW d \in Evidence!Epochs, flow[d] = [at |-> "rebuild", target |-> claims[i].target]
      PROVE  \/ claims[i].target \in lost'
             \/ \E x \in Evidence!Epochs : flow'[x] = [at |-> "rebuild", target |-> claims[i].target]
  <2>1. CASE flow' = flow
    BY <1>4, <2>1
  <2>2. CASE flow' # flow /\ d = e
    BY <1>2, <1>4, <2>2
  <2>3. CASE flow' # flow /\ d # e
    BY <1>1, <1>4, <2>3
  <2> QED BY <2>1, <2>2, <2>3
<1> QED BY <1>3, <1>4 DEF Evidence!SilentEvidenceIsProjected

\* The row of a target with claims is there after its rebuild.
LEMMA ProjectedRebuilt ==
  ASSUME EvidenceTyped, Evidence!SilentEvidenceIsProjected, NEW T \in Targets, RowRebuilt(T),
         UNCHANGED lost, NEW e \in Evidence!Epochs, NEW f, FlowMoves(e, f),
         \A U \in Targets : flow[e] = [at |-> "rebuild", target |-> U] => U = T
  PROVE  Evidence!SilentEvidenceIsProjected'
<1>1. /\ row'[T] = Evidence!Rebuilt(T) /\ \A U \in Targets : U # T => row'[U] = row[U]
      /\ UNCHANGED <<claims, watermark>>
  BY DEF RowRebuilt, EvidenceTyped, StatesTyped
<1>2. \A d \in Evidence!Epochs : d # e => flow'[d] = flow[d]
  BY FlowSteps DEF EvidenceTyped, FlowMoves
<1> SUFFICES ASSUME NEW i \in DOMAIN claims, claims[i].group[1] = "silent", row'[claims[i].target].wm = 0
             PROVE  \/ claims[i].target \in lost
                    \/ \E d \in Evidence!Epochs : flow'[d] = [at |-> "rebuild", target |-> claims[i].target]
  BY <1>1 DEF Evidence!SilentEvidenceIsProjected
<1>3. claims[i].target \in Targets
  BY ClaimsShaped DEF EvidenceTyped, ClaimsTyped, ClaimShaped
<1>4. claims[i].target # T
  <2> SUFFICES ASSUME claims[i].target = T PROVE FALSE
    OBVIOUS
  <2>1. Evidence!Rebuilt(T).wm = watermark
    BY DEF Evidence!Rebuilt
  <2>2. watermark # 0
    BY DEF EvidenceTyped, ClaimsTyped, MarksTyped
  <2> QED BY <1>1, <2>1, <2>2
<1>5. \/ claims[i].target \in lost
      \/ \E d \in Evidence!Epochs : flow[d] = [at |-> "rebuild", target |-> claims[i].target]
  BY <1>1, <1>3, <1>4 DEF Evidence!SilentEvidenceIsProjected
<1>6. ASSUME NEW d \in Evidence!Epochs, flow[d] = [at |-> "rebuild", target |-> claims[i].target]
      PROVE  d # e
  BY <1>3, <1>4, <1>6
<1> QED BY <1>2, <1>5, <1>6

LEMMA ProjectedCommitted ==
  ASSUME EvidenceTyped, Evidence!SilentEvidenceIsProjected, NEW e \in Evidence!Epochs, NEW f,
         FlowMoves(e, f), flow[e].at # "rebuild", UNCHANGED lost,
         NEW g \in Evidence!Groups, NEW new, GroupCommit(g, new),
         \A k \in 1..Len(new) : g[1] = "silent" => f = [at |-> "rebuild", target |-> new[k].target]
  PROVE  Evidence!SilentEvidenceIsProjected'
<1>1. Appended(new) /\ UNCHANGED row
  BY GroupCommitDoes DEF GroupCommit
<1>2. flow'[e] = f /\ \A d \in Evidence!Epochs : d # e => flow'[d] = flow[d]
  BY FlowSteps DEF EvidenceTyped, FlowMoves
<1> SUFFICES ASSUME NEW i \in DOMAIN claims', claims'[i].group[1] = "silent", row[claims'[i].target].wm = 0
             PROVE  \/ claims'[i].target \in lost
                    \/ \E d \in Evidence!Epochs : flow'[d] = [at |-> "rebuild", target |-> claims'[i].target]
  BY <1>1 DEF Evidence!SilentEvidenceIsProjected
<1>3. CASE i \in DOMAIN claims
  <2>1. claims'[i] = claims[i]
    BY <1>1, <1>3 DEF Appended
  <2>2. \/ claims[i].target \in lost
        \/ \E d \in Evidence!Epochs : flow[d] = [at |-> "rebuild", target |-> claims[i].target]
    BY <1>3, <2>1 DEF Evidence!SilentEvidenceIsProjected
  <2>3. ASSUME NEW d \in Evidence!Epochs, flow[d] = [at |-> "rebuild", target |-> claims[i].target]
        PROVE  d # e
    BY <2>3
  <2> QED BY <1>2, <2>1, <2>2, <2>3
<1>4. CASE i \notin DOMAIN claims
  <2>1. PICK k \in 1..Len(new) : claims'[i] = new[k]
    BY <1>1, <1>4 DEF Appended
  <2>2. new[k].group = g
    BY DEF GroupCommit
  <2>3. f = [at |-> "rebuild", target |-> new[k].target]
    BY <2>1, <2>2
  <2> QED BY <1>2, <2>1, <2>3
<1> QED BY <1>3, <1>4

LEMMA ProjectedCorrected ==
  ASSUME EvidenceTyped, EvidenceTyped', Evidence!SilentEvidenceIsProjected, NEW i \in DOMAIN claims,
         Superseded(i) \/ Invalidated(i), UNCHANGED <<flow, lost>>
  PROVE  Evidence!SilentEvidenceIsProjected'
<1>1. UNCHANGED row
  BY DEF Superseded, Invalidated
<1>2. ASSUME NEW j \in DOMAIN claims'
      PROVE  \E k \in DOMAIN claims : claims'[j].group = claims[k].group /\ claims'[j].target = claims[k].target
  <2>1. CASE Superseded(i)
    <3>1. PICK c : CorrectedBy(i, c)
      BY <2>1 DEF Superseded
    <3>2. j \in DOMAIN claims \/ j = Len(claims) + 1
      BY <3>1 DEF CorrectedBy, EvidenceTyped, ClaimsTyped
    <3> QED BY <3>1, <3>2 DEF CorrectedBy, Marked
  <2>2. CASE Invalidated(i)
    BY <2>2 DEF Invalidated, Marked
  <2> QED BY <2>1, <2>2
<1> QED BY <1>1, <1>2 DEF Evidence!SilentEvidenceIsProjected

LEMMA ProjectedKept ==
  ASSUME EvidenceTyped, FlowsProposed, AnalysisInv, Evidence!SilentEvidenceIsProjected, Evidence!Next
  PROVE  Evidence!SilentEvidenceIsProjected'
<1>1. ASSUME UNCHANGED <<claims, row, lost, flow>>, NEW e \in Evidence!Epochs
      PROVE  Evidence!SilentEvidenceIsProjected'
  <2>1. FlowShaped(Evidence!Idle)
    BY DEF FlowShaped
  <2> QED BY <1>1, <2>1, ProjectedQuiet
<1>2. ASSUME NEW e \in Evidence!Epochs, NEW f, FlowMoves(e, f), EvidenceStays, UNCHANGED lost,
             flow[e].at # "rebuild"
      PROVE  Evidence!SilentEvidenceIsProjected'
  BY <1>2, ProjectedQuiet DEF FlowMoves, EvidenceStays
<1>3. CASE Evidence!Start
  <2> DEFINE f == [at |-> "retry", todo |-> {a \in Attempts : proposal[a].status = "PENDING"}]
  <2>1. /\ epoch + 1 \in Evidence!Epochs /\ flow' = [flow EXCEPT ![epoch + 1] = f]
        /\ UNCHANGED <<claims, row, lost>> /\ epoch + 1 > epoch
    BY <1>3, EvidenceAssumption DEF Evidence!Start, EvidenceTyped, EpochsTyped, Evidence!Epochs
  <2>2. FlowShaped(f)
    BY DEF FlowShaped
  <2> HIDE DEF f
  <2>3. flow[epoch + 1].at # "rebuild"
    BY <2>1 DEF EvidenceTyped, EpochsTyped, Evidence!Down
  <2> QED BY <2>1, <2>2, <2>3, ProjectedQuiet
<1>4. ASSUME NEW e \in Evidence!Epochs, Evidence!Die(e) \/ Evidence!Refused(e)
      PROVE  Evidence!SilentEvidenceIsProjected'
  <2>1. PICK f \in {Evidence!Down, Evidence!Idle} :
           /\ FlowMoves(e, f) /\ UNCHANGED <<ready, opportunity, artifact, proposal>> /\ EvidenceStays
           /\ Evidence!Refused(e) => e # epoch
           /\ f = Evidence!Idle => Evidence!Refused(e)
           /\ lost' = IF flow[e].at = "rebuild" THEN lost \cup {flow[e].target} ELSE lost
           /\ lost' \subseteq Targets
    BY <1>4, EndedFlow, Zenon
  <2>2. lost \subseteq lost' /\ (flow[e].at = "rebuild" => flow[e].target \in lost')
    BY <2>1
  <2> QED BY <2>1, <2>2, ProjectedQuiet DEF FlowMoves, EvidenceStays
<1>5. ASSUME NEW e \in Evidence!Epochs, Evidence!RebuildSilentTarget(e)
      PROVE  Evidence!SilentEvidenceIsProjected'
  <2>1. /\ FlowMoves(e, Evidence!Idle) /\ flow[e].target \in Targets
        /\ RowRebuilt(flow[e].target) /\ UNCHANGED lost
    BY <1>5, SilentRebuildDoes DEF RowRebuilt
  <2>2. \A U \in Targets : flow[e] = [at |-> "rebuild", target |-> U] => U = flow[e].target
    OBVIOUS
  <2> QED BY <2>1, <2>2, ProjectedRebuilt
<1>6. ASSUME NEW e \in Evidence!Epochs, NEW T \in Targets, Evidence!RepairNext(e, T)
      PROVE  Evidence!SilentEvidenceIsProjected'
  <2>1. PICK f : FlowMoves(e, f)
    BY <1>6, RepairDoes
  <2>2. flow[e].at = "repair" /\ RowRebuilt(T) /\ UNCHANGED lost
    BY <1>6, RepairDoes DEF RowRebuilt
  <2>3. \A U \in Targets : flow[e] # [at |-> "rebuild", target |-> U]
    BY <2>2
  <2> QED BY <2>1, <2>2, <2>3, ProjectedRebuilt
<1>7. ASSUME NEW e \in Evidence!Epochs, Evidence!ProposeNothing(e)
      PROVE  Evidence!SilentEvidenceIsProjected'
  <2>1. FlowMoves(e, Evidence!Idle) /\ EvidenceStays /\ UNCHANGED lost /\ flow[e].at = "propose"
    BY <1>7, NothingProposedDoes
  <2> QED BY <1>2, <2>1
<1>8. ASSUME NEW e \in Evidence!Epochs, Evidence!CommitGroup(e)
      PROVE  Evidence!SilentEvidenceIsProjected'
  <2>1. PICK a \in Attempts, v \in Evidence!Verdicts :
          /\ flow[e].at = "group"
          /\ FlowMoves(e, [at |-> "settle", attempt |-> a, verdict |-> v, todo |-> flow[e].todo])
          /\ UNCHANGED lost /\ GroupOutcome(a, v)
    BY <1>8, CommitGroupDoes
  <2> DEFINE f == [at |-> "settle", attempt |-> a, verdict |-> v, todo |-> flow[e].todo]
  <2>2. FlowMoves(e, f) /\ flow[e].at # "rebuild"
    BY <2>1
  <2> HIDE DEF f
  <2>3. CASE EvidenceStays
    BY <1>2, <2>1, <2>2, <2>3
  <2>4. CASE GroupCommit(Evidence!Taught(a), Evidence!TeachingClaims(a))
    <3>1. Evidence!Taught(a) \in Evidence!Groups /\ Evidence!Taught(a)[1] # "silent"
      BY GroupNames
    <3> QED BY <2>1, <2>2, <2>4, <3>1, ProjectedCommitted
  <2> QED BY <2>1, <2>3, <2>4 DEF GroupOutcome
<1>9. ASSUME NEW e \in Evidence!Epochs, Evidence!Settle(e)
      PROVE  Evidence!SilentEvidenceIsProjected'
  <2> DEFINE f == IF e \in ready THEN Evidence!Idle ELSE [at |-> "retry", todo |-> flow[e].todo]
  <2>1. FlowMoves(e, f) /\ EvidenceStays /\ UNCHANGED lost /\ flow[e].at = "settle"
    BY <1>9, SettleDoes
  <2> HIDE DEF f
  <2> QED BY <1>2, <2>1
<1>10. ASSUME NEW e \in Evidence!Epochs, Evidence!RetryNext(e)
       PROVE  Evidence!SilentEvidenceIsProjected'
  <2>1. EvidenceStays /\ UNCHANGED lost /\ flow[e].at = "retry"
    BY <1>10, RetryDoes
  <2>2. PICK f : FlowMoves(e, f)
    BY <1>10, RetryDoes
  <2> QED BY <1>2, <2>1, <2>2
<1>11. ASSUME NEW e \in Evidence!Epochs, Evidence!BeginRepair(e)
       PROVE  Evidence!SilentEvidenceIsProjected'
  <2>1. /\ EvidenceStays /\ UNCHANGED lost /\ flow[e].at # "rebuild"
        /\ FlowMoves(e, [at |-> "repair", todo |-> Evidence!StaleRows])
    BY <1>11, BeginRepairDoes DEF Evidence!Idle
  <2> QED BY <1>2, <2>1
<1>12. ASSUME NEW e \in Evidence!Epochs, Evidence!TakeSnapshot(e)
       PROVE  Evidence!SilentEvidenceIsProjected'
  BY <1>1, <1>12 DEF Evidence!TakeSnapshot
<1>13. ASSUME NEW e \in Evidence!Epochs, NEW t \in Turns, NEW T \in Targets \cup {NoTarget},
              Evidence!RecordAnalysis(e, t, T)
       PROVE  Evidence!SilentEvidenceIsProjected'
  <2>1. /\ EvidenceStays /\ UNCHANGED lost /\ flow[e].at # "rebuild"
        /\ FlowMoves(e, [at |-> "commit", turn |-> t, target |-> T])
    BY <1>13, RecordAnalysisDoes DEF Evidence!Idle
  <2> QED BY <1>2, <2>1
<1>14. ASSUME NEW e \in Evidence!Epochs, NEW refused \in BOOLEAN, Evidence!CommitAnalysis(e, refused)
       PROVE  Evidence!SilentEvidenceIsProjected'
  <2>1. PICK t \in Turns :
         /\ EvidenceTyped' /\ e = epoch /\ flow[e].at = "commit" /\ flow[e].turn = t
         /\ \A u \in Turns : u # t => artifact'[u] = artifact[u]
         /\ UNCHANGED <<ready, proposal, opportunity, lost>>
         /\ AnalysisRefused(e, t) \/ AnalysisCommitted(e, t)
    BY <1>14, CommitAnalysisDoes, Zenon
  <2>2. CASE AnalysisRefused(e, t)
    BY <1>2, <2>1, <2>2 DEF AnalysisRefused
  <2>3. CASE AnalysisCommitted(e, t)
    <3> DEFINE T == artifact[t].target
               f == IF T = NoTarget THEN Evidence!Idle ELSE [at |-> "rebuild", target |-> T]
               new == Evidence!SilentClaims(t, T)
    <3>1. FlowMoves(e, f) /\ GroupCommit(Evidence!Silent(t), new)
      BY <2>3 DEF AnalysisCommitted
    <3>2. T \in Targets \cup {NoTarget}
      BY DEF EvidenceTyped, ArtifactsTyped
    <3>3. /\ Len(new) \in {0, 1} /\ (T = NoTarget => Len(new) = 0)
          /\ \A k \in 1..Len(new) : new[k].target = T
      BY <3>2, SilentClaimsAre
    <3>4. \A k \in 1..Len(new) : f = [at |-> "rebuild", target |-> new[k].target]
      BY <3>3
    <3>5. Evidence!Silent(t) \in Evidence!Groups
      BY GroupNames
    <3> HIDE DEF f, new
    <3> QED BY <2>1, <3>1, <3>4, <3>5, ProjectedCommitted
  <2> QED BY <2>1, <2>2, <2>3
<1>15. ASSUME NEW e \in Evidence!Epochs, NEW a \in Attempts, Evidence!RecordOpportunity(e, a)
       PROVE  Evidence!SilentEvidenceIsProjected'
  <2>1. /\ EvidenceStays /\ UNCHANGED lost /\ flow[e].at # "rebuild"
        /\ FlowMoves(e, [at |-> "propose", attempt |-> a])
    BY <1>15, OpportunityDoes DEF Evidence!Idle
  <2> QED BY <1>2, <2>1
<1>16. ASSUME NEW e \in Evidence!Epochs, NEW T \in Targets, NEW kind \in Evidence!Kinds,
              Evidence!RecordProposal(e, kind, T)
       PROVE  Evidence!SilentEvidenceIsProjected'
  <2>1. PICK a \in Attempts :
         /\ EvidenceTyped' /\ e = epoch /\ flow[e] = [at |-> "propose", attempt |-> a]
         /\ FlowMoves(e, [at |-> "group", attempt |-> a, verdict |-> "none", todo |-> {}])
         /\ proposal[a].status = "none"
         /\ proposal'[a] = [status |-> "PENDING", kind |-> kind, target |-> T, by |-> e]
         /\ \A b \in Attempts : b # a => proposal'[b] = proposal[b]
         /\ EvidenceStays /\ UNCHANGED <<ready, artifact, opportunity, lost>>
    BY <1>16, ProposalDoes, Zenon
  <2>2. flow[e].at # "rebuild"
    BY <2>1
  <2> QED BY <1>2, <2>1, <2>2
<1>17. ASSUME NEW e \in Evidence!Epochs, NEW i \in DOMAIN claims,
              Evidence!Supersede(e, i) \/ Evidence!Invalidate(e, i)
       PROVE  Evidence!SilentEvidenceIsProjected'
  <2>1. EvidenceTyped' /\ (Superseded(i) \/ Invalidated(i)) /\ UNCHANGED <<flow, lost>>
    BY <1>17, SupersedeDoes, InvalidateDoes DEF Superseded, Invalidated
  <2> QED BY <2>1, ProjectedCorrected
<1> QED BY <1>3, <1>4, <1>5, <1>6, <1>7, <1>8, <1>9, <1>10, <1>11, <1>12, <1>13, <1>14, <1>15, <1>16, <1>17
        DEF Evidence!Next

EvidenceInv ==
  /\ EvidenceTyped /\ ViewsExact /\ Chained /\ SettlementInv /\ AnalysisInv /\ RetryInv
  /\ Evidence!SilentEvidenceIsProjected

LEMMA EvidenceStart == Evidence!Init => EvidenceInv
<1> SUFFICES ASSUME Evidence!Init PROVE EvidenceInv
  OBVIOUS
<1>1. claims = <<>> /\ DOMAIN claims = {} /\ Len(claims) = 0 /\ watermark = 0 /\ epoch = 0 /\ ready = {}
  BY DEF Evidence!Init
<1>2. \A e \in Evidence!Epochs : flow[e] = Evidence!Down /\ flow[e].at = "down"
  BY DEF Evidence!Init, Evidence!Down
<1>3. FlowsTyped /\ EpochsTyped
  BY <1>1, <1>2, EvidenceAssumption DEF Evidence!Init, FlowsTyped, FlowShaped, EpochsTyped
<1>4. ArtifactsTyped
  BY DEF Evidence!Init, ArtifactsTyped
<1>5. ProposalsTyped
  BY EvidenceAssumption DEF Evidence!Init, ProposalsTyped, Evidence!Kinds
<1>6. ClaimsTyped /\ MarksTyped
  BY <1>1, EvidenceAssumption DEF Evidence!Init, ClaimsTyped, MarksTyped
<1>7. StatesTyped
  BY <1>1 DEF Evidence!Init, StatesTyped, Evidence!NoRow
<1>8. ViewsExact
  BY <1>1 DEF Evidence!Init, ViewsExact, Evidence!FreshRowsExact, CycleExact, Evidence!NoRow
<1>9. Chained
  BY <1>1 DEF Chained
<1>10. SettlementInv
  <2>1. FlowsSound
    BY <1>2 DEF FlowsSound, FlowSound
  <2>2. RowsSettled
    BY DEF Evidence!Init, RowsSettled
  <2>3. GroupsOnce
    BY <1>1, GroupNames DEF Evidence!Init, GroupsOnce, Originals
  <2> QED BY <2>1, <2>2, <2>3 DEF SettlementInv
<1>11. AnalysisInv
  BY <1>2, GroupNames DEF Evidence!Init, AnalysisInv, AnalysesCommitted, AnalysesProduced, AnalysesApart
<1>12. RetryInv
  BY <1>1, EvidenceAssumption DEF RetryInv, Evidence!Epochs
<1>13. Evidence!SilentEvidenceIsProjected
  BY <1>1 DEF Evidence!SilentEvidenceIsProjected
<1> QED BY <1>3, <1>4, <1>5, <1>6, <1>7, <1>8, <1>9, <1>10, <1>11, <1>12, <1>13 DEF EvidenceInv, EvidenceTyped

LEMMA EvidenceKept == EvidenceInv /\ Evidence!Next => EvidenceInv'
<1> SUFFICES ASSUME EvidenceInv, Evidence!Next PROVE EvidenceInv'
  OBVIOUS
<1>1. FlowsProposed /\ FlowsSound
  BY DEF EvidenceInv, SettlementInv, FlowsSound, FlowSound, FlowsProposed
<1>2. EvidenceTyped' /\ StoreStep
  BY <1>1, EvidenceStep DEF EvidenceInv
<1>3. ViewsExact' /\ Chained'
  BY <1>2, ViewsKept, ChainsKept DEF EvidenceInv
<1>4. SettlementInv' /\ AnalysisInv' /\ RetryInv'
  BY <1>1, SettlementKept, AnalysisKept, RetryKept DEF EvidenceInv
<1>5. Evidence!SilentEvidenceIsProjected'
  BY <1>1, ProjectedKept DEF EvidenceInv
<1> QED BY <1>2, <1>3, <1>4, <1>5 DEF EvidenceInv

LEMMA EvidenceHolds == EvidenceInv => EvidenceIsAccounted
<1> SUFFICES ASSUME EvidenceInv PROVE EvidenceIsAccounted
  OBVIOUS
<1>1. Evidence!TypeOK /\ Evidence!CorrectionsFormChains
  BY EvidenceTypes, ChainsForm DEF EvidenceInv
<1>2. Evidence!FreshRowsExact /\ Evidence!ValidCyclesAreCurrent
  BY DEF EvidenceInv, ViewsExact, CycleExact, Evidence!ValidCyclesAreCurrent, Evidence!SnapshotValid
<1>3. Evidence!SettledAsCommitted
  <2>1. \A S : Evidence!Cardinality(S) = Cardinality(S)
    BY DEF Evidence!Cardinality, Cardinality
  <2>2. ASSUME NEW a \in Attempts
        PROVE  /\ proposal[a].status = "COMMITTED" => commitAt[Evidence!Taught(a)] # 0
               /\ proposal[a].status = "REJECTED" => commitAt[Evidence!Taught(a)] = 0
               /\ Evidence!Cardinality(Originals(a))
                    = IF commitAt[Evidence!Taught(a)] = 0 THEN 0 ELSE Len(Evidence!TeachingClaims(a))
    BY <2>1, FS_EmptySet DEF EvidenceInv, SettlementInv, GroupsOnce, RowsSettled
  <2>3. \A t \in Turns : (artifact[t].status = "COMMITTED") <=> (commitAt[Evidence!Silent(t)] # 0)
    BY DEF EvidenceInv, AnalysisInv, AnalysesCommitted
  <2> QED BY <2>2, <2>3 DEF Evidence!SettledAsCommitted, Originals
<1>4. Evidence!StartupSettlesOldEvidence /\ Evidence!OnlyRefusedIsRejected
  BY DEF EvidenceInv, SettlementInv, RowsSettled, RetryInv, Awaiting, Evidence!StartupSettlesOldEvidence,
         Evidence!OnlyRefusedIsRejected
<1> QED BY <1>1, <1>2, <1>3, <1>4 DEF EvidenceInv, EvidenceIsAccounted

\* Rows and cycles that look fresh are exact, corrections form chains, every
\* group is committed once and settled as it was committed, and the newest
\* process settles what older ones left, for any turns, attempts, targets,
\* number of processes and of claims (learning/store.py,
\* learning/teaching_evidence.py, runtime/controller.py).
THEOREM EvidenceAccounted == Spec => []EvidenceIsAccounted
<1>1. Init => EvidenceInv
  BY EvidenceStart DEF Init
<1>2. [Next]_vars => Evidence!Next \/ UNCHANGED evidenceVars
  BY DEF Next, vars
<1>3. EvidenceInv /\ UNCHANGED evidenceVars => EvidenceInv'
  <2> SUFFICES ASSUME EvidenceInv, UNCHANGED evidenceVars PROVE EvidenceInv'
    OBVIOUS
  <2>1. UNCHANGED <<epoch, flow, ready, artifact, claims, commitAt, watermark, row, proposal,
                    opportunity, cycle, lost>>
    BY DEF evidenceVars
  <2>2. EvidenceTyped'
    BY <2>1 DEF EvidenceInv, EvidenceTyped, FlowsTyped, EpochsTyped, ArtifactsTyped, ProposalsTyped,
             ClaimsTyped, MarksTyped, StatesTyped
  <2>3. ViewsExact' /\ Chained'
    BY <2>1 DEF EvidenceInv, ViewsExact, Evidence!FreshRowsExact, CycleExact, Evidence!Active, Chained
  <2>3a. \A a \in Attempts : Originals(a)' = Originals(a)
    BY <2>1 DEF Originals
  <2>3b. GroupsOnce'
    BY <2>1, <2>3a DEF EvidenceInv, SettlementInv, GroupsOnce, Evidence!TeachingClaims
  <2>3c. FlowsSound' /\ RowsSettled'
    BY <2>1 DEF EvidenceInv, SettlementInv, FlowsSound, RowsSettled
  <2>4. SettlementInv'
    BY <2>3b, <2>3c DEF SettlementInv
  <2>5a. AnalysesCommitted' /\ AnalysesProduced'
    BY <2>1 DEF EvidenceInv, AnalysisInv, AnalysesCommitted, AnalysesProduced, Awaiting, Evidence!Silent
  <2>5b. AnalysesApart' /\ RetryInv'
    BY <2>1 DEF EvidenceInv, AnalysisInv, AnalysesApart, RetryInv, Awaiting, Evidence!Silent
  <2>5. AnalysisInv' /\ RetryInv'
    BY <2>5a, <2>5b DEF AnalysisInv
  <2>6. Evidence!SilentEvidenceIsProjected'
    BY <2>1 DEF EvidenceInv, Evidence!SilentEvidenceIsProjected
  <2> QED BY <2>2, <2>3, <2>4, <2>5, <2>6 DEF EvidenceInv
<1>4. EvidenceInv /\ [Next]_vars => EvidenceInv'
  BY <1>2, <1>3, EvidenceKept
<1> QED BY <1>1, <1>4, EvidenceHolds, PTL DEF Spec

(***************************************************************************)
(* The planning ledger                                                     *)
(***************************************************************************)
\* Only the process of the current epoch can have a write in flight that will
\* land, and nothing changes an obligation while it has.
LedgerInv ==
  /\ reign \in {1, 2}
  /\ write = [p \in Ledger!Writers |-> write[p]]
  /\ reign = 1 => Ledger!Idle(2)
  /\ ~Ledger!Idle(reign) => write[reign].carried = owes
  /\ Ledger!ProjectionMatchesLog

LedgerChange ==
  ledgerLog' # ledgerLog =>
    \E id \in ledgerLog' \ ledgerLog : owes' \in {owes, Ledger!Applied(id, owes)}

LEMMA LedgerStart == Ledger!Init => LedgerInv
<1> SUFFICES ASSUME Ledger!Init PROVE LedgerInv
  OBVIOUS
<1>1. Ledger!ProjectionMatchesLog
  <2>1. ledgerLog \cap Openings = {} /\ ledgerLog \cap Skips = {}
    BY DEF Ledger!Init
  <2>2. Ledger!Cardinality({}) = 0
    BY FS_EmptySet DEF Ledger!Cardinality, Cardinality
  <2> QED BY <2>1, <2>2 DEF Ledger!Init, Ledger!ProjectionMatchesLog, Ledger!Derived
<1>2. /\ reign = 1 /\ write = [p \in Ledger!Writers |-> write[p]]
      /\ Ledger!Idle(1) /\ Ledger!Idle(2)
  BY DEF Ledger!Init, Ledger!Writers, Ledger!Idle
<1> QED BY <1>1, <1>2 DEF LedgerInv

LEMMA LedgerKept == LedgerInv /\ Ledger!Next => LedgerInv' /\ LedgerChange
<1> SUFFICES ASSUME LedgerInv, Ledger!Next PROVE LedgerInv' /\ LedgerChange
  OBVIOUS
<1> USE DEF Ledger!Idle, Ledger!Writers
<1>1. CASE Ledger!TakeOver
  BY <1>1 DEF Ledger!TakeOver, LedgerInv, LedgerChange, Ledger!ProjectionMatchesLog
<1>2. ASSUME NEW id \in Ledger!Ids, Ledger!Deliver(id) \/ Ledger!RecordSkip(id)
      PROVE  LedgerInv' /\ LedgerChange
  BY <1>2 DEF Ledger!Deliver, Ledger!RecordSkip, LedgerInv, LedgerChange,
              Ledger!ProjectionMatchesLog
<1>3. ASSUME NEW p \in Ledger!Writers, NEW id \in Ledger!Ids, Ledger!ReadLedger(p, id)
      PROVE  LedgerInv' /\ LedgerChange
  <2> DEFINE r == [id |-> id, seen |-> ledgerLog, carried |-> owes]
  <2>1. /\ UNCHANGED <<reign, ledgerLog, projection, owes>> /\ p <= reign
        /\ write' = [q \in Ledger!Writers |-> IF q = p THEN r ELSE write[q]]
    BY <1>3 DEF Ledger!ReadLedger, LedgerInv
  <2>2. r.carried = owes
    OBVIOUS
  <2> HIDE DEF r
  <2>3. reign' = 1 => Ledger!Idle(2)'
    BY <2>1 DEF LedgerInv
  <2>4. ~Ledger!Idle(reign)' => write'[reign'].carried = owes'
    BY <2>1, <2>2 DEF LedgerInv
  <2> QED BY <2>1, <2>3, <2>4 DEF LedgerInv, LedgerChange, Ledger!ProjectionMatchesLog
<1>4. ASSUME NEW p \in Ledger!Writers, Ledger!RecordLedgerEvent(p)
      PROVE  LedgerInv' /\ LedgerChange
  <2> DEFINE w == write[p]
             lands == Ledger!InReign(p) /\ ~Ledger!Raises(w.id, w.carried) /\ ~Ledger!Refused(w)
  <2>1. /\ ~Ledger!Idle(p) /\ UNCHANGED reign
        /\ write' = [q \in Ledger!Writers |-> IF q = p THEN Ledger!NoWrite ELSE write[q]]
        /\ ledgerLog' = IF lands THEN ledgerLog \cup {w.id} ELSE ledgerLog
        /\ projection' = IF lands THEN Ledger!RowOf(w) ELSE projection
        /\ owes' = IF lands /\ Ledger!Applied(w.id, w.carried) # w.carried
                   THEN Ledger!Applied(w.id, w.carried) ELSE owes
    BY <1>4 DEF Ledger!RecordLedgerEvent, LedgerInv
  <2>2. /\ write' = [q \in Ledger!Writers |-> write'[q]] /\ reign' \in {1, 2}
        /\ reign' = 1 => Ledger!Idle(2)'
    BY <2>1 DEF LedgerInv
  <2>3. CASE lands
    <3>1. p = reign /\ w.carried = owes /\ w.seen = ledgerLog /\ w.id \notin ledgerLog
      BY <2>1, <2>3 DEF Ledger!InReign, Ledger!Refused, LedgerInv
    <3>2. Ledger!Idle(reign)'
      BY <2>1, <3>1
    <3>3. Ledger!ProjectionMatchesLog'
      BY <2>1, <2>3, <3>1 DEF Ledger!ProjectionMatchesLog, Ledger!RowOf, Ledger!Derived
    <3>4. LedgerChange
      <4>1. w.id \in ledgerLog' \ ledgerLog
        BY <2>1, <2>3, <3>1
      <4>2. owes' \in {owes, Ledger!Applied(w.id, owes)}
        BY <2>1, <2>3, <3>1
      <4> QED BY <4>1, <4>2 DEF LedgerChange
    <3> QED BY <2>2, <3>2, <3>3, <3>4 DEF LedgerInv
  <2>4. CASE ~lands
    <3>1. UNCHANGED <<ledgerLog, projection, owes>>
      BY <2>1, <2>4
    <3>2. ~Ledger!Idle(reign)' => write'[reign'].carried = owes'
      BY <2>1, <3>1 DEF LedgerInv
    <3> QED BY <2>2, <3>1, <3>2 DEF LedgerInv, LedgerChange, Ledger!ProjectionMatchesLog
  <2> QED BY <2>3, <2>4
<1>5. ASSUME NEW o \in Owed, NEW owed \in {0, 5, 10, 15, 20}, NEW paused \in BOOLEAN,
             Ledger!UpsertObligation(o, owed, paused)
      PROVE  LedgerInv' /\ LedgerChange
  BY <1>5 DEF Ledger!UpsertObligation, LedgerInv, LedgerChange, Ledger!ProjectionMatchesLog
<1> QED BY <1>1, <1>2, <1>3, <1>4, <1>5 DEF Ledger!Next

\* The stored columns of a target are always the ones its events derive, and
\* an exposure leaves the obligations that stood when it landed, served or
\* not, for any openings, hints, skips and obligations
\* (planner/ledger_store.py, runtime/exposure.py).
THEOREM LedgerConsistent == Spec => LedgerIsConsistent
<1>1. Init => LedgerInv
  BY LedgerStart DEF Init
<1>2. [Next]_vars => Ledger!Next \/ UNCHANGED ledgerVars
  BY DEF Next, vars
<1>3. LedgerInv /\ UNCHANGED ledgerVars => LedgerInv'
  BY DEF LedgerInv, ledgerVars, Ledger!Idle, Ledger!ProjectionMatchesLog
<1>4. LedgerInv /\ [Next]_vars => LedgerInv'
  BY <1>2, <1>3, LedgerKept
<1>5. LedgerInv /\ [Next]_vars => [LedgerChange]_Ledger!ledgerVars
  BY <1>2, LedgerKept DEF ledgerVars, Ledger!ledgerVars
<1>6. LedgerInv => Ledger!ProjectionMatchesLog
  BY DEF LedgerInv
<1>7. Spec => []LedgerInv
  BY <1>1, <1>4, PTL DEF Spec
<1>8. Spec => Ledger!NoLostObligation
  BY <1>5, <1>7, PTL DEF Spec, Ledger!NoLostObligation, LedgerChange
<1>9. Spec => []Ledger!ProjectionMatchesLog
  BY <1>6, <1>7, PTL
<1> QED BY <1>8, <1>9 DEF LedgerIsConsistent

(***************************************************************************)
(* The teaching gate                                                       *)
(***************************************************************************)
GateNames ==
  {"authorization", "subject", "target", "content", "safety", "snapshot", "state", "suppressed",
   "enabled", "flow", "budget", "cooldown", "attempts", "turns"}

\* A fact that has not gone wrong is right.
GateInv ==
  /\ fact = [name \in GateNames \cup {"lock", "scope", "moment", "consent"} |-> fact[name]]
  /\ \A name \in GateNames : name \notin wrong => fact[name] = Gates!Right[name]

LEMMA NamesOfRight == DOMAIN Gates!Right = GateNames
  BY DEF Gates!Right, GateNames

LEMMA GateStart == Gates!Init => GateInv
<1> SUFFICES ASSUME Gates!Init PROVE GateInv
  OBVIOUS
<1>1. PICK lock, scope, at, consent :
        fact = [name \in GateNames \cup {"lock", "scope", "moment", "consent"} |->
                 CASE name = "lock" -> lock [] name = "scope" -> scope
                   [] name = "moment" -> at [] name = "consent" -> consent
                   [] OTHER -> Gates!Right[name]]
  BY NamesOfRight DEF Gates!Init
<1> HIDE DEF Gates!Right
<1>2. fact = [name \in GateNames \cup {"lock", "scope", "moment", "consent"} |-> fact[name]]
  BY <1>1
<1>3. \A name \in GateNames : fact[name] = Gates!Right[name]
  BY <1>1 DEF GateNames
<1> QED BY <1>2, <1>3 DEF GateInv

LEMMA WorsenKept == ASSUME GateInv, NEW name, name \in GateNames \cup {"lock"}, Gates!Worsen(name)
                    PROVE  GateInv'
<1>1. PICK v \in Gates!Worse(name) : fact' = [fact EXCEPT ![name] = v]
  BY DEF Gates!Worsen
<1>2. fact' = [n \in GateNames \cup {"lock", "scope", "moment", "consent"} |->
                 IF n = name THEN v ELSE fact[n]]
  BY <1>1 DEF GateInv
<1>3. wrong' = wrong \cup {name}
  BY DEF Gates!Worsen
<1> QED BY <1>2, <1>3 DEF GateInv

(***************************************************************************)
(* The verdicts as conditions on the facts                                 *)
(***************************************************************************)
KnownToContinue(f) ==
  /\ \A name \in {"authorization", "target", "content", "lock", "safety", "subject"} :
       f[name] # "UNKNOWN"
  /\ f["state"] # "INCOMPLETE"

Unobjectionable(f) ==
  /\ f["safety"] # "BLOCK" /\ f["subject"] \notin {"CANCELLED", "SUPERSEDED"}
  /\ f["authorization"] # "INVALIDATED"
  /\ f["target"] \notin {"INVALID", "DEPRECATED", "MISSING"}
  /\ f["content"] # "INVALID" /\ f["suppressed"] # "YES"

MayOpen(f) ==
  /\ KnownToContinue(f) /\ f["snapshot"] # "UNKNOWN" /\ Unobjectionable(f)
  /\ f["lock"] \notin {"OWNED_BY_OTHER", "OWNED_BY_THIS_MOMENT"}

MayOpenAsked(f) == MayOpen(f) /\ f["scope"] \in {"LEARNING_REQUEST", "TARGETED_LEARNING_REQUEST"}

MayOpenUnasked(f) ==
  /\ MayOpen(f) /\ f["scope"] = "OPEN" /\ f["enabled"] # "NO" /\ f["flow"] # "PROTECTED"
  /\ f["budget"] # "EXHAUSTED" /\ f["cooldown"] # "ACTIVE"

MayContinue(f, a) ==
  /\ KnownToContinue(f) /\ Unobjectionable(f) /\ f["lock"] = "OWNED_BY_THIS_MOMENT"
  /\ ~(f["attempts"] = "EXHAUSTED" /\ a \in {"RETRY", "HINT"})
  /\ ~(f["turns"] = "EXHAUSTED" /\ a \notin {"REVEAL", "TERMINAL_FEEDBACK"})
  /\ f["scope"] = "ACTIVE_TEACHING_CONTINUATION" /\ f["moment"] = "DECIDING_NEXT_ACTION"

MayGoOn(f, a) ==
  /\ MayContinue(f, a) /\ ~(f["consent"] = "AUTO_OPENED" /\ f["enabled"] = "NO")
  /\ f["flow"] # "PROTECTED"

LEMMA ReasonsAsConditions ==
  /\ Gates!ContinuationUnknown = {} <=> KnownToContinue(fact)
  /\ Gates!OpeningUnknown = {} <=> KnownToContinue(fact) /\ fact["snapshot"] # "UNKNOWN"
  /\ Gates!SharedReasons = {} <=> Unobjectionable(fact)
  /\ Gates!UserOpenReasons = {} <=>
       /\ Unobjectionable(fact) /\ fact["lock"] \notin {"OWNED_BY_OTHER", "OWNED_BY_THIS_MOMENT"}
       /\ fact["scope"] \in {"LEARNING_REQUEST", "TARGETED_LEARNING_REQUEST"}
  /\ Gates!AutomaticOpenReasons = {} <=>
       /\ Unobjectionable(fact) /\ fact["lock"] \notin {"OWNED_BY_OTHER", "OWNED_BY_THIS_MOMENT"}
       /\ fact["scope"] = "OPEN" /\ fact["enabled"] # "NO" /\ fact["flow"] # "PROTECTED"
       /\ fact["budget"] # "EXHAUSTED" /\ fact["cooldown"] # "ACTIVE"
<1>0. fact.state = fact["state"]
  OBVIOUS
<1>1. Gates!ContinuationUnknown = {} <=> KnownToContinue(fact)
  BY DEF Gates!ContinuationUnknown, KnownToContinue
<1>2. Gates!OpeningUnknown = {} <=> KnownToContinue(fact) /\ fact["snapshot"] # "UNKNOWN"
  BY <1>1 DEF Gates!OpeningUnknown
<1>3. Gates!SharedReasons = {} <=> Unobjectionable(fact)
  BY DEF Gates!SharedReasons, Gates!When, Unobjectionable
<1>4. Gates!UserOpenReasons = {} <=>
       /\ Unobjectionable(fact) /\ fact["lock"] \notin {"OWNED_BY_OTHER", "OWNED_BY_THIS_MOMENT"}
       /\ fact["scope"] \in {"LEARNING_REQUEST", "TARGETED_LEARNING_REQUEST"}
  BY <1>3 DEF Gates!UserOpenReasons, Gates!LockTaken, Gates!When
<1>5. Gates!AutomaticOpenReasons = {} <=>
       /\ Unobjectionable(fact) /\ fact["lock"] \notin {"OWNED_BY_OTHER", "OWNED_BY_THIS_MOMENT"}
       /\ fact["scope"] = "OPEN" /\ fact["enabled"] # "NO" /\ fact["flow"] # "PROTECTED"
       /\ fact["budget"] # "EXHAUSTED" /\ fact["cooldown"] # "ACTIVE"
  BY <1>3 DEF Gates!AutomaticOpenReasons, Gates!LockTaken, Gates!When
<1> QED BY <1>1, <1>2, <1>3, <1>4, <1>5

LEMMA MomentReasonsAsConditions ==
  ASSUME NEW a
  PROVE  /\ (Gates!ContinuationUnknown = {} /\ Gates!UserContinueReasons(a) = {}) <=> MayContinue(fact, a)
         /\ (Gates!ContinuationUnknown = {} /\ Gates!AutoContinueReasons(a) = {}) <=> MayGoOn(fact, a)
<1>1. Gates!LockNotOurs = {} <=> fact["lock"] = "OWNED_BY_THIS_MOMENT"
  BY DEF Gates!LockNotOurs, Gates!When
<1>2. Gates!LimitReasons(a) = {} <=>
        /\ ~(fact["attempts"] = "EXHAUSTED" /\ a \in {"RETRY", "HINT"})
        /\ ~(fact["turns"] = "EXHAUSTED" /\ a \notin {"REVEAL", "TERMINAL_FEEDBACK"})
  BY DEF Gates!LimitReasons, Gates!Terminalizing, Gates!When
<1>3. Gates!MomentReasons(a) = {} <=>
        /\ Unobjectionable(fact) /\ fact["lock"] = "OWNED_BY_THIS_MOMENT"
        /\ ~(fact["attempts"] = "EXHAUSTED" /\ a \in {"RETRY", "HINT"})
        /\ ~(fact["turns"] = "EXHAUSTED" /\ a \notin {"REVEAL", "TERMINAL_FEEDBACK"})
        /\ fact["scope"] = "ACTIVE_TEACHING_CONTINUATION" /\ fact["moment"] = "DECIDING_NEXT_ACTION"
  BY <1>1, <1>2, ReasonsAsConditions DEF Gates!MomentReasons, Gates!When
<1>4. Gates!AutoContinueReasons(a) = {} <=>
        /\ Gates!MomentReasons(a) = {} /\ ~(fact["consent"] = "AUTO_OPENED" /\ fact["enabled"] = "NO")
        /\ fact["flow"] # "PROTECTED"
  BY DEF Gates!AutoContinueReasons, Gates!When
<1> QED BY <1>3, <1>4, ReasonsAsConditions DEF Gates!UserContinueReasons, MayContinue, MayGoOn

\* The permissions, one by one.
Permits(f, x) ==
  \/ x = <<"USER_INITIATED", "OPENING">> /\ MayOpenAsked(f)
  \/ x = <<"AUTOMATIC", "OPENING">> /\ MayOpenUnasked(f)
  \/ \E a \in Gates!ContinuationActions : x = <<"USER_REQUESTED", a>> /\ MayContinue(f, a)
  \/ \E a \in Gates!ContinuationActions : x = <<"AUTO_CONTINUE", a>> /\ MayGoOn(f, a)

Verdicts == \A x : x \in Gates!Allowed <=> Permits(fact, x)

LEMMA AllowedIsPermitted == Verdicts
<1> SUFFICES ASSUME NEW x PROVE x \in Gates!Allowed <=> Permits(fact, x)
  BY DEF Verdicts
<1>1. x \in Gates!When(Gates!OpeningUnknown = {} /\ Gates!UserOpenReasons = {},
                       <<"USER_INITIATED", "OPENING">>)
        <=> x = <<"USER_INITIATED", "OPENING">> /\ MayOpenAsked(fact)
  BY ReasonsAsConditions DEF Gates!When, MayOpenAsked, MayOpen
<1>2. x \in Gates!When(Gates!OpeningUnknown = {} /\ Gates!AutomaticOpenReasons = {},
                       <<"AUTOMATIC", "OPENING">>)
        <=> x = <<"AUTOMATIC", "OPENING">> /\ MayOpenUnasked(fact)
  BY ReasonsAsConditions DEF Gates!When, MayOpenUnasked, MayOpen
<1>3. x \in {<<"USER_REQUESTED", a>> : a \in {a \in Gates!ContinuationActions :
               Gates!ContinuationUnknown = {} /\ Gates!UserContinueReasons(a) = {}}}
        <=> \E a \in Gates!ContinuationActions : x = <<"USER_REQUESTED", a>> /\ MayContinue(fact, a)
  BY MomentReasonsAsConditions
<1>4. x \in {<<"AUTO_CONTINUE", a>> : a \in {a \in Gates!ContinuationActions :
               Gates!ContinuationUnknown = {} /\ Gates!AutoContinueReasons(a) = {}}}
        <=> \E a \in Gates!ContinuationActions : x = <<"AUTO_CONTINUE", a>> /\ MayGoOn(fact, a)
  BY MomentReasonsAsConditions
<1> QED BY <1>1, <1>2, <1>3, <1>4 DEF Gates!Allowed, Permits

\* A fact goes from its right value to a worse one, and no verdict prefers
\* the worse one.
LEMMA WorsenNeverAllows ==
  ASSUME GateInv, NEW name, name \in GateNames \cup {"lock"}, Gates!Worsen(name)
  PROVE  Gates!NoNewPermission
<1>0. PICK v \in Gates!Worse(name) : fact' = [fact EXCEPT ![name] = v]
  BY DEF Gates!Worsen
<1>1. \A n \in GateNames \cup {"lock", "scope", "moment", "consent"} :
        fact'[n] = IF n = name THEN v ELSE fact[n]
  BY <1>0 DEF GateInv
<1>2. name # "lock" => fact[name] = Gates!Right[name]
  BY DEF GateInv, Gates!Worsen
<1>3. name = "lock" => fact'["lock"] = "UNKNOWN"
  BY <1>1 DEF Gates!Worse
<1>4. CASE name = "lock"
  <2>1. ~KnownToContinue(fact')
    BY <1>3, <1>4 DEF KnownToContinue
  <2>2. \A x : ~Permits(fact', x)
    BY <2>1 DEF Permits, MayOpenAsked, MayOpenUnasked, MayOpen, MayContinue, MayGoOn
  <2>3. Verdicts'
    BY AllowedIsPermitted, PTL
  <2> QED BY <2>2, <2>3 DEF Verdicts, Gates!NoNewPermission
<1>5. CASE name \in GateNames
  <2>1. /\ name = "authorization" => fact[name] = "VALID" /\ v \in {"INVALIDATED", "UNKNOWN"}
        /\ name = "subject" => fact[name] = "ACTIVE" /\ v \in {"CANCELLED", "SUPERSEDED", "UNKNOWN"}
        /\ name = "target" => fact[name] = "VALID" /\ v \in {"INVALID", "DEPRECATED", "MISSING", "UNKNOWN"}
        /\ name = "content" => fact[name] = "VALID" /\ v \in {"INVALID", "UNKNOWN"}
        /\ name = "safety" => fact[name] = "ALLOW" /\ v \in {"BLOCK", "UNKNOWN"}
        /\ name = "snapshot" => fact[name] = "VALID"
        /\ name = "state" => fact[name] = "COMPLETE"
        /\ name = "suppressed" => fact[name] = "NO"
        /\ name = "enabled" => fact[name] = "YES"
        /\ name = "flow" => fact[name] = "FREE"
        /\ name = "budget" => fact[name] = "LEFT"
        /\ name = "attempts" => fact[name] = "LEFT"
        /\ name = "turns" => fact[name] = "LEFT"
        /\ name = "cooldown" => fact[name] = "OVER"
    BY <1>2, <1>5 DEF Gates!Right, Gates!Worse, GateNames
  <2>2. /\ fact'["lock"] = fact["lock"] /\ fact'["scope"] = fact["scope"]
        /\ fact'["moment"] = fact["moment"] /\ fact'["consent"] = fact["consent"]
    BY <1>1, <1>5 DEF GateNames
  <2>3. \A n \in GateNames : n # name => fact'[n] = fact[n]
    BY <1>1
  <2>4. KnownToContinue(fact') => KnownToContinue(fact)
    BY <2>1, <2>2, <2>3 DEF KnownToContinue, GateNames
  <2>5. Unobjectionable(fact') /\ KnownToContinue(fact') => Unobjectionable(fact)
    BY <2>1, <2>3 DEF KnownToContinue, Unobjectionable, GateNames
  <2>6. MayOpen(fact') => MayOpen(fact)
    BY <2>1, <2>2, <2>3, <2>4, <2>5 DEF MayOpen, GateNames
  <2>7. MayOpenAsked(fact') => MayOpenAsked(fact)
    BY <2>2, <2>6 DEF MayOpenAsked
  <2>8. MayOpenUnasked(fact') => MayOpenUnasked(fact)
    BY <2>1, <2>2, <2>3, <2>6 DEF MayOpenUnasked, GateNames
  <2>9. \A a : MayContinue(fact', a) => MayContinue(fact, a)
    BY <2>1, <2>2, <2>3, <2>4, <2>5 DEF MayContinue, GateNames
  <2>10. \A a : MayGoOn(fact', a) => MayGoOn(fact, a)
    BY <2>1, <2>2, <2>3, <2>9 DEF MayGoOn, GateNames
  <2>11. \A x : Permits(fact', x) => Permits(fact, x)
    BY <2>7, <2>8, <2>9, <2>10 DEF Permits
  <2>12. Verdicts'
    BY AllowedIsPermitted, PTL
  <2> QED BY <2>11, <2>12, AllowedIsPermitted DEF Verdicts, Gates!NoNewPermission
<1> QED BY <1>4, <1>5

LEMMA LimitsLeaveAWay == GateInv => Gates!LimitsNeverStrand
<1> SUFFICES ASSUME GateInv, wrong \subseteq {"attempts", "turns", "budget", "cooldown", "snapshot"},
                    fact.lock = "OWNED_BY_THIS_MOMENT", fact.moment = "DECIDING_NEXT_ACTION",
                    fact.scope = "ACTIVE_TEACHING_CONTINUATION",
                    NEW a \in {"REVEAL", "TERMINAL_FEEDBACK"}
             PROVE  <<"USER_REQUESTED", a>> \in Gates!Allowed /\ <<"AUTO_CONTINUE", a>> \in Gates!Allowed
  BY DEF Gates!LimitsNeverStrand
<1>1. \A name \in GateNames \ {"attempts", "turns", "budget", "cooldown", "snapshot"} :
        fact[name] = Gates!Right[name]
  BY DEF GateInv
<1>2. /\ fact["authorization"] = "VALID" /\ fact["subject"] = "ACTIVE" /\ fact["target"] = "VALID"
      /\ fact["content"] = "VALID" /\ fact["safety"] = "ALLOW" /\ fact["state"] = "COMPLETE"
      /\ fact["suppressed"] = "NO" /\ fact["enabled"] = "YES" /\ fact["flow"] = "FREE"
  BY <1>1 DEF Gates!Right, GateNames
<1>3. MayContinue(fact, a)
  BY <1>2 DEF MayContinue, KnownToContinue, Unobjectionable
<1>4. MayGoOn(fact, a)
  BY <1>2, <1>3 DEF MayGoOn
<1>5. a \in Gates!ContinuationActions
  BY DEF Gates!ContinuationActions
<1> QED BY <1>3, <1>4, <1>5, AllowedIsPermitted DEF Verdicts, Permits

LEMMA AskedIsWider == Gates!AskedIsNeverStricter
<1>1. ASSUME NEW a \in Gates!ContinuationActions, <<"AUTO_CONTINUE", a>> \in Gates!Allowed
      PROVE  <<"USER_REQUESTED", a>> \in Gates!Allowed
  <2>1. Permits(fact, <<"AUTO_CONTINUE", a>>)
    BY <1>1, AllowedIsPermitted DEF Verdicts
  <2>2. MayGoOn(fact, a)
    BY <2>1 DEF Permits
  <2>3. Permits(fact, <<"USER_REQUESTED", a>>)
    BY <2>2 DEF Permits, MayGoOn
  <2> QED BY <2>3, AllowedIsPermitted DEF Verdicts
<1>2. ASSUME NEW p \in Gates!Allowed, NEW q \in Gates!Allowed, p[2] = "OPENING", q[2] # "OPENING"
      PROVE  FALSE
  <2>1. MayOpen(fact)
    <3>1. Permits(fact, p)
      BY AllowedIsPermitted DEF Verdicts
    <3>2. ~\E a \in Gates!ContinuationActions : p = <<"USER_REQUESTED", a>> \/ p = <<"AUTO_CONTINUE", a>>
      BY <1>2 DEF Gates!ContinuationActions
    <3> QED BY <3>1, <3>2 DEF Permits, MayOpenAsked, MayOpenUnasked
  <2>2. fact["lock"] = "OWNED_BY_THIS_MOMENT"
    <3>1. Permits(fact, q)
      BY AllowedIsPermitted DEF Verdicts
    <3>2. q # <<"USER_INITIATED", "OPENING">> /\ q # <<"AUTOMATIC", "OPENING">>
      BY <1>2
    <3> QED BY <3>1, <3>2 DEF Permits, MayContinue, MayGoOn
  <2> QED BY <2>1, <2>2 DEF MayOpen
<1> QED BY <1>1, <1>2 DEF Gates!AskedIsNeverStricter

\* Nothing that goes wrong and no fact that becomes unreadable opens the gate
\* in any of its four profiles, limits alone never keep a moment from being
\* closed, and what is allowed unasked is allowed when asked for, for any
\* number of wrong facts (teaching/gate.py).
THEOREM GateClosed == Spec => GateFailsClosed
<1>1. Init => GateInv
  BY GateStart DEF Init
<1>2. [Next]_vars => (part = "gate" /\ Gates!Next) \/ UNCHANGED gateVars
  BY DEF Next, vars
<1>3. GateInv /\ UNCHANGED gateVars => GateInv' /\ Gates!NoNewPermission
  <2> SUFFICES ASSUME GateInv, fact' = fact, wrong' = wrong
               PROVE  GateInv' /\ Gates!NoNewPermission
    BY DEF gateVars
  <2>1. GateInv'
    BY DEF GateInv
  <2>2. Verdicts'
    BY AllowedIsPermitted, PTL
  <2> QED BY <2>1, <2>2, AllowedIsPermitted DEF Verdicts, Gates!NoNewPermission
<1>4. GateInv /\ Gates!Next => GateInv' /\ Gates!NoNewPermission
  BY NamesOfRight, WorsenKept, WorsenNeverAllows DEF Gates!Next
<1>5. GateInv /\ [Next]_vars => GateInv'
  BY <1>2, <1>3, <1>4
<1>6. GateInv /\ [Next]_vars => [part = "gate" => Gates!NoNewPermission]_vars
  BY <1>2, <1>3, <1>4
<1>7. GateInv => (part = "gate" => Gates!LimitsNeverStrand /\ Gates!AskedIsNeverStricter)
  BY LimitsLeaveAWay, AskedIsWider
<1> QED BY <1>1, <1>5, <1>6, <1>7, PTL DEF Spec, GateFailsClosed

(***************************************************************************)
(* The review schedule                                                     *)
(***************************************************************************)
\* A finite set of numbers has a largest one.
LEMMA LargestNumber ==
  ASSUME NEW T, IsFiniteSet(T), T # {}, T \subseteq Nat
  PROVE  \E x \in T : \A y \in T : x >= y
<1> DEFINE Above(x) == {y \in T : y > x}
           U == {Above(x) : x \in T}
<1>1. U \subseteq FiniteSubsetsOf(T) /\ U # {}
  <2>1. \A x \in T : IsFiniteSet(Above(x))
    BY FS_Subset
  <2>2. \A x \in T : Above(x) \in FiniteSubsetsOf(T)
    BY <2>1 DEF FiniteSubsetsOf
  <2>3. PICK x : x \in T
    OBVIOUS
  <2>4. Above(x) \in U
    BY <2>3
  <2> QED BY <2>2, <2>4
<1>2. IsWellFoundedOn(StrictSubsetOrdering(T), FiniteSubsetsOf(T))
  BY FS_StrictSubsetOrderingWellFounded
<1>3. PICK A \in U : \A B \in U : <<B, A>> \notin StrictSubsetOrdering(T)
  BY <1>1, <1>2, WFMin
<1>4. PICK x \in T : A = Above(x)
  OBVIOUS
<1>5. ASSUME NEW y \in T, y > x PROVE FALSE
  <2>0. \A z \in T : z \in Nat
    OBVIOUS
  <2>1. Above(y) \subseteq Above(x) /\ y \in Above(x) /\ y \notin Above(y)
    <3>1. \A z \in T : z > y => z > x
      BY <1>5, <2>0
    <3>2. ~(y > y)
      BY <2>0
    <3> QED BY <1>5, <3>1, <3>2
  <2>2. Above(y) \in U
    OBVIOUS
  <2>3. <<Above(y), Above(x)>> \in StrictSubsetOrdering(T)
    BY <2>1 DEF StrictSubsetOrdering
  <2> QED BY <1>3, <1>4, <2>2, <2>3
<1> QED BY <1>5

\* A review event as the store keeps it.
EventsShaped(evs) ==
  \A e \in Events : evs[e] = [engaged |-> evs[e].engaged, at |-> evs[e].at] /\ evs[e].at \in Nat

\* Every event of the one history is in the other.
Extends(evs, more) == \A e \in Events : evs[e] # Schedule!NoEvent => more[e] = evs[e]

\* The anchor is the newest of the retrieval and the dated events.
LEMMA AnchorIsNewest ==
  ASSUME NEW strong \in Nat, NEW evs, EventsShaped(evs)
  PROVE  LET a == Schedule!AnchorOf(strong, evs) IN
         /\ a \in Nat /\ a >= strong
         /\ \A e \in Events : evs[e].at # Schedule!Never => a >= evs[e].at
         /\ a = strong \/ \E e \in Events : evs[e].at # Schedule!Never /\ a = evs[e].at
<1> DEFINE D == {e \in Events : Schedule!Anchors(evs[e])}
           f == [e \in D |-> evs[e].at]
           I == {evs[e].at : e \in D}
           T == {strong} \cup I
<1>1. IsFiniteSet(D)
  BY LadderAssumption, FS_Subset
<1>2. f \in Surjection(D, I)
  BY DEF Surjection
<1>3. IsFiniteSet(I)
  BY <1>1, <1>2, FS_Surjection
<1>4. IsFiniteSet(T)
  BY <1>3, FS_Singleton, FS_Union
<1>5. T # {} /\ T \subseteq Nat
  BY DEF EventsShaped
<1>6. Schedule!AnchorOf(strong, evs) = Schedule!Max(T)
  BY DEF Schedule!AnchorOf
<1>7. Schedule!Max(T) = CHOOSE x \in T : \A y \in T : x >= y
  BY DEF Schedule!Max
<1> HIDE DEF T
<1>8. Schedule!Max(T) \in T /\ \A y \in T : Schedule!Max(T) >= y
  BY <1>4, <1>5, <1>7, LargestNumber
<1> QED BY <1>5, <1>6, <1>8 DEF T, Schedule!Anchors

LEMMA AnchorGrows ==
  ASSUME NEW s1 \in Nat, NEW s2 \in Nat, s1 <= s2, NEW evs, NEW more,
         EventsShaped(evs), EventsShaped(more), Extends(evs, more)
  PROVE  Schedule!AnchorOf(s1, evs) <= Schedule!AnchorOf(s2, more)
<1> DEFINE a == Schedule!AnchorOf(s1, evs)  b == Schedule!AnchorOf(s2, more)
<1>1. a \in Nat /\ (a = s1 \/ \E e \in Events : evs[e].at # Schedule!Never /\ a = evs[e].at)
  BY AnchorIsNewest
<1>2. b \in Nat /\ b >= s2 /\ \A e \in Events : more[e].at # Schedule!Never => b >= more[e].at
  BY AnchorIsNewest
<1>3. \A e \in Events : evs[e].at # Schedule!Never => more[e] = evs[e]
  BY DEF Extends, Schedule!NoEvent
<1> HIDE DEF a, b
<1> QED BY <1>1, <1>2, <1>3 DEF a, b

\* The stage is one of the ladder's and grows with the history.
LEMMA StageGrows ==
  ASSUME NEW evs, NEW more, Extends(evs, more)
  PROVE  /\ Schedule!StageFromHistory(evs) \in 1..Len(Interval)
         /\ Schedule!StageFromHistory(evs) <= Schedule!StageFromHistory(more)
<1> DEFINE E(x) == {e \in Events : Schedule!Advances(x[e])}
           n == Len(Interval)
<1>0. n \in Nat /\ n > 0
  BY LadderAssumption
<1>1. E(evs) \subseteq E(more)
  BY DEF Extends, Schedule!Advances, Schedule!NoEvent
<1>2. IsFiniteSet(E(evs)) /\ IsFiniteSet(E(more))
  BY LadderAssumption, FS_Subset
<1>3. /\ Cardinality(E(evs)) \in Nat /\ Cardinality(E(more)) \in Nat
      /\ Cardinality(E(evs)) <= Cardinality(E(more))
  BY <1>1, <1>2, FS_CardinalityType, FS_Subset
<1>4. \A S : Schedule!Cardinality(S) = Cardinality(S)
  BY DEF Schedule!Cardinality, Cardinality
<1>5. ASSUME NEW k \in Nat
      PROVE  Schedule!Min({k + 1, n}) = IF k + 1 <= n THEN k + 1 ELSE n
  BY <1>0 DEF Schedule!Min
<1>6. /\ Schedule!StageFromHistory(evs) = Schedule!Min({Cardinality(E(evs)) + 1, n})
      /\ Schedule!StageFromHistory(more) = Schedule!Min({Cardinality(E(more)) + 1, n})
  BY <1>4 DEF Schedule!StageFromHistory
<1> HIDE DEF E, n
<1>7. /\ Schedule!StageFromHistory(evs) \in 1..n
      /\ Schedule!StageFromHistory(evs) <= Schedule!StageFromHistory(more)
  BY <1>0, <1>3, <1>5, <1>6
<1> QED BY <1>7 DEF n

\* What the newest process has read stays true until it writes; a row that
\* has a window is not ahead of the evidence, the events and the watermark.
ReadsStand ==
  /\ newest \in {1, 2} /\ job = [p \in Schedule!Procs |-> job[p]]
  /\ \A p \in Schedule!Procs : job[p] = [at |-> job[p].at, anchor |-> job[p].anchor, mark |-> job[p].mark]
  /\ newest = 1 => job[2].at = "idle"
  /\ job[newest].at # "idle" => job[newest].anchor = shownAt
  /\ job[newest].at = "marked" => job[newest].mark = mark

TimesOrdered ==
  /\ now \in Nat /\ mark \in Nat /\ strongAt \in Nat /\ shownAt \in Nat
  /\ shownAt <= strongAt /\ strongAt <= now
  /\ events = [e \in Events |-> events[e]] /\ EventsShaped(events)

RowIsNotAhead ==
  /\ item.mark \in Nat /\ item.mark <= mark /\ item.start \in Nat
  /\ item.start # Schedule!Never =>
       /\ item.anchor \in Nat \ {Schedule!Never} /\ item.stage \in 1..Len(Interval)
       /\ item.start = item.anchor + Interval[item.stage]
       /\ item.anchor <= Schedule!AnchorOf(shownAt, events)
       /\ item.stage <= Schedule!StageFromHistory(events)

ScheduleInv == ReadsStand /\ TimesOrdered /\ RowIsNotAhead

ScheduleChange ==
  /\ item.start # Schedule!Never => item'.start >= item.start
  /\ item'.mark >= item.mark

LEMMA ScheduleStart == Schedule!Init => ScheduleInv
<1> SUFFICES ASSUME Schedule!Init PROVE ScheduleInv
  OBVIOUS
<1>1. ReadsStand
  BY DEF Schedule!Init, ReadsStand, Schedule!Procs, Schedule!NoJob
<1>2. TimesOrdered
  BY DEF Schedule!Init, TimesOrdered, EventsShaped, Schedule!NoEvent, Schedule!Never
<1>3. RowIsNotAhead
  BY DEF Schedule!Init, RowIsNotAhead, Schedule!NoItem, Schedule!Never
<1> QED BY <1>1, <1>2, <1>3 DEF ScheduleInv

\* More evidence and more events only leave the row further behind.
LEMMA RowStaysBehind ==
  ASSUME ScheduleInv, TimesOrdered', item' = item, mark' >= mark, shownAt' >= shownAt,
         Extends(events, events')
  PROVE  RowIsNotAhead' /\ ScheduleChange
<1> DEFINE a == Schedule!AnchorOf(shownAt, events)  b == Schedule!AnchorOf(shownAt', events')
           s == Schedule!StageFromHistory(events)  r == Schedule!StageFromHistory(events')
<1>0. /\ shownAt \in Nat /\ shownAt' \in Nat /\ EventsShaped(events) /\ EventsShaped(events')
      /\ mark \in Nat /\ mark' \in Nat
  BY DEF ScheduleInv, TimesOrdered
<1>1. a \in Nat /\ b \in Nat /\ a <= b
  BY <1>0, AnchorGrows, AnchorIsNewest
<1>2. Extends(events', events')
  BY DEF Extends
<1>3. s \in 1..Len(Interval) /\ r \in 1..Len(Interval) /\ s <= r
  BY <1>2, StageGrows
<1>4. Len(Interval) \in Nat
  BY LadderAssumption
<1> HIDE DEF a, b, s, r
<1>5. /\ item.mark \in Nat /\ item.mark <= mark /\ item.start \in Nat
      /\ item.start # Schedule!Never =>
           /\ item.anchor \in Nat \ {Schedule!Never} /\ item.stage \in 1..Len(Interval)
           /\ item.start = item.anchor + Interval[item.stage]
           /\ item.anchor <= a /\ item.stage <= s
  BY DEF ScheduleInv, RowIsNotAhead, a, s
<1>6. item.start # Schedule!Never => item.anchor <= b /\ item.stage <= r
  BY <1>1, <1>3, <1>4, <1>5
<1>7. item.mark <= mark'
  BY <1>0, <1>5
<1>8. RowIsNotAhead'
  BY <1>5, <1>6, <1>7 DEF RowIsNotAhead, b, r
<1> QED BY <1>5, <1>8 DEF ScheduleChange

LEMMA CommitRowKept ==
  ASSUME ScheduleInv, NEW p \in Schedule!Procs, Schedule!CommitRow(p)
  PROVE  ScheduleInv' /\ ScheduleChange
<1> DEFINE a == Schedule!AnchorOf(shownAt, events)
           s == Schedule!StageFromHistory(events)
<1>1. /\ job[p].at = "marked" /\ UNCHANGED <<newest, now, mark, strongAt, shownAt, events>>
      /\ job' = [q \in Schedule!Procs |-> IF q = p THEN Schedule!NoJob ELSE job[q]]
      /\ item' = IF p = newest
                 THEN Schedule!Planned(Schedule!AnchorOf(job[p].anchor, events), events, job[p].mark, now)
                 ELSE item
  BY DEF Schedule!CommitRow, Schedule!Fenced, ScheduleInv, ReadsStand
<1>2. ReadsStand'
  BY <1>1 DEF ScheduleInv, ReadsStand, Schedule!Procs, Schedule!NoJob
<1>3. TimesOrdered'
  BY <1>1 DEF ScheduleInv, TimesOrdered
<1>4. CASE p # newest
  <2>1. Extends(events, events')
    BY <1>1 DEF Extends
  <2>2. item' = item /\ mark' >= mark /\ shownAt' >= shownAt
    BY <1>1, <1>4 DEF ScheduleInv, TimesOrdered
  <2> QED BY <1>2, <1>3, <2>1, <2>2, RowStaysBehind DEF ScheduleInv
<1>5. CASE p = newest
  <2>1. item' = Schedule!Planned(a, events, mark, now)
    BY <1>1, <1>5 DEF ScheduleInv, ReadsStand
  <2>2. a \in Nat /\ mark \in Nat
    BY AnchorIsNewest DEF ScheduleInv, TimesOrdered
  <2>3. s \in 1..Len(Interval)
    <3>1. Extends(events, events)
      BY DEF Extends
    <3> QED BY <3>1, StageGrows
  <2>4. /\ Interval[s] \in Nat /\ Len(Interval) \in Nat
        /\ \A i \in 1..Len(Interval) : Interval[i] \in Nat /\ (i <= s => Interval[i] <= Interval[s])
    BY <2>3, LadderAssumption
  <2>5. /\ a = Schedule!Never => item'.start = Schedule!Never /\ item'.mark = mark
        /\ a # Schedule!Never => /\ item'.start = a + Interval[s] /\ item'.mark = mark
                                 /\ item'.anchor = a /\ item'.stage = s
    BY <2>1 DEF Schedule!Planned, Schedule!NoItem
  <2>6. /\ Schedule!AnchorOf(shownAt', events') = a
        /\ Schedule!StageFromHistory(events') = s
    BY <1>1
  <2> HIDE DEF a, s
  <2>7. RowIsNotAhead'
    <3>1. CASE a = Schedule!Never
      BY <1>1, <2>2, <2>5, <3>1 DEF RowIsNotAhead, Schedule!Never
    <3>2. CASE a # Schedule!Never
      BY <1>1, <2>2, <2>3, <2>4, <2>5, <2>6, <3>2 DEF RowIsNotAhead, Schedule!Never
    <3> QED BY <3>1, <3>2
  <2>8. /\ item.mark \in Nat /\ item.mark <= mark /\ item.start \in Nat
        /\ item.start # Schedule!Never =>
             /\ item.anchor \in Nat \ {Schedule!Never} /\ item.stage \in 1..Len(Interval)
             /\ item.start = item.anchor + Interval[item.stage]
             /\ item.anchor <= a /\ item.stage <= s
    BY DEF ScheduleInv, RowIsNotAhead, a, s
  <2>9. ScheduleChange
    <3>1. item'.mark >= item.mark
      BY <2>2, <2>5, <2>8
    <3>2. ASSUME item.start # Schedule!Never PROVE item'.start >= item.start
      <4>1. a # Schedule!Never
        BY <2>2, <2>8, <3>2 DEF Schedule!Never
      <4>2. Interval[item.stage] \in Nat /\ Interval[item.stage] <= Interval[s]
        BY <2>4, <2>8, <3>2
      <4> QED BY <2>2, <2>4, <2>5, <2>8, <3>2, <4>1, <4>2
    <3> QED BY <3>1, <3>2 DEF ScheduleChange
  <2> QED BY <1>2, <1>3, <2>7, <2>9 DEF ScheduleInv
<1> QED BY <1>4, <1>5

LEMMA ScheduleKept == ScheduleInv /\ Schedule!Next => ScheduleInv' /\ ScheduleChange
<1> SUFFICES ASSUME ScheduleInv, Schedule!Next PROVE ScheduleInv' /\ ScheduleChange
  OBVIOUS
<1> USE DEF Schedule!Procs
<1>0. events' = events => Extends(events, events')
  BY DEF Extends
<1>1. CASE Schedule!SecondProcess \/ Schedule!Day
  <2>1. /\ UNCHANGED <<mark, strongAt, shownAt, events, item, job>>
        /\ (newest = 1 /\ newest' = 2 /\ now' = now) \/ (newest' = newest /\ now' = now + 1)
    BY <1>1 DEF Schedule!SecondProcess, Schedule!Day
  <2>2. ReadsStand'
    BY <2>1 DEF ScheduleInv, ReadsStand
  <2>3. TimesOrdered' /\ mark' >= mark /\ shownAt' >= shownAt
    BY <2>1 DEF ScheduleInv, TimesOrdered
  <2> QED BY <1>0, <2>1, <2>2, <2>3, RowStaysBehind DEF ScheduleInv
<1>2. CASE Schedule!RebuildProjection
  <2>1. /\ UNCHANGED <<newest, now, mark, strongAt, events, item, job>>
        /\ shownAt' = strongAt /\ job[newest].at = "idle"
    BY <1>2 DEF Schedule!RebuildProjection
  <2>2. ReadsStand'
    BY <2>1 DEF ScheduleInv, ReadsStand
  <2>3. TimesOrdered' /\ mark' >= mark /\ shownAt' >= shownAt
    BY <2>1 DEF ScheduleInv, TimesOrdered
  <2> QED BY <1>0, <2>1, <2>2, <2>3, RowStaysBehind DEF ScheduleInv
<1>3. ASSUME NEW strong \in BOOLEAN, Schedule!CommitEvidence(strong)
      PROVE  ScheduleInv' /\ ScheduleChange
  <2>1. /\ UNCHANGED <<newest, now, shownAt, events, item, job>> /\ mark' = mark + 1
        /\ strongAt' \in {now, strongAt} /\ job[newest].at = "idle"
    BY <1>3 DEF Schedule!CommitEvidence
  <2>2. ReadsStand'
    BY <2>1 DEF ScheduleInv, ReadsStand
  <2>3. TimesOrdered' /\ mark' >= mark /\ shownAt' >= shownAt
    BY <2>1 DEF ScheduleInv, TimesOrdered
  <2> QED BY <1>0, <2>1, <2>2, <2>3, RowStaysBehind DEF ScheduleInv
<1>4. ASSUME NEW p \in Schedule!Procs, Schedule!ReadFreshness(p) \/ Schedule!ReadWatermark(p)
      PROVE  ScheduleInv' /\ ScheduleChange
  <2>1. UNCHANGED <<newest, now, mark, strongAt, shownAt, events, item>>
    BY <1>4 DEF Schedule!ReadFreshness, Schedule!ReadWatermark
  <2>2. ReadsStand'
    <3>1. CASE Schedule!ReadFreshness(p)
      <4>1. /\ p <= newest
            /\ job' = [q \in {1, 2} |-> IF q = p THEN [at |-> "fresh", anchor |-> shownAt, mark |-> 0]
                                        ELSE job[q]]
        BY <3>1 DEF Schedule!ReadFreshness, Schedule!Running, ScheduleInv, ReadsStand
      <4> QED BY <2>1, <4>1 DEF ScheduleInv, ReadsStand
    <3>2. CASE Schedule!ReadWatermark(p)
      <4>1. /\ job[p].at = "fresh"
            /\ job' = [q \in {1, 2} |-> IF q = p
                         THEN [at |-> "marked", anchor |-> job[p].anchor, mark |-> mark] ELSE job[q]]
        <5>1. job = [q \in {1, 2} |-> job[q]]
               /\ job[p] = [at |-> job[p].at, anchor |-> job[p].anchor, mark |-> job[p].mark]
          BY DEF ScheduleInv, ReadsStand
        <5>2. job[p].at = "fresh" /\ job' = [job EXCEPT ![p].at = "marked", ![p].mark = mark]
          BY <3>2 DEF Schedule!ReadWatermark
        <5>3. job'[p] = [at |-> "marked", anchor |-> job[p].anchor, mark |-> mark]
          BY <5>1, <5>2
        <5> QED BY <5>1, <5>2, <5>3
      <4> QED BY <2>1, <4>1 DEF ScheduleInv, ReadsStand
    <3> QED BY <1>4, <3>1, <3>2
  <2>3. TimesOrdered' /\ mark' >= mark /\ shownAt' >= shownAt
    BY <2>1 DEF ScheduleInv, TimesOrdered
  <2> QED BY <1>0, <2>1, <2>2, <2>3, RowStaysBehind DEF ScheduleInv
<1>5. ASSUME NEW e \in Events, NEW engaged \in BOOLEAN, NEW at \in 1..now,
             Schedule!RecordReviewEvent(e, engaged, at)
      PROVE  ScheduleInv' /\ ScheduleChange
  <2>1. /\ UNCHANGED <<newest, now, mark, strongAt, shownAt, item, job>>
        /\ events[e] = Schedule!NoEvent
        /\ events' = [x \in Events |-> IF x = e THEN [engaged |-> engaged, at |-> at] ELSE events[x]]
    BY <1>5 DEF Schedule!RecordReviewEvent, ScheduleInv, TimesOrdered
  <2>2. ReadsStand'
    BY <2>1 DEF ScheduleInv, ReadsStand
  <2>3. Extends(events, events')
    BY <2>1 DEF Extends
  <2>4. at \in Nat
    BY DEF ScheduleInv, TimesOrdered
  <2>5. EventsShaped(events')
    BY <2>1, <2>4 DEF ScheduleInv, TimesOrdered, EventsShaped
  <2>6. TimesOrdered' /\ mark' >= mark /\ shownAt' >= shownAt
    BY <2>1, <2>5 DEF ScheduleInv, TimesOrdered
  <2> QED BY <2>1, <2>2, <2>3, <2>6, RowStaysBehind DEF ScheduleInv
<1> QED BY <1>1, <1>2, <1>3, <1>4, <1>5, CommitRowKept DEF Schedule!Next

\* A recomputed row goes neither to an earlier window nor back to older
\* evidence, with two processes, for any ladder that lengthens and any review
\* events (scheduler/controller.py, scheduler/spacing.py).
THEOREM SchedulesForward == Spec => SchedulesAdvance
<1>1. Init => ScheduleInv
  BY ScheduleStart DEF Init
<1>2. [Next]_vars => Schedule!Next \/ UNCHANGED schedVars
  BY DEF Next, vars
<1>3. ScheduleInv /\ UNCHANGED schedVars => ScheduleInv'
  BY DEF ScheduleInv, schedVars, ReadsStand, TimesOrdered, RowIsNotAhead
<1>4. ScheduleInv /\ [Next]_vars => ScheduleInv'
  BY <1>2, <1>3, ScheduleKept
<1>5. ScheduleInv /\ [Next]_vars => [ScheduleChange]_Schedule!schedVars
  BY <1>2, ScheduleKept DEF schedVars, Schedule!schedVars
<1>6. Spec => []ScheduleInv
  BY <1>1, <1>4, PTL DEF Spec
<1>7. ScheduleChange => (item.start # Schedule!Never => item'.start >= item.start)
                          /\ item'.mark >= item.mark
  BY DEF ScheduleChange
<1>8. Spec => Schedule!WindowsMoveForward /\ Schedule!RowsFollowTheWatermark
  BY <1>5, <1>6, <1>7, PTL
     DEF Spec, Schedule!WindowsMoveForward, Schedule!RowsFollowTheWatermark
<1> QED BY <1>8 DEF SchedulesAdvance


(***************************************************************************)
(* Automatic openings                                                      *)
(***************************************************************************)
\* The letter the process is at work on, or that is parked for it.
InHand(t) == letter[t].status = "GENERATING" \/ (leg.at # "idle" /\ leg.of = t)

OpeningsShaped ==
  /\ clock \in Nat
  /\ leg = [at |-> leg.at, of |-> leg.of, plan |-> leg.plan, budget |-> leg.budget]
  /\ leg.at # "idle" => leg.of \in Letters
  /\ letter = [t \in Letters |-> letter[t]] /\ moment = [t \in Letters |-> moment[t]]
  /\ plan = [t \in Letters |-> plan[t]] /\ gate = [t \in Letters |-> gate[t]]
  /\ said = [t \in Letters |-> said[t]]
  /\ \A t \in Letters : letter[t] = [status |-> letter[t].status, received |-> letter[t].received]
  /\ \A t \in Letters : moment[t] = [state |-> moment[t].state, opened |-> moment[t].opened]

\* A moment opens at or after the receipt of its letter.
MomentsDated ==
  \A t \in Letters :
    /\ letter[t].received \in Nat /\ letter[t].received <= clock
    /\ moment[t].opened \in Nat /\ moment[t].opened <= clock
    /\ moment[t].state # "none" => letter[t].received <= moment[t].opened

\* A new letter closes the parked one, so one is in hand.
OneInHand == \A t, u \in Letters : InHand(t) /\ InHand(u) => t = u

\* The moments of the other letters opened before the one in hand arrived.
OthersCameBefore ==
  \A t, m \in Letters :
    t # m /\ InHand(t) /\ moment[m].state # "none" => moment[m].opened <= letter[t].received

\* What the gate has not allowed has not opened, and what holds the lock has.
OpenedIsAllowed ==
  /\ \A t \in Letters : gate[t] = "none" => moment[t].state = "none"
  /\ \A t \in Letters : gate[t] = "ALLOW" => moment[t].state # "none"
  /\ holder \in Letters => moment[holder].state # "none"
  /\ leg.at \in {"deliver", "land", "abort"} => gate[leg.of] = "ALLOW"

\* A letter that was not received has no moment, and none without a budget
\* read comes to the gate.
OnceReceived ==
  /\ \A t \in Letters : letter[t].status = "none" => moment[t].state = "none"
  /\ leg.at # "idle" => letter[leg.of].status # "none"
BudgetRead ==
  leg.at \in {"plan", "gate"} => leg.budget \in {"clear", "cooling", "unreadable"}

\* The budget that was read for the letter in hand is still true.
BudgetStands ==
  leg.at # "idle" /\ leg.budget = "clear" =>
    \A m \in Letters : m # leg.of /\ moment[m].state # "none" =>
      letter[leg.of].received - moment[m].opened >= Cooldown

\* The settings stay while a letter is in hand, a plan that is followed is the
\* one the cycle holds, and the gate allowed none with teaching switched off.
PlansAreKept ==
  /\ leg.at \in {"plan", "gate", "deliver"} => leg.plan.mode = enabled
  /\ leg.at \in {"gate", "deliver"} => leg.plan = plan[leg.of]
  /\ \A t \in Letters : gate[t] = "ALLOW" =>
       plan[t].mode = TRUE /\ Stage \in Automatic!AutomaticStages

ModesAreBoolean ==
  /\ enabled \in BOOLEAN /\ \A t \in Letters : plan[t].mode \in BOOLEAN
  /\ leg.plan.mode \in BOOLEAN

OpeningsInv ==
  /\ OpeningsShaped /\ MomentsDated /\ OneInHand /\ OthersCameBefore /\ OpenedIsAllowed
  /\ OnceReceived /\ BudgetRead /\ ModesAreBoolean /\ BudgetStands /\ PlansAreKept /\ Automatic!CooldownHolds

OpeningsChange ==
  \A t \in Letters :
    said[t] # "opening" /\ said'[t] = "opening" => enabled /\ Stage \in Automatic!AutomaticStages

LEMMA LettersAreNot == Automatic!Nobody \notin Letters /\ Automatic!TheUser \notin Letters
  BY LettersAssumption DEF Automatic!Nobody, Automatic!TheUser

LEMMA OpeningsStart == Automatic!Init => OpeningsInv
<1> SUFFICES ASSUME Automatic!Init PROVE OpeningsInv
  OBVIOUS
<1> USE DEF Automatic!Init, Automatic!Idle
<1>1. OpeningsShaped
  BY DEF OpeningsShaped, Automatic!NoMoment
<1>2. MomentsDated
  BY DEF MomentsDated, Automatic!NoMoment
<1>3. OneInHand /\ OthersCameBefore
  BY DEF OneInHand, OthersCameBefore, InHand, Automatic!NoMoment
<1>4. OpenedIsAllowed
  BY LettersAreNot DEF OpenedIsAllowed, Automatic!NoMoment
<1>5. BudgetStands /\ PlansAreKept
  BY DEF BudgetStands, PlansAreKept
<1>6. Automatic!CooldownHolds
  BY DEF Automatic!CooldownHolds, Automatic!NoMoment
<1>7. OnceReceived /\ BudgetRead /\ ModesAreBoolean
  BY DEF OnceReceived, BudgetRead, ModesAreBoolean, Automatic!NoMoment, Automatic!NoPlan
<1> QED BY <1>1, <1>2, <1>3, <1>4, <1>5, <1>6, <1>7 DEF OpeningsInv

LEMMA ReceiveKept ==
  ASSUME OpeningsInv, NEW t \in Letters, Automatic!Receive(t)
  PROVE  OpeningsInv' /\ OpeningsChange
<1>1. /\ leg.at = "idle" /\ letter[t].status = "none"
      /\ letter' = [u \in Letters |->
             IF u = t THEN [status |-> "GENERATING", received |-> clock]
             ELSE IF letter[u].status = "GENERATING"
             THEN [status |-> "UNANSWERED", received |-> letter[u].received] ELSE letter[u]]
      /\ leg' = [at |-> "assemble", of |-> t, plan |-> Automatic!NoPlan, budget |-> "none"]
      /\ UNCHANGED <<clock, enabled, plan, gate, moment, holder, said>>
  <2>1. /\ leg.at = "idle" /\ letter[t].status = "none"
        /\ letter' = [u \in Letters |->
             CASE u = t -> [status |-> "GENERATING", received |-> clock]
               [] u # t /\ letter[u].status = "GENERATING" -> [letter[u] EXCEPT !.status = "UNANSWERED"]
               [] OTHER -> letter[u]]
        /\ leg' = [at |-> "assemble", of |-> t, plan |-> Automatic!NoPlan, budget |-> "none"]
        /\ UNCHANGED <<clock, enabled, plan, gate, moment, holder, said>>
    BY DEF Automatic!Receive, Automatic!Idle
  <2>2. \A u \in Letters : [letter[u] EXCEPT !.status = "UNANSWERED"]
                            = [status |-> "UNANSWERED", received |-> letter[u].received]
    BY DEF OpeningsInv, OpeningsShaped
  <2> QED BY <2>1, <2>2
<1>a. /\ letter'[t].status = "GENERATING" /\ letter'[t].received = clock
      /\ \A u \in Letters : u # t => letter'[u].status # "GENERATING"
                                      /\ letter'[u].received = letter[u].received
  BY <1>1 DEF OpeningsInv, OpeningsShaped
<1>2. OpeningsShaped'
  BY <1>1 DEF OpeningsInv, OpeningsShaped
<1>3. MomentsDated'
  <2>1. moment[t].state = "none" \/ letter[t].received <= moment[t].opened
    BY DEF OpeningsInv, MomentsDated
  <2>2. moment[t].state = "none"
    BY <1>1 DEF OpeningsInv, OnceReceived
  <2> QED BY <1>1, <1>a, <2>2 DEF OpeningsInv, OpeningsShaped, MomentsDated
<1>4. OneInHand'
  BY <1>1, <1>a DEF OpeningsInv, OneInHand, InHand
<1>5. OthersCameBefore'
  BY <1>1, <1>a DEF OpeningsInv, OthersCameBefore, InHand, MomentsDated
<1>6. OpenedIsAllowed'
  BY <1>1, <1>a, LettersAreNot DEF OpeningsInv, OpenedIsAllowed
<1>7. OnceReceived'
  BY <1>1, <1>a DEF OpeningsInv, OpeningsShaped, OnceReceived
<1>8. BudgetRead'
  BY <1>1 DEF OpeningsInv, BudgetRead
<1>9. ModesAreBoolean'
  <2>1. leg'.plan.mode = FALSE
    BY <1>1 DEF Automatic!NoPlan
  <2> QED BY <1>1, <2>1 DEF OpeningsInv, ModesAreBoolean
<1>10. BudgetStands'
  BY <1>1, <1>a DEF OpeningsInv, BudgetStands
<1>11. PlansAreKept'
  BY <1>1 DEF OpeningsInv, PlansAreKept
<1>12. Automatic!CooldownHolds'
  BY <1>1, <1>a DEF OpeningsInv, Automatic!CooldownHolds, MomentsDated
<1>13. OpeningsChange
  BY <1>1 DEF OpeningsChange
<1> QED BY <1>2, <1>3, <1>4, <1>5, <1>6, <1>7, <1>8, <1>9, <1>10, <1>11, <1>12, <1>13 DEF OpeningsInv

LEMMA ReenterKept ==
  ASSUME OpeningsInv, NEW t \in Letters, Automatic!Reenter(t)
  PROVE  OpeningsInv' /\ OpeningsChange
<1>1. /\ leg.at = "idle" /\ letter[t].status = "GENERATING"
      /\ leg' = [at |-> "assemble", of |-> t, plan |-> Automatic!NoPlan, budget |-> "none"]
      /\ UNCHANGED <<clock, enabled, letter, plan, gate, moment, holder, said>>
  BY DEF OpeningsInv, OpeningsShaped, Automatic!Reenter, Automatic!Idle
<1>2. OpeningsShaped'
  BY <1>1 DEF OpeningsInv, OpeningsShaped
<1>3. MomentsDated'
  BY <1>1 DEF OpeningsInv, MomentsDated
<1>4. OneInHand'
  BY <1>1 DEF OpeningsInv, OneInHand, InHand
<1>5. OthersCameBefore'
  BY <1>1 DEF OpeningsInv, OthersCameBefore, InHand
<1>6. OpenedIsAllowed'
  BY <1>1 DEF OpeningsInv, OpenedIsAllowed
<1>7. OnceReceived'
  BY <1>1 DEF OpeningsInv, OnceReceived
<1>8. BudgetRead'
  BY <1>1 DEF OpeningsInv, BudgetRead
<1>9. ModesAreBoolean'
  <2>1. leg'.plan.mode = FALSE
    BY <1>1 DEF Automatic!NoPlan
  <2> QED BY <1>1, <2>1 DEF OpeningsInv, ModesAreBoolean
<1>10. BudgetStands'
  BY <1>1 DEF OpeningsInv, BudgetStands
<1>11. PlansAreKept'
  BY <1>1 DEF OpeningsInv, PlansAreKept
<1>12. Automatic!CooldownHolds'
  BY <1>1 DEF OpeningsInv, Automatic!CooldownHolds
<1>13. OpeningsChange
  BY <1>1 DEF OpeningsChange
<1> QED BY <1>2, <1>3, <1>4, <1>5, <1>6, <1>7, <1>8, <1>9, <1>10, <1>11, <1>12, <1>13 DEF OpeningsInv

LEMMA AssembleKept ==
  ASSUME OpeningsInv, Automatic!Assemble
  PROVE  OpeningsInv' /\ OpeningsChange
<1>1. /\ leg.at = "assemble" /\ leg'.of = leg.of
      /\ \/ \E b \in {Automatic!BudgetAt(letter[leg.of].received), "unreadable"} :
              leg' = [at |-> "plan", of |-> leg.of, plan |-> Automatic!PlanNow, budget |-> b]
         \/ leg' = [at |-> "normal", of |-> leg.of, plan |-> leg.plan, budget |-> leg.budget]
      /\ UNCHANGED <<clock, enabled, letter, plan, gate, moment, holder, said>>
  BY DEF OpeningsInv, OpeningsShaped, Automatic!Assemble, Automatic!Step
<1>2. OpeningsShaped'
  BY <1>1 DEF OpeningsInv, OpeningsShaped
<1>3. MomentsDated'
  BY <1>1 DEF OpeningsInv, MomentsDated
<1>4. OneInHand'
  BY <1>1 DEF OpeningsInv, OneInHand, InHand
<1>5. OthersCameBefore'
  BY <1>1 DEF OpeningsInv, OthersCameBefore, InHand
<1>6. OpenedIsAllowed'
  BY <1>1 DEF OpeningsInv, OpenedIsAllowed
<1>7. OnceReceived'
  BY <1>1 DEF OpeningsInv, OnceReceived
<1>8. BudgetRead'
  BY <1>1 DEF BudgetRead, Automatic!BudgetAt
<1>9. ModesAreBoolean'
  <2>1. leg'.plan = leg.plan \/ leg'.plan = Automatic!PlanNow
    BY <1>1
  <2>2. Automatic!PlanNow.mode = enabled
    BY DEF Automatic!PlanNow
  <2> QED BY <1>1, <2>1, <2>2 DEF OpeningsInv, ModesAreBoolean
<1>10. BudgetStands'
  <2> SUFFICES ASSUME leg'.at # "idle", leg'.budget = "clear", NEW m \in Letters, m # leg.of,
                      moment[m].state # "none"
               PROVE  letter[leg.of].received - moment[m].opened >= Cooldown
    BY <1>1 DEF BudgetStands
  <2>0. /\ leg.of \in Letters /\ InHand(leg.of)
        /\ letter[leg.of].received \in Nat /\ moment[m].opened \in Nat
    BY <1>1 DEF OpeningsInv, OpeningsShaped, InHand, MomentsDated
  <2>1. CASE leg'.budget = Automatic!BudgetAt(letter[leg.of].received)
    <3>1. ~Automatic!CooldownActive(letter[leg.of].received)
      BY <2>1 DEF Automatic!BudgetAt
    <3>2. moment[m].opened <= letter[leg.of].received
      BY <2>0 DEF OpeningsInv, OthersCameBefore
    <3>3. ~(letter[leg.of].received - moment[m].opened < Cooldown)
      BY <3>1, <3>2 DEF Automatic!CooldownActive
    <3> QED BY <2>0, <3>3, LettersAssumption
  <2>2. CASE leg'.budget = "unreadable"
    BY <2>2
  <2>3. CASE leg'.budget = leg.budget
    BY <1>1, <2>3 DEF OpeningsInv, BudgetStands
  <2> QED BY <1>1, <2>1, <2>2, <2>3
<1>11. PlansAreKept'
  <2>1. Automatic!PlanNow.mode = enabled
    BY DEF Automatic!PlanNow
  <2>2. leg'.at = "plan" => leg'.plan = Automatic!PlanNow
    BY <1>1
  <2> QED BY <1>1, <2>1, <2>2 DEF OpeningsInv, PlansAreKept
<1>12. Automatic!CooldownHolds'
  BY <1>1 DEF OpeningsInv, Automatic!CooldownHolds
<1>13. OpeningsChange
  BY <1>1 DEF OpeningsChange
<1> QED BY <1>2, <1>3, <1>4, <1>5, <1>6, <1>7, <1>8, <1>9, <1>10, <1>11, <1>12, <1>13 DEF OpeningsInv

LEMMA RecordPlannerCycleKept ==
  ASSUME OpeningsInv, Automatic!RecordPlannerCycle
  PROVE  OpeningsInv' /\ OpeningsChange
<1>1. /\ leg.at = "plan"
      /\ plan' = [t \in Letters |-> IF t = leg.of /\ plan[t] = Automatic!NoPlan THEN leg.plan ELSE plan[t]]
      /\ \/ leg' = [at |-> "gate", of |-> leg.of, plan |-> leg.plan, budget |-> leg.budget] /\ plan'[leg.of] = leg.plan
         \/ leg' = [at |-> "normal", of |-> leg.of, plan |-> leg.plan, budget |-> leg.budget]
      /\ UNCHANGED <<clock, enabled, letter, gate, moment, holder, said>>
  BY DEF OpeningsInv, OpeningsShaped, Automatic!RecordPlannerCycle, Automatic!Step, Automatic!SamePlan
<1>2. OpeningsShaped'
  BY <1>1 DEF OpeningsInv, OpeningsShaped
<1>3. MomentsDated'
  BY <1>1 DEF OpeningsInv, MomentsDated
<1>4. OneInHand'
  BY <1>1 DEF OpeningsInv, OneInHand, InHand
<1>5. OthersCameBefore'
  BY <1>1 DEF OpeningsInv, OthersCameBefore, InHand
<1>6. OpenedIsAllowed'
  BY <1>1 DEF OpeningsInv, OpenedIsAllowed
<1>7. OnceReceived'
  BY <1>1 DEF OpeningsInv, OnceReceived
<1>8. BudgetRead'
  BY <1>1 DEF OpeningsInv, BudgetRead
<1>9. ModesAreBoolean'
  BY <1>1 DEF OpeningsInv, ModesAreBoolean
<1>10. BudgetStands'
  BY <1>1 DEF OpeningsInv, BudgetStands
<1>11. PlansAreKept'
  <2>1. leg'.at \in {"gate", "normal"} /\ leg'.of = leg.of /\ leg'.plan = leg.plan
    BY <1>1
  <2>2. leg'.at = "gate" => plan'[leg.of] = leg.plan
    BY <1>1
  <2>3. leg.plan.mode = enabled
    BY <1>1 DEF OpeningsInv, PlansAreKept
  <2>4. \A t \in Letters : plan[t].mode = TRUE => plan'[t] = plan[t]
    BY <1>1 DEF Automatic!NoPlan
  <2> QED BY <1>1, <2>1, <2>2, <2>3, <2>4 DEF OpeningsInv, PlansAreKept
<1>12. Automatic!CooldownHolds'
  BY <1>1 DEF OpeningsInv, Automatic!CooldownHolds
<1>13. OpeningsChange
  BY <1>1 DEF OpeningsChange
<1> QED BY <1>2, <1>3, <1>4, <1>5, <1>6, <1>7, <1>8, <1>9, <1>10, <1>11, <1>12, <1>13 DEF OpeningsInv

LEMMA ReplayGateKept ==
  ASSUME OpeningsInv, Automatic!ReplayGate
  PROVE  OpeningsInv' /\ OpeningsChange
<1>1. /\ leg.at = "gate"
      /\ \/ leg' = [at |-> "deliver", of |-> leg.of, plan |-> leg.plan, budget |-> leg.budget] /\ gate[leg.of] = "ALLOW"
         \/ leg' = [at |-> "normal", of |-> leg.of, plan |-> leg.plan, budget |-> leg.budget]
      /\ UNCHANGED <<clock, enabled, letter, plan, gate, moment, holder, said>>
  BY DEF OpeningsInv, OpeningsShaped, Automatic!ReplayGate, Automatic!Step
<1>2. OpeningsShaped'
  BY <1>1 DEF OpeningsInv, OpeningsShaped
<1>3. MomentsDated'
  BY <1>1 DEF OpeningsInv, MomentsDated
<1>4. OneInHand'
  BY <1>1 DEF OpeningsInv, OneInHand, InHand
<1>5. OthersCameBefore'
  BY <1>1 DEF OpeningsInv, OthersCameBefore, InHand
<1>6. OpenedIsAllowed'
  BY <1>1 DEF OpeningsInv, OpenedIsAllowed
<1>7. OnceReceived'
  BY <1>1 DEF OpeningsInv, OnceReceived
<1>8. BudgetRead'
  BY <1>1 DEF OpeningsInv, BudgetRead
<1>9. ModesAreBoolean'
  BY <1>1 DEF OpeningsInv, ModesAreBoolean
<1>10. BudgetStands'
  BY <1>1 DEF OpeningsInv, BudgetStands
<1>11. PlansAreKept'
  BY <1>1 DEF OpeningsInv, PlansAreKept
<1>12. Automatic!CooldownHolds'
  BY <1>1 DEF OpeningsInv, Automatic!CooldownHolds
<1>13. OpeningsChange
  BY <1>1 DEF OpeningsChange
<1> QED BY <1>2, <1>3, <1>4, <1>5, <1>6, <1>7, <1>8, <1>9, <1>10, <1>11, <1>12, <1>13 DEF OpeningsInv

LEMMA DenyOpeningKept ==
  ASSUME OpeningsInv, Automatic!DenyOpening
  PROVE  OpeningsInv' /\ OpeningsChange
<1>1. /\ leg.at = "gate" /\ gate[leg.of] = "none"
      /\ \E verdict \in {"DENY", "DEGRADED"} :
              gate' = [t \in Letters |-> IF t = leg.of THEN verdict ELSE gate[t]]
      /\ leg' = [at |-> "normal", of |-> leg.of, plan |-> leg.plan, budget |-> leg.budget]
      /\ UNCHANGED <<clock, enabled, letter, plan, moment, holder, said>>
  BY DEF OpeningsInv, OpeningsShaped, Automatic!DenyOpening, Automatic!Step, Automatic!Decided
<1>2. OpeningsShaped'
  BY <1>1 DEF OpeningsInv, OpeningsShaped
<1>3. MomentsDated'
  BY <1>1 DEF OpeningsInv, MomentsDated
<1>4. OneInHand'
  BY <1>1 DEF OpeningsInv, OneInHand, InHand
<1>5. OthersCameBefore'
  BY <1>1 DEF OpeningsInv, OthersCameBefore, InHand
<1>6. OpenedIsAllowed'
  BY <1>1 DEF OpeningsInv, OpenedIsAllowed
<1>7. OnceReceived'
  BY <1>1 DEF OpeningsInv, OnceReceived
<1>8. BudgetRead'
  BY <1>1 DEF OpeningsInv, BudgetRead
<1>9. ModesAreBoolean'
  BY <1>1 DEF OpeningsInv, ModesAreBoolean
<1>10. BudgetStands'
  BY <1>1 DEF OpeningsInv, BudgetStands
<1>11. PlansAreKept'
  BY <1>1 DEF OpeningsInv, PlansAreKept
<1>12. Automatic!CooldownHolds'
  BY <1>1 DEF OpeningsInv, Automatic!CooldownHolds
<1>13. OpeningsChange
  BY <1>1 DEF OpeningsChange
<1> QED BY <1>2, <1>3, <1>4, <1>5, <1>6, <1>7, <1>8, <1>9, <1>10, <1>11, <1>12, <1>13 DEF OpeningsInv

LEMMA CommitCp2OpenKept ==
  ASSUME OpeningsInv, Automatic!CommitCp2Open
  PROVE  OpeningsInv' /\ OpeningsChange
<1>1. /\ leg.at = "gate" /\ gate[leg.of] = "none"
      /\ leg.budget # "cooling" /\ leg.budget # "unreadable"
      /\ Stage \in Automatic!AutomaticStages /\ leg.plan.mode
      /\ gate' = [t \in Letters |-> IF t = leg.of THEN "ALLOW" ELSE gate[t]]
      /\ moment' = [t \in Letters |-> IF t = leg.of THEN [state |-> "OPENING", opened |-> clock] ELSE moment[t]]
      /\ holder' = leg.of
      /\ leg' = [at |-> "deliver", of |-> leg.of, plan |-> leg.plan, budget |-> leg.budget]
      /\ UNCHANGED <<clock, enabled, letter, plan, said>>
  <2>1. /\ leg.at = "gate" /\ gate[leg.of] = "none" /\ Automatic!Reasons = {}
        /\ gate' = [t \in Letters |-> IF t = leg.of THEN "ALLOW" ELSE gate[t]]
        /\ moment' = [t \in Letters |-> IF t = leg.of THEN [state |-> "OPENING", opened |-> clock]
                                        ELSE moment[t]]
        /\ holder' = leg.of
        /\ leg' = [at |-> "deliver", of |-> leg.of, plan |-> leg.plan, budget |-> leg.budget]
        /\ UNCHANGED <<clock, enabled, letter, plan, said>>
    BY DEF OpeningsInv, OpeningsShaped, Automatic!CommitCp2Open, Automatic!Step, Automatic!Decided,
           Automatic!Opened
  <2>2. Automatic!GateReasons = {} /\ Automatic!Unauthorized = {}
    BY <2>1 DEF Automatic!Reasons
  <2>3. leg.budget # "unreadable"
    BY <2>2 DEF Automatic!Unauthorized
  <2>4. "AUTO_TEACH_DISABLED" \notin Automatic!GateReasons
         /\ "HARD_COOLDOWN_ACTIVE" \notin Automatic!GateReasons
    BY <2>2
  <2>5. Automatic!AutomaticTeachingEnabled(leg.plan.mode) /\ leg.budget # "cooling"
    BY <2>4 DEF Automatic!GateReasons
  <2> QED BY <2>1, <2>3, <2>5 DEF Automatic!AutomaticTeachingEnabled
<1>a. /\ moment'[leg.of].state = "OPENING" /\ moment'[leg.of].opened = clock /\ leg.of \in Letters
      /\ \A t \in Letters : t # leg.of => moment'[t] = moment[t]
  BY <1>1 DEF OpeningsInv, OpeningsShaped
<1>2. OpeningsShaped'
  BY <1>1 DEF OpeningsInv, OpeningsShaped
<1>3. MomentsDated'
  BY <1>1, <1>a DEF OpeningsInv, OpeningsShaped, MomentsDated
<1>4. OneInHand'
  BY <1>1, <1>a DEF OpeningsInv, OneInHand, InHand
<1>5. OthersCameBefore'
  BY <1>1, <1>a DEF OpeningsInv, OthersCameBefore, OneInHand, InHand
<1>6. OpenedIsAllowed'
  BY <1>1, <1>a, LettersAreNot DEF OpeningsInv, OpenedIsAllowed
<1>7. OnceReceived'
  BY <1>1, <1>a DEF OpeningsInv, OpeningsShaped, OnceReceived
<1>8. BudgetRead'
  BY <1>1 DEF OpeningsInv, BudgetRead
<1>9. ModesAreBoolean'
  BY <1>1 DEF OpeningsInv, ModesAreBoolean
<1>10. BudgetStands'
  BY <1>1, <1>a DEF OpeningsInv, BudgetStands
<1>11. PlansAreKept'
  <2>1. leg.plan.mode = enabled /\ leg.plan = plan[leg.of]
    BY <1>1 DEF OpeningsInv, PlansAreKept
  <2>2. plan[leg.of].mode
    BY <1>1, <2>1
  <2>2b. Stage \in Automatic!AutomaticStages
    BY <1>1
  <2>3. plan[leg.of].mode = TRUE
    BY <2>2, ModesAreBoolean DEF OpeningsInv
  <2> QED BY <1>1, <2>1, <2>2b, <2>3 DEF OpeningsInv, PlansAreKept
<1>12. Automatic!CooldownHolds'
  <2>0. clock \in Nat /\ letter[leg.of].received \in Nat /\ letter[leg.of].received <= clock
    BY <1>a DEF OpeningsInv, OpeningsShaped, MomentsDated
  <2>1. ASSUME NEW m \in Letters, m # leg.of, moment[m].state # "none"
        PROVE  moment[m].opened \in Nat /\ clock - moment[m].opened >= Cooldown
                 /\ moment[m].opened <= clock
    <3>1. leg.budget = "clear" => letter[leg.of].received - moment[m].opened >= Cooldown
      BY <1>1, <2>1 DEF OpeningsInv, BudgetStands
    <3>2. leg.budget = "clear"
      BY <1>1 DEF OpeningsInv, BudgetRead
    <3>3. moment[m].opened \in Nat /\ moment[m].opened <= clock
      BY DEF OpeningsInv, MomentsDated
    <3> QED BY <2>0, <3>1, <3>2, <3>3, LettersAssumption
  <2> SUFFICES ASSUME NEW m \in Letters, NEW n \in Letters, m # n,
                      moment'[m].state # "none", moment'[n].state # "none",
                      moment'[m].opened <= moment'[n].opened
               PROVE  moment'[n].opened - moment'[m].opened >= Cooldown
    BY DEF Automatic!CooldownHolds
  <2>2. CASE m # leg.of /\ n # leg.of
    BY <1>a, <2>2 DEF OpeningsInv, Automatic!CooldownHolds
  <2>3. CASE n = leg.of
    BY <1>a, <2>1, <2>3
  <2>4. CASE m = leg.of
    <3>1. /\ moment[n].opened \in Nat /\ clock - moment[n].opened >= Cooldown
          /\ moment[n].opened <= clock /\ clock <= moment[n].opened
      BY <1>a, <2>1, <2>4
    <3> QED BY <1>a, <2>0, <2>4, <3>1, LettersAssumption
  <2> QED BY <2>2, <2>3, <2>4
<1>13. OpeningsChange
  BY <1>1 DEF OpeningsChange
<1> QED BY <1>2, <1>3, <1>4, <1>5, <1>6, <1>7, <1>8, <1>9, <1>10, <1>11, <1>12, <1>13 DEF OpeningsInv

LEMMA DeliverOpeningKept ==
  ASSUME OpeningsInv, Automatic!DeliverOpening
  PROVE  OpeningsInv' /\ OpeningsChange
<1>1. /\ leg.at = "deliver"
      /\ \E s \in {"DONE", "UNANSWERED"} : letter' = [t \in Letters |->
              IF t = leg.of THEN [status |-> s, received |-> letter[t].received] ELSE letter[t]]
      /\ \/ leg' = [at |-> "land", of |-> leg.of, plan |-> leg.plan, budget |-> leg.budget]
         \/ leg' = [at |-> "abort", of |-> leg.of, plan |-> leg.plan, budget |-> leg.budget]
      /\ \A t \in Letters : said'[t] = said[t] \/ t = leg.of
      /\ said' = [t \in Letters |-> said'[t]]
      /\ UNCHANGED <<clock, enabled, plan, gate, moment, holder>>
  BY DEF OpeningsInv, OpeningsShaped, Automatic!DeliverOpening, Automatic!Step
<1>a. /\ leg.of \in Letters /\ leg'.of = leg.of /\ leg'.budget = leg.budget
      /\ leg'.at \in {"land", "abort"}
      /\ \A t \in Letters : letter'[t].received = letter[t].received
      /\ \A t \in Letters : letter'[t].status = "GENERATING" => letter[t].status = "GENERATING"
  BY <1>1 DEF OpeningsInv, OpeningsShaped
<1>2. OpeningsShaped'
  BY <1>1 DEF OpeningsInv, OpeningsShaped
<1>3. MomentsDated'
  BY <1>1, <1>a DEF OpeningsInv, OpeningsShaped, MomentsDated
<1>4. OneInHand'
  BY <1>1, <1>a DEF OpeningsInv, OneInHand, InHand
<1>5. OthersCameBefore'
  BY <1>1, <1>a DEF OpeningsInv, OthersCameBefore, InHand, MomentsDated
<1>6. OpenedIsAllowed'
  BY <1>1, <1>a, LettersAreNot DEF OpeningsInv, OpenedIsAllowed
<1>7. OnceReceived'
  BY <1>1, <1>a DEF OpeningsInv, OpeningsShaped, OnceReceived
<1>8. BudgetRead'
  BY <1>1 DEF OpeningsInv, BudgetRead
<1>9. ModesAreBoolean'
  BY <1>1 DEF OpeningsInv, ModesAreBoolean
<1>10. BudgetStands'
  BY <1>1, <1>a DEF OpeningsInv, BudgetStands
<1>11. PlansAreKept'
  BY <1>1 DEF OpeningsInv, PlansAreKept
<1>12. Automatic!CooldownHolds'
  BY <1>1, <1>a DEF OpeningsInv, Automatic!CooldownHolds, MomentsDated
<1>13. OpeningsChange
  BY <1>1 DEF OpeningsChange, OpeningsInv, OpenedIsAllowed, PlansAreKept
<1> QED BY <1>2, <1>3, <1>4, <1>5, <1>6, <1>7, <1>8, <1>9, <1>10, <1>11, <1>12, <1>13 DEF OpeningsInv

LEMMA LandOpeningKept ==
  ASSUME OpeningsInv, Automatic!LandOpening
  PROVE  OpeningsInv' /\ OpeningsChange
<1>1. /\ leg.at = "land"
      /\ moment' = [t \in Letters |-> IF t = leg.of /\ moment[t].state = "OPENING"
                                  THEN [state |-> "AWAITING_USER", opened |-> clock] ELSE moment[t]]
      /\ leg' = [at |-> "idle", of |-> Automatic!Nobody, plan |-> Automatic!NoPlan, budget |-> "none"]
      /\ UNCHANGED <<clock, enabled, letter, plan, gate, holder, said>>
  BY DEF OpeningsInv, OpeningsShaped, Automatic!LandOpening, Automatic!Idle
<1>a. /\ leg.of \in Letters
      /\ \A t \in Letters : moment'[t].state = "none" <=> moment[t].state = "none"
      /\ \A t \in Letters : moment'[t].opened = moment[t].opened
                              \/ (t = leg.of /\ moment'[t].opened = clock /\ moment[t].state = "OPENING")
  BY <1>1 DEF OpeningsInv, OpeningsShaped
<1>2. OpeningsShaped'
  BY <1>1 DEF OpeningsInv, OpeningsShaped
<1>3. MomentsDated'
  BY <1>1, <1>a DEF OpeningsInv, OpeningsShaped, MomentsDated
<1>4. OneInHand'
  BY <1>1, <1>a DEF OpeningsInv, OneInHand, InHand
<1>5. OthersCameBefore'
  BY <1>1, <1>a DEF OpeningsInv, OthersCameBefore, OneInHand, InHand
<1>6. OpenedIsAllowed'
  BY <1>1, <1>a, LettersAreNot DEF OpeningsInv, OpenedIsAllowed
<1>7. OnceReceived'
  BY <1>1, <1>a DEF OpeningsInv, OpeningsShaped, OnceReceived
<1>8. BudgetRead'
  BY <1>1 DEF OpeningsInv, BudgetRead
<1>9. ModesAreBoolean'
  <2>1. leg'.plan.mode = FALSE
    BY <1>1 DEF Automatic!NoPlan
  <2> QED BY <1>1, <2>1 DEF OpeningsInv, ModesAreBoolean
<1>10. BudgetStands'
  BY <1>1, <1>a DEF OpeningsInv, BudgetStands
<1>11. PlansAreKept'
  BY <1>1 DEF OpeningsInv, PlansAreKept
<1>12. Automatic!CooldownHolds'
  <2>0. clock \in Nat /\ \A t \in Letters : moment[t].opened \in Nat /\ moment[t].opened <= clock
    BY DEF OpeningsInv, OpeningsShaped, MomentsDated
  <2>1. ASSUME NEW m \in Letters, m # leg.of, moment[m].state # "none", moment[leg.of].state # "none"
        PROVE  moment[leg.of].opened - moment[m].opened >= Cooldown
    <3>1. moment[m].opened <= letter[leg.of].received
      BY <1>1, <1>a, <2>1 DEF OpeningsInv, OthersCameBefore, InHand
    <3>2. letter[leg.of].received <= moment[leg.of].opened /\ letter[leg.of].received \in Nat
      BY <1>a, <2>1 DEF OpeningsInv, MomentsDated
    <3>3. moment[m].opened <= moment[leg.of].opened
      BY <1>a, <2>0, <3>1, <3>2
    <3> QED BY <1>a, <2>1, <3>3 DEF OpeningsInv, Automatic!CooldownHolds
  <2> SUFFICES ASSUME NEW m \in Letters, NEW n \in Letters, m # n,
                      moment'[m].state # "none", moment'[n].state # "none",
                      moment'[m].opened <= moment'[n].opened
               PROVE  moment'[n].opened - moment'[m].opened >= Cooldown
    BY DEF Automatic!CooldownHolds
  <2>2. CASE m # leg.of /\ n # leg.of
    BY <1>a, <2>2 DEF OpeningsInv, Automatic!CooldownHolds
  <2>3. CASE n = leg.of
    <3>1. moment[n].opened - moment[m].opened >= Cooldown
      BY <1>a, <2>1, <2>3
    <3>2. moment'[n].opened >= moment[n].opened /\ moment'[n].opened \in Nat
      BY <1>a, <2>0
    <3> QED BY <1>a, <2>0, <2>3, <3>1, <3>2, LettersAssumption
  <2>4. CASE m = leg.of
    <3>1. moment[m].opened - moment[n].opened >= Cooldown
      BY <1>a, <2>1, <2>4
    <3>2. /\ moment'[m].opened >= moment[m].opened /\ moment'[m].opened \in Nat
          /\ moment'[n].opened = moment[n].opened
      BY <1>a, <2>0, <2>4
    <3> QED BY <2>0, <3>1, <3>2, LettersAssumption
  <2> QED BY <2>2, <2>3, <2>4
<1>13. OpeningsChange
  BY <1>1 DEF OpeningsChange
<1> QED BY <1>2, <1>3, <1>4, <1>5, <1>6, <1>7, <1>8, <1>9, <1>10, <1>11, <1>12, <1>13 DEF OpeningsInv

LEMMA AbortOpeningKept ==
  ASSUME OpeningsInv, Automatic!AbortOpening
  PROVE  OpeningsInv' /\ OpeningsChange
<1>1. /\ leg.at = "abort"
      /\ moment' = [t \in Letters |-> IF t = leg.of
                                  THEN [state |-> "CLOSED", opened |-> moment[t].opened] ELSE moment[t]]
      /\ holder' = Automatic!Nobody \/ holder' = holder
      /\ leg' = [at |-> "idle", of |-> Automatic!Nobody, plan |-> Automatic!NoPlan, budget |-> "none"]
      /\ UNCHANGED <<clock, enabled, letter, plan, gate, said>>
  BY DEF OpeningsInv, OpeningsShaped, Automatic!AbortOpening, Automatic!Idle
<1>b. leg.of \in Letters /\ moment[leg.of].state # "none"
  BY <1>1 DEF OpeningsInv, OpeningsShaped, OpenedIsAllowed
<1>a. /\ \A t \in Letters : moment'[t].state = "none" <=> moment[t].state = "none"
      /\ \A t \in Letters : moment'[t].opened = moment[t].opened
  BY <1>1, <1>b DEF OpeningsInv, OpeningsShaped
<1>2. OpeningsShaped'
  BY <1>1 DEF OpeningsInv, OpeningsShaped
<1>3. MomentsDated'
  BY <1>1, <1>a DEF OpeningsInv, OpeningsShaped, MomentsDated
<1>4. OneInHand'
  BY <1>1, <1>a DEF OpeningsInv, OneInHand, InHand
<1>5. OthersCameBefore'
  BY <1>1, <1>a DEF OpeningsInv, OthersCameBefore, InHand, MomentsDated
<1>6. OpenedIsAllowed'
  BY <1>1, <1>a, LettersAreNot DEF OpeningsInv, OpenedIsAllowed
<1>7. OnceReceived'
  BY <1>1, <1>a DEF OpeningsInv, OpeningsShaped, OnceReceived
<1>8. BudgetRead'
  BY <1>1 DEF OpeningsInv, BudgetRead
<1>9. ModesAreBoolean'
  <2>1. leg'.plan.mode = FALSE
    BY <1>1 DEF Automatic!NoPlan
  <2> QED BY <1>1, <2>1 DEF OpeningsInv, ModesAreBoolean
<1>10. BudgetStands'
  BY <1>1, <1>a DEF OpeningsInv, BudgetStands
<1>11. PlansAreKept'
  BY <1>1 DEF OpeningsInv, PlansAreKept
<1>12. Automatic!CooldownHolds'
  BY <1>1, <1>a DEF OpeningsInv, Automatic!CooldownHolds, MomentsDated
<1>13. OpeningsChange
  BY <1>1 DEF OpeningsChange
<1> QED BY <1>2, <1>3, <1>4, <1>5, <1>6, <1>7, <1>8, <1>9, <1>10, <1>11, <1>12, <1>13 DEF OpeningsInv

LEMMA ReplyNormallyKept ==
  ASSUME OpeningsInv, Automatic!ReplyNormally
  PROVE  OpeningsInv' /\ OpeningsChange
<1>1. /\ leg.at = "normal"
      /\ \E s \in {"DONE", "UNANSWERED"} : letter' = [t \in Letters |->
              IF t = leg.of THEN [status |-> s, received |-> letter[t].received] ELSE letter[t]]
      /\ \A t \in Letters : said'[t] = said[t] \/ said'[t] = "reply"
      /\ said' = [t \in Letters |-> said'[t]]
      /\ leg' = [at |-> "idle", of |-> Automatic!Nobody, plan |-> Automatic!NoPlan, budget |-> "none"]
      /\ UNCHANGED <<clock, enabled, plan, gate, moment, holder>>
  BY DEF OpeningsInv, OpeningsShaped, Automatic!ReplyNormally, Automatic!Idle
<1>2. OpeningsShaped'
  BY <1>1 DEF OpeningsInv, OpeningsShaped
<1>3. MomentsDated'
  BY <1>1 DEF OpeningsInv, MomentsDated
<1>4. OneInHand'
  BY <1>1 DEF OpeningsInv, OneInHand, InHand
<1>5. OthersCameBefore'
  BY <1>1 DEF OpeningsInv, OthersCameBefore, InHand
<1>6. OpenedIsAllowed'
  BY <1>1 DEF OpeningsInv, OpenedIsAllowed
<1>7. OnceReceived'
  BY <1>1 DEF OpeningsInv, OpeningsShaped, OnceReceived
<1>8. BudgetRead'
  BY <1>1 DEF OpeningsInv, BudgetRead
<1>9. ModesAreBoolean'
  <2>1. leg'.plan.mode = FALSE
    BY <1>1 DEF Automatic!NoPlan
  <2> QED BY <1>1, <2>1 DEF OpeningsInv, ModesAreBoolean
<1>10. BudgetStands'
  BY <1>1 DEF OpeningsInv, BudgetStands
<1>11. PlansAreKept'
  BY <1>1 DEF OpeningsInv, PlansAreKept
<1>12. Automatic!CooldownHolds'
  BY <1>1 DEF OpeningsInv, Automatic!CooldownHolds
<1>13. OpeningsChange
  BY <1>1 DEF OpeningsChange
<1> QED BY <1>2, <1>3, <1>4, <1>5, <1>6, <1>7, <1>8, <1>9, <1>10, <1>11, <1>12, <1>13 DEF OpeningsInv

LEMMA RefusedWriteKept ==
  ASSUME OpeningsInv, Automatic!RefusedWrite
  PROVE  OpeningsInv' /\ OpeningsChange
<1>1. /\ leg' = [at |-> "idle", of |-> Automatic!Nobody, plan |-> Automatic!NoPlan, budget |-> "none"]
      /\ UNCHANGED <<clock, enabled, letter, plan, gate, moment, holder, said>>
  BY DEF OpeningsInv, OpeningsShaped, Automatic!RefusedWrite, Automatic!Idle
<1>2. OpeningsShaped'
  BY <1>1 DEF OpeningsInv, OpeningsShaped
<1>3. MomentsDated'
  BY <1>1 DEF OpeningsInv, MomentsDated
<1>4. OneInHand'
  BY <1>1 DEF OpeningsInv, OneInHand, InHand
<1>5. OthersCameBefore'
  BY <1>1 DEF OpeningsInv, OthersCameBefore, InHand
<1>6. OpenedIsAllowed'
  BY <1>1 DEF OpeningsInv, OpenedIsAllowed
<1>7. OnceReceived'
  BY <1>1 DEF OpeningsInv, OnceReceived
<1>8. BudgetRead'
  BY <1>1 DEF OpeningsInv, BudgetRead
<1>9. ModesAreBoolean'
  <2>1. leg'.plan.mode = FALSE
    BY <1>1 DEF Automatic!NoPlan
  <2> QED BY <1>1, <2>1 DEF OpeningsInv, ModesAreBoolean
<1>10. BudgetStands'
  BY <1>1 DEF OpeningsInv, BudgetStands
<1>11. PlansAreKept'
  BY <1>1 DEF OpeningsInv, PlansAreKept
<1>12. Automatic!CooldownHolds'
  BY <1>1 DEF OpeningsInv, Automatic!CooldownHolds
<1>13. OpeningsChange
  BY <1>1 DEF OpeningsChange
<1> QED BY <1>2, <1>3, <1>4, <1>5, <1>6, <1>7, <1>8, <1>9, <1>10, <1>11, <1>12, <1>13 DEF OpeningsInv

LEMMA RestartKept ==
  ASSUME OpeningsInv, Automatic!Restart
  PROVE  OpeningsInv' /\ OpeningsChange
<1>1. /\ leg' = [at |-> "idle", of |-> Automatic!Nobody, plan |-> Automatic!NoPlan, budget |-> "none"]
      /\ holder' = Automatic!Nobody
      /\ moment' = [t \in Letters |-> IF holder = t
                                  THEN [state |-> "CLOSED", opened |-> moment[t].opened] ELSE moment[t]]
      /\ letter' = [t \in Letters |-> letter'[t]]
      /\ \A t \in Letters : letter'[t] = letter[t]
                            \/ letter'[t] = [status |-> "UNANSWERED", received |-> letter[t].received]
      /\ UNCHANGED <<clock, enabled, plan, gate, said>>
  BY DEF OpeningsInv, OpeningsShaped, Automatic!Restart, Automatic!Idle
<1>b. holder \in Letters => moment[holder].state # "none"
  BY DEF OpeningsInv, OpenedIsAllowed
<1>a. /\ \A t \in Letters : moment'[t].state = "none" <=> moment[t].state = "none"
      /\ \A t \in Letters : moment'[t].opened = moment[t].opened
      /\ \A t \in Letters : letter'[t].received = letter[t].received
      /\ \A t \in Letters : letter'[t].status = "GENERATING" => letter[t].status = "GENERATING"
  BY <1>1, <1>b DEF OpeningsInv, OpeningsShaped
<1>2. OpeningsShaped'
  BY <1>1 DEF OpeningsInv, OpeningsShaped
<1>3. MomentsDated'
  BY <1>1, <1>a DEF OpeningsInv, OpeningsShaped, MomentsDated
<1>4. OneInHand'
  BY <1>1, <1>a DEF OpeningsInv, OneInHand, InHand
<1>5. OthersCameBefore'
  BY <1>1, <1>a DEF OpeningsInv, OthersCameBefore, InHand, MomentsDated
<1>6. OpenedIsAllowed'
  BY <1>1, <1>a, LettersAreNot DEF OpeningsInv, OpenedIsAllowed
<1>c. \A t \in Letters : letter'[t].status = "none" => letter[t].status = "none"
  BY <1>1
<1>7. OnceReceived'
  <2>1. \A t \in Letters : letter'[t].status = "none" => moment'[t].state = "none"
    BY <1>a, <1>c DEF OpeningsInv, OnceReceived
  <2>2. leg'.at = "idle"
    BY <1>1
  <2> QED BY <2>1, <2>2 DEF OnceReceived
<1>8. BudgetRead'
  BY <1>1 DEF OpeningsInv, BudgetRead
<1>9. ModesAreBoolean'
  <2>1. leg'.plan.mode = FALSE
    BY <1>1 DEF Automatic!NoPlan
  <2> QED BY <1>1, <2>1 DEF OpeningsInv, ModesAreBoolean
<1>10. BudgetStands'
  BY <1>1, <1>a DEF OpeningsInv, BudgetStands
<1>11. PlansAreKept'
  BY <1>1 DEF OpeningsInv, PlansAreKept
<1>12. Automatic!CooldownHolds'
  BY <1>1, <1>a DEF OpeningsInv, Automatic!CooldownHolds, MomentsDated
<1>13. OpeningsChange
  BY <1>1 DEF OpeningsChange
<1> QED BY <1>2, <1>3, <1>4, <1>5, <1>6, <1>7, <1>8, <1>9, <1>10, <1>11, <1>12, <1>13 DEF OpeningsInv

LEMMA UserTeachingKept ==
  ASSUME OpeningsInv, Automatic!UserTeaching
  PROVE  OpeningsInv' /\ OpeningsChange
<1>1. /\ leg.at = "idle" /\ leg' = leg
      /\ moment' = [t \in Letters |-> moment'[t]]
      /\ \A t \in Letters :
              \/ moment'[t] = moment[t]
              \/ /\ moment[t].state # "none"
                 /\ moment'[t] = [state |-> "CLOSED", opened |-> moment[t].opened]
      /\ holder' \notin Letters
      /\ UNCHANGED <<clock, enabled, letter, plan, gate, said>>
  <2>1. UNCHANGED <<clock, enabled, letter, plan, gate, said, leg>> /\ leg.at = "idle"
    BY DEF Automatic!UserTeaching
  <2>2. CASE holder \in Letters /\ moment' = [moment EXCEPT ![holder].state = "CLOSED"]
             /\ moment[holder].state = "AWAITING_USER" /\ holder' = Automatic!Nobody
    <3>1. moment' = [t \in Letters |-> IF t = holder THEN [state |-> "CLOSED", opened |-> moment[t].opened]
                                       ELSE moment[t]]
      BY <2>2 DEF OpeningsInv, OpeningsShaped
    <3> QED BY <2>1, <2>2, <3>1, LettersAreNot
  <2>3. CASE UNCHANGED moment /\ holder' \in {Automatic!Nobody, Automatic!TheUser}
    BY <2>1, <2>3, LettersAreNot DEF OpeningsInv, OpeningsShaped
  <2> QED BY <2>2, <2>3 DEF Automatic!UserTeaching
<1>a. /\ \A t \in Letters : moment'[t].state = "none" <=> moment[t].state = "none"
      /\ \A t \in Letters : moment'[t].opened = moment[t].opened
  BY <1>1 DEF OpeningsInv, OpeningsShaped
<1>2. OpeningsShaped'
  BY <1>1 DEF OpeningsInv, OpeningsShaped
<1>3. MomentsDated'
  BY <1>1, <1>a DEF OpeningsInv, OpeningsShaped, MomentsDated
<1>4. OneInHand'
  BY <1>1, <1>a DEF OpeningsInv, OneInHand, InHand
<1>5. OthersCameBefore'
  BY <1>1, <1>a DEF OpeningsInv, OthersCameBefore, InHand, MomentsDated
<1>6. OpenedIsAllowed'
  BY <1>1, <1>a, LettersAreNot DEF OpeningsInv, OpenedIsAllowed
<1>7. OnceReceived'
  BY <1>1, <1>a DEF OpeningsInv, OpeningsShaped, OnceReceived
<1>8. BudgetRead'
  BY <1>1 DEF OpeningsInv, BudgetRead
<1>9. ModesAreBoolean'
  BY <1>1 DEF OpeningsInv, ModesAreBoolean
<1>10. BudgetStands'
  BY <1>1, <1>a DEF OpeningsInv, BudgetStands
<1>11. PlansAreKept'
  BY <1>1 DEF OpeningsInv, PlansAreKept
<1>12. Automatic!CooldownHolds'
  BY <1>1, <1>a DEF OpeningsInv, Automatic!CooldownHolds, MomentsDated
<1>13. OpeningsChange
  BY <1>1 DEF OpeningsChange
<1> QED BY <1>2, <1>3, <1>4, <1>5, <1>6, <1>7, <1>8, <1>9, <1>10, <1>11, <1>12, <1>13 DEF OpeningsInv

LEMMA SetFrequencyKept ==
  ASSUME OpeningsInv, Automatic!SetFrequency
  PROVE  OpeningsInv' /\ OpeningsChange
<1>1. /\ leg.at = "idle" /\ leg' = leg
      /\ UNCHANGED <<clock, letter, plan, gate, moment, holder, said>>
  BY DEF Automatic!SetFrequency
<1>2. OpeningsShaped'
  BY <1>1 DEF OpeningsInv, OpeningsShaped
<1>3. MomentsDated'
  BY <1>1 DEF OpeningsInv, MomentsDated
<1>4. OneInHand'
  BY <1>1 DEF OpeningsInv, OneInHand, InHand
<1>5. OthersCameBefore'
  BY <1>1 DEF OpeningsInv, OthersCameBefore, InHand
<1>6. OpenedIsAllowed'
  BY <1>1 DEF OpeningsInv, OpenedIsAllowed
<1>7. OnceReceived'
  BY <1>1 DEF OpeningsInv, OnceReceived
<1>8. BudgetRead'
  BY <1>1 DEF OpeningsInv, BudgetRead
<1>9. ModesAreBoolean'
  <2>1. enabled' \in BOOLEAN
    BY DEF Automatic!SetFrequency
  <2> QED BY <1>1, <2>1 DEF OpeningsInv, ModesAreBoolean
<1>10. BudgetStands'
  BY <1>1 DEF OpeningsInv, BudgetStands
<1>11. PlansAreKept'
  BY <1>1 DEF OpeningsInv, PlansAreKept
<1>12. Automatic!CooldownHolds'
  BY <1>1 DEF OpeningsInv, Automatic!CooldownHolds
<1>13. OpeningsChange
  BY <1>1 DEF OpeningsChange
<1> QED BY <1>2, <1>3, <1>4, <1>5, <1>6, <1>7, <1>8, <1>9, <1>10, <1>11, <1>12, <1>13 DEF OpeningsInv

LEMMA EvidenceMovesKept ==
  ASSUME OpeningsInv, Automatic!EvidenceMoves
  PROVE  OpeningsInv' /\ OpeningsChange
<1>1. /\ leg' = leg
      /\ UNCHANGED <<clock, enabled, letter, plan, gate, moment, holder, said>>
  BY DEF OpeningsInv, OpeningsShaped, Automatic!EvidenceMoves
<1>2. OpeningsShaped'
  BY <1>1 DEF OpeningsInv, OpeningsShaped
<1>3. MomentsDated'
  BY <1>1 DEF OpeningsInv, MomentsDated
<1>4. OneInHand'
  BY <1>1 DEF OpeningsInv, OneInHand, InHand
<1>5. OthersCameBefore'
  BY <1>1 DEF OpeningsInv, OthersCameBefore, InHand
<1>6. OpenedIsAllowed'
  BY <1>1 DEF OpeningsInv, OpenedIsAllowed
<1>7. OnceReceived'
  BY <1>1 DEF OpeningsInv, OnceReceived
<1>8. BudgetRead'
  BY <1>1 DEF OpeningsInv, BudgetRead
<1>9. ModesAreBoolean'
  BY <1>1 DEF OpeningsInv, ModesAreBoolean
<1>10. BudgetStands'
  BY <1>1 DEF OpeningsInv, BudgetStands
<1>11. PlansAreKept'
  BY <1>1 DEF OpeningsInv, PlansAreKept
<1>12. Automatic!CooldownHolds'
  BY <1>1 DEF OpeningsInv, Automatic!CooldownHolds
<1>13. OpeningsChange
  BY <1>1 DEF OpeningsChange
<1> QED BY <1>2, <1>3, <1>4, <1>5, <1>6, <1>7, <1>8, <1>9, <1>10, <1>11, <1>12, <1>13 DEF OpeningsInv

LEMMA TickKept ==
  ASSUME OpeningsInv, Automatic!Tick
  PROVE  OpeningsInv' /\ OpeningsChange
<1>1. /\ clock' = clock + 1 /\ leg' = leg
      /\ UNCHANGED <<enabled, letter, plan, gate, moment, holder, said>>
  BY DEF OpeningsInv, OpeningsShaped, Automatic!Tick
<1>2. OpeningsShaped'
  BY <1>1 DEF OpeningsInv, OpeningsShaped
<1>3. MomentsDated'
  BY <1>1 DEF OpeningsInv, OpeningsShaped, MomentsDated
<1>4. OneInHand'
  BY <1>1 DEF OpeningsInv, OneInHand, InHand
<1>5. OthersCameBefore'
  BY <1>1 DEF OpeningsInv, OthersCameBefore, InHand
<1>6. OpenedIsAllowed'
  BY <1>1 DEF OpeningsInv, OpenedIsAllowed
<1>7. OnceReceived'
  BY <1>1 DEF OpeningsInv, OnceReceived
<1>8. BudgetRead'
  BY <1>1 DEF OpeningsInv, BudgetRead
<1>9. ModesAreBoolean'
  BY <1>1 DEF OpeningsInv, ModesAreBoolean
<1>10. BudgetStands'
  BY <1>1 DEF OpeningsInv, BudgetStands
<1>11. PlansAreKept'
  BY <1>1 DEF OpeningsInv, PlansAreKept
<1>12. Automatic!CooldownHolds'
  BY <1>1 DEF OpeningsInv, Automatic!CooldownHolds
<1>13. OpeningsChange
  BY <1>1 DEF OpeningsChange
<1> QED BY <1>2, <1>3, <1>4, <1>5, <1>6, <1>7, <1>8, <1>9, <1>10, <1>11, <1>12, <1>13 DEF OpeningsInv

LEMMA OpeningsKept == OpeningsInv /\ Automatic!Next => OpeningsInv' /\ OpeningsChange
  BY ReceiveKept, ReenterKept, AssembleKept, RecordPlannerCycleKept, ReplayGateKept,
     DenyOpeningKept, CommitCp2OpenKept, DeliverOpeningKept, LandOpeningKept, AbortOpeningKept,
     ReplyNormallyKept, RefusedWriteKept, RestartKept, UserTeachingKept, SetFrequencyKept,
     EvidenceMovesKept, TickKept
     DEF Automatic!Next

\* Two automatic openings are at least the cooldown apart, and none reaches
\* the user with automatic teaching switched off, for any letters, cooldown
\* and number of faults (runtime/automatic_turn.py, teaching/budget.py).
THEOREM OpeningsWelcome == Spec => OpeningsAreWelcome
<1>1. Init => OpeningsInv
  BY OpeningsStart DEF Init
<1>2. [Next]_vars => Automatic!Next \/ UNCHANGED autoVars
  BY DEF Next, vars
<1>3. OpeningsInv /\ UNCHANGED autoVars => OpeningsInv'
  BY DEF OpeningsInv, autoVars, OpeningsShaped, MomentsDated, OneInHand, OthersCameBefore, InHand,
         OpenedIsAllowed, OnceReceived, BudgetRead, ModesAreBoolean, BudgetStands, PlansAreKept, Automatic!CooldownHolds
<1>4. OpeningsInv /\ [Next]_vars => OpeningsInv'
  BY <1>2, <1>3, OpeningsKept
<1>5. OpeningsInv /\ [Next]_vars => [OpeningsChange]_Automatic!autoVars
  BY <1>2, OpeningsKept DEF autoVars, Automatic!autoVars
<1>6. OpeningsInv => Automatic!CooldownHolds
  BY DEF OpeningsInv
<1>7. Spec => []OpeningsInv
  BY <1>1, <1>4, PTL DEF Spec
<1>8. Spec => Automatic!OpeningsHaveConsent
  BY <1>5, <1>7, PTL DEF Spec, Automatic!OpeningsHaveConsent, OpeningsChange
<1>9. Spec => []Automatic!CooldownHolds
  BY <1>6, <1>7, PTL
<1> QED BY <1>8, <1>9 DEF OpeningsAreWelcome

(***************************************************************************)
(* The planner                                                             *)
(***************************************************************************)
Lanes    == {"REACTIVE", "OPPORTUNISTIC", "PROACTIVE"}
PolicyNames == {"LOUNGE", "BALANCED", "STUDY_FIRST"}
Band == 0..20

PlansTyped ==
  /\ facts \in [Foci -> FactForms] /\ setting \in Contexts
  /\ exposures \in [Foci -> 0..MaxShown] /\ debt \in [Foci -> Band]

\* What can be priced: a candidate whose factors are bands.
Priced(c) ==
  /\ c.lane \in Lanes /\ c.asked \in BOOLEAN
  /\ \A i \in 1..7 : c.benefit[i] \in Band
  /\ \A i \in 1..3 : c.cost[i] \in Band
  /\ DOMAIN c.benefit = 1..7 /\ DOMAIN c.cost = 1..3
  /\ c.urgency \in Band /\ c.owed \in Band /\ c.over \in Band

\* The benefit and the cost that _score weighs against each other.
Gain(c) == Plans!WeightedBenefit(c.benefit) + 8 * c.urgency + 8 * c.owed
Toll(c) == Plans!WeightedCost(c.cost) + 20 * c.over
Bonus(c, p) == IF c.service = "CRITICAL" /\ setting.break THEN p.bonus ELSE 0

LEMMA GainAndToll ==
  ASSUME NEW c, Priced(c)
  PROVE  Gain(c) \in Nat /\ Gain(c) <= 2000 /\ Toll(c) \in Nat
<1>1. \A x \in Band : x \in Nat /\ x <= 20
  BY DEF Band
<1>2. ASSUME NEW v, \A i \in 1..7 : v[i] \in Band
      PROVE  Plans!WeightedBenefit(v) \in Nat /\ Plans!WeightedBenefit(v) <= 1400
  <2>1. /\ v[1] \in Nat /\ v[2] \in Nat /\ v[3] \in Nat /\ v[4] \in Nat
        /\ v[5] \in Nat /\ v[6] \in Nat /\ v[7] \in Nat
        /\ v[1] <= 20 /\ v[2] <= 20 /\ v[3] <= 20 /\ v[4] <= 20
        /\ v[5] <= 20 /\ v[6] <= 20 /\ v[7] <= 20
    BY <1>1, <1>2
  <2> QED BY <2>1 DEF Plans!WeightedBenefit
<1>3. Plans!WeightedBenefit(c.benefit) \in Nat /\ Plans!WeightedBenefit(c.benefit) <= 1400
  BY <1>2 DEF Priced
<1>4. /\ c.urgency \in Nat /\ c.owed \in Nat /\ c.over \in Nat
      /\ c.urgency <= 20 /\ c.owed <= 20
      /\ c.cost[1] \in Nat /\ c.cost[2] \in Nat /\ c.cost[3] \in Nat
  BY <1>1 DEF Priced
<1>5. Gain(c) \in Nat /\ Gain(c) <= 2000
  BY <1>3, <1>4 DEF Gain
<1>6. Toll(c) \in Nat
  BY <1>4 DEF Toll, Plans!WeightedCost
<1> QED BY <1>5, <1>6

\* The numbers of a profile.
ProfileShaped(p) ==
  /\ \A lane \in Lanes : p[lane] \in {55, 80, 90, 95, 98, 100}
  /\ p.cost \in {55, 80, 100} /\ p.threshold \in Nat /\ p.bonus \in Nat /\ p.bonus <= 20000

LEMMA ProfilesShaped ==
  ASSUME NEW name \in PolicyNames
  PROVE  ProfileShaped(Plans!Profile(name))
<1>1. CASE name = "LOUNGE"
  BY <1>1 DEF Plans!Profile, ProfileShaped, Lanes
<1>2. CASE name = "BALANCED"
  BY <1>2 DEF Plans!Profile, ProfileShaped, Lanes
<1>3. CASE name = "STUDY_FIRST"
  BY <1>3 DEF Plans!Profile, ProfileShaped, Lanes
<1> QED BY <1>1, <1>2, <1>3 DEF PolicyNames

LEMMA UtilityForm ==
  ASSUME NEW c, NEW p
  PROVE  Plans!Utility(c, p) = p[c.lane] * Gain(c) - p.cost * Toll(c) + Bonus(c, p)
BY DEF Plans!Utility, Gain, Toll, Bonus, Plans!UrgencyWeight, Plans!DebtWeight,
       Plans!OverexposureWeight

\* No utility is above this.
Far == 300000

LEMMA UtilityBounded ==
  ASSUME NEW c, Priced(c), NEW p, ProfileShaped(p)
  PROVE  Plans!Utility(c, p) \in Int /\ Plans!Utility(c, p) <= Far
<1> DEFINE w == p[c.lane]  k == p.cost  b == Bonus(c, p)
<1>1. w \in {55, 80, 90, 95, 98, 100} /\ k \in {55, 80, 100} /\ b \in Nat /\ b <= 20000
  BY DEF ProfileShaped, Priced, Bonus
<1>2. Gain(c) \in Nat /\ Gain(c) <= 2000 /\ Toll(c) \in Nat
  BY GainAndToll
<1>3. \A x \in {55, 80, 90, 95, 98, 100}, g \in Nat : g <= 2000 => x * g \in Nat /\ x * g <= 200000
  BY SMT
<1>4. \A x \in {55, 80, 100}, g \in Nat : x * g \in Nat
  OBVIOUS
<1>5. w * Gain(c) \in Nat /\ w * Gain(c) <= 200000
  BY <1>1, <1>2, <1>3, SMT
<1>6. k * Toll(c) \in Nat
  BY <1>1, <1>2, <1>4
<1>7. Plans!Utility(c, p) = w * Gain(c) - k * Toll(c) + b
  BY UtilityForm
<1> HIDE DEF w, k, b
<1> QED BY <1>1, <1>5, <1>6, <1>7, SMT DEF Far

LEMMA MaxOfTwo ==
  ASSUME NEW a \in Nat, NEW b \in Nat
  PROVE  Plans!Max({a, b}) = (IF a >= b THEN a ELSE b)
<1> DEFINE m == IF a >= b THEN a ELSE b
<1>1. m \in {a, b} /\ \A y \in {a, b} : m >= y
  OBVIOUS
<1>2. \A x \in {a, b} : (\A y \in {a, b} : x >= y) => x = m
  OBVIOUS
<1> QED BY <1>1, <1>2 DEF Plans!Max

LEMMA MinOfTwo ==
  ASSUME NEW a \in Nat, NEW b \in Nat
  PROVE  Plans!Min({a, b}) = (IF a <= b THEN a ELSE b)
<1> DEFINE m == IF a <= b THEN a ELSE b
<1>1. m \in {a, b} /\ \A y \in {a, b} : m <= y
  OBVIOUS
<1>2. \A x \in {a, b} : (\A y \in {a, b} : x <= y) => x = m
  OBVIOUS
<1> QED BY <1>1, <1>2 DEF Plans!Min

LEMMA OverexposureGrows ==
  ASSUME NEW n \in Nat, NEW m \in Nat, n <= m
  PROVE  /\ Plans!Overexposure(n) \in Band
         /\ Plans!Overexposure(n) <= Plans!Overexposure(m)
BY MinOfTwo DEF Plans!Overexposure, Band

LEMMA ReadingsShaped ==
  ASSUME NEW source \in Plans!Sources
  PROVE  LET r == Plans!Reading(source) IN
         /\ r.lane \in Lanes
         /\ DOMAIN r.benefit = 1..7 /\ DOMAIN r.cost = 1..3
         /\ \A i \in 1..7 : r.benefit[i] \in Band
         /\ \A i \in 1..3 : r.cost[i] \in Band
<1> DEFINE Shaped(r) ==
      /\ r.lane \in Lanes
      /\ DOMAIN r.benefit = 1..7 /\ DOMAIN r.cost = 1..3
      /\ \A i \in 1..7 : r.benefit[i] \in Band
      /\ \A i \in 1..3 : r.cost[i] \in Band
<1>1. CASE source = "CURRENT_USER_ERROR"
  BY <1>1 DEF Plans!Reading, Lanes, Band
<1>2. CASE source = "PRAGMATIC_REGISTER_OPPORTUNITY"
  BY <1>2 DEF Plans!Reading, Lanes, Band
<1>3. CASE source = "MANUAL_USER_REQUEST"
  BY <1>3 DEF Plans!Reading, Lanes, Band
<1>4. CASE source = "CONFIRMED_GAP"
  BY <1>4 DEF Plans!Reading, Lanes, Band
<1>5. CASE source = "SCHEDULED_REVIEW"
  BY <1>5 DEF Plans!Reading, Lanes, Band
<1>6. CASE source = "UNKNOWN_PROBE"
  BY <1>6 DEF Plans!Reading, Lanes, Band
<1>7. CASE source = "SUPPORT_WITHDRAWAL"
  BY <1>7 DEF Plans!Reading, Lanes, Band
<1>8. CASE source = "COVERAGE_DEBT"
  BY <1>8 DEF Plans!Reading, Lanes, Band
<1> QED BY <1>1, <1>2, <1>3, <1>4, <1>5, <1>6, <1>7, <1>8 DEF Plans!Sources

LEMMA CandidatePriced ==
  ASSUME PlansTyped, NEW source \in Plans!Sources, NEW t \in Foci, Plans!InSupply(t)
  PROVE  Priced(Plans!Candidate(source, t))
<1> DEFINE c == Plans!Candidate(source, t)
           r == Plans!Reading(source)
           pre == Plans!PrerequisiteState(facts[t].edges)
           floor(x) == IF pre.scaffold THEN Plans!Max({x, 10}) ELSE x
<1>1. /\ r.lane \in Lanes
      /\ DOMAIN r.benefit = 1..7
      /\ \A i \in 1..7 : r.benefit[i] \in Band
      /\ r.cost[1] \in Band /\ r.cost[2] \in Band /\ r.cost[3] \in Band
  BY ReadingsShaped
<1>2. \A x \in Band : floor(x) \in Band
  BY MaxOfTwo DEF Band
<1>3. Plans!InterruptionOf(setting.flow, r.cost[1]) \in Band
  <2>1. setting.flow \in {"none", "LOW", "NORMAL", "HIGH", "PROTECTED"}
    BY PlannerAssumption DEF PlansTyped
  <2> HIDE DEF r
  <2> QED BY <1>1, <2>1 DEF Plans!InterruptionOf, Band
<1>4. Plans!Urgency(facts[t].urgency) \in Band
  <2>1. facts[t].urgency \in {"NOT_SCHEDULED", "UPCOMING", "DUE", "OVERDUE"}
    BY PlannerAssumption DEF PlansTyped, Plans!InSupply
  <2> QED BY <2>1 DEF Plans!Urgency, Band
<1>5. Plans!DebtOf(source, t) \in Band
  BY DEF Plans!DebtOf, PlansTyped, Band
<1>6. Plans!Overexposure(exposures[t]) \in Band
  <2>1. exposures[t] \in Nat
    BY PlannerAssumption DEF PlansTyped
  <2> QED BY <2>1, OverexposureGrows
<1>7. /\ c.lane = r.lane /\ c.benefit = r.benefit /\ c.asked \in BOOLEAN
      /\ c.cost = <<Plans!InterruptionOf(setting.flow, r.cost[1]), floor(r.cost[2]), floor(r.cost[3])>>
      /\ c.urgency = Plans!Urgency(facts[t].urgency) /\ c.owed = Plans!DebtOf(source, t)
      /\ c.over = Plans!Overexposure(exposures[t])
  BY DEF Plans!Candidate
<1> HIDE DEF c, r, floor
<1>8. DOMAIN c.cost = 1..3 /\ \A i \in 1..3 : c.cost[i] \in Band
  BY <1>1, <1>2, <1>3, <1>7
<1>9. Priced(c)
  BY <1>1, <1>4, <1>5, <1>6, <1>7, <1>8 DEF Priced
<1> QED BY <1>9 DEF c

LEMMA ProposalsPriced ==
  ASSUME PlansTyped, NEW c \in Plans!Proposals
  PROVE  Priced(c)
<1>1. PICK source \in Plans!Sources, t \in Foci :
        Plans!InSupply(t) /\ c = Plans!Candidate(source, t)
  BY DEF Plans!Proposals
<1> QED BY <1>1, CandidatePriced

\* Values that are bounded have a largest one.
LEMMA BestOf ==
  ASSUME NEW S, S # {}, NEW f, NEW bound \in Int,
         \A x \in S : f[x] \in Int /\ f[x] <= bound
  PROVE  \E x \in S : \A y \in S : f[x] >= f[y]
<1>1. PICK x0 \in S : TRUE
  OBVIOUS
<1> DEFINE T == {n \in 0..(bound - f[x0]) : \E x \in S : f[x] = f[x0] + n}
<1>2. IsFiniteSet(T) /\ T \subseteq Nat
  <2>1. IsFiniteSet(0..(bound - f[x0]))
    BY FS_Interval
  <2> QED BY <2>1, FS_Subset
<1>3. 0 \in T
  OBVIOUS
<1>4. PICK n \in T : \A m \in T : n >= m
  BY <1>2, <1>3, LargestNumber
<1>5. PICK x \in S : f[x] = f[x0] + n
  OBVIOUS
<1>6. ASSUME NEW y \in S PROVE f[x] >= f[y]
  <2>1. CASE f[y] < f[x0]
    BY <1>3, <1>4, <1>5, <2>1
  <2>2. CASE f[y] >= f[x0]
    <3>1. f[y] - f[x0] \in T
      BY <2>2
    <3>2. n >= f[y] - f[x0] /\ n \in Nat
      BY <1>2, <1>4, <3>1
    <3> QED BY <1>5, <3>2
  <2> QED BY <2>1, <2>2
<1> QED BY <1>6

LEMMA WeightsAreMonotone ==
  ASSUME NEW w \in {55, 80, 90, 95, 98, 100}, NEW x \in Nat, NEW y \in Nat
  PROVE  /\ w * x \in Nat
         /\ x >= y => w * x >= w * y
         /\ x > y => w * x > w * y
OBVIOUS

\* A dominated candidate is worth less.
LEMMA DominatedIsWorse ==
  ASSUME NEW a, NEW b, Priced(a), Priced(b), NEW p, ProfileShaped(p), Plans!Dominates(a, b)
  PROVE  Plans!Utility(a, p) > Plans!Utility(b, p)
<1> DEFINE w == p[a.lane]  k == p.cost
<1>1. \A x \in Band : x \in Nat
  BY DEF Band
<1>2. /\ a.benefit[1] \in Nat /\ a.benefit[2] \in Nat /\ a.benefit[3] \in Nat
      /\ a.benefit[4] \in Nat /\ a.benefit[5] \in Nat /\ a.benefit[6] \in Nat
      /\ a.benefit[7] \in Nat /\ a.urgency \in Nat /\ a.owed \in Nat
      /\ a.cost[1] \in Nat /\ a.cost[2] \in Nat /\ a.cost[3] \in Nat /\ a.over \in Nat
  BY <1>1 DEF Priced
<1>3. /\ b.benefit[1] \in Nat /\ b.benefit[2] \in Nat /\ b.benefit[3] \in Nat
      /\ b.benefit[4] \in Nat /\ b.benefit[5] \in Nat /\ b.benefit[6] \in Nat
      /\ b.benefit[7] \in Nat /\ b.urgency \in Nat /\ b.owed \in Nat
      /\ b.cost[1] \in Nat /\ b.cost[2] \in Nat /\ b.cost[3] \in Nat /\ b.over \in Nat
  BY <1>1 DEF Priced
<1>4. /\ a.benefit[1] >= b.benefit[1] /\ a.benefit[2] >= b.benefit[2]
      /\ a.benefit[3] >= b.benefit[3] /\ a.benefit[4] >= b.benefit[4]
      /\ a.benefit[5] >= b.benefit[5] /\ a.benefit[6] >= b.benefit[6]
      /\ a.benefit[7] >= b.benefit[7] /\ a.urgency >= b.urgency /\ a.owed >= b.owed
      /\ a.cost[1] <= b.cost[1] /\ a.cost[2] <= b.cost[2] /\ a.cost[3] <= b.cost[3]
      /\ a.over <= b.over
  BY DEF Plans!Dominates, Priced
<1>5. \/ a.benefit[1] > b.benefit[1] \/ a.benefit[2] > b.benefit[2]
      \/ a.benefit[3] > b.benefit[3] \/ a.benefit[4] > b.benefit[4]
      \/ a.benefit[5] > b.benefit[5] \/ a.benefit[6] > b.benefit[6]
      \/ a.benefit[7] > b.benefit[7] \/ a.urgency > b.urgency \/ a.owed > b.owed
      \/ a.cost[1] < b.cost[1] \/ a.cost[2] < b.cost[2] \/ a.cost[3] < b.cost[3]
      \/ a.over < b.over
  <2>1. \A i \in 1..7 : i = 1 \/ i = 2 \/ i = 3 \/ i = 4 \/ i = 5 \/ i = 6 \/ i = 7
    OBVIOUS
  <2>2. \A i \in 1..3 : i = 1 \/ i = 2 \/ i = 3
    OBVIOUS
  <2>3. DOMAIN a.benefit = 1..7 /\ DOMAIN a.cost = 1..3
    BY DEF Priced
  <2> QED BY <2>1, <2>2, <2>3 DEF Plans!Dominates
<1>6. Gain(a) >= Gain(b) /\ Toll(a) <= Toll(b)
  BY <1>2, <1>3, <1>4 DEF Gain, Toll, Plans!WeightedBenefit, Plans!WeightedCost
<1>7. Gain(a) > Gain(b) \/ Toll(a) < Toll(b)
  <2>1. CASE \/ a.benefit[1] > b.benefit[1] \/ a.benefit[2] > b.benefit[2]
             \/ a.benefit[3] > b.benefit[3] \/ a.benefit[4] > b.benefit[4]
             \/ a.benefit[5] > b.benefit[5] \/ a.benefit[6] > b.benefit[6]
             \/ a.benefit[7] > b.benefit[7] \/ a.urgency > b.urgency \/ a.owed > b.owed
    BY <1>2, <1>3, <1>4, <2>1 DEF Gain, Plans!WeightedBenefit
  <2>2. CASE \/ a.cost[1] < b.cost[1] \/ a.cost[2] < b.cost[2] \/ a.cost[3] < b.cost[3]
             \/ a.over < b.over
    BY <1>2, <1>3, <1>4, <2>2 DEF Toll, Plans!WeightedCost
  <2> QED BY <1>5, <2>1, <2>2
<1>8. /\ b.lane = a.lane /\ Bonus(b, p) = Bonus(a, p) /\ Bonus(a, p) \in Nat
      /\ w \in {55, 80, 90, 95, 98, 100} /\ k \in {55, 80, 90, 95, 98, 100}
  BY DEF Plans!Dominates, Bonus, ProfileShaped, Priced
<1>9. Gain(a) \in Nat /\ Gain(b) \in Nat /\ Toll(a) \in Nat /\ Toll(b) \in Nat
  BY GainAndToll
<1>10. /\ w * Gain(a) \in Nat /\ w * Gain(b) \in Nat /\ w * Gain(a) >= w * Gain(b)
       /\ Gain(a) > Gain(b) => w * Gain(a) > w * Gain(b)
  BY <1>6, <1>8, <1>9, WeightsAreMonotone
<1>11. /\ k * Toll(a) \in Nat /\ k * Toll(b) \in Nat /\ k * Toll(b) >= k * Toll(a)
       /\ Toll(b) > Toll(a) => k * Toll(b) > k * Toll(a)
  BY <1>6, <1>8, <1>9, WeightsAreMonotone
<1>12. /\ Plans!Utility(a, p) = w * Gain(a) - k * Toll(a) + Bonus(a, p)
       /\ Plans!Utility(b, p) = w * Gain(b) - k * Toll(b) + Bonus(a, p)
  BY <1>8, UtilityForm
<1>13. Toll(a) < Toll(b) => Toll(b) > Toll(a)
  BY <1>9
<1> HIDE DEF w, k
<1> QED BY <1>7, <1>8, <1>9, <1>10, <1>11, <1>12, <1>13

\* The tie break as one number.
KeyWeight(c) ==
  LET k == Plans!TieKey(c)
  IN 2000000 * k[1] + 400000 * k[2] + 9261 * k[3] + 441 * k[4] + 21 * k[5] + k[6]

\* No key is above this.
FarKey == 9000000

LEMMA OutranksWeighs ==
  ASSUME NEW a, NEW b, Priced(a), Priced(b)
  PROVE  /\ KeyWeight(a) \in Int /\ KeyWeight(a) <= FarKey
         /\ Plans!Outranks(a, b) => KeyWeight(a) > KeyWeight(b)
<1> DEFINE x == Plans!TieKey(a)  y == Plans!TieKey(b)
<1>1. ASSUME NEW c, Priced(c)
      PROVE  LET k == Plans!TieKey(c) IN
             /\ k[1] \in {0, 1} /\ k[2] \in {1, 2, 3} /\ k[3] \in Int /\ k[4] \in Int
             /\ k[5] \in Int /\ k[6] \in Int
             /\ 0 <= k[3] /\ k[3] <= 20 /\ -20 <= k[4] /\ k[4] <= 0
             /\ -20 <= k[5] /\ k[5] <= 0 /\ -20 <= k[6] /\ k[6] <= 0
             /\ DOMAIN k = 1..6
  <2>1. \A v \in Band : v \in Int /\ 0 <= v /\ v <= 20
    BY DEF Band
  <2>2. /\ c.benefit[6] \in Int /\ 0 <= c.benefit[6] /\ c.benefit[6] <= 20
        /\ c.cost[1] \in Int /\ 0 <= c.cost[1] /\ c.cost[1] <= 20
        /\ c.cost[2] \in Int /\ 0 <= c.cost[2] /\ c.cost[2] <= 20
        /\ c.over \in Int /\ 0 <= c.over /\ c.over <= 20
        /\ c.asked \in BOOLEAN
    BY <1>1, <2>1 DEF Priced
  <2>3. Plans!LaneRank(c.lane) \in {1, 2, 3}
    BY DEF Plans!LaneRank
  <2> QED BY <2>2, <2>3 DEF Plans!TieKey
<1>2. /\ x[1] \in {0, 1} /\ x[2] \in {1, 2, 3} /\ x[3] \in Int /\ x[4] \in Int
      /\ x[5] \in Int /\ x[6] \in Int
      /\ 0 <= x[3] /\ x[3] <= 20 /\ -20 <= x[4] /\ x[4] <= 0
      /\ -20 <= x[5] /\ x[5] <= 0 /\ -20 <= x[6] /\ x[6] <= 0
      /\ DOMAIN x = 1..6
  BY <1>1
<1>3. /\ y[1] \in {0, 1} /\ y[2] \in {1, 2, 3} /\ y[3] \in Int /\ y[4] \in Int
      /\ y[5] \in Int /\ y[6] \in Int
      /\ 0 <= y[3] /\ y[3] <= 20 /\ -20 <= y[4] /\ y[4] <= 0
      /\ -20 <= y[5] /\ y[5] <= 0 /\ -20 <= y[6] /\ y[6] <= 0
  BY <1>1
<1>4. KeyWeight(a) = 2000000 * x[1] + 400000 * x[2] + 9261 * x[3] + 441 * x[4] + 21 * x[5] + x[6]
  BY SMT DEF KeyWeight
<1>5. KeyWeight(b) = 2000000 * y[1] + 400000 * y[2] + 9261 * y[3] + 441 * y[4] + 21 * y[5] + y[6]
  BY SMT DEF KeyWeight
<1>6. KeyWeight(a) \in Int /\ KeyWeight(a) <= FarKey
  BY <1>2, <1>4, SMT DEF FarKey
<1>7. ASSUME Plans!Outranks(a, b) PROVE KeyWeight(a) > KeyWeight(b)
  <2>1. PICK i \in 1..6 : x[i] > y[i] /\ \A j \in 1..(i - 1) : x[j] = y[j]
    BY <1>2, <1>7 DEF Plans!Outranks
  <2> HIDE DEF x, y
  <2>2. \/ i = 1 /\ x[1] > y[1]
        \/ i = 2 /\ x[1] = y[1] /\ x[2] > y[2]
        \/ i = 3 /\ x[1] = y[1] /\ x[2] = y[2] /\ x[3] > y[3]
        \/ i = 4 /\ x[1] = y[1] /\ x[2] = y[2] /\ x[3] = y[3] /\ x[4] > y[4]
        \/ i = 5 /\ x[1] = y[1] /\ x[2] = y[2] /\ x[3] = y[3] /\ x[4] = y[4] /\ x[5] > y[5]
        \/ i = 6 /\ x[1] = y[1] /\ x[2] = y[2] /\ x[3] = y[3] /\ x[4] = y[4] /\ x[5] = y[5]
             /\ x[6] > y[6]
    BY <2>1
  <2> QED BY <1>2, <1>3, <1>4, <1>5, <2>2, SMT
<1> QED BY <1>6, <1>7

\* Whatever is active, there are finalists, and no active candidate is worth
\* more than the tie window above one.
LEMMA FinalistsAreNearBest ==
  ASSUME PlansTyped, NEW p, ProfileShaped(p)
  PROVE  /\ Plans!Active(p) # {} => Plans!Finalists(p) # {}
         /\ Plans!Finalists(p) \subseteq Plans!Active(p)
         /\ \A c \in Plans!Finalists(p), d \in Plans!Active(p) :
              Plans!Utility(d, p) - Plans!Utility(c, p) <= 3000
<1> DEFINE A == Plans!Active(p)
           u == [c \in A |-> Plans!Utility(c, p)]
           K == Plans!Kept(A)
           worth == {Plans!Utility(c, p) : c \in K}
           best == Plans!Max(worth)
           tied == {c \in K : best - Plans!Utility(c, p) <= 3000}
           key == [c \in tied |-> KeyWeight(c)]
<1>1. \A c \in A : Priced(c)
  BY ProposalsPriced DEF Plans!Active
<1>2. \A c \in A : u[c] \in Int /\ u[c] <= Far
  BY <1>1, UtilityBounded
<1>3. K \subseteq A /\ tied \subseteq K
  BY DEF Plans!Kept
<1>4. Plans!Finalists(p) = IF K = {} THEN {} ELSE {c \in tied : ~\E d \in tied : Plans!Outranks(d, c)}
  BY DEF Plans!Finalists, Plans!TieEpsilon
<1>5. ASSUME A # {}
      PROVE  Plans!Finalists(p) # {} /\ \A d \in A : best >= u[d]
  <2>1. PICK m \in A : \A d \in A : u[m] >= u[d]
    <3> HIDE DEF A, u
    <3> QED BY <1>2, <1>5, BestOf, SMT DEF Far
  <2>2. m \in K
    <3>1. ASSUME NEW a \in A, Plans!Dominates(a, m) PROVE FALSE
      <4>1. u[a] > u[m]
        BY <1>1, <3>1, DominatedIsWorse
      <4> QED BY <1>2, <2>1, <4>1
    <3> QED BY <3>1 DEF Plans!Kept
  <2>3. best = u[m]
    <3>1. u[m] \in worth /\ \A x \in worth : u[m] >= x /\ x \in Int
      BY <1>2, <1>3, <2>1, <2>2
    <3>2. best = CHOOSE x \in worth : \A y \in worth : x >= y
      BY DEF Plans!Max
    <3> HIDE DEF worth, best, u
    <3>3. best \in worth /\ \A y \in worth : best >= y
      BY <3>1, <3>2
    <3> QED BY <3>1, <3>3
  <2>4. m \in tied
    BY <1>2, <2>2, <2>3
  <2>5. \A c \in tied : key[c] \in Int /\ key[c] <= FarKey
    BY <1>1, <1>3, OutranksWeighs
  <2>6. PICK c \in tied : \A d \in tied : key[c] >= key[d]
    <3>1. FarKey \in Int
      BY SMT DEF FarKey
    <3> HIDE DEF tied, key
    <3> QED BY <2>4, <2>5, <3>1, BestOf
  <2>7. ASSUME NEW d \in tied, Plans!Outranks(d, c) PROVE FALSE
    <3>1. Priced(c) /\ Priced(d)
      BY <1>1, <1>3
    <3>2. key[d] > key[c]
      BY <2>7, <3>1, OutranksWeighs
    <3> QED BY <2>5, <2>6, <3>2
  <2> HIDE DEF tied, K, best, A
  <2>8. c \in Plans!Finalists(p)
    BY <1>4, <2>2, <2>7
  <2> QED BY <2>1, <2>3, <2>8
<1>6. Plans!Finalists(p) \subseteq tied
  BY <1>4
<1>7. ASSUME NEW c \in Plans!Finalists(p), NEW d \in A
      PROVE  Plans!Utility(d, p) - Plans!Utility(c, p) <= 3000
  <2>1. best - u[c] <= 3000 /\ best >= u[d] /\ c \in A
    BY <1>3, <1>5, <1>6, <1>7
  <2>2. u[c] \in Int /\ u[d] \in Int
    BY <1>2, <2>1
  <2>3. best \in Int
    <3>1. PICK m \in A : \A e \in A : u[m] >= u[e]
      <4> HIDE DEF A, u
      <4> QED BY <1>2, <1>7, BestOf, SMT DEF Far
    <3>2. m \in K
      <4>1. ASSUME NEW a \in A, Plans!Dominates(a, m) PROVE FALSE
        <5>1. u[a] > u[m]
          BY <1>1, <4>1, DominatedIsWorse
        <5> QED BY <1>2, <3>1, <5>1
      <4> QED BY <4>1 DEF Plans!Kept
    <3>3. u[m] \in worth /\ \A x \in worth : u[m] >= x /\ x \in Int
      BY <1>2, <1>3, <3>1, <3>2
    <3>4. best = CHOOSE x \in worth : \A y \in worth : x >= y
      BY DEF Plans!Max
    <3> HIDE DEF worth, best, u
    <3> QED BY <3>3, <3>4
  <2> HIDE DEF best
  <2>4. u[d] - u[c] <= 3000
    BY <2>1, <2>2, <2>3
  <2> QED BY <2>1, <2>4
<1>8. Plans!Finalists(p) \subseteq A
  <2> HIDE DEF tied, K, A
  <2> QED BY <1>3, <1>6
<1>9. A # {} => Plans!Finalists(p) # {}
  BY <1>5
<1> QED BY <1>7, <1>8, <1>9

\* What the states of the part have in common.
LEMMA PlansStart == Plans!Init => PlansTyped
<1> SUFFICES ASSUME Plans!Init PROVE PlansTyped
  OBVIOUS
<1>1. 0 \in 0..MaxShown /\ 0 \in Band
  BY PlannerAssumption DEF Band
<1> QED BY <1>1 DEF Plans!Init, PlansTyped

LEMMA PlansKept == PlansTyped /\ Plans!Next => PlansTyped'
<1> SUFFICES ASSUME PlansTyped, Plans!Next PROVE PlansTyped'
  OBVIOUS
<1>1. ASSUME NEW t \in Foci, Plans!Present(t) PROVE PlansTyped'
  <2>1. exposures[t] + 1 \in 0..MaxShown /\ 0 \in Band
    BY <1>1, PlannerAssumption DEF Plans!Present, PlansTyped, Band
  <2> QED BY <1>1, <2>1 DEF Plans!Present, PlansTyped
<1>2. ASSUME NEW t \in Foci, Plans!Accrue(t) PROVE PlansTyped'
  <2>1. debt[t] + 5 \in Band
    BY <1>2 DEF Plans!Accrue, PlansTyped, Band
  <2> QED BY <1>2, <2>1 DEF Plans!Accrue, PlansTyped
<1>3. CASE Plans!WindowPasses
  <2>1. 0 \in 0..MaxShown
    BY PlannerAssumption
  <2> QED BY <1>3, <2>1 DEF Plans!WindowPasses, PlansTyped
<1> QED BY <1>1, <1>2, <1>3 DEF Plans!Next

LEMMA ChosenProfile ==
  ASSUME PlansTyped
  PROVE  ProfileShaped(Plans!Profile(setting.profile))
BY ProfilesShaped, PlannerAssumption DEF PlansTyped, PolicyNames

LEMMA PruningDecidesNothing == ASSUME PlansTyped PROVE Plans!PruningNeverDecides
<1> DEFINE p == Plans!Profile(setting.profile)
<1>1. ProfileShaped(p)
  BY ChosenProfile
<1> HIDE DEF p
<1>2. /\ Plans!Active(p) # {} => Plans!Finalists(p) # {}
      /\ \A c \in Plans!Finalists(p), d \in Plans!Active(p) :
           Plans!Utility(d, p) - Plans!Utility(c, p) <= 3000
  BY <1>1, FinalistsAreNearBest
<1> QED BY <1>2 DEF p, Plans!PruningNeverDecides, Plans!Chosen, Plans!TieEpsilon

LEMMA RequestsHonoured == ASSUME PlansTyped PROVE Plans!RequestsAreHonoured
<1> SUFFICES ASSUME NEW t \in setting.focus, Plans!ContextComplete, Plans!InSupply(t),
                    facts[t].level \in {"R3", "R4"},
                    Plans!PrerequisiteState(facts[t].edges).state \in {"READY", "READY_WITH_SCAFFOLD"}
             PROVE  Plans!Chosen # {} /\ \A c \in Plans!Chosen : c.target \in setting.focus
  BY DEF Plans!RequestsAreHonoured
<1> DEFINE p == Plans!Profile(setting.profile)
           c0 == Plans!Candidate("MANUAL_USER_REQUEST", t)
           active == {c \in Plans!Proposals : Plans!Eligible(c) /\ Plans!Activated(c, p)}
           asked == {c \in active : c.asked}
<1>1. t \in Foci /\ Plans!Scope = "TARGETED_LEARNING_REQUEST"
  BY PlannerAssumption DEF PlansTyped, Plans!Scope
<1>2. c0 \in Plans!Proposals
  <2>1. "MANUAL_USER_REQUEST" \in Plans!Sources
    BY DEF Plans!Sources
  <2>2. Plans!Wanted("MANUAL_USER_REQUEST", t)
    BY DEF Plans!Wanted
  <2>3. <<"MANUAL_USER_REQUEST", t>> \in
          {q \in Plans!Sources \X Foci : Plans!InSupply(q[2]) /\ Plans!Wanted(q[1], q[2])}
    BY <1>1, <2>1, <2>2
  <2> QED BY <2>3 DEF Plans!Proposals
<1>3. /\ c0.source = "MANUAL_USER_REQUEST" /\ c0.target = t /\ c0.asked
      /\ c0.prerequisite = Plans!PrerequisiteState(facts[t].edges)
      /\ ~c0.suppressed
  BY DEF Plans!Candidate
<1> HIDE DEF c0
<1>4. Plans!LevelRank(facts[t].level) >= Plans!ReadinessFloor(c0)
  BY <1>3 DEF Plans!LevelRank, Plans!ReadinessFloor
<1>5. Plans!Eligible(c0)
  BY <1>1, <1>3, <1>4 DEF Plans!Eligible
<1>6. Plans!Activated(c0, p)
  BY <1>1, <1>3 DEF Plans!Activated
<1>7. c0 \in asked
  BY <1>2, <1>3, <1>5, <1>6
<1>8. Plans!Active(p) = asked
  BY <1>7 DEF Plans!Active
<1>9. \A c \in Plans!Proposals : c.asked => c.target \in setting.focus
  <2> SUFFICES ASSUME NEW c \in Plans!Proposals, c.asked PROVE c.target \in setting.focus
    OBVIOUS
  <2>1. PICK source \in Plans!Sources, u \in Foci :
          Plans!Wanted(source, u) /\ c = Plans!Candidate(source, u)
    BY DEF Plans!Proposals
  <2>2. c.asked = (source = "MANUAL_USER_REQUEST") /\ c.target = u
    BY <2>1 DEF Plans!Candidate
  <2> QED BY <2>1, <2>2 DEF Plans!Wanted
<1>10. Plans!Chosen = Plans!Finalists(p)
  BY DEF Plans!Chosen
<1>11. ProfileShaped(p)
  BY ChosenProfile
<1> HIDE DEF p
<1>12. Plans!Finalists(p) # {} /\ Plans!Finalists(p) \subseteq asked
  BY <1>7, <1>8, <1>11, FinalistsAreNearBest
<1> QED BY <1>9, <1>10, <1>12

LEMMA ProposalOrigin ==
  ASSUME NEW c \in Plans!Proposals
  PROVE  /\ c.source \in Plans!Sources /\ c.target \in Foci
         /\ Plans!InSupply(c.target) /\ Plans!Wanted(c.source, c.target)
         /\ c = Plans!Candidate(c.source, c.target)
         /\ c.asked => c.source = "MANUAL_USER_REQUEST"
<1>1. PICK source \in Plans!Sources, t \in Foci :
        /\ Plans!InSupply(t) /\ Plans!Wanted(source, t)
        /\ c = Plans!Candidate(source, t)
  BY DEF Plans!Proposals
<1>2. c.source = source /\ c.target = t /\ (c.asked => source = "MANUAL_USER_REQUEST")
  BY <1>1 DEF Plans!Candidate
<1> QED BY <1>1, <1>2

LEMMA ProposalMade ==
  ASSUME NEW source \in Plans!Sources, NEW t \in Foci, Plans!InSupply(t), Plans!Wanted(source, t)
  PROVE  Plans!Candidate(source, t) \in Plans!Proposals
<1>1. <<source, t>> \in
        {q \in Plans!Sources \X Foci : Plans!InSupply(q[2]) /\ Plans!Wanted(q[1], q[2])}
  OBVIOUS
<1> QED BY <1>1 DEF Plans!Proposals

\* What a candidate of the coverage source is priced by.
LEMMA DebtCandidate ==
  ASSUME NEW t \in Foci
  PROVE  LET c == Plans!Candidate("COVERAGE_DEBT", t) IN
         /\ c.source = "COVERAGE_DEBT" /\ c.target = t /\ ~c.asked
         /\ c.lane = "PROACTIVE"
         /\ c.benefit = <<10, 0, 20, 10, 0, 0, 0>>
         /\ c.urgency = Plans!Urgency(facts[t].urgency)
         /\ c.owed = debt[t]
         /\ c.over = Plans!Overexposure(exposures[t])
         /\ c.service = Plans!ServiceState(debt[t])
         /\ c.prerequisite = Plans!PrerequisiteState(facts[t].edges)
         /\ c.suppressed => t \in setting.suppress
<1> DEFINE c == Plans!Candidate("COVERAGE_DEBT", t)
           r == Plans!Reading("COVERAGE_DEBT")
<1>1. r.lane = "PROACTIVE" /\ r.benefit = <<10, 0, 20, 10, 0, 0, 0>>
  BY DEF Plans!Reading
<1>2. /\ c.source = "COVERAGE_DEBT" /\ c.target = t
      /\ c.lane = r.lane /\ c.benefit = r.benefit
      /\ c.urgency = Plans!Urgency(facts[t].urgency)
      /\ c.owed = debt[t]
      /\ c.over = Plans!Overexposure(exposures[t])
      /\ c.service = Plans!ServiceState(debt[t])
      /\ c.prerequisite = Plans!PrerequisiteState(facts[t].edges)
  BY DEF Plans!Candidate, Plans!DebtOf
<1>3. ~c.asked /\ (c.suppressed => t \in setting.suppress)
  BY DEF Plans!Candidate
<1> HIDE DEF c, r
<1>4. c.lane = "PROACTIVE" /\ c.benefit = <<10, 0, 20, 10, 0, 0, 0>>
  BY <1>1, <1>2
<1>5. c.source = "COVERAGE_DEBT" /\ c.target = t
  BY <1>2
<1>6. /\ c.urgency = Plans!Urgency(facts[t].urgency) /\ c.owed = debt[t]
      /\ c.over = Plans!Overexposure(exposures[t])
  BY <1>2
<1>7. /\ c.service = Plans!ServiceState(debt[t])
      /\ c.prerequisite = Plans!PrerequisiteState(facts[t].edges)
  BY <1>2
<1> QED BY <1>3, <1>4, <1>5, <1>6, <1>7 DEF c

LEMMA DebtTolls ==
  ASSUME NEW t \in Foci, NEW u \in Foci, facts[u] = facts[t]
  PROVE  Plans!Candidate("COVERAGE_DEBT", u).cost = Plans!Candidate("COVERAGE_DEBT", t).cost
BY DEF Plans!Candidate

\* What owes half as much again is worth more than the tie window more.
LEMMA OwingMoreIsWorthMore ==
  ASSUME PlansTyped, NEW p, ProfileShaped(p), NEW t \in Foci, NEW u \in Foci,
         facts[u] = facts[t], exposures[u] <= exposures[t], debt[u] >= debt[t] + 10,
         Plans!InSupply(t)
  PROVE  Plans!Utility(Plans!Candidate("COVERAGE_DEBT", u), p)
           > Plans!Utility(Plans!Candidate("COVERAGE_DEBT", t), p) + 3000
<1> DEFINE c == Plans!Candidate("COVERAGE_DEBT", t)
           d == Plans!Candidate("COVERAGE_DEBT", u)
           w == p["PROACTIVE"]  k == p.cost
<1>1. Priced(c) /\ Priced(d)
  BY CandidatePriced DEF Plans!InSupply, Plans!Sources
<1>2. debt[t] \in Nat /\ debt[u] \in Nat /\ exposures[t] \in Nat /\ exposures[u] \in Nat
  BY PlannerAssumption DEF PlansTyped, Band
<1>3. /\ c.lane = "PROACTIVE" /\ d.lane = "PROACTIVE" /\ c.benefit = d.benefit
      /\ c.urgency = d.urgency /\ c.cost = d.cost
      /\ c.owed = debt[t] /\ d.owed = debt[u]
      /\ c.service = Plans!ServiceState(debt[t]) /\ d.service = Plans!ServiceState(debt[u])
  BY DebtCandidate, DebtTolls
<1>4. d.over <= c.over
  BY <1>2, DebtCandidate, OverexposureGrows
<1> HIDE DEF c, d
<1>5. Gain(d) >= Gain(c) + 80
  <2>1. \A v : v = c.benefit => Plans!WeightedBenefit(v) \in Nat
    <3>1. Plans!WeightedBenefit(c.benefit) \in Nat
      <4>1. \A x \in Band : x \in Nat
        BY DEF Band
      <4>2. /\ c.benefit[1] \in Nat /\ c.benefit[2] \in Nat /\ c.benefit[3] \in Nat
            /\ c.benefit[4] \in Nat /\ c.benefit[5] \in Nat /\ c.benefit[6] \in Nat
            /\ c.benefit[7] \in Nat
        BY <1>1, <4>1 DEF Priced
      <4> QED BY <4>2 DEF Plans!WeightedBenefit
    <3> QED BY <3>1
  <2>2. c.urgency \in Nat
    BY <1>1 DEF Priced, Band
  <2> QED BY <1>2, <1>3, <2>1, <2>2 DEF Gain
<1>6. Toll(d) <= Toll(c)
  <2>1. c.over \in Nat /\ d.over \in Nat
    BY <1>1 DEF Priced, Band
  <2>2. Plans!WeightedCost(c.cost) \in Nat
    <3>1. c.cost[1] \in Nat /\ c.cost[2] \in Nat /\ c.cost[3] \in Nat
      BY <1>1 DEF Priced, Band
    <3> QED BY <3>1 DEF Plans!WeightedCost
  <2> QED BY <1>3, <1>4, <2>1, <2>2 DEF Toll
<1>7. /\ Bonus(c, p) \in Nat /\ Bonus(d, p) \in Nat /\ Bonus(d, p) >= Bonus(c, p)
  <2>1. p.bonus \in Nat
    BY DEF ProfileShaped
  <2>2. c.service = "CRITICAL" => d.service = "CRITICAL"
    BY <1>2, <1>3 DEF Plans!ServiceState
  <2> QED BY <2>1, <2>2 DEF Bonus
<1>8. w \in {55, 80, 90, 95, 98, 100} /\ k \in {55, 80, 90, 95, 98, 100}
  BY DEF ProfileShaped, Lanes
<1>9. Gain(c) \in Nat /\ Gain(d) \in Nat /\ Toll(c) \in Nat /\ Toll(d) \in Nat
  BY <1>1, GainAndToll
<1>10. /\ Plans!Utility(c, p) = w * Gain(c) - k * Toll(c) + Bonus(c, p)
       /\ Plans!Utility(d, p) = w * Gain(d) - k * Toll(d) + Bonus(d, p)
  BY <1>3, UtilityForm
<1> HIDE DEF w, k
<1>11. \A x \in {55, 80, 90, 95, 98, 100}, g, h \in Nat : g >= h + 80 => x * g >= x * h + 4400
  BY SMT
<1>12. w * Gain(d) >= w * Gain(c) + 4400 /\ w * Gain(d) \in Nat /\ w * Gain(c) \in Nat
  BY <1>5, <1>8, <1>9, <1>11, WeightsAreMonotone, SMT
<1>13. k * Toll(c) >= k * Toll(d) /\ k * Toll(c) \in Nat /\ k * Toll(d) \in Nat
  BY <1>6, <1>8, <1>9, WeightsAreMonotone
<1>14. Plans!Utility(d, p) > Plans!Utility(c, p) + 3000
  BY <1>7, <1>10, <1>12, <1>13, SMT
<1> QED BY <1>14 DEF c, d

LEMMA DebtServedFirst == ASSUME PlansTyped PROVE Plans!DebtIsServedFirst
<1> SUFFICES ASSUME NEW c \in Plans!Chosen, NEW u \in Foci,
                    c.source = "COVERAGE_DEBT", facts[u] = facts[c.target],
                    {u, c.target} \cap (setting.suppress \cup setting.noReview) = {},
                    exposures[u] <= exposures[c.target]
             PROVE  debt[u] < debt[c.target] + 10
  BY DEF Plans!DebtIsServedFirst
<1> DEFINE p == Plans!Profile(setting.profile)
           t == c.target
           d == Plans!Candidate("COVERAGE_DEBT", u)
           active == {x \in Plans!Proposals : Plans!Eligible(x) /\ Plans!Activated(x, p)}
           asked == {x \in active : x.asked}
<1>1. ProfileShaped(p)
  BY ChosenProfile
<1>2. c \in Plans!Finalists(p)
  BY DEF Plans!Chosen
<1>3. c \in Plans!Active(p) /\ \A x \in Plans!Active(p) : Plans!Utility(x, p) - Plans!Utility(c, p) <= 3000
  BY <1>1, <1>2, FinalistsAreNearBest
<1>4. Plans!Active(p) = IF ~Plans!ContextComplete THEN {} ELSE IF asked # {} THEN asked ELSE active
  BY DEF Plans!Active
<1>5. c \in active
  BY <1>3, <1>4
<1>6. /\ t \in Foci /\ Plans!InSupply(t) /\ c = Plans!Candidate("COVERAGE_DEBT", t)
  BY <1>5, ProposalOrigin
<1>7. /\ ~c.asked /\ ~d.asked /\ d.target = u /\ d.source = "COVERAGE_DEBT"
      /\ c.prerequisite = d.prerequisite /\ ~d.suppressed
  <2>1. /\ d.target = u /\ d.source = "COVERAGE_DEBT" /\ ~d.asked
        /\ d.prerequisite = Plans!PrerequisiteState(facts[u].edges)
        /\ d.suppressed => u \in setting.suppress
    BY DebtCandidate
  <2>2. /\ ~Plans!Candidate("COVERAGE_DEBT", t).asked
        /\ Plans!Candidate("COVERAGE_DEBT", t).prerequisite
             = Plans!PrerequisiteState(facts[t].edges)
    BY <1>6, DebtCandidate
  <2>3. ~c.asked /\ c.prerequisite = Plans!PrerequisiteState(facts[t].edges)
    BY <1>6, <2>2
  <2> HIDE DEF d
  <2> QED BY <2>1, <2>3
<1>8. Plans!Active(p) = active
  BY <1>3, <1>4, <1>7
<1>9. debt[u] \in Nat /\ debt[t] \in Nat
  BY <1>6 DEF PlansTyped, Band
<1> SUFFICES ASSUME debt[u] >= debt[t] + 10 PROVE FALSE
  BY <1>9
<1>10. Plans!Utility(d, p) > Plans!Utility(c, p) + 3000
  BY <1>1, <1>6, OwingMoreIsWorthMore
<1>11. d \in Plans!Proposals
  <2>1. Plans!InSupply(u)
    BY <1>6 DEF Plans!InSupply
  <2>2. Plans!Wanted("COVERAGE_DEBT", u)
    BY <1>9 DEF Plans!Wanted
  <2>3. "COVERAGE_DEBT" \in Plans!Sources
    BY DEF Plans!Sources
  <2> QED BY <2>1, <2>2, <2>3, ProposalMade
<1>12. Plans!Eligible(d)
  BY <1>5, <1>7 DEF Plans!Eligible, Plans!ReadinessFloor
<1>13. Plans!Utility(d, p) \in Int /\ Plans!Utility(c, p) \in Int
  BY <1>1, <1>5, <1>11, ProposalsPriced, UtilityBounded
<1>14. Plans!Activated(d, p)
  <2>1. Plans!Utility(c, p) >= p.threshold /\ p.threshold \in Int
    BY <1>1, <1>5, <1>7 DEF Plans!Activated, ProfileShaped
  <2> HIDE DEF p, d
  <2>2. Plans!Utility(d, p) >= p.threshold
    BY <1>10, <1>13, <2>1
  <2> QED BY <2>2 DEF Plans!Activated
<1>15. d \in Plans!Active(p)
  BY <1>8, <1>11, <1>12, <1>14
<1> HIDE DEF p, d
<1> QED BY <1>3, <1>10, <1>13, <1>15

\* A louder profile values benefits more, costs less, and asks for less.
Louder(q, p) ==
  /\ \A lane \in Lanes : q[lane] >= p[lane]
  /\ q.cost <= p.cost /\ q.threshold <= p.threshold /\ q.bonus >= p.bonus

LEMMA LouderIsWorthMore ==
  ASSUME NEW c, Priced(c), NEW p, NEW q, ProfileShaped(p), ProfileShaped(q), Louder(q, p)
  PROVE  Plans!Utility(c, q) >= Plans!Utility(c, p)
<1> DEFINE w == p[c.lane]  v == q[c.lane]  k == p.cost  l == q.cost
           g == Gain(c)  h == Toll(c)
<1>1. /\ w \in {55, 80, 90, 95, 98, 100} /\ v \in {55, 80, 90, 95, 98, 100} /\ v >= w
      /\ k \in {55, 80, 100} /\ l \in {55, 80, 100} /\ l <= k
  BY DEF ProfileShaped, Louder, Priced
<1>2. g \in Nat /\ h \in Nat
  BY GainAndToll
<1>3. Bonus(c, p) \in Nat /\ Bonus(c, q) \in Nat /\ Bonus(c, q) >= Bonus(c, p)
  BY DEF ProfileShaped, Louder, Bonus
<1>4. /\ Plans!Utility(c, p) = w * g - k * h + Bonus(c, p)
      /\ Plans!Utility(c, q) = v * g - l * h + Bonus(c, q)
  BY UtilityForm
<1> HIDE DEF w, v, k, l, g, h
<1>5. \A x, y \in {55, 80, 90, 95, 98, 100}, n \in Nat :
        x >= y => x * n >= y * n /\ x * n \in Nat /\ y * n \in Nat
  BY SMT
<1>6. v * g >= w * g /\ v * g \in Nat /\ w * g \in Nat
  BY <1>1, <1>2, <1>5
<1>7. k * h >= l * h /\ k * h \in Nat /\ l * h \in Nat
  BY <1>1, <1>2, <1>5
<1> QED BY <1>3, <1>4, <1>6, <1>7

LEMMA LouderActivates ==
  ASSUME PlansTyped, NEW p, NEW q, ProfileShaped(p), ProfileShaped(q), Louder(q, p)
  PROVE  Plans!Active(p) \subseteq Plans!Active(q)
<1> DEFINE active(r) == {c \in Plans!Proposals : Plans!Eligible(c) /\ Plans!Activated(c, r)}
           asked(r) == {c \in active(r) : c.asked}
<1>1. active(p) \subseteq active(q)
  <2> SUFFICES ASSUME NEW c \in Plans!Proposals, Plans!Activated(c, p)
               PROVE  Plans!Activated(c, q)
    OBVIOUS
  <2>1. Priced(c)
    BY ProposalsPriced
  <2>2. /\ Plans!Utility(c, q) >= Plans!Utility(c, p)
        /\ Plans!Utility(c, q) \in Int /\ Plans!Utility(c, p) \in Int
    BY <2>1, LouderIsWorthMore, UtilityBounded
  <2>3. q.threshold <= p.threshold /\ q.threshold \in Int /\ p.threshold \in Int
    BY DEF Louder, ProfileShaped
  <2> QED BY <2>2, <2>3 DEF Plans!Activated
<1>2. asked(q) \subseteq asked(p)
  <2> SUFFICES ASSUME NEW c \in Plans!Proposals, c.asked PROVE Plans!Activated(c, p)
    OBVIOUS
  <2>1. c.source = "MANUAL_USER_REQUEST"
    BY ProposalOrigin
  <2>2. c.target \in setting.focus
    BY <2>1, ProposalOrigin DEF Plans!Wanted
  <2>3. Plans!Scope = "TARGETED_LEARNING_REQUEST"
    BY <2>2 DEF Plans!Scope
  <2> QED BY <2>3 DEF Plans!Activated
<1>3. asked(p) \subseteq asked(q)
  BY <1>1
<1>4. /\ Plans!Active(p) = IF ~Plans!ContextComplete THEN {}
                           ELSE IF asked(p) # {} THEN asked(p) ELSE active(p)
      /\ Plans!Active(q) = IF ~Plans!ContextComplete THEN {}
                           ELSE IF asked(q) # {} THEN asked(q) ELSE active(q)
  BY DEF Plans!Active
<1> HIDE DEF active, asked
<1> QED BY <1>1, <1>2, <1>3, <1>4

LEMMA LouderOpens == ASSUME PlansTyped PROVE Plans!LouderOpensMore
<1>1. /\ ProfileShaped(Plans!Profile("LOUNGE")) /\ ProfileShaped(Plans!Profile("BALANCED"))
      /\ ProfileShaped(Plans!Profile("STUDY_FIRST"))
  BY ProfilesShaped DEF PolicyNames
<1>2. Louder(Plans!Profile("BALANCED"), Plans!Profile("LOUNGE"))
  BY SMT DEF Louder, Plans!Profile, Lanes
<1>3. Louder(Plans!Profile("STUDY_FIRST"), Plans!Profile("BALANCED"))
  BY SMT DEF Louder, Plans!Profile, Lanes
<1>4. /\ Plans!Active(Plans!Profile("LOUNGE")) \subseteq Plans!Active(Plans!Profile("BALANCED"))
      /\ Plans!Active(Plans!Profile("BALANCED")) \subseteq Plans!Active(Plans!Profile("STUDY_FIRST"))
  BY <1>1, <1>2, <1>3, LouderActivates
<1> QED BY <1>4 DEF Plans!LouderOpensMore

\* The decision is the policy's, for any supply set, forms of facts and
\* contexts: pruning and tie break never change whether there is a decision
\* nor leave the tie window, a request is honoured, debt is served in its
\* order and a louder profile opens what a quieter one does
\* (planner/kernel.py, planner/ledger.py).
THEOREM PolicyDecides == Spec => []DecisionsFollowPolicy
<1>1. Init => PlansTyped
  BY PlansStart DEF Init
<1>2. [Next]_vars => Plans!Next \/ UNCHANGED planVars
  BY DEF Next, vars
<1>3. PlansTyped /\ UNCHANGED planVars => PlansTyped'
  BY DEF PlansTyped, planVars
<1>4. PlansTyped /\ [Next]_vars => PlansTyped'
  BY <1>2, <1>3, PlansKept
<1>5. PlansTyped => DecisionsFollowPolicy
  BY PruningDecidesNothing, RequestsHonoured, DebtServedFirst, LouderOpens DEF DecisionsFollowPolicy
<1> QED BY <1>1, <1>4, <1>5, PTL DEF Spec
=============================================================================
