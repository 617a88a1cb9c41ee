------------------------- MODULE TeachingMomentProofs -------------------------
(***************************************************************************)
(* Theorems about TeachingMoment, for any number of requests, replies,     *)
(* processes and faults, any limits and either kind of caller; the last    *)
(* one, SupportStaysHonest, for the callers of the web host.               *)
(***************************************************************************)
EXTENDS TeachingMoment, FiniteSetTheorems, TLAPS

(* Labels of the leg, by what it works on.                                 *)
OpeningLabels == {"openEntry", "cycle", "repair", "openGate"}
ReplyLabels   == {"evaluate", "attempt", "judge", "deciding", "decide"}
SendLabels    == {"deliver", "dispatch", "produce", "send", "transcribe", "complete",
                  "closeTurn", "silent", "undelivered"}

(* A moment exists only after its turn recorded a cycle and an ALLOW, and  *)
(* has shown nothing before it is presented.                               *)
Recorded ==
    \A o \in Opens :
        /\ moment[o].state /= "ABSENT" =>
             turn[o].status /= "ABSENT" /\ turn[o].cycle > 0 /\ gate[o] = "ALLOW"
        /\ moment[o].state \in {"ABSENT", "OPENING"} =>
             moment[o].phase = 0 /\ moment[o].support = 0 /\ moment[o].index = 0

(* What a leg knows of its turn and of its moment at each label.           *)
OpeningKnows ==
    pc \in OpeningLabels =>
        /\ leg.msg \in Opens /\ turn[leg.msg].status /= "ABSENT"
        /\ leg.goal = "opening"
        /\ pc \in {"cycle", "repair", "openGate"} => moment[leg.msg].state = "ABSENT"
        /\ pc \in {"repair", "openGate"} => turn[leg.msg].cycle > 0

ReplyKnows ==
    /\ pc \in ReplyLabels \cup {"replyEntry"} => leg.msg \in Replies
    /\ pc \in ReplyLabels => moment[leg.mom].state \in ReplyPath

SendKnows ==
    pc \in SendLabels \cup {"land"} =>
        /\ leg.goal \in Goals \ {"none"}
        /\ pc \in SendLabels => leg.goal \in {"opening", "continue", "close"}
        /\ leg.goal = "continue" =>
             /\ moment[leg.mom].state \in ReplyPath
             /\ leg.step.phase >= moment[leg.mom].phase
             /\ leg.step.support >= moment[leg.mom].support
        /\ leg.goal \in {"close", "quiet", "lost"} => moment[leg.mom].state = "RESUMING"

CloseKnows ==
    /\ pc \in {"finish", "terminalize", "resume"} => leg.goal \in {"close", "quiet", "lost"}
    /\ pc = "terminalize" => moment[leg.mom].state \in {"COMPLETING", "ABORTING"}
    /\ pc = "resume" => moment[leg.mom].state = "TEACHING_TERMINAL"

LegKnows == OpeningKnows /\ ReplyKnows /\ SendKnows /\ CloseKnows

TeachingInv == TypeOK /\ LockIsLive /\ Recorded /\ LegKnows

----------------------------------------------------------------------------
(* Rows.                                                                   *)

LEMMA AnyOpenIsOpen == AnyOpen \in Opens
  BY TeachingAssumption DEF AnyOpen

LEMMA MomentFields ==
    ASSUME NEW x \in MomentRow
    PROVE  /\ x.state \in States /\ x.phase \in 0..Explanation
           /\ x.support \in 0..FullForm /\ x.index \in Nat /\ x.closure \in Closures
  BY DEF MomentRow

LEMMA LegFields ==
    ASSUME NEW x \in LegRow
    PROVE  /\ x.msg \in Msgs /\ x.mom \in Opens /\ x.env \in Envelope
           /\ x.goal \in Goals /\ x.closure \in Closures /\ x.step \in LadderPlan
           /\ x.kind \in Kinds /\ x.back \in {"idle", "sweep"} /\ x.todo \in SUBSET Msgs
           /\ x.step.phase \in 0..Explanation /\ x.step.support \in 0..FullForm
           /\ x.step.slot \in Slots \cup {"none"}
  BY DEF LegRow, LadderPlan

(* Updates of one row.                                                     *)
LEMMA TurnPut ==
    ASSUME NEW t \in TurnRow
    PROVE  /\ t.status \in TurnStates /\ t.owner \in Nat /\ t.cycle \in Nat
           /\ \A s \in TurnStates : [t EXCEPT !.status = s] \in TurnRow
           /\ \A n \in Nat : [t EXCEPT !.owner = n] \in TurnRow
           /\ \A n \in Nat : [t EXCEPT !.cycle = n] \in TurnRow
  BY DEF TurnRow

LEMMA ActPut ==
    ASSUME NEW f \in [Msgs -> [Slots -> ActRow]], NEW m \in Msgs, NEW w, NEW s \in ActStates
    PROVE  [f EXCEPT ![m][w].status = s] \in [Msgs -> [Slots -> ActRow]]
<1>1. \A a \in ActRow : [a EXCEPT !.status = s] \in ActRow
  BY DEF ActRow
<1>2. f[m] \in [Slots -> ActRow]
  OBVIOUS
<1>3. [f[m] EXCEPT ![w] = [f[m][w] EXCEPT !.status = s]] \in [Slots -> ActRow]
  BY <1>1, <1>2
<1> QED BY <1>3

LEMMA MomentPut ==
    ASSUME NEW x \in MomentRow
    PROVE  /\ \A s \in States : [x EXCEPT !.state = s] \in MomentRow
           /\ \A n \in Nat : [x EXCEPT !.index = n] \in MomentRow
           /\ \A s \in States, u \in 0..FullForm :
                [x EXCEPT !.state = s, !.support = u] \in MomentRow
           /\ \A s \in States, p \in 0..Explanation, u \in 0..FullForm :
                [x EXCEPT !.state = s, !.phase = p, !.support = u] \in MomentRow
  BY DEF MomentRow

LEMMA StepTyped ==
    ASSUME NEW p \in 0..Explanation, NEW u \in 0..FullForm, NEW s \in Slots \cup {"none"}
    PROVE  StepTo(p, u, s) \in LadderPlan
  BY DEF StepTo, LadderPlan

LEMMA ClosuresTyped ==
    /\ Open \in Closures
    /\ \A w \in {"SUCCESS", "REVEALED", "PARTIAL_PROGRESS"} : Completed(w) \in Closures
    /\ \A w \in {"USER_SWITCH_TARGET", "USER_SKIP", "SYSTEM_FAILURE", "POLICY_STOP",
                 "DELIVERY_FAILURE", "SYSTEM_RECOVERY_ABORT"} : Aborted(w) \in Closures
  BY DEF Open, Completed, Aborted, Closures

LEMMA FreshLegTyped ==
    ASSUME NEW m \in Msgs, NEW o \in Opens, NEW g \in Goals, NEW d \in SUBSET Msgs
    PROVE  FreshLeg(m, o, g, d) \in LegRow
<1>1. StepTo(0, 0, "none") \in LadderPlan
  BY StepTyped DEF Explanation, FullForm
<1>2. NoEnv \in Envelope
  BY DEF NoEnv, Envelope, Intents, Answers
<1> QED BY <1>1, <1>2, ClosuresTyped DEF FreshLeg, LegRow, Kinds

LEMMA LeaveTyped ==
    ASSUME TypeOK, Leave
    PROVE  pc' \in {"idle", "sweep"} /\ pc' \in Labels /\ leg' \in LegRow
<1>1. leg.back \in {"idle", "sweep"} /\ leg.todo \in SUBSET Msgs
  BY LegFields DEF TypeOK
<1>2. FreshLeg(AnyOpen, AnyOpen, "none", leg.todo) \in LegRow
  BY <1>1, FreshLegTyped, AnyOpenIsOpen DEF Goals, Msgs
<1> QED BY <1>1, <1>2 DEF Leave, Labels

LEMMA LeaveKnows ==
    ASSUME pc' \in {"idle", "sweep", "residue", "openings", "down", "inflight",
                    "settle", "lost", "reconcile"}
    PROVE  LegKnows'
  BY DEF LegKnows, OpeningKnows, ReplyKnows, SendKnows, CloseKnows, OpeningLabels,
         ReplyLabels, SendLabels

(* The ladder: a step is within the ladder, and a step that is not refused *)
(* goes forward.                                                           *)
LEMMA LadderStepTyped ==
    ASSUME NEW mo \in MomentRow, NEW k \in Kinds
    PROVE  LadderStep(mo, k) \in LadderPlan
<1>1. mo.phase \in 0..6 /\ mo.support \in 0..5
  BY MomentFields DEF Explanation, FullForm
<1>2. CASE k = "HINT" /\ mo.phase < HintRungs
  <2>1. mo.phase + 1 \in 0..6 /\ mo.phase + 2 \in 0..5
    BY <1>1, <1>2, TeachingAssumption
  <2>2. StepTo(mo.phase + 1, mo.phase + 2, "hint") \in LadderPlan
    BY <2>1, StepTyped DEF Slots, Explanation, FullForm
  <2> QED BY <1>2, <2>2 DEF LadderStep
<1>3. CASE ~(k = "HINT" /\ mo.phase < HintRungs)
  BY <1>1, <1>3, StepTyped
     DEF LadderStep, Slots, Kinds, Explanation, FullForm, FullReveal
<1> QED BY <1>2, <1>3

LEMMA ReconciledTyped ==
    ASSUME NEW x \in MomentRow, NEW o, NEW s
    PROVE  /\ Reconciled(x, o, s).phase \in 0..Explanation
           /\ Reconciled(x, o, s).support \in 0..FullForm
  BY TeachingAssumption, LadderStepTyped
     DEF Reconciled, LadderPlan, MomentRow, Explanation, FullForm, FullReveal, Kinds

LEMMA AcceptedGoesForward ==
    ASSUME NEW mo \in MomentRow, NEW s \in LadderPlan, ~Refused(mo, s)
    PROVE  s.phase >= mo.phase /\ s.support >= mo.support
<1>1. mo.phase \in Nat /\ mo.support \in Nat /\ s.phase \in Nat /\ s.support \in Nat
  BY DEF MomentRow, LadderPlan, Explanation, FullForm
<1> QED BY <1>1 DEF Refused

LEMMA DecisionTyped ==
    ASSUME NEW o \in Opens, NEW env \in Envelope, NEW v
    PROVE  LET d == Decision(o, env)
               p == IF d.gated THEN AfterGate(d, v) ELSE d
           IN p.closure \in Closures /\ p.kind \in Kinds
<1> DEFINE kind == KindOf(env.intent)
           d == Decision(o, env)
           p == IF d.gated THEN AfterGate(d, v) ELSE d
<1>1. kind \in Kinds
  BY DEF KindOf, Kinds
<1>2. /\ d = [goal |-> d.goal, closure |-> d.closure, gated |-> d.gated, kind |-> d.kind]
      /\ d.closure \in Closures /\ d.kind = kind
  <2> HIDE DEF kind
  <2>1. \A g, c, b : LET r == [goal |-> g, closure |-> c, gated |-> b, kind |-> kind]
                     IN /\ r = [goal |-> r.goal, closure |-> r.closure,
                                gated |-> r.gated, kind |-> r.kind]
                        /\ r.closure = c /\ r.kind = kind
    OBVIOUS
  <2>2. \E g, b : \E c \in Closures :
          d = [goal |-> g, closure |-> c, gated |-> b, kind |-> kind]
    BY ClosuresTyped DEF Decision, kind
  <2> QED BY <2>1, <2>2
<1>3. AfterGate(d, v).closure \in Closures /\ AfterGate(d, v).kind = d.kind
  <2> HIDE DEF d
  <2> QED BY <1>2, ClosuresTyped DEF AfterGate
<1> HIDE DEF kind, d
<1> QED BY <1>1, <1>2, <1>3 DEF d

(* A nonempty set of support levels has a greatest one.                    *)
LEMMA GreatestShown ==
    ASSUME TypeOK, NEW o \in Opens
    PROVE  /\ (CHOOSE s \in Shown(o) : \A t \in Shown(o) : s >= t) \in Shown(o)
           /\ (CHOOSE s \in Shown(o) : \A t \in Shown(o) : s >= t) \in 0..FullForm
<1>1. Shown(o) \in SUBSET (0..5) /\ 1 \in Shown(o)
  BY DEF TypeOK, Shown, Delivered, SaidRow, FullForm, ContextOnly
<1>2. \E s \in Shown(o) : \A t \in Shown(o) : s >= t
  <2> SUFFICES ASSUME NEW S \in SUBSET (0..5), 1 \in S
               PROVE  \E s \in S : \A t \in S : s >= t
    BY <1>1
  <2>1. CASE 5 \in S
    BY <2>1
  <2>2. CASE 5 \notin S /\ 4 \in S
    BY <2>2
  <2>3. CASE 5 \notin S /\ 4 \notin S /\ 3 \in S
    BY <2>3
  <2>4. CASE 5 \notin S /\ 4 \notin S /\ 3 \notin S /\ 2 \in S
    BY <2>4
  <2>5. CASE 5 \notin S /\ 4 \notin S /\ 3 \notin S /\ 2 \notin S
    BY <2>5
  <2> QED BY <2>1, <2>2, <2>3, <2>4, <2>5
<1> QED BY <1>1, <1>2 DEF FullForm

----------------------------------------------------------------------------
(* Type correctness.                                                       *)

LEMMA PutMomentTyped ==
    ASSUME TypeOK, NEW o \in Opens, NEW r \in MomentRow, NEW l \in Labels,
           PutMoment(o, r, l)
    PROVE  moment' \in [Opens -> MomentRow] /\ pc' \in Labels /\ leg' \in LegRow
  BY LeaveTyped DEF PutMoment, Goto, TypeOK

LEMMA CommitTyped ==
    ASSUME TypeOK, NEW m \in Msgs, NEW env \in Envelope, NEW c \in BOOLEAN,
           Commit(m, env, c)
    PROVE  turn' \in [Msgs -> TurnRow]
<1>1. turn \in [Msgs -> TurnRow] /\ turn[m] \in TurnRow /\ epoch \in Nat
  BY DEF TypeOK
<1> DEFINE new == [status |-> "USER_COMMITTED", owner |-> epoch, cycle |-> 0,
                   env |-> env, first |-> "none"]
<1>2. new \in TurnRow
  BY <1>1 DEF TurnRow, TurnStates
<1>3. [turn[m] EXCEPT !.owner = IF Live(m) /\ c THEN epoch ELSE turn[m].owner] \in TurnRow
  BY <1>1, TurnPut DEF TurnStates
<1>4. CASE turn[m].status = "ABSENT"
  <2>1. turn' = [turn EXCEPT ![m] = new]
    BY <1>4 DEF Commit
  <2> HIDE DEF new
  <2> QED BY <1>1, <1>2, <2>1
<1>5. CASE turn[m].status /= "ABSENT"
  <2>1. turn' = [turn EXCEPT ![m] =
                   [turn[m] EXCEPT !.owner = IF Live(m) /\ c THEN epoch ELSE turn[m].owner]]
    BY <1>5 DEF Commit
  <2> QED BY <1>1, <1>3, <2>1
<1> QED BY <1>4, <1>5

LEMMA TypeStep ==
    ASSUME TypeOK, LegKnows, Next
    PROVE  TypeOK'
<1> USE DEF UnchangedBut, stored
<1>l. /\ leg.msg \in Msgs /\ leg.mom \in Opens /\ leg.env \in Envelope
      /\ leg.goal \in Goals /\ leg.closure \in Closures /\ leg.step \in LadderPlan
      /\ leg.kind \in Kinds /\ leg.back \in {"idle", "sweep"} /\ leg.todo \in SUBSET Msgs
      /\ leg.step.phase \in 0..Explanation /\ leg.step.support \in 0..FullForm
      /\ leg.step.slot \in Slots \cup {"none"}
  BY LegFields DEF TypeOK
<1>m. moment[leg.mom] \in MomentRow
  BY <1>l DEF TypeOK
<1>t. turn[leg.msg] \in TurnRow /\ epoch \in Nat
  BY <1>l DEF TypeOK
<1>s. \A st \in TurnStates : [turn EXCEPT ![leg.msg].status = st] \in [Msgs -> TurnRow]
  BY <1>l, <1>t, TurnPut DEF TypeOK
<1>1. CASE Start
  <2>1. leg' \in LegRow
    BY <1>1, FreshLegTyped, AnyOpenIsOpen DEF Start, Goals, Msgs
  <2> QED BY <1>1, <2>1 DEF Start, TypeOK, Labels
<1>2. CASE Fault
  <2>1. pc' \in Labels /\ leg' \in LegRow
    <3>1. NoLeg \in LegRow
      BY FreshLegTyped, AnyOpenIsOpen DEF NoLeg, Goals, Msgs
    <3>2. \A m \in leg.todo : [leg EXCEPT !.todo = @ \ {m}] \in LegRow
      BY <1>l DEF TypeOK, LegRow
    <3> QED BY <1>2, <3>1, <3>2, LeaveTyped DEF Fault, Goto, Labels, TypeOK
  <2> QED BY <1>2, <2>1 DEF Fault, TypeOK
<1>3. ASSUME NEW o \in Opens, RequestTeaching(o) PROVE TypeOK'
  <2>1. turn' \in [Msgs -> TurnRow]
    BY <1>3, CommitTyped DEF RequestTeaching, Msgs, NoEnv, Envelope, Intents, Answers
  <2>2. leg' \in LegRow
    BY <1>3, FreshLegTyped DEF RequestTeaching, Goals, Msgs
  <2>3. newest' \in Msgs \cup {"none"} /\ epoch' = epoch /\ faults' = faults
    BY <1>3 DEF RequestTeaching, Commit, TypeOK, Msgs
  <2> QED BY <1>3, <2>1, <2>2, <2>3 DEF RequestTeaching, TypeOK, Labels
<1>4. ASSUME NEW m \in Replies, NEW env \in Envelopes, RespondToTeaching(m, env)
      PROVE  TypeOK'
  <2>1. m \in Msgs /\ env \in Envelope
    BY TeachingAssumption DEF Msgs
  <2>2. turn' \in [Msgs -> TurnRow]
    BY <1>4, <2>1, CommitTyped DEF RespondToTeaching
  <2>3. FreshLeg(m, AnyOpen, "none", {}) \in LegRow
    BY <2>1, FreshLegTyped, AnyOpenIsOpen DEF Goals
  <2>4. leg' \in LegRow
    BY <1>4, <2>1, <2>3 DEF RespondToTeaching, LegRow
  <2>5. newest' \in Msgs \cup {"none"} /\ epoch' = epoch /\ faults' = faults
    BY <1>4, <2>1 DEF RespondToTeaching, Commit, TypeOK
  <2> QED BY <1>4, <2>2, <2>4, <2>5 DEF RespondToTeaching, TypeOK, Labels
<1>5. CASE AbortUndeliveredOpenings
  <2>1. turn' \in [Msgs -> TurnRow]
    <3>1. ASSUME NEW o \in Opens PROVE [turn EXCEPT ![o].owner = IF Live(o) THEN epoch ELSE @]
                                          \in [Msgs -> TurnRow]
      <4>1. o \in Msgs /\ turn[o] \in TurnRow
        BY DEF Msgs, TypeOK
      <4>2. [turn[o] EXCEPT !.owner = IF Live(o) THEN epoch ELSE @] \in TurnRow
        BY <1>t, <4>1, TurnPut DEF TurnStates
      <4> QED BY <4>1, <4>2 DEF TypeOK
    <3> QED BY <1>5, <3>1 DEF AbortUndeliveredOpenings, ForeignLock, TypeOK
  <2>2. pc' \in Labels /\ leg' \in LegRow
    BY <1>5, ClosuresTyped
       DEF AbortUndeliveredOpenings, ForeignLock, Goto, TypeOK, LegRow, Labels, Goals
  <2> QED BY <1>5, <2>1, <2>2 DEF AbortUndeliveredOpenings, TypeOK
<1>6. CASE RecoverOrphanTeachingLocks
  <2>1. moment' \in [Opens -> MomentRow]
    <3>1. ASSUME NEW x \in MomentRow
          PROVE  [x EXCEPT !.state = "CLOSED", !.closure.abort = "SYSTEM_RECOVERY_ABORT"]
                     \in MomentRow
      BY DEF MomentRow, Closures, States
    <3>2. CASE ForeignLock
      <4>1. lock \in Opens /\ moment[lock] \in MomentRow
        BY <3>2 DEF ForeignLock, TypeOK
      <4> QED BY <1>6, <3>1, <3>2, <4>1 DEF RecoverOrphanTeachingLocks, TypeOK
    <3> QED BY <1>6, <3>2 DEF RecoverOrphanTeachingLocks, TypeOK
  <2> QED BY <1>6, <2>1 DEF RecoverOrphanTeachingLocks, Goto, TypeOK, Labels
<1>7. CASE Serve
  BY <1>7, LeaveTyped DEF Serve, TypeOK
<1>8. ASSUME NEW m \in Msgs, CloseResidualTurn(m) PROVE TypeOK'
  <2>1. turn' \in [Msgs -> TurnRow]
    BY <1>8 DEF CloseResidualTurn, TypeOK, TurnRow, TurnStates
  <2>2. leg' \in LegRow
    BY <1>8, <1>l DEF CloseResidualTurn, TypeOK, LegRow
  <2> QED BY <1>8, <2>1, <2>2 DEF CloseResidualTurn, TypeOK
<1>o. OpeningStep \in LadderPlan
  BY StepTyped DEF OpeningStep, Explanation, FullForm, ContextOnly, Slots
<1>9. CASE EnterOpening
  <2>1. turn' \in [Msgs -> TurnRow]
    BY <1>9, <1>s DEF EnterOpening, TurnStatus, TypeOK, TurnStates
  <2>2. [leg EXCEPT !.step = OpeningStep] \in LegRow
    BY <1>o DEF TypeOK, LegRow
  <2>3. pc' \in Labels /\ leg' \in LegRow
    BY <1>9, <2>2, LeaveTyped DEF EnterOpening, Goto, TypeOK, Labels
  <2> QED BY <1>9, <2>1, <2>3 DEF EnterOpening, TypeOK
<1>10. CASE RecordCycle
  <2>1. turn' \in [Msgs -> TurnRow]
    <3>1. [turn[leg.msg] EXCEPT !.cycle = @ + 1] \in TurnRow
      <4>1. turn[leg.msg].cycle + 1 \in Nat
        BY <1>t, TurnPut
      <4> QED BY <1>t, <4>1, TurnPut
    <3> QED BY <1>10, <1>l, <3>1 DEF RecordCycle, TypeOK
  <2> QED BY <1>10, <2>1 DEF RecordCycle, Goto, TypeOK, Labels
<1>11. CASE OpenTeachingMoment
  <2>1. leg.msg \in Opens
    BY <1>11 DEF OpenTeachingMoment, LegKnows, OpeningKnows, OpeningLabels
  <2>2. moment' \in [Opens -> MomentRow]
    BY <1>11, <2>1, ClosuresTyped
       DEF OpenTeachingMoment, TypeOK, MomentRow, NoMoment, States, LiveStates,
           Explanation, FullForm
  <2>3. turn' \in [Msgs -> TurnRow]
    <3>1. [turn[leg.msg] EXCEPT !.first = "teaching-open"] \in TurnRow
      BY <1>t DEF TurnRow, Slots
    <3> QED BY <1>11, <1>l, <3>1 DEF OpenTeachingMoment, TypeOK
  <2>4. act' \in [Msgs -> [Slots -> ActRow]]
    BY <1>11, <2>1 DEF OpenTeachingMoment, TypeOK, ActRow, ActStates
  <2>5. leg' \in LegRow
    BY <1>11, <1>o DEF OpenTeachingMoment, TypeOK, LegRow
  <2> QED BY <1>11, <2>1, <2>2, <2>3, <2>4, <2>5
          DEF OpenTeachingMoment, TypeOK, Labels, Verdicts
<1>12. ASSUME NEW v \in {"DENY", "DEGRADED", "STALE"}, RefuseOpening(v) PROVE TypeOK'
  BY <1>12, LeaveTyped DEF RefuseOpening, Goto, TypeOK, Labels, Verdicts
<1>13. CASE ReplayDelivery
  <2>1. turn' \in [Msgs -> TurnRow]
    BY <1>13 DEF ReplayDelivery, TypeOK, TurnRow, TurnStates
  <2> QED BY <1>13, <2>1 DEF ReplayDelivery, Goto, TypeOK, Labels
<1>14. CASE BeginDelivery
  <2>1. turn' \in [Msgs -> TurnRow]
    BY <1>14, <1>s, <1>t, TurnPut DEF BeginDelivery, TurnStates
  <2> QED BY <1>14, <2>1 DEF BeginDelivery, Goto, TypeOK, Labels
<1>15. CASE CreateAction
  <2>1. turn' \in [Msgs -> TurnRow]
    BY <1>15, <1>l DEF CreateAction, TypeOK, TurnRow
  <2>2. act' \in [Msgs -> [Slots -> ActRow]]
    BY <1>15, <1>l DEF CreateAction, TypeOK, ActRow, ActStates
  <2> QED BY <1>15, <2>1, <2>2 DEF CreateAction, TypeOK
<1>a. \A st \in ActStates :
         ActStatus(leg.msg, leg.step.slot, st) => act' \in [Msgs -> [Slots -> ActRow]]
  <2>1. act \in [Msgs -> [Slots -> ActRow]]
    BY DEF TypeOK
  <2>2. ASSUME NEW st \in ActStates
        PROVE  [act EXCEPT ![leg.msg][leg.step.slot].status = st]
                  \in [Msgs -> [Slots -> ActRow]]
    BY <1>l, <2>1, ActPut
  <2> QED BY <2>2 DEF ActStatus
<1>16. CASE RunAction
  <2>1. act' \in [Msgs -> [Slots -> ActRow]]
    BY <1>16, <1>a DEF RunAction, TypeOK, ActStates
  <2> QED BY <1>16, <2>1, LeaveTyped DEF RunAction, Goto, TypeOK, Labels
<1>17. CASE ProduceReply
  <2>1. act' \in [Msgs -> [Slots -> ActRow]]
    BY <1>17, <1>a DEF ProduceReply, ActStates
  <2> QED BY <1>17, <2>1 DEF ProduceReply, Goto, TypeOK, Labels
<1>18. CASE ProduceNothing
  <2>1. act' \in [Msgs -> [Slots -> ActRow]]
    BY <1>18, <1>a DEF ProduceNothing, ActStates
  <2> QED BY <1>18, <2>1 DEF ProduceNothing, Goto, TypeOK, Labels
<1>19. CASE SendReply
  <2>1. turn' \in [Msgs -> TurnRow]
    BY <1>19, <1>s, <1>t, TurnPut DEF SendReply, TurnStates
  <2> QED BY <1>19, <2>1 DEF SendReply, Goto, TypeOK, Labels
<1>20. CASE TranscribeReply
  <2>1. Shows(leg.step) \in 0..FullForm
    BY <1>l DEF Shows, FullForm
  <2>2. said' \in [Msgs -> SaidRow]
    BY <1>20, <1>l, <2>1 DEF TranscribeReply, TypeOK, SaidRow
  <2> QED BY <1>20, <2>2 DEF TranscribeReply, Goto, TypeOK, Labels
<1>21. CASE CompleteAction
  <2>1. act' \in [Msgs -> [Slots -> ActRow]]
    BY <1>21, <1>a DEF CompleteAction, ActStates
  <2> QED BY <1>21, <2>1 DEF CompleteAction, Goto, TypeOK, Labels
<1>22. CASE TerminalizeTurn
  <2>1. turn' \in [Msgs -> TurnRow]
    BY <1>22, <1>s DEF TerminalizeTurn, TurnStatus, TypeOK, TurnStates
  <2> QED BY <1>22, <2>1, LeaveTyped DEF TerminalizeTurn, Goto, TypeOK, Labels
<1>23. CASE Undelivered
  <2>1. leg' \in LegRow
    BY <1>23, ClosuresTyped DEF Undelivered, Goto, TypeOK, LegRow, Goals
  <2> QED BY <1>23, <2>1 DEF Undelivered, Goto, TypeOK, Labels
<1>24. CASE Land
  <2>1. Landed(moment[leg.mom]) \in MomentRow
    <3>1. \A x \in MomentRow :
            /\ [x EXCEPT !.state = "AWAITING_USER", !.support = ContextOnly] \in MomentRow
            /\ [x EXCEPT !.state = "AWAITING_USER", !.phase = leg.step.phase,
                         !.support = leg.step.support] \in MomentRow
            /\ [x EXCEPT !.state = "CLOSED"] \in MomentRow
      <4>1. /\ {"AWAITING_USER", "CLOSED"} \subseteq States
            /\ ContextOnly \in 0..FullForm
        BY DEF States, LiveStates, ContextOnly, FullForm
      <4> QED BY <1>l, <4>1, MomentPut
    <3> QED BY <1>m, <3>1 DEF Landed
  <2> QED BY <1>24, <1>l, <2>1, LeaveTyped DEF Land, TypeOK
<1>25. CASE EnterReply
  <2>1. turn' \in [Msgs -> TurnRow]
    <3>1. /\ turn[leg.msg].status \in TurnStates /\ "DECIDING" \in TurnStates
          /\ turn \in [Msgs -> TurnRow]
      BY <1>t, TurnPut DEF TurnStates, TypeOK
    <3>2. turn' = turn \/ turn' = [turn EXCEPT ![leg.msg].status = turn[leg.msg].status]
                       \/ turn' = [turn EXCEPT ![leg.msg].status = "DECIDING"]
      BY <1>25 DEF EnterReply
    <3> QED BY <1>s, <3>1, <3>2
  <2>2. lock /= Free => [leg EXCEPT !.mom = lock] \in LegRow
    BY DEF TypeOK, LegRow
  <2>3. pc' \in Labels /\ leg' \in LegRow
    BY <1>25, <2>2, LeaveTyped DEF EnterReply, Goto, TypeOK, Labels
  <2> QED BY <1>25, <2>1, <2>3 DEF EnterReply, TypeOK
<1>26. CASE Evaluate
  <2>1. [moment[leg.mom] EXCEPT !.state = IF @ = "AWAITING_USER" THEN "EVALUATING" ELSE @]
           \in MomentRow
    BY <1>m DEF MomentRow, States, LiveStates
  <2>2. moment' \in [Opens -> MomentRow] /\ pc' \in Labels /\ leg' \in LegRow
    BY <1>26, <1>l, <2>1, PutMomentTyped DEF Evaluate, Labels
  <2> QED BY <1>26, <2>2 DEF Evaluate, TypeOK
<1>27. CASE RecordAttempt
  <2>1. leg.msg \in Replies
    BY <1>27 DEF RecordAttempt, LegKnows, ReplyKnows, ReplyLabels
  <2>2. InsertAttempt(leg.mom, leg.msg) =>
          attempts' \subseteq AttemptRow /\ moment' \in [Opens -> MomentRow]
    <3>1. moment[leg.mom].index + 1 \in Nat /\ moment[leg.mom].support \in 0..FullForm
      BY <1>m, MomentFields
    <3> DEFINE s == CHOOSE s \in Shown(leg.mom) : \A t \in Shown(leg.mom) : s >= t
    <3>2. s \in 0..FullForm
      BY <1>l, GreatestShown
    <3> HIDE DEF s
    <3>3. [mom |-> leg.mom, msg |-> leg.msg, index |-> moment[leg.mom].index + 1,
           support |-> moment[leg.mom].support, seen |-> s] \in AttemptRow
      BY <1>l, <2>1, <3>1, <3>2 DEF AttemptRow
    <3>4. [moment EXCEPT ![leg.mom].index = @ + 1] \in [Opens -> MomentRow]
      <4>1. [moment[leg.mom] EXCEPT !.index = @ + 1] \in MomentRow
        BY <1>m, <3>1, MomentPut DEF States, Explanation, FullForm
      <4> QED BY <4>1 DEF TypeOK
    <3> QED BY <3>3, <3>4 DEF InsertAttempt, TypeOK, s
  <2>3. attempts' \subseteq AttemptRow /\ moment' \in [Opens -> MomentRow]
    BY <1>27, <2>2 DEF RecordAttempt, TypeOK
  <2> QED BY <1>27, <2>3, LeaveTyped DEF RecordAttempt, Goto, TypeOK, Labels
<1>28. CASE MarkPostReveal
  <2>1. [moment[leg.mom] EXCEPT !.phase = IF @ = FullReveal THEN PostReveal ELSE @]
           \in MomentRow
    BY <1>m DEF MomentRow, PostReveal, Explanation
  <2>2. moment' \in [Opens -> MomentRow] /\ pc' \in Labels /\ leg' \in LegRow
    BY <1>28, <1>l, <2>1, PutMomentTyped DEF MarkPostReveal, Labels
  <2> QED BY <1>28, <2>2 DEF MarkPostReveal, TypeOK
<1>29. CASE AdvanceToDeciding
  <2>1. [moment[leg.mom] EXCEPT !.state = IF @ = "AWAITING_USER" THEN "EVALUATING"
                                         ELSE "DECIDING_NEXT_ACTION"] \in MomentRow
    BY <1>m DEF MomentRow, States, LiveStates
  <2>2. moment' \in [Opens -> MomentRow] /\ pc' \in Labels /\ leg' \in LegRow
    BY <1>29, <1>l, <2>1, PutMomentTyped DEF AdvanceToDeciding, Labels
  <2> QED BY <1>29, <2>2 DEF AdvanceToDeciding, TypeOK
<1>30. ASSUME NEW v \in {"none", "ALLOW", "DEGRADED", "HARD", "POLICY"}, Decide(v)
       PROVE  TypeOK'
  <2> DEFINE d == Decision(leg.mom, leg.env)
             p == IF d.gated THEN AfterGate(d, v) ELSE d
             t == LadderStep(moment[leg.mom], p.kind)
  <2>1. p.closure \in Closures /\ p.kind \in Kinds
    BY <1>l, DecisionTyped
  <2>2. t \in LadderPlan
    <3> HIDE DEF p
    <3> QED BY <1>m, <2>1, LadderStepTyped
  <2>3. /\ gate' = IF d.gated THEN [gate EXCEPT ![leg.msg] = v] ELSE gate
        /\ \/ pc' = "finish" /\ leg' = [leg EXCEPT !.goal = "close", !.closure = p.closure]
           \/ /\ pc' = "deliver"
              /\ leg' = [leg EXCEPT !.goal = "continue", !.kind = p.kind, !.step = t]
           \/ Leave
    BY <1>30 DEF Decide
  <2> HIDE DEF d, p, t
  <2>4. gate' \in [Msgs -> Verdicts]
    BY <2>3 DEF TypeOK, Verdicts
  <2>5. pc' \in Labels /\ leg' \in LegRow
    <3>1. /\ [leg EXCEPT !.goal = "close", !.closure = p.closure] \in LegRow
          /\ [leg EXCEPT !.goal = "continue", !.kind = p.kind, !.step = t] \in LegRow
      BY <2>1, <2>2 DEF TypeOK, LegRow, Goals
    <3> QED BY <2>3, <3>1, LeaveTyped DEF Labels
  <2> QED BY <1>30, <2>4, <2>5 DEF Decide, TypeOK
<1>31. CASE Finish
  <2>1. [moment[leg.mom] EXCEPT !.state = Closing(leg.closure), !.closure = leg.closure]
           \in MomentRow
    BY <1>l, <1>m DEF MomentRow, Closing, States, LiveStates
  <2>2. moment' \in [Opens -> MomentRow] /\ pc' \in Labels /\ leg' \in LegRow
    BY <1>31, <1>l, <2>1, PutMomentTyped, LeaveTyped DEF Finish, Goto, TypeOK, Labels
  <2> QED BY <1>31, <2>2 DEF Finish, TypeOK
<1>32. CASE TerminalizeMoment
  <2>1. moment' \in [Opens -> MomentRow]
    <3>1. [moment[leg.mom] EXCEPT !.state = "TEACHING_TERMINAL"] \in MomentRow
      BY <1>m, MomentPut DEF States, Explanation, FullForm
    <3> QED BY <1>32, <3>1 DEF TerminalizeMoment, TypeOK
  <2> QED BY <1>32, <2>1, LeaveTyped DEF TerminalizeMoment, Goto, TypeOK, Labels
<1>33. CASE Resume
  <2>1. moment' \in [Opens -> MomentRow]
    <3>1. [moment[leg.mom] EXCEPT !.state = "RESUMING"] \in MomentRow
      BY <1>m, MomentPut DEF States, Explanation, FullForm
    <3> QED BY <1>33, <3>1 DEF Resume, TypeOK
  <2>2. [leg EXCEPT !.step = StepTo(0, 0, "resume")] \in LegRow
    BY StepTyped DEF TypeOK, LegRow, Explanation, FullForm, Slots
  <2> QED BY <1>33, <2>1, <2>2, LeaveTyped DEF Resume, TypeOK, Labels
<1>34. CASE SettleAction
  <2>1. act' \in [Msgs -> [Slots -> ActRow]]
    <3>1. act \in [Msgs -> [Slots -> ActRow]] /\ "TERMINAL" \in ActStates
      BY DEF TypeOK, ActStates
    <3>2. [act EXCEPT ![leg.msg][turn[leg.msg].first].status = "TERMINAL"]
             \in [Msgs -> [Slots -> ActRow]]
      BY <1>l, <3>1, ActPut
    <3> QED BY <1>34, <3>1, <3>2 DEF SettleAction
  <2> QED BY <1>34, <2>1, LeaveTyped DEF SettleAction, Goto, TypeOK, Labels
<1>35. CASE SettleTurn
  <2>1. turn' \in [Msgs -> TurnRow]
    <3>1. [turn[leg.msg] EXCEPT !.owner = epoch] \in TurnRow
      BY <1>t, TurnPut DEF TurnStates
    <3>2. [[turn[leg.msg] EXCEPT !.owner = epoch] EXCEPT !.status = "DONE"] \in TurnRow
      BY <1>t, <3>1, TurnPut DEF TurnStates
    <3> QED BY <1>35, <1>l, <3>2 DEF SettleTurn, TypeOK
  <2> QED BY <1>35, <2>1 DEF SettleTurn, Goto, TypeOK, Labels
<1>36. CASE AbortLostDelivery
  <2>1. lock /= Free =>
          [leg EXCEPT !.mom = lock, !.goal = "lost",
                      !.closure = Aborted("DELIVERY_FAILURE")] \in LegRow
    BY ClosuresTyped DEF TypeOK, LegRow, Goals
  <2> QED BY <1>36, <2>1, LeaveTyped DEF AbortLostDelivery, TypeOK, Labels
<1>37. CASE ReconcileMomentLadder
  <2>2. \A x \in MomentRow : \A o, s :
          [x EXCEPT !.state = "AWAITING_USER", !.phase = Reconciled(x, o, s).phase,
                    !.support = Reconciled(x, o, s).support] \in MomentRow
    BY ReconciledTyped, MomentPut DEF States, LiveStates
  <2>3. moment' \in [Opens -> MomentRow]
    BY <1>37, <2>2 DEF ReconcileMomentLadder, TypeOK
  <2> QED BY <1>37, <2>3, LeaveTyped DEF ReconcileMomentLadder, TypeOK
<1> QED BY <1>1, <1>2, <1>3, <1>4, <1>5, <1>6, <1>7, <1>8, <1>9, <1>10, <1>11, <1>12,
           <1>13, <1>14, <1>15, <1>16, <1>17, <1>18, <1>19, <1>20, <1>21, <1>22, <1>23,
           <1>24, <1>25, <1>26, <1>27, <1>28, <1>29, <1>30, <1>31, <1>32, <1>33, <1>34,
           <1>35, <1>36, <1>37
        DEF Next, Step

----------------------------------------------------------------------------
(* What a step does to the turns, the moments and the lock.                *)

(* No step uncommits a turn or forgets a decision cycle.                   *)
TurnsKept ==
    \A m \in Msgs : turn[m].status /= "ABSENT" =>
        /\ turn'[m].status /= "ABSENT"
        /\ turn[m].cycle > 0 => turn'[m].cycle > 0

(* The action of LadderOneWay.                                             *)
Forward ==
    \A o \in Opens :
        /\ moment'[o].phase >= moment[o].phase
        /\ moment'[o].support >= moment[o].support
        /\ moment[o].state \notin LiveStates \cup {"ABSENT"}
              => moment'[o].state \notin LiveStates

LEMMA TurnsKeptStep ==
    ASSUME TypeOK, Next
    PROVE  TurnsKept
<1> USE DEF TurnsKept, UnchangedBut, stored
<1>l. leg.msg \in Msgs
  BY LegFields DEF TypeOK
<1>t. \A m \in Msgs : turn[m] \in TurnRow /\ turn[m].cycle \in Nat
  BY TurnPut DEF TypeOK
<1>s. \A m \in Msgs : \A st : st /= "ABSENT" /\ turn' = [turn EXCEPT ![m].status = st]
                            => TurnsKept
  BY <1>t DEF TypeOK, TurnRow
<1>c. \A m \in Msgs : \A env, c : Commit(m, env, c) => TurnsKept
  BY <1>t DEF Commit, TypeOK, TurnRow
<1>1. CASE turn' = turn
  BY <1>1
<1>2. ASSUME NEW o \in Opens, RequestTeaching(o) PROVE TurnsKept
  BY <1>2, <1>c DEF RequestTeaching, Msgs
<1>3. ASSUME NEW m \in Replies, NEW env \in Envelopes, RespondToTeaching(m, env)
      PROVE  TurnsKept
  BY <1>3, <1>c DEF RespondToTeaching, Msgs
<1>4. CASE AbortUndeliveredOpenings
  <2>1. CASE turn' = [turn EXCEPT ![lock].owner = IF Live(lock) THEN epoch ELSE @]
    <3>1. turn \in [Msgs -> TurnRow]
      BY DEF TypeOK
    <3> QED BY <2>1, <3>1, <1>t DEF TurnRow
  <2> QED BY <1>1, <1>4, <2>1 DEF AbortUndeliveredOpenings
<1>5. ASSUME NEW m \in Msgs, CloseResidualTurn(m) PROVE TurnsKept
  BY <1>5, <1>t DEF CloseResidualTurn, TypeOK, TurnRow
<1>6. CASE EnterOpening
  BY <1>6, <1>l, <1>s DEF EnterOpening, TurnStatus
<1>7. CASE RecordCycle
  BY <1>7, <1>l, <1>t DEF RecordCycle, TypeOK, TurnRow
<1>8. CASE OpenTeachingMoment
  BY <1>8, <1>l, <1>t DEF OpenTeachingMoment, TypeOK, TurnRow
<1>9. CASE ReplayDelivery
  BY <1>9, <1>l, <1>s DEF ReplayDelivery
<1>10. CASE BeginDelivery
  BY <1>10, <1>l, <1>t DEF BeginDelivery, TypeOK, TurnRow
<1>11. CASE CreateAction
  BY <1>11, <1>l, <1>t DEF CreateAction, TypeOK, TurnRow
<1>12. CASE SendReply
  BY <1>12, <1>l, <1>t DEF SendReply, TypeOK, TurnRow
<1>13. CASE TerminalizeTurn
  BY <1>13, <1>l, <1>s DEF TerminalizeTurn, TurnStatus
<1>14. CASE EnterReply
  BY <1>14, <1>l, <1>t DEF EnterReply, TypeOK, TurnRow
<1>15. CASE SettleTurn
  BY <1>15, <1>l, <1>t DEF SettleTurn, TypeOK, TurnRow
<1> QED BY <1>1, <1>2, <1>3, <1>4, <1>5, <1>6, <1>7, <1>8, <1>9, <1>10, <1>11, <1>12,
           <1>13, <1>14, <1>15
        DEF Next, Step, Start, Fault, RecoverOrphanTeachingLocks, Serve, RefuseOpening,
            RunAction, ProduceReply, ProduceNothing, TranscribeReply, CompleteAction,
            Undelivered, Land, Evaluate, RecordAttempt, MarkPostReveal,
            AdvanceToDeciding, Decide, Finish, TerminalizeMoment, Resume, SettleAction,
            AbortLostDelivery, ReconcileMomentLadder

LEMMA QuietStep ==
    ASSUME TeachingInv, TurnsKept, moment' = moment, lock' = lock,
           \A o \in Opens : gate'[o] = gate[o] \/ moment[o].state = "ABSENT"
    PROVE  LockIsLive' /\ Recorded' /\ Forward
<1>1. LockIsLive' /\ Recorded'
  BY DEF TeachingInv, LockIsLive, Recorded, TurnsKept, Msgs
<1>2. \A o \in Opens : moment[o].phase \in Nat /\ moment[o].support \in Nat
  BY DEF TeachingInv, TypeOK, MomentRow, Explanation, FullForm
<1> QED BY <1>1, <1>2 DEF Forward

(* One existing moment changes, to a row that is further on and not ahead  *)
(* of its lock.                                                            *)
LEMMA PutStep ==
    ASSUME TeachingInv, TurnsKept, gate' = gate, NEW o \in Opens, NEW r \in MomentRow,
           moment' = [moment EXCEPT ![o] = r],
           r.phase >= moment[o].phase, r.support >= moment[o].support,
           moment[o].state /= "ABSENT", r.state \notin {"ABSENT", "OPENING"},
           r.state \in LiveStates => moment[o].state \in LiveStates /\ lock' = lock,
           r.state \notin LiveStates => lock' = IF lock = o THEN Free ELSE lock
    PROVE  LockIsLive' /\ Recorded' /\ Forward
<1>1. \A q \in Opens : moment[q].phase \in Nat /\ moment[q].support \in Nat
  BY DEF TeachingInv, TypeOK, MomentRow, Explanation, FullForm
<1>2. moment'[o] = r /\ \A q \in Opens \ {o} : moment'[q] = moment[q]
  BY DEF TeachingInv, TypeOK
<1>3. LockIsLive'
  BY <1>2, TeachingAssumption DEF TeachingInv, LockIsLive
<1>4. Recorded'
  BY <1>2 DEF TeachingInv, Recorded, TurnsKept, Msgs
<1>5. Forward
  BY <1>1, <1>2 DEF Forward, LiveStates
<1> QED BY <1>3, <1>4, <1>5

LEMMA SafeStep ==
    ASSUME TeachingInv, Next
    PROVE  LockIsLive' /\ Recorded' /\ Forward
<1> USE DEF UnchangedBut, stored
<1>k. TurnsKept
  BY TurnsKeptStep DEF TeachingInv
<1>l. leg.msg \in Msgs /\ leg.mom \in Opens /\ leg.step \in LadderPlan
  BY LegFields DEF TeachingInv, TypeOK
<1>m. /\ moment[leg.mom] \in MomentRow
      /\ moment[leg.mom].phase \in 0..6 /\ moment[leg.mom].support \in 0..5
  BY <1>l, MomentFields DEF TeachingInv, TypeOK, Explanation, FullForm
<1>q. moment' = moment /\ lock' = lock /\ gate' = gate => LockIsLive' /\ Recorded' /\ Forward
  BY <1>k, QuietStep
<1>1. CASE RecoverOrphanTeachingLocks
  <2>1. CASE ~ForeignLock
    BY <1>1, <2>1, <1>q DEF RecoverOrphanTeachingLocks
  <2>2. CASE ForeignLock
    <3>1. lock \in Opens /\ moment[lock] \in MomentRow /\ moment[lock].state \in LiveStates
      BY <2>2 DEF ForeignLock, TeachingInv, TypeOK, LockIsLive
    <3>2. PICK o \in Opens : o = lock
      BY <3>1
    <3> DEFINE r == [moment[o] EXCEPT !.state = "CLOSED",
                                     !.closure.abort = "SYSTEM_RECOVERY_ABORT"]
    <3>3. /\ r \in MomentRow /\ r.state = "CLOSED"
          /\ r.phase = moment[o].phase /\ r.support = moment[o].support
      BY <3>1, <3>2 DEF MomentRow, Closures, States
    <3>4. moment' = [moment EXCEPT ![o] = r] /\ lock' = Free /\ gate' = gate
      BY <1>1, <2>2, <3>2 DEF RecoverOrphanTeachingLocks
    <3>5. moment[o].phase \in Nat /\ moment[o].support \in Nat
      BY <3>1, <3>2, MomentFields DEF Explanation, FullForm
    <3>6. /\ r.phase >= moment[o].phase /\ r.support >= moment[o].support
          /\ moment[o].state /= "ABSENT" /\ r.state \notin {"ABSENT", "OPENING"}
          /\ r.state \notin LiveStates /\ lock' = IF lock = o THEN Free ELSE lock
      BY <3>1, <3>2, <3>3, <3>4, <3>5 DEF LiveStates
    <3> HIDE DEF r
    <3> QED BY <1>k, <3>3, <3>4, <3>6, PutStep
  <2> QED BY <2>1, <2>2
<1>2. CASE OpenTeachingMoment
  <2>1. leg.msg \in Opens /\ moment[leg.msg].state = "ABSENT" /\ lock = Free
        /\ turn[leg.msg].cycle > 0 /\ turn[leg.msg].status /= "ABSENT"
    BY <1>2 DEF OpenTeachingMoment, OpenVerdicts, TeachingInv, LegKnows, OpeningKnows,
                OpeningLabels
  <2>2. /\ moment'[leg.msg].state = "OPENING" /\ moment'[leg.msg].phase = 0
        /\ moment'[leg.msg].support = 0 /\ moment'[leg.msg].index = 0
        /\ \A q \in Opens \ {leg.msg} : moment'[q] = moment[q]
    BY <1>2, <2>1 DEF OpenTeachingMoment, NoMoment, TeachingInv, TypeOK
  <2>3. /\ gate'[leg.msg] = "ALLOW" /\ lock' = leg.msg
        /\ \A q \in Opens \ {leg.msg} : gate'[q] = gate[q]
    BY <1>2, <1>l DEF OpenTeachingMoment, TeachingInv, TypeOK, Msgs
  <2>4. LockIsLive'
    BY <2>1, <2>2, <2>3, TeachingAssumption DEF TeachingInv, LockIsLive, LiveStates
  <2>5. Recorded'
    BY <1>k, <2>1, <2>2, <2>3 DEF TeachingInv, Recorded, TurnsKept, Msgs
  <2>6. Forward
    <3>1. \A q \in Opens : moment[q].phase \in Nat /\ moment[q].support \in Nat
      BY DEF TeachingInv, TypeOK, MomentRow, Explanation, FullForm
    <3>2. moment[leg.msg].phase = 0 /\ moment[leg.msg].support = 0
      BY <2>1 DEF TeachingInv, Recorded
    <3> QED BY <2>1, <2>2, <3>1, <3>2 DEF Forward
  <2> QED BY <2>4, <2>5, <2>6
<1>3. ASSUME NEW v \in {"DENY", "DEGRADED", "STALE"}, RefuseOpening(v)
      PROVE  LockIsLive' /\ Recorded' /\ Forward
  <2>1. leg.msg \in Opens /\ moment[leg.msg].state = "ABSENT"
    BY <1>3 DEF RefuseOpening, TeachingInv, LegKnows, OpeningKnows, OpeningLabels
  <2>2. \A o \in Opens : gate'[o] = gate[o] \/ moment[o].state = "ABSENT"
    BY <1>3, <2>1 DEF RefuseOpening, TeachingInv, TypeOK, Msgs
  <2> QED BY <1>k, <1>3, <2>2, QuietStep DEF RefuseOpening
<1>4. CASE Land
  <2> DEFINE mo == moment[leg.mom]
  <2>1. CASE ~Mine(leg.mom) \/ Landed(mo) = mo
    BY <1>4, <1>l, <1>q, <2>1 DEF Land, TeachingInv, TypeOK
  <2>2. CASE Mine(leg.mom) /\ Landed(mo) /= mo
    <3>1. moment' = [moment EXCEPT ![leg.mom] = Landed(mo)] /\ lock' = lock /\ gate' = gate
      BY <1>4, <2>2 DEF Land
    <3>2. CASE leg.goal = "opening"
      <4>1. /\ mo.state = "OPENING" /\ mo.support = 0
            /\ Landed(mo) = [mo EXCEPT !.state = "AWAITING_USER", !.support = ContextOnly]
        BY <1>l, <2>2, <3>2 DEF Landed, TeachingInv, Recorded
      <4>2. /\ Landed(mo) \in MomentRow /\ Landed(mo).state = "AWAITING_USER"
            /\ Landed(mo).phase = mo.phase /\ Landed(mo).support = 1
        <5>1. "AWAITING_USER" \in States /\ ContextOnly = 1 /\ 1 \in 0..FullForm
          BY DEF States, LiveStates, ContextOnly, FullForm
        <5>2. Landed(mo) \in MomentRow
          <6>1. \A x \in States, u \in 0..FullForm :
                  [mo EXCEPT !.state = x, !.support = u] \in MomentRow
            BY <1>m, MomentPut
          <6>2. [mo EXCEPT !.state = "AWAITING_USER", !.support = 1] \in MomentRow
            BY <5>1, <6>1
          <6> QED BY <4>1, <5>1, <6>2
        <5> QED BY <1>m, <4>1, <5>1, <5>2 DEF MomentRow
      <4>3. /\ Landed(mo).phase >= mo.phase /\ Landed(mo).support >= mo.support
            /\ mo.state \in LiveStates /\ mo.state /= "ABSENT"
            /\ Landed(mo).state \notin {"ABSENT", "OPENING"}
            /\ Landed(mo).state \in LiveStates
        BY <1>m, <4>1, <4>2 DEF LiveStates
      <4> HIDE DEF mo
      <4> QED BY <1>k, <1>l, <3>1, <4>2, <4>3, PutStep DEF mo
    <3>3. CASE leg.goal = "continue"
      <4>1. /\ mo.state \in ReplyPath /\ leg.step.phase >= mo.phase
            /\ leg.step.support >= mo.support
        BY <1>4, <3>3 DEF Land, TeachingInv, LegKnows, SendKnows
      <4>2. Landed(mo) = [mo EXCEPT !.state = "AWAITING_USER", !.phase = leg.step.phase,
                                    !.support = leg.step.support]
        BY <3>3 DEF Landed
      <4>3. /\ Landed(mo) \in MomentRow /\ Landed(mo).state = "AWAITING_USER"
            /\ Landed(mo).phase = leg.step.phase /\ Landed(mo).support = leg.step.support
        BY <1>l, <1>m, <4>2 DEF MomentRow, LadderPlan, States, LiveStates
      <4> HIDE DEF mo
      <4> QED BY <1>k, <1>l, <3>1, <4>1, <4>3, PutStep DEF LiveStates, ReplyPath, mo
    <3>4. CASE leg.goal \notin {"opening", "continue"}
      <4>1. mo.state = "RESUMING"
        BY <1>4, <3>4 DEF Land, TeachingInv, LegKnows, SendKnows, Goals
      <4>2. Landed(mo) = [mo EXCEPT !.state = "CLOSED"]
        BY <3>4 DEF Landed
      <4>3. /\ Landed(mo) \in MomentRow /\ Landed(mo).state = "CLOSED"
            /\ Landed(mo).phase = mo.phase /\ Landed(mo).support = mo.support
        BY <1>m, <4>2 DEF MomentRow, States
      <4>4. lock /= leg.mom
        BY <1>l, <4>1 DEF TeachingInv, LockIsLive, LiveStates
      <4>5. /\ Landed(mo).phase >= mo.phase /\ Landed(mo).support >= mo.support
            /\ mo.state /= "ABSENT" /\ Landed(mo).state \notin {"ABSENT", "OPENING"}
            /\ Landed(mo).state \notin LiveStates
            /\ lock' = IF lock = leg.mom THEN Free ELSE lock
        BY <1>m, <3>1, <4>1, <4>3, <4>4 DEF LiveStates
      <4> HIDE DEF mo
      <4> QED BY <1>k, <1>l, <3>1, <4>3, <4>5, PutStep DEF mo
    <3> QED BY <3>2, <3>3, <3>4
  <2> QED BY <2>1, <2>2
<1>5. CASE Evaluate
  <2> DEFINE mo == moment[leg.mom]
             r == [mo EXCEPT !.state = IF @ = "AWAITING_USER" THEN "EVALUATING" ELSE @]
  <2>1. mo.state \in ReplyPath
    BY <1>5 DEF Evaluate, TeachingInv, LegKnows, ReplyKnows, ReplyLabels
  <2>2. /\ r \in MomentRow /\ r.state \in ReplyPath
        /\ r.phase = mo.phase /\ r.support = mo.support
    BY <1>m, <2>1 DEF MomentRow, States, LiveStates, ReplyPath
  <2>3. (moment' = moment \/ moment' = [moment EXCEPT ![leg.mom] = r])
        /\ lock' = lock /\ gate' = gate
    BY <1>5 DEF Evaluate, PutMoment
  <2> HIDE DEF mo, r
  <2> QED BY <1>k, <1>l, <1>m, <1>q, <2>1, <2>2, <2>3, PutStep DEF LiveStates, ReplyPath, mo
<1>6. CASE RecordAttempt
  <2> DEFINE mo == moment[leg.mom]
             r == [mo EXCEPT !.index = @ + 1]
  <2>1. mo.state \in ReplyPath
    BY <1>6 DEF RecordAttempt, TeachingInv, LegKnows, ReplyKnows, ReplyLabels
  <2>2. /\ r \in MomentRow /\ r.state = mo.state
        /\ r.phase = mo.phase /\ r.support = mo.support
    BY <1>m DEF MomentRow
  <2>3. (moment' = moment \/ moment' = [moment EXCEPT ![leg.mom] = r])
        /\ lock' = lock /\ gate' = gate
    BY <1>6 DEF RecordAttempt, InsertAttempt
  <2> HIDE DEF mo, r
  <2> QED BY <1>k, <1>l, <1>m, <1>q, <2>1, <2>2, <2>3, PutStep DEF LiveStates, ReplyPath, mo
<1>7. CASE MarkPostReveal
  <2> DEFINE mo == moment[leg.mom]
             r == [mo EXCEPT !.phase = IF @ = FullReveal THEN PostReveal ELSE @]
  <2>1. mo.state \in ReplyPath
    BY <1>7 DEF MarkPostReveal, TeachingInv, LegKnows, ReplyKnows, ReplyLabels
  <2>2. /\ r \in MomentRow /\ r.state = mo.state
        /\ r.phase >= mo.phase /\ r.support = mo.support
    BY <1>m DEF MomentRow, FullReveal, PostReveal, Explanation
  <2>3. (moment' = moment \/ moment' = [moment EXCEPT ![leg.mom] = r])
        /\ lock' = lock /\ gate' = gate
    BY <1>7 DEF MarkPostReveal, PutMoment
  <2> HIDE DEF mo, r
  <2> QED BY <1>k, <1>l, <1>m, <1>q, <2>1, <2>2, <2>3, PutStep DEF LiveStates, ReplyPath, mo
<1>8. CASE AdvanceToDeciding
  <2> DEFINE mo == moment[leg.mom]
             r == [mo EXCEPT !.state = IF @ = "AWAITING_USER" THEN "EVALUATING"
                                       ELSE "DECIDING_NEXT_ACTION"]
  <2>1. mo.state \in ReplyPath
    BY <1>8 DEF AdvanceToDeciding, TeachingInv, LegKnows, ReplyKnows, ReplyLabels
  <2>2. /\ r \in MomentRow /\ r.state \in ReplyPath
        /\ r.phase = mo.phase /\ r.support = mo.support
    BY <1>m, <2>1 DEF MomentRow, States, LiveStates, ReplyPath
  <2>3. (moment' = moment \/ moment' = [moment EXCEPT ![leg.mom] = r])
        /\ lock' = lock /\ gate' = gate
    BY <1>8 DEF AdvanceToDeciding, PutMoment
  <2> HIDE DEF mo, r
  <2> QED BY <1>k, <1>l, <1>m, <1>q, <2>1, <2>2, <2>3, PutStep DEF LiveStates, ReplyPath, mo
<1>9. ASSUME NEW v \in {"none", "ALLOW", "DEGRADED", "HARD", "POLICY"}, Decide(v)
      PROVE  LockIsLive' /\ Recorded' /\ Forward
  <2>1. leg.msg \notin Opens
    BY <1>9, TeachingAssumption DEF Decide, TeachingInv, LegKnows, ReplyKnows, ReplyLabels
  <2>2. gate' = gate \/ gate' = [gate EXCEPT ![leg.msg] = v]
    BY <1>9 DEF Decide
  <2>3. \A o \in Opens : gate'[o] = gate[o]
    BY <2>1, <2>2 DEF TeachingInv, TypeOK, Msgs
  <2> QED BY <1>k, <1>9, <2>3, QuietStep DEF Decide
<1>10. CASE Finish
  <2> DEFINE mo == moment[leg.mom]
             r == [mo EXCEPT !.state = Closing(leg.closure), !.closure = leg.closure]
  <2>1. /\ r \in MomentRow /\ r.state \in {"COMPLETING", "ABORTING"}
        /\ r.phase = mo.phase /\ r.support = mo.support
    BY <1>m, LegFields DEF MomentRow, Closing, States, LiveStates, TeachingInv, TypeOK
  <2>2. /\ \/ moment' = moment
           \/ /\ mo.state \in {"DECIDING_NEXT_ACTION", "OPENING"}
              /\ moment' = [moment EXCEPT ![leg.mom] = r]
        /\ lock' = lock /\ gate' = gate
    BY <1>10 DEF Finish, PutMoment
  <2> HIDE DEF mo, r
  <2> QED BY <1>k, <1>l, <1>m, <1>q, <2>1, <2>2, PutStep DEF LiveStates, mo
<1>11. CASE TerminalizeMoment
  <2> DEFINE mo == moment[leg.mom]
             r == [mo EXCEPT !.state = "TEACHING_TERMINAL"]
  <2>1. mo.state \in {"COMPLETING", "ABORTING"}
    BY <1>11 DEF TerminalizeMoment, TeachingInv, LegKnows, CloseKnows
  <2>2. /\ r \in MomentRow /\ r.state = "TEACHING_TERMINAL"
        /\ r.phase = mo.phase /\ r.support = mo.support
    BY <1>m DEF MomentRow, States
  <2>3. /\ \/ moment' = moment /\ lock' = lock
           \/ /\ moment' = [moment EXCEPT ![leg.mom] = r]
              /\ lock' = IF lock = leg.mom THEN Free ELSE lock
        /\ gate' = gate
    BY <1>11 DEF TerminalizeMoment
  <2> HIDE DEF mo, r
  <2> QED BY <1>k, <1>l, <1>m, <1>q, <2>1, <2>2, <2>3, PutStep DEF LiveStates, mo
<1>12. CASE Resume
  <2> DEFINE mo == moment[leg.mom]
             r == [mo EXCEPT !.state = "RESUMING"]
  <2>1. mo.state = "TEACHING_TERMINAL" /\ lock /= leg.mom
    BY <1>12, <1>l DEF Resume, TeachingInv, LegKnows, CloseKnows, LockIsLive, LiveStates
  <2>2. /\ r \in MomentRow /\ r.state = "RESUMING"
        /\ r.phase = mo.phase /\ r.support = mo.support
    BY <1>m DEF MomentRow, States
  <2>3. /\ (moment' = moment \/ moment' = [moment EXCEPT ![leg.mom] = r])
        /\ lock' = lock /\ gate' = gate
    BY <1>12 DEF Resume
  <2> HIDE DEF mo, r
  <2> QED BY <1>k, <1>l, <1>m, <1>q, <2>1, <2>2, <2>3, PutStep DEF LiveStates, mo
<1>13. CASE ReconcileMomentLadder
  <2> DEFINE o  == FirstAction(leg.msg).mom
             mo == moment[o]
             to == Reconciled(mo, o, turn[leg.msg].first)
             r  == [mo EXCEPT !.state = "AWAITING_USER", !.phase = to.phase,
                              !.support = to.support]
  <2>1. /\ \/ moment' = moment
           \/ /\ mo.state \in ReplyPath /\ to.phase >= mo.phase /\ to.support >= mo.support
              /\ moment' = [moment EXCEPT ![o] = r]
        /\ lock' = lock /\ gate' = gate
    BY <1>13 DEF ReconcileMomentLadder
  <2>2. CASE o \notin Opens
    BY <1>q, <2>1, <2>2 DEF TeachingInv, TypeOK
  <2>3. CASE o \in Opens
    <3> HIDE DEF o
    <3>1. mo \in MomentRow
      BY <2>3 DEF TeachingInv, TypeOK
    <3>2. to.phase \in 0..Explanation /\ to.support \in 0..FullForm
      BY <3>1, ReconciledTyped
    <3> HIDE DEF mo, to
    <3>3. /\ r \in MomentRow /\ r.state = "AWAITING_USER"
          /\ r.phase = to.phase /\ r.support = to.support
      BY <3>1, <3>2 DEF MomentRow, States, LiveStates
    <3> HIDE DEF r
    <3> QED BY <1>k, <1>q, <2>1, <2>3, <3>3, PutStep DEF LiveStates, ReplyPath, mo
  <2> QED BY <2>2, <2>3
<1> QED BY <1>q, <1>1, <1>2, <1>3, <1>4, <1>5, <1>6, <1>7, <1>8, <1>9, <1>10, <1>11,
           <1>12, <1>13
        DEF Next, Step, Start, Fault, RequestTeaching, RespondToTeaching,
            AbortUndeliveredOpenings, Serve, CloseResidualTurn, EnterOpening, RecordCycle,
            ReplayDelivery, BeginDelivery, CreateAction, RunAction, ProduceReply,
            ProduceNothing, SendReply, TranscribeReply, CompleteAction, TerminalizeTurn,
            Undelivered, EnterReply, SettleAction, SettleTurn, AbortLostDelivery

----------------------------------------------------------------------------
(* What the leg knows.                                                     *)

LEMMA KnowsStep ==
    ASSUME TeachingInv, Next
    PROVE  LegKnows'
<1> USE DEF UnchangedBut, stored
<1>k. TurnsKept
  BY TurnsKeptStep DEF TeachingInv
<1>l. /\ leg \in LegRow /\ leg.msg \in Msgs /\ leg.mom \in Opens /\ leg.goal \in Goals
      /\ leg.step \in LadderPlan
  BY LegFields DEF TeachingInv, TypeOK
<1>m. moment[leg.mom] \in MomentRow
  BY <1>l DEF TeachingInv, TypeOK
<1>e. Leave => LegKnows'
  BY LeaveTyped, LeaveKnows DEF TeachingInv
<1>d. LegKnows
  BY DEF TeachingInv
(* Within one delivery only the label changes.                             *)
<1>s. ASSUME pc \in SendLabels, pc' \in SendLabels \cup {"land"}, leg' = leg,
             moment' = moment
      PROVE  LegKnows'
  BY <1>s, <1>d DEF LegKnows, OpeningKnows, ReplyKnows, SendKnows, CloseKnows, OpeningLabels,
                    ReplyLabels, SendLabels
<1>1. CASE Start
  BY <1>1, LeaveKnows DEF Start
<1>2. CASE Fault
  <2>1. CASE Leave
    BY <2>1, <1>e
  <2>2. CASE ~Leave
    BY <1>2, <2>2, LeaveKnows DEF Fault, Goto
  <2> QED BY <2>1, <2>2
<1>3. ASSUME NEW o \in Opens, RequestTeaching(o) PROVE LegKnows'
  <2>1. pc' = "openEntry" /\ leg'.msg = o /\ leg'.goal = "opening"
    BY <1>3 DEF RequestTeaching, FreshLeg
  <2>2. turn'[o].status /= "ABSENT"
    BY <1>3 DEF RequestTeaching, Commit, TeachingInv, TypeOK, TurnRow, Msgs
  <2> QED BY <2>1, <2>2 DEF LegKnows, OpeningKnows, ReplyKnows, SendKnows, CloseKnows,
                            ReplyLabels, SendLabels
<1>4. ASSUME NEW m \in Replies, NEW env \in Envelopes, RespondToTeaching(m, env)
      PROVE  LegKnows'
  <2>1. pc' = "replyEntry" /\ leg'.msg = m
    BY <1>4 DEF RespondToTeaching, FreshLeg
  <2> QED BY <2>1 DEF LegKnows, OpeningKnows, ReplyKnows, SendKnows, CloseKnows,
                      OpeningLabels, ReplyLabels, SendLabels
<1>5. CASE AbortUndeliveredOpenings
  <2>1. pc' = "sweep" \/ (pc' = "finish" /\ leg'.goal = "quiet")
    <3> DEFINE c == Aborted("DELIVERY_FAILURE")
    <3>1. CASE pc' = "sweep"
      BY <3>1
    <3>2. CASE pc' /= "sweep"
      <4>1. c \in Closures /\ pc' = "finish"
            /\ leg' = [leg EXCEPT !.mom = lock, !.goal = "quiet", !.back = "sweep",
                                  !.closure = c]
        BY <1>5, <3>2, ClosuresTyped DEF AbortUndeliveredOpenings, Goto
      <4> HIDE DEF c
      <4> QED BY <1>l, <4>1 DEF LegRow
    <3> QED BY <3>1, <3>2
  <2> QED BY <2>1 DEF LegKnows, OpeningKnows, ReplyKnows, SendKnows, CloseKnows,
                      OpeningLabels, ReplyLabels, SendLabels
<1>6. CASE RecoverOrphanTeachingLocks
  BY <1>6, LeaveKnows DEF RecoverOrphanTeachingLocks, Goto
<1>7. CASE Serve
  BY <1>7, <1>e DEF Serve
<1>8. ASSUME NEW m \in Msgs, CloseResidualTurn(m) PROVE LegKnows'
  BY <1>8, LeaveKnows DEF CloseResidualTurn
<1>9. CASE EnterOpening
  <2>1. leg.msg \in Opens /\ turn[leg.msg].status /= "ABSENT"
    BY <1>9, <1>d DEF EnterOpening, LegKnows, OpeningKnows, OpeningLabels
  <2>o. leg.goal = "opening"
    BY <1>9, <1>d DEF EnterOpening, LegKnows, OpeningKnows, OpeningLabels
  <2>2. CASE pc' = "deliver"
    <3>1. leg' = [leg EXCEPT !.step = OpeningStep]
      BY <1>9, <2>2, LeaveTyped DEF EnterOpening, Goto, TeachingInv
    <3>2. leg'.goal = "opening"
      BY <1>l, <2>o, <3>1 DEF LegRow
    <3> QED BY <2>2, <3>2 DEF LegKnows, OpeningKnows, ReplyKnows, SendKnows, CloseKnows,
                              OpeningLabels, ReplyLabels, SendLabels, Goals
  <2>3. CASE pc' \in {"repair", "cycle"} /\ leg' = leg
    <3>1. /\ moment[leg.msg].state = "ABSENT" /\ moment' = moment
          /\ pc' = "repair" => turn'[leg.msg].cycle > 0
      BY <1>9, <2>1, <2>3, LeaveTyped DEF EnterOpening, Goto, TeachingInv, Recorded
    <3> QED BY <1>k, <1>l, <2>1, <2>o, <2>3, <3>1
            DEF LegKnows, OpeningKnows, ReplyKnows, SendKnows, CloseKnows,
                OpeningLabels, ReplyLabels, SendLabels, TurnsKept
  <2>4. CASE Leave
    BY <2>4, <1>e
  <2> QED BY <1>9, <2>2, <2>3, <2>4 DEF EnterOpening, Goto
<1>10. CASE RecordCycle
  <2>1. /\ leg.msg \in Opens /\ turn[leg.msg].status /= "ABSENT" /\ leg.goal = "opening"
        /\ moment[leg.msg].state = "ABSENT"
    BY <1>10, <1>d DEF RecordCycle, LegKnows, OpeningKnows, OpeningLabels
  <2>2. turn'[leg.msg].cycle > 0 /\ pc' = "openGate" /\ leg' = leg /\ moment' = moment
    BY <1>10, <1>l, TurnPut DEF RecordCycle, Goto, TeachingInv, TypeOK, TurnRow
  <2> QED BY <1>k, <1>l, <2>1, <2>2
          DEF LegKnows, OpeningKnows, ReplyKnows, SendKnows, CloseKnows,
              OpeningLabels, ReplyLabels, SendLabels, TurnsKept
<1>11. CASE OpenTeachingMoment
  <2>1. leg.goal = "opening"
    BY <1>11, <1>d DEF OpenTeachingMoment, LegKnows, OpeningKnows, OpeningLabels
  <2>2. pc' = "deliver" /\ leg'.goal = "opening"
    BY <1>11, <1>l, <2>1 DEF OpenTeachingMoment, LegRow
  <2> QED BY <2>2 DEF LegKnows, OpeningKnows, ReplyKnows, SendKnows, CloseKnows,
                      OpeningLabels, ReplyLabels, SendLabels, Goals
<1>12. ASSUME NEW v \in {"DENY", "DEGRADED", "STALE"}, RefuseOpening(v) PROVE LegKnows'
  <2>1. CASE Leave
    BY <2>1, <1>e
  <2>2. CASE ~Leave
    <3>1. /\ pc = "openGate" /\ turn[leg.msg].cycle = 1 /\ pc' = "repair" /\ leg' = leg
          /\ UNCHANGED <<turn, moment>>
      BY <1>12, <2>2 DEF RefuseOpening, Goto
    <3> QED BY <1>d, <3>1
            DEF LegKnows, OpeningKnows, ReplyKnows, SendKnows, CloseKnows,
                OpeningLabels, ReplyLabels, SendLabels
  <2> QED BY <2>1, <2>2
<1>13. CASE \/ ReplayDelivery \/ BeginDelivery \/ CreateAction \/ ProduceReply
            \/ ProduceNothing \/ SendReply \/ TranscribeReply \/ CompleteAction
  BY <1>13, <1>s DEF ReplayDelivery, BeginDelivery, CreateAction, ProduceReply,
     ProduceNothing, SendReply, TranscribeReply, CompleteAction, Goto, SendLabels
<1>14. CASE RunAction \/ TerminalizeTurn
  BY <1>14, <1>s, <1>e DEF RunAction, TerminalizeTurn, Goto, SendLabels
<1>15. CASE Undelivered
  <2>1. CASE leg.goal = "close"
    BY <1>15, <2>1, <1>s DEF Undelivered, Goto, SendLabels
  <2>2. CASE leg.goal /= "close"
    <3>1. pc' = "finish" /\ leg'.goal \in {"quiet", "close"}
      BY <1>15, <2>2, <1>l DEF Undelivered, LegRow
    <3> QED BY <3>1 DEF LegKnows, OpeningKnows, ReplyKnows, SendKnows, CloseKnows,
                        OpeningLabels, ReplyLabels, SendLabels
  <2> QED BY <2>1, <2>2
<1>16. CASE Land \/ ReconcileMomentLadder
  BY <1>16, <1>e DEF Land, ReconcileMomentLadder
<1>17. CASE EnterReply
  <2>1. CASE pc' \in {"deciding", "evaluate"}
    <3>1. /\ leg' = [leg EXCEPT !.mom = lock] /\ moment[lock].state \in ReplyPath
          /\ moment' = moment /\ leg.msg \in Replies
      BY <1>17, <2>1, <1>d, LeaveTyped
         DEF EnterReply, Goto, LegKnows, ReplyKnows, ReplyLabels, TeachingInv
    <3>2. leg'.msg = leg.msg /\ leg'.mom = lock
      BY <1>l, <3>1 DEF LegRow
    <3> QED BY <2>1, <3>1, <3>2
            DEF LegKnows, OpeningKnows, ReplyKnows, SendKnows, CloseKnows,
                OpeningLabels, ReplyLabels, SendLabels
  <2>2. CASE pc' \notin {"deciding", "evaluate"}
    BY <1>17, <2>2, <1>e, LeaveKnows DEF EnterReply, Goto
  <2> QED BY <2>1, <2>2
<1>18. CASE Evaluate \/ MarkPostReveal \/ AdvanceToDeciding
  <2>1. CASE Leave
    BY <2>1, <1>e
  <2>2. CASE ~Leave
    <3>1. /\ pc \in ReplyLabels /\ pc' \in ReplyLabels /\ leg' = leg
          /\ moment[leg.mom].state \in ReplyPath /\ leg.msg \in Replies
      BY <1>18, <1>d, <2>2 DEF Evaluate, MarkPostReveal, AdvanceToDeciding, PutMoment, Goto,
                               LegKnows, ReplyKnows, ReplyLabels
    <3>2. moment'[leg.mom].state \in ReplyPath
      BY <1>18, <1>l, <1>m, <2>2, <3>1
         DEF Evaluate, MarkPostReveal, AdvanceToDeciding, PutMoment, ReplyPath,
             TeachingInv, TypeOK, MomentRow
    <3> QED BY <3>1, <3>2
            DEF LegKnows, OpeningKnows, ReplyKnows, SendKnows, CloseKnows,
                OpeningLabels, ReplyLabels, SendLabels
  <2> QED BY <2>1, <2>2
<1>19. CASE RecordAttempt
  <2>1. CASE Leave
    BY <2>1, <1>e
  <2>2. CASE ~Leave
    <3>1. /\ pc = "attempt" /\ pc' = "judge" /\ leg' = leg
          /\ moment[leg.mom].state \in ReplyPath /\ leg.msg \in Replies
      BY <1>19, <1>d, <2>2 DEF RecordAttempt, Goto, LegKnows, ReplyKnows, ReplyLabels
    <3>2. moment'[leg.mom].state = moment[leg.mom].state
      BY <1>19, <1>l, <1>m, <2>2
         DEF RecordAttempt, InsertAttempt, TeachingInv, TypeOK, MomentRow
    <3> QED BY <3>1, <3>2
            DEF LegKnows, OpeningKnows, ReplyKnows, SendKnows, CloseKnows,
                OpeningLabels, ReplyLabels, SendLabels
  <2> QED BY <2>1, <2>2
<1>20. ASSUME NEW v \in {"none", "ALLOW", "DEGRADED", "HARD", "POLICY"}, Decide(v)
       PROVE  LegKnows'
  <2> DEFINE d == Decision(leg.mom, leg.env)
             p == IF d.gated THEN AfterGate(d, v) ELSE d
             t == LadderStep(moment[leg.mom], p.kind)
  <2>1. /\ moment' = moment
        /\ \/ pc' = "finish" /\ leg' = [leg EXCEPT !.goal = "close", !.closure = p.closure]
           \/ /\ pc' = "deliver" /\ ~Refused(moment[leg.mom], t)
              /\ leg' = [leg EXCEPT !.goal = "continue", !.kind = p.kind, !.step = t]
           \/ Leave
    BY <1>20 DEF Decide
  <2>2. t \in LadderPlan
    <3>1. p.kind \in Kinds
      BY <1>l, LegFields, DecisionTyped
    <3> HIDE DEF p
    <3> QED BY <1>m, <3>1, LadderStepTyped
  <2>3. moment[leg.mom].state \in ReplyPath
    BY <1>20, <1>d DEF Decide, LegKnows, ReplyKnows, ReplyLabels
  <2> HIDE DEF d, p, t
  <2>4. CASE pc' = "finish" /\ leg' = [leg EXCEPT !.goal = "close", !.closure = p.closure]
    <3>1. leg'.goal = "close"
      BY <1>l, <2>4 DEF LegRow
    <3> QED BY <2>4, <3>1 DEF LegKnows, OpeningKnows, ReplyKnows, SendKnows, CloseKnows,
                              OpeningLabels, ReplyLabels, SendLabels
  <2>5. CASE /\ pc' = "deliver" /\ ~Refused(moment[leg.mom], t)
             /\ leg' = [leg EXCEPT !.goal = "continue", !.kind = p.kind, !.step = t]
    <3>1. leg'.goal = "continue" /\ leg'.step = t /\ leg'.mom = leg.mom
      BY <1>l, <2>5 DEF LegRow
    <3>2. t.phase >= moment[leg.mom].phase /\ t.support >= moment[leg.mom].support
      BY <1>m, <2>2, <2>5, AcceptedGoesForward
    <3> QED BY <2>1, <2>3, <2>5, <3>1, <3>2
            DEF LegKnows, OpeningKnows, ReplyKnows, SendKnows, CloseKnows,
                OpeningLabels, ReplyLabels, SendLabels, Goals
  <2> QED BY <1>e, <2>1, <2>4, <2>5
<1>21. CASE Finish
  <2>1. CASE Leave
    BY <2>1, <1>e
  <2>2. CASE ~Leave
    <3>1. pc' = "terminalize" /\ leg' = leg /\ leg.goal \in {"close", "quiet", "lost"}
      BY <1>21, <1>d, <2>2 DEF Finish, PutMoment, Goto, LegKnows, CloseKnows
    <3>2. moment'[leg.mom].state \in {"COMPLETING", "ABORTING"}
      <4> DEFINE r == [moment[leg.mom] EXCEPT !.state = Closing(leg.closure),
                                             !.closure = leg.closure]
      <4>1. r.state \in {"COMPLETING", "ABORTING"}
        BY <1>m DEF Closing, MomentRow
      <4>2. \/ moment' = [moment EXCEPT ![leg.mom] = r]
            \/ moment' = moment /\ moment[leg.mom].state \in {"COMPLETING", "ABORTING"}
        BY <1>21, <2>2 DEF Finish, PutMoment
      <4> HIDE DEF r
      <4> QED BY <1>l, <4>1, <4>2 DEF TeachingInv, TypeOK
    <3> QED BY <3>1, <3>2
            DEF LegKnows, OpeningKnows, ReplyKnows, SendKnows, CloseKnows,
                OpeningLabels, ReplyLabels, SendLabels
  <2> QED BY <2>1, <2>2
<1>22. CASE TerminalizeMoment
  <2>1. CASE Leave
    BY <2>1, <1>e
  <2>2. CASE ~Leave
    <3>1. /\ pc' = "resume" /\ leg' = leg /\ leg.goal \in {"close", "quiet", "lost"}
          /\ moment'[leg.mom].state = "TEACHING_TERMINAL"
      BY <1>22, <1>d, <1>l, <1>m, <2>2
         DEF TerminalizeMoment, Goto, LegKnows, CloseKnows, TeachingInv, TypeOK, MomentRow
    <3> QED BY <3>1 DEF LegKnows, OpeningKnows, ReplyKnows, SendKnows, CloseKnows,
                        OpeningLabels, ReplyLabels, SendLabels
  <2> QED BY <2>1, <2>2
<1>23. CASE Resume
  <2>1. CASE Leave
    BY <2>1, <1>e
  <2>2. CASE ~Leave
    <3>1. /\ pc' = IF leg.goal = "close" THEN "deliver" ELSE "land"
          /\ leg' = [leg EXCEPT !.step = StepTo(0, 0, "resume")]
          /\ leg.goal \in {"close", "quiet", "lost"}
          /\ moment'[leg.mom].state = "RESUMING"
      BY <1>23, <1>d, <1>l, <1>m, <2>2
         DEF Resume, LegKnows, CloseKnows, TeachingInv, TypeOK, MomentRow
    <3>2. leg'.goal = leg.goal /\ leg'.mom = leg.mom
      BY <1>l, <3>1 DEF LegRow
    <3> QED BY <3>1, <3>2
            DEF LegKnows, OpeningKnows, ReplyKnows, SendKnows, CloseKnows,
                OpeningLabels, ReplyLabels, SendLabels, Goals
  <2> QED BY <2>1, <2>2
<1>24. CASE SettleAction \/ SettleTurn
  BY <1>24, <1>e, LeaveKnows DEF SettleAction, SettleTurn, Goto
<1>25. CASE AbortLostDelivery
  <2>1. Leave \/ (pc' = "finish" /\ leg'.goal = "lost")
    <3>1. CASE lock = Free
      BY <1>25, <3>1 DEF AbortLostDelivery
    <3>2. CASE lock /= Free
      <4> DEFINE c == Aborted("DELIVERY_FAILURE")
      <4>1. c \in Closures /\ pc' = "finish"
            /\ leg' = [leg EXCEPT !.mom = lock, !.goal = "lost", !.closure = c]
        BY <1>25, <3>2, ClosuresTyped DEF AbortLostDelivery
      <4> HIDE DEF c
      <4> QED BY <1>l, <4>1 DEF LegRow
    <3> QED BY <3>1, <3>2
  <2>2. CASE pc' = "finish" /\ leg'.goal = "lost"
    BY <2>2 DEF LegKnows, OpeningKnows, ReplyKnows, SendKnows, CloseKnows,
                OpeningLabels, ReplyLabels, SendLabels
  <2> QED BY <1>e, <2>1, <2>2
<1> QED BY <1>1, <1>2, <1>3, <1>4, <1>5, <1>6, <1>7, <1>8, <1>9, <1>10, <1>11, <1>12,
           <1>13, <1>14, <1>15, <1>16, <1>17, <1>18, <1>19, <1>20, <1>21, <1>22, <1>23,
           <1>24, <1>25
        DEF Next, Step

----------------------------------------------------------------------------
(* The theorems.                                                           *)

LEMMA InvInit == Init => TeachingInv
<1> SUFFICES ASSUME Init PROVE TeachingInv
  OBVIOUS
<1>1. NoLeg \in LegRow /\ NoLeg.todo = {}
  BY FreshLegTyped, AnyOpenIsOpen DEF NoLeg, FreshLeg, Goals, Msgs
<1>2. NoTurn \in TurnRow
  BY DEF NoTurn, TurnRow, TurnStates, NoEnv, Envelope, Intents, Answers
<1>3. NoAct \in ActRow /\ NotSaid \in SaidRow
  BY DEF NoAct, ActRow, ActStates, NotSaid, SaidRow, FullForm
<1>4. /\ NoMoment \in MomentRow /\ NoMoment.state = "ABSENT"
      /\ NoMoment.phase = 0 /\ NoMoment.support = 0 /\ NoMoment.index = 0
  BY ClosuresTyped DEF NoMoment, MomentRow, States, Explanation, FullForm
<1>5. TypeOK
  BY <1>1, <1>2, <1>3, <1>4 DEF Init, TypeOK, Labels, Verdicts
<1>6. LockIsLive /\ Recorded
  BY <1>4, TeachingAssumption DEF Init, LockIsLive, Recorded, LiveStates
<1>7. LegKnows
  BY DEF Init, LegKnows, OpeningKnows, ReplyKnows, SendKnows, CloseKnows, OpeningLabels,
         ReplyLabels, SendLabels
<1> QED BY <1>5, <1>6, <1>7 DEF TeachingInv

LEMMA InvStep == TeachingInv /\ [Next]_vars => TeachingInv' /\ (Forward \/ UNCHANGED vars)
<1> SUFFICES ASSUME TeachingInv, [Next]_vars
             PROVE  TeachingInv' /\ (Forward \/ UNCHANGED vars)
  OBVIOUS
<1>1. CASE Next
  BY <1>1, TypeStep, SafeStep, KnowsStep DEF TeachingInv
<1>2. CASE UNCHANGED vars
  BY <1>2 DEF vars, TeachingInv, TypeOK, LockIsLive, Recorded, LegKnows, OpeningKnows,
              ReplyKnows, SendKnows, CloseKnows
<1> QED BY <1>1, <1>2

LEMMA InvHolds == Spec => []TeachingInv
<1>1. TeachingInv /\ [Next]_vars => TeachingInv'
  BY InvStep
<1> QED BY InvInit, <1>1, PTL DEF Spec

(* Every reachable row and every local of a leg is well typed, in          *)
(* particular the rung a replayed or failing delivery leaves behind is one *)
(* of the ladder (ladder_step, _reconcile_moment_ladder).                  *)
THEOREM TypeCorrect == Spec => []TypeOK
<1>1. TeachingInv => TypeOK
  BY DEF TeachingInv
<1> QED BY InvHolds, <1>1, PTL

(* The lock names a moment exactly while it is live, across every crash,   *)
(* refusal, resent reply and failing write (open_teaching_moment,          *)
(* terminalize_moment, recover_orphan_teaching_locks).                     *)
THEOREM LockMatchesMoment == Spec => []LockIsLive
<1>1. TeachingInv => LockIsLive
  BY DEF TeachingInv
<1> QED BY InvHolds, <1>1, PTL

(* No step lowers a phase or a support level or revives a finished moment  *)
(* (ladder_step_refusal, _deliver_continuation, _reconcile_moment_ladder). *)
THEOREM LadderNeverBack == Spec => LadderOneWay
<1>1. TeachingInv /\ [Next]_vars => [Forward]_vars
  BY InvStep
<1>2. TeachingInv /\ [Next]_vars =>
        [\A o \in Opens :
           /\ moment'[o].phase >= moment[o].phase
           /\ moment'[o].support >= moment[o].support
           /\ moment[o].state \notin LiveStates \cup {"ABSENT"}
                 => moment'[o].state \notin LiveStates]_vars
  BY <1>1 DEF Forward
<1> QED BY InvHolds, <1>2, PTL DEF Spec, LadderOneWay

----------------------------------------------------------------------------
(* The numbers of the attempts.                                            *)

(* Only record_attempt touches the attempts and the counter of a moment.   *)
LEMMA IndexKept ==
    ASSUME TeachingInv, Next, ~RecordAttempt
    PROVE  attempts' = attempts /\ \A o \in Opens : moment'[o].index = moment[o].index
<1> USE DEF UnchangedBut, stored
<1>t. moment \in [Opens -> MomentRow] /\ leg.mom \in Opens
  BY LegFields DEF TeachingInv, TypeOK
<1>r. \A x \in MomentRow : \A s, p, u :
        /\ [x EXCEPT !.state = s].index = x.index
        /\ [x EXCEPT !.state = s, !.support = u].index = x.index
        /\ [x EXCEPT !.state = s, !.phase = p, !.support = u].index = x.index
  BY DEF MomentRow
<1>p. ASSUME NEW q, NEW r, moment' = [moment EXCEPT ![q] = r],
             q \in Opens => r.index = moment[q].index
      PROVE  \A o \in Opens : moment'[o].index = moment[o].index
  BY <1>t, <1>p
<1>1. attempts' = attempts
  BY DEF Next, Step, Start, Fault, RequestTeaching, RespondToTeaching,
         AbortUndeliveredOpenings, RecoverOrphanTeachingLocks, Serve, CloseResidualTurn,
         EnterOpening, RecordCycle, OpenTeachingMoment, RefuseOpening, ReplayDelivery,
         BeginDelivery, CreateAction, RunAction, ProduceReply, ProduceNothing, SendReply,
         TranscribeReply, CompleteAction, TerminalizeTurn, Undelivered, Land, EnterReply,
         Evaluate, MarkPostReveal, AdvanceToDeciding, Decide, Finish, TerminalizeMoment,
         Resume, SettleAction, SettleTurn, AbortLostDelivery, ReconcileMomentLadder
<1>2. CASE moment' = moment
  BY <1>1, <1>2
<1>3. CASE RecoverOrphanTeachingLocks
  BY <1>1, <1>3, <1>t DEF RecoverOrphanTeachingLocks, MomentRow
<1>4. CASE OpenTeachingMoment
  <2>1. leg.msg \in Opens /\ moment[leg.msg].index = 0
    BY <1>4 DEF OpenTeachingMoment, TeachingInv, LegKnows, OpeningKnows, OpeningLabels,
                Recorded
  <2>2. moment' = [moment EXCEPT ![leg.msg] = [NoMoment EXCEPT !.state = "OPENING"]]
        /\ [NoMoment EXCEPT !.state = "OPENING"].index = 0
    BY <1>4 DEF OpenTeachingMoment, NoMoment
  <2> QED BY <1>1, <1>p, <2>1, <2>2
<1>5. CASE Land
  <2>1. Landed(moment[leg.mom]).index = moment[leg.mom].index
    BY <1>r, <1>t DEF Landed
  <2> QED BY <1>1, <1>2, <1>5, <1>p, <1>t, <2>1 DEF Land
<1>6. CASE Evaluate
  BY <1>1, <1>6, <1>t DEF Evaluate, PutMoment, MomentRow
<1>7. CASE MarkPostReveal
  BY <1>1, <1>7, <1>t DEF MarkPostReveal, PutMoment, MomentRow
<1>8. CASE AdvanceToDeciding
  BY <1>1, <1>8, <1>t DEF AdvanceToDeciding, PutMoment, MomentRow
<1>9. CASE Finish
  <2> DEFINE r == [moment[leg.mom] EXCEPT !.state = Closing(leg.closure),
                                         !.closure = leg.closure]
  <2>1. r.index = moment[leg.mom].index
    BY <1>t DEF MomentRow
  <2>2. moment' = moment \/ moment' = [moment EXCEPT ![leg.mom] = r]
    BY <1>9 DEF Finish, PutMoment
  <2> HIDE DEF r
  <2> QED BY <1>1, <1>2, <1>p, <2>1, <2>2
<1>10. CASE TerminalizeMoment
  BY <1>1, <1>10, <1>t DEF TerminalizeMoment, MomentRow
<1>11. CASE Resume
  BY <1>1, <1>11, <1>t DEF Resume, MomentRow
<1>12. CASE ReconcileMomentLadder
  BY <1>1, <1>12, <1>t DEF ReconcileMomentLadder, MomentRow
<1> QED BY <1>2, <1>3, <1>4, <1>5, <1>6, <1>7, <1>8, <1>9, <1>10, <1>11, <1>12
        DEF Next, Step, Start, Fault, RequestTeaching, RespondToTeaching,
            AbortUndeliveredOpenings, Serve, CloseResidualTurn, EnterOpening, RecordCycle,
            RefuseOpening, ReplayDelivery, BeginDelivery, CreateAction, RunAction,
            ProduceReply, ProduceNothing, SendReply, TranscribeReply, CompleteAction,
            TerminalizeTurn, Undelivered, EnterReply, Decide, SettleAction, SettleTurn,
            AbortLostDelivery

AttemptInv == IsFiniteSet(attempts) /\ AttemptsDense

LEMMA InsertKeepsDense ==
    ASSUME TypeOK, AttemptInv, NEW o \in Opens, NEW m \in Replies, InsertAttempt(o, m)
    PROVE  AttemptInv'
<1> DEFINE n == moment[o].index
           seen == CHOOSE s \in Shown(o) : \A t \in Shown(o) : s >= t
           row == [mom |-> o, msg |-> m, index |-> n + 1, support |-> moment[o].support,
                   seen |-> seen]
<1>1. /\ attempts' = attempts \cup {row} /\ row.mom = o /\ row.index = n + 1
      /\ moment' = [moment EXCEPT ![o].index = @ + 1]
  BY DEF InsertAttempt
<1>2. n \in Nat /\ moment'[o].index = n + 1
      /\ \A q \in Opens \ {o} : moment'[q].index = moment[q].index
  BY <1>1 DEF TypeOK, MomentRow
<1> HIDE DEF row, n, seen
<1>3. IsFiniteSet(attempts')
  BY <1>1, FS_AddElement DEF AttemptInv
<1>4. ASSUME NEW q \in Opens, q /= o
      PROVE  /\ {a.index : a \in AttemptsOf(q)'} = 1..moment'[q].index
             /\ Cardinality(AttemptsOf(q)') = moment'[q].index
  <2>1. AttemptsOf(q)' = AttemptsOf(q)
    BY <1>1, <1>4 DEF AttemptsOf
  <2> QED BY <1>2, <1>4, <2>1 DEF AttemptInv, AttemptsDense, AttemptLoad
<1>5. /\ {a.index : a \in AttemptsOf(o)'} = 1..moment'[o].index
      /\ Cardinality(AttemptsOf(o)') = moment'[o].index
  <2>1. AttemptsOf(o)' = AttemptsOf(o) \cup {row}
    BY <1>1 DEF AttemptsOf
  <2>2. {a.index : a \in AttemptsOf(o)} = 1..n /\ Cardinality(AttemptsOf(o)) = n
    BY DEF AttemptInv, AttemptsDense, AttemptLoad, n
  <2>3. row \notin AttemptsOf(o)
    <3>1. row \in AttemptsOf(o) => n + 1 \in 1..n
      BY <1>1, <2>2
    <3> QED BY <1>2, <3>1
  <2>4. IsFiniteSet(AttemptsOf(o))
    BY FS_Subset DEF AttemptInv, AttemptsOf
  <2>5. Cardinality(AttemptsOf(o) \cup {row}) = n + 1
    BY <2>2, <2>3, <2>4, FS_AddElement
  <2>6. {a.index : a \in AttemptsOf(o) \cup {row}} = 1..(n + 1)
    <3>1. {a.index : a \in AttemptsOf(o) \cup {row}} =
            {a.index : a \in AttemptsOf(o)} \cup {n + 1}
      BY <1>1
    <3>2. 1..(n + 1) = (1..n) \cup {n + 1}
      BY <1>2
    <3> QED BY <2>2, <3>1, <3>2
  <2> QED BY <1>2, <2>1, <2>5, <2>6
<1> QED BY <1>3, <1>4, <1>5 DEF AttemptInv, AttemptsDense, AttemptLoad

(* The attempts of a moment are numbered without gap or repeat, for any    *)
(* number of replies, resent or failing halfway (record_attempt).          *)
THEOREM AttemptNumbersDense == Spec => []AttemptsDense
<1>1. Init => AttemptInv
  <2> SUFFICES ASSUME Init PROVE AttemptInv
    OBVIOUS
  <2>1. \A o \in Opens : AttemptsOf(o) = {} /\ moment[o].index = 0
    BY DEF Init, AttemptsOf, NoMoment
  <2>2. IsFiniteSet(attempts) /\ Cardinality({}) = 0
    BY FS_EmptySet DEF Init
  <2> QED BY <2>1, <2>2 DEF AttemptInv, AttemptsDense, AttemptLoad
<1>2. TeachingInv /\ AttemptInv /\ [Next]_vars => AttemptInv'
  <2> SUFFICES ASSUME TeachingInv, AttemptInv, [Next]_vars PROVE AttemptInv'
    OBVIOUS
  <2>1. CASE attempts' = attempts /\ \A o \in Opens : moment'[o].index = moment[o].index
    BY <2>1 DEF AttemptInv, AttemptsDense, AttemptLoad, AttemptsOf
  <2>2. CASE UNCHANGED vars
    BY <2>1, <2>2 DEF vars
  <2>3. CASE Next /\ ~RecordAttempt
    BY <2>1, <2>3, IndexKept
  <2>4. CASE RecordAttempt
    <3>1. leg.mom \in Opens /\ leg.msg \in Replies /\ TypeOK
      BY <2>4, LegFields
         DEF RecordAttempt, TeachingInv, TypeOK, LegKnows, ReplyKnows, ReplyLabels
    <3>2. InsertAttempt(leg.mom, leg.msg) \/ (attempts' = attempts /\ moment' = moment)
      BY <2>4 DEF RecordAttempt
    <3> QED BY <2>1, <3>1, <3>2, InsertKeepsDense
  <2> QED BY <2>2, <2>3, <2>4
<1>3. AttemptInv => AttemptsDense
  BY DEF AttemptInv
<1> QED BY InvHolds, <1>1, <1>2, <1>3, PTL DEF Spec

(* A moment is locked exactly as long as it lives, for any number of       *)
(* moments, replies, deaths and failing writes (teaching/store.py).        *)
THEOREM MomentsStayLocked == Spec => []MomentsAreLocked
<1>1. TypeOK /\ LockIsLive => MomentsAreLocked
  BY DEF MomentsAreLocked
<1> QED BY <1>1, TypeCorrect, LockMatchesMoment, PTL

(* A reply moves its moment only forward and is counted once, however      *)
(* often it is sent (record_attempt, ladder.py).                           *)
THEOREM RepliesNeverGoBack == Spec => RepliesMoveForward
<1> QED BY AttemptNumbersDense, LadderNeverBack, PTL DEF RepliesMoveForward

----------------------------------------------------------------------------
(* What a delivery leaves behind.                                          *)

(* What has been said to the learner: each assistant turn is of an action  *)
(* that exists and, for a reply, of a turn that is past its delivery; only *)
(* a hint or a reveal shows some of the form.                              *)
SpokenSlot(m) == said[m].slot /= "none"

Spoken ==
    /\ IsFiniteSet({m \in Msgs : SpokenSlot(m)})
    /\ \A m \in Msgs : SpokenSlot(m) => act[m][said[m].slot].status /= "ABSENT"
    /\ \A m \in Msgs : said[m].slot \notin {"hint", "reveal"} => said[m].support = 0
    /\ \A m \in Replies : SpokenSlot(m) => turn[m].status \in {"DELIVERING", "DONE"}

(* How far the turn of a reply has come at each label of its leg.          *)
TurnKnows ==
    leg.msg \in Replies =>
        LET status == turn[leg.msg].status
        IN /\ pc \in ReplyLabels => status \in {"DECIDING", "GENERATING"}
           /\ pc \in {"finish", "terminalize", "resume", "deliver"}
                => status \in {"DECIDING", "GENERATING", "DONE"}
           /\ pc \in {"dispatch", "produce", "send", "silent"}
                => status \in {"GENERATING", "DONE"}
           /\ pc \in {"transcribe", "complete", "closeTurn"}
                => status \in {"DELIVERING", "DONE"}
           /\ pc \in {"undelivered", "lost"} => status = "DONE"
           /\ pc /= "openings"

(* What a delivery knows of its action, of its step and of its moment.     *)
HelpSlots    == {"hint", "retry", "reveal", "explanation"}
UnsaidLabels == {"deliver", "dispatch", "produce", "send", "transcribe"}
SaidLabels   == {"complete", "closeTurn", "land"}

ActionKnows ==
    /\ pc \in {"produce", "send", "transcribe"}
         => act[leg.msg][leg.step.slot].status /= "ABSENT"
    /\ pc = "decide" => moment[leg.mom].state = "DECIDING_NEXT_ACTION"
    /\ pc \in UnsaidLabels =>
         CASE leg.goal = "opening" -> leg.step.slot = "teaching-open"
           [] leg.goal = "close"   -> leg.step.slot = "resume"
           [] OTHER                -> leg.step.slot \in HelpSlots
    /\ pc \in SendLabels \cup {"land"} /\ leg.goal = "continue" =>
         /\ leg.msg \in Replies
         /\ moment[leg.mom].state = "DECIDING_NEXT_ACTION"
         /\ pc \in UnsaidLabels => said[leg.msg].slot = "none"
         /\ pc \in {"send", "transcribe"} => act[leg.msg][leg.step.slot].mom = leg.mom

DeliveryInv == Spoken /\ TurnKnows /\ ActionKnows

(* The rung under way is the next one or the one already reached, and the  *)
(* caps were not met when it was chosen; once said, it is covered.         *)
Hints(o) == Delivered(o, {"hint"})

RungKnows ==
    leg.goal = "continue" =>
        /\ pc \in UnsaidLabels =>
             /\ leg.step.phase \in 1..3 =>
                  leg.step.phase = moment[leg.mom].phase
                      + IF leg.step.slot = "hint" THEN 1 ELSE 0
             /\ leg.step.slot \in {"hint", "retry"} => AttemptLoad(leg.mom) < HardAttempts
             /\ leg.step.slot \in {"hint", "retry", "explanation"}
                  => TurnLoad(leg.mom) < HardTurns
        /\ pc \in SaidLabels /\ leg.step.phase \in 1..3
             => leg.step.phase <= Cardinality(Hints(leg.mom))

RungInv == RungsWereShown /\ RungKnows

(* An action once created stays, with its moment; a turn that is being     *)
(* delivered or is over does not go back.                                  *)
ActsKept ==
    \A m \in Msgs, s \in Slots :
        act[m][s].status /= "ABSENT" =>
            /\ act'[m][s].status /= "ABSENT"
            /\ s /= "teaching-open" \/ pc /= "openGate" => act'[m][s].mom = act[m][s].mom

TurnsAhead ==
    \A m \in Msgs : turn[m].status \in {"DELIVERING", "DONE"} =>
                        turn'[m].status \in {"DELIVERING", "DONE"}

LEMMA ActsKeptStep ==
    ASSUME TypeOK, Next
    PROVE  ActsKept
<1> USE DEF UnchangedBut, stored
<1>l. leg.msg \in Msgs
  BY LegFields DEF TypeOK
<1>a. act \in [Msgs -> [Slots -> ActRow]]
  BY DEF TypeOK
<1>s. ASSUME NEW m \in Msgs, NEW w, NEW st, st /= "ABSENT",
             act' = [act EXCEPT ![m][w].status = st]
      PROVE  ActsKept
  <2>1. \A x \in ActRow : /\ [x EXCEPT !.status = st].status = st
                          /\ [x EXCEPT !.status = st].mom = x.mom
    BY DEF ActRow
  <2>2. \A n \in Msgs, s \in Slots :
           act'[n][s] = IF n = m /\ s = w THEN [act[n][s] EXCEPT !.status = st] ELSE act[n][s]
    BY <1>a, <1>s
  <2>3. \A n \in Msgs, s \in Slots : act[n][s] \in ActRow
    BY <1>a
  <2> QED BY <1>s, <2>1, <2>2, <2>3 DEF ActsKept
<1>1. CASE act' = act
  BY <1>1 DEF ActsKept
<1>2. CASE OpenTeachingMoment
  <2> DEFINE row == [status |-> "PREPARED", owner |-> epoch, mom |-> leg.msg]
  <2>1. /\ act' = [act EXCEPT ![leg.msg]["teaching-open"] = row]
        /\ row.status = "PREPARED" /\ pc = "openGate"
    BY <1>2 DEF OpenTeachingMoment
  <2> HIDE DEF row
  <2>2. \A n \in Msgs, s \in Slots :
           act'[n][s] = IF n = leg.msg /\ s = "teaching-open" THEN row ELSE act[n][s]
    BY <1>a, <1>l, <2>1
  <2> QED BY <2>1, <2>2 DEF ActsKept
<1>3. CASE CreateAction
  <2> DEFINE row == [status |-> "PREPARED", owner |-> epoch, mom |-> leg.mom]
  <2>1. /\ act' = [act EXCEPT ![leg.msg][leg.step.slot] = row]
        /\ act[leg.msg][leg.step.slot].status = "ABSENT"
    BY <1>3 DEF CreateAction
  <2> HIDE DEF row
  <2>2. \A n \in Msgs, s \in Slots :
           act[n][s].status /= "ABSENT" => act'[n][s] = act[n][s]
    BY <1>a, <1>l, <2>1
  <2> QED BY <2>2 DEF ActsKept
<1>4. CASE RunAction \/ ProduceReply \/ ProduceNothing \/ CompleteAction
  BY <1>1, <1>4, <1>l, <1>s
     DEF RunAction, ProduceReply, ProduceNothing, CompleteAction, ActStatus
<1>5. CASE SettleAction
  BY <1>1, <1>5, <1>l, <1>s DEF SettleAction
<1> QED BY <1>1, <1>2, <1>3, <1>4, <1>5
        DEF Next, Step, Start, Fault, RequestTeaching, RespondToTeaching,
            AbortUndeliveredOpenings, RecoverOrphanTeachingLocks, Serve, CloseResidualTurn,
            EnterOpening, RecordCycle, RefuseOpening, ReplayDelivery, BeginDelivery,
            SendReply, TranscribeReply, TerminalizeTurn, Undelivered, Land, EnterReply,
            Evaluate, RecordAttempt, MarkPostReveal, AdvanceToDeciding, Decide, Finish,
            TerminalizeMoment, Resume, SettleTurn, AbortLostDelivery, ReconcileMomentLadder

LEMMA TurnsAheadStep ==
    ASSUME TypeOK, LegKnows, Next
    PROVE  TurnsAhead
<1> USE DEF UnchangedBut, stored
<1>l. leg.msg \in Msgs
  BY LegFields DEF TypeOK
<1>t. turn \in [Msgs -> TurnRow] /\ \A m \in Msgs : turn[m] \in TurnRow
  BY DEF TypeOK
<1>s. ASSUME NEW m \in Msgs, NEW st, turn' = [turn EXCEPT ![m].status = st],
             turn[m].status \notin {"DELIVERING", "DONE"} \/ st \in {"DELIVERING", "DONE"}
      PROVE  TurnsAhead
  BY <1>s, <1>t DEF TurnsAhead, TurnRow
<1>1. CASE \A m \in Msgs : turn'[m].status = turn[m].status
  BY <1>1 DEF TurnsAhead
<1>2. ASSUME NEW m \in Msgs, NEW env, NEW c, Commit(m, env, c) PROVE TurnsAhead
  <2>1. CASE turn[m].status = "ABSENT"
    BY <1>2, <1>t, <2>1 DEF Commit, TurnsAhead
  <2>2. CASE turn[m].status /= "ABSENT"
    <3>1. turn' = [turn EXCEPT ![m] =
                     [turn[m] EXCEPT !.owner = IF Live(m) /\ c THEN epoch ELSE turn[m].owner]]
      BY <1>2, <2>2 DEF Commit
    <3> QED BY <1>t, <3>1 DEF TurnsAhead, TurnRow
  <2> QED BY <2>1, <2>2
<1>3. CASE \/ \E o \in Opens : RequestTeaching(o)
           \/ \E m \in Replies, env \in Envelopes : RespondToTeaching(m, env)
  BY <1>2, <1>3, <1>l DEF RequestTeaching, RespondToTeaching, Msgs
<1>4. CASE AbortUndeliveredOpenings
  <2>1. CASE turn' = turn
    BY <1>1, <2>1
  <2>2. CASE turn' = [turn EXCEPT ![lock].owner = IF Live(lock) THEN epoch ELSE @]
    BY <1>t, <2>2 DEF TurnsAhead, TurnRow
  <2> QED BY <1>4, <2>1, <2>2 DEF AbortUndeliveredOpenings
<1>5. ASSUME NEW m \in Msgs, CloseResidualTurn(m) PROVE TurnsAhead
  <2>1. CASE turn' = [turn EXCEPT ![m] = [@ EXCEPT !.status = "DONE", !.owner = epoch]]
    BY <1>t, <2>1 DEF TurnsAhead, TurnRow
  <2>2. CASE turn' = [turn EXCEPT ![m] = @]
    BY <1>t, <2>2 DEF TurnsAhead
  <2> QED BY <1>5, <2>1, <2>2 DEF CloseResidualTurn
<1>6. CASE EnterOpening
  BY <1>1, <1>6, <1>l, <1>s DEF EnterOpening, TurnStatus
<1>7. CASE RecordCycle
  BY <1>7, <1>l, <1>t DEF RecordCycle, TurnsAhead, TurnRow
<1>8. CASE OpenTeachingMoment
  BY <1>8, <1>l, <1>t DEF OpenTeachingMoment, TurnsAhead, TurnRow
<1>9. CASE ReplayDelivery
  BY <1>9, <1>l, <1>s DEF ReplayDelivery
<1>10. CASE BeginDelivery
  BY <1>10, <1>l, <1>t DEF BeginDelivery, TurnsAhead, TurnRow
<1>11. CASE CreateAction
  BY <1>11, <1>l, <1>t DEF CreateAction, TurnsAhead, TurnRow
<1>12. CASE SendReply
  BY <1>12, <1>l, <1>t DEF SendReply, TurnsAhead, TurnRow
<1>13. CASE TerminalizeTurn
  BY <1>1, <1>13, <1>l, <1>s DEF TerminalizeTurn, TurnStatus
<1>14. CASE EnterReply
  BY <1>14, <1>l, <1>t DEF EnterReply, TurnsAhead, TurnRow
<1>15. CASE SettleTurn
  <2>1. turn' = [turn EXCEPT ![leg.msg] = [@ EXCEPT !.owner = epoch, !.status = "DONE"]]
    BY <1>15 DEF SettleTurn
  <2> QED BY <1>l, <1>t, <2>1 DEF TurnsAhead, TurnRow
<1>16. CASE turn' = turn
  BY <1>1, <1>16
<1> QED BY <1>3, <1>4, <1>5, <1>6, <1>7, <1>8, <1>9, <1>10, <1>11, <1>12,
           <1>13, <1>14, <1>15, <1>16
        DEF Next, Step, Start, Fault, RecoverOrphanTeachingLocks, Serve, RefuseOpening,
            RunAction, ProduceReply, ProduceNothing, TranscribeReply, CompleteAction,
            Undelivered, Land, Evaluate, RecordAttempt, MarkPostReveal,
            AdvanceToDeciding, Decide, Finish, TerminalizeMoment, Resume, SettleAction,
            AbortLostDelivery, ReconcileMomentLadder

LEMMA SpokenStep ==
    ASSUME TypeOK, LegKnows, DeliveryInv, Next
    PROVE  Spoken'
<1>k. ActsKept /\ TurnsAhead
  BY ActsKeptStep, TurnsAheadStep
<1>l. leg.msg \in Msgs
  BY LegFields DEF TypeOK
<1>t. \A m \in Msgs : said[m] \in SaidRow /\ said[m].slot \in Slots \cup {"none"}
  BY DEF TypeOK, SaidRow
<1>1. CASE said' = said
  BY <1>1, <1>k, <1>t
     DEF DeliveryInv, Spoken, SpokenSlot, ActsKept, TurnsAhead, Msgs
<1>2. CASE TranscribeReply
  <2> DEFINE row == [slot |-> leg.step.slot, support |-> Shows(leg.step)]
  <2>1. /\ \A m \in Msgs \ {leg.msg} : said'[m] = said[m]
        /\ said'[leg.msg] = IF SpokenSlot(leg.msg) THEN said[leg.msg] ELSE row
    BY <1>2, <1>l DEF TranscribeReply, TypeOK, SpokenSlot
  <2>2. act' = act /\ turn' = turn /\ row.slot = leg.step.slot
        /\ (row.slot \notin {"hint", "reveal"} => row.support = 0)
    BY <1>2 DEF TranscribeReply, Shows
  <2>3. act[leg.msg][leg.step.slot].status /= "ABSENT"
        /\ (leg.msg \in Replies => turn[leg.msg].status \in {"DELIVERING", "DONE"})
    BY <1>2 DEF TranscribeReply, DeliveryInv, TurnKnows, ActionKnows
  <2>4. IsFiniteSet({m \in Msgs : SpokenSlot(m)}')
    <3>1. IsFiniteSet({m \in Msgs : SpokenSlot(m)} \cup {leg.msg})
      BY FS_AddElement DEF DeliveryInv, Spoken
    <3>2. {m \in Msgs : SpokenSlot(m)}' \subseteq {m \in Msgs : SpokenSlot(m)} \cup {leg.msg}
      BY <2>1 DEF SpokenSlot
    <3> QED BY <3>1, <3>2, FS_Subset
  <2> HIDE DEF row
  <2>5. ASSUME NEW m \in Msgs
        PROVE  /\ SpokenSlot(m)' => act'[m][said'[m].slot].status /= "ABSENT"
               /\ said'[m].slot \notin {"hint", "reveal"} => said'[m].support = 0
               /\ m \in Replies /\ SpokenSlot(m)' => turn'[m].status \in {"DELIVERING", "DONE"}
    <3>1. CASE said'[m] = said[m]
      BY <2>2, <3>1 DEF DeliveryInv, Spoken, SpokenSlot
    <3>2. CASE m = leg.msg /\ said'[m] = row
      BY <2>2, <2>3, <3>2
    <3> QED BY <2>1, <3>1, <3>2
  <2> QED BY <2>4, <2>5 DEF Spoken, Msgs
<1> QED BY <1>1, <1>2
        DEF Next, Step, stored, Start, Fault, RequestTeaching, RespondToTeaching,
            AbortUndeliveredOpenings, RecoverOrphanTeachingLocks, Serve, CloseResidualTurn,
            EnterOpening, RecordCycle, OpenTeachingMoment, RefuseOpening, ReplayDelivery,
            BeginDelivery, CreateAction, RunAction, ProduceReply, ProduceNothing, SendReply,
            CompleteAction, TerminalizeTurn, Undelivered, Land, EnterReply, Evaluate,
            RecordAttempt, MarkPostReveal, AdvanceToDeciding, Decide, Finish,
            TerminalizeMoment, Resume, SettleAction, SettleTurn, AbortLostDelivery,
            ReconcileMomentLadder

LEMMA RestKnows ==
    ASSUME pc' \notin ReplyLabels \cup SendLabels
                        \cup {"finish", "terminalize", "resume", "land", "lost", "openings"}
    PROVE  TurnKnows' /\ ActionKnows'
  BY DEF TurnKnows, ActionKnows, ReplyLabels, SendLabels, UnsaidLabels

LEMMA LeaveRests ==
    ASSUME TypeOK, Leave
    PROVE  TurnKnows' /\ ActionKnows'
  BY LeaveTyped, RestKnows DEF ReplyLabels, SendLabels

(* The replies of a leg before it delivers.                                *)
LEMMA DecidingKnowsStep ==
    ASSUME TypeOK, LegKnows, DeliveryInv,
           \/ EnterReply \/ Evaluate \/ RecordAttempt \/ MarkPostReveal \/ AdvanceToDeciding
           \/ \E v \in {"none", "ALLOW", "DEGRADED", "HARD", "POLICY"} : Decide(v)
    PROVE  TurnKnows' /\ ActionKnows'
<1> USE DEF UnchangedBut, stored
<1>l. /\ leg \in LegRow /\ leg.msg \in Msgs /\ leg.mom \in Opens
      /\ moment \in [Opens -> MomentRow] /\ moment[leg.mom] \in MomentRow
      /\ turn \in [Msgs -> TurnRow] /\ turn[leg.msg] \in TurnRow
  BY LegFields DEF TypeOK
<1>e. Leave => TurnKnows' /\ ActionKnows'
  BY LeaveRests
<1>1. CASE EnterReply
  <2>1. CASE pc' \in {"deciding", "evaluate"}
    <3>1. /\ leg' = [leg EXCEPT !.mom = lock]
          /\ turn[leg.msg].status \in {"USER_COMMITTED", "DECIDING", "GENERATING"}
          /\ turn' = [turn EXCEPT ![leg.msg].status =
                        IF @ = "USER_COMMITTED" THEN "DECIDING" ELSE @]
      BY <1>1, <2>1, LeaveTyped DEF EnterReply, Goto
    <3>2. leg'.msg = leg.msg /\ turn'[leg.msg].status \in {"DECIDING", "GENERATING"}
      BY <1>l, <3>1 DEF LegRow, TurnRow
    <3> QED BY <2>1, <3>2
            DEF TurnKnows, ActionKnows, ReplyLabels, SendLabels, UnsaidLabels
  <2>2. CASE pc' \notin {"deciding", "evaluate"}
    BY <1>1, <1>e, <2>2, RestKnows DEF EnterReply, Goto, ReplyLabels, SendLabels
  <2> QED BY <2>1, <2>2
<1>2. ASSUME pc \in ReplyLabels, pc' \in ReplyLabels \ {"decide"}, leg' = leg, turn' = turn
      PROVE  TurnKnows' /\ ActionKnows'
  BY <1>2 DEF DeliveryInv, TurnKnows, ActionKnows, ReplyLabels, SendLabels, UnsaidLabels
<1>3. CASE Evaluate \/ RecordAttempt \/ MarkPostReveal
  BY <1>2, <1>3, <1>e
     DEF Evaluate, RecordAttempt, MarkPostReveal, PutMoment, Goto, ReplyLabels
<1>4. CASE AdvanceToDeciding
  <2>1. CASE Leave
    BY <1>e, <2>1
  <2>2. CASE ~Leave /\ moment[leg.mom].state = "AWAITING_USER"
    BY <1>2, <1>4, <2>2 DEF AdvanceToDeciding, PutMoment, Goto, ReplyLabels
  <2>3. CASE ~Leave /\ moment[leg.mom].state /= "AWAITING_USER"
    <3>1. /\ pc = "deciding" /\ pc' = "decide" /\ leg' = leg /\ turn' = turn
          /\ moment' = [moment EXCEPT ![leg.mom] =
                          [moment[leg.mom] EXCEPT !.state = IF @ = "AWAITING_USER"
                                                            THEN "EVALUATING"
                                                            ELSE "DECIDING_NEXT_ACTION"]]
      BY <1>4, <2>3 DEF AdvanceToDeciding, PutMoment, Goto
    <3>2. moment'[leg.mom].state = "DECIDING_NEXT_ACTION"
      BY <1>l, <2>3, <3>1 DEF MomentRow
    <3> QED BY <3>1, <3>2
            DEF DeliveryInv, TurnKnows, ActionKnows, ReplyLabels, SendLabels, UnsaidLabels
  <2> QED BY <2>1, <2>2, <2>3
<1>5. ASSUME NEW v \in {"none", "ALLOW", "DEGRADED", "HARD", "POLICY"}, Decide(v)
      PROVE  TurnKnows' /\ ActionKnows'
  <2> DEFINE d == Decision(leg.mom, leg.env)
             p == IF d.gated THEN AfterGate(d, v) ELSE d
             t == LadderStep(moment[leg.mom], p.kind)
  <2>1. /\ UNCHANGED <<moment, turn, said, act>> /\ pc = "decide"
        /\ \/ pc' = "finish" /\ leg' = [leg EXCEPT !.goal = "close", !.closure = p.closure]
           \/ /\ pc' = "deliver"
              /\ leg' = [leg EXCEPT !.goal = "continue", !.kind = p.kind, !.step = t]
           \/ Leave
    BY <1>5 DEF Decide
  <2>2. t.slot \in HelpSlots
    BY DEF LadderStep, StepTo, HelpSlots
  <2>3. /\ leg.msg \in Replies /\ turn[leg.msg].status \in {"DECIDING", "GENERATING"}
        /\ moment[leg.mom].state = "DECIDING_NEXT_ACTION"
    BY <2>1 DEF LegKnows, ReplyKnows, DeliveryInv, TurnKnows, ActionKnows, ReplyLabels
  <2> HIDE DEF d, p, t
  <2>4. CASE pc' = "finish" /\ leg' = [leg EXCEPT !.goal = "close", !.closure = p.closure]
    <3>1. leg'.msg = leg.msg
      BY <1>l, <2>4 DEF LegRow
    <3> QED BY <2>1, <2>3, <2>4, <3>1
            DEF TurnKnows, ActionKnows, ReplyLabels, SendLabels, UnsaidLabels
  <2>5. CASE /\ pc' = "deliver"
             /\ leg' = [leg EXCEPT !.goal = "continue", !.kind = p.kind, !.step = t]
    <3>1. leg'.goal = "continue" /\ leg'.step = t /\ leg'.mom = leg.mom /\ leg'.msg = leg.msg
      BY <1>l, <2>5 DEF LegRow
    <3>2. said[leg.msg].slot = "none"
      BY <2>3 DEF DeliveryInv, Spoken, SpokenSlot, Msgs
    <3>3. TurnKnows'
      BY <2>1, <2>3, <2>5, <3>1 DEF TurnKnows, ReplyLabels
    <3>4. ActionKnows'
      BY <2>1, <2>2, <2>3, <2>5, <3>1, <3>2
         DEF ActionKnows, SendLabels, UnsaidLabels
    <3> QED BY <3>3, <3>4
  <2> QED BY <1>e, <2>1, <2>4, <2>5
<1> QED BY <1>1, <1>3, <1>4, <1>5

(* ... and while it delivers.                                              *)
LEMMA DeliveringKnowsStep ==
    ASSUME TypeOK, LockIsLive, LegKnows, DeliveryInv,
           \/ ReplayDelivery \/ BeginDelivery \/ CreateAction \/ RunAction \/ ProduceReply
           \/ ProduceNothing \/ SendReply \/ TranscribeReply \/ CompleteAction
           \/ TerminalizeTurn \/ Undelivered
    PROVE  TurnKnows' /\ ActionKnows'
<1> USE DEF UnchangedBut, stored
<1>l. /\ leg \in LegRow /\ leg.msg \in Msgs /\ leg.mom \in Opens
      /\ turn \in [Msgs -> TurnRow] /\ turn[leg.msg] \in TurnRow
      /\ act \in [Msgs -> [Slots -> ActRow]]
  BY LegFields DEF TypeOK
<1>e. Leave => TurnKnows' /\ ActionKnows'
  BY LeaveRests
<1>t. \A st : turn' = [turn EXCEPT ![leg.msg].status = st] => turn'[leg.msg].status = st
  BY <1>l DEF TurnRow
<1>u. leg.step.slot \in Slots => \A st : ActStatus(leg.msg, leg.step.slot, st) =>
          /\ act'[leg.msg][leg.step.slot].status = st
          /\ act'[leg.msg][leg.step.slot].mom = act[leg.msg][leg.step.slot].mom
  BY <1>l DEF ActStatus, ActRow
<1>g. /\ pc \in SendLabels => leg.goal \in {"opening", "continue", "close"}
      /\ pc \in UnsaidLabels => leg.step.slot \in Slots
  BY DEF DeliveryInv, ActionKnows, LegKnows, SendKnows, HelpSlots, Slots, UnsaidLabels,
         SendLabels
<1>1. CASE ReplayDelivery
  <2>1. /\ leg' = leg /\ moment' = moment /\ said' = said /\ act' = act /\ pc = "deliver"
        /\ turn'[leg.msg].status = "DONE"
        /\ pc' = IF said[leg.msg].slot /= "none" THEN "land" ELSE "undelivered"
    BY <1>1, <1>t DEF ReplayDelivery, Goto
  <2> QED BY <2>1
          DEF DeliveryInv, TurnKnows, ActionKnows, ReplyLabels, SendLabels, UnsaidLabels
<1>2. CASE BeginDelivery
  <2>1. /\ leg' = leg /\ moment' = moment /\ said' = said /\ act' = act
        /\ pc = "deliver" /\ pc' = "dispatch"
        /\ turn'[leg.msg].status = IF turn[leg.msg].status = "DECIDING" THEN "GENERATING"
                                   ELSE turn[leg.msg].status
    BY <1>2, <1>l DEF BeginDelivery, Goto, TurnRow
  <2> QED BY <2>1
          DEF DeliveryInv, TurnKnows, ActionKnows, ReplyLabels, SendLabels, UnsaidLabels
<1>3. CASE CreateAction
  <2>1. /\ leg' = leg /\ moment' = moment /\ said' = said
        /\ pc = "dispatch" /\ pc' = "dispatch"
        /\ turn'[leg.msg].status = turn[leg.msg].status
    BY <1>3, <1>l DEF CreateAction, TurnRow
  <2> QED BY <2>1
          DEF DeliveryInv, TurnKnows, ActionKnows, ReplyLabels, SendLabels, UnsaidLabels
<1>4. CASE RunAction
  <2>1. CASE Leave
    BY <1>e, <2>1
  <2>2. CASE ~Leave
    <3>1. /\ leg' = leg /\ moment' = moment /\ said' = said /\ turn' = turn
          /\ pc = "dispatch" /\ pc' = "produce" /\ ActStatus(leg.msg, leg.step.slot, "RUNNING")
      BY <1>4, <2>2 DEF RunAction, Goto
    <3>2. act'[leg.msg][leg.step.slot].status = "RUNNING"
      BY <1>g, <1>u, <3>1 DEF UnsaidLabels
    <3> QED BY <3>1, <3>2
            DEF DeliveryInv, TurnKnows, ActionKnows, ReplyLabels, SendLabels, UnsaidLabels
  <2> QED BY <2>1, <2>2
<1>5. CASE ProduceReply
  <2>1. /\ leg' = leg /\ moment' = moment /\ said' = said /\ turn' = turn
        /\ pc = "produce" /\ pc' = "send" /\ ActStatus(leg.msg, leg.step.slot, "DELIVERING")
        /\ leg.step.slot /= "resume" => lock = act[leg.msg][leg.step.slot].mom
    BY <1>5 DEF ProduceReply, Goto, Invalidated
  <2>2. /\ act'[leg.msg][leg.step.slot].status = "DELIVERING"
        /\ act'[leg.msg][leg.step.slot].mom = act[leg.msg][leg.step.slot].mom
    BY <1>g, <1>u, <2>1 DEF UnsaidLabels
  <2>3. leg.goal = "continue" => leg.step.slot \in HelpSlots /\ lock = leg.mom
    <3>1. leg.goal = "continue" => /\ leg.step.slot \in HelpSlots
                                   /\ moment[leg.mom].state = "DECIDING_NEXT_ACTION"
      BY <2>1 DEF DeliveryInv, ActionKnows, UnsaidLabels, SendLabels
    <3> QED BY <1>l, <3>1 DEF LockIsLive, LiveStates
  <2> QED BY <2>1, <2>2, <2>3
          DEF DeliveryInv, TurnKnows, ActionKnows, ReplyLabels, SendLabels, UnsaidLabels,
              HelpSlots
<1>6. CASE ProduceNothing
  <2>1. /\ leg' = leg /\ moment' = moment /\ said' = said /\ turn' = turn
        /\ pc = "produce" /\ pc' = "silent"
    BY <1>6 DEF ProduceNothing, Goto
  <2> QED BY <2>1
          DEF DeliveryInv, TurnKnows, ActionKnows, ReplyLabels, SendLabels, UnsaidLabels
<1>7. CASE SendReply
  <2>1. /\ leg' = leg /\ moment' = moment /\ said' = said /\ act' = act
        /\ pc = "send" /\ pc' = "transcribe"
        /\ turn'[leg.msg].status = IF turn[leg.msg].status = "GENERATING" THEN "DELIVERING"
                                   ELSE turn[leg.msg].status
    BY <1>7, <1>l DEF SendReply, Goto, TurnRow
  <2> QED BY <2>1
          DEF DeliveryInv, TurnKnows, ActionKnows, ReplyLabels, SendLabels, UnsaidLabels
<1>8. CASE TranscribeReply \/ CompleteAction
  <2>1. /\ leg' = leg /\ moment' = moment /\ turn' = turn
        /\ pc \in {"transcribe", "complete"} /\ pc' \in {"complete", "closeTurn"}
    BY <1>8 DEF TranscribeReply, CompleteAction, Goto
  <2> QED BY <2>1
          DEF DeliveryInv, TurnKnows, ActionKnows, ReplyLabels, SendLabels, UnsaidLabels
<1>9. CASE TerminalizeTurn
  <2>1. CASE Leave
    BY <1>e, <2>1
  <2>2. CASE ~Leave
    <3>1. /\ leg' = leg /\ moment' = moment /\ said' = said
          /\ pc \in SendLabels /\ pc' \in {"undelivered", "land"}
          /\ turn'[leg.msg].status = "DONE"
      BY <1>9, <1>t, <2>2 DEF TerminalizeTurn, TurnStatus, Goto, SendLabels
    <3> QED BY <3>1
            DEF DeliveryInv, TurnKnows, ActionKnows, ReplyLabels, SendLabels, UnsaidLabels
  <2> QED BY <2>1, <2>2
<1>10. CASE Undelivered
  <2> DEFINE c == Aborted("DELIVERY_FAILURE")
             g == IF leg.goal = "opening" THEN "quiet" ELSE "close"
  <2>1. /\ moment' = moment /\ said' = said /\ turn' = turn /\ pc = "undelivered"
        /\ \/ pc' = "land" /\ leg' = leg /\ leg.goal = "close"
           \/ pc' = "finish" /\ leg' = [leg EXCEPT !.goal = g, !.closure = c]
    BY <1>10 DEF Undelivered, Goto
  <2> HIDE DEF c, g
  <2>2. leg'.msg = leg.msg
    BY <1>l, <2>1 DEF LegRow
  <2> QED BY <2>1, <2>2
          DEF DeliveryInv, TurnKnows, ActionKnows, ReplyLabels, SendLabels, UnsaidLabels
<1> QED BY <1>1, <1>2, <1>3, <1>4, <1>5, <1>6, <1>7, <1>8, <1>9, <1>10

LEMMA DeliveryStep ==
    ASSUME TypeOK, LockIsLive, LegKnows, DeliveryInv, Next
    PROVE  DeliveryInv'
<1> SUFFICES TurnKnows' /\ ActionKnows'
  BY SpokenStep DEF DeliveryInv
<1> USE DEF UnchangedBut, stored
<1>l. /\ leg \in LegRow /\ leg.msg \in Msgs /\ leg.mom \in Opens
      /\ turn \in [Msgs -> TurnRow] /\ turn[leg.msg] \in TurnRow
  BY LegFields DEF TypeOK
<1>e. Leave => TurnKnows' /\ ActionKnows'
  BY LeaveRests
<1>o. Opens \cap Replies = {}
  BY TeachingAssumption
<1>1. CASE Start
  <2>1. pc' = "openings" /\ leg'.msg \in Opens
    BY <1>1, AnyOpenIsOpen DEF Start, FreshLeg
  <2> QED BY <1>o, <2>1 DEF TurnKnows, ActionKnows, ReplyLabels, SendLabels, UnsaidLabels
<1>2. CASE Fault
  BY <1>2, <1>e, RestKnows DEF Fault, Goto, ReplyLabels, SendLabels
<1>3. CASE \/ \E o \in Opens : RequestTeaching(o)
           \/ \E m \in Msgs : CloseResidualTurn(m)
           \/ \E m \in Replies, env \in Envelopes : RespondToTeaching(m, env)
  BY <1>3, RestKnows
     DEF RequestTeaching, CloseResidualTurn, RespondToTeaching, ReplyLabels, SendLabels
<1>4. CASE AbortUndeliveredOpenings
  <2> DEFINE c == Aborted("DELIVERY_FAILURE")
  <2>1. /\ pc = "openings"
        /\ \/ pc' = "sweep"
           \/ /\ pc' = "finish"
              /\ leg' = [leg EXCEPT !.mom = lock, !.goal = "quiet", !.back = "sweep",
                                    !.closure = c]
    BY <1>4 DEF AbortUndeliveredOpenings, Goto
  <2> HIDE DEF c
  <2>2. CASE pc' = "sweep"
    BY <2>2, RestKnows DEF ReplyLabels, SendLabels
  <2>3. CASE pc' /= "sweep"
    <3>1. leg'.msg = leg.msg
      BY <1>l, <2>1, <2>3 DEF LegRow
    <3> QED BY <2>1, <2>3, <3>1
            DEF DeliveryInv, TurnKnows, ActionKnows, ReplyLabels, SendLabels, UnsaidLabels
  <2> QED BY <2>2, <2>3
<1>5. CASE RecoverOrphanTeachingLocks \/ RecordCycle
           \/ \E v \in {"DENY", "DEGRADED", "STALE"} : RefuseOpening(v)
  BY <1>5, <1>e, RestKnows
     DEF RecoverOrphanTeachingLocks, RecordCycle, RefuseOpening, Goto, ReplyLabels, SendLabels
<1>6. CASE Serve \/ Land \/ ReconcileMomentLadder
  BY <1>6, <1>e DEF Serve, Land, ReconcileMomentLadder
<1>7. CASE EnterOpening \/ OpenTeachingMoment
  <2>1. CASE pc' /= "deliver"
    BY <1>7, <1>e, <2>1, RestKnows
       DEF EnterOpening, OpenTeachingMoment, Goto, ReplyLabels, SendLabels
  <2>2. CASE pc' = "deliver"
    <3>1. leg.msg \in Opens /\ leg.goal = "opening" /\ leg' = [leg EXCEPT !.step = OpeningStep]
      BY <1>7, <2>2, LeaveTyped
         DEF EnterOpening, OpenTeachingMoment, Goto, LegKnows, OpeningKnows, OpeningLabels
    <3>2. /\ leg'.msg = leg.msg /\ leg'.goal = "opening" /\ leg'.step.slot = "teaching-open"
      BY <1>l, <3>1 DEF LegRow, OpeningStep, StepTo
    <3> QED BY <1>o, <2>2, <3>1, <3>2
            DEF TurnKnows, ActionKnows, ReplyLabels, SendLabels, UnsaidLabels
  <2> QED BY <2>1, <2>2
<1>8. CASE Finish \/ TerminalizeMoment
  <2>1. CASE Leave
    BY <1>e, <2>1
  <2>2. CASE ~Leave
    <3>1. /\ leg' = leg /\ turn' = turn /\ pc \in {"finish", "terminalize"}
          /\ pc' \in {"terminalize", "resume"}
      BY <1>8, <2>2 DEF Finish, TerminalizeMoment, PutMoment, Goto
    <3> QED BY <3>1
            DEF DeliveryInv, TurnKnows, ActionKnows, ReplyLabels, SendLabels, UnsaidLabels
  <2> QED BY <2>1, <2>2
<1>9. CASE Resume
  <2>1. CASE Leave
    BY <1>e, <2>1
  <2>2. CASE ~Leave
    <3>1. /\ leg' = [leg EXCEPT !.step = StepTo(0, 0, "resume")] /\ turn' = turn
          /\ pc = "resume" /\ pc' = IF leg.goal = "close" THEN "deliver" ELSE "land"
          /\ leg.goal \in {"close", "quiet", "lost"}
      BY <1>9, <2>2 DEF Resume, LegKnows, CloseKnows
    <3>2. leg'.msg = leg.msg /\ leg'.goal = leg.goal /\ leg'.step.slot = "resume"
      BY <1>l, <3>1 DEF LegRow, StepTo
    <3> QED BY <3>1, <3>2
            DEF DeliveryInv, TurnKnows, ActionKnows, ReplyLabels, SendLabels, UnsaidLabels
  <2> QED BY <2>1, <2>2
<1>10. CASE SettleAction
  BY <1>10, <1>e, RestKnows DEF SettleAction, Goto, ReplyLabels, SendLabels
<1>11. CASE SettleTurn
  <2>1. turn'[leg.msg].status = "DONE" /\ leg' = leg /\ pc' \in {"lost", "reconcile"}
    BY <1>11, <1>l DEF SettleTurn, Goto, TurnRow
  <2> QED BY <2>1 DEF TurnKnows, ActionKnows, ReplyLabels, SendLabels, UnsaidLabels
<1>12. CASE AbortLostDelivery
  <2> DEFINE c == Aborted("DELIVERY_FAILURE")
  <2>1. /\ pc = "lost" /\ turn' = turn
        /\ \/ Leave
           \/ /\ pc' = "finish"
              /\ leg' = [leg EXCEPT !.mom = lock, !.goal = "lost", !.closure = c]
    BY <1>12 DEF AbortLostDelivery
  <2> HIDE DEF c
  <2>2. CASE Leave
    BY <1>e, <2>2
  <2>3. CASE ~Leave
    <3>1. leg'.msg = leg.msg
      BY <1>l, <2>1, <2>3 DEF LegRow
    <3> QED BY <2>1, <2>3, <3>1
            DEF DeliveryInv, TurnKnows, ActionKnows, ReplyLabels, SendLabels, UnsaidLabels
  <2> QED BY <2>2, <2>3
<1>13. CASE \/ EnterReply \/ Evaluate \/ RecordAttempt \/ MarkPostReveal \/ AdvanceToDeciding
            \/ \E v \in {"none", "ALLOW", "DEGRADED", "HARD", "POLICY"} : Decide(v)
  BY <1>13, DecidingKnowsStep
<1>14. CASE \/ ReplayDelivery \/ BeginDelivery \/ CreateAction \/ RunAction \/ ProduceReply
            \/ ProduceNothing \/ SendReply \/ TranscribeReply \/ CompleteAction
            \/ TerminalizeTurn \/ Undelivered
  BY <1>14, DeliveringKnowsStep
<1> HIDE DEF UnchangedBut, stored
<1> QED BY <1>1, <1>2, <1>3, <1>4, <1>5, <1>6, <1>7, <1>8, <1>9, <1>10, <1>11, <1>12, <1>13,
           <1>14
        DEF Next, Step

----------------------------------------------------------------------------
(* Rungs and caps.                                                         *)

(* What was said stays said, and of the same moment.                       *)
LEMMA SaidKept ==
    ASSUME TypeOK, Next, NEW m \in Msgs, SpokenSlot(m)
    PROVE  said'[m] = said[m]
<1>l. leg.msg \in Msgs /\ said \in [Msgs -> SaidRow]
  BY LegFields DEF TypeOK
<1>1. CASE said' = said
  BY <1>1
<1>2. CASE TranscribeReply
  BY <1>2, <1>l DEF TranscribeReply, SpokenSlot
<1> QED BY <1>1, <1>2
        DEF Next, Step, stored, Start, Fault, RequestTeaching, RespondToTeaching,
            AbortUndeliveredOpenings, RecoverOrphanTeachingLocks, Serve, CloseResidualTurn,
            EnterOpening, RecordCycle, OpenTeachingMoment, RefuseOpening, ReplayDelivery,
            BeginDelivery, CreateAction, RunAction, ProduceReply, ProduceNothing, SendReply,
            CompleteAction, TerminalizeTurn, Undelivered, Land, EnterReply, Evaluate,
            RecordAttempt, MarkPostReveal, AdvanceToDeciding, Decide, Finish,
            TerminalizeMoment, Resume, SettleAction, SettleTurn, AbortLostDelivery,
            ReconcileMomentLadder

LEMMA DeliveredFinite ==
    ASSUME Spoken, NEW o, NEW S \in SUBSET Slots
    PROVE  IsFiniteSet(Delivered(o, S)) /\ Cardinality(Delivered(o, S)) \in Nat
<1>1. "none" \notin S
  BY DEF Slots
<1>2. Delivered(o, S) \subseteq {m \in Msgs : SpokenSlot(m)}
  BY <1>1 DEF Delivered, SpokenSlot
<1>3. IsFiniteSet({m \in Msgs : SpokenSlot(m)})
  BY DEF Spoken
<1>4. IsFiniteSet(Delivered(o, S))
  BY <1>2, <1>3, FS_Subset
<1> QED BY <1>4, FS_CardinalityType

LEMMA HintsGrow ==
    ASSUME TypeOK, LegKnows, DeliveryInv, Next, NEW o \in Opens
    PROVE  /\ Hints(o) \subseteq Hints(o)'
           /\ Cardinality(Hints(o)) \in Nat /\ Cardinality(Hints(o)') \in Nat
           /\ Cardinality(Hints(o)) <= Cardinality(Hints(o)')
<1>1. Hints(o) \subseteq Hints(o)'
  <2> SUFFICES ASSUME NEW m \in Msgs, said[m].slot = "hint", act[m]["hint"].mom = o
               PROVE  said'[m].slot = "hint" /\ act'[m]["hint"].mom = o
    BY DEF Hints, Delivered
  <2>1. SpokenSlot(m) /\ act[m]["hint"].status /= "ABSENT" /\ "hint" \in Slots
    BY DEF DeliveryInv, Spoken, SpokenSlot, Slots
  <2> QED BY <2>1, SaidKept, ActsKeptStep DEF ActsKept
<1>2. {"hint"} \in SUBSET Slots
  BY DEF Slots
<1>3. IsFiniteSet(Hints(o)) /\ Cardinality(Hints(o)) \in Nat
  BY <1>2, DeliveredFinite DEF DeliveryInv, Hints
<1>4. IsFiniteSet(Hints(o)') /\ Cardinality(Hints(o)') \in Nat
  <2>1. Spoken'
    BY SpokenStep
  <2>2. Hints(o)' \subseteq {m \in Msgs : SpokenSlot(m)}'
    BY DEF Hints, Delivered, SpokenSlot
  <2>3. IsFiniteSet({m \in Msgs : SpokenSlot(m)}')
    BY <2>1 DEF Spoken
  <2>4. IsFiniteSet(Hints(o)')
    BY <2>2, <2>3, FS_Subset
  <2> QED BY <2>4, FS_CardinalityType
<1>5. Cardinality(Hints(o)) <= Cardinality(Hints(o)')
  BY <1>1, <1>4, FS_Subset
<1> QED BY <1>1, <1>3, <1>4, <1>5

(* Nothing is said while a delivery is prepared.                           *)
LEMMA LoadsKept ==
    ASSUME TypeOK, DeliveryInv, Next, said' = said, pc /= "openGate", NEW o \in Opens
    PROVE  TurnLoad(o)' = TurnLoad(o)
<1>1. \A m \in Msgs : SpokenSlot(m) =>
          act'[m][said[m].slot].mom = act[m][said[m].slot].mom
  <2> SUFFICES ASSUME NEW m \in Msgs, SpokenSlot(m)
               PROVE  act'[m][said[m].slot].mom = act[m][said[m].slot].mom
    OBVIOUS
  <2>1. said[m].slot \in Slots /\ act[m][said[m].slot].status /= "ABSENT"
    BY DEF TypeOK, SaidRow, SpokenSlot, DeliveryInv, Spoken
  <2> QED BY <2>1, ActsKeptStep DEF ActsKept
<1>2. Delivered(o, TeachingSlots)' = Delivered(o, TeachingSlots)
  <2>1. "none" \notin TeachingSlots
    BY DEF TeachingSlots, Slots
  <2> QED BY <1>1, <2>1 DEF Delivered, SpokenSlot
<1> QED BY <1>2 DEF TurnLoad

(* The phase moves when a moment opens or lands, and after the reveal.     *)
LEMMA PhaseKept ==
    ASSUME TeachingInv, Next,
           ~OpenTeachingMoment, ~Land, ~MarkPostReveal, ~ReconcileMomentLadder
    PROVE  \A o \in Opens : moment'[o].phase = moment[o].phase
<1> USE DEF UnchangedBut, stored
<1>t. moment \in [Opens -> MomentRow] /\ leg.mom \in Opens
  BY LegFields DEF TeachingInv, TypeOK
<1>p. ASSUME NEW q, NEW r, moment' = [moment EXCEPT ![q] = r],
             q \in Opens => r.phase = moment[q].phase
      PROVE  \A o \in Opens : moment'[o].phase = moment[o].phase
  BY <1>t, <1>p
<1>2. CASE moment' = moment
  BY <1>2
<1>3. CASE RecoverOrphanTeachingLocks
  BY <1>3, <1>t DEF RecoverOrphanTeachingLocks, MomentRow
<1>6. CASE Evaluate
  BY <1>6, <1>t DEF Evaluate, PutMoment, MomentRow
<1>7. CASE RecordAttempt
  BY <1>7, <1>t DEF RecordAttempt, InsertAttempt, MomentRow
<1>8. CASE AdvanceToDeciding
  BY <1>8, <1>t DEF AdvanceToDeciding, PutMoment, MomentRow
<1>9. CASE Finish
  <2> DEFINE r == [moment[leg.mom] EXCEPT !.state = Closing(leg.closure),
                                         !.closure = leg.closure]
  <2>1. r.phase = moment[leg.mom].phase
    BY <1>t DEF MomentRow
  <2>2. moment' = moment \/ moment' = [moment EXCEPT ![leg.mom] = r]
    BY <1>9 DEF Finish, PutMoment
  <2> HIDE DEF r
  <2> QED BY <1>2, <1>p, <2>1, <2>2
<1>10. CASE TerminalizeMoment
  BY <1>10, <1>t DEF TerminalizeMoment, MomentRow
<1>11. CASE Resume
  BY <1>11, <1>t DEF Resume, MomentRow
<1> QED BY <1>2, <1>3, <1>6, <1>7, <1>8, <1>9, <1>10, <1>11
        DEF Next, Step, Start, Fault, RequestTeaching, RespondToTeaching,
            AbortUndeliveredOpenings, Serve, CloseResidualTurn, EnterOpening, RecordCycle,
            RefuseOpening, ReplayDelivery, BeginDelivery, CreateAction, RunAction,
            ProduceReply, ProduceNothing, SendReply, TranscribeReply, CompleteAction,
            TerminalizeTurn, Undelivered, EnterReply, Decide, SettleAction, SettleTurn,
            AbortLostDelivery

LEMMA RungOfStep ==
    ASSUME NEW mo \in MomentRow, NEW k \in Kinds
    PROVE  LET t == LadderStep(mo, k)
           IN /\ t.phase \in 1..3 => t.phase = mo.phase + IF t.slot = "hint" THEN 1 ELSE 0
              /\ t.slot = "hint" => k = "HINT"
              /\ t.slot = "retry" => k = "RETRY"
              /\ t.slot = "explanation" => k = "EXPLANATION"
<1>1. mo.phase \in Nat /\ FullReveal = 4 /\ Explanation = 6
  BY MomentFields DEF Explanation, FullReveal
<1>2. CASE k = "HINT" /\ mo.phase < HintRungs
  BY <1>1, <1>2 DEF LadderStep, StepTo
<1>3. CASE ~(k = "HINT" /\ mo.phase < HintRungs)
  <2>1. CASE k \in {"HINT", "REVEAL"}
    BY <1>1, <1>3, <2>1 DEF LadderStep, StepTo
  <2>2. CASE k = "EXPLANATION"
    BY <1>1, <1>3, <2>2 DEF LadderStep, StepTo
  <2>3. CASE k = "RETRY"
    BY <1>1, <1>3, <2>3 DEF LadderStep, StepTo
  <2> QED BY <2>1, <2>2, <2>3 DEF Kinds
<1> QED BY <1>2, <1>3

(* decide_next_action goes on only below the hard caps, and the Gate can   *)
(* only close.                                                             *)
LEMMA GoesOnBelowCaps ==
    ASSUME NEW o \in Opens, NEW env \in Envelope, NEW v
    PROVE  LET d == Decision(o, env)
               p == IF d.gated THEN AfterGate(d, v) ELSE d
           IN p.goal /= "close" => ~HardLimit(o, p.kind)
<1> DEFINE kind == KindOf(env.intent)
           d == Decision(o, env)
           p == IF d.gated THEN AfterGate(d, v) ELSE d
<1> SUFFICES ASSUME p.goal /= "close" PROVE ~HardLimit(o, p.kind)
  OBVIOUS
<1>1. d.goal /= "close" => ~HardLimit(o, kind) /\ d.kind = kind
  <2> HIDE DEF kind
  <2>1. \/ \E c, b : d = [goal |-> "close", closure |-> c, gated |-> b, kind |-> kind]
        \/ ~HardLimit(o, kind)
           /\ d = [goal |-> "continue", closure |-> Open, gated |-> TRUE, kind |-> kind]
    BY DEF Decision, kind
  <2> QED BY <2>1
<1>2. AfterGate(d, v).goal /= "close" => AfterGate(d, v) = d
  <2> HIDE DEF d
  <2> SUFFICES ASSUME ~(d.goal = "close" \/ v = "ALLOW")
               PROVE  AfterGate(d, v).goal = "close" \/ AfterGate(d, v) = d
    BY DEF AfterGate
  <2>1. CASE "goal" \in DOMAIN d
    BY <2>1 DEF AfterGate
  <2>2. d = [goal |-> d.goal, closure |-> d.closure, gated |-> d.gated, kind |-> d.kind]
    BY DEF d, Decision
  <2>3. "goal" \in DOMAIN d
    BY <2>2
  <2> QED BY <2>1, <2>3
<1> HIDE DEF d, kind
<1> QED BY <1>1, <1>2

LEMMA DecidedRung ==
    ASSUME TeachingInv, AttemptsDense, DeliveryInv,
           NEW v \in {"none", "ALLOW", "DEGRADED", "HARD", "POLICY"}, Decide(v),
           pc' \in UnsaidLabels
    PROVE  RungKnows'
<1> DEFINE d == Decision(leg.mom, leg.env)
           p == IF d.gated THEN AfterGate(d, v) ELSE d
           t == LadderStep(moment[leg.mom], p.kind)
<1>l. /\ leg \in LegRow /\ leg.mom \in Opens /\ leg.env \in Envelope
      /\ moment[leg.mom] \in MomentRow
  BY LegFields DEF TeachingInv, TypeOK
<1>1. /\ UNCHANGED <<moment, said, act, attempts>> /\ pc' = "deliver"
      /\ leg' = [leg EXCEPT !.goal = "continue", !.kind = p.kind, !.step = t]
      /\ p.goal /= "close"
  <2>1. Leave => pc' \notin UnsaidLabels
    BY LeaveTyped DEF TeachingInv, UnsaidLabels
  <2> QED BY <2>1 DEF Decide, UnsaidLabels
<1>2. p.kind \in Kinds /\ ~HardLimit(leg.mom, p.kind)
  BY <1>l, <1>1, DecisionTyped, GoesOnBelowCaps
<1>3. AttemptLoad(leg.mom) \in Nat /\ TurnLoad(leg.mom) \in Nat
  <2>1. TurnLoad(leg.mom) \in Nat
    BY DeliveredFinite DEF TurnLoad, DeliveryInv, TeachingSlots
  <2> QED BY <1>l, <2>1, MomentFields DEF AttemptsDense
<1> HIDE DEF d, p
<1>4. /\ t.phase \in 1..3 =>
           t.phase = moment[leg.mom].phase + IF t.slot = "hint" THEN 1 ELSE 0
      /\ t.slot = "hint" => p.kind = "HINT"
      /\ t.slot = "retry" => p.kind = "RETRY"
      /\ t.slot = "explanation" => p.kind = "EXPLANATION"
  BY <1>l, <1>2, RungOfStep
<1> HIDE DEF t
<1>5. /\ t.slot \in {"hint", "retry"} => AttemptLoad(leg.mom) < HardAttempts
      /\ t.slot \in {"hint", "retry", "explanation"} => TurnLoad(leg.mom) < HardTurns
  BY <1>2, <1>3, <1>4, TeachingAssumption DEF HardLimit
<1>6. leg'.mom = leg.mom /\ leg'.step = t
  BY <1>l, <1>1 DEF LegRow
<1>7. AttemptLoad(leg.mom)' = AttemptLoad(leg.mom) /\ TurnLoad(leg.mom)' = TurnLoad(leg.mom)
  BY <1>1, <1>6 DEF AttemptLoad, AttemptsOf, TurnLoad, Delivered
<1> QED BY <1>1, <1>4, <1>5, <1>6, <1>7 DEF RungKnows, UnsaidLabels, SaidLabels

(* The rung under way is always covered by what has been said.             *)
LEMMA RungKnowsStep ==
    ASSUME TeachingInv, AttemptsDense, DeliveryInv, RungInv, Next
    PROVE  RungKnows'
<1> USE DEF UnchangedBut, stored
<1>l. /\ leg \in LegRow /\ leg.msg \in Msgs /\ leg.mom \in Opens /\ leg.step \in LadderPlan
      /\ moment[leg.mom] \in MomentRow /\ said \in [Msgs -> SaidRow]
  BY LegFields DEF TeachingInv, TypeOK
<1>r. leg'.goal /= "continue" \/ pc' \notin UnsaidLabels \cup SaidLabels => RungKnows'
  BY DEF RungKnows
<1>e. Leave => RungKnows'
  BY <1>r, LeaveTyped DEF TeachingInv, UnsaidLabels, SaidLabels
<1>g. pc \in SendLabels \cup {"land"} /\ leg.goal = "continue" =>
          /\ leg.msg \in Replies
          /\ pc \in UnsaidLabels => said[leg.msg].slot = "none"
          /\ pc \in {"send", "transcribe"} => act[leg.msg][leg.step.slot].mom = leg.mom
  BY DEF DeliveryInv, ActionKnows
<1>1. CASE pc' \notin UnsaidLabels \cup SaidLabels
  BY <1>1, <1>r
<1>2. CASE EnterOpening \/ OpenTeachingMoment
  <2>1. CASE ~Leave /\ pc' = "deliver"
    <3>1. leg.goal = "opening" /\ leg' = [leg EXCEPT !.step = OpeningStep]
      BY <1>2, <2>1
         DEF EnterOpening, OpenTeachingMoment, Goto, TeachingInv, LegKnows, OpeningKnows,
             OpeningLabels
    <3>2. leg'.goal = "opening"
      BY <1>l, <3>1 DEF LegRow
    <3> QED BY <1>r, <3>2
  <2>2. CASE pc' /= "deliver"
    BY <1>1, <1>2, <1>e, <2>2
       DEF EnterOpening, OpenTeachingMoment, Goto, UnsaidLabels, SaidLabels
  <2> QED BY <1>e, <2>1, <2>2
<1>3. CASE Resume
  <2>1. CASE ~Leave
    <3>1. /\ leg' = [leg EXCEPT !.step = StepTo(0, 0, "resume")]
          /\ leg.goal \in {"close", "quiet", "lost"}
      BY <1>3, <2>1 DEF Resume, TeachingInv, LegKnows, CloseKnows
    <3>2. leg'.goal = leg.goal
      BY <1>l, <3>1 DEF LegRow
    <3> QED BY <1>r, <3>1, <3>2
  <2> QED BY <1>e, <2>1
<1>4. CASE Undelivered
  <2>1. (leg' = leg /\ leg.goal = "close") \/ pc' = "finish"
    BY <1>4 DEF Undelivered, Goto
  <2> QED BY <1>r, <2>1 DEF UnsaidLabels, SaidLabels
<1>5. ASSUME NEW v \in {"none", "ALLOW", "DEGRADED", "HARD", "POLICY"}, Decide(v)
      PROVE  RungKnows'
  <2>1. pc' \in {"finish", "deliver"} \/ Leave
    BY <1>5 DEF Decide
  <2>2. CASE pc' = "deliver"
    BY <1>5, <2>2, DecidedRung DEF UnsaidLabels
  <2> QED BY <1>1, <1>e, <2>1, <2>2 DEF UnsaidLabels, SaidLabels
<1>6. CASE ReplayDelivery
  <2>1. /\ leg' = leg /\ pc = "deliver"
        /\ pc' = IF said[leg.msg].slot /= "none" THEN "land" ELSE "undelivered"
    BY <1>6 DEF ReplayDelivery, Goto
  <2>2. leg.goal = "continue" => pc' = "undelivered"
    BY <1>g, <2>1 DEF UnsaidLabels, SendLabels
  <2> QED BY <1>r, <2>1, <2>2 DEF UnsaidLabels, SaidLabels
<1>7. CASE BeginDelivery \/ CreateAction \/ RunAction \/ ProduceReply \/ SendReply
  <2>1. CASE ~Leave
    <3>1. /\ leg' = leg /\ moment' = moment /\ attempts' = attempts /\ said' = said
          /\ pc \in UnsaidLabels /\ pc' \in UnsaidLabels
      BY <1>7, <2>1
         DEF BeginDelivery, CreateAction, RunAction, ProduceReply, SendReply, Goto,
             UnsaidLabels
    <3>2. TurnLoad(leg.mom)' = TurnLoad(leg.mom) /\ AttemptLoad(leg.mom)' = AttemptLoad(leg.mom)
      <4>1. TurnLoad(leg.mom)' = TurnLoad(leg.mom)
        <5>1. pc /= "openGate" /\ TypeOK
          BY <3>1 DEF UnsaidLabels, TeachingInv
        <5>2. \A o \in Opens : TurnLoad(o)' = TurnLoad(o)
          BY <3>1, <5>1, LoadsKept
        <5> QED BY <1>l, <3>1, <5>2 DEF TurnLoad, Delivered
      <4> QED BY <3>1, <4>1 DEF AttemptLoad, AttemptsOf
    <3> QED BY <3>1, <3>2 DEF RungInv, RungKnows, UnsaidLabels, SaidLabels
  <2> QED BY <1>e, <2>1
<1>h. \A o \in Opens : /\ Hints(o) \subseteq Hints(o)'
                       /\ Cardinality(Hints(o)) \in Nat /\ Cardinality(Hints(o)') \in Nat
                       /\ Cardinality(Hints(o)) <= Cardinality(Hints(o)')
  BY HintsGrow DEF TeachingInv
<1>8. CASE TranscribeReply
  <2>0. PICK o \in Opens : o = leg.mom
    BY <1>l
  <2> SUFFICES ASSUME leg.goal = "continue", leg.step.phase \in 1..3
               PROVE  leg.step.phase <= Cardinality(Hints(o)')
    <3>1. leg' = leg /\ pc' = "complete" /\ leg'.mom = o
      BY <1>8, <2>0 DEF TranscribeReply, Goto
    <3>2. Hints(leg.mom)' = Hints(o)'
      BY <3>1 DEF Hints, Delivered
    <3> QED BY <3>1, <3>2 DEF RungKnows, UnsaidLabels, SaidLabels
  <2>1. /\ pc = "transcribe" /\ moment' = moment /\ act' = act
        /\ said[leg.msg].slot = "none" /\ act[leg.msg][leg.step.slot].mom = o
    BY <1>8, <1>g, <2>0 DEF TranscribeReply, UnsaidLabels, SendLabels
  <2>2. said'[leg.msg].slot = leg.step.slot
    BY <1>8, <1>l, <2>1 DEF TranscribeReply
  <2>3. leg.step.phase = moment[o].phase + IF leg.step.slot = "hint" THEN 1 ELSE 0
    BY <2>0, <2>1 DEF RungInv, RungKnows, UnsaidLabels
  <2>4. /\ moment[o].phase \in Nat /\ leg.step.phase \in Nat
        /\ moment[o].phase \in 1..3 =>
             moment[o].phase <= Cardinality(Hints(o))
    BY <1>l, <2>0, MomentFields DEF RungInv, RungsWereShown, Hints
  <2>5. CASE leg.step.slot = "hint"
    <3>1. leg.msg \notin Hints(o) /\ leg.msg \in Hints(o)'
      BY <1>l, <2>1, <2>2, <2>5 DEF Hints, Delivered
    <3>2. IsFiniteSet(Hints(o)) /\ IsFiniteSet(Hints(o)')
      <4>1. Spoken /\ Spoken' /\ {"hint"} \in SUBSET Slots
        BY SpokenStep DEF DeliveryInv, Slots, TeachingInv
      <4>2. \A q : Hints(q) \subseteq {m \in Msgs : SpokenSlot(m)}
        BY DEF Hints, Delivered, SpokenSlot
      <4>3. Hints(o)' \subseteq {m \in Msgs : SpokenSlot(m)}'
        BY DEF Hints, Delivered, SpokenSlot
      <4> QED BY <4>1, <4>2, <4>3, FS_Subset DEF Spoken
    <3>3. Cardinality(Hints(o) \cup {leg.msg}) = Cardinality(Hints(o)) + 1
      BY <3>1, <3>2, FS_AddElement
    <3>4. Hints(o) \cup {leg.msg} \subseteq Hints(o)'
      BY <1>h, <1>l, <3>1
    <3>5. Cardinality(Hints(o) \cup {leg.msg}) <= Cardinality(Hints(o)')
      BY <3>2, <3>4, FS_Subset
    <3> QED BY <1>h, <1>l, <2>3, <2>4, <2>5, <3>3, <3>5
  <2>6. CASE leg.step.slot /= "hint"
    BY <1>h, <1>l, <2>3, <2>4, <2>6
  <2> QED BY <2>5, <2>6
<1>9. CASE CompleteAction \/ TerminalizeTurn
  <2>1. CASE ~Leave
    <3>1. leg' = leg /\ (pc \in SaidLabels \/ pc' = "undelivered")
          /\ pc' \notin UnsaidLabels
      BY <1>9, <2>1 DEF CompleteAction, TerminalizeTurn, Goto, SaidLabels, UnsaidLabels
    <3>2. CASE pc' = "undelivered"
      BY <1>1, <3>2 DEF SaidLabels, UnsaidLabels
    <3>3. CASE pc \in SaidLabels /\ leg.goal = "continue" /\ leg.step.phase \in 1..3
      <4>0. PICK o \in Opens : o = leg.mom
        BY <1>l
      <4>1. leg.step.phase <= Cardinality(Hints(o)) /\ leg.step.phase \in Nat
        BY <3>3, <4>0 DEF RungInv, RungKnows
      <4>2. leg.step.phase <= Cardinality(Hints(o)')
        BY <1>h, <4>1
      <4>3. Hints(leg.mom)' = Hints(o)'
        BY <3>1, <4>0 DEF Hints, Delivered
      <4> QED BY <3>1, <4>2, <4>3 DEF RungKnows
    <3> QED BY <3>1, <3>2, <3>3 DEF RungKnows
  <2> QED BY <1>e, <2>1
<1>10. CASE Serve \/ Land \/ ReconcileMomentLadder
  BY <1>10, <1>e DEF Serve, Land, ReconcileMomentLadder
<1>11. CASE \/ Start \/ \E o \in Opens : RequestTeaching(o)
            \/ \E m \in Msgs : CloseResidualTurn(m)
            \/ \E m \in Replies, env \in Envelopes : RespondToTeaching(m, env)
            \/ Fault
  <2>1. pc' \in {"openings", "openEntry", "residue", "replyEntry", "sweep", "idle"} \/ Leave
    BY <1>11 DEF Start, RequestTeaching, CloseResidualTurn, RespondToTeaching, Fault, Goto
  <2> QED BY <1>1, <1>e, <2>1 DEF UnsaidLabels, SaidLabels
<1>12. CASE \/ AbortUndeliveredOpenings \/ RecoverOrphanTeachingLocks \/ RecordCycle
            \/ \E v \in {"DENY", "DEGRADED", "STALE"} : RefuseOpening(v)
  <2>1. pc' \in {"sweep", "finish", "residue", "openGate", "repair"} \/ Leave
    BY <1>12 DEF AbortUndeliveredOpenings, RecoverOrphanTeachingLocks, RecordCycle,
                 RefuseOpening, Goto
  <2> QED BY <1>1, <1>e, <2>1 DEF UnsaidLabels, SaidLabels
<1>13. CASE EnterReply \/ Evaluate \/ RecordAttempt \/ MarkPostReveal \/ AdvanceToDeciding
            \/ Finish
  <2>1. pc' \in {"reconcile", "inflight", "deciding", "evaluate", "attempt", "judge",
                 "decide", "terminalize"} \/ Leave
    BY <1>13 DEF EnterReply, Evaluate, RecordAttempt, MarkPostReveal, AdvanceToDeciding,
                 Finish, PutMoment, Goto
  <2> QED BY <1>1, <1>e, <2>1 DEF UnsaidLabels, SaidLabels
<1>14. CASE TerminalizeMoment \/ SettleAction \/ SettleTurn \/ AbortLostDelivery
            \/ ProduceNothing
  <2>1. pc' \in {"resume", "settle", "lost", "reconcile", "finish", "silent"} \/ Leave
    BY <1>14 DEF TerminalizeMoment, SettleAction, SettleTurn, AbortLostDelivery,
                 ProduceNothing, Goto
  <2> QED BY <1>1, <1>e, <2>1 DEF UnsaidLabels, SaidLabels
<1> HIDE DEF UnchangedBut, stored
<1> QED BY <1>2, <1>3, <1>4, <1>5, <1>6, <1>7, <1>8, <1>9, <1>10, <1>11, <1>12, <1>13, <1>14
        DEF Next, Step

(* A rung is written only once it has been shown as often as it counts.    *)
LEMMA RungsShownStep ==
    ASSUME TeachingInv, DeliveryInv, RungInv, Next
    PROVE  RungsWereShown'
<1> USE DEF UnchangedBut, stored
<1>l. /\ leg \in LegRow /\ leg.mom \in Opens /\ moment \in [Opens -> MomentRow]
      /\ leg.msg \in Msgs /\ turn[leg.msg] \in TurnRow
  BY LegFields DEF TeachingInv, TypeOK
<1>h. \A o \in Opens : /\ Cardinality(Hints(o)) \in Nat /\ Cardinality(Hints(o)') \in Nat
                       /\ Cardinality(Hints(o)) <= Cardinality(Hints(o)')
  BY HintsGrow DEF TeachingInv
<1>g. ASSUME NEW o \in Opens,
             \/ moment'[o].phase = moment[o].phase
             \/ moment'[o].phase \notin 1..3
             \/ moment'[o].phase <= Cardinality(Hints(o))
      PROVE  moment'[o].phase \in 1..3 => moment'[o].phase <= Cardinality(Hints(o)')
  <2>1. moment[o].phase \in 1..3 => moment[o].phase <= Cardinality(Hints(o))
    BY DEF RungInv, RungsWereShown, Hints
  <2> QED BY <1>g, <1>h, <2>1
<1>s. ASSUME \A o \in Opens : \/ moment'[o].phase = moment[o].phase
                              \/ moment'[o].phase \notin 1..3
                              \/ moment'[o].phase <= Cardinality(Hints(o))
      PROVE  RungsWereShown'
  BY <1>g, <1>s DEF RungsWereShown, Hints, Delivered
<1>1. CASE OpenTeachingMoment
  <2> DEFINE row == [NoMoment EXCEPT !.state = "OPENING"]
  <2>1. moment' = [moment EXCEPT ![leg.msg] = row] /\ row.phase = 0
    BY <1>1 DEF OpenTeachingMoment, NoMoment
  <2> HIDE DEF row
  <2> QED BY <1>l, <1>s, <2>1
<1>2. CASE Land
  <2>1. CASE moment' = [moment EXCEPT ![leg.mom] = Landed(@)]
    <3>1. Landed(moment[leg.mom]).phase =
            IF leg.goal = "continue" THEN leg.step.phase ELSE moment[leg.mom].phase
      BY <1>l DEF Landed, MomentRow
    <3>2. leg.goal = "continue" /\ leg.step.phase \in 1..3
            => leg.step.phase <= Cardinality(Hints(leg.mom))
      BY <1>2 DEF Land, RungInv, RungKnows, SaidLabels
    <3> QED BY <1>l, <1>s, <2>1, <3>1, <3>2
  <2>2. CASE moment' = moment
    BY <1>s, <2>2
  <2>3. moment' = [moment EXCEPT ![leg.mom] = @] => moment' = moment
    BY <1>l
  <2> QED BY <1>2, <2>1, <2>2, <2>3 DEF Land
<1>3. CASE MarkPostReveal
  <2> DEFINE row == [moment[leg.mom] EXCEPT !.phase = IF @ = FullReveal THEN PostReveal ELSE @]
  <2>1. moment' = moment \/ moment' = [moment EXCEPT ![leg.mom] = row]
    BY <1>3 DEF MarkPostReveal, PutMoment
  <2>2. row.phase = moment[leg.mom].phase \/ row.phase = 5
    BY <1>l DEF MomentRow, PostReveal
  <2> HIDE DEF row
  <2> QED BY <1>l, <1>s, <2>1, <2>2
<1>4. CASE ReconcileMomentLadder
  <2> DEFINE o  == FirstAction(leg.msg).mom
             to == Reconciled(moment[o], o, turn[leg.msg].first)
             row == [moment[o] EXCEPT !.state = "AWAITING_USER", !.phase = to.phase,
                                      !.support = to.support]
  <2>1. moment' = moment \/ moment' = [moment EXCEPT ![o] = row]
    BY <1>4 DEF ReconcileMomentLadder
  <2>2. o \in Opens => \/ to.phase = moment[o].phase
                       \/ to.phase \notin 1..3
                       \/ to.phase <= Cardinality(Hints(o))
    BY <1>h DEF Reconciled, LadderStep, StepTo, FullReveal, Explanation, Hints
  <2>3. o \in Opens => row.phase = to.phase
    BY <1>l DEF MomentRow
  <2> HIDE DEF row, to, o
  <2> QED BY <1>l, <1>s, <2>1, <2>2, <2>3
<1>5. CASE ~OpenTeachingMoment /\ ~Land /\ ~MarkPostReveal /\ ~ReconcileMomentLadder
  BY <1>5, <1>s, PhaseKept
<1> QED BY <1>1, <1>2, <1>3, <1>4, <1>5

(* What HardCapsHold says of a step.                                       *)
BelowCaps ==
    \A m \in Replies : said'[m] /= said[m] =>
        LET o == act[m][said'[m].slot].mom
        IN /\ said'[m].slot \in {"hint", "retry"} => AttemptLoad(o) < HardAttempts
           /\ said'[m].slot \in {"hint", "retry", "explanation"} => TurnLoad(o) < HardTurns

(* Only a reply is transcribed, with the caps of its choice still unmet.   *)
LEMMA BelowCapsStep ==
    ASSUME TeachingInv, DeliveryInv, RungInv, Next
    PROVE  BelowCaps
<1>1. CASE said' = said
  BY <1>1 DEF BelowCaps
<1>2. CASE TranscribeReply
  <2> SUFFICES ASSUME NEW m \in Replies, said'[m] /= said[m],
                      said'[m].slot \in {"hint", "retry", "explanation"}
               PROVE  LET o == act[m][said'[m].slot].mom
                      IN /\ said'[m].slot \in {"hint", "retry"} => AttemptLoad(o) < HardAttempts
                         /\ TurnLoad(o) < HardTurns
    BY DEF BelowCaps
  <2>1. /\ leg.msg \in Msgs /\ said \in [Msgs -> SaidRow] /\ m \in Msgs
    BY LegFields DEF TeachingInv, TypeOK, Msgs
  <2>2. pc = "transcribe" /\ m = leg.msg /\ said'[m].slot = leg.step.slot
    BY <1>2, <2>1 DEF TranscribeReply
  <2>3. leg.goal = "continue"
    BY <2>2 DEF DeliveryInv, ActionKnows, UnsaidLabels, TeachingInv, LegKnows, SendKnows,
                SendLabels
  <2>4. act[m][said'[m].slot].mom = leg.mom
    BY <2>2, <2>3 DEF DeliveryInv, ActionKnows, SendLabels
  <2> QED BY <2>2, <2>3, <2>4 DEF RungInv, RungKnows, UnsaidLabels
<1> QED BY <1>1, <1>2
        DEF Next, Step, stored, Start, Fault, RequestTeaching, RespondToTeaching,
            AbortUndeliveredOpenings, RecoverOrphanTeachingLocks, Serve, CloseResidualTurn,
            EnterOpening, RecordCycle, OpenTeachingMoment, RefuseOpening, ReplayDelivery,
            BeginDelivery, CreateAction, RunAction, ProduceReply, ProduceNothing, SendReply,
            CompleteAction, TerminalizeTurn, Undelivered, Land, EnterReply, Evaluate,
            RecordAttempt, MarkPostReveal, AdvanceToDeciding, Decide, Finish,
            TerminalizeMoment, Resume, SettleAction, SettleTurn, AbortLostDelivery,
            ReconcileMomentLadder

LEMMA DeliveryInit == Init => DeliveryInv
<1> SUFFICES ASSUME Init PROVE DeliveryInv
  OBVIOUS
<1>1. pc = "down" /\ \A m \in Msgs : said[m] = NotSaid
  BY DEF Init
<1>2. \A m \in Msgs : ~SpokenSlot(m) /\ said[m].support = 0
  BY <1>1 DEF SpokenSlot, NotSaid
<1>3. IsFiniteSet({m \in Msgs : SpokenSlot(m)})
  <2>1. {m \in Msgs : SpokenSlot(m)} = {}
    BY <1>2
  <2> QED BY <2>1, FS_EmptySet
<1>4. leg.msg \in Opens /\ leg.goal = "none"
  BY AnyOpenIsOpen DEF Init, NoLeg, FreshLeg
<1>5. leg.msg \notin Replies
  BY <1>4, TeachingAssumption
<1> QED BY <1>1, <1>2, <1>3, <1>4, <1>5
        DEF DeliveryInv, Spoken, TurnKnows, ActionKnows, UnsaidLabels, SendLabels, Msgs

(* What a delivery leaves behind, whatever fails or is sent again.         *)
LEMMA DeliveryHolds == Spec => []DeliveryInv
<1>1. TeachingInv /\ DeliveryInv /\ [Next]_vars => DeliveryInv'
  <2> SUFFICES ASSUME TeachingInv, DeliveryInv, [Next]_vars PROVE DeliveryInv'
    OBVIOUS
  <2>1. CASE Next
    BY <2>1, DeliveryStep DEF TeachingInv
  <2>2. CASE UNCHANGED vars
    BY <2>2 DEF vars, DeliveryInv, Spoken, SpokenSlot, TurnKnows, ActionKnows
  <2> QED BY <2>1, <2>2
<1> QED BY InvHolds, DeliveryInit, <1>1, PTL DEF Spec

(* Help is earned: no rung ahead of the hints that were delivered, and no  *)
(* delivery beyond a hard cap, for any number of moments, replies, resends,*)
(* deaths and failing writes (_reconcile_moment_ladder, limits.py,         *)
(* _pre_delivery_guard_facts).                                             *)
THEOREM LadderStaysEarned == Spec => LadderIsEarned
<1>1. Init => RungInv
  <2> SUFFICES ASSUME Init PROVE RungInv
    OBVIOUS
  <2>1. leg.goal = "none" /\ \A o \in Opens : moment[o].phase = 0
    BY DEF Init, NoLeg, FreshLeg, NoMoment
  <2> QED BY <2>1 DEF RungInv, RungsWereShown, RungKnows
<1>2. /\ TeachingInv /\ AttemptsDense /\ DeliveryInv /\ RungInv /\ [Next]_vars
      => RungInv' /\ (BelowCaps \/ UNCHANGED vars)
  <2> SUFFICES ASSUME TeachingInv, AttemptsDense, DeliveryInv, RungInv, [Next]_vars
               PROVE  RungInv' /\ (BelowCaps \/ UNCHANGED vars)
    OBVIOUS
  <2>1. CASE Next
    BY <2>1, RungKnowsStep, RungsShownStep, BelowCapsStep DEF RungInv
  <2>2. CASE UNCHANGED vars
    BY <2>2 DEF vars, RungInv, RungsWereShown, RungKnows, Hints, Delivered, AttemptLoad,
                AttemptsOf, TurnLoad
  <2> QED BY <2>1, <2>2
<1>3. RungInv => RungsWereShown
  BY DEF RungInv
<1>4. Spec => []RungsWereShown
  BY InvHolds, AttemptNumbersDense, DeliveryHolds, <1>1, <1>2, <1>3, PTL DEF Spec
<1>5. Spec => [][BelowCaps]_vars
  BY InvHolds, AttemptNumbersDense, DeliveryHolds, <1>1, <1>2, PTL DEF Spec
<1>6. Spec => HardCapsHold
  BY <1>5 DEF HardCapsHold, BelowCaps
<1> QED BY <1>4, <1>6, PTL DEF LadderIsEarned

----------------------------------------------------------------------------
(* Who owns the lock.  A moment that does not exist yet has a turn that is *)
(* not over and has no action; the turn of an opening is the process's own *)
(* until it opens the moment; the lock of a dead process is gone once the  *)
(* sweep is over, unless something failed.                                 *)
Unopened ==
    \A o \in Opens : moment[o].state = "ABSENT" =>
        turn[o].status /= "DONE" /\ turn[o].first = "none"

OwnerKnows ==
    /\ pc = "openEntry" /\ Live(leg.msg) => Mine(leg.msg)
    /\ pc \in OpeningLabels \ {"openEntry"} => Mine(leg.msg)
    /\ pc \in SendLabels /\ leg.msg \in Opens =>
         leg.goal = "opening" /\ moment[leg.msg].state /= "ABSENT"
    /\ pc \in {"finish", "terminalize", "resume"} /\ leg.goal = "close" => leg.msg \in Replies
    /\ pc \in {"inflight", "settle", "lost", "reconcile"} => leg.msg \in Replies
    /\ pc = "idle" => leg.back = "idle"

Recovered ==
    faults = 0 /\ pc \notin {"openings", "sweep"} /\ leg.back = "idle" => ~ForeignLock

OwnerInv == Unopened /\ OwnerKnows /\ Recovered

(* A moment that exists stays.                                             *)
LEMMA MomentsStay ==
    ASSUME TeachingInv, Next, NEW o \in Opens, moment'[o].state = "ABSENT"
    PROVE  moment[o].state = "ABSENT"
<1> USE DEF UnchangedBut, stored
<1>l. /\ moment \in [Opens -> MomentRow] /\ leg.mom \in Opens /\ moment[leg.mom] \in MomentRow
  BY LegFields DEF TeachingInv, TypeOK
<1>p. ASSUME NEW q, NEW r, moment' = [moment EXCEPT ![q] = r],
             q \in Opens => r.state = moment[q].state \/ r.state /= "ABSENT"
      PROVE  moment[o].state = "ABSENT"
  BY <1>l, <1>p
<1>1. CASE moment' = moment
  BY <1>1
<1>2. CASE OpenTeachingMoment
  BY <1>2, <1>p DEF OpenTeachingMoment, NoMoment
<1>3. CASE RecoverOrphanTeachingLocks
  BY <1>3, <1>l DEF RecoverOrphanTeachingLocks, MomentRow
<1>4. CASE Land
  <2>1. \/ Landed(moment[leg.mom]).state = moment[leg.mom].state
        \/ Landed(moment[leg.mom]).state /= "ABSENT"
    BY <1>l DEF Landed, MomentRow
  <2> QED BY <1>l, <1>p, <1>4, <2>1 DEF Land
<1>5. CASE Evaluate
  <2> DEFINE r == [moment[leg.mom] EXCEPT !.state = IF @ = "AWAITING_USER" THEN "EVALUATING"
                                                    ELSE @]
  <2>1. r.state = moment[leg.mom].state \/ r.state /= "ABSENT"
    BY <1>l DEF MomentRow
  <2>2. moment' = moment \/ moment' = [moment EXCEPT ![leg.mom] = r]
    BY <1>5 DEF Evaluate, PutMoment
  <2> HIDE DEF r
  <2> QED BY <1>1, <1>p, <2>1, <2>2
<1>6. CASE RecordAttempt
  BY <1>6, <1>l DEF RecordAttempt, InsertAttempt, MomentRow
<1>7. CASE MarkPostReveal
  <2> DEFINE r == [moment[leg.mom] EXCEPT !.phase = IF @ = FullReveal THEN PostReveal ELSE @]
  <2>1. r.state = moment[leg.mom].state
    BY <1>l DEF MomentRow
  <2>2. moment' = moment \/ moment' = [moment EXCEPT ![leg.mom] = r]
    BY <1>7 DEF MarkPostReveal, PutMoment
  <2> HIDE DEF r
  <2> QED BY <1>1, <1>p, <2>1, <2>2
<1>8. CASE AdvanceToDeciding
  <2> DEFINE r == [moment[leg.mom] EXCEPT !.state = IF @ = "AWAITING_USER" THEN "EVALUATING"
                                                    ELSE "DECIDING_NEXT_ACTION"]
  <2>1. r.state /= "ABSENT"
    BY <1>l DEF MomentRow
  <2>2. moment' = moment \/ moment' = [moment EXCEPT ![leg.mom] = r]
    BY <1>8 DEF AdvanceToDeciding, PutMoment
  <2> HIDE DEF r
  <2> QED BY <1>1, <1>p, <2>1, <2>2
<1>9. CASE Finish
  <2> DEFINE r == [moment[leg.mom] EXCEPT !.state = Closing(leg.closure),
                                         !.closure = leg.closure]
  <2>1. r.state /= "ABSENT"
    BY <1>l DEF MomentRow, Closing
  <2>2. moment' = moment \/ moment' = [moment EXCEPT ![leg.mom] = r]
    BY <1>9 DEF Finish, PutMoment
  <2> HIDE DEF r
  <2> QED BY <1>1, <1>p, <2>1, <2>2
<1>10. CASE TerminalizeMoment \/ Resume
  BY <1>10, <1>l DEF TerminalizeMoment, Resume, MomentRow
<1>11. CASE ReconcileMomentLadder
  <2> DEFINE q  == FirstAction(leg.msg).mom
             to == Reconciled(moment[q], q, turn[leg.msg].first)
             r  == [moment[q] EXCEPT !.state = "AWAITING_USER", !.phase = to.phase,
                                     !.support = to.support]
  <2>1. moment' = moment \/ moment' = [moment EXCEPT ![q] = r]
    BY <1>11 DEF ReconcileMomentLadder
  <2> HIDE DEF to
  <2>2. q \in Opens => r.state /= "ABSENT"
    BY <1>l DEF MomentRow
  <2> HIDE DEF r, q
  <2> QED BY <1>1, <1>p, <2>1, <2>2
<1> QED BY <1>1, <1>2, <1>3, <1>4, <1>5, <1>6, <1>7, <1>8, <1>9, <1>10, <1>11
        DEF Next, Step, Start, Fault, RequestTeaching, RespondToTeaching,
            AbortUndeliveredOpenings, Serve, CloseResidualTurn, EnterOpening, RecordCycle,
            RefuseOpening, ReplayDelivery, BeginDelivery, CreateAction, RunAction,
            ProduceReply, ProduceNothing, SendReply, TranscribeReply, CompleteAction,
            TerminalizeTurn, Undelivered, EnterReply, Decide, SettleAction, SettleTurn,
            AbortLostDelivery

LEMMA UnopenedStep ==
    ASSUME TeachingInv, Unopened, OwnerKnows, Next
    PROVE  Unopened'
<1> SUFFICES ASSUME NEW o \in Opens, moment'[o].state = "ABSENT"
             PROVE  turn'[o].status /= "DONE" /\ turn'[o].first = "none"
  BY DEF Unopened
<1> USE DEF UnchangedBut, stored
<1>l. /\ leg.msg \in Msgs /\ turn \in [Msgs -> TurnRow] /\ o \in Msgs /\ turn[o] \in TurnRow
      /\ Opens \cap Replies = {}
  BY LegFields, TeachingAssumption DEF TeachingInv, TypeOK, Msgs
<1>o. moment[o].state = "ABSENT" /\ turn[o].status /= "DONE" /\ turn[o].first = "none"
  BY MomentsStay DEF Unopened
<1>1. CASE turn'[o] = turn[o]
  BY <1>o, <1>1
<1>2. ASSUME NEW m \in Msgs, NEW env, NEW c, Commit(m, env, c)
      PROVE  turn'[o].status /= "DONE" /\ turn'[o].first = "none"
  <2>1. CASE turn[m].status = "ABSENT"
    BY <1>2, <1>l, <1>o, <2>1 DEF Commit
  <2>2. CASE turn[m].status /= "ABSENT"
    <3>1. turn' = [turn EXCEPT ![m] =
                     [turn[m] EXCEPT !.owner = IF Live(m) /\ c THEN epoch ELSE turn[m].owner]]
      BY <1>2, <2>2 DEF Commit
    <3> QED BY <1>l, <1>o, <3>1 DEF TurnRow
  <2> QED BY <2>1, <2>2
<1>3. CASE \/ \E q \in Opens : RequestTeaching(q)
           \/ \E m \in Replies, env \in Envelopes : RespondToTeaching(m, env)
  BY <1>2, <1>3 DEF RequestTeaching, RespondToTeaching, Msgs
<1>s. ASSUME NEW m \in Msgs, NEW st, st /= "DONE" \/ m /= o,
             turn' = [turn EXCEPT ![m].status = st]
      PROVE  turn'[o].status /= "DONE" /\ turn'[o].first = "none"
  BY <1>s, <1>l, <1>o DEF TurnRow
<1>4. CASE AbortUndeliveredOpenings
  <2>1. turn' = turn \/ turn' = [turn EXCEPT ![lock].owner = IF Live(lock) THEN epoch ELSE @]
    BY <1>4 DEF AbortUndeliveredOpenings
  <2> QED BY <1>l, <1>o, <1>1, <2>1 DEF TurnRow
<1>5. ASSUME NEW m \in Msgs, CloseResidualTurn(m)
      PROVE  turn'[o].status /= "DONE" /\ turn'[o].first = "none"
  BY <1>5, <1>l, <1>o DEF CloseResidualTurn, HasAction
<1>6. CASE EnterOpening
  BY <1>6, <1>1, <1>l, <1>s DEF EnterOpening, TurnStatus
<1>7. CASE RecordCycle
  BY <1>7, <1>l, <1>o DEF RecordCycle, TurnRow
<1>8. CASE OpenTeachingMoment
  <2>1. moment \in [Opens -> MomentRow]
    BY DEF TeachingInv, TypeOK
  <2>2. o /= leg.msg
    BY <1>8, <2>1 DEF OpenTeachingMoment, NoMoment
  <2> QED BY <1>8, <1>l, <1>1, <2>2 DEF OpenTeachingMoment
<1>9. CASE ReplayDelivery
  BY <1>9, <1>l, <1>o, <1>s DEF ReplayDelivery, HasAction
<1>10. CASE BeginDelivery
  BY <1>10, <1>l, <1>o DEF BeginDelivery, TurnRow
<1>11. CASE CreateAction
  BY <1>11, <1>l, <1>o DEF CreateAction, OwnerKnows, SendLabels
<1>12. CASE SendReply
  BY <1>12, <1>l, <1>o DEF SendReply, TurnRow
<1>13. CASE TerminalizeTurn
  <2>1. o /= leg.msg
    BY <1>13, <1>o DEF TerminalizeTurn, OwnerKnows, SendLabels
  <2> QED BY <1>13, <1>1, <1>l, <1>s, <2>1 DEF TerminalizeTurn, TurnStatus
<1>14. CASE EnterReply
  BY <1>14, <1>l, <1>o DEF EnterReply, TurnRow
<1>15. CASE SettleTurn
  BY <1>15, <1>l, <1>o DEF SettleTurn, OwnerKnows
<1>16. CASE turn' = turn
  BY <1>1, <1>16
<1> QED BY <1>3, <1>4, <1>5, <1>6, <1>7, <1>8, <1>9, <1>10, <1>11, <1>12,
           <1>13, <1>14, <1>15, <1>16
        DEF Next, Step, Start, Fault, RecoverOrphanTeachingLocks, Serve, RefuseOpening,
            RunAction, ProduceReply, ProduceNothing, TranscribeReply, CompleteAction,
            Undelivered, Land, Evaluate, RecordAttempt, MarkPostReveal,
            AdvanceToDeciding, Decide, Finish, TerminalizeMoment, Resume, SettleAction,
            AbortLostDelivery, ReconcileMomentLadder

(* A turn changes hands only to the serving process.                       *)
LEMMA OwnersChange ==
    ASSUME TypeOK, Next, NEW m \in Msgs
    PROVE  turn'[m].owner \in {turn[m].owner, epoch}
<1> USE DEF UnchangedBut, stored
<1>l. /\ leg.msg \in Msgs /\ turn \in [Msgs -> TurnRow] /\ turn[m] \in TurnRow
  BY LegFields DEF TypeOK
<1>1. CASE turn' = turn
  BY <1>1
<1>2. ASSUME NEW n \in Msgs, NEW env, NEW c, Commit(n, env, c)
      PROVE  turn'[m].owner \in {turn[m].owner, epoch}
  <2>1. CASE turn[n].status = "ABSENT"
    BY <1>2, <1>l, <2>1 DEF Commit
  <2>2. CASE turn[n].status /= "ABSENT"
    <3>1. turn' = [turn EXCEPT ![n] =
                     [turn[n] EXCEPT !.owner = IF Live(n) /\ c THEN epoch ELSE turn[n].owner]]
      BY <1>2, <2>2 DEF Commit
    <3> QED BY <1>l, <3>1 DEF TurnRow
  <2> QED BY <2>1, <2>2
<1>3. CASE \/ \E q \in Opens : RequestTeaching(q)
           \/ \E n \in Replies, env \in Envelopes : RespondToTeaching(n, env)
  BY <1>2, <1>3 DEF RequestTeaching, RespondToTeaching, Msgs
<1>s. ASSUME NEW n \in Msgs, NEW st, turn' = [turn EXCEPT ![n].status = st]
      PROVE  turn'[m].owner \in {turn[m].owner, epoch}
  BY <1>s, <1>l DEF TurnRow
<1>4. CASE AbortUndeliveredOpenings
  <2>1. turn' = turn \/ turn' = [turn EXCEPT ![lock].owner = IF Live(lock) THEN epoch ELSE @]
    BY <1>4 DEF AbortUndeliveredOpenings
  <2> QED BY <1>l, <2>1 DEF TurnRow
<1>5. ASSUME NEW n \in Msgs, CloseResidualTurn(n)
      PROVE  turn'[m].owner \in {turn[m].owner, epoch}
  BY <1>5, <1>l DEF CloseResidualTurn, TurnRow
<1>6. CASE EnterOpening
  BY <1>6, <1>1, <1>l, <1>s DEF EnterOpening, TurnStatus
<1>7. CASE RecordCycle
  BY <1>7, <1>l DEF RecordCycle, TurnRow
<1>8. CASE OpenTeachingMoment
  BY <1>8, <1>l DEF OpenTeachingMoment, TurnRow
<1>9. CASE ReplayDelivery
  BY <1>9, <1>l, <1>s DEF ReplayDelivery
<1>10. CASE BeginDelivery
  BY <1>10, <1>l DEF BeginDelivery, TurnRow
<1>11. CASE CreateAction
  BY <1>11, <1>l DEF CreateAction, TurnRow
<1>12. CASE SendReply
  BY <1>12, <1>l DEF SendReply, TurnRow
<1>13. CASE TerminalizeTurn
  BY <1>13, <1>1, <1>l, <1>s DEF TerminalizeTurn, TurnStatus
<1>14. CASE EnterReply
  BY <1>14, <1>l DEF EnterReply, TurnRow
<1>15. CASE SettleTurn
  BY <1>15, <1>l DEF SettleTurn, TurnRow
<1> QED BY <1>1, <1>3, <1>4, <1>5, <1>6, <1>7, <1>8, <1>9, <1>10, <1>11, <1>12,
           <1>13, <1>14, <1>15
        DEF Next, Step, Start, Fault, RecoverOrphanTeachingLocks, Serve, RefuseOpening,
            RunAction, ProduceReply, ProduceNothing, TranscribeReply, CompleteAction,
            Undelivered, Land, Evaluate, RecordAttempt, MarkPostReveal,
            AdvanceToDeciding, Decide, Finish, TerminalizeMoment, Resume, SettleAction,
            AbortLostDelivery, ReconcileMomentLadder

(* What a leg knows of the owner at its next label.                        *)
LEMMA OwnerKnowsStep ==
    ASSUME TeachingInv, Unopened, OwnerKnows, Next
    PROVE  OwnerKnows'
<1> USE DEF UnchangedBut, stored
<1>l. /\ leg \in LegRow /\ leg.msg \in Msgs /\ turn \in [Msgs -> TurnRow]
      /\ turn[leg.msg] \in TurnRow /\ moment \in [Opens -> MomentRow]
      /\ Opens \cap Replies = {} /\ Opens \cup Replies = Msgs
  BY LegFields, TeachingAssumption DEF TeachingInv, TypeOK, Msgs
<1> DEFINE Guarded == OpeningLabels \cup SendLabels \cup {"finish", "terminalize", "resume"}
                        \cup {"inflight", "settle", "lost", "reconcile"} \cup {"idle"}
<1>r. pc' \notin Guarded => OwnerKnows'
  BY DEF OwnerKnows, OpeningLabels
<1>e. Leave => OwnerKnows'
  <2> SUFFICES ASSUME Leave PROVE OwnerKnows'
    OBVIOUS
  <2>1. pc' \in {"idle", "sweep"} /\ leg'.back = "idle"
    BY LeaveTyped DEF Leave, FreshLeg, TeachingInv
  <2> QED BY <2>1 DEF OwnerKnows, OpeningLabels, SendLabels
<1>1. CASE pc' \notin Guarded
  BY <1>1, <1>r
<1>2. ASSUME NEW o \in Opens, RequestTeaching(o) PROVE OwnerKnows'
  <2>1. /\ pc' = "openEntry" /\ leg'.msg = o /\ epoch' = epoch /\ Commit(o, NoEnv, TRUE)
        /\ o \in Msgs
    BY <1>2, <1>l DEF RequestTeaching, FreshLeg, Commit
  <2>2. Live(o)' => turn'[o].owner = epoch
    BY <1>l, <2>1 DEF Commit, Live, TurnRow
  <2>3. Live(leg.msg)' => Mine(leg.msg)'
    BY <2>1, <2>2 DEF Live, Mine
  <2> QED BY <2>1, <2>3 DEF OwnerKnows, OpeningLabels, SendLabels
<1>3. CASE Fault
  <2>1. CASE Leave
    BY <1>e, <2>1
  <2>2. CASE pc' = "idle" /\ leg' = NoLeg
    BY <2>2 DEF OwnerKnows, OpeningLabels, SendLabels, NoLeg, FreshLeg
  <2>3. CASE pc' \in {"sweep", "residue"}
    BY <1>1, <2>3 DEF OpeningLabels, SendLabels
  <2> QED BY <1>3, <2>1, <2>2, <2>3 DEF Fault, Goto
<1>4. CASE AbortUndeliveredOpenings
  <2> DEFINE c == Aborted("DELIVERY_FAILURE")
  <2>1. \/ pc' = "sweep"
        \/ /\ pc' = "finish"
           /\ leg' = [leg EXCEPT !.mom = lock, !.goal = "quiet", !.back = "sweep",
                                 !.closure = c]
    BY <1>4 DEF AbortUndeliveredOpenings, Goto
  <2> HIDE DEF c
  <2>2. [leg EXCEPT !.mom = lock, !.goal = "quiet", !.back = "sweep", !.closure = c].goal
          = "quiet"
    BY <1>l DEF LegRow
  <2> QED BY <2>1, <2>2 DEF OwnerKnows, OpeningLabels, SendLabels
<1>5. CASE EnterOpening
  <2>1. pc = "openEntry" /\ leg.msg \in Opens /\ turn[leg.msg].status /= "ABSENT"
        /\ leg.goal = "opening" /\ epoch' = epoch /\ moment' = moment
    BY <1>5 DEF EnterOpening, TeachingInv, LegKnows, OpeningKnows, OpeningLabels
  <2>2. CASE pc' = "deliver" /\ leg' = [leg EXCEPT !.step = OpeningStep]
             /\ moment[leg.msg].state = "OPENING"
    <3>1. leg'.msg = leg.msg /\ leg'.goal = leg.goal
      BY <1>l, <2>2 DEF LegRow
    <3> QED BY <2>1, <2>2, <3>1 DEF OwnerKnows, OpeningLabels, SendLabels
  <2>3. CASE pc' = "repair" /\ leg' = leg /\ turn' = turn /\ gate[leg.msg] = "STALE"
    <3>1. moment[leg.msg].state = "ABSENT"
      BY <2>1, <2>3 DEF TeachingInv, Recorded
    <3>2. Live(leg.msg)
      BY <2>1, <3>1 DEF Live, Unopened
    <3> QED BY <2>1, <2>3, <3>2 DEF OwnerKnows, OpeningLabels, SendLabels, Mine
  <2>4. CASE pc' = "cycle" /\ leg' = leg /\ TurnStatus(leg.msg, "DECIDING")
             /\ turn[leg.msg].status \in {"USER_COMMITTED", "DECIDING"}
    <3>1. Mine(leg.msg)
      BY <2>1, <2>4 DEF OwnerKnows, Live
    <3>2. turn'[leg.msg].owner = turn[leg.msg].owner
      BY <1>l, <2>4 DEF TurnStatus, TurnRow
    <3> QED BY <2>1, <2>4, <3>1, <3>2 DEF OwnerKnows, OpeningLabels, SendLabels, Mine
  <2> QED BY <1>5, <1>e, <2>2, <2>3, <2>4 DEF EnterOpening, Goto
<1>6. CASE RecordCycle
  <2>1. pc \in {"cycle", "repair"} /\ pc' = "openGate" /\ leg' = leg /\ epoch' = epoch
        /\ turn'[leg.msg].owner = turn[leg.msg].owner
    BY <1>6, <1>l DEF RecordCycle, Goto, TurnRow
  <2> QED BY <2>1 DEF OwnerKnows, OpeningLabels, SendLabels, Mine
<1>7. ASSUME NEW v \in {"DENY", "DEGRADED", "STALE"}, RefuseOpening(v) PROVE OwnerKnows'
  <2>1. \/ Leave
        \/ pc = "openGate" /\ pc' = "repair" /\ leg' = leg /\ epoch' = epoch /\ turn' = turn
    BY <1>7 DEF RefuseOpening, Goto
  <2> QED BY <1>e, <2>1 DEF OwnerKnows, OpeningLabels, SendLabels, Mine
<1>8. CASE OpenTeachingMoment
  <2> DEFINE row == [NoMoment EXCEPT !.state = "OPENING"]
  <2>1. /\ pc' = "deliver" /\ leg' = [leg EXCEPT !.step = OpeningStep]
        /\ leg.msg \in Opens /\ leg.goal = "opening"
        /\ moment' = [moment EXCEPT ![leg.msg] = row]
    BY <1>8 DEF OpenTeachingMoment, TeachingInv, LegKnows, OpeningKnows, OpeningLabels
  <2>2. row.state = "OPENING"
    BY DEF NoMoment
  <2> HIDE DEF row
  <2>3. moment'[leg.msg].state = "OPENING"
    BY <1>l, <2>1, <2>2
  <2>4. leg'.msg = leg.msg /\ leg'.goal = leg.goal
    BY <1>l, <2>1 DEF LegRow
  <2> QED BY <2>1, <2>3, <2>4 DEF OwnerKnows, OpeningLabels, SendLabels
<1>9. CASE \/ ReplayDelivery \/ BeginDelivery \/ CreateAction \/ RunAction \/ ProduceReply
           \/ ProduceNothing \/ SendReply \/ TranscribeReply \/ CompleteAction
           \/ TerminalizeTurn
  <2>1. CASE ~Leave
    <3>1. leg' = leg /\ moment' = moment /\ pc \in SendLabels /\ pc' \in SendLabels \cup {"land"}
      BY <1>9, <2>1
         DEF ReplayDelivery, BeginDelivery, CreateAction, RunAction, ProduceReply,
             ProduceNothing, SendReply, TranscribeReply, CompleteAction, TerminalizeTurn,
             Goto, SendLabels
    <3> QED BY <3>1 DEF OwnerKnows, OpeningLabels, SendLabels
  <2> QED BY <1>e, <2>1
<1>10. CASE Undelivered
  <2> DEFINE c == Aborted("DELIVERY_FAILURE")
             g == IF leg.goal = "opening" THEN "quiet" ELSE "close"
  <2>1. /\ pc = "undelivered"
        /\ \/ pc' = "land"
           \/ pc' = "finish" /\ leg' = [leg EXCEPT !.goal = g, !.closure = c]
    BY <1>10 DEF Undelivered, Goto
  <2>2. g = "close" => leg.msg \in Replies
    BY <1>l, <2>1 DEF OwnerKnows, SendLabels
  <2> HIDE DEF c, g
  <2>3. pc' = "finish" => leg'.msg = leg.msg /\ leg'.goal = g
    BY <1>l, <2>1 DEF LegRow
  <2> QED BY <2>1, <2>2, <2>3 DEF OwnerKnows, OpeningLabels, SendLabels
<1>11. CASE EnterReply
  <2>1. \/ Leave
        \/ pc' \in {"deciding", "evaluate"}
        \/ pc' \in {"reconcile", "inflight"} /\ leg' = leg /\ leg.msg \in Replies
    BY <1>11 DEF EnterReply, Goto, TeachingInv, LegKnows, ReplyKnows
  <2> QED BY <1>1, <1>e, <2>1 DEF OwnerKnows, OpeningLabels, SendLabels
<1>12. CASE Evaluate \/ RecordAttempt \/ MarkPostReveal \/ AdvanceToDeciding
  <2>1. Leave \/ pc' \in ReplyLabels
    BY <1>12 DEF Evaluate, RecordAttempt, MarkPostReveal, AdvanceToDeciding, PutMoment, Goto,
                 ReplyLabels
  <2> QED BY <1>1, <1>e, <2>1 DEF OpeningLabels, SendLabels, ReplyLabels
<1>13. ASSUME NEW v \in {"none", "ALLOW", "DEGRADED", "HARD", "POLICY"}, Decide(v)
       PROVE  OwnerKnows'
  <2> DEFINE d == Decision(leg.mom, leg.env)
             p == IF d.gated THEN AfterGate(d, v) ELSE d
             t == LadderStep(moment[leg.mom], p.kind)
  <2>1. /\ leg.msg \in Replies
        /\ \/ pc' = "finish" /\ leg' = [leg EXCEPT !.goal = "close", !.closure = p.closure]
           \/ /\ pc' = "deliver"
              /\ leg' = [leg EXCEPT !.goal = "continue", !.kind = p.kind, !.step = t]
           \/ Leave
    BY <1>13 DEF Decide, TeachingInv, LegKnows, ReplyKnows, ReplyLabels
  <2> HIDE DEF d, p, t
  <2>2. (pc' \in {"finish", "deliver"} /\ leg'.msg = leg.msg) \/ Leave
    BY <1>l, <2>1 DEF LegRow
  <2> QED BY <1>e, <1>l, <2>1, <2>2 DEF OwnerKnows, OpeningLabels, SendLabels
<1>14. CASE Finish \/ TerminalizeMoment
  <2>1. \/ Leave
        \/ /\ leg' = leg /\ pc \in {"finish", "terminalize"}
           /\ pc' \in {"terminalize", "resume"}
    BY <1>14 DEF Finish, TerminalizeMoment, PutMoment, Goto
  <2> QED BY <1>e, <2>1 DEF OwnerKnows, OpeningLabels, SendLabels
<1>15. CASE Resume
  <2>1. \/ Leave
        \/ /\ leg' = [leg EXCEPT !.step = StepTo(0, 0, "resume")] /\ pc = "resume"
           /\ pc' = IF leg.goal = "close" THEN "deliver" ELSE "land"
    BY <1>15 DEF Resume
  <2>2. [leg EXCEPT !.step = StepTo(0, 0, "resume")].msg = leg.msg
    BY <1>l DEF LegRow
  <2>3. CASE ~Leave
    BY <1>l, <2>1, <2>2, <2>3 DEF OwnerKnows, OpeningLabels, SendLabels
  <2> QED BY <1>e, <2>3
<1>16. CASE SettleAction \/ SettleTurn
  <2>1. \/ Leave
        \/ /\ leg' = leg /\ pc \in {"inflight", "settle"}
           /\ pc' \in {"settle", "lost", "reconcile"}
    BY <1>16 DEF SettleAction, SettleTurn, Goto
  <2> QED BY <1>e, <2>1 DEF OwnerKnows, OpeningLabels, SendLabels
<1>17. CASE AbortLostDelivery
  <2> DEFINE c == Aborted("DELIVERY_FAILURE")
  <2>1. \/ Leave
        \/ /\ pc' = "finish"
           /\ leg' = [leg EXCEPT !.mom = lock, !.goal = "lost", !.closure = c]
    BY <1>17 DEF AbortLostDelivery
  <2> HIDE DEF c
  <2>2. [leg EXCEPT !.mom = lock, !.goal = "lost", !.closure = c].goal = "lost"
    BY <1>l DEF LegRow
  <2> QED BY <1>e, <2>1, <2>2 DEF OwnerKnows, OpeningLabels, SendLabels
<1>18. CASE Serve \/ Land \/ ReconcileMomentLadder
  BY <1>18, <1>e DEF Serve, Land, ReconcileMomentLadder
<1>19. CASE \/ Start \/ RecoverOrphanTeachingLocks
            \/ \E m \in Msgs : CloseResidualTurn(m)
            \/ \E m \in Replies, env \in Envelopes : RespondToTeaching(m, env)
  <2>1. pc' \in {"openings", "residue", "replyEntry"}
    BY <1>19 DEF Start, RecoverOrphanTeachingLocks, CloseResidualTurn, RespondToTeaching, Goto
  <2> QED BY <1>1, <2>1 DEF OpeningLabels, SendLabels
<1> HIDE DEF UnchangedBut, stored
<1> QED BY <1>2, <1>3, <1>4, <1>5, <1>6, <1>7, <1>8, <1>9, <1>10, <1>11, <1>12, <1>13, <1>14,
           <1>15, <1>16, <1>17, <1>18, <1>19
        DEF Next, Step

(* The lock of another process is neither taken nor kept past the sweep.   *)
LEMMA RecoveredStep ==
    ASSUME TeachingInv, OwnerInv, Next
    PROVE  Recovered'
<1> USE DEF UnchangedBut, stored
<1>l. /\ leg \in LegRow /\ leg.msg \in Msgs /\ leg.mom \in Opens /\ Free \notin Opens
      /\ lock \in Opens \cup {Free} /\ faults \in Nat /\ Opens \subseteq Msgs
  BY LegFields, TeachingAssumption DEF TeachingInv, TypeOK, Msgs
<1>k. OwnerKnows /\ Recovered
  BY DEF OwnerInv
<1>1. CASE pc' \in {"openings", "sweep"} \/ leg'.back /= "idle" \/ faults' /= 0
  BY <1>1 DEF Recovered
<1>2. CASE lock' = Free
  BY <1>2 DEF Recovered, ForeignLock
<1>3. ASSUME epoch' = epoch, lock' = lock, faults' = faults,
             pc \notin {"openings", "sweep"}, leg.back = "idle"
      PROVE  Recovered'
  <2>1. CASE faults = 0 /\ lock \in Opens
    <3>1. turn[lock].owner = epoch
      BY <1>3, <1>k, <1>l, <2>1 DEF Recovered, ForeignLock, Mine
    <3>2. turn'[lock].owner = epoch
      BY <1>l, <2>1, <3>1, OwnersChange DEF TeachingInv
    <3> QED BY <1>3, <3>2 DEF Recovered, ForeignLock, Mine
  <2>2. CASE faults /= 0
    BY <1>1, <1>3, <2>2
  <2>3. CASE lock = Free
    BY <1>2, <1>3, <2>3
  <2> QED BY <1>l, <2>1, <2>2, <2>3
<1>e. Leave => \/ pc' \in {"openings", "sweep"}
               \/ leg.back = "idle"
  BY <1>l, LegFields DEF Leave
<1>4. CASE Start
  BY <1>1, <1>4 DEF Start
<1>5. CASE Fault
  BY <1>1, <1>5, <1>l DEF Fault
<1>6. CASE AbortUndeliveredOpenings
  <2> DEFINE c == Aborted("DELIVERY_FAILURE")
  <2>1. \/ pc' = "sweep"
        \/ leg' = [leg EXCEPT !.mom = lock, !.goal = "quiet", !.back = "sweep", !.closure = c]
    BY <1>6 DEF AbortUndeliveredOpenings, Goto
  <2> HIDE DEF c
  <2>2. [leg EXCEPT !.mom = lock, !.goal = "quiet", !.back = "sweep", !.closure = c].back
          = "sweep"
    BY <1>l DEF LegRow
  <2> QED BY <1>1, <2>1, <2>2
<1>7. CASE RecoverOrphanTeachingLocks
  <2>1. CASE ForeignLock
    BY <1>2, <1>7, <2>1 DEF RecoverOrphanTeachingLocks
  <2>2. CASE ~ForeignLock
    BY <1>7, <2>2 DEF RecoverOrphanTeachingLocks, ForeignLock, Mine, Recovered
  <2> QED BY <2>1, <2>2
<1>8. CASE \/ \E o \in Opens : RequestTeaching(o)
           \/ \E m \in Replies, env \in Envelopes : RespondToTeaching(m, env)
  <2>1. pc = "idle" /\ epoch' = epoch /\ lock' = lock /\ faults' = faults
    BY <1>8 DEF RequestTeaching, RespondToTeaching, Commit
  <2>2. leg.back = "idle"
    BY <1>k, <2>1 DEF OwnerKnows
  <2> QED BY <1>3, <2>1, <2>2
<1>9. CASE OpenTeachingMoment
  <2>1. /\ lock' = leg.msg /\ pc = "openGate" /\ epoch' = epoch
        /\ turn' = [turn EXCEPT ![leg.msg].first = "teaching-open"]
    BY <1>9 DEF OpenTeachingMoment
  <2>2. turn[leg.msg].owner = epoch
    BY <1>k, <2>1 DEF OwnerKnows, OpeningLabels, Mine
  <2>3. turn'[leg.msg].owner = epoch
    BY <1>l, <2>2, OwnersChange DEF TeachingInv
  <2> QED BY <2>1, <2>3 DEF Recovered, ForeignLock, Mine
<1>10. ASSUME pc \notin {"openings", "sweep"}, epoch' = epoch, faults' = faults,
              lock' = lock \/ lock' = Free,
              Leave \/ (leg' = leg \/ leg'.back = leg.back)
       PROVE  Recovered'
  <2>1. CASE leg.back = "idle"
    BY <1>2, <1>3, <1>10, <2>1
  <2>2. CASE leg.back /= "idle"
    BY <1>1, <1>10, <1>e, <2>2
  <2> QED BY <2>1, <2>2
<1>b. \A x : /\ [leg EXCEPT !.step = x].back = leg.back
             /\ [leg EXCEPT !.mom = x].back = leg.back
             /\ [leg EXCEPT !.todo = x].back = leg.back
  BY <1>l DEF LegRow
<1>11. ASSUME NEW m \in Msgs, CloseResidualTurn(m) PROVE Recovered'
  BY <1>10, <1>11, <1>b DEF CloseResidualTurn
<1>12. CASE EnterOpening
  BY <1>10, <1>12, <1>b DEF EnterOpening, Goto
<1>13. CASE EnterReply
  BY <1>10, <1>13, <1>b DEF EnterReply, Goto
<1>14. CASE Undelivered
  <2> DEFINE c == Aborted("DELIVERY_FAILURE")
             g == IF leg.goal = "opening" THEN "quiet" ELSE "close"
  <2>1. leg' = leg \/ leg' = [leg EXCEPT !.goal = g, !.closure = c]
    BY <1>14 DEF Undelivered, Goto
  <2> HIDE DEF c, g
  <2>2. [leg EXCEPT !.goal = g, !.closure = c].back = leg.back
    BY <1>l DEF LegRow
  <2> QED BY <1>10, <1>14, <2>1, <2>2 DEF Undelivered
<1>15. ASSUME NEW v \in {"none", "ALLOW", "DEGRADED", "HARD", "POLICY"}, Decide(v)
       PROVE  Recovered'
  <2> DEFINE d == Decision(leg.mom, leg.env)
             p == IF d.gated THEN AfterGate(d, v) ELSE d
             t == LadderStep(moment[leg.mom], p.kind)
  <2>1. /\ pc = "decide" /\ epoch' = epoch /\ faults' = faults /\ lock' = lock
        /\ \/ leg' = [leg EXCEPT !.goal = "close", !.closure = p.closure]
           \/ leg' = [leg EXCEPT !.goal = "continue", !.kind = p.kind, !.step = t]
           \/ Leave
    BY <1>15 DEF Decide
  <2> HIDE DEF d, p, t
  <2>2. /\ [leg EXCEPT !.goal = "close", !.closure = p.closure].back = leg.back
        /\ [leg EXCEPT !.goal = "continue", !.kind = p.kind, !.step = t].back = leg.back
    BY <1>l DEF LegRow
  <2>3. CASE ~Leave
    <3>1. leg'.back = leg.back
      BY <2>1, <2>2, <2>3
    <3> QED BY <1>10, <2>1, <3>1
  <2>4. CASE Leave
    BY <1>10, <2>1, <2>4
  <2> QED BY <2>3, <2>4
<1>16. CASE AbortLostDelivery
  <2> DEFINE c == Aborted("DELIVERY_FAILURE")
  <2>1. Leave \/ leg' = [leg EXCEPT !.mom = lock, !.goal = "lost", !.closure = c]
    BY <1>16 DEF AbortLostDelivery
  <2> HIDE DEF c
  <2>2. [leg EXCEPT !.mom = lock, !.goal = "lost", !.closure = c].back = leg.back
    BY <1>l DEF LegRow
  <2> QED BY <1>10, <1>16, <2>1, <2>2 DEF AbortLostDelivery
<1>17. CASE Resume
  <2>1. Leave \/ leg'.back = leg.back
    BY <1>17, <1>b DEF Resume
  <2> QED BY <1>10, <1>17, <2>1 DEF Resume
<1>18. CASE TerminalizeMoment
  <2>1. lock' = lock \/ lock' = Free
    BY <1>18 DEF TerminalizeMoment
  <2> QED BY <1>10, <1>18, <2>1 DEF TerminalizeMoment, Goto
<1>19. CASE \/ Serve \/ RecordCycle \/ ReplayDelivery \/ BeginDelivery \/ CreateAction
            \/ RunAction \/ ProduceReply \/ ProduceNothing \/ SendReply \/ TranscribeReply
            \/ CompleteAction \/ TerminalizeTurn
            \/ \E v \in {"DENY", "DEGRADED", "STALE"} : RefuseOpening(v)
  BY <1>10, <1>19
     DEF Serve, RecordCycle, ReplayDelivery, BeginDelivery, CreateAction, RunAction,
         ProduceReply, ProduceNothing, SendReply, TranscribeReply, CompleteAction,
         TerminalizeTurn, RefuseOpening, Goto
<1>20. CASE \/ Land \/ Evaluate \/ RecordAttempt \/ MarkPostReveal \/ AdvanceToDeciding
            \/ Finish \/ SettleAction \/ SettleTurn \/ ReconcileMomentLadder
  BY <1>10, <1>20
     DEF Land, Evaluate, RecordAttempt, MarkPostReveal, AdvanceToDeciding, Finish,
         SettleAction, SettleTurn, ReconcileMomentLadder, PutMoment, Goto
<1> HIDE DEF UnchangedBut, stored
<1> QED BY <1>4, <1>5, <1>6, <1>7, <1>8, <1>9, <1>11, <1>12, <1>13, <1>14, <1>15, <1>16,
           <1>17, <1>18, <1>19, <1>20
        DEF Next, Step

(* After a recovery in which nothing failed, the lock is the serving       *)
(* process's own, for any number of processes that died anywhere before    *)
(* (run_startup_recovery, recover_orphan_teaching_locks).                  *)
THEOREM LockIsNotForeign == Spec => []NoForeignLock
<1>1. Init => OwnerInv
  <2> SUFFICES ASSUME Init PROVE OwnerInv
    OBVIOUS
  <2>1. /\ pc = "down" /\ lock = Free
        /\ \A o \in Opens : turn[o].status = "ABSENT" /\ turn[o].first = "none"
    BY DEF Init, NoTurn, Msgs
  <2> QED BY <2>1 DEF OwnerInv, Unopened, OwnerKnows, Recovered, ForeignLock, OpeningLabels,
                      SendLabels
<1>2. TeachingInv /\ OwnerInv /\ [Next]_vars => OwnerInv'
  <2> SUFFICES ASSUME TeachingInv, OwnerInv, [Next]_vars PROVE OwnerInv'
    OBVIOUS
  <2>1. CASE Next
    BY <2>1, UnopenedStep, OwnerKnowsStep, RecoveredStep DEF OwnerInv
  <2>2. CASE UNCHANGED vars
    BY <2>2 DEF vars, OwnerInv, Unopened, OwnerKnows, Recovered, ForeignLock, Mine, Live
  <2> QED BY <2>1, <2>2
<1>3. OwnerInv => NoForeignLock
  BY DEF OwnerInv, OwnerKnows, Recovered, NoForeignLock
<1> QED BY InvHolds, <1>1, <1>2, <1>3, PTL DEF Spec

----------------------------------------------------------------------------
(* For the callers of the web host: a moment that takes an answer has been *)
(* landed with all the help it gave, and one that is not presented has     *)
(* shown nothing of the form.                                              *)
Covers(o, support) ==
    /\ support >= ContextOnly
    /\ \A m \in Delivered(o, TeachingSlots) : said[m].support <= support
Covered(o) == Covers(o, moment[o].support)

Answerable   == {"AWAITING_USER", "EVALUATING"}
Unpresented  == {"ABSENT", "OPENING"}
ResendLabels == {"inflight", "settle", "lost", "reconcile"}

WebKnows ==
    /\ pc \notin ResendLabels
    /\ pc = "openEntry" => turn[leg.msg].cycle = 0
    /\ pc = "replyEntry" =>
         /\ lock /= Free /\ moment[lock].state = "AWAITING_USER"
         /\ turn[leg.msg].status = "USER_COMMITTED"
    /\ pc \in ReplyLabels => Covered(leg.mom)
    /\ leg.goal = "continue" =>
         /\ pc \in UnsaidLabels => Covered(leg.mom)
         /\ pc \in SaidLabels => Covers(leg.mom, leg.step.support)

HelpIsCovered ==
    \A o \in Opens : /\ moment[o].state \in Answerable => Covered(o)
                     /\ moment[o].state \in Unpresented => Covers(o, ContextOnly)

WebInv == HelpIsCovered /\ WebKnows /\ SupportCoversShown

(* The support of a moment moves when it opens or lands.                   *)
LEMMA SupportKept ==
    ASSUME TeachingInv, Next, ~OpenTeachingMoment, ~Land, ~ReconcileMomentLadder,
           NEW o \in Opens
    PROVE  /\ moment'[o].support = moment[o].support
           /\ moment'[o].state \in Answerable => moment[o].state \in Answerable
           /\ moment'[o].state \in Unpresented => moment[o].state \in Unpresented
<1> USE DEF UnchangedBut, stored
<1> DEFINE Kept(x, y) == /\ y.support = x.support
                         /\ y.state \in Answerable => x.state \in Answerable
                         /\ y.state \in Unpresented => x.state \in Unpresented
<1>l. /\ moment \in [Opens -> MomentRow] /\ leg.mom \in Opens /\ moment[leg.mom] \in MomentRow
  BY LegFields DEF TeachingInv, TypeOK
<1> SUFFICES Kept(moment[o], moment'[o])
  OBVIOUS
<1>p. ASSUME NEW q, NEW r, moment' = [moment EXCEPT ![q] = r],
             q \in Opens => Kept(moment[q], r)
      PROVE  Kept(moment[o], moment'[o])
  BY <1>l, <1>p
<1>1. CASE moment' = moment
  BY <1>1
<1>2. CASE RecoverOrphanTeachingLocks
  <2>1. CASE moment' = [moment EXCEPT ![lock] =
                          [@ EXCEPT !.state = "CLOSED",
                                    !.closure.abort = "SYSTEM_RECOVERY_ABORT"]]
    <3>1. \A x \in MomentRow :
             Kept(x, [x EXCEPT !.state = "CLOSED",
                               !.closure.abort = "SYSTEM_RECOVERY_ABORT"])
      BY DEF MomentRow, Answerable, Unpresented
    <3> HIDE DEF Kept
    <3> QED BY <1>l, <1>p, <2>1, <3>1
  <2> QED BY <1>1, <1>2, <2>1 DEF RecoverOrphanTeachingLocks
<1>3. CASE Evaluate
  <2> DEFINE r == [moment[leg.mom] EXCEPT !.state = IF @ = "AWAITING_USER" THEN "EVALUATING"
                                                    ELSE @]
  <2>1. Kept(moment[leg.mom], r)
    BY <1>l DEF MomentRow, Answerable, Unpresented
  <2>2. moment' = moment \/ moment' = [moment EXCEPT ![leg.mom] = r]
    BY <1>3 DEF Evaluate, PutMoment
  <2> HIDE DEF r, Kept
  <2> QED BY <1>1, <1>p, <2>1, <2>2
<1>4. CASE RecordAttempt
  <2>1. \A n : Kept(moment[leg.mom], [moment[leg.mom] EXCEPT !.index = n])
    BY <1>l DEF MomentRow
  <2>2. moment' = moment
        \/ moment' = [moment EXCEPT ![leg.mom] =
                        [moment[leg.mom] EXCEPT !.index = moment[leg.mom].index + 1]]
    BY <1>4 DEF RecordAttempt, InsertAttempt
  <2> HIDE DEF Kept
  <2> QED BY <1>1, <1>p, <2>1, <2>2
<1>5. CASE MarkPostReveal
  <2> DEFINE r == [moment[leg.mom] EXCEPT !.phase = IF @ = FullReveal THEN PostReveal ELSE @]
  <2>1. Kept(moment[leg.mom], r)
    BY <1>l DEF MomentRow
  <2>2. moment' = moment \/ moment' = [moment EXCEPT ![leg.mom] = r]
    BY <1>5 DEF MarkPostReveal, PutMoment
  <2> HIDE DEF r, Kept
  <2> QED BY <1>1, <1>p, <2>1, <2>2
<1>6. CASE AdvanceToDeciding
  <2> DEFINE r == [moment[leg.mom] EXCEPT !.state = IF @ = "AWAITING_USER" THEN "EVALUATING"
                                                    ELSE "DECIDING_NEXT_ACTION"]
  <2>1. Kept(moment[leg.mom], r)
    BY <1>l DEF MomentRow, Answerable, Unpresented
  <2>2. moment' = moment \/ moment' = [moment EXCEPT ![leg.mom] = r]
    BY <1>6 DEF AdvanceToDeciding, PutMoment
  <2> HIDE DEF r, Kept
  <2> QED BY <1>1, <1>p, <2>1, <2>2
<1>7. CASE Finish
  <2> DEFINE r == [moment[leg.mom] EXCEPT !.state = Closing(leg.closure),
                                         !.closure = leg.closure]
  <2>1. Kept(moment[leg.mom], r)
    BY <1>l DEF MomentRow, Closing, Answerable, Unpresented
  <2>2. moment' = moment \/ moment' = [moment EXCEPT ![leg.mom] = r]
    BY <1>7 DEF Finish, PutMoment
  <2> HIDE DEF r, Kept
  <2> QED BY <1>1, <1>p, <2>1, <2>2
<1>8. CASE TerminalizeMoment \/ Resume
  <2>1. \A s \in {"TEACHING_TERMINAL", "RESUMING"} :
           Kept(moment[leg.mom], [moment[leg.mom] EXCEPT !.state = s])
    BY <1>l DEF MomentRow, Answerable, Unpresented
  <2>2. moment' = moment
        \/ \E s \in {"TEACHING_TERMINAL", "RESUMING"} :
              moment' = [moment EXCEPT ![leg.mom] = [moment[leg.mom] EXCEPT !.state = s]]
    BY <1>8 DEF TerminalizeMoment, Resume
  <2> HIDE DEF Kept
  <2> QED BY <1>1, <1>p, <2>1, <2>2
<1> QED BY <1>1, <1>2, <1>3, <1>4, <1>5, <1>6, <1>7, <1>8
        DEF Next, Step, Start, Fault, RequestTeaching, RespondToTeaching,
            AbortUndeliveredOpenings, Serve, CloseResidualTurn, EnterOpening, RecordCycle,
            RefuseOpening, ReplayDelivery, BeginDelivery, CreateAction, RunAction,
            ProduceReply, ProduceNothing, SendReply, TranscribeReply, CompleteAction,
            TerminalizeTurn, Undelivered, EnterReply, Decide, SettleAction, SettleTurn,
            AbortLostDelivery

(* Only a continuation under way shows more, and only of its own moment.   *)
LEMMA ShownStep ==
    ASSUME TeachingInv, DeliveryInv, Next, NEW o \in Opens,
           NEW m \in Msgs, said'[m].slot \in TeachingSlots, act'[m][said'[m].slot].mom = o
    PROVE  \/ m \in Delivered(o, TeachingSlots) /\ said'[m] = said[m]
           \/ said'[m].support = 0
           \/ /\ TranscribeReply /\ leg.goal = "continue" /\ o = leg.mom /\ m = leg.msg
              /\ said'[m].support \in {0, leg.step.support}
<1>l. /\ leg.msg \in Msgs /\ said \in [Msgs -> SaidRow] /\ said[m] \in SaidRow
      /\ TypeOK /\ "none" \notin TeachingSlots
  BY LegFields DEF TeachingInv, TypeOK, TeachingSlots, Slots
<1>1. CASE said'[m] = said[m]
  <2>1. said[m].slot \in Slots /\ SpokenSlot(m) /\ act[m][said[m].slot].status /= "ABSENT"
    BY <1>1, <1>l DEF TeachingSlots, SpokenSlot, DeliveryInv, Spoken
  <2>2. said[m].slot = "teaching-open" => said[m].support = 0
    BY DEF DeliveryInv, Spoken
  <2>3. said[m].slot /= "teaching-open"
          => act'[m][said[m].slot].mom = act[m][said[m].slot].mom
    BY <1>l, <2>1, ActsKeptStep DEF ActsKept
  <2> QED BY <1>1, <2>1, <2>2, <2>3 DEF Delivered
<1>2. CASE said'[m] /= said[m] /\ TranscribeReply
  <2>1. /\ m = leg.msg /\ pc = "transcribe" /\ act' = act
        /\ said'[m] = [slot |-> leg.step.slot, support |-> Shows(leg.step)]
    BY <1>2, <1>l DEF TranscribeReply
  <2>2. /\ said'[m].support \in {0, leg.step.support}
        /\ leg.step.slot \notin {"hint", "reveal"} => said'[m].support = 0
        /\ said'[m].slot = leg.step.slot
    BY <2>1 DEF Shows
  <2>3. leg.goal = "continue" => o = leg.mom
    BY <2>1, <2>2 DEF DeliveryInv, ActionKnows, SendLabels
  <2>4. leg.goal /= "continue" => leg.step.slot \notin {"hint", "reveal"}
    BY <2>1 DEF DeliveryInv, ActionKnows, UnsaidLabels, SendLabels, TeachingInv, LegKnows,
                SendKnows
  <2> QED BY <1>2, <2>1, <2>2, <2>3, <2>4
<1>3. said'[m] = said[m] \/ TranscribeReply
  BY DEF Next, Step, stored, Start, Fault, RequestTeaching, RespondToTeaching,
         AbortUndeliveredOpenings, RecoverOrphanTeachingLocks, Serve, CloseResidualTurn,
         EnterOpening, RecordCycle, OpenTeachingMoment, RefuseOpening, ReplayDelivery,
         BeginDelivery, CreateAction, RunAction, ProduceReply, ProduceNothing, SendReply,
         CompleteAction, TerminalizeTurn, Undelivered, Land, EnterReply, Evaluate,
         RecordAttempt, MarkPostReveal, AdvanceToDeciding, Decide, Finish,
         TerminalizeMoment, Resume, SettleAction, SettleTurn, AbortLostDelivery,
         ReconcileMomentLadder
<1> QED BY <1>1, <1>2, <1>3

LEMMA CoversKept ==
    ASSUME TeachingInv, DeliveryInv, Next, NEW o \in Opens, NEW s \in Nat, Covers(o, s),
           TranscribeReply /\ leg.goal = "continue" /\ o = leg.mom => leg.step.support <= s
    PROVE  Covers(o, s)'
<1>1. s >= ContextOnly /\ \A m \in Delivered(o, TeachingSlots) : said[m].support <= s
  BY DEF Covers
<1>2. ASSUME NEW m \in Msgs, said'[m].slot \in TeachingSlots,
             act'[m][said'[m].slot].mom = o
      PROVE  said'[m].support <= s
  <2>1. \/ m \in Delivered(o, TeachingSlots) /\ said'[m] = said[m]
        \/ said'[m].support = 0
        \/ /\ TranscribeReply /\ leg.goal = "continue" /\ o = leg.mom /\ m = leg.msg
           /\ said'[m].support \in {0, leg.step.support}
    BY <1>2, ShownStep
  <2> QED BY <1>1, <2>1
<1> QED BY <1>1, <1>2 DEF Covers, Delivered

LEMMA HelpIsCoveredStep ==
    ASSUME TeachingInv, DeliveryInv, WebInv, Next
    PROVE  HelpIsCovered'
<1> USE DEF UnchangedBut, stored
<1>l. /\ leg \in LegRow /\ leg.mom \in Opens /\ leg.msg \in Msgs /\ leg.step.support \in Nat
      /\ moment \in [Opens -> MomentRow] /\ \A o \in Opens : moment[o] \in MomentRow
      /\ \A o \in Opens : moment[o].support \in Nat
      /\ ContextOnly \in Nat
  BY LegFields, MomentFields DEF TeachingInv, TypeOK, FullForm, ContextOnly
<1>h. \A o \in Opens : /\ moment[o].state \in Answerable => Covers(o, moment[o].support)
                       /\ moment[o].state \in Unpresented => Covers(o, ContextOnly)
  BY DEF WebInv, HelpIsCovered, Covered
<1>t. ASSUME TranscribeReply, leg.goal = "continue"
      PROVE  moment' = moment /\ moment[leg.mom].state \notin Answerable \cup Unpresented
  BY <1>t DEF TranscribeReply, DeliveryInv, ActionKnows, SendLabels, Answerable, Unpresented
<1> SUFFICES ASSUME NEW o \in Opens
             PROVE  /\ moment'[o].state \in Answerable => Covers(o, moment[o].support)'
                    /\ moment'[o].state \in Unpresented => Covers(o, ContextOnly)'
  BY DEF HelpIsCovered, Covered
<1>k. ASSUME moment'[o].support = moment[o].support,
             moment'[o].state \in Answerable => moment[o].state \in Answerable,
             moment'[o].state \in Unpresented => moment[o].state \in Unpresented
      PROVE  /\ moment'[o].state \in Answerable => Covers(o, moment[o].support)'
             /\ moment'[o].state \in Unpresented => Covers(o, ContextOnly)'
  <2>1. PICK s \in Nat : s = moment[o].support
    BY <1>l
  <2>2. ASSUME moment'[o].state \in Answerable PROVE Covers(o, moment[o].support)'
    <3>1. Covers(o, s)
      BY <1>h, <1>k, <2>1, <2>2
    <3>2. Covers(o, s)'
      BY <1>k, <1>t, <2>2, <3>1, CoversKept
    <3> QED BY <1>k, <2>1, <3>2 DEF Covers
  <2>3. ASSUME moment'[o].state \in Unpresented PROVE Covers(o, ContextOnly)'
    <3>1. Covers(o, ContextOnly)
      BY <1>h, <1>k, <2>3
    <3> QED BY <1>k, <1>l, <1>t, <2>3, <3>1, CoversKept
  <2> QED BY <2>2, <2>3
<1>1. CASE ~OpenTeachingMoment /\ ~Land /\ ~ReconcileMomentLadder
  BY <1>1, <1>k, SupportKept
<1>2. CASE OpenTeachingMoment
  <2> DEFINE row == [NoMoment EXCEPT !.state = "OPENING"]
  <2>1. /\ moment' = [moment EXCEPT ![leg.msg] = row] /\ row.state = "OPENING"
        /\ pc = "openGate"
    BY <1>2 DEF OpenTeachingMoment, NoMoment
  <2>2. moment[leg.msg].state = "ABSENT" /\ leg.msg \in Opens
    BY <2>1 DEF TeachingInv, LegKnows, OpeningKnows, OpeningLabels
  <2> HIDE DEF row
  <2>3. CASE o = leg.msg
    <3>1. moment'[o].state = "OPENING" /\ Covers(o, ContextOnly)
      BY <1>h, <1>l, <2>1, <2>2, <2>3 DEF Unpresented
    <3>2. ~TranscribeReply
      BY <2>1 DEF TranscribeReply
    <3>3. Covers(o, ContextOnly)'
      BY <1>l, <3>1, <3>2, CoversKept
    <3> QED BY <3>1, <3>3 DEF Answerable
  <2>4. CASE o /= leg.msg
    BY <1>k, <1>l, <2>1, <2>4
  <2> QED BY <2>3, <2>4
<1>3. CASE Land
  <2>1. CASE moment'[o] = moment[o]
    BY <1>k, <2>1
  <2>2. CASE o = leg.mom /\ moment'[o] = Landed(moment[o]) /\ moment'[o] /= moment[o]
    <3>t. pc = "land" /\ ~TranscribeReply
      BY <1>3 DEF Land, TranscribeReply
    <3>1. CASE leg.goal = "continue"
      <4>1. PICK s \in Nat : s = leg.step.support
        BY <1>l
      <4>2. /\ moment'[o].state = "AWAITING_USER" /\ moment'[o].support = s
        BY <1>l, <2>2, <3>1, <4>1 DEF Landed, MomentRow
      <4>3. Covers(o, s)
        BY <2>2, <3>1, <3>t, <4>1 DEF WebInv, WebKnows, SaidLabels
      <4>4. Covers(o, s)'
        BY <3>t, <4>3, CoversKept
      <4>5. Covers(o, moment[o].support)'
        BY <4>2, <4>4 DEF Covers
      <4> QED BY <4>2, <4>5 DEF Unpresented
    <3>2. CASE leg.goal = "opening"
      <4>1. moment[o].state = "OPENING"
        BY <2>2, <3>2 DEF Landed
      <4>2. /\ moment'[o].state = "AWAITING_USER" /\ moment'[o].support = ContextOnly
        BY <1>l, <2>2, <3>2, <4>1 DEF Landed, MomentRow
      <4>3. Covers(o, ContextOnly)'
        BY <1>h, <1>l, <3>t, <4>1, CoversKept DEF Unpresented
      <4>4. Covers(o, moment[o].support)'
        BY <4>2, <4>3 DEF Covers
      <4> QED BY <4>2, <4>4 DEF Unpresented
    <3>3. CASE leg.goal \notin {"continue", "opening"}
      <4>1. moment'[o].state = "CLOSED"
        BY <1>l, <2>2, <3>3 DEF Landed, MomentRow
      <4> QED BY <4>1 DEF Unpresented, Answerable
    <3> QED BY <3>1, <3>2, <3>3
  <2>3. moment' = [moment EXCEPT ![leg.mom] = IF Mine(leg.mom) THEN Landed(@) ELSE @]
    BY <1>3 DEF Land
  <2> QED BY <1>l, <2>1, <2>2, <2>3
<1>4. ~ReconcileMomentLadder
  BY DEF ReconcileMomentLadder, WebInv, WebKnows, ResendLabels
<1> QED BY <1>1, <1>2, <1>3, <1>4

LEMMA WebKnowsStep ==
    ASSUME WebHost, TeachingInv, DeliveryInv, WebInv, Next
    PROVE  WebKnows'
<1> USE DEF UnchangedBut, stored
<1>l. /\ leg \in LegRow /\ leg.mom \in Opens /\ leg.msg \in Msgs /\ leg.step.support \in Nat
      /\ moment \in [Opens -> MomentRow] /\ turn \in [Msgs -> TurnRow]
      /\ \A o \in Opens : moment[o] \in MomentRow /\ moment[o].support \in Nat
      /\ lock \in Opens \cup {Free} /\ leg.step \in LadderPlan
  BY LegFields, MomentFields DEF TeachingInv, TypeOK, FullForm
<1>k. WebKnows
  BY DEF WebInv
<1> DEFINE Told == {"openEntry", "replyEntry"} \cup ResendLabels \cup ReplyLabels
           Told2 == UnsaidLabels \cup SaidLabels
<1>r. pc' \notin Told /\ (pc' \notin Told2 \/ leg'.goal /= "continue") => WebKnows'
  BY DEF WebKnows
<1>x. Told \cap Told2 = {} /\ {"idle", "sweep", "residue", "openings", "finish", "terminalize",
      "resume", "silent", "undelivered", "cycle", "repair", "openGate"} \cap (Told \cup Told2) = {}
  BY DEF ResendLabels, ReplyLabels, UnsaidLabels, SaidLabels
<1>e. Leave => WebKnows'
  BY <1>r, <1>x, LeaveTyped DEF TeachingInv
<1>1. CASE pc' \notin Told \cup Told2
  BY <1>1, <1>r
<1>2. ASSUME NEW o \in Opens, RequestTeaching(o) PROVE WebKnows'
  <2>1. /\ pc' = "openEntry" /\ leg'.msg = o /\ leg'.goal = "opening" /\ o \in Msgs
        /\ turn'[o].cycle = 0
    BY <1>2, <1>l DEF RequestTeaching, FreshLeg, Commit, Msgs
  <2> QED BY <2>1 DEF WebKnows, ResendLabels, ReplyLabels
<1>3. ASSUME NEW m \in Replies, NEW env \in Envelopes, RespondToTeaching(m, env)
      PROVE  WebKnows'
  <2>1. /\ pc' = "replyEntry" /\ leg' = [FreshLeg(m, AnyOpen, "none", {}) EXCEPT !.env = env]
        /\ turn' = [turn EXCEPT ![m] = [status |-> "USER_COMMITTED", owner |-> epoch,
                                        cycle |-> 0, env |-> env, first |-> "none"]]
        /\ lock' = lock /\ moment' = moment
        /\ lock /= Free /\ moment[lock].state = "AWAITING_USER" /\ m \in Msgs
    BY <1>3, <1>l DEF RespondToTeaching, Commit, Msgs
  <2>2. leg'.msg = m /\ leg'.goal = "none"
    BY <2>1 DEF FreshLeg
  <2>3. turn'[m].status = "USER_COMMITTED"
    BY <1>l, <2>1
  <2> QED BY <2>1, <2>2, <2>3 DEF WebKnows, ResendLabels, ReplyLabels
<1>4. CASE Fault
  <2>1. pc' \in {"sweep", "idle", "residue"} \/ Leave
    BY <1>4 DEF Fault, Goto
  <2> QED BY <1>1, <1>e, <1>x, <2>1
<1>5. CASE EnterOpening
  <2>1. pc' = "cycle" \/ Leave
    BY <1>5, <1>k, <1>l DEF EnterOpening, Goto, WebKnows
  <2> QED BY <1>1, <1>e, <1>x, <2>1
<1>6. CASE OpenTeachingMoment
  <2>1. /\ pc' = "deliver" /\ leg' = [leg EXCEPT !.step = OpeningStep] /\ leg.goal = "opening"
    BY <1>6 DEF OpenTeachingMoment, TeachingInv, LegKnows, OpeningKnows, OpeningLabels
  <2>2. leg'.goal = leg.goal
    BY <1>l, <2>1 DEF LegRow
  <2> QED BY <1>r, <2>1, <2>2 DEF ResendLabels, ReplyLabels
<1>7. CASE EnterReply
  <2>1. /\ pc = "replyEntry" /\ lock \in Opens /\ moment[lock].state = "AWAITING_USER"
        /\ lock /= Free /\ turn[leg.msg].status = "USER_COMMITTED"
    BY <1>7, <1>k, <1>l DEF EnterReply, WebKnows
  <2>2. /\ pc' \in {"deciding", "evaluate"} /\ leg' = [leg EXCEPT !.mom = lock]
        /\ UNCHANGED <<moment, said, act>>
    BY <1>7, <2>1 DEF EnterReply, ReplyPath
  <2>3. PICK o \in Opens : o = lock
    BY <2>1
  <2>4. leg'.mom = o
    BY <1>l, <2>2, <2>3 DEF LegRow
  <2>5. Covered(o)
    BY <2>1, <2>3 DEF WebInv, HelpIsCovered, Answerable
  <2>6. Covered(leg.mom)'
    BY <2>2, <2>4, <2>5 DEF Covered, Covers, Delivered
  <2> QED BY <2>2, <2>6 DEF WebKnows, ResendLabels, UnsaidLabels, SaidLabels
<1>8. CASE Evaluate \/ RecordAttempt \/ MarkPostReveal \/ AdvanceToDeciding
  <2>1. CASE ~Leave
    <3>1. /\ pc \in ReplyLabels /\ pc' \in ReplyLabels /\ leg' = leg /\ said' = said /\ act' = act
      BY <1>8, <2>1
         DEF Evaluate, RecordAttempt, MarkPostReveal, AdvanceToDeciding, PutMoment, Goto,
             ReplyLabels
    <3>2. PICK o \in Opens : o = leg.mom
      BY <1>l
    <3>3. Covered(o)
      BY <1>k, <3>1, <3>2 DEF WebKnows
    <3>4. moment'[o].support = moment[o].support
      <4>1. ~OpenTeachingMoment /\ ~Land /\ ~ReconcileMomentLadder
        BY <3>1 DEF OpenTeachingMoment, Land, ReconcileMomentLadder, ReplyLabels
      <4> QED BY <4>1, SupportKept
    <3>5. Covered(leg.mom)'
      BY <3>1, <3>2, <3>3, <3>4 DEF Covered, Covers, Delivered
    <3> QED BY <3>1, <3>5 DEF WebKnows, ResendLabels, ReplyLabels, UnsaidLabels, SaidLabels
  <2> QED BY <1>e, <2>1
<1>9. ASSUME NEW v \in {"none", "ALLOW", "DEGRADED", "HARD", "POLICY"}, Decide(v)
      PROVE  WebKnows'
  <2> DEFINE d == Decision(leg.mom, leg.env)
             p == IF d.gated THEN AfterGate(d, v) ELSE d
             t == LadderStep(moment[leg.mom], p.kind)
  <2>1. /\ pc = "decide" /\ UNCHANGED <<moment, said, act>>
        /\ \/ pc' = "finish"
           \/ /\ pc' = "deliver"
              /\ leg' = [leg EXCEPT !.goal = "continue", !.kind = p.kind, !.step = t]
           \/ Leave
    BY <1>9 DEF Decide
  <2> HIDE DEF d, p, t
  <2>2. CASE /\ pc' = "deliver"
             /\ leg' = [leg EXCEPT !.goal = "continue", !.kind = p.kind, !.step = t]
    <3>1. leg'.mom = leg.mom
      BY <1>l, <2>2 DEF LegRow
    <3>2. Covered(leg.mom)
      BY <1>k, <2>1 DEF WebKnows, ReplyLabels
    <3>3. Covered(leg.mom)'
      BY <2>1, <3>1, <3>2 DEF Covered, Covers, Delivered
    <3> QED BY <2>2, <3>3 DEF WebKnows, ResendLabels, ReplyLabels, UnsaidLabels, SaidLabels
  <2> QED BY <1>1, <1>e, <1>x, <2>1, <2>2
<1>10. CASE ReplayDelivery
  <2>1. /\ leg' = leg /\ pc = "deliver"
        /\ pc' = IF said[leg.msg].slot /= "none" THEN "land" ELSE "undelivered"
    BY <1>10 DEF ReplayDelivery, Goto
  <2>2. leg.goal = "continue" => pc' = "undelivered"
    BY <2>1 DEF DeliveryInv, ActionKnows, UnsaidLabels, SendLabels
  <2> QED BY <1>r, <1>x, <2>1, <2>2 DEF SaidLabels
<1>11. CASE BeginDelivery \/ CreateAction \/ RunAction \/ ProduceReply \/ SendReply
  <2>1. CASE ~Leave
    <3>1. leg' = leg /\ moment' = moment /\ pc \in UnsaidLabels \ {"transcribe"}
          /\ pc' \in UnsaidLabels
      BY <1>11, <2>1
         DEF BeginDelivery, CreateAction, RunAction, ProduceReply, SendReply, Goto,
             UnsaidLabels
    <3>2. CASE leg.goal = "continue"
      <4>1. PICK o \in Opens : o = leg.mom
        BY <1>l
      <4>2. PICK s \in Nat : s = moment[o].support
        BY <1>l
      <4>3. Covers(o, s) /\ ~TranscribeReply
        BY <1>k, <3>1, <3>2, <4>1, <4>2 DEF WebKnows, Covered, TranscribeReply
      <4>4. Covers(o, s)'
        BY <4>3, CoversKept
      <4>5. Covered(leg.mom)'
        BY <3>1, <4>1, <4>2, <4>4 DEF Covered, Covers, Delivered
      <4> QED BY <3>1, <4>5 DEF WebKnows, ResendLabels, ReplyLabels, UnsaidLabels, SaidLabels
    <3> QED BY <1>r, <1>x, <3>1, <3>2
  <2> QED BY <1>e, <2>1
<1>12. CASE TranscribeReply
  <2>1. leg' = leg /\ moment' = moment /\ pc = "transcribe" /\ pc' = "complete"
    BY <1>12 DEF TranscribeReply, Goto
  <2>2. CASE leg.goal = "continue"
    <3>1. PICK o \in Opens : o = leg.mom
      BY <1>l
    <3>2. PICK s \in Nat : s = leg.step.support
      BY <1>l
    <3>3. Covers(o, moment[o].support) /\ moment[o].support <= s
      BY <1>k, <1>l, <2>1, <2>2, <3>1, <3>2
         DEF WebKnows, Covered, UnsaidLabels, TeachingInv, LegKnows, SendKnows, SendLabels
    <3>4. Covers(o, s)
      <4>1. \A m \in Delivered(o, TeachingSlots) : said[m].support \in Nat
        BY DEF Delivered, TeachingInv, TypeOK, SaidRow, FullForm
      <4> QED BY <1>l, <3>3, <4>1 DEF Covers, ContextOnly
    <3>5. Covers(o, s)'
      BY <3>2, <3>4, CoversKept
    <3>6. Covers(leg.mom, leg.step.support)'
      BY <2>1, <3>1, <3>2, <3>5 DEF Covers, Delivered
    <3> QED BY <2>1, <3>6 DEF WebKnows, ResendLabels, ReplyLabels, UnsaidLabels
  <2>3. CASE leg.goal /= "continue"
    BY <1>r, <2>1, <2>3 DEF ResendLabels, ReplyLabels
  <2> QED BY <2>2, <2>3
<1>13. CASE CompleteAction \/ TerminalizeTurn
  <2>1. CASE Leave \/ pc' = "undelivered"
    BY <1>1, <1>e, <1>x, <2>1
  <2>2. CASE ~Leave /\ pc' /= "undelivered"
    <3>1. leg' = leg /\ pc \in SaidLabels /\ pc' \in SaidLabels
      BY <1>13, <2>2 DEF CompleteAction, TerminalizeTurn, Goto, SaidLabels
    <3>2. CASE leg.goal = "continue"
      <4>1. PICK o \in Opens : o = leg.mom
        BY <1>l
      <4>2. PICK s \in Nat : s = leg.step.support
        BY <1>l
      <4>3. Covers(o, s) /\ ~TranscribeReply
        BY <1>k, <3>1, <3>2, <4>1, <4>2 DEF WebKnows, TranscribeReply, SaidLabels
      <4>4. Covers(o, s)'
        BY <4>3, CoversKept
      <4>5. Covers(leg.mom, leg.step.support)'
        BY <3>1, <4>1, <4>2, <4>4 DEF Covers, Delivered
      <4> QED BY <3>1, <4>5 DEF WebKnows, ResendLabels, ReplyLabels, UnsaidLabels, SaidLabels
    <3> QED BY <1>r, <1>x, <3>1, <3>2
  <2> QED BY <2>1, <2>2
<1>14. CASE Undelivered
  <2>1. CASE leg.goal = "close"
    <3>1. leg' = leg /\ pc' = "land"
      BY <1>14, <2>1 DEF Undelivered, Goto
    <3> QED BY <1>r, <1>x, <2>1, <3>1 DEF SaidLabels
  <2>2. CASE leg.goal /= "close"
    <3>1. pc' = "finish"
      BY <1>14, <2>2 DEF Undelivered
    <3> QED BY <1>1, <1>x, <3>1
  <2> QED BY <2>1, <2>2
<1>15. CASE Resume
  <2>1. CASE ~Leave
    <3>1. /\ leg' = [leg EXCEPT !.step = StepTo(0, 0, "resume")] /\ pc' \in {"deliver", "land"}
          /\ leg.goal \in {"close", "quiet", "lost"}
      BY <1>15, <2>1 DEF Resume, TeachingInv, LegKnows, CloseKnows
    <3>2. leg'.goal = leg.goal
      BY <1>l, <3>1 DEF LegRow
    <3> QED BY <1>r, <1>x, <3>1, <3>2 DEF SaidLabels, UnsaidLabels
  <2> QED BY <1>e, <2>1
<1>16. CASE \/ Start \/ AbortUndeliveredOpenings \/ RecoverOrphanTeachingLocks \/ RecordCycle
            \/ \E m \in Msgs : CloseResidualTurn(m)
            \/ \E v \in {"DENY", "DEGRADED", "STALE"} : RefuseOpening(v)
  <2>1. pc' \in {"openings", "sweep", "finish", "residue", "openGate", "repair"} \/ Leave
    BY <1>16 DEF Start, AbortUndeliveredOpenings, RecoverOrphanTeachingLocks, RecordCycle,
                 CloseResidualTurn, RefuseOpening, Goto
  <2> QED BY <1>1, <1>e, <1>x, <2>1
<1>17. CASE Finish \/ TerminalizeMoment \/ ProduceNothing
  <2>1. pc' \in {"terminalize", "resume", "silent"} \/ Leave
    BY <1>17 DEF Finish, TerminalizeMoment, ProduceNothing, PutMoment, Goto
  <2> QED BY <1>1, <1>e, <1>x, <2>1
<1>18. CASE Serve \/ Land
  BY <1>18, <1>e DEF Serve, Land
<1>19. ~SettleAction /\ ~SettleTurn /\ ~AbortLostDelivery /\ ~ReconcileMomentLadder
  BY <1>k DEF WebKnows, ResendLabels, SettleAction, SettleTurn, AbortLostDelivery,
              ReconcileMomentLadder
<1> HIDE DEF UnchangedBut, stored, Told, Told2
<1> QED BY <1>2, <1>3, <1>4, <1>5, <1>6, <1>7, <1>8, <1>9, <1>10, <1>11, <1>12, <1>13, <1>14,
           <1>15, <1>16, <1>17, <1>18, <1>19
        DEF Next, Step

(* An attempt takes the support of its moment, which covers what was shown.*)
LEMMA AttemptCovers ==
    ASSUME TeachingInv, WebInv, Next
    PROVE  SupportCoversShown'
<1>0. SupportCoversShown
  BY DEF WebInv
<1>1. CASE attempts' = attempts
  BY <1>0, <1>1 DEF SupportCoversShown
<1>2. CASE RecordAttempt /\ attempts' /= attempts
  <2> DEFINE seen == CHOOSE s \in Shown(leg.mom) : \A t \in Shown(leg.mom) : s >= t
             a == [mom |-> leg.mom, msg |-> leg.msg, index |-> moment[leg.mom].index + 1,
                   support |-> moment[leg.mom].support, seen |-> seen]
  <2>1. attempts' = attempts \cup {a} /\ pc = "attempt"
    BY <1>2 DEF RecordAttempt, InsertAttempt
  <2>2. leg.mom \in Opens /\ TypeOK
    BY LegFields DEF TeachingInv, TypeOK
  <2>3. Covered(leg.mom)
    BY <2>1 DEF WebInv, WebKnows, ReplyLabels
  <2>4. seen \in Shown(leg.mom)
    BY <2>2, GreatestShown
  <2> HIDE DEF seen
  <2>5. seen <= moment[leg.mom].support
    <3>0. moment[leg.mom] \in MomentRow
      BY <2>2 DEF TypeOK
    <3>1. moment[leg.mom].support \in Nat
      BY <3>0, MomentFields DEF FullForm
    <3> QED BY <2>3, <2>4, <3>1 DEF Covered, Covers, Shown, ContextOnly
  <2>6. a.support = moment[leg.mom].support /\ a.seen = seen
    OBVIOUS
  <2>7. moment[leg.mom].support >= seen
    BY <2>2, <2>4, <2>5, MomentFields
       DEF Shown, TypeOK, FullForm, ContextOnly, SaidRow, Delivered
  <2> HIDE DEF a
  <2> QED BY <1>0, <2>1, <2>6, <2>7 DEF SupportCoversShown
<1>3. attempts' = attempts \/ RecordAttempt
  BY IndexKept
<1> QED BY <1>1, <1>2, <1>3

(* Nobody is misjudged or shut out: for the callers of the web host every  *)
(* answer is booked with all the help that was shown before it, for any    *)
(* number of moments, replies, deaths and failing writes, and the lock is  *)
(* the serving process's (attempt_record_for, run_startup_recovery).       *)
THEOREM SupportStaysHonest ==
    ASSUME WebHost
    PROVE  Spec => []SupportIsHonest
<1>1. Init => WebInv
  <2> SUFFICES ASSUME Init PROVE WebInv
    OBVIOUS
  <2>1. /\ pc = "down" /\ attempts = {} /\ leg.goal = "none"
        /\ \A m \in Msgs : said[m].slot = "none"
        /\ \A o \in Opens : moment[o].state = "ABSENT"
    BY DEF Init, NotSaid, NoMoment, NoLeg, FreshLeg
  <2>2. \A o \in Opens : Covers(o, ContextOnly)
    BY <2>1 DEF Covers, Delivered, TeachingSlots, Slots, ContextOnly
  <2> QED BY <2>1, <2>2 DEF WebInv, HelpIsCovered, WebKnows, SupportCoversShown, Answerable,
                            Unpresented, ResendLabels, ReplyLabels
<1>2. TeachingInv /\ DeliveryInv /\ WebInv /\ [Next]_vars => WebInv'
  <2> SUFFICES ASSUME TeachingInv, DeliveryInv, WebInv, [Next]_vars PROVE WebInv'
    OBVIOUS
  <2>1. CASE Next
    BY <2>1, HelpIsCoveredStep, WebKnowsStep, AttemptCovers DEF WebInv
  <2>2. CASE UNCHANGED vars
    <3>1. /\ HelpIsCovered' /\ SupportCoversShown'
      BY <2>2 DEF vars, WebInv, HelpIsCovered, SupportCoversShown, Covered, Covers, Delivered
    <3>2. WebKnows'
      BY <2>2 DEF vars, WebInv, WebKnows, Covered, Covers, Delivered
    <3> QED BY <3>1, <3>2 DEF WebInv
  <2> QED BY <2>1, <2>2
<1>3. WebInv /\ NoForeignLock => SupportIsHonest
  BY DEF WebInv, SupportIsHonest
<1> QED BY InvHolds, DeliveryHolds, LockIsNotForeign, <1>1, <1>2, <1>3, PTL DEF Spec

==============================================================================
