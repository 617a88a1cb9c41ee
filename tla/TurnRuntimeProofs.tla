-------------------------- MODULE TurnRuntimeProofs --------------------------
(***************************************************************************)
(* Theorems about TurnRuntime, for every value of its constants: any       *)
(* number of inputs, runtimes, attempts and faults, any reply length, with *)
(* or without parking.                                                     *)
(*                                                                         *)
(*   TypeCorrect         the rows and the legs' locals keep their types.   *)
(*   VisibleOnce         OneVisibleStream: whatever dies, is taken over or *)
(*                       submitted again, a turn shows the client one run. *)
(*   OwnersStayOrdered   OwnersOrdered                                     *)
(*   VersionsAreHeld     LegHoldsVersion                                   *)
(*   NewestWritesOnly    OnlyNewestWrites                                  *)
(*   TerminalStays       TerminalIsFinal                                   *)
(*   StreamStaysTrue     StreamIsTrue                                      *)
(*   OutputStaysNewest   OutputOnlyForNewestTurn                           *)
(*   PositionsStayDense  PositionsDense                                    *)
(*                                                                         *)
(* and, in the systems that CleanSystem and OrderSystem describe:          *)
(*                                                                         *)
(*   CancelStaysClean       CancelIsClean                                  *)
(*   TranscriptStaysFrozen  TranscriptFrozen                               *)
(*   OrderStaysKept         OrderIsKept                                    *)
(*                                                                         *)
(* The records are kept opaque: one lemma per update operator says what it *)
(* does to the type and to the fields the argument needs, and the steps    *)
(* cite those lemmas.  From OwnersOrdered on, the argument is what epoch   *)
(* fence and conversation lease buy: a durable write of a runtime          *)
(* passes the fence, so while a runtime is current nobody else changes a   *)
(* turn or an action, and what its leg learned from its last transaction   *)
(* (Holds) is still true at the next one.                                  *)
(***************************************************************************)
EXTENDS TurnRuntime, TLAPS, FiniteSetTheorems

----------------------------------------------------------------------------
(* The update operators keep the types of the rows.                        *)

LEMMA MovedType ==
    ASSUME NEW t \in TurnType, NEW s \in TurnStatus
    PROVE  Moved(t, s) \in TurnType
 <1>1. PICK v \in Nat : v = t.version + 1 BY DEF TurnType
 <1>2. [t EXCEPT !.status = s, !.version = v] \in TurnType BY DEF TurnType
 <1> QED BY <1>1, <1>2 DEF Moved

LEMMA OwnedByType ==
    ASSUME NEW t \in TurnType, NEW e \in Epochs
    PROVE  OwnedBy(t, e) \in TurnType
 <1>1. PICK v \in Nat : v = t.version + 1 BY DEF TurnType
 <1>3. PICK o \in 0..MaxEpoch : o = e BY TurnRuntimeAssumption DEF Epochs
 <1>2. [t EXCEPT !.owner = o, !.version = v] \in TurnType BY DEF TurnType
 <1> QED BY <1>1, <1>2, <1>3 DEF OwnedBy

LEMMA WithCycleType ==
    ASSUME NEW t \in TurnType
    PROVE  WithCycle(t) \in TurnType
 <1>1. PICK v \in Nat : v = t.version + 1 BY DEF TurnType
 <1>2. [t EXCEPT !.cycle = TRUE, !.version = v] \in TurnType BY DEF TurnType
 <1> QED BY <1>1, <1>2 DEF WithCycle

LEMMA NewTurnType ==
    ASSUME NEW e \in Epochs, NEW c \in ConvType
    PROVE  NewTurn(e, c) \in TurnType
 BY TurnRuntimeAssumption DEF NewTurn, TurnType, ConvType, TurnStatus, Epochs

LEMMA InStatusType ==
    ASSUME NEW a \in ActionType, NEW s \in ActionStatus
    PROVE  InStatus(a, s) \in ActionType
 BY DEF InStatus, ActionType

LEMMA RearmedType ==
    ASSUME NEW a \in ActionType, NEW e \in Epochs
    PROVE  Rearmed(a, e) \in ActionType
 <1>3. PICK o \in 0..MaxEpoch : o = e BY TurnRuntimeAssumption DEF Epochs
 <1>2. [a EXCEPT !.status = "REQUESTED", !.owner = o] \in ActionType
   BY DEF ActionType, ActionStatus
 <1> QED BY <1>2, <1>3 DEF Rearmed

LEMMA NewActionType ==
    ASSUME NEW e \in Epochs
    PROVE  NewAction(e) \in ActionType
 BY TurnRuntimeAssumption DEF NewAction, ActionType, ActionStatus, Epochs

LEMMA AttemptedType ==
    ASSUME NEW n \in Nat
    PROVE  /\ \A a \in ActionType : Attempted(a, n) \in ActionType
           /\ \A j \in JobType : Attempted(j, n) \in JobType
 BY DEF Attempted, ActionType, JobType

LEMMA RowOfType ==
    ASSUME NEW w \in RowWord, NEW n \in Nat, NEW b \in BOOLEAN
    PROVE  RowOf(w, n, b) \in RowType
 BY DEF RowOf, RowType

LEMMA AdvancedType ==
    ASSUME NEW a \in RowType, NEW b \in RowType
    PROVE  Advanced(a, b) \in RowType
 BY DEF Advanced

LEMMA AsstOfType ==
    ASSUME NEW w \in RowWord, NEW n \in Nat, NEW m \in Nat
    PROVE  AsstOf(n, w, m) \in AsstType
 BY DEF AsstOf, AsstType

LEMMA ConvOfType ==
    ASSUME NEW n \in Nat, NEW m \in Nat
    PROVE  ConvOf(n, m) \in ConvType
 BY DEF ConvOf, ConvType

LEMMA EstimateOfType ==
    ASSUME NEW w, NEW n, NEW l, NEW r
    PROVE  EstimateOf(w, n, l, r) \in EstimateType
 BY DEF EstimateOf, EstimateType, Higher, SentLevel, ReleasedLevel, Exposure,
    None, Partial, Full

LEMMA ShownIsTyped ==
    ASSUME NEW s \in ShownType, NEW a, NEW b, NEW c
    PROVE  Shown(s, a, b, c) \in ShownType
 BY DEF Shown, ShownType

LEMMA BudgetedType ==
    ASSUME NEW j \in JobType, NEW n \in Nat
    PROVE  Budgeted(j, n) \in JobType
 <1>1. PICK v \in Nat : v = n + MaxAttempts BY TurnRuntimeAssumption
 <1>2. [j EXCEPT !.attempts = n, !.budget = v] \in JobType BY DEF JobType
 <1> QED BY <1>1, <1>2 DEF Budgeted

LEMMA FreshType ==
    ASSUME NEW i \in Inputs, NEW k \in Inputs, NEW b \in {"idle", "handoff", "recover"}
    PROVE  FreshJob(i, k, b) \in JobType
 BY DEF FreshJob, JobType, RowWord, Outcome

LEMMA NoJobType == NoJob \in JobType
 <1>1. AnyInput \in Inputs BY TurnRuntimeAssumption DEF AnyInput
 <1> QED BY <1>1, FreshType DEF NoJob

LEMMA EndingType ==
    ASSUME NEW j \in JobType, NEW w \in RowWord, NEW o \in Outcome
    PROVE  Ending(j, w, o) \in JobType
 BY DEF Ending, JobType

LEMMA AtVersionType ==
    ASSUME NEW j \in JobType, NEW v \in Nat
    PROVE  AtVersion(j, v) \in JobType
 BY DEF AtVersion, JobType

LEMMA CancellingType ==
    ASSUME NEW j \in JobType, NEW i \in Inputs, NEW n \in Nat
    PROVE  Cancelling(j, i, n) \in JobType
 BY DEF Cancelling, JobType, Outcome

LEMMA SentType ==
    ASSUME NEW j \in JobType, NEW n \in Nat, NEW m \in Nat
    PROVE  Sent(j, n, m) \in JobType
 BY DEF Sent, JobType

(* What membership of a row or of a leg's locals gives.                    *)
LEMMA Fields ==
    /\ \A t \in TurnType :
         /\ t.status \in TurnStatus /\ t.owner \in 0..MaxEpoch
         /\ t.version \in Nat /\ t.seq \in Nat /\ t.msg \in Nat
    /\ \A a \in ActionType :
         /\ a.status \in ActionStatus /\ a.owner \in 0..MaxEpoch
         /\ a.attempts \in Nat
    /\ \A r \in RowType :
         r.word \in RowWord /\ r.prefix \in Nat /\ r.closed \in BOOLEAN
    /\ \A c \in ConvType : c.nextTurn \in Nat /\ c.nextMsg \in Nat
    /\ \A j \in JobType :
         /\ j.input \in Inputs /\ j.target \in Inputs
         /\ j.back \in {"idle", "handoff", "recover"}
         /\ j.ver \in Nat /\ j.attempts \in Nat
         /\ j.released \in Nat /\ j.durable \in Nat
         /\ j.word \in RowWord /\ j.outcome \in Outcome
    /\ \A s \in ShownType : s.count \in Nat /\ s.runs \in Nat
  BY DEF TurnType, ActionType, RowType, ConvType, JobType, ShownType

----------------------------------------------------------------------------
(* Type correctness.  The actions that need more than unfolding come       *)
(* first, each with its own argument.                                      *)

LEMMA LegFaultType ==
    ASSUME TypeOK, NEW e \in Epochs, LegFault(e)
    PROVE  TypeOK'
 <1>0. job[e].input \in Inputs BY Fields DEF TypeOK
 <1>1. faults' \in 0..MaxFaults BY TurnRuntimeAssumption DEF TypeOK, LegFault
 <1>2. CASE job[e].back = "recover" /\ Return(e)
   <2>1. /\ pc' = [pc EXCEPT ![e] = "recover"]
         /\ job' = [job EXCEPT ![e] = FreshJob(job[e].input, job[e].input, "idle")]
         /\ work' = work
     BY <1>2 DEF Return, Goto
   <2>2. FreshJob(job[e].input, job[e].input, "idle") \in JobType
     BY <1>0, FreshType
   <2> QED BY <1>1, <2>1, <2>2 DEF TypeOK, LegFault, stored, Label
 <1>3. CASE Leave(e)
   BY <1>1, <1>3, NoJobType DEF TypeOK, LegFault, stored, Goto, Label, Leave
 <1> QED BY <1>2, <1>3 DEF LegFault

LEMMA RecoverTurnType ==
    ASSUME TypeOK, NEW e \in Epochs, RecoverTurn(e)
    PROVE  TypeOK'
 <1>1. PICK w \in work[e] : /\ work' = [work EXCEPT ![e] = @ \ {w}]
                             /\ \/ /\ Goto(e, "repair")
                                   /\ job' = [job EXCEPT ![e] = FreshJob(w[1], w[1], "recover")]
                                \/ UNCHANGED <<pc, job>>
   BY DEF RecoverTurn
 <1>2. w \in Inputs \X {"turn", "action"} BY DEF TypeOK
 <1>3. FreshJob(w[1], w[1], "recover") \in JobType BY <1>2, FreshType
 <1>4. work' \in [Epochs -> SUBSET (Inputs \X {"turn", "action"})]
   BY <1>1 DEF TypeOK
 <1>5. job' \in [Epochs -> JobType] BY <1>1, <1>3 DEF TypeOK
 <1>6. pc' \in [Epochs -> Label] BY <1>1 DEF TypeOK, Goto, Label
 <1> QED BY <1>4, <1>5, <1>6 DEF TypeOK, RecoverTurn, stored

LEMMA RepairTextType ==
    ASSUME TypeOK, NEW e \in Epochs, RepairText(e)
    PROVE  TypeOK'
 <1>0. job[e].target \in Inputs /\ job[e] \in JobType BY Fields DEF TypeOK
 <1>1. asst' \in [Inputs -> AsstType] /\ conv' \in ConvType
   <2>1. CASE UNCHANGED <<asst, conv>> BY <2>1 DEF TypeOK
   <2>2. CASE ~UNCHANGED <<asst, conv>>
     <3>1. /\ asst' = [asst EXCEPT ![job[e].target] =
                 AsstOf(row[job[e].target].prefix, "SENT_PARTIAL", conv.nextMsg)]
           /\ conv' = ConvOf(conv.nextTurn, conv.nextMsg + 1)
       BY <2>2 DEF RepairText, Canonicalize
     <3>2. /\ row[job[e].target].prefix \in Nat /\ "SENT_PARTIAL" \in RowWord
           /\ conv.nextMsg \in Nat /\ conv.nextTurn \in Nat
       BY <1>0, Fields DEF TypeOK, RowWord
     <3>3. AsstOf(row[job[e].target].prefix, "SENT_PARTIAL", conv.nextMsg) \in AsstType
       BY <3>2, AsstOfType
     <3>4. conv' \in ConvType BY <3>1, <3>2, ConvOfType
     <3> QED BY <1>0, <3>1, <3>3, <3>4 DEF TypeOK
   <2> QED BY <2>1, <2>2
 <1>2. ReconciledOutcome(job[e].target) \in Outcome
   BY DEF ReconciledOutcome, Outcome
 <1>3. job' \in [Epochs -> JobType]
   BY <1>0, <1>2, EndingType, Fields DEF TypeOK, RepairText
 <1> QED BY <1>1, <1>3 DEF TypeOK, RepairText, Goto, Label

LEMMA CommitUserTurnType ==
    ASSUME TypeOK, NEW e \in Epochs, CommitUserTurn(e)
    PROVE  TypeOK'
 <1>1. turn' \in [Inputs -> TurnType] BY NewTurnType DEF TypeOK, CommitUserTurn
 <1>2. conv' \in ConvType BY ConvOfType, Fields DEF TypeOK, CommitUserTurn
 <1> QED BY <1>1, <1>2 DEF TypeOK, CommitUserTurn, Goto, Label

LEMMA AdvanceTurnType ==
    ASSUME TypeOK, NEW e \in Epochs, AdvanceTurn(e)
    PROVE  TypeOK'
 <1>0. job[e].input \in Inputs /\ job[e].ver + 1 \in Nat BY Fields DEF TypeOK
 <1>1. turn' \in [Inputs -> TurnType]
   BY <1>0, MovedType DEF TypeOK, AdvanceTurn, MoveTurn, TurnStatus
 <1>2. job' \in [Epochs -> JobType]
   BY <1>0, AtVersionType DEF TypeOK, AdvanceTurn
 <1> QED BY <1>1, <1>2 DEF TypeOK, AdvanceTurn

LEMMA RecordCycleType ==
    ASSUME TypeOK, NEW e \in Epochs, RecordCycle(e)
    PROVE  TypeOK'
 <1>0. job[e].input \in Inputs /\ job[e].ver + 1 \in Nat BY Fields DEF TypeOK
 <1>1. turn' \in [Inputs -> TurnType]
   BY <1>0, WithCycleType DEF TypeOK, RecordCycle
 <1>2. job' \in [Epochs -> JobType]
   BY <1>0, AtVersionType DEF TypeOK, RecordCycle
 <1> QED BY <1>1, <1>2 DEF TypeOK, RecordCycle, Goto, Label

LEMMA EnsureRequestedType ==
    ASSUME TypeOK, NEW e \in Epochs, EnsureRequested(e)
    PROVE  TypeOK'
 <1>0. job[e].input \in Inputs /\ action[job[e].input].attempts \in Nat
   BY Fields DEF TypeOK
 <1>1. action' \in [Inputs -> ActionType]
   BY <1>0, InStatusType DEF TypeOK, EnsureRequested, MoveAction, ActionStatus
 <1>2. job' \in [Epochs -> JobType]
   BY <1>0, BudgetedType DEF TypeOK, EnsureRequested
 <1> QED BY <1>1, <1>2 DEF TypeOK, EnsureRequested, Goto, Label

LEMMA PreDeliveryGuardType ==
    ASSUME TypeOK, NEW e \in Epochs, PreDeliveryGuard(e)
    PROVE  TypeOK'
 <1>1. Ending(job[e], "CANCELLED", "CANCELLED_BY_USER") \in JobType
   BY EndingType DEF TypeOK, RowWord, Outcome
 <1>2. job' \in [Epochs -> JobType] /\ pc' \in [Epochs -> Label]
   BY <1>1 DEF TypeOK, PreDeliveryGuard, ToCancelled, Goto, Label
 <1> QED BY <1>2 DEF TypeOK, PreDeliveryGuard, stored

LEMMA EmitChunkType ==
    ASSUME TypeOK, NEW e \in Epochs, EmitChunk(e)
    PROVE  TypeOK'
 <1>0. /\ job[e].input \in Inputs /\ job[e] \in JobType
       /\ job[e].released + 1 \in Nat /\ job[e].durable \in Nat
   BY Fields DEF TypeOK
 <1>1. shown' \in [Inputs -> ShownType] 
   <2> DEFINE i == job[e].input
   <2>1. Shown(shown[i], job[e].released = 0, <<i, "action">> \in interrupts,
               ~Current(e)) \in ShownType
     BY <1>0, ShownIsTyped DEF TypeOK
   <2> QED BY <1>0, <2>1 DEF TypeOK, EmitChunk
 <1>2. job' \in [Epochs -> JobType] BY <1>0, SentType DEF TypeOK, EmitChunk
 <1> QED BY <1>1, <1>2 DEF TypeOK, EmitChunk, stored, Goto, Label

LEMMA StreamRaisesType ==
    ASSUME TypeOK, NEW e \in Epochs, StreamRaises(e)
    PROVE  TypeOK'
 <1>1. Ending(Sent(job[e], 0, 0), "FAILED", "FAILED_USER_VISIBLE") \in JobType
   BY EndingType, SentType DEF TypeOK, RowWord, Outcome
 <1>2. job' \in [Epochs -> JobType] BY <1>1 DEF TypeOK, StreamRaises
 <1>3. faults' \in 0..MaxFaults
   BY TurnRuntimeAssumption DEF TypeOK, StreamRaises
 <1> QED BY <1>2, <1>3 DEF TypeOK, StreamRaises, stored, Goto, Label

LEMMA TranscribeType ==
    ASSUME TypeOK, NEW e \in Epochs, Transcribe(e)
    PROVE  TypeOK'
 <1>0. job[e].target \in Inputs /\ job[e].durable \in Nat /\ job[e].word \in RowWord
   BY Fields DEF TypeOK
 <1>1. CASE UNCHANGED <<asst, conv>> BY <1>1 DEF TypeOK, Transcribe, Goto, Label
 <1>2. CASE ~UNCHANGED <<asst, conv>>
   <2> DEFINE word == IF job[e].word = "SENT_COMPLETE" THEN job[e].word ELSE "SENT_PARTIAL"
   <2>1. /\ asst' = [asst EXCEPT ![job[e].target] = AsstOf(job[e].durable, word, conv.nextMsg)]
         /\ conv' = ConvOf(conv.nextTurn, conv.nextMsg + 1)
     BY <1>2 DEF Transcribe, Canonicalize
   <2>2. word \in RowWord /\ conv.nextMsg \in Nat /\ conv.nextTurn \in Nat
     BY <1>0, Fields DEF TypeOK, RowWord
   <2> HIDE DEF word
   <2>3. asst' \in [Inputs -> AsstType] /\ conv' \in ConvType
     BY <1>0, <2>1, <2>2, AsstOfType, ConvOfType DEF TypeOK
   <2> QED BY <2>3 DEF TypeOK, Transcribe, Goto, Label
 <1> QED BY <1>1, <1>2

LEMMA CloseTurnType ==
    ASSUME TypeOK, NEW e \in Epochs, CloseTurn(e)
    PROVE  TypeOK'
 <1>0. /\ job[e].target \in Inputs /\ job[e].input \in Inputs
       /\ job[e].back \in {"idle", "handoff", "recover"}
   BY Fields DEF TypeOK
 <1>1. StatusOf(job[e].outcome) \in TurnStatus
   BY DEF StatusOf, TurnStatus, TerminalTurn
 <1>2. turn' \in [Inputs -> TurnType]
   BY <1>0, <1>1, MovedType DEF TypeOK, CloseTurn, MoveTurn
 <1>3. /\ job' \in [Epochs -> JobType] /\ pc' \in [Epochs -> Label]
       /\ work' \in [Epochs -> SUBSET (Inputs \X {"turn", "action"})]
   BY <1>0, FreshType, NoJobType DEF TypeOK, CloseTurn, Return, Leave, Goto,
      Label
 <1> QED BY <1>2, <1>3 DEF TypeOK, CloseTurn

LEMMA InitType == Init => TypeOK
<1> SUFFICES ASSUME Init PROVE TypeOK
  OBVIOUS
<1>1. NoTurn \in TurnType
  BY TurnRuntimeAssumption DEF NoTurn, TurnType, TurnStatus
<1>2. NoAction \in ActionType
  BY TurnRuntimeAssumption DEF NoAction, ActionType, ActionStatus
<1>3. NoRow \in RowType /\ NoAsst \in AsstType
  BY DEF NoRow, RowOf, RowType, NoAsst, AsstType, RowWord
<1>4. NoEstimate \in EstimateType
  BY DEF NoEstimate, EstimateType, Exposure, None, Partial, Full
<1>5. NoShow \in ShownType /\ ConvOf(1, 1) \in ConvType
  BY DEF NoShow, ShownType, ConvOf, ConvType
<1> QED
  BY <1>1, <1>2, <1>3, <1>4, <1>5, NoJobType, TurnRuntimeAssumption
     DEF Init, TypeOK, Label

LEMMA TypeStep == TypeOK /\ [Next]_vars => TypeOK'
<1> SUFFICES ASSUME TypeOK, [Next]_vars PROVE TypeOK'
  OBVIOUS
<1>1. ASSUME NEW e \in Epochs, StartRuntime(e)
      PROVE  TypeOK'
  BY <1>1 DEF TypeOK, StartRuntime, stored, Goto, Label, Epochs
<1>2. ASSUME NEW e \in Epochs, Crash(e)
      PROVE  TypeOK'
  BY <1>2, NoJobType DEF TypeOK, Crash, stored, Label
<1>3. ASSUME NEW e \in Epochs, Fenced(e)
      PROVE  TypeOK'
  BY <1>3, NoJobType DEF TypeOK, Fenced, stored, Goto, Label, Leave
<1>4. ASSUME NEW e \in Epochs, LegFault(e)
      PROVE  TypeOK'
  BY <1>4, LegFaultType
<1>5. ASSUME NEW e \in Epochs, EstimateLost(e)
      PROVE  TypeOK'
  BY <1>5, TurnRuntimeAssumption DEF TypeOK, EstimateLost, stored, Goto,
     Label
<1>6. ASSUME NEW e \in Epochs, RecoverTurn(e)
      PROVE  TypeOK'
  BY <1>6, RecoverTurnType
<1>7. ASSUME NEW e \in Epochs, RecoveryDone(e)
      PROVE  TypeOK'
  BY <1>7, NoJobType DEF TypeOK, RecoveryDone, stored, Goto, Label, Leave
<1>8. ASSUME NEW e \in Epochs, RepairClaim(e)
      PROVE  TypeOK'
  BY <1>8, OwnedByType DEF TypeOK, RepairClaim, Goto, Label, Adopted
<1>9. ASSUME NEW e \in Epochs, RepairText(e)
      PROVE  TypeOK'
  BY <1>9, RepairTextType
<1>10. ASSUME NEW e \in Epochs, RepairEstimate(e)
       PROVE  TypeOK'
  BY <1>10, EstimateOfType DEF TypeOK, RepairEstimate, Goto, Label
<1>11. ASSUME NEW e \in Epochs, NEW i \in Inputs, BeginTurn(e, i)
       PROVE  TypeOK'
  BY <1>11, FreshType, TurnRuntimeAssumption DEF TypeOK, BeginTurn, stored,
     Goto, Label
<1>12. ASSUME NEW e \in Epochs, NEW i \in Inputs, CancelAction(e, i)
       PROVE  TypeOK'
  BY <1>12, RowOfType, AdvancedType, CancellingType, Fields DEF TypeOK,
     CancelAction, Goto, Label, RowWord
<1>13. ASSUME NEW e \in Epochs, NEW i \in Inputs, CancelTurn(e, i)
       PROVE  TypeOK'
  BY <1>13, MovedType DEF TypeOK, CancelTurn, MoveTurn, TurnStatus,
     TerminalTurn
<1>14. ASSUME NEW e \in Epochs, NEW r \in Inputs \X InterruptKinds, SkipRequest(e, r)
       PROVE  TypeOK'
  BY <1>14 DEF TypeOK, SkipRequest, stored
<1>15. ASSUME NEW e \in Epochs, HandoffDone(e)
       PROVE  TypeOK'
  BY <1>15 DEF TypeOK, HandoffDone, stored, Goto, Label
<1>16. ASSUME NEW e \in Epochs, CommitUserTurn(e)
       PROVE  TypeOK'
  BY <1>16, CommitUserTurnType
<1>17. ASSUME NEW e \in Epochs, ReplayTerminal(e)
       PROVE  TypeOK'
  BY <1>17, NoJobType DEF TypeOK, ReplayTerminal, stored, Goto, Label, Leave
<1>18. ASSUME NEW e \in Epochs, AdoptTurn(e)
       PROVE  TypeOK'
  BY <1>18, OwnedByType, AtVersionType, Fields DEF TypeOK, AdoptTurn, Goto,
     Label, Adopted
<1>19. ASSUME NEW e \in Epochs, RepairDelivering(e)
       PROVE  TypeOK'
  BY <1>19 DEF TypeOK, RepairDelivering, stored, Goto, Label
<1>20. ASSUME NEW e \in Epochs, RefuseDelivering(e)
       PROVE  TypeOK'
  BY <1>20, NoJobType DEF TypeOK, RefuseDelivering, stored, Goto, Label,
     Leave
<1>21. ASSUME NEW e \in Epochs, AdvanceTurn(e)
       PROVE  TypeOK'
  BY <1>21, AdvanceTurnType
<1>22. ASSUME NEW e \in Epochs, ParkTurn(e)
       PROVE  TypeOK'
  BY <1>22, NoJobType, Fields DEF TypeOK, ParkTurn, stored, Goto, Label,
     Leave
<1>23. ASSUME NEW e \in Epochs, RecordCycle(e)
       PROVE  TypeOK'
  BY <1>23, RecordCycleType
<1>24. ASSUME NEW e \in Epochs, NEW i \in Inputs, CloseParked(e, i)
       PROVE  TypeOK'
  BY <1>24, FreshType, EndingType DEF TypeOK, CloseParked, stored, Goto,
     Label, RowWord, Outcome
<1>25. ASSUME NEW e \in Epochs, CloseParkedClaim(e)
       PROVE  TypeOK'
  BY <1>25, OwnedByType DEF TypeOK, CloseParkedClaim, Goto, Label, Adopted
<1>26. ASSUME NEW e \in Epochs, ClaimAction(e)
       PROVE  TypeOK'
  BY <1>26, RearmedType DEF TypeOK, ClaimAction
<1>27. ASSUME NEW e \in Epochs, CreateAction(e)
       PROVE  TypeOK'
  BY <1>27, NewActionType DEF TypeOK, CreateAction
<1>28. ASSUME NEW e \in Epochs, EnsureRequested(e)
       PROVE  TypeOK'
  BY <1>28, EnsureRequestedType
<1>29. ASSUME NEW e \in Epochs, RefuseDispatch(e)
       PROVE  TypeOK'
  BY <1>29, NoJobType DEF TypeOK, RefuseDispatch, stored, Goto, Label, Leave
<1>30. ASSUME NEW e \in Epochs, CallProvider(e)
       PROVE  TypeOK'
  BY <1>30, InStatusType DEF TypeOK, CallProvider, Goto, Label, MoveAction,
     ActionStatus
<1>31. ASSUME NEW e \in Epochs, RecordAttempt(e)
       PROVE  TypeOK'
  BY <1>31, AttemptedType, Fields DEF TypeOK, RecordAttempt, Goto, Label
<1>32. ASSUME NEW e \in Epochs, StartValidation(e)
       PROVE  TypeOK'
  BY <1>32, InStatusType DEF TypeOK, StartValidation, Goto, Label,
     MoveAction, ActionStatus
<1>33. ASSUME NEW e \in Epochs, AcceptOutput(e)
       PROVE  TypeOK'
  BY <1>33, InStatusType DEF TypeOK, AcceptOutput, Goto, Label, MoveAction,
     ActionStatus
<1>34. ASSUME NEW e \in Epochs, RetryAction(e)
       PROVE  TypeOK'
  BY <1>34, InStatusType DEF TypeOK, RetryAction, Goto, Label, MoveAction,
     ActionStatus
<1>35. ASSUME NEW e \in Epochs, GiveUp(e)
       PROVE  TypeOK'
  BY <1>35, InStatusType, EndingType, Fields DEF TypeOK, GiveUp, Goto,
     Label, MoveAction, ActionStatus, Outcome
<1>36. ASSUME NEW e \in Epochs, BeginDelivery(e)
       PROVE  TypeOK'
  BY <1>36, InStatusType DEF TypeOK, BeginDelivery, Goto, Label, MoveAction,
     ActionStatus
<1>37. ASSUME NEW e \in Epochs, DeliverTurn(e)
       PROVE  TypeOK'
  BY <1>37, MovedType DEF TypeOK, DeliverTurn, Goto, Label, MoveTurn,
     TurnStatus
<1>38. ASSUME NEW e \in Epochs, OpenRow(e)
       PROVE  TypeOK'
  BY <1>38, RowOfType, AdvancedType DEF TypeOK, OpenRow, Goto, Label,
     RowWord
<1>39. ASSUME NEW e \in Epochs, PreDeliveryGuard(e)
       PROVE  TypeOK'
  BY <1>39, PreDeliveryGuardType
<1>40. ASSUME NEW e \in Epochs, TakeInterrupted(e)
       PROVE  TypeOK'
  BY <1>40, EndingType DEF TypeOK, TakeInterrupted, stored, Goto, Label,
     ToCancelled, RowWord, Outcome
<1>41. ASSUME NEW e \in Epochs, TakeChunk(e)
       PROVE  TypeOK'
  BY <1>41 DEF TypeOK, TakeChunk, stored, Goto, Label
<1>42. ASSUME NEW e \in Epochs, EndStream(e)
       PROVE  TypeOK'
  BY <1>42, EndingType DEF TypeOK, EndStream, stored, Goto, Label, RunWord,
     RowWord, Outcome
<1>43. ASSUME NEW e \in Epochs, EmitChunk(e)
       PROVE  TypeOK'
  BY <1>43, EmitChunkType
<1>44. ASSUME NEW e \in Epochs, RecordChunk(e)
       PROVE  TypeOK'
  BY <1>44, RowOfType, AdvancedType, SentType, Fields DEF TypeOK,
     RecordChunk, Goto, Label, RowWord
<1>45. ASSUME NEW e \in Epochs, RefuseChunk(e)
       PROVE  TypeOK'
  BY <1>45, EndingType, Fields, TurnRuntimeAssumption DEF TypeOK,
     RefuseChunk, stored, Goto, Label, RowWord, Outcome
<1>46. ASSUME NEW e \in Epochs, StreamRaises(e)
       PROVE  TypeOK'
  BY <1>46, StreamRaisesType
<1>47. ASSUME NEW e \in Epochs, FreezeRow(e)
       PROVE  TypeOK'
  BY <1>47, RowOfType, AdvancedType, Fields DEF TypeOK, FreezeRow, Goto,
     Label
<1>48. ASSUME NEW e \in Epochs, WriteEstimate(e)
       PROVE  TypeOK'
  BY <1>48, EstimateOfType DEF TypeOK, WriteEstimate, Goto, Label
<1>49. ASSUME NEW e \in Epochs, Transcribe(e)
       PROVE  TypeOK'
  BY <1>49, TranscribeType
<1>50. ASSUME NEW e \in Epochs, SettleAction(e)
       PROVE  TypeOK'
  BY <1>50, InStatusType DEF TypeOK, SettleAction, Goto, Label, MoveAction,
     ActionStatus
<1>51. ASSUME NEW e \in Epochs, CloseTurn(e)
       PROVE  TypeOK'
  BY <1>51, CloseTurnType
<1>52. ASSUME NEW i \in Inputs, NEW kind \in InterruptKinds, RequestInterrupt(i, kind)
       PROVE  TypeOK'
  BY <1>52 DEF TypeOK, RequestInterrupt, stored
<1>53. CASE UNCHANGED vars
  BY <1>53 DEF TypeOK, vars, stored
<1> QED
  BY <1>1, <1>2, <1>3, <1>4, <1>5, <1>6, <1>7, <1>8, <1>9, <1>10, <1>11,
     <1>12, <1>13, <1>14, <1>15, <1>16, <1>17, <1>18, <1>19, <1>20, <1>21,
     <1>22, <1>23, <1>24, <1>25, <1>26, <1>27, <1>28, <1>29, <1>30, <1>31,
     <1>32, <1>33, <1>34, <1>35, <1>36, <1>37, <1>38, <1>39, <1>40, <1>41,
     <1>42, <1>43, <1>44, <1>45, <1>46, <1>47, <1>48, <1>49, <1>50, <1>51,
     <1>52, <1>53 DEF Next, LegStep, Failure
(* Type correctness of the turn runtime: whatever the code's steps, deaths *)
(* and faults, every row of the store and every local of a leg stays in    *)
(* the vocabulary the code declares for it.                                *)
THEOREM TypeCorrect == Spec => []TypeOK
<1> QED BY InitType, TypeStep, PTL DEF Spec

----------------------------------------------------------------------------
(* OneVisibleStream.  What finalize_streamed_delivery may show is decided  *)
(* by the one durable step GENERATING -> DELIVERING: it is taken once per  *)
(* turn, by the leg that then owns the stream for good, and a re-entry of  *)
(* a DELIVERING turn never streams.  The invariant says so.                *)

(* The labels of a leg inside its stream, and the labels before it.        *)
StreamLabels == {"open", "guard", "take", "emit", "record"}
PreLabels == {"handoff", "cp0", "adopt", "advance", "dispatch", "call",
              "provider", "validating", "verdict", "retry", "begin", "deliver"}

Delivered == {"DELIVERING"} \cup TerminalTurn

(* Nothing of a turn was shown before it became DELIVERING.                *)
SilentBeforeDelivery ==
    \A i \in Inputs : turn[i].status \notin Delivered =>
        shown[i].runs = 0 /\ shown[i].count = 0

(* A leg inside its stream has shown exactly what it counts as released.   *)
Streaming(e) ==
    LET i == job[e].input IN
    /\ turn[i].status \in Delivered
    /\ shown[i].count = job[e].released
    /\ shown[i].runs <= 1
    /\ job[e].released = 0 => shown[i].runs = 0
    /\ pc[e] = "emit" => job[e].released < TextLength

StreamAccounted == \A e \in Epochs : pc[e] \in StreamLabels => Streaming(e)

NothingReleasedYet ==
    \A e \in Epochs : pc[e] \in PreLabels => job[e].released = 0

(* No two runtimes, fenced or not, are inside a stream of the same turn.   *)
OneStreamer ==
    \A e, f \in Epochs :
        /\ pc[e] \in StreamLabels /\ pc[f] \in StreamLabels
        /\ job[e].input = job[f].input
        => e = f

StreamInv ==
    /\ SilentBeforeDelivery
    /\ StreamAccounted
    /\ NothingReleasedYet
    /\ OneStreamer
    /\ OneVisibleStream

(* The effect most steps of a runtime e have on this: nothing is shown, no *)
(* turn leaves the delivered statuses, no leg enters a stream.             *)
Quiet(e) ==
    /\ shown' = shown
    /\ \A i \in Inputs :
         turn[i].status \in Delivered => turn'[i].status \in Delivered
    /\ \A f \in Epochs \ {e} : pc'[f] = pc[f] /\ job'[f] = job[f]
    /\ pc'[e] \in StreamLabels =>
         /\ pc[e] \in StreamLabels
         /\ job'[e].input = job[e].input
         /\ job'[e].released = job[e].released
         /\ pc'[e] = "emit" => job[e].released < TextLength
    /\ pc'[e] \in PreLabels => job'[e].released = 0

LEMMA TurnUpdates ==
    ASSUME NEW t \in TurnType
    PROVE
  /\ \A s : Moved(t, s).status = s
  /\ \A e : OwnedBy(t, e).status = t.status
  /\ WithCycle(t).status = t.status
 BY DEF TurnType, Moved, OwnedBy, WithCycle

LEMMA JobUpdates ==
    ASSUME NEW j \in JobType
    PROVE
  /\ \A w, o : Ending(j, w, o).input = j.input /\ Ending(j, w, o).released = j.released
  /\ \A v : AtVersion(j, v).input = j.input /\ AtVersion(j, v).released = j.released
  /\ \A n : Budgeted(j, n).input = j.input /\ Budgeted(j, n).released = j.released
  /\ \A n : Attempted(j, n).input = j.input /\ Attempted(j, n).released = j.released
  /\ \A r, d : Sent(j, r, d).input = j.input /\ Sent(j, r, d).released = r
 BY DEF JobType, Ending, AtVersion, Budgeted, Attempted, Sent

LEMMA FreshUpdates == \A i, k, b : FreshJob(i, k, b).released = 0
 BY DEF FreshJob

LEMMA QuietKeeps ==
    ASSUME TypeOK, StreamInv, NEW e \in Epochs, Quiet(e)
    PROVE  StreamInv'
 <1>1. SilentBeforeDelivery' /\ OneVisibleStream'
   BY DEF StreamInv, SilentBeforeDelivery, OneVisibleStream, Quiet
 <1>2. ASSUME NEW f \in Epochs, pc'[f] \in StreamLabels
       PROVE /\ pc[f] \in StreamLabels
             /\ job'[f].input = job[f].input /\ job[f].input \in Inputs
             /\ job'[f].released = job[f].released
             /\ pc'[f] = "emit" => job[f].released < TextLength
   BY <1>2, Fields DEF Quiet, StreamInv, StreamAccounted, Streaming, TypeOK
 <1>3. NothingReleasedYet'
   BY DEF Quiet, StreamInv, NothingReleasedYet
 <1>4. StreamAccounted'
   <2> SUFFICES ASSUME NEW f \in Epochs, pc'[f] \in StreamLabels PROVE Streaming(f)'
     BY DEF StreamAccounted
   <2> QED BY <1>2 DEF Quiet, StreamInv, StreamAccounted, Streaming
 <1>5. OneStreamer'
   BY <1>2 DEF StreamInv, OneStreamer
 <1> QED BY <1>1, <1>3, <1>4, <1>5 DEF StreamInv


LEMMA DeliverTurnStream ==
    ASSUME TypeOK, StreamInv, NEW e \in Epochs, DeliverTurn(e)
    PROVE  StreamInv'
 <1> DEFINE i == job[e].input
 <1>0. i \in Inputs /\ turn[i].status = "GENERATING" /\ turn[i].status \notin Delivered
   BY Fields DEF TypeOK, DeliverTurn, Delivered, TerminalTurn
 <1>1. /\ turn'[i].status = "DELIVERING"
       /\ \A k \in Inputs \ {i} : turn'[k] = turn[k]
       /\ pc' = [pc EXCEPT ![e] = "open"] /\ job' = job /\ shown' = shown
   BY <1>0, TurnUpdates DEF TypeOK, DeliverTurn, MoveTurn, Goto
 <1>2. \A f \in Epochs : pc[f] \in StreamLabels => job[f].input /= i
   BY <1>0 DEF StreamInv, StreamAccounted, Streaming
 <1>3. job[e].released = 0
   BY DEF StreamInv, NothingReleasedYet, DeliverTurn, PreLabels
 <1>4. shown[i].count = 0 /\ shown[i].runs = 0
   BY <1>0 DEF StreamInv, SilentBeforeDelivery
 <1>5. SilentBeforeDelivery' /\ OneVisibleStream'
   BY <1>0, <1>1 DEF StreamInv, SilentBeforeDelivery, OneVisibleStream,
      Delivered
 <1>6. StreamAccounted'
   <2> SUFFICES ASSUME NEW f \in Epochs, pc'[f] \in StreamLabels PROVE Streaming(f)'
     BY DEF StreamAccounted
   <2>1. CASE f = e
     BY <1>0, <1>1, <1>3, <1>4, <2>1 DEF Streaming, Delivered, TypeOK
   <2>2. CASE f /= e
     <3>1. pc[f] = pc'[f] /\ job[f].input \in Inputs \ {i}
       BY <1>1, <1>2, <2>2, Fields DEF TypeOK
     <3> QED BY <1>1, <3>1 DEF StreamInv, StreamAccounted, Streaming
   <2> QED BY <2>1, <2>2
 <1>7. NothingReleasedYet'
   BY <1>1 DEF StreamInv, NothingReleasedYet, PreLabels, TypeOK
 <1>8. OneStreamer' BY <1>1, <1>2 DEF StreamInv, OneStreamer, TypeOK
 <1> QED BY <1>5, <1>6, <1>7, <1>8 DEF StreamInv

LEMMA EmitChunkStream ==
    ASSUME TypeOK, StreamInv, NEW e \in Epochs, EmitChunk(e)
    PROVE  StreamInv'
 <1> DEFINE i == job[e].input
 <1>0. i \in Inputs /\ pc[e] = "emit" /\ job[e].released \in Nat
   BY Fields DEF TypeOK, EmitChunk
 <1>1. Streaming(e) /\ job[e].released < TextLength
   BY <1>0 DEF StreamInv, StreamAccounted, Streaming, StreamLabels
 <1>2. /\ shown'[i].count = shown[i].count + 1
       /\ shown'[i].runs = shown[i].runs + (IF job[e].released = 0 THEN 1 ELSE 0)
       /\ \A k \in Inputs \ {i} : shown'[k] = shown[k]
   BY <1>0 DEF TypeOK, EmitChunk, Shown
 <1>3. /\ job'[e].input = i /\ job'[e].released = job[e].released + 1
       /\ \A f \in Epochs \ {e} : job'[f] = job[f]
   BY JobUpdates DEF TypeOK, EmitChunk
 <1>4. pc' = [pc EXCEPT ![e] = "record"] /\ turn' = turn
   BY DEF EmitChunk, Goto, stored
 <1>5. shown'[i].runs <= 1 /\ shown'[i].count <= TextLength /\ turn[i].status \in Delivered
   <2>1. shown[i].count \in Nat /\ shown[i].runs \in Nat
     BY <1>0, Fields DEF TypeOK
   <2> QED BY <1>0, <1>1, <1>2, <2>1, TextLengthAssumption DEF Streaming
 <1>6. SilentBeforeDelivery' /\ OneVisibleStream'
   BY <1>2, <1>4, <1>5 DEF StreamInv, SilentBeforeDelivery, OneVisibleStream
 <1>7. \A f \in Epochs \ {e} : pc[f] \in StreamLabels => job[f].input \in Inputs \ {i}
   BY <1>0, Fields DEF StreamInv, OneStreamer, StreamLabels, TypeOK
 <1>8. StreamAccounted'
   <2> SUFFICES ASSUME NEW f \in Epochs, pc'[f] \in StreamLabels PROVE Streaming(f)'
     BY DEF StreamAccounted
   <2>1. CASE f = e
     BY <1>0, <1>1, <1>2, <1>3, <1>4, <1>5, <2>1 DEF Streaming, TypeOK
   <2>2. CASE f /= e
     <3>1. pc[f] = pc'[f] BY <1>4, <2>2 DEF TypeOK
     <3> QED
       BY <1>2, <1>3, <1>4, <1>7, <2>2, <3>1 DEF StreamInv, StreamAccounted,
          Streaming
   <2> QED BY <2>1, <2>2
 <1>9. NothingReleasedYet'
   BY <1>3, <1>4 DEF StreamInv, NothingReleasedYet, PreLabels, TypeOK
 <1>10. OneStreamer' BY <1>3, <1>4, <1>7 DEF StreamInv, OneStreamer, TypeOK
 <1> QED BY <1>6, <1>8, <1>9, <1>10 DEF StreamInv

LEMMA RecordCycleQuiet ==
    ASSUME TypeOK, StreamInv, NEW e \in Epochs, RecordCycle(e)
    PROVE  Quiet(e)
 <1>1. job' = job \/ job' = [job EXCEPT ![e] = AtVersion(job[e], job[e].ver + 1)]
   BY DEF RecordCycle
 <1>0. job[e].input \in Inputs
   BY Fields DEF TypeOK
 <1>2. \A i \in Inputs : turn'[i].status = turn[i].status
   BY <1>0, TurnUpdates DEF TypeOK, RecordCycle
 <1>3. job'[e].released = job[e].released /\ \A f \in Epochs \ {e} : job'[f] = job[f]
   BY <1>1, JobUpdates DEF TypeOK
 <1> QED
   BY <1>2, <1>3 DEF TypeOK, Quiet, StreamInv, NothingReleasedYet,
      RecordCycle, Goto, StreamLabels, PreLabels

LEMMA CloseTurnQuiet ==
    ASSUME TypeOK, StreamInv, NEW e \in Epochs, CloseTurn(e)
    PROVE  Quiet(e)
 <1>1. /\ pc'[e] \notin StreamLabels /\ job'[e].released = 0
       /\ \A f \in Epochs \ {e} : pc'[f] = pc[f] /\ job'[f] = job[f]
   BY Fields, FreshUpdates DEF TypeOK, CloseTurn, Return, Leave, Goto, NoJob,
      StreamLabels
 <1>0. job[e].target \in Inputs
   BY Fields DEF TypeOK
 <1>2. \A i \in Inputs :
         turn[i].status \in Delivered => turn'[i].status \in Delivered
   BY <1>0, TurnUpdates DEF TypeOK, CloseTurn, MoveTurn, StatusOf, Delivered,
      TerminalTurn
 <1> QED BY <1>1, <1>2 DEF Quiet, CloseTurn

LEMMA StreamStep ==
    ASSUME TypeOK, StreamInv, [Next]_vars
    PROVE  StreamInv'
<1>1. ASSUME NEW e \in Epochs, StartRuntime(e)
      PROVE  StreamInv'
  <2>1. Quiet(e)
    BY <1>1 DEF TypeOK, Quiet, StreamInv, NothingReleasedYet,
       StartRuntime, stored, Goto, StreamLabels, PreLabels
  <2> QED BY <2>1, QuietKeeps
<1>2. ASSUME NEW e \in Epochs, Crash(e)
      PROVE  StreamInv'
  <2>1. Quiet(e)
    BY <1>2, FreshUpdates DEF TypeOK, Quiet, StreamInv,
       NothingReleasedYet, Crash, stored, StreamLabels, PreLabels, NoJob
  <2> QED BY <2>1, QuietKeeps
<1>3. ASSUME NEW e \in Epochs, Fenced(e)
      PROVE  StreamInv'
  <2>1. Quiet(e)
    BY <1>3, FreshUpdates DEF TypeOK, Quiet, StreamInv,
       NothingReleasedYet, Fenced, stored, Goto, StreamLabels, PreLabels,
       NoJob, Leave
  <2> QED BY <2>1, QuietKeeps
<1>4. ASSUME NEW e \in Epochs, LegFault(e)
      PROVE  StreamInv'
  <2>1. Quiet(e)
    BY <1>4, FreshUpdates DEF TypeOK, Quiet, StreamInv,
       NothingReleasedYet, LegFault, stored, Goto, StreamLabels,
       PreLabels, NoJob, Leave, Return
  <2> QED BY <2>1, QuietKeeps
<1>5. ASSUME NEW e \in Epochs, EstimateLost(e)
      PROVE  StreamInv'
  <2>1. Quiet(e)
    BY <1>5 DEF TypeOK, Quiet, StreamInv, NothingReleasedYet,
       EstimateLost, stored, Goto, StreamLabels, PreLabels
  <2> QED BY <2>1, QuietKeeps
<1>6. ASSUME NEW e \in Epochs, RecoverTurn(e)
      PROVE  StreamInv'
  <2>1. Quiet(e)
    BY <1>6, FreshUpdates DEF TypeOK, Quiet, StreamInv,
       NothingReleasedYet, RecoverTurn, stored, Goto, StreamLabels,
       PreLabels, NoJob
  <2> QED BY <2>1, QuietKeeps
<1>7. ASSUME NEW e \in Epochs, RecoveryDone(e)
      PROVE  StreamInv'
  <2>1. Quiet(e)
    BY <1>7, FreshUpdates DEF TypeOK, Quiet, StreamInv,
       NothingReleasedYet, RecoveryDone, stored, Goto, StreamLabels,
       PreLabels, NoJob, Leave
  <2> QED BY <2>1, QuietKeeps
<1>8. ASSUME NEW e \in Epochs, RepairClaim(e)
      PROVE  StreamInv'
  <2>1. Quiet(e)
    BY <1>8, TurnUpdates, Fields DEF TypeOK, Quiet, StreamInv,
       NothingReleasedYet, RepairClaim, Goto, StreamLabels, PreLabels,
       Delivered, TerminalTurn, Live, Adopted
  <2> QED BY <2>1, QuietKeeps
<1>9. ASSUME NEW e \in Epochs, RepairText(e)
      PROVE  StreamInv'
  <2>1. Quiet(e)
    BY <1>9, JobUpdates DEF TypeOK, Quiet, StreamInv, NothingReleasedYet,
       RepairText, Goto, StreamLabels, PreLabels
  <2> QED BY <2>1, QuietKeeps
<1>10. ASSUME NEW e \in Epochs, RepairEstimate(e)
       PROVE  StreamInv'
  <2>1. Quiet(e)
    BY <1>10 DEF TypeOK, Quiet, StreamInv, NothingReleasedYet,
       RepairEstimate, Goto, StreamLabels, PreLabels
  <2> QED BY <2>1, QuietKeeps
<1>11. ASSUME NEW e \in Epochs, NEW i \in Inputs, BeginTurn(e, i)
       PROVE  StreamInv'
  <2>1. Quiet(e)
    BY <1>11, FreshUpdates DEF TypeOK, Quiet, StreamInv,
       NothingReleasedYet, BeginTurn, stored, Goto, StreamLabels,
       PreLabels, NoJob
  <2> QED BY <2>1, QuietKeeps
<1>12. ASSUME NEW e \in Epochs, NEW i \in Inputs, CancelAction(e, i)
       PROVE  StreamInv'
  <2>1. Quiet(e)
    BY <1>12 DEF TypeOK, Quiet, StreamInv, NothingReleasedYet,
       CancelAction, Goto, StreamLabels, PreLabels
  <2> QED BY <2>1, QuietKeeps
<1>13. ASSUME NEW e \in Epochs, NEW i \in Inputs, CancelTurn(e, i)
       PROVE  StreamInv'
  <2>1. Quiet(e)
    BY <1>13, TurnUpdates, Fields DEF TypeOK, Quiet, StreamInv,
       NothingReleasedYet, CancelTurn, StreamLabels, PreLabels, Delivered,
       TerminalTurn, Live, MoveTurn
  <2> QED BY <2>1, QuietKeeps
<1>14. ASSUME NEW e \in Epochs, NEW r \in Inputs \X InterruptKinds, SkipRequest(e, r)
       PROVE  StreamInv'
  <2>1. Quiet(e)
    BY <1>14 DEF TypeOK, Quiet, StreamInv, NothingReleasedYet,
       SkipRequest, stored, StreamLabels, PreLabels
  <2> QED BY <2>1, QuietKeeps
<1>15. ASSUME NEW e \in Epochs, HandoffDone(e)
       PROVE  StreamInv'
  <2>1. Quiet(e)
    BY <1>15 DEF TypeOK, Quiet, StreamInv, NothingReleasedYet,
       HandoffDone, stored, Goto, StreamLabels, PreLabels
  <2> QED BY <2>1, QuietKeeps
<1>16. ASSUME NEW e \in Epochs, CommitUserTurn(e)
       PROVE  StreamInv'
  <2>1. Quiet(e)
    BY <1>16, TurnUpdates, Fields DEF TypeOK, Quiet, StreamInv,
       NothingReleasedYet, CommitUserTurn, Goto, StreamLabels, PreLabels,
       Delivered, TerminalTurn, Live
  <2> QED BY <2>1, QuietKeeps
<1>17. ASSUME NEW e \in Epochs, ReplayTerminal(e)
       PROVE  StreamInv'
  <2>1. Quiet(e)
    BY <1>17, FreshUpdates DEF TypeOK, Quiet, StreamInv,
       NothingReleasedYet, ReplayTerminal, stored, Goto, StreamLabels,
       PreLabels, NoJob, Leave
  <2> QED BY <2>1, QuietKeeps
<1>18. ASSUME NEW e \in Epochs, AdoptTurn(e)
       PROVE  StreamInv'
  <2>1. Quiet(e)
    BY <1>18, TurnUpdates, Fields, JobUpdates DEF TypeOK, Quiet,
       StreamInv, NothingReleasedYet, AdoptTurn, Goto, StreamLabels,
       PreLabels, Delivered, TerminalTurn, Live, Adopted
  <2> QED BY <2>1, QuietKeeps
<1>19. ASSUME NEW e \in Epochs, RepairDelivering(e)
       PROVE  StreamInv'
  <2>1. Quiet(e)
    BY <1>19 DEF TypeOK, Quiet, StreamInv, NothingReleasedYet,
       RepairDelivering, stored, Goto, StreamLabels, PreLabels
  <2> QED BY <2>1, QuietKeeps
<1>20. ASSUME NEW e \in Epochs, RefuseDelivering(e)
       PROVE  StreamInv'
  <2>1. Quiet(e)
    BY <1>20, FreshUpdates DEF TypeOK, Quiet, StreamInv,
       NothingReleasedYet, RefuseDelivering, stored, Goto, StreamLabels,
       PreLabels, NoJob, Leave
  <2> QED BY <2>1, QuietKeeps
<1>21. ASSUME NEW e \in Epochs, AdvanceTurn(e)
       PROVE  StreamInv'
  <2>1. Quiet(e)
    BY <1>21, TurnUpdates, Fields, JobUpdates DEF TypeOK, Quiet,
       StreamInv, NothingReleasedYet, AdvanceTurn, StreamLabels,
       PreLabels, Delivered, TerminalTurn, Live, MoveTurn
  <2> QED BY <2>1, QuietKeeps
<1>22. ASSUME NEW e \in Epochs, ParkTurn(e)
       PROVE  StreamInv'
  <2>1. Quiet(e)
    BY <1>22, FreshUpdates DEF TypeOK, Quiet, StreamInv,
       NothingReleasedYet, ParkTurn, stored, Goto, StreamLabels,
       PreLabels, NoJob, Leave
  <2> QED BY <2>1, QuietKeeps
<1>23. ASSUME NEW e \in Epochs, RecordCycle(e)
       PROVE  StreamInv'
  BY <1>23, RecordCycleQuiet, QuietKeeps
<1>24. ASSUME NEW e \in Epochs, NEW i \in Inputs, CloseParked(e, i)
       PROVE  StreamInv'
  <2>1. Quiet(e)
    BY <1>24, JobUpdates, FreshUpdates DEF TypeOK, Quiet, StreamInv,
       NothingReleasedYet, CloseParked, stored, Goto, StreamLabels,
       PreLabels, NoJob
  <2> QED BY <2>1, QuietKeeps
<1>25. ASSUME NEW e \in Epochs, CloseParkedClaim(e)
       PROVE  StreamInv'
  <2>1. Quiet(e)
    BY <1>25, TurnUpdates, Fields DEF TypeOK, Quiet, StreamInv,
       NothingReleasedYet, CloseParkedClaim, Goto, StreamLabels,
       PreLabels, Delivered, TerminalTurn, Live, Adopted
  <2> QED BY <2>1, QuietKeeps
<1>26. ASSUME NEW e \in Epochs, ClaimAction(e)
       PROVE  StreamInv'
  <2>1. Quiet(e)
    BY <1>26 DEF TypeOK, Quiet, StreamInv, NothingReleasedYet,
       ClaimAction, StreamLabels, PreLabels
  <2> QED BY <2>1, QuietKeeps
<1>27. ASSUME NEW e \in Epochs, CreateAction(e)
       PROVE  StreamInv'
  <2>1. Quiet(e)
    BY <1>27 DEF TypeOK, Quiet, StreamInv, NothingReleasedYet,
       CreateAction, StreamLabels, PreLabels
  <2> QED BY <2>1, QuietKeeps
<1>28. ASSUME NEW e \in Epochs, EnsureRequested(e)
       PROVE  StreamInv'
  <2>1. Quiet(e)
    BY <1>28, JobUpdates DEF TypeOK, Quiet, StreamInv, NothingReleasedYet,
       EnsureRequested, Goto, StreamLabels, PreLabels
  <2> QED BY <2>1, QuietKeeps
<1>29. ASSUME NEW e \in Epochs, RefuseDispatch(e)
       PROVE  StreamInv'
  <2>1. Quiet(e)
    BY <1>29, FreshUpdates DEF TypeOK, Quiet, StreamInv,
       NothingReleasedYet, RefuseDispatch, stored, Goto, StreamLabels,
       PreLabels, NoJob, Leave
  <2> QED BY <2>1, QuietKeeps
<1>30. ASSUME NEW e \in Epochs, CallProvider(e)
       PROVE  StreamInv'
  <2>1. Quiet(e)
    BY <1>30 DEF TypeOK, Quiet, StreamInv, NothingReleasedYet,
       CallProvider, Goto, StreamLabels, PreLabels
  <2> QED BY <2>1, QuietKeeps
<1>31. ASSUME NEW e \in Epochs, RecordAttempt(e)
       PROVE  StreamInv'
  <2>1. Quiet(e)
    BY <1>31, JobUpdates DEF TypeOK, Quiet, StreamInv, NothingReleasedYet,
       RecordAttempt, Goto, StreamLabels, PreLabels
  <2> QED BY <2>1, QuietKeeps
<1>32. ASSUME NEW e \in Epochs, StartValidation(e)
       PROVE  StreamInv'
  <2>1. Quiet(e)
    BY <1>32 DEF TypeOK, Quiet, StreamInv, NothingReleasedYet,
       StartValidation, Goto, StreamLabels, PreLabels
  <2> QED BY <2>1, QuietKeeps
<1>33. ASSUME NEW e \in Epochs, AcceptOutput(e)
       PROVE  StreamInv'
  <2>1. Quiet(e)
    BY <1>33 DEF TypeOK, Quiet, StreamInv, NothingReleasedYet,
       AcceptOutput, Goto, StreamLabels, PreLabels
  <2> QED BY <2>1, QuietKeeps
<1>34. ASSUME NEW e \in Epochs, RetryAction(e)
       PROVE  StreamInv'
  <2>1. Quiet(e)
    BY <1>34 DEF TypeOK, Quiet, StreamInv, NothingReleasedYet,
       RetryAction, Goto, StreamLabels, PreLabels
  <2> QED BY <2>1, QuietKeeps
<1>35. ASSUME NEW e \in Epochs, GiveUp(e)
       PROVE  StreamInv'
  <2>1. Quiet(e)
    BY <1>35, JobUpdates DEF TypeOK, Quiet, StreamInv, NothingReleasedYet,
       GiveUp, Goto, StreamLabels, PreLabels
  <2> QED BY <2>1, QuietKeeps
<1>36. ASSUME NEW e \in Epochs, BeginDelivery(e)
       PROVE  StreamInv'
  <2>1. Quiet(e)
    BY <1>36 DEF TypeOK, Quiet, StreamInv, NothingReleasedYet,
       BeginDelivery, Goto, StreamLabels, PreLabels
  <2> QED BY <2>1, QuietKeeps
<1>37. ASSUME NEW e \in Epochs, OpenRow(e)
       PROVE  StreamInv'
  <2>1. Quiet(e)
    BY <1>37 DEF TypeOK, Quiet, StreamInv, NothingReleasedYet, OpenRow,
       Goto, StreamLabels, PreLabels
  <2> QED BY <2>1, QuietKeeps
<1>38. ASSUME NEW e \in Epochs, PreDeliveryGuard(e)
       PROVE  StreamInv'
  <2>1. Quiet(e)
    BY <1>38, JobUpdates DEF TypeOK, Quiet, StreamInv, NothingReleasedYet,
       PreDeliveryGuard, stored, Goto, StreamLabels, PreLabels,
       ToCancelled
  <2> QED BY <2>1, QuietKeeps
<1>39. ASSUME NEW e \in Epochs, TakeInterrupted(e)
       PROVE  StreamInv'
  <2>1. Quiet(e)
    BY <1>39, JobUpdates DEF TypeOK, Quiet, StreamInv, NothingReleasedYet,
       TakeInterrupted, stored, Goto, StreamLabels, PreLabels, ToCancelled
  <2> QED BY <2>1, QuietKeeps
<1>40. ASSUME NEW e \in Epochs, TakeChunk(e)
       PROVE  StreamInv'
  <2>1. Quiet(e)
    BY <1>40 DEF TypeOK, Quiet, StreamInv, NothingReleasedYet, TakeChunk,
       stored, Goto, StreamLabels, PreLabels
  <2> QED BY <2>1, QuietKeeps
<1>41. ASSUME NEW e \in Epochs, EndStream(e)
       PROVE  StreamInv'
  <2>1. Quiet(e)
    BY <1>41, JobUpdates DEF TypeOK, Quiet, StreamInv, NothingReleasedYet,
       EndStream, stored, Goto, StreamLabels, PreLabels
  <2> QED BY <2>1, QuietKeeps
<1>42. ASSUME NEW e \in Epochs, RecordChunk(e)
       PROVE  StreamInv'
  <2>1. Quiet(e)
    BY <1>42, JobUpdates DEF TypeOK, Quiet, StreamInv, NothingReleasedYet,
       RecordChunk, Goto, StreamLabels, PreLabels
  <2> QED BY <2>1, QuietKeeps
<1>43. ASSUME NEW e \in Epochs, RefuseChunk(e)
       PROVE  StreamInv'
  <2>1. Quiet(e)
    BY <1>43, JobUpdates DEF TypeOK, Quiet, StreamInv, NothingReleasedYet,
       RefuseChunk, stored, Goto, StreamLabels, PreLabels
  <2> QED BY <2>1, QuietKeeps
<1>44. ASSUME NEW e \in Epochs, StreamRaises(e)
       PROVE  StreamInv'
  <2>1. Quiet(e)
    BY <1>44, JobUpdates DEF TypeOK, Quiet, StreamInv, NothingReleasedYet,
       StreamRaises, stored, Goto, StreamLabels, PreLabels
  <2> QED BY <2>1, QuietKeeps
<1>45. ASSUME NEW e \in Epochs, FreezeRow(e)
       PROVE  StreamInv'
  <2>1. Quiet(e)
    BY <1>45 DEF TypeOK, Quiet, StreamInv, NothingReleasedYet, FreezeRow,
       Goto, StreamLabels, PreLabels
  <2> QED BY <2>1, QuietKeeps
<1>46. ASSUME NEW e \in Epochs, WriteEstimate(e)
       PROVE  StreamInv'
  <2>1. Quiet(e)
    BY <1>46 DEF TypeOK, Quiet, StreamInv, NothingReleasedYet,
       WriteEstimate, Goto, StreamLabels, PreLabels
  <2> QED BY <2>1, QuietKeeps
<1>47. ASSUME NEW e \in Epochs, Transcribe(e)
       PROVE  StreamInv'
  <2>1. Quiet(e)
    BY <1>47 DEF TypeOK, Quiet, StreamInv, NothingReleasedYet, Transcribe,
       Goto, StreamLabels, PreLabels
  <2> QED BY <2>1, QuietKeeps
<1>48. ASSUME NEW e \in Epochs, SettleAction(e)
       PROVE  StreamInv'
  <2>1. Quiet(e)
    BY <1>48 DEF TypeOK, Quiet, StreamInv, NothingReleasedYet,
       SettleAction, Goto, StreamLabels, PreLabels
  <2> QED BY <2>1, QuietKeeps
<1>49. ASSUME NEW e \in Epochs, CloseTurn(e)
       PROVE  StreamInv'
  BY <1>49, CloseTurnQuiet, QuietKeeps
<1>50. ASSUME NEW e \in Epochs, DeliverTurn(e)
       PROVE  StreamInv'
  BY <1>50, DeliverTurnStream
<1>51. ASSUME NEW e \in Epochs, EmitChunk(e)
       PROVE  StreamInv'
  BY <1>51, EmitChunkStream
<1>52. CASE UNCHANGED <<turn, pc, job, shown>>
  BY <1>52 DEF StreamInv, SilentBeforeDelivery, StreamAccounted, Streaming,
     NothingReleasedYet, OneStreamer, OneVisibleStream
<1>53. ASSUME NEW i \in Inputs, NEW kind \in InterruptKinds, RequestInterrupt(i, kind)
       PROVE  StreamInv'
  BY <1>52, <1>53 DEF RequestInterrupt, stored
<1> QED
  BY <1>1, <1>2, <1>3, <1>4, <1>5, <1>6, <1>7, <1>8, <1>9, <1>10, <1>11,
     <1>12, <1>13, <1>14, <1>15, <1>16, <1>17, <1>18, <1>19, <1>20, <1>21,
     <1>22, <1>23, <1>24, <1>25, <1>26, <1>27, <1>28, <1>29, <1>30, <1>31,
     <1>32, <1>33, <1>34, <1>35, <1>36, <1>37, <1>38, <1>39, <1>40, <1>41,
     <1>42, <1>43, <1>44, <1>45, <1>46, <1>47, <1>48, <1>49, <1>50, <1>51,
     <1>52, <1>53 DEF Next, LegStep, Failure, vars, stored
LEMMA InitStream == Init => StreamInv
  BY TextLengthAssumption
     DEF Init, StreamInv, SilentBeforeDelivery, StreamAccounted,
         NothingReleasedYet, OneStreamer, OneVisibleStream, StreamLabels,
         PreLabels, NoShow

(* RA 17, for every reply length, number of runtimes and fault schedule:   *)
(* at most one stream run of a turn reaches the client, and never more     *)
(* than the validated text of finalize_streamed_delivery.                  *)
THEOREM VisibleOnce == Spec => []OneVisibleStream
<1>1. Init => TypeOK /\ StreamInv
  BY InitType, InitStream
<1>2. TypeOK /\ StreamInv /\ [Next]_vars => (TypeOK /\ StreamInv)'
  BY TypeStep, StreamStep
<1>3. StreamInv => OneVisibleStream
  BY DEF StreamInv
<1> QED BY <1>1, <1>2, <1>3, PTL DEF Spec

----------------------------------------------------------------------------
(* What a current leg may rely on at each of its labels.                   *)
Holds(e) ==
    LET i == job[e].input IN
    /\ pc[e] \in {"advance", "dispatch"} => turn[i].owner = e
    /\ pc[e] = "advance" => job[e].ver = turn[i].version
    /\ pc[e] = "provider" => action[i].owner = e
    /\ pc[e] \in {"provider", "validating", "retry"} =>
         action[i].status = "GENERATING"
    /\ pc[e] = "verdict" => action[i].status = "VALIDATING"
    /\ pc[e] = "freeze" => job[e].word /= "ABSENT"

ClosedRowsExist == \A i \in Inputs : row[i].closed => row[i].word /= "ABSENT"

LeaseInv ==
    /\ OwnersOrdered
    /\ ClosedRowsExist
    /\ \A e \in Epochs : Current(e) => Holds(e)

(* What every step of a runtime e satisfies: it changes a live turn or a   *)
(* live action only when it is current, leaves what it changed in its own  *)
(* name, advances open rows only, never rewrites a transcript, and hands   *)
(* its next label what that label relies on.                               *)
Guarded(e) ==
    /\ dbEpoch' = dbEpoch
    /\ \A f \in Epochs \ {e} : pc'[f] = pc[f] /\ job'[f] = job[f]
    /\ \A i \in Inputs :
         \/ turn'[i] = turn[i]
         \/ /\ Current(e) /\ action'[i] = action[i]
            /\ turn[i].status \notin TerminalTurn
            /\ turn'[i].owner = e
    /\ \A i \in Inputs :
         \/ action'[i] = action[i]
         \/ /\ Current(e) /\ turn'[i] = turn[i]
            /\ action[i].status /= "TERMINAL"
            /\ action'[i].owner = e
            /\ action[i].owner = e \/ turn[i].owner = e
    /\ \A i \in Inputs :
         \/ row'[i] = row[i]
         \/ ~row[i].closed /\ (row'[i].closed => row'[i].word /= "ABSENT")
    /\ \A i \in Inputs : asst[i].present => asst'[i] = asst[i]
    /\ Current(e) => Holds(e)'

----------------------------------------------------------------------------
(* Fields the argument needs.                                              *)

LEMMA LegFields ==
    ASSUME TypeOK, NEW e \in Epochs
    PROVE  /\ job[e] \in JobType /\ job[e].input \in Inputs /\ job[e].target \in Inputs
           /\ job[e].back \in {"idle", "handoff", "recover"}
  BY Fields DEF TypeOK

LEMMA OwnerUpdates ==
    ASSUME NEW t \in TurnType
    PROVE  /\ \A s : Moved(t, s).owner = t.owner
           /\ \A s : Moved(t, s).version = t.version + 1
           /\ \A e : OwnedBy(t, e).owner = e
           /\ WithCycle(t).owner = t.owner
 BY DEF TurnType, Moved, OwnedBy, WithCycle

LEMMA NewTurnOwner == \A e, c : NewTurn(e, c).owner = e
 BY DEF NewTurn

LEMMA ActionUpdates ==
    ASSUME NEW a \in ActionType
    PROVE  /\ \A s : InStatus(a, s).owner = a.owner /\ InStatus(a, s).status = s
           /\ \A e : Rearmed(a, e).owner = e
           /\ \A n : Attempted(a, n).owner = a.owner /\ Attempted(a, n).status = a.status
           /\ \A e : NewAction(e).owner = e
 BY DEF ActionType, InStatus, Rearmed, Attempted, NewAction

LEMMA LegUpdates ==
    ASSUME NEW j \in JobType
    PROVE  /\ \A v : AtVersion(j, v).input = j.input /\ AtVersion(j, v).ver = v
           /\ \A n : Attempted(j, n).input = j.input
           /\ \A n : Budgeted(j, n).input = j.input
 BY DEF JobType, AtVersion, Attempted, Budgeted

LEMMA AdvancedOpen ==
    ASSUME NEW x \in RowType, x.closed => x.word /= "ABSENT",
           NEW w, NEW p
    PROVE  LET y == Advanced(x, RowOf(w, p, FALSE)) IN
           y = x \/ (~x.closed /\ (y.closed => y.word /= "ABSENT"))
 <1>1. RowOf(w, p, FALSE).word = w /\ RowOf(w, p, FALSE).closed = FALSE
   BY DEF RowOf
 <1> QED BY <1>1 DEF Advanced

LEMMA AdvancedClosed ==
    ASSUME NEW x \in RowType, x.closed => x.word /= "ABSENT",
           NEW w, NEW p, w /= "ABSENT"
    PROVE  LET y == Advanced(x, RowOf(w, p, TRUE)) IN
           y = x \/ (~x.closed /\ (y.closed => y.word /= "ABSENT"))
 <1>1. RowOf(w, p, TRUE).word = w /\ RowOf(w, p, TRUE).closed = TRUE
   BY DEF RowOf
 <1> QED BY <1>1 DEF Advanced

LEMMA EndingWord ==
    ASSUME NEW j \in JobType
    PROVE  \A w, o : Ending(j, w, o).word = w
 BY DEF JobType, Ending

LEMMA GuardedKeeps ==
    ASSUME TypeOK, LeaseInv, NEW e \in Epochs, Guarded(e)
    PROVE  LeaseInv'
 <1>1. OwnersOrdered'
   <2> SUFFICES ASSUME NEW i \in Inputs
                  PROVE  action'[i].owner <= turn'[i].owner /\ turn'[i].owner <= dbEpoch'
     BY DEF OwnersOrdered
   <2>1. /\ action[i].owner \in Nat /\ turn[i].owner \in Nat /\ dbEpoch \in Nat
         /\ action[i].owner <= turn[i].owner /\ turn[i].owner <= dbEpoch
     BY Fields, TurnRuntimeAssumption DEF TypeOK, LeaseInv, OwnersOrdered
   <2> QED BY <2>1 DEF Guarded, Current
 <1>2. ASSUME NEW f \in Epochs, f = dbEpoch' PROVE Holds(f)'
   <2>1. CASE f = e BY <1>2, <2>1 DEF Guarded, Current
   <2>2. CASE f /= e
     <3>1. ~Current(e) /\ Holds(f) BY <1>2, <2>2 DEF Guarded, Current, LeaseInv
     <3>2. job[f].input \in Inputs BY LegFields
     <3> QED BY <2>2, <3>1, <3>2 DEF Guarded, Holds
   <2> QED BY <2>1, <2>2
 <1>3. ClosedRowsExist' BY DEF Guarded, LeaseInv, ClosedRowsExist
 <1> QED BY <1>1, <1>2, <1>3 DEF LeaseInv, Current

----------------------------------------------------------------------------
(* The steps that need more than unfolding.                                *)

LEMMA CancelActionGuarded ==
    ASSUME TypeOK, LeaseInv, NEW e \in Epochs, NEW i \in Inputs, CancelAction(e, i)
    PROVE  Guarded(e)
 <1>1. i \in Inputs /\ row[i] \in RowType /\ (row[i].closed => row[i].word /= "ABSENT")
   BY LegFields DEF TypeOK, LeaseInv, ClosedRowsExist
 <1>2. \/ row' = row
       \/ row' = [row EXCEPT ![i] = Advanced(row[i], RowOf("CANCELLED", row[i].prefix, TRUE))]
   BY DEF CancelAction
 <1>4. LET y == Advanced(row[i], RowOf("CANCELLED", row[i].prefix, TRUE)) IN
       y = row[i] \/ (~row[i].closed /\ (y.closed => y.word /= "ABSENT"))
   BY <1>1, AdvancedClosed
 <1>3. \A k \in Inputs :
         \/ row'[k] = row[k]
         \/ ~row[k].closed /\ (row'[k].closed => row'[k].word /= "ABSENT")
   BY <1>1, <1>2, <1>4 DEF TypeOK
 <1> QED BY <1>3 DEF TypeOK, Guarded, Holds, CancelAction, Goto

LEMMA AdoptTurnGuarded ==
    ASSUME TypeOK, LeaseInv, NEW e \in Epochs, AdoptTurn(e)
    PROVE  Guarded(e)
 <1> DEFINE i == job[e].input
 <1>0. i \in Inputs /\ job[e] \in JobType
   BY LegFields
 <1>1. /\ Current(e) /\ Live(i) /\ turn' = Adopted(e, i) /\ action' = action
       /\ dbEpoch' = dbEpoch
       /\ job' = [job EXCEPT ![e] = AtVersion(job[e], turn'[i].version)]
       /\ pc' = [pc EXCEPT ![e] = "advance"]
   BY DEF AdoptTurn, Goto
 <1>2. turn'[i].owner = e /\ \A k \in Inputs \ {i} : turn'[k] = turn[k]
   BY <1>0, <1>1, OwnerUpdates DEF Adopted, TypeOK
 <1>3. job'[e].input = i /\ job'[e].ver = turn'[i].version
   BY <1>0, <1>1, LegUpdates DEF TypeOK
 <1>4. Holds(e)'
   BY <1>1, <1>2, <1>3 DEF Holds, TypeOK
 <1>5. row' = row /\ asst' = asst
   BY DEF AdoptTurn
 <1> QED BY <1>0, <1>1, <1>2, <1>4, <1>5 DEF Guarded, Live, TypeOK

LEMMA OpenRowGuarded ==
    ASSUME TypeOK, LeaseInv, NEW e \in Epochs, OpenRow(e)
    PROVE  Guarded(e)
 <1> DEFINE i == job[e].input
 <1>1. i \in Inputs /\ row[i] \in RowType /\ (row[i].closed => row[i].word /= "ABSENT")
   BY LegFields DEF TypeOK, LeaseInv, ClosedRowsExist
 <1>2. row' = [row EXCEPT ![i] = Advanced(row[i], RowOf("SENDING", 0, FALSE))]
   BY DEF OpenRow
 <1>3. \A k \in Inputs :
         \/ row'[k] = row[k]
         \/ ~row[k].closed /\ (row'[k].closed => row'[k].word /= "ABSENT")
   BY <1>1, <1>2, AdvancedOpen DEF TypeOK
 <1> QED BY <1>3 DEF TypeOK, Guarded, Holds, OpenRow, Goto

LEMMA RecordChunkGuarded ==
    ASSUME TypeOK, LeaseInv, NEW e \in Epochs, RecordChunk(e)
    PROVE  Guarded(e)
 <1> DEFINE i == job[e].input
 <1>1. i \in Inputs /\ row[i] \in RowType /\ (row[i].closed => row[i].word /= "ABSENT")
   BY LegFields DEF TypeOK, LeaseInv, ClosedRowsExist
 <1>2. row' = [row EXCEPT ![i] = Advanced(row[i], RowOf("SENT_PARTIAL", job[e].released, FALSE))]
   BY DEF RecordChunk
 <1>3. \A k \in Inputs :
         \/ row'[k] = row[k]
         \/ ~row[k].closed /\ (row'[k].closed => row'[k].word /= "ABSENT")
   BY <1>1, <1>2, AdvancedOpen DEF TypeOK
 <1> QED BY <1>3 DEF TypeOK, Guarded, Holds, RecordChunk, Goto

LEMMA FreezeRowGuarded ==
    ASSUME TypeOK, LeaseInv, NEW e \in Epochs, FreezeRow(e)
    PROVE  Guarded(e)
 <1> DEFINE i == job[e].target
 <1>1. i \in Inputs /\ row[i] \in RowType /\ (row[i].closed => row[i].word /= "ABSENT")
   BY LegFields DEF TypeOK, LeaseInv, ClosedRowsExist
 <1>2. row' = [row EXCEPT ![i] = Advanced(row[i], RowOf(job[e].word, job[e].durable, TRUE))]
   BY DEF FreezeRow
 <1>4. job[e].word /= "ABSENT"
   BY DEF LeaseInv, Holds, FreezeRow
 <1>3. \A k \in Inputs :
         \/ row'[k] = row[k]
         \/ ~row[k].closed /\ (row'[k].closed => row'[k].word /= "ABSENT")
   BY <1>1, <1>2, <1>4, AdvancedClosed DEF TypeOK
 <1> QED BY <1>3 DEF TypeOK, Guarded, Holds, FreezeRow, Goto

(* Every step but the opening of an epoch and a filed interrupt is a       *)
(* guarded step of some runtime.                                           *)
LEMMA StepIsGuarded ==
    ASSUME TypeOK, LeaseInv, [Next]_vars
    PROVE  \/ \E e \in Epochs : Guarded(e)
           \/ \E e \in Epochs : StartRuntime(e)
           \/ UNCHANGED <<dbEpoch, stored, pc, job>>
<1>1. ASSUME NEW e \in Epochs, Crash(e)
      PROVE  Guarded(e)
  BY <1>1, LegFields DEF TypeOK, Guarded, LeaseInv, Holds, Crash, stored
<1>2. ASSUME NEW e \in Epochs, Fenced(e)
      PROVE  Guarded(e)
  BY <1>2, LegFields DEF TypeOK, Guarded, LeaseInv, Holds, Fenced, stored,
     Goto, Leave, Current
<1>3. ASSUME NEW e \in Epochs, LegFault(e)
      PROVE  Guarded(e)
  BY <1>3, LegFields DEF TypeOK, Guarded, LeaseInv, Holds, LegFault, stored,
     Goto, Leave, Return
<1>4. ASSUME NEW e \in Epochs, EstimateLost(e)
      PROVE  Guarded(e)
  BY <1>4, LegFields DEF TypeOK, Guarded, LeaseInv, Holds, EstimateLost,
     stored, Goto
<1>5. ASSUME NEW e \in Epochs, RecoverTurn(e)
      PROVE  Guarded(e)
  BY <1>5, LegFields DEF TypeOK, Guarded, LeaseInv, Holds, RecoverTurn,
     stored, Goto
<1>6. ASSUME NEW e \in Epochs, RecoveryDone(e)
      PROVE  Guarded(e)
  BY <1>6, LegFields DEF TypeOK, Guarded, LeaseInv, Holds, RecoveryDone,
     stored, Goto, Leave
<1>7. ASSUME NEW e \in Epochs, RepairClaim(e)
      PROVE  Guarded(e)
  BY <1>7, LegFields, OwnerUpdates DEF TypeOK, Guarded, LeaseInv, Holds,
     RepairClaim, Goto, TerminalTurn, Live, Adopted, Current
<1>8. ASSUME NEW e \in Epochs, RepairText(e)
      PROVE  Guarded(e)
  BY <1>8, LegFields, EndingWord DEF TypeOK, Guarded, LeaseInv, Holds,
     RepairText, Goto, Canonicalize, Current
<1>9. ASSUME NEW e \in Epochs, RepairEstimate(e)
      PROVE  Guarded(e)
  BY <1>9, LegFields DEF TypeOK, Guarded, LeaseInv, Holds, RepairEstimate,
     Goto, Current
<1>10. ASSUME NEW e \in Epochs, NEW i \in Inputs, BeginTurn(e, i)
       PROVE  Guarded(e)
  BY <1>10, LegFields DEF TypeOK, Guarded, LeaseInv, Holds, BeginTurn,
     stored, Goto
<1>11. ASSUME NEW e \in Epochs, NEW i \in Inputs, CancelAction(e, i)
       PROVE  Guarded(e)
  BY <1>11, CancelActionGuarded
<1>12. ASSUME NEW e \in Epochs, NEW i \in Inputs, CancelTurn(e, i)
       PROVE  Guarded(e)
  BY <1>12, LegFields, OwnerUpdates DEF TypeOK, Guarded, LeaseInv, Holds,
     CancelTurn, TerminalTurn, Live, MoveTurn, Current
<1>13. ASSUME NEW e \in Epochs, NEW r \in Inputs \X InterruptKinds, SkipRequest(e, r)
       PROVE  Guarded(e)
  BY <1>13, LegFields DEF TypeOK, Guarded, LeaseInv, Holds, SkipRequest,
     stored
<1>14. ASSUME NEW e \in Epochs, HandoffDone(e)
       PROVE  Guarded(e)
  BY <1>14, LegFields DEF TypeOK, Guarded, LeaseInv, Holds, HandoffDone,
     stored, Goto
<1>15. ASSUME NEW e \in Epochs, CommitUserTurn(e)
       PROVE  Guarded(e)
  BY <1>15, LegFields, NewTurnOwner DEF TypeOK, Guarded, LeaseInv, Holds,
     CommitUserTurn, Goto, TerminalTurn, Live, Current
<1>16. ASSUME NEW e \in Epochs, ReplayTerminal(e)
       PROVE  Guarded(e)
  BY <1>16, LegFields DEF TypeOK, Guarded, LeaseInv, Holds, ReplayTerminal,
     stored, Goto, Leave
<1>17. ASSUME NEW e \in Epochs, AdoptTurn(e)
       PROVE  Guarded(e)
  BY <1>17, AdoptTurnGuarded
<1>18. ASSUME NEW e \in Epochs, RepairDelivering(e)
       PROVE  Guarded(e)
  BY <1>18, LegFields DEF TypeOK, Guarded, LeaseInv, Holds,
     RepairDelivering, stored, Goto
<1>19. ASSUME NEW e \in Epochs, RefuseDelivering(e)
       PROVE  Guarded(e)
  BY <1>19, LegFields DEF TypeOK, Guarded, LeaseInv, Holds,
     RefuseDelivering, stored, Goto, Leave
<1>20. ASSUME NEW e \in Epochs, AdvanceTurn(e)
       PROVE  Guarded(e)
  <2> DEFINE i == job[e].input
  <2>0. i \in Inputs /\ job[e] \in JobType /\ turn[i] \in TurnType
    BY LegFields DEF TypeOK
  <2>1. /\ Current(e) /\ turn[i].owner = e /\ turn[i].status \notin TerminalTurn
        /\ job[e].ver = turn[i].version /\ pc[e] = "advance" /\ pc' = pc
        /\ action' = action /\ row' = row /\ asst' = asst /\ dbEpoch' = dbEpoch
        /\ \A k \in Inputs \ {i} : turn'[k] = turn[k]
        /\ \A f \in Epochs \ {e} : job'[f] = job[f]
    BY <1>20, <2>0 DEF AdvanceTurn, MoveTurn, Live, TypeOK
  <2>2. turn'[i].owner = turn[i].owner /\ turn'[i].version = turn[i].version + 1
    BY <1>20, <2>0, OwnerUpdates DEF AdvanceTurn, MoveTurn, TypeOK
  <2>3. job'[e].input = i /\ job'[e].ver = job[e].ver + 1
    BY <1>20, <2>0, LegUpdates DEF AdvanceTurn, TypeOK
  <2>4. Holds(e)'
    BY <2>1, <2>2, <2>3 DEF Holds
  <2> QED BY <2>0, <2>1, <2>2, <2>4 DEF Guarded
<1>21. ASSUME NEW e \in Epochs, ParkTurn(e)
       PROVE  Guarded(e)
  BY <1>21, LegFields DEF TypeOK, Guarded, LeaseInv, Holds, ParkTurn,
     stored, Goto, Leave
<1>22. ASSUME NEW e \in Epochs, RecordCycle(e)
       PROVE  Guarded(e)
  BY <1>22, LegFields, OwnerUpdates, LegUpdates DEF TypeOK, Guarded,
     LeaseInv, Holds, RecordCycle, Goto, TerminalTurn, Live, Current
<1>23. ASSUME NEW e \in Epochs, NEW i \in Inputs, CloseParked(e, i)
       PROVE  Guarded(e)
  BY <1>23, LegFields, EndingWord DEF TypeOK, Guarded, LeaseInv, Holds,
     CloseParked, stored, Goto
<1>24. ASSUME NEW e \in Epochs, CloseParkedClaim(e)
       PROVE  Guarded(e)
  BY <1>24, LegFields, OwnerUpdates DEF TypeOK, Guarded, LeaseInv, Holds,
     CloseParkedClaim, Goto, TerminalTurn, Live, Adopted, Current
<1>25. ASSUME NEW e \in Epochs, ClaimAction(e)
       PROVE  Guarded(e)
  BY <1>25, LegFields, ActionUpdates DEF TypeOK, Guarded, LeaseInv, Holds,
     ClaimAction, Running, Current
<1>26. ASSUME NEW e \in Epochs, CreateAction(e)
       PROVE  Guarded(e)
  BY <1>26, LegFields, ActionUpdates DEF TypeOK, Guarded, LeaseInv, Holds,
     CreateAction, Running, Current
<1>27. ASSUME NEW e \in Epochs, EnsureRequested(e)
       PROVE  Guarded(e)
  <2> DEFINE i == job[e].input
  <2>0. i \in Inputs /\ job[e] \in JobType /\ action[i] \in ActionType
    BY LegFields DEF TypeOK
  <2>1. /\ action[i].owner = e /\ pc'[e] = "call"
        /\ turn' = turn /\ row' = row /\ asst' = asst /\ dbEpoch' = dbEpoch
        /\ \A k \in Inputs \ {i} : action'[k] = action[k]
        /\ action' = action \/ (Current(e) /\ action[i].status = "PREPARED")
        /\ \A f \in Epochs \ {e} : pc'[f] = pc[f] /\ job'[f] = job[f]
    BY <1>27, <2>0 DEF EnsureRequested, MoveAction, Goto, TypeOK
  <2>2. action'[i].owner = e
    BY <1>27, <2>0, <2>1, ActionUpdates DEF EnsureRequested, MoveAction, TypeOK
  <2>3. Holds(e)'
    BY <2>1 DEF Holds
  <2> QED BY <2>0, <2>1, <2>2, <2>3 DEF Guarded
<1>28. ASSUME NEW e \in Epochs, RefuseDispatch(e)
       PROVE  Guarded(e)
  BY <1>28, LegFields DEF TypeOK, Guarded, LeaseInv, Holds, RefuseDispatch,
     stored, Goto, Leave
<1>29. ASSUME NEW e \in Epochs, CallProvider(e)
       PROVE  Guarded(e)
  BY <1>29, LegFields, ActionUpdates DEF TypeOK, Guarded, LeaseInv, Holds,
     CallProvider, Goto, Running, MoveAction, Current
<1>30. ASSUME NEW e \in Epochs, RecordAttempt(e)
       PROVE  Guarded(e)
  BY <1>30, LegFields, ActionUpdates, LegUpdates DEF TypeOK, Guarded,
     LeaseInv, Holds, RecordAttempt, Goto, Running, Current
<1>31. ASSUME NEW e \in Epochs, StartValidation(e)
       PROVE  Guarded(e)
  BY <1>31, LegFields, ActionUpdates DEF TypeOK, Guarded, LeaseInv, Holds,
     StartValidation, Goto, Running, MoveAction, Current
<1>32. ASSUME NEW e \in Epochs, AcceptOutput(e)
       PROVE  Guarded(e)
  BY <1>32, LegFields, ActionUpdates DEF TypeOK, Guarded, LeaseInv, Holds,
     AcceptOutput, Goto, Running, MoveAction, Current
<1>33. ASSUME NEW e \in Epochs, RetryAction(e)
       PROVE  Guarded(e)
  BY <1>33, LegFields, ActionUpdates DEF TypeOK, Guarded, LeaseInv, Holds,
     RetryAction, Goto, Running, MoveAction, Current
<1>34. ASSUME NEW e \in Epochs, GiveUp(e)
       PROVE  Guarded(e)
  BY <1>34, LegFields, ActionUpdates, EndingWord DEF TypeOK, Guarded,
     LeaseInv, Holds, GiveUp, Goto, Running, MoveAction, Current
<1>35. ASSUME NEW e \in Epochs, BeginDelivery(e)
       PROVE  Guarded(e)
  BY <1>35, LegFields, ActionUpdates DEF TypeOK, Guarded, LeaseInv, Holds,
     BeginDelivery, Goto, Running, MoveAction, Current
<1>36. ASSUME NEW e \in Epochs, DeliverTurn(e)
       PROVE  Guarded(e)
  BY <1>36, LegFields, OwnerUpdates DEF TypeOK, Guarded, LeaseInv, Holds,
     DeliverTurn, Goto, TerminalTurn, Live, MoveTurn, Current
<1>37. ASSUME NEW e \in Epochs, OpenRow(e)
       PROVE  Guarded(e)
  BY <1>37, OpenRowGuarded
<1>38. ASSUME NEW e \in Epochs, PreDeliveryGuard(e)
       PROVE  Guarded(e)
  BY <1>38, LegFields, EndingWord DEF TypeOK, Guarded, LeaseInv, Holds,
     PreDeliveryGuard, stored, Goto, ToCancelled, Current
<1>39. ASSUME NEW e \in Epochs, TakeInterrupted(e)
       PROVE  Guarded(e)
  BY <1>39, LegFields, EndingWord DEF TypeOK, Guarded, LeaseInv, Holds,
     TakeInterrupted, stored, Goto, ToCancelled
<1>40. ASSUME NEW e \in Epochs, TakeChunk(e)
       PROVE  Guarded(e)
  BY <1>40, LegFields DEF TypeOK, Guarded, LeaseInv, Holds, TakeChunk,
     stored, Goto
<1>41. ASSUME NEW e \in Epochs, EndStream(e)
       PROVE  Guarded(e)
  BY <1>41, LegFields, EndingWord DEF TypeOK, Guarded, LeaseInv, Holds,
     EndStream, stored, Goto, RunWord
<1>42. ASSUME NEW e \in Epochs, EmitChunk(e)
       PROVE  Guarded(e)
  BY <1>42, LegFields DEF TypeOK, Guarded, LeaseInv, Holds, EmitChunk,
     stored, Goto, Current
<1>43. ASSUME NEW e \in Epochs, RecordChunk(e)
       PROVE  Guarded(e)
  BY <1>43, RecordChunkGuarded
<1>44. ASSUME NEW e \in Epochs, RefuseChunk(e)
       PROVE  Guarded(e)
  BY <1>44, LegFields, EndingWord DEF TypeOK, Guarded, LeaseInv, Holds,
     RefuseChunk, stored, Goto, Current
<1>45. ASSUME NEW e \in Epochs, StreamRaises(e)
       PROVE  Guarded(e)
  BY <1>45, LegFields, EndingWord, SentType DEF TypeOK, Guarded, LeaseInv,
     Holds, StreamRaises, stored, Goto
<1>46. ASSUME NEW e \in Epochs, FreezeRow(e)
       PROVE  Guarded(e)
  BY <1>46, FreezeRowGuarded
<1>47. ASSUME NEW e \in Epochs, WriteEstimate(e)
       PROVE  Guarded(e)
  BY <1>47, LegFields DEF TypeOK, Guarded, LeaseInv, Holds, WriteEstimate,
     Goto, Current
<1>48. ASSUME NEW e \in Epochs, Transcribe(e)
       PROVE  Guarded(e)
  BY <1>48, LegFields DEF TypeOK, Guarded, LeaseInv, Holds, Transcribe,
     Goto, Canonicalize
<1>49. ASSUME NEW e \in Epochs, SettleAction(e)
       PROVE  Guarded(e)
  BY <1>49, LegFields, ActionUpdates DEF TypeOK, Guarded, LeaseInv, Holds,
     SettleAction, Goto, Running, MoveAction, Current
<1>50. ASSUME NEW e \in Epochs, CloseTurn(e)
       PROVE  Guarded(e)
  BY <1>50, LegFields, OwnerUpdates DEF TypeOK, Guarded, LeaseInv, Holds,
     CloseTurn, Goto, TerminalTurn, Live, MoveTurn, Leave, Return, Current
<1>51. ASSUME NEW i \in Inputs, NEW kind \in InterruptKinds, RequestInterrupt(i, kind)
       PROVE  UNCHANGED <<dbEpoch, stored, pc, job>>
  BY <1>51 DEF RequestInterrupt
<1> QED
  BY <1>1, <1>2, <1>3, <1>4, <1>5, <1>6, <1>7, <1>8, <1>9, <1>10, <1>11,
     <1>12, <1>13, <1>14, <1>15, <1>16, <1>17, <1>18, <1>19, <1>20, <1>21,
     <1>22, <1>23, <1>24, <1>25, <1>26, <1>27, <1>28, <1>29, <1>30, <1>31,
     <1>32, <1>33, <1>34, <1>35, <1>36, <1>37, <1>38, <1>39, <1>40, <1>41,
     <1>42, <1>43, <1>44, <1>45, <1>46, <1>47, <1>48, <1>49, <1>50, <1>51
     DEF Next, LegStep, Failure, vars

LEMMA LeaseStep ==
    ASSUME TypeOK, LeaseInv, [Next]_vars
    PROVE  LeaseInv'
<1>1. ASSUME NEW e \in Epochs, Guarded(e)
      PROVE  LeaseInv'
  BY <1>1, GuardedKeeps
<1>2. ASSUME NEW e \in Epochs, StartRuntime(e)
      PROVE  LeaseInv'
  <2>1. /\ dbEpoch' = e /\ e = dbEpoch + 1 /\ dbEpoch \in Nat
        /\ pc'[e] = "recover"
        /\ turn' = turn /\ action' = action /\ row' = row
    BY <1>2, TurnRuntimeAssumption DEF StartRuntime, Goto, stored, TypeOK
  <2>2. OwnersOrdered'
    <3> SUFFICES ASSUME NEW i \in Inputs
                 PROVE  action[i].owner <= turn[i].owner /\ turn[i].owner <= e
      BY <2>1 DEF OwnersOrdered
    <3>1. turn[i].owner \in Nat /\ turn[i].owner <= dbEpoch
      BY Fields, TurnRuntimeAssumption DEF LeaseInv, OwnersOrdered, TypeOK
    <3> QED BY <2>1, <3>1 DEF LeaseInv, OwnersOrdered
  <2>3. ClosedRowsExist'
    BY <2>1 DEF LeaseInv, ClosedRowsExist
  <2>4. Holds(e)'
    BY <2>1 DEF Holds
  <2> QED BY <2>1, <2>2, <2>3, <2>4 DEF LeaseInv, Current
<1>3. CASE UNCHANGED <<dbEpoch, stored, pc, job>>
  BY <1>3 DEF LeaseInv, OwnersOrdered, ClosedRowsExist, Current, Holds, stored
<1> QED BY <1>1, <1>2, <1>3, StepIsGuarded

LEMMA InitLease == Init => LeaseInv
<1> SUFFICES ASSUME Init PROVE LeaseInv
  OBVIOUS
<1>1. OwnersOrdered
  BY DEF Init, OwnersOrdered, NoTurn, NoAction
<1>2. ClosedRowsExist
  BY DEF Init, ClosedRowsExist, NoRow, RowOf
<1>3. \A e \in Epochs : Holds(e)
  BY DEF Init, Holds
<1> QED BY <1>1, <1>2, <1>3 DEF LeaseInv

LEMMA LeaseInvariant == Spec => [](TypeOK /\ LeaseInv)
<1> QED BY InitType, InitLease, TypeStep, LeaseStep, PTL DEF Spec

----------------------------------------------------------------------------
(* claim_turn_for_recovery and claim_action_for_recovery never leave an    *)
(* action with a newer owner than its turn, for any number of takeovers.   *)
THEOREM OwnersStayOrdered == Spec => []OwnersOrdered
<1>1. TypeOK /\ LeaseInv => OwnersOrdered
  BY DEF LeaseInv
<1> QED BY <1>1, LeaseInvariant, PTL

(* The state_version a current leg remembers is the durable one at every   *)
(* CAS of _begin_turn_guarded, whatever other runtimes and requests do.    *)
THEOREM VersionsAreHeld == Spec => []LegHoldsVersion
<1>1. TypeOK /\ LeaseInv => LegHoldsVersion
  BY DEF LeaseInv, LegHoldsVersion, Holds
<1> QED BY <1>1, LeaseInvariant, PTL

(* _require_current_epoch fences every older runtime: a turn or action     *)
(* that changes is left owned by the newest epoch.                         *)
THEOREM NewestWritesOnly == Spec => OnlyNewestWrites
<1>1. ASSUME TypeOK, LeaseInv, [Next]_vars, NEW i \in Inputs
      PROVE  /\ turn'[i] /= turn[i] => turn'[i].owner = dbEpoch'
             /\ action'[i] /= action[i] => action'[i].owner = dbEpoch'
  <2>1. ASSUME NEW e \in Epochs, Guarded(e)
        PROVE  /\ turn'[i] /= turn[i] => turn'[i].owner = dbEpoch'
               /\ action'[i] /= action[i] => action'[i].owner = dbEpoch'
    BY <2>1 DEF Guarded, Current
  <2> QED BY <1>1, <2>1, StepIsGuarded DEF StartRuntime, stored
<1>2. TypeOK /\ LeaseInv /\ [Next]_vars =>
        [\A i \in Inputs :
           /\ turn'[i] /= turn[i] => turn'[i].owner = dbEpoch'
           /\ action'[i] /= action[i] => action'[i].owner = dbEpoch']_vars
  BY <1>1
<1> QED BY <1>2, LeaseInvariant, PTL DEF Spec, OnlyNewestWrites

(* A terminal turn or action, a transcript entry and a closed delivery row *)
(* are final: no retry, recovery, late cancellation or repair reopens one. *)
THEOREM TerminalStays == Spec => TerminalIsFinal
<1>1. ASSUME TypeOK, LeaseInv, [Next]_vars, NEW i \in Inputs
      PROVE  /\ turn[i].status \in TerminalTurn => turn'[i] = turn[i]
             /\ action[i].status = "TERMINAL" => action'[i] = action[i]
             /\ asst[i].present => asst'[i] = asst[i]
             /\ row[i].closed => row'[i] = row[i]
  <2>1. ASSUME NEW e \in Epochs, Guarded(e)
        PROVE  /\ turn[i].status \in TerminalTurn => turn'[i] = turn[i]
               /\ action[i].status = "TERMINAL" => action'[i] = action[i]
               /\ asst[i].present => asst'[i] = asst[i]
               /\ row[i].closed => row'[i] = row[i]
    BY <2>1 DEF Guarded
  <2> QED BY <1>1, <2>1, StepIsGuarded DEF StartRuntime, stored
<1>2. TypeOK /\ LeaseInv /\ [Next]_vars =>
        [\A i \in Inputs :
           /\ turn[i].status \in TerminalTurn => turn'[i] = turn[i]
           /\ action[i].status = "TERMINAL" => action'[i] = action[i]
           /\ asst[i].present => asst'[i] = asst[i]
           /\ row[i].closed => row'[i] = row[i]]_vars
  BY <1>1
<1> QED BY <1>2, LeaseInvariant, PTL DEF Spec, TerminalIsFinal
(* The lease across any number of runtimes, deaths and takeovers: types,   *)
(* owners and remembered versions together (claim_turn_for_recovery,       *)
(* claim_action_for_recovery, _begin_turn_guarded).                        *)
THEOREM LeaseIsHeld == Spec => []LeaseHeld
<1>1. TypeOK /\ OwnersOrdered /\ LegHoldsVersion => LeaseHeld
  BY DEF LeaseHeld
<1> QED BY <1>1, LeaseInvariant, OwnersStayOrdered, VersionsAreHeld, PTL

(* No write comes too late, from a replaced runtime or onto a final row    *)
(* (_require_current_epoch, the compare-and-set of the stores).            *)
THEOREM WritesStayFenced == Spec => WritesAreFenced
<1> QED BY NewestWritesOnly, TerminalStays, PTL DEF WritesAreFenced

----------------------------------------------------------------------------
(* What a delivery leaves behind.  The rows of a delivery are written by   *)
(* several steps of a leg, from what the leg counted in memory; the        *)
(* invariant says what the runtime behind the fence knows at each label,   *)
(* what a stream that was fenced off may still do, and what holds of the   *)
(* rows of a turn at any time.                                             *)

(* A turn of which nothing was delivered: no row, transcript or estimate.  *)
Untouched(i) ==
    /\ row[i].word = "ABSENT" /\ row[i].prefix = 0 /\ ~row[i].closed
    /\ ~asst[i].present /\ ~est[i].present

(* The labels between the decision to generate and the delivery, of a      *)
(* stream whose row is open, and of a repair.                              *)
WorkLabels == {"dispatch", "call", "provider", "validating", "verdict", "retry",
               "begin", "deliver"}
RunLabels == {"guard", "take", "emit", "record"}
RepairLabels == {"repair", "repairText", "repairEstimate"}

(* Which turn a leg works on: its own, except in the tail of a handoff;    *)
(* a handoff holds only requests that were filed, and a leg that has not   *)
(* begun to stream counts nothing.                                         *)
LegShape(e) ==
    /\ job[e].back = "handoff" => pc[e] \in {"transcribe", "settle", "close"}
    /\ job[e].back /= "handoff" => job[e].target = job[e].input
    /\ pc[e] = "handoff" \/ job[e].back = "handoff"
         => work[e] \subseteq Inputs \X InterruptKinds
    /\ pc[e] \in PreLabels \cup {"open"} => job[e].released = 0 /\ job[e].durable = 0

OwnDelivery(e, i) == action[i].status = "DELIVERING" /\ action[i].owner = e

(* What the runtime behind the fence knows of its turn up to the end of    *)
(* the stream,                                                             *)
KnowsRun(e) ==
    LET i == job[e].input IN
    /\ pc[e] \in WorkLabels => turn[i].status = "GENERATING"
    /\ pc[e] = "deliver" => OwnDelivery(e, i)
    /\ pc[e] = "open" => Untouched(i)
    /\ pc[e] \in StreamLabels \cup {"freeze"} =>
         turn[i].status = "DELIVERING" /\ ~asst[i].present /\ ~est[i].present
    /\ pc[e] \in RunLabels =>
         /\ ~row[i].closed /\ row[i].prefix = job[e].durable
         /\ job[e].released = job[e].durable + (IF pc[e] = "record" THEN 1 ELSE 0)
    /\ pc[e] \in {"take", "emit", "record"} => turn[i].seq = conv.nextTurn - 1

(* and of the turn its tail or its repair finishes.                        *)
KnowsTail(e) ==
    LET k == job[e].target IN
    /\ pc[e] = "freeze" =>
         ~row[k].closed /\ (job[e].durable > 0 => job[e].durable = row[k].prefix)
    /\ pc[e] = "estimate" /\ job[e].durable > 0 => job[e].durable = row[k].prefix
    /\ pc[e] = "transcribe" => job[e].durable > 0 /\ job[e].durable = row[k].prefix
    /\ pc[e] \in {"freeze", "estimate"} =>
         OwnDelivery(e, k) /\ turn[k].status = "DELIVERING"
    /\ pc[e] \in RepairLabels => action[k].status = "TERMINAL"

(* A stream, fenced or not, sends a delivery of its own; once a chunk was  *)
(* overrun by an interrupt or by the fence, no further one is on its way.  *)
InStream(e) ==
    LET i == job[e].input IN
    /\ OwnDelivery(e, i)
    /\ shown[i].late > 0 => pc[e] /= "emit"
    /\ shown[i].fenced > 0 => pc[e] = "record" /\ ~Current(e)

LegFacts(e) ==
    /\ LegShape(e)
    /\ Current(e) => KnowsRun(e) /\ KnowsTail(e)
    /\ pc[e] \in StreamLabels => InStream(e)

(* The rows of a turn at any time.                                         *)
TurnFacts(i) ==
    /\ turn[i].status \notin Delivered =>
         Untouched(i) /\ shown[i].late = 0 /\ shown[i].fenced = 0
    /\ row[i].prefix <= shown[i].count
    /\ row[i].word = "ABSENT" => row[i].prefix = 0
    /\ asst[i].present => asst[i].content = row[i].prefix
    /\ turn[i].seq < conv.nextTurn
    /\ shown[i].late > 0 => <<i, "action">> \in interrupts
    /\ shown[i].late <= 1 /\ shown[i].fenced <= 1

DeliveryInv ==
    /\ \A e \in Epochs : LegFacts(e)
    /\ \A i \in Inputs : TurnFacts(i)

(* What a step of a runtime e leaves alone: the other legs, all rows when  *)
(* e is fenced off, and the action of a stream that is not its own.        *)
Apart(e) ==
    /\ dbEpoch' = dbEpoch /\ interrupts' = interrupts
    /\ \A f \in Epochs \ {e} : pc'[f] = pc[f] /\ job'[f] = job[f] /\ work'[f] = work[f]
    /\ ~Current(e) => stored' = stored
    /\ \A i \in Inputs :
         \/ action'[i] = action[i]
         \/ action[i].owner = e
         \/ turn[i].status \notin Delivered
    /\ \A i \in Inputs :
         shown'[i] = shown[i] \/ (pc[e] = "emit" /\ i = job[e].input)

(* A step that writes no row of a delivery.                                *)
RowsKept ==
    /\ row' = row /\ asst' = asst /\ est' = est /\ conv' = conv /\ shown' = shown
    /\ \A i \in Inputs :
         /\ turn'[i].seq = turn[i].seq
         /\ turn[i].status \in Delivered => turn'[i].status \in Delivered

DeliveryGiven == TypeOK /\ LeaseInv /\ StreamInv /\ DeliveryInv

LEMMA OthersStay ==
    ASSUME DeliveryGiven, NEW e \in Epochs, Apart(e), NEW f \in Epochs \ {e}
    PROVE  LegFacts(f)'
<1>1. /\ pc'[f] = pc[f] /\ job'[f] = job[f] /\ work'[f] = work[f] /\ dbEpoch' = dbEpoch
      /\ LegFacts(f) /\ job[f].input \in Inputs
  BY LegFields DEF Apart, DeliveryGiven, DeliveryInv
<1>2. LegShape(f)'
  BY <1>1 DEF LegFacts, LegShape
<1>3. Current(f)' => KnowsRun(f)' /\ KnowsTail(f)'
  <2> HAVE Current(f)'
  <2>1. Current(f) /\ stored' = stored
    BY <1>1 DEF Current, Apart
  <2> QED BY <1>1, <2>1 DEF LegFacts, KnowsRun, KnowsTail, stored, OwnDelivery, Untouched
<1>4. ASSUME pc'[f] \in StreamLabels PROVE InStream(f)'
  <2> DEFINE i == job[f].input
  <2>1. InStream(f) /\ turn[i].status \in Delivered
    BY <1>1, <1>4 DEF LegFacts, DeliveryGiven, StreamInv, StreamAccounted, Streaming
  <2>2. action'[i] = action[i]
    BY <1>1, <2>1 DEF Apart, InStream, OwnDelivery
  <2>3. shown'[i] = shown[i]
    BY <1>1, <1>4 DEF Apart, DeliveryGiven, StreamInv, OneStreamer, StreamLabels
  <2> QED BY <1>1, <2>1, <2>2, <2>3 DEF InStream, OwnDelivery, Current
<1> QED BY <1>2, <1>3, <1>4 DEF LegFacts

LEMMA RowsKeptFacts ==
    ASSUME DeliveryGiven, RowsKept, interrupts \subseteq interrupts'
    PROVE  \A i \in Inputs : TurnFacts(i)'
  BY DEF DeliveryGiven, DeliveryInv, RowsKept, TurnFacts, Untouched

LEMMA DeliveryGoesOn ==
    ASSUME DeliveryGiven, NEW e \in Epochs, Apart(e), LegFacts(e)',
           RowsKept \/ \A i \in Inputs : TurnFacts(i)'
    PROVE  DeliveryInv'
<1>1. \A i \in Inputs : TurnFacts(i)'
  BY RowsKeptFacts DEF Apart
<1>2. \A f \in Epochs : LegFacts(f)'
  BY OthersStay
<1> QED BY <1>1, <1>2 DEF DeliveryInv

(* The fields of the rows a step may change.                               *)
LEMMA TurnFields ==
    ASSUME NEW t \in TurnType
    PROVE  /\ \A s : Moved(t, s).status = s /\ Moved(t, s).seq = t.seq
                     /\ Moved(t, s).msg = t.msg /\ Moved(t, s).owner = t.owner
           /\ \A e : OwnedBy(t, e).status = t.status /\ OwnedBy(t, e).seq = t.seq
                     /\ OwnedBy(t, e).msg = t.msg
           /\ WithCycle(t).status = t.status /\ WithCycle(t).seq = t.seq
           /\ WithCycle(t).msg = t.msg
 BY DEF TurnType, Moved, OwnedBy, WithCycle

LEMMA JobFields ==
    ASSUME NEW j \in JobType
    PROVE
  /\ \A w, o : LET k == Ending(j, w, o) IN
       /\ k.input = j.input /\ k.target = j.target /\ k.back = j.back
       /\ k.released = j.released /\ k.durable = j.durable /\ k.word = w
  /\ \A v : LET k == AtVersion(j, v) IN
       /\ k.input = j.input /\ k.target = j.target /\ k.back = j.back
       /\ k.released = j.released /\ k.durable = j.durable
  /\ \A n : LET k == Budgeted(j, n) IN
       /\ k.input = j.input /\ k.target = j.target /\ k.back = j.back
       /\ k.released = j.released /\ k.durable = j.durable
  /\ \A n : LET k == Attempted(j, n) IN
       /\ k.input = j.input /\ k.target = j.target /\ k.back = j.back
       /\ k.released = j.released /\ k.durable = j.durable
  /\ \A r, d : LET k == Sent(j, r, d) IN
       /\ k.input = j.input /\ k.target = j.target /\ k.back = j.back
       /\ k.released = r /\ k.durable = d /\ k.word = j.word
  /\ \A i, n : LET k == Cancelling(j, i, n) IN
       /\ k.input = j.input /\ k.target = i /\ k.back = "handoff" /\ k.durable = n
 BY DEF JobType, Ending, AtVersion, Budgeted, Attempted, Sent, Cancelling

LEMMA FreshFields ==
    /\ \A i, k, b : LET j == FreshJob(i, k, b) IN
         j.input = i /\ j.target = k /\ j.back = b /\ j.released = 0 /\ j.durable = 0
    /\ NoJob.released = 0 /\ NoJob.durable = 0
    /\ NoJob.input = NoJob.target /\ NoJob.back = "idle"
 BY DEF FreshJob, NoJob

(* Advanced: what a submission makes of the row.                           *)
LEMMA AdvancedRow ==
    ASSUME NEW x, NEW w, NEW p
    PROVE  /\ LET y == Advanced(x, RowOf(w, p, FALSE)) IN
                IF x.word = "ABSENT" \/ (~x.closed /\ p >= x.prefix)
                THEN y.word = w /\ y.prefix = p /\ ~y.closed
                ELSE y = x
           /\ LET y == Advanced(x, RowOf(w, p, TRUE)) IN
                IF x.word = "ABSENT" \/ (~x.closed /\ p >= x.prefix)
                THEN y.word = w /\ y.prefix = p /\ y.closed
                ELSE y = x
 BY DEF Advanced, RowOf

(* The labels at which a leg relies on nothing.                            *)
RestLabels == {"down", "dead", "idle", "recover", "handoff", "cp0", "adopt",
               "advance", "closeParked"}

(* A step that writes no row and ends at such a label.                     *)
LEMMA RestingStep ==
    ASSUME DeliveryGiven, NEW e \in Epochs, Apart(e), RowsKept,
           pc'[e] \in RestLabels, LegShape(e)'
    PROVE  Apart(e) /\ DeliveryInv'
<1>1. LegFacts(e)'
  BY DEF LegFacts, KnowsRun, KnowsTail, RestLabels, WorkLabels, RunLabels, StreamLabels,
     RepairLabels
<1> QED BY <1>1, DeliveryGoesOn

(* A leg ends, or goes back to its caller.                                 *)
LEMMA LeaveShape ==
    ASSUME DeliveryGiven, NEW e \in Epochs, Leave(e) \/ Return(e)
    PROVE  /\ \A f \in Epochs \ {e} :
                pc'[f] = pc[f] /\ job'[f] = job[f] /\ work'[f] = work[f]
           /\ pc'[e] \in {"idle", "handoff", "recover"}
           /\ LegShape(e)'
<1>0. job[e] \in JobType /\ LegShape(e) /\ job[e].input \in Inputs
  BY LegFields DEF DeliveryGiven, DeliveryInv, LegFacts
<1>1. /\ pc' = [pc EXCEPT ![e] = pc'[e]] /\ job' = [job EXCEPT ![e] = job'[e]]
      /\ work' = [work EXCEPT ![e] = work'[e]]
      /\ pc'[e] \in {"idle", "handoff", "recover"}
      /\ job'[e].back = "idle" /\ job'[e].target = job'[e].input
      /\ job'[e].released = 0 /\ job'[e].durable = 0
      /\ pc'[e] = "handoff" => job[e].back = "handoff" /\ work' = work
  BY <1>0, FreshFields, Fields DEF Leave, Return, Goto, DeliveryGiven, TypeOK
<1> QED BY <1>0, <1>1 DEF LegShape, DeliveryGiven, TypeOK

LEMMA LeavingStep ==
    ASSUME DeliveryGiven, NEW e \in Epochs, Leave(e) \/ Return(e), stored' = stored,
           dbEpoch' = dbEpoch, interrupts' = interrupts, shown' = shown
    PROVE  Apart(e) /\ DeliveryInv'
<1>1. Apart(e) /\ RowsKept
  BY LeaveShape DEF Apart, RowsKept, stored
<1> QED BY <1>1, LeaveShape, RestingStep DEF RestLabels

LEMMA FencedDelivers ==
    ASSUME DeliveryGiven, NEW e \in Epochs, Fenced(e)
    PROVE  Apart(e) /\ DeliveryInv'
<1> QED BY LeavingStep DEF Fenced

LEMMA RecoveryDoneDelivers ==
    ASSUME DeliveryGiven, NEW e \in Epochs, RecoveryDone(e)
    PROVE  Apart(e) /\ DeliveryInv'
<1> QED BY LeavingStep DEF RecoveryDone

LEMMA ReplayTerminalDelivers ==
    ASSUME DeliveryGiven, NEW e \in Epochs, ReplayTerminal(e)
    PROVE  Apart(e) /\ DeliveryInv'
<1> QED BY LeavingStep DEF ReplayTerminal

LEMMA RefuseDeliveringDelivers ==
    ASSUME DeliveryGiven, NEW e \in Epochs, RefuseDelivering(e)
    PROVE  Apart(e) /\ DeliveryInv'
<1> QED BY LeavingStep DEF RefuseDelivering

LEMMA RefuseDispatchDelivers ==
    ASSUME DeliveryGiven, NEW e \in Epochs, RefuseDispatch(e)
    PROVE  Apart(e) /\ DeliveryInv'
<1> QED BY LeavingStep DEF RefuseDispatch

LEMMA LegFaultDelivers ==
    ASSUME DeliveryGiven, NEW e \in Epochs, LegFault(e)
    PROVE  Apart(e) /\ DeliveryInv'
<1> QED BY LeavingStep DEF LegFault

LEMMA ParkTurnDelivers ==
    ASSUME DeliveryGiven, NEW e \in Epochs, ParkTurn(e)
    PROVE  Apart(e) /\ DeliveryInv'
<1> QED BY LeavingStep DEF ParkTurn

LEMMA CrashDelivers ==
    ASSUME DeliveryGiven, NEW e \in Epochs, Crash(e)
    PROVE  Apart(e) /\ DeliveryInv'
<1>0. /\ job[e] \in JobType /\ job[e].input \in Inputs /\ job[e].target \in Inputs
      /\ LegFacts(e) /\ pc[e] \in Label
  BY LegFields DEF DeliveryGiven, DeliveryInv, TypeOK
<1>1. Apart(e) /\ RowsKept
  BY DEF Crash, Apart, RowsKept, stored, DeliveryGiven, TypeOK
<1>2. pc'[e] \in RestLabels /\ LegShape(e)'
  BY <1>0, FreshFields DEF Crash, RestLabels, LegShape, PreLabels, DeliveryGiven, TypeOK
<1> QED BY <1>1, <1>2, RestingStep

LEMMA BeginTurnDelivers ==
    ASSUME DeliveryGiven, NEW e \in Epochs, NEW i \in Inputs, BeginTurn(e, i)
    PROVE  Apart(e) /\ DeliveryInv'
<1>0. /\ job[e] \in JobType /\ job[e].input \in Inputs /\ job[e].target \in Inputs
      /\ LegFacts(e) /\ pc[e] \in Label
  BY LegFields DEF DeliveryGiven, DeliveryInv, TypeOK
<1>1. Apart(e)
  BY <1>0 DEF BeginTurn, Goto, Apart, stored, DeliveryGiven, TypeOK
<1>2. RowsKept
  BY <1>0, TurnFields, Fields DEF BeginTurn, RowsKept, stored, Delivered, Live, DeliveryGiven,
     TypeOK
<1>3. pc'[e] \in RestLabels /\ LegShape(e)'
  BY <1>0, JobFields, FreshFields DEF BeginTurn, Goto, RestLabels, LegFacts, LegShape,
     PreLabels, DeliveryGiven, TypeOK, Pending
<1> QED BY <1>1, <1>2, <1>3, RestingStep

LEMMA SkipRequestDelivers ==
    ASSUME DeliveryGiven, NEW e \in Epochs, NEW r \in Inputs \X InterruptKinds, SkipRequest(e, r)
    PROVE  Apart(e) /\ DeliveryInv'
<1>0. /\ job[e] \in JobType /\ job[e].input \in Inputs /\ job[e].target \in Inputs
      /\ LegFacts(e) /\ pc[e] \in Label
  BY LegFields DEF DeliveryGiven, DeliveryInv, TypeOK
<1>1. Apart(e)
  BY <1>0 DEF SkipRequest, Goto, Apart, stored, DeliveryGiven, TypeOK
<1>2. RowsKept
  BY <1>0, TurnFields, Fields DEF SkipRequest, RowsKept, stored, Delivered, Live,
     DeliveryGiven, TypeOK
<1>3. pc'[e] \in RestLabels /\ LegShape(e)'
  BY <1>0, JobFields, FreshFields DEF SkipRequest, Goto, RestLabels, LegFacts, LegShape,
     PreLabels, DeliveryGiven, TypeOK
<1> QED BY <1>1, <1>2, <1>3, RestingStep

LEMMA HandoffDoneDelivers ==
    ASSUME DeliveryGiven, NEW e \in Epochs, HandoffDone(e)
    PROVE  Apart(e) /\ DeliveryInv'
<1>0. /\ job[e] \in JobType /\ job[e].input \in Inputs /\ job[e].target \in Inputs
      /\ LegFacts(e) /\ pc[e] \in Label
  BY LegFields DEF DeliveryGiven, DeliveryInv, TypeOK
<1>1. Apart(e)
  BY <1>0 DEF HandoffDone, Goto, Apart, stored, DeliveryGiven, TypeOK
<1>2. RowsKept
  BY <1>0, TurnFields, Fields DEF HandoffDone, RowsKept, stored, Delivered, Live,
     DeliveryGiven, TypeOK
<1>3. pc'[e] \in RestLabels /\ LegShape(e)'
  BY <1>0, JobFields, FreshFields DEF HandoffDone, Goto, RestLabels, LegFacts, LegShape,
     PreLabels, DeliveryGiven, TypeOK
<1> QED BY <1>1, <1>2, <1>3, RestingStep

LEMMA CancelTurnDelivers ==
    ASSUME DeliveryGiven, NEW e \in Epochs, NEW i \in Inputs, CancelTurn(e, i)
    PROVE  Apart(e) /\ DeliveryInv'
<1>0. /\ job[e] \in JobType /\ job[e].input \in Inputs /\ job[e].target \in Inputs
      /\ LegFacts(e) /\ pc[e] \in Label
  BY LegFields DEF DeliveryGiven, DeliveryInv, TypeOK
<1>1. Apart(e)
  BY <1>0 DEF CancelTurn, Goto, Apart, stored, DeliveryGiven, TypeOK, MoveTurn, Current,
     TerminalTurn
<1>2. RowsKept
  BY <1>0, TurnFields, Fields DEF CancelTurn, RowsKept, stored, Delivered, Live,
     DeliveryGiven, TypeOK, MoveTurn, Current, TerminalTurn
<1>3. pc'[e] \in RestLabels /\ LegShape(e)'
  BY <1>0, JobFields, FreshFields DEF CancelTurn, Goto, RestLabels, LegFacts, LegShape,
     PreLabels, DeliveryGiven, TypeOK
<1> QED BY <1>1, <1>2, <1>3, RestingStep

LEMMA AdoptTurnDelivers ==
    ASSUME DeliveryGiven, NEW e \in Epochs, AdoptTurn(e)
    PROVE  Apart(e) /\ DeliveryInv'
<1>0. /\ job[e] \in JobType /\ job[e].input \in Inputs /\ job[e].target \in Inputs
      /\ LegFacts(e) /\ pc[e] \in Label
  BY LegFields DEF DeliveryGiven, DeliveryInv, TypeOK
<1>1. Apart(e)
  BY <1>0 DEF AdoptTurn, Goto, Apart, stored, DeliveryGiven, TypeOK, Adopted, Current
<1>2. RowsKept
  BY <1>0, TurnFields, Fields DEF AdoptTurn, RowsKept, stored, Delivered, Live, DeliveryGiven,
     TypeOK, Adopted, Current
<1>3. pc'[e] \in RestLabels /\ LegShape(e)'
  <2>1. pc[e] = "adopt" /\ pc'[e] = "advance" /\ work' = work
    BY <1>0 DEF AdoptTurn, Goto, DeliveryGiven, TypeOK
  <2>2. /\ job'[e].input = job[e].input /\ job'[e].target = job[e].target
        /\ job'[e].back = job[e].back /\ job'[e].released = job[e].released
        /\ job'[e].durable = job[e].durable
    BY <1>0, JobFields DEF AdoptTurn, DeliveryGiven, TypeOK
  <2> QED BY <1>0, <2>1, <2>2 DEF LegFacts, LegShape, RestLabels, PreLabels
<1> QED BY <1>1, <1>2, <1>3, RestingStep

LEMMA AdvanceTurnDelivers ==
    ASSUME DeliveryGiven, NEW e \in Epochs, AdvanceTurn(e)
    PROVE  Apart(e) /\ DeliveryInv'
<1>0. /\ job[e] \in JobType /\ job[e].input \in Inputs /\ job[e].target \in Inputs
      /\ LegFacts(e) /\ pc[e] \in Label
  BY LegFields DEF DeliveryGiven, DeliveryInv, TypeOK
<1>1. Apart(e)
  BY <1>0 DEF AdvanceTurn, Goto, Apart, stored, DeliveryGiven, TypeOK, MoveTurn, Current,
     TerminalTurn
<1>2. RowsKept
  <2>1. /\ row' = row /\ asst' = asst /\ est' = est /\ conv' = conv /\ shown' = shown
        /\ \A k \in Inputs \ {job[e].input} : turn'[k] = turn[k]
        /\ turn[job[e].input].status \notin Delivered
    BY <1>0 DEF AdvanceTurn, MoveTurn, Delivered, TerminalTurn, DeliveryGiven, TypeOK
  <2>2. turn'[job[e].input].seq = turn[job[e].input].seq
    BY <1>0, TurnFields DEF AdvanceTurn, MoveTurn, DeliveryGiven, TypeOK
  <2> QED BY <1>0, <2>1, <2>2 DEF RowsKept
<1>3. pc'[e] \in RestLabels /\ LegShape(e)'
  BY <1>0, JobFields, FreshFields DEF AdvanceTurn, Goto, RestLabels, LegFacts, LegShape,
     PreLabels, DeliveryGiven, TypeOK
<1> QED BY <1>1, <1>2, <1>3, RestingStep

LEMMA CloseParkedDelivers ==
    ASSUME DeliveryGiven, NEW e \in Epochs, NEW i \in Inputs, CloseParked(e, i)
    PROVE  Apart(e) /\ DeliveryInv'
<1>0. /\ job[e] \in JobType /\ job[e].input \in Inputs /\ job[e].target \in Inputs
      /\ LegFacts(e) /\ pc[e] \in Label
  BY LegFields DEF DeliveryGiven, DeliveryInv, TypeOK
<1>a. FreshJob(i, i, "idle") \in JobType
  BY FreshType
<1>1. Apart(e)
  BY <1>0 DEF CloseParked, Goto, Apart, stored, DeliveryGiven, TypeOK
<1>2. RowsKept
  BY <1>0, TurnFields, Fields DEF CloseParked, RowsKept, stored, Delivered, Live,
     DeliveryGiven, TypeOK
<1>3. pc'[e] \in RestLabels /\ LegShape(e)'
  BY <1>0, <1>a, JobFields, FreshFields DEF CloseParked, Goto, RestLabels, LegFacts, LegShape,
     PreLabels, DeliveryGiven, TypeOK
<1> QED BY <1>1, <1>2, <1>3, RestingStep

LEMMA RecoverTurnDelivers ==
    ASSUME DeliveryGiven, NEW e \in Epochs, RecoverTurn(e)
    PROVE  Apart(e) /\ DeliveryInv'
<1>0. /\ job[e] \in JobType /\ job[e].input \in Inputs /\ job[e].target \in Inputs
      /\ LegFacts(e) /\ pc[e] \in Label
  BY LegFields DEF DeliveryGiven, DeliveryInv, TypeOK
<1>1. Apart(e)
  BY <1>0, ActionUpdates DEF RecoverTurn, Goto, Apart, stored, DeliveryGiven, TypeOK,
     LegFacts, KnowsRun, KnowsTail, Delivered, TerminalTurn
<1>2. RowsKept
  BY <1>0, TurnFields, Fields DEF RecoverTurn, RowsKept, stored, Delivered, TerminalTurn,
     Live, DeliveryGiven, TypeOK
<1>3. LegFacts(e)'
  BY <1>0, JobFields, FreshFields, ActionUpdates, TurnFields DEF RecoverTurn, Goto, stored,
     LegFacts, LegShape, PreLabels, KnowsRun, KnowsTail, InStream, OwnDelivery, Current,
     WorkLabels, RunLabels, RepairLabels, StreamLabels, DeliveryGiven, TypeOK
<1> QED BY <1>1, <1>2, <1>3, DeliveryGoesOn

LEMMA RepairClaimDelivers ==
    ASSUME DeliveryGiven, NEW e \in Epochs, RepairClaim(e)
    PROVE  Apart(e) /\ DeliveryInv'
<1>0. /\ job[e] \in JobType /\ job[e].input \in Inputs /\ job[e].target \in Inputs
      /\ LegFacts(e) /\ pc[e] \in Label
  BY LegFields DEF DeliveryGiven, DeliveryInv, TypeOK
<1>1. Apart(e)
  BY <1>0, ActionUpdates DEF RepairClaim, Goto, Apart, stored, DeliveryGiven, TypeOK,
     LegFacts, KnowsRun, KnowsTail, Delivered, TerminalTurn, Adopted, Current
<1>2. RowsKept
  BY <1>0, TurnFields, Fields DEF RepairClaim, RowsKept, stored, Delivered, TerminalTurn,
     Live, DeliveryGiven, TypeOK, Adopted, Current
<1>3. LegFacts(e)'
  BY <1>0, JobFields, FreshFields, ActionUpdates, TurnFields DEF RepairClaim, Goto, stored,
     LegFacts, LegShape, PreLabels, KnowsRun, KnowsTail, InStream, OwnDelivery, Current,
     WorkLabels, RunLabels, RepairLabels, StreamLabels, DeliveryGiven, TypeOK, Adopted
<1> QED BY <1>1, <1>2, <1>3, DeliveryGoesOn

LEMMA RepairDeliveringDelivers ==
    ASSUME DeliveryGiven, NEW e \in Epochs, RepairDelivering(e)
    PROVE  Apart(e) /\ DeliveryInv'
<1>0. /\ job[e] \in JobType /\ job[e].input \in Inputs /\ job[e].target \in Inputs
      /\ LegFacts(e) /\ pc[e] \in Label
  BY LegFields DEF DeliveryGiven, DeliveryInv, TypeOK
<1>1. Apart(e)
  BY <1>0, ActionUpdates DEF RepairDelivering, Goto, Apart, stored, DeliveryGiven, TypeOK,
     LegFacts, KnowsRun, KnowsTail, Delivered, TerminalTurn
<1>2. RowsKept
  BY <1>0, TurnFields, Fields DEF RepairDelivering, RowsKept, stored, Delivered, TerminalTurn,
     Live, DeliveryGiven, TypeOK
<1>3. LegFacts(e)'
  BY <1>0, JobFields, FreshFields, ActionUpdates, TurnFields DEF RepairDelivering, Goto,
     stored, LegFacts, LegShape, PreLabels, KnowsRun, KnowsTail, InStream, OwnDelivery,
     Current, WorkLabels, RunLabels, RepairLabels, StreamLabels, DeliveryGiven, TypeOK
<1> QED BY <1>1, <1>2, <1>3, DeliveryGoesOn

LEMMA RecordCycleDelivers ==
    ASSUME DeliveryGiven, NEW e \in Epochs, RecordCycle(e)
    PROVE  Apart(e) /\ DeliveryInv'
<1>0. /\ job[e] \in JobType /\ job[e].input \in Inputs /\ job[e].target \in Inputs
      /\ LegFacts(e) /\ pc[e] \in Label
  BY LegFields DEF DeliveryGiven, DeliveryInv, TypeOK
<1>1. Apart(e)
  BY <1>0, ActionUpdates DEF RecordCycle, Goto, Apart, stored, DeliveryGiven, TypeOK,
     LegFacts, KnowsRun, KnowsTail, Delivered, TerminalTurn, Current
<1>2. RowsKept
  <2>1. \A k \in Inputs : turn'[k].status = turn[k].status /\ turn'[k].seq = turn[k].seq
    BY <1>0, TurnFields DEF RecordCycle, DeliveryGiven, TypeOK
  <2> QED BY <2>1 DEF RecordCycle, RowsKept
<1>3. LegFacts(e)'
  BY <1>0, JobFields, FreshFields, ActionUpdates, TurnFields DEF RecordCycle, Goto, stored,
     LegFacts, LegShape, PreLabels, KnowsRun, KnowsTail, InStream, OwnDelivery, Current,
     WorkLabels, RunLabels, RepairLabels, StreamLabels, DeliveryGiven, TypeOK
<1> QED BY <1>1, <1>2, <1>3, DeliveryGoesOn

LEMMA CloseParkedClaimDelivers ==
    ASSUME DeliveryGiven, NEW e \in Epochs, CloseParkedClaim(e)
    PROVE  Apart(e) /\ DeliveryInv'
<1>0. /\ job[e] \in JobType /\ job[e].input \in Inputs /\ job[e].target \in Inputs
      /\ LegFacts(e) /\ pc[e] \in Label
  BY LegFields DEF DeliveryGiven, DeliveryInv, TypeOK
<1>1. Apart(e)
  BY <1>0, ActionUpdates DEF CloseParkedClaim, Goto, Apart, stored, DeliveryGiven, TypeOK,
     LegFacts, KnowsRun, KnowsTail, Delivered, TerminalTurn, Adopted, Current
<1>2. RowsKept
  BY <1>0, TurnFields, Fields DEF CloseParkedClaim, RowsKept, stored, Delivered, TerminalTurn,
     Live, DeliveryGiven, TypeOK, Adopted, Current
<1>3. LegFacts(e)'
  BY <1>0, JobFields, FreshFields, ActionUpdates, TurnFields DEF CloseParkedClaim, Goto,
     stored, LegFacts, LegShape, PreLabels, KnowsRun, KnowsTail, InStream, OwnDelivery,
     Current, WorkLabels, RunLabels, RepairLabels, StreamLabels, DeliveryGiven, TypeOK,
     Adopted
<1> QED BY <1>1, <1>2, <1>3, DeliveryGoesOn

LEMMA ClaimActionDelivers ==
    ASSUME DeliveryGiven, NEW e \in Epochs, ClaimAction(e)
    PROVE  Apart(e) /\ DeliveryInv'
<1>0. /\ job[e] \in JobType /\ job[e].input \in Inputs /\ job[e].target \in Inputs
      /\ LegFacts(e) /\ pc[e] \in Label
  BY LegFields DEF DeliveryGiven, DeliveryInv, TypeOK
<1>1. Apart(e)
  BY <1>0, ActionUpdates DEF ClaimAction, Goto, Apart, stored, DeliveryGiven, TypeOK,
     LegFacts, KnowsRun, KnowsTail, Delivered, TerminalTurn, Current, WorkLabels
<1>2. RowsKept
  BY <1>0, TurnFields, Fields DEF ClaimAction, RowsKept, stored, Delivered, TerminalTurn,
     Live, DeliveryGiven, TypeOK, Current, WorkLabels
<1>3. LegFacts(e)'
  BY <1>0, JobFields, FreshFields, ActionUpdates, TurnFields DEF ClaimAction, Goto, stored,
     LegFacts, LegShape, PreLabels, KnowsRun, KnowsTail, InStream, OwnDelivery, Current,
     WorkLabels, RunLabels, RepairLabels, StreamLabels, DeliveryGiven, TypeOK
<1> QED BY <1>1, <1>2, <1>3, DeliveryGoesOn

LEMMA CreateActionDelivers ==
    ASSUME DeliveryGiven, NEW e \in Epochs, CreateAction(e)
    PROVE  Apart(e) /\ DeliveryInv'
<1>0. /\ job[e] \in JobType /\ job[e].input \in Inputs /\ job[e].target \in Inputs
      /\ LegFacts(e) /\ pc[e] \in Label
  BY LegFields DEF DeliveryGiven, DeliveryInv, TypeOK
<1>1. Apart(e)
  BY <1>0, ActionUpdates DEF CreateAction, Goto, Apart, stored, DeliveryGiven, TypeOK,
     LegFacts, KnowsRun, KnowsTail, Delivered, TerminalTurn, Current, WorkLabels
<1>2. RowsKept
  BY <1>0, TurnFields, Fields DEF CreateAction, RowsKept, stored, Delivered, TerminalTurn,
     Live, DeliveryGiven, TypeOK, Current, WorkLabels
<1>3. LegFacts(e)'
  BY <1>0, JobFields, FreshFields, ActionUpdates, TurnFields DEF CreateAction, Goto, stored,
     LegFacts, LegShape, PreLabels, KnowsRun, KnowsTail, InStream, OwnDelivery, Current,
     WorkLabels, RunLabels, RepairLabels, StreamLabels, DeliveryGiven, TypeOK
<1> QED BY <1>1, <1>2, <1>3, DeliveryGoesOn

LEMMA EnsureRequestedDelivers ==
    ASSUME DeliveryGiven, NEW e \in Epochs, EnsureRequested(e)
    PROVE  Apart(e) /\ DeliveryInv'
<1>0. /\ job[e] \in JobType /\ job[e].input \in Inputs /\ job[e].target \in Inputs
      /\ LegFacts(e) /\ pc[e] \in Label
  BY LegFields DEF DeliveryGiven, DeliveryInv, TypeOK
<1>1. Apart(e)
  BY <1>0, ActionUpdates DEF EnsureRequested, MoveAction, Goto, Apart, stored, DeliveryGiven,
     TypeOK, LegFacts, KnowsRun, WorkLabels, Delivered, TerminalTurn, Current
<1>2. RowsKept
  BY DEF EnsureRequested, RowsKept
<1>3. /\ pc'[e] = "call" /\ job'[e].input = job[e].input /\ job'[e].target = job[e].target
      /\ job'[e].back = job[e].back /\ job'[e].released = job[e].released
      /\ job'[e].durable = job[e].durable /\ pc[e] = "dispatch"
  BY <1>0, JobFields DEF EnsureRequested, Goto, DeliveryGiven, TypeOK
<1>4. Current(e)' => Current(e) /\ turn'[job[e].input].status = turn[job[e].input].status
  BY DEF EnsureRequested, Current
<1>5. LegFacts(e)'
  BY <1>0, <1>3, <1>4 DEF LegFacts, LegShape, PreLabels, KnowsRun, KnowsTail, WorkLabels,
     RunLabels, RepairLabels, StreamLabels
<1> QED BY <1>1, <1>2, <1>5, DeliveryGoesOn

LEMMA CallProviderDelivers ==
    ASSUME DeliveryGiven, NEW e \in Epochs, CallProvider(e)
    PROVE  Apart(e) /\ DeliveryInv'
<1>0. /\ job[e] \in JobType /\ job[e].input \in Inputs /\ job[e].target \in Inputs
      /\ LegFacts(e) /\ pc[e] \in Label
  BY LegFields DEF DeliveryGiven, DeliveryInv, TypeOK
<1>1. Apart(e)
  BY <1>0, ActionUpdates DEF CallProvider, Goto, Apart, stored, DeliveryGiven, TypeOK,
     LegFacts, KnowsRun, KnowsTail, Delivered, TerminalTurn, MoveAction, Current, WorkLabels
<1>2. RowsKept
  BY <1>0, TurnFields, Fields DEF CallProvider, RowsKept, stored, Delivered, TerminalTurn,
     Live, DeliveryGiven, TypeOK, MoveAction, Current, WorkLabels
<1>3. LegFacts(e)'
  BY <1>0, JobFields, FreshFields, ActionUpdates, TurnFields DEF CallProvider, Goto, stored,
     LegFacts, LegShape, PreLabels, KnowsRun, KnowsTail, InStream, OwnDelivery, Current,
     WorkLabels, RunLabels, RepairLabels, StreamLabels, DeliveryGiven, TypeOK, MoveAction
<1> QED BY <1>1, <1>2, <1>3, DeliveryGoesOn

LEMMA StartValidationDelivers ==
    ASSUME DeliveryGiven, NEW e \in Epochs, StartValidation(e)
    PROVE  Apart(e) /\ DeliveryInv'
<1>0. /\ job[e] \in JobType /\ job[e].input \in Inputs /\ job[e].target \in Inputs
      /\ LegFacts(e) /\ pc[e] \in Label
  BY LegFields DEF DeliveryGiven, DeliveryInv, TypeOK
<1>1. Apart(e)
  BY <1>0, ActionUpdates DEF StartValidation, Goto, Apart, stored, DeliveryGiven, TypeOK,
     LegFacts, KnowsRun, KnowsTail, Delivered, TerminalTurn, MoveAction, Current, WorkLabels
<1>2. RowsKept
  BY <1>0, TurnFields, Fields DEF StartValidation, RowsKept, stored, Delivered, TerminalTurn,
     Live, DeliveryGiven, TypeOK, MoveAction, Current, WorkLabels
<1>3. LegFacts(e)'
  BY <1>0, JobFields, FreshFields, ActionUpdates, TurnFields DEF StartValidation, Goto,
     stored, LegFacts, LegShape, PreLabels, KnowsRun, KnowsTail, InStream, OwnDelivery,
     Current, WorkLabels, RunLabels, RepairLabels, StreamLabels, DeliveryGiven, TypeOK,
     MoveAction
<1> QED BY <1>1, <1>2, <1>3, DeliveryGoesOn

LEMMA AcceptOutputDelivers ==
    ASSUME DeliveryGiven, NEW e \in Epochs, AcceptOutput(e)
    PROVE  Apart(e) /\ DeliveryInv'
<1>0. /\ job[e] \in JobType /\ job[e].input \in Inputs /\ job[e].target \in Inputs
      /\ LegFacts(e) /\ pc[e] \in Label
  BY LegFields DEF DeliveryGiven, DeliveryInv, TypeOK
<1>1. Apart(e)
  BY <1>0, ActionUpdates DEF AcceptOutput, Goto, Apart, stored, DeliveryGiven, TypeOK,
     LegFacts, KnowsRun, KnowsTail, Delivered, TerminalTurn, MoveAction, Current, WorkLabels
<1>2. RowsKept
  BY <1>0, TurnFields, Fields DEF AcceptOutput, RowsKept, stored, Delivered, TerminalTurn,
     Live, DeliveryGiven, TypeOK, MoveAction, Current, WorkLabels
<1>3. LegFacts(e)'
  BY <1>0, JobFields, FreshFields, ActionUpdates, TurnFields DEF AcceptOutput, Goto, stored,
     LegFacts, LegShape, PreLabels, KnowsRun, KnowsTail, InStream, OwnDelivery, Current,
     WorkLabels, RunLabels, RepairLabels, StreamLabels, DeliveryGiven, TypeOK, MoveAction
<1> QED BY <1>1, <1>2, <1>3, DeliveryGoesOn

LEMMA BeginDeliveryDelivers ==
    ASSUME DeliveryGiven, NEW e \in Epochs, BeginDelivery(e)
    PROVE  Apart(e) /\ DeliveryInv'
<1>0. /\ job[e] \in JobType /\ job[e].input \in Inputs /\ job[e].target \in Inputs
      /\ LegFacts(e) /\ pc[e] \in Label
  BY LegFields DEF DeliveryGiven, DeliveryInv, TypeOK
<1>1. Apart(e)
  BY <1>0, ActionUpdates DEF BeginDelivery, Goto, Apart, stored, DeliveryGiven, TypeOK,
     LegFacts, KnowsRun, KnowsTail, Delivered, TerminalTurn, MoveAction, Current, WorkLabels
<1>2. RowsKept
  BY <1>0, TurnFields, Fields DEF BeginDelivery, RowsKept, stored, Delivered, TerminalTurn,
     Live, DeliveryGiven, TypeOK, MoveAction, Current, WorkLabels
<1>3. LegFacts(e)'
  BY <1>0, JobFields, FreshFields, ActionUpdates, TurnFields DEF BeginDelivery, Goto, stored,
     LegFacts, LegShape, PreLabels, KnowsRun, KnowsTail, InStream, OwnDelivery, Current,
     WorkLabels, RunLabels, RepairLabels, StreamLabels, DeliveryGiven, TypeOK, MoveAction
<1> QED BY <1>1, <1>2, <1>3, DeliveryGoesOn

LEMMA RetryActionDelivers ==
    ASSUME DeliveryGiven, NEW e \in Epochs, RetryAction(e)
    PROVE  Apart(e) /\ DeliveryInv'
<1>0. /\ job[e] \in JobType /\ job[e].input \in Inputs /\ job[e].target \in Inputs
      /\ LegFacts(e) /\ pc[e] \in Label
  BY LegFields DEF DeliveryGiven, DeliveryInv, TypeOK
<1>1. Apart(e)
  BY <1>0, ActionUpdates DEF RetryAction, Goto, Apart, stored, DeliveryGiven, TypeOK,
     LegFacts, KnowsRun, KnowsTail, Delivered, TerminalTurn, MoveAction, Current, WorkLabels
<1>2. RowsKept
  BY <1>0, TurnFields, Fields DEF RetryAction, RowsKept, stored, Delivered, TerminalTurn,
     Live, DeliveryGiven, TypeOK, MoveAction, Current, WorkLabels
<1>3. LegFacts(e)'
  BY <1>0, JobFields, FreshFields, ActionUpdates, TurnFields DEF RetryAction, Goto, stored,
     LegFacts, LegShape, PreLabels, KnowsRun, KnowsTail, InStream, OwnDelivery, Current,
     WorkLabels, RunLabels, RepairLabels, StreamLabels, DeliveryGiven, TypeOK, MoveAction
<1> QED BY <1>1, <1>2, <1>3, DeliveryGoesOn

LEMMA GiveUpDelivers ==
    ASSUME DeliveryGiven, NEW e \in Epochs, GiveUp(e)
    PROVE  Apart(e) /\ DeliveryInv'
<1>0. /\ job[e] \in JobType /\ job[e].input \in Inputs /\ job[e].target \in Inputs
      /\ LegFacts(e) /\ pc[e] \in Label
  BY LegFields DEF DeliveryGiven, DeliveryInv, TypeOK
<1>1. Apart(e)
  BY <1>0, ActionUpdates DEF GiveUp, Goto, Apart, stored, DeliveryGiven, TypeOK, LegFacts,
     KnowsRun, KnowsTail, Delivered, TerminalTurn, MoveAction, Current, WorkLabels
<1>2. RowsKept
  BY <1>0, TurnFields, Fields DEF GiveUp, RowsKept, stored, Delivered, TerminalTurn, Live,
     DeliveryGiven, TypeOK, MoveAction, Current, WorkLabels
<1>3. LegFacts(e)'
  <2>1. /\ pc[e] \in {"retry", "verdict"} /\ pc'[e] = "close"
        /\ job'[e].input = job[e].input /\ job'[e].target = job[e].target
        /\ job'[e].back = job[e].back
        /\ action'[job[e].input].status = "TERMINAL" /\ work' = work
    BY <1>0, JobFields, ActionUpdates DEF GiveUp, MoveAction, Goto, DeliveryGiven, TypeOK
  <2>2. job[e].back /= "handoff" /\ job[e].target = job[e].input
    BY <1>0, <2>1 DEF LegFacts, LegShape
  <2> QED
    BY <2>1, <2>2 DEF LegFacts, LegShape, KnowsRun, KnowsTail, PreLabels, WorkLabels, RunLabels,
       RepairLabels, StreamLabels
<1> QED BY <1>1, <1>2, <1>3, DeliveryGoesOn

LEMMA RecordAttemptDelivers ==
    ASSUME DeliveryGiven, NEW e \in Epochs, RecordAttempt(e)
    PROVE  Apart(e) /\ DeliveryInv'
<1>0. /\ job[e] \in JobType /\ job[e].input \in Inputs /\ job[e].target \in Inputs
      /\ LegFacts(e) /\ pc[e] \in Label
  BY LegFields DEF DeliveryGiven, DeliveryInv, TypeOK
<1>1. Apart(e)
  BY <1>0, ActionUpdates DEF RecordAttempt, Goto, Apart, stored, DeliveryGiven, TypeOK,
     LegFacts, KnowsRun, KnowsTail, Delivered, TerminalTurn, Current, WorkLabels
<1>2. RowsKept
  BY <1>0, TurnFields, Fields DEF RecordAttempt, RowsKept, stored, Delivered, TerminalTurn,
     Live, DeliveryGiven, TypeOK, Current, WorkLabels
<1>3. LegFacts(e)'
  <2>1. /\ pc[e] = "provider" /\ pc'[e] \in {"validating", "retry"}
        /\ job'[e].input = job[e].input /\ job'[e].target = job[e].target
        /\ job'[e].back = job[e].back /\ job'[e].released = job[e].released
        /\ job'[e].durable = job[e].durable /\ turn' = turn /\ Current(e)
    BY <1>0, JobFields DEF RecordAttempt, Goto, DeliveryGiven, TypeOK
  <2>2. /\ job[e].back /= "handoff" /\ job[e].target = job[e].input
        /\ job[e].released = 0 /\ job[e].durable = 0
        /\ turn[job[e].input].status = "GENERATING"
    BY <1>0, <2>1 DEF LegFacts, LegShape, PreLabels, KnowsRun, WorkLabels
  <2> QED
    BY <2>1, <2>2 DEF LegFacts, LegShape, KnowsRun, KnowsTail, PreLabels, WorkLabels, RunLabels,
       RepairLabels, StreamLabels
<1> QED BY <1>1, <1>2, <1>3, DeliveryGoesOn

LEMMA SettleActionDelivers ==
    ASSUME DeliveryGiven, NEW e \in Epochs, SettleAction(e)
    PROVE  Apart(e) /\ DeliveryInv'
<1>0. /\ job[e] \in JobType /\ job[e].input \in Inputs /\ job[e].target \in Inputs
      /\ LegFacts(e) /\ pc[e] \in Label
  BY LegFields DEF DeliveryGiven, DeliveryInv, TypeOK
<1>1. Apart(e)
  BY <1>0, ActionUpdates DEF SettleAction, Goto, Apart, stored, DeliveryGiven, TypeOK,
     LegFacts, KnowsRun, KnowsTail, Delivered, TerminalTurn, MoveAction, Current
<1>2. RowsKept
  BY <1>0, TurnFields, Fields DEF SettleAction, RowsKept, stored, Delivered, TerminalTurn,
     Live, DeliveryGiven, TypeOK, MoveAction, Current
<1>3. LegFacts(e)'
  BY <1>0, JobFields, FreshFields, ActionUpdates, TurnFields DEF SettleAction, Goto, stored,
     LegFacts, LegShape, PreLabels, KnowsRun, KnowsTail, InStream, OwnDelivery, Current,
     WorkLabels, RunLabels, RepairLabels, StreamLabels, DeliveryGiven, TypeOK, MoveAction
<1> QED BY <1>1, <1>2, <1>3, DeliveryGoesOn

LEMMA EstimateLostDelivers ==
    ASSUME DeliveryGiven, NEW e \in Epochs, EstimateLost(e)
    PROVE  Apart(e) /\ DeliveryInv'
<1>0. /\ job[e] \in JobType /\ job[e].input \in Inputs /\ job[e].target \in Inputs
      /\ LegFacts(e) /\ pc[e] \in Label
  BY LegFields DEF DeliveryGiven, DeliveryInv, TypeOK
<1>1. Apart(e)
  BY <1>0, ActionUpdates DEF EstimateLost, Goto, Apart, stored, DeliveryGiven, TypeOK,
     LegFacts, KnowsRun, KnowsTail, Delivered, TerminalTurn
<1>2. RowsKept
  BY <1>0, TurnFields, Fields DEF EstimateLost, RowsKept, stored, Delivered, TerminalTurn,
     Live, DeliveryGiven, TypeOK
<1>3. LegFacts(e)'
  BY <1>0, JobFields, FreshFields, ActionUpdates, TurnFields DEF EstimateLost, Goto, stored,
     LegFacts, LegShape, PreLabels, KnowsRun, KnowsTail, InStream, OwnDelivery, Current,
     WorkLabels, RunLabels, RepairLabels, StreamLabels, DeliveryGiven, TypeOK
<1> QED BY <1>1, <1>2, <1>3, DeliveryGoesOn

LEMMA PreDeliveryGuardDelivers ==
    ASSUME DeliveryGiven, NEW e \in Epochs, PreDeliveryGuard(e)
    PROVE  Apart(e) /\ DeliveryInv'
<1>0. /\ job[e] \in JobType /\ job[e].input \in Inputs /\ job[e].target \in Inputs
      /\ LegFacts(e) /\ pc[e] \in Label
  BY LegFields DEF DeliveryGiven, DeliveryInv, TypeOK
<1>a. ~(turn[job[e].input].seq < conv.nextTurn - 1)
        => turn[job[e].input].seq = conv.nextTurn - 1
  <2>1. /\ turn[job[e].input].seq \in Nat /\ conv.nextTurn \in Nat
        /\ turn[job[e].input].seq < conv.nextTurn
    BY <1>0, Fields DEF DeliveryGiven, DeliveryInv, TurnFacts, TypeOK
  <2> QED BY <2>1
<1>1. Apart(e)
  BY <1>0, ActionUpdates DEF PreDeliveryGuard, Goto, Apart, stored, DeliveryGiven, TypeOK,
     LegFacts, KnowsRun, KnowsTail, Delivered, TerminalTurn, ToCancelled
<1>2. RowsKept
  BY <1>0, TurnFields, Fields DEF PreDeliveryGuard, RowsKept, stored, Delivered, TerminalTurn,
     Live, DeliveryGiven, TypeOK, ToCancelled
<1>3. LegFacts(e)'
  BY <1>0, <1>a, JobFields, FreshFields, ActionUpdates, TurnFields DEF PreDeliveryGuard, Goto,
     stored, LegFacts, LegShape, PreLabels, KnowsRun, KnowsTail, InStream, OwnDelivery,
     Current, WorkLabels, RunLabels, RepairLabels, StreamLabels, DeliveryGiven, TypeOK,
     ToCancelled, RowWord
<1> QED BY <1>1, <1>2, <1>3, DeliveryGoesOn

LEMMA TakeInterruptedDelivers ==
    ASSUME DeliveryGiven, NEW e \in Epochs, TakeInterrupted(e)
    PROVE  Apart(e) /\ DeliveryInv'
<1>0. /\ job[e] \in JobType /\ job[e].input \in Inputs /\ job[e].target \in Inputs
      /\ LegFacts(e) /\ pc[e] \in Label
  BY LegFields DEF DeliveryGiven, DeliveryInv, TypeOK
<1>1. Apart(e)
  BY <1>0, ActionUpdates DEF TakeInterrupted, Goto, Apart, stored, DeliveryGiven, TypeOK,
     LegFacts, KnowsRun, KnowsTail, Delivered, TerminalTurn, ToCancelled
<1>2. RowsKept
  BY <1>0, TurnFields, Fields DEF TakeInterrupted, RowsKept, stored, Delivered, TerminalTurn,
     Live, DeliveryGiven, TypeOK, ToCancelled
<1>3. LegFacts(e)'
  BY <1>0, JobFields, FreshFields, ActionUpdates, TurnFields DEF TakeInterrupted, Goto,
     stored, LegFacts, LegShape, PreLabels, KnowsRun, KnowsTail, InStream, OwnDelivery,
     Current, WorkLabels, RunLabels, RepairLabels, StreamLabels, DeliveryGiven, TypeOK,
     ToCancelled, RowWord
<1> QED BY <1>1, <1>2, <1>3, DeliveryGoesOn

LEMMA TakeChunkDelivers ==
    ASSUME DeliveryGiven, NEW e \in Epochs, TakeChunk(e)
    PROVE  Apart(e) /\ DeliveryInv'
<1>0. /\ job[e] \in JobType /\ job[e].input \in Inputs /\ job[e].target \in Inputs
      /\ LegFacts(e) /\ pc[e] \in Label
  BY LegFields DEF DeliveryGiven, DeliveryInv, TypeOK
<1>a. shown[job[e].input].late > 0 => <<job[e].input, "action">> \in interrupts
  BY <1>0 DEF DeliveryGiven, DeliveryInv, TurnFacts
<1>1. Apart(e)
  BY <1>0, ActionUpdates DEF TakeChunk, Goto, Apart, stored, DeliveryGiven, TypeOK, LegFacts,
     KnowsRun, KnowsTail, Delivered, TerminalTurn
<1>2. RowsKept
  BY <1>0, TurnFields, Fields DEF TakeChunk, RowsKept, stored, Delivered, TerminalTurn, Live,
     DeliveryGiven, TypeOK
<1>3. LegFacts(e)'
  BY <1>0, <1>a, JobFields, FreshFields, ActionUpdates, TurnFields DEF TakeChunk, Goto,
     stored, LegFacts, LegShape, PreLabels, KnowsRun, KnowsTail, InStream, OwnDelivery,
     Current, WorkLabels, RunLabels, RepairLabels, StreamLabels, DeliveryGiven, TypeOK
<1> QED BY <1>1, <1>2, <1>3, DeliveryGoesOn

LEMMA EndStreamDelivers ==
    ASSUME DeliveryGiven, NEW e \in Epochs, EndStream(e)
    PROVE  Apart(e) /\ DeliveryInv'
<1>0. /\ job[e] \in JobType /\ job[e].input \in Inputs /\ job[e].target \in Inputs
      /\ LegFacts(e) /\ pc[e] \in Label
  BY LegFields DEF DeliveryGiven, DeliveryInv, TypeOK
<1>1. Apart(e)
  BY <1>0, ActionUpdates DEF EndStream, Goto, Apart, stored, DeliveryGiven, TypeOK, LegFacts,
     KnowsRun, KnowsTail, Delivered, TerminalTurn
<1>2. RowsKept
  BY <1>0, TurnFields, Fields DEF EndStream, RowsKept, stored, Delivered, TerminalTurn, Live,
     DeliveryGiven, TypeOK
<1>3. LegFacts(e)'
  <2>1. /\ pc[e] \in {"take", "emit", "record"} /\ pc'[e] = "freeze"
        /\ job'[e].input = job[e].input /\ job'[e].target = job[e].target
        /\ job'[e].back = job[e].back /\ job'[e].durable = job[e].durable
        /\ stored' = stored /\ dbEpoch' = dbEpoch
    BY <1>0, JobFields DEF EndStream, Goto, DeliveryGiven, TypeOK
  <2>2. LegShape(e)' /\ pc'[e] \notin StreamLabels
    BY <1>0, <2>1 DEF LegFacts, LegShape, PreLabels, StreamLabels
  <2>3. ASSUME Current(e)' PROVE KnowsRun(e)' /\ KnowsTail(e)'
    <3>1. KnowsRun(e) /\ job[e].target = job[e].input /\ OwnDelivery(e, job[e].input)
      BY <1>0, <2>1, <2>3 DEF LegFacts, LegShape, InStream, Current, StreamLabels
    <3>2. KnowsRun(e)'
      BY <2>1, <3>1 DEF KnowsRun, WorkLabels, RunLabels, StreamLabels, OwnDelivery, stored
    <3>3. KnowsTail(e)'
      BY <2>1, <3>1 DEF KnowsRun, KnowsTail, RepairLabels, RunLabels, StreamLabels,
         OwnDelivery, stored
    <3> QED BY <3>2, <3>3
  <2> QED BY <2>2, <2>3 DEF LegFacts
<1> QED BY <1>1, <1>2, <1>3, DeliveryGoesOn

LEMMA RefuseChunkDelivers ==
    ASSUME DeliveryGiven, NEW e \in Epochs, RefuseChunk(e)
    PROVE  Apart(e) /\ DeliveryInv'
<1>0. /\ job[e] \in JobType /\ job[e].input \in Inputs /\ job[e].target \in Inputs
      /\ LegFacts(e) /\ pc[e] \in Label
  BY LegFields DEF DeliveryGiven, DeliveryInv, TypeOK
<1>1. Apart(e)
  BY <1>0, ActionUpdates DEF RefuseChunk, Goto, Apart, stored, DeliveryGiven, TypeOK,
     LegFacts, KnowsRun, KnowsTail, Delivered, TerminalTurn
<1>2. RowsKept
  BY <1>0, TurnFields, Fields DEF RefuseChunk, RowsKept, stored, Delivered, TerminalTurn,
     Live, DeliveryGiven, TypeOK
<1>3. LegFacts(e)'
  <2>1. /\ pc[e] \in {"take", "emit", "record"} /\ pc'[e] = "freeze"
        /\ job'[e].input = job[e].input /\ job'[e].target = job[e].target
        /\ job'[e].back = job[e].back /\ job'[e].durable = job[e].durable
        /\ stored' = stored /\ dbEpoch' = dbEpoch
    BY <1>0, JobFields DEF RefuseChunk, Goto, DeliveryGiven, TypeOK
  <2>2. LegShape(e)' /\ pc'[e] \notin StreamLabels
    BY <1>0, <2>1 DEF LegFacts, LegShape, PreLabels, StreamLabels
  <2>3. ASSUME Current(e)' PROVE KnowsRun(e)' /\ KnowsTail(e)'
    <3>1. KnowsRun(e) /\ job[e].target = job[e].input /\ OwnDelivery(e, job[e].input)
      BY <1>0, <2>1, <2>3 DEF LegFacts, LegShape, InStream, Current, StreamLabels
    <3>2. KnowsRun(e)'
      BY <2>1, <3>1 DEF KnowsRun, WorkLabels, RunLabels, StreamLabels, OwnDelivery, stored
    <3>3. KnowsTail(e)'
      BY <2>1, <3>1 DEF KnowsRun, KnowsTail, RepairLabels, RunLabels, StreamLabels,
         OwnDelivery, stored
    <3> QED BY <3>2, <3>3
  <2> QED BY <2>2, <2>3 DEF LegFacts
<1> QED BY <1>1, <1>2, <1>3, DeliveryGoesOn

LEMMA StreamRaisesDelivers ==
    ASSUME DeliveryGiven, NEW e \in Epochs, StreamRaises(e)
    PROVE  Apart(e) /\ DeliveryInv'
<1>0. /\ job[e] \in JobType /\ job[e].input \in Inputs /\ job[e].target \in Inputs
      /\ LegFacts(e) /\ pc[e] \in Label
  BY LegFields DEF DeliveryGiven, DeliveryInv, TypeOK
<1>a. Sent(job[e], 0, 0) \in JobType
  BY <1>0, SentType
<1>1. Apart(e)
  BY <1>0, ActionUpdates DEF StreamRaises, Goto, Apart, stored, DeliveryGiven, TypeOK,
     LegFacts, KnowsRun, KnowsTail, Delivered, TerminalTurn
<1>2. RowsKept
  BY <1>0, TurnFields, Fields DEF StreamRaises, RowsKept, stored, Delivered, TerminalTurn,
     Live, DeliveryGiven, TypeOK
<1>3. LegFacts(e)'
  <2>1. /\ pc[e] \in {"take", "emit", "record"} /\ pc'[e] = "freeze"
        /\ job'[e].input = job[e].input /\ job'[e].target = job[e].target
        /\ job'[e].back = job[e].back /\ job'[e].durable = 0
        /\ stored' = stored /\ dbEpoch' = dbEpoch
    BY <1>0, <1>a, JobFields DEF StreamRaises, Goto, DeliveryGiven, TypeOK
  <2>2. LegShape(e)' /\ pc'[e] \notin StreamLabels
    BY <1>0, <2>1 DEF LegFacts, LegShape, PreLabels, StreamLabels
  <2>3. ASSUME Current(e)' PROVE KnowsRun(e)' /\ KnowsTail(e)'
    <3>1. KnowsRun(e) /\ job[e].target = job[e].input /\ OwnDelivery(e, job[e].input)
      BY <1>0, <2>1, <2>3 DEF LegFacts, LegShape, InStream, Current, StreamLabels
    <3>2. KnowsRun(e)'
      BY <2>1, <3>1 DEF KnowsRun, WorkLabels, RunLabels, StreamLabels, OwnDelivery, stored
    <3>3. KnowsTail(e)'
      BY <2>1, <3>1 DEF KnowsRun, KnowsTail, RepairLabels, RunLabels, StreamLabels,
         OwnDelivery, stored
    <3> QED BY <3>2, <3>3
  <2> QED BY <2>2, <2>3 DEF LegFacts
<1> QED BY <1>1, <1>2, <1>3, DeliveryGoesOn

LEMMA StartRuntimeDelivers ==
    ASSUME DeliveryGiven, NEW e \in Epochs, StartRuntime(e)
    PROVE  DeliveryInv'
<1>1. \A i \in Inputs : TurnFacts(i)'
  BY RowsKeptFacts DEF RowsKept, StartRuntime, stored
<1>2. ASSUME NEW f \in Epochs PROVE LegFacts(f)'
  <2>1. CASE f = e
    BY <2>1 DEF StartRuntime, Goto, LegFacts, LegShape, PreLabels, KnowsRun, KnowsTail,
       WorkLabels,
       RunLabels, RepairLabels, StreamLabels, DeliveryGiven, DeliveryInv, TypeOK
  <2>2. CASE f /= e
    <3>1. /\ ~Current(f)' /\ pc'[f] = pc[f] /\ job' = job /\ work'[f] = work[f]
          /\ LegFacts(f)
      BY <2>2 DEF StartRuntime, Goto, Current, DeliveryGiven, DeliveryInv, TypeOK
    <3> QED
      BY <3>1 DEF StartRuntime, stored, LegFacts, LegShape, PreLabels, InStream, OwnDelivery
  <2> QED BY <2>1, <2>2
<1> QED BY <1>1, <1>2 DEF DeliveryInv

LEMMA RequestInterruptDelivers ==
    ASSUME DeliveryGiven, NEW i \in Inputs, NEW kind \in InterruptKinds,
           RequestInterrupt(i, kind)
    PROVE  DeliveryInv'
<1>1. ASSUME NEW e \in Epochs PROVE LegFacts(e)'
  <2>1. LegFacts(e)
    BY DEF DeliveryGiven, DeliveryInv
  <2> QED
    BY <2>1 DEF RequestInterrupt, stored, LegFacts, LegShape, KnowsRun, KnowsTail, InStream,
       OwnDelivery, Untouched, Current
<1>2. ASSUME NEW k \in Inputs PROVE TurnFacts(k)'
  <2>1. TurnFacts(k) /\ interrupts \subseteq interrupts'
    BY DEF RequestInterrupt, DeliveryGiven, DeliveryInv
  <2> QED BY <2>1 DEF RequestInterrupt, stored, TurnFacts, Untouched
<1> QED BY <1>1, <1>2 DEF DeliveryInv

LEMMA CloseTurnDelivers ==
    ASSUME DeliveryGiven, NEW e \in Epochs, CloseTurn(e)
    PROVE  Apart(e) /\ DeliveryInv'
<1>0. job[e].target \in Inputs
  BY LegFields DEF DeliveryGiven
<1>1. Apart(e)
  BY LeaveShape DEF CloseTurn, Apart, stored
<1>2. RowsKept
  BY <1>0, TurnFields DEF CloseTurn, MoveTurn, StatusOf, RowsKept, Delivered, TerminalTurn,
     DeliveryGiven, TypeOK
<1>3. pc'[e] \in RestLabels /\ LegShape(e)'
  BY LeaveShape DEF CloseTurn, RestLabels
<1> QED BY <1>1, <1>2, <1>3, RestingStep

LEMMA CancelActionDelivers ==
    ASSUME DeliveryGiven, NEW e \in Epochs, NEW i \in Inputs, CancelAction(e, i)
    PROVE  Apart(e) /\ DeliveryInv'
<1>0. job[e] \in JobType /\ LegFacts(e) /\ row[i] \in RowType /\ row[i].prefix \in Nat
  BY LegFields, Fields DEF DeliveryGiven, DeliveryInv, TypeOK
<1>1. Apart(e)
  BY DEF CancelAction, Goto, Apart, stored, DeliveryGiven, TypeOK
<1>2. /\ row'[i].prefix = row[i].prefix /\ (row[i].word = "ABSENT" => row' = row)
      /\ row'[i].word = "ABSENT" => row[i].word = "ABSENT"
      /\ \A k \in Inputs \ {i} : row'[k] = row[k]
  <2>1. LET y == Advanced(row[i], RowOf("CANCELLED", row[i].prefix, TRUE)) IN
        y.prefix = row[i].prefix /\ (y.word = "ABSENT" => row[i].word = "ABSENT")
    BY AdvancedRow
  <2> QED BY <1>0, <2>1 DEF CancelAction, DeliveryGiven, TypeOK
<1>3. \A k \in Inputs : TurnFacts(k)'
  <2> SUFFICES ASSUME NEW k \in Inputs PROVE TurnFacts(k)'
    OBVIOUS
  <2>1. TurnFacts(k)
    BY DEF DeliveryGiven, DeliveryInv
  <2>2. /\ turn' = turn /\ asst' = asst /\ est' = est /\ conv' = conv /\ shown' = shown
        /\ interrupts' = interrupts
    BY DEF CancelAction
  <2>3. CASE row'[k] = row[k]
    BY <2>1, <2>2, <2>3 DEF TurnFacts, Untouched
  <2>4. CASE row'[k] /= row[k]
    BY <1>2, <2>1, <2>2, <2>4 DEF TurnFacts, Untouched
  <2> QED BY <2>3, <2>4
<1>4. /\ job'[e].back = "handoff" /\ job'[e].target = i /\ job'[e].durable \in {0, row[i].prefix}
      /\ pc'[e] \in {"transcribe", "settle"} /\ work'[e] \subseteq work[e]
      /\ pc'[e] = "transcribe" => row[i].prefix > 0 /\ job'[e].durable = row[i].prefix
      /\ pc[e] = "handoff"
  BY <1>0, JobFields DEF CancelAction, Goto, DeliveryGiven, TypeOK
<1>5. LegFacts(e)'
  BY <1>0, <1>2, <1>4 DEF LegFacts, LegShape, PreLabels, KnowsRun, KnowsTail, WorkLabels,
     RunLabels,
     RepairLabels, StreamLabels
<1> QED BY <1>1, <1>3, <1>5, DeliveryGoesOn

LEMMA CommitUserTurnDelivers ==
    ASSUME DeliveryGiven, NEW e \in Epochs, CommitUserTurn(e)
    PROVE  Apart(e) /\ DeliveryInv'
<1>0. /\ job[e].input \in Inputs /\ LegFacts(e) /\ conv.nextTurn \in Nat
      /\ \A i \in Inputs : turn[i].seq \in Nat
  BY LegFields, Fields DEF DeliveryGiven, DeliveryInv, TypeOK
<1>1. Apart(e)
  BY <1>0 DEF CommitUserTurn, Goto, Apart, stored, DeliveryGiven, TypeOK
<1>2. \A i \in Inputs : TurnFacts(i)'
  <2> SUFFICES ASSUME NEW i \in Inputs PROVE TurnFacts(i)'
    OBVIOUS
  <2>1. CASE turn'[i] = turn[i]
    BY <1>0, <2>1 DEF CommitUserTurn, ConvOf, DeliveryGiven, DeliveryInv, TurnFacts,
       Untouched
  <2>2. CASE turn'[i] /= turn[i]
    <3>1. turn[i].status = "ABSENT" /\ turn'[i] = NewTurn(e, conv)
      BY <1>0, <2>2 DEF CommitUserTurn, DeliveryGiven, TypeOK
    <3>2. turn'[i].seq = conv.nextTurn /\ conv'.nextTurn = conv.nextTurn + 1
      BY <1>0, <2>2, <3>1 DEF CommitUserTurn, NewTurn, ConvOf
    <3> QED
      BY <1>0, <3>1, <3>2 DEF CommitUserTurn, DeliveryGiven, DeliveryInv, TurnFacts,
         Untouched, Delivered, TerminalTurn
  <2> QED BY <2>1, <2>2
<1>3. LegFacts(e)'
  BY <1>0 DEF CommitUserTurn, Goto, LegFacts, LegShape, PreLabels, KnowsRun, KnowsTail,
     WorkLabels,
     RunLabels, RepairLabels, StreamLabels, DeliveryGiven, TypeOK
<1> QED BY <1>1, <1>2, <1>3, DeliveryGoesOn

LEMMA DeliverTurnDelivers ==
    ASSUME DeliveryGiven, NEW e \in Epochs, DeliverTurn(e)
    PROVE  Apart(e) /\ DeliveryInv'
<1> DEFINE i == job[e].input
<1>0. /\ i \in Inputs /\ LegFacts(e) /\ TurnFacts(i) /\ Current(e)
      /\ turn[i].status \notin Delivered
  BY LegFields DEF DeliveryGiven, DeliveryInv, DeliverTurn, MoveTurn, Delivered,
     TerminalTurn
<1>1. Apart(e)
  BY <1>0 DEF DeliverTurn, Goto, Apart, stored, DeliveryGiven, TypeOK
<1>2. RowsKept
  BY <1>0, TurnFields DEF DeliverTurn, MoveTurn, RowsKept, Delivered, DeliveryGiven, TypeOK
<1>3. LegFacts(e)'
  BY <1>0, TurnFields DEF DeliverTurn, MoveTurn, Goto, LegFacts, LegShape, PreLabels, KnowsRun,
     KnowsTail, InStream, OwnDelivery, Untouched, TurnFacts, WorkLabels, RunLabels,
     RepairLabels, StreamLabels, DeliveryGiven, TypeOK
<1> QED BY <1>1, <1>2, <1>3, DeliveryGoesOn

LEMMA OpenRowDelivers ==
    ASSUME DeliveryGiven, NEW e \in Epochs, OpenRow(e)
    PROVE  Apart(e) /\ DeliveryInv'
<1> DEFINE i == job[e].input
<1>0. /\ i \in Inputs /\ LegFacts(e) /\ pc[e] = "open" /\ Current(e) /\ Streaming(e)
      /\ job[e].released = 0 /\ job[e].durable = 0 /\ Untouched(i)
  BY LegFields DEF DeliveryGiven, DeliveryInv, OpenRow, StreamInv, StreamAccounted,
     StreamLabels, LegFacts, LegShape, KnowsRun
<1>1. Apart(e)
  BY <1>0 DEF OpenRow, Goto, Apart, stored, DeliveryGiven, TypeOK
<1>2. /\ row'[i].prefix = 0 /\ ~row'[i].closed
      /\ \A k \in Inputs \ {i} : row'[k] = row[k]
  <2>1. LET y == Advanced(row[i], RowOf("SENDING", 0, FALSE)) IN
        y.prefix = 0 /\ ~y.closed
    <3>1. row[i].word = "ABSENT"
      BY <1>0 DEF Untouched
    <3> QED BY <3>1 DEF Advanced, RowOf
  <2> QED BY <1>0, <2>1 DEF OpenRow, DeliveryGiven, TypeOK
<1>3. /\ pc'[e] = "guard" /\ job' = job /\ work' = work /\ interrupts' = interrupts
      /\ turn' = turn /\ action' = action /\ asst' = asst /\ est' = est
      /\ conv' = conv /\ shown' = shown /\ dbEpoch' = dbEpoch
  BY <1>0 DEF OpenRow, Goto, DeliveryGiven, TypeOK
<1>4. KnowsRun(e) /\ InStream(e) /\ LegShape(e) /\ shown[i].count = 0
  BY <1>0 DEF LegFacts, StreamLabels, Streaming
<1>5. \A k \in Inputs : TurnFacts(k)'
  <2> SUFFICES ASSUME NEW k \in Inputs PROVE TurnFacts(k)'
    OBVIOUS
  <2>1. TurnFacts(k)
    BY DEF DeliveryGiven, DeliveryInv
  <2>2. CASE k = i
    <3>1. turn[i].status \in Delivered /\ ~asst[i].present
      BY <1>0, <1>4 DEF KnowsRun, StreamLabels, Delivered
    <3> QED BY <1>2, <1>3, <1>4, <2>1, <2>2, <3>1 DEF TurnFacts
  <2>3. CASE k /= i
    BY <1>2, <1>3, <2>1, <2>3 DEF TurnFacts, Untouched
  <2> QED BY <2>2, <2>3
<1>6. LegFacts(e)'
  <2>1. LegShape(e)'
    BY <1>0, <1>3, <1>4 DEF LegShape, PreLabels
  <2>2. KnowsRun(e)'
    BY <1>0, <1>2, <1>3, <1>4 DEF KnowsRun, StreamLabels, WorkLabels, RunLabels
  <2>3. KnowsTail(e)'
    BY <1>3 DEF KnowsTail, RepairLabels
  <2>4. InStream(e)'
    BY <1>0, <1>3, <1>4 DEF InStream, OwnDelivery
  <2> QED BY <2>1, <2>2, <2>3, <2>4 DEF LegFacts
<1> QED BY <1>1, <1>5, <1>6, DeliveryGoesOn

LEMMA EmitChunkDelivers ==
    ASSUME DeliveryGiven, NEW e \in Epochs, EmitChunk(e)
    PROVE  Apart(e) /\ DeliveryInv'
<1> DEFINE i == job[e].input
<1>0. /\ i \in Inputs /\ job[e] \in JobType /\ pc[e] = "emit"
      /\ InStream(e) /\ LegShape(e) /\ (Current(e) => KnowsRun(e)) /\ TurnFacts(i)
      /\ turn[i].status \in Delivered
  BY LegFields DEF DeliveryGiven, DeliveryInv, EmitChunk, LegFacts, StreamLabels,
     StreamInv, StreamAccounted, Streaming
<1>1. /\ pc' = [pc EXCEPT ![e] = "record"] /\ work' = work /\ interrupts' = interrupts
      /\ turn' = turn /\ action' = action /\ asst' = asst /\ est' = est
      /\ row' = row /\ conv' = conv /\ dbEpoch' = dbEpoch
      /\ job' = [job EXCEPT ![e] = job'[e]]
      /\ \A k \in Inputs \ {i} : shown'[k] = shown[k]
  BY <1>0 DEF EmitChunk, Goto, stored, DeliveryGiven, TypeOK
<1>2. /\ job'[e].input = i /\ job'[e].target = job[e].target /\ job'[e].back = job[e].back
      /\ job'[e].released = job[e].released + 1 /\ job'[e].durable = job[e].durable
  BY <1>0, JobFields DEF EmitChunk, DeliveryGiven, TypeOK
<1>3. /\ shown'[i].count = shown[i].count + 1
      /\ shown'[i].late = shown[i].late + (IF <<i, "action">> \in interrupts THEN 1 ELSE 0)
      /\ shown'[i].fenced = shown[i].fenced + (IF ~Current(e) THEN 1 ELSE 0)
  BY <1>0 DEF EmitChunk, Shown, DeliveryGiven, TypeOK
<1>4. shown[i].late \in Nat /\ shown[i].fenced \in Nat /\ shown[i].count \in Nat
      /\ row[i].prefix \in Nat
  BY <1>0, Fields DEF DeliveryGiven, TypeOK, ShownType
<1>5. shown[i].late = 0 /\ shown[i].fenced = 0
  BY <1>0, <1>4 DEF InStream
<1>6. Apart(e)
  BY <1>0, <1>1 DEF Apart, stored, DeliveryGiven, TypeOK
<1>7. \A k \in Inputs : TurnFacts(k)'
  <2> SUFFICES ASSUME NEW k \in Inputs PROVE TurnFacts(k)'
    OBVIOUS
  <2>1. TurnFacts(k)
    BY DEF DeliveryGiven, DeliveryInv
  <2>2. CASE k = i
    BY <1>0, <1>1, <1>3, <1>4, <1>5, <2>1, <2>2 DEF TurnFacts
  <2>3. CASE k /= i
    BY <1>1, <2>1, <2>3 DEF TurnFacts, Untouched
  <2> QED BY <2>2, <2>3
<1>8. pc'[e] = "record"
  BY <1>1 DEF DeliveryGiven, TypeOK
<1>9. LegFacts(e)'
  <2>1. LegShape(e)'
    BY <1>0, <1>2, <1>8 DEF LegShape, PreLabels
  <2>2. Current(e)' => KnowsRun(e)'
    <3>1. job[e].released \in Nat /\ job[e].durable \in Nat
      BY <1>0, Fields
    <3> QED
      BY <1>0, <1>1, <1>2, <1>8, <3>1 DEF Current, KnowsRun, StreamLabels, WorkLabels,
         RunLabels
  <2>3. KnowsTail(e)'
    BY <1>8 DEF KnowsTail, RepairLabels
  <2>4. InStream(e)'
    BY <1>0, <1>1, <1>2, <1>3, <1>4, <1>5, <1>8 DEF InStream, OwnDelivery, Current
  <2> QED BY <2>1, <2>2, <2>3, <2>4 DEF LegFacts
<1> QED BY <1>6, <1>7, <1>9, DeliveryGoesOn

LEMMA RecordChunkDelivers ==
    ASSUME DeliveryGiven, NEW e \in Epochs, RecordChunk(e)
    PROVE  Apart(e) /\ DeliveryInv'
<1> DEFINE i == job[e].input
<1>0. /\ i \in Inputs /\ job[e] \in JobType /\ pc[e] = "record" /\ Current(e)
      /\ InStream(e) /\ LegShape(e) /\ KnowsRun(e) /\ TurnFacts(i)
      /\ shown[i].count = job[e].released
  BY LegFields DEF DeliveryGiven, DeliveryInv, RecordChunk, LegFacts, StreamLabels,
     StreamInv, StreamAccounted, Streaming
<1>1. /\ pc'[e] = "take" /\ work' = work /\ interrupts' = interrupts
      /\ turn' = turn /\ action' = action /\ asst' = asst /\ est' = est
      /\ shown' = shown /\ conv' = conv /\ dbEpoch' = dbEpoch
      /\ \A k \in Inputs \ {i} : row'[k] = row[k]
  BY <1>0 DEF RecordChunk, Goto, DeliveryGiven, TypeOK
<1>2. /\ job'[e].input = i /\ job'[e].target = job[e].target /\ job'[e].back = job[e].back
      /\ job'[e].released = job[e].released /\ job'[e].durable = job[e].released
  BY <1>0, JobFields DEF RecordChunk, DeliveryGiven, TypeOK
<1>3. /\ turn[i].status = "DELIVERING" /\ ~asst[i].present /\ ~est[i].present
      /\ ~row[i].closed /\ job[e].released >= row[i].prefix
  <2>1. job[e].durable \in Nat
    BY <1>0, Fields
  <2> QED BY <1>0, <2>1 DEF KnowsRun, StreamLabels, RunLabels
<1>4. row'[i].prefix = job[e].released /\ ~row'[i].closed /\ row'[i].word = "SENT_PARTIAL"
  <2>1. LET y == Advanced(row[i], RowOf("SENT_PARTIAL", job[e].released, FALSE)) IN
        y.prefix = job[e].released /\ ~y.closed /\ y.word = "SENT_PARTIAL"
    BY <1>3 DEF Advanced, RowOf
  <2> QED BY <1>0, <2>1 DEF RecordChunk, DeliveryGiven, TypeOK
<1>5. Apart(e)
  BY <1>0 DEF RecordChunk, Goto, Apart, stored, DeliveryGiven, TypeOK
<1>6. \A k \in Inputs : TurnFacts(k)'
  <2> SUFFICES ASSUME NEW k \in Inputs PROVE TurnFacts(k)'
    OBVIOUS
  <2>1. TurnFacts(k)
    BY DEF DeliveryGiven, DeliveryInv
  <2>2. CASE k = i
    <3>1. job[e].released \in Nat
      BY <1>0, Fields
    <3> QED BY <1>0, <1>1, <1>3, <1>4, <2>1, <2>2, <3>1 DEF TurnFacts, Delivered
  <2>3. CASE k /= i
    BY <1>1, <2>1, <2>3 DEF TurnFacts, Untouched
  <2> QED BY <2>2, <2>3
<1>7. LegFacts(e)'
  <2>1. LegShape(e)'
    BY <1>0, <1>1, <1>2 DEF LegShape, PreLabels
  <2>2. KnowsRun(e)'
    <3>1. job[e].released + 0 = job[e].released
      BY <1>0, Fields
    <3> QED
      BY <1>0, <1>1, <1>2, <1>3, <1>4, <3>1 DEF KnowsRun, StreamLabels, WorkLabels, RunLabels
  <2>3. KnowsTail(e)'
    BY <1>1 DEF KnowsTail, RepairLabels
  <2>4. InStream(e)'
    BY <1>0, <1>1, <1>2 DEF InStream, OwnDelivery
  <2> QED BY <2>1, <2>2, <2>3, <2>4 DEF LegFacts
<1> QED BY <1>5, <1>6, <1>7, DeliveryGoesOn

LEMMA FreezeRowDelivers ==
    ASSUME DeliveryGiven, NEW e \in Epochs, FreezeRow(e)
    PROVE  Apart(e) /\ DeliveryInv'
<1> DEFINE i == job[e].target
<1>0. /\ i \in Inputs /\ job[e] \in JobType /\ pc[e] = "freeze" /\ Current(e)
      /\ job[e].input = i /\ LegShape(e) /\ KnowsRun(e) /\ KnowsTail(e) /\ TurnFacts(i)
      /\ row[i].prefix \in Nat /\ job[e].durable \in Nat
  BY LegFields, Fields DEF DeliveryGiven, DeliveryInv, FreezeRow, LegFacts, LegShape, TypeOK
<1>1. /\ pc' = [pc EXCEPT ![e] = pc'[e]] /\ work' = work /\ interrupts' = interrupts
      /\ turn' = turn /\ action' = action /\ asst' = asst /\ est' = est /\ job' = job
      /\ shown' = shown /\ conv' = conv /\ dbEpoch' = dbEpoch
      /\ pc'[e] \in {"estimate", "settle", "transcribe"}
      /\ pc'[e] = "transcribe" => job[e].durable > 0
      /\ \A k \in Inputs \ {i} : row'[k] = row[k]
  BY <1>0 DEF FreezeRow, Goto, DeliveryGiven, TypeOK
<1>2. row'[i].prefix = row[i].prefix
  <2>1. row'[i] = Advanced(row[i], RowOf(job[e].word, job[e].durable, TRUE))
    BY <1>0 DEF FreezeRow, DeliveryGiven, TypeOK
  <2>2. \/ row'[i] = row[i]
        \/ /\ row'[i].prefix = job[e].durable
           /\ row[i].word = "ABSENT" \/ job[e].durable >= row[i].prefix
    BY <2>1 DEF Advanced, RowOf
  <2>3. job[e].durable = row[i].prefix \/ job[e].durable = 0
    BY <1>0 DEF KnowsTail
  <2>4. row[i].word = "ABSENT" => row[i].prefix = 0
    BY <1>0 DEF TurnFacts
  <2> QED BY <1>0, <2>2, <2>3, <2>4
<1>2a. row'[i].word = "ABSENT" => row[i].word = "ABSENT"
  <2>1. job[e].word /= "ABSENT"
    BY <1>0 DEF DeliveryGiven, LeaseInv, Holds
  <2>2. LET y == Advanced(row[i], RowOf(job[e].word, job[e].durable, TRUE)) IN
        y.word = "ABSENT" => row[i].word = "ABSENT"
    BY <2>1 DEF Advanced, RowOf
  <2> QED BY <1>0, <2>2 DEF FreezeRow, DeliveryGiven, TypeOK
<1>3. turn[i].status = "DELIVERING" /\ ~asst[i].present /\ OwnDelivery(e, i)
  BY <1>0 DEF KnowsRun, KnowsTail
<1>4. Apart(e)
  BY <1>0, <1>1 DEF Apart, stored, DeliveryGiven, TypeOK
<1>5. \A k \in Inputs : TurnFacts(k)'
  <2> SUFFICES ASSUME NEW k \in Inputs PROVE TurnFacts(k)'
    OBVIOUS
  <2>1. TurnFacts(k)
    BY DEF DeliveryGiven, DeliveryInv
  <2>2. CASE k = i
    BY <1>1, <1>2, <1>2a, <1>3, <2>1, <2>2 DEF TurnFacts, Delivered
  <2>3. CASE k /= i
    BY <1>1, <2>1, <2>3 DEF TurnFacts, Untouched
  <2> QED BY <2>2, <2>3
<1>6. LegFacts(e)'
  <2>1. LegShape(e)'
    BY <1>0, <1>1 DEF LegShape, PreLabels
  <2>2. KnowsRun(e)' /\ pc'[e] \notin StreamLabels
    BY <1>1 DEF KnowsRun, StreamLabels, WorkLabels, RunLabels
  <2>3. KnowsTail(e)'
    BY <1>0, <1>1, <1>2, <1>3 DEF KnowsTail, RepairLabels, OwnDelivery
  <2> QED BY <2>1, <2>2, <2>3 DEF LegFacts
<1> QED BY <1>4, <1>5, <1>6, DeliveryGoesOn

LEMMA WriteEstimateDelivers ==
    ASSUME DeliveryGiven, NEW e \in Epochs, WriteEstimate(e)
    PROVE  Apart(e) /\ DeliveryInv'
<1> DEFINE i == job[e].target
<1>0. /\ i \in Inputs /\ pc[e] = "estimate" /\ Current(e)
      /\ job[e].input = i /\ LegShape(e) /\ KnowsTail(e) /\ job[e].durable \in Nat
  BY LegFields, Fields DEF DeliveryGiven, DeliveryInv, WriteEstimate, LegFacts, LegShape
<1>1. /\ pc' = [pc EXCEPT ![e] = pc'[e]] /\ work' = work /\ interrupts' = interrupts
      /\ turn' = turn /\ action' = action /\ asst' = asst /\ row' = row /\ job' = job
      /\ shown' = shown /\ conv' = conv /\ dbEpoch' = dbEpoch
      /\ pc'[e] \in {"settle", "transcribe"}
      /\ pc'[e] = "transcribe" => job[e].durable > 0
      /\ \A k \in Inputs \ {i} : est'[k] = est[k]
  BY <1>0 DEF WriteEstimate, Goto, DeliveryGiven, TypeOK
<1>2. turn[i].status \in Delivered
  BY <1>0 DEF KnowsTail, Delivered
<1>3. Apart(e)
  BY <1>0, <1>1 DEF Apart, stored, DeliveryGiven, TypeOK
<1>4. \A k \in Inputs : TurnFacts(k)'
  <2> SUFFICES ASSUME NEW k \in Inputs PROVE TurnFacts(k)'
    OBVIOUS
  <2>1. TurnFacts(k)
    BY DEF DeliveryGiven, DeliveryInv
  <2> QED BY <1>1, <1>2, <2>1 DEF TurnFacts, Untouched
<1>5. LegFacts(e)'
  BY <1>0, <1>1 DEF LegFacts, LegShape, PreLabels, KnowsRun, KnowsTail, RepairLabels,
     StreamLabels, WorkLabels, RunLabels
<1> QED BY <1>3, <1>4, <1>5, DeliveryGoesOn

(* canonicalize_assistant_turn with the row's prefix.                      *)
LEMMA CanonicalFacts ==
    ASSUME DeliveryGiven, NEW e \in Epochs, NEW i \in Inputs, NEW word,
           Canonicalize(e, i, row[i].prefix, word) \/ UNCHANGED <<asst, conv>>,
           row[i].prefix > 0, turn' = turn, row' = row, est' = est, shown' = shown,
           interrupts' = interrupts
    PROVE  /\ \A k \in Inputs : TurnFacts(k)'
           /\ conv'.nextTurn = conv.nextTurn
           /\ \A k \in Inputs \ {i} : asst'[k] = asst[k]
           /\ asst'[i].present \/ asst' = asst
<1>1. /\ \A k \in Inputs \ {i} : asst'[k] = asst[k]
      /\ asst'[i] = asst[i] \/ (asst'[i].present /\ asst'[i].content = row[i].prefix)
      /\ asst'[i].present \/ asst' = asst
      /\ conv'.nextTurn = conv.nextTurn
  BY DEF Canonicalize, AsstOf, ConvOf, DeliveryGiven, TypeOK
<1>2. ASSUME NEW k \in Inputs PROVE TurnFacts(k)'
  <2>1. TurnFacts(k)
    BY DEF DeliveryGiven, DeliveryInv
  <2>2. CASE k = i
    <3>1. turn[i].status \in Delivered
      BY <2>1, <2>2 DEF TurnFacts, Untouched
    <3> QED BY <1>1, <2>1, <2>2, <3>1 DEF TurnFacts
  <2>3. CASE k /= i
    BY <1>1, <2>1, <2>3 DEF TurnFacts, Untouched
  <2> QED BY <2>2, <2>3
<1> QED BY <1>1, <1>2

LEMMA TranscribeDelivers ==
    ASSUME DeliveryGiven, NEW e \in Epochs, Transcribe(e)
    PROVE  Apart(e) /\ DeliveryInv'
<1> DEFINE i == job[e].target
<1>0. /\ i \in Inputs /\ pc[e] = "transcribe" /\ Current(e) /\ LegShape(e)
      /\ job[e].durable = row[i].prefix /\ row[i].prefix > 0
  BY LegFields DEF DeliveryGiven, DeliveryInv, Transcribe, Canonicalize, LegFacts, KnowsTail
<1>1. /\ pc' = [pc EXCEPT ![e] = "settle"] /\ work' = work /\ interrupts' = interrupts
      /\ turn' = turn /\ action' = action /\ row' = row /\ est' = est /\ job' = job
      /\ shown' = shown /\ dbEpoch' = dbEpoch
  BY DEF Transcribe, Goto
<1>2. PICK word \in {"SENT_COMPLETE", "SENT_PARTIAL"} :
        Canonicalize(e, i, row[i].prefix, word)
  BY <1>0 DEF Transcribe
<1>3. \A k \in Inputs : TurnFacts(k)'
  BY <1>0, <1>1, <1>2, CanonicalFacts
<1>4. Apart(e)
  BY <1>0, <1>1 DEF Apart, stored, DeliveryGiven, TypeOK
<1>5. LegFacts(e)'
  BY <1>0, <1>1 DEF LegFacts, LegShape, PreLabels, KnowsRun, KnowsTail, RepairLabels,
     StreamLabels, WorkLabels, RunLabels, DeliveryGiven, TypeOK
<1> QED BY <1>3, <1>4, <1>5, DeliveryGoesOn

LEMMA RepairTextDelivers ==
    ASSUME DeliveryGiven, NEW e \in Epochs, RepairText(e)
    PROVE  Apart(e) /\ DeliveryInv'
<1> DEFINE i == job[e].target
<1>0. /\ i \in Inputs /\ pc[e] = "repairText" /\ Current(e) /\ LegShape(e)
      /\ action[i].status = "TERMINAL" /\ row[i].prefix \in Nat /\ job[e] \in JobType
  BY LegFields, Fields DEF DeliveryGiven, DeliveryInv, RepairText, LegFacts, KnowsTail,
     RepairLabels, TypeOK
<1>1. /\ pc' = [pc EXCEPT ![e] = "repairEstimate"] /\ work' = work
      /\ turn' = turn /\ action' = action /\ row' = row /\ est' = est
      /\ shown' = shown /\ dbEpoch' = dbEpoch /\ interrupts' = interrupts
      /\ job' = [job EXCEPT ![e] = Ending(@, @.word, ReconciledOutcome(i))]
  BY DEF RepairText, Goto
<1>2. \/ row[i].prefix > 0 /\ Canonicalize(e, i, row[i].prefix, "SENT_PARTIAL")
      \/ UNCHANGED <<asst, conv>>
  BY DEF RepairText
<1>3. \A k \in Inputs : TurnFacts(k)'
  <2>1. CASE UNCHANGED <<asst, conv>>
    BY <1>1, <2>1, RowsKeptFacts DEF RowsKept
  <2>2. CASE row[i].prefix > 0 /\ Canonicalize(e, i, row[i].prefix, "SENT_PARTIAL")
    BY <1>0, <1>1, <2>2, CanonicalFacts
  <2> QED BY <1>2, <2>1, <2>2
<1>4. Apart(e)
  BY <1>0, <1>1 DEF Apart, stored, DeliveryGiven, TypeOK
<1>5. /\ job'[e].input = job[e].input /\ job'[e].target = job[e].target
      /\ job'[e].back = job[e].back /\ pc'[e] = "repairEstimate"
  BY <1>0, <1>1, JobFields DEF DeliveryGiven, TypeOK
<1>6. LegFacts(e)'
  BY <1>0, <1>1, <1>5 DEF LegFacts, LegShape, PreLabels, KnowsRun, KnowsTail, RepairLabels,
     StreamLabels, WorkLabels, RunLabels
<1> QED BY <1>3, <1>4, <1>6, DeliveryGoesOn

LEMMA RepairEstimateDelivers ==
    ASSUME DeliveryGiven, NEW e \in Epochs, RepairEstimate(e)
    PROVE  Apart(e) /\ DeliveryInv'
<1> DEFINE i == job[e].target
<1>0. /\ i \in Inputs /\ pc[e] = "repairEstimate" /\ Current(e) /\ LegShape(e)
  BY LegFields DEF DeliveryGiven, DeliveryInv, RepairEstimate, LegFacts
<1>1. /\ pc' = [pc EXCEPT ![e] = "close"] /\ work' = work /\ interrupts' = interrupts
      /\ turn' = turn /\ action' = action /\ asst' = asst /\ row' = row /\ job' = job
      /\ shown' = shown /\ conv' = conv /\ dbEpoch' = dbEpoch
      /\ \A k \in Inputs \ {i} : est'[k] = est[k]
      /\ est' = est \/ row[i].word \in EstimableWord
  BY <1>0 DEF RepairEstimate, Goto, DeliveryGiven, TypeOK
<1>2. Apart(e)
  BY <1>0, <1>1 DEF Apart, stored, DeliveryGiven, TypeOK
<1>3. \A k \in Inputs : TurnFacts(k)'
  <2> SUFFICES ASSUME NEW k \in Inputs PROVE TurnFacts(k)'
    OBVIOUS
  <2>1. TurnFacts(k)
    BY DEF DeliveryGiven, DeliveryInv
  <2> QED BY <1>1, <2>1 DEF TurnFacts, Untouched, EstimableWord
<1>4. LegFacts(e)'
  BY <1>0, <1>1 DEF LegFacts, LegShape, PreLabels, KnowsRun, KnowsTail, RepairLabels,
     StreamLabels, WorkLabels, RunLabels, DeliveryGiven, TypeOK
<1> QED BY <1>2, <1>3, <1>4, DeliveryGoesOn

LEMMA DeliveryStep ==
    ASSUME DeliveryGiven, [Next]_vars
    PROVE  DeliveryInv'
<1>1. ASSUME NEW e \in Epochs, LegStep(e) PROVE DeliveryInv'
  BY <1>1, RecoverTurnDelivers, RecoveryDoneDelivers, RepairClaimDelivers,
     RepairTextDelivers, RepairEstimateDelivers, HandoffDoneDelivers,
     CommitUserTurnDelivers, ReplayTerminalDelivers, AdoptTurnDelivers,
     RepairDeliveringDelivers, RefuseDeliveringDelivers, AdvanceTurnDelivers,
     ParkTurnDelivers, RecordCycleDelivers, CloseParkedClaimDelivers,
     ClaimActionDelivers, CreateActionDelivers, EnsureRequestedDelivers,
     RefuseDispatchDelivers, CallProviderDelivers, RecordAttemptDelivers,
     StartValidationDelivers, AcceptOutputDelivers, RetryActionDelivers, GiveUpDelivers,
     BeginDeliveryDelivers, DeliverTurnDelivers, OpenRowDelivers,
     PreDeliveryGuardDelivers, TakeInterruptedDelivers, TakeChunkDelivers,
     EndStreamDelivers, EmitChunkDelivers, RecordChunkDelivers, FreezeRowDelivers,
     WriteEstimateDelivers, TranscribeDelivers, SettleActionDelivers, CloseTurnDelivers,
     FencedDelivers, CancelActionDelivers, CancelTurnDelivers, SkipRequestDelivers
     DEF LegStep
<1>2. ASSUME NEW e \in Epochs, Failure(e) PROVE DeliveryInv'
  BY <1>2, LegFaultDelivers, EstimateLostDelivers, RefuseChunkDelivers,
     StreamRaisesDelivers DEF Failure
<1>3. CASE UNCHANGED vars
  <2>1. ASSUME NEW e \in Epochs PROVE LegFacts(e)'
    <3>1. LegFacts(e)
      BY DEF DeliveryGiven, DeliveryInv
    <3> QED
      BY <1>3, <3>1 DEF vars, stored, LegFacts, LegShape, KnowsRun, KnowsTail, InStream,
         OwnDelivery, Untouched, Current
  <2>2. ASSUME NEW i \in Inputs PROVE TurnFacts(i)'
    <3>1. TurnFacts(i)
      BY DEF DeliveryGiven, DeliveryInv
    <3> QED BY <1>3, <3>1 DEF vars, stored, TurnFacts, Untouched
  <2> QED BY <2>1, <2>2 DEF DeliveryInv
<1> QED
  BY <1>1, <1>2, <1>3, StartRuntimeDelivers, CrashDelivers, BeginTurnDelivers,
     CloseParkedDelivers, RequestInterruptDelivers
     DEF Next

LEMMA InitDelivery == Init => DeliveryInv
<1> SUFFICES ASSUME Init PROVE DeliveryInv
  OBVIOUS
<1>1. \A e \in Epochs : LegFacts(e)
  BY FreshFields DEF Init, LegFacts, LegShape, KnowsRun, KnowsTail, PreLabels, WorkLabels,
     RunLabels, RepairLabels, StreamLabels, Current
<1>2. \A i \in Inputs : TurnFacts(i)
  BY DEF Init, TurnFacts, Untouched, NoTurn, NoRow, RowOf, NoAsst, NoEstimate, NoShow, ConvOf,
     Delivered, TerminalTurn
<1> QED BY <1>1, <1>2 DEF DeliveryInv

LEMMA DeliveryInvariant == Spec => [](TypeOK /\ LeaseInv /\ StreamInv /\ DeliveryInv)
<1>1. Init => TypeOK /\ LeaseInv /\ StreamInv /\ DeliveryInv
  BY InitType, InitLease, InitStream, InitDelivery
<1>2. TypeOK /\ LeaseInv /\ StreamInv /\ DeliveryInv /\ [Next]_vars
        => (TypeOK /\ LeaseInv /\ StreamInv /\ DeliveryInv)'
  BY TypeStep, LeaseStep, StreamStep, DeliveryStep DEF DeliveryGiven
<1> QED BY <1>1, <1>2, PTL DEF Spec

(* finalize_streamed_delivery, across fences, faults and interrupts: the   *)
(* transcript holds what was sent and no more, and a stream that must stop *)
(* sends at most the chunk that is on its way.                             *)
THEOREM StreamStaysTrue == Spec => []StreamIsTrue
<1>1. TypeOK /\ DeliveryInv => StreamIsTrue
  <2> SUFFICES ASSUME TypeOK, DeliveryInv, NEW i \in Inputs
               PROVE  /\ asst[i].present =>
                           asst[i].content = row[i].prefix /\ asst[i].content <= shown[i].count
                      /\ shown[i].late <= 1 /\ shown[i].fenced <= 1
    BY DEF StreamIsTrue, TranscriptWasShown, StopsPromptly
  <2> QED BY DEF DeliveryInv, TurnFacts
<1> QED BY <1>1, DeliveryInvariant, PTL

LEMMA OnlyEmitShows ==
    ASSUME [Next]_vars
    PROVE  shown' = shown \/ \E e \in Epochs : EmitChunk(e)
<1>1. ASSUME NEW e \in Epochs, LegStep(e) PROVE shown' = shown \/ EmitChunk(e)
  BY <1>1 DEF LegStep, RecoverTurn, RecoveryDone, RepairClaim, RepairText,
     RepairEstimate, HandoffDone, CommitUserTurn, ReplayTerminal, AdoptTurn,
     RepairDelivering, RefuseDelivering, AdvanceTurn, ParkTurn, RecordCycle,
     CloseParkedClaim, ClaimAction, CreateAction, EnsureRequested, RefuseDispatch,
     CallProvider, RecordAttempt, StartValidation, AcceptOutput, RetryAction, GiveUp,
     BeginDelivery, DeliverTurn, OpenRow, PreDeliveryGuard, TakeInterrupted, TakeChunk,
     EndStream, RecordChunk, FreezeRow, WriteEstimate, Transcribe, SettleAction,
     CloseTurn, Fenced, CancelAction, CancelTurn, SkipRequest
<1>2. ASSUME NEW e \in Epochs, Failure(e) PROVE shown' = shown
  BY <1>2 DEF Failure, LegFault, EstimateLost, RefuseChunk, StreamRaises
<1> QED
  BY <1>1, <1>2 DEF Next, StartRuntime, Crash, BeginTurn, CloseParked, RequestInterrupt, vars

(* The pre-delivery guard against a newer turn, and every step after it:   *)
(* a runtime that is not fenced off sends only for the newest turn, while  *)
(* that turn is being delivered.                                           *)
THEOREM OutputStaysNewest == Spec => OutputOnlyForNewestTurn
<1>1. ASSUME TypeOK /\ LeaseInv /\ StreamInv /\ DeliveryInv, [Next]_vars, NEW i \in Inputs,
             shown'[i].count > shown[i].count, shown'[i].fenced = shown[i].fenced
      PROVE  turn[i].status = "DELIVERING" /\ turn[i].seq = conv.nextTurn - 1
  <2>0. shown[i].count \in Nat /\ shown[i].fenced \in Nat
    BY <1>1, Fields DEF TypeOK, ShownType
  <2>1. PICK e \in Epochs : EmitChunk(e)
    BY <1>1, <2>0, OnlyEmitShows
  <2>2. i = job[e].input /\ pc[e] = "emit"
    BY <1>1, <2>0, <2>1 DEF EmitChunk, TypeOK
  <2>3. Current(e)
    BY <1>1, <2>0, <2>1, <2>2 DEF EmitChunk, Shown, TypeOK
  <2> QED
    BY <1>1, <2>2, <2>3 DEF DeliveryInv, LegFacts, KnowsRun, StreamLabels
<1>2. TypeOK /\ LeaseInv /\ StreamInv /\ DeliveryInv /\ [Next]_vars =>
        [\A i \in Inputs :
           shown'[i].count > shown[i].count /\ shown'[i].fenced = shown[i].fenced
             => turn[i].status = "DELIVERING" /\ turn[i].seq = conv.nextTurn - 1]_vars
  BY <1>1
<1> QED BY <1>2, DeliveryInvariant, PTL DEF Spec, OutputOnlyForNewestTurn

----------------------------------------------------------------------------
(* CancelIsClean.  It is stated for the system in which it holds: requests *)
(* name actions (a request that names a turn leaves the action behind),    *)
(* nobody parks turns, and no record raises after its chunk was released.  *)
CleanSystem ==
    "turn" \notin InterruptKinds /\ "raise" \notin FaultKinds /\ ~Parking

(* A turn that has ended has no live action, and what was sent of it is    *)
(* transcribed.                                                            *)
EndedClean(i) ==
    turn[i].status \in TerminalTurn =>
        ~Running(i) /\ (row[i].prefix > 0 => asst[i].present)

(* The tail of a leg brings its turn there before it ends it.              *)
CleanLeg(e) ==
    LET k == job[e].target IN
    /\ pc[e] \in {"freeze", "estimate"} => job[e].durable = row[k].prefix
    /\ pc[e] \in {"settle", "repairEstimate", "close"} =>
         (row[k].prefix > 0 => asst[k].present)
    /\ pc[e] = "close" => ~Running(k)

CleanInv ==
    /\ parked = {}
    /\ \A i \in Inputs : EndedClean(i)
    /\ \A e \in Epochs : pc[e] /= "closeParked"
    /\ \A e \in Epochs : Current(e) => CleanLeg(e)

CleanGiven == DeliveryGiven /\ CleanInv /\ CleanSystem

TailLabels == {"freeze", "estimate", "settle", "repairEstimate", "close"}

LEMMA CleanGoesOn ==
    ASSUME CleanGiven, NEW e \in Epochs, Apart(e), parked' = parked,
           \A i \in Inputs : EndedClean(i)',
           pc'[e] /= "closeParked", Current(e) => CleanLeg(e)'
    PROVE  CleanInv'
<1>1. ASSUME NEW f \in Epochs PROVE pc'[f] /= "closeParked" /\ (Current(f)' => CleanLeg(f)')
  <2>1. CASE f = e
    BY <2>1 DEF Apart, Current
  <2>2. CASE f /= e
    <3>1. pc'[f] = pc[f] /\ job'[f] = job[f] /\ dbEpoch' = dbEpoch
      BY <2>2 DEF Apart
    <3>2. ASSUME Current(f)' PROVE CleanLeg(f)'
      <4>1. stored' = stored /\ CleanLeg(f)
        BY <2>2, <3>1, <3>2 DEF Apart, Current, CleanGiven, CleanInv
      <4> QED BY <3>1, <4>1 DEF CleanLeg, stored, Running
    <3> QED BY <3>1, <3>2 DEF CleanGiven, CleanInv
  <2> QED BY <2>1, <2>2
<1> QED BY <1>1 DEF CleanGiven, CleanInv

(* Steps that write no row of a delivery, start nothing for a turn that    *)
(* has ended and end none.                                                 *)
LEMMA EndedStays ==
    ASSUME CleanGiven, row' = row, asst' = asst,
           \A i \in Inputs : turn'[i].status \in TerminalTurn =>
               /\ turn[i].status \in TerminalTurn
               /\ action'[i].status = action[i].status \/ action'[i].status = "TERMINAL"
    PROVE  \A i \in Inputs : EndedClean(i)'
  BY DEF CleanGiven, CleanInv, EndedClean, Running

LEMMA LeavingClean ==
    ASSUME CleanGiven, NEW e \in Epochs, Apart(e), Leave(e) \/ Return(e),
           stored' = stored, parked' = parked
    PROVE  CleanInv'
<1>1. \A i \in Inputs : EndedClean(i)'
  BY EndedStays DEF stored
<1>2. pc'[e] /= "closeParked" /\ CleanLeg(e)'
  BY LeaveShape DEF CleanLeg, CleanGiven
<1> QED BY <1>1, <1>2, CleanGoesOn

LEMMA FencedClean ==
    ASSUME CleanGiven, NEW e \in Epochs, Fenced(e)
    PROVE  CleanInv'
<1> QED BY LeavingClean, FencedDelivers DEF Fenced, CleanGiven

LEMMA RecoveryDoneClean ==
    ASSUME CleanGiven, NEW e \in Epochs, RecoveryDone(e)
    PROVE  CleanInv'
<1> QED BY LeavingClean, RecoveryDoneDelivers DEF RecoveryDone, CleanGiven

LEMMA ReplayTerminalClean ==
    ASSUME CleanGiven, NEW e \in Epochs, ReplayTerminal(e)
    PROVE  CleanInv'
<1> QED BY LeavingClean, ReplayTerminalDelivers DEF ReplayTerminal, CleanGiven

LEMMA RefuseDeliveringClean ==
    ASSUME CleanGiven, NEW e \in Epochs, RefuseDelivering(e)
    PROVE  CleanInv'
<1> QED BY LeavingClean, RefuseDeliveringDelivers DEF RefuseDelivering, CleanGiven

LEMMA RefuseDispatchClean ==
    ASSUME CleanGiven, NEW e \in Epochs, RefuseDispatch(e)
    PROVE  CleanInv'
<1> QED BY LeavingClean, RefuseDispatchDelivers DEF RefuseDispatch, CleanGiven

LEMMA LegFaultClean ==
    ASSUME CleanGiven, NEW e \in Epochs, LegFault(e)
    PROVE  CleanInv'
<1> QED BY LeavingClean, LegFaultDelivers DEF LegFault, CleanGiven

LEMMA CrashClean ==
    ASSUME CleanGiven, NEW e \in Epochs, Crash(e)
    PROVE  CleanInv'
<1>0. /\ job[e] \in JobType /\ job[e].input \in Inputs /\ job[e].target \in Inputs
      /\ LegFacts(e) /\ pc[e] \in Label /\ Apart(e) /\ (Current(e) => CleanLeg(e))
  BY LegFields, CrashDelivers DEF CleanGiven, CleanInv, DeliveryGiven, DeliveryInv, TypeOK
<1>1. \A k \in Inputs : EndedClean(k)'
  BY <1>0, EndedStays, TurnFields, ActionUpdates DEF Crash, stored, LegFacts, KnowsRun,
     WorkLabels, StreamLabels, TerminalTurn, CleanGiven, DeliveryGiven, TypeOK, Current
<1>2. parked' = parked /\ pc'[e] /= "closeParked"
  BY <1>0 DEF Crash, Goto, stored, DeliveryGiven, CleanGiven, TypeOK
<1>3. Current(e) => CleanLeg(e)'
  BY <1>0, <1>2, JobFields, FreshFields, ActionUpdates DEF Crash, Goto, stored, CleanLeg,
     LegFacts, LegShape,
     KnowsRun, KnowsTail, RunLabels, DeliveryGiven, CleanGiven, TypeOK, Running
<1> QED BY <1>0, <1>1, <1>2, <1>3, CleanGoesOn

LEMMA BeginTurnClean ==
    ASSUME CleanGiven, NEW e \in Epochs, NEW i \in Inputs, BeginTurn(e, i)
    PROVE  CleanInv'
<1>0. /\ job[e] \in JobType /\ job[e].input \in Inputs /\ job[e].target \in Inputs
      /\ LegFacts(e) /\ pc[e] \in Label /\ Apart(e) /\ (Current(e) => CleanLeg(e))
  BY LegFields, BeginTurnDelivers DEF CleanGiven, CleanInv, DeliveryGiven, DeliveryInv, TypeOK
<1>1. \A k \in Inputs : EndedClean(k)'
  BY <1>0, EndedStays, TurnFields, ActionUpdates DEF BeginTurn, stored, LegFacts, KnowsRun,
     WorkLabels, StreamLabels, TerminalTurn, CleanGiven, DeliveryGiven, TypeOK, Current
<1>2. parked' = parked /\ pc'[e] /= "closeParked"
  BY <1>0 DEF BeginTurn, Goto, stored, DeliveryGiven, CleanGiven, TypeOK
<1>3. Current(e) => CleanLeg(e)'
  BY <1>0, <1>2, JobFields, FreshFields, ActionUpdates DEF BeginTurn, Goto, stored, CleanLeg,
     LegFacts, LegShape,
     KnowsRun, KnowsTail, RunLabels, DeliveryGiven, CleanGiven, TypeOK, Running
<1> QED BY <1>0, <1>1, <1>2, <1>3, CleanGoesOn

LEMMA SkipRequestClean ==
    ASSUME CleanGiven, NEW e \in Epochs, NEW r \in Inputs \X InterruptKinds, SkipRequest(e, r)
    PROVE  CleanInv'
<1>0. /\ job[e] \in JobType /\ job[e].input \in Inputs /\ job[e].target \in Inputs
      /\ LegFacts(e) /\ pc[e] \in Label /\ Apart(e) /\ (Current(e) => CleanLeg(e))
  BY LegFields, SkipRequestDelivers DEF CleanGiven, CleanInv, DeliveryGiven, DeliveryInv, TypeOK
<1>1. \A k \in Inputs : EndedClean(k)'
  BY <1>0, EndedStays, TurnFields, ActionUpdates DEF SkipRequest, stored, LegFacts, KnowsRun,
     WorkLabels, StreamLabels, TerminalTurn, CleanGiven, DeliveryGiven, TypeOK, Current
<1>2. parked' = parked /\ pc'[e] /= "closeParked"
  BY <1>0 DEF SkipRequest, Goto, stored, DeliveryGiven, CleanGiven, TypeOK
<1>3. Current(e) => CleanLeg(e)'
  BY <1>0, <1>2, JobFields, FreshFields, ActionUpdates DEF SkipRequest, Goto, stored,
     CleanLeg, LegFacts, LegShape,
     KnowsRun, KnowsTail, RunLabels, DeliveryGiven, CleanGiven, TypeOK, Running
<1> QED BY <1>0, <1>1, <1>2, <1>3, CleanGoesOn

LEMMA HandoffDoneClean ==
    ASSUME CleanGiven, NEW e \in Epochs, HandoffDone(e)
    PROVE  CleanInv'
<1>0. /\ job[e] \in JobType /\ job[e].input \in Inputs /\ job[e].target \in Inputs
      /\ LegFacts(e) /\ pc[e] \in Label /\ Apart(e) /\ (Current(e) => CleanLeg(e))
  BY LegFields, HandoffDoneDelivers DEF CleanGiven, CleanInv, DeliveryGiven, DeliveryInv, TypeOK
<1>1. \A k \in Inputs : EndedClean(k)'
  BY <1>0, EndedStays, TurnFields, ActionUpdates DEF HandoffDone, stored, LegFacts, KnowsRun,
     WorkLabels, StreamLabels, TerminalTurn, CleanGiven, DeliveryGiven, TypeOK, Current
<1>2. parked' = parked /\ pc'[e] /= "closeParked"
  BY <1>0 DEF HandoffDone, Goto, stored, DeliveryGiven, CleanGiven, TypeOK
<1>3. Current(e) => CleanLeg(e)'
  BY <1>0, <1>2, JobFields, FreshFields, ActionUpdates DEF HandoffDone, Goto, stored,
     CleanLeg, LegFacts, LegShape,
     KnowsRun, KnowsTail, RunLabels, DeliveryGiven, CleanGiven, TypeOK, Running
<1> QED BY <1>0, <1>1, <1>2, <1>3, CleanGoesOn

LEMMA AdoptTurnClean ==
    ASSUME CleanGiven, NEW e \in Epochs, AdoptTurn(e)
    PROVE  CleanInv'
<1>0. /\ job[e] \in JobType /\ job[e].input \in Inputs /\ job[e].target \in Inputs
      /\ LegFacts(e) /\ pc[e] \in Label /\ Apart(e) /\ (Current(e) => CleanLeg(e))
  BY LegFields, AdoptTurnDelivers DEF CleanGiven, CleanInv, DeliveryGiven, DeliveryInv, TypeOK
<1>1. \A k \in Inputs : EndedClean(k)'
  BY <1>0, EndedStays, TurnFields, ActionUpdates DEF AdoptTurn, stored, LegFacts, KnowsRun,
     WorkLabels, StreamLabels, TerminalTurn, CleanGiven, DeliveryGiven, TypeOK, Current, Adopted
<1>2. parked' = parked /\ pc'[e] /= "closeParked"
  BY <1>0 DEF AdoptTurn, Goto, stored, DeliveryGiven, CleanGiven, TypeOK
<1>3. Current(e) => CleanLeg(e)'
  <2>1. pc'[e] = "advance"
    BY <1>0 DEF AdoptTurn, Goto, DeliveryGiven, CleanGiven, TypeOK
  <2> QED BY <2>1 DEF CleanLeg
<1> QED BY <1>0, <1>1, <1>2, <1>3, CleanGoesOn

LEMMA RepairClaimClean ==
    ASSUME CleanGiven, NEW e \in Epochs, RepairClaim(e)
    PROVE  CleanInv'
<1>0. /\ job[e] \in JobType /\ job[e].input \in Inputs /\ job[e].target \in Inputs
      /\ LegFacts(e) /\ pc[e] \in Label /\ Apart(e) /\ (Current(e) => CleanLeg(e))
  BY LegFields, RepairClaimDelivers DEF CleanGiven, CleanInv, DeliveryGiven, DeliveryInv, TypeOK
<1>1. \A k \in Inputs : EndedClean(k)'
  BY <1>0, EndedStays, TurnFields, ActionUpdates DEF RepairClaim, stored, LegFacts, KnowsRun,
     WorkLabels, StreamLabels, TerminalTurn, CleanGiven, DeliveryGiven, TypeOK, Current, Adopted
<1>2. parked' = parked /\ pc'[e] /= "closeParked"
  BY <1>0 DEF RepairClaim, Goto, stored, DeliveryGiven, CleanGiven, TypeOK
<1>3. Current(e) => CleanLeg(e)'
  BY <1>0, <1>2, JobFields, FreshFields, ActionUpdates DEF RepairClaim, Goto, stored,
     CleanLeg, LegFacts, LegShape,
     KnowsRun, KnowsTail, RunLabels, DeliveryGiven, CleanGiven, TypeOK, Running
<1> QED BY <1>0, <1>1, <1>2, <1>3, CleanGoesOn

LEMMA AdvanceTurnClean ==
    ASSUME CleanGiven, NEW e \in Epochs, AdvanceTurn(e)
    PROVE  CleanInv'
<1>0. /\ job[e] \in JobType /\ job[e].input \in Inputs /\ job[e].target \in Inputs
      /\ LegFacts(e) /\ pc[e] \in Label /\ Apart(e) /\ (Current(e) => CleanLeg(e))
  BY LegFields, AdvanceTurnDelivers DEF CleanGiven, CleanInv, DeliveryGiven, DeliveryInv, TypeOK
<1>1. \A k \in Inputs : EndedClean(k)'
  BY <1>0, EndedStays, TurnFields, ActionUpdates DEF AdvanceTurn, stored, LegFacts, KnowsRun,
     WorkLabels, StreamLabels, TerminalTurn, CleanGiven, DeliveryGiven, TypeOK, Current, MoveTurn
<1>2. parked' = parked /\ pc'[e] /= "closeParked"
  BY <1>0 DEF AdvanceTurn, Goto, stored, DeliveryGiven, CleanGiven, TypeOK
<1>3. Current(e) => CleanLeg(e)'
  BY <1>0, <1>2, JobFields, FreshFields, ActionUpdates DEF AdvanceTurn, Goto, stored,
     CleanLeg, LegFacts, LegShape,
     KnowsRun, KnowsTail, RunLabels, DeliveryGiven, CleanGiven, TypeOK, Running
<1> QED BY <1>0, <1>1, <1>2, <1>3, CleanGoesOn

LEMMA RecoverTurnClean ==
    ASSUME CleanGiven, NEW e \in Epochs, RecoverTurn(e)
    PROVE  CleanInv'
<1>0. /\ job[e] \in JobType /\ job[e].input \in Inputs /\ job[e].target \in Inputs
      /\ LegFacts(e) /\ pc[e] \in Label /\ Apart(e) /\ (Current(e) => CleanLeg(e))
  BY LegFields, RecoverTurnDelivers DEF CleanGiven, CleanInv, DeliveryGiven, DeliveryInv, TypeOK
<1>1. \A k \in Inputs : EndedClean(k)'
  BY <1>0, EndedStays, TurnFields, ActionUpdates DEF RecoverTurn, stored, LegFacts, KnowsRun,
     WorkLabels, StreamLabels, TerminalTurn, CleanGiven, DeliveryGiven, TypeOK, Current
<1>2. parked' = parked /\ pc'[e] /= "closeParked"
  BY <1>0 DEF RecoverTurn, Goto, stored, DeliveryGiven, CleanGiven, TypeOK
<1>3. Current(e) => CleanLeg(e)'
  BY <1>0, <1>2, JobFields, FreshFields, ActionUpdates DEF RecoverTurn, Goto, stored,
     CleanLeg, LegFacts, LegShape,
     KnowsRun, KnowsTail, RunLabels, DeliveryGiven, CleanGiven, TypeOK, Running
<1> QED BY <1>0, <1>1, <1>2, <1>3, CleanGoesOn

LEMMA RepairDeliveringClean ==
    ASSUME CleanGiven, NEW e \in Epochs, RepairDelivering(e)
    PROVE  CleanInv'
<1>0. /\ job[e] \in JobType /\ job[e].input \in Inputs /\ job[e].target \in Inputs
      /\ LegFacts(e) /\ pc[e] \in Label /\ Apart(e) /\ (Current(e) => CleanLeg(e))
  BY LegFields, RepairDeliveringDelivers DEF CleanGiven, CleanInv, DeliveryGiven, DeliveryInv,
     TypeOK
<1>1. \A k \in Inputs : EndedClean(k)'
  BY <1>0, EndedStays, TurnFields, ActionUpdates DEF RepairDelivering, stored, LegFacts,
     KnowsRun,
     WorkLabels, StreamLabels, TerminalTurn, CleanGiven, DeliveryGiven, TypeOK, Current
<1>2. parked' = parked /\ pc'[e] /= "closeParked"
  BY <1>0 DEF RepairDelivering, Goto, stored, DeliveryGiven, CleanGiven, TypeOK
<1>3. Current(e) => CleanLeg(e)'
  BY <1>0, <1>2, JobFields, FreshFields, ActionUpdates DEF RepairDelivering, Goto, stored,
     CleanLeg, LegFacts, LegShape,
     KnowsRun, KnowsTail, RunLabels, DeliveryGiven, CleanGiven, TypeOK, Running
<1> QED BY <1>0, <1>1, <1>2, <1>3, CleanGoesOn

LEMMA ClaimActionClean ==
    ASSUME CleanGiven, NEW e \in Epochs, ClaimAction(e)
    PROVE  CleanInv'
<1>0. /\ job[e] \in JobType /\ job[e].input \in Inputs /\ job[e].target \in Inputs
      /\ LegFacts(e) /\ pc[e] \in Label /\ Apart(e) /\ (Current(e) => CleanLeg(e))
  BY LegFields, ClaimActionDelivers DEF CleanGiven, CleanInv, DeliveryGiven, DeliveryInv, TypeOK
<1>1. \A k \in Inputs : EndedClean(k)'
  BY <1>0, EndedStays, TurnFields, ActionUpdates DEF ClaimAction, stored, LegFacts, KnowsRun,
     WorkLabels, StreamLabels, TerminalTurn, CleanGiven, DeliveryGiven, TypeOK, Current
<1>2. parked' = parked /\ pc'[e] /= "closeParked"
  BY <1>0 DEF ClaimAction, Goto, stored, DeliveryGiven, CleanGiven, TypeOK
<1>3. Current(e) => CleanLeg(e)'
  BY <1>0, <1>2, JobFields, FreshFields, ActionUpdates DEF ClaimAction, Goto, stored,
     CleanLeg, LegFacts, LegShape,
     KnowsRun, KnowsTail, RunLabels, DeliveryGiven, CleanGiven, TypeOK, Running
<1> QED BY <1>0, <1>1, <1>2, <1>3, CleanGoesOn

LEMMA CreateActionClean ==
    ASSUME CleanGiven, NEW e \in Epochs, CreateAction(e)
    PROVE  CleanInv'
<1>0. /\ job[e] \in JobType /\ job[e].input \in Inputs /\ job[e].target \in Inputs
      /\ LegFacts(e) /\ pc[e] \in Label /\ Apart(e) /\ (Current(e) => CleanLeg(e))
  BY LegFields, CreateActionDelivers DEF CleanGiven, CleanInv, DeliveryGiven, DeliveryInv,
     TypeOK
<1>1. \A k \in Inputs : EndedClean(k)'
  BY <1>0, EndedStays, TurnFields, ActionUpdates DEF CreateAction, stored, LegFacts, KnowsRun,
     WorkLabels, StreamLabels, TerminalTurn, CleanGiven, DeliveryGiven, TypeOK, Current
<1>2. parked' = parked /\ pc'[e] /= "closeParked"
  BY <1>0 DEF CreateAction, Goto, stored, DeliveryGiven, CleanGiven, TypeOK
<1>3. Current(e) => CleanLeg(e)'
  BY <1>0, <1>2, JobFields, FreshFields, ActionUpdates DEF CreateAction, Goto, stored,
     CleanLeg, LegFacts, LegShape,
     KnowsRun, KnowsTail, RunLabels, DeliveryGiven, CleanGiven, TypeOK, Running
<1> QED BY <1>0, <1>1, <1>2, <1>3, CleanGoesOn

LEMMA RecordAttemptClean ==
    ASSUME CleanGiven, NEW e \in Epochs, RecordAttempt(e)
    PROVE  CleanInv'
<1>0. /\ job[e] \in JobType /\ job[e].input \in Inputs /\ job[e].target \in Inputs
      /\ LegFacts(e) /\ pc[e] \in Label /\ Apart(e) /\ (Current(e) => CleanLeg(e))
  BY LegFields, RecordAttemptDelivers DEF CleanGiven, CleanInv, DeliveryGiven, DeliveryInv,
     TypeOK
<1>1. \A k \in Inputs : EndedClean(k)'
  BY <1>0, EndedStays, TurnFields, ActionUpdates DEF RecordAttempt, stored, LegFacts, KnowsRun,
     WorkLabels, StreamLabels, TerminalTurn, CleanGiven, DeliveryGiven, TypeOK, Current
<1>2. parked' = parked /\ pc'[e] /= "closeParked"
  BY <1>0 DEF RecordAttempt, Goto, stored, DeliveryGiven, CleanGiven, TypeOK
<1>3. Current(e) => CleanLeg(e)'
  BY <1>0, <1>2, JobFields, FreshFields, ActionUpdates DEF RecordAttempt, Goto, stored,
     CleanLeg, LegFacts, LegShape,
     KnowsRun, KnowsTail, RunLabels, DeliveryGiven, CleanGiven, TypeOK, Running
<1> QED BY <1>0, <1>1, <1>2, <1>3, CleanGoesOn

LEMMA RecordCycleClean ==
    ASSUME CleanGiven, NEW e \in Epochs, RecordCycle(e)
    PROVE  CleanInv'
<1>0. /\ job[e] \in JobType /\ job[e].input \in Inputs /\ job[e].target \in Inputs
      /\ LegFacts(e) /\ pc[e] \in Label /\ Apart(e) /\ (Current(e) => CleanLeg(e))
  BY LegFields, RecordCycleDelivers DEF CleanGiven, CleanInv, DeliveryGiven, DeliveryInv, TypeOK
<1>1. \A k \in Inputs : EndedClean(k)'
  <2>1. /\ row' = row /\ asst' = asst /\ action' = action
        /\ \A k \in Inputs : turn'[k] = turn[k] \/ turn'[k] = WithCycle(turn[k])
    BY <1>0 DEF RecordCycle, DeliveryGiven, CleanGiven, TypeOK
  <2>2. \A k \in Inputs : turn'[k].status = turn[k].status
    BY <2>1, TurnFields DEF DeliveryGiven, CleanGiven, TypeOK
  <2> QED BY <2>1, <2>2, EndedStays
<1>2. parked' = parked /\ pc'[e] /= "closeParked"
  BY <1>0 DEF RecordCycle, Goto, stored, DeliveryGiven, CleanGiven, TypeOK
<1>3. Current(e) => CleanLeg(e)'
  BY <1>0, <1>2, JobFields, FreshFields, ActionUpdates DEF RecordCycle, Goto, stored,
     CleanLeg, LegFacts, LegShape,
     KnowsRun, KnowsTail, RunLabels, DeliveryGiven, CleanGiven, TypeOK, Running
<1> QED BY <1>0, <1>1, <1>2, <1>3, CleanGoesOn

LEMMA CallProviderClean ==
    ASSUME CleanGiven, NEW e \in Epochs, CallProvider(e)
    PROVE  CleanInv'
<1>0. /\ job[e] \in JobType /\ job[e].input \in Inputs /\ job[e].target \in Inputs
      /\ LegFacts(e) /\ pc[e] \in Label /\ Apart(e) /\ (Current(e) => CleanLeg(e))
  BY LegFields, CallProviderDelivers DEF CleanGiven, CleanInv, DeliveryGiven, DeliveryInv,
     TypeOK
<1>1. \A k \in Inputs : EndedClean(k)'
  BY <1>0, EndedStays, TurnFields, ActionUpdates DEF CallProvider, stored, LegFacts, KnowsRun,
     WorkLabels, StreamLabels, TerminalTurn, CleanGiven, DeliveryGiven, TypeOK, Current, MoveAction
<1>2. parked' = parked /\ pc'[e] /= "closeParked"
  BY <1>0 DEF CallProvider, Goto, stored, DeliveryGiven, CleanGiven, TypeOK
<1>3. Current(e) => CleanLeg(e)'
  BY <1>0, <1>2, JobFields, FreshFields, ActionUpdates DEF CallProvider, Goto, stored,
     CleanLeg, LegFacts, LegShape,
     KnowsRun, KnowsTail, RunLabels, DeliveryGiven, CleanGiven, TypeOK, Running
<1> QED BY <1>0, <1>1, <1>2, <1>3, CleanGoesOn

LEMMA StartValidationClean ==
    ASSUME CleanGiven, NEW e \in Epochs, StartValidation(e)
    PROVE  CleanInv'
<1>0. /\ job[e] \in JobType /\ job[e].input \in Inputs /\ job[e].target \in Inputs
      /\ LegFacts(e) /\ pc[e] \in Label /\ Apart(e) /\ (Current(e) => CleanLeg(e))
  BY LegFields, StartValidationDelivers DEF CleanGiven, CleanInv, DeliveryGiven, DeliveryInv,
     TypeOK
<1>1. \A k \in Inputs : EndedClean(k)'
  BY <1>0, EndedStays, TurnFields, ActionUpdates DEF StartValidation, stored, LegFacts,
     KnowsRun,
     WorkLabels, StreamLabels, TerminalTurn, CleanGiven, DeliveryGiven, TypeOK, Current, MoveAction
<1>2. parked' = parked /\ pc'[e] /= "closeParked"
  BY <1>0 DEF StartValidation, Goto, stored, DeliveryGiven, CleanGiven, TypeOK
<1>3. Current(e) => CleanLeg(e)'
  BY <1>0, <1>2, JobFields, FreshFields, ActionUpdates DEF StartValidation, Goto, stored,
     CleanLeg, LegFacts, LegShape,
     KnowsRun, KnowsTail, RunLabels, DeliveryGiven, CleanGiven, TypeOK, Running
<1> QED BY <1>0, <1>1, <1>2, <1>3, CleanGoesOn

LEMMA AcceptOutputClean ==
    ASSUME CleanGiven, NEW e \in Epochs, AcceptOutput(e)
    PROVE  CleanInv'
<1>0. /\ job[e] \in JobType /\ job[e].input \in Inputs /\ job[e].target \in Inputs
      /\ LegFacts(e) /\ pc[e] \in Label /\ Apart(e) /\ (Current(e) => CleanLeg(e))
  BY LegFields, AcceptOutputDelivers DEF CleanGiven, CleanInv, DeliveryGiven, DeliveryInv,
     TypeOK
<1>1. \A k \in Inputs : EndedClean(k)'
  BY <1>0, EndedStays, TurnFields, ActionUpdates DEF AcceptOutput, stored, LegFacts, KnowsRun,
     WorkLabels, StreamLabels, TerminalTurn, CleanGiven, DeliveryGiven, TypeOK, Current, MoveAction
<1>2. parked' = parked /\ pc'[e] /= "closeParked"
  BY <1>0 DEF AcceptOutput, Goto, stored, DeliveryGiven, CleanGiven, TypeOK
<1>3. Current(e) => CleanLeg(e)'
  BY <1>0, <1>2, JobFields, FreshFields, ActionUpdates DEF AcceptOutput, Goto, stored,
     CleanLeg, LegFacts, LegShape,
     KnowsRun, KnowsTail, RunLabels, DeliveryGiven, CleanGiven, TypeOK, Running
<1> QED BY <1>0, <1>1, <1>2, <1>3, CleanGoesOn

LEMMA BeginDeliveryClean ==
    ASSUME CleanGiven, NEW e \in Epochs, BeginDelivery(e)
    PROVE  CleanInv'
<1>0. /\ job[e] \in JobType /\ job[e].input \in Inputs /\ job[e].target \in Inputs
      /\ LegFacts(e) /\ pc[e] \in Label /\ Apart(e) /\ (Current(e) => CleanLeg(e))
  BY LegFields, BeginDeliveryDelivers DEF CleanGiven, CleanInv, DeliveryGiven, DeliveryInv,
     TypeOK
<1>1. \A k \in Inputs : EndedClean(k)'
  BY <1>0, EndedStays, TurnFields, ActionUpdates DEF BeginDelivery, stored, LegFacts, KnowsRun,
     WorkLabels, StreamLabels, TerminalTurn, CleanGiven, DeliveryGiven, TypeOK, Current, MoveAction
<1>2. parked' = parked /\ pc'[e] /= "closeParked"
  BY <1>0 DEF BeginDelivery, Goto, stored, DeliveryGiven, CleanGiven, TypeOK
<1>3. Current(e) => CleanLeg(e)'
  BY <1>0, <1>2, JobFields, FreshFields, ActionUpdates DEF BeginDelivery, Goto, stored,
     CleanLeg, LegFacts, LegShape,
     KnowsRun, KnowsTail, RunLabels, DeliveryGiven, CleanGiven, TypeOK, Running
<1> QED BY <1>0, <1>1, <1>2, <1>3, CleanGoesOn

LEMMA RetryActionClean ==
    ASSUME CleanGiven, NEW e \in Epochs, RetryAction(e)
    PROVE  CleanInv'
<1>0. /\ job[e] \in JobType /\ job[e].input \in Inputs /\ job[e].target \in Inputs
      /\ LegFacts(e) /\ pc[e] \in Label /\ Apart(e) /\ (Current(e) => CleanLeg(e))
  BY LegFields, RetryActionDelivers DEF CleanGiven, CleanInv, DeliveryGiven, DeliveryInv, TypeOK
<1>1. \A k \in Inputs : EndedClean(k)'
  BY <1>0, EndedStays, TurnFields, ActionUpdates DEF RetryAction, stored, LegFacts, KnowsRun,
     WorkLabels, StreamLabels, TerminalTurn, CleanGiven, DeliveryGiven, TypeOK, Current, MoveAction
<1>2. parked' = parked /\ pc'[e] /= "closeParked"
  BY <1>0 DEF RetryAction, Goto, stored, DeliveryGiven, CleanGiven, TypeOK
<1>3. Current(e) => CleanLeg(e)'
  BY <1>0, <1>2, JobFields, FreshFields, ActionUpdates DEF RetryAction, Goto, stored,
     CleanLeg, LegFacts, LegShape,
     KnowsRun, KnowsTail, RunLabels, DeliveryGiven, CleanGiven, TypeOK, Running
<1> QED BY <1>0, <1>1, <1>2, <1>3, CleanGoesOn

LEMMA EnsureRequestedClean ==
    ASSUME CleanGiven, NEW e \in Epochs, EnsureRequested(e)
    PROVE  CleanInv'
<1>0. /\ job[e] \in JobType /\ job[e].input \in Inputs /\ job[e].target \in Inputs
      /\ LegFacts(e) /\ pc[e] \in Label /\ Apart(e) /\ (Current(e) => CleanLeg(e))
  BY LegFields, EnsureRequestedDelivers DEF CleanGiven, CleanInv, DeliveryGiven, DeliveryInv,
     TypeOK
<1>a. /\ turn' = turn /\ \A k \in Inputs \ {job[e].input} : action'[k] = action[k]
      /\ Current(e)' => turn[job[e].input].status = "GENERATING"
  BY <1>0 DEF EnsureRequested, MoveAction, LegFacts, KnowsRun, WorkLabels, CleanGiven,
     DeliveryGiven, TypeOK, Current
<1>1. \A k \in Inputs : EndedClean(k)'
  BY <1>0, EndedStays, TurnFields, ActionUpdates, <1>a DEF EnsureRequested, stored, LegFacts,
     KnowsRun,
     WorkLabels, StreamLabels, TerminalTurn, CleanGiven, DeliveryGiven, TypeOK, Current, MoveAction
<1>2. parked' = parked /\ pc'[e] /= "closeParked"
  BY <1>0 DEF EnsureRequested, Goto, stored, DeliveryGiven, CleanGiven, TypeOK
<1>3. Current(e) => CleanLeg(e)'
  <2>1. pc'[e] = "call"
    BY <1>0 DEF EnsureRequested, Goto, DeliveryGiven, CleanGiven, TypeOK
  <2> QED BY <2>1 DEF CleanLeg
<1> QED BY <1>0, <1>1, <1>2, <1>3, CleanGoesOn

LEMMA SettleActionClean ==
    ASSUME CleanGiven, NEW e \in Epochs, SettleAction(e)
    PROVE  CleanInv'
<1>0. /\ job[e] \in JobType /\ job[e].input \in Inputs /\ job[e].target \in Inputs
      /\ LegFacts(e) /\ pc[e] \in Label /\ Apart(e) /\ (Current(e) => CleanLeg(e))
  BY LegFields, SettleActionDelivers DEF CleanGiven, CleanInv, DeliveryGiven, DeliveryInv,
     TypeOK
<1>1. \A k \in Inputs : EndedClean(k)'
  BY <1>0, EndedStays, TurnFields, ActionUpdates DEF SettleAction, stored, LegFacts, KnowsRun,
     WorkLabels, StreamLabels, TerminalTurn, CleanGiven, DeliveryGiven, TypeOK, Current, MoveAction
<1>2. parked' = parked /\ pc'[e] /= "closeParked"
  BY <1>0 DEF SettleAction, Goto, stored, DeliveryGiven, CleanGiven, TypeOK
<1>3. Current(e) => CleanLeg(e)'
  BY <1>0, <1>2, JobFields, FreshFields, ActionUpdates DEF SettleAction, Goto, stored,
     CleanLeg, LegFacts, LegShape,
     KnowsRun, KnowsTail, RunLabels, DeliveryGiven, CleanGiven, TypeOK, Running, MoveAction
<1> QED BY <1>0, <1>1, <1>2, <1>3, CleanGoesOn

LEMMA DeliverTurnClean ==
    ASSUME CleanGiven, NEW e \in Epochs, DeliverTurn(e)
    PROVE  CleanInv'
<1>0. /\ job[e] \in JobType /\ job[e].input \in Inputs /\ job[e].target \in Inputs
      /\ LegFacts(e) /\ pc[e] \in Label /\ Apart(e) /\ (Current(e) => CleanLeg(e))
  BY LegFields, DeliverTurnDelivers DEF CleanGiven, CleanInv, DeliveryGiven, DeliveryInv, TypeOK
<1>1. \A k \in Inputs : EndedClean(k)'
  BY <1>0, EndedStays, TurnFields, ActionUpdates DEF DeliverTurn, stored, LegFacts, KnowsRun,
     WorkLabels, StreamLabels, TerminalTurn, CleanGiven, DeliveryGiven, TypeOK, Current, MoveTurn
<1>2. parked' = parked /\ pc'[e] /= "closeParked"
  BY <1>0 DEF DeliverTurn, Goto, stored, DeliveryGiven, CleanGiven, TypeOK
<1>3. Current(e) => CleanLeg(e)'
  BY <1>0, <1>2, JobFields, FreshFields, ActionUpdates DEF DeliverTurn, Goto, stored,
     CleanLeg, LegFacts, LegShape,
     KnowsRun, KnowsTail, RunLabels, DeliveryGiven, CleanGiven, TypeOK, Running
<1> QED BY <1>0, <1>1, <1>2, <1>3, CleanGoesOn

LEMMA EstimateLostClean ==
    ASSUME CleanGiven, NEW e \in Epochs, EstimateLost(e)
    PROVE  CleanInv'
<1>0. /\ job[e] \in JobType /\ job[e].input \in Inputs /\ job[e].target \in Inputs
      /\ LegFacts(e) /\ pc[e] \in Label /\ Apart(e) /\ (Current(e) => CleanLeg(e))
  BY LegFields, EstimateLostDelivers DEF CleanGiven, CleanInv, DeliveryGiven, DeliveryInv,
     TypeOK
<1>1. \A k \in Inputs : EndedClean(k)'
  BY <1>0, EndedStays, TurnFields, ActionUpdates DEF EstimateLost, stored, LegFacts, KnowsRun,
     WorkLabels, StreamLabels, TerminalTurn, CleanGiven, DeliveryGiven, TypeOK, Current
<1>2. parked' = parked /\ pc'[e] /= "closeParked"
  BY <1>0 DEF EstimateLost, Goto, stored, DeliveryGiven, CleanGiven, TypeOK
<1>3. Current(e) => CleanLeg(e)'
  BY <1>0, <1>2, JobFields, FreshFields, ActionUpdates DEF EstimateLost, Goto, stored,
     CleanLeg, LegFacts, LegShape,
     KnowsRun, KnowsTail, RunLabels, DeliveryGiven, CleanGiven, TypeOK, Running, RepairLabels
<1> QED BY <1>0, <1>1, <1>2, <1>3, CleanGoesOn

LEMMA PreDeliveryGuardClean ==
    ASSUME CleanGiven, NEW e \in Epochs, PreDeliveryGuard(e)
    PROVE  CleanInv'
<1>0. /\ job[e] \in JobType /\ job[e].input \in Inputs /\ job[e].target \in Inputs
      /\ LegFacts(e) /\ pc[e] \in Label /\ Apart(e) /\ (Current(e) => CleanLeg(e))
  BY LegFields, PreDeliveryGuardDelivers DEF CleanGiven, CleanInv, DeliveryGiven, DeliveryInv,
     TypeOK
<1>1. \A k \in Inputs : EndedClean(k)'
  BY <1>0, EndedStays, TurnFields, ActionUpdates DEF PreDeliveryGuard, stored, LegFacts,
     KnowsRun,
     WorkLabels, StreamLabels, TerminalTurn, CleanGiven, DeliveryGiven, TypeOK, Current
<1>2. parked' = parked /\ pc'[e] /= "closeParked"
  BY <1>0 DEF PreDeliveryGuard, Goto, stored, DeliveryGiven, CleanGiven, TypeOK, ToCancelled
<1>3. Current(e) => CleanLeg(e)'
  BY <1>0, <1>2, JobFields, FreshFields, ActionUpdates DEF PreDeliveryGuard, Goto, stored,
     CleanLeg, LegFacts, LegShape,
     KnowsRun, KnowsTail, RunLabels, DeliveryGiven, CleanGiven, TypeOK, Running, ToCancelled
<1> QED BY <1>0, <1>1, <1>2, <1>3, CleanGoesOn

LEMMA TakeInterruptedClean ==
    ASSUME CleanGiven, NEW e \in Epochs, TakeInterrupted(e)
    PROVE  CleanInv'
<1>0. /\ job[e] \in JobType /\ job[e].input \in Inputs /\ job[e].target \in Inputs
      /\ LegFacts(e) /\ pc[e] \in Label /\ Apart(e) /\ (Current(e) => CleanLeg(e))
  BY LegFields, TakeInterruptedDelivers DEF CleanGiven, CleanInv, DeliveryGiven, DeliveryInv,
     TypeOK
<1>1. \A k \in Inputs : EndedClean(k)'
  BY <1>0, EndedStays, TurnFields, ActionUpdates DEF TakeInterrupted, stored, LegFacts,
     KnowsRun,
     WorkLabels, StreamLabels, TerminalTurn, CleanGiven, DeliveryGiven, TypeOK, Current
<1>2. parked' = parked /\ pc'[e] /= "closeParked"
  BY <1>0 DEF TakeInterrupted, Goto, stored, DeliveryGiven, CleanGiven, TypeOK, ToCancelled
<1>3. Current(e) => CleanLeg(e)'
  BY <1>0, <1>2, JobFields, FreshFields, ActionUpdates DEF TakeInterrupted, Goto, stored,
     CleanLeg, LegFacts, LegShape,
     KnowsRun, KnowsTail, RunLabels, DeliveryGiven, CleanGiven, TypeOK, Running, ToCancelled
<1> QED BY <1>0, <1>1, <1>2, <1>3, CleanGoesOn

LEMMA TakeChunkClean ==
    ASSUME CleanGiven, NEW e \in Epochs, TakeChunk(e)
    PROVE  CleanInv'
<1>0. /\ job[e] \in JobType /\ job[e].input \in Inputs /\ job[e].target \in Inputs
      /\ LegFacts(e) /\ pc[e] \in Label /\ Apart(e) /\ (Current(e) => CleanLeg(e))
  BY LegFields, TakeChunkDelivers DEF CleanGiven, CleanInv, DeliveryGiven, DeliveryInv, TypeOK
<1>1. \A k \in Inputs : EndedClean(k)'
  BY <1>0, EndedStays, TurnFields, ActionUpdates DEF TakeChunk, stored, LegFacts, KnowsRun,
     WorkLabels, StreamLabels, TerminalTurn, CleanGiven, DeliveryGiven, TypeOK, Current
<1>2. parked' = parked /\ pc'[e] /= "closeParked"
  BY <1>0 DEF TakeChunk, Goto, stored, DeliveryGiven, CleanGiven, TypeOK
<1>3. Current(e) => CleanLeg(e)'
  BY <1>0, <1>2, JobFields, FreshFields, ActionUpdates DEF TakeChunk, Goto, stored, CleanLeg,
     LegFacts, LegShape,
     KnowsRun, KnowsTail, RunLabels, DeliveryGiven, CleanGiven, TypeOK, Running
<1> QED BY <1>0, <1>1, <1>2, <1>3, CleanGoesOn

LEMMA EndStreamClean ==
    ASSUME CleanGiven, NEW e \in Epochs, EndStream(e)
    PROVE  CleanInv'
<1>0. /\ job[e] \in JobType /\ job[e].input \in Inputs /\ job[e].target \in Inputs
      /\ LegFacts(e) /\ pc[e] \in Label /\ Apart(e) /\ (Current(e) => CleanLeg(e))
  BY LegFields, EndStreamDelivers DEF CleanGiven, CleanInv, DeliveryGiven, DeliveryInv, TypeOK
<1>1. \A k \in Inputs : EndedClean(k)'
  BY <1>0, EndedStays, TurnFields, ActionUpdates DEF EndStream, stored, LegFacts, KnowsRun,
     WorkLabels, StreamLabels, TerminalTurn, CleanGiven, DeliveryGiven, TypeOK, Current
<1>2. parked' = parked /\ pc'[e] /= "closeParked"
  BY <1>0 DEF EndStream, Goto, stored, DeliveryGiven, CleanGiven, TypeOK
<1>3. Current(e) => CleanLeg(e)'
  BY <1>0, <1>2, JobFields, FreshFields, ActionUpdates DEF EndStream, Goto, stored, CleanLeg,
     LegFacts, LegShape,
     KnowsRun, KnowsTail, RunLabels, DeliveryGiven, CleanGiven, TypeOK, Running
<1> QED BY <1>0, <1>1, <1>2, <1>3, CleanGoesOn

LEMMA RefuseChunkClean ==
    ASSUME CleanGiven, NEW e \in Epochs, RefuseChunk(e)
    PROVE  CleanInv'
<1>0. /\ job[e] \in JobType /\ job[e].input \in Inputs /\ job[e].target \in Inputs
      /\ LegFacts(e) /\ pc[e] \in Label /\ Apart(e) /\ (Current(e) => CleanLeg(e))
  BY LegFields, RefuseChunkDelivers DEF CleanGiven, CleanInv, DeliveryGiven, DeliveryInv, TypeOK
<1>1. \A k \in Inputs : EndedClean(k)'
  BY <1>0, EndedStays, TurnFields, ActionUpdates DEF RefuseChunk, stored, LegFacts, KnowsRun,
     WorkLabels, StreamLabels, TerminalTurn, CleanGiven, DeliveryGiven, TypeOK, Current
<1>2. parked' = parked /\ pc'[e] /= "closeParked"
  BY <1>0 DEF RefuseChunk, Goto, stored, DeliveryGiven, CleanGiven, TypeOK
<1>3. Current(e) => CleanLeg(e)'
  BY <1>0, <1>2, JobFields, FreshFields, ActionUpdates DEF RefuseChunk, Goto, stored,
     CleanLeg, LegFacts, LegShape,
     KnowsRun, KnowsTail, RunLabels, DeliveryGiven, CleanGiven, TypeOK, Running
<1> QED BY <1>0, <1>1, <1>2, <1>3, CleanGoesOn

LEMMA EmitChunkClean ==
    ASSUME CleanGiven, NEW e \in Epochs, EmitChunk(e)
    PROVE  CleanInv'
<1>0. /\ job[e] \in JobType /\ job[e].input \in Inputs /\ job[e].target \in Inputs
      /\ LegFacts(e) /\ pc[e] \in Label /\ Apart(e) /\ (Current(e) => CleanLeg(e))
  BY LegFields, EmitChunkDelivers DEF CleanGiven, CleanInv, DeliveryGiven, DeliveryInv, TypeOK
<1>1. \A k \in Inputs : EndedClean(k)'
  BY <1>0, EndedStays, TurnFields, ActionUpdates DEF EmitChunk, stored, LegFacts, KnowsRun,
     WorkLabels, StreamLabels, TerminalTurn, CleanGiven, DeliveryGiven, TypeOK, Current
<1>2. parked' = parked /\ pc'[e] /= "closeParked"
  BY <1>0 DEF EmitChunk, Goto, stored, DeliveryGiven, CleanGiven, TypeOK
<1>3. Current(e) => CleanLeg(e)'
  BY <1>0, <1>2, JobFields, FreshFields, ActionUpdates DEF EmitChunk, Goto, stored, CleanLeg,
     LegFacts, LegShape,
     KnowsRun, KnowsTail, RunLabels, DeliveryGiven, CleanGiven, TypeOK, Running
<1> QED BY <1>0, <1>1, <1>2, <1>3, CleanGoesOn

LEMMA WriteEstimateClean ==
    ASSUME CleanGiven, NEW e \in Epochs, WriteEstimate(e)
    PROVE  CleanInv'
<1>0. /\ job[e] \in JobType /\ job[e].input \in Inputs /\ job[e].target \in Inputs
      /\ LegFacts(e) /\ pc[e] \in Label /\ Apart(e) /\ (Current(e) => CleanLeg(e))
  BY LegFields, WriteEstimateDelivers DEF CleanGiven, CleanInv, DeliveryGiven, DeliveryInv,
     TypeOK
<1>1. \A k \in Inputs : EndedClean(k)'
  BY <1>0, EndedStays, TurnFields, ActionUpdates DEF WriteEstimate, stored, LegFacts, KnowsRun,
     WorkLabels, StreamLabels, TerminalTurn, CleanGiven, DeliveryGiven, TypeOK, Current
<1>2. parked' = parked /\ pc'[e] /= "closeParked"
  BY <1>0 DEF WriteEstimate, Goto, stored, DeliveryGiven, CleanGiven, TypeOK
<1>3. Current(e) => CleanLeg(e)'
  BY <1>0, <1>2, JobFields, FreshFields, ActionUpdates DEF WriteEstimate, Goto, stored,
     CleanLeg, LegFacts, LegShape,
     KnowsRun, KnowsTail, RunLabels, DeliveryGiven, CleanGiven, TypeOK, Running
<1> QED BY <1>0, <1>1, <1>2, <1>3, CleanGoesOn

LEMMA RepairEstimateClean ==
    ASSUME CleanGiven, NEW e \in Epochs, RepairEstimate(e)
    PROVE  CleanInv'
<1>0. /\ job[e] \in JobType /\ job[e].input \in Inputs /\ job[e].target \in Inputs
      /\ LegFacts(e) /\ pc[e] \in Label /\ Apart(e) /\ (Current(e) => CleanLeg(e))
  BY LegFields, RepairEstimateDelivers DEF CleanGiven, CleanInv, DeliveryGiven, DeliveryInv,
     TypeOK
<1>1. \A k \in Inputs : EndedClean(k)'
  BY <1>0, EndedStays, TurnFields, ActionUpdates DEF RepairEstimate, stored, LegFacts, KnowsRun,
     WorkLabels, StreamLabels, TerminalTurn, CleanGiven, DeliveryGiven, TypeOK, Current
<1>2. parked' = parked /\ pc'[e] /= "closeParked"
  BY <1>0 DEF RepairEstimate, Goto, stored, DeliveryGiven, CleanGiven, TypeOK
<1>3. Current(e) => CleanLeg(e)'
  BY <1>0, <1>2, JobFields, FreshFields, ActionUpdates DEF RepairEstimate, Goto, stored,
     CleanLeg, LegFacts, LegShape,
     KnowsRun, KnowsTail, RunLabels, DeliveryGiven, CleanGiven, TypeOK, Running, RepairLabels
<1> QED BY <1>0, <1>1, <1>2, <1>3, CleanGoesOn

LEMMA StartRuntimeClean ==
    ASSUME CleanGiven, NEW e \in Epochs, StartRuntime(e)
    PROVE  CleanInv'
<1>1. \A i \in Inputs : EndedClean(i)'
  BY EndedStays DEF StartRuntime, stored
<1>2. ASSUME NEW f \in Epochs PROVE pc'[f] /= "closeParked" /\ (Current(f)' => CleanLeg(f)')
  BY DEF StartRuntime, Goto, Current, CleanLeg, CleanInv, CleanGiven, DeliveryGiven, TypeOK,
     Epochs
<1> QED BY <1>1, <1>2 DEF StartRuntime, CleanInv, CleanGiven

LEMMA RequestInterruptClean ==
    ASSUME CleanGiven, NEW i \in Inputs, NEW kind \in InterruptKinds,
           RequestInterrupt(i, kind)
    PROVE  CleanInv'
  BY DEF RequestInterrupt, stored, CleanGiven, CleanInv, EndedClean, CleanLeg, Running,
     Current

(* What this system never does.                                            *)
LEMMA NeverClean ==
    ASSUME CleanGiven, NEW e \in Epochs
    PROVE  /\ ~ParkTurn(e) /\ ~CloseParkedClaim(e) /\ ~StreamRaises(e)
           /\ \A i \in Inputs : ~CloseParked(e, i) /\ ~CancelTurn(e, i)
<1>1. LegShape(e)
  BY DEF CleanGiven, DeliveryGiven, DeliveryInv, LegFacts
<1>2. \A i \in Inputs : ~CancelTurn(e, i)
  BY <1>1 DEF CancelTurn, LegShape, CleanGiven, CleanSystem
<1> QED
  BY <1>2 DEF ParkTurn, CloseParkedClaim, StreamRaises, CloseParked, CleanGiven,
     CleanInv, CleanSystem

LEMMA CancelActionClean ==
    ASSUME CleanGiven, NEW e \in Epochs, NEW i \in Inputs, CancelAction(e, i)
    PROVE  CleanInv'
<1>0. Apart(e) /\ row[i] \in RowType /\ row[i].prefix \in Nat /\ job[e] \in JobType
  BY CancelActionDelivers, LegFields, Fields DEF CleanGiven, DeliveryGiven, TypeOK
<1>1. /\ row'[i].prefix = row[i].prefix
      /\ \A k \in Inputs \ {i} : row'[k] = row[k]
  <2>1. LET y == Advanced(row[i], RowOf("CANCELLED", row[i].prefix, TRUE)) IN
        y.prefix = row[i].prefix
    BY AdvancedRow
  <2> QED BY <1>0, <2>1 DEF CancelAction, CleanGiven, DeliveryGiven, TypeOK
<1>2. /\ turn' = turn /\ action' = action /\ asst' = asst /\ parked' = parked
      /\ job'[e].target = i
      /\ pc'[e] \in {"transcribe", "settle"}
      /\ pc'[e] = "settle" => ~(row[i].prefix > 0)
  BY <1>0, JobFields DEF CancelAction, Goto, CleanGiven, DeliveryGiven, TypeOK
<1>3. \A k \in Inputs : EndedClean(k)'
  BY <1>1, <1>2 DEF CleanGiven, CleanInv, EndedClean, Running
<1>4. CleanLeg(e)'
  BY <1>1, <1>2 DEF CleanLeg
<1> QED BY <1>0, <1>2, <1>3, <1>4, CleanGoesOn

LEMMA GiveUpClean ==
    ASSUME CleanGiven, NEW e \in Epochs, GiveUp(e)
    PROVE  CleanInv'
<1> DEFINE i == job[e].input
<1>0. /\ Apart(e) /\ LegFacts(e) /\ i \in Inputs /\ Current(e) /\ job[e] \in JobType
      /\ pc[e] \in {"retry", "verdict"} /\ TurnFacts(i)
  BY GiveUpDelivers, LegFields DEF CleanGiven, DeliveryGiven, DeliveryInv, GiveUp, MoveAction
<1>1. turn[i].status = "GENERATING" /\ row[i].prefix = 0 /\ job[e].target = i
  BY <1>0 DEF LegFacts, LegShape, KnowsRun, WorkLabels, TurnFacts, Untouched, Delivered,
     TerminalTurn
<1>2. /\ turn' = turn /\ row' = row /\ asst' = asst /\ parked' = parked
      /\ action'[i].status = "TERMINAL" /\ pc'[e] = "close" /\ job'[e].target = i
      /\ \A k \in Inputs \ {i} : action'[k] = action[k]
  BY <1>0, <1>1, ActionUpdates, JobFields DEF GiveUp, MoveAction, Goto, CleanGiven,
     DeliveryGiven, TypeOK
<1>3. \A k \in Inputs : EndedClean(k)'
  BY <1>2 DEF CleanGiven, CleanInv, EndedClean, Running
<1>4. CleanLeg(e)'
  BY <1>1, <1>2 DEF CleanLeg, Running
<1> QED BY <1>0, <1>2, <1>3, <1>4, CleanGoesOn

LEMMA CloseTurnClean ==
    ASSUME CleanGiven, NEW e \in Epochs, CloseTurn(e)
    PROVE  CleanInv'
<1> DEFINE k == job[e].target
<1>0. Apart(e) /\ k \in Inputs /\ CleanLeg(e) /\ pc[e] = "close"
  BY CloseTurnDelivers, LegFields DEF CleanGiven, DeliveryGiven, CleanInv, CloseTurn
<1>1. /\ \A i \in Inputs \ {k} : turn'[i] = turn[i]
      /\ action' = action /\ row' = row /\ asst' = asst /\ parked' = parked
  BY <1>0 DEF CloseTurn, MoveTurn, CleanGiven, DeliveryGiven, TypeOK
<1>2. \A i \in Inputs : EndedClean(i)'
  BY <1>0, <1>1 DEF CleanGiven, CleanInv, EndedClean, Running, CleanLeg
<1>3. pc'[e] /= "closeParked" /\ CleanLeg(e)'
  BY LeaveShape DEF CloseTurn, CleanLeg, CleanGiven
<1> QED BY <1>0, <1>1, <1>2, <1>3, CleanGoesOn

LEMMA CommitUserTurnClean ==
    ASSUME CleanGiven, NEW e \in Epochs, CommitUserTurn(e)
    PROVE  CleanInv'
<1>0. Apart(e) /\ job[e].input \in Inputs
  BY CommitUserTurnDelivers, LegFields DEF CleanGiven, DeliveryGiven
<1>1. \A i \in Inputs : EndedClean(i)'
  BY <1>0, EndedStays DEF CommitUserTurn, NewTurn, TerminalTurn, CleanGiven, DeliveryGiven,
     TypeOK
<1>2. parked' = parked /\ pc'[e] /= "closeParked" /\ CleanLeg(e)'
  BY DEF CommitUserTurn, Goto, CleanLeg, CleanGiven, DeliveryGiven, TypeOK
<1> QED BY <1>0, <1>1, <1>2, CleanGoesOn

(* The row writes of a stream: its turn is being delivered.                *)
LEMMA StreamWriteClean ==
    ASSUME CleanGiven, NEW e \in Epochs, OpenRow(e) \/ RecordChunk(e)
    PROVE  CleanInv'
<1> DEFINE i == job[e].input
<1>0. /\ Apart(e) /\ i \in Inputs /\ turn[i].status = "DELIVERING"
  BY OpenRowDelivers, RecordChunkDelivers, LegFields DEF CleanGiven, DeliveryGiven,
     DeliveryInv, LegFacts, KnowsRun, StreamLabels, OpenRow, RecordChunk
<1>1. /\ turn' = turn /\ action' = action /\ asst' = asst /\ parked' = parked
      /\ \A k \in Inputs \ {i} : row'[k] = row[k]
      /\ pc'[e] \in {"guard", "take"}
  BY <1>0 DEF OpenRow, RecordChunk, Goto, CleanGiven, DeliveryGiven, TypeOK
<1>2. \A k \in Inputs : EndedClean(k)'
  BY <1>0, <1>1 DEF CleanGiven, CleanInv, EndedClean, Running, TerminalTurn
<1>3. CleanLeg(e)'
  BY <1>1 DEF CleanLeg
<1> QED BY <1>0, <1>1, <1>2, <1>3, CleanGoesOn

LEMMA FreezeRowClean ==
    ASSUME CleanGiven, NEW e \in Epochs, FreezeRow(e)
    PROVE  CleanInv'
<1> DEFINE i == job[e].target
<1>0. /\ Apart(e) /\ i \in Inputs /\ LegFacts(e) /\ Current(e) /\ pc[e] = "freeze"
      /\ job[e].durable = row[i].prefix /\ row[i].prefix \in Nat
  BY FreezeRowDelivers, LegFields, Fields DEF CleanGiven, CleanInv, CleanLeg, DeliveryGiven,
     DeliveryInv, FreezeRow, TypeOK
<1>1. turn[i].status = "DELIVERING"
  BY <1>0 DEF LegFacts, KnowsTail
<1>2. /\ turn' = turn /\ action' = action /\ asst' = asst /\ parked' = parked /\ job' = job
      /\ \A k \in Inputs \ {i} : row'[k] = row[k]
      /\ pc'[e] \in {"estimate", "settle", "transcribe"}
      /\ pc'[e] = "settle" => ~(job[e].durable > 0)
  BY <1>0 DEF FreezeRow, Goto, CleanGiven, DeliveryGiven, TypeOK
<1>3. row'[i].prefix = row[i].prefix
  <2>1. LET y == Advanced(row[i], RowOf(job[e].word, row[i].prefix, TRUE)) IN
        y.prefix = row[i].prefix
    BY AdvancedRow
  <2> QED BY <1>0, <2>1 DEF FreezeRow, CleanGiven, DeliveryGiven, TypeOK
<1>4. \A k \in Inputs : EndedClean(k)'
  BY <1>1, <1>2 DEF CleanGiven, CleanInv, EndedClean, Running, TerminalTurn
<1>5. CleanLeg(e)'
  BY <1>0, <1>2, <1>3 DEF CleanLeg
<1> QED BY <1>0, <1>2, <1>4, <1>5, CleanGoesOn

(* The transcript grows.                                                   *)
LEMMA TranscriptClean ==
    ASSUME CleanGiven, NEW e \in Epochs, Transcribe(e) \/ RepairText(e)
    PROVE  CleanInv'
<1> DEFINE i == job[e].target
<1>0. /\ Apart(e) /\ i \in Inputs /\ job[e] \in JobType /\ row[i].prefix \in Nat
  BY TranscribeDelivers, RepairTextDelivers, LegFields, Fields DEF CleanGiven,
     DeliveryGiven, TypeOK
<1>1. /\ turn' = turn /\ action' = action /\ row' = row /\ parked' = parked
      /\ job'[e].target = i
      /\ pc'[e] \in {"settle", "repairEstimate"}
  BY <1>0, JobFields DEF Transcribe, RepairText, Goto, CleanGiven, DeliveryGiven, TypeOK
<1>2. /\ \A k \in Inputs : asst[k].present => asst'[k].present
      /\ row[i].prefix > 0 => asst'[i].present
  BY <1>0 DEF Transcribe, RepairText, Canonicalize, AsstOf, CleanGiven, DeliveryGiven, TypeOK
<1>3. \A k \in Inputs : EndedClean(k)'
  BY <1>1, <1>2 DEF CleanGiven, CleanInv, EndedClean, Running
<1>4. CleanLeg(e)'
  BY <1>1, <1>2 DEF CleanLeg
<1> QED BY <1>0, <1>1, <1>3, <1>4, CleanGoesOn

LEMMA CleanStep ==
    ASSUME CleanGiven, [Next]_vars
    PROVE  CleanInv'
<1>1. ASSUME NEW e \in Epochs, LegStep(e) PROVE CleanInv'
  BY <1>1, RecoverTurnClean, RecoveryDoneClean, RepairClaimClean, TranscriptClean,
     RepairEstimateClean, HandoffDoneClean, CommitUserTurnClean, ReplayTerminalClean,
     AdoptTurnClean, RepairDeliveringClean, RefuseDeliveringClean, AdvanceTurnClean,
     NeverClean, RecordCycleClean, ClaimActionClean, CreateActionClean,
     EnsureRequestedClean, RefuseDispatchClean, CallProviderClean, RecordAttemptClean,
     StartValidationClean, AcceptOutputClean, RetryActionClean, GiveUpClean,
     BeginDeliveryClean, DeliverTurnClean, StreamWriteClean, PreDeliveryGuardClean,
     TakeInterruptedClean, TakeChunkClean, EndStreamClean, EmitChunkClean,
     FreezeRowClean, WriteEstimateClean, SettleActionClean, CloseTurnClean, FencedClean,
     CancelActionClean, SkipRequestClean
     DEF LegStep
<1>2. ASSUME NEW e \in Epochs, Failure(e) PROVE CleanInv'
  BY <1>2, LegFaultClean, EstimateLostClean, RefuseChunkClean, NeverClean DEF Failure
<1>3. CASE UNCHANGED vars
  BY <1>3 DEF vars, stored, CleanGiven, CleanInv, EndedClean, CleanLeg, Running, Current
<1> QED
  BY <1>1, <1>2, <1>3, StartRuntimeClean, CrashClean, BeginTurnClean, NeverClean,
     RequestInterruptClean
     DEF Next

LEMMA InitClean == Init => CleanInv
  BY DEF Init, CleanInv, EndedClean, CleanLeg, NoTurn, TerminalTurn, Current, Epochs

LEMMA CleanInvariant ==
    ASSUME CleanSystem
    PROVE  Spec => [](TypeOK /\ LeaseInv /\ StreamInv /\ DeliveryInv /\ CleanInv)
<1>1. Init => CleanInv
  BY InitClean
<1>2. TypeOK /\ LeaseInv /\ StreamInv /\ DeliveryInv /\ CleanInv /\ [Next]_vars => CleanInv'
  BY CleanStep DEF DeliveryGiven, CleanGiven
<1> QED BY <1>1, <1>2, DeliveryInvariant, PTL DEF Spec

(* _cancel_interrupted_delivery and finalize_streamed_delivery: what was   *)
(* durably sent is transcribed before the turn ends, and no action         *)
(* outlives its turn.                                                      *)
THEOREM CancelStaysClean ==
    ASSUME CleanSystem
    PROVE  Spec => []CancelIsClean
<1>1. CleanInv => CancelIsClean
  BY DEF CleanInv, EndedClean, CancelIsClean, SentIsTranscribed,
     NoLiveActionBehindTerminalTurn
<1> QED BY <1>1, CleanInvariant, PTL

LEMMA OnlyTailTranscribes ==
    ASSUME [Next]_vars
    PROVE  asst' = asst \/ \E e \in Epochs : Transcribe(e) \/ RepairText(e)
<1>1. ASSUME NEW e \in Epochs, LegStep(e)
      PROVE  asst' = asst \/ Transcribe(e) \/ RepairText(e)
  BY <1>1 DEF LegStep, stored, RecoverTurn, RecoveryDone, RepairClaim, RepairEstimate,
     HandoffDone, CommitUserTurn, ReplayTerminal, AdoptTurn, RepairDelivering,
     RefuseDelivering, AdvanceTurn, ParkTurn, RecordCycle, CloseParkedClaim,
     ClaimAction, CreateAction, EnsureRequested, RefuseDispatch, CallProvider,
     RecordAttempt, StartValidation, AcceptOutput, RetryAction, GiveUp, BeginDelivery,
     DeliverTurn, OpenRow, PreDeliveryGuard, TakeInterrupted, TakeChunk, EndStream,
     EmitChunk, RecordChunk, FreezeRow, WriteEstimate, SettleAction, CloseTurn, Fenced,
     CancelAction, CancelTurn, SkipRequest
<1>2. ASSUME NEW e \in Epochs, Failure(e) PROVE asst' = asst
  BY <1>2 DEF Failure, stored, LegFault, EstimateLost, RefuseChunk, StreamRaises
<1> QED
  BY <1>1, <1>2 DEF Next, stored, StartRuntime, Crash, BeginTurn, CloseParked,
     RequestInterrupt, vars

(* The transcript of a turn that has ended is frozen: neither a late       *)
(* cancellation nor a repair adds an assistant message to it.              *)
THEOREM TranscriptStaysFrozen ==
    ASSUME CleanSystem
    PROVE  Spec => TranscriptFrozen
<1>1. ASSUME TypeOK /\ LeaseInv /\ StreamInv /\ DeliveryInv /\ CleanInv, [Next]_vars,
             NEW i \in Inputs, turn[i].status \in TerminalTurn
      PROVE  asst'[i] = asst[i]
  <2>1. CASE asst' = asst
    BY <2>1
  <2>2. ASSUME NEW e \in Epochs, Transcribe(e) \/ RepairText(e)
        PROVE  asst'[i] = asst[i]
    <3>1. /\ \A k \in Inputs \ {job[e].target} : asst'[k] = asst[k]
          /\ asst[job[e].target].present => asst' = asst
      BY <1>1, <2>2, LegFields DEF Transcribe, RepairText, Canonicalize, TypeOK
    <3>2. ~(row[job[e].target].prefix > 0) => asst' = asst
      BY <1>1, <2>2 DEF DeliveryInv, LegFacts, KnowsTail, Transcribe, RepairText, Canonicalize
    <3> QED BY <1>1, <3>1, <3>2 DEF CleanInv, EndedClean
  <2> QED BY <1>1, <2>1, <2>2, OnlyTailTranscribes
<1>2. TypeOK /\ LeaseInv /\ StreamInv /\ DeliveryInv /\ CleanInv /\ [Next]_vars =>
        [\A i \in Inputs : turn[i].status \in TerminalTurn => asst'[i] = asst[i]]_vars
  BY <1>1
<1> QED BY <1>2, CleanInvariant, PTL DEF Spec, TranscriptFrozen

----------------------------------------------------------------------------
(* OrderIsKept, first half: the positions of the conversation.             *)

Said    == {i \in Inputs : turn[i].status /= "ABSENT"}
Replied == {i \in Inputs : asst[i].present}
TurnPositions    == {turn[i].seq : i \in Said}
MessagePositions == {turn[i].msg : i \in Said} \cup {asst[i].msg : i \in Replied}

(* A counter is one more than the number of positions it has given out,    *)
(* which are finitely many whatever the number of inputs.                  *)
PositionsInv ==
    /\ IsFiniteSet(Said) /\ IsFiniteSet(Replied)
    /\ TurnPositions = 1..(conv.nextTurn - 1)
    /\ Cardinality(Said) = conv.nextTurn - 1
    /\ MessagePositions = 1..(conv.nextMsg - 1)
    /\ Cardinality(Said) + Cardinality(Replied) = conv.nextMsg - 1

LEMMA PositionsAreDense == PositionsInv => PositionsDense
  BY DEF PositionsInv, PositionsDense, Said, Replied, TurnPositions, MessagePositions

(* A step that begins no turn and writes no transcript.                    *)
LEMMA PositionsStay ==
    ASSUME PositionsInv, conv' = conv, asst' = asst,
           \A i \in Inputs : /\ turn'[i].status = "ABSENT" <=> turn[i].status = "ABSENT"
                             /\ turn'[i].seq = turn[i].seq /\ turn'[i].msg = turn[i].msg
    PROVE  PositionsInv'
<1>1. Said' = Said /\ Replied' = Replied
  BY DEF Said, Replied
<1>2. TurnPositions' = TurnPositions
  BY <1>1 DEF TurnPositions, Said
<1>3. MessagePositions' = MessagePositions
  BY <1>1 DEF MessagePositions, Said
<1> QED BY <1>1, <1>2, <1>3 DEF PositionsInv

LEMMA NextPosition ==
    ASSUME NEW n \in Nat, n >= 1
    PROVE  (1..(n - 1)) \cup {n} = 1..((n + 1) - 1)
  OBVIOUS

LEMMA Counters ==
    ASSUME PositionsInv, TypeOK
    PROVE  /\ conv.nextTurn \in Nat /\ conv.nextTurn >= 1
           /\ conv.nextMsg \in Nat /\ conv.nextMsg >= 1
           /\ Cardinality(Said) \in Nat /\ Cardinality(Replied) \in Nat
<1>1. conv.nextTurn \in Nat /\ conv.nextMsg \in Nat
  BY DEF TypeOK, ConvType
<1>2. Cardinality(Said) \in Nat /\ Cardinality(Replied) \in Nat
  BY FS_CardinalityType DEF PositionsInv
<1> QED BY <1>1, <1>2 DEF PositionsInv

(* commit_user_turn: a turn and a message.                                 *)
LEMMA CommitPositions ==
    ASSUME TypeOK, PositionsInv, NEW e \in Epochs, CommitUserTurn(e)
    PROVE  PositionsInv'
<1> DEFINE i == job[e].input
<1>0. i \in Inputs /\ asst' = asst
  BY LegFields DEF CommitUserTurn
<1>1. CASE turn[i].status /= "ABSENT"
  BY <1>0, <1>1, PositionsStay DEF CommitUserTurn
<1>2. CASE turn[i].status = "ABSENT"
  <2>1. /\ turn'[i] = NewTurn(e, conv) /\ \A k \in Inputs \ {i} : turn'[k] = turn[k]
        /\ conv' = ConvOf(conv.nextTurn + 1, conv.nextMsg + 1)
    BY <1>0, <1>2 DEF CommitUserTurn, TypeOK
  <2>2. /\ turn'[i].status /= "ABSENT" /\ turn'[i].seq = conv.nextTurn
        /\ turn'[i].msg = conv.nextMsg
        /\ conv'.nextTurn = conv.nextTurn + 1 /\ conv'.nextMsg = conv.nextMsg + 1
    BY <2>1 DEF NewTurn, ConvOf
  <2>3. Said' = Said \cup {i} /\ i \notin Said /\ Replied' = Replied
    BY <1>0, <1>2, <2>1, <2>2 DEF Said, Replied
  <2>4. TurnPositions' = TurnPositions \cup {conv.nextTurn}
    <3>1. \A k \in Said : turn'[k] = turn[k]
      BY <2>1, <2>3 DEF Said
    <3> QED BY <2>2, <2>3, <3>1 DEF TurnPositions
  <2>5. MessagePositions' = MessagePositions \cup {conv.nextMsg}
    <3>1. \A k \in Said : turn'[k] = turn[k]
      BY <2>1, <2>3 DEF Said
    <3>2. {turn[k].msg : k \in Said}' = {turn[k].msg : k \in Said} \cup {conv.nextMsg}
      BY <2>2, <2>3, <3>1
    <3>3. {asst[k].msg : k \in Replied}' = {asst[k].msg : k \in Replied}
      BY <1>0, <2>3
    <3> QED BY <3>2, <3>3 DEF MessagePositions
  <2>6. IsFiniteSet(Said') /\ Cardinality(Said') = Cardinality(Said) + 1
    BY <2>3, FS_AddElement DEF PositionsInv
  <2>7. TurnPositions' = 1..(conv'.nextTurn - 1) /\ MessagePositions' = 1..(conv'.nextMsg - 1)
    BY <2>2, <2>4, <2>5, Counters, NextPosition DEF PositionsInv
  <2>8. /\ Cardinality(Said') = conv'.nextTurn - 1
        /\ Cardinality(Said') + Cardinality(Replied) = conv'.nextMsg - 1
    <3>1. /\ Cardinality(Said) = conv.nextTurn - 1
          /\ Cardinality(Said) + Cardinality(Replied) = conv.nextMsg - 1
      BY DEF PositionsInv
    <3> HIDE DEF i
    <3> QED BY <2>2, <2>6, <3>1, Counters
  <2> QED BY <2>3, <2>6, <2>7, <2>8 DEF PositionsInv
<1> QED BY <1>1, <1>2

(* canonicalize_assistant_turn: a message.                                 *)
LEMMA CanonicalPositions ==
    ASSUME TypeOK, PositionsInv, NEW e, NEW i \in Inputs, NEW content, NEW word,
           Canonicalize(e, i, content, word), turn' = turn
    PROVE  PositionsInv'
<1>1. CASE asst[i].present
  BY <1>1, PositionsStay DEF Canonicalize
<1>2. CASE ~asst[i].present
  <2>1. /\ asst'[i] = AsstOf(content, word, conv.nextMsg)
        /\ \A k \in Inputs \ {i} : asst'[k] = asst[k]
        /\ conv' = ConvOf(conv.nextTurn, conv.nextMsg + 1)
    BY <1>2 DEF Canonicalize, TypeOK
  <2>2. /\ asst'[i].present /\ asst'[i].msg = conv.nextMsg
        /\ conv'.nextTurn = conv.nextTurn /\ conv'.nextMsg = conv.nextMsg + 1
    BY <2>1 DEF AsstOf, ConvOf
  <2>3. Replied' = Replied \cup {i} /\ i \notin Replied /\ Said' = Said
    BY <1>2, <2>1, <2>2 DEF Said, Replied
  <2>4. TurnPositions' = TurnPositions
    BY <2>3 DEF TurnPositions
  <2>5. MessagePositions' = MessagePositions \cup {conv.nextMsg}
    <3>1. \A k \in Replied : asst'[k] = asst[k]
      BY <2>1, <2>3 DEF Replied
    <3>2. {asst[k].msg : k \in Replied}' = {asst[k].msg : k \in Replied} \cup {conv.nextMsg}
      BY <2>2, <2>3, <3>1
    <3>3. {turn[k].msg : k \in Said}' = {turn[k].msg : k \in Said}
      BY <2>3
    <3> QED BY <3>2, <3>3 DEF MessagePositions
  <2>6. IsFiniteSet(Replied') /\ Cardinality(Replied') = Cardinality(Replied) + 1
    BY <2>3, FS_AddElement DEF PositionsInv
  <2>7. MessagePositions' = 1..(conv'.nextMsg - 1)
    BY <2>2, <2>5, Counters, NextPosition DEF PositionsInv
  <2>8. Cardinality(Said) + Cardinality(Replied') = conv'.nextMsg - 1
    BY <2>2, <2>6, Counters DEF PositionsInv
  <2> QED BY <2>2, <2>3, <2>4, <2>6, <2>7, <2>8 DEF PositionsInv
<1> QED BY <1>1, <1>2

(* The steps that move a turn: none returns to "ABSENT", none renumbers.   *)
LEMMA MovePositions ==
    ASSUME TypeOK, PositionsInv, NEW i \in Inputs, NEW t,
           turn' = [turn EXCEPT ![i] = t] \/ turn' = turn, conv' = conv, asst' = asst,
           turn[i].status /= "ABSENT",
           \/ \E s \in TurnStatus \ {"ABSENT"} : t = Moved(turn[i], s)
           \/ \E e : t = OwnedBy(turn[i], e)
           \/ t = WithCycle(turn[i])
    PROVE  PositionsInv'
<1>1. t.status /= "ABSENT" /\ t.seq = turn[i].seq /\ t.msg = turn[i].msg
  BY TurnFields DEF TypeOK
<1> QED BY <1>1, PositionsStay DEF TypeOK

LEMMA AdoptPositions ==
    ASSUME TypeOK, PositionsInv, NEW i \in Inputs, NEW e, turn' = Adopted(e, i),
           conv' = conv, asst' = asst
    PROVE  PositionsInv'
  BY MovePositions, PositionsStay DEF Adopted, Live

LEMMA StatusesPositions ==
    ASSUME TypeOK, PositionsInv, NEW i \in Inputs, NEW e, NEW s \in TurnStatus \ {"ABSENT"},
           MoveTurn(e, i, s), conv' = conv, asst' = asst
    PROVE  PositionsInv'
  BY MovePositions DEF MoveTurn, Live

LEMMA PositionsStep ==
    ASSUME TypeOK, PositionsInv, [Next]_vars
    PROVE  PositionsInv'
<1>0. ASSUME turn' = turn, conv' = conv, asst' = asst PROVE PositionsInv'
  BY <1>0, PositionsStay
<1>1. ASSUME NEW e \in Epochs, LegStep(e) PROVE PositionsInv'
  <2>0. job[e].input \in Inputs /\ job[e].target \in Inputs
    BY LegFields
  <2>1. CASE CommitUserTurn(e)
    BY <2>1, CommitPositions
  <2>2. CASE RepairText(e)
    BY <1>0, <2>0, <2>2, CanonicalPositions DEF RepairText
  <2>3. CASE Transcribe(e)
    BY <2>0, <2>3, CanonicalPositions DEF Transcribe
  <2>4. CASE RepairClaim(e) \/ AdoptTurn(e) \/ CloseParkedClaim(e)
    BY <2>0, <2>4, AdoptPositions DEF RepairClaim, AdoptTurn, CloseParkedClaim
  <2>5. CASE \E i \in Inputs : CancelTurn(e, i)
    BY <2>5, StatusesPositions DEF CancelTurn, TurnStatus, TerminalTurn
  <2>6. CASE AdvanceTurn(e)
    BY <2>0, <2>6, StatusesPositions DEF AdvanceTurn, TurnStatus
  <2>7. CASE DeliverTurn(e)
    BY <2>0, <2>7, StatusesPositions DEF DeliverTurn, TurnStatus
  <2>8. CASE CloseTurn(e)
    <3>1. StatusOf(job[e].outcome) \in TurnStatus \ {"ABSENT"}
      BY DEF StatusOf, TurnStatus, TerminalTurn
    <3> QED BY <1>0, <2>0, <2>8, <3>1, StatusesPositions DEF CloseTurn
  <2>9. CASE RecordCycle(e)
    BY <1>0, <2>0, <2>9, MovePositions DEF RecordCycle
  <2>10. CASE turn' = turn /\ conv' = conv /\ asst' = asst
    BY <1>0, <2>10
  <2> QED
    BY <1>1, <2>1, <2>2, <2>3, <2>4, <2>5, <2>6, <2>7, <2>8, <2>9, <2>10
       DEF LegStep, stored, RecoverTurn, RecoveryDone, RepairEstimate, HandoffDone,
       ReplayTerminal, RepairDelivering, RefuseDelivering, ParkTurn, ClaimAction,
       CreateAction, EnsureRequested, RefuseDispatch, CallProvider, RecordAttempt,
       StartValidation, AcceptOutput, RetryAction, GiveUp, BeginDelivery, OpenRow,
       PreDeliveryGuard, TakeInterrupted, TakeChunk, EndStream, EmitChunk, RecordChunk,
       FreezeRow, WriteEstimate, SettleAction, Fenced, CancelAction, SkipRequest
<1>2. ASSUME NEW e \in Epochs, Failure(e) PROVE PositionsInv'
  BY <1>0, <1>2 DEF Failure, stored, LegFault, EstimateLost, RefuseChunk, StreamRaises
<1> QED
  BY <1>0, <1>1, <1>2 DEF Next, stored, StartRuntime, Crash, BeginTurn, CloseParked,
     RequestInterrupt, vars

LEMMA InitPositions == Init => PositionsInv
<1> SUFFICES ASSUME Init PROVE PositionsInv
  OBVIOUS
<1>1. Said = {} /\ Replied = {} /\ TurnPositions = {} /\ MessagePositions = {}
  BY DEF Init, Said, Replied, TurnPositions, MessagePositions, NoTurn, NoAsst
<1>2. conv.nextTurn - 1 = 0 /\ conv.nextMsg - 1 = 0
  BY DEF Init, ConvOf
<1>3. IsFiniteSet({}) /\ Cardinality({}) = 0
  BY FS_EmptySet
<1> QED BY <1>1, <1>2, <1>3 DEF PositionsInv

(* commit_user_turn and canonicalize_assistant_turn: the two counters give *)
(* every turn and every message a position of its own, with no gap,        *)
(* whatever crashes, takeovers, faults and interrupts happen.              *)
THEOREM PositionsStayDense == Spec => []PositionsDense
<1>1. Init => PositionsInv
  BY InitPositions
<1>2. TypeOK /\ PositionsInv /\ [Next]_vars => PositionsInv'
  BY PositionsStep
<1> QED BY <1>1, <1>2, TypeCorrect, PositionsAreDense, PTL DEF Spec

----------------------------------------------------------------------------
(* OrderIsKept, second half: the exposure ceiling.  It is stated for the   *)
(* system in which an estimate sees the whole stream: no write of a leg is *)
(* lost half-way (a lost estimate is derived later from the row alone), no *)
(* record raises after its chunk was released, and nobody cancels the      *)
(* action of a stream (a cancelled row derives its ceiling from the row).  *)
OrderSystem == FaultKinds \subseteq {"refuse"} /\ "action" \notin InterruptKinds

(* What is exposed of a turn is bounded; an action that has ended has left *)
(* an estimate or nothing was shown.                                       *)
CeilingTurn(i) ==
    /\ est[i].present => est[i].max >= HeldLevel(shown[i].count)
    /\ action[i].status = "TERMINAL" => est[i].present \/ shown[i].count = 0

(* The tail counts what was shown until it has written the estimate.       *)
CeilingLeg(e) ==
    LET k == job[e].target IN
    /\ pc[e] = "guard" => job[e].released = 0
    /\ pc[e] \in {"freeze", "estimate"} =>
         /\ job[e].released = shown[k].count
         /\ job[e].word = "CANCELLED" => shown[k].count = 0
    /\ pc[e] \in {"transcribe", "settle"} =>
         OwnDelivery(e, k) /\ (est[k].present \/ shown[k].count = 0)

CeilingInv ==
    /\ \A i \in Inputs : CeilingTurn(i)
    /\ \A e \in Epochs : pc[e] \in StreamLabels => ~est[job[e].input].present
    /\ \A e \in Epochs : job[e].back /= "handoff"
    /\ \A e \in Epochs : Current(e) => CeilingLeg(e)

CeilingGiven == DeliveryGiven /\ CeilingInv /\ OrderSystem

LEMMA CeilingGoesOn ==
    ASSUME CeilingGiven, NEW e \in Epochs, Apart(e),
           \A i \in Inputs : CeilingTurn(i)',
           \A f \in Epochs \ {e} : pc[f] \in StreamLabels => ~est'[job[f].input].present,
           pc'[e] \in StreamLabels => ~est'[job'[e].input].present,
           job'[e].back /= "handoff", Current(e) => CeilingLeg(e)'
    PROVE  CeilingInv'
<1>1. ASSUME NEW f \in Epochs
      PROVE  /\ pc'[f] \in StreamLabels => ~est'[job'[f].input].present
             /\ job'[f].back /= "handoff"
             /\ Current(f)' => CeilingLeg(f)'
  <2>1. CASE f = e
    BY <2>1 DEF Apart, Current
  <2>2. CASE f /= e
    <3>1. pc'[f] = pc[f] /\ job'[f] = job[f] /\ dbEpoch' = dbEpoch
      BY <2>2 DEF Apart
    <3>2. ASSUME Current(f)' PROVE CeilingLeg(f)'
      <4> DEFINE k == job[f].target
      <4>1. /\ stored' = stored /\ CeilingLeg(f) /\ KnowsTail(f) /\ k \in Inputs
        BY <2>2, <3>1, <3>2, LegFields DEF Apart, Current, CeilingGiven, CeilingInv,
           DeliveryGiven, DeliveryInv, LegFacts
      <4>2. pc[f] \in {"freeze", "estimate", "transcribe", "settle"} => OwnDelivery(f, k)
        BY <4>1 DEF CeilingLeg, KnowsTail
      <4>3. pc[f] \in {"freeze", "estimate", "transcribe", "settle"} => shown'[k] = shown[k]
        <5>1. pc[e] = "emit" => OwnDelivery(e, job[e].input)
          BY DEF CeilingGiven, DeliveryGiven, DeliveryInv, LegFacts, InStream, StreamLabels
        <5> QED BY <2>2, <4>1, <4>2, <5>1 DEF Apart, OwnDelivery
      <4> QED BY <3>1, <4>1, <4>3 DEF CeilingLeg, stored, OwnDelivery
    <3> QED BY <2>2, <3>1, <3>2 DEF CeilingGiven, CeilingInv
  <2> QED BY <2>1, <2>2
<1> QED BY <1>1 DEF CeilingInv

(* Steps that show nothing, estimate nothing and end no action.            *)
LEMMA CeilingStays ==
    ASSUME CeilingGiven, NEW e \in Epochs, est' = est, shown' = shown,
           \A i \in Inputs : action'[i].status = "TERMINAL" => action[i].status = "TERMINAL"
    PROVE  /\ \A i \in Inputs : CeilingTurn(i)'
           /\ \A f \in Epochs \ {e} : pc[f] \in StreamLabels => ~est'[job[f].input].present
  BY DEF CeilingGiven, CeilingInv, CeilingTurn

LEMMA LeavingCeiling ==
    ASSUME CeilingGiven, NEW e \in Epochs, Apart(e), Leave(e) \/ Return(e),
           stored' = stored, shown' = shown
    PROVE  CeilingInv'
<1>1. /\ \A i \in Inputs : CeilingTurn(i)'
      /\ \A f \in Epochs \ {e} : pc[f] \in StreamLabels => ~est'[job[f].input].present
  BY CeilingStays DEF stored
<1>2. pc'[e] \in {"idle", "handoff", "recover"} /\ job'[e].back /= "handoff"
  BY LeaveShape DEF CeilingGiven, LegShape
<1>3. CeilingLeg(e)'
  BY <1>2 DEF CeilingLeg
<1> QED BY <1>1, <1>2, <1>3, CeilingGoesOn DEF StreamLabels

LEMMA StartRuntimeCeiling ==
    ASSUME CeilingGiven, NEW e \in Epochs, StartRuntime(e)
    PROVE  CeilingInv'
<1>1. \A i \in Inputs : CeilingTurn(i)'
  BY CeilingStays DEF StartRuntime, stored
<1>2. ASSUME NEW f \in Epochs
      PROVE  /\ pc'[f] \in StreamLabels => ~est'[job'[f].input].present
             /\ job'[f].back /= "handoff"
             /\ Current(f)' => CeilingLeg(f)'
  BY DEF StartRuntime, stored, Goto, Current, CeilingLeg, CeilingInv, CeilingGiven,
     DeliveryGiven, TypeOK, Epochs, StreamLabels
<1> QED BY <1>1, <1>2 DEF CeilingInv

LEMMA RequestInterruptCeiling ==
    ASSUME CeilingGiven, NEW i \in Inputs, NEW kind \in InterruptKinds,
           RequestInterrupt(i, kind)
    PROVE  CeilingInv'
  BY DEF RequestInterrupt, stored, CeilingGiven, CeilingInv, CeilingTurn, CeilingLeg,
     OwnDelivery, Current

(* What this system never does.                                            *)
LEMMA NeverCeiling ==
    ASSUME CeilingGiven, NEW e \in Epochs
    PROVE  /\ ~LegFault(e) /\ ~EstimateLost(e) /\ ~StreamRaises(e) /\ ~TakeInterrupted(e)
           /\ \A i \in Inputs : ~CancelAction(e, i)
           /\ \A i : <<i, "action">> \notin interrupts
<1>1. LegShape(e) /\ interrupts \subseteq Inputs \X InterruptKinds
  BY DEF CeilingGiven, DeliveryGiven, DeliveryInv, LegFacts, TypeOK
<1>2. \A i : <<i, "action">> \notin interrupts
  BY <1>1 DEF CeilingGiven, OrderSystem
<1>3. \A i \in Inputs : ~CancelAction(e, i)
  BY <1>1 DEF CancelAction, LegShape, CeilingGiven, OrderSystem
<1> QED
  BY <1>2, <1>3 DEF LegFault, EstimateLost, StreamRaises, TakeInterrupted, CeilingGiven,
     OrderSystem

LEMMA FencedCeiling ==
    ASSUME CeilingGiven, NEW e \in Epochs, Fenced(e)
    PROVE  CeilingInv'
<1> QED BY LeavingCeiling, FencedDelivers DEF Fenced, stored, CeilingGiven

LEMMA RecoveryDoneCeiling ==
    ASSUME CeilingGiven, NEW e \in Epochs, RecoveryDone(e)
    PROVE  CeilingInv'
<1> QED BY LeavingCeiling, RecoveryDoneDelivers DEF RecoveryDone, stored, CeilingGiven

LEMMA ReplayTerminalCeiling ==
    ASSUME CeilingGiven, NEW e \in Epochs, ReplayTerminal(e)
    PROVE  CeilingInv'
<1> QED BY LeavingCeiling, ReplayTerminalDelivers DEF ReplayTerminal, stored, CeilingGiven

LEMMA RefuseDeliveringCeiling ==
    ASSUME CeilingGiven, NEW e \in Epochs, RefuseDelivering(e)
    PROVE  CeilingInv'
<1> QED BY LeavingCeiling, RefuseDeliveringDelivers DEF RefuseDelivering, stored, CeilingGiven

LEMMA RefuseDispatchCeiling ==
    ASSUME CeilingGiven, NEW e \in Epochs, RefuseDispatch(e)
    PROVE  CeilingInv'
<1> QED BY LeavingCeiling, RefuseDispatchDelivers DEF RefuseDispatch, stored, CeilingGiven

LEMMA ParkTurnCeiling ==
    ASSUME CeilingGiven, NEW e \in Epochs, ParkTurn(e)
    PROVE  CeilingInv'
<1> QED BY LeavingCeiling, ParkTurnDelivers DEF ParkTurn, stored, CeilingGiven

LEMMA CrashCeiling ==
    ASSUME CeilingGiven, NEW e \in Epochs, Crash(e)
    PROVE  CeilingInv'
<1>0. /\ job[e] \in JobType /\ job[e].input \in Inputs /\ job[e].target \in Inputs
      /\ LegFacts(e) /\ pc[e] \in Label /\ Apart(e) /\ (Current(e) => CeilingLeg(e))
      /\ job[e].back /= "handoff"
      /\ pc[e] \in StreamLabels => Streaming(e) /\ ~est[job[e].input].present
  BY LegFields, CrashDelivers DEF CeilingGiven, CeilingInv, DeliveryGiven, DeliveryInv, TypeOK,
     StreamInv, StreamAccounted
<1>1. /\ est' = est /\ shown' = shown
      /\ \A k \in Inputs : action'[k].status = "TERMINAL" => action[k].status = "TERMINAL"
  BY <1>0, ActionUpdates DEF Crash, stored, CeilingGiven, DeliveryGiven, TypeOK
<1>2. /\ job'[e].back /= "handoff"
      /\ pc'[e] \in StreamLabels => ~est'[job'[e].input].present
  BY <1>0, JobFields, FreshFields DEF Crash, Goto, stored, StreamLabels,
     CeilingGiven, DeliveryGiven, TypeOK
<1>3. Current(e) => CeilingLeg(e)'
  BY <1>0, JobFields, FreshFields DEF Crash, Goto, stored, CeilingLeg, LegFacts,
     LegShape, OwnDelivery, CeilingGiven, DeliveryGiven, TypeOK
<1> QED BY <1>0, <1>1, <1>2, <1>3, CeilingStays, CeilingGoesOn

LEMMA BeginTurnCeiling ==
    ASSUME CeilingGiven, NEW e \in Epochs, NEW i \in Inputs, BeginTurn(e, i)
    PROVE  CeilingInv'
<1>0. /\ job[e] \in JobType /\ job[e].input \in Inputs /\ job[e].target \in Inputs
      /\ LegFacts(e) /\ pc[e] \in Label /\ Apart(e) /\ (Current(e) => CeilingLeg(e))
      /\ job[e].back /= "handoff"
      /\ pc[e] \in StreamLabels => Streaming(e) /\ ~est[job[e].input].present
  BY LegFields, BeginTurnDelivers DEF CeilingGiven, CeilingInv, DeliveryGiven, DeliveryInv,
     TypeOK,
     StreamInv, StreamAccounted
<1>1. /\ est' = est /\ shown' = shown
      /\ \A k \in Inputs : action'[k].status = "TERMINAL" => action[k].status = "TERMINAL"
  BY <1>0, ActionUpdates DEF BeginTurn, stored, CeilingGiven, DeliveryGiven, TypeOK
<1>2. /\ job'[e].back /= "handoff"
      /\ pc'[e] \in StreamLabels => ~est'[job'[e].input].present
  BY <1>0, JobFields, FreshFields DEF BeginTurn, Goto, stored, StreamLabels,
     CeilingGiven, DeliveryGiven, TypeOK
<1>3. Current(e) => CeilingLeg(e)'
  BY <1>0, JobFields, FreshFields DEF BeginTurn, Goto, stored, CeilingLeg, LegFacts,
     LegShape, OwnDelivery, CeilingGiven, DeliveryGiven, TypeOK
<1> QED BY <1>0, <1>1, <1>2, <1>3, CeilingStays, CeilingGoesOn

LEMMA CloseParkedCeiling ==
    ASSUME CeilingGiven, NEW e \in Epochs, NEW i \in Inputs, CloseParked(e, i)
    PROVE  CeilingInv'
<1>0. /\ job[e] \in JobType /\ job[e].input \in Inputs /\ job[e].target \in Inputs
      /\ LegFacts(e) /\ pc[e] \in Label /\ Apart(e) /\ (Current(e) => CeilingLeg(e))
      /\ job[e].back /= "handoff"
      /\ pc[e] \in StreamLabels => Streaming(e) /\ ~est[job[e].input].present
  BY LegFields, CloseParkedDelivers DEF CeilingGiven, CeilingInv, DeliveryGiven, DeliveryInv,
     TypeOK,
     StreamInv, StreamAccounted
<1>a. FreshJob(i, i, "idle") \in JobType
  BY FreshType
<1>1. /\ est' = est /\ shown' = shown
      /\ \A k \in Inputs : action'[k].status = "TERMINAL" => action[k].status = "TERMINAL"
  BY <1>0, ActionUpdates DEF CloseParked, stored, CeilingGiven, DeliveryGiven, TypeOK
<1>2. /\ job'[e].back /= "handoff"
      /\ pc'[e] \in StreamLabels => ~est'[job'[e].input].present
  BY <1>0, JobFields, FreshFields, <1>a DEF CloseParked, Goto, stored, StreamLabels,
     CeilingGiven, DeliveryGiven, TypeOK
<1>3. Current(e) => CeilingLeg(e)'
  BY <1>0, JobFields, FreshFields, <1>a DEF CloseParked, Goto, stored, CeilingLeg, LegFacts,
     LegShape, OwnDelivery, CeilingGiven, DeliveryGiven, TypeOK
<1> QED BY <1>0, <1>1, <1>2, <1>3, CeilingStays, CeilingGoesOn

LEMMA SkipRequestCeiling ==
    ASSUME CeilingGiven, NEW e \in Epochs, NEW r \in Inputs \X InterruptKinds, SkipRequest(e, r)
    PROVE  CeilingInv'
<1>0. /\ job[e] \in JobType /\ job[e].input \in Inputs /\ job[e].target \in Inputs
      /\ LegFacts(e) /\ pc[e] \in Label /\ Apart(e) /\ (Current(e) => CeilingLeg(e))
      /\ job[e].back /= "handoff"
      /\ pc[e] \in StreamLabels => Streaming(e) /\ ~est[job[e].input].present
  BY LegFields, SkipRequestDelivers DEF CeilingGiven, CeilingInv, DeliveryGiven, DeliveryInv,
     TypeOK,
     StreamInv, StreamAccounted
<1>1. /\ est' = est /\ shown' = shown
      /\ \A k \in Inputs : action'[k].status = "TERMINAL" => action[k].status = "TERMINAL"
  BY <1>0, ActionUpdates DEF SkipRequest, stored, CeilingGiven, DeliveryGiven, TypeOK
<1>2. /\ job'[e].back /= "handoff"
      /\ pc'[e] \in StreamLabels => ~est'[job'[e].input].present
  BY <1>0, JobFields, FreshFields DEF SkipRequest, Goto, stored, StreamLabels,
     CeilingGiven, DeliveryGiven, TypeOK
<1>3. Current(e) => CeilingLeg(e)'
  BY <1>0, JobFields, FreshFields DEF SkipRequest, Goto, stored, CeilingLeg, LegFacts,
     LegShape, OwnDelivery, CeilingGiven, DeliveryGiven, TypeOK
<1> QED BY <1>0, <1>1, <1>2, <1>3, CeilingStays, CeilingGoesOn

LEMMA CancelTurnCeiling ==
    ASSUME CeilingGiven, NEW e \in Epochs, NEW i \in Inputs, CancelTurn(e, i)
    PROVE  CeilingInv'
<1>0. /\ job[e] \in JobType /\ job[e].input \in Inputs /\ job[e].target \in Inputs
      /\ LegFacts(e) /\ pc[e] \in Label /\ Apart(e) /\ (Current(e) => CeilingLeg(e))
      /\ job[e].back /= "handoff"
      /\ pc[e] \in StreamLabels => Streaming(e) /\ ~est[job[e].input].present
  BY LegFields, CancelTurnDelivers DEF CeilingGiven, CeilingInv, DeliveryGiven, DeliveryInv,
     TypeOK,
     StreamInv, StreamAccounted
<1>1. /\ est' = est /\ shown' = shown
      /\ \A k \in Inputs : action'[k].status = "TERMINAL" => action[k].status = "TERMINAL"
  BY <1>0, ActionUpdates DEF CancelTurn, stored, CeilingGiven, DeliveryGiven, TypeOK
<1>2. /\ job'[e].back /= "handoff"
      /\ pc'[e] \in StreamLabels => ~est'[job'[e].input].present
  BY <1>0, JobFields, FreshFields DEF CancelTurn, Goto, stored, StreamLabels,
     CeilingGiven, DeliveryGiven, TypeOK
<1>3. Current(e) => CeilingLeg(e)'
  BY <1>0, JobFields, FreshFields DEF CancelTurn, Goto, stored, CeilingLeg, LegFacts,
     LegShape, OwnDelivery, CeilingGiven, DeliveryGiven, TypeOK
<1> QED BY <1>0, <1>1, <1>2, <1>3, CeilingStays, CeilingGoesOn

LEMMA HandoffDoneCeiling ==
    ASSUME CeilingGiven, NEW e \in Epochs, HandoffDone(e)
    PROVE  CeilingInv'
<1>0. /\ job[e] \in JobType /\ job[e].input \in Inputs /\ job[e].target \in Inputs
      /\ LegFacts(e) /\ pc[e] \in Label /\ Apart(e) /\ (Current(e) => CeilingLeg(e))
      /\ job[e].back /= "handoff"
      /\ pc[e] \in StreamLabels => Streaming(e) /\ ~est[job[e].input].present
  BY LegFields, HandoffDoneDelivers DEF CeilingGiven, CeilingInv, DeliveryGiven, DeliveryInv,
     TypeOK,
     StreamInv, StreamAccounted
<1>1. /\ est' = est /\ shown' = shown
      /\ \A k \in Inputs : action'[k].status = "TERMINAL" => action[k].status = "TERMINAL"
  BY <1>0, ActionUpdates DEF HandoffDone, stored, CeilingGiven, DeliveryGiven, TypeOK
<1>2. /\ job'[e].back /= "handoff"
      /\ pc'[e] \in StreamLabels => ~est'[job'[e].input].present
  BY <1>0, JobFields, FreshFields DEF HandoffDone, Goto, stored, StreamLabels,
     CeilingGiven, DeliveryGiven, TypeOK
<1>3. Current(e) => CeilingLeg(e)'
  BY <1>0, JobFields, FreshFields DEF HandoffDone, Goto, stored, CeilingLeg, LegFacts,
     LegShape, OwnDelivery, CeilingGiven, DeliveryGiven, TypeOK
<1> QED BY <1>0, <1>1, <1>2, <1>3, CeilingStays, CeilingGoesOn

LEMMA CommitUserTurnCeiling ==
    ASSUME CeilingGiven, NEW e \in Epochs, CommitUserTurn(e)
    PROVE  CeilingInv'
<1>0. /\ job[e] \in JobType /\ job[e].input \in Inputs /\ job[e].target \in Inputs
      /\ LegFacts(e) /\ pc[e] \in Label /\ Apart(e) /\ (Current(e) => CeilingLeg(e))
      /\ job[e].back /= "handoff"
      /\ pc[e] \in StreamLabels => Streaming(e) /\ ~est[job[e].input].present
  BY LegFields, CommitUserTurnDelivers DEF CeilingGiven, CeilingInv, DeliveryGiven,
     DeliveryInv, TypeOK,
     StreamInv, StreamAccounted
<1>1. /\ est' = est /\ shown' = shown
      /\ \A k \in Inputs : action'[k].status = "TERMINAL" => action[k].status = "TERMINAL"
  BY <1>0, ActionUpdates DEF CommitUserTurn, stored, CeilingGiven, DeliveryGiven, TypeOK
<1>2. /\ job'[e].back /= "handoff"
      /\ pc'[e] \in StreamLabels => ~est'[job'[e].input].present
  BY <1>0, JobFields, FreshFields DEF CommitUserTurn, Goto, stored, StreamLabels,
     CeilingGiven, DeliveryGiven, TypeOK
<1>3. Current(e) => CeilingLeg(e)'
  BY <1>0, JobFields, FreshFields DEF CommitUserTurn, Goto, stored, CeilingLeg, LegFacts,
     LegShape, OwnDelivery, CeilingGiven, DeliveryGiven, TypeOK
<1> QED BY <1>0, <1>1, <1>2, <1>3, CeilingStays, CeilingGoesOn

LEMMA AdoptTurnCeiling ==
    ASSUME CeilingGiven, NEW e \in Epochs, AdoptTurn(e)
    PROVE  CeilingInv'
<1>0. /\ job[e] \in JobType /\ job[e].input \in Inputs /\ job[e].target \in Inputs
      /\ LegFacts(e) /\ pc[e] \in Label /\ Apart(e) /\ (Current(e) => CeilingLeg(e))
      /\ job[e].back /= "handoff"
      /\ pc[e] \in StreamLabels => Streaming(e) /\ ~est[job[e].input].present
  BY LegFields, AdoptTurnDelivers DEF CeilingGiven, CeilingInv, DeliveryGiven, DeliveryInv,
     TypeOK,
     StreamInv, StreamAccounted
<1>1. /\ est' = est /\ shown' = shown
      /\ \A k \in Inputs : action'[k].status = "TERMINAL" => action[k].status = "TERMINAL"
  BY <1>0, ActionUpdates DEF AdoptTurn, stored, CeilingGiven, DeliveryGiven, TypeOK
<1>2. /\ job'[e].back /= "handoff"
      /\ pc'[e] \in StreamLabels => ~est'[job'[e].input].present
  BY <1>0, JobFields, FreshFields DEF AdoptTurn, Goto, stored, StreamLabels,
     CeilingGiven, DeliveryGiven, TypeOK
<1>3. Current(e) => CeilingLeg(e)'
  BY <1>0, JobFields, FreshFields DEF AdoptTurn, Goto, stored, CeilingLeg, LegFacts,
     LegShape, OwnDelivery, CeilingGiven, DeliveryGiven, TypeOK
<1> QED BY <1>0, <1>1, <1>2, <1>3, CeilingStays, CeilingGoesOn

LEMMA RepairClaimCeiling ==
    ASSUME CeilingGiven, NEW e \in Epochs, RepairClaim(e)
    PROVE  CeilingInv'
<1>0. /\ job[e] \in JobType /\ job[e].input \in Inputs /\ job[e].target \in Inputs
      /\ LegFacts(e) /\ pc[e] \in Label /\ Apart(e) /\ (Current(e) => CeilingLeg(e))
      /\ job[e].back /= "handoff"
      /\ pc[e] \in StreamLabels => Streaming(e) /\ ~est[job[e].input].present
  BY LegFields, RepairClaimDelivers DEF CeilingGiven, CeilingInv, DeliveryGiven, DeliveryInv,
     TypeOK,
     StreamInv, StreamAccounted
<1>1. /\ est' = est /\ shown' = shown
      /\ \A k \in Inputs : action'[k].status = "TERMINAL" => action[k].status = "TERMINAL"
  BY <1>0, ActionUpdates DEF RepairClaim, stored, CeilingGiven, DeliveryGiven, TypeOK
<1>2. /\ job'[e].back /= "handoff"
      /\ pc'[e] \in StreamLabels => ~est'[job'[e].input].present
  BY <1>0, JobFields, FreshFields DEF RepairClaim, Goto, stored, StreamLabels,
     CeilingGiven, DeliveryGiven, TypeOK
<1>3. Current(e) => CeilingLeg(e)'
  BY <1>0, JobFields, FreshFields DEF RepairClaim, Goto, stored, CeilingLeg, LegFacts,
     LegShape, OwnDelivery, CeilingGiven, DeliveryGiven, TypeOK
<1> QED BY <1>0, <1>1, <1>2, <1>3, CeilingStays, CeilingGoesOn

LEMMA AdvanceTurnCeiling ==
    ASSUME CeilingGiven, NEW e \in Epochs, AdvanceTurn(e)
    PROVE  CeilingInv'
<1>0. /\ job[e] \in JobType /\ job[e].input \in Inputs /\ job[e].target \in Inputs
      /\ LegFacts(e) /\ pc[e] \in Label /\ Apart(e) /\ (Current(e) => CeilingLeg(e))
      /\ job[e].back /= "handoff"
      /\ pc[e] \in StreamLabels => Streaming(e) /\ ~est[job[e].input].present
  BY LegFields, AdvanceTurnDelivers DEF CeilingGiven, CeilingInv, DeliveryGiven, DeliveryInv,
     TypeOK,
     StreamInv, StreamAccounted
<1>1. /\ est' = est /\ shown' = shown
      /\ \A k \in Inputs : action'[k].status = "TERMINAL" => action[k].status = "TERMINAL"
  BY <1>0, ActionUpdates DEF AdvanceTurn, stored, CeilingGiven, DeliveryGiven, TypeOK
<1>2. /\ job'[e].back /= "handoff"
      /\ pc'[e] \in StreamLabels => ~est'[job'[e].input].present
  BY <1>0, JobFields, FreshFields DEF AdvanceTurn, Goto, stored, StreamLabels,
     CeilingGiven, DeliveryGiven, TypeOK
<1>3. Current(e) => CeilingLeg(e)'
  BY <1>0, JobFields, FreshFields DEF AdvanceTurn, Goto, stored, CeilingLeg, LegFacts,
     LegShape, OwnDelivery, CeilingGiven, DeliveryGiven, TypeOK
<1> QED BY <1>0, <1>1, <1>2, <1>3, CeilingStays, CeilingGoesOn

LEMMA RecoverTurnCeiling ==
    ASSUME CeilingGiven, NEW e \in Epochs, RecoverTurn(e)
    PROVE  CeilingInv'
<1>0. /\ job[e] \in JobType /\ job[e].input \in Inputs /\ job[e].target \in Inputs
      /\ LegFacts(e) /\ pc[e] \in Label /\ Apart(e) /\ (Current(e) => CeilingLeg(e))
      /\ job[e].back /= "handoff"
      /\ pc[e] \in StreamLabels => Streaming(e) /\ ~est[job[e].input].present
  BY LegFields, RecoverTurnDelivers DEF CeilingGiven, CeilingInv, DeliveryGiven, DeliveryInv,
     TypeOK,
     StreamInv, StreamAccounted
<1>1. /\ est' = est /\ shown' = shown
      /\ \A k \in Inputs : action'[k].status = "TERMINAL" => action[k].status = "TERMINAL"
  BY <1>0, ActionUpdates DEF RecoverTurn, stored, CeilingGiven, DeliveryGiven, TypeOK
<1>2. /\ job'[e].back /= "handoff"
      /\ pc'[e] \in StreamLabels => ~est'[job'[e].input].present
  BY <1>0, JobFields, FreshFields DEF RecoverTurn, Goto, stored, StreamLabels,
     CeilingGiven, DeliveryGiven, TypeOK
<1>3. Current(e) => CeilingLeg(e)'
  BY <1>0, JobFields, FreshFields DEF RecoverTurn, Goto, stored, CeilingLeg, LegFacts,
     LegShape, OwnDelivery, CeilingGiven, DeliveryGiven, TypeOK
<1> QED BY <1>0, <1>1, <1>2, <1>3, CeilingStays, CeilingGoesOn

LEMMA RepairDeliveringCeiling ==
    ASSUME CeilingGiven, NEW e \in Epochs, RepairDelivering(e)
    PROVE  CeilingInv'
<1>0. /\ job[e] \in JobType /\ job[e].input \in Inputs /\ job[e].target \in Inputs
      /\ LegFacts(e) /\ pc[e] \in Label /\ Apart(e) /\ (Current(e) => CeilingLeg(e))
      /\ job[e].back /= "handoff"
      /\ pc[e] \in StreamLabels => Streaming(e) /\ ~est[job[e].input].present
  BY LegFields, RepairDeliveringDelivers DEF CeilingGiven, CeilingInv, DeliveryGiven,
     DeliveryInv, TypeOK,
     StreamInv, StreamAccounted
<1>1. /\ est' = est /\ shown' = shown
      /\ \A k \in Inputs : action'[k].status = "TERMINAL" => action[k].status = "TERMINAL"
  BY <1>0, ActionUpdates DEF RepairDelivering, stored, CeilingGiven, DeliveryGiven, TypeOK
<1>2. /\ job'[e].back /= "handoff"
      /\ pc'[e] \in StreamLabels => ~est'[job'[e].input].present
  BY <1>0, JobFields, FreshFields DEF RepairDelivering, Goto, stored, StreamLabels,
     CeilingGiven, DeliveryGiven, TypeOK
<1>3. Current(e) => CeilingLeg(e)'
  BY <1>0, JobFields, FreshFields DEF RepairDelivering, Goto, stored, CeilingLeg, LegFacts,
     LegShape, OwnDelivery, CeilingGiven, DeliveryGiven, TypeOK
<1> QED BY <1>0, <1>1, <1>2, <1>3, CeilingStays, CeilingGoesOn

LEMMA RecordCycleCeiling ==
    ASSUME CeilingGiven, NEW e \in Epochs, RecordCycle(e)
    PROVE  CeilingInv'
<1>0. /\ job[e] \in JobType /\ job[e].input \in Inputs /\ job[e].target \in Inputs
      /\ LegFacts(e) /\ pc[e] \in Label /\ Apart(e) /\ (Current(e) => CeilingLeg(e))
      /\ job[e].back /= "handoff"
      /\ pc[e] \in StreamLabels => Streaming(e) /\ ~est[job[e].input].present
  BY LegFields, RecordCycleDelivers DEF CeilingGiven, CeilingInv, DeliveryGiven, DeliveryInv,
     TypeOK,
     StreamInv, StreamAccounted
<1>1. /\ est' = est /\ shown' = shown
      /\ \A k \in Inputs : action'[k].status = "TERMINAL" => action[k].status = "TERMINAL"
  BY <1>0, ActionUpdates DEF RecordCycle, stored, CeilingGiven, DeliveryGiven, TypeOK
<1>2. /\ job'[e].back /= "handoff"
      /\ pc'[e] \in StreamLabels => ~est'[job'[e].input].present
  BY <1>0, JobFields, FreshFields DEF RecordCycle, Goto, stored, StreamLabels,
     CeilingGiven, DeliveryGiven, TypeOK
<1>3. Current(e) => CeilingLeg(e)'
  BY <1>0, JobFields, FreshFields DEF RecordCycle, Goto, stored, CeilingLeg, LegFacts,
     LegShape, OwnDelivery, CeilingGiven, DeliveryGiven, TypeOK
<1> QED BY <1>0, <1>1, <1>2, <1>3, CeilingStays, CeilingGoesOn

LEMMA CloseParkedClaimCeiling ==
    ASSUME CeilingGiven, NEW e \in Epochs, CloseParkedClaim(e)
    PROVE  CeilingInv'
<1>0. /\ job[e] \in JobType /\ job[e].input \in Inputs /\ job[e].target \in Inputs
      /\ LegFacts(e) /\ pc[e] \in Label /\ Apart(e) /\ (Current(e) => CeilingLeg(e))
      /\ job[e].back /= "handoff"
      /\ pc[e] \in StreamLabels => Streaming(e) /\ ~est[job[e].input].present
  BY LegFields, CloseParkedClaimDelivers DEF CeilingGiven, CeilingInv, DeliveryGiven,
     DeliveryInv, TypeOK,
     StreamInv, StreamAccounted
<1>1. /\ est' = est /\ shown' = shown
      /\ \A k \in Inputs : action'[k].status = "TERMINAL" => action[k].status = "TERMINAL"
  BY <1>0, ActionUpdates DEF CloseParkedClaim, stored, CeilingGiven, DeliveryGiven, TypeOK
<1>2. /\ job'[e].back /= "handoff"
      /\ pc'[e] \in StreamLabels => ~est'[job'[e].input].present
  BY <1>0, JobFields, FreshFields DEF CloseParkedClaim, Goto, stored, StreamLabels,
     CeilingGiven, DeliveryGiven, TypeOK
<1>3. Current(e) => CeilingLeg(e)'
  BY <1>0, JobFields, FreshFields DEF CloseParkedClaim, Goto, stored, CeilingLeg, LegFacts,
     LegShape, OwnDelivery, CeilingGiven, DeliveryGiven, TypeOK
<1> QED BY <1>0, <1>1, <1>2, <1>3, CeilingStays, CeilingGoesOn

LEMMA ClaimActionCeiling ==
    ASSUME CeilingGiven, NEW e \in Epochs, ClaimAction(e)
    PROVE  CeilingInv'
<1>0. /\ job[e] \in JobType /\ job[e].input \in Inputs /\ job[e].target \in Inputs
      /\ LegFacts(e) /\ pc[e] \in Label /\ Apart(e) /\ (Current(e) => CeilingLeg(e))
      /\ job[e].back /= "handoff"
      /\ pc[e] \in StreamLabels => Streaming(e) /\ ~est[job[e].input].present
  BY LegFields, ClaimActionDelivers DEF CeilingGiven, CeilingInv, DeliveryGiven, DeliveryInv,
     TypeOK,
     StreamInv, StreamAccounted
<1>1. /\ est' = est /\ shown' = shown
      /\ \A k \in Inputs : action'[k].status = "TERMINAL" => action[k].status = "TERMINAL"
  BY <1>0, ActionUpdates DEF ClaimAction, stored, CeilingGiven, DeliveryGiven, TypeOK, Rearmed
<1>2. /\ job'[e].back /= "handoff"
      /\ pc'[e] \in StreamLabels => ~est'[job'[e].input].present
  BY <1>0, JobFields, FreshFields DEF ClaimAction, Goto, stored, StreamLabels,
     CeilingGiven, DeliveryGiven, TypeOK
<1>3. Current(e) => CeilingLeg(e)'
  BY <1>0, JobFields, FreshFields DEF ClaimAction, Goto, stored, CeilingLeg, LegFacts,
     LegShape, OwnDelivery, CeilingGiven, DeliveryGiven, TypeOK
<1> QED BY <1>0, <1>1, <1>2, <1>3, CeilingStays, CeilingGoesOn

LEMMA CreateActionCeiling ==
    ASSUME CeilingGiven, NEW e \in Epochs, CreateAction(e)
    PROVE  CeilingInv'
<1>0. /\ job[e] \in JobType /\ job[e].input \in Inputs /\ job[e].target \in Inputs
      /\ LegFacts(e) /\ pc[e] \in Label /\ Apart(e) /\ (Current(e) => CeilingLeg(e))
      /\ job[e].back /= "handoff"
      /\ pc[e] \in StreamLabels => Streaming(e) /\ ~est[job[e].input].present
  BY LegFields, CreateActionDelivers DEF CeilingGiven, CeilingInv, DeliveryGiven, DeliveryInv,
     TypeOK,
     StreamInv, StreamAccounted
<1>1. /\ est' = est /\ shown' = shown
      /\ \A k \in Inputs : action'[k].status = "TERMINAL" => action[k].status = "TERMINAL"
  BY <1>0, ActionUpdates DEF CreateAction, stored, CeilingGiven, DeliveryGiven, TypeOK,
     NewAction
<1>2. /\ job'[e].back /= "handoff"
      /\ pc'[e] \in StreamLabels => ~est'[job'[e].input].present
  BY <1>0, JobFields, FreshFields DEF CreateAction, Goto, stored, StreamLabels,
     CeilingGiven, DeliveryGiven, TypeOK
<1>3. Current(e) => CeilingLeg(e)'
  BY <1>0, JobFields, FreshFields DEF CreateAction, Goto, stored, CeilingLeg, LegFacts,
     LegShape, OwnDelivery, CeilingGiven, DeliveryGiven, TypeOK
<1> QED BY <1>0, <1>1, <1>2, <1>3, CeilingStays, CeilingGoesOn

LEMMA RecordAttemptCeiling ==
    ASSUME CeilingGiven, NEW e \in Epochs, RecordAttempt(e)
    PROVE  CeilingInv'
<1>0. /\ job[e] \in JobType /\ job[e].input \in Inputs /\ job[e].target \in Inputs
      /\ LegFacts(e) /\ pc[e] \in Label /\ Apart(e) /\ (Current(e) => CeilingLeg(e))
      /\ job[e].back /= "handoff"
      /\ pc[e] \in StreamLabels => Streaming(e) /\ ~est[job[e].input].present
  BY LegFields, RecordAttemptDelivers DEF CeilingGiven, CeilingInv, DeliveryGiven,
     DeliveryInv, TypeOK,
     StreamInv, StreamAccounted
<1>1. /\ est' = est /\ shown' = shown
      /\ \A k \in Inputs : action'[k].status = "TERMINAL" => action[k].status = "TERMINAL"
  BY <1>0, ActionUpdates DEF RecordAttempt, stored, CeilingGiven, DeliveryGiven, TypeOK
<1>2. /\ job'[e].back /= "handoff"
      /\ pc'[e] \in StreamLabels => ~est'[job'[e].input].present
  BY <1>0, JobFields, FreshFields DEF RecordAttempt, Goto, stored, StreamLabels,
     CeilingGiven, DeliveryGiven, TypeOK
<1>3. Current(e) => CeilingLeg(e)'
  BY <1>0, JobFields, FreshFields DEF RecordAttempt, Goto, stored, CeilingLeg, LegFacts,
     LegShape, OwnDelivery, CeilingGiven, DeliveryGiven, TypeOK
<1> QED BY <1>0, <1>1, <1>2, <1>3, CeilingStays, CeilingGoesOn

LEMMA EnsureRequestedCeiling ==
    ASSUME CeilingGiven, NEW e \in Epochs, EnsureRequested(e)
    PROVE  CeilingInv'
<1>0. /\ job[e] \in JobType /\ job[e].input \in Inputs /\ job[e].target \in Inputs
      /\ LegFacts(e) /\ pc[e] \in Label /\ Apart(e) /\ (Current(e) => CeilingLeg(e))
      /\ job[e].back /= "handoff"
      /\ pc[e] \in StreamLabels => Streaming(e) /\ ~est[job[e].input].present
  BY LegFields, EnsureRequestedDelivers DEF CeilingGiven, CeilingInv, DeliveryGiven,
     DeliveryInv, TypeOK,
     StreamInv, StreamAccounted
<1>1. /\ est' = est /\ shown' = shown
      /\ \A k \in Inputs : action'[k].status = "TERMINAL" => action[k].status = "TERMINAL"
  BY <1>0, ActionUpdates DEF EnsureRequested, stored, CeilingGiven, DeliveryGiven, TypeOK,
     MoveAction
<1>2. /\ job'[e].back /= "handoff"
      /\ pc'[e] \in StreamLabels => ~est'[job'[e].input].present
  BY <1>0, JobFields, FreshFields DEF EnsureRequested, Goto, stored, StreamLabels,
     CeilingGiven, DeliveryGiven, TypeOK
<1>3. Current(e) => CeilingLeg(e)'
  BY <1>0, JobFields, FreshFields DEF EnsureRequested, Goto, stored, CeilingLeg, LegFacts,
     LegShape, OwnDelivery, CeilingGiven, DeliveryGiven, TypeOK
<1> QED BY <1>0, <1>1, <1>2, <1>3, CeilingStays, CeilingGoesOn

LEMMA CallProviderCeiling ==
    ASSUME CeilingGiven, NEW e \in Epochs, CallProvider(e)
    PROVE  CeilingInv'
<1>0. /\ job[e] \in JobType /\ job[e].input \in Inputs /\ job[e].target \in Inputs
      /\ LegFacts(e) /\ pc[e] \in Label /\ Apart(e) /\ (Current(e) => CeilingLeg(e))
      /\ job[e].back /= "handoff"
      /\ pc[e] \in StreamLabels => Streaming(e) /\ ~est[job[e].input].present
  BY LegFields, CallProviderDelivers DEF CeilingGiven, CeilingInv, DeliveryGiven, DeliveryInv,
     TypeOK,
     StreamInv, StreamAccounted
<1>1. /\ est' = est /\ shown' = shown
      /\ \A k \in Inputs : action'[k].status = "TERMINAL" => action[k].status = "TERMINAL"
  BY <1>0, ActionUpdates DEF CallProvider, stored, CeilingGiven, DeliveryGiven, TypeOK,
     MoveAction
<1>2. /\ job'[e].back /= "handoff"
      /\ pc'[e] \in StreamLabels => ~est'[job'[e].input].present
  BY <1>0, JobFields, FreshFields DEF CallProvider, Goto, stored, StreamLabels,
     CeilingGiven, DeliveryGiven, TypeOK
<1>3. Current(e) => CeilingLeg(e)'
  BY <1>0, JobFields, FreshFields DEF CallProvider, Goto, stored, CeilingLeg, LegFacts,
     LegShape, OwnDelivery, CeilingGiven, DeliveryGiven, TypeOK
<1> QED BY <1>0, <1>1, <1>2, <1>3, CeilingStays, CeilingGoesOn

LEMMA StartValidationCeiling ==
    ASSUME CeilingGiven, NEW e \in Epochs, StartValidation(e)
    PROVE  CeilingInv'
<1>0. /\ job[e] \in JobType /\ job[e].input \in Inputs /\ job[e].target \in Inputs
      /\ LegFacts(e) /\ pc[e] \in Label /\ Apart(e) /\ (Current(e) => CeilingLeg(e))
      /\ job[e].back /= "handoff"
      /\ pc[e] \in StreamLabels => Streaming(e) /\ ~est[job[e].input].present
  BY LegFields, StartValidationDelivers DEF CeilingGiven, CeilingInv, DeliveryGiven,
     DeliveryInv, TypeOK,
     StreamInv, StreamAccounted
<1>1. /\ est' = est /\ shown' = shown
      /\ \A k \in Inputs : action'[k].status = "TERMINAL" => action[k].status = "TERMINAL"
  BY <1>0, ActionUpdates DEF StartValidation, stored, CeilingGiven, DeliveryGiven, TypeOK,
     MoveAction
<1>2. /\ job'[e].back /= "handoff"
      /\ pc'[e] \in StreamLabels => ~est'[job'[e].input].present
  BY <1>0, JobFields, FreshFields DEF StartValidation, Goto, stored, StreamLabels,
     CeilingGiven, DeliveryGiven, TypeOK
<1>3. Current(e) => CeilingLeg(e)'
  BY <1>0, JobFields, FreshFields DEF StartValidation, Goto, stored, CeilingLeg, LegFacts,
     LegShape, OwnDelivery, CeilingGiven, DeliveryGiven, TypeOK
<1> QED BY <1>0, <1>1, <1>2, <1>3, CeilingStays, CeilingGoesOn

LEMMA AcceptOutputCeiling ==
    ASSUME CeilingGiven, NEW e \in Epochs, AcceptOutput(e)
    PROVE  CeilingInv'
<1>0. /\ job[e] \in JobType /\ job[e].input \in Inputs /\ job[e].target \in Inputs
      /\ LegFacts(e) /\ pc[e] \in Label /\ Apart(e) /\ (Current(e) => CeilingLeg(e))
      /\ job[e].back /= "handoff"
      /\ pc[e] \in StreamLabels => Streaming(e) /\ ~est[job[e].input].present
  BY LegFields, AcceptOutputDelivers DEF CeilingGiven, CeilingInv, DeliveryGiven, DeliveryInv,
     TypeOK,
     StreamInv, StreamAccounted
<1>1. /\ est' = est /\ shown' = shown
      /\ \A k \in Inputs : action'[k].status = "TERMINAL" => action[k].status = "TERMINAL"
  BY <1>0, ActionUpdates DEF AcceptOutput, stored, CeilingGiven, DeliveryGiven, TypeOK,
     MoveAction
<1>2. /\ job'[e].back /= "handoff"
      /\ pc'[e] \in StreamLabels => ~est'[job'[e].input].present
  BY <1>0, JobFields, FreshFields DEF AcceptOutput, Goto, stored, StreamLabels,
     CeilingGiven, DeliveryGiven, TypeOK
<1>3. Current(e) => CeilingLeg(e)'
  BY <1>0, JobFields, FreshFields DEF AcceptOutput, Goto, stored, CeilingLeg, LegFacts,
     LegShape, OwnDelivery, CeilingGiven, DeliveryGiven, TypeOK
<1> QED BY <1>0, <1>1, <1>2, <1>3, CeilingStays, CeilingGoesOn

LEMMA BeginDeliveryCeiling ==
    ASSUME CeilingGiven, NEW e \in Epochs, BeginDelivery(e)
    PROVE  CeilingInv'
<1>0. /\ job[e] \in JobType /\ job[e].input \in Inputs /\ job[e].target \in Inputs
      /\ LegFacts(e) /\ pc[e] \in Label /\ Apart(e) /\ (Current(e) => CeilingLeg(e))
      /\ job[e].back /= "handoff"
      /\ pc[e] \in StreamLabels => Streaming(e) /\ ~est[job[e].input].present
  BY LegFields, BeginDeliveryDelivers DEF CeilingGiven, CeilingInv, DeliveryGiven,
     DeliveryInv, TypeOK,
     StreamInv, StreamAccounted
<1>1. /\ est' = est /\ shown' = shown
      /\ \A k \in Inputs : action'[k].status = "TERMINAL" => action[k].status = "TERMINAL"
  BY <1>0, ActionUpdates DEF BeginDelivery, stored, CeilingGiven, DeliveryGiven, TypeOK,
     MoveAction
<1>2. /\ job'[e].back /= "handoff"
      /\ pc'[e] \in StreamLabels => ~est'[job'[e].input].present
  BY <1>0, JobFields, FreshFields DEF BeginDelivery, Goto, stored, StreamLabels,
     CeilingGiven, DeliveryGiven, TypeOK
<1>3. Current(e) => CeilingLeg(e)'
  BY <1>0, JobFields, FreshFields DEF BeginDelivery, Goto, stored, CeilingLeg, LegFacts,
     LegShape, OwnDelivery, CeilingGiven, DeliveryGiven, TypeOK
<1> QED BY <1>0, <1>1, <1>2, <1>3, CeilingStays, CeilingGoesOn

LEMMA RetryActionCeiling ==
    ASSUME CeilingGiven, NEW e \in Epochs, RetryAction(e)
    PROVE  CeilingInv'
<1>0. /\ job[e] \in JobType /\ job[e].input \in Inputs /\ job[e].target \in Inputs
      /\ LegFacts(e) /\ pc[e] \in Label /\ Apart(e) /\ (Current(e) => CeilingLeg(e))
      /\ job[e].back /= "handoff"
      /\ pc[e] \in StreamLabels => Streaming(e) /\ ~est[job[e].input].present
  BY LegFields, RetryActionDelivers DEF CeilingGiven, CeilingInv, DeliveryGiven, DeliveryInv,
     TypeOK,
     StreamInv, StreamAccounted
<1>1. /\ est' = est /\ shown' = shown
      /\ \A k \in Inputs : action'[k].status = "TERMINAL" => action[k].status = "TERMINAL"
  BY <1>0, ActionUpdates DEF RetryAction, stored, CeilingGiven, DeliveryGiven, TypeOK,
     MoveAction
<1>2. /\ job'[e].back /= "handoff"
      /\ pc'[e] \in StreamLabels => ~est'[job'[e].input].present
  BY <1>0, JobFields, FreshFields DEF RetryAction, Goto, stored, StreamLabels,
     CeilingGiven, DeliveryGiven, TypeOK
<1>3. Current(e) => CeilingLeg(e)'
  BY <1>0, JobFields, FreshFields DEF RetryAction, Goto, stored, CeilingLeg, LegFacts,
     LegShape, OwnDelivery, CeilingGiven, DeliveryGiven, TypeOK
<1> QED BY <1>0, <1>1, <1>2, <1>3, CeilingStays, CeilingGoesOn

LEMMA RepairTextCeiling ==
    ASSUME CeilingGiven, NEW e \in Epochs, RepairText(e)
    PROVE  CeilingInv'
<1>0. /\ job[e] \in JobType /\ job[e].input \in Inputs /\ job[e].target \in Inputs
      /\ LegFacts(e) /\ pc[e] \in Label /\ Apart(e) /\ (Current(e) => CeilingLeg(e))
      /\ job[e].back /= "handoff"
      /\ pc[e] \in StreamLabels => Streaming(e) /\ ~est[job[e].input].present
  BY LegFields, RepairTextDelivers DEF CeilingGiven, CeilingInv, DeliveryGiven, DeliveryInv,
     TypeOK,
     StreamInv, StreamAccounted
<1>1. /\ est' = est /\ shown' = shown
      /\ \A k \in Inputs : action'[k].status = "TERMINAL" => action[k].status = "TERMINAL"
  BY <1>0, ActionUpdates DEF RepairText, stored, CeilingGiven, DeliveryGiven, TypeOK
<1>2. /\ job'[e].back /= "handoff"
      /\ pc'[e] \in StreamLabels => ~est'[job'[e].input].present
  BY <1>0, JobFields, FreshFields DEF RepairText, Goto, stored, StreamLabels,
     CeilingGiven, DeliveryGiven, TypeOK
<1>3. Current(e) => CeilingLeg(e)'
  BY <1>0, JobFields, FreshFields DEF RepairText, Goto, stored, CeilingLeg, LegFacts,
     LegShape, OwnDelivery, CeilingGiven, DeliveryGiven, TypeOK
<1> QED BY <1>0, <1>1, <1>2, <1>3, CeilingStays, CeilingGoesOn

LEMMA TranscribeCeiling ==
    ASSUME CeilingGiven, NEW e \in Epochs, Transcribe(e)
    PROVE  CeilingInv'
<1>0. /\ job[e] \in JobType /\ job[e].input \in Inputs /\ job[e].target \in Inputs
      /\ LegFacts(e) /\ pc[e] \in Label /\ Apart(e) /\ (Current(e) => CeilingLeg(e))
      /\ job[e].back /= "handoff"
      /\ pc[e] \in StreamLabels => Streaming(e) /\ ~est[job[e].input].present
  BY LegFields, TranscribeDelivers DEF CeilingGiven, CeilingInv, DeliveryGiven, DeliveryInv,
     TypeOK,
     StreamInv, StreamAccounted
<1>1. /\ est' = est /\ shown' = shown
      /\ \A k \in Inputs : action'[k].status = "TERMINAL" => action[k].status = "TERMINAL"
  BY <1>0, ActionUpdates DEF Transcribe, stored, CeilingGiven, DeliveryGiven, TypeOK
<1>2. /\ job'[e].back /= "handoff"
      /\ pc'[e] \in StreamLabels => ~est'[job'[e].input].present
  BY <1>0, JobFields, FreshFields DEF Transcribe, Goto, stored, StreamLabels,
     CeilingGiven, DeliveryGiven, TypeOK
<1>3. Current(e) => CeilingLeg(e)'
  BY <1>0, JobFields, FreshFields DEF Transcribe, Goto, stored, CeilingLeg, LegFacts,
     LegShape, OwnDelivery, CeilingGiven, DeliveryGiven, TypeOK, Canonicalize
<1> QED BY <1>0, <1>1, <1>2, <1>3, CeilingStays, CeilingGoesOn

LEMMA OpenRowCeiling ==
    ASSUME CeilingGiven, NEW e \in Epochs, OpenRow(e)
    PROVE  CeilingInv'
<1>0. /\ Apart(e) /\ LegShape(e) /\ pc[e] = "open" /\ job[e].released = 0
      /\ ~est[job[e].input].present /\ job[e].back /= "handoff"
  BY OpenRowDelivers DEF CeilingGiven, CeilingInv, DeliveryGiven, DeliveryInv, LegFacts,
     LegShape, OpenRow, StreamLabels
<1>1. /\ est' = est /\ shown' = shown /\ action' = action /\ job' = job /\ pc'[e] = "guard"
  BY DEF OpenRow, Goto, CeilingGiven, DeliveryGiven, TypeOK
<1>2. CeilingLeg(e)'
  BY <1>0, <1>1 DEF CeilingLeg
<1> QED BY <1>0, <1>1, <1>2, CeilingStays, CeilingGoesOn

(* The steps between the chunks of a stream.                               *)
LEMMA StreamCeiling ==
    ASSUME CeilingGiven, NEW e \in Epochs,
           PreDeliveryGuard(e) \/ TakeChunk(e) \/ EndStream(e) \/ RecordChunk(e)
             \/ RefuseChunk(e)
    PROVE  CeilingInv'
<1> DEFINE i == job[e].input
<1>0. /\ i \in Inputs /\ job[e] \in JobType /\ pc[e] \in StreamLabels
      /\ Apart(e) /\ LegShape(e) /\ shown[i].count = job[e].released
      /\ ~est[i].present /\ job[e].back /= "handoff" /\ job[e].target = i
      /\ Current(e) => CeilingLeg(e)
  BY LegFields, PreDeliveryGuardDelivers, TakeChunkDelivers, EndStreamDelivers,
     RecordChunkDelivers, RefuseChunkDelivers DEF CeilingGiven, CeilingInv, DeliveryGiven,
     DeliveryInv, LegFacts, LegShape, StreamInv, StreamAccounted, Streaming, StreamLabels,
     PreDeliveryGuard, TakeChunk, EndStream, RecordChunk, RefuseChunk
<1>1. /\ est' = est /\ shown' = shown /\ action' = action
      /\ pc'[e] \in {"take", "emit", "freeze"}
      /\ job'[e].input = i /\ job'[e].target = i /\ job'[e].back = job[e].back
      /\ pc'[e] = "freeze" => job'[e].released = job[e].released
      /\ pc'[e] = "freeze" => job'[e].word /= "CANCELLED" \/ (pc[e] = "guard" /\ Current(e))
  <2>1. CASE PreDeliveryGuard(e)
    BY <1>0, <2>1, JobFields DEF PreDeliveryGuard, ToCancelled, stored, Goto, CeilingGiven,
       DeliveryGiven, TypeOK
  <2>2. CASE TakeChunk(e)
    BY <1>0, <2>2 DEF TakeChunk, stored, Goto, CeilingGiven, DeliveryGiven, TypeOK
  <2>3. CASE EndStream(e)
    <3>1. PICK clean \in BOOLEAN, o \in {"REPLIED_FULL", "REPLIED_PARTIAL", "FAILED_USER_VISIBLE"} :
            job' = [job EXCEPT ![e] = Ending(job[e], RunWord(job[e].released, clean), o)]
      BY <2>3 DEF EndStream
    <3>2. RunWord(job[e].released, clean) /= "CANCELLED"
      BY DEF RunWord
    <3> QED
      BY <1>0, <2>3, <3>1, <3>2, JobFields DEF EndStream, stored, Goto, CeilingGiven,
         DeliveryGiven, TypeOK
  <2>4. CASE RecordChunk(e)
    BY <1>0, <2>4, JobFields DEF RecordChunk, Goto, CeilingGiven, DeliveryGiven, TypeOK
  <2>5. CASE RefuseChunk(e)
    BY <1>0, <2>5, JobFields DEF RefuseChunk, stored, Goto, CeilingGiven, DeliveryGiven, TypeOK
  <2> QED BY <2>1, <2>2, <2>3, <2>4, <2>5
<1>2. Current(e) => CeilingLeg(e)'
  BY <1>0, <1>1 DEF CeilingLeg
<1> QED BY <1>0, <1>1, <1>2, CeilingStays, CeilingGoesOn

LEMMA EmitChunkCeiling ==
    ASSUME CeilingGiven, NEW e \in Epochs, EmitChunk(e)
    PROVE  CeilingInv'
<1> DEFINE i == job[e].input
<1>0. /\ i \in Inputs /\ job[e] \in JobType /\ Apart(e) /\ ~est[i].present
      /\ job[e].back /= "handoff" /\ action[i].status = "DELIVERING"
  BY LegFields, EmitChunkDelivers DEF CeilingGiven, CeilingInv, DeliveryGiven, DeliveryInv,
     LegFacts, InStream, OwnDelivery, EmitChunk, StreamLabels
<1>1. /\ est' = est /\ action' = action /\ pc'[e] = "record"
      /\ job'[e].input = i /\ job'[e].back = job[e].back
      /\ \A k \in Inputs \ {i} : shown'[k] = shown[k]
  BY <1>0, JobFields DEF EmitChunk, stored, Goto, CeilingGiven, DeliveryGiven, TypeOK
<1>2. \A k \in Inputs : CeilingTurn(k)'
  BY <1>0, <1>1 DEF CeilingGiven, CeilingInv, CeilingTurn
<1>3. CeilingLeg(e)'
  BY <1>1 DEF CeilingLeg
<1>4. \A f \in Epochs \ {e} : pc[f] \in StreamLabels => ~est'[job[f].input].present
  BY <1>1 DEF CeilingGiven, CeilingInv
<1> QED BY <1>0, <1>1, <1>2, <1>3, <1>4, CeilingGoesOn

LEMMA GiveUpCeiling ==
    ASSUME CeilingGiven, NEW e \in Epochs, GiveUp(e)
    PROVE  CeilingInv'
<1> DEFINE i == job[e].input
<1>0. /\ i \in Inputs /\ job[e] \in JobType /\ Apart(e) /\ job[e].back /= "handoff"
      /\ LegFacts(e) /\ Current(e) /\ pc[e] \in {"retry", "verdict"}
  BY LegFields, GiveUpDelivers DEF CeilingGiven, CeilingInv, DeliveryGiven, DeliveryInv,
     GiveUp, MoveAction
<1>1. shown[i].count = 0
  BY <1>0 DEF LegFacts, KnowsRun, WorkLabels, CeilingGiven, DeliveryGiven, StreamInv,
     SilentBeforeDelivery, Delivered, TerminalTurn
<1>2. /\ est' = est /\ shown' = shown /\ pc'[e] = "close" /\ job'[e].back = job[e].back
      /\ \A k \in Inputs \ {i} : action'[k] = action[k]
  BY <1>0, JobFields DEF GiveUp, MoveAction, Goto, CeilingGiven, DeliveryGiven, TypeOK
<1>3. \A k \in Inputs : CeilingTurn(k)'
  BY <1>1, <1>2 DEF CeilingGiven, CeilingInv, CeilingTurn
<1>4. CeilingLeg(e)' /\ pc'[e] \notin StreamLabels
  BY <1>2 DEF CeilingLeg, StreamLabels
<1>5. \A f \in Epochs \ {e} : pc[f] \in StreamLabels => ~est'[job[f].input].present
  BY <1>2 DEF CeilingGiven, CeilingInv
<1> QED BY <1>0, <1>2, <1>3, <1>4, <1>5, CeilingGoesOn

LEMMA FreezeRowCeiling ==
    ASSUME CeilingGiven, NEW e \in Epochs, FreezeRow(e)
    PROVE  CeilingInv'
<1> DEFINE i == job[e].target
<1>0. /\ i \in Inputs /\ Apart(e) /\ job[e].back /= "handoff" /\ CeilingLeg(e)
      /\ OwnDelivery(e, i) /\ pc[e] = "freeze"
  BY LegFields, FreezeRowDelivers DEF CeilingGiven, CeilingInv, DeliveryGiven, DeliveryInv,
     LegFacts, KnowsTail, FreezeRow
<1>1. /\ est' = est /\ shown' = shown /\ action' = action /\ job' = job
      /\ pc'[e] \in {"estimate", "transcribe", "settle"}
      /\ pc'[e] /= "estimate" => job[e].word = "CANCELLED"
  BY <1>0 DEF FreezeRow, Goto, CeilingGiven, DeliveryGiven, TypeOK
<1>2. CeilingLeg(e)'
  BY <1>0, <1>1 DEF CeilingLeg, OwnDelivery
<1> QED BY <1>0, <1>1, <1>2, CeilingStays, CeilingGoesOn DEF StreamLabels

LEMMA CeilingOfSent ==
    ASSUME NEW word, NEW prefix, NEW n \in Nat
    PROVE  /\ EstimateOf(word, prefix, TextLength, n).present
           /\ EstimateOf(word, prefix, TextLength, n).max >= HeldLevel(n)
<1>1. EstimateOf(word, prefix, TextLength, n).max
        = Higher(SentLevel(word, prefix, TextLength),
                 ReleasedLevel(word, prefix, TextLength, n))
  BY DEF EstimateOf
<1>2. EstimateOf(word, prefix, TextLength, n).present
  BY DEF EstimateOf
<1>3. SentLevel(word, prefix, TextLength) \in {0, 1, 2}
  BY DEF SentLevel, None, Partial, Full
<1>4. n = 0 => HeldLevel(n) = 0
  BY DEF HeldLevel, None
<1>5. n /= 0 => ReleasedLevel(word, prefix, TextLength, n) = HeldLevel(n)
                /\ HeldLevel(n) \in {1, 2}
  BY TextLengthAssumption DEF ReleasedLevel, HeldLevel, Partial, Full
<1>6. n = 0 => ReleasedLevel(word, prefix, TextLength, n) \in {0, 1, 2}
  BY <1>3 DEF ReleasedLevel
<1> QED BY <1>1, <1>2, <1>3, <1>4, <1>5, <1>6 DEF Higher

LEMMA WriteEstimateCeiling ==
    ASSUME CeilingGiven, NEW e \in Epochs, WriteEstimate(e)
    PROVE  CeilingInv'
<1> DEFINE i == job[e].target
<1>0. /\ i \in Inputs /\ Apart(e) /\ job[e].back /= "handoff" /\ CeilingLeg(e)
      /\ OwnDelivery(e, i) /\ pc[e] = "estimate" /\ job[e].released \in Nat
  BY LegFields, Fields, WriteEstimateDelivers DEF CeilingGiven, CeilingInv, DeliveryGiven,
     DeliveryInv, LegFacts, KnowsTail, WriteEstimate
<1>1. /\ shown' = shown /\ action' = action /\ job' = job
      /\ pc'[e] \in {"transcribe", "settle"}
      /\ \A k \in Inputs \ {i} : est'[k] = est[k]
      /\ est'[i] = IF est[i].present THEN est[i]
                   ELSE EstimateOf(job[e].word, job[e].durable, TextLength, job[e].released)
  BY <1>0 DEF WriteEstimate, Goto, CeilingGiven, DeliveryGiven, TypeOK
<1>2. est'[i].present /\ est'[i].max >= HeldLevel(shown[i].count)
  BY <1>0, <1>1, CeilingOfSent DEF CeilingLeg, CeilingGiven, CeilingInv, CeilingTurn
<1>3. \A k \in Inputs : CeilingTurn(k)'
  BY <1>1, <1>2 DEF CeilingGiven, CeilingInv, CeilingTurn
<1>4. CeilingLeg(e)'
  BY <1>0, <1>1, <1>2 DEF CeilingLeg, OwnDelivery
<1>5. \A f \in Epochs \ {e} : pc[f] \in StreamLabels => ~est'[job[f].input].present
  BY <1>0, <1>1, LegFields DEF CeilingGiven, CeilingInv, DeliveryGiven, DeliveryInv, LegFacts,
     InStream, OwnDelivery
<1> QED BY <1>0, <1>1, <1>3, <1>4, <1>5, CeilingGoesOn DEF StreamLabels

LEMMA RepairEstimateCeiling ==
    ASSUME CeilingGiven, NEW e \in Epochs, RepairEstimate(e)
    PROVE  CeilingInv'
<1> DEFINE i == job[e].target
<1>0. /\ i \in Inputs /\ Apart(e) /\ job[e].back /= "handoff"
      /\ action[i].status = "TERMINAL" /\ pc[e] = "repairEstimate"
  BY LegFields, RepairEstimateDelivers DEF CeilingGiven, CeilingInv, DeliveryGiven,
     DeliveryInv, LegFacts, KnowsTail, RepairLabels, RepairEstimate
<1>1. /\ shown' = shown /\ action' = action /\ job' = job /\ pc'[e] = "close"
      /\ \A k \in Inputs \ {i} : est'[k] = est[k]
      /\ \/ est'[i] = est[i]
         \/ ~est[i].present /\ est'[i] = EstimateOf(row[i].word, row[i].prefix, -1, -1)
  BY <1>0 DEF RepairEstimate, Goto, CeilingGiven, DeliveryGiven, TypeOK
<1>2. CeilingTurn(i)'
  <2>1. CASE est'[i] = est[i]
    BY <1>0, <1>1, <2>1 DEF CeilingGiven, CeilingInv, CeilingTurn
  <2>2. CASE ~est[i].present /\ est'[i] = EstimateOf(row[i].word, row[i].prefix, -1, -1)
    <3>1. shown[i].count = 0
      BY <1>0, <2>2 DEF CeilingGiven, CeilingInv, CeilingTurn
    <3>2. est'[i].max \in {0, 1, 2} /\ HeldLevel(0) = 0
      BY <2>2 DEF EstimateOf, Higher, SentLevel, ReleasedLevel, HeldLevel, None, Partial, Full
    <3>3. est'[i].max >= HeldLevel(shown'[i].count)
      BY <1>1, <3>1, <3>2
    <3> QED BY <1>1, <3>1, <3>3 DEF CeilingTurn
  <2> QED BY <1>1, <2>1, <2>2
<1>3. \A k \in Inputs : CeilingTurn(k)'
  BY <1>1, <1>2 DEF CeilingGiven, CeilingInv, CeilingTurn
<1>4. CeilingLeg(e)' /\ pc'[e] \notin StreamLabels
  BY <1>1 DEF CeilingLeg, StreamLabels
<1>5. \A f \in Epochs \ {e} : pc[f] \in StreamLabels => ~est'[job[f].input].present
  BY <1>0, <1>1, LegFields DEF CeilingGiven, CeilingInv, DeliveryGiven, DeliveryInv, LegFacts,
     InStream, OwnDelivery
<1> QED BY <1>0, <1>1, <1>3, <1>4, <1>5, CeilingGoesOn

LEMMA SettleActionCeiling ==
    ASSUME CeilingGiven, NEW e \in Epochs, SettleAction(e)
    PROVE  CeilingInv'
<1> DEFINE i == job[e].target
<1>0. /\ i \in Inputs /\ Apart(e) /\ job[e].back /= "handoff" /\ CeilingLeg(e)
      /\ pc[e] = "settle"
  BY LegFields, SettleActionDelivers DEF CeilingGiven, CeilingInv, DeliveryGiven,
     SettleAction, MoveAction
<1>1. /\ shown' = shown /\ est' = est /\ job' = job /\ pc'[e] = "close"
      /\ \A k \in Inputs \ {i} : action'[k] = action[k]
  BY <1>0 DEF SettleAction, MoveAction, Goto, CeilingGiven, DeliveryGiven, TypeOK
<1>2. \A k \in Inputs : CeilingTurn(k)'
  BY <1>0, <1>1 DEF CeilingLeg, CeilingGiven, CeilingInv, CeilingTurn
<1>3. CeilingLeg(e)' /\ pc'[e] \notin StreamLabels
  BY <1>1 DEF CeilingLeg, StreamLabels
<1>4. \A f \in Epochs \ {e} : pc[f] \in StreamLabels => ~est'[job[f].input].present
  BY <1>1 DEF CeilingGiven, CeilingInv
<1> QED BY <1>0, <1>1, <1>2, <1>3, <1>4, CeilingGoesOn

LEMMA DeliverTurnCeiling ==
    ASSUME CeilingGiven, NEW e \in Epochs, DeliverTurn(e)
    PROVE  CeilingInv'
<1> DEFINE i == job[e].input
<1>0. /\ i \in Inputs /\ Apart(e) /\ job[e].back /= "handoff" /\ TurnFacts(i)
      /\ turn[i].status = "GENERATING"
  BY LegFields, DeliverTurnDelivers DEF CeilingGiven, CeilingInv, DeliveryGiven,
     DeliveryInv, DeliverTurn
<1>1. /\ shown' = shown /\ est' = est /\ job' = job /\ pc'[e] = "open" /\ action' = action
  BY <1>0 DEF DeliverTurn, Goto, CeilingGiven, DeliveryGiven, TypeOK
<1>2. ~est[i].present
  BY <1>0 DEF TurnFacts, Untouched, Delivered, TerminalTurn
<1>3. CeilingLeg(e)'
  BY <1>1 DEF CeilingLeg
<1> QED BY <1>0, <1>1, <1>2, <1>3, CeilingStays, CeilingGoesOn

LEMMA CloseTurnCeiling ==
    ASSUME CeilingGiven, NEW e \in Epochs, CloseTurn(e)
    PROVE  CeilingInv'
<1>0. Apart(e)
  BY CloseTurnDelivers DEF CeilingGiven
<1>1. est' = est /\ shown' = shown /\ action' = action
  BY DEF CloseTurn
<1>2. pc'[e] \in {"idle", "handoff", "recover"} /\ job'[e].back /= "handoff"
  BY LeaveShape DEF CloseTurn, CeilingGiven, LegShape
<1>3. CeilingLeg(e)'
  BY <1>2 DEF CeilingLeg
<1> QED BY <1>0, <1>1, <1>2, <1>3, CeilingStays, CeilingGoesOn DEF StreamLabels

LEMMA CeilingStep ==
    ASSUME CeilingGiven, [Next]_vars
    PROVE  CeilingInv'
<1>1. ASSUME NEW e \in Epochs, LegStep(e) PROVE CeilingInv'
  BY <1>1, RecoverTurnCeiling, RecoveryDoneCeiling, RepairClaimCeiling,
     RepairTextCeiling, RepairEstimateCeiling, HandoffDoneCeiling,
     CommitUserTurnCeiling, ReplayTerminalCeiling, AdoptTurnCeiling,
     RepairDeliveringCeiling, RefuseDeliveringCeiling, AdvanceTurnCeiling,
     ParkTurnCeiling, RecordCycleCeiling, CloseParkedClaimCeiling, ClaimActionCeiling,
     CreateActionCeiling, EnsureRequestedCeiling, RefuseDispatchCeiling,
     CallProviderCeiling, RecordAttemptCeiling, StartValidationCeiling,
     AcceptOutputCeiling, RetryActionCeiling, GiveUpCeiling, BeginDeliveryCeiling,
     DeliverTurnCeiling, OpenRowCeiling, StreamCeiling, NeverCeiling, EmitChunkCeiling,
     FreezeRowCeiling, WriteEstimateCeiling, TranscribeCeiling, SettleActionCeiling,
     CloseTurnCeiling, FencedCeiling, CancelTurnCeiling, SkipRequestCeiling
     DEF LegStep
<1>2. ASSUME NEW e \in Epochs, Failure(e) PROVE CeilingInv'
  BY <1>2, NeverCeiling, StreamCeiling DEF Failure
<1>3. CASE UNCHANGED vars
  BY <1>3 DEF vars, stored, CeilingGiven, CeilingInv, CeilingTurn, CeilingLeg,
     OwnDelivery, Current
<1> QED
  BY <1>1, <1>2, <1>3, StartRuntimeCeiling, CrashCeiling, BeginTurnCeiling,
     CloseParkedCeiling, RequestInterruptCeiling
     DEF Next

LEMMA InitCeiling == Init => CeilingInv
<1> SUFFICES ASSUME Init PROVE CeilingInv
  OBVIOUS
<1>1. \A e \in Epochs : job[e].back /= "handoff" /\ ~Current(e)
  BY FreshFields DEF Init, Current, Epochs
<1>2. \A i \in Inputs : CeilingTurn(i)
  BY DEF Init, CeilingTurn, NoEstimate, NoShow, NoAction
<1> QED BY <1>1, <1>2 DEF Init, CeilingInv, StreamLabels

LEMMA CeilingInvariant ==
    ASSUME OrderSystem
    PROVE  Spec => [](TypeOK /\ LeaseInv /\ StreamInv /\ DeliveryInv /\ CeilingInv)
<1>1. Init => CeilingInv
  BY InitCeiling
<1>2. TypeOK /\ LeaseInv /\ StreamInv /\ DeliveryInv /\ CeilingInv /\ [Next]_vars => CeilingInv'
  BY CeilingStep DEF DeliveryGiven, CeilingGiven
<1> QED BY <1>1, <1>2, DeliveryInvariant, PTL DEF Spec

(* record_initial_exposure_estimate with commit_user_turn and              *)
(* canonicalize_assistant_turn: positions have no gap and no repeat, and   *)
(* as long as the tail of a stream sees all that was sent, the estimate is *)
(* never smaller than what the client may hold, through crashes,           *)
(* takeovers, refused records, parked and cancelled turns.                 *)
THEOREM OrderStaysKept ==
    ASSUME OrderSystem
    PROVE  Spec => []OrderIsKept
<1>1. CeilingInv => CeilingCoversShown
  BY DEF CeilingInv, CeilingTurn, CeilingCoversShown
<1> QED BY <1>1, CeilingInvariant, PositionsStayDense, PTL DEF OrderIsKept
=============================================================================
