--------------------------- MODULE RenderAcksProofs ---------------------------
(***************************************************************************)
(* Theorems about RenderAcks, for any number of concurrent handlers and    *)
(* any reply length.                                                       *)
(***************************************************************************)
EXTENDS RenderAcks, TLAPS

RequestType == [phase : Phase, ack : Acks \cup {NoAck}, read : RowType]

(* What is known of the value of an estimate row, wherever a handler holds *)
(* a copy of it.                                                           *)
SoundValue(v) ==
    /\ v.level <= v.max
    /\ v.confirmed \in {None, v.max}
    /\ v.level /= None => facts.durable > 0
    /\ v.certainty = 2 => v.level /= None
    /\ v.confirmed /= None => v.certainty = 2

(* `old` is an earlier content of the row than `new`.                      *)
Earlier(old, new) ==
    /\ new.value.present
    /\ new.value.level = old.value.level /\ new.value.max = old.value.max
    /\ old.value.certainty <= new.value.certainty
    /\ old.value.confirmed <= new.value.confirmed

Confirmed(row) ==
    row.value.level /= None => row.value.confirmed = row.value.max

(* The reason an estimate row names: a durable acknowledgment, and a final *)
(* one if something is confirmed.                                          *)
Grounded(row) ==
    /\ row.value.confirmed /= None => row.by.final /\ row.by \in acks
    /\ row.value.certainty = 2 => row.by \in acks

EstimateInv == SoundValue(est.value) /\ Grounded(est)

RequestInv(h) ==
    /\ req[h].phase \in {"read", "refine"} => req[h].ack \in acks
    /\ req[h].phase = "refine" =>
         /\ req[h].read.value.present /\ req[h].read.value.level /= None
         /\ SoundValue(req[h].read.value) /\ Grounded(req[h].read)
         /\ Earlier(req[h].read, est)
    /\ req[h].phase \in {"refined", "current"} =>
         est.value.present /\ (req[h].ack.final => Confirmed(est))
    /\ req[h].phase = "lowered" => ~req[h].ack.final

AckInv == EstimateInv /\ \A h \in Handlers : RequestInv(h)

----------------------------------------------------------------------------
(* Estimates and rows.                                                     *)

LEMMA EstimateOfType ==
    ASSUME NEW w, NEW p, NEW l, NEW r
    PROVE  EstimateOf(w, p, l, r) \in EstimateType
  BY DEF EstimateOf, EstimateType, Higher, SentLevel, ReleasedLevel, Exposure,
         None, Partial, Full

LEMMA RowFields ==
    ASSUME NEW x \in RowType
    PROVE  /\ x.value \in EstimateType /\ x.by \in Acks \cup {NoAck}
           /\ x.value.present \in BOOLEAN /\ x.value.certainty \in 0..2
           /\ x.value.level \in Exposure /\ x.value.max \in Exposure
           /\ x.value.confirmed \in Exposure
  BY DEF RowType, EstimateType

LEMMA RowIsTyped ==
    ASSUME NEW v \in EstimateType, NEW a \in Acks \cup {NoAck}
    PROVE  /\ Row(v, a) \in RowType
           /\ Row(v, a).value = v /\ Row(v, a).by = a
  BY DEF Row, RowType

(* The initial estimate of a send: at most sent, nothing confirmed.        *)
LEMMA InitialIsSound ==
    ASSUME NEW f \in LegalFacts
    PROVE  LET v == EstimateOf(f.word, f.durable, f.length, f.released) IN
           /\ v.present /\ v.certainty = 1 /\ v.confirmed = None
           /\ v.level <= v.max
           /\ v.level /= None => f.durable > 0
  BY TextLengthAssumption
     DEF LegalFacts, Facts, EstimateOf, Higher, SentLevel, ReleasedLevel,
         Exposure, None, Partial, Full

(* What refine_with_ack does to a sound row.                               *)
LEMMA RefinedEffect ==
    ASSUME NEW x \in RowType, NEW a \in Acks \cup {NoAck}
    PROVE  LET y == Refined(x, a) IN
           /\ y \in RowType
           /\ y.value.present = x.value.present
           /\ y.value.level = x.value.level /\ y.value.max = x.value.max
           /\ y = x \/ /\ y.by = a /\ y.value.certainty = 2
                       /\ x.value.level /= None
                       /\ y.value.confirmed =
                            IF a.final THEN Higher(x.value.confirmed, x.value.max)
                            ELSE x.value.confirmed
           /\ x.value.level /= None => y.value.certainty = 2
           /\ x.value.certainty = 2 /\ ~a.final => y = x
           /\ (y = x /\ a.final /\ x.value.level /= None) =>
                x.value.confirmed = Higher(x.value.confirmed, x.value.max)
<1> DEFINE v == x.value
           c == IF a.final THEN Higher(v.confirmed, v.max) ELSE v.confirmed
           w == [v EXCEPT !.certainty = 2, !.confirmed = c]
<1>1. v \in EstimateType /\ c \in Exposure
  BY RowFields DEF Higher
<1>2. /\ w \in EstimateType /\ w.present = v.present /\ w.level = v.level
      /\ w.max = v.max /\ w.certainty = 2 /\ w.confirmed = c
  <2>1. PICK k \in 0..2 : k = 2
    OBVIOUS
  <2>2. [v EXCEPT !.certainty = k, !.confirmed = c] \in EstimateType
    <3> HIDE DEF c, v
    <3> QED BY <1>1 DEF EstimateType
  <2> HIDE DEF c, v
  <2> QED BY <1>1, <2>1, <2>2 DEF EstimateType
<1>3. Row(w, a) \in RowType /\ Row(w, a).value = w /\ Row(w, a).by = a
  <2> HIDE DEF w
  <2> QED BY <1>2, RowIsTyped
<1>4. Refined(x, a) = IF v.level = None \/ (v.certainty = 2 /\ c = v.confirmed)
                      THEN x ELSE Row(w, a)
  BY DEF Refined
<1>5. CASE v.level = None \/ (v.certainty = 2 /\ c = v.confirmed)
  BY <1>4, <1>5
<1>6. CASE ~(v.level = None \/ (v.certainty = 2 /\ c = v.confirmed))
  <2>1. Refined(x, a) = Row(w, a)
    BY <1>4, <1>6
  <2> HIDE DEF w, c
  <2>2. Row(w, a) = x => c = v.confirmed
    BY <1>2, <1>3
  <2> QED BY <1>2, <1>3, <1>6, <2>1, <2>2 DEF c
<1> QED BY <1>5, <1>6

LEMMA RequestFields ==
    ASSUME NEW q \in RequestType
    PROVE  q.phase \in Phase /\ q.ack \in Acks \cup {NoAck} /\ q.read \in RowType
  BY DEF RequestType

LEMMA NoRowType == NoRow \in RowType /\ NoRow.value = NoEstimate
<1>1. NoEstimate \in EstimateType
  BY DEF NoEstimate, EstimateType, Exposure, None, Partial, Full
<1> QED BY <1>1, RowIsTyped DEF NoRow

LEMMA NoRequestType == NoRequest \in RequestType
  BY NoRowType DEF NoRequest, RequestType, Phase

----------------------------------------------------------------------------
(* Type correctness.                                                       *)

LEMMA InitType == Init => TypeOK
  BY NoRowType, NoRequestType DEF Init, TypeOK, RequestType

LEMMA TypeStep == TypeOK /\ [Next]_vars => TypeOK'
<1> SUFFICES ASSUME TypeOK, [Next]_vars PROVE TypeOK'
  OBVIOUS
<1>0. req \in [Handlers -> RequestType]
  BY DEF TypeOK, RequestType
<1> USE DEF TypeOK
<1>1. CASE WriteInitial
  BY <1>1, EstimateOfType, RowIsTyped DEF WriteInitial
<1>2. ASSUME NEW h \in Handlers, NEW ack \in Acks, AppendAck(h, ack)
      PROVE  TypeOK'
  <2>1. [NoRequest EXCEPT !.phase = "read", !.ack = ack] \in RequestType
    BY NoRequestType DEF RequestType, Phase
  <2> QED BY <1>0, <1>2, <2>1 DEF AppendAck, RequestType
<1>3. ASSUME NEW h \in Handlers, NEW ack \in Acks, RefuseAck(h, ack)
      PROVE  TypeOK'
  <2>1. [NoRequest EXCEPT !.phase = "refused", !.ack = ack] \in RequestType
    BY NoRequestType DEF RequestType, Phase, Finished
  <2> QED BY <1>0, <1>3, <2>1 DEF RefuseAck, RequestType
<1>4. ASSUME NEW h \in Handlers, ReadEstimate(h)
      PROVE  TypeOK'
  <2>1. ASSUME NEW p \in {"unrefined", "current", "refine"}
        PROVE  [req[h] EXCEPT !.read = est, !.phase = p] \in RequestType
    BY <1>0 DEF RequestType, Phase, Finished
  <2>2. req' \in [Handlers -> RequestType]
    BY <1>0, <1>4, <2>1 DEF ReadEstimate
  <2> QED BY <1>4, <2>2 DEF ReadEstimate, RequestType
<1>5. ASSUME NEW h \in Handlers, RefineEstimate(h)
      PROVE  TypeOK'
  <2>1. Refined(req[h].read, req[h].ack) \in RowType
    BY <1>0, RequestFields, RefinedEffect
  <2>2. ASSUME NEW p \in {"refined", "lowered"}
        PROVE  [req[h] EXCEPT !.phase = p] \in RequestType
    BY <1>0 DEF RequestType, Phase, Finished
  <2>3. req' \in [Handlers -> RequestType]
    BY <1>0, <1>5, <2>2 DEF RefineEstimate
  <2> QED BY <1>5, <2>1, <2>3 DEF RefineEstimate, RequestType
<1>6. ASSUME NEW h \in Handlers, RefinementFails(h)
      PROVE  TypeOK'
  <2>1. [req[h] EXCEPT !.phase = "noted"] \in RequestType
    BY <1>0 DEF RequestType, Phase, Finished
  <2> QED BY <1>0, <1>6, <2>1 DEF RefinementFails, RequestType
<1>7. ASSUME NEW h \in Handlers, Answer(h)
      PROVE  TypeOK'
  BY <1>0, <1>7, NoRequestType DEF Answer, RequestType
<1>8. CASE UNCHANGED vars
  BY <1>8 DEF vars
<1> QED BY <1>1, <1>2, <1>3, <1>4, <1>5, <1>6, <1>7, <1>8 DEF Next

(* The estimate row, the acknowledgments and the requests of              *)
(* accept_render_ack keep their types.                                     *)
THEOREM TypeCorrect == Spec => []TypeOK
<1> QED BY InitType, TypeStep, PTL DEF Spec

----------------------------------------------------------------------------
(* The inductive invariant.  A handler's copy of the row is an earlier     *)
(* content of the row, so what it submits can only be refused for a final  *)
(* acknowledgment that came in between, never instead of one.              *)

(* What every step does to the row.                                        *)
Grows == est.value.present => Earlier(est, est')

LEMMA RequestStable ==
    ASSUME TypeOK, EstimateInv, TypeOK', EstimateInv', Grows,
           facts' = facts, acks \subseteq acks',
           NEW g \in Handlers, RequestInv(g), req'[g] = req[g]
    PROVE  RequestInv(g)'
<1> DEFINE q == req[g]
<1>1. q.read \in RowType /\ est \in RowType /\ est' \in RowType
  BY RequestFields DEF TypeOK, RequestType
<1>2. q.phase = "refine" => SoundValue(q.read.value)' /\ Grounded(q.read)'
  BY DEF RequestInv, SoundValue, Grounded
<1>3. q.phase = "refine" => Earlier(q.read, est')
  BY <1>1, RowFields DEF RequestInv, Grows, Earlier, Exposure, None, Partial, Full
<1>4. est.value.present /\ Confirmed(est) => est'.value.present /\ Confirmed(est')
  BY <1>1, RowFields
     DEF Grows, Earlier, Confirmed, EstimateInv, SoundValue, Exposure, None,
         Partial, Full
<1>5. q.phase \in {"read", "refine"} => q.ack \in acks'
  BY DEF RequestInv
<1>6. q.phase = "refine" => q.read.value.present /\ q.read.value.level /= None
  BY DEF RequestInv
<1>7. q.phase \in {"refined", "current"} =>
        est'.value.present /\ (q.ack.final => Confirmed(est'))
  BY <1>4 DEF RequestInv, Grows, Earlier
<1>8. q.phase = "lowered" => ~q.ack.final
  BY DEF RequestInv
<1>9. q.phase = "refine" => (SoundValue(q.read.value) /\ Grounded(q.read) /\ Earlier(q.read, est))'
  BY <1>2, <1>3 DEF SoundValue, Grounded, Earlier
<1> QED BY <1>5, <1>6, <1>7, <1>8, <1>9 DEF RequestInv, Confirmed, SoundValue, Grounded, Earlier

(* The steps that leave the row alone.                                     *)
LEMMA EstimateStable ==
    ASSUME TypeOK, EstimateInv, est' = est, facts' = facts, acks \subseteq acks'
    PROVE  EstimateInv' /\ Grows
  BY RowFields
     DEF EstimateInv, SoundValue, Grounded, Grows, Earlier, TypeOK, Exposure,
         None, Partial, Full

LEMMA WriteInitialStep ==
    ASSUME TypeOK, AckInv, WriteInitial
    PROVE  EstimateInv' /\ Grows
<1>1. CASE est.value.present
  BY <1>1, EstimateStable DEF WriteInitial, AckInv
<1>2. CASE ~est.value.present
  <2> DEFINE v == EstimateOf(facts.word, facts.durable, facts.length, facts.released)
  <2>1. est' = Row(v, NoAck) /\ facts' = facts
    BY <1>2 DEF WriteInitial
  <2>2. /\ v.present /\ v.certainty = 1 /\ v.confirmed = None /\ v.level <= v.max
        /\ v.level /= None => facts.durable > 0
    BY InitialIsSound DEF TypeOK
  <2>3. est'.value = v
    BY <2>1, EstimateOfType, RowIsTyped
  <2> HIDE DEF v
  <2> QED BY <1>2, <2>1, <2>2, <2>3
          DEF EstimateInv, SoundValue, Grounded, Grows
<1> QED BY <1>1, <1>2

LEMMA RefineStep ==
    ASSUME TypeOK, AckInv, NEW h \in Handlers, RefineEstimate(h)
    PROVE  EstimateInv' /\ Grows /\ RequestInv(h)'
<1> DEFINE x == req[h].read
           a == req[h].ack
           y == Refined(x, a)
<1>0. /\ x \in RowType /\ est \in RowType /\ a \in Acks /\ a \in acks
      /\ a.final \in BOOLEAN
      /\ req \in [Handlers -> RequestType]
  BY RequestFields DEF TypeOK, RequestType, AckInv, RequestInv, RefineEstimate, Acks
<1>1. /\ x.value.present /\ x.value.level /= None /\ Earlier(x, est)
      /\ SoundValue(x.value) /\ Grounded(x)
  BY DEF AckInv, RequestInv, RefineEstimate
<1>2. /\ y \in RowType /\ y.value.present
      /\ y.value.level = x.value.level /\ y.value.max = x.value.max
      /\ y = x \/ /\ y.by = a /\ y.value.certainty = 2
                  /\ y.value.confirmed =
                       IF a.final THEN Higher(x.value.confirmed, x.value.max)
                       ELSE x.value.confirmed
      /\ y.value.certainty = 2
      /\ x.value.certainty = 2 /\ ~a.final => y = x
      /\ (y = x /\ a.final) => x.value.confirmed = Higher(x.value.confirmed, x.value.max)
  BY <1>0, <1>1, RefinedEffect
<1>3. /\ req'[h].ack = a
      /\ req'[h].phase = IF RefinementAllowed(est, y) THEN "refined" ELSE "lowered"
      /\ est' = IF RefinementAllowed(est, y) THEN y ELSE est
      /\ facts' = facts /\ acks' = acks
  BY <1>0 DEF RefineEstimate, RequestType
<1> HIDE DEF y
<1>4. Higher(x.value.confirmed, x.value.max) = x.value.max
  BY <1>0, <1>1, RowFields DEF SoundValue, Higher, Exposure, None, Partial, Full
<1>5. a.final => y.value.confirmed = y.value.max
  BY <1>2, <1>4
<1>6. SoundValue(y.value)
  BY <1>0, <1>1, <1>2, <1>4 DEF SoundValue
<1>7. Grounded(y)
  BY <1>0, <1>1, <1>2, <1>4 DEF SoundValue, Grounded
<1>8. CASE RefinementAllowed(est, y)
  <2>1. est' = y
    BY <1>3, <1>8
  <2>2. EstimateInv'
    BY <1>3, <1>6, <1>7, <2>1 DEF EstimateInv, SoundValue, Grounded
  <2>3. Grows
    BY <1>0, <1>2, <1>8, <2>1, RowFields
       DEF Grows, Earlier, RefinementAllowed, Exposure, None, Partial, Full
  <2>4. RequestInv(h)'
    BY <1>2, <1>3, <1>5, <1>8, <2>1 DEF RequestInv, Confirmed
  <2> QED BY <2>2, <2>3, <2>4
<1>9. CASE ~RefinementAllowed(est, y)
  <2>1. EstimateInv' /\ Grows
    BY <1>3, <1>9, EstimateStable DEF AckInv
  <2>2. ~a.final
    <3> SUFFICES ASSUME a.final PROVE RefinementAllowed(est, y)
      BY <1>9
    <3>1. y.value.confirmed >= est.value.confirmed
      BY <1>0, <1>1, <1>2, <1>5, RowFields
         DEF AckInv, EstimateInv, SoundValue, Earlier, Exposure, None, Partial, Full
    <3>2. y.value.certainty >= est.value.certainty
      BY <1>0, <1>2, RowFields
    <3> QED BY <1>1, <1>2, <3>1, <3>2 DEF RefinementAllowed, Earlier
  <2>3. RequestInv(h)'
    BY <1>3, <1>9, <2>2 DEF RequestInv
  <2> QED BY <2>1, <2>3
<1> QED BY <1>8, <1>9

LEMMA AckStep ==
    ASSUME TypeOK, AckInv, [Next]_vars
    PROVE  AckInv' /\ Grows
<1>0. TypeOK' /\ req \in [Handlers -> RequestType]
  BY TypeStep DEF TypeOK, RequestType
<1>1. ASSUME EstimateInv', Grows, facts' = facts, acks \subseteq acks',
             \A g \in Handlers : req'[g] = req[g] \/ RequestInv(g)'
      PROVE  AckInv' /\ Grows
  BY <1>0, <1>1, RequestStable DEF AckInv
<1>2. CASE WriteInitial
  BY <1>1, <1>2, WriteInitialStep DEF WriteInitial
<1>3. ASSUME NEW h \in Handlers, est' = est, facts' = facts, acks \subseteq acks',
             \A g \in Handlers \ {h} : req'[g] = req[g], RequestInv(h)'
      PROVE  AckInv' /\ Grows
  <2>1. EstimateInv' /\ Grows
    BY <1>3, EstimateStable DEF AckInv
  <2> QED BY <1>1, <1>3, <2>1
<1>4. ASSUME NEW h \in Handlers, NEW ack \in Acks, AppendAck(h, ack)
      PROVE  AckInv' /\ Grows
  <2>1. req'[h].phase = "read" /\ req'[h].ack = ack /\ ack \in acks'
    BY <1>0, <1>4 DEF AppendAck, NoRequest
  <2>2. RequestInv(h)'
    BY <2>1 DEF RequestInv
  <2> QED BY <1>0, <1>3, <1>4, <2>2 DEF AppendAck
<1>5. ASSUME NEW h \in Handlers, NEW ack \in Acks, RefuseAck(h, ack)
      PROVE  AckInv' /\ Grows
  <2>1. req'[h].phase = "refused"
    BY <1>0, <1>5 DEF RefuseAck, NoRequest
  <2>2. RequestInv(h)'
    BY <2>1 DEF RequestInv
  <2> QED BY <1>0, <1>3, <1>5, <2>2 DEF RefuseAck
<1>6. ASSUME NEW h \in Handlers, ReadEstimate(h)
      PROVE  AckInv' /\ Grows
  <2> DEFINE a == req[h].ack
  <2>1. /\ req'[h].ack = a /\ req'[h].read = est /\ a \in acks
        /\ req'[h].phase = IF ~est.value.present THEN "unrefined"
                           ELSE IF Refined(est, a) = est THEN "current" ELSE "refine"
        /\ est' = est /\ facts' = facts /\ acks' = acks
    BY <1>0, <1>6 DEF ReadEstimate, RequestType, AckInv, RequestInv
  <2>2. est \in RowType /\ a \in Acks \cup {NoAck}
    BY <1>0, RequestFields DEF TypeOK
  <2>3. EstimateInv /\ SoundValue(est.value)
    BY DEF AckInv, EstimateInv
  <2>4. Refined(est, a) = est /\ a.final => Confirmed(est)
    <3>1. Refined(est, a) = est /\ a.final /\ est.value.level /= None =>
            est.value.confirmed = Higher(est.value.confirmed, est.value.max)
      BY <2>2, RefinedEffect
    <3>2. est.value.level \in Exposure /\ est.value.max \in Exposure
      BY <2>2, RowFields
    <3> QED BY <2>3, <3>1, <3>2
            DEF Confirmed, SoundValue, Higher, Exposure, None, Partial, Full
  <2>5. Refined(est, a) /= est => est.value.level /= None
    BY DEF Refined
  <2>6. est.value.present => Earlier(est, est)
    BY <2>2, RowFields DEF Earlier, Exposure, None, Partial, Full
  <2>7. SoundValue(est.value)' /\ Grounded(est)' /\ SoundValue(est.value) /\ Grounded(est)
    BY <2>1 DEF AckInv, EstimateInv, SoundValue, Grounded
  <2>8. RequestInv(h)'
    BY <2>1, <2>4, <2>5, <2>6, <2>7
       DEF RequestInv, SoundValue, Grounded, Earlier, Confirmed
  <2> QED BY <1>0, <1>3, <1>6, <2>8 DEF ReadEstimate
<1>7. ASSUME NEW h \in Handlers, RefineEstimate(h)
      PROVE  AckInv' /\ Grows
  BY <1>0, <1>1, <1>7, RefineStep DEF RefineEstimate
<1>8. ASSUME NEW h \in Handlers, RefinementFails(h)
      PROVE  AckInv' /\ Grows
  <2>1. req'[h].phase = "noted"
    BY <1>0, <1>8 DEF RefinementFails, RequestType
  <2>2. RequestInv(h)'
    BY <2>1 DEF RequestInv
  <2> QED BY <1>0, <1>3, <1>8, <2>2 DEF RefinementFails
<1>9. ASSUME NEW h \in Handlers, Answer(h)
      PROVE  AckInv' /\ Grows
  <2>1. req'[h].phase = "idle"
    BY <1>0, <1>9 DEF Answer, NoRequest
  <2>2. RequestInv(h)'
    BY <2>1 DEF RequestInv
  <2> QED BY <1>0, <1>3, <1>9, <2>2 DEF Answer
<1>10. CASE UNCHANGED vars
  BY <1>1, <1>10, EstimateStable DEF vars, AckInv
<1> QED
  BY <1>2, <1>4, <1>5, <1>6, <1>7, <1>8, <1>9, <1>10 DEF Next

LEMMA InitAck == Init => AckInv
<1>1. NoRow.value = NoEstimate
  BY NoRowType
<1> QED BY <1>1
        DEF Init, AckInv, EstimateInv, SoundValue, Grounded, RequestInv,
            NoEstimate, NoRequest, None

LEMMA AckInvariant == Spec => [](TypeOK /\ AckInv)
<1> QED BY InitType, InitAck, TypeStep, AckStep, PTL DEF Spec

(* refine_exposure_estimate under any interleaving of append, read and     *)
(* refine: a step never lowers certainty or confirmation and never moves   *)
(* what was sent.                                                          *)
THEOREM RefinementIsMonotone == Spec => OnlyRefines
<1>1. TypeOK /\ AckInv /\ [Next]_vars =>
        [est.value.present =>
           /\ est'.value.present
           /\ est'.value.level = est.value.level /\ est'.value.max = est.value.max
           /\ est'.value.certainty >= est.value.certainty
           /\ est'.value.confirmed >= est.value.confirmed]_vars
  <2>1. ASSUME TypeOK, AckInv, [Next]_vars PROVE Grows
    BY <2>1, AckStep
  <2> QED BY <2>1 DEF Grows, Earlier
<1> QED BY <1>1, AckInvariant, PTL DEF Spec, OnlyRefines

(* accept_render_ack confirms only what was sent, on the word of a durable *)
(* final acknowledgment its row still names.                               *)
THEOREM ConfirmationsAreGrounded == Spec => []ConfirmationIsGrounded
<1>1. TypeOK /\ AckInv => ConfirmationIsGrounded
  BY DEF AckInv, EstimateInv, SoundValue, Grounded, ConfirmationIsGrounded
<1> QED BY <1>1, AckInvariant, PTL

(* No race of accept_render_ack loses a final acknowledgment that found    *)
(* the estimate.                                                           *)
THEOREM FinalAcksAreHonoured == Spec => []FinalAckIsHonoured
<1>1. TypeOK /\ AckInv => FinalAckIsHonoured
  BY DEF AckInv, RequestInv, Confirmed, FinalAckIsHonoured
<1> QED BY <1>1, AckInvariant, PTL

(* accept_render_ack for any number of handlers: the three together.       *)
THEOREM AcksStaySound == Spec => []AcksAreSound
<1>1. TypeOK /\ ConfirmationIsGrounded /\ FinalAckIsHonoured => AcksAreSound
  BY DEF AcksAreSound
<1> QED BY <1>1, TypeCorrect, ConfirmationsAreGrounded, FinalAcksAreHonoured, PTL
=============================================================================
