----------------------------- MODULE RenderAcks -----------------------------
(***************************************************************************)
(* The exposure estimate of one delivered action and the acknowledgments   *)
(* that refine it.  The delivery leg (or, after a crash, the repair of the *)
(* turn) writes the initial estimate once; client acknowledgments arrive   *)
(* asynchronously, in any order, possibly before the estimate and possibly *)
(* again, and take no coordinator guard: each is append -> read -> refine  *)
(* in separate transactions, so several of them interleave.                *)
(*   runtime/controller.py accept_render_ack, _write_initial_estimate;     *)
(*   platform/db/delivery_store.py; runtime/exposure_reconciliation.py     *)
(***************************************************************************)
EXTENDS DeliveryFacts

CONSTANTS
    Handlers    \* requests that may be handled at the same time

VARIABLES
    facts,      \* what the send left behind: word, durable, released, length
    est,        \* exposure_estimate row; by: the ack its reason names
    acks,       \* client_render_ack rows
    req         \* per handler: phase, its ack, the estimate it read

vars == <<facts, est, acks, req>>

----------------------------------------------------------------------------
Acks == [seq : 1..TextLength, final : BOOLEAN]

NoAck == [seq |-> 0, final |-> FALSE]

Row(estimate, ack) == [value |-> estimate, by |-> ack]

NoRow == Row(NoEstimate, NoAck)

NoRequest == [phase |-> "idle", ack |-> NoAck, read |-> NoRow]

(* DeliveryExposureFacts of a finished send: the released boundary is      *)
(* never behind the durable one, and the word follows from what was        *)
(* released or from a cancellation.  The repair holds neither the          *)
(* validated length nor the released prefix (-1).                          *)
Facts == [word : EstimableWord, durable : 0..TextLength,
          released : -1..TextLength, length : {-1, TextLength}]

LegalFacts ==
    {f \in Facts :
        /\ f.length = -1 <=> f.released = -1
        /\ f.released /= -1 => f.durable <= f.released
        /\ f.word = "SENT_COMPLETE" => f.durable > 0}

----------------------------------------------------------------------------
(* Faulty variants: the certainty is raised past the top of its ladder, or *)
(* an acknowledgment that changes nothing still becomes the reason.        *)
RefinedUncapped(row, ack) ==
    LET v == row.value
        confirmed == IF ack.final THEN Higher(v.confirmed, v.max) ELSE v.confirmed
    IN  IF v.level = None \/ (v.certainty = 2 /\ confirmed = v.confirmed)
        THEN row
        ELSE Row([v EXCEPT !.certainty = @ + 1, !.confirmed = confirmed], ack)

RefinedRenaming(row, ack) ==
    LET v == row.value
        confirmed == IF ack.final THEN Higher(v.confirmed, v.max) ELSE v.confirmed
    IN  IF v.level = None THEN row
        ELSE Row([v EXCEPT !.certainty = 2, !.confirmed = confirmed], ack)

(* refine_with_ack: certainty and confirmed exposure rise, nothing else    *)
(* moves; a delivery that sent nothing has nothing to confirm.             *)
Refined(row, ack) ==
    LET v == row.value
        confirmed == IF ack.final THEN Higher(v.confirmed, v.max) ELSE v.confirmed
    IN  IF v.level = None \/ (v.certainty = 2 /\ confirmed = v.confirmed)
        THEN row
        ELSE Row([v EXCEPT !.certainty = 2, !.confirmed = confirmed], ack)

(* Faulty variants: the store takes any refinement, or only one that is    *)
(* more certain.                                                           *)
RefinementUnchecked(before, after) == after.value.level = before.value.level

RefinementStrict(before, after) ==
    /\ after.value.level = before.value.level
    /\ after.value.certainty > before.value.certainty

(* refinement_refusal: the store takes a submission only if it moves the   *)
(* durable row upward.                                                     *)
RefinementAllowed(before, after) ==
    /\ after.value.level = before.value.level
    /\ after.value.max = before.value.max
    /\ after.value.certainty >= before.value.certainty
    /\ after.value.confirmed >= before.value.confirmed

(* _write_initial_estimate -> record_initial_exposure_estimate: the first  *)
(* write wins, a later different one is refused, a failing one swallowed.  *)
WriteInitial ==
    /\ est' = IF est.value.present THEN est
              ELSE Row(EstimateOf(facts.word, facts.durable, facts.length,
                                  facts.released), NoAck)
    /\ UNCHANGED <<facts, acks, req>>

(* accept_render_ack, first transaction (append_client_render_ack): a new  *)
(* row, a replay of the same content, or a refusal of other content for    *)
(* the same chunk.                                                         *)
AppendAck(h, ack) ==
    /\ req[h].phase = "idle"
    /\ \A a \in acks : a.seq = ack.seq => a = ack
    /\ acks' = acks \cup {ack}
    /\ req' = [req EXCEPT ![h] = [NoRequest EXCEPT !.phase = "read", !.ack = ack]]
    /\ UNCHANGED <<facts, est>>

RefuseAck(h, ack) ==
    /\ req[h].phase = "idle"
    /\ \E a \in acks : a.seq = ack.seq /\ a /= ack
    /\ req' = [req EXCEPT ![h] = [NoRequest EXCEPT !.phase = "refused", !.ack = ack]]
    /\ UNCHANGED <<facts, est, acks>>

(* Second: the estimate is read.  None yet, or nothing would rise: the     *)
(* receipt is answered and nothing is written.                             *)
ReadEstimate(h) ==
    /\ req[h].phase = "read"
    /\ req' = [req EXCEPT ![h] = [@ EXCEPT
         !.read = est,
         !.phase = IF ~est.value.present THEN "unrefined"
                   ELSE IF Refined(est, req[h].ack) = est THEN "current"
                   ELSE "refine"]]
    /\ UNCHANGED <<facts, est, acks>>

(* Third (refine_exposure_estimate): the refinement of what was read is    *)
(* submitted against what is durable by now.                               *)
RefineEstimate(h) ==
    LET after == Refined(req[h].read, req[h].ack)
        allowed == RefinementAllowed(est, after)
    IN
    /\ req[h].phase = "refine"
    /\ est' = IF allowed THEN after ELSE est
    /\ req' = [req EXCEPT ![h].phase = IF allowed THEN "refined" ELSE "lowered"]
    /\ UNCHANGED <<facts, acks>>

(* A read or a write that fails (a fenced store, a broken face) becomes a  *)
(* note on the receipt.                                                    *)
RefinementFails(h) ==
    /\ req[h].phase \in {"read", "refine"}
    /\ req' = [req EXCEPT ![h].phase = "noted"]
    /\ UNCHANGED <<facts, est, acks>>

Finished == {"refused", "unrefined", "current", "refined", "lowered", "noted"}

(* The receipt is returned; the handler may take the next acknowledgment.  *)
Answer(h) ==
    /\ req[h].phase \in Finished
    /\ req' = [req EXCEPT ![h] = NoRequest]
    /\ UNCHANGED <<facts, est, acks>>

----------------------------------------------------------------------------
Init ==
    /\ facts \in LegalFacts
    /\ est = NoRow
    /\ acks = {}
    /\ req = [h \in Handlers |-> NoRequest]

Next ==
    \/ WriteInitial
    \/ \E h \in Handlers :
         \/ \E ack \in Acks : AppendAck(h, ack) \/ RefuseAck(h, ack)
         \/ ReadEstimate(h) \/ RefineEstimate(h) \/ RefinementFails(h)
         \/ Answer(h)

Spec == Init /\ [][Next]_vars

----------------------------------------------------------------------------
(* Properties.                                                             *)

RowType == [value : EstimateType, by : Acks \cup {NoAck}]
Phase == {"idle", "read", "refine"} \cup Finished

(* Every variable keeps its type.                                          *)
TypeOK ==
    /\ facts \in LegalFacts
    /\ est \in RowType
    /\ acks \subseteq Acks
    /\ req \in [Handlers -> [phase : Phase, ack : Acks \cup {NoAck}, read : RowType]]

(* RA 14: whatever acknowledgments race, a refinement never lowers what is *)
(* known and never moves what was sent.                                    *)
OnlyRefines ==
    [][est.value.present =>
         /\ est'.value.present
         /\ est'.value.level = est.value.level /\ est'.value.max = est.value.max
         /\ est'.value.certainty >= est.value.certainty
         /\ est'.value.confirmed >= est.value.confirmed]_vars

(* No acknowledgment confirms more than may have been sent, and a          *)
(* confirmation rests on a durable final acknowledgment that the row's     *)
(* reason still names, even when a partial one was applied after it.       *)
ConfirmationIsGrounded ==
    /\ est.value.confirmed \in {None, est.value.max}
    /\ est.value.confirmed /= None => est.by.final /\ est.by \in acks
    /\ est.value.certainty = 2 => est.by \in acks /\ facts.durable > 0

(* A final acknowledgment is never lost to a race: one that found the      *)
(* estimate and was answered without a failure leaves the ceiling          *)
(* confirmed, so the store's refusal can only meet a partial one.          *)
FinalAckIsHonoured ==
    \A h \in Handlers :
        /\ req[h].phase \in {"refined", "current"} /\ req[h].ack.final
             /\ est.value.level /= None => est.value.confirmed = est.value.max
        /\ req[h].phase = "lowered" => ~req[h].ack.final

(* What an estimate claims is grounded in what was acknowledged, and no    *)
(* final acknowledgment that found it is lost, whatever handlers race      *)
(* (accept_render_ack).                                                    *)
AcksAreSound == TypeOK /\ ConfirmationIsGrounded /\ FinalAckIsHonoured
=============================================================================
