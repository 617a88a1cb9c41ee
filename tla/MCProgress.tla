----------------------------- MODULE MCProgress -----------------------------
(***************************************************************************)
(* What must eventually happen outside the turn itself, in one run:        *)
(* teaching moments, projections and web requests.  The initial state      *)
(* picks the part that moves, and the others keep their initial values;    *)
(* the fairness of a part at rest holds trivially, none of its fair steps  *)
(* being enabled.                                                          *)
(***************************************************************************)
EXTENDS Integers, Sequences, FiniteSets

CONSTANTS
  Opens, Replies, Envelopes, LessonEpochs, HintRungs, SoftAttempts, HardAttempts,
  SoftTurns, HardTurns, WebHost,
  MaxTurn, Contents, Proposed(_), MaxEpoch, MaxFaults, FaultKinds,
  Requests, Streamed, Frames

VARIABLES
  part,
  epoch, lessonNewest, lessonTurn, act, lessonSaid, moment, lock, gate, attempts,
  lessonPc, lessonLeg,
  lessonFaults,
  dbEpoch, said, ended, jobs, memories, episode, pc, leg, claimed, unavailable, faults,
  work, running, put, relayed, done, outcome, thread, final

lessonVars == <<epoch, lessonNewest, lessonTurn, act, lessonSaid, moment, lock, gate,
                attempts, lessonPc, lessonLeg, lessonFaults>>
passVars   == <<dbEpoch, said, ended, jobs, memories, episode, pc, leg, claimed,
                unavailable, faults>>
relayVars  == <<work, running, put, relayed, done, outcome, thread, final>>

Lessons == INSTANCE TeachingMoment WITH
  newest <- lessonNewest, turn <- lessonTurn, said <- lessonSaid, pc <- lessonPc,
  leg <- lessonLeg, faults <- lessonFaults, MaxEpoch <- LessonEpochs, MaxFaults <- 0
Pass == INSTANCE Projections
Relay == INSTANCE WebRelay

(* The controls of the web host: the answer box and the buttons.           *)
MCEnvelopes ==
  {[intent |-> "CONTINUE", attempt |-> a] : a \in {"SUCCESS", "FAILURE"}}
    \cup {[intent |-> i, attempt |-> "none"] : i \in {"ASK_HINT", "SKIP"}}

MCProposed(t) == {"a", "b"}

Init ==
  /\ part \in {"lesson", "pass", "relay"}
  /\ Lessons!Init /\ Pass!Init /\ Relay!Init

Next ==
  /\ UNCHANGED part
  /\ IF part = "lesson" THEN Lessons!Next ELSE UNCHANGED lessonVars
  /\ IF part = "pass" THEN Pass!Next ELSE UNCHANGED passVars
  /\ IF part = "relay" THEN Relay!Next ELSE UNCHANGED relayVars

Spec ==
  /\ Init /\ [][Next]_<<part, lessonVars, passVars, relayVars>>
  /\ Lessons!Fairness /\ Pass!Fairness /\ Relay!Fairness
----------------------------------------------------------------------------
(* A teaching moment passes through its transient states, whatever         *)
(* crashes: openings, evaluations and decided closures are carried out or  *)
(* swept (controller.py, teaching/store.py).                               *)
MomentsMoveOn == Lessons!TransientMovesOn

(* Every COMPLETED turn is projected, except what an exception or a failed *)
(* sweep left behind in a runtime that goes on (projections.py).           *)
ProjectionsEnd == Pass!ProjectionsSettle

(* Every request that was shipped ends, also when its job never returns,   *)
(* and a payload is what the request's own job returned (web.py).          *)
RequestsAreAnswered == []Relay!PayloadsAreResults /\ Relay!EveryRequestEnds
=============================================================================
