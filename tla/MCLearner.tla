----------------------------- MODULE MCLearner -----------------------------
(***************************************************************************)
(* The components that know and decide something about the learner, in     *)
(* one run.  They meet through stored rows only, so each is explored by    *)
(* itself: the initial state picks the part that moves, and the others     *)
(* keep their initial values.                                              *)
(***************************************************************************)
EXTENDS Integers, Sequences, FiniteSets

CONSTANTS
  Turns, Attempts, Targets, Capability, MaxEpoch, MaxClaims, NoTarget,
  Forms, Personas, MaxLog, MaxDay, TargetType,
  Events, Interval, Grace, MaxNow, MaxMark,
  Foci, FactForms, Contexts, MaxShown,
  Openings, Hints, Skips, Owed,
  MaxWrong,
  Letters, Cooldown, Stage, MaxClock, MaxFaults

VARIABLES
  part,
  epoch, flow, ready, artifact, claims, commitAt, watermark, row, proposal,
  opportunity, cycle, lost,
  log, today,
  newest, now, mark, strongAt, shownAt, events, item, job,
  facts, setting, exposures, debt,
  reign, delivered, ledgerLog, projection, owes, write, failed,
  fact, wrong,
  clock, enabled, wanted, letter, plan, gate, moment, holder, said, leg, slips

evidenceVars == <<epoch, flow, ready, artifact, claims, commitAt, watermark, row, proposal,
                  opportunity, cycle, lost>>
estVars    == <<log, today>>
schedVars  == <<newest, now, mark, strongAt, shownAt, events, item, job>>
planVars   == <<facts, setting, exposures, debt>>
ledgerVars == <<reign, delivered, ledgerLog, projection, owes, write, failed>>
gateVars   == <<fact, wrong>>
autoVars   == <<clock, enabled, wanted, letter, plan, gate, moment, holder, said, leg, slips>>

Evidence  == INSTANCE Learning
Estimates == INSTANCE Estimator
Schedule  == INSTANCE Scheduling
Plans     == INSTANCE Planner
Ledger    == INSTANCE LedgerStore
Gates     == INSTANCE Gate
Automatic == INSTANCE AutomaticTurn WITH cycle <- plan

MCForms ==
  LET Form(perf, pol, out, sup, opp, err, taught) ==
        [perf |-> perf, polarity |-> pol, outcome |-> out, conf |-> 9, support |-> sup,
         exposure |-> "NONE", opp |-> opp, error |-> err, moment |-> taught]
  IN {Form("SPONTANEOUS_PRODUCTION", "POSITIVE", "SUCCESS", "NONE", "NATURAL", "UNKNOWN", FALSE),
      Form("SPONTANEOUS_PRODUCTION", "POSITIVE", "PARTIAL", "NONE", "NATURAL", "UNKNOWN", FALSE),
      Form("GUIDED_PRODUCTION", "POSITIVE", "SUCCESS", "STRUCTURAL_HINT", "ELICITED", "UNKNOWN", TRUE),
      Form("FAILED_ATTEMPT", "NEGATIVE", "FAILURE", "NONE", "NATURAL", "LIKELY_KNOWLEDGE_GAP", FALSE)}

MCInterval == <<1, 3, 7>>

MCFacts ==
  LET Fact(u, f, e, l, n) == [urgency |-> u, flag |-> f, edges |-> e, level |-> l, noticed |-> n]
      Edge(s, v) == [strength |-> s, verdict |-> v]
  IN {Fact("DUE", "CONFIRMED_GAP", {}, "R3", "none"),
      Fact("UPCOMING", "unseen", {Edge("HARD", "UNJUDGED")}, "R2", "none"),
      Fact("NOT_SCHEDULED", "SUPPORT_DEPENDENT",
           {Edge("SCAFFOLDABLE", "UNMET"), Edge("SOFT", "UNMET")}, "R4", "error"),
      Fact("OVERDUE", "none", {Edge("HARD", "PROVEN")}, "R3", "register"),
      Fact("none", "CONFIRMED_GAP", {}, "R3", "none")}

MCContexts ==
  LET Ctx(f, c, s, r, st) ==
        [focus : f, chat : c, suppress : s, noReview : r, stale : st, break : BOOLEAN,
         profile : {"LOUNGE", "BALANCED", "STUDY_FIRST"}, flow : {"none", "PROTECTED"}]
  IN Ctx({{}}, {FALSE}, {{}}, {{}, {"a"}}, {FALSE})
       \cup Ctx({{"a"}}, {TRUE}, {{"a"}}, {{}}, {FALSE})
       \cup Ctx({{}}, {FALSE}, {{"b"}}, {{}}, {TRUE})

\* Letters are numbered from one (0 and -1 stand for no holder and the user),
\* and COOLDOWN_WINDOW_SECONDS is a duration.
ASSUME LettersAssumption == Letters \subseteq Nat \ {0} /\ Cooldown \in Nat

\* INTERVAL_DAYS lengthens from stage to stage; a database holds finitely many
\* review events.
ASSUME LadderAssumption ==
  /\ Interval \in Seq(Nat) /\ Len(Interval) > 0 /\ Grace \in Nat
  /\ \A i, j \in 1..Len(Interval) : i <= j => Interval[i] <= Interval[j]
  /\ IsFiniteSet(Events)

\* Epochs and claims are counted; the capability is a target, and NoTarget
\* stands for none of them.
ASSUME EvidenceAssumption ==
  MaxEpoch \in Nat /\ MaxClaims \in Nat /\ Capability \in Targets /\ NoTarget \notin Targets

\* The planner reads bands and levels of the closed lists of its enums, a focus
\* names targets of the supply set, and presentations are counted.
ASSUME PlannerAssumption ==
  /\ \A f \in FactForms :
       /\ f.urgency \in {"none", "NOT_SCHEDULED", "UPCOMING", "DUE", "OVERDUE"}
       /\ f.level \in {"none", "R2", "R3", "R4"}
  /\ \A x \in Contexts :
       /\ x.profile \in {"LOUNGE", "BALANCED", "STUDY_FIRST"}
       /\ x.flow \in {"none", "LOW", "NORMAL", "HIGH", "PROTECTED"}
       /\ x.focus \subseteq Foci
  /\ MaxShown \in Nat

\* The parts with several initial values keep one of them when another moves.
PlansIdle ==
  /\ facts = [t \in Foci |-> CHOOSE f \in FactForms : TRUE]
  /\ setting = CHOOSE c \in Contexts : TRUE

Init ==
  /\ part \in {"evidence", "estimates", "schedule", "plans", "ledger", "gate", "openings"}
  /\ Evidence!Init /\ Estimates!Init /\ Schedule!Init /\ Ledger!Init /\ Automatic!Init
  /\ Plans!Init /\ (part = "plans" \/ PlansIdle)
  /\ Gates!Init
  /\ part = "gate" \/ <<fact["lock"], fact["scope"], fact["moment"], fact["consent"]>>
                        = <<"NONE", "OPEN", "OTHER", "AUTO_OPENED">>

Next ==
  /\ UNCHANGED part
  /\ IF part = "evidence" THEN Evidence!Next ELSE UNCHANGED evidenceVars
  /\ IF part = "estimates" THEN Estimates!Next ELSE UNCHANGED estVars
  /\ IF part = "schedule" THEN Schedule!Next ELSE UNCHANGED schedVars
  /\ IF part = "plans" THEN Plans!Next ELSE UNCHANGED planVars
  /\ IF part = "ledger" THEN Ledger!Next ELSE UNCHANGED ledgerVars
  /\ IF part = "gate" THEN Gates!Next ELSE UNCHANGED gateVars
  /\ IF part = "openings" THEN Automatic!Next ELSE UNCHANGED autoVars

vars == <<part, evidenceVars, estVars, schedVars, planVars, ledgerVars, gateVars, autoVars>>

Spec == Init /\ [][Next]_vars
----------------------------------------------------------------------------
\* What is estimated of a target is what the standing evidence says: rows and
\* cycles that look fresh are exact, corrections count once, evidence is
\* settled as it was committed, and no process that died or was superseded
\* leaves any of it behind (learning/store.py, controller.py).
EvidenceIsAccounted ==
  part = "evidence" =>
    /\ Evidence!TypeOK
    /\ Evidence!FreshRowsExact /\ Evidence!ValidCyclesAreCurrent
    /\ Evidence!CorrectionsFormChains /\ Evidence!SilentEvidenceIsProjected
    /\ Evidence!SettledAsCommitted /\ Evidence!StartupSettlesOldEvidence
    /\ Evidence!OnlyRefusedIsRejected

\* The estimate cannot be gamed by repetition: partial outcomes do not add up
\* to mastery, one cluster to breadth or failures to a dependency, and further
\* evidence never takes weight away (learning/estimator.py).
EstimatesAreFair ==
  /\ [](part = "estimates" =>
          /\ Estimates!PartialIsNotMastery /\ Estimates!RepetitionIsNotBreadth
          /\ Estimates!FailureIsNotDependency)
  /\ [][part = "estimates" => Estimates!EvidenceOnlyAdds]_vars

\* A recomputed schedule row goes neither to an earlier window nor back to
\* older evidence, with two processes writing it (scheduler/controller.py).
SchedulesAdvance == Schedule!WindowsMoveForward /\ Schedule!RowsFollowTheWatermark

\* The decision is the policy's: pruning does not change it, a request is
\* honoured, debt is not starved, and a louder profile opens what a quieter
\* one would (planner/kernel.py).
DecisionsFollowPolicy ==
  part = "plans" =>
    /\ Plans!PruningNeverDecides /\ Plans!RequestsAreHonoured
    /\ Plans!DebtIsServedFirst /\ Plans!LouderOpensMore

\* The ledger's columns are what its events derive, and a write that raced
\* with another one takes nothing back from an obligation (planner/ledger.py).
LedgerIsConsistent == []Ledger!ProjectionMatchesLog /\ Ledger!NoLostObligation

\* Whatever becomes wrong or unreadable only closes the gate further; yet
\* limits never lock a moment in, and what is allowed unasked is allowed when
\* asked for (teaching/gate.py).
GateFailsClosed ==
  /\ [](part = "gate" => Gates!LimitsNeverStrand /\ Gates!AskedIsNeverStricter)
  /\ [][part = "gate" => Gates!NoNewPermission]_vars

\* Automatic openings keep their distance and the user's consent, also when a
\* letter is answered after a restart or a change of mind (automatic_turn.py).
OpeningsAreWelcome == []Automatic!CooldownHolds /\ Automatic!OpeningsHaveConsent
=============================================================================
