------------------------------ MODULE Planner ------------------------------
(***************************************************************************)
(* The teaching planner (planner/): candidate supply (candidates.py,       *)
(* supply.py, scope.py), feature authority (feature_assembly.py), the      *)
(* decision kernel (kernel.py) and the readings it takes of the planning   *)
(* ledger (ledger.py), closed into a loop: what is presented is recorded   *)
(* in the ledger and prices the next decision.                             *)
(*                                                                         *)
(* Factor values are exact, in twentieths (0.05); utilities are in units   *)
(* of 1/200000, so the thresholds and the tie window of the reference      *)
(* profiles are integers.  The code adds floats in a fixed order; the      *)
(* model does not reproduce their rounding.                                *)
(***************************************************************************)
EXTENDS Naturals, Integers, Sequences, FiniteSets, FiniteSetsExt

CONSTANTS
  Foci,         \* targets of the supply set
  FactForms,    \* what the content, schedule and learner faces answer of one
  Contexts,     \* the conversation, the profile and the constraint view
  MaxShown      \* bound: presentations of one target in the ledger window

VARIABLES
  facts,        \* per target: [urgency, flag, edges, level, noticed]
  setting,      \* [profile, flow, break, focus, chat, suppress,
                \*  noReview, stale]
  exposures,    \* planning_ledger: presentations in the window
  debt          \* coverage_obligation.debt_value, in twentieths

planVars == <<facts, setting, exposures, debt>>


Init ==
  /\ facts \in [Foci -> FactForms]
  /\ setting \in Contexts
  /\ exposures = [t \in Foci |-> 0]
  /\ debt = [t \in Foci |-> 0]

(***************************************************************************)
(* What the sources declare (SOURCE_READINGS, FACTOR_BAND_VALUES)          *)
(***************************************************************************)
\* Benefits in the order learning_need, uncertainty, curriculum, context_fit,
\* personal, expiry, impact; goal_relevance and transfer_value are 0 for these
\* sources, schedule_urgency and coverage_debt are read.  Costs in the order
\* interruption, load, support.
Reading(source) ==
  CASE source = "CURRENT_USER_ERROR" ->
         [benefit |-> <<15, 0, 5, 20, 20, 20, 10>>, cost |-> <<2, 4, 0>>, lane |-> "REACTIVE"]
    [] source = "PRAGMATIC_REGISTER_OPPORTUNITY" ->
         [benefit |-> <<0, 0, 5, 5, 0, 20, 2>>, cost |-> <<7, 4, 0>>, lane |-> "OPPORTUNISTIC"]
    [] source = "MANUAL_USER_REQUEST" ->
         [benefit |-> <<15, 0, 5, 20, 20, 5, 0>>, cost |-> <<15, 4, 0>>, lane |-> "REACTIVE"]
    [] source = "CONFIRMED_GAP" ->
         [benefit |-> <<20, 0, 10, 0, 0, 0, 0>>, cost |-> <<7, 10, 5>>, lane |-> "PROACTIVE"]
    [] source = "SCHEDULED_REVIEW" ->
         [benefit |-> <<5, 0, 10, 0, 0, 0, 0>>, cost |-> <<2, 4, 0>>, lane |-> "PROACTIVE"]
    [] source = "UNKNOWN_PROBE" ->
         [benefit |-> <<0, 15, 15, 10, 0, 0, 0>>, cost |-> <<2, 4, 0>>, lane |-> "PROACTIVE"]
    [] source = "SUPPORT_WITHDRAWAL" ->
         [benefit |-> <<15, 0, 10, 0, 0, 0, 0>>, cost |-> <<2, 10, 10>>, lane |-> "PROACTIVE"]
    [] source = "COVERAGE_DEBT" ->
         [benefit |-> <<10, 0, 20, 10, 0, 0, 0>>, cost |-> <<2, 10, 0>>, lane |-> "PROACTIVE"]

Sources == {"CURRENT_USER_ERROR", "PRAGMATIC_REGISTER_OPPORTUNITY", "MANUAL_USER_REQUEST",
            "CONFIRMED_GAP", "SCHEDULED_REVIEW", "UNKNOWN_PROBE", "SUPPORT_WITHDRAWAL",
            "COVERAGE_DEBT"}

WeightedBenefit(v) ==
  17 * v[1] + 10 * v[2] + 8 * v[3] + 13 * v[4] + 8 * v[5] + 2 * v[6] + 12 * v[7]
WeightedCost(v) == 40 * v[1] + 20 * v[2] + 10 * v[3]
UrgencyWeight == 8
DebtWeight == 8
OverexposureWeight == 20

(***************************************************************************)
(* The readings of the ledger, the schedule, the prerequisites, the scope  *)
(***************************************************************************)
\* overexposure_band_of and its value.
Overexposure(count) == 5 * Min({count, 4})

\* coverage_service_state_of.
ServiceState(owed) ==
  IF owed >= 15 THEN "CRITICAL" ELSE IF owed >= 10 THEN "DUE"
  ELSE IF owed >= 5 THEN "WATCH" ELSE "NONE"

\* schedule_urgency_of; a target without a row has no context.
Urgency(state) ==
  CASE state = "NOT_SCHEDULED" -> 0 [] state = "UPCOMING" -> 5
    [] state = "DUE" -> 15 [] state = "OVERDUE" -> 20

\* interruption_cost_band_of: the flow of the conversation replaces the band
\* the source declared.
InterruptionOf(flow, declared) ==
  CASE flow = "none" -> declared [] flow = "LOW" -> 2 [] flow = "NORMAL" -> 7
    [] flow = "HIGH" -> 15 [] flow = "PROTECTED" -> 20

\* prerequisite_state_of over the HARD, SCAFFOLDABLE and SOFT edges into the
\* target's nodes; an edge is [strength, verdict].
PrerequisiteState(edges) ==
  LET open == {e \in edges : e.strength # "SOFT" /\ e.verdict # "PROVEN"}
      hard == {e \in open : e.strength = "HARD"}
      scaffold == \E e \in open : e.strength = "SCAFFOLDABLE"
  IN IF \E e \in hard : e.verdict = "UNMET" THEN [state |-> "BLOCKED", scaffold |-> FALSE]
     ELSE IF hard # {} THEN [state |-> "UNKNOWN", scaffold |-> scaffold]
     ELSE IF scaffold THEN [state |-> "READY_WITH_SCAFFOLD", scaffold |-> TRUE]
     ELSE [state |-> "READY", scaffold |-> FALSE]

\* resolve_user_intent_scope: a focus on a target outranks JUST_CHAT.
Scope ==
  IF setting.focus # {} THEN "TARGETED_LEARNING_REQUEST"
  ELSE IF setting.chat THEN "JUST_CHAT" ELSE "OPEN"

(***************************************************************************)
(* Candidate supply                                                        *)
(***************************************************************************)
\* _context_for: no content level or no schedule row, no context.
InSupply(t) == facts[t].level # "none" /\ facts[t].urgency # "none"

\* _wanted.
Wanted(source, t) ==
  CASE source = "CURRENT_USER_ERROR" -> facts[t].noticed = "error"
    [] source = "PRAGMATIC_REGISTER_OPPORTUNITY" -> facts[t].noticed = "register"
    [] source = "MANUAL_USER_REQUEST" -> t \in setting.focus
    [] source = "CONFIRMED_GAP" -> facts[t].flag = "CONFIRMED_GAP"
    [] source = "SUPPORT_WITHDRAWAL" -> facts[t].flag = "SUPPORT_DEPENDENT"
    [] source = "UNKNOWN_PROBE" -> facts[t].flag \in {"unseen", "INSUFFICIENT_EVIDENCE"}
    [] source = "SCHEDULED_REVIEW" -> facts[t].urgency \in {"DUE", "OVERDUE"}
    [] source = "COVERAGE_DEBT" -> debt[t] > 0

\* Faulty variant: the coverage-debt source keeps its declared reading.
DeclaredDebt(source, t) == IF source = "COVERAGE_DEBT" THEN 20 ELSE 0

\* _declared_vector: the ledger's debt, for the source that services it.
DebtOf(source, t) == IF source = "COVERAGE_DEBT" THEN debt[t] ELSE 0

\* _build and _declared_vector.
Candidate(source, t) ==
  LET reading == Reading(source)
      pre == PrerequisiteState(facts[t].edges)
      floor(declared) == IF pre.scaffold THEN Max({declared, 10}) ELSE declared
  IN [source |-> source, target |-> t, lane |-> reading.lane,
      benefit |-> reading.benefit,
      urgency |-> Urgency(facts[t].urgency),
      owed |-> DebtOf(source, t),
      cost |-> <<InterruptionOf(setting.flow, reading.cost[1]),
                 floor(reading.cost[2]), floor(reading.cost[3])>>,
      over |-> Overexposure(exposures[t]),
      asked |-> source = "MANUAL_USER_REQUEST",
      service |-> IF source = "COVERAGE_DEBT" THEN ServiceState(debt[t]) ELSE "NONE",
      prerequisite |-> pre,
      suppressed |-> \/ t \in setting.suppress /\ source # "MANUAL_USER_REQUEST"
                     \/ t \in setting.noReview /\ source = "SCHEDULED_REVIEW"]

Proposals ==
  {Candidate(p[1], p[2]) : p \in {q \in Sources \X Foci : InSupply(q[2]) /\ Wanted(q[1], q[2])}}

(***************************************************************************)
(* The kernel                                                              *)
(***************************************************************************)
\* assemble_feature_authority: stale stands for any authority that is missing
\* or behind, the snapshot, one schedule row, the policy, the goals, a content
\* level or the constraint view.
AuthorityComplete == ~setting.stale

\* _context_verdict: an incomplete authority degrades the whole decision.
ContextComplete == AuthorityComplete

LevelRank(level) == CASE level = "R2" -> 2 [] level = "R3" -> 3 [] level = "R4" -> 4

\* _readiness_floor.
ReadinessFloor(c) ==
  CASE c.source = "UNKNOWN_PROBE" -> 2
    [] c.source = "CURRENT_USER_ERROR" -> 4
    [] OTHER -> 3

\* _exclusion_of.
Eligible(c) ==
  /\ ~c.suppressed
  /\ c.prerequisite.state # "BLOCKED"
  /\ c.prerequisite.state = "UNKNOWN" => c.source = "UNKNOWN_PROBE" \/ c.prerequisite.scaffold
  /\ Scope # "JUST_CHAT"
  /\ Scope = "TARGETED_LEARNING_REQUEST" => c.asked
  /\ LevelRank(facts[c.target].level) >= ReadinessFloor(c)

\* Faulty variant: the LOUNGE and BALANCED thresholds are swapped.
SwappedThresholds(name) ==
  CASE name = "LOUNGE" ->
         [REACTIVE |-> 100, OPPORTUNISTIC |-> 90, PROACTIVE |-> 55,
          cost |-> 100, threshold |-> 39000, bonus |-> 0]
    [] name = "BALANCED" ->
         [REACTIVE |-> 100, OPPORTUNISTIC |-> 95, PROACTIVE |-> 80,
          cost |-> 80, threshold |-> 72000, bonus |-> 16000]
    [] name = "STUDY_FIRST" ->
         [REACTIVE |-> 100, OPPORTUNISTIC |-> 98, PROACTIVE |-> 95,
          cost |-> 55, threshold |-> 36000, bonus |-> 20000]

\* POLICY_PROFILES.
Profile(name) ==
  CASE name = "LOUNGE" ->
         [REACTIVE |-> 100, OPPORTUNISTIC |-> 90, PROACTIVE |-> 55,
          cost |-> 100, threshold |-> 72000, bonus |-> 0]
    [] name = "BALANCED" ->
         [REACTIVE |-> 100, OPPORTUNISTIC |-> 95, PROACTIVE |-> 80,
          cost |-> 80, threshold |-> 39000, bonus |-> 16000]
    [] name = "STUDY_FIRST" ->
         [REACTIVE |-> 100, OPPORTUNISTIC |-> 98, PROACTIVE |-> 95,
          cost |-> 55, threshold |-> 36000, bonus |-> 20000]

TieEpsilon == 3000

\* _score.
Utility(c, p) ==
  LET benefit == WeightedBenefit(c.benefit) + UrgencyWeight * c.urgency
                   + DebtWeight * c.owed
      cost == WeightedCost(c.cost) + OverexposureWeight * c.over
  IN p[c.lane] * benefit - p.cost * cost
       + IF c.service = "CRITICAL" /\ setting.break THEN p.bonus ELSE 0

\* Faulty variant: a request has to pass the automatic threshold too.
AboveThreshold(c, p) == Utility(c, p) >= p.threshold

\* _activation_path and the per-candidate gate.
Activated(c, p) ==
  \/ c.asked /\ Scope = "TARGETED_LEARNING_REQUEST"
  \/ Utility(c, p) >= p.threshold

\* Faulty variant: equal candidates dominate each other.
NoWorse(a, b) ==
  /\ a.lane = b.lane /\ a.service = b.service /\ a.asked = b.asked
  /\ \A i \in DOMAIN a.benefit : a.benefit[i] >= b.benefit[i]
  /\ a.urgency >= b.urgency /\ a.owed >= b.owed
  /\ \A i \in DOMAIN a.cost : a.cost[i] <= b.cost[i]
  /\ a.over <= b.over

\* _dominates within one _dominance_class.
Dominates(a, b) ==
  /\ a.lane = b.lane /\ a.service = b.service /\ a.asked = b.asked
  /\ \A i \in DOMAIN a.benefit : a.benefit[i] >= b.benefit[i]
  /\ a.urgency >= b.urgency /\ a.owed >= b.owed
  /\ \A i \in DOMAIN a.cost : a.cost[i] <= b.cost[i]
  /\ a.over <= b.over
  /\ \/ \E i \in DOMAIN a.benefit : a.benefit[i] > b.benefit[i]
     \/ a.urgency > b.urgency \/ a.owed > b.owed
     \/ \E i \in DOMAIN a.cost : a.cost[i] < b.cost[i]
     \/ a.over < b.over

\* _pareto_prune.
Kept(active) == {b \in active : ~\E a \in active : a # b /\ Dominates(a, b)}

LaneRank(lane) == CASE lane = "REACTIVE" -> 3 [] lane = "OPPORTUNISTIC" -> 2 [] OTHER -> 1

\* _tie_key.
TieKey(c) ==
  <<IF c.asked THEN 1 ELSE 0, LaneRank(c.lane), c.benefit[6], 0 - c.cost[1],
    0 - c.over, 0 - c.cost[2]>>

Outranks(a, b) ==
  \E i \in DOMAIN TieKey(a) :
    /\ TieKey(a)[i] > TieKey(b)[i]
    /\ \A j \in 1..(i - 1) : TieKey(a)[j] = TieKey(b)[j]

\* plan, up to the explicit requests: an active request leaves no other.
Active(p) ==
  LET active == {c \in Proposals : Eligible(c) /\ Activated(c, p)}
      asked == {c \in active : c.asked}
  IN IF ~ContextComplete THEN {} ELSE IF asked # {} THEN asked ELSE active

\* plan, to the end.  Among equal keys the code takes the lowest candidate_id,
\* a digest: any of them here.
Finalists(p) ==
  LET kept == Kept(Active(p))
      best == Max({Utility(c, p) : c \in kept})
      tied == {c \in kept : best - Utility(c, p) <= TieEpsilon}
  IN IF kept = {} THEN {} ELSE {c \in tied : ~\E d \in tied : Outranks(d, c)}

Chosen == Finalists(Profile(setting.profile))

(***************************************************************************)
(* The loop                                                                *)
(***************************************************************************)
\* An opening is delivered for the selected target: an exposure, and the
\* serving event repays the debt (ledger.serve).
Present(t) ==
  /\ \E c \in Chosen : c.target = t
  /\ exposures[t] < MaxShown
  /\ exposures' = [exposures EXCEPT ![t] = @ + 1]
  /\ debt' = [debt EXCEPT ![t] = 0]
  /\ UNCHANGED <<facts, setting>>

\* accrue: a quarter at a time; more than the whole is refused.
Accrue(t) ==
  /\ debt[t] + 5 <= 20
  /\ debt' = [debt EXCEPT ![t] = @ + 5]
  /\ UNCHANGED <<facts, setting, exposures>>

\* The window of overexposure_of moves past every presentation.
WindowPasses ==
  /\ \E t \in Foci : exposures[t] # 0
  /\ exposures' = [t \in Foci |-> 0]
  /\ UNCHANGED <<facts, setting, debt>>

Next ==
  \/ \E t \in Foci : Present(t) \/ Accrue(t)
  \/ WindowPasses

(***************************************************************************)
(* Properties                                                              *)
(***************************************************************************)
\* Pruning is an economy, not a policy: it never turns a decision into
\* NO_TARGET, and the selected candidate is within the tie window of the best
\* of everything that was activated.
PruningNeverDecides ==
  LET p == Profile(setting.profile)  active == Active(p)
  IN /\ active # {} => Chosen # {}
     /\ \A c \in Chosen, d \in active : Utility(d, p) - Utility(c, p) <= TieEpsilon

\* A request is honoured: with a current schedule and the content for it, the
\* target the learner focused on is selected, whatever the profile, the flow,
\* the automatic suppression or a JUST_CHAT switch say.
RequestsAreHonoured ==
  \A t \in setting.focus :
    (/\ ContextComplete /\ InSupply(t)
     /\ facts[t].level \in {"R3", "R4"}
     /\ PrerequisiteState(facts[t].edges).state \in {"READY", "READY_WITH_SCAFFOLD"})
      => Chosen # {} /\ \A c \in Chosen : c.target \in setting.focus

\* Coverage is not starved: when debt is what is being serviced, no target is
\* served ahead of one that owes at least half as much again, was not shown
\* more often and is otherwise alike.
DebtIsServedFirst ==
  \A c \in Chosen, u \in Foci :
    (/\ c.source = "COVERAGE_DEBT"
     /\ facts[u] = facts[c.target]
     /\ {u, c.target} \cap (setting.suppress \cup setting.noReview) = {}
     /\ exposures[u] <= exposures[c.target])
      => debt[u] < debt[c.target] + 10

\* The profiles are a ladder: what a quieter profile would open on its own, a
\* louder one opens too.
LouderOpensMore ==
  /\ Active(Profile("LOUNGE")) \subseteq Active(Profile("BALANCED"))
  /\ Active(Profile("BALANCED")) \subseteq Active(Profile("STUDY_FIRST"))
============================================================================
