----------------------------- MODULE Estimator -----------------------------
(***************************************************************************)
(* The learner-state estimator (learning/estimator.py), a pure function of *)
(* the ACTIVE claims of one target, checked over every short history of    *)
(* claims.  An evidence group holds one primary claim per target           *)
(* (validate_claims), so a claim stands for its group.                     *)
(*                                                                         *)
(* Numbers are exact integers: weights and factors in twentieths, evaluator*)
(* confidence in tenths, an outcome in halves, hence a claim's mass in     *)
(* units of 1/8000 and a cluster's in 1/160000 (One).  1 - exp(-x) is      *)
(* tabulated in percent on a grid of 1/20.                                 *)
(***************************************************************************)
EXTENDS Integers, Sequences, FiniteSetsExt, TLC

CONSTANTS
  Forms,        \* the kinds of claim a history is made of
  Personas,     \* the persona the evidence was given to
  MaxLog,       \* bound: claims in a history
  MaxDay,       \* bound: days a history spans
  TargetType    \* "RESOURCE" or "CAPABILITY"

VARIABLES log, today

estVars == <<log, today>>

One == 160000
Dimensions == {"recognition", "guided", "independent", "spontaneous", "accuracy"}
LowSupport == {"NONE", "CONTEXT_ONLY"}

SupportFactor == [NONE |-> 20, CONTEXT_ONLY |-> 18, SEMANTIC_HINT |-> 14,
                  STRUCTURAL_HINT |-> 10, PARTIAL_FORM |-> 6, FULL_FORM_SHOWN |-> 2]
ExposureFactor == [NONE |-> 20, PARTIAL |-> 12, FULL |-> 3]
SupportBurden == [NONE |-> 0, CONTEXT_ONLY |-> 2, SEMANTIC_HINT |-> 7,
                  STRUCTURAL_HINT |-> 11, PARTIAL_FORM |-> 15, FULL_FORM_SHOWN |-> 19]
ExposureBurden == [NONE |-> 0, PARTIAL |-> 15, FULL |-> 19]
ErrorMultiplier == [LIKELY_SLIP |-> 4, UNKNOWN |-> 12, LIKELY_KNOWLEDGE_GAP |-> 20,
                    SYSTEMATIC_PATTERN |-> 27]
OutcomeFactor == [SUCCESS |-> 2, PARTIAL |-> 1, FAILURE |-> 2, ABSTAIN |-> 0]

PositiveWeight ==
  [RECOGNITION |-> [recognition |-> 20],
   GUIDED_PRODUCTION |-> [recognition |-> 15, guided |-> 20],
   INDEPENDENT_PRODUCTION |-> [recognition |-> 17, guided |-> 15, independent |-> 20],
   SPONTANEOUS_PRODUCTION |-> [recognition |-> 18, guided |-> 16, independent |-> 20,
                               spontaneous |-> 20],
   SELF_REPAIR |-> [recognition |-> 13, guided |-> 11, independent |-> 14]]

Direct == [RECOGNITION |-> "recognition", GUIDED_PRODUCTION |-> "guided",
           INDEPENDENT_PRODUCTION |-> "independent", SPONTANEOUS_PRODUCTION |-> "spontaneous",
           SELF_REPAIR |-> "independent"]

Production ==
  {"GUIDED_PRODUCTION", "INDEPENDENT_PRODUCTION", "SPONTANEOUS_PRODUCTION", "SELF_REPAIR",
   "FAILED_ATTEMPT", "MISUSE"}

\* Percent of 1 - exp(-k/20).
ExpTable == <<5, 10, 14, 18, 22, 26, 30, 33, 36, 39, 42, 45, 48, 50, 53, 55, 57, 59, 61, 63,
              65, 67, 68, 70, 71, 73, 74, 75, 77, 78, 79, 80, 81, 82, 83, 83, 84, 85, 86, 86,
              87, 88, 88, 89, 89, 90, 90, 91, 91, 92, 92, 93, 93, 93, 94, 94, 94, 94, 95, 95>>

OneMinusExp(k) == IF k = 0 THEN 0 ELSE ExpTable[IF k > 60 THEN 60 ELSE k]

Least(a, b) == IF a < b THEN a ELSE b

(***************************************************************************)
(* One claim                                                               *)
(***************************************************************************)
Assist(c) == Least(SupportFactor[c.support], ExposureFactor[c.exposure])

\* _cluster_key: a teaching moment is one cluster; natural evidence is
\* clustered by day and persona (the store sets no context or realization
\* key, and one conversation is considered).
ClusterKey(c) == IF c.moment THEN <<"teach">> ELSE <<"natural", c.day, c.persona>>

Counted(c) == c.conf >= 5 /\ c.outcome # "ABSTAIN"

\* _negative_dimension_map: which dimensions a failure speaks against.
NegativeWeight(c) ==
  LET natural == c.opp = "NATURAL" /\ c.support \in LowSupport
      low == c.support \in LowSupport
  IN CASE c.perf = "RECOGNITION" -> [recognition |-> 20]
       [] c.perf = "FAILED_ATTEMPT" /\ natural -> [spontaneous |-> 20, independent |-> 15]
       [] c.perf = "FAILED_ATTEMPT" /\ ~natural /\ low -> [independent |-> 20]
       [] c.perf = "FAILED_ATTEMPT" /\ ~low -> [guided |-> 20]
       [] c.perf = "MISUSE" /\ natural -> [accuracy |-> 20, spontaneous |-> 10, independent |-> 10]
       [] c.perf = "MISUSE" /\ ~natural /\ low -> [accuracy |-> 20, independent |-> 10]
       [] c.perf = "MISUSE" /\ ~low -> [accuracy |-> 20, guided |-> 10]
       [] OTHER -> <<>>

At(w, d) == IF d \in DOMAIN w THEN w[d] ELSE 0

\* Faulty variant: a PARTIAL outcome leaves no negative share.
PositiveOnly(c, d) == 0

\* What a PARTIAL outcome says against the performance's own dimension.
PartialShare(c, d) ==
  IF c.polarity = "POSITIVE" /\ c.outcome = "PARTIAL" /\ c.perf \in DOMAIN Direct
     /\ Direct[c.perf] = d
  THEN PositiveWeight[c.perf][d] * c.conf * Assist(c)
  ELSE 0

\* _claim_contribution: the mass a claim adds to a dimension, for and against.
Contribution(c, d, side) ==
  IF ~Counted(c) THEN 0
  ELSE IF side = "p"
  THEN IF c.polarity = "POSITIVE" /\ c.perf \in DOMAIN PositiveWeight
       THEN At(PositiveWeight[c.perf], d) * OutcomeFactor[c.outcome] * c.conf * Assist(c)
       ELSE 0
  ELSE PartialShare(c, d)
       + IF c.polarity = "NEGATIVE"
         THEN At(NegativeWeight(c), d) * OutcomeFactor[c.outcome] * c.conf
                * ErrorMultiplier[c.error]
         ELSE 0

StrongRetrieval(c) ==
  /\ c.polarity = "POSITIVE" /\ c.outcome = "SUCCESS"
  /\ c.perf \in {"INDEPENDENT_PRODUCTION", "SPONTANEOUS_PRODUCTION"}
  /\ c.conf >= 7
  /\ Assist(c) >= 14

\* The input contract: independent use is unassisted and unexposed, and
\* spontaneous use answers a natural opportunity.
ContractHolds(c) ==
  /\ c.perf \in {"INDEPENDENT_PRODUCTION", "SPONTANEOUS_PRODUCTION"}
       => c.support \in LowSupport /\ c.exposure = "NONE"
  /\ c.perf = "SPONTANEOUS_PRODUCTION" => c.opp = "NATURAL"

(***************************************************************************)
(* Clusters and dimensions                                                 *)
(***************************************************************************)
Clusters(cs) == {ClusterKey(cs[i]) : i \in DOMAIN cs}

RepeatWeight(i) == IF i = 1 THEN 20 ELSE IF i = 2 THEN 7 ELSE 3

\* Faulty variant: the newest of a cluster's n claims counts in full.
NewestFirst(i, n) == RepeatWeight(n + 1 - i)

\* The weight of the i-th of a cluster's n claims in the order of time.
WeightInTime(i, n) == RepeatWeight(i)

\* _aggregate_cluster: the positive values in the order of time, each repeat
\* at a lower weight, capped at 1.6 times the largest.
ClusterMass(cs, k, d, side) ==
  LET claims == SelectSeq(cs, LAMBDA c : ClusterKey(c) = k /\ Contribution(c, d, side) > 0)
      value(i) == Contribution(claims[i], d, side)
      total == MapThenSumSet(LAMBDA i : WeightInTime(i, Len(claims)) * value(i), DOMAIN claims)
  IN IF claims = <<>> THEN 0
     ELSE Least(total, 32 * Max({value(i) : i \in DOMAIN claims}))

Mass(cs, d, side) == MapThenSumSet(LAMBDA k : ClusterMass(cs, k, d, side), Clusters(cs))

\* Days and personas behind a dimension, for the diversity bonus.
Diversity(cs, d) ==
  LET touching == {i \in DOMAIN cs :
                     \E j \in DOMAIN cs :
                       /\ ClusterKey(cs[j]) = ClusterKey(cs[i])
                       /\ \E side \in {"p", "n"} : Contribution(cs[j], d, side) > 0}
  IN [days |-> Cardinality({cs[i].day : i \in touching}),
      personas |-> Cardinality({cs[i].persona : i \in touching})]

\* _confidence_value, in percent: the mass against CONFIDENCE_TAU = 2.4,
\* and a fifth of it from diversity.  No realization key is ever set, so a
\* capability's production dimensions are capped at 65.
Confidence(mass, div, d) ==
  LET extra == 7 * (div.days - 1) + 3 * (div.personas - 1)
      value == (OneMinusExp(mass \div 19200) * (80 + OneMinusExp(extra) \div 5)) \div 100
  IN IF mass <= 0 THEN 0
     ELSE IF TargetType = "CAPABILITY" /\ d \in {"independent", "spontaneous"}
     THEN Least(value, 65) ELSE value

\* A dimension: no estimate below 0.55 of effective mass.
Known(cs, d) == 20 * (Mass(cs, d, "p") + Mass(cs, d, "n")) >= 11 * One

AtLeast(cs, d, percent) ==
  Known(cs, d) /\ 100 * (Mass(cs, d, "p") \div 100)
                    >= percent * ((Mass(cs, d, "p") + Mass(cs, d, "n")) \div 100)

ConfirmedGap(cs, d) ==
  /\ Known(cs, d)
  /\ 100 * (Mass(cs, d, "p") \div 100) <= 35 * ((Mass(cs, d, "p") + Mass(cs, d, "n")) \div 100)
  /\ Confidence(Mass(cs, d, "p") + Mass(cs, d, "n"), Diversity(cs, d), d) >= 65

(***************************************************************************)
(* Transfer, support dependency, freshness                                 *)
(***************************************************************************)
Strong(cs) == {i \in DOMAIN cs : StrongRetrieval(cs[i])}

\* Faulty variant: every strong claim stands for itself.
EveryUse(cs) == Strong(cs)

\* One representative per strong cluster: the most confident, then the latest.
Representatives(cs) ==
  {i \in Strong(cs) :
     \A j \in Strong(cs) :
       ClusterKey(cs[j]) = ClusterKey(cs[i]) =>
         \/ cs[i].conf * Assist(cs[i]) > cs[j].conf * Assist(cs[j])
         \/ cs[i].conf * Assist(cs[i]) = cs[j].conf * Assist(cs[j]) /\ i >= j}

StrongPersonas(cs) == {cs[i].persona : i \in Representatives(cs)}

\* The mass of the representatives given to another persona than the first.
TransferMass(cs) ==
  IF Representatives(cs) = {} THEN 0
  ELSE LET base == cs[Min(Representatives(cs))]
       IN MapThenSumSet(LAMBDA i : IF cs[i].persona # base.persona
                                   THEN 20 * cs[i].conf * Assist(cs[i]) * 40 ELSE 0,
                        Representatives(cs))

TransferKnown(cs) ==
  /\ Cardinality(Representatives(cs)) >= 2
  /\ Cardinality(StrongPersonas(cs)) >= 2
  /\ TargetType # "CAPABILITY"
  /\ 20 * TransferMass(cs) >= 11 * One

\* What a claim says about needing help: its kind, burden and mass.
Burden(c) == IF c.polarity = "POSITIVE"
             THEN Max({SupportBurden[c.support], ExposureBurden[c.exposure]}) ELSE 20

DependencyKind(c) ==
  IF c.polarity = "POSITIVE"
  THEN IF Burden(c) <= 2 THEN "low_success" ELSE "assisted_success"
  ELSE IF c.support \in LowSupport THEN "low_failure" ELSE "supported_failure"

DependencyMass(c) ==
  OutcomeFactor[c.outcome] * c.conf
    * IF c.polarity = "POSITIVE" THEN 20 ELSE ErrorMultiplier[c.error]

Speaks(c) == c.perf \in Production /\ c.conf >= 5 /\ c.outcome # "ABSTAIN"

\* Correlated repeats diminish here as they do for mass.
KindMass(cs, kinds) ==
  LET spoken == SelectSeq(cs, Speaks)
      rank(i) == Cardinality({j \in 1..i : ClusterKey(spoken[j]) = ClusterKey(spoken[i])})
  IN MapThenSumSet(LAMBDA i : DependencyMass(spoken[i]) * RepeatWeight(rank(i)),
                   {i \in DOMAIN spoken : DependencyKind(spoken[i]) \in kinds})

DependencyTotal(cs) ==
  KindMass(cs, {"low_success", "assisted_success", "low_failure", "supported_failure"})

\* Faulty variant: enough observations of any kind identify dependency.
EnoughObservations(cs) == 5 * DependencyTotal(cs) >= 6 * 8000

\* Dependency needs low-support successes, or assisted successes together
\* with low-support failures.
DependencyKnown(cs) ==
  /\ 5 * DependencyTotal(cs) >= 6 * 8000
  /\ \/ 5 * KindMass(cs, {"low_success"}) >= 6 * 8000
     \/ /\ 2 * KindMass(cs, {"assisted_success"}) >= 8000
        /\ 2 * KindMass(cs, {"low_failure"}) >= 8000

\* Freshness of the last strong retrieval, in days.
Freshness(cs, day) ==
  IF Strong(cs) = {} THEN "UNKNOWN"
  ELSE LET since == day - cs[Max(Strong(cs))].day
       IN IF since <= 7 THEN "FRESH" ELSE IF since <= 21 THEN "AGING" ELSE "STALE"

(***************************************************************************)
(* The projection                                                          *)
(***************************************************************************)
AbilityBand(cs) ==
  IF AtLeast(cs, "spontaneous", 75) /\ ~ConfirmedGap(cs, "independent") THEN "SPONTANEOUS"
  ELSE IF AtLeast(cs, "independent", 75) /\ ~ConfirmedGap(cs, "guided") THEN "INDEPENDENT"
  ELSE IF AtLeast(cs, "guided", 75) THEN "GUIDED"
  ELSE IF \E d \in {"guided", "independent", "spontaneous"} : Known(cs, d) THEN "EARLY"
  ELSE "UNKNOWN"

\* MULTI_CONTEXT asks for three context keys, which the store never sets.
TransferBand(cs) ==
  IF ~TransferKnown(cs)
  THEN IF AtLeast(cs, "independent", 75) \/ AtLeast(cs, "spontaneous", 75)
       THEN "NARROW" ELSE "UNTESTED"
  ELSE "CROSS_CONTEXT"

StrongDays(cs) == {cs[i].day : i \in Representatives(cs)}

StabilityBand(cs, day) ==
  IF Strong(cs) = {} THEN "UNTESTED"
  ELSE IF Cardinality(Representatives(cs)) < 2 THEN "FRAGILE"
  ELSE IF Freshness(cs, day) = "STALE" THEN "STALE"
  ELSE IF Cardinality(Representatives(cs)) >= 4 /\ Cardinality(StrongDays(cs)) >= 2
  THEN "STABLE" ELSE Freshness(cs, day)

(***************************************************************************)
(* Histories                                                               *)
(***************************************************************************)
Init == log = <<>> /\ today = 0

Observe(f, k) ==
  /\ Len(log) < MaxLog
  /\ ContractHolds(f)
  /\ log' = Append(log, [day |-> today, persona |-> k] @@ f)
  /\ UNCHANGED today

DayPasses ==
  /\ today < MaxDay
  /\ today' = today + 1
  /\ UNCHANGED log

Next == DayPasses \/ \E f \in Forms, k \in Personas : Observe(f, k)

(***************************************************************************)
(* Properties                                                              *)
(***************************************************************************)
\* Appended evidence never lowers what was there: a later claim raises, or
\* leaves, the mass for and against every dimension, although repeats are
\* discounted by their place in the cluster and the cluster is capped.
EvidenceOnlyAdds ==
  \A d \in Dimensions, side \in {"p", "n"} :
    Mass(log', d, side) >= Mass(log, d, side)

EvidenceOnlyAddsAlways == [][EvidenceOnlyAdds]_estVars

\* "repeated partial performance converges to partial control": however often
\* and however widely repeated, PARTIAL outcomes alone never earn the
\* SPONTANEOUS band, and never show mastery of their own dimension.
PartialIsNotMastery ==
  (\A i \in DOMAIN log : log[i].outcome = "PARTIAL") =>
    /\ AbilityBand(log) # "SPONTANEOUS"
    /\ \A p \in DOMAIN Direct :
         (\A i \in DOMAIN log : log[i].perf = p) => ~AtLeast(log, Direct[p], 75)

\* "repeated uses inside one new condition never multiply transfer": strong
\* use in one cluster only leaves transfer unproved and stability FRAGILE,
\* however many claims the cluster holds.
RepetitionIsNotBreadth ==
  Cardinality({ClusterKey(log[i]) : i \in Strong(log)}) <= 1 =>
    /\ TransferBand(log) \in {"NARROW", "UNTESTED"}
    /\ StabilityBand(log, today) \in {"FRAGILE", "UNTESTED"}

\* Support dependency is "NOT inferable from repeated unsupported failure
\* alone": a history without one success leaves it unknown.
FailureIsNotDependency ==
  (\A i \in DOMAIN log : log[i].polarity = "NEGATIVE") => ~DependencyKnown(log)
=============================================================================
