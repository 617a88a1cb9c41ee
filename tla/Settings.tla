------------------------------ MODULE Settings ------------------------------
(***************************************************************************)
(* The user's versioned documents (user_config/store.py, web.py): goals,   *)
(* teaching policy and disclosure policy are read, edited and written      *)
(* under the next version, and the rollout tier, which is persisted and    *)
(* swapped into the running process.  Two processes may have the database  *)
(* open and only the runtime fence tells them apart.                       *)
(***************************************************************************)
EXTENDS Naturals, Sequences, FiniteSets

CONSTANTS
  Words,        \* frequency words, knob values, goal combinations, tiers
  MaxVersion,   \* bound: versions of all documents together
  Levels,       \* disclosure levels, least first
  PersonaRules  \* rule lists a request may carry: sequences of [who, level]

VARIABLES
  era,          \* runtime_epoch
  doc,          \* the rows: [goals, teaching, disclosure |-> [ver, body]]
  edit,         \* what each process has read and means to write
  tier,         \* app_setting rollout_stage
  wiring        \* per process: the rollout stage its coordinator holds

policyVars == <<era, doc, edit, tier, wiring>>
Procs == 1..2
Docs == {"goals", "teaching", "disclosure"}
NoEdit == [of |-> "none"]
Versions == doc["goals"].ver + doc["teaching"].ver + doc["disclosure"].ver

Init ==
  /\ era = 1 /\ edit = [p \in Procs |-> NoEdit]
  /\ doc = [goals |-> [ver |-> 0, body |-> <<>>], disclosure |-> [ver |-> 0, body |-> <<>>],
            teaching |-> [ver |-> 0, body |-> [freq |-> "none", knob |-> "none"]]]
  /\ tier = "none" /\ wiring = [p \in Procs |-> "none"]

\* open_host of a second process: it reads the stored tier.
StartSecond ==
  /\ era = 1 /\ era' = 2 /\ wiring' = [wiring EXCEPT ![2] = tier]
  /\ UNCHANGED <<doc, edit, tier>>

\* _next_version
NextVersion(d) == doc[d].ver + 1

\* What a save handler does before its write: an unchanged body is answered
\* without one.
Means(p, d, body, by) ==
  /\ edit[p] = NoEdit /\ p <= era /\ Versions < MaxVersion
  /\ body # doc[d].body
  /\ edit' = [edit EXCEPT ![p] = [of |-> d, ver |-> NextVersion(d), body |-> body, by |-> by]]
  /\ UNCHANGED <<era, doc, tier, wiring>>

\* goals_save: the combination as a whole.
GoalsSave(p, w) == Means(p, "goals", <<w>>, "goals")

\* teaching_frequency: one word, the rest as it was read.
TeachingFrequency(p, w) ==
  /\ doc["teaching"].body.freq # w
  /\ Means(p, "teaching", [doc["teaching"].body EXCEPT !.freq = w], "frequency")

\* teaching_policy_save: every knob, the frequency included.
TeachingPolicySave(p, w, v) == Means(p, "teaching", [freq |-> w, knob |-> v], "knobs")

\* _disclosure_request_rules: one rule per persona and one default at most.
WellFormed(list) == \A i, j \in DOMAIN list : list[i].who = list[j].who => i = j

\* disclosure_save: the list as a whole.
DisclosureSave(p, list) == WellFormed(list) /\ Means(p, "disclosure", list, "rules")

\* Faulty variant: any process may write.
AnyProcess(p) == TRUE

\* _require_current_epoch
Fenced(p) == p = era

\* upsert_goal_portfolio, upsert_teaching_policy, set_disclosure_policy: the
\* version it holds already is a conflict, any other replaces the row.
Upsert(p, d) ==
  /\ edit[p].of = d
  /\ doc' = IF Fenced(p) /\ edit[p].ver # doc[d].ver
            THEN [doc EXCEPT ![d] = [ver |-> edit[p].ver, body |-> edit[p].body]] ELSE doc
  /\ edit' = [edit EXCEPT ![p] = NoEdit]
  /\ UNCHANGED <<era, tier, wiring>>
UpsertGoalPortfolio(p) == Upsert(p, "goals")
UpsertTeachingPolicy(p) == Upsert(p, "teaching")
SetDisclosurePolicy(p) == Upsert(p, "disclosure")

\* mode_save: persisted first (AppSettingStore.set, fenced), then swapped in;
\* the tier the process already holds is answered without a write.
ModeSave(p, w) ==
  /\ p <= era /\ wiring[p] # w /\ Fenced(p)
  /\ tier' = w /\ wiring' = [wiring EXCEPT ![p] = w]
  /\ UNCHANGED <<era, doc, edit>>

Next ==
  \/ StartSecond
  \/ \E p \in Procs : UpsertGoalPortfolio(p) \/ UpsertTeachingPolicy(p) \/ SetDisclosurePolicy(p)
  \/ \E p \in Procs, w \in Words : GoalsSave(p, w) \/ TeachingFrequency(p, w) \/ ModeSave(p, w)
                                    \/ \E v \in Words : TeachingPolicySave(p, w, v)
  \/ \E p \in Procs, list \in PersonaRules : DisclosureSave(p, list)

Spec == Init /\ [][Next]_policyVars

(***************************************************************************)
(* Disclosure (user_config/disclosure.py)                                  *)
(***************************************************************************)
Rank(level) == CHOOSE i \in DOMAIN Levels : Levels[i] = level

\* Faulty variant: the default rule, when there is one.
DefaultRule(list, who) ==
  LET hits == {i \in DOMAIN list : list[i].who \in {who, "default"}} IN
  IF hits = {} THEN 0 ELSE CHOOSE i \in hits : \A j \in hits : i <= j

\* _matched_rule: the first rule that names the persona, else the first
\* default rule; 0 when there is none.
MatchedRule(list, who) ==
  LET named == {i \in DOMAIN list : list[i].who = who}
      general == {i \in DOMAIN list : list[i].who = "default"}
      first(S) == CHOOSE i \in S : \A j \in S : i <= j IN
  IF named # {} THEN first(named) ELSE IF general # {} THEN first(general) ELSE 0

\* decide_disclosure: which kinds of fact the persona is told.
Disclosed(list, who) ==
  LET i == MatchedRule(list, who) IN
  IF i = 0 THEN {}
  ELSE LET n == Rank(list[i].level) IN
       {"personal"} \cup (IF n >= 2 THEN {"preferences"} ELSE {})
                    \cup (IF n >= 3 THEN {"settings"} ELSE {})
                    \cup (IF n >= 3 /\ list[i].who = who THEN {"sensitive"} ELSE {})

(***************************************************************************)
(* Properties                                                              *)
(***************************************************************************)
\* No edit is lost: a row only moves to the version after the one its editor
\* read, and the frequency editor leaves the knobs as they were, with two
\* processes reading and writing (upsert_teaching_policy, _next_version).
NoLostEdit ==
  [][\A d \in Docs : doc'[d] # doc[d] =>
       \E p \in Procs :
         /\ edit[p].of = d /\ edit'[p] = NoEdit
         /\ doc'[d].ver = doc[d].ver + 1
         /\ edit[p].by = "frequency" => doc'[d].body.knob = doc[d].body.knob]_policyVars

\* The process that holds the database decides under the tier that is stored,
\* so a restart changes nothing (mode_save, open_host).
StoredTierDecides == wiring[era] = tier

\* A rule that names a persona decides alone: adding rules for others, or a
\* default one, in front of it or behind it changes nothing, and nothing
\* sensitive is told on the strength of a default rule (_matched_rule).
NamedRuleDecides ==
  LET list == doc["disclosure"].body IN
  \A i \in DOMAIN list :
    list[i].who # "default"
      => Disclosed(list, list[i].who) = Disclosed(<<list[i]>>, list[i].who)
=============================================================================
