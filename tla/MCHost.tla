------------------------------- MODULE MCHost -------------------------------
(***************************************************************************)
(* What one installation keeps, in one run: the projections of its         *)
(* conversations, its content artifact, its built-in worlds, the user's    *)
(* settings, constraints and provider, and what a deletion leaves.  Each   *)
(* component is explored by itself: the initial state picks the part that  *)
(* moves, and the others keep their initial values.                        *)
(***************************************************************************)
EXTENDS Projections, Sequences, FiniteSets

CONSTANTS
  Chats, Memories, Studied, MaxRequests,
  Words, MaxVersion, Levels, PersonaRules,
  Profiles, Endpoints, Insecure, Launch,
  Entities, Nodes, DocForms, LinkForms, Pilot, Errors, FirstSource, MaxEdits,
  Rules, RuleForms, FocusIds, Stamps, Targets, MaxNow, MaxFlips, MaxRows,
  Packages, Fields, Texts, MaxRevision, MaxPending, Original

VARIABLES
  part,
  chats, claims, learner, review, memory, summary, lesson, lock, legs, tomb,
  todo, requests, refused, interrupted,
  era, doc, edit, tier, wiring,
  profile, held, saved, live, swap, died,
  source, detector, build, temp, published, content, targets, edits,
  rules, foci, instant, newest, opening, flips,
  package, stored, reign, start, looked, raced, broken,
  bible, waiting, chapter, founding, wish, due, torn

delVars        == <<chats, claims, learner, review, memory, summary, lesson, lock, legs, tomb,
                    todo, requests, refused, interrupted>>
policyVars     == <<era, doc, edit, tier, wiring>>
providerVars   == <<profile, held, saved, live, swap, died>>
contentVars    == <<source, detector, build, temp, published, content, targets, edits>>
constraintVars == <<rules, foci, instant, newest, opening, flips>>
foundVars      == <<package, stored, reign, start, looked, raced, broken,
                    bible, waiting, chapter, founding, wish, due, torn>>

Deleting == INSTANCE Deletion WITH episode <- summary
Policy   == INSTANCE Settings
Provider == INSTANCE ProviderSwitch
Building == INSTANCE ContentBuild
Limits   == INSTANCE Constraints
Worlds   == INSTANCE Founding WITH leg <- founding

\* The first turn says two things, the second repeats one of them.
MCProposed(t) == IF t = 1 THEN {"a", "b"} ELSE {"a"}

MCLevels == <<"MINIMAL", "FUNCTIONAL", "RICH">>
MCPersonaRules ==
  UNION {[1..n -> [who : {"x", "default"}, level : {"MINIMAL", "RICH"}]] : n \in 1..2}

MCEndpoints == {<<"u1", "m1">>, <<"u2", "m2">>, <<"bad", "m1">>}
MCInsecure == {<<"bad", "m1">>}
MCLaunch == <<"u1", "m1">>

Blocks == {"index", "lexical", "plan", "teach", "detect"}
Doc(errors, positives, negatives, blocks) ==
  [life |-> "CANONICAL_APPROVED", errors |-> errors, positives |-> positives,
   negatives |-> negatives, blocks |-> blocks, needs |-> TRUE, reveals |-> TRUE]
FullDoc == Doc({"x"}, {"x"}, TRUE, Blocks)
MCDocs ==
  {FullDoc, [FullDoc EXCEPT !.life = "DRAFT"], [FullDoc EXCEPT !.reveals = FALSE],
   Doc({}, {}, FALSE, Blocks), Doc({"x"}, {}, TRUE, Blocks),
   Doc({"x", "y"}, {"x", "y"}, TRUE, Blocks \ {"plan"})}
Link(r, n, p) == [resource |-> r, node |-> n, primary |-> p, approved |-> TRUE]
MCLinks == {Link("e1", "n1", TRUE), Link("e1", "n2", TRUE), Link("e2", "n2", FALSE)}
MCSource ==
  [docs |-> [e \in {"e1", "e2"} |-> IF e = "e1" THEN FullDoc ELSE [life |-> "none"]],
   links |-> {Link("e1", "n1", TRUE)}, nodes |-> {"n1", "n2"}, audits |-> {}]

\* A stamp's instant and its place as text differ when offsets do.
At(n, m) == [time |-> n, text |-> m]
MCStamps == {At(1, 1), At(2, 2), At(1, 3), At(0, 2)}
MCRules ==
  LET Rule(type, kind, x, from, to) ==
        [type |-> type, kind |-> kind, target |-> x, from |-> from, to |-> to,
         active |-> TRUE, turn |-> "none"]
      open == At(0, 0)
  IN {Rule("JUST_CHAT", "none", "none", At(1, 1), to) : to \in {open, At(1, 1)}}
       \cup {Rule("SUPPRESS_REVIEW", "R", x, At(1, 1), open) : x \in {"a", "none"}}
       \cup {Rule("DO_NOT_AUTO_TEACH", kind, "none", At(1, 1), open) : kind \in {"R", "none"}}
       \cup {Rule("MANUAL_FOCUS", "R", "a", At(1, 1), At(1, 1)),
             Rule("MANUAL_FOCUS", "none", "none", At(1, 1), open),
             Rule("JUST_CHAT", "none", "none", At(2, 2), open),
             Rule("SUPPRESS_REVIEW", "R", "b", At(0, 1), open),
             [Rule("JUST_CHAT", "none", "none", At(1, 1), open) EXCEPT !.turn = "unknown"]}

MCPackages == {[cast |-> {"a"}, residents |-> {"b"}, voices |-> <<"b">>],
               [cast |-> {"a"}, residents |-> {"a"}, voices |-> <<>>]}

\* A database holds finitely many conversations and targets, and no memory is
\* called "none".
ASSUME RowsAssumption == IsFiniteSet(Chats) /\ IsFiniteSet(Studied) /\ "none" \notin Memories

\* A request's rule list is a list of rules (_disclosure_request_rules).
ASSUME RuleListsAssumption == PersonaRules \subseteq Seq([who : STRING, level : STRING])

\* A saved endpoint has both halves (provider_save, provider_profile_save).
ASSUME EndpointsAssumption ==
  \A e \in Endpoints : e = <<e[1], e[2]>> /\ e[1] # "none" /\ e[2] # "none"

\* A stamp's instant and its place among the stamps as text.
ASSUME StampsAssumption == Stamps \subseteq [time : Nat, text : Nat]

\* Focus ids are ordered, and a conversation has finitely many.
ASSUME FocusesAssumption == FocusIds \subseteq Nat /\ IsFiniteSet(FocusIds)

\* The columns of a planner_constraint row.
ASSUME RuleFormsAssumption ==
  RuleForms \subseteq
    [type : STRING, kind : STRING, target : STRING, from : [time : Nat, text : Nat],
     to : [time : Nat, text : Nat], active : BOOLEAN, turn : STRING]

HostInit ==
  /\ part \in {"projections", "deletion", "settings", "provider", "content", "constraints", "worlds"}
  /\ Init /\ Deleting!Init /\ Policy!Init /\ Provider!Init /\ Building!Init /\ Limits!Init
  /\ Worlds!Init /\ (part = "worlds" \/ package = CHOOSE p \in Packages : TRUE)

HostNext ==
  /\ UNCHANGED part
  /\ IF part = "projections" THEN Next ELSE UNCHANGED vars
  /\ IF part = "deletion" THEN Deleting!Next ELSE UNCHANGED delVars
  /\ IF part = "settings" THEN Policy!Next ELSE UNCHANGED policyVars
  /\ IF part = "provider" THEN Provider!Next ELSE UNCHANGED providerVars
  /\ IF part = "content" THEN Building!Next ELSE UNCHANGED contentVars
  /\ IF part = "constraints" THEN Limits!Next ELSE UNCHANGED constraintVars
  /\ IF part = "worlds" THEN Worlds!Next ELSE UNCHANGED foundVars

hostVars ==
  <<part, vars, delVars, policyVars, providerVars, contentVars, constraintVars, foundVars>>

HostSpec == HostInit /\ [][HostNext]_hostVars
----------------------------------------------------------------------------
\* A deletion takes what was asked for and nothing of the other conversations;
\* nothing that is kept names what is gone, and after the rebuilds no derived
\* row rests on it (deletion/store.py, controller.py).
DeletionsAreClean ==
  /\ [](part = "deletion" => Deleting!NoDanglingProvenance /\ Deleting!DerivedFromWhatIsLeft)
  /\ Deleting!OthersKeepTheirMemories

\* No edit of a setting is lost to a concurrent process, the stored tier is
\* the deciding one, and a rule that names a persona decides alone
\* (user_config/store.py, disclosure.py).
SettingsAreKept ==
  /\ [](part = "settings" => Policy!NamedRuleDecides /\ Policy!StoredTierDecides)
  /\ Policy!NoLostEdit

\* The stored profile pointer and the stored endpoint are what the provider
\* dials, now and after a restart (web.py).
ProviderIsAsStored ==
  part = "provider" => Provider!PointerIsHonest /\ Provider!RestartKeepsEndpoint

\* Whatever is edited while an artifact is built and wherever a build dies:
\* what anyone reads hangs together, opens nothing untested, and calls ready
\* only what can be taught (content/build.py, content/store.py).
ArtifactsAreTrustworthy ==
  part = "content" =>
    Building!ArtifactsAreSound /\ Building!VerifiedIsTested /\ Building!ReadyIsUsable

\* A constraint that stands from the letter to the opening is honoured by the
\* planner or the guard, and page and planner agree on the focus
\* (planner/constraints.py, controller.py).
ConstraintsAreHonoured ==
  Limits!StandingConstraintsHold /\ [](part = "constraints" => Limits!FocusReadsAgree)

\* A started host is whole, nothing the user does keeps it from starting, and
\* the Bible says what the user last directed (world/package.py, ds_web.py).
WorldsAreFounded ==
  part = "worlds" => Worlds!StartedIsWhole /\ Worlds!StartsSucceed /\ Worlds!BibleIsAsDirected
=============================================================================
