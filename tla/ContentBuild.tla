---------------------------- MODULE ContentBuild ----------------------------
(***************************************************************************)
(* The content artifact (content/build.py, content/store.py) and who reads *)
(* it (curriculum/, teaching/rollout.py).  Authors edit the source trees;  *)
(* the builder reads them once, checks them as a whole, writes a temporary *)
(* file and moves it into place; a host opens what is in place, one        *)
(* connection at its start and one when it first resolves a target.        *)
(***************************************************************************)
EXTENDS Naturals, FiniteSets

CONSTANTS
  Entities,      \* content entities
  Nodes,         \* capability nodes
  DocForms,      \* documents an author may write for an entity
  LinkForms,     \* curriculum links: [resource, node, primary, approved]
  Pilot,         \* entities that have a registered detector
  Errors,        \* typical error types
  FirstSource,   \* the source trees as they are at first
  MaxEdits       \* bound: edits and detector releases

VARIABLES
  source,     \* the trees: [docs, links, nodes, audits]
  detector,   \* what the shipped detectors find: [finds, noisy]
  build,      \* the running build: [at, src]
  temp,       \* the temporary file: NoFile, Partial or an artifact
  published,  \* content.db: NoFile or an artifact
  content,    \* the artifact behind the host's own connection
  targets,    \* the artifact behind its target provider
  edits

contentVars == <<source, detector, build, temp, published, content, targets, edits>>

NoDoc == [life |-> "none"]
Present(s) == {e \in Entities : s.docs[e] # NoDoc}
NoFile == [file |-> "none"]
Partial == [file |-> "partial"]
Resting == [at |-> "idle", src |-> FirstSource]

Init ==
  /\ source = FirstSource /\ detector = [finds |-> Errors, noisy |-> FALSE]
  /\ build = Resting /\ temp = NoFile /\ published = NoFile
  /\ content = NoFile /\ targets = NoFile /\ edits = 0

(***************************************************************************)
(* Authors and releases                                                    *)
(***************************************************************************)
Edit ==
  /\ edits < MaxEdits /\ edits' = edits + 1
  /\ \/ \E e \in Entities, d \in DocForms \cup {NoDoc} :
          source' = [source EXCEPT !.docs[e] = d]
     \/ \E l \in LinkForms :
          source' = [source EXCEPT !.links = IF l \in @ THEN @ \ {l} ELSE @ \cup {l}]
     \/ \E n \in Nodes : source' = [source EXCEPT !.nodes = @ \ {n}]
     \/ \E e \in Entities : source' = [source EXCEPT !.audits = @ \cup {e}]
  /\ UNCHANGED <<detector, build, temp, published, content, targets>>

Release ==
  /\ edits < MaxEdits /\ edits' = edits + 1
  /\ \E f \in SUBSET Errors, n \in BOOLEAN : detector' = [finds |-> f, noisy |-> n]
  /\ UNCHANGED <<source, build, temp, published, content, targets>>

(***************************************************************************)
(* The builder                                                             *)
(***************************************************************************)
\* _entity_from_document: what is revealed is one of the canonical forms.
EntitySound(d) == d.reveals

\* _evidence_from_document: positive fixtures and declared error types are
\* the same set.
EvidenceSound(d) == d.positives = d.errors

\* _audits_from_directory
AuditsSound(s) == s.audits \subseteq Present(s)

\* Faulty variant: the links may name anything and several of them be primary.
LinksUnchecked(s) == TRUE

\* _check_references
ReferencesSound(s) ==
  /\ \A l \in s.links : l.resource \in Present(s) /\ l.node \in s.nodes
  /\ \A l, k \in s.links : (l.primary /\ k.primary /\ l.resource = k.resource) => l = k

\* load_source
LoadSource ==
  /\ build.at = "idle"
  /\ Present(source) # {}
  /\ \A e \in Present(source) : EntitySound(source.docs[e]) /\ EvidenceSound(source.docs[e])
  /\ AuditsSound(source) /\ ReferencesSound(source)
  /\ build' = [at |-> "open", src |-> source]
  /\ UNCHANGED <<source, detector, temp, published, content, targets, edits>>

\* build_content_db: what an earlier build left behind is removed.
OpenTemp ==
  /\ build.at = "open" /\ build' = [build EXCEPT !.at = "write"]
  /\ temp' = Partial
  /\ UNCHANGED <<source, detector, published, content, targets, edits>>

\* run_fixtures: a fixture for every positive, and clean text if there is any.
FixtureCount(d) == Cardinality(d.positives) + (IF d.negatives THEN 1 ELSE 0)
AllPassed(d) == d.positives \subseteq detector.finds /\ (d.negatives => ~detector.noisy)

\* _run_registered_detectors
Verified(s) == {e \in Pilot : AllPassed(s.docs[e]) /\ FixtureCount(s.docs[e]) > 0}

\* _provenance_rows
Provenance(s) ==
  [e \in Present(s) |-> IF e \in Verified(s) THEN "EXECUTABLY_VERIFIED"
                        ELSE IF e \in s.audits THEN "REVIEWED" ELSE "BASELINE"]

\* _verification_profile_row: which detectors verified.
Profile == detector

\* _write_evidence_rows
Artifact(s) == [src |-> s, provenance |-> Provenance(s), by |-> Profile]

\* _write_rows, in one transaction; a registered detector without a document
\* refuses the build and the temporary file is removed.
WriteRows ==
  /\ build.at = "write"
  /\ IF Pilot \subseteq Present(build.src)
     THEN /\ temp' = Artifact(build.src)
          /\ build' = [build EXCEPT !.at = "move"]
     ELSE temp' = NoFile /\ build' = Resting
  /\ UNCHANGED <<source, detector, published, content, targets, edits>>

\* os.replace
Publish ==
  /\ build.at = "move" /\ build' = Resting
  /\ published' = temp /\ temp' = NoFile
  /\ UNCHANGED <<source, detector, content, targets, edits>>

BuilderDies ==
  /\ build.at # "idle" /\ build' = Resting
  /\ UNCHANGED <<source, detector, temp, published, content, targets, edits>>

(***************************************************************************)
(* Readers                                                                 *)
(***************************************************************************)
\* open_host: the artifact the content store and the provenance come from.
OpenHost ==
  /\ published # NoFile /\ content' = published /\ targets' = NoFile
  /\ UNCHANGED <<source, detector, build, temp, published, edits>>

\* _supply_result: the target provider opens the file when it is first asked.
FirstResolve ==
  /\ content # NoFile /\ targets = NoFile /\ targets' = published
  /\ UNCHANGED <<source, detector, build, temp, published, content, edits>>

\* has_approved_curriculum_mapping
Mapped(a, e) == \E l \in a.src.links : l.resource = e /\ l.approved

\* evidence_counts: the blocks of a document stand for the rows.
Counts(a, e, block) == block \in a.src.docs[e].blocks

\* Faulty variant: a teaching note counts before its entity is approved.
NoteCounts(a, e, k) ==
  LET d == a.src.docs[e] IN
  CASE k = 2 -> Counts(a, e, "plan") /\ Mapped(a, e)
    [] k = 3 -> Counts(a, e, "teach") /\ (d.needs => d.errors # {})
    [] k = 4 -> Counts(a, e, "detect") /\ d.negatives
    [] OTHER -> Counts(a, e, IF k = 0 THEN "index" ELSE "lexical")

\* readiness_facts: whether the keys a level adds are there.
FactsOf(a, e, k) ==
  LET d == a.src.docs[e] IN
  CASE k = 2 -> Counts(a, e, "plan") /\ Mapped(a, e)
    [] k = 3 -> Counts(a, e, "teach") /\ d.life = "CANONICAL_APPROVED" /\ (d.needs => d.errors # {})
    [] k = 4 -> Counts(a, e, "detect") /\ d.negatives
    [] OTHER -> Counts(a, e, IF k = 0 THEN "index" ELSE "lexical")

\* judge_readiness: the highest level with none missing below it; -1: none.
LevelOf(a, e) ==
  LET reached == {k \in 0..4 : \A j \in 0..k : FactsOf(a, e, j)} IN
  Cardinality(reached) - 1

\* _primary_realization_node raises for more than one.
Primaries(a, e) == {l \in a.src.links : l.resource = e /\ l.primary /\ l.approved}

\* _resolve and _statuses_for
Resolve(a, e) ==
  IF e \notin Present(a.src) THEN "NOT_FOUND"
  ELSE IF a.src.docs[e].life = "CANONICAL_APPROVED" THEN "VALID" ELSE "INVALID"

\* Faulty variant: the level alone opens the row.
LevelOnly(a, e) == TRUE

\* _provenance_reaches_executable
ReachesExecutable(a, e) == a.provenance[e] = "EXECUTABLY_VERIFIED"

\* _row_of: the targets that count for the row of automatic teaching on an
\* error of the user.
UsableForErrors(a) ==
  {e \in Present(a.src) : LevelOf(a, e) >= 4 /\ ReachesExecutable(a, e)}

Next ==
  \/ Edit \/ Release \/ LoadSource \/ OpenTemp \/ WriteRows \/ Publish \/ BuilderDies
  \/ OpenHost \/ FirstResolve

Spec == Init /\ [][Next]_contentVars

(***************************************************************************)
(* Properties                                                              *)
(***************************************************************************)
Held == {published, content, targets} \ {NoFile}

\* Every artifact anyone can read hangs together, whatever was edited while
\* it was built and wherever a build died: links lead somewhere, and no
\* entity has two primary nodes, for which every read of its teaching content
\* would raise (_check_references, _primary_realization_node).
ArtifactsAreSound ==
  \A a \in Held : \A l \in a.src.links :
    /\ l.resource \in Present(a.src) /\ l.node \in a.src.nodes
    /\ Cardinality(Primaries(a, l.resource)) <= 1

\* Automatic teaching on an error is only opened by an entity whose every
\* declared error type was found by the detectors the artifact was built
\* with, none of it on clean text, and by at least one fixture
\* (_run_registered_detectors, _evidence_from_document, _row_of).
VerifiedIsTested ==
  \A a \in Held : \A e \in UsableForErrors(a) :
    LET d == a.src.docs[e] IN
    d.errors \subseteq a.by.finds /\ ~a.by.noisy /\ (d.errors # {} \/ d.negatives)

\* What the artifact calls ready to teach can be taught: a target at level
\* three or above is resolved as valid while both connections of the host
\* hold the same artifact (judge_readiness, _statuses_for).
ReadyIsUsable ==
  (content # NoFile /\ content = targets) =>
    \A e \in Present(content.src) : LevelOf(content, e) >= 3 => Resolve(targets, e) = "VALID"
=============================================================================
