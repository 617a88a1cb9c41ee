------------------------------- MODULE Story -------------------------------
(***************************************************************************)
(* The narrative spine of the world engine: chapters, plans, scenes,       *)
(* dossiers, user gates, rulings, replan obligations, prose segments, the  *)
(* story clock and the settlement of a chapter (world/action.py,           *)
(* settlement.py, narrative/store.py, director.py, scene.py, pipeline.py,  *)
(* turns.py), driven by one of its hosts: "v3" the reading face            *)
(* (narrative_web.py), "ds" the dual-seat face (ds_web.py), "lib" a caller *)
(* of the pipeline's own API (plan, revise and resume at any time).        *)
(*                                                                         *)
(* A host runs one request at a time (the web host's owner thread), but a  *)
(* request is a chain of short transactions with model calls between them, *)
(* and it may die between any two.  One action below is one transaction    *)
(* together with the reads that decide it.                                 *)
(***************************************************************************)
EXTENDS Integers, Sequences, FiniteSets

CONSTANTS
    Hosts,          \* the hosts explored, a subset of {"v3", "ds", "lib"}
    Submissions,    \* the submission ids a reader's client may send
    Scopes,         \* the replan scopes a ruling may ask for
    Beats,          \* the script of a gated scene: a sequence over {"S", "G"}
    Refs,           \* the scene references a blueprint element may carry, 0 for none
    Casts,          \* the participant lists a planner may answer a replan with
    Ceiling,        \* the most beats one drive writes
    MaxChapters, MaxScenes, MaxGates, MaxRevisions, MaxTick, MaxAborts

ASSUME StoryAssumption ==
    /\ Scopes \subseteq {"NONE", "SCENE", "CHAPTER"} /\ "none" \notin Submissions
    /\ Refs \subseteq Nat
    /\ Beats \in Seq({"S", "G"})       \* a script closes with a segment
    /\ Beats = <<>> \/ Beats[Len(Beats)] = "S"
    /\ {MaxChapters, MaxScenes, MaxGates, MaxRevisions, MaxTick} \subseteq Nat

VARIABLES
    host,      \* which host drives this world
    tick,      \* world.current_tick
    book,      \* the chapters: plans, scenes, dossiers, gates, obligations
    commits,   \* segment_commit in landing order
    events,    \* world events the dual-seat host recorded
    job,       \* the running request
    lost       \* the points at which requests died, in order

vars == <<host, tick, book, commits, events, job, lost>>

ChapterStatus == {"PLANNED", "ACTIVE", "SETTLING", "CLOSED"}
SceneStatus == {"PLANNED", "ACTIVE", "COMMITTED", "CLOSED", "DISCARDED"}
RevisionStatus == {"PROPOSED", "ADOPTED", "SUPERSEDED", "REJECTED"}
GateStatus == {"OPEN", "ANSWERED", "RESOLVING", "COMMITTED", "CLOSED"}

-----------------------------------------------------------------------------
(* Reads of the durable rows. *)

\* The revision that is ADOPTED, 0 when none is (plans and dossiers alike).
Adopted(revs) ==
    IF \E r \in DOMAIN revs : revs[r].st = "ADOPTED"
    THEN CHOOSE r \in DOMAIN revs : revs[r].st = "ADOPTED"
    ELSE 0

Last == Len(book)                       \* the current chapter
Scenes(c) == book[c].scenes
Plan(c) == book[c].plans[Adopted(book[c].plans)]
HasPlan(c) == Adopted(book[c].plans) # 0
Dossier(c, s) == Scenes(c)[s].doss[Adopted(Scenes(c)[s].doss)]
HasDossier(c, s) == Adopted(Scenes(c)[s].doss) # 0
Gate(c, s, g) == Scenes(c)[s].gates[g]

Segments(c, s) ==
    SelectSeq(commits, LAMBDA m : m.c = c /\ m.s = s /\ m.kind = "SEGMENT")
SegmentCount(c, s) ==
    Cardinality({i \in DOMAIN commits :
        commits[i].c = c /\ commits[i].s = s /\ commits[i].kind = "SEGMENT"})

\* A gate not CLOSED; a scene holds at most one (see OneThread).
Standing(c, s) == {g \in DOMAIN Scenes(c)[s].gates : Gate(c, s, g).st # "CLOSED"}

\* The committed ruling of a gate whose continuation has not been written.
ContinuationOwed(c, s) ==
    {g \in Standing(c, s) :
        /\ Gate(c, s, g).st = "COMMITTED"
        /\ \E i \in DOMAIN commits :
             /\ commits[i].c = c /\ commits[i].s = s
             /\ commits[i].kind = "ACTION" /\ commits[i].n = g
             /\ \A k \in DOMAIN commits :
                  (commits[k].c = c /\ commits[k].s = s /\ commits[k].kind = "SEGMENT")
                      => commits[k].from < commits[i].to}

\* The ACTIVE scene, else the first PLANNED one, among the scenes in S; 0 if none.
CurrentScene(c, S) ==
    LET act == {s \in S : Scenes(c)[s].st = "ACTIVE"}
        pln == {s \in S : Scenes(c)[s].st = "PLANNED"}
        first(T) == CHOOSE s \in T : \A t \in T : s <= t
    IN IF act # {} THEN first(act) ELSE IF pln # {} THEN first(pln) ELSE 0

\* The scenes of the adopted plan still to be walked.
Roster(c) ==
    IF HasPlan(c)
    THEN {s \in DOMAIN Scenes(c) :
            s \in Plan(c).els /\ Scenes(c)[s].st \in {"PLANNED", "ACTIVE"}}
    ELSE {}

\* What still runs in chapter c and so keeps it from settling.
RunningStoryBlocker(c) ==
    \E s \in DOMAIN Scenes(c) :
        \/ Scenes(c)[s].st = "ACTIVE"
        \/ Standing(c, s) # {}
        \/ \E g \in DOMAIN Scenes(c)[s].gates : Gate(c, s, g).rp = "PENDING"

\* Some other chapter of the world is ACTIVE or SETTLING.
OverlapChapter(c) == \E d \in DOMAIN book \ {c} : book[d].st \in {"ACTIVE", "SETTLING"}

-----------------------------------------------------------------------------
(* The job record: every label a request can stand at, and what it carries. *)

NewJob ==
    [pc |-> "idle", op |-> "none", c |-> 0, s |-> 0, g |-> 0, k |-> 0, beats |-> <<>>,
     pend |-> 0, last |-> FALSE, bp |-> <<>>, fresh |-> {}, els |-> {}, back |-> "idle",
     home |-> <<0, 0, 0>>, n |-> 0, sub |-> "none", todo |-> {}]
Goto(pc) == job' = [job EXCEPT !.pc = pc]
Done == job' = NewJob
Begin(op, pc, c, s) == job' = [NewJob EXCEPT !.op = op, !.pc = pc, !.c = c, !.s = s]
Durable == UNCHANGED <<host, tick, book, commits, events, lost>>
OnlyBook == UNCHANGED <<host, tick, commits, events, lost>>

\* A library refusal ends the request; what it had landed stays.
Refused == Durable /\ Done

-----------------------------------------------------------------------------
(* The Director: opening a chapter, revising it, replanning it. *)

\* The elements of a blueprint: each names a scene index, or 0 for none.
Elements == UNION {[1..n -> Refs] : n \in 1..MaxScenes}
\* Gate beats are planned in every scene or in none.
GatedShapes == BOOLEAN
\* What a planner may answer and pass the validation with.
Blueprints == [refs : Elements, gated : GatedShapes]

\* Element o of blueprint bp lands on a scene of its own making.
IsNew(anchors, bp, o) ==
    /\ bp.refs[o] = 0
    /\ o \notin DOMAIN anchors \/ anchors[o].st = "DISCARDED"

\* The scene index element o resolves to.
TargetOf(anchors, bp, o) ==
    IF bp.refs[o] # 0 THEN bp.refs[o]
    ELSE IF IsNew(anchors, bp, o)
         THEN Len(anchors) + 1 + Cardinality({p \in 1..(o - 1) : IsNew(anchors, bp, p)})
         ELSE o

\* The refusals of the resolution: an unknown or retired anchor, an element whose
\* position belongs to another scene, two elements on one scene.
Resolvable(anchors, bp) ==
    /\ \A o \in DOMAIN bp.refs :
         bp.refs[o] # 0 =>
            /\ bp.refs[o] \in DOMAIN anchors
            /\ anchors[bp.refs[o]].st # "DISCARDED"
            /\ o \in DOMAIN anchors => o = bp.refs[o]
    /\ \A o, p \in DOMAIN bp.refs :
         TargetOf(anchors, bp, o) = TargetOf(anchors, bp, p) => o = p

Targets(anchors, bp) == {TargetOf(anchors, bp, o) : o \in DOMAIN bp.refs}
Fresh(anchors, bp) ==
    {TargetOf(anchors, bp, o) : o \in {p \in DOMAIN bp.refs : IsNew(anchors, bp, p)}}

\* The PROPOSED revision r of chapter c has exactly this payload's shape.
PlanShapeMatches(c, r, bp, els) ==
    /\ r > 0 /\ book[c].plans[r].st = "PROPOSED"
    /\ book[c].plans[r].bp = bp /\ book[c].plans[r].els = els

NewChapter == [st |-> "PLANNED", plans |-> <<>>, scenes |-> <<>>, settled |-> FALSE]
NewScene == [st |-> "PLANNED", doss |-> <<>>, gates |-> <<>>]

PlanRow(bp, els) == [st |-> "PROPOSED", bp |-> bp, els |-> els]
DossierRow(cast) == [st |-> "PROPOSED", cast |-> cast, at |-> tick]
Reject(c, r) == book' = [book EXCEPT ![c].plans[r].st = "REJECTED"]

\* The residue an opening may have left: a PLANNED chapter without a plan, with a
\* PROPOSED latest revision, or with fewer anchors than its adopted plan has scenes.
IsResidue(c) ==
    /\ book[c].st = "PLANNED"
    /\ \/ book[c].plans = <<>>
       \/ LET latest == book[c].plans[Len(book[c].plans)] IN
            \/ latest.st = "PROPOSED"
            \/ latest.st = "ADOPTED" /\ Len(latest.bp.refs) > Len(Scenes(c))
ResidueChapter ==
    IF \E c \in DOMAIN book : IsResidue(c)
    THEN CHOOSE c \in DOMAIN book : IsResidue(c) /\ \A d \in 1..(c - 1) : ~IsResidue(d)
    ELSE 0

\* What a dangling latest revision r of chapter c asks for: adopt it when it has this
\* payload's shape, else reject it and write the next one.
ContinueProposed(c, r, bp, els, on(_)) ==
    \/ PlanShapeMatches(c, r, bp, els) /\ Durable /\ on("adopt_plan")
    \/ /\ ~PlanShapeMatches(c, r, bp, els) /\ r < MaxRevisions
       /\ Reject(c, r) /\ OnlyBook /\ on("create_plan")

\* open_next_chapter up to its first write: a fresh chapter row, or the residue
\* continued where it stopped.
OpenNextChapter ==
    /\ job.pc = "plan"
    /\ \E bp \in Blueprints :
        LET c == ResidueChapter
            d == IF c = 0 THEN Last + 1 ELSE c
            anchors == IF c = 0 THEN <<>> ELSE Scenes(c)
            els == Targets(anchors, bp)
            r == IF c = 0 THEN 0 ELSE Len(book[c].plans)
            on(pc) == job' = [job EXCEPT !.pc = pc, !.c = d, !.bp = bp, !.els = els,
                                         !.fresh = Fresh(anchors, bp)]
        IN /\ Resolvable(anchors, bp) /\ els \subseteq 1..MaxScenes
           /\ \/ /\ c = 0 /\ Last < MaxChapters
                 /\ book' = Append(book, NewChapter) /\ OnlyBook /\ on("create_plan")
              \/ c # 0 /\ r = 0 /\ Durable /\ on("create_plan")
              \/ r > 0 /\ book[c].plans[r].st = "ADOPTED" /\ Durable /\ on("reconcile")
              \/ /\ r > 0 /\ book[c].plans[r].st = "PROPOSED"
                 /\ ContinueProposed(c, r, bp, els, on)

\* revise_blueprint up to its first write.
ReviseBlueprint ==
    /\ job.pc = "revise"
    /\ \E bp \in Blueprints :
        LET c == job.c
            els == Targets(Scenes(c), bp)
            r == Len(book[c].plans)
            residue == r > 0 /\ book[c].plans[r].st = "PROPOSED"
            on(pc) == job' = [job EXCEPT !.pc = pc, !.bp = bp, !.els = els,
                                         !.fresh = Fresh(Scenes(c), bp)]
        IN /\ Resolvable(Scenes(c), bp) /\ els \subseteq 1..MaxScenes
           /\ \/ residue /\ ContinueProposed(c, r, bp, els, on)
              \/ ~residue /\ r < MaxRevisions /\ Durable /\ on("create_plan")

\* create_plan: the next revision, PROPOSED.
CreatePlan ==
    /\ job.pc = "create_plan"
    /\ book' = [book EXCEPT ![job.c].plans = Append(@, PlanRow(job.bp, job.els))]
    /\ OnlyBook /\ Goto("adopt_plan")

\* Faulty variant: the revision in force is not superseded.
AdoptBeside(revs, r) == [revs EXCEPT ![r].st = "ADOPTED"]

\* adopt_plan: the latest revision is ADOPTED, the one adopted before SUPERSEDED.
AdoptRevision(revs, r) ==
    [i \in DOMAIN revs |->
        IF i = r THEN [revs[i] EXCEPT !.st = "ADOPTED"]
        ELSE IF revs[i].st = "ADOPTED" THEN [revs[i] EXCEPT !.st = "SUPERSEDED"]
        ELSE revs[i]]
AdoptPlan ==
    /\ job.pc = "adopt_plan"
    /\ LET r == Len(book[job.c].plans) IN
        IF book[job.c].plans[r].st = "PROPOSED"
        THEN /\ book' = [book EXCEPT ![job.c].plans = AdoptRevision(@, r)]
             /\ OnlyBook /\ Goto("reconcile")
        ELSE Refused

\* _reconcile_scenes, one row at a time: first the new anchors, then the PLANNED
\* scenes the blueprint no longer claims are discarded.
Discard(c, s) == book' = [book EXCEPT ![c].scenes[s].st = "DISCARDED"]
ToCreate == {i \in job.fresh : i > Len(Scenes(job.c))}
ToDiscard ==
    {s \in DOMAIN Scenes(job.c) : s \notin job.els /\ Scenes(job.c)[s].st = "PLANNED"}
ReconcileScenes ==
    /\ job.pc = "reconcile"
    /\ IF ToCreate # {}
       THEN /\ book' = [book EXCEPT ![job.c].scenes = Append(@, NewScene)]
            /\ OnlyBook /\ UNCHANGED job
       ELSE IF ToDiscard # {}
       THEN /\ Discard(job.c, CHOOSE x \in ToDiscard : \A y \in ToDiscard : x <= y)
            /\ OnlyBook /\ UNCHANGED job
       ELSE /\ Durable
            /\ IF job.back = "idle" THEN Done ELSE Goto("r_mark")

\* The dual-seat planner: one chapter, one scene, one plan, no residue law beyond
\* a PLANNED chapter that has no plan row at all.
SituationBlueprint == [refs |-> <<0>>, gated |-> FALSE]
PlanSituationChapter ==
    /\ job.pc = "situation"
    /\ IF /\ book # <<>> /\ book[Last].st \in {"PLANNED", "ACTIVE"} /\ HasPlan(Last)
       THEN /\ book' = [book EXCEPT ![Last].scenes = IF @ = <<>> THEN <<NewScene>> ELSE @]
            /\ OnlyBook /\ Done
       ELSE IF book # <<>> /\ book[Last].st = "PLANNED" /\ book[Last].plans = <<>>
       THEN Durable /\ job' = [job EXCEPT !.pc = "sit_scene", !.c = Last]
       ELSE /\ Last < MaxChapters
            /\ book' = Append(book, NewChapter)
            /\ OnlyBook /\ job' = [job EXCEPT !.pc = "sit_scene", !.c = Last + 1]
SituationScene ==
    /\ job.pc = "sit_scene"
    /\ book' = [book EXCEPT ![job.c].scenes = IF @ = <<>> THEN <<NewScene>> ELSE @]
    /\ OnlyBook /\ Goto("sit_plan")
SituationPlan ==
    /\ job.pc = "sit_plan"
    /\ book' = [book EXCEPT ![job.c].plans = Append(@, PlanRow(SituationBlueprint, {1}))]
    /\ OnlyBook /\ Goto("sit_adopt")
SituationAdopt ==
    /\ job.pc = "sit_adopt"
    /\ book' = [book EXCEPT ![job.c].plans = AdoptRevision(@, Len(@))]
    /\ OnlyBook /\ Done

-----------------------------------------------------------------------------
(* The Scene Planner: opening a planned scene is three transactions. *)

\* create_dossier revision 1; a row of the same shape is a replay.
OpenScene ==
    /\ job.pc = "open"
    /\ LET c == job.c  s == job.s  row == DossierRow(1) IN
        IF ~(HasPlan(c) /\ s \in Plan(c).els) THEN Refused
        ELSE IF Scenes(c)[s].doss = <<>>
        THEN /\ book' = [book EXCEPT ![c].scenes[s].doss = <<row>>]
             /\ OnlyBook /\ Goto("open_adopt")
        ELSE IF [Scenes(c)[s].doss[1] EXCEPT !.st = "PROPOSED"] = row
        THEN Durable /\ Goto("open_adopt")
        ELSE Refused

\* Faulty variant: the opening returns with the dossier adopted and the scene not activated.
AdoptOpeningOnly ==
    /\ job.pc = "open_adopt" /\ Scenes(job.c)[job.s].doss[1].st = "PROPOSED"
    /\ book' = [book EXCEPT ![job.c].scenes[job.s].doss = AdoptRevision(@, 1)]
    /\ OnlyBook /\ Done

\* adopt_dossier takes only a PROPOSED revision, so an opening that died after its
\* adoption is refused here when it is tried again.
AdoptOpening ==
    /\ job.pc = "open_adopt"
    /\ IF Scenes(job.c)[job.s].doss[1].st = "PROPOSED"
       THEN /\ book' = [book EXCEPT ![job.c].scenes[job.s].doss = AdoptRevision(@, 1)]
            /\ OnlyBook /\ Goto("open_activate")
       ELSE Refused

ActivateScene ==
    /\ job.pc = "open_activate"
    /\ LET c == job.c  s == job.s IN
        IF /\ Scenes(c)[s].st = "PLANNED" /\ HasDossier(c, s)
           /\ book[c].st \notin {"SETTLING", "CLOSED"}
        THEN /\ book' = [book EXCEPT ![c].scenes[s].st = "ACTIVE"]
             /\ OnlyBook /\ Goto(job.back)
        ELSE Refused

\* _open_or_continue / _ensure_scene_open: on to label pc with the scene open.
EnsureOpen(c, s, j) ==
    IF Scenes(c)[s].st = "PLANNED"
    THEN Durable /\ job' = [j EXCEPT !.pc = "open", !.back = j.pc]
    ELSE IF Scenes(c)[s].st = "ACTIVE" /\ HasDossier(c, s)
    THEN Durable /\ job' = j
    ELSE Refused

-----------------------------------------------------------------------------
(* Gates, rulings and segments. *)

\* open_gate: only an ACTIVE scene, only when no gate stands; the id carries the
\* sequence number, so opening an existing gate is a replay.
GateRow == [st |-> "OPEN", sub |-> "none", scope |-> "NONE", rp |-> "none", target |-> 0]
CanOpenGate(c, s) ==
    Scenes(c)[s].st = "ACTIVE" /\ Standing(c, s) = {} /\ Len(Scenes(c)[s].gates) < MaxGates
OpenGate(c, s) == book' = [book EXCEPT ![c].scenes[s].gates = Append(@, GateRow)]

\* submit_gate: the same submission answers the stored action; any other one finds
\* the gate no longer OPEN.
Answered(gt, sub) == [gt EXCEPT !.st = "ANSWERED", !.sub = sub]
\* Faulty variant: a later submission replaces the stored one.
SubmitOver ==
    /\ job.pc = "g_submit"
    /\ book' = [book EXCEPT ![job.c].scenes[job.s].gates[job.g] = Answered(@, job.sub)]
    /\ OnlyBook /\ Goto("g_resolve")
SubmitGate ==
    /\ job.pc = "g_submit"
    /\ LET gt == Gate(job.c, job.s, job.g) IN
        IF gt.st # "OPEN" /\ gt.sub = job.sub
        THEN Durable /\ Goto(IF gt.st = "ANSWERED" THEN "g_resolve" ELSE "g_commit")
        ELSE IF gt.st = "OPEN"
        THEN /\ book' = [book EXCEPT ![job.c].scenes[job.s].gates[job.g] =
                            Answered(@, job.sub)]
             /\ OnlyBook /\ Goto("g_resolve")
        ELSE Refused

BeginResolving ==
    /\ job.pc = "g_resolve"
    /\ book' = [book EXCEPT ![job.c].scenes[job.s].gates[job.g].st = "RESOLVING"]
    /\ OnlyBook /\ Goto("g_commit")

\* The first landing of a PLANNED chapter activates it, or the transaction fails.
ActivationAllowed(c) == book[c].st = "PLANNED" => HasPlan(c) /\ ~OverlapChapter(c)
Activated(b, c) == [b EXCEPT ![c].st = IF @ = "PLANNED" THEN "ACTIVE" ELSE @]

\* Faulty variants: the clock is forgotten, or advanced by both the landing and its caller.
AdvanceNot == tick' = tick
AdvanceTwice == tick' = tick + 2
\* advance_current_tick, in the transaction of the landing that lasts.
AdvanceTick == tick' = tick + 1
Commit(kind, c, s, n, ref, last, cast) ==
    /\ commits' = Append(commits,
         [kind |-> kind, c |-> c, s |-> s, n |-> n, ref |-> ref, last |-> last,
          cast |-> cast, from |-> tick, to |-> tick + 1])
    /\ AdvanceTick

\* commit_action: the ruling, its lineage row, the clock and the obligation in one
\* transaction.
RulingAllowed(c, s, g) == Gate(c, s, g).st = "RESOLVING" /\ ActivationAllowed(c)
Obligation(scope) == IF scope = "NONE" THEN "none" ELSE "PENDING"
\* Faulty variant: a ruling that opens its chapter does not activate it.
RulingInactive(c, s, g, scope) ==
    /\ tick < MaxTick /\ RulingAllowed(c, s, g)
    /\ book' = [book EXCEPT ![c].scenes[s].gates[g] =
                  [@ EXCEPT !.st = "COMMITTED", !.scope = scope, !.rp = Obligation(scope)]]
    /\ Commit("ACTION", c, s, g, 0, FALSE, Dossier(c, s).cast)
    /\ UNCHANGED <<host, events, lost>>
CommitRuling(c, s, g, scope) ==
    /\ tick < MaxTick /\ RulingAllowed(c, s, g)
    /\ book' = Activated([book EXCEPT ![c].scenes[s].gates[g] =
                  [@ EXCEPT !.st = "COMMITTED", !.scope = scope, !.rp = Obligation(scope)]], c)
    /\ Commit("ACTION", c, s, g, 0, FALSE, Dossier(c, s).cast)
    /\ UNCHANGED <<host, events, lost>>
AfterRuling(scope) ==
    job' = [job EXCEPT !.pend = job.g,
                       !.pc = IF scope = "NONE" THEN job.back
                              ELSE IF job.op = "drive" THEN "consume" ELSE "replan"]
\* A committed action is answered from its row and never judged again.
ReplayAction(c, s, g) ==
    /\ Gate(c, s, g).st \in {"COMMITTED", "CLOSED"}
    /\ Durable /\ AfterRuling(Gate(c, s, g).scope)
CommitAction ==
    /\ job.pc = "g_commit"
    /\ \/ ReplayAction(job.c, job.s, job.g)
       \/ \E scope \in Scopes :
            CommitRuling(job.c, job.s, job.g, scope) /\ AfterRuling(scope)
       \/ Gate(job.c, job.s, job.g).st = "RESOLVING" /\ ~ActivationAllowed(job.c) /\ Refused

\* commit_segment at sequence number n: the replay, and the guards of a new one.
SegmentReplays(c, s, n, ref, last, cast) ==
    LET m == Segments(c, s)[n] IN m.ref = ref /\ m.last = last /\ m.cast = cast
\* Faulty variant: prose may pass over the ruling that waits to be told.
AnyOutcomeRef(c, s, ref) == ref # 0 => Gate(c, s, ref).st \in {"COMMITTED", "CLOSED"}
OutcomeRefAllowed(c, s, ref) ==
    /\ ref # 0 => Gate(c, s, ref).st \in {"COMMITTED", "CLOSED"}
    /\ \A g \in Standing(c, s) : Gate(c, s, g).st = "COMMITTED" /\ ref = g
SegmentAllowed(c, s, ref) ==
    Scenes(c)[s].st = "ACTIVE" /\ OutcomeRefAllowed(c, s, ref) /\ ActivationAllowed(c)
\* The last segment of a scene commits the scene; a referred gate is CLOSED.
EndScene(b, c, s, last) == [b EXCEPT ![c].scenes[s].st = IF last THEN "COMMITTED" ELSE @]
CloseGate(b, c, s, ref) ==
    IF ref = 0 THEN b ELSE [b EXCEPT ![c].scenes[s].gates[ref].st = "CLOSED"]
CommitSegment(c, s, ref, last) ==
    /\ tick < MaxTick
    /\ book' = Activated(EndScene(CloseGate(book, c, s, ref), c, s, last), c)
    /\ Commit("SEGMENT", c, s, SegmentCount(c, s) + 1, ref, last, Dossier(c, s).cast)
    /\ UNCHANGED <<host, events, lost>>

-----------------------------------------------------------------------------
(* Replan obligations. *)

\* _consume_replan: an applied obligation is answered from its row; a pending one
\* claims its target before any work, so a retry converges on the same revision.
ClaimReplanTarget(c, s, g, r) ==
    IF Gate(c, s, g).target = 0
    THEN r <= MaxRevisions /\ OnlyBook
         /\ book' = [book EXCEPT ![c].scenes[s].gates[g].target = r]
    ELSE Durable
SceneReplan(c, s, g) ==
    IF Scenes(c)[s].st # "ACTIVE" THEN Refused
    ELSE ClaimReplanTarget(c, s, g, Len(Scenes(c)[s].doss) + 1) /\ Goto("r_dossier")
ChapterReplan(c, s, g) ==
    IF book[c].st \in {"SETTLING", "CLOSED"} \/ ~HasPlan(c) THEN Refused
    ELSE \E bp \in Blueprints :
            LET els == Targets(Scenes(c), bp)
                r == Len(book[c].plans)
                to == IF PlanShapeMatches(c, r, bp, els) THEN r ELSE r + 1
            IN /\ Resolvable(Scenes(c), bp) /\ els \subseteq 1..MaxScenes
               /\ ClaimReplanTarget(c, s, g, to)
               /\ job' = [job EXCEPT !.pc = "r_plan", !.bp = bp, !.els = els,
                                     !.fresh = Fresh(Scenes(c), bp)]
ConsumeReplan ==
    /\ job.pc = "replan"
    /\ LET c == job.c  s == job.s  g == job.g IN
        IF Gate(c, s, g).rp = "APPLIED" THEN Durable /\ Goto(job.back)
        ELSE IF ~HasDossier(c, s) THEN Refused
        ELSE IF Gate(c, s, g).scope = "SCENE" THEN SceneReplan(c, s, g)
        ELSE ChapterReplan(c, s, g)

\* Faulty variant: the created revision is taken for the adopted one.
DossierUnadopted ==
    /\ job.pc = "r_dossier"
    /\ \E cast \in Casts :
         book' = [book EXCEPT ![job.c].scenes[job.s].doss = Append(@, DossierRow(cast))]
    /\ OnlyBook /\ Goto("r_mark")

\* replan_scene: create the claimed dossier if absent, adopt it if PROPOSED.
ReplanDossier ==
    /\ job.pc = "r_dossier"
    /\ LET c == job.c  s == job.s  t == Gate(c, s, job.g).target IN
        IF t > Len(Scenes(c)[s].doss)
        THEN /\ \E cast \in Casts :
                  book' = [book EXCEPT ![c].scenes[s].doss =
                             Append(@, DossierRow(cast))]
             /\ OnlyBook /\ Goto("r_dossier")
        ELSE IF Scenes(c)[s].doss[t].st = "PROPOSED"
        THEN /\ book' = [book EXCEPT ![c].scenes[s].doss = AdoptRevision(@, t)]
             /\ OnlyBook /\ Goto("r_mark")
        ELSE IF Scenes(c)[s].doss[t].st = "ADOPTED" THEN Durable /\ Goto("r_mark")
        ELSE Refused

\* apply_action_replan: the claimed plan revision likewise, then the scene table is
\* reconciled with this call's own blueprint.
ReplanPlan ==
    /\ job.pc = "r_plan"
    /\ LET c == job.c  t == Gate(c, job.s, job.g).target IN
        IF t > Len(book[c].plans)
        THEN /\ book' = [book EXCEPT ![c].plans = Append(@, PlanRow(job.bp, job.els))]
             /\ OnlyBook /\ Goto("r_plan")
        ELSE IF book[c].plans[t].st = "PROPOSED"
        THEN /\ book' = [book EXCEPT ![c].plans = AdoptRevision(@, t)]
             /\ OnlyBook /\ Goto("reconcile")
        ELSE IF book[c].plans[t].st = "ADOPTED" THEN Durable /\ Goto("reconcile")
        ELSE Refused

\* Faulty variant: the obligation stays pending.
MarkNothing == job.pc = "r_mark" /\ Durable /\ Goto(job.back)
MarkReplanApplied ==
    /\ job.pc = "r_mark"
    /\ book' = [book EXCEPT ![job.c].scenes[job.s].gates[job.g].rp = "APPLIED"]
    /\ OnlyBook /\ Goto(job.back)

\* Work lists are kept as sets of tuples and taken in the order of the rows' ids.
Before(x, y) ==
    \E i \in 1..4 : x[i] < y[i] /\ \A k \in 1..(i - 1) : x[k] = y[k]
First(S) == CHOOSE x \in S : \A y \in S \ {x} : Before(x, y)

Places == {p \in (1..MaxChapters) \X (1..MaxScenes) \X (1..MaxGates) :
             /\ p[1] \in DOMAIN book /\ p[2] \in DOMAIN Scenes(p[1])
             /\ p[3] \in DOMAIN Scenes(p[1])[p[2]].gates}
GatesAt(phase, P(_)) ==
    {<<phase, p[1], p[2], p[3]>> : p \in {q \in Places : P(Gate(q[1], q[2], q[3]))}}
IsPending(gt) == gt.rp = "PENDING"

\* consume_pending_replans, as the dual-seat reply runs it: every pending obligation
\* of the world, then back to the reply's own place.
ConsumePending ==
    /\ job.pc = "consume"
    /\ Durable
    /\ LET todo == GatesAt(2, IsPending)
           x == First(todo)
       IN IF todo = {}
          THEN job' = [job EXCEPT !.pc = "rp_seg", !.c = job.home[1], !.s = job.home[2],
                                  !.g = job.home[3], !.back = "rp_seg"]
          ELSE job' = [job EXCEPT !.pc = "replan", !.back = "consume",
                                  !.c = x[2], !.s = x[3], !.g = x[4]]

-----------------------------------------------------------------------------
(* The reading face: walking a scene's script, and the pipeline that runs it. *)

Scripted(c, s) == HasPlan(c) /\ s \in Plan(c).els /\ Plan(c).bp.gated
Count(k, x) == Cardinality({i \in 1..k : Beats[i] = x})

\* Beat k of the script has landed: its segment is committed, its gate CLOSED.
BeatSettled(c, s, k) ==
    IF Beats[k] = "S" THEN Count(k, "S") <= SegmentCount(c, s)
    ELSE /\ Count(k, "G") \in DOMAIN Scenes(c)[s].gates
         /\ Gate(c, s, Count(k, "G")).st = "CLOSED"
WalkAt(c, s) ==
    LET open == {k \in DOMAIN Beats : ~BeatSettled(c, s, k)}
    IN IF open = {} THEN 0 ELSE CHOOSE k \in open : \A i \in open : k <= i
WalkKind(c, s) ==
    IF ~Scripted(c, s) THEN "segment"
    ELSE LET k == WalkAt(c, s) IN
         IF k = 0 THEN "scene_done"
         ELSE IF Beats[k] = "S" THEN "segment"
         ELSE IF Count(k, "G") \in DOMAIN Scenes(c)[s].gates THEN "gate_submit"
         ELSE "gate_open"

\* The beats a drive hands to run_scene: the settled prefix, replayed, and the next
\* one (script positions; 0 is a segment of a scene without a script).
NextBeats(c, s) ==
    IF Scripted(c, s) THEN [i \in 1..WalkAt(c, s) |-> i]
    ELSE [i \in 1..(SegmentCount(c, s) + 1) |-> 0]
ContinuationAfter(k) ==
    LET after == {i \in DOMAIN Beats : i > k /\ Beats[i] = "S"}
    IN CHOOSE i \in after : \A j \in after : i <= j

\* _press_on: from the durable position write on until a gate, the end of the plan or
\* the ceiling stops the drive.
PressOn ==
    /\ job.pc = "press"
    /\ LET c == Last  s == CurrentScene(c, Roster(c)) IN
        \/ /\ \/ s = 0
              \/ job.n >= Ceiling
              \/ s # 0 /\ WalkKind(c, s) \in {"gate_submit", "scene_done"}
              \/ job.n > 0 /\ s # 0 /\ ~Scripted(c, s)      \* the gateless floor
           /\ Refused
        \/ /\ s # 0 /\ job.n < Ceiling /\ WalkKind(c, s) = "gate_open"
           /\ EnsureOpen(c, s, [job EXCEPT !.c = c, !.s = s, !.pc = "gate"])
        \/ /\ s # 0 /\ job.n < Ceiling /\ WalkKind(c, s) = "segment"
           /\ EnsureOpen(c, s,
                [job EXCEPT !.c = c, !.s = s, !.pc = "run", !.k = 1, !.pend = 0,
                            !.beats = NextBeats(c, s)])

\* _open_gate_for: the drive stops at the gate it opened.
OpenGateFor ==
    /\ job.pc = "gate"
    /\ IF CanOpenGate(job.c, job.s)
       THEN /\ OpenGate(job.c, job.s) /\ OnlyBook
            /\ IF job.op = "submit" THEN Goto("submit") ELSE Done
       ELSE Refused

\* submit, once the gate exists: the stored submission wins over the request's.
SubmitRun ==
    /\ job.pc = "submit"
    /\ LET c == job.c  s == job.s  k == WalkAt(c, s) IN
         EnsureOpen(c, s,
            [job EXCEPT !.pc = "run", !.k = 1, !.pend = 0,
                        !.beats = Append([i \in 1..k |-> i], ContinuationAfter(k))])

\* run_scene, one beat at a time: committed segments and closed gates are replayed
\* through the same faces that landed them.
IsSegment(x) == x = 0 \/ Beats[x] = "S"
RunBeat ==
    /\ job.pc = "run"
    /\ LET c == job.c  s == job.s  x == job.beats[job.k]
           q == Cardinality({i \in 1..job.k : IsSegment(job.beats[i])})
           g == Count(x, "G")
           on == [job EXCEPT !.k = @ + 1]
           last == IF x = 0 THEN job.last ELSE x = Len(Beats)
       IN IF job.k > Len(job.beats)
          THEN /\ Durable
               /\ job' = [job EXCEPT !.pc = "press", !.op = "advance", !.n = @ + 1,
                                     !.last = FALSE]
          ELSE IF IsSegment(x)
          THEN IF q <= SegmentCount(c, s)
               THEN IF SegmentReplays(c, s, q, job.pend, Segments(c, s)[q].last,
                                      Dossier(c, s).cast)
                    THEN Durable /\ job' = [on EXCEPT !.pend = 0]
                    ELSE Refused
               ELSE IF SegmentAllowed(c, s, job.pend)
                    THEN CommitSegment(c, s, job.pend, last) /\ job' = [on EXCEPT !.pend = 0]
                    ELSE Refused
          ELSE IF g \in DOMAIN Scenes(c)[s].gates
          THEN /\ Durable
               /\ job' = [on EXCEPT !.pc = "g_submit", !.g = g, !.back = "run",
                            !.sub = IF Gate(c, s, g).st = "OPEN" THEN @ ELSE Gate(c, s, g).sub]
          ELSE IF CanOpenGate(c, s)
          THEN /\ OpenGate(c, s) /\ OnlyBook
               /\ job' = [on EXCEPT !.pc = "g_submit", !.g = g, !.back = "run"]
          ELSE Refused

-----------------------------------------------------------------------------
(* The dual-seat engine: the drive loop of TurnEngine. *)

\* The durable position first: an owed continuation, then the requested beat, then
\* further world beats.
DriveLoop ==
    /\ job.pc = "loop"
    /\ LET c == Last  s == CurrentScene(c, DOMAIN Scenes(c))
           owed == ContinuationOwed(c, s)
       IN IF book = <<>> \/ book[c].st \notin {"PLANNED", "ACTIVE"} \/ s = 0
             \/ job.n >= Ceiling
          THEN Refused
          ELSE IF owed # {}
          THEN /\ Durable
               /\ job' = [job EXCEPT !.pc = "cont_seg", !.c = c, !.s = s,
                                     !.g = CHOOSE g \in owed : TRUE]
          ELSE EnsureOpen(c, s,
                 [job EXCEPT !.c = c, !.s = s,
                             !.pc = IF job.sub = "none" THEN "w_event" ELSE "rp_gate"])

\* _land_continuation never stops the drive; the requested beat is still to come.
LandContinuation ==
    /\ job.pc = "cont_seg"
    /\ IF SegmentAllowed(job.c, job.s, job.g)
       THEN /\ CommitSegment(job.c, job.s, job.g, FALSE)
            /\ job' = [job EXCEPT !.pc = "loop", !.n = @ + 1]
       ELSE Refused

\* A world beat: its event once, by id, then its prose.
WorldEvent ==
    /\ job.pc = "w_event"
    /\ events' = events \union {<<"beat", job.c, job.s, SegmentCount(job.c, job.s) + 1>>}
    /\ UNCHANGED <<host, tick, book, commits, lost>> /\ Goto("w_seg")
BeatSegment(pc, ref) ==
    /\ job.pc = pc
    /\ IF SegmentAllowed(job.c, job.s, ref)
       THEN /\ CommitSegment(job.c, job.s, ref, FALSE)
            /\ \/ Done
               \/ job' = [job EXCEPT !.pc = "loop", !.n = @ + 1, !.sub = "none"]
       ELSE Refused
WorldSegment == BeatSegment("w_seg", 0)

\* A reply: the standing gate's stored submission re-drives as this beat's words.
ReplyGate ==
    /\ job.pc = "rp_gate"
    /\ LET c == job.c  s == job.s  st == Standing(c, s)
           at(g, sub) == job' = [job EXCEPT !.pc = "g_submit", !.g = g, !.sub = sub,
                                            !.back = "rp_seg", !.home = <<c, s, g>>]
       IN IF st = {}
          THEN IF CanOpenGate(c, s)
               THEN OpenGate(c, s) /\ OnlyBook /\ at(Len(Scenes(c)[s].gates) + 1, job.sub)
               ELSE Refused
          ELSE LET g == CHOOSE x \in st : TRUE IN
               /\ Durable
               /\ at(g, IF Gate(c, s, g).st = "OPEN" THEN job.sub ELSE Gate(c, s, g).sub)
ReplySegment == BeatSegment("rp_seg", job.g)

-----------------------------------------------------------------------------
(* Settling a chapter. *)

\* TurnEngine.settle_chapter: the scene opened if need be, one closing segment when
\* the scene already had prose, the offstage event once by id, then the two flips.
DualSettle ==
    /\ job.pc = "ds_settle"
    /\ LET c == Last  s == CurrentScene(c, DOMAIN Scenes(c))
           closing == s # 0 /\ Scenes(c)[s].st = "ACTIVE" /\ Segments(c, s) # <<>>
       IN IF s = 0 \/ book[c].st = "CLOSED" THEN Refused
          ELSE EnsureOpen(c, s, [job EXCEPT !.c = c, !.s = s,
                                            !.pc = IF closing THEN "ds_seg" ELSE "ds_off"])
ClosingSegment ==
    /\ job.pc = "ds_seg"
    /\ IF SegmentAllowed(job.c, job.s, 0)
       THEN CommitSegment(job.c, job.s, 0, TRUE) /\ Goto("ds_off")
       ELSE Refused
OffstageEvent ==
    /\ job.pc = "ds_off"
    /\ events' = events \union {<<"offstage", job.c, 0, 0>>}
    /\ UNCHANGED <<host, tick, book, commits, lost>> /\ Goto("flip")

\* Faulty variant: the chapter is settled whatever still runs.
FlipAnyway ==
    /\ job.pc = "flip" /\ book[job.c].st = "ACTIVE"
    /\ book' = [book EXCEPT ![job.c].st = "SETTLING"]
    /\ OnlyBook /\ Goto("settle")

\* narrative settle_chapter: ACTIVE to SETTLING, refused while the story runs.
FlipSettling ==
    /\ job.pc = "flip"
    /\ IF book[job.c].st # "ACTIVE" THEN Durable /\ Goto("settle")
       ELSE IF RunningStoryBlocker(job.c) THEN Refused
       ELSE /\ book' = [book EXCEPT ![job.c].st = "SETTLING"]
            /\ OnlyBook /\ Goto("settle")

\* settlement settle_chapter: the settlement row and the closing in one transaction.
SettleChapter ==
    /\ job.pc = "settle"
    /\ IF book[job.c].st = "SETTLING"
       THEN /\ book' = [book EXCEPT ![job.c] = [@ EXCEPT !.st = "CLOSED", !.settled = TRUE]]
            /\ OnlyBook
            /\ IF job.op = "resume" THEN Goto("resume") ELSE Done
       ELSE Refused

-----------------------------------------------------------------------------
(* Recovery: Pipeline.resume over one scan of the durable rows. *)

\* Gates to finish, obligations to apply, rulings to continue, chapters to close.
IsAnswered(gt) == gt.st \in {"ANSWERED", "RESOLVING"}
IsCommitted(gt) == gt.st = "COMMITTED"
RecoveryScan ==
    GatesAt(1, IsAnswered) \union GatesAt(2, IsPending) \union GatesAt(3, IsCommitted)
      \union {<<4, c, 0, 0>> : c \in {d \in DOMAIN book : book[d].st = "SETTLING"}}

Resume ==
    /\ job.pc = "resume"
    /\ LET x == First(job.todo)
           c == x[2]  s == x[3]  g == x[4]
           at(pc) == job' = [job EXCEPT !.pc = pc, !.todo = @ \ {x}, !.back = "resume",
                                        !.c = c, !.s = s, !.g = g]
       IN IF job.todo = {} THEN Refused
          ELSE CASE x[1] = 1 -> Durable /\ at(IF Gate(c, s, g).st = "ANSWERED"
                                              THEN "g_resolve" ELSE "g_commit")
                 [] x[1] = 2 -> Durable /\ at("replan")
                 [] x[1] = 3 -> IF Scenes(c)[s].st = "ACTIVE" THEN Durable /\ at("resume_seg")
                                ELSE Refused
                 [] x[1] = 4 -> Durable /\ at("flip")
ResumeSegment ==
    /\ job.pc = "resume_seg"
    /\ IF SegmentAllowed(job.c, job.s, job.g)
       THEN CommitSegment(job.c, job.s, job.g, FALSE) /\ Goto("resume")
       ELSE Refused

-----------------------------------------------------------------------------
(* The requests, each with the refusals its host answers without a write. *)

Reading == host \in {"v3", "lib"}
Free == job.pc = "idle" /\ Durable

\* The reading face starts a chapter only when the world has none.
Start == Free /\ Reading /\ book = <<>> /\ Begin("plan", "plan", 0, 0)
DualStart ==
    /\ Free /\ host = "ds"
    /\ book # <<>> => ~HasPlan(Last)
    /\ Begin("plan", "situation", 0, 0)
NextChapter ==
    /\ Free /\ book # <<>> /\ book[Last].st = "CLOSED" /\ Last < MaxChapters
    /\ Begin("plan", IF Reading THEN "plan" ELSE "situation", 0, 0)
\* end_scene is honoured only in a scene without a script.
Advance ==
    /\ Free /\ Reading /\ book # <<>> /\ book[Last].st \in {"PLANNED", "ACTIVE"}
    /\ \E end \in BOOLEAN :
        LET s == CurrentScene(Last, Roster(Last)) IN
        /\ s # 0 /\ (end => ~Scripted(Last, s))
        /\ job' = [NewJob EXCEPT !.op = "advance", !.pc = "press", !.last = end]
Submit ==
    /\ Free /\ Reading /\ book # <<>> /\ book[Last].st # "CLOSED"
    /\ LET c == Last  s == CurrentScene(c, Roster(c)) IN
        /\ s # 0 /\ WalkKind(c, s) \in {"gate_open", "gate_submit"}
        /\ \E sub \in Submissions :
            EnsureOpen(c, s, [NewJob EXCEPT !.op = "submit", !.c = c, !.s = s, !.sub = sub,
                !.pc = IF WalkKind(c, s) = "gate_submit" THEN "submit" ELSE "gate"])
Settle ==
    /\ Free /\ Reading /\ book # <<>> /\ book[Last].st # "CLOSED"
    /\ Roster(Last) = {} \/ book[Last].st = "SETTLING"
    /\ Begin("settle", "flip", Last, 0)
DualDrive ==
    /\ Free /\ host = "ds" /\ book # <<>>
    /\ \E sub \in Submissions \union {"none"} :
        job' = [NewJob EXCEPT !.op = "drive", !.pc = "loop", !.sub = sub]
DualSettleRequest ==
    Free /\ host = "ds" /\ book # <<>> /\ Begin("settle", "ds_settle", Last, 0)
\* The pipeline's own callers: plan again over a residue, revise, resume.
PlanChapter == Free /\ host = "lib" /\ ResidueChapter # 0 /\ Begin("plan", "plan", 0, 0)
ReviseChapter ==
    /\ Free /\ host = "lib"
    /\ \E c \in DOMAIN book :
        /\ book[c].st \in {"PLANNED", "ACTIVE"} /\ Len(book[c].plans) < MaxRevisions - 1
        /\ Begin("revise", "revise", c, 0)
ResumeRequest ==
    /\ Free /\ host = "lib" /\ RecoveryScan # {}
    /\ job' = [NewJob EXCEPT !.op = "resume", !.pc = "resume", !.todo = RecoveryScan]

\* A request dies between two transactions: the process stops, or a model call fails.
Abort ==
    /\ job.pc # "idle" /\ Len(lost) < MaxAborts
    /\ lost' = Append(lost, job.pc)
    /\ UNCHANGED <<host, tick, book, commits, events>> /\ Done
\* The bound on the clock ends a request at its next landing.
OutOfTicks ==
    /\ tick = MaxTick
    /\ job.pc \in {"run", "g_commit", "cont_seg", "w_seg", "rp_seg", "ds_seg", "resume_seg"}
    /\ Refused

Work ==
    \/ OpenNextChapter \/ ReviseBlueprint \/ CreatePlan \/ AdoptPlan \/ ReconcileScenes
    \/ PlanSituationChapter \/ SituationScene \/ SituationPlan \/ SituationAdopt
    \/ OpenScene \/ AdoptOpening \/ ActivateScene
    \/ ConsumeReplan \/ ReplanDossier \/ ReplanPlan \/ MarkReplanApplied \/ ConsumePending
Drive ==
    \/ SubmitGate \/ BeginResolving \/ CommitAction \/ PressOn \/ OpenGateFor \/ SubmitRun
    \/ RunBeat \/ DriveLoop \/ LandContinuation \/ WorldEvent \/ WorldSegment \/ ReplyGate
    \/ ReplySegment \/ DualSettle \/ ClosingSegment \/ OffstageEvent \/ FlipSettling
    \/ SettleChapter \/ Resume \/ ResumeSegment \/ OutOfTicks
Request ==
    \/ Start \/ DualStart \/ NextChapter \/ Advance \/ Submit \/ Settle \/ DualDrive
    \/ DualSettleRequest \/ PlanChapter \/ ReviseChapter \/ ResumeRequest

Init ==
    /\ host \in Hosts /\ tick = 0 /\ book = <<>> /\ commits = <<>> /\ events = {}
    /\ job = NewJob /\ lost = <<>>
Next == Request \/ Work \/ Drive \/ Abort
Spec == Init /\ [][Next]_vars
FairSpec == Spec /\ WF_vars(Work \/ Drive)

-----------------------------------------------------------------------------
(* Properties. *)

RevisionRow == [st : RevisionStatus, cast : Casts \union {1}, at : 0..MaxTick]
TypeOK ==
    /\ host \in Hosts /\ tick \in 0..MaxTick
    /\ \A c \in DOMAIN book :
        /\ book[c].st \in ChapterStatus /\ book[c].settled \in BOOLEAN
        /\ \A r \in DOMAIN book[c].plans : book[c].plans[r].st \in RevisionStatus
        /\ \A s \in DOMAIN Scenes(c) :
            /\ Scenes(c)[s].st \in SceneStatus
            /\ \A d \in DOMAIN Scenes(c)[s].doss : Scenes(c)[s].doss[d] \in RevisionRow
            /\ \A g \in DOMAIN Scenes(c)[s].gates :
                /\ Gate(c, s, g).st \in GateStatus
                /\ Gate(c, s, g).sub \in Submissions \union {"none"}
                /\ Gate(c, s, g).rp \in {"none", "PENDING", "APPLIED"}
    /\ DOMAIN job = DOMAIN NewJob

\* Story time is the committed story: rulings and segments tile the clock without gap
\* or overlap, whatever was retried or replayed.
TickLine ==
    /\ \A i \in DOMAIN commits :
        commits[i].from = IF i = 1 THEN 0 ELSE commits[i - 1].to
    /\ tick = IF commits = <<>> THEN 0 ELSE commits[Len(commits)].to

\* One thread of story: at most one chapter runs, a scene has at most one gate not
\* CLOSED, at most one revision is ADOPTED.
OneThread ==
    /\ Cardinality({c \in DOMAIN book : book[c].st \in {"ACTIVE", "SETTLING"}}) <= 1
    /\ \A c \in DOMAIN book :
        /\ Cardinality({r \in DOMAIN book[c].plans : book[c].plans[r].st = "ADOPTED"}) <= 1
        /\ \A s \in DOMAIN Scenes(c) : Cardinality(Standing(c, s)) <= 1

\* Every ruling is told, and told next: the landing that follows it in its scene is the
\* segment that refers to it and closes its gate; until then the gate is COMMITTED.
SameScene(log, i, k) == log[i].c = log[k].c /\ log[i].s = log[k].s
Follows(log, k, i) ==
    i < k /\ SameScene(log, i, k) /\ \A m \in (i + 1)..(k - 1) : ~SameScene(log, i, m)
Told(log, i, st) ==
    \/ st = "COMMITTED" /\ \A k \in DOMAIN log : ~Follows(log, k, i)
    \/ /\ st = "CLOSED"
       /\ \E k \in DOMAIN log :
            Follows(log, k, i) /\ log[k].kind = "SEGMENT" /\ log[k].ref = log[i].n
RulingsAreTold ==
    \A i \in DOMAIN commits : commits[i].kind = "ACTION" =>
        Told(commits, i, Gate(commits[i].c, commits[i].s, commits[i].n).st)

\* A chapter that settles or has closed is quiet: nothing of it still runs, no gate
\* waits, no obligation is pending; and it closes with its settlement.
ClosedIsQuiet ==
    \A c \in DOMAIN book :
        /\ book[c].st \in {"SETTLING", "CLOSED"} => ~RunningStoryBlocker(c)
        /\ book[c].st = "CLOSED" <=> book[c].settled

\* An applied obligation names the revision it put in force, now or until a later one.
AppliedWasAdopted ==
    \A p \in Places :
        LET gt == Gate(p[1], p[2], p[3])
            revs == IF gt.scope = "SCENE" THEN Scenes(p[1])[p[2]].doss ELSE book[p[1]].plans
        IN gt.rp = "APPLIED" =>
             gt.target \in DOMAIN revs /\ revs[gt.target].st \in {"ADOPTED", "SUPERSEDED"}

\* The reading face re-drives a scene's whole past before its next beat: every
\* segment must still match the adopted dossier, and a past with gates needs the
\* script that names them.
Replayable(c, s) ==
    /\ \A q \in DOMAIN Segments(c, s) :
         Segments(c, s)[q].cast = Dossier(c, s).cast
         /\ (Segments(c, s)[q].ref # 0 => Scripted(c, s))
    /\ Standing(c, s) # {} => Scripted(c, s)

\* The story cannot move on: no request of its host changes anything any more.
Stranded ==
    /\ job.pc = "idle" /\ host # "lib" /\ book # <<>> /\ book[Last].st # "CLOSED"
    /\ LET c == Last
           s == CurrentScene(c, IF Reading THEN Roster(c) ELSE DOMAIN Scenes(c))
       IN \/ /\ s = 0
             /\ IF host = "ds" THEN HasPlan(c)
                ELSE book[c].st = "PLANNED" \/ RunningStoryBlocker(c)
          \/ s # 0 /\ Scenes(c)[s].st = "PLANNED" /\ HasDossier(c, s)
          \/ s # 0 /\ Scenes(c)[s].st = "ACTIVE" /\ Reading /\ ~Replayable(c, s)

\* What is durable stays: the log only grows, and no step rewrites a submission, a
\* ruling or a settled chapter.
RecordsStand ==
    [][/\ Len(commits') >= Len(commits) /\ SubSeq(commits', 1, Len(commits)) = commits
       /\ \A p \in Places :
            LET a == Gate(p[1], p[2], p[3])
                b == book'[p[1]].scenes[p[2]].gates[p[3]]
            IN /\ a.sub # "none" => b.sub = a.sub
               /\ a.st \in {"COMMITTED", "CLOSED"} => b.scope = a.scope
               /\ a.rp = "APPLIED" => b.rp = "APPLIED" /\ b.target = a.target
       /\ \A c \in DOMAIN book : book[c].settled => book'[c] = book[c]]_vars

\* A replan of the chapter took its script from a scene that already held gates.
ScriptDropped ==
    \E c \in DOMAIN book : \E s \in DOMAIN Scenes(c) :
        Scenes(c)[s].gates # <<>> /\ HasPlan(c) /\ ~Scripted(c, s)

\* What strands a story: a request that died between the rows of an opening (of a
\* chapter or of a scene), of a dual-seat replan or settlement, or a replan that
\* dropped the script of a scene in play.  A death anywhere else, and every death of
\* the reading face's rulings and replans, is made good by the next request.
FatalPoints ==
    {"open_activate", "reconcile"} \union
        IF host = "ds"
        THEN {"consume", "replan", "r_dossier", "r_plan", "r_mark", "ds_off", "flip", "settle"}
        ELSE {"create_plan", "adopt_plan"}
StrandedOnlyByLoss ==
    Stranded => \/ \E i \in DOMAIN lost : lost[i] \in FatalPoints
                \/ Reading /\ ScriptDropped

\* The story hangs together between any two rows a request writes, and after a death
\* between them: one thread, one line of ticks, every ruling told next, nothing open
\* behind a closed chapter (narrative/, world/).
StoryHangsTogether ==
    /\ TypeOK /\ TickLine /\ OneThread /\ RulingsAreTold /\ ClosedIsQuiet
    /\ AppliedWasAdopted

\* Not so: a settlement that died after its offstage event has landed can be driven
\* again, the chapter still having a scene to settle from (settle_chapter of turns.py
\* asks for a drivable scene first, and its own closing segment has committed it).
SettleCanBeRedriven ==
    ( /\ job.pc = "idle" /\ book # <<>> /\ book[Last].st # "CLOSED"
      /\ <<"offstage", Last, 0, 0>> \in events )
        => CurrentScene(Last, DOMAIN Scenes(Last)) # 0

\* The log of landings with its chapters' state is the promised story: every step of
\* every request is one landing of StoryContract, one closing, or invisible to it.
Contract == INSTANCE StoryContract WITH
    ChapterIds <- 1..MaxChapters,
    SceneIds <- 1..MaxScenes,
    log <- [i \in DOMAIN commits |->
              [kind |-> commits[i].kind, c |-> commits[i].c, s |-> commits[i].s,
               n |-> commits[i].n, ref |-> commits[i].ref, last |-> commits[i].last]],
    running <- IF \E c \in DOMAIN book : book[c].st \in {"ACTIVE", "SETTLING"}
               THEN CHOOSE c \in DOMAIN book : book[c].st \in {"ACTIVE", "SETTLING"}
               ELSE 0,
    closed <- {c \in DOMAIN book : book[c].st = "CLOSED"}
\* So prose refers to a ruling only right after it, and a scene ends with its last
\* segment (world/pipeline.py, settlement.py).
KeepsContract == Contract!Spec

\* Scenes are opened in turn: none while another scene of the plan in force is ACTIVE
\* (activate_scene has no such guard, its callers walk the roster).  An ACTIVE scene
\* that a replan took off the plan does not count: it stays ACTIVE behind the others.
ScenesOpenInTurn ==
    [][\A c \in DOMAIN book : \A s, t \in DOMAIN Scenes(c) :
         ( /\ Scenes(c)[s].st = "PLANNED" /\ book'[c].scenes[s].st = "ACTIVE"
           /\ Scenes(c)[t].st = "ACTIVE" )
             => t \notin Plan(c).els]_vars

\* What was told stays told, and what is under way is not passed over
\* (world/action.py, narrative/store.py).
StoryIsKept == RecordsStand /\ ScenesOpenInTurn

\* Every request comes to an end: the loops of a drive stop at its ceiling, and
\* consuming the obligations uses them up.  (Only where a planner is asked for a new
\* row may a bound of the instance keep the request waiting.)
AsksPlanner ==
    \/ job.pc \in {"plan", "situation", "revise"}
    \/ job.pc = "replan" /\ Gate(job.c, job.s, job.g).target = 0
RequestsEnd == []<>(job.pc = "idle" \/ AsksPlanner)

\* What a reader may count on: the log is the promised story, a request ends, and the
\* story can go on but for the known losses (narrative_web.py, ds_web.py, pipeline.py).
StoryIsTold == KeepsContract /\ []StrandedOnlyByLoss /\ RequestsEnd

=============================================================================
