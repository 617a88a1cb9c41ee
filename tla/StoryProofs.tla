---------------------------- MODULE StoryProofs ----------------------------
(***************************************************************************)
(* The narrative spine keeps its records straight, for any number of       *)
(* chapters, scenes, gates and revisions, any script, and any deaths.      *)
(*                                                                         *)
(*   StoryStaysTogether   StoryHangsTogether                               *)
(*   StoryIsNotRewritten  StoryIsKept                                      *)
(*                                                                         *)
(* One request runs at a time, so what it knows of the rows when it writes *)
(* one is what it knew when it read them, unless it wrote them itself:     *)
(* LabelOk says, label by label, what that is.  Every step is then one of  *)
(* a few writes, and one lemma per kind of write (GateWrites, DossierSound,*)
(* RulingLands, SegmentLands and so on) says that it keeps what the rows   *)
(* and the log promise (BookOk, LogOk) and what a step may never undo      *)
(* (BookKept, LogKept).                                                    *)
(***************************************************************************)
EXTENDS Story, TLAPS, FiniteSetTheorems, SequenceTheorems, WellFoundedInduction

-----------------------------------------------------------------------------
(* Least elements: what CHOOSE picks in the model's work lists exists. *)

LEMMA Least == ASSUME NEW S \in SUBSET Nat, S # {}
  PROVE \E m \in S : \A k \in S : m <= k
<1> DEFINE R == {ss \in Nat \X Nat : ss[1] < ss[2]}
<1>1. OpToRel(<, Nat) = R
  BY DEF OpToRel
<1>2. IsWellFoundedOn(R, Nat)
  BY <1>1, NatLessThanWellFounded
<1>3. \A x, y \in Nat : <<y, x>> \notin R => x <= y
  OBVIOUS
<1> HIDE DEF R
<1>4. \E x \in S : \A y \in S : <<y, x>> \notin R
  <2>1. S \subseteq Nat
    OBVIOUS
  <2> QED BY <1>2, <2>1, WFMin, Zenon
<1> QED BY <1>3, <1>4

LEMMA Greatest == ASSUME NEW S \in SUBSET Nat, S # {}, NEW n \in Nat, \A k \in S : k <= n
  PROVE \E m \in S : \A k \in S : k <= m
<1> DEFINE D == {n - k : k \in S}
<1>1. D \in SUBSET Nat /\ D # {}
  <2>1. \A k \in S : k \in Nat /\ n - k \in Nat
    OBVIOUS
  <2>2. PICK k \in S : TRUE
    OBVIOUS
  <2>3. n - k \in D
    BY <2>2
  <2> QED BY <2>1, <2>3
<1>2. PICK d \in D : \A e \in D : d <= e
  BY <1>1, Least
<1>3. PICK m \in S : d = n - m
  BY <1>2
<1>4. \A k \in S : n - k \in D
  OBVIOUS
<1> QED BY <1>2, <1>3, <1>4

\* A work list is served in the order of its rows.
WorkItems == Nat \X Nat \X Nat \X Nat
LEMMA FirstIsOne == ASSUME NEW S \in SUBSET WorkItems, S # {}
  PROVE First(S) \in S
<1>1. PICK a \in {x[1] : x \in S} : \A k \in {x[1] : x \in S} : a <= k
  <2>1. {x[1] : x \in S} \in SUBSET Nat /\ {x[1] : x \in S} # {}
    BY DEF WorkItems
  <2> QED BY <2>1, Least
<1> DEFINE A == {x \in S : x[1] = a}
<1>2. PICK b \in {x[2] : x \in A} : \A k \in {x[2] : x \in A} : b <= k
  <2>1. {x[2] : x \in A} \in SUBSET Nat /\ {x[2] : x \in A} # {}
    BY <1>1 DEF WorkItems
  <2> QED BY <2>1, Least
<1> DEFINE B == {x \in A : x[2] = b}
<1>3. PICK c \in {x[3] : x \in B} : \A k \in {x[3] : x \in B} : c <= k
  <2>1. {x[3] : x \in B} \in SUBSET Nat /\ {x[3] : x \in B} # {}
    BY <1>2 DEF WorkItems
  <2> QED BY <2>1, Least
<1> DEFINE C == {x \in B : x[3] = c}
<1>4. PICK d \in {x[4] : x \in C} : \A k \in {x[4] : x \in C} : d <= k
  <2>1. {x[4] : x \in C} \in SUBSET Nat /\ {x[4] : x \in C} # {}
    BY <1>3 DEF WorkItems
  <2> QED BY <2>1, Least
<1>5. PICK x \in C : x[4] = d
  BY <1>4
<1>6. x \in S /\ x = <<a, b, c, d>>
  BY <1>5 DEF WorkItems
<1>7. ASSUME NEW y \in S \ {x} PROVE Before(x, y)
  <2>1. y \in WorkItems /\ x \in WorkItems
    BY <1>6
  <2>2. \/ a < y[1]
        \/ a = y[1] /\ b < y[2]
        \/ a = y[1] /\ b = y[2] /\ c < y[3]
        \/ a = y[1] /\ b = y[2] /\ c = y[3] /\ d <= y[4]
    <3>1. a <= y[1] /\ (a = y[1] => y \in A)
      BY <1>1
    <3>2. y \in A => b <= y[2] /\ (b = y[2] => y \in B)
      BY <1>2
    <3>3. y \in B => c <= y[3] /\ (c = y[3] => y \in C)
      BY <1>3
    <3>4. y \in C => d <= y[4]
      BY <1>4
    <3>5. {a, b, c} \subseteq Nat /\ y[1] \in Nat /\ y[2] \in Nat /\ y[3] \in Nat
      BY <1>6, <2>1 DEF WorkItems
    <3> HIDE DEF A, B, C
    <3> QED BY <3>1, <3>2, <3>3, <3>4, <3>5
  <2>3. y # <<a, b, c, d>>
    BY <1>6
  <2>4. x[1] = a /\ x[2] = b /\ x[3] = c /\ x[4] = d /\ {a, b, c, d} \subseteq Nat
    BY <1>6, <2>1 DEF WorkItems
  <2>5. y[1] \in Nat /\ y[2] \in Nat /\ y[3] \in Nat /\ y[4] \in Nat
        /\ y = <<y[1], y[2], y[3], y[4]>>
    BY <2>1 DEF WorkItems
  <2>6. CASE a < y[1]
    BY <2>4, <2>6 DEF Before
  <2>7. CASE a = y[1] /\ b < y[2]
    BY <2>4, <2>7 DEF Before
  <2>8. CASE a = y[1] /\ b = y[2] /\ c < y[3]
    <3>1. \A k \in 1..(3 - 1) : k = 1 \/ k = 2
      OBVIOUS
    <3> QED BY <2>4, <2>8, <3>1 DEF Before
  <2>9. CASE a = y[1] /\ b = y[2] /\ c = y[3] /\ d <= y[4]
    <3>1. d < y[4]
      BY <2>3, <2>4, <2>5, <2>9
    <3>2. \A k \in 1..(4 - 1) : k = 1 \/ k = 2 \/ k = 3
      OBVIOUS
    <3> QED BY <2>4, <2>9, <3>1, <3>2 DEF Before
  <2> QED BY <2>2, <2>6, <2>7, <2>8, <2>9
<1> QED BY <1>6, <1>7 DEF First

-----------------------------------------------------------------------------
(* The rows, and what they promise.  The operators take the rows as arguments, so     *)
(* that they say the same of the rows before and after a step.                        *)

Shapes == Blueprints \cup {SituationBlueprint}
PlanRec == [st : RevisionStatus, bp : Shapes, els : SUBSET Nat]
GateRec == [st : GateStatus, sub : Submissions \cup {"none"},
            scope : {"NONE", "SCENE", "CHAPTER"}, rp : {"none", "PENDING", "APPLIED"},
            target : Nat]
SceneRec == [st : SceneStatus, doss : Seq(RevisionRow), gates : Seq(GateRec)]
ChapterRec == [st : ChapterStatus, plans : Seq(PlanRec), scenes : Seq(SceneRec),
               settled : BOOLEAN]

Runs(ch) == ch.st \in {"ACTIVE", "SETTLING"}
Over(ch) == ch.st \in {"SETTLING", "CLOSED"}
Ruled(gt) == gt.st \in {"COMMITTED", "CLOSED"}
OneAdopted(revs) ==
    \A i, j \in DOMAIN revs : revs[i].st = "ADOPTED" /\ revs[j].st = "ADOPTED" => i = j

\* The revision an obligation claimed is in force, now or until a later one.
Landed(plans, doss, gt) ==
    LET revs == IF gt.scope = "SCENE" THEN doss ELSE plans
    IN gt.target \in DOMAIN revs /\ revs[gt.target].st \in {"ADOPTED", "SUPERSEDED"}

\* A gate holds what its stage has written, an obligation exactly when its ruling
\* asked for one; over says that the chapter settles or has closed.
GateOk(plans, doss, over, gt) ==
    /\ gt.st = "OPEN" => gt.sub = "none"
    /\ gt.rp # "none" => Ruled(gt) /\ gt.scope # "NONE"
    /\ Ruled(gt) /\ gt.scope # "NONE" => gt.rp # "none"
    /\ gt.rp = "APPLIED" => Landed(plans, doss, gt)
    /\ over => gt.st = "CLOSED" /\ gt.rp # "PENDING"
SceneOk(plans, over, sc) ==
    /\ sc \in SceneRec /\ OneAdopted(sc.doss)
    /\ over => sc.st # "ACTIVE"
    /\ \A g \in DOMAIN sc.gates : GateOk(plans, sc.doss, over, sc.gates[g])
    /\ \A g, h \in DOMAIN sc.gates :
         sc.gates[g].st # "CLOSED" /\ sc.gates[h].st # "CLOSED" => g = h
ChapterOk(ch) ==
    /\ ch \in ChapterRec /\ OneAdopted(ch.plans) /\ (ch.settled <=> ch.st = "CLOSED")
    /\ \A s \in DOMAIN ch.scenes : SceneOk(ch.plans, Over(ch), ch.scenes[s])
BookOk(b) ==
    /\ b \in Seq(ChapterRec)
    /\ \A c \in DOMAIN b : ChapterOk(b[c])
    /\ \A c, d \in DOMAIN b : Runs(b[c]) /\ Runs(b[d]) => c = d

\* The log is of scenes and gates that exist, tiles the clock, and every ruling in it
\* is told or waits to be.
EntryOk(b, log, i) ==
    LET m == log[i] IN
    /\ m.c \in DOMAIN b /\ m.s \in DOMAIN b[m.c].scenes /\ m.to \in Nat
    /\ m.from = IF i = 1 THEN 0 ELSE log[i - 1].to
    /\ m.kind = "ACTION" =>
         /\ m.n \in DOMAIN b[m.c].scenes[m.s].gates
         /\ Told(log, i, b[m.c].scenes[m.s].gates[m.n].st)
LogOk(b, log, t) ==
    /\ \E S : log \in Seq(S)
    /\ \A i \in DOMAIN log : EntryOk(b, log, i)
    /\ t = IF log = <<>> THEN 0 ELSE log[Len(log)].to

StoryInv ==
    BookOk(book) /\ LogOk(book, commits, tick) /\ tick \in 0..MaxTick /\ host \in Hosts

\* What a step keeps of the rows it finds.
InTurn(ch) ==
    \A t \in DOMAIN ch.scenes :
        ch.scenes[t].st = "ACTIVE" => t \notin ch.plans[Adopted(ch.plans)].els
GateKept(a, b) ==
    /\ a.sub # "none" => b.sub = a.sub
    /\ Ruled(a) => b.scope = a.scope
    /\ a.rp # "none" => b.rp # "none"
    /\ a.rp = "APPLIED" => b.rp = "APPLIED" /\ b.target = a.target
SceneKept(ch, a, b) ==
    /\ a.st = "PLANNED" /\ b.st = "ACTIVE" => InTurn(ch)
    /\ \A g \in DOMAIN a.gates : g \in DOMAIN b.gates /\ GateKept(a.gates[g], b.gates[g])
ChapterKept(a, b) ==
    /\ a.settled => b = a
    /\ \A s \in DOMAIN a.scenes :
         s \in DOMAIN b.scenes /\ SceneKept(a, a.scenes[s], b.scenes[s])
BookKept(a, b) == \A c \in DOMAIN a : c \in DOMAIN b /\ ChapterKept(a[c], b[c])
LogKept(a, b) == Len(b) >= Len(a) /\ SubSeq(b, 1, Len(a)) = a

\* No gate that is ruled moves on.
RulingsRest(a, b) ==
    \A c \in DOMAIN a : \A s \in DOMAIN a[c].scenes : \A g \in DOMAIN a[c].scenes[s].gates :
        Ruled(a[c].scenes[s].gates[g]) =>
            b[c].scenes[s].gates[g].st = a[c].scenes[s].gates[g].st

\* No chapter is added or closed.
Calm(a, b) ==
    Len(b) = Len(a) /\ \A c \in DOMAIN a : b[c].st = "CLOSED" => a[c].st = "CLOSED"

-----------------------------------------------------------------------------
(* What one write of a row leaves alone. *)

LEMMA RowTypes == ASSUME NEW b, BookOk(b), NEW c \in DOMAIN b
  PROVE /\ ChapterOk(b[c]) /\ b[c] \in ChapterRec /\ c \in Nat \ {0} /\ c <= Len(b)
        /\ b[c].plans \in Seq(PlanRec) /\ b[c].scenes \in Seq(SceneRec)
        /\ \A s \in DOMAIN b[c].scenes :
             /\ SceneOk(b[c].plans, Over(b[c]), b[c].scenes[s])
             /\ b[c].scenes[s] \in SceneRec /\ s \in Nat \ {0}
             /\ b[c].scenes[s].gates \in Seq(GateRec)
             /\ b[c].scenes[s].doss \in Seq(RevisionRow)
             /\ \A g \in DOMAIN b[c].scenes[s].gates :
                  b[c].scenes[s].gates[g] \in GateRec /\ g \in Nat \ {0}
<1>1. b \in Seq(ChapterRec) /\ ChapterOk(b[c])
  BY DEF BookOk
<1>2. b[c] \in ChapterRec /\ c \in Nat \ {0} /\ c <= Len(b)
  BY <1>1
<1>3. b[c].scenes \in Seq(SceneRec) /\ b[c].plans \in Seq(PlanRec)
  BY <1>2 DEF ChapterRec
<1>4. ASSUME NEW s \in DOMAIN b[c].scenes
      PROVE  /\ SceneOk(b[c].plans, Over(b[c]), b[c].scenes[s])
             /\ b[c].scenes[s] \in SceneRec /\ s \in Nat \ {0}
             /\ b[c].scenes[s].gates \in Seq(GateRec)
             /\ b[c].scenes[s].doss \in Seq(RevisionRow)
             /\ \A g \in DOMAIN b[c].scenes[s].gates :
                  b[c].scenes[s].gates[g] \in GateRec /\ g \in Nat \ {0}
  <2>1. SceneOk(b[c].plans, Over(b[c]), b[c].scenes[s])
    BY <1>1 DEF ChapterOk
  <2>2. b[c].scenes[s] \in SceneRec /\ s \in Nat \ {0}
    BY <1>3
  <2>3. b[c].scenes[s].gates \in Seq(GateRec) /\ b[c].scenes[s].doss \in Seq(RevisionRow)
    BY <2>2 DEF SceneRec
  <2> QED BY <2>1, <2>2, <2>3
<1> QED BY <1>1, <1>2, <1>3, <1>4

\* A row that moves takes nothing from the others.
PutChapter(b, c, row) == [b EXCEPT ![c] = row]
PutPlans(b, c, plans) == [b EXCEPT ![c].plans = plans]
PutScenes(b, c, scenes) == [b EXCEPT ![c].scenes = scenes]
PutStatus(b, c, st) == [b EXCEPT ![c].st = st]
LEMMA ChapterMoves ==
  ASSUME NEW b, BookOk(b), NEW c \in DOMAIN b, NEW row, ChapterOk(row),
         ChapterKept(b[c], row), NEW new, new = PutChapter(b, c, row),
         Runs(row) => \A d \in DOMAIN b \ {c} : ~Runs(b[d])
  PROVE  /\ BookOk(new) /\ BookKept(b, new) /\ DOMAIN new = DOMAIN b /\ Len(new) = Len(b)
         /\ \A d \in DOMAIN b : new[d] = IF d = c THEN row ELSE b[d]
<1>1. row \in ChapterRec /\ b \in Seq(ChapterRec)
  BY DEF ChapterOk, BookOk
<1>2. /\ new \in Seq(ChapterRec) /\ DOMAIN new = DOMAIN b /\ Len(new) = Len(b)
      /\ \A d \in DOMAIN b : new[d] = IF d = c THEN row ELSE b[d]
  BY <1>1 DEF PutChapter
<1>3. \A d \in DOMAIN b : ChapterOk(new[d])
  BY <1>2 DEF BookOk
<1>4. \A d, e \in DOMAIN b : Runs(new[d]) /\ Runs(new[e]) => d = e
  BY <1>2 DEF BookOk
<1>5. ASSUME NEW d \in DOMAIN b PROVE ChapterKept(b[d], new[d])
  <2>1. CASE d = c
    BY <1>2, <2>1
  <2>2. CASE d # c
    BY <1>2, <2>2 DEF ChapterKept, SceneKept, GateKept
  <2> QED BY <2>1, <2>2
<1> QED BY <1>2, <1>3, <1>4, <1>5 DEF BookOk, BookKept

\* A scene's row likewise.
PutScene(b, c, s, sc) == [b EXCEPT ![c].scenes[s] = sc]
PutGate(b, c, s, g, gt) == [b EXCEPT ![c].scenes[s].gates[g] = gt]
PutGates(b, c, s, gates) == [b EXCEPT ![c].scenes[s].gates = gates]
PutDossiers(b, c, s, doss) == [b EXCEPT ![c].scenes[s].doss = doss]
PutSceneStatus(b, c, s, st) == [b EXCEPT ![c].scenes[s].st = st]
LEMMA SceneMoves ==
  ASSUME NEW b, BookOk(b), NEW c \in DOMAIN b, NEW s \in DOMAIN b[c].scenes, NEW sc,
         SceneOk(b[c].plans, Over(b[c]), sc), SceneKept(b[c], b[c].scenes[s], sc),
         b[c].st # "CLOSED", NEW new, new = PutScene(b, c, s, sc)
  PROVE  /\ BookOk(new) /\ BookKept(b, new) /\ Calm(b, new)
         /\ DOMAIN new = DOMAIN b /\ \A d \in DOMAIN b \ {c} : new[d] = b[d]
         /\ new[c].st = b[c].st /\ new[c].plans = b[c].plans /\ new[c].settled = b[c].settled
         /\ DOMAIN new[c].scenes = DOMAIN b[c].scenes
         /\ \A t \in DOMAIN b[c].scenes : new[c].scenes[t] = IF t = s THEN sc ELSE b[c].scenes[t]
<1> DEFINE scenes == [b[c].scenes EXCEPT ![s] = sc]
           row == [b[c] EXCEPT !.scenes = scenes]
<1>1. /\ ChapterOk(b[c]) /\ b[c] \in ChapterRec /\ b[c].scenes \in Seq(SceneRec)
      /\ sc \in SceneRec
  BY RowTypes DEF SceneOk
<1>2. /\ scenes \in Seq(SceneRec) /\ DOMAIN scenes = DOMAIN b[c].scenes
      /\ \A t \in DOMAIN b[c].scenes : scenes[t] = IF t = s THEN sc ELSE b[c].scenes[t]
  BY <1>1
<1>3. new = PutChapter(b, c, row)
  BY DEF PutScene, PutChapter
<1> HIDE DEF scenes
<1>4. /\ row \in ChapterRec /\ row.scenes = scenes /\ row.st = b[c].st
      /\ row.plans = b[c].plans /\ row.settled = b[c].settled
  BY <1>1, <1>2 DEF ChapterRec
<1> HIDE DEF row
<1>5. Over(row) = Over(b[c]) /\ Runs(row) = Runs(b[c])
  BY <1>4 DEF Over, Runs
<1>6. ChapterOk(row)
  <2>1. \A t \in DOMAIN row.scenes : SceneOk(row.plans, Over(row), row.scenes[t])
    BY <1>1, <1>2, <1>4, <1>5 DEF ChapterOk
  <2> QED BY <1>1, <1>4, <2>1 DEF ChapterOk
<1>7. ChapterKept(b[c], row)
  <2>1. ~b[c].settled
    BY <1>1 DEF ChapterOk
  <2>2. ASSUME NEW t \in DOMAIN b[c].scenes
        PROVE t \in DOMAIN row.scenes /\ SceneKept(b[c], b[c].scenes[t], row.scenes[t])
    <3>1. CASE t = s
      BY <1>2, <1>4, <3>1
    <3>2. CASE t # s
      BY <1>2, <1>4, <3>2 DEF SceneKept, GateKept
    <3> QED BY <3>1, <3>2
  <2> QED BY <2>1, <2>2 DEF ChapterKept
<1>8. Runs(row) => \A d \in DOMAIN b \ {c} : ~Runs(b[d])
  BY <1>5 DEF BookOk
<1>9. /\ BookOk(new) /\ BookKept(b, new) /\ DOMAIN new = DOMAIN b /\ Len(new) = Len(b)
      /\ \A d \in DOMAIN b : new[d] = IF d = c THEN row ELSE b[d]
  BY <1>3, <1>6, <1>7, <1>8, ChapterMoves
<1>10. Calm(b, new)
  BY <1>4, <1>9 DEF Calm
<1> QED BY <1>2, <1>4, <1>9, <1>10

\* Revisions only come into force, one at a time.
Revised(old, new) ==
    /\ DOMAIN old \subseteq DOMAIN new /\ OneAdopted(new)
    /\ \A i \in DOMAIN old :
         old[i].st \in {"ADOPTED", "SUPERSEDED"} => new[i].st \in {"ADOPTED", "SUPERSEDED"}

LEMMA LandedStays ==
  ASSUME NEW plans, NEW doss, NEW plans2, NEW doss2, NEW gt, Landed(plans, doss, gt),
         plans2 = plans \/ Revised(plans, plans2), doss2 = doss \/ Revised(doss, doss2)
  PROVE  Landed(plans2, doss2, gt)
BY DEF Landed, Revised

\* A gate's row is rewritten, and no gate is opened by it.
LEMMA GateMoves ==
  ASSUME NEW b, BookOk(b), NEW c \in DOMAIN b, NEW s \in DOMAIN b[c].scenes,
         NEW g \in DOMAIN b[c].scenes[s].gates, NEW gt \in GateRec, b[c].st # "CLOSED",
         GateOk(b[c].plans, b[c].scenes[s].doss, Over(b[c]), gt),
         GateKept(b[c].scenes[s].gates[g], gt),
         gt.st = "CLOSED" \/ b[c].scenes[s].gates[g].st # "CLOSED",
         NEW new, new = PutGate(b, c, s, g, gt)
  PROVE  \E sc :
           /\ sc = [b[c].scenes[s] EXCEPT !.gates = [b[c].scenes[s].gates EXCEPT ![g] = gt]]
           /\ new = PutScene(b, c, s, sc) /\ sc \in SceneRec
           /\ SceneOk(b[c].plans, Over(b[c]), sc) /\ SceneKept(b[c], b[c].scenes[s], sc)
           /\ sc.st = b[c].scenes[s].st /\ sc.doss = b[c].scenes[s].doss
           /\ DOMAIN sc.gates = DOMAIN b[c].scenes[s].gates
           /\ \A h \in DOMAIN sc.gates :
                sc.gates[h] = IF h = g THEN gt ELSE b[c].scenes[s].gates[h]
<1> DEFINE old == b[c].scenes[s]
           gates == [old.gates EXCEPT ![g] = gt]
           sc == [old EXCEPT !.gates = gates]
<1>1. /\ SceneOk(b[c].plans, Over(b[c]), old) /\ old \in SceneRec
      /\ old.gates \in Seq(GateRec)
  BY RowTypes
<1>2. /\ gates \in Seq(GateRec) /\ DOMAIN gates = DOMAIN old.gates
      /\ \A h \in DOMAIN gates : gates[h] = IF h = g THEN gt ELSE old.gates[h]
  BY <1>1
<1>3. new = PutScene(b, c, s, sc)
  BY DEF PutScene, PutGate
<1>4. sc = [b[c].scenes[s] EXCEPT !.gates = [b[c].scenes[s].gates EXCEPT ![g] = gt]]
  OBVIOUS
<1> HIDE DEF gates
<1>5. sc \in SceneRec /\ sc.st = old.st /\ sc.doss = old.doss /\ sc.gates = gates
  BY <1>1, <1>2 DEF SceneRec
<1> HIDE DEF sc, old
<1>6. SceneOk(b[c].plans, Over(b[c]), sc)
  <2>1. \A h \in DOMAIN sc.gates : GateOk(b[c].plans, sc.doss, Over(b[c]), sc.gates[h])
    BY <1>1, <1>2, <1>5 DEF SceneOk, old
  <2>2. \A h, k \in DOMAIN sc.gates :
          sc.gates[h].st # "CLOSED" /\ sc.gates[k].st # "CLOSED" => h = k
    BY <1>1, <1>2, <1>5 DEF SceneOk, old
  <2> QED BY <1>1, <1>5, <2>1, <2>2 DEF SceneOk
<1>7. SceneKept(b[c], old, sc)
  <2>1. \A h \in DOMAIN old.gates : GateKept(old.gates[h], sc.gates[h])
    BY <1>2, <1>5 DEF GateKept, old
  <2> QED BY <1>2, <1>5, <2>1 DEF SceneKept
<1> QED BY <1>2, <1>3, <1>4, <1>5, <1>6, <1>7 DEF old

\* A dossier is written, adopted or superseded.
LEMMA DossierMoves ==
  ASSUME NEW b, BookOk(b), NEW c \in DOMAIN b, NEW s \in DOMAIN b[c].scenes,
         NEW doss \in Seq(RevisionRow), b[c].st # "CLOSED",
         Revised(b[c].scenes[s].doss, doss),
         NEW new, new = PutDossiers(b, c, s, doss)
  PROVE  \E sc :
           /\ sc = [b[c].scenes[s] EXCEPT !.doss = doss]
           /\ new = PutScene(b, c, s, sc) /\ sc \in SceneRec
           /\ SceneOk(b[c].plans, Over(b[c]), sc) /\ SceneKept(b[c], b[c].scenes[s], sc)
           /\ sc.st = b[c].scenes[s].st /\ sc.gates = b[c].scenes[s].gates
           /\ sc.doss = doss
<1> DEFINE old == b[c].scenes[s]
           sc == [old EXCEPT !.doss = doss]
<1>1. SceneOk(b[c].plans, Over(b[c]), old) /\ old \in SceneRec
  BY RowTypes
<1>2. new = PutScene(b, c, s, sc)
  BY DEF PutScene, PutDossiers
<1>3. sc = [b[c].scenes[s] EXCEPT !.doss = doss]
  OBVIOUS
<1>4. sc \in SceneRec /\ sc.st = old.st /\ sc.doss = doss /\ sc.gates = old.gates
  BY <1>1 DEF SceneRec
<1> HIDE DEF sc, old
<1>5. SceneOk(b[c].plans, Over(b[c]), sc)
  <2>1. ASSUME NEW g \in DOMAIN sc.gates
        PROVE GateOk(b[c].plans, sc.doss, Over(b[c]), sc.gates[g])
    <3>1. GateOk(b[c].plans, old.doss, Over(b[c]), sc.gates[g])
      BY <1>1, <1>4 DEF SceneOk
    <3>2. Landed(b[c].plans, old.doss, sc.gates[g]) => Landed(b[c].plans, sc.doss, sc.gates[g])
      BY <1>4, LandedStays DEF old
    <3> QED BY <3>1, <3>2 DEF GateOk
  <2>2. OneAdopted(sc.doss)
    BY <1>4 DEF Revised
  <2> QED BY <1>1, <1>4, <2>1, <2>2 DEF SceneOk
<1>6. SceneKept(b[c], old, sc)
  BY <1>1, <1>4 DEF SceneKept, GateKept
<1> QED BY <1>2, <1>3, <1>4, <1>5, <1>6 DEF old

\* A scene is discarded, or opened in turn.
LEMMA StatusMoves ==
  ASSUME NEW b, BookOk(b), NEW c \in DOMAIN b, NEW s \in DOMAIN b[c].scenes, NEW st,
         b[c].scenes[s].st = "PLANNED",
         st = "DISCARDED" \/ (st = "ACTIVE" /\ ~Over(b[c]) /\ InTurn(b[c])),
         NEW new, new = PutSceneStatus(b, c, s, st)
  PROVE  \E sc :
           /\ sc = [b[c].scenes[s] EXCEPT !.st = st]
           /\ new = PutScene(b, c, s, sc) /\ sc \in SceneRec
           /\ SceneOk(b[c].plans, Over(b[c]), sc) /\ SceneKept(b[c], b[c].scenes[s], sc)
           /\ sc.st = st /\ sc.gates = b[c].scenes[s].gates
           /\ sc.doss = b[c].scenes[s].doss
<1> DEFINE old == b[c].scenes[s]
           sc == [old EXCEPT !.st = st]
<1>1. SceneOk(b[c].plans, Over(b[c]), old) /\ old \in SceneRec
  BY RowTypes
<1>2. new = PutScene(b, c, s, sc)
  BY DEF PutScene, PutSceneStatus
<1>3. sc = [b[c].scenes[s] EXCEPT !.st = st]
  OBVIOUS
<1>4. sc \in SceneRec /\ sc.st = st /\ sc.doss = old.doss /\ sc.gates = old.gates
  BY <1>1 DEF SceneRec, SceneStatus
<1> HIDE DEF sc, old
<1>5. SceneOk(b[c].plans, Over(b[c]), sc)
  BY <1>1, <1>4 DEF SceneOk
<1>6. SceneKept(b[c], old, sc)
  BY <1>1, <1>4 DEF SceneKept, GateKept
<1> QED BY <1>2, <1>3, <1>4, <1>5, <1>6 DEF old

\* A gate opens where none stands.
LEMMA GateOpens ==
  ASSUME NEW b, BookOk(b), NEW c \in DOMAIN b, NEW s \in DOMAIN b[c].scenes,
         b[c].scenes[s].st = "ACTIVE",
         \A g \in DOMAIN b[c].scenes[s].gates : b[c].scenes[s].gates[g].st = "CLOSED",
         NEW new,
         new = PutGates(b, c, s, Append(b[c].scenes[s].gates, GateRow))
  PROVE  \E sc :
           /\ sc = [b[c].scenes[s] EXCEPT !.gates = Append(b[c].scenes[s].gates, GateRow)]
           /\ new = PutScene(b, c, s, sc) /\ sc \in SceneRec
           /\ SceneOk(b[c].plans, Over(b[c]), sc) /\ SceneKept(b[c], b[c].scenes[s], sc)
           /\ sc.st = b[c].scenes[s].st /\ sc.doss = b[c].scenes[s].doss
           /\ Len(sc.gates) = Len(b[c].scenes[s].gates) + 1
           /\ DOMAIN sc.gates = 1..Len(sc.gates)
           /\ DOMAIN b[c].scenes[s].gates = 1..Len(b[c].scenes[s].gates)
           /\ \A h \in DOMAIN b[c].scenes[s].gates : sc.gates[h] = b[c].scenes[s].gates[h]
           /\ sc.gates[Len(sc.gates)] = GateRow
<1> DEFINE old == b[c].scenes[s]
           gates == Append(old.gates, GateRow)
           sc == [old EXCEPT !.gates = gates]
<1>1. /\ SceneOk(b[c].plans, Over(b[c]), old) /\ old \in SceneRec
      /\ old.gates \in Seq(GateRec)
  BY RowTypes
<1>2. GateRow \in GateRec /\ GateRow.st = "OPEN" /\ GateRow.rp = "none" /\ GateRow.sub = "none"
  BY DEF GateRow, GateRec, GateStatus
<1>3. /\ gates \in Seq(GateRec) /\ Len(gates) = Len(old.gates) + 1
      /\ DOMAIN gates = 1..Len(gates) /\ DOMAIN old.gates = 1..Len(old.gates)
      /\ \A h \in DOMAIN old.gates : gates[h] = old.gates[h]
      /\ gates[Len(gates)] = GateRow
  BY <1>1, <1>2
<1>4. new = PutScene(b, c, s, sc)
  BY DEF PutScene, PutGates
<1>5. sc = [b[c].scenes[s] EXCEPT !.gates = Append(b[c].scenes[s].gates, GateRow)]
  OBVIOUS
<1> HIDE DEF gates
<1>6. sc \in SceneRec /\ sc.st = old.st /\ sc.doss = old.doss /\ sc.gates = gates
  BY <1>1, <1>3 DEF SceneRec
<1> HIDE DEF sc, old
<1>7. ~Over(b[c])
  BY <1>1 DEF SceneOk, old
<1>8. \A h \in DOMAIN gates : h \in DOMAIN old.gates \/ h = Len(gates)
  <2>1. Len(old.gates) \in Nat
    BY <1>1
  <2> QED BY <1>3, <2>1
<1>9. SceneOk(b[c].plans, Over(b[c]), sc)
  <2>1. ASSUME NEW h \in DOMAIN sc.gates
        PROVE GateOk(b[c].plans, sc.doss, Over(b[c]), sc.gates[h])
    <3>1. CASE h \in DOMAIN old.gates
      BY <1>1, <1>3, <1>6, <3>1 DEF SceneOk
    <3>2. CASE h = Len(gates)
      BY <1>2, <1>3, <1>6, <1>7, <3>2 DEF GateOk, Ruled
    <3> QED BY <1>6, <1>8, <3>1, <3>2
  <2>2. \A h, k \in DOMAIN sc.gates :
          sc.gates[h].st # "CLOSED" /\ sc.gates[k].st # "CLOSED" => h = k
    BY <1>3, <1>6, <1>8 DEF old
  <2> QED BY <1>1, <1>6, <1>7, <2>1, <2>2 DEF SceneOk
<1>10. SceneKept(b[c], old, sc)
  <2>1. DOMAIN old.gates \subseteq DOMAIN sc.gates
    <3>1. Len(old.gates) \in Nat
      BY <1>1
    <3> QED BY <1>3, <1>6, <3>1
  <2>2. \A h \in DOMAIN old.gates : GateKept(old.gates[h], sc.gates[h])
    BY <1>3, <1>6 DEF GateKept
  <2> QED BY <1>6, <2>1, <2>2 DEF SceneKept
<1>11. /\ Len(sc.gates) = Len(old.gates) + 1 /\ DOMAIN sc.gates = 1..Len(sc.gates)
       /\ DOMAIN old.gates = 1..Len(old.gates)
       /\ \A h \in DOMAIN old.gates : sc.gates[h] = old.gates[h]
       /\ sc.gates[Len(sc.gates)] = GateRow
  BY <1>3, <1>6
<1> QED BY <1>4, <1>5, <1>6, <1>9, <1>10, <1>11 DEF old

\* What every write but a landing amounts to.
Sound(a, b) == BookOk(b) /\ BookKept(a, b) /\ RulingsRest(a, b)

LEMMA SceneSound ==
  ASSUME NEW b, BookOk(b), NEW c \in DOMAIN b, NEW s \in DOMAIN b[c].scenes, NEW sc,
         SceneOk(b[c].plans, Over(b[c]), sc), SceneKept(b[c], b[c].scenes[s], sc),
         b[c].st # "CLOSED", NEW new, new = PutScene(b, c, s, sc),
         \A g \in DOMAIN b[c].scenes[s].gates :
           Ruled(b[c].scenes[s].gates[g]) => sc.gates[g].st = b[c].scenes[s].gates[g].st
  PROVE  Sound(b, new)
<1>1. /\ BookOk(new) /\ BookKept(b, new) /\ \A d \in DOMAIN b \ {c} : new[d] = b[d]
      /\ \A t \in DOMAIN b[c].scenes : new[c].scenes[t] = IF t = s THEN sc ELSE b[c].scenes[t]
  BY SceneMoves
<1>2. RulingsRest(b, new)
  BY <1>1 DEF RulingsRest
<1> QED BY <1>1, <1>2 DEF Sound

LEMMA NothingMoves == ASSUME NEW b, BookOk(b) PROVE Sound(b, b) /\ Calm(b, b)
BY DEF Sound, BookKept, ChapterKept, SceneKept, GateKept, RulingsRest, Calm

\* The plans of a chapter that is not over.
LEMMA PlansSound ==
  ASSUME NEW b, BookOk(b), NEW c \in DOMAIN b, ~Over(b[c]), NEW plans \in Seq(PlanRec),
         Revised(b[c].plans, plans), NEW new, new = PutPlans(b, c, plans)
  PROVE  /\ Sound(b, new) /\ Calm(b, new)
         /\ DOMAIN new = DOMAIN b /\ \A d \in DOMAIN b \ {c} : new[d] = b[d]
         /\ new[c].st = b[c].st /\ new[c].plans = plans /\ new[c].scenes = b[c].scenes
<1> DEFINE row == [b[c] EXCEPT !.plans = plans]
<1>1. /\ ChapterOk(b[c]) /\ b[c] \in ChapterRec
      /\ \A s \in DOMAIN b[c].scenes : SceneOk(b[c].plans, Over(b[c]), b[c].scenes[s])
  BY RowTypes
<1>2. new = PutChapter(b, c, row)
  BY DEF PutChapter, PutPlans
<1>3. /\ row \in ChapterRec /\ row.plans = plans /\ row.st = b[c].st
      /\ row.scenes = b[c].scenes /\ row.settled = b[c].settled
  BY <1>1 DEF ChapterRec
<1> HIDE DEF row
<1>4. Over(row) = Over(b[c]) /\ Runs(row) = Runs(b[c])
  BY <1>3 DEF Over, Runs
<1>5. ChapterOk(row)
  <2>1. ASSUME NEW s \in DOMAIN b[c].scenes PROVE SceneOk(plans, Over(row), b[c].scenes[s])
    <3> DEFINE sc == b[c].scenes[s]
    <3>1. SceneOk(b[c].plans, Over(b[c]), sc)
      BY <1>1
    <3>2. ASSUME NEW g \in DOMAIN sc.gates
          PROVE GateOk(plans, sc.doss, Over(row), sc.gates[g])
      <4>1. GateOk(b[c].plans, sc.doss, Over(b[c]), sc.gates[g])
        BY <3>1 DEF SceneOk
      <4>2. Landed(b[c].plans, sc.doss, sc.gates[g]) => Landed(plans, sc.doss, sc.gates[g])
        BY LandedStays
      <4> QED BY <1>4, <4>1, <4>2 DEF GateOk
    <3> QED BY <1>4, <3>1, <3>2 DEF SceneOk
  <2>2. OneAdopted(row.plans) /\ (row.settled <=> row.st = "CLOSED")
    BY <1>1, <1>3 DEF ChapterOk, Revised
  <2> QED BY <1>3, <2>1, <2>2 DEF ChapterOk
<1>6. ChapterKept(b[c], row)
  <2>1. ~b[c].settled
    BY <1>1 DEF ChapterOk, Over
  <2> QED BY <1>3, <2>1 DEF ChapterKept, SceneKept, GateKept
<1>7. Runs(row) => \A d \in DOMAIN b \ {c} : ~Runs(b[d])
  BY <1>4 DEF BookOk
<1>8. /\ BookOk(new) /\ BookKept(b, new) /\ DOMAIN new = DOMAIN b /\ Len(new) = Len(b)
      /\ \A d \in DOMAIN b : new[d] = IF d = c THEN row ELSE b[d]
  BY <1>2, <1>5, <1>6, <1>7, ChapterMoves
<1>9. Calm(b, new) /\ RulingsRest(b, new)
  BY <1>3, <1>8 DEF Calm, RulingsRest
<1> QED BY <1>3, <1>8, <1>9 DEF Sound

\* A scene of its own making.
LEMMA SceneAddsSound ==
  ASSUME NEW b, BookOk(b), NEW c \in DOMAIN b, ~Over(b[c]),
         NEW new, new = PutScenes(b, c, Append(b[c].scenes, NewScene))
  PROVE  /\ Sound(b, new) /\ Calm(b, new)
         /\ DOMAIN new = DOMAIN b /\ \A d \in DOMAIN b \ {c} : new[d] = b[d]
         /\ new[c].st = b[c].st /\ new[c].plans = b[c].plans
         /\ \A s \in DOMAIN b[c].scenes :
              s \in DOMAIN new[c].scenes /\ new[c].scenes[s] = b[c].scenes[s]
<1> DEFINE scenes == Append(b[c].scenes, NewScene)
           row == [b[c] EXCEPT !.scenes = scenes]
<1>1. /\ ChapterOk(b[c]) /\ b[c] \in ChapterRec /\ b[c].scenes \in Seq(SceneRec)
      /\ \A s \in DOMAIN b[c].scenes : SceneOk(b[c].plans, Over(b[c]), b[c].scenes[s])
  BY RowTypes
<1>2. /\ NewScene \in SceneRec /\ NewScene.st = "PLANNED"
      /\ NewScene.gates = <<>> /\ NewScene.doss = <<>>
  BY DEF NewScene, SceneRec, SceneStatus
<1>3. /\ scenes \in Seq(SceneRec) /\ Len(scenes) = Len(b[c].scenes) + 1
      /\ \A s \in DOMAIN b[c].scenes : s \in DOMAIN scenes /\ scenes[s] = b[c].scenes[s]
      /\ \A s \in DOMAIN scenes : s \in DOMAIN b[c].scenes \/ scenes[s] = NewScene
  BY <1>1, <1>2
<1>4. new = PutChapter(b, c, row)
  BY DEF PutChapter, PutScenes
<1> HIDE DEF scenes
<1>5. /\ row \in ChapterRec /\ row.plans = b[c].plans /\ row.st = b[c].st
      /\ row.scenes = scenes /\ row.settled = b[c].settled
  BY <1>1, <1>3 DEF ChapterRec
<1> HIDE DEF row
<1>6. Over(row) = Over(b[c]) /\ Runs(row) = Runs(b[c])
  BY <1>5 DEF Over, Runs
<1>7. ChapterOk(row)
  <2>1. SceneOk(b[c].plans, Over(b[c]), NewScene)
    BY <1>2 DEF SceneOk, OneAdopted
  <2>2. \A s \in DOMAIN row.scenes : SceneOk(row.plans, Over(row), row.scenes[s])
    BY <1>1, <1>3, <1>5, <1>6, <2>1
  <2> QED BY <1>1, <1>5, <2>2 DEF ChapterOk
<1>8. ChapterKept(b[c], row)
  <2>1. ~b[c].settled
    BY <1>1 DEF ChapterOk, Over
  <2> QED BY <1>3, <1>5, <2>1 DEF ChapterKept, SceneKept, GateKept
<1>9. Runs(row) => \A d \in DOMAIN b \ {c} : ~Runs(b[d])
  BY <1>6 DEF BookOk
<1>10. /\ BookOk(new) /\ BookKept(b, new) /\ DOMAIN new = DOMAIN b /\ Len(new) = Len(b)
       /\ \A d \in DOMAIN b : new[d] = IF d = c THEN row ELSE b[d]
  BY <1>4, <1>7, <1>8, <1>9, ChapterMoves
<1>11. Calm(b, new) /\ RulingsRest(b, new)
  BY <1>3, <1>5, <1>10 DEF Calm, RulingsRest
<1> QED BY <1>3, <1>5, <1>10, <1>11 DEF Sound

\* A chapter's row.
LEMMA ChapterAddsSound ==
  ASSUME NEW b, BookOk(b), NEW new, new = Append(b, NewChapter)
  PROVE  /\ Sound(b, new) /\ Len(new) = Len(b) + 1 /\ new # <<>>
         /\ Len(b) + 1 \in DOMAIN new /\ new[Len(b) + 1] = NewChapter
         /\ \A d \in DOMAIN b : d \in DOMAIN new /\ new[d] = b[d]
<1>1. b \in Seq(ChapterRec) /\ Len(b) \in Nat
  BY DEF BookOk
<1>2. /\ NewChapter \in ChapterRec /\ NewChapter.st = "PLANNED" /\ ~NewChapter.settled
      /\ NewChapter.plans = <<>> /\ NewChapter.scenes = <<>>
  BY DEF NewChapter, ChapterRec, ChapterStatus
<1>3. /\ new \in Seq(ChapterRec) /\ Len(new) = Len(b) + 1
      /\ Len(b) + 1 \in DOMAIN new /\ new[Len(b) + 1] = NewChapter
      /\ \A d \in DOMAIN b : d \in DOMAIN new /\ new[d] = b[d]
      /\ \A d \in DOMAIN new : d \in DOMAIN b \/ d = Len(b) + 1
  BY <1>1, <1>2
<1>4. ChapterOk(NewChapter) /\ ~Runs(NewChapter)
  BY <1>2 DEF ChapterOk, OneAdopted, Runs
<1>5. BookOk(new)
  BY <1>3, <1>4 DEF BookOk
<1>6. BookKept(b, new) /\ RulingsRest(b, new)
  BY <1>3 DEF BookKept, ChapterKept, SceneKept, GateKept, RulingsRest
<1> QED BY <1>3, <1>5, <1>6 DEF Sound

\* A chapter that nothing runs in settles.
LEMMA FlipSound ==
  ASSUME NEW b, BookOk(b), NEW c \in DOMAIN b, b[c].st = "ACTIVE",
         \A s \in DOMAIN b[c].scenes :
           /\ b[c].scenes[s].st # "ACTIVE"
           /\ \A g \in DOMAIN b[c].scenes[s].gates :
                /\ b[c].scenes[s].gates[g].st = "CLOSED"
                /\ b[c].scenes[s].gates[g].rp # "PENDING",
         NEW new, new = PutStatus(b, c, "SETTLING")
  PROVE  Sound(b, new) /\ Calm(b, new) /\ DOMAIN new = DOMAIN b
<1> DEFINE row == [b[c] EXCEPT !.st = "SETTLING"]
<1>1. /\ ChapterOk(b[c]) /\ b[c] \in ChapterRec
      /\ \A s \in DOMAIN b[c].scenes : SceneOk(b[c].plans, Over(b[c]), b[c].scenes[s])
  BY RowTypes
<1>2. new = PutChapter(b, c, row)
  BY DEF PutChapter, PutStatus
<1>3. /\ row \in ChapterRec /\ row.plans = b[c].plans /\ row.st = "SETTLING"
      /\ row.scenes = b[c].scenes /\ row.settled = b[c].settled
  BY <1>1 DEF ChapterRec, ChapterStatus
<1> HIDE DEF row
<1>4. ChapterOk(row)
  <2>1. \A s \in DOMAIN row.scenes : SceneOk(row.plans, Over(row), row.scenes[s])
    BY <1>1, <1>3 DEF SceneOk, GateOk
  <2> QED BY <1>1, <1>3, <2>1 DEF ChapterOk
<1>5. ChapterKept(b[c], row)
  <2>1. ~b[c].settled
    BY <1>1 DEF ChapterOk
  <2> QED BY <1>3, <2>1 DEF ChapterKept, SceneKept, GateKept
<1>6. Runs(row) => \A d \in DOMAIN b \ {c} : ~Runs(b[d])
  BY DEF BookOk, Runs
<1>7. /\ BookOk(new) /\ BookKept(b, new) /\ DOMAIN new = DOMAIN b /\ Len(new) = Len(b)
      /\ \A d \in DOMAIN b : new[d] = IF d = c THEN row ELSE b[d]
  BY <1>2, <1>4, <1>5, <1>6, ChapterMoves
<1>8. Calm(b, new) /\ RulingsRest(b, new)
  BY <1>3, <1>7 DEF Calm, RulingsRest
<1> QED BY <1>7, <1>8 DEF Sound

\* A chapter that settles closes with its settlement.
LEMMA CloseSound ==
  ASSUME NEW b, BookOk(b), NEW c \in DOMAIN b, b[c].st = "SETTLING", NEW new,
         new = PutChapter(b, c, [b[c] EXCEPT !.st = "CLOSED", !.settled = TRUE])
  PROVE  Sound(b, new) /\ DOMAIN new = DOMAIN b
<1> DEFINE row == [b[c] EXCEPT !.st = "CLOSED", !.settled = TRUE]
<1>1. /\ ChapterOk(b[c]) /\ b[c] \in ChapterRec
      /\ \A s \in DOMAIN b[c].scenes : SceneOk(b[c].plans, Over(b[c]), b[c].scenes[s])
  BY RowTypes
<1>2. new = PutChapter(b, c, row)
  OBVIOUS
<1>3. /\ row \in ChapterRec /\ row.plans = b[c].plans /\ row.st = "CLOSED"
      /\ row.scenes = b[c].scenes /\ row.settled
  BY <1>1 DEF ChapterRec, ChapterStatus
<1> HIDE DEF row
<1>4. ChapterOk(row)
  <2>1. Over(row) /\ Over(b[c])
    BY <1>3 DEF Over
  <2>2. \A s \in DOMAIN row.scenes : SceneOk(row.plans, Over(row), row.scenes[s])
    BY <1>1, <1>3, <2>1 DEF SceneOk, GateOk
  <2> QED BY <1>1, <1>3, <2>2 DEF ChapterOk
<1>5. ChapterKept(b[c], row)
  <2>1. ~b[c].settled
    BY <1>1 DEF ChapterOk
  <2> QED BY <1>3, <2>1 DEF ChapterKept, SceneKept, GateKept
<1>6. ~Runs(row)
  BY <1>3 DEF Runs
<1>7. /\ BookOk(new) /\ BookKept(b, new) /\ DOMAIN new = DOMAIN b /\ Len(new) = Len(b)
      /\ \A d \in DOMAIN b : new[d] = IF d = c THEN row ELSE b[d]
  BY <1>2, <1>4, <1>5, <1>6, ChapterMoves
<1>8. RulingsRest(b, new)
  BY <1>3, <1>7 DEF RulingsRest
<1> QED BY <1>7, <1>8 DEF Sound

\* The first landing of a chapter activates it, where no other one runs.
LEMMA Activates ==
  ASSUME NEW a, BookOk(a), NEW b, BookOk(b), BookKept(a, b), Calm(a, b),
         NEW c \in DOMAIN b, DOMAIN b = DOMAIN a,
         b[c].st = "PLANNED" => \A d \in DOMAIN b \ {c} : ~Runs(b[d]),
         NEW new, new = Activated(b, c)
  PROVE  /\ BookOk(new) /\ BookKept(a, new) /\ Calm(a, new) /\ DOMAIN new = DOMAIN b
         /\ \A d \in DOMAIN b : new[d].scenes = b[d].scenes /\ new[d].plans = b[d].plans
<1> DEFINE row == [b[c] EXCEPT !.st = IF b[c].st = "PLANNED" THEN "ACTIVE" ELSE b[c].st]
<1>1. /\ ChapterOk(b[c]) /\ b[c] \in ChapterRec
      /\ \A s \in DOMAIN b[c].scenes : SceneOk(b[c].plans, Over(b[c]), b[c].scenes[s])
  BY RowTypes
<1>2. new = PutChapter(b, c, row)
  BY DEF Activated, PutChapter
<1>3. /\ row \in ChapterRec /\ row.plans = b[c].plans /\ row.scenes = b[c].scenes
      /\ row.st = (IF b[c].st = "PLANNED" THEN "ACTIVE" ELSE b[c].st)
      /\ row.settled = b[c].settled /\ (b[c].st # "PLANNED" => row = b[c])
  BY <1>1 DEF ChapterRec, ChapterStatus
<1> HIDE DEF row
<1>4. Over(row) = Over(b[c])
  BY <1>3 DEF Over
<1>5. ChapterOk(row)
  <2>1. row.settled <=> row.st = "CLOSED"
    BY <1>1, <1>3 DEF ChapterOk
  <2> QED BY <1>1, <1>3, <1>4, <2>1 DEF ChapterOk
<1>6. ChapterKept(b[c], row)
  BY <1>1, <1>3 DEF ChapterOk, ChapterKept, SceneKept, GateKept
<1>7. Runs(row) => \A d \in DOMAIN b \ {c} : ~Runs(b[d])
  BY <1>3 DEF BookOk, Runs
<1>8. /\ BookOk(new) /\ DOMAIN new = DOMAIN b /\ Len(new) = Len(b)
      /\ \A d \in DOMAIN b : new[d] = IF d = c THEN row ELSE b[d]
  BY <1>2, <1>5, <1>6, <1>7, ChapterMoves
<1>9. \A d \in DOMAIN b : new[d].scenes = b[d].scenes /\ new[d].plans = b[d].plans
  BY <1>3, <1>8
<1>10. ASSUME NEW d \in DOMAIN a PROVE ChapterKept(a[d], new[d])
  <2>1. ChapterKept(a[d], b[d]) /\ ChapterOk(a[d]) /\ ChapterOk(b[d])
    BY DEF BookKept, BookOk
  <2>2. a[d].settled => new[d] = a[d]
    BY <1>3, <1>8, <2>1 DEF ChapterKept, ChapterOk
  <2> QED BY <1>9, <2>1, <2>2 DEF ChapterKept
<1>11. Calm(a, new)
  BY <1>3, <1>8 DEF Calm
<1> QED BY <1>8, <1>9, <1>10, <1>11 DEF BookKept

-----------------------------------------------------------------------------
(* The log, and what the writes below keep of it. *)

LEMMA LogStays ==
  ASSUME NEW b, NEW log, NEW t, LogOk(b, log, t), NEW new, Sound(b, new)
  PROVE  LogOk(new, log, t)
<1>1. ASSUME NEW i \in DOMAIN log PROVE EntryOk(new, log, i)
  <2> DEFINE m == log[i]
  <2>1. EntryOk(b, log, i)
    BY DEF LogOk
  <2>2. m.c \in DOMAIN new /\ m.s \in DOMAIN new[m.c].scenes
    BY <2>1 DEF EntryOk, Sound, BookKept, ChapterKept
  <2>3. ASSUME m.kind = "ACTION"
        PROVE  /\ m.n \in DOMAIN new[m.c].scenes[m.s].gates
               /\ Told(log, i, new[m.c].scenes[m.s].gates[m.n].st)
    <3>1. /\ m.n \in DOMAIN b[m.c].scenes[m.s].gates
          /\ Told(log, i, b[m.c].scenes[m.s].gates[m.n].st)
      BY <2>1, <2>3 DEF EntryOk
    <3>2. m.n \in DOMAIN new[m.c].scenes[m.s].gates
      BY <2>1, <3>1 DEF EntryOk, Sound, BookKept, ChapterKept, SceneKept
    <3>3. Ruled(b[m.c].scenes[m.s].gates[m.n])
      BY <3>1 DEF Told, Ruled
    <3>4. new[m.c].scenes[m.s].gates[m.n].st = b[m.c].scenes[m.s].gates[m.n].st
      BY <2>1, <3>1, <3>3 DEF EntryOk, Sound, RulingsRest
    <3> QED BY <3>1, <3>2, <3>4
  <2> QED BY <2>1, <2>2, <2>3 DEF EntryOk
<1> QED BY <1>1 DEF LogOk

\* One more landing follows an earlier one exactly when none of its scene is between.
LEMMA LogGrows ==
  ASSUME NEW S, NEW log \in Seq(S), NEW m, NEW new, new = Append(log, m)
  PROVE  /\ Len(new) = Len(log) + 1 /\ DOMAIN new = DOMAIN log \cup {Len(new)}
         /\ Len(new) \notin DOMAIN log /\ new[Len(new)] = m
         /\ \A i \in DOMAIN log : new[i] = log[i]
         /\ new \in Seq(S \cup {m}) /\ new # <<>> /\ LogKept(log, new)
         /\ \A i, k \in DOMAIN log : Follows(new, k, i) <=> Follows(log, k, i)
         /\ \A i \in DOMAIN new : ~Follows(new, i, Len(new))
<1>1. Len(log) \in Nat /\ DOMAIN log = 1..Len(log)
  OBVIOUS
<1>2. /\ Len(new) = Len(log) + 1 /\ DOMAIN new = 1..(Len(log) + 1)
      /\ new[Len(new)] = m /\ \A i \in DOMAIN log : new[i] = log[i]
  BY <1>1
<1>3. new \in Seq(S \cup {m}) /\ new # <<>>
  <2>1. log \in Seq(S \cup {m})
    OBVIOUS
  <2> QED BY <2>1
<1>4. LogKept(log, new)
  <2>1. SubSeq(new, 1, Len(log)) = log
    BY <1>1, <1>2, <1>3
  <2> QED BY <1>1, <1>2, <2>1 DEF LogKept
<1>5. \A i, k \in DOMAIN log : Follows(new, k, i) <=> Follows(log, k, i)
  <2>1. \A i, k \in DOMAIN log : \A j \in (i + 1)..(k - 1) : j \in DOMAIN log
    BY <1>1
  <2> QED BY <1>2, <2>1 DEF Follows, SameScene
<1>6. \A i \in DOMAIN new : ~Follows(new, i, Len(new))
  BY <1>1, <1>2 DEF Follows
<1> QED BY <1>1, <1>2, <1>3, <1>4, <1>5, <1>6

\* A ruling that waits has no landing of its scene behind it.
LEMMA NoneBehind ==
  ASSUME NEW S, NEW log \in Seq(S), NEW i \in DOMAIN log,
         \A k \in DOMAIN log : ~Follows(log, k, i)
  PROVE  \A k \in DOMAIN log : i < k => ~SameScene(log, i, k)
<1> SUFFICES ASSUME NEW n \in DOMAIN log, i < n, SameScene(log, i, n) PROVE FALSE
  OBVIOUS
<1> DEFINE T == {k \in DOMAIN log : i < k /\ SameScene(log, i, k)}
<1>1. DOMAIN log = 1..Len(log) /\ Len(log) \in Nat
  OBVIOUS
<1>2. T \in SUBSET Nat /\ T # {}
  BY <1>1
<1>3. PICK k \in T : \A j \in T : k <= j
  BY <1>2, Least
<1>4. \A j \in (i + 1)..(k - 1) : ~SameScene(log, i, j)
  BY <1>1, <1>3
<1> QED BY <1>3, <1>4 DEF Follows

\* What the next landing says of an earlier ruling.
LEMMA ToldOn ==
  ASSUME NEW S, NEW log \in Seq(S), NEW m, NEW new, new = Append(log, m),
         NEW i \in DOMAIN log, NEW st, Told(log, i, st)
  PROVE  /\ st = "CLOSED" => Told(new, i, st)
         /\ ~(log[i].c = m.c /\ log[i].s = m.s) => Told(new, i, st)
         /\ ( /\ st = "COMMITTED" /\ log[i].c = m.c /\ log[i].s = m.s
              /\ m.kind = "SEGMENT" /\ m.ref = log[i].n ) => Told(new, i, "CLOSED")
<1>1. /\ Len(new) = Len(log) + 1 /\ DOMAIN new = DOMAIN log \cup {Len(new)}
      /\ Len(new) \notin DOMAIN log /\ new[Len(new)] = m
      /\ \A k \in DOMAIN log : new[k] = log[k]
      /\ \A k \in DOMAIN log : Follows(new, k, i) <=> Follows(log, k, i)
  <2>1. \A j, k \in DOMAIN log : Follows(new, k, j) <=> Follows(log, k, j)
    BY LogGrows
  <2> QED BY <2>1, LogGrows
<1>2. st = "CLOSED" => Told(new, i, st)
  BY <1>1 DEF Told
<1>3. ASSUME ~(log[i].c = m.c /\ log[i].s = m.s) PROVE Told(new, i, st)
  <2>1. ~Follows(new, Len(new), i)
    BY <1>1, <1>3 DEF Follows, SameScene
  <2> QED BY <1>1, <2>1 DEF Told
<1>4. ASSUME st = "COMMITTED", log[i].c = m.c, log[i].s = m.s,
             m.kind = "SEGMENT", m.ref = log[i].n
      PROVE  Told(new, i, "CLOSED")
  <2>1. \A k \in DOMAIN log : i < k => ~SameScene(log, i, k)
    BY <1>4, NoneBehind DEF Told
  <2>2. DOMAIN log = 1..Len(log) /\ Len(log) \in Nat
    OBVIOUS
  <2>3. Follows(new, Len(new), i)
    BY <1>1, <1>4, <2>1, <2>2 DEF Follows, SameScene
  <2> QED BY <1>1, <1>4, <2>3 DEF Told
<1> QED BY <1>2, <1>3, <1>4

-----------------------------------------------------------------------------
(* Writes of gates, and the landings. *)

\* Nothing but gate g of scene s of chapter c has moved.
SameBut(b, new, c, s, g, gt) ==
    /\ DOMAIN new = DOMAIN b
    /\ \A d \in DOMAIN b :
        /\ new[d].st = b[d].st /\ new[d].plans = b[d].plans
        /\ DOMAIN new[d].scenes = DOMAIN b[d].scenes
        /\ \A u \in DOMAIN b[d].scenes :
            /\ new[d].scenes[u].st = b[d].scenes[u].st
            /\ new[d].scenes[u].doss = b[d].scenes[u].doss
            /\ DOMAIN new[d].scenes[u].gates = DOMAIN b[d].scenes[u].gates
            /\ \A h \in DOMAIN b[d].scenes[u].gates :
                 new[d].scenes[u].gates[h] =
                    IF d = c /\ u = s /\ h = g THEN gt ELSE b[d].scenes[u].gates[h]

LEMMA GateWrites ==
  ASSUME NEW b, BookOk(b), NEW c \in DOMAIN b, NEW s \in DOMAIN b[c].scenes,
         NEW g \in DOMAIN b[c].scenes[s].gates, NEW gt \in GateRec, b[c].st # "CLOSED",
         GateOk(b[c].plans, b[c].scenes[s].doss, Over(b[c]), gt),
         GateKept(b[c].scenes[s].gates[g], gt),
         gt.st = "CLOSED" \/ b[c].scenes[s].gates[g].st # "CLOSED",
         NEW new, new = PutGate(b, c, s, g, gt)
  PROVE  /\ BookOk(new) /\ BookKept(b, new) /\ Calm(b, new) /\ SameBut(b, new, c, s, g, gt)
         /\ gt.st = b[c].scenes[s].gates[g].st \/ ~Ruled(b[c].scenes[s].gates[g])
              => Sound(b, new)
<1>1. PICK sc :
           /\ new = PutScene(b, c, s, sc)
           /\ SceneOk(b[c].plans, Over(b[c]), sc) /\ SceneKept(b[c], b[c].scenes[s], sc)
           /\ sc.st = b[c].scenes[s].st /\ sc.doss = b[c].scenes[s].doss
           /\ DOMAIN sc.gates = DOMAIN b[c].scenes[s].gates
           /\ \A h \in DOMAIN sc.gates :
                sc.gates[h] = IF h = g THEN gt ELSE b[c].scenes[s].gates[h]
  BY GateMoves
<1>2. /\ BookOk(new) /\ BookKept(b, new) /\ Calm(b, new)
      /\ DOMAIN new = DOMAIN b /\ \A d \in DOMAIN b \ {c} : new[d] = b[d]
      /\ new[c].st = b[c].st /\ new[c].plans = b[c].plans
      /\ DOMAIN new[c].scenes = DOMAIN b[c].scenes
      /\ \A t \in DOMAIN b[c].scenes : new[c].scenes[t] = IF t = s THEN sc ELSE b[c].scenes[t]
  BY <1>1, SceneMoves
<1>3. SameBut(b, new, c, s, g, gt)
  BY <1>1, <1>2 DEF SameBut
<1>4. gt.st = b[c].scenes[s].gates[g].st \/ ~Ruled(b[c].scenes[s].gates[g])
        => RulingsRest(b, new)
  BY <1>3 DEF SameBut, RulingsRest
<1> QED BY <1>2, <1>3, <1>4 DEF Sound

\* Landing m passes over no ruling: a gate of its scene that waits is the one it tells.
GateTells(b, new, m, d, u, h) ==
    LET was == b[d].scenes[u].gates[h].st
        now == new[d].scenes[u].gates[h].st
    IN /\ h \in DOMAIN new[d].scenes[u].gates
       /\ was \in {"COMMITTED", "CLOSED"} =>
           \/ now = was /\ (was = "CLOSED" \/ ~(d = m.c /\ u = m.s))
           \/ /\ d = m.c /\ u = m.s /\ was = "COMMITTED" /\ now = "CLOSED"
              /\ m.kind = "SEGMENT" /\ m.ref = h
TellsNext(b, new, m) ==
    /\ m.c \in DOMAIN b /\ m.s \in DOMAIN b[m.c].scenes
    /\ \A d \in DOMAIN b :
        /\ d \in DOMAIN new
        /\ \A u \in DOMAIN b[d].scenes :
            /\ u \in DOMAIN new[d].scenes
            /\ \A h \in DOMAIN b[d].scenes[u].gates : GateTells(b, new, m, d, u, h)
    /\ m.kind = "ACTION" =>
         /\ m.n \in DOMAIN new[m.c].scenes[m.s].gates
         /\ new[m.c].scenes[m.s].gates[m.n].st = "COMMITTED"
Takes(m, t) == m.from = t /\ m.to = t + 1

LEMMA LogLands ==
  ASSUME NEW b, NEW S, NEW log \in Seq(S), NEW t \in Nat, LogOk(b, log, t), NEW new, NEW m,
         TellsNext(b, new, m), Takes(m, t), NEW log2, log2 = Append(log, m)
  PROVE  LogOk(new, log2, t + 1) /\ LogKept(log, log2)
<1>1. /\ Len(log2) = Len(log) + 1 /\ DOMAIN log2 = DOMAIN log \cup {Len(log2)}
      /\ Len(log2) \notin DOMAIN log /\ log2[Len(log2)] = m
      /\ \A i \in DOMAIN log : log2[i] = log[i]
      /\ log2 \in Seq(S \cup {m}) /\ log2 # <<>> /\ LogKept(log, log2)
      /\ \A i \in DOMAIN log2 : ~Follows(log2, i, Len(log2))
  <2>1. /\ Len(log2) = Len(log) + 1 /\ DOMAIN log2 = DOMAIN log \cup {Len(log2)}
        /\ Len(log2) \notin DOMAIN log /\ log2[Len(log2)] = m
        /\ \A i \in DOMAIN log : log2[i] = log[i]
    BY LogGrows
  <2>2. log2 \in Seq(S \cup {m}) /\ log2 # <<>>
    BY LogGrows
  <2>3. LogKept(log, log2)
    BY LogGrows
  <2>4. \A i \in DOMAIN log2 : ~Follows(log2, i, Len(log2))
    BY LogGrows
  <2> QED BY <2>1, <2>2, <2>3, <2>4
<1>2. ASSUME NEW i \in DOMAIN log PROVE EntryOk(new, log2, i)
  <2> DEFINE e == log[i]
  <2>1. EntryOk(b, log, i)
    BY DEF LogOk
  <2>2. /\ e.c \in DOMAIN new /\ e.s \in DOMAIN new[e.c].scenes /\ e.to \in Nat
        /\ log2[i] = e
    BY <1>1, <2>1 DEF EntryOk, TellsNext
  <2>3. e.from = IF i = 1 THEN 0 ELSE log2[i - 1].to
    <3>1. i # 1 => i - 1 \in DOMAIN log
      OBVIOUS
    <3> QED BY <1>1, <2>1, <3>1 DEF EntryOk
  <2>4. ASSUME e.kind = "ACTION"
        PROVE  /\ e.n \in DOMAIN new[e.c].scenes[e.s].gates
               /\ Told(log2, i, new[e.c].scenes[e.s].gates[e.n].st)
    <3> DEFINE was == b[e.c].scenes[e.s].gates[e.n].st
               now == new[e.c].scenes[e.s].gates[e.n].st
    <3>1. /\ e.c \in DOMAIN b /\ e.s \in DOMAIN b[e.c].scenes
          /\ e.n \in DOMAIN b[e.c].scenes[e.s].gates /\ Told(log, i, was)
      BY <2>1, <2>4 DEF EntryOk
    <3>2. was \in {"COMMITTED", "CLOSED"}
      BY <3>1 DEF Told
    <3>3. /\ e.n \in DOMAIN new[e.c].scenes[e.s].gates
          /\ \/ now = was /\ (was = "CLOSED" \/ ~(e.c = m.c /\ e.s = m.s))
             \/ /\ e.c = m.c /\ e.s = m.s /\ was = "COMMITTED" /\ now = "CLOSED"
                /\ m.kind = "SEGMENT" /\ m.ref = e.n
      <4>1. GateTells(b, new, m, e.c, e.s, e.n)
        <5> HIDE DEF e
        <5> QED BY <3>1 DEF TellsNext
      <4> QED BY <3>2, <4>1 DEF GateTells
    <3> HIDE DEF was, now
    <3>4. Told(log2, i, now)
      BY <3>1, <3>3, ToldOn
    <3> QED BY <3>3, <3>4 DEF now
  <2> QED BY <2>2, <2>3, <2>4 DEF EntryOk
<1>3. EntryOk(new, log2, Len(log2))
  <2>1. m.from = IF Len(log2) = 1 THEN 0 ELSE log2[Len(log2) - 1].to
    <3>1. Len(log) \in Nat /\ (log = <<>> <=> Len(log) = 0) /\ DOMAIN log = 1..Len(log)
      OBVIOUS
    <3>2. t = IF log = <<>> THEN 0 ELSE log[Len(log)].to
      BY DEF LogOk
    <3>3. m.from = t
      BY DEF Takes
    <3>4. CASE log = <<>>
      <4>1. Len(log2) = 1
        BY <1>1, <3>1, <3>4
      <4> QED BY <3>2, <3>3, <3>4, <4>1
    <3>5. CASE log # <<>>
      <4>1. Len(log2) # 1 /\ Len(log2) - 1 = Len(log) /\ Len(log) \in DOMAIN log
        BY <1>1, <3>1, <3>5
      <4>2. log2[Len(log2) - 1] = log[Len(log)]
        BY <1>1, <4>1
      <4> QED BY <3>2, <3>3, <3>5, <4>1, <4>2
    <3> QED BY <3>4, <3>5
  <2>2. Told(log2, Len(log2), "COMMITTED")
    BY <1>1 DEF Told
  <2>3. m.to \in Nat
    BY DEF Takes
  <2> QED BY <1>1, <2>1, <2>2, <2>3 DEF EntryOk, TellsNext
<1>4. t + 1 = log2[Len(log2)].to
  BY <1>1 DEF Takes
<1> QED BY <1>1, <1>2, <1>3, <1>4 DEF LogOk

\* A ruling lands: it waits to be told, and the earlier ones of its scene have been.
MayRun(b, c) == b[c].st = "PLANNED" => \A d \in DOMAIN b \ {c} : ~Runs(b[d])
Ruling(gt, scope) ==
    [gt EXCEPT !.st = "COMMITTED", !.scope = scope, !.rp = Obligation(scope)]

LEMMA RulingLands ==
  ASSUME NEW b, BookOk(b), NEW c \in DOMAIN b, NEW s \in DOMAIN b[c].scenes,
         NEW g \in DOMAIN b[c].scenes[s].gates, b[c].scenes[s].gates[g].st = "RESOLVING",
         NEW scope \in {"NONE", "SCENE", "CHAPTER"}, MayRun(b, c), NEW new,
         new = Activated(PutGate(b, c, s, g, Ruling(b[c].scenes[s].gates[g], scope)), c)
  PROVE  /\ BookOk(new) /\ BookKept(b, new) /\ Calm(b, new)
         /\ \A m : m.c = c /\ m.s = s /\ m.n = g /\ m.kind = "ACTION" => TellsNext(b, new, m)
         /\ scope # "NONE" => new[c].scenes[s].gates[g].rp # "none"
<1> DEFINE old == b[c].scenes[s].gates[g]
           gt == Ruling(old, scope)
           mid == PutGate(b, c, s, g, gt)
<1>1. /\ old \in GateRec /\ SceneOk(b[c].plans, Over(b[c]), b[c].scenes[s])
      /\ GateOk(b[c].plans, b[c].scenes[s].doss, Over(b[c]), old)
  BY RowTypes DEF SceneOk
<1>2. ~Over(b[c]) /\ ~Ruled(old)
  BY <1>1 DEF GateOk, Ruled
<1>3. /\ gt \in GateRec /\ gt.st = "COMMITTED" /\ gt.scope = scope
      /\ gt.rp = Obligation(scope) /\ gt.sub = old.sub
  BY <1>1 DEF GateRec, GateStatus, Obligation, Ruling
<1> HIDE DEF gt
<1>4. GateOk(b[c].plans, b[c].scenes[s].doss, Over(b[c]), gt)
  BY <1>2, <1>3 DEF GateOk, Ruled, Obligation
<1>5. GateKept(old, gt)
  BY <1>1, <1>2, <1>3 DEF GateKept, GateOk
<1> HIDE DEF mid
<1>6. BookOk(mid) /\ BookKept(b, mid) /\ Calm(b, mid) /\ SameBut(b, mid, c, s, g, gt)
  <2>1. b[c].st # "CLOSED" /\ old.st # "CLOSED"
    BY <1>2 DEF Over
  <2>2. mid = PutGate(b, c, s, g, gt)
    BY DEF mid
  <2> QED BY <1>3, <1>4, <1>5, <2>1, <2>2, GateWrites
<1>7. /\ BookOk(new) /\ BookKept(b, new) /\ Calm(b, new) /\ DOMAIN new = DOMAIN b
      /\ \A d \in DOMAIN b : new[d].scenes = mid[d].scenes
  <2>1. DOMAIN mid = DOMAIN b /\ \A d \in DOMAIN b : mid[d].st = b[d].st
    BY <1>6 DEF SameBut
  <2>2. mid[c].st = "PLANNED" => \A d \in DOMAIN mid \ {c} : ~Runs(mid[d])
    BY <2>1 DEF Runs, MayRun
  <2>3. new = Activated(mid, c)
    BY DEF mid, gt
  <2> QED BY <1>6, <2>1, <2>2, <2>3, Activates
<1>8. ASSUME NEW d \in DOMAIN b, NEW u \in DOMAIN b[d].scenes
      PROVE  /\ u \in DOMAIN new[d].scenes
             /\ \A h \in DOMAIN b[d].scenes[u].gates :
                 /\ h \in DOMAIN new[d].scenes[u].gates
                 /\ new[d].scenes[u].gates[h] =
                      IF d = c /\ u = s /\ h = g THEN gt ELSE b[d].scenes[u].gates[h]
  <2>1. new[d].scenes = mid[d].scenes
    BY <1>7
  <2>2. /\ DOMAIN mid[d].scenes = DOMAIN b[d].scenes
        /\ DOMAIN mid[d].scenes[u].gates = DOMAIN b[d].scenes[u].gates
        /\ \A h \in DOMAIN b[d].scenes[u].gates :
             mid[d].scenes[u].gates[h] =
                IF d = c /\ u = s /\ h = g THEN gt ELSE b[d].scenes[u].gates[h]
    BY <1>6 DEF SameBut
  <2> QED BY <2>1, <2>2
<1>9. ASSUME NEW m, m.c = c /\ m.s = s /\ m.n = g /\ m.kind = "ACTION"
      PROVE  TellsNext(b, new, m)
  <2>1. ASSUME NEW d \in DOMAIN b, NEW u \in DOMAIN b[d].scenes,
               NEW h \in DOMAIN b[d].scenes[u].gates
        PROVE GateTells(b, new, m, d, u, h)
    <3> DEFINE was == b[d].scenes[u].gates[h]
               now == new[d].scenes[u].gates[h]
    <3>1. h \in DOMAIN new[d].scenes[u].gates
      BY <1>8
    <3>2. ~(d = c /\ u = s /\ h = g) => now.st = was.st
      BY <1>8
    <3>3. d = c /\ u = s /\ h = g => was.st \notin {"COMMITTED", "CLOSED"}
      OBVIOUS
    <3>4. d = c /\ u = s /\ was.st = "COMMITTED" => FALSE
      BY <1>1 DEF SceneOk
    <3> HIDE DEF was, now
    <3>5. was.st \in {"COMMITTED", "CLOSED"} =>
            now.st = was.st /\ (was.st = "CLOSED" \/ ~(d = m.c /\ u = m.s))
      BY <1>9, <3>2, <3>3, <3>4
    <3> QED BY <3>1, <3>5 DEF GateTells, was, now
  <2>2. g \in DOMAIN new[c].scenes[s].gates /\ new[c].scenes[s].gates[g].st = "COMMITTED"
    BY <1>3, <1>8
  <2>3. \A d \in DOMAIN b : d \in DOMAIN new /\ \A u \in DOMAIN b[d].scenes : u \in DOMAIN new[d].scenes
    BY <1>7, <1>8
  <2> QED BY <1>9, <2>1, <2>2, <2>3 DEF TellsNext
<1>10. scope # "NONE" => new[c].scenes[s].gates[g].rp # "none"
  BY <1>3, <1>8 DEF Obligation
<1> QED BY <1>7, <1>9, <1>10

\* The last segment of a scene commits it.
LEMMA EndMoves ==
  ASSUME NEW b, BookOk(b), NEW c \in DOMAIN b, NEW s \in DOMAIN b[c].scenes, NEW last,
         b[c].scenes[s].st = "ACTIVE", NEW new, new = EndScene(b, c, s, last)
  PROVE  /\ BookOk(new) /\ BookKept(b, new) /\ Calm(b, new) /\ DOMAIN new = DOMAIN b
         /\ \A d \in DOMAIN b \ {c} : new[d] = b[d]
         /\ new[c].st = b[c].st /\ new[c].settled = b[c].settled
         /\ DOMAIN new[c].scenes = DOMAIN b[c].scenes
         /\ \A u \in DOMAIN b[c].scenes :
              /\ new[c].scenes[u].gates = b[c].scenes[u].gates
              /\ new[c].scenes[u].st \in {b[c].scenes[u].st, "COMMITTED"}
<1> DEFINE old == b[c].scenes[s]
           st == IF last THEN "COMMITTED" ELSE old.st
           sc == [old EXCEPT !.st = st]
<1>1. /\ old \in SceneRec /\ SceneOk(b[c].plans, Over(b[c]), old)
  BY RowTypes
<1>2. new = PutScene(b, c, s, sc)
  BY DEF PutScene, EndScene
<1>3. st \in {"ACTIVE", "COMMITTED"}
  OBVIOUS
<1> HIDE DEF st
<1>4. sc \in SceneRec /\ sc.st = st /\ sc.doss = old.doss /\ sc.gates = old.gates
  BY <1>1, <1>3 DEF SceneRec, SceneStatus
<1> HIDE DEF sc
<1>5. ~Over(b[c]) /\ b[c].st # "CLOSED"
  BY <1>1 DEF SceneOk, Over
<1>6. SceneOk(b[c].plans, Over(b[c]), sc)
  BY <1>1, <1>4, <1>5 DEF SceneOk
<1>7. SceneKept(b[c], old, sc)
  BY <1>4 DEF SceneKept, GateKept
<1>8. /\ BookOk(new) /\ BookKept(b, new) /\ Calm(b, new)
      /\ DOMAIN new = DOMAIN b /\ \A d \in DOMAIN b \ {c} : new[d] = b[d]
      /\ new[c].st = b[c].st /\ new[c].settled = b[c].settled
      /\ DOMAIN new[c].scenes = DOMAIN b[c].scenes
      /\ \A t \in DOMAIN b[c].scenes : new[c].scenes[t] = IF t = s THEN sc ELSE b[c].scenes[t]
  BY <1>2, <1>5, <1>6, <1>7, SceneMoves
<1> QED BY <1>3, <1>4, <1>8

\* A segment refers to the gate that stands, or to none when none does.
MayTell(b, c, s, ref) ==
    LET gates == b[c].scenes[s].gates IN
    /\ ref # 0 => ref \in DOMAIN gates /\ Ruled(gates[ref])
    /\ \A g \in DOMAIN gates : gates[g].st # "CLOSED" => gates[g].st = "COMMITTED" /\ ref = g

LEMMA CloseMoves ==
  ASSUME NEW b, BookOk(b), NEW c \in DOMAIN b, NEW s \in DOMAIN b[c].scenes, NEW ref,
         MayTell(b, c, s, ref), b[c].st # "CLOSED", NEW new, new = CloseGate(b, c, s, ref)
  PROVE  /\ BookOk(new) /\ BookKept(b, new) /\ Calm(b, new) /\ DOMAIN new = DOMAIN b
         /\ \A d \in DOMAIN b :
              /\ new[d].st = b[d].st /\ DOMAIN new[d].scenes = DOMAIN b[d].scenes
              /\ \A u \in DOMAIN b[d].scenes :
                  /\ new[d].scenes[u].st = b[d].scenes[u].st
                  /\ DOMAIN new[d].scenes[u].gates = DOMAIN b[d].scenes[u].gates
                  /\ \A h \in DOMAIN b[d].scenes[u].gates :
                       /\ ~(d = c /\ u = s /\ h = ref) =>
                            new[d].scenes[u].gates[h] = b[d].scenes[u].gates[h]
                       /\ d = c /\ u = s /\ h = ref => new[d].scenes[u].gates[h].st = "CLOSED"
<1>1. CASE ref = 0
  <2>1. new = b
    BY <1>1 DEF CloseGate
  <2>2. ASSUME NEW h \in DOMAIN b[c].scenes[s].gates PROVE h # 0
    BY RowTypes
  <2>3. BookOk(new) /\ BookKept(b, new) /\ Calm(b, new)
    BY <2>1, NothingMoves DEF Sound
  <2> QED BY <1>1, <2>1, <2>2, <2>3
<1>2. CASE ref # 0
  <2> DEFINE old == b[c].scenes[s].gates[ref]
             gt == [old EXCEPT !.st = "CLOSED"]
  <2>1. ref \in DOMAIN b[c].scenes[s].gates /\ Ruled(old)
    BY <1>2 DEF MayTell
  <2>2. /\ old \in GateRec
        /\ GateOk(b[c].plans, b[c].scenes[s].doss, Over(b[c]), old)
    BY <2>1, RowTypes DEF SceneOk
  <2>3. new = PutGate(b, c, s, ref, gt)
    BY <1>2 DEF CloseGate, PutGate
  <2>4. /\ gt \in GateRec /\ gt.st = "CLOSED" /\ gt.sub = old.sub /\ gt.scope = old.scope
        /\ gt.rp = old.rp /\ gt.target = old.target
    BY <2>2 DEF GateRec, GateStatus
  <2> HIDE DEF gt
  <2>5. GateOk(b[c].plans, b[c].scenes[s].doss, Over(b[c]), gt)
    BY <2>1, <2>2, <2>4 DEF GateOk, Ruled, Landed
  <2>6. GateKept(old, gt)
    BY <2>4 DEF GateKept
  <2>7. BookOk(new) /\ BookKept(b, new) /\ Calm(b, new) /\ SameBut(b, new, c, s, ref, gt)
    BY <2>1, <2>3, <2>4, <2>5, <2>6, GateWrites
  <2> QED BY <2>4, <2>7 DEF SameBut
<1> QED BY <1>1, <1>2

\* A segment lands: the ruling that waits is told by it.
LEMMA SegmentLands ==
  ASSUME NEW b, BookOk(b), NEW c \in DOMAIN b, NEW s \in DOMAIN b[c].scenes, NEW ref, NEW last,
         b[c].scenes[s].st = "ACTIVE", MayTell(b, c, s, ref), MayRun(b, c), NEW new,
         new = Activated(EndScene(CloseGate(b, c, s, ref), c, s, last), c)
  PROVE  /\ BookOk(new) /\ BookKept(b, new) /\ Calm(b, new)
         /\ \A m : m.c = c /\ m.s = s /\ m.ref = ref /\ m.kind = "SEGMENT" => TellsNext(b, new, m)
<1> DEFINE one == CloseGate(b, c, s, ref)
           two == EndScene(one, c, s, last)
<1>1. /\ ChapterOk(b[c]) /\ b[c].st # "CLOSED" /\ ~b[c].settled
  BY RowTypes DEF SceneOk, Over, ChapterOk
<1> HIDE DEF one
<1>2. /\ BookOk(one) /\ BookKept(b, one) /\ Calm(b, one) /\ DOMAIN one = DOMAIN b
      /\ \A d \in DOMAIN b :
           /\ one[d].st = b[d].st /\ DOMAIN one[d].scenes = DOMAIN b[d].scenes
           /\ \A u \in DOMAIN b[d].scenes :
               /\ one[d].scenes[u].st = b[d].scenes[u].st
               /\ DOMAIN one[d].scenes[u].gates = DOMAIN b[d].scenes[u].gates
               /\ \A h \in DOMAIN b[d].scenes[u].gates :
                    /\ ~(d = c /\ u = s /\ h = ref) =>
                         one[d].scenes[u].gates[h] = b[d].scenes[u].gates[h]
                    /\ d = c /\ u = s /\ h = ref => one[d].scenes[u].gates[h].st = "CLOSED"
  BY <1>1, CloseMoves DEF one
<1> HIDE DEF two
<1>3. /\ BookOk(two) /\ Calm(one, two) /\ DOMAIN two = DOMAIN one /\ BookKept(one, two)
      /\ \A d \in DOMAIN one \ {c} : two[d] = one[d]
      /\ two[c].st = one[c].st /\ DOMAIN two[c].scenes = DOMAIN one[c].scenes
      /\ \A u \in DOMAIN one[c].scenes :
           /\ two[c].scenes[u].gates = one[c].scenes[u].gates
           /\ two[c].scenes[u].st \in {one[c].scenes[u].st, "COMMITTED"}
  BY <1>2, EndMoves DEF two
<1>4. /\ DOMAIN two = DOMAIN b /\ \A d \in DOMAIN b : two[d].st = b[d].st
      /\ \A d \in DOMAIN b : DOMAIN two[d].scenes = DOMAIN b[d].scenes
  BY <1>2, <1>3
<1>5. ASSUME NEW d \in DOMAIN b, NEW u \in DOMAIN b[d].scenes
      PROVE  /\ two[d].scenes[u].st \in {b[d].scenes[u].st, "COMMITTED"}
             /\ two[d].scenes[u].gates = one[d].scenes[u].gates
  BY <1>2, <1>3
<1>6. BookKept(b, two)
  <2>1. ASSUME NEW d \in DOMAIN b, NEW u \in DOMAIN b[d].scenes
        PROVE  SceneKept(b[d], b[d].scenes[u], two[d].scenes[u])
    <3>1. SceneKept(b[d], b[d].scenes[u], one[d].scenes[u])
      BY <1>2 DEF BookKept, ChapterKept
    <3> QED BY <1>5, <3>1 DEF SceneKept
  <2>2. ASSUME NEW d \in DOMAIN b, b[d].settled PROVE two[d] = b[d]
    <3>1. d # c
      BY <1>1, <2>2
    <3>2. one[d] = b[d]
      BY <1>2, <2>2 DEF BookKept, ChapterKept
    <3> QED BY <1>2, <1>3, <3>1, <3>2
  <2> QED BY <1>4, <2>1, <2>2 DEF BookKept, ChapterKept
<1>7. Calm(b, two)
  BY <1>2, <1>3 DEF Calm
<1>8. /\ BookOk(new) /\ BookKept(b, new) /\ Calm(b, new) /\ DOMAIN new = DOMAIN two
      /\ \A d \in DOMAIN two : new[d].scenes = two[d].scenes
  <2>1. two[c].st = "PLANNED" => \A d \in DOMAIN two \ {c} : ~Runs(two[d])
    BY <1>4 DEF Runs, MayRun
  <2>2. new = Activated(two, c)
    BY DEF two, one
  <2> QED BY <1>3, <1>4, <1>6, <1>7, <2>1, <2>2, Activates
<1>9. ASSUME NEW m, m.c = c /\ m.s = s /\ m.ref = ref /\ m.kind = "SEGMENT"
      PROVE  TellsNext(b, new, m)
  <2>1. ASSUME NEW d \in DOMAIN b, NEW u \in DOMAIN b[d].scenes,
               NEW h \in DOMAIN b[d].scenes[u].gates
        PROVE GateTells(b, new, m, d, u, h)
    <3> DEFINE was == b[d].scenes[u].gates[h]
               now == new[d].scenes[u].gates[h]
    <3>1. h \in DOMAIN new[d].scenes[u].gates /\ now = one[d].scenes[u].gates[h]
      BY <1>2, <1>4, <1>5, <1>8
    <3>2. ~(d = c /\ u = s /\ h = ref) => now.st = was.st
      BY <1>2, <3>1
    <3>3. d = c /\ u = s /\ h = ref => now.st = "CLOSED"
      BY <1>2, <3>1
    <3>4. d = c /\ u = s /\ was.st # "CLOSED" => h = ref
      BY DEF MayTell
    <3> HIDE DEF was, now
    <3>5. was.st \in {"COMMITTED", "CLOSED"} =>
            \/ now.st = was.st /\ (was.st = "CLOSED" \/ ~(d = m.c /\ u = m.s))
            \/ /\ d = m.c /\ u = m.s /\ was.st = "COMMITTED" /\ now.st = "CLOSED"
               /\ m.kind = "SEGMENT" /\ m.ref = h
      BY <1>9, <3>2, <3>3, <3>4
    <3> QED BY <3>1, <3>5 DEF GateTells, was, now
  <2>2. \A d \in DOMAIN b : d \in DOMAIN new /\ \A u \in DOMAIN b[d].scenes : u \in DOMAIN new[d].scenes
    BY <1>4, <1>8
  <2> QED BY <1>9, <2>1, <2>2 DEF TellsNext
<1> QED BY <1>8, <1>9

-----------------------------------------------------------------------------
(* What a running request knows of the rows, label by label.                          *)

Labels ==
    {"idle", "plan", "revise", "create_plan", "adopt_plan", "reconcile", "situation",
     "sit_scene", "sit_plan", "sit_adopt", "open", "open_adopt", "open_activate", "press",
     "gate", "submit", "run", "g_submit", "g_resolve", "g_commit", "replan", "r_dossier",
     "r_plan", "r_mark", "consume", "loop", "cont_seg", "w_event", "w_seg", "rp_gate",
     "rp_seg", "ds_settle", "ds_seg", "ds_off", "flip", "settle", "resume", "resume_seg"}
Ops == {"none", "plan", "revise", "resume", "advance", "submit", "settle", "drive"}
JobRec ==
    [pc : Labels, op : Ops, c : Nat, s : Nat, g : Nat, k : Nat, beats : Seq(Nat),
     pend : Nat, last : BOOLEAN, bp : Shapes \cup {<<>>}, fresh : SUBSET Nat,
     els : SUBSET Nat, back : Labels, home : Nat \X Nat \X Nat, n : Nat,
     sub : Submissions \cup {"none"}, todo : SUBSET WorkItems]

Known(b, c, s, g) ==
    c \in DOMAIN b /\ s \in DOMAIN b[c].scenes /\ g \in DOMAIN b[c].scenes[s].gates
AtScene(b, j) == j.c \in DOMAIN b /\ j.s \in DOMAIN b[j.c].scenes
AtGate(b, j) == Known(b, j.c, j.s, j.g)
GateOf(b, j) == b[j.c].scenes[j.s].gates[j.g]
MayPlan(b, j) == j.c \in DOMAIN b /\ ~Over(b[j.c])
ThreadOn(b) == b # <<>> /\ b[Len(b)].st # "CLOSED"
HomeOk(b, j) == Known(b, j.home[1], j.home[2], j.home[3])

\* A work list names rows there are.
ItemOk(b, x) ==
    /\ x[1] \in 1..4
    /\ x[1] # 4 => Known(b, x[2], x[3], x[4])
    /\ x[1] = 2 => b[x[2]].scenes[x[3]].gates[x[4]].rp # "none"
    /\ x[1] = 4 => x[2] \in DOMAIN b
TodoOk(b, j) == \A x \in j.todo : ItemOk(b, x)

\* The beats a run was handed: every gate among them has been opened.
RunOk(b, j) ==
    /\ AtScene(b, j) /\ j.k # 0 /\ (j.pend = 0 \/ Known(b, j.c, j.s, j.pend))
    /\ \A i \in DOMAIN j.beats :
         IsSegment(j.beats[i]) \/ Known(b, j.c, j.s, Count(j.beats[i], "G"))

\* The first beat not settled is gate number g of the script.
SegCount(log, c, s) ==
    Cardinality({i \in DOMAIN log : log[i].c = c /\ log[i].s = s /\ log[i].kind = "SEGMENT"})
Settled(gates, n, i) ==
    IF Beats[i] = "S" THEN Count(i, "S") <= n
    ELSE Count(i, "G") \in DOMAIN gates /\ gates[Count(i, "G")].st = "CLOSED"
NextIsGate(gates, n, k) ==
    /\ k \in DOMAIN Beats /\ Beats[k] = "G" /\ ~Settled(gates, n, k)
    /\ \A i \in 1..(k - 1) : Settled(gates, n, i)
GateDue(b, log, j) ==
    LET gates == b[j.c].scenes[j.s].gates IN
    \E k \in DOMAIN Beats : NextIsGate(gates, SegCount(log, j.c, j.s), k) /\ Count(k, "G") = Len(gates) + 1
GateReached(b, log, j) ==
    LET gates == b[j.c].scenes[j.s].gates IN
    \E k \in DOMAIN Beats : NextIsGate(gates, SegCount(log, j.c, j.s), k) /\ Count(k, "G") \in DOMAIN gates

\* Where a ruling or a replan returns to is as it was left.
Back(b, j) ==
    \/ j.back = "run" /\ RunOk(b, j) /\ j.op \in {"advance", "submit"}
    \/ j.back = "resume" /\ j.op = "resume" /\ TodoOk(b, j)
    \/ j.back \in {"rp_seg", "consume"} /\ j.op = "drive" /\ HomeOk(b, j)
InForce(b, j) ==
    /\ AtGate(b, j) /\ GateOf(b, j).rp = "PENDING"
    /\ Landed(b[j.c].plans, b[j.c].scenes[j.s].doss, GateOf(b, j))

LabelOk(b, log, lab, j) ==
    /\ lab \in {"plan", "revise", "create_plan", "adopt_plan"} => j.back = "idle"
    /\ lab \in {"revise", "create_plan", "adopt_plan", "reconcile",
                "sit_scene", "sit_plan", "sit_adopt"} => MayPlan(b, j)
    /\ lab \in {"create_plan", "r_plan"} => j.bp \in Shapes
    /\ lab = "reconcile" /\ j.back # "idle" => InForce(b, j) /\ Back(b, j)
    /\ lab \in {"g_submit", "g_resolve", "g_commit"} => AtGate(b, j) /\ Back(b, j)
    /\ lab = "g_resolve" => GateOf(b, j).st = "ANSWERED"
    /\ lab \in {"replan", "r_dossier", "r_plan", "r_mark"} =>
         AtGate(b, j) /\ Back(b, j) /\ GateOf(b, j).rp # "none"
    /\ lab \in {"r_dossier", "r_plan"} =>
         /\ GateOf(b, j).rp = "PENDING" /\ GateOf(b, j).target # 0
         /\ GateOf(b, j).scope = "SCENE" <=> lab = "r_dossier"
    /\ lab = "r_mark" => InForce(b, j)
    /\ lab = "run" => RunOk(b, j) /\ j.op \in {"advance", "submit"}
    /\ lab = "submit" => AtScene(b, j) /\ j.op = "submit" /\ GateReached(b, log, j)
    /\ lab = "gate" => AtScene(b, j) /\ (j.op = "submit" => GateDue(b, log, j))
    /\ lab \in {"rp_seg", "cont_seg", "resume_seg"} => AtGate(b, j)
    /\ lab \in {"w_event", "w_seg", "rp_gate", "ds_seg", "ds_off"} => AtScene(b, j)
    /\ lab \in {"loop", "cont_seg", "w_event", "w_seg", "rp_gate", "rp_seg", "consume"} =>
         j.op = "drive"
    /\ lab = "consume" => HomeOk(b, j)
    /\ lab \in {"resume", "resume_seg"} => j.op = "resume" /\ TodoOk(b, j)
    /\ lab \in {"flip", "settle"} =>
         j.c \in DOMAIN b /\ (j.op = "settle" \/ (j.op = "resume" /\ TodoOk(b, j)))
    /\ lab \in {"ds_settle", "ds_seg", "ds_off"} => j.op = "settle"
    /\ lab = "ds_settle" => b # <<>>
    /\ lab = "press" => j.op = "advance"

\* An opening knows besides that no other scene of the plan runs, and where it leads.
Opening == {"open", "open_adopt", "open_activate"}
Aheads == {"gate", "run", "submit", "w_event", "rp_gate", "ds_seg", "ds_off"}
JobOk(b, log, j) ==
    /\ j \in JobRec /\ (j.op \in {"advance", "submit"} => ThreadOn(b))
    /\ j.pc \in Opening =>
         /\ AtScene(b, j) /\ b[j.c].st # "CLOSED" /\ InTurn(b[j.c])
         /\ j.back \in Aheads /\ LabelOk(b, log, j.back, j)
    /\ j.pc \notin Opening => LabelOk(b, log, j.pc, j)
    /\ j.pc = "submit" => b[j.c].scenes[j.s].st # "PLANNED"

StoryIInv == StoryInv /\ JobOk(book, commits, job)
Kept ==
    /\ BookOk(book') /\ LogOk(book', commits', tick') /\ tick' \in 0..MaxTick /\ host' \in Hosts
    /\ BookKept(book, book') /\ LogKept(commits, commits') /\ JobOk(book', commits', job')

-----------------------------------------------------------------------------
(* What is known stays known.                                                         *)

LEMMA KnownStays ==
  ASSUME NEW b, NEW new, BookKept(b, new), NEW c, NEW s, NEW g
  PROVE  /\ c \in DOMAIN b => c \in DOMAIN new
         /\ c \in DOMAIN b /\ s \in DOMAIN b[c].scenes => s \in DOMAIN new[c].scenes
         /\ Known(b, c, s, g) =>
              /\ Known(new, c, s, g)
              /\ GateKept(b[c].scenes[s].gates[g], new[c].scenes[s].gates[g])
BY DEF Known, BookKept, ChapterKept, SceneKept

LEMMA BackStays ==
  ASSUME NEW b, NEW new, BookKept(b, new), NEW j, NEW j2,
         j2.c = j.c, j2.s = j.s, j2.k = j.k, j2.pend = j.pend, j2.beats = j.beats,
         j2.op = j.op, j2.todo = j.todo, j2.home = j.home, j2.back = j.back
  PROVE  /\ TodoOk(b, j) => TodoOk(new, j2)
         /\ RunOk(b, j) => RunOk(new, j2)
         /\ Back(b, j) => Back(new, j2)
<1>1. TodoOk(b, j) => TodoOk(new, j2)
  <2> SUFFICES ASSUME NEW x, ItemOk(b, x) PROVE ItemOk(new, x)
    BY DEF TodoOk
  <2>1. /\ x[2] \in DOMAIN b => x[2] \in DOMAIN new
        /\ Known(b, x[2], x[3], x[4]) =>
              /\ Known(new, x[2], x[3], x[4])
              /\ GateKept(b[x[2]].scenes[x[3]].gates[x[4]], new[x[2]].scenes[x[3]].gates[x[4]])
    BY KnownStays
  <2>2. /\ x[1] \in 1..4 /\ (x[1] # 4 => Known(b, x[2], x[3], x[4]))
        /\ x[1] = 2 => b[x[2]].scenes[x[3]].gates[x[4]].rp # "none"
        /\ x[1] = 4 => x[2] \in DOMAIN b
    BY DEF ItemOk
  <2>3. x[1] = 2 => new[x[2]].scenes[x[3]].gates[x[4]].rp # "none"
    <3>1. x[1] = 2 => x[1] # 4
      OBVIOUS
    <3> QED BY <2>1, <2>2, <3>1, Zenon DEF GateKept
  <2> QED BY <2>1, <2>2, <2>3, Zenon DEF ItemOk
<1>2. RunOk(b, j) => RunOk(new, j2)
  <2>1. AtScene(b, j) => AtScene(new, j2)
    BY KnownStays DEF AtScene
  <2>2. \A g : Known(b, j.c, j.s, g) => Known(new, j2.c, j2.s, g)
    BY KnownStays
  <2> QED BY <2>1, <2>2 DEF RunOk
<1>3. HomeOk(b, j) => HomeOk(new, j2)
  BY KnownStays DEF HomeOk
<1> QED BY <1>1, <1>2, <1>3 DEF Back

LEMMA ThreadStays ==
  ASSUME NEW b, NEW new, Calm(b, new), b \in Seq(ChapterRec), ThreadOn(b)
  PROVE  ThreadOn(new)
<1>1. Len(b) \in DOMAIN b /\ Len(b) # 0
  BY DEF ThreadOn
<1>2. Len(new) = Len(b) /\ new[Len(b)].st # "CLOSED"
  BY <1>1 DEF Calm, ThreadOn
<1>3. new # <<>>
  BY <1>1, <1>2
<1> QED BY <1>2, <1>3 DEF ThreadOn

-----------------------------------------------------------------------------
(* The ends of a step.                                                                *)

LEMMA NewJobOk == ASSUME NEW b, NEW log PROVE NewJob \in JobRec /\ JobOk(b, log, NewJob)
<1>1. NewJob \in JobRec
  <2>1. <<>> \in Seq(Nat)
    OBVIOUS
  <2>2. <<0, 0, 0>> \in Nat \X Nat \X Nat
    OBVIOUS
  <2>3. /\ 0 \in Nat /\ {} \in SUBSET Nat /\ {} \in SUBSET WorkItems /\ FALSE \in BOOLEAN
        /\ "none" \in Submissions \cup {"none"} /\ <<>> \in Shapes \cup {<<>>}
    OBVIOUS
  <2>4. "idle" \in Labels /\ "none" \in Ops
    BY DEF Labels, Ops
  <2> QED BY <2>1, <2>2, <2>3, <2>4, Zenon DEF NewJob, JobRec
<1>2. NewJob.pc = "idle" /\ NewJob.op = "none" /\ NewJob.back = "idle"
  BY DEF NewJob
<1> QED BY <1>1, <1>2 DEF JobOk, LabelOk, Opening

LEMMA Stutters ==
  ASSUME StoryIInv, UNCHANGED <<host, tick, book, commits>>, JobOk(book, commits, job')
  PROVE  Kept
<1>1. BookKept(book, book)
  BY NothingMoves DEF StoryIInv, StoryInv, Sound
<1>2. LogKept(commits, commits)
  <2>1. PICK S : commits \in Seq(S)
    BY DEF StoryIInv, StoryInv, LogOk
  <2>2. SubSeq(commits, 1, Len(commits)) = commits /\ Len(commits) \in Nat
    BY <2>1
  <2> QED BY <2>2 DEF LogKept
<1> QED BY <1>1, <1>2 DEF StoryIInv, StoryInv, Kept

LEMMA Refuses == ASSUME StoryIInv, Refused PROVE Kept
BY NewJobOk, Stutters DEF Refused, Durable, Done

LEMMA Writes ==
  ASSUME StoryIInv, OnlyBook, Sound(book, book'), JobOk(book', commits, job')
  PROVE  Kept
<1>1. LogOk(book', commits, tick)
  BY LogStays DEF StoryIInv, StoryInv
<1>2. LogKept(commits, commits)
  <2>1. PICK S : commits \in Seq(S)
    BY DEF StoryIInv, StoryInv, LogOk
  <2>2. SubSeq(commits, 1, Len(commits)) = commits /\ Len(commits) \in Nat
    BY <2>1
  <2> QED BY <2>2 DEF LogKept
<1> QED BY <1>1, <1>2 DEF StoryIInv, StoryInv, Kept, OnlyBook, Sound

-----------------------------------------------------------------------------
(* Revisions: written, adopted, rejected.                                             *)

WithStatus(row, st) == [row EXCEPT !.st = st]
RowsOf(R) ==
    \A row \in R : \A st \in RevisionStatus :
        WithStatus(row, st) \in R /\ WithStatus(row, st).st = st

LEMMA PlanRows == RowsOf(PlanRec)
BY DEF RowsOf, WithStatus, PlanRec
LEMMA DossierRows == RowsOf(RevisionRow)
BY DEF RowsOf, WithStatus, RevisionRow

LEMMA Adopts ==
  ASSUME NEW R, RowsOf(R), NEW revs \in Seq(R), NEW r
  PROVE  /\ AdoptRevision(revs, r) \in Seq(R) /\ Revised(revs, AdoptRevision(revs, r))
         /\ r \in DOMAIN revs => /\ r \in DOMAIN AdoptRevision(revs, r)
                                 /\ AdoptRevision(revs, r)[r].st = "ADOPTED"
<1> DEFINE new == AdoptRevision(revs, r)
<1>1. /\ DOMAIN new = DOMAIN revs
      /\ \A i \in DOMAIN revs :
           new[i] = IF i = r THEN WithStatus(revs[i], "ADOPTED")
                    ELSE IF revs[i].st = "ADOPTED" THEN WithStatus(revs[i], "SUPERSEDED")
                    ELSE revs[i]
  BY DEF AdoptRevision, WithStatus
<1>2. new = [i \in 1..Len(revs) |-> new[i]]
  BY DEF AdoptRevision
<1> HIDE DEF new
<1>3. \A i \in DOMAIN revs : revs[i] \in R
  OBVIOUS
<1>4. ASSUME NEW i \in DOMAIN revs
      PROVE  /\ new[i] \in R /\ (new[i].st = "ADOPTED" <=> i = r)
             /\ revs[i].st \in {"ADOPTED", "SUPERSEDED"} => new[i].st \in {"ADOPTED", "SUPERSEDED"}
  <2>1. /\ WithStatus(revs[i], "ADOPTED") \in R /\ WithStatus(revs[i], "ADOPTED").st = "ADOPTED"
        /\ WithStatus(revs[i], "SUPERSEDED") \in R
        /\ WithStatus(revs[i], "SUPERSEDED").st = "SUPERSEDED"
    BY <1>3 DEF RowsOf, RevisionStatus
  <2> QED BY <1>1, <1>3, <2>1
<1>5. new \in Seq(R)
  <2>1. DOMAIN revs = 1..Len(revs) /\ Len(revs) \in Nat
    OBVIOUS
  <2>2. new \in [1..Len(revs) -> R]
    BY <1>1, <1>2, <1>4, <2>1
  <2> QED BY <2>1, <2>2
<1>6. Revised(revs, new)
  BY <1>1, <1>4 DEF Revised, OneAdopted
<1> QED BY <1>1, <1>4, <1>5, <1>6 DEF new

LEMMA Proposes ==
  ASSUME NEW R, NEW revs \in Seq(R), OneAdopted(revs), NEW row \in R, row.st = "PROPOSED"
  PROVE  Append(revs, row) \in Seq(R) /\ Revised(revs, Append(revs, row))
<1> DEFINE new == Append(revs, row)
<1>1. /\ new \in Seq(R) /\ \A i \in DOMAIN revs : i \in DOMAIN new /\ new[i] = revs[i]
      /\ \A i \in DOMAIN new : i \in DOMAIN revs \/ new[i] = row
  OBVIOUS
<1> HIDE DEF new
<1>2. OneAdopted(new)
  BY <1>1 DEF OneAdopted
<1> QED BY <1>1, <1>2 DEF Revised, new

LEMMA Rejects ==
  ASSUME NEW R, RowsOf(R), NEW revs \in Seq(R), OneAdopted(revs),
         NEW r \in DOMAIN revs, revs[r].st = "PROPOSED", NEW new,
         new = [revs EXCEPT ![r] = WithStatus(revs[r], "REJECTED")]
  PROVE  new \in Seq(R) /\ Revised(revs, new)
<1>1. WithStatus(revs[r], "REJECTED") \in R /\ WithStatus(revs[r], "REJECTED").st = "REJECTED"
  BY DEF RowsOf, RevisionStatus
<1>2. /\ new \in Seq(R) /\ DOMAIN new = DOMAIN revs
      /\ \A i \in DOMAIN revs : i # r => new[i] = revs[i]
      /\ new[r].st = "REJECTED"
  BY <1>1
<1>3. OneAdopted(new)
  BY <1>2 DEF OneAdopted
<1> QED BY <1>2, <1>3 DEF Revised

-----------------------------------------------------------------------------
(* The Director's steps.                                                              *)

LEMMA Facts == ASSUME StoryIInv
  PROVE  /\ BookOk(book) /\ book \in Seq(ChapterRec) /\ LogOk(book, commits, tick)
         /\ tick \in 0..MaxTick /\ tick \in Nat /\ job \in JobRec
         /\ job.op \in {"advance", "submit"} => ThreadOn(book)
         /\ job.pc \notin Opening => LabelOk(book, commits, job.pc, job)
         /\ job.pc \in Opening =>
              /\ AtScene(book, job) /\ book[job.c].st # "CLOSED" /\ InTurn(book[job.c])
              /\ job.back \in Aheads /\ LabelOk(book, commits, job.back, job)
         /\ job.pc = "submit" => book[job.c].scenes[job.s].st # "PLANNED"
BY StoryAssumption DEF StoryIInv, StoryInv, JobOk, BookOk

LEMMA Gotos == ASSUME job \in JobRec, NEW pc \in Labels, Goto(pc)
  PROVE  /\ job' \in JobRec /\ job'.pc = pc /\ job'.op = job.op /\ job'.c = job.c
         /\ job'.s = job.s /\ job'.g = job.g /\ job'.k = job.k /\ job'.beats = job.beats
         /\ job'.pend = job.pend /\ job'.bp = job.bp /\ job'.back = job.back
         /\ job'.home = job.home /\ job'.sub = job.sub /\ job'.todo = job.todo
         /\ job'.last = job.last /\ job'.els = job.els
BY DEF Goto, JobRec

LEMMA FreshIsNat == ASSUME NEW anchors \in Seq(SceneRec), NEW bp \in Blueprints
  PROVE  Fresh(anchors, bp) \in SUBSET Nat
<1>1. PICK n \in 1..MaxScenes : bp.refs \in [1..n -> Refs]
  BY DEF Blueprints, Elements
<1>2. \A o \in DOMAIN bp.refs : Cardinality({p \in 1..(o - 1) : IsNew(anchors, bp, p)}) \in Nat
  <2> SUFFICES ASSUME NEW o \in DOMAIN bp.refs
      PROVE Cardinality({p \in 1..(o - 1) : IsNew(anchors, bp, p)}) \in Nat
    OBVIOUS
  <2>1. o \in Int
    BY <1>1
  <2>2. IsFiniteSet(1..(o - 1))
    BY <2>1, FS_Interval
  <2>3. IsFiniteSet({p \in 1..(o - 1) : IsNew(anchors, bp, p)})
    BY <2>2, FS_Subset
  <2> QED BY <2>3, FS_CardinalityType
<1>3. Len(anchors) \in Nat
  OBVIOUS
<1>4. ASSUME NEW o \in DOMAIN bp.refs, IsNew(anchors, bp, o)
      PROVE  TargetOf(anchors, bp, o) \in Nat
  <2> DEFINE k == Cardinality({p \in 1..(o - 1) : IsNew(anchors, bp, p)})
  <2>1. TargetOf(anchors, bp, o) = Len(anchors) + 1 + k
    BY <1>4 DEF TargetOf, IsNew
  <2>2. k \in Nat
    BY <1>2
  <2> HIDE DEF k
  <2> QED BY <1>3, <2>1, <2>2
<1> QED BY <1>4 DEF Fresh

LEMMA ResidueIs == ASSUME BookOk(book), ResidueChapter # 0
  PROVE  ResidueChapter \in DOMAIN book /\ book[ResidueChapter].st = "PLANNED"
<1> DEFINE R == {c \in DOMAIN book : IsResidue(c)}
<1>1. book \in Seq(ChapterRec) /\ DOMAIN book = 1..Len(book) /\ Len(book) \in Nat
  BY DEF BookOk
<1>2. R # {}
  BY DEF ResidueChapter
<1>3. PICK c \in R : \A d \in R : c <= d
  <2>1. R \in SUBSET Nat
    BY <1>1
  <2> QED BY <1>2, <2>1, Least
<1>4. \A d \in 1..(c - 1) : ~IsResidue(d)
  BY <1>1, <1>3
<1>5. ResidueChapter \in DOMAIN book /\ IsResidue(ResidueChapter)
  BY <1>3, <1>4 DEF ResidueChapter
<1> QED BY <1>5 DEF IsResidue

LEMMA CreatePlanKeeps == ASSUME StoryIInv, CreatePlan PROVE Kept
<1> DEFINE c == job.c
           row == PlanRow(job.bp, job.els)
           plans == Append(book[c].plans, row)
<1>1. /\ BookOk(book) /\ job \in JobRec /\ c \in DOMAIN book /\ ~Over(book[c])
      /\ job.bp \in Shapes /\ job.back = "idle" /\ book \in Seq(ChapterRec)
      /\ job.op \in {"advance", "submit"} => ThreadOn(book)
  BY Facts DEF CreatePlan, LabelOk, Opening, MayPlan
<1>2. row \in PlanRec /\ row.st = "PROPOSED"
  BY <1>1 DEF PlanRow, PlanRec, RevisionStatus, JobRec
<1>3. book' = PutPlans(book, c, plans) /\ OnlyBook /\ Goto("adopt_plan")
  BY DEF CreatePlan, PutPlans
<1> HIDE DEF row
<1>4. plans \in Seq(PlanRec) /\ Revised(book[c].plans, plans)
  <2>1. book[c].plans \in Seq(PlanRec) /\ OneAdopted(book[c].plans)
    BY <1>1, RowTypes DEF ChapterOk
  <2> QED BY <1>2, <2>1, Proposes
<1> HIDE DEF plans
<1>5. Sound(book, book') /\ Calm(book, book') /\ DOMAIN book' = DOMAIN book /\ book'[c].st = book[c].st
  BY <1>1, <1>3, <1>4, PlansSound
<1>6. job' \in JobRec /\ job'.pc = "adopt_plan" /\ job'.op = job.op /\ job'.c = c /\ job'.back = "idle"
  BY <1>1, <1>3, Gotos DEF Labels
<1>7. JobOk(book', commits, job')
  <2>1. job.op \in {"advance", "submit"} => ThreadOn(book')
    BY <1>1, <1>5, ThreadStays
  <2>2. MayPlan(book', job')
    BY <1>1, <1>5, <1>6 DEF MayPlan, Over
  <2> QED BY <1>6, <2>1, <2>2 DEF JobOk, LabelOk, Opening
<1> QED BY <1>3, <1>5, <1>7, Writes

LEMMA AdoptPlanKeeps == ASSUME StoryIInv, AdoptPlan PROVE Kept
<1> DEFINE c == job.c
           r == Len(book[c].plans)
<1>1. /\ BookOk(book) /\ job \in JobRec /\ c \in DOMAIN book /\ ~Over(book[c])
      /\ job.back = "idle" /\ book \in Seq(ChapterRec)
      /\ job.op \in {"advance", "submit"} => ThreadOn(book)
  BY Facts DEF AdoptPlan, LabelOk, Opening, MayPlan
<1>2. CASE Refused
  BY <1>2, Refuses
<1>3. CASE ~Refused
  <2>1. /\ book' = PutPlans(book, c, AdoptRevision(book[c].plans, r))
        /\ OnlyBook /\ Goto("reconcile")
    BY <1>3 DEF AdoptPlan, PutPlans
  <2>2. /\ AdoptRevision(book[c].plans, r) \in Seq(PlanRec)
        /\ Revised(book[c].plans, AdoptRevision(book[c].plans, r))
    <3>1. book[c].plans \in Seq(PlanRec)
      BY <1>1, RowTypes
    <3> QED BY <3>1, PlanRows, Adopts
  <2>3. Sound(book, book') /\ Calm(book, book') /\ DOMAIN book' = DOMAIN book /\ book'[c].st = book[c].st
    BY <1>1, <2>1, <2>2, PlansSound
  <2>4. job' \in JobRec /\ job'.pc = "reconcile" /\ job'.op = job.op /\ job'.c = c /\ job'.back = "idle"
    BY <1>1, <2>1, Gotos DEF Labels
  <2>5. JobOk(book', commits, job')
    <3>1. job.op \in {"advance", "submit"} => ThreadOn(book')
      BY <1>1, <2>3, ThreadStays
    <3>2. MayPlan(book', job')
      BY <1>1, <2>3, <2>4 DEF MayPlan, Over
    <3> QED BY <2>4, <3>1, <3>2 DEF JobOk, LabelOk, Opening
  <2> QED BY <2>1, <2>3, <2>5, Writes
<1> QED BY <1>2, <1>3

LEMMA StatusSound ==
  ASSUME NEW b, BookOk(b), NEW c \in DOMAIN b, NEW s \in DOMAIN b[c].scenes, NEW st,
         b[c].scenes[s].st = "PLANNED", b[c].st # "CLOSED",
         st = "DISCARDED" \/ (st = "ACTIVE" /\ ~Over(b[c]) /\ InTurn(b[c])),
         NEW new, new = PutSceneStatus(b, c, s, st)
  PROVE  /\ Sound(b, new) /\ Calm(b, new) /\ DOMAIN new = DOMAIN b
         /\ new[c].st = b[c].st /\ new[c].plans = b[c].plans
         /\ new[c].scenes[s].st = st
         /\ \A u \in DOMAIN b[c].scenes :
              /\ new[c].scenes[u].gates = b[c].scenes[u].gates
              /\ new[c].scenes[u].doss = b[c].scenes[u].doss
<1>1. PICK sc :
           /\ new = PutScene(b, c, s, sc)
           /\ SceneOk(b[c].plans, Over(b[c]), sc) /\ SceneKept(b[c], b[c].scenes[s], sc)
           /\ sc.gates = b[c].scenes[s].gates /\ sc.doss = b[c].scenes[s].doss
           /\ sc.st = st
  BY StatusMoves
<1>2. /\ Calm(b, new) /\ DOMAIN new = DOMAIN b
      /\ new[c].st = b[c].st /\ new[c].plans = b[c].plans
      /\ \A t \in DOMAIN b[c].scenes : new[c].scenes[t] = IF t = s THEN sc ELSE b[c].scenes[t]
  BY <1>1, SceneMoves
<1>3. Sound(b, new)
  BY <1>1, SceneSound
<1> QED BY <1>1, <1>2, <1>3

LEMMA ReconcileKeeps == ASSUME StoryIInv, ReconcileScenes PROVE Kept
<1> DEFINE c == job.c
<1>1. /\ BookOk(book) /\ job \in JobRec /\ c \in DOMAIN book /\ ~Over(book[c])
      /\ book \in Seq(ChapterRec) /\ job.pc = "reconcile"
      /\ job.op \in {"advance", "submit"} => ThreadOn(book)
      /\ job.back # "idle" => InForce(book, job) /\ Back(book, job)
  BY Facts DEF ReconcileScenes, LabelOk, Opening, MayPlan
<1>2. /\ book[c].scenes \in Seq(SceneRec) /\ DOMAIN book[c].scenes \in SUBSET Nat
      /\ book[c].st # "CLOSED"
  BY <1>1, RowTypes DEF Over
<1>3. ASSUME OnlyBook, UNCHANGED job, Sound(book, book'), Calm(book, book'),
             DOMAIN book' = DOMAIN book, book'[c].st = book[c].st,
             book'[c].plans = book[c].plans,
             \A u \in DOMAIN book[c].scenes :
               /\ book'[c].scenes[u].gates = book[c].scenes[u].gates
               /\ book'[c].scenes[u].doss = book[c].scenes[u].doss
      PROVE  Kept
  <2>1. BookKept(book, book')
    BY <1>3 DEF Sound
  <2>2. job.op \in {"advance", "submit"} => ThreadOn(book')
    BY <1>1, <1>3, ThreadStays
  <2>3. MayPlan(book', job)
    BY <1>1, <1>3 DEF MayPlan, Over
  <2>4. Back(book, job) => Back(book', job)
    BY <2>1, BackStays
  <2>5. InForce(book, job) => InForce(book', job)
    <3>1. AtGate(book, job) => AtGate(book', job)
      BY <2>1, KnownStays DEF AtGate
    <3>2. AtGate(book, job) => GateOf(book', job) = GateOf(book, job)
      BY <1>3 DEF AtGate, Known, GateOf
    <3>3. AtGate(book, job) => book'[c].scenes[job.s].doss = book[c].scenes[job.s].doss
      BY <1>3 DEF AtGate, Known
    <3> QED BY <1>3, <3>1, <3>2, <3>3 DEF InForce
  <2>6. JobOk(book', commits, job)
    BY <1>1, <2>2, <2>3, <2>4, <2>5 DEF JobOk, LabelOk, Opening
  <2> QED BY <1>3, <2>6, Writes
<1>4. CASE ToCreate # {}
  <2>1. /\ book' = PutScenes(book, c, Append(book[c].scenes, NewScene))
        /\ OnlyBook /\ UNCHANGED job
    BY <1>4 DEF ReconcileScenes, PutScenes
  <2>2. /\ Sound(book, book') /\ Calm(book, book') /\ DOMAIN book' = DOMAIN book
        /\ book'[c].st = book[c].st /\ book'[c].plans = book[c].plans
        /\ \A s \in DOMAIN book[c].scenes : book'[c].scenes[s] = book[c].scenes[s]
    BY <1>1, <2>1, SceneAddsSound
  <2> QED BY <1>3, <2>1, <2>2
<1>5. CASE ToCreate = {} /\ ToDiscard # {}
  <2>1. PICK x \in ToDiscard : \A y \in ToDiscard : x <= y
    <3>1. ToDiscard \in SUBSET Nat
      BY <1>2 DEF ToDiscard, Scenes
    <3> QED BY <1>5, <3>1, Least
  <2> DEFINE s == CHOOSE z \in ToDiscard : \A y \in ToDiscard : z <= y
  <2>2. s \in ToDiscard
    BY <2>1
  <2>3. book' = PutSceneStatus(book, c, s, "DISCARDED") /\ OnlyBook /\ UNCHANGED job
    BY <1>5 DEF ReconcileScenes, Discard, PutSceneStatus
  <2> HIDE DEF s
  <2>4. s \in DOMAIN book[c].scenes /\ book[c].scenes[s].st = "PLANNED"
    BY <2>2 DEF ToDiscard, Scenes
  <2>5. /\ Sound(book, book') /\ Calm(book, book') /\ DOMAIN book' = DOMAIN book
        /\ book'[c].st = book[c].st /\ book'[c].plans = book[c].plans
        /\ \A u \in DOMAIN book[c].scenes :
             /\ book'[c].scenes[u].gates = book[c].scenes[u].gates
             /\ book'[c].scenes[u].doss = book[c].scenes[u].doss
    BY <1>1, <1>2, <2>3, <2>4, StatusSound
  <2> QED BY <1>3, <2>3, <2>5
<1>6. CASE ToCreate = {} /\ ToDiscard = {}
  <2>1. Durable /\ (IF job.back = "idle" THEN Done ELSE Goto("r_mark"))
    BY <1>6 DEF ReconcileScenes
  <2>2. CASE job.back = "idle"
    BY <2>1, <2>2, Refuses DEF Refused
  <2>3. CASE job.back # "idle"
    <3>1. /\ job' \in JobRec /\ job'.pc = "r_mark" /\ job'.op = job.op /\ job'.c = c
          /\ job'.s = job.s /\ job'.g = job.g /\ job'.back = job.back /\ job'.k = job.k
          /\ job'.pend = job.pend /\ job'.beats = job.beats /\ job'.home = job.home
          /\ job'.todo = job.todo
      BY <1>1, <2>1, <2>3, Gotos DEF Labels
    <3>2. InForce(book, job') /\ AtGate(book, job') /\ GateOf(book, job').rp = "PENDING"
      BY <1>1, <2>3, <3>1 DEF InForce, AtGate, GateOf
    <3>3. Back(book, job')
      <4>1. BookKept(book, book)
        BY <1>1, NothingMoves DEF Sound
      <4> QED BY <1>1, <2>3, <3>1, <4>1, BackStays
    <3>4. JobOk(book, commits, job')
      BY <1>1, <3>1, <3>2, <3>3 DEF JobOk, LabelOk, Opening
    <3> QED BY <2>1, <3>4, Stutters DEF Durable
  <2> QED BY <2>2, <2>3
<1> QED BY <1>4, <1>5, <1>6

\* What a plan request carries to its writes.
PlanJob(pc, c, bp, els, fresh) ==
    job' = [job EXCEPT !.pc = pc, !.c = c, !.bp = bp, !.els = els, !.fresh = fresh]
LEMMA PlanJobOk ==
  ASSUME job \in JobRec, job.back = "idle", NEW b, NEW c \in DOMAIN b, c \in Nat, ~Over(b[c]),
         job.op \in {"advance", "submit"} => ThreadOn(b),
         NEW pc \in {"create_plan", "adopt_plan", "reconcile"}, NEW bp \in Blueprints,
         NEW els \in SUBSET Nat, NEW fresh \in SUBSET Nat, PlanJob(pc, c, bp, els, fresh)
  PROVE  JobOk(b, commits, job')
<1>1. /\ job' \in JobRec /\ job'.pc = pc /\ job'.op = job.op /\ job'.c = c
      /\ job'.back = "idle" /\ job'.bp = bp
  BY DEF PlanJob, JobRec, Labels, Shapes
<1>2. MayPlan(b, job')
  BY <1>1 DEF MayPlan
<1> QED BY <1>1, <1>2 DEF JobOk, LabelOk, Opening, Shapes

LEMMA RejectSound ==
  ASSUME BookOk(book), NEW c \in DOMAIN book, ~Over(book[c]), NEW r \in DOMAIN book[c].plans,
         book[c].plans[r].st = "PROPOSED", Reject(c, r)
  PROVE  /\ Sound(book, book') /\ Calm(book, book') /\ DOMAIN book' = DOMAIN book
         /\ book'[c].st = book[c].st
<1> DEFINE plans == [book[c].plans EXCEPT ![r] = WithStatus(book[c].plans[r], "REJECTED")]
<1>1. book' = PutPlans(book, c, plans)
  BY DEF Reject, PutPlans, WithStatus
<1>2. book[c].plans \in Seq(PlanRec) /\ OneAdopted(book[c].plans)
  BY RowTypes DEF ChapterOk
<1>3. plans \in Seq(PlanRec) /\ Revised(book[c].plans, plans)
  BY <1>2, PlanRows, Rejects
<1> HIDE DEF plans
<1> QED BY <1>1, <1>3, PlansSound

\* A revision left PROPOSED is adopted or put aside.
LEMMA ContinuesOk ==
  ASSUME StoryIInv, job.back = "idle", NEW c \in DOMAIN book, ~Over(book[c]),
         NEW bp \in Blueprints, NEW els \in SUBSET Nat, NEW fresh \in SUBSET Nat,
         NEW r \in DOMAIN book[c].plans, book[c].plans[r].st = "PROPOSED",
         \/ Durable /\ PlanJob("adopt_plan", c, bp, els, fresh)
         \/ Reject(c, r) /\ OnlyBook /\ PlanJob("create_plan", c, bp, els, fresh)
  PROVE  Kept
<1>1. /\ BookOk(book) /\ job \in JobRec /\ c \in Nat /\ book \in Seq(ChapterRec)
      /\ job.op \in {"advance", "submit"} => ThreadOn(book)
  BY Facts
<1>2. CASE Durable /\ PlanJob("adopt_plan", c, bp, els, fresh)
  <2>1. JobOk(book, commits, job')
    BY <1>1, <1>2, PlanJobOk
  <2> QED BY <1>2, <2>1, Stutters DEF Durable
<1>3. CASE Reject(c, r) /\ OnlyBook /\ PlanJob("create_plan", c, bp, els, fresh)
  <2>1. /\ Sound(book, book') /\ Calm(book, book') /\ DOMAIN book' = DOMAIN book
        /\ book'[c].st = book[c].st
    BY <1>1, <1>3, RejectSound
  <2>2. job.op \in {"advance", "submit"} => ThreadOn(book')
    BY <1>1, <2>1, ThreadStays
  <2>3. JobOk(book', commits, job')
    <3>1. ~Over(book'[c])
      BY <2>1 DEF Over
    <3> QED BY <1>1, <1>3, <2>1, <2>2, <3>1, PlanJobOk
  <2> QED BY <1>3, <2>1, <2>3, Writes
<1> QED BY <1>2, <1>3

LEMMA ThreadOpens == ASSUME BookOk(book), book' = Append(book, NewChapter) PROVE ThreadOn(book')
<1>1. /\ Len(book') = Len(book) + 1 /\ book' # <<>> /\ book'[Len(book) + 1] = NewChapter
  BY ChapterAddsSound
<1>2. book'[Len(book')].st = "PLANNED"
  BY <1>1 DEF NewChapter
<1> QED BY <1>1, <1>2 DEF ThreadOn

LEMMA OpenNextChapterKeeps == ASSUME StoryIInv, OpenNextChapter PROVE Kept
<1>1. /\ BookOk(book) /\ job \in JobRec /\ job.back = "idle" /\ book \in Seq(ChapterRec)
      /\ job.op \in {"advance", "submit"} => ThreadOn(book)
  BY Facts DEF OpenNextChapter, LabelOk, Opening
<1> DEFINE c == ResidueChapter
           d == IF c = 0 THEN Last + 1 ELSE c
           anchors == IF c = 0 THEN <<>> ELSE Scenes(c)
           r == IF c = 0 THEN 0 ELSE Len(book[c].plans)
<1>2. PICK bp \in Blueprints :
        LET els == Targets(anchors, bp)
            on(pc) == PlanJob(pc, d, bp, els, Fresh(anchors, bp))
        IN /\ els \subseteq 1..MaxScenes
           /\ \/ /\ c = 0 /\ book' = Append(book, NewChapter) /\ OnlyBook /\ on("create_plan")
              \/ c # 0 /\ r = 0 /\ Durable /\ on("create_plan")
              \/ r > 0 /\ book[c].plans[r].st = "ADOPTED" /\ Durable /\ on("reconcile")
              \/ /\ r > 0 /\ book[c].plans[r].st = "PROPOSED"
                 /\ \/ Durable /\ on("adopt_plan")
                    \/ Reject(c, r) /\ OnlyBook /\ on("create_plan")
  BY DEF OpenNextChapter, PlanJob, ContinueProposed
<1> DEFINE els == Targets(anchors, bp)
           fresh == Fresh(anchors, bp)
<1>3. c # 0 => c \in DOMAIN book /\ c \in Nat /\ ~Over(book[c]) /\ book[c].plans \in Seq(PlanRec)
               /\ book[c].scenes \in Seq(SceneRec)
  BY <1>1, ResidueIs, RowTypes DEF Over
<1>4. els \in SUBSET Nat /\ fresh \in SUBSET Nat
  <2>1. anchors \in Seq(SceneRec)
    BY <1>3 DEF Scenes
  <2>2. els \subseteq 1..MaxScenes
    BY <1>2
  <2>3. fresh \in SUBSET Nat
    BY <2>1, FreshIsNat
  <2> HIDE DEF els, fresh
  <2> QED BY <2>2, <2>3, StoryAssumption
<1>5. r > 0 => c # 0 /\ r \in DOMAIN book[c].plans
  BY <1>3
<1> HIDE DEF els, fresh, c, anchors
<1>6. CASE c = 0 /\ book' = Append(book, NewChapter) /\ OnlyBook
           /\ PlanJob("create_plan", d, bp, els, fresh)
  <2>1. /\ Sound(book, book') /\ d \in DOMAIN book' /\ d \in Nat /\ book'[d] = NewChapter
    <3>1. d = Len(book) + 1 /\ Len(book) \in Nat
      BY <1>1, <1>6 DEF Last
    <3>2. /\ Sound(book, book') /\ Len(book) + 1 \in DOMAIN book'
          /\ book'[Len(book) + 1] = NewChapter
      BY <1>1, <1>6, ChapterAddsSound
    <3> HIDE DEF d
    <3> QED BY <3>1, <3>2
  <2>2. ~Over(book'[d]) /\ ThreadOn(book')
    BY <1>1, <1>6, <2>1, ThreadOpens DEF Over, NewChapter
  <2>3. JobOk(book', commits, job')
    <3> HIDE DEF d
    <3> QED BY <1>1, <1>4, <1>6, <2>1, <2>2, PlanJobOk
  <2> QED BY <1>6, <2>1, <2>3, Writes
<1>7. ASSUME c # 0, Durable, NEW pc \in {"create_plan", "reconcile"},
             PlanJob(pc, d, bp, els, fresh)
      PROVE  Kept
  <2>1. d = c
    BY <1>7
  <2>2. JobOk(book, commits, job')
    BY <1>1, <1>3, <1>4, <1>7, <2>1, PlanJobOk
  <2> QED BY <1>7, <2>2, Stutters DEF Durable
<1>8. CASE /\ r > 0 /\ book[c].plans[r].st = "PROPOSED"
           /\ \/ Durable /\ PlanJob("adopt_plan", d, bp, els, fresh)
              \/ Reject(c, r) /\ OnlyBook /\ PlanJob("create_plan", d, bp, els, fresh)
  <2>1. c # 0 /\ d = c /\ r \in DOMAIN book[c].plans
    BY <1>5, <1>8
  <2> HIDE DEF d, r
  <2> QED BY <1>1, <1>3, <1>4, <1>8, <2>1, ContinuesOk
<1> HIDE DEF d, r
<1> QED BY <1>2, <1>5, <1>6, <1>7, <1>8 DEF els, fresh

LEMMA ReviseBlueprintKeeps == ASSUME StoryIInv, ReviseBlueprint PROVE Kept
<1> DEFINE c == job.c
           r == Len(book[c].plans)
<1>1. /\ BookOk(book) /\ job \in JobRec /\ job.back = "idle" /\ book \in Seq(ChapterRec)
      /\ job.op \in {"advance", "submit"} => ThreadOn(book)
      /\ c \in DOMAIN book /\ ~Over(book[c])
  BY Facts DEF ReviseBlueprint, LabelOk, Opening, MayPlan
<1>2. PICK bp \in Blueprints :
        LET els == Targets(Scenes(c), bp)
            on(pc) == job' = [job EXCEPT !.pc = pc, !.bp = bp, !.els = els,
                                         !.fresh = Fresh(Scenes(c), bp)]
        IN /\ els \subseteq 1..MaxScenes
           /\ \/ /\ r > 0 /\ book[c].plans[r].st = "PROPOSED"
                 /\ \/ Durable /\ on("adopt_plan")
                    \/ Reject(c, r) /\ OnlyBook /\ on("create_plan")
              \/ Durable /\ on("create_plan")
  BY DEF ReviseBlueprint, ContinueProposed
<1> DEFINE els == Targets(Scenes(c), bp)
           fresh == Fresh(Scenes(c), bp)
<1>3. /\ c \in Nat /\ book[c].plans \in Seq(PlanRec) /\ book[c].scenes \in Seq(SceneRec)
      /\ r > 0 => r \in DOMAIN book[c].plans
  BY <1>1, RowTypes
<1>4. els \in SUBSET Nat /\ fresh \in SUBSET Nat
  <2>1. els \subseteq 1..MaxScenes
    BY <1>2
  <2>2. fresh \in SUBSET Nat
    BY <1>3, FreshIsNat DEF Scenes
  <2> HIDE DEF els, fresh
  <2> QED BY <2>1, <2>2, StoryAssumption
<1> DEFINE on(pc) == job' = [job EXCEPT !.pc = pc, !.bp = bp, !.els = els, !.fresh = fresh]
<1> HIDE DEF els, fresh
<1>7. ASSUME NEW pc, on(pc) PROVE PlanJob(pc, c, bp, els, fresh)
  BY <1>1, <1>7 DEF PlanJob, JobRec
<1> HIDE DEF r
<1>5. CASE Durable /\ on("create_plan")
  <2>1. PlanJob("create_plan", c, bp, els, fresh)
    BY <1>5, <1>7
  <2>2. JobOk(book, commits, job')
    BY <1>1, <1>3, <1>4, <2>1, PlanJobOk
  <2> QED BY <1>5, <2>2, Stutters DEF Durable
<1>6. CASE /\ r > 0 /\ book[c].plans[r].st = "PROPOSED"
           /\ (Durable /\ on("adopt_plan")) \/ (Reject(c, r) /\ OnlyBook /\ on("create_plan"))
  <2>1. \/ Durable /\ PlanJob("adopt_plan", c, bp, els, fresh)
        \/ Reject(c, r) /\ OnlyBook /\ PlanJob("create_plan", c, bp, els, fresh)
    BY <1>6, <1>7
  <2>2. r \in DOMAIN book[c].plans /\ book[c].plans[r].st = "PROPOSED"
    BY <1>3, <1>6
  <2> QED BY <1>1, <1>4, <2>1, <2>2, ContinuesOk
<1> QED BY <1>2, <1>5, <1>6 DEF els, fresh

\* The dual-seat planner: the one scene is made when there is none.
FirstScene(b, c) == [b EXCEPT ![c].scenes = IF @ = <<>> THEN <<NewScene>> ELSE @]
LEMMA FirstSceneSound ==
  ASSUME NEW b, BookOk(b), NEW c \in DOMAIN b, ~Over(b[c]), NEW new, new = FirstScene(b, c)
  PROVE  /\ Sound(b, new) /\ Calm(b, new) /\ DOMAIN new = DOMAIN b
         /\ new[c].st = b[c].st /\ new[c].plans = b[c].plans
<1>1. b[c] \in ChapterRec /\ b[c].scenes \in Seq(SceneRec) /\ b \in Seq(ChapterRec)
  BY RowTypes DEF BookOk
<1>2. CASE b[c].scenes = <<>>
  <2>1. Append(b[c].scenes, NewScene) = <<NewScene>>
    BY <1>2
  <2>2. new = PutScenes(b, c, Append(b[c].scenes, NewScene))
    BY <1>2, <2>1 DEF FirstScene, PutScenes
  <2> QED BY <2>2, SceneAddsSound
<1>3. CASE b[c].scenes # <<>>
  <2>1. new = PutScenes(b, c, b[c].scenes)
    BY <1>3 DEF FirstScene, PutScenes
  <2>2. new = b
    <3>1. PutScenes(b, c, b[c].scenes) = PutChapter(b, c, [b[c] EXCEPT !.scenes = b[c].scenes])
      BY DEF PutScenes, PutChapter
    <3>2. [b[c] EXCEPT !.scenes = b[c].scenes] = b[c]
      BY <1>1 DEF ChapterRec
    <3>3. PutChapter(b, c, b[c]) = b
      BY <1>1 DEF PutChapter
    <3> QED BY <2>1, <3>1, <3>2, <3>3
  <2> QED BY <2>2, NothingMoves
<1> QED BY <1>2, <1>3

LEMMA SituationJobOk ==
  ASSUME NEW b, NEW j, j \in JobRec, MayPlan(b, j), j.pc \in {"sit_scene", "sit_plan", "sit_adopt"},
         j.op \in {"advance", "submit"} => ThreadOn(b)
  PROVE  JobOk(b, commits, j)
BY DEF JobOk, LabelOk, Opening

LEMMA PlanSituationChapterKeeps == ASSUME StoryIInv, PlanSituationChapter PROVE Kept
<1>1. /\ BookOk(book) /\ job \in JobRec /\ book \in Seq(ChapterRec)
      /\ job.op \in {"advance", "submit"} => ThreadOn(book)
  BY Facts
<1>2. book # <<>> => Last \in DOMAIN book /\ Last \in Nat
  BY <1>1 DEF Last
<1>3. CASE /\ book # <<>> /\ book[Last].st \in {"PLANNED", "ACTIVE"}
           /\ book' = FirstScene(book, Last) /\ OnlyBook /\ Done
  <2>1. Sound(book, book')
    BY <1>1, <1>2, <1>3, FirstSceneSound DEF Over
  <2> QED BY <1>3, <2>1, NewJobOk, Writes DEF Done
<1>4. CASE /\ book # <<>> /\ book[Last].st = "PLANNED"
           /\ Durable /\ job' = [job EXCEPT !.pc = "sit_scene", !.c = Last]
  <2>1. job' \in JobRec /\ job'.pc = "sit_scene" /\ job'.c = Last /\ job'.op = job.op
    BY <1>1, <1>2, <1>4 DEF JobRec, Labels
  <2>2. MayPlan(book, job')
    BY <1>2, <1>4, <2>1 DEF MayPlan, Over
  <2>3. JobOk(book, commits, job')
    BY <1>1, <2>1, <2>2, SituationJobOk
  <2> QED BY <1>4, <2>3, Stutters DEF Durable
<1>5. CASE /\ book' = Append(book, NewChapter) /\ OnlyBook
           /\ job' = [job EXCEPT !.pc = "sit_scene", !.c = Last + 1]
  <2>1. /\ Sound(book, book') /\ Last + 1 \in DOMAIN book' /\ book'[Last + 1] = NewChapter
        /\ ThreadOn(book') /\ Last + 1 \in Nat
    <3>1. /\ Sound(book, book') /\ Len(book) + 1 \in DOMAIN book'
          /\ book'[Len(book) + 1] = NewChapter
      BY <1>1, <1>5, ChapterAddsSound
    <3>2. ThreadOn(book') /\ Len(book) + 1 \in Nat
      BY <1>1, <1>5, ThreadOpens
    <3> QED BY <3>1, <3>2 DEF Last
  <2>2. job' \in JobRec /\ job'.pc = "sit_scene" /\ job'.c = Last + 1 /\ job'.op = job.op
    BY <1>1, <1>5, <2>1 DEF JobRec, Labels
  <2>3. MayPlan(book', job')
    BY <2>1, <2>2 DEF MayPlan, Over, NewChapter
  <2>4. JobOk(book', commits, job')
    BY <2>1, <2>2, <2>3, SituationJobOk
  <2> QED BY <1>5, <2>1, <2>4, Writes
<1> QED BY <1>3, <1>4, <1>5 DEF PlanSituationChapter, FirstScene

\* Its three writes each leave the chapter open to the next.
LEMMA SituationGoes ==
  ASSUME StoryIInv, job.pc \in {"sit_scene", "sit_plan"}, OnlyBook,
         NEW pc \in {"sit_plan", "sit_adopt"}, Goto(pc),
         MayPlan(book, job), Sound(book, book'), Calm(book, book'), DOMAIN book' = DOMAIN book,
         book'[job.c].st = book[job.c].st
  PROVE  Kept
<1>1. /\ job \in JobRec /\ book \in Seq(ChapterRec)
      /\ job.op \in {"advance", "submit"} => ThreadOn(book)
  BY Facts
<1>2. job' \in JobRec /\ job'.pc = pc /\ job'.c = job.c /\ job'.op = job.op
  BY <1>1, Gotos DEF Labels
<1>3. MayPlan(book', job')
  BY <1>2 DEF MayPlan, Over
<1>4. job.op \in {"advance", "submit"} => ThreadOn(book')
  BY <1>1, ThreadStays
<1>5. JobOk(book', commits, job')
  BY <1>2, <1>3, <1>4, SituationJobOk
<1> QED BY <1>5, Writes

LEMMA SituationKeeps == ASSUME StoryIInv, SituationScene \/ SituationPlan \/ SituationAdopt PROVE Kept
<1> DEFINE c == job.c
<1>1. /\ BookOk(book) /\ MayPlan(book, job) /\ c \in DOMAIN book /\ ~Over(book[c])
      /\ book[c].plans \in Seq(PlanRec) /\ OneAdopted(book[c].plans)
  <2>1. BookOk(book) /\ MayPlan(book, job)
    BY Facts DEF SituationScene, SituationPlan, SituationAdopt, LabelOk, Opening
  <2> QED BY <2>1, RowTypes DEF MayPlan, ChapterOk
<1>2. CASE SituationScene
  <2>1. book' = FirstScene(book, c) /\ OnlyBook /\ Goto("sit_plan") /\ job.pc = "sit_scene"
    BY <1>2 DEF SituationScene, FirstScene
  <2>2. /\ Sound(book, book') /\ Calm(book, book') /\ DOMAIN book' = DOMAIN book
        /\ book'[c].st = book[c].st
    BY <1>1, <2>1, FirstSceneSound
  <2> QED BY <1>1, <2>1, <2>2, SituationGoes
<1>3. CASE SituationPlan
  <2> DEFINE row == PlanRow(SituationBlueprint, {1})
             plans == Append(book[c].plans, row)
  <2>1. book' = PutPlans(book, c, plans) /\ OnlyBook /\ Goto("sit_adopt") /\ job.pc = "sit_plan"
    BY <1>3 DEF SituationPlan, PutPlans
  <2>2. row \in PlanRec /\ row.st = "PROPOSED"
    BY DEF PlanRow, PlanRec, RevisionStatus, Shapes
  <2> HIDE DEF row
  <2>3. plans \in Seq(PlanRec) /\ Revised(book[c].plans, plans)
    BY <1>1, <2>2, Proposes
  <2> HIDE DEF plans
  <2>4. /\ Sound(book, book') /\ Calm(book, book') /\ DOMAIN book' = DOMAIN book
        /\ book'[c].st = book[c].st
    BY <1>1, <2>1, <2>3, PlansSound
  <2> QED BY <1>1, <2>1, <2>4, SituationGoes
<1>4. CASE SituationAdopt
  <2> DEFINE plans == AdoptRevision(book[c].plans, Len(book[c].plans))
  <2>1. book' = PutPlans(book, c, plans) /\ OnlyBook /\ Done
    BY <1>4 DEF SituationAdopt, PutPlans
  <2>2. plans \in Seq(PlanRec) /\ Revised(book[c].plans, plans)
    BY <1>1, PlanRows, Adopts
  <2> HIDE DEF plans
  <2>3. Sound(book, book')
    BY <1>1, <2>1, <2>2, PlansSound
  <2> QED BY <2>1, <2>3, NewJobOk, Writes DEF Done
<1> QED BY <1>2, <1>3, <1>4

-----------------------------------------------------------------------------
(* The Scene Planner's steps.                                                         *)

LEMMA DossierSound ==
  ASSUME NEW b, BookOk(b), NEW c \in DOMAIN b, NEW s \in DOMAIN b[c].scenes,
         NEW doss \in Seq(RevisionRow), b[c].st # "CLOSED",
         Revised(b[c].scenes[s].doss, doss), NEW new, new = PutDossiers(b, c, s, doss)
  PROVE  /\ Sound(b, new) /\ Calm(b, new) /\ DOMAIN new = DOMAIN b
         /\ new[c].st = b[c].st /\ new[c].plans = b[c].plans
         /\ DOMAIN new[c].scenes = DOMAIN b[c].scenes
         /\ \A u \in DOMAIN b[c].scenes :
              /\ new[c].scenes[u].st = b[c].scenes[u].st
              /\ new[c].scenes[u].gates = b[c].scenes[u].gates
         /\ new[c].scenes[s].doss = doss
<1>1. PICK sc :
           /\ new = PutScene(b, c, s, sc)
           /\ SceneOk(b[c].plans, Over(b[c]), sc) /\ SceneKept(b[c], b[c].scenes[s], sc)
           /\ sc.st = b[c].scenes[s].st /\ sc.gates = b[c].scenes[s].gates /\ sc.doss = doss
  BY DossierMoves
<1>2. /\ Calm(b, new) /\ DOMAIN new = DOMAIN b
      /\ new[c].st = b[c].st /\ new[c].plans = b[c].plans
      /\ DOMAIN new[c].scenes = DOMAIN b[c].scenes
      /\ \A t \in DOMAIN b[c].scenes : new[c].scenes[t] = IF t = s THEN sc ELSE b[c].scenes[t]
  BY <1>1, SceneMoves
<1>3. Sound(b, new)
  BY <1>1, SceneSound
<1> QED BY <1>1, <1>2, <1>3

SameJob(j, j2) ==
    /\ j2.op = j.op /\ j2.c = j.c /\ j2.s = j.s /\ j2.g = j.g /\ j2.k = j.k
    /\ j2.beats = j.beats /\ j2.pend = j.pend /\ j2.back = j.back /\ j2.home = j.home
    /\ j2.sub = j.sub /\ j2.todo = j.todo /\ j2.bp = j.bp
LEMMA GotosSame == ASSUME job \in JobRec, NEW pc \in Labels, Goto(pc)
  PROVE  job' \in JobRec /\ job'.pc = pc /\ SameJob(job, job')
BY Gotos DEF SameJob

LEMMA AheadStays ==
  ASSUME NEW b, NEW new, NEW j, NEW j2, NEW log, NEW lab \in Aheads, LabelOk(b, log, lab, j),
         SameJob(j, j2), BookKept(b, new), AtScene(b, j),
         new[j.c].scenes[j.s].gates = b[j.c].scenes[j.s].gates
  PROVE  LabelOk(new, log, lab, j2)
<1>1. AtScene(new, j2)
  BY KnownStays DEF AtScene, SameJob
<1>2. RunOk(b, j) => RunOk(new, j2)
  BY BackStays DEF SameJob
<1>3. GateDue(b, log, j) => GateDue(new, log, j2)
  BY DEF GateDue, SameJob
<1>4. GateReached(b, log, j) => GateReached(new, log, j2)
  BY DEF GateReached, SameJob
<1>5. j2.op = j.op /\ j2.back = j.back
  BY DEF SameJob
<1> QED BY <1>1, <1>2, <1>3, <1>4, <1>5 DEF LabelOk, Aheads

LEMMA OpeningGoes ==
  ASSUME StoryIInv, job.pc \in Opening, NEW pc \in Opening, Goto(pc), OnlyBook,
         Sound(book, book'), Calm(book, book'),
         book'[job.c].st = book[job.c].st, book'[job.c].plans = book[job.c].plans,
         DOMAIN book'[job.c].scenes = DOMAIN book[job.c].scenes,
         \A u \in DOMAIN book[job.c].scenes :
            /\ book'[job.c].scenes[u].st = book[job.c].scenes[u].st
            /\ book'[job.c].scenes[u].gates = book[job.c].scenes[u].gates
  PROVE  Kept
<1>1. /\ job \in JobRec /\ book \in Seq(ChapterRec) /\ BookKept(book, book')
      /\ job.op \in {"advance", "submit"} => ThreadOn(book)
      /\ AtScene(book, job) /\ book[job.c].st # "CLOSED" /\ InTurn(book[job.c])
      /\ job.back \in Aheads /\ LabelOk(book, commits, job.back, job)
  BY Facts DEF Sound
<1>2. job' \in JobRec /\ job'.pc = pc /\ SameJob(job, job')
  BY <1>1, GotosSame DEF Labels, Opening
<1>3. LabelOk(book', commits, job.back, job')
  BY <1>1, <1>2, AheadStays DEF AtScene
<1>4. job.op \in {"advance", "submit"} => ThreadOn(book')
  BY <1>1, ThreadStays
<1>5. AtScene(book', job') /\ book'[job'.c].st # "CLOSED" /\ InTurn(book'[job'.c])
  <2>1. AtScene(book', job')
    BY <1>1, <1>2, KnownStays DEF AtScene, SameJob
  <2>2. InTurn(book'[job.c])
    BY <1>1 DEF InTurn
  <2> QED BY <1>1, <1>2, <2>1, <2>2 DEF SameJob
<1>6. JobOk(book', commits, job')
  <2>1. job'.pc \in Opening /\ job'.pc # "submit"
    BY <1>2 DEF Opening
  <2> QED BY <1>1, <1>2, <1>3, <1>4, <1>5, <2>1 DEF JobOk, SameJob
<1> QED BY <1>6, Writes

LEMMA OpenSceneKeeps == ASSUME StoryIInv, OpenScene PROVE Kept
<1> DEFINE c == job.c
           s == job.s
           row == DossierRow(1)
<1>1. /\ BookOk(book) /\ c \in DOMAIN book /\ s \in DOMAIN book[c].scenes
      /\ book[c].st # "CLOSED" /\ tick \in 0..MaxTick /\ job.pc = "open" /\ job.pc \in Opening
  BY Facts DEF OpenScene, Opening, AtScene
<1>2. row \in RevisionRow /\ row.st = "PROPOSED"
  BY <1>1 DEF DossierRow, RevisionRow, RevisionStatus
<1>3. CASE /\ book[c].scenes[s].doss = <<>> /\ book' = PutDossiers(book, c, s, <<row>>)
           /\ OnlyBook /\ Goto("open_adopt")
  <2> DEFINE doss == Append(book[c].scenes[s].doss, row)
  <2>1. book' = PutDossiers(book, c, s, doss)
    <3>1. Append(<<>>, row) = <<row>>
      OBVIOUS
    <3> QED BY <1>3, <3>1
  <2> HIDE DEF row
  <2>2. doss \in Seq(RevisionRow) /\ Revised(book[c].scenes[s].doss, doss)
    <3>1. book[c].scenes[s].doss \in Seq(RevisionRow) /\ OneAdopted(book[c].scenes[s].doss)
      BY <1>1, RowTypes DEF SceneOk
    <3> QED BY <1>2, <3>1, Proposes
  <2> HIDE DEF doss
  <2>3. /\ Sound(book, book') /\ Calm(book, book')
        /\ book'[c].st = book[c].st /\ book'[c].plans = book[c].plans
        /\ DOMAIN book'[c].scenes = DOMAIN book[c].scenes
        /\ \A u \in DOMAIN book[c].scenes :
             /\ book'[c].scenes[u].st = book[c].scenes[u].st
             /\ book'[c].scenes[u].gates = book[c].scenes[u].gates
    BY <1>1, <2>1, <2>2, DossierSound
  <2> QED BY <1>1, <1>3, <2>3, OpeningGoes DEF Opening
<1>4. CASE Durable /\ Goto("open_adopt")
  <2>1. Sound(book, book) /\ Calm(book, book)
    BY <1>1, NothingMoves
  <2>2. OnlyBook /\ book' = book
    BY <1>4 DEF Durable, OnlyBook
  <2> QED BY <1>1, <1>4, <2>1, <2>2, OpeningGoes DEF Opening
<1>5. CASE Refused
  BY <1>5, Refuses
<1> QED BY <1>3, <1>4, <1>5 DEF OpenScene, PutDossiers, Scenes

LEMMA AdoptOpeningKeeps == ASSUME StoryIInv, AdoptOpening PROVE Kept
<1> DEFINE c == job.c
           s == job.s
           doss == AdoptRevision(book[c].scenes[s].doss, 1)
<1>1. /\ BookOk(book) /\ c \in DOMAIN book /\ s \in DOMAIN book[c].scenes
      /\ book[c].st # "CLOSED" /\ job.pc \in Opening
  BY Facts DEF AdoptOpening, Opening, AtScene
<1>2. CASE Refused
  BY <1>2, Refuses
<1>3. CASE ~Refused
  <2>1. book' = PutDossiers(book, c, s, doss) /\ OnlyBook /\ Goto("open_activate")
    BY <1>3 DEF AdoptOpening, PutDossiers
  <2>2. doss \in Seq(RevisionRow) /\ Revised(book[c].scenes[s].doss, doss)
    <3>1. book[c].scenes[s].doss \in Seq(RevisionRow)
      BY <1>1, RowTypes
    <3> QED BY <3>1, DossierRows, Adopts
  <2> HIDE DEF doss
  <2>3. /\ Sound(book, book') /\ Calm(book, book')
        /\ book'[c].st = book[c].st /\ book'[c].plans = book[c].plans
        /\ DOMAIN book'[c].scenes = DOMAIN book[c].scenes
        /\ \A u \in DOMAIN book[c].scenes :
             /\ book'[c].scenes[u].st = book[c].scenes[u].st
             /\ book'[c].scenes[u].gates = book[c].scenes[u].gates
    BY <1>1, <2>1, <2>2, DossierSound
  <2> QED BY <1>1, <2>1, <2>3, OpeningGoes DEF Opening
<1> QED BY <1>2, <1>3

LEMMA ActivateSceneKeeps == ASSUME StoryIInv, ActivateScene PROVE Kept
<1> DEFINE c == job.c
           s == job.s
<1>1. /\ BookOk(book) /\ job \in JobRec /\ c \in DOMAIN book /\ s \in DOMAIN book[c].scenes
      /\ book[c].st # "CLOSED" /\ InTurn(book[c]) /\ book \in Seq(ChapterRec)
      /\ job.back \in Aheads /\ LabelOk(book, commits, job.back, job)
      /\ job.op \in {"advance", "submit"} => ThreadOn(book)
  BY Facts DEF ActivateScene, Opening, AtScene
<1>2. CASE Refused
  BY <1>2, Refuses
<1>3. CASE ~Refused
  <2>1. /\ book[c].scenes[s].st = "PLANNED" /\ ~Over(book[c])
        /\ book' = PutSceneStatus(book, c, s, "ACTIVE") /\ OnlyBook /\ Goto(job.back)
    BY <1>3 DEF ActivateScene, PutSceneStatus, Over, Scenes
  <2>2. /\ Sound(book, book') /\ Calm(book, book') /\ book'[c].scenes[s].st = "ACTIVE"
        /\ \A u \in DOMAIN book[c].scenes :
             book'[c].scenes[u].gates = book[c].scenes[u].gates
    BY <1>1, <2>1, StatusSound
  <2>3. job' \in JobRec /\ job'.pc = job.back /\ SameJob(job, job')
    BY <1>1, <2>1, GotosSame DEF Labels, Aheads
  <2>4. LabelOk(book', commits, job.back, job')
    BY <1>1, <2>2, <2>3, AheadStays DEF AtScene, Sound
  <2>5. job.op \in {"advance", "submit"} => ThreadOn(book')
    BY <1>1, <2>2, ThreadStays
  <2>6. JobOk(book', commits, job')
    BY <1>1, <2>2, <2>3, <2>4, <2>5 DEF JobOk, Aheads, Opening, SameJob
  <2> QED BY <2>1, <2>2, <2>6, Writes
<1> QED BY <1>2, <1>3

-----------------------------------------------------------------------------
(* Gates and rulings.                                                                 *)

\* Only the label, what is pending and the blueprint have changed.
RunsOn(j, j2) ==
    /\ j2.op = j.op /\ j2.c = j.c /\ j2.s = j.s /\ j2.g = j.g /\ j2.k = j.k
    /\ j2.beats = j.beats /\ j2.back = j.back /\ j2.home = j.home
    /\ j2.todo = j.todo /\ j2.pend \in {j.pend, j.g}

LEMMA BackOn ==
  ASSUME NEW b, NEW new, BookKept(b, new), NEW j, NEW j2, RunsOn(j, j2), AtGate(b, j), Back(b, j)
  PROVE  AtGate(new, j2) /\ Back(new, j2)
<1>1. AtGate(new, j2)
  BY KnownStays DEF AtGate, RunsOn
<1>2. RunOk(b, j) => RunOk(new, j2)
  <2>1. AtScene(b, j) => AtScene(new, j2)
    BY KnownStays DEF AtScene, RunsOn
  <2>2. \A g : Known(b, j.c, j.s, g) => Known(new, j2.c, j2.s, g)
    BY KnownStays DEF RunsOn
  <2>3. j2.pend = 0 \/ Known(new, j2.c, j2.s, j2.pend) \/ ~RunOk(b, j)
    BY <1>1, <2>2 DEF RunOk, RunsOn, AtGate
  <2> QED BY <2>1, <2>2, <2>3 DEF RunOk, RunsOn
<1>3. TodoOk(b, j) => TodoOk(new, j2)
  <2> DEFINE j3 == [j2 EXCEPT !.pend = j.pend]
  <2>1. \A x : ItemOk(b, x) => ItemOk(new, x)
    <3> TAKE x
    <3>1. /\ x[2] \in DOMAIN b => x[2] \in DOMAIN new
          /\ Known(b, x[2], x[3], x[4]) =>
                /\ Known(new, x[2], x[3], x[4])
                /\ GateKept(b[x[2]].scenes[x[3]].gates[x[4]], new[x[2]].scenes[x[3]].gates[x[4]])
      BY KnownStays
    <3>2. x[1] = 2 => x[1] # 4
      OBVIOUS
    <3> QED BY <3>1, <3>2, Zenon DEF ItemOk, GateKept
  <2> QED BY <2>1 DEF TodoOk, RunsOn
<1>4. HomeOk(b, j) => HomeOk(new, j2)
  BY KnownStays DEF HomeOk, RunsOn
<1> QED BY <1>1, <1>2, <1>3, <1>4 DEF Back, RunsOn

\* A ruling or a replan hands back to what asked for it.
LEMMA Returns ==
  ASSUME NEW b, NEW new, BookKept(b, new), NEW log, NEW j, NEW j2 \in JobRec, RunsOn(j, j2),
         AtGate(b, j), Back(b, j), j.op \in {"advance", "submit"} => ThreadOn(new),
         j2.pc = j.back
  PROVE  JobOk(new, log, j2)
<1>1. AtGate(new, j2) /\ Back(new, j2) /\ j2.back = j2.pc /\ j2.op = j.op
  BY BackOn DEF RunsOn
<1> QED BY <1>1 DEF Back, JobOk, LabelOk, Opening

LEMMA GateGoes ==
  ASSUME StoryIInv, AtGate(book, job), Back(book, job), NEW new, BookKept(book, new),
         job.op \in {"advance", "submit"} => ThreadOn(new),
         NEW pc \in {"g_resolve", "g_commit"}, Goto(pc),
         pc = "g_resolve" => GateOf(new, job).st = "ANSWERED"
  PROVE  JobOk(new, commits, job')
<1>1. job' \in JobRec /\ job'.pc = pc /\ SameJob(job, job')
  BY Facts, GotosSame DEF Labels
<1>2. RunsOn(job, job')
  BY <1>1 DEF SameJob, RunsOn
<1>3. AtGate(new, job') /\ Back(new, job')
  BY <1>2, BackOn
<1>4. GateOf(new, job') = GateOf(new, job)
  BY <1>1 DEF GateOf, SameJob
<1> QED BY <1>1, <1>3, <1>4 DEF JobOk, LabelOk, Opening, SameJob

\* A gate moves towards its ruling.
LEMMA GateWaits ==
  ASSUME NEW b, BookOk(b), NEW c, NEW s, NEW g, Known(b, c, s, g),
         b[c].scenes[s].gates[g].st \in {"OPEN", "ANSWERED"}, NEW gt \in GateRec,
         gt.st \in {"ANSWERED", "RESOLVING"}, gt.rp = b[c].scenes[s].gates[g].rp,
         b[c].scenes[s].gates[g].st = "ANSWERED" => gt.sub = b[c].scenes[s].gates[g].sub,
         NEW new, new = PutGate(b, c, s, g, gt)
  PROVE  Sound(b, new) /\ Calm(b, new) /\ SameBut(b, new, c, s, g, gt)
<1> DEFINE old == b[c].scenes[s].gates[g]
<1>1. /\ c \in DOMAIN b /\ s \in DOMAIN b[c].scenes /\ g \in DOMAIN b[c].scenes[s].gates
      /\ old \in GateRec /\ GateOk(b[c].plans, b[c].scenes[s].doss, Over(b[c]), old)
  <2>1. c \in DOMAIN b /\ s \in DOMAIN b[c].scenes /\ g \in DOMAIN b[c].scenes[s].gates
    BY DEF Known
  <2> QED BY <2>1, RowTypes DEF SceneOk
<1>2. old.st # "CLOSED" /\ ~Ruled(old) /\ ~Over(b[c]) /\ b[c].st # "CLOSED"
  BY <1>1 DEF GateOk, Ruled, Over
<1>3. GateOk(b[c].plans, b[c].scenes[s].doss, Over(b[c]), gt)
  BY <1>1, <1>2 DEF GateOk, Ruled
<1>4. GateKept(old, gt)
  BY <1>1, <1>2 DEF GateKept, GateOk
<1>5. Sound(b, new) /\ Calm(b, new) /\ SameBut(b, new, c, s, g, gt)
  BY <1>1, <1>2, <1>3, <1>4, GateWrites
<1> QED BY <1>5

LEMMA SubmitGateKeeps == ASSUME StoryIInv, SubmitGate PROVE Kept
<1> DEFINE gt == book[job.c].scenes[job.s].gates[job.g]
           ans == Answered(gt, job.sub)
<1>1. /\ BookOk(book) /\ job \in JobRec /\ AtGate(book, job) /\ Back(book, job)
      /\ book \in Seq(ChapterRec)
      /\ job.op \in {"advance", "submit"} => ThreadOn(book)
  BY Facts DEF SubmitGate, LabelOk, Opening
<1>2. CASE Refused
  BY <1>2, Refuses
<1>3. CASE Durable /\ Goto(IF gt.st = "ANSWERED" THEN "g_resolve" ELSE "g_commit")
  <2>1. BookKept(book, book)
    BY <1>1, NothingMoves DEF Sound
  <2>2. JobOk(book, commits, job')
    <3>1. CASE gt.st = "ANSWERED"
      BY <1>1, <1>3, <2>1, <3>1, GateGoes DEF GateOf
    <3>2. CASE gt.st # "ANSWERED"
      BY <1>1, <1>3, <2>1, <3>2, GateGoes
    <3> QED BY <3>1, <3>2
  <2> QED BY <1>3, <2>2, Stutters DEF Durable
<1>4. CASE /\ gt.st = "OPEN" /\ OnlyBook /\ Goto("g_resolve")
           /\ book' = PutGate(book, job.c, job.s, job.g, ans)
  <2>1. job.sub \in Submissions \cup {"none"} /\ Known(book, job.c, job.s, job.g)
    BY <1>1 DEF JobRec, AtGate
  <2>2. /\ Sound(book, book') /\ Calm(book, book')
        /\ book'[job.c].scenes[job.s].gates[job.g] = ans
    <3>1. gt \in GateRec
      BY <1>1, <2>1, RowTypes DEF Known
    <3>2. ans \in GateRec /\ ans.st = "ANSWERED" /\ ans.rp = gt.rp
      BY <2>1, <3>1 DEF Answered, GateRec, GateStatus
    <3> HIDE DEF ans
    <3>3. /\ book[job.c].scenes[job.s].gates[job.g].st \in {"OPEN", "ANSWERED"}
          /\ ans.st \in {"ANSWERED", "RESOLVING"}
          /\ ans.rp = book[job.c].scenes[job.s].gates[job.g].rp
          /\ book[job.c].scenes[job.s].gates[job.g].st = "ANSWERED" =>
               ans.sub = book[job.c].scenes[job.s].gates[job.g].sub
      BY <1>4, <3>2
    <3>4. BookOk(book) /\ book' = PutGate(book, job.c, job.s, job.g, ans)
      BY <1>1, <1>4
    <3>5. Sound(book, book') /\ Calm(book, book') /\ SameBut(book, book', job.c, job.s, job.g, ans)
      <4> HIDE DEF gt
      <4> QED BY <2>1, <3>2, <3>3, <3>4, GateWaits, Zenon
    <3> QED BY <2>1, <3>5 DEF SameBut, Known
  <2>3. GateOf(book', job).st = "ANSWERED"
    <3>1. gt \in GateRec
      BY <1>1, <2>1, RowTypes DEF Known
    <3> QED BY <2>2, <3>1 DEF GateOf, Answered, GateRec
  <2>4. job.op \in {"advance", "submit"} => ThreadOn(book')
    BY <1>1, <2>2, ThreadStays
  <2>5. JobOk(book', commits, job')
    BY <1>1, <1>4, <2>2, <2>3, <2>4, GateGoes DEF Sound
  <2> QED BY <1>4, <2>2, <2>5, Writes
<1>5. \/ Refused
      \/ Durable /\ Goto(IF gt.st = "ANSWERED" THEN "g_resolve" ELSE "g_commit")
      \/ /\ gt.st = "OPEN" /\ OnlyBook /\ Goto("g_resolve")
         /\ book' = PutGate(book, job.c, job.s, job.g, ans)
  <2>1. CASE gt.st # "OPEN" /\ gt.sub = job.sub
    BY <2>1 DEF SubmitGate, Gate, Scenes
  <2>2. CASE gt.st = "OPEN"
    <3>1. OnlyBook /\ Goto("g_resolve")
      BY <2>2 DEF SubmitGate, Gate, Scenes
    <3>2. book' = PutGate(book, job.c, job.s, job.g, ans)
      BY <2>2 DEF SubmitGate, PutGate, Gate, Scenes
    <3> QED BY <2>2, <3>1, <3>2
  <2>3. CASE gt.st # "OPEN" /\ gt.sub # job.sub
    BY <2>3 DEF SubmitGate, Gate, Scenes
  <2> QED BY <2>1, <2>2, <2>3
<1> QED BY <1>2, <1>3, <1>4, <1>5

LEMMA BeginResolvingKeeps == ASSUME StoryIInv, BeginResolving PROVE Kept
<1> DEFINE gt == [GateOf(book, job) EXCEPT !.st = "RESOLVING"]
<1>1. /\ BookOk(book) /\ job \in JobRec /\ AtGate(book, job) /\ Back(book, job)
      /\ GateOf(book, job).st = "ANSWERED"
      /\ book \in Seq(ChapterRec)
      /\ job.op \in {"advance", "submit"} => ThreadOn(book)
  BY Facts DEF BeginResolving, LabelOk, Opening
<1>2. book' = PutGate(book, job.c, job.s, job.g, gt) /\ OnlyBook /\ Goto("g_commit")
  BY DEF BeginResolving, PutGate, GateOf
<1>3. Sound(book, book') /\ Calm(book, book')
  <2>1. Known(book, job.c, job.s, job.g) /\ GateOf(book, job) \in GateRec
    BY <1>1, RowTypes DEF AtGate, Known, GateOf
  <2>2. /\ gt \in GateRec /\ gt.st = "RESOLVING" /\ gt.rp = GateOf(book, job).rp
        /\ gt.sub = GateOf(book, job).sub
    BY <2>1 DEF GateRec, GateStatus
  <2> HIDE DEF gt
  <2>3. /\ book[job.c].scenes[job.s].gates[job.g].st \in {"OPEN", "ANSWERED"}
        /\ gt.st \in {"ANSWERED", "RESOLVING"}
        /\ gt.rp = book[job.c].scenes[job.s].gates[job.g].rp
        /\ book[job.c].scenes[job.s].gates[job.g].st = "ANSWERED" =>
             gt.sub = book[job.c].scenes[job.s].gates[job.g].sub
    BY <1>1, <2>2 DEF GateOf
  <2>4. BookOk(book) /\ book' = PutGate(book, job.c, job.s, job.g, gt)
    BY <1>1, <1>2
  <2> QED BY <2>1, <2>2, <2>3, <2>4, GateWaits, Zenon
<1>4. job.op \in {"advance", "submit"} => ThreadOn(book')
  BY <1>1, <1>3, ThreadStays
<1>5. JobOk(book', commits, job')
  BY <1>1, <1>2, <1>3, <1>4, GateGoes DEF Sound
<1> QED BY <1>2, <1>3, <1>5, Writes

LEMMA AfterRulingOk ==
  ASSUME job \in JobRec, AtGate(book, job), Back(book, job), NEW new, NEW log,
         BookKept(book, new), job.op \in {"advance", "submit"} => ThreadOn(new),
         NEW scope, AfterRuling(scope), scope # "NONE" => GateOf(new, job).rp # "none"
  PROVE  JobOk(new, log, job')
<1> DEFINE pc == IF scope = "NONE" THEN job.back
                 ELSE IF job.op = "drive" THEN "consume" ELSE "replan"
<1>1. pc \in Labels
  BY DEF JobRec, Labels
<1>2. job' = [job EXCEPT !.pend = job.g, !.pc = pc]
  BY DEF AfterRuling
<1>3. job.g \in Nat
  BY DEF JobRec
<1> HIDE DEF pc
<1>4. job' \in JobRec /\ job'.pc = pc /\ RunsOn(job, job')
  BY <1>1, <1>2, <1>3 DEF JobRec, RunsOn
<1>5. AtGate(new, job') /\ Back(new, job') /\ job'.op = job.op /\ job'.back = job.back
      /\ GateOf(new, job') = GateOf(new, job)
  BY <1>4, BackOn DEF RunsOn, GateOf
<1>6. CASE scope = "NONE"
  BY <1>4, <1>6, Returns DEF pc
<1>7. CASE scope # "NONE" /\ job.op = "drive"
  <2>1. HomeOk(new, job')
    BY <1>5, <1>7 DEF Back
  <2> QED BY <1>4, <1>5, <1>7, <2>1 DEF pc, JobOk, LabelOk, Opening
<1>8. CASE scope # "NONE" /\ job.op # "drive"
  BY <1>4, <1>5, <1>8 DEF pc, JobOk, LabelOk, Opening
<1> QED BY <1>6, <1>7, <1>8

\* A landing is one more entry of the log and one more tick.
LEMMA Lands ==
  ASSUME StoryIInv, tick < MaxTick, tick' = tick + 1, host' = host, NEW m,
         commits' = Append(commits, m), TellsNext(book, book', m), Takes(m, tick),
         BookOk(book'), BookKept(book, book'), JobOk(book', commits', job')
  PROVE  Kept
<1>1. LogOk(book, commits, tick) /\ tick \in Nat /\ tick \in 0..MaxTick /\ host \in Hosts
  BY Facts DEF StoryIInv, StoryInv
<1>2. PICK S : commits \in Seq(S)
  BY <1>1 DEF LogOk
<1>3. LogOk(book', commits', tick + 1) /\ LogKept(commits, commits')
  BY <1>1, <1>2, LogLands
<1>4. tick' \in 0..MaxTick
  BY <1>1, StoryAssumption
<1> QED BY <1>1, <1>3, <1>4 DEF Kept

LEMMA AllowedRuns == ASSUME NEW c, ActivationAllowed(c) PROVE MayRun(book, c)
BY DEF ActivationAllowed, OverlapChapter, MayRun, Runs

LEMMA CommitActionKeeps == ASSUME StoryIInv, CommitAction PROVE Kept
<1> DEFINE c == job.c
           s == job.s
           g == job.g
<1>1. /\ BookOk(book) /\ job \in JobRec /\ AtGate(book, job) /\ Back(book, job)
      /\ book \in Seq(ChapterRec)
      /\ job.op \in {"advance", "submit"} => ThreadOn(book)
      /\ tick \in Nat
  BY Facts DEF CommitAction, LabelOk, Opening
<1>2. c \in DOMAIN book /\ s \in DOMAIN book[c].scenes /\ g \in DOMAIN book[c].scenes[s].gates
  BY <1>1 DEF AtGate, Known
<1>3. CASE Refused
  BY <1>3, Refuses
<1>4. CASE ReplayAction(c, s, g)
  <2>1. /\ Ruled(GateOf(book, job)) /\ Durable /\ AfterRuling(GateOf(book, job).scope)
    BY <1>4 DEF ReplayAction, Ruled, Gate, Scenes, GateOf
  <2>2. GateOf(book, job).scope # "NONE" => GateOf(book, job).rp # "none"
    <3>1. GateOk(book[c].plans, book[c].scenes[s].doss, Over(book[c]), GateOf(book, job))
      BY <1>1, <1>2, RowTypes DEF SceneOk, GateOf
    <3> QED BY <2>1, <3>1 DEF GateOk
  <2>3. BookKept(book, book)
    BY <1>1, NothingMoves DEF Sound
  <2>4. JobOk(book, commits, job')
    BY <1>1, <2>1, <2>2, <2>3, AfterRulingOk
  <2> QED BY <2>1, <2>4, Stutters DEF Durable
<1>5. ASSUME NEW scope \in Scopes, CommitRuling(c, s, g, scope), AfterRuling(scope)
      PROVE  Kept
  <2> DEFINE m == [kind |-> "ACTION", c |-> c, s |-> s, n |-> g, ref |-> 0, last |-> FALSE,
                   cast |-> Dossier(c, s).cast, from |-> tick, to |-> tick + 1]
  <2>1. /\ tick < MaxTick /\ tick' = tick + 1 /\ host' = host /\ commits' = Append(commits, m)
        /\ book[c].scenes[s].gates[g].st = "RESOLVING" /\ ActivationAllowed(c)
    BY <1>5 DEF CommitRuling, RulingAllowed, Gate, Scenes, Commit, AdvanceTick
  <2>2. book' = Activated(PutGate(book, c, s, g, Ruling(book[c].scenes[s].gates[g], scope)), c)
    BY <1>5 DEF CommitRuling, PutGate, Ruling
  <2>3. scope \in {"NONE", "SCENE", "CHAPTER"}
    BY StoryAssumption
  <2>4. m.c = c /\ m.s = s /\ m.n = g /\ m.kind = "ACTION" /\ Takes(m, tick)
    BY DEF Takes
  <2> HIDE DEF m
  <2>5. MayRun(book, c)
    BY <2>1, AllowedRuns
  <2>6. /\ BookOk(book') /\ BookKept(book, book') /\ Calm(book, book')
        /\ TellsNext(book, book', m)
        /\ scope # "NONE" => book'[c].scenes[s].gates[g].rp # "none"
    <3>1. /\ BookOk(book') /\ BookKept(book, book') /\ Calm(book, book')
          /\ \A x : x.c = c /\ x.s = s /\ x.n = g /\ x.kind = "ACTION" => TellsNext(book, book', x)
          /\ scope # "NONE" => book'[c].scenes[s].gates[g].rp # "none"
      BY <1>1, <1>2, <2>1, <2>2, <2>3, <2>5, RulingLands
    <3> QED BY <2>4, <3>1
  <2>7. job.op \in {"advance", "submit"} => ThreadOn(book')
    BY <1>1, <2>6, ThreadStays
  <2>8. JobOk(book', commits', job')
    BY <1>1, <1>5, <2>6, <2>7, AfterRulingOk DEF GateOf
  <2> QED BY <2>1, <2>4, <2>6, <2>8, Lands
<1> QED BY <1>3, <1>4, <1>5 DEF CommitAction

-----------------------------------------------------------------------------
(* Segments.                                                                          *)

LEMMA SegmentKeeps ==
  ASSUME StoryIInv, NEW c \in DOMAIN book, NEW s \in DOMAIN book[c].scenes, NEW ref, NEW last,
         ref = 0 \/ ref \in DOMAIN book[c].scenes[s].gates,
         SegmentAllowed(c, s, ref), CommitSegment(c, s, ref, last),
         BookKept(book, book') /\ Calm(book, book') => JobOk(book', commits', job')
  PROVE  Kept
<1> DEFINE m == [kind |-> "SEGMENT", c |-> c, s |-> s, n |-> SegmentCount(c, s) + 1,
                 ref |-> ref, last |-> last, cast |-> Dossier(c, s).cast,
                 from |-> tick, to |-> tick + 1]
<1>1. /\ tick < MaxTick /\ tick' = tick + 1 /\ host' = host /\ commits' = Append(commits, m)
      /\ book' = Activated(EndScene(CloseGate(book, c, s, ref), c, s, last), c)
  BY DEF CommitSegment, Commit, AdvanceTick
<1>2. m.c = c /\ m.s = s /\ m.ref = ref /\ m.kind = "SEGMENT" /\ Takes(m, tick)
  BY DEF Takes
<1> HIDE DEF m
<1>3. book[c].scenes[s].st = "ACTIVE" /\ MayRun(book, c)
  BY AllowedRuns DEF SegmentAllowed, Scenes
<1>4. MayTell(book, c, s, ref)
  BY DEF SegmentAllowed, OutcomeRefAllowed, Standing, Gate, Scenes, MayTell, Ruled
<1>5. BookOk(book)
  BY Facts
<1>6. /\ BookOk(book') /\ BookKept(book, book') /\ Calm(book, book')
      /\ \A x : x.c = c /\ x.s = s /\ x.ref = ref /\ x.kind = "SEGMENT"
                  => TellsNext(book, book', x)
  BY <1>1, <1>3, <1>4, <1>5, SegmentLands
<1>7. TellsNext(book, book', m)
  BY <1>2, <1>6
<1> QED BY <1>1, <1>2, <1>6, <1>7, Lands

LEMMA DrivesOn ==
  ASSUME job \in JobRec, job.op = "drive", NEW b, NEW log,
         \/ job' = [job EXCEPT !.pc = "loop", !.n = @ + 1]
         \/ job' = [job EXCEPT !.pc = "loop", !.n = @ + 1, !.sub = "none"]
  PROVE  JobOk(b, log, job')
<1>1. job' \in JobRec /\ job'.pc = "loop" /\ job'.op = "drive"
  <2>1. job.n \in Nat
    BY DEF JobRec
  <2>2. PICK n \in Nat : n = job.n + 1
    BY <2>1
  <2>3. CASE job' = [job EXCEPT !.pc = "loop", !.n = n]
    BY <2>3 DEF JobRec, Labels
  <2>4. CASE job' = [job EXCEPT !.pc = "loop", !.n = n, !.sub = "none"]
    BY <2>4 DEF JobRec, Labels
  <2> QED BY <2>2, <2>3, <2>4
<1> QED BY <1>1 DEF JobOk, LabelOk, Opening

LEMMA LandContinuationKeeps == ASSUME StoryIInv, LandContinuation PROVE Kept
<1>1. job \in JobRec /\ AtGate(book, job) /\ job.op = "drive"
  BY Facts DEF LandContinuation, LabelOk, Opening
<1>2. CASE Refused
  BY <1>2, Refuses
<1>3. CASE /\ SegmentAllowed(job.c, job.s, job.g) /\ CommitSegment(job.c, job.s, job.g, FALSE)
           /\ job' = [job EXCEPT !.pc = "loop", !.n = @ + 1]
  <2>1. JobOk(book', commits', job')
    BY <1>1, <1>3, DrivesOn
  <2> QED BY <1>1, <1>3, <2>1, SegmentKeeps DEF AtGate, Known
<1> QED BY <1>2, <1>3 DEF LandContinuation

LEMMA BeatSegmentKeeps ==
  ASSUME StoryIInv, NEW pc, NEW ref, BeatSegment(pc, ref), AtScene(book, job), job.op = "drive",
         ref = 0 \/ ref \in DOMAIN book[job.c].scenes[job.s].gates
  PROVE  Kept
<1>1. job \in JobRec
  BY Facts
<1>2. CASE Refused
  BY <1>2, Refuses
<1>3. CASE /\ SegmentAllowed(job.c, job.s, ref) /\ CommitSegment(job.c, job.s, ref, FALSE)
           /\ Done \/ job' = [job EXCEPT !.pc = "loop", !.n = @ + 1, !.sub = "none"]
  <2>1. JobOk(book', commits', job')
    BY <1>1, <1>3, DrivesOn, NewJobOk DEF Done
  <2> QED BY <1>3, <2>1, SegmentKeeps DEF AtScene
<1> QED BY <1>2, <1>3 DEF BeatSegment

LEMMA BeatsKeep == ASSUME StoryIInv, WorldSegment \/ ReplySegment PROVE Kept
<1>1. CASE WorldSegment
  <2>1. AtScene(book, job) /\ job.op = "drive"
    BY <1>1, Facts DEF WorldSegment, BeatSegment, LabelOk, Opening
  <2> QED BY <1>1, <2>1, BeatSegmentKeeps DEF WorldSegment
<1>2. CASE ReplySegment
  <2>1. AtGate(book, job) /\ job.op = "drive"
    BY <1>2, Facts DEF ReplySegment, BeatSegment, LabelOk, Opening
  <2>2. AtScene(book, job) /\ job.g \in DOMAIN book[job.c].scenes[job.s].gates
    BY <2>1 DEF AtGate, Known, AtScene
  <2> QED BY <1>2, <2>1, <2>2, BeatSegmentKeeps DEF ReplySegment
<1> QED BY <1>1, <1>2

LEMMA ClosingSegmentKeeps == ASSUME StoryIInv, ClosingSegment PROVE Kept
<1>1. job \in JobRec /\ AtScene(book, job) /\ job.op = "settle"
  BY Facts DEF ClosingSegment, LabelOk, Opening
<1>2. CASE Refused
  BY <1>2, Refuses
<1>3. CASE /\ SegmentAllowed(job.c, job.s, 0) /\ CommitSegment(job.c, job.s, 0, TRUE)
           /\ Goto("ds_off")
  <2>1. job' \in JobRec /\ job'.pc = "ds_off" /\ job'.op = "settle" /\ job'.c = job.c /\ job'.s = job.s
    BY <1>1, <1>3, Gotos DEF Labels
  <2>2. BookKept(book, book') => JobOk(book', commits', job')
    <3>1. BookKept(book, book') => AtScene(book', job')
      BY <1>1, <2>1, KnownStays DEF AtScene
    <3> QED BY <2>1, <3>1 DEF JobOk, LabelOk, Opening
  <2> QED BY <1>1, <1>3, <2>2, SegmentKeeps DEF AtScene
<1> QED BY <1>2, <1>3 DEF ClosingSegment

LEMMA ResumeSegmentKeeps == ASSUME StoryIInv, ResumeSegment PROVE Kept
<1>1. job \in JobRec /\ AtGate(book, job) /\ job.op = "resume" /\ TodoOk(book, job)
  BY Facts DEF ResumeSegment, LabelOk, Opening
<1>2. CASE Refused
  BY <1>2, Refuses
<1>3. CASE /\ SegmentAllowed(job.c, job.s, job.g) /\ CommitSegment(job.c, job.s, job.g, FALSE)
           /\ Goto("resume")
  <2>1. job' \in JobRec /\ job'.pc = "resume" /\ SameJob(job, job')
    BY <1>1, <1>3, GotosSame DEF Labels
  <2>2. BookKept(book, book') => JobOk(book', commits', job')
    <3>1. BookKept(book, book') => TodoOk(book', job')
      BY <1>1, <2>1, BackStays DEF SameJob
    <3> QED BY <1>1, <2>1, <3>1 DEF JobOk, LabelOk, Opening, SameJob
  <2> QED BY <1>1, <1>3, <2>2, SegmentKeeps DEF AtGate, Known
<1> QED BY <1>2, <1>3 DEF ResumeSegment

-----------------------------------------------------------------------------
(* Events, settling, recovery, deaths.                                                *)

LEMMA EventsKeep == ASSUME StoryIInv, WorldEvent \/ OffstageEvent PROVE Kept
<1>1. CASE WorldEvent
  <2>1. job \in JobRec /\ AtScene(book, job) /\ job.op = "drive"
    BY <1>1, Facts DEF WorldEvent, LabelOk, Opening
  <2>2. job' \in JobRec /\ job'.pc = "w_seg" /\ SameJob(job, job')
    BY <1>1, <2>1, GotosSame DEF WorldEvent, Labels
  <2>3. JobOk(book, commits, job')
    BY <2>1, <2>2 DEF JobOk, LabelOk, Opening, SameJob, AtScene
  <2> QED BY <1>1, <2>3, Stutters DEF WorldEvent
<1>2. CASE OffstageEvent
  <2>1. job \in JobRec /\ AtScene(book, job) /\ job.op = "settle"
    BY <1>2, Facts DEF OffstageEvent, LabelOk, Opening
  <2>2. job' \in JobRec /\ job'.pc = "flip" /\ SameJob(job, job')
    BY <1>2, <2>1, GotosSame DEF OffstageEvent, Labels
  <2>3. JobOk(book, commits, job')
    BY <2>1, <2>2 DEF JobOk, LabelOk, Opening, SameJob, AtScene
  <2> QED BY <1>2, <2>3, Stutters DEF OffstageEvent
<1> QED BY <1>1, <1>2

\* What settles a chapter knows it still, and what it has yet to do.
Settles(b, j) == j.c \in DOMAIN b /\ (j.op = "settle" \/ (j.op = "resume" /\ TodoOk(b, j)))
LEMMA SettlesOn ==
  ASSUME job \in JobRec, Settles(book, job), NEW new, BookKept(book, new), Goto("settle")
  PROVE  JobOk(new, commits, job')
<1>1. job' \in JobRec /\ job'.pc = "settle" /\ SameJob(job, job')
  BY GotosSame DEF Labels
<1>2. TodoOk(book, job) => TodoOk(new, job')
  BY <1>1, BackStays DEF SameJob
<1>3. job'.c \in DOMAIN new
  BY <1>1 DEF SameJob, Settles, BookKept
<1> QED BY <1>1, <1>2, <1>3 DEF JobOk, LabelOk, Opening, SameJob, Settles

LEMMA FlipSettlingKeeps == ASSUME StoryIInv, FlipSettling PROVE Kept
<1>1. BookOk(book) /\ job \in JobRec /\ Settles(book, job)
  BY Facts DEF FlipSettling, LabelOk, Opening, Settles
<1>2. CASE Refused
  BY <1>2, Refuses
<1>3. CASE Durable /\ Goto("settle")
  <2>1. BookKept(book, book)
    BY <1>1, NothingMoves DEF Sound
  <2>2. JobOk(book, commits, job')
    BY <1>1, <1>3, <2>1, SettlesOn
  <2> QED BY <1>3, <2>2, Stutters DEF Durable
<1>4. CASE /\ book[job.c].st = "ACTIVE" /\ ~RunningStoryBlocker(job.c)
           /\ book' = PutStatus(book, job.c, "SETTLING") /\ OnlyBook /\ Goto("settle")
  <2>1. \A s \in DOMAIN book[job.c].scenes :
           /\ book[job.c].scenes[s].st # "ACTIVE"
           /\ \A g \in DOMAIN book[job.c].scenes[s].gates :
                /\ book[job.c].scenes[s].gates[g].st = "CLOSED"
                /\ book[job.c].scenes[s].gates[g].rp # "PENDING"
    BY <1>4 DEF RunningStoryBlocker, Standing, Gate, Scenes
  <2>2. Sound(book, book')
    BY <1>1, <1>4, <2>1, FlipSound DEF Settles
  <2>3. JobOk(book', commits, job')
    BY <1>1, <1>4, <2>2, SettlesOn DEF Sound
  <2> QED BY <1>4, <2>2, <2>3, Writes
<1> QED BY <1>2, <1>3, <1>4 DEF FlipSettling, PutStatus

LEMMA SettleChapterKeeps == ASSUME StoryIInv, SettleChapter PROVE Kept
<1>1. BookOk(book) /\ job \in JobRec /\ Settles(book, job)
  BY Facts DEF SettleChapter, LabelOk, Opening, Settles
<1>2. CASE Refused
  BY <1>2, Refuses
<1>3. CASE /\ book[job.c].st = "SETTLING" /\ OnlyBook
           /\ book' = PutChapter(book, job.c,
                                 [book[job.c] EXCEPT !.st = "CLOSED", !.settled = TRUE])
           /\ IF job.op = "resume" THEN Goto("resume") ELSE Done
  <2>1. Sound(book, book')
    BY <1>1, <1>3, CloseSound DEF Settles
  <2>2. CASE job.op # "resume"
    BY <1>3, <2>1, <2>2, NewJobOk, Writes DEF Done
  <2>3. CASE job.op = "resume"
    <3>1. job' \in JobRec /\ job'.pc = "resume" /\ SameJob(job, job')
      BY <1>1, <1>3, <2>3, GotosSame DEF Labels
    <3>2. TodoOk(book', job')
      BY <1>1, <2>1, <2>3, <3>1, BackStays DEF SameJob, Settles, Sound
    <3>3. JobOk(book', commits, job')
      BY <2>3, <3>1, <3>2 DEF JobOk, LabelOk, Opening, SameJob
    <3> QED BY <1>3, <2>1, <3>3, Writes
  <2> QED BY <2>2, <2>3
<1> QED BY <1>2, <1>3 DEF SettleChapter, PutChapter

LEMMA ResumeKeeps == ASSUME StoryIInv, Resume PROVE Kept
<1> DEFINE x == First(job.todo)
           at(pc) == job' = [job EXCEPT !.pc = pc, !.todo = @ \ {x}, !.back = "resume",
                                        !.c = x[2], !.s = x[3], !.g = x[4]]
<1>1. job \in JobRec /\ job.op = "resume" /\ TodoOk(book, job) /\ job.todo \in SUBSET WorkItems
  BY Facts DEF Resume, LabelOk, Opening, JobRec
<1>2. CASE job.todo = {}
  BY <1>2, Refuses DEF Resume
<1>3. CASE job.todo # {}
  <2>1. x \in job.todo
    BY <1>1, <1>3, FirstIsOne
  <2>2. \/ x[1] = 1 /\ Durable /\ at(IF Gate(x[2], x[3], x[4]).st = "ANSWERED" THEN "g_resolve" ELSE "g_commit")
        \/ x[1] = 2 /\ Durable /\ at("replan")
        \/ x[1] = 3 /\ Durable /\ at("resume_seg")
        \/ x[1] = 4 /\ Durable /\ at("flip")
        \/ Refused
    <3>1. x[1] \in 1..4
      BY <1>1, <2>1 DEF TodoOk, ItemOk
    <3>2. x[1] = 1 \/ x[1] = 2 \/ x[1] = 3 \/ x[1] = 4
      BY <3>1
    <3> HIDE DEF x
    <3>3. CASE x[1] = 1
      BY <1>3, <3>3 DEF Resume, x
    <3>4. CASE x[1] = 2
      BY <1>3, <3>4 DEF Resume, x
    <3>5. CASE x[1] = 3
      BY <1>3, <3>5 DEF Resume, x
    <3>6. CASE x[1] = 4
      BY <1>3, <3>6 DEF Resume, x
    <3> QED BY <3>2, <3>3, <3>4, <3>5, <3>6
  <2> HIDE DEF x
  <2>3. /\ x[2] \in Nat /\ x[3] \in Nat /\ x[4] \in Nat /\ ItemOk(book, x)
        /\ job.todo \ {x} \in SUBSET WorkItems
    BY <1>1, <2>1 DEF WorkItems, TodoOk
  <2>4. ASSUME Durable,
               NEW pc \in {"g_resolve", "g_commit", "replan", "resume_seg", "flip"}, at(pc),
               pc # "flip" => Known(book, x[2], x[3], x[4]),
               pc = "flip" => x[2] \in DOMAIN book,
               pc = "replan" => book[x[2]].scenes[x[3]].gates[x[4]].rp # "none",
               pc = "g_resolve" => book[x[2]].scenes[x[3]].gates[x[4]].st = "ANSWERED"
        PROVE  Kept
    <3>1. /\ job' \in JobRec /\ job'.pc = pc /\ job'.op = "resume" /\ job'.back = "resume"
          /\ job'.c = x[2] /\ job'.s = x[3] /\ job'.g = x[4] /\ job'.todo = job.todo \ {x}
      BY <1>1, <2>3, <2>4 DEF JobRec, Labels
    <3>2. TodoOk(book, job')
      BY <1>1, <3>1 DEF TodoOk
    <3>3. Back(book, job')
      BY <3>1, <3>2 DEF Back
    <3>4. pc # "flip" => AtGate(book, job')
      BY <2>4, <3>1 DEF AtGate
    <3>5. /\ pc = "replan" => GateOf(book, job').rp # "none"
          /\ pc = "g_resolve" => GateOf(book, job').st = "ANSWERED"
      BY <2>4, <3>1 DEF GateOf
    <3>6. JobOk(book, commits, job')
      BY <2>4, <3>1, <3>2, <3>3, <3>4, <3>5 DEF JobOk, LabelOk, Opening
    <3> QED BY <2>4, <3>6, Stutters DEF Durable
  <2>5. /\ x[1] # 4 => Known(book, x[2], x[3], x[4])
        /\ x[1] = 2 => book[x[2]].scenes[x[3]].gates[x[4]].rp # "none"
        /\ x[1] = 4 => x[2] \in DOMAIN book
    BY <2>3 DEF ItemOk
  <2>6. CASE x[1] = 1 /\ Durable
             /\ at(IF Gate(x[2], x[3], x[4]).st = "ANSWERED" THEN "g_resolve" ELSE "g_commit")
    <3>1. CASE Gate(x[2], x[3], x[4]).st = "ANSWERED"
      BY <2>4, <2>5, <2>6, <3>1 DEF Gate, Scenes
    <3>2. CASE Gate(x[2], x[3], x[4]).st # "ANSWERED"
      BY <2>4, <2>5, <2>6, <3>2
    <3> QED BY <3>1, <3>2
  <2>7. CASE x[1] = 2 /\ Durable /\ at("replan")
    BY <2>4, <2>5, <2>7
  <2>8. CASE x[1] = 3 /\ Durable /\ at("resume_seg")
    BY <2>4, <2>5, <2>8
  <2>9. CASE x[1] = 4 /\ Durable /\ at("flip")
    BY <2>4, <2>5, <2>9
  <2>10. CASE Refused
    BY <2>10, Refuses
  <2> QED BY <2>2, <2>6, <2>7, <2>8, <2>9, <2>10
<1> QED BY <1>2, <1>3

LEMMA DeathsKeep == ASSUME StoryIInv, OutOfTicks \/ Abort PROVE Kept
<1>1. CASE OutOfTicks
  BY <1>1, Refuses DEF OutOfTicks
<1>2. CASE Abort
  BY <1>2, NewJobOk, Stutters DEF Abort, Done
<1> QED BY <1>1, <1>2

-----------------------------------------------------------------------------
(* Replans.                                                                           *)

LEMMA PendingGate == ASSUME BookOk(book), AtGate(book, job), GateOf(book, job).rp = "PENDING"
  PROVE  /\ job.c \in DOMAIN book /\ job.s \in DOMAIN book[job.c].scenes
         /\ job.g \in DOMAIN book[job.c].scenes[job.s].gates
         /\ ~Over(book[job.c]) /\ book[job.c].st # "CLOSED"
         /\ Ruled(GateOf(book, job)) /\ GateOf(book, job).scope # "NONE"
         /\ GateOf(book, job) \in GateRec
         /\ GateOk(book[job.c].plans, book[job.c].scenes[job.s].doss, Over(book[job.c]), GateOf(book, job))
<1>1. /\ job.c \in DOMAIN book /\ job.s \in DOMAIN book[job.c].scenes
      /\ job.g \in DOMAIN book[job.c].scenes[job.s].gates
  BY DEF AtGate, Known
<1>2. /\ GateOf(book, job) \in GateRec
      /\ GateOk(book[job.c].plans, book[job.c].scenes[job.s].doss, Over(book[job.c]), GateOf(book, job))
  BY <1>1, RowTypes DEF GateOf, SceneOk
<1> QED BY <1>1, <1>2 DEF GateOk, Over

\* A claimed replan goes on to its next row.
LEMMA ReplanGoes ==
  ASSUME StoryIInv, AtGate(book, job), Back(book, job), OnlyBook, Sound(book, book'),
         Calm(book, book'), job' \in JobRec, RunsOn(job, job'),
         job'.pc \in {"r_dossier", "r_plan"}, job'.pc = "r_plan" => job'.bp \in Shapes,
         GateOf(book', job).rp = "PENDING", GateOf(book', job).target # 0,
         GateOf(book', job).scope = "SCENE" <=> job'.pc = "r_dossier"
  PROVE  Kept
<1>1. AtGate(book', job') /\ Back(book', job')
  BY BackOn DEF Sound
<1>2. GateOf(book', job') = GateOf(book', job) /\ job'.op = job.op
  BY DEF GateOf, RunsOn
<1>3. job.op \in {"advance", "submit"} => ThreadOn(book')
  BY Facts, ThreadStays
<1>4. JobOk(book', commits, job')
  BY <1>1, <1>2, <1>3 DEF JobOk, LabelOk, Opening
<1> QED BY <1>4, Writes

\* A replan in force has its scenes to set right, or its obligation to mark.
LEMMA ForceGoes ==
  ASSUME StoryIInv, AtGate(book, job), Back(book, job), OnlyBook, Sound(book, book'),
         Calm(book, book'), NEW pc \in {"r_mark", "reconcile"}, Goto(pc), InForce(book', job),
         ~Over(book'[job.c])
  PROVE  Kept
<1>1. job' \in JobRec /\ job'.pc = pc /\ SameJob(job, job')
  BY Facts, GotosSame DEF Labels
<1>2. AtGate(book', job') /\ Back(book', job')
  <2>1. RunsOn(job, job')
    BY <1>1 DEF SameJob, RunsOn
  <2> QED BY <2>1, BackOn DEF Sound
<1>3. /\ InForce(book', job') /\ job'.op = job.op /\ job'.back = job.back
      /\ GateOf(book', job').rp = "PENDING"
  BY <1>1 DEF InForce, AtGate, GateOf, SameJob
<1>4. MayPlan(book', job')
  BY <1>1, <1>2 DEF MayPlan, AtGate, Known, SameJob
<1>5. job.op \in {"advance", "submit"} => ThreadOn(book')
  BY Facts, ThreadStays
<1>6. JobOk(book', commits, job')
  BY <1>1, <1>2, <1>3, <1>4, <1>5 DEF JobOk, LabelOk, Opening
<1> QED BY <1>6, Writes

LEMMA ClaimOk ==
  ASSUME BookOk(book), AtGate(book, job), GateOf(book, job).rp = "PENDING",
         NEW r \in Nat, r # 0, ClaimReplanTarget(job.c, job.s, job.g, r)
  PROVE  /\ OnlyBook /\ Sound(book, book') /\ Calm(book, book')
         /\ GateOf(book', job).rp = "PENDING" /\ GateOf(book', job).target # 0
         /\ GateOf(book', job).scope = GateOf(book, job).scope
<1> DEFINE old == GateOf(book, job)
           gt == [old EXCEPT !.target = r]
           c == job.c
           s == job.s
           g == job.g
<1>1. /\ c \in DOMAIN book /\ s \in DOMAIN book[c].scenes /\ g \in DOMAIN book[c].scenes[s].gates
      /\ ~Over(book[c]) /\ book[c].st # "CLOSED" /\ old \in GateRec
      /\ GateOk(book[c].plans, book[c].scenes[s].doss, Over(book[c]), old)
  BY PendingGate
<1>2. CASE old.target # 0
  <2>1. Durable
    BY <1>2 DEF ClaimReplanTarget, Gate, Scenes, GateOf
  <2> QED BY <1>2, <2>1, NothingMoves DEF Durable, OnlyBook, GateOf
<1>3. CASE old.target = 0
  <2>1. OnlyBook /\ book' = PutGate(book, c, s, g, gt)
    BY <1>3 DEF ClaimReplanTarget, Gate, Scenes, GateOf, PutGate
  <2>2. /\ gt \in GateRec /\ gt.st = old.st /\ gt.sub = old.sub /\ gt.rp = "PENDING"
        /\ gt.scope = old.scope /\ gt.target = r
    BY <1>1 DEF GateRec
  <2> HIDE DEF gt
  <2>3. GateOk(book[c].plans, book[c].scenes[s].doss, Over(book[c]), gt)
    BY <1>1, <2>2 DEF GateOk, Ruled
  <2>4. GateKept(old, gt)
    BY <2>2 DEF GateKept
  <2>5. gt.st = "CLOSED" \/ old.st # "CLOSED"
    BY <2>2
  <2>6. Sound(book, book') /\ Calm(book, book') /\ SameBut(book, book', c, s, g, gt)
    BY <1>1, <2>1, <2>2, <2>3, <2>4, <2>5, GateWrites DEF GateOf
  <2>7. GateOf(book', job) = gt
    BY <1>1, <2>6 DEF SameBut, GateOf
  <2> QED BY <2>1, <2>2, <2>6, <2>7
<1> QED BY <1>2, <1>3

LEMMA ConsumeReplanKeeps == ASSUME StoryIInv, ConsumeReplan PROVE Kept
<1> DEFINE c == job.c
           s == job.s
           g == job.g
<1>1. /\ BookOk(book) /\ job \in JobRec /\ AtGate(book, job) /\ Back(book, job)
      /\ GateOf(book, job).rp # "none" /\ c \in DOMAIN book /\ s \in DOMAIN book[c].scenes
      /\ GateOf(book, job) \in GateRec
      /\ job.op \in {"advance", "submit"} => ThreadOn(book)
  <2>1. /\ BookOk(book) /\ job \in JobRec /\ AtGate(book, job) /\ Back(book, job)
        /\ GateOf(book, job).rp # "none"
        /\ job.op \in {"advance", "submit"} => ThreadOn(book)
    BY Facts DEF ConsumeReplan, LabelOk, Opening
  <2> QED BY <2>1, RowTypes DEF AtGate, Known, GateOf
<1>2. CASE Refused
  BY <1>2, Refuses
<1>3. CASE Durable /\ Goto(job.back)
  <2>1. job' \in JobRec /\ job'.pc = job.back /\ SameJob(job, job')
    BY <1>1, <1>3, GotosSame DEF JobRec
  <2>2. RunsOn(job, job') /\ BookKept(book, book)
    BY <1>1, <2>1, NothingMoves DEF SameJob, RunsOn, Sound
  <2>3. JobOk(book, commits, job')
    BY <1>1, <2>1, <2>2, Returns
  <2> QED BY <1>3, <2>3, Stutters DEF Durable
<1>4. ASSUME GateOf(book, job).rp # "APPLIED", GateOf(book, job).scope = "SCENE",
             SceneReplan(c, s, g), ~Refused
      PROVE  Kept
  <2>1. GateOf(book, job).rp = "PENDING"
    BY <1>1, <1>4 DEF GateRec
  <2> DEFINE r == Len(book[c].scenes[s].doss) + 1
  <2>2. ClaimReplanTarget(c, s, g, r) /\ Goto("r_dossier")
    BY <1>4 DEF SceneReplan, Scenes
  <2>3. r \in Nat /\ r # 0
    <3>1. book[c].scenes[s].doss \in Seq(RevisionRow)
      BY <1>1, RowTypes
    <3> QED BY <3>1
  <2> HIDE DEF r
  <2>4. /\ OnlyBook /\ Sound(book, book') /\ Calm(book, book')
        /\ GateOf(book', job).rp = "PENDING" /\ GateOf(book', job).target # 0
        /\ GateOf(book', job).scope = "SCENE"
    BY <1>1, <1>4, <2>1, <2>2, <2>3, ClaimOk
  <2>5. job' \in JobRec /\ job'.pc = "r_dossier" /\ RunsOn(job, job')
    <3>1. job' \in JobRec /\ job'.pc = "r_dossier" /\ SameJob(job, job')
      BY <1>1, <2>2, GotosSame DEF Labels
    <3> QED BY <3>1 DEF SameJob, RunsOn
  <2> QED BY <1>1, <2>4, <2>5, ReplanGoes
<1>5. ASSUME GateOf(book, job).rp # "APPLIED", GateOf(book, job).scope # "SCENE",
             ChapterReplan(c, s, g), ~Refused
      PROVE  Kept
  <2>1. GateOf(book, job).rp = "PENDING"
    BY <1>1, <1>5 DEF GateRec
  <2> DEFINE r == Len(book[c].plans)
             fresh(bp) == Fresh(Scenes(c), bp)
             els(bp) == Targets(Scenes(c), bp)
             to(bp) == IF PlanShapeMatches(c, r, bp, els(bp)) THEN r ELSE r + 1
  <2>2. PICK bp \in Blueprints :
          /\ els(bp) \subseteq 1..MaxScenes /\ ClaimReplanTarget(c, s, g, to(bp))
          /\ job' = [job EXCEPT !.pc = "r_plan", !.bp = bp, !.els = els(bp), !.fresh = fresh(bp)]
    BY <1>5 DEF ChapterReplan
  <2>3. to(bp) \in Nat /\ to(bp) # 0
    <3>1. r \in Nat
      BY <1>1, RowTypes
    <3>2. PlanShapeMatches(c, r, bp, els(bp)) => r > 0
      BY DEF PlanShapeMatches
    <3> HIDE DEF r, els
    <3> QED BY <3>1, <3>2
  <2>4. els(bp) \in SUBSET Nat /\ fresh(bp) \in SUBSET Nat
    <3>1. fresh(bp) \in SUBSET Nat
      BY <1>1, RowTypes, FreshIsNat DEF Scenes
    <3> HIDE DEF els, fresh
    <3> QED BY <2>2, <3>1, StoryAssumption
  <2> HIDE DEF to, els, fresh
  <2>5. /\ OnlyBook /\ Sound(book, book') /\ Calm(book, book')
        /\ GateOf(book', job).rp = "PENDING" /\ GateOf(book', job).target # 0
        /\ GateOf(book', job).scope # "SCENE"
    BY <1>1, <1>5, <2>1, <2>2, <2>3, ClaimOk
  <2>6. /\ job' \in JobRec /\ job'.pc = "r_plan" /\ job'.bp \in Shapes
        /\ RunsOn(job, job')
    BY <1>1, <2>2, <2>4 DEF JobRec, Labels, Shapes, RunsOn
  <2> QED BY <1>1, <2>5, <2>6, ReplanGoes
<1> QED BY <1>2, <1>3, <1>4, <1>5 DEF ConsumeReplan, Gate, Scenes, GateOf

LEMMA ReplanDossierKeeps == ASSUME StoryIInv, ReplanDossier PROVE Kept
<1> DEFINE c == job.c
           s == job.s
           t == GateOf(book, job).target
           doss == book[c].scenes[s].doss
<1>1. /\ BookOk(book) /\ job \in JobRec /\ AtGate(book, job) /\ Back(book, job)
      /\ GateOf(book, job).rp = "PENDING" /\ t # 0 /\ GateOf(book, job).scope = "SCENE"
      /\ tick \in 0..MaxTick
  BY Facts DEF ReplanDossier, LabelOk, Opening
<1>2. /\ c \in DOMAIN book /\ s \in DOMAIN book[c].scenes /\ ~Over(book[c])
      /\ book[c].st # "CLOSED" /\ t \in Nat
      /\ job.g \in DOMAIN book[c].scenes[s].gates
  BY <1>1, PendingGate DEF GateRec
<1>3. doss \in Seq(RevisionRow) /\ OneAdopted(doss)
  BY <1>1, <1>2, RowTypes DEF SceneOk
<1>4. ASSUME NEW revs \in Seq(RevisionRow), Revised(doss, revs),
             book' = PutDossiers(book, c, s, revs)
      PROVE  /\ Sound(book, book') /\ Calm(book, book') /\ ~Over(book'[c])
             /\ book'[c].scenes[s].doss = revs
             /\ GateOf(book', job) = GateOf(book, job) /\ AtGate(book', job)
  <2>1. /\ Sound(book, book') /\ Calm(book, book')
        /\ book'[c].st = book[c].st /\ book'[c].scenes[s].doss = revs
        /\ book'[c].scenes[s].gates = book[c].scenes[s].gates
    BY <1>1, <1>2, <1>4, DossierSound
  <2>2. AtGate(book', job)
    BY <1>1, <2>1, KnownStays DEF AtGate, Sound
  <2> QED BY <1>2, <2>1, <2>2 DEF Over, GateOf
<1>5. CASE Refused
  BY <1>5, Refuses
<1>6. CASE /\ OnlyBook /\ Goto("r_dossier")
           /\ \E cast \in Casts : book' = PutDossiers(book, c, s, Append(doss, DossierRow(cast)))
  <2>1. PICK cast \in Casts : book' = PutDossiers(book, c, s, Append(doss, DossierRow(cast)))
    BY <1>6
  <2> DEFINE row == DossierRow(cast)
             revs == Append(doss, row)
  <2>2. row \in RevisionRow /\ row.st = "PROPOSED"
    BY <1>1 DEF DossierRow, RevisionRow, RevisionStatus
  <2> HIDE DEF row
  <2>3. revs \in Seq(RevisionRow) /\ Revised(doss, revs)
    BY <1>3, <2>2, Proposes
  <2>4. book' = PutDossiers(book, c, s, revs)
    BY <2>1 DEF row
  <2> HIDE DEF revs, doss
  <2>5. Sound(book, book') /\ Calm(book, book') /\ GateOf(book', job) = GateOf(book, job)
    BY <1>4, <2>3, <2>4
  <2>6. job' \in JobRec /\ job'.pc = "r_dossier" /\ RunsOn(job, job')
    <3>1. job' \in JobRec /\ job'.pc = "r_dossier" /\ SameJob(job, job')
      BY <1>1, <1>6, GotosSame DEF Labels
    <3> QED BY <3>1 DEF SameJob, RunsOn
  <2> QED BY <1>1, <1>6, <2>5, <2>6, ReplanGoes
<1>7. CASE /\ t \in DOMAIN doss /\ book' = PutDossiers(book, c, s, AdoptRevision(doss, t))
           /\ OnlyBook /\ Goto("r_mark")
  <2> DEFINE revs == AdoptRevision(doss, t)
  <2>1. /\ revs \in Seq(RevisionRow) /\ Revised(doss, revs)
        /\ t \in DOMAIN revs /\ revs[t].st = "ADOPTED"
    BY <1>3, <1>7, DossierRows, Adopts
  <2>2. book' = PutDossiers(book, c, s, revs)
    BY <1>7
  <2> HIDE DEF revs, doss
  <2>3. /\ Sound(book, book') /\ Calm(book, book') /\ ~Over(book'[c])
        /\ book'[c].scenes[s].doss = revs
        /\ GateOf(book', job) = GateOf(book, job) /\ AtGate(book', job)
    BY <1>4, <2>1, <2>2
  <2>4. InForce(book', job)
    BY <1>1, <2>1, <2>3 DEF InForce, Landed
  <2> QED BY <1>1, <1>7, <2>3, <2>4, ForceGoes
<1>8. CASE t \in DOMAIN doss /\ doss[t].st = "ADOPTED" /\ Durable /\ Goto("r_mark")
  <2>1. Sound(book, book') /\ Calm(book, book') /\ OnlyBook
    BY <1>1, <1>8, NothingMoves DEF Durable, OnlyBook
  <2>2. InForce(book', job) /\ ~Over(book'[c])
    BY <1>1, <1>2, <1>8 DEF InForce, Landed, Durable, AtGate, GateOf
  <2> QED BY <1>1, <1>8, <2>1, <2>2, ForceGoes
<1>9. t > Len(doss) \/ t \in DOMAIN doss
  BY <1>1, <1>2, <1>3
<1>10. CASE t > Len(doss)
  BY <1>6, <1>10 DEF ReplanDossier, PutDossiers, Gate, Scenes, GateOf
<1>11. CASE ~(t > Len(doss)) /\ t \in DOMAIN doss
  <2>1. CASE doss[t].st = "PROPOSED"
    BY <1>7, <1>11, <2>1 DEF ReplanDossier, PutDossiers, Gate, Scenes, GateOf
  <2>2. CASE doss[t].st # "PROPOSED"
    BY <1>5, <1>8, <1>11, <2>2 DEF ReplanDossier, Gate, Scenes, GateOf
  <2> QED BY <2>1, <2>2
<1> QED BY <1>9, <1>10, <1>11

LEMMA ReplanPlanKeeps == ASSUME StoryIInv, ReplanPlan PROVE Kept
<1> DEFINE c == job.c
           s == job.s
           t == GateOf(book, job).target
           plans == book[c].plans
<1>1. /\ BookOk(book) /\ job \in JobRec /\ AtGate(book, job) /\ Back(book, job)
      /\ GateOf(book, job).rp = "PENDING" /\ t # 0 /\ GateOf(book, job).scope # "SCENE"
      /\ job.bp \in Shapes /\ job.els \in SUBSET Nat
  BY Facts DEF ReplanPlan, LabelOk, Opening, JobRec
<1>2. /\ c \in DOMAIN book /\ s \in DOMAIN book[c].scenes /\ ~Over(book[c])
      /\ book[c].st # "CLOSED" /\ t \in Nat
      /\ job.g \in DOMAIN book[c].scenes[s].gates
  BY <1>1, PendingGate DEF GateRec
<1>3. plans \in Seq(PlanRec) /\ OneAdopted(plans)
  BY <1>1, <1>2, RowTypes DEF ChapterOk
<1>4. ASSUME NEW revs \in Seq(PlanRec), Revised(plans, revs), book' = PutPlans(book, c, revs)
      PROVE  /\ Sound(book, book') /\ Calm(book, book') /\ ~Over(book'[c])
             /\ book'[c].plans = revs
             /\ GateOf(book', job) = GateOf(book, job) /\ AtGate(book', job)
  <2>1. /\ Sound(book, book') /\ Calm(book, book')
        /\ book'[c].st = book[c].st /\ book'[c].plans = revs
        /\ book'[c].scenes = book[c].scenes
    BY <1>1, <1>2, <1>4, PlansSound
  <2>2. AtGate(book', job)
    BY <1>1, <2>1, KnownStays DEF AtGate, Sound
  <2> QED BY <1>2, <2>1, <2>2 DEF Over, GateOf
<1>5. CASE Refused
  BY <1>5, Refuses
<1>6. CASE /\ OnlyBook /\ Goto("r_plan")
           /\ book' = PutPlans(book, c, Append(plans, PlanRow(job.bp, job.els)))
  <2> DEFINE row == PlanRow(job.bp, job.els)
             revs == Append(plans, row)
  <2>1. row \in PlanRec /\ row.st = "PROPOSED"
    BY <1>1 DEF PlanRow, PlanRec, RevisionStatus
  <2> HIDE DEF row
  <2>2. revs \in Seq(PlanRec) /\ Revised(plans, revs)
    BY <1>3, <2>1, Proposes
  <2>3. book' = PutPlans(book, c, revs)
    BY <1>6 DEF row
  <2> HIDE DEF revs, plans
  <2>4. Sound(book, book') /\ Calm(book, book') /\ GateOf(book', job) = GateOf(book, job)
    BY <1>4, <2>2, <2>3
  <2>5. job' \in JobRec /\ job'.pc = "r_plan" /\ RunsOn(job, job') /\ job'.bp = job.bp
    <3>1. job' \in JobRec /\ job'.pc = "r_plan" /\ SameJob(job, job')
      BY <1>1, <1>6, GotosSame DEF Labels
    <3> QED BY <3>1 DEF SameJob, RunsOn
  <2> QED BY <1>1, <1>6, <2>4, <2>5, ReplanGoes
<1>7. CASE /\ t \in DOMAIN plans /\ book' = PutPlans(book, c, AdoptRevision(plans, t))
           /\ OnlyBook /\ Goto("reconcile")
  <2> DEFINE revs == AdoptRevision(plans, t)
  <2>1. /\ revs \in Seq(PlanRec) /\ Revised(plans, revs)
        /\ t \in DOMAIN revs /\ revs[t].st = "ADOPTED"
    BY <1>3, <1>7, PlanRows, Adopts
  <2>2. book' = PutPlans(book, c, revs)
    BY <1>7
  <2> HIDE DEF revs, plans
  <2>3. /\ Sound(book, book') /\ Calm(book, book') /\ ~Over(book'[c])
        /\ book'[c].plans = revs
        /\ GateOf(book', job) = GateOf(book, job) /\ AtGate(book', job)
    BY <1>4, <2>1, <2>2
  <2>4. InForce(book', job)
    BY <1>1, <2>1, <2>3 DEF InForce, Landed
  <2> QED BY <1>1, <1>7, <2>3, <2>4, ForceGoes
<1>8. CASE t \in DOMAIN plans /\ plans[t].st = "ADOPTED" /\ Durable /\ Goto("reconcile")
  <2>1. Sound(book, book') /\ Calm(book, book') /\ OnlyBook
    BY <1>1, <1>8, NothingMoves DEF Durable, OnlyBook
  <2>2. InForce(book', job) /\ ~Over(book'[c])
    BY <1>1, <1>2, <1>8 DEF InForce, Landed, Durable, AtGate, GateOf
  <2> QED BY <1>1, <1>8, <2>1, <2>2, ForceGoes
<1>9. t > Len(plans) \/ t \in DOMAIN plans
  BY <1>1, <1>2, <1>3
<1>10. CASE t > Len(plans)
  BY <1>6, <1>10 DEF ReplanPlan, PutPlans, Gate, Scenes, GateOf
<1>11. CASE ~(t > Len(plans)) /\ t \in DOMAIN plans
  <2>1. CASE plans[t].st = "PROPOSED"
    BY <1>7, <1>11, <2>1 DEF ReplanPlan, PutPlans, Gate, Scenes, GateOf
  <2>2. CASE plans[t].st # "PROPOSED"
    BY <1>5, <1>8, <1>11, <2>2 DEF ReplanPlan, Gate, Scenes, GateOf
  <2> QED BY <2>1, <2>2
<1> QED BY <1>9, <1>10, <1>11

LEMMA MarkReplanAppliedKeeps == ASSUME StoryIInv, MarkReplanApplied PROVE Kept
<1> DEFINE old == GateOf(book, job)
           gt == [old EXCEPT !.rp = "APPLIED"]
           c == job.c
           s == job.s
           g == job.g
<1>1. /\ BookOk(book) /\ job \in JobRec /\ AtGate(book, job) /\ Back(book, job)
      /\ InForce(book, job) /\ book \in Seq(ChapterRec)
      /\ job.op \in {"advance", "submit"} => ThreadOn(book)
  BY Facts DEF MarkReplanApplied, LabelOk, Opening
<1>2. /\ c \in DOMAIN book /\ s \in DOMAIN book[c].scenes /\ g \in DOMAIN book[c].scenes[s].gates
      /\ ~Over(book[c]) /\ book[c].st # "CLOSED" /\ old \in GateRec /\ Ruled(old)
      /\ old.scope # "NONE" /\ old.rp = "PENDING"
      /\ Landed(book[c].plans, book[c].scenes[s].doss, old)
      /\ GateOk(book[c].plans, book[c].scenes[s].doss, Over(book[c]), old)
  BY <1>1, PendingGate DEF InForce
<1>3. book' = PutGate(book, c, s, g, gt) /\ OnlyBook /\ Goto(job.back)
  BY DEF MarkReplanApplied, PutGate, GateOf
<1>4. /\ gt \in GateRec /\ gt.st = old.st /\ gt.sub = old.sub /\ gt.rp = "APPLIED"
      /\ gt.scope = old.scope /\ gt.target = old.target
  BY <1>2 DEF GateRec
<1> HIDE DEF gt
<1>5. GateOk(book[c].plans, book[c].scenes[s].doss, Over(book[c]), gt)
  BY <1>2, <1>4 DEF GateOk, Ruled, Landed
<1>6. GateKept(old, gt)
  BY <1>2, <1>4 DEF GateKept
<1>7. Sound(book, book') /\ Calm(book, book')
  <2>1. gt.st = "CLOSED" \/ old.st # "CLOSED"
    BY <1>4
  <2> QED BY <1>1, <1>2, <1>3, <1>4, <1>5, <1>6, <2>1, GateWrites DEF GateOf
<1>8. job' \in JobRec /\ job'.pc = job.back /\ RunsOn(job, job')
  <2>1. job' \in JobRec /\ job'.pc = job.back /\ SameJob(job, job')
    BY <1>1, <1>3, GotosSame DEF JobRec
  <2> QED BY <2>1 DEF SameJob, RunsOn
<1>9. JobOk(book', commits, job')
  <2>1. job.op \in {"advance", "submit"} => ThreadOn(book')
    BY <1>1, <1>7, ThreadStays
  <2> QED BY <1>1, <1>7, <1>8, <2>1, Returns DEF Sound
<1> QED BY <1>3, <1>7, <1>9, Writes

\* The rows a work list is made of.
LEMMA PlacesAre == ASSUME NEW p \in Places
  PROVE  Known(book, p[1], p[2], p[3]) /\ p[1] \in Nat /\ p[2] \in Nat /\ p[3] \in Nat
<1>1. p \in (1..MaxChapters) \X (1..MaxScenes) \X (1..MaxGates)
  BY DEF Places
<1>2. {MaxChapters, MaxScenes, MaxGates} \subseteq Nat
  BY StoryAssumption
<1>3. p[1] \in 1..MaxChapters /\ p[2] \in 1..MaxScenes /\ p[3] \in 1..MaxGates
  BY <1>1
<1>4. p[1] \in Nat /\ p[2] \in Nat /\ p[3] \in Nat
  BY <1>2, <1>3
<1> QED BY <1>4 DEF Places, Known, Scenes

LEMMA MovesTo ==
  ASSUME job \in JobRec, NEW pc \in Labels, NEW back \in Labels,
         NEW c \in Nat, NEW s \in Nat, NEW g \in Nat,
         job' = [job EXCEPT !.pc = pc, !.c = c, !.s = s, !.g = g, !.back = back]
  PROVE  /\ job' \in JobRec /\ job'.pc = pc /\ job'.op = job.op /\ job'.back = back
         /\ job'.c = c /\ job'.s = s /\ job'.g = g /\ job'.home = job.home
BY DEF JobRec

LEMMA ConsumePendingKeeps == ASSUME StoryIInv, ConsumePending PROVE Kept
<1> DEFINE todo == {<<2, p[1], p[2], p[3]>> : p \in {q \in Places : Gate(q[1], q[2], q[3]).rp = "PENDING"}}
           x == First(todo)
<1>1. job \in JobRec /\ job.op = "drive" /\ HomeOk(book, job)
  BY Facts DEF ConsumePending, LabelOk, Opening
<1>2. /\ Durable
      /\ IF todo = {}
         THEN job' = [job EXCEPT !.pc = "rp_seg", !.c = job.home[1], !.s = job.home[2],
                                 !.g = job.home[3], !.back = "rp_seg"]
         ELSE job' = [job EXCEPT !.pc = "replan", !.c = x[2], !.s = x[3], !.g = x[4],
                                 !.back = "consume"]
  BY DEF ConsumePending, GatesAt, IsPending
<1>3. CASE todo = {}
  <2>1. job.home[1] \in Nat /\ job.home[2] \in Nat /\ job.home[3] \in Nat
    BY <1>1 DEF JobRec
  <2>2. /\ job' \in JobRec /\ job'.pc = "rp_seg" /\ job'.op = "drive"
        /\ job'.c = job.home[1] /\ job'.s = job.home[2] /\ job'.g = job.home[3]
    <3>1. job' = [job EXCEPT !.pc = "rp_seg", !.c = job.home[1], !.s = job.home[2],
                             !.g = job.home[3], !.back = "rp_seg"]
      BY <1>2, <1>3
    <3>2. "rp_seg" \in Labels
      BY DEF Labels
    <3>3. job \in JobRec /\ job.op = "drive"
      BY <1>1
    <3>4. /\ job' \in JobRec /\ job'.pc = "rp_seg" /\ job'.op = job.op
          /\ job'.c = job.home[1] /\ job'.s = job.home[2] /\ job'.g = job.home[3]
      <4> DEFINE c == job.home[1]
                 s == job.home[2]
                 g == job.home[3]
      <4>1. c \in Nat /\ s \in Nat /\ g \in Nat
        BY <2>1
      <4>2. job' = [job EXCEPT !.pc = "rp_seg", !.c = c, !.s = s, !.g = g, !.back = "rp_seg"]
        BY <3>1
      <4> HIDE DEF c, s, g
      <4>3. /\ job' \in JobRec /\ job'.pc = "rp_seg" /\ job'.op = job.op
            /\ job'.c = c /\ job'.s = s /\ job'.g = g
        BY <3>2, <3>3, <4>1, <4>2, MovesTo, Zenon
      <4> QED BY <4>3 DEF c, s, g
    <3> QED BY <3>3, <3>4
  <2>3. AtGate(book, job')
    BY <1>1, <2>2 DEF AtGate, HomeOk
  <2>4. JobOk(book, commits, job')
    BY <2>2, <2>3 DEF JobOk, LabelOk, Opening
  <2> QED BY <1>2, <2>4, Stutters DEF Durable
<1>4. CASE todo # {}
  <2>1. ASSUME NEW y \in todo
        PROVE  /\ y \in WorkItems /\ Known(book, y[2], y[3], y[4])
               /\ book[y[2]].scenes[y[3]].gates[y[4]].rp = "PENDING"
    <3>1. PICK p \in Places : Gate(p[1], p[2], p[3]).rp = "PENDING" /\ y = <<2, p[1], p[2], p[3]>>
      OBVIOUS
    <3>2. y[2] = p[1] /\ y[3] = p[2] /\ y[4] = p[3]
      BY <3>1
    <3> QED BY <3>1, <3>2, PlacesAre DEF WorkItems, Gate, Scenes
  <2>2. x \in todo
    <3> HIDE DEF todo
    <3>1. todo \in SUBSET WorkItems
      BY <2>1
    <3> QED BY <1>4, <3>1, FirstIsOne
  <2> HIDE DEF x, todo
  <2>3. /\ x[2] \in Nat /\ x[3] \in Nat /\ x[4] \in Nat /\ Known(book, x[2], x[3], x[4])
        /\ book[x[2]].scenes[x[3]].gates[x[4]].rp = "PENDING"
    BY <2>1, <2>2 DEF WorkItems
  <2>4. /\ job' \in JobRec /\ job'.pc = "replan" /\ job'.op = "drive" /\ job'.back = "consume"
        /\ job'.c = x[2] /\ job'.s = x[3] /\ job'.g = x[4] /\ job'.home = job.home
    <3>1. job' = [job EXCEPT !.pc = "replan", !.c = x[2], !.s = x[3], !.g = x[4],
                             !.back = "consume"]
      BY <1>2, <1>4
    <3>2. "replan" \in Labels /\ "consume" \in Labels
      BY DEF Labels
    <3>3. job \in JobRec /\ job.op = "drive"
      BY <1>1
    <3>4. /\ job' \in JobRec /\ job'.pc = "replan" /\ job'.op = job.op /\ job'.back = "consume"
          /\ job'.c = x[2] /\ job'.s = x[3] /\ job'.g = x[4] /\ job'.home = job.home
      BY <2>3, <3>1, <3>2, <3>3, MovesTo, Zenon
    <3> QED BY <3>3, <3>4
  <2>5. AtGate(book, job') /\ Back(book, job') /\ GateOf(book, job').rp # "none"
    BY <1>1, <2>3, <2>4 DEF AtGate, Back, GateOf, HomeOk
  <2>6. JobOk(book, commits, job')
    BY <2>4, <2>5 DEF JobOk, LabelOk, Opening
  <2> QED BY <1>2, <2>6, Stutters DEF Durable
<1> QED BY <1>3, <1>4

-----------------------------------------------------------------------------
(* Taking up a scene: the one that runs, or the next of those in turn.                *)

LEMMA CurrentIs ==
  ASSUME BookOk(book), NEW c \in DOMAIN book, NEW S \in SUBSET DOMAIN book[c].scenes,
         CurrentScene(c, S) # 0
  PROVE  /\ CurrentScene(c, S) \in S
         /\ book[c].scenes[CurrentScene(c, S)].st = "PLANNED" =>
              \A t \in S : book[c].scenes[t].st # "ACTIVE"
<1> DEFINE act == {s \in S : book[c].scenes[s].st = "ACTIVE"}
           pln == {s \in S : book[c].scenes[s].st = "PLANNED"}
           first(T) == CHOOSE s \in T : \A t \in T : s <= t
<1>1. act \in SUBSET Nat /\ pln \in SUBSET Nat
  BY RowTypes
<1>2. ASSUME NEW T \in SUBSET Nat, T # {} PROVE first(T) \in T
  BY <1>2, Least
<1>3. CurrentScene(c, S) = IF act # {} THEN first(act) ELSE IF pln # {} THEN first(pln) ELSE 0
  BY DEF CurrentScene, Scenes
<1> HIDE DEF first
<1>4. CASE act # {}
  <2>1. CurrentScene(c, S) \in act
    BY <1>1, <1>2, <1>3, <1>4
  <2> QED BY <2>1
<1>5. CASE act = {}
  <2>1. CurrentScene(c, S) \in pln
    BY <1>1, <1>2, <1>3, <1>5
  <2> QED BY <1>5, <2>1
<1> QED BY <1>4, <1>5

\* The scene a drive takes up: of the plan for the reading face, of the chapter for
\* the dual-seat one.
LEMMA CurrentInTurn ==
  ASSUME BookOk(book), NEW c \in DOMAIN book, NEW S, S = Roster(c) \/ S = DOMAIN Scenes(c),
         NEW s, s = CurrentScene(c, S), s # 0
  PROVE  /\ s \in DOMAIN book[c].scenes /\ s \in Nat
         /\ book[c].scenes[s].st = "PLANNED" => InTurn(book[c])
<1>1. S \in SUBSET DOMAIN book[c].scenes
  BY DEF Roster, Scenes
<1>2. s \in S /\ (book[c].scenes[s].st = "PLANNED" => \A t \in S : book[c].scenes[t].st # "ACTIVE")
  BY <1>1, CurrentIs
<1>3. s \in DOMAIN book[c].scenes /\ s \in Nat
  BY <1>1, <1>2, RowTypes
<1>4. ASSUME book[c].scenes[s].st = "PLANNED" PROVE InTurn(book[c])
  <2>1. CASE S = DOMAIN Scenes(c)
    BY <1>2, <1>4, <2>1 DEF InTurn, Scenes
  <2>2. CASE S = Roster(c)
    <3>1. HasPlan(c)
      BY <1>2, <2>2 DEF Roster
    <3>2. \A t \in DOMAIN book[c].scenes :
            book[c].scenes[t].st = "ACTIVE" /\ t \in book[c].plans[Adopted(book[c].plans)].els
              => t \in S
      BY <2>2, <3>1 DEF Roster, Plan, Scenes
    <3> QED BY <1>2, <1>4, <3>2 DEF InTurn
  <2> QED BY <2>1, <2>2
<1> QED BY <1>3, <1>4

\* On to what the job was built for, through an opening when the scene waits for one.
LEMMA EnsureKeeps ==
  ASSUME StoryIInv, NEW j \in JobRec, j.pc \in Aheads, LabelOk(book, commits, j.pc, j),
         AtScene(book, j), j.op \in {"advance", "submit"} => ThreadOn(book),
         book[j.c].scenes[j.s].st = "PLANNED" => InTurn(book[j.c]) /\ book[j.c].st # "CLOSED",
         EnsureOpen(j.c, j.s, j)
  PROVE  Kept
<1> DEFINE j2 == [j EXCEPT !.pc = "open", !.back = j.pc]
<1>1. CASE Refused
  BY <1>1, Refuses
<1>2. CASE Durable /\ job' = j /\ book[j.c].scenes[j.s].st = "ACTIVE"
  <2>1. JobOk(book, commits, j)
    BY <1>2 DEF JobOk, Opening, Aheads
  <2> QED BY <1>2, <2>1, Stutters DEF Durable
<1>3. CASE Durable /\ job' = j2 /\ book[j.c].scenes[j.s].st = "PLANNED"
  <2>1. /\ j2 \in JobRec /\ j2.pc = "open" /\ j2.back = j.pc /\ j2.op = j.op /\ j2.c = j.c
        /\ j2.s = j.s /\ j2.k = j.k /\ j2.pend = j.pend /\ j2.beats = j.beats
    <3>1. PICK pc \in Labels : pc = j.pc
      BY DEF Labels, Aheads
    <3>2. j2 = [j EXCEPT !.pc = "open", !.back = pc] /\ "open" \in Labels
      BY <3>1 DEF Labels
    <3> HIDE DEF j2
    <3> QED BY <3>1, <3>2 DEF JobRec
  <2> HIDE DEF j2
  <2>2. /\ AtScene(book, j2) /\ (RunOk(book, j) => RunOk(book, j2))
        /\ GateDue(book, commits, j) => GateDue(book, commits, j2)
        /\ GateReached(book, commits, j) => GateReached(book, commits, j2)
    <3>1. AtScene(book, j2)
      BY <2>1 DEF AtScene
    <3>2. RunOk(book, j) => RunOk(book, j2)
      BY <2>1 DEF RunOk, AtScene
    <3>3. GateDue(book, commits, j) => GateDue(book, commits, j2)
      BY <2>1 DEF GateDue
    <3>4. GateReached(book, commits, j) => GateReached(book, commits, j2)
      BY <2>1 DEF GateReached
    <3> QED BY <3>1, <3>2, <3>3, <3>4
  <2>3. LabelOk(book, commits, j2.back, j2)
    BY <2>1, <2>2 DEF LabelOk, Aheads
  <2>4. JobOk(book, commits, j2)
    BY <1>3, <2>1, <2>2, <2>3 DEF JobOk, Opening, Aheads
  <2> QED BY <1>3, <2>4, Stutters DEF Durable
<1> QED BY <1>1, <1>2, <1>3 DEF EnsureOpen, Scenes

LEMMA LastIs == ASSUME BookOk(book), book # <<>> PROVE Last \in DOMAIN book /\ Last \in Nat
BY DEF BookOk, Last

LEMMA DualSettleKeeps == ASSUME StoryIInv, DualSettle PROVE Kept
<1> DEFINE c == Last
           s == CurrentScene(c, DOMAIN Scenes(c))
           pc == IF /\ s # 0 /\ Scenes(c)[s].st = "ACTIVE" /\ Segments(c, s) # <<>>
                 THEN "ds_seg" ELSE "ds_off"
           j == [job EXCEPT !.c = c, !.s = s, !.pc = pc]
<1>1. BookOk(book) /\ job \in JobRec /\ book # <<>> /\ job.op = "settle"
  BY Facts DEF DualSettle, LabelOk, Opening
<1>2. CASE Refused
  BY <1>2, Refuses
<1>3. CASE s # 0 /\ book[c].st # "CLOSED" /\ EnsureOpen(c, s, j)
  <2>1. c \in DOMAIN book /\ c \in Nat
    BY <1>1, LastIs
  <2>2. /\ s \in DOMAIN book[c].scenes /\ s \in Nat
        /\ book[c].scenes[s].st = "PLANNED" => InTurn(book[c])
    BY <1>1, <1>3, <2>1, CurrentInTurn
  <2>3. pc \in {"ds_seg", "ds_off"}
    OBVIOUS
  <2> HIDE DEF pc, c, s
  <2>4. j \in JobRec /\ j.pc = pc /\ j.op = "settle" /\ j.c = c /\ j.s = s
    BY <1>1, <2>1, <2>2, <2>3 DEF JobRec, Labels
  <2> HIDE DEF j
  <2>5. AtScene(book, j)
    BY <2>1, <2>2, <2>4 DEF AtScene
  <2>6. LabelOk(book, commits, j.pc, j) /\ j.pc \in Aheads
    BY <2>3, <2>4, <2>5 DEF LabelOk, Aheads
  <2> QED BY <1>3, <2>2, <2>4, <2>5, <2>6, EnsureKeeps
<1> QED BY <1>2, <1>3 DEF DualSettle

LEMMA DriveLoopKeeps == ASSUME StoryIInv, DriveLoop PROVE Kept
<1> DEFINE c == Last
           s == CurrentScene(c, DOMAIN Scenes(c))
           owed == ContinuationOwed(c, s)
           g == CHOOSE x \in owed : TRUE
           pc == IF job.sub = "none" THEN "w_event" ELSE "rp_gate"
           j == [job EXCEPT !.c = c, !.s = s, !.pc = pc]
           j2 == [job EXCEPT !.pc = "cont_seg", !.c = c, !.s = s, !.g = g]
<1>1. BookOk(book) /\ job \in JobRec /\ job.op = "drive"
  BY Facts DEF DriveLoop, LabelOk, Opening
<1>2. CASE Refused
  BY <1>2, Refuses
<1>3. ASSUME book # <<>>, book[c].st \in {"PLANNED", "ACTIVE"}, s # 0 
      PROVE  /\ c \in DOMAIN book /\ c \in Nat /\ s \in DOMAIN book[c].scenes /\ s \in Nat
             /\ book[c].scenes[s].st = "PLANNED" => InTurn(book[c])
  <2>1. c \in DOMAIN book /\ c \in Nat
    BY <1>1, <1>3, LastIs
  <2>2. /\ s \in DOMAIN book[c].scenes /\ s \in Nat
        /\ book[c].scenes[s].st = "PLANNED" => InTurn(book[c])
    BY <1>1, <1>3, <2>1, CurrentInTurn
  <2> QED BY <2>1, <2>2
<1>4. CASE /\ book # <<>> /\ book[c].st \in {"PLANNED", "ACTIVE"} /\ s # 0
           /\ owed # {} /\ Durable /\ job' = j2
  <2>1. g \in owed
    BY <1>4
  <2>2. g \in DOMAIN book[c].scenes[s].gates
    BY <2>1 DEF ContinuationOwed, Standing, Scenes
  <2>3. g \in Nat
    BY <1>1, <1>3, <1>4, <2>2, RowTypes
  <2> HIDE DEF g, c, s
  <2>4. j2 \in JobRec /\ j2.pc = "cont_seg" /\ j2.op = "drive" /\ j2.c = c /\ j2.s = s /\ j2.g = g
    BY <1>1, <1>3, <1>4, <2>3 DEF JobRec, Labels
  <2> HIDE DEF j2
  <2>5. AtGate(book, j2)
    BY <1>3, <1>4, <2>2, <2>4 DEF AtGate, Known
  <2>6. JobOk(book, commits, j2)
    BY <2>4, <2>5 DEF JobOk, LabelOk, Opening
  <2> QED BY <1>4, <2>6, Stutters DEF Durable
<1>5. CASE /\ book # <<>> /\ book[c].st \in {"PLANNED", "ACTIVE"} /\ s # 0
           /\ EnsureOpen(c, s, j)
  <2>1. pc \in {"w_event", "rp_gate"}
    OBVIOUS
  <2> HIDE DEF pc, c, s
  <2>2. j \in JobRec /\ j.pc = pc /\ j.op = "drive" /\ j.c = c /\ j.s = s
    BY <1>1, <1>3, <1>5, <2>1 DEF JobRec, Labels
  <2> HIDE DEF j
  <2>3. AtScene(book, j)
    BY <1>3, <1>5, <2>2 DEF AtScene
  <2>4. LabelOk(book, commits, j.pc, j) /\ j.pc \in Aheads
    BY <2>1, <2>2, <2>3 DEF LabelOk, Aheads
  <2> QED BY <1>3, <1>5, <2>2, <2>3, <2>4, EnsureKeeps
<1> QED BY <1>2, <1>4, <1>5 DEF DriveLoop

-----------------------------------------------------------------------------
(* The requests.                                                                      *)

LEMMA Begins ==
  ASSUME NEW op \in Ops, NEW pc \in Labels, NEW c \in Nat, NEW s \in Nat, Begin(op, pc, c, s)
  PROVE  /\ job' \in JobRec /\ job'.pc = pc /\ job'.op = op /\ job'.c = c /\ job'.s = s
         /\ job'.back = "idle"
<1>1. NewJob \in JobRec /\ NewJob.back = "idle"
  BY NewJobOk DEF NewJob
<1>2. job' = [NewJob EXCEPT !.op = op, !.pc = pc, !.c = c, !.s = s]
  BY DEF Begin
<1> QED BY <1>1, <1>2 DEF JobRec

LEMMA PlanningKeeps ==
  ASSUME StoryIInv, Start \/ DualStart \/ NextChapter \/ PlanChapter \/ ReviseChapter
  PROVE  Kept
<1>1. Durable /\ BookOk(book)
  BY Facts DEF Start, DualStart, NextChapter, PlanChapter, ReviseChapter, Free
<1>2. CASE Begin("plan", "plan", 0, 0) \/ Begin("plan", "situation", 0, 0)
  <2>1. /\ job' \in JobRec /\ job'.pc \in {"plan", "situation"} /\ job'.op = "plan"
        /\ job'.back = "idle"
    BY <1>2, Begins DEF Ops, Labels
  <2>2. JobOk(book, commits, job')
    BY <2>1 DEF JobOk, LabelOk, Opening
  <2> QED BY <1>1, <2>2, Stutters DEF Durable
<1>3. CASE \E c \in DOMAIN book :
             book[c].st \in {"PLANNED", "ACTIVE"} /\ Begin("revise", "revise", c, 0)
  <2>1. PICK c \in DOMAIN book :
             book[c].st \in {"PLANNED", "ACTIVE"} /\ Begin("revise", "revise", c, 0)
    BY <1>3
  <2>2. c \in Nat
    BY <1>1, RowTypes
  <2>3. /\ job' \in JobRec /\ job'.pc = "revise" /\ job'.op = "revise" /\ job'.c = c
        /\ job'.back = "idle"
    BY <2>1, <2>2, Begins DEF Ops, Labels
  <2>4. MayPlan(book, job')
    BY <2>1, <2>3 DEF MayPlan, Over
  <2>5. JobOk(book, commits, job')
    BY <2>3, <2>4 DEF JobOk, LabelOk, Opening
  <2> QED BY <1>1, <2>5, Stutters DEF Durable
<1> QED BY <1>2, <1>3 DEF Start, DualStart, NextChapter, PlanChapter, ReviseChapter

LEMMA SettlingKeeps == ASSUME StoryIInv, Settle \/ DualSettleRequest PROVE Kept
<1>1. Durable /\ BookOk(book) /\ book # <<>>
  BY Facts DEF Settle, DualSettleRequest, Free
<1>2. Last \in DOMAIN book /\ Last \in Nat
  BY <1>1, LastIs
<1>3. PICK pc \in {"flip", "ds_settle"} : Begin("settle", pc, Last, 0)
  BY DEF Settle, DualSettleRequest
<1>4. job' \in JobRec /\ job'.pc = pc /\ job'.op = "settle" /\ job'.c = Last
  BY <1>2, <1>3, Begins DEF Ops, Labels
<1>5. JobOk(book, commits, job')
  BY <1>1, <1>2, <1>4 DEF JobOk, LabelOk, Opening
<1> QED BY <1>1, <1>5, Stutters DEF Durable

LEMMA DrivingKeeps == ASSUME StoryIInv, Advance \/ DualDrive PROVE Kept
<1>1. Durable /\ BookOk(book) /\ book # <<>> /\ NewJob \in JobRec
  BY Facts, NewJobOk DEF Advance, DualDrive, Free
<1>2. CASE Advance
  <2>1. PICK end \in BOOLEAN : job' = [NewJob EXCEPT !.op = "advance", !.pc = "press", !.last = end]
    BY <1>2 DEF Advance
  <2>2. job' \in JobRec /\ job'.pc = "press" /\ job'.op = "advance"
    BY <1>1, <2>1 DEF JobRec, Ops, Labels
  <2>3. ThreadOn(book)
    BY <1>1, <1>2 DEF Advance, ThreadOn, Last
  <2>4. JobOk(book, commits, job')
    BY <2>2, <2>3 DEF JobOk, LabelOk, Opening
  <2> QED BY <1>1, <2>4, Stutters DEF Durable
<1>3. CASE DualDrive
  <2>1. PICK sub \in Submissions \cup {"none"} :
          job' = [NewJob EXCEPT !.op = "drive", !.pc = "loop", !.sub = sub]
    BY <1>3 DEF DualDrive
  <2>2. job' \in JobRec /\ job'.pc = "loop" /\ job'.op = "drive"
    BY <1>1, <2>1 DEF JobRec, Ops, Labels
  <2>3. JobOk(book, commits, job')
    BY <2>2 DEF JobOk, LabelOk, Opening
  <2> QED BY <1>1, <2>3, Stutters DEF Durable
<1> QED BY <1>2, <1>3

LEMMA ResumeRequestKeeps == ASSUME StoryIInv, ResumeRequest PROVE Kept
<1> DEFINE todo == RecoveryScan
<1>1. Durable /\ BookOk(book) /\ NewJob \in JobRec
  BY Facts, NewJobOk DEF ResumeRequest, Free
<1>2. ASSUME NEW x \in todo PROVE x \in WorkItems /\ ItemOk(book, x)
  <2>1. CASE \E i \in {1, 2, 3} : \E p \in Places :
               x = <<i, p[1], p[2], p[3]>> /\ (i = 2 => Gate(p[1], p[2], p[3]).rp = "PENDING")
    <3>1. PICK i \in {1, 2, 3}, p \in Places :
               x = <<i, p[1], p[2], p[3]>> /\ (i = 2 => Gate(p[1], p[2], p[3]).rp = "PENDING")
      BY <2>1
    <3>2. x[1] = i /\ x[2] = p[1] /\ x[3] = p[2] /\ x[4] = p[3]
      BY <3>1
    <3>3. Known(book, x[2], x[3], x[4]) /\ x[2] \in Nat /\ x[3] \in Nat /\ x[4] \in Nat
      BY <3>2, PlacesAre
    <3>4. x \in WorkItems
      BY <3>1, <3>2, <3>3 DEF WorkItems
    <3>5. x[1] = 2 => book[x[2]].scenes[x[3]].gates[x[4]].rp # "none"
      BY <3>1, <3>2 DEF Gate, Scenes
    <3>6. x[1] \in 1..4 /\ x[1] # 4
      BY <3>2
    <3> QED BY <3>3, <3>4, <3>5, <3>6 DEF ItemOk
  <2>2. CASE \E d \in DOMAIN book : x = <<4, d, 0, 0>>
    <3>1. PICK d \in DOMAIN book : x = <<4, d, 0, 0>>
      BY <2>2
    <3>2. x[1] = 4 /\ x[2] = d /\ d \in Nat
      BY <1>1, <3>1, RowTypes
    <3>3. x \in WorkItems
      BY <3>1, <3>2 DEF WorkItems
    <3> QED BY <3>2, <3>3 DEF ItemOk
  <2> QED BY <2>1, <2>2 DEF RecoveryScan, GatesAt, IsPending
<1> HIDE DEF todo
<1>3. todo \in SUBSET WorkItems /\ \A x \in todo : ItemOk(book, x)
  BY <1>2
<1>4. job' = [NewJob EXCEPT !.op = "resume", !.pc = "resume", !.todo = todo]
  BY DEF ResumeRequest, todo
<1>5. job' \in JobRec /\ job'.pc = "resume" /\ job'.op = "resume" /\ job'.todo = todo
  BY <1>1, <1>3, <1>4 DEF JobRec, Ops, Labels
<1>6. TodoOk(book, job')
  BY <1>3, <1>5 DEF TodoOk
<1>7. JobOk(book, commits, job')
  BY <1>5, <1>6 DEF JobOk, LabelOk, Opening
<1> QED BY <1>1, <1>7, Stutters DEF Durable

-----------------------------------------------------------------------------
(* The script of a scene, and where its walk stands.                                  *)

LEMMA CountIs == ASSUME NEW k \in Nat, NEW x
  PROVE  /\ Count(k, x) \in Nat
         /\ k # 0 => Count(k, x) = Count(k - 1, x) + (IF Beats[k] = x THEN 1 ELSE 0)
         /\ \A i \in 0..k : (\A h \in (i + 1)..k : Beats[h] # x) => Count(k, x) = Count(i, x)
         /\ Count(0, x) = 0
<1> DEFINE B(n) == {i \in 1..n : Beats[i] = x}
<1>1. \A n \in Nat : IsFiniteSet(B(n)) /\ Cardinality(B(n)) = Count(n, x)
  <2> TAKE n \in Nat
  <2>1. IsFiniteSet(1..n)
    BY FS_Interval
  <2>2. B(n) \in SUBSET (1..n)
    OBVIOUS
  <2>3. IsFiniteSet(B(n))
    BY <2>1, <2>2, FS_Subset
  <2> QED BY <2>3 DEF Count
<1>2. Count(k, x) \in Nat
  BY <1>1, FS_CardinalityType
<1>3. ASSUME k # 0 PROVE Count(k, x) = Count(k - 1, x) + (IF Beats[k] = x THEN 1 ELSE 0)
  <2>1. k - 1 \in Nat /\ k \notin B(k - 1)
    BY <1>3
  <2>2. CASE Beats[k] = x
    <3>1. B(k) = B(k - 1) \cup {k}
      BY <1>3, <2>2
    <3> HIDE DEF B
    <3> QED BY <1>1, <2>1, <2>2, <3>1, FS_AddElement
  <2>3. CASE Beats[k] # x
    <3>1. B(k) = B(k - 1)
      BY <1>3, <2>3
    <3>2. Count(k, x) = Count(k - 1, x) /\ Count(k - 1, x) \in Nat
      <4> HIDE DEF B
      <4> QED BY <1>1, <2>1, <3>1, FS_CardinalityType
    <3> QED BY <2>3, <3>2
  <2> QED BY <2>2, <2>3
<1>4. ASSUME NEW i \in 0..k, \A h \in (i + 1)..k : Beats[h] # x
      PROVE  Count(k, x) = Count(i, x)
  <2>1. B(k) = B(i)
    BY <1>4
  <2> QED BY <2>1 DEF Count
<1>5. Count(0, x) = 0
  <2>1. {i \in 1..0 : Beats[i] = x} = {}
    OBVIOUS
  <2> QED BY <2>1, FS_EmptySet DEF Count
<1> QED BY <1>2, <1>3, <1>4, <1>5

LEMMA BeatsAre ==
  /\ Len(Beats) \in Nat /\ DOMAIN Beats = 1..Len(Beats)
  /\ \A k \in DOMAIN Beats : Beats[k] \in {"S", "G"} /\ k \in Nat \ {0}
  /\ Beats # <<>> => Len(Beats) \in DOMAIN Beats /\ Beats[Len(Beats)] = "S"
BY StoryAssumption

LEMMA SegCountIsNat == ASSUME NEW log, NEW S, log \in Seq(S), NEW c, NEW s
  PROVE  SegCount(log, c, s) \in Nat
<1>1. IsFiniteSet(DOMAIN log)
  BY FS_Interval
<1> DEFINE T == {i \in DOMAIN log : log[i].c = c /\ log[i].s = s /\ log[i].kind = "SEGMENT"}
<1>2. IsFiniteSet(T)
  BY <1>1, FS_Subset
<1> QED BY <1>2, FS_CardinalityType DEF SegCount

\* The walk of a scene stands at its first beat that has not landed.
LEMMA WalkIs ==
  ASSUME NEW c, NEW s
  PROVE  /\ WalkAt(c, s) \in Nat
         /\ \A i \in DOMAIN Beats : BeatSettled(c, s, i) =
               Settled(book[c].scenes[s].gates, SegCount(commits, c, s), i)
         /\ WalkAt(c, s) # 0 =>
              /\ WalkAt(c, s) \in DOMAIN Beats
              /\ ~Settled(book[c].scenes[s].gates, SegCount(commits, c, s), WalkAt(c, s))
              /\ \A i \in 1..(WalkAt(c, s) - 1) :
                   i \in DOMAIN Beats /\ Settled(book[c].scenes[s].gates, SegCount(commits, c, s), i)
         /\ \A k : NextIsGate(book[c].scenes[s].gates, SegCount(commits, c, s), k)
                     => k = WalkAt(c, s)
<1> DEFINE n == SegCount(commits, c, s)
           gates == book[c].scenes[s].gates
           open == {k \in DOMAIN Beats : ~Settled(gates, n, k)}
<1>1. \A i \in DOMAIN Beats : BeatSettled(c, s, i) = Settled(gates, n, i)
  BY DEF BeatSettled, Settled, SegmentCount, SegCount, Scenes, Gate
<1> HIDE DEF n, gates
<1>2. WalkAt(c, s) = IF open = {} THEN 0 ELSE CHOOSE k \in open : \A i \in open : k <= i
  <2> DEFINE left == {k \in DOMAIN Beats : ~BeatSettled(c, s, k)}
  <2>1. WalkAt(c, s) = IF left = {} THEN 0 ELSE CHOOSE k \in left : \A i \in left : k <= i
    BY DEF WalkAt
  <2>2. left = open
    BY <1>1
  <2> HIDE DEF left, open
  <2> QED BY <2>1, <2>2
<1>3. open \in SUBSET Nat
  BY BeatsAre
<1>4. CASE open = {}
  BY <1>1, <1>2, <1>4 DEF NextIsGate, n, gates
<1>5. CASE open # {}
  <2>1. WalkAt(c, s) \in open /\ \A i \in open : WalkAt(c, s) <= i
    BY <1>2, <1>3, <1>5, Least
  <2>2. WalkAt(c, s) \in DOMAIN Beats /\ WalkAt(c, s) \in Nat /\ ~Settled(gates, n, WalkAt(c, s))
    BY <2>1, BeatsAre
  <2>3. ASSUME NEW i \in 1..(WalkAt(c, s) - 1) PROVE i \in DOMAIN Beats /\ Settled(gates, n, i)
    <3>1. i \in DOMAIN Beats /\ i \in Nat /\ i < WalkAt(c, s)
      BY <2>2, BeatsAre
    <3>2. i \notin open
      BY <2>1, <2>2, <3>1
    <3> QED BY <3>1, <3>2
  <2>4. ASSUME NEW k, NextIsGate(gates, n, k) PROVE k = WalkAt(c, s)
    <3>1. k \in open /\ k \in Nat /\ \A i \in 1..(k - 1) : Settled(gates, n, i)
      BY <2>4, BeatsAre DEF NextIsGate
    <3>2. WalkAt(c, s) <= k /\ WalkAt(c, s) \in Nat \ {0}
      BY <2>1, <2>2, <3>1, BeatsAre
    <3>3. WalkAt(c, s) \notin 1..(k - 1)
      BY <2>2, <3>1
    <3> QED BY <3>1, <3>2, <3>3
  <2> QED BY <1>1, <2>2, <2>3, <2>4 DEF n, gates
<1> QED BY <1>4, <1>5

\* A gate that comes next in the script and has not been opened is the next one.
LEMMA GateComesDue ==
  ASSUME NEW gates \in Seq(GateRec), NEW n, NEW k, NextIsGate(gates, n, k),
         Count(k, "G") \notin DOMAIN gates
  PROVE  Count(k, "G") = Len(gates) + 1
<1>1. /\ k \in DOMAIN Beats /\ k \in Nat \ {0} /\ Beats[k] = "G"
      /\ \A i \in 1..(k - 1) : Settled(gates, n, i)
      /\ Len(gates) \in Nat /\ DOMAIN gates = 1..Len(gates)
  BY BeatsAre DEF NextIsGate
<1>2. Count(k, "G") = Count(k - 1, "G") + 1 /\ Count(k - 1, "G") \in Nat
  BY <1>1, CountIs
<1> DEFINE E == {i \in 1..(k - 1) : Beats[i] = "G"}
<1>3. CASE E = {}
  <2>1. \A h \in (0 + 1)..(k - 1) : Beats[h] # "G"
    BY <1>3
  <2>2. k - 1 \in Nat /\ 0 \in 0..(k - 1)
    BY <1>1
  <2>3. Count(k - 1, "G") = Count(0, "G") /\ Count(0, "G") = 0
    BY <2>1, <2>2, CountIs
  <2> QED BY <1>1, <1>2, <2>3
<1>4. CASE E # {}
  <2>1. E \in SUBSET Nat /\ k - 1 \in Nat /\ \A i \in E : i <= k - 1
    BY <1>1
  <2>2. PICK m \in E : \A i \in E : i <= m
    BY <1>4, <2>1, Greatest
  <2>3. m \in 0..(k - 1) /\ \A h \in (m + 1)..(k - 1) : Beats[h] # "G"
    <3>1. m \in Nat /\ m <= k - 1
      BY <2>1, <2>2
    <3>2. ASSUME NEW h \in (m + 1)..(k - 1), Beats[h] = "G" PROVE FALSE
      <4>1. h \in E
        BY <3>1, <3>2
      <4> QED BY <2>2, <3>1, <4>1
    <3> QED BY <3>1, <3>2
  <2>4. Count(k - 1, "G") = Count(m, "G")
    BY <2>1, <2>3, CountIs
  <2>5. Count(m, "G") \in DOMAIN gates
    BY <1>1, <2>2 DEF Settled
  <2> QED BY <1>1, <1>2, <2>4, <2>5
<1> QED BY <1>3, <1>4

\* Opening a gate where none stands.
LEMMA OpensGate ==
  ASSUME BookOk(book), NEW c \in DOMAIN book, NEW s \in DOMAIN book[c].scenes,
         CanOpenGate(c, s), OpenGate(c, s)
  PROVE  /\ Sound(book, book') /\ Calm(book, book')
         /\ s \in DOMAIN book'[c].scenes /\ c \in DOMAIN book'
         /\ book'[c].scenes[s].st = "ACTIVE"
         /\ Len(book[c].scenes[s].gates) + 1 \in DOMAIN book'[c].scenes[s].gates
         /\ DOMAIN book[c].scenes[s].gates \subseteq DOMAIN book'[c].scenes[s].gates
         /\ \A h \in DOMAIN book[c].scenes[s].gates :
              book'[c].scenes[s].gates[h] = book[c].scenes[s].gates[h]
         /\ book'[c].scenes[s].gates[Len(book[c].scenes[s].gates) + 1].st = "OPEN"
<1>1. /\ book[c].scenes[s].st = "ACTIVE"
      /\ \A g \in DOMAIN book[c].scenes[s].gates : book[c].scenes[s].gates[g].st = "CLOSED"
  BY DEF CanOpenGate, Standing, Gate, Scenes
<1>2. book' = PutGates(book, c, s, Append(book[c].scenes[s].gates, GateRow))
  BY DEF OpenGate, PutGates
<1>3. book[c].st # "CLOSED" /\ Len(book[c].scenes[s].gates) \in Nat
  <2>1. /\ SceneOk(book[c].plans, Over(book[c]), book[c].scenes[s])
        /\ book[c].scenes[s].gates \in Seq(GateRec)
    BY RowTypes
  <2> QED BY <1>1, <2>1 DEF SceneOk, Over
<1>4. PICK sc :
           /\ book' = PutScene(book, c, s, sc)
           /\ SceneOk(book[c].plans, Over(book[c]), sc)
           /\ SceneKept(book[c], book[c].scenes[s], sc)
           /\ sc.st = book[c].scenes[s].st
           /\ Len(sc.gates) = Len(book[c].scenes[s].gates) + 1
           /\ DOMAIN sc.gates = 1..Len(sc.gates)
           /\ DOMAIN book[c].scenes[s].gates = 1..Len(book[c].scenes[s].gates)
           /\ \A h \in DOMAIN book[c].scenes[s].gates :
                sc.gates[h] = book[c].scenes[s].gates[h]
           /\ sc.gates[Len(sc.gates)] = GateRow
  BY <1>1, <1>2, GateOpens
<1>5. /\ Calm(book, book') /\ DOMAIN book' = DOMAIN book
      /\ DOMAIN book'[c].scenes = DOMAIN book[c].scenes
      /\ book'[c].scenes[s] = sc
  BY <1>3, <1>4, SceneMoves
<1>6. Sound(book, book')
  BY <1>3, <1>4, SceneSound
<1>7. /\ Len(sc.gates) \in DOMAIN sc.gates /\ GateRow.st = "OPEN"
      /\ DOMAIN book[c].scenes[s].gates \subseteq DOMAIN sc.gates
  BY <1>3, <1>4 DEF GateRow
<1> QED BY <1>1, <1>4, <1>5, <1>6, <1>7

\* The gate that was due has been reached once it is open.
LEMMA DueIsReached ==
  ASSUME NEW b, NEW new, NEW log, NEW j, NEW j2, j2.c = j.c, j2.s = j.s, GateDue(b, log, j),
         Len(b[j.c].scenes[j.s].gates) + 1 \in DOMAIN new[j.c].scenes[j.s].gates,
         DOMAIN b[j.c].scenes[j.s].gates \subseteq DOMAIN new[j.c].scenes[j.s].gates,
         \A h \in DOMAIN b[j.c].scenes[j.s].gates :
              new[j.c].scenes[j.s].gates[h] = b[j.c].scenes[j.s].gates[h],
         new[j.c].scenes[j.s].gates[Len(b[j.c].scenes[j.s].gates) + 1].st = "OPEN"
  PROVE  GateReached(new, log, j2)
<1> DEFINE old == b[j.c].scenes[j.s].gates
           gates == new[j.c].scenes[j.s].gates
           n == SegCount(log, j.c, j.s)
<1>1. PICK k \in DOMAIN Beats : NextIsGate(old, n, k) /\ Count(k, "G") = Len(old) + 1
  BY DEF GateDue
<1> HIDE DEF n
<1>2. \A i \in 1..(k - 1) : Settled(gates, n, i)
  BY <1>1 DEF NextIsGate, Settled
<1>3. ~Settled(gates, n, k)
  BY <1>1 DEF NextIsGate, Settled
<1>4. NextIsGate(gates, n, k) /\ Count(k, "G") \in DOMAIN gates
  BY <1>1, <1>2, <1>3 DEF NextIsGate
<1> QED BY <1>4 DEF GateReached, n

LEMMA OpenGateForKeeps == ASSUME StoryIInv, OpenGateFor PROVE Kept
<1> DEFINE c == job.c
           s == job.s
<1>1. /\ BookOk(book) /\ book \in Seq(ChapterRec) /\ job \in JobRec /\ AtScene(book, job)
      /\ job.op = "submit" => GateDue(book, commits, job)
      /\ job.op \in {"advance", "submit"} => ThreadOn(book)
  BY Facts DEF OpenGateFor, LabelOk, Opening
<1>2. CASE Refused
  BY <1>2, Refuses
<1>3. CASE CanOpenGate(c, s) /\ OpenGate(c, s) /\ OnlyBook
           /\ IF job.op = "submit" THEN Goto("submit") ELSE Done
  <2>1. /\ Sound(book, book') /\ Calm(book, book')
        /\ s \in DOMAIN book'[c].scenes /\ c \in DOMAIN book'
        /\ book'[c].scenes[s].st = "ACTIVE"
        /\ Len(book[c].scenes[s].gates) + 1 \in DOMAIN book'[c].scenes[s].gates
        /\ DOMAIN book[c].scenes[s].gates \subseteq DOMAIN book'[c].scenes[s].gates
        /\ \A h \in DOMAIN book[c].scenes[s].gates :
              book'[c].scenes[s].gates[h] = book[c].scenes[s].gates[h]
        /\ book'[c].scenes[s].gates[Len(book[c].scenes[s].gates) + 1].st = "OPEN"
    <3>1. c \in DOMAIN book /\ s \in DOMAIN book[c].scenes
      BY <1>1 DEF AtScene
    <3>2. BookOk(book) /\ CanOpenGate(c, s) /\ OpenGate(c, s)
      BY <1>1, <1>3
    <3> HIDE DEF c, s
    <3> QED BY <3>1, <3>2, OpensGate
  <2>2. CASE job.op # "submit"
    BY <1>3, <2>1, <2>2, NewJobOk, Writes DEF Done
  <2>3. CASE job.op = "submit"
    <3>1. job' \in JobRec /\ job'.pc = "submit" /\ SameJob(job, job')
      BY <1>1, <1>3, <2>3, GotosSame DEF Labels
    <3>2. job'.c = c /\ job'.s = s /\ job'.op = "submit"
      BY <2>3, <3>1 DEF SameJob
    <3>3. GateReached(book', commits, job')
      BY <1>1, <2>1, <2>3, <3>2, DueIsReached
    <3>4. ThreadOn(book')
      BY <1>1, <2>1, <2>3, ThreadStays
    <3>5. AtScene(book', job')
      BY <2>1, <3>2 DEF AtScene
    <3>6. JobOk(book', commits, job')
      BY <2>1, <3>1, <3>2, <3>3, <3>4, <3>5 DEF JobOk, LabelOk, Opening
    <3> QED BY <1>3, <2>1, <3>6, Writes
  <2> QED BY <2>2, <2>3
<1> QED BY <1>2, <1>3 DEF OpenGateFor

LEMMA ReplyGateKeeps == ASSUME StoryIInv, ReplyGate PROVE Kept
<1> DEFINE c == job.c
           s == job.s
           st == Standing(c, s)
           at(g, sub) == job' = [job EXCEPT !.pc = "g_submit", !.g = g, !.sub = sub,
                                            !.back = "rp_seg", !.home = <<c, s, g>>]
<1>1. /\ BookOk(book) /\ job \in JobRec /\ c \in DOMAIN book /\ s \in DOMAIN book[c].scenes
      /\ job.op = "drive"
  BY Facts DEF ReplyGate, LabelOk, Opening, AtScene
<1>2. c \in Nat /\ s \in Nat /\ job.sub \in Submissions \cup {"none"}
  BY <1>1 DEF JobRec
<1>3. ASSUME NEW new, NEW g \in Nat, Known(new, c, s, g), NEW sub \in Submissions \cup {"none"},
             at(g, sub)
      PROVE  JobOk(new, commits, job')
  <2>1. /\ job' \in JobRec /\ job'.pc = "g_submit" /\ job'.op = "drive" /\ job'.back = "rp_seg"
        /\ job'.c = c /\ job'.s = s /\ job'.g = g /\ job'.home = <<c, s, g>>
    BY <1>1, <1>2, <1>3 DEF JobRec, Labels
  <2>2. AtGate(new, job') /\ HomeOk(new, job')
    BY <1>3, <2>1 DEF AtGate, HomeOk
  <2> QED BY <2>1, <2>2 DEF JobOk, LabelOk, Opening, Back
<1>4. CASE Refused
  BY <1>4, Refuses
<1>5. CASE /\ CanOpenGate(c, s) /\ OpenGate(c, s) /\ OnlyBook
           /\ at(Len(Scenes(c)[s].gates) + 1, job.sub)
  <2>1. /\ Sound(book, book') /\ Calm(book, book')
        /\ s \in DOMAIN book'[c].scenes /\ c \in DOMAIN book'
        /\ Len(book[c].scenes[s].gates) + 1 \in DOMAIN book'[c].scenes[s].gates
    BY <1>1, <1>5, OpensGate
  <2>2. Len(book[c].scenes[s].gates) \in Nat
    <3> HIDE DEF c, s
    <3>1. book[c].scenes[s].gates \in Seq(GateRec)
      BY <1>1, RowTypes
    <3> QED BY <3>1
  <2>3. PICK g \in Nat : g = Len(book[c].scenes[s].gates) + 1
    BY <2>2
  <2>4. Known(book', c, s, g) /\ at(g, job.sub)
    BY <1>5, <2>1, <2>3 DEF Known, Scenes
  <2>5. JobOk(book', commits, job')
    BY <1>2, <1>3, <2>4
  <2> QED BY <1>5, <2>1, <2>5, Writes
<1>6. CASE /\ st # {} /\ Durable
           /\ LET g == CHOOSE x \in st : TRUE
              IN at(g, IF Gate(c, s, g).st = "OPEN" THEN job.sub ELSE Gate(c, s, g).sub)
  <2> DEFINE g == CHOOSE x \in st : TRUE
             sub == IF Gate(c, s, g).st = "OPEN" THEN job.sub ELSE Gate(c, s, g).sub
  <2>1. g \in st
    BY <1>6
  <2>2. g \in DOMAIN book[c].scenes[s].gates
    BY <2>1 DEF Standing, Scenes
  <2>3. book[c].scenes[s].gates[g] \in GateRec /\ g \in Nat
    BY <1>1, <2>2, RowTypes
  <2>4. sub \in Submissions \cup {"none"}
    BY <1>2, <2>3 DEF GateRec, Gate, Scenes
  <2>5. at(g, sub)
    BY <1>6
  <2> HIDE DEF g, sub
  <2>6. JobOk(book, commits, job')
    BY <1>1, <1>3, <2>2, <2>3, <2>4, <2>5 DEF Known
  <2> QED BY <1>6, <2>6, Stutters DEF Durable
<1> QED BY <1>4, <1>5, <1>6 DEF ReplyGate

-----------------------------------------------------------------------------
(* The reading face's drive.                                                          *)

\* A run's beats are segments, or gates that have been opened.
BeatsOk(c, s, beats) ==
    /\ beats \in Seq(Nat)
    /\ \A i \in DOMAIN beats :
         IsSegment(beats[i]) \/ Known(book, c, s, Count(beats[i], "G"))

\* What has landed of a script has its gates.
LEMMA PrefixOk ==
  ASSUME NEW c \in DOMAIN book, NEW s \in DOMAIN book[c].scenes, NEW i \in DOMAIN Beats,
         Settled(book[c].scenes[s].gates, SegCount(commits, c, s), i)
  PROVE  IsSegment(i) \/ Known(book, c, s, Count(i, "G"))
BY DEF Settled, IsSegment, Known

LEMMA NextBeatsOk ==
  ASSUME StoryIInv, NEW c \in DOMAIN book, NEW s \in DOMAIN book[c].scenes,
         WalkKind(c, s) = "segment"
  PROVE  BeatsOk(c, s, NextBeats(c, s))
<1>1. CASE Scripted(c, s)
  <2> DEFINE k == WalkAt(c, s)
  <2>1. k # 0 /\ Beats[k] = "S"
    BY <1>1 DEF WalkKind
  <2>2. k \in Nat /\ \A i \in 1..(k - 1) : IsSegment(i) \/ Known(book, c, s, Count(i, "G"))
    <3>1. k \in Nat /\ \A i \in 1..(k - 1) :
            i \in DOMAIN Beats /\ Settled(book[c].scenes[s].gates, SegCount(commits, c, s), i)
      BY <2>1, WalkIs
    <3> HIDE DEF k
    <3> QED BY <3>1, PrefixOk
  <2>3. NextBeats(c, s) = [i \in 1..k |-> i]
    BY <1>1 DEF NextBeats
  <2> HIDE DEF k
  <2>4. NextBeats(c, s) \in Seq(Nat)
    <3>1. [i \in 1..k |-> i] \in [1..k -> Nat]
      OBVIOUS
    <3> QED BY <2>2, <2>3, <3>1
  <2>5. IsSegment(k)
    BY <2>1 DEF IsSegment
  <2>6. \A i \in 1..k : i \in 1..(k - 1) \/ i = k
    BY <2>2
  <2> QED BY <2>2, <2>3, <2>4, <2>5, <2>6 DEF BeatsOk
<1>2. CASE ~Scripted(c, s)
  <2> DEFINE n == SegmentCount(c, s) + 1
  <2>1. n \in Nat
    <3>1. PICK S : commits \in Seq(S)
      BY Facts DEF LogOk
    <3>2. SegCount(commits, c, s) \in Nat
      BY <3>1, SegCountIsNat
    <3> QED BY <3>2 DEF SegCount, SegmentCount
  <2>2. NextBeats(c, s) = [i \in 1..n |-> 0]
    BY <1>2 DEF NextBeats
  <2> HIDE DEF n
  <2>3. NextBeats(c, s) \in Seq(Nat)
    BY <2>1, <2>2
  <2>4. IsSegment(0)
    BY DEF IsSegment
  <2> QED BY <2>2, <2>3, <2>4 DEF BeatsOk
<1> QED BY <1>1, <1>2

\* The answer to a gate is followed by the segment that tells it.
LEMMA SubmitBeatsOk ==
  ASSUME NEW c \in DOMAIN book, NEW s \in DOMAIN book[c].scenes, NEW k0,
         NextIsGate(book[c].scenes[s].gates, SegCount(commits, c, s), k0),
         Count(k0, "G") \in DOMAIN book[c].scenes[s].gates
  PROVE  BeatsOk(c, s, Append([i \in 1..WalkAt(c, s) |-> i], ContinuationAfter(WalkAt(c, s))))
<1> DEFINE k == WalkAt(c, s)
           after == {i \in DOMAIN Beats : i > k /\ Beats[i] = "S"}
           next == ContinuationAfter(k)
           walk == [i \in 1..k |-> i]
<1>1. /\ k = k0 /\ k \in DOMAIN Beats /\ k \in Nat \ {0} /\ Beats[k] = "G"
      /\ \A i \in 1..(k - 1) :
            i \in DOMAIN Beats /\ Settled(book[c].scenes[s].gates, SegCount(commits, c, s), i)
  <2>1. k = k0
    BY WalkIs
  <2>2. k \in DOMAIN Beats /\ Beats[k] = "G"
    BY <2>1 DEF NextIsGate
  <2>3. k \in Nat \ {0}
    BY <2>2, BeatsAre
  <2> QED BY <2>1, <2>2, <2>3, WalkIs
<1>2. next \in Nat /\ IsSegment(next)
  <2>1. Len(Beats) \in after
    BY <1>1, BeatsAre
  <2>2. after \in SUBSET Nat
    BY BeatsAre
  <2>3. next = CHOOSE i \in after : \A j \in after : i <= j
    BY DEF ContinuationAfter
  <2> HIDE DEF next, after
  <2>4. next \in after
    BY <2>1, <2>2, <2>3, Least
  <2> QED BY <2>2, <2>4 DEF IsSegment, after
<1> HIDE DEF k, next
<1>3. \A i \in 1..k : IsSegment(i) \/ Known(book, c, s, Count(i, "G"))
  <2>1. \A i \in 1..(k - 1) : IsSegment(i) \/ Known(book, c, s, Count(i, "G"))
    BY <1>1, PrefixOk
  <2>2. Known(book, c, s, Count(k, "G"))
    BY <1>1 DEF Known
  <2>3. \A i \in 1..k : i \in 1..(k - 1) \/ i = k
    BY <1>1
  <2> QED BY <2>1, <2>2, <2>3
<1>4. walk \in Seq(Nat) /\ Len(walk) = k /\ \A i \in 1..k : walk[i] = i
  <2>1. walk \in [1..k -> Nat]
    OBVIOUS
  <2> QED BY <1>1, <2>1
<1> HIDE DEF walk
<1>5. /\ Append(walk, next) \in Seq(Nat)
      /\ DOMAIN Append(walk, next) = 1..(k + 1)
      /\ \A i \in 1..k : Append(walk, next)[i] = walk[i]
      /\ Append(walk, next)[k + 1] = next
  BY <1>1, <1>2, <1>4
<1>6. \A i \in 1..(k + 1) : i \in 1..k \/ i = k + 1
  BY <1>1
<1>7. BeatsOk(c, s, Append(walk, next))
  BY <1>2, <1>3, <1>4, <1>5, <1>6 DEF BeatsOk
<1> QED BY <1>7 DEF walk, k, next

\* A run starts at the head of its beats.
LEMMA StartsRun ==
  ASSUME StoryIInv, NEW c \in DOMAIN book, NEW s \in DOMAIN book[c].scenes, c \in Nat, s \in Nat,
         NEW beats, BeatsOk(c, s, beats), job.op \in {"advance", "submit"},
         book[c].scenes[s].st = "PLANNED" => InTurn(book[c]),
         book[c].st # "CLOSED",
         EnsureOpen(c, s, [job EXCEPT !.c = c, !.s = s, !.pc = "run", !.k = 1, !.pend = 0,
                                      !.beats = beats])
  PROVE  Kept
<1> DEFINE j == [job EXCEPT !.c = c, !.s = s, !.pc = "run", !.k = 1, !.pend = 0, !.beats = beats]
<1>1. job \in JobRec /\ ThreadOn(book)
  BY Facts
<1>2. beats \in Seq(Nat)
  BY DEF BeatsOk
<1>3. /\ j \in JobRec /\ j.pc = "run" /\ j.op = job.op /\ j.c = c /\ j.s = s /\ j.k = 1
      /\ j.pend = 0 /\ j.beats = beats
  BY <1>1, <1>2 DEF JobRec, Labels
<1>4. EnsureOpen(c, s, j)
  OBVIOUS
<1> HIDE DEF j
<1>5. AtScene(book, j)
  BY <1>3 DEF AtScene
<1>6. RunOk(book, j)
  BY <1>3, <1>5 DEF RunOk, BeatsOk
<1>7. LabelOk(book, commits, j.pc, j) /\ j.pc \in Aheads
  BY <1>3, <1>6 DEF LabelOk, Aheads
<1> QED BY <1>1, <1>3, <1>4, <1>5, <1>7, EnsureKeeps

LEMMA PressOnKeeps == ASSUME StoryIInv, PressOn PROVE Kept
<1> DEFINE c == Last
           s == CurrentScene(c, Roster(c))
<1>1. /\ BookOk(book) /\ job \in JobRec /\ job.op = "advance" /\ ThreadOn(book)
      /\ job.pc = "press"
  BY Facts DEF PressOn, LabelOk, Opening
<1>2. c \in DOMAIN book /\ c \in Nat /\ book[c].st # "CLOSED"
  BY <1>1, LastIs DEF ThreadOn, Last
<1>3. CASE Refused
  BY <1>3, Refuses
<1>4. ASSUME s # 0
      PROVE  /\ s \in DOMAIN book[c].scenes /\ s \in Nat
             /\ book[c].scenes[s].st = "PLANNED" => InTurn(book[c])
  BY <1>1, <1>2, <1>4, CurrentInTurn
<1>5. CASE s # 0 /\ EnsureOpen(c, s, [job EXCEPT !.c = c, !.s = s, !.pc = "gate"])
  <2> HIDE DEF c, s
  <2> DEFINE j == [job EXCEPT !.c = c, !.s = s, !.pc = "gate"]
  <2>1. j \in JobRec /\ j.pc = "gate" /\ j.op = "advance" /\ j.c = c /\ j.s = s
    BY <1>1, <1>2, <1>4, <1>5 DEF JobRec, Labels
  <2>2. EnsureOpen(c, s, j)
    BY <1>5
  <2> HIDE DEF j
  <2>3. AtScene(book, j)
    BY <1>2, <1>4, <1>5, <2>1 DEF AtScene
  <2>4. LabelOk(book, commits, j.pc, j) /\ j.pc \in Aheads
    BY <2>1, <2>3 DEF LabelOk, Aheads
  <2> QED BY <1>1, <1>2, <1>4, <1>5, <2>1, <2>2, <2>3, <2>4, EnsureKeeps
<1>6. CASE /\ s # 0 /\ WalkKind(c, s) = "segment"
           /\ EnsureOpen(c, s, [job EXCEPT !.c = c, !.s = s, !.pc = "run", !.k = 1, !.pend = 0,
                                           !.beats = NextBeats(c, s)])
  <2> HIDE DEF c, s
  <2>1. s \in DOMAIN book[c].scenes /\ s \in Nat
    BY <1>4, <1>6
  <2>2. BeatsOk(c, s, NextBeats(c, s))
    BY <1>2, <1>6, <2>1, NextBeatsOk
  <2>3. book[c].scenes[s].st = "PLANNED" => InTurn(book[c])
    BY <1>4, <1>6
  <2>4. EnsureOpen(c, s, [job EXCEPT !.c = c, !.s = s, !.pc = "run", !.k = 1, !.pend = 0,
                                     !.beats = NextBeats(c, s)])
    BY <1>6
  <2> QED BY <1>1, <1>2, <2>1, <2>2, <2>3, <2>4, StartsRun
<1> QED BY <1>3, <1>5, <1>6 DEF PressOn

LEMMA SubmitRunKeeps == ASSUME StoryIInv, SubmitRun PROVE Kept
<1> DEFINE c == job.c
           s == job.s
           k == WalkAt(c, s)
           beats == Append([i \in 1..k |-> i], ContinuationAfter(k))
<1>1. /\ BookOk(book) /\ job \in JobRec /\ job.op = "submit" /\ ThreadOn(book)
      /\ AtScene(book, job) /\ GateReached(book, commits, job)
      /\ book[c].scenes[s].st # "PLANNED"
  BY Facts DEF SubmitRun, LabelOk, Opening
<1>2. c \in DOMAIN book /\ s \in DOMAIN book[c].scenes /\ c \in Nat /\ s \in Nat
  BY <1>1 DEF AtScene, JobRec
<1>3. BeatsOk(c, s, beats)
  <2>1. PICK k0 \in DOMAIN Beats :
          /\ NextIsGate(book[c].scenes[s].gates, SegCount(commits, c, s), k0)
          /\ Count(k0, "G") \in DOMAIN book[c].scenes[s].gates
    BY <1>1 DEF GateReached
  <2> QED BY <1>2, <2>1, SubmitBeatsOk
<1>4. EnsureOpen(c, s, [job EXCEPT !.pc = "run", !.k = 1, !.pend = 0, !.beats = beats])
  BY DEF SubmitRun
<1> HIDE DEF beats
<1> DEFINE j == [job EXCEPT !.pc = "run", !.k = 1, !.pend = 0, !.beats = beats]
<1>5. beats \in Seq(Nat)
  BY <1>3 DEF BeatsOk
<1>6. /\ j \in JobRec /\ j.pc = "run" /\ j.op = "submit" /\ j.c = c /\ j.s = s /\ j.k = 1
      /\ j.pend = 0 /\ j.beats = beats
  BY <1>1, <1>5 DEF JobRec, Labels
<1>7. EnsureOpen(c, s, j)
  BY <1>4
<1> HIDE DEF j
<1>8. AtScene(book, j) /\ book[j.c].scenes[j.s].st # "PLANNED"
  BY <1>1, <1>2, <1>6 DEF AtScene
<1>9. RunOk(book, j)
  BY <1>3, <1>6, <1>8 DEF RunOk, BeatsOk
<1>10. LabelOk(book, commits, j.pc, j) /\ j.pc \in Aheads
  BY <1>6, <1>9 DEF LabelOk, Aheads
<1>11. EnsureOpen(j.c, j.s, j)
  BY <1>6, <1>7
<1> QED BY <1>1, <1>6, <1>8, <1>10, <1>11, EnsureKeeps

LEMMA SubmitKeeps == ASSUME StoryIInv, Submit PROVE Kept
<1> DEFINE c == Last
           s == CurrentScene(c, Roster(c))
           kind == WalkKind(c, s)
           pc == IF kind = "gate_submit" THEN "submit" ELSE "gate"
<1>1. /\ BookOk(book) /\ NewJob \in JobRec /\ book # <<>> /\ book[c].st # "CLOSED" /\ s # 0
      /\ kind \in {"gate_open", "gate_submit"}
  BY Facts, NewJobOk DEF Submit
<1>2. c \in DOMAIN book /\ c \in Nat /\ ThreadOn(book)
  BY <1>1, LastIs DEF ThreadOn, Last
<1>3. /\ s \in DOMAIN book[c].scenes /\ s \in Nat
      /\ book[c].scenes[s].st = "PLANNED" => InTurn(book[c])
  BY <1>1, <1>2, CurrentInTurn
<1>4. PICK sub \in Submissions :
        EnsureOpen(c, s, [NewJob EXCEPT !.op = "submit", !.c = c, !.s = s, !.sub = sub, !.pc = pc])
  BY DEF Submit
<1> DEFINE j == [NewJob EXCEPT !.op = "submit", !.c = c, !.s = s, !.sub = sub, !.pc = pc]
           gates == book[c].scenes[s].gates
           n == SegCount(commits, c, s)
           k == WalkAt(c, s)
<1>5. /\ k \in DOMAIN Beats /\ NextIsGate(gates, n, k)
      /\ kind = "gate_submit" <=> Count(k, "G") \in DOMAIN gates
  <2> HIDE DEF c, s
  <2>1. /\ k # 0 /\ Beats[k] # "S"
        /\ kind = "gate_submit" <=> Count(k, "G") \in DOMAIN gates
    BY <1>1 DEF WalkKind, Scenes
  <2>2. /\ k \in DOMAIN Beats /\ ~Settled(gates, n, k)
        /\ \A i \in 1..(k - 1) : Settled(gates, n, i)
    BY <2>1, WalkIs
  <2>3. Beats[k] = "G"
    BY <2>1, <2>2, BeatsAre
  <2> QED BY <2>1, <2>2, <2>3 DEF NextIsGate
<1>6. kind # "gate_submit" => Count(k, "G") = Len(gates) + 1
  <2> HIDE DEF c, s
  <2>1. gates \in Seq(GateRec)
    BY <1>1, <1>2, <1>3, RowTypes
  <2> QED BY <1>5, <2>1, GateComesDue
<1>7. pc \in {"submit", "gate"} /\ (pc = "submit" <=> kind = "gate_submit")
  OBVIOUS
<1>8. EnsureOpen(c, s, j)
  BY <1>4
<1> HIDE DEF c, s, kind, pc
<1>9. j \in JobRec /\ j.pc = pc /\ j.op = "submit" /\ j.c = c /\ j.s = s
  <2>1. sub \in Submissions \cup {"none"}
    BY <1>4
  <2>2. pc \in Labels /\ "submit" \in Ops
    BY <1>7 DEF Labels, Ops
  <2> QED BY <1>1, <1>2, <1>3, <2>1, <2>2 DEF JobRec
<1> HIDE DEF j
<1>10. AtScene(book, j)
  BY <1>2, <1>3, <1>9 DEF AtScene
<1>11. pc = "submit" => GateReached(book, commits, j)
  BY <1>5, <1>7, <1>9 DEF GateReached
<1>12. pc = "gate" => GateDue(book, commits, j)
  BY <1>5, <1>6, <1>7, <1>9 DEF GateDue
<1>13. LabelOk(book, commits, j.pc, j) /\ j.pc \in Aheads
  BY <1>7, <1>9, <1>10, <1>11, <1>12 DEF LabelOk, Aheads
<1>14. EnsureOpen(j.c, j.s, j)
  BY <1>8, <1>9
<1>15. book[j.c].scenes[j.s].st = "PLANNED" => InTurn(book[j.c]) /\ book[j.c].st # "CLOSED"
  BY <1>1, <1>3, <1>9
<1> QED BY <1>2, <1>9, <1>10, <1>13, <1>14, <1>15, EnsureKeeps

LEMMA RunBeatKeeps == ASSUME StoryIInv, RunBeat PROVE Kept
<1> DEFINE c == job.c
           s == job.s
           x == job.beats[job.k]
           g == Count(x, "G")
           on == [job EXCEPT !.k = @ + 1]
           past == [on EXCEPT !.pend = 0]
           sub == IF Gate(c, s, g).st = "OPEN" THEN job.sub ELSE Gate(c, s, g).sub
           asks == [on EXCEPT !.pc = "g_submit", !.g = g, !.back = "run", !.sub = sub]
           ends == [job EXCEPT !.pc = "press", !.op = "advance", !.n = @ + 1, !.last = FALSE]
<1>1. /\ BookOk(book) /\ book \in Seq(ChapterRec) /\ job \in JobRec /\ job.pc = "run"
      /\ RunOk(book, job) /\ job.op \in {"advance", "submit"} /\ ThreadOn(book)
  BY Facts DEF RunBeat, LabelOk, Opening
<1>2. /\ c \in DOMAIN book /\ s \in DOMAIN book[c].scenes /\ job.k \in Nat \ {0}
      /\ job.beats \in Seq(Nat) /\ job.n \in Nat /\ job.sub \in Submissions \cup {"none"}
  BY <1>1 DEF RunOk, AtScene, JobRec
<1>3. ~(job.k > Len(job.beats)) =>
        x \in Nat /\ (IsSegment(x) \/ g \in DOMAIN book[c].scenes[s].gates)
  <2>1. ~(job.k > Len(job.beats)) => job.k \in DOMAIN job.beats
    BY <1>2
  <2> QED BY <1>1, <1>2, <2>1 DEF RunOk, Known
<1>4. \/ Refused
      \/ Durable /\ job' = ends
      \/ Durable /\ job' = past
      \/ /\ SegmentAllowed(c, s, job.pend) /\ job' = past
         /\ \E last : CommitSegment(c, s, job.pend, last)
      \/ /\ x \in Nat /\ g \in DOMAIN book[c].scenes[s].gates
         /\ Durable /\ job' = asks
  <2> HIDE DEF past, asks, ends
  <2>1. CASE job.k > Len(job.beats)
    BY <2>1 DEF RunBeat, ends
  <2>2. CASE ~(job.k > Len(job.beats)) /\ IsSegment(x)
    BY <2>2 DEF RunBeat, past
  <2>3. CASE ~(job.k > Len(job.beats)) /\ ~IsSegment(x)
    BY <1>3, <2>3 DEF RunBeat, asks, Scenes
  <2> QED BY <2>1, <2>2, <2>3
<1>5. past \in JobRec /\ past.pc = "run" /\ past.op = job.op /\ past.c = c /\ past.s = s
      /\ past.beats = job.beats /\ past.pend = 0 /\ past.k # 0
  <2>1. PICK k \in Nat \ {0} : k = job.k + 1
    BY <1>2
  <2>2. past = [job EXCEPT !.k = k, !.pend = 0]
    BY <2>1
  <2> HIDE DEF past
  <2> QED BY <1>1, <2>1, <2>2 DEF JobRec
<1> HIDE DEF past
<1>6. ASSUME NEW b, BookKept(book, b) PROVE RunOk(b, past)
  <2>1. AtScene(b, past)
    BY <1>2, <1>5, <1>6, KnownStays DEF AtScene
  <2>2. \A h : Known(book, c, s, h) => Known(b, c, s, h)
    BY <1>6, KnownStays
  <2> QED BY <1>1, <1>5, <2>1, <2>2 DEF RunOk
<1>7. CASE Refused
  BY <1>7, Refuses
<1>8. CASE Durable /\ job' = ends
  <2>1. PICK n \in Nat : n = job.n + 1
    BY <1>2
  <2>2. job' = [job EXCEPT !.pc = "press", !.op = "advance", !.n = n, !.last = FALSE]
    BY <1>8, <2>1
  <2>3. job' \in JobRec /\ job'.pc = "press" /\ job'.op = "advance"
    <3>1. job \in JobRec
      BY <1>1
    <3>2. "press" \in Labels /\ "advance" \in Ops /\ FALSE \in BOOLEAN
      BY DEF Labels, Ops
    <3> QED BY <2>1, <2>2, <3>1, <3>2 DEF JobRec
  <2>4. JobOk(book, commits, job')
    BY <1>1, <2>3 DEF JobOk, LabelOk, Opening
  <2> QED BY <1>8, <2>4, Stutters DEF Durable
<1>9. CASE Durable /\ job' = past
  <2>1. BookKept(book, book)
    BY <1>1, NothingMoves DEF Sound
  <2>2. JobOk(book, commits, past)
    BY <1>1, <1>5, <1>6, <2>1 DEF JobOk, LabelOk, Opening
  <2> QED BY <1>9, <2>2, Stutters DEF Durable
<1>10. CASE /\ SegmentAllowed(c, s, job.pend) /\ job' = past
            /\ \E last : CommitSegment(c, s, job.pend, last)
  <2>1. PICK last : CommitSegment(c, s, job.pend, last)
    BY <1>10
  <2>2. job.pend = 0 \/ job.pend \in DOMAIN book[c].scenes[s].gates
    BY <1>1 DEF RunOk, Known
  <2>3. ASSUME BookKept(book, book'), Calm(book, book') PROVE JobOk(book', commits', job')
    <3>1. ThreadOn(book')
      BY <1>1, <2>3, ThreadStays
    <3>2. RunOk(book', past)
      BY <1>6, <2>3
    <3>3. JobOk(book', commits', past)
      BY <1>1, <1>5, <3>1, <3>2 DEF JobOk, LabelOk, Opening
    <3> QED BY <1>10, <3>3
  <2>4. SegmentAllowed(c, s, job.pend)
    BY <1>10
  <2> QED BY <1>2, <2>1, <2>2, <2>3, <2>4, SegmentKeeps
<1>11. CASE x \in Nat /\ g \in DOMAIN book[c].scenes[s].gates /\ Durable /\ job' = asks
  <2>1. book[c].scenes[s].gates[g] \in GateRec /\ g \in Nat
    BY <1>1, <1>2, <1>11, RowTypes
  <2>2. sub \in Submissions \cup {"none"}
    BY <1>2, <2>1 DEF GateRec, Gate, Scenes
  <2>3. PICK k \in Nat \ {0} : k = job.k + 1
    BY <1>2
  <2>4. job' = [job EXCEPT !.k = k, !.pc = "g_submit", !.g = g, !.back = "run", !.sub = sub]
    BY <1>11, <2>3
  <2> HIDE DEF sub, g
  <2>5. /\ job' \in JobRec /\ job'.pc = "g_submit" /\ job'.op = job.op /\ job'.c = c
        /\ job'.s = s /\ job'.g = g /\ job'.k # 0 /\ job'.pend = job.pend
        /\ job'.beats = job.beats /\ job'.back = "run"
    <3>1. job \in JobRec
      BY <1>1
    <3>2. "g_submit" \in Labels /\ "run" \in Labels
      BY DEF Labels
    <3>3. g \in Nat /\ k # 0 /\ k \in Nat
      BY <2>1, <2>3
    <3> QED BY <2>2, <2>4, <3>1, <3>2, <3>3 DEF JobRec
  <2>6. AtGate(book, job')
    BY <1>2, <1>11, <2>5 DEF AtGate, Known
  <2>7. RunOk(book, job')
    BY <1>1, <2>5 DEF RunOk, AtScene
  <2>8. JobOk(book, commits, job')
    BY <1>1, <2>5, <2>6, <2>7 DEF JobOk, LabelOk, Opening, Back
  <2> QED BY <1>11, <2>8, Stutters DEF Durable
<1> QED BY <1>4, <1>7, <1>8, <1>9, <1>10, <1>11

-----------------------------------------------------------------------------
(* Every step keeps the story.                                                        *)

LEMMA NextKeeps == ASSUME StoryIInv, Next PROVE Kept
<1>1. CASE Request
  BY <1>1, PlanningKeeps, SettlingKeeps, DrivingKeeps, ResumeRequestKeeps, SubmitKeeps
     DEF Request
<1>2. CASE Work
  <2>1. CASE OpenNextChapter \/ ReviseBlueprint \/ CreatePlan \/ AdoptPlan \/ ReconcileScenes
    BY <2>1, OpenNextChapterKeeps, ReviseBlueprintKeeps, CreatePlanKeeps, AdoptPlanKeeps,
       ReconcileKeeps
  <2>2. CASE PlanSituationChapter \/ SituationScene \/ SituationPlan \/ SituationAdopt
    BY <2>2, PlanSituationChapterKeeps, SituationKeeps
  <2>3. CASE OpenScene \/ AdoptOpening \/ ActivateScene
    BY <2>3, OpenSceneKeeps, AdoptOpeningKeeps, ActivateSceneKeeps
  <2>4. CASE \/ ConsumeReplan \/ ReplanDossier \/ ReplanPlan \/ MarkReplanApplied
             \/ ConsumePending
    BY <2>4, ConsumeReplanKeeps, ReplanDossierKeeps, ReplanPlanKeeps, MarkReplanAppliedKeeps,
       ConsumePendingKeeps
  <2> QED BY <1>2, <2>1, <2>2, <2>3, <2>4 DEF Work
<1>3. CASE Drive
  <2>1. CASE SubmitGate \/ BeginResolving \/ CommitAction
    BY <2>1, SubmitGateKeeps, BeginResolvingKeeps, CommitActionKeeps
  <2>2. CASE PressOn \/ OpenGateFor \/ SubmitRun \/ RunBeat
    BY <2>2, PressOnKeeps, OpenGateForKeeps, SubmitRunKeeps, RunBeatKeeps
  <2>3. CASE \/ DriveLoop \/ LandContinuation \/ WorldEvent \/ WorldSegment \/ ReplyGate
             \/ ReplySegment
    BY <2>3, DriveLoopKeeps, LandContinuationKeeps, EventsKeep, BeatsKeep, ReplyGateKeeps
  <2>4. CASE DualSettle \/ ClosingSegment \/ OffstageEvent \/ FlipSettling \/ SettleChapter
    BY <2>4, DualSettleKeeps, ClosingSegmentKeeps, EventsKeep, FlipSettlingKeeps,
       SettleChapterKeeps
  <2>5. CASE Resume \/ ResumeSegment \/ OutOfTicks
    BY <2>5, ResumeKeeps, ResumeSegmentKeeps, DeathsKeep
  <2> QED BY <1>3, <2>1, <2>2, <2>3, <2>4, <2>5 DEF Drive
<1>4. CASE Abort
  BY <1>4, DeathsKeep
<1> QED BY <1>1, <1>2, <1>3, <1>4 DEF Next

LEMMA StepKeeps == ASSUME StoryIInv, [Next]_vars PROVE Kept
<1>1. CASE Next
  BY <1>1, NextKeeps
<1>2. CASE UNCHANGED vars
  <2>1. UNCHANGED <<host, tick, book, commits>> /\ job' = job
    BY <1>2 DEF vars
  <2>2. JobOk(book, commits, job')
    BY <2>1 DEF StoryIInv
  <2> QED BY <2>1, <2>2, Stutters
<1> QED BY <1>1, <1>2

LEMMA StoryStarts == ASSUME Init PROVE StoryIInv
<1>1. host \in Hosts /\ tick = 0 /\ book = <<>> /\ commits = <<>> /\ job = NewJob
  BY DEF Init
<1>2. BookOk(book)
  BY <1>1 DEF BookOk
<1>3. LogOk(book, commits, tick)
  BY <1>1 DEF LogOk
<1>4. tick \in 0..MaxTick
  BY <1>1, StoryAssumption
<1> QED BY <1>1, <1>2, <1>3, <1>4, NewJobOk DEF StoryIInv, StoryInv

-----------------------------------------------------------------------------
(* What the rows promise is what the story hangs by.                                  *)

LEMMA AtMostOne == ASSUME NEW S, \A x, y \in S : x = y PROVE Cardinality(S) <= 1
<1>1. CASE S = {}
  BY <1>1, FS_EmptySet
<1>2. CASE S # {}
  <2>1. PICK x \in S : TRUE
    BY <1>2
  <2>2. S = {x}
    BY <2>1
  <2> QED BY <2>2, FS_Singleton
<1> QED BY <1>1, <1>2

LEMMA RowsAreTyped == ASSUME StoryIInv PROVE TypeOK
<1>1. BookOk(book) /\ tick \in 0..MaxTick /\ host \in Hosts /\ job \in JobRec
  BY Facts DEF StoryIInv, StoryInv
<1>2. DOMAIN job = DOMAIN NewJob
  BY <1>1 DEF JobRec, NewJob
<1>3. ASSUME NEW c \in DOMAIN book
      PROVE  /\ book[c].st \in ChapterStatus /\ book[c].settled \in BOOLEAN
             /\ \A r \in DOMAIN book[c].plans : book[c].plans[r].st \in RevisionStatus
  <2>1. book[c] \in ChapterRec /\ book[c].plans \in Seq(PlanRec)
    BY <1>1, RowTypes
  <2>2. \A r \in DOMAIN book[c].plans : book[c].plans[r] \in PlanRec
    BY <2>1
  <2> QED BY <2>1, <2>2 DEF ChapterRec, PlanRec
<1>4. ASSUME NEW c \in DOMAIN book, NEW s \in DOMAIN book[c].scenes
      PROVE  /\ book[c].scenes[s].st \in SceneStatus
             /\ \A d \in DOMAIN book[c].scenes[s].doss : book[c].scenes[s].doss[d] \in RevisionRow
             /\ \A g \in DOMAIN book[c].scenes[s].gates :
                  /\ book[c].scenes[s].gates[g].st \in GateStatus
                  /\ book[c].scenes[s].gates[g].sub \in Submissions \cup {"none"}
                  /\ book[c].scenes[s].gates[g].rp \in {"none", "PENDING", "APPLIED"}
  <2>1. /\ book[c].scenes[s] \in SceneRec /\ book[c].scenes[s].doss \in Seq(RevisionRow)
        /\ \A g \in DOMAIN book[c].scenes[s].gates : book[c].scenes[s].gates[g] \in GateRec
    BY <1>1, RowTypes
  <2>2. \A d \in DOMAIN book[c].scenes[s].doss : book[c].scenes[s].doss[d] \in RevisionRow
    BY <2>1
  <2>3. book[c].scenes[s].st \in SceneStatus
    BY <2>1 DEF SceneRec
  <2>4. \A gt \in GateRec : /\ gt.st \in GateStatus /\ gt.sub \in Submissions \cup {"none"}
                            /\ gt.rp \in {"none", "PENDING", "APPLIED"}
    BY DEF GateRec
  <2> QED BY <2>1, <2>2, <2>3, <2>4
<1> QED BY <1>1, <1>2, <1>3, <1>4 DEF TypeOK, Scenes, Gate

LEMMA StoryHolds == ASSUME StoryIInv PROVE StoryHangsTogether
<1>1. BookOk(book) /\ LogOk(book, commits, tick)
  BY Facts
<1>2. TickLine
  BY <1>1 DEF TickLine, LogOk, EntryOk
<1>3. OneThread
  <2>1. Cardinality({c \in DOMAIN book : book[c].st \in {"ACTIVE", "SETTLING"}}) <= 1
    <3> DEFINE S == {c \in DOMAIN book : book[c].st \in {"ACTIVE", "SETTLING"}}
    <3>1. \A x, y \in S : x = y
      BY <1>1 DEF BookOk, Runs
    <3> QED BY <3>1, AtMostOne
  <2>2. ASSUME NEW c \in DOMAIN book
        PROVE  Cardinality({r \in DOMAIN book[c].plans : book[c].plans[r].st = "ADOPTED"}) <= 1
    <3> DEFINE S == {r \in DOMAIN book[c].plans : book[c].plans[r].st = "ADOPTED"}
    <3>1. \A x, y \in S : x = y
      BY <1>1 DEF BookOk, ChapterOk, OneAdopted
    <3> QED BY <3>1, AtMostOne
  <2>3. ASSUME NEW c \in DOMAIN book, NEW s \in DOMAIN Scenes(c)
        PROVE  Cardinality(Standing(c, s)) <= 1
    <3>1. SceneOk(book[c].plans, Over(book[c]), book[c].scenes[s])
      BY <1>1, RowTypes DEF Scenes
    <3>2. \A x, y \in Standing(c, s) : x = y
      BY <3>1 DEF SceneOk, Standing, Gate, Scenes
    <3> QED BY <3>2, AtMostOne
  <2> QED BY <2>1, <2>2, <2>3 DEF OneThread
<1>4. RulingsAreTold
  BY <1>1 DEF RulingsAreTold, LogOk, EntryOk, Gate, Scenes
<1>5. ClosedIsQuiet
  <2>1. ASSUME NEW c \in DOMAIN book, Over(book[c]) PROVE ~RunningStoryBlocker(c)
    <3>1. \A s \in DOMAIN book[c].scenes : SceneOk(book[c].plans, Over(book[c]), book[c].scenes[s])
      BY <1>1, RowTypes
    <3> QED BY <2>1, <3>1 DEF SceneOk, GateOk, RunningStoryBlocker, Standing, Gate, Scenes
  <2>2. \A c \in DOMAIN book : book[c].st = "CLOSED" <=> book[c].settled
    BY <1>1 DEF BookOk, ChapterOk
  <2> QED BY <2>1, <2>2 DEF ClosedIsQuiet, Over
<1>6. AppliedWasAdopted
  <2> SUFFICES ASSUME NEW p \in Places, Gate(p[1], p[2], p[3]).rp = "APPLIED"
               PROVE  Landed(book[p[1]].plans, book[p[1]].scenes[p[2]].doss, Gate(p[1], p[2], p[3]))
    BY DEF AppliedWasAdopted, Landed, Scenes
  <2>1. Known(book, p[1], p[2], p[3])
    BY PlacesAre
  <2>2. SceneOk(book[p[1]].plans, Over(book[p[1]]), book[p[1]].scenes[p[2]])
    BY <1>1, <2>1, RowTypes DEF Known
  <2> QED BY <2>1, <2>2 DEF Known, SceneOk, GateOk, Gate, Scenes
<1> QED BY <1>2, <1>3, <1>4, <1>5, <1>6, RowsAreTyped DEF StoryHangsTogether

\* The steps of RecordsStand and of ScenesOpenInTurn.
RecordsStep ==
    /\ Len(commits') >= Len(commits) /\ SubSeq(commits', 1, Len(commits)) = commits
    /\ \A p \in Places :
         LET a == Gate(p[1], p[2], p[3])
             b == book'[p[1]].scenes[p[2]].gates[p[3]]
         IN /\ a.sub # "none" => b.sub = a.sub
            /\ a.st \in {"COMMITTED", "CLOSED"} => b.scope = a.scope
            /\ a.rp = "APPLIED" => b.rp = "APPLIED" /\ b.target = a.target
    /\ \A c \in DOMAIN book : book[c].settled => book'[c] = book[c]
InTurnStep ==
    \A c \in DOMAIN book : \A s, t \in DOMAIN Scenes(c) :
         ( /\ Scenes(c)[s].st = "PLANNED" /\ book'[c].scenes[s].st = "ACTIVE"
           /\ Scenes(c)[t].st = "ACTIVE" )
             => t \notin Plan(c).els

LEMMA KeptStands == ASSUME Kept PROVE RecordsStep /\ InTurnStep
<1>1. BookKept(book, book') /\ LogKept(commits, commits')
  BY DEF Kept
<1>2. ASSUME NEW p \in Places
      PROVE  GateKept(Gate(p[1], p[2], p[3]), book'[p[1]].scenes[p[2]].gates[p[3]])
  <2>1. Known(book, p[1], p[2], p[3])
    BY PlacesAre
  <2> QED BY <1>1, <2>1, KnownStays DEF Gate, Scenes
<1>3. RecordsStep
  BY <1>1, <1>2 DEF RecordsStep, LogKept, BookKept, ChapterKept, GateKept, Ruled
<1>4. InTurnStep
  BY <1>1 DEF InTurnStep, BookKept, ChapterKept, SceneKept, InTurn, Scenes, Plan
<1> QED BY <1>3, <1>4

LEMMA StoryInvariant == Spec => []StoryIInv
<1>1. StoryIInv /\ [Next]_vars => StoryIInv'
  BY StepKeeps DEF Kept, StoryIInv, StoryInv
<1> QED BY <1>1, StoryStarts, PTL DEF Spec

\* The story hangs together whatever requests run and wherever they die: one chapter
\* runs and one gate stands, landings tile the clock, every ruling is told next, a
\* settled chapter is quiet, an applied replan is in force (narrative/, world/).
THEOREM StoryStaysTogether == Spec => []StoryHangsTogether
<1>1. StoryIInv => StoryHangsTogether
  BY StoryHolds
<1> QED BY <1>1, StoryInvariant, PTL

\* No step rewrites what has landed, was submitted, ruled, applied or settled, and none
\* opens a scene beside one of its plan that runs (world/action.py, narrative/store.py).
THEOREM StoryIsNotRewritten == Spec => StoryIsKept
<1>1. StoryIInv /\ [Next]_vars => RecordsStep /\ InTurnStep
  BY StepKeeps, KeptStands
<1>2. Spec => [][RecordsStep /\ InTurnStep]_vars
  BY <1>1, StoryInvariant, PTL DEF Spec
<1>3. Spec => [][RecordsStep]_vars /\ [][InTurnStep]_vars
  BY <1>2, PTL
<1>4. Spec => RecordsStand
  BY <1>3, PTL DEF RecordsStand, RecordsStep
<1>5. Spec => ScenesOpenInTurn
  BY <1>3, PTL DEF ScenesOpenInTurn, InTurnStep
<1> QED BY <1>4, <1>5, PTL DEF StoryIsKept

=============================================================================
