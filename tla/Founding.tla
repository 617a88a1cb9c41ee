------------------------------ MODULE Founding ------------------------------
(***************************************************************************)
(* How a database comes to hold its cards and worlds.  A host start        *)
(* (host.py, world/package.py, persona/official.py) seeds them one         *)
(* transaction at a time and may die between any two; the dual-seat story  *)
(* (ds_web.py, world/bootstrap.py, world/bible.py) is created in one       *)
(* transaction and its Bible is revised by compare-and-swap.  Two          *)
(* processes may have the database open; only the cards and the settings   *)
(* are behind the runtime fence.                                           *)
(***************************************************************************)
EXTENDS Naturals, Sequences, FiniteSets

CONSTANTS
  Packages,      \* world packages that may ship: [cast, residents, voices]
  Fields,        \* fields of a Bible
  Texts,         \* what a field may say
  MaxRevision,   \* bound: Bible revisions
  MaxPending,    \* bound: edits waiting for the next chapter
  Original       \* the text every field is founded with

VARIABLES
  package,    \* the built-in world package of this installation
  stored,     \* the items the database holds; their wording is left out
  reign,      \* the process that opened the newest runtime epoch
  start,      \* process -> 0 (down), position in Parts, or Up
  looked,     \* process -> whether it found the next item missing
  raced,      \* process -> whether another start ran during its own
  broken,     \* a start nobody raced failed on a sound package
  bible,      \* current Bible of the dual-seat world: [rev, text]; rev 0: no world
  waiting,    \* ds_pending_bible: edits for the next chapter
  chapter,    \* "none", "open", "closed"
  leg,        \* process -> what its current request does next
  wish,       \* ghost: what the user asked every field to say
  due,        \* ghost: waiting edits that have not taken effect
  torn        \* ghost: a taken edit may still be waiting

foundVars == <<package, stored, reign, start, looked, raced, broken,
               bible, waiting, chapter, leg, wish, due, torn>>
hostVars == <<package, stored, reign, start, looked, raced, broken>>
storyVars == <<bible, waiting, chapter, leg, wish, due, torn>>

Procs == 1..2
Cards == {"penpal", "friend", "mine"}
Parts == <<"schema", "epoch", "friend", "lore", "package", "world", "bible",
           "actor", "profile", "player", "line">>
Up == Len(Parts) + 1
Items == Cards \cup {Parts[i] : i \in DOMAIN Parts}
IdleLeg == [at |-> "idle", seen |-> 0, edits |-> <<>>, text |-> [f \in Fields |-> Original]]

Init ==
  /\ package \in Packages
  /\ stored = {} /\ reign = 0
  /\ start = [p \in Procs |-> 0] /\ looked = [p \in Procs |-> FALSE]
  /\ raced = [p \in Procs |-> FALSE] /\ broken = FALSE
  /\ bible = [rev |-> 0, text |-> [f \in Fields |-> Original]]
  /\ waiting = <<>> /\ due = <<>> /\ chapter = "none"
  /\ leg = [p \in Procs |-> IdleLeg]
  /\ wish = [f \in Fields |-> Original] /\ torn = FALSE

(***************************************************************************)
(* The host start                                                          *)
(***************************************************************************)
\* _decode_voice_section: one voice for a name, and only for a name of the town.
VoicesKnown(p) ==
  /\ {p.voices[i] : i \in DOMAIN p.voices} \subseteq p.cast \cup p.residents
  /\ \A i, j \in DOMAIN p.voices : p.voices[i] = p.voices[j] => i = j

\* load_world_package: a cast, and one name space for it and the residents.
WellFormed(p) == p.cast # {} /\ p.cast \cap p.residents = {} /\ VoicesKnown(p)

\* open_host
Begin(p) ==
  /\ start[p] = 0
  /\ start' = [start EXCEPT ![p] = 1]
  /\ looked' = [looked EXCEPT ![p] = FALSE]
  /\ raced' = [q \in Procs |-> IF q = p THEN start[3 - p] \in 1..(Up - 1)
                               ELSE raced[q] \/ start[q] \in 1..(Up - 1)]
  /\ UNCHANGED <<package, stored, reign, broken>> /\ UNCHANGED storyVars

\* Faulty variant: a world that is there is taken for a whole one.
SkipSeeded(k) == IF Parts[k] = "world" THEN Up ELSE k + 1

\* The seeds are idempotent one by one, so a start that finds a part goes on
\* with the next and completes what an interrupted one left.
AfterFound(k) == k + 1

\* The start fails closed; ghost: was it alone and its package sound?
Fail(p) ==
  /\ start' = [start EXCEPT ![p] = 0]
  /\ broken' = (broken \/ (~raced[p] /\ WellFormed(package)))

\* Each seed looks for its row first; what is there is kept as found.
Look(p) ==
  LET k == start[p] IN
  /\ k \in 1..(Up - 1) /\ Parts[k] \notin {"epoch", "package"} /\ ~looked[p]
  /\ IF Parts[k] \in stored
     THEN start' = [start EXCEPT ![p] = AfterFound(k)] /\ UNCHANGED looked
     ELSE looked' = [looked EXCEPT ![p] = TRUE] /\ UNCHANGED start
  /\ UNCHANGED <<package, stored, reign, raced, broken>> /\ UNCHANGED storyVars

\* The insert, in a transaction of its own, of the row and what comes with
\* it; a row that has come in between is a refusal and the start fails.
Insert(p, item, with, refused) ==
  /\ start[p] \in 1..(Up - 1) /\ Parts[start[p]] = item /\ looked[p]
  /\ looked' = [looked EXCEPT ![p] = FALSE]
  /\ IF refused THEN Fail(p) /\ UNCHANGED stored
     ELSE /\ stored' = stored \cup {item} \cup with
          /\ start' = [start EXCEPT ![p] = @ + 1] /\ UNCHANGED broken
  /\ UNCHANGED <<package, reign, raced>> /\ UNCHANGED storyVars

Taken(item) == item \in stored

\* apply_migrations; the penpal's card comes with a migration.
Migrate(p) == Insert(p, "schema", {"penpal"}, Taken("schema"))

\* ensure_official_cards; the card store asks for the current epoch.
SeedCard(p) == Insert(p, "friend", {}, Taken("friend") \/ reign # p)

\* seed_world_lore_facts: INSERT OR IGNORE.
SeedLore(p) == Insert(p, "lore", {}, FALSE)

\* The rows of a world, in the order of ensure_builtin_worlds.
CreateWorldRow(p) == Insert(p, "world", {}, Taken("world"))
SeedBible(p) == Insert(p, "bible", {}, Taken("bible"))
BindActor(p) == Insert(p, "actor", {}, Taken("actor"))
SeedActorProfile(p) == Insert(p, "profile", {}, Taken("profile"))
SeedPlayerCharacter(p) == Insert(p, "player", {}, Taken("player"))
CreateStoryline(p) == Insert(p, "line", {}, Taken("line"))

\* open_runtime_epoch
OpenEpoch(p) ==
  /\ start[p] \in 1..(Up - 1) /\ Parts[start[p]] = "epoch"
  /\ reign' = p /\ start' = [start EXCEPT ![p] = @ + 1]
  /\ UNCHANGED <<package, stored, looked, raced, broken>> /\ UNCHANGED storyVars

\* ensure_builtin_worlds: the package must decode and every cast member must
\* have a card before the first row of the world is written.
LoadPackage(p) ==
  /\ start[p] \in 1..(Up - 1) /\ Parts[start[p]] = "package"
  /\ IF WellFormed(package) /\ {"penpal", "friend"} \subseteq stored
     THEN start' = [start EXCEPT ![p] = @ + 1] /\ UNCHANGED broken
     ELSE Fail(p)
  /\ UNCHANGED <<package, stored, reign, looked, raced>> /\ UNCHANGED storyVars

\* A process ends anywhere, also between two steps of a request; an edit that
\* was applied but not yet struck from the waiting list stays on it.
Die(p) ==
  /\ start[p] # 0
  /\ start' = [start EXCEPT ![p] = 0] /\ looked' = [looked EXCEPT ![p] = FALSE]
  /\ leg' = [leg EXCEPT ![p] = IdleLeg]
  /\ torn' = (torn \/ leg[p].at = "strike")
  /\ UNCHANGED <<package, stored, reign, raced, broken, bible, waiting, chapter, wish, due>>

Serving(p) == start[p] = Up /\ leg[p].at = "idle"

\* character_create
CreateCard(p) ==
  /\ Serving(p) /\ reign = p /\ "mine" \notin stored
  /\ stored' = stored \cup {"mine"}
  /\ UNCHANGED <<package, reign, start, looked, raced, broken>> /\ UNCHANGED storyVars

\* Faulty variant: any card may be deleted.
AnyCard(c) == c \in stored

\* delete refuses a built-in card.
Deletable(c) == c \in stored /\ c = "mine"

\* character_delete
DeleteCard(p, c) ==
  /\ Serving(p) /\ reign = p /\ Deletable(c)
  /\ stored' = stored \ {c}
  /\ UNCHANGED <<package, reign, start, looked, raced, broken>> /\ UNCHANGED storyVars

(***************************************************************************)
(* The dual-seat world and its Bible                                       *)
(***************************************************************************)
At(p, where) == leg' = [leg EXCEPT ![p] = [IdleLeg EXCEPT !.at = where]]
ToPlan == IF chapter = "none" THEN "plan" ELSE "idle"

\* start: the world is looked for ...
StartStory(p) ==
  /\ Serving(p) /\ At(p, IF bible.rev = 0 THEN "found" ELSE ToPlan)
  /\ UNCHANGED hostVars /\ UNCHANGED <<bible, waiting, chapter, wish, due, torn>>

\* _replay_answer: a request that comes second is answered as a replay while
\* the Bible is still the founding one.
Replayable == bible.rev = 1

\* ... and created in one transaction.
CreateWorld(p) ==
  /\ leg[p].at = "found"
  /\ bible' = [bible EXCEPT !.rev = IF @ = 0 THEN 1 ELSE @]
  /\ At(p, IF bible.rev = 0 \/ Replayable THEN "word" ELSE "idle")
  /\ UNCHANGED hostVars /\ UNCHANGED <<waiting, chapter, wish, due, torn>>

\* The language word is a setting, which no property here reads.
SetLanguage(p) ==
  /\ leg[p].at = "word" /\ At(p, ToPlan)
  /\ UNCHANGED hostVars /\ UNCHANGED <<bible, waiting, chapter, wish, due, torn>>

\* _plan_situation: the planner answers or fails.
PlanChapter(p) ==
  /\ leg[p].at = "plan" /\ At(p, "idle")
  /\ chapter' \in {chapter, "open"}
  /\ UNCHANGED hostVars /\ UNCHANGED <<bible, waiting, wish, due, torn>>

\* The chapter is told to its end (the story engine).
CloseChapter ==
  /\ chapter = "open" /\ chapter' = "closed"
  /\ UNCHANGED hostVars /\ UNCHANGED <<bible, waiting, leg, wish, due, torn>>

Overlay(text, edits) ==
  [f \in Fields |->
     LET hits == {i \in DOMAIN edits : edits[i].field = f} IN
     IF hits = {} THEN text[f] ELSE edits[CHOOSE i \in hits : \A j \in hits : j <= i].value]

\* bible_edit, for the next chapter: the list is saved in a setting, whose
\* write the fence refuses to a process that is no longer the newest.
EditLater(p, f, v) ==
  LET e == [field |-> f, value |-> v] IN
  /\ Serving(p) /\ Len(waiting) < MaxPending
  /\ IF reign = p THEN waiting' = Append(waiting, e) /\ due' = Append(due, e)
     ELSE UNCHANGED <<waiting, due>>
  /\ UNCHANGED hostVars /\ UNCHANGED <<bible, chapter, leg, wish, torn>>

\* bible_edit, now: the whole content goes back with one field changed.
EditNow(p, f, v) ==
  /\ Serving(p) /\ bible.rev \in 1..(MaxRevision - 1)
  /\ leg' = [leg EXCEPT ![p] = [at |-> "revise", seen |-> bible.rev,
                                edits |-> <<[field |-> f, value |-> v]>>,
                                text |-> [bible.text EXCEPT ![f] = v]]]
  /\ UNCHANGED hostVars /\ UNCHANGED <<bible, waiting, chapter, wish, due, torn>>

\* Faulty variant: the revision the editor saw is not compared.
AnyRevision(p) == TRUE

\* revise_bible compares the revision the editor saw.
Unmoved(p) == leg[p].seen = bible.rev

\* What was revised takes the edits' words; ghost: so do the wishes.
Landed(p) ==
  /\ bible' = [rev |-> bible.rev + 1, text |-> leg[p].text]
  /\ wish' = Overlay(wish, leg[p].edits)

Revise(p) ==
  /\ leg[p].at = "revise" /\ At(p, "idle")
  /\ IF Unmoved(p) THEN Landed(p) ELSE UNCHANGED <<bible, wish>>
  /\ UNCHANGED hostVars /\ UNCHANGED <<waiting, chapter, due, torn>>

\* next_chapter: the waiting edits are applied as one revision ...
NextChapter(p) ==
  /\ Serving(p) /\ chapter = "closed"
  /\ IF waiting = <<>> THEN At(p, "plan")
     ELSE leg' = [leg EXCEPT ![p] = [at |-> "apply", seen |-> bible.rev, edits |-> due,
                                     text |-> Overlay(bible.text, waiting)]]
  /\ bible.rev < MaxRevision
  /\ torn' = (torn \/ \E q \in Procs : leg[q].at = "strike")
  /\ UNCHANGED hostVars /\ UNCHANGED <<bible, waiting, chapter, wish, due>>

ApplyWaiting(p) ==
  /\ leg[p].at = "apply"
  /\ IF Unmoved(p)
     THEN /\ Landed(p) /\ At(p, "strike")
          /\ due' = SubSeq(due, Len(leg[p].edits) + 1, Len(due))
     ELSE At(p, "idle") /\ UNCHANGED <<bible, wish, due>>
  /\ UNCHANGED hostVars /\ UNCHANGED <<waiting, chapter, torn>>

\* Faulty variant: the edits stay on the list.
KeepWaiting(p) == waiting

\* _write_bookkeeping clears the list; a write the fence refuses is swallowed.
Struck(p) == IF reign = p THEN <<>> ELSE waiting

\* ... and struck from the list before the chapter is planned.
StrikeWaiting(p) ==
  /\ leg[p].at = "strike" /\ At(p, "plan")
  /\ waiting' = Struck(p)
  /\ torn' = (torn \/ reign # p)
  /\ UNCHANGED hostVars /\ UNCHANGED <<bible, chapter, wish, due>>

Next ==
  \/ CloseChapter
  \/ \E p \in Procs :
       \/ Begin(p) \/ Look(p) \/ OpenEpoch(p) \/ LoadPackage(p) \/ Die(p)
       \/ Migrate(p) \/ SeedCard(p) \/ SeedLore(p)
       \/ CreateWorldRow(p) \/ SeedBible(p) \/ BindActor(p)
       \/ SeedActorProfile(p) \/ SeedPlayerCharacter(p) \/ CreateStoryline(p)
       \/ CreateCard(p) \/ \E c \in Cards : DeleteCard(p, c)
       \/ StartStory(p) \/ CreateWorld(p) \/ SetLanguage(p) \/ PlanChapter(p)
       \/ Revise(p) \/ NextChapter(p) \/ ApplyWaiting(p) \/ StrikeWaiting(p)
       \/ \E f \in Fields, v \in Texts : EditLater(p, f, v) \/ EditNow(p, f, v)

Spec == Init /\ [][Next]_foundVars

(***************************************************************************)
(* Properties                                                              *)
(***************************************************************************)
\* A host that serves has everything its start promises, whatever starts died
\* half-way before it and whatever was changed or deleted since
\* (ensure_builtin_worlds, ensure_official_cards, delete).
StartedIsWhole ==
  \A p \in Procs : start[p] = Up => Items \ {"mine", "epoch", "package"} \subseteq stored

\* Nothing the user can do to cards and worlds, and no death of an earlier
\* process, keeps the next start from succeeding: a start with a sound
\* package fails only when another start ran during it.
StartsSucceed == ~broken

\* Every field of the Bible says what the user last made it say: no edit is
\* lost to a concurrent one, and an edit for the next chapter takes effect
\* once.  The exception is a process that ended, lost its fence, or was
\* overtaken by another one's next_chapter, between applying the waiting
\* edits and striking them (_apply_pending_bible).
BibleIsAsDirected == torn \/ bible.rev = 0 \/ bible.text = wish
=============================================================================
