------------------------------ MODULE Deletion ------------------------------
(***************************************************************************)
(* Source-aware deletion (deletion/store.py, deletion/controller.py): one  *)
(* transaction that removes the rows of a scope and leaves tombstones,     *)
(* then the rebuilds of what was derived from them, each a call of its own *)
(* after the commit.  A process may die between two of them.               *)
(*                                                                         *)
(* Two conversations share a persona, so memories formed in one are seen,  *)
(* and superseded, in the other (relationship/store.py).  One turn stands  *)
(* for a conversation's turns and one lesson for its teaching moment,      *)
(* decision cycles, actions and delivery records.                          *)
(***************************************************************************)
EXTENDS Naturals, Sequences, FiniteSets

CONSTANTS
  Chats,        \* conversation ids of one persona
  Memories,     \* relationship_memory ids
  Studied,      \* learning targets
  MaxRequests   \* bound: deletion requests

VARIABLES
  chats,        \* conversations with a completed turn
  claims,       \* evidence_claim rows <<chat, target>>
  learner,      \* learner_target_state: target -> the claims it was computed from
  review,       \* schedule_item: target -> the learner row it was computed from
  memory,       \* relationship_memory: id -> row
  episode,      \* episode: chat -> the memories it was derived from
  lesson,       \* chats with a teaching_moment (and what hangs off it)
  lock,         \* chats with an active_teaching_lock row
  legs,         \* provenance columns of kept rows: <<table, chat>>
  tomb,         \* deletion_tombstone: <<kind, id>>
  todo,         \* rebuild calls the controller still has to make
  requests,
  refused,      \* the last request answered an Err
  interrupted   \* a process died with rebuilds to do

delVars == <<chats, claims, learner, review, memory, episode, lesson, lock, legs, tomb,
             todo, requests, refused, interrupted>>

Absent == {<<"absent", "absent">>}
NoEpisode == {"absent"}
NoMemory == [from |-> "none", status |-> "none", over |-> "none"]
Held == {m \in Memories : memory[m] # NoMemory}

Init ==
  /\ chats = {} /\ claims = {} /\ lesson = {} /\ lock = {} /\ legs = {} /\ tomb = {}
  /\ learner = [t \in Studied |-> Absent]
  /\ review = [t \in Studied |-> Absent]
  /\ memory = [m \in Memories |-> NoMemory]
  /\ episode = [c \in Chats |-> NoEpisode]
  /\ todo = <<>> /\ requests = 0 /\ refused = FALSE /\ interrupted = FALSE

(***************************************************************************)
(* What the rest of the program writes                                     *)
(***************************************************************************)
\* Between two requests the work thread takes turns; not while the controller
\* is still rebuilding.
Quiet == todo = <<>>

\* is_tombstoned: an id is never taken again after its deletion.
Gone(kind, i) == <<kind, i>> \in tomb

Converse(c, taught) ==
  /\ Quiet /\ c \notin chats /\ ~Gone("conversation", c)
  /\ chats' = chats \cup {c}
  /\ lesson' = IF taught THEN lesson \cup {c} ELSE lesson
  /\ lock' = IF taught THEN lock \cup {c} ELSE lock
  /\ legs' = IF taught THEN legs \cup {<<"planner_constraint", c>>, <<"planning_ledger_event", c>>}
             ELSE legs
  /\ UNCHANGED <<claims, learner, review, memory, episode, tomb, todo, requests, refused,
                 interrupted>>

Evidence(c, t) ==
  /\ Quiet /\ c \in chats /\ <<c, t>> \notin claims
  /\ claims' = claims \cup {<<c, t>>}
  /\ learner' = [learner EXCEPT ![t] = {k \in claims' : k[2] = t}]
  /\ review' = [review EXCEPT ![t] = learner'[t]]
  /\ UNCHANGED <<chats, memory, episode, lesson, lock, legs, tomb, todo, requests, refused,
                 interrupted>>

\* commit_memory and _supersede: the superseded row is flipped and kept.
Remember(c, m, over) ==
  /\ Quiet /\ c \in chats /\ memory[m] = NoMemory /\ ~Gone("memory", m)
  /\ over # "none" => memory[over].status = "ACTIVE"
  /\ memory' = [n \in Memories |->
       IF n = m THEN [from |-> c, status |-> "ACTIVE", over |-> over]
       ELSE IF n = over THEN [memory[n] EXCEPT !.status = "SUPERSEDED"]
       ELSE memory[n]]
  /\ episode' = [d \in Chats |->
       IF d \in chats THEN {n \in Memories : memory'[n].status = "ACTIVE"} ELSE episode[d]]
  /\ UNCHANGED <<chats, claims, learner, review, lesson, lock, legs, tomb, todo, requests,
                 refused, interrupted>>

LessonEnds(c) ==
  /\ Quiet /\ c \in lock
  /\ lock' = lock \ {c}
  /\ UNCHANGED <<chats, claims, learner, review, memory, episode, lesson, legs, tomb, todo,
                 requests, refused, interrupted>>

(***************************************************************************)
(* execute                                                                 *)
(***************************************************************************)
SeqOf(S) == CHOOSE s \in [1..Cardinality(S) -> S] : \A x \in S : \E i \in DOMAIN s : s[i] = x

\* Faulty variant: every memory that names the conversation goes, and so does
\* what superseded it.
EveryMemory(c) == Held

\* _solely_derived_memories.
SolelyFrom(c) == {m \in Held : memory[m].from = c}

\* The one foreign key of relationship_memory the removal does not order: a
\* kept memory names a removed one as the memory it superseded.
Dangles(removed) == \E m \in Held \ removed : memory[m].over \in removed

\* _collect_episode_rebuilds: the persona's other conversations.
OtherEpisodes(c) == chats \ {c}

Begin == Quiet /\ requests < MaxRequests /\ requests' = requests + 1

\* Faulty variant: the rebuild of the targets is forgotten.
OnlyEpisodes(targets, episodes) == SeqOf({<<"episode", d>> : d \in episodes})

\* The rebuild calls of DeletionController.execute, in its order.
Rebuilds(targets, episodes) ==
  SeqOf({<<"learner", t>> : t \in targets}) \o SeqOf({<<"review", t>> : t \in targets})
    \o SeqOf({<<"episode", d>> : d \in episodes})

\* Faulty variant: the columns of kept rows go on naming the removed turns.
KeepLegs(c) == legs

\* _clear_constraint_legs and _clear_ledger_provenance_legs.
ClearedLegs(c) == {l \in legs : l[2] # c}

\* _collect_affected_targets
AffectedTargets(c) == {k[2] : k \in {k \in claims : k[1] = c}}

\* _write_tombstones: one per entity, written once.
Entombed(kind, ids) == tomb \cup {<<kind, i>> : i \in ids}

\* The tables that name the conversation or one of its turns, children first.
RemoveChatRows(c) ==
  /\ lock' = lock \ {c}
  /\ episode' = [episode EXCEPT ![c] = NoEpisode]
  /\ claims' = {k \in claims : k[1] # c}
  /\ legs' = ClearedLegs(c)
  /\ lesson' = lesson \ {c}
  /\ chats' = chats \ {c}

\* _conversation: the transaction fails as a whole on a foreign key.
DeleteConversation(c) ==
  LET gone == SolelyFrom(c) IN
  /\ Begin
  /\ c \in chats
  /\ refused' = Dangles(gone)
  /\ IF Dangles(gone)
     THEN UNCHANGED <<chats, claims, memory, episode, lesson, lock, legs, tomb, todo>>
     ELSE /\ RemoveChatRows(c)
          /\ memory' = [m \in Memories |-> IF m \in gone THEN NoMemory ELSE memory[m]]
          /\ tomb' = Entombed("conversation", {c}) \cup Entombed("memory", gone)
          /\ todo' = Rebuilds(AffectedTargets(c), OtherEpisodes(c))
  /\ UNCHANGED <<learner, review, interrupted>>

\* _learning_target: evidence, state, schedule and ledger of one target; the
\* derived rows go with their sources, so nothing is rebuilt.
DeleteTarget(t) ==
  /\ Begin
  /\ claims' = {k \in claims : k[2] # t}
  /\ learner' = [learner EXCEPT ![t] = Absent]
  /\ review' = [review EXCEPT ![t] = Absent]
  /\ refused' = FALSE
  /\ UNCHANGED <<chats, memory, episode, lesson, lock, legs, tomb, todo, interrupted>>

\* _all_learning_history: LEARNING_HISTORY_SWEPT_TABLES has the moments and
\* the ledger, not the lock.
DeleteLearningHistory ==
  /\ Begin
  /\ claims' = {} /\ lesson' = {}
  /\ learner' = [t \in Studied |-> Absent]
  /\ review' = [t \in Studied |-> Absent]
  /\ legs' = {l \in legs : l[1] # "planning_ledger_event"}
  /\ refused' = FALSE
  /\ UNCHANGED <<chats, memory, episode, lock, tomb, todo, interrupted>>

\* _relationship_pair: all memories of the persona in one statement.
DeletePair ==
  /\ Begin
  /\ memory' = [m \in Memories |-> NoMemory]
  /\ tomb' = Entombed("memory", Held)
  /\ todo' = Rebuilds({}, chats)
  /\ refused' = FALSE
  /\ UNCHANGED <<chats, claims, learner, review, episode, lesson, lock, legs, interrupted>>

\* _all_user_data.
DeleteEverything ==
  /\ Begin
  /\ chats' = {} /\ claims' = {} /\ lesson' = {} /\ lock' = {} /\ legs' = {}
  /\ learner' = [t \in Studied |-> Absent]
  /\ review' = [t \in Studied |-> Absent]
  /\ memory' = [m \in Memories |-> NoMemory]
  /\ episode' = [c \in Chats |-> NoEpisode]
  /\ tomb' = Entombed("conversation", chats) \cup Entombed("memory", Held)
  /\ refused' = FALSE
  /\ UNCHANGED <<todo, interrupted>>

(***************************************************************************)
(* The rebuilds                                                            *)
(***************************************************************************)
\* rebuild_learner_state over what is left; recompute_schedule_item for a row
\* that exists; the EPISODE job of the anchor turn.
Rebuild ==
  /\ todo # <<>>
  /\ LET kind == Head(todo)[1]  key == Head(todo)[2]
     IN /\ learner' = IF kind = "learner"
                      THEN [learner EXCEPT ![key] = {k \in claims : k[2] = key}] ELSE learner
        /\ review' = IF kind = "review" /\ review[key] # Absent
                     THEN [review EXCEPT ![key] = learner[key]] ELSE review
        /\ episode' = IF kind = "episode"
                      THEN [episode EXCEPT ![key] = {n \in Memories : memory[n].status = "ACTIVE"}]
                      ELSE episode
  /\ todo' = Tail(todo)
  /\ UNCHANGED <<chats, claims, memory, lesson, lock, legs, tomb, requests, refused, interrupted>>

Die ==
  /\ todo # <<>>
  /\ todo' = <<>>
  /\ interrupted' = TRUE
  /\ UNCHANGED <<chats, claims, learner, review, memory, episode, lesson, lock, legs, tomb,
                 requests, refused>>

Next ==
  \/ \E c \in Chats, taught \in BOOLEAN : Converse(c, taught)
  \/ \E c \in Chats, t \in Studied : Evidence(c, t)
  \/ \E c \in Chats, m \in Memories, over \in Memories \cup {"none"} :
       over # m /\ Remember(c, m, over)
  \/ \E c \in Chats : LessonEnds(c) \/ DeleteConversation(c)
  \/ \E t \in Studied : DeleteTarget(t)
  \/ DeleteLearningHistory \/ DeletePair \/ DeleteEverything
  \/ Rebuild \/ Die

(***************************************************************************)
(* Properties                                                              *)
(***************************************************************************)
\* Nothing that was kept names what was removed: claims, memories and the
\* provenance columns of kept rows only name conversations that still exist,
\* and a memory only supersedes one that is still there.
NoDanglingProvenance ==
  /\ \A k \in claims : k[1] \in chats
  /\ \A m \in Held : memory[m].from \in chats /\ memory[m].over \in Held \cup {"none"}
  /\ \A l \in legs : l[2] \in chats

\* Deleting one conversation takes no memory that another one is the source
\* of.
OthersKeepTheirMemories ==
  [][\A c \in Chats : c \in chats /\ c \notin chats' /\ chats' # {} =>
       \A m \in Held : memory[m].from # c => memory'[m] = memory[m]]_delVars

\* Once the controller has made its rebuilds, no derived row was computed from
\* deleted evidence or a deleted memory, unless the process died before it
\* could make them.
DerivedFromWhatIsLeft ==
  Quiet /\ ~interrupted =>
    /\ \A t \in Studied : learner[t] \subseteq claims \cup Absent
    /\ \A t \in Studied : review[t] \subseteq claims \cup Absent
    /\ \A c \in chats : episode[c] \subseteq Held \cup NoEpisode

\* Not so: "runs one DeletionRequest to completion in one short transaction",
\* that is, the deletion of an existing conversation is carried out.  A memory
\* of another conversation that superseded one of this one blocks it.
DeletionsComplete == ~refused
=============================================================================
