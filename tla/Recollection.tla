---------------------------- MODULE Recollection ----------------------------
(***************************************************************************)
(* What the persona remembers of the user (relationship/recorder.py,       *)
(* validation.py, sensitivity.py, controller.py and store.py): the job of  *)
(* a turn reads the active memories, refuses some of the candidates, and   *)
(* commits the others one by one.  It may die anywhere and run again, and  *)
(* the jobs of several turns may lie across one another.                   *)
(***************************************************************************)
EXTENDS Naturals, FiniteSets

CONSTANTS
  Told,            \* turns with a relationship job
  Sayings,         \* contents, up to normalize_memory_content
  Natures,         \* what a turn can be: [command, said, delivered]
  MaxOffers        \* bound: candidates offered

VARIABLES
  nature,          \* what each turn is
  recalled,        \* relationship_memory rows, never deleted here
  draft,           \* per turn: the run of its job, [open, known]
  offers           \* candidates offered so far

recallVars == <<nature, recalled, draft, offers>>

Types == {"USER_STATED_FACT", "SHARED_EVENT", "OPEN_THREAD"}

\* Provenance, sensitivity class and persistence authorization together.
Stated == {"stated", "sensitive, stated", "sensitive, with consent"}
Grades == Stated \cup {"inferred", "sensitive, inferred"}

NoId == <<>>
Asleep == [open |-> FALSE, known |-> {}]

\* memory_id_for
MemoryId(r) == <<r.type, r.text, r.turn>>
Ids == {MemoryId(r) : r \in recalled}
ActiveRows == {r \in recalled : r.status = "ACTIVE"}

\* RelationshipMemoryCandidate: what may be offered while these rows exist.
Candidates ==
  [type : Types, text : Sayings, grade : Grades, cites : Told, over : {NoId} \cup Ids]

Init ==
  /\ nature \in [Told -> Natures]
  /\ recalled = {} /\ offers = 0
  /\ draft = [t \in Told |-> Asleep]

\* RelationshipProjectionExecutor.project, get_existing_summary: the slice of
\* the turn and the active memories are read once, at the start of the run.
StartRun(t) ==
  /\ draft[t] = Asleep
  /\ draft' = [draft EXCEPT ![t] = [open |-> TRUE, known |-> {MemoryId(r) : r \in ActiveRows}]]
  /\ UNCHANGED <<nature, recalled, offers>>

\* decide_persistence, asked by the recorder and again by the controller.
PersistenceAllowed(c) == c.grade \notin {"sensitive, stated", "sensitive, inferred"}

\* Faulty variant: a command turn may state facts.
CommandsSpeak(t, c) ==
  /\ PersistenceAllowed(c)
  /\ c.type = "SHARED_EVENT" => nature[t].delivered
  /\ c.cites = t /\ (c.over # NoId => c.over \in draft[t].known)

\* _refuse_candidate: what a command turn, an empty utterance, an undelivered
\* answer, a citation of another turn or a correction out of scope rules out.
Heard(t, c) ==
  /\ PersistenceAllowed(c)
  /\ nature[t].command => c.type \notin {"USER_STATED_FACT", "SHARED_EVENT"}
  /\ c.grade \in Stated => nature[t].said
  /\ c.type = "SHARED_EVENT" => nature[t].delivered
  /\ c.cites = t
  /\ c.over # NoId => c.over \in draft[t].known

\* _proposal: the scope and the turn are those of the slice that was read.
Proposal(t, c) ==
  [type |-> c.type, text |-> c.text, grade |-> c.grade, turn |-> t, over |-> c.over,
   status |-> "ACTIVE"]

\* validate_proposal
Sound(p) ==
  /\ p.type = "USER_STATED_FACT" => p.grade \in Stated
  /\ p.over # MemoryId(p)

\* find_duplicate
SameSaying(p, r) == r.type = p.type /\ r.text = p.text

\* Faulty variant: a correction does not look whether its target is active.
AnyTarget(p, r) == MemoryId(r) = p.over /\ r.type = p.type

\* _supersede: the row to correct, of the same type and still active.
Corrects(p, r) == MemoryId(r) = p.over /\ r.type = p.type /\ r.status = "ACTIVE"

\* commit_memory, in one transaction: an id that is there is a replay or a
\* conflict; a correction flips its target and goes in, unless it says what
\* the target says; anything else goes in unless an active row says it.
CommittedRows(p) ==
  IF MemoryId(p) \in Ids THEN recalled
  ELSE IF p.over = NoId
    THEN IF \E r \in ActiveRows : SameSaying(p, r) THEN recalled ELSE recalled \cup {p}
    ELSE (UNION {IF SameSaying(p, r) THEN recalled
                 ELSE (recalled \ {r}) \cup {[r EXCEPT !.status = "SUPERSEDED"], p} :
                   r \in {r \in recalled : Corrects(p, r)}})
           \cup (IF \E r \in recalled : Corrects(p, r) THEN {} ELSE recalled)

\* propose_memory
Written(p) == IF Sound(p) THEN CommittedRows(p) ELSE recalled

\* record_turn: a refusal is counted and the next candidate is taken.
Propose(t) ==
  /\ draft[t] # Asleep /\ offers < MaxOffers
  /\ \E c \in Candidates :
       /\ Heard(t, c)
       /\ recalled' = Written(Proposal(t, c))
  /\ offers' = offers + 1
  /\ UNCHANGED <<nature, draft>>

\* The run is over, or its process died: the job may be run again.
EndRun(t) ==
  /\ draft[t] # Asleep
  /\ draft' = [draft EXCEPT ![t] = Asleep]
  /\ UNCHANGED <<nature, recalled, offers>>

\* A reconciled delivery: the answer of the turn reached the user after all.
Delivered(t) ==
  /\ ~nature[t].delivered
  /\ nature' = [nature EXCEPT ![t].delivered = TRUE]
  /\ UNCHANGED <<recalled, draft, offers>>

Next == \E t \in Told : StartRun(t) \/ Propose(t) \/ EndRun(t) \/ Delivered(t)

Spec == Init /\ [][Next]_recallVars

(***************************************************************************)
(* Properties                                                              *)
(***************************************************************************)
\* Corrections form chains: a row is SUPERSEDED exactly when one other row of
\* its type replaced it, and never two, whichever runs read it while it was
\* still active (_supersede, commit_memory).
CorrectionsAreChains ==
  \A r \in recalled :
    LET by == {s \in recalled : s.over = MemoryId(r)} IN
    /\ Cardinality(by) = IF r.status = "SUPERSEDED" THEN 1 ELSE 0
    /\ \A s \in by : s.type = r.type

\* Every memory rests on what the turn it was read from really held: the user's
\* words for what the user stated, a delivered answer for what both lived
\* through, nothing of either from a command turn, and the user's consent for
\* what is sensitive (_refuse_candidate, decide_persistence, validate_proposal).
MemoriesAreGrounded ==
  \A r \in recalled :
    /\ r.type = "USER_STATED_FACT" \/ r.grade \in Stated => nature[r.turn].said
    /\ r.type = "SHARED_EVENT" => nature[r.turn].delivered
    /\ r.type # "OPEN_THREAD" => ~nature[r.turn].command
    /\ r.grade \notin {"stated", "inferred"} => r.grade = "sensitive, with consent"
=============================================================================
