--------------------------- MODULE StoryContract ---------------------------
(***************************************************************************)
(* What the world engine promises of the committed story, whatever was     *)
(* retried, replayed or lost on the way: one log of rulings and prose      *)
(* segments.  Chapters run one at a time and close for good; the prose     *)
(* that follows a ruling in its scene is that ruling's continuation, and   *)
(* no ruling is made while another one waits to be told; a scene ends with *)
(* its last segment.                                                       *)
(***************************************************************************)
EXTENDS Integers, Sequences

CONSTANTS ChapterIds, SceneIds

VARIABLES
    log,       \* rulings and segments in the order they were committed
    running,   \* the chapter under way, 0 when there is none
    closed     \* the chapters settled

promise == <<log, running, closed>>

Entries(c, s) == SelectSeq(log, LAMBDA m : m.c = c /\ m.s = s)
Told(c, s) == SelectSeq(log, LAMBDA m : m.c = c /\ m.s = s /\ m.kind = "SEGMENT")
Ruled(c, s) == SelectSeq(log, LAMBDA m : m.c = c /\ m.s = s /\ m.kind = "ACTION")

\* The ruling the scene's next segment must continue, 0 when it owes none.
Owes(c, s) ==
    LET e == Entries(c, s) IN
    IF e # <<>> /\ e[Len(e)].kind = "ACTION" THEN e[Len(e)].n ELSE 0
Ended(c, s) == LET e == Entries(c, s) IN e # <<>> /\ e[Len(e)].last
Runs(c) == running \in {0, c} /\ c \notin closed

Land(c, s, kind, n, ref, last) ==
    /\ Runs(c) /\ ~Ended(c, s)
    /\ log' = Append(log, [kind |-> kind, c |-> c, s |-> s, n |-> n, ref |-> ref, last |-> last])
    /\ running' = c /\ UNCHANGED closed

Rule(c, s) ==
    Owes(c, s) = 0 /\ Land(c, s, "ACTION", Len(Ruled(c, s)) + 1, 0, FALSE)
Tell(c, s) ==
    \E last \in BOOLEAN : Land(c, s, "SEGMENT", Len(Told(c, s)) + 1, Owes(c, s), last)
Close(c) ==
    /\ running = c /\ \A s \in SceneIds : Owes(c, s) = 0
    /\ running' = 0 /\ closed' = closed \union {c} /\ UNCHANGED log

Init == log = <<>> /\ running = 0 /\ closed = {}
Next == \E c \in ChapterIds : Close(c) \/ \E s \in SceneIds : Rule(c, s) \/ Tell(c, s)
Spec == Init /\ [][Next]_promise

=============================================================================
