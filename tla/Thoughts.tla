------------------------------ MODULE Thoughts ------------------------------
(***************************************************************************)
(* What the characters of a scene make of it (world/turns.py,              *)
(* world/memory.py): a beat asks the responding characters, records its    *)
(* event once, lands their private thoughts one by one, and commits its    *)
(* segment.  A refused model call or a crash ends the run anywhere; the    *)
(* beat is then driven again over what is durable.  The tick does not move *)
(* while a beat is under way, so it is left out of the rows.               *)
(***************************************************************************)
EXTENDS Naturals, FiniteSets

CONSTANTS
  Actors,      \* the cast
  Player,      \* the user's character, not of the cast
  Thinkings,   \* private thoughts a character may answer
  Beats,       \* the beats of the scene, in order: "world", "reply" or "settle"
  MaxRuns      \* bound: runs of a drive

VARIABLES
  present,     \* the dossier's participants
  happened,    \* world_event rows: beat -> [run, who]
  minds,       \* actor_memory rows
  beat,        \* the beat to drive
  drive,       \* the drive in progress
  runs         \* runs so far

thoughtVars == <<present, happened, minds, beat, drive, runs>>

Away == [pc |-> "away", asked |-> {}, said |-> {}]
KindOf(b) == Beats[b]

Init ==
  /\ present \in {P \cup {Player} : P \in SUBSET Actors}
  /\ happened = <<>> /\ minds = {}
  /\ beat = 1 /\ drive = Away /\ runs = 0

Durable == UNCHANGED <<present, happened, minds, beat, runs>>

\* Faulty variant: a beat is asked for again whatever it already recorded.
AskAgain(b) == TRUE

\* offstage_narration: a world beat or a settlement whose event is there is
\* not dispatched again; a reply always is.
MustAsk(b) == KindOf(b) = "reply" \/ b \notin DOMAIN happened

\* _drive_beat, _drive_reply and settle_chapter up to the characters.
StartBeat ==
  /\ drive.pc = "away" /\ beat \in DOMAIN Beats /\ runs < MaxRuns
  /\ runs' = runs + 1
  /\ drive' = [Away EXCEPT !.pc = IF MustAsk(beat) THEN "dispatch" ELSE "narrate"]
  /\ UNCHANGED <<present, happened, minds, beat>>

\* Faulty variant: whoever the model names answers.
AnyWord(named) == named

\* _gather_proposals: the named participants other than the player, whatever
\* the model named; a settlement asks every one of them.
Responders(named) ==
  IF KindOf(beat) = "settle" THEN present \ {Player} ELSE named \cap (present \ {Player})

\* _dispatch: a word outside the vocabulary refuses the whole decision.
Dispatch ==
  /\ drive.pc = "dispatch"
  /\ \E named \in SUBSET (Actors \cup {Player}) :
       drive' = IF named \subseteq present \ {Player} \/ KindOf(beat) = "settle"
                THEN [drive EXCEPT !.pc = "propose", !.asked = Responders(named)] ELSE Away
  /\ Durable

\* The proposals of all who were asked, or a refused call; a thought may be empty.
Propose ==
  /\ drive.pc = "propose"
  /\ \E heard \in SUBSET (drive.asked \X Thinkings) :
       /\ \A p, q \in heard : p[1] = q[1] => p = q
       /\ drive' = [drive EXCEPT !.pc = "rule", !.said = heard]
  /\ Durable

\* _land_world_event (the participants are who answered), commit_action (the
\* player and whom the ruling names; a stored ruling is replayed) and the
\* offstage event of a settlement (everyone but the player).
Rule ==
  /\ drive.pc = "rule"
  /\ \E named \in SUBSET present :
       /\ KindOf(beat) = "reply" => Player \in named
       /\ KindOf(beat) = "world" => named = drive.asked
       /\ KindOf(beat) = "settle" => named = present \ {Player}
       /\ happened' = IF beat \in DOMAIN happened THEN happened
                      ELSE [b \in DOMAIN happened \cup {beat} |->
                              IF b = beat THEN [run |-> runs, who |-> named] ELSE happened[b]]
  /\ drive' = [drive EXCEPT !.pc = "think"]
  /\ UNCHANGED <<present, minds, beat, runs>>

\* Faulty variant: the row of a thought that is there is written over.
Overwritten(row) == {m \in minds : <<m.beat, m.who, m.kind>> # <<row.beat, row.who, row.kind>>}
                      \cup {row}

\* record_belief: one row per event, character and kind; the same thought is a
\* replay and another one a conflict.
Believed(row) ==
  IF row.beat \notin DOMAIN happened
     \/ \E m \in minds : <<m.beat, m.who, m.kind>> = <<row.beat, row.who, row.kind>>
  THEN minds ELSE minds \cup {row}

\* _land_private_thoughts, _consolidate_memory: each in a transaction of its own.
LandThought ==
  /\ drive.pc = "think" /\ drive.said # {}
  /\ \E p \in drive.said :
       /\ minds' = Believed([beat |-> beat, who |-> p[1], kind |-> "INFERRED", text |-> p[2],
                             run |-> runs])
       /\ drive' = [drive EXCEPT !.said = @ \ {p}]
  /\ UNCHANGED <<present, happened, beat, runs>>

ThoughtsLanded ==
  /\ drive.pc = "think" /\ drive.said = {}
  /\ drive' = [drive EXCEPT !.pc = "narrate"]
  /\ Durable

\* record_experienced_in_transaction: everyone there remembers the segment.
Experienced ==
  minds \cup {[beat |-> beat, who |-> a, kind |-> "EXPERIENCED", text |-> "segment",
               run |-> runs] : a \in present}

\* _narrate and _write_segment; a settlement has no segment of its own.
Segment ==
  /\ drive.pc = "narrate"
  /\ minds' = IF KindOf(beat) = "settle" THEN minds ELSE Experienced
  /\ beat' = beat + 1 /\ drive' = Away
  /\ UNCHANGED <<present, happened, runs>>

\* A refused model call, or a crash.
Stopped ==
  /\ drive # Away
  /\ drive' = Away
  /\ Durable

Next ==
  \/ StartBeat \/ Dispatch \/ Propose \/ Rule \/ LandThought \/ ThoughtsLanded
  \/ Segment \/ Stopped

Spec == Init /\ [][Next]_thoughtVars

(***************************************************************************)
(* Properties                                                              *)
(***************************************************************************)
\* A private thought is a character's own: of someone who was there, never put
\* into the player's head, anchored to an event that was recorded, and, but
\* for a reply, whose participants the event names, however often the beat was
\* driven (_gather_proposals, record_belief).
MindsAreTheirOwn ==
  \A m \in minds :
    m.kind = "INFERRED" =>
      /\ m.who \in present \ {Player} /\ m.beat \in DOMAIN happened
      /\ KindOf(m.beat) # "reply" => m.who \in happened[m.beat].who

\* The thoughts about a world beat or a settlement are those its event was
\* ruled from: a beat driven again never adds one formed afterwards, in
\* knowledge of how it came out (_drive_beat, settle_chapter).
NoHindsight ==
  \A m \in minds :
    m.kind = "INFERRED" /\ KindOf(m.beat) # "reply" => m.run = happened[m.beat].run

\* What a character once thought is never rewritten (record_belief).
ThoughtsStand ==
  [][\A m \in minds : m \in minds']_thoughtVars
=============================================================================
