---------------------------- MODULE LetterRound ----------------------------
(***************************************************************************)
(* One round of the letter world (web.py, world/engine/orchestrate.py,     *)
(* world/store.py): a letter makes the narrator advance the world before   *)
(* the reply is generated.  In the immersive mode the world turns until    *)
(* the letter arrives; in the directed mode it turns one step, the turn is *)
(* parked with no reply, and the user continues, chooses a direction or    *)
(* writes another letter.                                                  *)
(*                                                                         *)
(* Every handler runs on the one work thread, but its writes are separate  *)
(* transactions: a process may die between any two.  The coordinator is    *)
(* seen through what its three calls leave in turn_record.  One            *)
(* conversation is bound to the world.                                     *)
(***************************************************************************)
EXTENDS Naturals, Sequences, FiniteSets, SequencesExt

CONSTANTS
  MaxLetters,   \* bound: letters written
  MaxBeats,     \* bound: beats in the chronicle
  ChainSteps,   \* MAX_CHAIN_STEPS
  ParkedStops,  \* MAX_PARKED_STOPS
  MaxChoices    \* bound: directions saved

VARIABLES
  letter,       \* turn_record.status of each letter
  parkedRow,    \* app_setting world.parked_turn
  direction,    \* app_setting world.pending_direction: 0 or the choice
  response,     \* app_setting world.letter_response
  runs,         \* world_run rows
  beats,        \* world_event rows of the narrator, with their reveal item
  sent,         \* user-letter-sent rows
  chosen,       \* user-direction-chosen rows
  choices,      \* directions the user ever saved
  mode,         \* world.direction_mode
  hand,         \* the handler the work thread is in
  crashed

roundVars == <<letter, parkedRow, direction, response, runs, beats, sent, chosen,
               choices, mode, hand, crashed>>

Letters == 1..MaxLetters
Terminal == {"REPLIED", "FAILED", "CLOSED"}
TerminalStops == {"arrives", "awaits"}
Stops == TerminalStops \cup {"thinks", "none"}

\* What the strict parse lets through: one or two beats and a stop word.
\* "bad" is a beat the parser passes and record_event refuses: two effects
\* on one key.
Batches == [size : 1..2, stop : Stops, bad : BOOLEAN]

NoRow == [turn |-> 0, stops |-> 0, phase |-> "world", kind |-> "none"]
\* Nothing: not configured, no beat, refused, or the provider raised.
NoBatch == [size |-> 0, stop |-> "none", bad |-> FALSE]
Idle == [at |-> "idle", op |-> "turn", letter |-> 0, step |-> 0, batch |-> NoBatch,
         from |-> 0, frames |-> 0, stop |-> "none"]

Init ==
  /\ letter = [l \in Letters |-> "ABSENT"] /\ parkedRow = NoRow
  /\ direction = 0 /\ response = FALSE /\ runs = <<>> /\ beats = <<>>
  /\ sent = {} /\ chosen = <<>> /\ choices = 0
  /\ mode \in {"directed", "immersive"}
  /\ hand = Idle /\ crashed = FALSE

Directed == mode = "directed"
Goto(pc) == hand' = [hand EXCEPT !.at = pc]
Written == Cardinality({l \in Letters : letter[l] # "ABSENT"})

(***************************************************************************)
(* The requests                                                            *)
(***************************************************************************)
\* POST /api/turn: every request is a letter of its own (a fresh
\* client_message_id), so a letter that was refused is not sent again.
Post ==
  /\ hand.at = "idle" /\ hand.letter < MaxLetters
  /\ hand' = [Idle EXCEPT !.at = "supersede", !.letter = hand.letter + 1]
  /\ UNCHANGED <<letter, parkedRow, direction, response, runs, beats, sent, chosen,
                 choices, mode, crashed>>

\* Faulty variant: the parked turn is left as it is.
LeaveOpen(l) == letter

\* _parked_turn_status_word: the turn needs nothing more.
Over(l) == letter[l] \in Terminal

\* close_parked_turn_without_reply; a finished turn stays as it is.
Closed(l) == IF Over(l) THEN letter ELSE [letter EXCEPT ![l] = "CLOSED"]

\* _close_superseded_parked_round: the row of a finished turn is dropped, an
\* open one is closed without a reply first.
Supersede ==
  /\ hand.at = "supersede"
  /\ IF parkedRow = NoRow
     THEN Goto("narrate") /\ UNCHANGED letter
     ELSE /\ Goto("unpark")
          /\ letter' = Closed(parkedRow.turn)
  /\ UNCHANGED <<parkedRow, direction, response, runs, beats, sent, chosen, choices,
                 mode, crashed>>

Unpark ==
  /\ hand.at = "unpark" /\ parkedRow' = NoRow /\ Goto("narrate")
  /\ UNCHANGED <<letter, direction, response, runs, beats, sent, chosen, choices, mode,
                 crashed>>

\* The handler ends; the count of letters stays.
Done == hand' = [Idle EXCEPT !.letter = hand.letter]

\* _world_pending_direction: only the directed mode reads the choice.
Pending == Directed /\ direction # 0

\* The ceiling on continues without a direction.
Capped == Directed /\ ~Pending /\ parkedRow.stops >= ParkedStops

Continue ==
  /\ hand.at = "idle" /\ parkedRow # NoRow
  /\ \E next \in {"clear", "close", "answer", "narrate"} :
       /\ hand' = [hand EXCEPT !.op = "continue", !.at = next]
       /\ IF Over(parkedRow.turn) THEN next = "clear"
          ELSE IF parkedRow.kind = "awaits" THEN next = "close"
          ELSE IF parkedRow.phase = "reply" THEN next = "answer"
          ELSE next = "narrate" /\ ~Capped
  /\ UNCHANGED <<letter, parkedRow, direction, response, runs, beats, sent, chosen,
                 choices, mode, crashed>>

SaveDirection ==
  /\ hand.at = "idle"
  /\ \/ choices < MaxChoices /\ choices' = choices + 1 /\ direction' = choices + 1
     \/ direction # 0 /\ direction' = 0 /\ UNCHANGED choices
  /\ UNCHANGED <<letter, parkedRow, response, runs, beats, sent, chosen, mode, hand, crashed>>

SaveMode ==
  /\ hand.at = "idle" /\ mode' \in {"directed", "immersive"} \ {mode}
  /\ UNCHANGED <<letter, parkedRow, direction, response, runs, beats, sent, chosen,
                 choices, hand, crashed>>

Revealed == [b \in DOMAIN beats |->
               IF beats[b].item = "PENDING"
               THEN [beats[b] EXCEPT !.item = "REVEALED", !.after = Written]
               ELSE beats[b]]

\* GET /api/world: the inbox reveals whatever is queued.
Inbox ==
  /\ hand.at = "idle" /\ Revealed # beats /\ beats' = Revealed
  /\ UNCHANGED <<letter, parkedRow, direction, response, runs, sent, chosen, choices,
                 mode, hand, crashed>>

(***************************************************************************)
(* The world step, once per turn of the chain (run_generated_step and the  *)
(* loop of _world_step_frame)                                              *)
(***************************************************************************)
Limit == IF Directed \/ hand.op = "continue" THEN 1 ELSE ChainSteps

\* The command the turn is entered with: a continued round takes the parked
\* letter's own (_parked_command_of).
TurnOf == IF hand.op = "continue" THEN parkedRow.turn ELSE hand.letter

\* What follows the chain: the caller parks, or answers, or writes the row again.
Arrived == hand.stop = "arrives"
AfterChain(h) ==
  IF h.op = "continue" THEN IF h.stop = "arrives" THEN "phase" ELSE "rerow"
  ELSE IF Directed /\ h.frames > 0 /\ h.stop # "arrives" THEN "park" ELSE "answer"

\* WorldNarrator.generate; the bound keeps the chronicle small.
Answers == {NoBatch} \cup {batch \in Batches : Len(beats) + batch.size <= MaxBeats}

\* run_generated_step asks the narrator first: a quiet answer ends the chain.
Narrate ==
  /\ hand.at = "narrate"
  /\ \E batch \in Answers :
       hand' = IF batch = NoBatch
               THEN [hand EXCEPT !.at = AfterChain(hand)]
               ELSE [hand EXCEPT !.at = "wind", !.from = Len(beats), !.step = @ + 1,
                                 !.batch = batch]
  /\ UNCHANGED <<letter, parkedRow, direction, response, runs, beats, sent, chosen,
                 choices, mode, crashed>>

Open == runs # <<>> /\ ~Last(runs).terminal

\* create_run: the turn that winds it is not known yet.
NewRun == [terminal |-> FALSE, trigger |-> 0]

\* The latest run is resumed at its checkpoint; a new one when it ended.
Wind ==
  /\ hand.at = "wind" /\ Goto("beat")
  /\ runs' = IF Open THEN runs ELSE Append(runs, NewRun)
  /\ UNCHANGED <<letter, parkedRow, direction, response, beats, sent, chosen, choices,
                 mode, crashed>>

Landed == Len(beats) - hand.from

\* record_event: what one beat leaves in the chronicle, nothing when the store
\* refuses it.
Recorded ==
  IF hand.batch.bad /\ Landed + 1 = hand.batch.size THEN beats
  ELSE Append(beats, [run |-> Len(runs), item |-> "none", after |-> 0, during |-> TurnOf])

\* One transaction per beat; a refused beat ends the step with the earlier
\* ones in the chronicle.
RecordBeat ==
  /\ hand.at = "beat" /\ Landed < hand.batch.size /\ beats' = Recorded
  /\ hand' = IF Recorded = beats THEN [hand EXCEPT !.at = AfterChain(hand)] ELSE hand
  /\ UNCHANGED <<letter, parkedRow, direction, response, runs, sent, chosen, choices,
                 mode, crashed>>

\* enqueue_reveals, one transaction for the step's beats.
Queued == [b \in DOMAIN beats |->
             IF b > hand.from THEN [beats[b] EXCEPT !.item = "PENDING"] ELSE beats[b]]

EnqueueReveals ==
  /\ hand.at = "beat" /\ Landed = hand.batch.size /\ Goto("end")
  /\ beats' = Queued
  /\ UNCHANGED <<letter, parkedRow, direction, response, runs, sent, chosen, choices,
                 mode, crashed>>

\* terminalize_run
Terminalized == [runs EXCEPT ![Len(runs)].terminal = TRUE]

\* A step that ends on letter_arrives or awaits_you ends its run.
EndRun ==
  /\ hand.at = "end" /\ Goto("reveal")
  /\ runs' = IF hand.batch.stop \in TerminalStops THEN Terminalized ELSE runs
  /\ UNCHANGED <<letter, parkedRow, direction, response, beats, sent, chosen, choices,
                 mode, crashed>>

RevealAll ==
  /\ hand.at = "reveal"
  /\ beats' = Revealed
  /\ hand' = [hand EXCEPT !.at = IF Pending THEN "note" ELSE "read",
                          !.frames = @ + 1, !.stop = hand.batch.stop]
  /\ UNCHANGED <<letter, parkedRow, direction, response, runs, sent, chosen, choices,
                 mode, crashed>>

\* Faulty variant: the setting stays for the next step.
KeepDirection == direction

\* The direction is consumed: the setting is deleted.
Consumed == 0

\* record_interaction_event: one more row of the chronicle.
Noted == Append(chosen, direction)

\* _record_direction_chosen, then the setting is deleted.
NoteDirection ==
  /\ hand.at = "note" /\ Goto("drop") /\ chosen' = Noted
  /\ UNCHANGED <<letter, parkedRow, direction, response, runs, beats, sent, choices,
                 mode, crashed>>

DropDirection ==
  /\ hand.at = "drop" /\ Goto("read") /\ direction' = Consumed
  /\ UNCHANGED <<letter, parkedRow, response, runs, beats, sent, chosen, choices, mode,
                 crashed>>

\* The letter-read projection is consumed by the first step that landed.
NextStep ==
  /\ hand.at = "read" /\ response' = FALSE
  /\ IF Arrived \/ hand.step = Limit
     THEN Goto(AfterChain(hand)) ELSE Goto("narrate")
  /\ UNCHANGED <<letter, parkedRow, direction, runs, beats, sent, chosen, choices, mode,
                 crashed>>

(***************************************************************************)
(* The coordinator's calls and what the handler writes after them          *)
(***************************************************************************)
\* begin_turn_parked: refused before the letter is committed (the row is
\* cleared), or the turn stands at GENERATING.
Park ==
  /\ hand.at = "park"
  /\ \/ Goto("clear") /\ UNCHANGED letter
     \/ Goto("sent") /\ letter' = [letter EXCEPT ![hand.letter] = "GENERATING"]
  /\ UNCHANGED <<parkedRow, direction, response, runs, beats, sent, chosen, choices,
                 mode, crashed>>

\* begin_turn with the letter's own command: refused (what was committed
\* stays), or the turn is terminal.  A turn already terminal is replayed.
Answer ==
  /\ hand.at = "answer"
  /\ \/ Done /\ UNCHANGED letter
     \/ \E outcome \in {"REPLIED", "FAILED"} :
          /\ letter' = [letter EXCEPT ![TurnOf] = IF Over(TurnOf) THEN @ ELSE outcome]
          /\ Goto("sent")
  /\ UNCHANGED <<parkedRow, direction, response, runs, beats, sent, chosen, choices,
                 mode, crashed>>

LetterSent ==
  /\ hand.at = "sent" /\ Goto("adopt") /\ sent' = sent \cup {TurnOf}
  /\ UNCHANGED <<letter, parkedRow, direction, response, runs, beats, chosen, choices,
                 mode, crashed>>

\* Faulty variant: the newest letter takes the run over.
AdoptAlways(l) == IF runs = <<>> THEN runs ELSE [runs EXCEPT ![Len(runs)].trigger = l]

\* _adopt_world_run_trigger: the world's latest run, unless it knows its starter.
Adopted(l) ==
  IF runs = <<>> \/ Last(runs).trigger # 0 THEN runs
  ELSE [runs EXCEPT ![Len(runs)].trigger = l]

AdoptTrigger ==
  /\ hand.at = "adopt" /\ runs' = Adopted(TurnOf)
  /\ Goto(CASE letter[TurnOf] = "REPLIED"    -> "project"
            [] letter[TurnOf] = "GENERATING" -> "row"
            [] OTHER                         -> "end_round")
  /\ UNCHANGED <<letter, parkedRow, direction, response, beats, sent, chosen, choices,
                 mode, crashed>>

\* _record_letter_response_projection: she read the letter.
ProjectResponse ==
  /\ hand.at = "project" /\ response' = TRUE
  /\ Goto(IF hand.op = "continue" THEN "clear" ELSE "end_round")
  /\ UNCHANGED <<letter, parkedRow, direction, runs, beats, sent, chosen, choices, mode,
                 crashed>>

EndRound ==
  /\ hand.at = "end_round" /\ Done
  /\ UNCHANGED <<letter, parkedRow, direction, response, runs, beats, sent, chosen,
                 choices, mode, crashed>>

\* The row of a round that parks, and of one that stays parked.
AfterRow(kind) == IF kind = "awaits" THEN Goto("close") ELSE Done

WriteRow ==
  /\ hand.at = "row"
  /\ parkedRow' = [turn |-> hand.letter, stops |-> 1, phase |-> "world",
                   kind |-> hand.stop]
  /\ AfterRow(hand.stop)
  /\ UNCHANGED <<letter, direction, response, runs, beats, sent, chosen, choices, mode,
                 crashed>>

\* The count is only compared with the cap, so it is not counted past it.
NextStops(n) == IF n < ParkedStops THEN n + 1 ELSE n

RewriteRow ==
  LET kind == IF hand.frames > 0 THEN hand.stop ELSE parkedRow.kind IN
  /\ hand.at = "rerow"
  /\ parkedRow' = [parkedRow EXCEPT !.stops = NextStops(@), !.kind = kind]
  /\ AfterRow(kind)
  /\ UNCHANGED <<letter, direction, response, runs, beats, sent, chosen, choices, mode,
                 crashed>>

\* Faulty variant: the reply phase is kept in memory only.
PhaseInMemory(row) == row

\* The letter arrived: the row says so before the reply is generated.
ReplyPhase(row) == [row EXCEPT !.phase = "reply"]

WritePhase ==
  /\ hand.at = "phase" /\ parkedRow' = ReplyPhase(parkedRow) /\ Goto("answer")
  /\ UNCHANGED <<letter, direction, response, runs, beats, sent, chosen, choices, mode,
                 crashed>>

\* _close_parked_round_now
CloseNow ==
  /\ hand.at = "close" /\ Goto("clear")
  /\ letter' = Closed(parkedRow.turn)
  /\ UNCHANGED <<parkedRow, direction, response, runs, beats, sent, chosen, choices,
                 mode, crashed>>

ClearRow ==
  /\ hand.at = "clear" /\ parkedRow' = NoRow /\ Done
  /\ UNCHANGED <<letter, direction, response, runs, beats, sent, chosen, choices, mode,
                 crashed>>

\* The process dies and another serves the same database.
Crash ==
  /\ ~crashed /\ hand.at # "idle" /\ Done /\ crashed' = TRUE
  /\ UNCHANGED <<letter, parkedRow, direction, response, runs, beats, sent, chosen,
                 choices, mode>>

Next ==
  \/ Post \/ Supersede \/ Unpark \/ Continue \/ SaveDirection \/ SaveMode \/ Inbox
  \/ Narrate \/ Wind \/ RecordBeat \/ EnqueueReveals \/ EndRun \/ RevealAll
  \/ NoteDirection \/ DropDirection \/ NextStep
  \/ Park \/ Answer \/ LetterSent \/ AdoptTrigger \/ ProjectResponse \/ EndRound
  \/ WriteRow \/ RewriteRow \/ WritePhase \/ CloseNow \/ ClearRow \/ Crash

Spec == Init /\ [][Next]_roundVars

(***************************************************************************)
(* Replay and properties                                                   *)
(***************************************************************************)
\* _world_frames_for_window over the whole history: a beat is replayed above
\* the letter that triggered its run, or above the first letter committed
\* after it was revealed (the last one when there is none).
Replayed(b) ==
  LET trigger == runs[beats[b].run].trigger IN
  IF trigger # 0 THEN trigger
  ELSE LET later == {l \in Letters : letter[l] # "ABSENT"
                       /\ Cardinality({k \in 1..l : letter[k] # "ABSENT"}) > beats[b].after}
           all == {l \in Letters : letter[l] # "ABSENT"} IN
       IF later # {} THEN CHOOSE l \in later : \A k \in later : l <= k
       ELSE CHOOSE l \in all : \A k \in all : l >= k

\* A letter that still waits for its reply is the one the parked row names, so
\* the user can continue it or the next letter closes it (_park_round,
\* _close_superseded_parked_round).  A death loses at most one: the letter
\* begin_turn_parked committed and whose row was not written yet.
NoForgottenLetter ==
  hand.at = "idle"
    => Cardinality({l \in Letters : letter[l] = "GENERATING" /\ parkedRow.turn # l})
         <= (IF crashed THEN 1 ELSE 0)

\* The page replays a beat no later than above the letter it was shown with
\* (_adopt_world_run_trigger, _world_frames_for_window).
ReplayedInTime ==
  (~crashed /\ hand.at = "idle")
    => \A b \in DOMAIN beats :
         (beats[b].item = "REVEALED" /\ letter[beats[b].during] # "ABSENT")
           => Replayed(b) <= beats[b].during

\* Once the letter arrived the world stands still until the reply is out: no
\* beat is recorded for a letter whose reply phase has begun, also when the
\* reply is refused and asked for again (continue_world_stream).
WorldWaitsForReply ==
  [][(Len(beats') > Len(beats) /\ hand.op = "continue" /\ ~crashed)
       => \A b \in DOMAIN beats :
            beats[b].during = parkedRow.turn => ~runs[beats[b].run].terminal]_roundVars

\* Without a death a direction the user chose steers one step: it is in the
\* chronicle at most once (_record_direction_chosen, then the deletion).
DirectionsSteerOnce ==
  \A i, j \in DOMAIN chosen : (i # j /\ ~crashed) => chosen[i] # chosen[j]
=============================================================================
