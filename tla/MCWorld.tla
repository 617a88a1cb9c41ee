------------------------------ MODULE MCWorld ------------------------------
(***************************************************************************)
(* What reaches the reader and what the characters keep of it, in one run: *)
(* the acknowledgments of a delivered reply (RenderAcks) and, each by      *)
(* itself, the components of the letter world.  The initial state picks    *)
(* the part that moves, and the others keep their initial values.          *)
(***************************************************************************)
EXTENDS RenderAcks, Sequences, TLC

CONSTANTS
  MaxLetters, MaxBeats, ChainSteps, ParkedStops, MaxChoices,
  Actors, Player, Thinkings, Beats, MaxRuns,
  Signs, Break, Sentinel, Hold, MaxSigns, MaxPiece,
  Key, Pieces, Ceiling,
  Told, Sayings, Natures, MaxOffers

\* The sentinel is a line break and dashes, and the window holds all of it.
ASSUME SentinelAssumption ==
  /\ Sentinel \in Seq(Signs) /\ Sentinel # <<>>
  /\ Sentinel[1] = Break /\ \A j \in 2..Len(Sentinel) : Sentinel[j] # Break
  /\ Hold \in Nat /\ Hold >= Len(Sentinel) /\ MaxPiece \in Nat

\* A key is a text of at least one piece, and the mark of a missing text is
\* none of them; the body has a length.
ASSUME KeyAssumption ==
  /\ Key \in Seq(Pieces) /\ Key # <<>> /\ "no text" \notin Pieces
  /\ Ceiling \in Nat

\* Letters are counted.
ASSUME LettersAssumption == MaxLetters \in Nat

\* A scene is made of these beats.
ASSUME BeatsAssumption == Beats \in Seq({"world", "reply", "settle"})

\* What a turn is, is decided.
ASSUME NaturesAssumption ==
  Natures \subseteq [command : BOOLEAN, said : BOOLEAN, delivered : BOOLEAN]

VARIABLES
  part,
  letter, parkedRow, direction, response, runs, beats, sent, chosen, choices,
  mode, hand, crashed,
  present, happened, minds, beat, drive, drives,
  attempt, arrived, buffer, closed, page, verdict,
  setup, face, stage, held, total, gathered, emitted, output,
  nature, recalled, draft, offers

roundVars     == <<letter, parkedRow, direction, response, runs, beats, sent, chosen, choices,
                   mode, hand, crashed>>
thoughtVars   == <<present, happened, minds, beat, drive, drives>>
narrationVars == <<attempt, arrived, buffer, closed, page, verdict>>
callVars      == <<setup, face, stage, held, total, gathered, emitted, output>>
recallVars    == <<nature, recalled, draft, offers>>

Round   == INSTANCE LetterRound
Minds   == INSTANCE Thoughts WITH runs <- drives
Telling == INSTANCE Narration
Call    == INSTANCE ModelCall
Recall  == INSTANCE Recollection

(* Told turns and sayings are interchangeable.                             *)
Symmetry == Permutations(Told) \cup Permutations(Sayings)

MCBeats == <<"world", "reply", "settle">>
MCSentinel == <<"nl", "dash", "dash">>
MCKey == <<"k1", "k2">>
MCNatures == {[command |-> TRUE, said |-> FALSE, delivered |-> TRUE],
              [command |-> FALSE, said |-> TRUE, delivered |-> FALSE]}

WorldInit ==
  /\ part \in {"acks", "round", "minds", "telling", "call", "recall"}
  /\ Init /\ (part = "acks" \/ facts = CHOOSE f \in LegalFacts : TRUE)
  /\ Round!Init /\ (part = "round" \/ mode = "directed")
  /\ Telling!Init
  /\ Minds!Init /\ (part = "minds" \/ present = {Player})
  /\ Call!Init /\ (part = "call" \/ (~setup.named /\ ~setup.secure /\ ~setup.waived /\ face = "call"))
  /\ Recall!Init /\ (part = "recall" \/ nature = [t \in Told |-> CHOOSE n \in Natures : TRUE])

WorldNext ==
  /\ UNCHANGED part
  /\ IF part = "acks" THEN Next ELSE UNCHANGED vars
  /\ IF part = "round" THEN Round!Next ELSE UNCHANGED roundVars
  /\ IF part = "minds" THEN Minds!Next ELSE UNCHANGED thoughtVars
  /\ IF part = "telling" THEN Telling!Next ELSE UNCHANGED narrationVars
  /\ IF part = "call" THEN Call!Next ELSE UNCHANGED callVars
  /\ IF part = "recall" THEN Recall!Next ELSE UNCHANGED recallVars

worldVars == <<part, vars, roundVars, thoughtVars, narrationVars, callVars, recallVars>>

WorldSpec == WorldInit /\ [][WorldNext]_worldVars
----------------------------------------------------------------------------
\* A letter's round is carried out once and in order, with the user and a
\* death in between: nobody waits for a reply unnoticed, the world stands
\* still once the letter arrived, a direction steers one step, and the page
\* replays a beat with its letter (web.py, orchestrate.py).
RoundsAreOrderly ==
  /\ [](part = "round" => Round!NoForgottenLetter /\ Round!ReplayedInTime
                          /\ Round!DirectionsSteerOnce)
  /\ Round!WorldWaitsForReply

\* Private thoughts are the thinker's own, formed before the outcome they are
\* about, and never rewritten, however often a beat is driven again
\* (world/turns.py, world/memory.py).
ThoughtsAreHonest ==
  /\ [](part = "minds" => Minds!MindsAreTheirOwn /\ Minds!NoHindsight)
  /\ Minds!ThoughtsStand

\* The page shows one answer and none of the markers behind its prose,
\* wherever the stream was cut and whatever was retried (_TailGate,
\* RetryingTextCompletion).
PageShowsTheProse ==
  part = "telling" => Telling!TailStaysOff /\ Telling!OneAnswerOnThePage

\* What a stream showed is the start of the answer, all of it on success, and
\* never holds the key (openai_provider.py).
ShownIsAnswered == part = "call" => Call!ShownIsAnswered

\* Memories rest on what their turn really held, and a correction replaces
\* one row once, whichever runs overlap (relationship/store.py, validation.py).
MemoriesAreSound ==
  part = "recall" => Recall!CorrectionsAreChains /\ Recall!MemoriesAreGrounded
=============================================================================
