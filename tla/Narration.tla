------------------------------ MODULE Narration ------------------------------
(***************************************************************************)
(* The prose of a beat on its way to the page: LlmNarratorProvider.render  *)
(* over _TailGate (world/llm_providers.py), with the one retry of          *)
(* RetryingTextCompletion (ds_web.py).  The answer is prose, a line of     *)
(* dashes and the stop markers; the gate keeps the line and what follows   *)
(* off the page while the text is still arriving in pieces.                *)
(***************************************************************************)
EXTENDS Naturals, Sequences, SequencesExt

CONSTANTS
  Signs,       \* what a text is made of
  Break,       \* the line break
  Sentinel,    \* a line break and the dashes
  Hold,        \* _TAIL_HOLD: one more than the sentinel
  MaxSigns,    \* bound: the length of an answer
  MaxPiece     \* bound: the length of an increment

VARIABLES
  attempt,     \* 1, or 2 for the retry
  arrived,     \* the text of this attempt so far
  buffer,      \* _TailGate._buffer
  closed,      \* _TailGate._closed
  page,        \* what on_chunk was given: <<attempt, sign>>
  verdict      \* "none", "prose", or how it failed

narrationVars == <<attempt, arrived, buffer, closed, page, verdict>>

\* Where the pattern first begins in the text, 0 when nowhere.
FirstAt(text, pattern) ==
  LET at == {i \in 1 .. (Len(text) - Len(pattern) + 1) :
               SubSeq(text, i, i + Len(pattern) - 1) = pattern}
  IN IF at = {} THEN 0 ELSE CHOOSE i \in at : \A j \in at : i <= j

Before(text, i) == SubSeq(text, 1, i - 1)

Init ==
  /\ attempt = 1 /\ arrived = <<>> /\ buffer = <<>> /\ page = <<>>
  /\ closed = FALSE /\ verdict = "none"

\* Faulty variant: what can be the beginning of the line is not held back.
NothingHeld == 0

\* The hold-back window.
TailHold == Hold

\* _TailGate.__call__: [out, buffer, closed] for one increment.
Gated(piece) ==
  LET text == buffer \o piece
      at == FirstAt(text, Sentinel)
      keep == IF Len(text) > TailHold THEN TailHold ELSE Len(text)
  IN IF closed THEN [out |-> <<>>, buffer |-> buffer, closed |-> TRUE]
     ELSE IF at # 0 THEN [out |-> Before(text, at), buffer |-> <<>>, closed |-> TRUE]
     ELSE [out |-> Before(text, Len(text) - keep + 1),
           buffer |-> SubSeq(text, Len(text) - keep + 1, Len(text)), closed |-> FALSE]

\* Faulty variant: the retry streams into the same page.
BothStream == TRUE

\* complete_streaming: the increments of the retry go nowhere.
Streams == attempt = 1

Arrive ==
  /\ verdict = "none"
  /\ \E piece \in BoundedSeq(Signs, MaxPiece) \ {<<>>} :
       /\ Len(arrived) + Len(piece) <= MaxSigns
       /\ arrived' = arrived \o piece
       /\ IF Streams
          THEN /\ buffer' = Gated(piece).buffer /\ closed' = Gated(piece).closed
               /\ page' = page \o [i \in DOMAIN Gated(piece).out |-> <<attempt, Gated(piece).out[i]>>]
          ELSE UNCHANGED <<buffer, closed, page>>
  /\ UNCHANGED <<attempt, verdict>>

\* A timeout or a transport error is tried once more, anything else is not.
TryAgain ==
  /\ verdict = "none" /\ attempt = 1
  /\ attempt' = 2 /\ arrived' = <<>>
  /\ UNCHANGED <<buffer, closed, page, verdict>>

Fail ==
  /\ verdict = "none"
  /\ verdict' = "failed"
  /\ UNCHANGED <<attempt, arrived, buffer, closed, page>>

\* _parse_narration: the line of dashes is one by itself, at the beginning or
\* after a break; no such line is a failure, and so is no prose before it.
TailAt(text) ==
  LET at == {i \in 1 .. (Len(text) - Len(Sentinel) + 2) :
               /\ SubSeq(<<Break>> \o text, i, i + Len(Sentinel) - 1) = Sentinel
               /\ LET after == i + Len(Sentinel) - 1
                  IN after > Len(text) \/ text[after] = Break}
  IN IF at = {} THEN 0 ELSE CHOOSE i \in at : \A j \in at : i <= j

Prose == IF TailAt(arrived) = 0 THEN <<>> ELSE Before(arrived, TailAt(arrived))

Finish ==
  /\ verdict = "none"
  /\ verdict' = IF \A i \in DOMAIN Prose : Prose[i] = Break THEN "failed" ELSE "prose"
  /\ UNCHANGED <<attempt, arrived, buffer, closed, page>>

Next == Arrive \/ TryAgain \/ Fail \/ Finish

Spec == Init /\ [][Next]_narrationVars

(***************************************************************************)
(* Properties                                                              *)
(***************************************************************************)
Shown == [i \in DOMAIN page |-> page[i][2]]

\* The reader never sees a sign of the line of dashes or of the markers behind
\* it, however the text was cut: what the page was given is the beginning of
\* the prose, all of it when the prose holds no dashes of its own (_TailGate).
TailStaysOff ==
  verdict = "prose" /\ attempt = 1 =>
    /\ IsPrefix(Shown, Prose)
    /\ FirstAt(Prose, Sentinel) = 0 => Prose \in {Shown, Shown \o <<Break>>}

\* The page is never given the signs of two answers, one after the other
\* (RetryingTextCompletion: the retry is silent).
OneAnswerOnThePage == \A i, j \in DOMAIN page : page[i][1] = page[j][1]
=============================================================================
