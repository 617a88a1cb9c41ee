-------------------------- MODULE MCTeachingMoment --------------------------
EXTENDS TeachingMoment, TLC

(* Replies are interchangeable; moments are not, since a process at rest   *)
(* keeps the name of one of them in its locals (AnyOpen).                  *)
ReplySymmetry == Permutations(Replies)

Say(intent, attempt) == [intent |-> intent, attempt |-> attempt]

(* The controls of the web host: the answer box and the buttons.           *)
WebEnvelopes == {Say("CONTINUE", "SUCCESS"), Say("CONTINUE", "FAILURE"),
                 Say("ASK_HINT", "none"), Say("SKIP", "none")}

(* Help asked for in the same reply as an answer, silence, an explanation. *)
ApiEnvelopes == {Say("ASK_HINT", "FAILURE"), Say("ASK_ANSWER", "none"),
                 Say("NONE", "FAILURE"), Say("ASK_EXPLANATION", "none")}

(* The help buttons of the web host after one another.                     *)
HelpEnvelopes == {Say("ASK_EXPLANATION", "none"), Say("ASK_HINT", "none")}
=============================================================================
