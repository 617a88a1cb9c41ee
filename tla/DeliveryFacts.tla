---------------------------- MODULE DeliveryFacts ----------------------------
(***************************************************************************)
(* The vocabulary and the pure rules of a delivery: what a server delivery *)
(* row says, how a submission may advance it, and what exposure estimate a *)
(* finished send is worth.  Text is abstracted to its number of chunks: a  *)
(* prefix is a natural number, "extends" is >=, and the validated text of  *)
(* a reply is TextLength chunks long.                                      *)
(*   runtime/guarded_stream.py, runtime/exposure_reconciliation.py,        *)
(*   platform/db/delivery_store.py                                         *)
(***************************************************************************)
EXTENDS Integers

CONSTANT TextLength    \* chunks of a validated reply

ASSUME TextLengthAssumption == TextLength \in Nat \ {0}

----------------------------------------------------------------------------
(* DeliveryState: the words of a server delivery row.  "ABSENT": no row.   *)
RowWord == {"ABSENT", "SENDING", "SENT_PARTIAL", "SENT_COMPLETE", "FAILED",
            "CANCELLED"}

(* DELIVERY_STATES_WITH_AN_ESTIMATE: the words an estimate is derived from *)
EstimableWord == {"SENT_COMPLETE", "SENT_PARTIAL", "FAILED", "CANCELLED"}

(* The word a stream run ends with: nothing released is FAILED, a stop or  *)
(* a failure after a release is SENT_PARTIAL, a clean end SENT_COMPLETE.   *)
RunWord(released, cleanEnd) ==
    IF released = 0 THEN "FAILED"
    ELSE IF cleanEnd THEN "SENT_COMPLETE" ELSE "SENT_PARTIAL"

----------------------------------------------------------------------------
(* AnswerExposureState as its index in EXPOSURE_LEVEL_LADDER.              *)
None    == 0
Partial == 1
Full    == 2
Exposure == {None, Partial, Full}

Higher(word, floor) == IF word < floor THEN floor ELSE word

(* _sent_level.  `length` is the validated length the prefix is compared   *)
(* with; -1 stands for full_text_length=None, which covers any prefix.     *)
SentLevel(word, prefix, length) ==
    IF prefix = 0 THEN None
    ELSE IF word = "SENT_COMPLETE" /\ (length = -1 \/ prefix >= length)
         THEN Full
         ELSE Partial

(* Faulty variant: the released boundary is not consulted.                 *)
DurableLevel(word, prefix, length, released) == SentLevel(word, prefix, length)

(* _released_level: what the client boundary may hold.  -1 stands for      *)
(* released_prefix=None.                                                   *)
ReleasedLevel(word, prefix, length, released) ==
    IF released \in {-1, 0} THEN SentLevel(word, prefix, length)
    ELSE IF length = -1 \/ released >= length THEN Full ELSE Partial

(* exposure_estimate_of: the initial estimate of a delivery that was       *)
(* attempted.  Certainty: 1 = SERVER_SENT_UNCONFIRMED, 2 =                 *)
(* CONFIRMED_RENDERED (index in ACK_CERTAINTY_LADDER; UNKNOWN = 0 is the   *)
(* word of a send that was never attempted).                               *)
EstimateOf(word, prefix, length, released) ==
    LET level == SentLevel(word, prefix, length)
    IN  [present   |-> TRUE,
         certainty |-> 1,
         level     |-> level,
         max       |-> Higher(level, ReleasedLevel(word, prefix, length, released)),
         confirmed |-> None]

NoEstimate == [present |-> FALSE, certainty |-> 0, level |-> None,
               max |-> None, confirmed |-> None]

EstimateType == [present : BOOLEAN, certainty : 0..2, level : Exposure,
                 max : Exposure, confirmed : Exposure]

(* What the client holds after `n` chunks reached it.                      *)
HeldLevel(n) == IF n = 0 THEN None ELSE IF n >= TextLength THEN Full ELSE Partial
=============================================================================
