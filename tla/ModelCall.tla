------------------------------ MODULE ModelCall ------------------------------
(***************************************************************************)
(* One call of a language model (persona/openai_provider.py): call and     *)
(* call_streaming answer a value for whatever the settings, the secret     *)
(* source and the transport do.  A line of the stream and a byte of the    *)
(* body are one unit; a text is the sequence of its pieces.                *)
(***************************************************************************)
EXTENDS Naturals, Sequences, SequencesExt

CONSTANTS
  Key,        \* the pieces of the resolved key
  Pieces,     \* what one increment can hold
  Ceiling     \* MAX_PROVIDER_RESPONSE_BYTES, in lines

VARIABLES
  setup,      \* [named, secure, waived]: base_url and model, the destination, the waiver
  face,       \* "call" or "call_streaming"
  stage,      \* where the call is
  held,       \* the key was resolved
  total,      \* lines read
  gathered,   \* accumulated pieces
  emitted,    \* pieces given to emit
  output      \* ProviderOutput: [text, error]

callVars == <<setup, face, stage, held, total, gathered, emitted, output>>

NoText == <<"no text">>
Pending == [text |-> NoText, error |-> "pending"]
Failure(reason) == [text |-> NoText, error |-> reason]
Success(text) == [text |-> text, error |-> "none"]

HoldsKey(text) == \E i, j \in DOMAIN text : SubSeq(text, i, j) = Key

\* Faulty variant: the newest piece is looked at by itself.
EchoInPiece(text) == text # <<>> /\ HoldsKey(<<Last(text)>>)

\* REASON_KEY_ECHO: the key is looked for in all the text so far.
EchoesKey(text) == HoldsKey(text)

Init ==
  /\ setup \in [named : BOOLEAN, secure : BOOLEAN, waived : BOOLEAN]
  /\ face \in {"call", "call_streaming"}
  /\ stage = "check" /\ held = FALSE /\ total = 0
  /\ gathered = <<>> /\ emitted = <<>> /\ output = Pending

Answer(value) ==
  /\ stage' = "answered" /\ output' = value
  /\ UNCHANGED <<setup, face>>

\* insecure_http_destination is asked before the secret source.
Refusal ==
  IF ~setup.named THEN "not-configured"
  ELSE IF ~setup.secure /\ ~setup.waived THEN "cleartext-http"
  ELSE "none"

CheckDestination ==
  /\ stage = "check"
  /\ IF Refusal # "none" THEN Answer(Failure(Refusal))
     ELSE stage' = "secret" /\ UNCHANGED <<setup, face, output>>
  /\ UNCHANGED <<held, total, gathered, emitted>>

\* _resolve_key: a source that raises is a missing key.
ResolveKey ==
  /\ stage = "secret"
  /\ \/ held' = TRUE /\ stage' = "post" /\ UNCHANGED <<setup, face, output>>
     \/ held' = FALSE /\ Answer(Failure("missing-secret"))
  /\ UNCHANGED <<total, gathered, emitted>>

\* _urllib_post and _urllib_stream_post: a redirect is a status like another,
\* and the body of anything but a 2xx answer is not read.
Post ==
  /\ stage = "post"
  /\ \/ \E reason \in {"timeout", "transport-error", "http-status"} : Answer(Failure(reason))
     \/ stage' = "read" /\ UNCHANGED <<setup, face, output>>
  /\ UNCHANGED <<held, total, gathered, emitted>>

\* The body of call: one document, whose text may be of any pieces.
ReadBody ==
  /\ stage = "read" /\ face = "call"
  /\ \/ \E reason \in {"response-too-large", "bad-json", "bad-shape"} : Answer(Failure(reason))
     \/ \E text \in BoundedSeq(Pieces, Ceiling) :
          Answer(IF EchoesKey(text) THEN Failure("key-echo") ELSE Success(text))
  /\ UNCHANGED <<held, total, gathered, emitted>>

\* One line of the stream: past the ceiling nothing of it is looked at; what
\* is no increment is skipped; an increment is gathered, looked at with all
\* before it, and only then emitted.
ReadLine ==
  /\ stage = "read" /\ face = "call_streaming"
  /\ total' = total + 1
  /\ \/ /\ total = Ceiling
        /\ Answer(Failure("response-too-large")) /\ UNCHANGED <<gathered, emitted>>
     \/ /\ total < Ceiling
        /\ \/ UNCHANGED <<setup, face, stage, output, gathered, emitted>>
           \/ /\ \E reason \in {"bad-json", "bad-shape"} : Answer(Failure(reason))
              /\ UNCHANGED <<gathered, emitted>>
           \/ \E p \in Pieces :
                /\ gathered' = Append(gathered, p)
                /\ IF EchoesKey(gathered')
                   THEN Answer(Failure("key-echo")) /\ UNCHANGED emitted
                   ELSE /\ emitted' = Append(emitted, p)
                        /\ UNCHANGED <<setup, face, stage, output>>
  /\ UNCHANGED held

\* [DONE], or the end of the lines.
StreamEnds ==
  /\ stage = "read" /\ face = "call_streaming"
  /\ Answer(Success(gathered))
  /\ UNCHANGED <<held, total, gathered, emitted>>

StreamBreaks ==
  /\ stage = "read" /\ face = "call_streaming"
  /\ \E reason \in {"timeout", "transport-error"} : Answer(Failure(reason))
  /\ UNCHANGED <<held, total, gathered, emitted>>

Next ==
  \/ CheckDestination \/ ResolveKey \/ Post \/ ReadBody \/ ReadLine \/ StreamEnds \/ StreamBreaks

Spec == Init /\ [][Next]_callVars

(***************************************************************************)
(* Properties                                                              *)
(***************************************************************************)
\* The reader may already have been shown part of a stream when it fails, so
\* what was shown is always the start of what the call answers, all of it when
\* the call succeeds, and never holds the key, however it was cut into pieces
\* (call_streaming: accumulated, looked at, emitted; the text of call alike).
ShownIsAnswered ==
  /\ ~HoldsKey(emitted) /\ ~HoldsKey(output.text)
  /\ output.error = "none" /\ face = "call_streaming" => output.text = emitted
  /\ output.error \notin {"none", "pending"} => output.text = NoText
  /\ Len(emitted) <= Ceiling
=============================================================================
