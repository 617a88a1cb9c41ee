---------------------------- MODULE WorldProofs ----------------------------
(***************************************************************************)
(* Proofs about the letter world, for every value of the constants of      *)
(* MCWorld: what a model call may show, what the memory of the characters  *)
(* rests on, whose thought a thought is, what the page shows of the        *)
(* narrator's stream, and in which order letters, rows and beats move.     *)
(* Each part has an inductive invariant of its own: MCWorld moves one part *)
(* and keeps the others, so a step of another part leaves it untouched.    *)
(***************************************************************************)
EXTENDS MCWorld, TLAPS, FiniteSetTheorems, SequenceTheorems

(***************************************************************************)
(* The model call                                                          *)
(***************************************************************************)
\* While the call runs, what was emitted is what was gathered and nothing has
\* been answered; neither the one nor the other holds the key.
CallInv ==
  /\ stage \in {"check", "secret", "post", "read", "answered"}
  /\ gathered \in Seq(Pieces) /\ emitted \in Seq(Pieces) /\ total \in Nat
  /\ Len(emitted) <= total /\ Len(emitted) <= Ceiling
  /\ stage # "answered" => output = Call!Pending /\ gathered = emitted
  /\ ~Call!HoldsKey(emitted) /\ ~Call!HoldsKey(output.text)
  /\ output.error = "none" /\ face = "call_streaming" => output.text = emitted
  /\ output.error \notin {"none", "pending"} => output.text = Call!NoText

LEMMA MarkHoldsNoKey == ~Call!HoldsKey(Call!NoText)
<1>1. ASSUME NEW i \in DOMAIN <<"no text">>, NEW j \in DOMAIN <<"no text">>,
             SubSeq(<<"no text">>, i, j) = Key
      PROVE FALSE
  <2>1. DOMAIN <<"no text">> = {1}
    OBVIOUS
  <2>2. i = 1 /\ j = 1
    BY <2>1
  <2>3. SubSeq(<<"no text">>, 1, 1) = Key
    BY <1>1, <2>2
  <2>4. SubSeq(<<"no text">>, 1, 1)[1] = "no text"
    OBVIOUS
  <2>5. Key[1] = "no text"
    BY <2>3, <2>4
  <2>6. Key \in Seq(Pieces) /\ Key # <<>>
    BY KeyAssumption
  <2>7. Len(Key) # 0
    BY <2>6, EmptySeq
  <2>8. 1 \in 1 .. Len(Key)
    <3>1. Len(Key) \in Nat
      BY <2>6
    <3> QED
      BY <2>7, <3>1
  <2>9. Key[1] \in Pieces
    BY <2>6, <2>8
  <2> QED
    BY <2>5, <2>9, KeyAssumption
<1> QED
  BY <1>1 DEF Call!HoldsKey, Call!NoText

LEMMA CallInitial == Call!Init => CallInv
<1> SUFFICES ASSUME Call!Init PROVE CallInv
  OBVIOUS
<1>1. ~Call!HoldsKey(<<>>)
  BY DEF Call!HoldsKey
<1>2. output.text = Call!NoText /\ output.error = "pending"
  BY DEF Call!Init, Call!Pending
<1>3. Len(emitted) = 0 /\ total = 0 /\ 0 <= Ceiling
  <2>1. emitted = <<>> /\ total = 0
    BY DEF Call!Init
  <2>2. Ceiling \in Nat
    BY KeyAssumption
  <2> QED
    BY <2>1, <2>2
<1>4. Len(emitted) <= total /\ Len(emitted) <= Ceiling /\ total \in Nat
  BY <1>3
<1>5. gathered \in Seq(Pieces) /\ emitted \in Seq(Pieces)
  BY DEF Call!Init
<1>6. ~Call!HoldsKey(emitted) /\ ~Call!HoldsKey(output.text)
  BY <1>1, <1>2, MarkHoldsNoKey DEF Call!Init
<1> QED
  BY <1>2, <1>4, <1>5, <1>6 DEF Call!Init, CallInv

\* An answer without a text is safe to give at any point.
LEMMA RefusalKeepsInv ==
  ASSUME CallInv, NEW reason, reason \notin {"none", "pending"},
         Call!Answer(Call!Failure(reason)),
         gathered' \in Seq(Pieces), UNCHANGED emitted, total' \in {total, total + 1}
  PROVE CallInv'
<1>1. output' = [text |-> Call!NoText, error |-> reason]
  BY DEF Call!Answer, Call!Failure
<1>2. output'.text = Call!NoText /\ output'.error = reason
  BY <1>1
<1>3. stage' = "answered" /\ face' = face
  BY DEF Call!Answer
<1>4. total' \in Nat /\ Len(emitted') <= total'
  <2>1. Len(emitted) \in Nat /\ Len(emitted) <= total /\ total \in Nat
    BY DEF CallInv
  <2>2. Len(emitted') = Len(emitted)
    OBVIOUS
  <2> QED
    BY <2>1, <2>2
<1>5. ~Call!HoldsKey(emitted')
  BY DEF CallInv
<1>6. ~Call!HoldsKey(output'.text)
  BY <1>2, MarkHoldsNoKey
<1> QED
  BY <1>2, <1>3, <1>4, <1>5, <1>6 DEF CallInv, Call!HoldsKey

LEMMA CallStep == CallInv /\ Call!Next => CallInv'
<1> SUFFICES ASSUME CallInv, Call!Next PROVE CallInv'
  OBVIOUS
<1>0. total \in Nat /\ gathered \in Seq(Pieces) /\ emitted \in Seq(Pieces)
  BY DEF CallInv
<1>1. CASE Call!CheckDestination
  <2>1. CASE Call!Refusal # "none"
    <3>1. Call!Refusal \notin {"none", "pending"}
      BY <2>1 DEF Call!Refusal
    <3> QED
      BY <1>0, <1>1, <2>1, <3>1, RefusalKeepsInv DEF Call!CheckDestination
  <2>2. CASE Call!Refusal = "none"
    BY <1>1, <2>2 DEF Call!CheckDestination, CallInv, Call!HoldsKey
  <2> QED
    BY <2>1, <2>2
<1>2. CASE Call!ResolveKey
  <2>1. CASE Call!Answer(Call!Failure("missing-secret"))
    BY <1>0, <1>2, <2>1, RefusalKeepsInv DEF Call!ResolveKey
  <2>2. CASE stage' = "post" /\ UNCHANGED <<setup, face, output>>
    BY <1>2, <2>2 DEF Call!ResolveKey, CallInv, Call!HoldsKey
  <2> QED
    BY <1>2, <2>1, <2>2 DEF Call!ResolveKey
<1>3. CASE Call!Post
  <2>1. CASE \E reason \in {"timeout", "transport-error", "http-status"} :
               Call!Answer(Call!Failure(reason))
    BY <1>0, <1>3, <2>1, RefusalKeepsInv DEF Call!Post
  <2>2. CASE stage' = "read" /\ UNCHANGED <<setup, face, output>>
    BY <1>3, <2>2 DEF Call!Post, CallInv, Call!HoldsKey
  <2> QED
    BY <1>3, <2>1, <2>2 DEF Call!Post
<1>4. CASE Call!ReadBody
  <2>1. CASE \E reason \in {"response-too-large", "bad-json", "bad-shape"} :
               Call!Answer(Call!Failure(reason))
    BY <1>0, <1>4, <2>1, RefusalKeepsInv DEF Call!ReadBody
  <2>2. CASE \E text \in Call!BoundedSeq(Pieces, Ceiling) :
               Call!Answer(IF Call!EchoesKey(text) THEN Call!Failure("key-echo")
                           ELSE Call!Success(text))
    <3>1. PICK text \in Call!BoundedSeq(Pieces, Ceiling) :
               Call!Answer(IF Call!EchoesKey(text) THEN Call!Failure("key-echo")
                           ELSE Call!Success(text))
      BY <2>2
    <3>2. CASE Call!EchoesKey(text)
      BY <1>0, <1>4, <3>1, <3>2, RefusalKeepsInv DEF Call!ReadBody
    <3>3. CASE ~Call!EchoesKey(text)
      <4>1. output' = [text |-> text, error |-> "none"] /\ stage' = "answered" /\ face' = "call"
        BY <1>4, <3>1, <3>3 DEF Call!Answer, Call!Success, Call!ReadBody
      <4>2. output'.text = text /\ output'.error = "none"
        BY <4>1
      <4>3. ~Call!HoldsKey(output'.text)
        BY <3>3, <4>2 DEF Call!EchoesKey
      <4>4. emitted' = emitted /\ gathered' = gathered /\ total' = total
        BY <1>4 DEF Call!ReadBody
      <4> QED
        BY <4>1, <4>2, <4>3, <4>4 DEF CallInv, Call!HoldsKey
    <3> QED
      BY <3>2, <3>3
  <2> QED
    BY <1>4, <2>1, <2>2 DEF Call!ReadBody
<1>5. CASE Call!ReadLine
  <2>0. total' = total + 1 /\ stage = "read"
    BY <1>5 DEF Call!ReadLine
  <2>1. CASE /\ total = Ceiling
             /\ Call!Answer(Call!Failure("response-too-large")) /\ UNCHANGED <<gathered, emitted>>
    BY <1>0, <2>0, <2>1, RefusalKeepsInv
  <2>2. CASE total < Ceiling /\ UNCHANGED <<setup, face, stage, output, gathered, emitted>>
    <3>1. Len(emitted) \in Nat
      BY <1>0
    <3> QED
      BY <1>0, <2>0, <2>2, <3>1 DEF CallInv, Call!HoldsKey
  <2>3. CASE /\ total < Ceiling
             /\ \E reason \in {"bad-json", "bad-shape"} : Call!Answer(Call!Failure(reason))
             /\ UNCHANGED <<gathered, emitted>>
    BY <1>0, <2>0, <2>3, RefusalKeepsInv
  <2>4. CASE /\ total < Ceiling
             /\ \E p \in Pieces :
                  /\ gathered' = Append(gathered, p)
                  /\ IF Call!EchoesKey(gathered')
                     THEN Call!Answer(Call!Failure("key-echo")) /\ UNCHANGED emitted
                     ELSE /\ emitted' = Append(emitted, p)
                          /\ UNCHANGED <<setup, face, stage, output>>
    <3>1. PICK p \in Pieces :
                  /\ gathered' = Append(gathered, p)
                  /\ IF Call!EchoesKey(gathered')
                     THEN Call!Answer(Call!Failure("key-echo")) /\ UNCHANGED emitted
                     ELSE /\ emitted' = Append(emitted, p)
                          /\ UNCHANGED <<setup, face, stage, output>>
      BY <2>4
    <3>2. gathered' \in Seq(Pieces)
      BY <1>0, <3>1
    <3>3. CASE Call!EchoesKey(gathered')
      BY <1>0, <2>0, <3>1, <3>2, <3>3, RefusalKeepsInv
    <3>4. CASE ~Call!EchoesKey(gathered')
      <4>1. gathered = emitted /\ emitted' = gathered' /\ output = Call!Pending
        BY <2>0, <3>1, <3>4 DEF CallInv
      <4>2. Len(emitted) \in Nat /\ Len(emitted') = Len(emitted) + 1 /\ Len(emitted) <= total
        BY <1>0, <3>1, <4>1 DEF CallInv
      <4>3. Len(emitted') <= total' /\ Len(emitted') <= Ceiling
        <5>1. total < Ceiling /\ Ceiling \in Nat
          BY <2>4, KeyAssumption
        <5> HIDE <2>4
        <5> QED
          BY <1>0, <2>0, <4>2, <5>1
      <4>4. ~Call!HoldsKey(emitted')
        BY <3>4, <4>1 DEF Call!EchoesKey
      <4>5. output'.error = "pending" /\ output' = output
        BY <3>1, <3>4, <4>1 DEF Call!Pending
      <4>6. ~Call!HoldsKey(output'.text)
        BY <4>5 DEF CallInv
      <4> QED
        BY <1>0, <2>0, <3>1, <3>2, <3>4, <4>1, <4>3, <4>4, <4>5, <4>6 DEF CallInv, Call!HoldsKey
    <3> QED
      BY <3>3, <3>4
  <2> QED
    BY <1>5, <2>1, <2>2, <2>3, <2>4 DEF Call!ReadLine
<1>6. CASE Call!StreamEnds
  <2>1. output' = [text |-> gathered, error |-> "none"] /\ stage' = "answered"
    BY <1>6 DEF Call!StreamEnds, Call!Answer, Call!Success
  <2>2. output'.text = gathered /\ output'.error = "none"
    BY <2>1
  <2>3. emitted' = emitted /\ gathered' = gathered /\ total' = total /\ gathered = emitted
    BY <1>6 DEF Call!StreamEnds, CallInv
  <2> QED
    BY <2>1, <2>2, <2>3 DEF CallInv, Call!HoldsKey
<1>7. CASE Call!StreamBreaks
  BY <1>0, <1>7, RefusalKeepsInv DEF Call!StreamBreaks
<1> QED
  BY <1>1, <1>2, <1>3, <1>4, <1>5, <1>6, <1>7 DEF Call!Next

LEMMA CallStutter == CallInv /\ UNCHANGED callVars => CallInv'
  BY DEF CallInv, callVars, Call!HoldsKey

\* What a stream has shown is the start of what the call answers, all of it
\* when the call succeeds, and neither it nor the answer ever holds the key
\* (openai_provider.py, call and call_streaming), for every key and any length.
THEOREM ShownAnswered == WorldSpec => []ShownIsAnswered
<1>1. WorldInit => CallInv
  BY CallInitial DEF WorldInit
<1>2. CallInv /\ [WorldNext]_worldVars => CallInv'
  BY CallStep, CallStutter DEF WorldNext, worldVars
<1>3. CallInv => ShownIsAnswered
  BY DEF CallInv, ShownIsAnswered, Call!ShownIsAnswered
<1> QED
  BY <1>1, <1>2, <1>3, PTL DEF WorldSpec

(***************************************************************************)
(* What the persona remembers                                              *)
(***************************************************************************)
RowShaped(r) ==
  /\ r = [type |-> r.type, text |-> r.text, grade |-> r.grade, turn |-> r.turn,
          over |-> r.over, status |-> r.status]
  /\ r.type \in Recall!Types /\ r.turn \in Told /\ r.grade \in Recall!Grades
  /\ r.status \in {"ACTIVE", "SUPERSEDED"}

\* The rows R are told apart by their ids, and corrections between them form
\* chains: what a row corrects is a row of its type that is superseded, no two
\* rows correct the same one, and nothing is superseded without a successor.
Chains(R) ==
  /\ \A r \in R : RowShaped(r)
  /\ \A r, s \in R : Recall!MemoryId(r) = Recall!MemoryId(s) => r = s
  /\ \A s \in R : s.over # Recall!NoId =>
       \E r \in R : s.over = Recall!MemoryId(r)
  /\ \A r, s \in R : s.over = Recall!MemoryId(r) => r.status = "SUPERSEDED" /\ s.type = r.type
  /\ \A s, u \in R : s.over = u.over /\ s.over # Recall!NoId => s = u
  /\ \A r \in R : r.status = "SUPERSEDED" => \E s \in R : s.over = Recall!MemoryId(r)

\* What a row r may rest on, in a turn that is n.
RestsOn(r, n) ==
  /\ r.type = "USER_STATED_FACT" \/ r.grade \in Recall!Stated => n.said
  /\ r.type = "SHARED_EVENT" => n.delivered
  /\ r.type # "OPEN_THREAD" => ~n.command
  /\ r.grade \notin {"stated", "inferred"} => r.grade = "sensitive, with consent"

NatureShaped(n) == n \in [command : BOOLEAN, said : BOOLEAN, delivered : BOOLEAN]

RecallInv ==
  /\ Chains(recalled)
  /\ nature = [t \in Told |-> nature[t]] /\ \A t \in Told : NatureShaped(nature[t])
  /\ \A r \in recalled : RestsOn(r, nature[r.turn])

LEMMA IdsAreIds == \A r : Recall!MemoryId(r) # Recall!NoId
<1> TAKE r
<1>1. Len(<<r.type, r.text, r.turn>>) = 3 /\ Len(<<>>) = 0
  OBVIOUS
<1> QED
  BY <1>1 DEF Recall!MemoryId, Recall!NoId

LEMMA SameIdSameFields ==
  ASSUME NEW r, NEW s, r.type = s.type, r.text = s.text, r.turn = s.turn
  PROVE Recall!MemoryId(r) = Recall!MemoryId(s)
  BY DEF Recall!MemoryId

LEMMA ShapedNatures == \A n \in Natures : NatureShaped(n)
<1> TAKE n \in Natures
<1>1. n \in [command : BOOLEAN, said : BOOLEAN, delivered : BOOLEAN]
  BY NaturesAssumption
<1> QED
  BY <1>1 DEF NatureShaped

LEMMA RecallInitial == Recall!Init => RecallInv
<1> SUFFICES ASSUME Recall!Init PROVE RecallInv
  OBVIOUS
<1>1. Chains(recalled) /\ \A r \in recalled : RestsOn(r, nature[r.turn])
  BY DEF Recall!Init, Chains
<1>2. nature = [t \in Told |-> nature[t]] /\ \A t \in Told : nature[t] \in Natures
  BY DEF Recall!Init
<1> QED
  BY <1>1, <1>2, ShapedNatures DEF RecallInv

\* A row without a target goes in under a new id.
LEMMA ChainsGrow ==
  ASSUME NEW R, Chains(R), NEW p, RowShaped(p), p.status = "ACTIVE", p.over = Recall!NoId,
         \A r \in R : Recall!MemoryId(r) # Recall!MemoryId(p)
  PROVE Chains(R \cup {p})
<1> DEFINE Q == R \cup {p}
<1>1. \A r \in Q : RowShaped(r)
  BY DEF Chains
<1>2. \A r, s \in Q : Recall!MemoryId(r) = Recall!MemoryId(s) => r = s
  BY DEF Chains
<1>3. \A s \in Q : s.over # Recall!NoId => \E r \in Q : s.over = Recall!MemoryId(r)
  BY DEF Chains
<1>4. ASSUME NEW r \in Q, NEW s \in Q, s.over = Recall!MemoryId(r)
      PROVE r.status = "SUPERSEDED" /\ s.type = r.type
  <2>1. s \in R
    BY <1>4, IdsAreIds
  <2>2. PICK q \in R : s.over = Recall!MemoryId(q)
    BY <1>4, <2>1, IdsAreIds DEF Chains
  <2>3. r \in R
    BY <1>4, <2>2
  <2> QED
    BY <1>4, <2>1, <2>3 DEF Chains
<1>5. \A s, u \in Q : s.over = u.over /\ s.over # Recall!NoId => s = u
  BY DEF Chains
<1>6. \A r \in Q : r.status = "SUPERSEDED" => \E s \in Q : s.over = Recall!MemoryId(r)
  BY DEF Chains
<1> QED
  BY <1>1, <1>2, <1>3, <1>4, <1>5, <1>6 DEF Chains

\* A correction supersedes its target and goes in under a new id.
LEMMA ChainsCorrect ==
  ASSUME NEW R, Chains(R), NEW p, RowShaped(p), p.status = "ACTIVE",
         NEW o \in R, Recall!Corrects(p, o),
         \A r \in R : Recall!MemoryId(r) # Recall!MemoryId(p)
  PROVE Chains((R \ {o}) \cup {[o EXCEPT !.status = "SUPERSEDED"], p})
<1> DEFINE old == [o EXCEPT !.status = "SUPERSEDED"]
           Q == (R \ {o}) \cup {old, p}
<1>1. /\ RowShaped(old) /\ old.status = "SUPERSEDED"
      /\ old.type = o.type /\ old.text = o.text /\ old.turn = o.turn
      /\ old.over = o.over /\ old.grade = o.grade
  BY DEF Chains, RowShaped
<1>2. /\ p.over = Recall!MemoryId(o) /\ p.type = o.type /\ o.status = "ACTIVE"
      /\ Recall!MemoryId(old) = Recall!MemoryId(o)
      /\ p.over # Recall!NoId
  BY <1>1, SameIdSameFields, IdsAreIds DEF Recall!Corrects
<1> HIDE DEF old
<1>3. \A r \in Q : r = old \/ r = p \/ (r \in R /\ r # o)
  OBVIOUS
<1>4. \A s \in R : s.over # p.over
  BY <1>2 DEF Chains
<1>5. \A r \in Q : r = p \/ \E q \in R : Recall!MemoryId(q) = Recall!MemoryId(r) /\ q.over = r.over
                                          /\ q.type = r.type
  BY <1>1, <1>2, <1>3
<1>6. \A q \in R : \E r \in Q : Recall!MemoryId(q) = Recall!MemoryId(r) /\ q.over = r.over
  <2> TAKE q \in R
  <2>1. CASE q = o
    BY <1>1, <1>2, <2>1
  <2>2. CASE q # o
    BY <2>2
  <2> QED
    BY <2>1, <2>2
<1>11. \A r \in Q : RowShaped(r)
  BY <1>1, <1>3 DEF Chains
<1>12. ASSUME NEW r \in Q, NEW s \in Q, Recall!MemoryId(r) = Recall!MemoryId(s)
       PROVE r = s
  <2>1. CASE r = p \/ s = p
    BY <1>2, <1>3, <1>5, <1>12, <2>1
  <2>2. CASE r # p /\ s # p
    <3>1. CASE r = old /\ s # old
      BY <1>2, <1>3, <1>12, <2>2, <3>1 DEF Chains
    <3>2. CASE s = old /\ r # old
      BY <1>2, <1>3, <1>12, <2>2, <3>2 DEF Chains
    <3>3. CASE s # old /\ r # old
      BY <1>3, <1>12, <2>2, <3>3 DEF Chains
    <3> QED
      BY <3>1, <3>2, <3>3
  <2> QED
    BY <2>1, <2>2
<1>13. ASSUME NEW s \in Q, s.over # Recall!NoId
       PROVE \E r \in Q : s.over = Recall!MemoryId(r)
  <2>1. \E q \in R : s.over = Recall!MemoryId(q)
    BY <1>2, <1>5, <1>13 DEF Chains
  <2> QED
    BY <1>6, <2>1
<1>14. ASSUME NEW r \in Q, NEW s \in Q, s.over = Recall!MemoryId(r)
       PROVE r.status = "SUPERSEDED" /\ s.type = r.type
  <2>1. CASE s = p
    <3>1. r = old
      BY <1>2, <1>12, <1>14, <2>1
    <3> QED
      BY <1>1, <1>2, <2>1, <3>1
  <2>2. CASE s # p
    <3>1. PICK q \in R : q.over = s.over /\ q.type = s.type
      BY <1>5, <2>2
    <3>2. r # p
      <4>1. \E u \in R : q.over = Recall!MemoryId(u)
        BY <1>14, <3>1, IdsAreIds DEF Chains
      <4> QED
        BY <1>14, <3>1, <4>1
    <3>3. CASE r = old
      BY <1>1, <1>2, <1>14, <3>1, <3>3 DEF Chains
    <3>4. CASE r \in R
      BY <1>14, <3>1, <3>4 DEF Chains
    <3> QED
      BY <1>3, <3>2, <3>3, <3>4
  <2> QED
    BY <2>1, <2>2
<1>15. ASSUME NEW s \in Q, NEW u \in Q, s.over = u.over, s.over # Recall!NoId
       PROVE s = u
  <2>1. CASE s = p \/ u = p
    BY <1>4, <1>5, <1>15, <2>1
  <2>2. CASE s # p /\ u # p
    <3>1. PICK q \in R : Recall!MemoryId(q) = Recall!MemoryId(s) /\ q.over = s.over
      BY <1>5, <2>2
    <3>2. PICK v \in R : Recall!MemoryId(v) = Recall!MemoryId(u) /\ v.over = u.over
      BY <1>5, <2>2
    <3>3. q = v
      BY <1>15, <3>1, <3>2 DEF Chains
    <3> QED
      BY <1>12, <3>1, <3>2, <3>3
  <2> QED
    BY <2>1, <2>2
<1>16. ASSUME NEW r \in Q, r.status = "SUPERSEDED"
       PROVE \E s \in Q : s.over = Recall!MemoryId(r)
  <2>1. CASE r = old
    BY <1>2, <2>1
  <2>2. CASE r # old
    <3>1. r \in R
      BY <1>3, <1>16, <2>2
    <3>2. PICK s \in R : s.over = Recall!MemoryId(r)
      BY <1>16, <3>1 DEF Chains
    <3> QED
      BY <1>6, <3>2
  <2> QED
    BY <2>1, <2>2
<1>17. Chains(Q)
  BY <1>11, <1>12, <1>13, <1>14, <1>15, <1>16 DEF Chains
<1> QED
  BY <1>17 DEF old

\* commit_memory: nothing, an insertion, or a correction of one row.
LEMMA CommitDoes ==
  ASSUME Chains(recalled), NEW p, RowShaped(p), p.status = "ACTIVE"
  PROVE \/ Recall!CommittedRows(p) = recalled
        \/ /\ \A r \in recalled : Recall!MemoryId(r) # Recall!MemoryId(p)
           /\ p.over = Recall!NoId
           /\ Recall!CommittedRows(p) = recalled \cup {p}
        \/ /\ \A r \in recalled : Recall!MemoryId(r) # Recall!MemoryId(p)
           /\ \E o \in recalled :
                /\ Recall!Corrects(p, o)
                /\ Recall!CommittedRows(p)
                     = (recalled \ {o}) \cup {[o EXCEPT !.status = "SUPERSEDED"], p}
<1>1. CASE Recall!MemoryId(p) \in Recall!Ids
  BY <1>1 DEF Recall!CommittedRows
<1>2. CASE Recall!MemoryId(p) \notin Recall!Ids
  <2>1. \A r \in recalled : Recall!MemoryId(r) # Recall!MemoryId(p)
    BY <1>2 DEF Recall!Ids
  <2>2. CASE p.over = Recall!NoId
    BY <1>2, <2>1, <2>2 DEF Recall!CommittedRows
  <2>3. CASE p.over # Recall!NoId
    <3> DEFINE After(r) == IF Recall!SameSaying(p, r) THEN recalled
                           ELSE (recalled \ {r}) \cup {[r EXCEPT !.status = "SUPERSEDED"], p}
               Targets == {r \in recalled : Recall!Corrects(p, r)}
               Kept == IF \E r \in recalled : Recall!Corrects(p, r) THEN {} ELSE recalled
    <3>1. Recall!CommittedRows(p) = (UNION {After(r) : r \in Targets}) \cup Kept
      BY <1>2, <2>3 DEF Recall!CommittedRows
    <3> HIDE DEF After
    <3>2. CASE Targets = {}
      <4>1. Kept = recalled
        BY <3>2
      <4> HIDE DEF Kept, Targets
      <4>2. \A x : x \in Recall!CommittedRows(p) <=> x \in recalled
        <5>1. \A x : x \in Recall!CommittedRows(p) <=>
                      (\E r \in Targets : x \in After(r)) \/ x \in Kept
          BY <3>1
        <5> QED
          BY <3>2, <4>1, <5>1
      <4>3. Recall!CommittedRows(p) \subseteq recalled /\ recalled \subseteq Recall!CommittedRows(p)
        BY <4>2
      <4> QED
        BY <4>3
    <3>3. CASE Targets # {}
      <4>1. PICK o \in recalled : Recall!Corrects(p, o)
        BY <3>3
      <4>2. \A r \in Targets : r = o
        BY <4>1 DEF Recall!Corrects, Chains
      <4>3. Targets = {o}
        BY <4>1, <4>2
      <4>4. Kept = {}
        BY <4>1
      <4>5. Recall!CommittedRows(p) = After(o)
        BY <3>1, <4>3, <4>4
      <4> QED
        BY <2>1, <4>1, <4>5 DEF After
    <3> QED
      BY <3>2, <3>3
  <2> QED
    BY <2>2, <2>3
<1> QED
  BY <1>1, <1>2

\* What the recorder and the validation let through rests on its turn.
LEMMA HeardRests ==
  ASSUME RecallInv, NEW t \in Told, NEW c \in Recall!Candidates,
         Recall!Heard(t, c), Recall!Sound(Recall!Proposal(t, c))
  PROVE /\ RowShaped(Recall!Proposal(t, c))
        /\ Recall!Proposal(t, c).status = "ACTIVE" /\ Recall!Proposal(t, c).turn = t
        /\ RestsOn(Recall!Proposal(t, c), nature[t])
<1>1. /\ c.type \in Recall!Types /\ c.grade \in Recall!Grades
  BY DEF Recall!Candidates
<1> DEFINE p == Recall!Proposal(t, c)
<1>2. /\ p = [type |-> p.type, text |-> p.text, grade |-> p.grade, turn |-> p.turn,
              over |-> p.over, status |-> p.status]
      /\ p.type = c.type /\ p.text = c.text /\ p.grade = c.grade /\ p.turn = t
      /\ p.over = c.over /\ p.status = "ACTIVE"
  BY DEF Recall!Proposal
<1> HIDE DEF p
<1>3. RowShaped(p)
  BY <1>1, <1>2 DEF RowShaped
<1>4. NatureShaped(nature[t])
  BY DEF RecallInv
<1>5. p.type = "USER_STATED_FACT" => p.grade \in Recall!Stated
  BY DEF Recall!Sound, p
<1>6. p.type = "USER_STATED_FACT" \/ p.grade \in Recall!Stated => nature[t].said
  BY <1>2, <1>5 DEF Recall!Heard
<1>7. p.type = "SHARED_EVENT" => nature[t].delivered
  BY <1>2 DEF Recall!Heard
<1>8. p.type # "OPEN_THREAD" => ~nature[t].command
  BY <1>1, <1>2 DEF Recall!Heard, Recall!Types
<1>9. p.grade \notin {"stated", "inferred"} => p.grade = "sensitive, with consent"
  BY <1>1, <1>2 DEF Recall!Heard, Recall!PersistenceAllowed, Recall!Grades, Recall!Stated
<1> QED
  BY <1>2, <1>3, <1>6, <1>7, <1>8, <1>9 DEF RestsOn, p

LEMMA ProposeKeeps ==
  ASSUME RecallInv, NEW t \in Told, Recall!Propose(t)
  PROVE RecallInv'
<1>0. PICK c \in Recall!Candidates :
        Recall!Heard(t, c) /\ recalled' = Recall!Written(Recall!Proposal(t, c))
  BY DEF Recall!Propose
<1> DEFINE p == Recall!Proposal(t, c)
<1>1. nature' = nature
  BY DEF Recall!Propose
<1>2. CASE ~Recall!Sound(p)
  <2>1. recalled' = recalled
    BY <1>0, <1>2 DEF Recall!Written
  <2> QED
    BY <1>1, <2>1 DEF RecallInv
<1>3. CASE Recall!Sound(p)
  <2>1. recalled' = Recall!CommittedRows(p)
    BY <1>0, <1>3 DEF Recall!Written
  <2>2. RowShaped(p) /\ p.status = "ACTIVE" /\ p.turn = t /\ RestsOn(p, nature[t])
    BY <1>0, <1>3, HeardRests
  <2> HIDE DEF p
  <2>3. Chains(recalled) /\ \A r \in recalled : RestsOn(r, nature[r.turn])
    BY DEF RecallInv
  <2>4. Chains(recalled') /\ \A r \in recalled' : RestsOn(r, nature[r.turn])
    <3>1. CASE recalled' = recalled
      BY <2>3, <3>1
    <3>2. CASE /\ \A r \in recalled : Recall!MemoryId(r) # Recall!MemoryId(p)
               /\ p.over = Recall!NoId
               /\ recalled' = recalled \cup {p}
      <4>1. Chains(recalled \cup {p})
        BY <2>2, <2>3, <3>2, ChainsGrow
      <4> QED
        BY <2>2, <2>3, <3>2, <4>1
    <3>3. CASE /\ \A r \in recalled : Recall!MemoryId(r) # Recall!MemoryId(p)
               /\ \E o \in recalled :
                    /\ Recall!Corrects(p, o)
                    /\ recalled' = (recalled \ {o}) \cup {[o EXCEPT !.status = "SUPERSEDED"], p}
      <4>1. PICK o \in recalled :
                    /\ Recall!Corrects(p, o)
                    /\ recalled' = (recalled \ {o}) \cup {[o EXCEPT !.status = "SUPERSEDED"], p}
        BY <3>3
      <4>2. Chains(recalled')
        BY <2>2, <2>3, <3>3, <4>1, ChainsCorrect
      <4> DEFINE old == [o EXCEPT !.status = "SUPERSEDED"]
      <4>3. old.type = o.type /\ old.turn = o.turn /\ old.grade = o.grade
        BY <2>3 DEF Chains, RowShaped
      <4>4. RestsOn(o, nature[o.turn])
        BY <2>3
      <4> HIDE DEF old
      <4>5. RestsOn(old, nature[old.turn])
        BY <4>3, <4>4 DEF RestsOn
      <4> QED
        BY <2>2, <2>3, <4>1, <4>2, <4>5 DEF old
    <3> QED
      BY <2>1, <2>2, <2>3, <3>1, <3>2, <3>3, CommitDoes
  <2> QED
    BY <1>1, <2>4 DEF RecallInv
<1> QED
  BY <1>2, <1>3

\* A delivery that is reconciled takes no ground away.
LEMMA DeliveredKeeps ==
  ASSUME RecallInv, NEW t \in Told, Recall!Delivered(t)
  PROVE RecallInv'
<1>1. recalled' = recalled /\ nature' = [nature EXCEPT ![t].delivered = TRUE]
  BY DEF Recall!Delivered
<1>2. nature = [d \in Told |-> nature[d]] /\ \A d \in Told : NatureShaped(nature[d])
  BY DEF RecallInv
<1> DEFINE n == [nature[t] EXCEPT !.delivered = TRUE]
<1>3. /\ NatureShaped(n) /\ n.delivered = TRUE
      /\ n.said = nature[t].said /\ n.command = nature[t].command
  <2>1. nature[t] \in [command : BOOLEAN, said : BOOLEAN, delivered : BOOLEAN]
    BY <1>2 DEF NatureShaped
  <2>2. n \in [command : BOOLEAN, said : BOOLEAN, delivered : BOOLEAN]
    BY <2>1
  <2>3. n.delivered = TRUE
    BY <2>1
  <2>4. n.said = nature[t].said
    BY <2>1
  <2>5. n.command = nature[t].command
    BY <2>1
  <2> QED
    BY <2>2, <2>3, <2>4, <2>5 DEF NatureShaped
<1>4. nature' = [d \in Told |-> IF d = t THEN n ELSE nature[d]]
  BY <1>1, <1>2
<1> HIDE DEF n
<1>5. /\ nature' = [d \in Told |-> nature'[d]]
      /\ \A d \in Told : nature'[d] = IF d = t THEN n ELSE nature[d]
  BY <1>4
<1>6. ASSUME NEW r \in recalled PROVE RestsOn(r, nature'[r.turn])
  <2>1. r.turn \in Told /\ RestsOn(r, nature[r.turn])
    BY DEF RecallInv, Chains, RowShaped
  <2> QED
    BY <1>3, <1>5, <2>1 DEF RestsOn
<1> QED
  BY <1>1, <1>2, <1>3, <1>5, <1>6 DEF RecallInv

LEMMA RecallStep == RecallInv /\ Recall!Next => RecallInv'
<1> SUFFICES ASSUME RecallInv, Recall!Next PROVE RecallInv'
  OBVIOUS
<1>1. PICK t \in Told : Recall!StartRun(t) \/ Recall!Propose(t) \/ Recall!EndRun(t)
                        \/ Recall!Delivered(t)
  BY DEF Recall!Next
<1>2. CASE Recall!StartRun(t) \/ Recall!EndRun(t)
  BY <1>2 DEF Recall!StartRun, Recall!EndRun, RecallInv
<1> QED
  BY <1>1, <1>2, ProposeKeeps, DeliveredKeeps

LEMMA RecallStutter == RecallInv /\ UNCHANGED recallVars => RecallInv'
  BY DEF RecallInv, recallVars

LEMMA ChainsCount ==
  ASSUME Chains(recalled)
  PROVE Recall!CorrectionsAreChains
<1>0. \A S : Recall!Cardinality(S) = Cardinality(S)
  BY DEF Recall!Cardinality, Cardinality
<1> SUFFICES ASSUME NEW r \in recalled
             PROVE LET by == {s \in recalled : s.over = Recall!MemoryId(r)} IN
                   /\ Recall!Cardinality(by) = IF r.status = "SUPERSEDED" THEN 1 ELSE 0
                   /\ \A s \in by : s.type = r.type
  BY DEF Recall!CorrectionsAreChains
<1> DEFINE by == {s \in recalled : s.over = Recall!MemoryId(r)}
<1>1. \A s \in by : s.type = r.type
  BY DEF Chains
<1>2. CASE r.status = "SUPERSEDED"
  <2>1. PICK s \in recalled : s.over = Recall!MemoryId(r)
    BY <1>2 DEF Chains
  <2>2. by = {s}
    BY <2>1, IdsAreIds DEF Chains
  <2>3. Cardinality(by) = 1
    BY <2>2, FS_Singleton
  <2> QED
    BY <1>0, <1>1, <1>2, <2>3
<1>3. CASE r.status # "SUPERSEDED"
  <2>1. by = {}
    BY <1>3 DEF Chains
  <2>2. Cardinality(by) = 0
    BY <2>1, FS_EmptySet
  <2> QED
    BY <1>0, <1>1, <1>3, <2>2
<1> QED
  BY <1>2, <1>3

\* Memories rest on what their turn really held, and a correction replaces
\* one row once, whichever runs of whichever turns overlap (commit_memory,
\* _supersede, _refuse_candidate), for any number of turns and candidates.
THEOREM MemoriesSound == WorldSpec => []MemoriesAreSound
<1>1. WorldInit => RecallInv
  BY RecallInitial DEF WorldInit
<1>2. RecallInv /\ [WorldNext]_worldVars => RecallInv'
  BY RecallStep, RecallStutter DEF WorldNext, worldVars
<1>3. RecallInv => MemoriesAreSound
  <2> SUFFICES ASSUME RecallInv PROVE MemoriesAreSound
    OBVIOUS
  <2>1. Recall!CorrectionsAreChains
    BY ChainsCount DEF RecallInv
  <2>2. Recall!MemoriesAreGrounded
    BY DEF RecallInv, RestsOn, Recall!MemoriesAreGrounded
  <2> QED
    BY <2>1, <2>2 DEF MemoriesAreSound
<1> QED
  BY <1>1, <1>2, <1>3, PTL DEF WorldSpec

(***************************************************************************)
(* What the characters think                                               *)
(***************************************************************************)
\* The drive in progress: whom it asked and what they said.
DriveShaped ==
  /\ drive = [pc |-> drive.pc, asked |-> drive.asked, said |-> drive.said]
  /\ drive.pc \in {"away", "dispatch", "propose", "rule", "think", "narrate"}
  /\ drive.asked \subseteq present \ {Player}
  /\ drive.said \subseteq drive.asked \X Thinkings
  /\ drive.pc \in {"dispatch", "propose"} => drive.said = {}
  /\ drive.pc # "away" => beat \in DOMAIN Beats

\* A beat is asked before its event is there, and its thoughts land after.
DriveInTime ==
  /\ drive.pc \in {"dispatch", "propose", "rule"} /\ Minds!KindOf(beat) # "reply"
       => beat \notin DOMAIN happened
  /\ drive.pc = "think" =>
       /\ beat \in DOMAIN happened
       /\ Minds!KindOf(beat) # "reply" =>
            happened[beat].run = drives /\ drive.asked \subseteq happened[beat].who

\* A thought m is its thinker's own and rests on the run that ruled the event.
OwnThought(m, h) ==
  /\ m.who \in present \ {Player} /\ m.beat \in DOMAIN h
  /\ Minds!KindOf(m.beat) # "reply" => m.who \in h[m.beat].who /\ m.run = h[m.beat].run

MindsInv ==
  /\ DriveShaped
  /\ DriveInTime
  /\ \A m \in minds : m.kind = "INFERRED" => OwnThought(m, happened)

LEMMA MindsInitial == Minds!Init => MindsInv
<1> SUFFICES ASSUME Minds!Init PROVE MindsInv
  OBVIOUS
<1>1. drive = [pc |-> "away", asked |-> {}, said |-> {}] /\ minds = {}
  BY DEF Minds!Init, Minds!Away
<1>2. DriveShaped
  BY <1>1 DEF DriveShaped
<1>3. DriveInTime
  BY <1>1 DEF DriveInTime
<1> QED
  BY <1>1, <1>2, <1>3 DEF MindsInv

\* A run that is over leaves nothing in hand.
LEMMA AwayIsSafe ==
  ASSUME drive' = Minds!Away
  PROVE DriveShaped' /\ DriveInTime'
<1>1. drive' = [pc |-> "away", asked |-> {}, said |-> {}]
  BY DEF Minds!Away
<1>2. drive'.pc = "away" /\ drive'.asked = {} /\ drive'.said = {}
  BY <1>1
<1> QED
  BY <1>1, <1>2 DEF DriveShaped, DriveInTime

\* Old thoughts keep standing on the events that are there.
LEMMA ThoughtsKept ==
  ASSUME MindsInv, present' = present,
         \A b \in DOMAIN happened : b \in DOMAIN happened' /\ happened'[b] = happened[b]
  PROVE \A m \in minds : m.kind = "INFERRED" => OwnThought(m, happened)'
<1> SUFFICES ASSUME NEW m \in minds, m.kind = "INFERRED" PROVE OwnThought(m, happened)'
  OBVIOUS
<1>1. OwnThought(m, happened)
  BY DEF MindsInv
<1> QED
  BY <1>1 DEF OwnThought, Minds!KindOf

LEMMA StartBeatKeeps == MindsInv /\ Minds!StartBeat => MindsInv'
<1> SUFFICES ASSUME MindsInv, Minds!StartBeat PROVE MindsInv'
  OBVIOUS
<1> DEFINE q == IF Minds!MustAsk(beat) THEN "dispatch" ELSE "narrate"
<1>1. /\ present' = present /\ happened' = happened /\ minds' = minds /\ beat' = beat
      /\ beat \in DOMAIN Beats
  BY DEF Minds!StartBeat
<1>2. drive' = [pc |-> q, asked |-> {}, said |-> {}]
  BY DEF Minds!StartBeat, Minds!Away
<1>3. drive'.pc = q /\ drive'.asked = {} /\ drive'.said = {}
  BY <1>2
<1>4. DriveShaped'
  BY <1>1, <1>2, <1>3 DEF DriveShaped
<1>5. DriveInTime'
  BY <1>1, <1>3 DEF DriveInTime, Minds!MustAsk, Minds!KindOf
<1> QED
  BY <1>1, <1>4, <1>5, ThoughtsKept DEF MindsInv

LEMMA DispatchKeeps == MindsInv /\ Minds!Dispatch => MindsInv'
<1> SUFFICES ASSUME MindsInv, Minds!Dispatch PROVE MindsInv'
  OBVIOUS
<1>1. /\ present' = present /\ happened' = happened /\ minds' = minds /\ beat' = beat
      /\ drives' = drives /\ drive.pc = "dispatch"
  BY DEF Minds!Dispatch, Minds!Durable
<1>2. PICK named \in SUBSET (Actors \cup {Player}) :
        drive' = IF named \subseteq present \ {Player} \/ Minds!KindOf(beat) = "settle"
                 THEN [drive EXCEPT !.pc = "propose", !.asked = Minds!Responders(named)]
                 ELSE Minds!Away
  BY DEF Minds!Dispatch
<1>3. CASE drive' = Minds!Away
  BY <1>1, <1>3, AwayIsSafe, ThoughtsKept DEF MindsInv
<1>4. CASE drive' = [drive EXCEPT !.pc = "propose", !.asked = Minds!Responders(named)]
  <2>0. PICK P, A, S : drive = [pc |-> P, asked |-> A, said |-> S]
    BY DEF MindsInv, DriveShaped
  <2>1. drive' = [pc |-> "propose", asked |-> Minds!Responders(named), said |-> S]
    BY <1>4, <2>0
  <2>2. /\ drive'.pc = "propose" /\ drive'.asked = Minds!Responders(named)
        /\ drive'.said = S /\ drive.said = S
    BY <2>0, <2>1
  <2>3. Minds!Responders(named) \subseteq present \ {Player}
    BY DEF Minds!Responders
  <2>4. DriveShaped'
    BY <1>1, <2>1, <2>2, <2>3 DEF MindsInv, DriveShaped
  <2>5. DriveInTime'
    BY <1>1, <2>2 DEF MindsInv, DriveInTime, Minds!KindOf
  <2> QED
    BY <1>1, <2>4, <2>5, ThoughtsKept DEF MindsInv
<1> QED
  BY <1>2, <1>3, <1>4

LEMMA ProposeThoughtsKeeps == MindsInv /\ Minds!Propose => MindsInv'
<1> SUFFICES ASSUME MindsInv, Minds!Propose PROVE MindsInv'
  OBVIOUS
<1>1. /\ present' = present /\ happened' = happened /\ minds' = minds /\ beat' = beat
      /\ drives' = drives /\ drive.pc = "propose"
  BY DEF Minds!Propose, Minds!Durable
<1>2. PICK heard \in SUBSET (drive.asked \X Thinkings) :
        drive' = [drive EXCEPT !.pc = "rule", !.said = heard]
  BY DEF Minds!Propose
<1>3. PICK P, A, S : drive = [pc |-> P, asked |-> A, said |-> S]
  BY DEF MindsInv, DriveShaped
<1>4. drive' = [pc |-> "rule", asked |-> A, said |-> heard]
  BY <1>2, <1>3
<1>5. drive'.pc = "rule" /\ drive'.asked = drive.asked /\ drive'.said = heard
  BY <1>3, <1>4
<1>6. heard \subseteq drive'.asked \X Thinkings
  BY <1>5
<1>7. DriveShaped'
  BY <1>1, <1>4, <1>5, <1>6 DEF MindsInv, DriveShaped
<1>8. DriveInTime'
  BY <1>1, <1>5 DEF MindsInv, DriveInTime, Minds!KindOf
<1> QED
  BY <1>1, <1>7, <1>8, ThoughtsKept DEF MindsInv

LEMMA RuleKeeps == MindsInv /\ Minds!Rule => MindsInv'
<1> SUFFICES ASSUME MindsInv, Minds!Rule PROVE MindsInv'
  OBVIOUS
<1>1. /\ present' = present /\ minds' = minds /\ beat' = beat /\ drives' = drives
      /\ drive.pc = "rule" /\ drive' = [drive EXCEPT !.pc = "think"]
  BY DEF Minds!Rule
<1>2. PICK named \in SUBSET present :
        /\ Minds!KindOf(beat) = "world" => named = drive.asked
        /\ Minds!KindOf(beat) = "settle" => named = present \ {Player}
        /\ happened' = IF beat \in DOMAIN happened THEN happened
                       ELSE [b \in DOMAIN happened \cup {beat} |->
                               IF b = beat THEN [run |-> drives, who |-> named]
                               ELSE happened[b]]
  BY DEF Minds!Rule
<1>3. /\ drive'.pc = "think" /\ drive'.asked = drive.asked /\ drive'.said = drive.said
      /\ drive' = [pc |-> "think", asked |-> drive'.asked, said |-> drive'.said]
  <2>1. PICK P, A, S : drive = [pc |-> P, asked |-> A, said |-> S]
    BY DEF MindsInv, DriveShaped
  <2> QED
    BY <1>1, <2>1
<1>4. DriveShaped'
  BY <1>1, <1>3 DEF MindsInv, DriveShaped
<1>5. beat \in DOMAIN happened' /\ \A b \in DOMAIN happened : b \in DOMAIN happened'
                                                         /\ happened'[b] = happened[b]
  BY <1>2
<1>6. ASSUME Minds!KindOf(beat) # "reply"
      PROVE happened'[beat].run = drives /\ drive.asked \subseteq happened'[beat].who
  <2>1. beat \notin DOMAIN happened
    BY <1>1, <1>6 DEF MindsInv, DriveInTime
  <2>2. happened'[beat] = [run |-> drives, who |-> named]
    BY <1>2, <2>1
  <2>3. happened'[beat].run = drives /\ happened'[beat].who = named
    BY <2>2
  <2>4. beat \in DOMAIN Beats /\ drive.asked \subseteq present \ {Player}
    BY <1>1 DEF MindsInv, DriveShaped
  <2>5. Minds!KindOf(beat) \in {"world", "reply", "settle"}
    BY <2>4, BeatsAssumption DEF Minds!KindOf
  <2>6. drive.asked \subseteq named
    BY <1>2, <1>6, <2>4, <2>5
  <2> QED
    BY <2>3, <2>6
<1>7. DriveInTime'
  BY <1>1, <1>3, <1>5, <1>6 DEF DriveInTime, Minds!KindOf
<1> QED
  BY <1>1, <1>4, <1>5, <1>7, ThoughtsKept DEF MindsInv

LEMMA LandThoughtKeeps == MindsInv /\ Minds!LandThought => MindsInv'
<1> SUFFICES ASSUME MindsInv, Minds!LandThought PROVE MindsInv'
  OBVIOUS
<1>1. /\ present' = present /\ happened' = happened /\ beat' = beat /\ drives' = drives
      /\ drive.pc = "think"
  BY DEF Minds!LandThought
<1>2. PICK p \in drive.said :
        /\ minds' = Minds!Believed([beat |-> beat, who |-> p[1], kind |-> "INFERRED",
                                    text |-> p[2], run |-> drives])
        /\ drive' = [drive EXCEPT !.said = @ \ {p}]
  BY DEF Minds!LandThought
<1>0. PICK row : row = [beat |-> beat, who |-> p[1], kind |-> "INFERRED", text |-> p[2],
                        run |-> drives]
  OBVIOUS
<1>3. minds' = minds \/ minds' = minds \cup {row}
  BY <1>0, <1>2 DEF Minds!Believed
<1>4. /\ drive'.pc = "think" /\ drive'.asked = drive.asked /\ drive'.said = drive.said \ {p}
      /\ drive' = [pc |-> "think", asked |-> drive'.asked, said |-> drive'.said]
  <2>1. PICK P, A, S : drive = [pc |-> P, asked |-> A, said |-> S]
    BY DEF MindsInv, DriveShaped
  <2> QED
    BY <1>1, <1>2, <2>1
<1>5. DriveShaped'
  BY <1>1, <1>4 DEF MindsInv, DriveShaped
<1>6. DriveInTime'
  BY <1>1, <1>4 DEF MindsInv, DriveInTime, Minds!KindOf
<1>7. row.who \in drive.asked /\ row.beat = beat /\ row.run = drives
  BY <1>0 DEF MindsInv, DriveShaped
<1>8. OwnThought(row, happened)
  <2>1. row.who \in present \ {Player} /\ row.beat \in DOMAIN happened
    BY <1>1, <1>7 DEF MindsInv, DriveShaped, DriveInTime
  <2> QED
    BY <1>1, <1>7, <2>1 DEF MindsInv, DriveInTime, OwnThought
<1>9. OwnThought(row, happened)'
  BY <1>1, <1>8 DEF OwnThought, Minds!KindOf
<1> QED
  BY <1>1, <1>3, <1>5, <1>6, <1>9, ThoughtsKept DEF MindsInv

LEMMA ThoughtsLandedKeeps == MindsInv /\ Minds!ThoughtsLanded => MindsInv'
<1> SUFFICES ASSUME MindsInv, Minds!ThoughtsLanded PROVE MindsInv'
  OBVIOUS
<1>1. /\ present' = present /\ happened' = happened /\ minds' = minds /\ beat' = beat
      /\ drive.pc = "think" /\ drive' = [drive EXCEPT !.pc = "narrate"]
  BY DEF Minds!ThoughtsLanded, Minds!Durable
<1>2. /\ drive'.pc = "narrate" /\ drive'.asked = drive.asked /\ drive'.said = drive.said
      /\ drive' = [pc |-> "narrate", asked |-> drive'.asked, said |-> drive'.said]
  <2>1. PICK P, A, S : drive = [pc |-> P, asked |-> A, said |-> S]
    BY DEF MindsInv, DriveShaped
  <2> QED
    BY <1>1, <2>1
<1>3. DriveShaped'
  BY <1>1, <1>2 DEF MindsInv, DriveShaped
<1>4. DriveInTime'
  BY <1>2 DEF DriveInTime
<1> QED
  BY <1>1, <1>3, <1>4, ThoughtsKept DEF MindsInv

LEMMA SegmentKeeps == MindsInv /\ Minds!Segment => MindsInv'
<1> SUFFICES ASSUME MindsInv, Minds!Segment PROVE MindsInv'
  OBVIOUS
<1>1. present' = present /\ happened' = happened /\ drive' = Minds!Away
  BY DEF Minds!Segment
<1>2. \A m \in minds' : m \in minds \/ m.kind = "EXPERIENCED"
  BY DEF Minds!Segment, Minds!Experienced
<1> QED
  BY <1>1, <1>2, AwayIsSafe, ThoughtsKept DEF MindsInv

LEMMA StoppedKeeps == MindsInv /\ Minds!Stopped => MindsInv'
<1> SUFFICES ASSUME MindsInv, Minds!Stopped PROVE MindsInv'
  OBVIOUS
<1>1. present' = present /\ happened' = happened /\ minds' = minds /\ drive' = Minds!Away
  BY DEF Minds!Stopped, Minds!Durable
<1> QED
  BY <1>1, AwayIsSafe, ThoughtsKept DEF MindsInv

LEMMA MindsStep == MindsInv /\ Minds!Next => MindsInv'
  BY StartBeatKeeps, DispatchKeeps, ProposeThoughtsKeeps, RuleKeeps, LandThoughtKeeps,
     ThoughtsLandedKeeps, SegmentKeeps, StoppedKeeps DEF Minds!Next

LEMMA MindsStutter == MindsInv /\ UNCHANGED thoughtVars => MindsInv'
  BY DEF MindsInv, thoughtVars, DriveShaped, DriveInTime, OwnThought, Minds!KindOf

LEMMA MindsOnlyGrow == Minds!Next => \A m \in minds : m \in minds'
  BY DEF Minds!Next, Minds!StartBeat, Minds!Dispatch, Minds!Propose, Minds!Rule,
         Minds!LandThought, Minds!ThoughtsLanded, Minds!Segment, Minds!Stopped,
         Minds!Durable, Minds!Believed, Minds!Experienced

\* Private thoughts are the thinker's own, of someone the event names, formed
\* by the run that ruled it, and never rewritten, however often a beat was
\* driven again (world/turns.py, world/memory.py), for any cast and any scene.
THEOREM ThoughtsHonest == WorldSpec => ThoughtsAreHonest
<1>1. WorldInit => MindsInv
  BY MindsInitial DEF WorldInit
<1>2. MindsInv /\ [WorldNext]_worldVars => MindsInv'
  BY MindsStep, MindsStutter DEF WorldNext, worldVars
<1> DEFINE Fair == part = "minds" => Minds!MindsAreTheirOwn /\ Minds!NoHindsight
<1>3. MindsInv => Fair
  BY DEF MindsInv, OwnThought, Minds!MindsAreTheirOwn, Minds!NoHindsight
<1>4. [WorldNext]_worldVars => [\A m \in minds : m \in minds']_Minds!thoughtVars
  BY MindsOnlyGrow DEF WorldNext, worldVars, thoughtVars, Minds!thoughtVars
<1> QED
  BY <1>1, <1>2, <1>3, <1>4, PTL DEF WorldSpec, ThoughtsAreHonest, Minds!ThoughtsStand

(***************************************************************************)
(* The prose on its way to the page                                        *)
(***************************************************************************)
\* A finite set of numbers that is not empty has a smallest one.
LEMMA SmallestNumber ==
  ASSUME NEW T, IsFiniteSet(T), T # {}, T \subseteq Nat
  PROVE  \E x \in T : \A y \in T : x <= y
<1> DEFINE Below(x) == {y \in T : y < x}
           U == {Below(x) : x \in T}
<1>1. U \subseteq FiniteSubsetsOf(T) /\ U # {}
  <2>1. \A x \in T : IsFiniteSet(Below(x))
    BY FS_Subset
  <2>2. \A x \in T : Below(x) \in FiniteSubsetsOf(T)
    BY <2>1 DEF FiniteSubsetsOf
  <2>3. PICK x : x \in T
    OBVIOUS
  <2>4. Below(x) \in U
    BY <2>3
  <2> QED
    BY <2>2, <2>4
<1>2. IsWellFoundedOn(StrictSubsetOrdering(T), FiniteSubsetsOf(T))
  BY FS_StrictSubsetOrderingWellFounded
<1>3. PICK A \in U : \A B \in U : <<B, A>> \notin StrictSubsetOrdering(T)
  BY <1>1, <1>2, WFMin
<1>4. PICK x \in T : A = Below(x)
  OBVIOUS
<1>5. ASSUME NEW y \in T, y < x PROVE FALSE
  <2>0. \A z \in T : z \in Nat
    OBVIOUS
  <2>1. Below(y) \subseteq Below(x) /\ y \in Below(x) /\ y \notin Below(y)
    <3>1. \A z \in T : z < y => z < x
      BY <1>5, <2>0
    <3>2. ~(y < y)
      BY <2>0
    <3> QED
      BY <1>5, <3>1, <3>2
  <2>2. Below(y) \in U
    OBVIOUS
  <2>3. <<Below(y), Below(x)>> \in StrictSubsetOrdering(T)
    BY <2>1 DEF StrictSubsetOrdering
  <2> QED
    BY <1>3, <1>4, <2>2, <2>3
<1>6. \A y \in T : y \in Nat
  OBVIOUS
<1> QED
  BY <1>5, <1>6

\* The line of dashes stands at i in the text.
Occurs(text, i) ==
  /\ i \in 1..(Len(text) - Len(Sentinel) + 1)
  /\ \A j \in 1..Len(Sentinel) : text[i + j - 1] = Sentinel[j]

LEMMA SentinelLength == Len(Sentinel) \in Nat /\ Len(Sentinel) >= 1 /\ Hold \in Nat /\ Hold >= Len(Sentinel)
<1>1. Sentinel \in Seq(Signs) /\ Sentinel # <<>> /\ Hold \in Nat /\ Hold >= Len(Sentinel)
  BY SentinelAssumption
<1>2. Len(Sentinel) \in Nat \ {0}
  BY <1>1, EmptySeq
<1> QED
  BY <1>1, <1>2

LEMMA OccursIsSubSeq ==
  ASSUME NEW text \in Seq(Signs), NEW i \in 1..(Len(text) - Len(Sentinel) + 1)
  PROVE SubSeq(text, i, i + Len(Sentinel) - 1) = Sentinel <=> Occurs(text, i)
<1> DEFINE L == Len(Sentinel)
           cut == SubSeq(text, i, i + L - 1)
<1>0. L \in Nat /\ L >= 1 /\ Len(text) \in Nat /\ i \in Int /\ i >= 1 /\ i + L - 1 <= Len(text)
  BY SentinelLength
<1>1. \A n \in i .. (i + L - 1) : text[n] \in Signs
  BY <1>0, ElementOfSeq
<1> HIDE DEF L
<1>2. /\ cut \in Seq(Signs) /\ Len(cut) = L
      /\ \A n \in 1..L : cut[n] = text[i + n - 1]
  <2>1. i + L - 1 \in Int /\ i <= i + L - 1 /\ (i + L - 1) - i + 1 = L
    BY <1>0
  <2>2. /\ cut \in Seq(Signs)
        /\ Len(cut) = IF i <= i + L - 1 THEN (i + L - 1) - i + 1 ELSE 0
        /\ \A n \in 1..((i + L - 1) - i + 1) : cut[n] = text[i + n - 1]
    BY <1>0, <1>1, <2>1, SubSeqProperties
  <2> QED
    BY <2>1, <2>2
<1> HIDE DEF cut
<1>3. cut = Sentinel <=> \A n \in 1..L : text[i + n - 1] = Sentinel[n]
  <2>1. ASSUME \A n \in 1..L : text[i + n - 1] = Sentinel[n] PROVE cut = Sentinel
    <3>1. Sentinel \in Seq(Signs) /\ Len(cut) = Len(Sentinel)
      BY <1>2, SentinelAssumption DEF L
    <3>2. \A n \in 1..Len(cut) : cut[n] = Sentinel[n]
      BY <1>2, <2>1
    <3> QED
      BY <1>2, <3>1, <3>2, SeqEqual
  <2> QED
    BY <1>2, <2>1
<1> QED
  BY <1>3 DEF Occurs, L, cut

LEMMA FirstAtIs ==
  ASSUME NEW text \in Seq(Signs)
  PROVE \/ Telling!FirstAt(text, Sentinel) = 0 /\ \A i : ~Occurs(text, i)
        \/ /\ Occurs(text, Telling!FirstAt(text, Sentinel))
           /\ Telling!FirstAt(text, Sentinel) # 0
           /\ \A i : Occurs(text, i) => Telling!FirstAt(text, Sentinel) <= i
<1> DEFINE at == {i \in 1 .. (Len(text) - Len(Sentinel) + 1) :
                    SubSeq(text, i, i + Len(Sentinel) - 1) = Sentinel}
<1>1. \A i : i \in at <=> Occurs(text, i)
  <2> TAKE i
  <2>1. CASE i \in 1 .. (Len(text) - Len(Sentinel) + 1)
    BY <2>1, OccursIsSubSeq
  <2>2. CASE i \notin 1 .. (Len(text) - Len(Sentinel) + 1)
    BY <2>2 DEF Occurs
  <2> QED
    BY <2>1, <2>2
<1>2. Telling!FirstAt(text, Sentinel)
        = IF at = {} THEN 0 ELSE CHOOSE i \in at : \A j \in at : i <= j
  BY DEF Telling!FirstAt
<1>3. at \subseteq Nat /\ IsFiniteSet(at) /\ \A i \in at : i # 0
  <2>1. Len(text) - Len(Sentinel) + 1 \in Int
    BY SentinelLength
  <2>2. IsFiniteSet(1 .. (Len(text) - Len(Sentinel) + 1))
    BY <2>1, FS_Interval
  <2>3. at \subseteq 1 .. (Len(text) - Len(Sentinel) + 1)
    OBVIOUS
  <2>4. IsFiniteSet(at)
    BY <2>2, <2>3, FS_Subset
  <2>5. \A i \in 1 .. (Len(text) - Len(Sentinel) + 1) : i \in Nat /\ i # 0
    BY <2>1
  <2> QED
    BY <2>3, <2>4, <2>5
<1> HIDE DEF at
<1>4. CASE at = {}
  BY <1>1, <1>2, <1>4
<1>5. CASE at # {}
  <2>1. \E i \in at : \A j \in at : i <= j
    BY <1>3, <1>5, SmallestNumber
  <2> DEFINE k == CHOOSE i \in at : \A j \in at : i <= j
  <2>2. k \in at /\ \A j \in at : k <= j
    BY <2>1
  <2>3. Telling!FirstAt(text, Sentinel) = k
    BY <1>2, <1>5
  <2> HIDE DEF k
  <2> QED
    BY <1>1, <1>3, <2>2, <2>3
<1> QED
  BY <1>4, <1>5

\* The page pg holds the signs of the beginning of the text, of attempt 1.
Shows(pg, text) ==
  /\ pg \in Seq({1} \X Signs) /\ Len(pg) <= Len(text)
  /\ \A i \in 1..Len(pg) : pg[i][2] = text[i]

\* While the gate is open, page and buffer together are the text that arrived,
\* which holds no line of dashes, and the page is only given a sign once the
\* buffer holds a whole window; once it is closed, the page is the text up to
\* the first line of dashes.
GateState(pg, buf, shut, text) ==
  /\ text \in Seq(Signs) /\ buf \in Seq(Signs) /\ shut \in BOOLEAN
  /\ Shows(pg, text)
  /\ ~shut =>
       /\ Len(text) = Len(pg) + Len(buf)
       /\ \A i \in 1..Len(buf) : text[Len(pg) + i] = buf[i]
       /\ \A i : ~Occurs(text, i)
       /\ Len(pg) > 0 => Len(buf) >= Len(Sentinel)
  /\ shut =>
       /\ Occurs(text, Len(pg) + 1)
       /\ \A i : Occurs(text, i) => Len(pg) + 1 <= i

TellingInv ==
  /\ attempt \in {1, 2} /\ page \in Seq({1} \X Signs) /\ arrived \in Seq(Signs)
  /\ attempt = 1 => GateState(page, buffer, closed, arrived)
  /\ verdict = "prose" => Telling!Prose # <<>>

LEMMA TellingInitial == Telling!Init => TellingInv
<1> SUFFICES ASSUME Telling!Init PROVE TellingInv
  OBVIOUS
<1>1. /\ attempt = 1 /\ arrived = <<>> /\ buffer = <<>> /\ page = <<>>
      /\ closed = FALSE /\ verdict = "none"
  BY DEF Telling!Init
<1>2. /\ page \in Seq({1} \X Signs) /\ arrived \in Seq(Signs) /\ buffer \in Seq(Signs)
      /\ Len(page) = 0 /\ Len(arrived) = 0 /\ Len(buffer) = 0
  BY <1>1
<1>3. \A i : ~Occurs(arrived, i)
  <2>1. 0 - Len(Sentinel) + 1 < 1 /\ 0 - Len(Sentinel) + 1 \in Int
    BY SentinelLength
  <2>2. 1..(0 - Len(Sentinel) + 1) = {}
    BY <2>1
  <2> QED
    BY <1>2, <2>2 DEF Occurs
<1>4. Shows(page, arrived)
  BY <1>2 DEF Shows
<1>5. GateState(page, buffer, closed, arrived)
  <2>1. closed \in BOOLEAN /\ ~closed
    BY <1>1
  <2>2. Len(arrived) = Len(page) + Len(buffer) /\ ~(Len(page) > 0) /\ 1..Len(buffer) = {}
    BY <1>2
  <2> QED
    BY <1>2, <1>3, <1>4, <2>1, <2>2 DEF GateState
<1> QED
  BY <1>1, <1>2, <1>5 DEF TellingInv

\* What the gate lets out, the beginning of its text, is appended to the page.
Signed(out) == [i \in DOMAIN out |-> <<1, out[i]>>]

Grown(pg, text, m, more) ==
  /\ more \in Seq({1} \X Signs) /\ Len(more) = Len(pg) + m
  /\ \A i \in 1..Len(pg) : more[i] = pg[i]
  /\ \A i \in 1..m : more[Len(pg) + i][2] = text[i]

LEMMA PageGrows ==
  ASSUME NEW pg \in Seq({1} \X Signs), NEW text \in Seq(Signs), NEW m \in 0..Len(text),
         NEW out, out = Telling!Before(text, m + 1)
  PROVE Grown(pg, text, m, pg \o Signed(out))
<1>0. Len(pg) \in Nat /\ Len(text) \in Nat /\ m \in Nat /\ m <= Len(text)
  OBVIOUS
<1>1. out = SubSeq(text, 1, m)
  BY <1>0 DEF Telling!Before
<1>2. \A i \in 1..m : text[i] \in Signs
  BY <1>0, ElementOfSeq
<1>3. out \in Seq(Signs) /\ Len(out) = m /\ \A i \in 1..m : out[i] = text[i]
  <2>1. /\ out \in Seq(Signs) /\ Len(out) = IF 1 <= m THEN m - 1 + 1 ELSE 0
        /\ \A i \in 1..(m - 1 + 1) : out[i] = text[1 + i - 1]
    BY <1>0, <1>1, <1>2, SubSeqProperties
  <2>2. m - 1 + 1 = m /\ \A i \in 1..m : 1 + i - 1 = i
    BY <1>0
  <2>3. Len(out) = m
    BY <1>0, <2>1, <2>2
  <2>4. \A i \in 1..m : out[i] = text[i]
    BY <1>0, <2>1, <2>2
  <2> QED
    BY <2>1, <2>3, <2>4
<1> DEFINE add == Signed(out)
<1>4. DOMAIN out = 1..m
  BY <1>0, <1>3, LenProperties
<1>5. add = [i \in 1..m |-> <<1, text[i]>>]
  BY <1>3, <1>4 DEF Signed
<1>6. add \in [1..m -> {1} \X Signs]
  BY <1>2, <1>5
<1>7. add \in Seq({1} \X Signs) /\ Len(add) = m /\ \A i \in 1..m : add[i] = <<1, text[i]>>
  <2>1. \A i \in 1..m : add[i] = <<1, text[i]>>
    BY <1>5
  <2> HIDE DEF add
  <2>2. add \in Seq({1} \X Signs)
    BY <1>0, <1>6, SeqDef
  <2>3. DOMAIN add = 1..m /\ DOMAIN add = 1..Len(add) /\ Len(add) \in Nat
    BY <1>6, <2>2, LenProperties
  <2>4. Len(add) = m
    BY <1>0, <2>3
  <2> QED
    BY <2>1, <2>2, <2>4
<1> HIDE DEF add
<1> DEFINE more == pg \o add
<1>8. /\ more \in Seq({1} \X Signs) /\ Len(more) = Len(pg) + m
      /\ \A i \in 1..(Len(pg) + m) : more[i] = IF i <= Len(pg) THEN pg[i] ELSE add[i - Len(pg)]
  BY <1>7, ConcatProperties
<1> HIDE DEF more
<1>9. \A i \in 1..Len(pg) : more[i] = pg[i]
  BY <1>0, <1>8
<1>10. ASSUME NEW i \in 1..m PROVE more[Len(pg) + i][2] = text[i]
  <2>1. /\ Len(pg) + i \in 1..(Len(pg) + m) /\ ~(Len(pg) + i <= Len(pg))
        /\ (Len(pg) + i) - Len(pg) = i
    BY <1>0
  <2>2. more[Len(pg) + i] = add[i]
    BY <1>8, <2>1
  <2>3. add[i] = <<1, text[i]>>
    BY <1>7
  <2> QED
    BY <2>2, <2>3
<1> QED
  BY <1>8, <1>9, <1>10 DEF more, add, Grown

\* The text behind the page, before and after a piece arrives.
Continued(pg, buf, text, piece) ==
  /\ text \o piece \in Seq(Signs) /\ Len(text \o piece) = Len(pg) + Len(buf \o piece)
  /\ buf \o piece \in Seq(Signs)
  /\ \A i \in 1..Len(text) : (text \o piece)[i] = text[i]
  /\ \A i \in 1..Len(buf \o piece) : (text \o piece)[Len(pg) + i] = (buf \o piece)[i]

LEMMA TextBehindPage ==
  ASSUME NEW pg, NEW buf, NEW text, GateState(pg, buf, FALSE, text), NEW piece \in Seq(Signs)
  PROVE Continued(pg, buf, text, piece)
<1>0. /\ pg \in Seq({1} \X Signs) /\ buf \in Seq(Signs) /\ text \in Seq(Signs)
      /\ Len(text) = Len(pg) + Len(buf)
      /\ \A i \in 1..Len(buf) : text[Len(pg) + i] = buf[i]
  BY DEF GateState, Shows
<1>1. Len(pg) \in Nat /\ Len(buf) \in Nat /\ Len(text) \in Nat /\ Len(piece) \in Nat
  BY <1>0
<1>2. /\ text \o piece \in Seq(Signs) /\ Len(text \o piece) = Len(text) + Len(piece)
      /\ \A i \in 1..(Len(text) + Len(piece)) :
           (text \o piece)[i] = IF i <= Len(text) THEN text[i] ELSE piece[i - Len(text)]
  <2>1. text \in Seq(Signs)
    BY <1>0
  <2> QED
    BY <2>1, ConcatProperties, Zenon
<1>3. /\ buf \o piece \in Seq(Signs) /\ Len(buf \o piece) = Len(buf) + Len(piece)
      /\ \A i \in 1..(Len(buf) + Len(piece)) :
           (buf \o piece)[i] = IF i <= Len(buf) THEN buf[i] ELSE piece[i - Len(buf)]
  BY <1>0, ConcatProperties
<1> DEFINE all == text \o piece
           seen == buf \o piece
<1> HIDE DEF all, seen
<1>4. \A i \in 1..Len(text) : all[i] = text[i]
  BY <1>1, <1>2 DEF all
<1>5. ASSUME NEW i \in 1..(Len(buf) + Len(piece)) PROVE all[Len(pg) + i] = seen[i]
  <2>0. i \in Nat /\ Len(pg) + i \in 1..(Len(text) + Len(piece))
    BY <1>0, <1>1
  <2>1. CASE i <= Len(buf)
    <3>1. Len(pg) + i <= Len(text) /\ i \in 1..Len(buf)
      BY <1>0, <1>1, <2>0, <2>1
    <3> QED
      BY <1>0, <1>2, <1>3, <2>0, <2>1, <3>1 DEF all, seen
  <2>2. CASE ~(i <= Len(buf))
    <3>1. ~(Len(pg) + i <= Len(text)) /\ (Len(pg) + i) - Len(text) = i - Len(buf)
      BY <1>0, <1>1, <2>0, <2>2
    <3> QED
      BY <1>2, <1>3, <2>0, <2>2, <3>1 DEF all, seen
  <2> QED
    BY <2>1, <2>2
<1> QED
  BY SMTT(20), <1>0, <1>1, <1>2, <1>3, <1>4, <1>5 DEF all, seen, Continued

\* In a text that begins with another, what stands inside the other stands there.
LEMMA OccursInside ==
  ASSUME NEW text \in Seq(Signs), NEW all \in Seq(Signs), Len(text) <= Len(all),
         \A i \in 1..Len(text) : all[i] = text[i],
         NEW k, k \in Int, k + Len(Sentinel) - 1 <= Len(text)
  PROVE Occurs(text, k) <=> Occurs(all, k)
<1>0. Len(text) \in Nat /\ Len(all) \in Nat /\ Len(Sentinel) \in Nat /\ Len(Sentinel) >= 1
  BY SentinelLength
<1>1. k \in 1..(Len(text) - Len(Sentinel) + 1) <=> k \in 1..(Len(all) - Len(Sentinel) + 1)
  BY <1>0
<1>2. ASSUME k \in 1..(Len(text) - Len(Sentinel) + 1), NEW j \in 1..Len(Sentinel)
      PROVE all[k + j - 1] = text[k + j - 1]
  <2>1. k + j - 1 \in 1..Len(text)
    BY <1>0, <1>2
  <2> QED
    BY <2>1
<1> QED
  BY <1>1, <1>2 DEF Occurs

\* The line of dashes behind the page is one in what the gate looks at.
LEMMA OccursBehind ==
  ASSUME NEW all \in Seq(Signs), NEW seen \in Seq(Signs), NEW n \in Nat,
         Len(all) = n + Len(seen), \A i \in 1..Len(seen) : all[n + i] = seen[i],
         NEW k \in Int, k > n
  PROVE Occurs(all, k) <=> Occurs(seen, k - n)
<1>0. Len(seen) \in Nat /\ Len(all) \in Nat /\ Len(Sentinel) \in Nat /\ Len(Sentinel) >= 1
  BY SentinelLength
<1>1. k \in 1..(Len(all) - Len(Sentinel) + 1) <=> k - n \in 1..(Len(seen) - Len(Sentinel) + 1)
  BY <1>0
<1>2. ASSUME k - n \in 1..(Len(seen) - Len(Sentinel) + 1), NEW j \in 1..Len(Sentinel)
      PROVE all[k + j - 1] = seen[(k - n) + j - 1]
  <2>1. (k - n) + j - 1 \in 1..Len(seen) /\ n + ((k - n) + j - 1) = k + j - 1
    BY <1>0, <1>2
  <2> QED
    BY <2>1
<1> QED
  BY <1>1, <1>2 DEF Occurs

\* The gate is closed: nothing more reaches the page.
LEMMA ClosedGate ==
  ASSUME NEW pg, NEW buf, NEW text, GateState(pg, buf, TRUE, text), NEW piece \in Seq(Signs)
  PROVE GateState(pg, buf, TRUE, text \o piece)
<1>0. /\ pg \in Seq({1} \X Signs) /\ buf \in Seq(Signs) /\ text \in Seq(Signs)
      /\ Len(pg) <= Len(text) /\ \A i \in 1..Len(pg) : pg[i][2] = text[i]
      /\ Occurs(text, Len(pg) + 1) /\ \A i : Occurs(text, i) => Len(pg) + 1 <= i
  BY DEF GateState, Shows
<1>1. Len(pg) \in Nat /\ Len(text) \in Nat /\ Len(piece) \in Nat
  BY <1>0
<1> DEFINE all == text \o piece
<1>2. /\ all \in Seq(Signs) /\ Len(all) = Len(text) + Len(piece)
      /\ \A i \in 1..(Len(text) + Len(piece)) :
           all[i] = IF i <= Len(text) THEN text[i] ELSE piece[i - Len(text)]
  <2>1. text \in Seq(Signs)
    BY <1>0
  <2> QED
    BY <2>1, ConcatProperties, Zenon
<1> HIDE DEF all
<1>3. /\ Len(text) <= Len(all) /\ \A i \in 1..Len(text) : all[i] = text[i]
  BY <1>1, <1>2
<1>4. Len(pg) + 1 + Len(Sentinel) - 1 <= Len(text) /\ Len(pg) + 1 \in Int
  <2>1. Len(pg) + 1 \in 1..(Len(text) - Len(Sentinel) + 1)
    BY <1>0 DEF Occurs
  <2> QED
    BY <1>1, <2>1, SentinelLength
<1>5. Occurs(all, Len(pg) + 1)
  BY <1>0, <1>2, <1>3, <1>4, OccursInside
<1>6. ASSUME NEW i, Occurs(all, i), ~(Len(pg) + 1 <= i) PROVE FALSE
  <2>1. i \in Int
    BY <1>6 DEF Occurs
  <2>2. i + Len(Sentinel) - 1 <= Len(text)
    BY <1>1, <1>4, <1>6, <2>1, SentinelLength
  <2>3. Occurs(text, i)
    BY <1>0, <1>2, <1>3, <1>6, <2>1, <2>2, OccursInside
  <2> QED
    BY <1>0, <1>6, <2>3
<1>7. Shows(pg, all)
  <2>1. Len(pg) <= Len(all) /\ \A i \in 1..Len(pg) : i \in 1..Len(text)
    BY <1>0, <1>1, <1>3
  <2> QED
    BY <1>0, <1>3, <2>1 DEF Shows
<1> QED
  BY <1>0, <1>2, <1>5, <1>6, <1>7 DEF GateState, all

\* The gate is open: the page is given what cannot be part of the line.
LEMMA OpenGate ==
  ASSUME GateState(page, buffer, FALSE, arrived), closed = FALSE, NEW piece \in Seq(Signs)
  PROVE LET g == Telling!Gated(piece) IN
        GateState(page \o Signed(g.out), g.buffer, g.closed,
                  arrived \o piece)
<1> DEFINE seen == buffer \o piece
           all == arrived \o piece
           k == Telling!FirstAt(seen, Sentinel)
           keep == IF Len(seen) > Hold THEN Hold ELSE Len(seen)
           g == Telling!Gated(piece)
<1>1. /\ all \in Seq(Signs) /\ Len(all) = Len(page) + Len(seen) /\ seen \in Seq(Signs)
      /\ \A i \in 1..Len(arrived) : all[i] = arrived[i]
      /\ \A i \in 1..Len(seen) : all[Len(page) + i] = seen[i]
  <2>1. Continued(page, buffer, arrived, piece)
    BY TextBehindPage
  <2> QED
    BY <2>1 DEF Continued
<1>2. /\ page \in Seq({1} \X Signs) /\ buffer \in Seq(Signs) /\ arrived \in Seq(Signs)
      /\ Len(arrived) = Len(page) + Len(buffer)
      /\ \A i \in 1..Len(page) : page[i][2] = arrived[i]
      /\ \A i : ~Occurs(arrived, i)
      /\ Len(page) > 0 => Len(buffer) >= Len(Sentinel)
  BY DEF GateState, Shows
<1>3. /\ Len(page) \in Nat /\ Len(buffer) \in Nat /\ Len(seen) \in Nat /\ Len(arrived) \in Nat
      /\ Len(seen) >= Len(buffer) /\ Len(all) \in Nat
  <2>1. Len(seen) = Len(buffer) + Len(piece) /\ Len(piece) \in Nat
    BY <1>2, ConcatProperties
  <2> QED
    BY <1>1, <1>2, <2>1
<1>4. g = IF k # 0 THEN [out |-> Telling!Before(seen, k), buffer |-> <<>>, closed |-> TRUE]
          ELSE [out |-> Telling!Before(seen, Len(seen) - keep + 1),
                buffer |-> SubSeq(seen, Len(seen) - keep + 1, Len(seen)), closed |-> FALSE]
  BY DEF Telling!Gated, Telling!TailHold
<1>5. \/ k = 0 /\ \A i : ~Occurs(seen, i)
      \/ Occurs(seen, k) /\ k # 0 /\ \A i : Occurs(seen, i) => k <= i
  BY <1>1, FirstAtIs
<1> HIDE DEF seen, all, k, g
<1>6. ASSUME NEW i, Occurs(all, i)
      PROVE i \in Int /\ i > Len(page) /\ Occurs(seen, i - Len(page))
  <2>1. i \in Int /\ i >= 1
    BY <1>6 DEF Occurs
  <2>2. i > Len(page)
    <3>1. SUFFICES ASSUME i <= Len(page) PROVE FALSE
      BY <1>3, <2>1
    <3>2. Len(buffer) >= Len(Sentinel)
      BY <1>2, <1>3, <2>1, <3>1
    <3>3. i + Len(Sentinel) - 1 <= Len(arrived) /\ Len(arrived) <= Len(all)
      BY <1>1, <1>2, <1>3, <2>1, <3>1, <3>2, SentinelLength
    <3>4. Occurs(arrived, i)
      BY <1>1, <1>2, <1>6, <2>1, <3>3, OccursInside
    <3> QED
      BY <1>2, <3>4
  <2> QED
    BY <1>1, <1>3, <1>6, <2>1, <2>2, OccursBehind
<1>7. ASSUME NEW m \in 0..Len(seen), NEW out, out = Telling!Before(seen, m + 1)
      PROVE LET more == page \o Signed(out) IN
            Shows(more, all) /\ Len(more) = Len(page) + m
  <2> DEFINE more == page \o Signed(out)
  <2>1. /\ more \in Seq({1} \X Signs) /\ Len(more) = Len(page) + m
        /\ \A i \in 1..Len(page) : more[i] = page[i]
        /\ \A i \in 1..m : more[Len(page) + i][2] = seen[i]
    <3>1. page \in Seq({1} \X Signs) /\ seen \in Seq(Signs)
      BY <1>1, <1>2
    <3>2. Grown(page, seen, m, more)
      BY <1>7, <3>1, PageGrows
    <3> QED
      BY <3>2 DEF Grown
  <2> HIDE DEF more
  <2>2. Len(more) <= Len(all) /\ m \in Nat /\ m <= Len(seen)
    BY <1>1, <1>3, <1>7, <2>1
  <2>3. ASSUME NEW i \in 1..Len(more) PROVE more[i][2] = all[i]
    <3>1. CASE i <= Len(page)
      <4>1. i \in 1..Len(page) /\ i \in 1..Len(arrived)
        BY <1>2, <1>3, <2>1, <2>2, <3>1
      <4> QED
        BY <1>1, <1>2, <2>1, <4>1
    <3>2. CASE i > Len(page)
      <4>1. i - Len(page) \in 1..m /\ Len(page) + (i - Len(page)) = i /\ i - Len(page) \in 1..Len(seen)
        BY <1>3, <2>1, <2>2, <3>2
      <4>2. more[Len(page) + (i - Len(page))][2] = seen[i - Len(page)]
        BY <2>1, <4>1, Zenon
      <4>3. all[Len(page) + (i - Len(page))] = seen[i - Len(page)]
        BY <1>1, <4>1, Zenon
      <4> QED
        BY <4>1, <4>2, <4>3
    <3> QED
      BY <1>3, <2>1, <2>2, <3>1, <3>2
  <2> QED
    BY <2>1, <2>2, <2>3 DEF Shows, more
<1>8. CASE k # 0
  <2>1. g.out = Telling!Before(seen, k) /\ g.buffer = <<>> /\ g.closed = TRUE
    BY <1>4, <1>8
  <2>2. k \in 1..(Len(seen) - Len(Sentinel) + 1) /\ Occurs(seen, k)
    BY <1>5, <1>8 DEF Occurs
  <2>3. k - 1 \in 0..Len(seen) /\ (k - 1) + 1 = k /\ k \in Int
    BY <1>3, <2>2, SentinelLength
  <2> DEFINE more == page \o Signed(g.out)
  <2>4. Shows(more, all) /\ Len(more) = Len(page) + (k - 1)
    BY <1>7, <2>1, <2>3
  <2> HIDE DEF more
  <2>5. Len(more) + 1 = Len(page) + k /\ Len(page) + k > Len(page) /\ (Len(page) + k) - Len(page) = k
        /\ Len(page) + k \in Int
    BY <1>3, <2>2, <2>3, <2>4
  <2>6. Occurs(all, Len(more) + 1)
    BY SMTT(20), <1>1, <1>3, <2>2, <2>5, OccursBehind
  <2>7. ASSUME NEW i, Occurs(all, i) PROVE Len(more) + 1 <= i
    <3>1. i \in Int /\ i > Len(page) /\ k <= i - Len(page)
      BY <1>5, <1>6, <1>8, <2>7
    <3> QED
      BY <1>3, <2>3, <2>5, <3>1
  <2>8. g.buffer \in Seq(Signs) /\ g.closed \in BOOLEAN
    <3>1. g.buffer \in Seq(Signs)
      BY <2>1, EmptySeq
    <3>2. g.closed \in BOOLEAN
      BY <2>1
    <3> QED
      BY <3>1, <3>2
  <2> QED
    BY <1>1, <2>1, <2>4, <2>6, <2>7, <2>8 DEF GateState, more, all, g
<1>9. CASE k = 0
  <2>1. /\ g.out = Telling!Before(seen, Len(seen) - keep + 1) /\ g.closed = FALSE
        /\ g.buffer = SubSeq(seen, Len(seen) - keep + 1, Len(seen))
    BY <1>4, <1>9
  <2>2. keep \in Nat /\ keep <= Len(seen) /\ (keep >= Len(Sentinel) \/ keep = Len(seen))
    BY <1>3, SentinelLength
  <2> DEFINE m == Len(seen) - keep
             more == page \o Signed(g.out)
  <2>3. m \in 0..Len(seen) /\ m \in Nat /\ m + keep = Len(seen)
    BY <1>3, <2>2
  <2>4. Shows(more, all) /\ Len(more) = Len(page) + m
    BY <1>7, <2>1, <2>3
  <2>5. /\ g.buffer \in Seq(Signs) /\ Len(g.buffer) = keep
        /\ \A i \in 1..keep : g.buffer[i] = seen[m + i]
    <3>1. \A i \in (m + 1)..Len(seen) : seen[i] \in Signs
      BY <1>1, <1>3, <2>3, ElementOfSeq
    <3>2. m + 1 \in Int /\ Len(seen) \in Int
      BY <1>3, <2>3
    <3> HIDE DEF m, keep
    <3>3. g.buffer = SubSeq(seen, m + 1, Len(seen))
      BY <2>1 DEF m
    <3>4. /\ g.buffer \in Seq(Signs)
          /\ Len(g.buffer) = IF m + 1 <= Len(seen) THEN Len(seen) - (m + 1) + 1 ELSE 0
          /\ \A i \in 1..(Len(seen) - (m + 1) + 1) : g.buffer[i] = seen[(m + 1) + i - 1]
      BY <3>1, <3>2, <3>3, SubSeqProperties
    <3>5. Len(seen) - (m + 1) + 1 = keep /\ (m + 1 <= Len(seen) <=> keep > 0)
          /\ \A i \in 1..keep : (m + 1) + i - 1 = m + i
      BY <1>3, <2>2, <2>3
    <3>6. Len(g.buffer) = keep
      BY <2>2, <3>4, <3>5
    <3>7. \A i \in 1..keep : g.buffer[i] = seen[m + i]
      BY <3>4, <3>5
    <3> QED
      BY <3>4, <3>6, <3>7
  <2> HIDE DEF more, m, keep
  <2>6. Len(all) = Len(more) + Len(g.buffer)
    <3>1. Len(all) = Len(page) + (m + keep) /\ Len(more) + Len(g.buffer) = (Len(page) + m) + keep
      BY <1>1, <2>3, <2>4, <2>5
    <3> QED
      BY <1>3, <2>2, <2>3, <3>1
  <2>7. ASSUME NEW i \in 1..Len(g.buffer) PROVE all[Len(more) + i] = g.buffer[i]
    <3>1. m + i \in 1..Len(seen) /\ Len(more) + i = Len(page) + (m + i) /\ i \in 1..keep
      BY <1>3, <2>2, <2>3, <2>4, <2>5
    <3>2. all[Len(page) + (m + i)] = seen[m + i]
      BY <1>1, <3>1
    <3> QED
      BY <2>5, <3>1, <3>2
  <2>8. \A i : ~Occurs(all, i)
    BY <1>5, <1>6, <1>9
  <2>9. Len(more) > 0 => Len(g.buffer) >= Len(Sentinel)
    <3>1. CASE keep >= Len(Sentinel)
      BY <2>5, <3>1
    <3>2. CASE keep = Len(seen)
      <4>1. m = 0 /\ Len(more) = Len(page)
        BY <1>3, <2>2, <2>3, <2>4, <3>2
      <4> QED
        BY <1>2, <1>3, <2>5, <3>2, <4>1, SentinelLength
    <3> QED
      BY <2>2, <3>1, <3>2
  <2>10. g.closed \in BOOLEAN
    BY <2>1
  <2> QED
    BY <1>1, <2>1, <2>4, <2>5, <2>6, <2>7, <2>8, <2>9, <2>10 DEF GateState, more, all, g
<1> QED
  BY <1>8, <1>9

LEMMA ArriveKeeps == TellingInv /\ Telling!Arrive => TellingInv'
<1> SUFFICES ASSUME TellingInv, Telling!Arrive PROVE TellingInv'
  OBVIOUS
<1>1. PICK piece \in Telling!BoundedSeq(Signs, MaxPiece) :
        /\ arrived' = arrived \o piece
        /\ IF Telling!Streams
           THEN /\ buffer' = Telling!Gated(piece).buffer /\ closed' = Telling!Gated(piece).closed
                /\ page' = page \o [i \in DOMAIN Telling!Gated(piece).out |->
                                      <<attempt, Telling!Gated(piece).out[i]>>]
           ELSE UNCHANGED <<buffer, closed, page>>
  BY DEF Telling!Arrive
<1>2. attempt' = attempt /\ verdict' = verdict /\ verdict = "none"
  BY DEF Telling!Arrive
<1>3. piece \in Seq(Signs)
  <2>1. PICK n \in 0..MaxPiece : piece \in [1..n -> Signs]
    BY DEF Telling!BoundedSeq, Telling!SeqOf
  <2>2. n \in Nat
    BY SentinelAssumption
  <2> QED
    BY <2>1, <2>2, SeqDef
<1>4. arrived \in Seq(Signs) /\ page \in Seq({1} \X Signs) /\ attempt \in {1, 2}
  BY DEF TellingInv
<1>5. arrived' \in Seq(Signs)
  BY <1>1, <1>3, <1>4, ConcatProperties
<1>6. CASE attempt = 1
  <2>0. GateState(page, buffer, closed, arrived)
    BY <1>6 DEF TellingInv
  <2>1. /\ buffer' = Telling!Gated(piece).buffer /\ closed' = Telling!Gated(piece).closed
        /\ page' = page \o [i \in DOMAIN Telling!Gated(piece).out |->
                              <<1, Telling!Gated(piece).out[i]>>]
    BY <1>1, <1>6 DEF Telling!Streams
  <2>2. page' = page \o Signed(Telling!Gated(piece).out)
    BY <2>1 DEF Signed
  <2>3. CASE closed = FALSE
    <3>1. GateState(page \o Signed(Telling!Gated(piece).out), Telling!Gated(piece).buffer,
                    Telling!Gated(piece).closed, arrived \o piece)
      BY <1>3, <2>0, <2>3, OpenGate
    <3>2. GateState(page', buffer', closed', arrived')
      BY <1>1, <2>1, <2>2, <3>1
    <3> QED
      BY <1>2, <1>4, <1>5, <3>2 DEF TellingInv, GateState, Shows
  <2>4. CASE closed = TRUE
    <3>1. Telling!Gated(piece) = [out |-> <<>>, buffer |-> buffer, closed |-> TRUE]
      BY <2>4 DEF Telling!Gated
    <3>2. /\ Telling!Gated(piece).out = <<>> /\ Telling!Gated(piece).buffer = buffer
          /\ Telling!Gated(piece).closed = TRUE
      BY <3>1
    <3>3. page' = page
      <4>1. Signed(<<>>) = <<>>
        BY DEF Signed
      <4> QED
        BY <1>4, <2>2, <3>2, <4>1, ConcatEmptySeq
    <3>4. GateState(page, buffer, TRUE, arrived \o piece)
      BY <1>3, <2>0, <2>4, ClosedGate
    <3>5. GateState(page', buffer', closed', arrived')
      BY <1>1, <2>1, <3>2, <3>3, <3>4
    <3> QED
      BY <1>2, <1>4, <1>5, <3>5 DEF TellingInv, GateState, Shows
  <2> QED
    BY <2>0, <2>3, <2>4 DEF GateState
<1>7. CASE attempt = 2
  BY <1>1, <1>2, <1>4, <1>5, <1>7 DEF Telling!Streams, TellingInv
<1> QED
  BY <1>4, <1>6, <1>7

LEMMA TellingStep == TellingInv /\ Telling!Next => TellingInv'
<1> SUFFICES ASSUME TellingInv, Telling!Next PROVE TellingInv'
  OBVIOUS
<1>1. CASE Telling!TryAgain
  <2>1. attempt' = 2 /\ arrived' = <<>> /\ page' = page /\ verdict' = "none"
    BY <1>1 DEF Telling!TryAgain
  <2>2. arrived' \in Seq(Signs) /\ page' \in Seq({1} \X Signs)
    BY <2>1, EmptySeq DEF TellingInv
  <2> QED
    BY <2>1, <2>2 DEF TellingInv
<1>2. CASE Telling!Fail
  BY <1>2 DEF Telling!Fail, TellingInv
<1>3. CASE Telling!Finish
  <2>1. /\ attempt' = attempt /\ arrived' = arrived /\ page' = page /\ buffer' = buffer
        /\ closed' = closed
        /\ verdict' = IF \A i \in DOMAIN Telling!Prose : Telling!Prose[i] = Break
                      THEN "failed" ELSE "prose"
    BY <1>3 DEF Telling!Finish
  <2>2. verdict' = "prose" => Telling!Prose # <<>>
    BY <2>1
  <2>3. Telling!Prose' = Telling!Prose
    BY <2>1 DEF Telling!Prose, Telling!TailAt
  <2> QED
    BY <2>1, <2>2, <2>3 DEF TellingInv
<1> QED
  BY <1>1, <1>2, <1>3, ArriveKeeps DEF Telling!Next

LEMMA TellingStutter == TellingInv /\ UNCHANGED narrationVars => TellingInv'
<1> SUFFICES ASSUME TellingInv, UNCHANGED narrationVars PROVE TellingInv'
  OBVIOUS
<1>1. /\ attempt' = attempt /\ arrived' = arrived /\ buffer' = buffer /\ closed' = closed
      /\ page' = page /\ verdict' = verdict
  BY DEF narrationVars
<1>2. Telling!Prose' = Telling!Prose
  BY <1>1 DEF Telling!Prose, Telling!TailAt
<1> QED
  BY <1>1, <1>2 DEF TellingInv

\* Where the parser finds the line by itself, the gate has seen it too.
LEMMA TailOccurs ==
  ASSUME NEW text \in Seq(Signs), Telling!TailAt(text) # 0, Telling!TailAt(text) # 1
  PROVE Telling!TailAt(text) \in Int /\ Occurs(text, Telling!TailAt(text) - 1)
<1> DEFINE L == Len(Sentinel)
           long == <<Break>> \o text
           at == {i \in 1 .. (Len(text) - L + 2) :
                    /\ SubSeq(long, i, i + L - 1) = Sentinel
                    /\ LET after == i + L - 1
                       IN after > Len(text) \/ text[after] = Break}
           t == Telling!TailAt(text)
<1>1. t = IF at = {} THEN 0 ELSE CHOOSE i \in at : \A j \in at : i <= j
  BY DEF Telling!TailAt
<1>2. at # {}
  BY <1>1
<1>3. Len(text) \in Nat /\ L \in Nat /\ L >= 1
  BY SentinelLength
<1>4. at \subseteq 1 .. (Len(text) - L + 2)
  OBVIOUS
<1>5. \A i \in at : SubSeq(long, i, i + L - 1) = Sentinel
  OBVIOUS
<1> HIDE DEF at, L
<1>6. at \subseteq Nat /\ IsFiniteSet(at)
  <2>1. Len(text) - L + 2 \in Int
    BY <1>3
  <2>2. IsFiniteSet(1 .. (Len(text) - L + 2))
    BY <2>1, FS_Interval
  <2>3. 1 .. (Len(text) - L + 2) \subseteq Nat
    BY <2>1
  <2>4. IsFiniteSet(at)
    BY <1>4, <2>2, FS_Subset
  <2> QED
    BY <1>4, <2>3, <2>4
<1>7. \E i \in at : \A j \in at : i <= j
  BY <1>2, <1>6, SmallestNumber
<1>8. t \in at
  BY <1>1, <1>2, <1>7
<1>9. t \in Int /\ t >= 2 /\ t <= Len(text) - L + 2 /\ SubSeq(long, t, t + L - 1) = Sentinel
  <2>1. t \in 1 .. (Len(text) - L + 2) /\ SubSeq(long, t, t + L - 1) = Sentinel
    BY <1>4, <1>5, <1>8
  <2>2. t # 1
    OBVIOUS
  <2> HIDE DEF t, long
  <2> QED
    BY <1>3, <2>1, <2>2
<1> HIDE DEF t
<1>10. /\ long \in Seq(Signs) /\ Len(long) = 1 + Len(text)
       /\ \A i \in 2..(1 + Len(text)) : long[i] = text[i - 1]
  <2>1. Break \in Signs
    <3>1. 1 \in 1..Len(Sentinel) /\ Sentinel \in Seq(Signs) /\ Sentinel[1] = Break
      BY SentinelAssumption, SentinelLength
    <3> QED
      BY <3>1, ElementOfSeq
  <2>2. <<Break>> \in Seq(Signs) /\ Len(<<Break>>) = 1
    BY <2>1
  <2>3. /\ long \in Seq(Signs) /\ Len(long) = Len(<<Break>>) + Len(text)
        /\ \A i \in 1..(Len(<<Break>>) + Len(text)) :
             long[i] = IF i <= Len(<<Break>>) THEN <<Break>>[i] ELSE text[i - Len(<<Break>>)]
    BY <2>2, ConcatProperties
  <2> HIDE DEF long
  <2> QED
    BY <1>3, <2>2, <2>3
<1> HIDE DEF long
<1>11. \A n \in t..(t + L - 1) : long[n] \in Signs
  <2>1. \A n \in t..(t + L - 1) : n \in 1..Len(long)
    BY <1>3, <1>9, <1>10
  <2> QED
    BY <1>10, <2>1, ElementOfSeq
<1>12. \A n \in 1..L : Sentinel[n] = long[t + n - 1]
  <2>1. t + L - 1 \in Int /\ (t + L - 1) - t + 1 = L
    BY <1>3, <1>9
  <2>2. \A n \in 1..((t + L - 1) - t + 1) : SubSeq(long, t, t + L - 1)[n] = long[t + n - 1]
    BY <1>9, <1>11, <2>1, SubSeqProperties
  <2> QED
    BY <1>9, <2>1, <2>2
<1>13. ASSUME NEW n \in 1..L PROVE text[(t - 1) + n - 1] = Sentinel[n]
  <2>1. t + n - 1 \in 2..(1 + Len(text)) /\ (t + n - 1) - 1 = (t - 1) + n - 1
    BY <1>3, <1>9
  <2> QED
    BY <1>10, <1>12, <2>1
<1>14. t - 1 \in 1..(Len(text) - L + 1)
  BY <1>3, <1>9
<1> QED
  BY <1>9, <1>13, <1>14 DEF Occurs, L, t

\* The prose of an answer is not empty: its line of dashes stands behind it.
LEMMA PageIsProse ==
  ASSUME GateState(page, buffer, closed, arrived), Telling!Prose # <<>>
  PROVE /\ Telling!IsPrefix(Telling!Shown, Telling!Prose)
        /\ Telling!FirstAt(Telling!Prose, Sentinel) = 0 =>
             Telling!Prose = Telling!Shown \o <<Break>>
<1> DEFINE t == Telling!TailAt(arrived)
           n == Len(page)
           L == Len(Sentinel)
           P == Telling!Prose
           S == Telling!Shown
<1>0. /\ arrived \in Seq(Signs) /\ page \in Seq({1} \X Signs) /\ closed \in BOOLEAN
      /\ \A i \in 1..n : page[i][2] = arrived[i]
      /\ n \in Nat /\ Len(arrived) \in Nat /\ L \in Nat /\ L >= 1
  BY SentinelLength DEF GateState, Shows
<1>1. t # 0 /\ P = Telling!Before(arrived, t)
  BY DEF Telling!Prose
<1>2. t # 1
  <2>1. Telling!Before(arrived, 1) = <<>>
    BY SubSeqEmpty DEF Telling!Before
  <2> QED
    BY <1>1, <2>1
<1>3. t \in Int /\ Occurs(arrived, t - 1)
  BY <1>0, <1>1, <1>2, TailOccurs
<1> HIDE DEF t, P
<1>4. closed /\ Occurs(arrived, n + 1) /\ n + 1 <= t - 1
  BY <1>0, <1>3 DEF GateState
<1>5. t - 1 \in 1..(Len(arrived) - L + 1)
  BY <1>3 DEF Occurs
<1> HIDE DEF n, L
<1>6. t - 1 \in Nat /\ t - 1 <= Len(arrived) /\ n <= t - 1 /\ t >= 2
  BY <1>0, <1>3, <1>4, <1>5
<1>7. P \in Seq(Signs) /\ Len(P) = t - 1 /\ \A i \in 1..(t - 1) : P[i] = arrived[i]
  <2>1. P = SubSeq(arrived, 1, t - 1)
    BY <1>1 DEF Telling!Before
  <2>2. \A i \in 1..(t - 1) : arrived[i] \in Signs
    BY <1>0, <1>6, ElementOfSeq
  <2>3. /\ P \in Seq(Signs) /\ Len(P) = IF 1 <= t - 1 THEN (t - 1) - 1 + 1 ELSE 0
        /\ \A i \in 1..((t - 1) - 1 + 1) : P[i] = arrived[1 + i - 1]
    BY <1>6, <2>1, <2>2, SubSeqProperties
  <2>4. 1 <= t - 1 /\ (t - 1) - 1 + 1 = t - 1 /\ \A i \in 1..(t - 1) : 1 + i - 1 = i
    BY <1>3, <1>6
  <2> QED
    BY <2>3, <2>4
<1>8. S \in Seq(Signs) /\ Len(S) = n /\ \A i \in 1..n : S[i] = arrived[i]
  <2>1. DOMAIN page = 1..n
    BY <1>0, LenProperties DEF n
  <2>2. \A i \in 1..n : S[i] = arrived[i]
    BY <1>0, <2>1 DEF Telling!Shown
  <2>3. \A i \in 1..n : arrived[i] \in Signs
    <3>1. \A i \in 1..n : i \in 1..Len(arrived)
      BY <1>0, <1>6
    <3> QED
      BY <1>0, <3>1, ElementOfSeq
  <2>4. S \in [1..n -> Signs]
    BY <2>1, <2>2, <2>3 DEF Telling!Shown
  <2> HIDE DEF S
  <2>5. S \in Seq(Signs)
    BY SMTT(20), <1>0, <2>4, SeqDef
  <2>6. DOMAIN S = 1..n /\ DOMAIN S = 1..Len(S) /\ Len(S) \in Nat
    BY <2>4, <2>5, LenProperties
  <2>7. Len(S) = n
    BY <1>0, <2>6
  <2> QED
    BY <2>2, <2>5, <2>7
<1> HIDE DEF S
<1>9. Telling!IsPrefix(S, P)
  <2>1. SubSeq(S, 1, n) = S
    BY <1>8, SubSeqFull
  <2>2. SubSeq(P, 1, n) \in Seq(Signs) /\ Len(SubSeq(P, 1, n)) = n
        /\ \A i \in 1..n : SubSeq(P, 1, n)[i] = P[i]
    <3>1. \A i \in 1..n : P[i] \in Signs
      <4>1. \A i \in 1..n : i \in 1..Len(P)
        BY <1>0, <1>6, <1>7
      <4> QED
        BY <1>7, <4>1, ElementOfSeq
    <3>2. /\ SubSeq(P, 1, n) \in Seq(Signs)
          /\ Len(SubSeq(P, 1, n)) = IF 1 <= n THEN n - 1 + 1 ELSE 0
          /\ \A i \in 1..(n - 1 + 1) : SubSeq(P, 1, n)[i] = P[1 + i - 1]
      BY <1>0, <3>1, SubSeqProperties
    <3>3. n - 1 + 1 = n /\ \A i \in 1..n : 1 + i - 1 = i
      BY <1>0
    <3>4. Len(SubSeq(P, 1, n)) = n
      BY <1>0, <3>2, <3>3
    <3> QED
      BY <3>2, <3>3, <3>4
  <2>3. \A i \in 1..n : SubSeq(P, 1, n)[i] = S[i]
    <3>1. \A i \in 1..n : i \in 1..(t - 1)
      BY <1>0, <1>6
    <3> QED
      BY <1>7, <1>8, <2>2, <3>1
  <2>4. SubSeq(P, 1, n) = S
    BY <1>8, <2>2, <2>3, SeqEqual
  <2> QED
    BY <1>6, <1>7, <1>8, <2>1, <2>4 DEF Telling!IsPrefix
<1>10. ASSUME Telling!FirstAt(P, Sentinel) = 0 PROVE P = S \o <<Break>>
  <2>1. \A i : ~Occurs(P, i)
    BY <1>7, <1>10, FirstAtIs
  <2>2. n + L > t - 1
    <3>1. SUFFICES ASSUME n + L <= t - 1 PROVE FALSE
      BY <1>0, <1>6
    <3>2. n + 1 + Len(Sentinel) - 1 <= Len(P) /\ n + 1 \in Int /\ Len(P) <= Len(arrived)
      BY <1>0, <1>6, <1>7, <3>1 DEF L
    <3>3. \A i \in 1..Len(P) : arrived[i] = P[i]
      BY <1>7
    <3>4. Occurs(P, n + 1)
      BY <1>0, <1>4, <1>7, <3>2, <3>3, OccursInside
    <3> QED
      BY <2>1, <3>4
  <2>3. \A j \in 1..L : arrived[(t - 1) + j - 1] = Sentinel[j]
    BY <1>3 DEF Occurs, L
  <2>4. \A j \in 1..L : arrived[(n + 1) + j - 1] = Sentinel[j]
    BY <1>4 DEF Occurs, L
  <2>5. arrived[t - 1] = Break
    <3>1. 1 \in 1..L /\ (t - 1) + 1 - 1 = t - 1
      BY <1>0, <1>6
    <3>2. Sentinel[1] = Break
      BY SentinelAssumption
    <3> QED
      BY <2>3, <3>1, <3>2
  <2>6. t - 1 = n + 1
    <3>1. SUFFICES ASSUME t - 1 # n + 1 PROVE FALSE
      OBVIOUS
    <3> DEFINE d == t - 1 - n
    <3>2. d \in 2..L /\ d \in 1..L /\ (n + 1) + d - 1 = t - 1
      <4>1. t \in Int /\ n + 1 <= t - 1
        BY <1>3, <1>4
      <4> QED
        BY <1>0, <2>2, <3>1, <4>1
    <3>3. Sentinel[d] # Break
      BY <3>2, SentinelAssumption DEF L
    <3> HIDE DEF d
    <3> QED
      BY <2>4, <2>5, <3>2, <3>3
  <2>7. Break \in Signs
    <3>1. t - 1 \in 1..Len(arrived)
      <4>1. t \in Int
        BY <1>3
      <4> QED
        BY <1>0, <1>6, <4>1
    <3> QED
      BY <1>0, <2>5, <3>1, ElementOfSeq
  <2>8. <<Break>> \in Seq(Signs) /\ Len(<<Break>>) = 1 /\ <<Break>>[1] = Break
    BY <2>7
  <2> DEFINE Q == S \o <<Break>>
  <2>9. /\ Q \in Seq(Signs) /\ Len(Q) = Len(S) + Len(<<Break>>)
        /\ \A i \in 1..(Len(S) + Len(<<Break>>)) :
             Q[i] = IF i <= Len(S) THEN S[i] ELSE <<Break>>[i - Len(S)]
    BY <1>8, <2>8, ConcatProperties
  <2> HIDE DEF Q
  <2>10. Len(Q) = n + 1 /\ Q \in Seq(Signs) /\ Len(P) = n + 1
    BY <1>0, <1>7, <1>8, <2>6, <2>8, <2>9
  <2>11. ASSUME NEW i \in 1..(n + 1) PROVE P[i] = Q[i]
    <3>0. P[i] = arrived[i]
      BY <1>7, <2>6
    <3>1. CASE i <= n
      <4>1. i \in 1..n /\ i \in 1..(Len(S) + Len(<<Break>>))
        BY <1>0, <1>8, <2>8, <3>1
      <4>2. Q[i] = S[i]
        BY <1>8, <2>9, <3>1, <4>1
      <4> QED
        BY <1>8, <3>0, <4>1, <4>2
    <3>2. CASE i = n + 1
      <4>1. n + 1 \in 1..(Len(S) + Len(<<Break>>)) /\ ~(n + 1 <= Len(S)) /\ (n + 1) - Len(S) = 1
        BY <1>0, <1>8, <2>8
      <4>2. Q[n + 1] = Break
        BY <2>8, <2>9, <4>1
      <4> QED
        BY <2>5, <2>6, <3>0, <3>2, <4>2
    <3> QED
      BY <1>0, <3>1, <3>2
  <2>12. P = Q
    BY <1>7, <2>10, <2>11, SeqEqual
  <2> QED
    BY <2>12 DEF Q
<1> QED
  BY <1>9, <1>10 DEF P, S

\* The page shows the signs of one answer, and of that answer nothing but the
\* beginning of its prose: no sign of the line of dashes or of the markers
\* behind it, wherever the stream was cut and whatever was retried (_TailGate,
\* RetryingTextCompletion), for texts and pieces of any length.
THEOREM PageIsTheProse == WorldSpec => []PageShowsTheProse
<1>1. WorldInit => TellingInv
  BY TellingInitial DEF WorldInit
<1>2. TellingInv /\ [WorldNext]_worldVars => TellingInv'
  BY TellingStep, TellingStutter DEF WorldNext, worldVars
<1>3. TellingInv => PageShowsTheProse
  <2> SUFFICES ASSUME TellingInv PROVE Telling!TailStaysOff /\ Telling!OneAnswerOnThePage
    BY DEF PageShowsTheProse
  <2>1. Telling!TailStaysOff
    BY PageIsProse DEF TellingInv, Telling!TailStaysOff
  <2>2. Telling!OneAnswerOnThePage
    <3>1. page \in Seq({1} \X Signs)
      BY DEF TellingInv
    <3>2. \A i \in DOMAIN page : page[i] \in {1} \X Signs
      BY <3>1, LenProperties, ElementOfSeq
    <3>3. \A i \in DOMAIN page : page[i][1] = 1
      BY <3>2
    <3> QED
      BY <3>3 DEF Telling!OneAnswerOnThePage
  <2> QED
    BY <2>1, <2>2
<1> QED
  BY <1>1, <1>2, <1>3, PTL DEF WorldSpec

(***************************************************************************)
(* The round of a letter                                                   *)
(***************************************************************************)
Places ==
  {"idle", "supersede", "unpark", "narrate", "wind", "beat", "end", "reveal", "note", "drop",
   "read", "park", "answer", "sent", "adopt", "project", "row", "end_round", "phase", "rerow",
   "close", "clear"}

BatchForms == [size : 0..2, stop : Round!Stops, bad : BOOLEAN]

HandForms ==
  [at : Places, op : {"turn", "continue"}, letter : 0..MaxLetters, step : Nat,
   batch : BatchForms, from : Nat, frames : Nat, stop : Round!Stops]

RunForms == [terminal : BOOLEAN, trigger : 0..MaxLetters]

BeatForms == [run : Nat, item : {"none", "PENDING", "REVEALED"}, after : Nat, during : 0..MaxLetters]

RoundTyped ==
  /\ letter \in [Round!Letters -> {"ABSENT", "GENERATING"} \cup Round!Terminal]
  /\ parkedRow \in [turn : 0..MaxLetters, stops : Nat, phase : {"world", "reply"},
                    kind : Round!Stops]
  /\ direction \in Nat /\ choices \in Nat /\ chosen \in Seq(Nat)
  /\ runs \in Seq(RunForms) /\ beats \in Seq(BeatForms)
  /\ hand \in HandForms /\ crashed \in BOOLEAN

\* The handler has not committed its letter yet.
Uncommitted ==
  {"supersede", "unpark", "narrate", "wind", "beat", "end", "reveal", "note", "drop", "read",
   "park", "answer"}

\* Which handler stands where, and what it finds in the parked row.
RowPlaces ==
  /\ parkedRow = Round!NoRow <=> parkedRow.turn = 0
  /\ hand.at = "idle" => hand.op = "turn"
  /\ hand.at \in {"park", "row", "supersede", "unpark"} => hand.op = "turn"
  /\ hand.at \in {"phase", "rerow"} => hand.op = "continue"
  /\ hand.op = "continue" => parkedRow.turn # 0
  /\ hand.op = "turn" /\ hand.at \notin {"idle", "supersede", "unpark", "close", "clear"}
       => parkedRow.turn = 0
  /\ hand.op = "turn" /\ hand.at # "idle" => hand.letter # 0
  /\ hand.at \in {"unpark", "close"} => parkedRow.turn # 0
  /\ hand.at \in {"beat", "end"} => runs # <<>>

\* How far the letters are.
LetterPlaces ==
  /\ \A l \in Round!Letters : l > hand.letter => letter[l] = "ABSENT"
  /\ parkedRow.turn # 0 => letter[parkedRow.turn] # "ABSENT"
  /\ hand.op = "turn" /\ hand.at \in Uncommitted => letter[hand.letter] = "ABSENT"
  /\ hand.at \in {"unpark", "clear"} /\ parkedRow.turn # 0
       => letter[parkedRow.turn] # "GENERATING"
  /\ hand.op = "continue" /\ hand.at \in {"sent", "adopt", "project", "end_round"}
       => letter[parkedRow.turn] \in Round!Terminal
  /\ hand.op = "turn" /\ hand.at \in {"sent", "adopt"} => letter[hand.letter] # "ABSENT"
  /\ hand.op = "turn" /\ hand.at = "row" => letter[hand.letter] = "GENERATING"
  /\ hand.op = "turn" /\ hand.at \in {"project", "end_round"}
       => letter[hand.letter] \in Round!Terminal

\* A letter waits for its reply, the row does not name it and no handler is
\* about to write that row.
Lost(l) ==
  /\ letter[l] = "GENERATING" /\ parkedRow.turn # l
  /\ ~(l = hand.letter /\ hand.op = "turn" /\ hand.at \in {"sent", "adopt", "row"})

OneLost == \A l, k \in Round!Letters : Lost(l) /\ Lost(k) => crashed /\ l = k

RoundInv == RoundTyped /\ RowPlaces /\ LetterPlaces /\ OneLost

\* The hand at another place, everything else as it was.
Moved(pc) ==
  /\ hand' \in HandForms /\ hand'.at = pc
  /\ hand'.op = hand.op /\ hand'.letter = hand.letter /\ hand'.step = hand.step
  /\ hand'.batch = hand.batch /\ hand'.from = hand.from /\ hand'.frames = hand.frames
  /\ hand'.stop = hand.stop

\* The hand at rest.
Rested ==
  /\ hand' \in HandForms /\ hand'.at = "idle" /\ hand'.op = "turn"
  /\ hand'.letter = hand.letter /\ hand'.step = 0 /\ hand'.frames = 0
  /\ hand'.stop = "none"

LEMMA HandFits ==
  ASSUME NEW a \in Places, NEW o \in {"turn", "continue"}, NEW l \in 0..MaxLetters,
         NEW s \in Nat, NEW b \in BatchForms, NEW f \in Nat, NEW n \in Nat,
         NEW w \in Round!Stops
  PROVE [at |-> a, op |-> o, letter |-> l, step |-> s, batch |-> b, from |-> f, frames |-> n,
         stop |-> w] \in HandForms
  BY DEF HandForms

LEMMA NoBatchFits == Round!NoBatch \in BatchForms
<1>1. [size |-> 0, stop |-> "none", bad |-> FALSE] \in [size : 0..2, stop : Round!Stops, bad : BOOLEAN]
  BY DEF Round!Stops
<1> QED
  BY <1>1 DEF Round!NoBatch, BatchForms

LEMMA GotoMoves ==
  ASSUME RoundTyped, NEW pc \in Places, Round!Goto(pc)
  PROVE Moved(pc)
<1>1. hand' = [hand EXCEPT !.at = pc] /\ hand \in HandForms
  BY DEF Round!Goto, RoundTyped
<1> QED
  BY <1>1 DEF Moved, HandForms

LEMMA DoneRests ==
  ASSUME RoundTyped, Round!Done
  PROVE Rested
<1>1. hand' = [Round!Idle EXCEPT !.letter = hand.letter] /\ hand.letter \in 0..MaxLetters
  BY DEF Round!Done, RoundTyped, HandForms
<1>2. hand' = [at |-> "idle", op |-> "turn", letter |-> hand.letter, step |-> 0,
               batch |-> Round!NoBatch, from |-> 0, frames |-> 0, stop |-> "none"]
  BY <1>1 DEF Round!Idle
<1>4. hand' \in HandForms
  <2>1. "idle" \in Places /\ "none" \in Round!Stops
    BY DEF Places, Round!Stops
  <2>2. PICK l \in 0..MaxLetters : l = hand.letter
    BY <1>1
  <2>3. [at |-> "idle", op |-> "turn", letter |-> l, step |-> 0, batch |-> Round!NoBatch,
         from |-> 0, frames |-> 0, stop |-> "none"] \in HandForms
    BY <2>1, NoBatchFits DEF HandForms
  <2> QED
    BY <1>2, <2>2, <2>3
<1> QED
  BY <1>2, <1>4 DEF Rested

LEMMA RoundInitial == Round!Init => RoundInv
<1> SUFFICES ASSUME Round!Init PROVE RoundInv
  OBVIOUS
<1>1. /\ letter = [l \in Round!Letters |-> "ABSENT"]
      /\ parkedRow = [turn |-> 0, stops |-> 0, phase |-> "world", kind |-> "none"]
      /\ hand = [at |-> "idle", op |-> "turn", letter |-> 0, step |-> 0,
                 batch |-> Round!NoBatch, from |-> 0, frames |-> 0, stop |-> "none"]
      /\ direction = 0 /\ choices = 0 /\ chosen = <<>> /\ runs = <<>> /\ beats = <<>>
      /\ crashed = FALSE
  BY DEF Round!Init, Round!NoRow, Round!Idle
<1>2. 0 \in 0..MaxLetters
  BY LettersAssumption
<1>3. hand \in HandForms
  <2>1. "idle" \in Places /\ "none" \in Round!Stops
    BY DEF Places, Round!Stops
  <2> QED
    BY <1>1, <1>2, <2>1, NoBatchFits, HandFits
<1>4. parkedRow \in [turn : 0..MaxLetters, stops : Nat, phase : {"world", "reply"},
                     kind : Round!Stops]
  BY <1>1, <1>2 DEF Round!Stops
<1>5. RoundTyped
  <2>1. letter \in [Round!Letters -> {"ABSENT", "GENERATING"} \cup Round!Terminal]
    BY <1>1
  <2>2. chosen \in Seq(Nat) /\ runs \in Seq(RunForms) /\ beats \in Seq(BeatForms)
    BY <1>1, EmptySeq
  <2> QED
    BY <1>1, <1>3, <1>4, <2>1, <2>2 DEF RoundTyped
<1>6. RowPlaces
  BY <1>1 DEF RowPlaces, Round!NoRow
<1>7. LetterPlaces
  <2>1. hand.at = "idle" /\ hand.op = "turn" /\ parkedRow.turn = 0
    BY <1>1
  <2>2. \A l \in Round!Letters : letter[l] = "ABSENT"
    BY <1>1
  <2> QED
    BY <2>1, <2>2 DEF LetterPlaces, Uncommitted
<1>8. OneLost
  BY <1>1 DEF OneLost, Lost
<1> QED
  BY <1>5, <1>6, <1>7, <1>8 DEF RoundInv

\* What the actions of the round do to the hand, the row and the letters.
LEMMA PostDoes ==
  ASSUME RoundInv, Round!Post
  PROVE /\ hand.at = "idle" /\ hand.op = "turn"
        /\ hand' \in HandForms /\ hand'.at = "supersede" /\ hand'.op = "turn"
        /\ hand'.letter = hand.letter + 1 /\ hand'.step = 0 /\ hand'.frames = 0
        /\ hand'.stop = "none" /\ hand.letter + 1 \in Round!Letters
        /\ letter' = letter /\ parkedRow' = parkedRow /\ direction' = direction
        /\ runs' = runs /\ beats' = beats /\ chosen' = chosen /\ choices' = choices
        /\ mode' = mode /\ crashed' = crashed
<1>1. hand \in HandForms /\ hand.at = "idle" /\ hand.op = "turn" /\ hand.letter < MaxLetters
  BY DEF RoundInv, RoundTyped, RowPlaces, Round!Post
<1>2. hand.letter \in Nat /\ hand.letter + 1 \in 0..MaxLetters /\ hand.letter + 1 \in 1..MaxLetters
  BY <1>1, LettersAssumption DEF HandForms
<1>3. hand' = [at |-> "supersede", op |-> "turn", letter |-> hand.letter + 1, step |-> 0,
               batch |-> Round!NoBatch, from |-> 0, frames |-> 0, stop |-> "none"]
  BY DEF Round!Post, Round!Idle
<1>5. "supersede" \in Places /\ "none" \in Round!Stops
  BY DEF Places, Round!Stops
<1>6. hand' \in HandForms
  BY <1>2, <1>3, <1>5, NoBatchFits, HandFits
<1>7. /\ hand'.at = "supersede" /\ hand'.op = "turn" /\ hand'.letter = hand.letter + 1
      /\ hand'.step = 0 /\ hand'.frames = 0 /\ hand'.stop = "none"
  BY <1>3
<1> QED
  BY <1>1, <1>2, <1>6, <1>7 DEF Round!Post, Round!Letters

LEMMA ContinueDoes ==
  ASSUME RoundInv, Round!Continue
  PROVE /\ hand.at = "idle" /\ parkedRow.turn # 0
        /\ hand' \in HandForms /\ hand'.op = "continue" /\ hand'.letter = hand.letter
        /\ hand'.step = hand.step /\ hand'.frames = hand.frames /\ hand'.stop = hand.stop
        /\ \/ hand'.at = "clear" /\ Round!Over(parkedRow.turn)
           \/ hand'.at = "close" /\ ~Round!Over(parkedRow.turn)
           \/ hand'.at = "answer" /\ ~Round!Over(parkedRow.turn) /\ parkedRow.phase = "reply"
           \/ /\ hand'.at = "narrate" /\ ~Round!Over(parkedRow.turn)
              /\ parkedRow.phase # "reply" /\ parkedRow.kind # "awaits"
        /\ letter' = letter /\ parkedRow' = parkedRow /\ direction' = direction
        /\ runs' = runs /\ beats' = beats /\ chosen' = chosen /\ choices' = choices
        /\ mode' = mode /\ crashed' = crashed
<1>1. hand \in HandForms /\ hand.at = "idle" /\ parkedRow.turn # 0
  BY DEF RoundInv, RoundTyped, RowPlaces, Round!Continue
<1>2. PICK next \in {"clear", "close", "answer", "narrate"} :
        /\ hand' = [hand EXCEPT !.op = "continue", !.at = next]
        /\ IF Round!Over(parkedRow.turn) THEN next = "clear"
           ELSE IF parkedRow.kind = "awaits" THEN next = "close"
           ELSE IF parkedRow.phase = "reply" THEN next = "answer"
           ELSE next = "narrate" /\ ~Round!Capped
  BY DEF Round!Continue
<1>3. /\ hand' \in HandForms /\ hand'.op = "continue" /\ hand'.at = next
      /\ hand'.letter = hand.letter /\ hand'.step = hand.step /\ hand'.frames = hand.frames
      /\ hand'.stop = hand.stop
  <2>1. next \in Places
    BY DEF Places
  <2> QED
    BY <1>1, <1>2, <2>1 DEF HandForms
<1> QED
  BY <1>1, <1>2, <1>3 DEF Round!Continue

\* The end of the chain.
LEMMA AfterChainPlaces ==
  ASSUME NEW h, h.op \in {"turn", "continue"}
  PROVE /\ Round!AfterChain(h) \in {"phase", "rerow", "park", "answer"}
        /\ h.op = "continue" =>
             Round!AfterChain(h) = IF h.stop = "arrives" THEN "phase" ELSE "rerow"
        /\ h.op = "turn" => Round!AfterChain(h) \in {"park", "answer"}
        /\ h.op = "turn" /\ Round!AfterChain(h) = "park" =>
             mode = "directed" /\ h.frames > 0 /\ h.stop # "arrives"
  BY DEF Round!AfterChain, Round!Directed

LEMMA NarrateDoes ==
  ASSUME RoundInv, Round!Narrate
  PROVE /\ hand.at = "narrate"
        /\ \/ Moved(Round!AfterChain(hand))
           \/ /\ hand' \in HandForms /\ hand'.at = "wind" /\ hand'.op = hand.op
              /\ hand'.letter = hand.letter /\ hand'.step = hand.step + 1
              /\ hand'.frames = hand.frames /\ hand'.stop = hand.stop
              /\ hand'.from = Len(beats)
        /\ letter' = letter /\ parkedRow' = parkedRow /\ direction' = direction
        /\ runs' = runs /\ beats' = beats /\ chosen' = chosen /\ choices' = choices
        /\ mode' = mode /\ crashed' = crashed
<1>1. hand \in HandForms /\ hand.at = "narrate" /\ beats \in Seq(BeatForms)
  BY DEF RoundInv, RoundTyped, Round!Narrate
<1>2. PICK batch \in Round!Answers :
       hand' = IF batch = Round!NoBatch
               THEN [hand EXCEPT !.at = Round!AfterChain(hand)]
               ELSE [hand EXCEPT !.at = "wind", !.from = Len(beats), !.step = @ + 1,
                                 !.batch = batch]
  BY DEF Round!Narrate
<1>3. CASE hand' = [hand EXCEPT !.at = Round!AfterChain(hand)]
  <2>1. hand.op \in {"turn", "continue"}
    BY <1>1 DEF HandForms
  <2>2. Round!AfterChain(hand) \in Places
    BY <2>1, AfterChainPlaces DEF Places
  <2>3. Moved(Round!AfterChain(hand))
    BY <1>3, <2>2, GotoMoves DEF Round!Goto, RoundInv
  <2> QED
    BY <1>1, <2>3 DEF Round!Narrate
<1>4. CASE hand' = [hand EXCEPT !.at = "wind", !.from = Len(beats), !.step = @ + 1,
                                !.batch = batch]
  <2>1. batch \in BatchForms
    <3>1. CASE batch = Round!NoBatch
      BY <3>1, NoBatchFits
    <3>2. CASE batch \in Round!Batches
      <4>1. Round!Batches \subseteq BatchForms
        BY DEF Round!Batches, BatchForms
      <4> QED
        BY <3>2, <4>1
    <3> QED
      BY <3>1, <3>2 DEF Round!Answers
  <2>2. Len(beats) \in Nat /\ "wind" \in Places
    BY <1>1 DEF Places
  <2>3. /\ hand' \in HandForms /\ hand'.at = "wind" /\ hand'.op = hand.op
        /\ hand'.letter = hand.letter /\ hand'.step = hand.step + 1
        /\ hand'.frames = hand.frames /\ hand'.stop = hand.stop
        /\ hand'.from = Len(beats)
    <3>1. PICK a \in Places, o \in {"turn", "continue"}, l \in 0..MaxLetters, s \in Nat,
               b \in BatchForms, f \in Nat, n \in Nat, w \in Round!Stops :
            hand = [at |-> a, op |-> o, letter |-> l, step |-> s, batch |-> b, from |-> f,
                    frames |-> n, stop |-> w]
      BY <1>1 DEF HandForms
    <3>2. hand' = [at |-> "wind", op |-> o, letter |-> l, step |-> s + 1, batch |-> batch,
                   from |-> Len(beats), frames |-> n, stop |-> w]
      BY <1>4, <3>1
    <3>3. hand' \in HandForms
      <4>1. s + 1 \in Nat
        OBVIOUS
      <4>2. [at |-> "wind", op |-> o, letter |-> l, step |-> s + 1, batch |-> batch,
             from |-> Len(beats), frames |-> n, stop |-> w] \in HandForms
        BY <2>1, <2>2, <4>1 DEF HandForms
      <4> QED
        BY <3>2, <4>2
    <3> QED
      BY <3>1, <3>2, <3>3
  <2> QED
    BY <1>1, <2>3 DEF Round!Narrate
<1> QED
  BY <1>2, <1>3, <1>4

LEMMA RevealAllDoes ==
  ASSUME RoundInv, Round!RevealAll
  PROVE /\ hand.at = "reveal"
        /\ hand' \in HandForms /\ hand'.op = hand.op /\ hand'.letter = hand.letter
        /\ hand'.step = hand.step /\ hand'.frames = hand.frames + 1
        /\ hand'.stop = hand.batch.stop
        /\ \/ hand'.at = "note" /\ Round!Pending
           \/ hand'.at = "read"
        /\ letter' = letter /\ parkedRow' = parkedRow /\ direction' = direction
        /\ runs' = runs /\ beats' = Round!Revealed /\ chosen' = chosen /\ choices' = choices
        /\ mode' = mode /\ crashed' = crashed
<1>1. hand \in HandForms /\ hand.at = "reveal"
  BY DEF RoundInv, RoundTyped, Round!RevealAll
<1> DEFINE q == IF Round!Pending THEN "note" ELSE "read"
<1>2. hand' = [hand EXCEPT !.at = q, !.frames = @ + 1, !.stop = hand.batch.stop]
  BY DEF Round!RevealAll
<1>3. q \in Places /\ hand.batch.stop \in Round!Stops /\ hand.frames + 1 \in Nat
  BY <1>1 DEF Places, HandForms, BatchForms
<1>4. (q = "note" /\ Round!Pending) \/ q = "read"
  OBVIOUS
<1> HIDE DEF q
<1>5. /\ hand' \in HandForms /\ hand'.op = hand.op /\ hand'.letter = hand.letter
      /\ hand'.step = hand.step /\ hand'.frames = hand.frames + 1
      /\ hand'.stop = hand.batch.stop /\ hand'.at = q
  BY <1>1, <1>2, <1>3 DEF HandForms
<1> QED
  BY <1>1, <1>4, <1>5 DEF Round!RevealAll

\* The chronicle fb has the beats of fa, with the same runs and letters.
SameBeats(fa, fb) ==
  /\ fb \in Seq(BeatForms) /\ Len(fb) = Len(fa)
  /\ \A b \in 1..Len(fa) : fb[b].run = fa[b].run /\ fb[b].during = fa[b].during

\* The runs ga with one more of them.
OneMoreRun(ga, gb) ==
  /\ gb \in Seq(RunForms) /\ Len(gb) = Len(ga) + 1
  /\ \A i \in 1..Len(ga) : gb[i] = ga[i]
  /\ gb[Len(ga) + 1].terminal = FALSE /\ gb[Len(ga) + 1].trigger = 0

LEMMA SeqByDomain ==
  ASSUME NEW T, NEW n \in Nat, NEW f \in [1..n -> T]
  PROVE f \in Seq(T) /\ Len(f) = n
<1>1. f \in Seq(T)
  BY SeqDef
<1>2. DOMAIN f = 1..Len(f) /\ Len(f) \in Nat /\ DOMAIN f = 1..n
  BY <1>1, LenProperties
<1>3. Len(f) = n
  BY <1>2
<1> QED
  BY <1>1, <1>3

LEMMA WrittenIsCount ==
  /\ Round!Written = Cardinality({l \in Round!Letters : letter[l] # "ABSENT"})
  /\ Round!Written \in Nat
<1>0. \A S : Round!Cardinality(S) = Cardinality(S)
  BY DEF Round!Cardinality, Cardinality
<1>1. IsFiniteSet(Round!Letters)
  BY FS_Interval, LettersAssumption DEF Round!Letters
<1> DEFINE S == {l \in Round!Letters : letter[l] # "ABSENT"}
<1>2. IsFiniteSet(S)
  BY <1>1, FS_Subset
<1>3. Cardinality(S) \in Nat
  BY <1>2, FS_CardinalityType
<1> QED
  BY <1>0, <1>3 DEF Round!Written

LEMMA RevealedDoes ==
  ASSUME RoundTyped
  PROVE /\ SameBeats(beats, Round!Revealed)
        /\ \A b \in 1..Len(beats) :
             /\ beats[b].item # "PENDING" => Round!Revealed[b] = beats[b]
             /\ beats[b].item = "PENDING" =>
                  Round!Revealed[b].item = "REVEALED" /\ Round!Revealed[b].after = Round!Written
<1>1. beats \in Seq(BeatForms) /\ Len(beats) \in Nat /\ DOMAIN beats = 1..Len(beats)
  BY LenProperties DEF RoundTyped
<1>2. \A b \in 1..Len(beats) : beats[b] \in BeatForms
  BY <1>1, ElementOfSeq
<1> DEFINE f == Round!Revealed
<1>3. \A b \in 1..Len(beats) :
        f[b] = IF beats[b].item = "PENDING"
               THEN [beats[b] EXCEPT !.item = "REVEALED", !.after = Round!Written] ELSE beats[b]
  BY <1>1 DEF Round!Revealed
<1>4. ASSUME NEW b \in 1..Len(beats), beats[b].item = "PENDING"
      PROVE /\ f[b] \in BeatForms /\ f[b].run = beats[b].run /\ f[b].during = beats[b].during
            /\ f[b].item = "REVEALED" /\ f[b].after = Round!Written
  <2>1. f[b] = [beats[b] EXCEPT !.item = "REVEALED", !.after = Round!Written]
    BY <1>3, <1>4
  <2>2. PICK r \in Nat, i \in {"none", "PENDING", "REVEALED"}, a \in Nat, d \in 0..MaxLetters :
          beats[b] = [run |-> r, item |-> i, after |-> a, during |-> d]
    BY <1>2 DEF BeatForms
  <2>3. PICK w \in Nat : w = Round!Written
    BY WrittenIsCount
  <2> HIDE DEF f
  <2>4. f[b] = [run |-> r, item |-> "REVEALED", after |-> w, during |-> d]
    <3>1. /\ f[b] = [[beats[b] EXCEPT !.item = "REVEALED"] EXCEPT !.after = w]
          /\ [beats[b] EXCEPT !.item = "REVEALED"]
               = [run |-> r, item |-> "REVEALED", after |-> a, during |-> d]
      BY <2>1, <2>2, <2>3
    <3> QED
      BY <3>1
  <2>5. f[b] \in BeatForms
    BY <2>4 DEF BeatForms
  <2> QED
    BY <2>2, <2>3, <2>4, <2>5
<1>5. f = [b \in 1..Len(beats) |-> f[b]]
  BY <1>1 DEF Round!Revealed
<1> HIDE DEF f
<1>6. \A b \in 1..Len(beats) : f[b] \in BeatForms
  BY <1>2, <1>3, <1>4
<1>7. f \in Seq(BeatForms) /\ Len(f) = Len(beats)
  <2>1. f \in [1..Len(beats) -> BeatForms]
    BY <1>5, <1>6
  <2> QED
    BY <1>1, <2>1, SeqByDomain
<1>8. SameBeats(beats, f)
  BY <1>3, <1>4, <1>7 DEF SameBeats
<1> QED
  BY <1>3, <1>4, <1>8 DEF f

LEMMA QueuedDoes ==
  ASSUME RoundTyped
  PROVE /\ SameBeats(beats, Round!Queued)
        /\ \A b \in 1..Len(beats) :
             /\ b <= hand.from => Round!Queued[b] = beats[b]
             /\ b > hand.from => Round!Queued[b].item = "PENDING"
<1>1. beats \in Seq(BeatForms) /\ Len(beats) \in Nat /\ DOMAIN beats = 1..Len(beats)
  BY LenProperties DEF RoundTyped
<1>2. \A b \in 1..Len(beats) : beats[b] \in BeatForms
  BY <1>1, ElementOfSeq
<1> DEFINE f == Round!Queued
<1>3. \A b \in 1..Len(beats) :
        f[b] = IF b > hand.from THEN [beats[b] EXCEPT !.item = "PENDING"] ELSE beats[b]
  BY <1>1 DEF Round!Queued
<1>4. ASSUME NEW b \in 1..Len(beats), b > hand.from
      PROVE /\ f[b] \in BeatForms /\ f[b].run = beats[b].run /\ f[b].during = beats[b].during
            /\ f[b].item = "PENDING"
  <2>1. f[b] = [beats[b] EXCEPT !.item = "PENDING"]
    BY <1>3, <1>4
  <2> HIDE DEF f
  <2> QED
    BY <1>2, <2>1 DEF BeatForms
<1>5. f = [b \in 1..Len(beats) |-> f[b]]
  BY <1>1 DEF Round!Queued
<1> HIDE DEF f
<1>6. \A b \in 1..Len(beats) : f[b] \in BeatForms
  BY <1>2, <1>3, <1>4
<1>7. f \in Seq(BeatForms) /\ Len(f) = Len(beats)
  <2>1. f \in [1..Len(beats) -> BeatForms]
    BY <1>5, <1>6
  <2> QED
    BY <1>1, <2>1, SeqByDomain
<1>8. SameBeats(beats, f)
  BY <1>3, <1>4, <1>7 DEF SameBeats
<1>9. \A b \in 1..Len(beats) : b <= hand.from => ~(b > hand.from)
  <2>1. hand.from \in Nat
    BY DEF RoundTyped, HandForms
  <2> QED
    BY <1>1, <2>1
<1> QED
  BY <1>3, <1>4, <1>8, <1>9 DEF f

\* One beat of the handler's letter in the latest run, or none.
OneMoreBeat(fa, fb) ==
  /\ fb \in Seq(BeatForms) /\ Len(fb) = Len(fa) + 1
  /\ \A b \in 1..Len(fa) : fb[b] = fa[b]
  /\ fb[Len(fa) + 1].run = Len(runs) /\ fb[Len(fa) + 1].during = Round!TurnOf
  /\ fb[Len(fa) + 1].item = "none"

LEMMA TurnOfFits ==
  ASSUME RoundTyped
  PROVE /\ Round!TurnOf \in 0..MaxLetters
        /\ hand.op = "turn" => Round!TurnOf = hand.letter
        /\ hand.op = "continue" => Round!TurnOf = parkedRow.turn
<1>1. hand.letter \in 0..MaxLetters /\ parkedRow.turn \in 0..MaxLetters
  BY DEF RoundTyped, HandForms
<1> QED
  BY <1>1 DEF Round!TurnOf

LEMMA RecordedDoes ==
  ASSUME RoundTyped
  PROVE Round!Recorded = beats \/ OneMoreBeat(beats, Round!Recorded)
<1> DEFINE e == [run |-> Len(runs), item |-> "none", after |-> 0, during |-> Round!TurnOf]
<1>1. Round!Recorded = beats \/ Round!Recorded = Append(beats, e)
  BY DEF Round!Recorded
<1>2. Len(runs) \in Nat /\ Round!TurnOf \in 0..MaxLetters /\ beats \in Seq(BeatForms)
  BY TurnOfFits DEF RoundTyped
<1>3. e \in BeatForms /\ e.run = Len(runs) /\ e.item = "none" /\ e.during = Round!TurnOf
  BY <1>2 DEF BeatForms
<1> HIDE DEF e
<1>4. OneMoreBeat(beats, Append(beats, e))
  <2>1. /\ Append(beats, e) \in Seq(BeatForms) /\ Len(Append(beats, e)) = Len(beats) + 1
        /\ \A i \in 1..Len(beats) : Append(beats, e)[i] = beats[i]
        /\ Append(beats, e)[Len(beats) + 1] = e
    BY <1>2, <1>3, AppendProperties
  <2> QED
    BY <1>3, <2>1 DEF OneMoreBeat
<1> QED
  BY <1>1, <1>4

LEMMA NewRunDoes ==
  ASSUME RoundTyped
  PROVE OneMoreRun(runs, Append(runs, Round!NewRun))
<1>1. /\ Round!NewRun \in RunForms /\ Round!NewRun.terminal = FALSE /\ Round!NewRun.trigger = 0
      /\ runs \in Seq(RunForms)
  BY LettersAssumption DEF Round!NewRun, RunForms, RoundTyped
<1>2. /\ Append(runs, Round!NewRun) \in Seq(RunForms)
      /\ Len(Append(runs, Round!NewRun)) = Len(runs) + 1
      /\ \A i \in 1..Len(runs) : Append(runs, Round!NewRun)[i] = runs[i]
      /\ Append(runs, Round!NewRun)[Len(runs) + 1] = Round!NewRun
  BY <1>1, AppendProperties
<1> QED
  BY <1>1, <1>2 DEF OneMoreRun

\* The runs ga with their last one ended.
LastEnded(ga, gb) ==
  /\ gb \in Seq(RunForms) /\ Len(gb) = Len(ga)
  /\ \A i \in 1..Len(ga) : gb[i].trigger = ga[i].trigger
  /\ \A i \in 1..Len(ga) : i # Len(ga) => gb[i] = ga[i]

LEMMA TerminalizedDoes ==
  ASSUME RoundTyped, runs # <<>>
  PROVE LastEnded(runs, Round!Terminalized)
<1>1. runs \in Seq(RunForms) /\ Len(runs) \in Nat /\ Len(runs) # 0
  BY EmptySeq DEF RoundTyped
<1> DEFINE n == Len(runs)
           e == [runs[n] EXCEPT !.terminal = TRUE]
<1>2. n \in 1..Len(runs) /\ DOMAIN runs = 1..Len(runs)
  BY <1>1, LenProperties
<1>3. runs[n] \in RunForms
  BY <1>1, <1>2, ElementOfSeq
<1>4. e \in RunForms /\ e.trigger = runs[n].trigger
  BY <1>3 DEF RunForms
<1>5. Round!Terminalized = [runs EXCEPT ![n] = e]
  BY <1>2 DEF Round!Terminalized
<1> HIDE DEF e
<1>6. /\ [runs EXCEPT ![n] = e] \in Seq(RunForms) /\ Len([runs EXCEPT ![n] = e]) = Len(runs)
      /\ \A j \in 1..Len(runs) : [runs EXCEPT ![n] = e][j] = IF j = n THEN e ELSE runs[j]
  BY <1>1, <1>2, <1>4, ExceptSeq
<1> QED
  BY <1>4, <1>5, <1>6 DEF LastEnded

\* The runs ga with their last one adopted by the letter l.
LastAdopted(ga, gb, l) ==
  /\ gb \in Seq(RunForms) /\ Len(gb) = Len(ga)
  /\ \A i \in 1..Len(ga) : gb[i].terminal = ga[i].terminal
  /\ \A i \in 1..Len(ga) : i # Len(ga) => gb[i] = ga[i]
  /\ gb[Len(ga)].trigger = l

LEMMA AdoptedDoes ==
  ASSUME RoundTyped, NEW l \in 0..MaxLetters
  PROVE \/ Round!Adopted(l) = runs /\ (runs = <<>> \/ runs[Len(runs)].trigger # 0)
        \/ /\ LastAdopted(runs, Round!Adopted(l), l)
           /\ runs # <<>> /\ runs[Len(runs)].trigger = 0
<1>1. CASE runs = <<>> \/ runs[Len(runs)].trigger # 0
  BY <1>1 DEF Round!Adopted, Round!Last
<1>2. CASE runs # <<>> /\ runs[Len(runs)].trigger = 0
  <2>1. runs \in Seq(RunForms) /\ Len(runs) \in Nat /\ Len(runs) # 0
    BY <1>2, EmptySeq DEF RoundTyped
  <2> DEFINE n == Len(runs)
             e == [runs[n] EXCEPT !.trigger = l]
  <2>2. n \in 1..Len(runs) /\ DOMAIN runs = 1..Len(runs)
    BY <2>1, LenProperties
  <2>3. runs[n] \in RunForms
    BY <2>1, <2>2, ElementOfSeq
  <2>4. e \in RunForms /\ e.terminal = runs[n].terminal /\ e.trigger = l
    BY <2>3 DEF RunForms
  <2>5. Round!Adopted(l) = [runs EXCEPT ![n] = e]
    BY <1>2, <2>2 DEF Round!Adopted, Round!Last
  <2> HIDE DEF e
  <2>6. /\ [runs EXCEPT ![n] = e] \in Seq(RunForms) /\ Len([runs EXCEPT ![n] = e]) = Len(runs)
        /\ \A j \in 1..Len(runs) : [runs EXCEPT ![n] = e][j] = IF j = n THEN e ELSE runs[j]
    BY <2>1, <2>2, <2>4, ExceptSeq
  <2>7. LastAdopted(runs, Round!Adopted(l), l)
    BY <2>2, <2>4, <2>5, <2>6 DEF LastAdopted
  <2> QED
    BY <1>2, <2>7
<1> QED
  BY <1>1, <1>2

\* No beat of the letter l is in a run that ended.
Clear(l) == \A b \in 1..Len(beats) : beats[b].during = l => ~runs[beats[b].run].terminal

\* The world can be wound further for the letter l.
Going(l) == Clear(l) /\ runs # <<>> /\ ~runs[Len(runs)].terminal

\* The handler winds the world once.
Single == mode = "directed" \/ hand.op = "continue"

\* A chosen direction is a saved one, noted once, and gone once it is noted.
Steered ==
  /\ direction <= choices
  /\ \A i \in 1..Len(chosen) : chosen[i] <= choices
  /\ \A i, j \in 1..Len(chosen) : chosen[i] = chosen[j] => i = j
  /\ direction # 0 /\ hand.at # "drop" => \A i \in 1..Len(chosen) : chosen[i] # direction
  /\ hand.at = "note" => direction # 0

\* What the chronicle holds of the handler's letter, and where it is queued.
Chronicled ==
  /\ \A b \in 1..Len(beats) : beats[b].run \in 1..Len(runs) /\ beats[b].during <= hand.letter
  /\ hand.op = "turn" /\ (hand.at \in {"supersede", "unpark"} \/ (hand.at = "narrate" /\ hand.step = 0))
       => \A b \in 1..Len(beats) : beats[b].during < hand.letter
  /\ hand.at = "wind" => hand.from = Len(beats)
  /\ hand.at = "beat" => \A b \in 1..Len(beats) :
       b > hand.from => beats[b].run = Len(runs) /\ beats[b].during = Round!TurnOf
  /\ \A b \in 1..Len(beats) : beats[b].item = "PENDING" =>
       hand.at \in {"end", "reveal"} /\ beats[b].run = Len(runs) /\ beats[b].during = Round!TurnOf

\* How often the handler wound the world.
Counted ==
  /\ hand.at = "idle" => hand.step = 0 /\ hand.frames = 0 /\ hand.stop = "none"
  /\ hand.at \in {"supersede", "unpark"} => hand.step = 0 /\ hand.frames = 0 /\ hand.stop = "none"
  /\ Single /\ hand.at = "narrate" => hand.step = 0 /\ hand.frames = 0 /\ hand.stop = "none"
  /\ Single /\ hand.at \in {"wind", "beat", "end", "reveal"}
       => hand.step = 1 /\ hand.frames = 0 /\ hand.stop = "none"
  /\ Single /\ hand.at \in {"note", "drop", "read"} => hand.step = 1
  /\ hand.at \in {"wind", "beat", "end", "reveal", "note", "drop", "read"} => hand.step # 0
  /\ hand.frames > 0 \/ hand.at \in {"beat", "end", "reveal"} => runs # <<>>
  /\ hand.at \in {"note", "drop", "read"} => hand.frames > 0
  /\ hand.at = "rerow" /\ hand.frames = 0 => hand.stop = "none"
  /\ hand.at = "park" => hand.frames > 0 /\ mode = "directed"

\* A letter that stays parked has its run open.
Waiting(l) == hand.stop # "arrives" /\ (hand.stop # "awaits" => Going(l))

StandsStill ==
  /\ hand.at \in {"beat", "end"} => ~runs[Len(runs)].terminal
  /\ Single /\ hand.at \in {"narrate", "wind", "beat", "end"} => Clear(Round!TurnOf)
  /\ hand.op = "continue" /\ hand.at \in {"narrate", "wind"} => Going(Round!TurnOf)
  /\ Single /\ hand.at = "reveal" /\ hand.batch.stop \notin Round!TerminalStops
       => Going(Round!TurnOf)
  /\ Single /\ hand.at \in {"note", "drop", "read"} /\ hand.stop \notin Round!TerminalStops
       => Going(Round!TurnOf)
  /\ hand.at \in {"park", "row", "rerow"} => Waiting(Round!TurnOf)
  /\ hand.op = "turn" /\ hand.at \in {"sent", "adopt"} /\ letter[hand.letter] = "GENERATING"
       => Waiting(Round!TurnOf) /\ runs # <<>>
  /\ hand.op = "continue" /\ hand.at = "answer" => parkedRow.phase = "reply"
  /\ hand.at = "idle" /\ parkedRow.turn # 0 /\ letter[parkedRow.turn] = "GENERATING"
     /\ parkedRow.phase # "reply" /\ parkedRow.kind # "awaits" => Going(parkedRow.turn)

\* Letters of the chronicle before the letter l.
Before(l) == {k \in Round!Letters : k < l /\ letter[k] # "ABSENT"}

\* Which letter a run is taken to begin with.
Triggered ==
  /\ \A i \in 1..Len(runs) : runs[i].trigger <= hand.letter
  /\ parkedRow.turn # 0 => runs # <<>> /\ runs[Len(runs)].trigger \in 1..parkedRow.turn
  /\ hand.at = "row" => runs # <<>> /\ runs[Len(runs)].trigger # 0
  /\ \A b \in 1..Len(beats) : beats[b].during # 0
  /\ \A b \in 1..Len(beats) :
       letter[beats[b].during] # "ABSENT" => runs[beats[b].run].trigger <= beats[b].during
  /\ \A b \in 1..Len(beats) :
       beats[b].run = Len(runs) /\ runs[Len(runs)].trigger = 0 /\ letter[beats[b].during] # "ABSENT"
         => beats[b].during = hand.letter /\ hand.op = "turn" /\ hand.at \in {"sent", "adopt"}
  /\ \A b \in 1..Len(beats) :
       beats[b].item = "REVEALED" /\ runs[beats[b].run].trigger = 0
         => beats[b].after <= Cardinality(Before(beats[b].during))

RoundInTime == ~crashed => Steered /\ Chronicled /\ Counted /\ StandsStill /\ Triggered

RoundWhole == RoundInv /\ RoundInTime

\* What the handler did not touch.
ChronicleKept == runs' = runs /\ beats' = beats
LettersKept == letter' = letter /\ parkedRow' = parkedRow
DirectionsKept == direction' = direction /\ chosen' = chosen /\ choices' = choices
SettingsStay == mode' = mode /\ crashed' = crashed

LEMMA RoundInTimeInitial == Round!Init => RoundInTime
<1> SUFFICES ASSUME Round!Init PROVE RoundInTime
  OBVIOUS
<1>1. /\ hand.at = "idle" /\ hand.op = "turn" /\ hand.step = 0 /\ hand.frames = 0
      /\ hand.stop = "none" /\ parkedRow.turn = 0 /\ hand.letter = 0
  BY DEF Round!Init, Round!Idle, Round!NoRow
<1>2. direction = 0 /\ choices = 0 /\ Len(chosen) = 0 /\ Len(runs) = 0 /\ Len(beats) = 0
  BY DEF Round!Init
<1>3. \A b \in 1..0 : FALSE
  OBVIOUS
<1>4. Steered
  BY <1>1, <1>2, <1>3 DEF Steered
<1>5. Chronicled
  BY <1>1, <1>2, <1>3 DEF Chronicled
<1>6. Counted
  BY <1>1, <1>2, <1>3 DEF Counted
<1>7. StandsStill
  BY <1>1, <1>2, <1>3 DEF StandsStill
<1>8. Triggered
  BY <1>1, <1>2, <1>3 DEF Triggered
<1> QED
  BY <1>4, <1>5, <1>6, <1>7, <1>8 DEF RoundInTime

LEMMA SameClear ==
  ASSUME runs' = runs, beats' = beats \/ SameBeats(beats, beats')
  PROVE \A l : (Clear(l)' <=> Clear(l)) /\ (Going(l)' <=> Going(l))
<1> SUFFICES ASSUME NEW l PROVE (Clear(l)' <=> Clear(l)) /\ (Going(l)' <=> Going(l))
  OBVIOUS
<1>1. Len(beats') = Len(beats)
  BY DEF SameBeats
<1>2. \A b \in 1..Len(beats) : beats'[b].run = beats[b].run /\ beats'[b].during = beats[b].during
  BY DEF SameBeats
<1>3. Clear(l)' <=> Clear(l)
  BY <1>1, <1>2 DEF Clear
<1> QED
  BY <1>3 DEF Going

LEMMA BeforeGrows ==
  ASSUME \A k \in Round!Letters : letter[k] # "ABSENT" => letter'[k] # "ABSENT"
  PROVE \A l : /\ Cardinality(Before(l)) \in Nat /\ Cardinality(Before(l)') \in Nat
               /\ Cardinality(Before(l)) <= Cardinality(Before(l)')
<1> SUFFICES ASSUME NEW l
             PROVE /\ Cardinality(Before(l)) \in Nat /\ Cardinality(Before(l)') \in Nat
                   /\ Cardinality(Before(l)) <= Cardinality(Before(l)')
  OBVIOUS
<1>1. IsFiniteSet(Round!Letters)
  BY FS_Interval, LettersAssumption DEF Round!Letters
<1>2. /\ Before(l) \subseteq Before(l)' /\ Before(l)' \subseteq Round!Letters
  BY DEF Before
<1>3. IsFiniteSet(Before(l)')
  BY <1>1, <1>2, FS_Subset
<1>4. IsFiniteSet(Before(l))
  BY <1>2, <1>3, FS_Subset
<1>5. Cardinality(Before(l)) \in Nat /\ Cardinality(Before(l)') \in Nat
  BY <1>3, <1>4, FS_CardinalityType
<1>6. Cardinality(Before(l)) <= Cardinality(Before(l)')
  BY <1>2, <1>3, FS_Subset
<1> QED
  BY <1>5, <1>6

LEMMA HandTyped ==
  ASSUME RoundTyped, hand' \in HandForms, LettersKept, ChronicleKept, DirectionsKept,
         crashed' = crashed
  PROVE RoundTyped'
  BY DEF RoundTyped, LettersKept, ChronicleKept, DirectionsKept

\* A handler that ends owes something to the parked letter only.
LEMMA RestedStands ==
  ASSUME Rested,
         /\ parkedRow'.turn # 0 /\ letter'[parkedRow'.turn] = "GENERATING"
         /\ parkedRow'.phase # "reply" /\ parkedRow'.kind # "awaits"
         => Going(parkedRow.turn)'
  PROVE StandsStill'
  BY DEF StandsStill, Rested

LEMMA RowsTyped ==
  ASSUME RoundTyped
  PROVE /\ Len(beats) \in Nat /\ Len(runs) \in Nat /\ Len(chosen) \in Nat
        /\ \A b \in 1..Len(beats) :
             /\ beats[b].run \in Nat /\ beats[b].after \in Nat /\ beats[b].during \in Nat
             /\ beats[b].during <= MaxLetters
        /\ \A i \in 1..Len(runs) :
             runs[i].trigger \in Nat /\ runs[i].trigger <= MaxLetters /\ runs[i].terminal \in BOOLEAN
        /\ \A i \in 1..Len(chosen) : chosen[i] \in Nat
        /\ hand.letter \in Nat /\ hand.letter <= MaxLetters /\ MaxLetters \in Nat
        /\ parkedRow.turn \in Nat /\ parkedRow.turn <= MaxLetters
<1>1. beats \in Seq(BeatForms) /\ runs \in Seq(RunForms) /\ chosen \in Seq(Nat)
  BY DEF RoundTyped
<1>2. \A b \in 1..Len(beats) : beats[b] \in BeatForms
  BY <1>1, ElementOfSeq
<1>3. \A i \in 1..Len(runs) : runs[i] \in RunForms
  BY <1>1, ElementOfSeq
<1>4. \A i \in 1..Len(chosen) : chosen[i] \in Nat
  BY <1>1, ElementOfSeq
<1>5. hand.letter \in 0..MaxLetters /\ parkedRow.turn \in 0..MaxLetters
  BY DEF RoundTyped, HandForms
<1>6. \A b \in 1..Len(beats) :
        beats[b].run \in Nat /\ beats[b].after \in Nat /\ beats[b].during \in 0..MaxLetters
  BY <1>2 DEF BeatForms
<1>7. \A i \in 1..Len(runs) : runs[i].trigger \in 0..MaxLetters /\ runs[i].terminal \in BOOLEAN
  BY <1>3 DEF RunForms
<1>8. \A n \in 0..MaxLetters : n \in Nat /\ n <= MaxLetters
  BY LettersAssumption
<1>9. Len(beats) \in Nat /\ Len(runs) \in Nat /\ Len(chosen) \in Nat
  BY <1>1
<1> QED
  BY <1>4, <1>5, <1>6, <1>7, <1>8, <1>9, LettersAssumption

(***************************************************************************)
(* Every step of the round keeps the whole invariant, one part at a time.  *)
(***************************************************************************)
LEMMA EndRoundKeeps ==
  ASSUME RoundWhole, Round!EndRound
  PROVE RoundWhole'
<1>1. RoundTyped /\ RowPlaces /\ LetterPlaces /\ OneLost
  BY DEF RoundWhole, RoundInv
<1>2. hand.at = "end_round" /\ Rested
  BY <1>1, DoneRests DEF Round!EndRound
<1>3. LettersKept /\ ChronicleKept /\ DirectionsKept /\ SettingsStay
  BY DEF Round!EndRound, LettersKept, ChronicleKept, DirectionsKept, SettingsStay
<1>4. RoundTyped'
  BY <1>1, <1>2, <1>3, HandTyped DEF Moved, Rested, SettingsStay
<1>5. RowPlaces'
  BY <1>1, <1>2, <1>3 DEF RowPlaces,
         Moved, Rested, LettersKept, ChronicleKept, DirectionsKept, SettingsStay
<1>6. LetterPlaces'
  BY <1>1, <1>2, <1>3 DEF LetterPlaces, Uncommitted, Round!Terminal,
         Moved, Rested, LettersKept, ChronicleKept, DirectionsKept, SettingsStay
<1>7. OneLost'
  BY <1>1, <1>2, <1>3 DEF OneLost, Lost,
         Moved, Rested, LettersKept, ChronicleKept, DirectionsKept, SettingsStay
<1>8. ASSUME ~crashed'
      PROVE Steered' /\ Chronicled' /\ Counted' /\ StandsStill' /\ Triggered'
  <2>1. Steered /\ Chronicled /\ Counted /\ StandsStill /\ Triggered
    BY <1>3, <1>8 DEF RoundWhole, RoundInTime, SettingsStay
  <2>2. Steered'
    BY <1>2, <1>3, <2>1 DEF Steered,
         Moved, Rested, LettersKept, ChronicleKept, DirectionsKept, SettingsStay
  <2>3. Chronicled'
    BY <1>1, <1>2, <1>3, <2>1
       DEF Chronicled, Moved, Rested, Round!TurnOf, LettersKept, ChronicleKept, DirectionsKept,
           SettingsStay
  <2>4. Counted'
    BY <1>2, <1>3, <2>1 DEF Counted, Single,
         Moved, Rested, LettersKept, ChronicleKept, DirectionsKept, SettingsStay
  <2>5. StandsStill'
    <3>1. parkedRow.turn = 0 \/ letter[parkedRow.turn] # "GENERATING"
      BY <1>1, <1>2 DEF RowPlaces, LetterPlaces, Round!Terminal, RoundTyped, HandForms
    <3> QED
      BY <1>2, <1>3, <3>1, RestedStands DEF LettersKept
  <2>6. Triggered'
    <3>1. \A l : Before(l)' = Before(l)
      BY <1>3 DEF Before, LettersKept
    <3> QED
      BY <1>1, <1>2, <1>3, <2>1, <3>1 DEF Triggered,
         Moved, Rested, LettersKept, ChronicleKept, DirectionsKept, SettingsStay
  <2> QED
    BY <2>2, <2>3, <2>4, <2>5, <2>6
<1> QED
  BY <1>4, <1>5, <1>6, <1>7, <1>8 DEF RoundWhole, RoundInv, RoundInTime

LEMMA ProjectResponseKeeps ==
  ASSUME RoundWhole, Round!ProjectResponse
  PROVE RoundWhole'
<1>1. RoundTyped /\ RowPlaces /\ LetterPlaces /\ OneLost
  BY DEF RoundWhole, RoundInv
<1>2. /\ hand.at = "project"
      /\ \/ Moved("clear") /\ hand.op = "continue"
         \/ Moved("end_round") /\ hand.op # "continue"
  BY <1>1, GotoMoves DEF Round!ProjectResponse, Places
<1>3. LettersKept /\ ChronicleKept /\ DirectionsKept /\ SettingsStay
  BY DEF Round!ProjectResponse, LettersKept, ChronicleKept, DirectionsKept, SettingsStay
<1>4. RoundTyped'
  BY <1>1, <1>2, <1>3, HandTyped DEF Moved, Rested, SettingsStay
<1>5. RowPlaces'
  BY <1>1, <1>2, <1>3 DEF RowPlaces,
         Moved, Rested, LettersKept, ChronicleKept, DirectionsKept, SettingsStay
<1>6. LetterPlaces'
  BY <1>1, <1>2, <1>3 DEF LetterPlaces, Uncommitted, Round!Terminal,
         Moved, Rested, LettersKept, ChronicleKept, DirectionsKept, SettingsStay
<1>7. OneLost'
  BY <1>1, <1>2, <1>3 DEF OneLost, Lost,
         Moved, Rested, LettersKept, ChronicleKept, DirectionsKept, SettingsStay
<1>8. ASSUME ~crashed'
      PROVE Steered' /\ Chronicled' /\ Counted' /\ StandsStill' /\ Triggered'
  <2>1. Steered /\ Chronicled /\ Counted /\ StandsStill /\ Triggered
    BY <1>3, <1>8 DEF RoundWhole, RoundInTime, SettingsStay
  <2>2. Steered'
    BY <1>2, <1>3, <2>1 DEF Steered,
         Moved, Rested, LettersKept, ChronicleKept, DirectionsKept, SettingsStay
  <2>3. Chronicled'
    BY <1>1, <1>2, <1>3, <2>1
       DEF Chronicled, Moved, Rested, Round!TurnOf, LettersKept, ChronicleKept, DirectionsKept,
           SettingsStay
  <2>4. Counted'
    BY <1>2, <1>3, <2>1 DEF Counted, Single,
         Moved, Rested, LettersKept, ChronicleKept, DirectionsKept, SettingsStay
  <2>5. StandsStill'
    <3>1. \A l : (Clear(l)' <=> Clear(l)) /\ (Going(l)' <=> Going(l))
      BY <1>3, SameClear DEF ChronicleKept
    <3>2. Round!TurnOf' = Round!TurnOf
      BY <1>2, <1>3 DEF Round!TurnOf, Moved, LettersKept
    <3> QED
      BY <1>1, <1>2, <1>3, <2>1, <3>1, <3>2
         DEF StandsStill, Waiting, Single, Moved, Rested, RowPlaces, LettersKept,
             ChronicleKept, DirectionsKept, SettingsStay
  <2>6. Triggered'
    <3>1. \A l : Before(l)' = Before(l)
      BY <1>3 DEF Before, LettersKept
    <3> QED
      BY <1>1, <1>2, <1>3, <2>1, <3>1 DEF Triggered,
         Moved, Rested, LettersKept, ChronicleKept, DirectionsKept, SettingsStay
  <2> QED
    BY <2>2, <2>3, <2>4, <2>5, <2>6
<1> QED
  BY <1>4, <1>5, <1>6, <1>7, <1>8 DEF RoundWhole, RoundInv, RoundInTime

LEMMA LetterSentKeeps ==
  ASSUME RoundWhole, Round!LetterSent
  PROVE RoundWhole'
<1>1. RoundTyped /\ RowPlaces /\ LetterPlaces /\ OneLost
  BY DEF RoundWhole, RoundInv
<1>2. hand.at = "sent" /\ Moved("adopt")
  BY <1>1, GotoMoves DEF Round!LetterSent, Places
<1>3. LettersKept /\ ChronicleKept /\ DirectionsKept /\ SettingsStay
  BY DEF Round!LetterSent, LettersKept, ChronicleKept, DirectionsKept, SettingsStay
<1>4. RoundTyped'
  BY <1>1, <1>2, <1>3, HandTyped DEF Moved, Rested, SettingsStay
<1>5. RowPlaces'
  BY <1>1, <1>2, <1>3 DEF RowPlaces,
         Moved, Rested, LettersKept, ChronicleKept, DirectionsKept, SettingsStay
<1>6. LetterPlaces'
  BY <1>1, <1>2, <1>3 DEF LetterPlaces, Uncommitted, Round!Terminal,
         Moved, Rested, LettersKept, ChronicleKept, DirectionsKept, SettingsStay
<1>7. OneLost'
  BY <1>1, <1>2, <1>3 DEF OneLost, Lost,
         Moved, Rested, LettersKept, ChronicleKept, DirectionsKept, SettingsStay
<1>8. ASSUME ~crashed'
      PROVE Steered' /\ Chronicled' /\ Counted' /\ StandsStill' /\ Triggered'
  <2>1. Steered /\ Chronicled /\ Counted /\ StandsStill /\ Triggered
    BY <1>3, <1>8 DEF RoundWhole, RoundInTime, SettingsStay
  <2>2. Steered'
    BY <1>2, <1>3, <2>1 DEF Steered,
         Moved, Rested, LettersKept, ChronicleKept, DirectionsKept, SettingsStay
  <2>3. Chronicled'
    BY <1>1, <1>2, <1>3, <2>1
       DEF Chronicled, Moved, Rested, Round!TurnOf, LettersKept, ChronicleKept, DirectionsKept,
           SettingsStay
  <2>4. Counted'
    BY <1>2, <1>3, <2>1 DEF Counted, Single,
         Moved, Rested, LettersKept, ChronicleKept, DirectionsKept, SettingsStay
  <2>5. StandsStill'
    <3>1. \A l : (Clear(l)' <=> Clear(l)) /\ (Going(l)' <=> Going(l))
      BY <1>3, SameClear DEF ChronicleKept
    <3>2. Round!TurnOf' = Round!TurnOf
      BY <1>2, <1>3 DEF Round!TurnOf, Moved, LettersKept
    <3> QED
      BY <1>1, <1>2, <1>3, <2>1, <3>1, <3>2
         DEF StandsStill, Waiting, Single, Moved, Rested, RowPlaces, LettersKept,
             ChronicleKept, DirectionsKept, SettingsStay
  <2>6. Triggered'
    <3>1. \A l : Before(l)' = Before(l)
      BY <1>3 DEF Before, LettersKept
    <3> QED
      BY <1>1, <1>2, <1>3, <2>1, <3>1 DEF Triggered,
         Moved, Rested, LettersKept, ChronicleKept, DirectionsKept, SettingsStay
  <2> QED
    BY <2>2, <2>3, <2>4, <2>5, <2>6
<1> QED
  BY <1>4, <1>5, <1>6, <1>7, <1>8 DEF RoundWhole, RoundInv, RoundInTime

LEMMA PostKeeps ==
  ASSUME RoundWhole, Round!Post
  PROVE RoundWhole'
<1>1. RoundTyped /\ RowPlaces /\ LetterPlaces /\ OneLost
  BY DEF RoundWhole, RoundInv
<1>2. /\ hand.at = "idle" /\ hand.op = "turn"
      /\ hand' \in HandForms /\ hand'.at = "supersede" /\ hand'.op = "turn"
      /\ hand'.letter = hand.letter + 1 /\ hand'.step = 0 /\ hand'.frames = 0
      /\ hand'.stop = "none" /\ hand.letter + 1 \in Round!Letters
  BY PostDoes DEF RoundWhole
<1>3. LettersKept /\ ChronicleKept /\ DirectionsKept /\ SettingsStay
  BY DEF Round!Post, LettersKept, ChronicleKept, DirectionsKept, SettingsStay
<1>0. /\ hand.letter \in Nat /\ hand.letter + 1 # 0 /\ hand.letter + 1 > hand.letter
      /\ \A l \in Round!Letters : l > hand.letter + 1 => l > hand.letter
      /\ \A n \in Nat : n <= hand.letter => n <= hand.letter + 1 /\ n < hand.letter + 1
  BY <1>1, RowsTyped DEF Round!Letters
<1>4. RoundTyped'
  BY <1>1, <1>2, <1>3, HandTyped DEF Moved, Rested, SettingsStay
<1>5. RowPlaces'
  BY <1>0, <1>1, <1>2, <1>3 DEF RowPlaces, LettersKept
<1>6. LetterPlaces'
  BY <1>0, <1>1, <1>2, <1>3 DEF LetterPlaces, LettersKept
<1>7. OneLost'
  BY <1>0, <1>1, <1>2, <1>3 DEF OneLost, Lost, LettersKept, SettingsStay
<1>8. ASSUME ~crashed'
      PROVE Steered' /\ Chronicled' /\ Counted' /\ StandsStill' /\ Triggered'
  <2>1. Steered /\ Chronicled /\ Counted /\ StandsStill /\ Triggered
    BY <1>3, <1>8 DEF RoundWhole, RoundInTime, SettingsStay
  <2>2. Steered'
    BY <1>2, <1>3, <2>1 DEF Steered,
         Moved, Rested, LettersKept, ChronicleKept, DirectionsKept, SettingsStay
  <2>3. Chronicled'
    <3>1. \A b \in 1..Len(beats) :
            beats[b].during <= hand.letter + 1 /\ beats[b].during < hand.letter + 1
      BY <1>0, <1>1, <2>1, RowsTyped DEF Chronicled
    <3>2. \A b \in 1..Len(beats) : beats[b].item # "PENDING"
      BY <1>2, <2>1 DEF Chronicled
    <3> QED
      BY <1>2, <1>3, <2>1, <3>1, <3>2 DEF Chronicled, ChronicleKept
  <2>4. Counted'
    BY <1>2, <1>3, <2>1 DEF Counted, Single,
         Moved, Rested, LettersKept, ChronicleKept, DirectionsKept, SettingsStay
  <2>5. StandsStill'
    BY <1>2 DEF StandsStill
  <2>6. Triggered'
    <3>1. \A l : Before(l)' = Before(l)
      BY <1>3 DEF Before, LettersKept
    <3>2. \A i \in 1..Len(runs) : runs[i].trigger <= hand.letter + 1
      BY <1>0, <1>1, <2>1, RowsTyped DEF Triggered
    <3> QED
      BY <1>2, <1>3, <2>1, <3>1, <3>2 DEF Triggered, LettersKept, ChronicleKept
  <2> QED
    BY <2>2, <2>3, <2>4, <2>5, <2>6
<1> QED
  BY <1>4, <1>5, <1>6, <1>7, <1>8 DEF RoundWhole, RoundInv, RoundInTime

LEMMA ContinueKeeps ==
  ASSUME RoundWhole, Round!Continue
  PROVE RoundWhole'
<1>1. RoundTyped /\ RowPlaces /\ LetterPlaces /\ OneLost
  BY DEF RoundWhole, RoundInv
<1>2. /\ hand.at = "idle" /\ parkedRow.turn # 0
      /\ hand' \in HandForms /\ hand'.op = "continue" /\ hand'.letter = hand.letter
      /\ hand'.step = hand.step /\ hand'.frames = hand.frames /\ hand'.stop = hand.stop
      /\ \/ hand'.at = "clear" /\ Round!Over(parkedRow.turn)
         \/ hand'.at = "close" /\ ~Round!Over(parkedRow.turn)
         \/ hand'.at = "answer" /\ ~Round!Over(parkedRow.turn) /\ parkedRow.phase = "reply"
         \/ /\ hand'.at = "narrate" /\ ~Round!Over(parkedRow.turn)
            /\ parkedRow.phase # "reply" /\ parkedRow.kind # "awaits"
  BY ContinueDoes DEF RoundWhole
<1>3. LettersKept /\ ChronicleKept /\ DirectionsKept /\ SettingsStay
  BY DEF Round!Continue, LettersKept, ChronicleKept, DirectionsKept, SettingsStay
<1>4. RoundTyped'
  BY <1>1, <1>2, <1>3, HandTyped DEF Moved, Rested, SettingsStay
<1>5. RowPlaces'
  BY <1>1, <1>2, <1>3 DEF RowPlaces,
         Moved, Rested, LettersKept, ChronicleKept, DirectionsKept, SettingsStay
<1>6. LetterPlaces'
  BY <1>1, <1>2, <1>3
     DEF LetterPlaces, RowPlaces, Uncommitted, Round!Over, Round!Terminal, LettersKept
<1>7. OneLost'
  BY <1>1, <1>2, <1>3 DEF OneLost, Lost, LettersKept, SettingsStay
<1>8. ASSUME ~crashed'
      PROVE Steered' /\ Chronicled' /\ Counted' /\ StandsStill' /\ Triggered'
  <2>1. Steered /\ Chronicled /\ Counted /\ StandsStill /\ Triggered
    BY <1>3, <1>8 DEF RoundWhole, RoundInTime, SettingsStay
  <2>2. Steered'
    BY <1>2, <1>3, <2>1 DEF Steered,
         Moved, Rested, LettersKept, ChronicleKept, DirectionsKept, SettingsStay
  <2>3. Chronicled'
    BY <1>1, <1>2, <1>3, <2>1
       DEF Chronicled, Moved, Rested, Round!TurnOf, LettersKept, ChronicleKept, DirectionsKept,
           SettingsStay
  <2>4. Counted'
    BY <1>2, <1>3, <2>1 DEF Counted, Single,
         Moved, Rested, LettersKept, ChronicleKept, DirectionsKept, SettingsStay
  <2>5. StandsStill'
    <3>1. \A l : (Clear(l)' <=> Clear(l)) /\ (Going(l)' <=> Going(l))
      BY <1>3, SameClear DEF ChronicleKept
    <3>2. Round!TurnOf' = parkedRow.turn
      BY <1>2, <1>3 DEF Round!TurnOf, LettersKept
    <3>3. parkedRow.turn \in Round!Letters
      BY <1>1, <1>2 DEF RoundTyped, Round!Letters
    <3>4. ~Round!Over(parkedRow.turn) => letter[parkedRow.turn] = "GENERATING"
      BY <1>1, <1>2, <3>3 DEF RoundTyped, LetterPlaces, Round!Over
    <3>5. \A l : Going(l) => Clear(l)
      BY DEF Going
    <3> QED
      BY <1>2, <1>3, <2>1, <3>1, <3>2, <3>4, <3>5 DEF StandsStill, Single, LettersKept
  <2>6. Triggered'
    <3>1. \A l : Before(l)' = Before(l)
      BY <1>3 DEF Before, LettersKept
    <3> QED
      BY <1>1, <1>2, <1>3, <2>1, <3>1 DEF Triggered,
         Moved, Rested, LettersKept, ChronicleKept, DirectionsKept, SettingsStay
  <2> QED
    BY <2>2, <2>3, <2>4, <2>5, <2>6
<1> QED
  BY <1>4, <1>5, <1>6, <1>7, <1>8 DEF RoundWhole, RoundInv, RoundInTime

\* The chain is over: what the handler does with the letter.
ChainEnds ==
  \/ hand.op = "continue" /\ hand.stop = "arrives" /\ Moved("phase")
  \/ hand.op = "continue" /\ hand.stop # "arrives" /\ Moved("rerow")
  \/ /\ hand.op = "turn" /\ mode = "directed" /\ hand.frames > 0 /\ hand.stop # "arrives"
     /\ Moved("park")
  \/ hand.op = "turn" /\ Moved("answer")

LEMMA ChainIsOver ==
  ASSUME RoundTyped, Round!Goto(Round!AfterChain(hand))
  PROVE ChainEnds
<1>1. hand.op \in {"turn", "continue"}
  BY DEF RoundTyped, HandForms
<1>2. Round!AfterChain(hand) \in Places
  BY <1>1, AfterChainPlaces DEF Places
<1>3. Moved(Round!AfterChain(hand))
  BY <1>2, GotoMoves
<1>4. CASE hand.op = "continue"
  BY <1>3, <1>4 DEF Round!AfterChain, ChainEnds
<1>5. CASE hand.op = "turn"
  BY <1>3, <1>5 DEF Round!AfterChain, Round!Directed, ChainEnds
<1> QED
  BY <1>1, <1>4, <1>5

LEMMA ChainEndsKeeps ==
  ASSUME RoundWhole, ChainEnds, hand.at \in {"narrate", "beat", "read"},
         LettersKept, ChronicleKept, DirectionsKept, SettingsStay
  PROVE RoundWhole'
<1>1. RoundTyped /\ RowPlaces /\ LetterPlaces /\ OneLost
  BY DEF RoundWhole, RoundInv
<1>2. /\ hand.at \in {"narrate", "beat", "read"}
      /\ \/ hand.op = "continue" /\ Moved("phase")
         \/ hand.op = "continue" /\ hand.stop # "arrives" /\ Moved("rerow")
         \/ /\ hand.op = "turn" /\ mode = "directed" /\ hand.frames > 0 /\ hand.stop # "arrives"
            /\ Moved("park")
         \/ hand.op = "turn" /\ Moved("answer")
  BY DEF ChainEnds
<1>3. LettersKept /\ ChronicleKept /\ DirectionsKept /\ SettingsStay
  OBVIOUS
<1>4. RoundTyped'
  BY <1>1, <1>2, <1>3, HandTyped DEF Moved, Rested, SettingsStay
<1>5. RowPlaces'
  BY <1>1, <1>2, <1>3 DEF RowPlaces,
         Moved, Rested, LettersKept, ChronicleKept, DirectionsKept, SettingsStay
<1>6. LetterPlaces'
  BY <1>1, <1>2, <1>3 DEF LetterPlaces, Uncommitted, Round!Terminal,
         Moved, Rested, LettersKept, ChronicleKept, DirectionsKept, SettingsStay
<1>7. OneLost'
  BY <1>1, <1>2, <1>3 DEF OneLost, Lost,
         Moved, Rested, LettersKept, ChronicleKept, DirectionsKept, SettingsStay
<1>8. ASSUME ~crashed'
      PROVE Steered' /\ Chronicled' /\ Counted' /\ StandsStill' /\ Triggered'
  <2>1. Steered /\ Chronicled /\ Counted /\ StandsStill /\ Triggered
    BY <1>3, <1>8 DEF RoundWhole, RoundInTime, SettingsStay
  <2>2. Steered'
    BY <1>2, <1>3, <2>1 DEF Steered,
         Moved, Rested, LettersKept, ChronicleKept, DirectionsKept, SettingsStay
  <2>3. Chronicled'
    BY <1>1, <1>2, <1>3, <2>1
       DEF Chronicled, Moved, Rested, Round!TurnOf, LettersKept, ChronicleKept, DirectionsKept,
           SettingsStay
  <2>4. Counted'
    BY <1>2, <1>3, <2>1 DEF Counted, Single,
         Moved, Rested, LettersKept, ChronicleKept, DirectionsKept, SettingsStay
  <2>5. StandsStill'
    <3>1. \A l : (Clear(l)' <=> Clear(l)) /\ (Going(l)' <=> Going(l))
      BY <1>3, SameClear DEF ChronicleKept
    <3>2. Round!TurnOf' = Round!TurnOf
      BY <1>2, <1>3 DEF Round!TurnOf, Moved, LettersKept
    <3>3. hand.at # "read" /\ Single => hand.frames = 0
      BY <1>2, <2>1 DEF Counted
    <3>4. ASSUME Single, hand.stop \notin {"arrives", "awaits"},
                 hand.op = "continue" \/ hand.at = "read"
          PROVE Going(Round!TurnOf)
      <4>1. CASE hand.at = "narrate"
        BY <2>1, <3>4, <4>1 DEF StandsStill
      <4>2. CASE hand.at = "beat"
        BY <1>1, <2>1, <3>4, <4>2 DEF StandsStill, Going, RowPlaces
      <4>3. CASE hand.at = "read"
        BY <2>1, <3>4, <4>3 DEF StandsStill, Round!TerminalStops
      <4> QED
        BY <1>2, <4>1, <4>2, <4>3
    <3>5. CASE hand.op = "continue"
      BY <1>2, <1>3, <3>1, <3>2, <3>4, <3>5 DEF StandsStill, Waiting, Single, Moved
    <3>6. CASE hand.op = "turn" /\ Moved("answer")
      BY <3>6 DEF StandsStill, Moved
    <3>7. CASE /\ hand.op = "turn" /\ mode = "directed" /\ hand.frames > 0 /\ hand.stop # "arrives"
               /\ Moved("park")
      <4>1. hand.frames # 0
        BY <1>1, <3>7 DEF RoundTyped, HandForms
      <4>2. Single /\ hand.at = "read"
        BY <1>2, <3>3, <3>7, <4>1 DEF Single
      <4> QED
        BY <3>1, <3>2, <3>4, <3>7, <4>2 DEF StandsStill, Waiting, Moved
    <3> QED
      BY <1>2, <3>5, <3>6, <3>7
  <2>6. Triggered'
    <3>1. \A l : Before(l)' = Before(l)
      BY <1>3 DEF Before, LettersKept
    <3> QED
      BY <1>1, <1>2, <1>3, <2>1, <3>1 DEF Triggered,
         Moved, Rested, LettersKept, ChronicleKept, DirectionsKept, SettingsStay
  <2> QED
    BY <2>2, <2>3, <2>4, <2>5, <2>6
<1> QED
  BY <1>4, <1>5, <1>6, <1>7, <1>8 DEF RoundWhole, RoundInv, RoundInTime

LEMMA WindsUpKeeps ==
  ASSUME RoundWhole, LettersKept, ChronicleKept, DirectionsKept, SettingsStay,
         hand.at = "narrate", hand' \in HandForms, hand'.at = "wind", hand'.op = hand.op,
         hand'.letter = hand.letter, hand'.step = hand.step + 1,
         hand'.frames = hand.frames, hand'.stop = hand.stop,
         hand'.from = Len(beats)
  PROVE RoundWhole'
<1>1. RoundTyped /\ RowPlaces /\ LetterPlaces /\ OneLost
  BY DEF RoundWhole, RoundInv
<1>2. /\ hand.at = "narrate" /\ hand' \in HandForms /\ hand'.at = "wind" /\ hand'.op = hand.op
      /\ hand'.letter = hand.letter /\ hand'.step = hand.step + 1
      /\ hand'.frames = hand.frames /\ hand'.stop = hand.stop
      /\ hand'.from = Len(beats)
  OBVIOUS
<1>3. LettersKept /\ ChronicleKept /\ DirectionsKept /\ SettingsStay
  OBVIOUS
<1>4. RoundTyped'
  BY <1>1, <1>2, <1>3, HandTyped DEF Moved, Rested, SettingsStay
<1>5. RowPlaces'
  BY <1>1, <1>2, <1>3 DEF RowPlaces,
         Moved, Rested, LettersKept, ChronicleKept, DirectionsKept, SettingsStay
<1>6. LetterPlaces'
  BY <1>1, <1>2, <1>3 DEF LetterPlaces, Uncommitted, Round!Terminal,
         Moved, Rested, LettersKept, ChronicleKept, DirectionsKept, SettingsStay
<1>7. OneLost'
  BY <1>1, <1>2, <1>3 DEF OneLost, Lost,
         Moved, Rested, LettersKept, ChronicleKept, DirectionsKept, SettingsStay
<1>8. ASSUME ~crashed'
      PROVE Steered' /\ Chronicled' /\ Counted' /\ StandsStill' /\ Triggered'
  <2>1. Steered /\ Chronicled /\ Counted /\ StandsStill /\ Triggered
    BY <1>3, <1>8 DEF RoundWhole, RoundInTime, SettingsStay
  <2>0. hand.step + 1 # 0 /\ (hand.step = 0 => hand.step + 1 = 1)
    BY <1>1 DEF RoundTyped, HandForms
  <2>2. Steered'
    BY <1>2, <1>3, <2>1 DEF Steered,
         Moved, Rested, LettersKept, ChronicleKept, DirectionsKept, SettingsStay
  <2>3. Chronicled'
    BY <1>1, <1>2, <1>3, <2>1
       DEF Chronicled, Moved, Rested, Round!TurnOf, LettersKept, ChronicleKept, DirectionsKept,
           SettingsStay
  <2>4. Counted'
    BY <1>2, <1>3, <2>0, <2>1 DEF Counted, Single, ChronicleKept, SettingsStay
  <2>5. StandsStill'
    <3>1. \A l : (Clear(l)' <=> Clear(l)) /\ (Going(l)' <=> Going(l))
      BY <1>3, SameClear DEF ChronicleKept
    <3>2. Round!TurnOf' = Round!TurnOf
      BY <1>2, <1>3 DEF Round!TurnOf, Moved, LettersKept
    <3> QED
      BY <1>1, <1>2, <1>3, <2>1, <3>1, <3>2
         DEF StandsStill, Waiting, Single, Moved, Rested, RowPlaces, LettersKept,
             ChronicleKept, DirectionsKept, SettingsStay
  <2>6. Triggered'
    <3>1. \A l : Before(l)' = Before(l)
      BY <1>3 DEF Before, LettersKept
    <3> QED
      BY <1>1, <1>2, <1>3, <2>1, <3>1 DEF Triggered,
         Moved, Rested, LettersKept, ChronicleKept, DirectionsKept, SettingsStay
  <2> QED
    BY <2>2, <2>3, <2>4, <2>5, <2>6
<1> QED
  BY <1>4, <1>5, <1>6, <1>7, <1>8 DEF RoundWhole, RoundInv, RoundInTime

LEMMA NarrateKeeps ==
  ASSUME RoundWhole, Round!Narrate
  PROVE RoundWhole'
<1>1. LettersKept /\ ChronicleKept /\ DirectionsKept /\ SettingsStay /\ hand.at = "narrate"
  BY DEF Round!Narrate, LettersKept, ChronicleKept, DirectionsKept, SettingsStay
<1>2. CASE Moved(Round!AfterChain(hand))
  <2>1. hand.op \in {"turn", "continue"}
    BY DEF RoundWhole, RoundInv, RoundTyped, HandForms
  <2>2. ChainEnds
    <3>1. CASE hand.op = "continue"
      BY <1>2, <3>1 DEF Round!AfterChain, ChainEnds
    <3>2. CASE hand.op = "turn"
      BY <1>2, <3>2 DEF Round!AfterChain, Round!Directed, ChainEnds
    <3> QED
      BY <2>1, <3>1, <3>2
  <2> QED
    BY <1>1, <2>2, ChainEndsKeeps
<1> QED
  BY <1>1, <1>2, NarrateDoes, WindsUpKeeps DEF RoundWhole

LEMMA NextStepGoesOn ==
  ASSUME RoundWhole, Round!NextStep, ~Round!Arrived, hand.step # Round!Limit
  PROVE RoundWhole'
<1>1. RoundTyped /\ RowPlaces /\ LetterPlaces /\ OneLost
  BY DEF RoundWhole, RoundInv
<1>2. hand.at = "read" /\ Moved("narrate")
  BY <1>1, GotoMoves DEF Round!NextStep, Places
<1>3. LettersKept /\ ChronicleKept /\ DirectionsKept /\ SettingsStay
  BY DEF Round!NextStep, LettersKept, ChronicleKept, DirectionsKept, SettingsStay
<1>4. RoundTyped'
  BY <1>1, <1>2, <1>3, HandTyped DEF Moved, SettingsStay
<1>5. RowPlaces'
  BY <1>1, <1>2, <1>3 DEF RowPlaces, Moved, LettersKept, ChronicleKept
<1>6. LetterPlaces'
  BY <1>1, <1>2, <1>3 DEF LetterPlaces, Uncommitted, Moved, LettersKept
<1>7. OneLost'
  BY <1>1, <1>2, <1>3 DEF OneLost, Lost, Moved, LettersKept, SettingsStay
<1>8. ASSUME ~crashed'
      PROVE Steered' /\ Chronicled' /\ Counted' /\ StandsStill' /\ Triggered'
  <2>1. Steered /\ Chronicled /\ Counted /\ StandsStill /\ Triggered
    BY <1>3, <1>8 DEF RoundWhole, RoundInTime, SettingsStay
  <2>0. ~Single /\ ~Single' /\ hand.step # 0
    <3>1. Single => Round!Limit = 1
      BY DEF Single, Round!Limit, Round!Directed
    <3>2. ~Single
      BY <1>2, <2>1, <3>1 DEF Counted
    <3> QED
      BY <1>2, <1>3, <2>1, <3>2 DEF Single, Moved, SettingsStay, Counted
  <2>2. Steered'
    BY <1>2, <1>3, <2>1 DEF Steered, Moved, DirectionsKept
  <2>3. Chronicled'
    BY <1>2, <1>3, <2>0, <2>1 DEF Chronicled, Moved, ChronicleKept
  <2>4. Counted'
    BY <1>2, <1>3, <2>0, <2>1 DEF Counted, Moved, ChronicleKept
  <2>5. StandsStill'
    BY <1>2, <2>0 DEF StandsStill, Moved, Single
  <2>6. Triggered'
    <3>1. \A l : Before(l)' = Before(l)
      BY <1>3 DEF Before, LettersKept
    <3> QED
      BY <1>2, <1>3, <2>1, <3>1 DEF Triggered, Moved, LettersKept, ChronicleKept
  <2> QED
    BY <2>2, <2>3, <2>4, <2>5, <2>6
<1> QED
  BY <1>4, <1>5, <1>6, <1>7, <1>8 DEF RoundWhole, RoundInv, RoundInTime

LEMMA NextStepKeeps ==
  ASSUME RoundWhole, Round!NextStep
  PROVE RoundWhole'
<1>1. LettersKept /\ ChronicleKept /\ DirectionsKept /\ SettingsStay /\ hand.at = "read"
  BY DEF Round!NextStep, LettersKept, ChronicleKept, DirectionsKept, SettingsStay
<1>2. CASE Round!Arrived \/ hand.step = Round!Limit
  <2>1. Round!Goto(Round!AfterChain(hand))
    BY <1>2 DEF Round!NextStep
  <2>2. ChainEnds
    BY <2>1, ChainIsOver DEF RoundWhole, RoundInv
  <2> QED
    BY <1>1, <2>2, ChainEndsKeeps
<1> QED
  BY <1>2, NextStepGoesOn

\* A present letter is closed, or stays as it ended.
Closing(t) ==
  /\ letter' \in [Round!Letters -> {"ABSENT", "GENERATING"} \cup Round!Terminal]
  /\ letter'[t] \in Round!Terminal
  /\ \A k \in Round!Letters : k # t => letter'[k] = letter[k]
  /\ \A k \in Round!Letters : letter'[k] # "ABSENT" <=> letter[k] # "ABSENT"

LEMMA ClosedDoes ==
  ASSUME RoundTyped, LetterPlaces, parkedRow.turn # 0, letter' = Round!Closed(parkedRow.turn)
  PROVE Closing(parkedRow.turn) /\ parkedRow.turn \in Round!Letters
<1>1. parkedRow.turn \in Round!Letters
  BY RowsTyped DEF Round!Letters
<1>2. /\ letter \in [Round!Letters -> {"ABSENT", "GENERATING"} \cup Round!Terminal]
      /\ letter[parkedRow.turn] # "ABSENT"
  BY DEF RoundTyped, LetterPlaces
<1>3. "CLOSED" \in Round!Terminal /\ "CLOSED" # "ABSENT" /\ "ABSENT" \notin Round!Terminal
  BY DEF Round!Terminal
<1>4. CASE letter[parkedRow.turn] \in Round!Terminal
  BY <1>1, <1>2, <1>3, <1>4 DEF Closing, Round!Closed, Round!Over
<1>5. CASE letter[parkedRow.turn] \notin Round!Terminal
  BY <1>1, <1>2, <1>3, <1>5 DEF Closing, Round!Closed, Round!Over
<1> QED
  BY <1>1, <1>4, <1>5

LEMMA SupersedeClearKeeps ==
  ASSUME RoundWhole, Round!Supersede, parkedRow = Round!NoRow
  PROVE RoundWhole'
<1>1. RoundTyped /\ RowPlaces /\ LetterPlaces /\ OneLost
  BY DEF RoundWhole, RoundInv
<1>2. hand.at = "supersede" /\ Moved("narrate") /\ parkedRow.turn = 0
  BY <1>1, GotoMoves DEF Round!Supersede, Places, RowPlaces
<1>3. LettersKept /\ ChronicleKept /\ DirectionsKept /\ SettingsStay
  BY DEF Round!Supersede, LettersKept, ChronicleKept, DirectionsKept, SettingsStay
<1>4. RoundTyped'
  BY <1>1, <1>2, <1>3, HandTyped DEF Moved, Rested, SettingsStay
<1>5. RowPlaces'
  BY <1>1, <1>2, <1>3 DEF RowPlaces,
         Moved, Rested, LettersKept, ChronicleKept, DirectionsKept, SettingsStay
<1>6. LetterPlaces'
  BY <1>1, <1>2, <1>3 DEF LetterPlaces, Uncommitted, Round!Terminal,
         Moved, Rested, LettersKept, ChronicleKept, DirectionsKept, SettingsStay
<1>7. OneLost'
  BY <1>1, <1>2, <1>3 DEF OneLost, Lost,
         Moved, Rested, LettersKept, ChronicleKept, DirectionsKept, SettingsStay
<1>8. ASSUME ~crashed'
      PROVE Steered' /\ Chronicled' /\ Counted' /\ StandsStill' /\ Triggered'
  <2>1. Steered /\ Chronicled /\ Counted /\ StandsStill /\ Triggered
    BY <1>3, <1>8 DEF RoundWhole, RoundInTime, SettingsStay
  <2>2. Steered'
    BY <1>2, <1>3, <2>1 DEF Steered,
         Moved, Rested, LettersKept, ChronicleKept, DirectionsKept, SettingsStay
  <2>3. Chronicled'
    BY <1>1, <1>2, <1>3, <2>1
       DEF Chronicled, Moved, Rested, Round!TurnOf, LettersKept, ChronicleKept, DirectionsKept,
           SettingsStay
  <2>4. Counted'
    BY <1>2, <1>3, <2>1 DEF Counted, Single,
         Moved, Rested, LettersKept, ChronicleKept, DirectionsKept, SettingsStay
  <2>5. StandsStill'
    <3>1. \A b \in 1..Len(beats) : beats[b].during < hand.letter /\ beats[b].during # hand.letter
      BY <1>1, <1>2, <2>1, RowsTyped DEF Chronicled, RowPlaces
    <3>2. Clear(hand.letter)'
      BY <1>2, <1>3, <3>1 DEF Clear, Moved, ChronicleKept
    <3>3. hand'.op = "turn" /\ hand'.letter = hand.letter /\ hand'.at = "narrate"
      BY <1>1, <1>2 DEF Moved, RowPlaces
    <3>4. Round!TurnOf' = hand.letter
      BY <3>3 DEF Round!TurnOf
    <3> QED
      BY <3>2, <3>3, <3>4 DEF StandsStill, Single
  <2>6. Triggered'
    <3>1. \A l : Before(l)' = Before(l)
      BY <1>3 DEF Before, LettersKept
    <3> QED
      BY <1>1, <1>2, <1>3, <2>1, <3>1 DEF Triggered,
         Moved, Rested, LettersKept, ChronicleKept, DirectionsKept, SettingsStay
  <2> QED
    BY <2>2, <2>3, <2>4, <2>5, <2>6
<1> QED
  BY <1>4, <1>5, <1>6, <1>7, <1>8 DEF RoundWhole, RoundInv, RoundInTime

LEMMA SupersedeOpenKeeps ==
  ASSUME RoundWhole, Round!Supersede, parkedRow # Round!NoRow
  PROVE RoundWhole'
<1>1. RoundTyped /\ RowPlaces /\ LetterPlaces /\ OneLost
  BY DEF RoundWhole, RoundInv
<1>2. /\ hand.at = "supersede" /\ Moved("unpark") /\ parkedRow.turn # 0 /\ parkedRow' = parkedRow
      /\ letter' = Round!Closed(parkedRow.turn) /\ hand.op = "turn"
  BY <1>1, GotoMoves DEF Round!Supersede, Places, RowPlaces
<1>3. ChronicleKept /\ DirectionsKept /\ SettingsStay
  BY DEF Round!Supersede, ChronicleKept, DirectionsKept, SettingsStay
<1>0. Closing(parkedRow.turn) /\ parkedRow.turn \in Round!Letters
  BY <1>1, <1>2, ClosedDoes
<1>4. RoundTyped'
  BY <1>0, <1>1, <1>2, <1>3
     DEF RoundTyped, Closing, Moved, ChronicleKept, DirectionsKept, SettingsStay
<1>5. RowPlaces'
  BY <1>1, <1>2, <1>3 DEF RowPlaces, Moved, Rested, ChronicleKept, DirectionsKept, SettingsStay
<1>6. LetterPlaces'
  <2>1. \A l \in Round!Letters : letter[l] = "ABSENT" => letter'[l] = "ABSENT"
    BY <1>0 DEF Closing
  <2>2. hand.letter \in Round!Letters /\ letter[hand.letter] = "ABSENT"
    BY <1>1, <1>2, RowsTyped DEF RowPlaces, LetterPlaces, Uncommitted, Round!Letters
  <2>3. letter'[parkedRow.turn] \notin {"ABSENT", "GENERATING"}
    BY <1>0 DEF Closing, Round!Terminal
  <2> QED
    BY <1>1, <1>2, <2>1, <2>2, <2>3 DEF LetterPlaces, Moved
<1>7. OneLost'
  BY <1>0, <1>1, <1>2, <1>3 DEF OneLost, Lost, Closing, Moved, SettingsStay
<1>8. ASSUME ~crashed'
      PROVE Steered' /\ Chronicled' /\ Counted' /\ StandsStill' /\ Triggered'
  <2>1. Steered /\ Chronicled /\ Counted /\ StandsStill /\ Triggered
    BY <1>3, <1>8 DEF RoundWhole, RoundInTime, SettingsStay
  <2>2. Steered'
    BY <1>2, <1>3, <2>1 DEF Steered, Moved, Rested, ChronicleKept, DirectionsKept, SettingsStay
  <2>3. Chronicled'
    BY <1>1, <1>2, <1>3, <2>1 DEF Chronicled, Moved, ChronicleKept
  <2>4. Counted'
    BY <1>2, <1>3, <2>1
       DEF Counted, Single, Moved, Rested, ChronicleKept, DirectionsKept, SettingsStay
  <2>5. StandsStill'
    BY <1>2 DEF StandsStill, Moved
  <2>6. Triggered'
    <3>1. \A b \in 1..Len(beats) :
            letter'[beats[b].during] # "ABSENT" <=> letter[beats[b].during] # "ABSENT"
      <4>1. \A b \in 1..Len(beats) : beats[b].during \in Round!Letters
        BY <1>1, <2>1, RowsTyped DEF Triggered, Round!Letters
      <4> QED
        BY <1>0, <4>1 DEF Closing
    <3>2. \A l : Before(l)' = Before(l)
      BY <1>0 DEF Before, Closing
    <3> QED
      BY <1>1, <1>2, <1>3, <2>1, <3>1, <3>2 DEF Triggered, Moved, ChronicleKept
  <2> QED
    BY <2>2, <2>3, <2>4, <2>5, <2>6
<1> QED
  BY <1>4, <1>5, <1>6, <1>7, <1>8 DEF RoundWhole, RoundInv, RoundInTime

LEMMA SupersedeKeeps ==
  ASSUME RoundWhole, Round!Supersede
  PROVE RoundWhole'
  BY SupersedeClearKeeps, SupersedeOpenKeeps

LEMMA UnparkKeeps ==
  ASSUME RoundWhole, Round!Unpark
  PROVE RoundWhole'
<1>1. RoundTyped /\ RowPlaces /\ LetterPlaces /\ OneLost
  BY DEF RoundWhole, RoundInv
<1>2. /\ hand.at = "unpark" /\ Moved("narrate") /\ parkedRow' = Round!NoRow /\ letter' = letter
      /\ hand.op = "turn" /\ parkedRow'.turn = 0
  BY <1>1, GotoMoves DEF Round!Unpark, Places, RowPlaces, Round!NoRow
<1>3. ChronicleKept /\ DirectionsKept /\ SettingsStay
  BY DEF Round!Unpark, LettersKept, ChronicleKept, DirectionsKept, SettingsStay
<1>0. Round!NoRow \in [turn : 0..MaxLetters, stops : Nat, phase : {"world", "reply"},
                        kind : Round!Stops]
  BY LettersAssumption DEF Round!NoRow, Round!Stops
<1>4. RoundTyped'
  BY <1>0, <1>1, <1>2, <1>3
     DEF RoundTyped, Moved, ChronicleKept, DirectionsKept, SettingsStay
<1>5. RowPlaces'
  BY <1>1, <1>2, <1>3 DEF RowPlaces, Moved, Rested, ChronicleKept, DirectionsKept, SettingsStay
<1>6. LetterPlaces'
  BY <1>1, <1>2, <1>3
     DEF LetterPlaces, Uncommitted, Round!Terminal, Moved, Rested, ChronicleKept,
         DirectionsKept, SettingsStay
<1>7. OneLost'
  BY <1>1, <1>2, <1>3 DEF OneLost, Lost, LetterPlaces, Moved, SettingsStay
<1>8. ASSUME ~crashed'
      PROVE Steered' /\ Chronicled' /\ Counted' /\ StandsStill' /\ Triggered'
  <2>1. Steered /\ Chronicled /\ Counted /\ StandsStill /\ Triggered
    BY <1>3, <1>8 DEF RoundWhole, RoundInTime, SettingsStay
  <2>2. Steered'
    BY <1>2, <1>3, <2>1 DEF Steered, Moved, Rested, ChronicleKept, DirectionsKept, SettingsStay
  <2>3. Chronicled'
    BY <1>1, <1>2, <1>3, <2>1
       DEF Chronicled, Moved, Rested, Round!TurnOf, ChronicleKept, DirectionsKept, SettingsStay
  <2>4. Counted'
    BY <1>2, <1>3, <2>1
       DEF Counted, Single, Moved, Rested, ChronicleKept, DirectionsKept, SettingsStay
  <2>5. StandsStill'
    <3>1. \A b \in 1..Len(beats) : beats[b].during < hand.letter /\ beats[b].during # hand.letter
      BY <1>1, <1>2, <2>1, RowsTyped DEF Chronicled
    <3>2. Clear(hand.letter)'
      BY <1>2, <1>3, <3>1 DEF Clear, Moved, ChronicleKept
    <3>3. hand'.op = "turn" /\ hand'.letter = hand.letter /\ hand'.at = "narrate"
      BY <1>2 DEF Moved
    <3>4. Round!TurnOf' = hand.letter
      BY <3>3 DEF Round!TurnOf
    <3> QED
      BY <3>2, <3>3, <3>4 DEF StandsStill, Single
  <2>6. Triggered'
    <3>1. \A l : Before(l)' = Before(l)
      BY <1>2 DEF Before
    <3> QED
      BY <1>1, <1>2, <1>3, <2>1, <3>1 DEF Triggered, Moved, ChronicleKept
  <2> QED
    BY <2>2, <2>3, <2>4, <2>5, <2>6
<1> QED
  BY <1>4, <1>5, <1>6, <1>7, <1>8 DEF RoundWhole, RoundInv, RoundInTime

LEMMA SaveDirectionKeeps ==
  ASSUME RoundWhole, Round!SaveDirection
  PROVE RoundWhole'
<1>1. RoundTyped /\ RowPlaces /\ LetterPlaces /\ OneLost
  BY DEF RoundWhole, RoundInv
<1>2. /\ hand.at = "idle" /\ hand' = hand
      /\ \/ choices' = choices + 1 /\ direction' = choices + 1
         \/ direction' = 0 /\ choices' = choices
      /\ chosen' = chosen
  BY DEF Round!SaveDirection
<1>3. LettersKept /\ ChronicleKept /\ SettingsStay
  BY DEF Round!SaveDirection, LettersKept, ChronicleKept, DirectionsKept, SettingsStay
<1>0. choices \in Nat /\ choices + 1 \in Nat /\ direction \in Nat
  BY <1>1 DEF RoundTyped
<1>4. RoundTyped'
  BY <1>0, <1>1, <1>2, <1>3 DEF RoundTyped, LettersKept, ChronicleKept, SettingsStay
<1>5. RowPlaces'
  BY <1>1, <1>2, <1>3 DEF RowPlaces, Moved, Rested, LettersKept, ChronicleKept, SettingsStay
<1>6. LetterPlaces'
  BY <1>1, <1>2, <1>3
     DEF LetterPlaces, Uncommitted, Round!Terminal, Moved, Rested, LettersKept, ChronicleKept,
         SettingsStay
<1>7. OneLost'
  BY <1>1, <1>2, <1>3 DEF OneLost, Lost, Moved, Rested, LettersKept, ChronicleKept, SettingsStay
<1>8. ASSUME ~crashed'
      PROVE Steered' /\ Chronicled' /\ Counted' /\ StandsStill' /\ Triggered'
  <2>1. Steered /\ Chronicled /\ Counted /\ StandsStill /\ Triggered
    BY <1>3, <1>8 DEF RoundWhole, RoundInTime, SettingsStay
  <2>2. Steered'
    <3>1. \A i \in 1..Len(chosen) :
            chosen[i] <= choices /\ chosen[i] <= choices + 1 /\ chosen[i] # choices + 1
      BY <1>0, <1>1, <2>1, RowsTyped DEF Steered
    <3>2. 0 <= choices /\ choices + 1 <= choices + 1
      BY <1>0
    <3> QED
      BY <1>0, <1>2, <2>1, <3>1, <3>2 DEF Steered
  <2>3. Chronicled'
    BY <1>1, <1>2, <1>3, <2>1
       DEF Chronicled, Moved, Rested, Round!TurnOf, LettersKept, ChronicleKept, SettingsStay
  <2>4. Counted'
    BY <1>2, <1>3, <2>1 DEF Counted, Single, Moved, Rested, LettersKept, ChronicleKept, SettingsStay
  <2>5. StandsStill'
    <3>1. \A l : (Clear(l)' <=> Clear(l)) /\ (Going(l)' <=> Going(l))
      BY <1>3, SameClear DEF ChronicleKept
    <3> QED
      BY <1>2, <1>3, <2>1, <3>1 DEF StandsStill, LettersKept
  <2>6. Triggered'
    <3>1. \A l : Before(l)' = Before(l)
      BY <1>3 DEF Before, LettersKept
    <3> QED
      BY <1>1, <1>2, <1>3, <2>1, <3>1
         DEF Triggered, Moved, Rested, LettersKept, ChronicleKept, SettingsStay
  <2> QED
    BY <2>2, <2>3, <2>4, <2>5, <2>6
<1> QED
  BY <1>4, <1>5, <1>6, <1>7, <1>8 DEF RoundWhole, RoundInv, RoundInTime

LEMMA SaveModeKeeps ==
  ASSUME RoundWhole, Round!SaveMode
  PROVE RoundWhole'
<1>1. RoundTyped /\ RowPlaces /\ LetterPlaces /\ OneLost
  BY DEF RoundWhole, RoundInv
<1>2. hand.at = "idle" /\ hand' = hand /\ crashed' = crashed
  BY DEF Round!SaveMode
<1>3. LettersKept /\ ChronicleKept /\ DirectionsKept /\ crashed' = crashed
  BY DEF Round!SaveMode, LettersKept, ChronicleKept, DirectionsKept, SettingsStay
<1>4. RoundTyped'
  BY <1>1, <1>2, <1>3, HandTyped DEF RoundTyped
<1>5. RowPlaces'
  BY <1>1, <1>2, <1>3 DEF RowPlaces, Moved, Rested, LettersKept, ChronicleKept, DirectionsKept
<1>6. LetterPlaces'
  BY <1>1, <1>2, <1>3
     DEF LetterPlaces, Uncommitted, Round!Terminal, Moved, Rested, LettersKept, ChronicleKept,
         DirectionsKept
<1>7. OneLost'
  BY <1>1, <1>2, <1>3 DEF OneLost, Lost, Moved, Rested, LettersKept, ChronicleKept, DirectionsKept
<1>8. ASSUME ~crashed'
      PROVE Steered' /\ Chronicled' /\ Counted' /\ StandsStill' /\ Triggered'
  <2>1. Steered /\ Chronicled /\ Counted /\ StandsStill /\ Triggered
    BY <1>3, <1>8 DEF RoundWhole, RoundInTime, SettingsStay
  <2>2. Steered'
    BY <1>2, <1>3, <2>1 DEF Steered, Moved, Rested, LettersKept, ChronicleKept, DirectionsKept
  <2>3. Chronicled'
    BY <1>1, <1>2, <1>3, <2>1
       DEF Chronicled, Moved, Rested, Round!TurnOf, LettersKept, ChronicleKept, DirectionsKept
  <2>4. Counted'
    BY <1>2, <1>3, <2>1
       DEF Counted, Single, Moved, Rested, LettersKept, ChronicleKept, DirectionsKept
  <2>5. StandsStill'
    <3>1. \A l : (Clear(l)' <=> Clear(l)) /\ (Going(l)' <=> Going(l))
      BY <1>3, SameClear DEF ChronicleKept
    <3> QED
      BY <1>2, <1>3, <2>1, <3>1 DEF StandsStill, LettersKept
  <2>6. Triggered'
    <3>1. \A l : Before(l)' = Before(l)
      BY <1>3 DEF Before, LettersKept
    <3> QED
      BY <1>1, <1>2, <1>3, <2>1, <3>1
         DEF Triggered, Moved, Rested, LettersKept, ChronicleKept, DirectionsKept
  <2> QED
    BY <2>2, <2>3, <2>4, <2>5, <2>6
<1> QED
  BY <1>4, <1>5, <1>6, <1>7, <1>8 DEF RoundWhole, RoundInv, RoundInTime

LEMMA InboxKeeps ==
  ASSUME RoundWhole, Round!Inbox
  PROVE RoundWhole'
<1>1. RoundTyped /\ RowPlaces /\ LetterPlaces /\ OneLost
  BY DEF RoundWhole, RoundInv
<1>2. /\ hand.at = "idle" /\ hand' = hand /\ runs' = runs /\ Round!Revealed # beats
      /\ beats' = Round!Revealed
  BY DEF Round!Inbox
<1>3. LettersKept /\ DirectionsKept /\ SettingsStay
  BY DEF Round!Inbox, LettersKept, ChronicleKept, DirectionsKept, SettingsStay
<1>4. RoundTyped'
  BY <1>1, <1>2, <1>3, RevealedDoes
     DEF RoundTyped, SameBeats, LettersKept, DirectionsKept, SettingsStay
<1>5. RowPlaces'
  BY <1>1, <1>2, <1>3 DEF RowPlaces, Moved, Rested, LettersKept, DirectionsKept, SettingsStay
<1>6. LetterPlaces'
  BY <1>1, <1>2, <1>3
     DEF LetterPlaces, Uncommitted, Round!Terminal, Moved, Rested, LettersKept, DirectionsKept,
         SettingsStay
<1>7. OneLost'
  BY <1>1, <1>2, <1>3 DEF OneLost, Lost, Moved, Rested, LettersKept, DirectionsKept, SettingsStay
<1>8. ASSUME ~crashed'
      PROVE Steered' /\ Chronicled' /\ Counted' /\ StandsStill' /\ Triggered'
  <2>1. Steered /\ Chronicled /\ Counted /\ StandsStill /\ Triggered
    BY <1>3, <1>8 DEF RoundWhole, RoundInTime, SettingsStay
  <2>0. FALSE
    <3>1. \A b \in 1..Len(beats) : beats[b].item # "PENDING"
      BY <1>2, <2>1 DEF Chronicled
    <3>2. /\ Round!Revealed \in Seq(BeatForms) /\ Len(Round!Revealed) = Len(beats)
          /\ \A b \in 1..Len(beats) : Round!Revealed[b] = beats[b]
      BY <1>1, <3>1, RevealedDoes DEF SameBeats
    <3>3. beats \in Seq(BeatForms)
      BY <1>1 DEF RoundTyped
    <3>4. Round!Revealed = beats
      BY <3>2, <3>3, SeqEqual
    <3> QED
      BY <1>2, <3>4
  <2>2. Steered'
    BY <2>0
  <2>3. Chronicled'
    BY <2>0
  <2>4. Counted'
    BY <2>0
  <2>5. StandsStill'
    BY <2>0
  <2>6. Triggered'
    BY <2>0
  <2> QED
    BY <2>2, <2>3, <2>4, <2>5, <2>6
<1> QED
  BY <1>4, <1>5, <1>6, <1>7, <1>8 DEF RoundWhole, RoundInv, RoundInTime

LEMMA CrashKeeps ==
  ASSUME RoundWhole, Round!Crash
  PROVE RoundWhole'
<1>1. RoundTyped /\ RowPlaces /\ LetterPlaces /\ OneLost
  BY DEF RoundWhole, RoundInv
<1>2. ~crashed /\ crashed' /\ Rested
  BY <1>1, DoneRests DEF Round!Crash
<1>3. LettersKept /\ ChronicleKept /\ DirectionsKept
  BY DEF Round!Crash, LettersKept, ChronicleKept, DirectionsKept, SettingsStay
<1>4. RoundTyped'
  BY <1>1, <1>2, <1>3 DEF RoundTyped, Rested, LettersKept, ChronicleKept, DirectionsKept
<1>5. RowPlaces'
  BY <1>1, <1>2, <1>3 DEF RowPlaces, Moved, Rested, LettersKept, ChronicleKept, DirectionsKept
<1>6. LetterPlaces'
  BY <1>1, <1>2, <1>3
     DEF LetterPlaces, Uncommitted, Round!Terminal, Moved, Rested, LettersKept, ChronicleKept,
         DirectionsKept
<1>7. OneLost'
  <2>1. \A l \in Round!Letters : ~Lost(l)
    BY <1>1, <1>2 DEF OneLost
  <2>2. \A l \in Round!Letters : Lost(l)' => l = hand.letter
    BY <1>2, <1>3, <2>1 DEF Lost, Rested, LettersKept
  <2> QED
    BY <1>2, <2>2 DEF OneLost
<1>8. RoundInTime'
  BY <1>2, <1>3 DEF RoundInTime
<1> QED
  BY <1>4, <1>5, <1>6, <1>7, <1>8 DEF RoundWhole, RoundInv, RoundInTime

LEMMA NoteDirectionKeeps ==
  ASSUME RoundWhole, Round!NoteDirection
  PROVE RoundWhole'
<1>1. RoundTyped /\ RowPlaces /\ LetterPlaces /\ OneLost
  BY DEF RoundWhole, RoundInv
<1>2. /\ hand.at = "note" /\ Moved("drop") /\ direction' = direction /\ choices' = choices
      /\ chosen' = Append(chosen, direction)
  BY <1>1, GotoMoves DEF Round!NoteDirection, Round!Noted, Places
<1>3. LettersKept /\ ChronicleKept /\ SettingsStay
  BY DEF Round!NoteDirection, LettersKept, ChronicleKept, DirectionsKept, SettingsStay
<1>0. /\ chosen' \in Seq(Nat) /\ Len(chosen') = Len(chosen) + 1 /\ Len(chosen) \in Nat
      /\ \A i \in 1..Len(chosen) : chosen'[i] = chosen[i]
      /\ chosen'[Len(chosen) + 1] = direction
  BY <1>1, <1>2, AppendProperties DEF RoundTyped
<1>4. RoundTyped'
  BY <1>0, <1>1, <1>2, <1>3
     DEF RoundTyped, Moved, LettersKept, ChronicleKept, SettingsStay
<1>5. RowPlaces'
  BY <1>1, <1>2, <1>3 DEF RowPlaces, Moved, Rested, LettersKept, ChronicleKept, SettingsStay
<1>6. LetterPlaces'
  BY <1>1, <1>2, <1>3
     DEF LetterPlaces, Uncommitted, Round!Terminal, Moved, Rested, LettersKept, ChronicleKept,
         SettingsStay
<1>7. OneLost'
  BY <1>1, <1>2, <1>3 DEF OneLost, Lost, Moved, Rested, LettersKept, ChronicleKept, SettingsStay
<1>8. ASSUME ~crashed'
      PROVE Steered' /\ Chronicled' /\ Counted' /\ StandsStill' /\ Triggered'
  <2>1. Steered /\ Chronicled /\ Counted /\ StandsStill /\ Triggered
    BY <1>3, <1>8 DEF RoundWhole, RoundInTime, SettingsStay
  <2>2. Steered'
    <3>1. direction # 0 /\ \A i \in 1..Len(chosen) : chosen[i] # direction
      BY <1>2, <2>1 DEF Steered
    <3>2. 1..Len(chosen') = 1..Len(chosen) \cup {Len(chosen) + 1}
      BY <1>0
    <3>3. \A i \in 1..Len(chosen') : chosen'[i] <= choices
      BY <1>0, <2>1, <3>2 DEF Steered
    <3>4. \A i, j \in 1..Len(chosen') : chosen'[i] = chosen'[j] => i = j
      BY <1>0, <2>1, <3>1, <3>2 DEF Steered
    <3> QED
      BY <1>2, <2>1, <3>3, <3>4 DEF Steered, Moved
  <2>3. Chronicled'
    BY <1>1, <1>2, <1>3, <2>1
       DEF Chronicled, Moved, Rested, Round!TurnOf, LettersKept, ChronicleKept, SettingsStay
  <2>4. Counted'
    BY <1>2, <1>3, <2>1 DEF Counted, Single, Moved, Rested, LettersKept, ChronicleKept, SettingsStay
  <2>5. StandsStill'
    <3>1. \A l : (Clear(l)' <=> Clear(l)) /\ (Going(l)' <=> Going(l))
      BY <1>3, SameClear DEF ChronicleKept
    <3>2. Round!TurnOf' = Round!TurnOf
      BY <1>2, <1>3 DEF Round!TurnOf, Moved, LettersKept
    <3> QED
      BY <1>1, <1>2, <1>3, <2>1, <3>1, <3>2
         DEF StandsStill, Waiting, Single, Moved, Rested, RowPlaces, LettersKept,
             ChronicleKept, SettingsStay
  <2>6. Triggered'
    <3>1. \A l : Before(l)' = Before(l)
      BY <1>3 DEF Before, LettersKept
    <3> QED
      BY <1>1, <1>2, <1>3, <2>1, <3>1
         DEF Triggered, Moved, Rested, LettersKept, ChronicleKept, SettingsStay
  <2> QED
    BY <2>2, <2>3, <2>4, <2>5, <2>6
<1> QED
  BY <1>4, <1>5, <1>6, <1>7, <1>8 DEF RoundWhole, RoundInv, RoundInTime

LEMMA DropDirectionKeeps ==
  ASSUME RoundWhole, Round!DropDirection
  PROVE RoundWhole'
<1>1. RoundTyped /\ RowPlaces /\ LetterPlaces /\ OneLost
  BY DEF RoundWhole, RoundInv
<1>2. /\ hand.at = "drop" /\ Moved("read") /\ direction' = 0 /\ choices' = choices
      /\ chosen' = chosen
  BY <1>1, GotoMoves DEF Round!DropDirection, Round!Consumed, Places
<1>3. LettersKept /\ ChronicleKept /\ SettingsStay
  BY DEF Round!DropDirection, LettersKept, ChronicleKept, DirectionsKept, SettingsStay
<1>4. RoundTyped'
  BY <1>1, <1>2, <1>3 DEF RoundTyped, Moved, LettersKept, ChronicleKept, SettingsStay
<1>5. RowPlaces'
  BY <1>1, <1>2, <1>3 DEF RowPlaces, Moved, Rested, LettersKept, ChronicleKept, SettingsStay
<1>6. LetterPlaces'
  BY <1>1, <1>2, <1>3
     DEF LetterPlaces, Uncommitted, Round!Terminal, Moved, Rested, LettersKept, ChronicleKept,
         SettingsStay
<1>7. OneLost'
  BY <1>1, <1>2, <1>3 DEF OneLost, Lost, Moved, Rested, LettersKept, ChronicleKept, SettingsStay
<1>8. ASSUME ~crashed'
      PROVE Steered' /\ Chronicled' /\ Counted' /\ StandsStill' /\ Triggered'
  <2>1. Steered /\ Chronicled /\ Counted /\ StandsStill /\ Triggered
    BY <1>3, <1>8 DEF RoundWhole, RoundInTime, SettingsStay
  <2>2. Steered'
    <3>1. 0 <= choices
      BY <1>1 DEF RoundTyped
    <3> QED
      BY <1>2, <2>1, <3>1 DEF Steered, Moved
  <2>3. Chronicled'
    BY <1>1, <1>2, <1>3, <2>1
       DEF Chronicled, Moved, Rested, Round!TurnOf, LettersKept, ChronicleKept, SettingsStay
  <2>4. Counted'
    BY <1>2, <1>3, <2>1 DEF Counted, Single, Moved, Rested, LettersKept, ChronicleKept, SettingsStay
  <2>5. StandsStill'
    <3>1. \A l : (Clear(l)' <=> Clear(l)) /\ (Going(l)' <=> Going(l))
      BY <1>3, SameClear DEF ChronicleKept
    <3>2. Round!TurnOf' = Round!TurnOf
      BY <1>2, <1>3 DEF Round!TurnOf, Moved, LettersKept
    <3> QED
      BY <1>1, <1>2, <1>3, <2>1, <3>1, <3>2
         DEF StandsStill, Waiting, Single, Moved, Rested, RowPlaces, LettersKept,
             ChronicleKept, SettingsStay
  <2>6. Triggered'
    <3>1. \A l : Before(l)' = Before(l)
      BY <1>3 DEF Before, LettersKept
    <3> QED
      BY <1>1, <1>2, <1>3, <2>1, <3>1
         DEF Triggered, Moved, Rested, LettersKept, ChronicleKept, SettingsStay
  <2> QED
    BY <2>2, <2>3, <2>4, <2>5, <2>6
<1> QED
  BY <1>4, <1>5, <1>6, <1>7, <1>8 DEF RoundWhole, RoundInv, RoundInTime

LEMMA WritePhaseKeeps ==
  ASSUME RoundWhole, Round!WritePhase
  PROVE RoundWhole'
<1>1. RoundTyped /\ RowPlaces /\ LetterPlaces /\ OneLost
  BY DEF RoundWhole, RoundInv
<1>2. /\ hand.at = "phase" /\ Moved("answer") /\ parkedRow' = Round!ReplyPhase(parkedRow)
      /\ letter' = letter /\ hand.op = "continue"
  BY <1>1, GotoMoves DEF Round!WritePhase, Places, RowPlaces
<1>3. ChronicleKept /\ DirectionsKept /\ SettingsStay
  BY DEF Round!WritePhase, LettersKept, ChronicleKept, DirectionsKept, SettingsStay
<1>0. /\ parkedRow' \in [turn : 0..MaxLetters, stops : Nat, phase : {"world", "reply"}, kind : Round!Stops]
      /\ parkedRow'.turn = parkedRow.turn /\ parkedRow'.phase = "reply" /\ parkedRow.turn # 0
  BY <1>1, <1>2 DEF Round!ReplyPhase, RoundTyped, RowPlaces
<1>4. RoundTyped'
  BY <1>0, <1>1, <1>2, <1>3
     DEF RoundTyped, Moved, Rested, ChronicleKept, DirectionsKept, SettingsStay
<1>5. RowPlaces'
  BY <1>0, <1>1, <1>2, <1>3 DEF RowPlaces, Round!NoRow, Moved, ChronicleKept
<1>6. LetterPlaces'
  BY <1>0, <1>1, <1>2 DEF LetterPlaces, Uncommitted, Moved
<1>7. OneLost'
  BY <1>0, <1>1, <1>2, <1>3 DEF OneLost, Lost, Moved, SettingsStay
<1>8. ASSUME ~crashed'
      PROVE Steered' /\ Chronicled' /\ Counted' /\ StandsStill' /\ Triggered'
  <2>1. Steered /\ Chronicled /\ Counted /\ StandsStill /\ Triggered
    BY <1>3, <1>8 DEF RoundWhole, RoundInTime, SettingsStay
  <2>2. Steered'
    BY <1>2, <1>3, <2>1 DEF Steered, Moved, Rested, ChronicleKept, DirectionsKept, SettingsStay
  <2>3. Chronicled'
    BY <1>0, <1>1, <1>2, <1>3, <2>1 DEF Chronicled, Moved, ChronicleKept
  <2>4. Counted'
    BY <1>2, <1>3, <2>1
       DEF Counted, Single, Moved, Rested, ChronicleKept, DirectionsKept, SettingsStay
  <2>5. StandsStill'
    BY <1>0, <1>2 DEF StandsStill, Moved
  <2>6. Triggered'
    <3>1. \A l : Before(l)' = Before(l)
      BY <1>2 DEF Before
    <3> QED
      BY <1>0, <1>1, <1>2, <1>3, <2>1, <3>1 DEF Triggered, Moved, Rested, ChronicleKept
  <2> QED
    BY <2>2, <2>3, <2>4, <2>5, <2>6
<1> QED
  BY <1>4, <1>5, <1>6, <1>7, <1>8 DEF RoundWhole, RoundInv, RoundInTime

LEMMA ClearRowKeeps ==
  ASSUME RoundWhole, Round!ClearRow
  PROVE RoundWhole'
<1>1. RoundTyped /\ RowPlaces /\ LetterPlaces /\ OneLost
  BY DEF RoundWhole, RoundInv
<1>2. /\ hand.at = "clear" /\ Rested /\ parkedRow' = Round!NoRow /\ letter' = letter
  BY <1>1, DoneRests DEF Round!ClearRow
<1>3. ChronicleKept /\ DirectionsKept /\ SettingsStay
  BY DEF Round!ClearRow, LettersKept, ChronicleKept, DirectionsKept, SettingsStay
<1>0. /\ parkedRow' \in [turn : 0..MaxLetters, stops : Nat, phase : {"world", "reply"}, kind : Round!Stops]
      /\ parkedRow'.turn = 0
  BY <1>2, LettersAssumption DEF Round!NoRow, Round!Stops
<1>4. RoundTyped'
  BY <1>0, <1>1, <1>2, <1>3
     DEF RoundTyped, Moved, Rested, ChronicleKept, DirectionsKept, SettingsStay
<1>5. RowPlaces'
  BY <1>0, <1>1, <1>2, <1>3 DEF RowPlaces, Rested, ChronicleKept
<1>6. LetterPlaces'
  BY <1>0, <1>1, <1>2 DEF LetterPlaces, Uncommitted, Rested
<1>7. OneLost'
  BY <1>0, <1>1, <1>2, <1>3 DEF OneLost, Lost, LetterPlaces, RowPlaces, Rested, SettingsStay
<1>8. ASSUME ~crashed'
      PROVE Steered' /\ Chronicled' /\ Counted' /\ StandsStill' /\ Triggered'
  <2>1. Steered /\ Chronicled /\ Counted /\ StandsStill /\ Triggered
    BY <1>3, <1>8 DEF RoundWhole, RoundInTime, SettingsStay
  <2>2. Steered'
    BY <1>2, <1>3, <2>1 DEF Steered, Moved, Rested, ChronicleKept, DirectionsKept, SettingsStay
  <2>3. Chronicled'
    BY <1>0, <1>1, <1>2, <1>3, <2>1 DEF Chronicled, Rested, ChronicleKept
  <2>4. Counted'
    BY <1>2, <1>3, <2>1
       DEF Counted, Single, Moved, Rested, ChronicleKept, DirectionsKept, SettingsStay
  <2>5. StandsStill'
    BY <1>0, <1>2, RestedStands
  <2>6. Triggered'
    <3>1. \A l : Before(l)' = Before(l)
      BY <1>2 DEF Before
    <3> QED
      BY <1>0, <1>1, <1>2, <1>3, <2>1, <3>1 DEF Triggered, Moved, Rested, ChronicleKept
  <2> QED
    BY <2>2, <2>3, <2>4, <2>5, <2>6
<1> QED
  BY <1>4, <1>5, <1>6, <1>7, <1>8 DEF RoundWhole, RoundInv, RoundInTime

LEMMA CloseNowKeeps ==
  ASSUME RoundWhole, Round!CloseNow
  PROVE RoundWhole'
<1>1. RoundTyped /\ RowPlaces /\ LetterPlaces /\ OneLost
  BY DEF RoundWhole, RoundInv
<1>2. /\ hand.at = "close" /\ Moved("clear") /\ parkedRow' = parkedRow /\ parkedRow.turn # 0
      /\ letter' = Round!Closed(parkedRow.turn)
  BY <1>1, GotoMoves DEF Round!CloseNow, Places, RowPlaces
<1>3. ChronicleKept /\ DirectionsKept /\ SettingsStay
  BY DEF Round!CloseNow, LettersKept, ChronicleKept, DirectionsKept, SettingsStay
<1>0. Closing(parkedRow.turn) /\ parkedRow.turn \in Round!Letters
  BY <1>1, <1>2, ClosedDoes
<1>4. RoundTyped'
  BY <1>0, <1>1, <1>2, <1>3
     DEF RoundTyped, Closing, Moved, ChronicleKept, DirectionsKept, SettingsStay
<1>5. RowPlaces'
  BY <1>1, <1>2, <1>3 DEF RowPlaces, Moved, Rested, ChronicleKept, DirectionsKept, SettingsStay
<1>6. LetterPlaces'
  <2>1. \A l \in Round!Letters : letter[l] = "ABSENT" => letter'[l] = "ABSENT"
    BY <1>0 DEF Closing
  <2>2. letter'[parkedRow.turn] \notin {"ABSENT", "GENERATING"}
    BY <1>0 DEF Closing, Round!Terminal
  <2> QED
    BY <1>1, <1>2, <2>1, <2>2 DEF LetterPlaces, Uncommitted, Moved
<1>7. OneLost'
  BY <1>0, <1>1, <1>2, <1>3 DEF OneLost, Lost, Closing, Moved, SettingsStay
<1>8. ASSUME ~crashed'
      PROVE Steered' /\ Chronicled' /\ Counted' /\ StandsStill' /\ Triggered'
  <2>1. Steered /\ Chronicled /\ Counted /\ StandsStill /\ Triggered
    BY <1>3, <1>8 DEF RoundWhole, RoundInTime, SettingsStay
  <2>2. Steered'
    BY <1>2, <1>3, <2>1 DEF Steered, Moved, Rested, ChronicleKept, DirectionsKept, SettingsStay
  <2>3. Chronicled'
    BY <1>1, <1>2, <1>3, <2>1 DEF Chronicled, Moved, ChronicleKept
  <2>4. Counted'
    BY <1>2, <1>3, <2>1
       DEF Counted, Single, Moved, Rested, ChronicleKept, DirectionsKept, SettingsStay
  <2>5. StandsStill'
    BY <1>2 DEF StandsStill, Moved
  <2>6. Triggered'
    <3>1. \A b \in 1..Len(beats) :
            letter'[beats[b].during] # "ABSENT" <=> letter[beats[b].during] # "ABSENT"
      <4>1. \A b \in 1..Len(beats) : beats[b].during \in Round!Letters
        BY <1>1, <2>1, RowsTyped DEF Triggered, Round!Letters
      <4> QED
        BY <1>0, <4>1 DEF Closing
    <3>2. \A l : Before(l)' = Before(l)
      BY <1>0 DEF Before, Closing
    <3> QED
      BY <1>1, <1>2, <1>3, <2>1, <3>1, <3>2 DEF Triggered, Moved, ChronicleKept
  <2> QED
    BY <2>2, <2>3, <2>4, <2>5, <2>6
<1> QED
  BY <1>4, <1>5, <1>6, <1>7, <1>8 DEF RoundWhole, RoundInv, RoundInTime

LEMMA WriteRowKeeps ==
  ASSUME RoundWhole, Round!WriteRow
  PROVE RoundWhole'
<1>1. RoundTyped /\ RowPlaces /\ LetterPlaces /\ OneLost
  BY DEF RoundWhole, RoundInv
<1>2. /\ hand.at = "row" /\ hand.op = "turn" /\ parkedRow.turn = 0 /\ letter' = letter
      /\ parkedRow' = [turn |-> hand.letter, stops |-> 1, phase |-> "world", kind |-> hand.stop]
      /\ \/ hand.stop = "awaits" /\ Moved("close")
         \/ hand.stop # "awaits" /\ Rested
  BY <1>1, GotoMoves, DoneRests DEF Round!WriteRow, Round!AfterRow, Places, RowPlaces
<1>3. ChronicleKept /\ DirectionsKept /\ SettingsStay
  BY DEF Round!WriteRow, LettersKept, ChronicleKept, DirectionsKept, SettingsStay
<1>0. /\ parkedRow' \in [turn : 0..MaxLetters, stops : Nat, phase : {"world", "reply"}, kind : Round!Stops]
      /\ parkedRow'.turn = hand.letter /\ hand.letter # 0
  BY <1>1, <1>2 DEF RoundTyped, HandForms, RowPlaces
<1>4. RoundTyped'
  BY <1>0, <1>1, <1>2, <1>3
     DEF RoundTyped, Moved, Rested, ChronicleKept, DirectionsKept, SettingsStay
<1>5. RowPlaces'
  BY <1>0, <1>1, <1>2, <1>3 DEF RowPlaces, Round!NoRow, Moved, Rested, ChronicleKept
<1>6. LetterPlaces'
  BY <1>0, <1>1, <1>2 DEF LetterPlaces, Uncommitted, Moved, Rested
<1>7. OneLost'
  <2>1. \A l \in Round!Letters : Lost(l)' => Lost(l)
    <3>1. \A l \in Round!Letters : l # 0
      BY DEF Round!Letters
    <3> QED
      BY <1>0, <1>2, <3>1 DEF Lost
  <2> QED
    BY <1>1, <1>3, <2>1 DEF OneLost, SettingsStay
<1>8. ASSUME ~crashed'
      PROVE Steered' /\ Chronicled' /\ Counted' /\ StandsStill' /\ Triggered'
  <2>1. Steered /\ Chronicled /\ Counted /\ StandsStill /\ Triggered
    BY <1>3, <1>8 DEF RoundWhole, RoundInTime, SettingsStay
  <2>2. Steered'
    BY <1>2, <1>3, <2>1 DEF Steered, Moved, Rested, ChronicleKept, DirectionsKept, SettingsStay
  <2>3. Chronicled'
    BY <1>0, <1>1, <1>2, <1>3, <2>1 DEF Chronicled, Moved, Rested, ChronicleKept
  <2>4. Counted'
    BY <1>2, <1>3, <2>1
       DEF Counted, Single, Moved, Rested, ChronicleKept, DirectionsKept, SettingsStay
  <2>5. StandsStill'
    <3>1. CASE hand.stop = "awaits" /\ Moved("close")
      BY <3>1 DEF StandsStill, Moved
    <3>2. CASE hand.stop # "awaits" /\ Rested
      <4>1. Round!TurnOf = hand.letter
        BY <1>2 DEF Round!TurnOf
      <4>2. Going(hand.letter)
        BY <1>2, <2>1, <3>2, <4>1 DEF StandsStill, Waiting
      <4>3. \A l : Going(l)' <=> Going(l)
        BY <1>3, SameClear DEF ChronicleKept
      <4>4. Going(parkedRow.turn)'
        BY <1>0, <4>2, <4>3
      <4> QED
        BY <3>2, <4>4, RestedStands
    <3> QED
      BY <1>2, <3>1, <3>2
  <2>6. Triggered'
    <3>1. \A l : Before(l)' = Before(l)
      BY <1>2 DEF Before
    <3>2. runs # <<>> /\ runs[Len(runs)].trigger \in 1..hand.letter
      <4>1. Len(runs) \in 1..Len(runs) /\ runs # <<>>
        BY <1>1, <1>2, <2>1, RowsTyped, EmptySeq DEF Triggered, RoundTyped
      <4> QED
        BY <1>1, <1>2, <2>1, <4>1, RowsTyped DEF Triggered
    <3> QED
      BY <1>0, <1>1, <1>2, <1>3, <2>1, <3>1, <3>2 DEF Triggered, Moved, Rested, ChronicleKept
  <2> QED
    BY <2>2, <2>3, <2>4, <2>5, <2>6
<1> QED
  BY <1>4, <1>5, <1>6, <1>7, <1>8 DEF RoundWhole, RoundInv, RoundInTime

LEMMA RewriteRowKeeps ==
  ASSUME RoundWhole, Round!RewriteRow
  PROVE RoundWhole'
<1>1. RoundTyped /\ RowPlaces /\ LetterPlaces /\ OneLost
  BY DEF RoundWhole, RoundInv
<1>2. /\ hand.at = "rerow" /\ hand.op = "continue" /\ parkedRow.turn # 0 /\ letter' = letter
      /\ parkedRow' \in [turn : 0..MaxLetters, stops : Nat, phase : {"world", "reply"}, kind : Round!Stops]
      /\ parkedRow'.turn = parkedRow.turn
      /\ \/ Moved("close")
         \/ Rested /\ (hand.frames > 0 => hand.stop # "awaits")
  <2>1. hand.at = "rerow" /\ hand.op = "continue" /\ parkedRow.turn # 0 /\ letter' = letter
    BY <1>1 DEF Round!RewriteRow, RowPlaces
  <2> DEFINE w == IF hand.frames > 0 THEN hand.stop ELSE parkedRow.kind
  <2>2. parkedRow' = [parkedRow EXCEPT !.stops = Round!NextStops(@), !.kind = w] /\ Round!AfterRow(w)
    BY DEF Round!RewriteRow
  <2>3. w \in Round!Stops /\ (hand.frames > 0 => w = hand.stop)
    BY <1>1 DEF RoundTyped, HandForms
  <2> HIDE DEF w
  <2>4. Moved("close") \/ (Rested /\ w # "awaits")
    BY <1>1, <2>2, GotoMoves, DoneRests DEF Round!AfterRow, Places
  <2>5. PICK t \in 0..MaxLetters, n \in Nat, p \in {"world", "reply"}, k \in Round!Stops :
          parkedRow = [turn |-> t, stops |-> n, phase |-> p, kind |-> k]
    BY <1>1 DEF RoundTyped
  <2>6. PICK m \in Nat : m = Round!NextStops(n)
    <3>1. n + 1 \in Nat
      OBVIOUS
    <3> QED
      BY <3>1 DEF Round!NextStops
  <2>7. parkedRow' = [turn |-> t, stops |-> m, phase |-> p, kind |-> w]
    <3>1. parkedRow' = [[parkedRow EXCEPT !.stops = m] EXCEPT !.kind = w]
      BY <2>2, <2>5, <2>6
    <3>2. [parkedRow EXCEPT !.stops = m] = [turn |-> t, stops |-> m, phase |-> p, kind |-> k]
      BY <2>5
    <3> QED
      BY <3>1, <3>2
  <2>8. [turn |-> t, stops |-> m, phase |-> p, kind |-> w]
          \in [turn : 0..MaxLetters, stops : Nat, phase : {"world", "reply"}, kind : Round!Stops]
    BY <2>3
  <2> QED
    BY <2>1, <2>3, <2>4, <2>5, <2>7, <2>8
<1>3. ChronicleKept /\ DirectionsKept /\ SettingsStay
  BY DEF Round!RewriteRow, LettersKept, ChronicleKept, DirectionsKept, SettingsStay
<1>0. parkedRow'.turn # 0
  BY <1>2
<1>4. RoundTyped'
  BY <1>0, <1>1, <1>2, <1>3
     DEF RoundTyped, Moved, Rested, ChronicleKept, DirectionsKept, SettingsStay
<1>5. RowPlaces'
  BY <1>0, <1>1, <1>2, <1>3 DEF RowPlaces, Round!NoRow, Moved, Rested, ChronicleKept
<1>6. LetterPlaces'
  BY <1>0, <1>1, <1>2 DEF LetterPlaces, Uncommitted, Moved, Rested
<1>7. OneLost'
  BY <1>1, <1>2, <1>3 DEF OneLost, Lost, Moved, Rested, SettingsStay
<1>8. ASSUME ~crashed'
      PROVE Steered' /\ Chronicled' /\ Counted' /\ StandsStill' /\ Triggered'
  <2>1. Steered /\ Chronicled /\ Counted /\ StandsStill /\ Triggered
    BY <1>3, <1>8 DEF RoundWhole, RoundInTime, SettingsStay
  <2>2. Steered'
    BY <1>2, <1>3, <2>1 DEF Steered, Moved, Rested, ChronicleKept, DirectionsKept, SettingsStay
  <2>3. Chronicled'
    BY <1>0, <1>1, <1>2, <1>3, <2>1 DEF Chronicled, Moved, Rested, ChronicleKept
  <2>4. Counted'
    BY <1>2, <1>3, <2>1
       DEF Counted, Single, Moved, Rested, ChronicleKept, DirectionsKept, SettingsStay
  <2>5. StandsStill'
    <3>1. CASE Moved("close")
      BY <3>1 DEF StandsStill, Moved
    <3>2. CASE Rested /\ (hand.frames > 0 => hand.stop # "awaits")
      <4>1. Round!TurnOf = parkedRow.turn
        BY <1>2 DEF Round!TurnOf
      <4>2. hand.frames > 0 \/ hand.frames = 0
        BY <1>1 DEF RoundTyped, HandForms
      <4>3. Going(parkedRow.turn)
        BY <1>2, <2>1, <3>2, <4>1, <4>2 DEF StandsStill, Waiting, Counted
      <4>4. \A l : Going(l)' <=> Going(l)
        BY <1>3, SameClear DEF ChronicleKept
      <4>5. Going(parkedRow.turn)'
        BY <1>2, <4>3, <4>4
      <4> QED
        BY <3>2, <4>5, RestedStands
    <3> QED
      BY <1>2, <3>1, <3>2
  <2>6. Triggered'
    <3>1. \A l : Before(l)' = Before(l)
      BY <1>2 DEF Before
    <3> QED
      BY <1>0, <1>1, <1>2, <1>3, <2>1, <3>1 DEF Triggered, Moved, Rested, ChronicleKept
  <2> QED
    BY <2>2, <2>3, <2>4, <2>5, <2>6
<1> QED
  BY <1>4, <1>5, <1>6, <1>7, <1>8 DEF RoundWhole, RoundInv, RoundInTime

\* The last run goes on, or a turn begins one more.
Wound ==
  /\ runs' \in Seq(RunForms) /\ runs' # <<>> /\ ~runs'[Len(runs')].terminal
  /\ \A i \in 1..Len(runs) : runs'[i] = runs[i]
  /\ \/ Len(runs') = Len(runs)
     \/ Len(runs') = Len(runs) + 1 /\ runs'[Len(runs')].trigger = 0
  /\ Len(runs') = Len(runs) \/ ~Round!Open

LEMMA WindDoes ==
  ASSUME RoundTyped, Round!Wind
  PROVE Wound
<1>1. runs \in Seq(RunForms)
  BY DEF RoundTyped
<1>2. CASE Round!Open
  BY <1>1, <1>2 DEF Round!Wind, Round!Open, Round!Last, Wound
<1>3. CASE ~Round!Open
  <2>1. runs' = Append(runs, Round!NewRun)
    BY <1>3 DEF Round!Wind
  <2>2. OneMoreRun(runs, runs')
    BY <2>1, NewRunDoes
  <2>3. Len(runs') # 0
    BY <1>1, <2>2 DEF OneMoreRun
  <2>4. runs' # <<>>
    BY <2>2, <2>3, EmptySeq DEF OneMoreRun
  <2> QED
    BY <1>3, <2>2, <2>4 DEF OneMoreRun, Wound
<1> QED
  BY <1>2, <1>3

LEMMA WindKeeps ==
  ASSUME RoundWhole, Round!Wind
  PROVE RoundWhole'
<1>1. RoundTyped /\ RowPlaces /\ LetterPlaces /\ OneLost
  BY DEF RoundWhole, RoundInv
<1>2. /\ hand.at = "wind" /\ Moved("beat") /\ beats' = beats /\ Wound
  BY <1>1, GotoMoves, WindDoes DEF Round!Wind, Places
<1>3. LettersKept /\ DirectionsKept /\ SettingsStay
  BY DEF Round!Wind, LettersKept, ChronicleKept, DirectionsKept, SettingsStay
<1>4. RoundTyped'
  BY <1>1, <1>2, <1>3 DEF RoundTyped, Moved, Wound, LettersKept, DirectionsKept, SettingsStay
<1>5. RowPlaces'
  BY <1>1, <1>2, <1>3 DEF RowPlaces, Wound, Moved, LettersKept
<1>6. LetterPlaces'
  BY <1>1, <1>2, <1>3
     DEF LetterPlaces, Uncommitted, Round!Terminal, Moved, Rested, LettersKept, DirectionsKept,
         SettingsStay
<1>7. OneLost'
  BY <1>1, <1>2, <1>3 DEF OneLost, Lost, Moved, Rested, LettersKept, DirectionsKept, SettingsStay
<1>8. ASSUME ~crashed'
      PROVE Steered' /\ Chronicled' /\ Counted' /\ StandsStill' /\ Triggered'
  <2>1. Steered /\ Chronicled /\ Counted /\ StandsStill /\ Triggered
    BY <1>3, <1>8 DEF RoundWhole, RoundInTime, SettingsStay
  <2>0. \A b \in 1..Len(beats) :
          beats[b].run \in 1..Len(runs) /\ runs'[beats[b].run] = runs[beats[b].run]
    BY <1>2, <2>1 DEF Chronicled, Wound
  <2>7. hand.op = "continue" => Len(runs') = Len(runs)
    BY <1>2, <2>1 DEF Wound, StandsStill, Going, Round!Open, Round!Last
  <2>8. Len(runs) \in Nat /\ Len(runs') \in Nat /\ Len(runs) + 1 \in Nat /\ 1..Len(runs) \subseteq 1..Len(runs')
    BY <1>1, <1>2, RowsTyped DEF Wound
  <2>9. \A b \in 1..Len(beats) : ~(b > Len(beats))
    BY <1>1, RowsTyped
  <2>2. Steered'
    BY <1>2, <1>3, <2>1 DEF Steered, Moved, Rested, LettersKept, DirectionsKept, SettingsStay
  <2>3. Chronicled'
    <3>1. \A b \in 1..Len(beats) : beats[b].run \in 1..Len(runs') /\ beats[b].item # "PENDING"
      BY <1>2, <2>0, <2>1, <2>8 DEF Chronicled
    <3> QED
      BY <1>2, <1>3, <2>1, <2>9, <3>1 DEF Chronicled, Moved
  <2>4. Counted'
    BY <1>2, <1>3, <2>1 DEF Counted, Single, Moved, Wound, SettingsStay
  <2>5. StandsStill'
    <3>1. \A l : Clear(l)' <=> Clear(l)
      BY <1>2, <2>0 DEF Clear
    <3>2. Round!TurnOf' = Round!TurnOf
      BY <1>2, <1>3 DEF Round!TurnOf, Moved, LettersKept
    <3> QED
      BY <1>2, <1>3, <2>1, <3>1, <3>2 DEF StandsStill, Single, Moved, Wound, SettingsStay
  <2>6. Triggered'
    <3>1. \A l : Before(l)' = Before(l)
      BY <1>3 DEF Before, LettersKept
    <3>2. \A i \in 1..Len(runs') : runs'[i].trigger <= hand.letter
      <4>1. \A i \in 1..Len(runs') : i \in 1..Len(runs) \/ (i = Len(runs') /\ runs'[i].trigger = 0)
        BY <1>2, <2>8 DEF Wound
      <4>2. 0 <= hand.letter
        BY <1>1, RowsTyped
      <4> QED
        BY <1>2, <2>1, <4>1, <4>2 DEF Triggered, Wound
    <3>3. parkedRow.turn # 0 => runs' # <<>> /\ runs'[Len(runs')].trigger \in 1..parkedRow.turn
      <4>1. ASSUME parkedRow.turn # 0 PROVE Len(runs') = Len(runs) /\ runs # <<>>
        <5>1. hand.op = "continue"
          BY <1>1, <1>2, <4>1 DEF RowPlaces, RoundTyped, HandForms
        <5> QED
          BY <2>1, <2>7, <4>1, <5>1 DEF Triggered
      <4>2. parkedRow.turn # 0 => Len(runs) \in 1..Len(runs)
        BY <1>1, <2>8, <4>1, EmptySeq DEF RoundTyped
      <4> QED
        BY <1>2, <2>1, <4>1, <4>2 DEF Triggered, Wound
    <3>4. \A b \in 1..Len(beats) : beats[b].run = Len(runs') => Len(runs') = Len(runs)
      BY <1>2, <2>0, <2>8 DEF Wound
    <3>5. \A b \in 1..Len(beats) :
            ~(beats[b].run = Len(runs') /\ runs'[Len(runs')].trigger = 0
              /\ letter[beats[b].during] # "ABSENT")
      BY <1>2, <2>0, <2>1, <3>4 DEF Triggered
    <3> QED
      BY <1>2, <1>3, <2>0, <2>1, <3>1, <3>2, <3>3, <3>5 DEF Triggered, Moved, LettersKept
  <2> QED
    BY <2>2, <2>3, <2>4, <2>5, <2>6
<1> QED
  BY <1>4, <1>5, <1>6, <1>7, <1>8 DEF RoundWhole, RoundInv, RoundInTime

LEMMA BeatLandsKeeps ==
  ASSUME RoundWhole, LettersKept, DirectionsKept, SettingsStay, hand.at = "beat", hand' = hand,
         runs' = runs, OneMoreBeat(beats, beats')
  PROVE RoundWhole'
<1>1. RoundTyped /\ RowPlaces /\ LetterPlaces /\ OneLost
  BY DEF RoundWhole, RoundInv
<1>2. /\ hand.at = "beat" /\ hand' = hand /\ runs' = runs /\ OneMoreBeat(beats, beats')
  OBVIOUS
<1>3. LettersKept /\ DirectionsKept /\ SettingsStay
  OBVIOUS
<1>4. RoundTyped'
  BY <1>1, <1>2, <1>3 DEF RoundTyped, OneMoreBeat, LettersKept, DirectionsKept, SettingsStay
<1>5. RowPlaces'
  BY <1>1, <1>2, <1>3 DEF RowPlaces, Moved, Rested, LettersKept, DirectionsKept, SettingsStay
<1>6. LetterPlaces'
  BY <1>1, <1>2, <1>3 DEF LetterPlaces, LettersKept
<1>7. OneLost'
  BY <1>1, <1>2, <1>3 DEF OneLost, Lost, Moved, Rested, LettersKept, DirectionsKept, SettingsStay
<1>8. ASSUME ~crashed'
      PROVE Steered' /\ Chronicled' /\ Counted' /\ StandsStill' /\ Triggered'
  <2>1. Steered /\ Chronicled /\ Counted /\ StandsStill /\ Triggered
    BY <1>3, <1>8 DEF RoundWhole, RoundInTime, SettingsStay
  <2>0. /\ Len(beats) \in Nat /\ Len(runs) \in 1..Len(runs) /\ runs # <<>>
        /\ 1..Len(beats') = 1..Len(beats) \cup {Len(beats) + 1}
        /\ \A b \in 1..Len(beats) : beats'[b] = beats[b]
    <3>1. Len(beats') = Len(beats) + 1 /\ Len(beats) \in Nat /\ Len(runs) \in Nat
      BY <1>1, <1>2, RowsTyped DEF OneMoreBeat
    <3>2. runs # <<>>
      BY <1>1, <1>2 DEF RowPlaces
    <3>3. Len(runs) # 0
      BY <1>1, <3>2, EmptySeq DEF RoundTyped
    <3>4. Len(runs) \in 1..Len(runs)
      BY <3>1, <3>3
    <3>5. 1..(Len(beats) + 1) = 1..Len(beats) \cup {Len(beats) + 1}
      BY <3>1
    <3> QED
      BY <1>2, <3>1, <3>2, <3>4, <3>5 DEF OneMoreBeat
  <2>7. PICK e : e = Len(beats) + 1
    OBVIOUS
  <2>8. /\ beats'[e].run = Len(runs) /\ beats'[e].during = Round!TurnOf /\ beats'[e].item = "none"
        /\ 1..Len(beats') = 1..Len(beats) \cup {e}
    BY <1>2, <2>0, <2>7 DEF OneMoreBeat
  <2>9. /\ Round!TurnOf \in Round!Letters /\ Round!TurnOf <= hand.letter /\ Round!TurnOf # 0
        /\ Round!TurnOf' = Round!TurnOf
    <3>1. hand.op \in {"turn", "continue"}
      BY <1>1 DEF RoundTyped, HandForms
    <3>2. Round!TurnOf' = Round!TurnOf
      BY <1>2, <1>3 DEF Round!TurnOf, LettersKept
    <3>3. CASE hand.op = "turn"
      BY <1>1, <1>2, <3>2, <3>3, RowsTyped, TurnOfFits DEF RowPlaces, Round!Letters
    <3>4. CASE hand.op = "continue"
      <4>1. parkedRow.turn # 0 /\ parkedRow.turn \in Round!Letters
        BY <1>1, <3>4, RowsTyped DEF RowPlaces, Round!Letters
      <4>2. ~(parkedRow.turn > hand.letter)
        BY <1>1, <4>1 DEF LetterPlaces
      <4>3. parkedRow.turn <= hand.letter
        BY <1>1, <4>2, RowsTyped
      <4> QED
        BY <1>1, <3>2, <3>4, <4>1, <4>3, TurnOfFits
    <3> QED
      BY <3>1, <3>3, <3>4
  <2>2. Steered'
    BY <1>2, <1>3, <2>1 DEF Steered, Moved, Rested, LettersKept, DirectionsKept, SettingsStay
  <2>3. Chronicled'
    <3>1. \A b \in 1..Len(beats') : beats'[b].run \in 1..Len(runs) /\ beats'[b].during <= hand.letter
      BY <2>0, <2>1, <2>8, <2>9 DEF Chronicled
    <3>2. \A b \in 1..Len(beats') :
            b > hand.from => beats'[b].run = Len(runs) /\ beats'[b].during = Round!TurnOf
      BY <1>2, <2>0, <2>1, <2>8 DEF Chronicled
    <3>3. \A b \in 1..Len(beats') : beats'[b].item # "PENDING"
      BY <1>2, <2>0, <2>1, <2>8 DEF Chronicled
    <3> QED
      BY <1>2, <2>9, <3>1, <3>2, <3>3 DEF Chronicled
  <2>4. Counted'
    BY <1>2, <1>3, <2>1
       DEF Counted, Single, Moved, Rested, LettersKept, DirectionsKept, SettingsStay
  <2>5. StandsStill'
    <3>1. Single => Clear(Round!TurnOf)'
      <4>1. ASSUME Single, NEW b \in 1..Len(beats'), beats'[b].during = Round!TurnOf
            PROVE ~runs[beats'[b].run].terminal
        BY <1>2, <2>0, <2>1, <2>8, <4>1 DEF StandsStill, Clear
      <4> QED
        BY <1>2, <2>9, <4>1 DEF Clear
    <3> QED
      BY <1>2, <1>3, <2>1, <3>1 DEF StandsStill, Single, SettingsStay
  <2>6. Triggered'
    <3>1. \A l : Before(l)' = Before(l)
      BY <1>3 DEF Before, LettersKept
    <3>2. letter[Round!TurnOf] # "ABSENT" =>
            hand.op = "continue" /\ runs[Len(runs)].trigger \in 1..Round!TurnOf
      <4>1. hand.op \in {"turn", "continue"}
        BY <1>1 DEF RoundTyped, HandForms
      <4>2. hand.op = "turn" => letter[Round!TurnOf] = "ABSENT"
        BY <1>1, <1>2, TurnOfFits DEF LetterPlaces, Uncommitted
      <4>3. hand.op = "continue" => runs[Len(runs)].trigger \in 1..Round!TurnOf
        BY <1>1, <2>1, TurnOfFits DEF Triggered, RowPlaces
      <4> QED
        BY <4>1, <4>2, <4>3
    <3>3. \A k \in 1..Round!TurnOf : k <= Round!TurnOf /\ k # 0
      BY <2>9 DEF Round!Letters
    <3>4. \A b \in 1..Len(beats') : beats'[b].during # 0
      BY <2>0, <2>1, <2>8, <2>9 DEF Triggered
    <3>5. \A b \in 1..Len(beats') :
            letter[beats'[b].during] # "ABSENT" => runs[beats'[b].run].trigger <= beats'[b].during
      BY <2>0, <2>1, <2>8, <3>2, <3>3 DEF Triggered
    <3>6. \A b \in 1..Len(beats') :
            beats'[b].run = Len(runs) /\ runs[Len(runs)].trigger = 0
            /\ letter[beats'[b].during] # "ABSENT"
              => beats'[b].during = hand.letter /\ hand.op = "turn" /\ hand.at \in {"sent", "adopt"}
      BY <2>0, <2>1, <2>8, <3>2, <3>3 DEF Triggered
    <3>7. \A b \in 1..Len(beats') :
            beats'[b].item = "REVEALED" /\ runs[beats'[b].run].trigger = 0
              => beats'[b].after <= Cardinality(Before(beats'[b].during))
      BY <2>0, <2>1, <2>8 DEF Triggered
    <3>8. \A b \in 1..Len(beats') : Before(beats[b].during)' = Before(beats'[b].during)
      BY <1>3 DEF Before, LettersKept
    <3> QED
      BY <1>2, <1>3, <2>1, <3>4, <3>5, <3>6, <3>7, <3>8 DEF Triggered, LettersKept
  <2> QED
    BY <2>2, <2>3, <2>4, <2>5, <2>6
<1> QED
  BY <1>4, <1>5, <1>6, <1>7, <1>8 DEF RoundWhole, RoundInv, RoundInTime

LEMMA RecordBeatKeeps ==
  ASSUME RoundWhole, Round!RecordBeat
  PROVE RoundWhole'
<1>1. LettersKept /\ DirectionsKept /\ SettingsStay /\ hand.at = "beat" /\ runs' = runs
  BY DEF Round!RecordBeat, LettersKept, DirectionsKept, SettingsStay
<1>2. RoundTyped
  BY DEF RoundWhole, RoundInv
<1>3. CASE Round!Recorded = beats
  <2>1. Round!Goto(Round!AfterChain(hand)) /\ ChronicleKept
    BY <1>1, <1>3 DEF Round!RecordBeat, Round!Goto, ChronicleKept
  <2>2. ChainEnds
    BY <1>2, <2>1, ChainIsOver
  <2> QED
    BY <1>1, <2>1, <2>2, ChainEndsKeeps
<1>4. CASE Round!Recorded # beats
  <2>1. hand' = hand /\ beats' = Round!Recorded
    BY <1>4 DEF Round!RecordBeat
  <2>2. OneMoreBeat(beats, beats')
    BY <1>2, <1>4, <2>1, RecordedDoes
  <2> QED
    BY <1>1, <2>1, <2>2, BeatLandsKeeps
<1> QED
  BY <1>3, <1>4

LEMMA EnqueueRevealsKeeps ==
  ASSUME RoundWhole, Round!EnqueueReveals
  PROVE RoundWhole'
<1>1. RoundTyped /\ RowPlaces /\ LetterPlaces /\ OneLost
  BY DEF RoundWhole, RoundInv
<1>2. /\ hand.at = "beat" /\ Moved("end") /\ runs' = runs /\ beats' = Round!Queued
  BY <1>1, GotoMoves DEF Round!EnqueueReveals, Places
<1>3. LettersKept /\ DirectionsKept /\ SettingsStay
  BY DEF Round!EnqueueReveals, LettersKept, ChronicleKept, DirectionsKept, SettingsStay
<1>0. /\ beats' \in Seq(BeatForms) /\ Len(beats') = Len(beats) /\ SameBeats(beats, beats')
      /\ \A b \in 1..Len(beats) : beats'[b].run = beats[b].run /\ beats'[b].during = beats[b].during
      /\ \A b \in 1..Len(beats) : beats'[b] = beats[b] \/ (b > hand.from /\ beats'[b].item = "PENDING")
  <2>1. \A b \in 1..Len(beats) : b <= hand.from \/ b > hand.from
    BY <1>1 DEF RoundTyped, HandForms
  <2> QED
    BY <1>1, <1>2, <2>1, QueuedDoes DEF SameBeats
<1>4. RoundTyped'
  BY <1>0, <1>1, <1>2, <1>3 DEF RoundTyped, Moved, LettersKept, DirectionsKept, SettingsStay
<1>5. RowPlaces'
  BY <1>1, <1>2, <1>3 DEF RowPlaces, Moved, Rested, LettersKept, DirectionsKept, SettingsStay
<1>6. LetterPlaces'
  BY <1>1, <1>2, <1>3
     DEF LetterPlaces, Uncommitted, Round!Terminal, Moved, Rested, LettersKept, DirectionsKept,
         SettingsStay
<1>7. OneLost'
  BY <1>1, <1>2, <1>3 DEF OneLost, Lost, Moved, Rested, LettersKept, DirectionsKept, SettingsStay
<1>8. ASSUME ~crashed'
      PROVE Steered' /\ Chronicled' /\ Counted' /\ StandsStill' /\ Triggered'
  <2>1. Steered /\ Chronicled /\ Counted /\ StandsStill /\ Triggered
    BY <1>3, <1>8 DEF RoundWhole, RoundInTime, SettingsStay
  <2>2. Steered'
    BY <1>2, <1>3, <2>1 DEF Steered, Moved, Rested, LettersKept, DirectionsKept, SettingsStay
  <2>3. Chronicled'
    <3>1. Round!TurnOf' = Round!TurnOf
      BY <1>2, <1>3 DEF Round!TurnOf, Moved, LettersKept
    <3>2. \A b \in 1..Len(beats) : beats'[b].item = "PENDING" =>
            beats'[b].run = Len(runs) /\ beats'[b].during = Round!TurnOf
      BY <1>0, <1>2, <2>1 DEF Chronicled
    <3> QED
      BY <1>0, <1>2, <1>3, <2>1, <3>1, <3>2 DEF Chronicled, Moved
  <2>4. Counted'
    BY <1>2, <1>3, <2>1 DEF Counted, Single, Moved, SettingsStay
  <2>5. StandsStill'
    <3>1. \A l : (Clear(l)' <=> Clear(l)) /\ (Going(l)' <=> Going(l))
      BY <1>0, <1>2, SameClear
    <3>2. Round!TurnOf' = Round!TurnOf
      BY <1>2, <1>3 DEF Round!TurnOf, Moved, LettersKept
    <3> QED
      BY <1>2, <1>3, <2>1, <3>1, <3>2 DEF StandsStill, Single, Moved, SettingsStay
  <2>6. Triggered'
    <3>1. \A l : Before(l)' = Before(l)
      BY <1>3 DEF Before, LettersKept
    <3>2. \A b \in 1..Len(beats) :
            beats'[b].item = "REVEALED" /\ runs[beats'[b].run].trigger = 0
              => beats'[b].after <= Cardinality(Before(beats'[b].during))
      BY <1>0, <2>1 DEF Triggered
    <3>3. \A b \in 1..Len(beats) : Before(beats[b].during)' = Before(beats'[b].during)
      BY <1>3 DEF Before, LettersKept
    <3> QED
      BY SMTT(20), <1>0, <1>2, <1>3, <2>1, <3>2, <3>3 DEF Triggered, Moved, LettersKept
  <2> QED
    BY <2>2, <2>3, <2>4, <2>5, <2>6
<1> QED
  BY <1>4, <1>5, <1>6, <1>7, <1>8 DEF RoundWhole, RoundInv, RoundInTime

LEMMA EndRunKeeps ==
  ASSUME RoundWhole, Round!EndRun
  PROVE RoundWhole'
<1>1. RoundTyped /\ RowPlaces /\ LetterPlaces /\ OneLost
  BY DEF RoundWhole, RoundInv
<1>2. /\ hand.at = "end" /\ Moved("reveal") /\ beats' = beats /\ runs # <<>>
      /\ \/ hand.batch.stop \in Round!TerminalStops /\ LastEnded(runs, runs')
         \/ hand.batch.stop \notin Round!TerminalStops /\ runs' = runs
  BY <1>1, GotoMoves, TerminalizedDoes DEF Round!EndRun, Places, RowPlaces
<1>3. LettersKept /\ DirectionsKept /\ SettingsStay
  BY DEF Round!EndRun, LettersKept, ChronicleKept, DirectionsKept, SettingsStay
<1>0. /\ runs' \in Seq(RunForms) /\ Len(runs') = Len(runs) /\ Len(runs) \in Nat
      /\ \A i \in 1..Len(runs) : runs'[i].trigger = runs[i].trigger
      /\ runs' # <<>> /\ Len(runs) \in 1..Len(runs)
  <2>1. /\ runs' \in Seq(RunForms) /\ Len(runs') = Len(runs) /\ Len(runs) \in Nat
        /\ \A i \in 1..Len(runs) : runs'[i].trigger = runs[i].trigger
    BY <1>1, <1>2, RowsTyped DEF LastEnded, RoundTyped
  <2>2. Len(runs) # 0
    BY <1>1, <1>2, EmptySeq DEF RoundTyped
  <2>3. runs' # <<>>
    BY <2>1, <2>2, EmptySeq
  <2>4. Len(runs) \in 1..Len(runs)
    BY <2>1, <2>2
  <2> QED
    BY <2>1, <2>3, <2>4
<1>4. RoundTyped'
  BY <1>0, <1>1, <1>2, <1>3 DEF RoundTyped, Moved, LettersKept, DirectionsKept, SettingsStay
<1>5. RowPlaces'
  BY <1>0, <1>1, <1>2, <1>3 DEF RowPlaces, Moved, LettersKept
<1>6. LetterPlaces'
  BY <1>1, <1>2, <1>3
     DEF LetterPlaces, Uncommitted, Round!Terminal, Moved, Rested, LettersKept, DirectionsKept,
         SettingsStay
<1>7. OneLost'
  BY <1>1, <1>2, <1>3 DEF OneLost, Lost, Moved, Rested, LettersKept, DirectionsKept, SettingsStay
<1>8. ASSUME ~crashed'
      PROVE Steered' /\ Chronicled' /\ Counted' /\ StandsStill' /\ Triggered'
  <2>1. Steered /\ Chronicled /\ Counted /\ StandsStill /\ Triggered
    BY <1>3, <1>8 DEF RoundWhole, RoundInTime, SettingsStay
  <2>2. Steered'
    BY <1>2, <1>3, <2>1 DEF Steered, Moved, Rested, LettersKept, DirectionsKept, SettingsStay
  <2>3. Chronicled'
    <3>1. Round!TurnOf' = Round!TurnOf
      BY <1>2, <1>3 DEF Round!TurnOf, Moved, LettersKept
    <3> QED
      BY <1>0, <1>2, <1>3, <2>1, <3>1 DEF Chronicled, Moved
  <2>4. Counted'
    BY <1>0, <1>2, <1>3, <2>1 DEF Counted, Single, Moved, SettingsStay
  <2>5. StandsStill'
    <3>2. Round!TurnOf' = Round!TurnOf
      BY <1>2, <1>3 DEF Round!TurnOf, Moved, LettersKept
    <3>3. CASE hand.batch.stop \in Round!TerminalStops
      BY <1>2, <3>3 DEF StandsStill, Moved
    <3>4. CASE hand.batch.stop \notin Round!TerminalStops
      <4>1. \A l : (Clear(l)' <=> Clear(l)) /\ (Going(l)' <=> Going(l))
        BY <1>2, <3>4, SameClear
      <4>2. Single => Going(Round!TurnOf)
        BY <1>2, <2>1 DEF StandsStill, Going
      <4> QED
        BY <1>2, <1>3, <3>2, <4>1, <4>2 DEF StandsStill, Single, Moved, SettingsStay
    <3> QED
      BY <3>3, <3>4
  <2>6. Triggered'
    <3>1. \A l : Before(l)' = Before(l)
      BY <1>3 DEF Before, LettersKept
    <3>2. \A b \in 1..Len(beats) : beats[b].run \in 1..Len(runs)
      BY <2>1 DEF Chronicled
    <3>3. \A b \in 1..Len(beats) : Before(beats[b].during)' = Before(beats[b].during)
      BY <1>2, <1>3 DEF Before, LettersKept
    <3>4. \A b \in 1..Len(beats) : runs'[beats[b].run].trigger = runs[beats[b].run].trigger
      BY <1>0, <3>2
    <3> QED
      BY <1>0, <1>2, <1>3, <2>1, <3>3, <3>4 DEF Triggered, Moved, LettersKept
  <2> QED
    BY <2>2, <2>3, <2>4, <2>5, <2>6
<1> QED
  BY <1>4, <1>5, <1>6, <1>7, <1>8 DEF RoundWhole, RoundInv, RoundInTime

LEMMA RevealAllKeeps ==
  ASSUME RoundWhole, Round!RevealAll
  PROVE RoundWhole'
<1>1. RoundTyped /\ RowPlaces /\ LetterPlaces /\ OneLost
  BY DEF RoundWhole, RoundInv
<1>2. /\ hand.at = "reveal" /\ runs' = runs /\ beats' = Round!Revealed
      /\ hand' \in HandForms /\ hand'.op = hand.op /\ hand'.letter = hand.letter
      /\ hand'.step = hand.step /\ hand'.frames = hand.frames + 1
      /\ hand'.stop = hand.batch.stop
      /\ \/ hand'.at = "note" /\ direction # 0
         \/ hand'.at = "read"
  BY RevealAllDoes DEF RoundWhole, Round!Pending
<1>3. LettersKept /\ DirectionsKept /\ SettingsStay
  BY DEF Round!RevealAll, LettersKept, DirectionsKept, SettingsStay
<1>0. /\ beats' \in Seq(BeatForms) /\ Len(beats') = Len(beats) /\ SameBeats(beats, beats')
      /\ \A b \in 1..Len(beats) : beats'[b].run = beats[b].run /\ beats'[b].during = beats[b].during
      /\ \A b \in 1..Len(beats) :
           \/ beats'[b] = beats[b] /\ beats[b].item # "PENDING"
           \/ beats[b].item = "PENDING" /\ beats'[b].item = "REVEALED" /\ beats'[b].after = Round!Written
  BY <1>1, <1>2, RevealedDoes DEF SameBeats
<1>4. RoundTyped'
  BY <1>0, <1>1, <1>2, <1>3 DEF RoundTyped, LettersKept, DirectionsKept, SettingsStay
<1>5. RowPlaces'
  BY <1>1, <1>2, <1>3 DEF RowPlaces, LettersKept
<1>6. LetterPlaces'
  BY <1>1, <1>2, <1>3 DEF LetterPlaces, Uncommitted, LettersKept
<1>7. OneLost'
  BY <1>1, <1>2, <1>3 DEF OneLost, Lost, LettersKept, SettingsStay
<1>8. ASSUME ~crashed'
      PROVE Steered' /\ Chronicled' /\ Counted' /\ StandsStill' /\ Triggered'
  <2>1. Steered /\ Chronicled /\ Counted /\ StandsStill /\ Triggered
    BY <1>3, <1>8 DEF RoundWhole, RoundInTime, SettingsStay
  <2>2. Steered'
    BY <1>2, <1>3, <2>1 DEF Steered, Moved, Rested, LettersKept, DirectionsKept, SettingsStay
  <2>3. Chronicled'
    <3>1. \A b \in 1..Len(beats) : beats'[b].item # "PENDING"
      BY <1>0
    <3> QED
      BY <1>0, <1>2, <2>1, <3>1 DEF Chronicled
  <2>4. Counted'
    <3>1. hand.frames + 1 > 0
      BY <1>1 DEF RoundTyped, HandForms
    <3> QED
      BY <1>2, <1>3, <2>1, <3>1 DEF Counted, Single, SettingsStay
  <2>5. StandsStill'
    <3>1. \A l : (Clear(l)' <=> Clear(l)) /\ (Going(l)' <=> Going(l))
      BY <1>0, <1>2, SameClear
    <3>2. Round!TurnOf' = Round!TurnOf
      BY <1>2, <1>3 DEF Round!TurnOf, LettersKept
    <3> QED
      BY <1>2, <1>3, <2>1, <3>1, <3>2 DEF StandsStill, Single, SettingsStay
  <2>6. Triggered'
    <3>1. ASSUME NEW b \in 1..Len(beats), beats[b].item = "PENDING", runs[beats[b].run].trigger = 0
          PROVE Round!Written <= Cardinality(Before(beats[b].during))
      <4>1. beats[b].run = Len(runs) /\ beats[b].during = Round!TurnOf
        BY <2>1, <3>1 DEF Chronicled
      <4>2. hand.op = "turn"
        <5>1. hand.op \in {"turn", "continue"}
          BY <1>1 DEF RoundTyped, HandForms
        <5>2. hand.op = "continue" => runs[Len(runs)].trigger \in 1..parkedRow.turn
          BY <1>1, <2>1 DEF RowPlaces, Triggered
        <5>3. 0 \notin 1..parkedRow.turn
          OBVIOUS
        <5> QED
          BY <3>1, <4>1, <5>1, <5>2, <5>3
      <4>3. beats[b].during = hand.letter /\ letter[hand.letter] = "ABSENT"
        BY <1>1, <1>2, <4>1, <4>2, TurnOfFits DEF LetterPlaces, Uncommitted
      <4>4. \A k \in Round!Letters : letter[k] # "ABSENT" => k < hand.letter
        <5>1. \A k \in Round!Letters : k > hand.letter \/ k = hand.letter \/ k < hand.letter
          BY <1>1, RowsTyped DEF Round!Letters
        <5> QED
          BY <1>1, <4>3, <5>1 DEF LetterPlaces
      <4>5. {k \in Round!Letters : letter[k] # "ABSENT"} = Before(hand.letter)
        BY <4>4 DEF Before
      <4>6. Round!Written = Cardinality(Before(hand.letter)) /\ Round!Written \in Nat
        BY <4>5, WrittenIsCount
      <4> QED
        BY <4>3, <4>6
    <3>2. \A b \in 1..Len(beats) :
            beats'[b].item = "REVEALED" /\ runs[beats'[b].run].trigger = 0
              => beats'[b].after <= Cardinality(Before(beats'[b].during))
      BY <1>0, <2>1, <3>1 DEF Triggered
    <3>3. \A b \in 1..Len(beats) : Before(beats[b].during)' = Before(beats'[b].during)
      BY <1>3 DEF Before, LettersKept
    <3> QED
      BY <1>0, <1>2, <1>3, <2>1, <3>2, <3>3 DEF Triggered, LettersKept
  <2> QED
    BY <2>2, <2>3, <2>4, <2>5, <2>6
<1> QED
  BY <1>4, <1>5, <1>6, <1>7, <1>8 DEF RoundWhole, RoundInv, RoundInTime

\* The letter t is at the outcome w; it was written at last.
Committing(t, w) ==
  /\ t \in Round!Letters /\ w \in {"GENERATING"} \cup Round!Terminal
  /\ letter' \in [Round!Letters -> {"ABSENT", "GENERATING"} \cup Round!Terminal]
  /\ letter'[t] = w
  /\ \A k \in Round!Letters : k # t => letter'[k] = letter[k]
  /\ \A k \in Round!Letters : letter[k] # "ABSENT" => letter'[k] # "ABSENT"

LEMMA CommittingDoes ==
  ASSUME RoundTyped, NEW t \in Round!Letters, NEW w \in {"GENERATING"} \cup Round!Terminal,
         letter' = [letter EXCEPT ![t] = w]
  PROVE Committing(t, w)
<1>1. letter \in [Round!Letters -> {"ABSENT", "GENERATING"} \cup Round!Terminal]
  BY DEF RoundTyped
<1>2. w # "ABSENT"
  BY DEF Round!Terminal
<1> QED
  BY <1>1, <1>2 DEF Committing

\* The runs and beats of a letter that is committed by its own handler.
LEMMA CommittedInTime ==
  ASSUME RoundTyped, RowPlaces, LetterPlaces, Chronicled, Triggered,
         hand.op = "turn", hand.at \in {"park", "answer"}, NEW w, Committing(hand.letter, w),
         Moved("sent"), parkedRow' = parkedRow, ChronicleKept
  PROVE Triggered'
<1>1. \A b \in 1..Len(beats) : beats[b].during \in Round!Letters
  BY SMTT(20), RowsTyped DEF Triggered, Round!Letters
<1>2. \A b \in 1..Len(beats) :
        letter'[beats[b].during] # "ABSENT" =>
          letter[beats[b].during] # "ABSENT" \/ beats[b].during = hand.letter
  BY <1>1 DEF Committing
<1>3. \A b \in 1..Len(beats) :
        letter'[beats[b].during] # "ABSENT" => runs[beats[b].run].trigger <= beats[b].during
  BY <1>2 DEF Triggered, Chronicled
<1>4. \A b \in 1..Len(beats) :
        beats[b].run = Len(runs) /\ runs[Len(runs)].trigger = 0 /\ letter'[beats[b].during] # "ABSENT"
          => beats[b].during = hand.letter
  BY <1>2 DEF Triggered
<1>5. \A b \in 1..Len(beats) :
        beats[b].item = "REVEALED" /\ runs[beats[b].run].trigger = 0
          => beats[b].after <= Cardinality(Before(beats[b].during)')
  <2>1. \A l : /\ Cardinality(Before(l)) \in Nat /\ Cardinality(Before(l)') \in Nat
               /\ Cardinality(Before(l)) <= Cardinality(Before(l)')
    BY BeforeGrows DEF Committing
  <2>2. SUFFICES ASSUME NEW b \in 1..Len(beats), beats[b].item = "REVEALED",
                        runs[beats[b].run].trigger = 0
                 PROVE beats[b].after <= Cardinality(Before(beats[b].during)')
    OBVIOUS
  <2>3. PICK d : d = beats[b].during
    OBVIOUS
  <2>4. beats[b].after <= Cardinality(Before(d)) /\ beats[b].after \in Nat
    BY <2>2, <2>3, RowsTyped DEF Triggered
  <2>5. beats[b].after <= Cardinality(Before(d)')
    BY <2>1, <2>4
  <2>6. Before(d)' = Before(beats[b].during)'
    BY <2>3 DEF Before, ChronicleKept
  <2> QED
    BY <2>5, <2>6
<1>6. hand'.letter = hand.letter /\ hand'.op = "turn" /\ hand'.at = "sent"
  BY DEF Moved
<1> QED
  BY <1>3, <1>4, <1>5, <1>6 DEF Triggered, ChronicleKept

LEMMA ParkRefusedKeeps ==
  ASSUME RoundWhole, Round!Park, letter' = letter, Round!Goto("clear")
  PROVE RoundWhole'
<1>1. RoundTyped /\ RowPlaces /\ LetterPlaces /\ OneLost
  BY DEF RoundWhole, RoundInv
<1>2. hand.at = "park" /\ hand.op = "turn" /\ Moved("clear") /\ parkedRow.turn = 0
  BY <1>1, GotoMoves DEF Round!Park, Places, RowPlaces
<1>3. LettersKept /\ ChronicleKept /\ DirectionsKept /\ SettingsStay
  BY DEF Round!Park, LettersKept, ChronicleKept, DirectionsKept, SettingsStay
<1>4. RoundTyped'
  BY <1>1, <1>2, <1>3, HandTyped DEF Moved, Rested, SettingsStay
<1>5. RowPlaces'
  BY <1>1, <1>2, <1>3 DEF RowPlaces,
         Moved, Rested, LettersKept, ChronicleKept, DirectionsKept, SettingsStay
<1>6. LetterPlaces'
  BY <1>1, <1>2, <1>3 DEF LetterPlaces, Uncommitted, Round!Terminal,
         Moved, Rested, LettersKept, ChronicleKept, DirectionsKept, SettingsStay
<1>7. OneLost'
  BY <1>1, <1>2, <1>3 DEF OneLost, Lost,
         Moved, Rested, LettersKept, ChronicleKept, DirectionsKept, SettingsStay
<1>8. ASSUME ~crashed'
      PROVE Steered' /\ Chronicled' /\ Counted' /\ StandsStill' /\ Triggered'
  <2>1. Steered /\ Chronicled /\ Counted /\ StandsStill /\ Triggered
    BY <1>3, <1>8 DEF RoundWhole, RoundInTime, SettingsStay
  <2>2. Steered'
    BY <1>2, <1>3, <2>1 DEF Steered,
         Moved, Rested, LettersKept, ChronicleKept, DirectionsKept, SettingsStay
  <2>3. Chronicled'
    BY <1>1, <1>2, <1>3, <2>1
       DEF Chronicled, Moved, Rested, Round!TurnOf, LettersKept, ChronicleKept, DirectionsKept,
           SettingsStay
  <2>4. Counted'
    BY <1>2, <1>3, <2>1 DEF Counted, Single,
         Moved, Rested, LettersKept, ChronicleKept, DirectionsKept, SettingsStay
  <2>5. StandsStill'
    <3>1. \A l : (Clear(l)' <=> Clear(l)) /\ (Going(l)' <=> Going(l))
      BY <1>3, SameClear DEF ChronicleKept
    <3>2. Round!TurnOf' = Round!TurnOf
      BY <1>2, <1>3 DEF Round!TurnOf, Moved, LettersKept
    <3> QED
      BY <1>1, <1>2, <1>3, <2>1, <3>1, <3>2
         DEF StandsStill, Waiting, Single, Moved, Rested, RowPlaces, LettersKept,
             ChronicleKept, DirectionsKept, SettingsStay
  <2>6. Triggered'
    <3>1. \A l : Before(l)' = Before(l)
      BY <1>3 DEF Before, LettersKept
    <3> QED
      BY <1>1, <1>2, <1>3, <2>1, <3>1 DEF Triggered,
         Moved, Rested, LettersKept, ChronicleKept, DirectionsKept, SettingsStay
  <2> QED
    BY <2>2, <2>3, <2>4, <2>5, <2>6
<1> QED
  BY <1>4, <1>5, <1>6, <1>7, <1>8 DEF RoundWhole, RoundInv, RoundInTime

LEMMA ParkDoneKeeps ==
  ASSUME RoundWhole, Round!Park, letter' = [letter EXCEPT ![hand.letter] = "GENERATING"], Round!Goto("sent")
  PROVE RoundWhole'
<1>1. RoundTyped /\ RowPlaces /\ LetterPlaces /\ OneLost
  BY DEF RoundWhole, RoundInv
<1>2. /\ hand.at = "park" /\ hand.op = "turn" /\ Moved("sent") /\ parkedRow.turn = 0
      /\ parkedRow' = parkedRow
  BY <1>1, GotoMoves DEF Round!Park, Places, RowPlaces
<1>3. ChronicleKept /\ DirectionsKept /\ SettingsStay
  BY DEF Round!Park, ChronicleKept, DirectionsKept, SettingsStay
<1>0. Committing(hand.letter, "GENERATING")
  <2>1. hand.letter \in Round!Letters
    BY <1>1, <1>2, RowsTyped DEF RowPlaces, Round!Letters
  <2> QED
    BY <1>1, <2>1, CommittingDoes
<1>4. RoundTyped'
  BY <1>0, <1>1, <1>2, <1>3
     DEF RoundTyped, Committing, Moved, ChronicleKept, DirectionsKept, SettingsStay
<1>5. RowPlaces'
  BY <1>1, <1>2, <1>3 DEF RowPlaces, Moved, Rested, ChronicleKept, DirectionsKept, SettingsStay
<1>6. LetterPlaces'
  <2>1. \A l \in Round!Letters : l > hand.letter => l # hand.letter
    BY <1>1, RowsTyped DEF Round!Letters
  <2> QED
    BY <1>0, <1>1, <1>2, <2>1 DEF LetterPlaces, Uncommitted, Committing, Moved
<1>7. OneLost'
  <2>1. \A l \in Round!Letters : Lost(l)' => Lost(l)
    BY <1>0, <1>2 DEF Lost, Committing, Moved
  <2> QED
    BY <1>1, <1>3, <2>1 DEF OneLost, SettingsStay
<1>8. ASSUME ~crashed'
      PROVE Steered' /\ Chronicled' /\ Counted' /\ StandsStill' /\ Triggered'
  <2>1. Steered /\ Chronicled /\ Counted /\ StandsStill /\ Triggered
    BY <1>3, <1>8 DEF RoundWhole, RoundInTime, SettingsStay
  <2>2. Steered'
    BY <1>2, <1>3, <2>1 DEF Steered, Moved, Rested, ChronicleKept, DirectionsKept, SettingsStay
  <2>3. Chronicled'
    <3>1. Round!TurnOf' = Round!TurnOf
      BY <1>2 DEF Round!TurnOf, Moved
    <3> QED
      BY <1>2, <1>3, <2>1, <3>1 DEF Chronicled, Moved, ChronicleKept
  <2>4. Counted'
    BY <1>2, <1>3, <2>1
       DEF Counted, Single, Moved, Rested, ChronicleKept, DirectionsKept, SettingsStay
  <2>5. StandsStill'
    <3>1. \A l : (Clear(l)' <=> Clear(l)) /\ (Going(l)' <=> Going(l))
      BY <1>3, SameClear DEF ChronicleKept
    <3>2. Round!TurnOf' = Round!TurnOf
      BY <1>2 DEF Round!TurnOf, Moved
    <3> QED
      BY <1>2, <1>3, <2>1, <3>1, <3>2 DEF StandsStill, Waiting, Counted, Moved, ChronicleKept
  <2>6. Triggered'
    BY <1>0, <1>1, <1>2, <1>3, <2>1, CommittedInTime
  <2> QED
    BY <2>2, <2>3, <2>4, <2>5, <2>6
<1> QED
  BY <1>4, <1>5, <1>6, <1>7, <1>8 DEF RoundWhole, RoundInv, RoundInTime

LEMMA ParkKeeps ==
  ASSUME RoundWhole, Round!Park
  PROVE RoundWhole'
  BY ParkRefusedKeeps, ParkDoneKeeps DEF Round!Park

LEMMA AnswerRefusedKeeps ==
  ASSUME RoundWhole, Round!Answer, letter' = letter, Round!Done
  PROVE RoundWhole'
<1>1. RoundTyped /\ RowPlaces /\ LetterPlaces /\ OneLost
  BY DEF RoundWhole, RoundInv
<1>2. hand.at = "answer" /\ Rested
  BY <1>1, DoneRests DEF Round!Answer
<1>3. LettersKept /\ ChronicleKept /\ DirectionsKept /\ SettingsStay
  BY DEF Round!Answer, LettersKept, ChronicleKept, DirectionsKept, SettingsStay
<1>4. RoundTyped'
  BY <1>1, <1>2, <1>3, HandTyped DEF Moved, Rested, SettingsStay
<1>5. RowPlaces'
  BY <1>1, <1>2, <1>3 DEF RowPlaces,
         Moved, Rested, LettersKept, ChronicleKept, DirectionsKept, SettingsStay
<1>6. LetterPlaces'
  BY <1>1, <1>2, <1>3 DEF LetterPlaces, Uncommitted, Round!Terminal,
         Moved, Rested, LettersKept, ChronicleKept, DirectionsKept, SettingsStay
<1>7. OneLost'
  BY <1>1, <1>2, <1>3 DEF OneLost, Lost,
         Moved, Rested, LettersKept, ChronicleKept, DirectionsKept, SettingsStay
<1>8. ASSUME ~crashed'
      PROVE Steered' /\ Chronicled' /\ Counted' /\ StandsStill' /\ Triggered'
  <2>1. Steered /\ Chronicled /\ Counted /\ StandsStill /\ Triggered
    BY <1>3, <1>8 DEF RoundWhole, RoundInTime, SettingsStay
  <2>2. Steered'
    BY <1>2, <1>3, <2>1 DEF Steered,
         Moved, Rested, LettersKept, ChronicleKept, DirectionsKept, SettingsStay
  <2>3. Chronicled'
    BY <1>1, <1>2, <1>3, <2>1
       DEF Chronicled, Moved, Rested, Round!TurnOf, LettersKept, ChronicleKept, DirectionsKept,
           SettingsStay
  <2>4. Counted'
    BY <1>2, <1>3, <2>1 DEF Counted, Single,
         Moved, Rested, LettersKept, ChronicleKept, DirectionsKept, SettingsStay
  <2>5. StandsStill'
    <3>1. parkedRow.turn = 0 \/ parkedRow.phase = "reply"
      BY <1>1, <1>2, <2>1 DEF RowPlaces, StandsStill, RoundTyped, HandForms
    <3> QED
      BY <1>2, <1>3, <3>1, RestedStands DEF LettersKept
  <2>6. Triggered'
    <3>1. \A l : Before(l)' = Before(l)
      BY <1>3 DEF Before, LettersKept
    <3> QED
      BY <1>1, <1>2, <1>3, <2>1, <3>1 DEF Triggered,
         Moved, Rested, LettersKept, ChronicleKept, DirectionsKept, SettingsStay
  <2> QED
    BY <2>2, <2>3, <2>4, <2>5, <2>6
<1> QED
  BY <1>4, <1>5, <1>6, <1>7, <1>8 DEF RoundWhole, RoundInv, RoundInTime

LEMMA AnswerDoneKeeps ==
  ASSUME RoundWhole, Round!Answer, Round!Goto("sent"), NEW outcome \in {"REPLIED", "FAILED"},
         letter' = [letter EXCEPT ![Round!TurnOf] = IF Round!Over(Round!TurnOf) THEN @ ELSE outcome]
  PROVE RoundWhole'
<1>1. RoundTyped /\ RowPlaces /\ LetterPlaces /\ OneLost
  BY DEF RoundWhole, RoundInv
<1>2. /\ hand.at = "answer" /\ Moved("sent") /\ parkedRow' = parkedRow
      /\ Round!TurnOf \in Round!Letters
      /\ \E w \in Round!Terminal : letter' = [letter EXCEPT ![Round!TurnOf] = w]
  <2>1. hand.at = "answer" /\ Moved("sent") /\ parkedRow' = parkedRow
    BY <1>1, GotoMoves DEF Round!Answer, Places
  <2>2. hand.op \in {"turn", "continue"}
    BY <1>1 DEF RoundTyped, HandForms
  <2>3. Round!TurnOf \in Round!Letters
    BY <1>1, <2>1, <2>2, RowsTyped, TurnOfFits DEF RowPlaces, Round!Letters
  <2>4. letter \in [Round!Letters -> {"ABSENT", "GENERATING"} \cup Round!Terminal]
    BY <1>1 DEF RoundTyped
  <2>5. \E w \in Round!Terminal : letter' = [letter EXCEPT ![Round!TurnOf] = w]
    <3>1. outcome \in Round!Terminal
      BY DEF Round!Terminal
    <3>2. CASE Round!Over(Round!TurnOf)
      <4>1. letter[Round!TurnOf] \in Round!Terminal
        BY <3>2 DEF Round!Over
      <4>2. letter' = [letter EXCEPT ![Round!TurnOf] = letter[Round!TurnOf]]
        BY <2>3, <2>4, <3>2
      <4> QED
        BY <4>1, <4>2
    <3>3. CASE ~Round!Over(Round!TurnOf)
      BY <3>1, <3>3
    <3> QED
      BY <3>2, <3>3
  <2> QED
    BY <2>1, <2>3, <2>5
<1>3. ChronicleKept /\ DirectionsKept /\ SettingsStay
  BY DEF Round!Answer, ChronicleKept, DirectionsKept, SettingsStay
<1>9. PICK w \in Round!Terminal : letter' = [letter EXCEPT ![Round!TurnOf] = w]
  BY <1>2
<1>0. Committing(Round!TurnOf, w) /\ w \notin {"ABSENT", "GENERATING"}
  BY <1>1, <1>2, <1>9, CommittingDoes DEF Round!Terminal
<1>10. /\ hand.op = "turn" => Round!TurnOf = hand.letter
       /\ hand.op = "continue" => Round!TurnOf = parkedRow.turn
       /\ hand.op \in {"turn", "continue"}
  BY <1>1, TurnOfFits DEF RoundTyped, HandForms
<1>4. RoundTyped'
  BY <1>0, <1>1, <1>2, <1>3
     DEF RoundTyped, Committing, Moved, ChronicleKept, DirectionsKept, SettingsStay
<1>5. RowPlaces'
  BY <1>1, <1>2, <1>3 DEF RowPlaces, Moved, Rested, ChronicleKept, DirectionsKept, SettingsStay
<1>6. LetterPlaces'
  <2>1. \A l \in Round!Letters : l > hand.letter => l # Round!TurnOf
    <3>1. CASE hand.op = "turn"
      BY <1>1, <1>10, <3>1, RowsTyped DEF Round!Letters
    <3>2. CASE hand.op = "continue"
      BY <1>1, <1>2, <1>10, <3>2 DEF LetterPlaces, RowPlaces
    <3> QED
      BY <1>10, <3>1, <3>2
  <2>2. \A l \in Round!Letters : l > hand.letter => letter'[l] = "ABSENT"
    BY <1>0, <1>1, <2>1 DEF LetterPlaces, Committing
  <2>3. hand.op = "turn" => parkedRow.turn = 0
    BY <1>1, <1>2 DEF RowPlaces
  <2> QED
    BY <1>0, <1>2, <1>9, <1>10, <2>2, <2>3 DEF LetterPlaces, Uncommitted, Committing, Moved
<1>7. OneLost'
  <2>1. \A l \in Round!Letters : Lost(l)' => Lost(l)
    BY <1>0, <1>2 DEF Lost, Committing, Moved
  <2> QED
    BY <1>1, <1>3, <2>1 DEF OneLost, SettingsStay
<1>8. ASSUME ~crashed'
      PROVE Steered' /\ Chronicled' /\ Counted' /\ StandsStill' /\ Triggered'
  <2>1. Steered /\ Chronicled /\ Counted /\ StandsStill /\ Triggered
    BY <1>3, <1>8 DEF RoundWhole, RoundInTime, SettingsStay
  <2>2. Steered'
    BY <1>2, <1>3, <2>1 DEF Steered, Moved, Rested, ChronicleKept, DirectionsKept, SettingsStay
  <2>3. Chronicled'
    <3>1. Round!TurnOf' = Round!TurnOf
      BY <1>2 DEF Round!TurnOf, Moved
    <3> QED
      BY <1>2, <1>3, <2>1, <3>1 DEF Chronicled, Moved, ChronicleKept
  <2>4. Counted'
    BY <1>2, <1>3, <2>1
       DEF Counted, Single, Moved, Rested, ChronicleKept, DirectionsKept, SettingsStay
  <2>5. StandsStill'
    <3>1. hand.op = "turn" => letter'[hand.letter] # "GENERATING"
      BY <1>0, <1>10 DEF Committing
    <3> QED
      BY <1>2, <3>1 DEF StandsStill, Moved
  <2>6. Triggered'
    <3>1. CASE hand.op = "turn"
      BY <1>0, <1>1, <1>2, <1>3, <1>10, <2>1, <3>1, CommittedInTime
    <3>2. CASE hand.op = "continue"
      <4>1. \A k \in Round!Letters : letter'[k] # "ABSENT" <=> letter[k] # "ABSENT"
        <5>1. letter[Round!TurnOf] # "ABSENT"
          BY <1>1, <1>10, <3>2 DEF LetterPlaces, RowPlaces
        <5> QED
          BY <1>0, <5>1 DEF Committing
      <4>2. \A b \in 1..Len(beats) : beats[b].during \in Round!Letters
        BY <1>1, <2>1, RowsTyped DEF Triggered, Round!Letters
      <4>3. \A b \in 1..Len(beats) :
              letter'[beats[b].during] # "ABSENT" <=> letter[beats[b].during] # "ABSENT"
        BY <4>1, <4>2
      <4>4. \A l : Before(l)' = Before(l)
        BY <4>1 DEF Before
      <4> QED
        BY <1>2, <1>3, <2>1, <4>3, <4>4 DEF Triggered, Moved, ChronicleKept
    <3> QED
      BY <1>10, <3>1, <3>2
  <2> QED
    BY <2>2, <2>3, <2>4, <2>5, <2>6
<1> QED
  BY <1>4, <1>5, <1>6, <1>7, <1>8 DEF RoundWhole, RoundInv, RoundInTime

LEMMA AnswerKeeps ==
  ASSUME RoundWhole, Round!Answer
  PROVE RoundWhole'
  BY AnswerRefusedKeeps, AnswerDoneKeeps DEF Round!Answer

LEMMA AdoptTriggerKeeps ==
  ASSUME RoundWhole, Round!AdoptTrigger
  PROVE RoundWhole'
<1>1. RoundTyped /\ RowPlaces /\ LetterPlaces /\ OneLost
  BY DEF RoundWhole, RoundInv
<1>2. /\ hand.at = "adopt" /\ beats' = beats
      /\ \/ Moved("project") /\ letter[Round!TurnOf] = "REPLIED"
         \/ Moved("row") /\ letter[Round!TurnOf] = "GENERATING"
         \/ /\ Moved("end_round")
            /\ letter[Round!TurnOf] # "REPLIED" /\ letter[Round!TurnOf] # "GENERATING"
  <2>1. hand.at = "adopt" /\ beats' = beats
    BY DEF Round!AdoptTrigger
  <2>2. CASE letter[Round!TurnOf] = "REPLIED"
    BY <1>1, <2>1, <2>2, GotoMoves DEF Round!AdoptTrigger, Places
  <2>3. CASE letter[Round!TurnOf] = "GENERATING"
    BY <1>1, <2>1, <2>3, GotoMoves DEF Round!AdoptTrigger, Places
  <2>4. CASE letter[Round!TurnOf] # "REPLIED" /\ letter[Round!TurnOf] # "GENERATING"
    BY <1>1, <2>1, <2>4, GotoMoves DEF Round!AdoptTrigger, Places
  <2> QED
    BY <2>2, <2>3, <2>4
<1>3. LettersKept /\ DirectionsKept /\ SettingsStay
  BY DEF Round!AdoptTrigger, LettersKept, ChronicleKept, DirectionsKept, SettingsStay
<1>9. /\ hand.op = "turn" => Round!TurnOf = hand.letter
      /\ hand.op = "continue" => Round!TurnOf = parkedRow.turn
      /\ hand.op \in {"turn", "continue"} /\ Round!TurnOf \in 0..MaxLetters
  BY <1>1, TurnOfFits DEF RoundTyped, HandForms
<1>10. /\ hand.op = "turn" => hand.letter \in Round!Letters /\ parkedRow.turn = 0
       /\ hand.op = "continue" => letter[Round!TurnOf] \in Round!Terminal
  BY <1>1, <1>2, <1>9, RowsTyped DEF RowPlaces, LetterPlaces, Round!Letters
<1>0. \/ runs' = runs /\ (runs = <<>> \/ runs[Len(runs)].trigger # 0)
      \/ /\ LastAdopted(runs, runs', Round!TurnOf)
         /\ runs # <<>> /\ runs[Len(runs)].trigger = 0
  BY <1>1, <1>9, AdoptedDoes DEF Round!AdoptTrigger
<1>11. /\ runs' \in Seq(RunForms) /\ Len(runs') = Len(runs)
       /\ \A i \in 1..Len(runs) : runs'[i].terminal = runs[i].terminal
       /\ runs # <<>> => runs' # <<>>
  <2>1. /\ runs' \in Seq(RunForms) /\ Len(runs') = Len(runs)
        /\ \A i \in 1..Len(runs) : runs'[i].terminal = runs[i].terminal
    BY <1>0, <1>1 DEF LastAdopted, RoundTyped
  <2>2. runs # <<>> => runs' # <<>>
    BY <1>1, <2>1, EmptySeq DEF RoundTyped
  <2> QED
    BY <2>1, <2>2
<1>4. RoundTyped'
  BY <1>1, <1>2, <1>3, <1>11 DEF RoundTyped, Moved, LettersKept, DirectionsKept, SettingsStay
<1>5. RowPlaces'
  BY <1>1, <1>2, <1>3, <1>9, <1>10 DEF RowPlaces, Moved, LettersKept, Round!Terminal
<1>6. LetterPlaces'
  <2>1. hand.op = "turn" =>
          letter[hand.letter] \in {"GENERATING"} \cup Round!Terminal
    BY <1>1, <1>2, <1>10 DEF LetterPlaces, RoundTyped
  <2> QED
    BY <1>1, <1>2, <1>3, <1>9, <1>10, <2>1
       DEF LetterPlaces, Uncommitted, Round!Terminal, Moved, LettersKept
<1>7. OneLost'
  <2>1. \A l \in Round!Letters : Lost(l)' => Lost(l)
    BY <1>2, <1>3, <1>9 DEF Lost, Moved, LettersKept
  <2> QED
    BY <1>1, <1>3, <2>1 DEF OneLost, SettingsStay
<1>8. ASSUME ~crashed'
      PROVE Steered' /\ Chronicled' /\ Counted' /\ StandsStill' /\ Triggered'
  <2>1. Steered /\ Chronicled /\ Counted /\ StandsStill /\ Triggered
    BY <1>3, <1>8 DEF RoundWhole, RoundInTime, SettingsStay
  <2>2. Steered'
    BY <1>2, <1>3, <2>1 DEF Steered, Moved, Rested, LettersKept, DirectionsKept, SettingsStay
  <2>3. Chronicled'
    BY <1>2, <1>3, <1>11, <2>1 DEF Chronicled, Moved
  <2>4. Counted'
    BY <1>2, <1>3, <1>11, <2>1 DEF Counted, Single, Moved, SettingsStay
  <2>5. StandsStill'
    <3>1. \A l : (Clear(l)' <=> Clear(l)) /\ (Going(l)' <=> Going(l))
      <4>1. \A b \in 1..Len(beats) : beats[b].run \in 1..Len(runs)
        BY <2>1 DEF Chronicled
      <4>2. \A b \in 1..Len(beats) : runs'[beats[b].run].terminal = runs[beats[b].run].terminal
        BY <1>11, <4>1
      <4>3. \A l : Clear(l)' <=> Clear(l)
        BY <1>2, <4>2 DEF Clear
      <4>4. runs # <<>> <=> runs' # <<>>
        BY <1>1, <1>11, EmptySeq DEF RoundTyped
      <4>5. runs # <<>> => Len(runs) \in 1..Len(runs)
        BY <1>1, RowsTyped, EmptySeq DEF RoundTyped
      <4>6. runs # <<>> => runs'[Len(runs')].terminal = runs[Len(runs)].terminal
        BY <1>11, <4>5
      <4> QED
        BY <4>3, <4>4, <4>6 DEF Going
    <3>2. Round!TurnOf' = Round!TurnOf
      BY <1>2, <1>3 DEF Round!TurnOf, Moved, LettersKept
    <3>3. letter[Round!TurnOf] = "GENERATING" => Waiting(Round!TurnOf)
      BY <1>2, <1>9, <1>10, <2>1 DEF StandsStill, Round!Terminal
    <3> QED
      BY <1>2, <1>3, <3>1, <3>2, <3>3 DEF StandsStill, Waiting, Single, Moved
  <2>6. Triggered'
    <3>1. \A b \in 1..Len(beats) : Before(beats[b].during)' = Before(beats[b].during)
      BY <1>2, <1>3 DEF Before, LettersKept
    <3>2. \A b \in 1..Len(beats) : beats[b].run \in 1..Len(runs)
      BY <2>1 DEF Chronicled
    <3>3. letter[Round!TurnOf] = "GENERATING" => runs # <<>>
      BY <1>2, <1>9, <1>10, <2>1 DEF StandsStill, Round!Terminal
    <3>4. hand'.letter = hand.letter
      BY <1>2 DEF Moved
    <3>5. CASE runs' = runs /\ (runs = <<>> \/ runs[Len(runs)].trigger # 0)
      <4>1. \A b \in 1..Len(beats) : runs # <<>>
        <5>1. runs = <<>> => 1..Len(runs) = {}
          OBVIOUS
        <5> QED
          BY <3>2, <5>1
      <4>2. hand'.at = "row" => runs # <<>> /\ runs[Len(runs)].trigger # 0
        BY <1>2, <3>3, <3>5 DEF Moved
      <4>3. \A b \in 1..Len(beats) : runs[Len(runs)].trigger # 0
        BY <3>5, <4>1
      <4> QED
        BY <1>2, <1>3, <2>1, <3>1, <3>4, <3>5, <4>2, <4>3 DEF Triggered, LettersKept
    <3>6. CASE /\ LastAdopted(runs, runs', Round!TurnOf)
               /\ runs # <<>> /\ runs[Len(runs)].trigger = 0
      <4>1. hand.op = "turn"
        <5>1. hand.op = "continue" => runs[Len(runs)].trigger \in 1..parkedRow.turn
          BY <1>1, <2>1 DEF Triggered, RowPlaces
        <5>2. 0 \notin 1..parkedRow.turn
          OBVIOUS
        <5> QED
          BY <1>9, <3>6, <5>1, <5>2
      <4>2. /\ Round!TurnOf = hand.letter /\ parkedRow.turn = 0 /\ hand.letter # 0
            /\ hand.letter <= hand.letter
        BY <1>1, <1>9, <1>10, <4>1, RowsTyped DEF Round!Letters
      <4>3. /\ \A i \in 1..Len(runs) : i # Len(runs) => runs'[i] = runs[i]
            /\ runs'[Len(runs)].trigger = hand.letter /\ Len(runs') = Len(runs)
        BY <3>6, <4>2 DEF LastAdopted
      <4>4. \A i \in 1..Len(runs) : runs'[i].trigger <= hand.letter
        BY <2>1, <4>2, <4>3 DEF Triggered
      <4>5. \A b \in 1..Len(beats) :
              letter[beats[b].during] # "ABSENT" => runs'[beats[b].run].trigger <= beats[b].during
        <5>1. SUFFICES ASSUME NEW b \in 1..Len(beats), letter[beats[b].during] # "ABSENT"
                       PROVE runs'[beats[b].run].trigger <= beats[b].during
          OBVIOUS
        <5>2. CASE beats[b].run = Len(runs)
          <6>1. beats[b].during = hand.letter
            BY <2>1, <3>6, <5>1, <5>2 DEF Triggered
          <6> QED
            BY <4>2, <4>3, <5>2, <6>1
        <5>3. CASE beats[b].run # Len(runs)
          BY <2>1, <3>2, <4>3, <5>1, <5>3 DEF Triggered
        <5> QED
          BY <5>2, <5>3
      <4>6. \A b \in 1..Len(beats) :
              beats[b].item = "REVEALED" /\ runs'[beats[b].run].trigger = 0
                => beats[b].after <= Cardinality(Before(beats[b].during))
        BY <2>1, <3>2, <4>2, <4>3 DEF Triggered
      <4> QED
        BY <1>2, <1>3, <1>11, <2>1, <3>1, <3>4, <3>6, <4>2, <4>3, <4>4, <4>5, <4>6
           DEF Triggered, LettersKept
    <3> QED
      BY <1>0, <3>5, <3>6
  <2> QED
    BY <2>2, <2>3, <2>4, <2>5, <2>6
<1> QED
  BY <1>4, <1>5, <1>6, <1>7, <1>8 DEF RoundWhole, RoundInv, RoundInTime

LEMMA RoundKept ==
  ASSUME RoundWhole, Round!Next
  PROVE RoundWhole'
<1>1. CASE Round!Post \/ Round!Supersede \/ Round!Unpark \/ Round!Continue
  BY <1>1, PostKeeps, SupersedeKeeps, UnparkKeeps, ContinueKeeps
<1>2. CASE Round!SaveDirection \/ Round!SaveMode \/ Round!Inbox \/ Round!Crash
  BY <1>2, SaveDirectionKeeps, SaveModeKeeps, InboxKeeps, CrashKeeps
<1>3. CASE Round!Narrate \/ Round!Wind \/ Round!RecordBeat \/ Round!EnqueueReveals
  BY <1>3, NarrateKeeps, WindKeeps, RecordBeatKeeps, EnqueueRevealsKeeps
<1>4. CASE Round!EndRun \/ Round!RevealAll \/ Round!NoteDirection \/ Round!DropDirection
           \/ Round!NextStep
  BY <1>4, EndRunKeeps, RevealAllKeeps, NoteDirectionKeeps, DropDirectionKeeps, NextStepKeeps
<1>5. CASE Round!Park \/ Round!Answer \/ Round!LetterSent \/ Round!AdoptTrigger
  BY <1>5, ParkKeeps, AnswerKeeps, LetterSentKeeps, AdoptTriggerKeeps
<1>6. CASE Round!ProjectResponse \/ Round!EndRound \/ Round!WriteRow \/ Round!RewriteRow
  BY <1>6, ProjectResponseKeeps, EndRoundKeeps, WriteRowKeeps, RewriteRowKeeps
<1>7. CASE Round!WritePhase \/ Round!CloseNow \/ Round!ClearRow
  BY <1>7, WritePhaseKeeps, CloseNowKeeps, ClearRowKeeps
<1> QED
  BY <1>1, <1>2, <1>3, <1>4, <1>5, <1>6, <1>7 DEF Round!Next

LEMMA RoundStutter == RoundWhole /\ UNCHANGED roundVars => RoundWhole'
<1> SUFFICES ASSUME RoundWhole, UNCHANGED roundVars PROVE RoundWhole'
  OBVIOUS
<1>1. LettersKept /\ ChronicleKept /\ DirectionsKept /\ SettingsStay /\ hand' = hand
  BY DEF roundVars, LettersKept, ChronicleKept, DirectionsKept, SettingsStay
<1>2. RoundTyped' /\ RowPlaces' /\ LetterPlaces' /\ OneLost'
  BY <1>1 DEF RoundWhole, RoundInv, RoundTyped, RowPlaces, LetterPlaces, OneLost, Lost,
              LettersKept, ChronicleKept, DirectionsKept, SettingsStay
<1>3. \A l : (Clear(l)' <=> Clear(l)) /\ (Going(l)' <=> Going(l)) /\ Before(l)' = Before(l)
  BY <1>1, SameClear DEF ChronicleKept, LettersKept, Before
<1>4. Round!TurnOf' = Round!TurnOf
  BY <1>1 DEF Round!TurnOf, LettersKept
<1>5. ASSUME ~crashed'
      PROVE Steered' /\ Chronicled' /\ Counted' /\ StandsStill' /\ Triggered'
  <2>1. Steered /\ Chronicled /\ Counted /\ StandsStill /\ Triggered
    BY <1>1, <1>5 DEF RoundWhole, RoundInTime, SettingsStay
  <2>2. Steered' /\ Counted'
    BY <1>1, <2>1 DEF Steered, Counted, Single, ChronicleKept, DirectionsKept, SettingsStay
  <2>3. Chronicled'
    BY <1>1, <1>4, <2>1 DEF Chronicled, ChronicleKept
  <2>4. StandsStill'
    BY <1>1, <1>3, <1>4, <2>1
       DEF StandsStill, Waiting, Single, LettersKept, ChronicleKept, SettingsStay
  <2>5. Triggered'
    BY <1>1, <1>3, <2>1 DEF Triggered, LettersKept, ChronicleKept
  <2> QED
    BY <2>2, <2>3, <2>4, <2>5
<1> QED
  BY <1>2, <1>5 DEF RoundWhole, RoundInv, RoundInTime

LEMMA NoLetterForgotten == RoundWhole => Round!NoForgottenLetter
<1> SUFFICES ASSUME RoundWhole, hand.at = "idle"
             PROVE Round!Cardinality({l \in Round!Letters :
                                        letter[l] = "GENERATING" /\ parkedRow.turn # l})
                     <= (IF crashed THEN 1 ELSE 0)
  BY DEF Round!NoForgottenLetter
<1> DEFINE S == {l \in Round!Letters : letter[l] = "GENERATING" /\ parkedRow.turn # l}
<1>1. Round!Cardinality(S) = Cardinality(S)
  BY DEF Round!Cardinality, Cardinality
<1>2. \A l \in S : l \in Round!Letters /\ Lost(l)
  BY DEF Lost
<1>3. \A l, k \in S : crashed /\ l = k
  BY <1>2 DEF RoundWhole, RoundInv, OneLost
<1> HIDE DEF S
<1>4. CASE S = {}
  <2>1. Cardinality(S) = 0
    BY <1>4, FS_EmptySet
  <2> QED
    BY <1>1, <2>1 DEF S
<1>5. CASE S # {}
  <2>1. PICK l \in S : TRUE
    BY <1>5
  <2>2. S = {l} /\ crashed
    BY <1>3, <2>1
  <2>3. Cardinality(S) = 1
    BY <2>2, FS_Singleton
  <2> QED
    BY <1>1, <2>2, <2>3 DEF S
<1> QED
  BY <1>4, <1>5

\* A letter that is present is counted behind those before it.
LEMMA CountedBehind ==
  ASSUME NEW d \in Round!Letters, letter[d] # "ABSENT"
  PROVE /\ Cardinality({k \in 1..d : letter[k] # "ABSENT"}) = Cardinality(Before(d)) + 1
        /\ Cardinality(Before(d)) \in Nat
<1>1. IsFiniteSet(Round!Letters)
  BY FS_Interval, LettersAssumption DEF Round!Letters
<1>2. IsFiniteSet(Before(d))
  BY <1>1, FS_Subset DEF Before
<1>3. d \notin Before(d)
  BY DEF Before, Round!Letters
<1>4. {k \in 1..d : letter[k] # "ABSENT"} = Before(d) \cup {d}
  <2>1. d \in Nat /\ d <= MaxLetters /\ MaxLetters \in Nat /\ 1 <= d
    BY LettersAssumption DEF Round!Letters
  <2>2. \A k : k \in 1..d <=> (k \in Round!Letters /\ k < d) \/ k = d
    BY <2>1 DEF Round!Letters
  <2> QED
    BY <2>2 DEF Before
<1>5. Cardinality(Before(d) \cup {d}) = Cardinality(Before(d)) + 1
  BY <1>2, <1>3, FS_AddElement
<1> QED
  BY <1>2, <1>4, <1>5, FS_CardinalityType

LEMMA BeatsReplayedInTime == RoundWhole => Round!ReplayedInTime
<1> SUFFICES ASSUME RoundWhole, ~crashed, hand.at = "idle", NEW b \in DOMAIN beats,
                    beats[b].item = "REVEALED", letter[beats[b].during] # "ABSENT"
             PROVE Round!Replayed(b) <= beats[b].during
  BY DEF Round!ReplayedInTime
<1>1. RoundTyped /\ Chronicled /\ Triggered
  BY DEF RoundWhole, RoundInv, RoundInTime
<1>2. b \in 1..Len(beats)
  BY <1>1 DEF RoundTyped
<1>3. CASE runs[beats[b].run].trigger # 0
  BY <1>1, <1>2, <1>3 DEF Round!Replayed, Triggered
<1>4. CASE runs[beats[b].run].trigger = 0
  <2> DEFINE n(l) == Cardinality({k \in 1..l : letter[k] # "ABSENT"})
             S == {l \in Round!Letters : letter[l] # "ABSENT" /\ n(l) > beats[b].after}
  <2>0. \A l : Round!Cardinality({k \in 1..l : letter[k] # "ABSENT"}) = n(l)
    BY DEF Round!Cardinality, Cardinality
  <2>1. PICK d : d = beats[b].during
    OBVIOUS
  <2>2. d \in Round!Letters /\ letter[d] # "ABSENT" /\ beats[b].after \in Nat
    BY <1>1, <1>2, <2>1, RowsTyped DEF Triggered, Round!Letters
  <2>3. beats[b].after <= Cardinality(Before(d))
    BY <1>1, <1>2, <1>4, <2>1 DEF Triggered
  <2>4. n(d) = Cardinality(Before(d)) + 1 /\ Cardinality(Before(d)) \in Nat
    BY <2>2, CountedBehind
  <2>5. d \in S
    <3> HIDE DEF n
    <3>1. n(d) > beats[b].after
      BY <2>2, <2>3, <2>4
    <3> QED
      BY <2>2, <3>1
  <2>6. Round!Replayed(b) = CHOOSE l \in S : \A k \in S : l <= k
    <3>1. {l \in Round!Letters :
             letter[l] # "ABSENT"
             /\ Round!Cardinality({k \in 1..l : letter[k] # "ABSENT"}) > beats[b].after} = S
      BY <2>0
    <3>2. S # {}
      BY <2>5
    <3> HIDE DEF S
    <3> QED
      BY <1>4, <3>1, <3>2 DEF Round!Replayed
  <2>7. S \subseteq Nat /\ IsFiniteSet(S)
    <3>1. IsFiniteSet(Round!Letters) /\ S \subseteq Round!Letters
      BY FS_Interval, LettersAssumption DEF Round!Letters
    <3>2. IsFiniteSet(S)
      BY <3>1, FS_Subset
    <3>3. Round!Letters \subseteq Nat
      BY DEF Round!Letters
    <3> QED
      BY <3>1, <3>2, <3>3
  <2> HIDE DEF S
  <2>8. \E l \in S : \A k \in S : l <= k
    BY <2>5, <2>7, SmallestNumber
  <2>9. (CHOOSE l \in S : \A k \in S : l <= k) <= d
    BY <2>5, <2>8
  <2> QED
    BY <2>1, <2>6, <2>9
<1> QED
  BY <1>3, <1>4

LEMMA DirectionsOnce == RoundWhole => Round!DirectionsSteerOnce
<1> SUFFICES ASSUME RoundWhole, NEW i \in DOMAIN chosen, NEW j \in DOMAIN chosen, i # j, ~crashed
             PROVE chosen[i] # chosen[j]
  BY DEF Round!DirectionsSteerOnce
<1>1. Steered /\ chosen \in Seq(Nat)
  BY DEF RoundWhole, RoundInv, RoundInTime, RoundTyped
<1>2. i \in 1..Len(chosen) /\ j \in 1..Len(chosen)
  BY <1>1
<1> QED
  BY <1>1, <1>2 DEF Steered

LEMMA WorldWaits ==
  ASSUME RoundWhole, Round!Next, Len(beats') > Len(beats), hand.op = "continue", ~crashed,
         NEW b \in DOMAIN beats, beats[b].during = parkedRow.turn
  PROVE ~runs[beats[b].run].terminal
<1>1. RoundTyped /\ StandsStill /\ beats \in Seq(BeatForms) /\ Len(beats) \in Nat
  BY RowsTyped DEF RoundWhole, RoundInv, RoundInTime, RoundTyped
<1>2. b \in 1..Len(beats)
  BY <1>1
<1>3. ~(Len(beats) > Len(beats))
  BY <1>1
<1>4. hand.at = "beat"
  <2>1. Len(Round!Revealed) = Len(beats) /\ Len(Round!Queued) = Len(beats)
    BY <1>1, RevealedDoes, QueuedDoes DEF SameBeats
  <2>2. beats' # beats /\ beats' # Round!Revealed /\ beats' # Round!Queued
    BY <1>3, <2>1
  <2> QED
    BY <2>2 DEF Round!Next, Round!Post, Round!Supersede, Round!Unpark, Round!Continue,
                Round!SaveDirection, Round!SaveMode, Round!Inbox, Round!Narrate, Round!Wind,
                Round!RecordBeat, Round!EnqueueReveals, Round!EndRun, Round!RevealAll,
                Round!NoteDirection, Round!DropDirection, Round!NextStep, Round!Park,
                Round!Answer, Round!LetterSent, Round!AdoptTrigger, Round!ProjectResponse,
                Round!EndRound, Round!WriteRow, Round!RewriteRow, Round!WritePhase,
                Round!CloseNow, Round!ClearRow, Round!Crash
<1>5. Clear(parkedRow.turn)
  BY <1>1, <1>4, TurnOfFits DEF StandsStill, Single
<1> QED
  BY <1>2, <1>5 DEF Clear

\* A letter's round is carried out once and in order, for any letters, beats,
\* chains and choices: a death loses at most one letter, the page replays a
\* beat no later than with the letter it was shown with, a direction steers one
\* step, and the world stands still once the letter arrived (web.py,
\* orchestrate.py, world/store.py).
THEOREM RoundsOrderly == WorldSpec => RoundsAreOrderly
<1>1. WorldInit => RoundWhole
  BY RoundInitial, RoundInTimeInitial DEF WorldInit, RoundWhole
<1>2. RoundWhole /\ [WorldNext]_worldVars => RoundWhole'
  BY RoundKept, RoundStutter DEF WorldNext, worldVars
<1>3. RoundWhole => (part = "round" => Round!NoForgottenLetter /\ Round!ReplayedInTime
                                       /\ Round!DirectionsSteerOnce)
  BY NoLetterForgotten, BeatsReplayedInTime, DirectionsOnce
<1>4. RoundWhole /\ [WorldNext]_worldVars =>
        [(Len(beats') > Len(beats) /\ hand.op = "continue" /\ ~crashed)
           => \A b \in DOMAIN beats :
                beats[b].during = parkedRow.turn => ~runs[beats[b].run].terminal]_(Round!roundVars)
  <2>1. ASSUME RoundWhole, Round!Next
        PROVE (Len(beats') > Len(beats) /\ hand.op = "continue" /\ ~crashed)
                => \A b \in DOMAIN beats :
                     beats[b].during = parkedRow.turn => ~runs[beats[b].run].terminal
    BY <2>1, WorldWaits
  <2>2. UNCHANGED roundVars => UNCHANGED Round!roundVars
    BY DEF roundVars, Round!roundVars
  <2> QED
    BY <2>1, <2>2 DEF WorldNext, worldVars
<1> QED
  BY <1>1, <1>2, <1>3, <1>4, PTL DEF WorldSpec, RoundsAreOrderly, Round!WorldWaitsForReply


=============================================================================
