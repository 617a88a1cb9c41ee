----------------------------- MODULE HostProofs -----------------------------
(***************************************************************************)
(* What one installation keeps stays sound whatever its sizes: deletion,   *)
(* settings, the provider, the content artifact, the user's constraints    *)
(* and the built-in worlds.                                                *)
(*                                                                         *)
(* Each component has an inductive invariant of its own, kept by each of   *)
(* its actions; a step of another part leaves its rows alone.  What makes  *)
(* them inductive is what a handler relies on between two of its steps:    *)
(* that a stale derived row still has its rebuild to come (DeletionInv),   *)
(* that the version an edit read is the stored one or the write will be    *)
(* refused (PolicyInv), that a swap in progress was taken from a stored    *)
(* row (ProviderInv), that an artifact under construction is made of one   *)
(* validated source (ContentInv), that what the planner let pass still     *)
(* stands when the guard reads again (LimitsInv), and how far each start   *)
(* and each founding leg has come (HostInv, BibleInv).                     *)
(***************************************************************************)
EXTENDS MCHost, TLAPS, FiniteSetTheorems

(***************************************************************************)
(* Deletion                                                                *)
(***************************************************************************)
AsMemory(r) == r = [from |-> r.from, status |-> r.status, over |-> r.over]

\* A call the controller still has to make.
Pending(kind, key) == \E i \in DOMAIN todo : todo[i] = <<kind, key>>

\* The rows keep their shape, a row of a target only counts that target, and
\* what is not a conversation has no episode.
DeletionShaped ==
  /\ chats \subseteq Chats
  /\ memory = [m \in Memories |-> memory[m]] /\ \A m \in Memories : AsMemory(memory[m])
  /\ learner = [t \in Studied |-> learner[t]] /\ review = [t \in Studied |-> review[t]]
  /\ \A t \in Studied : \A k \in learner[t] \cup review[t] : k \in Deleting!Absent \/ k[2] = t
  /\ \A k \in claims : k[2] \in Studied
  /\ summary = [c \in Chats |-> summary[c]]
  /\ \A c \in Chats : c \notin chats => summary[c] = Deleting!NoEpisode

\* The calls are about rows that exist, and no target is recomputed after a
\* review was.
CallsOrdered ==
  /\ todo \in Seq({"learner", "review"} \X Studied \cup {"episode"} \X chats)
  /\ \A i, j \in DOMAIN todo : i < j /\ todo[i][1] = "review" => todo[j][1] # "learner"

\* A derived row that rests on something deleted has its call still to come.
StaleIsPending ==
  /\ \A t \in Studied : learner[t] \subseteq claims \cup Deleting!Absent \/ Pending("learner", t)
  /\ \A t \in Studied : review[t] \subseteq claims \cup Deleting!Absent \/ Pending("review", t)
  /\ \A c \in chats : summary[c] \subseteq Deleting!Held \cup Deleting!NoEpisode
                       \/ Pending("episode", c)

DeletionInv ==
  /\ DeletionShaped /\ CallsOrdered /\ Deleting!NoDanglingProvenance
  /\ ~interrupted => StaleIsPending

DeletionChange ==
  \A c \in Chats : c \in chats /\ c \notin chats' /\ chats' # {} =>
    \A m \in Deleting!Held : memory[m].from # c => memory'[m] = memory[m]

LEMMA DeletionStart == Deleting!Init => DeletionInv
<1> SUFFICES ASSUME Deleting!Init PROVE DeletionInv
  OBVIOUS
<1>1. DeletionShaped
  <2>1. chats \subseteq Chats /\ \A k \in claims : k[2] \in Studied
    BY DEF Deleting!Init
  <2>2. memory = [m \in Memories |-> memory[m]] /\ \A m \in Memories : AsMemory(memory[m])
    BY DEF Deleting!Init, AsMemory, Deleting!NoMemory
  <2>3. /\ learner = [t \in Studied |-> learner[t]] /\ review = [t \in Studied |-> review[t]]
        /\ \A t \in Studied : \A k \in learner[t] \cup review[t] : k \in Deleting!Absent
    BY DEF Deleting!Init
  <2>4. /\ summary = [c \in Chats |-> summary[c]]
        /\ \A c \in Chats : summary[c] = Deleting!NoEpisode
    BY DEF Deleting!Init
  <2> QED BY <2>1, <2>2, <2>3, <2>4 DEF DeletionShaped
<1>2. CallsOrdered
  BY DEF Deleting!Init, CallsOrdered
<1>3. Deleting!NoDanglingProvenance
  BY DEF Deleting!Init, Deleting!NoDanglingProvenance, Deleting!Held
<1>4. StaleIsPending
  BY DEF Deleting!Init, StaleIsPending
<1> QED BY <1>1, <1>2, <1>3, <1>4 DEF DeletionInv

\* The list of a finite set names each of its elements.
LEMMA SeqOfLists ==
  ASSUME NEW S, IsFiniteSet(S)
  PROVE  /\ Deleting!SeqOf(S) \in Seq(S)
         /\ \A x \in S : \E i \in DOMAIN Deleting!SeqOf(S) : Deleting!SeqOf(S)[i] = x
<1> DEFINE n == Cardinality(S)
<1>1. n \in Nat /\ ExistsBijection(1..n, S)
  BY FS_CardinalityType
<1>2. PICK f \in Bijection(1..n, S) : TRUE
  BY <1>1 DEF ExistsBijection
<1>3. f \in [1..n -> S] /\ \A x \in S : \E i \in 1..n : f[i] = x
  BY <1>2 DEF Bijection, Surjection, Injection
<1>4. DOMAIN f = 1..n
  BY <1>3
<1>5. Deleting!SeqOf(S) =
        CHOOSE s \in [1..n -> S] : \A x \in S : \E i \in DOMAIN s : s[i] = x
  BY DEF Deleting!SeqOf, Deleting!Cardinality, Cardinality
<1> HIDE DEF n
<1>6. /\ Deleting!SeqOf(S) \in [1..n -> S]
      /\ \A x \in S : \E i \in DOMAIN Deleting!SeqOf(S) : Deleting!SeqOf(S)[i] = x
  BY <1>3, <1>4, <1>5
<1>7. Deleting!SeqOf(S) \in Seq(S)
  BY <1>1, <1>6
<1> QED BY <1>6, <1>7

\* One call per key, for finitely many keys.
LEMMA CallsOf ==
  ASSUME NEW kind, NEW K, IsFiniteSet(K)
  PROVE  /\ Deleting!SeqOf({<<kind, x>> : x \in K}) \in Seq({kind} \X K)
         /\ \A x \in K : \E i \in DOMAIN Deleting!SeqOf({<<kind, y>> : y \in K}) :
              Deleting!SeqOf({<<kind, y>> : y \in K})[i] = <<kind, x>>
<1> DEFINE S == {<<kind, x>> : x \in K}
           f == [x \in K |-> <<kind, x>>]
<1>1. f \in Surjection(K, S)
  BY DEF Surjection
<1>2. IsFiniteSet(S)
  BY <1>1, FS_Surjection
<1>3. S = {kind} \X K
  OBVIOUS
<1>4. \A x \in K : <<kind, x>> \in S
  OBVIOUS
<1> HIDE DEF S
<1>5. Deleting!SeqOf(S) \in Seq({kind} \X K)
  BY <1>2, <1>3, SeqOfLists
<1>6. \A x \in K : \E i \in DOMAIN Deleting!SeqOf(S) : Deleting!SeqOf(S)[i] = <<kind, x>>
  BY <1>2, <1>4, SeqOfLists
<1> QED BY <1>5, <1>6 DEF S

\* The calls of a request: each target's row before any review, and each
\* episode.
CallsFor(calls, T, E) ==
  /\ calls \in Seq({"learner", "review"} \X Studied \cup {"episode"} \X E)
  /\ \A i, j \in DOMAIN calls : i < j /\ calls[i][1] = "review" => calls[j][1] # "learner"
  /\ \A t \in T : (\E i \in DOMAIN calls : calls[i] = <<"learner", t>>)
                   /\ (\E i \in DOMAIN calls : calls[i] = <<"review", t>>)
  /\ \A c \in E : \E i \in DOMAIN calls : calls[i] = <<"episode", c>>

LEMMA RebuildsCover ==
  ASSUME NEW T, IsFiniteSet(T), T \subseteq Studied, NEW E, IsFiniteSet(E)
  PROVE  CallsFor(Deleting!Rebuilds(T, E), T, E)
<1> DEFINE a == Deleting!SeqOf({<<"learner", x>> : x \in T})
           b == Deleting!SeqOf({<<"review", x>> : x \in T})
           d == Deleting!SeqOf({<<"episode", x>> : x \in E})
           calls == a \o b \o d
<1>1. /\ a \in Seq({"learner"} \X T) /\ \A t \in T : \E i \in DOMAIN a : a[i] = <<"learner", t>>
      /\ b \in Seq({"review"} \X T) /\ \A t \in T : \E i \in DOMAIN b : b[i] = <<"review", t>>
      /\ d \in Seq({"episode"} \X E) /\ \A c \in E : \E i \in DOMAIN d : d[i] = <<"episode", c>>
  BY CallsOf
<1>2. Deleting!Rebuilds(T, E) = calls
  BY DEF Deleting!Rebuilds
<1> HIDE DEF a, b, d
<1> DEFINE na == Len(a)  nb == Len(b)  nd == Len(d)
<1>3. /\ na \in Nat /\ nb \in Nat /\ nd \in Nat
      /\ DOMAIN a = 1..na /\ DOMAIN b = 1..nb /\ DOMAIN d = 1..nd
      /\ \A i \in 1..na : a[i] \in {"learner"} \X T
      /\ \A i \in 1..nb : b[i] \in {"review"} \X T
      /\ \A i \in 1..nd : d[i] \in {"episode"} \X E
  BY <1>1
<1>4. /\ DOMAIN calls = 1..(na + nb + nd)
      /\ \A i \in 1..(na + nb + nd) :
           calls[i] = IF i <= na THEN a[i]
                      ELSE IF i <= na + nb THEN b[i - na] ELSE d[i - na - nb]
  BY <1>1, <1>3
<1> HIDE DEF na, nb, nd
<1>5. \A i \in 1..(na + nb + nd) :
        /\ i <= na => calls[i] \in {"learner"} \X T
        /\ i > na /\ i <= na + nb => calls[i] \in {"review"} \X T
        /\ i > na + nb => calls[i] \in {"episode"} \X E
  <2> SUFFICES ASSUME NEW i \in 1..(na + nb + nd)
               PROVE  /\ i <= na => calls[i] \in {"learner"} \X T
                      /\ i > na /\ i <= na + nb => calls[i] \in {"review"} \X T
                      /\ i > na + nb => calls[i] \in {"episode"} \X E
    OBVIOUS
  <2>1. CASE i <= na
    BY <1>3, <1>4, <2>1
  <2>2. CASE i > na /\ i <= na + nb
    <3>1. i - na \in 1..nb
      BY <1>3, <2>2
    <3> QED BY <1>3, <1>4, <2>2, <3>1
  <2>3. CASE i > na + nb
    <3>1. i - na - nb \in 1..nd
      BY <1>3, <2>3
    <3> QED BY <1>3, <1>4, <2>3, <3>1
  <2> QED BY <1>3, <2>1, <2>2, <2>3
<1>6. \A i \in 1..(na + nb + nd) :
        calls[i] \in {"learner", "review"} \X Studied \cup {"episode"} \X E
  BY <1>3, <1>5
<1>7. calls \in Seq({"learner", "review"} \X Studied \cup {"episode"} \X E)
  <2>1. na + nb + nd \in Nat
    BY <1>3
  <2> DEFINE K == {"learner", "review"} \X Studied \cup {"episode"} \X E
  <2>2. a \in Seq(K) /\ b \in Seq(K) /\ d \in Seq(K)
    <3>1. /\ {"learner"} \X T \subseteq K /\ {"review"} \X T \subseteq K
          /\ {"episode"} \X E \subseteq K
      OBVIOUS
    <3> HIDE DEF K
    <3> QED BY <1>1, <3>1
  <2> HIDE DEF K
  <2>3. calls \in Seq(K)
    BY <2>2
  <2> QED BY <2>3 DEF K
<1>8. \A i, j \in DOMAIN calls : i < j /\ calls[i][1] = "review" => calls[j][1] # "learner"
  <2> SUFFICES ASSUME NEW i \in 1..(na + nb + nd), NEW j \in 1..(na + nb + nd),
                      i < j, calls[i][1] = "review"
               PROVE  calls[j][1] # "learner"
    BY <1>4
  <2>1. i > na
    <3> SUFFICES ASSUME i <= na PROVE FALSE
      BY <1>3
    <3>1. calls[i] \in {"learner"} \X T
      BY <1>5
    <3> HIDE DEF calls
    <3> QED BY <3>1
  <2>2. j > na
    BY <1>3, <2>1
  <2>3. calls[j] \in {"review"} \X T \/ calls[j] \in {"episode"} \X E
    BY <1>3, <1>5, <2>2
  <2> HIDE DEF calls
  <2> QED BY <2>3
<1>9. ASSUME NEW t \in T
      PROVE  (\E i \in DOMAIN calls : calls[i] = <<"learner", t>>)
               /\ (\E i \in DOMAIN calls : calls[i] = <<"review", t>>)
  <2>1. PICK i \in 1..na : a[i] = <<"learner", t>>
    BY <1>1, <1>3
  <2>2. PICK j \in 1..nb : b[j] = <<"review", t>>
    BY <1>1, <1>3
  <2>3. i \in 1..(na + nb + nd) /\ calls[i] = <<"learner", t>>
    BY <1>3, <1>4, <2>1
  <2>4. na + j \in 1..(na + nb + nd) /\ calls[na + j] = b[j]
    BY <1>3, <1>4
  <2> QED BY <1>4, <2>2, <2>3, <2>4
<1>10. ASSUME NEW c \in E PROVE \E i \in DOMAIN calls : calls[i] = <<"episode", c>>
  <2>1. PICK j \in 1..nd : d[j] = <<"episode", c>>
    BY <1>1, <1>3
  <2>2. na + nb + j \in 1..(na + nb + nd) /\ calls[na + nb + j] = d[j]
    BY <1>3, <1>4
  <2> QED BY <1>4, <2>1, <2>2
<1> HIDE DEF calls
<1> QED BY <1>2, <1>7, <1>8, <1>9, <1>10 DEF CallsFor

\* A call that is not the one being made is still to be made.
LEMMA CallRemains ==
  ASSUME NEW kind, NEW key, NEW K, todo \in Seq(K), todo # <<>>, todo' = Tail(todo),
         Pending(kind, key), <<kind, key>> # Head(todo)
  PROVE  Pending(kind, key)'
<1>1. PICK i \in DOMAIN todo : todo[i] = <<kind, key>>
  BY DEF Pending
<1>2. i # 1
  BY <1>1
<1>3. i - 1 \in DOMAIN todo' /\ todo'[i - 1] = todo[i]
  BY <1>1, <1>2
<1> QED BY <1>1, <1>3 DEF Pending

\* With no call to make, nothing derived rests on what is deleted.
LEMMA QuietIsFresh ==
  ASSUME DeletionInv, todo = <<>>, ~interrupted
  PROVE  /\ \A t \in Studied : learner[t] \subseteq claims \cup Deleting!Absent
         /\ \A t \in Studied : review[t] \subseteq claims \cup Deleting!Absent
         /\ \A c \in chats : summary[c] \subseteq Deleting!Held \cup Deleting!NoEpisode
<1>1. \A kind, key : ~Pending(kind, key)
  BY DEF Pending
<1> QED BY <1>1 DEF DeletionInv, StaleIsPending

LEMMA QuietCalls ==
  ASSUME todo' = <<>> PROVE CallsOrdered'
  BY DEF CallsOrdered

LEMMA ConverseKept ==
  ASSUME DeletionInv, NEW c \in Chats, NEW taught \in BOOLEAN, Deleting!Converse(c, taught)
  PROVE  DeletionInv' /\ DeletionChange
<1> USE DEF Deleting!Converse, Deleting!Quiet
<1>1. DeletionShaped'
  BY DEF DeletionInv, DeletionShaped
<1>2. CallsOrdered'
  BY QuietCalls
<1>3. Deleting!NoDanglingProvenance'
  <2>1. \A l \in legs' : l \in legs \/ l[2] = c
    OBVIOUS
  <2> QED BY <2>1 DEF DeletionInv, Deleting!NoDanglingProvenance, Deleting!Held
<1>4. ASSUME ~interrupted' PROVE StaleIsPending'
  <2>1. summary[c] = Deleting!NoEpisode
    BY DEF DeletionInv, DeletionShaped
  <2> QED BY <1>4, <2>1, QuietIsFresh DEF StaleIsPending, Deleting!Held
<1> QED BY <1>1, <1>2, <1>3, <1>4 DEF DeletionInv, DeletionChange

LEMMA EvidenceKept ==
  ASSUME DeletionInv, NEW c \in Chats, NEW t \in Studied, Deleting!Evidence(c, t)
  PROVE  DeletionInv' /\ DeletionChange
<1> USE DEF Deleting!Evidence, Deleting!Quiet
<1> DEFINE R == {k \in claims' : k[2] = t}
<1>0. /\ learner' = [x \in Studied |-> IF x = t THEN R ELSE learner[x]]
      /\ review' = [x \in Studied |-> IF x = t THEN R ELSE review[x]]
  BY DEF DeletionInv, DeletionShaped
<1>1. DeletionShaped'
  <2>0. \A k \in R : k[2] = t
    OBVIOUS
  <2> HIDE DEF R
  <2>1. /\ learner' = [x \in Studied |-> learner'[x]] /\ review' = [x \in Studied |-> review'[x]]
        /\ \A x \in Studied : \A k \in learner'[x] \cup review'[x] :
             k \in Deleting!Absent \/ k[2] = x
    <3>1. \A x \in Studied : learner'[x] \cup review'[x] \subseteq
                               IF x = t THEN R ELSE learner[x] \cup review[x]
      BY <1>0
    <3>2. \A x \in Studied : \A k \in learner[x] \cup review[x] : k \in Deleting!Absent \/ k[2] = x
      BY DEF DeletionInv, DeletionShaped
    <3> HIDE DEF Deleting!Evidence
    <3>3. \A x \in Studied : \A k \in learner'[x] \cup review'[x] : k \in Deleting!Absent \/ k[2] = x
      BY <2>0, <3>1, <3>2
    <3>4. learner' = [x \in Studied |-> learner'[x]] /\ review' = [x \in Studied |-> review'[x]]
      BY <1>0
    <3> QED BY <3>3, <3>4
  <2>2. \A k \in claims' : k[2] \in Studied
    BY DEF DeletionInv, DeletionShaped
  <2> QED BY <2>1, <2>2 DEF DeletionInv, DeletionShaped
<1>2. CallsOrdered'
  BY QuietCalls
<1>3. Deleting!NoDanglingProvenance'
  BY DEF DeletionInv, Deleting!NoDanglingProvenance, Deleting!Held
<1>4. ASSUME ~interrupted' PROVE StaleIsPending'
  BY <1>0, <1>4, QuietIsFresh DEF StaleIsPending, Deleting!Held
<1> QED BY <1>1, <1>2, <1>3, <1>4 DEF DeletionInv, DeletionChange

LEMMA RememberKept ==
  ASSUME DeletionInv, NEW c \in Chats, NEW m \in Memories, NEW over \in Memories \cup {"none"},
         over # m, Deleting!Remember(c, m, over)
  PROVE  DeletionInv' /\ DeletionChange
<1> USE DEF Deleting!Remember, Deleting!Quiet
<1>0. /\ memory = [n \in Memories |-> memory[n]] /\ \A n \in Memories : AsMemory(memory[n])
      /\ over # "none" => over \in Memories
  BY DEF DeletionInv, DeletionShaped
<1>1. memory' = [n \in Memories |-> memory'[n]] /\ \A n \in Memories : AsMemory(memory'[n])
  <2>1. [from |-> c, status |-> "ACTIVE", over |-> over] = memory'[m]
    OBVIOUS
  <2>2. \A n \in Memories : AsMemory([memory[n] EXCEPT !.status = "SUPERSEDED"])
    BY <1>0 DEF AsMemory
  <2>3. AsMemory(memory'[m])
    BY <2>1 DEF AsMemory
  <2> QED BY <1>0, <2>2, <2>3
<1>2. \A n \in Memories : memory'[n].status = "ACTIVE" => n \in Deleting!Held'
  BY DEF Deleting!Held, Deleting!NoMemory
<1>3. Deleting!Held \cup {m} = Deleting!Held'
  <2>1. memory'[m] # Deleting!NoMemory
    BY DEF Deleting!NoMemory
  <2>2. over \in Memories => memory[over] # Deleting!NoMemory /\ memory'[over] # Deleting!NoMemory
    <3> SUFFICES ASSUME over \in Memories
                 PROVE  memory[over] # Deleting!NoMemory /\ memory'[over] # Deleting!NoMemory
      OBVIOUS
    <3>1. over # "none"
      BY RowsAssumption
    <3>2. memory[over].status = "ACTIVE" /\ memory'[over].status = "SUPERSEDED"
      BY <1>0, <3>1 DEF AsMemory
    <3> QED BY <3>2 DEF Deleting!NoMemory
  <2>3. \A n \in Memories \ {m, over} : memory'[n] = memory[n]
    OBVIOUS
  <2> QED BY <2>1, <2>2, <2>3 DEF Deleting!Held
<1>4. DeletionShaped'
  BY <1>1 DEF DeletionInv, DeletionShaped
<1>5. CallsOrdered'
  BY QuietCalls
<1>6. Deleting!NoDanglingProvenance'
  <2>1. over \in Deleting!Held \cup {"none"}
    <3>1. CASE over # "none"
      BY <1>0, <3>1 DEF Deleting!Held, Deleting!NoMemory
    <3> QED BY <3>1
  <2>2. memory'[m].from = c /\ memory'[m].over = over
    OBVIOUS
  <2>3. \A n \in Deleting!Held : memory'[n].from = memory[n].from /\ memory'[n].over = memory[n].over
    BY <1>0 DEF Deleting!Held, AsMemory
  <2>4. \A n \in Deleting!Held' :
          memory'[n].from \in chats' /\ memory'[n].over \in Deleting!Held' \cup {"none"}
    BY <1>3, <2>1, <2>2, <2>3 DEF DeletionInv, Deleting!NoDanglingProvenance
  <2> QED BY <2>4 DEF DeletionInv, Deleting!NoDanglingProvenance
<1>7. ASSUME ~interrupted' PROVE StaleIsPending'
  <2>1. \A d \in chats' : summary'[d] \subseteq Deleting!Held'
    BY <1>2 DEF DeletionInv, DeletionShaped
  <2> QED BY <1>7, <2>1, QuietIsFresh DEF StaleIsPending
<1> QED BY <1>4, <1>5, <1>6, <1>7 DEF DeletionInv, DeletionChange

LEMMA LessonEndsKept ==
  ASSUME DeletionInv, NEW c \in Chats, Deleting!LessonEnds(c)
  PROVE  DeletionInv' /\ DeletionChange
<1> USE DEF Deleting!LessonEnds, Deleting!Quiet
<1>1. DeletionShaped'
  BY DEF DeletionInv, DeletionShaped
<1>2. CallsOrdered'
  BY QuietCalls
<1>3. Deleting!NoDanglingProvenance'
  BY DEF DeletionInv, Deleting!NoDanglingProvenance, Deleting!Held
<1>4. ASSUME ~interrupted' PROVE StaleIsPending'
  BY <1>4, QuietIsFresh DEF StaleIsPending, Deleting!Held
<1> QED BY <1>1, <1>2, <1>3, <1>4 DEF DeletionInv, DeletionChange

LEMMA DeleteConversationKept ==
  ASSUME DeletionInv, NEW c \in Chats, Deleting!DeleteConversation(c)
  PROVE  DeletionInv' /\ DeletionChange
<1> DEFINE gone == Deleting!SolelyFrom(c)
<1>0. CASE Deleting!Dangles(gone)
  <2>1. UNCHANGED <<chats, claims, learner, review, memory, summary, legs, todo, interrupted>>
    BY <1>0 DEF Deleting!DeleteConversation
  <2> QED BY <2>1 DEF DeletionInv, DeletionChange, DeletionShaped, CallsOrdered, StaleIsPending,
                      Pending, Deleting!NoDanglingProvenance, Deleting!Held
<1>1. CASE ~Deleting!Dangles(gone)
  <2> DEFINE T == Deleting!AffectedTargets(c)
             E == Deleting!OtherEpisodes(c)
  <2>1. /\ todo = <<>> /\ c \in chats
        /\ summary' = [summary EXCEPT ![c] = Deleting!NoEpisode]
        /\ claims' = {k \in claims : k[1] # c}
        /\ legs' = {l \in legs : l[2] # c}
        /\ chats' = chats \ {c}
        /\ memory' = [m \in Memories |-> IF m \in gone THEN Deleting!NoMemory ELSE memory[m]]
        /\ todo' = Deleting!Rebuilds(T, E)
        /\ UNCHANGED <<learner, review, interrupted>>
    BY <1>1 DEF Deleting!DeleteConversation, Deleting!RemoveChatRows, Deleting!Begin,
                Deleting!Quiet, Deleting!ClearedLegs
  <2>2. T \subseteq Studied /\ IsFiniteSet(T)
    <3>1. T \subseteq Studied
      BY DEF DeletionInv, DeletionShaped, Deleting!AffectedTargets
    <3> QED BY <3>1, RowsAssumption, FS_Subset
  <2>3. E = chats' /\ IsFiniteSet(E)
    <3>1. E = chats' /\ E \subseteq Chats
      BY <2>1 DEF DeletionInv, DeletionShaped, Deleting!OtherEpisodes
    <3> QED BY <3>1, RowsAssumption, FS_Subset
  <2>4. \A k \in claims : k \in claims' \/ k[2] \in T
    BY <2>1 DEF Deleting!AffectedTargets
  <2>5. Deleting!Held' = Deleting!Held \ gone /\ gone \subseteq Deleting!Held
    BY <2>1 DEF Deleting!Held, Deleting!SolelyFrom
  <2>6. \A m \in Memories \ gone : memory'[m] = memory[m]
    BY <2>1
  <2>7. \A m \in Deleting!Held \ gone : memory[m].from # c
    BY DEF Deleting!SolelyFrom
  <2> HIDE DEF T, E, gone
  <2>8. DeletionShaped'
    <3>1. memory' = [n \in Memories |-> memory'[n]] /\ \A n \in Memories : AsMemory(memory'[n])
      BY <2>1 DEF DeletionInv, DeletionShaped, AsMemory, Deleting!NoMemory
    <3>2. /\ summary' = [d \in Chats |-> summary'[d]]
          /\ \A d \in Chats : d \notin chats' => summary'[d] = Deleting!NoEpisode
      BY <2>1 DEF DeletionInv, DeletionShaped
    <3> QED BY <2>1, <3>1, <3>2 DEF DeletionInv, DeletionShaped
  <2>c. CallsFor(todo', T, E)
    BY <2>1, <2>2, <2>3, RebuildsCover
  <2>9. CallsOrdered'
    BY <2>3, <2>c DEF CallsFor, CallsOrdered
  <2>10. Deleting!NoDanglingProvenance'
    <3>1. \A m \in Deleting!Held' :
            memory'[m].from \in chats' /\ memory'[m].over \in Deleting!Held' \cup {"none"}
      <4> SUFFICES ASSUME NEW m \in Deleting!Held'
                   PROVE  memory'[m].from \in chats'
                            /\ memory'[m].over \in Deleting!Held' \cup {"none"}
        OBVIOUS
      <4>1. m \in Deleting!Held \ gone /\ m \in Memories /\ memory'[m] = memory[m]
        BY <2>5, <2>6 DEF Deleting!Held
      <4>2. memory[m].from \in chats /\ memory[m].over \in Deleting!Held \cup {"none"}
        BY <4>1 DEF DeletionInv, Deleting!NoDanglingProvenance
      <4>3. memory[m].over \notin gone
        BY <1>1, <4>1 DEF Deleting!Dangles, gone
      <4> QED BY <2>1, <2>5, <2>7, <4>1, <4>2, <4>3
    <3> QED BY <2>1, <3>1 DEF DeletionInv, Deleting!NoDanglingProvenance
  <2>11. ASSUME ~interrupted' PROVE StaleIsPending'
    <3>0. ~interrupted
      BY <2>1, <2>11
    <3>1. \A d \in chats' : Pending("episode", d)'
      BY <2>3, <2>c DEF CallsFor, Pending
    <3>2. \A t \in T : Pending("learner", t)' /\ Pending("review", t)'
      BY <2>3, <2>c DEF CallsFor, Pending
    <3>3. ASSUME NEW t \in Studied, t \notin T
          PROVE  /\ learner[t] \subseteq claims' \cup Deleting!Absent
                 /\ review[t] \subseteq claims' \cup Deleting!Absent
      <4>1. ASSUME NEW k \in learner[t] \cup review[t]
            PROVE  k \in claims' \cup Deleting!Absent
        <5>1. k \in claims \cup Deleting!Absent
          BY <2>1, <3>0, QuietIsFresh
        <5>2. k \in Deleting!Absent \/ k[2] = t
          BY DEF DeletionInv, DeletionShaped
        <5> QED BY <2>4, <3>3, <5>1, <5>2
      <4> QED BY <4>1
    <3> QED BY <2>1, <3>1, <3>2, <3>3 DEF StaleIsPending
  <2>12. DeletionChange
    BY <2>1, <2>5, <2>6, <2>7 DEF DeletionChange, Deleting!Held, Deleting!SolelyFrom, gone
  <2> QED BY <2>8, <2>9, <2>10, <2>11, <2>12 DEF DeletionInv
<1> QED BY <1>0, <1>1

LEMMA DeleteTargetKept ==
  ASSUME DeletionInv, NEW t \in Studied, Deleting!DeleteTarget(t)
  PROVE  DeletionInv' /\ DeletionChange
<1> USE DEF Deleting!DeleteTarget, Deleting!Quiet, Deleting!Begin
<1>0. /\ learner' = [x \in Studied |-> IF x = t THEN Deleting!Absent ELSE learner[x]]
      /\ review' = [x \in Studied |-> IF x = t THEN Deleting!Absent ELSE review[x]]
  BY DEF DeletionInv, DeletionShaped
<1>1. DeletionShaped'
  <2>1. /\ learner' = [x \in Studied |-> learner'[x]] /\ review' = [x \in Studied |-> review'[x]]
        /\ \A x \in Studied : \A k \in learner'[x] \cup review'[x] :
             k \in Deleting!Absent \/ k[2] = x
    BY <1>0 DEF DeletionInv, DeletionShaped
  <2> QED BY <2>1 DEF DeletionInv, DeletionShaped
<1>2. CallsOrdered'
  BY QuietCalls
<1>3. Deleting!NoDanglingProvenance'
  BY DEF DeletionInv, Deleting!NoDanglingProvenance, Deleting!Held
<1>4. ASSUME ~interrupted' PROVE StaleIsPending'
  <2>1. \A x \in Studied : \A k \in learner[x] \cup review[x] : k \in Deleting!Absent \/ k[2] = x
    BY DEF DeletionInv, DeletionShaped
  <2>2. /\ \A x \in Studied : learner[x] \subseteq claims \cup Deleting!Absent
        /\ \A x \in Studied : review[x] \subseteq claims \cup Deleting!Absent
        /\ \A c \in chats : summary[c] \subseteq Deleting!Held \cup Deleting!NoEpisode
    BY <1>4, QuietIsFresh
  <2>3. \A x \in Studied \ {t} : learner[x] \subseteq claims' \cup Deleting!Absent
                                  /\ review[x] \subseteq claims' \cup Deleting!Absent
    BY <2>1, <2>2
  <2> QED BY <1>0, <2>2, <2>3 DEF StaleIsPending, Deleting!Held
<1> QED BY <1>1, <1>2, <1>3, <1>4 DEF DeletionInv, DeletionChange

LEMMA DeleteLearningHistoryKept ==
  ASSUME DeletionInv, Deleting!DeleteLearningHistory
  PROVE  DeletionInv' /\ DeletionChange
<1> USE DEF Deleting!DeleteLearningHistory, Deleting!Quiet, Deleting!Begin
<1>1. DeletionShaped'
  BY DEF DeletionInv, DeletionShaped
<1>2. CallsOrdered'
  BY QuietCalls
<1>3. Deleting!NoDanglingProvenance'
  BY DEF DeletionInv, Deleting!NoDanglingProvenance, Deleting!Held
<1>4. ASSUME ~interrupted' PROVE StaleIsPending'
  BY <1>4, QuietIsFresh DEF StaleIsPending, Deleting!Held
<1> QED BY <1>1, <1>2, <1>3, <1>4 DEF DeletionInv, DeletionChange

LEMMA DeletePairKept ==
  ASSUME DeletionInv, Deleting!DeletePair
  PROVE  DeletionInv' /\ DeletionChange
<1>0. /\ memory' = [m \in Memories |-> Deleting!NoMemory]
      /\ todo = <<>> /\ todo' = Deleting!Rebuilds({}, chats)
      /\ UNCHANGED <<chats, claims, learner, review, summary, legs, interrupted>>
  BY DEF Deleting!DeletePair, Deleting!Quiet, Deleting!Begin
<1>1. IsFiniteSet(chats) /\ IsFiniteSet({}) /\ {} \subseteq Studied
  <2>1. chats \subseteq Chats
    BY DEF DeletionInv, DeletionShaped
  <2> QED BY <2>1, RowsAssumption, FS_Subset, FS_EmptySet
<1>2. DeletionShaped'
  <2>1. memory' = [n \in Memories |-> memory'[n]] /\ \A n \in Memories : AsMemory(memory'[n])
    BY <1>0 DEF AsMemory, Deleting!NoMemory
  <2> QED BY <1>0, <2>1 DEF DeletionInv, DeletionShaped
<1>c. CallsFor(todo', {}, chats)
  BY <1>0, <1>1, RebuildsCover
<1>3. CallsOrdered'
  BY <1>0, <1>c DEF CallsFor, CallsOrdered
<1>4. Deleting!NoDanglingProvenance'
  BY <1>0 DEF DeletionInv, Deleting!NoDanglingProvenance, Deleting!Held
<1>5. ASSUME ~interrupted' PROVE StaleIsPending'
  <2>1. \A d \in chats' : Pending("episode", d)'
    BY <1>0, <1>c DEF CallsFor, Pending
  <2> QED BY <1>0, <1>5, <2>1, QuietIsFresh DEF StaleIsPending
<1> QED BY <1>0, <1>2, <1>3, <1>4, <1>5 DEF DeletionInv, DeletionChange

LEMMA DeleteEverythingKept ==
  ASSUME DeletionInv, Deleting!DeleteEverything
  PROVE  DeletionInv' /\ DeletionChange
<1> USE DEF Deleting!DeleteEverything, Deleting!Quiet, Deleting!Begin
<1>1. DeletionShaped'
  <2>1. memory' = [n \in Memories |-> memory'[n]] /\ \A n \in Memories : AsMemory(memory'[n])
    BY DEF AsMemory, Deleting!NoMemory
  <2>2. /\ learner' = [x \in Studied |-> learner'[x]] /\ review' = [x \in Studied |-> review'[x]]
        /\ \A x \in Studied : \A k \in learner'[x] \cup review'[x] : k \in Deleting!Absent
    OBVIOUS
  <2>3. /\ summary' = [d \in Chats |-> summary'[d]]
        /\ \A d \in Chats : summary'[d] = Deleting!NoEpisode
    OBVIOUS
  <2> QED BY <2>1, <2>2, <2>3 DEF DeletionShaped
<1>2. CallsOrdered'
  BY QuietCalls
<1>3. Deleting!NoDanglingProvenance'
  BY DEF Deleting!NoDanglingProvenance, Deleting!Held
<1>4. StaleIsPending'
  BY DEF StaleIsPending
<1> QED BY <1>1, <1>2, <1>3, <1>4 DEF DeletionInv, DeletionChange

\* A review is recomputed only when no target's row is still to be, so from a
\* row that is up to date.
LEMMA RebuildKept ==
  ASSUME DeletionInv, Deleting!Rebuild
  PROVE  DeletionInv' /\ DeletionChange
<1> DEFINE kind == Head(todo)[1]
           key == Head(todo)[2]
           K == {"learner", "review"} \X Studied \cup {"episode"} \X chats
<1>1. /\ todo # <<>> /\ todo' = Tail(todo)
      /\ learner' = IF kind = "learner"
                    THEN [learner EXCEPT ![key] = {k \in claims : k[2] = key}] ELSE learner
      /\ review' = IF kind = "review" /\ review[key] # Deleting!Absent
                   THEN [review EXCEPT ![key] = learner[key]] ELSE review
      /\ summary' = IF kind = "episode"
                    THEN [summary EXCEPT ![key] = {n \in Memories : memory[n].status = "ACTIVE"}]
                    ELSE summary
      /\ UNCHANGED <<chats, claims, memory, legs, interrupted>>
  BY DEF Deleting!Rebuild
<1>2. todo \in Seq(K) /\ \A i, j \in DOMAIN todo : i < j /\ todo[i][1] = "review" => todo[j][1] # "learner"
  BY DEF DeletionInv, CallsOrdered
<1>3. Head(todo) = todo[1] /\ 1 \in DOMAIN todo /\ todo[1] \in K
  BY <1>1, <1>2
<1>4. /\ Head(todo) = <<kind, key>>
      /\ \/ kind \in {"learner", "review"} /\ key \in Studied
         \/ kind = "episode" /\ key \in chats
  <2>1. CASE todo[1] \in {"learner", "review"} \X Studied
    <3>1. PICK x \in {"learner", "review"}, y \in Studied : todo[1] = <<x, y>>
      BY <2>1
    <3>2. kind = x /\ key = y /\ Head(todo) = <<kind, key>>
      BY <1>3, <3>1
    <3> QED BY <3>2
  <2>2. CASE todo[1] \in {"episode"} \X chats
    BY <1>3, <2>2
  <2> QED BY <1>3, <2>1, <2>2
<1>5. /\ learner = [t \in Studied |-> learner[t]] /\ review = [t \in Studied |-> review[t]]
      /\ summary = [c \in Chats |-> summary[c]] /\ chats \subseteq Chats
      /\ \A t \in Studied : \A k \in learner[t] \cup review[t] : k \in Deleting!Absent \/ k[2] = t
  BY DEF DeletionInv, DeletionShaped
<1>6. kind = "review" => \A t \in Studied : ~Pending("learner", t)
  <2> SUFFICES ASSUME kind = "review", NEW i \in DOMAIN todo, todo[i][1] = "learner" PROVE FALSE
    BY DEF Pending
  <2>1. i > 1
    BY <1>2, <1>3
  <2> QED BY <1>2, <1>3, <2>1
<1> HIDE DEF kind, key, K
<1>7. /\ learner' = [t \in Studied |-> IF kind = "learner" /\ t = key
                                       THEN {k \in claims : k[2] = key} ELSE learner[t]]
      /\ review' = [t \in Studied |-> IF kind = "review" /\ t = key /\ review[t] # Deleting!Absent
                                      THEN learner[t] ELSE review[t]]
      /\ summary' = [c \in Chats |-> IF kind = "episode" /\ c = key
                                     THEN {n \in Memories : memory[n].status = "ACTIVE"}
                                     ELSE summary[c]]
  <2>1. CASE kind = "learner"
    BY <1>1, <1>4, <1>5, <2>1
  <2>2. CASE kind = "review"
    BY <1>1, <1>4, <1>5, <2>2
  <2>3. CASE kind = "episode"
    BY <1>1, <1>4, <1>5, <2>3
  <2> QED BY <1>4, <2>1, <2>2, <2>3
<1>8. DeletionShaped'
  <2>1. /\ learner' = [t \in Studied |-> learner'[t]] /\ review' = [t \in Studied |-> review'[t]]
        /\ summary' = [c \in Chats |-> summary'[c]]
    BY <1>7
  <2>2. \A t \in Studied : \A k \in learner'[t] \cup review'[t] : k \in Deleting!Absent \/ k[2] = t
    BY <1>5, <1>7
  <2>3. \A c \in Chats : c \notin chats' => summary'[c] = Deleting!NoEpisode
    BY <1>1, <1>4, <1>7 DEF DeletionInv, DeletionShaped
  <2> QED BY <1>1, <2>1, <2>2, <2>3 DEF DeletionInv, DeletionShaped
<1>9. CallsOrdered'
  <2>1. todo' \in Seq(K)
    BY <1>1, <1>2
  <2>2. \A i, j \in DOMAIN todo' : i < j /\ todo'[i][1] = "review" => todo'[j][1] # "learner"
    <3> SUFFICES ASSUME NEW i \in DOMAIN todo', NEW j \in DOMAIN todo', i < j,
                        todo'[i][1] = "review"
                 PROVE  todo'[j][1] # "learner"
      OBVIOUS
    <3>1. /\ i + 1 \in DOMAIN todo /\ j + 1 \in DOMAIN todo /\ i + 1 < j + 1
          /\ todo'[i] = todo[i + 1] /\ todo'[j] = todo[j + 1]
      BY <1>1, <1>2
    <3> QED BY <1>2, <3>1
  <2> QED BY <1>1, <2>1, <2>2 DEF CallsOrdered, K
<1>10. Deleting!NoDanglingProvenance'
  BY <1>1 DEF DeletionInv, Deleting!NoDanglingProvenance, Deleting!Held
<1>11. ASSUME ~interrupted' PROVE StaleIsPending'
  <2>0. StaleIsPending
    BY <1>1, <1>11 DEF DeletionInv
  <2>1. \A d, e : Pending(d, e) /\ <<d, e>> # <<kind, key>> => Pending(d, e)'
    BY <1>1, <1>2, <1>4, CallRemains
  <2>2. \A t \in Studied : learner'[t] \subseteq claims' \cup Deleting!Absent \/ Pending("learner", t)'
    BY <1>1, <1>7, <2>0, <2>1 DEF StaleIsPending
  <2>3. \A t \in Studied : review'[t] \subseteq claims' \cup Deleting!Absent \/ Pending("review", t)'
    <3> SUFFICES ASSUME NEW t \in Studied
                 PROVE  review'[t] \subseteq claims' \cup Deleting!Absent \/ Pending("review", t)'
      OBVIOUS
    <3>1. CASE kind = "review" /\ t = key
      <4>1. learner[t] \subseteq claims \cup Deleting!Absent
        BY <1>6, <2>0, <3>1 DEF StaleIsPending
      <4> QED BY <1>1, <1>7, <3>1, <4>1
    <3>2. CASE ~(kind = "review" /\ t = key)
      BY <1>1, <1>7, <2>0, <2>1, <3>2 DEF StaleIsPending
    <3> QED BY <3>1, <3>2
  <2>4. Deleting!Held' = Deleting!Held
    BY <1>1 DEF Deleting!Held
  <2>5. {n \in Memories : memory[n].status = "ACTIVE"} \subseteq Deleting!Held
    BY DEF Deleting!Held, Deleting!NoMemory
  <2>6. \A c \in chats' : summary'[c] \subseteq Deleting!Held' \cup Deleting!NoEpisode
                           \/ Pending("episode", c)'
    <3> SUFFICES ASSUME NEW c \in chats, c \in Chats
                 PROVE  summary'[c] \subseteq Deleting!Held' \cup Deleting!NoEpisode
                          \/ Pending("episode", c)'
      BY <1>1, <1>5
    <3>1. CASE kind = "episode" /\ c = key
      BY <1>7, <2>4, <2>5, <3>1
    <3>2. CASE ~(kind = "episode" /\ c = key)
      BY <1>7, <2>0, <2>1, <2>4, <3>2 DEF StaleIsPending
    <3> QED BY <3>1, <3>2
  <2> QED BY <2>2, <2>3, <2>6 DEF StaleIsPending
<1> QED BY <1>1, <1>8, <1>9, <1>10, <1>11 DEF DeletionInv, DeletionChange

LEMMA DeletionDies ==
  ASSUME DeletionInv, Deleting!Die
  PROVE  DeletionInv' /\ DeletionChange
<1> USE DEF Deleting!Die
<1>1. DeletionShaped'
  BY DEF DeletionInv, DeletionShaped
<1>2. CallsOrdered'
  BY QuietCalls
<1>3. Deleting!NoDanglingProvenance'
  BY DEF DeletionInv, Deleting!NoDanglingProvenance, Deleting!Held
<1> QED BY <1>1, <1>2, <1>3 DEF DeletionInv, DeletionChange

LEMMA DeletionKept == DeletionInv /\ Deleting!Next => DeletionInv' /\ DeletionChange
  BY ConverseKept, EvidenceKept, RememberKept, LessonEndsKept, DeleteConversationKept,
     DeleteTargetKept, DeleteLearningHistoryKept, DeletePairKept, DeleteEverythingKept,
     RebuildKept, DeletionDies DEF Deleting!Next

\* A deletion takes no memory of another conversation, nothing that is kept
\* names what is gone, and once the rebuilds are made no derived row rests on
\* it, for any conversations, memories and targets (deletion/store.py,
\* deletion/controller.py).
THEOREM DeletionsClean == HostSpec => DeletionsAreClean
<1>1. HostInit => DeletionInv
  BY DeletionStart DEF HostInit
<1>2. [HostNext]_hostVars => Deleting!Next \/ UNCHANGED delVars
  BY DEF HostNext, hostVars
<1>3. DeletionInv /\ UNCHANGED delVars => DeletionInv'
  <2> SUFFICES ASSUME DeletionInv, UNCHANGED delVars PROVE DeletionInv'
    OBVIOUS
  <2>1. UNCHANGED <<chats, claims, learner, review, memory, summary, legs, todo, interrupted>>
    BY DEF delVars
  <2> QED BY <2>1 DEF DeletionInv, DeletionShaped, CallsOrdered, StaleIsPending, Pending,
                      Deleting!NoDanglingProvenance, Deleting!Held
<1>4. DeletionInv /\ [HostNext]_hostVars => DeletionInv'
  BY <1>2, <1>3, DeletionKept
<1>5. DeletionInv /\ [HostNext]_hostVars => [DeletionChange]_Deleting!delVars
  BY <1>2, DeletionKept DEF delVars, Deleting!delVars
<1>6. DeletionInv => (part = "deletion" =>
                        Deleting!NoDanglingProvenance /\ Deleting!DerivedFromWhatIsLeft)
  BY QuietIsFresh DEF DeletionInv, Deleting!DerivedFromWhatIsLeft, Deleting!Quiet
<1>7. HostSpec => []DeletionInv
  BY <1>1, <1>4, PTL DEF HostSpec
<1>8. HostSpec => Deleting!OthersKeepTheirMemories
  BY <1>5, <1>7, PTL DEF HostSpec, Deleting!OthersKeepTheirMemories, DeletionChange
<1>9. HostSpec => [](part = "deletion" =>
                       Deleting!NoDanglingProvenance /\ Deleting!DerivedFromWhatIsLeft)
  BY <1>6, <1>7, PTL
<1> QED BY <1>8, <1>9 DEF DeletionsAreClean

(***************************************************************************)
(* Settings                                                                *)
(***************************************************************************)
\* The rows keep their shape, and a stored rule list is well formed.
RowsShaped ==
  /\ doc = [d \in Policy!Docs |-> doc[d]]
  /\ \A d \in Policy!Docs : doc[d].ver \in Nat
  /\ DOMAIN doc["teaching"].body = {"freq", "knob"}
  /\ doc["disclosure"].body \in PersonaRules \cup {<<>>}
  /\ Policy!WellFormed(doc["disclosure"].body)

\* A process that has not started has read nothing; a rule list that is to be
\* written was accepted.
EditsShaped ==
  /\ edit = [p \in Policy!Procs |-> edit[p]]
  /\ \A p \in Policy!Procs :
       /\ p > era => edit[p] = Policy!NoEdit
       /\ edit[p].of = "teaching" => DOMAIN edit[p].body = {"freq", "knob"}
       /\ edit[p].of = "disclosure" =>
            edit[p].body \in PersonaRules /\ Policy!WellFormed(edit[p].body)

\* What the process behind the fence has read is what is stored.
EditIsFresh(d) ==
  edit[era].of = d =>
    /\ edit[era].ver = doc[d].ver + 1
    /\ edit[era].by = "frequency" => edit[era].body.knob = doc[d].body.knob

PolicyInv ==
  /\ era \in Policy!Procs
  /\ RowsShaped /\ EditsShaped
  /\ \A d \in Policy!Docs : EditIsFresh(d)
  /\ wiring = [p \in Policy!Procs |-> wiring[p]] /\ wiring[era] = tier

PolicyChange ==
  \A d \in Policy!Docs : doc'[d] # doc[d] =>
    \E p \in Policy!Procs :
      /\ edit[p].of = d /\ edit'[p] = Policy!NoEdit
      /\ doc'[d].ver = doc[d].ver + 1
      /\ edit[p].by = "frequency" => doc'[d].body.knob = doc[d].body.knob

LEMMA PolicyStart == Policy!Init => PolicyInv
BY DEF Policy!Init, PolicyInv, RowsShaped, EditsShaped, EditIsFresh, Policy!WellFormed,
       Policy!Docs, Policy!Procs, Policy!NoEdit

\* A handler that has read its row and means to write it.
LEMMA MeaningKeepsPolicy ==
  ASSUME PolicyInv, NEW p \in Policy!Procs, NEW d \in Policy!Docs, NEW body, NEW by,
         Policy!Means(p, d, body, by),
         by = "frequency" => body.knob = doc[d].body.knob,
         d = "teaching" => DOMAIN body = {"freq", "knob"},
         d = "disclosure" => body \in PersonaRules /\ Policy!WellFormed(body)
  PROVE  PolicyInv' /\ doc' = doc
<1> USE DEF Policy!Docs, Policy!Procs, Policy!NoEdit
<1>1. UNCHANGED <<era, doc, tier, wiring>> /\ p <= era
  BY DEF Policy!Means
<1>2. edit' = [edit EXCEPT ![p] = [of |-> d, ver |-> doc[d].ver + 1, body |-> body, by |-> by]]
  BY DEF Policy!Means, Policy!NextVersion
<1>3. era \in Policy!Procs /\ RowsShaped /\ EditsShaped /\ wiring[era] = tier
        /\ wiring = [q \in Policy!Procs |-> wiring[q]]
        /\ \A c \in Policy!Docs : EditIsFresh(c)
  BY DEF PolicyInv
<1>4. RowsShaped'
  BY <1>1, <1>3 DEF RowsShaped, Policy!WellFormed
<1>5. EditsShaped'
  <2>1. edit = [q \in Policy!Procs |-> edit[q]]
    BY <1>3 DEF EditsShaped
  <2>2. (edit = [q \in Policy!Procs |-> edit[q]])'
    BY <1>2, <2>1
  <2>3. ASSUME NEW q \in Policy!Procs
        PROVE  /\ q > era' => edit'[q] = Policy!NoEdit
               /\ edit'[q].of = "teaching" => DOMAIN edit'[q].body = {"freq", "knob"}
               /\ edit'[q].of = "disclosure" =>
                    edit'[q].body \in PersonaRules /\ Policy!WellFormed(edit'[q].body)
    <3>1. CASE q = p
      <4>1. edit'[q] = [of |-> d, ver |-> doc[d].ver + 1, body |-> body, by |-> by]
        BY <1>2, <2>1, <3>1
      <4>2. edit'[q].of = d /\ edit'[q].body = body
        BY <4>1
      <4>3. ~ q > era'
        BY <1>1, <1>3, <3>1
      <4> QED BY <4>2, <4>3
    <3>2. CASE q # p
      <4>1. edit'[q] = edit[q]
        BY <1>2, <2>1, <3>2
      <4> QED BY <1>1, <1>3, <4>1 DEF EditsShaped
    <3> QED BY <3>1, <3>2
  <2> QED BY <2>2, <2>3 DEF EditsShaped, Policy!WellFormed
<1>6. ASSUME NEW c \in Policy!Docs PROVE EditIsFresh(c)'
  <2>1. CASE p = era
    BY <1>1, <1>2, <1>3, <2>1 DEF EditIsFresh, EditsShaped, RowsShaped
  <2>2. CASE p # era
    BY <1>1, <1>2, <1>3, <2>2 DEF EditIsFresh, EditsShaped
  <2> QED BY <2>1, <2>2
<1> QED BY <1>1, <1>3, <1>4, <1>5, <1>6 DEF PolicyInv

\* The write itself.
LEMMA UpsertKeepsPolicy ==
  ASSUME PolicyInv, NEW p \in Policy!Procs, NEW d \in Policy!Docs, Policy!Upsert(p, d)
  PROVE  PolicyInv' /\ PolicyChange
<1> USE DEF Policy!Docs, Policy!Procs, Policy!NoEdit
<1>1. /\ UNCHANGED <<era, tier, wiring>> /\ edit[p].of = d
      /\ edit' = [edit EXCEPT ![p] = Policy!NoEdit]
  BY DEF Policy!Upsert
<1>2. era \in Policy!Procs /\ RowsShaped /\ EditsShaped /\ wiring[era] = tier
        /\ wiring = [q \in Policy!Procs |-> wiring[q]]
        /\ \A c \in Policy!Docs : EditIsFresh(c)
  BY DEF PolicyInv
<1>3. \/ doc' = doc
      \/ /\ p = era
         /\ doc' = [doc EXCEPT ![d] = [ver |-> edit[p].ver, body |-> edit[p].body]]
  BY DEF Policy!Upsert, Policy!Fenced
<1>4. EditsShaped'
  <2>1. edit' = [q \in Policy!Procs |-> edit'[q]]
    BY <1>1, <1>2 DEF EditsShaped
  <2>2. ASSUME NEW q \in Policy!Procs
        PROVE  edit'[q] = edit[q] \/ edit'[q] = Policy!NoEdit
    BY <1>1, <1>2, <2>2 DEF EditsShaped
  <2>3. ASSUME NEW q \in Policy!Procs
        PROVE  /\ q > era => edit'[q] = Policy!NoEdit
               /\ edit'[q].of = "teaching" => DOMAIN edit'[q].body = {"freq", "knob"}
               /\ edit'[q].of = "disclosure" =>
                    edit'[q].body \in PersonaRules /\ Policy!WellFormed(edit'[q].body)
    <3>1. CASE edit'[q] = edit[q]
      BY <1>2, <3>1 DEF EditsShaped
    <3>2. CASE edit'[q] = Policy!NoEdit
      BY <3>2
    <3> QED BY <2>2, <3>1, <3>2
  <2> QED BY <1>1, <2>1, <2>3 DEF EditsShaped
<1>5. CASE doc' = doc
  <2>1. RowsShaped'
    <3>1. RowsShaped
      BY <1>2
    <3> QED BY <1>5, <3>1 DEF RowsShaped, Policy!WellFormed
  <2>2. \A c \in Policy!Docs : EditIsFresh(c)'
    BY <1>1, <1>2, <1>5 DEF EditIsFresh, EditsShaped
  <2> QED BY <1>1, <1>2, <1>4, <1>5, <2>1, <2>2 DEF PolicyInv, PolicyChange
<1>6. CASE p = era /\ doc' = [doc EXCEPT ![d] = [ver |-> edit[p].ver, body |-> edit[p].body]]
  <2>1. edit[p].ver = doc[d].ver + 1
          /\ (edit[p].by = "frequency" => edit[p].body.knob = doc[d].body.knob)
    BY <1>1, <1>2, <1>6 DEF EditIsFresh
  <2>2. RowsShaped'
    <3>0. doc = [c \in Policy!Docs |-> doc[c]] /\ \A c \in Policy!Docs : doc[c].ver \in Nat
      BY <1>2 DEF RowsShaped
    <3>1. (doc = [c \in Policy!Docs |-> doc[c]])'
      BY <1>6, <3>0
    <3>3. \A c \in Policy!Docs : doc'[c].ver \in Nat
      <4>1. doc'[d] = [ver |-> edit[p].ver, body |-> edit[p].body]
        BY <1>6, <3>0
      <4>2. doc'[d].ver \in Nat
        BY <2>1, <3>0, <4>1
      <4>3. \A c \in Policy!Docs \ {d} : doc'[c] = doc[c]
        BY <1>6, <3>0
      <4> QED BY <3>0, <4>2, <4>3
    <3>4. DOMAIN doc'["teaching"].body = {"freq", "knob"}
      <4>1. CASE d = "teaching"
        BY <1>1, <1>2, <1>6, <4>1 DEF RowsShaped, EditsShaped
      <4>2. CASE d # "teaching"
        BY <1>2, <1>6, <4>2 DEF RowsShaped
      <4> QED BY <4>1, <4>2
    <3>2. /\ doc'["disclosure"].body \in PersonaRules \cup {<<>>}
          /\ Policy!WellFormed(doc'["disclosure"].body)
      <4>1. CASE d = "disclosure"
        BY <1>1, <1>2, <1>6, <4>1 DEF RowsShaped, EditsShaped
      <4>2. CASE d # "disclosure"
        BY <1>2, <1>6, <4>2 DEF RowsShaped
      <4> QED BY <4>1, <4>2
    <3> QED BY <3>1, <3>2, <3>3, <3>4 DEF RowsShaped, Policy!WellFormed
  <2>3. \A c \in Policy!Docs : EditIsFresh(c)'
    <3>1. era' = era /\ edit'[era].of = "none"
      BY <1>1, <1>2, <1>6 DEF EditsShaped
    <3> QED BY <3>1 DEF EditIsFresh
  <2>4. PolicyChange
    <3>0. doc = [c \in Policy!Docs |-> doc[c]] /\ edit = [q \in Policy!Procs |-> edit[q]]
      BY <1>2 DEF RowsShaped, EditsShaped
    <3>1. \A c \in Policy!Docs : doc'[c] # doc[c] => c = d
      BY <1>6, <3>0
    <3>2. doc'[d] = [ver |-> edit[p].ver, body |-> edit[p].body]
      BY <1>6, <3>0
    <3>3. edit'[p] = Policy!NoEdit
      BY <1>1, <3>0
    <3> QED BY <1>1, <2>1, <3>1, <3>2, <3>3 DEF PolicyChange
  <2> QED BY <1>1, <1>2, <1>4, <2>2, <2>3, <2>4 DEF PolicyInv
<1> QED BY <1>3, <1>5, <1>6

LEMMA PolicyKept == PolicyInv /\ Policy!Next => PolicyInv' /\ PolicyChange
<1> SUFFICES ASSUME PolicyInv, Policy!Next PROVE PolicyInv' /\ PolicyChange
  OBVIOUS
<1> USE DEF Policy!Docs, Policy!Procs, Policy!NoEdit
<1>1. CASE Policy!StartSecond
  <2>1. /\ era = 1 /\ era' = 2 /\ wiring' = [wiring EXCEPT ![2] = tier]
        /\ UNCHANGED <<doc, edit, tier>>
    BY <1>1 DEF Policy!StartSecond
  <2>2. RowsShaped /\ EditsShaped /\ wiring = [q \in Policy!Procs |-> wiring[q]]
    BY DEF PolicyInv
  <2>3. RowsShaped'
    BY <2>1, <2>2 DEF RowsShaped, Policy!WellFormed
  <2>4. EditsShaped'
    BY <2>1, <2>2 DEF EditsShaped, Policy!WellFormed
  <2>5. edit'[era'].of = "none"
    BY <2>1, <2>2 DEF EditsShaped
  <2>6. \A d \in Policy!Docs : EditIsFresh(d)'
    BY <2>5 DEF EditIsFresh
  <2>7. (wiring = [q \in Policy!Procs |-> wiring[q]] /\ wiring[era] = tier)'
    <3>1. (wiring = [q \in Policy!Procs |-> wiring[q]])'
      BY <2>1, <2>2
    <3>2. wiring'[era'] = tier'
      BY <2>1, <2>2
    <3> QED BY <3>1, <3>2
  <2> QED BY <2>1, <2>3, <2>4, <2>6, <2>7 DEF PolicyInv, PolicyChange
<1>2. ASSUME NEW p \in Policy!Procs,
             Policy!UpsertGoalPortfolio(p) \/ Policy!UpsertTeachingPolicy(p)
               \/ Policy!SetDisclosurePolicy(p)
      PROVE  PolicyInv' /\ PolicyChange
  BY <1>2, UpsertKeepsPolicy
     DEF Policy!UpsertGoalPortfolio, Policy!UpsertTeachingPolicy, Policy!SetDisclosurePolicy
<1>3. ASSUME NEW p \in Policy!Procs, NEW w \in Words, Policy!GoalsSave(p, w)
      PROVE  PolicyInv' /\ PolicyChange
  BY <1>3, MeaningKeepsPolicy DEF Policy!GoalsSave, PolicyChange
<1>4. ASSUME NEW p \in Policy!Procs, NEW w \in Words, Policy!TeachingFrequency(p, w)
      PROVE  PolicyInv' /\ PolicyChange
  <2> DEFINE body == [doc["teaching"].body EXCEPT !.freq = w]
  <2>1. Policy!Means(p, "teaching", body, "frequency")
    BY <1>4 DEF Policy!TeachingFrequency
  <2>2. DOMAIN doc["teaching"].body = {"freq", "knob"}
    BY DEF PolicyInv, RowsShaped
  <2>3. DOMAIN body = {"freq", "knob"} /\ body.knob = doc["teaching"].body.knob
    BY <2>2
  <2> HIDE DEF body
  <2>4. PolicyInv' /\ doc' = doc
    BY <2>1, <2>3, MeaningKeepsPolicy
  <2> QED BY <2>4 DEF PolicyChange
<1>5. ASSUME NEW p \in Policy!Procs, NEW w \in Words, NEW v \in Words,
             Policy!TeachingPolicySave(p, w, v)
      PROVE  PolicyInv' /\ PolicyChange
  BY <1>5, MeaningKeepsPolicy DEF Policy!TeachingPolicySave, PolicyChange
<1>6. ASSUME NEW p \in Policy!Procs, NEW list \in PersonaRules, Policy!DisclosureSave(p, list)
      PROVE  PolicyInv' /\ PolicyChange
  BY <1>6, MeaningKeepsPolicy DEF Policy!DisclosureSave, PolicyChange
<1>7. ASSUME NEW p \in Policy!Procs, NEW w \in Words, Policy!ModeSave(p, w)
      PROVE  PolicyInv' /\ PolicyChange
  <2>1. p = era /\ tier' = w /\ wiring' = [wiring EXCEPT ![p] = w]
          /\ UNCHANGED <<era, doc, edit>>
    BY <1>7 DEF Policy!ModeSave, Policy!Fenced
  <2> QED BY <2>1 DEF PolicyInv, PolicyChange, RowsShaped, EditsShaped, EditIsFresh,
                      Policy!WellFormed
<1> QED
  BY <1>1, <1>2, <1>3, <1>4, <1>5, <1>6, <1>7 DEF Policy!Next

\* With one rule per persona, the first one that names a persona is the one
\* that does.
LEMMA NamedRuleIsFound ==
  ASSUME NEW list \in Seq([who : STRING, level : STRING]), Policy!WellFormed(list),
         NEW i \in DOMAIN list
  PROVE  Policy!MatchedRule(list, list[i].who) = i
<1> DEFINE named == {j \in DOMAIN list : list[j].who = list[i].who}
<1>1. i \in Int
  OBVIOUS
<1>2. named = {i}
  BY DEF Policy!WellFormed
<1>3. (CHOOSE j \in named : \A k \in named : j <= k) = i
  BY <1>1, <1>2
<1> QED BY <1>2, <1>3 DEF Policy!MatchedRule

\* One element of a list is a list.
LEMMA ElementAsList ==
  ASSUME NEW S, NEW list \in Seq(S), NEW i \in DOMAIN list
  PROVE  <<list[i]>> \in Seq(S)
<1>1. list[i] \in S
  OBVIOUS
<1> QED BY <1>1

LEMMA NamedRulesDecide == PolicyInv => Policy!NamedRuleDecides
<1> DEFINE list == doc["disclosure"].body
<1> SUFFICES ASSUME PolicyInv, NEW i \in DOMAIN list, list[i].who # "default"
             PROVE  Policy!Disclosed(list, list[i].who) = Policy!Disclosed(<<list[i]>>, list[i].who)
  BY DEF Policy!NamedRuleDecides
<1>1. list \in Seq([who : STRING, level : STRING]) /\ Policy!WellFormed(list)
  <2>1. list \in PersonaRules \cup {<<>>} /\ Policy!WellFormed(list)
    BY DEF PolicyInv, RowsShaped
  <2>2. <<>> \in Seq([who : STRING, level : STRING])
    OBVIOUS
  <2> QED BY <2>1, <2>2, RuleListsAssumption
<1> HIDE DEF list
<1>2. Policy!MatchedRule(list, list[i].who) = i /\ i # 0
  BY <1>1, NamedRuleIsFound
<1> DEFINE one == <<list[i]>>
<1>3. one \in Seq([who : STRING, level : STRING]) /\ DOMAIN one = {1} /\ one[1] = list[i]
  <2>0. i \in DOMAIN list
    BY DEF list
  <2>2. one \in Seq([who : STRING, level : STRING])
    BY <1>1, <2>0, ElementAsList
  <2> QED BY <2>2
<1>4. Policy!WellFormed(one)
  BY <1>3 DEF Policy!WellFormed
<1> HIDE DEF one
<1>5. Policy!MatchedRule(one, list[i].who) = 1
  BY <1>3, <1>4, NamedRuleIsFound
<1>6. Policy!Disclosed(list, list[i].who) = Policy!Disclosed(one, list[i].who)
  BY <1>2, <1>3, <1>5 DEF Policy!Disclosed
<1> QED BY <1>6 DEF one

\* No edit of a setting is lost to a concurrent process, the stored tier is
\* the deciding one, and a rule that names a persona decides alone, for any
\* words, levels, rule lists and number of versions (user_config/store.py,
\* disclosure.py).
THEOREM SettingsKept == HostSpec => SettingsAreKept
<1>1. HostInit => PolicyInv
  BY PolicyStart DEF HostInit
<1>2. [HostNext]_hostVars => Policy!Next \/ UNCHANGED policyVars
  BY DEF HostNext, hostVars
<1>3. PolicyInv /\ UNCHANGED policyVars => PolicyInv'
  <2> SUFFICES ASSUME PolicyInv, UNCHANGED policyVars PROVE PolicyInv'
    OBVIOUS
  <2>1. UNCHANGED <<era, doc, edit, tier, wiring>>
    BY DEF policyVars
  <2>2. RowsShaped'
    BY <2>1 DEF PolicyInv, RowsShaped, Policy!WellFormed
  <2>3. EditsShaped'
    BY <2>1 DEF PolicyInv, EditsShaped, Policy!WellFormed
  <2> QED BY <2>1, <2>2, <2>3 DEF PolicyInv, EditIsFresh
<1>4. PolicyInv /\ [HostNext]_hostVars => PolicyInv'
  BY <1>2, <1>3, PolicyKept
<1>5. PolicyInv /\ [HostNext]_hostVars => [PolicyChange]_Policy!policyVars
  BY <1>2, PolicyKept DEF policyVars, Policy!policyVars
<1>6. PolicyInv => (part = "settings" => Policy!NamedRuleDecides /\ Policy!StoredTierDecides)
  BY NamedRulesDecide DEF PolicyInv, Policy!StoredTierDecides
<1>7. HostSpec => []PolicyInv
  BY <1>1, <1>4, PTL DEF HostSpec
<1>8. HostSpec => Policy!NoLostEdit
  BY <1>5, <1>7, PTL DEF HostSpec, Policy!NoLostEdit, PolicyChange
<1>9. HostSpec => [](part = "settings" => Policy!NamedRuleDecides /\ Policy!StoredTierDecides)
  BY <1>6, <1>7, PTL
<1> QED BY <1>8, <1>9 DEF SettingsAreKept

(***************************************************************************)
(* The provider's endpoint                                                 *)
(***************************************************************************)
\* The rows keep their shape; a profile's endpoint is one it has held.
ProviderShaped ==
  /\ profile = [p \in Profiles |-> profile[p]] /\ held = [p \in Profiles |-> held[p]]
  /\ \A p \in Profiles : profile[p] = Provider!Nowhere
                          \/ (profile[p] \in Endpoints /\ profile[p] \in held[p])
  /\ saved = [base |-> saved.base, model |-> saved.model, active |-> saved.active]
  /\ saved.active \in Profiles \cup {Provider!Custom}
  /\ swap = [at |-> swap.at, to |-> swap.to, for |-> swap.for]
  /\ swap.at \in {"idle", "swap", "base", "model", "pointer"}
  /\ swap.for \in Profiles \cup {Provider!Custom}

\* What a handler is about to dial or has dialled, and for whom.
SwapIsGrounded ==
  /\ swap.at \in {"swap", "base", "model"} =>
       /\ swap.to \in Endpoints
       /\ swap.for # Provider!Custom => swap.to \in held[swap.for]
  /\ swap.at \in {"base", "model"} => live = swap.to
  /\ swap.at = "pointer" /\ swap.for # Provider!Custom => live = swap.to /\ live \in held[swap.for]

\* How far the rows are behind the running provider at each point of a handler.
RowsFollow ==
  /\ swap.at \in {"idle", "swap", "pointer"} => Provider!Loaded = live
  /\ swap.at \in {"idle", "swap"} =>
       (saved.active # Provider!Custom => live \in held[saved.active])
  /\ swap.at = "model" => saved.base = swap.to[1]

ProviderInv == ProviderShaped /\ SwapIsGrounded /\ (~died => RowsFollow)

LEMMA ProviderStart == Provider!Init => ProviderInv
BY DEF Provider!Init, ProviderInv, ProviderShaped, SwapIsGrounded, RowsFollow, Provider!Loaded,
       Provider!Resting, Provider!Nowhere, Provider!Custom

LEMMA ProviderKept == ProviderInv /\ Provider!Next => ProviderInv'
<1> SUFFICES ASSUME ProviderInv, Provider!Next PROVE ProviderInv'
  OBVIOUS
<1> USE DEF Provider!Nowhere, Provider!Custom, Provider!Resting, Provider!Idle, Provider!At
<1>0. ProviderShaped /\ SwapIsGrounded /\ (~died => RowsFollow)
  BY DEF ProviderInv
<1>1. CASE Provider!Swap
  <2>1. /\ swap.at = "swap" /\ UNCHANGED <<profile, held, saved, died>>
        /\ live' = IF swap.to \in Insecure THEN live ELSE swap.to
        /\ IF swap.to \in Insecure THEN swap' = Provider!Resting
                                   ELSE swap' = [swap EXCEPT !.at = "base"]
    BY <1>1 DEF Provider!Swap, Provider!Replaced
  <2>2. CASE swap.to \in Insecure
    BY <1>0, <2>1, <2>2 DEF ProviderInv, ProviderShaped, SwapIsGrounded, RowsFollow, Provider!Loaded
  <2>3. CASE swap.to \notin Insecure
    <3>1. swap' = [at |-> "base", to |-> swap.to, for |-> swap.for] /\ live' = swap.to
      BY <1>0, <2>1, <2>3 DEF ProviderShaped
    <3>2. swap'.at = "base" /\ swap'.to = swap.to /\ swap'.for = swap.for
      BY <3>1
    <3> QED BY <1>0, <2>1, <3>1, <3>2 DEF ProviderInv, ProviderShaped, SwapIsGrounded, RowsFollow
  <2> QED BY <2>2, <2>3
<1>2. CASE Provider!Persist
  <2>1. UNCHANGED <<profile, held, live, died>>
    BY <1>2 DEF Provider!Persist
  <2>2. CASE swap.at = "base" /\ saved' = [saved EXCEPT !.base = swap.to[1]]
               /\ swap' = [swap EXCEPT !.at = "model"]
    <3>1. /\ saved' = [base |-> swap.to[1], model |-> saved.model, active |-> saved.active]
          /\ swap' = [at |-> "model", to |-> swap.to, for |-> swap.for]
      BY <1>0, <2>2 DEF ProviderShaped
    <3>2. /\ saved'.base = swap.to[1] /\ saved'.active = saved.active
          /\ swap'.at = "model" /\ swap'.to = swap.to /\ swap'.for = swap.for
      BY <3>1
    <3>3. (~died => RowsFollow)'
      BY <1>0, <2>1, <2>2, <3>2 DEF RowsFollow
    <3>4. SwapIsGrounded'
      BY <1>0, <2>1, <2>2, <3>2 DEF SwapIsGrounded
    <3>5. ProviderShaped'
      BY <1>0, <2>1, <3>1, <3>2 DEF ProviderShaped
    <3> QED BY <3>3, <3>4, <3>5 DEF ProviderInv
  <2>3. CASE swap.at = "model" /\ saved' = [saved EXCEPT !.model = swap.to[2]]
               /\ swap' = [swap EXCEPT !.at = "pointer"]
    <3>1. /\ saved' = [base |-> saved.base, model |-> swap.to[2], active |-> saved.active]
          /\ swap' = [at |-> "pointer", to |-> swap.to, for |-> swap.for]
      BY <1>0, <2>3 DEF ProviderShaped
    <3>2. /\ saved'.base = saved.base /\ saved'.model = swap.to[2] /\ saved'.active = saved.active
          /\ swap'.at = "pointer" /\ swap'.to = swap.to /\ swap'.for = swap.for
      BY <3>1
    <3>3. (~died => RowsFollow)'
      BY <1>0, <2>1, <2>3, <3>2, EndpointsAssumption DEF RowsFollow, SwapIsGrounded, Provider!Loaded
    <3>4. SwapIsGrounded'
      BY <1>0, <2>1, <2>3, <3>2 DEF SwapIsGrounded, RowsFollow
    <3>5. ProviderShaped'
      BY <1>0, <2>1, <3>1, <3>2 DEF ProviderShaped
    <3> QED BY <3>3, <3>4, <3>5 DEF ProviderInv
  <2>4. CASE swap.at = "pointer" /\ saved' = [saved EXCEPT !.active = swap.for]
               /\ swap' = Provider!Resting
    <3>1. saved' = [base |-> saved.base, model |-> saved.model, active |-> swap.for]
      BY <1>0, <2>4 DEF ProviderShaped
    <3>2. saved'.base = saved.base /\ saved'.model = saved.model /\ saved'.active = swap.for
      BY <3>1
    <3>3. (~died => RowsFollow)'
      BY <1>0, <2>1, <2>4, <3>2 DEF RowsFollow, SwapIsGrounded, Provider!Loaded
    <3>4. SwapIsGrounded'
      BY <2>4 DEF SwapIsGrounded
    <3>5. ProviderShaped'
      BY <1>0, <2>1, <2>4, <3>1, <3>2 DEF ProviderShaped
    <3> QED BY <3>3, <3>4, <3>5 DEF ProviderInv
  <2> QED BY <1>2, <2>2, <2>3, <2>4 DEF Provider!Persist, Provider!PointerAfter
<1>3. CASE Provider!Restart
  <2>1. /\ live' = Provider!Loaded /\ swap' = Provider!Resting /\ UNCHANGED <<profile, held, saved>>
        /\ died' = (died \/ ~(swap.at = "idle"))
    BY <1>3 DEF Provider!Restart
  <2>2. (~died => RowsFollow)'
    BY <1>0, <2>1 DEF RowsFollow, Provider!Loaded
  <2> QED BY <1>0, <2>1, <2>2 DEF ProviderInv, ProviderShaped, SwapIsGrounded
<1>4. ASSUME NEW p \in Profiles, Provider!DeleteProfile(p) PROVE ProviderInv'
  <2>1. /\ swap.at = "idle" /\ profile' = [profile EXCEPT ![p] = Provider!Nowhere]
        /\ swap' = IF saved.active = p THEN [Provider!Resting EXCEPT !.at = "pointer"] ELSE swap
        /\ UNCHANGED <<held, saved, live, died>>
    BY <1>4 DEF Provider!DeleteProfile
  <2>2. (profile = [q \in Profiles |-> profile[q]])' /\ \A q \in Profiles \ {p} : profile'[q] = profile[q]
    BY <1>0, <2>1 DEF ProviderShaped
  <2>3. profile'[p] = Provider!Nowhere
    BY <1>0, <2>1 DEF ProviderShaped
  <2>4. CASE saved.active = p
    <3>1. swap' = [at |-> "pointer", to |-> Provider!Nowhere, for |-> Provider!Custom]
      BY <2>1, <2>4
    <3> QED BY <1>0, <2>1, <2>2, <2>3, <3>1 DEF ProviderInv, ProviderShaped, SwapIsGrounded, RowsFollow,
             Provider!Loaded
  <2>5. CASE saved.active # p
    BY <1>0, <2>1, <2>2, <2>3, <2>5 DEF ProviderInv, ProviderShaped, SwapIsGrounded, RowsFollow,
       Provider!Loaded
  <2> QED BY <2>4, <2>5
<1>5. ASSUME NEW p \in Profiles, Provider!Activate(p) PROVE ProviderInv'
  BY <1>0, <1>5
     DEF ProviderInv, ProviderShaped, SwapIsGrounded, RowsFollow, Provider!Activate, Provider!Loaded
<1>6. ASSUME NEW p \in Profiles, NEW e \in Endpoints, Provider!SaveProfile(p, e) PROVE ProviderInv'
  <2>1. /\ swap.at = "idle" /\ profile' = [profile EXCEPT ![p] = e]
        /\ held' = [held EXCEPT ![p] = @ \cup {e}] /\ UNCHANGED <<saved, live, swap, died>>
    BY <1>6 DEF Provider!SaveProfile
  <2>2. /\ (profile = [q \in Profiles |-> profile[q]])' /\ (held = [q \in Profiles |-> held[q]])'
        /\ \A q \in Profiles \ {p} : profile'[q] = profile[q]
        /\ profile'[p] = e
    BY <1>0, <2>1 DEF ProviderShaped
  <2>3. held'[p] = held[p] \cup {e} /\ \A q \in Profiles \ {p} : held'[q] = held[q]
    BY <1>0, <2>1 DEF ProviderShaped
  <2>4. ProviderShaped'
    BY <1>0, <2>1, <2>2, <2>3 DEF ProviderShaped
  <2>5. SwapIsGrounded'
    BY <2>1 DEF SwapIsGrounded
  <2>6. (~died => RowsFollow)'
    BY <1>0, <2>1, <2>3 DEF RowsFollow, Provider!Loaded, ProviderShaped
  <2> QED BY <2>4, <2>5, <2>6 DEF ProviderInv
<1>7. ASSUME NEW e \in Endpoints, Provider!SaveProvider(e) PROVE ProviderInv'
  BY <1>0, <1>7
     DEF ProviderInv, ProviderShaped, SwapIsGrounded, RowsFollow, Provider!SaveProvider, Provider!Loaded
<1> QED BY <1>1, <1>2, <1>3, <1>4, <1>5, <1>6, <1>7 DEF Provider!Next

\* The stored profile pointer and the stored endpoint are what the provider
\* dials between requests, now and after a restart, for any profiles and
\* endpoints and wherever the rows of a switch were cut (web.py, host.py).
THEOREM ProviderAsStored == HostSpec => []ProviderIsAsStored
<1>1. HostInit => ProviderInv
  BY ProviderStart DEF HostInit
<1>2. [HostNext]_hostVars => Provider!Next \/ UNCHANGED providerVars
  BY DEF HostNext, hostVars
<1>3. ProviderInv /\ UNCHANGED providerVars => ProviderInv'
  BY DEF providerVars, ProviderInv, ProviderShaped, SwapIsGrounded, RowsFollow, Provider!Loaded
<1>4. ProviderInv /\ [HostNext]_hostVars => ProviderInv'
  BY <1>2, <1>3, ProviderKept
<1>5. ProviderInv => ProviderIsAsStored
  BY DEF ProviderInv, RowsFollow, ProviderIsAsStored, Provider!PointerIsHonest,
         Provider!RestartKeepsEndpoint, Provider!Idle
<1> QED BY <1>1, <1>4, <1>5, PTL DEF HostSpec

(***************************************************************************)
(* The content artifact                                                    *)
(***************************************************************************)
\* What load_source has checked of a set of trees.
SourceSound(s) ==
  /\ \A e \in Building!Present(s) : s.docs[e].positives = s.docs[e].errors
  /\ \A l \in s.links : l.resource \in Building!Present(s) /\ l.node \in s.nodes
  /\ \A l, k \in s.links : (l.primary /\ k.primary /\ l.resource = k.resource) => l = k

\* What is written into an artifact: sound trees, and a verdict of "verified"
\* that its own detectors have reached.
Made(a) ==
  /\ SourceSound(a.src)
  /\ \A e \in Building!Present(a.src) : a.provenance[e] = "EXECUTABLY_VERIFIED" =>
       /\ a.src.docs[e].positives \subseteq a.by.finds
       /\ a.src.docs[e].negatives => ~a.by.noisy

ContentInv ==
  /\ build = [at |-> build.at, src |-> build.src]
  /\ build.at \in {"open", "write", "move"} => SourceSound(build.src)
  /\ build.at = "move" => Made(temp)
  /\ \A a \in Building!Held : Made(a)

LEMMA ContentStart == Building!Init => ContentInv
BY DEF Building!Init, ContentInv, Building!Resting, Building!Held, Building!NoFile

LEMMA ArtifactIsMade ==
  ASSUME NEW s, SourceSound(s) PROVE Made(Building!Artifact(s))
<1> DEFINE a == Building!Artifact(s)
<1>1. a.src = s /\ a.provenance = Building!Provenance(s) /\ a.by = detector
  BY DEF Building!Artifact, Building!Profile
<1>2. ASSUME NEW e \in Building!Present(s), Building!Provenance(s)[e] = "EXECUTABLY_VERIFIED"
      PROVE  e \in Building!Verified(s)
  BY <1>2 DEF Building!Provenance
<1> HIDE DEF a
<1>3. Made(a)
  BY <1>1, <1>2 DEF Made, Building!Verified, Building!AllPassed
<1> QED BY <1>3 DEF a

\* A step that only takes artifacts from the ones that are there.
LEMMA HeldKept ==
  ASSUME ContentInv, {published', content', targets'} \subseteq {published, content, targets, temp, Building!NoFile},
         build.at = "move" \/ {published', content', targets'} \subseteq {published, content, targets, Building!NoFile}
  PROVE  \A a \in Building!Held' : Made(a)
BY DEF ContentInv, Building!Held, Building!NoFile

LEMMA ContentKept == ContentInv /\ Building!Next => ContentInv'
<1> SUFFICES ASSUME ContentInv, Building!Next PROVE ContentInv'
  OBVIOUS
<1>0. /\ build = [at |-> build.at, src |-> build.src]
      /\ build.at \in {"open", "write", "move"} => SourceSound(build.src)
      /\ build.at = "move" => Made(temp)
  BY DEF ContentInv
<1>1. CASE Building!Edit \/ Building!Release
  <2>1. UNCHANGED <<build, temp, published, content, targets>>
    BY <1>1 DEF Building!Edit, Building!Release
  <2>2. \A a \in Building!Held' : Made(a)
    BY <2>1, HeldKept
  <2> QED BY <1>0, <2>1, <2>2 DEF ContentInv, SourceSound, Made, Building!Present, Building!NoDoc
<1>2. CASE Building!LoadSource
  <2>1. build' = [at |-> "open", src |-> source] /\ UNCHANGED <<temp, published, content, targets>>
    BY <1>2 DEF Building!LoadSource
  <2>2. SourceSound(source)
    BY <1>2 DEF Building!LoadSource, SourceSound, Building!ReferencesSound, Building!EvidenceSound
  <2>3. build'.at = "open" /\ build'.src = source /\ build' = [at |-> build'.at, src |-> build'.src]
    BY <2>1
  <2>4. \A a \in Building!Held' : Made(a)
    BY <2>1, HeldKept
  <2>5. SourceSound(build'.src)
    BY <2>2, <2>3
  <2> QED BY <2>3, <2>4, <2>5
          DEF ContentInv, SourceSound, Made, Building!Present, Building!NoDoc
<1>3. CASE Building!OpenTemp
  <2>1. build.at = "open" /\ build' = [build EXCEPT !.at = "write"]
          /\ UNCHANGED <<published, content, targets>>
    BY <1>3 DEF Building!OpenTemp
  <2>2. build'.at = "write" /\ build'.src = build.src /\ build' = [at |-> build'.at, src |-> build'.src]
    BY <1>0, <2>1
  <2>3. \A a \in Building!Held' : Made(a)
    BY <2>1, HeldKept
  <2>4. SourceSound(build'.src)
    BY <1>0, <2>1, <2>2
  <2> QED BY <2>2, <2>3, <2>4
          DEF ContentInv, SourceSound, Made, Building!Present, Building!NoDoc
<1>4. CASE Building!WriteRows
  <2>1. build.at = "write" /\ UNCHANGED <<published, content, targets>>
    BY <1>4 DEF Building!WriteRows
  <2>2. \A a \in Building!Held' : Made(a)
    BY <2>1, HeldKept
  <2>3. CASE Pilot \subseteq Building!Present(build.src)
    <3>1. temp' = Building!Artifact(build.src) /\ build' = [build EXCEPT !.at = "move"]
      BY <1>4, <2>3 DEF Building!WriteRows
    <3>2. build'.at = "move" /\ build'.src = build.src /\ build' = [at |-> build'.at, src |-> build'.src]
      BY <1>0, <3>1
    <3>3. SourceSound(build'.src) /\ Made(temp')
      BY <1>0, <2>1, <3>1, <3>2, ArtifactIsMade
    <3> QED BY <2>2, <3>2, <3>3
            DEF ContentInv, SourceSound, Made, Building!Present, Building!NoDoc
  <2>4. CASE ~(Pilot \subseteq Building!Present(build.src))
    <3>1. build' = Building!Resting
      BY <1>4, <2>4 DEF Building!WriteRows
    <3>2. build'.at = "idle" /\ build' = [at |-> build'.at, src |-> build'.src]
      BY <3>1 DEF Building!Resting
    <3> QED BY <2>2, <3>2 DEF ContentInv, Made, SourceSound, Building!Present, Building!NoDoc
  <2> QED BY <2>3, <2>4
<1>5. CASE Building!Publish \/ Building!BuilderDies
  <2>1. /\ build' = Building!Resting /\ UNCHANGED <<content, targets>>
        /\ published' = published \/ (build.at = "move" /\ published' = temp)
    BY <1>5 DEF Building!Publish, Building!BuilderDies
  <2>2. build'.at = "idle" /\ build' = [at |-> build'.at, src |-> build'.src]
    BY <2>1 DEF Building!Resting
  <2>3. \A a \in Building!Held' : Made(a)
    BY <2>1, HeldKept
  <2> QED BY <2>2, <2>3 DEF ContentInv, Made, SourceSound, Building!Present, Building!NoDoc
<1>6. CASE Building!OpenHost \/ Building!FirstResolve
  <2>1. /\ UNCHANGED <<build, temp, published>>
        /\ content' \in {content, published} /\ targets' \in {targets, published, Building!NoFile}
    BY <1>6 DEF Building!OpenHost, Building!FirstResolve
  <2>2. \A a \in Building!Held' : Made(a)
    BY <2>1, HeldKept
  <2> QED BY <1>0, <2>1, <2>2 DEF ContentInv, SourceSound, Made, Building!Present, Building!NoDoc
<1> QED BY <1>1, <1>2, <1>3, <1>4, <1>5, <1>6 DEF Building!Next

LEMMA CountsAlike == \A S : Building!Cardinality(S) = Cardinality(S)
BY DEF Building!Cardinality, Cardinality

\* A level is reached when the facts of all levels up to it are there.
LEMMA LevelMeansFacts ==
  ASSUME NEW a, NEW e, NEW k \in 0..4, Building!LevelOf(a, e) >= k
  PROVE  Building!FactsOf(a, e, k)
<1> DEFINE reached == {n \in 0..4 : \A j \in 0..n : Building!FactsOf(a, e, j)}
<1>1. Building!LevelOf(a, e) = Cardinality(reached) - 1
  BY CountsAlike DEF Building!LevelOf
<1>2. SUFFICES ASSUME ~Building!FactsOf(a, e, k) PROVE FALSE
  OBVIOUS
<1>3. reached \subseteq 0..(k - 1)
  BY <1>2
<1>4. IsFiniteSet(0..(k - 1)) /\ Cardinality(0..(k - 1)) = k
  <2>1. 0 \in Int /\ k - 1 \in Int /\ (IF 0 > k - 1 THEN 0 ELSE (k - 1) - 0 + 1) = k
    OBVIOUS
  <2> QED BY <2>1, FS_Interval
<1> HIDE DEF reached
<1>5. Cardinality(reached) \in Nat /\ Cardinality(reached) <= k
  BY <1>3, <1>4, FS_Subset, FS_CardinalityType
<1> QED BY <1>1, <1>5

LEMMA ContentTrustworthy == ContentInv => ArtifactsAreTrustworthy
<1> SUFFICES ASSUME ContentInv PROVE ArtifactsAreTrustworthy
  OBVIOUS
<1>0. \A a \in Building!Held : Made(a)
  BY DEF ContentInv
<1>1. Building!ArtifactsAreSound
  <2> SUFFICES ASSUME NEW a \in Building!Held, NEW l \in a.src.links
               PROVE  /\ l.resource \in Building!Present(a.src) /\ l.node \in a.src.nodes
                      /\ Cardinality(Building!Primaries(a, l.resource)) <= 1
    BY CountsAlike DEF Building!ArtifactsAreSound
  <2>1. SourceSound(a.src)
    BY <1>0 DEF Made
  <2>2. l.resource \in Building!Present(a.src) /\ l.node \in a.src.nodes
    BY <2>1 DEF SourceSound
  <2> DEFINE P == Building!Primaries(a, l.resource)
  <2>3. \A x, y \in P : x = y
    BY <2>1 DEF SourceSound, Building!Primaries
  <2> HIDE DEF P
  <2>4. Cardinality(P) <= 1
    <3>1. CASE P = {}
      BY <3>1, FS_EmptySet
    <3>2. CASE P # {}
      <4>1. PICK x : x \in P
        BY <3>2
      <4>2. P = {x}
        BY <2>3, <4>1
      <4>3. Cardinality(P) = 1
        BY <4>2, FS_Singleton
      <4> QED BY <4>3
    <3> QED BY <3>1, <3>2
  <2> QED BY <2>2, <2>4 DEF P
<1>2. Building!VerifiedIsTested
  <2> SUFFICES ASSUME NEW a \in Building!Held, NEW e \in Building!UsableForErrors(a)
               PROVE  /\ a.src.docs[e].errors \subseteq a.by.finds /\ ~a.by.noisy
                      /\ a.src.docs[e].errors # {} \/ a.src.docs[e].negatives
    BY DEF Building!VerifiedIsTested
  <2>1. /\ e \in Building!Present(a.src) /\ Building!LevelOf(a, e) >= 4
        /\ a.provenance[e] = "EXECUTABLY_VERIFIED"
    BY DEF Building!UsableForErrors, Building!ReachesExecutable
  <2>2. a.src.docs[e].negatives
    <3>1. Building!FactsOf(a, e, 4)
      BY <2>1, LevelMeansFacts
    <3> QED BY <3>1 DEF Building!FactsOf
  <2>3. Made(a)
    BY <1>0
  <2> QED BY <2>1, <2>2, <2>3 DEF Made, SourceSound
<1>3. Building!ReadyIsUsable
  <2> SUFFICES ASSUME content = targets, NEW e \in Building!Present(content.src),
                      Building!LevelOf(content, e) >= 3
               PROVE  Building!Resolve(targets, e) = "VALID"
    BY DEF Building!ReadyIsUsable
  <2>1. Building!FactsOf(content, e, 3)
    BY LevelMeansFacts
  <2>2. content.src.docs[e].life = "CANONICAL_APPROVED"
    BY <2>1 DEF Building!FactsOf
  <2> QED BY <2>2 DEF Building!Resolve
<1> QED BY <1>1, <1>2, <1>3 DEF ArtifactsAreTrustworthy

\* Whatever is edited while an artifact is built and wherever a build dies,
\* every artifact anyone reads hangs together, opens nothing that its own
\* detectors have not tested, and calls ready only what can be taught, for any
\* entities, documents, links and detectors (content/build.py, content/store.py).
THEOREM ArtifactsTrustworthy == HostSpec => []ArtifactsAreTrustworthy
<1>1. HostInit => ContentInv
  BY ContentStart DEF HostInit
<1>2. [HostNext]_hostVars => Building!Next \/ UNCHANGED contentVars
  BY DEF HostNext, hostVars
<1>3. ContentInv /\ UNCHANGED contentVars => ContentInv'
  <2> SUFFICES ASSUME ContentInv, UNCHANGED contentVars PROVE ContentInv'
    OBVIOUS
  <2>1. UNCHANGED <<build, temp, published, content, targets>>
    BY DEF contentVars
  <2>2. \A a \in Building!Held' : Made(a)
    BY <2>1, HeldKept
  <2> QED BY <2>1, <2>2 DEF ContentInv, SourceSound, Made, Building!Present, Building!NoDoc
<1>4. ContentInv /\ [HostNext]_hostVars => ContentInv'
  BY <1>2, <1>3, ContentKept
<1> QED BY <1>1, <1>4, ContentTrustworthy, PTL DEF HostSpec

(***************************************************************************)
(* User constraints                                                        *)
(***************************************************************************)
RuleShape ==
  [type : STRING, kind : STRING, target : STRING, from : [time : Nat, text : Nat],
   to : [time : Nat, text : Nat], active : BOOLEAN, turn : STRING]
FocusShape ==
  [type : {"focus"}, from : Stamps, to : Stamps \cup {Limits!Never}]

\* What was read at the plan still binds the opening that is on its way: each
\* row counted against it is on, and has let it pass.
RowsLetPass ==
  opening.at = "planned" =>
    /\ opening = [at |-> "planned", target |-> opening.target, mode |-> opening.mode,
                  asOf |-> opening.asOf, asked |-> opening.asked, against |-> opening.against]
    /\ opening.against \subseteq {i \in Rules : rules[i] \in RuleShape /\ rules[i].active = TRUE}
    /\ \A i \in opening.against :
         /\ rules[i].type = "DO_NOT_AUTO_TEACH" =>
              opening.asked \/ ~Limits!AppliesTo(rules[i], opening.target)
         /\ rules[i].type = "SUPPRESS_REVIEW" /\ opening.mode = "REVIEW" =>
              ~Limits!AppliesTo(rules[i], opening.target)

LimitsInv ==
  /\ rules \in [Rules -> RuleShape \cup {Limits!NoRow}]
  /\ foci \in [FocusIds -> FocusShape \cup {Limits!NoRow}]
  /\ instant \in Nat
  /\ opening.at \in {"idle", "planned", "out", "invalid"}
  /\ opening.at # "idle" => opening = [at |-> opening.at, target |-> opening.target,
        mode |-> opening.mode, asOf |-> opening.asOf, asked |-> opening.asked,
        against |-> opening.against]
  /\ RowsLetPass

LimitsChange ==
  (opening.at = "planned" /\ opening'.at = "out" /\ ~Limits!ReadFails(Limits!SwitchedOn, instant))
    => \A i \in opening.against : Limits!InForce(rules[i], instant) => ~Limits!Forbids(i)

LEMMA LimitsStart == Limits!Init => LimitsInv
BY DEF Limits!Init, LimitsInv, RowsLetPass, Limits!NoRow, Limits!NoOpening

\* The guard's two reads cover every row that stands against the opening.
LEMMA GuardHonours ==
  ASSUME LimitsInv, opening.at = "planned", ~Limits!Invalidated,
         ~Limits!ReadFails(Limits!SwitchedOn, instant),
         NEW i \in opening.against, Limits!InForce(rules[i], instant)
  PROVE  ~Limits!Forbids(i)
<1>1. /\ i \in Rules /\ rules[i] \in RuleShape /\ rules[i].active = TRUE
      /\ rules[i].type = "DO_NOT_AUTO_TEACH" =>
           opening.asked \/ ~Limits!AppliesTo(rules[i], opening.target)
      /\ rules[i].type = "SUPPRESS_REVIEW" /\ opening.mode = "REVIEW" =>
           ~Limits!AppliesTo(rules[i], opening.target)
  BY DEF LimitsInv, RowsLetPass
<1>2. i \in Limits!SwitchedOn
  <2>1. rules[i] # Limits!NoRow
    BY <1>1 DEF RuleShape, Limits!NoRow
  <2> QED BY <1>1, <2>1 DEF Limits!SwitchedOn
<1>3. rules[i].type # "JUST_CHAT"
  BY <1>2 DEF Limits!Invalidated, Limits!JustChatHardSwitch, Limits!OfType, Limits!Active
<1>4. Limits!MatchesTarget(rules[i], opening.target) => rules[i].type # "SUPPRESS_REVIEW"
  <2>1. SUFFICES ASSUME Limits!MatchesTarget(rules[i], opening.target),
                        rules[i].type = "SUPPRESS_REVIEW"
                 PROVE  FALSE
    OBVIOUS
  <2>2. i \in Limits!About(opening.target)
    BY <1>2, <2>1 DEF Limits!About
  <2>3. Limits!About(opening.target) \subseteq Limits!SwitchedOn
    BY DEF Limits!About
  <2>4. ~Limits!ReadFails(Limits!About(opening.target), instant)
    BY <2>3 DEF Limits!ReadFails
  <2>5. i \in Limits!Active(Limits!About(opening.target), instant)
    BY <2>2 DEF Limits!Active
  <2> QED BY <2>1, <2>4, <2>5 DEF Limits!Invalidated, Limits!NewTargetSuppressed
<1>5. CASE rules[i].type = "DO_NOT_AUTO_TEACH"
  BY <1>1, <1>5 DEF Limits!Forbids, Limits!AppliesTo, Limits!TargetLeg
<1>6. CASE rules[i].type = "SUPPRESS_REVIEW"
  BY <1>1, <1>4, <1>6 DEF Limits!Forbids, Limits!AppliesTo, Limits!MatchesTarget, Limits!TargetLeg
<1> QED BY <1>3, <1>5, <1>6 DEF Limits!Forbids

\* A step that leaves the rules and the opening alone.
LEMMA LimitsUntouched ==
  ASSUME LimitsInv, UNCHANGED <<rules, opening>>, instant' \in Nat,
         foci' \in [FocusIds -> FocusShape \cup {Limits!NoRow}]
  PROVE  LimitsInv' /\ LimitsChange
<1>1. RowsLetPass'
  BY DEF LimitsInv, RowsLetPass, Limits!AppliesTo, Limits!TargetLeg
<1> QED BY <1>1 DEF LimitsInv, LimitsChange

LEMMA LimitsKept == LimitsInv /\ Limits!Next => LimitsInv' /\ LimitsChange
<1> SUFFICES ASSUME LimitsInv, Limits!Next PROVE LimitsInv' /\ LimitsChange
  OBVIOUS
<1>0. rules \in [Rules -> RuleShape \cup {Limits!NoRow}] /\ RowsLetPass
  BY DEF LimitsInv
<1>1. ASSUME NEW i \in Rules, NEW row \in RuleForms, Limits!RecordPlannerConstraint(i, row)
      PROVE  LimitsInv' /\ LimitsChange
  <2>1. /\ rules[i] = Limits!NoRow /\ rules' = [rules EXCEPT ![i] = row]
        /\ UNCHANGED <<foci, instant, newest, opening, flips>>
    BY <1>1 DEF Limits!RecordPlannerConstraint
  <2>2. row \in RuleShape
    BY RuleFormsAssumption DEF RuleShape
  <2>3. rules' \in [Rules -> RuleShape \cup {Limits!NoRow}]
    BY <1>0, <2>1, <2>2
  <2>4. Limits!NoRow \notin RuleShape
    BY DEF Limits!NoRow, RuleShape
  <2>5. ASSUME opening.at = "planned" PROVE \A k \in opening.against : rules'[k] = rules[k] /\ k \in Rules
    BY <1>0, <2>1, <2>4, <2>5 DEF RowsLetPass
  <2>6. RowsLetPass'
    BY <1>0, <2>1, <2>5 DEF RowsLetPass, Limits!AppliesTo, Limits!TargetLeg
  <2> QED BY <2>1, <2>3, <2>6 DEF LimitsInv, LimitsChange
<1>2. ASSUME NEW i \in Rules, NEW on \in BOOLEAN, Limits!SetPlannerConstraintActive(i, on)
      PROVE  LimitsInv' /\ LimitsChange
  <2>1. /\ rules[i] # Limits!NoRow /\ rules' = [rules EXCEPT ![i].active = on]
        /\ opening' = IF opening.at = "idle" THEN opening
                      ELSE [opening EXCEPT !.against = @ \ {i}]
        /\ UNCHANGED <<foci, instant, newest>>
    BY <1>2 DEF Limits!SetPlannerConstraintActive
  <2>2. rules[i] \in RuleShape
    BY <1>0, <2>1
  <2>3. [rules[i] EXCEPT !.active = on] \in RuleShape
    BY <2>2 DEF RuleShape
  <2>4. rules' = [rules EXCEPT ![i] = [rules[i] EXCEPT !.active = on]]
    BY <1>0, <2>1
  <2>5. rules' \in [Rules -> RuleShape \cup {Limits!NoRow}]
    BY <1>0, <2>3, <2>4
  <2>6. \A k \in Rules \ {i} : rules'[k] = rules[k]
    BY <1>0, <2>4
  <2>7. CASE opening.at = "idle"
    BY <2>1, <2>5, <2>7 DEF LimitsInv, LimitsChange, RowsLetPass
  <2>8. CASE opening.at # "idle"
    <3>1. opening' = [at |-> opening.at, target |-> opening.target, mode |-> opening.mode,
                      asOf |-> opening.asOf, asked |-> opening.asked,
                      against |-> opening.against \ {i}]
      BY <2>1, <2>8 DEF LimitsInv
    <3>2. /\ opening'.at = opening.at /\ opening'.target = opening.target
          /\ opening'.mode = opening.mode /\ opening'.asked = opening.asked
          /\ opening'.asOf = opening.asOf /\ opening'.against = opening.against \ {i}
      BY <3>1
    <3>3. opening' = [at |-> opening'.at, target |-> opening'.target, mode |-> opening'.mode,
                      asOf |-> opening'.asOf, asked |-> opening'.asked,
                      against |-> opening'.against]
      BY <3>1
    <3>4. RowsLetPass'
      BY <1>0, <2>6, <3>2, <3>3 DEF RowsLetPass, Limits!AppliesTo, Limits!TargetLeg
    <3> QED BY <2>1, <2>5, <3>2, <3>3, <3>4 DEF LimitsInv, LimitsChange
  <2> QED BY <2>7, <2>8
<1>3. ASSUME NEW i \in FocusIds, NEW from \in Stamps, NEW to \in Stamps \cup {Limits!Never},
             Limits!SetSessionFocus(i, from, to)
      PROVE  LimitsInv' /\ LimitsChange
  <2>1. [type |-> "focus", from |-> from, to |-> to] \in FocusShape
    BY DEF FocusShape
  <2>2. foci' \in [FocusIds -> FocusShape \cup {Limits!NoRow}]
    BY <1>3, <2>1 DEF Limits!SetSessionFocus, LimitsInv
  <2> QED BY <1>3, <2>2, LimitsUntouched DEF Limits!SetSessionFocus, LimitsInv
<1>4. ASSUME NEW x \in Targets, NEW mode \in {"REVIEW", "REPAIR"}, Limits!Plan(x, mode)
      PROVE  LimitsInv' /\ LimitsChange
  <2>1. /\ opening.at = "idle" /\ ~Limits!Suppressed(x, mode, instant)
        /\ opening' = [at |-> "planned", target |-> x, mode |-> mode, asOf |-> instant,
                       asked |-> x \in Limits!Requested(instant),
                       against |-> Limits!Active(Limits!SwitchedOn, instant)]
        /\ UNCHANGED <<rules, foci, instant, newest, flips>>
    BY <1>4 DEF Limits!Plan
  <2>2. /\ opening'.at = "planned" /\ opening'.target = x /\ opening'.mode = mode
        /\ opening'.asked = (x \in Limits!Requested(instant))
        /\ opening'.against = Limits!Active(Limits!SwitchedOn, instant)
        /\ opening' = [at |-> opening'.at, target |-> opening'.target, mode |-> opening'.mode,
                       asOf |-> opening'.asOf, asked |-> opening'.asked,
                       against |-> opening'.against]
    BY <2>1
  <2>3. ASSUME NEW i \in Limits!Active(Limits!SwitchedOn, instant)
        PROVE  i \in Rules /\ rules[i] \in RuleShape /\ rules[i].active = TRUE
    BY <1>0 DEF Limits!Active, Limits!SwitchedOn, RuleShape
  <2>4. ASSUME NEW i \in Limits!Active(Limits!SwitchedOn, instant)
        PROVE  /\ rules[i].type = "DO_NOT_AUTO_TEACH" =>
                    x \in Limits!Requested(instant) \/ ~Limits!AppliesTo(rules[i], x)
               /\ rules[i].type = "SUPPRESS_REVIEW" /\ mode = "REVIEW" =>
                    ~Limits!AppliesTo(rules[i], x)
    BY <2>1 DEF Limits!Suppressed, Limits!OfType
  <2>5. RowsLetPass'
    BY <2>1, <2>2, <2>3, <2>4 DEF RowsLetPass, Limits!AppliesTo, Limits!TargetLeg
  <2> QED BY <2>1, <2>2, <2>5 DEF LimitsInv, LimitsChange
<1>5. CASE Limits!PreDeliveryGuard
  <2>1. /\ opening.at = "planned"
        /\ opening' = [opening EXCEPT !.at = IF Limits!Invalidated THEN "invalid" ELSE "out"]
        /\ UNCHANGED <<rules, foci, instant, newest, flips>>
    BY <1>5 DEF Limits!PreDeliveryGuard
  <2>2. opening' = [at |-> IF Limits!Invalidated THEN "invalid" ELSE "out",
                    target |-> opening.target, mode |-> opening.mode, asOf |-> opening.asOf,
                    asked |-> opening.asked, against |-> opening.against]
    BY <2>1 DEF LimitsInv
  <2>3. /\ opening'.at = IF Limits!Invalidated THEN "invalid" ELSE "out"
        /\ opening' = [at |-> opening'.at, target |-> opening'.target, mode |-> opening'.mode,
                       asOf |-> opening'.asOf, asked |-> opening'.asked,
                       against |-> opening'.against]
    BY <2>2
  <2>4. LimitsInv'
    BY <2>1, <2>3 DEF LimitsInv, RowsLetPass
  <2>5. LimitsChange
    BY <2>1, <2>3, GuardHonours DEF LimitsChange
  <2> QED BY <2>4, <2>5
<1>6. CASE Limits!Finish
  BY <1>6 DEF Limits!Finish, LimitsInv, LimitsChange, RowsLetPass, Limits!NoOpening
<1>7. CASE Limits!Tick
  BY <1>7, LimitsUntouched DEF Limits!Tick, LimitsInv
<1>8. CASE Limits!TakeOver
  BY <1>8, LimitsUntouched DEF Limits!TakeOver, LimitsInv
<1> QED BY <1>1, <1>2, <1>3, <1>4, <1>5, <1>6, <1>7, <1>8 DEF Limits!Next

\* A finite set that R orders strictly has an element with nothing above it.
LEMMA FiniteHasMaximal ==
  ASSUME NEW T, IsFiniteSet(T), T # {}, NEW R,
         \A x \in T : <<x, x>> \notin R,
         \A x, y, z \in T : <<x, y>> \in R /\ <<y, z>> \in R => <<x, z>> \in R
  PROVE  \E x \in T : \A y \in T : <<x, y>> \notin R
<1> DEFINE Above(x) == {y \in T : <<x, y>> \in R}
<1> DEFINE U == {Above(x) : x \in T}
<1>1. U \subseteq FiniteSubsetsOf(T) /\ U # {}
  <2>1. \A x \in T : IsFiniteSet(Above(x))
    BY FS_Subset
  <2>2. \A x \in T : Above(x) \in FiniteSubsetsOf(T)
    BY <2>1 DEF FiniteSubsetsOf
  <2>3. U \subseteq FiniteSubsetsOf(T)
    BY <2>2
  <2>4. U # {}
    <3>1. PICK x : x \in T
      OBVIOUS
    <3>2. Above(x) \in U
      BY <3>1
    <3> QED BY <3>2
  <2> QED BY <2>3, <2>4
<1>2. IsWellFoundedOn(StrictSubsetOrdering(T), FiniteSubsetsOf(T))
  BY FS_StrictSubsetOrderingWellFounded
<1>3. PICK A \in U : \A B \in U : <<B, A>> \notin StrictSubsetOrdering(T)
  BY <1>1, <1>2, WFMin
<1>4. PICK x \in T : A = Above(x)
  OBVIOUS
<1>5. ASSUME NEW y \in T, <<x, y>> \in R PROVE FALSE
  <2>1. Above(y) \subseteq Above(x) /\ Above(y) # Above(x)
    BY <1>5
  <2>2. Above(y) \in U
    OBVIOUS
  <2>3. <<Above(y), Above(x)>> \in StrictSubsetOrdering(T)
    BY <2>1 DEF StrictSubsetOrdering
  <2> QED BY <1>3, <1>4, <2>2, <2>3
<1> QED BY <1>5

\* The page's focus is the latest start as text, ties by id.
LEMMA CurrentFocusIsLatest ==
  ASSUME LimitsInv, Limits!Written # {}
  PROVE  /\ Limits!CurrentFocus \in Limits!Written
         /\ \A j \in Limits!Written :
              \/ foci[j].from.text < foci[Limits!CurrentFocus].from.text
              \/ /\ foci[j].from.text = foci[Limits!CurrentFocus].from.text
                 /\ j <= Limits!CurrentFocus
<1> DEFINE W == Limits!Written
           Text(i) == foci[i].from.text
           R == {p \in W \X W : \/ Text(p[1]) < Text(p[2])
                                \/ Text(p[1]) = Text(p[2]) /\ p[1] < p[2]}
<1>1. \A i \in W : i \in Nat /\ foci[i] \in FocusShape /\ Text(i) \in Nat
  BY FocusesAssumption, StampsAssumption DEF LimitsInv, Limits!Written, FocusShape
<1>2. IsFiniteSet(W)
  BY FocusesAssumption, FS_Subset DEF Limits!Written
<1> HIDE DEF W, Text
<1>3. \A i, j \in W : <<i, j>> \in R <=> (Text(i) < Text(j) \/ (Text(i) = Text(j) /\ i < j))
  OBVIOUS
<1> HIDE DEF R
<1>4. \A i \in W : <<i, i>> \notin R
  BY <1>1, <1>3
<1>5. \A i, j, k \in W : <<i, j>> \in R /\ <<j, k>> \in R => <<i, k>> \in R
  BY <1>1, <1>3
<1>6. W # {}
  BY DEF W
<1>7. PICK i \in W : \A j \in W : <<i, j>> \notin R
  BY <1>2, <1>4, <1>5, <1>6, FiniteHasMaximal
<1>8. ASSUME NEW j \in W PROVE Text(j) < Text(i) \/ (Text(j) = Text(i) /\ j <= i)
  <2>1. ~(Text(i) < Text(j)) /\ ~(Text(i) = Text(j) /\ i < j)
    BY <1>3, <1>7
  <2>2. i \in Nat /\ j \in Nat /\ Text(i) \in Nat /\ Text(j) \in Nat
    BY <1>1
  <2> QED BY <2>1, <2>2
<1>9. Limits!CurrentFocus =
        CHOOSE k \in W : \A j \in W : Text(j) < Text(k) \/ (Text(j) = Text(k) /\ j <= k)
  BY DEF Limits!CurrentFocus, W, Text
<1>10. /\ Limits!CurrentFocus \in W
       /\ \A j \in W : \/ Text(j) < Text(Limits!CurrentFocus)
                       \/ Text(j) = Text(Limits!CurrentFocus) /\ j <= Limits!CurrentFocus
  BY <1>8, <1>9
<1> QED BY <1>10 DEF W, Text

LEMMA FocusesAgree == LimitsInv => Limits!FocusReadsAgree
<1> SUFFICES ASSUME LimitsInv, Limits!Written # {},
                    \A i, j \in Limits!Written :
                      foci[i].from.text < foci[j].from.text <=> foci[i].from.time < foci[j].from.time,
                    Limits!InForce(foci[Limits!CurrentFocus], instant)
             PROVE  Limits!EffectiveFocus(instant) = Limits!CurrentFocus
  BY DEF Limits!FocusReadsAgree
<1> DEFINE c == Limits!CurrentFocus
           open == {i \in Limits!Written : Limits!InForce(foci[i], instant)}
<1>1. \A i \in Limits!Written : i \in Nat /\ foci[i].from.time \in Nat /\ foci[i].from.text \in Nat
  BY FocusesAssumption, StampsAssumption DEF LimitsInv, Limits!Written, FocusShape
<1>2. c \in open
  BY CurrentFocusIsLatest
<1>3. \A j \in open : foci[j].from.text < foci[c].from.text
                        \/ (foci[j].from.text = foci[c].from.text /\ j <= c)
  BY CurrentFocusIsLatest
<1> HIDE DEF c
<1>4. \A j \in open : Limits!StartedAfter(c, j)
  BY <1>1, <1>2, <1>3 DEF Limits!StartedAfter
<1>5. \A i \in open : (\A j \in open : Limits!StartedAfter(i, j)) => i = c
  BY <1>1, <1>2, <1>4 DEF Limits!StartedAfter
<1>6. Limits!EffectiveFocus(instant) = CHOOSE i \in open : \A j \in open : Limits!StartedAfter(i, j)
  BY <1>2 DEF Limits!EffectiveFocus
<1> HIDE DEF open
<1>7. Limits!EffectiveFocus(instant) = c
  BY <1>2, <1>4, <1>5, <1>6
<1> QED BY <1>7 DEF c

\* A constraint that stands from the letter to the opening is honoured by the
\* planner or by the guard, and the page and the planner agree on the focus,
\* for any rows, targets and instants (user_config/constraints.py,
\* runtime/pre_delivery_guard.py).
THEOREM ConstraintsHonoured == HostSpec => ConstraintsAreHonoured
<1>1. HostInit => LimitsInv
  BY LimitsStart DEF HostInit
<1>2. [HostNext]_hostVars => Limits!Next \/ UNCHANGED constraintVars
  BY DEF HostNext, hostVars
<1>3. LimitsInv /\ UNCHANGED constraintVars => LimitsInv'
  BY LimitsUntouched DEF constraintVars, LimitsInv
<1>4. LimitsInv /\ [HostNext]_hostVars => LimitsInv'
  BY <1>2, <1>3, LimitsKept
<1>5. LimitsInv /\ [HostNext]_hostVars => [LimitsChange]_Limits!constraintVars
  BY <1>2, LimitsKept DEF constraintVars, Limits!constraintVars
<1>6. LimitsInv => (part = "constraints" => Limits!FocusReadsAgree)
  BY FocusesAgree
<1>7. HostSpec => []LimitsInv
  BY <1>1, <1>4, PTL DEF HostSpec
<1>8. HostSpec => Limits!StandingConstraintsHold
  BY <1>5, <1>7, PTL DEF HostSpec, Limits!StandingConstraintsHold, LimitsChange
<1>9. HostSpec => [](part = "constraints" => Limits!FocusReadsAgree)
  BY <1>6, <1>7, PTL
<1> QED BY <1>8, <1>9 DEF ConstraintsAreHonoured

(***************************************************************************)
(* The founding of cards, worlds and the Bible                             *)
(***************************************************************************)
StartSteps == 1..11
Marks == {"epoch", "package"}

\* A process that has come past a part has found or written it; a start that
\* nobody raced holds the epoch, and what it found missing is still missing.
HostInv ==
  /\ start \in [1..2 -> 0..12] /\ looked \in [1..2 -> BOOLEAN]
  /\ "schema" \in stored => "penpal" \in stored
  /\ \A p \in 1..2, k \in StartSteps :
       k < start[p] /\ Worlds!Parts[k] \notin Marks => Worlds!Parts[k] \in stored
  /\ \A p, q \in 1..2 : p # q /\ start[p] \in StartSteps /\ start[q] \in StartSteps => raced[p]
  /\ \A p \in 1..2 : start[p] \in StartSteps /\ ~raced[p] =>
       /\ start[p] > 2 => reign = p
       /\ looked[p] => Worlds!Parts[start[p]] \notin stored
  /\ \A p \in 1..2 : start[p] \in {2, 5} => ~looked[p]
  /\ ~broken

LEMMA PartsAre ==
  /\ Worlds!Parts[1] = "schema" /\ Worlds!Parts[2] = "epoch" /\ Worlds!Parts[3] = "friend"
  /\ Worlds!Parts[4] = "lore" /\ Worlds!Parts[5] = "package" /\ Worlds!Parts[6] = "world"
  /\ Worlds!Parts[7] = "bible" /\ Worlds!Parts[8] = "actor" /\ Worlds!Parts[9] = "profile"
  /\ Worlds!Parts[10] = "player" /\ Worlds!Parts[11] = "line"
  /\ Worlds!Up = 12
BY DEF Worlds!Parts, Worlds!Up

LEMMA HostStart == Worlds!Init => HostInv
BY DEF Worlds!Init, HostInv, Worlds!Procs, StartSteps

\* A step that leaves the rows of the start alone.
LEMMA HostUntouched ==
  ASSUME HostInv, UNCHANGED <<stored, reign, start, looked, raced, broken>>
  PROVE  HostInv'
BY DEF HostInv

\* What a seed that found its row missing does: it writes the row and what
\* comes with it, or is refused by a row that came in between or by the fence.
Seeds(p, item, with) ==
  /\ start[p] \in StartSteps /\ Worlds!Parts[start[p]] = item /\ looked[p]
  /\ looked' = [looked EXCEPT ![p] = FALSE]
  /\ UNCHANGED <<package, reign, raced>>
  /\ \/ /\ stored' = stored \cup {item} \cup with /\ UNCHANGED broken
        /\ start' = [start EXCEPT ![p] = start[p] + 1]
     \/ /\ item \in stored \/ (item = "friend" /\ reign # p)
        /\ Worlds!Fail(p) /\ UNCHANGED stored

\* Nobody who was not raced is refused.
LEMMA SeedKeepsHost ==
  ASSUME HostInv, NEW p \in 1..2, NEW item, NEW with, Seeds(p, item, with),
         item \notin Marks, item = "schema" => "penpal" \in with,
         \A k \in StartSteps : Worlds!Parts[k] \notin with
  PROVE  HostInv'
<1> USE PartsAre
<1>1. /\ start[p] \in StartSteps /\ Worlds!Parts[start[p]] = item /\ looked[p]
      /\ looked' = [looked EXCEPT ![p] = FALSE]
      /\ UNCHANGED <<reign, raced>>
  BY DEF Seeds
<1>2. CASE /\ item \in stored \/ (item = "friend" /\ reign # p)
           /\ Worlds!Fail(p) /\ UNCHANGED stored
  <2>1. raced[p]
    BY <1>1, <1>2 DEF HostInv, StartSteps
  <2>2. UNCHANGED stored /\ start' = [start EXCEPT ![p] = 0] /\ ~broken'
    BY <1>2, <2>1 DEF Worlds!Fail, HostInv
  <2>3. start' \in [1..2 -> 0..12] /\ looked' \in [1..2 -> BOOLEAN]
    BY <1>1, <2>2 DEF HostInv
  <2>4. start'[p] = 0 /\ \A q \in 1..2 : q # p => start'[q] = start[q] /\ looked'[q] = looked[q]
    BY <1>1, <2>2 DEF HostInv
  <2> QED BY <1>1, <2>2, <2>3, <2>4 DEF HostInv, StartSteps
<1>3. CASE /\ stored' = stored \cup {item} \cup with /\ UNCHANGED broken
           /\ start' = [start EXCEPT ![p] = start[p] + 1]
  <2>1. stored \subseteq stored' /\ item \in stored'
    BY <1>3
  <2>2. start' \in [1..2 -> 0..12] /\ looked' \in [1..2 -> BOOLEAN]
    BY <1>1, <1>3 DEF HostInv, StartSteps
  <2>3. /\ start'[p] = start[p] + 1 /\ looked'[p] = FALSE
        /\ \A q \in 1..2 : q # p => start'[q] = start[q] /\ looked'[q] = looked[q]
    BY <1>1, <1>3 DEF HostInv
  <2>4. \A q \in 1..2, k \in StartSteps :
          k < start'[q] /\ Worlds!Parts[k] \notin Marks => Worlds!Parts[k] \in stored'
    <3>1. \A k \in StartSteps : k < start[p] + 1 => k < start[p] \/ k = start[p]
      BY <1>1 DEF StartSteps
    <3>2. ASSUME NEW k \in StartSteps, k < start'[p], Worlds!Parts[k] \notin Marks
          PROVE  Worlds!Parts[k] \in stored'
      BY <1>1, <2>1, <2>3, <3>1, <3>2 DEF HostInv
    <3>3. ASSUME NEW q \in 1..2, q # p, NEW k \in StartSteps, k < start'[q],
                 Worlds!Parts[k] \notin Marks
          PROVE  Worlds!Parts[k] \in stored'
      BY <2>1, <2>3, <3>3 DEF HostInv
    <3> QED BY <3>2, <3>3
  <2>5. ASSUME NEW q \in 1..2, NEW o \in 1..2, q # o, start'[q] \in StartSteps, start'[o] \in StartSteps
        PROVE  raced'[q]
    <3>1. start[q] \in StartSteps /\ start[o] \in StartSteps
      BY <1>1, <2>3, <2>5
    <3> QED BY <1>1, <2>5, <3>1 DEF HostInv
  <2>6. ASSUME NEW q \in 1..2, start'[q] \in StartSteps, ~raced'[q]
        PROVE  /\ start'[q] > 2 => reign' = q
               /\ looked'[q] => Worlds!Parts[start'[q]] \notin stored'
    <3>1. CASE q = p
      <4>1. start[p] = 2 => FALSE
        BY <1>1 DEF Marks
      <4>2. start[p] = 1 \/ reign = p
        BY <1>1, <2>6, <3>1, <4>1 DEF HostInv, StartSteps
      <4> QED BY <1>1, <2>3, <3>1, <4>2
    <3>2. CASE q # p
      <4>1. raced[q]
        BY <1>1, <2>3, <2>6, <3>2 DEF HostInv
      <4> QED BY <1>1, <2>6, <4>1
    <3> QED BY <3>1, <3>2
  <2>7. "schema" \in stored' => "penpal" \in stored'
    BY <1>3 DEF HostInv, StartSteps
  <2>8. ~broken'
    BY <1>3 DEF HostInv
  <2>9. \A q \in 1..2 : start'[q] \in {2, 5} => ~looked'[q]
    BY <2>3 DEF HostInv
  <2> QED BY <1>1, <2>2, <2>4, <2>5, <2>6, <2>7, <2>8, <2>9 DEF HostInv
<1> QED BY <1>2, <1>3 DEF Seeds

LEMMA HostKept == HostInv /\ Worlds!Next => HostInv'
<1> SUFFICES ASSUME HostInv, Worlds!Next PROVE HostInv'
  OBVIOUS
<1> USE PartsAre
<1>1. ASSUME NEW p \in 1..2, Worlds!Begin(p) PROVE HostInv'
  <2>1. /\ start[p] = 0 /\ start' = [start EXCEPT ![p] = 1]
        /\ looked' = [looked EXCEPT ![p] = FALSE] /\ UNCHANGED <<stored, reign, broken>>
        /\ raced' = [q \in 1..2 |-> IF q = p THEN start[3 - p] \in StartSteps
                                    ELSE raced[q] \/ start[q] \in StartSteps]
    BY <1>1 DEF Worlds!Begin, Worlds!Procs, StartSteps
  <2>10. 3 - p \in 1..2 /\ 3 - p # p
    OBVIOUS
  <2>2. start' \in [1..2 -> 0..12] /\ looked' \in [1..2 -> BOOLEAN]
    BY <2>1 DEF HostInv
  <2>3. /\ start'[p] = 1 /\ looked'[p] = FALSE
        /\ start'[3 - p] = start[3 - p] /\ looked'[3 - p] = looked[3 - p]
    BY <2>1, <2>10 DEF HostInv
  <2>9. ~raced'[p] => start[3 - p] \notin StartSteps
    BY <2>1
  <2>11. ~raced'[3 - p] => ~raced[3 - p] /\ start[3 - p] \notin StartSteps
    BY <2>1, <2>10
  <2>4. \A q \in 1..2 : q = p \/ q = 3 - p
    OBVIOUS
  <2>5. \A q \in 1..2, k \in StartSteps :
          k < start'[q] /\ Worlds!Parts[k] \notin Marks => Worlds!Parts[k] \in stored'
    BY <2>1, <2>3, <2>4 DEF HostInv, StartSteps
  <2>6. ASSUME NEW q \in 1..2, NEW o \in 1..2, q # o, start'[q] \in StartSteps, start'[o] \in StartSteps
        PROVE  raced'[q]
    <3>1. start[3 - p] \in StartSteps
      BY <2>3, <2>4, <2>6
    <3> QED BY <2>4, <2>9, <2>11, <3>1
  <2>7. ASSUME NEW q \in 1..2, start'[q] \in StartSteps, ~raced'[q]
        PROVE  /\ start'[q] > 2 => reign' = q
               /\ looked'[q] => Worlds!Parts[start'[q]] \notin stored'
    BY <2>1, <2>3, <2>4, <2>7, <2>11 DEF HostInv
  <2>8. \A q \in 1..2 : start'[q] \in {2, 5} => ~looked'[q]
    BY <2>3, <2>4 DEF HostInv
  <2> QED BY <2>1, <2>2, <2>5, <2>6, <2>7, <2>8 DEF HostInv
<1>2. ASSUME NEW p \in 1..2, Worlds!Look(p) PROVE HostInv'
  <2>1. /\ start[p] \in StartSteps /\ Worlds!Parts[start[p]] \notin Marks
        /\ UNCHANGED <<stored, reign, raced, broken>>
        /\ \/ /\ Worlds!Parts[start[p]] \in stored /\ UNCHANGED looked
              /\ start' = [start EXCEPT ![p] = start[p] + 1] /\ ~looked[p]
           \/ /\ Worlds!Parts[start[p]] \notin stored /\ UNCHANGED start
              /\ looked' = [looked EXCEPT ![p] = TRUE]
    BY <1>2 DEF Worlds!Look, Worlds!AfterFound, StartSteps, Marks
  <2>2. CASE UNCHANGED start
    <3>1. Worlds!Parts[start[p]] \notin stored /\ looked' = [looked EXCEPT ![p] = TRUE]
      BY <2>1, <2>2 DEF HostInv
    <3>2. looked' \in [1..2 -> BOOLEAN] /\ \A q \in 1..2 : q # p => looked'[q] = looked[q]
      BY <3>1 DEF HostInv
    <3>3. \A q \in 1..2 : start'[q] \in {2, 5} => ~looked'[q]
      BY <2>1, <2>2, <3>2 DEF HostInv, Marks
    <3>4. ASSUME NEW q \in 1..2, start'[q] \in StartSteps, ~raced'[q]
          PROVE  /\ start'[q] > 2 => reign' = q
                 /\ looked'[q] => Worlds!Parts[start'[q]] \notin stored'
      BY <2>1, <2>2, <3>1, <3>2, <3>4 DEF HostInv
    <3> QED BY <2>1, <2>2, <3>1, <3>2, <3>3, <3>4 DEF HostInv
  <2>3. CASE /\ Worlds!Parts[start[p]] \in stored /\ UNCHANGED looked
             /\ start' = [start EXCEPT ![p] = start[p] + 1] /\ ~looked[p]
    <3>1. start' \in [1..2 -> 0..12]
      BY <2>1, <2>3 DEF HostInv, StartSteps
    <3>2. start'[p] = start[p] + 1 /\ \A q \in 1..2 : q # p => start'[q] = start[q]
      BY <2>3 DEF HostInv
    <3>3. \A q \in 1..2, k \in StartSteps :
            k < start'[q] /\ Worlds!Parts[k] \notin Marks => Worlds!Parts[k] \in stored'
      <4>1. \A k \in StartSteps : k < start[p] + 1 => k < start[p] \/ k = start[p]
        BY <2>1 DEF StartSteps
      <4> QED BY <2>1, <2>3, <3>2, <4>1 DEF HostInv
    <3>4. \A q, o \in 1..2 :
            q # o /\ start'[q] \in StartSteps /\ start'[o] \in StartSteps => raced'[q]
      BY <2>1, <3>2 DEF HostInv
    <3>5. ASSUME NEW q \in 1..2, start'[q] \in StartSteps, ~raced'[q]
          PROVE  /\ start'[q] > 2 => reign' = q
                 /\ looked'[q] => Worlds!Parts[start'[q]] \notin stored'
      <4>1. start[p] # 2
        BY <2>1 DEF Marks
      <4> QED BY <2>1, <2>3, <3>2, <3>5, <4>1 DEF HostInv, StartSteps
    <3>6. \A q \in 1..2 : start'[q] \in {2, 5} => ~looked'[q]
      BY <2>3, <3>2 DEF HostInv
    <3> QED BY <2>1, <2>3, <3>1, <3>3, <3>4, <3>5, <3>6 DEF HostInv
  <2> QED BY <2>1, <2>2, <2>3
<1>3. ASSUME NEW p \in 1..2, Worlds!OpenEpoch(p) PROVE HostInv'
  <2>1. /\ start[p] \in StartSteps /\ Worlds!Parts[start[p]] = "epoch" /\ reign' = p
        /\ start' = [start EXCEPT ![p] = start[p] + 1] /\ UNCHANGED <<stored, looked, raced, broken>>
    BY <1>3 DEF Worlds!OpenEpoch, StartSteps, HostInv
  <2>2. start[p] = 2
    BY <2>1 DEF StartSteps
  <2>3. start' \in [1..2 -> 0..12] /\ start'[p] = 3 /\ \A q \in 1..2 : q # p => start'[q] = start[q]
    BY <2>1, <2>2 DEF HostInv
  <2>4. \A q \in 1..2, k \in StartSteps :
          k < start'[q] /\ Worlds!Parts[k] \notin Marks => Worlds!Parts[k] \in stored'
    BY <2>1, <2>2, <2>3 DEF HostInv, StartSteps, Marks
  <2>5. ASSUME NEW q \in 1..2, start'[q] \in StartSteps, ~raced'[q]
        PROVE  /\ start'[q] > 2 => reign' = q
               /\ looked'[q] => Worlds!Parts[start'[q]] \notin stored'
    <3>1. q = p
      BY <2>1, <2>3, <2>5 DEF HostInv
    <3>2. ~looked[p]
      BY <2>1, <2>2 DEF HostInv
    <3> QED BY <2>1, <3>1, <3>2
  <2> QED BY <2>1, <2>2, <2>3, <2>4, <2>5 DEF HostInv, StartSteps
<1>4. ASSUME NEW p \in 1..2, Worlds!LoadPackage(p) PROVE HostInv'
  <2>1. /\ start[p] \in StartSteps /\ Worlds!Parts[start[p]] = "package"
        /\ UNCHANGED <<stored, reign, looked, raced>>
    BY <1>4 DEF Worlds!LoadPackage, StartSteps
  <2>2. start[p] = 5
    BY <2>1 DEF StartSteps
  <2>3. {"penpal", "friend"} \subseteq stored
    BY <2>2 DEF HostInv, StartSteps, Marks
  <2>4. /\ start' = [start EXCEPT ![p] = IF Worlds!WellFormed(package) THEN 6 ELSE 0]
        /\ ~broken'
    BY <1>4, <2>2, <2>3 DEF Worlds!LoadPackage, Worlds!Fail, HostInv
  <2>5. PICK n \in {0, 6} : start' = [start EXCEPT ![p] = n]
    BY <2>4
  <2>6. start' \in [1..2 -> 0..12] /\ start'[p] = n /\ \A q \in 1..2 : q # p => start'[q] = start[q]
    BY <2>5 DEF HostInv
  <2>7. \A q \in 1..2, k \in StartSteps :
          k < start'[q] /\ Worlds!Parts[k] \notin Marks => Worlds!Parts[k] \in stored'
    <3>1. \A k \in StartSteps : k < n => k < 5 \/ k = 5
      BY <2>5 DEF StartSteps
    <3> QED BY <2>1, <2>2, <2>6, <3>1 DEF HostInv, Marks
  <2>8. ~looked[p]
    BY <2>2 DEF HostInv
  <2>9. ASSUME NEW q \in 1..2, start'[q] \in StartSteps, ~raced'[q]
        PROVE  /\ start'[q] > 2 => reign' = q
               /\ looked'[q] => Worlds!Parts[start'[q]] \notin stored'
    BY <2>1, <2>2, <2>6, <2>8, <2>9 DEF HostInv
  <2> QED BY <2>1, <2>2, <2>4, <2>6, <2>7, <2>8, <2>9 DEF HostInv
<1>5. ASSUME NEW p \in 1..2, Worlds!Die(p) PROVE HostInv'
  <2>1. /\ start' = [start EXCEPT ![p] = 0] /\ looked' = [looked EXCEPT ![p] = FALSE]
        /\ UNCHANGED <<stored, reign, raced, broken>>
    BY <1>5 DEF Worlds!Die
  <2>2. start' \in [1..2 -> 0..12] /\ looked' \in [1..2 -> BOOLEAN]
    BY <2>1 DEF HostInv
  <2>3. start'[p] = 0 /\ \A q \in 1..2 : q # p => start'[q] = start[q] /\ looked'[q] = looked[q]
    BY <2>1 DEF HostInv
  <2> QED BY <2>1, <2>2, <2>3 DEF HostInv, StartSteps
<1>6. ASSUME NEW p \in 1..2,
             Worlds!Migrate(p) \/ Worlds!SeedCard(p) \/ Worlds!SeedLore(p) \/ Worlds!CreateWorldRow(p)
               \/ Worlds!SeedBible(p) \/ Worlds!BindActor(p) \/ Worlds!SeedActorProfile(p)
               \/ Worlds!SeedPlayerCharacter(p) \/ Worlds!CreateStoryline(p)
      PROVE  HostInv'
  <2>1. \A k \in StartSteps : Worlds!Parts[k] \notin {"penpal"}
    BY DEF StartSteps
  <2>2. CASE Worlds!Migrate(p)
    <3>1. Seeds(p, "schema", {"penpal"})
      BY <2>2 DEF Worlds!Migrate, Worlds!Insert, Worlds!Taken, Seeds, StartSteps, HostInv
    <3> QED BY <2>1, <3>1, SeedKeepsHost DEF Marks
  <2>3. CASE Worlds!SeedCard(p)
    <3>1. Seeds(p, "friend", {})
      BY <2>3 DEF Worlds!SeedCard, Worlds!Insert, Worlds!Taken, Seeds, StartSteps, HostInv
    <3> QED BY <3>1, SeedKeepsHost DEF Marks
  <2>4. CASE Worlds!SeedLore(p)
    <3>1. Seeds(p, "lore", {})
      BY <2>4 DEF Worlds!SeedLore, Worlds!Insert, Worlds!Taken, Seeds, StartSteps, HostInv
    <3> QED BY <3>1, SeedKeepsHost DEF Marks
  <2>5. CASE Worlds!CreateWorldRow(p)
    <3>1. Seeds(p, "world", {})
      BY <2>5 DEF Worlds!CreateWorldRow, Worlds!Insert, Worlds!Taken, Seeds, StartSteps, HostInv
    <3> QED BY <3>1, SeedKeepsHost DEF Marks
  <2>6. CASE Worlds!SeedBible(p)
    <3>1. Seeds(p, "bible", {})
      BY <2>6 DEF Worlds!SeedBible, Worlds!Insert, Worlds!Taken, Seeds, StartSteps, HostInv
    <3> QED BY <3>1, SeedKeepsHost DEF Marks
  <2>7. CASE Worlds!BindActor(p)
    <3>1. Seeds(p, "actor", {})
      BY <2>7 DEF Worlds!BindActor, Worlds!Insert, Worlds!Taken, Seeds, StartSteps, HostInv
    <3> QED BY <3>1, SeedKeepsHost DEF Marks
  <2>8. CASE Worlds!SeedActorProfile(p)
    <3>1. Seeds(p, "profile", {})
      BY <2>8 DEF Worlds!SeedActorProfile, Worlds!Insert, Worlds!Taken, Seeds, StartSteps, HostInv
    <3> QED BY <3>1, SeedKeepsHost DEF Marks
  <2>9. CASE Worlds!SeedPlayerCharacter(p)
    <3>1. Seeds(p, "player", {})
      BY <2>9 DEF Worlds!SeedPlayerCharacter, Worlds!Insert, Worlds!Taken, Seeds, StartSteps, HostInv
    <3> QED BY <3>1, SeedKeepsHost DEF Marks
  <2>10. CASE Worlds!CreateStoryline(p)
    <3>1. Seeds(p, "line", {})
      BY <2>10 DEF Worlds!CreateStoryline, Worlds!Insert, Worlds!Taken, Seeds, StartSteps, HostInv
    <3> QED BY <3>1, SeedKeepsHost DEF Marks
  <2> QED BY <1>6, <2>2, <2>3, <2>4, <2>5, <2>6, <2>7, <2>8, <2>9, <2>10
<1>7. ASSUME NEW p \in 1..2, NEW c \in Worlds!Cards, Worlds!CreateCard(p) \/ Worlds!DeleteCard(p, c)
      PROVE  HostInv'
  <2>1. /\ UNCHANGED <<reign, start, looked, raced, broken>>
        /\ \A x : x # "mine" => (x \in stored' <=> x \in stored)
    BY <1>7 DEF Worlds!CreateCard, Worlds!DeleteCard, Worlds!Deletable
  <2>2. \A k \in StartSteps : Worlds!Parts[k] # "mine"
    BY DEF StartSteps
  <2> QED BY <2>1, <2>2 DEF HostInv
<1>8. CASE UNCHANGED Worlds!hostVars
  BY <1>8, HostUntouched DEF Worlds!hostVars
<1>9. "mine" \in Worlds!Cards
  BY DEF Worlds!Cards
<1>10. ASSUME NEW p \in 1..2
       PROVE  Worlds!StartStory(p) \/ Worlds!CreateWorld(p) \/ Worlds!SetLanguage(p)
                \/ Worlds!PlanChapter(p) \/ Worlds!Revise(p) \/ Worlds!NextChapter(p)
                \/ Worlds!ApplyWaiting(p) \/ Worlds!StrikeWaiting(p)
                \/ (\E f \in Fields, v \in Texts : Worlds!EditLater(p, f, v) \/ Worlds!EditNow(p, f, v))
              => UNCHANGED Worlds!hostVars
  BY DEF Worlds!StartStory, Worlds!CreateWorld, Worlds!SetLanguage, Worlds!PlanChapter,
         Worlds!Revise, Worlds!NextChapter, Worlds!ApplyWaiting, Worlds!StrikeWaiting,
         Worlds!EditLater, Worlds!EditNow
<1>11. Worlds!CloseChapter => UNCHANGED Worlds!hostVars
  BY DEF Worlds!CloseChapter
<1> QED
  BY <1>1, <1>2, <1>3, <1>4, <1>5, <1>6, <1>7, <1>8, <1>9, <1>10, <1>11
     DEF Worlds!Next, Worlds!Procs

EditForms == [field : Fields, value : Texts]

\* A request that has seen the newest revision carries that revision with its
\* edits laid over it; while its process holds the epoch, nobody else has put
\* an edit on the list.
LegSound(p) ==
  /\ founding[p].at \in {"revise", "apply"} =>
       /\ founding[p].seen \in Nat /\ founding[p].seen <= bible.rev
       /\ founding[p].text = [f \in Fields |-> founding[p].text[f]]
       /\ founding[p].edits \in Seq(EditForms)
       /\ founding[p].seen = bible.rev /\ ~torn =>
            founding[p].text = Worlds!Overlay(bible.text, founding[p].edits)
  /\ founding[p].at = "apply" /\ founding[p].seen = bible.rev /\ reign = p =>
       due = founding[p].edits
  /\ founding[p].at = "strike" /\ reign = p => due = <<>>
  /\ founding[p].at # "idle" => start[p] = 12

\* The list of waiting edits is the list of those that are due, except between
\* applying and striking them.
ListIsDue == ~torn /\ (\A p \in 1..2 : founding[p].at # "strike") => waiting = due

BibleInv ==
  /\ bible = [rev |-> bible.rev, text |-> bible.text]
  /\ bible.rev \in Nat /\ bible.text = [f \in Fields |-> bible.text[f]]
  /\ founding = [p \in 1..2 |-> founding[p]]
  /\ due \in Seq(EditForms) /\ waiting \in Seq(EditForms)
  /\ ~torn => bible.text = wish
  /\ \A p \in 1..2 : LegSound(p)
  /\ ListIsDue

LEMMA BibleStart == Worlds!Init => BibleInv
<1> SUFFICES ASSUME Worlds!Init PROVE BibleInv
  OBVIOUS
<1>1. \A p \in 1..2 : founding[p].at = "idle"
  BY DEF Worlds!Init, Worlds!Procs, Worlds!IdleLeg
<1>2. bible.rev = 0 /\ bible.text = [f \in Fields |-> Original] /\ wish = [f \in Fields |-> Original]
        /\ due = <<>> /\ waiting = <<>> /\ bible = [rev |-> bible.rev, text |-> bible.text]
  BY DEF Worlds!Init
<1>3. founding = [p \in 1..2 |-> founding[p]]
  BY DEF Worlds!Init, Worlds!Procs
<1> QED BY <1>1, <1>2, <1>3 DEF BibleInv, LegSound, ListIsDue

LEMMA OverlayIsText ==
  ASSUME NEW text, NEW list
  PROVE  Worlds!Overlay(text, list) = [f \in Fields |-> Worlds!Overlay(text, list)[f]]
BY DEF Worlds!Overlay

\* One edit laid over a text changes its field.
LEMMA OverlayOfOne ==
  ASSUME NEW text, text = [g \in Fields |-> text[g]], NEW f \in Fields, NEW v
  PROVE  Worlds!Overlay(text, <<[field |-> f, value |-> v]>>) = [text EXCEPT ![f] = v]
<1> DEFINE list == <<[field |-> f, value |-> v]>>
           hits(g) == {i \in DOMAIN list : list[i].field = g}
<1>1. DOMAIN list = {1} /\ list[1].field = f /\ list[1].value = v
  OBVIOUS
<1>2. hits(f) = {1} /\ \A g \in Fields \ {f} : hits(g) = {}
  BY <1>1
<1>3. (CHOOSE i \in hits(f) : \A j \in hits(f) : j <= i) = 1
  BY <1>2
<1>4. Worlds!Overlay(text, list) =
        [g \in Fields |-> IF hits(g) = {} THEN text[g]
                          ELSE list[CHOOSE i \in hits(g) : \A j \in hits(g) : j <= i].value]
  BY DEF Worlds!Overlay
<1> HIDE DEF hits
<1>5. \A g \in Fields : Worlds!Overlay(text, list)[g] = IF g = f THEN v ELSE text[g]
  BY <1>1, <1>2, <1>3, <1>4
<1>6. [text EXCEPT ![f] = v] = [g \in Fields |-> IF g = f THEN v ELSE text[g]]
  OBVIOUS
<1> QED BY <1>4, <1>5, <1>6

\* What has been read is still so when neither the Bible nor the list, the
\* epoch or the leg has moved.
LEMMA LegUntouched ==
  ASSUME NEW p \in 1..2, LegSound(p), UNCHANGED <<bible, torn, due, reign, founding[p], start[p]>>
  PROVE  LegSound(p)'
BY DEF LegSound, Worlds!Overlay

\* A request that is at another leg than the ones that carry edits.
LEMMA LegWithoutEdits ==
  ASSUME NEW p \in 1..2, founding'[p].at \in {"idle", "found", "word", "plan"},
         founding'[p].at # "idle" => start'[p] = 12
  PROVE  LegSound(p)'
BY DEF LegSound

LEMMA MoveKeepsBible ==
  ASSUME BibleInv, NEW p \in 1..2, NEW where \in {"idle", "found", "word", "plan"},
         Worlds!At(p, where), founding[p].at # "strike", start[p] = 12,
         UNCHANGED <<bible, waiting, wish, due, torn, reign, start>>
  PROVE  BibleInv'
<1>1. founding' = [founding EXCEPT ![p] = [Worlds!IdleLeg EXCEPT !.at = where]]
  BY DEF Worlds!At
<1>2. founding = [q \in 1..2 |-> founding[q]]
  BY DEF BibleInv
<1>3. founding' = [q \in 1..2 |-> founding'[q]]
  BY <1>1, <1>2
<1>4. founding'[p].at = where
  BY <1>1, <1>2 DEF Worlds!IdleLeg
<1>5. \A q \in 1..2 : q # p => founding'[q] = founding[q]
  BY <1>1, <1>2
<1>6. LegSound(p)'
  BY <1>4, LegWithoutEdits
<1>7. ASSUME NEW q \in 1..2, q # p PROVE LegSound(q)'
  BY <1>5, <1>7, LegUntouched DEF BibleInv
<1>8. ListIsDue'
  BY <1>4, <1>5 DEF BibleInv, ListIsDue
<1> QED BY <1>3, <1>6, <1>7, <1>8 DEF BibleInv

\* A step of the host part: the process that starts has no request.
LEMMA HostStepKeepsBible ==
  ASSUME BibleInv, NEW p \in 1..2, founding[p].at = "idle", UNCHANGED Worlds!storyVars,
         \A q \in 1..2 : q # p => start'[q] = start[q], reign' \in {reign, p}
  PROVE  BibleInv'
<1>1. UNCHANGED <<bible, waiting, founding, wish, due, torn>>
  BY DEF Worlds!storyVars
<1>2. LegSound(p)'
  BY <1>1, LegWithoutEdits
<1>3. ASSUME NEW q \in 1..2, q # p PROVE LegSound(q)'
  <2>1. CASE reign' = reign
    BY <1>1, <1>3, <2>1, LegUntouched DEF BibleInv
  <2>2. CASE reign' = p
    <3>1. LegSound(q)
      BY DEF BibleInv
    <3>2. reign' # q /\ start'[q] = start[q]
      BY <1>3, <2>2
    <3> QED BY <1>1, <3>1, <3>2 DEF LegSound, Worlds!Overlay
  <2> QED BY <2>1, <2>2
<1>4. ListIsDue'
  BY <1>1 DEF BibleInv, ListIsDue
<1> QED BY <1>1, <1>2, <1>3, <1>4 DEF BibleInv

\* A revision that lands: every other request has seen an older one.
LEMMA LandedKeepsLegs ==
  ASSUME BibleInv, NEW p \in 1..2, NEW q \in 1..2, q # p, Worlds!Landed(p),
         UNCHANGED <<torn, reign, founding[q], start[q]>>,
         founding[q].at = "strike" /\ reign = q => due' = <<>>
  PROVE  LegSound(q)'
<1>1. bible' = [rev |-> bible.rev + 1, text |-> founding[p].text]
  BY DEF Worlds!Landed
<1>2. bible'.rev = bible.rev + 1 /\ bible.rev \in Nat
  BY <1>1 DEF BibleInv
<1>3. LegSound(q)
  BY DEF BibleInv
<1>4. founding[q].at \in {"revise", "apply"} =>
        founding[q].seen \in Nat /\ founding[q].seen <= bible.rev /\ founding[q].seen # bible'.rev
          /\ founding[q].seen <= bible'.rev
  BY <1>2, <1>3 DEF LegSound
<1> QED BY <1>3, <1>4 DEF LegSound, Worlds!Overlay

LEMMA LandedIsDirected ==
  ASSUME BibleInv, NEW p \in 1..2, Worlds!Landed(p), founding[p].at \in {"revise", "apply"},
         founding[p].seen = bible.rev, UNCHANGED torn
  PROVE  /\ bible' = [rev |-> bible'.rev, text |-> bible'.text]
         /\ bible'.rev \in Nat /\ bible'.text = [f \in Fields |-> bible'.text[f]]
         /\ ~torn' => bible'.text = wish'
<1>1. /\ bible' = [rev |-> bible.rev + 1, text |-> founding[p].text]
      /\ wish' = Worlds!Overlay(wish, founding[p].edits)
  BY DEF Worlds!Landed
<1>2. bible'.rev = bible.rev + 1 /\ bible'.text = founding[p].text
  BY <1>1
<1>3. LegSound(p) /\ bible.rev \in Nat
  BY DEF BibleInv
<1>4. founding[p].text = [f \in Fields |-> founding[p].text[f]]
  BY <1>3 DEF LegSound
<1>5. ~torn => founding[p].text = Worlds!Overlay(bible.text, founding[p].edits)
  BY <1>3 DEF LegSound
<1>6. ~torn => bible.text = wish
  BY DEF BibleInv
<1>7. ~torn' => bible'.text = wish'
  BY <1>1, <1>2, <1>5, <1>6
<1>8. bible'.rev \in Nat
  BY <1>2, <1>3
<1>9. bible'.text = [f \in Fields |-> bible'.text[f]]
  BY <1>2, <1>4
<1>10. bible' = [rev |-> bible'.rev, text |-> bible'.text]
  BY <1>1, <1>2
<1> QED BY <1>7, <1>8, <1>9, <1>10

LEMMA ReviseKeepsBible ==
  ASSUME BibleInv, NEW p \in 1..2, Worlds!Revise(p) PROVE BibleInv'
<1>1. /\ founding[p].at = "revise" /\ Worlds!At(p, "idle")
      /\ UNCHANGED <<reign, start, waiting, due, torn>>
  BY DEF Worlds!Revise, Worlds!hostVars
<1>2. start[p] = 12
  BY <1>1 DEF BibleInv, LegSound
<1>3. CASE founding[p].seen # bible.rev
  <2>1. UNCHANGED <<bible, wish>>
    BY <1>3 DEF Worlds!Revise, Worlds!Unmoved
  <2> QED BY <1>1, <1>2, <2>1, MoveKeepsBible
<1>4. CASE founding[p].seen = bible.rev
  <2>1. Worlds!Landed(p)
    BY <1>4 DEF Worlds!Revise, Worlds!Unmoved
  <2>2. founding' = [founding EXCEPT ![p] = [Worlds!IdleLeg EXCEPT !.at = "idle"]]
    BY <1>1 DEF Worlds!At
  <2>3. founding = [q \in 1..2 |-> founding[q]]
    BY DEF BibleInv
  <2>4. founding' = [q \in 1..2 |-> founding'[q]]
    BY <2>2, <2>3
  <2>5. founding'[p].at = "idle"
    BY <2>2, <2>3 DEF Worlds!IdleLeg
  <2>6. \A q \in 1..2 : q # p => founding'[q] = founding[q]
    BY <2>2, <2>3
  <2>7. LegSound(p)'
    BY <2>5, LegWithoutEdits
  <2>8. ASSUME NEW q \in 1..2, q # p PROVE LegSound(q)'
    <3>1. founding[q].at = "strike" /\ reign = q => due' = <<>>
      BY <1>1 DEF BibleInv, LegSound
    <3> QED BY <1>1, <2>1, <2>6, <2>8, <3>1, LandedKeepsLegs
  <2>9. ListIsDue'
    BY <1>1, <2>5, <2>6 DEF BibleInv, ListIsDue
  <2>10. /\ bible' = [rev |-> bible'.rev, text |-> bible'.text]
         /\ bible'.rev \in Nat /\ bible'.text = [f \in Fields |-> bible'.text[f]]
         /\ ~torn' => bible'.text = wish'
    BY <1>1, <1>4, <2>1, LandedIsDirected
  <2>11. due' \in Seq(EditForms) /\ waiting' \in Seq(EditForms)
    BY <1>1 DEF BibleInv
  <2> QED BY <2>4, <2>7, <2>8, <2>9, <2>10, <2>11 DEF BibleInv
<1> QED BY <1>3, <1>4

LEMMA ApplyKeepsBible ==
  ASSUME BibleInv, NEW p \in 1..2, Worlds!ApplyWaiting(p) PROVE BibleInv'
<1>1. founding[p].at = "apply" /\ UNCHANGED <<reign, start, waiting, torn>>
  BY DEF Worlds!ApplyWaiting, Worlds!hostVars
<1>2. LegSound(p) /\ start[p] = 12
  BY <1>1 DEF BibleInv, LegSound
<1>3. CASE founding[p].seen # bible.rev
  <2>1. Worlds!At(p, "idle") /\ UNCHANGED <<bible, wish, due>>
    BY <1>3 DEF Worlds!ApplyWaiting, Worlds!Unmoved
  <2> QED BY <1>1, <1>2, <2>1, MoveKeepsBible
<1>4. CASE founding[p].seen = bible.rev
  <2>1. /\ Worlds!Landed(p) /\ Worlds!At(p, "strike")
        /\ due' = SubSeq(due, Len(founding[p].edits) + 1, Len(due))
    BY <1>4 DEF Worlds!ApplyWaiting, Worlds!Unmoved
  <2>2. founding' = [founding EXCEPT ![p] = [Worlds!IdleLeg EXCEPT !.at = "strike"]]
    BY <2>1 DEF Worlds!At
  <2>3. founding = [q \in 1..2 |-> founding[q]]
    BY DEF BibleInv
  <2>4. founding' = [q \in 1..2 |-> founding'[q]]
    BY <2>2, <2>3
  <2>5. founding'[p].at = "strike"
    BY <2>2, <2>3 DEF Worlds!IdleLeg
  <2>6. \A q \in 1..2 : q # p => founding'[q] = founding[q]
    BY <2>2, <2>3
  <2>7. due \in Seq(EditForms) /\ founding[p].edits \in Seq(EditForms)
    BY <1>1, <1>2 DEF BibleInv, LegSound
  <2>8. due' \in Seq(EditForms)
    BY <2>1, <2>7
  <2>9. reign = p => due' = <<>>
    <3>1. reign = p => due = founding[p].edits
      BY <1>1, <1>2, <1>4 DEF LegSound
    <3>2. SubSeq(due, Len(due) + 1, Len(due)) = <<>>
      BY <2>7
    <3> QED BY <2>1, <3>1, <3>2
  <2>10. due = <<>> => due' = <<>>
    BY <2>1, <2>7
  <2>11. LegSound(p)'
    BY <1>1, <1>2, <2>5, <2>9 DEF LegSound
  <2>12. ASSUME NEW q \in 1..2, q # p PROVE LegSound(q)'
    <3>1. founding[q].at = "strike" /\ reign = q => due' = <<>>
      BY <2>10 DEF BibleInv, LegSound
    <3> QED BY <1>1, <2>1, <2>6, <2>12, <3>1, LandedKeepsLegs
  <2>13. ListIsDue'
    BY <2>5 DEF ListIsDue
  <2>14. /\ bible' = [rev |-> bible'.rev, text |-> bible'.text]
         /\ bible'.rev \in Nat /\ bible'.text = [f \in Fields |-> bible'.text[f]]
         /\ ~torn' => bible'.text = wish'
    BY <1>1, <1>4, <2>1, LandedIsDirected
  <2>15. waiting' \in Seq(EditForms)
    BY <1>1 DEF BibleInv
  <2> QED BY <2>4, <2>8, <2>11, <2>12, <2>13, <2>14, <2>15 DEF BibleInv
<1> QED BY <1>3, <1>4

LEMMA StrikeKeepsBible ==
  ASSUME BibleInv, NEW p \in 1..2, Worlds!StrikeWaiting(p) PROVE BibleInv'
<1>1. /\ founding[p].at = "strike" /\ Worlds!At(p, "plan")
      /\ waiting' = IF reign = p THEN <<>> ELSE waiting
      /\ torn' = (torn \/ reign # p)
      /\ UNCHANGED <<reign, start, bible, wish, due>>
  BY DEF Worlds!StrikeWaiting, Worlds!hostVars, Worlds!Struck
<1>2. founding' = [founding EXCEPT ![p] = [Worlds!IdleLeg EXCEPT !.at = "plan"]]
  BY <1>1 DEF Worlds!At
<1>3. founding = [q \in 1..2 |-> founding[q]]
  BY DEF BibleInv
<1>4. founding' = [q \in 1..2 |-> founding'[q]]
  BY <1>2, <1>3
<1>5. founding'[p].at = "plan"
  BY <1>2, <1>3 DEF Worlds!IdleLeg
<1>6. \A q \in 1..2 : q # p => founding'[q] = founding[q]
  BY <1>2, <1>3
<1>7. LegSound(p)'
  BY <1>1, <1>5, LegWithoutEdits DEF BibleInv, LegSound
<1>8. ASSUME NEW q \in 1..2, q # p PROVE LegSound(q)'
  <2>1. LegSound(q) /\ founding'[q] = founding[q] /\ (~torn' => ~torn)
    BY <1>1, <1>6, <1>8 DEF BibleInv
  <2> QED BY <1>1, <2>1 DEF LegSound, Worlds!Overlay
<1>9. ListIsDue'
  BY <1>1 DEF BibleInv, LegSound, ListIsDue
<1>10. waiting' \in Seq(EditForms) /\ due' \in Seq(EditForms)
  BY <1>1 DEF BibleInv
<1>11. ~torn' => bible'.text = wish'
  BY <1>1 DEF BibleInv
<1> QED BY <1>1, <1>4, <1>7, <1>8, <1>9, <1>10, <1>11 DEF BibleInv

LEMMA NextChapterKeepsBible ==
  ASSUME BibleInv, NEW p \in 1..2, Worlds!NextChapter(p) PROVE BibleInv'
<1>1. /\ start[p] = 12 /\ founding[p].at = "idle"
      /\ torn' = (torn \/ \E q \in 1..2 : founding[q].at = "strike")
      /\ UNCHANGED <<reign, start, bible, waiting, wish, due>>
  BY PartsAre DEF Worlds!NextChapter, Worlds!Serving, Worlds!hostVars, Worlds!Procs
<1>2. PICK l : /\ founding' = [founding EXCEPT ![p] = l]
               /\ \/ l = [Worlds!IdleLeg EXCEPT !.at = "plan"]
                  \/ l = [at |-> "apply", seen |-> bible.rev, edits |-> due,
                          text |-> Worlds!Overlay(bible.text, waiting)]
  BY DEF Worlds!NextChapter, Worlds!At
<1>3. founding = [q \in 1..2 |-> founding[q]]
  BY DEF BibleInv
<1>4. founding' = [q \in 1..2 |-> founding'[q]]
  BY <1>2, <1>3
<1>5. founding'[p] = l /\ \A q \in 1..2 : q # p => founding'[q] = founding[q]
  BY <1>2, <1>3
<1>6. l.at \in {"plan", "apply"}
  BY <1>2 DEF Worlds!IdleLeg
<1>7. ASSUME NEW q \in 1..2, q # p PROVE LegSound(q)'
  <2>1. LegSound(q) /\ founding'[q] = founding[q] /\ (~torn' => ~torn)
    BY <1>1, <1>5, <1>7 DEF BibleInv
  <2> QED BY SMTT(20), <1>1, <2>1 DEF LegSound
<1>8. ListIsDue'
  <2>1. ~torn' => ~torn /\ \A q \in 1..2 : founding[q].at # "strike"
    BY <1>1
  <2> QED BY <1>1, <2>1 DEF BibleInv, ListIsDue
<1>9. LegSound(p)'
  <2>1. CASE l = [Worlds!IdleLeg EXCEPT !.at = "plan"]
    BY <1>1, <1>5, <2>1, LegWithoutEdits DEF Worlds!IdleLeg
  <2>2. CASE l = [at |-> "apply", seen |-> bible.rev, edits |-> due,
                  text |-> Worlds!Overlay(bible.text, waiting)]
    <3>1. /\ founding'[p].at = "apply" /\ founding'[p].seen = bible.rev /\ founding'[p].edits = due
          /\ founding'[p].text = Worlds!Overlay(bible.text, waiting)
      BY <1>5, <2>2
    <3>2. founding'[p].text = [f \in Fields |-> founding'[p].text[f]]
      BY <3>1, OverlayIsText
    <3>3. ~torn' => waiting = due
      BY <1>1 DEF BibleInv, ListIsDue
    <3>4. ~torn' => founding'[p].text = Worlds!Overlay(bible'.text, founding'[p].edits)
      BY <1>1, <3>1, <3>3
    <3>5. bible.rev \in Nat /\ due \in Seq(EditForms)
      BY DEF BibleInv
    <3> QED BY <1>1, <3>1, <3>2, <3>4, <3>5 DEF LegSound
  <2> QED BY <1>2, <2>1, <2>2
<1>10. ~torn' => bible'.text = wish'
  BY <1>1 DEF BibleInv
<1>11. waiting' \in Seq(EditForms) /\ due' \in Seq(EditForms)
  BY <1>1 DEF BibleInv
<1>12. /\ bible' = [rev |-> bible'.rev, text |-> bible'.text]
       /\ bible'.rev \in Nat /\ bible'.text = [f \in Fields |-> bible'.text[f]]
  BY <1>1 DEF BibleInv
<1> QED BY <1>4, <1>7, <1>8, <1>9, <1>10, <1>11, <1>12 DEF BibleInv

LEMMA EditKeepsBible ==
  ASSUME BibleInv, NEW p \in 1..2, NEW f \in Fields, NEW v \in Texts,
         Worlds!EditLater(p, f, v) \/ Worlds!EditNow(p, f, v)
  PROVE  BibleInv'
<1>1. CASE Worlds!EditLater(p, f, v)
  <2> DEFINE e == [field |-> f, value |-> v]
  <2>1. /\ founding[p].at = "idle" /\ UNCHANGED <<reign, start, bible, founding, wish, torn>>
        /\ \/ reign = p /\ waiting' = Append(waiting, e) /\ due' = Append(due, e)
           \/ UNCHANGED <<waiting, due>>
    BY <1>1 DEF Worlds!EditLater, Worlds!Serving, Worlds!hostVars
  <2>2. e \in EditForms
    BY DEF EditForms
  <2> HIDE DEF e
  <2>3. waiting' \in Seq(EditForms) /\ due' \in Seq(EditForms)
    <3>1. waiting \in Seq(EditForms) /\ due \in Seq(EditForms)
      BY DEF BibleInv
    <3>2. Append(waiting, e) \in Seq(EditForms) /\ Append(due, e) \in Seq(EditForms)
      BY <2>2, <3>1
    <3> QED BY <2>1, <3>1, <3>2
  <2>4. ListIsDue'
    <3>1. ListIsDue
      BY DEF BibleInv
    <3> QED BY <2>1, <3>1 DEF ListIsDue
  <2>5. ASSUME NEW q \in 1..2 PROVE LegSound(q)'
    <3>1. LegSound(q)
      BY DEF BibleInv
    <3>2. CASE UNCHANGED <<waiting, due>>
      BY <2>1, <3>1, <3>2, LegUntouched
    <3>3. CASE reign = p
      BY <2>1, <3>1, <3>3 DEF LegSound, Worlds!Overlay
    <3> QED BY <2>1, <3>2, <3>3
  <2> QED BY <2>1, <2>3, <2>4, <2>5 DEF BibleInv
<1>2. CASE Worlds!EditNow(p, f, v)
  <2> DEFINE list == <<[field |-> f, value |-> v]>>
             l == [at |-> "revise", seen |-> bible.rev, edits |-> list,
                   text |-> [bible.text EXCEPT ![f] = v]]
  <2>1. /\ founding[p].at = "idle" /\ start[p] = 12
        /\ UNCHANGED <<reign, start, bible, waiting, wish, due, torn>>
        /\ founding' = [founding EXCEPT ![p] = l]
    BY <1>2, PartsAre DEF Worlds!EditNow, Worlds!Serving, Worlds!hostVars
  <2>2. list \in Seq(EditForms)
    BY DEF EditForms
  <2>3. /\ l.at = "revise" /\ l.seen = bible.rev /\ l.edits = list
        /\ l.text = [bible.text EXCEPT ![f] = v]
    OBVIOUS
  <2>4. l.text = Worlds!Overlay(bible.text, list)
    BY <2>3, OverlayOfOne DEF BibleInv
  <2>5. l.text = [g \in Fields |-> l.text[g]]
    BY <2>4, OverlayIsText
  <2> HIDE DEF l, list
  <2>6. founding = [q \in 1..2 |-> founding[q]] /\ bible.rev \in Nat
    BY DEF BibleInv
  <2>7. founding' = [q \in 1..2 |-> founding'[q]]
    BY <2>1, <2>6
  <2>8. founding'[p] = l /\ \A q \in 1..2 : q # p => founding'[q] = founding[q]
    BY <2>1, <2>6
  <2>9. LegSound(p)'
    <3>1. /\ founding'[p].at = "revise" /\ founding'[p].seen = bible.rev
          /\ founding'[p].edits = list
      BY <2>3, <2>8
    <3>3. founding'[p].text = Worlds!Overlay(bible'.text, founding'[p].edits)
      BY <2>1, <2>4, <2>8, <3>1
    <3>2. founding'[p].text = [g \in Fields |-> founding'[p].text[g]]
      BY <2>5, <2>8
    <3> QED BY <2>1, <2>2, <2>6, <3>1, <3>2, <3>3 DEF LegSound
  <2>10. ASSUME NEW q \in 1..2, q # p PROVE LegSound(q)'
    BY <2>1, <2>8, <2>10, LegUntouched DEF BibleInv
  <2>11. ListIsDue'
    BY <2>1, <2>3, <2>8 DEF BibleInv, ListIsDue
  <2> QED BY <2>1, <2>7, <2>9, <2>10, <2>11 DEF BibleInv
<1> QED BY <1>1, <1>2

LEMMA DieKeepsBible ==
  ASSUME BibleInv, NEW p \in 1..2, Worlds!Die(p), start \in [1..2 -> 0..12] PROVE BibleInv'
<1>1. /\ start' = [start EXCEPT ![p] = 0] /\ founding' = [founding EXCEPT ![p] = Worlds!IdleLeg]
      /\ torn' = (torn \/ founding[p].at = "strike")
      /\ UNCHANGED <<reign, bible, waiting, wish, due>>
  BY DEF Worlds!Die
<1>2. founding = [q \in 1..2 |-> founding[q]]
  BY DEF BibleInv
<1>3. founding' = [q \in 1..2 |-> founding'[q]]
  BY <1>1, <1>2
<1>4. founding'[p].at = "idle" /\ \A q \in 1..2 : q # p => founding'[q] = founding[q]
  BY <1>1, <1>2 DEF Worlds!IdleLeg
<1>5. LegSound(p)'
  BY <1>4, LegWithoutEdits
<1>6. ASSUME NEW q \in 1..2, q # p PROVE LegSound(q)'
  <2>1. LegSound(q) /\ founding'[q] = founding[q] /\ start'[q] = start[q] /\ (~torn' => ~torn)
    BY <1>1, <1>4, <1>6 DEF BibleInv
  <2> QED BY <1>1, <2>1 DEF LegSound
<1>7. ListIsDue'
  BY <1>1, <1>4 DEF BibleInv, ListIsDue
<1>8. /\ bible' = [rev |-> bible'.rev, text |-> bible'.text]
      /\ bible'.rev \in Nat /\ bible'.text = [f \in Fields |-> bible'.text[f]]
      /\ waiting' \in Seq(EditForms) /\ due' \in Seq(EditForms) /\ (~torn' => bible'.text = wish')
  BY <1>1 DEF BibleInv
<1> QED BY <1>3, <1>5, <1>6, <1>7, <1>8 DEF BibleInv

LEMMA CreateWorldKeepsBible ==
  ASSUME BibleInv, NEW p \in 1..2, Worlds!CreateWorld(p) PROVE BibleInv'
<1>1. PICK where \in {"word", "idle"} : Worlds!At(p, where)
  BY DEF Worlds!CreateWorld
<1>2. /\ founding[p].at = "found" /\ UNCHANGED <<reign, start, waiting, wish, due, torn>>
      /\ bible' = [bible EXCEPT !.rev = IF bible.rev = 0 THEN 1 ELSE bible.rev]
  BY DEF Worlds!CreateWorld, Worlds!hostVars, BibleInv
<1>3. start[p] = 12
  BY <1>2 DEF BibleInv, LegSound
<1>4. CASE bible.rev # 0
  <2>1. bible' = bible
    BY <1>2, <1>4 DEF BibleInv
  <2> QED BY <1>1, <1>2, <1>3, <2>1, MoveKeepsBible
<1>5. CASE bible.rev = 0
  <2>1. bible' = [rev |-> 1, text |-> bible.text]
    BY <1>2, <1>5 DEF BibleInv
  <2>2. bible'.rev = 1 /\ bible'.text = bible.text
    BY <2>1
  <2>3. founding' = [founding EXCEPT ![p] = [Worlds!IdleLeg EXCEPT !.at = where]]
    BY <1>1 DEF Worlds!At
  <2>4. founding = [q \in 1..2 |-> founding[q]]
    BY DEF BibleInv
  <2>5. founding' = [q \in 1..2 |-> founding'[q]]
    BY <2>3, <2>4
  <2>6. founding'[p].at = where
    BY <2>3, <2>4 DEF Worlds!IdleLeg
  <2>7. \A q \in 1..2 : q # p => founding'[q] = founding[q]
    BY <2>3, <2>4
  <2>8. LegSound(p)'
    BY <1>2, <1>3, <2>6, LegWithoutEdits
  <2>9. ASSUME NEW q \in 1..2, q # p PROVE LegSound(q)'
    <3>1. LegSound(q) /\ founding'[q] = founding[q]
      BY <2>7, <2>9 DEF BibleInv
    <3>2. founding[q].at \in {"revise", "apply"} =>
            founding[q].seen \in Nat /\ founding[q].seen <= bible'.rev /\ founding[q].seen # bible'.rev
      BY <1>5, <2>2, <3>1 DEF LegSound
    <3> QED BY <1>2, <3>1, <3>2 DEF LegSound, Worlds!Overlay
  <2>10. ListIsDue'
    BY <1>2, <2>6, <2>7 DEF BibleInv, ListIsDue
  <2>11. ~torn' => bible'.text = wish'
    BY <1>2, <2>2 DEF BibleInv
  <2>12. /\ bible' = [rev |-> bible'.rev, text |-> bible'.text]
         /\ bible'.rev \in Nat /\ bible'.text = [f \in Fields |-> bible'.text[f]]
    BY <2>1, <2>2 DEF BibleInv
  <2>13. waiting' \in Seq(EditForms) /\ due' \in Seq(EditForms)
    BY <1>2 DEF BibleInv
  <2> QED BY <2>5, <2>8, <2>9, <2>10, <2>11, <2>12, <2>13 DEF BibleInv
<1> QED BY <1>4, <1>5

LEMMA BibleKept == HostInv /\ BibleInv /\ Worlds!Next => BibleInv'
<1> SUFFICES ASSUME HostInv, BibleInv, Worlds!Next PROVE BibleInv'
  OBVIOUS
<1> USE PartsAre
<1>0. start \in [1..2 -> 0..12] /\ \A p \in 1..2 : start[p] # 12 => founding[p].at = "idle"
  BY DEF HostInv, BibleInv, LegSound
<1>1. ASSUME NEW p \in 1..2,
             Worlds!Begin(p) \/ Worlds!Look(p) \/ Worlds!OpenEpoch(p) \/ Worlds!LoadPackage(p)
      PROVE  BibleInv'
  <2>1. /\ start[p] # 12 /\ reign' \in {reign, p} /\ UNCHANGED Worlds!storyVars
        /\ \A q \in 1..2 : q # p => start'[q] = start[q]
    BY <1>0, <1>1 DEF Worlds!Begin, Worlds!Look, Worlds!OpenEpoch, Worlds!LoadPackage, Worlds!Fail
  <2> QED BY <1>0, <2>1, HostStepKeepsBible
<1>2. ASSUME NEW p \in 1..2, NEW item, NEW with, NEW fails, Worlds!Insert(p, item, with, fails)
      PROVE  BibleInv'
  <2>1. /\ start[p] # 12 /\ reign' \in {reign, p} /\ UNCHANGED Worlds!storyVars
        /\ \A q \in 1..2 : q # p => start'[q] = start[q]
    BY <1>0, <1>2 DEF Worlds!Insert, Worlds!Fail
  <2> QED BY <1>0, <2>1, HostStepKeepsBible
<1>3. ASSUME NEW p \in 1..2,
             Worlds!Migrate(p) \/ Worlds!SeedCard(p) \/ Worlds!SeedLore(p) \/ Worlds!CreateWorldRow(p)
               \/ Worlds!SeedBible(p) \/ Worlds!BindActor(p) \/ Worlds!SeedActorProfile(p)
               \/ Worlds!SeedPlayerCharacter(p) \/ Worlds!CreateStoryline(p)
      PROVE  BibleInv'
  BY <1>2, <1>3
     DEF Worlds!Migrate, Worlds!SeedCard, Worlds!SeedLore, Worlds!CreateWorldRow, Worlds!SeedBible,
         Worlds!BindActor, Worlds!SeedActorProfile, Worlds!SeedPlayerCharacter, Worlds!CreateStoryline
<1>4. ASSUME NEW p \in 1..2, NEW c \in Worlds!Cards, Worlds!CreateCard(p) \/ Worlds!DeleteCard(p, c)
      PROVE  BibleInv'
  <2>1. founding[p].at = "idle" /\ UNCHANGED <<reign, start>> /\ UNCHANGED Worlds!storyVars
    BY <1>4 DEF Worlds!CreateCard, Worlds!DeleteCard, Worlds!Serving
  <2> QED BY <2>1, HostStepKeepsBible
<1>5. ASSUME NEW p \in 1..2, Worlds!StartStory(p) \/ Worlds!SetLanguage(p) \/ Worlds!PlanChapter(p)
      PROVE  BibleInv'
  <2>1. \E where \in {"idle", "found", "word", "plan"} : Worlds!At(p, where)
    BY <1>5 DEF Worlds!StartStory, Worlds!SetLanguage, Worlds!PlanChapter, Worlds!ToPlan
  <2>2. founding[p].at \in {"idle", "word", "plan"} /\ start[p] = 12
    BY <1>5 DEF Worlds!StartStory, Worlds!SetLanguage, Worlds!PlanChapter, Worlds!Serving,
                BibleInv, LegSound
  <2>3. UNCHANGED <<bible, waiting, wish, due, torn, reign, start>>
    BY <1>5 DEF Worlds!StartStory, Worlds!SetLanguage, Worlds!PlanChapter, Worlds!hostVars
  <2> QED BY <2>1, <2>2, <2>3, MoveKeepsBible
<1>6. CASE Worlds!CloseChapter
  <2>1. UNCHANGED <<bible, waiting, wish, due, torn, reign, start, founding>>
    BY <1>6 DEF Worlds!CloseChapter, Worlds!hostVars
  <2>2. \A p \in 1..2 : LegSound(p)'
    BY <2>1, LegUntouched DEF BibleInv
  <2> QED BY <2>1, <2>2 DEF BibleInv, ListIsDue
<1>7. "mine" \in Worlds!Cards
  BY DEF Worlds!Cards
<1> QED
  BY <1>0, <1>1, <1>3, <1>4, <1>5, <1>6, <1>7, CreateWorldKeepsBible, ReviseKeepsBible,
     NextChapterKeepsBible, ApplyKeepsBible, StrikeKeepsBible, EditKeepsBible, DieKeepsBible
     DEF Worlds!Next, Worlds!Procs

LEMMA WorldsUntouched ==
  ASSUME HostInv, BibleInv, UNCHANGED foundVars PROVE HostInv' /\ BibleInv'
<1>1. UNCHANGED <<bible, waiting, wish, due, torn, reign, start, founding>>
        /\ UNCHANGED <<stored, looked, raced, broken>>
  BY DEF foundVars
<1>2. \A p \in 1..2 : LegSound(p)'
  BY <1>1, LegUntouched DEF BibleInv
<1> QED BY <1>1, <1>2, HostUntouched DEF BibleInv, ListIsDue

\* A started host is whole, a start that nobody raced succeeds whatever the
\* user did and wherever earlier processes died, and the Bible says what the
\* user last directed, for any packages, fields and texts (world/package.py,
\* ds_web.py).
THEOREM WorldsFounded == HostSpec => []WorldsAreFounded
<1>1. HostInit => HostInv /\ BibleInv
  BY HostStart, BibleStart DEF HostInit
<1>2. [HostNext]_hostVars => Worlds!Next \/ UNCHANGED foundVars
  BY DEF HostNext, hostVars
<1>3. HostInv /\ BibleInv /\ [HostNext]_hostVars => HostInv' /\ BibleInv'
  BY <1>2, HostKept, BibleKept, WorldsUntouched
<1>4. HostInv /\ BibleInv => WorldsAreFounded
  <2> SUFFICES ASSUME HostInv, BibleInv PROVE WorldsAreFounded
    OBVIOUS
  <2>1. Worlds!Items \ {"mine", "epoch", "package"} =
          {"penpal"} \cup {Worlds!Parts[k] : k \in StartSteps \ {2, 5}}
    <3>1. DOMAIN Worlds!Parts = StartSteps
      BY DEF Worlds!Parts, StartSteps
    <3> QED BY <3>1, PartsAre DEF Worlds!Items, Worlds!Cards, StartSteps
  <2>2. ASSUME NEW p \in 1..2, start[p] = 12
        PROVE  {"penpal"} \cup {Worlds!Parts[k] : k \in StartSteps \ {2, 5}} \subseteq stored
    <3>1. \A k \in StartSteps \ {2, 5} : k < start[p] /\ Worlds!Parts[k] \notin Marks
      BY <2>2, PartsAre DEF StartSteps, Marks
    <3>2. \A k \in StartSteps \ {2, 5} : Worlds!Parts[k] \in stored
      BY <3>1 DEF HostInv
    <3>3. "schema" \in stored
      BY <3>2, PartsAre DEF StartSteps
    <3> QED BY <3>2, <3>3 DEF HostInv
  <2>3. Worlds!StartedIsWhole
    BY <2>1, <2>2, PartsAre DEF Worlds!StartedIsWhole, Worlds!Procs
  <2>4. Worlds!StartsSucceed /\ Worlds!BibleIsAsDirected
    BY DEF HostInv, BibleInv, Worlds!StartsSucceed, Worlds!BibleIsAsDirected
  <2> QED BY <2>3, <2>4 DEF WorldsAreFounded
<1> QED BY <1>1, <1>3, <1>4, PTL DEF HostSpec
=============================================================================
