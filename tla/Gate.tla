-------------------------------- MODULE Gate --------------------------------
(***************************************************************************)
(* The teaching gate (teaching/gate.py): four profiles that decide, from   *)
(* the facts of one moment, whether teaching may open or go on.  A fact    *)
(* that cannot be read degrades the decision; otherwise every reason       *)
(* against it is collected and one is enough.                              *)
(*                                                                         *)
(* The facts start out right and go wrong one after the other, so that     *)
(* every combination of at most MaxWrong of them is judged.                *)
(***************************************************************************)
EXTENDS Naturals, FiniteSets

CONSTANT MaxWrong    \* bound: facts that are not as they should be

VARIABLES
  fact,      \* what the gate is told
  wrong      \* facts that went wrong so far

gateVars == <<fact, wrong>>

Right ==
  [authorization |-> "VALID", subject |-> "ACTIVE", target |-> "VALID", content |-> "VALID",
   safety |-> "ALLOW", snapshot |-> "VALID", state |-> "COMPLETE", suppressed |-> "NO",
   enabled |-> "YES", flow |-> "FREE", budget |-> "LEFT", cooldown |-> "OVER",
   attempts |-> "LEFT", turns |-> "LEFT"]

\* What may become of a fact, worse with every step (_check_fact_values).
Worse(name) ==
  CASE name = "authorization" -> {"INVALIDATED", "UNKNOWN"}
    [] name = "subject" -> {"CANCELLED", "SUPERSEDED", "UNKNOWN"}
    [] name = "target" -> {"INVALID", "DEPRECATED", "MISSING", "UNKNOWN"}
    [] name = "content" -> {"INVALID", "UNKNOWN"}
    [] name = "safety" -> {"BLOCK", "UNKNOWN"}
    [] name = "snapshot" -> {"UNKNOWN"}
    [] name = "state" -> {"INCOMPLETE"}
    [] name = "suppressed" -> {"YES"}
    [] name = "enabled" -> {"NO"}
    [] name = "flow" -> {"PROTECTED"}
    [] name \in {"budget", "attempts", "turns"} -> {"EXHAUSTED"}
    [] name = "cooldown" -> {"ACTIVE"}
    [] name = "lock" -> {"UNKNOWN"}

\* The lock, the scope, the moment and who opened it are what they are.
Init ==
  /\ \E lock \in {"NONE", "OWNED_BY_THIS_MOMENT", "OWNED_BY_OTHER"},
        scope \in {"OPEN", "TARGETED_LEARNING_REQUEST", "JUST_CHAT", "ACTIVE_TEACHING_CONTINUATION"},
        moment \in {"DECIDING_NEXT_ACTION", "OTHER"}, consent \in {"AUTO_OPENED", "USER_AUTHORIZED"} :
       fact = [name \in DOMAIN Right \cup {"lock", "scope", "moment", "consent"} |->
                 CASE name = "lock" -> lock [] name = "scope" -> scope
                   [] name = "moment" -> moment [] name = "consent" -> consent
                   [] OTHER -> Right[name]]
  /\ wrong = {}

Worsen(name) ==
  /\ name \notin wrong /\ Cardinality(wrong) < MaxWrong
  /\ \E v \in Worse(name) : fact' = [fact EXCEPT ![name] = v]
  /\ wrong' = wrong \cup {name}

Next == \E name \in DOMAIN Right \cup {"lock"} : Worsen(name)

Spec == Init /\ [][Next]_gateVars

(***************************************************************************)
(* What cannot be read                                                     *)
(***************************************************************************)
\* Faulty variant: the lock is not among the facts that must be readable.
UnknownButLock ==
  {name \in {"authorization", "target", "content", "safety", "subject"} : fact[name] = "UNKNOWN"}
    \cup (IF fact.state = "INCOMPLETE" THEN {"state"} ELSE {})

\* _continuation_unknown_facts
ContinuationUnknown ==
  {name \in {"authorization", "target", "content", "lock", "safety", "subject"} :
     fact[name] = "UNKNOWN"}
    \cup (IF fact.state = "INCOMPLETE" THEN {"state"} ELSE {})

\* _opening_unknown_facts
OpeningUnknown ==
  ContinuationUnknown \cup (IF fact.snapshot = "UNKNOWN" THEN {"snapshot"} ELSE {})

(***************************************************************************)
(* The reasons against                                                     *)
(***************************************************************************)
When(cond, reason) == IF cond THEN {reason} ELSE {}

SharedReasons ==
  When(fact.safety = "BLOCK", "SAFETY_PRIVACY_BLOCK")
    \cup When(fact.subject = "CANCELLED", "ACTION_CANCELLED")
    \cup When(fact.subject = "SUPERSEDED", "ACTION_SUPERSEDED")
    \cup When(fact.authorization = "INVALIDATED", "AUTHORIZATION_INVALID")
    \cup When(fact.target \in {"INVALID", "DEPRECATED", "MISSING"}, "TARGET_INVALID")
    \cup When(fact.content = "INVALID", "CONTENT_INVALID")
    \cup When(fact.suppressed = "YES", "TARGET_SUPPRESSED")

LockTaken == When(fact.lock \in {"OWNED_BY_OTHER", "OWNED_BY_THIS_MOMENT"}, "TEACHING_LOCK_CONFLICT")
LockNotOurs ==
  When(fact.lock = "OWNED_BY_OTHER", "TEACHING_LOCK_CONFLICT")
    \cup When(fact.lock \notin {"OWNED_BY_OTHER", "OWNED_BY_THIS_MOMENT"}, "TEACHING_LOCK_INVALID")

\* decide_user_initiated_open
UserOpenReasons ==
  SharedReasons \cup LockTaken
    \cup When(fact.scope \notin {"LEARNING_REQUEST", "TARGETED_LEARNING_REQUEST"}, "USER_INTENT_BLOCK")

\* decide_automatic_open
AutomaticOpenReasons ==
  SharedReasons \cup LockTaken
    \cup When(fact.scope # "OPEN", "USER_INTENT_BLOCK")
    \cup When(fact.enabled = "NO", "AUTO_TEACH_DISABLED")
    \cup When(fact.flow = "PROTECTED", "HARD_PROTECTED_FLOW")
    \cup When(fact.budget = "EXHAUSTED", "AUTO_SESSION_BUDGET_EXHAUSTED")
    \cup When(fact.cooldown = "ACTIVE", "HARD_COOLDOWN_ACTIVE")

\* Faulty variant: nothing is exempt from the limit on teaching turns.
NothingTerminal(action) == FALSE

\* An action that closes the moment is exempt from the limit on turns.
Terminalizing(action) == action \in {"REVEAL", "TERMINAL_FEEDBACK"}

LimitReasons(action) ==
  When(fact.attempts = "EXHAUSTED" /\ action \in {"RETRY", "HINT"}, "HARD_ATTEMPT_LIMIT")
    \cup When(fact.turns = "EXHAUSTED" /\ ~Terminalizing(action), "HARD_TEACHING_TURN_LIMIT")

MomentReasons(action) ==
  SharedReasons \cup LockNotOurs \cup LimitReasons(action)
    \cup When(fact.scope # "ACTIVE_TEACHING_CONTINUATION", "USER_INTENT_BLOCK")
    \cup When(fact.moment # "DECIDING_NEXT_ACTION", "MOMENT_NOT_CONTINUABLE")

\* decide_user_requested_continuation
UserContinueReasons(action) == MomentReasons(action)

\* Faulty variant: the automatic continuation does not count the limits.
LimitlessReasons(action) ==
  (MomentReasons(action) \ LimitReasons(action))
    \cup When(fact.consent = "AUTO_OPENED" /\ fact.enabled = "NO", "AUTO_TEACH_DISABLED")
    \cup When(fact.flow = "PROTECTED", "HARD_PROTECTED_FLOW")

\* decide_auto_continuation
AutoContinueReasons(action) ==
  MomentReasons(action)
    \cup When(fact.consent = "AUTO_OPENED" /\ fact.enabled = "NO", "AUTO_TEACH_DISABLED")
    \cup When(fact.flow = "PROTECTED", "HARD_PROTECTED_FLOW")

ContinuationActions == {"HINT", "RETRY", "EXPLANATION", "REVEAL", "TERMINAL_FEEDBACK"}

\* The verdicts: ALLOW only with every fact known and no reason against.
Allowed ==
  When(OpeningUnknown = {} /\ UserOpenReasons = {}, <<"USER_INITIATED", "OPENING">>)
    \cup When(OpeningUnknown = {} /\ AutomaticOpenReasons = {}, <<"AUTOMATIC", "OPENING">>)
    \cup {<<"USER_REQUESTED", a>> : a \in {a \in ContinuationActions :
            ContinuationUnknown = {} /\ UserContinueReasons(a) = {}}}
    \cup {<<"AUTO_CONTINUE", a>> : a \in {a \in ContinuationActions :
            ContinuationUnknown = {} /\ AutoContinueReasons(a) = {}}}

(***************************************************************************)
(* Properties                                                              *)
(***************************************************************************)
\* Nothing that goes wrong, and no fact that becomes unreadable, ever turns a
\* refusal into a permission, in any of the four profiles: an unread fact is
\* not taken for a harmless one (decide_user_initiated_open,
\* decide_automatic_open, decide_user_requested_continuation,
\* decide_auto_continuation).
NoNewPermission == Allowed' \subseteq Allowed

WorseNeverAllows == [][NoNewPermission]_gateVars

\* A moment can always be closed: when limits are all that is wrong, the
\* reveal and the closing feedback may still be sent (the terminalizing
\* exemption), so exhausting the limits never strands a moment with its lock.
LimitsNeverStrand ==
  (/\ wrong \subseteq {"attempts", "turns", "budget", "cooldown", "snapshot"}
   /\ fact.lock = "OWNED_BY_THIS_MOMENT" /\ fact.moment = "DECIDING_NEXT_ACTION"
   /\ fact.scope = "ACTIVE_TEACHING_CONTINUATION")
    => \A who \in {"USER_REQUESTED", "AUTO_CONTINUE"}, a \in {"REVEAL", "TERMINAL_FEEDBACK"} :
         <<who, a>> \in Allowed

\* What the program may do by itself it may also do when asked: an automatic
\* continuation is never allowed where a requested one is not, and a moment
\* that is open never gets a second one opened over it.
AskedIsNeverStricter ==
  /\ \A a \in ContinuationActions :
       <<"AUTO_CONTINUE", a>> \in Allowed => <<"USER_REQUESTED", a>> \in Allowed
  /\ ~\E p, q \in Allowed : p[2] = "OPENING" /\ q[2] # "OPENING"
=============================================================================
