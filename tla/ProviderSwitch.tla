--------------------------- MODULE ProviderSwitch ---------------------------
(***************************************************************************)
(* The provider's endpoint (web.py, host.py) lives twice: in the running   *)
(* provider object and in settings rows written one by one, with named     *)
(* profiles to switch between.  The API key is not modelled.               *)
(***************************************************************************)
EXTENDS Naturals, Sequences, FiniteSets

CONSTANTS
  Profiles,     \* provider profile ids
  Endpoints,    \* <<base_url, model>> pairs
  Insecure,     \* endpoints replace_provider refuses
  Launch        \* the endpoint of the command line

VARIABLES
  profile,      \* app_setting provider.profile.<id>
  held,         \* every endpoint a profile ever held (history)
  saved,        \* app_settings: [base, model, active]
  live,         \* the running provider's endpoint
  swap,         \* the provider handler: where, what and for whom
  died          \* a process died inside a handler

providerVars == <<profile, held, saved, live, swap, died>>
Nowhere == <<"none", "none">>
Custom == "custom"
Resting == [at |-> "idle", to |-> Nowhere, for |-> Custom]

Init ==
  /\ profile = [p \in Profiles |-> Nowhere] /\ held = [p \in Profiles |-> {}]
  /\ saved = [base |-> "none", model |-> "none", active |-> Custom]
  /\ live = Launch /\ swap = Resting /\ died = FALSE

Idle == swap.at = "idle"
At(at) == swap' = [swap EXCEPT !.at = at]

SaveProfile(p, e) ==
  /\ Idle
  /\ profile' = [profile EXCEPT ![p] = e] /\ held' = [held EXCEPT ![p] = @ \cup {e}]
  /\ UNCHANGED <<saved, live, swap, died>>

DeleteProfile(p) ==
  /\ Idle /\ profile[p] # Nowhere
  /\ profile' = [profile EXCEPT ![p] = Nowhere]
  /\ swap' = IF saved.active = p THEN [Resting EXCEPT !.at = "pointer"] ELSE swap
  /\ UNCHANGED <<held, saved, live, died>>

Activate(p) ==
  /\ Idle /\ profile[p] # Nowhere
  /\ ~(saved.active = p /\ live = profile[p])
  /\ swap' = [at |-> "swap", to |-> profile[p], for |-> p]
  /\ UNCHANGED <<profile, held, saved, live, died>>

SaveProvider(e) ==
  /\ Idle /\ e # live
  /\ swap' = [at |-> "swap", to |-> e, for |-> Custom]
  /\ UNCHANGED <<profile, held, saved, live, died>>

\* Faulty variant: the endpoint is taken whatever it is.
Unchecked(e) == e

\* replace_provider: a refused endpoint leaves the provider as it is.
Replaced(e) == IF e \in Insecure THEN live ELSE e

Swap ==
  /\ swap.at = "swap" /\ live' = Replaced(swap.to)
  /\ IF swap.to \in Insecure THEN swap' = Resting ELSE At("base")
  /\ UNCHANGED <<profile, held, saved, died>>

\* Faulty variant: only an activation moves the pointer.
KeepPointer == IF swap.for = Custom THEN saved.active ELSE swap.for

\* The pointer names where the live endpoint came from; manual edits and a
\* deleted profile return it to custom.
PointerAfter == swap.for

Persist ==
  /\ \/ swap.at = "base" /\ saved' = [saved EXCEPT !.base = swap.to[1]] /\ At("model")
     \/ swap.at = "model" /\ saved' = [saved EXCEPT !.model = swap.to[2]] /\ At("pointer")
     \/ swap.at = "pointer" /\ saved' = [saved EXCEPT !.active = PointerAfter] /\ swap' = Resting
  /\ UNCHANGED <<profile, held, live, died>>

\* open_host: the saved pair replaces the command line's when both halves exist.
Loaded ==
  IF saved.base # "none" /\ saved.model # "none" THEN <<saved.base, saved.model>> ELSE Launch

Restart ==
  /\ live' = Loaded /\ swap' = Resting /\ died' = (died \/ ~Idle)
  /\ UNCHANGED <<profile, held, saved>>

Next ==
  \/ Swap \/ Persist \/ Restart
  \/ \E p \in Profiles : DeleteProfile(p) \/ Activate(p) \/ \E e \in Endpoints : SaveProfile(p, e)
  \/ \E e \in Endpoints : SaveProvider(e)

Spec == Init /\ [][Next]_providerVars

(***************************************************************************)
(* Properties                                                              *)
(***************************************************************************)
\* The pointer is honest: a profile it names has held the endpoint the
\* provider dials, unless a process died between two of the writes
\* (provider_save, provider_profile_activate, provider_profile_delete).
PointerIsHonest ==
  (Idle /\ ~died /\ saved.active # Custom) => live \in held[saved.active]

\* A restart does not move the provider: between requests, what the next
\* process loads is what this one dials.
RestartKeepsEndpoint == (Idle /\ ~died) => Loaded = live
=============================================================================
