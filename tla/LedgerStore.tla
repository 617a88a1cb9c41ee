---------------------------- MODULE LedgerStore ----------------------------
(***************************************************************************)
(* The durable planning ledger (planner/ledger_store.py) and the exposure  *)
(* writer above it (runtime/exposure.py, the coordinator's _with_exposure, *)
(* _record_skip_exposure and _ensure_exposure_once) for one target.        *)
(*                                                                         *)
(* record_event reads the row and the obligations, applies the event to    *)
(* both in memory and offers the result in one transaction.  Two processes *)
(* may do so: the second took over while the first was between its reads   *)
(* and its write.  Inside one process the work thread takes the steps of a *)
(* record one after the other.                                             *)
(***************************************************************************)
EXTENDS Naturals, FiniteSets

CONSTANTS
  Openings,     \* action ids whose delivery is an OPENING
  Hints,        \* action ids whose delivery is a HINT or a REVEAL
  Skips,        \* moments the user left
  Owed          \* obligation keys of the target

VARIABLES
  reign,        \* runtime_epoch: 1, or 2
  delivered,    \* teaching actions whose message reached the user
  ledgerLog,    \* planning_ledger_event rows (ids)
  projection,   \* planning_ledger row: [shown, skips]
  owes,         \* coverage_obligation: [debt, paused]
  write,        \* record_event in flight, per process
  failed        \* ids whose write answered ledger_failure

ledgerVars == <<reign, delivered, ledgerLog, projection, owes, write, failed>>

Writers == {1, 2}

\* exposure_event_id, skip_event_id: the id of an event is its action's or
\* its moment's, so a repeat meets the row.
Ids == Openings \cup Hints \cup Skips
NoWrite == [id |-> "no", seen |-> {}, carried |-> [o \in Owed |-> [debt |-> 0, paused |-> FALSE]]]

Init ==
  /\ reign = 1
  /\ delivered = {} /\ ledgerLog = {} /\ failed = {}
  /\ projection = [shown |-> 0, skips |-> 0]
  /\ owes = [o \in Owed |-> [debt |-> 0, paused |-> FALSE]]
  /\ write = [p \in Writers |-> NoWrite]

\* TargetLedgerRow: the columns derived from the events.
Derived(log) ==
  [shown |-> Cardinality(log \cap Openings), skips |-> Cardinality(log \cap Skips)]

\* apply_ledger_event: an opening serves, and serving a paused obligation
\* raises; hints, reveals and skips change no obligation.
Serves(id) == id \in Openings
Raises(id, carried) == Serves(id) /\ \E o \in Owed : carried[o].paused
Applied(id, carried) ==
  IF Serves(id) THEN [o \in Owed |-> [carried[o] EXCEPT !.debt = 0]] ELSE carried

Idle(p) == write[p] = NoWrite

\* A teaching message reached the user (_exposed).
Deliver(id) ==
  /\ Idle(reign) /\ id \in (Openings \cup Hints) \ delivered
  /\ delivered' = delivered \cup {id}
  /\ UNCHANGED <<reign, ledgerLog, projection, owes, write, failed>>

\* The user left a moment (record_skip).
RecordSkip(id) ==
  /\ Idle(reign) /\ id \in Skips \ delivered
  /\ delivered' = delivered \cup {id}
  /\ UNCHANGED <<reign, ledgerLog, projection, owes, write, failed>>

\* _ensure_exposure_once: what has happened and is not in the log yet.
Owing == delivered \ ledgerLog

\* record_event up to the store: after a delivery or an abort, or again from
\* the recovery of an interrupted turn when has_ledger_event answers no.
ReadLedger(p, id) ==
  /\ p <= reign /\ Idle(p)
  /\ id \in Owing
  /\ write' = [write EXCEPT ![p] = [id |-> id, seen |-> ledgerLog, carried |-> owes]]
  /\ UNCHANGED <<reign, delivered, ledgerLog, projection, owes, failed>>

\* Faulty variant: the transaction does not look at the epoch.
AnyReign(p) == TRUE

\* _require_current_epoch.
InReign(p) == p = reign

\* Faulty variant: the projection is the one of the row before the event.
RowBefore(w) == Derived(w.seen)

\* _write_projection.
RowOf(w) == Derived(w.seen \cup {w.id})

Refused(w) == w.id \in ledgerLog \/ w.seen # ledgerLog

\* record_ledger_event: fence, replay or conflict of the id, the base the row
\* was read from, then the projection, the event and the obligations.
RecordLedgerEvent(p) ==
  LET w == write[p]
      lands == InReign(p) /\ ~Raises(w.id, w.carried) /\ ~Refused(w)
  IN /\ ~Idle(p)
     /\ write' = [write EXCEPT ![p] = NoWrite]
     /\ ledgerLog' = IF lands THEN ledgerLog \cup {w.id} ELSE ledgerLog
     /\ projection' = IF lands THEN RowOf(w) ELSE projection
     /\ owes' = IF lands /\ Applied(w.id, w.carried) # w.carried
                THEN Applied(w.id, w.carried) ELSE owes
     /\ failed' = IF lands THEN failed \ {w.id} ELSE failed \cup {w.id}
     /\ UNCHANGED <<reign, delivered>>

\* upsert_obligation with accrue (a quarter at a time), a pause or a resume.
UpsertObligation(o, debt, paused) ==
  /\ Idle(reign)
  /\ debt \in {owes[o].debt, owes[o].debt + 5} /\ debt <= 20
  /\ debt # owes[o].debt => ~owes[o].paused
  /\ owes' = [owes EXCEPT ![o] = [debt |-> debt, paused |-> paused]]
  /\ UNCHANGED <<reign, delivered, ledgerLog, projection, write, failed>>

TakeOver ==
  /\ reign = 1
  /\ reign' = 2
  /\ UNCHANGED <<delivered, ledgerLog, projection, owes, write, failed>>

Next ==
  \/ TakeOver
  \/ \E id \in Ids : Deliver(id) \/ RecordSkip(id)
  \/ \E p \in Writers : RecordLedgerEvent(p) \/ \E id \in Ids : ReadLedger(p, id)
  \/ \E o \in Owed, debt \in {0, 5, 10, 15, 20}, paused \in BOOLEAN :
       UpsertObligation(o, debt, paused)

(***************************************************************************)
(* Properties                                                              *)
(***************************************************************************)
\* get_ledger_row can always answer: the stored columns are the ones its
\* events derive, so no read of the row is refused as inconsistent.
ProjectionMatchesLog == projection = Derived(ledgerLog)

\* An exposure never undoes what was written to an obligation between its
\* reads and its write: the obligations it leaves are the ones that stood,
\* served or not.
NoLostObligation ==
  [][ledgerLog' # ledgerLog =>
       \E id \in ledgerLog' \ ledgerLog : owes' \in {owes, Applied(id, owes)}]_ledgerVars
============================================================================
