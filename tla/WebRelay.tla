------------------------------ MODULE WebRelay ------------------------------
(***************************************************************************)
(* The web server's threads (web.py, _build_server and run_web): a request *)
(* thread ships its work to the one queue of the thread that opened the    *)
(* database, and waits.  A streamed request relays the frames its job puts *)
(* on a queue of its own and ends with one "final" frame; a plain request  *)
(* is one that relays no frame.  A job may never return (a provider that   *)
(* hangs): then every request behind it runs into its deadline.            *)
(***************************************************************************)
EXTENDS Naturals, Sequences, FiniteSets

CONSTANTS
  Requests,
  Streamed,     \* the requests answered as an event stream
  Frames        \* bound: frames one job puts

VARIABLES
  work,         \* queue.Queue of jobs
  running,      \* the job the work thread is in
  put,          \* frames each job has put
  relayed,      \* frames each request thread has taken off
  done,         \* threading.Event per request
  outcome,      \* box / failure: "none", "ok", "raised"
  thread,       \* where each request thread is
  final         \* what the page was told

relayVars == <<work, running, put, relayed, done, outcome, thread, final>>
Nobody == "nobody"
Ended == {"answered", "gone"}

Init ==
  /\ work = <<>> /\ running = Nobody
  /\ put = [r \in Requests |-> 0] /\ relayed = [r \in Requests |-> 0]
  /\ done = [r \in Requests |-> FALSE] /\ outcome = [r \in Requests |-> "none"]
  /\ thread = [r \in Requests |-> "new"] /\ final = [r \in Requests |-> "none"]

To(r, at) == thread' = [thread EXCEPT ![r] = at]

Ship(r) ==
  /\ thread[r] = "new" /\ work' = Append(work, r)
  /\ To(r, IF r \in Streamed THEN "drain" ELSE "wait")
  /\ UNCHANGED <<running, put, relayed, done, outcome, final>>

\* The work loop of run_web: one job at a time, in the order of the queue.
Take ==
  /\ running = Nobody /\ work # <<>>
  /\ running' = Head(work) /\ work' = Tail(work)
  /\ UNCHANGED <<put, relayed, done, outcome, thread, final>>

PutFrame ==
  /\ running \in Streamed /\ put[running] < Frames
  /\ put' = [put EXCEPT ![running] = @ + 1]
  /\ UNCHANGED <<work, running, relayed, done, outcome, thread, final>>

\* The job's try/except/finally: whatever happens, the event is set.
Finish(how) ==
  /\ running # Nobody
  /\ outcome' = [outcome EXCEPT ![running] = how]
  /\ done' = [done EXCEPT ![running] = TRUE] /\ running' = Nobody
  /\ UNCHANGED <<work, put, relayed, thread, final>>

\* The inner loop: one frame is sent, or the reader is gone, or the queue is
\* empty.
Relay(r) ==
  /\ thread[r] = "drain" /\ relayed[r] < put[r]
  /\ relayed' = [relayed EXCEPT ![r] = @ + 1]
  /\ To(r, "drain") \/ To(r, "gone")
  /\ UNCHANGED <<work, running, put, done, outcome, final>>

Drained(r) ==
  /\ thread[r] = "drain" /\ relayed[r] = put[r] /\ To(r, "check")
  /\ UNCHANGED <<work, running, put, relayed, done, outcome, final>>

\* Faulty variant: an empty queue is taken for the end.
Quiet(r) == thread[r] = "check"

\* done.is_set(), read after the queue was found empty.
Over(r) == thread[r] \in {"check", "wait"} /\ done[r]

Tell(r, what) == final' = [final EXCEPT ![r] = what] /\ To(r, "answered")

Answer(r) ==
  /\ Over(r)
  /\ Tell(r, IF outcome[r] = "raised" THEN "failure" ELSE "payload")
  /\ UNCHANGED <<work, running, put, relayed, done, outcome>>

\* done.wait(0.02) returned FALSE or TRUE: round again.
Again(r) ==
  /\ thread[r] = "check" /\ To(r, "drain")
  /\ UNCHANGED <<work, running, put, relayed, done, outcome, final>>

\* Faulty variant: the thread waits for as long as it takes.
NoDeadline(r) == FALSE

\* _WORKER_WAIT_SECONDS are over; the event was not set a moment ago, and may
\* be set by now.
Deadline(r) == thread[r] \in {"check", "wait"}

GiveUp(r) ==
  /\ Deadline(r) /\ Tell(r, "late")
  /\ UNCHANGED <<work, running, put, relayed, done, outcome>>

Next ==
  \/ Take \/ PutFrame \/ Finish("ok") \/ Finish("raised")
  \/ \E r \in Requests : Ship(r) \/ Relay(r) \/ Drained(r) \/ Answer(r) \/ Again(r) \/ GiveUp(r)

\* Request threads are scheduled, and a deadline passes; nothing is assumed of
\* the work thread.
Fairness ==
  /\ \A r \in Requests : WF_relayVars(Relay(r) \/ Drained(r)) /\ WF_relayVars(GiveUp(r))
  /\ \A r \in Streamed : SF_relayVars(GiveUp(r))

FairSpec == Init /\ [][Next]_relayVars /\ Fairness

(***************************************************************************)
(* Properties                                                              *)
(***************************************************************************)
\* A page that is told a payload is told what its own job returned: a request
\* never ends before its job unless its deadline is over (_run_stream_turn,
\* _run_on_host_thread).
PayloadsAreResults ==
  \A r \in Requests : final[r] = "payload" => done[r] /\ outcome[r] = "ok"

\* Every request that was shipped ends: answered, or its reader went away,
\* also when a job never returns (_WORKER_WAIT_SECONDS).
EveryRequestEnds ==
  \A r \in Requests : []<>(thread[r] \notin {"drain", "check", "wait"})

\* Not so: the frames a job put are relayed before the final frame.  A frame
\* put between the empty read and done.is_set() is never sent.
FramesBeforeFinal ==
  \A r \in Streamed : final[r] = "payload" => relayed[r] = put[r]
=============================================================================
