----------------------------- MODULE PdesThreads -----------------------------
(***************************************************************************)
(* run_threaded: one thread per shard and the coordinating caller, meeting *)
(* at one reusable threading.Barrier.                                      *)
(*                                                                         *)
(* A shard thread's program counter pc[s] is the statement it is about to  *)
(* execute; at "built", "ready", "reported", "decided" and "complete" this *)
(* is a barrier.wait().  Coordinator is the calling thread.                *)
(***************************************************************************)
EXTENDS PdesShard

VARIABLES
  pc,         \* pc[p]: where thread p is
  started,    \* number of shard threads started
  inside,     \* the threads that have entered the barrier and not left it
  draining,   \* the barrier has been released and is not yet empty
  broken,     \* the barrier has been aborted
  wired,      \* runtimes[:] has been assigned
  bounds,     \* the list the shards report into
  decision,   \* _RoundDecision
  horizon,    \* previous_horizon
  errors,     \* the keys of the errors dict; the exception is raised[s]
  coordinatorError,
  outcome     \* what run_threaded returned or raised

barrierVars == <<inside, draining, broken>>
sharedVars  == <<wired, bounds, decision, horizon, errors, coordinatorError, outcome>>
threadVars  == <<pc, started, barrierVars, sharedVars>>
vars        == <<shardVars, threadVars>>

Coordinator == N
Threads     == Shards \cup {Coordinator}

Barriers == {"built", "ready", "reported", "decided", "complete"}

ShardPoints == Barriers \cup {"build", "bound", "obey", "deliver", "execute",
                              "failing", "abort", "done"}
CoordinatorPoints == Barriers \cup {"start", "wire", "decide", "check", "abort",
                                    "join", "returned"}

\* Where thread p goes on when it has passed the barrier it waits at.
AfterBarrier(p) ==
  IF p = Coordinator
  THEN [built |-> "wire", ready |-> "reported", reported |-> "decide",
        decided |-> "check", complete |-> "reported"]
  ELSE [built |-> "ready", ready |-> "bound", reported |-> "decided",
        decided |-> "obey", complete |-> "bound"]

Running    == [result |-> "running", shard |-> -1]
Returned   == [result |-> "returned", shard |-> -1]

Init ==
  /\ ShardInit
  /\ pc = [p \in Threads |-> IF p = Coordinator THEN "start" ELSE "build"]
  /\ started = 0
  /\ inside = {}
  /\ draining = FALSE
  /\ broken = FALSE
  /\ wired = FALSE
  /\ bounds = [s \in Shards |-> [next |-> 0, bound |-> 0]]
  /\ decision = [stop |-> FALSE, window |-> 0]
  /\ horizon = -1
  /\ errors = {}
  /\ coordinatorError = NoError
  /\ outcome = Running

Goto(p, point) == pc' = [pc EXCEPT ![p] = point]

\* Mutant: the thread swallows the exception.
ProceedRegardless(s, point) == Goto(s, point)

\* Thread s goes on to a point, or into its except clause if it has raised.
Proceed(s, point) == Goto(s, IF raised'[s] # NoError THEN "failing" ELSE point)

-----------------------------------------------------------------------------
(* threading.Barrier.  The last thread to arrive releases the barrier and  *)
(* passes at once; the others pass one by one, and a thread that comes     *)
(* back before all have passed has to wait for that.  abort() breaks the   *)
(* barrier for those still inside, released or not.                        *)

CanEnter(p) == pc[p] \in Barriers /\ p \notin inside /\ ~ draining /\ ~ broken

Arrive(p) ==
  /\ CanEnter(p)
  /\ inside # Threads \ {p}
  /\ inside' = inside \cup {p}
  /\ UNCHANGED <<shardVars, pc, started, draining, broken, sharedVars>>

\* Mutant: a barrier for the shards alone.
ReleaseEarly(p) ==
  /\ CanEnter(p)
  /\ Cardinality(inside) >= N - 1
  /\ draining' = TRUE
  /\ Goto(p, AfterBarrier(p)[pc[p]])
  /\ UNCHANGED <<shardVars, started, inside, broken, sharedVars>>

Release(p) ==
  /\ CanEnter(p)
  /\ inside = Threads \ {p}
  /\ draining' = TRUE
  /\ Goto(p, AfterBarrier(p)[pc[p]])
  /\ UNCHANGED <<shardVars, started, inside, broken, sharedVars>>

Pass(p) ==
  /\ p \in inside
  /\ draining
  /\ ~ broken
  /\ inside' = inside \ {p}
  /\ draining' = (inside' # {})
  /\ Goto(p, AfterBarrier(p)[pc[p]])
  /\ UNCHANGED <<shardVars, started, broken, sharedVars>>

\* wait() raises BrokenBarrierError: a shard returns, the coordinator goes
\* on to join the threads.
MeetBroken(p) ==
  /\ pc[p] \in Barriers
  /\ broken
  /\ inside' = inside \ {p}
  /\ Goto(p, IF p = Coordinator THEN "join" ELSE "done")
  /\ UNCHANGED <<shardVars, started, draining, broken, sharedVars>>

\* Mutant: the failing thread just ends.
AbortNothing(p) ==
  /\ pc[p] = "abort"
  /\ Goto(p, IF p = Coordinator THEN "join" ELSE "done")
  /\ UNCHANGED <<shardVars, started, barrierVars, sharedVars>>

AbortBarrier(p) ==
  /\ pc[p] = "abort"
  /\ broken' = TRUE
  /\ Goto(p, IF p = Coordinator THEN "join" ELSE "done")
  /\ UNCHANGED <<shardVars, started, inside, draining, sharedVars>>

-----------------------------------------------------------------------------
(* shard_thread *)

ThreadBuild(s) ==
  /\ pc[s] = "build"
  /\ s < started
  /\ Build(s)
  /\ Proceed(s, "built")
  /\ UNCHANGED <<started, barrierVars, sharedVars>>

ThreadBound(s) ==
  /\ pc[s] = "bound"
  /\ bounds' = [bounds EXCEPT ![s] = Bound(s)]
  /\ Absorb(s)
  /\ Goto(s, "reported")
  /\ UNCHANGED <<program, now, heap, eid, sequence, body, trace, raised>>
  /\ UNCHANGED <<started, barrierVars, wired, decision, horizon, errors, coordinatorError, outcome>>

ThreadObey(s) ==
  /\ pc[s] = "obey"
  /\ Goto(s, IF decision.stop THEN "done" ELSE "deliver")
  /\ UNCHANGED <<shardVars, started, barrierVars, sharedVars>>

ThreadDeliver(s) ==
  /\ pc[s] = "deliver"
  /\ Deliver(s, decision.window)
  /\ Proceed(s, "deliver")
  /\ UNCHANGED <<started, barrierVars, sharedVars>>

ThreadDelivered(s) ==
  /\ pc[s] = "deliver"
  /\ DeliveredBelow(s, decision.window)
  /\ Goto(s, "execute")
  /\ UNCHANGED <<shardVars, started, barrierVars, sharedVars>>

ThreadExecute(s) ==
  /\ pc[s] = "execute"
  /\ Step(s, decision.window) \/ RunBody(s)
  /\ Proceed(s, "execute")
  /\ UNCHANGED <<started, barrierVars, sharedVars>>

\* Mutant: no window-complete barrier for the shards.
ThreadCompleteEarly(s) ==
  /\ pc[s] = "execute"
  /\ ExecutedBelow(s, decision.window)
  /\ Goto(s, "bound")
  /\ UNCHANGED <<shardVars, started, barrierVars, sharedVars>>

ThreadComplete(s) ==
  /\ pc[s] = "execute"
  /\ ExecutedBelow(s, decision.window)
  /\ Goto(s, "complete")
  /\ UNCHANGED <<shardVars, started, barrierVars, sharedVars>>

\* Mutant: the error is not recorded.
RecordNothing(s) ==
  /\ pc[s] = "failing"
  /\ Goto(s, "abort")
  /\ UNCHANGED <<shardVars, started, barrierVars, sharedVars>>

\* The except clause records the error, then aborts the barrier.
RecordError(s) ==
  /\ pc[s] = "failing"
  /\ errors' = errors \cup {s}
  /\ Goto(s, "abort")
  /\ UNCHANGED <<shardVars, started, barrierVars>>
  /\ UNCHANGED <<wired, bounds, decision, horizon, coordinatorError, outcome>>

-----------------------------------------------------------------------------
(* The calling thread *)

StartThread ==
  /\ pc[Coordinator] = "start"
  /\ started' = started + 1
  /\ Goto(Coordinator, IF started' = N THEN "built" ELSE "start")
  /\ UNCHANGED <<shardVars, barrierVars, sharedVars>>

CoordinatorWire ==
  /\ pc[Coordinator] = "wire"
  /\ IF program.miswired
     THEN /\ coordinatorError' = "topology"
          /\ Goto(Coordinator, "abort")
          /\ UNCHANGED wired
     ELSE /\ wired' = TRUE
          /\ Goto(Coordinator, "ready")
          /\ UNCHANGED coordinatorError
  /\ UNCHANGED <<shardVars, started, barrierVars, bounds, decision, horizon, errors, outcome>>

CoordinatorStop ==
  /\ pc[Coordinator] = "decide"
  /\ NextMin(bounds) >= Until
  /\ horizon' = Horizon(bounds)
  /\ decision' = [stop |-> TRUE, window |-> Until]
  /\ Goto(Coordinator, "decided")
  /\ UNCHANGED <<shardVars, started, barrierVars, wired, bounds, errors, coordinatorError, outcome>>

CoordinatorWindow ==
  /\ pc[Coordinator] = "decide"
  /\ NextMin(bounds) < Until
  /\ IF Horizon(bounds) <= horizon
     THEN /\ coordinatorError' = "horizon"
          /\ Goto(Coordinator, "abort")
          /\ UNCHANGED <<horizon, decision>>
     ELSE /\ horizon' = Horizon(bounds)
          /\ decision' = [stop |-> FALSE, window |-> Min({Horizon(bounds), Until})]
          /\ Goto(Coordinator, "decided")
          /\ UNCHANGED coordinatorError
  /\ UNCHANGED <<shardVars, started, barrierVars, wired, bounds, errors, outcome>>

CoordinatorCheck ==
  /\ pc[Coordinator] = "check"
  /\ Goto(Coordinator, IF decision.stop THEN "join" ELSE "complete")
  /\ UNCHANGED <<shardVars, started, barrierVars, sharedVars>>

\* What run_threaded raises for the lowest recorded shard: a miswiring
\* error as it is, anything else wrapped in a ShardError naming the shard.
Blame ==
  LET s == Min(errors)
  IN  [result |-> IF raised[s] \in {"topology", "lookahead"} THEN "unwrapped" ELSE "ShardError",
       shard |-> s]

\* Mutant: only the coordinator's own error is raised.
JoinSilently ==
  /\ pc[Coordinator] = "join"
  /\ \A s \in Shards : pc[s] = "done"
  /\ outcome' = IF coordinatorError # NoError
                THEN [result |-> coordinatorError, shard |-> -1]
                ELSE Returned
  /\ Goto(Coordinator, "returned")
  /\ UNCHANGED <<shardVars, started, barrierVars, wired, bounds, decision, horizon,
                 errors, coordinatorError>>

\* The finally clause: every thread is joined, then the outcome is raised.
CoordinatorJoin ==
  /\ pc[Coordinator] = "join"
  /\ \A s \in Shards : pc[s] = "done"
  /\ outcome' = IF coordinatorError # NoError
                THEN [result |-> coordinatorError, shard |-> -1]
                ELSE IF errors # {} THEN Blame ELSE Returned
  /\ Goto(Coordinator, "returned")
  /\ UNCHANGED <<shardVars, started, barrierVars, wired, bounds, decision, horizon,
                 errors, coordinatorError>>

Barrier(p) == Arrive(p) \/ Release(p) \/ Pass(p) \/ MeetBroken(p) \/ AbortBarrier(p)

ShardThread(s) ==
  \/ ThreadBuild(s) \/ ThreadBound(s) \/ ThreadObey(s) \/ ThreadDeliver(s)
  \/ ThreadDelivered(s) \/ ThreadExecute(s) \/ ThreadComplete(s) \/ RecordError(s)
  \/ Barrier(s)

CoordinatorThread ==
  \/ StartThread \/ CoordinatorWire \/ CoordinatorStop \/ CoordinatorWindow
  \/ CoordinatorCheck \/ CoordinatorJoin
  \/ Barrier(Coordinator)

\* run_threaded has returned or raised.
Finished == pc[Coordinator] = "returned"

Next == (\E s \in Shards : ShardThread(s)) \/ CoordinatorThread

\* The operating system keeps scheduling every thread that can run.
Fairness == (\A s \in Shards : WF_vars(ShardThread(s))) /\ WF_vars(CoordinatorThread)

Spec == Init /\ [][Next]_vars /\ Fairness

-----------------------------------------------------------------------------
(* The threads run the safe-window algorithm. *)

\* Shard s has reported its bound and the coordinator has decided on it, but
\* s has not read the decision yet.
Decided(s) ==
  \/ pc[s] = "reported" /\ pc[Coordinator] = "decided"
  \/ /\ pc[s] = "decided"
     /\ pc[Coordinator] \notin {"reported", "decide"}
     /\ coordinatorError = NoError

\* A released barrier is passed by all at once: the round begins when it is
\* released, although threads still have to wake up inside it.
PhaseOf(s) ==
  CASE pc[s] \in {"build", "deliver", "execute"} -> pc[s]
    [] pc[s] \in {"built", "ready"}  -> IF wired THEN "gather" ELSE "built"
    [] pc[s] = "bound"               -> "gather"
    [] pc[s] \in {"reported", "decided"} ->
         IF ~ Decided(s) THEN "reported" ELSE IF decision.stop THEN "stopped" ELSE "deliver"
    [] pc[s] = "obey"                -> IF decision.stop THEN "stopped" ELSE "deliver"
    [] pc[s] = "complete"            -> IF s \in inside /\ draining THEN "gather" ELSE "complete"
    [] pc[s] = "done"                -> IF decision.stop THEN "stopped" ELSE "halted"
    [] OTHER                         -> "halted"

phase == [s \in Shards |-> PhaseOf(s)]

Rounds == INSTANCE PdesRounds WITH
            window <- decision.window, syncError <- coordinatorError # NoError

-----------------------------------------------------------------------------
(* Properties. *)

\* Type invariant of the threads, the barrier and what they share.
TypeOK ==
  /\ ShardTypeOK
  /\ pc \in [Threads -> ShardPoints \cup CoordinatorPoints]
  /\ started \in 0 .. N
  /\ inside \subseteq Threads
  /\ draining \in BOOLEAN /\ broken \in BOOLEAN /\ wired \in BOOLEAN
  /\ bounds \in [Shards -> [next : Times, bound : Times]]
  /\ decision \in [stop : BOOLEAN, window : Times]
  /\ horizon \in Times \cup {-1}
  /\ errors \subseteq Shards
  /\ coordinatorError \in {NoError, "topology", "horizon"}

\* Every behaviour of the threads and the barrier is one of the safe-window
\* algorithm: in particular each shard acts on the decision of its own
\* round, which was computed from the bounds of that round.
ImplementsRounds == Rounds!Init /\ [][Rounds!Next]_(Rounds!vars)

\* No shard reports a bound while another still executes its window (and may
\* send): the comment on the window-complete barrier of shard_thread.
QuiescentBounds ==
  \A s, t \in Shards : pc[s] = "bound" => pc[t] \notin {"obey", "deliver", "execute", "failing"}

\* Fail-fast: once a shard has raised, no further round is decided, even
\* before the failing thread gets to abort the barrier.
FailFast == [][(\E s \in Shards : raised[s] # NoError) => UNCHANGED decision]_vars

\* run_threaded returns only if every shard has executed everything below
\* Until and no message is left on its way; any exception is reported.
OutcomeHonest ==
  outcome = Returned =>
    \A s \in Shards : /\ raised[s] = NoError
                      /\ Inflight(s) = {}
                      /\ DeliveredBelow(s, Until)
                      /\ ExecutedBelow(s, Until)

\* Whatever shard fails wherever, no thread is left waiting at the barrier
\* and run_threaded comes to its end.
Termination == <>Finished
=============================================================================
