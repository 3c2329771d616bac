------------------------------ MODULE PdesRounds ------------------------------
(***************************************************************************)
(* The safe-window algorithm, without the machinery that runs it.          *)
(*                                                                         *)
(* Every round each shard drains its mailboxes and reports a bound; when   *)
(* all have reported, one decision opens the window below the least bound  *)
(* or stops the run; then each shard delivers the messages stamped below   *)
(* the window and executes its events below it; when all have completed    *)
(* the window, the next round begins.  Within a phase the shards proceed   *)
(* in any order and their steps interleave.                                *)
(*                                                                         *)
(* run_sequential and run_threaded are two implementations of this         *)
(* specification: PdesSequential and PdesThreads refine it.                *)
(***************************************************************************)
EXTENDS PdesShard

VARIABLES
  phase,      \* phase[s]: what shard s is doing in the current round
  bounds,     \* bounds[s]: the (next, bound) pair s reported last
  horizon,    \* previous_horizon; -1 stands for the initial -INFINITY
  window,     \* the window of the last decision
  syncError   \* the coordinator failed: miswired topology or stuck horizon

roundVars == <<phase, bounds, horizon, window, syncError>>
vars == <<shardVars, roundVars>>

Phases == {"build", "built", "gather", "reported", "deliver", "execute",
           "complete", "stopped", "halted"}

All(p) == \A s \in Shards : phase[s] = p

Init ==
  /\ ShardInit
  /\ phase = [s \in Shards |-> "build"]
  /\ bounds = [s \in Shards |-> [next |-> 0, bound |-> 0]]
  /\ horizon = -1
  /\ window = 0
  /\ syncError = FALSE

\* Shard s goes on to phase p, unless its code has just raised.
Proceed(s, p) ==
  phase' = [phase EXCEPT ![s] = IF raised'[s] # NoError THEN "halted" ELSE p]

BuildShard(s) ==
  /\ phase[s] = "build"
  /\ Build(s)
  /\ Proceed(s, "built")
  /\ UNCHANGED <<bounds, horizon, window, syncError>>

\* _build_runtimes: the wiring is validated when every builder has finished.
Wire ==
  /\ All("built")
  /\ IF program.miswired
     THEN syncError' = TRUE /\ UNCHANGED phase
     ELSE phase' = [s \in Shards |-> "gather"] /\ UNCHANGED syncError
  /\ ~ syncError
  /\ UNCHANGED <<shardVars, bounds, horizon, window>>

Report(s) ==
  /\ phase[s] = "gather"
  /\ \A t \in Shards : phase[t] \in {"gather", "reported"}
  /\ bounds' = [bounds EXCEPT ![s] = Bound(s)]
  /\ Absorb(s)
  /\ phase' = [phase EXCEPT ![s] = "reported"]
  /\ UNCHANGED <<program, now, heap, eid, sequence, body, trace, raised>>
  /\ UNCHANGED <<horizon, window, syncError>>

\* Nothing is left below the end of the run.
DecideStop ==
  /\ All("reported")
  /\ ~ syncError
  /\ NextMin(bounds) >= Until
  /\ horizon' = Horizon(bounds)
  /\ window' = Until
  /\ phase' = [s \in Shards |-> "stopped"]
  /\ UNCHANGED <<shardVars, bounds, syncError>>

\* The window opens below the horizon, which must have advanced.
DecideWindow ==
  /\ All("reported")
  /\ ~ syncError
  /\ NextMin(bounds) < Until
  /\ IF Horizon(bounds) <= horizon
     THEN syncError' = TRUE /\ UNCHANGED <<phase, horizon, window>>
     ELSE /\ horizon' = Horizon(bounds)
          /\ window' = Min({Horizon(bounds), Until})
          /\ phase' = [s \in Shards |-> "deliver"]
          /\ UNCHANGED syncError
  /\ UNCHANGED <<shardVars, bounds>>

DeliverOne(s) ==
  /\ phase[s] = "deliver"
  /\ Deliver(s, window)
  /\ Proceed(s, "deliver")
  /\ UNCHANGED <<bounds, horizon, window, syncError>>

\* Mutant: the window is executed before its messages are delivered.
StartExecutingEarly(s) ==
  /\ phase[s] = "deliver"
  /\ phase' = [phase EXCEPT ![s] = "execute"]
  /\ UNCHANGED <<shardVars, bounds, horizon, window, syncError>>

StartExecuting(s) ==
  /\ phase[s] = "deliver"
  /\ DeliveredBelow(s, window)
  /\ phase' = [phase EXCEPT ![s] = "execute"]
  /\ UNCHANGED <<shardVars, bounds, horizon, window, syncError>>

ExecuteOne(s) ==
  /\ phase[s] = "execute"
  /\ Step(s, window)
  /\ Proceed(s, "execute")
  /\ UNCHANGED <<bounds, horizon, window, syncError>>

RunOne(s) ==
  /\ phase[s] = "execute"
  /\ RunBody(s)
  /\ UNCHANGED roundVars

CompleteWindow(s) ==
  /\ phase[s] = "execute"
  /\ ExecutedBelow(s, window)
  /\ phase' = [phase EXCEPT ![s] = "complete"]
  /\ UNCHANGED <<shardVars, bounds, horizon, window, syncError>>

NextRound ==
  /\ All("complete")
  /\ phase' = [s \in Shards |-> "gather"]
  /\ UNCHANGED <<shardVars, bounds, horizon, window, syncError>>

\* A failed run is abandoned: a shard that is not executing gives up.
Failed == syncError \/ \E s \in Shards : raised[s] # NoError

Halt(s) ==
  /\ Failed
  /\ phase[s] \in {"built", "gather", "reported", "deliver", "complete"}
  /\ phase' = [phase EXCEPT ![s] = "halted"]
  /\ UNCHANGED <<shardVars, bounds, horizon, window, syncError>>

\* The run is over: every shard has stopped, or was abandoned.
Over ==
  /\ \A s \in Shards : phase[s] \in {"stopped", "halted"}
  /\ UNCHANGED vars

ShardAction(s) ==
  \/ BuildShard(s) \/ Report(s) \/ DeliverOne(s) \/ StartExecuting(s)
  \/ ExecuteOne(s) \/ RunOne(s) \/ CompleteWindow(s) \/ Halt(s)

Next ==
  \/ \E s \in Shards : ShardAction(s)
  \/ Wire \/ DecideStop \/ DecideWindow \/ NextRound
  \/ Over

Spec == Init /\ [][Next]_vars

-----------------------------------------------------------------------------
(* Properties. *)

\* Type invariant of the rounds: shards' state, phases and the round record.
TypeOK ==
  /\ ShardTypeOK
  /\ phase \in [Shards -> Phases]
  /\ bounds \in [Shards -> [next : Times, bound : Times]]
  /\ horizon \in Times \cup {-1}
  /\ window \in Times
  /\ syncError \in BOOLEAN

\* The safe window is safe: no mail can land inside a window already opened,
\* and no shard's clock is beyond the stamp of a message still on its way to
\* it, however the steps of senders and receivers interleave.  This is the
\* promise of Channel.send's lookahead check and of the horizon of _decide.
SafeWindow ==
  /\ \A c \in Channels : \A m \in mail[c] : m.timestamp >= window
  /\ \A s \in Shards : \A m \in pending[s] \cup Inflight(s) : now[s] <= m.timestamp

\* Inbox.deliver never meets the causality violation it checks for ("the
\* safe-window algorithm can never legitimately produce" it).
CausalityHolds == \A s \in Shards : raised[s] # "causality"

\* The horizon advances in every round with pending work: _decide never
\* raises its "synchronizer bug" RuntimeError.
HorizonAdvances == syncError => program.miswired

\* When the run stops, no work below Until is left anywhere: not in a heap,
\* not among undelivered messages, not in a mailbox.
NothingLeftBehind ==
  \A s \in Shards : phase[s] = "stopped" =>
    /\ Inflight(s) = {}
    /\ \A m \in pending[s] : m.timestamp >= Until
    /\ ExecutedBelow(s, Until)

\* How many times message number q of channel c is to be found on its way
\* from the sender's mailbox to the events processed by the receiver.
Sightings(c, q) ==
  LET r == Receiver[c]
      Carries(e) == \E m \in e.origin : m.channel = c /\ m.sequence = q
  IN  Cardinality({m \in mail[c] : m.sequence = q})
        + Cardinality({m \in pending[r] : m.channel = c /\ m.sequence = q})
        + Cardinality({e \in heap[r] : Carries(e)})
        + Cardinality({i \in DOMAIN trace[r] : Carries(trace[r][i])})

\* No message is lost, duplicated or delivered twice between the mailbox,
\* the pending heap and the event heap, in any round.
ExactlyOnce ==
  \A c \in Channels : \A q \in 0 .. sequence[c] - 1 : Sightings(c, q) = 1

\* Over the whole run a shard processes arrivals in the normative order
\* (timestamp, channel id, sequence), although it drains its mailboxes in
\* batches, round by round, while the senders race.
DeliveryOrder ==
  \A s \in Shards : \A i, j \in DOMAIN trace[s] :
    i < j => \A m \in trace[s][i].origin, k \in trace[s][j].origin : KeyBefore(m, k)
=============================================================================
