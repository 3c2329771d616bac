---------------------------- MODULE PdesSequential ----------------------------
(***************************************************************************)
(* run_sequential, the reference oracle: the rounds of PdesRounds on the   *)
(* calling thread, every phase in shard index order.                       *)
(***************************************************************************)
EXTENDS PdesShard

VARIABLES
  stage,      \* the loop the thread is in
  index,      \* the shard that loop is at
  bounds, horizon, window,
  syncError   \* the thread raised a TopologyError or the horizon's RuntimeError

seqVars == <<stage, index, bounds, horizon, window, syncError>>
vars == <<shardVars, seqVars>>

Init ==
  /\ ShardInit
  /\ stage = "build"
  /\ index = 0
  /\ bounds = [s \in Shards |-> [next |-> 0, bound |-> 0]]
  /\ horizon = -1
  /\ window = 0
  /\ syncError = FALSE

\* Nothing catches an exception of a shard: it leaves run_sequential.
Failed == syncError \/ \E s \in Shards : raised[s] # NoError

\* The loop moves on to the next shard, or after the last to stage next.
Advance(next) ==
  IF index = N - 1
  THEN stage' = next /\ index' = 0
  ELSE index' = index + 1 /\ UNCHANGED stage

SeqBuild ==
  /\ stage = "build"
  /\ Build(index)
  /\ Advance("wire")
  /\ UNCHANGED <<bounds, horizon, window, syncError>>

SeqWire ==
  /\ stage = "wire"
  /\ IF program.miswired
     THEN syncError' = TRUE /\ UNCHANGED stage
     ELSE stage' = "bound" /\ UNCHANGED syncError
  /\ UNCHANGED <<shardVars, index, bounds, horizon, window>>

SeqBound ==
  /\ stage = "bound"
  /\ bounds' = [bounds EXCEPT ![index] = Bound(index)]
  /\ Absorb(index)
  /\ Advance("decide")
  /\ UNCHANGED <<program, now, heap, eid, sequence, body, trace, raised>>
  /\ UNCHANGED <<horizon, window, syncError>>

SeqStop ==
  /\ stage = "decide"
  /\ NextMin(bounds) >= Until
  /\ stage' = "returned"
  /\ horizon' = Horizon(bounds)
  /\ window' = Until
  /\ UNCHANGED <<shardVars, index, bounds, syncError>>

\* Mutant: previous_horizon is not updated.
SeqWindowForgets ==
  /\ stage = "decide"
  /\ NextMin(bounds) < Until
  /\ stage' = "deliver"
  /\ window' = Min({Horizon(bounds), Until})
  /\ UNCHANGED <<shardVars, index, bounds, horizon, syncError>>

SeqWindow ==
  /\ stage = "decide"
  /\ NextMin(bounds) < Until
  /\ IF Horizon(bounds) <= horizon
     THEN syncError' = TRUE /\ UNCHANGED <<stage, horizon, window>>
     ELSE /\ stage' = "deliver"
          /\ horizon' = Horizon(bounds)
          /\ window' = Min({Horizon(bounds), Until})
          /\ UNCHANGED syncError
  /\ UNCHANGED <<shardVars, index, bounds>>

SeqDeliver ==
  /\ stage = "deliver"
  /\ Deliver(index, window)
  /\ UNCHANGED seqVars

SeqDelivered ==
  /\ stage = "deliver"
  /\ DeliveredBelow(index, window)
  /\ Advance("execute")
  /\ UNCHANGED <<shardVars, bounds, horizon, window, syncError>>

SeqExecute ==
  /\ stage = "execute"
  /\ Step(index, window) \/ RunBody(index)
  /\ UNCHANGED seqVars

SeqExecuted ==
  /\ stage = "execute"
  /\ ExecutedBelow(index, window)
  /\ Advance("again")
  /\ UNCHANGED <<shardVars, bounds, horizon, window, syncError>>

\* The next turn of the while loop.
SeqAgain ==
  /\ stage = "again"
  /\ stage' = "bound"
  /\ UNCHANGED <<shardVars, index, bounds, horizon, window, syncError>>

\* The call has returned, or an exception has left it.
Finished == stage = "returned" \/ Failed

Next ==
  /\ ~ Finished
  /\ \/ SeqBuild \/ SeqWire \/ SeqBound \/ SeqStop \/ SeqWindow
     \/ SeqDeliver \/ SeqDelivered \/ SeqExecute \/ SeqExecuted \/ SeqAgain

Spec == Init /\ [][Next]_vars

-----------------------------------------------------------------------------
(* The oracle runs the safe-window algorithm. *)

\* What shard s is doing, when the loop has passed it and when it has not.
PhaseOf(s, passed, ahead) == IF s < index THEN passed ELSE ahead

phase ==
  [s \in Shards |->
    IF raised[s] # NoError THEN "halted"
    ELSE CASE stage = "build"    -> PhaseOf(s, "built", "build")
           [] stage = "wire"     -> "built"
           [] stage = "bound"    -> PhaseOf(s, "reported", "gather")
           [] stage = "decide"   -> "reported"
           [] stage = "deliver"  -> PhaseOf(s, "execute", "deliver")
           [] stage = "execute"  -> PhaseOf(s, "complete", "execute")
           [] stage = "again"    -> "complete"
           [] stage = "returned" -> "stopped"]

Rounds == INSTANCE PdesRounds

\* Every behaviour of run_sequential is one of the safe-window algorithm.
ImplementsRounds == Rounds!Spec
=============================================================================
