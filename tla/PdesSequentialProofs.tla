------------------------- MODULE PdesSequentialProofs -------------------------
(***************************************************************************)
(* run_sequential implements the safe-window algorithm: its first state is *)
(* a first state of PdesRounds, and every step of its loops is one of the  *)
(* algorithm's.  What is proved of the algorithm thus holds of the oracle. *)
(***************************************************************************)
EXTENDS PdesSequential, PdesShardProofs

Stages == {"build", "wire", "bound", "decide", "deliver", "execute", "again", "returned"}

\* Each of the loops begins at shard 0 and names its shard.
LoopInv ==
  /\ stage \in Stages
  /\ index \in Shards
  /\ stage \in {"wire", "decide", "again", "returned"} => index = 0
  /\ DOMAIN raised = Shards

LEMMA LoopInit == Init => LoopInv
BY ShardsAssumption DEF Init, ShardInit, LoopInv, Stages, Shards

\* The two ways in which a loop goes on.
LEMMA Advances ==
  ASSUME NEW next, LoopInv, Advance(next)
  PROVE  \/ index = N - 1 /\ stage' = next /\ index' = 0
         \/ index # N - 1 /\ stage' = stage /\ index' = index + 1 /\ index' \in Shards
BY ShardsAssumption DEF Advance, LoopInv, Shards

\* No action of a shard makes the loops lose a shard's exception.
LEMMA RaisedDomain ==
  ASSUME DOMAIN raised = Shards,
         NEW s \in Shards, NEW h,
         \/ Build(s) \/ Deliver(s, h) \/ Step(s, h) \/ RunBody(s) \/ raised' = raised
  PROVE  /\ DOMAIN raised' = Shards
         /\ \A t \in Shards \ {s} : raised'[t] = raised[t]
<1>1. CASE Build(s)
  BY <1>1 DEF Build
<1>2. CASE Deliver(s, h)
  BY <1>2 DEF Deliver
<1>3. CASE Step(s, h)
  BY <1>3 DEF Step
<1>4. CASE RunBody(s) \/ raised' = raised
  BY <1>4 DEF RunBody, RunSchedule, RunSend, RunFailure
<1> QED BY <1>1, <1>2, <1>3, <1>4

LEMMA LoopStep ==
  ASSUME LoopInv, [Next]_vars
  PROVE  LoopInv'
<1>1. 0 \in Shards
  BY ShardsAssumption DEF Shards
<1>2. CASE SeqBuild
  BY <1>1, <1>2, Advances, RaisedDomain DEF SeqBuild, LoopInv, Stages
<1>3. CASE SeqBound
  BY <1>1, <1>3, Advances DEF SeqBound, LoopInv, Stages
<1>4. CASE SeqDelivered \/ SeqExecuted
  BY <1>1, <1>4, Advances DEF SeqDelivered, SeqExecuted, shardVars, LoopInv, Stages
<1>5. CASE SeqDeliver \/ SeqExecute
  BY <1>5, RaisedDomain DEF SeqDeliver, SeqExecute, seqVars, LoopInv
<1>6. CASE SeqWire \/ SeqStop \/ SeqWindow \/ SeqAgain
  BY <1>6 DEF SeqWire, SeqStop, SeqWindow, SeqAgain, shardVars, LoopInv, Stages
<1>7. CASE UNCHANGED vars
  BY <1>7 DEF vars, shardVars, seqVars, LoopInv
<1> QED BY <1>2, <1>3, <1>4, <1>5, <1>6, <1>7 DEF Next

-----------------------------------------------------------------------------
(* The phases of the rounds. *)

LEMMA PhaseOfLoop ==
  ASSUME LoopInv, NEW s \in Shards
  PROVE  /\ raised[s] # NoError => phase[s] = "halted"
         /\ raised[s] = NoError =>
              /\ stage = "build"    => phase[s] = IF s < index THEN "built" ELSE "build"
              /\ stage = "wire"     => phase[s] = "built"
              /\ stage = "bound"    => phase[s] = IF s < index THEN "reported" ELSE "gather"
              /\ stage = "decide"   => phase[s] = "reported"
              /\ stage = "deliver"  => phase[s] = IF s < index THEN "execute" ELSE "deliver"
              /\ stage = "execute"  => phase[s] = IF s < index THEN "complete" ELSE "execute"
              /\ stage = "again"    => phase[s] = "complete"
              /\ stage = "returned" => phase[s] = "stopped"
BY DEF phase, PhaseOf

\* The same of the next state.
LEMMA PhaseOfLoopNext ==
  ASSUME LoopInv', NEW s \in Shards
  PROVE  /\ raised'[s] # NoError => phase'[s] = "halted"
         /\ raised'[s] = NoError =>
              /\ stage' = "build"    => phase'[s] = IF s < index' THEN "built" ELSE "build"
              /\ stage' = "wire"     => phase'[s] = "built"
              /\ stage' = "bound"    => phase'[s] = IF s < index' THEN "reported" ELSE "gather"
              /\ stage' = "decide"   => phase'[s] = "reported"
              /\ stage' = "deliver"  => phase'[s] = IF s < index' THEN "execute" ELSE "deliver"
              /\ stage' = "execute"  => phase'[s] = IF s < index' THEN "complete" ELSE "execute"
              /\ stage' = "again"    => phase'[s] = "complete"
              /\ stage' = "returned" => phase'[s] = "stopped"
BY DEF phase, PhaseOf

LEMMA PhaseType ==
  ASSUME LoopInv, LoopInv'
  PROVE  phase \in [Shards -> Rounds!Phases] /\ phase' \in [Shards -> Rounds!Phases]
<1>1. phase \in [Shards -> Rounds!Phases]
  BY DEF phase, PhaseOf, Rounds!Phases, LoopInv, Stages
<1>2. phase' \in [Shards -> Rounds!Phases]
  BY DEF phase, PhaseOf, Rounds!Phases, LoopInv, Stages
<1> QED BY <1>1, <1>2

LEMMA PhaseMoves ==
  ASSUME LoopInv, LoopInv', NEW i \in Shards, NEW v,
         \A s \in Shards : phase'[s] = IF s = i THEN v ELSE phase[s]
  PROVE  phase' = [phase EXCEPT ![i] = v]
BY PhaseType

LEMMA PhasesMove ==
  ASSUME LoopInv, LoopInv', NEW v, \A s \in Shards : phase'[s] = v
  PROVE  phase' = [s \in Shards |-> v]
BY PhaseType

-----------------------------------------------------------------------------
(* The shards of the rounds are the shards of the loops. *)

LEMMA SameConstants ==
  /\ Rounds!Shards = Shards /\ Rounds!NoError = NoError /\ Rounds!NORMAL = NORMAL
  /\ \A S : Rounds!Min(S) = Min(S)
  /\ \A t, d : Rounds!Plus(t, d) = Plus(t, d) /\ Rounds!Minus(t, d) = Minus(t, d)
  /\ \A m, k : Rounds!KeyBefore(m, k) = KeyBefore(m, k)
  /\ \A e, f : Rounds!Before(e, f) = Before(e, f)
<1>1. \A S : Rounds!Min(S) = Min(S)
  BY DEF Min, Rounds!Min
<1> QED BY <1>1 DEF Shards, Rounds!Shards, NoError, Rounds!NoError, NORMAL, Rounds!NORMAL,
        Plus, Rounds!Plus, Minus, Rounds!Minus, KeyBefore, Rounds!KeyBefore,
        Before, Rounds!Before

LEMMA SameInit == Rounds!ShardInit = ShardInit
BY SameConstants DEF ShardInit, Rounds!ShardInit

LEMMA SameSchedule ==
  \A s, delay, prio, label, origin, error :
    Rounds!Schedule(s, delay, prio, label, origin, error) = Schedule(s, delay, prio, label, origin, error)
BY SameConstants DEF Schedule, Rounds!Schedule

LEMMA SameBuild == \A s : Rounds!Build(s) = Build(s)
BY SameConstants DEF Build, Rounds!Build

LEMMA SameStep == \A s, h : Rounds!Step(s, h) = Step(s, h)
<1>1. \A s, e : Rounds!Handler(s, e) = Handler(s, e) /\ Rounds!IsFirst(e, s) = IsFirst(e, s)
  BY SameConstants DEF Handler, Rounds!Handler, Deposit, Rounds!Deposit, IsFirst, Rounds!IsFirst
<1> QED BY <1>1, SameConstants DEF Step, Rounds!Step

LEMMA SameBody == \A s : Rounds!RunBody(s) = RunBody(s)
<1>1. \A s : Rounds!Raises(s) = Raises(s)
  BY SameConstants DEF Raises, Rounds!Raises
<1>2. \A s : Rounds!RunSchedule(s) = RunSchedule(s)
  BY SameConstants, SameSchedule DEF RunSchedule, Rounds!RunSchedule
<1>3. \A s : Rounds!RunSend(s) = RunSend(s)
  BY SameConstants DEF RunSend, Rounds!RunSend
<1>4. \A s : Rounds!RunFailure(s) = RunFailure(s)
  BY <1>1, SameConstants, SameSchedule DEF RunFailure, Rounds!RunFailure
<1> QED BY <1>2, <1>3, <1>4 DEF RunBody, Rounds!RunBody

LEMMA SameDeliver ==
  /\ \A s, h : Rounds!Deliver(s, h) = Deliver(s, h)
  /\ \A s, h : Rounds!DeliveredBelow(s, h) = DeliveredBelow(s, h)
  /\ \A s, h : Rounds!ExecutedBelow(s, h) = ExecutedBelow(s, h)
<1>1. \A s, h : Rounds!Deliver(s, h) = Deliver(s, h)
  BY SameConstants, SameSchedule DEF Deliver, Rounds!Deliver
<1> QED BY <1>1 DEF DeliveredBelow, Rounds!DeliveredBelow, ExecutedBelow, Rounds!ExecutedBelow

LEMMA SameAbsorb ==
  \A s : Rounds!Absorb(s) = Absorb(s) /\ Rounds!Bound(s) = Bound(s)
<1>1. \A s : Rounds!Inbound(s) = Inbound(s) /\ Rounds!Outbound(s) = Outbound(s)
  BY DEF Inbound, Rounds!Inbound, Outbound, Rounds!Outbound
<1>2. \A s : Rounds!Inflight(s) = Inflight(s)
  BY <1>1 DEF Inflight, Rounds!Inflight
<1>3. \A s : Rounds!MinLookahead(s) = MinLookahead(s) /\ Rounds!NextTime(s) = NextTime(s)
  BY <1>1, <1>2, SameConstants DEF MinLookahead, Rounds!MinLookahead, NextTime, Rounds!NextTime
<1> QED BY <1>1, <1>2, <1>3, SameConstants DEF Absorb, Rounds!Absorb, Bound, Rounds!Bound

LEMMA SameDecision ==
  /\ \A b : Rounds!NextMin(b) = NextMin(b)
  /\ \A b : Rounds!Horizon(b) = Horizon(b)
BY SameConstants DEF NextMin, Rounds!NextMin, Horizon, Rounds!Horizon

-----------------------------------------------------------------------------
(* The refinement. *)

LEMMA InitRefines == Init => Rounds!Init
<1> SUFFICES ASSUME Init PROVE Rounds!Init
  OBVIOUS
<1>1. phase = [s \in Shards |-> "build"]
  <2>1. \A s \in Shards : raised[s] = NoError /\ ~ (s < index)
    BY ShardsAssumption DEF Init, ShardInit, Shards
  <2> QED BY <2>1 DEF phase, PhaseOf, Init
<1> QED BY <1>1, SameConstants, SameInit DEF Init, Rounds!Init

\* While the loops run, no shard has raised.
LEMMA Running ==
  ASSUME Next
  PROVE  /\ ~ Finished /\ \A s \in Shards : raised[s] = NoError
         /\ syncError = FALSE \/ syncError \notin BOOLEAN
BY DEF Next, Finished, Failed

LEMMA BuildRefines ==
  ASSUME LoopInv, LoopInv', Next, SeqBuild
  PROVE  Rounds!BuildShard(index)
<1>1. index \in Shards /\ \A s \in Shards : raised[s] = NoError
  BY Running DEF LoopInv
<1>2. phase[index] = "build"
  BY <1>1, PhaseOfLoop, ShardsAssumption DEF SeqBuild, Shards
<1>3. \A t \in Shards \ {index} : raised'[t] = NoError
  BY <1>1, RaisedDomain DEF LoopInv, SeqBuild
<1>4. \A s \in Shards : phase'[s] =
        IF s = index THEN IF raised'[index] # NoError THEN "halted" ELSE "built" ELSE phase[s]
  <2>1. CASE index = N - 1 /\ stage' = "wire" /\ index' = 0
    BY <1>1, <1>3, <2>1, PhaseOfLoop, PhaseOfLoopNext, ShardsAssumption DEF SeqBuild, Shards
  <2>2. CASE index # N - 1 /\ stage' = stage /\ index' = index + 1
    BY <1>1, <1>3, <2>2, PhaseOfLoop, PhaseOfLoopNext, ShardsAssumption DEF SeqBuild, Shards
  <2> QED BY <2>1, <2>2, Advances DEF SeqBuild
<1>5. phase' = [phase EXCEPT ![index] = IF raised'[index] # NoError THEN "halted" ELSE "built"]
  BY <1>1, <1>4, PhaseMoves
<1> QED BY <1>2, <1>5, SameConstants, SameBuild
        DEF Rounds!BuildShard, Rounds!Proceed, SeqBuild

LEMMA WireRefines ==
  ASSUME LoopInv, LoopInv', Next, SeqWire
  PROVE  Rounds!Wire
<1>1. \A s \in Shards : raised[s] = NoError /\ raised'[s] = NoError /\ phase[s] = "built"
  BY Running, PhaseOfLoop DEF SeqWire, shardVars
<1>2. ~ syncError
  BY DEF Next, Finished, Failed
<1>3. CASE program.miswired
  <2>1. stage' = stage /\ index' = index /\ raised' = raised
    BY <1>3 DEF SeqWire, shardVars
  <2>2. phase' = phase
    BY <2>1 DEF phase, PhaseOf
  <2> QED BY <1>1, <1>2, <1>3, <2>2, SameConstants DEF shardVars, Rounds!shardVars, Rounds!Wire, Rounds!All, SeqWire
<1>4. CASE ~ program.miswired
  <2>1. stage' = "bound" /\ index' = 0
    BY <1>4 DEF SeqWire, LoopInv
  <2>2. \A s \in Shards : phase'[s] = "gather"
    BY <1>1, <2>1, PhaseOfLoopNext, ShardsAssumption DEF Shards
  <2>3. phase' = [s \in Shards |-> "gather"]
    BY <2>2, PhasesMove
  <2> QED BY <1>1, <1>2, <1>4, <2>3, SameConstants DEF shardVars, Rounds!shardVars, Rounds!Wire, Rounds!All, SeqWire
<1> QED BY <1>3, <1>4

LEMMA BoundRefines ==
  ASSUME LoopInv, LoopInv', Next, SeqBound
  PROVE  Rounds!Report(index)
<1>1. index \in Shards /\ \A s \in Shards : raised[s] = NoError /\ raised'[s] = NoError
  BY Running DEF LoopInv, SeqBound
<1>2. \A s \in Shards : phase[s] = IF s < index THEN "reported" ELSE "gather"
  BY <1>1, PhaseOfLoop DEF SeqBound
<1>3. phase[index] = "gather"
  BY <1>1, <1>2, ShardsAssumption DEF Shards
<1>4. \A s \in Shards : phase'[s] = IF s = index THEN "reported" ELSE phase[s]
  <2>1. CASE index = N - 1 /\ stage' = "decide" /\ index' = 0
    BY <1>1, <1>2, <2>1, PhaseOfLoopNext, ShardsAssumption DEF Shards
  <2>2. CASE index # N - 1 /\ stage' = stage /\ index' = index + 1
    BY <1>1, <1>2, <2>2, PhaseOfLoopNext, ShardsAssumption DEF SeqBound, Shards
  <2> QED BY <2>1, <2>2, Advances DEF SeqBound
<1>5. phase' = [phase EXCEPT ![index] = "reported"]
  BY <1>1, <1>4, PhaseMoves
<1>6. \A t \in Shards : phase[t] \in {"gather", "reported"}
  BY <1>2
<1> QED BY <1>3, <1>5, <1>6, SameConstants, SameAbsorb DEF Rounds!Report, SeqBound

LEMMA StopRefines ==
  ASSUME LoopInv, LoopInv', Next, SeqStop
  PROVE  Rounds!DecideStop
<1>1. \A s \in Shards : raised[s] = NoError /\ raised'[s] = NoError /\ phase[s] = "reported"
  BY Running, PhaseOfLoop DEF SeqStop, shardVars
<1>2. ~ syncError
  BY DEF Next, Finished, Failed
<1>3. \A s \in Shards : phase'[s] = "stopped"
  BY <1>1, PhaseOfLoopNext DEF SeqStop
<1>4. phase' = [s \in Shards |-> "stopped"]
  BY <1>3, PhasesMove
<1> QED BY <1>1, <1>2, <1>4, SameConstants, SameDecision
        DEF shardVars, Rounds!shardVars, Rounds!DecideStop, Rounds!All, SeqStop

LEMMA WindowRefines ==
  ASSUME LoopInv, LoopInv', Next, SeqWindow
  PROVE  Rounds!DecideWindow
<1>1. \A s \in Shards : raised[s] = NoError /\ raised'[s] = NoError /\ phase[s] = "reported"
  BY Running, PhaseOfLoop DEF SeqWindow, shardVars
<1>2. ~ syncError
  BY DEF Next, Finished, Failed
<1>3. CASE Horizon(bounds) <= horizon
  <2>1. stage' = stage /\ index' = index /\ raised' = raised
    BY <1>3 DEF SeqWindow, shardVars
  <2>2. phase' = phase
    BY <2>1 DEF phase, PhaseOf
  <2> QED BY <1>1, <1>2, <1>3, <2>2, SameConstants, SameDecision
          DEF shardVars, Rounds!shardVars, Rounds!DecideWindow, Rounds!All, SeqWindow
<1>4. CASE ~ (Horizon(bounds) <= horizon)
  <2>1. stage' = "deliver" /\ index' = 0
    BY <1>4 DEF SeqWindow, LoopInv
  <2>2. \A s \in Shards : phase'[s] = "deliver"
    BY <1>1, <2>1, PhaseOfLoopNext, ShardsAssumption DEF Shards
  <2>3. phase' = [s \in Shards |-> "deliver"]
    BY <2>2, PhasesMove
  <2> QED BY <1>1, <1>2, <1>4, <2>3, SameConstants, SameDecision
          DEF shardVars, Rounds!shardVars, Rounds!DecideWindow, Rounds!All, SeqWindow
<1> QED BY <1>3, <1>4

LEMMA DeliverRefines ==
  ASSUME LoopInv, LoopInv', Next, SeqDeliver
  PROVE  Rounds!DeliverOne(index)
<1>1. index \in Shards /\ \A s \in Shards : raised[s] = NoError
  BY Running DEF LoopInv
<1>2. phase[index] = "deliver"
  BY <1>1, PhaseOfLoop, ShardsAssumption DEF SeqDeliver, Shards
<1>3. \A t \in Shards \ {index} : raised'[t] = NoError
  BY <1>1, RaisedDomain DEF LoopInv, SeqDeliver
<1>4. \A s \in Shards : phase'[s] =
        IF s = index THEN IF raised'[index] # NoError THEN "halted" ELSE "deliver" ELSE phase[s]
  BY <1>1, <1>2, <1>3, PhaseOfLoop, PhaseOfLoopNext DEF SeqDeliver, seqVars
<1>5. phase' = [phase EXCEPT ![index] = IF raised'[index] # NoError THEN "halted" ELSE "deliver"]
  BY <1>1, <1>4, PhaseMoves
<1> QED BY <1>2, <1>5, SameConstants, SameDeliver
        DEF Rounds!DeliverOne, Rounds!Proceed, SeqDeliver, seqVars

LEMMA DeliveredRefines ==
  ASSUME LoopInv, LoopInv', Next, SeqDelivered
  PROVE  Rounds!StartExecuting(index)
<1>1. index \in Shards /\ \A s \in Shards : raised[s] = NoError /\ raised'[s] = NoError
  BY Running DEF LoopInv, SeqDelivered, shardVars
<1>2. \A s \in Shards : phase[s] = IF s < index THEN "execute" ELSE "deliver"
  BY <1>1, PhaseOfLoop DEF SeqDelivered
<1>3. phase[index] = "deliver"
  BY <1>1, <1>2, ShardsAssumption DEF Shards
<1>4. \A s \in Shards : phase'[s] = IF s = index THEN "execute" ELSE phase[s]
  <2>1. CASE index = N - 1 /\ stage' = "execute" /\ index' = 0
    BY <1>1, <1>2, <2>1, PhaseOfLoopNext, ShardsAssumption DEF Shards
  <2>2. CASE index # N - 1 /\ stage' = stage /\ index' = index + 1
    BY <1>1, <1>2, <2>2, PhaseOfLoopNext, ShardsAssumption DEF SeqDelivered, Shards
  <2> QED BY <2>1, <2>2, Advances DEF SeqDelivered
<1>5. phase' = [phase EXCEPT ![index] = "execute"]
  BY <1>1, <1>4, PhaseMoves
<1> QED BY <1>3, <1>5, SameDeliver DEF shardVars, Rounds!shardVars, Rounds!StartExecuting, SeqDelivered

LEMMA ExecuteRefines ==
  ASSUME LoopInv, LoopInv', Next, SeqExecute
  PROVE  Rounds!ExecuteOne(index) \/ Rounds!RunOne(index)
<1>1. index \in Shards /\ \A s \in Shards : raised[s] = NoError
  BY Running DEF LoopInv
<1>2. phase[index] = "execute"
  BY <1>1, PhaseOfLoop, ShardsAssumption DEF SeqExecute, Shards
<1>3. CASE Step(index, window)
  <2>1. \A t \in Shards \ {index} : raised'[t] = NoError
    BY <1>1, <1>3, RaisedDomain DEF LoopInv
  <2>2. \A s \in Shards : phase'[s] =
          IF s = index THEN IF raised'[index] # NoError THEN "halted" ELSE "execute" ELSE phase[s]
    BY <1>1, <1>2, <2>1, PhaseOfLoop, PhaseOfLoopNext DEF SeqExecute, seqVars
  <2>3. phase' = [phase EXCEPT ![index] = IF raised'[index] # NoError THEN "halted" ELSE "execute"]
    BY <1>1, <2>2, PhaseMoves
  <2> QED BY <1>2, <1>3, <2>3, SameConstants, SameStep
          DEF Rounds!ExecuteOne, Rounds!Proceed, SeqExecute, seqVars
<1>4. CASE RunBody(index)
  <2>1. raised' = raised
    BY <1>4 DEF RunBody, RunSchedule, RunSend, RunFailure
  <2>2. phase' = phase
    BY <2>1 DEF phase, PhaseOf, SeqExecute, seqVars
  <2> QED BY <1>2, <1>4, <2>2, SameBody DEF Rounds!RunOne, Rounds!roundVars, SeqExecute, seqVars
<1> QED BY <1>3, <1>4 DEF SeqExecute

LEMMA ExecutedRefines ==
  ASSUME LoopInv, LoopInv', Next, SeqExecuted
  PROVE  Rounds!CompleteWindow(index)
<1>1. index \in Shards /\ \A s \in Shards : raised[s] = NoError /\ raised'[s] = NoError
  BY Running DEF LoopInv, SeqExecuted, shardVars
<1>2. \A s \in Shards : phase[s] = IF s < index THEN "complete" ELSE "execute"
  BY <1>1, PhaseOfLoop DEF SeqExecuted
<1>3. phase[index] = "execute"
  BY <1>1, <1>2, ShardsAssumption DEF Shards
<1>4. \A s \in Shards : phase'[s] = IF s = index THEN "complete" ELSE phase[s]
  <2>1. CASE index = N - 1 /\ stage' = "again" /\ index' = 0
    BY <1>1, <1>2, <2>1, PhaseOfLoopNext, ShardsAssumption DEF Shards
  <2>2. CASE index # N - 1 /\ stage' = stage /\ index' = index + 1
    BY <1>1, <1>2, <2>2, PhaseOfLoopNext, ShardsAssumption DEF SeqExecuted, Shards
  <2> QED BY <2>1, <2>2, Advances DEF SeqExecuted
<1>5. phase' = [phase EXCEPT ![index] = "complete"]
  BY <1>1, <1>4, PhaseMoves
<1> QED BY <1>3, <1>5, SameDeliver DEF shardVars, Rounds!shardVars, Rounds!CompleteWindow, SeqExecuted

LEMMA AgainRefines ==
  ASSUME LoopInv, LoopInv', Next, SeqAgain
  PROVE  Rounds!NextRound
<1>1. \A s \in Shards : raised[s] = NoError /\ raised'[s] = NoError /\ phase[s] = "complete"
  BY Running, PhaseOfLoop DEF SeqAgain, shardVars
<1>2. \A s \in Shards : phase'[s] = "gather"
  BY <1>1, PhaseOfLoopNext, ShardsAssumption DEF SeqAgain, LoopInv, Shards
<1>3. phase' = [s \in Shards |-> "gather"]
  BY <1>2, PhasesMove
<1> QED BY <1>1, <1>3, SameConstants DEF shardVars, Rounds!shardVars, Rounds!NextRound, Rounds!All, SeqAgain

LEMMA StepRefines ==
  ASSUME LoopInv, LoopInv', [Next]_vars
  PROVE  [Rounds!Next]_(Rounds!vars)
<1>1. CASE Next
  <2>1. index \in Rounds!Shards
    BY SameConstants DEF LoopInv
  <2>2. \/ SeqBuild \/ SeqWire \/ SeqBound \/ SeqStop \/ SeqWindow
        \/ SeqDeliver \/ SeqDelivered \/ SeqExecute \/ SeqExecuted \/ SeqAgain
    BY <1>1 DEF Next
  <2>3. \/ Rounds!ShardAction(index)
        \/ Rounds!Wire \/ Rounds!DecideStop \/ Rounds!DecideWindow \/ Rounds!NextRound
    BY <1>1, <2>2, BuildRefines, WireRefines, BoundRefines, StopRefines, WindowRefines,
       DeliverRefines, DeliveredRefines, ExecuteRefines, ExecutedRefines, AgainRefines
       DEF Rounds!ShardAction
  <2> QED BY <2>1, <2>3 DEF Rounds!Next
<1>2. CASE UNCHANGED vars
  <2>1. UNCHANGED <<shardVars, stage, index, raised, bounds, horizon, window, syncError>>
    BY <1>2 DEF vars, seqVars, shardVars
  <2>2. phase' = phase
    BY <2>1 DEF phase, PhaseOf
  <2>3. UNCHANGED Rounds!vars
    BY <2>1, <2>2 DEF shardVars, Rounds!shardVars, Rounds!vars, Rounds!roundVars
  <2> QED BY <2>3
<1> QED BY <1>1, <1>2

\* run_sequential is an implementation of the safe-window algorithm: every
\* step of its loops, for every number of shards and every model, is a step
\* that PdesRounds allows.
THEOREM SequentialImplementsRounds == Spec => ImplementsRounds
<1>1. Init => LoopInv /\ Rounds!Init
  BY LoopInit, InitRefines
<1>2. LoopInv /\ [Next]_vars => LoopInv'
  BY LoopStep
<1>3. LoopInv /\ LoopInv' /\ [Next]_vars => [Rounds!Next]_(Rounds!vars)
  BY StepRefines
<1> QED BY <1>1, <1>2, <1>3, PTL DEF Spec, ImplementsRounds, Rounds!Spec
=============================================================================
