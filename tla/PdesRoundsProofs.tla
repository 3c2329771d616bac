--------------------------- MODULE PdesRoundsProofs ---------------------------
(***************************************************************************)
(* The safe-window algorithm is safe for every number of shards, every     *)
(* topology and every model: an inductive invariant of PdesRounds and the  *)
(* theorems that follow from it.                                           *)
(***************************************************************************)
EXTENDS PdesRounds, PdesShardProofs

\* No lookahead is absorbed by the time it is added to: what the horizon needs
\* of the arithmetic.  It holds of exact arithmetic, and not always of doubles.
StrictLookahead ==
  \A t \in Times \ {Infinity}, c \in Channels : Plus(t, Lookahead[c]) > t

-----------------------------------------------------------------------------
(* Type correctness. *)

\* A failing operation names the event it belongs to.
BodyHasEvent == \A s \in Shards : body[s] # <<>> => trace[s] # <<>>

TypeInv == TypeOK /\ BodyHasEvent

\* The decision's minima are taken over reported times.
LEMMA DecisionTypes ==
  ASSUME TypeOK
  PROVE  /\ NextMin(bounds) \in Times /\ \A s \in Shards : NextMin(bounds) <= bounds[s].next
         /\ Horizon(bounds) \in Times /\ \A s \in Shards : Horizon(bounds) <= bounds[s].bound
         /\ \E s \in Shards : Horizon(bounds) = bounds[s].bound
<1> DEFINE nexts == {bounds[s].next : s \in Shards}
           limits == {bounds[s].bound : s \in Shards}
<1>1. 0 \in Shards
  BY ShardsAssumption DEF Shards
<1>2. nexts \subseteq Times /\ limits \subseteq Times /\ nexts # {} /\ limits # {}
  BY <1>1 DEF TypeOK
<1>3. Times \subseteq Nat
  BY DEF Times
<1>4. NextMin(bounds) = Min(nexts) /\ Horizon(bounds) = Min(limits)
  BY DEF NextMin, Horizon
<1> HIDE DEF nexts, limits
<1>5. Min(nexts) \in nexts /\ \A y \in nexts : Min(nexts) <= y
  BY <1>2, <1>3, MinIsLeast
<1>6. Min(limits) \in limits /\ \A y \in limits : Min(limits) <= y
  BY <1>2, <1>3, MinIsLeast
<1>7. NextMin(bounds) \in Times /\ \A s \in Shards : NextMin(bounds) <= bounds[s].next
  BY <1>2, <1>4, <1>5 DEF nexts
<1>8. Horizon(bounds) \in Times /\ \A s \in Shards : Horizon(bounds) <= bounds[s].bound
  BY <1>2, <1>4, <1>6 DEF limits
<1>9. \E s \in Shards : Horizon(bounds) = bounds[s].bound
  BY <1>4, <1>6 DEF limits
<1> QED BY <1>7, <1>8, <1>9

\* The window of a decision is the smaller of the horizon and Until.
LEMMA WindowType ==
  ASSUME NEW h \in Times
  PROVE  Min({h, Until}) \in Times /\ Min({h, Until}) = IF h <= Until THEN h ELSE Until
<1>1. h \in Nat /\ Until \in Nat
  BY TimeAssumption, UntilAssumption DEF Times
<1> QED BY <1>1, MinOfTwo, TimeAssumption, UntilAssumption

\* The initial state is well-typed.
LEMMA TypeInit == Init => TypeInv
<1>1. 0 \in Times
  BY TimeAssumption, RoundAssumption DEF Times
<1>2. ASSUME Init PROVE ShardTypeOK
  BY <1>1, <1>2 DEF Init, ShardInit, ShardTypeOK, Errors
<1>3. ASSUME Init PROVE /\ phase \in [Shards -> Phases]
                        /\ bounds \in [Shards -> [next : Times, bound : Times]]
                        /\ horizon \in Times \cup {-1} /\ window \in Times /\ syncError \in BOOLEAN
  BY <1>1, <1>3 DEF Init, Phases
<1>4. ASSUME Init PROVE BodyHasEvent
  BY <1>4 DEF Init, ShardInit, BodyHasEvent
<1> QED BY <1>2, <1>3, <1>4 DEF TypeInv, TypeOK

\* Whatever a shard's operation does, it is well-typed and belongs to an event.
LEMMA RunBodyType ==
  ASSUME TypeInv, NEW s \in Shards, RunBody(s)
  PROVE  ShardTypeOK' /\ BodyHasEvent'
<1>1. body[s] # <<>> /\ trace[s] # <<>>
  BY DEF RunBody, RunSchedule, RunSend, RunFailure, TypeInv, BodyHasEvent
<1>2. ShardTypeOK'
  BY <1>1, RunScheduleType, RunSendType, RunFailureType DEF RunBody, TypeInv, TypeOK
<1>3. trace' = trace /\ \A t \in Shards \ {s} : body'[t] = body[t]
  BY DEF RunBody, RunSchedule, RunSend, RunFailure, TypeInv, TypeOK, ShardTypeOK
<1>4. BodyHasEvent'
  BY <1>1, <1>3 DEF TypeInv, BodyHasEvent
<1> QED BY <1>2, <1>4

\* Every step of the algorithm keeps its state well-typed.
LEMMA TypeStep ==
  ASSUME TypeInv, [Next]_vars
  PROVE  TypeInv'
<1> USE DEF TypeInv
<1>1. ASSUME NEW s \in Shards, BuildShard(s) PROVE TypeInv'
  <2>1. ShardTypeOK'
    BY <1>1, BuildType DEF BuildShard, TypeOK
  <2> QED BY <1>1, <2>1 DEF BuildShard, Build, Proceed, TypeOK, Phases, BodyHasEvent
<1>2. ASSUME NEW s \in Shards, Report(s) PROVE TypeInv'
  <2>1. Bound(s) \in [next : Times, bound : Times]
    BY BoundType DEF TypeOK
  <2>2. pending' \in [Shards -> SUBSET Message] /\ mail' \in [Channels -> SUBSET Message]
    BY <1>2, AbsorbType DEF Report, TypeOK
  <2>3. ShardTypeOK'
    BY <1>2, <2>2 DEF Report, TypeOK, ShardTypeOK
  <2> QED BY <1>2, <2>1, <2>3 DEF Report, TypeOK, Phases, BodyHasEvent
<1>3. ASSUME NEW s \in Shards, DeliverOne(s) PROVE TypeInv'
  <2>1. ShardTypeOK'
    BY <1>3, DeliverType DEF DeliverOne, TypeOK
  <2>2. UNCHANGED <<body, trace>>
    BY <1>3 DEF DeliverOne, Deliver
  <2>3. phase' \in [Shards -> Phases]
    BY <1>3 DEF DeliverOne, Proceed, TypeOK, Phases
  <2> QED BY <1>3, <2>1, <2>2, <2>3 DEF DeliverOne, TypeOK, BodyHasEvent
<1>4. ASSUME NEW s \in Shards, StartExecuting(s) PROVE TypeInv'
  BY <1>4 DEF StartExecuting, shardVars, TypeOK, ShardTypeOK, Phases, BodyHasEvent
<1>5. ASSUME NEW s \in Shards, ExecuteOne(s) PROVE TypeInv'
  <2>1. ShardTypeOK'
    BY <1>5, StepType DEF ExecuteOne, TypeOK
  <2>2. phase' \in [Shards -> Phases]
    BY <1>5 DEF ExecuteOne, Proceed, TypeOK, Phases
  <2>3. PICK e \in heap[s] : trace' = [trace EXCEPT ![s] = Append(@, e)]
    BY <1>5 DEF ExecuteOne, Step
  <2>4. trace'[s] # <<>>
    <3>1. e \in Event /\ trace[s] \in Seq(Event) /\ trace'[s] = Append(trace[s], e)
      BY <2>3 DEF TypeOK, ShardTypeOK
    <3> QED BY <3>1
  <2>5. \A t \in Shards \ {s} : body'[t] = body[t] /\ trace'[t] = trace[t]
    BY <1>5 DEF ExecuteOne, Step, TypeOK, ShardTypeOK
  <2> QED BY <1>5, <2>1, <2>2, <2>4, <2>5 DEF ExecuteOne, TypeOK, BodyHasEvent
<1>6. ASSUME NEW s \in Shards, RunOne(s) PROVE TypeInv'
  BY <1>6, RunBodyType DEF RunOne, roundVars, TypeOK
<1>7. ASSUME NEW s \in Shards, CompleteWindow(s) PROVE TypeInv'
  BY <1>7 DEF CompleteWindow, shardVars, TypeOK, ShardTypeOK, Phases, BodyHasEvent
<1>8. ASSUME NEW s \in Shards, Halt(s) PROVE TypeInv'
  BY <1>8 DEF Halt, shardVars, TypeOK, ShardTypeOK, Phases, BodyHasEvent
<1>9. CASE Wire
  BY <1>9 DEF Wire, shardVars, TypeOK, ShardTypeOK, Phases, BodyHasEvent
<1>10. CASE DecideStop
  BY <1>10, DecisionTypes, TimeAssumption, UntilAssumption
     DEF DecideStop, shardVars, TypeOK, ShardTypeOK, Phases, BodyHasEvent
<1>11. CASE DecideWindow
  BY <1>11, DecisionTypes, WindowType
     DEF DecideWindow, shardVars, TypeOK, ShardTypeOK, Phases, BodyHasEvent
<1>12. CASE NextRound
  BY <1>12 DEF NextRound, shardVars, TypeOK, ShardTypeOK, Phases, BodyHasEvent
<1>13. CASE UNCHANGED vars
  BY <1>13 DEF vars, shardVars, roundVars, TypeOK, ShardTypeOK, BodyHasEvent
<1> QED BY <1>1, <1>2, <1>3, <1>4, <1>5, <1>6, <1>7, <1>8, <1>9, <1>10, <1>11, <1>12, <1>13
        DEF Next, ShardAction, Over

\* The state of the rounds is well-typed in every model, topology and arithmetic.
THEOREM RoundsTypeCorrect == Spec => []TypeOK
<1>1. Init => TypeInv
  BY TypeInit
<1>2. TypeInv /\ [Next]_vars => TypeInv'
  BY TypeStep
<1>3. TypeInv => TypeOK
  BY DEF TypeInv
<1> QED BY <1>1, <1>2, <1>3, PTL DEF Spec

-----------------------------------------------------------------------------
(* The inductive invariant. *)

\* Shards are never in different stages of a round.
PhasesTogether ==
  \/ \A s \in Shards : phase[s] \in {"build", "built", "halted"}
  \/ \A s \in Shards : phase[s] \in {"gather", "reported", "halted"}
  \/ \A s \in Shards : phase[s] \in {"deliver", "execute", "complete", "halted"}
  \/ \A s \in Shards : phase[s] \in {"stopped", "halted"}

\* Operations are performed by an event of this window.
BodyIsRunning ==
  \A s \in Shards : body[s] # <<>> =>
    phase[s] = "execute" /\ bounds[s].next <= now[s]

OwnChannels ==
  \A s \in Shards : \A i \in DOMAIN body[s] :
    body[s][i].op = "send" => Sender[body[s][i].channel] = s

\* A shard's clock is behind all its work and inside the window.
ClockOrder ==
  \A s \in Shards :
    /\ phase[s] = "build" => now[s] = 0 /\ window = 0
    /\ now[s] <= window
    /\ \A e \in heap[s] : now[s] <= e.time
    /\ \A m \in pending[s] : now[s] <= m.timestamp

\* Work outside the window: mail always, the rest unless the shard is
\* still working the window off.
MailOutside == \A c \in Channels : \A m \in mail[c] : window <= m.timestamp

PendingOutside ==
  \A s \in Shards : phase[s] \notin {"deliver", "halted"} =>
    \A m \in pending[s] : window <= m.timestamp

HeapOutside ==
  \A s \in Shards : phase[s] \in {"built", "gather", "reported", "complete"} =>
    \A e \in heap[s] : window <= e.time

\* A shard that has reported has no mail, and none arrives until the decision.
Drained == \A s \in Shards : phase[s] = "reported" => Inflight(s) = {}

\* What a shard has reported stays a bound on its work for the whole round.
BoundsHold ==
  \A s \in Shards : phase[s] \in {"reported", "deliver", "execute"} =>
    /\ bounds[s].bound = Plus(bounds[s].next, MinLookahead(s))
    /\ \A e \in heap[s] : bounds[s].next <= e.time
    /\ \A m \in pending[s] : bounds[s].next <= m.timestamp
    /\ phase[s] = "reported" => window <= bounds[s].next
    /\ phase[s] \in {"deliver", "execute"} => window <= bounds[s].bound

\* The window is the last horizon, cut off at the end of the run.
WindowOfHorizon ==
  \/ horizon = -1 /\ window = 0
  \/ horizon >= 0 /\ window = Min({horizon, Until})

\* An exception ends its shard, and is never a causality violation.
NoCausality ==
  \A s \in Shards :
    /\ raised[s] # NoError => phase[s] = "halted"
    /\ raised[s] # "causality"
    /\ \A e \in heap[s] : e.error # "causality"

\* The inductive invariant of the safe-window algorithm: where each shard's
\* clock, events and messages are, relative to the window that run_sequential
\* and run_threaded have last opened, in every phase of a round.
IInv ==
  /\ TypeInv
  /\ PhasesTogether
  /\ BodyIsRunning
  /\ OwnChannels
  /\ ClockOrder
  /\ MailOutside
  /\ PendingOutside
  /\ HeapOutside
  /\ Drained
  /\ BoundsHold
  /\ WindowOfHorizon
  /\ NoCausality
  /\ NothingLeftBehind

\* Times of work, and the two cases of the window, in plain arithmetic.
LEMMA WorkTimes ==
  ASSUME TypeOK, NEW s \in Shards
  PROVE  /\ now[s] \in Nat
         /\ \A e \in heap[s] : e \in Event /\ e.time \in Nat
         /\ \A m \in pending[s] : m \in Message /\ m.timestamp \in Nat
         /\ \A c \in Channels : \A m \in mail[c] : m \in Message /\ m.timestamp \in Nat
<1>1. \A e \in Event : e.time \in Nat
  BY DEF Event, Times
<1>2. \A m \in Message : m.timestamp \in Nat
  BY DEF Message, Times
<1> QED BY <1>1, <1>2 DEF TypeOK, ShardTypeOK, Times

LEMMA WindowCases ==
  ASSUME IInv
  PROVE  /\ window \in Nat /\ Until \in Nat /\ window <= Until
         /\ \/ horizon = -1 /\ window = 0
            \/ horizon \in Nat /\ window = IF horizon <= Until THEN horizon ELSE Until
<1>1. window \in Nat /\ Until \in Nat /\ horizon \in Nat \cup {-1} /\ 0 <= Until
  BY TimeAssumption, UntilAssumption DEF IInv, TypeInv, TypeOK, Times
<1>2. CASE horizon = -1 /\ window = 0
  BY <1>1, <1>2
<1>3. CASE horizon >= 0 /\ window = Min({horizon, Until})
  <2>1. horizon \in Nat
    BY <1>1, <1>3
  <2>2. window = IF horizon <= Until THEN horizon ELSE Until
    BY <1>1, <1>3, <2>1, MinOfTwo
  <2> QED BY <1>1, <2>1, <2>2
<1> QED BY <1>2, <1>3 DEF IInv, WindowOfHorizon

LEMMA InvInit == Init => IInv
<1> SUFFICES ASSUME Init PROVE IInv
  OBVIOUS
<1>1. TypeInv
  BY TypeInit
<1>2. PhasesTogether /\ BodyIsRunning /\ OwnChannels /\ PendingOutside /\ HeapOutside
        /\ Drained /\ BoundsHold /\ WindowOfHorizon
  BY DEF Init, ShardInit, PhasesTogether, BodyIsRunning, OwnChannels, PendingOutside,
         HeapOutside, Drained, BoundsHold, WindowOfHorizon
<1>3. ClockOrder /\ MailOutside /\ NoCausality /\ NothingLeftBehind
  BY DEF Init, ShardInit, ClockOrder, MailOutside, NoCausality, NothingLeftBehind, NoError
<1> QED BY <1>1, <1>2, <1>3 DEF IInv

\* Steps that only move phases.
LEMMA StartExecutingInv ==
  ASSUME IInv, NEW s \in Shards, StartExecuting(s), TypeInv'
  PROVE  IInv'
<1> USE DEF IInv, StartExecuting, shardVars
<1>1. \A t \in Shards : phase'[t] = IF t = s THEN "execute" ELSE phase[t]
  BY DEF TypeInv, TypeOK
<1>2. PhasesTogether'
  BY <1>1 DEF PhasesTogether
<1>3. BodyIsRunning' /\ OwnChannels' /\ ClockOrder' /\ MailOutside' /\ NoCausality' /\ WindowOfHorizon'
  BY <1>1 DEF BodyIsRunning, OwnChannels, ClockOrder, MailOutside, NoCausality, WindowOfHorizon
<1>4. PendingOutside'
  BY <1>1 DEF PendingOutside, DeliveredBelow, TypeInv, TypeOK, ShardTypeOK, Message, Times
<1>5. HeapOutside' /\ Drained'
  BY <1>1 DEF HeapOutside, Drained, Inflight
<1>6. BoundsHold'
  BY <1>1 DEF BoundsHold
<1>7. NothingLeftBehind'
  BY <1>1 DEF NothingLeftBehind, Inflight, ExecutedBelow
<1> QED BY <1>2, <1>3, <1>4, <1>5, <1>6, <1>7

LEMMA CompleteWindowInv ==
  ASSUME IInv, NEW s \in Shards, CompleteWindow(s), TypeInv'
  PROVE  IInv'
<1> USE DEF IInv, CompleteWindow, shardVars
<1>1. \A t \in Shards : phase'[t] = IF t = s THEN "complete" ELSE phase[t]
  BY DEF TypeInv, TypeOK
<1>2. PhasesTogether'
  BY <1>1 DEF PhasesTogether
<1>3. BodyIsRunning' /\ OwnChannels' /\ ClockOrder' /\ MailOutside' /\ NoCausality' /\ WindowOfHorizon'
  BY <1>1 DEF BodyIsRunning, OwnChannels, ClockOrder, MailOutside, NoCausality, WindowOfHorizon,
              ExecutedBelow
<1>4. PendingOutside' /\ Drained' /\ BoundsHold'
  BY <1>1 DEF PendingOutside, Drained, BoundsHold, Inflight
<1>5. HeapOutside'
  BY <1>1 DEF HeapOutside, ExecutedBelow, TypeInv, TypeOK, ShardTypeOK, Event, Times
<1>6. NothingLeftBehind'
  BY <1>1 DEF NothingLeftBehind, Inflight, ExecutedBelow
<1> QED BY <1>2, <1>3, <1>4, <1>5, <1>6

LEMMA HaltInv ==
  ASSUME IInv, NEW s \in Shards, Halt(s), TypeInv'
  PROVE  IInv'
<1> USE DEF IInv, Halt, shardVars
<1>1. \A t \in Shards : phase'[t] = IF t = s THEN "halted" ELSE phase[t]
  BY DEF TypeInv, TypeOK
<1>2. PhasesTogether'
  BY <1>1 DEF PhasesTogether
<1>3. BodyIsRunning' /\ OwnChannels' /\ ClockOrder' /\ MailOutside' /\ NoCausality' /\ WindowOfHorizon'
  BY <1>1 DEF BodyIsRunning, OwnChannels, ClockOrder, MailOutside, NoCausality, WindowOfHorizon
<1>4. PendingOutside' /\ HeapOutside' /\ Drained' /\ BoundsHold'
  BY <1>1 DEF PendingOutside, HeapOutside, Drained, BoundsHold, Inflight
<1>5. NothingLeftBehind'
  BY <1>1 DEF NothingLeftBehind, Inflight, ExecutedBelow
<1> QED BY <1>2, <1>3, <1>4, <1>5

LEMMA WireInv ==
  ASSUME IInv, Wire, TypeInv'
  PROVE  IInv'
<1> USE DEF IInv, Wire, shardVars
<1>1. CASE program.miswired
  BY <1>1 DEF All, PhasesTogether, BodyIsRunning, OwnChannels, ClockOrder, MailOutside,
              PendingOutside, HeapOutside, Drained, Inflight, BoundsHold, WindowOfHorizon,
              NoCausality, NothingLeftBehind, ExecutedBelow
<1>2. CASE ~ program.miswired
  <2>1. \A s \in Shards : phase[s] = "built" /\ phase'[s] = "gather"
    BY <1>2 DEF All
  <2>2. PhasesTogether' /\ BodyIsRunning' /\ OwnChannels' /\ ClockOrder' /\ MailOutside'
          /\ NoCausality' /\ WindowOfHorizon'
    BY <2>1 DEF PhasesTogether, BodyIsRunning, OwnChannels, ClockOrder, MailOutside,
                NoCausality, WindowOfHorizon
  <2>3. PendingOutside' /\ HeapOutside' /\ Drained' /\ BoundsHold' /\ NothingLeftBehind'
    BY <2>1 DEF PendingOutside, HeapOutside, Drained, BoundsHold, NothingLeftBehind
  <2> QED BY <2>2, <2>3
<1> QED BY <1>1, <1>2

LEMMA NextRoundInv ==
  ASSUME IInv, NextRound, TypeInv'
  PROVE  IInv'
<1> USE DEF IInv, NextRound, shardVars
<1>1. \A s \in Shards : phase[s] = "complete" /\ phase'[s] = "gather"
  BY DEF All
<1>2. PhasesTogether' /\ BodyIsRunning' /\ OwnChannels' /\ ClockOrder' /\ MailOutside'
        /\ NoCausality' /\ WindowOfHorizon'
  BY <1>1 DEF PhasesTogether, BodyIsRunning, OwnChannels, ClockOrder, MailOutside,
              NoCausality, WindowOfHorizon
<1>3. PendingOutside' /\ HeapOutside' /\ Drained' /\ BoundsHold' /\ NothingLeftBehind'
  BY <1>1 DEF PendingOutside, HeapOutside, Drained, BoundsHold, NothingLeftBehind
<1> QED BY <1>2, <1>3

\* A builder's events are not before the start of the simulation.
LEMMA BuildShardInv ==
  ASSUME IInv, NEW s \in Shards, BuildShard(s), TypeInv'
  PROVE  IInv'
<1> USE DEF IInv, BuildShard
<1>1. \A t \in Shards : phase'[t] = IF t = s THEN IF raised'[s] # NoError THEN "halted" ELSE "built"
                                             ELSE phase[t]
  BY DEF TypeInv, TypeOK, Proceed
<1>2. /\ \A t \in Shards : phase[t] \in {"build", "built", "halted"}
      /\ now[s] = 0 /\ window = 0
  BY DEF PhasesTogether, ClockOrder
<1>3. UNCHANGED <<program, now, pending, mail, sequence, body, trace, bounds, horizon, window>>
  BY DEF Build
<1>4. \A t \in Shards \ {s} : heap'[t] = heap[t] /\ raised'[t] = raised[t]
  BY DEF Build, TypeInv, TypeOK, ShardTypeOK
<1>5. \A t \in Shards : \A e \in heap'[t] : e.time \in Nat
  BY DEF TypeInv, TypeOK, ShardTypeOK, Event, Times
<1>6. raised'[s] # "causality" /\ \A e \in heap'[s] : e.error # "causality"
  <2>1. CASE program.builder[s] = NoError
    <3>1. raised' = raised
      BY <2>1 DEF Build
    <3>2. heap'[s] = {[time |-> Plus(0, program.boot[s][i].delay), prio |-> program.boot[s][i].prio,
                       eid |-> i - 1, label |-> program.boot[s][i].label,
                       origin |-> {}, error |-> NoError] : i \in DOMAIN program.boot[s]}
      BY <2>1 DEF Build, TypeInv, TypeOK, ShardTypeOK
    <3>3. \A e \in heap'[s] : e.error = NoError
      BY <3>2
    <3> QED BY <3>1, <3>3 DEF NoCausality, NoError
  <2>2. CASE program.builder[s] # NoError
    <3>1. program \in Program
      BY ProgramAssumption DEF TypeInv, TypeOK, ShardTypeOK
    <3>2. program.builder[s] # "causality"
      BY <3>1 DEF Program, NoError
    <3>3. raised'[s] = program.builder[s] /\ heap' = heap
      BY <2>2 DEF Build, TypeInv, TypeOK, ShardTypeOK
    <3> QED BY <3>2, <3>3 DEF NoCausality
  <2> QED BY <2>1, <2>2
<1>7. PhasesTogether' /\ BodyIsRunning' /\ OwnChannels' /\ MailOutside' /\ WindowOfHorizon'
  BY <1>1, <1>2, <1>3 DEF PhasesTogether, BodyIsRunning, OwnChannels, MailOutside, WindowOfHorizon
<1>8. ClockOrder' /\ PendingOutside' /\ HeapOutside'
  BY <1>1, <1>2, <1>3, <1>4, <1>5 DEF ClockOrder, PendingOutside, HeapOutside
<1>9. Drained' /\ BoundsHold' /\ NothingLeftBehind'
  BY <1>1, <1>2, <1>3 DEF Drained, BoundsHold, NothingLeftBehind
<1>10. NoCausality'
  BY <1>1, <1>4, <1>6 DEF NoCausality
<1> QED BY <1>7, <1>8, <1>9, <1>10

\* A report drains the mail and covers all work of the shard.
LEMMA ReportInv ==
  ASSUME IInv, NEW s \in Shards, Report(s), TypeInv'
  PROVE  IInv'
<1> USE DEF IInv, Report
<1>1. \A t \in Shards : phase'[t] = IF t = s THEN "reported" ELSE phase[t]
  BY DEF TypeInv, TypeOK
<1>2. /\ bounds'[s] = Bound(s)
      /\ pending'[s] = pending[s] \cup Inflight(s)
      /\ \A t \in Shards \ {s} : bounds'[t] = bounds[t] /\ pending'[t] = pending[t]
      /\ \A c \in Channels : mail'[c] \subseteq mail[c]
      /\ Inflight(s)' = {}
  BY DEF TypeInv, TypeOK, ShardTypeOK, Absorb, Inflight, Inbound
<1>3. \A t \in Shards : Inflight(t)' \subseteq Inflight(t)
  BY <1>2 DEF Inflight, Inbound
<1>4. \A m \in Inflight(s) : window <= m.timestamp
  BY DEF MailOutside, Inflight, Inbound
<1>5. window <= NextTime(s) /\ NextTime(s) \in Times
  <2>1. \A e \in heap[s] : window <= e.time
    BY DEF HeapOutside
  <2>2. \A m \in pending[s] : window <= m.timestamp
    BY DEF PendingOutside
  <2> QED BY <1>4, <2>1, <2>2, BoundType DEF TypeInv, TypeOK
<1>6. PhasesTogether' /\ BodyIsRunning' /\ OwnChannels' /\ WindowOfHorizon' /\ NoCausality' /\ HeapOutside'
  BY <1>1, <1>2 DEF PhasesTogether, BodyIsRunning, OwnChannels, WindowOfHorizon, NoCausality, HeapOutside
<1>7. MailOutside' /\ PendingOutside'
  BY <1>1, <1>2, <1>4 DEF MailOutside, PendingOutside
<1>8. ClockOrder'
  <2>1. \A m \in Inflight(s) : now[s] <= m.timestamp
    <3>1. now[s] \in Nat /\ window \in Nat /\ now[s] <= window
      BY WorkTimes, WindowCases DEF TypeInv, ClockOrder
    <3>2. \A m \in Inflight(s) : m.timestamp \in Nat
      BY WorkTimes DEF TypeInv, Inflight, Inbound
    <3> QED BY <1>4, <3>1, <3>2
  <2> QED BY <1>1, <1>2, <2>1 DEF ClockOrder
<1>9. Drained'
  BY <1>1, <1>2, <1>3 DEF Drained
<1>10. BoundsHold'
  <2>1. /\ bounds'[s].bound = Plus(bounds'[s].next, MinLookahead(s))
        /\ bounds'[s].next = NextTime(s)
    BY <1>2 DEF Bound
  <2>2. /\ \A e \in heap[s] : NextTime(s) <= e.time
        /\ \A m \in pending[s] \cup Inflight(s) : NextTime(s) <= m.timestamp
    BY BoundType DEF TypeInv, TypeOK
  <2>3. \A m \in pending'[s] : NextTime(s) <= m.timestamp
    BY <1>2, <2>2
  <2> QED BY <2>3, <1>1, <1>2, <1>5, <2>1, <2>2 DEF BoundsHold
<1>11. NothingLeftBehind'
  BY <1>1, <1>2, <1>3 DEF NothingLeftBehind, ExecutedBelow
<1> QED BY <1>6, <1>7, <1>8, <1>9, <1>10, <1>11

\* A decision is taken when no mail is on its way.
LEMMA AllReported ==
  ASSUME IInv, All("reported")
  PROVE  /\ \A s \in Shards : phase[s] = "reported" /\ body[s] = <<>> /\ Inflight(s) = {}
         /\ \A c \in Channels : mail[c] = {}
<1>1. \A s \in Shards : phase[s] = "reported" /\ body[s] = <<>> /\ Inflight(s) = {}
  BY DEF All, IInv, BodyIsRunning, Drained
<1>2. ASSUME NEW c \in Channels PROVE mail[c] = {}
  <2>1. Receiver[c] \in Shards /\ c \in Inbound(Receiver[c])
    BY ChannelAssumption DEF Inbound
  <2>2. Inflight(Receiver[c]) = {}
    BY <1>1, <2>1
  <2> QED BY <2>1, <2>2 DEF Inflight
<1> QED BY <1>1, <1>2

\* A stop is decided when nothing is left below the end of the run.
LEMMA DecideStopInv ==
  ASSUME IInv, DecideStop, TypeInv'
  PROVE  IInv'
<1> USE DEF DecideStop, shardVars
<1>1. \A s \in Shards : phase'[s] = "stopped"
  OBVIOUS
<1>2. /\ \A s \in Shards : phase[s] = "reported" /\ body[s] = <<>> /\ Inflight(s) = {}
      /\ \A c \in Channels : mail[c] = {}
  BY AllReported
<1>3. TypeOK /\ Until \in Nat /\ Times \subseteq Nat
  BY TimeAssumption, UntilAssumption DEF IInv, TypeInv, Times
<1>4. \A s \in Shards : bounds[s].next \in Nat /\ Until <= bounds[s].next
  <2>1. NextMin(bounds) \in Nat /\ \A s \in Shards : NextMin(bounds) <= bounds[s].next
    BY <1>3, DecisionTypes
  <2>2. \A s \in Shards : bounds[s].next \in Nat
    BY <1>3 DEF TypeOK
  <2>3. Until <= NextMin(bounds)
    BY <1>3, <2>1
  <2> QED BY <1>3, <2>1, <2>2, <2>3
<1>5. \A s \in Shards : /\ \A e \in heap[s] : e.time \in Nat /\ Until <= e.time
                        /\ \A m \in pending[s] : m.timestamp \in Nat /\ Until <= m.timestamp
  <2>1. \A s \in Shards : /\ \A e \in heap[s] : e.time \in Nat
                          /\ \A m \in pending[s] : m.timestamp \in Nat
    BY <1>3, WorkTimes
  <2>2. \A s \in Shards : /\ \A e \in heap[s] : bounds[s].next <= e.time
                          /\ \A m \in pending[s] : bounds[s].next <= m.timestamp
    BY <1>2 DEF IInv, BoundsHold
  <2> QED BY <1>3, <1>4, <2>1, <2>2
<1>6. window' = Until /\ window <= Until
  BY WindowCases
<1>7. WindowOfHorizon'
  <2>1. Horizon(bounds) \in Nat /\ Horizon(bounds) \in Times
    BY <1>3, DecisionTypes
  <2>2. PICK s \in Shards : Horizon(bounds) = bounds[s].bound
    BY <1>3, DecisionTypes
  <2>3. bounds[s].bound = Plus(bounds[s].next, MinLookahead(s))
    BY <1>2 DEF IInv, BoundsHold
  <2>4. MinLookahead(s) \in Times /\ bounds[s].next \in Times
    BY <1>3, BoundType DEF TypeOK
  <2>5. bounds[s].next <= Plus(bounds[s].next, MinLookahead(s))
    BY <2>4, PlusIncreases
  <2>6. Until <= Horizon(bounds)
    BY <1>3, <1>4, <2>1, <2>2, <2>3, <2>5
  <2>7. Min({Horizon(bounds), Until}) = Until
    BY <1>3, <2>1, <2>6, WindowType
  <2> QED BY <2>1, <2>7 DEF WindowOfHorizon
<1>8. PhasesTogether' /\ BodyIsRunning' /\ OwnChannels' /\ MailOutside' /\ NoCausality'
  BY <1>1, <1>2 DEF IInv, PhasesTogether, BodyIsRunning, OwnChannels, MailOutside, NoCausality
<1>9. ClockOrder'
  <2>1. \A s \in Shards : now[s] \in Nat /\ now[s] <= window /\ window \in Nat
    BY <1>3 DEF IInv, ClockOrder, TypeOK, ShardTypeOK
  <2>2. \A s \in Shards : now[s] <= window'
    BY <1>3, <1>6, <2>1
  <2> QED BY <1>1, <2>2 DEF IInv, ClockOrder
<1>10. PendingOutside' /\ HeapOutside' /\ Drained' /\ BoundsHold'
  BY <1>1, <1>5, <1>6 DEF PendingOutside, HeapOutside, Drained, BoundsHold
<1>11. NothingLeftBehind'
  <2>1. \A s \in Shards : Inflight(s)' = {}
    BY <1>2 DEF Inflight
  <2> QED BY <1>2, <1>5, <2>1 DEF NothingLeftBehind, ExecutedBelow
<1> QED BY <1>7, <1>8, <1>9, <1>10, <1>11 DEF IInv

\* The window opens below every bound, and never moves back.
LEMMA DecideWindowInv ==
  ASSUME IInv, DecideWindow, TypeInv'
  PROVE  IInv'
<1> USE DEF DecideWindow, shardVars
<1>1. CASE Horizon(bounds) <= horizon
  BY <1>1 DEF IInv, PhasesTogether, BodyIsRunning, OwnChannels, ClockOrder, MailOutside,
              PendingOutside, HeapOutside, Drained, Inflight, BoundsHold, WindowOfHorizon,
              NoCausality, NothingLeftBehind, ExecutedBelow
<1>2. CASE ~ (Horizon(bounds) <= horizon)
  <2>1. /\ \A s \in Shards : phase[s] = "reported" /\ body[s] = <<>> /\ Inflight(s) = {}
        /\ \A c \in Channels : mail[c] = {}
    BY AllReported
  <2>2. \A s \in Shards : phase'[s] = "deliver"
    BY <1>2 DEF DecideWindow
  <2>3. TypeOK /\ Until \in Nat /\ Times \subseteq Nat
    BY TimeAssumption, UntilAssumption DEF IInv, TypeInv, Times
  <2>4. /\ Horizon(bounds) \in Times /\ Horizon(bounds) \in Nat
        /\ \A s \in Shards : Horizon(bounds) <= bounds[s].bound /\ bounds[s].bound \in Nat
    BY <2>3, DecisionTypes DEF TypeOK
  <2>5. window' = IF Horizon(bounds) <= Until THEN Horizon(bounds) ELSE Until
    BY <1>2, <2>4, WindowType
  <2>13. UNCHANGED <<program, now, heap, eid, pending, mail, sequence, body, trace, raised, bounds>>
    OBVIOUS
  <2> HIDE DEF DecideWindow
  <2>6. window <= window' /\ window \in Nat /\ window' \in Nat
    <3>1. CASE horizon = -1 /\ window = 0
      BY <2>3, <2>4, <2>5, <3>1
    <3>2. CASE horizon \in Nat /\ window = IF horizon <= Until THEN horizon ELSE Until
      BY <1>2, <2>3, <2>4, <2>5, <3>2
    <3> QED BY <3>1, <3>2, WindowCases
  <2>7. \A s \in Shards : window' <= bounds[s].bound
    BY <2>3, <2>4, <2>5
  <2>8. PhasesTogether' /\ BodyIsRunning' /\ OwnChannels' /\ MailOutside' /\ NoCausality'
    BY <2>1, <2>2, <2>13 DEF IInv, PhasesTogether, BodyIsRunning, OwnChannels, MailOutside, NoCausality
  <2>9. ClockOrder'
    <3>1. \A s \in Shards : now[s] \in Nat /\ now[s] <= window
      BY <2>3 DEF IInv, ClockOrder, TypeOK, ShardTypeOK
    <3>2. \A s \in Shards : now[s] <= window'
      BY <2>6, <3>1
    <3> QED BY <2>2, <2>13, <3>2 DEF IInv, ClockOrder
  <2>10. PendingOutside' /\ HeapOutside' /\ Drained' /\ NothingLeftBehind'
    BY <2>2 DEF PendingOutside, HeapOutside, Drained, NothingLeftBehind
  <2>11. BoundsHold'
    BY <2>1, <2>2, <2>7, <2>13 DEF IInv, BoundsHold
  <2>12. WindowOfHorizon'
    <3>1. horizon' = Horizon(bounds) /\ window' = Min({Horizon(bounds), Until})
      BY <1>2 DEF DecideWindow
    <3> QED BY <2>4, <3>1 DEF WindowOfHorizon
  <2> QED BY <2>8, <2>9, <2>10, <2>11, <2>12 DEF IInv
<1> QED BY <1>1, <1>2

-----------------------------------------------------------------------------
(* The steps of a shard's simulation. *)

\* Schedule adds one event to one heap.
LEMMA ScheduleEffect ==
  ASSUME ShardTypeOK, NEW s \in Shards, NEW delay, NEW prio, NEW label, NEW origin, NEW error,
         Schedule(s, delay, prio, label, origin, error)
  PROVE  /\ \E x : /\ heap'[s] = heap[s] \cup {x}
                   /\ x.time = Plus(now[s], delay) /\ x.error = error
         /\ \A t \in Shards \ {s} : heap'[t] = heap[t]
<1> DEFINE x == [time |-> Plus(now[s], delay), prio |-> prio, eid |-> eid[s],
                 label |-> label, origin |-> origin, error |-> error]
<1>1. heap' = [heap EXCEPT ![s] = @ \cup {x}]
  BY DEF Schedule
<1>2. x.time = Plus(now[s], delay) /\ x.error = error
  OBVIOUS
<1> HIDE DEF x
<1>3. heap'[s] = heap[s] \cup {x} /\ \A t \in Shards \ {s} : heap'[t] = heap[t]
  BY <1>1 DEF ShardTypeOK
<1> QED BY <1>2, <1>3

LEMMA SequenceParts ==
  ASSUME NEW R, NEW q \in Seq(R), q # <<>>
  PROVE  /\ 1 \in DOMAIN q /\ Head(q) = q[1]
         /\ \A i \in DOMAIN Tail(q) : i + 1 \in DOMAIN q /\ Tail(q)[i] = q[i + 1]
OBVIOUS

\* A pending message becomes an event at its stamp or later: before the
\* shard's clock it cannot be stamped.
LEMMA DeliverOneInv ==
  ASSUME NoEarlyArrival, IInv, NEW s \in Shards, DeliverOne(s), TypeInv'
  PROVE  IInv'
<1> USE DEF IInv
<1>1. TypeOK /\ ShardTypeOK /\ phase[s] = "deliver"
  BY DEF DeliverOne, TypeInv, TypeOK
<1>2. PICK m \in pending[s] :
        /\ pending' = [pending EXCEPT ![s] = @ \ {m}]
        /\ IF m.timestamp < now[s]
           THEN raised' = [raised EXCEPT ![s] = "causality"] /\ UNCHANGED <<heap, eid>>
           ELSE /\ Schedule(s, Minus(m.timestamp, now[s]), NORMAL, m.label, {m}, NoError)
                /\ UNCHANGED raised
  BY DEF DeliverOne, Deliver
<1>3. UNCHANGED <<program, now, mail, sequence, body, trace, bounds, horizon, window, syncError>>
  BY DEF DeliverOne, Deliver
<1>4. now[s] <= m.timestamp /\ now[s] \in Times /\ m.timestamp \in Times
      /\ now[s] \in Nat /\ m.timestamp \in Nat
  BY <1>1, WorkTimes DEF ClockOrder, ShardTypeOK, Message
<1>5. /\ Schedule(s, Minus(m.timestamp, now[s]), NORMAL, m.label, {m}, NoError)
      /\ UNCHANGED raised
  BY <1>2, <1>4
<1>6. PICK x : /\ heap'[s] = heap[s] \cup {x}
               /\ x.time = Plus(now[s], Minus(m.timestamp, now[s])) /\ x.error = NoError
  BY <1>1, <1>5, ScheduleEffect
<1>7. \A t \in Shards \ {s} : heap'[t] = heap[t] /\ pending'[t] = pending[t]
  BY <1>1, <1>2, <1>5, ScheduleEffect DEF ShardTypeOK
<1>8. pending'[s] \subseteq pending[s]
  BY <1>1, <1>2 DEF ShardTypeOK
<1>9. m.timestamp <= x.time /\ x.time \in Nat
  <2>1. m.timestamp <= x.time
    BY <1>4, <1>6 DEF NoEarlyArrival
  <2>2. x.time \in Nat
    <3>1. heap'[s] \in SUBSET Event /\ x \in heap'[s]
      BY <1>6 DEF TypeInv, TypeOK, ShardTypeOK
    <3>2. x \in Event
      BY <3>1
    <3> QED BY <3>2 DEF Event, Times
  <2> QED BY <2>1, <2>2
<1>10. phase'[s] \in {"deliver", "halted"} /\ \A t \in Shards \ {s} : phase'[t] = phase[t]
  BY <1>1 DEF DeliverOne, Proceed, TypeOK
<1>11. raised[s] = NoError /\ phase'[s] = "deliver"
  BY <1>1, <1>5 DEF NoCausality, DeliverOne, Proceed, TypeOK
<1>12. PhasesTogether' /\ BodyIsRunning' /\ OwnChannels' /\ MailOutside' /\ WindowOfHorizon'
  BY <1>1, <1>3, <1>10, <1>11 DEF PhasesTogether, BodyIsRunning, OwnChannels, MailOutside, WindowOfHorizon
<1>13. ClockOrder'
  <2>1. now[s] <= x.time
    BY <1>4, <1>9
  <2> QED BY <1>1, <1>3, <1>6, <1>7, <1>8, <1>11, <1>10, <2>1 DEF ClockOrder
<1>14. PendingOutside' /\ HeapOutside' /\ Drained'
  BY <1>3, <1>7, <1>8, <1>10, <1>11 DEF PendingOutside, HeapOutside, Drained, Inflight
<1>15. BoundsHold'
  <2>1. bounds[s].next <= x.time
    <3>1. bounds[s].next <= m.timestamp /\ bounds[s].next \in Nat
      BY <1>1 DEF BoundsHold, TypeOK, Times
    <3> QED BY <1>4, <1>9, <3>1
  <2> QED BY <1>1, <1>3, <1>6, <1>7, <1>8, <1>10, <1>11, <2>1 DEF BoundsHold
<1>16. NoCausality'
  BY <1>5, <1>6, <1>7, <1>10, <1>11 DEF NoCausality, NoError
<1>17. NothingLeftBehind'
  BY <1>1, <1>10, <1>11 DEF PhasesTogether, NothingLeftBehind
<1> QED BY <1>12, <1>13, <1>14, <1>15, <1>16, <1>17

\* Executing the earliest event below the window moves the clock to it.
LEMMA ExecuteOneInv ==
  ASSUME IInv, NEW s \in Shards, ExecuteOne(s), TypeInv'
  PROVE  IInv'
<1> USE DEF IInv
<1>1. TypeOK /\ ShardTypeOK /\ phase[s] = "execute" /\ body[s] = <<>> /\ raised[s] = NoError
  BY DEF ExecuteOne, Step, TypeInv, TypeOK, NoCausality
<1>2. PICK e \in heap[s] :
        /\ IsFirst(e, s)
        /\ e.time < window
        /\ now' = [now EXCEPT ![s] = e.time]
        /\ heap' = [heap EXCEPT ![s] = @ \ {e}]
        /\ IF e.error # NoError
           THEN raised' = [raised EXCEPT ![s] = e.error] /\ UNCHANGED body
           ELSE body' = [body EXCEPT ![s] = Handler(s, e)] /\ UNCHANGED raised
  BY DEF ExecuteOne, Step
<1>3. UNCHANGED <<program, pending, mail, bounds, horizon, window, syncError>>
  BY DEF ExecuteOne, Step
<1>4. e \in Event /\ e.time \in Nat /\ window \in Nat
  BY <1>1, WorkTimes, WindowCases
<1>5. now'[s] = e.time /\ heap'[s] = heap[s] \ {e}
  BY <1>1, <1>2 DEF ShardTypeOK
<1>6. \A t \in Shards \ {s} : /\ now'[t] = now[t] /\ heap'[t] = heap[t]
                              /\ body'[t] = body[t] /\ raised'[t] = raised[t]
  BY <1>1, <1>2 DEF ShardTypeOK
<1>7. \A f \in heap'[s] : e.time <= f.time
  <2>1. ASSUME NEW f \in heap[s] \ {e} PROVE e.time <= f.time
    <3>1. f.time \in Nat
      BY <1>1, WorkTimes
    <3>2. Before(e, f)
      BY <1>2 DEF IsFirst
    <3> QED BY <1>4, <3>1, <3>2 DEF Before
  <2> QED BY <1>5, <2>1
<1>8. \/ raised'[s] = e.error /\ e.error # NoError /\ body'[s] = <<>> /\ phase'[s] = "halted"
      \/ raised'[s] = NoError /\ body'[s] = Handler(s, e) /\ phase'[s] = "execute"
  BY <1>1, <1>2 DEF ShardTypeOK, TypeOK, ExecuteOne, Proceed
<1>9. \A t \in Shards \ {s} : phase'[t] = phase[t]
  BY <1>1 DEF TypeOK, ExecuteOne, Proceed
<1>10. PhasesTogether' /\ MailOutside' /\ WindowOfHorizon' /\ Drained' /\ PendingOutside' /\ HeapOutside'
  BY <1>1, <1>3, <1>6, <1>8, <1>9
     DEF PhasesTogether, MailOutside, WindowOfHorizon, Drained, PendingOutside, HeapOutside, Inflight
<1>11. BodyIsRunning' /\ BoundsHold'
  <2>1. bounds[s].next <= e.time
    BY <1>1 DEF BoundsHold
  <2> QED BY <1>1, <1>3, <1>5, <1>6, <1>8, <1>9, <2>1 DEF BodyIsRunning, BoundsHold
<1>12. OwnChannels'
  <2>1. \A i \in DOMAIN Deposit(e.label) : Deposit(e.label)[i].op # "send"
    BY DEF Deposit
  <2>2. program \in Programs /\ e.label \in Labels
    BY <1>1, <1>4 DEF ShardTypeOK, Event
  <2>3. \A i \in DOMAIN program.handler[s][e.label] :
          program.handler[s][e.label][i].op = "send" => Sender[program.handler[s][e.label][i].channel] = s
    BY <2>2, ProgramAssumption
  <2>4. \A i \in DOMAIN Handler(s, e) :
          Handler(s, e)[i].op = "send" => Sender[Handler(s, e)[i].channel] = s
    BY <2>1, <2>3 DEF Handler
  <2> QED BY <1>6, <1>8, <2>4 DEF OwnChannels
<1>13. ClockOrder'
  <2>1. e.time <= window
    BY <1>2, <1>4
  <2>2. \A m \in pending[s] : e.time <= m.timestamp
    <3>1. \A m \in pending[s] : m.timestamp \in Nat /\ window <= m.timestamp
      BY <1>1, WorkTimes DEF PendingOutside
    <3> QED BY <1>2, <1>4, <3>1
  <2> QED BY <1>1, <1>3, <1>5, <1>6, <1>7, <1>8, <1>9, <2>1, <2>2 DEF ClockOrder
<1>14. NoCausality'
  BY <1>5, <1>6, <1>8, <1>9 DEF NoCausality, NoError
<1>15. NothingLeftBehind'
  BY <1>1, <1>8, <1>9 DEF PhasesTogether, NothingLeftBehind
<1> QED BY <1>10, <1>11, <1>12, <1>13, <1>14, <1>15

\* What is left of an event's operations is still the shard's own.
LEMMA BodyLeft ==
  ASSUME IInv, NEW s \in Shards, body[s] # <<>>,
         body'[s] = Tail(body[s]) \/ body'[s] = <<>>,
         \A t \in Shards \ {s} : body'[t] = body[t]
  PROVE  OwnChannels'
<1>1. body[s] \in Seq(Operations)
  BY DEF IInv, TypeInv, TypeOK, ShardTypeOK
<1>2. ASSUME NEW i \in DOMAIN body'[s], body'[s][i].op = "send"
      PROVE  Sender[body'[s][i].channel] = s
  <2>1. body'[s] = Tail(body[s])
    BY <1>2
  <2>2. i + 1 \in DOMAIN body[s] /\ body'[s][i] = body[s][i + 1]
    BY <1>1, <1>2, <2>1, SequenceParts
  <2> QED BY <1>2, <2>2 DEF IInv, OwnChannels
<1> QED BY <1>2 DEF IInv, OwnChannels

\* Scheduling, at or after the clock, keeps the invariant.
LEMMA ScheduleInv ==
  ASSUME IInv, NEW s \in Shards, NEW delay \in Times, NEW prio, NEW label, NEW origin, NEW error,
         error # "causality", phase[s] = "execute", body[s] # <<>>,
         Schedule(s, delay, prio, label, origin, error),
         body'[s] = Tail(body[s]) \/ body'[s] = <<>>,
         \A t \in Shards \ {s} : body'[t] = body[t],
         UNCHANGED <<program, now, pending, mail, raised, roundVars>>,
         TypeInv'
  PROVE  IInv'
<1> USE DEF IInv, roundVars
<1>1. TypeOK /\ ShardTypeOK
  BY DEF TypeInv, TypeOK
<1>2. PICK x : heap'[s] = heap[s] \cup {x} /\ x.time = Plus(now[s], delay) /\ x.error = error
  BY <1>1, ScheduleEffect
<1>3. \A t \in Shards \ {s} : heap'[t] = heap[t]
  BY <1>1, ScheduleEffect
<1>4. now[s] <= x.time /\ bounds[s].next <= x.time
  <2>1. now[s] \in Times /\ now[s] \in Nat /\ x.time \in Times /\ x.time \in Nat
    BY <1>1, <1>2, PlusType DEF ShardTypeOK, Times
  <2>2. now[s] <= x.time
    BY <1>2, <2>1, PlusIncreases
  <2>3. bounds[s].next <= now[s] /\ bounds[s].next \in Nat
    BY <1>1 DEF BodyIsRunning, TypeOK, Times
  <2> QED BY <2>1, <2>2, <2>3
<1>5. PhasesTogether' /\ MailOutside' /\ WindowOfHorizon' /\ Drained' /\ PendingOutside'
  BY DEF PhasesTogether, MailOutside, WindowOfHorizon, Drained, PendingOutside, Inflight
<1>6. OwnChannels'
  BY BodyLeft
<1>7. BodyIsRunning'
  BY DEF BodyIsRunning
<1>8. ClockOrder' /\ HeapOutside' /\ BoundsHold' /\ NoCausality'
  BY <1>2, <1>3, <1>4 DEF ClockOrder, HeapOutside, BoundsHold, NoCausality
<1>9. NothingLeftBehind'
  BY DEF PhasesTogether, NothingLeftBehind
<1> QED BY <1>5, <1>6, <1>7, <1>8, <1>9

\* What a shard sends lands outside the window: the promise of the channel,
\* added to the clock, is not below the shard's bound.
LEMMA RunSendInv ==
  ASSUME IInv, NEW s \in Shards, phase[s] = "execute", RunSend(s), UNCHANGED roundVars, TypeInv'
  PROVE  IInv'
<1> USE DEF IInv, roundVars
<1> DEFINE o == Head(body[s])
           m == [timestamp |-> Plus(now[s], o.delay), channel |-> o.channel,
                 sequence |-> sequence[o.channel], label |-> o.label]
<1>1. TypeOK /\ ShardTypeOK /\ body[s] # <<>> /\ body[s] \in Seq(Operations)
  BY DEF TypeInv, TypeOK, ShardTypeOK, RunSend
<1>2. o.op = "send" /\ Lookahead[o.channel] <= o.delay
  BY DEF RunSend
<1>3. UNCHANGED <<program, now, heap, pending, raised>>
  BY DEF RunSend
<1>4. o.channel \in Channels /\ o.delay \in Times /\ Lookahead[o.channel] \in Times
  <2>1. o \in Operations
    BY <1>1
  <2> QED BY <1>2, <2>1, OperationTypes, ChannelAssumption
<1>5. o.channel \in Outbound(s)
  <2>1. 1 \in DOMAIN body[s] /\ o = body[s][1]
    BY <1>1, SequenceParts
  <2> QED BY <1>2, <1>4, <2>1 DEF OwnChannels, Outbound
<1>6. window <= m.timestamp
  <2>1. /\ MinLookahead(s) \in Times /\ MinLookahead(s) <= Lookahead[o.channel]
        /\ bounds[s].next \in Times /\ now[s] \in Times
    BY <1>1, <1>5, BoundType DEF TypeOK, ShardTypeOK
  <2>2. MinLookahead(s) <= o.delay
    BY <1>2, <1>4, <2>1 DEF Times
  <2>3. bounds[s].next <= now[s]
    BY <1>1 DEF BodyIsRunning
  <2>4. Plus(bounds[s].next, MinLookahead(s)) <= Plus(now[s], o.delay)
    BY <1>4, <2>1, <2>2, <2>3, PlusMonotone
  <2>5. window <= Plus(bounds[s].next, MinLookahead(s))
    BY DEF BoundsHold
  <2>6. /\ window \in Nat /\ Plus(now[s], o.delay) \in Nat
        /\ Plus(bounds[s].next, MinLookahead(s)) \in Nat
    <3>1. /\ Plus(now[s], o.delay) \in Times
          /\ Plus(bounds[s].next, MinLookahead(s)) \in Times
      BY <1>4, <2>1, PlusType
    <3> QED BY <3>1, WindowCases DEF Times
  <2>7. window <= Plus(now[s], o.delay)
    BY <2>4, <2>5, <2>6
  <2> QED BY <2>7
<1>7. \A c \in Channels : \A k \in mail'[c] : k \in mail[c] \/ k = m
  <2>1. mail' = [mail EXCEPT ![o.channel] = @ \cup {m}]
    BY DEF RunSend
  <2> HIDE DEF m, o
  <2> QED BY <1>1, <2>1 DEF ShardTypeOK
<1>8. /\ body'[s] = Tail(body[s])
      /\ \A t \in Shards \ {s} : body'[t] = body[t]
  BY <1>1 DEF RunSend, ShardTypeOK
<1> HIDE DEF m, o
<1>9. MailOutside'
  BY <1>6, <1>7 DEF MailOutside
<1>10. PhasesTogether' /\ WindowOfHorizon' /\ PendingOutside' /\ ClockOrder' /\ HeapOutside'
         /\ BoundsHold' /\ NoCausality'
  BY <1>3 DEF PhasesTogether, WindowOfHorizon, PendingOutside, ClockOrder, HeapOutside,
              BoundsHold, NoCausality
<1>11. OwnChannels'
  BY <1>1, <1>8, BodyLeft
<1>12. BodyIsRunning'
  BY <1>1, <1>3, <1>8 DEF BodyIsRunning
<1>13. \A t \in Shards : phase[t] \notin {"reported", "stopped"}
  BY DEF PhasesTogether
<1>14. Drained' /\ NothingLeftBehind'
  BY <1>13 DEF Drained, NothingLeftBehind
<1> QED BY <1>9, <1>10, <1>11, <1>12, <1>14

LEMMA RunOneInv ==
  ASSUME IInv, NEW s \in Shards, RunOne(s), TypeInv'
  PROVE  IInv'
<1>1. phase[s] = "execute" /\ RunBody(s) /\ UNCHANGED roundVars
  BY DEF RunOne
<1>2. ShardTypeOK /\ body[s] \in Seq(Operations)
  BY DEF IInv, TypeInv, TypeOK, ShardTypeOK
<1>3. CASE RunSchedule(s)
  <2>1. /\ body[s] # <<>> /\ Head(body[s]).op = "schedule"
        /\ body'[s] = Tail(body[s])
        /\ \A t \in Shards \ {s} : body'[t] = body[t]
        /\ UNCHANGED <<program, now, pending, mail, raised>>
    BY <1>2, <1>3 DEF RunSchedule, ShardTypeOK
  <2>2. Head(body[s]).delay \in Times
    BY <1>2, <2>1, OperationTypes
  <2>3. Schedule(s, Head(body[s]).delay, Head(body[s]).prio, Head(body[s]).label, {}, NoError)
    BY <1>3 DEF RunSchedule
  <2> QED BY <1>1, <2>1, <2>2, <2>3, ScheduleInv DEF NoError
<1>4. CASE RunSend(s)
  BY <1>1, <1>4, RunSendInv
<1>5. CASE RunFailure(s)
  <2>1. /\ body[s] # <<>> /\ body'[s] = <<>>
        /\ \A t \in Shards \ {s} : body'[t] = body[t]
        /\ UNCHANGED <<program, now, pending, mail, raised>>
    BY <1>2, <1>5 DEF RunFailure, ShardTypeOK
  <2>2. 0 \in Times
    BY TimeAssumption, RoundAssumption DEF Times
  <2>3. Raises(s) # "causality"
    BY DEF Raises, NoError
  <2>4. Schedule(s, 0, NORMAL, trace[s][Len(trace[s])].label, {}, Raises(s))
    BY <1>5 DEF RunFailure
  <2> QED BY <1>1, <2>1, <2>2, <2>3, <2>4, ScheduleInv
<1> QED BY <1>1, <1>3, <1>4, <1>5 DEF RunBody

-----------------------------------------------------------------------------
(* The theorems. *)

LEMMA InvStep ==
  ASSUME NoEarlyArrival, IInv, [Next]_vars
  PROVE  IInv'
<1>1. TypeInv'
  BY TypeStep DEF IInv
<1>2. ASSUME NEW s \in Shards, ShardAction(s) PROVE IInv'
  BY <1>1, <1>2, BuildShardInv, ReportInv, DeliverOneInv, StartExecutingInv, ExecuteOneInv,
     RunOneInv, CompleteWindowInv, HaltInv DEF ShardAction
<1>3. CASE Wire \/ DecideStop \/ DecideWindow \/ NextRound
  BY <1>1, <1>3, WireInv, DecideStopInv, DecideWindowInv, NextRoundInv
<1>4. CASE UNCHANGED vars
  BY <1>1, <1>4 DEF vars, shardVars, roundVars, IInv, PhasesTogether, BodyIsRunning, OwnChannels,
     ClockOrder, MailOutside, PendingOutside, HeapOutside, Drained, Inflight, BoundsHold,
     WindowOfHorizon, NoCausality, NothingLeftBehind, ExecutedBelow
<1> QED BY <1>2, <1>3, <1>4 DEF Next, Over

\* The invariant holds of every run of the safe-window algorithm, if no
\* arrival that Inbox.deliver schedules lands before its stamp.
THEOREM Invariance == NoEarlyArrival => (Spec => []IInv)
<1> SUFFICES ASSUME NoEarlyArrival PROVE Spec => []IInv
  OBVIOUS
<1>1. Init => IInv
  BY InvInit
<1>2. IInv /\ [Next]_vars => IInv'
  BY InvStep
<1> QED BY <1>1, <1>2, PTL DEF Spec

\* No mail lands inside an opened window and no clock passes a message on
\* its way (Channel.send's check and _decide's horizon), for all topologies,
\* models and interleavings, if no arrival lands before its stamp.
THEOREM SafeWindowHolds == NoEarlyArrival => (Spec => []SafeWindow)
<1> SUFFICES ASSUME NoEarlyArrival PROVE Spec => []SafeWindow
  OBVIOUS
<1>1. IInv => SafeWindow
  <2> SUFFICES ASSUME IInv PROVE SafeWindow
    OBVIOUS
  <2>1. ASSUME NEW s \in Shards, NEW m \in Inflight(s) PROVE now[s] <= m.timestamp
    <3>1. m.timestamp \in Nat /\ window <= m.timestamp
      BY <2>1, WorkTimes DEF IInv, TypeInv, MailOutside, Inflight, Inbound
    <3>2. now[s] \in Nat /\ window \in Nat /\ now[s] <= window
      BY WorkTimes, WindowCases DEF IInv, TypeInv, ClockOrder
    <3> QED BY <3>1, <3>2
  <2>2. \A s \in Shards : \A m \in pending[s] : now[s] <= m.timestamp
    BY DEF IInv, ClockOrder
  <2>3. \A c \in Channels : \A m \in mail[c] : m.timestamp >= window
    <3>1. \A c \in Channels : \A m \in mail[c] : m.timestamp \in Nat /\ window <= m.timestamp
      BY WorkTimes, ShardsAssumption DEF IInv, TypeInv, MailOutside, Shards
    <3> QED BY <3>1, WindowCases
  <2> QED BY <2>1, <2>2, <2>3 DEF SafeWindow
<1> QED BY <1>1, Invariance, PTL

\* Inbox.deliver never raises its causality violation, under the same condition.
THEOREM CausalityTheorem == NoEarlyArrival => (Spec => []CausalityHolds)
<1> SUFFICES ASSUME NoEarlyArrival PROVE Spec => []CausalityHolds
  OBVIOUS
<1>1. IInv => CausalityHolds
  BY DEF IInv, NoCausality, CausalityHolds
<1> QED BY <1>1, Invariance, PTL

\* A run stops only when no work below Until is left in any heap, among the
\* undelivered messages or in a mailbox.
THEOREM NothingLeftBehindTheorem == NoEarlyArrival => (Spec => []NothingLeftBehind)
<1> SUFFICES ASSUME NoEarlyArrival PROVE Spec => []NothingLeftBehind
  OBVIOUS
<1>1. IInv => NothingLeftBehind
  BY DEF IInv
<1> QED BY <1>1, Invariance, PTL

\* All reported work is at the window or later, so a horizon below Until is
\* beyond the previous one: a lookahead is added to every bound.
LEMMA HorizonGrows ==
  ASSUME StrictLookahead, IInv, All("reported"), NextMin(bounds) < Until
  PROVE  Horizon(bounds) > horizon
<1>1. TypeOK /\ \A s \in Shards : phase[s] = "reported"
  BY DEF IInv, TypeInv, All
<1>2. PICK s \in Shards : Horizon(bounds) = bounds[s].bound
  BY <1>1, DecisionTypes
<1>3. /\ bounds[s].bound = Plus(bounds[s].next, MinLookahead(s)) /\ window <= bounds[s].next
      /\ bounds[s].next \in Times /\ bounds[s].bound \in Nat /\ bounds[s].next \in Nat
  BY <1>1 DEF IInv, BoundsHold, TypeOK, Times
<1>4. \E r \in Shards : NextMin(bounds) = bounds[r].next
  <2> DEFINE nexts == {bounds[r].next : r \in Shards}
  <2>1. nexts \in SUBSET Nat /\ nexts # {}
    BY <1>1, ShardsAssumption DEF TypeOK, Times, Shards
  <2>2. NextMin(bounds) = Min(nexts)
    BY DEF NextMin
  <2> HIDE DEF nexts
  <2>3. NextMin(bounds) \in nexts
    BY <2>1, <2>2, MinIsLeast
  <2> QED BY <2>3 DEF nexts
<1>5. window < Until
  <2>1. PICK r \in Shards : NextMin(bounds) = bounds[r].next
    BY <1>4
  <2>2. window <= bounds[r].next /\ bounds[r].next \in Nat
    BY <1>1 DEF IInv, BoundsHold, TypeOK, Times
  <2> QED BY <2>1, <2>2, WindowCases
<1>6. horizon <= window /\ horizon \in Nat \cup {-1} /\ window \in Nat /\ Until \in Nat
  BY <1>5, WindowCases
<1>7. horizon < Infinity /\ Infinity \in Nat /\ Infinity \in Times
  BY <1>5, <1>6, TimeAssumption, UntilAssumption, RoundAssumption DEF Times
<1>8. CASE bounds[s].next = Infinity
  <2>1. MinLookahead(s) \in Times
    BY <1>1, BoundType DEF TypeOK
  <2>2. Infinity <= Plus(Infinity, MinLookahead(s))
    BY <1>7, <2>1, PlusIncreases
  <2> QED BY <1>2, <1>3, <1>6, <1>7, <1>8, <2>2
<1>9. CASE bounds[s].next # Infinity
  <2>1. MinLookahead(s) = Infinity \/ \E c \in Channels : MinLookahead(s) = Lookahead[c]
    <3> DEFINE lookaheads == {Lookahead[c] : c \in Outbound(s)} \cup {Infinity}
    <3>1. lookaheads \in SUBSET Nat /\ lookaheads # {}
      BY <1>7, ChannelAssumption DEF Outbound, Times
    <3>2. MinLookahead(s) = Min(lookaheads)
      BY DEF MinLookahead
    <3> HIDE DEF lookaheads
    <3>3. MinLookahead(s) \in lookaheads
      BY <3>1, <3>2, MinIsLeast
    <3> QED BY <3>3 DEF lookaheads, Outbound
  <2>2. Plus(bounds[s].next, MinLookahead(s)) > bounds[s].next
    <3>1. CASE MinLookahead(s) = Infinity
      <4>1. Plus(bounds[s].next, Infinity) = Infinity
        BY <1>3, PlusInfinity
      <4>2. bounds[s].next < Infinity
        BY <1>3, <1>7, <1>9 DEF Times
      <4> QED BY <3>1, <4>1, <4>2
    <3>2. CASE \E c \in Channels : MinLookahead(s) = Lookahead[c]
      BY <1>3, <1>9, <3>2 DEF StrictLookahead
    <3> QED BY <2>1, <3>1, <3>2
  <2> QED BY <1>2, <1>3, <1>6, <2>2
<1> QED BY <1>8, <1>9

\* _decide never raises its "synchronizer bug" RuntimeError: the horizon
\* advances in every round with work left, if no lookahead is absorbed.
THEOREM HorizonAdvancesTheorem ==
  NoEarlyArrival /\ StrictLookahead => (Spec => []HorizonAdvances)
<1> SUFFICES ASSUME NoEarlyArrival, StrictLookahead PROVE Spec => []HorizonAdvances
  OBVIOUS
<1>1. Init => HorizonAdvances
  BY DEF Init, HorizonAdvances
<1>2. IInv /\ HorizonAdvances /\ [Next]_vars => HorizonAdvances'
  <2> SUFFICES ASSUME IInv, HorizonAdvances, [Next]_vars PROVE HorizonAdvances'
    OBVIOUS
  <2>1. ASSUME NEW s \in Shards, ShardAction(s) PROVE HorizonAdvances'
    BY <2>1 DEF HorizonAdvances, ShardAction, BuildShard, Build, Report, DeliverOne, Deliver,
       StartExecuting, ExecuteOne, Step, RunOne, RunBody, RunSchedule, RunSend, RunFailure,
       CompleteWindow, Halt, shardVars, roundVars
  <2>2. CASE Wire
    BY <2>2 DEF Wire, HorizonAdvances, shardVars
  <2>3. CASE DecideStop \/ NextRound \/ UNCHANGED vars
    BY <2>3 DEF DecideStop, NextRound, HorizonAdvances, vars, shardVars, roundVars
  <2>4. CASE DecideWindow
    <3>1. Horizon(bounds) > horizon
      BY <2>4, HorizonGrows DEF DecideWindow
    <3>2. Horizon(bounds) \in Nat /\ horizon \in Nat \cup {-1}
      BY DecisionTypes, WindowCases DEF IInv, TypeInv, Times
    <3>3. ~ (Horizon(bounds) <= horizon)
      BY <3>1, <3>2
    <3> QED BY <2>4, <3>3 DEF DecideWindow, HorizonAdvances, shardVars
  <2> QED BY <2>1, <2>2, <2>3, <2>4 DEF Next, Over
<1> QED BY <1>1, <1>2, Invariance, PTL DEF Spec

-----------------------------------------------------------------------------
(***************************************************************************)
(* The way of a message from Channel.send to the event that its receiver   *)
(* processes: none is lost, doubled or overtaken, for every number of      *)
(* shards, every topology and every model.                                 *)
(***************************************************************************)

-----------------------------------------------------------------------------
(* Where a message is. *)

\* The four places in which message number q of channel c can be.
Carries(e, c, q) == \E m \in e.origin : m.channel = c /\ m.sequence = q

InMail(c, q)    == {m \in mail[c] : m.sequence = q}
InPending(c, q) == {m \in pending[Receiver[c]] : m.channel = c /\ m.sequence = q}
InHeap(c, q)    == {e \in heap[Receiver[c]] : Carries(e, c, q)}
InTrace(c, q)   == {i \in DOMAIN trace[Receiver[c]] : Carries(trace[Receiver[c]][i], c, q)}

Single(S) == \E x \in S : S = {x}

\* It is in one of them, and there once.
Once(c, q) ==
  \/ Single(InMail(c, q)) /\ InPending(c, q) = {} /\ InHeap(c, q) = {} /\ InTrace(c, q) = {}
  \/ InMail(c, q) = {} /\ Single(InPending(c, q)) /\ InHeap(c, q) = {} /\ InTrace(c, q) = {}
  \/ InMail(c, q) = {} /\ InPending(c, q) = {} /\ Single(InHeap(c, q)) /\ InTrace(c, q) = {}
  \/ InMail(c, q) = {} /\ InPending(c, q) = {} /\ InHeap(c, q) = {} /\ Single(InTrace(c, q))

\* m was sent on a channel of s, and its number has been given out.
SentTo(s, m) == m.channel \in Inbound(s) /\ m.sequence < sequence[m.channel]

MailHome == \A c \in Channels : \A m \in mail[c] : m.channel = c /\ m.sequence < sequence[c]

PendingHome == \A s \in Shards : \A m \in pending[s] : SentTo(s, m)

HeapHome == \A s \in Shards : \A e \in heap[s] : \A m \in e.origin : SentTo(s, m)

TraceHome ==
  \A s \in Shards : \A i \in DOMAIN trace[s] : \A m \in trace[s][i].origin : SentTo(s, m)

NothingBuilt == \A s \in Shards : phase[s] = "build" => heap[s] = {}

OneSighting == \A c \in Channels : \A q \in 0 .. sequence[c] - 1 : Once(c, q)

\* The inductive invariant of the way of a message.
WayInv == MailHome /\ PendingHome /\ HeapHome /\ TraceHome /\ NothingBuilt /\ OneSighting

LEMMA OnceIsOneSighting ==
  ASSUME NEW c, NEW q, Once(c, q)
  PROVE  Sightings(c, q) = 1
<1>1. Cardinality({}) = 0 /\ \A S : Single(S) => Cardinality(S) = 1
  BY FS_EmptySet, FS_Singleton DEF Single
<1>2. Sightings(c, q) = Cardinality(InMail(c, q)) + Cardinality(InPending(c, q))
                          + Cardinality(InHeap(c, q)) + Cardinality(InTrace(c, q))
  BY DEF Sightings, InMail, InPending, InHeap, InTrace, Carries
<1>3. \/ /\ Cardinality(InMail(c, q)) = 1 /\ Cardinality(InPending(c, q)) = 0
         /\ Cardinality(InHeap(c, q)) = 0 /\ Cardinality(InTrace(c, q)) = 0
      \/ /\ Cardinality(InMail(c, q)) = 0 /\ Cardinality(InPending(c, q)) = 1
         /\ Cardinality(InHeap(c, q)) = 0 /\ Cardinality(InTrace(c, q)) = 0
      \/ /\ Cardinality(InMail(c, q)) = 0 /\ Cardinality(InPending(c, q)) = 0
         /\ Cardinality(InHeap(c, q)) = 1 /\ Cardinality(InTrace(c, q)) = 0
      \/ /\ Cardinality(InMail(c, q)) = 0 /\ Cardinality(InPending(c, q)) = 0
         /\ Cardinality(InHeap(c, q)) = 0 /\ Cardinality(InTrace(c, q)) = 1
  BY <1>1 DEF Once
<1> QED BY <1>2, <1>3

LEMMA WayInit == Init => WayInv
<1> SUFFICES ASSUME Init PROVE WayInv
  OBVIOUS
<1>1. MailHome /\ PendingHome /\ HeapHome /\ TraceHome /\ NothingBuilt
  BY DEF Init, ShardInit, MailHome, PendingHome, HeapHome, TraceHome, NothingBuilt
<1>2. \A c \in Channels : 0 .. sequence[c] - 1 = {}
  BY DEF Init, ShardInit
<1> QED BY <1>1, <1>2 DEF WayInv, OneSighting

-----------------------------------------------------------------------------
(* The steps that move no message. *)

LEMMA WayStill ==
  ASSUME WayInv, UNCHANGED <<mail, pending, heap, trace, sequence>>,
         \A s \in Shards : phase'[s] = "build" => phase[s] = "build"
  PROVE  WayInv'
<1> USE DEF WayInv
<1>1. MailHome' /\ PendingHome' /\ HeapHome' /\ TraceHome' /\ NothingBuilt'
  BY DEF MailHome, PendingHome, HeapHome, TraceHome, NothingBuilt, SentTo
<1>2. \A c, q : /\ InMail(c, q)' = InMail(c, q) /\ InPending(c, q)' = InPending(c, q)
                /\ InHeap(c, q)' = InHeap(c, q) /\ InTrace(c, q)' = InTrace(c, q)
  BY DEF InMail, InPending, InHeap, InTrace
<1>3. \A c, q : Once(c, q)' = Once(c, q)
  BY <1>2 DEF Once
<1> QED BY <1>1, <1>3 DEF OneSighting

\* A heap that gains events without a message.
LEMMA WayHeap ==
  ASSUME WayInv, ShardTypeOK, UNCHANGED <<mail, pending, trace, sequence>>,
         \A s \in Shards : phase'[s] = "build" => phase[s] = "build" /\ heap'[s] = heap[s],
         \A s \in Shards : heap[s] \subseteq heap'[s]
                             /\ \A e \in heap'[s] \ heap[s] : e.origin = {}
  PROVE  WayInv'
<1> USE DEF WayInv
<1>1. MailHome' /\ PendingHome' /\ TraceHome' /\ NothingBuilt'
  BY DEF MailHome, PendingHome, TraceHome, NothingBuilt, SentTo
<1>2. HeapHome'
  BY DEF HeapHome, SentTo
<1>3. ASSUME NEW c \in Channels, NEW q \in 0 .. sequence[c] - 1 PROVE Once(c, q)'
  <2>1. Receiver[c] \in Shards
    BY ChannelAssumption
  <2>2. /\ InMail(c, q)' = InMail(c, q) /\ InPending(c, q)' = InPending(c, q)
        /\ InTrace(c, q)' = InTrace(c, q)
    BY DEF InMail, InPending, InTrace
  <2>3. InHeap(c, q)' = InHeap(c, q)
    BY <2>1 DEF InHeap, Carries
  <2> QED BY <1>3, <2>2, <2>3 DEF Once, OneSighting
<1> QED BY <1>1, <1>2, <1>3 DEF OneSighting

LEMMA WayBuild ==
  ASSUME IInv, WayInv, NEW s \in Shards, BuildShard(s)
  PROVE  WayInv'
<1> USE DEF IInv, TypeInv, TypeOK, ShardTypeOK
<1>1. ShardTypeOK /\ UNCHANGED <<mail, pending, trace, sequence>>
  BY DEF BuildShard, Build
<1>2. /\ phase[s] = "build" /\ phase'[s] # "build"
      /\ \A t \in Shards \ {s} : phase'[t] = phase[t] /\ heap'[t] = heap[t]
  BY DEF BuildShard, Build, Proceed
<1>3. heap[s] = {}
  BY <1>2 DEF WayInv, NothingBuilt
<1>4. \A e \in heap'[s] : e.origin = {}
  <2>1. CASE program.builder[s] = NoError
    <3>1. heap'[s] = {[time |-> Plus(0, program.boot[s][i].delay), prio |-> program.boot[s][i].prio,
                       eid |-> i - 1, label |-> program.boot[s][i].label,
                       origin |-> {}, error |-> NoError] : i \in DOMAIN program.boot[s]}
      BY <2>1 DEF BuildShard, Build
    <3> QED BY <3>1
  <2>2. CASE program.builder[s] # NoError
    BY <1>3, <2>2 DEF BuildShard, Build
  <2> QED BY <2>1, <2>2
<1> QED BY <1>1, <1>2, <1>3, <1>4, WayHeap

-----------------------------------------------------------------------------
(* The steps that move a message. *)

\* send() puts it into the mailbox, under the next number of its channel.
LEMMA WaySend ==
  ASSUME IInv, WayInv, NEW s \in Shards, RunSend(s), UNCHANGED roundVars
  PROVE  WayInv'
<1> DEFINE o == Head(body[s])
           d == o.channel
           m == [timestamp |-> Plus(now[s], o.delay), channel |-> o.channel,
                 sequence |-> sequence[o.channel], label |-> o.label]
<1>1. ShardTypeOK
  BY DEF IInv, TypeInv, TypeOK
<1>2. d \in Channels
  BY <1>1, OperationTypes DEF RunSend, ShardTypeOK
<1>3. m.channel = d /\ m.sequence = sequence[d]
  OBVIOUS
<1>4. /\ mail' = [mail EXCEPT ![d] = @ \cup {m}]
      /\ sequence' = [sequence EXCEPT ![d] = @ + 1]
      /\ UNCHANGED <<heap, pending, trace, phase>>
  BY DEF RunSend, roundVars
<1> HIDE DEF m, d
<1>5. /\ mail'[d] = mail[d] \cup {m} /\ sequence'[d] = sequence[d] + 1
      /\ \A c \in Channels \ {d} : mail'[c] = mail[c] /\ sequence'[c] = sequence[c]
      /\ \A c \in Channels : sequence[c] \in Nat /\ sequence'[c] \in Nat /\ sequence[c] <= sequence'[c]
  BY <1>1, <1>2, <1>4 DEF ShardTypeOK
<1>6. \A c \in Channels : \A q : q < sequence[c] /\ q \in Nat => q < sequence'[c]
  BY <1>5
<1>7. /\ \A c \in Channels : \A k \in mail[c] : k.sequence \in Nat
      /\ \A t \in Shards : \A k \in pending[t] : k.sequence \in Nat
      /\ \A t \in Shards : \A e \in heap[t] : \A k \in e.origin : k.sequence \in Nat
      /\ \A t \in Shards : \A i \in DOMAIN trace[t] : \A k \in trace[t][i].origin : k.sequence \in Nat
  <2>1. \A e \in Event : \A k \in e.origin : k.sequence \in Nat
    BY DEF Event, Message
  <2>2. \A t \in Shards : \A i \in DOMAIN trace[t] : trace[t][i] \in Event
    BY <1>1 DEF ShardTypeOK
  <2>3. \A t \in Shards : \A e \in heap[t] : e \in Event
    BY <1>1 DEF ShardTypeOK
  <2>4. \A k \in Message : k.sequence \in Nat
    BY DEF Message
  <2> QED BY <1>1, <2>1, <2>2, <2>3, <2>4 DEF ShardTypeOK
<1>8. MailHome'
  BY <1>2, <1>3, <1>5, <1>6, <1>7 DEF WayInv, MailHome
<1>9. \A t \in Shards : \A k : SentTo(t, k) /\ k.sequence \in Nat => SentTo(t, k)'
  BY <1>6 DEF SentTo, Inbound
<1>10. PendingHome' /\ HeapHome' /\ TraceHome' /\ NothingBuilt'
  BY <1>4, <1>7, <1>9 DEF WayInv, PendingHome, HeapHome, TraceHome, NothingBuilt
<1>11. ASSUME NEW c \in Channels, NEW q \in 0 .. sequence'[c] - 1 PROVE Once(c, q)'
  <2>1. /\ InPending(c, q)' = InPending(c, q) /\ InHeap(c, q)' = InHeap(c, q)
        /\ InTrace(c, q)' = InTrace(c, q)
    BY <1>4 DEF InPending, InHeap, InTrace
  <2>2. CASE c = d /\ q = sequence[d]
    <3>1. Receiver[d] \in Shards
      BY <1>2, ChannelAssumption
    <3>2. /\ \A k \in mail[d] : k.sequence # sequence[d]
          /\ \A t \in Shards : \A k : SentTo(t, k) /\ k.channel = d => k.sequence < sequence[d]
      BY <1>2, <1>5, <1>7 DEF WayInv, MailHome, SentTo
    <3>3. InMail(c, q)' = {m}
      BY <1>3, <1>5, <2>2, <3>2 DEF InMail
    <3>4. \A t \in Shards : \A k : SentTo(t, k) /\ k.channel = d /\ k.sequence \in Nat => k.sequence # sequence[d]
      BY <1>2, <1>5, <3>2
    <3>5. InPending(c, q) = {}
      BY <1>7, <2>2, <3>1, <3>4 DEF WayInv, PendingHome, InPending
    <3>6. InHeap(c, q) = {}
      BY <1>7, <2>2, <3>1, <3>4 DEF WayInv, HeapHome, InHeap, Carries
    <3>7. InTrace(c, q) = {}
      BY <1>7, <2>2, <3>1, <3>4 DEF WayInv, TraceHome, InTrace, Carries
    <3> QED BY <2>1, <3>3, <3>5, <3>6, <3>7 DEF Once, Single
  <2>3. CASE ~ (c = d /\ q = sequence[d])
    <3>1. q \in 0 .. sequence[c] - 1
      BY <1>2, <1>5, <2>3
    <3>2. InMail(c, q)' = InMail(c, q)
      BY <1>3, <1>5, <2>3 DEF InMail
    <3> QED BY <2>1, <3>1, <3>2 DEF WayInv, OneSighting, Once
  <2> QED BY <2>2, <2>3
<1>12. OneSighting'
  BY <1>11 DEF OneSighting
<1> QED BY <1>8, <1>10, <1>12 DEF WayInv

\* absorb() moves all mail of a shard to its pending messages.
LEMMA WayReport ==
  ASSUME IInv, WayInv, NEW s \in Shards, Report(s)
  PROVE  WayInv'
<1> USE DEF WayInv
<1>1. ShardTypeOK
  BY DEF IInv, TypeInv, TypeOK
<1>2. /\ pending'[s] = pending[s] \cup Inflight(s)
      /\ \A t \in Shards \ {s} : pending'[t] = pending[t]
      /\ \A c \in Channels : mail'[c] = IF Receiver[c] = s THEN {} ELSE mail[c]
      /\ UNCHANGED <<heap, trace, sequence>>
  BY <1>1 DEF Report, Absorb, ShardTypeOK, Inbound
<1>3. \A k : k \in Inflight(s) <=> \E c \in Channels : Receiver[c] = s /\ k \in mail[c]
  BY DEF Inflight, Inbound
<1>4. \A k \in Inflight(s) : SentTo(s, k) /\ k \in mail[k.channel]
  BY <1>3 DEF MailHome, SentTo, Inbound
<1>5. \A t, k : SentTo(t, k)' = SentTo(t, k)
  BY <1>2 DEF SentTo
<1>6. MailHome' /\ PendingHome' /\ HeapHome' /\ TraceHome'
  BY <1>2, <1>4, <1>5 DEF MailHome, PendingHome, HeapHome, TraceHome
<1>7. NothingBuilt'
  BY <1>2 DEF NothingBuilt, Report, IInv, TypeInv, TypeOK
<1>8. ASSUME NEW c \in Channels, NEW q \in 0 .. sequence[c] - 1 PROVE Once(c, q)'
  <2>1. Once(c, q) /\ InHeap(c, q)' = InHeap(c, q) /\ InTrace(c, q)' = InTrace(c, q)
    BY <1>2, <1>8 DEF InHeap, InTrace, OneSighting
  <2>2. CASE Receiver[c] = s
    <3>1. InMail(c, q)' = {}
      BY <1>2, <2>2 DEF InMail
    <3>2. \A k : k \in Inflight(s) /\ k.channel = c <=> k \in mail[c]
      BY <1>3, <1>4, <2>2 DEF MailHome
    <3>3. InPending(c, q)' = InPending(c, q) \cup InMail(c, q)
      BY <1>2, <2>2, <3>2 DEF InPending, InMail
    <3> QED BY <2>1, <3>1, <3>3 DEF Once
  <2>3. CASE Receiver[c] # s
    <3>1. Receiver[c] \in Shards \ {s}
      BY <2>3, ChannelAssumption
    <3>2. InMail(c, q)' = InMail(c, q) /\ InPending(c, q)' = InPending(c, q)
      BY <1>2, <2>3, <3>1 DEF InMail, InPending
    <3> QED BY <2>1, <3>2 DEF Once
  <2> QED BY <2>2, <2>3
<1>9. OneSighting'
  BY <1>2, <1>8 DEF OneSighting
<1> QED BY <1>6, <1>7, <1>9

\* Inbox.deliver makes an event of it; a violation, which would drop it, does
\* not happen.
LEMMA WayDeliver ==
  ASSUME NoEarlyArrival, IInv, WayInv, NEW s \in Shards, DeliverOne(s)
  PROVE  WayInv'
<1> USE DEF WayInv
<1>1. ShardTypeOK /\ phase \in [Shards -> Phases]
  BY DEF IInv, TypeInv, TypeOK
<1>2. PICK m \in pending[s] :
        /\ pending' = [pending EXCEPT ![s] = @ \ {m}]
        /\ IF m.timestamp < now[s]
           THEN raised' = [raised EXCEPT ![s] = "causality"] /\ UNCHANGED <<heap, eid>>
           ELSE /\ Schedule(s, Minus(m.timestamp, now[s]), NORMAL, m.label, {m}, NoError)
                /\ UNCHANGED raised
  BY DEF DeliverOne, Deliver
<1>3. ~ (m.timestamp < now[s])
  <2>1. now[s] <= m.timestamp /\ now[s] \in Nat /\ m.timestamp \in Nat
    BY WorkTimes DEF IInv, TypeInv, ClockOrder
  <2> QED BY <2>1
<1>4. PICK x : x.origin = {m} /\ heap' = [heap EXCEPT ![s] = @ \cup {x}]
  BY <1>2, <1>3 DEF Schedule
<1>5. /\ pending'[s] = pending[s] \ {m} /\ heap'[s] = heap[s] \cup {x}
      /\ \A t \in Shards \ {s} : pending'[t] = pending[t] /\ heap'[t] = heap[t]
      /\ UNCHANGED <<mail, trace, sequence>>
  BY <1>1, <1>2, <1>4 DEF DeliverOne, Deliver, ShardTypeOK
<1>6. \A t, k : SentTo(t, k)' = SentTo(t, k)
  BY <1>5 DEF SentTo
<1>7. SentTo(s, m) /\ m.channel \in Channels /\ Receiver[m.channel] = s
  BY DEF PendingHome, SentTo, Inbound
<1>8. MailHome' /\ PendingHome' /\ TraceHome'
  BY <1>5, <1>6 DEF MailHome, PendingHome, TraceHome
<1>9. HeapHome'
  BY <1>4, <1>5, <1>6, <1>7 DEF HeapHome
<1>10. NothingBuilt'
  BY <1>1, <1>5 DEF NothingBuilt, DeliverOne, Proceed
<1>11. ASSUME NEW c \in Channels, NEW q \in 0 .. sequence[c] - 1 PROVE Once(c, q)'
  <2>1. Once(c, q) /\ InMail(c, q)' = InMail(c, q) /\ InTrace(c, q)' = InTrace(c, q)
    BY <1>5, <1>11 DEF InMail, InTrace, OneSighting
  <2>2. CASE c = m.channel /\ q = m.sequence
    <3>1. m \in InPending(c, q)
      BY <1>7, <2>2 DEF InPending
    <3>2. InPending(c, q) = {m} /\ InMail(c, q) = {} /\ InHeap(c, q) = {} /\ InTrace(c, q) = {}
      BY <2>1, <3>1 DEF Once, Single
    <3>3. InPending(c, q)' = {}
      BY <1>5, <1>7, <2>2, <3>2 DEF InPending
    <3>4. InHeap(c, q)' = {x}
      BY <1>4, <1>5, <1>7, <2>2, <3>2 DEF InHeap, Carries
    <3> QED BY <2>1, <3>2, <3>3, <3>4 DEF Once, Single
  <2>3. CASE ~ (c = m.channel /\ q = m.sequence)
    <3>1. Receiver[c] \in Shards
      BY ChannelAssumption
    <3>2. InPending(c, q)' = InPending(c, q)
      BY <1>5, <2>3, <3>1 DEF InPending
    <3>3. ~ Carries(x, c, q)
      BY <1>4, <2>3 DEF Carries
    <3>4. InHeap(c, q)' = InHeap(c, q)
      BY <1>5, <3>1, <3>3 DEF InHeap
    <3> QED BY <2>1, <3>2, <3>4 DEF Once
  <2> QED BY <2>2, <2>3
<1>12. OneSighting'
  BY <1>5, <1>11 DEF OneSighting
<1> QED BY <1>8, <1>9, <1>10, <1>12

\* A record of one more event.
LEMMA Recorded ==
  ASSUME NEW R, NEW q \in Seq(R), NEW e
  PROVE  /\ DOMAIN Append(q, e) = DOMAIN q \cup {Len(q) + 1} /\ Len(q) + 1 \notin DOMAIN q
         /\ Append(q, e)[Len(q) + 1] = e
         /\ \A i \in DOMAIN q : Append(q, e)[i] = q[i]
OBVIOUS

\* step() takes the event of a message from the heap and records it.
LEMMA WayExecute ==
  ASSUME IInv, WayInv, NEW s \in Shards, ExecuteOne(s)
  PROVE  WayInv'
<1> USE DEF WayInv
<1>1. ShardTypeOK /\ phase \in [Shards -> Phases]
  BY DEF IInv, TypeInv, TypeOK
<1>2. PICK e \in heap[s] :
        /\ heap' = [heap EXCEPT ![s] = @ \ {e}]
        /\ trace' = [trace EXCEPT ![s] = Append(@, e)]
  BY DEF ExecuteOne, Step
<1> DEFINE n == Len(trace[s]) + 1
<1>3. /\ heap'[s] = heap[s] \ {e} /\ trace'[s] = Append(trace[s], e) /\ trace[s] \in Seq(Event)
      /\ \A t \in Shards \ {s} : heap'[t] = heap[t] /\ trace'[t] = trace[t]
      /\ UNCHANGED <<mail, pending, sequence>>
  BY <1>1, <1>2 DEF ExecuteOne, Step, ShardTypeOK
<1>4. /\ DOMAIN trace'[s] = DOMAIN trace[s] \cup {n} /\ n \notin DOMAIN trace[s]
      /\ trace'[s][n] = e /\ \A i \in DOMAIN trace[s] : trace'[s][i] = trace[s][i]
  BY <1>3, Recorded
<1> HIDE DEF n
<1>5. \A t, k : SentTo(t, k)' = SentTo(t, k)
  BY <1>3 DEF SentTo
<1>6. MailHome' /\ PendingHome' /\ HeapHome'
  BY <1>3, <1>5 DEF MailHome, PendingHome, HeapHome
<1>7. TraceHome'
  BY <1>3, <1>4, <1>5 DEF TraceHome, HeapHome
<1>8. NothingBuilt'
  BY <1>1, <1>3 DEF NothingBuilt, ExecuteOne, Proceed
<1>9. ASSUME NEW c \in Channels, NEW q \in 0 .. sequence[c] - 1 PROVE Once(c, q)'
  <2>1. /\ Once(c, q) /\ InMail(c, q)' = InMail(c, q) /\ InPending(c, q)' = InPending(c, q)
        /\ Receiver[c] \in Shards
    BY <1>3, <1>9, ChannelAssumption DEF InMail, InPending, OneSighting
  <2>2. CASE Receiver[c] = s /\ Carries(e, c, q)
    <3>1. e \in InHeap(c, q)
      BY <2>2 DEF InHeap
    <3>2. InHeap(c, q) = {e} /\ InMail(c, q) = {} /\ InPending(c, q) = {} /\ InTrace(c, q) = {}
      BY <2>1, <3>1 DEF Once, Single
    <3>3. InHeap(c, q)' = {}
      BY <1>3, <2>2, <3>2 DEF InHeap, Carries
    <3>4. InTrace(c, q)' = {n}
      BY <1>4, <2>2, <3>2 DEF InTrace, Carries
    <3> QED BY <2>1, <3>2, <3>3, <3>4 DEF Once, Single
  <2>3. CASE Receiver[c] = s /\ ~ Carries(e, c, q)
    <3>1. InHeap(c, q)' = InHeap(c, q)
      BY <1>3, <2>3 DEF InHeap, Carries
    <3>2. InTrace(c, q)' = InTrace(c, q)
      BY <1>4, <2>3 DEF InTrace, Carries
    <3> QED BY <2>1, <3>1, <3>2 DEF Once
  <2>4. CASE Receiver[c] # s
    <3>1. InHeap(c, q)' = InHeap(c, q) /\ InTrace(c, q)' = InTrace(c, q)
      BY <1>3, <2>1, <2>4 DEF InHeap, InTrace
    <3> QED BY <2>1, <3>1 DEF Once
  <2> QED BY <2>2, <2>3, <2>4
<1>10. OneSighting'
  BY <1>3, <1>9 DEF OneSighting
<1> QED BY <1>6, <1>7, <1>8, <1>10

-----------------------------------------------------------------------------
(* Nothing is lost or doubled. *)

LEMMA WayStep ==
  ASSUME NoEarlyArrival, IInv, WayInv, [Next]_vars
  PROVE  WayInv'
<1>1. ShardTypeOK /\ phase \in [Shards -> Phases]
  BY DEF IInv, TypeInv, TypeOK
<1>2. ASSUME NEW s \in Shards, RunOne(s) PROVE WayInv'
  <2>1. CASE RunSend(s)
    BY <1>2, <2>1, WaySend DEF RunOne
  <2>2. CASE RunSchedule(s) \/ RunFailure(s)
    <3>1. UNCHANGED <<mail, pending, trace, sequence, phase>>
      BY <1>2, <2>2 DEF RunOne, RunSchedule, RunFailure, roundVars
    <3>2. phase[s] = "execute"
      BY <1>2 DEF RunOne
    <3>3. PICK x : x.origin = {} /\ heap' = [heap EXCEPT ![s] = @ \cup {x}]
      BY <2>2 DEF RunSchedule, RunFailure, Schedule
    <3>4. heap'[s] = heap[s] \cup {x} /\ \A t \in Shards \ {s} : heap'[t] = heap[t]
      BY <1>1, <3>3 DEF ShardTypeOK
    <3> QED BY <1>1, <3>1, <3>2, <3>3, <3>4, WayHeap
  <2> QED BY <1>2, <2>1, <2>2 DEF RunOne, RunBody
<1>3. ASSUME NEW s \in Shards, StartExecuting(s) \/ CompleteWindow(s) \/ Halt(s) PROVE WayInv'
  <2>1. \A t \in Shards : phase'[t] = "build" => phase[t] = "build"
    BY <1>1, <1>3 DEF StartExecuting, CompleteWindow, Halt
  <2>2. UNCHANGED <<mail, pending, heap, trace, sequence>>
    BY <1>3 DEF StartExecuting, CompleteWindow, Halt, shardVars
  <2> QED BY <2>1, <2>2, WayStill
<1>4. CASE Wire \/ DecideStop \/ DecideWindow \/ NextRound \/ UNCHANGED vars
  <2>1. \A t \in Shards : phase'[t] = "build" => phase[t] = "build"
    BY <1>1, <1>4 DEF Wire, DecideStop, DecideWindow, NextRound, vars, roundVars
  <2>2. UNCHANGED <<mail, pending, heap, trace, sequence>>
    BY <1>4 DEF Wire, DecideStop, DecideWindow, NextRound, vars, shardVars
  <2> QED BY <2>1, <2>2, WayStill
<1>5. ASSUME NEW s \in Shards, ShardAction(s) PROVE WayInv'
  BY <1>2, <1>3, <1>5, WayBuild, WayReport, WayDeliver, WayExecute DEF ShardAction
<1> QED BY <1>4, <1>5 DEF Next, Over

\* The invariant of the way of a message holds of every run.
LEMMA WayInvariance ==
  ASSUME NoEarlyArrival
  PROVE  Spec => []WayInv
<1>1. Init => WayInv
  BY WayInit
<1>2. IInv /\ WayInv /\ [Next]_vars => WayInv'
  BY WayStep
<1>3. Spec => []IInv
  BY Invariance
<1> QED BY <1>1, <1>2, <1>3, PTL DEF Spec

\* No message is lost, duplicated or delivered twice on its way through
\* Mailbox, _ShardRuntime and Inbox, in any round of any run, if no arrival
\* lands before its stamp.
THEOREM ExactlyOnceTheorem == NoEarlyArrival => (Spec => []ExactlyOnce)
<1> SUFFICES ASSUME NoEarlyArrival PROVE Spec => []ExactlyOnce
  OBVIOUS
<1>1. WayInv => ExactlyOnce
  BY OnceIsOneSighting DEF WayInv, OneSighting, ExactlyOnce
<1>2. Spec => []WayInv
  BY WayInvariance
<1> QED BY <1>1, <1>2, PTL

-----------------------------------------------------------------------------
(* Nothing is overtaken. *)

\* Event numbers are given out in order, each once.
HeapNumbered ==
  \A s \in Shards : \A e, f \in heap[s] : e.eid < eid[s] /\ (e.eid = f.eid => e = f)

\* An arrival lands on its message's stamp or, next to it, after it, and the
\* message was delivered below a window opened since.
ArrivalOfMessage ==
  \A s \in Shards : \A e \in heap[s] : \A m \in e.origin :
    /\ e.prio = NORMAL /\ m.timestamp < window /\ m.timestamp <= e.time
    /\ \A v \in Times : m.timestamp < v => e.time <= v

\* Messages of one stamp are delivered together, at one clock.
StampsTogether ==
  \A s \in Shards : phase[s] = "deliver" => \A e \in heap[s] : \A m \in e.origin :
    \/ e.time = Plus(now[s], Minus(m.timestamp, now[s]))
    \/ \A k \in pending[s] : m.timestamp < k.timestamp

RecordOfMessage ==
  \A s \in Shards : \A i \in DOMAIN trace[s] : \A m \in trace[s][i].origin : m.timestamp < window

\* The normative order along the way: processed, scheduled, pending.
ScheduledInOrder ==
  \A s \in Shards : \A e, f \in heap[s] : e.eid < f.eid =>
    \A m \in e.origin, k \in f.origin : KeyBefore(m, k) /\ e.time <= f.time

ScheduledBeforePending ==
  \A s \in Shards : \A e \in heap[s] : \A m \in e.origin, k \in pending[s] : KeyBefore(m, k)

ProcessedBeforeScheduled ==
  \A s \in Shards : \A i \in DOMAIN trace[s] : \A e \in heap[s] :
    \A m \in trace[s][i].origin, k \in e.origin : KeyBefore(m, k)

ProcessedBeforePending ==
  \A s \in Shards : \A i \in DOMAIN trace[s] :
    \A m \in trace[s][i].origin, k \in pending[s] : KeyBefore(m, k)

\* The inductive invariant of the order of delivery.
OrderInv ==
  /\ HeapNumbered /\ ArrivalOfMessage /\ StampsTogether /\ RecordOfMessage
  /\ ScheduledInOrder /\ ScheduledBeforePending
  /\ ProcessedBeforeScheduled /\ ProcessedBeforePending
  /\ DeliveryOrder

LEMMA OrderInit == Init => OrderInv
BY DEF Init, ShardInit, OrderInv, HeapNumbered, ArrivalOfMessage,
       StampsTogether, RecordOfMessage, ScheduledInOrder, ScheduledBeforePending, ProcessedBeforeScheduled,
       ProcessedBeforePending, DeliveryOrder

\* Typed parts of the shards' state, for arithmetic.
LEMMA KeyTypes ==
  ASSUME ShardTypeOK, NEW s \in Shards
  PROVE  /\ \A e \in heap[s] : /\ e.eid \in Nat /\ e.prio \in Nat
                              /\ e.time \in Times /\ e.time \in Nat
         /\ \A e \in heap[s] : \A m \in e.origin : m.timestamp \in Times /\ m.timestamp \in Nat
         /\ \A i \in DOMAIN trace[s] : \A m \in trace[s][i].origin : m.timestamp \in Nat
         /\ eid[s] \in Nat
<1>1. \A e \in Event : /\ e.eid \in Nat /\ e.prio \in Nat /\ e.time \in Times /\ e.time \in Nat
                       /\ \A m \in e.origin : m.timestamp \in Times /\ m.timestamp \in Nat
  BY DEF Event, Message, Times, URGENT, NORMAL
<1>2. \A i \in DOMAIN trace[s] : trace[s][i] \in Event
  BY DEF ShardTypeOK
<1>3. \A e \in heap[s] : e \in Event
  BY DEF ShardTypeOK
<1> QED BY <1>1, <1>2, <1>3 DEF ShardTypeOK

\* A window that has been opened is never closed again.
LEMMA WindowGrows ==
  ASSUME IInv, DecideStop \/ DecideWindow
  PROVE  window \in Nat /\ window' \in Nat /\ window <= window'
<1>1. /\ window \in Nat /\ Until \in Nat /\ window <= Until
      /\ \/ horizon = -1 /\ window = 0
         \/ horizon \in Nat /\ window = IF horizon <= Until THEN horizon ELSE Until
  BY WindowCases
<1>2. CASE DecideStop
  BY <1>1, <1>2 DEF DecideStop
<1>3. CASE DecideWindow
  <2>1. Horizon(bounds) \in Nat
    BY DecisionTypes DEF IInv, TypeInv, Times
  <2>2. Min({Horizon(bounds), Until}) = IF Horizon(bounds) <= Until THEN Horizon(bounds) ELSE Until
    BY <1>1, <2>1, MinOfTwo
  <2>3. CASE Horizon(bounds) <= horizon
    BY <1>1, <1>3, <2>3 DEF DecideWindow
  <2>4. CASE ~ (Horizon(bounds) <= horizon)
    <3>1. window' = IF Horizon(bounds) <= Until THEN Horizon(bounds) ELSE Until
      BY <1>3, <2>2, <2>4 DEF DecideWindow
    <3> QED BY <1>1, <2>1, <2>4, <3>1
  <2> QED BY <2>3, <2>4
<1> QED BY <1>2, <1>3

\* A round begins when all that was delivered before is stamped below all
\* that is pending; then only Inbox.deliver changes what StampsTogether reads.
LEMMA StampsStep ==
  ASSUME IInv, OrderInv, [Next]_vars, \A s \in Shards : ~ DeliverOne(s)
  PROVE  StampsTogether'
<1>1. ShardTypeOK /\ phase \in [Shards -> Phases] /\ StampsTogether
  BY DEF IInv, TypeInv, TypeOK, OrderInv
<1>2. CASE \A t \in Shards : phase'[t] = "deliver" =>
             phase[t] = "deliver" /\ heap'[t] = heap[t] /\ now'[t] = now[t] /\ pending'[t] = pending[t]
  BY <1>1, <1>2 DEF StampsTogether
<1>3. ASSUME NEW s \in Shards, ShardAction(s) PROVE StampsTogether'
  <2>1. phase'[s] # "deliver" \/ UNCHANGED <<phase, heap, now, pending>>
    BY <1>1, <1>3 DEF ShardAction, BuildShard, Report, StartExecuting, ExecuteOne, RunOne,
                      CompleteWindow, Halt, Proceed, roundVars
  <2>2. \A t \in Shards \ {s} : /\ phase'[t] = phase[t] /\ now'[t] = now[t]
                                /\ heap'[t] = heap[t] /\ pending'[t] = pending[t]
    <3>1. CASE BuildShard(s)
      BY <1>1, <3>1 DEF BuildShard, Build, Proceed, ShardTypeOK
    <3>2. CASE Report(s)
      BY <1>1, <3>2 DEF Report, Absorb, ShardTypeOK
    <3>3. CASE ExecuteOne(s)
      BY <1>1, <3>3 DEF ExecuteOne, Step, Proceed, ShardTypeOK
    <3>4. CASE RunOne(s)
      BY <1>1, <3>4 DEF RunOne, RunBody, RunSchedule, RunSend, RunFailure, Schedule, roundVars,
                        ShardTypeOK
    <3>5. CASE StartExecuting(s) \/ CompleteWindow(s) \/ Halt(s)
      BY <1>1, <3>5 DEF StartExecuting, CompleteWindow, Halt, shardVars
    <3> QED BY <1>3, <3>1, <3>2, <3>3, <3>4, <3>5 DEF ShardAction
  <2> QED BY <1>2, <2>1, <2>2
<1>4. CASE Wire \/ DecideStop \/ NextRound \/ UNCHANGED vars
  BY <1>1, <1>2, <1>4 DEF Wire, DecideStop, NextRound, vars, shardVars, roundVars
<1>5. CASE DecideWindow
  <2>1. UNCHANGED <<heap, now, pending>> /\ All("reported")
    BY <1>5 DEF DecideWindow, shardVars
  <2>2. ASSUME NEW t \in Shards, NEW e \in heap[t], NEW m \in e.origin, NEW k \in pending[t]
        PROVE  m.timestamp < k.timestamp
    <3>1. m.timestamp \in Nat /\ m.timestamp < window
      BY <1>1, KeyTypes DEF OrderInv, ArrivalOfMessage
    <3>2. k.timestamp \in Nat /\ window <= k.timestamp
      BY <2>1, WorkTimes DEF IInv, TypeInv, PendingOutside, All
    <3>3. window \in Nat
      BY WindowCases
    <3> QED BY <3>1, <3>2, <3>3
  <2> QED BY <2>1, <2>2 DEF StampsTogether
<1> QED BY <1>3, <1>4, <1>5 DEF Next, Over

\* The steps that leave the shards alone.
LEMMA OrderStill ==
  ASSUME ShardTypeOK, OrderInv, StampsTogether', UNCHANGED <<pending, heap, eid, trace>>,
         window \in Nat, window' \in Nat, window <= window'
  PROVE  OrderInv'
<1> USE DEF OrderInv
<1>1. \A t \in Nat : t < window => t < window'
  OBVIOUS
<1>2. HeapNumbered' /\ ScheduledInOrder' /\ ScheduledBeforePending' /\ ProcessedBeforeScheduled'
        /\ ProcessedBeforePending' /\ DeliveryOrder'
  BY DEF HeapNumbered, ScheduledInOrder, ScheduledBeforePending, ProcessedBeforeScheduled,
         ProcessedBeforePending, DeliveryOrder
<1>3. ArrivalOfMessage' /\ RecordOfMessage'
  BY <1>1, KeyTypes DEF ArrivalOfMessage, RecordOfMessage
<1> QED BY <1>2, <1>3

\* Events without a message, at the next numbers.
LEMMA OrderHeap ==
  ASSUME ShardTypeOK, OrderInv, StampsTogether', UNCHANGED <<pending, trace, window>>,
         \A s \in Shards : \A e \in heap'[s] : e \in heap[s] \/ e.origin = {},
         HeapNumbered'
  PROVE  OrderInv'
<1> USE DEF OrderInv
<1>1. ArrivalOfMessage' /\ RecordOfMessage' /\ DeliveryOrder' /\ ProcessedBeforePending'
  BY DEF ArrivalOfMessage, RecordOfMessage, DeliveryOrder, ProcessedBeforePending
<1>2. ScheduledInOrder'
  BY DEF ScheduledInOrder
<1>3. ScheduledBeforePending' /\ ProcessedBeforeScheduled'
  BY DEF ScheduledBeforePending, ProcessedBeforeScheduled
<1> QED BY <1>1, <1>2, <1>3

\* Schedule gives the new event the next number.
LEMMA NumberedBySchedule ==
  ASSUME ShardTypeOK, HeapNumbered, NEW s \in Shards, NEW delay, NEW prio, NEW label, NEW origin,
         NEW error, Schedule(s, delay, prio, label, origin, error)
  PROVE  /\ HeapNumbered'
         /\ \E x : /\ heap'[s] = heap[s] \cup {x} /\ x.origin = origin /\ x.eid = eid[s]
                   /\ x.time = Plus(now[s], delay) /\ x.prio = prio
         /\ \A t \in Shards \ {s} : heap'[t] = heap[t]
<1> DEFINE x == [time |-> Plus(now[s], delay), prio |-> prio, eid |-> eid[s],
                 label |-> label, origin |-> origin, error |-> error]
<1>1. heap' = [heap EXCEPT ![s] = @ \cup {x}] /\ eid' = [eid EXCEPT ![s] = @ + 1]
  BY DEF Schedule
<1>2. x.origin = origin /\ x.eid = eid[s] /\ x.time = Plus(now[s], delay) /\ x.prio = prio
  OBVIOUS
<1> HIDE DEF x
<1>3. heap'[s] = heap[s] \cup {x} /\ \A t \in Shards \ {s} : heap'[t] = heap[t]
  BY <1>1 DEF ShardTypeOK
<1>4. eid[s] \in Nat /\ eid'[s] = eid[s] + 1 /\ \A t \in Shards \ {s} : eid'[t] = eid[t]
  BY <1>1 DEF ShardTypeOK
<1>5. \A e, f \in heap[s] : e.eid \in Nat /\ e.eid < eid[s] /\ (e.eid = f.eid => e = f)
  BY KeyTypes DEF HeapNumbered
<1>6. \A e, f \in heap'[s] : e.eid < eid'[s] /\ (e.eid = f.eid => e = f)
  <2>1. \A e \in heap'[s] : e.eid < eid'[s]
    BY <1>2, <1>3, <1>4, <1>5
  <2>2. \A e \in heap[s] : e.eid # x.eid
    BY <1>2, <1>4, <1>5
  <2> QED BY <1>3, <1>5, <2>1, <2>2
<1>7. HeapNumbered'
  BY <1>3, <1>4, <1>6 DEF HeapNumbered
<1> QED BY <1>2, <1>3, <1>7

\* A builder numbers its events from 0.
LEMMA OrderBuild ==
  ASSUME IInv, OrderInv, StampsTogether', NEW s \in Shards, BuildShard(s)
  PROVE  OrderInv'
<1>1. ShardTypeOK /\ UNCHANGED <<pending, trace, window>>
  BY DEF BuildShard, Build, IInv, TypeInv, TypeOK
<1>2. CASE program.builder[s] = NoError
  <2>1. /\ heap'[s] = {[time |-> Plus(0, program.boot[s][i].delay), prio |-> program.boot[s][i].prio,
                        eid |-> i - 1, label |-> program.boot[s][i].label,
                        origin |-> {}, error |-> NoError] : i \in DOMAIN program.boot[s]}
        /\ eid'[s] = Len(program.boot[s])
        /\ \A t \in Shards \ {s} : heap'[t] = heap[t] /\ eid'[t] = eid[t]
    BY <1>1, <1>2 DEF BuildShard, Build, ShardTypeOK
  <2>2. program.boot[s] \in Seq([delay : Times, prio : {URGENT, NORMAL}, label : Labels])
    BY <1>1, ProgramAssumption DEF ShardTypeOK, Program
  <2>3. \A i, j \in DOMAIN program.boot[s] : i - 1 < Len(program.boot[s]) /\ (i - 1 = j - 1 => i = j)
    BY <2>2
  <2>4. ASSUME NEW e \in heap'[s], NEW f \in heap'[s]
        PROVE  e.origin = {} /\ e.eid < eid'[s] /\ (e.eid = f.eid => e = f)
    <3>1. PICK i \in DOMAIN program.boot[s] :
            e = [time |-> Plus(0, program.boot[s][i].delay), prio |-> program.boot[s][i].prio,
                 eid |-> i - 1, label |-> program.boot[s][i].label, origin |-> {}, error |-> NoError]
      BY <2>1
    <3>2. PICK j \in DOMAIN program.boot[s] :
            f = [time |-> Plus(0, program.boot[s][j].delay), prio |-> program.boot[s][j].prio,
                 eid |-> j - 1, label |-> program.boot[s][j].label, origin |-> {}, error |-> NoError]
      BY <2>1
    <3>3. e.eid = f.eid => i = j
      BY <2>3, <3>1, <3>2
    <3> QED BY <2>1, <2>3, <3>1, <3>2, <3>3
  <2>5. HeapNumbered'
    BY <2>1, <2>4 DEF OrderInv, HeapNumbered
  <2> QED BY <1>1, <2>1, <2>4, <2>5, OrderHeap
<1>3. CASE program.builder[s] # NoError
  <2>1. UNCHANGED <<heap, eid>>
    BY <1>3 DEF BuildShard, Build
  <2> QED BY <1>1, <2>1, OrderHeap DEF OrderInv, HeapNumbered
<1> QED BY <1>2, <1>3

\* Drained mail is stamped at the window or later: behind all that was
\* delivered before.
LEMMA OrderReport ==
  ASSUME IInv, OrderInv, StampsTogether', NEW s \in Shards, Report(s)
  PROVE  OrderInv'
<1> USE DEF OrderInv
<1>1. ShardTypeOK
  BY DEF IInv, TypeInv, TypeOK
<1>2. /\ pending'[s] = pending[s] \cup Inflight(s)
      /\ \A t \in Shards \ {s} : pending'[t] = pending[t]
      /\ UNCHANGED <<heap, eid, trace, window>>
  BY <1>1 DEF Report, Absorb, ShardTypeOK
<1>3. \A k \in Inflight(s) : k.timestamp \in Nat /\ window <= k.timestamp
  BY <1>1, WorkTimes DEF Inflight, Inbound, IInv, TypeInv, MailOutside
<1>4. window \in Nat
  BY WindowCases
<1>5. HeapNumbered' /\ ArrivalOfMessage' /\ RecordOfMessage' /\ ScheduledInOrder'
        /\ ProcessedBeforeScheduled' /\ DeliveryOrder'
  BY <1>2 DEF HeapNumbered, ArrivalOfMessage, RecordOfMessage, ScheduledInOrder,
              ProcessedBeforeScheduled, DeliveryOrder
<1>6. \A m, k : m.timestamp \in Nat /\ m.timestamp < window /\ k \in Inflight(s) => KeyBefore(m, k)
  BY <1>3, <1>4 DEF KeyBefore
<1>7. ScheduledBeforePending'
  <2>1. \A e \in heap[s] : \A m \in e.origin : m.timestamp \in Nat /\ m.timestamp < window
    BY <1>1, KeyTypes DEF ArrivalOfMessage
  <2> QED BY <1>2, <1>6, <2>1 DEF ScheduledBeforePending
<1>8. ProcessedBeforePending'
  <2>1. \A i \in DOMAIN trace[s] : \A m \in trace[s][i].origin :
          m.timestamp \in Nat /\ m.timestamp < window
    BY <1>1, KeyTypes DEF RecordOfMessage
  <2> QED BY <1>2, <1>6, <2>1 DEF ProcessedBeforePending
<1> QED BY <1>5, <1>7, <1>8

\* The least pending message is scheduled, behind those scheduled before.
LEMMA OrderDeliver ==
  ASSUME NoEarlyArrival, NoOvershoot, IInv, OrderInv, NEW s \in Shards, DeliverOne(s)
  PROVE  OrderInv'
<1> USE DEF OrderInv
<1>1. ShardTypeOK
  BY DEF IInv, TypeInv, TypeOK
<1>2. PICK m \in pending[s] :
        /\ m.timestamp < window
        /\ \A k \in pending[s] \ {m} : KeyBefore(m, k)
        /\ pending' = [pending EXCEPT ![s] = @ \ {m}]
        /\ ~ (m.timestamp < now[s]) =>
             Schedule(s, Minus(m.timestamp, now[s]), NORMAL, m.label, {m}, NoError)
  BY DEF DeliverOne, Deliver
<1>3. now[s] <= m.timestamp /\ now[s] \in Times /\ m.timestamp \in Times
  BY <1>1 DEF IInv, ClockOrder, ShardTypeOK, Message
<1>4. Schedule(s, Minus(m.timestamp, now[s]), NORMAL, m.label, {m}, NoError)
  BY <1>2, <1>3 DEF Times
<1>0. Plus(now[s], Minus(m.timestamp, now[s])) \in Nat
  BY <1>3, MinusType, PlusType DEF Times
<1>5. /\ m.timestamp <= Plus(now[s], Minus(m.timestamp, now[s]))
      /\ \A v \in Times : m.timestamp < v => Plus(now[s], Minus(m.timestamp, now[s])) <= v
  <2>1. m.timestamp <= Plus(now[s], Minus(m.timestamp, now[s]))
    BY <1>0, <1>3 DEF NoEarlyArrival, Times
  <2> QED BY <1>3, <2>1 DEF NoOvershoot
<1>6. HeapNumbered'
  BY <1>1, <1>4, NumberedBySchedule
<1>7. PICK x : /\ heap'[s] = heap[s] \cup {x} /\ x.origin = {m} /\ x.eid = eid[s]
               /\ x.time = Plus(now[s], Minus(m.timestamp, now[s])) /\ x.prio = NORMAL
  BY <1>1, <1>4, NumberedBySchedule
<1>8. /\ \A t \in Shards \ {s} : heap'[t] = heap[t] /\ pending'[t] = pending[t]
      /\ pending'[s] = pending[s] \ {m}
      /\ phase[s] = "deliver" /\ UNCHANGED <<trace, now, window>>
  BY <1>1, <1>2, <1>4, NumberedBySchedule DEF DeliverOne, Deliver, ShardTypeOK
<1>9. ArrivalOfMessage' /\ RecordOfMessage' /\ DeliveryOrder'
  BY <1>2, <1>5, <1>7, <1>8 DEF ArrivalOfMessage, RecordOfMessage, DeliveryOrder
<1>10. ScheduledInOrder'
  <2>1. \A e \in heap[s] : e.eid \in Nat /\ e.eid < eid[s]
    BY <1>1, KeyTypes DEF HeapNumbered
  <2>2. \A e \in heap[s] : ~ (x.eid < e.eid)
    BY <1>1, <1>7, <2>1, KeyTypes
  <2>3. ~ (x.eid < x.eid)
    BY <1>1, <1>7, KeyTypes
  <2>4. ASSUME NEW e \in heap[s], NEW k \in e.origin
        PROVE  KeyBefore(k, m) /\ e.time <= x.time
    <3>1. KeyBefore(k, m)
      BY DEF ScheduledBeforePending
    <3>2. e.time \in Nat /\ k.timestamp \in Nat /\ x.time \in Nat /\ m.timestamp \in Nat
      <4>1. x.time \in Nat
        BY <1>0, <1>7
      <4> QED BY <1>1, <1>3, <4>1, KeyTypes DEF Times
    <3>3. CASE k.timestamp < m.timestamp
      <4>1. e.time <= m.timestamp
        BY <1>3, <3>3 DEF ArrivalOfMessage
      <4>2. m.timestamp <= x.time
        BY <1>5, <1>7
      <4> QED BY <3>1, <3>2, <4>1, <4>2
    <3>4. CASE k.timestamp = m.timestamp
      <4>1. ~ (k.timestamp < m.timestamp)
        BY <3>2, <3>4
      <4>2. e.time = x.time
        BY <1>7, <1>8, <3>4, <4>1 DEF StampsTogether
      <4> QED BY <3>1, <3>2, <4>2
    <3> QED BY <3>1, <3>3, <3>4 DEF KeyBefore
  <2> QED BY <1>7, <1>8, <2>2, <2>3, <2>4 DEF ScheduledInOrder
<1>11. ScheduledBeforePending'
  BY <1>2, <1>7, <1>8 DEF ScheduledBeforePending
<1>12. ProcessedBeforeScheduled'
  BY <1>7, <1>8 DEF ProcessedBeforeScheduled, ProcessedBeforePending
<1>13. ProcessedBeforePending'
  BY <1>8 DEF ProcessedBeforePending
<1>14. StampsTogether'
  <2>1. \A t \in Shards \ {s} : phase'[t] = "deliver" => phase[t] = "deliver"
    BY DEF DeliverOne, Proceed, IInv, TypeInv, TypeOK
  <2> QED BY <1>7, <1>8, <2>1 DEF StampsTogether
<1> QED BY <1>6, <1>9, <1>10, <1>11, <1>12, <1>13, <1>14

\* The first event of the heap carries the first of its messages.
LEMMA OrderExecute ==
  ASSUME IInv, OrderInv, StampsTogether', NEW s \in Shards, ExecuteOne(s)
  PROVE  OrderInv'
<1> USE DEF OrderInv
<1>1. ShardTypeOK
  BY DEF IInv, TypeInv, TypeOK
<1>2. PICK e \in heap[s] :
        /\ IsFirst(e, s)
        /\ heap' = [heap EXCEPT ![s] = @ \ {e}]
        /\ trace' = [trace EXCEPT ![s] = Append(@, e)]
  BY DEF ExecuteOne, Step
<1> DEFINE n == Len(trace[s]) + 1
<1>3. /\ heap'[s] = heap[s] \ {e} /\ trace'[s] = Append(trace[s], e) /\ trace[s] \in Seq(Event)
      /\ \A t \in Shards \ {s} : heap'[t] = heap[t] /\ trace'[t] = trace[t]
      /\ UNCHANGED <<eid, pending, window>>
  BY <1>1, <1>2 DEF ExecuteOne, Step, ShardTypeOK
<1>4. /\ DOMAIN trace'[s] = DOMAIN trace[s] \cup {n} /\ n \notin DOMAIN trace[s]
      /\ trace'[s][n] = e /\ \A i \in DOMAIN trace[s] : trace'[s][i] = trace[s][i]
      /\ \A i \in DOMAIN trace[s] : ~ (n < i)
      /\ ~ (n < n)
  <2>1. Len(trace[s]) \in Nat /\ DOMAIN trace[s] = 1 .. Len(trace[s])
    BY <1>3
  <2>2. \A i \in DOMAIN trace[s] : ~ (n < i)
    BY <2>1
  <2>3. ~ (n < n)
    BY <2>1
  <2> QED BY <1>3, <2>2, <2>3, Recorded
<1> HIDE DEF n
<1>5. HeapNumbered' /\ ScheduledInOrder' /\ ScheduledBeforePending' /\ ArrivalOfMessage'
  BY <1>3 DEF HeapNumbered, ScheduledInOrder, ScheduledBeforePending, ArrivalOfMessage
<1>6. RecordOfMessage'
  BY <1>3, <1>4, SMTT(30) DEF RecordOfMessage, ArrivalOfMessage
<1>7. ASSUME NEW f \in heap[s] \ {e}, NEW m \in e.origin, NEW k \in f.origin
      PROVE  KeyBefore(m, k)
  <2>1. /\ e.prio = f.prio /\ e.prio \in Nat /\ e.time \in Nat /\ f.time \in Nat
        /\ e.eid \in Nat /\ f.eid \in Nat /\ e.eid # f.eid
    BY <1>1, KeyTypes DEF ArrivalOfMessage, HeapNumbered
  <2>2. e.time < f.time \/ (e.time = f.time /\ e.eid < f.eid)
    BY <1>2, <2>1 DEF IsFirst, Before
  <2>3. CASE e.eid < f.eid
    BY <2>3 DEF ScheduledInOrder
  <2>4. CASE f.eid < e.eid
    <3>1. f.time <= e.time
      BY <2>4 DEF ScheduledInOrder
    <3> QED BY <2>1, <2>2, <2>4, <3>1
  <2> QED BY <2>1, <2>3, <2>4
<1>8. ProcessedBeforeScheduled'
  BY <1>3, <1>4, <1>7 DEF ProcessedBeforeScheduled
<1>9. ProcessedBeforePending'
  BY <1>3, <1>4 DEF ProcessedBeforePending, ScheduledBeforePending
<1>10. DeliveryOrder'
  <2>1. ASSUME NEW i \in DOMAIN trace'[s], NEW j \in DOMAIN trace'[s], i < j,
               NEW m \in trace'[s][i].origin, NEW k \in trace'[s][j].origin
        PROVE  KeyBefore(m, k)
    <3>1. i \in DOMAIN trace[s]
      BY <1>4, <2>1
    <3>2. CASE j \in DOMAIN trace[s]
      BY <1>4, <2>1, <3>1, <3>2 DEF DeliveryOrder
    <3>3. CASE j = n
      BY <1>4, <2>1, <3>1, <3>3 DEF ProcessedBeforeScheduled
    <3> QED BY <1>4, <3>2, <3>3
  <2> QED BY <1>3, <2>1 DEF DeliveryOrder
<1> QED BY <1>5, <1>6, <1>8, <1>9, <1>10

LEMMA OrderStep ==
  ASSUME NoEarlyArrival, NoOvershoot, IInv, OrderInv, [Next]_vars
  PROVE  OrderInv'
<1>1. ShardTypeOK /\ window \in Nat
  BY WindowCases DEF IInv, TypeInv, TypeOK
<1>2. ASSUME NEW s \in Shards, DeliverOne(s) PROVE OrderInv'
  BY <1>2, OrderDeliver
<1>3. CASE \A s \in Shards : ~ DeliverOne(s)
  <2>1. StampsTogether'
    BY <1>3, StampsStep
  <2>2. ASSUME NEW s \in Shards, RunOne(s) PROVE OrderInv'
    <3>1. UNCHANGED <<pending, trace, window>>
      BY <2>2 DEF RunOne, RunBody, RunSend, RunSchedule, RunFailure, roundVars
    <3>2. CASE RunSend(s)
      <4>1. UNCHANGED <<heap, eid>>
        BY <3>2 DEF RunSend
      <4> QED BY <1>1, <2>1, <3>1, <4>1, OrderStill
    <3>3. CASE RunSchedule(s) \/ RunFailure(s)
      <4>1. \E delay, prio, label, error : Schedule(s, delay, prio, label, {}, error)
        BY <3>3 DEF RunSchedule, RunFailure
      <4>2. /\ HeapNumbered' /\ \A t \in Shards \ {s} : heap'[t] = heap[t]
            /\ \E x : heap'[s] = heap[s] \cup {x} /\ x.origin = {}
        BY <1>1, <4>1, NumberedBySchedule DEF OrderInv
      <4> QED BY <1>1, <2>1, <3>1, <4>2, OrderHeap
    <3> QED BY <2>2, <3>2, <3>3 DEF RunOne, RunBody
  <2>3. ASSUME NEW s \in Shards, StartExecuting(s) \/ CompleteWindow(s) \/ Halt(s) PROVE OrderInv'
    <3>1. UNCHANGED <<pending, heap, eid, trace, window>>
      BY <2>3 DEF StartExecuting, CompleteWindow, Halt, shardVars
    <3> QED BY <1>1, <2>1, <3>1, OrderStill
  <2>4. CASE Wire \/ NextRound \/ UNCHANGED vars
    <3>1. UNCHANGED <<pending, heap, eid, trace, window>>
      BY <2>4 DEF Wire, NextRound, vars, shardVars, roundVars
    <3> QED BY <1>1, <2>1, <3>1, OrderStill
  <2>5. CASE DecideStop \/ DecideWindow
    <3>1. UNCHANGED <<pending, heap, eid, trace>>
      BY <2>5 DEF DecideStop, DecideWindow, shardVars
    <3> QED BY <1>1, <2>1, <2>5, <3>1, WindowGrows, OrderStill
  <2>6. ASSUME NEW s \in Shards, ShardAction(s) PROVE OrderInv'
    BY <1>2, <2>1, <2>2, <2>3, <2>6, OrderBuild, OrderReport, OrderExecute DEF ShardAction
  <2> QED BY <2>4, <2>5, <2>6 DEF Next, Over
<1> QED BY <1>2, <1>3

\* Over the whole run a shard processes the messages of its inbox in the
\* normative order of the pending heap (timestamp, channel id, sequence), for
\* every interleaving of the senders, if arrivals land on their stamps or,
\* next to them, after them.
THEOREM DeliveryOrderTheorem ==
  NoEarlyArrival /\ NoOvershoot => (Spec => []DeliveryOrder)
<1> SUFFICES ASSUME NoEarlyArrival, NoOvershoot PROVE Spec => []DeliveryOrder
  OBVIOUS
<1>1. Init => OrderInv
  BY OrderInit
<1>2. IInv /\ OrderInv /\ [Next]_vars => OrderInv'
  BY OrderStep
<1>3. OrderInv => DeliveryOrder
  BY DEF OrderInv
<1>4. Spec => []IInv
  BY Invariance
<1> QED BY <1>1, <1>2, <1>3, <1>4, PTL DEF Spec
=============================================================================
