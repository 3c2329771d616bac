--------------------------- MODULE PdesThreadsProofs ---------------------------
(***************************************************************************)
(* run_threaded: where its threads and its barrier can be, for every       *)
(* number of shards, topology and model, and what follows from it.         *)
(***************************************************************************)
EXTENDS PdesThreads, PdesShardProofs

LEMMA ThreadIds ==
  /\ Coordinator \in Threads /\ Coordinator \notin Shards /\ Shards \subseteq Threads
  /\ \A p \in Threads : p = Coordinator \/ p \in Shards
  /\ \A p \in Threads : Threads \ {p} # {}
<1>1. N \in Nat \ {0} /\ 0 \in Shards /\ 0 # N
  BY ShardsAssumption DEF Shards
<1>2. N \notin Shards
  BY <1>1 DEF Shards
<1> QED BY <1>1, <1>2 DEF Threads, Coordinator

\* A thread moves, and the others stay.
LEMMA Moves ==
  ASSUME TypeOK, NEW p \in Threads, NEW point, Goto(p, point)
  PROVE  pc'[p] = point /\ \A q \in Threads \ {p} : pc'[q] = pc[q]
BY DEF TypeOK, Goto

-----------------------------------------------------------------------------
(* The inductive invariant. *)

\* The points on the way of a shard, and of the coordinator, to barrier b.
ShardOnWay(b, point) ==
  \/ b = "built"    /\ point \in {"build", "built"}
  \/ b = "ready"    /\ point = "ready"
  \/ b = "reported" /\ point \in {"bound", "reported"}
  \/ b = "decided"  /\ point = "decided"
  \/ b = "complete" /\ point \in {"obey", "deliver", "execute", "complete"}

CoordinatorOnWay(b, point) ==
  \/ b = "built"    /\ point \in {"start", "built"}
  \/ b = "ready"    /\ point \in {"wire", "ready"}
  \/ b = "reported" /\ point = "reported"
  \/ b = "decided"  /\ point \in {"decide", "decided"}
  \/ b = "complete" /\ point \in {"check", "complete"}

\* The barrier that was released last, when the threads are on the way to b.
Behind(b, point) ==
  \/ b = "ready"    /\ point = "built"
  \/ b = "reported" /\ point \in {"ready", "complete"}
  \/ b = "decided"  /\ point = "reported"
  \/ b = "complete" /\ point = "decided"

\* A thread that has still to wake up in the barrier released last.
Asleep(b, p) == draining /\ p \in inside /\ Behind(b, pc[p])

Over == broken \/ decision.stop

ShardPlaced(b, s) ==
  \/ ShardOnWay(b, pc[s])
  \/ Asleep(b, s)
  \/ pc[s] \in {"failing", "abort"} /\ raised[s] # NoError
  \/ pc[s] = "done" /\ Over

CoordinatorPlaced(b) ==
  \/ CoordinatorOnWay(b, pc[Coordinator])
  \/ Asleep(b, Coordinator)
  \/ pc[Coordinator] = "abort" /\ coordinatorError # NoError
  \/ pc[Coordinator] \in {"join", "returned"} /\ Over

InsideBarrier(b) ==
  /\ \A p \in inside : IF draining THEN Behind(b, pc[p]) ELSE pc[p] = b
  /\ draining /\ ~ broken => inside # {}

WiredWhen(b) ==
  wired <=> (b \notin {"built", "ready"} \/ (b = "ready" /\ pc[Coordinator] = "ready"))

\* After the decision to stop, the threads only end.
Stopping(b) ==
  decision.stop =>
    /\ ~ broken /\ b \in {"decided", "complete"}
    /\ b = "decided" => pc[Coordinator] = "decided"
    /\ pc[Coordinator] # "complete"
    /\ \A s \in Shards : pc[s] \notin {"deliver", "execute", "complete"}

BrokenByFailure == broken => coordinatorError # NoError \/ \E s \in Shards : raised[s] # NoError

CoordinatorFailed(b) ==
  coordinatorError # NoError =>
    b \in {"ready", "decided"} /\ pc[Coordinator] \in {"abort", "join", "returned"}

ShardFailed(b) ==
  \A s \in Shards : raised[s] # NoError =>
    b \in {"built", "complete"} /\ pc[s] \in {"failing", "abort", "done"} /\ ~ decision.stop

\* A report covers all work of its shard until the decision on it is obeyed.
Quiet(s, t) ==
  /\ Inflight(s) = {} /\ body[s] = <<>>
  /\ \A e \in heap[s] : t <= e.time
  /\ \A m \in pending[s] : t <= m.timestamp

ReportsHold(b) ==
  b \in {"reported", "decided"} =>
    \A s \in Shards : pc[s] \in {"reported", "decided"} => Quiet(s, bounds[s].next)

\* All threads are on their way to barrier b, unless they have failed or ended.
Placed(b) ==
  /\ \A s \in Shards : ShardPlaced(b, s)
  /\ CoordinatorPlaced(b)
  /\ InsideBarrier(b)
  /\ WiredWhen(b)
  /\ Stopping(b)
  /\ CoordinatorFailed(b)
  /\ ShardFailed(b)

BodyRuns == \A s \in Shards : body[s] # <<>> => pc[s] = "execute" /\ trace[s] # <<>>

ErrorsRecorded ==
  \A s \in Shards : raised[s] # NoError /\ pc[s] \in {"abort", "done"} => s \in errors

StartingThreads == pc[Coordinator] = "start" => started < N

StopIsQuiet == decision.stop => \A s \in Shards : Quiet(s, Until)

ReturnedStopped == outcome = Returned => decision.stop

\* The inductive invariant of run_threaded.
ThreadsInv ==
  /\ TypeOK
  /\ BrokenByFailure /\ BodyRuns /\ ErrorsRecorded /\ StartingThreads
  /\ StopIsQuiet /\ ReturnedStopped
  /\ \E b \in Barriers : Placed(b) /\ ReportsHold(b)

-----------------------------------------------------------------------------
(* Types. *)

LEMMA TypesInit == Init => TypeOK
<1> SUFFICES ASSUME Init PROVE TypeOK
  OBVIOUS
<1>1. 0 \in Times /\ N \in Nat
  BY TimeAssumption, RoundAssumption, ShardsAssumption DEF Times
<1>2. ShardTypeOK
  BY <1>1 DEF Init, ShardInit, ShardTypeOK, Errors, NoError
<1>3. bounds \in [Shards -> [next : Times, bound : Times]]
  BY <1>1 DEF Init
<1>4. decision \in [stop : BOOLEAN, window : Times]
  BY <1>1, Zenon DEF Init
<1>5. pc \in [Threads -> ShardPoints \cup CoordinatorPoints]
  BY DEF Init, ShardPoints, CoordinatorPoints
<1>6. inside \subseteq Threads /\ errors \subseteq Shards
  BY DEF Init
<1>7. coordinatorError \in {NoError, "topology", "horizon"} /\ horizon \in Times \cup {-1}
  BY DEF Init
<1>8. started \in 0 .. N
  BY <1>1 DEF Init
<1>9. draining \in BOOLEAN /\ broken \in BOOLEAN /\ wired \in BOOLEAN
  BY Zenon DEF Init
<1> QED BY <1>2, <1>3, <1>4, <1>5, <1>6, <1>7, <1>8, <1>9, Zenon DEF TypeOK

\* What the coordinator decides on is a time.
LEMMA DecisionTypes ==
  ASSUME bounds \in [Shards -> [next : Times, bound : Times]]
  PROVE  /\ NextMin(bounds) \in Times /\ Horizon(bounds) \in Times
         /\ \A s \in Shards : NextMin(bounds) <= bounds[s].next
         /\ Min({Horizon(bounds), Until}) \in Times
<1> DEFINE nexts == {bounds[s].next : s \in Shards}
           limits == {bounds[s].bound : s \in Shards}
<1>1. Times \subseteq Nat /\ 0 \in Shards
  BY ShardsAssumption DEF Times, Shards
<1>2. nexts \subseteq Times /\ limits \subseteq Times
  OBVIOUS
<1>3. bounds[0].next \in nexts /\ bounds[0].bound \in limits
  BY <1>1
<1>4. nexts \in SUBSET Nat /\ nexts # {} /\ limits \in SUBSET Nat /\ limits # {}
  BY <1>1, <1>2, <1>3
<1>5. NextMin(bounds) = Min(nexts) /\ Horizon(bounds) = Min(limits)
  BY DEF NextMin, Horizon
<1>6. Min(nexts) \in nexts /\ \A y \in nexts : Min(nexts) <= y
  BY <1>4, MinIsLeast
<1>7. Min(limits) \in limits
  BY <1>4, MinIsLeast
<1>8. NextMin(bounds) \in Times /\ Horizon(bounds) \in Times
  BY <1>2, <1>5, <1>6, <1>7
<1>9. ASSUME NEW s \in Shards PROVE NextMin(bounds) <= bounds[s].next
  <2>1. bounds[s].next \in nexts
    OBVIOUS
  <2> QED BY <1>5, <1>6, <2>1
<1>10. Min({Horizon(bounds), Until}) \in Times
  <2>1. Horizon(bounds) \in Nat /\ Until \in Nat /\ Until \in Times
    BY <1>1, <1>8, TimeAssumption, UntilAssumption
  <2> QED BY <1>8, <2>1, MinOfTwo
<1> QED BY <1>8, <1>9, <1>10

LEMMA PointTypes ==
  ASSUME TypeOK, NEW p \in Threads, NEW point, Goto(p, point),
         point \in ShardPoints \cup CoordinatorPoints
  PROVE  pc' \in [Threads -> ShardPoints \cup CoordinatorPoints]
BY DEF TypeOK, Goto

\* Where a thread goes on after the barrier is one of its points.
LEMMA PassTypes ==
  ASSUME NEW p, NEW b \in Barriers
  PROVE  AfterBarrier(p)[b] \in ShardPoints \cup CoordinatorPoints
BY DEF AfterBarrier, Barriers, ShardPoints, CoordinatorPoints

LEMMA ShardTypes ==
  ASSUME TypeOK, BodyRuns, NEW s \in Shards,
         \/ ThreadBuild(s) \/ ThreadDeliver(s) \/ ThreadExecute(s)
  PROVE  TypeOK'
<1>1. s \in Threads
  BY ThreadIds
<1>2. ShardTypeOK'
  <2>1. CASE ThreadBuild(s)
    BY <2>1, BuildType DEF ThreadBuild, TypeOK
  <2>2. CASE ThreadDeliver(s)
    BY <2>2, DeliverType DEF ThreadDeliver, TypeOK
  <2>3. CASE ThreadExecute(s) /\ Step(s, decision.window)
    BY <2>3, StepType DEF TypeOK
  <2>4. CASE ThreadExecute(s) /\ RunBody(s)
    <3>1. RunFailure(s) => trace[s] # <<>>
      BY DEF RunFailure, BodyRuns
    <3> QED BY <2>4, <3>1, RunScheduleType, RunSendType, RunFailureType DEF RunBody, TypeOK
  <2> QED BY <2>1, <2>2, <2>3, <2>4 DEF ThreadExecute
<1>3. pc' \in [Threads -> ShardPoints \cup CoordinatorPoints]
  BY <1>1, PointTypes DEF ThreadBuild, ThreadDeliver, ThreadExecute, Proceed, ShardPoints, Barriers
<1>4. UNCHANGED <<started, barrierVars, sharedVars>>
  BY DEF ThreadBuild, ThreadDeliver, ThreadExecute
<1> QED BY <1>2, <1>3, <1>4 DEF TypeOK, barrierVars, sharedVars

LEMMA BoundTypes ==
  ASSUME TypeOK, NEW s \in Shards, ThreadBound(s)
  PROVE  TypeOK'
<1>1. s \in Threads
  BY ThreadIds
<1>2. ShardTypeOK
  BY DEF TypeOK
<1>3. pending' \in [Shards -> SUBSET Message] /\ mail' \in [Channels -> SUBSET Message]
  BY <1>2, AbsorbType DEF ThreadBound
<1>4. ShardTypeOK'
  BY <1>2, <1>3 DEF ShardTypeOK, ThreadBound
<1>5. bounds' \in [Shards -> [next : Times, bound : Times]]
  BY <1>2, BoundType DEF TypeOK, ThreadBound
<1>6. pc' \in [Threads -> ShardPoints \cup CoordinatorPoints]
  BY <1>1, PointTypes DEF ThreadBound, ShardPoints, Barriers
<1> QED BY <1>4, <1>5, <1>6 DEF TypeOK, ThreadBound, barrierVars

LEMMA ShardIdleTypes ==
  ASSUME TypeOK, NEW s \in Shards,
         \/ ThreadObey(s) \/ ThreadDelivered(s) \/ ThreadComplete(s) \/ RecordError(s)
  PROVE  TypeOK'
<1>1. s \in Threads
  BY ThreadIds
<1>2. UNCHANGED shardVars
  BY DEF ThreadObey, ThreadDelivered, ThreadComplete, RecordError
<1>3. ShardTypeOK'
  BY <1>2 DEF TypeOK, ShardTypeOK, shardVars
<1>4. pc' \in [Threads -> ShardPoints \cup CoordinatorPoints]
  BY <1>1, PointTypes DEF ThreadObey, ThreadDelivered, ThreadComplete, RecordError,
     ShardPoints, Barriers
<1>5. errors' \subseteq Shards
  BY DEF TypeOK, ThreadObey, ThreadDelivered, ThreadComplete, RecordError, sharedVars
<1>6. /\ UNCHANGED <<started, inside, draining, broken, wired>>
      /\ UNCHANGED <<bounds, decision, horizon, coordinatorError>>
  BY DEF ThreadObey, ThreadDelivered, ThreadComplete, RecordError, barrierVars, sharedVars
<1> QED BY <1>3, <1>4, <1>5, <1>6 DEF TypeOK

LEMMA BarrierTypes ==
  ASSUME TypeOK, NEW p \in Threads, p \in inside => pc[p] \in Barriers, Barrier(p)
  PROVE  TypeOK'
<1>1. UNCHANGED shardVars /\ UNCHANGED <<started, sharedVars>>
  BY DEF Barrier, Arrive, Release, Pass, MeetBroken, AbortBarrier
<1>2. ShardTypeOK'
  BY <1>1 DEF TypeOK, ShardTypeOK, shardVars
<1>3. inside' \subseteq Threads /\ draining' \in BOOLEAN /\ broken' \in BOOLEAN
  BY DEF TypeOK, Barrier, Arrive, Release, Pass, MeetBroken, AbortBarrier
<1>4. pc' \in [Threads -> ShardPoints \cup CoordinatorPoints]
  <2>1. CASE Arrive(p)
    BY <2>1 DEF TypeOK, Arrive
  <2>2. CASE MeetBroken(p) \/ AbortBarrier(p)
    BY <2>2, PointTypes DEF MeetBroken, AbortBarrier, ShardPoints, CoordinatorPoints
  <2>3. CASE Release(p)
    BY <2>3, PointTypes, PassTypes DEF Release, CanEnter
  <2>4. CASE Pass(p)
    BY <2>4, PointTypes, PassTypes DEF Pass
  <2> QED BY <2>1, <2>2, <2>3, <2>4 DEF Barrier
<1> QED BY <1>1, <1>2, <1>3, <1>4 DEF TypeOK, sharedVars

LEMMA StartTypes ==
  ASSUME TypeOK, StartingThreads, StartThread
  PROVE  TypeOK'
<1>1. Coordinator \in Threads
  BY ThreadIds
<1>2. UNCHANGED <<shardVars, barrierVars, sharedVars>>
  BY DEF StartThread
<1>3. ShardTypeOK'
  BY <1>2 DEF TypeOK, ShardTypeOK, shardVars
<1>4. pc' \in [Threads -> ShardPoints \cup CoordinatorPoints]
  BY <1>1, PointTypes DEF StartThread, CoordinatorPoints, Barriers
<1>5. started' \in 0 .. N
  BY ShardsAssumption DEF TypeOK, StartThread, StartingThreads
<1> QED BY <1>2, <1>3, <1>4, <1>5 DEF TypeOK, barrierVars, sharedVars

LEMMA CoordinatorTypes ==
  ASSUME TypeOK,
         \/ CoordinatorWire \/ CoordinatorStop \/ CoordinatorWindow
         \/ CoordinatorCheck \/ CoordinatorJoin
  PROVE  TypeOK'
<1>1. Coordinator \in Threads
  BY ThreadIds
<1>2. UNCHANGED <<shardVars, started, barrierVars>> /\ UNCHANGED <<bounds, errors>>
  BY DEF CoordinatorWire, CoordinatorStop, CoordinatorWindow, CoordinatorCheck,
         CoordinatorJoin, sharedVars
<1>3. ShardTypeOK'
  BY <1>2 DEF TypeOK, ShardTypeOK, shardVars
<1>4. pc' \in [Threads -> ShardPoints \cup CoordinatorPoints]
  BY <1>1, PointTypes DEF CoordinatorWire, CoordinatorStop, CoordinatorWindow, CoordinatorCheck,
         CoordinatorJoin, CoordinatorPoints, Barriers
<1>5. /\ NextMin(bounds) \in Times /\ Horizon(bounds) \in Times
      /\ Min({Horizon(bounds), Until}) \in Times /\ Until \in Times
  BY DecisionTypes, TimeAssumption, UntilAssumption DEF TypeOK
<1>6. /\ [stop |-> TRUE, window |-> Until] \in [stop : BOOLEAN, window : Times]
      /\ [stop |-> FALSE, window |-> Min({Horizon(bounds), Until})] \in [stop : BOOLEAN, window : Times]
  BY <1>5, Zenon
<1>7. decision' \in [stop : BOOLEAN, window : Times]
  BY <1>6 DEF TypeOK, CoordinatorWire, CoordinatorStop, CoordinatorWindow, CoordinatorCheck,
         CoordinatorJoin, sharedVars
<1>8. horizon' \in Times \cup {-1}
  BY <1>5 DEF TypeOK, CoordinatorWire, CoordinatorStop, CoordinatorWindow, CoordinatorCheck,
         CoordinatorJoin, sharedVars
<1>9. coordinatorError' \in {NoError, "topology", "horizon"} /\ wired' \in BOOLEAN
  BY DEF TypeOK, CoordinatorWire, CoordinatorStop, CoordinatorWindow, CoordinatorCheck,
         CoordinatorJoin, sharedVars
<1> QED BY <1>2, <1>3, <1>4, <1>7, <1>8, <1>9 DEF TypeOK, barrierVars

-----------------------------------------------------------------------------
(* Where the threads are. *)

\* The stage is told by any thread that is not asleep, failed or ended.
LEMMA StageOfShard ==
  ASSUME NEW b \in Barriers, Placed(b), NEW s \in Shards
  PROVE  /\ pc[s] = "build" => b = "built"
         /\ pc[s] = "bound" => b = "reported"
         /\ pc[s] \in {"obey", "deliver", "execute"} => b = "complete"
         /\ pc[s] \in Barriers /\ ~ draining => pc[s] = b
         /\ pc[s] \in {"failing", "abort"} => raised[s] # NoError
         /\ raised[s] # NoError =>
              /\ b \in {"built", "complete"} /\ ~ decision.stop
              /\ pc[s] \in {"failing", "abort", "done"}
BY DEF Placed, ShardPlaced, ShardOnWay, Asleep, Behind, Barriers, ShardFailed

LEMMA StageOfCoordinator ==
  ASSUME NEW b \in Barriers, Placed(b)
  PROVE  /\ pc[Coordinator] = "start" => b = "built"
         /\ pc[Coordinator] = "wire" => b = "ready"
         /\ pc[Coordinator] = "decide" => b = "decided"
         /\ pc[Coordinator] = "check" => b = "complete"
         /\ pc[Coordinator] \in Barriers /\ ~ draining => pc[Coordinator] = b
         /\ pc[Coordinator] = "abort" => coordinatorError # NoError
         /\ pc[Coordinator] \in {"join", "returned"} => Over
         /\ coordinatorError # NoError =>
              /\ b \in {"ready", "decided"} /\ ~ decision.stop
              /\ pc[Coordinator] \in {"abort", "join", "returned"}
<1>1. coordinatorError # NoError => ~ decision.stop
  BY DEF Placed, Stopping, CoordinatorFailed
<1> QED BY <1>1 DEF Placed, CoordinatorPlaced, CoordinatorOnWay, Asleep, Behind, Barriers,
           CoordinatorFailed

LEMMA InsidePoints ==
  ASSUME NEW b \in Barriers, Placed(b), NEW p \in inside
  PROVE  pc[p] \in Barriers /\ (IF draining THEN Behind(b, pc[p]) ELSE pc[p] = b)
BY DEF Placed, InsideBarrier, Behind, Barriers

LEMMA TypesStep ==
  ASSUME ThreadsInv, [Next]_vars
  PROVE  TypeOK'
<1>1. TypeOK /\ BodyRuns /\ StartingThreads
  BY DEF ThreadsInv
<1>2. \A p \in inside : pc[p] \in Barriers
  <2>1. PICK b \in Barriers : Placed(b)
    BY DEF ThreadsInv
  <2> QED BY <2>1, InsidePoints
<1>3. ASSUME NEW p \in Threads, Barrier(p) PROVE TypeOK'
  BY <1>1, <1>2, <1>3, BarrierTypes
<1>4. ASSUME NEW s \in Shards, ShardThread(s) PROVE TypeOK'
  <2>1. s \in Threads
    BY ThreadIds
  <2> QED BY <1>1, <1>3, <1>4, <2>1, ShardTypes, BoundTypes, ShardIdleTypes DEF ShardThread
<1>5. CASE CoordinatorThread
  <2>1. Coordinator \in Threads
    BY ThreadIds
  <2> QED BY <1>1, <1>3, <1>5, <2>1, StartTypes, CoordinatorTypes DEF CoordinatorThread
<1>6. CASE UNCHANGED vars
  <2>1. ShardTypeOK'
    BY <1>1, <1>6 DEF TypeOK, ShardTypeOK, vars, shardVars
  <2> QED BY <1>1, <1>6, <2>1 DEF TypeOK, vars, threadVars, barrierVars, sharedVars
<1> QED BY <1>4, <1>5, <1>6 DEF Next

-----------------------------------------------------------------------------
(* The steps of a shard's thread outside the barrier. *)

\* A shard's thread that is not asleep moves on its way, fails or obeys.
LEMMA ShardMoves ==
  ASSUME TypeOK, NEW b \in Barriers, Placed(b), BrokenByFailure,
         NEW s \in Shards, s \notin inside, NEW point, Goto(s, point),
         inside' = inside, draining' = draining, broken' = broken, wired' = wired,
         decision' = decision, coordinatorError' = coordinatorError,
         \A t \in Shards \ {s} : raised'[t] = raised[t],
         raised[s] # NoError => raised'[s] # NoError,
         raised'[s] # NoError =>
            point \in {"failing", "abort"} /\ b \in {"built", "complete"} /\ ~ decision.stop,
         raised'[s] = NoError => ShardOnWay(b, point) \/ (point = "done" /\ decision.stop),
         decision.stop => point \notin {"deliver", "execute", "complete"}
  PROVE  Placed(b)' /\ BrokenByFailure'
<1>1. s \in Threads /\ s # Coordinator /\ Coordinator \in Threads /\ Shards \subseteq Threads
  BY ThreadIds
<1>2. pc'[s] = point /\ \A q \in Threads \ {s} : pc'[q] = pc[q]
  BY <1>1, Moves
<1>3. pc'[Coordinator] = pc[Coordinator]
  BY <1>1, <1>2
<1>4. ASSUME NEW t \in Shards PROVE ShardPlaced(b, t)'
  <2>1. CASE t # s
    <3>1. ShardPlaced(b, t)
      BY DEF Placed
    <3>2. pc'[t] = pc[t] /\ raised'[t] = raised[t]
      BY <1>1, <1>2, <2>1
    <3> QED BY <3>1, <3>2 DEF ShardPlaced, Asleep, Over
  <2>2. CASE t = s
    BY <1>2, <2>2 DEF ShardPlaced, Over
  <2> QED BY <2>1, <2>2
<1>5. CoordinatorPlaced(b)'
  <2>1. CoordinatorPlaced(b)
    BY DEF Placed
  <2> QED BY <1>3, <2>1 DEF CoordinatorPlaced, Asleep, Over
<1>6. InsideBarrier(b)'
  <2>1. InsideBarrier(b)
    BY DEF Placed
  <2>2. \A q \in inside : pc'[q] = pc[q]
    BY <1>2 DEF TypeOK
  <2> QED BY <2>1, <2>2 DEF InsideBarrier
<1>7. WiredWhen(b)'
  <2>1. WiredWhen(b)
    BY DEF Placed
  <2> QED BY <1>3, <2>1 DEF WiredWhen
<1>8. Stopping(b)'
  <2>1. Stopping(b)
    BY DEF Placed
  <2>2. \A t \in Shards \ {s} : pc'[t] = pc[t]
    BY <1>1, <1>2
  <2> QED BY <1>2, <1>3, <2>1, <2>2 DEF Stopping
<1>9. CoordinatorFailed(b)'
  <2>1. CoordinatorFailed(b)
    BY DEF Placed
  <2> QED BY <1>3, <2>1 DEF CoordinatorFailed
<1>10. ShardFailed(b)'
  <2>1. ShardFailed(b)
    BY DEF Placed
  <2>2. \A t \in Shards \ {s} : pc'[t] = pc[t]
    BY <1>1, <1>2
  <2> QED BY <1>2, <2>1, <2>2 DEF ShardFailed
<1>11. BrokenByFailure'
  BY DEF BrokenByFailure
<1> QED BY <1>4, <1>5, <1>6, <1>7, <1>8, <1>9, <1>10, <1>11 DEF Placed

\* What such a step leaves alone of the rest of the invariant.
LEMMA ShardRecords ==
  ASSUME TypeOK, ErrorsRecorded, StartingThreads, ReturnedStopped, StopIsQuiet,
         NEW s \in Shards, NEW point, Goto(s, point),
         errors \subseteq errors', started' = started, outcome' = outcome, decision' = decision,
         \A t \in Shards \ {s} : raised'[t] = raised[t],
         raised'[s] # NoError /\ point \in {"abort", "done"} => s \in errors',
         decision.stop => UNCHANGED shardVars
  PROVE  ErrorsRecorded' /\ StartingThreads' /\ ReturnedStopped' /\ StopIsQuiet'
<1>1. s \in Threads /\ s # Coordinator /\ Coordinator \in Threads /\ Shards \subseteq Threads
  BY ThreadIds
<1>2. pc'[s] = point /\ \A q \in Threads \ {s} : pc'[q] = pc[q]
  BY <1>1, Moves
<1>3. ErrorsRecorded'
  <2>1. \A t \in Shards \ {s} : pc'[t] = pc[t]
    BY <1>1, <1>2
  <2> QED BY <1>2, <2>1 DEF ErrorsRecorded
<1>4. StartingThreads'
  BY <1>1, <1>2 DEF StartingThreads
<1>5. ReturnedStopped'
  BY DEF ReturnedStopped
<1>6. StopIsQuiet'
  BY DEF StopIsQuiet, Quiet, Inflight, Inbound, shardVars
<1> QED BY <1>3, <1>4, <1>5, <1>6

\* Only a shard that executes its window has a body to run.
LEMMA BodyRunsOn ==
  ASSUME TypeOK, BodyRuns, NEW s \in Shards, NEW point, Goto(s, point),
         \A t \in Shards \ {s} : body'[t] = body[t] /\ trace'[t] = trace[t],
         body'[s] # <<>> => point = "execute" /\ trace'[s] # <<>>
  PROVE  BodyRuns'
<1>1. s \in Threads /\ Shards \subseteq Threads
  BY ThreadIds
<1>2. pc'[s] = point /\ \A t \in Shards \ {s} : pc'[t] = pc[t]
  BY <1>1, Moves
<1> QED BY <1>2 DEF BodyRuns

\* A shard's thread outside the barrier is not inside it, and the stage and
\* its exceptions are told by its point.
LEMMA ShardOutside ==
  ASSUME ThreadsInv, NEW s \in Shards, pc[s] \notin Barriers
  PROVE  /\ s \notin inside
         /\ pc[s] # "execute" => body[s] = <<>>
         /\ pc[s] \in {"build", "bound", "obey", "deliver", "execute"} => raised[s] = NoError
         /\ pc[s] \in {"build", "bound", "deliver", "execute"} => ~ decision.stop
<1>1. PICK b \in Barriers : Placed(b)
  BY DEF ThreadsInv
<1>2. s \notin inside
  BY <1>1, InsidePoints
<1>3. pc[s] # "execute" => body[s] = <<>>
  BY DEF ThreadsInv, BodyRuns
<1>4. pc[s] \in {"build", "bound", "obey", "deliver", "execute"} => raised[s] = NoError
  BY <1>1, StageOfShard
<1>5. pc[s] \in {"build", "bound", "deliver", "execute"} => ~ decision.stop
  BY <1>1, StageOfShard DEF Placed, Stopping
<1> QED BY <1>2, <1>3, <1>4, <1>5

LEMMA ThreadBuildInv ==
  ASSUME ThreadsInv, NEW s \in Shards, ThreadBuild(s)
  PROVE  ThreadsInv'
<1>1. PICK b \in Barriers : Placed(b)
  BY DEF ThreadsInv
<1>2. b = "built" /\ s \notin inside /\ raised[s] = NoError /\ body[s] = <<>> /\ ~ decision.stop
  BY <1>1, StageOfShard, ShardOutside DEF ThreadBuild, Barriers
<1>3. PICK point \in {"built", "failing"} :
        Goto(s, point) /\ (point = "failing" <=> raised'[s] # NoError)
  BY DEF ThreadBuild, Proceed
<1>4. TypeOK
  BY DEF ThreadsInv
<1>5. \A t \in Shards \ {s} : raised'[t] = raised[t]
  BY <1>4 DEF TypeOK, ShardTypeOK, ThreadBuild, Build
<1>6. TypeOK'
  BY TypesStep DEF Next, ShardThread
<1>7. Placed(b)' /\ BrokenByFailure'
  BY <1>1, <1>2, <1>3, <1>4, <1>5, ShardMoves
     DEF ThreadBuild, barrierVars, sharedVars, ThreadsInv, ShardOnWay
<1>8. ErrorsRecorded' /\ StartingThreads' /\ ReturnedStopped' /\ StopIsQuiet'
  BY <1>2, <1>3, <1>4, <1>5, ShardRecords DEF ThreadBuild, sharedVars, ThreadsInv
<1>9. BodyRuns'
  BY <1>2, <1>3, <1>4, BodyRunsOn DEF ThreadBuild, Build, ThreadsInv
<1>10. ReportsHold(b)'
  BY <1>2 DEF ReportsHold
<1> QED BY <1>6, <1>7, <1>8, <1>9, <1>10 DEF ThreadsInv

LEMMA ThreadDeliverInv ==
  ASSUME ThreadsInv, NEW s \in Shards, ThreadDeliver(s)
  PROVE  ThreadsInv'
<1>1. PICK b \in Barriers : Placed(b)
  BY DEF ThreadsInv
<1>2. b = "complete" /\ s \notin inside /\ raised[s] = NoError /\ body[s] = <<>> /\ ~ decision.stop
  BY <1>1, StageOfShard, ShardOutside DEF ThreadDeliver, Barriers
<1>3. PICK point \in {"deliver", "failing"} :
        Goto(s, point) /\ (point = "failing" <=> raised'[s] # NoError)
  BY DEF ThreadDeliver, Proceed
<1>4. TypeOK
  BY DEF ThreadsInv
<1>5. \A t \in Shards \ {s} : raised'[t] = raised[t]
  BY <1>4 DEF TypeOK, ShardTypeOK, ThreadDeliver, Deliver
<1>6. TypeOK'
  BY TypesStep DEF Next, ShardThread
<1>7. Placed(b)' /\ BrokenByFailure'
  BY <1>1, <1>2, <1>3, <1>4, <1>5, ShardMoves
     DEF ThreadDeliver, barrierVars, sharedVars, ThreadsInv, ShardOnWay
<1>8. ErrorsRecorded' /\ StartingThreads' /\ ReturnedStopped' /\ StopIsQuiet'
  BY <1>2, <1>3, <1>4, <1>5, ShardRecords DEF ThreadDeliver, sharedVars, ThreadsInv
<1>9. BodyRuns'
  BY <1>2, <1>3, <1>4, BodyRunsOn DEF ThreadDeliver, Deliver, ThreadsInv
<1>10. ReportsHold(b)'
  BY <1>2 DEF ReportsHold
<1> QED BY <1>6, <1>7, <1>8, <1>9, <1>10 DEF ThreadsInv

\* What an event or an operation does to the shard that executes it.
LEMMA ExecuteEffect ==
  ASSUME TypeOK, NEW s \in Shards, Step(s, decision.window) \/ RunBody(s),
         body[s] # <<>> => trace[s] # <<>>
  PROVE  /\ \A t \in Shards \ {s} :
              raised'[t] = raised[t] /\ body'[t] = body[t] /\ trace'[t] = trace[t]
         /\ body'[s] # <<>> => trace'[s] # <<>> /\ raised'[s] = raised[s]
<1>1. /\ body \in [Shards -> Seq(Operations)] /\ trace \in [Shards -> Seq(Event)]
      /\ raised \in [Shards -> Errors]
  BY DEF TypeOK, ShardTypeOK
<1>2. CASE Step(s, decision.window)
  <2>1. PICK e :
          /\ trace' = [trace EXCEPT ![s] = Append(@, e)]
          /\ IF e.error # NoError
             THEN raised' = [raised EXCEPT ![s] = e.error] /\ UNCHANGED body
             ELSE body' = [body EXCEPT ![s] = Handler(s, e)] /\ UNCHANGED raised
    BY <1>2 DEF Step
  <2>2. trace'[s] = Append(trace[s], e) /\ \A t \in Shards \ {s} : trace'[t] = trace[t]
    BY <1>1, <2>1
  <2>3. trace[s] \in Seq(Event)
    BY <1>1
  <2>4. Append(trace[s], e) # <<>>
    BY <2>3
  <2>5. body[s] = <<>>
    BY <1>2 DEF Step
  <2> QED BY <1>1, <2>1, <2>2, <2>4, <2>5
<1>3. CASE RunSchedule(s)
  BY <1>1, <1>3 DEF RunSchedule
<1>4. CASE RunSend(s)
  BY <1>1, <1>4 DEF RunSend
<1>5. CASE RunFailure(s)
  BY <1>1, <1>5 DEF RunFailure
<1> QED BY <1>2, <1>3, <1>4, <1>5 DEF RunBody

LEMMA ThreadExecuteInv ==
  ASSUME ThreadsInv, NEW s \in Shards, ThreadExecute(s)
  PROVE  ThreadsInv'
<1>1. PICK b \in Barriers : Placed(b)
  BY DEF ThreadsInv
<1>2. b = "complete" /\ s \notin inside /\ raised[s] = NoError /\ ~ decision.stop
  BY <1>1, StageOfShard, ShardOutside DEF ThreadExecute, Barriers
<1>3. PICK point \in {"execute", "failing"} :
        Goto(s, point) /\ (point = "failing" <=> raised'[s] # NoError)
  BY DEF ThreadExecute, Proceed
<1>4. TypeOK /\ (body[s] # <<>> => trace[s] # <<>>)
  BY DEF ThreadsInv, BodyRuns
<1>5. /\ \A t \in Shards \ {s} :
           raised'[t] = raised[t] /\ body'[t] = body[t] /\ trace'[t] = trace[t]
      /\ body'[s] # <<>> => trace'[s] # <<>> /\ raised'[s] = raised[s]
  BY <1>4, ExecuteEffect DEF ThreadExecute
<1>6. TypeOK'
  BY TypesStep DEF Next, ShardThread
<1>7. Placed(b)' /\ BrokenByFailure'
  BY <1>1, <1>2, <1>3, <1>4, <1>5, ShardMoves
     DEF ThreadExecute, barrierVars, sharedVars, ThreadsInv, ShardOnWay
<1>8. ErrorsRecorded' /\ StartingThreads' /\ ReturnedStopped' /\ StopIsQuiet'
  BY <1>2, <1>3, <1>4, <1>5, ShardRecords DEF ThreadExecute, sharedVars, ThreadsInv
<1>9. BodyRuns'
  BY <1>2, <1>3, <1>4, <1>5, BodyRunsOn DEF ThreadsInv
<1>10. ReportsHold(b)'
  BY <1>2 DEF ReportsHold
<1> QED BY <1>6, <1>7, <1>8, <1>9, <1>10 DEF ThreadsInv

\* The steps of a shard's thread that leave the shards alone.
LEMMA ThreadObeyInv ==
  ASSUME ThreadsInv, NEW s \in Shards, ThreadObey(s)
  PROVE  ThreadsInv'
<1>1. PICK b \in Barriers : Placed(b)
  BY DEF ThreadsInv
<1>2. b = "complete" /\ s \notin inside /\ raised[s] = NoError /\ body[s] = <<>>
  BY <1>1, StageOfShard, ShardOutside DEF ThreadObey, Barriers
<1>3. PICK point \in {"done", "deliver"} :
        Goto(s, point) /\ (point = "done" <=> decision.stop)
  BY DEF ThreadObey
<1>4. TypeOK /\ UNCHANGED <<raised, body, trace>>
  BY DEF ThreadsInv, ThreadObey, shardVars
<1>5. TypeOK'
  BY TypesStep DEF Next, ShardThread
<1>6. Placed(b)' /\ BrokenByFailure'
  BY <1>1, <1>2, <1>3, <1>4, ShardMoves
     DEF ThreadObey, barrierVars, sharedVars, ThreadsInv, ShardOnWay
<1>7. ErrorsRecorded' /\ StartingThreads' /\ ReturnedStopped' /\ StopIsQuiet'
  BY <1>2, <1>3, <1>4, ShardRecords DEF ThreadObey, sharedVars, ThreadsInv
<1>8. BodyRuns'
  BY <1>2, <1>3, <1>4, BodyRunsOn DEF ThreadsInv
<1>9. ReportsHold(b)'
  BY <1>2 DEF ReportsHold
<1> QED BY <1>5, <1>6, <1>7, <1>8, <1>9 DEF ThreadsInv

LEMMA ThreadDeliveredInv ==
  ASSUME ThreadsInv, NEW s \in Shards, ThreadDelivered(s) \/ ThreadComplete(s)
  PROVE  ThreadsInv'
<1>1. PICK b \in Barriers : Placed(b)
  BY DEF ThreadsInv
<1>2. b = "complete" /\ s \notin inside /\ raised[s] = NoError /\ body[s] = <<>> /\ ~ decision.stop
  BY <1>1, StageOfShard, ShardOutside DEF ThreadDelivered, ThreadComplete, Barriers, ExecutedBelow
<1>3. PICK point \in {"execute", "complete"} : Goto(s, point)
  BY DEF ThreadDelivered, ThreadComplete
<1>4. TypeOK /\ UNCHANGED <<raised, body, trace>>
  BY DEF ThreadsInv, ThreadDelivered, ThreadComplete, shardVars
<1>5. TypeOK'
  BY TypesStep DEF Next, ShardThread
<1>6. UNCHANGED <<started, inside, draining, broken, wired>>
      /\ UNCHANGED <<decision, errors, coordinatorError, outcome>>
  BY DEF ThreadDelivered, ThreadComplete, barrierVars, sharedVars
<1>7. Placed(b)' /\ BrokenByFailure'
  BY <1>1, <1>2, <1>3, <1>4, <1>6, ShardMoves DEF ThreadsInv, ShardOnWay
<1>8. ErrorsRecorded' /\ StartingThreads' /\ ReturnedStopped' /\ StopIsQuiet'
  BY <1>2, <1>3, <1>4, <1>6, ShardRecords DEF ThreadsInv
<1>9. BodyRuns'
  BY <1>2, <1>3, <1>4, BodyRunsOn DEF ThreadsInv
<1>10. ReportsHold(b)'
  BY <1>2 DEF ReportsHold
<1> QED BY <1>5, <1>7, <1>8, <1>9, <1>10 DEF ThreadsInv

LEMMA RecordErrorInv ==
  ASSUME ThreadsInv, NEW s \in Shards, RecordError(s)
  PROVE  ThreadsInv'
<1>1. PICK b \in Barriers : Placed(b)
  BY DEF ThreadsInv
<1>2. /\ b \in {"built", "complete"} /\ s \notin inside /\ raised[s] # NoError
      /\ body[s] = <<>> /\ ~ decision.stop
  BY <1>1, StageOfShard, ShardOutside DEF RecordError, Barriers
<1>3. Goto(s, "abort") /\ errors' = errors \cup {s}
  BY DEF RecordError
<1>4. TypeOK /\ UNCHANGED <<raised, body, trace>>
  BY DEF ThreadsInv, RecordError, shardVars
<1>5. TypeOK'
  BY TypesStep DEF Next, ShardThread
<1>6. Placed(b)' /\ BrokenByFailure'
  BY <1>1, <1>2, <1>3, <1>4, ShardMoves DEF ThreadsInv, RecordError, barrierVars
<1>7. ErrorsRecorded' /\ StartingThreads' /\ ReturnedStopped' /\ StopIsQuiet'
  BY <1>2, <1>3, <1>4, ShardRecords DEF ThreadsInv, RecordError
<1>8. BodyRuns'
  BY <1>2, <1>3, <1>4, BodyRunsOn DEF ThreadsInv
<1>9. ReportsHold(b)'
  BY <1>2 DEF ReportsHold
<1> QED BY <1>5, <1>6, <1>7, <1>8, <1>9 DEF ThreadsInv

\* A report covers the work of its shard, and no other shard sends meanwhile.
LEMMA ThreadBoundInv ==
  ASSUME ThreadsInv, NEW s \in Shards, ThreadBound(s)
  PROVE  ThreadsInv'
<1>1. PICK b \in Barriers : Placed(b) /\ ReportsHold(b)
  BY DEF ThreadsInv
<1>2. b = "reported" /\ s \notin inside /\ raised[s] = NoError /\ body[s] = <<>> /\ ~ decision.stop
  BY <1>1, StageOfShard, ShardOutside DEF ThreadBound, Barriers
<1>3. Goto(s, "reported") /\ bounds' = [bounds EXCEPT ![s] = Bound(s)] /\ Absorb(s)
  BY DEF ThreadBound
<1>4. TypeOK /\ UNCHANGED <<raised, body, trace, heap>>
  BY DEF ThreadsInv, ThreadBound
<1>5. TypeOK'
  BY TypesStep DEF Next, ShardThread
<1>6. Placed(b)' /\ BrokenByFailure'
  BY <1>1, <1>2, <1>3, <1>4, ShardMoves DEF ThreadsInv, ThreadBound, barrierVars, ShardOnWay
<1>7. ErrorsRecorded' /\ StartingThreads' /\ ReturnedStopped' /\ StopIsQuiet'
  BY <1>2, <1>3, <1>4, ShardRecords DEF ThreadsInv, ThreadBound
<1>8. BodyRuns'
  BY <1>2, <1>3, <1>4, BodyRunsOn DEF ThreadsInv
<1>9. ReportsHold(b)'
  <2>1. s \in Threads /\ Shards \subseteq Threads
    BY ThreadIds
  <2>2. \A t \in Shards \ {s} : pc'[t] = pc[t] /\ bounds'[t] = bounds[t]
    BY <1>3, <1>4, <2>1, Moves DEF TypeOK
  <2>3. bounds'[s] = Bound(s)
    BY <1>3, <1>4 DEF TypeOK
  <2>4. ASSUME NEW t \in Shards PROVE Inflight(t)' = IF t = s THEN {} ELSE Inflight(t)
    <3>1. \A c \in Inbound(t) : mail'[c] = IF t = s THEN {} ELSE mail[c]
      BY <1>3 DEF Absorb, Inbound
    <3>2. Inbound(t)' = Inbound(t)
      BY DEF Inbound
    <3>3. Inflight(t)' = UNION {mail'[c] : c \in Inbound(t)}
      BY <3>2 DEF Inflight
    <3> QED BY <3>1, <3>3 DEF Inflight
  <2>5. pending'[s] = pending[s] \cup Inflight(s) /\ \A t \in Shards \ {s} : pending'[t] = pending[t]
    BY <1>3, <1>4 DEF Absorb, TypeOK, ShardTypeOK
  <2>6. /\ \A e \in heap[s] : Bound(s).next <= e.time
        /\ \A m \in pending[s] \cup Inflight(s) : Bound(s).next <= m.timestamp
    BY <1>4, BoundType DEF TypeOK, Bound
  <2>7. Quiet(s, bounds[s].next)'
    BY <1>2, <1>4, <2>3, <2>4, <2>5, <2>6 DEF Quiet
  <2>8. ASSUME NEW t \in Shards \ {s}, Quiet(t, bounds[t].next) PROVE Quiet(t, bounds[t].next)'
    BY <1>4, <2>2, <2>4, <2>5, <2>8 DEF Quiet
  <2> QED BY <1>1, <2>2, <2>7, <2>8 DEF ReportsHold
<1> QED BY <1>5, <1>6, <1>7, <1>8, <1>9 DEF ThreadsInv

-----------------------------------------------------------------------------
(* The steps at the barrier. *)

\* What Quiet says does not depend on where the threads are.
LEMMA StaysQuiet ==
  ASSUME UNCHANGED shardVars, NEW s, NEW t, Quiet(s, t), NEW u, u = t
  PROVE  Quiet(s, u)'
BY DEF shardVars, Quiet, Inflight, Inbound

\* A thread that waits at the barrier has not failed; one that leaves it
\* changes nothing the records speak of.
LEMMA BarrierRecords ==
  ASSUME ThreadsInv, NEW p \in Threads, NEW point, Goto(p, point),
         UNCHANGED shardVars, UNCHANGED <<started, sharedVars>>,
         point # "start", p \in Shards => pc[p] # "execute",
         p \in Shards /\ raised[p] # NoError /\ point \in {"abort", "done"} => p \in errors
  PROVE  BodyRuns' /\ ErrorsRecorded' /\ StartingThreads' /\ StopIsQuiet' /\ ReturnedStopped'
<1>1. TypeOK /\ Shards \subseteq Threads /\ Coordinator \in Threads
  BY ThreadIds DEF ThreadsInv
<1>2. pc'[p] = point /\ \A q \in Threads \ {p} : pc'[q] = pc[q]
  BY <1>1, Moves
<1>3. UNCHANGED <<body, trace, raised>> /\ UNCHANGED <<errors, outcome, decision>>
  BY DEF shardVars, sharedVars
<1>4. BodyRuns'
  <2>1. p \in Shards => body[p] = <<>>
    BY DEF ThreadsInv, BodyRuns
  <2>2. \A s \in Shards \ {p} : pc'[s] = pc[s]
    BY <1>1, <1>2
  <2> QED BY <1>3, <2>1, <2>2 DEF ThreadsInv, BodyRuns
<1>5. ErrorsRecorded'
  <2>1. \A s \in Shards \ {p} : pc'[s] = pc[s]
    BY <1>1, <1>2
  <2> QED BY <1>2, <1>3, <2>1 DEF ThreadsInv, ErrorsRecorded
<1>6. StartingThreads'
  BY <1>1, <1>2 DEF ThreadsInv, StartingThreads
<1>7. StopIsQuiet'
  BY <1>3, StaysQuiet DEF ThreadsInv, StopIsQuiet
<1>8. ReturnedStopped'
  BY <1>3 DEF ThreadsInv, ReturnedStopped
<1> QED BY <1>4, <1>5, <1>6, <1>7, <1>8

LEMMA ArriveInv ==
  ASSUME ThreadsInv, NEW p \in Threads, Arrive(p)
  PROVE  ThreadsInv'
<1>1. PICK b \in Barriers : Placed(b) /\ ReportsHold(b)
  BY DEF ThreadsInv
<1>2. TypeOK'
  <2>1. Next
    BY ThreadIds DEF Next, ShardThread, CoordinatorThread, Barrier
  <2> QED BY <2>1, TypesStep
<1>3. pc[p] = b /\ ~ draining
  BY <1>1, ThreadIds, StageOfShard, StageOfCoordinator DEF Arrive, CanEnter
<1>4. /\ inside' = inside \cup {p} /\ UNCHANGED <<pc, started, draining, broken>>
      /\ UNCHANGED <<wired, bounds, decision, horizon, errors, coordinatorError, outcome>>
      /\ UNCHANGED shardVars /\ UNCHANGED <<body, trace, raised>>
  BY DEF Arrive, sharedVars, shardVars
<1>5. \A s \in Shards : ShardPlaced(b, s)'
  BY <1>1, <1>4 DEF Placed, ShardPlaced, Asleep, Over
<1>6. CoordinatorPlaced(b)'
  BY <1>1, <1>4 DEF Placed, CoordinatorPlaced, Asleep, Over
<1>7. InsideBarrier(b)'
  BY <1>1, <1>3, <1>4 DEF Placed, InsideBarrier
<1>8. WiredWhen(b)' /\ Stopping(b)' /\ CoordinatorFailed(b)' /\ ShardFailed(b)' /\ BrokenByFailure'
  BY <1>1, <1>4 DEF ThreadsInv, Placed, WiredWhen, Stopping, CoordinatorFailed, ShardFailed,
     BrokenByFailure
<1>9. ReportsHold(b)'
  BY <1>1, <1>4, StaysQuiet DEF ReportsHold
<1>10. BodyRuns' /\ ErrorsRecorded' /\ StartingThreads' /\ ReturnedStopped'
  BY <1>4 DEF ThreadsInv, BodyRuns, ErrorsRecorded, StartingThreads, ReturnedStopped
<1>11. StopIsQuiet'
  BY <1>4, StaysQuiet DEF ThreadsInv, StopIsQuiet
<1> QED BY <1>2, <1>5, <1>6, <1>7, <1>8, <1>9, <1>10, <1>11 DEF ThreadsInv, Placed

\* A released thread passes on its way to the next barrier.
LEMMA PassInv ==
  ASSUME ThreadsInv, NEW p \in Threads, Pass(p)
  PROVE  ThreadsInv'
<1>1. PICK b \in Barriers : Placed(b) /\ ReportsHold(b)
  BY DEF ThreadsInv
<1>2. TypeOK /\ TypeOK'
  <2>1. Next
    BY ThreadIds DEF Next, ShardThread, CoordinatorThread, Barrier
  <2> QED BY <2>1, TypesStep DEF ThreadsInv
<1> DEFINE point == AfterBarrier(p)[pc[p]]
<1>3. p \in inside /\ draining /\ ~ broken /\ pc[p] \in Barriers /\ Behind(b, pc[p])
  BY <1>1, InsidePoints DEF Pass
<1>4. /\ inside' = inside \ {p} /\ draining' = (inside' # {}) /\ Goto(p, point)
      /\ UNCHANGED <<started, broken>> /\ UNCHANGED shardVars /\ UNCHANGED <<raised, body, trace>>
      /\ UNCHANGED <<wired, bounds, decision, horizon, errors, coordinatorError, outcome>>
  BY DEF Pass, sharedVars, shardVars
<1>5. /\ p = Coordinator => CoordinatorOnWay(b, point)
      /\ p # Coordinator => ShardOnWay(b, point)
  BY <1>3 DEF Behind, AfterBarrier, ShardOnWay, CoordinatorOnWay
<1>6. /\ p = Coordinator => point \in {"wire", "reported", "decide", "check"}
      /\ p # Coordinator => point \in {"ready", "bound", "decided", "obey"}
      /\ point = "decided" => pc[p] = "reported" /\ b = "decided"
      /\ point = "reported" => b = "reported" /\ p = Coordinator
  BY <1>3 DEF Behind, AfterBarrier, Barriers
<1> HIDE DEF point
<1>7. pc'[p] = point /\ \A q \in Threads \ {p} : pc'[q] = pc[q]
  BY <1>2, <1>4, Moves
<1>8. p \in Shards => raised[p] = NoError /\ p # Coordinator
  BY <1>1, <1>3, ThreadIds, StageOfShard DEF Barriers
<1>9. p = Coordinator => coordinatorError = NoError
  BY <1>1, <1>3, StageOfCoordinator DEF Barriers
<1>10. ASSUME NEW s \in Shards PROVE ShardPlaced(b, s)'
  <2>1. CASE s = p
    BY <1>5, <1>7, <1>8, <2>1 DEF ShardPlaced
  <2>2. CASE s # p
    <3>1. pc'[s] = pc[s] /\ (s \in inside => s \in inside' /\ draining')
      BY <1>4, <1>7, <2>2, ThreadIds
    <3> QED BY <1>1, <1>4, <3>1 DEF Placed, ShardPlaced, Asleep, Over
  <2> QED BY <2>1, <2>2
<1>11. CoordinatorPlaced(b)'
  <2>1. CASE p = Coordinator
    BY <1>5, <1>7, <2>1 DEF CoordinatorPlaced
  <2>2. CASE p # Coordinator
    <3>1. pc'[Coordinator] = pc[Coordinator]
          /\ (Coordinator \in inside => Coordinator \in inside' /\ draining')
      BY <1>4, <1>7, <2>2, ThreadIds
    <3> QED BY <1>1, <1>4, <3>1 DEF Placed, CoordinatorPlaced, Asleep, Over
  <2> QED BY <2>1, <2>2
<1>12. InsideBarrier(b)'
  <2>1. \A q \in inside' : pc'[q] = pc[q] /\ draining'
    BY <1>2, <1>4, <1>7 DEF TypeOK
  <2> QED BY <1>1, <1>3, <1>4, <2>1 DEF Placed, InsideBarrier
<1>13. WiredWhen(b)'
  <2>1. pc'[Coordinator] = "ready" <=> pc[Coordinator] = "ready" /\ p # Coordinator
    BY <1>6, <1>7, ThreadIds
  <2>2. p = Coordinator /\ pc[Coordinator] = "ready" => b # "ready"
    BY <1>3 DEF Behind
  <2> QED BY <1>1, <1>4, <2>1, <2>2 DEF Placed, WiredWhen
<1>14. Stopping(b)'
  <2>1. ASSUME decision.stop
        PROVE  /\ b = "decided" => p # Coordinator
               /\ pc'[Coordinator] # "complete"
               /\ \A s \in Shards : pc'[s] \notin {"deliver", "execute", "complete"}
    <3>1. b = "decided" => pc[Coordinator] = "decided"
      BY <1>1, <2>1 DEF Placed, Stopping
    <3>2. b = "decided" => p # Coordinator
      BY <1>3, <3>1 DEF Behind
    <3>3. pc'[Coordinator] # "complete"
      BY <1>1, <1>6, <1>7, <2>1, ThreadIds DEF Placed, Stopping
    <3>4. \A s \in Shards : pc'[s] \notin {"deliver", "execute", "complete"}
      BY <1>1, <1>6, <1>7, <2>1, ThreadIds DEF Placed, Stopping
    <3> QED BY <3>2, <3>3, <3>4
  <2>2. p # Coordinator => pc'[Coordinator] = pc[Coordinator]
    BY <1>7, ThreadIds
  <2> QED BY <1>1, <1>4, <2>1, <2>2 DEF Placed, Stopping
<1>15. CoordinatorFailed(b)'
  <2>1. p # Coordinator => pc'[Coordinator] = pc[Coordinator]
    BY <1>7, ThreadIds
  <2> QED BY <1>1, <1>4, <1>9, <2>1 DEF Placed, CoordinatorFailed
<1>16. ShardFailed(b)'
  <2>1. \A s \in Shards \ {p} : pc'[s] = pc[s]
    BY <1>7, ThreadIds
  <2> QED BY <1>1, <1>4, <1>8, <2>1 DEF Placed, ShardFailed
<1>17. ReportsHold(b)'
  <2>1. ASSUME NEW s \in Shards, b \in {"reported", "decided"}, pc'[s] \in {"reported", "decided"}
        PROVE  pc[s] \in {"reported", "decided"}
    BY <1>6, <1>7, <2>1, ThreadIds
  <2> QED BY <1>1, <1>4, <2>1, StaysQuiet DEF ReportsHold
<1>18. BrokenByFailure'
  BY <1>4 DEF ThreadsInv, BrokenByFailure
<1>19. BodyRuns' /\ ErrorsRecorded' /\ StartingThreads' /\ StopIsQuiet' /\ ReturnedStopped'
  <2>1. point # "start" /\ pc[p] # "execute" /\ UNCHANGED <<started, sharedVars>>
    BY <1>3, <1>4, <1>6 DEF Barriers, sharedVars
  <2> QED BY <1>4, <1>8, <2>1, BarrierRecords
<1> QED BY <1>2, <1>10, <1>11, <1>12, <1>13, <1>14, <1>15, <1>16, <1>17, <1>18, <1>19
        DEF ThreadsInv, Placed

\* The barrier the threads go to after b.
Following(b) ==
  CASE b = "built" -> "ready"
    [] b = "ready" -> "reported"
    [] b = "reported" -> "decided"
    [] b = "decided" -> "complete"
    [] b = "complete" -> "reported"

\* When the last thread arrives all threads are at the barrier, none has
\* failed, and they are on their way to the next.
LEMMA ReleaseInv ==
  ASSUME ThreadsInv, NEW p \in Threads, Release(p)
  PROVE  ThreadsInv'
<1>1. PICK b \in Barriers : Placed(b) /\ ReportsHold(b)
  BY DEF ThreadsInv
<1> DEFINE n == Following(b)
           point == AfterBarrier(p)[b]
<1>2. TypeOK /\ TypeOK'
  <2>1. Next
    BY ThreadIds DEF Next, ShardThread, CoordinatorThread, Barrier
  <2> QED BY <2>1, TypesStep DEF ThreadsInv
<1>3. ~ draining /\ ~ broken /\ inside = Threads \ {p} /\ \A q \in Threads : pc[q] = b
  <2>1. pc[p] = b /\ ~ draining /\ ~ broken /\ inside = Threads \ {p}
    BY <1>1, ThreadIds, StageOfShard, StageOfCoordinator DEF Release, CanEnter
  <2>2. \A q \in inside : pc[q] = b
    BY <1>1, <2>1, InsidePoints
  <2> QED BY <2>1, <2>2
<1>4. /\ inside' = inside /\ draining' /\ Goto(p, point)
      /\ UNCHANGED <<started, broken>> /\ UNCHANGED shardVars /\ UNCHANGED <<raised, body, trace>>
      /\ UNCHANGED <<wired, bounds, decision, horizon, errors, coordinatorError, outcome>>
  BY <1>3 DEF Release, sharedVars, shardVars
<1>5. n \in Barriers /\ Behind(n, b)
  BY DEF Following, Barriers, Behind
<1>6. /\ p = Coordinator => CoordinatorOnWay(n, point)
      /\ p # Coordinator => ShardOnWay(n, point)
  BY DEF Following, Barriers, AfterBarrier, ShardOnWay, CoordinatorOnWay
<1>7. /\ p = Coordinator => point \in {"wire", "reported", "decide", "check"}
      /\ p # Coordinator => point \in {"ready", "bound", "decided", "obey"}
  BY DEF AfterBarrier, Barriers
<1>8. pc'[p] = point /\ \A q \in Threads \ {p} : pc'[q] = b
  BY <1>2, <1>3, <1>4, Moves
<1> HIDE DEF n, point
<1>9. coordinatorError = NoError /\ \A s \in Shards : raised[s] = NoError
  BY <1>1, <1>3, ThreadIds, StageOfShard, StageOfCoordinator DEF Barriers
<1>10. ASSUME NEW s \in Shards PROVE ShardPlaced(n, s)'
  <2>1. CASE s = p
    BY <1>6, <1>8, <2>1, ThreadIds DEF ShardPlaced
  <2>2. CASE s # p
    <3>1. pc'[s] = b /\ s \in inside'
      BY <1>3, <1>4, <1>8, <2>2, ThreadIds
    <3> QED BY <1>4, <1>5, <3>1 DEF ShardPlaced, Asleep
  <2> QED BY <2>1, <2>2
<1>11. CoordinatorPlaced(n)'
  <2>1. CASE p = Coordinator
    BY <1>6, <1>8, <2>1 DEF CoordinatorPlaced
  <2>2. CASE p # Coordinator
    <3>1. pc'[Coordinator] = b /\ Coordinator \in inside'
      BY <1>3, <1>4, <1>8, <2>2, ThreadIds
    <3> QED BY <1>4, <1>5, <3>1 DEF CoordinatorPlaced, Asleep
  <2> QED BY <2>1, <2>2
<1>12. InsideBarrier(n)'
  <2>1. inside' # {} /\ \A q \in inside' : pc'[q] = b
    BY <1>3, <1>4, <1>8, ThreadIds
  <2> QED BY <1>4, <1>5, <2>1 DEF InsideBarrier
<1>13. WiredWhen(n)'
  <2>1. wired <=> b \notin {"built"}
    BY <1>1, <1>3, ThreadIds DEF Placed, WiredWhen
  <2>2. n = "ready" => b = "built" /\ pc'[Coordinator] # "ready"
    <3>1. n = "ready" => b = "built"
      BY DEF n, Following, Barriers
    <3> QED BY <1>7, <1>8, <3>1, ThreadIds
  <2>3. n # "ready" => n # "built" /\ b # "built"
    BY DEF n, Following, Barriers
  <2> QED BY <1>4, <2>1, <2>2, <2>3 DEF WiredWhen
<1>14. Stopping(n)'
  <2>1. decision.stop => b = "decided"
    BY <1>1, <1>3, ThreadIds DEF Placed, Stopping
  <2>2. b = "decided" => n = "complete"
    BY DEF n, Following
  <2>3. decision.stop => pc'[Coordinator] # "complete"
                         /\ \A s \in Shards : pc'[s] \notin {"deliver", "execute", "complete"}
    BY <1>7, <1>8, <2>1, ThreadIds
  <2> QED BY <1>3, <1>4, <2>1, <2>2, <2>3 DEF Stopping
<1>15. CoordinatorFailed(n)' /\ ShardFailed(n)' /\ BrokenByFailure'
  BY <1>3, <1>4, <1>9 DEF CoordinatorFailed, ShardFailed, BrokenByFailure
<1>16. ReportsHold(n)'
  <2>1. CASE n = "decided"
    <3>1. b = "reported"
      BY <2>1 DEF n, Following, Barriers
    <3> QED BY <1>1, <1>3, <1>4, <3>1, StaysQuiet, ThreadIds DEF ReportsHold
  <2>2. CASE n = "reported"
    <3>1. b \in {"ready", "complete"}
      BY <2>2 DEF n, Following, Barriers
    <3>2. \A s \in Shards : pc'[s] \notin {"reported", "decided"}
      <4>1. p \in Shards => point = "bound"
        BY <3>1, ThreadIds DEF point, AfterBarrier
      <4> QED BY <1>8, <3>1, <4>1, ThreadIds
    <3> QED BY <3>2 DEF ReportsHold
  <2> QED BY <2>1, <2>2 DEF ReportsHold
<1>17. BodyRuns' /\ ErrorsRecorded' /\ StartingThreads' /\ StopIsQuiet' /\ ReturnedStopped'
  <2>1. point # "start" /\ pc[p] # "execute" /\ UNCHANGED <<started, sharedVars>>
    BY <1>3, <1>4, <1>7 DEF Barriers, sharedVars
  <2> QED BY <1>4, <1>9, <2>1, BarrierRecords
<1> QED BY <1>2, <1>5, <1>10, <1>11, <1>12, <1>13, <1>14, <1>15, <1>16, <1>17
        DEF ThreadsInv, Placed

\* A broken barrier ends the threads that meet it.
LEMMA MeetBrokenInv ==
  ASSUME ThreadsInv, NEW p \in Threads, MeetBroken(p)
  PROVE  ThreadsInv'
<1>1. PICK b \in Barriers : Placed(b) /\ ReportsHold(b)
  BY DEF ThreadsInv
<1> DEFINE point == IF p = Coordinator THEN "join" ELSE "done"
<1>2. TypeOK /\ TypeOK'
  <2>1. Next
    BY ThreadIds DEF Next, ShardThread, CoordinatorThread, Barrier
  <2> QED BY <2>1, TypesStep DEF ThreadsInv
<1>3. pc[p] \in Barriers /\ broken /\ Goto(p, point)
  BY DEF MeetBroken
<1>4. /\ inside' = inside \ {p} /\ UNCHANGED <<started, draining, broken>>
      /\ UNCHANGED shardVars /\ UNCHANGED <<raised, body, trace>>
      /\ UNCHANGED <<wired, bounds, decision, horizon, errors, coordinatorError, outcome>>
  BY DEF MeetBroken, sharedVars, shardVars
<1>5. pc'[p] = point /\ \A q \in Threads \ {p} : pc'[q] = pc[q]
  BY <1>2, <1>3, Moves
<1>6. ~ decision.stop
  BY <1>1, <1>3 DEF Placed, Stopping
<1>7. p \in Shards => raised[p] = NoError /\ p # Coordinator
  BY <1>1, <1>3, ThreadIds, StageOfShard DEF Barriers
<1>8. p = Coordinator => coordinatorError = NoError
  BY <1>1, <1>3, StageOfCoordinator DEF Barriers
<1>9. ASSUME NEW s \in Shards PROVE ShardPlaced(b, s)'
  <2>1. CASE s = p
    BY <1>3, <1>4, <1>5, <1>7, <2>1 DEF ShardPlaced, Over
  <2>2. CASE s # p
    <3>1. pc'[s] = pc[s] /\ (s \in inside => s \in inside')
      BY <1>4, <1>5, <2>2, ThreadIds
    <3> QED BY <1>1, <1>4, <3>1 DEF Placed, ShardPlaced, Asleep, Over
  <2> QED BY <2>1, <2>2
<1>10. CoordinatorPlaced(b)'
  <2>1. CASE p = Coordinator
    BY <1>3, <1>4, <1>5, <2>1 DEF CoordinatorPlaced, Over
  <2>2. CASE p # Coordinator
    <3>1. pc'[Coordinator] = pc[Coordinator] /\ (Coordinator \in inside => Coordinator \in inside')
      BY <1>4, <1>5, <2>2, ThreadIds
    <3> QED BY <1>1, <1>4, <3>1 DEF Placed, CoordinatorPlaced, Asleep, Over
  <2> QED BY <2>1, <2>2
<1>11. InsideBarrier(b)'
  <2>1. \A q \in inside' : pc'[q] = pc[q]
    BY <1>2, <1>4, <1>5 DEF TypeOK
  <2> QED BY <1>1, <1>3, <1>4, <2>1 DEF Placed, InsideBarrier
<1>12. WiredWhen(b)'
  <2>1. CASE p # Coordinator
    <3>1. pc'[Coordinator] = pc[Coordinator]
      BY <1>5, <2>1, ThreadIds
    <3> QED BY <1>1, <1>4, <3>1 DEF Placed, WiredWhen
  <2>2. CASE p = Coordinator
    <3>1. b # "ready"
      BY <1>1, <1>3, <1>8, <2>2, StageOfShard DEF ThreadsInv, BrokenByFailure
    <3> QED BY <1>1, <1>4, <3>1 DEF Placed, WiredWhen
  <2> QED BY <2>1, <2>2
<1>13. Stopping(b)'
  BY <1>4, <1>6 DEF Stopping
<1>14. CoordinatorFailed(b)'
  <2>1. p # Coordinator => pc'[Coordinator] = pc[Coordinator]
    BY <1>5, ThreadIds
  <2> QED BY <1>1, <1>4, <1>8, <2>1 DEF Placed, CoordinatorFailed
<1>15. ShardFailed(b)'
  <2>1. \A s \in Shards \ {p} : pc'[s] = pc[s]
    BY <1>5, ThreadIds
  <2> QED BY <1>1, <1>4, <1>7, <2>1 DEF Placed, ShardFailed
<1>16. ReportsHold(b)'
  <2>1. ASSUME NEW s \in Shards, pc'[s] \in {"reported", "decided"} PROVE pc'[s] = pc[s]
    BY <1>5, <1>7, <2>1, ThreadIds
  <2> QED BY <1>1, <1>4, <2>1, StaysQuiet DEF ReportsHold
<1>17. BrokenByFailure'
  BY <1>4 DEF ThreadsInv, BrokenByFailure
<1>18. BodyRuns' /\ ErrorsRecorded' /\ StartingThreads' /\ StopIsQuiet' /\ ReturnedStopped'
  <2>1. pc[p] # "execute" /\ UNCHANGED <<started, sharedVars>>
    BY <1>3, <1>4 DEF Barriers, sharedVars
  <2> QED BY <1>3, <1>4, <1>7, <2>1, BarrierRecords
<1> QED BY <1>2, <1>9, <1>10, <1>11, <1>12, <1>13, <1>14, <1>15, <1>16, <1>17, <1>18
        DEF ThreadsInv, Placed

\* Only a thread that has failed breaks the barrier, and no run that has
\* failed has decided to stop.
LEMMA AbortBarrierInv ==
  ASSUME ThreadsInv, NEW p \in Threads, AbortBarrier(p)
  PROVE  ThreadsInv'
<1>1. PICK b \in Barriers : Placed(b) /\ ReportsHold(b)
  BY DEF ThreadsInv
<1> DEFINE point == IF p = Coordinator THEN "join" ELSE "done"
<1>2. TypeOK /\ TypeOK'
  <2>1. Next
    BY ThreadIds DEF Next, ShardThread, CoordinatorThread, Barrier
  <2> QED BY <2>1, TypesStep DEF ThreadsInv
<1>3. pc[p] = "abort" /\ Goto(p, point)
  BY DEF AbortBarrier
<1>4. /\ broken' /\ UNCHANGED <<started, inside, draining>>
      /\ UNCHANGED shardVars /\ UNCHANGED <<raised, body, trace>>
      /\ UNCHANGED <<wired, bounds, decision, horizon, errors, coordinatorError, outcome>>
  BY DEF AbortBarrier, sharedVars, shardVars
<1>5. pc'[p] = point /\ \A q \in Threads \ {p} : pc'[q] = pc[q]
  BY <1>2, <1>3, Moves
<1>6. p \notin inside
  BY <1>1, <1>3, InsidePoints DEF Barriers
<1>7. ~ decision.stop /\ (coordinatorError # NoError \/ \E s \in Shards : raised[s] # NoError)
  BY <1>1, <1>3, ThreadIds, StageOfShard, StageOfCoordinator
<1>8. ASSUME NEW s \in Shards PROVE ShardPlaced(b, s)'
  <2>1. CASE s = p
    BY <1>4, <1>5, <2>1, ThreadIds DEF ShardPlaced, Over
  <2>2. CASE s # p
    <3>1. pc'[s] = pc[s]
      BY <1>5, <2>2, ThreadIds
    <3> QED BY <1>1, <1>4, <3>1 DEF Placed, ShardPlaced, Asleep, Over
  <2> QED BY <2>1, <2>2
<1>9. CoordinatorPlaced(b)'
  <2>1. CASE p = Coordinator
    BY <1>4, <1>5, <2>1 DEF CoordinatorPlaced, Over
  <2>2. CASE p # Coordinator
    <3>1. pc'[Coordinator] = pc[Coordinator]
      BY <1>5, <2>2, ThreadIds
    <3> QED BY <1>1, <1>4, <3>1 DEF Placed, CoordinatorPlaced, Asleep, Over
  <2> QED BY <2>1, <2>2
<1>10. InsideBarrier(b)'
  <2>1. \A q \in inside : pc'[q] = pc[q]
    BY <1>2, <1>5, <1>6 DEF TypeOK
  <2> QED BY <1>1, <1>4, <2>1 DEF Placed, InsideBarrier
<1>11. WiredWhen(b)'
  <2>1. pc'[Coordinator] = "ready" <=> pc[Coordinator] = "ready"
    BY <1>3, <1>5, ThreadIds
  <2> QED BY <1>1, <1>4, <2>1 DEF Placed, WiredWhen
<1>12. Stopping(b)'
  BY <1>4, <1>7 DEF Stopping
<1>13. CoordinatorFailed(b)'
  <2>1. p # Coordinator => pc'[Coordinator] = pc[Coordinator]
    BY <1>5, ThreadIds
  <2>2. p = Coordinator => pc'[Coordinator] = "join"
    BY <1>5
  <2> QED BY <1>1, <1>4, <2>1, <2>2 DEF Placed, CoordinatorFailed
<1>14. ShardFailed(b)'
  <2>1. \A s \in Shards : pc'[s] = pc[s] \/ pc'[s] = "done"
    BY <1>5, ThreadIds
  <2> QED BY <1>1, <1>4, <2>1 DEF Placed, ShardFailed
<1>15. ReportsHold(b)'
  <2>1. ASSUME NEW s \in Shards, pc'[s] \in {"reported", "decided"} PROVE pc'[s] = pc[s]
    BY <1>5, <2>1, ThreadIds
  <2> QED BY <1>1, <1>4, <2>1, StaysQuiet DEF ReportsHold
<1>16. BrokenByFailure'
  BY <1>4, <1>7 DEF BrokenByFailure
<1>17. BodyRuns' /\ ErrorsRecorded' /\ StartingThreads' /\ StopIsQuiet' /\ ReturnedStopped'
  <2>1. UNCHANGED <<started, sharedVars>>
    BY <1>4 DEF sharedVars
  <2>2. p \in Shards /\ raised[p] # NoError => p \in errors
    BY <1>3 DEF ThreadsInv, ErrorsRecorded
  <2> QED BY <1>3, <1>4, <2>1, <2>2, BarrierRecords
<1> QED BY <1>2, <1>8, <1>9, <1>10, <1>11, <1>12, <1>13, <1>14, <1>15, <1>16, <1>17
        DEF ThreadsInv, Placed

-----------------------------------------------------------------------------
(* The steps of the calling thread outside the barrier. *)

\* Such a step moves the coordinator alone.
LEMMA CoordinatorMoves ==
  ASSUME ThreadsInv, NEW b \in Barriers, Placed(b), ReportsHold(b),
         NEW point, Goto(Coordinator, point), pc[Coordinator] \notin Barriers,
         UNCHANGED shardVars, UNCHANGED barrierVars, UNCHANGED <<bounds, errors>>,
         decision.stop => decision'.stop
  PROVE  /\ pc'[Coordinator] = point /\ \A s \in Shards : pc'[s] = pc[s]
         /\ \A s \in Shards : ShardPlaced(b, s)'
         /\ InsideBarrier(b)' /\ ReportsHold(b)'
         /\ BodyRuns' /\ ErrorsRecorded'
<1>1. TypeOK /\ Shards \subseteq Threads /\ Coordinator \in Threads /\ Coordinator \notin Shards
  BY ThreadIds DEF ThreadsInv
<1>2. pc'[Coordinator] = point /\ \A q \in Threads \ {Coordinator} : pc'[q] = pc[q]
  BY <1>1, Moves
<1>3. \A s \in Shards : pc'[s] = pc[s]
  BY <1>1, <1>2
<1>4. UNCHANGED <<body, trace, raised>> /\ UNCHANGED <<inside, draining, broken>>
  BY DEF shardVars, barrierVars
<1>5. \A s \in Shards : ShardPlaced(b, s)'
  BY <1>3, <1>4 DEF Placed, ShardPlaced, Asleep, Over
<1>6. InsideBarrier(b)'
  <2>1. Coordinator \notin inside
    BY InsidePoints
  <2>2. \A q \in inside : pc'[q] = pc[q]
    BY <1>1, <1>2, <2>1 DEF TypeOK
  <2> QED BY <1>4, <2>2 DEF Placed, InsideBarrier
<1>7. ReportsHold(b)'
  BY <1>3, StaysQuiet DEF ReportsHold
<1>8. BodyRuns' /\ ErrorsRecorded'
  BY <1>3, <1>4 DEF ThreadsInv, BodyRuns, ErrorsRecorded
<1> QED BY <1>2, <1>3, <1>5, <1>6, <1>7, <1>8

LEMMA StartThreadInv ==
  ASSUME ThreadsInv, StartThread
  PROVE  ThreadsInv'
<1>1. PICK b \in Barriers : Placed(b) /\ ReportsHold(b)
  BY DEF ThreadsInv
<1>2. TypeOK'
  BY TypesStep DEF Next, CoordinatorThread
<1>3. b = "built" /\ pc[Coordinator] \notin Barriers /\ coordinatorError = NoError /\ ~ decision.stop
  BY <1>1, StageOfCoordinator DEF StartThread, Barriers, Placed, Stopping
<1>4. PICK point \in {"start", "built"} : Goto(Coordinator, point) /\ (point = "start" <=> started' # N)
  BY DEF StartThread
<1>5. /\ UNCHANGED shardVars /\ UNCHANGED barrierVars /\ UNCHANGED <<raised, broken>>
      /\ UNCHANGED <<wired, bounds, decision, horizon, errors, coordinatorError, outcome>>
  BY DEF StartThread, sharedVars, shardVars, barrierVars
<1>6. /\ pc'[Coordinator] = point /\ \A s \in Shards : pc'[s] = pc[s]
      /\ \A s \in Shards : ShardPlaced(b, s)'
      /\ InsideBarrier(b)' /\ ReportsHold(b)'
      /\ BodyRuns' /\ ErrorsRecorded'
  BY <1>1, <1>3, <1>4, <1>5, CoordinatorMoves
<1>7. CoordinatorPlaced(b)'
  BY <1>3, <1>6 DEF CoordinatorPlaced, CoordinatorOnWay
<1>8. WiredWhen(b)' /\ Stopping(b)' /\ CoordinatorFailed(b)'
  BY <1>1, <1>3, <1>5 DEF Placed, WiredWhen, Stopping, CoordinatorFailed
<1>9. ShardFailed(b)' /\ BrokenByFailure'
  BY <1>1, <1>5, <1>6 DEF Placed, ThreadsInv, ShardFailed, BrokenByFailure
<1>10. StartingThreads'
  BY <1>2, <1>4, <1>6, ShardsAssumption DEF StartingThreads, TypeOK
<1>11. ReturnedStopped' /\ StopIsQuiet'
  BY <1>3, <1>5 DEF ThreadsInv, ReturnedStopped, StopIsQuiet
<1> QED BY <1>1, <1>2, <1>6, <1>7, <1>8, <1>9, <1>10, <1>11 DEF ThreadsInv, Placed

LEMMA CoordinatorWireInv ==
  ASSUME ThreadsInv, CoordinatorWire
  PROVE  ThreadsInv'
<1>1. PICK b \in Barriers : Placed(b) /\ ReportsHold(b)
  BY DEF ThreadsInv
<1>2. TypeOK'
  BY TypesStep DEF Next, CoordinatorThread
<1>3. b = "ready" /\ pc[Coordinator] \notin Barriers /\ coordinatorError = NoError /\ ~ decision.stop
  BY <1>1, StageOfCoordinator DEF CoordinatorWire, Barriers, Placed, Stopping
<1>4. PICK point \in {"abort", "ready"} :
        /\ Goto(Coordinator, point)
        /\ IF point = "ready" THEN wired' /\ UNCHANGED coordinatorError
           ELSE coordinatorError' = "topology" /\ UNCHANGED wired
  BY DEF CoordinatorWire
<1>5. /\ UNCHANGED shardVars /\ UNCHANGED barrierVars /\ UNCHANGED <<raised, broken>>
      /\ UNCHANGED <<started, bounds, decision, horizon, errors, outcome>>
  BY DEF CoordinatorWire, shardVars, barrierVars
<1>6. /\ pc'[Coordinator] = point /\ \A s \in Shards : pc'[s] = pc[s]
      /\ \A s \in Shards : ShardPlaced(b, s)'
      /\ InsideBarrier(b)' /\ ReportsHold(b)'
      /\ BodyRuns' /\ ErrorsRecorded'
  BY <1>1, <1>3, <1>4, <1>5, CoordinatorMoves
<1>7. CoordinatorPlaced(b)'
  BY <1>3, <1>4, <1>6 DEF CoordinatorPlaced, CoordinatorOnWay, NoError
<1>8. WiredWhen(b)'
  <2>1. ~ wired
    BY <1>1, <1>3 DEF Placed, WiredWhen, CoordinatorWire
  <2> QED BY <1>3, <1>4, <1>6, <2>1 DEF WiredWhen
<1>9. Stopping(b)' /\ CoordinatorFailed(b)'
  BY <1>3, <1>4, <1>5, <1>6 DEF Stopping, CoordinatorFailed
<1>10. ShardFailed(b)' /\ BrokenByFailure'
  BY <1>1, <1>3, <1>5, <1>6 DEF Placed, ThreadsInv, ShardFailed, BrokenByFailure
<1>11. StartingThreads' /\ ReturnedStopped' /\ StopIsQuiet'
  BY <1>3, <1>5, <1>6 DEF ThreadsInv, StartingThreads, ReturnedStopped, StopIsQuiet
<1> QED BY <1>1, <1>2, <1>6, <1>7, <1>8, <1>9, <1>10, <1>11 DEF ThreadsInv, Placed

\* When the coordinator decides, every shard has reported and none has failed.
LEMMA WhenDeciding ==
  ASSUME ThreadsInv, pc[Coordinator] = "decide", NEW b \in Barriers, Placed(b), ReportsHold(b)
  PROVE  /\ b = "decided" /\ ~ decision.stop /\ ~ broken /\ coordinatorError = NoError
         /\ \A s \in Shards : /\ raised[s] = NoError
                              /\ pc[s] \in {"reported", "decided"}
                              /\ Quiet(s, bounds[s].next)
<1>1. b = "decided" /\ ~ decision.stop /\ coordinatorError = NoError
  BY StageOfCoordinator DEF Placed, Stopping
<1>2. \A s \in Shards : raised[s] = NoError
  BY <1>1, StageOfShard
<1>3. ~ broken
  BY <1>1, <1>2 DEF ThreadsInv, BrokenByFailure
<1>4. \A s \in Shards : pc[s] \in {"reported", "decided"}
  BY <1>1, <1>2, <1>3 DEF Placed, ShardPlaced, ShardOnWay, Asleep, Behind, Over
<1> QED BY <1>1, <1>2, <1>3, <1>4 DEF ReportsHold

LEMMA CoordinatorStopInv ==
  ASSUME ThreadsInv, CoordinatorStop
  PROVE  ThreadsInv'
<1>1. PICK b \in Barriers : Placed(b) /\ ReportsHold(b)
  BY DEF ThreadsInv
<1>2. TypeOK /\ TypeOK'
  BY TypesStep DEF Next, CoordinatorThread, ThreadsInv
<1>3. pc[Coordinator] = "decide" /\ pc[Coordinator] \notin Barriers /\ Goto(Coordinator, "decided")
  BY DEF CoordinatorStop, Barriers
<1>4. /\ b = "decided" /\ ~ broken /\ coordinatorError = NoError
      /\ \A s \in Shards : /\ raised[s] = NoError
                           /\ pc[s] \in {"reported", "decided"}
                           /\ Quiet(s, bounds[s].next)
  BY <1>1, <1>3, WhenDeciding
<1>5. /\ UNCHANGED shardVars /\ UNCHANGED barrierVars /\ UNCHANGED <<raised, broken>>
      /\ UNCHANGED <<started, wired, bounds, errors, coordinatorError, outcome>> /\ decision'.stop
  BY DEF CoordinatorStop, shardVars, barrierVars
<1>6. /\ pc'[Coordinator] = "decided" /\ \A s \in Shards : pc'[s] = pc[s]
      /\ \A s \in Shards : ShardPlaced(b, s)'
      /\ InsideBarrier(b)' /\ ReportsHold(b)'
      /\ BodyRuns' /\ ErrorsRecorded'
  BY <1>1, <1>3, <1>5, CoordinatorMoves
<1>7. CoordinatorPlaced(b)'
  BY <1>4, <1>6 DEF CoordinatorPlaced, CoordinatorOnWay
<1>8. WiredWhen(b)'
  BY <1>1, <1>4, <1>5 DEF Placed, WiredWhen
<1>9. Stopping(b)'
  BY <1>4, <1>5, <1>6 DEF Stopping
<1>10. CoordinatorFailed(b)' /\ ShardFailed(b)' /\ BrokenByFailure'
  BY <1>4, <1>5 DEF CoordinatorFailed, ShardFailed, BrokenByFailure
<1>11. StartingThreads' /\ ReturnedStopped'
  BY <1>5, <1>6 DEF StartingThreads, ReturnedStopped
<1>12. StopIsQuiet'
  <2>1. ASSUME NEW s \in Shards PROVE Quiet(s, Until)
    <3>1. /\ NextMin(bounds) \in Times /\ NextMin(bounds) <= bounds[s].next /\ bounds[s].next \in Times
          /\ NextMin(bounds) >= Until
      BY <1>2, DecisionTypes DEF TypeOK, CoordinatorStop
    <3>2. heap[s] \subseteq Event /\ pending[s] \subseteq Message
      BY <1>2 DEF TypeOK, ShardTypeOK
    <3>3. \A x \in Times : bounds[s].next <= x => Until <= x
      BY <3>1, TimeAssumption, UntilAssumption DEF Times
    <3> QED BY <1>4, <3>2, <3>3 DEF Quiet, Event, Message
  <2> QED BY <1>5, <2>1, StaysQuiet DEF StopIsQuiet
<1> QED BY <1>1, <1>2, <1>6, <1>7, <1>8, <1>9, <1>10, <1>11, <1>12 DEF ThreadsInv, Placed

LEMMA CoordinatorWindowInv ==
  ASSUME ThreadsInv, CoordinatorWindow
  PROVE  ThreadsInv'
<1>1. PICK b \in Barriers : Placed(b) /\ ReportsHold(b)
  BY DEF ThreadsInv
<1>2. TypeOK'
  BY TypesStep DEF Next, CoordinatorThread
<1>3. pc[Coordinator] = "decide" /\ pc[Coordinator] \notin Barriers
  BY DEF CoordinatorWindow, Barriers
<1>4. /\ b = "decided" /\ ~ broken /\ coordinatorError = NoError /\ ~ decision.stop
      /\ \A s \in Shards : raised[s] = NoError
  BY <1>1, <1>3, WhenDeciding
<1>5. PICK point \in {"abort", "decided"} :
        /\ Goto(Coordinator, point) /\ ~ decision'.stop
        /\ IF point = "decided" THEN UNCHANGED coordinatorError
           ELSE coordinatorError' = "horizon"
  BY <1>4 DEF CoordinatorWindow
<1>6. /\ UNCHANGED shardVars /\ UNCHANGED barrierVars /\ UNCHANGED <<raised, broken>>
      /\ UNCHANGED <<started, wired, bounds, errors, outcome>>
  BY DEF CoordinatorWindow, shardVars, barrierVars
<1>7. /\ pc'[Coordinator] = point /\ \A s \in Shards : pc'[s] = pc[s]
      /\ \A s \in Shards : ShardPlaced(b, s)'
      /\ InsideBarrier(b)' /\ ReportsHold(b)'
      /\ BodyRuns' /\ ErrorsRecorded'
  BY <1>1, <1>3, <1>4, <1>5, <1>6, CoordinatorMoves
<1>8. CoordinatorPlaced(b)'
  BY <1>4, <1>5, <1>7 DEF CoordinatorPlaced, CoordinatorOnWay, NoError
<1>9. WiredWhen(b)'
  BY <1>1, <1>4, <1>6 DEF Placed, WiredWhen
<1>10. Stopping(b)' /\ CoordinatorFailed(b)' /\ ShardFailed(b)' /\ BrokenByFailure'
  BY <1>4, <1>5, <1>6, <1>7 DEF Stopping, CoordinatorFailed, ShardFailed, BrokenByFailure
<1>11. StartingThreads' /\ ReturnedStopped' /\ StopIsQuiet'
  BY <1>4, <1>5, <1>6, <1>7 DEF ThreadsInv, StartingThreads, ReturnedStopped, StopIsQuiet
<1> QED BY <1>1, <1>2, <1>7, <1>8, <1>9, <1>10, <1>11 DEF ThreadsInv, Placed

LEMMA CoordinatorCheckInv ==
  ASSUME ThreadsInv, CoordinatorCheck
  PROVE  ThreadsInv'
<1>1. PICK b \in Barriers : Placed(b) /\ ReportsHold(b)
  BY DEF ThreadsInv
<1>2. TypeOK'
  BY TypesStep DEF Next, CoordinatorThread
<1>3. b = "complete" /\ pc[Coordinator] \notin Barriers /\ coordinatorError = NoError
  BY <1>1, StageOfCoordinator DEF CoordinatorCheck, Barriers
<1>4. PICK point \in {"join", "complete"} : Goto(Coordinator, point) /\ (point = "join" <=> decision.stop)
  BY DEF CoordinatorCheck
<1>5. /\ UNCHANGED shardVars /\ UNCHANGED barrierVars /\ UNCHANGED <<raised, broken>>
      /\ UNCHANGED <<started, wired, bounds, decision, horizon, errors, coordinatorError, outcome>>
  BY DEF CoordinatorCheck, sharedVars, shardVars, barrierVars
<1>6. /\ pc'[Coordinator] = point /\ \A s \in Shards : pc'[s] = pc[s]
      /\ \A s \in Shards : ShardPlaced(b, s)'
      /\ InsideBarrier(b)' /\ ReportsHold(b)'
      /\ BodyRuns' /\ ErrorsRecorded'
  BY <1>1, <1>3, <1>4, <1>5, CoordinatorMoves
<1>7. CoordinatorPlaced(b)'
  BY <1>3, <1>4, <1>5, <1>6 DEF CoordinatorPlaced, CoordinatorOnWay, Over
<1>8. WiredWhen(b)'
  BY <1>1, <1>3, <1>5 DEF Placed, WiredWhen
<1>9. Stopping(b)'
  BY <1>1, <1>3, <1>4, <1>5, <1>6 DEF Placed, Stopping
<1>10. CoordinatorFailed(b)' /\ ShardFailed(b)' /\ BrokenByFailure'
  BY <1>1, <1>3, <1>5, <1>6 DEF Placed, ThreadsInv, CoordinatorFailed, ShardFailed, BrokenByFailure
<1>11. StartingThreads' /\ ReturnedStopped'
  BY <1>5, <1>6 DEF ThreadsInv, StartingThreads, ReturnedStopped
<1>12. StopIsQuiet'
  BY <1>5, StaysQuiet DEF ThreadsInv, StopIsQuiet
<1> QED BY <1>1, <1>2, <1>6, <1>7, <1>8, <1>9, <1>10, <1>11, <1>12 DEF ThreadsInv, Placed

\* The run returns only if nothing has failed; then it was decided to stop.
LEMMA CoordinatorJoinInv ==
  ASSUME ThreadsInv, CoordinatorJoin
  PROVE  ThreadsInv'
<1>1. PICK b \in Barriers : Placed(b) /\ ReportsHold(b)
  BY DEF ThreadsInv
<1>2. TypeOK'
  BY TypesStep DEF Next, CoordinatorThread
<1>3. /\ pc[Coordinator] = "join" /\ pc[Coordinator] \notin Barriers
      /\ Goto(Coordinator, "returned") /\ Over
  BY <1>1, StageOfCoordinator DEF CoordinatorJoin, Barriers
<1>4. /\ UNCHANGED shardVars /\ UNCHANGED barrierVars /\ UNCHANGED <<raised, broken>>
      /\ UNCHANGED <<started, wired, bounds, decision, horizon, errors, coordinatorError>>
  BY DEF CoordinatorJoin, shardVars, barrierVars
<1>5. /\ pc'[Coordinator] = "returned" /\ \A s \in Shards : pc'[s] = pc[s]
      /\ \A s \in Shards : ShardPlaced(b, s)'
      /\ InsideBarrier(b)' /\ ReportsHold(b)'
      /\ BodyRuns' /\ ErrorsRecorded'
  BY <1>1, <1>3, <1>4, CoordinatorMoves
<1>6. CoordinatorPlaced(b)'
  BY <1>3, <1>4, <1>5 DEF CoordinatorPlaced, Over
<1>7. WiredWhen(b)'
  BY <1>1, <1>3, <1>4, <1>5 DEF Placed, WiredWhen
<1>8. Stopping(b)'
  BY <1>1, <1>3, <1>4, <1>5 DEF Placed, Stopping
<1>9. CoordinatorFailed(b)' /\ ShardFailed(b)' /\ BrokenByFailure'
  BY <1>1, <1>4, <1>5 DEF Placed, ThreadsInv, CoordinatorFailed, ShardFailed, BrokenByFailure
<1>10. StartingThreads'
  BY <1>5 DEF StartingThreads
<1>11. ReturnedStopped'
  <2>1. SUFFICES ASSUME outcome' = Returned PROVE decision.stop
    BY <1>4 DEF ReturnedStopped
  <2>2. coordinatorError # NoError => outcome'.result \in {"topology", "horizon"}
    BY DEF CoordinatorJoin, ThreadsInv, TypeOK
  <2>3. coordinatorError = NoError
    BY <2>1, <2>2 DEF Returned
  <2>4. errors # {} => outcome'.result \in {"unwrapped", "ShardError"}
    BY <2>3 DEF CoordinatorJoin, Blame
  <2>5. errors = {}
    BY <2>1, <2>4 DEF Returned
  <2>6. \A s \in Shards : raised[s] = NoError
    BY <2>5 DEF CoordinatorJoin, ThreadsInv, ErrorsRecorded
  <2> QED BY <1>3, <2>3, <2>6 DEF ThreadsInv, BrokenByFailure, Over
<1>12. StopIsQuiet'
  BY <1>4, StaysQuiet DEF ThreadsInv, StopIsQuiet
<1> QED BY <1>1, <1>2, <1>5, <1>6, <1>7, <1>8, <1>9, <1>10, <1>11, <1>12 DEF ThreadsInv, Placed

-----------------------------------------------------------------------------
(* The invariant holds, and what follows from it. *)

LEMMA ThreadsInit == Init => ThreadsInv
<1> SUFFICES ASSUME Init PROVE ThreadsInv
  OBVIOUS
<1>1. TypeOK
  BY TypesInit
<1>2. /\ pc[Coordinator] = "start" /\ \A s \in Shards : pc[s] = "build"
      /\ ~ broken /\ ~ draining /\ inside = {} /\ ~ wired /\ ~ decision.stop
      /\ coordinatorError = NoError /\ started = 0 /\ outcome = Running
      /\ \A s \in Shards : raised[s] = NoError /\ body[s] = <<>>
  BY ThreadIds DEF Init, ShardInit
<1>3. /\ \A s \in Shards : ShardPlaced("built", s)
      /\ CoordinatorPlaced("built")
  BY <1>2 DEF ShardPlaced, ShardOnWay, CoordinatorPlaced, CoordinatorOnWay
<1>4. InsideBarrier("built") /\ WiredWhen("built") /\ Stopping("built")
  BY <1>2 DEF InsideBarrier, WiredWhen, Stopping
<1>5. CoordinatorFailed("built") /\ ShardFailed("built") /\ ReportsHold("built")
  BY <1>2 DEF CoordinatorFailed, ShardFailed, ReportsHold
<1>6. BrokenByFailure /\ BodyRuns /\ ErrorsRecorded /\ StopIsQuiet
  BY <1>2 DEF BrokenByFailure, BodyRuns, ErrorsRecorded, StopIsQuiet
<1>7. StartingThreads /\ ReturnedStopped
  BY <1>2, ShardsAssumption DEF StartingThreads, ReturnedStopped, Running, Returned
<1>8. "built" \in Barriers
  BY DEF Barriers
<1> QED BY <1>1, <1>3, <1>4, <1>5, <1>6, <1>7, <1>8 DEF ThreadsInv, Placed

LEMMA ThreadsStep ==
  ASSUME ThreadsInv, [Next]_vars
  PROVE  ThreadsInv'
<1>1. ASSUME NEW p \in Threads, Barrier(p) PROVE ThreadsInv'
  BY <1>1, ArriveInv, ReleaseInv, PassInv, MeetBrokenInv, AbortBarrierInv DEF Barrier
<1>2. ASSUME NEW s \in Shards, ShardThread(s) PROVE ThreadsInv'
  <2>1. s \in Threads
    BY ThreadIds
  <2> QED BY <1>1, <1>2, <2>1, ThreadBuildInv, ThreadBoundInv, ThreadObeyInv, ThreadDeliverInv,
          ThreadDeliveredInv, ThreadExecuteInv, RecordErrorInv DEF ShardThread
<1>3. CASE CoordinatorThread
  <2>1. Coordinator \in Threads
    BY ThreadIds
  <2> QED BY <1>1, <1>3, <2>1, StartThreadInv, CoordinatorWireInv, CoordinatorStopInv,
          CoordinatorWindowInv, CoordinatorCheckInv, CoordinatorJoinInv DEF CoordinatorThread
<1>4. CASE UNCHANGED vars
  <2>1. PICK b \in Barriers : Placed(b) /\ ReportsHold(b)
    BY DEF ThreadsInv
  <2>2. TypeOK'
    BY TypesStep
  <2>3. /\ UNCHANGED shardVars /\ UNCHANGED <<pc, started, inside, draining, broken, wired>>
        /\ UNCHANGED <<bounds, decision, horizon, errors, coordinatorError, outcome>>
    BY <1>4 DEF vars, threadVars, barrierVars, sharedVars
  <2>4. UNCHANGED <<raised, body, trace>>
    BY <2>3 DEF shardVars
  <2>5. ReportsHold(b)' /\ StopIsQuiet'
    BY <2>1, <2>3, StaysQuiet DEF ReportsHold, ThreadsInv, StopIsQuiet
  <2>6. (\A s \in Shards : ShardPlaced(b, s)') /\ CoordinatorPlaced(b)'
    BY <2>1, <2>3, <2>4 DEF Placed, ShardPlaced, CoordinatorPlaced, Asleep, Over
  <2>7. InsideBarrier(b)' /\ WiredWhen(b)' /\ Stopping(b)'
    BY <2>1, <2>3, <2>4 DEF Placed, InsideBarrier, WiredWhen, Stopping
  <2>8. CoordinatorFailed(b)' /\ ShardFailed(b)' /\ BrokenByFailure' /\ BodyRuns'
    BY <2>1, <2>3, <2>4 DEF Placed, CoordinatorFailed, ShardFailed, ThreadsInv, BrokenByFailure,
       BodyRuns
  <2>9. ErrorsRecorded' /\ StartingThreads' /\ ReturnedStopped'
    BY <2>3, <2>4 DEF ThreadsInv, ErrorsRecorded, StartingThreads, ReturnedStopped
  <2> QED BY <2>1, <2>2, <2>5, <2>6, <2>7, <2>8, <2>9 DEF ThreadsInv, Placed
<1> QED BY <1>2, <1>3, <1>4 DEF Next

\* Whatever the threads do, they stay together: all are on their way to one
\* barrier of the cycle, asleep in the one released last, failed or ended.
THEOREM ThreadsInvariance == Spec => []ThreadsInv
<1>1. Init => ThreadsInv
  BY ThreadsInit
<1>2. ThreadsInv /\ [Next]_vars => ThreadsInv'
  BY ThreadsStep
<1> QED BY <1>1, <1>2, PTL DEF Spec

\* The threads, the barrier and what they share are always well-typed.
THEOREM ThreadsTypeCorrect == Spec => []TypeOK
<1>1. ThreadsInv => TypeOK
  BY DEF ThreadsInv
<1> QED BY <1>1, ThreadsInvariance, PTL

\* No shard computes its bound while another still executes its window and
\* may send: what the window-complete barrier of shard_thread is there for.
THEOREM QuiescentBoundsTheorem == Spec => []QuiescentBounds
<1>1. ASSUME ThreadsInv PROVE QuiescentBounds
  <2>1. PICK b \in Barriers : Placed(b)
    BY <1>1 DEF ThreadsInv
  <2> QED BY <2>1, StageOfShard DEF QuiescentBounds
<1> QED BY <1>1, ThreadsInvariance, PTL

\* Once a shard has raised, no further round is decided, even before the
\* failing thread gets to abort the barrier.
THEOREM FailFastTheorem == Spec => FailFast
<1>1. ASSUME ThreadsInv, [Next]_vars, \E s \in Shards : raised[s] # NoError
      PROVE  UNCHANGED decision
  <2>1. PICK b \in Barriers : Placed(b) /\ ReportsHold(b)
    BY <1>1 DEF ThreadsInv
  <2>2. pc[Coordinator] # "decide"
    BY <1>1, <2>1, WhenDeciding
  <2>3. ~ CoordinatorStop /\ ~ CoordinatorWindow
    BY <2>2 DEF CoordinatorStop, CoordinatorWindow
  <2>4. ASSUME NEW p, Barrier(p) PROVE UNCHANGED decision
    BY <2>4 DEF Barrier, Arrive, Release, Pass, MeetBroken, AbortBarrier, sharedVars
  <2>5. ASSUME NEW s \in Shards, ShardThread(s) PROVE UNCHANGED decision
    BY <2>4, <2>5 DEF ShardThread, ThreadBuild, ThreadBound, ThreadObey, ThreadDeliver,
       ThreadDelivered, ThreadExecute, ThreadComplete, RecordError, sharedVars
  <2>6. CASE CoordinatorThread
    BY <2>3, <2>4, <2>6 DEF CoordinatorThread, StartThread, CoordinatorWire, CoordinatorCheck,
       CoordinatorJoin, sharedVars
  <2>7. CASE UNCHANGED vars
    BY <2>7 DEF vars, threadVars, sharedVars
  <2> QED BY <1>1, <2>5, <2>6, <2>7 DEF Next
<1>2. ThreadsInv /\ [Next]_vars => [(\E s \in Shards : raised[s] # NoError) => UNCHANGED decision]_vars
  BY <1>1
<1> QED BY <1>2, ThreadsInvariance, PTL DEF Spec, FailFast

\* run_threaded returns only when no shard has raised, nothing is on its way
\* and nothing below Until is left to deliver or to execute.
THEOREM OutcomeHonestTheorem == Spec => []OutcomeHonest
<1>1. ASSUME ThreadsInv PROVE OutcomeHonest
  <2>1. SUFFICES ASSUME outcome = Returned, NEW s \in Shards
                 PROVE  /\ raised[s] = NoError /\ Inflight(s) = {}
                        /\ DeliveredBelow(s, Until) /\ ExecutedBelow(s, Until)
    BY DEF OutcomeHonest
  <2>2. decision.stop
    BY <1>1, <2>1 DEF ThreadsInv, ReturnedStopped
  <2>3. raised[s] = NoError
    BY <1>1, <2>2, StageOfShard DEF ThreadsInv
  <2>4. Quiet(s, Until)
    BY <1>1, <2>2 DEF ThreadsInv, StopIsQuiet
  <2>5. heap[s] \subseteq Event /\ pending[s] \subseteq Message /\ Times \subseteq Nat
    BY <1>1 DEF ThreadsInv, TypeOK, ShardTypeOK, Times
  <2>6. \A x \in Times : Until <= x => x >= Until
    BY <2>5, TimeAssumption
  <2>7. DeliveredBelow(s, Until) /\ ExecutedBelow(s, Until)
    BY <2>4, <2>5, <2>6 DEF Quiet, DeliveredBelow, ExecutedBelow, Event, Message
  <2> QED BY <2>3, <2>4, <2>7 DEF Quiet
<1> QED BY <1>1, ThreadsInvariance, PTL

-----------------------------------------------------------------------------
(* run_threaded implements the safe-window algorithm: every step of a      *)
(* thread or of the barrier is a step of PdesRounds or changes nothing     *)
(* that PdesRounds speaks of.                                              *)

LEMMA SameConstants ==
  /\ Rounds!Shards = Shards /\ Rounds!NoError = NoError /\ Rounds!NORMAL = NORMAL
  /\ \A S : Rounds!Min(S) = Min(S)
  /\ \A t, d : Rounds!Plus(t, d) = Plus(t, d) /\ Rounds!Minus(t, d) = Minus(t, d)
  /\ \A m, k : Rounds!KeyBefore(m, k) = KeyBefore(m, k)
  /\ \A e, f : Rounds!Before(e, f) = Before(e, f)
<1>1. \A S : Rounds!Min(S) = Min(S)
  BY DEF Min, Rounds!Min
<1> QED BY <1>1 DEF Shards, Rounds!Shards, NoError, Rounds!NoError, NORMAL, Rounds!NORMAL,
        Plus, Rounds!Plus, Minus, Rounds!Minus, KeyBefore, Rounds!KeyBefore,
        Before, Rounds!Before

LEMMA SameInit == Rounds!ShardInit = ShardInit
BY SameConstants DEF ShardInit, Rounds!ShardInit

LEMMA SameSchedule ==
  \A s, delay, prio, label, origin, error :
    Rounds!Schedule(s, delay, prio, label, origin, error) = Schedule(s, delay, prio, label, origin, error)
BY SameConstants DEF Schedule, Rounds!Schedule

LEMMA SameBuild == \A s : Rounds!Build(s) = Build(s)
BY SameConstants DEF Build, Rounds!Build

LEMMA SameStep == \A s, h : Rounds!Step(s, h) = Step(s, h)
<1>1. \A s, e : Rounds!Handler(s, e) = Handler(s, e) /\ Rounds!IsFirst(e, s) = IsFirst(e, s)
  BY SameConstants DEF Handler, Rounds!Handler, Deposit, Rounds!Deposit, IsFirst, Rounds!IsFirst
<1> QED BY <1>1, SameConstants DEF Step, Rounds!Step

LEMMA SameBody == \A s : Rounds!RunBody(s) = RunBody(s)
<1>1. \A s : Rounds!Raises(s) = Raises(s)
  BY SameConstants DEF Raises, Rounds!Raises
<1>2. \A s : Rounds!RunSchedule(s) = RunSchedule(s)
  BY SameConstants, SameSchedule DEF RunSchedule, Rounds!RunSchedule
<1>3. \A s : Rounds!RunSend(s) = RunSend(s)
  BY SameConstants DEF RunSend, Rounds!RunSend
<1>4. \A s : Rounds!RunFailure(s) = RunFailure(s)
  BY <1>1, SameConstants, SameSchedule DEF RunFailure, Rounds!RunFailure
<1> QED BY <1>2, <1>3, <1>4 DEF RunBody, Rounds!RunBody

LEMMA SameDeliver ==
  /\ \A s, h : Rounds!Deliver(s, h) = Deliver(s, h)
  /\ \A s, h : Rounds!DeliveredBelow(s, h) = DeliveredBelow(s, h)
  /\ \A s, h : Rounds!ExecutedBelow(s, h) = ExecutedBelow(s, h)
<1>1. \A s, h : Rounds!Deliver(s, h) = Deliver(s, h)
  BY SameConstants, SameSchedule, ZenonT(60) DEF Deliver, Rounds!Deliver
<1> QED BY <1>1 DEF DeliveredBelow, Rounds!DeliveredBelow, ExecutedBelow, Rounds!ExecutedBelow

LEMMA SameAbsorb ==
  \A s : Rounds!Absorb(s) = Absorb(s) /\ Rounds!Bound(s) = Bound(s)
<1>1. \A s : Rounds!Inbound(s) = Inbound(s) /\ Rounds!Outbound(s) = Outbound(s)
  BY DEF Inbound, Rounds!Inbound, Outbound, Rounds!Outbound
<1>2. \A s : Rounds!Inflight(s) = Inflight(s)
  BY <1>1 DEF Inflight, Rounds!Inflight
<1>3. \A s : Rounds!MinLookahead(s) = MinLookahead(s) /\ Rounds!NextTime(s) = NextTime(s)
  BY <1>1, <1>2, SameConstants DEF MinLookahead, Rounds!MinLookahead, NextTime, Rounds!NextTime
<1> QED BY <1>1, <1>2, <1>3, SameConstants DEF Absorb, Rounds!Absorb, Bound, Rounds!Bound

LEMMA SameDecision ==
  /\ \A b : Rounds!NextMin(b) = NextMin(b)
  /\ \A b : Rounds!Horizon(b) = Horizon(b)
BY SameConstants DEF NextMin, Rounds!NextMin, Horizon, Rounds!Horizon

-----------------------------------------------------------------------------
(* The phases of the rounds. *)

LEMMA PhaseOfPoint ==
  ASSUME NEW s \in Shards
  PROVE  /\ pc[s] \in {"build", "deliver", "execute"} => phase[s] = pc[s]
         /\ pc[s] \in {"built", "ready"} => phase[s] = IF wired THEN "gather" ELSE "built"
         /\ pc[s] = "bound" => phase[s] = "gather"
         /\ pc[s] \in {"reported", "decided"} =>
              phase[s] = IF ~ Decided(s) THEN "reported" ELSE IF decision.stop THEN "stopped" ELSE "deliver"
         /\ pc[s] = "obey" => phase[s] = IF decision.stop THEN "stopped" ELSE "deliver"
         /\ pc[s] = "complete" => phase[s] = IF s \in inside /\ draining THEN "gather" ELSE "complete"
         /\ pc[s] = "done" => phase[s] = IF decision.stop THEN "stopped" ELSE "halted"
         /\ pc[s] \in {"failing", "abort"} => phase[s] = "halted"
BY DEF phase, PhaseOf

\* The same of the next state.
LEMMA PhaseOfNextPoint ==
  ASSUME NEW s \in Shards
  PROVE  /\ pc'[s] \in {"build", "deliver", "execute"} => phase'[s] = pc'[s]
         /\ pc'[s] \in {"built", "ready"} => phase'[s] = IF wired' THEN "gather" ELSE "built"
         /\ pc'[s] = "bound" => phase'[s] = "gather"
         /\ pc'[s] \in {"reported", "decided"} =>
              phase'[s] = IF ~ Decided(s)' THEN "reported" ELSE IF decision'.stop THEN "stopped" ELSE "deliver"
         /\ pc'[s] = "obey" => phase'[s] = IF decision'.stop THEN "stopped" ELSE "deliver"
         /\ pc'[s] = "complete" => phase'[s] = IF s \in inside' /\ draining' THEN "gather" ELSE "complete"
         /\ pc'[s] = "done" => phase'[s] = IF decision'.stop THEN "stopped" ELSE "halted"
         /\ pc'[s] \in {"failing", "abort"} => phase'[s] = "halted"
BY DEF phase, PhaseOf

LEMMA PhaseType ==
  phase \in [Shards -> Rounds!Phases] /\ phase' \in [Shards -> Rounds!Phases]
<1>1. phase \in [Shards -> Rounds!Phases]
  BY DEF phase, PhaseOf, Rounds!Phases
<1>2. phase' \in [Shards -> Rounds!Phases]
  BY DEF phase, PhaseOf, Rounds!Phases
<1> QED BY <1>1, <1>2

LEMMA PhaseMoves ==
  ASSUME NEW s \in Shards, NEW v, phase'[s] = v, \A t \in Shards \ {s} : phase'[t] = phase[t]
  PROVE  phase' = [phase EXCEPT ![s] = v]
BY PhaseType

LEMMA PhasesMove ==
  ASSUME NEW v, \A s \in Shards : phase'[s] = v
  PROVE  phase' = [s \in Shards |-> v]
BY PhaseType

LEMMA PhasesRemain ==
  ASSUME \A s \in Shards : phase'[s] = phase[s]
  PROVE  phase' = phase
BY PhaseType

\* The phase of a shard whose thread stays where it is.
LEMMA PhaseStays ==
  ASSUME NEW s \in Shards, pc'[s] = pc[s], wired' = wired, decision'.stop = decision.stop,
         pc[s] \in {"reported", "decided"} => (Decided(s)' <=> Decided(s)),
         pc[s] = "complete" => (s \in inside' /\ draining' <=> s \in inside /\ draining)
  PROVE  phase'[s] = phase[s]
<1>1. PhaseOf(s)' = PhaseOf(s)
  BY DEF PhaseOf
<1> QED BY <1>1 DEF phase

\* A step of one shard's thread does not show in the phases of the others.
LEMMA OthersStay ==
  ASSUME TypeOK, NEW s \in Shards, NEW point, Goto(s, point), wired' = wired,
         decision'.stop = decision.stop, coordinatorError' = coordinatorError,
         \A t \in Shards \ {s} : pc[t] = "complete" =>
            (t \in inside' /\ draining' <=> t \in inside /\ draining)
  PROVE  /\ \A t \in Shards \ {s} : phase'[t] = phase[t]
         /\ pc'[s] = point /\ pc'[Coordinator] = pc[Coordinator]
<1>1. s \in Threads /\ Coordinator \in Threads \ {s} /\ Shards \subseteq Threads
  BY ThreadIds
<1>2. pc'[s] = point /\ \A q \in Threads \ {s} : pc'[q] = pc[q]
  BY <1>1, Moves
<1>3. ASSUME NEW t \in Shards \ {s} PROVE phase'[t] = phase[t]
  <2>1. pc'[t] = pc[t] /\ pc'[Coordinator] = pc[Coordinator]
    BY <1>1, <1>2
  <2>2. Decided(t)' <=> Decided(t)
    BY <2>1 DEF Decided
  <2> QED BY <2>1, <2>2, PhaseStays
<1> QED BY <1>1, <1>2, <1>3

\* The coordinator moves, and no shard can tell by its decision.
LEMMA CoordinatorUnseen ==
  ASSUME TypeOK, NEW point, Goto(Coordinator, point),
         wired' = wired, decision'.stop = decision.stop,
         \A s \in Shards : pc[s] = "complete" =>
            (s \in inside' /\ draining' <=> s \in inside /\ draining),
         \A s \in Shards : pc[s] = "reported" =>
            (pc[Coordinator] = "decided" <=> point = "decided"),
         \A s \in Shards : pc[s] = "decided" =>
            (/\ pc[Coordinator] \notin {"reported", "decide"} /\ coordinatorError = NoError
             <=> point \notin {"reported", "decide"} /\ coordinatorError' = NoError)
  PROVE  phase' = phase
<1>1. Coordinator \in Threads /\ Coordinator \notin Shards /\ Shards \subseteq Threads
  BY ThreadIds
<1>2. pc'[Coordinator] = point /\ \A q \in Threads \ {Coordinator} : pc'[q] = pc[q]
  BY <1>1, Moves
<1>3. ASSUME NEW s \in Shards PROVE phase'[s] = phase[s]
  <2>1. pc'[s] = pc[s]
    BY <1>1, <1>2
  <2>2. pc[s] \in {"reported", "decided"} => (Decided(s)' <=> Decided(s))
    BY <1>2, <2>1 DEF Decided
  <2> QED BY <2>1, <2>2, PhaseStays
<1> QED BY <1>3, PhasesRemain

\* A step that leaves the shards, their phases and the decision alone.
LEMMA Stutters ==
  ASSUME phase' = phase, UNCHANGED shardVars, UNCHANGED <<bounds, horizon, decision, coordinatorError>>
  PROVE  UNCHANGED Rounds!vars
BY DEF shardVars, Rounds!shardVars, Rounds!vars, Rounds!roundVars

-----------------------------------------------------------------------------
(* The steps of a shard's thread. *)

LEMMA ThreadsInitRefines == Init => Rounds!Init
<1> SUFFICES ASSUME Init PROVE Rounds!Init
  OBVIOUS
<1>1. \A s \in Shards : phase[s] = "build"
  BY ThreadIds, PhaseOfPoint DEF Init
<1>2. phase = [s \in Shards |-> "build"]
  BY <1>1, PhaseType
<1> QED BY <1>2, SameConstants, SameInit DEF Init, Rounds!Init

LEMMA ThreadBuildRefines ==
  ASSUME ThreadsInv, NEW s \in Shards, ThreadBuild(s)
  PROVE  Rounds!BuildShard(s)
<1>1. PICK b \in Barriers : Placed(b)
  BY DEF ThreadsInv
<1>2. ~ wired
  BY <1>1, StageOfShard DEF Placed, WiredWhen, ThreadBuild
<1>3. phase[s] = "build"
  BY PhaseOfPoint DEF ThreadBuild
<1> DEFINE point == IF raised'[s] # NoError THEN "failing" ELSE "built"
<1>4. Goto(s, point) /\ UNCHANGED <<wired, inside, draining, decision, coordinatorError>>
  BY DEF ThreadBuild, Proceed, barrierVars, sharedVars
<1>5. (\A t \in Shards \ {s} : phase'[t] = phase[t]) /\ pc'[s] = point
  BY <1>4, OthersStay DEF ThreadsInv
<1>6. phase'[s] = IF raised'[s] # NoError THEN "halted" ELSE "built"
  BY <1>2, <1>4, <1>5, PhaseOfNextPoint
<1>7. phase' = [phase EXCEPT ![s] = IF raised'[s] # NoError THEN "halted" ELSE "built"]
  BY <1>5, <1>6, PhaseMoves
<1> QED BY <1>3, <1>7, SameConstants, SameBuild
        DEF Rounds!BuildShard, Rounds!Proceed, ThreadBuild, sharedVars

LEMMA ThreadBoundRefines ==
  ASSUME ThreadsInv, NEW s \in Shards, ThreadBound(s)
  PROVE  Rounds!Report(s)
<1>1. PICK b \in Barriers : Placed(b)
  BY DEF ThreadsInv
<1>2. /\ b = "reported" /\ ~ decision.stop /\ ~ broken /\ wired
      /\ coordinatorError = NoError /\ \A t \in Shards : raised[t] = NoError
  <2>1. b = "reported"
    BY <1>1, StageOfShard DEF ThreadBound
  <2>2. coordinatorError = NoError /\ \A t \in Shards : raised[t] = NoError
    BY <1>1, <2>1, StageOfShard, StageOfCoordinator
  <2> QED BY <1>1, <2>1, <2>2 DEF Placed, Stopping, WiredWhen, ThreadsInv, BrokenByFailure
<1>3. pc[Coordinator] # "decided"
  BY <1>1, <1>2 DEF Placed, CoordinatorPlaced, CoordinatorOnWay, Asleep, Behind
<1>4. ASSUME NEW t \in Shards PROVE phase[t] \in {"gather", "reported"}
  <2>1. \/ pc[t] \in {"bound", "ready"} \/ pc[t] = "reported"
        \/ pc[t] = "complete" /\ t \in inside /\ draining
    BY <1>1, <1>2 DEF Placed, ShardPlaced, ShardOnWay, Asleep, Behind, Over
  <2>2. pc[t] = "reported" => ~ Decided(t)
    BY <1>3 DEF Decided
  <2> QED BY <1>2, <2>1, <2>2, PhaseOfPoint
<1>5. phase[s] = "gather"
  BY PhaseOfPoint DEF ThreadBound
<1>6. Goto(s, "reported") /\ UNCHANGED <<wired, inside, draining, decision, coordinatorError>>
  BY DEF ThreadBound, barrierVars
<1>7. (\A t \in Shards \ {s} : phase'[t] = phase[t]) /\ pc'[s] = "reported"
      /\ pc'[Coordinator] = pc[Coordinator]
  BY <1>6, OthersStay DEF ThreadsInv
<1>8. ~ Decided(s)'
  BY <1>3, <1>7 DEF Decided
<1>9. phase'[s] = "reported"
  BY <1>7, <1>8, PhaseOfNextPoint
<1>10. phase' = [phase EXCEPT ![s] = "reported"]
  BY <1>7, <1>9, PhaseMoves
<1> QED BY <1>4, <1>5, <1>10, SameConstants, SameAbsorb DEF Rounds!Report, ThreadBound

LEMMA ThreadObeyRefines ==
  ASSUME ThreadsInv, NEW s \in Shards, ThreadObey(s)
  PROVE  UNCHANGED Rounds!vars
<1>1. /\ Goto(s, IF decision.stop THEN "done" ELSE "deliver") /\ UNCHANGED shardVars
      /\ UNCHANGED <<wired, inside, draining, bounds, horizon, decision, coordinatorError>>
  BY DEF ThreadObey, barrierVars, sharedVars
<1>2. /\ \A t \in Shards \ {s} : phase'[t] = phase[t]
      /\ pc'[s] = IF decision.stop THEN "done" ELSE "deliver"
  BY <1>1, OthersStay DEF ThreadsInv
<1>3. phase'[s] = phase[s]
  BY <1>1, <1>2, PhaseOfPoint, PhaseOfNextPoint DEF ThreadObey
<1>4. phase' = phase
  BY <1>2, <1>3, PhasesRemain
<1> QED BY <1>1, <1>4, Stutters

LEMMA ThreadDeliverRefines ==
  ASSUME ThreadsInv, NEW s \in Shards, ThreadDeliver(s)
  PROVE  Rounds!DeliverOne(s)
<1> DEFINE point == IF raised'[s] # NoError THEN "failing" ELSE "deliver"
<1>1. phase[s] = "deliver"
  BY PhaseOfPoint DEF ThreadDeliver
<1>2. Goto(s, point) /\ UNCHANGED <<wired, inside, draining, decision, coordinatorError>>
  BY DEF ThreadDeliver, Proceed, barrierVars, sharedVars
<1>3. (\A t \in Shards \ {s} : phase'[t] = phase[t]) /\ pc'[s] = point
  BY <1>2, OthersStay DEF ThreadsInv
<1>4. phase'[s] = IF raised'[s] # NoError THEN "halted" ELSE "deliver"
  BY <1>3, PhaseOfNextPoint
<1>5. phase' = [phase EXCEPT ![s] = IF raised'[s] # NoError THEN "halted" ELSE "deliver"]
  BY <1>3, <1>4, PhaseMoves
<1> QED BY <1>1, <1>5, SameConstants, SameDeliver
        DEF Rounds!DeliverOne, Rounds!Proceed, ThreadDeliver, sharedVars

LEMMA ThreadDeliveredRefines ==
  ASSUME ThreadsInv, NEW s \in Shards, ThreadDelivered(s)
  PROVE  Rounds!StartExecuting(s)
<1>1. phase[s] = "deliver"
  BY PhaseOfPoint DEF ThreadDelivered
<1>2. /\ Goto(s, "execute") /\ UNCHANGED shardVars
      /\ UNCHANGED <<wired, inside, draining, bounds, horizon, decision, coordinatorError>>
  BY DEF ThreadDelivered, barrierVars, sharedVars
<1>3. (\A t \in Shards \ {s} : phase'[t] = phase[t]) /\ pc'[s] = "execute"
  BY <1>2, OthersStay DEF ThreadsInv
<1>4. phase' = [phase EXCEPT ![s] = "execute"]
  BY <1>3, PhaseMoves, PhaseOfNextPoint
<1> QED BY <1>1, <1>2, <1>4, SameDeliver
        DEF Rounds!StartExecuting, shardVars, Rounds!shardVars, ThreadDelivered

LEMMA ThreadExecuteRefines ==
  ASSUME ThreadsInv, NEW s \in Shards, ThreadExecute(s)
  PROVE  Rounds!ExecuteOne(s) \/ Rounds!RunOne(s)
<1> DEFINE point == IF raised'[s] # NoError THEN "failing" ELSE "execute"
<1>1. phase[s] = "execute"
  BY PhaseOfPoint DEF ThreadExecute
<1>2. Goto(s, point) /\ UNCHANGED <<wired, inside, draining, bounds, horizon, decision, coordinatorError>>
  BY DEF ThreadExecute, Proceed, barrierVars, sharedVars
<1>3. (\A t \in Shards \ {s} : phase'[t] = phase[t]) /\ pc'[s] = point
  BY <1>2, OthersStay DEF ThreadsInv
<1>4. phase'[s] = IF raised'[s] # NoError THEN "halted" ELSE "execute"
  BY <1>3, PhaseOfNextPoint
<1>5. CASE Step(s, decision.window)
  <2>1. phase' = [phase EXCEPT ![s] = IF raised'[s] # NoError THEN "halted" ELSE "execute"]
    BY <1>3, <1>4, PhaseMoves
  <2> QED BY <1>1, <1>2, <1>5, <2>1, SameConstants, SameStep DEF Rounds!ExecuteOne, Rounds!Proceed
<1>6. CASE RunBody(s)
  <2>1. raised' = raised
    BY <1>6 DEF RunBody, RunSchedule, RunSend, RunFailure
  <2>2. raised[s] = NoError
    <3>1. pc[s] = "execute" /\ pc[s] \notin Barriers
      BY DEF ThreadExecute, Barriers
    <3> QED BY <3>1, ShardOutside
  <2>3. phase' = phase
    BY <1>1, <1>3, <1>4, <2>1, <2>2, PhasesRemain
  <2> QED BY <1>1, <1>2, <1>6, <2>3, SameBody DEF Rounds!RunOne, Rounds!roundVars
<1> QED BY <1>5, <1>6 DEF ThreadExecute

LEMMA ThreadCompleteRefines ==
  ASSUME ThreadsInv, NEW s \in Shards, ThreadComplete(s)
  PROVE  Rounds!CompleteWindow(s)
<1>1. phase[s] = "execute" /\ s \notin inside
  <2>1. pc[s] = "execute" /\ pc[s] \notin Barriers
    BY DEF ThreadComplete, Barriers
  <2> QED BY <2>1, PhaseOfPoint, ShardOutside
<1>2. /\ Goto(s, "complete") /\ UNCHANGED shardVars
      /\ UNCHANGED <<wired, inside, draining, bounds, horizon, decision, coordinatorError>>
  BY DEF ThreadComplete, barrierVars, sharedVars
<1>3. (\A t \in Shards \ {s} : phase'[t] = phase[t]) /\ pc'[s] = "complete"
  BY <1>2, OthersStay DEF ThreadsInv
<1>4. phase'[s] = "complete"
  BY <1>1, <1>2, <1>3, PhaseOfNextPoint
<1>5. phase' = [phase EXCEPT ![s] = "complete"]
  BY <1>3, <1>4, PhaseMoves
<1> QED BY <1>1, <1>2, <1>5, SameDeliver
        DEF Rounds!CompleteWindow, shardVars, Rounds!shardVars, ThreadComplete

LEMMA RecordErrorRefines ==
  ASSUME ThreadsInv, NEW s \in Shards, RecordError(s)
  PROVE  UNCHANGED Rounds!vars
<1>1. /\ Goto(s, "abort") /\ UNCHANGED shardVars
      /\ UNCHANGED <<wired, inside, draining, bounds, horizon, decision, coordinatorError>>
  BY DEF RecordError, barrierVars
<1>2. (\A t \in Shards \ {s} : phase'[t] = phase[t]) /\ pc'[s] = "abort"
  BY <1>1, OthersStay DEF ThreadsInv
<1>3. phase'[s] = phase[s]
  BY <1>2, PhaseOfPoint, PhaseOfNextPoint DEF RecordError
<1> QED BY <1>1, <1>2, <1>3, PhasesRemain, Stutters

-----------------------------------------------------------------------------
(* The steps at the barrier. *)

LEMMA ArriveRefines ==
  ASSUME ThreadsInv, NEW p \in Threads, Arrive(p)
  PROVE  UNCHANGED Rounds!vars
<1>1. /\ ~ draining /\ UNCHANGED shardVars /\ UNCHANGED <<pc, draining>>
      /\ UNCHANGED <<wired, bounds, horizon, decision, coordinatorError>>
  BY DEF Arrive, CanEnter, sharedVars
<1>2. ASSUME NEW s \in Shards PROVE phase'[s] = phase[s]
  <2>1. Decided(s)' <=> Decided(s)
    BY <1>1 DEF Decided
  <2> QED BY <1>1, <2>1, PhaseStays
<1> QED BY <1>1, <1>2, PhasesRemain, Stutters

LEMMA PassRefines ==
  ASSUME ThreadsInv, NEW p \in Threads, Pass(p)
  PROVE  UNCHANGED Rounds!vars
<1>1. PICK b \in Barriers : Placed(b)
  BY DEF ThreadsInv
<1> DEFINE point == AfterBarrier(p)[pc[p]]
<1>2. p \in inside /\ draining /\ ~ broken /\ pc[p] \in Barriers /\ Behind(b, pc[p])
  BY <1>1, InsidePoints DEF Pass
<1>3. /\ inside' = inside \ {p} /\ draining' = (inside' # {}) /\ Goto(p, point)
      /\ UNCHANGED shardVars /\ UNCHANGED <<wired, bounds, horizon, decision, coordinatorError>>
  BY DEF Pass, sharedVars
<1>4. \A t \in Shards \ {p} : t \in inside' /\ draining' <=> t \in inside /\ draining
  BY <1>2, <1>3
<1>5. CASE p = Coordinator
  <2>1. \/ pc[p] = "built" /\ point = "wire" /\ b = "ready"
        \/ pc[p] \in {"ready", "complete"} /\ point = "reported" /\ b = "reported"
        \/ pc[p] = "reported" /\ point = "decide" /\ b = "decided"
        \/ pc[p] = "decided" /\ point = "check" /\ b = "complete"
    BY <1>2, <1>5 DEF Behind, AfterBarrier
  <2>2. \A s \in Shards : /\ pc[s] = "reported" => b \in {"reported", "decided"}
                          /\ pc[s] = "decided" => b \in {"decided", "complete"}
    BY <1>1 DEF Placed, ShardPlaced, ShardOnWay, Asleep, Behind
  <2>3. \A s \in Shards : pc[s] = "reported" => (pc[Coordinator] = "decided" <=> point = "decided")
    BY <1>5, <2>1, <2>2
  <2>4. \A s \in Shards : pc[s] = "decided" =>
          (/\ pc[Coordinator] \notin {"reported", "decide"} /\ coordinatorError = NoError
           <=> point \notin {"reported", "decide"} /\ coordinatorError' = NoError)
    BY <1>3, <1>5, <2>1, <2>2
  <2>5. phase' = phase
    BY <1>3, <1>4, <1>5, <2>3, <2>4, ThreadIds, CoordinatorUnseen DEF ThreadsInv
  <2> QED BY <1>3, <2>5, Stutters
<1>6. CASE p # Coordinator
  <2>1. p \in Shards /\ raised[p] = NoError
    BY <1>1, <1>2, <1>6, ThreadIds, StageOfShard DEF Barriers
  <2>2. /\ \A t \in Shards \ {p} : phase'[t] = phase[t]
        /\ pc'[p] = point /\ pc'[Coordinator] = pc[Coordinator]
    BY <1>3, <1>4, <2>1, OthersStay DEF ThreadsInv
  <2>3. phase'[p] = phase[p]
    <3>1. CASE pc[p] = "built" /\ point = "ready"
      BY <1>3, <2>1, <2>2, <3>1, PhaseOfPoint, PhaseOfNextPoint
    <3>2. CASE pc[p] = "ready" /\ point = "bound"
      <4>1. wired
        BY <1>1, <1>2, <3>2 DEF Placed, WiredWhen, Behind
      <4> QED BY <2>1, <2>2, <3>2, <4>1, PhaseOfPoint, PhaseOfNextPoint
    <3>3. CASE pc[p] = "complete" /\ point = "bound"
      BY <1>2, <2>1, <2>2, <3>3, PhaseOfPoint, PhaseOfNextPoint
    <3>4. CASE pc[p] = "reported" /\ point = "decided"
      <4>1. b = "decided"
        BY <1>2, <3>4 DEF Behind
      <4>2. pc[Coordinator] \in {"reported", "decide", "decided", "abort"}
        BY <1>1, <1>2, <4>1
           DEF Placed, CoordinatorPlaced, CoordinatorOnWay, Asleep, Behind, Over, Stopping
      <4>3. /\ pc[Coordinator] = "abort" => coordinatorError # NoError
            /\ pc[Coordinator] = "decided" => coordinatorError = NoError
        BY <1>1, StageOfCoordinator
      <4>4. Decided(p)' <=> Decided(p)
        BY <1>3, <2>2, <3>4, <4>2, <4>3 DEF Decided
      <4> QED BY <1>3, <2>1, <2>2, <3>4, <4>4, PhaseOfPoint, PhaseOfNextPoint
    <3>5. CASE pc[p] = "decided" /\ point = "obey"
      <4>1. b = "complete"
        BY <1>2, <3>5 DEF Behind
      <4>2. coordinatorError = NoError /\ pc[Coordinator] \notin {"reported", "decide"}
        BY <1>1, <4>1, StageOfCoordinator
           DEF Placed, CoordinatorPlaced, CoordinatorOnWay, Asleep, Behind
      <4>3. Decided(p)
        BY <3>5, <4>2 DEF Decided
      <4> QED BY <1>3, <2>1, <2>2, <3>5, <4>3, PhaseOfPoint, PhaseOfNextPoint
    <3> QED BY <1>2, <1>6, <3>1, <3>2, <3>3, <3>4, <3>5 DEF AfterBarrier, Barriers
  <2> QED BY <1>3, <2>1, <2>2, <2>3, PhasesRemain, Stutters
<1> QED BY <1>5, <1>6

\* The release of the window-complete barrier begins the next round.
LEMMA ReleaseRefines ==
  ASSUME ThreadsInv, NEW p \in Threads, Release(p)
  PROVE  Rounds!NextRound \/ UNCHANGED Rounds!vars
<1>1. PICK b \in Barriers : Placed(b)
  BY DEF ThreadsInv
<1> DEFINE point == AfterBarrier(p)[b]
<1>2. ~ draining /\ ~ broken /\ inside = Threads \ {p} /\ \A q \in Threads : pc[q] = b
  <2>1. pc[p] = b /\ ~ draining /\ ~ broken /\ inside = Threads \ {p}
    BY <1>1, ThreadIds, StageOfShard, StageOfCoordinator DEF Release, CanEnter
  <2>2. \A q \in inside : pc[q] = b
    BY <1>1, <2>1, InsidePoints
  <2> QED BY <2>1, <2>2
<1>3. /\ inside' = inside /\ draining' /\ Goto(p, point)
      /\ UNCHANGED shardVars /\ UNCHANGED <<wired, bounds, horizon, decision, coordinatorError>>
  BY <1>2 DEF Release, sharedVars
<1>4. pc[Coordinator] = b /\ \A s \in Shards : pc[s] = b
  BY <1>2, ThreadIds
<1>5. coordinatorError = NoError
  BY <1>1, <1>4, StageOfCoordinator DEF Barriers
<1>6. CASE b = "complete"
  <2>1. \A s \in Shards : phase[s] = "complete"
    BY <1>2, <1>4, <1>6, PhaseOfPoint
  <2>2. pc'[p] = point /\ \A q \in Threads \ {p} : pc'[q] = b
    BY <1>2, <1>3, Moves DEF ThreadsInv
  <2>3. ASSUME NEW s \in Shards PROVE phase'[s] = "gather"
    <3>1. CASE s = p
      <4>1. pc'[s] = "bound"
        BY <1>6, <2>2, <3>1, ThreadIds DEF AfterBarrier
      <4> QED BY <4>1, PhaseOfNextPoint
    <3>2. CASE s # p
      <4>1. pc'[s] = "complete" /\ s \in inside'
        BY <1>2, <1>3, <1>6, <2>2, <3>2, ThreadIds
      <4> QED BY <1>3, <4>1, PhaseOfNextPoint
    <3> QED BY <3>1, <3>2
  <2>4. phase' = [s \in Shards |-> "gather"]
    BY <2>3, PhasesMove
  <2> QED BY <1>3, <2>1, <2>4, SameConstants
          DEF Rounds!NextRound, Rounds!All, shardVars, Rounds!shardVars
<1>7. CASE b # "complete"
  <2>1. CASE p = Coordinator
    <3>1. \/ b = "built" /\ point = "wire"
          \/ b = "ready" /\ point = "reported"
          \/ b = "reported" /\ point = "decide"
          \/ b = "decided" /\ point = "check"
      BY <1>7, <2>1 DEF AfterBarrier, Barriers
    <3>2. \A s \in Shards : pc[s] = "reported" => (pc[Coordinator] = "decided" <=> point = "decided")
      BY <1>4, <3>1
    <3>3. \A s \in Shards : pc[s] = "decided" =>
            (/\ pc[Coordinator] \notin {"reported", "decide"} /\ coordinatorError = NoError
             <=> point \notin {"reported", "decide"} /\ coordinatorError' = NoError)
      BY <1>3, <1>4, <3>1
    <3>4. phase' = phase
      BY <1>3, <1>4, <1>7, <2>1, <3>2, <3>3, CoordinatorUnseen DEF ThreadsInv
    <3> QED BY <1>3, <3>4, Stutters
  <2>2. CASE p # Coordinator
    <3>1. p \in Shards
      BY <2>2, ThreadIds
    <3>2. /\ \A t \in Shards \ {p} : phase'[t] = phase[t]
          /\ pc'[p] = point /\ pc'[Coordinator] = pc[Coordinator]
      BY <1>3, <1>4, <1>7, <3>1, OthersStay DEF ThreadsInv
    <3>3. phase'[p] = phase[p]
      <4>1. CASE b = "built" /\ point = "ready"
        BY <1>3, <1>4, <3>1, <3>2, <4>1, PhaseOfPoint, PhaseOfNextPoint
      <4>2. CASE b = "ready" /\ point = "bound"
        <5>1. wired
          BY <1>1, <1>4, <4>2 DEF Placed, WiredWhen
        <5> QED BY <1>4, <3>1, <3>2, <4>2, <5>1, PhaseOfPoint, PhaseOfNextPoint
      <4>3. CASE b = "reported" /\ point = "decided"
        <5>1. ~ Decided(p) /\ ~ Decided(p)'
          BY <1>4, <3>2, <4>3 DEF Decided
        <5> QED BY <1>4, <3>1, <3>2, <4>3, <5>1, PhaseOfPoint, PhaseOfNextPoint
      <4>4. CASE b = "decided" /\ point = "obey"
        <5>1. Decided(p)
          BY <1>4, <1>5, <3>1, <4>4 DEF Decided
        <5> QED BY <1>3, <1>4, <3>1, <3>2, <4>4, <5>1, PhaseOfPoint, PhaseOfNextPoint
      <4> QED BY <1>7, <2>2, <4>1, <4>2, <4>3, <4>4 DEF AfterBarrier, Barriers
    <3> QED BY <1>3, <3>1, <3>2, <3>3, PhasesRemain, Stutters
  <2> QED BY <2>1, <2>2
<1> QED BY <1>6, <1>7

\* A shard that meets the broken barrier gives up; that something has failed
\* is known from the barrier being broken.
LEMMA MeetBrokenRefines ==
  ASSUME ThreadsInv, NEW p \in Threads, MeetBroken(p)
  PROVE  (p \in Shards /\ Rounds!Halt(p)) \/ UNCHANGED Rounds!vars
<1>1. PICK b \in Barriers : Placed(b)
  BY DEF ThreadsInv
<1> DEFINE point == IF p = Coordinator THEN "join" ELSE "done"
<1>2. /\ pc[p] \in Barriers /\ broken /\ Goto(p, point) /\ inside' = inside \ {p}
      /\ UNCHANGED shardVars
      /\ UNCHANGED <<draining, wired, bounds, horizon, decision, coordinatorError>>
  BY DEF MeetBroken, sharedVars
<1>3. ~ decision.stop
  BY <1>1, <1>2 DEF Placed, Stopping
<1>4. coordinatorError # NoError \/ \E s \in Shards : raised[s] # NoError
  BY <1>2 DEF ThreadsInv, BrokenByFailure
<1>5. CASE p = Coordinator
  <2>1. coordinatorError = NoError
    BY <1>1, <1>2, <1>5, StageOfCoordinator DEF Barriers
  <2>2. b \in {"built", "complete"}
    BY <1>1, <1>4, <2>1, StageOfShard
  <2>3. \A s \in Shards : /\ pc[s] # "reported"
                          /\ pc[s] = "decided" => b = "complete"
    BY <1>1, <2>2 DEF Placed, ShardPlaced, ShardOnWay, Asleep, Behind
  <2>4. b = "complete" => pc[Coordinator] \notin {"reported", "decide"}
    BY <1>1, <1>2, <1>5 DEF Placed, CoordinatorPlaced, CoordinatorOnWay, Asleep, Behind, Barriers
  <2>5. phase' = phase
    BY <1>2, <1>5, <2>1, <2>3, <2>4, ThreadIds, CoordinatorUnseen DEF ThreadsInv
  <2> QED BY <1>2, <2>5, Stutters
<1>6. CASE p # Coordinator
  <2>1. p \in Shards
    BY <1>6, ThreadIds
  <2>2. (\A t \in Shards \ {p} : phase'[t] = phase[t]) /\ pc'[p] = "done"
    BY <1>2, <1>6, <2>1, OthersStay DEF ThreadsInv
  <2>3. phase'[p] = "halted"
    BY <1>2, <1>3, <2>1, <2>2, PhaseOfNextPoint
  <2>4. phase[p] \in {"built", "gather", "reported", "deliver", "complete"}
    BY <1>2, <1>3, <2>1, PhaseOfPoint DEF Barriers
  <2>5. phase' = [phase EXCEPT ![p] = "halted"]
    BY <2>1, <2>2, <2>3, PhaseMoves
  <2> QED BY <1>2, <1>4, <2>1, <2>4, <2>5, SameConstants
          DEF Rounds!Halt, Rounds!Failed, shardVars, Rounds!shardVars
<1> QED BY <1>5, <1>6

LEMMA AbortBarrierRefines ==
  ASSUME ThreadsInv, NEW p \in Threads, AbortBarrier(p)
  PROVE  UNCHANGED Rounds!vars
<1>1. PICK b \in Barriers : Placed(b)
  BY DEF ThreadsInv
<1> DEFINE point == IF p = Coordinator THEN "join" ELSE "done"
<1>2. /\ pc[p] = "abort" /\ Goto(p, point) /\ UNCHANGED shardVars
      /\ UNCHANGED <<inside, draining, wired, bounds, horizon, decision, coordinatorError>>
  BY DEF AbortBarrier, sharedVars
<1>3. CASE p = Coordinator
  <2>1. coordinatorError # NoError
    BY <1>1, <1>2, <1>3, StageOfCoordinator
  <2>2. phase' = phase
    BY <1>2, <1>3, <2>1, CoordinatorUnseen DEF ThreadsInv
  <2> QED BY <1>2, <2>2, Stutters
<1>4. CASE p # Coordinator
  <2>1. p \in Shards
    BY <1>4, ThreadIds
  <2>2. ~ decision.stop
    BY <1>1, <1>2, <2>1, StageOfShard
  <2>3. (\A t \in Shards \ {p} : phase'[t] = phase[t]) /\ pc'[p] = "done"
    BY <1>2, <1>4, <2>1, OthersStay DEF ThreadsInv
  <2>4. phase'[p] = phase[p]
    BY <1>2, <2>1, <2>2, <2>3, PhaseOfPoint, PhaseOfNextPoint
  <2> QED BY <1>2, <2>1, <2>3, <2>4, PhasesRemain, Stutters
<1> QED BY <1>3, <1>4

-----------------------------------------------------------------------------
(* The steps of the calling thread. *)

\* Before the decision the coordinator is about to take, all shards wait.
LEMMA AllBuilt ==
  ASSUME ThreadsInv, pc[Coordinator] = "wire"
  PROVE  /\ coordinatorError = NoError /\ ~ wired
         /\ \A s \in Shards : pc[s] \in {"built", "ready"} /\ phase[s] = "built"
<1>1. PICK b \in Barriers : Placed(b)
  BY DEF ThreadsInv
<1>2. b = "ready" /\ coordinatorError = NoError /\ ~ wired /\ ~ decision.stop
  BY <1>1, StageOfCoordinator DEF Placed, WiredWhen, Stopping
<1>3. \A s \in Shards : raised[s] = NoError
  BY <1>1, <1>2, StageOfShard
<1>4. ~ broken
  BY <1>2, <1>3 DEF ThreadsInv, BrokenByFailure
<1>5. \A s \in Shards : pc[s] \in {"built", "ready"}
  BY <1>1, <1>2, <1>3, <1>4 DEF Placed, ShardPlaced, ShardOnWay, Asleep, Behind, Over
<1> QED BY <1>2, <1>5, PhaseOfPoint

LEMMA AllReported ==
  ASSUME ThreadsInv, pc[Coordinator] = "decide"
  PROVE  /\ coordinatorError = NoError
         /\ \A s \in Shards : pc[s] \in {"reported", "decided"} /\ phase[s] = "reported"
<1>1. PICK b \in Barriers : Placed(b) /\ ReportsHold(b)
  BY DEF ThreadsInv
<1>2. coordinatorError = NoError /\ \A s \in Shards : pc[s] \in {"reported", "decided"}
  BY <1>1, WhenDeciding
<1>3. \A s \in Shards : ~ Decided(s)
  BY DEF Decided
<1> QED BY <1>2, <1>3, PhaseOfPoint

\* A step of the coordinator moves no shard.
LEMMA ShardsRemain ==
  ASSUME TypeOK, NEW point, Goto(Coordinator, point)
  PROVE  pc'[Coordinator] = point /\ \A s \in Shards : pc'[s] = pc[s]
BY ThreadIds, Moves

LEMMA StartThreadRefines ==
  ASSUME ThreadsInv, StartThread
  PROVE  UNCHANGED Rounds!vars
<1>1. PICK b \in Barriers : Placed(b)
  BY DEF ThreadsInv
<1>2. PICK point \in {"start", "built"} : Goto(Coordinator, point)
  BY DEF StartThread
<1>3. /\ pc[Coordinator] = "start" /\ UNCHANGED shardVars
      /\ UNCHANGED <<inside, draining, wired, bounds, horizon, decision, coordinatorError>>
  BY DEF StartThread, barrierVars, sharedVars
<1>4. phase' = phase
  BY <1>2, <1>3, CoordinatorUnseen DEF ThreadsInv
<1> QED BY <1>3, <1>4, Stutters

LEMMA CoordinatorWireRefines ==
  ASSUME ThreadsInv, CoordinatorWire
  PROVE  Rounds!Wire
<1>1. /\ coordinatorError = NoError /\ ~ wired
      /\ \A s \in Shards : pc[s] \in {"built", "ready"} /\ phase[s] = "built"
  BY AllBuilt DEF CoordinatorWire
<1>2. /\ UNCHANGED shardVars /\ UNCHANGED <<inside, draining, bounds, horizon, decision>>
  BY DEF CoordinatorWire, barrierVars
<1>3. CASE program.miswired
  <2>1. /\ Goto(Coordinator, "abort") /\ wired' = wired /\ coordinatorError' = "topology"
    BY <1>3 DEF CoordinatorWire
  <2>2. phase' = phase
    BY <1>1, <1>2, <2>1, CoordinatorUnseen DEF ThreadsInv
  <2>3. (coordinatorError # NoError)' = TRUE
    BY <2>1 DEF NoError
  <2> QED BY <1>1, <1>2, <1>3, <2>2, <2>3, SameConstants
          DEF Rounds!Wire, Rounds!All, shardVars, Rounds!shardVars
<1>4. CASE ~ program.miswired
  <2>1. Goto(Coordinator, "ready") /\ wired' /\ coordinatorError' = coordinatorError
    BY <1>4 DEF CoordinatorWire
  <2>2. \A s \in Shards : phase'[s] = "gather"
    BY <1>1, <2>1, ShardsRemain, PhaseOfNextPoint DEF ThreadsInv
  <2>3. phase' = [s \in Shards |-> "gather"]
    BY <2>2, PhasesMove
  <2> QED BY <1>1, <1>2, <1>4, <2>1, <2>3, SameConstants
          DEF Rounds!Wire, Rounds!All, shardVars, Rounds!shardVars
<1> QED BY <1>3, <1>4

LEMMA CoordinatorStopRefines ==
  ASSUME ThreadsInv, CoordinatorStop
  PROVE  Rounds!DecideStop
<1>1. /\ coordinatorError = NoError
      /\ \A s \in Shards : pc[s] \in {"reported", "decided"} /\ phase[s] = "reported"
  BY AllReported DEF CoordinatorStop
<1>2. /\ Goto(Coordinator, "decided") /\ UNCHANGED shardVars
      /\ UNCHANGED <<bounds, coordinatorError>>
      /\ NextMin(bounds) >= Until /\ horizon' = Horizon(bounds)
      /\ decision'.stop /\ decision'.window = Until
  BY DEF CoordinatorStop
<1>3. pc'[Coordinator] = "decided" /\ \A s \in Shards : pc'[s] = pc[s]
  BY <1>2, ShardsRemain DEF ThreadsInv
<1>4. ASSUME NEW s \in Shards PROVE phase'[s] = "stopped"
  <2>1. Decided(s)'
    BY <1>1, <1>2, <1>3 DEF Decided
  <2> QED BY <1>1, <1>2, <1>3, <2>1, PhaseOfNextPoint
<1>5. phase' = [s \in Shards |-> "stopped"]
  BY <1>4, PhasesMove
<1> QED BY <1>1, <1>2, <1>5, SameConstants, SameDecision
        DEF Rounds!DecideStop, Rounds!All, shardVars, Rounds!shardVars

LEMMA CoordinatorWindowRefines ==
  ASSUME ThreadsInv, CoordinatorWindow
  PROVE  Rounds!DecideWindow
<1>1. /\ coordinatorError = NoError
      /\ \A s \in Shards : pc[s] \in {"reported", "decided"} /\ phase[s] = "reported"
  BY AllReported DEF CoordinatorWindow
<1>2. /\ pc[Coordinator] = "decide" /\ NextMin(bounds) < Until /\ UNCHANGED shardVars
      /\ UNCHANGED <<inside, draining, wired, bounds>>
  BY DEF CoordinatorWindow, barrierVars
<1>3. CASE Horizon(bounds) <= horizon
  <2>1. /\ Goto(Coordinator, "abort") /\ coordinatorError' = "horizon"
        /\ UNCHANGED <<horizon, decision>>
    BY <1>3 DEF CoordinatorWindow
  <2>2. (coordinatorError # NoError)' = TRUE
    BY <2>1 DEF NoError
  <2>3. \A s \in Shards : pc[s] = "decided" =>
          (/\ pc[Coordinator] \notin {"reported", "decide"} /\ coordinatorError = NoError
           <=> "abort" \notin {"reported", "decide"} /\ coordinatorError' = NoError)
    BY <1>2, <2>2
  <2>4. phase' = phase
    BY <1>2, <2>1, <2>3, CoordinatorUnseen DEF ThreadsInv
  <2> QED BY <1>1, <1>2, <1>3, <2>1, <2>2, <2>4, SameConstants, SameDecision
          DEF Rounds!DecideWindow, Rounds!All, shardVars, Rounds!shardVars
<1>4. CASE ~ (Horizon(bounds) <= horizon)
  <2>1. /\ Goto(Coordinator, "decided") /\ coordinatorError' = coordinatorError
        /\ horizon' = Horizon(bounds)
        /\ ~ decision'.stop /\ decision'.window = Min({Horizon(bounds), Until})
    BY <1>4 DEF CoordinatorWindow
  <2>2. pc'[Coordinator] = "decided" /\ \A s \in Shards : pc'[s] = pc[s]
    BY <2>1, ShardsRemain DEF ThreadsInv
  <2>3. ASSUME NEW s \in Shards PROVE phase'[s] = "deliver"
    <3>1. Decided(s)'
      BY <1>1, <2>1, <2>2 DEF Decided
    <3> QED BY <1>1, <2>1, <2>2, <3>1, PhaseOfNextPoint
  <2>4. phase' = [s \in Shards |-> "deliver"]
    BY <2>3, PhasesMove
  <2> QED BY <1>1, <1>2, <1>4, <2>1, <2>4, SameConstants, SameDecision
          DEF Rounds!DecideWindow, Rounds!All, shardVars, Rounds!shardVars
<1> QED BY <1>3, <1>4

LEMMA CoordinatorEndRefines ==
  ASSUME ThreadsInv, CoordinatorCheck \/ CoordinatorJoin
  PROVE  UNCHANGED Rounds!vars
<1>1. PICK b \in Barriers : Placed(b)
  BY DEF ThreadsInv
<1>2. PICK point \in {"join", "complete", "returned"} : Goto(Coordinator, point)
  BY DEF CoordinatorCheck, CoordinatorJoin
<1>3. /\ pc[Coordinator] \in {"check", "join"} /\ UNCHANGED shardVars
      /\ UNCHANGED <<inside, draining, wired, bounds, horizon, decision, coordinatorError>>
  BY DEF CoordinatorCheck, CoordinatorJoin, barrierVars, sharedVars
<1>4. phase' = phase
  BY <1>2, <1>3, CoordinatorUnseen DEF ThreadsInv
<1> QED BY <1>3, <1>4, Stutters

-----------------------------------------------------------------------------
(* The refinement. *)

LEMMA ThreadsStepRefines ==
  ASSUME ThreadsInv, [Next]_vars
  PROVE  [Rounds!Next]_(Rounds!vars)
<1>1. ASSUME NEW p \in Threads, Barrier(p) PROVE [Rounds!Next]_(Rounds!vars)
  <2>1. CASE MeetBroken(p)
    <3>1. p \in Shards /\ Rounds!Halt(p) => Rounds!Next
      BY SameConstants DEF Rounds!Next, Rounds!ShardAction
    <3> QED BY <2>1, <3>1, MeetBrokenRefines
  <2>2. CASE Release(p)
    BY <2>2, ReleaseRefines DEF Rounds!Next
  <2> QED BY <1>1, <2>1, <2>2, ArriveRefines, PassRefines, AbortBarrierRefines DEF Barrier
<1>2. ASSUME NEW s \in Shards, ShardThread(s) PROVE [Rounds!Next]_(Rounds!vars)
  <2>1. s \in Threads /\ s \in Rounds!Shards
    BY ThreadIds, SameConstants
  <2>2. Rounds!ShardAction(s) \/ UNCHANGED Rounds!vars \/ Barrier(s)
    BY <1>2, ThreadBuildRefines, ThreadBoundRefines, ThreadObeyRefines, ThreadDeliverRefines,
       ThreadDeliveredRefines, ThreadExecuteRefines, ThreadCompleteRefines, RecordErrorRefines
       DEF ShardThread, Rounds!ShardAction
  <2> QED BY <1>1, <2>1, <2>2 DEF Rounds!Next
<1>3. CASE CoordinatorThread
  <2>1. Coordinator \in Threads
    BY ThreadIds
  <2>2. \/ Rounds!Wire \/ Rounds!DecideStop \/ Rounds!DecideWindow
        \/ UNCHANGED Rounds!vars \/ Barrier(Coordinator)
    BY <1>3, StartThreadRefines, CoordinatorWireRefines, CoordinatorStopRefines,
       CoordinatorWindowRefines, CoordinatorEndRefines DEF CoordinatorThread
  <2> QED BY <1>1, <2>1, <2>2 DEF Rounds!Next
<1>4. CASE UNCHANGED vars
  <2>1. UNCHANGED shardVars /\ UNCHANGED <<pc, inside, draining, wired>>
        /\ UNCHANGED <<bounds, horizon, decision, coordinatorError>>
    BY <1>4 DEF vars, threadVars, barrierVars, sharedVars
  <2>2. ASSUME NEW s \in Shards PROVE phase'[s] = phase[s]
    <3>1. Decided(s)' <=> Decided(s)
      BY <2>1 DEF Decided
    <3> QED BY <2>1, <3>1, PhaseStays
  <2> QED BY <2>1, <2>2, PhasesRemain, Stutters
<1> QED BY <1>2, <1>3, <1>4 DEF Next

\* run_threaded is an implementation of the safe-window algorithm: whatever
\* the scheduler does with its threads, each shard acts on the decision of its
\* own round, computed from the bounds of that round.
THEOREM ThreadsImplementRounds == Spec => ImplementsRounds
<1>1. Init => Rounds!Init
  BY ThreadsInitRefines
<1>2. ThreadsInv /\ [Next]_vars => [Rounds!Next]_(Rounds!vars)
  BY ThreadsStepRefines
<1> QED BY <1>1, <1>2, ThreadsInvariance, PTL DEF Spec, ImplementsRounds
=============================================================================
