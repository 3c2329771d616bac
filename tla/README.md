# A TLA+ verification of llmsim

llmsim is a discrete-event simulation library: a sequential kernel (`Sim`,
events, generator processes, resources), and three ways to go parallel -
independent replications, work offloaded from a running simulation, and one
model partitioned into *shards* that synchronize conservatively (PDES). This
directory holds TLA+ modules for the program, the TLC configurations that
model-check them on small instances, and theorems proved with TLAPS for every
value of the constants. Paths such as `pdes/sync.py` are relative to
`src/src/llmsim/` (`pdes` is `parallel/pdes`).

Modelled: the PDES synchronizer, the sequential kernel with processes,
interrupts and conditions, the resources, the offload pool under both drivers,
the real-time runner, and the replication runner. All are model-checked, and all are proved
about as well (section 4). Section 6 says what is left out, section 7 what only TLC checks and what a next
step of the proofs would be.

## 1. Inventory

| component | state | operations | hard behaviour | what makes it correct |
|---|---|---|---|---|
| **PDES synchronizer** `pdes/sync.py` | bounds list, decision, `previous_horizon`, pending heaps, errors dict, barrier | `run_sequential`, `run_threaded`, `_decide`, `bound`, `deliver_below`, `execute_window` | N+1 threads, barriers, failures in any phase, float time | no message lands in an open window; horizon advances; nothing left when the run stops; threads = oracle, event for event; no thread left blocked |
| **PDES channels** `pdes/channel.py` | mailboxes (locked), per-channel sequence numbers, an inbox store | `send`, `append`, `drain`, `deliver`, `_deposit` | senders race on a receiver's mailboxes | exactly once; order (timestamp, channel, sequence) |
| **PDES topology** `pdes/shard.py` | registry of declared endpoints (locked), builders | `shard`, `out`, `inbox`, `validate_and_bind`, `run` | builders declare from racing threads | ids do not depend on the race; miswiring found before any event |
| **Kernel** `core/sim.py` | clock, event heap, event id counter, active process | `schedule`, `step`, `run(until)` | stop events, failed events, an exception that leaves `step` | total order of events; clock monotone; a process resumes at most once per event |
| **Events and processes** `core/events.py`, `core/process.py` | per event: value, ok, callbacks, defused; per process: target | `succeed`, `fail`, `trigger`, `_resume`, `interrupt` | interrupts racing the target; failure propagation | no lost or double wake-up; failures never pass unseen |
| **Conditions** `core/conditions.py` | count, operand events, checks registered as callbacks | `all_of`, `any_of`, nesting, `_check` | shared and nested operands; late failures | fires exactly when its predicate first holds |
| **Resources** `resources/*.py` | put and get queues, users, level, items | request/release, put/get, cancel, preempt | cancels, priorities, preemption while interrupting | capacity; queue order; no satisfiable request left stranded |
| **Offload** `parallel/offload.py` | in-flight table, completion queue, closed flag | `submit`, `poll`, `drain`, `cancel`, `close` | worker threads complete while the owner polls, cancels or closes | each task resolves once; cancelled or closed tasks never resume |
| **Replication** `parallel/replicate.py`, `backends.py` | submitted futures, results, cancel flag | `iter_results`, `run`, `cancel` | failures and cancellation race completion | each result exactly once; a failure or a cancel ends the run and loses no finished result |
| **Real time** `rt.py` | wall-clock anchor | `run` | drift and resynchronization | events never early |
| **Random streams** `rand/streams.py` | seed tree | derive, draw | - | determinism (numeric) |
| **Trace, analyze, scenario** | - | recording, reports, stubs | - | - |

**How they interact.** `ShardedSim.run` calls one of the two drivers of
`pdes/sync.py`. Each shard owns a `Sim`; the driver peeks at its heap, drains
the mailboxes of its inbound channels, turns messages into `Timeout`s
(`Inbox.deliver`), and calls `Sim.step` below the window. While a step runs,
processes call `Channel.send`, which appends to the *receiver's* mailbox: the
only state shared by shards inside a window. `run_threaded` adds a
`threading.Barrier` of N+1 parties, a decision object and a bounds list that
are written in one barrier phase and read in the next. `_deposit` puts a
payload in a `Store` (resources), whose `get` wakes a process through the
kernel. Offload and replication use `backends.py` executors; a resource's
requests are events of the kernel.

## 2. The modules

| module | models |
|---|---|
| `FloatTime` | simulated time as the doubles it is: rounded sums and differences, and the two facts about them that some theorems assume; EXTENDed by `PdesShard` and `Kernel` |
| `PdesShard` | one shard as the synchronizer sees it: `Sim` (clock, heap, event ids), pending heap, inbound mailboxes, channel sequence numbers; every operation on them; `_decide`'s two minima |
| `PdesRounds` | the **abstract specification**: the safe-window algorithm of rounds, without saying who runs which step. The properties of the algorithm are stated here |
| `PdesSequential` | `run_sequential`: one thread, loops in shard index order; refines `PdesRounds` |
| `PdesThreads` | `run_threaded`: a program counter per thread, the reusable barrier with its draining state, the except/finally clauses; refines `PdesRounds` |
| `PdesEquivalence` | the same program run by the oracle and then by the threads |
| `PdesShardProofs` | lemmas about one shard: time, bounds, minima |
| `PdesRoundsProofs` | theorems about the algorithm of rounds: windows and horizon; where each message is and in which order it runs |
| `PdesSequentialProofs`, `PdesThreadsProofs` | the two drivers implement `PdesRounds`; the invariant of the barrier protocol |
| `Kernel` | one `Sim`: event loop, event life cycle, processes, interrupts, conditions, `run(until)` |
| `KernelInvariant` | its inductive invariants (`KInv`, and `FireInv` for conditions) and the relations between two states that the proofs are made of (`Tame`, `Aside`, `Spares`, ...) |
| `KernelProofs` | the theorems that follow; the least-number principle, which stands in for induction |
| `Resources` | one resource of any of the seven kinds and its users; EXTENDS `Kernel` |
| `ResourcesProofs` | its inductive invariant, over that of the kernel, and the theorems that follow |
| `Backends` | names, traits, nesting rule and transport of the execution backends (operators only) |
| `Offload` | the offload pool, its workers and the run loop with a pool attached; EXTENDS `Kernel`, `Backends` |
| `Realtime` | `rt.run`: the loop of `Offload` paced by the wall clock; EXTENDS `Offload`, and INSTANCEs it as its own inline reference |
| `OffloadProofs` | the inductive invariant of the pool under both drivers, and the theorems that follow; EXTENDS `Realtime`, `KernelProofs` |
| `Replicate` | `Experiment.iter_results`, its executor and `cancel()`; EXTENDS `Backends` |
| `ReplicateProofs` | its inductive invariant and the theorems that follow |
| `MCFloats` | two arithmetics for the instances: exact, and a float of three binary digits |
| `MCPdesRounds`, `MCPdesEquivalence`, `MCKernel`, `MCResources`, `MCOffload`, `MCReplicate` | instances for TLC |

`PdesShard` declares the shards' variables and actions and has no `Next`; the
three drivers EXTEND it. `PdesSequential` and `PdesThreads` INSTANCE
`PdesRounds` with a refinement mapping (`phase`), and `PdesEquivalence`
INSTANCEs `PdesSequential` on a second set of shard variables.

### How state and actions correspond to the code: PDES

| TLA+ | code |
|---|---|
| `now`, `heap`, `eid` | `Sim._now`, `_queue`, `_eid` |
| `pending`, `mail`, `sequence` | `_ShardRuntime._pending`, `Mailbox._messages`, `Channel._sequence` |
| `trace` | what a trace sink is told about each event, plus the message an arrival carries |
| `body` | what the callbacks of the event being processed have still to do |
| `Build`, `Step`, `RunSend`, `Absorb`, `Bound`, `Deliver` | `_build_shard`, `Sim.step`, `Channel.send`, `absorb`, `bound`, one turn of `deliver_below` with `Inbox.deliver` |
| `RunFailure` | an exception in a process: the process's event fails, and `step` re-raises when that event is processed |
| `Deposit` | `Inbox._deposit`: the `put` event and the wake-up it grants are one further event at the same time |
| `DecideStop`, `DecideWindow` / `SeqStop`, `SeqWindow` / `CoordinatorStop`, `CoordinatorWindow` | `_decide` and the driver's use of its verdict |
| `pc[p]` | the statement thread `p` is about to execute; five values are `barrier.wait()` |
| `Arrive`, `Release`, `Pass`, `MeetBroken`, `AbortBarrier` | `threading.Barrier` (standard library): the last arrival releases and passes at once, the rest leave one by one, and `abort()` breaks the wait of any thread still inside, *released or not* |
| `RecordError`, `Blame`, `CoordinatorJoin` | the except clause of `shard_thread`, the finally clause of `run_threaded` |

**Granularity.** A step of `PdesThreads` is one statement that touches shared
state. `bound()` is one step: it writes its own pending heap and its own
mailboxes, and by `QuiescentBounds` nobody appends to those meanwhile. Appending
to a mailbox is one step (it holds the lock). Processing an event is one step
per send or schedule, so sends of different shards interleave.

**The simulated model** is data: `program` gives, per shard, the events the
builder schedules and, per event label, the operations of the processes the event
resumes (schedule, send, raise), and whether the builder or the wiring
fails. Processes are deterministic functions of what woke them, which is what
the code's determinism claim presupposes.

**Time** (`FloatTime`, in all models but that of replication) is `0 .. Infinity` with a rounding
operator `Round` on sums and differences, since the code's times are doubles: exact (`Round(x) = x`), or
`Coarse`, a float with three binary digits rounding half to even. `Sim.schedule` takes a delay, so
whoever knows the time `t` schedules at `now + (t - now)`, which is rounded twice and need not be `t`:
`Inbox.deliver`, `run(until=t)` and the delivery of a late or cancelled offload do so. All that is
assumed of `Round` is monotonicity, idempotence, `Round(0) = 0` and
`Round(Infinity) = Infinity` (`RoundAssumption`).

### The kernel and what is built on it

`Kernel` holds a `Sim` in one record and writes what one call does to it as an
operator from records to records (`Schedule`, `Trigger`, `Check`, `Combine`,
`Interrupted`, ...), so that the resources and the pool can compose calls. Control is a
variable: the main program calls `run()`, the loop pops an entry and calls its
callbacks one by one, a callback may resume a process, and the process does what
it likes until it waits (`YieldOn`) or ends (`End`).

| TLA+ | code |
|---|---|
| `sim.queue` | `Sim._queue`; the position of an entry stands for its event id |
| `sim.events[e]` | `_value`/`_ok` (`state`), `callbacks`, `defused`, a process's `_target`, a condition's `_events` and `_count` |
| callbacks `resume`, `check`, `build`, `trigger`, `stop` | `_resume`, `_check`, `_build_value`, `Event.trigger`, `_StopSimulation.callback` |
| entries `start`, `interrupt`, `stop` | `_Initialize`, `_Interruption`, a numeric `until`: events only the kernel can see |
| `control`, `step` | who is executing; the entry `Sim.step` is processing and its callbacks to come |
| `Cut` | an exception that leaves `step`: the callbacks to come are dropped |
| `MakeEvent` ... `YieldWrong` | anything user code may call, in any order, as far as the cast's menu and its number of calls allow |
| `ghost` | history only: wake-ups and checks a cut step dropped, failures that were seen |

In `Resources` the operators take a *world*, the `Sim` with the resource. `NewPut`
is the constructor of a put request with everything it calls: enqueue, register the
other queue's trigger, serve the queue (`TriggerPut`), where a preemption may
remove a holder, schedule its interruption, or be refused and raise (`raised`). A
container, a store and a slot share the triggers and differ in
`DoPut` and `DoGet`. `LeaveWith` is `Request.__exit__`: cancel, then release.

In `Offload` a job belongs to an event. `Submit` runs the payload at once when the
pool is inline. `WorkerTakes` and `WorkerFinishes` interleave with every step of the
owner's thread, also with `PollOne`, the turns of `poll`'s loop. `Resolve` is not enabled until the
future is done: the loop blocks there. `InterruptWaiter` is the kernel's
delivery of an interrupt with the hook `_waiter_unhooked`. A payload's outcome is
fixed at submission, since it is a function of its arguments.

`Realtime` adds the wall clock. `Await` is one look at the clock with the sleep or the drift
error, `RtDrain` pins both clocks anew. With `pace.on` false it is `Sim.run`, so one
run checks both drivers.

In `Replicate` each step of the generator is a statement that touches shared state
(`token`, `executor`, `check`, `submit`, `hook`, `collect`, ..., the three
statements of `finally`), and each test and each use of a field in `cancel()` is a
step of the canceller, since the other thread may run in between. The executor is external:
a pending future can be cancelled, a running one cannot; a
done-callback runs once, at registration if the future is done; `shutdown` of the process pool
lets its manager thread drop the pending work later (`DropPending`) and keeps one job more ahead.

## 3. What TLC checks

| run | specification | bounds | shows |
|---|---|---|---|
| `rounds` | `PdesRounds` | 3 shards, 3 channels, 75 programs, Until 6, exact time; 79,919 states | types; `SafeWindow`, `CausalityHolds`, `HorizonAdvances`, `NothingLeftBehind`, `ExactlyOnce`, `DeliveryOrder`; the inductive invariant `IInv` of the proofs |
| `equivalence` | `PdesEquivalence` | 3 shards = 4 threads, 14 programs, Until 4, exact time; 76,009 states | both drivers refine `PdesRounds`; equal traces, equal verdicts; quiescent bounds, fail-fast, honest outcome, termination |
| `causality` | `PdesRounds` | one program, `Coarse` time, Until 40 | *violated*: finding 1 |
| `stuck` | `PdesRounds` | one program, `Coarse` time, Until 16 | *violated*: finding 2 |
| `blame` | `PdesEquivalence` | two shards raise in the first window | *violated*: finding 3 |
| `unwrapped` | `PdesEquivalence` | a send below the lookahead in the first window | *violated*: finding 4 |
| `kernel` | `Kernel` | 8 casts: 1 to 3 processes, 1 to 5 events, 2 to 4 calls, 1 or 2 runs, `Coarse` time, stops at 1, 2 and 10; 1,280,000 states | `HookedOnce`, `NoStaleWakeup`, `InterruptsFirst`, `FailuresSurface`, `FiresWhenItHolds`, `StopsWhereAsked`, types; the inductive invariant `KInv` of the proofs |
| `nested` | `Kernel` | `any_of(all_of(1, 2), 4)` and two processes | *violated*: finding 5 |
| `resources` | `Resources` | 8 casts, one of each kind and a preemptive one with two slots, 1 to 3 processes, 4 or 5 calls; 1,425,000 states | `Conserved`, `NobodyStranded`, `GrantsInOrder`, `LosersHear` |
| `offload` | `Realtime` | 9 casts: 1 or 2 processes, 1 or 2 workers, 1 to 3 calls, 1 or 2 runs, `Coarse` time, delay 10, stops at 1 and 10, wall clock to 12; 1,132,000 states | `NothingDropped`, `SeenIsReal`, `DueHonoured`, `NeverEarly`, `StrictIsInline`, `RunEnds` |
| `replicate` | `Replicate` | 30 studies of 1 to 3 jobs, 2 workers, 2 rounds, 2 cancels; 502,000 states | `EachResultOnce`, `AllOrNothing`, `QuietAfterCancel`, `IterationGoesOn`; the inductive invariant `IInv` of the proofs |
| `cancelled` | `Replicate` | two sound jobs on threads, one round, one cancel | *violated*: finding 6 |

**Why the bounds are enough: PDES.** Shards 0 and 1 both send to 2, whose answers
go to 0: that is the smallest topology in which messages of two channels tie, a
cycle constrains the horizon, and one shard (1) is never constrained by
mail. Lookaheads 1, 2, 2 make windows of different lengths, so before Until there
are up to six rounds, with messages that land in the next window, skip
one, or land at Until or beyond it (never delivered). `Sparse` is the model in which
only an undelivered message holds the window back. `Ticks` and `Mails` of
the MC modules include sends in non-monotone time order on one channel, two
events at one time and priority, priorities in both orders, a raise by an arrival and
by a tick, a broken promise (`delay < lookahead`), a failing builder and a
miswired topology. Infinity lies above every finite time that occurs, so
that it means "empty heap" or "pure sink" and nothing else. There are no state
constraints: the reachable state space is finite and explored completely,
because no program schedules without advancing its clock for ever. Symmetry
is not used (shard indices and channel ids are ordered).

**Why the bounds are enough: the rest.** A cast pairs what the main program sets up
with a menu of calls, and each pair is chosen for one interplay, so that
the calls are spent on it:
- *kernel*: two interrupts of one process before the first is delivered, or an interrupt together with
  the trigger of its target (`Interrupts`); runs that stop, crash, or are left by a wrong yield, and a run after that
  (`Stops`); a failure that is chained, thrown into a body, handed on by a body or waited for by `until` (`Faults`, `Chains`); interrupts of processes
  at different times (`Clock`) and of processes just spawned (`Births`); conditions of two members over pending, triggered and processed
  events, with members failing before and after they fire (`Conditions1`), and a condition in a condition (`Conditions2`).
- *resources*: capacity 1 for slots (a waiter, a holder, a newcomer), 3 for the container
  with amounts 1 to 3 (a blocked head and a smaller request behind it), two
  items of two sizes for the stores. Preemption meets a victim that has ended or that is the
  active process, and (two slots) a request that waits behind one that may not bump.
- *offload*: two jobs on two workers finish in either order; two on one worker leave one queued to be cancelled; a
  process leaves a job that another still waits for; `close` with jobs queued,
  running or finished; slots before and after each other; the inline and the refused nesting; pacing with and without drift.
- *rounding*: in `Coarse` arithmetic 10 asked for at time 1 comes out as 8 (`10 - 1` rounds to 8, `1 + 8` to 8) and at time 2 as 10. So in
  `kernel` a run is stopped before the time asked, and in `offload` a delivery comes before its bound.
- *replicate*: two jobs, each returning, raising or unpicklable, on each backend, three jobs with
  spooling and cooperative cancellation; two cancels and two rounds, so that
  a cancel that began in one round ends in the next.

**Deadlock** is checked in the PDES runs. `Over` in `PdesRounds` and `Both` in
`PdesEquivalence` are self-loops of runs that have ended; any other state
without a successor would be a synchronizer that hangs. In the other runs the program simply stops when its
calls and runs are used up, and their cfgs say `CHECK_DEADLOCK FALSE`; that nothing
hangs is what `HookedOnce`, `NobodyStranded`, `NothingDropped`, `RunEnds` and `IterationGoesOn` say.

**Fairness.** `PdesRounds`, `PdesSequential`, `Kernel` and `Resources` need none: they carry safety
only. `PdesThreads` assumes weak fairness of each thread: the operating
system goes on scheduling a thread that can run. Nothing is assumed about which thread
leaves a barrier first, nor about how long a step takes. `Termination` therefore
holds through the barrier protocol, not through a fairness that the code lacks: its
mutant is an except clause that does not abort the barrier.
`Realtime` assumes it of the loop (it runs on a thread that is scheduled), of the workers (payloads
return), and of `End`: a process body does not run for ever without yielding. Nothing is assumed of what user
code calls, nor of the wall clock. `Replicate` assumes it of the workers, of the process pool's manager thread and of the generator while it
has control; the consumer need not come back from a `yield`, and nobody need call `cancel()`.

### What the properties say

- `SafeWindow` relates every undelivered message to the window that is open and to the
  clock of the shard it is going to, in every interleaving of senders and receivers.
- `NothingLeftBehind` and `OutcomeHonest`: the run stops, or returns, only when
  nothing below Until is left in a heap, a pending heap or a mailbox.
- `ExactlyOnce` counts each message over mailbox, pending heap, event heap and
  trace. `DeliveryOrder` holds over the *whole* run and so across rounds, though the code
  sorts only within what it has drained.
- `ImplementsRounds`: a thread acts on the decision of its own round. The mapping places the
  start of a round at the *release* of a barrier, while threads still have to wake.
- `TracesAgree`: at every moment each shard's trace is a prefix of the oracle's, with
  the same times, priorities, event ids and arrivals; on return they are equal.
- `FailFast`: after an exception in a shard no further round is decided, even before the
  failing thread has reached `barrier.abort()`.

- `HookedOnce`: a live process that is not running has exactly one wake-up registered, through every
  sequence of yields, interrupts and conditions; the one exception is a wake-up that a cut step dropped.
- `NoStaleWakeup`: an event never resumes a process that has moved on to another. Together with
  `HookedOnce` this is what `_interrupt`'s `callbacks.remove` is for.
- `StopsWhereAsked`: a run that found no stop left over ends at its own stop and at no other, whatever exceptions, interrupts and wrong
  yields come in between: for a numeric `until`, at `StopTime(from, at)`, which is `from + (at - from)` as floats round it. In exact arithmetic that is
  `at`; in doubles it may be an ulp off (section 5).
- `FailuresSurface`: a failed event that has been processed was thrown into a body, crashed the run or was taken over by a
  condition that fails as well. `FiresWhenItHolds` compares each condition with its predicate over processed
  members, in both directions; the casts keep chained triggers and conditions apart, since a member that `trigger()` schedules a second time
  is processed and pending at once.
- `NobodyStranded`: when no grant is on its way, serving both queues once more would change nothing - for a preemptive resource with
  several slots, apart from bumping a holder, which the code does not look at again for a request that has come to the head (section 5).
- `GrantsInOrder` is an action property over everything one call grants: whoever is left waiting comes behind them.
- `LosersHear`: a holder that has not released its slot loses it only in a step that appends an interruption of its process to the schedule; one that
  was there before does not count.
- `NothingDropped` is about the step at which a run ends for want of events: at that step every offload ever submitted, strict or not, has been
  processed. It says that the loop drains: its mutant is a loop that ends without looking at the pool.
- `DueHonoured`: strict offloads are processed at their slot; others not before their bound, as the round trip of the delay to it comes out (`InTime`). Strict ones
  need no such allowance: their slot is computed once, when they are submitted.
- `SeenIsReal` ties what an event holds to the job's own outcome, and the pool's two tables to the jobs that are open.
- `StrictIsInline` is a refinement: with every future taken for done, each step of the pooled, paced loop is a step of `Offload`
  with an inline pool, or a stutter. The order of events and all values are then those of the inline reference, which is the
  equivalence the documentation promises. Non-strict offloads are excluded, as there.
- `QuietAfterCancel` is about a `cancel()` that *began* in the iteration: one that comes before `_cancelled` is reset may be lost, and
  the code promises nothing else.

## 4. What is proved

Every theorem holds for every value of the constants: any number of shards, channels and positive lookaheads, any
programs, any Until; any rounding that meets `RoundAssumption`, for the synchronizer, the kernel, the resources, the pool and the real-time loop alike; any set of studies with any number of
workers, rounds and cancels; any casts that a main program can set up (`CastAssumption`), with any number of events, processes, conditions,
calls and runs; any resource that its constructor accepts (`ResourceAssumption`); any pool with at least one worker, over a Sim with no offload
yet (`OffloadAssumption`), and any positive real-time factor (`RealtimeAssumption`). No theorem assumes anything that is not listed here.

| module | theorem | hypotheses | establishes |
|---|---|---|---|
| `PdesRoundsProofs` | `RoundsTypeCorrect` | - | `Spec => []TypeOK` |
| | `Invariance` | `NoEarlyArrival` | `Spec => []IInv` |
| | `SafeWindowHolds`, `CausalityTheorem`, `NothingLeftBehindTheorem` | `NoEarlyArrival` | `[]SafeWindow`, `[]CausalityHolds`, `[]NothingLeftBehind` |
| | `HorizonAdvancesTheorem` | `NoEarlyArrival`, `StrictLookahead` | `[]HorizonAdvances` |
| | `ExactlyOnceTheorem` | `NoEarlyArrival` | `[]ExactlyOnce` |
| | `DeliveryOrderTheorem` | `NoEarlyArrival`, `NoOvershoot` | `[]DeliveryOrder` |
| `PdesSequentialProofs` | `SequentialImplementsRounds` | - | `run_sequential` implements `PdesRounds` |
| `PdesThreadsProofs` | `ThreadsInvariance`, `ThreadsTypeCorrect` | - | `[]ThreadsInv`, `[]TypeOK` |
| | `QuiescentBoundsTheorem`, `OutcomeHonestTheorem`, `FailFastTheorem` | - | `[]QuiescentBounds`, `[]OutcomeHonest`, `FailFast` |
| | `ThreadsImplementRounds` | - | `run_threaded` implements `PdesRounds` |
| `KernelProofs` | `KernelInvariance`, `KernelTypeCorrect` | - | `[]KInv`, `[]KernelTypeOK` |
| | `HookedOnceTheorem`, `NoStaleWakeupTheorem`, `InterruptsFirstTheorem` | - | `[]HookedOnce`, `NoStaleWakeup`, `InterruptsFirst` |
| | `StopsWhereAskedTheorem`, `FailuresSurfaceTheorem` | - | `[]StopsWhereAsked`, `[]FailuresSurface` |
| | `NeverStopsEarly` | `NoEarlyArrival` | no run stops before the time it was asked to stop at |
| | `FiresWhenItHoldsTheorem` | `ConditionsApart` | `[]FiresWhenItHolds` |
| `ResourcesProofs` | `ResourcesInvariance`, `KernelKept` | - | `[]RInv`; `[]KernelTypeOK` and three more of the kernel's |
| | `ConservedTheorem` | - | `[]Conserved` |
| | `GrantsInOrderTheorem`, `LosersHearTheorem` | - | `GrantsInOrder`, `LosersHear` |
| `OffloadProofs` | `OffloadInvariance` | - | `[]OffloadInv` |
| | `NothingDroppedTheorem`, `SeenIsRealTheorem` | - | `NothingDropped`, `[]SeenIsReal` |
| | `DueHonouredTheorem`, `NeverEarlyTheorem` | - | `DueHonoured`, `NeverEarly` |
| | `NeverDeliveredEarly` | `NoEarlyArrival` | no offload is processed before its bound |
| | `StrictIsInlineTheorem` | - | `StrictIsInline` |
| `ReplicateProofs` | `Invariance`, `TypeCorrect` | - | `[]IInv`, its types |
| | `EachResultIsYieldedOnce`, `IterationIsAllOrNothing`, `CancelIsQuiet` | - | `[]EachResultOnce`, `[]AllOrNothing`, `QuietAfterCancel` |

**Hypotheses.** `NoEarlyArrival`: for a stamp `ts` not before the clock,
`now + (ts - now)` does not round below `ts`. `StrictLookahead`: adding a lookahead to
a finite time gives a later time. `NoOvershoot`: `now + (ts - now)` does not go past the next representable
time after `ts`. All three hold in exact arithmetic (`MCPdesRounds` has TLC evaluate
this as `ExactMeetsHypotheses`). Doubles meet the third (the two roundings are off by one unit in the last place at most) but not
always the others: findings 1 and 2 are runs in which each of those fails and the conclusion with it, so
neither can be dropped. `NoEarlyArrival` and `NoOvershoot` are about the arithmetic alone and stand in `FloatTime`: `NeverStopsEarly` and `NeverDeliveredEarly`
assume the first of them. They say that the round trip through a delay is all that can bring a stop or a delivery forward; `StopsWhereAskedTheorem` and `DueHonouredTheorem`
say, with no hypothesis, by how much.

`ConditionsApart`: a cast that has conditions, or whose processes may make them, does not chain triggers (`event.callbacks.append(other.trigger)`); and the
conditions it starts with are as the constructor makes them, over distinct events of which none has been processed. The first part is needed: `trigger()` of an event that
is already over gives it another outcome and schedules it again, and then a member is at once processed and pending, and may be seen to succeed by one condition and to fail by the
next. `MCKernel` has TLC evaluate it for the casts of its runs (`CastsMeetHypothesis`).

**The algorithm of rounds.** `SafeWindow` is not inductive. `IInv` adds
- `PhasesTogether`, `BodyIsRunning`, `OwnChannels`: shards are never more than one phase
  apart; only an executing shard has work in progress, and it sends on its own channels;
- `ClockOrder`: the heap of a shard is never behind its clock;
- `MailOutside`, `PendingOutside`, `HeapOutside`, `Drained`: where messages and events may lie
  relative to the window, by phase;
- `BoundsHold`: a bound, once reported, is a lower bound of anything its shard can still
  send in this round, until the next report;
- `WindowOfHorizon`: the window is `min(horizon, Until)`, below every reported bound;
- `NoCausality`: no delivery has been refused.

The window lies below every bound, a bound lies below every later stamp, and so a send
during the window is stamped at or beyond its end. The proof has one lemma per action
(`InvBuild`, `InvReport`, ...) and `InvStep` collects them. `HorizonGrows` shows that the next
horizon exceeds the last one: when a window completes, every shard's next work is at or
beyond the window, and `StrictLookahead` puts its bound strictly beyond it. `PdesShardProofs`
has the arithmetic (`Plus`, `Minus`, minima of sets) and shows that `Bound` is the greatest lower
bound of a shard's next work.

**The way of a message.** `WayInv` says where each message is: `Once` that it is in exactly one of mailbox, pending heap, event
heap and trace, the `...Home` parts that each place holds only messages of its own channels whose numbers have been
given out. No step needs to be ruled out, so `ExactlyOnce` needs `IInv` only for the deliveries that a causality violation would refuse.
`DeliveryOrder` needs `OrderInv`: messages in the trace come before those in the event heap, these before the pending ones, and these
before the mailed ones, in (timestamp, channel, sequence). That two messages which land at one time have one stamp, or run in the order
of their stamps, is what `NoOvershoot` gives.

**The two drivers.** `SequentialImplementsRounds` needs only where the loop index stands (the shards before it are
one phase ahead). For `run_threaded` the invariant is about the barrier: at any moment there is one barrier `b` of the cycle
built - ready - reported - decided - complete such that every thread is on its way to `b`, or still asleep in the barrier before `b` that was
released last, or has failed, or has ended (`Placed`); and while the threads are on their way to
`reported` or `decided`, every report already made covers all that its shard has left (`ReportsHold`). The other parts say what follows a
failure and a stop: a broken barrier has its cause, an error is recorded before the barrier is aborted, and nothing below Until is left once the
decision says stop. The existential over `b` is the heart of it, because a reusable barrier has no number: the last arrival of `b` is the
step at which the witness changes. With it, each statement of a thread maps to a step of
`PdesRounds` or a stutter (`phase` follows from the witness), and `QuiescentBounds` is immediate.

The theorems of `PdesRounds` carry over to both drivers under the refinement mapping, since both implement it. This
last step is by hand: the prover does not substitute into the theorems of an instance.

**The kernel.** `CastAssumption` says what the constant `Casts` may contain: a `Sim` as the constructors leave it, with
events, triggered or not, conditions over older events, and processes whose start is scheduled once; TLC evaluates it for the casts of
every run of `Kernel`, `Resources` and `Offload`. The inductive invariant `KInv` has five parts.
- `SimOK`: what may be registered with an event and what may be in the schedule. A start or an interruption is urgent and due
  at once, so `InterruptsFirst` follows from `IsNext`; and (`StartsFirst`) a process is not interrupted before it has been started.
- `StepOK`: the step under way is that of an event already processed, whose callbacks it calls, or of a start, an interruption or a stop,
  which has one callback.
- `WakeInv`: a process that waits has its wake-up in one of three places (`OnePlace`): scheduled as a start, among the callbacks
  of this step, or registered with one event, which is its target (`AtTarget`); and there once. `HookedOnce` counts the
  three, and `NoStaleWakeup` is `AtTarget` in the step. What makes it inductive is `StartedBefore`: an interruption finds no start still
  scheduled, so the process it resumes is registered with the target or was stranded by a cut step.
- `RunInv`: in a run that found no stop left over, every stop in the schedule is due at `OwnStopTime`, what the sum for the time asked comes out as, and every
  stop among callbacks is with the event it waits for (`OwnStops`); that event keeps its stop until it is called (`StopAhead`).
- `FaultInv`: a processed failure was heard, is defused, is scheduled again, or its step is under way; what is defused was thrown into a
  body or taken over by a condition that failed.

Most actions leave every waiting process alone. They are shown to be `Tame`: whatever events are created, triggered or
counted, nobody's wake-up moves, nobody's stop moves, and nothing is defused without a taker. The lemmas about `Check`, `Combine`, `RemoveChecks`
and `Trigger` say `Tame`, `TameKeeps` says that a tame action keeps `KInv`, and what remains are the
actions that move one wake-up: `Spawn`, `Yield`, `Pop`, `Resume`, `DeliverInterrupt`, `End`, and those that cut a step short or begin a run. The
recursive functions (`watched`, `kept`) are dealt with by `LeastNatural`: the set of indices at which a claim fails has a least
element, and there is none.

`FiresWhenItHolds` has an invariant of its own, `FireInv`, which is inductive together with `KInv`. For each condition, `CondOK` relates what it has counted to who
will still call it: its members are those it was told of (processed, and not the event of the step under way), those it is about to be told of (`Busy`: its
check is among the callbacks still to be called) and those it watches (`Watched`: its check is registered), the last two
disjoint; while it is pending its count is the number of the first, none of which failed, and the three are all its members - unless an outer condition has taken its checks away (finding 5) or a cut step has dropped them, the
exception in the property. `Outcome` says that what it was triggered with agrees with what its processed members say. `Spares` lists what a condition notices of a step -
its own record, its registered checks, which of its members are processed - and most actions spare every condition. What remains is the action
that makes one (`MakeCondition`), the ones that call it (`RunCheck`, `RunBuild`) and the one that turns registered checks into calls (`PopEvent`). A
condition that fires takes its checks back, and with them those of pending conditions below it; `SparesRemoveChecks` says that no other condition
loses any. From `CondOK` that a condition does not fire late is counting: a check is registered at most once with each member, so those registered and those about to be called are as many
as the members not yet counted. TLC confirms `FireInv` on the casts of `MCKernel`.

**Resources.** `Resources` composes with the kernel, so its inductive invariant `RInv` contains `KInv`. The other parts:
- `ResOK`: what each request is about is known (`AsksOK`); a queue holds, once each, the pending requests of its type that nobody cancelled
  (`QueuesOK`); a holder is a granted request, held once, within capacity (`HoldersOK`); level and items are what was put minus what was
  taken (`StockOK`). `Conserved` is these four;
- `Ordered`: each queue is in the order of its discipline. Without it nothing could be said of who is overtaken;
- `Freed`: a release never waits, and `CastOK`: what a process may ask for is what `ResourceAssumption` admits.

A kernel step leaves the requests alone (`Apart`): none of its operators triggers a request, makes one, or changes what it is about. So
`RInv` is kept there by `KInv`'s own proof and that lemma. The calls of a resource are made of three
things - a request is created, queued, and its queue served - and each is shown to be `Quiet`, which is the `Tame` of the kernel's proofs plus what
an interruption of a preempted holder adds; that gives `KInv`. The loop of `_trigger_put` and `_trigger_get` is the recursive function `upTo`. What is true
before its first turn and kept by each turn (`LoopSafe`, `LoopHolders`, `LoopOrder`) is true after the last, by `LeastNatural`. For the order of
grants a turn must say more than what it grants: either the loop stops there, or everything it has passed so far was granted, or the kind is
one that looks past its head (filters), which `GrantsInOrder` excepts for gets. `LosersHear` is `LossesHeard`, a claim about one turn that the loop accumulates.
`KernelKept` restates the kernel's promises for the composition: no resource call makes a process lose its wake-up or a failure go unheard.

**Replication.** The inductive invariant says what the generator still expects: a submitted future is waiting,
running or done; the hooked ones that are not done, or are done and still in the queue, are exactly those
the generator counts as outstanding, and every other one has been yielded or was dropped by a cancel. From that, with where
the statements of `finally` leave the executor and the token, `AllOrNothing` follows when the iteration has ended.
`QuietAfterCancel` follows because a cancel that began in the iteration leaves the flag set until the next iteration resets it. TLC checks `IInv` on the `replicate`
instance through `MCReplicate`, which EXTENDS `ReplicateProofs`.

**Offload and real time.** `Spec` is that of `Realtime`, whose cast says whether the run is paced, so each theorem is about both
drivers. `OffloadInv` needs only `SimOK` and `StepOK` of the kernel. The other parts:
- `PoolOK`: the two tables (in flight, waiting for the next drain) hold, once each, exactly the jobs whose outcome is open, and for each job (`JobOK`) its
  state agrees with its event: a strict one that is open has its entry at its slot and `resolve` as its event's first callback (`Leads`); a
  non-strict one that is open has a pending event and no entry; one that has an outcome carries that outcome and nothing else;
- `WalkOK`: what the loop of a drain has still to look at is in the table;
- `Delivering`: the only event that may be processed before its strict outcome is known is that of the step under way, and its `resolve` is the next callback;
- `UseOK`: what the cast admits.

The pool reserves its events: no call of the model triggers an offload or takes its first callback away, and that is what makes `resolve` run first. `Aside` in
`KernelProofs` says so of a kernel step - what it does to events other than those it is told to touch leaves their state, their entries and
their first callback - and each operator of the kernel has a lemma (`AsideStep`, `PopEventAside`, ...). So a kernel step keeps `PoolOK` and only the pool's
own actions need work. `NothingDropped` and `SeenIsReal` then follow: only `GiveUp` ends a run for want of events (`OnlyGiveUpEmpties`), it finds both the schedule and the table of
the pending empty, and an open job has an entry or is in that table; and `OutcomeOf` is all that an event is ever given. `DueHonoured` follows from where the entry is: at the
slot, or at the sum of some clock and the delay that `Later` computes from it (`LaterBound`).
`NeverEarly` has its own invariant, `PaceOK`: the clocks pinned by a drain lie on or after the line through the run's beginning (`OnLine`,
`PinnedLate`; at time infinity the code does not wait, and neither claims anything), so a deadline counted from the pin is not before that counted from the beginning. `CancelAll`, the loop of `close`, is a recursive
function; `CancelAllKeeps` says by `LeastNatural` what is true after each of its turns.

`StrictIsInline` is a refinement step by step: the specification is shown to implement itself with an inline pool, under
the mapping `InlinePool`, in which every payload has run when it is submitted. The lemmas `InlineSim`, `InlineUser`, `InlineLoop`, ... show that each operator of
the instance is the operator of this module; `SubmitInline`, `ResolveInline`, `CancelInline`, `CloseInline`, ... that each call of the pool commutes with
the mapping. That needs `OffloadInv`: with strict offloads only, the table of what waits for a drain is empty, so a drain does nothing, and
`resolve` finds in the job what the inline pool had computed. Steps of workers, looks at the clock and
drains that only pin the clocks map to stutters. TLC confirms the parts of `OffloadInv` and `PaceOK` on the casts of `MCOffload`.

**Only model-checked.** `Termination`, `RunEnds` and `IterationGoesOn`: liveness under fairness is beyond the prover. `TracesAgree` and `SameVerdict` compare
two whole runs, of which each is proved to implement `PdesRounds`; that the traces are the same is confluence over all interleavings of a window, by induction over
runs. `NobodyStranded` says that nothing is satisfiable when no grant is on its way; an invariant for it has to count free slots and items against the
grants not yet processed (section 7).

## 5. Findings

1. **Causality check fires** (`causality`). `Inbox.deliver` schedules an arrival at
   `now + (timestamp - now)`, which in doubles may be less than `timestamp`. The receiver
   then runs *before* the stamp; if it relays the message with the delay its channel promises,
   the relay is stamped below the bound the shard reported, and a receiver that has used
   its window raises "causality violation". With the code as it is this happens in both modes for shard 0 with
   an event at 0.37375993024930176, a message to it stamped 4.3951777851879585, a relay
   with lookahead and delay 1.1572968015978469, and a sink with an event at 5.552474586785805.
2. **Horizon stuck** (`stuck`). If a lookahead is below half a unit in the last place of the clock,
   `next + L` rounds to `next`, the horizon does not advance, and `_decide` raises the
   error it calls a synchronizer bug although every lookahead is positive.
3. **Blame depends on the schedule** (`blame`). When two shards raise in the same window, a thread
   that is still leaving the decision barrier when the other aborts it gets
   `BrokenBarrierError` and never runs its window. If that is the lower shard, the `ShardError`
   names the higher one; the oracle always raises the lower shard's. With three shards that all raise, 3000 threaded
   runs of the code named shard 1, 0 and 2 in 1113, 1039 and 848 runs.
4. **Mid-run `LookaheadError` is not wrapped** (`unwrapped`). `run_threaded` raises it as if it were a
   construction-time error, though `send` raises it while the simulation runs; the error that reaches the
   caller names no shard.

5. **A condition loses its checks to an outer one** (`nested`). When `any_of(inner, c)` is processed,
   `_remove_check_callbacks` descends into `inner` and takes its checks out of its members although `inner`
   is pending. `inner` never fires, and a process that waits for it waits for ever. Running the code on that model shows it.
6. **`cancel()` from another thread can make the iteration raise** (`cancelled`). If its `shutdown` falls between
   the generator's test of `_cancelled` and `executor.submit`, `submit` raises `RuntimeError` out of `iter_results`, and
   finished results are not yielded.

Not findings, since no text says otherwise, but worth knowing. A bare `cancel()` of a request serves
nobody: a satisfiable request behind it stays blocked until some other request is made or granted. So does leaving
the `with` block of a store's or container's request. When a preemptive resource has several slots, a request that
may bump is not looked at again once the one ahead of it has been granted: it then waits although it ranks above a holder. `cancel()` on another thread may raise `AttributeError` when the generator's
`finally` clears a field between its test and its use. `Event.trigger` on an event that is triggered schedules it
a second time, and the second pop raises. A run that an exception ends leaves its stop behind, and a later run may stop there.

The round trip of finding 1 has two more users, which break less and so have no run of their own. `run(until=t)` runs "until the clock reaches that time"
(`core/sim.py:356-357`), but may stop an ulp before `t` or after it, since it schedules its stop at `now + (t - now)`: after `run(until=0.37375993024930176)`,
`run(until=4.3951777851879585)` of the code leaves the clock at 4.395177785187958. `Sim.offload` promises a non-strict offload "no earlier
than" `now + delay` (`core/sim.py:325-326`, `parallel/offload.py:12-14`); one whose result comes late or that is cancelled may be delivered an ulp before. The models have both:
`StopsWhereAsked` and `DueHonoured` say exactly how far, `NeverStopsEarly` and `NeverDeliveredEarly` when it cannot happen.

## 6. Not modelled

PDES:
- The debug owner-thread guard, the GIL warning, jitter hooks, seeds and `repr`.
- Failure of `thread.start()` part way (see the hazards): the process is out of threads.
- Exceptions injected from outside (KeyboardInterrupt) into the coordinator.
- The endpoint registry's declarations: `miswired` and `builder` stand for
  their outcomes; the registry is locked as a whole.

Kernel and resources: the trace hook (recording), the debug guard, random numbers; the values of events and copies of exceptions;
the contents of `ConditionValue` and user-defined predicates; a process that yields itself; validation of arguments (negative delays, amounts);
`SortedQueue.maxlen`, which nothing sets; `GeneratorExit` in a `with` block.

Offload and real time: validation and pickling of a payload's arguments before submission (they raise before anything changes); attaching a pool in mid-run
(documented as unsupported); an executor whose worker process dies. Simulated time is rounded as in the kernel, but the wall clock is not: the deadline
`start + (t - origin) * factor` of `rt.run` is computed exactly, the clock counts in whole ticks, and a sleep ends when it should.

Replication: a generator that is abandoned and never closed; seeds (numeric); the sorting of `run()` by key; validation of the factory.

Whole components: random streams (numeric), trace (recording), topology analysis (a report), scenario (docstrings without code),
benchmarks, examples and scripts (users of the library).

## 7. What a next step would prove

| module | to prove | argument |
|---|---|---|
| `Resources` | `NobodyStranded` | a request's first callback is its trigger and only `Pop` takes it away, so a granted unprocessed request will serve the other queue; what could be granted now is at most what those will serve, plus the trigger whose turn it is |

No module has a `RECURSIVE` operator. `Combine`, `Without`, `Nested`, `CancelAll` and the `upTo` of `Resources` are recursive functions, with lemmas that say what
they return (`Nested` excepted, of which the proofs need nothing).
