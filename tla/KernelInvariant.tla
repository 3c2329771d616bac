--------------------------- MODULE KernelInvariant ---------------------------
(***************************************************************************)
(* What the proofs about the kernel are about: the inductive invariants of *)
(* KernelSpec, one of the event loop and its processes, one of conditions, *)
(* and the relations between two states that the operations of a Sim keep. *)
(***************************************************************************)
EXTENDS Kernel

-----------------------------------------------------------------------------
(* The inductive invariant: one Sim. *)

\* A call that may be registered with event e of s, or called in its step.
CallOK(s, e, call) ==
  /\ call.do \in {"resume", "check", "build", "trigger", "stop", "put", "get", "resolve"}
  /\ call.do = "resume" => call.of \in Processes(s)
  /\ call.do = "check" => call.of \in Conditions(s) /\ e \in Range(s.events[call.of].members)
  /\ call.do = "build" => call.of = e
  /\ call.do = "trigger" => call.of \in DOMAIN s.events \ {e} /\ s.events[call.of].type = "event"
  /\ call.do = "stop" => call.of = None
  /\ call.do \in {"put", "get"} => s.events[e].type \in {"put", "get"}
  /\ call.do = "resolve" => s.events[e].type = "offload"

EventOK(s, e) ==
  /\ s.events[e].processed => s.events[e].callbacks = <<>> /\ s.events[e].state # "pending"
  /\ s.events[e].target \in {None} \cup DOMAIN s.events
  /\ Range(s.events[e].members) \subseteq 1 .. e - 1
  /\ \A i \in DOMAIN s.events[e].callbacks : CallOK(s, e, s.events[e].callbacks[i])

\* What only the kernel can see is due at once, but for a numeric until.
EntryOK(s, entry) ==
  /\ entry.at >= s.now
  /\ entry.task.do \in {"event", "start", "interrupt", "stop"}
  /\ entry.task.do = "event" =>
       /\ entry.prio = NORMAL
       /\ entry.task.of \in DOMAIN s.events /\ s.events[entry.task.of].state # "pending"
  /\ entry.task.do \in {"start", "interrupt"} =>
       entry.prio = URGENT /\ entry.at = s.now /\ entry.task.of \in Processes(s)
  /\ entry.task.do = "stop" => entry.task.of = None

\* A process is not interrupted before it has been started.
StartsFirst(s) ==
  \A i, j \in DOMAIN s.queue :
    /\ s.queue[i].task.do = "start" /\ s.queue[j].task.do = "interrupt"
    /\ s.queue[i].task.of = s.queue[j].task.of
    => i < j

SimOK(s) ==
  /\ s \in SimType
  /\ s.active \in {None} \cup Processes(s)
  /\ \A e \in DOMAIN s.events : EventOK(s, e)
  /\ \A i \in DOMAIN s.queue : EntryOK(s, s.queue[i])
  /\ StartsFirst(s)

-----------------------------------------------------------------------------
(* The inductive invariant: the step under way. *)

StepOK ==
  /\ step \in [task : CallType, rest : Seq(CallType)]
  /\ control \in {Main, Loop} \cup Processes(sim)
  /\ control = Main => step.task = NoTask
  /\ control \in Processes(sim) => step.task # NoTask
  /\ \/ step.task = NoTask /\ step.rest = <<>>
     \/ /\ step.task.do = "event"
        /\ step.task.of \in DOMAIN sim.events /\ sim.events[step.task.of].processed
        /\ \A i \in DOMAIN step.rest : CallOK(sim, step.task.of, step.rest[i])
     \/ /\ step.task.do = "start" /\ step.task.of \in Processes(sim)
        /\ step.rest \in {<<>>, <<Call("resume", step.task.of)>>}
     \/ /\ step.task.do = "interrupt" /\ step.task.of \in Processes(sim)
        /\ step.rest \in {<<>>, <<step.task>>}
     \/ step.task = Call("stop", None) /\ step.rest \in {<<>>, <<step.task>>}

-----------------------------------------------------------------------------
(* The inductive invariant: wake-ups. *)

Single(S) == \E x \in S : S = {x}

\* The three places where the wake-up of p can be.
Starts(p)   == {i \in DOMAIN sim.queue : sim.queue[i].task = Call("start", p)}
InStep(p)   == Occurrences(Call("resume", p), step.rest)
Hooked(p, e) == Occurrences(Call("resume", p), sim.events[e].callbacks)

NoHook(p) == \A e \in DOMAIN sim.events : Hooked(p, e) = {}

\* It is registered with the target only.
AtTarget(p) ==
  /\ \A e \in DOMAIN sim.events : Hooked(p, e) # {} => sim.events[p].target = e
  /\ step.task.do = "event" /\ InStep(p) # {} => sim.events[p].target = step.task.of

Awaits(p) == Alive(sim, p) /\ p # control /\ p \notin ghost.stranded

\* A process that waits has its wake-up in one place, once; any other has none.
OnePlace(p) ==
  IF Awaits(p)
  THEN \/ Single(Starts(p)) /\ InStep(p) = {} /\ NoHook(p)
       \/ Starts(p) = {} /\ Single(InStep(p)) /\ NoHook(p)
       \/ Starts(p) = {} /\ InStep(p) = {} /\ \E e \in DOMAIN sim.events : Single(Hooked(p, e))
  ELSE Starts(p) = {} /\ InStep(p) = {} /\ NoHook(p)

\* An interrupt is delivered to a process that has been started.
StartedBefore(p) == step.task = Call("interrupt", p) /\ step.rest # <<>> => Starts(p) = {}

WakeInv ==
  /\ \A p \in Processes(sim) : AtTarget(p) /\ OnePlace(p) /\ StartedBefore(p)
  /\ control \in Processes(sim) => Alive(sim, control) /\ control \notin ghost.stranded
  /\ ghost.stranded \subseteq Processes(sim)

-----------------------------------------------------------------------------
(* The inductive invariant: runs, and failures. *)

StopCall == Call("stop", None)

OwnStopTime == StopTime(run.from, run.at)

\* In a run that found no stop left over, every stop is its own.
OwnStops ==
  /\ \A i \in DOMAIN sim.queue :
       sim.queue[i].task.do = "stop" => run.until = None /\ sim.queue[i].at = OwnStopTime
  /\ \A e \in DOMAIN sim.events :
       StopCall \in Range(sim.events[e].callbacks) => e = run.until
  /\ StopCall \in Range(step.rest) =>
       \/ step.task.do = "stop" /\ run.until = None /\ sim.now = OwnStopTime
       \/ step.task.do = "event" /\ step.task.of = run.until

\* The event a run waits for has its stop, until it is called.
StopAhead ==
  run.until # None =>
    StopCall \in IF sim.events[run.until].processed
                 THEN Range(step.rest) ELSE Range(sim.events[run.until].callbacks)

RunInv ==
  /\ run \in [until : Nat, at : Times, from : Times, clean : BOOLEAN,
              result : {"none", "running", "stopped", "raised", "empty", "starved"}]
  /\ run.until \in {None} \cup DOMAIN sim.events
  /\ run.at = 0 \/ run.from <= run.at
  /\ run.result = "running" <=> control # Main
  /\ run.result = "starved" => run.until # None
  /\ control # Main => StopAhead
  /\ control # Main /\ run.clean => OwnStops
  /\ StopsWhereAsked

\* Someone has taken the failure of e over: a body, or a condition.
TakenOver(e) ==
  \/ e \in ghost.heard
  \/ \E c \in Conditions(sim) : Failed(sim, c) /\ e \in Range(sim.events[c].members)

FaultInv ==
  /\ \A e \in DOMAIN sim.events : sim.events[e].defused => TakenOver(e)
  /\ \A e \in DOMAIN sim.events :
       Failed(sim, e) /\ sim.events[e].processed /\ step.task # Call("event", e)
         => e \in ghost.heard \/ sim.events[e].defused \/ Queued(Call("event", e))
  /\ control \in Processes(sim) /\ step.task.do = "event" /\ Failed(sim, step.task.of)
       => step.task.of \in ghost.heard

GhostOK == ghost = [stranded |-> ghost.stranded, orphaned |-> ghost.orphaned, heard |-> ghost.heard]

\* All of it: one Sim is consistent; every waiting process has one wake-up, with
\* its target; a run's stops are its own; a failure is with someone (core/sim.py,
\* core/process.py, core/conditions.py).
KInv == GhostOK /\ SimOK(sim) /\ StepOK /\ WakeInv /\ RunInv /\ FaultInv

-----------------------------------------------------------------------------
(* Conditions: the inductive invariant. *)

\* The members that have been processed; where the check still is.
Over(s, c) == {m \in Range(s.events[c].members) : s.events[m].processed}
Watched(s, c) == {e \in DOMAIN s.events : Call("check", c) \in Range(s.events[e].callbacks)}

AtMostOnce(S) == S = {} \/ Single(S)

\* What has fired held.
Outcome(s, c) ==
  LET cond == s.events[c] IN
  /\ cond.state = "ok" =>
       IF cond.type = "all" THEN Over(s, c) = Range(cond.members)
       ELSE Over(s, c) # {} \/ cond.members = <<>>
  /\ cond.state = "failed" => \E m \in Over(s, c) : Failed(s, m)

\* What is pending counts each member it has been told of once; unless it has
\* lost a check it will be told of every other, and does not hold yet.
Counting(s, c, todo, orphaned) ==
  LET cond == s.events[c]
      told == Over(s, c) \ todo
  IN  /\ cond.count <= Cardinality(told)
      /\ ~ orphaned =>
           /\ ~ Holds(cond) /\ cond.count = Cardinality(told)
           /\ Range(cond.members) \ told \subseteq todo \cup Watched(s, c)
           /\ \A m \in told : ~ Failed(s, m)

\* todo are the members of which c is being told.
CondOK(s, c, todo, orphaned) ==
  /\ IsInjective(s.events[c].members)
  /\ todo \cap Watched(s, c) = {}
  /\ \A e \in DOMAIN s.events : AtMostOnce(Occurrences(Call("check", c), s.events[e].callbacks))
  /\ Outcome(s, c)
  /\ s.events[c].state = "pending" => Counting(s, c, todo, orphaned)

\* The event being processed, if c is about to be told of it.
Busy(c) ==
  {e \in {step.task.of} : step.task.do = "event" /\ Call("check", c) \in Range(step.rest)}

CondInv ==
  \A c \in Conditions(sim) :
    /\ CondOK(sim, c, Busy(c), c \in ghost.orphaned)
    /\ AtMostOnce(Occurrences(Call("check", c), step.rest))

\* No event is triggered by another.
NoTriggers ==
  /\ \A e \in DOMAIN sim.events : \A call \in Range(sim.events[e].callbacks) : call.do # "trigger"
  /\ \A call \in Range(step.rest) : call.do # "trigger"

\* Conditions and chained triggers do not meet.
Untangled ==
  \/ Conditions(sim) = {} /\ "condition" \notin cast.menu
  \/ NoTriggers /\ "chain" \notin cast.menu

FireInv ==
  /\ cast \in [menu : SUBSET STRING, calls : Nat, runs : Nat]
  /\ Untangled
  /\ CondInv

\* A cast that has conditions does not chain triggers (a trigger of an event
\* that is over gives it another outcome); the conditions it starts with are as
\* they are made, over distinct events of which none has been processed.
ConditionsApart ==
  \A c \in Casts :
    /\ c.may \in [menu : SUBSET STRING, calls : Nat, runs : Nat]
    /\ \/ Conditions(c.sim) = {} /\ "condition" \notin c.may.menu
       \/ "chain" \notin c.may.menu
    /\ \A d \in Conditions(c.sim) :
         LET cond == c.sim.events[d] IN
         /\ IsInjective(cond.members) /\ cond.count = 0
         /\ cond.state = IF cond.members = <<>> THEN "ok" ELSE "pending"
         /\ \A m \in Range(cond.members) :
              Single(Occurrences(Call("check", d), c.sim.events[m].callbacks))

-----------------------------------------------------------------------------
(* From a list of calls to a later one. *)

\* b has a call if and only if a has it, and once if a has it once.
Same(call, a, b) ==
  /\ Occurrences(call, a) = {} => Occurrences(call, b) = {}
  /\ Single(Occurrences(call, a)) => Single(Occurrences(call, b))
  /\ call \in Range(a) => call \in Range(b)

\* b keeps exactly those calls of a that are not dropped, each as often.
Filtered(a, b, dropped) ==
  /\ Range(b) \subseteq Range(a) \ dropped
  /\ \A call : call \notin dropped =>
       /\ Occurrences(call, a) = {} => Occurrences(call, b) = {}
       /\ Single(Occurrences(call, a)) => Single(Occurrences(call, b))
       /\ call \in Range(a) => call \in Range(b)

\* A callback comes after the others.
Joined(a, b, call) == a \in Seq(CallType) /\ b = Append(a, call)

-----------------------------------------------------------------------------
(* What a call does to a Sim that wakes nobody. *)

\* At most event e is another one in t.
Only(s, t, e) ==
  /\ DOMAIN t.events = DOMAIN s.events
  /\ \A f \in DOMAIN s.events \ {e} : t.events[f] = s.events[f]
  /\ t.now = s.now /\ t.queue = s.queue

\* It has kept everything but the callbacks, the target and the mark of a failure.
Likewise(a, b) ==
  /\ b.type = a.type /\ b.members = a.members
  /\ b.processed = a.processed /\ b.state = a.state

TakenBy(s, e) == \E c \in Conditions(s) : Failed(s, c) /\ e \in Range(s.events[c].members)

Due(s, task) == \E i \in DOMAIN s.queue : s.queue[i].task = task

\* A call that only a yield or run() registers.
Waker(call) == call.do \in {"resume", "stop"}

\* t differs from s in event e by a trigger, a check or a callback at most.
EventKept(s, t, e) ==
  /\ t.events[e].type = s.events[e].type
  /\ t.events[e].members = s.events[e].members
  /\ t.events[e].processed = s.events[e].processed
  /\ t.events[e].target = s.events[e].target
  /\ s.events[e].type = "process" => t.events[e].state = s.events[e].state
  /\ e \in Conditions(s) /\ Failed(s, e) => Failed(t, e)
  /\ \A call : Waker(call) =>
       /\ Same(call, s.events[e].callbacks, t.events[e].callbacks)
       /\ call \in Range(t.events[e].callbacks) => call \in Range(s.events[e].callbacks)
  /\ t.events[e].defused => s.events[e].defused \/ TakenBy(t, e)
  /\ s.events[e].defused => t.events[e].defused

\* An event made meanwhile, which is no process.
Born(t, e) ==
  /\ t.events[e].type # "process" /\ ~ t.events[e].processed
  /\ \A call \in Range(t.events[e].callbacks) : ~ Waker(call)
  /\ t.events[e].defused => TakenBy(t, e)

QueueGrows(s, t) ==
  /\ Len(s.queue) <= Len(t.queue)
  /\ \A i \in DOMAIN s.queue : t.queue[i] = s.queue[i]
  /\ \A i \in DOMAIN t.queue \ DOMAIN s.queue : t.queue[i].task.do \in {"event", "interrupt"}

\* What a call does that wakes nobody: it creates and triggers events, registers
\* callbacks and asks for interrupts, but no process is started or resumed.
Tame(s, t) ==
  /\ SimOK(t)
  /\ t.now = s.now /\ t.active = s.active
  /\ DOMAIN s.events \subseteq DOMAIN t.events
  /\ \A e \in DOMAIN s.events : EventKept(s, t, e)
  /\ \A e \in DOMAIN t.events \ DOMAIN s.events : Born(t, e)
  /\ QueueGrows(s, t)
  /\ \A e \in DOMAIN s.events : s.events[e].processed =>
        t.events[e].state = s.events[e].state \/ Due(t, Call("event", e))

\* ... and no event that is over changes its outcome.
Quiet(s, t) ==
  /\ Tame(s, t)
  /\ \A e \in DOMAIN s.events : s.events[e].processed => t.events[e].state = s.events[e].state

-----------------------------------------------------------------------------
(* What a step may do that keeps the parts of the invariant. *)

TameAction ==
  /\ Tame(sim, sim') /\ (control # Loop => Quiet(sim, sim'))
  /\ UNCHANGED <<control, run>>
  /\ GhostOK' /\ ghost'.heard = ghost.heard /\ ghost'.stranded = ghost.stranded
  /\ \/ step' = step
     \/ /\ step.rest # <<>> /\ Head(step.rest).do \in {"check", "build", "trigger", "put", "get"}
        /\ step' = [step EXCEPT !.rest = Tail(@)]

RunKept ==
  /\ run' = run /\ (control' = Main <=> control = Main) /\ sim'.now = sim.now
  /\ \A e \in DOMAIN sim.events :
       /\ e \in DOMAIN sim'.events
       /\ sim'.events[e].processed = sim.events[e].processed
       /\ sim.events[e].processed => sim'.events[e].state = sim.events[e].state
       /\ StopCall \in Range(sim.events[e].callbacks) => StopCall \in Range(sim'.events[e].callbacks)
  /\ \A e \in DOMAIN sim'.events : StopCall \in Range(sim'.events[e].callbacks) =>
       e \in DOMAIN sim.events /\ StopCall \in Range(sim.events[e].callbacks)
  /\ \A i \in DOMAIN sim'.queue : sim'.queue[i].task.do = "stop" =>
       \E j \in DOMAIN sim.queue : sim'.queue[i] = sim.queue[j]
  /\ StopCall \in Range(step'.rest) <=> StopCall \in Range(step.rest)
  /\ step'.task = step.task \/ StopCall \notin Range(step'.rest)

FaultKept(e) ==
  /\ e \in DOMAIN sim'.events
  /\ sim'.events[e].type = sim.events[e].type /\ sim'.events[e].members = sim.events[e].members
  /\ sim'.events[e].processed => sim.events[e].processed \/ step'.task = Call("event", e)
  /\ sim.events[e].processed \/ e \in Conditions(sim) =>
       sim'.events[e].state = sim.events[e].state
  /\ sim'.events[e].defused => sim.events[e].defused \/ e \in ghost'.heard
  /\ sim.events[e].defused => sim'.events[e].defused
  /\ step.task = Call("event", e) /\ Failed(sim, e) =>
       step'.task = step.task \/ e \in ghost'.heard \/ sim.events[e].defused
  /\ Queued(Call("event", e)) =>
       Queued(Call("event", e))' \/ step'.task = Call("event", e) \/ e \in ghost'.heard

\* What a cut may drop, and what it must account for.
CutFits(s, rest, seen, result) ==
  /\ SimOK(s) /\ s.events = sim.events
  /\ Range(rest) \subseteq Range(step.rest)
  /\ \A q \in Processes(sim) : InStep(q) # {} => Call("resume", q) \in Range(rest)
  /\ \A q \in Processes(sim) : Starts(q)' = Starts(q) \/ (Single(Starts(q)) /\ Single(Starts(q)'))
  /\ \A e \in DOMAIN sim.events : Queued(Call("event", e)) => Queued(Call("event", e))' \/ e \in seen
  /\ \A e \in DOMAIN sim.events :
       step.task = Call("event", e) /\ Failed(sim, e) =>
         e \in ghost.heard \/ e \in seen \/ sim.events[e].defused
  /\ result \in {"raised", "stopped"}
  /\ result = "stopped" /\ run.clean =>
       IF run.until = None THEN s.now = OwnStopTime
       ELSE sim.events[run.until].processed /\ ~Failed(sim, run.until)

\* Nobody executes, before and after, and no wake-up has moved.
Asleep ==
  /\ control \in {Main, Loop} /\ control' \in {Main, Loop} /\ ghost' = ghost
  /\ DOMAIN sim'.events = DOMAIN sim.events
  /\ \A e \in DOMAIN sim.events :
       /\ Likewise(sim.events[e], sim'.events[e])
       /\ sim'.events[e].target = sim.events[e].target
       /\ sim'.events[e].defused = sim.events[e].defused
  /\ \A q : /\ Starts(q)' = Starts(q)
            /\ \A e \in DOMAIN sim.events : Hooked(q, e)' = Hooked(q, e)
  /\ \A task : Queued(task) => Queued(task)'
  /\ \A q : InStep(q)' = InStep(q)
  /\ step' = step \/ (step'.rest = <<>> /\ \A q : InStep(q) = {})

\* What arming a run does to the Sim.
Armed(s, until, at) ==
  /\ SimOK(s) /\ until \in {None} \cup DOMAIN sim.events
  /\ at \in Times /\ (at = 0 \/ sim.now <= at)
  /\ DOMAIN s.events = DOMAIN sim.events
  /\ \A e \in DOMAIN sim.events :
       /\ Likewise(sim.events[e], s.events[e])
       /\ s.events[e].target = sim.events[e].target
       /\ s.events[e].defused = sim.events[e].defused
  /\ \A q : \A e \in DOMAIN sim.events :
       Occurrences(Call("resume", q), s.events[e].callbacks) = Hooked(q, e)
  /\ \A q : {i \in DOMAIN s.queue : s.queue[i].task = Call("start", q)} = Starts(q)
  /\ \A task : Queued(task) => Due(s, task)
  /\ until # None => ~ sim.events[until].processed /\ StopCall \in Range(s.events[until].callbacks)
  /\ \A i \in DOMAIN s.queue :
       s.queue[i].task.do = "stop" => StopsLeft(sim) \/ (until = None /\ s.queue[i].at = StopTime(sim.now, at))
  /\ \A e \in DOMAIN sim.events :
       StopCall \in Range(s.events[e].callbacks) => StopsLeft(sim) \/ e = until

\* What the wake-up of p may have done to the Sim, and what it leaves of it.
EnterFits(s, p, heard) ==
  /\ control = Loop /\ step.rest # <<>> /\ p \in Processes(sim) /\ Alive(sim, p)
  /\ SimOK(s) /\ DOMAIN s.events = DOMAIN sim.events /\ s.queue = sim.queue /\ s.now = sim.now
  /\ \A e \in DOMAIN sim.events :
       /\ Likewise(sim.events[e], s.events[e])
       /\ s.events[e].target = sim.events[e].target
       /\ sim.events[e].defused => s.events[e].defused
       /\ s.events[e].defused => sim.events[e].defused \/ e \in heard
       /\ Occurrences(Call("resume", p), s.events[e].callbacks) = {}
       /\ \A call : call # Call("resume", p) =>
            /\ Same(call, sim.events[e].callbacks, s.events[e].callbacks)
            /\ call \in Range(s.events[e].callbacks) => call \in Range(sim.events[e].callbacks)
  /\ Starts(p) = {} /\ Occurrences(Call("resume", p), Tail(step.rest)) = {}
  /\ Head(step.rest) = Call("resume", p) \/ Head(step.rest).do = "interrupt"
  /\ ghost.heard \subseteq heard
  /\ step.task.do = "event" /\ Failed(sim, step.task.of) => step.task.of \in heard

-----------------------------------------------------------------------------
(* An entry is popped from the queue. *)

Popped(s, i) == [s EXCEPT !.now = s.queue[i].at, !.queue = RemoveAt(@, i)]

Closed(s, e) == [s EXCEPT !.events[e].processed = TRUE, !.events[e].callbacks = <<>>]

\* An event is processed; its callbacks are taken from it.
Closing(s, t, e) ==
  /\ DOMAIN t.events = DOMAIN s.events
  /\ \A f \in DOMAIN s.events \ {e} : t.events[f] = s.events[f]
  /\ t.events[e].type = s.events[e].type /\ t.events[e].members = s.events[e].members
  /\ t.events[e].state = s.events[e].state /\ t.events[e].count = s.events[e].count
  /\ t.events[e].processed /\ t.events[e].callbacks = <<>> /\ ~ s.events[e].processed

\* An entry of the kernel alone: a start, an interrupt or a numeric until.
PopTask(i) ==
  /\ Idle /\ IsNext(sim.queue, i) /\ sim.queue[i].task.do # "event"
  /\ sim' = Popped(sim, i)
  /\ step' = [task |-> sim.queue[i].task,
              rest |-> <<IF sim.queue[i].task.do = "start"
                         THEN Call("resume", sim.queue[i].task.of) ELSE sim.queue[i].task>>]
  /\ UNCHANGED <<control, run, cast, ghost>>

\* An event that is popped again after it has been processed.
PopAgain(i) ==
  /\ Idle /\ IsNext(sim.queue, i) /\ sim.queue[i].task.do = "event"
  /\ sim.events[sim.queue[i].task.of].processed
  /\ Cut(Popped(sim, i), <<>>, {sim.queue[i].task.of}, "raised")

\* An event, with its callbacks.
PopEvent(i) ==
  /\ Idle /\ IsNext(sim.queue, i) /\ sim.queue[i].task.do = "event"
  /\ ~ sim.events[sim.queue[i].task.of].processed
  /\ sim' = [Popped(sim, i) EXCEPT !.events[sim.queue[i].task.of].processed = TRUE,
                                   !.events[sim.queue[i].task.of].callbacks = <<>>]
  /\ step' = [task |-> sim.queue[i].task, rest |-> sim.events[sim.queue[i].task.of].callbacks]
  /\ UNCHANGED <<control, run, cast, ghost>>

-----------------------------------------------------------------------------
(* What is not the Kernel's: the requests of a resource, the offloads of a pool. *)

Reserved(s, e) == s.events[e].type \in {"put", "get", "offload"}

OwnersCall(call) == call.do \in {"put", "get", "resolve"}

\* The owner's call comes first, and only there.
Leads(call, calls) ==
  /\ calls # <<>> /\ calls[1] = call
  /\ \A i \in DOMAIN calls : OwnersCall(calls[i]) => i = 1

Follows(a, b) == \A call : OwnersCall(call) /\ Leads(call, a) => Leads(call, b)

Unaltered(s, t, e) ==
  /\ t.events[e].state = s.events[e].state
  /\ Follows(s.events[e].callbacks, t.events[e].callbacks)
  /\ \A i \in DOMAIN t.queue :
       t.queue[i].task = Call("event", e) => \E j \in DOMAIN s.queue : s.queue[j] = t.queue[i]
  /\ Due(s, Call("event", e)) => Due(t, Call("event", e)) \/ t.events[e].processed

Established(s, t, X) ==
  /\ DOMAIN s.events \subseteq DOMAIN t.events
  /\ \A e \in DOMAIN s.events :
       /\ t.events[e].type = s.events[e].type /\ t.events[e].members = s.events[e].members
       /\ e \notin X => t.events[e].processed = s.events[e].processed

\* From s to t nothing happens to what is reserved, but for the events in X.
Aside(s, t, X) ==
  /\ SimOK(t) /\ Established(s, t, X)
  /\ \A e \in DOMAIN t.events \ X :
       Reserved(t, e) => e \in DOMAIN s.events /\ Unaltered(s, t, e)

-----------------------------------------------------------------------------
(* What no condition outside X notices. *)

Once(s, c) ==
  \A e \in DOMAIN s.events : AtMostOnce(Occurrences(Call("check", c), s.events[e].callbacks))

\* To c and its members nothing has happened.
Alike(s, t, c) ==
  /\ t.events[c].type = s.events[c].type /\ t.events[c].members = s.events[c].members
  /\ t.events[c].state = s.events[c].state /\ t.events[c].count = s.events[c].count
  /\ \A m \in Range(s.events[c].members) :
       /\ t.events[m].processed = s.events[m].processed
       /\ s.events[m].processed => t.events[m].state = s.events[m].state

\* The event keeps what a condition that has it as a member can see.
Unmoved(a, b) ==
  /\ b.type = a.type /\ b.members = a.members /\ b.processed = a.processed
  /\ a.processed => b.state = a.state

\* Of these callbacks, only checks of X have come or gone; no trigger has come.
Heeds(a, b, X) ==
  /\ \A c : c \notin X => Same(Call("check", c), a, b)
  /\ \A call \in Range(b) : call.do = "trigger" => call \in Range(a)

\* t differs from s in nothing that a condition outside X would notice.
Spares(s, t, X) ==
  /\ DOMAIN s.events \subseteq DOMAIN t.events
  /\ \A e \in DOMAIN s.events :
       /\ Unmoved(s.events[e], t.events[e])
       /\ Heeds(s.events[e].callbacks, t.events[e].callbacks, X)
  /\ \A c \in Conditions(s) \ X :
       t.events[c].state = s.events[c].state /\ t.events[c].count = s.events[c].count
  /\ \A e \in DOMAIN t.events \ DOMAIN s.events :
       /\ e \in Conditions(t) => e \in X
       /\ \A c : c \notin X => Occurrences(Call("check", c), t.events[e].callbacks) = {}
       /\ \A call \in Range(t.events[e].callbacks) : call.do # "trigger"

\* Outside X nobody is told, or misses it without being known to.
Hears(X) ==
  /\ ghost.orphaned \subseteq ghost'.orphaned
  /\ \A call \in Range(step'.rest) : call.do = "trigger" => call \in Range(step.rest)
  /\ \A c : c \notin X =>
       \/ step'.task = step.task /\ Same(Call("check", c), step.rest, step'.rest)
       \/ /\ Call("check", c) \notin Range(step'.rest)
          /\ Call("check", c) \in Range(step.rest) => c \in ghost'.orphaned

CondNow(c) ==
  /\ CondOK(sim, c, Busy(c), c \in ghost.orphaned)
  /\ AtMostOnce(Occurrences(Call("check", c), step.rest))

\* What user code may still do has not changed, or become less.
Spent ==
  \/ cast' = cast
  \/ cast.calls > 0 /\ cast' = [cast EXCEPT !.calls = @ - 1]
  \/ cast.runs > 0 /\ cast' = [cast EXCEPT !.runs = @ - 1]
=============================================================================
