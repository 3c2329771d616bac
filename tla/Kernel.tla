------------------------------- MODULE Kernel -------------------------------
(***************************************************************************)
(* One Sim: the event loop (core/sim.py), events (core/events.py),         *)
(* processes and interrupts (core/process.py), conditions                  *)
(* (core/conditions.py).                                                   *)
(*                                                                         *)
(* A Sim is a record and what the code does to it in one call is an        *)
(* operator from records to records.  Control is passed around: the main   *)
(* program calls run(), the loop pops an event and calls its callbacks one *)
(* by one, a callback may resume a process, and the process does what it   *)
(* likes until it waits or ends.  Events are numbered as they are created. *)
(***************************************************************************)
EXTENDS FloatTime, Sequences, FiniteSets, SequencesExt

CONSTANTS
    Delays,        \* the delays of timeouts
    Stops,         \* the times that a run is asked to stop at
    Casts          \* what the main program sets up, and what user code may do:
                   \* records of a Sim and of the calls on the menu, how many
                   \* calls, and how many runs

ASSUME KernelAssumption ==
    /\ Delays \subseteq Times /\ Stops \subseteq Times
    /\ \A c \in Casts : c.may.calls \in Nat /\ c.may.runs \in Nat

VARIABLES
    sim,           \* the Sim: clock, schedule, events, active process
    control,       \* who is executing: Main, Loop, or a process
    step,          \* the entry being processed and its callbacks still to call
    run,           \* what the current or last run() was asked and how it ended
    cast,          \* what user code may still do (bounds)
    ghost          \* history: what a cut step dropped, which failures were seen

kernelVars == <<sim, control, step, run, cast, ghost>>

None == 0
Main == 0
Loop == -1

URGENT == 0
NORMAL == 1

-----------------------------------------------------------------------------
(* The Sim and its schedule. *)

\* Callbacks and schedule entries.  The events that only the kernel can see
\* (process start, interruption, a numeric until) are entries of their own.
Call(do, of) == [do |-> do, of |-> of]
NoTask == Call("none", None)

NewEvent(type) ==
    [type |-> type, state |-> "pending", processed |-> FALSE,
     callbacks |-> <<>>, defused |-> FALSE,
     target |-> None, members |-> <<>>, count |-> 0]

NewSim == [now |-> 0, queue |-> <<>>, events |-> <<>>, active |-> None]

\* The last three of each are a resource's requests and an offload, and their
\* callbacks.
CallType ==
    [do : {"none", "event", "start", "interrupt", "stop", "resume", "check", "build", "trigger",
           "put", "get", "resolve"},
     of : Nat]
EventType ==
    [type : {"event", "timeout", "process", "all", "any", "put", "get", "offload"},
     state : {"pending", "ok", "failed"},
     processed : BOOLEAN, callbacks : Seq(CallType), defused : BOOLEAN,
     target : Nat, members : Seq(Nat), count : Nat]
EntryType == [at : Times, prio : {URGENT, NORMAL}, task : CallType]
SimType == [now : Times, queue : Seq(EntryType), events : Seq(EventType), active : Nat]

Put(s, e, record) == [s EXCEPT !.events[e] = record]
Create(s, record) == [s EXCEPT !.events = Append(@, record)]
Fresh(s) == Len(s.events) + 1

\* Mutant: the delay taken for the time.
ScheduleAtDelay(s, task, prio, delay) ==
    [s EXCEPT !.queue = Append(@, [at |-> delay, prio |-> prio, task |-> task])]

\* Sim.schedule: the position in the queue stands for the event id.
Schedule(s, task, prio, delay) ==
    [s EXCEPT !.queue = Append(@, [at |-> Plus(s.now, delay), prio |-> prio, task |-> task])]

\* The least (time, priority, id).
IsNext(queue, i) ==
    \A j \in DOMAIN queue \ {i} :
        \/ queue[i].at < queue[j].at
        \/ /\ queue[i].at = queue[j].at
           /\ \/ queue[i].prio < queue[j].prio
              \/ queue[i].prio = queue[j].prio /\ i < j

Processes(s) == {e \in DOMAIN s.events : s.events[e].type = "process"}
Alive(s, p) == s.events[p].state = "pending"
Failed(s, e) == s.events[e].state = "failed"
Conditions(s) == {e \in DOMAIN s.events : s.events[e].type \in {"all", "any"}}

\* Event.succeed, Event.fail (of an untriggered event), Event.trigger (of any).
Trigger(s, e, state) ==
    Schedule([s EXCEPT !.events[e].state = state], Call("event", e), NORMAL, 0)

\* The outcome of e is handed on; a failure is defused by that.
Sent(s, e) == IF Failed(s, e) THEN [s EXCEPT !.events[e].defused = TRUE] ELSE s

\* The same for every failed event among these.
Defused(s, members) ==
    [s EXCEPT !.events = [e \in DOMAIN s.events |->
        IF e \in Range(members) /\ Failed(s, e) THEN [s.events[e] EXCEPT !.defused = TRUE]
                                               ELSE s.events[e]]]

Hook(s, e, call) == [s EXCEPT !.events[e].callbacks = Append(@, call)]

-----------------------------------------------------------------------------
(* Conditions. *)

\* Mutant: all of them but one.
HoldsEarly(c) == IF c.type = "all" THEN Len(c.members) <= c.count + 1
                                   ELSE c.count > 0 \/ c.members = <<>>

Holds(c) == IF c.type = "all" THEN Len(c.members) = c.count
                              ELSE c.count > 0 \/ c.members = <<>>

\* Mutant: a condition that is over takes the failure away all the same.
CheckDefusing(s, c, e) ==
    LET cond    == [s.events[c] EXCEPT !.count = @ + 1]
        counted == Put(s, c, cond)
    IN  IF s.events[c].state # "pending" THEN Sent(s, e)
        ELSE IF Failed(s, e) THEN Trigger(Defused(counted, cond.members), c, "failed")
        ELSE IF Holds(cond) THEN Trigger(counted, c, "ok")
        ELSE counted

\* Condition._check, called with the member e that has been processed.
Check(s, c, e) ==
    LET cond    == [s.events[c] EXCEPT !.count = @ + 1]
        counted == Put(s, c, cond)
    IN  IF s.events[c].state # "pending" THEN s
        ELSE IF Failed(s, e) THEN Trigger(Defused(counted, cond.members), c, "failed")
        ELSE IF Holds(cond) THEN Trigger(counted, c, "ok")
        ELSE counted

\* Condition.__init__
Combine(s, type, members) ==
    LET c == Fresh(s)
        Watch(t, m) == IF t.events[m].processed THEN Check(t, c, m)
                       ELSE Hook(t, m, Call("check", c))
        made == Create(s, [NewEvent(type) EXCEPT !.members = members])
        watched[i \in 0 .. Len(members)] ==
            IF i = 0 THEN made ELSE Watch(watched[i - 1], members[i])
    IN  IF members = <<>> THEN Trigger(made, c, "ok")
        ELSE Hook(watched[Len(members)], c, Call("build", c))

\* A condition and the conditions nested in it, at any depth (members are older).
Nested(s, c) ==
    LET below[d \in 0 .. c] ==
            {d} \cup UNION {below[m] : m \in Range(s.events[d].members) \cap Conditions(s)}
    IN  below[c]

\* What is left of the calls when the dropped ones are taken out.
Without(calls, dropped) ==
    LET kept[i \in 0 .. Len(calls)] ==
            IF i = 0 THEN <<>>
            ELSE IF calls[i] \in dropped THEN kept[i - 1] ELSE Append(kept[i - 1], calls[i])
    IN  kept[Len(calls)]

\* Condition._remove_check_callbacks
RemoveChecks(s, c) ==
    LET members == UNION {Range(s.events[d].members) : d \in Nested(s, c)}
        checks == {Call("check", d) : d \in Nested(s, c)}
    IN  [s EXCEPT !.events = [m \in DOMAIN s.events |->
            IF m \in members THEN [s.events[m] EXCEPT !.callbacks = Without(@, checks)]
                             ELSE s.events[m]]]

-----------------------------------------------------------------------------
(* Processes. *)

\* Process.__init__
Spawned(s) == Schedule(Create(s, NewEvent("process")),
                       Call("start", Fresh(s)), URGENT, 0)

\* Process.interrupt: _Interruption.__init__ and what it refuses.
MayInterrupt(s, p) == Alive(s, p) /\ p # s.active
\* Mutant: without its priority.
InterruptedLate(s, p) == Schedule(s, Call("interrupt", p), NORMAL, 0)

Interrupted(s, p) == Schedule(s, Call("interrupt", p), URGENT, 0)

Waiting(s, p) == Call("resume", p) \in Range(s.events[s.events[p].target].callbacks)

\* Mutants: the wait stays registered; or another's is taken out.
UnhookedNot(s, p) == s
UnhookedLast(s, p) == [s EXCEPT !.events[s.events[p].target].callbacks = Front(@)]

\* What _interrupt takes out of the target before it resumes the process.
Unhooked(s, p) ==
    [s EXCEPT !.events[s.events[p].target].callbacks = RemoveFirst(@, Call("resume", p))]

Heard(e) == [ghost EXCEPT !.heard = @ \cup {e}]

\* The body has returned or raised.
Ended(s, p, state) ==
    Trigger([s EXCEPT !.events[p].target = None, !.active = None], p, state)

-----------------------------------------------------------------------------
(* The main program and the processes: what user code may call. *)

\* What a main program may have set up, the rest being on the menu: events,
\* triggered or not, conditions over older ones, and processes to be started.
Prepared(s) ==
    /\ s \in SimType /\ s.active = None
    /\ \A e \in DOMAIN s.events :
          LET record == s.events[e] IN
          /\ ~record.processed /\ ~record.defused /\ record.target = None
          /\ Range(record.members) \subseteq 1 .. e - 1
          /\ \A i \in DOMAIN record.callbacks :
                LET call == record.callbacks[i] IN
                \/ call.do = "build" /\ call.of = e
                \/ call.do = "check" /\ call.of \in Conditions(s)
                                     /\ e \in Range(s.events[call.of].members)
          /\ record.type = "process" =>
                /\ record.state = "pending"
                /\ \E i \in DOMAIN s.queue : \A j \in DOMAIN s.queue :
                      s.queue[j].task = Call("start", e) <=> i = j
    /\ \A i \in DOMAIN s.queue :
          LET entry == s.queue[i] IN
          \/ /\ entry.task.do = "event" /\ entry.prio = NORMAL /\ entry.at >= s.now
             /\ entry.task.of \in DOMAIN s.events
             /\ s.events[entry.task.of].state # "pending"
          \/ /\ entry.task.do = "start" /\ entry.prio = URGENT /\ entry.at = s.now
             /\ entry.task.of \in Processes(s)

ASSUME CastAssumption == \A c \in Casts : Prepared(c.sim)

May(call) ==
    /\ control \in Processes(sim) \/ (control = Main /\ "main" \in cast.menu)
    /\ cast.calls > 0 /\ call \in cast.menu
Calls(s) == sim' = s /\ cast' = [cast EXCEPT !.calls = @ - 1] /\ UNCHANGED <<control, step, run, ghost>>
\* What user code triggers is an Event it has made: a process, a condition, a
\* request has its own maker.
Pending(e) == sim.events[e].state = "pending" /\ sim.events[e].type = "event"

MakeEvent == May("event") /\ Calls(Create(sim, NewEvent("event")))

MakeTimeout ==
    /\ May("timeout")
    /\ \E d \in Delays :
          Calls(Schedule(Create(sim, [NewEvent("timeout") EXCEPT !.state = "ok"]),
                         Call("event", Fresh(sim)), NORMAL, d))

Spawn == May("spawn") /\ Calls(Spawned(sim))

MakeCondition ==
    /\ May("condition")
    /\ \E type \in {"all", "any"} :
          \/ Calls(Combine(sim, type, <<>>))
          \/ \E d, e \in DOMAIN sim.events : d < e /\ Calls(Combine(sim, type, <<d, e>>))

SucceedOrFail ==
    /\ \E e \in DOMAIN sim.events, state \in {"ok", "failed"} :
          May(state) /\ Pending(e) /\ Calls(Trigger(sim, e, state))

\* e.callbacks.append(f.trigger)
Chain ==
    /\ May("chain")
    /\ \E e, f \in DOMAIN sim.events :
          /\ ~sim.events[e].processed /\ Pending(f) /\ e # f
          /\ Calls(Hook(sim, e, Call("trigger", f)))

Interrupt ==
    /\ May("interrupt")
    /\ \E p \in Processes(sim) : MayInterrupt(sim, p) /\ Calls(Interrupted(sim, p))

\* A step is left by an exception: the callbacks still to come are dropped.
Cut(s, rest, seen, result) ==
    LET Of(do) == {call.of : call \in {c \in Range(rest) : c.do = do}}
    IN  /\ sim' = s
        /\ control' = Main
        /\ step' = [task |-> NoTask, rest |-> <<>>]
        /\ run' = [run EXCEPT !.result = result]
        /\ ghost' = [ghost EXCEPT
              !.stranded = @ \cup Of("resume") \cup ({control} \cap Processes(s)),
              !.orphaned = @ \cup Of("check"),
              !.heard = @ \cup seen]
        /\ UNCHANGED cast

YieldOn(e) ==
    /\ control \in Processes(sim) \ {e}
    /\ LET s == [sim EXCEPT !.events[control].target = e]
       IN  IF sim.events[e].processed
           THEN /\ sim' = Sent(s, e)
                /\ ghost' = IF Failed(sim, e) THEN Heard(e) ELSE ghost
                /\ UNCHANGED <<control, step, run, cast>>
           ELSE /\ sim' = [Hook(s, e, Call("resume", control)) EXCEPT !.active = None]
                /\ control' = Loop
                /\ UNCHANGED <<step, run, cast, ghost>>

Yield == \E e \in DOMAIN sim.events : YieldOn(e)

\* Not an event, or an event of another Sim: RuntimeError leaves _resume.
YieldWrong == "wrong" \in cast.menu /\ control \in Processes(sim) /\ Cut(sim, step.rest, {}, "raised")

End ==
    /\ control \in Processes(sim)
    /\ \/ sim' = Ended(sim, control, "ok")
       \/ "die" \in cast.menu /\ sim' = Ended(sim, control, "failed")
    /\ control' = Loop
    /\ UNCHANGED <<step, run, cast, ghost>>

-----------------------------------------------------------------------------
(* The run loop. *)

StopsLeft(s) ==
    \/ \E i \in DOMAIN s.queue : s.queue[i].task.do = "stop"
    \/ \E e \in DOMAIN s.events : Call("stop", None) \in Range(s.events[e].callbacks)

\* Sim.run and _arm_until.  An event that is processed needs no run.
StartRun(s, until, at) ==
    /\ control = Main /\ cast.runs > 0
    /\ cast' = [cast EXCEPT !.runs = @ - 1]
    /\ sim' = s
    /\ control' = Loop
    /\ run' = [until |-> until, at |-> at, from |-> sim.now,
               clean |-> ~StopsLeft(sim), result |-> "running"]
    /\ UNCHANGED <<step, ghost>>

RunToEnd == StartRun(sim, None, 0)
RunToTime ==
    /\ "time" \in cast.menu
    /\ \E at \in Stops :
          /\ at > sim.now
          /\ StartRun(Schedule(sim, Call("stop", None), URGENT, Minus(at, sim.now)), None, at)
RunToEvent ==
    /\ "until" \in cast.menu
    /\ \E e \in DOMAIN sim.events :
        /\ ~sim.events[e].processed
        /\ StartRun(Hook(sim, e, Call("stop", None)), e, 0)

Idle == control = Loop /\ step.task = NoTask

\* Sim.step up to its first callback.
Pop ==
    /\ Idle
    /\ \E i \in DOMAIN sim.queue :
          LET entry == sim.queue[i]
              task  == entry.task
              s     == [sim EXCEPT !.now = entry.at, !.queue = RemoveAt(@, i)]
              Begin(t, rest) == /\ sim' = t
                                /\ step' = [task |-> task, rest |-> rest]
                                /\ UNCHANGED <<control, run, cast, ghost>>
          IN  /\ IsNext(sim.queue, i)
              /\ CASE task.do # "event" -> Begin(s, <<IF task.do = "start"
                                             THEN Call("resume", task.of) ELSE task>>)
                   [] task.do = "event" /\ sim.events[task.of].processed ->
                        Cut(s, <<>>, {task.of}, "raised")
                   [] OTHER -> Begin([s EXCEPT !.events[task.of].processed = TRUE,
                                              !.events[task.of].callbacks = <<>>],
                                    sim.events[task.of].callbacks)

\* The callback whose turn it is.
Turn(do) == control = Loop /\ step.rest # <<>> /\ Head(step.rest).do = do
Callee == Head(step.rest).of
Done(s) == /\ sim' = s
           /\ step' = [step EXCEPT !.rest = Tail(@)]
           /\ UNCHANGED <<control, run, cast, ghost>>

\* _resume: the body gets control.
Enter(s, p, heard) ==
    /\ sim' = [s EXCEPT !.active = p]
    /\ control' = p
    /\ step' = [step EXCEPT !.rest = Tail(@)]
    /\ ghost' = [heard EXCEPT !.stranded = @ \ {p}]
    /\ UNCHANGED <<run, cast>>

Resume ==
    /\ Turn("resume")
    /\ IF step.task.do = "event" /\ Failed(sim, step.task.of)
       THEN Enter(Sent(sim, step.task.of), Callee, Heard(step.task.of))
       ELSE Enter(sim, Callee, ghost)

\* _Interruption._interrupt; freed is the Sim once the target has lost the
\* process as a waiter (_waiter_unhooked: more than that if it is an offload).
DeliverInterruptTo(freed) ==
    /\ Turn("interrupt")
    /\ LET p == Callee
           target == sim.events[p].target
           hooked == target # None /\ ~sim.events[target].processed
       IN  CASE ~Alive(sim, p) -> Done(sim)
             [] Alive(sim, p) /\ ~hooked -> Enter(sim, p, ghost)
             [] Alive(sim, p) /\ hooked /\ Waiting(sim, p) -> Enter(freed, p, ghost)
             [] OTHER -> Cut(sim, <<>>, {}, "raised")     \* list.remove finds nothing

DeliverInterrupt == DeliverInterruptTo(Unhooked(sim, Callee))

RunCheck == Turn("check") /\ Done(Check(sim, Callee, step.task.of))

\* A pending condition nested in this one loses its checks.
RunBuild ==
    /\ Turn("build")
    /\ sim' = RemoveChecks(sim, Callee)
    /\ step' = [step EXCEPT !.rest = Tail(@)]
    /\ ghost' = [ghost EXCEPT !.orphaned = @ \cup (Nested(sim, Callee) \ {Callee})]
    /\ UNCHANGED <<control, run, cast>>

RunTrigger ==
    /\ Turn("trigger")
    /\ Done(Trigger(sim, Callee, sim.events[step.task.of].state))

\* Mutant: the failure of the until event is taken for a stop.
RunStopQuietly == Turn("stop") /\ Cut(sim, Tail(step.rest), {}, "stopped")

\* _StopSimulation.callback: the value is returned, the failure raised.
RunStop ==
    /\ Turn("stop")
    /\ IF step.task.do = "event" /\ Failed(sim, step.task.of)
       THEN Cut(sim, Tail(step.rest), {step.task.of}, "raised")
       ELSE Cut(sim, Tail(step.rest), {}, "stopped")

\* The end of Sim.step: an unhandled failure crashes the run.
FinishStep ==
    /\ control = Loop /\ step.task # NoTask /\ step.rest = <<>>
    /\ IF step.task.do = "event" /\ Failed(sim, step.task.of)
                                 /\ ~sim.events[step.task.of].defused
       THEN Cut(sim, <<>>, {step.task.of}, "raised")
       ELSE /\ step' = [task |-> NoTask, rest |-> <<>>]
            /\ UNCHANGED <<sim, control, run, cast, ghost>>

\* _finish_empty_run
RunEmpty ==
    /\ Idle /\ sim.queue = <<>>
    /\ control' = Main
    /\ run' = [run EXCEPT !.result = IF run.until = None THEN "empty" ELSE "starved"]
    /\ UNCHANGED <<sim, step, cast, ghost>>

-----------------------------------------------------------------------------
\* Start with what the cast c has set up.
Start(c) ==
    /\ sim = c.sim /\ cast = c.may
    /\ control = Main
    /\ step = [task |-> NoTask, rest |-> <<>>]
    /\ run = [until |-> None, at |-> 0, from |-> 0, clean |-> TRUE, result |-> "none"]
    /\ ghost = [stranded |-> {}, orphaned |-> {}, heard |-> {}]

KernelInit == \E c \in Casts : Start(c)

UserNext == MakeEvent \/ MakeTimeout \/ MakeCondition \/ Spawn
            \/ SucceedOrFail \/ Chain \/ Interrupt \/ YieldWrong \/ End

LoopNext == RunToEnd \/ RunToTime \/ RunToEvent \/ Pop \/ Resume \/ DeliverInterrupt
            \/ RunCheck \/ RunBuild \/ RunTrigger \/ RunStop \/ FinishStep \/ RunEmpty

KernelNext == UserNext \/ Yield \/ LoopNext
KernelSpec == KernelInit /\ [][KernelNext]_kernelVars

-----------------------------------------------------------------------------
(* Properties. *)

Occurrences(call, calls) == {i \in DOMAIN calls : calls[i] = call}

\* How often a callback is registered with an event that is still to be
\* processed, or about to be called in this step.
Hooks(call) ==
    Cardinality(Occurrences(call, step.rest))
      + Cardinality(UNION {{e} \X Occurrences(call, sim.events[e].callbacks) :
                              e \in DOMAIN sim.events})

Queued(task) == \E i \in DOMAIN sim.queue : sim.queue[i].task = task

\* Types, and nothing is ever scheduled in the past.
KernelTypeOK ==
    /\ control \in {Main, Loop} \cup Processes(sim)
    /\ sim.active \in {None} \cup Processes(sim)
    /\ \A e \in DOMAIN sim.events :
          LET record == sim.events[e] IN
          /\ record.state \in {"pending", "ok", "failed"}
          /\ record.processed => record.callbacks = <<>> /\ record.state # "pending"
          /\ record.target \in {None} \cup DOMAIN sim.events
          /\ Range(record.members) \subseteq 1 .. e - 1
    /\ \A i \in DOMAIN sim.queue : sim.queue[i].at >= sim.now

\* No lost and no double wake-up: a process that is alive and not running is
\* registered exactly once, with its target, in the step under way, or as not
\* yet started; the only exception is a process whose wake-up was dropped when
\* an exception or a stop cut a step short (Process._resume, _interrupt).
HookedOnce ==
    \A p \in Processes(sim) :
        Hooks(Call("resume", p)) + (IF Queued(Call("start", p)) THEN 1 ELSE 0) =
            IF Alive(sim, p) /\ p # control /\ p \notin ghost.stranded THEN 1 ELSE 0

\* An event resumes a process only while it is what the process waits for: an
\* interrupt in between must have unhooked it (_Interruption._interrupt).
NoStaleWakeup ==
    [][ \A p \in Processes(sim) :
          control = Loop /\ control' = p /\ step.task.do = "event"
              => sim.events[p].target = step.task.of ]_kernelVars

\* interrupt() is delivered ahead of everything ordinary that is scheduled:
\* no event is popped while an interruption is (URGENT priority).
InterruptsFirst ==
    [][ control = Loop /\ step'.task.do = "event" /\ step.task # step'.task
          => \A p \in Processes(sim) : ~Queued(Call("interrupt", p)) ]_kernelVars

\* Faults are never silently lost (events.py, Event): a failed event that has
\* been processed was thrown into a body, crashed the run, or was taken over by
\* a condition that fails too.
FailuresSurface ==
    \A e \in DOMAIN sim.events :
        Failed(sim, e) /\ sim.events[e].processed
            /\ step.task # Call("event", e) /\ ~Queued(Call("event", e))
        => \/ e \in ghost.heard
           \/ /\ sim.events[e].defused
              /\ \E c \in Conditions(sim) :
                    Failed(sim, c) /\ e \in Range(sim.events[c].members)

\* A condition fires no earlier than its predicate holds (Condition._check).
FiresNotEarly ==
    \A c \in Conditions(sim) :
        LET cond == sim.events[c]
            done == {m \in Range(cond.members) : sim.events[m].processed}
        IN  /\ cond.state = "ok" =>
                  IF cond.type = "all" THEN done = Range(cond.members)
                  ELSE done # {} \/ cond.members = <<>>
            /\ cond.state = "failed" => \E m \in done : Failed(sim, m)

\* ... and no later: while it is pending each member has been counted or still
\* has the condition's check, unless that check was removed or dropped.
FiresNotLate ==
    \A c \in Conditions(sim) :
        LET cond == sim.events[c] IN
        cond.state = "pending" /\ c \notin ghost.orphaned
            => /\ ~Holds(cond)
               /\ cond.count + Hooks(Call("check", c)) = Len(cond.members)
               /\ \A m \in Range(cond.members) :
                     Failed(sim, m) /\ sim.events[m].processed
                         => Call("check", c) \in Range(step.rest)

\* A condition is triggered exactly when its predicate comes to hold.
FiresWhenItHolds == FiresNotEarly /\ FiresNotLate

\* The time at which a run, called when the clock shows from, meets its stop if
\* it is asked to stop at the time at: at itself, but for what rounding takes.
StopTime(from, at) == Plus(from, Minus(at, from))

\* run(until) stops where it was asked to, if no stop was left over from an
\* earlier run that an exception ended (_arm_until, _StopSimulation.callback).
StopsWhereAsked ==
    run.clean =>
        /\ run.result = "stopped" =>
              IF run.until = None THEN sim.now = StopTime(run.from, run.at)
              ELSE sim.events[run.until].processed /\ ~Failed(sim, run.until)
        /\ run.result = "starved" => ~sim.events[run.until].processed

\* all_of: "a condition triggered once every event in *events* succeeds"
\* (core/sim.py:281), also when it is a member of another condition.
AllOfFires ==
    \A c \in Conditions(sim) :
        sim.events[c].type = "all" /\ sim.events[c].state = "pending" /\ step.task = NoTask
            => \E m \in Range(sim.events[c].members) :
                  ~sim.events[m].processed \/ Failed(sim, m)

=============================================================================
