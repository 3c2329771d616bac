------------------------------ MODULE Offload ------------------------------
(***************************************************************************)
(* Compute offload (parallel/offload.py): a pool of workers behind one     *)
(* Sim.  A strict offload is delivered at its slot, where the loop waits   *)
(* for the worker if it must; a non-strict one when the owning thread sees *)
(* the finished future between two steps (poll), or when nothing else is   *)
(* left to do (drain).  Either may be cancelled, by a call or because the  *)
(* last process that waited for it was interrupted, or lost to close.      *)
(*                                                                         *)
(* A payload is a function of its arguments: its outcome is fixed when it  *)
(* is submitted and known when a worker has run it.                        *)
(***************************************************************************)
EXTENDS Kernel, Backends

\* mode: "inline" or a kind of backend; closed, pending (_pending), live
\* (_strict_live): the fields of the pool; workers: their number; jobs: the
\* offloads by event; walk: what the poll under way has still to look at.
VARIABLE pool

ASSUME OffloadAssumption ==
    \A c \in Casts :
        /\ {"menu", "calls", "runs", "outcomes"} \subseteq DOMAIN c.may
        /\ c.may.workers \in Nat \ {0} /\ c.may.outcomes \subseteq {"result", "error"}
        /\ \A e \in DOMAIN c.sim.events : c.sim.events[e].type # "offload"

offloadVars == <<sim, control, step, run, cast, ghost, pool>>

\* OffloadPool.__init__; worker: the Experiment worker it is created in, if any.
NewPool(backend, worker, workers) ==
    [mode |-> PoolMode(backend, worker, TRUE), closed |-> FALSE,
     workers |-> workers, pending |-> <<>>, live |-> {},
     jobs |-> <<>>, walk |-> <<>>]

Outcomes == {"result", "error"}

\* due: the slot, or the earliest delivery; value: what the event holds,
\* "nothing" is the placeholder and the discarded outcome.
NewJob(strict, due, future, outcome) ==
    [strict |-> strict, due |-> due, future |-> future, outcome |-> outcome,
     abandoned |-> FALSE, value |-> "nothing"]

WithJob(jobs, e, job) ==
    [f \in DOMAIN jobs \cup {e} |-> IF f = e THEN job ELSE jobs[f]]

Jobs == DOMAIN pool.jobs
\* Mutant: the bound is ignored.
LaterAtOnce(s, due) == 0

Later(s, due) == IF due > s.now THEN Minus(due, s.now) ELSE 0

\* The state of an event that holds this value.
StateOf(value) == IF value = "error" THEN "failed" ELSE "ok"

\* OffloadEvent._outcome; the failure of a cancelled future is an error too.
OutcomeOf(job) == IF job.future = "cancelled" THEN "error" ELSE job.outcome
FutureDone(job) == job.future \in {"done", "cancelled"}

\* Mutant: a non-strict offload is remembered.
ForgetStrict(p, e) == [p EXCEPT !.live = @ \ {e}]

\* OffloadPool._forget
Forget(p, e) == [p EXCEPT !.pending = RemoveFirst(@, e), !.live = @ \ {e}]

\* OffloadEvent.cancel, what it does to the job and to the pool ...
Gone(job) ==
    [job EXCEPT !.abandoned = TRUE, !.value = "nothing",
                !.future = IF @ = "queued" THEN "cancelled" ELSE @]
Abandoned(p, e) == [Forget(p, e) EXCEPT !.jobs[e] = Gone(@)]

\* ... and to the Sim: an undelivered event is scheduled with nothing in it.
Discarded(s, p, e) ==
    LET t == [s EXCEPT !.events[e].defused = TRUE, !.events[e].state = "ok"]
    IN  IF s.events[e].state = "pending"
        THEN Schedule(t, Call("event", e), NORMAL, Later(s, p.jobs[e].due))
        ELSE t

MayAbandon(s, p, e) == ~p.jobs[e].abandoned /\ ~s.events[e].processed

-----------------------------------------------------------------------------
(* What user code calls. *)

UserCalls(s, p) == Calls(s) /\ pool' = p

\* Sim.offload and OffloadPool.submit; OffloadEvent.__init__.  Inline, the
\* payload runs here and now.
Submit ==
    /\ ~pool.closed /\ pool.mode # "refused"
    /\ \E kind \in {"strict", "nonstrict"}, d \in Delays \cup {0}, outcome \in cast.outcomes :
          LET e == Fresh(sim)
              strict == kind = "strict"
              job == NewJob(strict, Plus(sim.now, d),
                            IF pool.mode = "inline" THEN "done" ELSE "queued", outcome)
              known == [pool EXCEPT !.jobs = WithJob(@, e, job)]
              born == NewEvent("offload")
          IN  /\ May(kind)
              /\ IF strict
                 THEN UserCalls(Schedule(Create(sim, [born EXCEPT
                                             !.state = "ok",
                                             !.callbacks = <<Call("resolve", None)>>]),
                                         Call("event", e), NORMAL, d),
                                [known EXCEPT !.live = @ \cup {e}])
                 ELSE UserCalls(Create(sim, born), [known EXCEPT !.pending = Append(@, e)])

Cancel ==
    /\ May("cancel")
    /\ \E e \in Jobs : /\ MayAbandon(sim, pool, e)
                       /\ UserCalls(Discarded(sim, pool, e), Abandoned(pool, e))

Cancelled(w, e) ==
    IF MayAbandon(w.sim, w.pool, e)
    THEN [sim |-> Discarded(w.sim, w.pool, e), pool |-> Abandoned(w.pool, e)]
    ELSE w

CancelAll(w, left) ==
    LET cancelled[i \in 0 .. Len(left)] ==
            IF i = 0 THEN w ELSE Cancelled(cancelled[i - 1], left[i])
    IN  cancelled[Len(left)]

Stopped(job) ==
    [job EXCEPT !.future = IF @ = "queued" THEN "cancelled" ELSE IF @ = "running" THEN "done" ELSE @]

\* OffloadPool.close: cancel whatever is outstanding (the strict ones are a
\* set: their order changes nothing), then wait for the running payloads.
Close ==
    /\ May("close") /\ ~pool.closed
    /\ LET last == CancelAll([sim |-> sim, pool |-> pool], pool.pending \o SetToSeq(pool.live))
       IN  UserCalls(last.sim, [last.pool EXCEPT !.closed = TRUE,
                                                 !.jobs = [e \in DOMAIN @ |-> Stopped(@[e])]])

-----------------------------------------------------------------------------
(* The workers. *)

Working == {e \in Jobs : pool.jobs[e].future = "running"}

WorkerTakes ==
    /\ Cardinality(Working) < pool.workers
    /\ \E e \in Jobs :
          /\ pool.jobs[e].future = "queued"
          /\ \A f \in Jobs : pool.jobs[f].future = "queued" => e <= f
          /\ pool' = [pool EXCEPT !.jobs[e].future = "running"]
    /\ UNCHANGED kernelVars

\* _run_offload: the payload has returned or raised.
WorkerFinishes ==
    /\ \E e \in Working : pool' = [pool EXCEPT !.jobs[e].future = "done"]
    /\ UNCHANGED kernelVars

-----------------------------------------------------------------------------
(* The run loop with a pool attached. *)

\* Mutant: the loop does not wait for the worker.
ResolveAtOnce ==
    /\ Turn("resolve")
    /\ LET e == step.task.of
           job == pool.jobs[e]
           value == IF FutureDone(job) THEN job.outcome ELSE "nothing"
       IN  /\ Done([sim EXCEPT !.events[e].state = StateOf(value)])
           /\ pool' = [Forget(pool, e) EXCEPT !.jobs[e].value = value]

\* OffloadEvent._resolve: the loop waits here for the worker.
Resolve ==
    /\ Turn("resolve")
    /\ LET e == step.task.of
           job == pool.jobs[e]
           value == OutcomeOf(job)
       IN  IF job.abandoned
           THEN Done(sim) /\ UNCHANGED pool
           ELSE /\ FutureDone(job)
                /\ Done([sim EXCEPT !.events[e].state = StateOf(value)])
                /\ pool' = [Forget(pool, e) EXCEPT !.jobs[e].value = value]

\* An interrupted process leaves its target; if no other callback is left but
\* the event's own, the offload is abandoned (_waiter_unhooked).
LeavesAlone(p, e) ==
    /\ e \in Jobs /\ MayAbandon(sim, pool, e) /\ Waiting(sim, p)
    /\ RemoveFirst(sim.events[e].callbacks, Call("resume", p)) \in
          {<<>>, <<Call("resolve", None)>>}

InterruptWaiter ==
    /\ Turn("interrupt")
    /\ LET e == sim.events[Callee].target
           last == Alive(sim, Callee) /\ e # None /\ LeavesAlone(Callee, e)
           freed == Unhooked(sim, Callee)
       IN  /\ DeliverInterruptTo(IF last THEN Discarded(freed, pool, e) ELSE freed)
           /\ pool' = IF last THEN Abandoned(pool, e) ELSE pool

\* After a step that did not raise, poll looks at the pending offloads.
EndStep ==
    /\ FinishStep
    /\ pool' = IF control' = Loop THEN [pool EXCEPT !.walk = pool.pending] ELSE pool

\* OffloadPool.poll, one future at a time while the workers go on; _deliver.
PollOne ==
    /\ control = Loop /\ pool.walk # <<>>
    /\ LET e == Head(pool.walk)
           job == pool.jobs[e]
           value == OutcomeOf(job)
           rest == [pool EXCEPT !.walk = Tail(@)]
       IN  IF FutureDone(job)
           THEN /\ sim' = Schedule([sim EXCEPT !.events[e].state = StateOf(value)],
                                   Call("event", e), NORMAL, Later(sim, job.due))
                /\ pool' = [rest EXCEPT !.pending = RemoveFirst(@, e), !.jobs[e].value = value]
           ELSE sim' = sim /\ pool' = rest
    /\ UNCHANGED <<control, step, run, cast, ghost>>

Polled == pool.walk = <<>>

\* Mutant: drain waits and does not poll.
DrainIdly ==
    /\ Idle /\ Polled /\ sim.queue = <<>> /\ pool.pending # <<>>
    /\ \E i \in DOMAIN pool.pending : FutureDone(pool.jobs[pool.pending[i]])
    /\ UNCHANGED offloadVars

\* OffloadPool.drain: nothing is scheduled, wait for some future.
Drain ==
    /\ Idle /\ Polled /\ sim.queue = <<>> /\ pool.pending # <<>>
    /\ \E i \in DOMAIN pool.pending : FutureDone(pool.jobs[pool.pending[i]])
    /\ pool' = [pool EXCEPT !.walk = pool.pending]
    /\ UNCHANGED kernelVars

\* Mutant: with nothing scheduled, the run ends without looking at the pool.
GiveUpUndrained == Polled /\ RunEmpty /\ UNCHANGED pool

StepNext == Polled /\ Pop /\ UNCHANGED pool

\* drain finds nothing outstanding: the run is over.
GiveUp == Polled /\ pool.pending = <<>> /\ RunEmpty /\ UNCHANGED pool

StartARun == (RunToEnd \/ RunToTime \/ RunToEvent) /\ UNCHANGED pool
CallBack == (Resume \/ RunCheck \/ RunBuild \/ RunTrigger \/ RunStop) /\ UNCHANGED pool

OffloadInit == \E c \in Casts : Start(c) /\ pool = NewPool(c.may.backend, c.may.worker, c.may.workers)

UserActs == Submit \/ Cancel \/ Close \/ ((UserNext \/ Yield) /\ UNCHANGED pool)
Workers == WorkerTakes \/ WorkerFinishes
LoopGoesOn == StartARun \/ CallBack \/ Resolve \/ InterruptWaiter \/ EndStep \/ PollOne

OffloadNext == UserActs \/ Workers \/ LoopGoesOn \/ StepNext \/ Drain \/ GiveUp
OffloadSpec == OffloadInit /\ [][OffloadNext]_offloadVars

-----------------------------------------------------------------------------
(* Properties. *)

\* When a run ends because nothing is left, every offload there is has been
\* delivered and processed: a result is never silently dropped, nor the
\* discarded outcome of a cancelled one, so nobody waits for an offload for ever
\* (drain, OffloadEvent.cancel).
NothingDropped ==
    [][ run.result = "running" /\ run'.result \in {"empty", "starved"}
          => \A e \in Jobs : sim.events[e].processed ]_offloadVars

\* What a waiter is given is what the payload computed, never the placeholder
\* nor a result that came too late to be discarded; and the pool's two tables
\* hold exactly the offloads whose outcome is still open (_resolve, _forget).
SeenIsReal ==
    /\ \A e \in Jobs :
          LET job == pool.jobs[e] IN
          /\ sim.events[e].processed /\ Call("resolve", None) \notin Range(step.rest)
                => job.value = IF job.abandoned THEN "nothing" ELSE job.outcome
          /\ job.value # "nothing" => job.future = "done"
          /\ job.abandoned => sim.events[e].state = "ok"
          /\ job.future = "cancelled" => job.abandoned
    /\ LET open(strict) == {e \in Jobs : /\ pool.jobs[e].strict = strict
                                         /\ pool.jobs[e].value = "nothing"
                                         /\ ~pool.jobs[e].abandoned}
       IN  /\ pool.live = open(TRUE) /\ Range(pool.pending) = open(FALSE)
           /\ IsInjective(pool.pending)
           /\ pool.closed => open(TRUE) \cup open(FALSE) = {}

\* What is scheduled for due, by its delay, at some time until then is processed
\* no earlier than at such a time: at due, but for what rounding takes.
InTime(now, due) == \E from \in Times : from <= due /\ now >= StopTime(from, due)

\* A strict offload is processed at its slot and a non-strict one not before its
\* bound (but for the rounding of its delay: with exact sums, not before it),
\* however long the payload took, cancelled or not (Sim.offload, _resolve, _deliver).
DueHonoured ==
    [][ \A e \in Jobs :
          sim'.events[e].processed /\ ~sim.events[e].processed
              => IF pool.jobs[e].strict THEN sim'.now = pool.jobs[e].due
                                        ELSE InTime(sim'.now, pool.jobs[e].due) ]_offloadVars

=============================================================================
