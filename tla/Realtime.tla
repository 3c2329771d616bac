------------------------------ MODULE Realtime ------------------------------
(***************************************************************************)
(* rt.run (rt.py): the run loop of an offload-equipped Sim, paced by the   *)
(* wall clock.  Before each step it sleeps until the next event's wall     *)
(* deadline, or raises when that deadline is too long past.                *)
(***************************************************************************)
EXTENDS Offload

CONSTANTS
    Factor,        \* wall-clock ticks per unit of simulated time
    MaxWall        \* bound: the wall clock ticks by itself up to here

ASSUME RealtimeAssumption == Factor \in Nat \ {0} /\ MaxWall \in Nat

\* on, strict: whether rt.run drives the Sim, and its argument; wall: the
\* clock; origin, start: where simulated and wall time are pinned together;
\* ready: the deadline of the next event has been awaited; begun: history,
\* where the run began.
VARIABLE pace

vars == <<sim, control, step, run, cast, ghost, pool, pace>>

Pinned == [origin |-> sim.now, start |-> pace.wall]

RtInit ==
    /\ OffloadInit
    /\ pace = [on |-> cast.paced # "no", strict |-> cast.paced = "strict", wall |-> 0,
               origin |-> 0, start |-> 0, ready |-> FALSE,
               begun |-> [origin |-> 0, start |-> 0]]

\* Pacing: origin and start are read when the run begins ...
RtStart ==
    /\ StartARun
    /\ pace' = [pace EXCEPT !.origin = sim.now, !.start = pace.wall, !.ready = FALSE,
                            !.begun = Pinned]

Deadline(i) == pace.start + (sim.queue[i].at - pace.origin) * Factor

\* ... and before each step the loop looks at the clock, and sleeps or raises.
Await ==
    /\ pace.on /\ ~pace.ready /\ Idle /\ Polled
    /\ UNCHANGED pool
    /\ \E i \in DOMAIN sim.queue :
          LET deadline == Deadline(i)
              timed == sim.queue[i].at # Infinity
          IN
          /\ IsNext(sim.queue, i)
          /\ IF timed /\ pace.strict /\ pace.wall - deadline > Factor
             THEN Cut(sim, <<>>, {}, "drift") /\ UNCHANGED pace
             ELSE /\ pace' = [pace EXCEPT !.ready = TRUE,
                                 !.wall = IF timed /\ @ < deadline THEN deadline ELSE @]
                  /\ UNCHANGED kernelVars

RtStep == (pace.on => pace.ready) /\ StepNext /\ pace' = [pace EXCEPT !.ready = FALSE]

\* Mutant: only the simulated clock is pinned anew.
RtDrainHalf == Drain /\ pace' = [pace EXCEPT !.origin = sim.now]

\* Waiting for non-strict offloads is not drift: the clocks are pinned anew.
RtDrain ==
    /\ Drain
    /\ pace' = [pace EXCEPT !.origin = sim.now, !.start = pace.wall]

Tick ==
    /\ pace.on /\ pace.wall < MaxWall
    /\ pace' = [pace EXCEPT !.wall = @ + 1]
    /\ UNCHANGED offloadVars

RtLoop ==
    \/ RtStart \/ Await \/ RtStep \/ RtDrain
    \/ ((CallBack \/ Resolve \/ InterruptWaiter \/ EndStep \/ PollOne \/ GiveUp) /\ UNCHANGED pace)
RtWorkers == Workers /\ UNCHANGED pace
RtUser == UserActs /\ UNCHANGED pace

\* The loop and the workers are never held up for ever, and bodies are finite.
Fairness ==
    /\ WF_vars(RtLoop)
    /\ WF_vars(RtWorkers)
    /\ WF_vars(End /\ UNCHANGED <<pool, pace>>)

Next == RtUser \/ RtWorkers \/ RtLoop \/ Tick
Spec == RtInit /\ [][Next]_vars /\ Fairness

-----------------------------------------------------------------------------
(* Properties. *)

\* Every run comes to an end: at a slot, in drain and between steps the loop
\* waits for nothing that no worker will bring (run, drain, rt.run).
RunEnds == run.result = "running" ~> run.result # "running"

\* Paced, an event at simulated time T is processed no earlier than
\* start + (T - t0) * factor of the run's beginning (rt.py:4-6), also after a
\* drain has pinned the clocks anew.
NeverEarly ==
    [][ pace.on /\ Idle /\ step'.task # step.task /\ sim'.now # Infinity
          => pace.wall >= pace.begun.start
                              + (sim'.now - pace.begun.origin) * Factor ]_vars

\* The pool of the sequential reference: every payload has run when it is submitted.
Ran(job) == [job EXCEPT !.future = "done"]
InlinePool(p) == [p EXCEPT !.mode = "inline", !.jobs = [e \in DOMAIN @ |-> Ran(@[e])]]
Inline == INSTANCE Offload WITH pool <- InlinePool(pool)

OnlyStrict == "nonstrict" \notin cast.menu

\* With strict offloads only, whatever the workers do and the wall clock says,
\* each step is a step of the sequential reference, where a payload runs when
\* it is submitted (offload.py:6-12, rt.py:8-11): the order of events, values
\* and failures are the same.
StrictIsInline ==
    [][ OnlyStrict /\ run'.result # "drift"
          => Inline!OffloadNext \/ UNCHANGED Inline!offloadVars ]_vars

=============================================================================
