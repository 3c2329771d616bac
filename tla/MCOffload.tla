------------------------------ MODULE MCOffload ------------------------------
(***************************************************************************)
(* Two processes, or one and the main program, that submit, cancel, close, *)
(* interrupt and wait as they like, on a pool of one or two workers.       *)
(***************************************************************************)
EXTENDS Realtime, MCFloats

Pool(backend, worker, workers) == [backend |-> backend, worker |-> worker, workers |-> workers]
Solo == Pool("auto", "none", 1)
Pair == Pool("threads", "none", 2)
Within == Pool("auto", "processes", 2)               \* inline
Refused == Pool("processes", "interpreters", 2)

Use(procs, where, paced, menu, outcomes, calls, runs) ==
    [sim |-> IF procs = 1 THEN Spawned(NewSim) ELSE Spawned(Spawned(NewSim)),
     may |-> [menu |-> menu, calls |-> calls, runs |-> runs, paced |-> paced,
              outcomes |-> outcomes] @@ where]

Both == {"result", "error"}
Racing   == Use(2, Pair, "no", {"strict", "nonstrict", "cancel"}, Both, 2, 1)
Leaving  == Use(2, Solo, "no", {"nonstrict", "interrupt"}, {"error"}, 2, 1)
Leaving2 == Use(2, Solo, "no", {"strict", "interrupt"}, {"error"}, 3, 1)
Closing  == Use(1, Solo, "no", {"main", "strict", "nonstrict", "close", "time"}, {"result"}, 3, 2)
Slots    == Use(1, Solo, "no", {"strict", "cancel", "until"}, Both, 3, 2)
Inner    == Use(1, Within, "no", {"strict", "nonstrict", "cancel"}, Both, 3, 1)
Poolless == Use(1, Refused, "no", {"strict", "nonstrict"}, Both, 1, 1)
Paced    == Use(1, Solo, "strict", {"nonstrict", "timeout", "strict"}, {"result"}, 2, 1)
Lenient  == Use(1, Solo, "lax", {"timeout", "strict"}, {"result"}, 2, 2)

\* In Coarse arithmetic a bound of 10, met at time 1, is delivered at 8.
MCDelays == {10}
MCStops == {1, 10}
MCCasts == {Racing, Leaving, Leaving2, Closing, Slots, Inner, Poolless, Paced, Lenient}
=============================================================================
