------------------------------ MODULE MCKernel ------------------------------
(***************************************************************************)
(* What the main program of the `kernel` runs sets up, and what its        *)
(* processes then may do: each cast exercises one hard interplay.          *)
(***************************************************************************)
EXTENDS KernelInvariant, MCFloats

Plain(s) == Create(s, NewEvent("event"))
Play(s, menu, calls, runs) == [sim |-> s, may |-> [menu |-> menu, calls |-> calls, runs |-> runs]]

One == Spawned(Plain(Plain(NewSim)))                    \* two events, a process
Duo == Spawned(Spawned(Plain(NewSim)))                  \* an event, two processes
Trio == Spawned(Duo)
\* all_of(1, 2) = 3, an event 4, any_of(3, 4) = 5, two processes
Nest == Spawned(Spawned(
    Combine(Plain(Combine(Plain(Plain(NewSim)), "all", <<1, 2>>)), "any", <<3, 4>>)))

Interrupts  == Play(Trio, {"interrupt", "ok"}, 3, 1)
Halts       == Play(Duo, {"main", "interrupt", "ok", "failed", "until", "time", "wrong"}, 3, 2)
Faults      == Play(Duo, {"event", "failed", "chain", "die", "until"}, 3, 2)
Chains      == Play(Plain(One), {"failed", "ok", "chain"}, 4, 1)
Clock       == Play(Duo, {"timeout", "interrupt", "time"}, 4, 2)
Births      == Play(One, {"spawn", "interrupt", "wrong"}, 2, 2)
Conditions1 == Play(One, {"condition", "ok", "failed"}, 3, 1)
Conditions2 == Play(Nest, {"ok", "failed", "interrupt"}, 2, 1)

MCDelays == {1}
MCStops == {1, 2, 10}
MCCasts == {Interrupts, Halts, Faults, Chains, Clock, Births, Conditions1, Conditions2}

\* The hypothesis of FiresWhenItHoldsTheorem.
ASSUME CastsMeetHypothesis == ConditionsApart

\* The casts of the run `nested`.
NestedOnly == {Play(Nest, {"ok"}, 3, 1)}
=============================================================================
