---------------------------- MODULE MCResources ----------------------------
(***************************************************************************)
(* One resource of each kind, and a preemptive one with two slots; up to   *)
(* three processes use it as they like.                                    *)
(***************************************************************************)
EXTENDS Resources, MCFloats

Crew(n) == CASE n = 1 -> Spawned(NewSim)
             [] n = 2 -> Spawned(Spawned(NewSim))
             [] n = 3 -> Spawned(Spawned(Spawned(NewSim)))
Use(n, resource, menu, puts, gets, calls) ==
    [sim |-> Crew(n), res |-> resource,
     may |-> [menu |-> menu, calls |-> calls, runs |-> 1, puts |-> puts, gets |-> gets]]

Servers    == Use(3, NewResource("resource", 1, 0), {"put", "with", "release", "cancel"}, {<<0, FALSE>>}, {}, 4)
Ranked     == Use(3, NewResource("priority", 1, 0), {"put", "with"}, {<<0, FALSE>>, <<1, TRUE>>}, {}, 4)
Bumping    == Use(2, NewResource("preemptive", 1, 0), {"put", "with", "timeout"}, {<<0, TRUE>>, <<1, FALSE>>, <<1, TRUE>>}, {}, 4)
TwoSlots   == Use(1, NewResource("preemptive", 2, 0), {"put", "release"}, {<<0, FALSE>>, <<1, TRUE>>, <<2, FALSE>>}, {}, 5)
Tank       == Use(2, NewResource("container", 3, 1), {"put", "get", "cancel"}, {<<1, FALSE>>, <<2, FALSE>>}, {1, 3}, 4)
Shelf      == Use(2, NewResource("store", 1, 0), {"put", "get"}, {<<1, FALSE>>}, {0}, 5)
Heap       == Use(2, NewResource("prioritystore", 2, 0), {"put", "get"}, {<<1, FALSE>>, <<2, FALSE>>}, {0}, 4)
Sieve      == Use(2, NewResource("filterstore", 2, 0), {"put", "get"}, {<<1, FALSE>>, <<2, FALSE>>}, {0, 2}, 4)

MCDelays == {1}
MCCasts == {Servers, Ranked, Bumping, TwoSlots, Tank, Shelf, Heap, Sieve}
=============================================================================
