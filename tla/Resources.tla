----------------------------- MODULE Resources -----------------------------
(***************************************************************************)
(* One shared resource of a Sim and the processes that use it: the queue   *)
(* machine of resources/base.py with the disciplines of resource.py,       *)
(* container.py and store.py.                                              *)
(*                                                                         *)
(* A request is an event of the Kernel.  Creating one serves its queue at  *)
(* once; processing a granted put serves the gets, and the reverse.  The   *)
(* operators take and return a world: the Sim, the resource, and whether   *)
(* the call has raised.                                                    *)
(***************************************************************************)
EXTENDS Kernel

VARIABLE res       \* the resource, see NewResource

vars == <<sim, control, step, run, cast, ghost, res>>

Kinds == {"resource", "priority", "preemptive", "container",
          "store", "prioritystore", "filterstore"}

\* asks: what each request is about, by event; the rest are the code's fields.
\* initial, gone, skipped, mishap: history - the first level, the requests
\* cancelled, whether a cancel left the queue unserved, whether a preemption
\* failed half-way.
NewResource(kind, capacity, level) ==
    [kind |-> kind, capacity |-> capacity, level |-> level, initial |-> level,
     users |-> <<>>, items |-> <<>>, putQueue |-> <<>>, getQueue |-> <<>>,
     asks |-> <<>>, gone |-> {}, skipped |-> FALSE, mishap |-> FALSE]

RequestTypes == {"put", "get"}

\* What the constructors of the resource and of the requests validate: capacity
\* and amounts are positive, the first level fits; nothing has been asked yet.
\* puts: pairs of a priority, an amount or an item, and preempt; gets: amounts,
\* or filters.
ASSUME ResourceAssumption ==
    \A c \in Casts :
        /\ c.res.kind \in Kinds /\ c.res.capacity \in Nat \ {0}
        /\ c.res.level \in 0 .. c.res.capacity
        /\ c.res = NewResource(c.res.kind, c.res.capacity, c.res.level)
        /\ \A e \in DOMAIN c.sim.events : c.sim.events[e].type \notin RequestTypes
        /\ {"puts", "gets"} \subseteq DOMAIN c.may
        /\ \A p \in c.may.puts : p[1] \in Int /\ p[2] \in BOOLEAN
        /\ c.may.gets \subseteq Int
        /\ c.res.kind = "container" =>
              c.may.gets \subseteq Nat \ {0} /\ \A p \in c.may.puts : p[1] \in Nat \ {0}

Slots(r) == r.kind \in {"resource", "priority", "preemptive"}
Sorted(r) == r.kind \in {"priority", "preemptive"}

World(s, r) == [sim |-> s, res |-> r, raised |-> FALSE]
Grant(w, e) == [w EXCEPT !.sim = Trigger(@, e, "ok")]
Granted(w, e) == w.sim.events[e].state = "ok"

\* PriorityRequest.key: priority, time of the request, preempting ones first.
KeyLess(a, b) ==
    \/ a.n < b.n
    \/ a.n = b.n /\ a.time < b.time
    \/ a.n = b.n /\ a.time = b.time /\ a.preempt /\ ~b.preempt

\* max(users, key=...): the first of the holders with the largest key.
Weakest(r) ==
    r.users[CHOOSE i \in DOMAIN r.users :
        \A j \in DOMAIN r.users :
            /\ ~KeyLess(r.asks[r.users[i]], r.asks[r.users[j]])
            /\ j < i => KeyLess(r.asks[r.users[j]], r.asks[r.users[i]])]

\* Mutant: the holder is removed and not told.
PreemptSilently(w, e) ==
    LET r == w.res IN
    IF \/ Len(r.users) < r.capacity \/ ~r.asks[e].preempt
       \/ ~KeyLess(r.asks[e], r.asks[Weakest(r)])
    THEN w ELSE [w EXCEPT !.res.users = RemoveFirst(@, Weakest(r))]

\* PreemptiveResource._do_put: the holder is removed, then interrupted.
Preempt(w, e) ==
    LET r      == w.res
        victim == Weakest(r)
        proc   == r.asks[victim].proc
        bumped == [w EXCEPT !.res.users = RemoveFirst(@, victim)]
    IN  IF \/ Len(r.users) < r.capacity \/ ~r.asks[e].preempt
           \/ ~KeyLess(r.asks[e], r.asks[victim])
        THEN w
        ELSE IF proc # None /\ MayInterrupt(w.sim, proc)
        THEN [bumped EXCEPT !.sim = Interrupted(@, proc)]
        ELSE [bumped EXCEPT !.raised = TRUE, !.res.mishap = TRUE]

\* _do_put of the resources, the container and the stores.
TakeSlot(w, e) ==
    IF w.raised \/ Len(w.res.users) >= w.res.capacity THEN w
    ELSE Grant([w EXCEPT !.res.users = Append(@, e)], e)
Fill(w, e) ==
    IF w.res.capacity - w.res.level < w.res.asks[e].n THEN w
    ELSE Grant([w EXCEPT !.res.level = @ + w.res.asks[e].n], e)
AddItem(w, e) ==
    IF Len(w.res.items) >= w.res.capacity THEN w
    ELSE Grant([w EXCEPT !.res.items = Append(@, w.res.asks[e].n)], e)

DoPut(w, e) ==
    CASE w.res.kind = "preemptive" -> TakeSlot(Preempt(w, e), e)
      [] w.res.kind \in {"resource", "priority"} -> TakeSlot(w, e)
      [] w.res.kind = "container" -> Fill(w, e)
      [] OTHER -> AddItem(w, e)

\* The item a get is handed, as a position in items: the oldest, the smallest,
\* or the oldest that passes the filter (0 lets everything pass).
Eligible(r, n) ==
    CASE r.kind = "store" -> {1} \cap DOMAIN r.items
      [] r.kind = "prioritystore" ->
            {i \in DOMAIN r.items : \A j \in DOMAIN r.items :
                r.items[i] < r.items[j] \/ (r.items[i] = r.items[j] /\ i <= j)}
      [] OTHER ->
            {i \in DOMAIN r.items : /\ n \in {0, r.items[i]}
                                    /\ \A j \in 1 .. i - 1 : n \notin {0, r.items[j]}}

\* _do_get of the resources (releasing always succeeds), the container and
\* the stores.
FreeSlot(w, e) == Grant([w EXCEPT !.res.users = RemoveFirst(@, w.res.asks[e].of)], e)
Draw(w, e) ==
    IF w.res.level < w.res.asks[e].n THEN w
    ELSE Grant([w EXCEPT !.res.level = @ - w.res.asks[e].n], e)
HandOver(w, e) ==
    LET chosen == Eligible(w.res, w.res.asks[e].n)
    IN  IF chosen = {} THEN w
        ELSE Grant([w EXCEPT !.res.items = RemoveAt(@, CHOOSE i \in chosen : TRUE)], e)

DoGet(w, e) ==
    CASE Slots(w.res) -> FreeSlot(w, e)
      [] w.res.kind = "container" -> Draw(w, e)
      [] OTHER -> HandOver(w, e)

\* _do_put or _do_get; what is granted leaves its queue.
Serve(w, type, e) ==
    LET v == IF type = "put" THEN DoPut(w, e) ELSE DoGet(w, e)
    IN  IF ~Granted(v, e) THEN v
        ELSE IF type = "put" THEN [v EXCEPT !.res.putQueue = RemoveFirst(@, e)]
        ELSE [v EXCEPT !.res.getQueue = RemoveFirst(@, e)]

\* What _do_put and _do_get return: whether others may be served as well.
GoesOn(w, type, e) ==
    \/ w.res.kind = "container" /\ Granted(w, e)
    \/ w.res.kind = "filterstore" /\ type = "get"

\* _trigger_put and _trigger_get: serve the queue from its head on.
Served(w, type) ==
    LET queue == IF type = "put" THEN w.res.putQueue ELSE w.res.getQueue
        upTo[i \in 0 .. Len(queue)] ==
            IF i = 0 THEN [w |-> w, stop |-> FALSE]
            ELSE LET past == upTo[i - 1]
                     next == Serve(past.w, type, queue[i])
                 IN  IF past.stop THEN past
                     ELSE [w |-> next,
                           stop |-> next.raised \/ ~GoesOn(next, type, queue[i])]
    IN  upTo[Len(queue)].w

TriggerPut(w) == Served(w, "put")
TriggerGet(w) == Served(w, "get")

\* Mutant: bisect.insort_left, ahead of equal keys.
EnqueueLeft(r, queue, e) ==
    LET ahead == {i \in DOMAIN queue : KeyLess(r.asks[queue[i]], r.asks[e])}
    IN  IF Sorted(r) THEN InsertAt(queue, Cardinality(ahead) + 1, e)
        ELSE Append(queue, e)

\* list.append, or SortedQueue.append (bisect.insort: behind equal keys).
Enqueue(r, queue, e) ==
    LET ahead == {i \in DOMAIN queue : ~KeyLess(r.asks[e], r.asks[queue[i]])}
    IN  IF Sorted(r) THEN InsertAt(queue, Cardinality(ahead) + 1, e)
        ELSE Append(queue, e)

\* The request e is about ask.
Asking(asks, e, ask) ==
    [f \in DOMAIN asks \cup {e} |-> IF f = e THEN ask ELSE asks[f]]

NewAsk(s, n, preempt, of) ==
    [n |-> n, preempt |-> preempt, of |-> of, proc |-> s.active, time |-> s.now]

\* Mutant: the other queue is not served when the grant is processed.
AskedAlone(s, r, type, ask, call) ==
    World(Create(s, NewEvent(type)), [r EXCEPT !.asks = Asking(@, Fresh(s), ask)])

Asked(s, r, type, ask, call) ==
    World(Create(s, [NewEvent(type) EXCEPT !.callbacks = <<Call(call, None)>>]),
          [r EXCEPT !.asks = Asking(@, Fresh(s), ask)])

\* Put.__init__ with the constructors of its subclasses.
NewPut(s, r, n, preempt) ==
    LET w == Asked(s, r, "put", NewAsk(s, n, preempt, None), "get")
    IN  TriggerPut([w EXCEPT !.res.putQueue = Enqueue(w.res, @, Fresh(s))])

\* Get.__init__ with the constructors of its subclasses; of: what is released.
NewGet(s, r, n, of) ==
    LET w == Asked(s, r, "get", NewAsk(s, n, FALSE, of), "put")
    IN  TriggerGet([w EXCEPT !.res.getQueue = Append(@, Fresh(s))])

\* Mutant: a put stays in its queue.
CancelledHalf(r, e) == [r EXCEPT !.getQueue = RemoveFirst(@, e), !.gone = @ \cup {e}]

\* Put.cancel, Get.cancel: nobody is served in the place of the cancelled.
Cancelled(r, e) ==
    [r EXCEPT !.putQueue = RemoveFirst(@, e), !.getQueue = RemoveFirst(@, e),
              !.gone = @ \cup {e}]

-----------------------------------------------------------------------------
(* What the processes do. *)

Takes(w) ==
    /\ sim' = w.sim /\ res' = w.res
    /\ cast' = [cast EXCEPT !.calls = @ - 1]
    /\ UNCHANGED <<control, step, run, ghost>>

AskPut ==
    /\ May("put")
    /\ \E p \in cast.puts : Takes(NewPut(sim, res, p[1], p[2]))

AskGet ==
    /\ May("get") /\ ~Slots(res)
    /\ \E n \in cast.gets : Takes(NewGet(sim, res, n, None))

Requests == {e \in DOMAIN sim.events : sim.events[e].type = "put"}
Waits(e) == e \in Range(res.putQueue) \cup Range(res.getQueue)
Own(e) == res.asks[e].proc \in {None, control}

Release ==
    /\ May("release") /\ Slots(res)
    /\ \E e \in Requests : Own(e) /\ Takes(NewGet(sim, res, 0, e))

Cancel ==
    /\ May("cancel")
    /\ \E e \in DOMAIN res.asks :
          Own(e) /\ Waits(e)
              /\ Takes(World(sim, [Cancelled(res, e) EXCEPT !.skipped = TRUE]))

\* Request.__exit__: cancel what still waits, then release in any case; for a
\* request cancelled before, list.remove raises and nothing happens.
LeaveWith ==
    /\ May("with") /\ Slots(res)
    /\ \E e \in Requests :
          /\ Own(e) /\ e \notin res.gone
          /\ Takes(NewGet(sim, IF Waits(e) THEN Cancelled(res, e) ELSE res, 0, e))

\* The callbacks _trigger_put and _trigger_get; a refused interrupt is raised
\* out of the step.
ServePuts ==
    /\ Turn("put")
    /\ LET w == TriggerPut(World(sim, res))
       IN  /\ res' = w.res
           /\ IF w.raised THEN Cut(w.sim, Tail(step.rest), {}, "raised") ELSE Done(w.sim)

ServeGets ==
    /\ Turn("get")
    /\ LET w == TriggerGet(World(sim, res)) IN res' = w.res /\ Done(w.sim)

\* A process waits for its own requests and for timeouts.
YieldOwn ==
    \E e \in DOMAIN sim.events :
        /\ sim.events[e].type = "timeout" \/ (e \in DOMAIN res.asks /\ Own(e))
        /\ YieldOn(e)

Init == \E c \in Casts : Start(c) /\ res = c.res

Next ==
    \/ AskPut \/ AskGet \/ Release \/ Cancel \/ LeaveWith \/ ServePuts \/ ServeGets
    \/ (UserNext \/ YieldOwn \/ LoopNext) /\ UNCHANGED res

Spec == Init /\ [][Next]_vars

-----------------------------------------------------------------------------
(* Properties. *)

\* The requests of a type that have been granted, and their amounts in all.
GrantedOf(s, type) ==
    {e \in DOMAIN s.events : s.events[e].type = type /\ s.events[e].state = "ok"}
Amounts(s, r, type) ==
    [e \in DOMAIN s.events |-> IF e \in GrantedOf(s, type) THEN r.asks[e].n ELSE 0]
Total(amounts) ==
    LET upTo[i \in 0 .. Len(amounts)] == IF i = 0 THEN 0 ELSE upTo[i - 1] + amounts[i]
    IN  upTo[Len(amounts)]

\* Capacity and conservation: nothing is granted twice, taken before it was
\* put, lost between the queues, the holders, the level and the items, or
\* served after it was cancelled (the stale waiter of Put.cancel).
Conserved ==
    LET Puts == GrantedOf(sim, "put")
        Gets == GrantedOf(sim, "get")
    IN
    /\ IsInjective(res.users) /\ Len(res.users) <= res.capacity
    /\ Range(res.users) \subseteq Puts
    /\ \A e \in DOMAIN res.asks :
          /\ Waits(e) <=> sim.events[e].state = "pending" /\ e \notin res.gone
          /\ e \in res.gone => sim.events[e].state = "pending" /\ e \notin Range(res.users)
    /\ CASE Slots(res) -> TRUE
         [] res.kind = "container" ->
               /\ res.level = res.initial + Total(Amounts(sim, res, "put"))
                                          - Total(Amounts(sim, res, "get"))
               /\ res.level \in 0 .. res.capacity
         [] OTHER -> /\ Len(res.items) = Cardinality(Puts) - Cardinality(Gets)
                     /\ Len(res.items) <= res.capacity

\* Requests are granted in the order of the discipline: whoever is left waiting
\* comes behind everyone who is granted, by age or by key.
Ahead(e, f) ==
    LET a == res'.asks[e]
        b == res'.asks[f]
    IN  IF Sorted(res) /\ (KeyLess(a, b) \/ KeyLess(b, a)) THEN KeyLess(a, b) ELSE e < f

GrantsInOrder ==
    [][ LET Now(type) == {e \in DOMAIN res'.asks :
                            /\ sim'.events[e].type = type /\ sim'.events[e].state = "ok"
                            /\ e \notin GrantedOf(sim, type)}
        IN  /\ \A e \in Now("put"), f \in Range(res'.putQueue) : Ahead(e, f)
            /\ res.kind # "filterstore" =>
                  \A e \in Now("get"), f \in Range(res'.getQueue) : e < f ]_vars

\* No request waits that could be granted: when no grant or release is on its
\* way to be processed, serving the queues again would grant nothing.  A bare
\* cancel() and a failed preemption void this; leaving the with block of a
\* Request does not (BaseResource._trigger_put, _trigger_get).  With several
\* slots a request that could bump a holder may be left waiting: it was not at
\* the head when the holder came to be the weakest it could bump, and the grant
\* of the one ahead of it serves no puts.
Unbumping(r) ==
    IF r.kind = "preemptive" /\ r.capacity > 1 THEN [r EXCEPT !.kind = "priority"] ELSE r

NobodyStranded ==
    LET Settled == \A i \in DOMAIN sim.queue :
                      LET task == sim.queue[i].task IN
                      task.do = "event" => sim.events[task.of].type \notin RequestTypes
        w       == World(sim, Unbumping(res))
    IN  step.task = NoTask /\ Settled /\ ~res.skipped /\ ~res.mishap
            => TriggerPut(w) = w /\ TriggerGet(w) = w

\* A holder loses its slot by its own release, or hears of it: the very step that
\* takes the slot schedules an interruption of its process, whatever others it
\* has coming (PreemptiveResource._do_put).
LosersHear ==
    [][ \A e \in Range(res.users) \ Range(res'.users) :
          \/ \E f \in DOMAIN sim'.events \ DOMAIN sim.events : res'.asks[f].of = e
          \/ \E i \in DOMAIN sim'.queue \ DOMAIN sim.queue :
                sim'.queue[i].task = Call("interrupt", res.asks[e].proc)
          \/ res'.mishap ]_vars

=============================================================================
