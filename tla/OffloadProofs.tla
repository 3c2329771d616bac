---------------------------- MODULE OffloadProofs ----------------------------
(***************************************************************************)
(* The offload pool and its two run loops: whatever is submitted, cancelled *)
(* or closed, however fast the workers and the wall clock are, and for      *)
(* every number of them, offloads come when they are due with what their    *)
(* payloads computed, none is dropped, and a paced run is never early.      *)
(***************************************************************************)
EXTENDS Realtime, KernelProofs

-----------------------------------------------------------------------------
(* The inductive invariant.                                                 *)

JobType ==
  [strict : BOOLEAN, due : Times, future : {"queued", "running", "done", "cancelled"},
   outcome : Outcomes, abandoned : BOOLEAN, value : {"nothing"} \cup Outcomes]

Open(job) == job.value = "nothing" /\ ~ job.abandoned
OpenJobs(p, strict) == {e \in DOMAIN p.jobs : p.jobs[e].strict = strict /\ Open(p.jobs[e])}

OwnCall == Call("resolve", None)

JobOK(s, p, e) ==
  LET job == p.jobs[e] IN
  /\ job.value # "nothing" => ~ job.abandoned /\ job.future = "done" /\ job.value = job.outcome
  /\ job.abandoned => s.events[e].state = "ok"
  /\ job.future = "cancelled" => job.abandoned
  /\ s.events[e].state # "pending" => s.events[e].processed \/ Due(s, Call("event", e))
  /\ \A i \in DOMAIN s.queue : s.queue[i].task = Call("event", e) =>
       IF job.strict THEN s.queue[i].at = job.due ELSE InTime(s.queue[i].at, job.due)
  /\ job.strict => /\ s.events[e].state # "pending"
                   /\ ~ s.events[e].processed =>
                        job.value = "nothing" /\ Leads(OwnCall, s.events[e].callbacks)
  /\ ~ job.strict => (s.events[e].state = "pending" <=> Open(job))

PoolFields(p) ==
  p \in [mode : {p.mode}, closed : BOOLEAN, workers : Nat \ {0}, pending : Seq(Nat),
         live : SUBSET Nat, jobs : {p.jobs}, walk : Seq(Nat)]

PoolOK(s, p) ==
  /\ PoolFields(p)
  /\ p.jobs \in [DOMAIN p.jobs -> JobType]
  /\ DOMAIN p.jobs = {e \in DOMAIN s.events : s.events[e].type = "offload"}
  /\ \A e \in DOMAIN p.jobs : JobOK(s, p, e)
  /\ p.live = OpenJobs(p, TRUE) /\ Range(p.pending) = OpenJobs(p, FALSE)
  /\ IsInjective(p.pending)
  /\ p.closed => OpenJobs(p, TRUE) = {} /\ OpenJobs(p, FALSE) = {}

WalkOK ==
  /\ pool.walk # <<>> => Idle
  /\ Range(pool.walk) \subseteq Range(pool.pending) /\ IsInjective(pool.walk)

Delivering ==
  \A e \in Jobs : pool.jobs[e].strict /\ Open(pool.jobs[e]) /\ sim.events[e].processed =>
     /\ control = Loop /\ step.task = Call("event", e)
     /\ step.rest # <<>> /\ Head(step.rest) = OwnCall

UseOK ==
  /\ {"calls", "runs", "menu", "outcomes"} \subseteq DOMAIN cast
  /\ cast.outcomes \subseteq Outcomes /\ "result" \in DOMAIN run
  /\ \A e \in Jobs : ~ pool.jobs[e].strict => "nonstrict" \in cast.menu

OffloadInv == SimOK(sim) /\ StepOK /\ PoolOK(sim, pool) /\ WalkOK /\ Delivering /\ UseOK

PaceFields(p) ==
  p \in [on : BOOLEAN, strict : BOOLEAN, wall : Int, origin : Int, start : Int, ready : BOOLEAN,
         begun : [origin : Int, start : Int]]

\* Neither where the clocks are pinned nor where they stand is ahead of the
\* line through the run's beginning.
PinnedLate(p) == p.origin # Infinity => p.start >= p.begun.start + (p.origin - p.begun.origin) * Factor
OnLine(p, now) == now # Infinity => p.wall >= p.begun.start + (now - p.begun.origin) * Factor

Awaited(i) == sim.queue[i].at # Infinity => pace.wall >= Deadline(i)

PaceOK ==
  /\ PaceFields(pace)
  /\ pace.on => PinnedLate(pace)
  /\ pace.on /\ control # Main => OnLine(pace, sim.now)
  /\ pace.origin = Infinity => sim.now = Infinity
  /\ pace.ready => /\ Idle /\ Polled /\ sim.queue # <<>>
                   /\ \A i \in DOMAIN sim.queue : IsNext(sim.queue, i) => Awaited(i)

-----------------------------------------------------------------------------
(* A sequence in which nothing comes twice.                                 *)

LEMMA InjectiveOnce ==
  ASSUME NEW S, NEW a \in Seq(S)
  PROVE  IsInjective(a) <=> \A c : Occurrences(c, a) = {} \/ Single(Occurrences(c, a))
<1>1. ASSUME IsInjective(a), NEW c, Occurrences(c, a) # {} PROVE Single(Occurrences(c, a))
  <2>1. PICK i : i \in Occurrences(c, a)
    BY <1>1
  <2>2. \A j \in Occurrences(c, a) : j = i
    BY <1>1, <2>1 DEF Occurrences, IsInjective
  <2>3. Occurrences(c, a) = {i}
    BY <2>1, <2>2
  <2> QED BY <2>1, <2>3 DEF Single
<1>2. ASSUME \A c : Occurrences(c, a) = {} \/ Single(Occurrences(c, a)),
             NEW i \in DOMAIN a, NEW j \in DOMAIN a, a[i] = a[j]
      PROVE  i = j
  <2>1. PICK c : c = a[i]
    OBVIOUS
  <2>2. i \in Occurrences(c, a) /\ j \in Occurrences(c, a)
    BY <1>2, <2>1 DEF Occurrences
  <2>3. Single(Occurrences(c, a))
    BY <1>2, <2>2
  <2> QED BY <2>2, <2>3 DEF Single
<1> QED BY <1>1, <1>2 DEF IsInjective

LEMMA RemoveMember ==
  ASSUME NEW S, NEW a \in Seq(S), IsInjective(a), NEW x \in S
  PROVE  /\ RemoveFirst(a, x) \in Seq(S) /\ IsInjective(RemoveFirst(a, x))
         /\ Range(RemoveFirst(a, x)) = Range(a) \ {x}
<1>1. PICK b : b = RemoveFirst(a, x)
  OBVIOUS
<1>2. /\ b \in Seq(S) /\ Range(b) \subseteq Range(a)
      /\ \A call : /\ x # call => Same(call, a, b)
                   /\ Occurrences(call, a) = {} => Occurrences(call, b) = {}
                   /\ x = call /\ Single(Occurrences(call, a)) => Occurrences(call, b) = {}
  BY <1>1, RemoveFirstCall
<1>3. \A c : Occurrences(c, a) = {} \/ Single(Occurrences(c, a))
  BY InjectiveOnce
<1>4. Occurrences(x, b) = {}
  BY <1>2, <1>3
<1>5. \A c : Occurrences(c, b) = {} \/ Single(Occurrences(c, b))
  BY <1>2, <1>3, <1>4 DEF Same
<1>6. IsInjective(b)
  BY <1>2, <1>5, InjectiveOnce
<1>7. x \notin Range(b)
  BY <1>2, <1>4, OccurrencesOfCalls
<1>8. \A c \in Range(a) \ {x} : c \in Range(b)
  BY <1>2 DEF Same
<1>9. Range(b) = Range(a) \ {x}
  BY <1>2, <1>7, <1>8
<1> QED BY <1>1, <1>2, <1>6, <1>9

LEMMA TailMember ==
  ASSUME NEW S, NEW a \in Seq(S), IsInjective(a), a # <<>>
  PROVE  /\ Head(a) \in S /\ Head(a) \in Range(a) /\ Tail(a) \in Seq(S) /\ IsInjective(Tail(a))
         /\ Range(Tail(a)) \subseteq Range(a) \ {Head(a)}
<1>1. PICK b : b = Tail(a)
  OBVIOUS
<1>2. /\ b \in Seq(S) /\ Head(a) \in S /\ Head(a) \in Range(a) /\ Range(b) \subseteq Range(a)
      /\ \A call : /\ Head(a) # call => Same(call, a, b)
                   /\ Occurrences(call, a) = {} => Occurrences(call, b) = {}
                   /\ Head(a) = call /\ Single(Occurrences(call, a)) => Occurrences(call, b) = {}
  BY <1>1, TailCall
<1>3. \A c : Occurrences(c, a) = {} \/ Single(Occurrences(c, a))
  BY InjectiveOnce
<1>4. Occurrences(Head(a), b) = {}
  BY <1>2, <1>3
<1>5. \A c : Occurrences(c, b) = {} \/ Single(Occurrences(c, b))
  BY <1>2, <1>3, <1>4 DEF Same
<1>6. IsInjective(b)
  BY <1>2, <1>5, InjectiveOnce
<1>7. Head(a) \notin Range(b)
  BY <1>2, <1>4, OccurrencesOfCalls
<1> QED BY <1>1, <1>2, <1>6, <1>7

LEMMA AppendMember ==
  ASSUME NEW S, NEW a \in Seq(S), IsInjective(a), NEW x \in S, x \notin Range(a)
  PROVE  /\ Append(a, x) \in Seq(S) /\ IsInjective(Append(a, x))
         /\ Range(Append(a, x)) = Range(a) \cup {x}
<1>1. PICK b : b = Append(a, x)
  OBVIOUS
<1>2. /\ b \in Seq(S) /\ Range(b) = Range(a) \cup {x}
      /\ \A call : /\ x # call => Occurrences(call, b) = Occurrences(call, a)
                   /\ x = call /\ Occurrences(call, a) = {} => Single(Occurrences(call, b))
  BY <1>1, AppendCall
<1>3. \A c : Occurrences(c, a) = {} \/ Single(Occurrences(c, a))
  BY InjectiveOnce
<1>4. Occurrences(x, a) = {}
  BY OccurrencesOfCalls
<1>5. \A c : Occurrences(c, b) = {} \/ Single(Occurrences(c, b))
  BY <1>2, <1>3, <1>4
<1>6. IsInjective(b)
  BY <1>2, <1>5, InjectiveOnce
<1> QED BY <1>1, <1>2, <1>6

-----------------------------------------------------------------------------
(* The Sim when an offload is settled.                                      *)

\* The outcome of e is put into it, and nothing else is touched.
LEMMA SettledSim ==
  ASSUME NEW s, SimOK(s), NEW e \in DOMAIN s.events, NEW r \in EventType,
         r.type = s.events[e].type, r.members = s.events[e].members, r.target = s.events[e].target,
         r.processed = s.events[e].processed, r.callbacks = s.events[e].callbacks,
         r.state # "pending", NEW t, t = Put(s, e, r)
  PROVE  /\ SimOK(t) /\ Only(s, t, e) /\ t.events[e] = r /\ Aside(s, t, {e}) /\ t.active = s.active
<1>1. EventOK(s, e)
  BY DEF SimOK
<1>2. \A i \in DOMAIN r.callbacks : CallOK(s, e, r.callbacks[i])
  BY <1>1 DEF EventOK
<1>3. r.target \in {None} \cup DOMAIN s.events
  BY <1>1 DEF EventOK
<1>4. r.processed => r.callbacks = <<>> /\ r.state # "pending"
  BY <1>1 DEF EventOK
<1>5. /\ SimOK(t) /\ DOMAIN t.events = DOMAIN s.events /\ t.events[e] = r
      /\ \A f \in DOMAIN s.events \ {e} : t.events[f] = s.events[f]
      /\ t.now = s.now /\ t.queue = s.queue /\ t.active = s.active
  BY <1>2, <1>3, <1>4, ReplaceEvent
<1>6. Only(s, t, e)
  BY <1>5 DEF Only
<1>7. \A f \in DOMAIN s.events :
        /\ t.events[f].type = s.events[f].type /\ t.events[f].members = s.events[f].members
        /\ t.events[f].processed = s.events[f].processed
        /\ f \notin {e} /\ Reserved(s, f) =>
             /\ t.events[f].state = s.events[f].state
             /\ Follows(s.events[f].callbacks, t.events[f].callbacks)
  BY <1>5, FollowsSame
<1>8. Aside(s, t, {e})
  BY <1>5, <1>7, AsideEvents
<1> QED BY <1>5, <1>6, <1>8

\* It is put into the schedule.
LEMMA ScheduledSim ==
  ASSUME NEW s, SimOK(s), NEW e \in DOMAIN s.events, s.events[e].state # "pending", NEW d \in Times,
         NEW t, t = Schedule(s, Call("event", e), NORMAL, d)
  PROVE  /\ SimOK(t) /\ t.events = s.events /\ t.now = s.now /\ Aside(s, t, {e})
         /\ t.queue = Append(s.queue, [at |-> Plus(s.now, d), prio |-> NORMAL, task |-> Call("event", e)])
<1>1. s \in SimType /\ e \in Nat
  BY SimFields DEF SimOK
<1>2. Call("event", e) \in CallType /\ Call("event", e).do = "event" /\ Call("event", e).of = e
  BY <1>1, EventCall DEF Call
<1>3. PICK task : task = Call("event", e)
  OBVIOUS
<1>4. PICK entry : entry = [at |-> Plus(s.now, d), prio |-> NORMAL, task |-> task]
  OBVIOUS
<1>5. entry \in EntryType /\ entry.at >= s.now /\ entry.prio = NORMAL /\ entry.task = task
  BY <1>1, <1>2, <1>3, <1>4, EntryFits
<1>6. EntryOK(s, entry) /\ entry.task.do # "start"
  BY <1>2, <1>3, <1>5 DEF EntryOK
<1>7. t = [s EXCEPT !.queue = Append(@, entry)]
  BY <1>3, <1>4 DEF Schedule
<1>8. SimOK(t) /\ t.events = s.events /\ t.now = s.now /\ t.queue = Append(s.queue, entry)
  <2>1. entry.task.do = "start" =>
          \A i \in DOMAIN s.queue : s.queue[i].task # Call("interrupt", entry.task.of)
    BY <1>6
  <2>2. PICK u : u = [s EXCEPT !.queue = Append(@, entry)]
    OBVIOUS
  <2>3. SimOK(u) /\ u.events = s.events /\ u.now = s.now /\ u.queue = Append(s.queue, entry)
    BY ONLY SimOK(s), <1>5, <1>6, <2>1, <2>2, AddEntry, ZenonT(60)
  <2> QED BY ONLY <1>7, <2>2, <2>3
<1>9. \A f \in DOMAIN s.events \ {e} : entry.task = Call("event", f) => ~ Reserved(s, f)
  BY <1>3, <1>5 DEF Call
<1>10. Aside(s, t, {e})
  BY <1>5, <1>6, <1>7, <1>9, AsideEntry
<1> QED BY <1>3, <1>4, <1>8, <1>10

LEMMA StopsAtOnce ==
  ASSUME NEW due \in Times
  PROVE  StopTime(due, due) \in Nat /\ StopTime(due, due) <= due
<1>1. due \in Nat /\ due <= Infinity /\ Infinity \in Nat /\ due - due = 0 /\ 0 \in Times
  BY TimeAssumption, TimesAreNatural DEF Times
<1>2. CASE due = Infinity
  <2>1. Round(Infinity + Infinity) \in Nat
    BY <1>1, RoundAssumption
  <2> QED BY <1>1, <1>2, <2>1 DEF StopTime, Minus, Plus
<1>3. CASE due # Infinity
  <2>1. Minus(due, due) = 0
    BY <1>1, <1>3, RoundAssumption DEF Minus
  <2> QED BY <1>1, <2>1, PlusTimes DEF StopTime
<1> QED BY <1>2, <1>3

LEMMA LaterBound ==
  ASSUME NEW now \in Times, NEW due \in Times, NEW s, s.now = now
  PROVE  Later(s, due) \in Times /\ InTime(Plus(now, Later(s, due)), due)
<1>1. now \in Nat /\ due \in Nat /\ 0 \in Times
  BY TimesAreNatural
<1>2. CASE due > now
  <2>1. Later(s, due) = Minus(due, now)
    BY <1>2 DEF Later
  <2>2. Minus(due, now) \in Times
    BY <1>1, <1>2, MinusTimes
  <2>3. Plus(now, Minus(due, now)) \in Nat
    BY <2>2, PlusTimes, TimesAreNatural
  <2> QED BY <1>1, <1>2, <2>1, <2>2, <2>3 DEF InTime, StopTime
<1>3. CASE ~ due > now
  <2>1. Later(s, due) = 0
    BY <1>3 DEF Later
  <2>2. Plus(now, 0) = now
    BY <1>1, PlusTimes
  <2>3. StopTime(due, due) \in Nat /\ StopTime(due, due) <= due
    BY StopsAtOnce
  <2>4. due <= due /\ now >= StopTime(due, due)
    BY <1>1, <1>3, <2>3
  <2> QED BY <1>1, <2>1, <2>2, <2>4 DEF InTime
<1> QED BY <1>2, <1>3

\* What has become of the event of an offload, and of its entries.
Settled(s, t, e, state, due) ==
  /\ SimOK(t) /\ Aside(s, t, {e}) /\ t.now = s.now /\ DOMAIN t.events = DOMAIN s.events
  /\ t.events[e].type = s.events[e].type /\ t.events[e].state = state
  /\ t.events[e].processed = s.events[e].processed
  /\ t.events[e].callbacks = s.events[e].callbacks
  /\ \A f \in DOMAIN s.events \ {e} : t.events[f] = s.events[f]
  /\ Due(s, Call("event", e)) \/ s.events[e].state = "pending" => Due(t, Call("event", e))
  /\ s.events[e].state # "pending" => t.queue = s.queue
  /\ \A i \in DOMAIN t.queue : t.queue[i].task = Call("event", e) =>
       (\E j \in DOMAIN s.queue : s.queue[j] = t.queue[i]) \/ InTime(t.queue[i].at, due)

LEMMA SettledFields ==
  ASSUME NEW s, NEW t, NEW e, NEW state, NEW due, Settled(s, t, e, state, due), e \in DOMAIN s.events
  PROVE  /\ SimOK(t) /\ Aside(s, t, {e}) /\ t.now = s.now /\ DOMAIN t.events = DOMAIN s.events
         /\ \A f \in DOMAIN s.events : t.events[f].processed = s.events[f].processed
<1>1. /\ SimOK(t) /\ Aside(s, t, {e}) /\ t.now = s.now /\ DOMAIN t.events = DOMAIN s.events
      /\ t.events[e].processed = s.events[e].processed
      /\ \A f \in DOMAIN s.events \ {e} : t.events[f] = s.events[f]
  BY DEF Settled
<1> QED BY <1>1

LEMMA SettledLater ==
  ASSUME NEW s, SimOK(s), NEW e \in DOMAIN s.events, NEW r \in EventType,
         r.type = s.events[e].type, r.members = s.events[e].members, r.target = s.events[e].target,
         r.processed = s.events[e].processed, r.callbacks = s.events[e].callbacks,
         r.state # "pending", NEW due \in Times, s.events[e].state = "pending",
         NEW t, t = Schedule(Put(s, e, r), Call("event", e), NORMAL, Later(s, due))
  PROVE  Settled(s, t, e, r.state, due)
<1>1. PICK u : u = Put(s, e, r)
  OBVIOUS
<1>2. /\ SimOK(u) /\ Only(s, u, e) /\ u.events[e] = r /\ Aside(s, u, {e})
  BY <1>1, SettledSim
<1>3. PICK d : d = Later(s, due)
  OBVIOUS
<1>4. s.now \in Times /\ u.now = s.now /\ s.queue \in Seq(EntryType) /\ u.queue = s.queue
        /\ DOMAIN u.events = DOMAIN s.events
        /\ \A f \in DOMAIN s.events \ {e} : u.events[f] = s.events[f]
  BY <1>2, SimFields DEF SimOK, Only
<1>5. d \in Times /\ InTime(Plus(s.now, d), due)
  BY <1>3, <1>4, LaterBound
<1>6. e \in DOMAIN u.events /\ u.events[e].state # "pending" /\ t = Schedule(u, Call("event", e), NORMAL, d)
  BY <1>1, <1>2, <1>3, <1>4
<1>7. /\ SimOK(t) /\ t.events = u.events /\ t.now = u.now /\ Aside(u, t, {e})
      /\ t.queue = Append(u.queue, [at |-> Plus(u.now, d), prio |-> NORMAL, task |-> Call("event", e)])
  BY <1>2, <1>5, <1>6, ScheduledSim
<1>8. PICK entry : entry = [at |-> Plus(s.now, d), prio |-> NORMAL, task |-> Call("event", e)]
  OBVIOUS
<1>9. t.queue = Append(s.queue, entry) /\ InTime(entry.at, due) /\ entry.task = Call("event", e)
  BY <1>4, <1>5, <1>7, <1>8
<1>10. /\ DOMAIN t.queue = DOMAIN s.queue \cup {Len(s.queue) + 1}
       /\ t.queue[Len(s.queue) + 1] = entry
       /\ \A i \in DOMAIN s.queue : t.queue[i] = s.queue[i]
  BY ONLY <1>4, <1>9
<1>11. Due(t, Call("event", e))
  BY <1>9, <1>10 DEF Due
<1>12. \A i \in DOMAIN t.queue : (\E j \in DOMAIN s.queue : s.queue[j] = t.queue[i]) \/ InTime(t.queue[i].at, due)
  BY <1>9, <1>10
<1>13. Aside(s, t, {e})
  BY <1>2, <1>7, AsideTrans
<1> QED BY <1>2, <1>4, <1>7, <1>11, <1>12, <1>13 DEF Settled

LEMMA SettledNow ==
  ASSUME NEW s, SimOK(s), NEW e \in DOMAIN s.events, NEW r \in EventType,
         r.type = s.events[e].type, r.members = s.events[e].members, r.target = s.events[e].target,
         r.processed = s.events[e].processed, r.callbacks = s.events[e].callbacks,
         r.state # "pending", NEW due, s.events[e].state # "pending",
         NEW t, t = Put(s, e, r)
  PROVE  Settled(s, t, e, r.state, due)
<1>1. /\ SimOK(t) /\ Only(s, t, e) /\ t.events[e] = r /\ Aside(s, t, {e})
  BY SettledSim
<1> QED BY <1>1 DEF Settled, Only, Due

\* _resolve and _deliver.
LEMMA OutcomeSettles ==
  ASSUME NEW s, SimOK(s), NEW e \in DOMAIN s.events, NEW state \in {"ok", "failed"}, NEW due \in Times
  PROVE  /\ s.events[e].state # "pending" => Settled(s, [s EXCEPT !.events[e].state = state], e, state, due)
         /\ s.events[e].state = "pending" =>
              Settled(s, Schedule([s EXCEPT !.events[e].state = state], Call("event", e), NORMAL, Later(s, due)),
                      e, state, due)
<1>1. PICK q : q = s.events[e]
  OBVIOUS
<1>2. q \in EventType /\ s \in SimType
  BY <1>1, SimFields DEF SimOK
<1>3. PICK r : r = [q EXCEPT !.state = state]
  OBVIOUS
<1>4. /\ r \in EventType /\ r.type = q.type /\ r.members = q.members /\ r.target = q.target
      /\ r.processed = q.processed /\ r.callbacks = q.callbacks /\ r.state = state
  BY <1>2, <1>3 DEF EventType
<1>5. r.state # "pending"
  BY <1>4
<1>6. [s EXCEPT !.events[e].state = state] = Put(s, e, r)
  BY <1>1, <1>2, <1>3 DEF Put, SimType
<1>7. q.state # "pending" => Settled(s, Put(s, e, r), e, r.state, due)
  BY <1>1, <1>4, <1>5, SettledNow
<1>8. q.state = "pending" =>
        Settled(s, Schedule(Put(s, e, r), Call("event", e), NORMAL, Later(s, due)), e, r.state, due)
  BY <1>1, <1>4, <1>5, SettledLater
<1> QED BY <1>1, <1>4, <1>6, <1>7, <1>8

\* OffloadEvent.cancel
LEMMA DiscardSettles ==
  ASSUME NEW s, SimOK(s), NEW p, NEW e \in DOMAIN s.events, NEW due \in Times, due = p.jobs[e].due
  PROVE  Settled(s, Discarded(s, p, e), e, "ok", due)
<1>1. PICK q : q = s.events[e]
  OBVIOUS
<1>2. q \in EventType /\ s \in SimType
  BY <1>1, SimFields DEF SimOK
<1>3. PICK r : r = [q EXCEPT !.defused = TRUE, !.state = "ok"]
  OBVIOUS
<1>4. /\ r \in EventType /\ r.type = q.type /\ r.members = q.members /\ r.target = q.target
      /\ r.processed = q.processed /\ r.callbacks = q.callbacks /\ r.state = "ok"
  BY <1>2, <1>3 DEF EventType
<1>5. r.state # "pending"
  BY <1>4
<1>6. [s EXCEPT !.events[e].defused = TRUE, !.events[e].state = "ok"] = Put(s, e, r)
  BY <1>1, <1>2, <1>3 DEF Put, SimType
<1>7. PICK t : t = Discarded(s, p, e)
  OBVIOUS
<1>8. t = IF q.state = "pending"
          THEN Schedule(Put(s, e, r), Call("event", e), NORMAL, Later(s, due)) ELSE Put(s, e, r)
  BY <1>1, <1>6, <1>7 DEF Discarded
<1>9. CASE q.state # "pending"
  <2>1. Settled(s, t, e, r.state, due)
    BY <1>1, <1>4, <1>5, <1>8, <1>9, SettledNow
  <2> QED BY <1>4, <1>7, <2>1
<1>10. CASE q.state = "pending"
  <2>1. Settled(s, t, e, r.state, due)
    BY <1>1, <1>4, <1>5, <1>8, <1>10, SettledLater
  <2> QED BY <1>4, <1>7, <2>1
<1> QED BY <1>9, <1>10

-----------------------------------------------------------------------------
(* The pool when something happens to the Sim, to one offload, or to both.  *)

\* The job of e in q is as fit for t as that in p is for s.
LEMMA JobKept ==
  ASSUME NEW s, NEW t, NEW p, NEW q, NEW e, JobOK(s, p, e), q.jobs[e] = p.jobs[e],
         Unaltered(s, t, e), t.events[e].processed = s.events[e].processed
  PROVE  JobOK(t, q, e)
<1>1. PICK job : job = p.jobs[e]
  OBVIOUS
<1>2. OwnersCall(OwnCall)
  BY DEF OwnersCall, OwnCall, Call
<1>3. t.events[e].state = s.events[e].state
  BY DEF Unaltered
<1>4. t.events[e].state # "pending" => t.events[e].processed \/ Due(t, Call("event", e))
  BY DEF JobOK, Unaltered
<1>5. \A i \in DOMAIN t.queue : t.queue[i].task = Call("event", e) =>
        IF job.strict THEN t.queue[i].at = job.due ELSE InTime(t.queue[i].at, job.due)
  BY <1>1 DEF JobOK, Unaltered
<1>6. Leads(OwnCall, s.events[e].callbacks) => Leads(OwnCall, t.events[e].callbacks)
  BY <1>2 DEF Unaltered, Follows
<1> QED BY <1>1, <1>3, <1>4, <1>5, <1>6 DEF JobOK

LEMMA JobsFields ==
  ASSUME NEW s, NEW p, PoolOK(s, p)
  PROVE  /\ \A e \in DOMAIN p.jobs : /\ e \in DOMAIN s.events /\ s.events[e].type = "offload" /\ Reserved(s, e)
                                     /\ p.jobs[e] \in JobType /\ JobOK(s, p, e)
         /\ \A e \in DOMAIN s.events : s.events[e].type = "offload" => e \in DOMAIN p.jobs
         /\ p.pending \in Seq(Nat) /\ p.walk \in Seq(Nat) /\ p.closed \in BOOLEAN /\ p.live \subseteq Nat
         /\ p.workers \in Nat \ {0}
         /\ p.live = OpenJobs(p, TRUE) /\ Range(p.pending) = OpenJobs(p, FALSE) /\ IsInjective(p.pending)
<1>1. \A e \in DOMAIN p.jobs : e \in DOMAIN s.events /\ s.events[e].type = "offload"
  BY DEF PoolOK
<1>2. \A e \in DOMAIN p.jobs : p.jobs[e] \in JobType /\ JobOK(s, p, e)
  BY DEF PoolOK
<1>3. /\ p.pending \in Seq(Nat) /\ p.walk \in Seq(Nat) /\ p.closed \in BOOLEAN /\ p.live \subseteq Nat
      /\ p.workers \in Nat \ {0}
  BY DEF PoolOK, PoolFields
<1>4. \A e \in DOMAIN s.events : s.events[e].type = "offload" => e \in DOMAIN p.jobs
  BY DEF PoolOK
<1>5. p.live = OpenJobs(p, TRUE) /\ Range(p.pending) = OpenJobs(p, FALSE) /\ IsInjective(p.pending)
  BY DEF PoolOK
<1> QED BY <1>1, <1>2, <1>3, <1>4, <1>5 DEF Reserved

LEMMA SameJobs ==
  ASSUME NEW s, NEW t, NEW X, Aside(s, t, X), X \subseteq DOMAIN s.events
  PROVE  {e \in DOMAIN t.events : t.events[e].type = "offload"}
           = {e \in DOMAIN s.events : s.events[e].type = "offload"}
<1>1. \A e \in DOMAIN t.events : t.events[e].type = "offload" => e \in DOMAIN s.events
  <2> TAKE e \in DOMAIN t.events
  <2>1. CASE e \in X
    BY <2>1
  <2>2. CASE e \notin X
    BY <2>2 DEF Aside, Reserved
  <2> QED BY <2>1, <2>2
<1>2. DOMAIN s.events \subseteq DOMAIN t.events
        /\ \A e \in DOMAIN s.events : t.events[e].type = s.events[e].type
  BY AsideKeeps
<1> QED BY <1>1, <1>2

LEMMA OthersKept ==
  ASSUME NEW s, NEW p, PoolOK(s, p), NEW t, NEW X, Aside(s, t, X), NEW q,
         NEW f \in DOMAIN p.jobs \ X, q.jobs[f] = p.jobs[f]
  PROVE  JobOK(t, q, f)
<1>1. f \in DOMAIN s.events /\ Reserved(s, f) /\ JobOK(s, p, f)
  BY JobsFields
<1>2. f \in DOMAIN t.events /\ Reserved(t, f) /\ t.events[f].processed = s.events[f].processed
  BY <1>1, AsideKeeps DEF Aside, Established, Reserved
<1>3. Unaltered(s, t, f)
  BY <1>2 DEF Aside
<1> QED BY <1>1, <1>2, <1>3, JobKept

LEMMA PoolAside ==
  ASSUME NEW s, NEW p, PoolOK(s, p), NEW t, Aside(s, t, {})
  PROVE  PoolOK(t, p)
<1>1. DOMAIN p.jobs = {e \in DOMAIN t.events : t.events[e].type = "offload"}
  BY SameJobs DEF PoolOK
<1>2. \A e \in DOMAIN p.jobs : JobOK(t, p, e)
  BY OthersKept
<1> QED BY <1>1, <1>2 DEF PoolOK

\* The offload e is settled: its job is no longer open.
LEMMA PoolSettled ==
  ASSUME NEW s, NEW p, PoolOK(s, p), NEW e \in DOMAIN p.jobs, NEW t, Aside(s, t, {e}),
         NEW job \in JobType, job.strict = p.jobs[e].strict, ~ Open(job),
         NEW q, PoolFields(q), q.jobs = [p.jobs EXCEPT ![e] = job],
         q.pending = RemoveFirst(p.pending, e), q.live = p.live \ {e}, q.closed = p.closed,
         JobOK(t, q, e)
  PROVE  PoolOK(t, q) /\ \A strict : OpenJobs(q, strict) = OpenJobs(p, strict) \ {e}
<1>1. e \in DOMAIN s.events /\ DOMAIN q.jobs = DOMAIN p.jobs /\ q.jobs[e] = job
      /\ \A f \in DOMAIN p.jobs \ {e} : q.jobs[f] = p.jobs[f]
  BY JobsFields
<1>2. \A strict : OpenJobs(q, strict) = OpenJobs(p, strict) \ {e}
  BY <1>1 DEF OpenJobs
<1>3. DOMAIN q.jobs = {f \in DOMAIN t.events : t.events[f].type = "offload"}
  <2>1. {e} \subseteq DOMAIN s.events
    BY <1>1
  <2> QED BY <1>1, <2>1, SameJobs DEF PoolOK
<1>4. \A f \in DOMAIN q.jobs : JobOK(t, q, f)
  BY <1>1, OthersKept
<1>5. q.jobs \in [DOMAIN q.jobs -> JobType]
  <2>1. p.jobs \in [DOMAIN p.jobs -> JobType]
    BY DEF PoolOK
  <2> QED BY <2>1
<1>6. p.pending \in Seq(Nat) /\ IsInjective(p.pending) /\ Range(p.pending) = OpenJobs(p, FALSE)
      /\ p.live = OpenJobs(p, TRUE)
  BY JobsFields
<1>7. e \in Nat
  BY <1>1, JobsFields, SimFields DEF Aside, SimOK, Established
<1>8. IsInjective(q.pending) /\ Range(q.pending) = OpenJobs(q, FALSE) /\ q.live = OpenJobs(q, TRUE)
  <2>1. PICK a : a = p.pending
    OBVIOUS
  <2>2. a \in Seq(Nat) /\ IsInjective(a)
    BY <1>6, <2>1
  <2>3. IsInjective(RemoveFirst(a, e)) /\ Range(RemoveFirst(a, e)) = Range(a) \ {e}
    BY <1>7, <2>2, RemoveMember
  <2> QED BY <1>2, <1>6, <2>1, <2>3
<1>9. q.closed => OpenJobs(q, TRUE) = {} /\ OpenJobs(q, FALSE) = {}
  <2>1. p.closed => OpenJobs(p, TRUE) = {} /\ OpenJobs(p, FALSE) = {}
    BY DEF PoolOK
  <2> QED BY <1>2, <2>1
<1> QED BY <1>2, <1>3, <1>4, <1>5, <1>8, <1>9 DEF PoolOK

\* A worker takes a job, or ends it.
Worked(p, e, future) == [p EXCEPT !.jobs[e].future = future]

LEMMA PoolWorks ==
  ASSUME NEW s, NEW p, PoolOK(s, p), NEW e \in DOMAIN p.jobs, p.jobs[e].future \in {"queued", "running"},
         NEW future \in {"running", "done"}, NEW q, q = Worked(p, e, future)
  PROVE  /\ PoolOK(s, q) /\ q.pending = p.pending /\ q.walk = p.walk /\ DOMAIN q.jobs = DOMAIN p.jobs
         /\ \A f \in DOMAIN p.jobs : q.jobs[f].strict = p.jobs[f].strict /\ (Open(q.jobs[f]) <=> Open(p.jobs[f]))
<1>1. PICK job : job = p.jobs[e]
  OBVIOUS
<1>2. job \in JobType /\ JobOK(s, p, e)
  BY <1>1, JobsFields
<1>3. PICK done : done = [job EXCEPT !.future = future]
  OBVIOUS
<1>4. /\ done \in JobType /\ done.strict = job.strict /\ done.due = job.due /\ done.value = job.value
      /\ done.abandoned = job.abandoned /\ done.future = future /\ done.outcome = job.outcome
  BY <1>2, <1>3 DEF JobType
<1>5. PICK jobs : jobs = [p.jobs EXCEPT ![e] = done]
  OBVIOUS
<1>6. p.jobs \in [DOMAIN p.jobs -> JobType] /\ PoolFields(p)
  BY DEF PoolOK
<1>7. q = [p EXCEPT !.jobs = jobs]
  BY <1>1, <1>3, <1>5, <1>6 DEF PoolFields, Worked
<1>8. /\ q.jobs = jobs /\ q.pending = p.pending /\ q.walk = p.walk /\ q.live = p.live /\ q.closed = p.closed
      /\ PoolFields(q)
  BY <1>6, <1>7 DEF PoolFields
<1>9. /\ jobs \in [DOMAIN p.jobs -> JobType] /\ jobs[e] = done
      /\ \A f \in DOMAIN p.jobs \ {e} : jobs[f] = p.jobs[f]
  BY <1>4, <1>5, <1>6
<1>10. Open(done) <=> Open(job)
  BY <1>4 DEF Open
<1>11. \A f \in DOMAIN p.jobs : q.jobs[f].strict = p.jobs[f].strict /\ (Open(q.jobs[f]) <=> Open(p.jobs[f]))
  BY <1>1, <1>4, <1>8, <1>9, <1>10
<1>12. JobOK(s, q, e)
  <2>1. job.value = "nothing"
    BY <1>1, <1>2 DEF JobOK
  <2>2. q.jobs[e] = done /\ future # "cancelled"
    BY <1>8, <1>9
  <2> QED BY <1>1, <1>2, <1>4, <1>10, <2>1, <2>2 DEF JobOK
<1>13. ASSUME NEW f \in DOMAIN p.jobs PROVE JobOK(s, q, f)
  <2>1. CASE f = e
    BY <1>12, <2>1
  <2>2. CASE f # e
    <3>1. JobOK(s, p, f) /\ q.jobs[f] = p.jobs[f]
      BY <1>8, <1>9, <2>2, JobsFields
    <3> QED BY <3>1 DEF JobOK
  <2> QED BY <2>1, <2>2
<1>14. DOMAIN q.jobs = DOMAIN p.jobs
  BY <1>8, <1>9
<1>15. \A strict : OpenJobs(q, strict) = OpenJobs(p, strict)
  BY <1>11, <1>14 DEF OpenJobs
<1>16. PoolOK(s, q)
  BY <1>8, <1>9, <1>13, <1>14, <1>15 DEF PoolOK
<1> QED BY <1>8, <1>11, <1>14, <1>16

\* The settled offload is fit again.
LEMMA JobSettled ==
  ASSUME NEW s, NEW p, NEW e, JobOK(s, p, e), NEW due, due = p.jobs[e].due,
         NEW state, state # "pending", NEW t, Settled(s, t, e, state, due),
         NEW job \in JobType, job.strict = p.jobs[e].strict, job.due = due, ~ Open(job),
         job.value # "nothing" => ~ job.abandoned /\ job.future = "done" /\ job.value = job.outcome,
         job.abandoned => state = "ok", job.future = "cancelled" => job.abandoned,
         job.strict /\ ~ s.events[e].processed => job.value = "nothing",
         NEW q, q.jobs[e] = job
  PROVE  JobOK(t, q, e)
<1>1. t.events[e].state = state /\ t.events[e].processed = s.events[e].processed
      /\ t.events[e].callbacks = s.events[e].callbacks
  BY DEF Settled
<1>2. s.events[e].processed \/ Due(t, Call("event", e))
  BY DEF Settled, JobOK
<1>3. ASSUME NEW i \in DOMAIN t.queue, t.queue[i].task = Call("event", e)
      PROVE  IF job.strict THEN t.queue[i].at = job.due ELSE InTime(t.queue[i].at, job.due)
  <2>1. (\E j \in DOMAIN s.queue : s.queue[j] = t.queue[i]) \/ InTime(t.queue[i].at, due)
    BY <1>3 DEF Settled
  <2>2. \A j \in DOMAIN s.queue : s.queue[j].task = Call("event", e) =>
          IF job.strict THEN s.queue[j].at = job.due ELSE InTime(s.queue[j].at, job.due)
    BY DEF JobOK
  <2>3. job.strict => s.events[e].state # "pending"
    BY DEF JobOK
  <2>4. job.strict => t.queue = s.queue
    BY <2>3 DEF Settled
  <2>5. job.strict \in BOOLEAN
    BY DEF JobType
  <2>6. CASE job.strict
    <3>1. t.queue = s.queue
      BY <2>4, <2>6
    <3> QED BY <1>3, <2>2, <2>6, <3>1
  <2>7. CASE ~ job.strict
    BY <1>3, <2>1, <2>2, <2>7
  <2> QED BY <2>5, <2>6, <2>7
<1>4. job.strict /\ ~ s.events[e].processed => Leads(OwnCall, s.events[e].callbacks)
  BY DEF JobOK
<1> QED BY <1>1, <1>2, <1>3, <1>4 DEF JobOK

\* OffloadPool._forget, with the jobs as they are now.
ForgottenWith(p, e, jobs) == [Forget(p, e) EXCEPT !.jobs = jobs]

LEMMA ForgottenFields ==
  ASSUME NEW s, NEW p, PoolOK(s, p), SimOK(s), NEW e \in DOMAIN p.jobs,
         NEW jobs, NEW q, q = ForgottenWith(p, e, jobs)
  PROVE  /\ PoolFields(q) /\ q.jobs = jobs /\ q.walk = p.walk
         /\ q.pending = RemoveFirst(p.pending, e) /\ q.live = p.live \ {e} /\ q.closed = p.closed
         /\ q.mode = p.mode /\ q.workers = p.workers
<1>1. p.pending \in Seq(Nat) /\ IsInjective(p.pending) /\ e \in DOMAIN s.events /\ p.live \subseteq Nat
  BY JobsFields
<1>2. e \in Nat
  BY <1>1, SimFields DEF SimOK
<1>3. PICK a : a = p.pending
  OBVIOUS
<1>4. a \in Seq(Nat) /\ IsInjective(a)
  BY <1>1, <1>3
<1>5. RemoveFirst(a, e) \in Seq(Nat)
  BY <1>2, <1>4, RemoveMember
<1>6. PICK left : left = RemoveFirst(a, e)
  OBVIOUS
<1>7. left \in Seq(Nat)
  BY <1>5, <1>6
<1>8. PICK k : k = Forget(p, e)
  OBVIOUS
<1>9. PoolFields(p)
  BY DEF PoolOK
<1>10. k = [p EXCEPT !.pending = left, !.live = @ \ {e}]
  BY <1>3, <1>6, <1>8 DEF Forget
<1>11. /\ PoolFields(k) /\ k.jobs = p.jobs /\ k.walk = p.walk /\ k.mode = p.mode /\ k.workers = p.workers
       /\ k.pending = left /\ k.live = p.live \ {e} /\ k.closed = p.closed
  BY <1>1, <1>7, <1>9, <1>10 DEF PoolFields
<1>12. q = [k EXCEPT !.jobs = jobs]
  BY <1>8 DEF ForgottenWith
<1>13. /\ PoolFields(q) /\ q.jobs = jobs /\ q.walk = k.walk /\ q.mode = k.mode /\ q.workers = k.workers
       /\ q.pending = k.pending /\ q.live = k.live /\ q.closed = k.closed
  BY <1>11, <1>12 DEF PoolFields
<1> QED BY <1>3, <1>6, <1>11, <1>13

\* OffloadEvent.cancel
LEMMA AbandonStep ==
  ASSUME NEW s, SimOK(s), NEW p, PoolOK(s, p), NEW e \in DOMAIN p.jobs, ~ p.jobs[e].abandoned,
         ~ s.events[e].processed,
         NEW t, t = Discarded(s, p, e), NEW q, q = Abandoned(p, e)
  PROVE  /\ Settled(s, t, e, "ok", p.jobs[e].due) /\ PoolOK(t, q)
         /\ \A strict : OpenJobs(q, strict) = OpenJobs(p, strict) \ {e}
         /\ DOMAIN q.jobs = DOMAIN p.jobs /\ q.closed = p.closed /\ q.walk = p.walk
         /\ q.mode = p.mode /\ q.workers = p.workers /\ q.pending = RemoveFirst(p.pending, e)
         /\ \A f \in DOMAIN p.jobs : /\ q.jobs[f].strict = p.jobs[f].strict
                                     /\ Open(q.jobs[f]) => Open(p.jobs[f])
         /\ ~ Open(q.jobs[e])
<1>1. PICK job : job = p.jobs[e]
  OBVIOUS
<1>2. job \in JobType /\ JobOK(s, p, e) /\ e \in DOMAIN s.events
  BY <1>1, JobsFields
<1>3. PICK done : done = Gone(job)
  OBVIOUS
<1>4. /\ done \in JobType /\ done.strict = job.strict /\ done.due = job.due /\ done.value = "nothing"
      /\ done.abandoned /\ done.outcome = job.outcome
  BY <1>2, <1>3 DEF JobType, Gone
<1>5. ~ Open(done)
  BY <1>4 DEF Open
<1>6. PICK k : k = Forget(p, e)
  OBVIOUS
<1>7. q = [k EXCEPT !.jobs = [p.jobs EXCEPT ![e] = done]]
  <2>1. k.jobs = p.jobs
    BY <1>6 DEF Forget, PoolOK, PoolFields
  <2>2. q = [k EXCEPT !.jobs[e] = done]
    BY <1>1, <1>3, <1>6, <2>1 DEF Abandoned
  <2> QED BY <2>1, <2>2
<1>8. /\ PoolFields(q) /\ q.jobs = [p.jobs EXCEPT ![e] = done] /\ q.walk = p.walk
      /\ q.pending = RemoveFirst(p.pending, e) /\ q.live = p.live \ {e} /\ q.closed = p.closed
      /\ q.mode = p.mode /\ q.workers = p.workers
  <2>1. PICK jobs : jobs = [p.jobs EXCEPT ![e] = done]
    OBVIOUS
  <2>2. q = ForgottenWith(p, e, jobs)
    BY <1>6, <1>7, <2>1 DEF ForgottenWith
  <2>3. /\ PoolFields(q) /\ q.jobs = jobs /\ q.walk = p.walk
        /\ q.pending = RemoveFirst(p.pending, e) /\ q.live = p.live \ {e} /\ q.closed = p.closed
        /\ q.mode = p.mode /\ q.workers = p.workers
    BY <2>2, ForgottenFields
  <2> QED BY <2>1, <2>3
<1>9. PICK due : due = job.due
  OBVIOUS
<1>10. due \in Times /\ due = p.jobs[e].due
  BY <1>1, <1>2, <1>9 DEF JobType
<1>11. Settled(s, t, e, "ok", due)
  BY <1>2, <1>10, DiscardSettles
<1>12. p.jobs \in [DOMAIN p.jobs -> JobType]
  BY DEF PoolOK
<1>13. q.jobs[e] = done /\ DOMAIN q.jobs = DOMAIN p.jobs
       /\ \A f \in DOMAIN p.jobs \ {e} : q.jobs[f] = p.jobs[f]
  BY <1>8, <1>12
<1>14. JobOK(t, q, e)
  <2>1. /\ done.strict = p.jobs[e].strict /\ done.due = due /\ done.value = "nothing" /\ done.abandoned
        /\ q.jobs[e] = done /\ done \in JobType /\ due = p.jobs[e].due /\ JobOK(s, p, e)
    BY <1>1, <1>2, <1>4, <1>9, <1>13
  <2>2. PICK state : state = "ok"
    OBVIOUS
  <2>3. state # "pending" /\ Settled(s, t, e, state, due)
    BY <1>11, <2>2
  <2> QED BY <1>5, <2>1, <2>2, <2>3, JobSettled
<1>15. Aside(s, t, {e})
  BY <1>11 DEF Settled
<1>16. done.strict = p.jobs[e].strict
  BY <1>1, <1>4
<1>17. PoolOK(t, q) /\ \A strict : OpenJobs(q, strict) = OpenJobs(p, strict) \ {e}
  BY <1>4, <1>5, <1>8, <1>14, <1>15, <1>16, PoolSettled
<1>18. \A f \in DOMAIN p.jobs : q.jobs[f].strict = p.jobs[f].strict /\ (Open(q.jobs[f]) => Open(p.jobs[f]))
  BY <1>1, <1>4, <1>5, <1>13
<1> QED BY <1>5, <1>8, <1>9, <1>10, <1>11, <1>13, <1>17, <1>18

-----------------------------------------------------------------------------
(* Only the step that takes the next entry moves the clock, and only it     *)
(* processes an event.                                                      *)

Clocked(s, n) == "now" \in DOMAIN s /\ s.now = n

LEMMA ClockFields ==
  ASSUME NEW s, NEW n, Clocked(s, n), NEW v
  PROVE  /\ Clocked([s EXCEPT !.queue = v], n) /\ Clocked([s EXCEPT !.events = v], n)
         /\ Clocked([s EXCEPT !.active = v], n)
         /\ \A e : Clocked([s EXCEPT !.events[e].state = v], n)
         /\ \A e : Clocked([s EXCEPT !.events[e].defused = v], n)
         /\ \A e : Clocked([s EXCEPT !.events[e].target = v], n)
         /\ \A e : Clocked([s EXCEPT !.events[e] = v], n)
BY DEF Clocked

LEMMA ClockSchedule ==
  ASSUME NEW s, NEW n, Clocked(s, n), NEW a, NEW b, NEW c
  PROVE  Clocked(Schedule(s, a, b, c), n)
BY DEF Schedule, Clocked

LEMMA ClockCreate ==
  ASSUME NEW s, NEW n, Clocked(s, n), NEW r
  PROVE  Clocked(Create(s, r), n)
BY DEF Create, Clocked

LEMMA ClockHook ==
  ASSUME NEW s, NEW n, Clocked(s, n), NEW e, NEW call
  PROVE  Clocked(Hook(s, e, call), n)
BY DEF Hook, Clocked

LEMMA ClockTrigger ==
  ASSUME NEW s, NEW n, Clocked(s, n), NEW e, NEW state
  PROVE  Clocked(Trigger(s, e, state), n)
BY ClockFields, ClockSchedule DEF Trigger

LEMMA ClockSent ==
  ASSUME NEW s, NEW n, Clocked(s, n), NEW e
  PROVE  Clocked(Sent(s, e), n)
BY ClockFields DEF Sent

LEMMA ClockDefused ==
  ASSUME NEW s, NEW n, Clocked(s, n), NEW members
  PROVE  Clocked(Defused(s, members), n)
BY DEF Defused, Clocked

LEMMA ClockCheck ==
  ASSUME NEW s, NEW n, Clocked(s, n), NEW c, NEW e
  PROVE  Clocked(Check(s, c, e), n)
<1>1. \A x : Clocked(Put(s, c, x), n)
  BY DEF Put, Clocked
<1> QED BY <1>1, ClockTrigger, ClockDefused DEF Check

LEMMA ClockRemoveChecks ==
  ASSUME NEW s, NEW n, Clocked(s, n), NEW c
  PROVE  Clocked(RemoveChecks(s, c), n)
BY DEF RemoveChecks, Clocked

LEMMA UserClock ==
  ASSUME SimOK(sim), UserNext \/ Yield
  PROVE  sim'.now = sim.now
<1>1. PICK n : n = sim.now
  OBVIOUS
<1>2. Clocked(sim, n)
  BY <1>1, SimFields DEF SimOK, SimType, Clocked
<1> SUFFICES sim'.now = n
  BY <1>1
<1>3. ASSUME NEW t, Clocked(t, n), Calls(t) PROVE sim'.now = n
  BY <1>3 DEF Calls, Clocked
<1>4. CASE MakeEvent
  BY <1>2, <1>3, <1>4, ClockCreate DEF MakeEvent
<1>5. CASE MakeTimeout
  <2>1. \A d : Clocked(Schedule(Create(sim, [NewEvent("timeout") EXCEPT !.state = "ok"]),
                                Call("event", Fresh(sim)), NORMAL, d), n)
    BY <1>2, ClockCreate, ClockSchedule
  <2> QED BY <1>3, <1>5, <2>1 DEF MakeTimeout
<1>6. CASE Spawn
  <2>1. Clocked(Spawned(sim), n)
    BY <1>2, ClockCreate, ClockSchedule DEF Spawned
  <2> QED BY <1>3, <1>6, <2>1 DEF Spawn
<1>7. CASE MakeCondition
  <2>1. PICK type \in {"all", "any"} :
          \/ Calls(Combine(sim, type, <<>>))
          \/ \E d, e \in DOMAIN sim.events : Calls(Combine(sim, type, <<d, e>>))
    BY <1>7 DEF MakeCondition
  <2>2. \A d, e \in DOMAIN sim.events : <<d, e>> \in Seq(DOMAIN sim.events)
    BY PairOf
  <2>3. <<>> \in Seq(DOMAIN sim.events)
    OBVIOUS
  <2>4. PICK members \in Seq(DOMAIN sim.events) : Calls(Combine(sim, type, members))
    BY <2>1, <2>2, <2>3
  <2>5. Quiet(sim, Combine(sim, type, members))
    BY QuietCombine
  <2> QED BY <1>1, <2>4, <2>5 DEF Calls, Quiet, Tame
<1>8. CASE SucceedOrFail
  BY <1>2, <1>3, <1>8, ClockTrigger DEF SucceedOrFail
<1>9. CASE Chain
  BY <1>2, <1>3, <1>9, ClockHook DEF Chain
<1>10. CASE Interrupt
  BY <1>2, <1>3, <1>10, ClockSchedule DEF Interrupt, Interrupted
<1>11. CASE YieldWrong
  BY <1>1, <1>11 DEF YieldWrong, Cut
<1>12. CASE End
  <2>1. PICK state : sim' = Ended(sim, control, state)
    BY <1>12 DEF End
  <2>2. Clocked([sim EXCEPT !.events[control].target = None, !.active = None], n)
    BY <1>2 DEF Clocked
  <2>3. Clocked(sim', n)
    BY <2>1, <2>2, ClockTrigger DEF Ended
  <2> QED BY <1>1, <2>3 DEF Clocked
<1>13. CASE Yield
  <2>1. PICK e : YieldOn(e)
    BY <1>13 DEF Yield
  <2>2. PICK s : s = [sim EXCEPT !.events[control].target = e]
    OBVIOUS
  <2>3. Clocked(s, n)
    BY <1>2, <2>2, ClockFields
  <2>4. sim' = Sent(s, e) \/ sim' = [Hook(s, e, Call("resume", control)) EXCEPT !.active = None]
    BY <2>1, <2>2 DEF YieldOn
  <2>5. Clocked(Sent(s, e), n) /\ Clocked(Hook(s, e, Call("resume", control)), n)
    BY <2>3, ClockSent, ClockHook
  <2>6. Clocked(sim', n)
    BY <2>4, <2>5 DEF Clocked
  <2> QED BY <2>6 DEF Clocked
<1> QED BY <1>1, <1>4, <1>5, <1>6, <1>7, <1>8, <1>9, <1>10, <1>11, <1>12, <1>13 DEF UserNext

LEMMA LoopClock ==
  ASSUME SimOK(sim), \/ RunToEnd \/ RunToTime \/ RunToEvent \/ Resume \/ RunCheck \/ RunBuild \/ RunTrigger
                     \/ RunStop \/ FinishStep \/ RunEmpty
  PROVE  sim'.now = sim.now
<1>1. PICK n : n = sim.now
  OBVIOUS
<1>2. Clocked(sim, n)
  BY <1>1, SimFields DEF SimOK, SimType, Clocked
<1> SUFFICES Clocked(sim', n)
  BY <1>1 DEF Clocked
<1>3. CASE RunToEnd \/ RunToTime \/ RunToEvent
  <2>1. \A d : Clocked(Schedule(sim, Call("stop", None), URGENT, d), n)
    BY <1>2, ClockSchedule
  <2>2. \A e : Clocked(Hook(sim, e, Call("stop", None)), n)
    BY <1>2, ClockHook
  <2> QED BY <1>2, <1>3, <2>1, <2>2 DEF RunToEnd, RunToTime, RunToEvent, StartRun
<1>4. CASE Resume
  <2>1. Clocked(Sent(sim, step.task.of), n)
    BY <1>2, ClockSent
  <2> QED BY <1>2, <1>4, <2>1 DEF Resume, Enter, Clocked
<1>5. CASE RunCheck
  BY <1>2, <1>5, ClockCheck DEF RunCheck, Done
<1>6. CASE RunBuild
  BY <1>2, <1>6, ClockRemoveChecks DEF RunBuild
<1>7. CASE RunTrigger
  BY <1>2, <1>7, ClockTrigger DEF RunTrigger, Done
<1>8. CASE RunStop \/ FinishStep \/ RunEmpty
  BY <1>2, <1>8 DEF RunStop, FinishStep, RunEmpty, Cut
<1> QED BY <1>3, <1>4, <1>5, <1>6, <1>7, <1>8

LEMMA DeliverClock ==
  ASSUME SimOK(sim), NEW freed, DeliverInterruptTo(freed), freed.now = sim.now, "now" \in DOMAIN freed
  PROVE  sim'.now = sim.now
<1>1. PICK n : n = sim.now
  OBVIOUS
<1>2. Clocked(sim, n) /\ Clocked(freed, n)
  BY <1>1, SimFields DEF SimOK, SimType, Clocked
<1>3. sim' = sim \/ (\E p : sim' = [sim EXCEPT !.active = p]) \/ \E p : sim' = [freed EXCEPT !.active = p]
  BY DEF DeliverInterruptTo, Enter, Done, Cut
<1>4. Clocked(sim', n)
  BY <1>2, <1>3 DEF Clocked
<1> QED BY <1>1, <1>4 DEF Clocked

\* What the clock and the offloads do in a step.
Calm == sim'.now = sim.now /\ \A e \in Jobs : sim'.events[e].processed = sim.events[e].processed

LEMMA AsideCalm ==
  ASSUME OffloadInv, Aside(sim, sim', {}), sim'.now = sim.now
  PROVE  Calm
<1>1. \A e \in Jobs : e \in DOMAIN sim.events
  BY JobsFields DEF OffloadInv, Jobs
<1> QED BY <1>1 DEF Aside, Established, Calm

-----------------------------------------------------------------------------
(* What the steps have in common.                                           *)

\* No strict offload is between its processing and its outcome.
Undelivered(s, p) ==
  \A e \in DOMAIN p.jobs : p.jobs[e].strict /\ Open(p.jobs[e]) => ~ s.events[e].processed

LEMMA NoneDelivered ==
  ASSUME OffloadInv,
         \/ control # Loop \/ Idle \/ step.rest = <<>>
         \/ step.rest # <<>> /\ Head(step.rest).do # "resolve"
  PROVE  Undelivered(sim, pool)
<1> SUFFICES ASSUME NEW e \in Jobs, pool.jobs[e].strict, Open(pool.jobs[e]), sim.events[e].processed
             PROVE  FALSE
  BY DEF Undelivered, Jobs
<1>1. control = Loop /\ step.task = Call("event", e) /\ step.rest # <<>> /\ Head(step.rest) = OwnCall
  BY DEF OffloadInv, Delivering
<1>2. OwnCall.do = "resolve" /\ Call("event", e) # NoTask
  BY DEF OwnCall, Call, NoTask
<1> QED BY <1>1, <1>2 DEF Idle

LEMMA AtRest ==
  ASSUME OffloadInv, control # Loop \/ step.task # NoTask \/ step.rest # <<>>
  PROVE  pool.walk = <<>>
<1>1. ~ Idle
  BY NothingLeft DEF OffloadInv, Idle
<1> QED BY <1>1 DEF OffloadInv, WalkOK

LEMMA NoWalk ==
  ASSUME pool'.walk = <<>>
  PROVE  WalkOK'
<1>1. DOMAIN pool'.walk = {}
  BY DEF Range
<1>2. Range(pool'.walk) = {}
  BY <1>1 DEF Range
<1>3. IsInjective(pool'.walk)
  BY <1>1 DEF IsInjective
<1> QED BY <1>2, <1>3 DEF WalkOK

Frame ==
  /\ DOMAIN cast' = DOMAIN cast /\ cast'.menu = cast.menu /\ cast'.outcomes = cast.outcomes
  /\ "result" \in DOMAIN run'

LEMMA UseKept ==
  ASSUME UseOK, Frame,
         \A e \in DOMAIN pool'.jobs : \/ e \in Jobs /\ pool'.jobs[e].strict = pool.jobs[e].strict
                                      \/ pool'.jobs[e].strict \/ "nonstrict" \in cast.menu
  PROVE  UseOK'
<1>1. ASSUME NEW e \in DOMAIN pool'.jobs, ~ pool'.jobs[e].strict
      PROVE  "nonstrict" \in cast'.menu
  BY <1>1 DEF UseOK, Frame
<1> QED BY <1>1 DEF UseOK, Frame, Jobs

LEMMA FrameCast ==
  ASSUME UseOK, NEW a, NEW b, UNCHANGED cast \/ cast' = [cast EXCEPT !.calls = a] \/ cast' = [cast EXCEPT !.runs = b],
         "result" \in DOMAIN run'
  PROVE  Frame
BY DEF UseOK, Frame

LEMMA FrameUser ==
  ASSUME UseOK, UserNext \/ Yield
  PROVE  Frame
<1>1. \A s : Calls(s) => Frame
  BY FrameCast DEF Calls, UseOK
<1>2. ASSUME NEW s, NEW rest, NEW seen, NEW result, Cut(s, rest, seen, result) PROVE Frame
  BY <1>2, FrameCast DEF Cut, UseOK
<1>3. ASSUME End PROVE Frame
  BY <1>3, FrameCast DEF End, UseOK
<1>4. ASSUME Yield PROVE Frame
  BY <1>4, FrameCast DEF Yield, YieldOn, UseOK
<1> QED BY <1>1, <1>2, <1>3, <1>4 DEF UserNext, MakeEvent, MakeTimeout, MakeCondition, Spawn,
     SucceedOrFail, Chain, Interrupt, YieldWrong

LEMMA FrameLoop ==
  ASSUME UseOK, RunToEnd \/ RunToTime \/ RunToEvent \/ Pop \/ Resume \/ RunCheck \/ RunBuild \/ RunTrigger
                \/ RunStop \/ FinishStep \/ RunEmpty \/ \E freed : DeliverInterruptTo(freed)
  PROVE  Frame
<1>1. ASSUME NEW s, NEW rest, NEW seen, NEW result, Cut(s, rest, seen, result) PROVE Frame
  BY <1>1, FrameCast DEF Cut, UseOK
<1>2. ASSUME NEW s, NEW until, NEW at, StartRun(s, until, at) PROVE Frame
  BY <1>2, FrameCast DEF StartRun, UseOK
<1>3. ASSUME UNCHANGED <<run, cast>> PROVE Frame
  BY <1>3, FrameCast DEF UseOK
<1>4. ASSUME RunToEnd \/ RunToTime \/ RunToEvent PROVE Frame
  <2>1. \E s, until, at : StartRun(s, until, at)
    BY <1>4 DEF RunToEnd, RunToTime, RunToEvent
  <2> QED BY <1>2, <2>1
<1>5. ASSUME Pop PROVE Frame
  <2>1. PICK i \in DOMAIN sim.queue : PopTask(i) \/ PopAgain(i) \/ PopEvent(i)
    BY <1>5, PopCases
  <2>2. CASE PopTask(i) \/ PopEvent(i)
    BY <1>3, <2>2 DEF PopTask, PopEvent
  <2>3. CASE PopAgain(i)
    BY <1>1, <2>3 DEF PopAgain
  <2> QED BY <2>1, <2>2, <2>3
<1>6. ASSUME Resume PROVE Frame
  BY <1>3, <1>6 DEF Resume, Enter
<1>7. ASSUME RunCheck \/ RunBuild \/ RunTrigger PROVE Frame
  BY <1>3, <1>7 DEF RunCheck, RunBuild, RunTrigger, Done
<1>8. ASSUME RunStop \/ FinishStep PROVE Frame
  BY <1>1, <1>3, <1>8 DEF RunStop, FinishStep
<1>9. ASSUME RunEmpty PROVE Frame
  BY <1>9, FrameCast DEF RunEmpty, UseOK
<1>10. ASSUME NEW freed, DeliverInterruptTo(freed) PROVE Frame
  BY <1>1, <1>3, <1>10 DEF DeliverInterruptTo, Done, Enter
<1> QED BY <1>4, <1>5, <1>6, <1>7, <1>8, <1>9, <1>10

LEMMA DeliveringKept ==
  ASSUME Undelivered(sim', pool')
  PROVE  Delivering'
BY DEF Undelivered, Delivering, Jobs

\* The pool is left as it is and no offload is touched.
LEMMA PoolLeft ==
  ASSUME OffloadInv, Aside(sim, sim', {}), StepOK', pool' = pool, pool.walk = <<>>, Undelivered(sim, pool), Frame
  PROVE  OffloadInv'
<1>1. SimOK(sim') /\ PoolOK(sim', pool')
  BY PoolAside DEF OffloadInv, Aside
<1>2. UseOK'
  BY UseKept DEF OffloadInv, Jobs
<1>3. \A e \in Jobs : e \in DOMAIN sim.events
  BY JobsFields DEF OffloadInv, Jobs
<1>4. Undelivered(sim', pool')
  BY <1>3 DEF Undelivered, Aside, Established, Jobs
<1> QED BY <1>1, <1>2, <1>4, NoWalk, DeliveringKept DEF OffloadInv

LEMMA UserKeepsPool ==
  ASSUME OffloadInv, UserNext \/ Yield, UNCHANGED pool
  PROVE  OffloadInv' /\ Calm
<1>1. SimOK(sim) /\ StepOK /\ UseOK
  BY DEF OffloadInv
<1>2. Aside(sim, sim', {}) /\ StepOK' /\ control # Loop
  BY <1>1, UserAside, YieldAside
<1>3. Undelivered(sim, pool) /\ pool.walk = <<>>
  BY <1>2, NoneDelivered, AtRest
<1>4. Calm
  BY <1>1, <1>2, UserClock, AsideCalm
<1> QED BY <1>1, <1>2, <1>3, <1>4, FrameUser, PoolLeft

LEMMA CallBackKeepsPool ==
  ASSUME OffloadInv, CallBack
  PROVE  OffloadInv' /\ Calm
<1>1. SimOK(sim) /\ StepOK /\ UseOK
  BY DEF OffloadInv
<1>2. Aside(sim, sim', {}) /\ StepOK' /\ step.rest # <<>> /\ Head(step.rest).do # "resolve" /\ pool' = pool
  BY <1>1, CallBackAside DEF CallBack, OwnersCall
<1>3. Undelivered(sim, pool) /\ pool.walk = <<>>
  BY <1>2, NoneDelivered, AtRest
<1>4. Frame
  BY <1>1, FrameLoop DEF CallBack
<1>5. Calm
  BY <1>1, <1>2, LoopClock, AsideCalm DEF CallBack
<1> QED BY <1>2, <1>3, <1>4, <1>5, PoolLeft

LEMMA StartARunKeepsPool ==
  ASSUME OffloadInv, StartARun
  PROVE  OffloadInv' /\ Calm
<1>1. SimOK(sim) /\ StepOK /\ UseOK
  BY DEF OffloadInv
<1>2. Aside(sim, sim', {}) /\ StepOK' /\ pool' = pool /\ Frame
  BY <1>1, BetweenAside, FrameLoop DEF StartARun
<1>3. control = Main /\ Main # Loop
  BY DEF StartARun, RunToEnd, RunToTime, RunToEvent, StartRun, Main, Loop
<1>4. Undelivered(sim, pool) /\ pool.walk = <<>>
  BY <1>3, NoneDelivered, AtRest
<1>5. Calm
  BY <1>1, <1>2, LoopClock, AsideCalm DEF StartARun
<1> QED BY <1>2, <1>4, <1>5, PoolLeft

LEMMA GiveUpKeepsPool ==
  ASSUME OffloadInv, GiveUp
  PROVE  OffloadInv' /\ Calm
<1>1. SimOK(sim) /\ StepOK /\ UseOK
  BY DEF OffloadInv
<1>2. Aside(sim, sim', {}) /\ StepOK' /\ pool' = pool /\ Frame
  BY <1>1, BetweenAside, FrameLoop DEF GiveUp
<1>3. Idle /\ pool.walk = <<>>
  BY DEF GiveUp, RunEmpty, Polled
<1>4. Undelivered(sim, pool)
  BY <1>3, NoneDelivered
<1>5. Calm
  BY <1>1, <1>2, LoopClock, AsideCalm DEF GiveUp
<1> QED BY <1>2, <1>3, <1>4, <1>5, PoolLeft

LEMMA WorkersKeepPool ==
  ASSUME OffloadInv, Workers
  PROVE  OffloadInv' /\ Calm
<1>1. UNCHANGED kernelVars
  BY DEF Workers, WorkerTakes, WorkerFinishes
<1>2. PICK e \in Jobs : \E future \in {"running", "done"} :
        pool.jobs[e].future \in {"queued", "running"} /\ pool' = [pool EXCEPT !.jobs[e].future = future]
  BY DEF Workers, WorkerTakes, WorkerFinishes, Working
<1>3. /\ PoolOK(sim, pool') /\ pool'.pending = pool.pending /\ pool'.walk = pool.walk
      /\ DOMAIN pool'.jobs = DOMAIN pool.jobs
      /\ \A f \in DOMAIN pool.jobs : pool'.jobs[f].strict = pool.jobs[f].strict
                                     /\ (Open(pool'.jobs[f]) <=> Open(pool.jobs[f]))
  <2>1. PICK future \in {"running", "done"} : pool' = [pool EXCEPT !.jobs[e].future = future]
    BY <1>2
  <2>2. PICK q : q = pool'
    OBVIOUS
  <2>3. q = Worked(pool, e, future) /\ PoolOK(sim, pool) /\ e \in DOMAIN pool.jobs
        /\ pool.jobs[e].future \in {"queued", "running"}
    BY <1>2, <2>1, <2>2 DEF OffloadInv, Jobs, Worked
  <2>4. /\ PoolOK(sim, q) /\ q.pending = pool.pending /\ q.walk = pool.walk /\ DOMAIN q.jobs = DOMAIN pool.jobs
        /\ \A f \in DOMAIN pool.jobs : q.jobs[f].strict = pool.jobs[f].strict
                                       /\ (Open(q.jobs[f]) <=> Open(pool.jobs[f]))
    BY <2>3, PoolWorks
  <2> QED BY <2>2, <2>4
<1>4. UseOK'
  <2>1. Frame
    BY <1>1, FrameCast DEF OffloadInv, UseOK, kernelVars
  <2> QED BY <1>3, <2>1, UseKept DEF OffloadInv, Jobs
<1>5. SimOK(sim') /\ StepOK' /\ PoolOK(sim', pool')
  BY <1>1, <1>3 DEF OffloadInv, kernelVars, StepOK
<1>6. WalkOK'
  BY <1>1, <1>3 DEF OffloadInv, WalkOK, kernelVars, Idle
<1>7. Delivering'
  BY <1>1, <1>3 DEF OffloadInv, Delivering, kernelVars, Jobs
<1>8. Calm
  BY <1>1 DEF Calm, kernelVars
<1> QED BY <1>4, <1>5, <1>6, <1>7, <1>8 DEF OffloadInv

\* Jobs are only settled, and nothing is processed.
LEMMA PoolMoved ==
  ASSUME OffloadInv, SimOK(sim'), StepOK', PoolOK(sim', pool'), pool'.walk = <<>>, Undelivered(sim, pool), Frame,
         DOMAIN pool'.jobs = Jobs, sim'.now = sim.now,
         \A f \in Jobs : /\ pool'.jobs[f].strict = pool.jobs[f].strict
                         /\ Open(pool'.jobs[f]) => Open(pool.jobs[f])
                         /\ sim'.events[f].processed = sim.events[f].processed
  PROVE  OffloadInv' /\ Calm
<1>1. UseOK'
  BY UseKept DEF OffloadInv
<1>2. Undelivered(sim', pool')
  BY DEF Undelivered, Jobs
<1>3. Calm
  BY DEF Calm
<1> QED BY <1>1, <1>2, <1>3, NoWalk, DeliveringKept DEF OffloadInv

LEMMA MayIsUser ==
  ASSUME NEW call, May(call), SimOK(sim)
  PROVE  control # Loop /\ call \in cast.menu
<1>1. \A q \in Processes(sim) : q # Loop
  BY ProcessIds DEF SimOK
<1>2. Main # Loop
  BY DEF Main, Loop
<1> QED BY <1>1, <1>2 DEF May

LEMMA PoolCalls ==
  ASSUME SimOK(sim), Submit \/ Cancel \/ Close
  PROVE  control # Loop /\ \E s : Calls(s)
<1>1. \A call : May(call) => control # Loop
  BY MayIsUser
<1>2. \A s, q : UserCalls(s, q) => \E r : Calls(r)
  BY DEF UserCalls
<1>3. CASE Submit
  <2>1. \E call : May(call)
    BY <1>3, Zenon DEF Submit
  <2>2. \E s, q : UserCalls(s, q)
    BY <1>3, Zenon DEF Submit
  <2> QED BY <1>1, <1>2, <2>1, <2>2
<1>4. CASE Cancel \/ Close
  <2>1. \E call : May(call)
    BY <1>4 DEF Cancel, Close
  <2>2. \E s, q : UserCalls(s, q)
    BY <1>4 DEF Cancel, Close
  <2> QED BY <1>1, <1>2, <2>1, <2>2
<1> QED BY <1>3, <1>4

LEMMA CancelKeepsPool ==
  ASSUME OffloadInv, Cancel
  PROVE  OffloadInv' /\ Calm
<1>1. PICK e \in Jobs : MayAbandon(sim, pool, e) /\ UserCalls(Discarded(sim, pool, e), Abandoned(pool, e))
  BY DEF Cancel
<1>2. SimOK(sim) /\ StepOK /\ UseOK /\ PoolOK(sim, pool)
  BY DEF OffloadInv
<1>3. control # Loop
  BY <1>2, MayIsUser DEF Cancel
<1>4. Undelivered(sim, pool) /\ pool.walk = <<>>
  BY <1>3, NoneDelivered, AtRest
<1>5. PICK t : t = Discarded(sim, pool, e)
  OBVIOUS
<1>6. PICK q : q = Abandoned(pool, e)
  OBVIOUS
<1>7. sim' = t /\ pool' = q /\ UNCHANGED <<control, step, run>> /\ cast' = [cast EXCEPT !.calls = @ - 1]
  BY <1>1, <1>5, <1>6 DEF UserCalls, Calls
<1>8. e \in DOMAIN pool.jobs /\ ~ pool.jobs[e].abandoned /\ ~ sim.events[e].processed
  BY <1>1 DEF MayAbandon, Jobs
<1>9. /\ Settled(sim, t, e, "ok", pool.jobs[e].due) /\ PoolOK(t, q)
      /\ DOMAIN q.jobs = DOMAIN pool.jobs /\ q.walk = pool.walk
      /\ \A f \in DOMAIN pool.jobs : /\ q.jobs[f].strict = pool.jobs[f].strict
                                     /\ Open(q.jobs[f]) => Open(pool.jobs[f])
  BY <1>2, <1>5, <1>6, <1>8, AbandonStep
<1>10. Aside(sim, t, {e}) /\ SimOK(t) /\ t.now = sim.now /\ \A f \in DOMAIN sim.events : t.events[f].processed = sim.events[f].processed
  BY <1>9 DEF Settled
<1>11. StepOK'
  <2>1. \A f \in {e} \cap DOMAIN sim.events : sim.events[f].processed => sim'.events[f].processed
    BY <1>7, <1>10
  <2> QED BY <1>2, <1>7, <1>10, <2>1, CallsKeepStep
<1>12. Frame
  BY <1>2, <1>7, FrameCast DEF UseOK
<1>13. \A f \in Jobs : f \in DOMAIN sim.events
  BY <1>2, JobsFields DEF Jobs
<1>14. \A f \in Jobs : /\ pool'.jobs[f].strict = pool.jobs[f].strict
                       /\ Open(pool'.jobs[f]) => Open(pool.jobs[f])
                       /\ sim'.events[f].processed = sim.events[f].processed
  BY <1>7, <1>9, <1>10, <1>13 DEF Jobs
<1>15. DOMAIN pool'.jobs = Jobs /\ sim'.now = sim.now /\ pool'.walk = <<>> /\ SimOK(sim') /\ PoolOK(sim', pool')
  BY <1>4, <1>7, <1>9, <1>10 DEF Jobs
<1> QED BY <1>4, <1>11, <1>12, <1>14, <1>15, PoolMoved

LEMMA AsideMore ==
  ASSUME NEW s, NEW t, Aside(s, t, {}), NEW X
  PROVE  Aside(s, t, X)
BY DEF Aside, Established

\* The interrupted process was the last one that waited for e.
LEMMA LastWaiter ==
  ASSUME OffloadInv, Turn("interrupt"), NEW p, p = Callee, NEW e, e = sim.events[p].target,
         Alive(sim, p), e # None, LeavesAlone(p, e),
         NEW t, t = Discarded(Unhooked(sim, p), pool, e), DeliverInterruptTo(t),
         NEW q, q = Abandoned(pool, e), pool' = q, Frame
  PROVE  OffloadInv' /\ Calm
<1>1. SimOK(sim) /\ StepOK /\ PoolOK(sim, pool)
  BY DEF OffloadInv
<1>2. p \in Processes(sim) /\ step.rest # <<>> /\ Head(step.rest).do = "interrupt" /\ control = Loop
  BY <1>1, InterruptTurn
<1>3. Undelivered(sim, pool) /\ pool.walk = <<>>
  BY <1>2, NoneDelivered, AtRest
<1>4. e \in DOMAIN pool.jobs /\ ~ pool.jobs[e].abandoned /\ ~ sim.events[e].processed /\ Waiting(sim, p)
  BY DEF LeavesAlone, MayAbandon, Jobs
<1>5. PICK freed : freed = Unhooked(sim, p)
  OBVIOUS
<1>6. Aside(sim, freed, {}) /\ SimOK(freed)
  BY <1>1, <1>2, <1>5, UnhookedAside DEF Aside
<1>7. PoolOK(freed, pool)
  BY <1>1, <1>6, PoolAside
<1>8. \A f \in DOMAIN sim.events : f \in DOMAIN freed.events /\ freed.events[f].processed = sim.events[f].processed
  BY <1>6 DEF Aside, Established
<1>9. \A f \in DOMAIN pool.jobs : f \in DOMAIN sim.events
  BY <1>1, JobsFields
<1>10. /\ Settled(freed, t, e, "ok", pool.jobs[e].due) /\ PoolOK(t, q)
       /\ DOMAIN q.jobs = DOMAIN pool.jobs /\ q.walk = pool.walk
       /\ \A f \in DOMAIN pool.jobs : /\ q.jobs[f].strict = pool.jobs[f].strict
                                      /\ Open(q.jobs[f]) => Open(pool.jobs[f])
  <2>1. ~ freed.events[e].processed /\ t = Discarded(freed, pool, e)
    BY <1>4, <1>5, <1>8, <1>9
  <2> QED BY <1>4, <1>6, <1>7, <2>1, AbandonStep
<1>11. /\ SimOK(t) /\ Aside(freed, t, {e}) /\ DOMAIN t.events = DOMAIN freed.events
       /\ \A f \in DOMAIN freed.events : t.events[f].processed = freed.events[f].processed
       /\ t.now = freed.now
  <2>1. e \in DOMAIN freed.events
    BY <1>4, <1>8, <1>9
  <2>2. \E due : Settled(freed, t, e, "ok", due)
    BY <1>10
  <2>3. \A due : Settled(freed, t, e, "ok", due) =>
              /\ SimOK(t) /\ Aside(freed, t, {e}) /\ DOMAIN t.events = DOMAIN freed.events
              /\ \A f \in DOMAIN freed.events : t.events[f].processed = freed.events[f].processed
              /\ t.now = freed.now
    BY <2>1, SettledFields, ZenonT(60)
  <2> QED BY <2>2, <2>3
<1>12. Aside(sim, t, {e})
  <2>1. Aside(sim, freed, {e})
    BY <1>6, AsideMore
  <2> QED BY <1>11, <2>1, AsideTrans
<1>13. \A f \in DOMAIN sim.events : t.events[f].processed = sim.events[f].processed
  BY <1>8, <1>11
<1>14. /\ StepOK'
       /\ \/ Aside(sim, sim', {})
          \/ Aside(sim, t, {e}) /\ Aside(t, sim', {})
  BY <1>1, <1>12, <1>13, DeliverAside
<1>15. sim' = [t EXCEPT !.active = p]
  <2>1. /\ sim.events[p].target # None /\ ~ sim.events[sim.events[p].target].processed
    BY <1>4
  <2>2. Enter(t, p, ghost)
    BY <1>4, <2>1 DEF DeliverInterruptTo
  <2> QED BY <2>2 DEF Enter
<1>16. p \in Processes(t)
  BY <1>2, <1>12, AsideKeeps
<1>17. SimOK(sim') /\ sim'.events = t.events /\ sim'.queue = t.queue
  BY <1>11, <1>15, <1>16, ActiveSim
<1>18. Aside(t, sim', {})
  BY <1>11, <1>17, AsideNothing
<1>19. PoolOK(sim', pool')
  BY <1>10, <1>18, PoolAside
<1>20. \A f \in Jobs : /\ pool'.jobs[f].strict = pool.jobs[f].strict
                       /\ Open(pool'.jobs[f]) => Open(pool.jobs[f])
                       /\ sim'.events[f].processed = sim.events[f].processed
  BY <1>9, <1>10, <1>13, <1>17 DEF Jobs
<1>21. DOMAIN pool'.jobs = Jobs /\ pool'.walk = <<>>
  BY <1>3, <1>10 DEF Jobs
<1>22. sim'.now = sim.now
  <2>1. sim \in SimType /\ t \in SimType
    BY <1>1, <1>11 DEF SimOK
  <2>2. freed.now = sim.now
    BY <1>5, <2>1 DEF Unhooked, SimType
  <2>3. t.now = freed.now
    BY <1>11
  <2> QED BY <1>15, <2>1, <2>2, <2>3 DEF SimType
<1> QED BY <1>3, <1>14, <1>17, <1>19, <1>20, <1>21, <1>22, PoolMoved

LEMMA InterruptWaiterKeepsPool ==
  ASSUME OffloadInv, InterruptWaiter
  PROVE  OffloadInv' /\ Calm
<1>1. SimOK(sim) /\ StepOK /\ UseOK
  BY DEF OffloadInv
<1>2. PICK p : p = Callee
  OBVIOUS
<1>3. Turn("interrupt")
  BY DEF InterruptWaiter
<1>4. p \in Processes(sim) /\ step.rest # <<>> /\ Head(step.rest).do = "interrupt"
  BY <1>1, <1>2, <1>3, InterruptTurn
<1>5. PICK e : e = sim.events[p].target
  OBVIOUS
<1>6. PICK freed : freed = Unhooked(sim, p)
  OBVIOUS
<1>7. CASE Alive(sim, p) /\ e # None /\ LeavesAlone(p, e)
  <2>1. DeliverInterruptTo(Discarded(freed, pool, e)) /\ pool' = Abandoned(pool, e)
    BY <1>2, <1>5, <1>6, <1>7 DEF InterruptWaiter
  <2>2. Frame
    BY <1>1, <2>1, FrameLoop
  <2> QED BY <1>2, <1>3, <1>5, <1>6, <1>7, <2>1, <2>2, LastWaiter
<1>8. CASE ~ (Alive(sim, p) /\ e # None /\ LeavesAlone(p, e))
  <2>1. DeliverInterruptTo(freed) /\ pool' = pool
    BY <1>2, <1>5, <1>6, <1>8 DEF InterruptWaiter
  <2>2. Frame
    BY <1>1, <2>1, FrameLoop
  <2>3. sim.events[p].target # None => Aside(sim, freed, {})
    BY <1>1, <1>4, <1>6, UnhookedAside
  <2>4. StepOK' /\ (Aside(sim, sim', {}) \/ (Aside(sim, freed, {}) /\ Aside(freed, sim', {})))
    BY <1>1, <1>2, <2>1, <2>3, DeliverAside
  <2>5. Aside(sim, sim', {})
    BY <2>4, AsideTrans
  <2>6. Undelivered(sim, pool) /\ pool.walk = <<>>
    BY <1>4, NoneDelivered, AtRest
  <2>7. Calm
    <3>1. sim \in SimType
      BY <1>1 DEF SimOK
    <3>2. freed.now = sim.now /\ "now" \in DOMAIN freed
      BY <1>6, <3>1 DEF Unhooked, SimType
    <3> QED BY <1>1, <2>1, <2>5, <3>2, DeliverClock, AsideCalm
  <2> QED BY <2>1, <2>2, <2>4, <2>5, <2>6, <2>7, PoolLeft
<1> QED BY <1>7, <1>8

\* _resolve and _deliver: the outcome of e is put into its event.
WithOutcome(p, e, value) == [p.jobs EXCEPT ![e].value = value]

Ready(s, p, e) ==
  ~ p.jobs[e].abandoned /\ FutureDone(p.jobs[e]) /\ (p.jobs[e].strict => s.events[e].processed)

TookOutcome(p, q, e, value) ==
  /\ PoolFields(q) /\ q.jobs = WithOutcome(p, e, value)
  /\ q.pending = RemoveFirst(p.pending, e) /\ q.live = p.live \ {e} /\ q.closed = p.closed

LEMMA OutcomePut ==
  ASSUME NEW s, NEW p, PoolOK(s, p), NEW e \in DOMAIN p.jobs, Ready(s, p, e),
         NEW value, value = OutcomeOf(p.jobs[e]), NEW state, state = StateOf(value),
         NEW due, due = p.jobs[e].due,
         NEW t, Settled(s, t, e, state, due), NEW q, TookOutcome(p, q, e, value)
  PROVE  /\ PoolOK(t, q) /\ DOMAIN q.jobs = DOMAIN p.jobs /\ ~ Open(q.jobs[e])
         /\ \A f \in DOMAIN p.jobs : /\ q.jobs[f].strict = p.jobs[f].strict
                                     /\ Open(q.jobs[f]) => Open(p.jobs[f])
<1> DEFINE job == p.jobs[e]
<1>a. /\ ~ job.abandoned /\ FutureDone(job) /\ (job.strict => s.events[e].processed)
  BY DEF Ready
<1>b. /\ PoolFields(q) /\ q.jobs = WithOutcome(p, e, value)
      /\ q.pending = RemoveFirst(p.pending, e) /\ q.live = p.live \ {e} /\ q.closed = p.closed
  BY DEF TookOutcome
<1>1. job \in JobType /\ JobOK(s, p, e) /\ e \in DOMAIN s.events
  BY JobsFields
<1>2. job.future = "done" /\ value = job.outcome /\ value \in Outcomes
  <2>1. job.future # "cancelled"
    BY <1>a, <1>1 DEF JobOK
  <2> QED BY <1>a, <1>1, <2>1 DEF FutureDone, OutcomeOf, JobType
<1>3. PICK done : done = [job EXCEPT !.value = value]
  OBVIOUS
<1>4. /\ done \in JobType /\ done.strict = job.strict /\ done.due = job.due /\ done.value = value
      /\ done.abandoned = job.abandoned /\ done.future = job.future /\ done.outcome = job.outcome
  BY <1>1, <1>2, <1>3 DEF JobType
<1>5. ~ Open(done)
  BY <1>2, <1>4 DEF Open, Outcomes
<1>6. q.jobs = [p.jobs EXCEPT ![e] = done]
  BY <1>b, <1>3 DEF WithOutcome
<1>7. p.jobs \in [DOMAIN p.jobs -> JobType]
  BY DEF PoolOK
<1>8. q.jobs[e] = done /\ DOMAIN q.jobs = DOMAIN p.jobs
      /\ \A f \in DOMAIN p.jobs \ {e} : q.jobs[f] = p.jobs[f]
  BY <1>6, <1>7
<1>11. JobOK(t, q, e)
  <2>1. /\ due = p.jobs[e].due /\ done.strict = p.jobs[e].strict /\ done.due = due
        /\ state # "pending" /\ Settled(s, t, e, state, due) /\ q.jobs[e] = done
    BY <1>4, <1>8 DEF StateOf
  <2>2. done.value # "nothing" => ~ done.abandoned /\ done.future = "done" /\ done.value = done.outcome
    BY <1>a, <1>2, <1>4
  <2>3. done.future # "cancelled" /\ ~ done.abandoned
    BY <1>a, <1>2, <1>4
  <2>4. ~ (done.strict /\ ~ s.events[e].processed)
    BY <1>a, <1>4
  <2> QED BY <1>1, <1>4, <1>5, <2>1, <2>2, <2>3, <2>4, JobSettled
<1>12. Aside(s, t, {e})
  BY DEF Settled
<1>13. done.strict = p.jobs[e].strict
  BY <1>4
<1>14. PoolOK(t, q)
  BY <1>b, <1>4, <1>5, <1>6, <1>11, <1>12, <1>13, PoolSettled
<1>15. \A f \in DOMAIN p.jobs : q.jobs[f].strict = p.jobs[f].strict /\ (Open(q.jobs[f]) => Open(p.jobs[f]))
  BY <1>4, <1>5, <1>8
<1> QED BY <1>5, <1>8, <1>14, <1>15

LEMMA ResolveKeepsPool ==
  ASSUME OffloadInv, Resolve
  PROVE  OffloadInv' /\ Calm
<1>1. SimOK(sim) /\ StepOK /\ UseOK /\ PoolOK(sim, pool) /\ Turn("resolve")
  BY DEF OffloadInv, Resolve
<1>2. PICK e : e = step.task.of
  OBVIOUS
<1>3. e \in DOMAIN pool.jobs /\ e \in DOMAIN sim.events /\ sim.events[e].processed
  <2>1. /\ step.task.do = "event" /\ CallOK(sim, e, Head(step.rest))
        /\ e \in DOMAIN sim.events /\ sim.events[e].processed
    BY <1>1, <1>2, CalleeFits
  <2>2. sim.events[e].type = "offload"
    BY <1>1, <2>1 DEF Turn, CallOK
  <2> QED BY <1>1, <2>1, <2>2, JobsFields
<1>4. PICK job : job = pool.jobs[e]
  OBVIOUS
<1>5. job \in JobType /\ JobOK(sim, pool, e)
  BY <1>1, <1>3, <1>4, JobsFields
<1>6. \A f \in Jobs : pool.jobs[f].strict /\ Open(pool.jobs[f]) /\ sim.events[f].processed => f = e
  <2> SUFFICES ASSUME NEW f \in Jobs, pool.jobs[f].strict, Open(pool.jobs[f]), sim.events[f].processed
               PROVE  f = e
    OBVIOUS
  <2>1. step.task = Call("event", f)
    BY DEF OffloadInv, Delivering
  <2> QED BY <1>2, <2>1 DEF Call
<1>7. control = Loop /\ step.rest # <<>>
  BY <1>1 DEF Turn
<1>8. pool.walk = <<>>
  BY <1>7, AtRest
<1>9. UNCHANGED <<control, run, cast, ghost>> /\ step' = [step EXCEPT !.rest = Tail(@)]
  BY DEF Resolve, Done
<1>10. Frame
  BY <1>1, <1>9, FrameCast DEF UseOK
<1>11. CASE job.abandoned
  <2>1. sim' = sim /\ pool' = pool
    BY <1>2, <1>4, <1>11 DEF Resolve, Done
  <2>2. Aside(sim, sim', {})
    BY <1>1, <2>1, AsideNothing
  <2>3. StepOK'
    BY <1>1, <1>7, <1>9, <2>2, CallbackStep
  <2>4. Undelivered(sim, pool)
    BY <1>4, <1>6, <1>11 DEF Undelivered, Jobs, Open
  <2>5. Calm
    BY <2>1 DEF Calm
  <2> QED BY <1>8, <1>10, <2>1, <2>2, <2>3, <2>4, <2>5, PoolLeft
<1>12. CASE ~ job.abandoned
  <2>1. PICK value : value = OutcomeOf(job)
    OBVIOUS
  <2>2. PICK state : state = StateOf(value)
    OBVIOUS
  <2>3. FutureDone(job) /\ sim' = [sim EXCEPT !.events[e].state = state]
        /\ pool' = [Forget(pool, e) EXCEPT !.jobs[e].value = value]
    BY <1>2, <1>4, <1>12, <2>1, <2>2 DEF Resolve, Done
  <2>4. PICK t : t = sim'
    OBVIOUS
  <2>5. PICK due : due = job.due
    OBVIOUS
  <2>6. state \in {"ok", "failed"} /\ due \in Times /\ sim.events[e].state # "pending"
    <3>1. EventOK(sim, e)
      BY <1>1, <1>3 DEF SimOK
    <3> QED BY <1>3, <1>5, <2>2, <2>5, <3>1 DEF StateOf, JobType, EventOK
  <2>7. Settled(sim, t, e, state, due)
    BY <1>1, <1>3, <2>3, <2>4, <2>6, OutcomeSettles
  <2>8. PICK jobs : jobs = WithOutcome(pool, e, value)
    OBVIOUS
  <2>9. PICK q : q = pool'
    OBVIOUS
  <2>10. q = ForgottenWith(pool, e, jobs)
    <3>1. PICK k : k = Forget(pool, e)
      OBVIOUS
    <3>2. k.jobs = pool.jobs
      BY <1>1, <3>1 DEF Forget, PoolOK, PoolFields
    <3>3. q = [k EXCEPT !.jobs = jobs]
      BY <2>3, <2>8, <2>9, <3>1, <3>2 DEF WithOutcome
    <3> QED BY <3>1, <3>3 DEF ForgottenWith
  <2>11. /\ PoolFields(q) /\ q.jobs = jobs /\ q.walk = pool.walk
         /\ q.pending = RemoveFirst(pool.pending, e) /\ q.live = pool.live \ {e} /\ q.closed = pool.closed
    BY <1>1, <1>3, <2>10, ForgottenFields
  <2>12. /\ PoolOK(t, q) /\ DOMAIN q.jobs = DOMAIN pool.jobs /\ ~ Open(q.jobs[e])
         /\ \A f \in DOMAIN pool.jobs : /\ q.jobs[f].strict = pool.jobs[f].strict
                                        /\ Open(q.jobs[f]) => Open(pool.jobs[f])
    <3>1. TookOutcome(pool, q, e, value)
      BY <2>8, <2>11 DEF TookOutcome
    <3>2. Ready(sim, pool, e)
      BY <1>3, <1>4, <1>12, <2>3 DEF Ready
    <3>3. value = OutcomeOf(pool.jobs[e]) /\ due = pool.jobs[e].due
      BY <1>4, <2>1, <2>5
    <3> QED BY <1>1, <1>3, <2>2, <2>7, <3>1, <3>2, <3>3, OutcomePut, SMTT(30)
  <2>13. /\ SimOK(t) /\ Aside(sim, t, {e}) /\ t.now = sim.now
         /\ \A f \in DOMAIN sim.events : t.events[f].processed = sim.events[f].processed
    BY <2>7 DEF Settled
  <2>14. StepOK'
    <3>1. \A f \in {e} \cap DOMAIN sim.events : sim.events[f].processed => sim'.events[f].processed
      BY <2>4, <2>13
    <3>2. Aside(sim, sim', {e})
      BY <2>4, <2>13
    <3> QED BY <1>1, <1>7, <1>9, <3>1, <3>2, CallbackStep
  <2>15. \A f \in Jobs : f \in DOMAIN sim.events
    BY <1>1, JobsFields DEF Jobs
  <2>16. Undelivered(t, q)
    BY <1>6, <2>12, <2>13, <2>15 DEF Undelivered, Jobs
  <2>17. UseOK'
    BY <1>1, <1>10, <2>9, <2>12, UseKept DEF Jobs
  <2>18. WalkOK'
    BY <1>8, <2>9, <2>11, NoWalk
  <2>19. Delivering'
    BY <2>4, <2>9, <2>16, DeliveringKept
  <2>20. SimOK(sim') /\ PoolOK(sim', pool')
    BY <2>4, <2>9, <2>12, <2>13
  <2>21. Calm
    BY <2>4, <2>13, <2>15 DEF Calm
  <2> QED BY <2>14, <2>17, <2>18, <2>19, <2>20, <2>21 DEF OffloadInv
<1> QED BY <1>5, <1>11, <1>12 DEF JobType

\* A walk is begun, or goes on.
Walking(p, w) == [p EXCEPT !.walk = w]

LEMMA PoolWalks ==
  ASSUME NEW s, NEW p, PoolOK(s, p), NEW w \in Seq(Nat), NEW q, q = Walking(p, w)
  PROVE  /\ PoolOK(s, q) /\ q.jobs = p.jobs /\ q.pending = p.pending /\ q.walk = w /\ q.live = p.live
         /\ q.closed = p.closed /\ q.mode = p.mode /\ q.workers = p.workers /\ PoolFields(q)
<1>1. PoolFields(p)
  BY DEF PoolOK
<1>2. /\ q.jobs = p.jobs /\ q.pending = p.pending /\ q.walk = w /\ q.live = p.live /\ q.closed = p.closed
      /\ q.mode = p.mode /\ q.workers = p.workers
  BY <1>1 DEF PoolFields, Walking
<1>3. PoolFields(q)
  BY <1>1, <1>2 DEF PoolFields, Walking
<1>4. \A strict : OpenJobs(q, strict) = OpenJobs(p, strict)
  BY <1>2 DEF OpenJobs
<1>5. \A e \in DOMAIN q.jobs : JobOK(s, q, e)
  BY <1>2 DEF PoolOK, JobOK
<1>6. q.jobs \in [DOMAIN q.jobs -> JobType] /\ DOMAIN q.jobs = {e \in DOMAIN s.events : s.events[e].type = "offload"}
  BY <1>2 DEF PoolOK
<1>7. q.live = OpenJobs(q, TRUE) /\ Range(q.pending) = OpenJobs(q, FALSE) /\ IsInjective(q.pending)
  BY <1>2, <1>4 DEF PoolOK
<1>8. q.closed => OpenJobs(q, TRUE) = {} /\ OpenJobs(q, FALSE) = {}
  BY <1>2, <1>4 DEF PoolOK
<1> QED BY <1>2, <1>3, <1>5, <1>6, <1>7, <1>8 DEF PoolOK

\* The loop stands between two steps: the Sim has not changed but for what is
\* no offload's, and pool looks at what is pending.
LEMMA WalkStarts ==
  ASSUME OffloadInv, Aside(sim, sim', {}), StepOK', Idle', Undelivered(sim, pool), Frame,
         pool' = [pool EXCEPT !.walk = pool.pending]
  PROVE  OffloadInv'
<1>1. PoolOK(sim, pool) /\ UseOK
  BY DEF OffloadInv
<1>2. PICK w : w = pool.pending
  OBVIOUS
<1>3. w \in Seq(Nat) /\ IsInjective(w)
  BY <1>1, <1>2, JobsFields
<1>4. PICK q : q = Walking(pool, w)
  OBVIOUS
<1>5. PoolOK(sim', pool) /\ SimOK(sim')
  BY <1>1, PoolAside DEF Aside
<1>6. PoolOK(sim', q) /\ q.jobs = pool.jobs /\ q.pending = pool.pending /\ q.walk = w
  BY <1>3, <1>4, <1>5, PoolWalks
<1>7. pool' = q
  BY <1>2, <1>4 DEF Walking
<1>8. UseOK'
  BY <1>1, <1>6, <1>7, UseKept DEF Jobs
<1>9. WalkOK'
  BY <1>2, <1>3, <1>6, <1>7 DEF WalkOK
<1>10. \A e \in DOMAIN pool.jobs : e \in DOMAIN sim.events
  BY <1>1, JobsFields
<1>11. Undelivered(sim', pool')
  BY <1>6, <1>7, <1>10 DEF Undelivered, Aside, Established
<1> QED BY <1>5, <1>6, <1>7, <1>8, <1>9, <1>11, DeliveringKept DEF OffloadInv

LEMMA EndStepKeepsPool ==
  ASSUME OffloadInv, EndStep
  PROVE  OffloadInv' /\ Calm
<1>1. SimOK(sim) /\ StepOK /\ UseOK
  BY DEF OffloadInv
<1>2. Aside(sim, sim', {}) /\ StepOK' /\ Frame
  BY <1>1, BetweenAside, FrameLoop DEF EndStep
<1>3. control = Loop /\ step.rest = <<>> /\ step.task # NoTask
  BY DEF EndStep, FinishStep
<1>4. Undelivered(sim, pool) /\ pool.walk = <<>>
  BY <1>3, NoneDelivered, AtRest
<1>7. Calm
  BY <1>1, <1>2, LoopClock, AsideCalm DEF EndStep
<1> SUFFICES OffloadInv'
  BY <1>7
<1>5. CASE control' = Loop
  <2>1. step' = [task |-> NoTask, rest |-> <<>>]
    BY <1>5 DEF EndStep, FinishStep, Cut, Main, Loop
  <2>2. Idle'
    BY <1>5, <2>1 DEF Idle
  <2>3. pool' = [pool EXCEPT !.walk = pool.pending]
    BY <1>5 DEF EndStep
  <2> QED BY <1>2, <1>4, <2>2, <2>3, WalkStarts
<1>6. CASE control' # Loop
  BY <1>2, <1>4, <1>6, PoolLeft DEF EndStep
<1> QED BY <1>5, <1>6

LEMMA DrainKeepsPool ==
  ASSUME OffloadInv, Drain
  PROVE  OffloadInv' /\ Calm
<1>1. SimOK(sim) /\ StepOK /\ UseOK /\ Idle /\ UNCHANGED kernelVars /\ pool' = [pool EXCEPT !.walk = pool.pending]
  BY DEF OffloadInv, Drain
<1>2. SimOK(sim') /\ StepOK' /\ Idle'
  BY <1>1 DEF kernelVars, StepOK, Idle
<1>3. Aside(sim, sim', {})
  BY <1>1, <1>2, AsideNothing DEF kernelVars
<1>4. Frame
  BY <1>1, FrameCast DEF UseOK, kernelVars
<1>5. Undelivered(sim, pool)
  BY <1>1, NoneDelivered
<1>6. Calm
  BY <1>1 DEF Calm, kernelVars
<1> QED BY <1>1, <1>2, <1>3, <1>4, <1>5, <1>6, WalkStarts

\* A paced run that is too late raises.
LEMMA DriftKeepsPool ==
  ASSUME OffloadInv, Idle, Polled, Cut(sim, <<>>, {}, "drift"), UNCHANGED pool
  PROVE  OffloadInv' /\ Calm
<1>1. SimOK(sim) /\ UseOK
  BY DEF OffloadInv
<1>2. sim' = sim /\ control' = Main /\ step' = [task |-> NoTask, rest |-> <<>>]
      /\ UNCHANGED cast /\ run' = [run EXCEPT !.result = "drift"]
  BY DEF Cut
<1>3. Aside(sim, sim', {}) /\ StepOK'
  BY <1>1, <1>2, AsideNothing, CutStep
<1>4. Frame
  BY <1>1, <1>2, FrameCast DEF UseOK
<1>5. Undelivered(sim, pool) /\ pool.walk = <<>>
  BY NoneDelivered DEF Polled
<1>6. Calm
  BY <1>2 DEF Calm
<1> QED BY <1>3, <1>4, <1>5, <1>6, PoolLeft

LEMMA PopEventKeepsPool ==
  ASSUME OffloadInv, NEW i \in DOMAIN sim.queue, PopEvent(i), pool.walk = <<>>, UNCHANGED pool, Frame
  PROVE  OffloadInv'
<1>1. SimOK(sim) /\ StepOK /\ UseOK /\ PoolOK(sim, pool)
  BY DEF OffloadInv
<1>2. PICK e : e = sim.queue[i].task.of
  OBVIOUS
<1>3. /\ Aside(sim, sim', {e}) /\ StepOK' /\ step'.task = Call("event", e)
      /\ e \in DOMAIN sim.events /\ ~ sim.events[e].processed /\ sim.events[e].state # "pending"
      /\ sim'.events[e].type = sim.events[e].type /\ sim'.events[e].state = sim.events[e].state
      /\ sim'.events[e].processed
      /\ step'.rest = sim.events[e].callbacks /\ control' = Loop
      /\ \A k \in DOMAIN sim'.queue : \E j \in DOMAIN sim.queue : sim.queue[j] = sim'.queue[k]
  BY <1>1, <1>2, PopEventAside, ZenonT(60)
<1>4. DOMAIN pool.jobs = {f \in DOMAIN sim'.events : sim'.events[f].type = "offload"}
  <2>1. {e} \subseteq DOMAIN sim.events
    BY <1>3
  <2> QED BY <1>1, <1>3, <2>1, SameJobs DEF PoolOK
<1>5. ASSUME NEW f \in DOMAIN pool.jobs PROVE JobOK(sim', pool, f)
  <2>1. CASE f # e
    BY <1>1, <1>3, <2>1, OthersKept
  <2>2. CASE f = e
    <3>1. JobOK(sim, pool, e)
      BY <1>1, <2>2, JobsFields
    <3> QED BY <1>3, <2>2, <3>1 DEF JobOK
  <2> QED BY <2>1, <2>2
<1>6. PoolOK(sim', pool')
  BY <1>1, <1>4, <1>5 DEF PoolOK
<1>7. UseOK' /\ WalkOK'
  BY <1>1, UseKept, NoWalk DEF Jobs
<1>8. Undelivered(sim, pool)
  BY NoneDelivered DEF PopEvent
<1>9. ASSUME NEW f \in DOMAIN pool.jobs, pool.jobs[f].strict, Open(pool.jobs[f]), sim'.events[f].processed
      PROVE  /\ control' = Loop /\ step'.task = Call("event", f)
             /\ step'.rest # <<>> /\ Head(step'.rest) = OwnCall
  <2>1. f \in DOMAIN sim.events /\ ~ sim.events[f].processed /\ JobOK(sim, pool, f)
    BY <1>1, <1>8, <1>9, JobsFields DEF Undelivered
  <2>2. f = e
    BY <1>3, <1>9, <2>1 DEF Aside, Established
  <2>3. Leads(OwnCall, sim.events[e].callbacks)
    BY <1>9, <2>1, <2>2 DEF JobOK
  <2> QED BY <1>3, <2>2, <2>3 DEF Leads
<1>10. Delivering'
  BY <1>9 DEF Delivering, Jobs
<1> QED BY <1>3, <1>6, <1>7, <1>10 DEF OffloadInv, Aside

LEMMA StepNextKeepsPool ==
  ASSUME OffloadInv, StepNext
  PROVE  OffloadInv'
<1>1. SimOK(sim) /\ StepOK /\ UseOK
  BY DEF OffloadInv
<1>2. Pop /\ pool.walk = <<>> /\ UNCHANGED pool
  BY DEF StepNext, Polled
<1>3. Frame
  BY <1>1, <1>2, FrameLoop
<1>4. PICK i \in DOMAIN sim.queue : PopTask(i) \/ PopAgain(i) \/ PopEvent(i)
  BY <1>2, PopCases
<1>5. Undelivered(sim, pool)
  BY <1>4, NoneDelivered DEF PopTask, PopAgain, PopEvent
<1>6. CASE PopTask(i) \/ PopAgain(i)
  <2>1. Aside(sim, sim', {}) /\ StepOK'
    BY <1>1, <1>6, PopAside
  <2> QED BY <1>2, <1>3, <1>5, <2>1, PoolLeft
<1>7. CASE PopEvent(i)
  BY <1>2, <1>3, <1>7, PopEventKeepsPool
<1> QED BY <1>4, <1>6, <1>7

\* OffloadPool._deliver, of one finished offload.
LEMMA DeliveredKeepsPool ==
  ASSUME OffloadInv, PollOne, NEW e, e = Head(pool.walk), FutureDone(pool.jobs[e])
  PROVE  OffloadInv' /\ Calm
<1>1. SimOK(sim) /\ StepOK /\ UseOK /\ PoolOK(sim, pool)
  BY DEF OffloadInv
<1>2. PICK w : w = pool.walk
  OBVIOUS
<1>3. w \in Seq(Nat) /\ IsInjective(w) /\ w # <<>> /\ Range(w) \subseteq Range(pool.pending) /\ Idle
  BY <1>1, <1>2, JobsFields DEF OffloadInv, WalkOK, PollOne
<1>4. /\ e \in Range(w) /\ Tail(w) \in Seq(Nat) /\ IsInjective(Tail(w)) /\ Range(Tail(w)) \subseteq Range(w) \ {e}
  BY <1>2, <1>3, TailMember
<1>5. PICK rest : rest = Tail(w)
  OBVIOUS
<1>b. PoolOK(sim, pool)
  BY <1>1
<1>a. rest \in Seq(Nat)
  BY <1>4, <1>5
<1>6. PICK q1 : q1 = Walking(pool, rest)
  OBVIOUS
<1>7. /\ PoolOK(sim, q1) /\ q1.jobs = pool.jobs /\ q1.pending = pool.pending /\ q1.walk = rest
      /\ q1.live = pool.live /\ q1.closed = pool.closed /\ PoolFields(q1)
  BY <1>6, <1>a, <1>b, PoolWalks
<1>8. e \in OpenJobs(pool, FALSE)
  BY <1>1, <1>3, <1>4, JobsFields
<1>9. e \in DOMAIN pool.jobs /\ ~ pool.jobs[e].strict /\ Open(pool.jobs[e]) /\ e \in DOMAIN sim.events
      /\ pool.jobs[e] \in JobType /\ JobOK(sim, pool, e)
  BY <1>1, <1>8, JobsFields DEF OpenJobs
<1>10. sim.events[e].state = "pending"
  BY <1>9 DEF JobOK
<1>11. PICK value : value = OutcomeOf(pool.jobs[e])
  OBVIOUS
<1>12. PICK state : state = StateOf(value)
  OBVIOUS
<1>13. PICK due : due = pool.jobs[e].due
  OBVIOUS
<1>14. PICK t : t = sim'
  OBVIOUS
<1>15. t = Schedule([sim EXCEPT !.events[e].state = state], Call("event", e), NORMAL, Later(sim, due))
       /\ pool' = [[pool EXCEPT !.walk = Tail(@)] EXCEPT !.pending = RemoveFirst(@, e), !.jobs[e].value = value]
       /\ UNCHANGED <<control, step, run, cast, ghost>>
  BY <1>11, <1>12, <1>13, <1>14 DEF PollOne
<1>16. state \in {"ok", "failed"} /\ due \in Times
  BY <1>9, <1>12, <1>13 DEF StateOf, JobType
<1>17. Settled(sim, t, e, state, due)
  BY <1>1, <1>9, <1>10, <1>15, <1>16, OutcomeSettles
<1>18. PICK jobs : jobs = WithOutcome(pool, e, value)
  OBVIOUS
<1>19. PICK q : q = pool'
  OBVIOUS
<1>20. PICK left : left = RemoveFirst(pool.pending, e)
  OBVIOUS
<1>21. q = [q1 EXCEPT !.pending = left, !.jobs = jobs]
  <2>1. pool' = [q1 EXCEPT !.pending = RemoveFirst(@, e), !.jobs[e].value = value]
    BY <1>2, <1>5, <1>6, <1>15 DEF Walking
  <2> QED BY <1>7, <1>18, <1>19, <1>20, <2>1 DEF WithOutcome
<1>22. left \in Seq(Nat) /\ Range(left) = Range(pool.pending) \ {e}
  <2>1. PICK a : a = pool.pending
    OBVIOUS
  <2>2. a \in Seq(Nat) /\ IsInjective(a)
    BY <1>1, <2>1, JobsFields
  <2>3. e \in Nat
    BY <1>1, <1>9, SimFields DEF SimOK
  <2> QED BY <1>20, <2>1, <2>2, <2>3, RemoveMember
<1>23. /\ q.pending = left /\ q.jobs = jobs /\ q.walk = rest /\ q.live = pool.live /\ q.closed = pool.closed
       /\ PoolFields(q)
  BY <1>7, <1>21, <1>22 DEF PoolFields
<1>24. pool.live = pool.live \ {e}
  BY <1>1, <1>9, JobsFields DEF OpenJobs
<1>25. TookOutcome(pool, q, e, value)
  BY <1>18, <1>20, <1>23, <1>24 DEF TookOutcome
<1>26. Ready(sim, pool, e)
  BY <1>9 DEF Ready, Open
<1>27. /\ PoolOK(t, q) /\ DOMAIN q.jobs = DOMAIN pool.jobs
       /\ \A f \in DOMAIN pool.jobs : /\ q.jobs[f].strict = pool.jobs[f].strict
                                      /\ Open(q.jobs[f]) => Open(pool.jobs[f])
  BY <1>1, <1>9, <1>11, <1>12, <1>13, <1>17, <1>25, <1>26, OutcomePut, SMTT(30)
<1>28. /\ SimOK(t) /\ Aside(sim, t, {e}) /\ t.now = sim.now
       /\ \A f \in DOMAIN sim.events : t.events[f].processed = sim.events[f].processed
  BY <1>17 DEF Settled
<1>29. StepOK'
  <2>1. \A f \in {e} \cap DOMAIN sim.events : sim.events[f].processed => sim'.events[f].processed
    BY <1>14, <1>28
  <2>2. Aside(sim, sim', {e})
    BY <1>14, <1>28
  <2> QED BY <1>1, <1>15, <2>1, <2>2, CallsKeepStep
<1>30. Undelivered(sim, pool)
  BY <1>3, NoneDelivered
<1>31. Undelivered(t, q)
  <2>1. \A f \in DOMAIN pool.jobs : f \in DOMAIN sim.events
    BY <1>1, JobsFields
  <2> QED BY <1>27, <1>28, <1>30, <2>1 DEF Undelivered
<1>32. UseOK'
  <2>1. Frame
    BY <1>1, <1>15, FrameCast DEF UseOK
  <2> QED BY <1>1, <1>19, <1>27, <2>1, UseKept DEF Jobs
<1>33. WalkOK'
  BY <1>3, <1>4, <1>5, <1>15, <1>19, <1>22, <1>23 DEF WalkOK, Idle
<1>34. Delivering'
  BY <1>14, <1>19, <1>31, DeliveringKept
<1>35. SimOK(sim') /\ PoolOK(sim', pool')
  BY <1>14, <1>19, <1>27, <1>28
<1>36. Calm
  <2>1. \A f \in Jobs : f \in DOMAIN sim.events
    BY <1>1, JobsFields DEF Jobs
  <2> QED BY <1>14, <1>28, <2>1 DEF Calm
<1> QED BY <1>29, <1>32, <1>33, <1>34, <1>35, <1>36 DEF OffloadInv

LEMMA PollOneKeepsPool ==
  ASSUME OffloadInv, PollOne
  PROVE  OffloadInv' /\ Calm
<1>1. PICK e : e = Head(pool.walk)
  OBVIOUS
<1>2. CASE FutureDone(pool.jobs[e])
  BY <1>1, <1>2, DeliveredKeepsPool
<1>3. CASE ~ FutureDone(pool.jobs[e])
  <2>1. SimOK(sim) /\ StepOK /\ UseOK /\ PoolOK(sim, pool)
    BY DEF OffloadInv
  <2>2. PICK w : w = pool.walk
    OBVIOUS
  <2>3. w \in Seq(Nat) /\ IsInjective(w) /\ w # <<>> /\ Range(w) \subseteq Range(pool.pending) /\ Idle
    BY <2>1, <2>2, JobsFields DEF OffloadInv, WalkOK, PollOne
  <2>4. Tail(w) \in Seq(Nat) /\ IsInjective(Tail(w)) /\ Range(Tail(w)) \subseteq Range(w)
    BY <2>3, TailMember
  <2>5. PICK rest : rest = Tail(w)
    OBVIOUS
  <2>6. PICK q : q = Walking(pool, rest)
    OBVIOUS
  <2>7. PoolOK(sim, q) /\ q.jobs = pool.jobs /\ q.pending = pool.pending /\ q.walk = rest
    <3>1. rest \in Seq(Nat)
      BY <2>4, <2>5
    <3> QED BY <2>1, <2>6, <3>1, PoolWalks
  <2>8. pool' = q /\ sim' = sim /\ UNCHANGED <<control, step, run, cast, ghost>>
    BY <1>1, <1>3, <2>2, <2>5, <2>6 DEF PollOne, Walking
  <2>9. UseOK'
    <3>1. Frame
      BY <2>1, <2>8, FrameCast DEF UseOK
    <3> QED BY <2>1, <2>7, <2>8, <3>1, UseKept DEF Jobs
  <2>10. WalkOK'
    BY <2>3, <2>4, <2>5, <2>7, <2>8 DEF WalkOK, Idle
  <2>11. Undelivered(sim, pool)
    BY <2>3, NoneDelivered
  <2>12. Undelivered(sim', pool')
    BY <2>7, <2>8, <2>11 DEF Undelivered
  <2>13. StepOK'
    BY <2>1, <2>8 DEF StepOK
  <2>14. Calm
    BY <2>8 DEF Calm
  <2> QED BY <2>1, <2>7, <2>8, <2>9, <2>10, <2>12, <2>13, <2>14, DeliveringKept DEF OffloadInv
<1> QED BY <1>2, <1>3

-----------------------------------------------------------------------------
(* A new offload.                                                           *)

\* The record put at the end of a sequence may as well have been put there
\* before it was complete.
At(a, n, y) == [a EXCEPT ![n] = y]

LEMMA AppendedLate ==
  ASSUME NEW S, NEW a \in Seq(S), NEW x \in S, NEW y \in S, NEW n, n = Len(a) + 1
  PROVE  At(Append(a, x), n, y) = Append(a, y)
<1>1. PICK b : b = At(Append(a, x), n, y)
  OBVIOUS
<1>2. PICK c : c = Append(a, y)
  OBVIOUS
<1>a. PICK p : p = Append(a, x)
  OBVIOUS
<1>b. p \in Seq(S) /\ Len(p) = n /\ n \in Nat \ {0} /\ DOMAIN p = 1 .. n /\ \A i \in 1 .. n : i # n => p[i] = a[i]
  BY <1>a
<1>c. b = [p EXCEPT ![n] = y]
  BY <1>1, <1>a DEF At
<1>d. b = [i \in 1 .. n |-> IF i = n THEN y ELSE p[i]]
  BY <1>b, <1>c
<1>e. \A i \in 1 .. n : b[i] \in S
  BY <1>b, <1>d
<1>3. b \in Seq(S) /\ Len(b) = n /\ \A i \in 1 .. n : b[i] = IF i = n THEN y ELSE a[i]
  BY <1>b, <1>d, <1>e
<1>4. c \in Seq(S) /\ Len(c) = n /\ \A i \in 1 .. n : c[i] = IF i = n THEN y ELSE a[i]
  BY <1>2
<1>5. b = c
  BY <1>3, <1>4
<1> QED BY <1>1, <1>2, <1>5

LEMMA HookedAtBirth ==
  ASSUME NEW s, SimOK(s), NEW r \in EventType, r.callbacks = <<>>, NEW e, e = Fresh(s), NEW call \in CallType,
         NEW h, h = [r EXCEPT !.callbacks = <<call>>]
  PROVE  h \in EventType /\ Create(s, h) = Hook(Create(s, r), e, call)
<1>1. s \in SimType /\ s.events \in Seq(EventType)
  BY SimFields DEF SimOK
<1>2. <<call>> \in Seq(CallType) /\ Append(<<>>, call) = <<call>>
  OBVIOUS
<1>3. h \in EventType
  BY <1>2 DEF EventType
<1>4. PICK a : a = s.events
  OBVIOUS
<1>5. a \in Seq(EventType) /\ e = Len(a) + 1
  BY <1>1, <1>4 DEF Fresh
<1>6. [Append(a, r) EXCEPT ![e] = h] = Append(a, h)
  <2>1. PICK S : S = EventType
    OBVIOUS
  <2>2. a \in Seq(S) /\ r \in S /\ h \in S
    BY <1>3, <1>5, <2>1
  <2>3. e = Len(a) + 1
    BY <1>5
  <2>4. At(Append(a, r), e, h) = Append(a, h)
    BY <2>2, <2>3, AppendedLate
  <2> QED BY <2>4 DEF At
<1>7. Append(a, r)[e] = r
  BY <1>5
<1>8. Hook(Create(s, r), e, call) = [Create(s, r) EXCEPT !.events = [Append(a, r) EXCEPT ![e] = h]]
  <2>1. Create(s, r).events = Append(a, r)
    BY <1>1, <1>4 DEF Create, SimType
  <2>2. h = [r EXCEPT !.callbacks = Append(@, call)]
    BY <1>2
  <2> QED BY <1>7, <2>1, <2>2 DEF Hook
<1>9. [Create(s, r) EXCEPT !.events = Append(a, h)] = Create(s, h)
  BY <1>1, <1>4 DEF Create, SimType
<1> QED BY <1>3, <1>6, <1>8, <1>9

\* What the Sim has of an offload that has just been submitted.
Submitted(s, t, e, strict, due) ==
  /\ Aside(s, t, {e}) /\ e \notin DOMAIN s.events /\ e \in Nat
  /\ DOMAIN t.events = DOMAIN s.events \cup {e}
  /\ \A f \in DOMAIN s.events : t.events[f] = s.events[f]
  /\ t.events[e].type = "offload" /\ ~ t.events[e].processed
  /\ IF strict THEN /\ t.events[e].state = "ok" /\ t.events[e].callbacks = <<OwnCall>>
                    /\ Due(t, Call("event", e))
               ELSE t.events[e].state = "pending"
  /\ \A i \in DOMAIN t.queue : t.queue[i].task = Call("event", e) => strict /\ t.queue[i].at = due

LEMMA NotYetDue ==
  ASSUME NEW s, SimOK(s), NEW e, e \notin DOMAIN s.events
  PROVE  \A i \in DOMAIN s.queue : s.queue[i].task # Call("event", e)
<1> TAKE i \in DOMAIN s.queue
<1>1. EntryOK(s, s.queue[i])
  BY DEF SimOK
<1> QED BY <1>1 DEF EntryOK, Call

LEMMA SubmitLoose ==
  ASSUME NEW s, SimOK(s), NEW e, e = Fresh(s), NEW t, t = Create(s, NewEvent("offload")), NEW due
  PROVE  Submitted(s, t, e, FALSE, due)
<1>1. PICK r : r = NewEvent("offload")
  OBVIOUS
<1>2. /\ r \in EventType /\ r.type = "offload" /\ r.state = "pending" /\ ~ r.processed
      /\ r.callbacks = <<>> /\ r.target = None /\ Range(r.members) \subseteq DOMAIN s.events
  BY <1>1, NewEventFits DEF Range
<1>3. /\ Aside(s, t, {e}) /\ SimOK(t) /\ DOMAIN t.events = DOMAIN s.events \cup {e} /\ t.events[e] = r
      /\ e \notin DOMAIN s.events /\ t.queue = s.queue
      /\ \A f \in DOMAIN s.events : t.events[f] = s.events[f]
  BY <1>1, <1>2, AsideCreate, AddEvent
<1>4. e \in Nat
  BY <1>3, SimFields DEF SimOK
<1>5. \A i \in DOMAIN t.queue : t.queue[i].task # Call("event", e)
  BY <1>3, NotYetDue
<1> QED BY <1>2, <1>3, <1>4, <1>5 DEF Submitted

LEMMA SubmitStrict ==
  ASSUME NEW s, SimOK(s), NEW e, e = Fresh(s), NEW d \in Times,
         NEW t, t = Schedule(Create(s, [NewEvent("offload") EXCEPT !.state = "ok", !.callbacks = <<OwnCall>>]),
                             Call("event", e), NORMAL, d)
  PROVE  Submitted(s, t, e, TRUE, Plus(s.now, d))
<1>1. PICK q : q = NewEvent("offload")
  OBVIOUS
<1>2. /\ q \in EventType /\ q.type = "offload" /\ ~ q.processed
      /\ q.callbacks = <<>> /\ q.target = None /\ Range(q.members) \subseteq DOMAIN s.events
  BY <1>1, NewEventFits DEF Range
<1>3. PICK r : r = [q EXCEPT !.state = "ok"]
  OBVIOUS
<1>4. /\ r \in EventType /\ r.type = "offload" /\ ~ r.processed /\ r.callbacks = <<>> /\ r.target = None
      /\ r.state = "ok" /\ Range(r.members) \subseteq DOMAIN s.events
  BY <1>2, <1>3 DEF EventType
<1>5. PICK h : h = [r EXCEPT !.callbacks = <<OwnCall>>]
  OBVIOUS
<1>6. OwnCall \in CallType /\ OwnCall.do = "resolve"
  BY DEF OwnCall, Call, CallType, None
<1>7. PICK u : u = Create(s, r)
  OBVIOUS
<1>8. /\ Aside(s, u, {e}) /\ SimOK(u) /\ DOMAIN u.events = DOMAIN s.events \cup {e} /\ u.events[e] = r
      /\ e \notin DOMAIN s.events /\ u.queue = s.queue /\ u.now = s.now
      /\ \A f \in DOMAIN s.events : u.events[f] = s.events[f]
  BY <1>4, <1>7, AsideCreate, AddEvent
<1>9. PICK v : v = Hook(u, e, OwnCall)
  OBVIOUS
<1>10. v = Create(s, h)
  BY <1>4, <1>5, <1>6, <1>7, <1>9, HookedAtBirth
<1>11. t = Schedule(v, Call("event", e), NORMAL, d)
  BY <1>1, <1>3, <1>5, <1>10
<1>12. CallOK(u, e, OwnCall)
  BY <1>4, <1>6, <1>8 DEF CallOK
<1>13. /\ SimOK(v) /\ Only(u, v, e) /\ Likewise(u.events[e], v.events[e])
       /\ Joined(u.events[e].callbacks, v.events[e].callbacks, OwnCall)
  <2>1. e \in DOMAIN u.events /\ ~ u.events[e].processed
    BY <1>4, <1>8
  <2> QED BY <1>6, <1>8, <1>9, <1>12, <2>1, HookSim
<1>14. Aside(u, v, {e})
  <2>1. \A f \in DOMAIN u.events :
          /\ v.events[f].type = u.events[f].type /\ v.events[f].members = u.events[f].members
          /\ v.events[f].processed = u.events[f].processed
          /\ f \notin {e} /\ Reserved(u, f) =>
               /\ v.events[f].state = u.events[f].state
               /\ Follows(u.events[f].callbacks, v.events[f].callbacks)
    BY <1>13, FollowsSame DEF Only, Likewise
  <2> QED BY <1>8, <1>13, <2>1, AsideEvents DEF Only
<1>15. /\ v.events[e].type = "offload" /\ ~ v.events[e].processed /\ v.events[e].state = "ok"
       /\ v.events[e].callbacks = <<OwnCall>>
  BY <1>4, <1>8, <1>13 DEF Likewise, Joined
<1>16. e \in DOMAIN v.events /\ v.events[e].state # "pending"
  BY <1>8, <1>13, <1>15 DEF Only
<1>17. /\ SimOK(t) /\ t.events = v.events /\ Aside(v, t, {e})
       /\ t.queue = Append(v.queue, [at |-> Plus(v.now, d), prio |-> NORMAL, task |-> Call("event", e)])
  BY <1>11, <1>13, <1>16, ScheduledSim
<1>18. Aside(s, t, {e})
  BY <1>8, <1>14, <1>17, AsideTrans
<1>19. v.now = s.now /\ v.queue = s.queue /\ s.queue \in Seq(EntryType)
  BY <1>8, <1>13, SimFields DEF Only, SimOK
<1>20. PICK entry : entry = [at |-> Plus(s.now, d), prio |-> NORMAL, task |-> Call("event", e)]
  OBVIOUS
<1>21. t.queue = Append(s.queue, entry) /\ entry.at = Plus(s.now, d) /\ entry.task = Call("event", e)
  BY <1>17, <1>19, <1>20
<1>22. /\ DOMAIN t.queue = DOMAIN s.queue \cup {Len(s.queue) + 1}
       /\ t.queue[Len(s.queue) + 1] = entry
       /\ \A i \in DOMAIN s.queue : t.queue[i] = s.queue[i]
  BY ONLY <1>19, <1>21
<1>23. Due(t, Call("event", e))
  BY <1>21, <1>22 DEF Due
<1>24. \A i \in DOMAIN t.queue : t.queue[i].task = Call("event", e) => t.queue[i].at = Plus(s.now, d)
  BY <1>8, <1>21, <1>22, NotYetDue
<1>25. e \in Nat
  BY <1>8, SimFields DEF SimOK
<1>26. DOMAIN t.events = DOMAIN s.events \cup {e} /\ \A f \in DOMAIN s.events : t.events[f] = s.events[f]
  BY <1>8, <1>13, <1>17 DEF Only
<1> QED BY <1>8, <1>15, <1>17, <1>18, <1>23, <1>24, <1>25, <1>26 DEF Submitted

\* The pool knows the new offload.
TookOn(p, q, e, job) ==
  /\ PoolFields(q) /\ q.jobs = WithJob(p.jobs, e, job) /\ q.closed = p.closed /\ q.walk = p.walk
  /\ q.live = IF job.strict THEN p.live \cup {e} ELSE p.live
  /\ q.pending = IF job.strict THEN p.pending ELSE Append(p.pending, e)

LEMMA PoolBorn ==
  ASSUME NEW s, SimOK(s), NEW p, PoolOK(s, p), ~ p.closed, NEW job \in JobType,
         job.value = "nothing", ~ job.abandoned, job.future # "cancelled",
         NEW due, due = job.due, NEW strict \in BOOLEAN, strict = job.strict,
         NEW t, NEW e, Submitted(s, t, e, strict, due), NEW q, TookOn(p, q, e, job)
  PROVE  /\ PoolOK(t, q) /\ DOMAIN q.jobs = DOMAIN p.jobs \cup {e} /\ q.jobs[e] = job
         /\ \A f \in DOMAIN p.jobs : f # e /\ q.jobs[f] = p.jobs[f]
<1>1. /\ Aside(s, t, {e}) /\ e \notin DOMAIN s.events /\ e \in Nat
      /\ DOMAIN t.events = DOMAIN s.events \cup {e}
      /\ \A f \in DOMAIN s.events : t.events[f] = s.events[f]
      /\ t.events[e].type = "offload" /\ ~ t.events[e].processed
      /\ IF strict THEN /\ t.events[e].state = "ok" /\ t.events[e].callbacks = <<OwnCall>>
                        /\ Due(t, Call("event", e))
                   ELSE t.events[e].state = "pending"
      /\ \A i \in DOMAIN t.queue : t.queue[i].task = Call("event", e) => strict /\ t.queue[i].at = due
  BY DEF Submitted
<1>2. /\ PoolFields(q) /\ q.jobs = WithJob(p.jobs, e, job) /\ q.closed = p.closed /\ q.walk = p.walk
      /\ q.live = IF strict THEN p.live \cup {e} ELSE p.live
      /\ q.pending = IF strict THEN p.pending ELSE Append(p.pending, e)
  BY DEF TookOn
<1>3. \A f \in DOMAIN p.jobs : f \in DOMAIN s.events
  BY JobsFields
<1>4. /\ DOMAIN q.jobs = DOMAIN p.jobs \cup {e} /\ q.jobs[e] = job
      /\ \A f \in DOMAIN p.jobs : f # e /\ q.jobs[f] = p.jobs[f]
  BY <1>1, <1>2, <1>3 DEF WithJob
<1>5. q.jobs \in [DOMAIN q.jobs -> JobType]
  <2>1. \A f \in DOMAIN q.jobs : q.jobs[f] \in JobType
    BY <1>4, JobsFields
  <2>2. q.jobs = [f \in DOMAIN q.jobs |-> q.jobs[f]]
    BY <1>2, <1>4 DEF WithJob
  <2> QED BY <2>1, <2>2
<1>6. DOMAIN q.jobs = {f \in DOMAIN t.events : t.events[f].type = "offload"}
  BY <1>1, <1>3, <1>4 DEF PoolOK
<1>7. Open(job)
  BY DEF Open
<1>8. JobOK(t, q, e)
  <2>1. strict => Leads(OwnCall, t.events[e].callbacks)
    <3>1. ASSUME NEW a, a = <<OwnCall>> PROVE Leads(OwnCall, a)
      BY <3>1 DEF Leads
    <3>2. strict => t.events[e].callbacks = <<OwnCall>>
      BY <1>1
    <3> QED BY <3>1, <3>2
  <2>2. strict => t.events[e].state # "pending" /\ Due(t, Call("event", e))
    BY <1>1
  <2>3. ~ strict => t.events[e].state = "pending"
    BY <1>1
  <2> QED BY <1>1, <1>4, <1>7, <2>1, <2>2, <2>3 DEF JobOK
<1>9. ASSUME NEW f \in DOMAIN q.jobs PROVE JobOK(t, q, f)
  <2>1. CASE f = e
    BY <1>8, <2>1
  <2>2. CASE f # e
    <3>1. f \in DOMAIN p.jobs \ {e} /\ q.jobs[f] = p.jobs[f]
      BY <1>4, <2>2
    <3> QED BY <1>1, <3>1, OthersKept
  <2> QED BY <2>1, <2>2
<1>10. OpenJobs(q, strict) = OpenJobs(p, strict) \cup {e}
  BY <1>3, <1>4, <1>7, <1>1 DEF OpenJobs
<1>11. \A other \in BOOLEAN : other # strict => OpenJobs(q, other) = OpenJobs(p, other)
  BY <1>3, <1>4, <1>1 DEF OpenJobs
<1>12. p.live = OpenJobs(p, TRUE) /\ Range(p.pending) = OpenJobs(p, FALSE) /\ IsInjective(p.pending)
       /\ p.pending \in Seq(Nat)
  BY JobsFields
<1>13. q.live = OpenJobs(q, TRUE)
  BY <1>2, <1>10, <1>11, <1>12
<1>14. Range(q.pending) = OpenJobs(q, FALSE) /\ IsInjective(q.pending)
  <2>1. CASE strict
    BY <1>2, <1>11, <1>12, <2>1
  <2>2. CASE ~ strict
    <3>1. PICK a : a = p.pending
      OBVIOUS
    <3>2. a \in Seq(Nat) /\ IsInjective(a) /\ e \notin Range(a)
      BY <1>1, <1>3, <1>12, <3>1 DEF OpenJobs
    <3>3. IsInjective(Append(a, e)) /\ Range(Append(a, e)) = Range(a) \cup {e}
      BY <1>1, <3>2, AppendMember
    <3>4. q.pending = Append(a, e)
      BY <1>2, <2>2, <3>1
    <3>5. OpenJobs(q, FALSE) = OpenJobs(p, FALSE) \cup {e}
      BY <1>10, <2>2
    <3> QED BY <1>12, <3>1, <3>3, <3>4, <3>5
  <2> QED BY <2>1, <2>2
<1>15. PoolOK(t, q)
  BY <1>2, <1>5, <1>6, <1>9, <1>13, <1>14 DEF PoolOK
<1> QED BY <1>4, <1>15

LEMMA SubmitKeepsPool ==
  ASSUME OffloadInv, Submit
  PROVE  OffloadInv' /\ Calm
<1>1. SimOK(sim) /\ StepOK /\ UseOK /\ PoolOK(sim, pool)
  BY DEF OffloadInv
<1>2. ~ pool.closed
  BY DEF Submit
<1>3. PICK kind \in {"strict", "nonstrict"}, d \in Delays \cup {0}, outcome \in cast.outcomes :
        LET e == Fresh(sim)
            strict == kind = "strict"
            job == NewJob(strict, Plus(sim.now, d),
                          IF pool.mode = "inline" THEN "done" ELSE "queued", outcome)
            known == [pool EXCEPT !.jobs = WithJob(@, e, job)]
            born == NewEvent("offload")
        IN  /\ May(kind)
            /\ IF strict
               THEN UserCalls(Schedule(Create(sim, [born EXCEPT
                                           !.state = "ok",
                                           !.callbacks = <<Call("resolve", None)>>]),
                                       Call("event", e), NORMAL, d),
                              [known EXCEPT !.live = @ \cup {e}])
               ELSE UserCalls(Create(sim, born), [known EXCEPT !.pending = Append(@, e)])
  BY Zenon DEF Submit
<1>4. PICK e : e = Fresh(sim)
  OBVIOUS
<1>5. PICK strict \in BOOLEAN : strict = (kind = "strict")
  OBVIOUS
<1>6. PICK future \in {"queued", "done"} : future = IF pool.mode = "inline" THEN "done" ELSE "queued"
  OBVIOUS
<1>7. PICK due : due = Plus(sim.now, d)
  OBVIOUS
<1>8. PICK job : job = NewJob(strict, due, future, outcome)
  OBVIOUS
<1>9. d \in Times /\ due \in Times /\ outcome \in Outcomes
  <2>1. sim.now \in Times
    BY <1>1, SimFields DEF SimOK
  <2>2. d \in Times
    BY KernelAssumption, TimesAreNatural
  <2>3. outcome \in Outcomes
    BY <1>1 DEF UseOK
  <2> QED BY <1>7, <2>1, <2>2, <2>3, PlusTimes
<1>10. /\ job \in JobType /\ job.value = "nothing" /\ ~ job.abandoned /\ job.future # "cancelled"
       /\ job.due = due /\ job.strict = strict
  BY <1>8, <1>9 DEF NewJob, JobType
<1>11. May(kind) /\ control # Loop /\ kind \in cast.menu
  BY <1>1, <1>3, MayIsUser
<1>12. Undelivered(sim, pool) /\ pool.walk = <<>>
  BY <1>11, NoneDelivered, AtRest
<1>13. PICK jobs : jobs = WithJob(pool.jobs, e, job)
  OBVIOUS
<1>14. PICK t : t = sim'
  OBVIOUS
<1>15. PICK q : q = pool'
  OBVIOUS
<1>16. /\ cast' = [cast EXCEPT !.calls = @ - 1] /\ UNCHANGED <<control, step, run, ghost>>
       /\ IF strict
          THEN /\ t = Schedule(Create(sim, [NewEvent("offload") EXCEPT !.state = "ok", !.callbacks = <<OwnCall>>]),
                               Call("event", e), NORMAL, d)
               /\ q = [[pool EXCEPT !.jobs = jobs] EXCEPT !.live = @ \cup {e}]
          ELSE /\ t = Create(sim, NewEvent("offload"))
               /\ q = [[pool EXCEPT !.jobs = jobs] EXCEPT !.pending = Append(@, e)]
  <2>1. CASE strict
    BY <1>3, <1>4, <1>5, <1>6, <1>7, <1>8, <1>13, <1>14, <1>15, <2>1 DEF UserCalls, Calls, OwnCall
  <2>2. CASE ~ strict
    BY <1>3, <1>4, <1>5, <1>6, <1>7, <1>8, <1>13, <1>14, <1>15, <2>2 DEF UserCalls, Calls
  <2> QED BY <2>1, <2>2
<1>17. Submitted(sim, t, e, strict, due)
  <2>1. CASE strict
    <3>1. Submitted(sim, t, e, TRUE, Plus(sim.now, d))
      BY <1>1, <1>4, <1>9, <1>16, <2>1, SubmitStrict
    <3> QED BY <1>7, <2>1, <3>1
  <2>2. CASE ~ strict
    <3>1. Submitted(sim, t, e, FALSE, due)
      BY <1>1, <1>4, <1>16, <2>2, SubmitLoose
    <3> QED BY <2>2, <3>1
  <2> QED BY <2>1, <2>2
<1>18. e \in Nat
  BY <1>17 DEF Submitted
<1>19. TookOn(pool, q, e, job)
  <2>1. PoolFields(pool) /\ pool.pending \in Seq(Nat)
    BY <1>1 DEF PoolOK, PoolFields
  <2>2. PICK p : p = [pool EXCEPT !.jobs = jobs]
    OBVIOUS
  <2>3. /\ PoolFields(p) /\ p.jobs = jobs /\ p.closed = pool.closed /\ p.walk = pool.walk
        /\ p.live = pool.live /\ p.pending = pool.pending /\ p.mode = pool.mode /\ p.workers = pool.workers
    BY <2>1, <2>2 DEF PoolFields
  <2>4. CASE strict
    <3>1. q = [p EXCEPT !.live = @ \cup {e}]
      BY <1>16, <2>2, <2>4
    <3>2. /\ q.jobs = jobs /\ q.closed = p.closed /\ q.walk = p.walk /\ q.pending = p.pending
          /\ q.live = p.live \cup {e} /\ PoolFields(q)
      BY <1>18, <2>3, <3>1 DEF PoolFields
    <3> QED BY <1>10, <1>13, <2>3, <2>4, <3>2 DEF TookOn
  <2>5. CASE ~ strict
    <3>1. PICK a : a = Append(p.pending, e)
      OBVIOUS
    <3>2. a \in Seq(Nat)
      BY <1>18, <2>1, <2>3, <3>1
    <3>3. q = [p EXCEPT !.pending = a]
      BY <1>16, <2>2, <2>5, <3>1
    <3>4. /\ q.jobs = jobs /\ q.closed = p.closed /\ q.walk = p.walk /\ q.pending = a
          /\ q.live = p.live /\ PoolFields(q)
      BY <2>3, <3>2, <3>3 DEF PoolFields
    <3> QED BY <1>10, <1>13, <2>3, <2>5, <3>1, <3>4 DEF TookOn
  <2> QED BY <2>4, <2>5
<1>20. /\ PoolOK(t, q) /\ DOMAIN q.jobs = DOMAIN pool.jobs \cup {e} /\ q.jobs[e] = job
       /\ \A f \in DOMAIN pool.jobs : f # e /\ q.jobs[f] = pool.jobs[f]
  BY <1>1, <1>2, <1>10, <1>17, <1>19, PoolBorn
<1>21. /\ Aside(sim, t, {e}) /\ SimOK(t) /\ e \notin DOMAIN sim.events /\ ~ t.events[e].processed
       /\ \A f \in DOMAIN sim.events : t.events[f] = sim.events[f]
  BY <1>17 DEF Submitted, Aside
<1>22. StepOK'
  <2>1. Aside(sim, sim', {e}) /\ {e} \cap DOMAIN sim.events = {}
    BY <1>14, <1>21
  <2> QED BY <1>1, <1>16, <2>1, CallsKeepStep
<1>23. Undelivered(t, q)
  <2>1. \A f \in DOMAIN pool.jobs : f \in DOMAIN sim.events
    BY <1>1, JobsFields
  <2> QED BY <1>12, <1>20, <1>21, <2>1 DEF Undelivered
<1>24. UseOK'
  <2>1. Frame
    BY <1>1, <1>16, FrameCast DEF UseOK
  <2>2. q.jobs[e].strict \/ "nonstrict" \in cast.menu
    BY <1>5, <1>10, <1>11, <1>20
  <2> QED BY <1>1, <1>15, <1>20, <2>1, <2>2, UseKept DEF Jobs
<1>25. WalkOK'
  BY <1>12, <1>15, <1>19, NoWalk DEF TookOn
<1>26. Delivering'
  BY <1>14, <1>15, <1>23, DeliveringKept
<1>27. sim'.now = sim.now
  <2>1. PICK n : n = sim.now
    OBVIOUS
  <2>2. Clocked(sim, n)
    BY <1>1, <2>1, SimFields DEF SimOK, SimType, Clocked
  <2>3. Clocked(t, n)
    BY <1>16, <2>2, ClockCreate, ClockSchedule
  <2> QED BY <1>14, <2>1, <2>3 DEF Clocked
<1>28. Calm
  <2>1. \A f \in Jobs : f \in DOMAIN sim.events
    BY <1>1, JobsFields DEF Jobs
  <2> QED BY <1>14, <1>21, <1>27, <2>1 DEF Calm
<1> QED BY <1>14, <1>15, <1>20, <1>21, <1>22, <1>24, <1>25, <1>26, <1>28 DEF OffloadInv

-----------------------------------------------------------------------------
(* The pool is closed.                                                      *)

LEMMA SetListed ==
  ASSUME NEW S, IsFiniteSet(S)
  PROVE  SetToSeq(S) \in Seq(S) /\ Range(SetToSeq(S)) = S
<1>1. PICK n : n = Cardinality(S)
  OBVIOUS
<1>2. n \in Nat /\ ExistsBijection(1 .. n, S)
  BY <1>1, FS_CardinalityType
<1>3. \E f \in [1 .. n -> S] : IsInjective(f)
  BY <1>2 DEF ExistsBijection, Bijection, Injection
<1>4. PICK f : f = SetToSeq(S)
  OBVIOUS
<1>5. f \in [1 .. n -> S] /\ IsInjective(f)
  BY <1>1, <1>3, <1>4 DEF SetToSeq
<1>6. f \in Injection(1 .. n, S)
  BY <1>5 DEF Injection
<1>7. Cardinality(1 .. n) = n
  BY <1>2, FS_Interval
<1>8. f \in Surjection(1 .. n, S)
  BY <1>1, <1>6, <1>7, FS_Injection
<1>9. \A t \in S : \E i \in 1 .. n : f[i] = t
  BY <1>8 DEF Surjection
<1>10. Range(f) = S
  BY <1>5, <1>9 DEF Range
<1>11. f \in Seq(S)
  BY <1>2, <1>5
<1> QED BY <1>4, <1>10, <1>11

CancelsUpTo(g, n, w, left) ==
  g = [i \in 0 .. n |-> IF i = 0 THEN w ELSE Cancelled(g[i - 1], left[i])]

LEMMA CancelsExist ==
  ASSUME NEW w, NEW S, NEW left \in Seq(S)
  PROVE  \E g : CancelsUpTo(g, Len(left), w, left) /\ CancelAll(w, left) = g[Len(left)]
<1> DEFINE Bad == {n \in Nat : n <= Len(left) /\ ~ \E g : CancelsUpTo(g, n, w, left)}
<1>1. Bad = {}
  <2> SUFFICES ASSUME Bad # {} PROVE FALSE
    OBVIOUS
  <2>1. PICK n \in Bad : \A k \in Bad : n <= k
    BY LeastNatural
  <2>2. n # 0
    <3> DEFINE g == [i \in 0 .. 0 |-> w]
    <3>1. CancelsUpTo(g, 0, w, left)
      BY DEF CancelsUpTo
    <3> QED BY <3>1
  <2>3. n \in Nat /\ n - 1 \in Nat /\ n - 1 <= Len(left) /\ n - 1 \notin Bad
    BY <2>1, <2>2
  <2>4. PICK f : CancelsUpTo(f, n - 1, w, left)
    BY <2>3
  <2> DEFINE next == Cancelled(f[n - 1], left[n])
             g == [i \in 0 .. n |-> IF i < n THEN f[i] ELSE next]
  <2>5. \A i \in 0 .. n - 1 : g[i] = f[i]
    BY <2>3
  <2>6. g[n] = next
    BY <2>3
  <2>7. \A i \in 0 .. n - 1 : f[i] = IF i = 0 THEN w ELSE Cancelled(f[i - 1], left[i])
    BY <2>4 DEF CancelsUpTo
  <2> HIDE DEF next
  <2>8. \A i \in 0 .. n : g[i] = IF i = 0 THEN w ELSE Cancelled(g[i - 1], left[i])
    <3> TAKE i \in 0 .. n
    <3>1. CASE i = 0
      BY <2>2, <2>3, <2>5, <2>7, <3>1
    <3>2. CASE i # 0 /\ i < n
      <4>1. i \in 0 .. n - 1 /\ i - 1 \in 0 .. n - 1
        BY <2>3, <3>2
      <4>2. g[i] = f[i] /\ g[i - 1] = f[i - 1]
        BY <2>5, <4>1
      <4> HIDE DEF g
      <4> QED BY <2>7, <3>2, <4>1, <4>2
    <3>3. CASE i = n
      <4>1. g[n - 1] = f[n - 1]
        BY <2>3, <2>5
      <4> HIDE DEF g
      <4> QED BY <2>2, <2>6, <3>3, <4>1 DEF next
    <3> QED BY <2>3, <3>1, <3>2, <3>3
  <2>9. CancelsUpTo(g, n, w, left)
    <3>1. g = [i \in 0 .. n |-> g[i]]
      OBVIOUS
    <3> HIDE DEF g
    <3> QED BY <2>8, <3>1 DEF CancelsUpTo
  <2> QED BY <2>1, <2>9
<1>2. \E g : CancelsUpTo(g, Len(left), w, left)
  <2>1. Len(left) \in Nat
    OBVIOUS
  <2>2. Len(left) \notin Bad
    <3> HIDE DEF Bad
    <3> QED BY <1>1
  <2> QED BY <2>1, <2>2
<1> DEFINE c == CHOOSE g : CancelsUpTo(g, Len(left), w, left)
<1>3. CancelsUpTo(c, Len(left), w, left)
  BY <1>2
<1>4. CancelAll(w, left) = c[Len(left)]
  BY DEF CancelAll, CancelsUpTo
<1> HIDE DEF c
<1> QED BY <1>3, <1>4

LEMMA CancelsFields ==
  ASSUME NEW g, NEW n \in Nat, NEW w, NEW left, CancelsUpTo(g, n, w, left)
  PROVE  g[0] = w /\ \A i \in 1 .. n : g[i] = Cancelled(g[i - 1], left[i])
<1>1. g = [i \in 0 .. n |-> IF i = 0 THEN w ELSE Cancelled(g[i - 1], left[i])]
  BY DEF CancelsUpTo
<1>2. PICK h : h = [i \in 0 .. n |-> IF i = 0 THEN w ELSE Cancelled(g[i - 1], left[i])]
  OBVIOUS
<1>3. h[0] = w /\ \A i \in 1 .. n : h[i] = Cancelled(g[i - 1], left[i])
  BY <1>2
<1> QED BY <1>1, <1>2, <1>3

\* What is still true of the Sim t and the pool q when these have been cancelled.
Cancelling(s, p, t, q) ==
  /\ SimOK(t) /\ PoolOK(t, q) /\ Aside(s, t, DOMAIN p.jobs)
  /\ \A f \in DOMAIN s.events : f \in DOMAIN t.events /\ t.events[f].processed = s.events[f].processed
  /\ DOMAIN q.jobs = DOMAIN p.jobs /\ q.closed = p.closed /\ q.walk = p.walk
  /\ q.mode = p.mode /\ q.workers = p.workers /\ t.now = s.now
  /\ \A f \in DOMAIN p.jobs : /\ q.jobs[f].strict = p.jobs[f].strict
                              /\ Open(q.jobs[f]) => Open(p.jobs[f])

LEMMA AsideWider ==
  ASSUME NEW s, NEW t, NEW e, Aside(s, t, {e}), NEW X, e \in X
  PROVE  Aside(s, t, X)
BY DEF Aside, Established

LEMMA CancelOne ==
  ASSUME NEW s, NEW p, NEW w, Cancelling(s, p, w.sim, w.pool), PoolOK(s, p),
         NEW e \in DOMAIN p.jobs, ~ s.events[e].processed,
         NEW v, v = Cancelled(w, e)
  PROVE  Cancelling(s, p, v.sim, v.pool) /\ ~ Open(v.pool.jobs[e])
         /\ \A f \in DOMAIN p.jobs : Open(v.pool.jobs[f]) => Open(w.pool.jobs[f])
<1>1. PICK t : t = w.sim
  OBVIOUS
<1>2. PICK q : q = w.pool
  OBVIOUS
<1>3. /\ SimOK(t) /\ PoolOK(t, q) /\ Aside(s, t, DOMAIN p.jobs)
      /\ \A f \in DOMAIN s.events : f \in DOMAIN t.events /\ t.events[f].processed = s.events[f].processed
      /\ DOMAIN q.jobs = DOMAIN p.jobs /\ q.closed = p.closed /\ q.walk = p.walk
      /\ q.mode = p.mode /\ q.workers = p.workers /\ t.now = s.now
      /\ \A f \in DOMAIN p.jobs : /\ q.jobs[f].strict = p.jobs[f].strict
                                  /\ Open(q.jobs[f]) => Open(p.jobs[f])
  BY <1>1, <1>2 DEF Cancelling
<1>4. e \in DOMAIN s.events
  BY JobsFields
<1>5. CASE q.jobs[e].abandoned
  <2>1. v = w
    BY <1>1, <1>2, <1>5 DEF Cancelled, MayAbandon
  <2> QED BY <1>2, <1>5, <2>1 DEF Open
<1>6. CASE ~ q.jobs[e].abandoned
  <2>1. ~ t.events[e].processed /\ e \in DOMAIN q.jobs
    BY <1>3, <1>4
  <2>2. v = [sim |-> Discarded(t, q, e), pool |-> Abandoned(q, e)]
    BY <1>1, <1>2, <1>6, <2>1 DEF Cancelled, MayAbandon
  <2>3. PICK t2 : t2 = Discarded(t, q, e)
    OBVIOUS
  <2>4. PICK q2 : q2 = Abandoned(q, e)
    OBVIOUS
  <2>5. v.sim = t2 /\ v.pool = q2
    BY <2>2, <2>3, <2>4
  <2>6. /\ Settled(t, t2, e, "ok", q.jobs[e].due) /\ PoolOK(t2, q2)
        /\ DOMAIN q2.jobs = DOMAIN q.jobs /\ q2.closed = q.closed /\ q2.walk = q.walk
        /\ q2.mode = q.mode /\ q2.workers = q.workers
        /\ \A f \in DOMAIN q.jobs : /\ q2.jobs[f].strict = q.jobs[f].strict
                                    /\ Open(q2.jobs[f]) => Open(q.jobs[f])
        /\ ~ Open(q2.jobs[e])
    BY <1>3, <1>6, <2>1, <2>3, <2>4, AbandonStep
  <2>7. /\ SimOK(t2) /\ Aside(t, t2, {e}) /\ DOMAIN t2.events = DOMAIN t.events
        /\ \A f \in DOMAIN t.events : t2.events[f].processed = t.events[f].processed
    BY <2>6 DEF Settled
  <2>8. Aside(s, t2, DOMAIN p.jobs)
    <3>1. PICK X : X = DOMAIN p.jobs
      OBVIOUS
    <3>2. Aside(t, t2, X) /\ Aside(s, t, X)
      BY <1>3, <2>7, <3>1, AsideWider
    <3> QED BY <3>1, <3>2, AsideTrans
  <2>9. SimOK(t2) /\ PoolOK(t2, q2) /\ t2.now = s.now
    BY <1>3, <2>6, <2>7 DEF Settled
  <2>10. Cancelling(s, p, t2, q2)
    BY <1>3, <2>6, <2>7, <2>8, <2>9 DEF Cancelling
  <2> QED BY <1>2, <1>3, <2>5, <2>6, <2>10
<1>7. q.jobs[e].abandoned \in BOOLEAN
  BY <1>3, JobsFields DEF JobType
<1> QED BY <1>5, <1>6, <1>7

\* close cancels one offload after the other.
LEMMA CancelAllKeeps ==
  ASSUME NEW s, SimOK(s), NEW p, PoolOK(s, p), NEW left \in Seq(DOMAIN p.jobs),
         \A i \in 1 .. Len(left) : ~ s.events[left[i]].processed,
         NEW w, w = CancelAll([sim |-> s, pool |-> p], left)
  PROVE  /\ Cancelling(s, p, w.sim, w.pool)
         /\ \A i \in 1 .. Len(left) : ~ Open(w.pool.jobs[left[i]])
<1>1. PICK v : v = [sim |-> s, pool |-> p]
  OBVIOUS
<1>2. v.sim = s /\ v.pool = p
  BY <1>1
<1>3. Cancelling(s, p, s, p)
  BY AsideNothing DEF Cancelling
<1>4. PICK g : CancelsUpTo(g, Len(left), v, left) /\ CancelAll(v, left) = g[Len(left)]
  BY CancelsExist
<1>5. PICK n : n = Len(left)
  OBVIOUS
<1>6. n \in Nat /\ \A i \in 1 .. n : left[i] \in DOMAIN p.jobs /\ ~ s.events[left[i]].processed
  BY <1>5
<1>7. g[0] = v /\ \A i \in 1 .. n : g[i] = Cancelled(g[i - 1], left[i])
  BY <1>4, <1>5, <1>6, CancelsFields
<1> DEFINE Fine(i) == /\ Cancelling(s, p, g[i].sim, g[i].pool)
                      /\ \A j \in 1 .. i : ~ Open(g[i].pool.jobs[left[j]])
<1>8. Fine(0)
  BY <1>2, <1>3, <1>7
<1>9. ASSUME NEW i \in 1 .. n, Fine(i - 1) PROVE Fine(i)
  <2>1. left[i] \in DOMAIN p.jobs /\ ~ s.events[left[i]].processed
    BY <1>6
  <2>2. PICK u : u = g[i - 1]
    OBVIOUS
  <2>3. PICK x : x = g[i]
    OBVIOUS
  <2>4. x = Cancelled(u, left[i]) /\ Cancelling(s, p, u.sim, u.pool)
    BY <1>7, <1>9, <2>2, <2>3
  <2>5. /\ Cancelling(s, p, x.sim, x.pool) /\ ~ Open(x.pool.jobs[left[i]])
        /\ \A f \in DOMAIN p.jobs : Open(x.pool.jobs[f]) => Open(u.pool.jobs[f])
    BY <2>1, <2>4, CancelOne
  <2>6. \A j \in 1 .. i - 1 : ~ Open(u.pool.jobs[left[j]]) /\ left[j] \in DOMAIN p.jobs
    BY <1>6, <1>9, <2>2
  <2>7. \A j \in 1 .. i : ~ Open(x.pool.jobs[left[j]])
    BY <1>6, <2>5, <2>6
  <2> QED BY <2>3, <2>5, <2>7
<1> DEFINE Bad == {i \in Nat : i <= n /\ ~ Fine(i)}
<1>10. Bad = {}
  <2> SUFFICES ASSUME Bad # {} PROVE FALSE
    OBVIOUS
  <2>1. PICK i \in Bad : \A k \in Bad : i <= k
    BY LeastNatural
  <2>2. i \in Nat /\ i <= n /\ ~ Fine(i)
    BY <2>1
  <2> HIDE DEF Fine
  <2>3. i # 0
    BY <1>8, <2>2
  <2>4. i - 1 \in Nat /\ i - 1 <= n /\ i - 1 < i /\ i \in 1 .. n
    BY <1>6, <2>2, <2>3
  <2>5. Fine(i - 1)
    <3>1. i - 1 \notin Bad
      <4> HIDE DEF Bad
      <4> QED BY <2>1, <2>2, <2>4
    <3> QED BY <2>4, <3>1
  <2> QED BY <1>9, <2>2, <2>4, <2>5
<1>11. Fine(n)
  <2>1. n \notin Bad
    <3> HIDE DEF Bad, Fine
    <3> QED BY <1>10
  <2> HIDE DEF Fine
  <2> QED BY <1>6, <2>1
<1>12. w = g[n]
  BY <1>1, <1>4, <1>5
<1> QED BY <1>5, <1>11, <1>12

LEMMA InRange ==
  ASSUME NEW S, NEW a \in Seq(S)
  PROVE  \A i \in 1 .. Len(a) : a[i] \in Range(a)
<1>1. DOMAIN a = 1 .. Len(a)
  OBVIOUS
<1> QED BY <1>1 DEF Range

LEMMA WiderSeq ==
  ASSUME NEW S, NEW a \in Seq(S), NEW T, S \subseteq T
  PROVE  a \in Seq(T)
<1>1. Len(a) \in Nat /\ a = [i \in 1 .. Len(a) |-> a[i]]
  OBVIOUS
<1>2. \A i \in 1 .. Len(a) : a[i] \in T
  OBVIOUS
<1> QED BY <1>1, <1>2

LEMMA JoinedParts ==
  ASSUME NEW S, NEW a \in Seq(S), NEW b \in Seq(S), NEW c, c = a \o b
  PROVE  /\ c \in Seq(S) /\ Len(c) = Len(a) + Len(b)
         /\ \A i \in 1 .. Len(a) : c[i] = a[i]
         /\ \A i \in 1 .. Len(b) : c[Len(a) + i] = b[i]
         /\ \A i \in 1 .. Len(c) : \/ i \in 1 .. Len(a) /\ c[i] = a[i]
                                   \/ i - Len(a) \in 1 .. Len(b) /\ c[i] = b[i - Len(a)]
OBVIOUS

\* What is outstanding when the pool is closed.
LeftOver(p) == p.pending \o SetToSeq(p.live)

LEMMA Outstanding ==
  ASSUME NEW s, SimOK(s), NEW p, PoolOK(s, p), Undelivered(s, p),
         NEW c, c = LeftOver(p)
  PROVE  /\ c \in Seq(DOMAIN p.jobs)
         /\ \A i \in 1 .. Len(c) : ~ s.events[c[i]].processed
         /\ \A e \in DOMAIN p.jobs : Open(p.jobs[e]) => \E i \in 1 .. Len(c) : c[i] = e
<1>1. PICK live : live = p.live
  OBVIOUS
<1>2. PICK a : a = p.pending
  OBVIOUS
<1>3. PICK b : b = SetToSeq(live)
  OBVIOUS
<1>4. /\ \A e \in DOMAIN p.jobs : /\ e \in DOMAIN s.events /\ JobOK(s, p, e)
                                  /\ p.jobs[e].strict \in BOOLEAN
      /\ a \in Seq(Nat) /\ live = OpenJobs(p, TRUE) /\ Range(a) = OpenJobs(p, FALSE)
  BY <1>1, <1>2, JobsFields DEF JobType
<1>5. s.events \in Seq(EventType)
  BY SimFields DEF SimOK
<1>6. IsFiniteSet(live)
  <2>1. IsFiniteSet(1 .. Len(s.events))
    BY <1>5, FS_Interval
  <2>2. live \subseteq 1 .. Len(s.events)
    BY <1>4, <1>5 DEF OpenJobs
  <2> QED BY <2>1, <2>2, FS_Subset
<1>7. b \in Seq(live) /\ Range(b) = live
  BY <1>3, <1>6, SetListed
<1>8. \A i \in 1 .. Len(a) : a[i] \in OpenJobs(p, FALSE)
  BY <1>4, InRange
<1>9. b \in Seq(Nat) /\ \A i \in 1 .. Len(b) : b[i] \in OpenJobs(p, TRUE)
  <2>1. live \subseteq Nat
    BY <1>1, JobsFields
  <2>2. b \in Seq(Nat)
    BY <1>7, <2>1, WiderSeq
  <2> QED BY <1>4, <1>7, <2>2, InRange
<1>10. a \in Seq(DOMAIN p.jobs) /\ b \in Seq(DOMAIN p.jobs)
  <2>1. OpenJobs(p, FALSE) \subseteq DOMAIN p.jobs /\ OpenJobs(p, TRUE) \subseteq DOMAIN p.jobs
    BY DEF OpenJobs
  <2>2. PICK S : S = DOMAIN p.jobs
    OBVIOUS
  <2>3. \A i \in 1 .. Len(a) : a[i] \in S
    BY <1>8, <2>1, <2>2
  <2>4. \A i \in 1 .. Len(b) : b[i] \in S
    BY <1>9, <2>1, <2>2
  <2>5. a \in Seq(S)
    BY <1>4, <2>3
  <2>6. b \in Seq(S)
    BY <1>9, <2>4
  <2> QED BY <2>2, <2>5, <2>6
<1>11. c = a \o b
  BY <1>1, <1>2, <1>3 DEF LeftOver
<1>12. /\ c \in Seq(DOMAIN p.jobs) /\ Len(c) = Len(a) + Len(b)
       /\ \A i \in 1 .. Len(a) : c[i] = a[i]
       /\ \A i \in 1 .. Len(b) : c[Len(a) + i] = b[i]
       /\ \A i \in 1 .. Len(c) : (i \in 1 .. Len(a) /\ c[i] = a[i]) \/ (i - Len(a) \in 1 .. Len(b) /\ c[i] = b[i - Len(a)])
  BY <1>10, <1>11, JoinedParts
<1>13. \A i \in 1 .. Len(c) : c[i] \in OpenJobs(p, FALSE) \/ c[i] \in OpenJobs(p, TRUE)
  BY <1>8, <1>9, <1>12
<1>14. \A i \in 1 .. Len(c) : ~ s.events[c[i]].processed
  <2> SUFFICES ASSUME NEW i \in 1 .. Len(c) PROVE ~ s.events[c[i]].processed
    OBVIOUS
  <2>1. CASE c[i] \in OpenJobs(p, TRUE)
    BY <2>1 DEF Undelivered, OpenJobs
  <2>2. CASE c[i] \in OpenJobs(p, FALSE)
    <3>1. PICK e : e = c[i]
      OBVIOUS
    <3>2. e \in DOMAIN p.jobs /\ ~ p.jobs[e].strict /\ Open(p.jobs[e])
      BY <2>2, <3>1 DEF OpenJobs
    <3>3. e \in DOMAIN s.events /\ s.events[e].state = "pending"
      BY <1>4, <3>2 DEF JobOK
    <3>4. EventOK(s, e)
      BY <3>3 DEF SimOK
    <3> QED BY <3>1, <3>3, <3>4 DEF EventOK
  <2> QED BY <1>13, <2>1, <2>2
<1>15. \A e \in DOMAIN p.jobs : Open(p.jobs[e]) => \E i \in 1 .. Len(c) : c[i] = e
  <2> SUFFICES ASSUME NEW e \in DOMAIN p.jobs, Open(p.jobs[e]) PROVE \E i \in 1 .. Len(c) : c[i] = e
    OBVIOUS
  <2>1. CASE p.jobs[e].strict
    <3>1. e \in Range(b)
      BY <1>4, <1>7, <2>1 DEF OpenJobs
    <3>2. PICK i \in 1 .. Len(b) : b[i] = e
      BY <1>7, <3>1 DEF Range
    <3>3. Len(a) + i \in 1 .. Len(c) /\ c[Len(a) + i] = e
      BY <1>4, <1>7, <1>12, <3>2
    <3> QED BY <3>3
  <2>2. CASE ~ p.jobs[e].strict
    <3>1. e \in Range(a)
      BY <1>4, <2>2 DEF OpenJobs
    <3>2. PICK i \in 1 .. Len(a) : a[i] = e
      BY <1>4, <3>1 DEF Range
    <3>3. i \in 1 .. Len(c) /\ c[i] = e
      BY <1>4, <1>7, <1>12, <3>2
    <3> QED BY <3>3
  <2> QED BY <2>1, <2>2
<1> QED BY <1>12, <1>14, <1>15

\* close has waited for its workers.
Stilled(p) == [p EXCEPT !.closed = TRUE, !.jobs = [e \in DOMAIN @ |-> Stopped(@[e])]]

NoneOpen(p) == \A e \in DOMAIN p.jobs : ~ Open(p.jobs[e])

LEMMA PoolStilled ==
  ASSUME NEW s, NEW p, PoolOK(s, p), NoneOpen(p), NEW q, q = Stilled(p)
  PROVE  /\ PoolOK(s, q) /\ q.walk = p.walk /\ DOMAIN q.jobs = DOMAIN p.jobs
         /\ \A f \in DOMAIN p.jobs : q.jobs[f].strict = p.jobs[f].strict /\ ~ Open(q.jobs[f])
<1>1. PoolFields(p) /\ p.jobs \in [DOMAIN p.jobs -> JobType]
  BY DEF PoolOK
<1>2. PICK jobs : jobs = [e \in DOMAIN p.jobs |-> Stopped(p.jobs[e])]
  OBVIOUS
<1>3. q = [p EXCEPT !.closed = TRUE, !.jobs = jobs]
  BY <1>1, <1>2 DEF Stilled, PoolFields
<1>4. /\ q.jobs = jobs /\ q.pending = p.pending /\ q.walk = p.walk /\ q.live = p.live /\ q.closed
      /\ PoolFields(q)
  BY <1>1, <1>3 DEF PoolFields
<1>5. DOMAIN q.jobs = DOMAIN p.jobs /\ \A f \in DOMAIN p.jobs : q.jobs[f] = Stopped(p.jobs[f])
  BY <1>2, <1>4
<1>6. ASSUME NEW f \in DOMAIN p.jobs
      PROVE  /\ q.jobs[f] \in JobType /\ q.jobs[f].strict = p.jobs[f].strict /\ ~ Open(q.jobs[f])
             /\ JobOK(s, q, f)
  <2>1. PICK job : job = p.jobs[f]
    OBVIOUS
  <2>2. PICK done : done = Stopped(job)
    OBVIOUS
  <2>3. job \in JobType /\ JobOK(s, p, f) /\ ~ Open(job)
    BY <2>1, JobsFields DEF NoneOpen
  <2>4. /\ done \in JobType /\ done.strict = job.strict /\ done.due = job.due /\ done.value = job.value
        /\ done.abandoned = job.abandoned /\ done.outcome = job.outcome
        /\ job.future = "done" => done.future = "done"
        /\ done.future = "cancelled" => job.future \in {"queued", "cancelled"}
    BY <2>2, <2>3 DEF JobType, Stopped
  <2>5. job.value # "nothing" => ~ job.abandoned /\ job.future = "done" /\ job.value = job.outcome
    BY <2>1, <2>3 DEF JobOK
  <2>6. job.value # "nothing" \/ job.abandoned
    BY <2>3 DEF Open
  <2>7. done.future = "cancelled" => done.abandoned
    BY <2>4, <2>5, <2>6
  <2>8. q.jobs[f] = done
    BY <1>5, <2>1, <2>2
  <2>9. Open(done) <=> Open(job)
    BY <2>4 DEF Open
  <2>10. JobOK(s, q, f)
    BY <2>1, <2>3, <2>4, <2>5, <2>7, <2>8, <2>9 DEF JobOK
  <2> QED BY <2>1, <2>3, <2>4, <2>8, <2>9, <2>10
<1>7. \A strict : OpenJobs(q, strict) = {} /\ OpenJobs(p, strict) = {}
  BY <1>5, <1>6 DEF OpenJobs, NoneOpen
<1>8. q.jobs \in [DOMAIN q.jobs -> JobType]
  <2>1. q.jobs = [f \in DOMAIN p.jobs |-> q.jobs[f]]
    BY <1>2, <1>4
  <2> QED BY <1>5, <1>6, <2>1
<1>9. DOMAIN q.jobs = {e \in DOMAIN s.events : s.events[e].type = "offload"}
  BY <1>5 DEF PoolOK
<1>10. /\ q.live = OpenJobs(q, TRUE) /\ Range(q.pending) = OpenJobs(q, FALSE)
       /\ IsInjective(q.pending)
  BY <1>4, <1>7 DEF PoolOK
<1>11. \A e \in DOMAIN q.jobs : JobOK(s, q, e)
  BY <1>5, <1>6
<1>12. PoolOK(s, q)
  BY <1>4, <1>7, <1>8, <1>9, <1>10, <1>11 DEF PoolOK
<1> QED BY <1>4, <1>5, <1>6, <1>12

LEMMA CloseKeepsPool ==
  ASSUME OffloadInv, Close
  PROVE  OffloadInv' /\ Calm
<1>1. SimOK(sim) /\ StepOK /\ UseOK /\ PoolOK(sim, pool)
  BY DEF OffloadInv
<1>2. control # Loop
  BY <1>1, MayIsUser DEF Close
<1>3. Undelivered(sim, pool) /\ pool.walk = <<>>
  BY <1>2, NoneDelivered, AtRest
<1>4. PICK left : left = LeftOver(pool)
  OBVIOUS
<1>5. /\ left \in Seq(DOMAIN pool.jobs)
      /\ \A i \in 1 .. Len(left) : ~ sim.events[left[i]].processed
      /\ \A e \in DOMAIN pool.jobs : Open(pool.jobs[e]) => \E i \in 1 .. Len(left) : left[i] = e
  BY <1>1, <1>3, <1>4, Outstanding
<1>6. PICK w : w = CancelAll([sim |-> sim, pool |-> pool], left)
  OBVIOUS
<1>7. PICK t : t = w.sim
  OBVIOUS
<1>8. PICK q : q = w.pool
  OBVIOUS
<1>9. Cancelling(sim, pool, t, q) /\ \A i \in 1 .. Len(left) : ~ Open(q.jobs[left[i]])
  BY <1>1, <1>5, <1>6, <1>7, <1>8, CancelAllKeeps
<1>10. UserCalls(t, Stilled(q))
  BY <1>4, <1>6, <1>7, <1>8 DEF Close, Stilled, LeftOver
<1>11. PICK r : r = Stilled(q)
  OBVIOUS
<1>12. sim' = t /\ pool' = r /\ UNCHANGED <<control, step, run>> /\ cast' = [cast EXCEPT !.calls = @ - 1]
  BY <1>10, <1>11 DEF UserCalls, Calls
<1>13. /\ SimOK(t) /\ PoolOK(t, q) /\ t.now = sim.now /\ Aside(sim, t, DOMAIN pool.jobs)
       /\ \A f \in DOMAIN sim.events : f \in DOMAIN t.events /\ t.events[f].processed = sim.events[f].processed
       /\ DOMAIN q.jobs = DOMAIN pool.jobs /\ q.walk = pool.walk
       /\ \A f \in DOMAIN pool.jobs : /\ q.jobs[f].strict = pool.jobs[f].strict
                                      /\ Open(q.jobs[f]) => Open(pool.jobs[f])
  BY <1>9 DEF Cancelling
<1>14. NoneOpen(q) /\ PoolOK(t, q)
  BY <1>5, <1>9, <1>13 DEF NoneOpen
<1>15. /\ PoolOK(t, r) /\ r.walk = q.walk /\ DOMAIN r.jobs = DOMAIN q.jobs
       /\ \A f \in DOMAIN q.jobs : r.jobs[f].strict = q.jobs[f].strict /\ ~ Open(r.jobs[f])
  BY <1>11, <1>14, PoolStilled
<1>16. StepOK'
  <2>1. PICK X : X = DOMAIN pool.jobs
    OBVIOUS
  <2>2. \A f \in X \cap DOMAIN sim.events : sim.events[f].processed => sim'.events[f].processed
    BY <1>12, <1>13
  <2>3. Aside(sim, sim', X)
    BY <1>12, <1>13, <2>1
  <2> QED BY <1>1, <1>12, <2>2, <2>3, CallsKeepStep
<1>17. Frame
  BY <1>1, <1>12, FrameCast DEF UseOK
<1>18. \A f \in Jobs : f \in DOMAIN sim.events
  BY <1>1, JobsFields DEF Jobs
<1>19. \A f \in Jobs : /\ pool'.jobs[f].strict = pool.jobs[f].strict
                       /\ Open(pool'.jobs[f]) => Open(pool.jobs[f])
                       /\ sim'.events[f].processed = sim.events[f].processed
  BY <1>12, <1>13, <1>15, <1>18 DEF Jobs
<1>20. DOMAIN pool'.jobs = Jobs /\ sim'.now = sim.now /\ pool'.walk = <<>> /\ SimOK(sim') /\ PoolOK(sim', pool')
  BY <1>3, <1>12, <1>13, <1>15 DEF Jobs
<1> QED BY <1>3, <1>16, <1>17, <1>19, <1>20, PoolMoved

-----------------------------------------------------------------------------
(* The inductive invariant.                                                 *)

LEMMA PoolStarts == ASSUME OffloadInit PROVE OffloadInv
<1>1. PICK c \in Casts : Start(c) /\ pool = NewPool(c.may.backend, c.may.worker, c.may.workers)
  BY DEF OffloadInit
<1>2. PICK m : m = PoolMode(c.may.backend, c.may.worker, TRUE)
  OBVIOUS
<1>3. PICK jobs : jobs = <<>>
  OBVIOUS
<1>4. /\ pool = [mode |-> m, closed |-> FALSE, workers |-> c.may.workers, pending |-> <<>>, live |-> {},
                 jobs |-> jobs, walk |-> <<>>]
  BY <1>1, <1>2, <1>3 DEF NewPool
<1>5. /\ {"menu", "calls", "runs", "outcomes"} \subseteq DOMAIN c.may
      /\ c.may.workers \in Nat \ {0} /\ c.may.outcomes \subseteq Outcomes
      /\ \A e \in DOMAIN c.sim.events : c.sim.events[e].type # "offload"
  BY <1>1, OffloadAssumption DEF Outcomes
<1>6. /\ sim = c.sim /\ cast = c.may /\ control = Main /\ step = [task |-> NoTask, rest |-> <<>>]
      /\ run = [until |-> None, at |-> 0, from |-> 0, clean |-> TRUE, result |-> "none"]
  BY <1>1 DEF Start
<1>7. SimOK(sim)
  BY <1>1, <1>6, CastAssumption, PreparedSim
<1>8. StepOK
  <2>1. NoTask \in CallType
    BY DEF NoTask, Call, CallType, None
  <2>2. <<>> \in Seq(CallType)
    OBVIOUS
  <2>3. Main \notin Processes(sim)
    <3>1. DOMAIN sim.events = 1 .. Len(sim.events) /\ Len(sim.events) \in Nat
      BY <1>7, SimFields DEF SimOK
    <3> QED BY <3>1 DEF Main, Processes
  <2> QED BY <1>6, <2>1, <2>2, <2>3 DEF StepOK
<1>9. <<>> \in Seq(Nat) /\ DOMAIN jobs = {} /\ jobs = [e \in {} |-> e]
  BY <1>3
<1>10. Range(<<>>) = {} /\ IsInjective(<<>>)
  BY DEF Range, IsInjective
<1>11. PoolOK(sim, pool)
  <2>1. PoolFields(pool)
    BY <1>4, <1>5, <1>9 DEF PoolFields
  <2>2. pool.jobs = jobs /\ pool.pending = <<>> /\ pool.live = {} /\ pool.closed = FALSE
    BY <1>4
  <2>3. jobs \in [{} -> JobType]
    BY <1>9
  <2>4. \A strict : OpenJobs(pool, strict) = {}
    BY <1>9, <2>2 DEF OpenJobs
  <2>5. {e \in DOMAIN sim.events : sim.events[e].type = "offload"} = {}
    BY <1>5, <1>6
  <2> QED BY <1>9, <1>10, <2>1, <2>2, <2>3, <2>4, <2>5 DEF PoolOK
<1>12. WalkOK
  BY <1>4, <1>10 DEF WalkOK
<1>13. Delivering
  BY <1>4, <1>9 DEF Delivering, Jobs
<1>14. UseOK
  BY <1>4, <1>5, <1>6, <1>9 DEF UseOK, Jobs
<1> QED BY <1>7, <1>8, <1>11, <1>12, <1>13, <1>14 DEF OffloadInv

LEMMA PoolStutters == ASSUME OffloadInv, UNCHANGED offloadVars PROVE OffloadInv'
<1>1. sim' = sim /\ control' = control /\ step' = step /\ run' = run /\ cast' = cast
      /\ ghost' = ghost /\ pool' = pool
  BY DEF offloadVars
<1>2. SimOK(sim) /\ StepOK /\ PoolOK(sim, pool) /\ WalkOK /\ Delivering /\ UseOK
  BY DEF OffloadInv
<1>3. SimOK(sim') /\ PoolOK(sim', pool')
  BY <1>1, <1>2
<1>4. StepOK'
  BY <1>1, <1>2 DEF StepOK
<1>5. WalkOK'
  BY <1>1, <1>2 DEF WalkOK, Idle
<1>6. Delivering'
  BY <1>1, <1>2 DEF Delivering, Jobs
<1>7. UseOK'
  BY <1>1, <1>2 DEF UseOK, Jobs
<1> QED BY <1>3, <1>4, <1>5, <1>6, <1>7 DEF OffloadInv

LEMMA PoolNext == ASSUME OffloadInv, OffloadNext PROVE OffloadInv' /\ (StepNext \/ Calm)
<1>1. CASE UserActs
  BY <1>1, SubmitKeepsPool, CancelKeepsPool, CloseKeepsPool, UserKeepsPool DEF UserActs
<1>2. CASE Workers
  BY <1>2, WorkersKeepPool
<1>3. CASE LoopGoesOn
  BY <1>3, StartARunKeepsPool, CallBackKeepsPool, ResolveKeepsPool, InterruptWaiterKeepsPool,
     EndStepKeepsPool, PollOneKeepsPool DEF LoopGoesOn
<1>4. CASE StepNext \/ Drain \/ GiveUp
  BY <1>4, StepNextKeepsPool, DrainKeepsPool, GiveUpKeepsPool
<1> QED BY <1>1, <1>2, <1>3, <1>4 DEF OffloadNext

\* What the paced loop does more: it looks at the clock, or raises.
LEMMA PacedNext ==
  ASSUME Next
  PROVE  \/ OffloadNext
         \/ UNCHANGED offloadVars
         \/ Idle /\ Polled /\ Cut(sim, <<>>, {}, "drift") /\ UNCHANGED pool
<1>1. CASE RtUser \/ RtWorkers \/ Tick
  BY <1>1 DEF RtUser, RtWorkers, Tick, OffloadNext
<1>2. CASE RtStart \/ RtStep \/ RtDrain
  BY <1>2 DEF RtStart, RtStep, RtDrain, OffloadNext, LoopGoesOn
<1>3. CASE Await
  <2>1. Idle /\ Polled /\ UNCHANGED pool /\ (Cut(sim, <<>>, {}, "drift") \/ UNCHANGED kernelVars)
    BY <1>3 DEF Await
  <2> QED BY <2>1 DEF offloadVars, kernelVars
<1>4. CASE (CallBack \/ Resolve \/ InterruptWaiter \/ EndStep \/ PollOne \/ GiveUp) /\ UNCHANGED pace
  BY <1>4 DEF OffloadNext, LoopGoesOn
<1> QED BY <1>1, <1>2, <1>3, <1>4 DEF Next, RtLoop

LEMMA PoolKept == OffloadInv /\ [Next]_vars => OffloadInv'
<1>1. OffloadInv /\ Next => OffloadInv'
  BY PacedNext, PoolNext, PoolStutters, DriftKeepsPool
<1>2. OffloadInv /\ UNCHANGED vars => OffloadInv'
  BY PoolStutters DEF vars, offloadVars
<1> QED BY <1>1, <1>2

\* Whatever is offloaded, cancelled and closed, and however fast the workers and
\* the wall clock are, the inductive invariant of the pool and of the Sim it
\* belongs to holds (parallel/offload.py).
THEOREM OffloadInvariance == Spec => []OffloadInv
<1>1. RtInit => OffloadInv
  BY PoolStarts DEF RtInit
<1> QED BY <1>1, PoolKept, PTL DEF Spec

\* No action but GiveUp ends a run for want of events.
EndsElsewise == run'.result = run.result \/ run'.result \notin {"empty", "starved"}

LEMMA CutsElsewise ==
  ASSUME UseOK, NEW s, NEW rest, NEW seen, NEW result, result \notin {"empty", "starved"},
         Cut(s, rest, seen, result)
  PROVE  EndsElsewise
BY DEF Cut, UseOK, EndsElsewise

LEMMA LoopElsewise ==
  ASSUME UseOK, RunToEnd \/ RunToTime \/ RunToEvent \/ Pop \/ Resume \/ RunCheck \/ RunBuild \/ RunTrigger
                \/ RunStop \/ FinishStep \/ \E freed : DeliverInterruptTo(freed)
  PROVE  EndsElsewise
<1>1. ASSUME NEW s, NEW rest, NEW seen, Cut(s, rest, seen, "raised") \/ Cut(s, rest, seen, "stopped")
      PROVE  EndsElsewise
  BY <1>1, CutsElsewise
<1>2. ASSUME run' = run PROVE EndsElsewise
  BY <1>2 DEF EndsElsewise
<1>3. ASSUME RunToEnd \/ RunToTime \/ RunToEvent PROVE EndsElsewise
  <2>1. PICK s, until, at : StartRun(s, until, at)
    BY <1>3 DEF RunToEnd, RunToTime, RunToEvent
  <2> QED BY <2>1 DEF StartRun, EndsElsewise
<1>4. ASSUME Pop PROVE EndsElsewise
  <2>1. PICK i \in DOMAIN sim.queue : PopTask(i) \/ PopAgain(i) \/ PopEvent(i)
    BY <1>4, PopCases
  <2>2. CASE PopTask(i) \/ PopEvent(i)
    BY <1>2, <2>2 DEF PopTask, PopEvent
  <2>3. CASE PopAgain(i)
    BY <1>1, <2>3 DEF PopAgain
  <2> QED BY <2>1, <2>2, <2>3
<1>5. ASSUME Resume PROVE EndsElsewise
  BY <1>2, <1>5 DEF Resume, Enter
<1>6. ASSUME RunCheck \/ RunBuild \/ RunTrigger PROVE EndsElsewise
  BY <1>2, <1>6 DEF RunCheck, RunBuild, RunTrigger, Done
<1>7. ASSUME RunStop \/ FinishStep PROVE EndsElsewise
  BY <1>1, <1>2, <1>7 DEF RunStop, FinishStep
<1>8. ASSUME NEW freed, DeliverInterruptTo(freed) PROVE EndsElsewise
  BY <1>1, <1>2, <1>8 DEF DeliverInterruptTo, Done, Enter
<1> QED BY <1>3, <1>4, <1>5, <1>6, <1>7, <1>8

LEMMA UserElsewise ==
  ASSUME SimOK(sim), UseOK, UserActs
  PROVE  EndsElsewise
<1>1. \A s : Calls(s) => EndsElsewise
  BY DEF Calls, EndsElsewise
<1>2. Submit \/ Cancel \/ Close => \E s : Calls(s)
  BY PoolCalls
<1>3. ASSUME YieldWrong PROVE EndsElsewise
  BY <1>3, CutsElsewise DEF YieldWrong
<1>4. ASSUME End \/ Yield PROVE EndsElsewise
  BY <1>4 DEF End, Yield, YieldOn, EndsElsewise
<1>5. ASSUME UserNext PROVE EndsElsewise
  BY <1>1, <1>3, <1>4, <1>5, CutsElsewise DEF UserNext, MakeEvent, MakeTimeout, MakeCondition, Spawn,
     SucceedOrFail, Chain, Interrupt
<1> QED BY <1>1, <1>2, <1>4, <1>5 DEF UserActs

LEMMA OnlyGiveUpEmpties ==
  ASSUME SimOK(sim), UseOK, [Next]_vars
  PROVE  EndsElsewise \/ GiveUp
<1>1. ASSUME run' = run PROVE EndsElsewise
  BY <1>1 DEF EndsElsewise
<1>2. CASE UNCHANGED offloadVars
  BY <1>1, <1>2 DEF offloadVars
<1>3. CASE Cut(sim, <<>>, {}, "drift")
  BY <1>3, CutsElsewise
<1>4. CASE OffloadNext
  <2>1. CASE UserActs
    BY <2>1, UserElsewise
  <2>2. CASE Workers \/ Drain \/ PollOne
    BY <1>1, <2>2 DEF Workers, WorkerTakes, WorkerFinishes, Drain, PollOne, kernelVars
  <2>3. CASE StartARun \/ CallBack \/ StepNext \/ EndStep
    BY <2>3, LoopElsewise DEF StartARun, CallBack, StepNext, EndStep
  <2>4. CASE InterruptWaiter
    BY <2>4, LoopElsewise DEF InterruptWaiter
  <2>5. CASE Resolve
    BY <1>1, <2>5 DEF Resolve, Done
  <2> QED BY <1>4, <2>1, <2>2, <2>3, <2>4, <2>5 DEF OffloadNext, LoopGoesOn
<1>5. UNCHANGED vars => UNCHANGED offloadVars
  BY DEF vars, offloadVars
<1> QED BY <1>2, <1>3, <1>4, <1>5, PacedNext

DroppedNone ==
  run.result = "running" /\ run'.result \in {"empty", "starved"}
     => \A e \in Jobs : sim.events[e].processed

LEMMA NoneDropped == ASSUME OffloadInv, [Next]_vars PROVE DroppedNone
<1> SUFFICES ASSUME GiveUp, NEW e \in Jobs PROVE sim.events[e].processed
  BY OnlyGiveUpEmpties DEF OffloadInv, DroppedNone, EndsElsewise
<1>1. /\ e \in DOMAIN pool.jobs /\ pool.jobs[e] \in JobType /\ JobOK(sim, pool, e)
      /\ Range(pool.pending) = OpenJobs(pool, FALSE)
  BY JobsFields DEF OffloadInv, Jobs
<1>2. sim.queue = <<>> /\ pool.pending = <<>>
  BY DEF GiveUp, RunEmpty
<1>3. ~ Due(sim, Call("event", e))
  BY <1>2 DEF Due
<1>4. sim.events[e].state # "pending" => sim.events[e].processed
  BY <1>1, <1>3 DEF JobOK
<1>5. ASSUME sim.events[e].state = "pending" PROVE e \in OpenJobs(pool, FALSE)
  BY <1>1, <1>5 DEF JobOK, JobType, OpenJobs
<1>6. e \notin OpenJobs(pool, FALSE)
  <2>1. Range(<<>>) = {}
    BY DEF Range
  <2> QED BY <1>1, <1>2, <2>1
<1> QED BY <1>4, <1>5, <1>6

\* A run that ends because nothing is left leaves no offload unprocessed, strict
\* or not, cancelled or not, for every cast, every number of workers and every
\* interleaving with them (OffloadPool.drain, OffloadEvent.cancel).
THEOREM NothingDroppedTheorem == Spec => NothingDropped
<1>1. OffloadInv /\ [Next]_vars => [DroppedNone]_offloadVars
  BY NoneDropped
<1> QED BY <1>1, OffloadInvariance, PTL DEF Spec, NothingDropped, DroppedNone

LEMMA RealSeen == ASSUME OffloadInv PROVE SeenIsReal
<1>1. /\ \A e \in DOMAIN pool.jobs : /\ e \in DOMAIN sim.events /\ pool.jobs[e] \in JobType
                                     /\ JobOK(sim, pool, e)
      /\ pool.live = OpenJobs(pool, TRUE) /\ Range(pool.pending) = OpenJobs(pool, FALSE)
      /\ IsInjective(pool.pending)
  BY JobsFields DEF OffloadInv
<1>2. pool.closed => OpenJobs(pool, TRUE) = {} /\ OpenJobs(pool, FALSE) = {}
  BY DEF OffloadInv, PoolOK
<1>3. ASSUME NEW e \in Jobs
      PROVE  LET job == pool.jobs[e] IN
             /\ sim.events[e].processed /\ Call("resolve", None) \notin Range(step.rest)
                   => job.value = IF job.abandoned THEN "nothing" ELSE job.outcome
             /\ job.value # "nothing" => job.future = "done"
             /\ job.abandoned => sim.events[e].state = "ok"
             /\ job.future = "cancelled" => job.abandoned
  <2>1. PICK job : job = pool.jobs[e]
    OBVIOUS
  <2>2. job \in JobType /\ JobOK(sim, pool, e) /\ e \in DOMAIN sim.events
    BY <1>1, <2>1 DEF Jobs
  <2>3. /\ job.value # "nothing" => ~ job.abandoned /\ job.future = "done" /\ job.value = job.outcome
        /\ job.abandoned => sim.events[e].state = "ok"
        /\ job.future = "cancelled" => job.abandoned
    BY <2>1, <2>2 DEF JobOK
  <2>4. ASSUME sim.events[e].processed, Call("resolve", None) \notin Range(step.rest), Open(job)
        PROVE  FALSE
    <3>1. CASE job.strict
      <4>1. step.rest # <<>> /\ Head(step.rest) = OwnCall /\ step.rest \in Seq(CallType)
        BY <2>1, <2>4, <3>1 DEF OffloadInv, Delivering, StepOK
      <4>2. 1 \in DOMAIN step.rest /\ step.rest[1] = OwnCall
        BY <4>1
      <4> QED BY <2>4, <4>2 DEF Range, OwnCall
    <3>2. CASE ~ job.strict
      <4>1. sim.events[e].state = "pending"
        BY <2>1, <2>2, <2>4, <3>2 DEF JobOK
      <4>2. EventOK(sim, e)
        BY <2>2 DEF OffloadInv, SimOK
      <4> QED BY <2>4, <4>1, <4>2 DEF EventOK
    <3> QED BY <3>1, <3>2
  <2> QED BY <2>1, <2>3, <2>4 DEF Open
<1>4. \A strict : OpenJobs(pool, strict) = {e \in Jobs : /\ pool.jobs[e].strict = strict
                                                         /\ pool.jobs[e].value = "nothing"
                                                         /\ ~ pool.jobs[e].abandoned}
  BY DEF OpenJobs, Open, Jobs
<1> QED BY <1>1, <1>2, <1>3, <1>4 DEF SeenIsReal

\* What a waiter is given is what the payload computed, and the tables of the
\* pool hold exactly the offloads whose outcome is open (_resolve, _forget).
THEOREM SeenIsRealTheorem == Spec => []SeenIsReal
<1>1. OffloadInv => SeenIsReal
  BY RealSeen
<1> QED BY <1>1, OffloadInvariance, PTL

-----------------------------------------------------------------------------
(* When an offload is processed, and how early a paced step may come.       *)

\* The step that takes the next entry leaves the clock at its time.
LEMMA StepTakes ==
  ASSUME OffloadInv, StepNext
  PROVE  \E i \in DOMAIN sim.queue :
           /\ IsNext(sim.queue, i) /\ sim'.now = sim.queue[i].at
           /\ \A e \in Jobs : sim'.events[e].processed /\ ~ sim.events[e].processed
                 => sim.queue[i].task = Call("event", e)
<1>1. SimOK(sim) /\ StepOK /\ PoolOK(sim, pool)
  BY DEF OffloadInv
<1>2. PICK i \in DOMAIN sim.queue : PopTask(i) \/ PopAgain(i) \/ PopEvent(i)
  BY PopCases DEF StepNext
<1>3. IsNext(sim.queue, i)
  BY <1>2 DEF PopTask, PopAgain, PopEvent
<1>4. \A e \in Jobs : e \in DOMAIN sim.events
  BY <1>1, JobsFields DEF Jobs
<1>5. CASE PopTask(i) \/ PopAgain(i)
  <2>1. Aside(sim, sim', {})
    BY <1>1, <1>5, PopAside
  <2>2. \A e \in Jobs : sim'.events[e].processed = sim.events[e].processed
    BY <1>4, <2>1 DEF Aside, Established
  <2>3. PICK t : t = Popped(sim, i)
    OBVIOUS
  <2>4. t.now = sim.queue[i].at
    BY <1>1, <1>3, <2>3, PoppedSim
  <2>5. sim' = t
    BY <1>5, <2>3 DEF PopTask, PopAgain, Cut
  <2> QED BY <1>3, <2>2, <2>4, <2>5
<1>6. CASE PopEvent(i)
  <2>1. PICK e : e = sim.queue[i].task.of
    OBVIOUS
  <2>2. /\ Aside(sim, sim', {e}) /\ sim.queue[i].task = Call("event", e)
        /\ sim'.now = sim.queue[i].at
    BY <1>1, <1>6, <2>1, PopEventAside
  <2>3. \A f \in Jobs : f # e => sim'.events[f].processed = sim.events[f].processed
    BY <1>4, <2>2 DEF Aside, Established
  <2> QED BY <1>3, <2>2, <2>3
<1> QED BY <1>2, <1>5, <1>6

LEMMA CalmOrNext ==
  ASSUME OffloadInv, [Next]_vars
  PROVE  Calm \/ StepNext
<1>1. CASE UNCHANGED offloadVars
  BY <1>1 DEF Calm, offloadVars
<1>2. CASE OffloadNext
  BY <1>2, PoolNext
<1>3. CASE Idle /\ Polled /\ Cut(sim, <<>>, {}, "drift") /\ UNCHANGED pool
  BY <1>3, DriftKeepsPool
<1>4. UNCHANGED vars => UNCHANGED offloadVars
  BY DEF vars, offloadVars
<1> QED BY <1>1, <1>2, <1>3, <1>4, PacedNext

DueKept ==
  \A e \in Jobs :
     sim'.events[e].processed /\ ~ sim.events[e].processed
        => IF pool.jobs[e].strict THEN sim'.now = pool.jobs[e].due ELSE InTime(sim'.now, pool.jobs[e].due)

LEMMA DueStep == ASSUME OffloadInv, [Next]_vars PROVE DueKept
<1>1. CASE Calm
  BY <1>1 DEF Calm, DueKept
<1>2. CASE StepNext
  <2>1. PICK i \in DOMAIN sim.queue :
          /\ sim'.now = sim.queue[i].at
          /\ \A e \in Jobs : sim'.events[e].processed /\ ~ sim.events[e].processed
                => sim.queue[i].task = Call("event", e)
    BY <1>2, StepTakes
  <2>2. \A e \in Jobs : JobOK(sim, pool, e)
    BY JobsFields DEF OffloadInv, Jobs
  <2> QED BY <2>1, <2>2 DEF JobOK, DueKept
<1> QED BY <1>1, <1>2, CalmOrNext

\* A strict offload is processed at its slot and a non-strict one not before its
\* bound, whenever its worker is done and whether it is cancelled or not
\* (OffloadPool.submit and _deliver, OffloadEvent.cancel).
THEOREM DueHonouredTheorem == Spec => DueHonoured
<1>1. OffloadInv /\ [Next]_vars => [DueKept]_offloadVars
  BY DueStep
<1> QED BY <1>1, OffloadInvariance, PTL DEF Spec, DueHonoured, DueKept

DueReached ==
  \A e \in Jobs :
     sim'.events[e].processed /\ ~ sim.events[e].processed => sim'.now >= pool.jobs[e].due

LEMMA ReachedStep == ASSUME NoEarlyArrival, OffloadInv, [Next]_vars PROVE DueReached
<1> SUFFICES ASSUME NEW e \in Jobs, sim'.events[e].processed, ~ sim.events[e].processed
             PROVE  sim'.now >= pool.jobs[e].due
  BY DEF DueReached
<1>1. PICK due : due = pool.jobs[e].due
  OBVIOUS
<1>2. due \in Times /\ due \in Nat
  BY <1>1, JobsFields, TimesAreNatural DEF OffloadInv, Jobs, JobType
<1>3. sim'.now \in Nat
  BY PoolKept, SimFields DEF OffloadInv, SimOK
<1>4. sim'.now = due \/ InTime(sim'.now, due)
  BY <1>1, DueStep DEF DueKept
<1>5. ASSUME NEW from \in Times, from <= due, sim'.now >= StopTime(from, due)
      PROVE  sim'.now >= due
  <2>1. StopTime(from, due) \in Nat
    BY <1>2, <1>5, MinusTimes, PlusTimes, TimesAreNatural DEF StopTime
  <2>2. StopTime(from, due) >= due
    BY <1>2, <1>5 DEF NoEarlyArrival, StopTime
  <2> QED BY <1>2, <1>3, <1>5, <2>1, <2>2
<1> QED BY <1>1, <1>2, <1>4, <1>5 DEF InTime

\* Where the sums of floats never fall short (exact arithmetic for one), no
\* offload is processed before its slot or its bound (Sim.offload).
THEOREM NeverDeliveredEarly ==
  NoEarlyArrival => (Spec => [][ DueReached ]_offloadVars)
<1> SUFFICES ASSUME NoEarlyArrival PROVE Spec => [][ DueReached ]_offloadVars
  OBVIOUS
<1>1. OffloadInv /\ [Next]_vars => [DueReached]_offloadVars
  BY ReachedStep
<1> QED BY <1>1, OffloadInvariance, PTL DEF Spec

\* What is awaited is the deadline of the next event.
LEMMA DeadlineOnLine ==
  ASSUME NEW p, PaceFields(p), PinnedLate(p), p.origin # Infinity, NEW at \in Int, p.wall >= p.start + (at - p.origin) * Factor
  PROVE  OnLine(p, at)
<1> DEFINE a == p.origin  b == p.begun.origin
<1>1. /\ a \in Int /\ b \in Int /\ p.start \in Int /\ p.wall \in Int /\ p.begun.start \in Int /\ Factor \in Int
  BY RealtimeAssumption DEF PaceFields
<1>2. (at - a) * Factor + (a - b) * Factor = (at - b) * Factor
  <2> HIDE DEF a, b
  <2> QED BY <1>1
<1>3. (at - a) * Factor \in Int /\ (a - b) * Factor \in Int /\ (at - b) * Factor \in Int
  <2> HIDE DEF a, b
  <2> QED BY <1>1
<1>4. p.start >= p.begun.start + (a - b) * Factor /\ p.wall >= p.start + (at - a) * Factor
  BY DEF PinnedLate
<1>5. PICK x, y, z : x = (at - a) * Factor /\ y = (a - b) * Factor /\ z = (at - b) * Factor
  OBVIOUS
<1>6. p.wall >= p.begun.start + z
  <2> HIDE DEF a, b
  <2> QED BY <1>1, <1>2, <1>3, <1>4, <1>5
<1> QED BY <1>5, <1>6 DEF OnLine

LEMMA EntryTimes ==
  ASSUME OffloadInv
  PROVE  sim.now \in Nat /\ \A i \in DOMAIN sim.queue : sim.queue[i].at \in Nat /\ sim.queue[i].at <= Infinity
<1>1. sim.now \in Nat /\ \A i \in DOMAIN sim.queue : sim.queue[i] \in EntryType
  BY SimFields DEF OffloadInv, SimOK
<1>2. \A entry \in EntryType : entry.at \in Times
  BY DEF EntryType
<1>3. \A at \in Times : at \in Nat /\ at <= Infinity
  BY TimesAreNatural DEF Times
<1> QED BY <1>1, <1>2, <1>3

\* Neither the next entry nor the clock is looked at.
PacesOn == UNCHANGED pace /\ (control = Main => control' = Main)

LEMMA PaceLeft ==
  ASSUME OffloadInv, PaceOK, PacesOn, Calm, ~ Idle \/ ~ Polled \/ sim.queue = <<>>
  PROVE  PaceOK'
<1>1. ~ pace.ready /\ pace' = pace /\ sim'.now = sim.now
  BY DEF PaceOK, PacesOn, Calm
<1>2. pace.on /\ control' # Main => OnLine(pace, sim'.now)
  BY <1>1 DEF PaceOK, PacesOn
<1>3. pace.origin = Infinity => sim'.now = Infinity
  BY <1>1 DEF PaceOK
<1> QED BY <1>1, <1>2, <1>3 DEF PaceOK

LEMMA PaceStarts == ASSUME RtInit PROVE PaceOK
<1>1. /\ pace.on \in BOOLEAN /\ pace.strict \in BOOLEAN /\ ~ pace.ready /\ PaceFields(pace)
      /\ pace.start = 0 /\ pace.origin = 0 /\ pace.begun.origin = 0 /\ pace.begun.start = 0
  BY DEF RtInit, PaceFields
<1>2. control = Main
  BY DEF RtInit, OffloadInit, Start
<1>3. PinnedLate(pace)
  BY <1>1, RealtimeAssumption DEF PinnedLate
<1>4. pace.origin # Infinity
  BY <1>1, TimeAssumption
<1> QED BY <1>1, <1>2, <1>3, <1>4 DEF PaceOK

LEMMA UserPaces == ASSUME OffloadInv, PaceOK, RtUser PROVE PaceOK'
<1>1. SimOK(sim) /\ UNCHANGED pace /\ UserActs
  BY DEF OffloadInv, RtUser
<1>2. Main \notin Processes(sim) /\ Loop \notin Processes(sim) /\ Main # Loop
  BY <1>1, ProcessIds DEF SimOK, Main, Loop
<1>3. control # Loop /\ (control = Main => control' = Main)
  <2>1. \A call : May(call) => control # Loop
    BY <1>2 DEF May
  <2>2. ASSUME NEW s, NEW q, UserCalls(s, q) PROVE control' = control
    BY <2>2 DEF UserCalls, Calls
  <2>3. CASE Submit \/ Cancel \/ Close
    BY <1>1, <2>3, PoolCalls DEF Calls
  <2>4. CASE UserNext
    <3>1. \A s : Calls(s) => control' = control
      BY DEF Calls
    <3>2. CASE YieldWrong \/ End
      BY <1>2, <3>2 DEF YieldWrong, End
    <3> QED BY <2>1, <2>4, <3>1, <3>2 DEF UserNext, MakeEvent, MakeTimeout, MakeCondition, Spawn,
         SucceedOrFail, Chain, Interrupt
  <2>5. CASE Yield
    BY <1>2, <2>5 DEF Yield, YieldOn
  <2> QED BY <1>1, <2>3, <2>4, <2>5 DEF UserActs
<1>4. Calm
  BY <1>1, SubmitKeepsPool, CancelKeepsPool, CloseKeepsPool, UserKeepsPool DEF UserActs
<1> QED BY <1>1, <1>3, <1>4, PaceLeft DEF PacesOn, Idle

LEMMA WorkersPace == ASSUME OffloadInv, PaceOK, RtWorkers PROVE PaceOK'
<1>1. UNCHANGED <<pace, sim, control, step>>
  BY DEF RtWorkers, Workers, WorkerTakes, WorkerFinishes, kernelVars
<1>2. pool'.walk = pool.walk
  <2>1. PoolFields(pool)
    BY DEF OffloadInv, PoolOK
  <2> QED BY <2>1 DEF RtWorkers, Workers, WorkerTakes, WorkerFinishes, PoolFields
<1> QED BY <1>1, <1>2 DEF PaceOK, Awaited, Idle, Polled, Deadline

LEMMA LoopPaces ==
  ASSUME OffloadInv, PaceOK, CallBack \/ Resolve \/ InterruptWaiter \/ EndStep \/ PollOne \/ GiveUp, UNCHANGED pace
  PROVE  PaceOK'
<1>1. Calm
  BY CallBackKeepsPool, ResolveKeepsPool, InterruptWaiterKeepsPool, EndStepKeepsPool, PollOneKeepsPool, GiveUpKeepsPool
<1>2. Main # Loop
  BY DEF Main, Loop
<1>3. control = Loop
  BY DEF CallBack, Resume, RunCheck, RunBuild, RunTrigger, RunStop, Resolve, InterruptWaiter, Turn, EndStep, FinishStep,
         PollOne, GiveUp, RunEmpty, Idle
<1>4. ~ Idle \/ ~ Polled \/ sim.queue = <<>>
  <2>1. CASE \E do : Turn(do)
    BY <2>1, NothingLeft DEF OffloadInv, Turn, Idle
  <2>2. CASE EndStep
    BY <2>2 DEF EndStep, FinishStep, Idle
  <2>3. CASE PollOne \/ GiveUp
    BY <2>3 DEF PollOne, GiveUp, RunEmpty, Polled
  <2> QED BY <2>1, <2>2, <2>3 DEF CallBack, Resume, RunCheck, RunBuild, RunTrigger, RunStop, Resolve, InterruptWaiter
<1> QED BY <1>1, <1>2, <1>3, <1>4, PaceLeft DEF PacesOn

LEMMA StartPaces == ASSUME OffloadInv, PaceOK, RtStart PROVE PaceOK'
<1>1. PICK now : now = sim.now
  OBVIOUS
<1>2. PICK p : p = pace'
  OBVIOUS
<1>3. p = [pace EXCEPT !.origin = now, !.start = pace.wall, !.ready = FALSE,
                       !.begun = [origin |-> now, start |-> pace.wall]]
  BY <1>1, <1>2 DEF RtStart, Pinned
<1>4. sim'.now = now
  BY <1>1, StartARunKeepsPool DEF RtStart, Calm
<1>5. now \in Int /\ PaceFields(pace)
  BY <1>1, SimFields DEF OffloadInv, SimOK, PaceOK
<1>6. /\ PaceFields(p) /\ ~ p.ready /\ p.begun.origin = now /\ p.begun.start = p.wall
      /\ p.origin = now /\ p.start = p.wall /\ p.wall \in Int
  BY <1>3, <1>5 DEF PaceFields
<1>7. PinnedLate(p) /\ OnLine(p, now)
  <2>1. (now - now) * Factor = 0
    BY <1>5, RealtimeAssumption
  <2> QED BY <1>6, <2>1 DEF PinnedLate, OnLine
<1> QED BY <1>2, <1>4, <1>6, <1>7 DEF PaceOK

LEMMA AwaitPaces == ASSUME OffloadInv, PaceOK, Await PROVE PaceOK'
<1>1. PICK i \in DOMAIN sim.queue :
        /\ IsNext(sim.queue, i)
        /\ IF sim.queue[i].at # Infinity /\ pace.strict /\ pace.wall - Deadline(i) > Factor
           THEN Cut(sim, <<>>, {}, "drift") /\ UNCHANGED pace
           ELSE /\ pace' = [pace EXCEPT !.ready = TRUE,
                               !.wall = IF sim.queue[i].at # Infinity /\ @ < Deadline(i) THEN Deadline(i) ELSE @]
                /\ UNCHANGED kernelVars
  BY ZenonT(60) DEF Await
<1>2. pace.on /\ ~ pace.ready /\ Idle /\ Polled /\ UNCHANGED pool /\ PaceFields(pace)
  BY DEF Await, PaceOK
<1>3. CASE Cut(sim, <<>>, {}, "drift") /\ UNCHANGED pace
  BY <1>2, <1>3 DEF PaceOK, Cut
<1>4. CASE /\ pace' = [pace EXCEPT !.ready = TRUE,
                          !.wall = IF sim.queue[i].at # Infinity /\ @ < Deadline(i) THEN Deadline(i) ELSE @]
           /\ UNCHANGED kernelVars
  <2>1. PICK d : d = Deadline(i)
    OBVIOUS
  <2> DEFINE timed == sim.queue[i].at # Infinity
  <2>2. d \in Int
    <3>1. sim.queue[i].at \in Int
      BY EntryTimes
    <3>2. (sim.queue[i].at - pace.origin) * Factor \in Int
      BY <1>2, <3>1, RealtimeAssumption DEF PaceFields
    <3> QED BY <1>2, <2>1, <3>2 DEF Deadline, PaceFields
  <2>3. PICK p : p = pace'
    OBVIOUS
  <2>4. p = [pace EXCEPT !.ready = TRUE, !.wall = IF timed /\ @ < d THEN d ELSE @]
    BY <1>4, <2>1, <2>3
  <2>5. /\ PaceFields(p) /\ p.wall \in Int /\ pace.wall \in Int /\ (timed => p.wall >= d) /\ p.wall >= pace.wall
        /\ p.start = pace.start /\ p.origin = pace.origin /\ p.begun = pace.begun /\ p.on = pace.on /\ p.ready
    <3> HIDE DEF timed
    <3>1. PICK w : w = IF timed /\ pace.wall < d THEN d ELSE pace.wall
      OBVIOUS
    <3>2. p = [pace EXCEPT !.ready = TRUE, !.wall = w]
      BY <2>4, <3>1
    <3>3. pace.wall \in Int
      BY <1>2 DEF PaceFields
    <3>4. w \in Int /\ (timed => w >= d) /\ w >= pace.wall
      BY <2>2, <3>1, <3>3
    <3>5. /\ PaceFields(p) /\ p.wall = w
          /\ p.start = pace.start /\ p.origin = pace.origin /\ p.begun = pace.begun /\ p.on = pace.on /\ p.ready
      BY <1>2, <3>2, <3>4 DEF PaceFields
    <3> QED BY <3>3, <3>4, <3>5
  <2>6. PinnedLate(p)
    BY <1>2, <2>5 DEF PaceOK, PinnedLate
  <2>7. sim' = sim /\ control' = control /\ step' = step /\ control # Main
    BY <1>2, <1>4 DEF kernelVars, Idle, Main, Loop
  <2>8. OnLine(p, sim.now)
    <3>1. OnLine(pace, sim.now) /\ sim.now \in Int
      BY <1>2, <2>7, SimFields DEF PaceOK, OffloadInv, SimOK
    <3>2. PICK x : x = (sim.now - pace.begun.origin) * Factor
      OBVIOUS
    <3>3. x \in Int /\ pace.begun.start \in Int
      BY <1>2, <3>1, <3>2, RealtimeAssumption DEF PaceFields
    <3>4. sim.now # Infinity => pace.wall >= pace.begun.start + x
      BY <3>1, <3>2 DEF OnLine
    <3>5. sim.now # Infinity => p.wall >= p.begun.start + x
      BY <2>5, <3>3, <3>4
    <3> QED BY <2>5, <3>2, <3>5 DEF OnLine
  <2>9. ASSUME NEW j \in DOMAIN sim.queue, IsNext(sim.queue, j) PROVE sim.queue[j].at # Infinity => p.wall >= Deadline(j)
    <3>1. sim.queue[j].at = sim.queue[i].at
      <4>1. \A k \in DOMAIN sim.queue : sim.queue[k].at \in Int
        BY EntryTimes
      <4> QED BY <1>1, <2>9, <4>1 DEF IsNext
    <3> QED BY <2>1, <2>5, <3>1 DEF Deadline
  <2>10. /\ PaceFields(pace') /\ PinnedLate(pace') /\ OnLine(pace', sim'.now)
         /\ Idle' /\ Polled' /\ sim'.queue # <<>>
    BY <1>2, <2>3, <2>5, <2>6, <2>7, <2>8 DEF Idle, Polled
  <2>11. \A j \in DOMAIN sim'.queue : IsNext(sim'.queue, j) => Awaited(j)'
    BY <2>3, <2>5, <2>7, <2>9 DEF Awaited, Deadline
  <2>12. pace'.origin = Infinity => sim'.now = Infinity
    BY <2>3, <2>5, <2>7 DEF PaceOK
  <2> QED BY <2>10, <2>11, <2>12 DEF PaceOK
<1> QED BY <1>1, <1>3, <1>4

\* The entry that a step takes was waited for.
LEMMA StepOnLine ==
  ASSUME OffloadInv, PaceOK, RtStep, pace.on
  PROVE  OnLine(pace, sim'.now)
<1>1. PICK i \in DOMAIN sim.queue : IsNext(sim.queue, i) /\ sim'.now = sim.queue[i].at
  BY StepTakes DEF RtStep
<1>2. pace.ready
  BY DEF RtStep
<1>3. Awaited(i) /\ PaceFields(pace) /\ PinnedLate(pace)
  BY <1>1, <1>2 DEF PaceOK
<1>4. PICK at : at = sim.queue[i].at
  OBVIOUS
<1>5. at \in Int /\ at >= sim.now /\ at <= Infinity
  <2>1. EntryOK(sim, sim.queue[i])
    BY DEF OffloadInv, SimOK
  <2> QED BY <1>4, <2>1, EntryTimes DEF EntryOK
<1>6. PICK p : p = pace
  OBVIOUS
<1>7. CASE at # Infinity
  <2>1. p.origin # Infinity
    BY <1>5, <1>6, <1>7, TimeAssumption DEF PaceOK
  <2>2. PaceFields(p) /\ PinnedLate(p) /\ p.wall >= p.start + (at - p.origin) * Factor
    BY <1>3, <1>4, <1>6, <1>7 DEF Awaited, Deadline
  <2>3. OnLine(p, at)
    BY <1>5, <2>1, <2>2, DeadlineOnLine
  <2> QED BY <1>1, <1>4, <1>6, <2>3
<1>8. CASE at = Infinity
  BY <1>1, <1>4, <1>8 DEF OnLine
<1> QED BY <1>7, <1>8

LEMMA StepPaces == ASSUME OffloadInv, PaceOK, RtStep PROVE PaceOK'
<1>1. pace.on => OnLine(pace, sim'.now)
  BY StepOnLine
<1>2. PICK p : p = pace'
  OBVIOUS
<1>3. p = [pace EXCEPT !.ready = FALSE] /\ PaceFields(pace)
  BY <1>2 DEF RtStep, PaceOK
<1>4. /\ PaceFields(p) /\ ~ p.ready /\ p.on = pace.on /\ p.wall = pace.wall /\ p.start = pace.start
      /\ p.origin = pace.origin /\ p.begun = pace.begun
  BY <1>3 DEF PaceFields
<1>5. p.on => PinnedLate(p) /\ OnLine(p, sim'.now)
  BY <1>1, <1>4 DEF PaceOK, PinnedLate, OnLine
<1>6. p.origin = Infinity => sim'.now = Infinity
  <2>1. PICK i \in DOMAIN sim.queue : sim'.now = sim.queue[i].at
    BY StepTakes DEF RtStep
  <2>2. EntryOK(sim, sim.queue[i]) /\ sim.now \in Nat
    BY EntryTimes DEF OffloadInv, SimOK
  <2>3. sim'.now \in Nat /\ sim'.now >= sim.now /\ sim'.now <= Infinity
    BY <2>1, <2>2, EntryTimes DEF EntryOK
  <2> QED BY <1>4, <2>2, <2>3, TimeAssumption DEF PaceOK
<1> QED BY <1>2, <1>4, <1>5, <1>6 DEF PaceOK

LEMMA DrainPaces == ASSUME OffloadInv, PaceOK, RtDrain PROVE PaceOK'
<1>1. sim' = sim /\ control' = control /\ ~ pace.ready /\ control # Main
  BY DEF RtDrain, Drain, kernelVars, PaceOK, Idle, Main, Loop
<1>2. PICK p : p = pace'
  OBVIOUS
<1>3. p = [pace EXCEPT !.origin = sim.now, !.start = pace.wall] /\ PaceFields(pace) /\ sim.now \in Int
  BY <1>2, SimFields DEF RtDrain, PaceOK, OffloadInv, SimOK
<1>4. /\ PaceFields(p) /\ ~ p.ready /\ p.on = pace.on /\ p.wall = pace.wall /\ p.start = pace.wall
      /\ p.origin = sim.now /\ p.begun = pace.begun
  BY <1>1, <1>3 DEF PaceFields
<1>5. pace.on => OnLine(pace, sim.now)
  BY <1>1 DEF PaceOK
<1>6. p.on => PinnedLate(p) /\ OnLine(p, sim.now)
  BY <1>4, <1>5 DEF PinnedLate, OnLine
<1> QED BY <1>1, <1>2, <1>4, <1>6 DEF PaceOK

LEMMA TickPaces == ASSUME OffloadInv, PaceOK, Tick PROVE PaceOK'
<1>1. UNCHANGED <<sim, control, step, pool>>
  BY DEF Tick, offloadVars
<1>2. PICK p : p = pace'
  OBVIOUS
<1>3. p = [pace EXCEPT !.wall = @ + 1] /\ PaceFields(pace)
  BY <1>2 DEF Tick, PaceOK
<1>4. /\ PaceFields(p) /\ p.ready = pace.ready /\ p.on = pace.on /\ p.wall = pace.wall + 1 /\ p.start = pace.start
      /\ p.origin = pace.origin /\ p.begun = pace.begun /\ pace.wall \in Int
  BY <1>3 DEF PaceFields
<1>5. p.on => PinnedLate(p)
  BY <1>4 DEF PaceOK, PinnedLate
<1>6. \A d \in Int : pace.wall >= d => p.wall >= d
  BY <1>4
<1>7. sim.now \in Int /\ \A i \in DOMAIN sim.queue : sim.queue[i].at \in Int
  BY EntryTimes
<1>8. pace.begun.start + (sim.now - pace.begun.origin) * Factor \in Int
  BY <1>3, <1>7, RealtimeAssumption DEF PaceFields
<1>9. OnLine(pace, sim.now) => OnLine(p, sim.now)
  BY <1>4, <1>6, <1>8 DEF OnLine
<1>10. \A i \in DOMAIN sim.queue : Deadline(i) \in Int
  BY <1>3, <1>7, RealtimeAssumption DEF PaceFields, Deadline
<1>11. \A i \in DOMAIN sim.queue : Deadline(i)' = Deadline(i)
  BY <1>1, <1>2, <1>4 DEF Deadline
<1>12. p.ready => /\ Idle /\ Polled /\ sim.queue # <<>>
                  /\ \A i \in DOMAIN sim.queue : (IsNext(sim.queue, i) /\ sim.queue[i].at # Infinity => p.wall >= Deadline(i))
  BY <1>4, <1>6, <1>10 DEF PaceOK, Awaited
<1>13. pace'.ready => /\ Idle' /\ Polled' /\ sim'.queue # <<>>
                      /\ \A i \in DOMAIN sim'.queue : IsNext(sim'.queue, i) => Awaited(i)'
  BY <1>1, <1>2, <1>11, <1>12 DEF Idle, Polled, Awaited
<1>14. /\ PaceFields(pace') /\ (pace'.on => PinnedLate(pace'))
       /\ (pace'.on /\ control' # Main => OnLine(pace', sim'.now))
       /\ (pace'.origin = Infinity => sim'.now = Infinity)
  BY <1>1, <1>2, <1>4, <1>5, <1>9 DEF PaceOK
<1> QED BY <1>13, <1>14 DEF PaceOK

LEMMA PaceKept == OffloadInv /\ PaceOK /\ [Next]_vars => PaceOK'
<1> SUFFICES ASSUME OffloadInv, PaceOK, [Next]_vars PROVE PaceOK'
  OBVIOUS
<1>1. CASE RtLoop
  BY <1>1, StartPaces, AwaitPaces, StepPaces, DrainPaces, LoopPaces DEF RtLoop
<1>2. CASE RtUser \/ RtWorkers \/ Tick
  BY <1>2, UserPaces, WorkersPace, TickPaces
<1>3. CASE UNCHANGED vars
  BY <1>3 DEF vars, PaceOK, Awaited, Idle, Polled, Deadline
<1> QED BY <1>1, <1>2, <1>3 DEF Next

EarlyNever == pace.on /\ Idle /\ step'.task # step.task => OnLine(pace, sim'.now)

LEMMA EarlyStep == ASSUME OffloadInv, PaceOK, [Next]_vars PROVE EarlyNever
<1> SUFFICES ASSUME pace.on, Idle, step'.task # step.task PROVE RtStep
  BY StepOnLine DEF EarlyNever
<1>1. control = Loop /\ control # Main /\ step.task = NoTask /\ step.rest = <<>>
  BY NothingLeft DEF Idle, OffloadInv, Main, Loop
<1>2. ~ RtUser
  <2>1. \A call : ~ May(call)
    BY <1>1, MayIsUser DEF OffloadInv
  <2>2. control \notin Processes(sim)
    BY <1>1, ProcessIds DEF OffloadInv, SimOK, Loop
  <2>3. ~ Submit /\ ~ Cancel /\ ~ Close
    BY <1>1, PoolCalls DEF OffloadInv
  <2> QED BY <2>1, <2>2, <2>3 DEF RtUser, UserActs, UserNext, MakeEvent, MakeTimeout, MakeCondition,
         Spawn, SucceedOrFail, Chain, Interrupt, YieldWrong, End, Yield, YieldOn
<1>3. ~ RtWorkers /\ ~ Tick /\ ~ UNCHANGED vars /\ ~ RtDrain
  BY DEF RtWorkers, Workers, WorkerTakes, WorkerFinishes, kernelVars, Tick, offloadVars, vars, RtDrain, Drain
<1>4. ~ RtStart /\ \A do : ~ Turn(do)
  BY <1>1 DEF RtStart, StartARun, RunToEnd, RunToTime, RunToEvent, StartRun, Turn
<1>5. ~ Await
  <2>1. Cut(sim, <<>>, {}, "drift") => step'.task = NoTask
    BY DEF Cut
  <2>2. UNCHANGED kernelVars => step'.task = step.task
    BY DEF kernelVars
  <2>3. Await => Cut(sim, <<>>, {}, "drift") \/ UNCHANGED kernelVars
    BY DEF Await
  <2> QED BY <1>1, <2>1, <2>2, <2>3
<1>6. ~ EndStep /\ ~ PollOne /\ ~ GiveUp
  BY <1>1 DEF EndStep, FinishStep, PollOne, GiveUp, RunEmpty
<1>7. ~ CallBack /\ ~ Resolve /\ ~ InterruptWaiter
  BY <1>4 DEF CallBack, Resume, RunCheck, RunBuild, RunTrigger, RunStop, Resolve, InterruptWaiter
<1> QED BY <1>2, <1>3, <1>4, <1>5, <1>6, <1>7 DEF Next, RtLoop

\* A paced run never processes an event before its wall-clock deadline, counted
\* from the beginning of the run, also after a drain (rt.run).
THEOREM NeverEarlyTheorem == Spec => NeverEarly
<1>1. RtInit => PaceOK
  BY PaceStarts
<1>2. Spec => []PaceOK
  BY <1>1, OffloadInvariance, PaceKept, PTL DEF Spec
<1>3. OffloadInv /\ PaceOK /\ [Next]_vars => [EarlyNever]_vars
  BY EarlyStep
<1> QED BY <1>2, <1>3, OffloadInvariance, PTL DEF Spec, NeverEarly, EarlyNever, OnLine

-----------------------------------------------------------------------------
(* The inline reference: its Sim is this Sim.                               *)

LEMMA InlineConstants ==
  /\ Inline!None = None /\ Inline!Main = Main /\ Inline!Loop = Loop
  /\ Inline!URGENT = URGENT /\ Inline!NORMAL = NORMAL
  /\ \A do, of : Inline!Call(do, of) = Call(do, of)
  /\ \A type : Inline!NewEvent(type) = NewEvent(type)
BY DEF None, Inline!None, Main, Inline!Main, Loop, Inline!Loop, URGENT, Inline!URGENT,
       NORMAL, Inline!NORMAL, Call, Inline!Call, NewEvent, Inline!NewEvent

LEMMA InlineTimes == \A t, d : Inline!Plus(t, d) = Plus(t, d) /\ Inline!Minus(t, d) = Minus(t, d)
BY DEF Plus, Inline!Plus, Minus, Inline!Minus

LEMMA InlineSim ==
  /\ Inline!NoTask = NoTask
  /\ \A s, e, r : Inline!Put(s, e, r) = Put(s, e, r)
  /\ \A s, r : Inline!Create(s, r) = Create(s, r)
  /\ \A s : Inline!Fresh(s) = Fresh(s)
  /\ \A s, task, prio, d : Inline!Schedule(s, task, prio, d) = Schedule(s, task, prio, d)
  /\ \A q, i : Inline!IsNext(q, i) = IsNext(q, i)
  /\ \A s : Inline!Processes(s) = Processes(s) /\ Inline!Conditions(s) = Conditions(s)
  /\ \A s, p : Inline!Alive(s, p) = Alive(s, p) /\ Inline!Failed(s, p) = Failed(s, p)
  /\ \A s, e, call : Inline!Hook(s, e, call) = Hook(s, e, call)
BY InlineConstants, InlineTimes DEF NoTask, Inline!NoTask, Put, Inline!Put, Create, Inline!Create, Fresh, Inline!Fresh, Schedule, Inline!Schedule,
       IsNext, Inline!IsNext, Processes, Inline!Processes, Conditions, Inline!Conditions, Alive, Inline!Alive,
       Failed, Inline!Failed, Hook, Inline!Hook

LEMMA InlineSequences ==
  /\ \A f : Inline!Range(f) = Range(f)
  /\ \A q, x : Inline!RemoveFirst(q, x) = RemoveFirst(q, x)
  /\ \A q, i : Inline!RemoveAt(q, i) = RemoveAt(q, i)
  /\ \A S : Inline!SetToSeq(S) = SetToSeq(S)
<1>1. \A f : Inline!Range(f) = Range(f)
  BY DEF Range, Inline!Range
<1>2. \A q, i : Inline!RemoveAt(q, i) = RemoveAt(q, i)
  BY DEF RemoveAt, Inline!RemoveAt
<1>3. \A q, x : Inline!RemoveFirst(q, x) = RemoveFirst(q, x)
  BY <1>2 DEF RemoveFirst, Inline!RemoveFirst, SelectInSeq, Inline!SelectInSeq, Min, Inline!Min
<1>4. \A S : Inline!SetToSeq(S) = SetToSeq(S)
  <2>1. \A S : Inline!Cardinality(S) = Cardinality(S)
    BY DEF Cardinality, Inline!Cardinality
  <2> QED BY <2>1 DEF SetToSeq, Inline!SetToSeq, IsInjective, Inline!IsInjective
<1> QED BY <1>1, <1>2, <1>3, <1>4

LEMMA InlineCheck ==
  /\ \A s, e, state : Inline!Trigger(s, e, state) = Trigger(s, e, state)
  /\ \A s, e : Inline!Sent(s, e) = Sent(s, e)
  /\ \A s, members : Inline!Defused(s, members) = Defused(s, members)
  /\ \A c : Inline!Holds(c) = Holds(c)
  /\ \A s, c, e : Inline!Check(s, c, e) = Check(s, c, e)
<1>1. \A s, e, state : Inline!Trigger(s, e, state) = Trigger(s, e, state)
  BY InlineConstants, InlineSim DEF Trigger, Inline!Trigger
<1>2. \A s, e : Inline!Sent(s, e) = Sent(s, e)
  BY InlineSim DEF Sent, Inline!Sent
<1>3. \A s, members : Inline!Defused(s, members) = Defused(s, members)
  BY InlineSim, InlineSequences DEF Defused, Inline!Defused
<1>4. \A c : Inline!Holds(c) = Holds(c)
  BY DEF Holds, Inline!Holds
<1>5. \A s, c, e : Inline!Check(s, c, e) = Check(s, c, e)
  BY <1>1, <1>3, <1>4, InlineSim DEF Check, Inline!Check
<1> QED BY <1>1, <1>2, <1>3, <1>4, <1>5

LEMMA InlineConditions ==
  /\ \A s, type, members : Inline!Combine(s, type, members) = Combine(s, type, members)
  /\ \A s, c : Inline!Nested(s, c) = Nested(s, c)
  /\ \A s, c : Inline!RemoveChecks(s, c) = RemoveChecks(s, c)
<1>1. ASSUME NEW s, NEW type, NEW members PROVE Inline!Combine(s, type, members) = Combine(s, type, members)
  BY ZenonT(60) DEF None, Inline!None, Call, Inline!Call, NewEvent, Inline!NewEvent, Put, Inline!Put, Create, Inline!Create, Fresh, Inline!Fresh, Schedule, Inline!Schedule, Failed, Inline!Failed, Hook, Inline!Hook, Trigger, Inline!Trigger, Defused, Inline!Defused, Holds, Inline!Holds, Check, Inline!Check, Combine, Inline!Combine, URGENT, Inline!URGENT, NORMAL, Inline!NORMAL, Range, Inline!Range, Plus, Inline!Plus
<1>2. \A s, c : Inline!Nested(s, c) = Nested(s, c)
  BY InlineSim, InlineSequences DEF Nested, Inline!Nested
<1>3. \A calls, dropped : Inline!Without(calls, dropped) = Without(calls, dropped)
  BY DEF Without, Inline!Without
<1>4. \A s, c : Inline!RemoveChecks(s, c) = RemoveChecks(s, c)
  BY <1>2, <1>3, InlineConstants, InlineSequences DEF RemoveChecks, Inline!RemoveChecks
<1> QED BY <1>1, <1>2, <1>4

LEMMA InlineProcesses ==
  /\ \A s : Inline!Spawned(s) = Spawned(s)
  /\ \A s, p : Inline!MayInterrupt(s, p) = MayInterrupt(s, p) /\ Inline!Interrupted(s, p) = Interrupted(s, p)
  /\ \A s, p : Inline!Waiting(s, p) = Waiting(s, p) /\ Inline!Unhooked(s, p) = Unhooked(s, p)
  /\ \A e : Inline!Heard(e) = Heard(e)
  /\ \A s, p, state : Inline!Ended(s, p, state) = Ended(s, p, state)
  /\ \A call : Inline!May(call) = May(call)
  /\ \A s : Inline!Calls(s) = Calls(s)
  /\ \A e : Inline!Pending(e) = Pending(e)
  /\ \A s, rest, seen, result : Inline!Cut(s, rest, seen, result) = Cut(s, rest, seen, result)
<1> USE InlineConstants, InlineSim, InlineSequences, InlineCheck
<1>1. \A s : Inline!Spawned(s) = Spawned(s)
  BY DEF Spawned, Inline!Spawned
<1>2. \A s, p : Inline!MayInterrupt(s, p) = MayInterrupt(s, p) /\ Inline!Interrupted(s, p) = Interrupted(s, p)
  BY DEF MayInterrupt, Inline!MayInterrupt, Interrupted, Inline!Interrupted
<1>3. \A s, p : Inline!Waiting(s, p) = Waiting(s, p) /\ Inline!Unhooked(s, p) = Unhooked(s, p)
  BY DEF Waiting, Inline!Waiting, Unhooked, Inline!Unhooked
<1>4. \A e : Inline!Heard(e) = Heard(e)
  BY DEF Heard, Inline!Heard
<1>5. \A s, p, state : Inline!Ended(s, p, state) = Ended(s, p, state)
  BY DEF Ended, Inline!Ended
<1>6. \A call : Inline!May(call) = May(call)
  BY DEF May, Inline!May
<1>7. \A s : Inline!Calls(s) = Calls(s)
  BY DEF Calls, Inline!Calls
<1>8. \A e : Inline!Pending(e) = Pending(e)
  BY DEF Pending, Inline!Pending
<1>9. \A s, rest, seen, result : Inline!Cut(s, rest, seen, result) = Cut(s, rest, seen, result)
  BY DEF Cut, Inline!Cut
<1> QED BY <1>1, <1>2, <1>3, <1>4, <1>5, <1>6, <1>7, <1>8, <1>9

LEMMA InlineUser == (Inline!UserNext <=> UserNext) /\ (Inline!Yield <=> Yield)
<1> USE InlineConstants, InlineSim, InlineProcesses
<1>1. (Inline!MakeEvent <=> MakeEvent) /\ (Inline!MakeTimeout <=> MakeTimeout) /\ (Inline!Spawn <=> Spawn)
  BY DEF MakeEvent, Inline!MakeEvent, MakeTimeout, Inline!MakeTimeout, Spawn, Inline!Spawn
<1>2. Inline!MakeCondition <=> MakeCondition
  BY InlineConditions DEF MakeCondition, Inline!MakeCondition
<1>3. Inline!SucceedOrFail <=> SucceedOrFail
  BY InlineCheck DEF SucceedOrFail, Inline!SucceedOrFail
<1>4. (Inline!Chain <=> Chain) /\ (Inline!Interrupt <=> Interrupt)
  BY DEF Chain, Inline!Chain, Interrupt, Inline!Interrupt
<1>5. (Inline!YieldWrong <=> YieldWrong) /\ (Inline!End <=> End)
  BY DEF YieldWrong, Inline!YieldWrong, End, Inline!End
<1>6. \A e : Inline!YieldOn(e) <=> YieldOn(e)
  BY InlineCheck DEF YieldOn, Inline!YieldOn
<1>7. Inline!Yield <=> Yield
  BY <1>6 DEF Yield, Inline!Yield
<1> QED BY <1>1, <1>2, <1>3, <1>4, <1>5, <1>7 DEF UserNext, Inline!UserNext

LEMMA InlineTurn ==
  /\ (Inline!Idle <=> Idle) /\ Inline!Callee = Callee
  /\ \A do : Inline!Turn(do) <=> Turn(do)
  /\ \A s : Inline!Done(s) <=> Done(s)
  /\ \A s, p, heard : Inline!Enter(s, p, heard) <=> Enter(s, p, heard)
  /\ \A s : Inline!DeliverInterruptTo(s) <=> DeliverInterruptTo(s)
<1> USE InlineConstants, InlineSim, InlineProcesses
<1>1. (Inline!Idle <=> Idle) /\ Inline!Callee = Callee /\ (\A do : Inline!Turn(do) <=> Turn(do))
  BY DEF Idle, Inline!Idle, Callee, Inline!Callee, Turn, Inline!Turn
<1>2. \A s : Inline!Done(s) <=> Done(s)
  BY DEF Done, Inline!Done
<1>3. \A s, p, heard : Inline!Enter(s, p, heard) <=> Enter(s, p, heard)
  BY DEF Enter, Inline!Enter
<1>4. \A s : Inline!DeliverInterruptTo(s) <=> DeliverInterruptTo(s)
  BY <1>1, <1>2, <1>3 DEF DeliverInterruptTo, Inline!DeliverInterruptTo
<1> QED BY <1>1, <1>2, <1>3, <1>4

LEMMA InlineLoop ==
  /\ (Inline!RunToEnd <=> RunToEnd) /\ (Inline!RunToTime <=> RunToTime) /\ (Inline!RunToEvent <=> RunToEvent)
  /\ (Inline!Pop <=> Pop) /\ (Inline!FinishStep <=> FinishStep) /\ (Inline!RunEmpty <=> RunEmpty)
  /\ (Inline!Resume <=> Resume) /\ (Inline!RunCheck <=> RunCheck) /\ (Inline!RunBuild <=> RunBuild)
  /\ (Inline!RunTrigger <=> RunTrigger) /\ (Inline!RunStop <=> RunStop)
<1> USE InlineConstants, InlineSim, InlineProcesses, InlineTurn
<1>1. \A s, until, at : Inline!StartRun(s, until, at) <=> StartRun(s, until, at)
  BY InlineSequences DEF StartRun, Inline!StartRun, StopsLeft, Inline!StopsLeft
<1>2. (Inline!RunToEnd <=> RunToEnd) /\ (Inline!RunToTime <=> RunToTime) /\ (Inline!RunToEvent <=> RunToEvent)
  BY <1>1, InlineTimes DEF RunToEnd, Inline!RunToEnd, RunToTime, Inline!RunToTime, RunToEvent, Inline!RunToEvent
<1>3. Inline!Pop <=> Pop
  BY InlineSequences, ZenonT(60) DEF Pop, Inline!Pop
<1>4. (Inline!FinishStep <=> FinishStep) /\ (Inline!RunEmpty <=> RunEmpty)
  BY DEF FinishStep, Inline!FinishStep, RunEmpty, Inline!RunEmpty
<1>5. (Inline!Resume <=> Resume) /\ (Inline!RunCheck <=> RunCheck)
  BY InlineCheck DEF Resume, Inline!Resume, RunCheck, Inline!RunCheck
<1>6. Inline!RunBuild <=> RunBuild
  BY InlineConditions DEF RunBuild, Inline!RunBuild
<1>7. (Inline!RunTrigger <=> RunTrigger) /\ (Inline!RunStop <=> RunStop)
  BY InlineCheck DEF RunTrigger, Inline!RunTrigger, RunStop, Inline!RunStop
<1> QED BY <1>2, <1>3, <1>4, <1>5, <1>6, <1>7

-----------------------------------------------------------------------------
(* The inline reference: its pool is this pool with every future done.      *)

LEMMA InlineJobs ==
  /\ \A s, due : Inline!Later(s, due) = Later(s, due)
  /\ \A value : Inline!StateOf(value) = StateOf(value)
  /\ \A strict, due, future, outcome : Inline!NewJob(strict, due, future, outcome) = NewJob(strict, due, future, outcome)
  /\ \A jobs, e, job : Inline!WithJob(jobs, e, job) = WithJob(jobs, e, job)
  /\ \A job : /\ Inline!OutcomeOf(job) = OutcomeOf(job) /\ (Inline!FutureDone(job) <=> FutureDone(job))
              /\ Inline!Gone(job) = Gone(job) /\ Inline!Stopped(job) = Stopped(job)
  /\ \A p, e : Inline!Forget(p, e) = Forget(p, e) /\ Inline!Abandoned(p, e) = Abandoned(p, e)
  /\ \A s, p, e : /\ Inline!Discarded(s, p, e) = Discarded(s, p, e)
                  /\ (Inline!MayAbandon(s, p, e) <=> MayAbandon(s, p, e))
<1>1. /\ \A s, due : Inline!Later(s, due) = Later(s, due)
      /\ \A value : Inline!StateOf(value) = StateOf(value)
      /\ \A strict, due, future, outcome :
           Inline!NewJob(strict, due, future, outcome) = NewJob(strict, due, future, outcome)
      /\ \A jobs, e, job : Inline!WithJob(jobs, e, job) = WithJob(jobs, e, job)
  BY InlineTimes DEF Later, Inline!Later, StateOf, Inline!StateOf, NewJob, Inline!NewJob, WithJob, Inline!WithJob
<1>2. \A job : /\ Inline!OutcomeOf(job) = OutcomeOf(job) /\ (Inline!FutureDone(job) <=> FutureDone(job))
               /\ Inline!Gone(job) = Gone(job) /\ Inline!Stopped(job) = Stopped(job)
  BY DEF OutcomeOf, Inline!OutcomeOf, FutureDone, Inline!FutureDone, Gone, Inline!Gone, Stopped, Inline!Stopped
<1>3. \A p, e : Inline!Forget(p, e) = Forget(p, e)
  BY InlineSequences, ZenonT(60) DEF Forget, Inline!Forget
<1>4. \A p, e : Inline!Abandoned(p, e) = Abandoned(p, e)
  BY <1>2, <1>3 DEF Abandoned, Inline!Abandoned
<1>5. \A s, p, e : Inline!Discarded(s, p, e) = Discarded(s, p, e)
  BY <1>1, InlineConstants, InlineSim DEF Discarded, Inline!Discarded
<1>6. \A s, p, e : Inline!MayAbandon(s, p, e) <=> MayAbandon(s, p, e)
  BY DEF MayAbandon, Inline!MayAbandon
<1> QED BY <1>1, <1>2, <1>3, <1>4, <1>5, <1>6

\* Every job of q is one of p whose payload has run.
AllRan(jobs) == [e \in DOMAIN jobs |-> Ran(jobs[e])]

LEMMA InlineFields ==
  ASSUME NEW p, PoolFields(p), NEW q, q = InlinePool(p)
  PROVE  /\ q.mode = "inline" /\ q.jobs = AllRan(p.jobs) /\ DOMAIN q.jobs = DOMAIN p.jobs
         /\ \A e \in DOMAIN p.jobs : q.jobs[e] = Ran(p.jobs[e])
         /\ q.closed = p.closed /\ q.workers = p.workers /\ q.pending = p.pending
         /\ q.live = p.live /\ q.walk = p.walk
         /\ q = [mode |-> "inline", closed |-> p.closed, workers |-> p.workers, pending |-> p.pending,
                 live |-> p.live, jobs |-> AllRan(p.jobs), walk |-> p.walk]
BY DEF InlinePool, PoolFields, AllRan

LEMMA RanFields ==
  ASSUME NEW job \in JobType
  PROVE  /\ Ran(job) \in JobType /\ Ran(job).future = "done"
         /\ Ran(job).strict = job.strict /\ Ran(job).due = job.due /\ Ran(job).outcome = job.outcome
         /\ Ran(job).abandoned = job.abandoned /\ Ran(job).value = job.value
         /\ Ran(Gone(job)) = Gone(Ran(job)) /\ Stopped(Ran(job)) = Ran(Stopped(job))
BY DEF Ran, Gone, Stopped, JobType

\* The table of jobs, with one of them changed.
LEMMA RanBut ==
  ASSUME NEW jobs, NEW e \in DOMAIN jobs, NEW job
  PROVE  AllRan([jobs EXCEPT ![e] = job]) = [AllRan(jobs) EXCEPT ![e] = Ran(job)]
<1>1. PICK r : r = Ran(job)
  OBVIOUS
<1>2. PICK all : all = AllRan(jobs)
  OBVIOUS
<1>3. DOMAIN all = DOMAIN jobs /\ \A f \in DOMAIN jobs : all[f] = Ran(jobs[f])
  BY <1>2 DEF AllRan
<1>4. [all EXCEPT ![e] = r] = [f \in DOMAIN jobs |-> IF f = e THEN r ELSE Ran(jobs[f])]
  BY <1>2, <1>3 DEF AllRan
<1>5. AllRan([jobs EXCEPT ![e] = job]) = [f \in DOMAIN jobs |-> IF f = e THEN r ELSE Ran(jobs[f])]
  BY <1>1 DEF AllRan
<1> QED BY <1>1, <1>2, <1>4, <1>5

LEMMA ForgottenInline ==
  ASSUME NEW p, PoolFields(p), NEW e, NEW jobs
  PROVE  ForgottenWith(InlinePool(p), e, AllRan(jobs)) = InlinePool(ForgottenWith(p, e, jobs))
<1>1. PICK a : a = RemoveFirst(p.pending, e)
  OBVIOUS
<1>2. PICK all : all = AllRan(jobs)
  OBVIOUS
<1>3. PICK q : q = InlinePool(p)
  OBVIOUS
<1>4. /\ q.pending = p.pending
      /\ q = [mode |-> "inline", closed |-> p.closed, workers |-> p.workers, pending |-> p.pending,
              live |-> p.live, jobs |-> AllRan(p.jobs), walk |-> p.walk]
  BY <1>3, InlineFields
<1>5. ForgottenWith(q, e, all) = [mode |-> "inline", closed |-> p.closed, workers |-> p.workers,
                                  pending |-> a, live |-> p.live \ {e}, jobs |-> all, walk |-> p.walk]
  <2>1. RemoveFirst(q.pending, e) = a
    BY <1>1, <1>4
  <2>2. PICK k : k = Forget(q, e)
    OBVIOUS
  <2>3. k = [q EXCEPT !.pending = a, !.live = @ \ {e}]
    BY <2>1, <2>2 DEF Forget
  <2>4. k = [mode |-> "inline", closed |-> p.closed, workers |-> p.workers,
             pending |-> a, live |-> p.live \ {e}, jobs |-> AllRan(p.jobs), walk |-> p.walk]
    BY <1>4, <2>3
  <2>5. ForgottenWith(q, e, all) = [k EXCEPT !.jobs = all]
    BY <2>2 DEF ForgottenWith
  <2> QED BY <2>4, <2>5
<1>6. PICK r : r = ForgottenWith(p, e, jobs)
  OBVIOUS
<1>7. r = [mode |-> p.mode, closed |-> p.closed, workers |-> p.workers,
           pending |-> a, live |-> p.live \ {e}, jobs |-> jobs, walk |-> p.walk]
  <2>1. PICK k : k = Forget(p, e)
    OBVIOUS
  <2>2. k = [p EXCEPT !.pending = a, !.live = @ \ {e}]
    BY <1>1, <2>1 DEF Forget
  <2>3. r = [k EXCEPT !.jobs = jobs]
    BY <1>6, <2>1 DEF ForgottenWith
  <2>4. k = [mode |-> p.mode, closed |-> p.closed, workers |-> p.workers,
             pending |-> a, live |-> p.live \ {e}, jobs |-> p.jobs, walk |-> p.walk]
    BY <2>2 DEF PoolFields
  <2> QED BY <2>3, <2>4
<1>8. InlinePool(r) = [mode |-> "inline", closed |-> p.closed, workers |-> p.workers,
                       pending |-> a, live |-> p.live \ {e}, jobs |-> all, walk |-> p.walk]
  <2>1. [x \in DOMAIN jobs |-> Ran(jobs[x])] = all
    BY <1>2 DEF AllRan
  <2>2. r.jobs = jobs
    BY <1>7
  <2>3. InlinePool(r) = [r EXCEPT !.mode = "inline", !.jobs = all]
    BY <2>1, <2>2 DEF InlinePool
  <2> QED BY <1>7, <2>3
<1> QED BY <1>2, <1>3, <1>5, <1>6, <1>8

\* Cancelling a job whose payload has run is cancelling the job.
LEMMA AbandonInline ==
  ASSUME NEW s, NEW p, PoolOK(s, p), NEW e \in DOMAIN p.jobs
  PROVE  /\ Abandoned(InlinePool(p), e) = InlinePool(Abandoned(p, e))
         /\ \A t : Discarded(t, InlinePool(p), e) = Discarded(t, p, e)
         /\ MayAbandon(s, InlinePool(p), e) <=> MayAbandon(s, p, e)
<1>1. PoolFields(p)
  BY DEF PoolOK
<1>2. PICK q : q = InlinePool(p)
  OBVIOUS
<1>3. PICK job : job = p.jobs[e]
  OBVIOUS
<1>4. /\ q.jobs = AllRan(p.jobs) /\ DOMAIN q.jobs = DOMAIN p.jobs /\ q.jobs[e] = Ran(job)
  BY <1>1, <1>2, <1>3, InlineFields
<1>5. /\ Ran(job).abandoned = job.abandoned /\ Ran(job).due = job.due
      /\ Ran(Gone(job)) = Gone(Ran(job))
  BY <1>3, JobsFields, RanFields
<1>6. PICK jobs : jobs = [p.jobs EXCEPT ![e] = Gone(job)]
  OBVIOUS
<1>7. Abandoned(p, e) = ForgottenWith(p, e, jobs)
  <2>1. PICK k : k = Forget(p, e)
    OBVIOUS
  <2>2. k.jobs = p.jobs
    BY <1>1, <2>1 DEF Forget, PoolFields
  <2>3. Abandoned(p, e) = [k EXCEPT !.jobs = jobs]
    BY <1>3, <1>6, <2>1, <2>2 DEF Abandoned
  <2> QED BY <2>1, <2>3 DEF ForgottenWith
<1>8. AllRan(jobs) = [q.jobs EXCEPT ![e] = Gone(Ran(job))]
  BY <1>4, <1>5, <1>6, RanBut
<1>9. Abandoned(q, e) = ForgottenWith(q, e, AllRan(jobs))
  <2>1. PICK k : k = Forget(q, e)
    OBVIOUS
  <2>2. k.jobs = q.jobs
    <3>1. q = [mode |-> "inline", closed |-> p.closed, workers |-> p.workers, pending |-> p.pending,
               live |-> p.live, jobs |-> AllRan(p.jobs), walk |-> p.walk]
      BY <1>1, <1>2, InlineFields
    <3> QED BY <2>1, <3>1 DEF Forget
  <2>3. PICK all : all = AllRan(jobs)
    OBVIOUS
  <2>4. PICK gone : gone = Gone(Ran(job))
    OBVIOUS
  <2>5. Abandoned(q, e) = [k EXCEPT !.jobs = [q.jobs EXCEPT ![e] = gone]]
    BY <1>4, <2>1, <2>2, <2>4 DEF Abandoned
  <2>6. Abandoned(q, e) = [k EXCEPT !.jobs = all]
    BY <1>8, <2>3, <2>4, <2>5
  <2> QED BY <2>1, <2>3, <2>6 DEF ForgottenWith
<1>10. Abandoned(q, e) = InlinePool(Abandoned(p, e))
  BY <1>1, <1>2, <1>7, <1>9, ForgottenInline
<1>11. q.jobs[e].abandoned = p.jobs[e].abandoned /\ q.jobs[e].due = p.jobs[e].due
  BY <1>3, <1>4, <1>5
<1>12. (\A t : Discarded(t, q, e) = Discarded(t, p, e)) /\ (MayAbandon(s, q, e) <=> MayAbandon(s, p, e))
  BY <1>11 DEF Discarded, MayAbandon
<1> QED BY <1>2, <1>10, <1>12

LEMMA InlineCancelAll == \A w, left : Inline!CancelAll(w, left) = CancelAll(w, left)
<1> SUFFICES ASSUME NEW w, NEW left PROVE Inline!CancelAll(w, left) = CancelAll(w, left)
  OBVIOUS
<1> QED BY ZenonT(60) DEF CancelAll, Inline!CancelAll, Cancelled, Inline!Cancelled, MayAbandon, Inline!MayAbandon,
      Discarded, Inline!Discarded, Abandoned, Inline!Abandoned, Forget, Inline!Forget, Gone, Inline!Gone,
      Schedule, Inline!Schedule, Call, Inline!Call, NORMAL, Inline!NORMAL, Later, Inline!Later, Plus, Inline!Plus, Minus, Inline!Minus,
      RemoveFirst, Inline!RemoveFirst, RemoveAt, Inline!RemoveAt, SelectInSeq, Inline!SelectInSeq, Min, Inline!Min

\* The same Sim, and the same pool but for what its workers have done.
SameInline(w, v) == v.sim = w.sim /\ v.pool = InlinePool(w.pool)

LEMMA CancelOneInline ==
  ASSUME NEW w, NEW v, SameInline(w, v), PoolOK(w.sim, w.pool), NEW e \in DOMAIN w.pool.jobs
  PROVE  SameInline(Cancelled(w, e), Cancelled(v, e))
<1>1. PICK s : s = w.sim
  OBVIOUS
<1>2. PICK p : p = w.pool
  OBVIOUS
<1>3. PICK q : q = InlinePool(p)
  OBVIOUS
<1>4. v.sim = s /\ v.pool = q
  BY <1>1, <1>2, <1>3 DEF SameInline
<1>5. /\ Abandoned(q, e) = InlinePool(Abandoned(p, e)) /\ Discarded(s, q, e) = Discarded(s, p, e)
      /\ MayAbandon(s, q, e) <=> MayAbandon(s, p, e)
  BY <1>1, <1>2, <1>3, AbandonInline
<1>6. CASE MayAbandon(s, p, e)
  <2>1. Cancelled(w, e) = [sim |-> Discarded(s, p, e), pool |-> Abandoned(p, e)]
    BY <1>1, <1>2, <1>6 DEF Cancelled
  <2>2. Cancelled(v, e) = [sim |-> Discarded(s, q, e), pool |-> Abandoned(q, e)]
    BY <1>4, <1>5, <1>6 DEF Cancelled
  <2> QED BY <1>5, <2>1, <2>2 DEF SameInline
<1>7. CASE ~ MayAbandon(s, p, e)
  <2>1. Cancelled(w, e) = w /\ Cancelled(v, e) = v
    BY <1>1, <1>2, <1>4, <1>5, <1>7 DEF Cancelled
  <2> QED BY <2>1
<1> QED BY <1>6, <1>7

LEMMA CancelAllInline ==
  ASSUME NEW s, SimOK(s), NEW p, PoolOK(s, p), NEW left \in Seq(DOMAIN p.jobs),
         \A i \in 1 .. Len(left) : ~ s.events[left[i]].processed
  PROVE  SameInline(CancelAll([sim |-> s, pool |-> p], left),
                    CancelAll([sim |-> s, pool |-> InlinePool(p)], left))
<1>1. PICK a : a = [sim |-> s, pool |-> p]
  OBVIOUS
<1>2. PICK b : b = [sim |-> s, pool |-> InlinePool(p)]
  OBVIOUS
<1>3. a.sim = s /\ a.pool = p /\ SameInline(a, b)
  BY <1>1, <1>2 DEF SameInline
<1>4. Cancelling(s, p, s, p)
  BY AsideNothing DEF Cancelling
<1>5. PICK g : CancelsUpTo(g, Len(left), a, left) /\ CancelAll(a, left) = g[Len(left)]
  BY CancelsExist
<1>6. PICK h : CancelsUpTo(h, Len(left), b, left) /\ CancelAll(b, left) = h[Len(left)]
  BY CancelsExist
<1>7. PICK n : n = Len(left)
  OBVIOUS
<1>8. n \in Nat /\ \A i \in 1 .. n : left[i] \in DOMAIN p.jobs /\ ~ s.events[left[i]].processed
  BY <1>7
<1>9. g[0] = a /\ \A i \in 1 .. n : g[i] = Cancelled(g[i - 1], left[i])
  BY <1>5, <1>7, <1>8, CancelsFields
<1>10. h[0] = b /\ \A i \in 1 .. n : h[i] = Cancelled(h[i - 1], left[i])
  BY <1>6, <1>7, <1>8, CancelsFields
<1> DEFINE Fine(i) == Cancelling(s, p, g[i].sim, g[i].pool) /\ SameInline(g[i], h[i])
<1>11. Fine(0)
  BY <1>3, <1>4, <1>9, <1>10
<1>12. ASSUME NEW i \in 1 .. n, Fine(i - 1) PROVE Fine(i)
  <2>1. PICK w : w = g[i - 1]
    OBVIOUS
  <2>2. PICK v : v = h[i - 1]
    OBVIOUS
  <2>3. PICK e : e = left[i]
    OBVIOUS
  <2>4. e \in DOMAIN p.jobs /\ ~ s.events[e].processed
    BY <1>8, <2>3
  <2>5. Cancelling(s, p, w.sim, w.pool) /\ SameInline(w, v)
    BY <1>12, <2>1, <2>2
  <2>6. PICK x : x = Cancelled(w, e)
    OBVIOUS
  <2>7. Cancelling(s, p, x.sim, x.pool)
    BY <2>4, <2>5, <2>6, CancelOne
  <2>8. PoolOK(w.sim, w.pool) /\ e \in DOMAIN w.pool.jobs
    BY <2>4, <2>5 DEF Cancelling
  <2>9. SameInline(x, Cancelled(v, e))
    BY <2>5, <2>6, <2>8, CancelOneInline
  <2>10. g[i] = x /\ h[i] = Cancelled(v, e)
    BY <1>9, <1>10, <2>1, <2>2, <2>3, <2>6
  <2> QED BY <2>7, <2>9, <2>10
<1> DEFINE Bad == {i \in Nat : i <= n /\ ~ Fine(i)}
<1>13. Bad = {}
  <2> SUFFICES ASSUME Bad # {} PROVE FALSE
    OBVIOUS
  <2>1. PICK i \in Bad : \A k \in Bad : i <= k
    BY LeastNatural
  <2>2. i \in Nat /\ i <= n /\ ~ Fine(i)
    BY <2>1
  <2> HIDE DEF Fine
  <2>3. i # 0
    BY <1>11, <2>2
  <2>4. i - 1 \in Nat /\ i - 1 <= n /\ i - 1 < i /\ i \in 1 .. n
    BY <1>8, <2>2, <2>3
  <2>5. Fine(i - 1)
    <3>1. i - 1 \notin Bad
      <4> HIDE DEF Bad
      <4> QED BY <2>1, <2>2, <2>4
    <3> QED BY <2>4, <3>1
  <2> QED BY <1>12, <2>2, <2>4, <2>5
<1>14. Fine(n)
  <2>1. n \notin Bad
    <3> HIDE DEF Bad, Fine
    <3> QED BY <1>13
  <2> HIDE DEF Fine
  <2> QED BY <1>8, <2>1
<1> QED BY <1>1, <1>2, <1>5, <1>6, <1>7, <1>14

-----------------------------------------------------------------------------
(* Each step with strict offloads only is a step of the inline reference.   *)

LEMMA NothingPending ==
  ASSUME OffloadInv, OnlyStrict
  PROVE  pool.pending = <<>> /\ pool.walk = <<>>
<1>1. UseOK /\ PoolOK(sim, pool) /\ WalkOK
  BY DEF OffloadInv
<1>2. \A e \in DOMAIN pool.jobs : pool.jobs[e].strict
  BY <1>1 DEF UseOK, OnlyStrict, Jobs
<1>3. OpenJobs(pool, FALSE) = {}
  BY <1>2 DEF OpenJobs
<1>4. pool.pending \in Seq(Nat) /\ pool.walk \in Seq(Nat) /\ Range(pool.pending) = {}
  BY <1>1, <1>3, JobsFields
<1>5. Range(pool.walk) = {}
  BY <1>1, <1>4 DEF WalkOK
<1>6. ASSUME NEW a \in Seq(Nat), Range(a) = {} PROVE a = <<>>
  <2>1. DOMAIN a = {}
    BY <1>6 DEF Range
  <2> QED BY <2>1
<1> QED BY <1>4, <1>5, <1>6

LEMMA Mirror ==
  ASSUME OffloadInv, NEW q, q = InlinePool(pool)
  PROVE  /\ PoolFields(pool) /\ q.mode = "inline" /\ q.closed = pool.closed /\ q.workers = pool.workers
         /\ q.pending = pool.pending /\ q.live = pool.live /\ q.walk = pool.walk
         /\ q.jobs = AllRan(pool.jobs) /\ DOMAIN q.jobs = Jobs
         /\ \A e \in Jobs : q.jobs[e] = Ran(pool.jobs[e])
         /\ Inline!Jobs = Jobs /\ (Inline!Polled <=> Polled)
<1>1. PoolFields(pool)
  BY DEF OffloadInv, PoolOK
<1>2. /\ q.mode = "inline" /\ q.closed = pool.closed /\ q.workers = pool.workers
      /\ q.pending = pool.pending /\ q.live = pool.live /\ q.walk = pool.walk
      /\ q.jobs = AllRan(pool.jobs) /\ DOMAIN q.jobs = DOMAIN pool.jobs
      /\ \A e \in DOMAIN pool.jobs : q.jobs[e] = Ran(pool.jobs[e])
  BY <1>1, InlineFields
<1>3. Inline!Jobs = DOMAIN q.jobs /\ (Inline!Polled <=> q.walk = <<>>)
  BY DEF Inline!Jobs, Inline!Polled
<1> QED BY <1>1, <1>2, <1>3 DEF Jobs, Polled

LEMMA UserInline ==
  ASSUME (UserNext \/ Yield) /\ UNCHANGED pool
  PROVE  Inline!UserActs
BY InlineUser DEF Inline!UserActs

LEMMA LoopInline ==
  ASSUME OffloadInv
  PROVE  /\ StartARun => Inline!StartARun
         /\ CallBack => Inline!CallBack
         /\ StepNext => Inline!StepNext
         /\ GiveUp => Inline!GiveUp
<1>1. PICK q : q = InlinePool(pool)
  OBVIOUS
<1>2. (Inline!Polled <=> Polled) /\ q.pending = pool.pending
  BY <1>1, Mirror
<1>3. (StartARun => Inline!StartARun) /\ (CallBack => Inline!CallBack)
  BY InlineLoop DEF StartARun, Inline!StartARun, CallBack, Inline!CallBack
<1>4. (StepNext => Inline!StepNext) /\ (GiveUp => Inline!GiveUp)
  BY <1>1, <1>2, InlineLoop DEF StepNext, Inline!StepNext, GiveUp, Inline!GiveUp
<1> QED BY <1>3, <1>4

LEMMA WorkersInline ==
  ASSUME OffloadInv, Workers
  PROVE  UNCHANGED Inline!offloadVars
<1>1. PoolFields(pool) /\ pool.jobs \in [DOMAIN pool.jobs -> JobType]
  BY DEF OffloadInv, PoolOK
<1>2. PICK e \in Jobs, future \in {"running", "done"} : pool' = [pool EXCEPT !.jobs[e].future = future]
  BY DEF Workers, WorkerTakes, WorkerFinishes, Working
<1>3. PICK job : job = pool.jobs[e]
  OBVIOUS
<1>4. PICK p : p = [pool EXCEPT !.jobs = [pool.jobs EXCEPT ![e] = [job EXCEPT !.future = future]]]
  OBVIOUS
<1>5. pool' = p
  BY <1>2, <1>3, <1>4
<1>6. job \in JobType /\ e \in DOMAIN pool.jobs
  BY <1>1, <1>3 DEF Jobs
<1>7. Ran([job EXCEPT !.future = future]) = Ran(job)
  BY <1>6 DEF Ran, JobType
<1>8. PICK jobs : jobs = [pool.jobs EXCEPT ![e] = [job EXCEPT !.future = future]]
  OBVIOUS
<1>9. AllRan(jobs) = AllRan(pool.jobs)
  <2>1. \A f \in DOMAIN pool.jobs : Ran(jobs[f]) = Ran(pool.jobs[f])
    BY <1>3, <1>7, <1>8
  <2> QED BY <1>8, <2>1 DEF AllRan
<1>10. p.jobs = jobs /\ PoolFields(p) /\ p.closed = pool.closed /\ p.workers = pool.workers
       /\ p.pending = pool.pending /\ p.live = pool.live /\ p.walk = pool.walk
  BY <1>1, <1>4, <1>8 DEF PoolFields
<1>11. InlinePool(p) = InlinePool(pool)
  <2>1. InlinePool(p) = [mode |-> "inline", closed |-> p.closed, workers |-> p.workers, pending |-> p.pending,
                         live |-> p.live, jobs |-> AllRan(p.jobs), walk |-> p.walk]
    BY <1>10, InlineFields
  <2>2. InlinePool(pool) = [mode |-> "inline", closed |-> pool.closed, workers |-> pool.workers,
                            pending |-> pool.pending, live |-> pool.live, jobs |-> AllRan(pool.jobs),
                            walk |-> pool.walk]
    BY <1>1, InlineFields
  <2> QED BY <1>9, <1>10, <2>1, <2>2
<1>12. UNCHANGED kernelVars
  BY DEF Workers, WorkerTakes, WorkerFinishes
<1> QED BY <1>5, <1>11, <1>12 DEF Inline!offloadVars, kernelVars

LEMMA CancelInline ==
  ASSUME OffloadInv, Cancel
  PROVE  Inline!Cancel
<1>1. PICK e \in Jobs : MayAbandon(sim, pool, e) /\ UserCalls(Discarded(sim, pool, e), Abandoned(pool, e))
  BY DEF Cancel
<1>2. PICK q : q = InlinePool(pool)
  OBVIOUS
<1>3. PoolOK(sim, pool) /\ e \in DOMAIN pool.jobs
  BY DEF OffloadInv, Jobs
<1>4. /\ Abandoned(q, e) = InlinePool(Abandoned(pool, e)) /\ Discarded(sim, q, e) = Discarded(sim, pool, e)
      /\ MayAbandon(sim, q, e)
  BY <1>1, <1>2, <1>3, AbandonInline
<1>5. Calls(Discarded(sim, q, e)) /\ InlinePool(pool') = Abandoned(q, e)
  BY <1>1, <1>4 DEF UserCalls
<1>6. Inline!UserCalls(Discarded(sim, q, e), Abandoned(q, e))
  BY <1>5, InlineProcesses DEF Inline!UserCalls
<1>7. e \in Inline!Jobs
  BY <1>2, Mirror
<1>8. Inline!May("cancel")
  BY InlineProcesses DEF Cancel
<1> QED BY <1>2, <1>4, <1>6, <1>7, <1>8, InlineJobs DEF Inline!Cancel

LEMMA StilledInline ==
  ASSUME NEW p, PoolFields(p), \A e \in DOMAIN p.jobs : p.jobs[e] \in JobType
  PROVE  InlinePool(Stilled(p)) = Stilled(InlinePool(p))
<1>1. PICK jobs : jobs = [e \in DOMAIN p.jobs |-> Stopped(p.jobs[e])]
  OBVIOUS
<1>2. PICK r : r = Stilled(p)
  OBVIOUS
<1>3. r = [p EXCEPT !.closed = TRUE, !.jobs = jobs]
  BY <1>1, <1>2 DEF Stilled, PoolFields
<1>4. /\ PoolFields(r) /\ r.closed = TRUE /\ r.jobs = jobs /\ r.workers = p.workers
      /\ r.pending = p.pending /\ r.live = p.live /\ r.walk = p.walk
  BY <1>3 DEF PoolFields
<1>5. InlinePool(r) = [mode |-> "inline", closed |-> TRUE, workers |-> p.workers, pending |-> p.pending,
                       live |-> p.live, jobs |-> AllRan(jobs), walk |-> p.walk]
  BY <1>4, InlineFields
<1>6. PICK q : q = InlinePool(p)
  OBVIOUS
<1>7. /\ q = [mode |-> "inline", closed |-> p.closed, workers |-> p.workers, pending |-> p.pending,
              live |-> p.live, jobs |-> AllRan(p.jobs), walk |-> p.walk]
      /\ q.jobs = AllRan(p.jobs)
  BY <1>6, InlineFields
<1>8. [e \in DOMAIN q.jobs |-> Stopped(q.jobs[e])] = AllRan(jobs)
  <2>1. DOMAIN q.jobs = DOMAIN p.jobs /\ DOMAIN jobs = DOMAIN p.jobs
    BY <1>1, <1>7 DEF AllRan
  <2>2. \A e \in DOMAIN p.jobs : q.jobs[e] = Ran(p.jobs[e]) /\ jobs[e] = Stopped(p.jobs[e])
    BY <1>1, <1>7 DEF AllRan
  <2>3. \A e \in DOMAIN p.jobs : Stopped(q.jobs[e]) = Ran(jobs[e])
    BY <2>2, RanFields
  <2> QED BY <2>1, <2>3 DEF AllRan
<1>9. Stilled(q) = [q EXCEPT !.closed = TRUE, !.jobs = AllRan(jobs)]
  BY <1>8 DEF Stilled
<1>10. PICK all : all = AllRan(jobs)
  OBVIOUS
<1>11. Stilled(q) = [mode |-> "inline", closed |-> TRUE, workers |-> p.workers, pending |-> p.pending,
                     live |-> p.live, jobs |-> all, walk |-> p.walk]
  <2>1. Stilled(q) = [q EXCEPT !.closed = TRUE, !.jobs = all]
    BY <1>9, <1>10
  <2> QED BY <1>7, <2>1
<1> QED BY <1>2, <1>5, <1>6, <1>10, <1>11

LEMMA CloseInline ==
  ASSUME OffloadInv, Close
  PROVE  Inline!Close
<1>1. SimOK(sim) /\ StepOK /\ PoolOK(sim, pool)
  BY DEF OffloadInv
<1>2. Undelivered(sim, pool)
  <2>1. control # Loop
    BY <1>1, MayIsUser DEF Close
  <2> QED BY <2>1, NoneDelivered
<1>3. PICK left : left = LeftOver(pool)
  OBVIOUS
<1>4. left \in Seq(DOMAIN pool.jobs) /\ \A i \in 1 .. Len(left) : ~ sim.events[left[i]].processed
  BY <1>1, <1>2, <1>3, Outstanding
<1>5. PICK p : p = InlinePool(pool)
  OBVIOUS
<1>6. PICK w : w = CancelAll([sim |-> sim, pool |-> pool], left)
  OBVIOUS
<1>7. PICK v : v = CancelAll([sim |-> sim, pool |-> p], left)
  OBVIOUS
<1>8. v.sim = w.sim /\ v.pool = InlinePool(w.pool)
  BY <1>1, <1>4, <1>5, <1>6, <1>7, CancelAllInline DEF SameInline
<1>9. PICK q : q = w.pool
  OBVIOUS
<1>10. PoolFields(q) /\ \A e \in DOMAIN q.jobs : q.jobs[e] \in JobType
  <2>1. PICK t : t = w.sim
    OBVIOUS
  <2>2. Cancelling(sim, pool, t, q)
    BY <1>1, <1>4, <1>6, <1>9, <2>1, CancelAllKeeps
  <2>3. PoolOK(t, q)
    BY <2>2 DEF Cancelling
  <2> QED BY <2>3, JobsFields DEF PoolOK
<1>11. InlinePool(Stilled(q)) = Stilled(InlinePool(q))
  BY <1>10, StilledInline
<1>12. sim' = w.sim /\ pool' = Stilled(q) /\ Calls(w.sim)
  BY <1>3, <1>6, <1>9 DEF Close, UserCalls, Calls, Stilled, LeftOver
<1>13. InlinePool(pool') = Stilled(v.pool) /\ Calls(v.sim)
  BY <1>8, <1>9, <1>11, <1>12
<1>14. p.closed = pool.closed /\ LeftOver(p) = left
  <2>1. p.closed = pool.closed /\ p.pending = pool.pending /\ p.live = pool.live
    BY <1>5, Mirror
  <2> QED BY <1>3, <2>1 DEF LeftOver
<1>15. v = Inline!CancelAll([sim |-> sim, pool |-> p], p.pending \o Inline!SetToSeq(p.live))
  BY <1>7, <1>14, InlineCancelAll, InlineSequences DEF LeftOver
<1>16. Inline!UserCalls(v.sim, [v.pool EXCEPT !.closed = TRUE,
                                             !.jobs = [e \in DOMAIN @ |-> Inline!Stopped(@[e])]])
  <2>1. [v.pool EXCEPT !.closed = TRUE, !.jobs = [e \in DOMAIN @ |-> Inline!Stopped(@[e])]] = Stilled(v.pool)
    <3>1. \A job : Inline!Stopped(job) = Stopped(job)
      BY InlineJobs
    <3> QED BY <3>1, ZenonT(60) DEF Stilled
  <2> QED BY <1>13, <2>1, InlineProcesses DEF Inline!UserCalls
<1>17. Inline!May("close") /\ ~ p.closed
  BY <1>14, InlineProcesses DEF Close
<1> QED BY <1>5, <1>15, <1>16, <1>17 DEF Inline!Close

LEMMA ResolveInline ==
  ASSUME OffloadInv, Resolve
  PROVE  Inline!Resolve
<1>1. SimOK(sim) /\ StepOK /\ PoolOK(sim, pool) /\ Turn("resolve")
  BY DEF OffloadInv, Resolve
<1>2. PICK e : e = step.task.of
  OBVIOUS
<1>3. e \in DOMAIN pool.jobs
  <2>1. CallOK(sim, e, Head(step.rest)) /\ e \in DOMAIN sim.events
    BY <1>1, <1>2, CalleeFits
  <2>2. sim.events[e].type = "offload"
    BY <1>1, <2>1 DEF Turn, CallOK
  <2> QED BY <1>1, <2>1, <2>2, JobsFields
<1>4. PICK job : job = pool.jobs[e]
  OBVIOUS
<1>5. PICK ran : ran = Ran(job)
  OBVIOUS
<1>6. PICK q : q = InlinePool(pool)
  OBVIOUS
<1>7. job \in JobType /\ JobOK(sim, pool, e) /\ q.jobs = AllRan(pool.jobs) /\ q.jobs[e] = ran
  BY <1>1, <1>3, <1>4, <1>5, <1>6, JobsFields, Mirror DEF Jobs
<1>8. ran.abandoned = job.abandoned /\ ran.future = "done" /\ ran.outcome = job.outcome
  BY <1>5, <1>7, RanFields
<1>9. Inline!Turn("resolve")
  BY <1>1, InlineTurn
<1>10. CASE job.abandoned
  <2>1. Done(sim) /\ UNCHANGED pool
    BY <1>2, <1>4, <1>10 DEF Resolve
  <2>2. Inline!Done(sim) /\ InlinePool(pool)' = q
    BY <1>6, <2>1, InlineTurn
  <2> QED BY <1>2, <1>6, <1>7, <1>8, <1>9, <1>10, <2>2 DEF Inline!Resolve
<1>11. CASE ~ job.abandoned
  <2>1. PICK value : value = OutcomeOf(job)
    OBVIOUS
  <2>2. value = OutcomeOf(ran) /\ FutureDone(ran)
    <3>1. job.future # "cancelled"
      BY <1>4, <1>7, <1>11 DEF JobOK
    <3> QED BY <1>8, <2>1, <3>1 DEF OutcomeOf, FutureDone
  <2>3. Done([sim EXCEPT !.events[e].state = StateOf(value)])
        /\ pool' = [Forget(pool, e) EXCEPT !.jobs[e].value = value]
    BY <1>2, <1>4, <1>11, <2>1 DEF Resolve
  <2>4. PICK jobs : jobs = [pool.jobs EXCEPT ![e] = [job EXCEPT !.value = value]]
    OBVIOUS
  <2>5. pool' = ForgottenWith(pool, e, jobs)
    <3>1. PICK k : k = Forget(pool, e)
      OBVIOUS
    <3>2. k.jobs = pool.jobs
      BY <1>1, <3>1 DEF Forget, PoolOK, PoolFields
    <3>3. pool' = [k EXCEPT !.jobs = jobs]
      BY <1>4, <2>3, <2>4, <3>1, <3>2
    <3> QED BY <3>1, <3>3 DEF ForgottenWith
  <2>6. InlinePool(pool') = ForgottenWith(q, e, AllRan(jobs))
    BY <1>1, <1>6, <2>5, ForgottenInline DEF PoolOK
  <2>7. AllRan(jobs) = [q.jobs EXCEPT ![e] = [ran EXCEPT !.value = value]]
    <3>1. Ran([job EXCEPT !.value = value]) = [ran EXCEPT !.value = value]
      BY <1>5, <1>7 DEF Ran, JobType
    <3> QED BY <1>3, <1>7, <2>4, <3>1, RanBut
  <2>8. ForgottenWith(q, e, AllRan(jobs)) = [Forget(q, e) EXCEPT !.jobs[e].value = value]
    <3>1. PICK k : k = Forget(q, e)
      OBVIOUS
    <3>2. k.jobs = q.jobs
      <4>1. q = [mode |-> "inline", closed |-> pool.closed, workers |-> pool.workers,
                 pending |-> pool.pending, live |-> pool.live, jobs |-> AllRan(pool.jobs),
                 walk |-> pool.walk]
        BY <1>1, <1>6, InlineFields DEF PoolOK
      <4> QED BY <3>1, <4>1 DEF Forget
    <3>3. PICK all : all = [q.jobs EXCEPT ![e] = [ran EXCEPT !.value = value]]
      OBVIOUS
    <3>4. [k EXCEPT !.jobs[e].value = value] = [k EXCEPT !.jobs = all]
      BY <1>7, <3>2, <3>3
    <3> QED BY <2>7, <3>1, <3>3, <3>4 DEF ForgottenWith
  <2>9. InlinePool(pool)' = [Inline!Forget(q, e) EXCEPT !.jobs[e].value = value]
    BY <2>6, <2>8, InlineJobs
  <2>10. Inline!Done([sim EXCEPT !.events[e].state = Inline!StateOf(value)])
    BY <2>3, InlineTurn, InlineJobs
  <2>11. value = Inline!OutcomeOf(ran) /\ Inline!FutureDone(ran)
    BY <2>2, InlineJobs
  <2> QED BY <1>2, <1>6, <1>7, <1>8, <1>9, <1>11, <2>9, <2>10, <2>11 DEF Inline!Resolve
<1> QED BY <1>7, <1>10, <1>11 DEF JobType

LEMMA InterruptInline ==
  ASSUME OffloadInv, InterruptWaiter
  PROVE  Inline!InterruptWaiter
<1>1. PICK e : e = sim.events[Callee].target
  OBVIOUS
<1>2. PICK last : last = (Alive(sim, Callee) /\ e # None /\ LeavesAlone(Callee, e))
  OBVIOUS
<1>3. PICK freed : freed = Unhooked(sim, Callee)
  OBVIOUS
<1>4. PICK q : q = InlinePool(pool)
  OBVIOUS
<1>5. /\ Turn("interrupt")
      /\ DeliverInterruptTo(IF last THEN Discarded(freed, pool, e) ELSE freed)
      /\ pool' = IF last THEN Abandoned(pool, e) ELSE pool
  BY <1>1, <1>2, <1>3 DEF InterruptWaiter
<1>6. PoolOK(sim, pool) /\ Inline!Jobs = Jobs /\ Jobs = DOMAIN pool.jobs
  BY <1>4, Mirror DEF OffloadInv, Jobs
<1>7. e \in Jobs => /\ Abandoned(q, e) = InlinePool(Abandoned(pool, e))
                    /\ Discarded(freed, q, e) = Discarded(freed, pool, e)
                    /\ MayAbandon(sim, q, e) <=> MayAbandon(sim, pool, e)
  BY <1>4, <1>6, AbandonInline
<1>8. \A p : Inline!LeavesAlone(p, e) <=> LeavesAlone(p, e)
  BY <1>4, <1>6, <1>7, InlineConstants, InlineSequences, InlineProcesses, InlineJobs
  DEF LeavesAlone, Inline!LeavesAlone
<1>9. last = (Inline!Alive(sim, Inline!Callee) /\ e # Inline!None /\ Inline!LeavesAlone(Inline!Callee, e))
  BY <1>2, <1>8, InlineConstants, InlineSim, InlineTurn
<1>10. last => e \in Jobs
  BY <1>2 DEF LeavesAlone
<1>11. Inline!DeliverInterruptTo(IF last THEN Inline!Discarded(freed, q, e) ELSE freed)
  BY <1>5, <1>7, <1>10, InlineTurn, InlineJobs
<1>12. InlinePool(pool)' = IF last THEN Inline!Abandoned(q, e) ELSE q
  BY <1>4, <1>5, <1>7, <1>10, InlineJobs
<1>13. freed = Inline!Unhooked(sim, Inline!Callee) /\ e = sim.events[Inline!Callee].target /\ Inline!Turn("interrupt")
  BY <1>1, <1>3, <1>5, InlineProcesses, InlineTurn
<1> QED BY <1>4, <1>9, <1>11, <1>12, <1>13 DEF Inline!InterruptWaiter

LEMMA EndStepInline ==
  ASSUME OffloadInv, EndStep
  PROVE  Inline!EndStep
<1>1. PICK q : q = InlinePool(pool)
  OBVIOUS
<1>2. PoolFields(pool) /\ q.pending = pool.pending
  BY <1>1, Mirror
<1>3. PICK r : r = [pool EXCEPT !.walk = pool.pending]
  OBVIOUS
<1>4. InlinePool(r) = [q EXCEPT !.walk = pool.pending]
  <2>1. PICK all : all = AllRan(pool.jobs)
    OBVIOUS
  <2>2. q = [mode |-> "inline", closed |-> pool.closed, workers |-> pool.workers, pending |-> pool.pending,
             live |-> pool.live, jobs |-> all, walk |-> pool.walk]
    BY <1>1, <1>2, <2>1, InlineFields
  <2>3. /\ PoolFields(r) /\ r.closed = pool.closed /\ r.jobs = pool.jobs /\ r.workers = pool.workers
        /\ r.pending = pool.pending /\ r.live = pool.live /\ r.walk = pool.pending
    BY <1>2, <1>3 DEF PoolFields
  <2>4. InlinePool(r) = [mode |-> "inline", closed |-> pool.closed, workers |-> pool.workers,
                         pending |-> pool.pending, live |-> pool.live, jobs |-> all, walk |-> pool.pending]
    BY <2>1, <2>3, InlineFields
  <2> QED BY <2>2, <2>4
<1>5. FinishStep /\ pool' = IF control' = Loop THEN r ELSE pool
  BY <1>3 DEF EndStep
<1>6. InlinePool(pool)' = IF control' = Loop THEN [q EXCEPT !.walk = q.pending] ELSE q
  BY <1>1, <1>2, <1>4, <1>5
<1> QED BY <1>1, <1>5, <1>6, InlineLoop, InlineConstants DEF Inline!EndStep

LEMMA NewRan ==
  \A strict, due, future, outcome :
    Ran(NewJob(strict, due, future, outcome)) = NewJob(strict, due, "done", outcome)
<1> TAKE strict, due, future, outcome
<1>1. PICK job : job = NewJob(strict, due, future, outcome)
  OBVIOUS
<1>2. PICK ran : ran = Ran(job)
  OBVIOUS
<1>3. ran = [job EXCEPT !.future = "done"]
  BY <1>2 DEF Ran
<1>4. job = [strict |-> strict, due |-> due, future |-> future, outcome |-> outcome,
             abandoned |-> FALSE, value |-> "nothing"]
  BY <1>1 DEF NewJob
<1>5. ran = [strict |-> strict, due |-> due, future |-> "done", outcome |-> outcome,
             abandoned |-> FALSE, value |-> "nothing"]
  BY <1>3, <1>4
<1> QED BY <1>1, <1>2, <1>5 DEF NewJob

\* The pool with other tables.
WithTables(p, jobs, live) == [p EXCEPT !.jobs = jobs, !.live = live]

LEMMA PutInline ==
  ASSUME NEW p, PoolFields(p), NEW jobs, NEW live
  PROVE  InlinePool(WithTables(p, jobs, live)) = WithTables(InlinePool(p), AllRan(jobs), live)
<1>1. PICK r : r = [p EXCEPT !.jobs = jobs, !.live = live]
  OBVIOUS
<1>2. PICK all : all = AllRan(jobs)
  OBVIOUS
<1>3. r = [mode |-> p.mode, closed |-> p.closed, workers |-> p.workers, pending |-> p.pending,
           live |-> live, jobs |-> jobs, walk |-> p.walk]
  BY <1>1 DEF PoolFields
<1>4. InlinePool(r) = [mode |-> "inline", closed |-> p.closed, workers |-> p.workers,
                       pending |-> p.pending, live |-> live, jobs |-> all, walk |-> p.walk]
  <2>1. r.jobs = jobs
    BY <1>3
  <2>2. InlinePool(r) = [r EXCEPT !.mode = "inline", !.jobs = all]
    BY <1>2, <2>1 DEF InlinePool, AllRan
  <2> QED BY <1>3, <2>2
<1>5. PICK old : old = AllRan(p.jobs)
  OBVIOUS
<1>6. PICK q : q = InlinePool(p)
  OBVIOUS
<1>7. q = [mode |-> "inline", closed |-> p.closed, workers |-> p.workers, pending |-> p.pending,
           live |-> p.live, jobs |-> old, walk |-> p.walk]
  BY <1>5, <1>6, InlineFields
<1>8. PICK k : k = [q EXCEPT !.jobs = all, !.live = live]
  OBVIOUS
<1>9. k = [mode |-> "inline", closed |-> p.closed, workers |-> p.workers,
           pending |-> p.pending, live |-> live, jobs |-> all, walk |-> p.walk]
  BY <1>7, <1>8
<1> QED BY <1>1, <1>2, <1>4, <1>6, <1>8, <1>9 DEF WithTables

LEMMA SubmitInline ==
  ASSUME OffloadInv, OnlyStrict, Submit
  PROVE  Inline!Submit
<1>1. PICK q : q = InlinePool(pool)
  OBVIOUS
<1>2. PICK kind \in {"strict", "nonstrict"}, d \in Delays \cup {0}, outcome \in cast.outcomes :
        LET e == Fresh(sim)
            strict == kind = "strict"
            job == NewJob(strict, Plus(sim.now, d), IF pool.mode = "inline" THEN "done" ELSE "queued", outcome)
            known == [pool EXCEPT !.jobs = WithJob(@, e, job)]
            born == NewEvent("offload")
        IN  /\ May(kind)
            /\ IF strict
               THEN UserCalls(Schedule(Create(sim, [born EXCEPT !.state = "ok",
                                                                !.callbacks = <<Call("resolve", None)>>]),
                                       Call("event", e), NORMAL, d),
                              [known EXCEPT !.live = @ \cup {e}])
               ELSE UserCalls(Create(sim, born), [known EXCEPT !.pending = Append(@, e)])
  BY Zenon DEF Submit
<1>3. May(kind) /\ kind = "strict"
  BY <1>2 DEF May, OnlyStrict
<1>4. PICK e : e = Fresh(sim)
  OBVIOUS
<1>5. PICK due : due = Plus(sim.now, d)
  OBVIOUS
<1>6. PICK future : future = IF pool.mode = "inline" THEN "done" ELSE "queued"
  OBVIOUS
<1>7. PICK job : job = NewJob(TRUE, due, future, outcome)
  OBVIOUS
<1>8. PICK s : s = Schedule(Create(sim, [NewEvent("offload") EXCEPT !.state = "ok",
                                                 !.callbacks = <<Call("resolve", None)>>]),
                            Call("event", e), NORMAL, d)
  OBVIOUS
<1>9. PICK jobs : jobs = WithJob(pool.jobs, e, job)
  OBVIOUS
<1>10. PICK live : live = pool.live \cup {e}
  OBVIOUS
<1>11. PICK r : r = [pool EXCEPT !.jobs = jobs, !.live = live]
  OBVIOUS
<1>12. UserCalls(s, r)
  <2>1. PICK known : known = [pool EXCEPT !.jobs = WithJob(@, e, job)]
    OBVIOUS
  <2>2. UserCalls(s, [known EXCEPT !.live = @ \cup {e}])
    BY <1>2, <1>3, <1>4, <1>5, <1>6, <1>7, <1>8, <2>1
  <2>3. [known EXCEPT !.live = @ \cup {e}] = r
    <3>1. PoolFields(pool)
      BY DEF OffloadInv, PoolOK
    <3> QED BY <1>11, <1>9, <1>10, <2>1, <3>1 DEF PoolFields
  <2> QED BY <2>2, <2>3
<1>13. PICK ran : ran = NewJob(TRUE, due, "done", outcome)
  OBVIOUS
<1>14. Ran(job) = ran
  BY <1>7, <1>13, NewRan
<1>15. /\ q = [mode |-> "inline", closed |-> pool.closed, workers |-> pool.workers, pending |-> pool.pending,
               live |-> pool.live, jobs |-> AllRan(pool.jobs), walk |-> pool.walk]
       /\ PoolFields(pool)
  BY <1>1, Mirror, InlineFields
<1>16. AllRan(jobs) = WithJob(AllRan(pool.jobs), e, ran)
  BY <1>14, <1>9 DEF AllRan, WithJob
<1>17. InlinePool(r) = [q EXCEPT !.jobs = WithJob(q.jobs, e, ran), !.live = q.live \cup {e}]
  <2>1. InlinePool(r) = [q EXCEPT !.jobs = AllRan(jobs), !.live = live]
    <3>1. InlinePool(WithTables(pool, jobs, live)) = WithTables(InlinePool(pool), AllRan(jobs), live)
      BY <1>15, PutInline
    <3> QED BY <1>1, <1>11, <3>1 DEF WithTables
  <2>2. q.jobs = AllRan(pool.jobs) /\ q.live = pool.live
    BY <1>15
  <2> QED BY <1>16, <1>10, <2>1, <2>2
<1>18. ~ q.closed /\ q.mode = "inline"
  BY <1>15 DEF Submit
<1>19. Inline!UserCalls(s, InlinePool(r))
  BY <1>12, InlineProcesses DEF UserCalls, Inline!UserCalls
<1>20. Inline!UserCalls(s, [[q EXCEPT !.jobs = Inline!WithJob(@, e, ran)] EXCEPT !.live = @ \cup {e}])
  <2>1. PICK all : all = WithJob(q.jobs, e, ran)
    OBVIOUS
  <2>2. PICK known : known = [q EXCEPT !.jobs = all]
    OBVIOUS
  <2>3. [known EXCEPT !.live = @ \cup {e}] = [q EXCEPT !.jobs = all, !.live = q.live \cup {e}]
    BY <1>15, <2>2
  <2>4. [known EXCEPT !.live = @ \cup {e}] = InlinePool(r)
    BY <1>17, <2>1, <2>3
  <2>5. [q EXCEPT !.jobs = Inline!WithJob(@, e, ran)] = known
    BY <2>1, <2>2, InlineJobs
  <2> QED BY <1>19, <2>4, <2>5
<1>21. e = Inline!Fresh(sim) /\ Inline!May("strict") /\ ran = Inline!NewJob(TRUE, due, "done", outcome)
  BY <1>3, <1>4, <1>13, InlineSim, InlineProcesses, InlineJobs
<1>22. s = Inline!Schedule(Inline!Create(sim, [Inline!NewEvent("offload") EXCEPT !.state = "ok",
                                               !.callbacks = <<Inline!Call("resolve", Inline!None)>>]),
                           Inline!Call("event", e), Inline!NORMAL, d)
  BY <1>8, InlineConstants, InlineSim
<1>23. LET f == Inline!Fresh(sim)
           strict == kind = "strict"
           new == Inline!NewJob(strict, Inline!Plus(sim.now, d), IF q.mode = "inline" THEN "done" ELSE "queued", outcome)
           known == [q EXCEPT !.jobs = Inline!WithJob(@, f, new)]
           born == Inline!NewEvent("offload")
       IN  /\ Inline!May(kind)
           /\ IF strict
              THEN Inline!UserCalls(Inline!Schedule(Inline!Create(sim, [born EXCEPT !.state = "ok",
                                                !.callbacks = <<Inline!Call("resolve", Inline!None)>>]),
                                      Inline!Call("event", f), Inline!NORMAL, d),
                             [known EXCEPT !.live = @ \cup {f}])
              ELSE Inline!UserCalls(Inline!Create(sim, born), [known EXCEPT !.pending = Append(@, f)])
  <2>1. (kind = "strict") = TRUE /\ (IF q.mode = "inline" THEN "done" ELSE "queued") = "done"
    BY <1>3, <1>18
  <2>2. Inline!May(kind)
    BY <1>3, <1>21
  <2>3. Inline!NewJob(kind = "strict", Inline!Plus(sim.now, d),
                      IF q.mode = "inline" THEN "done" ELSE "queued", outcome) = ran
    BY <1>5, <1>21, <2>1, InlineTimes
  <2> QED BY <1>3, <1>20, <1>21, <1>22, <2>2, <2>3
<1> QED BY <1>1, <1>18, <1>23, ZenonT(60) DEF Inline!Submit

LEMMA PoolInline ==
  ASSUME OffloadInv, OnlyStrict, OffloadNext
  PROVE  Inline!OffloadNext \/ UNCHANGED Inline!offloadVars
<1>1. UserActs => Inline!UserActs
  BY UserInline, SubmitInline, CancelInline, CloseInline DEF UserActs, Inline!UserActs
<1>2. Workers => UNCHANGED Inline!offloadVars
  BY WorkersInline
<1>3. ~ PollOne /\ ~ Drain
  BY NothingPending DEF PollOne, Drain
<1>4. LoopGoesOn => Inline!LoopGoesOn
  BY <1>3, LoopInline, ResolveInline, InterruptInline, EndStepInline DEF LoopGoesOn, Inline!LoopGoesOn
<1>5. (StepNext => Inline!StepNext) /\ (GiveUp => Inline!GiveUp)
  BY LoopInline
<1> QED BY <1>1, <1>2, <1>3, <1>4, <1>5 DEF OffloadNext, Inline!OffloadNext

LEMMA SameOffload ==
  ASSUME UNCHANGED offloadVars
  PROVE  UNCHANGED Inline!offloadVars
BY DEF offloadVars, Inline!offloadVars

\* Pacing waits; only drift ends a run that the inline reference would go on with.
LEMMA AwaitInline ==
  ASSUME UseOK, Await, run'.result # "drift"
  PROVE  UNCHANGED Inline!offloadVars
<1>1. PICK i : IF sim.queue[i].at # Infinity /\ pace.strict /\ pace.wall - Deadline(i) > Factor
               THEN Cut(sim, <<>>, {}, "drift") ELSE UNCHANGED kernelVars
  BY Zenon DEF Await
<1>2. ~ Cut(sim, <<>>, {}, "drift")
  BY DEF Cut, UseOK
<1>3. UNCHANGED kernelVars /\ UNCHANGED pool
  BY <1>1, <1>2 DEF Await
<1> QED BY <1>3, SameOffload DEF kernelVars, offloadVars

StepIsInline ==
  OnlyStrict /\ run'.result # "drift" => Inline!OffloadNext \/ UNCHANGED Inline!offloadVars

LEMMA InlineStep == ASSUME OffloadInv, [Next]_vars PROVE StepIsInline
<1> SUFFICES ASSUME OnlyStrict, run'.result # "drift"
             PROVE  Inline!OffloadNext \/ UNCHANGED Inline!offloadVars
  BY DEF StepIsInline
<1>1. OffloadNext => Inline!OffloadNext \/ UNCHANGED Inline!offloadVars
  BY PoolInline
<1>2. CASE RtUser \/ RtWorkers
  BY <1>1, <1>2 DEF RtUser, RtWorkers, OffloadNext
<1>3. CASE RtLoop /\ ~ Await
  BY <1>1, <1>3 DEF RtLoop, RtStart, RtStep, RtDrain, OffloadNext, LoopGoesOn
<1>4. CASE Await
  BY <1>4, AwaitInline DEF OffloadInv
<1>5. CASE Tick \/ UNCHANGED vars
  <2>1. UNCHANGED offloadVars
    BY <1>5 DEF Tick, vars, offloadVars
  <2> QED BY <2>1, SameOffload
<1> QED BY <1>2, <1>3, <1>4, <1>5 DEF Next

\* With strict offloads only, the pooled and the paced run take the steps of
\* the sequential one, where a payload runs when it is submitted: for any
\* number of workers, whenever they finish and whatever the wall clock says,
\* cancels and close included (offload.py:6-12, rt.py:8-11).
THEOREM StrictIsInlineTheorem == Spec => StrictIsInline
<1>1. OffloadInv /\ [Next]_vars => StepIsInline
  BY InlineStep
<1>2. [](OffloadInv) /\ [][Next]_vars => [][StepIsInline]_vars
  BY <1>1, PTL
<1> QED BY <1>2, OffloadInvariance, PTL DEF Spec, StrictIsInline, StepIsInline

====
