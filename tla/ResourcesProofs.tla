--------------------------- MODULE ResourcesProofs ---------------------------
(***************************************************************************)
(* A shared resource: whoever asks, leaves, is interrupted or bumped, what *)
(* it holds is within capacity and adds up, for every number of processes, *)
(* requests and calls; and it leaves the Kernel's own promises intact.     *)
(***************************************************************************)
EXTENDS Resources, KernelProofs

-----------------------------------------------------------------------------
(* The Kernel keeps its hands off the requests. *)

IsRequest(s, e) == s.events[e].type \in RequestTypes

\* From s to t no request is made, granted or failed.
Apart(s, t) ==
  /\ DOMAIN s.events \subseteq DOMAIN t.events
  /\ \A e \in DOMAIN s.events :
       /\ t.events[e].type = s.events[e].type
       /\ IsRequest(s, e) => t.events[e].state = s.events[e].state
  /\ \A e \in DOMAIN t.events \ DOMAIN s.events : ~ IsRequest(t, e)

LEMMA ApartTrans ==
  ASSUME NEW s, NEW t, NEW u, Apart(s, t), Apart(t, u)
  PROVE  Apart(s, u)
<1>1. DOMAIN s.events \subseteq DOMAIN t.events /\ DOMAIN t.events \subseteq DOMAIN u.events
  BY DEF Apart
<1>2. \A e \in DOMAIN s.events : /\ u.events[e].type = s.events[e].type
                                 /\ IsRequest(s, e) => u.events[e].state = s.events[e].state
  BY <1>1 DEF Apart, IsRequest
<1>3. \A e \in DOMAIN u.events \ DOMAIN s.events : ~ IsRequest(u, e)
  BY <1>1 DEF Apart, IsRequest
<1> QED BY <1>1, <1>2, <1>3 DEF Apart

LEMMA ApartSame ==
  ASSUME NEW s, NEW t, DOMAIN t.events = DOMAIN s.events,
         \A e \in DOMAIN s.events : /\ t.events[e].type = s.events[e].type
                                    /\ t.events[e].state = s.events[e].state
  PROVE  Apart(s, t)
BY DEF Apart

LEMMA ApartOnly ==
  ASSUME NEW s, NEW t, NEW e, Only(s, t, e),
         e \in DOMAIN s.events => /\ t.events[e].type = s.events[e].type
                                  /\ t.events[e].state = s.events[e].state
  PROVE  Apart(s, t)
<1>1. \A f \in DOMAIN s.events : /\ t.events[f].type = s.events[f].type
                                 /\ t.events[f].state = s.events[f].state
  BY DEF Only
<1>2. DOMAIN t.events = DOMAIN s.events
  BY DEF Only
<1> QED BY <1>1, <1>2, ApartSame

LEMMA ApartTrigger ==
  ASSUME NEW s, SimOK(s), NEW e \in DOMAIN s.events, ~ IsRequest(s, e), NEW state \in {"ok", "failed"}
  PROVE  Apart(s, Trigger(s, e, state))
<1>1. PICK t : t = Trigger(s, e, state)
  OBVIOUS
<1>2. /\ DOMAIN t.events = DOMAIN s.events
      /\ \A f \in DOMAIN s.events \ {e} : t.events[f] = s.events[f]
      /\ t.events[e].type = s.events[e].type
  BY <1>1, TriggerSim
<1>3. Apart(s, t)
  BY <1>2 DEF Apart
<1> QED BY <1>1, <1>3

LEMMA ApartCreate ==
  ASSUME NEW s, SimOK(s), NEW r \in EventType, ~ r.processed, r.callbacks = <<>>, r.target = None,
         Range(r.members) \subseteq DOMAIN s.events, r.type \notin RequestTypes
  PROVE  Apart(s, Create(s, r))
<1>1. /\ DOMAIN Create(s, r).events = DOMAIN s.events \cup {Fresh(s)}
      /\ Create(s, r).events[Fresh(s)] = r
      /\ \A f \in DOMAIN s.events : Create(s, r).events[f] = s.events[f]
  BY AddEvent
<1> QED BY <1>1 DEF Apart, IsRequest

LEMMA ApartHook ==
  ASSUME NEW s, SimOK(s), NEW e \in DOMAIN s.events, NEW call
  PROVE  Apart(s, Hook(s, e, call))
<1>1. PICK t : t = Hook(s, e, call)
  OBVIOUS
<1>2. s \in SimType
  BY DEF SimOK
<1>3. t.events = [s.events EXCEPT ![e].callbacks = Append(@, call)]
  BY <1>1, <1>2 DEF Hook, SimType
<1>4. s.events[e] \in EventType
  BY <1>2, SimFields
<1>5. DOMAIN t.events = DOMAIN s.events /\ \A f \in DOMAIN s.events \ {e} : t.events[f] = s.events[f]
  BY <1>3
<1>6. t.events[e] = [s.events[e] EXCEPT !.callbacks = Append(@, call)]
  BY <1>3
<1>7. t.events[e].type = s.events[e].type /\ t.events[e].state = s.events[e].state
  BY <1>4, <1>6 DEF EventType
<1>8. Apart(s, t)
  <2>1. \A f \in DOMAIN s.events : /\ t.events[f].type = s.events[f].type
                                   /\ t.events[f].state = s.events[f].state
    BY <1>5, <1>7
  <2> QED BY <1>5, <2>1, ApartSame
<1> QED BY <1>1, <1>8

LEMMA ApartCheck ==
  ASSUME NEW s, SimOK(s), NEW c \in Conditions(s), NEW e
  PROVE  Apart(s, Check(s, c, e))
<1> DEFINE cond    == [s.events[c] EXCEPT !.count = @ + 1]
           counted == Put(s, c, cond)
           failing == Defused(counted, cond.members)
<1>1. c \in DOMAIN s.events /\ s.events[c].type \in {"all", "any"}
  BY DEF Conditions
<1>2. /\ SimOK(counted) /\ DOMAIN s.events \subseteq DOMAIN counted.events
      /\ \A f \in DOMAIN s.events : /\ counted.events[f].state = s.events[f].state
                                    /\ counted.events[f].type = s.events[f].type
  BY <1>1, QuietCount DEF Quiet, Tame
<1>3. DOMAIN counted.events = DOMAIN s.events
  BY SimFields DEF Put, SimOK, SimType
<1>4. Apart(s, counted)
  BY <1>2, <1>3, ApartSame
<1>5. /\ Relieved(counted, failing.events)
      /\ failing = [counted EXCEPT !.events = failing.events]
  BY <1>2, DefusedEvents
<1>6. PICK f : f = failing
  OBVIOUS
<1>7. SimOK(f) /\ f.events = failing.events
  BY <1>2, <1>5, <1>6, ReplaceEvents
<1>8. Apart(counted, f) /\ c \in DOMAIN f.events /\ f.events[c].type = counted.events[c].type
  <2>1. /\ DOMAIN f.events = DOMAIN counted.events
        /\ \A d \in DOMAIN counted.events : /\ f.events[d].type = counted.events[d].type
                                            /\ f.events[d].state = counted.events[d].state
    BY <1>5, <1>7 DEF Relieved
  <2> QED BY <1>1, <1>3, <2>1, ApartSame
<1>9. ~ IsRequest(f, c) /\ ~ IsRequest(counted, c) /\ c \in DOMAIN counted.events
  BY <1>1, <1>2, <1>3, <1>8 DEF IsRequest, RequestTypes
<1>10. Check(s, c, e) \in {s, Trigger(f, c, "failed"), Trigger(counted, c, "ok"), counted}
  BY <1>6 DEF Check
<1> HIDE DEF counted, failing, cond
<1>11. Apart(s, Trigger(f, c, "failed"))
  <2>1. Apart(f, Trigger(f, c, "failed"))
    BY <1>7, <1>8, <1>9, ApartTrigger
  <2>2. Apart(s, f)
    BY <1>4, <1>8, ApartTrans
  <2> QED BY <2>1, <2>2, ApartTrans
<1>12. Apart(s, Trigger(counted, c, "ok"))
  <2>1. Apart(counted, Trigger(counted, c, "ok"))
    BY <1>2, <1>9, ApartTrigger
  <2> QED BY <1>4, <2>1, ApartTrans
<1>13. Apart(s, s)
  BY ApartSame
<1> QED BY <1>4, <1>10, <1>11, <1>12, <1>13

LEMMA OtherFields ==
  ASSUME NEW r \in EventType, NEW calls
  PROVE  /\ [r EXCEPT !.callbacks = calls].type = r.type
         /\ [r EXCEPT !.callbacks = calls].state = r.state
BY DEF EventType

LEMMA ApartWatch ==
  ASSUME NEW t, SimOK(t), NEW c \in Conditions(t), NEW m \in DOMAIN t.events
  PROVE  Apart(t, WatchMember(t, c, m))
BY ApartCheck, ApartHook DEF WatchMember

LEMMA ApartCombine ==
  ASSUME NEW s, SimOK(s), NEW type \in {"all", "any"}, NEW members \in Seq(DOMAIN s.events)
  PROVE  Apart(s, Combine(s, type, members))
<1> DEFINE c == Fresh(s)
           made == Made(s, type, members)
<1>1. Quiet(s, made) /\ New(made, c, members)
  BY QuietMade
<1>2. SimOK(made) /\ Apart(s, made)
  <2> DEFINE r == [NewEvent(type) EXCEPT !.members = members]
  <2>1. DOMAIN s.events \subseteq Nat
    BY SimFields DEF SimOK
  <2>2. members \in Seq(Nat) /\ Range(members) \subseteq DOMAIN s.events
    BY <2>1 DEF Range
  <2>3. /\ r.type = type /\ ~ r.processed /\ r.callbacks = <<>> /\ r.target = None
        /\ r.members = members
    BY DEF NewEvent
  <2>4. r \in EventType
    BY <2>2, NewEventFits, ZenonT(60) DEF EventType
  <2>5. type \notin RequestTypes
    BY DEF RequestTypes
  <2> HIDE DEF r
  <2>6. Apart(s, Create(s, r))
    BY <2>2, <2>3, <2>4, <2>5, ApartCreate
  <2> QED BY <1>1, <2>6 DEF Quiet, Tame, Made, r
<1>3. CASE members = <<>>
  <2>1. Combine(s, type, members) = Trigger(made, c, "ok")
    BY <1>3 DEF Combine, Made
  <2>2. c \in DOMAIN made.events /\ ~ IsRequest(made, c)
    BY <1>1 DEF New, Conditions, IsRequest, RequestTypes
  <2> HIDE DEF made, c
  <2>3. Apart(made, Trigger(made, c, "ok"))
    BY <1>2, <2>2, ApartTrigger
  <2> QED BY <1>2, <2>1, <2>3, ApartTrans
<1>4. CASE members # <<>>
  <2>1. PICK w : /\ WatchesUpTo(w, Len(members), s, type, members)
                 /\ Combine(s, type, members) = Hook(w[Len(members)], c, Call("build", c))
    BY <1>4, WatchedExists
  <2>2. \A i \in 0 .. Len(members) :
          w[i] = IF i = 0 THEN made ELSE WatchMember(w[i - 1], c, members[i])
    BY <2>1 DEF WatchesUpTo
  <2> HIDE DEF made, c
  <2> DEFINE Fine(t) == Quiet(made, t) /\ Apart(s, t)
             Late == {n \in Nat : n <= Len(members) /\ ~ Fine(w[n])}
  <2>3. Late = {}
    <3> SUFFICES ASSUME Late # {} PROVE FALSE
      OBVIOUS
    <3>1. PICK n \in Late : \A k \in Late : n <= k
      BY LeastNatural
    <3>2. n # 0
      BY <1>2, <2>2, <3>1, QuietNothing
    <3>3. n \in 1 .. Len(members) /\ n - 1 \in Nat /\ n - 1 <= Len(members) /\ n - 1 \notin Late
      BY <3>1, <3>2
    <3>4. Fine(w[n - 1])
      BY <3>3
    <3>5. w[n] = WatchMember(w[n - 1], c, members[n])
      BY <2>2, <3>3
    <3>6. members[n] \in DOMAIN s.events /\ members[n] \in Range(members)
      BY <3>3 DEF Range
    <3> DEFINE t == w[n - 1]
               m == members[n]
    <3> HIDE DEF t, m
    <3>7. SimOK(t) /\ New(t, c, members) /\ m \in DOMAIN t.events
      <4>1. DOMAIN s.events \subseteq DOMAIN t.events
        BY <3>4 DEF Apart, t
      <4>2. New(t, c, members)
        BY <1>1, <3>4, QuietKeepsNew DEF t
      <4>3. SimOK(t)
        BY <3>4 DEF Quiet, Tame, t
      <4> QED BY <3>6, <4>1, <4>2, <4>3 DEF m
    <3>8. Quiet(t, WatchMember(t, c, m))
      BY <3>6, <3>7, QuietWatch DEF m
    <3>9. Quiet(made, WatchMember(t, c, m))
      BY <1>2, <3>4, <3>8, TameTrans DEF Quiet, t
    <3>10. Apart(s, WatchMember(t, c, m))
      <4>1. Apart(t, WatchMember(t, c, m))
        BY <3>7, ApartWatch DEF New
      <4> QED BY <3>4, <4>1, ApartTrans DEF t
    <3> QED BY <3>1, <3>5, <3>9, <3>10 DEF t, m
  <2> DEFINE t == w[Len(members)]
  <2>4. Quiet(made, t) /\ Apart(s, t)
    BY <2>3
  <2> HIDE DEF t
  <2>5. SimOK(t) /\ New(t, c, members)
    BY <1>1, <2>4, QuietKeepsNew DEF Quiet, Tame
  <2>6. Apart(t, Hook(t, c, Call("build", c)))
    BY <2>5, ApartHook DEF New, Conditions
  <2>7. Apart(s, Hook(t, c, Call("build", c)))
    BY <2>4, <2>6, ApartTrans
  <2> QED BY <2>1, <2>7 DEF t
<1> QED BY <1>3, <1>4

LEMMA ApartRemoveChecks ==
  ASSUME NEW s, SimOK(s), NEW c
  PROVE  Apart(s, RemoveChecks(s, c))
<1> DEFINE members == UNION {Range(s.events[d].members) : d \in Nested(s, c)}
           checks == {Call("check", d) : d \in Nested(s, c)}
           events == [m \in DOMAIN s.events |->
            IF m \in members THEN [s.events[m] EXCEPT !.callbacks = Without(@, checks)]
                             ELSE s.events[m]]
<1>1. RemoveChecks(s, c) = [s EXCEPT !.events = events]
  BY DEF RemoveChecks
<1> HIDE DEF members, checks
<1>2. s \in SimType
  BY DEF SimOK
<1>3. RemoveChecks(s, c).events = events
  BY <1>1, <1>2 DEF SimType
<1>4. \A m \in DOMAIN s.events : /\ events[m].type = s.events[m].type
                                 /\ events[m].state = s.events[m].state
  <2> TAKE m \in DOMAIN s.events
  <2>1. s.events[m] \in EventType
    BY <1>2, SimFields
  <2>2. CASE m \in members
    <3>1. events[m] = [s.events[m] EXCEPT !.callbacks = Without(@, checks)]
      BY <2>2
    <3>2. PICK calls : calls = Without(s.events[m].callbacks, checks)
      OBVIOUS
    <3>3. events[m] = [s.events[m] EXCEPT !.callbacks = calls]
      BY <3>1, <3>2
    <3> HIDE DEF events
    <3> QED BY <2>1, <3>3, OtherFields
  <2>3. CASE m \notin members
    BY <2>3
  <2> QED BY <2>2, <2>3
<1>5. DOMAIN events = DOMAIN s.events
  OBVIOUS
<1> HIDE DEF events
<1> QED BY <1>3, <1>4, <1>5, ApartSame

LEMMA ApartQueue ==
  ASSUME NEW s \in SimType, NEW task, NEW prio, NEW delay
  PROVE  Schedule(s, task, prio, delay).events = s.events
BY DEF Schedule, SimType

LEMMA ApartSpawned ==
  ASSUME NEW s, SimOK(s)
  PROVE  Apart(s, Spawned(s))
<1> DEFINE r == NewEvent("process")
           t == Create(s, r)
<1>1. r \in EventType /\ r.type = "process" /\ ~ r.processed /\ r.callbacks = <<>> /\ r.target = None
      /\ Range(r.members) \subseteq DOMAIN s.events
  BY NewEventFits DEF Range
<1> HIDE DEF r
<1>2. Apart(s, t) /\ SimOK(t)
  BY <1>1, ApartCreate, AddEvent DEF RequestTypes
<1>3. Spawned(s).events = t.events
  BY <1>2, ApartQueue DEF Spawned, SimOK, r
<1> HIDE DEF t
<1> QED BY <1>2, <1>3 DEF Apart, IsRequest

\* Each of the Kernel's steps.
LEMMA UserApart == ASSUME KInv, UserNext PROVE Apart(sim, sim')
<1>1. SimOK(sim) /\ sim \in SimType
  BY DEF KInv, SimOK
<1>2. \A s : Calls(s) => sim' = s
  BY DEF Calls
<1>3. CASE MakeEvent
  <2>1. Range(NewEvent("event").members) \subseteq DOMAIN sim.events
    BY NewEventFits DEF Range
  <2>2. Apart(sim, Create(sim, NewEvent("event")))
    BY <1>1, <2>1, NewEventFits, ApartCreate DEF RequestTypes
  <2> QED BY <1>2, <1>3, <2>2 DEF MakeEvent
<1>4. CASE MakeTimeout
  <2> DEFINE r == [NewEvent("timeout") EXCEPT !.state = "ok"]
             t == Create(sim, r)
  <2>1. PICK d \in Delays : sim' = Schedule(t, Call("event", Fresh(sim)), NORMAL, d)
    BY <1>2, <1>4 DEF MakeTimeout
  <2>2. NewEvent("timeout") \in EventType
    BY NewEventFits
  <2>3. /\ r \in EventType /\ r.type = "timeout"
        /\ r.processed = NewEvent("timeout").processed
        /\ r.callbacks = NewEvent("timeout").callbacks
        /\ r.target = NewEvent("timeout").target
        /\ r.members = NewEvent("timeout").members
    BY <2>2, NewEventFits DEF EventType
  <2> HIDE DEF r
  <2>4. /\ ~ r.processed /\ r.callbacks = <<>> /\ r.target = None
        /\ Range(r.members) \subseteq DOMAIN sim.events
    BY <2>3, NewEventFits DEF Range
  <2>5. Apart(sim, t) /\ SimOK(t)
    BY <1>1, <2>3, <2>4, ApartCreate, AddEvent DEF RequestTypes
  <2>6. sim'.events = t.events
    BY <2>1, <2>5, ApartQueue DEF SimOK
  <2> HIDE DEF t
  <2> QED BY <2>5, <2>6 DEF Apart, IsRequest
<1>5. CASE MakeCondition
  <2>1. PICK type \in {"all", "any"} :
          \/ sim' = Combine(sim, type, <<>>)
          \/ \E d, e \in DOMAIN sim.events : sim' = Combine(sim, type, <<d, e>>)
    BY <1>2, <1>5 DEF MakeCondition
  <2>2. <<>> \in Seq(DOMAIN sim.events)
    OBVIOUS
  <2>3. \A d, e \in DOMAIN sim.events : <<d, e>> \in Seq(DOMAIN sim.events)
    BY PairOf
  <2> QED BY <1>1, <2>1, <2>2, <2>3, ApartCombine
<1>6. CASE Spawn
  BY <1>1, <1>2, <1>6, ApartSpawned DEF Spawn
<1>7. CASE SucceedOrFail
  <2>1. PICK e \in DOMAIN sim.events, state \in {"ok", "failed"} :
          Pending(e) /\ sim' = Trigger(sim, e, state)
    BY <1>2, <1>7 DEF SucceedOrFail
  <2>2. ~ IsRequest(sim, e)
    BY <2>1 DEF Pending, IsRequest, RequestTypes
  <2> QED BY <1>1, <2>1, <2>2, ApartTrigger
<1>8. CASE Chain
  <2>1. PICK e, f \in DOMAIN sim.events : sim' = Hook(sim, e, Call("trigger", f))
    BY <1>2, <1>8 DEF Chain
  <2> QED BY <1>1, <2>1, ApartHook
<1>9. CASE Interrupt
  <2>1. PICK p \in Processes(sim) : sim' = Interrupted(sim, p)
    BY <1>2, <1>9 DEF Interrupt
  <2>2. sim'.events = sim.events
    BY <1>1, <2>1, ApartQueue DEF Interrupted
  <2> QED BY <2>2, ApartSame
<1>10. CASE YieldWrong
  <2>1. sim' = sim
    BY <1>10 DEF YieldWrong, Cut
  <2> QED BY <2>1, ApartSame
<1>11. CASE End
  <2>1. PICK p \in Processes(sim), state \in {"ok", "failed"} : sim' = Ended(sim, p, state)
    BY <1>11 DEF End
  <2>2. PICK a : a = Aimed(sim, p, None)
    OBVIOUS
  <2>3. PICK b : b = [a EXCEPT !.active = None]
    OBVIOUS
  <2>4. sim' = Trigger(b, p, state)
    <3>1. b = [sim EXCEPT !.events[p].target = None, !.active = None]
      BY <2>2, <2>3 DEF Aimed
    <3> QED BY <2>1, <3>1 DEF Ended
  <2>5. p \in DOMAIN sim.events /\ sim.events[p].type = "process"
    BY DEF Processes
  <2>6. SimOK(a) /\ Only(sim, a, p) /\ Likewise(sim.events[p], a.events[p])
    BY <1>1, <2>2, <2>5, TargetSim
  <2>7. SimOK(b) /\ b.events = a.events
    BY <2>3, <2>6, ActiveSim
  <2>8. Apart(sim, b)
    <3>1. Apart(sim, a)
      BY <2>6, ApartOnly DEF Likewise
    <3> QED BY <2>7, <3>1 DEF Apart, IsRequest
  <2>9. Apart(b, Trigger(b, p, state))
    <3>1. p \in DOMAIN b.events /\ ~ IsRequest(b, p)
      BY <2>5, <2>6, <2>7 DEF Only, Likewise, IsRequest, RequestTypes
    <3> QED BY <2>7, <3>1, ApartTrigger
  <2> QED BY <2>4, <2>8, <2>9, ApartTrans
<1> QED BY <1>3, <1>4, <1>5, <1>6, <1>7, <1>8, <1>9, <1>10, <1>11 DEF UserNext

LEMMA YieldApart == ASSUME KInv, Yield PROVE Apart(sim, sim')
<1>1. SimOK(sim) /\ sim \in SimType
  BY DEF KInv, SimOK
<1>2. PICK e \in DOMAIN sim.events : YieldOn(e)
  BY DEF Yield
<1>3. control \in Processes(sim)
  BY <1>2 DEF YieldOn
<1>4. PICK p : p = control
  OBVIOUS
<1>5. p \in DOMAIN sim.events
  BY <1>3, <1>4 DEF Processes
<1>6. PICK s : s = Aimed(sim, p, e)
  OBVIOUS
<1>7. SimOK(s) /\ Only(sim, s, p) /\ Likewise(sim.events[p], s.events[p])
  BY <1>1, <1>5, <1>6, TargetSim
<1>8. Apart(sim, s) /\ e \in DOMAIN s.events
  BY <1>7, ApartOnly DEF Likewise, Only
<1>9. CASE sim.events[e].processed
  <2>1. sim' = Sent(s, e)
    BY <1>2, <1>4, <1>6, <1>9 DEF YieldOn, Aimed
  <2>2. Only(s, sim', e) /\ Likewise(s.events[e], sim'.events[e])
    BY <1>7, <1>8, <2>1, SentSim
  <2>3. Apart(s, sim')
    BY <2>2, ApartOnly DEF Likewise
  <2> QED BY <1>8, <2>3, ApartTrans
<1>10. CASE ~ sim.events[e].processed
  <2>1. PICK t : t = Hook(s, e, Call("resume", p))
    OBVIOUS
  <2>2. sim' = [t EXCEPT !.active = None]
    BY <1>2, <1>4, <1>6, <1>10, <2>1 DEF YieldOn, Aimed
  <2>3. Apart(s, t)
    BY <1>7, <1>8, <2>1, ApartHook
  <2>4. sim'.events = t.events
    <3>1. t = [s EXCEPT !.events = t.events]
      <4>1. s = [now |-> s.now, queue |-> s.queue, events |-> s.events, active |-> s.active]
        BY <1>7 DEF SimOK, SimType
      <4> QED BY <2>1, <4>1 DEF Hook
    <3> QED BY <1>7, <2>2, <3>1 DEF SimOK, SimType
  <2>5. Apart(s, sim')
    BY <2>3, <2>4 DEF Apart, IsRequest
  <2> QED BY <1>8, <2>5, ApartTrans
<1> QED BY <1>9, <1>10

LEMMA ApartSent ==
  ASSUME NEW s, SimOK(s), NEW e \in DOMAIN s.events
  PROVE  Apart(s, Sent(s, e))
<1>1. PICK t : t = Sent(s, e)
  OBVIOUS
<1>2. Only(s, t, e) /\ Likewise(s.events[e], t.events[e])
  BY <1>1, SentSim
<1> QED BY <1>1, <1>2, ApartOnly DEF Likewise

\* The body gets control of a Sim that is apart from the one before.
LEMMA ApartEnter ==
  ASSUME NEW s \in SimType, Apart(sim, s), NEW p, NEW heard, Enter(s, p, heard)
  PROVE  Apart(sim, sim')
<1>1. sim' = [s EXCEPT !.active = p]
  BY DEF Enter
<1>2. sim'.events = s.events
  BY <1>1 DEF SimType
<1> QED BY <1>2 DEF Apart, IsRequest

LEMMA PopApart == ASSUME KInv, Pop PROVE Apart(sim, sim')
<1>1. SimOK(sim) /\ sim \in SimType
  BY DEF KInv, SimOK
<1>2. PICK i \in DOMAIN sim.queue : PopTask(i) \/ PopAgain(i) \/ PopEvent(i)
  BY PopCases
<1>3. IsNext(sim.queue, i)
  BY <1>2 DEF PopTask, PopAgain, PopEvent
<1>4. PICK s : s = Popped(sim, i)
  OBVIOUS
<1>5. SimOK(s) /\ s.events = sim.events
  BY <1>1, <1>3, <1>4, PoppedSim
<1>6. CASE PopTask(i) \/ PopAgain(i)
  <2>1. sim' = s
    BY <1>4, <1>6 DEF PopTask, PopAgain, Cut
  <2> QED BY <1>5, <2>1, ApartSame
<1>7. CASE PopEvent(i)
  <2>1. PICK e : e = sim.queue[i].task.of
    OBVIOUS
  <2>2. sim' = Closed(s, e)
    BY <1>4, <1>7, <2>1 DEF PopEvent, Closed
  <2>3. sim.queue[i].task.do = "event" /\ EntryOK(sim, sim.queue[i])
    BY <1>1, <1>7 DEF PopEvent, SimOK
  <2>4. e \in DOMAIN s.events /\ s.events[e].state # "pending"
    BY <1>5, <2>1, <2>3 DEF EntryOK
  <2>5. Only(s, sim', e) /\ sim'.events[e].type = s.events[e].type
        /\ sim'.events[e].state = s.events[e].state
    BY <1>5, <2>2, <2>4, ClosedSim
  <2>6. Apart(s, sim')
    BY <2>5, ApartOnly
  <2> QED BY <1>5, <2>6 DEF Apart, IsRequest
<1> QED BY <1>2, <1>6, <1>7

LEMMA DeliverInterruptApart == ASSUME KInv, DeliverInterrupt PROVE Apart(sim, sim')
<1>1. SimOK(sim) /\ sim \in SimType
  BY DEF KInv, SimOK
<1>2. Apart(sim, sim)
  BY ApartSame
<1>3. Turn("interrupt")
  BY DEF DeliverInterrupt, DeliverInterruptTo
<1>4. PICK p : p = Callee
  OBVIOUS
<1>5. p \in Processes(sim)
  BY <1>3, <1>4, InterruptStep DEF Turn
<1>6. PICK s : s = Unhooked(sim, p)
  OBVIOUS
<1>7. \/ sim' = sim
      \/ Enter(sim, p, ghost)
      \/ /\ Enter(s, p, ghost)
         /\ sim.events[p].target # None
  BY <1>4, <1>6 DEF DeliverInterrupt, DeliverInterruptTo, Done, Cut
<1>8. ASSUME Enter(s, p, ghost), sim.events[p].target # None PROVE Apart(sim, sim')
  <2>1. PICK e : e = sim.events[p].target
    OBVIOUS
  <2>2. p \in DOMAIN sim.events /\ p \in Nat
    BY <1>1, <1>5, SimFields DEF Processes
  <2>3. e \in DOMAIN sim.events
    BY <1>1, <1>8, <2>1, <2>2 DEF SimOK, EventOK
  <2>4. SimOK(s) /\ Only(sim, s, e) /\ Likewise(sim.events[e], s.events[e])
    BY <1>1, <1>6, <2>1, <2>2, <2>3, UnhookedSim
  <2>5. Apart(sim, s)
    BY <2>4, ApartOnly DEF Likewise
  <2> QED BY <1>8, <2>4, <2>5, ApartEnter DEF SimOK
<1> QED BY <1>1, <1>2, <1>7, <1>8, ApartEnter

LEMMA LoopApart == ASSUME KInv, LoopNext PROVE Apart(sim, sim')
<1>1. SimOK(sim) /\ sim \in SimType /\ StepOK
  BY DEF KInv, SimOK
<1>2. Apart(sim, sim)
  BY ApartSame
<1>3. CASE RunToEnd
  BY <1>2, <1>3 DEF RunToEnd, StartRun
<1>4. CASE RunToTime
  <2>1. PICK d : sim' = Schedule(sim, Call("stop", None), URGENT, d)
    BY <1>4 DEF RunToTime, StartRun
  <2>2. sim'.events = sim.events
    BY <1>1, <2>1, ApartQueue
  <2> QED BY <2>2, ApartSame
<1>5. CASE RunToEvent
  <2>1. PICK e \in DOMAIN sim.events : sim' = Hook(sim, e, Call("stop", None))
    BY <1>5 DEF RunToEvent, StartRun
  <2> QED BY <1>1, <2>1, ApartHook
<1>6. CASE Pop
  BY <1>6, PopApart
<1>7. CASE Resume
  <2>1. CASE step.task.do = "event" /\ Failed(sim, step.task.of)
    <3>1. Enter(Sent(sim, step.task.of), Callee, Heard(step.task.of))
      BY <1>7, <2>1 DEF Resume
    <3>2. step.task.of \in DOMAIN sim.events
      BY <1>1, <2>1 DEF StepOK, NoTask, Call
    <3>3. Apart(sim, Sent(sim, step.task.of)) /\ Sent(sim, step.task.of) \in SimType
      BY <1>1, <3>2, ApartSent, SentSim DEF SimOK
    <3> QED BY <3>1, <3>3, ApartEnter
  <2>2. CASE ~(step.task.do = "event" /\ Failed(sim, step.task.of))
    <3>1. Enter(sim, Callee, ghost)
      BY <1>7, <2>2 DEF Resume
    <3> QED BY <1>1, <1>2, <3>1, ApartEnter
  <2> QED BY <2>1, <2>2
<1>8. CASE DeliverInterrupt
  BY <1>8, DeliverInterruptApart
<1>9. CASE RunCheck
  <2>1. Turn("check") /\ sim' = Check(sim, Callee, step.task.of)
    BY <1>9 DEF RunCheck, Done
  <2>2. CallOK(sim, step.task.of, Head(step.rest))
    BY <2>1, CalleeOK
  <2>3. Callee \in Conditions(sim)
    BY <2>1, <2>2 DEF CallOK, Turn, Callee
  <2> QED BY <1>1, <2>1, <2>3, ApartCheck
<1>10. CASE RunBuild
  BY <1>1, <1>10, ApartRemoveChecks DEF RunBuild
<1>11. CASE RunTrigger
  <2>1. Turn("trigger") /\ sim' = Trigger(sim, Callee, sim.events[step.task.of].state)
    BY <1>11 DEF RunTrigger, Done
  <2>2. /\ CallOK(sim, step.task.of, Head(step.rest))
        /\ step.task.of \in DOMAIN sim.events /\ sim.events[step.task.of].processed
    BY <2>1, CalleeOK
  <2>3. Callee \in DOMAIN sim.events /\ sim.events[Callee].type = "event"
    BY <2>1, <2>2 DEF CallOK, Turn, Callee
  <2>4. sim.events[step.task.of].state \in {"ok", "failed"}
    <3>1. sim.events[step.task.of] \in EventType
      BY <1>1, <2>2, SimFields
    <3>2. sim.events[step.task.of].state # "pending"
      BY <1>1, <2>2 DEF SimOK, EventOK
    <3> QED BY <3>1, <3>2 DEF EventType
  <2>5. ~ IsRequest(sim, Callee)
    BY <2>3 DEF IsRequest, RequestTypes
  <2> QED BY <1>1, <2>1, <2>3, <2>4, <2>5, ApartTrigger
<1>12. CASE RunStop \/ FinishStep \/ RunEmpty
  <2>1. sim' = sim
    BY <1>12 DEF RunStop, FinishStep, RunEmpty, Cut
  <2> QED BY <1>2, <2>1
<1> QED BY <1>3, <1>4, <1>5, <1>6, <1>7, <1>8, <1>9, <1>10, <1>11, <1>12 DEF LoopNext

-----------------------------------------------------------------------------
(* Sequences of requests. *)

LEMMA AppendId ==
  ASSUME NEW a \in Seq(Nat), IsInjective(a), NEW x \in Nat \ Range(a)
  PROVE  /\ Append(a, x) \in Seq(Nat) /\ IsInjective(Append(a, x))
         /\ Range(Append(a, x)) = Range(a) \cup {x}
         /\ Len(Append(a, x)) = Len(a) + 1
<1> DEFINE b == Append(a, x)
<1>1. /\ b \in Seq(Nat) /\ Len(b) = Len(a) + 1 /\ Len(a) \in Nat
      /\ \A i \in 1 .. Len(a) : b[i] = a[i]
      /\ b[Len(a) + 1] = x
      /\ DOMAIN a = 1 .. Len(a) /\ DOMAIN b = 1 .. (Len(a) + 1)
  OBVIOUS
<1> HIDE DEF b
<1>2. \A i \in DOMAIN a : a[i] # x
  BY DEF Range
<1>3. IsInjective(b)
  BY <1>1, <1>2, SMTT(30) DEF IsInjective
<1>4. Range(b) = Range(a) \cup {x}
  BY <1>1 DEF Range
<1> QED BY <1>1, <1>3, <1>4 DEF b

LEMMA RemoveId ==
  ASSUME NEW a \in Seq(Nat), IsInjective(a), NEW x
  PROVE  /\ RemoveFirst(a, x) \in Seq(Nat) /\ IsInjective(RemoveFirst(a, x))
         /\ Range(RemoveFirst(a, x)) = Range(a) \ {x}
         /\ Len(RemoveFirst(a, x)) <= Len(a)
         /\ x \in Range(a) => Len(RemoveFirst(a, x)) = Len(a) - 1
<1>0. DOMAIN a = 1 .. Len(a) /\ Len(a) \in Nat
  OBVIOUS
<1>1. CASE \A i \in 1 .. Len(a) : a[i] # x
  <2>1. RemoveFirst(a, x) = a
    BY <1>1 DEF RemoveFirst
  <2>2. x \notin Range(a)
    BY <1>0, <1>1 DEF Range
  <2>3. Range(a) \ {x} = Range(a) /\ Len(a) <= Len(a)
    BY <1>0, <2>2
  <2> QED BY <2>1, <2>2, <2>3
<1>2. CASE \E i \in 1 .. Len(a) : a[i] = x
  <2> DEFINE I == {i \in 1 .. Len(a) : a[i] = x}
             k == Min(I)
             b == RemoveAt(a, k)
  <2>1. k \in 1 .. Len(a) /\ a[k] = x
    <3>1. I \in SUBSET Nat /\ I # {}
      BY <1>2
    <3>2. k \in I
      BY <3>1, MinIsLeast
    <3> QED BY <3>2
  <2>2. RemoveFirst(a, x) = b
    BY <1>2 DEF RemoveFirst, SelectInSeq
  <2> HIDE DEF k
  <2>3. /\ b \in Seq(Nat) /\ Len(b) = Len(a) - 1
        /\ \A j \in 1 .. Len(a) - 1 : b[j] = a[IF j < k THEN j ELSE j + 1]
    BY <2>1, RemoveAtIndex
  <2>4. DOMAIN b = 1 .. (Len(a) - 1)
    BY <2>3
  <2> HIDE DEF b
  <2>5. \A i, j \in 1 .. Len(a) : a[i] = a[j] => i = j
    BY <1>0 DEF IsInjective
  <2>6. IsInjective(b)
    <3> SUFFICES ASSUME NEW i \in DOMAIN b, NEW j \in DOMAIN b, b[i] = b[j] PROVE i = j
      BY DEF IsInjective
    <3>1. PICK u, v : u = (IF i < k THEN i ELSE i + 1) /\ v = (IF j < k THEN j ELSE j + 1)
      OBVIOUS
    <3>2. i \in 1 .. Len(a) - 1 /\ j \in 1 .. Len(a) - 1 /\ b[i] = a[u] /\ b[j] = a[v]
      BY <2>3, <2>4, <3>1
    <3>3. u \in 1 .. Len(a) /\ v \in 1 .. Len(a)
      BY <1>0, <2>1, <3>1, <3>2, SMTT(30)
    <3>4. u = v
      BY <2>5, <3>2, <3>3
    <3> QED BY <1>0, <2>1, <3>1, <3>2, <3>4
  <2>7. ASSUME NEW y \in Range(b) PROVE y \in Range(a) \ {x}
    <3>1. PICK j \in 1 .. (Len(a) - 1) : y = b[j]
      BY <2>4 DEF Range
    <3>2. PICK i : i = IF j < k THEN j ELSE j + 1
      OBVIOUS
    <3>3. i \in 1 .. Len(a) /\ i # k /\ y = a[i]
      BY <1>0, <2>1, <2>3, <3>1, <3>2
    <3> QED BY <1>0, <2>1, <2>5, <3>3 DEF Range
  <2>8. ASSUME NEW y \in Range(a) \ {x} PROVE y \in Range(b)
    <3>1. PICK i \in 1 .. Len(a) : y = a[i]
      BY <1>0 DEF Range
    <3>2. i # k
      BY <2>1, <3>1
    <3>3. PICK j : j = IF i < k THEN i ELSE i - 1
      OBVIOUS
    <3>4. j \in 1 .. (Len(a) - 1) /\ i = IF j < k THEN j ELSE j + 1
      BY <1>0, <2>1, <3>1, <3>2, <3>3
    <3>5. b[j] = y
      BY <2>3, <3>1, <3>4
    <3> QED BY <2>4, <3>4, <3>5 DEF Range
  <2> QED BY <1>0, <2>2, <2>3, <2>6, <2>7, <2>8
<1> QED BY <1>1, <1>2

LEMMA InsertId ==
  ASSUME NEW a \in Seq(Nat), IsInjective(a), NEW x \in Nat \ Range(a), NEW k \in 1 .. Len(a) + 1
  PROVE  /\ InsertAt(a, k, x) \in Seq(Nat) /\ IsInjective(InsertAt(a, k, x))
         /\ Range(InsertAt(a, k, x)) = Range(a) \cup {x}
         /\ Len(InsertAt(a, k, x)) = Len(a) + 1
         /\ \A j \in 1 .. Len(a) + 1 :
              InsertAt(a, k, x)[j] = IF j < k THEN a[j] ELSE IF j = k THEN x ELSE a[j - 1]
<1> DEFINE b == SubSeq(a, 1, k - 1)
           m == <<x>>
           c == SubSeq(a, k, Len(a))
           d == InsertAt(a, k, x)
<1>0. DOMAIN a = 1 .. Len(a) /\ Len(a) \in Nat /\ k \in Nat
  OBVIOUS
<1>1. /\ b \in Seq(Nat) /\ Len(b) = k - 1 /\ \A j \in 1 .. k - 1 : b[j] = a[j]
  OBVIOUS
<1>2. /\ c \in Seq(Nat) /\ Len(c) = Len(a) - k + 1 /\ \A j \in 1 .. Len(a) - k + 1 : c[j] = a[k + j - 1]
  OBVIOUS
<1>3. m \in Seq(Nat) /\ Len(m) = 1 /\ m[1] = x
  OBVIOUS
<1>4. d = (b \o m) \o c
  BY DEF InsertAt
<1> HIDE DEF b, c, m, d
<1>5. PICK e : e = b \o m
  OBVIOUS
<1>6. /\ e \in Seq(Nat) /\ Len(e) = k
      /\ \A j \in 1 .. k : e[j] = IF j < k THEN a[j] ELSE x
  <2>1. e \in Seq(Nat) /\ Len(e) = Len(b) + Len(m)
    BY <1>1, <1>3, <1>5, ConcatProperties
  <2>2. \A j \in 1 .. Len(b) + Len(m) : e[j] = IF j <= Len(b) THEN b[j] ELSE m[j - Len(b)]
    BY <1>1, <1>3, <1>5, ConcatProperties
  <2>3. Len(b) + Len(m) = k /\ Len(b) = k - 1
    BY <1>0, <1>1, <1>3
  <2>4. ASSUME NEW j \in 1 .. k PROVE e[j] = IF j < k THEN a[j] ELSE x
    <3>1. e[j] = IF j <= k - 1 THEN b[j] ELSE m[j - (k - 1)]
      BY <2>2, <2>3
    <3>2. CASE j < k
      BY <1>0, <1>1, <3>1, <3>2
    <3>3. CASE j = k
      BY <1>0, <1>3, <3>1, <3>3
    <3> QED BY <1>0, <3>2, <3>3
  <2> QED BY <2>1, <2>3, <2>4
<1>7. /\ d \in Seq(Nat) /\ Len(d) = Len(a) + 1
      /\ \A j \in 1 .. Len(a) + 1 : d[j] = IF j <= k THEN e[j] ELSE c[j - k]
  <2>1. /\ e \o c \in Seq(Nat) /\ Len(e \o c) = Len(e) + Len(c)
        /\ \A j \in 1 .. Len(e) + Len(c) : (e \o c)[j] = IF j <= Len(e) THEN e[j] ELSE c[j - Len(e)]
    <3>1. e \in Seq(Nat) /\ c \in Seq(Nat)
      BY <1>2, <1>6
    <3> QED BY <3>1, ConcatProperties
  <2>2. d = e \o c
    BY <1>4, <1>5
  <2>3. Len(e) = k /\ Len(e) + Len(c) = Len(a) + 1
    BY <1>0, <1>2, <1>6
  <2>4. /\ d \in Seq(Nat) /\ Len(d) = Len(e) + Len(c)
        /\ \A j \in 1 .. Len(e) + Len(c) : d[j] = IF j <= Len(e) THEN e[j] ELSE c[j - Len(e)]
    BY <2>1, <2>2, Zenon
  <2> QED BY <2>3, <2>4, Zenon
<1>8. \A j \in 1 .. Len(a) + 1 : d[j] = IF j < k THEN a[j] ELSE IF j = k THEN x ELSE a[j - 1]
  <2> TAKE j \in 1 .. Len(a) + 1
  <2>1. CASE j <= k
    BY <1>0, <1>6, <1>7, <2>1
  <2>2. CASE j > k
    <3>1. j - k \in 1 .. Len(a) - k + 1 /\ k + (j - k) - 1 = j - 1
      BY <1>0, <2>2
    <3>2. c[j - k] = a[j - 1]
      BY <1>2, <3>1
    <3>3. ~(j <= k) /\ ~(j < k) /\ j # k
      BY <1>0, <2>2
    <3> QED BY <1>7, <3>2, <3>3
  <2> QED BY <1>0, <2>1, <2>2
<1>9. DOMAIN d = 1 .. (Len(a) + 1)
  BY <1>7
<1>10. \A i \in 1 .. Len(a) : a[i] # x
  BY <1>0 DEF Range
<1>11. \A i, j \in 1 .. Len(a) : a[i] = a[j] => i = j
  BY <1>0 DEF IsInjective
<1>12. IsInjective(d)
  <2> SUFFICES ASSUME NEW i \in 1 .. Len(a) + 1, NEW j \in 1 .. Len(a) + 1, d[i] = d[j] PROVE i = j
    BY <1>9 DEF IsInjective
  <2> QED BY <1>0, <1>8, <1>10, <1>11
<1>13. ASSUME NEW y \in Range(d) PROVE y \in Range(a) \cup {x}
  <2>1. PICK j \in 1 .. Len(a) + 1 : y = d[j]
    BY <1>9 DEF Range
  <2>2. y = x \/ \E i \in 1 .. Len(a) : y = a[i]
    BY <1>0, <1>8, <2>1
  <2> QED BY <1>0, <2>2 DEF Range
<1>14. ASSUME NEW y \in Range(a) PROVE y \in Range(d)
  <2>1. PICK i \in 1 .. Len(a) : y = a[i]
    BY <1>0 DEF Range
  <2>2. PICK j : j = IF i < k THEN i ELSE i + 1
    OBVIOUS
  <2>3. j \in 1 .. Len(a) + 1 /\ d[j] = y
    BY <1>0, <1>8, <2>1, <2>2, SMTT(30)
  <2> QED BY <1>9, <2>3 DEF Range
<1>15. x \in Range(d)
  <2>1. d[k] = x /\ k \in 1 .. Len(a) + 1
    BY <1>0, <1>8
  <2> QED BY <1>9, <2>1 DEF Range
<1>16. Range(d) = Range(a) \cup {x}
  BY <1>13, <1>14, <1>15
<1> QED BY <1>7, <1>8, <1>12, <1>16 DEF d

-----------------------------------------------------------------------------
(* The recursion of Total. *)

AddsUp(f, n, a) == f = [i \in 0 .. n |-> IF i = 0 THEN 0 ELSE f[i - 1] + a[i]]

LEMMA TotalExists ==
  ASSUME NEW a \in Seq(Int)
  PROVE  \E f : AddsUp(f, Len(a), a) /\ Total(a) = f[Len(a)]
<1> DEFINE Bad == {n \in Nat : n <= Len(a) /\ ~ \E f : AddsUp(f, n, a)}
<1>1. Bad = {}
  <2> SUFFICES ASSUME Bad # {} PROVE FALSE
    OBVIOUS
  <2>1. PICK n \in Bad : \A k \in Bad : n <= k
    BY LeastNatural
  <2>2. n # 0
    <3> DEFINE g == [i \in 0 .. 0 |-> 0]
    <3>1. AddsUp(g, 0, a)
      BY DEF AddsUp
    <3> QED BY <3>1
  <2>3. n \in Nat /\ n - 1 \in Nat /\ n - 1 <= Len(a) /\ n - 1 \notin Bad
    BY <2>1, <2>2
  <2>4. PICK f : AddsUp(f, n - 1, a)
    BY <2>3
  <2> DEFINE next == f[n - 1] + a[n]
             g == [i \in 0 .. n |-> IF i < n THEN f[i] ELSE next]
  <2>5. \A i \in 0 .. n - 1 : g[i] = f[i]
    BY <2>3
  <2>6. g[n] = next
    BY <2>3
  <2>7. \A i \in 0 .. n - 1 : f[i] = IF i = 0 THEN 0 ELSE f[i - 1] + a[i]
    BY <2>4 DEF AddsUp
  <2> HIDE DEF next
  <2>8. \A i \in 0 .. n : g[i] = IF i = 0 THEN 0 ELSE g[i - 1] + a[i]
    <3> TAKE i \in 0 .. n
    <3>1. CASE i = 0
      BY <2>2, <2>3, <2>5, <2>7, <3>1
    <3>2. CASE i # 0 /\ i < n
      <4>1. i \in 0 .. n - 1 /\ i - 1 \in 0 .. n - 1
        BY <2>3, <3>2
      <4>2. g[i] = f[i] /\ g[i - 1] = f[i - 1]
        BY <2>5, <4>1
      <4> HIDE DEF g
      <4> QED BY <2>7, <3>2, <4>1, <4>2
    <3>3. CASE i = n
      <4>1. g[n - 1] = f[n - 1]
        BY <2>3, <2>5
      <4> HIDE DEF g
      <4> QED BY <2>2, <2>6, <3>3, <4>1 DEF next
    <3> QED BY <2>3, <3>1, <3>2, <3>3
  <2>9. AddsUp(g, n, a)
    <3>1. g = [i \in 0 .. n |-> g[i]]
      OBVIOUS
    <3> HIDE DEF g
    <3> QED BY <2>8, <3>1 DEF AddsUp
  <2> QED BY <2>1, <2>9
<1>2. \E f : AddsUp(f, Len(a), a)
  <2>1. Len(a) \in Nat /\ Len(a) <= Len(a)
    OBVIOUS
  <2>2. Len(a) \notin Bad
    BY <1>1
  <2> QED BY <2>1, <2>2
<1> DEFINE sum == CHOOSE f : AddsUp(f, Len(a), a)
<1>3. AddsUp(sum, Len(a), a)
  BY <1>2
<1>4. Total(a) = sum[Len(a)]
  BY DEF Total, AddsUp
<1> HIDE DEF sum
<1> QED BY <1>3, <1>4

\* The sums of a and b differ by d from position e on, if only b[e] is another
\* and b may be longer by zeros.
LEMMA TotalDiffers ==
  ASSUME NEW a \in Seq(Int), NEW b \in Seq(Int), Len(a) <= Len(b),
         NEW e \in Nat \ {0}, NEW d \in Int, e <= Len(a) \/ d = 0,
         \A i \in 1 .. Len(b) : b[i] = (IF i <= Len(a) THEN a[i] ELSE 0) + (IF i = e THEN d ELSE 0)
  PROVE  Total(a) \in Int /\ Total(b) = Total(a) + d
<1>1. PICK f : AddsUp(f, Len(a), a) /\ Total(a) = f[Len(a)]
  BY TotalExists
<1>2. PICK g : AddsUp(g, Len(b), b) /\ Total(b) = g[Len(b)]
  BY TotalExists
<1>3. Len(a) \in Nat /\ Len(b) \in Nat
  OBVIOUS
<1>4. \A i \in 0 .. Len(a) : f[i] = IF i = 0 THEN 0 ELSE f[i - 1] + a[i]
  BY <1>1 DEF AddsUp
<1>5. \A i \in 0 .. Len(b) : g[i] = IF i = 0 THEN 0 ELSE g[i - 1] + b[i]
  BY <1>2 DEF AddsUp
<1>6. \A i \in 1 .. Len(a) : a[i] \in Int
  OBVIOUS
<1> DEFINE F(i) == IF i <= Len(a) THEN f[i] ELSE f[Len(a)]
           D(i) == IF i >= e THEN d ELSE 0
           Right(i) == F(i) \in Int /\ g[i] = F(i) + D(i)
           Wrong == {n \in Nat : n <= Len(b) /\ ~ Right(n)}
<1>7. F(0) = 0 /\ D(0) = 0 /\ g[0] = 0
  BY <1>3, <1>4, <1>5
<1>8. ASSUME NEW n \in Nat \ {0}, n <= Len(b), Right(n - 1) PROVE Right(n)
  <2>1. g[n] = g[n - 1] + b[n]
    BY <1>3, <1>5, <1>8
  <2>2. b[n] = (IF n <= Len(a) THEN a[n] ELSE 0) + (IF n = e THEN d ELSE 0)
    BY <1>3, <1>8
  <2>3. F(n) = F(n - 1) + (IF n <= Len(a) THEN a[n] ELSE 0)
    <3>1. CASE n <= Len(a)
      <4>1. f[n] = f[n - 1] + a[n]
        BY <1>3, <1>4, <3>1
      <4> QED BY <1>3, <3>1, <4>1
    <3>2. CASE n > Len(a)
      <4>1. F(n - 1) = f[Len(a)]
        <5>1. n - 1 = Len(a) \/ ~(n - 1 <= Len(a))
          BY <1>3, <3>2
        <5> QED BY <5>1
      <4>2. F(n) = f[Len(a)]
        BY <1>3, <3>2
      <4>3. F(n - 1) \in Int
        BY <1>8
      <4> HIDE DEF F
      <4> QED BY <1>3, <3>2, <4>1, <4>2, <4>3
    <3> QED BY <1>3, <3>1, <3>2
  <2>4. D(n) = D(n - 1) + (IF n = e THEN d ELSE 0) /\ D(n) \in Int /\ D(n - 1) \in Int
    OBVIOUS
  <2>5. (IF n <= Len(a) THEN a[n] ELSE 0) \in Int /\ (IF n = e THEN d ELSE 0) \in Int
    BY <1>6
  <2>6. PICK x : x = IF n <= Len(a) THEN a[n] ELSE 0
    OBVIOUS
  <2>7. PICK y : y = IF n = e THEN d ELSE 0
    OBVIOUS
  <2>8. /\ x \in Int /\ y \in Int
        /\ b[n] = x + y /\ F(n) = F(n - 1) + x /\ D(n) = D(n - 1) + y
    BY <2>2, <2>3, <2>4, <2>5, <2>6, <2>7
  <2>9. F(n - 1) \in Int /\ g[n - 1] = F(n - 1) + D(n - 1)
    BY <1>8
  <2>10. PICK u, v : u = F(n - 1) /\ v = D(n - 1)
    OBVIOUS
  <2> HIDE DEF F, D
  <2>11. u \in Int /\ v \in Int /\ x \in Int /\ y \in Int
    BY <2>4, <2>8, <2>9, <2>10
  <2>12. F(n) = u + x /\ D(n) = v + y /\ g[n] = (u + v) + (x + y)
    BY <2>1, <2>8, <2>9, <2>10
  <2>13. (u + v) + (x + y) = (u + x) + (v + y) /\ u + x \in Int
    BY <2>11
  <2> QED BY <2>12, <2>13
<1> HIDE DEF F, D
<1>9. Right(0)
  BY <1>7
<1> HIDE DEF Right
<1>10. Wrong = {}
  <2> SUFFICES ASSUME Wrong # {} PROVE FALSE
    OBVIOUS
  <2>1. PICK n \in Wrong : \A k \in Wrong : n <= k
    BY LeastNatural
  <2>2. n # 0
    BY <1>9, <2>1
  <2>3. n \in Nat \ {0} /\ n - 1 \in Nat /\ n - 1 <= Len(b) /\ n - 1 \notin Wrong /\ n <= Len(b)
    BY <1>3, <2>1, <2>2
  <2>4. Right(n - 1)
    BY <2>3
  <2> QED BY <1>8, <2>1, <2>3, <2>4
<1>11. Right(Len(b)) /\ Right(Len(a))
  BY <1>3, <1>10
<1>12. F(Len(b)) = f[Len(a)] /\ F(Len(a)) = f[Len(a)] /\ D(Len(b)) = d
  BY <1>3 DEF F, D
<1> QED BY <1>1, <1>2, <1>11, <1>12 DEF Right

LEMMA TotalSame ==
  ASSUME NEW a \in Seq(Int), NEW b \in Seq(Int), Len(a) <= Len(b),
         \A i \in 1 .. Len(b) : b[i] = IF i <= Len(a) THEN a[i] ELSE 0
  PROVE  Total(a) \in Int /\ Total(b) = Total(a)
<1>1. \A i \in 1 .. Len(a) : a[i] \in Int
  OBVIOUS
<1>2. \A i \in 1 .. Len(b) : b[i] = (IF i <= Len(a) THEN a[i] ELSE 0) + (IF i = 1 THEN 0 ELSE 0)
  BY <1>1
<1>3. 1 \in Nat \ {0} /\ 0 \in Int
  OBVIOUS
<1>4. Total(a) \in Int /\ Total(b) = Total(a) + 0
  BY <1>2, <1>3, TotalDiffers
<1> QED BY <1>4

-----------------------------------------------------------------------------
(* The inductive invariant. *)

RequestsIn(s) == {e \in DOMAIN s.events : IsRequest(s, e)}

IsRes(r) ==
  r = [kind |-> r.kind, capacity |-> r.capacity, level |-> r.level, initial |-> r.initial,
       users |-> r.users, items |-> r.items, putQueue |-> r.putQueue, getQueue |-> r.getQueue,
       asks |-> r.asks, gone |-> r.gone, skipped |-> r.skipped, mishap |-> r.mishap]

\* What each request is about.
AsksOK(s, r) ==
  /\ DOMAIN r.asks = RequestsIn(s)
  /\ \A e \in RequestsIn(s) :
       /\ s.events[e].state \in {"pending", "ok"}
       /\ r.asks[e].n \in Int /\ r.asks[e].time \in Nat
       /\ r.asks[e].proc \in {None} \cup Processes(s)
       /\ r.kind = "container" => r.asks[e].n \in Nat

QueueOK(s, queue, type) ==
  /\ queue \in Seq(Nat) /\ IsInjective(queue)
  /\ \A e \in Range(queue) : e \in DOMAIN s.events /\ s.events[e].type = type

\* A request waits in its queue until it is granted or cancelled.
QueuesOK(s, r) ==
  /\ QueueOK(s, r.putQueue, "put") /\ QueueOK(s, r.getQueue, "get")
  /\ \A e \in RequestsIn(s) :
       e \in Range(r.putQueue) \cup Range(r.getQueue)
         <=> s.events[e].state = "pending" /\ e \notin r.gone
  /\ r.gone \subseteq RequestsIn(s) /\ \A e \in r.gone : s.events[e].state = "pending"

HoldersOK(s, r) ==
  /\ r.users \in Seq(Nat) /\ IsInjective(r.users) /\ Len(r.users) <= r.capacity
  /\ Range(r.users) \subseteq GrantedOf(s, "put")

LevelOK(s, r) ==
  /\ r.level = r.initial + Total(Amounts(s, r, "put")) - Total(Amounts(s, r, "get"))
  /\ r.level \in 0 .. r.capacity

ItemsOK(s, r) ==
  /\ r.items \in Seq(Int)
  /\ Len(r.items) = Cardinality(GrantedOf(s, "put")) - Cardinality(GrantedOf(s, "get"))
  /\ Len(r.items) <= r.capacity

StockOK(s, r) ==
  CASE Slots(r) -> TRUE
    [] r.kind = "container" -> LevelOK(s, r)
    [] OTHER -> ItemsOK(s, r)

ResOK(s, r) ==
  /\ IsRes(r) /\ r.kind \in Kinds /\ r.capacity \in Nat \ {0} /\ r.initial \in Int
  /\ AsksOK(s, r) /\ QueuesOK(s, r) /\ HoldersOK(s, r) /\ StockOK(s, r)

\* a is in the order R.
InOrder(a, R) == \A i, j \in DOMAIN a : i < j => <<a[i], a[j]>> \in R

\* By age; and the order of the discipline, by key and then by age.
Older == {pair \in Nat \X Nat : pair[1] < pair[2]}
ServesFirst(r) ==
  {pair \in Nat \X Nat :
     LET a == r.asks[pair[1]]
         b == r.asks[pair[2]]
     IN  IF Sorted(r) /\ (KeyLess(a, b) \/ KeyLess(b, a)) THEN KeyLess(a, b) ELSE pair[1] < pair[2]}

Ordered(r) == InOrder(r.putQueue, ServesFirst(r)) /\ InOrder(r.getQueue, Older)

\* A release never waits.
Freed(r) == Slots(r) => r.getQueue = <<>>

\* What user code may ask for.
CastOK ==
  /\ {"puts", "gets"} \subseteq DOMAIN cast
  /\ \A p \in cast.puts : p[1] \in Int
  /\ cast.gets \subseteq Int
  /\ res.kind = "container" =>
       cast.gets \subseteq Nat \ {0} /\ \A p \in cast.puts : p[1] \in Nat \ {0}

\* A Sim in order, a resource in order with it.
RInv == KInv /\ ResOK(sim, res) /\ Ordered(res) /\ Freed(res) /\ CastOK

-----------------------------------------------------------------------------
(* One field of the resource is set. *)

\* The fields that no grant changes, and those that a grant changes.
Fixed(r, q) ==
  /\ IsRes(q) /\ q.kind = r.kind /\ q.capacity = r.capacity /\ q.initial = r.initial
  /\ q.asks = r.asks /\ q.gone = r.gone
Stock(r, q) == q.level = r.level /\ q.items = r.items
Queues(r, q) == q.putQueue = r.putQueue /\ q.getQueue = r.getQueue

LEMMA SetUsers ==
  ASSUME NEW r, IsRes(r), NEW x, NEW q, q = [r EXCEPT !.users = x]
  PROVE  Fixed(r, q) /\ Stock(r, q) /\ Queues(r, q) /\ q.users = x /\ q.mishap = r.mishap
BY DEF IsRes, Fixed, Stock, Queues

LEMMA SetItems ==
  ASSUME NEW r, IsRes(r), NEW x, NEW q, q = [r EXCEPT !.items = x]
  PROVE  Fixed(r, q) /\ Queues(r, q) /\ q.users = r.users /\ q.items = x /\ q.level = r.level /\ q.mishap = r.mishap
BY DEF IsRes, Fixed, Queues

LEMMA SetLevel ==
  ASSUME NEW r, IsRes(r), NEW x, NEW q, q = [r EXCEPT !.level = x]
  PROVE  Fixed(r, q) /\ Queues(r, q) /\ q.users = r.users /\ q.items = r.items /\ q.level = x /\ q.mishap = r.mishap
BY DEF IsRes, Fixed, Queues

LEMMA SetPutQueue ==
  ASSUME NEW r, IsRes(r), NEW x, NEW q, q = [r EXCEPT !.putQueue = x]
  PROVE  Fixed(r, q) /\ Stock(r, q) /\ q.users = r.users /\ q.putQueue = x /\ q.getQueue = r.getQueue /\ q.mishap = r.mishap
BY DEF IsRes, Fixed, Stock

LEMMA SetGetQueue ==
  ASSUME NEW r, IsRes(r), NEW x, NEW q, q = [r EXCEPT !.getQueue = x]
  PROVE  Fixed(r, q) /\ Stock(r, q) /\ q.users = r.users /\ q.putQueue = r.putQueue /\ q.getQueue = x /\ q.mishap = r.mishap
BY DEF IsRes, Fixed, Stock

LEMMA SetMishap ==
  ASSUME NEW r, IsRes(r), NEW x, NEW q, q = [r EXCEPT !.mishap = x]
  PROVE  Fixed(r, q) /\ Stock(r, q) /\ Queues(r, q) /\ q.users = r.users /\ q.mishap = x
BY DEF IsRes, Fixed, Stock, Queues

LEMMA SetAsks ==
  ASSUME NEW r, IsRes(r), NEW x, NEW q, q = [r EXCEPT !.asks = x]
  PROVE  /\ IsRes(q) /\ q.kind = r.kind /\ q.capacity = r.capacity /\ q.initial = r.initial
         /\ Stock(r, q) /\ Queues(r, q) /\ q.users = r.users /\ q.gone = r.gone /\ q.asks = x
BY DEF IsRes, Stock, Queues

IsWorld(w) == w = [sim |-> w.sim, res |-> w.res, raised |-> w.raised]

LEMMA SetWorld ==
  ASSUME NEW w, IsWorld(w), NEW x
  PROVE  /\ [w EXCEPT !.sim = x] = [sim |-> x, res |-> w.res, raised |-> w.raised]
         /\ [w EXCEPT !.res = x] = [sim |-> w.sim, res |-> x, raised |-> w.raised]
BY DEF IsWorld

LEMMA GrantWorld ==
  ASSUME NEW w, IsWorld(w), NEW e, NEW q
  PROVE  Grant([sim |-> w.sim, res |-> q, raised |-> w.raised], e)
           = [sim |-> Trigger(w.sim, e, "ok"), res |-> q, raised |-> w.raised]
BY DEF Grant

-----------------------------------------------------------------------------
(* What the resource says of the requests stays true while the Sim leaves them
   apart. *)

LEMMA ApartRequests ==
  ASSUME NEW s, NEW t, Apart(s, t)
  PROVE  /\ RequestsIn(t) = RequestsIn(s)
         /\ \A type \in RequestTypes : GrantedOf(t, type) = GrantedOf(s, type)
         /\ Processes(s) \subseteq Processes(t)
<1>1. RequestsIn(t) = RequestsIn(s)
  BY DEF Apart, RequestsIn, IsRequest
<1>2. ASSUME NEW type \in RequestTypes
      PROVE  GrantedOf(t, type) = GrantedOf(s, type)
  BY DEF Apart, GrantedOf, IsRequest
<1>3. Processes(s) \subseteq Processes(t)
  BY DEF Apart, Processes
<1> QED BY <1>1, <1>2, <1>3

LEMMA AmountsFit ==
  ASSUME NEW s, SimOK(s), NEW r, AsksOK(s, r), NEW type \in RequestTypes, NEW a, a = Amounts(s, r, type)
  PROVE  /\ a \in Seq(Int) /\ Len(a) = Len(s.events) /\ Len(a) \in Nat
         /\ DOMAIN s.events = 1 .. Len(a)
         /\ \A e \in DOMAIN s.events : a[e] = IF e \in GrantedOf(s, type) THEN r.asks[e].n ELSE 0
         /\ Total(a) \in Int
<1>1. /\ DOMAIN s.events = 1 .. Len(s.events) /\ Len(s.events) \in Nat
  BY SimFields DEF SimOK
<1>2. \A e \in GrantedOf(s, type) : r.asks[e].n \in Int
  BY DEF AsksOK, RequestsIn, IsRequest, GrantedOf
<1>3. a = [e \in 1 .. Len(s.events) |-> IF e \in GrantedOf(s, type) THEN r.asks[e].n ELSE 0]
  BY <1>1 DEF Amounts
<1> DEFINE F(e) == IF e \in GrantedOf(s, type) THEN r.asks[e].n ELSE 0
<1>4. \A e \in 1 .. Len(s.events) : F(e) \in Int
  BY <1>2
<1>5. a = [e \in 1 .. Len(s.events) |-> F(e)]
  BY <1>3
<1>6. \A e \in DOMAIN s.events : a[e] = IF e \in GrantedOf(s, type) THEN r.asks[e].n ELSE 0
  BY <1>1, <1>3
<1> HIDE DEF F
<1>7. a \in Seq(Int) /\ Len(a) = Len(s.events)
  BY <1>1, <1>4, <1>5
<1>8. \E f : AddsUp(f, Len(a), a) /\ Total(a) = f[Len(a)]
  BY <1>7, TotalExists
<1>9. Total(a) \in Int
  BY <1>7, TotalSame
<1> QED BY <1>1, <1>6, <1>7, <1>9

LEMMA AmountsStay ==
  ASSUME NEW s, SimOK(s), NEW t, SimOK(t), NEW r, AsksOK(s, r), NEW q, AsksOK(t, q),
         NEW type \in RequestTypes, GrantedOf(t, type) = GrantedOf(s, type),
         DOMAIN s.events \subseteq DOMAIN t.events,
         \A e \in GrantedOf(s, type) : q.asks[e].n = r.asks[e].n
  PROVE  Total(Amounts(t, q, type)) = Total(Amounts(s, r, type))
<1>1. PICK a : a = Amounts(s, r, type)
  OBVIOUS
<1>2. PICK b : b = Amounts(t, q, type)
  OBVIOUS
<1>3. /\ a \in Seq(Int) /\ Len(a) \in Nat /\ DOMAIN s.events = 1 .. Len(a)
      /\ \A e \in DOMAIN s.events : a[e] = IF e \in GrantedOf(s, type) THEN r.asks[e].n ELSE 0
  BY <1>1, AmountsFit
<1>4. /\ b \in Seq(Int) /\ Len(b) \in Nat /\ DOMAIN t.events = 1 .. Len(b)
      /\ \A e \in DOMAIN t.events : b[e] = IF e \in GrantedOf(t, type) THEN q.asks[e].n ELSE 0
  BY <1>2, AmountsFit
<1>5. Len(a) <= Len(b)
  BY <1>3, <1>4
<1>6. GrantedOf(s, type) \subseteq DOMAIN s.events
  BY DEF GrantedOf
<1>7. \A i \in 1 .. Len(b) : b[i] = IF i <= Len(a) THEN a[i] ELSE 0
  BY <1>3, <1>4, <1>6, SMTT(30)
<1> QED BY <1>1, <1>2, <1>3, <1>4, <1>5, <1>7, TotalSame

\* A resource in order with the Sim s is so with the Sim t.
LEMMA ResStays ==
  ASSUME NEW s, SimOK(s), NEW t, SimOK(t), Apart(s, t), NEW r, ResOK(s, r)
  PROVE  ResOK(t, r)
<1>1. /\ RequestsIn(t) = RequestsIn(s)
      /\ \A type \in RequestTypes : GrantedOf(t, type) = GrantedOf(s, type)
      /\ Processes(s) \subseteq Processes(t)
      /\ DOMAIN s.events \subseteq DOMAIN t.events
  BY ApartRequests DEF Apart
<1>2. \A e \in DOMAIN s.events :
         /\ t.events[e].type = s.events[e].type
         /\ IsRequest(s, e) => t.events[e].state = s.events[e].state
  BY DEF Apart
<1>3. "put" \in RequestTypes /\ "get" \in RequestTypes
  BY DEF RequestTypes
<1>4. RequestsIn(s) \subseteq DOMAIN s.events /\ \A e \in RequestsIn(s) : t.events[e].state = s.events[e].state
  BY <1>2 DEF RequestsIn
<1>5. AsksOK(t, r)
  <2>1. AsksOK(s, r)
    BY DEF ResOK
  <2> QED BY <1>1, <1>4, <2>1 DEF AsksOK
<1>6. QueuesOK(t, r)
  <2>1. QueuesOK(s, r)
    BY DEF ResOK
  <2>2. QueueOK(t, r.putQueue, "put") /\ QueueOK(t, r.getQueue, "get")
    BY <1>1, <1>2, <2>1 DEF QueuesOK, QueueOK
  <2> QED BY <1>1, <1>4, <2>1, <2>2 DEF QueuesOK
<1>7. HoldersOK(t, r)
  BY <1>1, <1>3 DEF HoldersOK, ResOK
<1>8. StockOK(t, r)
  <2>1. StockOK(s, r) /\ AsksOK(s, r)
    BY DEF ResOK
  <2>2. \A type \in RequestTypes : Total(Amounts(t, r, type)) = Total(Amounts(s, r, type))
    BY <1>1, <1>5, <2>1, AmountsStay
  <2>3. LevelOK(s, r) => LevelOK(t, r)
    BY <1>3, <2>2 DEF LevelOK
  <2>4. ItemsOK(s, r) => ItemsOK(t, r)
    BY <1>1, <1>3 DEF ItemsOK
  <2> QED BY <2>1, <2>3, <2>4 DEF StockOK
<1> QED BY <1>5, <1>6, <1>7, <1>8 DEF ResOK

-----------------------------------------------------------------------------
(* A request is granted. *)

QueueOf(r, type) == IF type = "put" THEN r.putQueue ELSE r.getQueue

\* From r to q the request e has left its queue.
LeftQueue(r, q, type, e) ==
  /\ q.putQueue = IF type = "put" THEN RemoveFirst(r.putQueue, e) ELSE r.putQueue
  /\ q.getQueue = IF type = "put" THEN r.getQueue ELSE RemoveFirst(r.getQueue, e)

\* Whoever holds a slot held it before, or is e itself.
HoldersFit(r, q, type, e) ==
  /\ q.users \in Seq(Nat) /\ IsInjective(q.users) /\ Len(q.users) <= r.capacity
  /\ Range(q.users) \subseteq Range(r.users) \cup (IF type = "put" THEN {e} ELSE {})

StockFits(r, q, type, e) ==
  /\ r.kind = "container" =>
       /\ q.level \in 0 .. r.capacity
       /\ q.level = IF type = "put" THEN r.level + r.asks[e].n ELSE r.level - r.asks[e].n
  /\ ~ Slots(r) /\ r.kind # "container" =>
       /\ q.items \in Seq(Int) /\ Len(q.items) <= r.capacity
       /\ Len(q.items) = IF type = "put" THEN Len(r.items) + 1 ELSE Len(r.items) - 1

LEMMA WaitingRequest ==
  ASSUME NEW s, NEW r, ResOK(s, r), NEW type \in RequestTypes, NEW e \in Range(QueueOf(r, type))
  PROVE  /\ e \in RequestsIn(s) /\ e \in DOMAIN s.events /\ s.events[e].type = type
         /\ s.events[e].state = "pending" /\ e \notin r.gone
         /\ e \notin Range(r.users)
         /\ r.asks[e].n \in Int /\ (r.kind = "container" => r.asks[e].n \in Nat)
<1>1. QueuesOK(s, r) /\ AsksOK(s, r) /\ HoldersOK(s, r)
  BY DEF ResOK
<1>2. e \in DOMAIN s.events /\ s.events[e].type = type
  BY <1>1 DEF QueuesOK, QueueOK, QueueOf, RequestTypes
<1>3. e \in RequestsIn(s)
  BY <1>2 DEF RequestsIn, IsRequest
<1>4. e \in Range(r.putQueue) \cup Range(r.getQueue)
  BY DEF QueueOf
<1>5. s.events[e].state = "pending" /\ e \notin r.gone
  BY <1>1, <1>3, <1>4 DEF QueuesOK
<1>6. e \notin Range(r.users)
  BY <1>1, <1>5 DEF HoldersOK, GrantedOf
<1>7. r.asks[e].n \in Int /\ (r.kind = "container" => r.asks[e].n \in Nat)
  BY <1>1, <1>3 DEF AsksOK
<1> QED BY <1>2, <1>3, <1>5, <1>6, <1>7

LEMMA GrantedGrow ==
  ASSUME NEW s, SimOK(s), NEW r, ResOK(s, r), NEW type \in RequestTypes, NEW e \in Range(QueueOf(r, type)),
         NEW t, t = Trigger(s, e, "ok")
  PROVE  /\ Quiet(s, t) /\ SimOK(t) /\ RequestsIn(t) = RequestsIn(s) /\ Processes(t) = Processes(s)
         /\ DOMAIN t.events = DOMAIN s.events
         /\ \A f \in DOMAIN s.events : t.events[f].type = s.events[f].type
         /\ \A f \in DOMAIN s.events \ {e} : t.events[f].state = s.events[f].state
         /\ t.events[e].state = "ok"
         /\ e \notin GrantedOf(s, type) /\ GrantedOf(t, type) = GrantedOf(s, type) \cup {e}
         /\ \A other \in RequestTypes \ {type} : GrantedOf(t, other) = GrantedOf(s, other)
<1>1. /\ e \in DOMAIN s.events /\ s.events[e].type = type /\ s.events[e].state = "pending"
  BY WaitingRequest
<1>2. e \in DOMAIN s.events \ Processes(s) /\ (e \in Conditions(s) => s.events[e].state = "pending")
  BY <1>1 DEF Processes, RequestTypes
<1>3. ~ s.events[e].processed
  BY <1>1 DEF SimOK, EventOK
<1>4. Quiet(s, t)
  BY <1>2, <1>3, TameTrigger
<1>5. /\ SimOK(t) /\ DOMAIN t.events = DOMAIN s.events
      /\ \A f \in DOMAIN s.events \ {e} : t.events[f] = s.events[f]
      /\ t.events[e].type = s.events[e].type /\ t.events[e].state = "ok"
  BY <1>1, TriggerSim
<1>6. \A f \in DOMAIN s.events : t.events[f].type = s.events[f].type
  BY <1>5
<1>7. RequestsIn(t) = RequestsIn(s) /\ Processes(t) = Processes(s)
  BY <1>5, <1>6 DEF RequestsIn, IsRequest, Processes
<1>8. e \notin GrantedOf(s, type) /\ GrantedOf(t, type) = GrantedOf(s, type) \cup {e}
  BY <1>1, <1>5 DEF GrantedOf
<1>9. ASSUME NEW other \in RequestTypes \ {type}
      PROVE  GrantedOf(t, other) = GrantedOf(s, other)
  BY <1>1, <1>5 DEF GrantedOf
<1> QED BY <1>4, <1>5, <1>6, <1>7, <1>8, <1>9

LEMMA GrantQueues ==
  ASSUME NEW s, SimOK(s), NEW r, ResOK(s, r), NEW type \in RequestTypes, NEW e \in Range(QueueOf(r, type)),
         NEW t, t = Trigger(s, e, "ok"), NEW q, Fixed(r, q), LeftQueue(r, q, type, e)
  PROVE  /\ QueuesOK(t, q)
         /\ Range(QueueOf(q, type)) = Range(QueueOf(r, type)) \ {e}
<1>1. /\ SimOK(t) /\ RequestsIn(t) = RequestsIn(s) /\ DOMAIN t.events = DOMAIN s.events
      /\ \A f \in DOMAIN s.events : t.events[f].type = s.events[f].type
      /\ \A f \in DOMAIN s.events \ {e} : t.events[f].state = s.events[f].state
      /\ t.events[e].state = "ok"
  BY GrantedGrow
<1>2. QueuesOK(s, r)
  BY DEF ResOK
<1>3. /\ e \in DOMAIN s.events /\ s.events[e].type = type /\ e \notin r.gone
      /\ s.events[e].state = "pending"
  BY WaitingRequest
<1>4. /\ QueueOK(s, r.putQueue, "put") /\ QueueOK(s, r.getQueue, "get")
  BY <1>2 DEF QueuesOK
<1>5. /\ type = "put" => e \notin Range(r.getQueue)
      /\ type = "get" => e \notin Range(r.putQueue)
  BY <1>3, <1>4 DEF QueueOK
<1>6. ASSUME NEW queue, NEW kind, QueueOK(s, queue, kind)
      PROVE  /\ QueueOK(t, queue, kind)
             /\ QueueOK(t, RemoveFirst(queue, e), kind)
             /\ Range(RemoveFirst(queue, e)) = Range(queue) \ {e}
  <2>1. /\ queue \in Seq(Nat) /\ IsInjective(queue)
        /\ \A f \in Range(queue) : f \in DOMAIN s.events /\ s.events[f].type = kind
    BY <1>6 DEF QueueOK
  <2>2. /\ RemoveFirst(queue, e) \in Seq(Nat) /\ IsInjective(RemoveFirst(queue, e))
        /\ Range(RemoveFirst(queue, e)) = Range(queue) \ {e}
    BY <2>1, RemoveId
  <2> QED BY <1>1, <2>1, <2>2 DEF QueueOK
<1>7. type = "put" \/ type = "get"
  BY DEF RequestTypes
<1>8. QueueOK(t, q.putQueue, "put") /\ QueueOK(t, q.getQueue, "get")
  BY <1>4, <1>6, <1>7 DEF LeftQueue
<1>9. /\ Range(q.putQueue) \cup Range(q.getQueue)
           = (Range(r.putQueue) \cup Range(r.getQueue)) \ {e}
      /\ Range(QueueOf(q, type)) = Range(QueueOf(r, type)) \ {e}
  BY <1>4, <1>5, <1>6, <1>7 DEF LeftQueue, QueueOf
<1>10. q.gone = r.gone
  BY DEF Fixed
<1>11. ASSUME NEW f \in RequestsIn(t)
       PROVE  f \in Range(q.putQueue) \cup Range(q.getQueue)
                <=> t.events[f].state = "pending" /\ f \notin q.gone
  <2>1. f \in DOMAIN s.events /\ f \in RequestsIn(s)
    BY <1>1, <1>11 DEF RequestsIn
  <2>2. f \in Range(r.putQueue) \cup Range(r.getQueue)
          <=> s.events[f].state = "pending" /\ f \notin r.gone
    BY <1>2, <2>1 DEF QueuesOK
  <2> QED BY <1>1, <1>9, <1>10, <2>1, <2>2
<1>12. q.gone \subseteq RequestsIn(t) /\ \A f \in q.gone : t.events[f].state = "pending"
  <2>1. r.gone \subseteq RequestsIn(s) /\ \A f \in r.gone : s.events[f].state = "pending"
    BY <1>2 DEF QueuesOK
  <2>2. r.gone \subseteq DOMAIN s.events \ {e}
    BY <1>3, <2>1 DEF RequestsIn
  <2> QED BY <1>1, <1>10, <2>1, <2>2
<1> QED BY <1>8, <1>9, <1>11, <1>12 DEF QueuesOK

LEMMA GrantTotals ==
  ASSUME NEW s, SimOK(s), NEW r, ResOK(s, r), NEW type \in RequestTypes, NEW e \in Range(QueueOf(r, type)),
         NEW t, t = Trigger(s, e, "ok"), NEW q, Fixed(r, q), AsksOK(t, q)
  PROVE  /\ Total(Amounts(t, q, type)) = Total(Amounts(s, r, type)) + r.asks[e].n
         /\ \A other \in RequestTypes \ {type} :
               Total(Amounts(t, q, other)) = Total(Amounts(s, r, other))
<1>1. /\ SimOK(t) /\ DOMAIN t.events = DOMAIN s.events
      /\ e \notin GrantedOf(s, type) /\ GrantedOf(t, type) = GrantedOf(s, type) \cup {e}
      /\ \A other \in RequestTypes \ {type} : GrantedOf(t, other) = GrantedOf(s, other)
  BY GrantedGrow
<1>2. AsksOK(s, r) /\ q.asks = r.asks
  BY DEF ResOK, Fixed
<1>3. e \in DOMAIN s.events /\ r.asks[e].n \in Int
  BY WaitingRequest
<1>4. \A other \in RequestTypes \ {type} : Total(Amounts(t, q, other)) = Total(Amounts(s, r, other))
  BY <1>1, <1>2, AmountsStay
<1>5. PICK a : a = Amounts(s, r, type)
  OBVIOUS
<1>6. PICK b : b = Amounts(t, q, type)
  OBVIOUS
<1>7. /\ a \in Seq(Int) /\ Len(a) \in Nat /\ DOMAIN s.events = 1 .. Len(a)
      /\ \A f \in DOMAIN s.events : a[f] = IF f \in GrantedOf(s, type) THEN r.asks[f].n ELSE 0
  BY <1>2, <1>5, AmountsFit
<1>8. /\ b \in Seq(Int) /\ Len(b) \in Nat /\ DOMAIN t.events = 1 .. Len(b)
      /\ \A f \in DOMAIN t.events : b[f] = IF f \in GrantedOf(t, type) THEN q.asks[f].n ELSE 0
  BY <1>1, <1>6, AmountsFit
<1>9. Len(a) = Len(b)
  BY <1>1, <1>7, <1>8
<1>10. e \in Nat \ {0} /\ e <= Len(a)
  BY <1>3, <1>7
<1>11. \A f \in 1 .. Len(b) : b[f] = a[f] + (IF f = e THEN r.asks[e].n ELSE 0)
  <2> SUFFICES ASSUME NEW f \in 1 .. Len(b)
               PROVE  b[f] = a[f] + (IF f = e THEN r.asks[e].n ELSE 0)
    OBVIOUS
  <2>1. a[f] \in Int /\ f \in DOMAIN s.events /\ f \in DOMAIN t.events
    BY <1>7, <1>8, <1>9
  <2>2. CASE f = e
    <3>1. a[f] = 0 /\ b[f] = r.asks[e].n
      BY <1>1, <1>2, <1>7, <1>8, <2>1, <2>2
    <3> QED BY <1>3, <2>2, <3>1
  <2>3. CASE f # e
    <3>1. b[f] = a[f]
      BY <1>1, <1>2, <1>7, <1>8, <2>1, <2>3
    <3> QED BY <2>1, <2>3, <3>1
  <2> QED BY <2>2, <2>3
<1>12. \A f \in 1 .. Len(b) : b[f] = (IF f <= Len(a) THEN a[f] ELSE 0) + (IF f = e THEN r.asks[e].n ELSE 0)
  BY <1>8, <1>9, <1>11
<1>13. Len(a) <= Len(b)
  BY <1>7, <1>9
<1>14. Total(b) = Total(a) + r.asks[e].n
  <2>1. PICK n : n = r.asks[e].n
    OBVIOUS
  <2>2. /\ a \in Seq(Int) /\ b \in Seq(Int) /\ e \in Nat \ {0} /\ n \in Int
        /\ e <= Len(a) \/ n = 0
    BY <1>3, <1>7, <1>8, <1>10, <2>1
  <2>3. \A f \in 1 .. Len(b) : b[f] = (IF f <= Len(a) THEN a[f] ELSE 0) + (IF f = e THEN n ELSE 0)
    BY <1>12, <2>1
  <2>4. Total(b) = Total(a) + n
    BY <1>13, <2>2, <2>3, TotalDiffers
  <2> QED BY <2>1, <2>4
<1> QED BY <1>4, <1>5, <1>6, <1>14

LEMMA GrantCounts ==
  ASSUME NEW s, SimOK(s), NEW r, ResOK(s, r), NEW type \in RequestTypes, NEW e \in Range(QueueOf(r, type)),
         NEW t, t = Trigger(s, e, "ok")
  PROVE  /\ Cardinality(GrantedOf(t, type)) = Cardinality(GrantedOf(s, type)) + 1
         /\ \A other \in RequestTypes : Cardinality(GrantedOf(s, other)) \in Nat
<1>1. e \notin GrantedOf(s, type) /\ GrantedOf(t, type) = GrantedOf(s, type) \cup {e}
  BY GrantedGrow
<1>2. DOMAIN s.events = 1 .. Len(s.events) /\ Len(s.events) \in Nat
  BY SimFields DEF SimOK
<1>3. ASSUME NEW other \in RequestTypes
      PROVE  IsFiniteSet(GrantedOf(s, other)) /\ Cardinality(GrantedOf(s, other)) \in Nat
  <2>1. GrantedOf(s, other) \subseteq 1 .. Len(s.events)
    BY <1>2 DEF GrantedOf
  <2>2. IsFiniteSet(1 .. Len(s.events))
    BY <1>2, FS_Interval
  <2>3. IsFiniteSet(GrantedOf(s, other))
    BY <2>1, <2>2, FS_Subset
  <2> QED BY <2>3, FS_CardinalityType
<1>4. Cardinality(GrantedOf(s, type) \cup {e}) = Cardinality(GrantedOf(s, type)) + 1
  BY <1>1, <1>3, FS_AddElement
<1> QED BY <1>1, <1>3, <1>4

LEMMA Granting ==
  ASSUME NEW s, SimOK(s), NEW r, ResOK(s, r), NEW type \in RequestTypes, NEW e \in Range(QueueOf(r, type)),
         NEW t, t = Trigger(s, e, "ok"), NEW q, Fixed(r, q), LeftQueue(r, q, type, e),
         HoldersFit(r, q, type, e), StockFits(r, q, type, e)
  PROVE  ResOK(t, q) /\ Quiet(s, t) /\ Range(QueueOf(q, type)) = Range(QueueOf(r, type)) \ {e}
<1>1. /\ Quiet(s, t) /\ SimOK(t) /\ RequestsIn(t) = RequestsIn(s) /\ Processes(t) = Processes(s)
      /\ \A f \in DOMAIN s.events \ {e} : t.events[f].state = s.events[f].state
      /\ t.events[e].state = "ok"
      /\ GrantedOf(t, type) = GrantedOf(s, type) \cup {e}
      /\ \A other \in RequestTypes \ {type} : GrantedOf(t, other) = GrantedOf(s, other)
  BY GrantedGrow
<1>2. QueuesOK(t, q) /\ Range(QueueOf(q, type)) = Range(QueueOf(r, type)) \ {e}
  BY GrantQueues
<1>3. /\ AsksOK(s, r) /\ HoldersOK(s, r) /\ StockOK(s, r)
      /\ r.kind \in Kinds /\ r.capacity \in Nat \ {0} /\ r.initial \in Int
  BY DEF ResOK
<1>4. /\ q.kind = r.kind /\ q.capacity = r.capacity /\ q.initial = r.initial
      /\ q.asks = r.asks /\ IsRes(q)
  BY DEF Fixed
<1>5. AsksOK(t, q)
  <2>1. \A f \in RequestsIn(s) : f \in DOMAIN s.events
    BY DEF RequestsIn
  <2>2. \A f \in RequestsIn(s) : t.events[f].state \in {"pending", "ok"}
    BY <1>1, <1>3, <2>1 DEF AsksOK
  <2> QED BY <1>1, <1>3, <1>4, <2>2 DEF AsksOK
<1>6. type = "put" \/ type = "get"
  BY DEF RequestTypes
<1>7. "put" \in RequestTypes /\ "get" \in RequestTypes
  BY DEF RequestTypes
<1>8. HoldersOK(t, q)
  <2>1. GrantedOf(s, "put") \subseteq GrantedOf(t, "put") /\ (type = "put" => e \in GrantedOf(t, "put"))
    BY <1>1, <1>6, <1>7
  <2>2. Range(q.users) \subseteq GrantedOf(t, "put")
    BY <1>3, <1>6, <2>1 DEF HoldersOK, HoldersFit
  <2> QED BY <1>4, <2>2 DEF HoldersOK, HoldersFit
<1>9. r.kind = "container" => LevelOK(t, q)
  <2> SUFFICES ASSUME r.kind = "container" PROVE LevelOK(t, q)
    OBVIOUS
  <2>1. LevelOK(s, r)
    BY <1>3 DEF StockOK, Slots
  <2>2. PICK n : n = r.asks[e].n
    OBVIOUS
  <2>3. n \in Int
    BY <2>2, WaitingRequest
  <2>4. \A other \in RequestTypes : Total(Amounts(s, r, other)) \in Int
    BY <1>3, AmountsFit
  <2>5. PICK P, G : P = Total(Amounts(s, r, "put")) /\ G = Total(Amounts(s, r, "get"))
    OBVIOUS
  <2>6. PICK P1, G1 : P1 = Total(Amounts(t, q, "put")) /\ G1 = Total(Amounts(t, q, "get"))
    OBVIOUS
  <2>7. /\ P \in Int /\ G \in Int /\ r.level = r.initial + P - G /\ r.initial \in Int
    BY <1>3, <1>7, <2>1, <2>4, <2>5 DEF LevelOK
  <2>8. /\ Total(Amounts(t, q, type)) = Total(Amounts(s, r, type)) + n
        /\ \A other \in RequestTypes \ {type} :
               Total(Amounts(t, q, other)) = Total(Amounts(s, r, other))
    BY <1>5, <2>2, GrantTotals
  <2>9. /\ type = "put" => P1 = P + n /\ G1 = G
        /\ type = "get" => P1 = P /\ G1 = G + n
    BY <1>7, <2>5, <2>6, <2>8
  <2>10. /\ q.level \in 0 .. r.capacity
         /\ type = "put" => q.level = r.level + n
         /\ type = "get" => q.level = r.level - n
    BY <2>2 DEF StockFits
  <2>11. q.level = r.initial + P1 - G1
    <3>1. CASE type = "put"
      BY <2>3, <2>7, <2>9, <2>10, <3>1
    <3>2. CASE type = "get"
      BY <2>3, <2>7, <2>9, <2>10, <3>2
    <3> QED BY <1>6, <3>1, <3>2
  <2> QED BY <1>4, <2>6, <2>10, <2>11 DEF LevelOK
<1>10. ~ Slots(r) /\ r.kind # "container" => ItemsOK(t, q)
  <2> SUFFICES ASSUME ~ Slots(r), r.kind # "container" PROVE ItemsOK(t, q)
    OBVIOUS
  <2>1. ItemsOK(s, r)
    BY <1>3 DEF StockOK
  <2>2. PICK P, G : P = Cardinality(GrantedOf(s, "put")) /\ G = Cardinality(GrantedOf(s, "get"))
    OBVIOUS
  <2>3. /\ Cardinality(GrantedOf(t, type)) = Cardinality(GrantedOf(s, type)) + 1
        /\ P \in Nat /\ G \in Nat
    BY <1>7, <2>2, GrantCounts
  <2>4. /\ type = "put" => /\ Cardinality(GrantedOf(t, "put")) = P + 1
                           /\ Cardinality(GrantedOf(t, "get")) = G
        /\ type = "get" => /\ Cardinality(GrantedOf(t, "put")) = P
                           /\ Cardinality(GrantedOf(t, "get")) = G + 1
    BY <1>1, <1>7, <2>2, <2>3
  <2>5. Len(r.items) = P - G
    BY <2>1, <2>2 DEF ItemsOK
  <2>6. /\ q.items \in Seq(Int) /\ Len(q.items) <= r.capacity
        /\ type = "put" => Len(q.items) = Len(r.items) + 1
        /\ type = "get" => Len(q.items) = Len(r.items) - 1
    BY DEF StockFits
  <2>7. Len(q.items) = Cardinality(GrantedOf(t, "put")) - Cardinality(GrantedOf(t, "get"))
    <3>1. CASE type = "put"
      BY <2>3, <2>4, <2>5, <2>6, <3>1
    <3>2. CASE type = "get"
      BY <2>3, <2>4, <2>5, <2>6, <3>2, SMTT(30)
    <3> QED BY <1>6, <3>1, <3>2
  <2> QED BY <1>4, <2>6, <2>7 DEF ItemsOK
<1>11. StockOK(t, q)
  BY <1>4, <1>9, <1>10 DEF StockOK, Slots
<1> QED BY <1>1, <1>2, <1>3, <1>4, <1>5, <1>8, <1>11 DEF ResOK

-----------------------------------------------------------------------------
(* There is a weakest holder, and it can be bumped. *)

LEMMA KeyOrder ==
  ASSUME NEW a, NEW b, NEW c, a.n \in Int, b.n \in Int, c.n \in Int,
         a.time \in Nat, b.time \in Nat, c.time \in Nat, KeyLess(a, c), ~ KeyLess(a, b)
  PROVE  KeyLess(b, c)
BY DEF KeyLess

LEMMA KeyAsymmetric ==
  ASSUME NEW a, NEW b, a.n \in Int, b.n \in Int, a.time \in Nat, b.time \in Nat, KeyLess(a, b)
  PROVE  ~ KeyLess(b, a)
BY DEF KeyLess

LEMMA KeyStrict ==
  ASSUME NEW a, a.n \in Int, a.time \in Nat
  PROVE  ~ KeyLess(a, a)
BY DEF KeyLess

\* The first of the users 1 .. n that no other is weaker than.
FirstWeakest(r, n, i) ==
  /\ i \in 1 .. n
  /\ \A j \in 1 .. n :
       /\ ~KeyLess(r.asks[r.users[i]], r.asks[r.users[j]])
       /\ j < i => KeyLess(r.asks[r.users[j]], r.asks[r.users[i]])

LEMMA FirstWeakestExists ==
  ASSUME NEW r, NEW n \in Nat \ {0},
         \A i \in 1 .. n : r.asks[r.users[i]].n \in Int /\ r.asks[r.users[i]].time \in Nat
  PROVE  \E i : FirstWeakest(r, n, i)
<1> DEFINE Bad == {k \in Nat : k + 1 <= n /\ ~ \E i : FirstWeakest(r, k + 1, i)}
           K(i) == r.asks[r.users[i]]
<1>0. \A i \in 1 .. n : K(i).n \in Int /\ K(i).time \in Nat
  OBVIOUS
<1>1. Bad = {}
  <2> SUFFICES ASSUME Bad # {} PROVE FALSE
    OBVIOUS
  <2>1. PICK k \in Bad : \A m \in Bad : k <= m
    BY LeastNatural
  <2>2. k # 0
    <3> SUFFICES ASSUME k = 0 PROVE FALSE
      OBVIOUS
    <3>1. 1 \in 1 .. n
      OBVIOUS
    <3>2. K(1).n \in Int /\ K(1).time \in Nat
      BY <1>0, <3>1
    <3>3. ~ KeyLess(K(1), K(1))
      BY <3>2, KeyStrict
    <3>4. \A j \in 1 .. 1 : j = 1
      OBVIOUS
    <3>5. FirstWeakest(r, 1, 1)
      BY <3>3, <3>4 DEF FirstWeakest
    <3> QED BY <2>1, <3>5
  <2>3. k \in Nat /\ k + 1 <= n /\ k - 1 \in Nat /\ k - 1 + 1 = k /\ k <= n /\ k - 1 \notin Bad
    BY <2>1, <2>2
  <2>4. PICK i : FirstWeakest(r, k, i)
    BY <2>3
  <2>5. i \in 1 .. k /\ i \in 1 .. n /\ k + 1 \in 1 .. n
    BY <2>3, <2>4 DEF FirstWeakest
  <2>6. \A j \in 1 .. k : /\ j \in 1 .. n
                          /\ ~KeyLess(K(i), K(j))
                          /\ j < i => KeyLess(K(j), K(i))
    BY <2>3, <2>4 DEF FirstWeakest
  <2> HIDE DEF K
  <2>7. CASE KeyLess(K(i), K(k + 1))
    <3>1. \A j \in 1 .. k : KeyLess(K(j), K(k + 1))
      BY <1>0, <2>5, <2>6, <2>7, KeyOrder
    <3>2. ~ KeyLess(K(k + 1), K(k + 1))
      BY <1>0, <2>5, KeyStrict
    <3>3. ASSUME NEW j \in 1 .. k
          PROVE  ~ KeyLess(K(k + 1), K(j))
      <4>1. j \in 1 .. n /\ KeyLess(K(j), K(k + 1))
        BY <2>6, <3>1
      <4> QED BY <1>0, <2>5, <4>1, KeyAsymmetric
    <3>4. \A j \in 1 .. (k + 1) : j \in 1 .. k \/ j = k + 1
      BY <2>3
    <3>5. \A j \in 1 .. (k + 1) : /\ ~KeyLess(K(k + 1), K(j))
                                  /\ j < k + 1 => KeyLess(K(j), K(k + 1))
      BY <3>1, <3>2, <3>3, <3>4, <2>3
    <3>6. k + 1 \in 1 .. (k + 1)
      BY <2>3
    <3>7. FirstWeakest(r, k + 1, k + 1)
      BY <3>5, <3>6 DEF FirstWeakest, K
    <3> QED BY <2>1, <3>7
  <2>8. CASE ~ KeyLess(K(i), K(k + 1))
    <3>1. \A j \in 1 .. (k + 1) : j \in 1 .. k \/ (j = k + 1 /\ ~ (j < i))
      BY <2>3, <2>5
    <3>2. \A j \in 1 .. (k + 1) : /\ ~KeyLess(K(i), K(j))
                                  /\ j < i => KeyLess(K(j), K(i))
      BY <2>6, <2>8, <3>1
    <3>3. i \in 1 .. (k + 1)
      BY <2>3, <2>5
    <3>4. FirstWeakest(r, k + 1, i)
      BY <3>2, <3>3 DEF FirstWeakest, K
    <3> QED BY <2>1, <3>4
  <2> QED BY <2>7, <2>8
<1>2. n - 1 \in Nat /\ n - 1 + 1 = n /\ n - 1 \notin Bad
  BY <1>1
<1> QED BY <1>2

LEMMA WeakestIsHolder ==
  ASSUME NEW s, NEW r, ResOK(s, r), Len(r.users) >= r.capacity
  PROVE  /\ Weakest(r) \in Range(r.users)
         /\ r.asks[Weakest(r)].proc \in {None} \cup Processes(s)
<1>1. /\ r.users \in Seq(Nat) /\ Range(r.users) \subseteq GrantedOf(s, "put") /\ r.capacity \in Nat \ {0}
  BY DEF ResOK, HoldersOK
<1>2. DOMAIN r.users = 1 .. Len(r.users) /\ Len(r.users) \in Nat \ {0}
  BY <1>1
<1>3. \A e \in Range(r.users) : e \in RequestsIn(s)
  BY <1>1 DEF GrantedOf, RequestsIn, IsRequest, RequestTypes
<1>4. \A i \in 1 .. Len(r.users) : r.users[i] \in Range(r.users)
  BY <1>2 DEF Range
<1>5. AsksOK(s, r)
  BY DEF ResOK
<1>6. \A i \in 1 .. Len(r.users) : /\ r.asks[r.users[i]].n \in Int
                                  /\ r.asks[r.users[i]].time \in Nat
  BY <1>3, <1>4, <1>5 DEF AsksOK
<1> DEFINE First(i) == \A j \in DOMAIN r.users :
                          /\ ~KeyLess(r.asks[r.users[i]], r.asks[r.users[j]])
                          /\ j < i => KeyLess(r.asks[r.users[j]], r.asks[r.users[i]])
<1>7. \E i \in DOMAIN r.users : First(i)
  <2>1. PICK i : FirstWeakest(r, Len(r.users), i)
    BY <1>2, <1>6, FirstWeakestExists
  <2> QED BY <1>2, <2>1 DEF FirstWeakest
<1>8. Weakest(r) = r.users[CHOOSE i \in DOMAIN r.users : First(i)]
  BY DEF Weakest
<1> HIDE DEF First
<1>9. (CHOOSE i \in DOMAIN r.users : First(i)) \in DOMAIN r.users
  BY <1>7
<1>10. Weakest(r) \in Range(r.users)
  BY <1>2, <1>4, <1>8, <1>9
<1>11. r.asks[Weakest(r)].proc \in {None} \cup Processes(s)
  BY <1>3, <1>5, <1>10 DEF AsksOK
<1> QED BY <1>10, <1>11

WorldOK(w) == IsWorld(w) /\ SimOK(w.sim) /\ ResOK(w.sim, w.res)

\* From b to s this has been scheduled.
NewlyDue(b, s, task) == \E i \in DOMAIN s.queue \ DOMAIN b.queue : s.queue[i].task = task

LEMMA InterruptQuiet ==
  ASSUME NEW s, SimOK(s), NEW p \in Processes(s), NEW t, t = Interrupted(s, p)
  PROVE  Quiet(s, t) /\ SimOK(t) /\ t.events = s.events /\ NewlyDue(s, t, Call("interrupt", p))
<1>1. s \in SimType
  BY DEF SimOK
<1> DEFINE entry == [at |-> Plus(s.now, 0), prio |-> URGENT, task |-> Call("interrupt", p)]
<1>2. t = [s EXCEPT !.queue = Append(@, entry)]
  BY DEF Interrupted, Schedule
<1>3. p \in Nat
  BY <1>1, SimFields DEF Processes
<1>4. /\ Call("interrupt", p) \in CallType
      /\ Call("interrupt", p).do = "interrupt" /\ Call("interrupt", p).of = p
  BY <1>3 DEF Call, CallType
<1>5. entry \in EntryType /\ Plus(s.now, 0) = s.now /\ s.now >= s.now
  BY <1>1, <1>4, TimesAreNatural, EntryFits
<1>6. EntryOK(s, entry) /\ entry.task.do \in {"event", "interrupt"}
  BY <1>4, <1>5 DEF EntryOK
<1>7. entry.task = Call("interrupt", p)
  OBVIOUS
<1> HIDE DEF entry
<1>8. Quiet(s, t) /\ NewlyDue(s, t, Call("interrupt", p))
  <2>1. Quiet(s, t)
    BY <1>2, <1>5, <1>6, QuietEntry
  <2>2. t.queue = Append(s.queue, entry) /\ s.queue \in Seq(EntryType)
    BY <1>1, <1>2 DEF SimType
  <2>3. Len(t.queue) \in DOMAIN t.queue \ DOMAIN s.queue /\ t.queue[Len(t.queue)] = entry
    BY <1>5, <2>2
  <2> QED BY <1>7, <2>1, <2>3 DEF NewlyDue
<1>9. t.events = s.events
  BY <1>1, <1>2 DEF SimType
<1>10. SimOK(t)
  BY <1>8 DEF Quiet, Tame
<1> QED BY <1>8, <1>9, <1>10

\* Fewer holders, everything else as it was.
LEMMA FewerHolders ==
  ASSUME NEW s, SimOK(s), NEW t, SimOK(t), t.events = s.events, NEW r, ResOK(s, r), NEW q,
         Fixed(r, q), Stock(r, q), Queues(r, q),
         q.users \in Seq(Nat), IsInjective(q.users), Len(q.users) <= Len(r.users),
         Range(q.users) \subseteq Range(r.users)
  PROVE  ResOK(t, q)
<1>1. /\ RequestsIn(t) = RequestsIn(s) /\ Processes(t) = Processes(s)
      /\ \A type : GrantedOf(t, type) = GrantedOf(s, type)
  BY DEF RequestsIn, IsRequest, Processes, GrantedOf
<1>2. /\ AsksOK(s, r) /\ QueuesOK(s, r) /\ HoldersOK(s, r) /\ StockOK(s, r)
      /\ r.kind \in Kinds /\ r.capacity \in Nat \ {0} /\ r.initial \in Int
  BY DEF ResOK
<1>3. /\ q.kind = r.kind /\ q.capacity = r.capacity /\ q.initial = r.initial
      /\ q.asks = r.asks /\ q.gone = r.gone /\ IsRes(q)
  BY DEF Fixed
<1>4. AsksOK(t, q)
  BY <1>1, <1>2, <1>3 DEF AsksOK
<1>5. QueuesOK(t, q)
  <2>1. QueueOK(t, q.putQueue, "put") /\ QueueOK(t, q.getQueue, "get")
    BY <1>2 DEF QueuesOK, QueueOK, Queues
  <2> QED BY <1>1, <1>2, <1>3, <2>1 DEF QueuesOK, Queues
<1>6. HoldersOK(t, q)
  <2>1. Len(q.users) <= q.capacity
    <3>1. Len(q.users) \in Nat /\ Len(r.users) \in Nat /\ Len(r.users) <= r.capacity
      BY <1>2 DEF HoldersOK
    <3> QED BY <1>2, <1>3, <3>1
  <2> QED BY <1>1, <1>2, <2>1 DEF HoldersOK
<1>7. StockOK(t, q)
  <2>1. \A type \in RequestTypes : Total(Amounts(t, q, type)) = Total(Amounts(s, r, type))
    BY <1>1, <1>2, <1>3, <1>4, AmountsStay
  <2>2. "put" \in RequestTypes /\ "get" \in RequestTypes
    BY DEF RequestTypes
  <2>3. LevelOK(s, r) => LevelOK(t, q)
    BY <1>3, <2>1, <2>2 DEF LevelOK, Stock
  <2>4. ItemsOK(s, r) => ItemsOK(t, q)
    BY <1>1, <1>3 DEF ItemsOK, Stock
  <2> QED BY <1>2, <1>3, <2>3, <2>4 DEF StockOK, Slots
<1> QED BY <1>2, <1>3, <1>4, <1>5, <1>6, <1>7 DEF ResOK

\* Whoever lost its slot from r to q has had an interruption scheduled from b to s.
Told(r, b, s, q) ==
  \A x \in Range(r.users) \ Range(q.users) :
    NewlyDue(b, s, Call("interrupt", r.asks[x].proc)) \/ q.mishap

LEMMA Preempting ==
  ASSUME NEW w, WorldOK(w), ~ w.raised, NEW e, NEW v, v = Preempt(w, e)
  PROVE  /\ WorldOK(v) /\ Quiet(w.sim, v.sim) /\ v.sim.events = w.sim.events
         /\ Fixed(w.res, v.res) /\ Stock(w.res, v.res) /\ Queues(w.res, v.res)
         /\ (v.raised => v.sim = w.sim)
         /\ Told(w.res, w.sim, v.sim, v.res)
<1> DEFINE r == w.res
           victim == Weakest(r)
           proc == r.asks[victim].proc
           users == RemoveFirst(r.users, victim)
           fewer == [r EXCEPT !.users = users]
           Stays == Len(r.users) < r.capacity \/ ~r.asks[e].preempt
                      \/ ~KeyLess(r.asks[e], r.asks[victim])
<1>1. IsWorld(w) /\ SimOK(w.sim) /\ ResOK(w.sim, r) /\ IsRes(r) /\ w = [sim |-> w.sim, res |-> r, raised |-> w.raised]
  BY DEF WorldOK, ResOK, IsWorld
<1>2. CASE Stays
  <2>1. v = w
    BY <1>2 DEF Preempt
  <2>2. Fixed(r, r) /\ Stock(r, r) /\ Queues(r, r)
    BY <1>1 DEF Fixed, Stock, Queues
  <2>3. Quiet(w.sim, w.sim)
    BY <1>1, QuietNothing
  <2>4. Told(r, w.sim, w.sim, r)
    BY DEF Told
  <2>5. ~ v.raised
    BY <2>1
  <2> QED BY <2>1, <2>2, <2>3, <2>4, <2>5
<1>3. CASE ~ Stays
  <2>1. /\ r.users \in Seq(Nat) /\ IsInjective(r.users) /\ r.capacity \in Nat
        /\ Len(r.users) \in Nat
    BY <1>1 DEF ResOK, HoldersOK
  <2>2. Len(r.users) >= r.capacity
    BY <1>3, <2>1
  <2>3. victim \in Range(r.users) /\ proc \in {None} \cup Processes(w.sim)
    BY <1>1, <2>2, WeakestIsHolder
  <2>4. /\ users \in Seq(Nat) /\ IsInjective(users) /\ Len(users) <= Len(r.users)
        /\ Range(users) = Range(r.users) \ {victim}
    BY <2>1, RemoveId
  <2>5. Range(r.users) \ Range(users) \subseteq {victim}
    BY <2>4
  <2> HIDE DEF victim, users, Stays
  <2>6. Fixed(r, fewer) /\ Stock(r, fewer) /\ Queues(r, fewer) /\ fewer.users = users
    BY <1>1, SetUsers
  <2>7. CASE proc # None /\ MayInterrupt(w.sim, proc)
    <3>1. v = [sim |-> Interrupted(w.sim, proc), res |-> fewer, raised |-> w.raised]
      <4>1. v = [[w EXCEPT !.res.users = RemoveFirst(@, victim)] EXCEPT !.sim = Interrupted(@, proc)]
        BY <1>3, <2>7 DEF Preempt, Stays, victim
      <4>2. [w EXCEPT !.res.users = RemoveFirst(@, victim)] = [sim |-> w.sim, res |-> fewer, raised |-> w.raised]
        BY <1>1 DEF users
      <4> QED BY <4>1, <4>2
    <3>2. PICK t : t = Interrupted(w.sim, proc)
      OBVIOUS
    <3>3. /\ Quiet(w.sim, t) /\ SimOK(t) /\ t.events = w.sim.events
          /\ NewlyDue(w.sim, t, Call("interrupt", proc))
      BY <1>1, <2>3, <2>7, <3>2, InterruptQuiet
    <3>4. v.sim = t /\ v.res = fewer /\ IsWorld(v)
      BY <3>1, <3>2 DEF IsWorld
    <3>6. ~ v.raised
      BY <3>1
    <3>7. ResOK(t, fewer)
      <4>1. PICK q : q = fewer
        OBVIOUS
      <4>2. Fixed(r, q) /\ Stock(r, q) /\ Queues(r, q) /\ q.users = users
        BY <2>6, <4>1
      <4>3. ResOK(t, q)
        BY <1>1, <2>4, <3>3, <4>2, FewerHolders
      <4> QED BY <4>1, <4>3
    <3>8. Told(r, w.sim, t, fewer)
      BY <2>5, <2>6, <3>3 DEF Told
    <3> HIDE DEF fewer, proc, r
    <3>9. WorldOK(v)
      BY <3>3, <3>4, <3>7 DEF WorldOK
    <3> QED BY <2>6, <3>3, <3>4, <3>6, <3>8, <3>9 DEF r
  <2>8. CASE ~ (proc # None /\ MayInterrupt(w.sim, proc))
    <3> DEFINE spoilt == [fewer EXCEPT !.mishap = TRUE]
    <3>1. v = [sim |-> w.sim, res |-> spoilt, raised |-> TRUE]
      <4>1. v = [[w EXCEPT !.res.users = RemoveFirst(@, victim)] EXCEPT !.raised = TRUE, !.res.mishap = TRUE]
        BY <1>3, <2>8 DEF Preempt, Stays, victim
      <4>2. [w EXCEPT !.res.users = RemoveFirst(@, victim)] = [sim |-> w.sim, res |-> fewer, raised |-> w.raised]
        BY <1>1 DEF users
      <4> HIDE DEF fewer
      <4> QED BY <4>1, <4>2
    <3>2. v.sim = w.sim /\ v.res = spoilt /\ IsWorld(v)
      BY <3>1 DEF IsWorld
    <3> HIDE DEF fewer
    <3>4. IsRes(fewer)
      BY <2>6 DEF Fixed
    <3>5. Fixed(fewer, spoilt) /\ Stock(fewer, spoilt) /\ Queues(fewer, spoilt)
          /\ spoilt.users = fewer.users /\ spoilt.mishap = TRUE
      BY <3>4, SetMishap
    <3> HIDE DEF spoilt
    <3>6. Fixed(r, spoilt) /\ Stock(r, spoilt) /\ Queues(r, spoilt) /\ spoilt.users = users
      BY <2>6, <3>5 DEF Fixed, Stock, Queues
    <3>7. ResOK(w.sim, spoilt)
      BY <1>1, <2>4, <3>6, FewerHolders
    <3>8. Told(r, w.sim, w.sim, spoilt)
      BY <3>5 DEF Told
    <3>9. Quiet(w.sim, w.sim)
      BY <1>1, QuietNothing
    <3>10. WorldOK(v)
      BY <1>1, <3>2, <3>7 DEF WorldOK
    <3> QED BY <3>2, <3>6, <3>8, <3>9, <3>10
  <2> QED BY <2>7, <2>8
<1> QED BY <1>2, <1>3

-----------------------------------------------------------------------------
(* One request is served. *)

\* What is granted leaves its queue.
Dequeued(v, type, e) ==
  IF ~Granted(v, e) THEN v
  ELSE IF type = "put" THEN [v EXCEPT !.res.putQueue = RemoveFirst(@, e)]
  ELSE [v EXCEPT !.res.getQueue = RemoveFirst(@, e)]

LEMMA NotGranted ==
  ASSUME NEW w, WorldOK(w), NEW type \in RequestTypes, NEW e \in Range(QueueOf(w.res, type))
  PROVE  ~ Granted(w, e) /\ Dequeued(w, type, e) = w
<1>1. ResOK(w.sim, w.res)
  BY DEF WorldOK
<1>2. w.sim.events[e].state = "pending"
  BY <1>1, WaitingRequest
<1> QED BY <1>2 DEF Granted, Dequeued

\* u with the resource q and the grant of e; it is so before e leaves its queue.
GrantedWith(u, q, e) == [sim |-> Trigger(u.sim, e, "ok"), res |-> q, raised |-> u.raised]

\* Of all events, e alone may have got another state.
OnlyState(s, t, e) ==
  /\ DOMAIN t.events = DOMAIN s.events
  /\ \A f \in DOMAIN s.events : t.events[f].type = s.events[f].type
  /\ \A f \in DOMAIN s.events \ {e} : t.events[f].state = s.events[f].state

LEMMA GrantStep ==
  ASSUME NEW u, WorldOK(u), NEW type \in RequestTypes, NEW e \in Range(QueueOf(u.res, type)),
         NEW q, Fixed(u.res, q), Queues(u.res, q),
         HoldersFit(u.res, q, type, e), StockFits(u.res, q, type, e), q.mishap = u.res.mishap,
         NEW z, z = Dequeued(GrantedWith(u, q, e), type, e)
  PROVE  /\ WorldOK(z) /\ Quiet(u.sim, z.sim) /\ Fixed(u.res, z.res)
         /\ Granted(z, e)
         /\ z.res.users = q.users /\ z.res.mishap = u.res.mishap /\ (z.raised <=> u.raised)
         /\ LeftQueue(u.res, z.res, type, e) /\ OnlyState(u.sim, z.sim, e)
         /\ Range(QueueOf(z.res, type)) = Range(QueueOf(u.res, type)) \ {e}
<1>1. SimOK(u.sim) /\ ResOK(u.sim, u.res)
  BY DEF WorldOK
<1>2. PICK t : t = Trigger(u.sim, e, "ok")
  OBVIOUS
<1>3. PICK g : g = GrantedWith(u, q, e)
  OBVIOUS
<1>4. g = [sim |-> t, res |-> q, raised |-> u.raised] /\ g.sim = t /\ g.res = q /\ (g.raised <=> u.raised)
  BY <1>2, <1>3 DEF GrantedWith
<1>5. t.events[e].state = "ok" /\ SimOK(t)
  BY <1>1, <1>2, GrantedGrow
<1>6. Granted(g, e)
  BY <1>4, <1>5 DEF Granted
<1>7. IsRes(q)
  BY DEF Fixed
<1>8. PICK p : p = IF type = "put" THEN [q EXCEPT !.putQueue = RemoveFirst(q.putQueue, e)]
                                   ELSE [q EXCEPT !.getQueue = RemoveFirst(q.getQueue, e)]
  OBVIOUS
<1>9. z = [sim |-> t, res |-> p, raised |-> u.raised]
  BY <1>3, <1>4, <1>6, <1>8 DEF Dequeued
<1>10. z.sim = t /\ z.res = p /\ IsWorld(z) /\ (z.raised <=> u.raised)
  BY <1>9 DEF IsWorld
<1>11. /\ Fixed(q, p) /\ Stock(q, p) /\ p.users = q.users /\ p.mishap = q.mishap
       /\ p.putQueue = IF type = "put" THEN RemoveFirst(q.putQueue, e) ELSE q.putQueue
       /\ p.getQueue = IF type = "put" THEN q.getQueue ELSE RemoveFirst(q.getQueue, e)
  <2>1. CASE type = "put"
    BY <1>7, <1>8, <2>1, SetPutQueue
  <2>2. CASE type # "put"
    BY <1>7, <1>8, <2>2, SetGetQueue
  <2> QED BY <2>1, <2>2
<1>12. Fixed(u.res, p)
  BY <1>11 DEF Fixed
<1>13. LeftQueue(u.res, p, type, e)
  BY <1>11 DEF LeftQueue, Queues
<1>14. HoldersFit(u.res, p, type, e)
  BY <1>11 DEF HoldersFit
<1>15. StockFits(u.res, p, type, e)
  BY <1>11 DEF StockFits, Stock
<1>16. ResOK(t, p) /\ Quiet(u.sim, t) /\ Range(QueueOf(p, type)) = Range(QueueOf(u.res, type)) \ {e}
  BY <1>1, <1>2, <1>12, <1>13, <1>14, <1>15, Granting
<1>17. Granted(z, e)
  BY <1>5, <1>10 DEF Granted
<1>18. OnlyState(u.sim, t, e)
  BY <1>1, <1>2, GrantedGrow DEF OnlyState
<1> QED BY <1>5, <1>10, <1>11, <1>12, <1>13, <1>16, <1>17, <1>18 DEF WorldOK

\* What serving the request e of the world w may come to.
ServedOne(w, type, e, v) ==
  /\ WorldOK(v) /\ Quiet(w.sim, v.sim) /\ Fixed(w.res, v.res)
  /\ Range(QueueOf(w.res, type)) \ {e} \subseteq Range(QueueOf(v.res, type))
  /\ v.raised => v.sim = w.sim /\ w.res.kind = "preemptive" /\ type = "put"
  /\ type = "put" => Told(w.res, w.sim, v.sim, v.res)
  /\ type = "get" => Range(w.res.users) \ Range(v.res.users) \subseteq {w.res.asks[e].of}
  /\ ~ Slots(w.res) \/ (type = "put" /\ w.res.kind # "preemptive") =>
       Range(w.res.users) \subseteq Range(v.res.users)
  /\ Slots(w.res) /\ type = "get" => Granted(v, e)
  /\ Granted(v, e) => Range(QueueOf(v.res, type)) = Range(QueueOf(w.res, type)) \ {e}
  /\ IF Granted(v, e) THEN LeftQueue(w.res, v.res, type, e) ELSE Queues(w.res, v.res)
  /\ OnlyState(w.sim, v.sim, e)

\* Nothing is done.
LEMMA ServedNothing ==
  ASSUME NEW w, WorldOK(w), ~ w.raised, NEW type \in RequestTypes, NEW e \in Range(QueueOf(w.res, type)),
         ~ (Slots(w.res) /\ type = "get")
  PROVE  ServedOne(w, type, e, Dequeued(w, type, e))
<1>1. ~ Granted(w, e) /\ Dequeued(w, type, e) = w
  BY NotGranted
<1>2. Quiet(w.sim, w.sim)
  BY QuietNothing DEF WorldOK
<1>3. Fixed(w.res, w.res)
  BY DEF WorldOK, ResOK, Fixed
<1>4. Told(w.res, w.sim, w.sim, w.res)
  BY DEF Told
<1>5. Queues(w.res, w.res) /\ OnlyState(w.sim, w.sim, e)
  BY DEF Queues, OnlyState
<1> QED BY <1>1, <1>2, <1>3, <1>4, <1>5 DEF ServedOne

LEMMA SlotTaken ==
  ASSUME NEW w, WorldOK(w), ~ w.raised, NEW e \in Range(w.res.putQueue), Slots(w.res),
         NEW u, WorldOK(u), Quiet(w.sim, u.sim), u.sim.events = w.sim.events,
         Fixed(w.res, u.res), Queues(w.res, u.res),
         u.raised => u.sim = w.sim /\ w.res.kind = "preemptive",
         Told(w.res, w.sim, u.sim, u.res),
         w.res.kind # "preemptive" => Range(w.res.users) \subseteq Range(u.res.users),
         NEW z, z = Dequeued(TakeSlot(u, e), "put", e)
  PROVE  ServedOne(w, "put", e, z)
<1>1. "put" \in RequestTypes
  BY DEF RequestTypes
<1>2. QueueOf(w.res, "put") = w.res.putQueue /\ QueueOf(u.res, "put") = u.res.putQueue
      /\ u.res.putQueue = w.res.putQueue
  BY DEF QueueOf, Queues
<1>3. CASE TakeSlot(u, e) = u
  <2>1. ~ Granted(u, e) /\ z = u
    BY <1>1, <1>2, <1>3, NotGranted
  <2>2. OnlyState(w.sim, u.sim, e)
    BY DEF OnlyState
  <2> QED BY <1>2, <2>1, <2>2 DEF ServedOne
<1>4. CASE ~ (u.raised \/ Len(u.res.users) >= u.res.capacity)
  <2> DEFINE q == [u.res EXCEPT !.users = Append(u.res.users, e)]
  <2>1. /\ IsWorld(u) /\ SimOK(u.sim) /\ ResOK(u.sim, u.res) /\ IsRes(u.res)
        /\ u = [sim |-> u.sim, res |-> u.res, raised |-> u.raised]
    BY DEF WorldOK, ResOK, IsWorld
  <2>2. TakeSlot(u, e) = GrantedWith(u, q, e)
    <3>1. [u EXCEPT !.res.users = Append(@, e)] = [sim |-> u.sim, res |-> q, raised |-> u.raised]
      <4>1. [u EXCEPT !.res.users = Append(@, e)] = [u EXCEPT !.res = q]
        OBVIOUS
      <4> HIDE DEF q
      <4>2. [u EXCEPT !.res = q] = [sim |-> u.sim, res |-> q, raised |-> u.raised]
        BY <2>1 DEF IsWorld
      <4> QED BY <4>1, <4>2
    <3>2. TakeSlot(u, e) = Grant([u EXCEPT !.res.users = Append(@, e)], e)
      BY <1>4 DEF TakeSlot
    <3> HIDE DEF q
    <3>3. Grant([sim |-> u.sim, res |-> q, raised |-> u.raised], e) = GrantedWith(u, q, e)
      BY <2>1, GrantWorld DEF GrantedWith
    <3> QED BY <3>1, <3>2, <3>3
  <2>3. /\ Fixed(u.res, q) /\ Stock(u.res, q) /\ Queues(u.res, q)
        /\ q.users = Append(u.res.users, e) /\ q.mishap = u.res.mishap
    BY <2>1, SetUsers
  <2> HIDE DEF q
  <2>4. /\ u.res.users \in Seq(Nat) /\ IsInjective(u.res.users) /\ u.res.capacity \in Nat
        /\ Len(u.res.users) \in Nat
    BY <2>1 DEF ResOK, HoldersOK
  <2>5. e \in Nat \ Range(u.res.users)
    <3>1. e \in DOMAIN u.sim.events /\ e \notin Range(u.res.users)
      BY <1>1, <1>2, <2>1, WaitingRequest
    <3>2. e \in Nat
      BY <2>1, <3>1, SimFields DEF SimOK
    <3> QED BY <3>1, <3>2
  <2>6. /\ q.users \in Seq(Nat) /\ IsInjective(q.users)
        /\ Range(q.users) = Range(u.res.users) \cup {e}
        /\ Len(q.users) = Len(u.res.users) + 1
    BY <2>3, <2>4, <2>5, AppendId
  <2>7. Len(q.users) <= u.res.capacity
    BY <1>4, <2>4, <2>6
  <2>8. HoldersFit(u.res, q, "put", e)
    BY <2>6, <2>7 DEF HoldersFit
  <2>9. u.res.kind = w.res.kind /\ u.res.asks = w.res.asks
    BY DEF Fixed
  <2>10. StockFits(u.res, q, "put", e)
    BY <2>9 DEF StockFits, Slots
  <2>11. /\ WorldOK(z) /\ Quiet(u.sim, z.sim) /\ Fixed(u.res, z.res)
         /\ Granted(z, e)
         /\ z.res.users = q.users /\ z.res.mishap = u.res.mishap /\ (z.raised <=> u.raised)
         /\ Range(QueueOf(z.res, "put")) = Range(QueueOf(u.res, "put")) \ {e}
         /\ LeftQueue(u.res, z.res, "put", e) /\ OnlyState(u.sim, z.sim, e)
    <3>1. e \in Range(QueueOf(u.res, "put")) /\ z = Dequeued(GrantedWith(u, q, e), "put", e)
      BY <1>2, <2>2
    <3>2. PICK q1 : q1 = q
      OBVIOUS
    <3>3. /\ z = Dequeued(GrantedWith(u, q1, e), "put", e)
          /\ Fixed(u.res, q1) /\ Queues(u.res, q1)
          /\ HoldersFit(u.res, q1, "put", e) /\ StockFits(u.res, q1, "put", e)
          /\ q1.mishap = u.res.mishap /\ q1.users = q.users
      BY <2>3, <2>8, <2>10, <3>1, <3>2
    <3> QED BY <1>1, <3>1, <3>3, GrantStep
  <2>12. Quiet(w.sim, z.sim)
    <3>1. SimOK(w.sim)
      BY DEF WorldOK
    <3> QED BY <2>11, <3>1, TameTrans DEF Quiet
  <2>13. Fixed(w.res, z.res)
    BY <2>11 DEF Fixed
  <2>14. Told(w.res, w.sim, z.sim, z.res)
    <3> SUFFICES ASSUME NEW x \in Range(w.res.users) \ Range(z.res.users)
                 PROVE  NewlyDue(w.sim, z.sim, Call("interrupt", w.res.asks[x].proc)) \/ z.res.mishap
      BY DEF Told
    <3>1. x \in Range(w.res.users) \ Range(u.res.users)
      BY <2>6, <2>11
    <3>2. CASE NewlyDue(w.sim, u.sim, Call("interrupt", w.res.asks[x].proc))
      <4>1. QueueGrows(u.sim, z.sim) /\ u.sim \in SimType /\ z.sim \in SimType
        BY <2>1, <2>11 DEF Quiet, Tame, SimOK, WorldOK
      <4> QED BY <3>2, <4>1, SimFields DEF QueueGrows, NewlyDue
    <3>3. CASE u.res.mishap
      BY <2>11, <3>3
    <3> QED BY <3>1, <3>2, <3>3 DEF Told
  <2>15. w.res.kind # "preemptive" => Range(w.res.users) \subseteq Range(z.res.users)
    BY <2>6, <2>11
  <2>16. ~ z.raised
    BY <1>4, <2>11
  <2>17. LeftQueue(w.res, z.res, "put", e) /\ OnlyState(w.sim, z.sim, e)
    BY <2>11 DEF LeftQueue, OnlyState, Queues
  <2> QED BY <1>2, <2>11, <2>12, <2>13, <2>14, <2>15, <2>16, <2>17 DEF ServedOne
<1>5. TakeSlot(u, e) = u \/ ~ (u.raised \/ Len(u.res.users) >= u.res.capacity)
  BY DEF TakeSlot
<1> QED BY <1>3, <1>4, <1>5

\* The request is granted with the resource q; only a release frees a slot.
LEMMA ServedBy ==
  ASSUME NEW w, WorldOK(w), ~ w.raised, NEW type \in RequestTypes, NEW e \in Range(QueueOf(w.res, type)),
         NEW q, Fixed(w.res, q), Queues(w.res, q), q.mishap = w.res.mishap,
         HoldersFit(w.res, q, type, e), StockFits(w.res, q, type, e),
         Range(w.res.users) \ Range(q.users) \subseteq {w.res.asks[e].of},
         type = "put" \/ ~ Slots(w.res) => q.users = w.res.users,
         NEW x, x = GrantedWith(w, q, e)
  PROVE  ServedOne(w, type, e, Dequeued(x, type, e))
<1>1. PICK z : z = Dequeued(x, type, e)
  OBVIOUS
<1>2. /\ WorldOK(z) /\ Quiet(w.sim, z.sim) /\ Fixed(w.res, z.res)
      /\ Granted(z, e)
      /\ z.res.users = q.users /\ (z.raised <=> w.raised)
      /\ Range(QueueOf(z.res, type)) = Range(QueueOf(w.res, type)) \ {e}
      /\ LeftQueue(w.res, z.res, type, e) /\ OnlyState(w.sim, z.sim, e)
  BY <1>1, GrantStep
<1>3. type = "put" => Told(w.res, w.sim, z.sim, z.res)
  BY <1>2 DEF Told
<1> QED BY <1>1, <1>2, <1>3 DEF ServedOne

LEMMA WorldFields ==
  ASSUME NEW w, WorldOK(w)
  PROVE  /\ SimOK(w.sim) /\ ResOK(w.sim, w.res) /\ IsRes(w.res)
         /\ w = [sim |-> w.sim, res |-> w.res, raised |-> w.raised]
         /\ w.res.users \in Seq(Nat) /\ IsInjective(w.res.users)
         /\ Len(w.res.users) <= w.res.capacity /\ w.res.capacity \in Nat \ {0}
BY DEF WorldOK, ResOK, IsWorld, HoldersOK

LEMMA FillServes ==
  ASSUME NEW w, WorldOK(w), ~ w.raised, NEW e \in Range(w.res.putQueue), w.res.kind = "container"
  PROVE  ServedOne(w, "put", e, Dequeued(Fill(w, e), "put", e))
<1>1. "put" \in RequestTypes /\ QueueOf(w.res, "put") = w.res.putQueue /\ ~ Slots(w.res)
  BY DEF RequestTypes, QueueOf, Slots
<1>2. CASE Fill(w, e) = w
  BY <1>1, <1>2, ServedNothing
<1>3. CASE ~ (w.res.capacity - w.res.level < w.res.asks[e].n)
  <2>0. PICK y : y = w.res.level + w.res.asks[e].n
    OBVIOUS
  <2>1. PICK q : q = [w.res EXCEPT !.level = y]
    OBVIOUS
  <2>2. Fill(w, e) = GrantedWith(w, q, e)
    <3>1. Fill(w, e) = Grant([w EXCEPT !.res.level = @ + w.res.asks[e].n], e)
      BY <1>3 DEF Fill
    <3>2. [w EXCEPT !.res.level = @ + w.res.asks[e].n] = [sim |-> w.sim, res |-> q, raised |-> w.raised]
      BY <2>0, <2>1, WorldFields
    <3>3. IsWorld(w)
      BY DEF WorldOK
    <3> QED BY <3>1, <3>2, <3>3, GrantWorld DEF GrantedWith
  <2>3. /\ Fixed(w.res, q) /\ Queues(w.res, q) /\ q.users = w.res.users /\ q.mishap = w.res.mishap
        /\ q.level = w.res.level + w.res.asks[e].n
    <3>1. IsRes(w.res)
      BY WorldFields
    <3> QED BY <2>0, <2>1, <3>1, SetLevel
  <2>4. HoldersFit(w.res, q, "put", e)
    BY <2>3, WorldFields DEF HoldersFit
  <2>5. StockFits(w.res, q, "put", e)
    <3>1. w.res.level \in 0 .. w.res.capacity
      BY WorldFields DEF ResOK, StockOK, Slots, LevelOK
    <3>2. w.res.asks[e].n \in Nat
      BY <1>1, WorldFields, WaitingRequest
    <3>3. w.res.level + w.res.asks[e].n \in 0 .. w.res.capacity
      BY <1>3, <3>1, <3>2, WorldFields
    <3> QED BY <2>3, <3>3 DEF StockFits
  <2> QED BY <1>1, <2>2, <2>3, <2>4, <2>5, ServedBy
<1> QED BY <1>2, <1>3 DEF Fill

LEMMA DrawServes ==
  ASSUME NEW w, WorldOK(w), ~ w.raised, NEW e \in Range(w.res.getQueue), w.res.kind = "container"
  PROVE  ServedOne(w, "get", e, Dequeued(Draw(w, e), "get", e))
<1>1. "get" \in RequestTypes /\ QueueOf(w.res, "get") = w.res.getQueue /\ ~ Slots(w.res)
  BY DEF RequestTypes, QueueOf, Slots
<1>2. CASE Draw(w, e) = w
  BY <1>1, <1>2, ServedNothing
<1>3. CASE ~ (w.res.level < w.res.asks[e].n)
  <2>0. PICK y : y = w.res.level - w.res.asks[e].n
    OBVIOUS
  <2>1. PICK q : q = [w.res EXCEPT !.level = y]
    OBVIOUS
  <2>2. Draw(w, e) = GrantedWith(w, q, e)
    <3>1. Draw(w, e) = Grant([w EXCEPT !.res.level = @ - w.res.asks[e].n], e)
      BY <1>3 DEF Draw
    <3>2. [w EXCEPT !.res.level = @ - w.res.asks[e].n] = [sim |-> w.sim, res |-> q, raised |-> w.raised]
      BY <2>0, <2>1, WorldFields
    <3>3. IsWorld(w)
      BY DEF WorldOK
    <3> QED BY <3>1, <3>2, <3>3, GrantWorld DEF GrantedWith
  <2>3. /\ Fixed(w.res, q) /\ Queues(w.res, q) /\ q.users = w.res.users /\ q.mishap = w.res.mishap
        /\ q.level = w.res.level - w.res.asks[e].n
    <3>1. IsRes(w.res)
      BY WorldFields
    <3> QED BY <2>0, <2>1, <3>1, SetLevel
  <2>4. HoldersFit(w.res, q, "get", e)
    BY <2>3, WorldFields DEF HoldersFit
  <2>5. StockFits(w.res, q, "get", e)
    <3>1. w.res.level \in 0 .. w.res.capacity
      BY WorldFields DEF ResOK, StockOK, Slots, LevelOK
    <3>2. w.res.asks[e].n \in Nat
      BY <1>1, WorldFields, WaitingRequest
    <3>3. w.res.level - w.res.asks[e].n \in 0 .. w.res.capacity
      BY <1>3, <3>1, <3>2, WorldFields
    <3> QED BY <2>3, <3>3 DEF StockFits
  <2> QED BY <1>1, <2>2, <2>3, <2>4, <2>5, ServedBy
<1> QED BY <1>2, <1>3 DEF Draw

LEMMA AddItemServes ==
  ASSUME NEW w, WorldOK(w), ~ w.raised, NEW e \in Range(w.res.putQueue),
         ~ Slots(w.res), w.res.kind # "container"
  PROVE  ServedOne(w, "put", e, Dequeued(AddItem(w, e), "put", e))
<1>1. "put" \in RequestTypes /\ QueueOf(w.res, "put") = w.res.putQueue
  BY DEF RequestTypes, QueueOf
<1>2. CASE AddItem(w, e) = w
  BY <1>1, <1>2, ServedNothing
<1>3. CASE ~ (Len(w.res.items) >= w.res.capacity)
  <2>0. PICK y : y = Append(w.res.items, w.res.asks[e].n)
    OBVIOUS
  <2>1. PICK q : q = [w.res EXCEPT !.items = y]
    OBVIOUS
  <2>2. AddItem(w, e) = GrantedWith(w, q, e)
    <3>1. AddItem(w, e) = Grant([w EXCEPT !.res.items = Append(@, w.res.asks[e].n)], e)
      BY <1>3 DEF AddItem
    <3>2. [w EXCEPT !.res.items = Append(@, w.res.asks[e].n)] = [sim |-> w.sim, res |-> q, raised |-> w.raised]
      <4>1. [w EXCEPT !.res.items = Append(@, w.res.asks[e].n)] = [w EXCEPT !.res = q]
        BY <2>0, <2>1
      <4> QED BY <4>1, SetWorld DEF WorldOK
    <3>3. IsWorld(w)
      BY DEF WorldOK
    <3> QED BY <3>1, <3>2, <3>3, GrantWorld DEF GrantedWith
  <2>3. /\ Fixed(w.res, q) /\ Queues(w.res, q) /\ q.users = w.res.users /\ q.mishap = w.res.mishap
        /\ q.items = Append(w.res.items, w.res.asks[e].n)
    <3>1. IsRes(w.res)
      BY WorldFields
    <3>2. /\ Fixed(w.res, q) /\ Queues(w.res, q) /\ q.users = w.res.users /\ q.mishap = w.res.mishap
          /\ q.items = y
      BY <2>1, <3>1, SetItems
    <3> QED BY <2>0, <3>2
  <2>4. HoldersFit(w.res, q, "put", e)
    BY <2>3, WorldFields DEF HoldersFit
  <2>5. StockFits(w.res, q, "put", e)
    <3>1. w.res.items \in Seq(Int)
      BY WorldFields DEF ResOK, StockOK, ItemsOK
    <3>2. w.res.asks[e].n \in Int
      BY <1>1, WorldFields, WaitingRequest
    <3>3. q.items \in Seq(Int) /\ Len(q.items) = Len(w.res.items) + 1 /\ Len(w.res.items) \in Nat
      BY <2>3, <3>1, <3>2
    <3>4. Len(q.items) <= w.res.capacity
      BY <1>3, <3>3, WorldFields
    <3> QED BY <3>3, <3>4 DEF StockFits
  <2> QED BY <1>1, <2>2, <2>3, <2>4, <2>5, ServedBy
<1> QED BY <1>2, <1>3 DEF AddItem

LEMMA HandOverServes ==
  ASSUME NEW w, WorldOK(w), ~ w.raised, NEW e \in Range(w.res.getQueue),
         ~ Slots(w.res), w.res.kind # "container"
  PROVE  ServedOne(w, "get", e, Dequeued(HandOver(w, e), "get", e))
<1>1. "get" \in RequestTypes /\ QueueOf(w.res, "get") = w.res.getQueue
  BY DEF RequestTypes, QueueOf
<1>2. PICK chosen : chosen = Eligible(w.res, w.res.asks[e].n)
  OBVIOUS
<1>3. CASE chosen = {}
  <2>1. HandOver(w, e) = w
    BY <1>2, <1>3 DEF HandOver
  <2> QED BY <1>1, <2>1, ServedNothing
<1>4. CASE chosen # {}
  <2>1. PICK i : i = CHOOSE j \in chosen : TRUE
    OBVIOUS
  <2>2. chosen \subseteq DOMAIN w.res.items
    BY <1>2 DEF Eligible
  <2>3. i \in DOMAIN w.res.items
    BY <1>4, <2>1, <2>2
  <2>0. PICK y : y = RemoveAt(w.res.items, i)
    OBVIOUS
  <2>4. PICK q : q = [w.res EXCEPT !.items = y]
    OBVIOUS
  <2>5. HandOver(w, e) = GrantedWith(w, q, e)
    <3>1. HandOver(w, e) = Grant([w EXCEPT !.res.items = RemoveAt(@, i)], e)
      BY <1>2, <1>4, <2>1 DEF HandOver
    <3>2. [w EXCEPT !.res.items = RemoveAt(@, i)] = [sim |-> w.sim, res |-> q, raised |-> w.raised]
      BY <2>0, <2>4, WorldFields
    <3>3. IsWorld(w)
      BY DEF WorldOK
    <3> QED BY <3>1, <3>2, <3>3, GrantWorld DEF GrantedWith
  <2>6. /\ Fixed(w.res, q) /\ Queues(w.res, q) /\ q.users = w.res.users /\ q.mishap = w.res.mishap
        /\ q.items = RemoveAt(w.res.items, i)
    <3>1. IsRes(w.res)
      BY WorldFields
    <3> QED BY <2>0, <2>4, <3>1, SetItems
  <2>7. HoldersFit(w.res, q, "get", e)
    BY <2>6, WorldFields DEF HoldersFit
  <2>8. StockFits(w.res, q, "get", e)
    <3>1. w.res.items \in Seq(Int) /\ Len(w.res.items) <= w.res.capacity
      BY WorldFields DEF ResOK, StockOK, ItemsOK
    <3>2. i \in 1 .. Len(w.res.items)
      BY <2>3, <3>1
    <3>3. q.items \in Seq(Int) /\ Len(q.items) = Len(w.res.items) - 1 /\ Len(w.res.items) \in Nat
      <4>1. PICK a : a = w.res.items
        OBVIOUS
      <4>2. a \in Seq(Int) /\ i \in 1 .. Len(a)
        BY <3>1, <3>2, <4>1
      <4>3. RemoveAt(a, i) \in Seq(Int) /\ Len(RemoveAt(a, i)) = Len(a) - 1
        BY <4>2, RemoveAtIndex
      <4>4. Len(a) \in Nat
        BY <4>2
      <4> QED BY <2>6, <4>1, <4>3, <4>4
    <3>4. Len(q.items) <= w.res.capacity
      BY <3>1, <3>3, WorldFields
    <3> QED BY <3>3, <3>4 DEF StockFits
  <2> QED BY <1>1, <2>5, <2>6, <2>7, <2>8, ServedBy
<1> QED BY <1>3, <1>4

LEMMA FreeSlotServes ==
  ASSUME NEW w, WorldOK(w), ~ w.raised, NEW e \in Range(w.res.getQueue), Slots(w.res)
  PROVE  ServedOne(w, "get", e, Dequeued(FreeSlot(w, e), "get", e))
<1>1. "get" \in RequestTypes /\ QueueOf(w.res, "get") = w.res.getQueue
  BY DEF RequestTypes, QueueOf
<1>2. PICK x : x = w.res.asks[e].of
  OBVIOUS
<1>0. PICK y : y = RemoveFirst(w.res.users, x)
  OBVIOUS
<1>3. PICK q : q = [w.res EXCEPT !.users = y]
  OBVIOUS
<1>4. FreeSlot(w, e) = GrantedWith(w, q, e)
  <2>1. FreeSlot(w, e) = Grant([w EXCEPT !.res.users = RemoveFirst(@, x)], e)
    BY <1>2 DEF FreeSlot
  <2>2. [w EXCEPT !.res.users = RemoveFirst(@, x)] = [sim |-> w.sim, res |-> q, raised |-> w.raised]
    BY <1>0, <1>3, WorldFields
  <2>3. IsWorld(w)
    BY DEF WorldOK
  <2> QED BY <2>1, <2>2, <2>3, GrantWorld DEF GrantedWith
<1>5. /\ Fixed(w.res, q) /\ Queues(w.res, q) /\ q.mishap = w.res.mishap
      /\ q.users = RemoveFirst(w.res.users, x)
  <2>1. IsRes(w.res)
    BY WorldFields
  <2> QED BY <1>0, <1>3, <2>1, SetUsers
<1>6. /\ q.users \in Seq(Nat) /\ IsInjective(q.users) /\ Len(q.users) <= Len(w.res.users)
      /\ Range(q.users) = Range(w.res.users) \ {x}
  BY <1>5, WorldFields, RemoveId
<1>7. Len(q.users) <= w.res.capacity
  <2>1. Len(q.users) \in Nat /\ Len(w.res.users) \in Nat
    BY <1>6, WorldFields
  <2> QED BY <1>6, <2>1, WorldFields
<1>8. HoldersFit(w.res, q, "get", e)
  BY <1>6, <1>7 DEF HoldersFit
<1>9. StockFits(w.res, q, "get", e)
  BY DEF StockFits, Slots
<1>10. Range(w.res.users) \ Range(q.users) \subseteq {w.res.asks[e].of}
  BY <1>2, <1>6
<1> QED BY <1>1, <1>4, <1>5, <1>8, <1>9, <1>10, ServedBy

LEMMA ServeOne ==
  ASSUME NEW w, WorldOK(w), ~ w.raised, NEW type \in RequestTypes, NEW e \in Range(QueueOf(w.res, type))
  PROVE  ServedOne(w, type, e, Serve(w, type, e))
<1>1. ResOK(w.sim, w.res) /\ SimOK(w.sim) /\ w.res.kind \in Kinds
  BY WorldFields DEF ResOK
<1>2. CASE type = "put"
  <2>1. e \in Range(w.res.putQueue) /\ Serve(w, type, e) = Dequeued(DoPut(w, e), "put", e)
    BY <1>2 DEF QueueOf, Serve, Dequeued
  <2>2. CASE w.res.kind = "preemptive"
    <3>1. PICK u : u = Preempt(w, e)
      OBVIOUS
    <3>2. DoPut(w, e) = TakeSlot(u, e)
      BY <2>2, <3>1 DEF DoPut
    <3>3. /\ WorldOK(u) /\ Quiet(w.sim, u.sim) /\ u.sim.events = w.sim.events
          /\ Fixed(w.res, u.res) /\ Queues(w.res, u.res)
          /\ (u.raised => u.sim = w.sim)
          /\ Told(w.res, w.sim, u.sim, u.res)
      BY <3>1, Preempting
    <3>4. Slots(w.res)
      BY <2>2 DEF Slots
    <3>5. ServedOne(w, "put", e, Dequeued(TakeSlot(u, e), "put", e))
      BY <2>1, <2>2, <3>3, <3>4, SlotTaken
    <3> QED BY <1>2, <2>1, <3>2, <3>5
  <2>3. CASE w.res.kind \in {"resource", "priority"}
    <3>1. DoPut(w, e) = TakeSlot(w, e)
      BY <2>3 DEF DoPut
    <3>2. /\ Quiet(w.sim, w.sim) /\ Fixed(w.res, w.res) /\ Queues(w.res, w.res)
          /\ Told(w.res, w.sim, w.sim, w.res) /\ Slots(w.res)
      BY <2>3, WorldFields, QuietNothing DEF Fixed, Queues, Told, Slots
    <3>3. ServedOne(w, "put", e, Dequeued(TakeSlot(w, e), "put", e))
      BY <2>1, <3>2, SlotTaken
    <3> QED BY <1>2, <2>1, <3>1, <3>3
  <2>4. CASE w.res.kind = "container"
    <3>1. DoPut(w, e) = Fill(w, e)
      BY <2>4 DEF DoPut
    <3> QED BY <1>2, <2>1, <2>4, <3>1, FillServes
  <2>5. CASE ~ Slots(w.res) /\ w.res.kind # "container"
    <3>1. DoPut(w, e) = AddItem(w, e)
      BY <2>5 DEF DoPut, Slots
    <3> QED BY <1>2, <2>1, <2>5, <3>1, AddItemServes
  <2> QED BY <2>2, <2>3, <2>4, <2>5 DEF Slots
<1>3. CASE type = "get"
  <2>1. e \in Range(w.res.getQueue) /\ Serve(w, type, e) = Dequeued(DoGet(w, e), "get", e)
    BY <1>3 DEF QueueOf, Serve, Dequeued
  <2>2. CASE Slots(w.res)
    <3>1. DoGet(w, e) = FreeSlot(w, e)
      BY <2>2 DEF DoGet, Slots
    <3> QED BY <1>3, <2>1, <2>2, <3>1, FreeSlotServes
  <2>3. CASE w.res.kind = "container"
    <3>1. DoGet(w, e) = Draw(w, e)
      BY <2>3 DEF DoGet, Slots
    <3> QED BY <1>3, <2>1, <2>3, <3>1, DrawServes
  <2>4. CASE ~ Slots(w.res) /\ w.res.kind # "container"
    <3>1. DoGet(w, e) = HandOver(w, e)
      BY <2>4 DEF DoGet, Slots
    <3> QED BY <1>3, <2>1, <2>4, <3>1, HandOverServes
  <2> QED BY <2>2, <2>3, <2>4
<1> QED BY <1>2, <1>3 DEF RequestTypes

-----------------------------------------------------------------------------
(* A queue is served from its head on. *)

\* One turn of the loop.
NextServed(past, type, e) ==
  IF past.stop THEN past
  ELSE [w |-> Serve(past.w, type, e),
        stop |-> Serve(past.w, type, e).raised \/ ~GoesOn(Serve(past.w, type, e), type, e)]

ServesUpTo(f, n, w, type, queue) ==
  f = [i \in 0 .. n |-> IF i = 0 THEN [w |-> w, stop |-> FALSE]
                        ELSE NextServed(f[i - 1], type, queue[i])]

LEMMA ServedExists ==
  ASSUME NEW w, NEW type, NEW S, QueueOf(w.res, type) \in Seq(S), NEW queue, queue = QueueOf(w.res, type)
  PROVE  \E f : ServesUpTo(f, Len(queue), w, type, queue) /\ Served(w, type) = f[Len(queue)].w
<1> DEFINE Bad == {n \in Nat : n <= Len(queue) /\ ~ \E g : ServesUpTo(g, n, w, type, queue)}
           first == [w |-> w, stop |-> FALSE]
<1>1. Bad = {}
  <2> SUFFICES ASSUME Bad # {} PROVE FALSE
    OBVIOUS
  <2>1. PICK n \in Bad : \A k \in Bad : n <= k
    BY LeastNatural
  <2>2. n # 0
    <3> DEFINE g == [i \in 0 .. 0 |-> first]
    <3>1. ServesUpTo(g, 0, w, type, queue)
      BY DEF ServesUpTo
    <3> QED BY <3>1
  <2>3. n \in Nat /\ n - 1 \in Nat /\ n - 1 <= Len(queue) /\ n - 1 \notin Bad
    BY <2>1, <2>2
  <2>4. PICK f : ServesUpTo(f, n - 1, w, type, queue)
    BY <2>3
  <2> DEFINE next == NextServed(f[n - 1], type, queue[n])
             g == [i \in 0 .. n |-> IF i < n THEN f[i] ELSE next]
  <2>5. \A i \in 0 .. n - 1 : g[i] = f[i]
    BY <2>3
  <2>6. g[n] = next
    BY <2>3
  <2> HIDE DEF first
  <2>7. \A i \in 0 .. n - 1 : f[i] = IF i = 0 THEN first ELSE NextServed(f[i - 1], type, queue[i])
    BY <2>4 DEF ServesUpTo, first
  <2> HIDE DEF next
  <2>8. \A i \in 0 .. n : g[i] = IF i = 0 THEN first ELSE NextServed(g[i - 1], type, queue[i])
    <3> TAKE i \in 0 .. n
    <3>1. CASE i = 0
      BY <2>2, <2>3, <2>5, <2>7, <3>1
    <3>2. CASE i # 0 /\ i < n
      <4>1. i \in 0 .. n - 1 /\ i - 1 \in 0 .. n - 1
        BY <2>3, <3>2
      <4>2. g[i] = f[i] /\ g[i - 1] = f[i - 1]
        BY <2>5, <4>1
      <4> HIDE DEF g
      <4> QED BY <2>7, <3>2, <4>1, <4>2
    <3>3. CASE i = n
      <4>1. g[n - 1] = f[n - 1]
        BY <2>3, <2>5
      <4> HIDE DEF g
      <4> QED BY <2>2, <2>6, <3>3, <4>1 DEF next
    <3> QED BY <2>3, <3>1, <3>2, <3>3
  <2>9. ServesUpTo(g, n, w, type, queue)
    <3>1. g = [i \in 0 .. n |-> g[i]]
      OBVIOUS
    <3> HIDE DEF g
    <3> QED BY <2>8, <3>1 DEF ServesUpTo, first
  <2> QED BY <2>1, <2>9
<1>2. \E g : ServesUpTo(g, Len(queue), w, type, queue)
  <2>1. Len(queue) \in Nat /\ Len(queue) <= Len(queue)
    OBVIOUS
  <2>2. Len(queue) \notin Bad
    BY <1>1
  <2> QED BY <2>1, <2>2
<1> DEFINE f == CHOOSE g : ServesUpTo(g, Len(queue), w, type, queue)
<1>3. ServesUpTo(f, Len(queue), w, type, queue)
  BY <1>2
<1>4. Served(w, type) = f[Len(queue)].w
  BY DEF Served, ServesUpTo, NextServed, QueueOf
<1> HIDE DEF f
<1> QED BY <1>3, <1>4

\* The loop has considered the requests 1 .. i of the queue.
LoopSafe(w, type, queue, i, past) ==
  /\ WorldOK(past.w) /\ Quiet(w.sim, past.w.sim) /\ Fixed(w.res, past.w.res)
  /\ past.w.raised => past.w.sim = w.sim /\ type = "put" /\ past.stop
  /\ ~ past.stop => \A j \in i + 1 .. Len(queue) : queue[j] \in Range(QueueOf(past.w.res, type))
  /\ i = 0 => past.w = w /\ ~ past.stop
  /\ Slots(w.res) /\ ~ past.stop => i = 0

LoopHolders(w, type, queue, i, past) ==
  /\ type = "put" => Told(w.res, w.sim, past.w.sim, past.w.res)
  /\ ~ Slots(w.res) => Range(w.res.users) \subseteq Range(past.w.res.users)
  /\ Slots(w.res) /\ type = "get" /\ i > 0 =>
       /\ Range(w.res.users) \ Range(past.w.res.users) \subseteq {w.res.asks[queue[1]].of}
       /\ Range(past.w.res.getQueue) = Range(queue) \ {queue[1]}

\* Of the events, these alone may have got another state.
OnlyStates(s, t, S) ==
  /\ DOMAIN t.events = DOMAIN s.events
  /\ \A f \in DOMAIN s.events : t.events[f].type = s.events[f].type
  /\ \A f \in DOMAIN s.events \ S : t.events[f].state = s.events[f].state

LoopOrder(w, type, queue, i, past) ==
  /\ type = "put" => past.w.res.getQueue = w.res.getQueue
  /\ type = "get" => past.w.res.putQueue = w.res.putQueue
  /\ \A R : InOrder(queue, R) => InOrder(QueueOf(past.w.res, type), R)
  /\ OnlyStates(w.sim, past.w.sim, Range(queue))
  /\ w.res.kind # "filterstore" \/ type # "get" =>
       \E k \in 0 .. i :
         /\ past.stop \/ k = i
         /\ OnlyStates(w.sim, past.w.sim, {queue[j] : j \in 1 .. k})
         /\ Range(QueueOf(past.w.res, type)) = {queue[j] : j \in k + 1 .. Len(queue)}

LEMMA LoopStarts ==
  ASSUME NEW w, WorldOK(w), ~ w.raised, NEW type \in RequestTypes,
         NEW queue, queue = QueueOf(w.res, type), NEW past, past = [w |-> w, stop |-> FALSE]
  PROVE  LoopSafe(w, type, queue, 0, past) /\ LoopHolders(w, type, queue, 0, past)
         /\ LoopOrder(w, type, queue, 0, past)
<1>1. past.w = w /\ ~ past.stop
  OBVIOUS
<1>2. /\ Quiet(w.sim, w.sim) /\ Fixed(w.res, w.res) /\ Told(w.res, w.sim, w.sim, w.res)
  BY WorldFields, QuietNothing DEF Fixed, Told
<1>3. queue \in Seq(Nat)
  BY WorldFields DEF ResOK, QueuesOK, QueueOK, QueueOf
<1>4. DOMAIN queue = 1 .. Len(queue) /\ Len(queue) \in Nat
  BY <1>3
<1>5. \A j \in 0 + 1 .. Len(queue) : queue[j] \in Range(queue)
  BY <1>4 DEF Range
<1>6. LoopSafe(w, type, queue, 0, past)
  BY <1>1, <1>2, <1>5 DEF LoopSafe
<1>7. LoopHolders(w, type, queue, 0, past)
  BY <1>1, <1>2 DEF LoopHolders
<1>8. OnlyStates(w.sim, w.sim, {queue[j] : j \in 1 .. 0}) /\ OnlyStates(w.sim, w.sim, Range(queue))
  BY DEF OnlyStates
<1>9. Range(queue) = {queue[j] : j \in 0 + 1 .. Len(queue)}
  BY <1>4 DEF Range
<1>10. 0 \in 0 .. 0
  OBVIOUS
<1>11. \E k \in 0 .. 0 : /\ past.stop \/ k = 0
                         /\ OnlyStates(w.sim, past.w.sim, {queue[j] : j \in 1 .. k})
                         /\ Range(QueueOf(past.w.res, type)) = {queue[j] : j \in k + 1 .. Len(queue)}
  BY <1>1, <1>8, <1>9, <1>10
<1>12. LoopOrder(w, type, queue, 0, past)
  BY <1>1, <1>8, <1>11 DEF LoopOrder
<1> QED BY <1>6, <1>7, <1>12

\* What GoesOn lets through.
LEMMA WhoGoesOn ==
  ASSUME NEW v, NEW type, NEW e, GoesOn(v, type, e)
  PROVE  /\ ~ Slots(v.res)
         /\ Granted(v, e) \/ (v.res.kind = "filterstore" /\ type = "get")
BY DEF GoesOn, Slots

LEMMA LoopSafeStep ==
  ASSUME NEW w, WorldOK(w), NEW type \in RequestTypes,
         NEW queue, queue = QueueOf(w.res, type), NEW i \in 0 .. Len(queue) - 1,
         NEW past, ~ past.stop, LoopSafe(w, type, queue, i, past),
         NEW e, e = queue[i + 1], NEW v, v = Serve(past.w, type, e),
         NEW next, next = [w |-> v, stop |-> v.raised \/ ~GoesOn(v, type, e)]
  PROVE  /\ LoopSafe(w, type, queue, i + 1, next)
         /\ ServedOne(past.w, type, e, v)
<1>1. queue \in Seq(Nat) /\ IsInjective(queue)
  BY WorldFields DEF ResOK, QueuesOK, QueueOK, QueueOf
<1>2. DOMAIN queue = 1 .. Len(queue) /\ Len(queue) \in Nat /\ i + 1 \in 1 .. Len(queue) /\ i \in Nat
  BY <1>1
<1>3. /\ WorldOK(past.w) /\ Quiet(w.sim, past.w.sim) /\ Fixed(w.res, past.w.res) /\ ~ past.w.raised
      /\ \A j \in i + 1 .. Len(queue) : queue[j] \in Range(QueueOf(past.w.res, type))
      /\ i = 0 => past.w = w
      /\ Slots(w.res) => i = 0
  BY DEF LoopSafe
<1>4. e \in Range(QueueOf(past.w.res, type))
  BY <1>2, <1>3
<1>5. ServedOne(past.w, type, e, v)
  BY <1>3, <1>4, ServeOne
<1>6. /\ WorldOK(v) /\ Quiet(past.w.sim, v.sim) /\ Fixed(past.w.res, v.res)
      /\ Range(QueueOf(past.w.res, type)) \ {e} \subseteq Range(QueueOf(v.res, type))
      /\ v.raised => v.sim = past.w.sim /\ past.w.res.kind = "preemptive" /\ type = "put"
  BY <1>5 DEF ServedOne
<1>7. next.w = v /\ (next.stop <=> v.raised \/ ~GoesOn(v, type, e))
  OBVIOUS
<1>8. w.res.kind = past.w.res.kind /\ v.res.kind = w.res.kind
  BY <1>3, <1>6 DEF Fixed
<1>9. Quiet(w.sim, v.sim)
  <2>1. SimOK(w.sim)
    BY WorldFields
  <2>2. PICK s, t, r : s = w.sim /\ t = past.w.sim /\ r = v.sim
    OBVIOUS
  <2>3. SimOK(s) /\ Quiet(s, t) /\ Quiet(t, r) /\ Tame(s, t) /\ Tame(t, r)
    BY <1>3, <1>6, <2>1, <2>2 DEF Quiet
  <2>4. Quiet(s, r)
    BY <2>3, TameTrans
  <2> QED BY <2>2, <2>4
<1>10. Fixed(w.res, v.res)
  BY <1>3, <1>6 DEF Fixed
<1>11. v.raised => v.sim = w.sim /\ type = "put"
  <2> SUFFICES ASSUME v.raised PROVE v.sim = w.sim /\ type = "put"
    OBVIOUS
  <2>1. v.sim = past.w.sim /\ w.res.kind = "preemptive" /\ type = "put"
    BY <1>6, <1>8
  <2>2. Slots(w.res)
    BY <2>1 DEF Slots
  <2> QED BY <1>3, <2>1, <2>2
<1>12. ASSUME NEW j \in i + 1 + 1 .. Len(queue)
       PROVE  queue[j] \in Range(QueueOf(v.res, type))
  <2>1. j \in i + 1 .. Len(queue) /\ j \in DOMAIN queue /\ j # i + 1 /\ i + 1 \in DOMAIN queue
    BY <1>2
  <2>2. queue[j] # e
    BY <1>1, <2>1 DEF IsInjective
  <2> QED BY <1>3, <1>6, <2>1, <2>2
<1>13. Slots(w.res) => next.stop
  BY <1>7, <1>8, WhoGoesOn DEF Slots
<1>14. LoopSafe(w, type, queue, i + 1, next)
  <2>1. i + 1 # 0
    BY <1>2
  <2> HIDE DEF LoopSafe
  <2>2. next.w.raised => next.w.sim = w.sim /\ type = "put" /\ next.stop
    BY <1>7, <1>11
  <2> QED BY <1>6, <1>7, <1>9, <1>10, <1>12, <1>13, <2>1, <2>2 DEF LoopSafe
<1> QED BY <1>5, <1>14

LEMMA LoopHoldersStep ==
  ASSUME NEW w, WorldOK(w), NEW type \in RequestTypes,
         NEW queue, queue = QueueOf(w.res, type), NEW i \in 0 .. Len(queue) - 1,
         NEW past, ~ past.stop, LoopSafe(w, type, queue, i, past), LoopHolders(w, type, queue, i, past),
         NEW e, e = queue[i + 1], NEW v, ServedOne(past.w, type, e, v),
         NEW next, next = [w |-> v, stop |-> v.raised \/ ~GoesOn(v, type, e)]
  PROVE  LoopHolders(w, type, queue, i + 1, next)
<1>1. next.w = v
  OBVIOUS
<1>2. /\ Fixed(w.res, past.w.res)
      /\ i = 0 => past.w = w
      /\ Slots(w.res) => i = 0
  BY DEF LoopSafe
<1>3. past.w.res.kind = w.res.kind /\ (Slots(past.w.res) <=> Slots(w.res))
  BY <1>2 DEF Fixed, Slots
<1>4. CASE Slots(w.res)
  <2>1. past.w = w /\ i = 0 /\ e = queue[1]
    BY <1>2, <1>4
  <2>2. type = "put" => Told(w.res, w.sim, v.sim, v.res)
    BY <2>1 DEF ServedOne
  <2>3. type = "get" => /\ Range(w.res.users) \ Range(v.res.users) \subseteq {w.res.asks[queue[1]].of}
                        /\ Range(v.res.getQueue) = Range(queue) \ {queue[1]}
    <3> SUFFICES ASSUME type = "get"
                 PROVE  /\ Range(w.res.users) \ Range(v.res.users) \subseteq {w.res.asks[queue[1]].of}
                        /\ Range(v.res.getQueue) = Range(queue) \ {queue[1]}
      OBVIOUS
    <3>1. Granted(v, e) /\ Range(QueueOf(v.res, type)) = Range(QueueOf(w.res, type)) \ {e}
      BY <1>4, <2>1 DEF ServedOne
    <3>2. QueueOf(v.res, type) = v.res.getQueue
      BY DEF QueueOf
    <3>3. Range(w.res.users) \ Range(v.res.users) \subseteq {w.res.asks[e].of}
      BY <2>1 DEF ServedOne
    <3> QED BY <2>1, <3>1, <3>2, <3>3
  <2> QED BY <1>1, <1>4, <2>2, <2>3 DEF LoopHolders
<1>5. CASE ~ Slots(w.res)
  <2>1. Range(w.res.users) \subseteq Range(past.w.res.users)
    BY <1>5 DEF LoopHolders
  <2>2. Range(past.w.res.users) \subseteq Range(v.res.users)
    BY <1>3, <1>5 DEF ServedOne
  <2>3. Told(w.res, w.sim, v.sim, v.res)
    BY <2>1, <2>2 DEF Told
  <2> QED BY <1>1, <1>5, <2>1, <2>2, <2>3 DEF LoopHolders
<1> QED BY <1>4, <1>5

LEMMA RemoveInOrder ==
  ASSUME NEW a \in Seq(Nat), NEW x, NEW R, InOrder(a, R)
  PROVE  InOrder(RemoveFirst(a, x), R)
<1>0. DOMAIN a = 1 .. Len(a) /\ Len(a) \in Nat
  OBVIOUS
<1>1. CASE \A i \in 1 .. Len(a) : a[i] # x
  BY <1>1 DEF RemoveFirst
<1>2. CASE \E i \in 1 .. Len(a) : a[i] = x
  <2> DEFINE I == {i \in 1 .. Len(a) : a[i] = x}
             k == Min(I)
             b == RemoveAt(a, k)
  <2>1. RemoveFirst(a, x) = b /\ k \in 1 .. Len(a)
    <3>1. RemoveFirst(a, x) = RemoveAt(a, SelectInSeq(a, LAMBDA v : v = x))
      BY <1>2 DEF RemoveFirst
    <3>2. SelectInSeq(a, LAMBDA v : v = x) = k
      BY <1>2 DEF SelectInSeq
    <3>3. I # {} /\ I \subseteq Nat
      BY <1>0, <1>2
    <3>4. k \in I
      BY <3>3, LeastNatural DEF Min
    <3> QED BY <3>1, <3>2, <3>4
  <2> HIDE DEF k
  <2>2. b \in Seq(Nat) /\ Len(b) = Len(a) - 1 /\ \A j \in 1 .. Len(a) - 1 : b[j] = a[IF j < k THEN j ELSE j + 1]
    BY <2>1, RemoveAtIndex
  <2> HIDE DEF b
  <2>3. DOMAIN b = 1 .. Len(a) - 1
    BY <2>2
  <2>4. ASSUME NEW i \in DOMAIN b, NEW j \in DOMAIN b, i < j
        PROVE  <<b[i], b[j]>> \in R
    <3>1. PICK m, n : m = (IF i < k THEN i ELSE i + 1) /\ n = (IF j < k THEN j ELSE j + 1)
      OBVIOUS
    <3>2. m \in DOMAIN a /\ n \in DOMAIN a /\ m < n
      BY <1>0, <2>1, <2>3, <2>4, <3>1, SMTT(30)
    <3>3. b[i] = a[m] /\ b[j] = a[n]
      BY <2>2, <2>3, <3>1
    <3> QED BY <3>2, <3>3 DEF InOrder
  <2>5. InOrder(b, R)
    BY <2>4 DEF InOrder
  <2> QED BY <2>1, <2>5
<1> QED BY <1>1, <1>2

LEMMA LoopOrderStep ==
  ASSUME NEW w, WorldOK(w), NEW type \in RequestTypes,
         NEW queue, queue = QueueOf(w.res, type), NEW i \in 0 .. Len(queue) - 1,
         NEW past, ~ past.stop, LoopSafe(w, type, queue, i, past), LoopOrder(w, type, queue, i, past),
         NEW e, e = queue[i + 1], NEW v, ServedOne(past.w, type, e, v),
         NEW next, next = [w |-> v, stop |-> v.raised \/ ~GoesOn(v, type, e)]
  PROVE  LoopOrder(w, type, queue, i + 1, next)
<1>1. next.w = v /\ (next.stop <=> v.raised \/ ~GoesOn(v, type, e))
  OBVIOUS
<1>2. queue \in Seq(Nat) /\ IsInjective(queue)
  BY WorldFields DEF ResOK, QueuesOK, QueueOK, QueueOf
<1>3. DOMAIN queue = 1 .. Len(queue) /\ Len(queue) \in Nat /\ i + 1 \in 1 .. Len(queue) /\ i \in Nat
  BY <1>2
<1>4. e \in Range(queue)
  BY <1>3 DEF Range
<1>5. /\ WorldOK(past.w) /\ Fixed(w.res, past.w.res)
      /\ e \in Range(QueueOf(past.w.res, type))
  BY <1>3 DEF LoopSafe
<1>6. /\ IF Granted(v, e) THEN LeftQueue(past.w.res, v.res, type, e) ELSE Queues(past.w.res, v.res)
      /\ OnlyState(past.w.sim, v.sim, e)
      /\ Granted(v, e) => Range(QueueOf(v.res, type)) = Range(QueueOf(past.w.res, type)) \ {e}
      /\ WorldOK(v) /\ Fixed(past.w.res, v.res)
  BY DEF ServedOne
<1>7. type = "put" \/ type = "get"
  BY DEF RequestTypes
<1>8. /\ type = "put" => v.res.getQueue = w.res.getQueue
      /\ type = "get" => v.res.putQueue = w.res.putQueue
  <2>1. /\ type = "put" => past.w.res.getQueue = w.res.getQueue
        /\ type = "get" => past.w.res.putQueue = w.res.putQueue
    BY DEF LoopOrder
  <2> QED BY <1>6, <2>1 DEF LeftQueue, Queues
<1>9. PICK q, p : q = QueueOf(past.w.res, type) /\ p = QueueOf(v.res, type)
  OBVIOUS
<1>10. p = RemoveFirst(q, e) \/ p = q
  BY <1>6, <1>9 DEF LeftQueue, Queues, QueueOf
<1>11. q \in Seq(Nat)
  BY <1>5, <1>9, WorldFields DEF ResOK, QueuesOK, QueueOK, QueueOf
<1>12. ASSUME NEW R, InOrder(queue, R)
       PROVE  InOrder(QueueOf(v.res, type), R)
  <2>1. InOrder(q, R)
    BY <1>9, <1>12 DEF LoopOrder
  <2>2. InOrder(RemoveFirst(q, e), R)
    BY <1>11, <2>1, RemoveInOrder
  <2> QED BY <1>9, <1>10, <2>1, <2>2
<1>13. OnlyStates(w.sim, v.sim, Range(queue))
  <2>1. OnlyStates(w.sim, past.w.sim, Range(queue))
    BY DEF LoopOrder
  <2> QED BY <1>4, <1>6, <2>1 DEF OnlyStates, OnlyState
<1>14. ASSUME w.res.kind # "filterstore" \/ type # "get"
       PROVE  \E k \in 0 .. i + 1 :
                /\ next.stop \/ k = i + 1
                /\ OnlyStates(w.sim, v.sim, {queue[j] : j \in 1 .. k})
                /\ Range(QueueOf(v.res, type)) = {queue[j] : j \in k + 1 .. Len(queue)}
  <2>1. /\ OnlyStates(w.sim, past.w.sim, {queue[j] : j \in 1 .. i})
        /\ Range(QueueOf(past.w.res, type)) = {queue[j] : j \in i + 1 .. Len(queue)}
    BY <1>14 DEF LoopOrder
  <2>2. CASE Granted(v, e)
    <3>1. {queue[j] : j \in 1 .. i} \cup {e} \subseteq {queue[j] : j \in 1 .. i + 1}
      BY <1>3
    <3>2. OnlyStates(w.sim, v.sim, {queue[j] : j \in 1 .. i + 1})
      BY <1>6, <2>1, <3>1 DEF OnlyStates, OnlyState
    <3>3. {queue[j] : j \in i + 1 .. Len(queue)} \ {e} = {queue[j] : j \in i + 1 + 1 .. Len(queue)}
      <4>1. \A j \in i + 1 .. Len(queue) : j \in DOMAIN queue /\ (queue[j] = e <=> j = i + 1)
        BY <1>2, <1>3, SMTT(30) DEF IsInjective
      <4>2. i + 1 + 1 .. Len(queue) = (i + 1 .. Len(queue)) \ {i + 1}
        BY <1>3
      <4> QED BY <4>1, <4>2
    <3>4. Range(QueueOf(v.res, type)) = {queue[j] : j \in i + 1 + 1 .. Len(queue)}
      BY <1>6, <2>1, <2>2, <3>3
    <3>5. i + 1 \in 0 .. i + 1
      BY <1>3
    <3> QED BY <3>2, <3>4, <3>5
  <2>3. CASE ~ Granted(v, e)
    <3>1. Queues(past.w.res, v.res)
      BY <1>6, <2>3
    <3>2. Range(QueueOf(v.res, type)) = {queue[j] : j \in i + 1 .. Len(queue)}
      BY <2>1, <3>1 DEF Queues, QueueOf
    <3>3. e \in Range(QueueOf(v.res, type))
      BY <1>5, <3>1 DEF Queues, QueueOf
    <3>4. v.sim.events[e].state = "pending" /\ past.w.sim.events[e].state = "pending"
      BY <1>5, <1>6, <3>3, WaitingRequest, WorldFields
    <3>5. OnlyStates(w.sim, v.sim, {queue[j] : j \in 1 .. i})
      BY <1>6, <2>1, <3>4 DEF OnlyStates, OnlyState
    <3>6. v.res.kind = w.res.kind
      BY <1>5, <1>6 DEF Fixed
    <3>7. ~ GoesOn(v, type, e)
      BY <1>14, <2>3, <3>6, WhoGoesOn
    <3>8. next.stop /\ i \in 0 .. i + 1
      BY <1>1, <1>3, <3>7
    <3> QED BY <3>2, <3>5, <3>8
  <2> QED BY <2>2, <2>3
<1> QED BY <1>1, <1>8, <1>12, <1>13, <1>14 DEF LoopOrder

\* Once the loop has stopped, the rest of the queue changes nothing.
LEMMA LoopStopped ==
  ASSUME NEW w, NEW type, NEW queue \in Seq(Nat), NEW i \in 0 .. Len(queue) - 1, NEW past, past.stop,
         LoopSafe(w, type, queue, i, past), LoopHolders(w, type, queue, i, past),
         LoopOrder(w, type, queue, i, past)
  PROVE  /\ LoopSafe(w, type, queue, i + 1, past) /\ LoopHolders(w, type, queue, i + 1, past)
         /\ LoopOrder(w, type, queue, i + 1, past)
<1>1. i \in Nat /\ i + 1 # 0 /\ i > 0 /\ 0 .. i \subseteq 0 .. i + 1
  <2>1. i \in Nat /\ i # 0
    BY DEF LoopSafe
  <2> QED BY <2>1
<1>2. LoopSafe(w, type, queue, i + 1, past)
  BY <1>1 DEF LoopSafe
<1>3. LoopHolders(w, type, queue, i + 1, past)
  BY <1>1 DEF LoopHolders
<1>4. LoopOrder(w, type, queue, i + 1, past)
  BY <1>1 DEF LoopOrder
<1> QED BY <1>2, <1>3, <1>4

\* What _trigger_put and _trigger_get make of a world in order.
LEMMA Serving ==
  ASSUME NEW w, WorldOK(w), ~ w.raised, NEW type \in RequestTypes,
         NEW queue, queue = QueueOf(w.res, type)
  PROVE  \E past : /\ past.w = Served(w, type)
                   /\ LoopSafe(w, type, queue, Len(queue), past)
                   /\ LoopHolders(w, type, queue, Len(queue), past)
                   /\ LoopOrder(w, type, queue, Len(queue), past)
<1>1. queue \in Seq(Nat) /\ Len(queue) \in Nat
  BY WorldFields DEF ResOK, QueuesOK, QueueOK, QueueOf
<1>2. PICK f : ServesUpTo(f, Len(queue), w, type, queue) /\ Served(w, type) = f[Len(queue)].w
  BY <1>1, ServedExists
<1>3. \A i \in 0 .. Len(queue) :
        f[i] = IF i = 0 THEN [w |-> w, stop |-> FALSE] ELSE NextServed(f[i - 1], type, queue[i])
  BY <1>2 DEF ServesUpTo
<1> DEFINE Right(i, past) == /\ LoopSafe(w, type, queue, i, past)
                             /\ LoopHolders(w, type, queue, i, past)
                             /\ LoopOrder(w, type, queue, i, past)
           Wrong == {n \in Nat : n <= Len(queue) /\ ~ Right(n, f[n])}
<1>4. Right(0, f[0])
  BY <1>1, <1>3, LoopStarts
<1>5. ASSUME NEW n \in Nat \ {0}, n <= Len(queue), Right(n - 1, f[n - 1]) PROVE Right(n, f[n])
  <2>1. PICK i : i = n - 1
    OBVIOUS
  <2>2. i \in 0 .. Len(queue) - 1 /\ i + 1 = n
    BY <1>1, <1>5, <2>1
  <2>3. PICK past : past = f[i]
    OBVIOUS
  <2>4. PICK e : e = queue[i + 1]
    OBVIOUS
  <2>5. f[n] = NextServed(past, type, e)
    BY <1>1, <1>3, <1>5, <2>1, <2>2, <2>3, <2>4
  <2>6. Right(i, past)
    BY <1>5, <2>1, <2>3
  <2>7. CASE past.stop
    <3>1. f[n] = past
      BY <2>5, <2>7 DEF NextServed
    <3>2. Right(i + 1, past)
      BY <1>1, <2>2, <2>6, <2>7, LoopStopped
    <3> QED BY <2>2, <3>1, <3>2
  <2>8. CASE ~ past.stop
    <3>1. PICK v : v = Serve(past.w, type, e)
      OBVIOUS
    <3>2. PICK next : next = [w |-> v, stop |-> v.raised \/ ~GoesOn(v, type, e)]
      OBVIOUS
    <3>3. f[n] = next
      BY <2>5, <2>8, <3>1, <3>2 DEF NextServed
    <3>4. LoopSafe(w, type, queue, i + 1, next) /\ ServedOne(past.w, type, e, v)
      BY <2>2, <2>4, <2>6, <2>8, <3>1, <3>2, LoopSafeStep
    <3>5. LoopHolders(w, type, queue, i + 1, next)
      BY <2>2, <2>4, <2>6, <2>8, <3>2, <3>4, LoopHoldersStep
    <3>6. LoopOrder(w, type, queue, i + 1, next)
      BY <2>2, <2>4, <2>6, <2>8, <3>2, <3>4, LoopOrderStep
    <3> QED BY <2>2, <3>3, <3>4, <3>5, <3>6
  <2> QED BY <2>7, <2>8
<1> HIDE DEF Right
<1>6. Wrong = {}
  <2> SUFFICES ASSUME Wrong # {} PROVE FALSE
    OBVIOUS
  <2>1. PICK n \in Wrong : \A k \in Wrong : n <= k
    BY LeastNatural
  <2>2. n # 0
    BY <1>4, <2>1
  <2>3. n - 1 \in Nat /\ n - 1 <= Len(queue) /\ n - 1 \notin Wrong
    BY <2>1, <2>2
  <2>4. Right(n - 1, f[n - 1])
    BY <2>3
  <2> QED BY <1>5, <2>1, <2>2, <2>4
<1>7. Right(Len(queue), f[Len(queue)])
  BY <1>1, <1>6
<1> QED BY <1>2, <1>7 DEF Right

\* Whom the steps from s to t grant, given the resource q they leave: nobody
\* ahead of whom another is left waiting.
NewlyOf(s, t, type) == GrantedOf(t, type) \ GrantedOf(s, type)
GrantsFit(s, t, q) ==
  /\ \A e \in NewlyOf(s, t, "put"), f \in Range(q.putQueue) : <<e, f>> \in ServesFirst(q)
  /\ q.kind # "filterstore" =>
       \A e \in NewlyOf(s, t, "get"), f \in Range(q.getQueue) : <<e, f>> \in Older

\* From r to q and from b to s, holders have been told of their loss, but for x.
ToldBut(x, r, b, s, q) ==
  \A y \in Range(r.users) \ Range(q.users) :
    y = x \/ NewlyDue(b, s, Call("interrupt", r.asks[y].proc)) \/ q.mishap

LEMMA SameOrder ==
  ASSUME NEW r, NEW q, q.kind = r.kind, q.asks = r.asks
  PROVE  ServesFirst(q) = ServesFirst(r) /\ (Slots(q) <=> Slots(r))
BY DEF ServesFirst, Sorted, Slots

LEMMA EmptyQueue ==
  ASSUME NEW a \in Seq(Nat), Range(a) = {}
  PROVE  a = <<>>
<1>1. DOMAIN a = 1 .. Len(a) /\ Len(a) \in Nat
  OBVIOUS
<1>2. Len(a) = 0
  <2> SUFFICES ASSUME Len(a) # 0 PROVE FALSE
    OBVIOUS
  <2>1. 1 \in DOMAIN a
    BY <1>1
  <2>2. a[1] \in Range(a)
    BY <2>1 DEF Range
  <2> QED BY <2>2
<1> QED BY <1>2

LEMMA OrderServed ==
  ASSUME NEW w, WorldOK(w), NEW type \in RequestTypes,
         NEW queue, queue = QueueOf(w.res, type),
         NEW past, LoopSafe(w, type, queue, Len(queue), past), LoopOrder(w, type, queue, Len(queue), past),
         Ordered(w.res)
  PROVE  Ordered(past.w.res) /\ GrantsFit(w.sim, past.w.sim, past.w.res)
<1> DEFINE r == w.res
           q == past.w.res
           s == w.sim
           t == past.w.sim
<1>1. Fixed(r, q) /\ ResOK(s, r)
  BY WorldFields DEF LoopSafe
<1>2. ServesFirst(q) = ServesFirst(r) /\ q.kind = r.kind
  BY <1>1, SameOrder DEF Fixed
<1>3. type = "put" \/ type = "get"
  BY DEF RequestTypes
<1>4. /\ type = "put" => q.getQueue = r.getQueue /\ queue = r.putQueue /\ QueueOf(q, type) = q.putQueue
      /\ type = "get" => q.putQueue = r.putQueue /\ queue = r.getQueue /\ QueueOf(q, type) = q.getQueue
  BY DEF LoopOrder, QueueOf
<1>5. \A R : InOrder(queue, R) => InOrder(QueueOf(q, type), R)
  BY DEF LoopOrder
<1>6. Ordered(q)
  <2>1. CASE type = "put"
    <3>1. InOrder(q.putQueue, ServesFirst(r))
      BY <1>4, <1>5, <2>1 DEF Ordered
    <3> QED BY <1>2, <1>4, <2>1, <3>1 DEF Ordered
  <2>2. CASE type = "get"
    <3>1. InOrder(q.getQueue, Older)
      BY <1>4, <1>5, <2>2 DEF Ordered
    <3> QED BY <1>2, <1>4, <2>2, <3>1 DEF Ordered
  <2> QED BY <1>3, <2>1, <2>2
<1>7. OnlyStates(s, t, Range(queue))
  BY DEF LoopOrder
<1>8. \A e \in Range(queue) : e \in DOMAIN s.events /\ s.events[e].type = type
  BY <1>1, <1>3, <1>4 DEF ResOK, QueuesOK, QueueOK
<1>9. ASSUME NEW other \in RequestTypes, NEW S, OnlyStates(s, t, S)
      PROVE  NewlyOf(s, t, other) \subseteq S /\ (other # type => NewlyOf(s, t, other) = {})
  <2>1. \A f \in NewlyOf(s, t, other) : /\ f \in DOMAIN s.events /\ s.events[f].type = other
                                        /\ t.events[f].state # s.events[f].state
    BY <1>7 DEF NewlyOf, GrantedOf, OnlyStates
  <2>2. NewlyOf(s, t, other) \subseteq S
    BY <1>9, <2>1 DEF OnlyStates
  <2>3. NewlyOf(s, t, other) \subseteq Range(queue)
    BY <1>7, <2>1 DEF OnlyStates
  <2> QED BY <1>8, <2>1, <2>2, <2>3
<1>10. ASSUME NEW R, InOrder(queue, R), r.kind # "filterstore" \/ type # "get",
              NEW e \in NewlyOf(s, t, type), NEW f \in Range(QueueOf(q, type))
       PROVE  <<e, f>> \in R
  <2>1. PICK k \in 0 .. Len(queue) :
          /\ OnlyStates(s, t, {queue[j] : j \in 1 .. k})
          /\ Range(QueueOf(q, type)) = {queue[j] : j \in k + 1 .. Len(queue)}
    BY <1>10 DEF LoopOrder
  <2>2. e \in {queue[j] : j \in 1 .. k}
    BY <1>9, <2>1
  <2>3. PICK i \in 1 .. k : e = queue[i]
    BY <2>2
  <2>4. PICK j \in k + 1 .. Len(queue) : f = queue[j]
    BY <2>1
  <2>5. queue \in Seq(Nat)
    BY <1>1, <1>3, <1>4 DEF ResOK, QueuesOK, QueueOK
  <2>6. i \in DOMAIN queue /\ j \in DOMAIN queue /\ i < j
    <3>1. DOMAIN queue = 1 .. Len(queue) /\ Len(queue) \in Nat
      BY <2>5
    <3> QED BY <3>1
  <2> QED BY <1>10, <2>3, <2>4, <2>6 DEF InOrder
<1>11. GrantsFit(s, t, q)
  <2>0. "put" \in RequestTypes /\ "get" \in RequestTypes
    BY DEF RequestTypes
  <2>1. CASE type = "put"
    <3>1. NewlyOf(s, t, "get") = {}
      BY <1>7, <1>9, <2>0, <2>1
    <3>2. InOrder(queue, ServesFirst(q))
      BY <1>2, <1>4, <2>1 DEF Ordered
    <3> HIDE DEF q, s, t, r
    <3>3. \A e \in NewlyOf(s, t, "put"), f \in Range(q.putQueue) : <<e, f>> \in ServesFirst(q)
      BY <1>4, <1>10, <2>1, <3>2
    <3> QED BY <3>1, <3>3 DEF GrantsFit
  <2>2. CASE type = "get"
    <3>1. NewlyOf(s, t, "put") = {}
      BY <1>7, <1>9, <2>0, <2>2
    <3>2. InOrder(queue, Older)
      BY <1>4, <2>2 DEF Ordered
    <3> HIDE DEF q, s, t, r
    <3>3. q.kind # "filterstore" =>
            \A e \in NewlyOf(s, t, "get"), f \in Range(q.getQueue) : <<e, f>> \in Older
      BY <1>2, <1>4, <1>10, <2>2, <3>2
    <3> QED BY <3>1, <3>3 DEF GrantsFit
  <2> QED BY <1>3, <2>1, <2>2
<1> QED BY <1>6, <1>11

\* _trigger_put and _trigger_get: what they leave is in order, whom they grant
\* was first, and whom they bump is told; a release that waits is served.
LEMMA ServedWorld ==
  ASSUME NEW w, WorldOK(w), ~ w.raised, NEW type \in RequestTypes, Ordered(w.res),
         NEW queue, queue = QueueOf(w.res, type), NEW v, v = Served(w, type),
         Freed(w.res) \/ (type = "get" /\ Slots(w.res) /\ Len(queue) = 1)
  PROVE  /\ WorldOK(v) /\ Quiet(w.sim, v.sim) /\ Fixed(w.res, v.res)
         /\ v.raised => v.sim = w.sim /\ type = "put"
         /\ Ordered(v.res) /\ Freed(v.res) /\ GrantsFit(w.sim, v.sim, v.res)
         /\ \E x : /\ ToldBut(x, w.res, w.sim, v.sim, v.res)
                   /\ x # None => type = "get" /\ Slots(w.res) /\ Len(queue) > 0 /\ x = w.res.asks[queue[1]].of
<1>1. PICK past : /\ past.w = v
                  /\ LoopSafe(w, type, queue, Len(queue), past)
                  /\ LoopHolders(w, type, queue, Len(queue), past)
                  /\ LoopOrder(w, type, queue, Len(queue), past)
  BY Serving
<1>2. /\ WorldOK(v) /\ Quiet(w.sim, v.sim) /\ Fixed(w.res, v.res)
      /\ v.raised => v.sim = w.sim /\ type = "put"
      /\ Len(queue) = 0 => v = w
  BY <1>1 DEF LoopSafe
<1>3. Ordered(v.res) /\ GrantsFit(w.sim, v.sim, v.res)
  BY <1>1, OrderServed
<1>4. type = "put" \/ type = "get"
  BY DEF RequestTypes
<1>5. queue \in Seq(Nat) /\ v.res.getQueue \in Seq(Nat)
  BY <1>2, WorldFields DEF ResOK, QueuesOK, QueueOK, QueueOf
<1>6. Len(queue) \in Nat /\ DOMAIN queue = 1 .. Len(queue)
  BY <1>5
<1>7. Slots(v.res) <=> Slots(w.res)
  BY <1>2, SameOrder DEF Fixed
<1>8. Freed(v.res)
  <2> SUFFICES ASSUME Slots(w.res) PROVE v.res.getQueue = <<>>
    BY <1>7 DEF Freed
  <2>1. CASE type = "put"
    BY <1>1, <2>1 DEF LoopOrder, Freed
  <2>2. CASE type = "get" /\ Len(queue) = 0
    BY <1>2, <1>5, <2>2 DEF QueueOf
  <2>3. CASE type = "get" /\ Len(queue) # 0
    <3>1. Len(queue) = 1
      BY <2>3 DEF Freed, QueueOf
    <3>2. Range(v.res.getQueue) = Range(queue) \ {queue[1]}
      BY <1>1, <2>3, <3>1 DEF LoopHolders
    <3>3. Range(queue) = {queue[1]}
      BY <1>6, <3>1 DEF Range
    <3> QED BY <1>5, <3>2, <3>3, EmptyQueue
  <2> QED BY <1>4, <2>1, <2>2, <2>3
<1>9. \E x : /\ ToldBut(x, w.res, w.sim, v.sim, v.res)
             /\ x # None => type = "get" /\ Slots(w.res) /\ Len(queue) > 0 /\ x = w.res.asks[queue[1]].of
  <2>1. CASE type = "put" \/ ~ Slots(w.res) \/ Len(queue) = 0
    <3>1. ToldBut(None, w.res, w.sim, v.sim, v.res)
      BY <1>1, <1>2, <1>4, <2>1 DEF LoopHolders, Told, ToldBut
    <3> QED BY <3>1
  <2>2. CASE type = "get" /\ Slots(w.res) /\ Len(queue) # 0
    <3>1. Len(queue) > 0
      BY <1>6, <2>2
    <3>2. Range(w.res.users) \ Range(v.res.users) \subseteq {w.res.asks[queue[1]].of}
      BY <1>1, <2>2, <3>1 DEF LoopHolders
    <3>3. ToldBut(w.res.asks[queue[1]].of, w.res, w.sim, v.sim, v.res)
      BY <3>2 DEF ToldBut
    <3> QED BY <2>2, <3>1, <3>3
  <2> QED BY <1>4, <2>1, <2>2
<1> QED BY <1>2, <1>3, <1>8, <1>9

-----------------------------------------------------------------------------
(* A new request. *)

LEMMA AppendInstead ==
  ASSUME NEW S, NEW a \in Seq(S), NEW x \in S, NEW y \in S
  PROVE  [Append(a, x) EXCEPT ![Len(a) + 1] = y] = Append(a, y)
<1>0. PICK b, c : b = Append(a, x) /\ c = Append(a, y)
  OBVIOUS
<1> DEFINE d == [b EXCEPT ![Len(a) + 1] = y]
<1>1. /\ Len(a) \in Nat /\ DOMAIN b = 1 .. (Len(a) + 1) /\ DOMAIN c = 1 .. (Len(a) + 1)
      /\ \A i \in 1 .. Len(a) : b[i] = a[i] /\ c[i] = a[i]
      /\ c[Len(a) + 1] = y /\ b \in Seq(S) /\ c \in Seq(S)
  BY <1>0
<1>2. c = [i \in 1 .. (Len(a) + 1) |-> c[i]]
  BY <1>1
<1>3. b = [i \in 1 .. (Len(a) + 1) |-> b[i]]
  BY <1>1
<1>4. DOMAIN d = 1 .. (Len(a) + 1) /\ d = [i \in 1 .. (Len(a) + 1) |-> d[i]]
  BY <1>3
<1>5. \A i \in 1 .. (Len(a) + 1) : d[i] = c[i]
  <2> TAKE i \in 1 .. (Len(a) + 1)
  <2>1. CASE i = Len(a) + 1
    BY <1>1, <2>1
  <2>2. CASE i # Len(a) + 1
    <3>1. i \in 1 .. Len(a)
      BY <1>1, <2>2
    <3> QED BY <1>1, <2>2, <3>1
  <2> QED BY <2>1, <2>2
<1> HIDE DEF d
<1>6. d = c
  BY <1>2, <1>4, <1>5
<1> QED BY <1>0, <1>6 DEF d

LEMMA RequestMade ==
  ASSUME NEW s, SimOK(s), NEW type \in RequestTypes, NEW do \in RequestTypes,
         NEW t, t = Create(s, [NewEvent(type) EXCEPT !.callbacks = <<Call(do, None)>>])
  PROVE  /\ Quiet(s, t) /\ SimOK(t)
         /\ Fresh(s) \in Nat \ {0} /\ \A f \in DOMAIN s.events : f \in Nat /\ f < Fresh(s)
         /\ DOMAIN t.events = DOMAIN s.events \cup {Fresh(s)}
         /\ \A f \in DOMAIN s.events : t.events[f] = s.events[f]
         /\ t.events[Fresh(s)].type = type /\ t.events[Fresh(s)].state = "pending"
<1>1. PICK r : r = NewEvent(type)
  OBVIOUS
<1>2. /\ r \in EventType /\ r.type = type /\ r.state = "pending" /\ ~ r.processed /\ ~ r.defused
      /\ r.callbacks = <<>> /\ r.target = None /\ r.members = <<>>
  BY <1>1, NewEventFits DEF RequestTypes
<1>3. Range(r.members) \subseteq DOMAIN s.events
  BY <1>2 DEF Range
<1>4. PICK call : call = Call(do, None)
  OBVIOUS
<1>5. call \in CallType /\ call.do = do
  BY <1>4 DEF Call, CallType, RequestTypes, None
<1>6. PICK full : full = [r EXCEPT !.callbacks = <<call>>]
  OBVIOUS
<1>7. full \in EventType /\ full.type = type /\ full.state = "pending"
  <2>1. <<call>> \in Seq(CallType)
    BY <1>5
  <2> QED BY <1>2, <1>6, <2>1 DEF EventType
<1>8. t = Create(s, full)
  BY <1>1, <1>4, <1>6
<1>9. PICK c : c = Create(s, r)
  OBVIOUS
<1>10. PICK e : e = Fresh(s)
  OBVIOUS
<1>11. /\ SimOK(c) /\ DOMAIN c.events = DOMAIN s.events \cup {e} /\ e \notin DOMAIN s.events
       /\ c.events[e] = r
       /\ \A f \in DOMAIN s.events : c.events[f] = s.events[f]
  BY <1>2, <1>3, <1>9, <1>10, AddEvent
<1>12. Quiet(s, c)
  BY <1>2, <1>3, <1>9, QuietCreate DEF RequestTypes
<1>13. t = Hook(c, e, call)
  <2>1. s \in SimType /\ s.events \in Seq(EventType)
    BY DEF SimOK, SimType
  <2>2. c.events = Append(s.events, r) /\ c = [s EXCEPT !.events = Append(s.events, r)]
    BY <1>9, <2>1 DEF Create, SimType
  <2>3. [c.events[e] EXCEPT !.callbacks = Append(@, call)] = full
    <3>1. Append(<<>>, call) = <<call>>
      OBVIOUS
    <3> QED BY <1>2, <1>6, <1>11, <3>1
  <2>4. [c.events EXCEPT ![e].callbacks = Append(@, call)] = [c.events EXCEPT ![e] = full]
    <3>1. PICK events : events = c.events
      OBVIOUS
    <3>2. [events EXCEPT ![e].callbacks = Append(@, call)]
            = [events EXCEPT ![e] = [events[e] EXCEPT !.callbacks = Append(@, call)]]
      OBVIOUS
    <3> QED BY <2>3, <3>1, <3>2
  <2>5. [c.events EXCEPT ![e] = full] = Append(s.events, full)
    <3>1. PICK a : a = s.events
      OBVIOUS
    <3>2. a \in Seq(EventType) /\ e = Len(a) + 1 /\ c.events = Append(a, r)
      BY <1>10, <2>1, <2>2, <3>1 DEF Fresh
    <3>3. r \in EventType /\ full \in EventType
      BY <1>2, <1>7
    <3>4. [Append(a, r) EXCEPT ![Len(a) + 1] = full] = Append(a, full)
      BY <3>2, <3>3, AppendInstead
    <3> QED BY <3>1, <3>2, <3>4
  <2>6. Hook(c, e, call) = [c EXCEPT !.events = Append(s.events, full)]
    BY <2>4, <2>5 DEF Hook
  <2>7. t = [s EXCEPT !.events = Append(s.events, full)]
    BY <1>8 DEF Create
  <2> QED BY <2>1, <2>2, <2>6, <2>7 DEF SimType
<1>14. CallOK(c, e, call) /\ ~ Waker(call)
  BY <1>2, <1>5, <1>11 DEF CallOK, Waker, RequestTypes
<1>15. e \in DOMAIN c.events /\ ~ c.events[e].processed
  BY <1>2, <1>11
<1>16. Quiet(c, t)
  BY <1>5, <1>11, <1>13, <1>14, <1>15, QuietHook
<1>17. Quiet(s, t) /\ SimOK(t)
  <2>1. Quiet(s, t)
    BY <1>12, <1>16, TameTrans DEF Quiet
  <2> QED BY <2>1 DEF Quiet, Tame
<1>18. /\ DOMAIN t.events = DOMAIN s.events \cup {e} /\ t.events[e] = full
       /\ \A f \in DOMAIN s.events : t.events[f] = s.events[f]
       /\ e \in Nat \ {0} /\ \A f \in DOMAIN s.events : f \in Nat /\ f < e
  <2>1. t.events = Append(s.events, full) /\ s.events \in Seq(EventType)
    BY <1>8 DEF Create, SimOK, SimType
  <2>2. PICK a : a = s.events
    OBVIOUS
  <2>3. e = Len(a) + 1 /\ a \in Seq(EventType)
    BY <1>10, <2>1, <2>2 DEF Fresh
  <2>4. PICK b : b = Append(a, full)
    OBVIOUS
  <2>5. /\ Len(a) \in Nat /\ DOMAIN a = 1 .. Len(a) /\ DOMAIN b = 1 .. (Len(a) + 1)
        /\ \A i \in 1 .. Len(a) : b[i] = a[i]
        /\ b[Len(a) + 1] = full
    BY <1>7, <2>3, <2>4
  <2>6. t.events = b /\ s.events = a
    BY <2>1, <2>2, <2>4
  <2>7. DOMAIN b = DOMAIN a \cup {e} /\ e \in Nat \ {0} /\ \A f \in DOMAIN a : f \in Nat /\ f < e
    BY <2>3, <2>5
  <2> HIDE <2>2, <2>4
  <2> QED BY <2>3, <2>5, <2>6, <2>7
<1> QED BY <1>7, <1>10, <1>17, <1>18

\* From s to t the request e has been made, of that type.
Extended(s, t, type, e) ==
  /\ e \in Nat \ {0} /\ \A f \in DOMAIN s.events : f \in Nat /\ f < e
  /\ DOMAIN t.events = DOMAIN s.events \cup {e}
  /\ \A f \in DOMAIN s.events : t.events[f] = s.events[f]
  /\ t.events[e].type = type /\ t.events[e].state = "pending"

\* From r to q it is known what e is about ...
Recorded(s, r, q, e) ==
  /\ IsRes(q) /\ q.kind = r.kind /\ q.capacity = r.capacity /\ q.initial = r.initial
  /\ Stock(r, q) /\ q.users = r.users /\ q.gone = r.gone
  /\ DOMAIN q.asks = DOMAIN r.asks \cup {e} /\ \A f \in DOMAIN r.asks : q.asks[f] = r.asks[f]
  /\ q.asks[e].n \in Int /\ q.asks[e].time \in Nat
  /\ q.asks[e].proc \in {None} \cup Processes(s)
  /\ r.kind = "container" => q.asks[e].n \in Nat

\* ... and it waits.
Joins(r, q, type, e) ==
  /\ QueueOf(q, type) \in Seq(Nat) /\ IsInjective(QueueOf(q, type))
  /\ Range(QueueOf(q, type)) = Range(QueueOf(r, type)) \cup {e}
  /\ type = "put" => q.getQueue = r.getQueue
  /\ type = "get" => q.putQueue = r.putQueue

LEMMA ExtendedSets ==
  ASSUME NEW s, NEW t, NEW type \in RequestTypes, NEW e, Extended(s, t, type, e)
  PROVE  /\ e \notin DOMAIN s.events
         /\ RequestsIn(t) = RequestsIn(s) \cup {e}
         /\ \A other \in RequestTypes : GrantedOf(t, other) = GrantedOf(s, other)
         /\ Processes(t) = Processes(s)
<1>1. e \notin DOMAIN s.events
  BY DEF Extended
<1>2. RequestsIn(t) = RequestsIn(s) \cup {e}
  BY <1>1 DEF Extended, RequestsIn, IsRequest
<1>3. ASSUME NEW other \in RequestTypes PROVE GrantedOf(t, other) = GrantedOf(s, other)
  BY <1>1 DEF Extended, GrantedOf
<1>4. Processes(t) = Processes(s)
  BY <1>1 DEF Extended, Processes, RequestTypes
<1> QED BY <1>1, <1>2, <1>3, <1>4

LEMMA JoinedOK ==
  ASSUME NEW s, SimOK(s), NEW r, ResOK(s, r), NEW type \in RequestTypes,
         NEW t, SimOK(t), NEW e, Extended(s, t, type, e),
         NEW q, Recorded(s, r, q, e), Joins(r, q, type, e)
  PROVE  ResOK(t, q)
<1>1. /\ e \notin DOMAIN s.events
      /\ RequestsIn(t) = RequestsIn(s) \cup {e}
      /\ \A other \in RequestTypes : GrantedOf(t, other) = GrantedOf(s, other)
      /\ Processes(t) = Processes(s)
  BY ExtendedSets
<1>2. /\ AsksOK(s, r) /\ QueuesOK(s, r) /\ HoldersOK(s, r) /\ StockOK(s, r)
      /\ r.kind \in Kinds /\ r.capacity \in Nat \ {0} /\ r.initial \in Int
  BY DEF ResOK
<1>3. type = "put" \/ type = "get"
  BY DEF RequestTypes
<1>4. "put" \in RequestTypes /\ "get" \in RequestTypes
  BY DEF RequestTypes
<1>5. \A f \in RequestsIn(s) : f \in DOMAIN s.events /\ f # e
  BY <1>1 DEF RequestsIn
<1>6. AsksOK(t, q)
  <2>1. DOMAIN q.asks = RequestsIn(t)
    BY <1>1, <1>2 DEF AsksOK, Recorded
  <2>2. ASSUME NEW f \in RequestsIn(s)
        PROVE  /\ t.events[f].state \in {"pending", "ok"}
               /\ q.asks[f].n \in Int /\ q.asks[f].time \in Nat
               /\ q.asks[f].proc \in {None} \cup Processes(t)
               /\ q.kind = "container" => q.asks[f].n \in Nat
    <3>1. t.events[f] = s.events[f] /\ q.asks[f] = r.asks[f] /\ q.kind = r.kind
      BY <1>2, <1>5 DEF Extended, Recorded, AsksOK
    <3> QED BY <1>1, <1>2, <3>1 DEF AsksOK
  <2>3. /\ t.events[e].state \in {"pending", "ok"}
        /\ q.asks[e].n \in Int /\ q.asks[e].time \in Nat
        /\ q.asks[e].proc \in {None} \cup Processes(t)
        /\ q.kind = "container" => q.asks[e].n \in Nat
    BY <1>1 DEF Extended, Recorded
  <2> QED BY <1>1, <2>1, <2>2, <2>3 DEF AsksOK
<1>7. QueuesOK(t, q)
  <2>1. ASSUME NEW queue, NEW other, QueueOK(s, queue, other) PROVE QueueOK(t, queue, other)
    BY <2>1 DEF QueueOK, Extended
  <2>2. /\ QueueOK(s, r.putQueue, "put") /\ QueueOK(s, r.getQueue, "get")
    BY <1>2 DEF QueuesOK
  <2>3. QueueOK(t, q.putQueue, "put")
    <3>1. CASE type = "put"
      <4>1. /\ q.putQueue \in Seq(Nat) /\ IsInjective(q.putQueue)
            /\ Range(q.putQueue) = Range(r.putQueue) \cup {e}
        BY <3>1 DEF Joins, QueueOf
      <4> QED BY <2>2, <3>1, <4>1 DEF QueueOK, Extended
    <3>2. CASE type = "get"
      BY <2>1, <2>2, <3>2 DEF Joins
    <3> QED BY <1>3, <3>1, <3>2
  <2>4. QueueOK(t, q.getQueue, "get")
    <3>1. CASE type = "get"
      <4>1. /\ q.getQueue \in Seq(Nat) /\ IsInjective(q.getQueue)
            /\ Range(q.getQueue) = Range(r.getQueue) \cup {e}
        BY <3>1 DEF Joins, QueueOf
      <4> QED BY <2>2, <3>1, <4>1 DEF QueueOK, Extended
    <3>2. CASE type = "put"
      BY <2>1, <2>2, <3>2 DEF Joins
    <3> QED BY <1>3, <3>1, <3>2
  <2>5. Range(q.putQueue) \cup Range(q.getQueue) = Range(r.putQueue) \cup Range(r.getQueue) \cup {e}
    BY <1>3 DEF Joins, QueueOf
  <2>6. q.gone = r.gone /\ e \notin r.gone
    BY <1>2, <1>5 DEF Recorded, QueuesOK
  <2>7. \A f \in RequestsIn(t) :
          f \in Range(q.putQueue) \cup Range(q.getQueue)
            <=> t.events[f].state = "pending" /\ f \notin q.gone
    <3> TAKE f \in RequestsIn(t)
    <3>1. CASE f = e
      BY <2>5, <2>6, <3>1 DEF Extended
    <3>2. CASE f # e
      <4>1. f \in RequestsIn(s) /\ t.events[f] = s.events[f]
        BY <1>1, <1>5, <3>2 DEF Extended
      <4>2. f \in Range(r.putQueue) \cup Range(r.getQueue)
              <=> s.events[f].state = "pending" /\ f \notin r.gone
        BY <1>2, <4>1 DEF QueuesOK
      <4> QED BY <2>5, <2>6, <3>2, <4>1, <4>2
    <3> QED BY <3>1, <3>2
  <2>8. q.gone \subseteq RequestsIn(t) /\ \A f \in q.gone : t.events[f].state = "pending"
    <3>1. r.gone \subseteq RequestsIn(s) /\ \A f \in r.gone : s.events[f].state = "pending"
      BY <1>2 DEF QueuesOK
    <3> QED BY <1>1, <1>5, <2>6, <3>1 DEF Extended
  <2> QED BY <2>3, <2>4, <2>7, <2>8 DEF QueuesOK
<1>8. HoldersOK(t, q)
  BY <1>1, <1>2, <1>4 DEF HoldersOK, Recorded
<1>9. r.kind = "container" => LevelOK(t, q)
  <2> SUFFICES ASSUME r.kind = "container" PROVE LevelOK(t, q)
    OBVIOUS
  <2>1. LevelOK(s, r)
    BY <1>2 DEF StockOK, Slots
  <2>2. ASSUME NEW other \in RequestTypes
        PROVE  Total(Amounts(t, q, other)) = Total(Amounts(s, r, other))
    <3>1. \A f \in GrantedOf(s, other) : f \in RequestsIn(s)
      BY DEF GrantedOf, RequestsIn, IsRequest
    <3>2. \A f \in GrantedOf(s, other) : q.asks[f].n = r.asks[f].n
      BY <1>2, <3>1 DEF Recorded, AsksOK
    <3>3. GrantedOf(t, other) = GrantedOf(s, other)
      BY <1>1
    <3>4. DOMAIN s.events \subseteq DOMAIN t.events
      BY DEF Extended
    <3> QED BY <1>2, <1>6, <3>2, <3>3, <3>4, AmountsStay
  <2>3. /\ Total(Amounts(t, q, "put")) = Total(Amounts(s, r, "put"))
        /\ Total(Amounts(t, q, "get")) = Total(Amounts(s, r, "get"))
    BY <1>4, <2>2
  <2>4. q.level = r.level /\ q.initial = r.initial /\ q.capacity = r.capacity
    BY DEF Recorded, Stock
  <2> QED BY <2>1, <2>3, <2>4 DEF LevelOK
<1>10. ~ Slots(r) /\ r.kind # "container" => ItemsOK(t, q)
  <2> SUFFICES ASSUME ~ Slots(r), r.kind # "container" PROVE ItemsOK(t, q)
    OBVIOUS
  <2>1. ItemsOK(s, r)
    BY <1>2 DEF StockOK
  <2>2. GrantedOf(t, "put") = GrantedOf(s, "put") /\ GrantedOf(t, "get") = GrantedOf(s, "get")
    BY <1>1, <1>4
  <2> QED BY <2>1, <2>2 DEF ItemsOK, Recorded, Stock
<1>11. StockOK(t, q)
  BY <1>9, <1>10 DEF StockOK, Recorded, Slots
<1> QED BY <1>2, <1>6, <1>7, <1>8, <1>11 DEF ResOK, Recorded

\* A queue in order stays so when the last comes last, or each in its place.
LEMMA AppendInOrder ==
  ASSUME NEW a \in Seq(Nat), NEW x \in Nat, NEW R, InOrder(a, R), \A f \in Range(a) : <<f, x>> \in R
  PROVE  InOrder(Append(a, x), R)
<1>1. PICK b : b = Append(a, x)
  OBVIOUS
<1>2. /\ Len(a) \in Nat /\ DOMAIN a = 1 .. Len(a) /\ DOMAIN b = 1 .. (Len(a) + 1)
      /\ \A i \in 1 .. Len(a) : b[i] = a[i]
      /\ b[Len(a) + 1] = x
  BY <1>1
<1>3. \A i \in 1 .. Len(a) : <<a[i], x>> \in R
  BY <1>2 DEF Range
<1>4. ASSUME NEW i \in DOMAIN b, NEW j \in DOMAIN b, i < j PROVE <<b[i], b[j]>> \in R
  <2>1. i \in 1 .. Len(a) /\ b[i] = a[i]
    BY <1>2, <1>4
  <2>2. CASE j = Len(a) + 1
    BY <1>2, <1>3, <2>1, <2>2
  <2>3. CASE j # Len(a) + 1
    <3>1. j \in 1 .. Len(a) /\ b[j] = a[j]
      BY <1>2, <2>3
    <3> QED BY <1>2, <1>4, <2>1, <3>1 DEF InOrder
  <2> QED BY <2>2, <2>3
<1>5. InOrder(b, R)
  BY <1>4 DEF InOrder
<1> QED BY <1>1, <1>5

LEMMA InsertInOrder ==
  ASSUME NEW a \in Seq(Nat), IsInjective(a), NEW x \in Nat \ Range(a), NEW k \in 1 .. Len(a) + 1,
         NEW R, InOrder(a, R),
         \A i \in DOMAIN a : IF i < k THEN <<a[i], x>> \in R ELSE <<x, a[i]>> \in R
  PROVE  InOrder(InsertAt(a, k, x), R)
<1>1. PICK b : b = InsertAt(a, k, x)
  OBVIOUS
<1>2. /\ b \in Seq(Nat) /\ Len(b) = Len(a) + 1
      /\ \A j \in 1 .. Len(a) + 1 : b[j] = IF j < k THEN a[j] ELSE IF j = k THEN x ELSE a[j - 1]
  BY <1>1, InsertId, SMTT(30)
<1>3. Len(a) \in Nat /\ DOMAIN a = 1 .. Len(a) /\ DOMAIN b = 1 .. (Len(a) + 1) /\ k \in Nat
  BY <1>2
<1>4. ASSUME NEW i \in DOMAIN b, NEW j \in DOMAIN b, i < j PROVE <<b[i], b[j]>> \in R
  <2>1. CASE i = k
    <3>1. b[i] = x /\ b[j] = a[j - 1] /\ j - 1 \in DOMAIN a /\ ~(j - 1 < k)
      BY <1>2, <1>3, <1>4, <2>1
    <3> QED BY <3>1
  <2>2. CASE j = k
    <3>1. b[j] = x /\ b[i] = a[i] /\ i \in DOMAIN a /\ i < k
      BY <1>2, <1>3, <1>4, <2>2
    <3> QED BY <3>1
  <2>3. CASE i # k /\ j # k
    <3>1. PICK u, v : u = (IF i < k THEN i ELSE i - 1) /\ v = (IF j < k THEN j ELSE j - 1)
      OBVIOUS
    <3>2. u \in DOMAIN a /\ v \in DOMAIN a /\ u < v
      BY <1>3, <1>4, <2>3, <3>1, SMTT(30)
    <3>3. b[i] = a[u] /\ b[j] = a[v]
      BY <1>2, <1>3, <2>3, <3>1
    <3> QED BY <3>2, <3>3 DEF InOrder
  <2> QED BY <2>1, <2>2, <2>3
<1>5. InOrder(b, R)
  BY <1>4 DEF InOrder
<1> QED BY <1>1, <1>5

\* A set of positions with all that come before them is 1 .. its size.
LEMMA FirstPositions ==
  ASSUME NEW n \in Nat, NEW S \in SUBSET (1 .. n), \A i \in S, j \in 1 .. n : j < i => j \in S
  PROVE  Cardinality(S) \in 0 .. n /\ S = 1 .. Cardinality(S)
<1> DEFINE Out == {i \in Nat : i \in 1 .. n + 1 /\ i \notin S}
<1>1. n + 1 \in Out
  OBVIOUS
<1>2. PICK m \in Out : \A k \in Out : m <= k
  BY <1>1, LeastNatural
<1>3. PICK l : l = m - 1
  OBVIOUS
<1>4. l \in 0 .. n /\ m = l + 1
  BY <1>2, <1>3
<1>5. S = 1 .. l
  <2>1. ASSUME NEW i \in S PROVE i \in 1 .. l
    <3>1. i \in 1 .. n
      OBVIOUS
    <3>2. ~(l < i)
      <4> SUFFICES ASSUME l < i PROVE FALSE
        OBVIOUS
      <4>1. m = i \/ m < i
        BY <1>4, <3>1
      <4>2. m \in 1 .. n /\ m \notin S
        BY <1>2, <3>1, <4>1
      <4> QED BY <4>1, <4>2
    <3> QED BY <1>4, <3>1, <3>2
  <2>2. ASSUME NEW i \in 1 .. l PROVE i \in S
    <3>1. i \in Nat /\ i \in 1 .. n + 1 /\ ~(m <= i)
      BY <1>4
    <3> QED BY <1>2, <3>1
  <2> QED BY <2>1, <2>2
<1>6. Cardinality(1 .. l) = l
  BY <1>4, FS_Interval
<1> QED BY <1>4, <1>5, <1>6

\* list.append, or SortedQueue.append: the new request takes the place that
\* the order of the discipline gives it.
LEMMA EnqueueFits ==
  ASSUME NEW r, NEW a \in Seq(Nat), IsInjective(a), NEW e \in Nat \ Range(a),
         \A f \in Range(a) \cup {e} : r.asks[f].n \in Int /\ r.asks[f].time \in Nat,
         \A f \in Range(a) : f < e,
         InOrder(a, ServesFirst(r)), NEW b, b = Enqueue(r, a, e)
  PROVE  /\ b \in Seq(Nat) /\ IsInjective(b) /\ Range(b) = Range(a) \cup {e}
         /\ InOrder(b, ServesFirst(r))
<1>1. Len(a) \in Nat /\ DOMAIN a = 1 .. Len(a) /\ \A i \in 1 .. Len(a) : a[i] \in Range(a) /\ a[i] \in Nat
  BY DEF Range
<1>2. CASE ~ Sorted(r)
  <2>1. b = Append(a, e)
    BY <1>2 DEF Enqueue
  <2>2. \A f \in Range(a) : <<f, e>> \in ServesFirst(r)
    <3>1. \A f \in Range(a) : f \in Nat
      BY DEF Range
    <3> QED BY <1>2, <3>1 DEF ServesFirst
  <2>3. InOrder(Append(a, e), ServesFirst(r))
    BY <2>2, AppendInOrder
  <2> QED BY <2>1, <2>3, AppendId
<1>3. CASE Sorted(r)
  <2> DEFINE ahead == {i \in DOMAIN a : ~KeyLess(r.asks[e], r.asks[a[i]])}
  <2>1. \A i \in ahead, j \in 1 .. Len(a) : j < i => j \in ahead
    <3> SUFFICES ASSUME NEW i \in ahead, NEW j \in 1 .. Len(a), j < i,
                        KeyLess(r.asks[e], r.asks[a[j]])
                 PROVE  FALSE
      BY <1>1
    <3>1. <<a[j], a[i]>> \in ServesFirst(r)
      BY <1>1 DEF InOrder
    <3>2. ~ KeyLess(r.asks[a[i]], r.asks[a[j]])
      <4>1. KeyLess(r.asks[a[j]], r.asks[a[i]]) => ~ KeyLess(r.asks[a[i]], r.asks[a[j]])
        BY <1>1, KeyAsymmetric
      <4> QED BY <1>3, <3>1, <4>1 DEF ServesFirst
    <3>3. PICK x, y, z : x = r.asks[e] /\ y = r.asks[a[i]] /\ z = r.asks[a[j]]
      OBVIOUS
    <3>4. x.n \in Int /\ y.n \in Int /\ z.n \in Int /\ x.time \in Nat /\ y.time \in Nat /\ z.time \in Nat
      BY <1>1, <3>3
    <3>5. KeyLess(x, z) /\ ~ KeyLess(x, y) /\ ~ KeyLess(y, z)
      BY <3>2, <3>3
    <3> QED BY <3>4, <3>5, KeyOrder
  <2>2. PICK c : c = Cardinality(ahead)
    OBVIOUS
  <2>3. c \in 0 .. Len(a) /\ ahead = 1 .. c
    <3>1. ahead \in SUBSET (1 .. Len(a))
      BY <1>1
    <3> HIDE DEF ahead
    <3> QED BY <1>1, <2>1, <2>2, <3>1, FirstPositions
  <2>4. PICK k : k = c + 1
    OBVIOUS
  <2>5. k \in 1 .. Len(a) + 1 /\ b = InsertAt(a, k, e)
    BY <1>1, <1>3, <2>2, <2>3, <2>4 DEF Enqueue
  <2>6. \A i \in DOMAIN a : IF i < k THEN <<a[i], e>> \in ServesFirst(r) ELSE <<e, a[i]>> \in ServesFirst(r)
    <3> TAKE i \in DOMAIN a
    <3>1. a[i] \in Nat /\ a[i] < e /\ a[i] \in Range(a)
      BY <1>1
    <3>2. PICK f : f = a[i]
      OBVIOUS
    <3>3. i < k <=> i \in ahead
      BY <1>1, <2>3, <2>4
    <3>4. CASE i < k
      <4>1. ~ KeyLess(r.asks[e], r.asks[f])
        BY <3>2, <3>3, <3>4
      <4> QED BY <3>1, <3>2, <3>4, <4>1 DEF ServesFirst
    <3>5. CASE ~(i < k)
      <4>1. KeyLess(r.asks[e], r.asks[f])
        BY <3>2, <3>3, <3>5
      <4> QED BY <1>3, <3>1, <3>2, <3>5, <4>1 DEF ServesFirst
    <3> QED BY <3>4, <3>5
  <2>7. InOrder(b, ServesFirst(r))
    BY <2>5, <2>6, InsertInOrder
  <2> QED BY <2>5, <2>7, InsertId
<1> QED BY <1>2, <1>3

\* The new request, by itself.
LEMMA AskedBare ==
  ASSUME NEW s, SimOK(s), NEW r, ResOK(s, r), NEW type \in RequestTypes, NEW do \in RequestTypes,
         NEW ask, ask.n \in Int, r.kind = "container" => ask.n \in Nat,
         ask.proc = s.active, ask.time = s.now,
         NEW w, w = Asked(s, r, type, ask, do), NEW e, e = Fresh(s)
  PROVE  /\ IsWorld(w) /\ ~ w.raised /\ SimOK(w.sim) /\ Quiet(s, w.sim)
         /\ Extended(s, w.sim, type, e) /\ Recorded(s, r, w.res, e) /\ Queues(r, w.res)
         /\ w.res.asks[e] = ask
<1>1. PICK t : t = Create(s, [NewEvent(type) EXCEPT !.callbacks = <<Call(do, None)>>])
  OBVIOUS
<1>2. PICK x : x = Asking(r.asks, e, ask)
  OBVIOUS
<1>3. PICK q : q = [r EXCEPT !.asks = x]
  OBVIOUS
<1>4. w = [sim |-> t, res |-> q, raised |-> FALSE]
  BY <1>1, <1>2, <1>3 DEF Asked, World
<1>5. /\ Quiet(s, t) /\ SimOK(t) /\ Extended(s, t, type, e)
  BY <1>1, RequestMade DEF Extended
<1>6. /\ IsRes(q) /\ q.kind = r.kind /\ q.capacity = r.capacity /\ q.initial = r.initial
      /\ Stock(r, q) /\ Queues(r, q) /\ q.users = r.users /\ q.gone = r.gone /\ q.asks = x
  BY <1>3, SetAsks DEF ResOK
<1>7. e \notin DOMAIN r.asks
  <2>1. e \notin DOMAIN s.events
    BY <1>5, ExtendedSets
  <2> QED BY <2>1 DEF ResOK, AsksOK, RequestsIn
<1>8. /\ DOMAIN x = DOMAIN r.asks \cup {e} /\ x[e] = ask
      /\ \A f \in DOMAIN r.asks : x[f] = r.asks[f]
  BY <1>2, <1>7 DEF Asking
<1>9. s.active \in {None} \cup Processes(s) /\ s.now \in Nat
  BY SimFields DEF SimOK
<1>10. Recorded(s, r, q, e)
  BY <1>6, <1>8, <1>9 DEF Recorded
<1> QED BY <1>4, <1>5, <1>6, <1>8, <1>10 DEF IsWorld

\* The queues are in the same order when it is known what e is about.
LEMMA OldOrder ==
  ASSUME NEW s, NEW r, ResOK(s, r), Ordered(r), NEW e, NEW q, Recorded(s, r, q, e)
  PROVE  InOrder(r.putQueue, ServesFirst(q)) /\ InOrder(r.getQueue, Older)
<1>1. /\ r.putQueue \in Seq(Nat) /\ \A f \in Range(r.putQueue) : f \in DOMAIN r.asks
  <2>1. QueuesOK(s, r) /\ AsksOK(s, r)
    BY DEF ResOK
  <2> QED BY <2>1 DEF QueuesOK, QueueOK, AsksOK, RequestsIn, IsRequest, RequestTypes
<1>2. \A f \in Range(r.putQueue) : q.asks[f] = r.asks[f]
  BY <1>1 DEF Recorded
<1>3. Sorted(q) <=> Sorted(r)
  BY DEF Recorded, Sorted
<1>4. ASSUME NEW i \in DOMAIN r.putQueue, NEW j \in DOMAIN r.putQueue, i < j
      PROVE  <<r.putQueue[i], r.putQueue[j]>> \in ServesFirst(q)
  <2>1. PICK f, g : f = r.putQueue[i] /\ g = r.putQueue[j]
    OBVIOUS
  <2>2. q.asks[f] = r.asks[f] /\ q.asks[g] = r.asks[g]
    BY <1>2, <2>1 DEF Range
  <2>3. <<f, g>> \in ServesFirst(r)
    BY <1>4, <2>1 DEF Ordered, InOrder
  <2>4. <<f, g>> \in ServesFirst(q)
    BY <1>3, <2>2, <2>3 DEF ServesFirst
  <2> QED BY <2>1, <2>4
<1> QED BY <1>4 DEF InOrder, Ordered

\* w once the request e has joined its queue.
PutQueued(w, e) == [w EXCEPT !.res.putQueue = Enqueue(w.res, @, e)]
GetQueued(w, e) == [w EXCEPT !.res.getQueue = Append(@, e)]

LEMMA AskedPut ==
  ASSUME NEW s, SimOK(s), NEW r, ResOK(s, r), Ordered(r),
         NEW n \in Int, r.kind = "container" => n \in Nat, NEW preempt, NEW e, e = Fresh(s),
         NEW ask, ask = NewAsk(s, n, preempt, None),
         NEW w, w = Asked(s, r, "put", ask, "get"), NEW u, u = PutQueued(w, e)
  PROVE  /\ WorldOK(u) /\ ~ u.raised /\ Quiet(s, u.sim) /\ Extended(s, u.sim, "put", e)
         /\ Recorded(s, r, u.res, e) /\ Ordered(u.res) /\ u.res.getQueue = r.getQueue
<1>0. "put" \in RequestTypes /\ "get" \in RequestTypes
  BY DEF RequestTypes
<1>1. /\ IsWorld(w) /\ ~ w.raised /\ SimOK(w.sim) /\ Quiet(s, w.sim)
      /\ Extended(s, w.sim, "put", e) /\ Recorded(s, r, w.res, e) /\ Queues(r, w.res)
  <2>2. ask.n = n /\ ask.proc = s.active /\ ask.time = s.now
    BY DEF NewAsk
  <2> QED BY <1>0, <2>2, AskedBare
<1>2. PICK p : p = w.res
  OBVIOUS
<1>3. PICK a : a = r.putQueue
  OBVIOUS
<1>4. PICK b : b = Enqueue(p, a, e)
  OBVIOUS
<1>5. PICK q : q = [p EXCEPT !.putQueue = b]
  OBVIOUS
<1>6. u = [sim |-> w.sim, res |-> q, raised |-> w.raised]
  <2>1. p.putQueue = a
    BY <1>1, <1>2, <1>3 DEF Queues
  <2>2. w = [sim |-> w.sim, res |-> p, raised |-> w.raised]
    BY <1>1, <1>2 DEF IsWorld
  <2>3. u = [w EXCEPT !.res = q]
    BY <1>2, <1>4, <1>5, <2>1 DEF PutQueued
  <2> QED BY <2>2, <2>3
<1>7. /\ Fixed(p, q) /\ Stock(p, q) /\ q.users = p.users /\ q.putQueue = b /\ q.getQueue = p.getQueue
  BY <1>1, <1>2, <1>5, SetPutQueue DEF Recorded
<1>8. Recorded(s, r, q, e)
  BY <1>1, <1>2, <1>7 DEF Recorded, Fixed, Stock
<1>9. /\ a \in Seq(Nat) /\ IsInjective(a)
      /\ \A f \in Range(a) : f \in DOMAIN s.events /\ f \in DOMAIN r.asks
      /\ \A f \in DOMAIN r.asks : r.asks[f].n \in Int /\ r.asks[f].time \in Nat
  <2>1. QueuesOK(s, r) /\ AsksOK(s, r)
    BY DEF ResOK
  <2> QED BY <1>3, <2>1 DEF QueuesOK, QueueOK, AsksOK, RequestsIn, IsRequest, RequestTypes
<1>10. e \in Nat \ Range(a) /\ \A f \in Range(a) : f < e
  <2>1. e \notin DOMAIN s.events
    BY <1>0, <1>1, ExtendedSets
  <2> QED BY <1>1, <1>9, <2>1 DEF Extended
<1>11. \A f \in Range(a) \cup {e} : p.asks[f].n \in Int /\ p.asks[f].time \in Nat
  BY <1>1, <1>2, <1>9 DEF Recorded
<1>12. InOrder(a, ServesFirst(p)) /\ InOrder(r.getQueue, Older)
  BY <1>1, <1>2, <1>3, OldOrder
<1>13. /\ b \in Seq(Nat) /\ IsInjective(b) /\ Range(b) = Range(a) \cup {e}
       /\ InOrder(b, ServesFirst(p))
  BY <1>4, <1>9, <1>10, <1>11, <1>12, EnqueueFits
<1>14. Joins(r, q, "put", e) /\ q.getQueue = r.getQueue
  BY <1>1, <1>2, <1>3, <1>7, <1>13 DEF Joins, QueueOf, Queues
<1>15. ResOK(w.sim, q)
  BY <1>0, <1>1, <1>8, <1>14, JoinedOK
<1>16. ServesFirst(q) = ServesFirst(p)
  BY <1>7, SameOrder DEF Fixed
<1>17. Ordered(q)
  BY <1>7, <1>12, <1>13, <1>14, <1>16 DEF Ordered
<1> QED BY <1>1, <1>6, <1>8, <1>14, <1>15, <1>17 DEF WorldOK, IsWorld

LEMMA AskedGet ==
  ASSUME NEW s, SimOK(s), NEW r, ResOK(s, r), Ordered(r), NEW e, e = Fresh(s),
         NEW ask, ask.n \in Int, r.kind = "container" => ask.n \in Nat,
         ask.proc = s.active, ask.time = s.now,
         NEW w, w = Asked(s, r, "get", ask, "put"),
         NEW u, u = GetQueued(w, e)
  PROVE  /\ WorldOK(u) /\ ~ u.raised /\ Quiet(s, u.sim) /\ Extended(s, u.sim, "get", e)
         /\ Recorded(s, r, u.res, e) /\ Ordered(u.res) /\ u.res.asks[e] = ask
         /\ u.res.getQueue = Append(r.getQueue, e)
<1>0. "put" \in RequestTypes /\ "get" \in RequestTypes
  BY DEF RequestTypes
<1>1. /\ IsWorld(w) /\ ~ w.raised /\ SimOK(w.sim) /\ Quiet(s, w.sim)
      /\ Extended(s, w.sim, "get", e) /\ Recorded(s, r, w.res, e) /\ Queues(r, w.res)
      /\ w.res.asks[e] = ask
  BY <1>0, AskedBare
<1>2. PICK p : p = w.res
  OBVIOUS
<1>3. PICK a : a = r.getQueue
  OBVIOUS
<1>4. PICK b : b = Append(a, e)
  OBVIOUS
<1>5. PICK q : q = [p EXCEPT !.getQueue = b]
  OBVIOUS
<1>6. u = [sim |-> w.sim, res |-> q, raised |-> w.raised]
  <2>1. p.getQueue = a
    BY <1>1, <1>2, <1>3 DEF Queues
  <2>2. w = [sim |-> w.sim, res |-> p, raised |-> w.raised]
    BY <1>1, <1>2 DEF IsWorld
  <2>3. u = [w EXCEPT !.res = q]
    BY <1>2, <1>4, <1>5, <2>1 DEF GetQueued
  <2> QED BY <2>2, <2>3
<1>7. /\ Fixed(p, q) /\ Stock(p, q) /\ q.users = p.users /\ q.putQueue = p.putQueue /\ q.getQueue = b
  <2>1. IsRes(p)
    BY <1>1, <1>2 DEF Recorded
  <2> QED BY <1>5, <2>1 DEF IsRes, Fixed, Stock
<1>8. Recorded(s, r, q, e)
  BY <1>1, <1>2, <1>7 DEF Recorded, Fixed, Stock
<1>9. /\ a \in Seq(Nat) /\ IsInjective(a) /\ \A f \in Range(a) : f \in DOMAIN s.events
  BY <1>3 DEF ResOK, QueuesOK, QueueOK
<1>10. e \in Nat \ Range(a) /\ \A f \in Range(a) : f \in Nat /\ f < e
  <2>1. e \notin DOMAIN s.events
    BY <1>0, <1>1, ExtendedSets
  <2> QED BY <1>1, <1>9, <2>1 DEF Extended
<1>11. InOrder(r.putQueue, ServesFirst(p)) /\ InOrder(a, Older)
  BY <1>1, <1>2, <1>3, OldOrder
<1>12. /\ b \in Seq(Nat) /\ IsInjective(b) /\ Range(b) = Range(a) \cup {e}
  BY <1>4, <1>9, <1>10, AppendId
<1>13. InOrder(b, Older)
  <2>1. \A f \in Range(a) : <<f, e>> \in Older
    BY <1>10 DEF Older
  <2> QED BY <1>4, <1>9, <1>10, <1>11, <2>1, AppendInOrder
<1>14. Joins(r, q, "get", e) /\ q.putQueue = r.putQueue
  BY <1>1, <1>2, <1>3, <1>7, <1>12 DEF Joins, QueueOf, Queues
<1>15. ResOK(w.sim, q)
  BY <1>0, <1>1, <1>8, <1>14, JoinedOK
<1>16. ServesFirst(q) = ServesFirst(p)
  BY <1>7, SameOrder DEF Fixed
<1>17. Ordered(q)
  BY <1>7, <1>11, <1>13, <1>14, <1>16 DEF Ordered
<1>18. q.asks[e] = ask
  BY <1>1, <1>2, <1>7 DEF Fixed
<1>19. u.sim = w.sim /\ u.res = q /\ ~ u.raised /\ IsWorld(u)
  <2>1. u.sim = w.sim /\ u.res = q
    BY <1>6
  <2>2. ~ u.raised
    BY <1>1, <1>6
  <2>3. IsWorld(u)
    BY <1>6 DEF IsWorld
  <2> QED BY <2>1, <2>2, <2>3
<1>20. q.getQueue = Append(r.getQueue, e)
  BY <1>3, <1>4, <1>7
<1>21. WorldOK(u)
  BY <1>1, <1>15, <1>19 DEF WorldOK
<1> QED BY <1>1, <1>8, <1>17, <1>18, <1>19, <1>20, <1>21

-----------------------------------------------------------------------------
(* The calls of user code. *)

\* From r to q, holders have released their slots by a new request, or hear of
\* their loss.
LossesHeard(s, r, t, q) ==
  \A x \in Range(r.users) \ Range(q.users) :
    \/ \E f \in DOMAIN t.events \ DOMAIN s.events : q.asks[f].of = x
    \/ NewlyDue(s, t, Call("interrupt", r.asks[x].proc))
    \/ q.mishap

\* All that a step of the resource owes.
Moves(s, r, t, q) ==
  /\ SimOK(t) /\ ResOK(t, q) /\ Ordered(q) /\ Freed(q) /\ q.kind = r.kind
  /\ GrantsFit(s, t, q) /\ LossesHeard(s, r, t, q)

LEMMA HoldersKnown ==
  ASSUME NEW s, SimOK(s), NEW r, ResOK(s, r), NEW x \in Range(r.users)
  PROVE  x \in DOMAIN r.asks /\ x # None
<1>1. x \in GrantedOf(s, "put")
  BY DEF ResOK, HoldersOK
<1>2. x \in RequestsIn(s) /\ x \in DOMAIN s.events
  BY <1>1 DEF GrantedOf, RequestsIn, IsRequest, RequestTypes
<1>3. x # None
  BY <1>2, SimFields DEF SimOK, None
<1> QED BY <1>2, <1>3 DEF ResOK, AsksOK

\* A request is served once it has been made.
LEMMA ServedMoves ==
  ASSUME NEW s, SimOK(s), NEW r, ResOK(s, r), Freed(r), NEW type \in RequestTypes,
         NEW e, NEW u, WorldOK(u), ~ u.raised, Quiet(s, u.sim), Extended(s, u.sim, type, e),
         Recorded(s, r, u.res, e), Ordered(u.res),
         type = "put" => u.res.getQueue = r.getQueue,
         type = "get" => u.res.getQueue = Append(r.getQueue, e),
         NEW v, v = Served(u, type)
  PROVE  Moves(s, r, v.sim, v.res) /\ Quiet(s, v.sim)
<1>1. type = "put" \/ type = "get"
  BY DEF RequestTypes
<1>2. PICK queue : queue = QueueOf(u.res, type)
  OBVIOUS
<1>3. u.res.kind = r.kind /\ (Slots(u.res) <=> Slots(r)) /\ u.res.users = r.users
      /\ \A f \in DOMAIN r.asks : u.res.asks[f] = r.asks[f]
  BY DEF Recorded, Slots
<1>4. ASSUME type = "get", Slots(r)
      PROVE  Len(queue) = 1 /\ queue[1] = e
  <2>1. queue = u.res.getQueue
    BY <1>2, <1>4 DEF QueueOf
  <2>2. r.getQueue = <<>>
    BY <1>4 DEF Freed
  <2>3. queue = Append(<<>>, e)
    BY <1>4, <2>1, <2>2
  <2> QED BY <2>3
<1>5. Freed(u.res) \/ (type = "get" /\ Slots(u.res) /\ Len(queue) = 1)
  BY <1>1, <1>3, <1>4 DEF Freed
<1>6. /\ WorldOK(v) /\ Quiet(u.sim, v.sim) /\ Fixed(u.res, v.res)
      /\ Ordered(v.res) /\ Freed(v.res) /\ GrantsFit(u.sim, v.sim, v.res)
  BY <1>2, <1>5, ServedWorld
<1>7. PICK x : /\ ToldBut(x, u.res, u.sim, v.sim, v.res)
               /\ x # None => type = "get" /\ Slots(u.res) /\ Len(queue) > 0 /\ x = u.res.asks[queue[1]].of
  BY <1>2, <1>5, ServedWorld
<1>8. Quiet(s, v.sim)
  BY <1>6, TameTrans DEF Quiet
<1>9. GrantsFit(s, v.sim, v.res)
  <2>1. \A other \in RequestTypes : GrantedOf(u.sim, other) = GrantedOf(s, other)
    BY ExtendedSets
  <2>2. NewlyOf(u.sim, v.sim, "put") = NewlyOf(s, v.sim, "put")
        /\ NewlyOf(u.sim, v.sim, "get") = NewlyOf(s, v.sim, "get")
    BY <2>1 DEF NewlyOf, RequestTypes
  <2> QED BY <1>6, <2>2 DEF GrantsFit
<1>10. LossesHeard(s, r, v.sim, v.res)
  <2> SUFFICES ASSUME NEW y \in Range(r.users) \ Range(v.res.users)
               PROVE  \/ \E f \in DOMAIN v.sim.events \ DOMAIN s.events : v.res.asks[f].of = y
                      \/ NewlyDue(s, v.sim, Call("interrupt", r.asks[y].proc))
                      \/ v.res.mishap
    BY DEF LossesHeard
  <2>1. y \in DOMAIN r.asks /\ y # None
    BY HoldersKnown
  <2>2. u.res.asks[y] = r.asks[y]
    BY <1>3, <2>1
  <2>3. CASE y = x
    <3>1. queue[1] = e /\ y = u.res.asks[e].of
      BY <1>3, <1>4, <1>7, <2>1, <2>3
    <3>2. v.res.asks[e].of = y
      BY <1>6, <3>1 DEF Fixed
    <3>3. e \in DOMAIN v.sim.events /\ e \notin DOMAIN s.events
      <4>1. e \in DOMAIN u.sim.events /\ e \notin DOMAIN s.events
        BY ExtendedSets DEF Extended
      <4>2. DOMAIN u.sim.events \subseteq DOMAIN v.sim.events
        BY <1>6 DEF Quiet, Tame
      <4> QED BY <4>1, <4>2
    <3> QED BY <3>2, <3>3
  <2>4. CASE y # x
    <3>1. s \in SimType /\ u.sim \in SimType /\ QueueGrows(s, u.sim)
      BY DEF Quiet, Tame, SimOK, WorldOK
    <3>2. DOMAIN s.queue \subseteq DOMAIN u.sim.queue
      BY <3>1, SimFields DEF QueueGrows
    <3> QED BY <1>3, <1>7, <2>2, <2>4, <3>2 DEF ToldBut, NewlyDue
  <2> QED BY <2>3, <2>4
<1>11. v.res.kind = r.kind
  BY <1>3, <1>6 DEF Fixed
<1> QED BY <1>6, <1>8, <1>9, <1>10, <1>11 DEF Moves, WorldOK

LEMMA NewPutMoves ==
  ASSUME NEW s, SimOK(s), NEW r, ResOK(s, r), Ordered(r), Freed(r),
         NEW n \in Int, r.kind = "container" => n \in Nat, NEW preempt,
         NEW v, v = NewPut(s, r, n, preempt)
  PROVE  Moves(s, r, v.sim, v.res) /\ Quiet(s, v.sim)
<1>1. PICK e : e = Fresh(s)
  OBVIOUS
<1>2. PICK ask : ask = NewAsk(s, n, preempt, None)
  OBVIOUS
<1>3. PICK w : w = Asked(s, r, "put", ask, "get")
  OBVIOUS
<1>4. PICK u : u = PutQueued(w, e)
  OBVIOUS
<1>5. v = Served(u, "put")
  BY <1>1, <1>2, <1>3, <1>4 DEF NewPut, TriggerPut, PutQueued
<1>6. /\ WorldOK(u) /\ ~ u.raised /\ Quiet(s, u.sim) /\ Extended(s, u.sim, "put", e)
      /\ Recorded(s, r, u.res, e) /\ Ordered(u.res) /\ u.res.getQueue = r.getQueue
  BY <1>1, <1>2, <1>3, <1>4, AskedPut
<1>7. "put" \in RequestTypes
  BY DEF RequestTypes
<1>8. PICK type : type = "put"
  OBVIOUS
<1> QED BY <1>5, <1>6, <1>7, <1>8, ServedMoves

LEMMA NewGetMoves ==
  ASSUME NEW s, SimOK(s), NEW r, ResOK(s, r), Ordered(r), Freed(r),
         NEW n \in Int, r.kind = "container" => n \in Nat, NEW of,
         NEW v, v = NewGet(s, r, n, of)
  PROVE  Moves(s, r, v.sim, v.res) /\ Quiet(s, v.sim)
<1>1. PICK e : e = Fresh(s)
  OBVIOUS
<1>2. PICK ask : ask = NewAsk(s, n, FALSE, of)
  OBVIOUS
<1>3. PICK w : w = Asked(s, r, "get", ask, "put")
  OBVIOUS
<1>4. PICK u : u = GetQueued(w, e)
  OBVIOUS
<1>5. v = Served(u, "get")
  BY <1>1, <1>2, <1>3, <1>4 DEF NewGet, TriggerGet, GetQueued
<1>6. ask.n = n /\ ask.proc = s.active /\ ask.time = s.now
  BY <1>2 DEF NewAsk
<1>7. /\ WorldOK(u) /\ ~ u.raised /\ Quiet(s, u.sim) /\ Extended(s, u.sim, "get", e)
      /\ Recorded(s, r, u.res, e) /\ Ordered(u.res)
      /\ u.res.getQueue = Append(r.getQueue, e)
  BY <1>1, <1>3, <1>4, <1>6, AskedGet
<1>8. PICK type : type = "get"
  OBVIOUS
<1>9. "get" \in RequestTypes
  BY DEF RequestTypes
<1> QED BY <1>5, <1>7, <1>8, <1>9, ServedMoves

\* From r to q the request e has been cancelled.
Crossed(r, q, e) ==
  /\ IsRes(q) /\ q.kind = r.kind /\ q.capacity = r.capacity /\ q.initial = r.initial
  /\ q.asks = r.asks /\ Stock(r, q) /\ q.users = r.users /\ q.gone = r.gone \cup {e}
  /\ q.putQueue = RemoveFirst(r.putQueue, e) /\ q.getQueue = RemoveFirst(r.getQueue, e)

LEMMA CancelCrosses ==
  ASSUME NEW r, IsRes(r), NEW e
  PROVE  /\ Crossed(r, Cancelled(r, e), e)
         /\ Crossed(r, [Cancelled(r, e) EXCEPT !.skipped = TRUE], e)
<1>1. PICK a, b, g : a = RemoveFirst(r.putQueue, e) /\ b = RemoveFirst(r.getQueue, e) /\ g = r.gone \cup {e}
  OBVIOUS
<1>2. Cancelled(r, e) = [r EXCEPT !.putQueue = a, !.getQueue = b, !.gone = g]
  BY <1>1 DEF Cancelled
<1>3. PICK q : q = Cancelled(r, e)
  OBVIOUS
<1>4. q = [kind |-> r.kind, capacity |-> r.capacity, level |-> r.level, initial |-> r.initial,
           users |-> r.users, items |-> r.items, putQueue |-> a, getQueue |-> b,
           asks |-> r.asks, gone |-> g, skipped |-> r.skipped, mishap |-> r.mishap]
  BY <1>2, <1>3 DEF IsRes
<1>5. Crossed(r, q, e)
  BY <1>1, <1>4 DEF Crossed, IsRes, Stock
<1>6. PICK p : p = [q EXCEPT !.skipped = TRUE]
  OBVIOUS
<1>7. p = [kind |-> r.kind, capacity |-> r.capacity, level |-> r.level, initial |-> r.initial,
           users |-> r.users, items |-> r.items, putQueue |-> a, getQueue |-> b,
           asks |-> r.asks, gone |-> g, skipped |-> TRUE, mishap |-> r.mishap]
  BY <1>4, <1>6
<1>8. Crossed(r, p, e)
  BY <1>1, <1>7 DEF Crossed, IsRes, Stock
<1> QED BY <1>3, <1>5, <1>6, <1>8

\* What remains in the queues is in order.
LEMMA CrossedKeeps ==
  ASSUME NEW s, NEW r, ResOK(s, r), Ordered(r), Freed(r),
         NEW e \in Range(r.putQueue) \cup Range(r.getQueue), NEW q, Crossed(r, q, e)
  PROVE  ResOK(s, q) /\ Ordered(q) /\ Freed(q)
<1>1. QueuesOK(s, r) /\ AsksOK(s, r) /\ HoldersOK(s, r) /\ StockOK(s, r)
  BY DEF ResOK
<1>2. PICK a, b : a = r.putQueue /\ b = r.getQueue
  OBVIOUS
<1>3. a \in Seq(Nat) /\ IsInjective(a) /\ b \in Seq(Nat) /\ IsInjective(b)
  BY <1>1, <1>2 DEF QueuesOK, QueueOK
<1>4. /\ q.putQueue \in Seq(Nat) /\ IsInjective(q.putQueue) /\ Range(q.putQueue) = Range(a) \ {e}
      /\ q.getQueue \in Seq(Nat) /\ IsInjective(q.getQueue) /\ Range(q.getQueue) = Range(b) \ {e}
  <2>1. q.putQueue = RemoveFirst(a, e) /\ q.getQueue = RemoveFirst(b, e)
    BY <1>2 DEF Crossed
  <2> QED BY <1>3, <2>1, RemoveId
<1>5. e \in RequestsIn(s) /\ s.events[e].state = "pending"
  <2>1. e \in DOMAIN s.events /\ IsRequest(s, e)
    BY <1>1 DEF QueuesOK, QueueOK, IsRequest, RequestTypes
  <2> QED BY <1>1, <2>1 DEF QueuesOK, RequestsIn
<1>6. QueueOK(s, q.putQueue, "put") /\ QueueOK(s, q.getQueue, "get")
  BY <1>1, <1>2, <1>4 DEF QueuesOK, QueueOK
<1>7. QueuesOK(s, q)
  <2>1. q.gone = r.gone \cup {e}
    BY DEF Crossed
  <2>2. \A f \in RequestsIn(s) :
          f \in Range(q.putQueue) \cup Range(q.getQueue)
            <=> s.events[f].state = "pending" /\ f \notin q.gone
    BY <1>1, <1>2, <1>4, <2>1 DEF QueuesOK
  <2>3. q.gone \subseteq RequestsIn(s) /\ \A f \in q.gone : s.events[f].state = "pending"
    BY <1>1, <1>5, <2>1 DEF QueuesOK
  <2> QED BY <1>6, <2>2, <2>3 DEF QueuesOK
<1>8. AsksOK(s, q)
  BY <1>1 DEF AsksOK, Crossed
<1>9. HoldersOK(s, q)
  BY <1>1 DEF HoldersOK, Crossed
<1>10. (Slots(q) <=> Slots(r)) /\ ServesFirst(q) = ServesFirst(r)
  BY SameOrder DEF Crossed
<1>11. StockOK(s, q)
  <2>1. /\ q.asks = r.asks /\ q.level = r.level /\ q.items = r.items
        /\ q.initial = r.initial /\ q.capacity = r.capacity /\ q.kind = r.kind
    BY DEF Crossed, Stock
  <2>2. \A type : Amounts(s, q, type) = Amounts(s, r, type)
    BY <2>1 DEF Amounts
  <2>3. (LevelOK(s, q) <=> LevelOK(s, r)) /\ (ItemsOK(s, q) <=> ItemsOK(s, r))
    BY <2>1, <2>2 DEF LevelOK, ItemsOK
  <2> QED BY <1>1, <1>10, <2>1, <2>3 DEF StockOK
<1>12. ResOK(s, q)
  BY <1>7, <1>8, <1>9, <1>11 DEF ResOK, Crossed
<1>13. Ordered(q)
  <2>1. InOrder(RemoveFirst(a, e), ServesFirst(r)) /\ InOrder(RemoveFirst(b, e), Older)
    BY <1>2, <1>3, RemoveInOrder DEF Ordered
  <2> QED BY <1>2, <1>10, <2>1 DEF Ordered, Crossed
<1>14. Freed(q)
  <2> SUFFICES ASSUME Slots(r) PROVE q.getQueue = <<>>
    BY <1>10 DEF Freed
  <2>1. Range(b) = {}
    BY <1>2 DEF Freed, Range
  <2> QED BY <1>4, <2>1, EmptyQueue
<1> QED BY <1>12, <1>13, <1>14

\* Nobody is granted and nobody loses a slot.
LEMMA NothingMoves ==
  ASSUME NEW s, NEW r, NEW t, SimOK(t), NEW q, ResOK(t, q), Ordered(q), Freed(q), q.kind = r.kind,
         q.users = r.users, \A type \in RequestTypes : GrantedOf(t, type) = GrantedOf(s, type)
  PROVE  Moves(s, r, t, q)
<1>1. NewlyOf(s, t, "put") = {} /\ NewlyOf(s, t, "get") = {}
  BY DEF NewlyOf, RequestTypes
<1> QED BY <1>1 DEF Moves, GrantsFit, LossesHeard

\* A move from a resource whose requests and holders are those of r.
LEMMA MovesFrom ==
  ASSUME NEW s, NEW r, NEW p, NEW t, NEW q, Moves(s, p, t, q),
         p.kind = r.kind, p.asks = r.asks, p.users = r.users
  PROVE  Moves(s, r, t, q)
BY DEF Moves, LossesHeard

-----------------------------------------------------------------------------
(* The actions of the resource. *)

LEMMA CastStays ==
  ASSUME CastOK, cast' = cast \/ (\E n : cast' = [cast EXCEPT !.calls = n])
                              \/ (\E n : cast' = [cast EXCEPT !.runs = n]),
         res'.kind = res.kind
  PROVE  CastOK'
<1>1. "puts" \in DOMAIN cast /\ "gets" \in DOMAIN cast
  BY DEF CastOK
<1>2. DOMAIN cast' = DOMAIN cast /\ cast'.puts = cast.puts /\ cast'.gets = cast.gets
  BY <1>1
<1> QED BY <1>1, <1>2 DEF CastOK

LEMMA TakesKeeps ==
  ASSUME RInv, NEW w, Takes(w), Moves(sim, res, w.sim, w.res), Quiet(sim, w.sim)
  PROVE  RInv' /\ Moves(sim, res, sim', res')
<1>1. PICK s, q : s = w.sim /\ q = w.res
  OBVIOUS
<1>2. sim' = s /\ res' = q /\ Calls(s)
  BY <1>1 DEF Takes, Calls
<1>3. Moves(sim, res, s, q) /\ Quiet(sim, s)
  BY <1>1
<1>4. KInv'
  BY <1>2, <1>3, QuietCall DEF RInv
<1>5. ResOK(s, q) /\ Ordered(q) /\ Freed(q) /\ q.kind = res.kind
  BY <1>3 DEF Moves
<1>6. CastOK'
  BY <1>2, <1>5, CastStays DEF RInv, Calls
<1>7. ResOK(sim', res') /\ Ordered(res') /\ Freed(res')
  BY <1>2, <1>5
<1> QED BY <1>2, <1>3, <1>4, <1>6, <1>7 DEF RInv

LEMMA AskPutKeeps == ASSUME RInv, AskPut PROVE RInv' /\ Moves(sim, res, sim', res')
<1>1. PICK p \in cast.puts : Takes(NewPut(sim, res, p[1], p[2]))
  BY DEF AskPut
<1>2. PICK n, preempt : n = p[1] /\ preempt = p[2]
  OBVIOUS
<1>3. n \in Int /\ (res.kind = "container" => n \in Nat)
  BY <1>2 DEF RInv, CastOK
<1>4. PICK v : v = NewPut(sim, res, n, preempt)
  OBVIOUS
<1>5. SimOK(sim) /\ ResOK(sim, res) /\ Ordered(res) /\ Freed(res)
  BY DEF RInv, KInv
<1>6. Moves(sim, res, v.sim, v.res) /\ Quiet(sim, v.sim)
  BY <1>3, <1>4, <1>5, NewPutMoves
<1> QED BY <1>1, <1>2, <1>4, <1>6, TakesKeeps

\* What is true of a new get, whatever it asks for or gives back.
LEMMA AnyGetKeeps ==
  ASSUME RInv, NEW n \in Int, res.kind = "container" => n \in Nat, NEW of,
         NEW p, ResOK(sim, p), Ordered(p), Freed(p),
         p.kind = res.kind, p.asks = res.asks, p.users = res.users,
         NEW v, v = NewGet(sim, p, n, of), Takes(v)
  PROVE  RInv' /\ Moves(sim, res, sim', res')
<1>1. SimOK(sim)
  BY DEF RInv, KInv
<1>2. Moves(sim, p, v.sim, v.res) /\ Quiet(sim, v.sim)
  BY <1>1, NewGetMoves
<1>3. Moves(sim, res, v.sim, v.res)
  BY <1>2, MovesFrom
<1> QED BY <1>2, <1>3, TakesKeeps

LEMMA AskGetKeeps == ASSUME RInv, AskGet PROVE RInv' /\ Moves(sim, res, sim', res')
<1>1. PICK n \in cast.gets : Takes(NewGet(sim, res, n, None))
  BY DEF AskGet
<1>2. n \in Int /\ (res.kind = "container" => n \in Nat)
  BY DEF RInv, CastOK
<1>3. ResOK(sim, res) /\ Ordered(res) /\ Freed(res)
  BY DEF RInv
<1>4. PICK v : v = NewGet(sim, res, n, None)
  OBVIOUS
<1> QED BY <1>1, <1>2, <1>3, <1>4, AnyGetKeeps

LEMMA ReleaseKeeps == ASSUME RInv, Release PROVE RInv' /\ Moves(sim, res, sim', res')
<1>1. PICK e \in Requests : Takes(NewGet(sim, res, 0, e))
  BY DEF Release
<1>2. ResOK(sim, res) /\ Ordered(res) /\ Freed(res)
  BY DEF RInv
<1>3. PICK v : v = NewGet(sim, res, 0, e)
  OBVIOUS
<1>4. PICK n : n = 0
  OBVIOUS
<1>5. n \in Int /\ n \in Nat /\ v = NewGet(sim, res, n, e) /\ Takes(v)
  BY <1>1, <1>3, <1>4
<1> QED BY <1>2, <1>5, AnyGetKeeps

LEMMA CancelKeeps == ASSUME RInv, Cancel PROVE RInv' /\ Moves(sim, res, sim', res')
<1>1. PICK e \in DOMAIN res.asks :
            Waits(e) /\ Takes(World(sim, [Cancelled(res, e) EXCEPT !.skipped = TRUE]))
  BY DEF Cancel
<1>2. PICK q : q = [Cancelled(res, e) EXCEPT !.skipped = TRUE]
  OBVIOUS
<1>3. ResOK(sim, res) /\ Ordered(res) /\ Freed(res) /\ SimOK(sim)
  BY DEF RInv, KInv
<1>4. Crossed(res, q, e)
  BY <1>2, <1>3, CancelCrosses DEF ResOK
<1>5. e \in Range(res.putQueue) \cup Range(res.getQueue)
  BY <1>1 DEF Waits
<1>6. ResOK(sim, q) /\ Ordered(q) /\ Freed(q)
  BY <1>3, <1>4, <1>5, CrossedKeeps
<1>7. Moves(sim, res, sim, q)
  BY <1>3, <1>4, <1>6, NothingMoves DEF Crossed
<1>8. PICK w : w = World(sim, q)
  OBVIOUS
<1>9. w.sim = sim /\ w.res = q
  BY <1>8 DEF World
<1>10. Quiet(sim, sim)
  BY <1>3, QuietNothing
<1>11. Takes(w)
  BY <1>1, <1>2, <1>8
<1> QED BY <1>7, <1>9, <1>10, <1>11, TakesKeeps

LEMMA LeaveWithKeeps == ASSUME RInv, LeaveWith PROVE RInv' /\ Moves(sim, res, sim', res')
<1>1. PICK e \in Requests :
            Takes(NewGet(sim, IF Waits(e) THEN Cancelled(res, e) ELSE res, 0, e))
  BY DEF LeaveWith
<1>2. PICK p : p = IF Waits(e) THEN Cancelled(res, e) ELSE res
  OBVIOUS
<1>3. ResOK(sim, res) /\ Ordered(res) /\ Freed(res)
  BY DEF RInv
<1>4. /\ ResOK(sim, p) /\ Ordered(p) /\ Freed(p)
      /\ p.kind = res.kind /\ p.asks = res.asks /\ p.users = res.users
  <2>1. CASE Waits(e)
    <3>1. Crossed(res, p, e)
      BY <1>2, <1>3, <2>1, CancelCrosses DEF ResOK
    <3>2. e \in Range(res.putQueue) \cup Range(res.getQueue)
      BY <2>1 DEF Waits
    <3>3. ResOK(sim, p) /\ Ordered(p) /\ Freed(p)
      BY <1>3, <3>1, <3>2, CrossedKeeps
    <3> QED BY <3>1, <3>3 DEF Crossed
  <2>2. CASE ~ Waits(e)
    BY <1>2, <1>3, <2>2
  <2> QED BY <2>1, <2>2
<1>5. PICK v : v = NewGet(sim, p, 0, e)
  OBVIOUS
<1>6. PICK n : n = 0
  OBVIOUS
<1>7. n \in Int /\ n \in Nat /\ v = NewGet(sim, p, n, e) /\ Takes(v)
  BY <1>1, <1>2, <1>5, <1>6
<1> QED BY <1>4, <1>7, AnyGetKeeps

\* A queue is served with nothing new in it.
LEMMA ServingMoves ==
  ASSUME RInv, NEW type \in RequestTypes, NEW w, w = World(sim, res), NEW v, v = Served(w, type)
  PROVE  /\ Moves(sim, res, v.sim, v.res) /\ Quiet(sim, v.sim)
         /\ v.raised => v.sim = sim /\ type = "put"
<1>1. SimOK(sim) /\ ResOK(sim, res) /\ Ordered(res) /\ Freed(res)
  BY DEF RInv, KInv
<1>2. w.sim = sim /\ w.res = res /\ ~ w.raised /\ IsWorld(w)
  BY DEF World, IsWorld
<1>3. WorldOK(w)
  BY <1>1, <1>2 DEF WorldOK
<1>4. PICK queue : queue = QueueOf(w.res, type)
  OBVIOUS
<1>5. /\ WorldOK(v) /\ Quiet(sim, v.sim) /\ Fixed(res, v.res)
      /\ v.raised => v.sim = sim /\ type = "put"
      /\ Ordered(v.res) /\ Freed(v.res) /\ GrantsFit(sim, v.sim, v.res)
  BY <1>1, <1>2, <1>3, <1>4, ServedWorld
<1>6. PICK x : /\ ToldBut(x, res, sim, v.sim, v.res)
               /\ x # None => type = "get" /\ Slots(res) /\ Len(queue) > 0
  BY <1>1, <1>2, <1>3, <1>4, ServedWorld
<1>7. x = None
  <2> SUFFICES ASSUME x # None PROVE FALSE
    OBVIOUS
  <2>1. res.getQueue = <<>>
    BY <1>1, <1>6 DEF Freed
  <2>2. queue = <<>>
    BY <1>2, <1>4, <1>6, <2>1 DEF QueueOf
  <2> QED BY <1>6, <2>2
<1>8. LossesHeard(sim, res, v.sim, v.res)
  BY <1>1, <1>6, <1>7, HoldersKnown DEF ToldBut, LossesHeard
<1>9. v.res.kind = res.kind
  BY <1>5 DEF Fixed
<1> QED BY <1>5, <1>8, <1>9 DEF Moves, WorldOK

\* A callback of the resource that has not raised.
LEMMA ServedCallback ==
  ASSUME RInv, NEW do \in RequestTypes, Turn(do), NEW s, NEW q, Moves(sim, res, s, q), Quiet(sim, s),
         Done(s), res' = q
  PROVE  RInv' /\ Moves(sim, res, sim', res')
<1>1. sim' = s /\ step' = [step EXCEPT !.rest = Tail(@)] /\ UNCHANGED <<control, run, cast, ghost>>
  BY DEF Done
<1>2. GhostOK' /\ ghost'.heard = ghost.heard /\ ghost'.stranded = ghost.stranded
  BY <1>1 DEF RInv, KInv, GhostOK
<1>3. Tame(sim, sim')
  BY <1>1 DEF Quiet
<1>4. do \in {"check", "build", "trigger", "put", "get"}
  BY DEF RequestTypes
<1>5. KInv'
  BY <1>1, <1>2, <1>3, <1>4, TameCallback DEF RInv
<1>6. ResOK(sim', res') /\ Ordered(res') /\ Freed(res') /\ res'.kind = res.kind
  BY <1>1 DEF Moves
<1>7. CastOK'
  BY <1>1, <1>6, CastStays DEF RInv
<1> QED BY <1>1, <1>5, <1>6, <1>7 DEF RInv

\* A refused interrupt ends the step: no failure is lost, since a request is
\* never failed.
LEMMA RaisedCallback ==
  ASSUME RInv, NEW do \in RequestTypes, Turn(do), Cut(sim, Tail(step.rest), {}, "raised")
  PROVE  KInv'
<1>1. KInv /\ StepOK /\ SimOK(sim) /\ AsksOK(sim, res)
  BY DEF RInv, KInv, ResOK
<1>2. step.rest # <<>> /\ Head(step.rest).do = do /\ control # Main
  BY DEF Turn, Main, Loop
<1>3. do \in {"check", "build", "trigger", "put", "get"} /\ do # "resume"
  BY DEF RequestTypes
<1>4. /\ CallOK(sim, step.task.of, Head(step.rest)) /\ step.task.of \in DOMAIN sim.events
  BY <1>1, <1>3, CalleeOK
<1>5. ~ Failed(sim, step.task.of)
  <2>1. step.task.of \in RequestsIn(sim)
    BY <1>2, <1>4 DEF CallOK, RequestsIn, IsRequest, RequestTypes
  <2> QED BY <1>1, <2>1 DEF AsksOK, Failed
<1>6. \A e \in DOMAIN sim.events :
         step.task = Call("event", e) /\ Failed(sim, e) =>
           e \in ghost.heard \/ e \in {} \/ sim.events[e].defused
  BY <1>5 DEF Call
<1>7. step.rest \in Seq(CallType) /\ Range(Tail(step.rest)) \subseteq Range(step.rest)
  BY <1>1, <1>2, RestOfStep
<1>8. \A q \in Processes(sim) : InStep(q) # {} => Call("resume", q) \in Range(Tail(step.rest))
  <2> TAKE q \in Processes(sim)
  <2>1. Head(step.rest) # Call("resume", q)
    BY <1>2, <1>3 DEF Call
  <2>2. Same(Call("resume", q), step.rest, Tail(step.rest))
    BY <1>2, <1>7, <2>1, TailCall
  <2>3. Call("resume", q) \in Range(step.rest) <=> InStep(q) # {}
    BY <1>7, OccurrencesOfCalls DEF InStep
  <2> QED BY <2>2, <2>3 DEF Same
<1> QED BY <1>1, <1>2, <1>6, <1>7, <1>8, PlainCut

LEMMA ServePutsKeeps == ASSUME RInv, ServePuts PROVE RInv' /\ Moves(sim, res, sim', res')
<1>1. PICK w : w = TriggerPut(World(sim, res))
  OBVIOUS
<1>2. /\ Turn("put") /\ res' = w.res
      /\ IF w.raised THEN Cut(w.sim, Tail(step.rest), {}, "raised") ELSE Done(w.sim)
  BY <1>1 DEF ServePuts
<1>3. "put" \in RequestTypes
  BY DEF RequestTypes
<1>4. PICK u : u = World(sim, res)
  OBVIOUS
<1>5. w = Served(u, "put")
  BY <1>1, <1>4 DEF TriggerPut
<1>6. PICK type : type = "put"
  OBVIOUS
<1>7. /\ Moves(sim, res, w.sim, w.res) /\ Quiet(sim, w.sim) /\ (w.raised => w.sim = sim)
  BY <1>3, <1>4, <1>5, <1>6, ServingMoves
<1>8. CASE ~ w.raised
  <2>1. PICK s : s = w.sim
    OBVIOUS
  <2>2. Done(s) /\ Turn(type) /\ type \in RequestTypes
    BY <1>2, <1>3, <1>6, <1>8, <2>1
  <2> QED BY <1>2, <1>7, <2>1, <2>2, ServedCallback
<1>9. CASE w.raised
  <2>1. Cut(sim, Tail(step.rest), {}, "raised")
    BY <1>2, <1>7, <1>9
  <2>2. Turn(type) /\ type \in RequestTypes
    BY <1>2, <1>3, <1>6
  <2>3. KInv'
    BY <2>1, <2>2, RaisedCallback
  <2>4. sim' = sim /\ cast' = cast
    BY <2>1 DEF Cut
  <2>5. Moves(sim, res, sim', res')
    BY <1>2, <1>7, <1>9, <2>4
  <2>6. ResOK(sim', res') /\ Ordered(res') /\ Freed(res') /\ res'.kind = res.kind
    BY <2>5 DEF Moves
  <2>7. CastOK'
    BY <2>4, <2>6, CastStays DEF RInv
  <2> QED BY <2>3, <2>5, <2>6, <2>7 DEF RInv
<1> QED BY <1>8, <1>9

LEMMA ServeGetsKeeps == ASSUME RInv, ServeGets PROVE RInv' /\ Moves(sim, res, sim', res')
<1>1. PICK w : w = TriggerGet(World(sim, res))
  OBVIOUS
<1>2. Turn("get") /\ res' = w.res /\ Done(w.sim)
  BY <1>1 DEF ServeGets
<1>3. "get" \in RequestTypes
  BY DEF RequestTypes
<1>4. PICK u : u = World(sim, res)
  OBVIOUS
<1>5. PICK type : type = "get"
  OBVIOUS
<1>6. w = Served(u, type)
  BY <1>1, <1>4, <1>5 DEF TriggerGet
<1>7. Moves(sim, res, w.sim, w.res) /\ Quiet(sim, w.sim)
  BY <1>3, <1>4, <1>5, <1>6, ServingMoves
<1>8. PICK s : s = w.sim
  OBVIOUS
<1>9. Done(s) /\ Turn(type) /\ type \in RequestTypes
  BY <1>2, <1>3, <1>5, <1>8
<1> QED BY <1>2, <1>7, <1>8, <1>9, ServedCallback

-----------------------------------------------------------------------------
(* The actions of the Kernel. *)

LEMMA CastOfKernel ==
  ASSUME KernelNext
  PROVE  cast' = cast \/ (\E n : cast' = [cast EXCEPT !.calls = n])
                      \/ (\E n : cast' = [cast EXCEPT !.runs = n])
<1> DEFINE Goal == cast' = cast \/ (\E n : cast' = [cast EXCEPT !.calls = n])
                                \/ (\E n : cast' = [cast EXCEPT !.runs = n])
<1>1. \A s : Calls(s) => Goal
  BY DEF Calls
<1>2. \A s, rest, seen, result : Cut(s, rest, seen, result) => Goal
  BY DEF Cut
<1>3. \A s, until, at : StartRun(s, until, at) => Goal
  BY DEF StartRun
<1>4. \A s : Done(s) => Goal
  BY DEF Done
<1>5. \A s, p, heard : Enter(s, p, heard) => Goal
  BY DEF Enter
<1>6. UNCHANGED cast => Goal
  OBVIOUS
<1> HIDE DEF Goal
<1>7. UserNext => Goal
  BY <1>1, <1>2, <1>6 DEF UserNext, MakeEvent, MakeTimeout, MakeCondition, Spawn, SucceedOrFail, Chain,
     Interrupt, YieldWrong, End
<1>8. Yield => Goal
  BY <1>6 DEF Yield, YieldOn
<1>9. RunToEnd \/ RunToTime \/ RunToEvent \/ RunEmpty => Goal
  BY <1>3, <1>6 DEF RunToEnd, RunToTime, RunToEvent, RunEmpty
<1>10. RunCheck \/ RunBuild \/ RunTrigger \/ RunStop \/ FinishStep => Goal
  BY <1>2, <1>4, <1>6 DEF RunCheck, RunBuild, RunTrigger, RunStop, FinishStep
<1>11. Resume => Goal
  BY <1>5 DEF Resume
<1>12. DeliverInterrupt => Goal
  BY <1>2, <1>4, <1>5 DEF DeliverInterrupt, DeliverInterruptTo
<1>13. Pop => Goal
  BY <1>2, <1>6 DEF Pop
<1> QED BY <1>7, <1>8, <1>9, <1>10, <1>11, <1>12, <1>13 DEF KernelNext, LoopNext, Goal

LEMMA YieldsOwn == YieldOwn => Yield
BY DEF YieldOwn, Yield

\* The Kernel leaves the resource alone, and makes nothing of it untrue.
LEMMA KernelStepKeeps ==
  ASSUME RInv, UserNext \/ YieldOwn \/ LoopNext, res' = res
  PROVE  RInv' /\ Moves(sim, res, sim', res')
<1>1. KernelNext /\ (UserNext \/ Yield \/ LoopNext)
  BY YieldsOwn DEF KernelNext
<1>2. KInv /\ SimOK(sim) /\ ResOK(sim, res) /\ Ordered(res) /\ Freed(res)
  BY DEF RInv, KInv
<1>3. KInv'
  BY <1>1, <1>2, NextKeeps
<1>4. SimOK(sim')
  BY <1>3 DEF KInv
<1>5. Apart(sim, sim')
  BY <1>1, <1>2, UserApart, YieldApart, LoopApart
<1>6. PICK s, t : s = sim /\ t = sim'
  OBVIOUS
<1>7. ResOK(t, res)
  BY <1>2, <1>4, <1>5, <1>6, ResStays
<1>8. \A type \in RequestTypes : GrantedOf(t, type) = GrantedOf(s, type)
  BY <1>5, <1>6, ApartRequests
<1>9. PICK r : r = res
  OBVIOUS
<1>10. Moves(s, r, t, r)
  BY <1>2, <1>4, <1>6, <1>7, <1>8, <1>9, NothingMoves
<1>11. CastOK'
  BY <1>1, CastOfKernel, CastStays DEF RInv
<1> QED BY <1>2, <1>3, <1>6, <1>7, <1>9, <1>10, <1>11 DEF RInv

-----------------------------------------------------------------------------
(* The first state. *)

LEMMA InitFits == Init => RInv
<1> SUFFICES ASSUME Init PROVE RInv
  OBVIOUS
<1>1. PICK c \in Casts : Start(c) /\ res = c.res
  BY DEF Init
<1>2. sim = c.sim /\ cast = c.may
  BY <1>1 DEF Start
<1>3. KInv
  BY <1>1, InitHolds DEF KernelInit
<1>4. SimOK(sim)
  BY <1>3 DEF KInv
<1>5. /\ res.kind \in Kinds /\ res.capacity \in Nat \ {0} /\ res.level \in 0 .. res.capacity
      /\ res = NewResource(res.kind, res.capacity, res.level)
      /\ \A e \in DOMAIN sim.events : sim.events[e].type \notin RequestTypes
  BY <1>1, <1>2, ResourceAssumption
<1>6. CastOK
  BY <1>1, <1>2, ResourceAssumption DEF CastOK
<1>7. PICK kind, capacity, level : kind = res.kind /\ capacity = res.capacity /\ level = res.level
  OBVIOUS
<1>8. res = [kind |-> kind, capacity |-> capacity, level |-> level, initial |-> level,
             users |-> <<>>, items |-> <<>>, putQueue |-> <<>>, getQueue |-> <<>>,
             asks |-> <<>>, gone |-> {}, skipped |-> FALSE, mishap |-> FALSE]
  BY <1>5, <1>7 DEF NewResource
<1>9. /\ IsRes(res) /\ res.initial = level
      /\ res.users = <<>> /\ res.items = <<>> /\ res.putQueue = <<>> /\ res.getQueue = <<>>
      /\ res.asks = <<>> /\ res.gone = {}
  BY <1>8 DEF IsRes
<1>10. RequestsIn(sim) = {} /\ GrantedOf(sim, "put") = {} /\ GrantedOf(sim, "get") = {}
  BY <1>5 DEF RequestsIn, IsRequest, GrantedOf, RequestTypes
<1>11. AsksOK(sim, res)
  <2>1. DOMAIN res.asks = {}
    BY <1>9
  <2> QED BY <1>10, <2>1 DEF AsksOK
<1>12. <<>> \in Seq(Nat) /\ IsInjective(<<>>) /\ Range(<<>>) = {} /\ Len(<<>>) = 0 /\ <<>> \in Seq(Int)
  BY DEF IsInjective, Range
<1>13. QueuesOK(sim, res)
  <2>1. QueueOK(sim, <<>>, "put") /\ QueueOK(sim, <<>>, "get")
    BY <1>12 DEF QueueOK
  <2> QED BY <1>9, <1>10, <2>1 DEF QueuesOK
<1>14. HoldersOK(sim, res)
  <2>1. 0 <= res.capacity
    BY <1>5
  <2> QED BY <1>9, <1>10, <1>12, <2>1 DEF HoldersOK
<1>15. StockOK(sim, res)
  <2>1. LevelOK(sim, res)
    <3>1. Amounts(sim, res, "put") = Amounts(sim, res, "get")
      BY <1>10 DEF Amounts
    <3>2. PICK type, a : type = "put" /\ a = Amounts(sim, res, type)
      OBVIOUS
    <3>3. Total(a) \in Int
      BY <1>4, <1>11, <3>2, AmountsFit DEF RequestTypes
    <3>4. level \in Int /\ level = level + Total(a) - Total(a)
      BY <1>5, <1>7, <3>3
    <3> QED BY <1>5, <1>7, <1>9, <3>1, <3>2, <3>4 DEF LevelOK
  <2>2. ItemsOK(sim, res)
    <3>1. Cardinality({}) = 0
      BY FS_EmptySet
    <3>2. 0 <= res.capacity /\ 0 = 0 - 0
      BY <1>5
    <3> QED BY <1>9, <1>10, <1>12, <3>1, <3>2 DEF ItemsOK
  <2> QED BY <2>1, <2>2 DEF StockOK
<1>16. ResOK(sim, res)
  <2>1. res.initial \in Int
    BY <1>5, <1>7, <1>9
  <2> QED BY <1>5, <1>9, <1>11, <1>13, <1>14, <1>15, <2>1 DEF ResOK
<1>17. Ordered(res) /\ Freed(res)
  <2>1. DOMAIN <<>> = {}
    OBVIOUS
  <2> QED BY <1>9, <2>1 DEF Ordered, InOrder, Freed
<1> QED BY <1>3, <1>6, <1>16, <1>17 DEF RInv

-----------------------------------------------------------------------------
(* What the resource promises. *)

LEMMA StillMoves ==
  ASSUME RInv, UNCHANGED vars
  PROVE  RInv'
<1>1. UNCHANGED kernelVars /\ sim' = sim /\ res' = res /\ cast' = cast
  BY DEF vars, kernelVars
<1>2. KInv'
  BY <1>1, StutterKeeps DEF RInv
<1> QED BY <1>1, <1>2 DEF RInv, CastOK

LEMMA NextMoves ==
  ASSUME RInv, Next
  PROVE  RInv' /\ Moves(sim, res, sim', res')
<1>1. CASE AskPut \/ AskGet \/ Release \/ Cancel \/ LeaveWith
  BY <1>1, AskPutKeeps, AskGetKeeps, ReleaseKeeps, CancelKeeps, LeaveWithKeeps
<1>2. CASE ServePuts \/ ServeGets
  BY <1>2, ServePutsKeeps, ServeGetsKeeps
<1>3. CASE (UserNext \/ YieldOwn \/ LoopNext) /\ UNCHANGED res
  BY <1>3, KernelStepKeeps
<1> QED BY <1>1, <1>2, <1>3 DEF Next

LEMMA ConservedHolds == ASSUME RInv PROVE Conserved
<1>1. /\ AsksOK(sim, res) /\ QueuesOK(sim, res) /\ HoldersOK(sim, res) /\ StockOK(sim, res)
  BY DEF RInv, ResOK
<1>2. ASSUME NEW e \in DOMAIN res.asks
      PROVE  /\ Waits(e) <=> sim.events[e].state = "pending" /\ e \notin res.gone
             /\ e \in res.gone => sim.events[e].state = "pending" /\ e \notin Range(res.users)
  <2>1. e \in RequestsIn(sim)
    BY <1>1, <1>2 DEF AsksOK
  <2>2. Waits(e) <=> sim.events[e].state = "pending" /\ e \notin res.gone
    BY <1>1, <2>1 DEF QueuesOK, Waits
  <2>3. ASSUME e \in res.gone PROVE sim.events[e].state = "pending" /\ e \notin Range(res.users)
    BY <1>1, <2>3 DEF QueuesOK, HoldersOK, GrantedOf
  <2> QED BY <2>2, <2>3
<1>3. CASE Slots(res)
  <2>1. res.kind # "container"
    BY <1>3 DEF Slots
  <2> QED BY <1>1, <1>2, <1>3, <2>1 DEF Conserved, HoldersOK
<1>4. CASE ~ Slots(res) /\ res.kind = "container"
  <2>1. LevelOK(sim, res)
    BY <1>1, <1>4 DEF StockOK
  <2> QED BY <1>1, <1>2, <1>4, <2>1 DEF Conserved, HoldersOK, LevelOK
<1>5. CASE ~ Slots(res) /\ res.kind # "container"
  <2>1. ItemsOK(sim, res)
    BY <1>1, <1>5 DEF StockOK
  <2> QED BY <1>1, <1>2, <1>5, <2>1 DEF Conserved, HoldersOK, ItemsOK
<1> QED BY <1>3, <1>4, <1>5

LEMMA InOrderHolds ==
  ASSUME RInv, Next
  PROVE  LET Now(type) == {e \in DOMAIN res'.asks :
                            /\ sim'.events[e].type = type /\ sim'.events[e].state = "ok"
                            /\ e \notin GrantedOf(sim, type)}
         IN  /\ \A e \in Now("put"), f \in Range(res'.putQueue) : Ahead(e, f)
             /\ res.kind # "filterstore" =>
                  \A e \in Now("get"), f \in Range(res'.getQueue) : e < f
<1> DEFINE Now(type) == {e \in DOMAIN res'.asks :
                            /\ sim'.events[e].type = type /\ sim'.events[e].state = "ok"
                            /\ e \notin GrantedOf(sim, type)}
<1>1. GrantsFit(sim, sim', res') /\ res'.kind = res.kind /\ AsksOK(sim', res')
  BY NextMoves DEF Moves, ResOK
<1>2. \A type : Now(type) \subseteq NewlyOf(sim, sim', type)
  BY <1>1 DEF AsksOK, RequestsIn, NewlyOf, GrantedOf
<1> HIDE DEF Now
<1>3. ASSUME NEW e \in Now("put"), NEW f \in Range(res'.putQueue)
      PROVE  Ahead(e, f)
  <2>1. <<e, f>> \in ServesFirst(res')
    BY <1>1, <1>2, <1>3 DEF GrantsFit
  <2>2. Sorted(res') <=> Sorted(res)
    BY <1>1 DEF Sorted
  <2> QED BY <2>1, <2>2 DEF ServesFirst, Ahead
<1>4. ASSUME res.kind # "filterstore", NEW e \in Now("get"), NEW f \in Range(res'.getQueue)
      PROVE  e < f
  BY <1>1, <1>2, <1>4 DEF GrantsFit, Older
<1> QED BY <1>3, <1>4 DEF Now

LEMMA LosersHearHolds ==
  ASSUME RInv, Next, NEW e \in Range(res.users) \ Range(res'.users)
  PROVE  \/ \E f \in DOMAIN sim'.events \ DOMAIN sim.events : res'.asks[f].of = e
         \/ \E i \in DOMAIN sim'.queue \ DOMAIN sim.queue :
              sim'.queue[i].task = Call("interrupt", res.asks[e].proc)
         \/ res'.mishap
<1>1. LossesHeard(sim, res, sim', res')
  BY NextMoves DEF Moves
<1> QED BY <1>1 DEF LossesHeard, NewlyDue

\* A Sim and its resource keep the inductive invariant, whatever the resource
\* is, whoever uses it and however (resources/base.py).
THEOREM ResourcesInvariance == Spec => []RInv
<1>1. Init => RInv
  BY InitFits
<1>2. RInv /\ [Next]_vars => RInv'
  BY NextMoves, StillMoves
<1> QED BY <1>1, <1>2, PTL DEF Spec

\* No slot, amount or item is granted twice, made up or lost, no holder is above
\* capacity, and who waits is who was neither granted nor cancelled
\* (BaseResource._trigger_put, _trigger_get, Put.cancel and the _do_put, _do_get
\* of every resource).
THEOREM ConservedTheorem == Spec => []Conserved
<1>1. RInv => Conserved
  BY ConservedHolds
<1> QED BY <1>1, ResourcesInvariance, PTL

\* In every step, whoever is granted comes before everyone left waiting, by the
\* order of the discipline (BaseResource._trigger_put, SortedQueue.append).
THEOREM GrantsInOrderTheorem == Spec => GrantsInOrder
<1>1. ASSUME RInv, [Next]_vars
      PROVE  [LET Now(type) == {e \in DOMAIN res'.asks :
                            /\ sim'.events[e].type = type /\ sim'.events[e].state = "ok"
                            /\ e \notin GrantedOf(sim, type)}
              IN  /\ \A e \in Now("put"), f \in Range(res'.putQueue) : Ahead(e, f)
                  /\ res.kind # "filterstore" =>
                        \A e \in Now("get"), f \in Range(res'.getQueue) : e < f]_vars
  BY <1>1, InOrderHolds
<1> QED BY <1>1, ResourcesInvariance, PTL DEF Spec, GrantsInOrder

\* A slot is lost by a release, or by a step that schedules an interruption of
\* the process that held it (PreemptiveResource._do_put).
THEOREM LosersHearTheorem == Spec => LosersHear
<1>1. ASSUME RInv, [Next]_vars
      PROVE  [\A e \in Range(res.users) \ Range(res'.users) :
                \/ \E f \in DOMAIN sim'.events \ DOMAIN sim.events : res'.asks[f].of = e
                \/ \E i \in DOMAIN sim'.queue \ DOMAIN sim.queue :
                     sim'.queue[i].task = Call("interrupt", res.asks[e].proc)
                \/ res'.mishap]_vars
  BY <1>1, LosersHearHolds
<1> QED BY <1>1, ResourcesInvariance, PTL DEF Spec, LosersHear

\* With a resource in use, preemption and dropped steps included, the Sim keeps
\* what it promises without: types, one wake-up for everyone who waits, no
\* failure lost, runs that stop where they were asked to.
THEOREM KernelKept == Spec => [](KernelTypeOK /\ HookedOnce /\ FailuresSurface /\ StopsWhereAsked)
<1>1. RInv => KernelTypeOK /\ HookedOnce /\ FailuresSurface /\ StopsWhereAsked
  BY TypesHold, HookedOnceHolds, FailuresSurfaceHolds DEF RInv, KInv, RunInv
<1> QED BY <1>1, ResourcesInvariance, PTL

=============================================================================
