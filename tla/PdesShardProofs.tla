--------------------------- MODULE PdesShardProofs ---------------------------
(***************************************************************************)
(* Facts about the operators of PdesShard, proved for every value of its   *)
(* constants: minima, float time, and that the shard's actions keep the    *)
(* shard's state well-typed.                                               *)
(***************************************************************************)
EXTENDS PdesShard, FiniteSetTheorems, WellFoundedInduction, TLAPS

\* Min returns the least element of a nonempty set of naturals.
LEMMA MinIsLeast ==
  ASSUME NEW S \in SUBSET Nat, S # {}
  PROVE  Min(S) \in S /\ \A y \in S : Min(S) <= y
<1>1. PICK x \in S : \A y \in S : <<y, x>> \notin OpToRel(<, Nat)
  BY NatLessThanWellFounded, WFMin
<1>2. \A y \in S : ~(y < x)
  BY <1>1 DEF OpToRel
<1>3. \A y \in S : x <= y
  <2> SUFFICES ASSUME NEW y \in S PROVE x <= y
    OBVIOUS
  <2>1. ~(y < x) /\ x \in Nat /\ y \in Nat
    BY <1>2
  <2> QED BY ONLY <2>1
<1> QED BY <1>3 DEF Min

LEMMA MinOfTwo ==
  ASSUME NEW a \in Nat, NEW b \in Nat
  PROVE  Min({a, b}) = IF a <= b THEN a ELSE b
<1>1. Min({a, b}) \in {a, b} /\ \A y \in {a, b} : Min({a, b}) <= y
  BY MinIsLeast
<1> QED BY <1>1

-----------------------------------------------------------------------------
(* Float time. *)

\* A sum of times is a time: it is representable, or infinity.
LEMMA PlusType ==
  ASSUME NEW t \in Times, NEW d \in Times
  PROVE  Plus(t, d) \in Times
<1>1. Round(t + d) \in Nat
  BY TimeAssumption, RoundAssumption DEF Times
<1>2. Plus(t, d) = IF Round(t + d) <= Infinity THEN Round(t + d) ELSE Infinity
  BY DEF Plus
<1>3. CASE t + d <= Infinity
  <2>1. Round(t + d) <= Infinity
    BY <1>3, TimeAssumption, RoundAssumption DEF Times
  <2>2. Round(Round(t + d)) = Round(t + d)
    BY <1>3, TimeAssumption, RoundAssumption DEF Times
  <2> QED BY <1>1, <1>2, <2>1, <2>2, TimeAssumption DEF Times
<1>4. CASE t + d > Infinity
  <2>1. Round(t + d) >= Infinity
    BY <1>4, TimeAssumption, RoundAssumption DEF Times
  <2>2. Plus(t, d) = Infinity
    BY <1>1, <1>2, <2>1, TimeAssumption
  <2> QED BY <2>2, TimeAssumption, RoundAssumption DEF Times
<1> QED BY <1>3, <1>4, TimeAssumption DEF Times

\* Addition is monotone in both arguments, whatever the rounding.
LEMMA PlusMonotone ==
  ASSUME NEW t \in Times, NEW d \in Times, NEW u \in Times, NEW e \in Times,
         t <= u, d <= e
  PROVE  Plus(t, d) <= Plus(u, e)
<1>1. Round(t + d) \in Nat /\ Round(u + e) \in Nat
  BY TimeAssumption, RoundAssumption DEF Times
<1>2. Round(t + d) <= Round(u + e)
  BY TimeAssumption, RoundAssumption DEF Times
<1>3. /\ Plus(t, d) = IF Round(t + d) <= Infinity THEN Round(t + d) ELSE Infinity
      /\ Plus(u, e) = IF Round(u + e) <= Infinity THEN Round(u + e) ELSE Infinity
  BY <1>1, TimeAssumption DEF Plus
<1> QED BY <1>1, <1>2, <1>3, TimeAssumption

\* Adding a delay never goes back in time.
LEMMA PlusIncreases ==
  ASSUME NEW t \in Times, NEW d \in Times
  PROVE  Plus(t, d) >= t
<1>1. Round(t + d) \in Nat
  BY TimeAssumption, RoundAssumption DEF Times
<1>2. Round(t) <= Round(t + d)
  BY TimeAssumption, RoundAssumption DEF Times
<1>3. Plus(t, d) = IF Round(t + d) <= Infinity THEN Round(t + d) ELSE Infinity
  BY <1>1, TimeAssumption DEF Plus
<1> QED BY <1>1, <1>2, <1>3, TimeAssumption DEF Times

LEMMA PlusInfinity ==
  ASSUME NEW t \in Times
  PROVE  Plus(t, Infinity) = Infinity
<1>1. Round(t + Infinity) \in Nat /\ Round(t + Infinity) >= Infinity
  BY TimeAssumption, RoundAssumption DEF Times
<1> QED BY <1>1, TimeAssumption DEF Plus

LEMMA MinusType ==
  ASSUME NEW t \in Times, NEW u \in Times, u <= t
  PROVE  Minus(t, u) \in Times
<1>1. t - u \in 0 .. Infinity
  BY TimeAssumption DEF Times
<1>2. Round(t - u) \in Nat /\ Round(t - u) <= Round(Infinity)
  BY <1>1, TimeAssumption, RoundAssumption
<1> QED BY <1>1, <1>2, TimeAssumption, RoundAssumption DEF Times, Minus

-----------------------------------------------------------------------------
(* The shard's actions keep its state well-typed. *)

LEMMA OperationTypes ==
  ASSUME NEW o \in Operations
  PROVE  /\ o.op = "schedule" => o.delay \in Times /\ o.prio \in {URGENT, NORMAL} /\ o.label \in Labels
         /\ o.op = "send" => o.channel \in Channels /\ o.delay \in Times /\ o.label \in Labels
BY DEF Operations

LEMMA ScheduleType ==
  ASSUME ShardTypeOK, NEW s \in Shards, NEW delay \in Times, NEW prio \in {URGENT, NORMAL},
         NEW label \in Labels, NEW origin \in SUBSET Message, NEW error \in Errors,
         Schedule(s, delay, prio, label, origin, error)
  PROVE  /\ heap' \in [Shards -> SUBSET Event]
         /\ eid' \in [Shards -> Nat]
<1>1. Plus(now[s], delay) \in Times
  BY PlusType DEF ShardTypeOK
<1>2. [time |-> Plus(now[s], delay), prio |-> prio, eid |-> eid[s],
       label |-> label, origin |-> origin, error |-> error] \in Event
  BY <1>1 DEF ShardTypeOK, Event
<1> QED BY <1>2 DEF ShardTypeOK, Schedule

LEMMA ElementType ==
  ASSUME NEW R, NEW q \in Seq(R), NEW i \in DOMAIN q
  PROVE  q[i] \in R /\ i - 1 \in Nat
OBVIOUS

\* What a builder leaves on the heap are events.
LEMMA BootType ==
  ASSUME NEW b \in Seq([delay : Times, prio : {URGENT, NORMAL}, label : Labels])
  PROVE  {[time |-> Plus(0, b[i].delay), prio |-> b[i].prio, eid |-> i - 1,
           label |-> b[i].label, origin |-> {}, error |-> NoError] : i \in DOMAIN b}
           \subseteq Event
<1>1. 0 \in Times
  BY TimeAssumption, RoundAssumption DEF Times
<1>2. ASSUME NEW i \in DOMAIN b
      PROVE  [time |-> Plus(0, b[i].delay), prio |-> b[i].prio, eid |-> i - 1,
              label |-> b[i].label, origin |-> {}, error |-> NoError] \in Event
  <2>1. b[i] \in [delay : Times, prio : {URGENT, NORMAL}, label : Labels]
    BY ElementType
  <2>2. i - 1 \in Nat
    BY ElementType
  <2> DEFINE x == b[i]
  <2>3. x.delay \in Times /\ x.prio \in {URGENT, NORMAL} /\ x.label \in Labels
    BY <2>1
  <2>4. Plus(0, b[i].delay) \in Times
    BY <1>1, <2>3, PlusType
  <2> QED BY <2>2, <2>3, <2>4 DEF Event, Errors
<1> QED BY <1>2

LEMMA BuildType ==
  ASSUME ShardTypeOK, NEW s \in Shards, Build(s)
  PROVE  ShardTypeOK'
<1> DEFINE b == program.boot[s]
           booted == {[time |-> Plus(0, b[i].delay), prio |-> b[i].prio, eid |-> i - 1,
                       label |-> b[i].label, origin |-> {}, error |-> NoError] : i \in DOMAIN b}
<1>1. program \in Program
  BY ProgramAssumption DEF ShardTypeOK
<1>2. program.builder[s] \in Errors
  BY <1>1 DEF Program, Errors
<1>3. b \in Seq([delay : Times, prio : {URGENT, NORMAL}, label : Labels])
  BY <1>1 DEF Program
<1>4. booted \subseteq Event
  BY <1>3, BootType
<1>5. Len(b) \in Nat
  BY <1>3
<1>6. CASE program.builder[s] = NoError
  <2>1. heap' = [heap EXCEPT ![s] = booted] /\ eid' = [eid EXCEPT ![s] = Len(b)]
    BY <1>6 DEF Build
  <2> HIDE DEF booted, b
  <2> QED BY <1>4, <1>5, <1>6, <2>1 DEF ShardTypeOK, Build
<1>7. CASE program.builder[s] # NoError
  BY <1>2, <1>7 DEF ShardTypeOK, Build
<1> QED BY <1>6, <1>7

LEMMA StepType ==
  ASSUME ShardTypeOK, NEW s \in Shards, NEW horizon, Step(s, horizon)
  PROVE  ShardTypeOK'
<1> USE DEF ShardTypeOK
<1>1. PICK e \in heap[s] :
        /\ now' = [now EXCEPT ![s] = e.time]
        /\ heap' = [heap EXCEPT ![s] = @ \ {e}]
        /\ trace' = [trace EXCEPT ![s] = Append(@, e)]
        /\ IF e.error # NoError
           THEN raised' = [raised EXCEPT ![s] = e.error] /\ UNCHANGED body
           ELSE body' = [body EXCEPT ![s] = Handler(s, e)] /\ UNCHANGED raised
  BY DEF Step
<1>2. e \in Event
  OBVIOUS
<1>3. Handler(s, e) \in Seq(Operations)
  <2>1. Deposit(e.label) \in Seq(Operations)
    <3>1. 0 \in Times
      BY TimeAssumption, RoundAssumption DEF Times
    <3>2. [op |-> "schedule", delay |-> 0, prio |-> NORMAL, label |-> e.label] \in Operations
      BY <1>2, <3>1 DEF Operations, Event
    <3> QED BY <3>2 DEF Deposit
  <2>2. program.handler[s][e.label] \in Seq(Operations)
    BY <1>2, ProgramAssumption DEF Program, Event
  <2> QED BY <2>1, <2>2 DEF Handler
<1>4. now' \in [Shards -> Times] /\ heap' \in [Shards -> SUBSET Event]
  BY <1>1, <1>2 DEF Event
<1>5. trace' \in [Shards -> Seq(Event)]
  BY <1>1, <1>2
<1>6. body' \in [Shards -> Seq(Operations)] /\ raised' \in [Shards -> Errors]
  BY <1>1, <1>2, <1>3 DEF Event
<1> QED BY <1>4, <1>5, <1>6 DEF Step

LEMMA RunScheduleType ==
  ASSUME ShardTypeOK, NEW s \in Shards, RunSchedule(s)
  PROVE  ShardTypeOK'
<1> DEFINE o == Head(body[s])
<1>1. o \in Operations /\ Tail(body[s]) \in Seq(Operations)
  BY DEF ShardTypeOK, RunSchedule
<1>2. o.delay \in Times /\ o.prio \in {URGENT, NORMAL} /\ o.label \in Labels
  BY <1>1, OperationTypes DEF RunSchedule
<1>3. heap' \in [Shards -> SUBSET Event] /\ eid' \in [Shards -> Nat]
  BY <1>2, ScheduleType DEF RunSchedule, Errors
<1> QED BY <1>1, <1>3 DEF ShardTypeOK, RunSchedule

LEMMA RunSendType ==
  ASSUME ShardTypeOK, NEW s \in Shards, RunSend(s)
  PROVE  ShardTypeOK'
<1> DEFINE o == Head(body[s])
           m == [timestamp |-> Plus(now[s], o.delay), channel |-> o.channel,
                 sequence |-> sequence[o.channel], label |-> o.label]
<1>1. o \in Operations /\ Tail(body[s]) \in Seq(Operations)
  BY DEF ShardTypeOK, RunSend
<1>2. o.channel \in Channels /\ o.delay \in Times /\ o.label \in Labels
  BY <1>1, OperationTypes DEF RunSend
<1>3. m \in Message
  <2>1. Plus(now[s], o.delay) \in Times
    BY <1>2, PlusType DEF ShardTypeOK
  <2> QED BY <1>2, <2>1 DEF Message, ShardTypeOK
<1>4. mail' = [mail EXCEPT ![o.channel] = @ \cup {m}]
  BY DEF RunSend
<1>5. mail' \in [Channels -> SUBSET Message]
  BY <1>2, <1>3, <1>4 DEF ShardTypeOK
<1>6. sequence' \in [Channels -> Nat]
  BY <1>2 DEF ShardTypeOK, RunSend
<1> QED BY <1>1, <1>5, <1>6 DEF ShardTypeOK, RunSend

LEMMA RunFailureType ==
  ASSUME ShardTypeOK, NEW s \in Shards, RunFailure(s), trace[s] # <<>>
  PROVE  ShardTypeOK'
<1>1. trace[s][Len(trace[s])] \in Event
  BY DEF ShardTypeOK
<1>2. trace[s][Len(trace[s])].label \in Labels
  BY <1>1 DEF Event
<1>3. Raises(s) \in Errors
  BY DEF Raises, Errors, RunFailure
<1>4. 0 \in Times
  BY TimeAssumption, RoundAssumption DEF Times
<1>5. heap' \in [Shards -> SUBSET Event] /\ eid' \in [Shards -> Nat]
  BY <1>2, <1>3, <1>4, ScheduleType DEF RunFailure
<1>6. body' \in [Shards -> Seq(Operations)]
  <2>1. body' = [body EXCEPT ![s] = <<>>] /\ <<>> \in Seq(Operations)
    BY DEF RunFailure
  <2> QED BY <2>1 DEF ShardTypeOK
<1> QED BY <1>5, <1>6 DEF ShardTypeOK, RunFailure

LEMMA AbsorbType ==
  ASSUME ShardTypeOK, NEW s \in Shards, Absorb(s)
  PROVE  pending' \in [Shards -> SUBSET Message] /\ mail' \in [Channels -> SUBSET Message]
BY DEF ShardTypeOK, Absorb, Inflight, Inbound

LEMMA DeliverType ==
  ASSUME ShardTypeOK, NEW s \in Shards, NEW horizon, Deliver(s, horizon)
  PROVE  ShardTypeOK'
<1> USE DEF ShardTypeOK
<1>1. PICK m \in pending[s] :
        /\ pending' = [pending EXCEPT ![s] = @ \ {m}]
        /\ IF m.timestamp < now[s]
           THEN raised' = [raised EXCEPT ![s] = "causality"] /\ UNCHANGED <<heap, eid>>
           ELSE /\ Schedule(s, Minus(m.timestamp, now[s]), NORMAL, m.label, {m}, NoError)
                /\ UNCHANGED raised
  BY DEF Deliver
<1>2. m \in Message /\ m.timestamp \in Times /\ m.label \in Labels
  BY DEF Message
<1>3. CASE m.timestamp < now[s]
  BY <1>1, <1>2, <1>3 DEF Deliver, Errors
<1>4. CASE ~ (m.timestamp < now[s])
  <2>1. Minus(m.timestamp, now[s]) \in Times
    BY <1>2, <1>4, MinusType DEF Times
  <2>2. heap' \in [Shards -> SUBSET Event] /\ eid' \in [Shards -> Nat]
    BY <1>1, <1>2, <1>4, <2>1, ScheduleType DEF Errors
  <2> QED BY <1>1, <1>4, <2>2 DEF Deliver
<1> QED BY <1>3, <1>4

\* What a shard reports is a pair of times, and the first is the greatest
\* time that is before all its events and the messages on their way to it.
LEMMA BoundType ==
  ASSUME ShardTypeOK, NEW s \in Shards
  PROVE  /\ MinLookahead(s) \in Times
         /\ \A c \in Outbound(s) : MinLookahead(s) <= Lookahead[c]
         /\ NextTime(s) \in Times
         /\ \A e \in heap[s] : NextTime(s) <= e.time
         /\ \A m \in pending[s] \cup Inflight(s) : NextTime(s) <= m.timestamp
         /\ \A w \in Times :
              /\ \A e \in heap[s] : w <= e.time
              /\ \A m \in pending[s] \cup Inflight(s) : w <= m.timestamp
              => w <= NextTime(s)
         /\ Bound(s) \in [next : Times, bound : Times]
<1> DEFINE lookaheads == {Lookahead[c] : c \in Outbound(s)} \cup {Infinity}
           times == {Infinity} \cup {e.time : e \in heap[s]}
                      \cup {m.timestamp : m \in pending[s] \cup Inflight(s)}
<1>1. Infinity \in Times /\ Times \subseteq Nat
  BY TimeAssumption, RoundAssumption DEF Times
<1>2. lookaheads \subseteq Times
  BY <1>1, ChannelAssumption DEF Outbound
<1>3. times \subseteq Times
  BY <1>1 DEF ShardTypeOK, Inflight, Inbound, Event, Message
<1>4. Min(lookaheads) \in lookaheads /\ \A y \in lookaheads : Min(lookaheads) <= y
  <2>1. lookaheads \in SUBSET Nat /\ lookaheads # {}
    BY <1>1, <1>2
  <2> QED BY <2>1, MinIsLeast
<1>5. Min(times) \in times /\ \A y \in times : Min(times) <= y
  <2>1. times \in SUBSET Nat /\ times # {}
    BY <1>1, <1>3
  <2> QED BY <2>1, MinIsLeast
<1>6. MinLookahead(s) = Min(lookaheads) /\ NextTime(s) = Min(times)
  BY DEF MinLookahead, NextTime
<1>7. MinLookahead(s) \in Times /\ NextTime(s) \in Times
  BY <1>2, <1>3, <1>4, <1>5, <1>6
<1>8. Plus(NextTime(s), MinLookahead(s)) \in Times
  BY <1>7, PlusType
<1> HIDE DEF lookaheads, times
<1>9. \A c \in Outbound(s) : MinLookahead(s) <= Lookahead[c]
  BY <1>4, <1>6 DEF lookaheads
<1>10. /\ \A e \in heap[s] : NextTime(s) <= e.time
       /\ \A m \in pending[s] \cup Inflight(s) : NextTime(s) <= m.timestamp
  BY <1>5, <1>6 DEF times
<1>11. ASSUME NEW w \in Times, \A e \in heap[s] : w <= e.time,
             \A m \in pending[s] \cup Inflight(s) : w <= m.timestamp
      PROVE  w <= NextTime(s)
  <2>1. w <= Infinity
    BY TimeAssumption DEF Times
  <2> QED BY <1>5, <1>6, <1>11, <2>1 DEF times
<1> QED BY <1>7, <1>8, <1>9, <1>10, <1>11 DEF Bound
=============================================================================
