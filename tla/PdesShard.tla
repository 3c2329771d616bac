------------------------------ MODULE PdesShard ------------------------------
(***************************************************************************)
(* One shard of a sharded simulation as its synchronizer sees it: the      *)
(* shard's Sim (clock, event heap, event counter), its _ShardRuntime (the  *)
(* heap of drained, undelivered messages), the mailboxes of the channels   *)
(* into it and the sequence counters of the channels out of it.            *)
(*                                                                         *)
(* The module declares the shards' variables and the actions that change   *)
(* them; the drivers (PdesRounds, PdesSequential, PdesThreads) extend it   *)
(* and decide when a shard may take which action.                          *)
(*                                                                         *)
(* The simulated model is a program: for every shard, the events its       *)
(* builder schedules and, for every event label, the operations performed  *)
(* by the processes that the event resumes.  A Python model is             *)
(* deterministic, so the program is fixed in the initial state; checking   *)
(* every member of Programs checks the drivers for a family of models.     *)
(***************************************************************************)
EXTENDS FloatTime, Sequences, FiniteSets, FiniteSetsExt

CONSTANTS
  N,          \* number of shards
  Channels,   \* channel ids, assigned in sorted-name order
  Sender,     \* Sender[c]: the shard that declared c with ports.out
  Receiver,   \* Receiver[c]: the shard that declared c with ports.inbox
  Lookahead,  \* Lookahead[c]: the declared lookahead of c
  Until,      \* the end of the run
  Labels,     \* what a processed event does is looked up by its label
  Programs    \* the simulated models checked

Shards   == 0 .. N - 1
URGENT   == 0
NORMAL   == 1
NoError  == "none"

\* What can escape from a shard's code: an exception of the model, a
\* LookaheadError from send(), a TopologyError, deliver()'s RuntimeError.
Errors == {NoError, "raised", "lookahead", "topology", "causality"}

Operations ==
  [op : {"schedule"}, delay : Times, prio : {URGENT, NORMAL}, label : Labels]
    \cup [op : {"send"}, channel : Channels, delay : Times, label : Labels]
    \cup [op : {"raise"}]

Program ==
  [boot     : [Shards -> Seq([delay : Times, prio : {URGENT, NORMAL}, label : Labels])],
   handler  : [Shards -> [Labels -> Seq(Operations)]],
   builder  : [Shards -> {NoError, "raised", "topology", "lookahead"}],
   miswired : BOOLEAN]

Message == [timestamp : Times, channel : Channels, sequence : Nat, label : Labels]

\* origin is the set holding the message an arrival event carries, or {};
\* error is the exception of a failed event.
Event == [time : Times, prio : {URGENT, NORMAL}, eid : Nat, label : Labels,
          origin : SUBSET Message, error : Errors]

ASSUME ShardsAssumption == N \in Nat \ {0}

ASSUME ChannelAssumption ==
  /\ Channels \subseteq Nat
  /\ Sender \in [Channels -> Shards]
  /\ Receiver \in [Channels -> Shards]
  /\ Lookahead \in [Channels -> Times \ {0}]

ASSUME UntilAssumption == Until \in Times \ {0}

\* A model declares its own channels: a shard sends only on channels it owns.
ASSUME ProgramAssumption ==
  /\ Programs \subseteq Program
  /\ \A p \in Programs, s \in Shards, l \in Labels :
       \A i \in DOMAIN p.handler[s][l] :
         p.handler[s][l][i].op = "send" => Sender[p.handler[s][l][i].channel] = s

-----------------------------------------------------------------------------
VARIABLES
  program,   \* the simulated model
  now,       \* now[s]: Sim._now
  heap,      \* heap[s]: Sim._queue, whose keys (time, prio, eid) are unique
  eid,       \* eid[s]: Sim._eid
  pending,   \* pending[s]: _ShardRuntime._pending, unique by (timestamp, channel, sequence)
  mail,      \* mail[c]: the messages buffered in c's Mailbox
  sequence,  \* sequence[c]: Channel._sequence
  body,      \* body[s]: operations the event being processed has still to perform
  trace,     \* trace[s]: the events processed, as a trace sink records them
  raised     \* raised[s]: the exception that left the shard's code

shardVars == <<program, now, heap, eid, pending, mail, sequence, body, trace, raised>>

ShardInit ==
  /\ program \in Programs
  /\ now = [s \in Shards |-> 0]
  /\ heap = [s \in Shards |-> {}]
  /\ eid = [s \in Shards |-> 0]
  /\ pending = [s \in Shards |-> {}]
  /\ mail = [c \in Channels |-> {}]
  /\ sequence = [c \in Channels |-> 0]
  /\ body = [s \in Shards |-> <<>>]
  /\ trace = [s \in Shards |-> <<>>]
  /\ raised = [s \in Shards |-> NoError]

-----------------------------------------------------------------------------
(* The shard's Sim. *)

\* The order in which the heap yields events.
Before(e, f) ==
  \/ e.time < f.time
  \/ e.time = f.time /\ e.prio < f.prio
  \/ e.time = f.time /\ e.prio = f.prio /\ e.eid < f.eid

IsFirst(e, s) == e \in heap[s] /\ \A f \in heap[s] \ {e} : Before(e, f)

\* Sim.schedule: the new event takes the next event id.
Schedule(s, delay, prio, label, origin, error) ==
  /\ heap' = [heap EXCEPT ![s] = @ \cup
       {[time |-> Plus(now[s], delay), prio |-> prio, eid |-> eid[s],
         label |-> label, origin |-> origin, error |-> error]}]
  /\ eid' = [eid EXCEPT ![s] = @ + 1]

\* ShardedSim._build_shard: a fresh Sim, on which the builder schedules its
\* first events in order, unless the builder fails.
Build(s) ==
  /\ IF program.builder[s] = NoError
     THEN /\ heap' = [heap EXCEPT ![s] =
               {[time |-> Plus(0, program.boot[s][i].delay), prio |-> program.boot[s][i].prio,
                 eid |-> i - 1, label |-> program.boot[s][i].label,
                 origin |-> {}, error |-> NoError] : i \in DOMAIN program.boot[s]}]
          /\ eid' = [eid EXCEPT ![s] = Len(program.boot[s])]
          /\ UNCHANGED raised
     ELSE /\ raised' = [raised EXCEPT ![s] = program.builder[s]]
          /\ UNCHANGED <<heap, eid>>
  /\ UNCHANGED <<program, now, pending, mail, sequence, body, trace>>

\* Inbox._deposit: putting the payload into the inbox's store schedules an
\* event at the current time; what that event and the get() it grants resume
\* is looked up by the message's label.
Deposit(label) ==
  <<[op |-> "schedule", delay |-> 0, prio |-> NORMAL, label |-> label]>>

\* What processing event e makes shard s do: an arrival deposits its
\* payload, any other event resumes the processes that wait for it.
Handler(s, e) == IF e.origin # {} THEN Deposit(e.label) ELSE program.handler[s][e.label]

\* Sim.step below a horizon.  The event is recorded when it is popped: the
\* code records it after its callbacks, and steps do not nest.  A failed
\* event nobody handles leaves step() as an exception.
Step(s, horizon) ==
  /\ body[s] = <<>>
  /\ \E e \in heap[s] :
       /\ IsFirst(e, s)
       /\ e.time < horizon
       /\ now' = [now EXCEPT ![s] = e.time]
       /\ heap' = [heap EXCEPT ![s] = @ \ {e}]
       /\ trace' = [trace EXCEPT ![s] = Append(@, e)]
       /\ IF e.error # NoError
          THEN raised' = [raised EXCEPT ![s] = e.error] /\ UNCHANGED body
          ELSE body' = [body EXCEPT ![s] = Handler(s, e)] /\ UNCHANGED raised
  /\ UNCHANGED <<program, eid, pending, mail, sequence>>

\* A process schedules a local event (a timeout, a spawn, a succeed).
RunSchedule(s) ==
  /\ body[s] # <<>>
  /\ Head(body[s]).op = "schedule"
  /\ LET o == Head(body[s]) IN Schedule(s, o.delay, o.prio, o.label, {}, NoError)
  /\ body' = [body EXCEPT ![s] = Tail(@)]
  /\ UNCHANGED <<program, now, pending, mail, sequence, trace, raised>>

\* Mutant: send() without its check of the delay.
RunSendUnchecked(s) ==
  /\ body[s] # <<>>
  /\ Head(body[s]).op = "send"
  /\ LET o == Head(body[s]) IN
       /\ mail' = [mail EXCEPT ![o.channel] = @ \cup
            {[timestamp |-> Plus(now[s], o.delay), channel |-> o.channel,
              sequence |-> sequence[o.channel], label |-> o.label]}]
       /\ sequence' = [sequence EXCEPT ![o.channel] = @ + 1]
  /\ body' = [body EXCEPT ![s] = Tail(@)]
  /\ UNCHANGED <<program, now, heap, eid, pending, trace, raised>>

\* Channel.send that keeps the channel's promise.
RunSend(s) ==
  /\ body[s] # <<>>
  /\ Head(body[s]).op = "send"
  /\ LET o == Head(body[s]) IN
       /\ o.delay >= Lookahead[o.channel]
       /\ mail' = [mail EXCEPT ![o.channel] = @ \cup
            {[timestamp |-> Plus(now[s], o.delay), channel |-> o.channel,
              sequence |-> sequence[o.channel], label |-> o.label]}]
       /\ sequence' = [sequence EXCEPT ![o.channel] = @ + 1]
  /\ body' = [body EXCEPT ![s] = Tail(@)]
  /\ UNCHANGED <<program, now, heap, eid, pending, trace, raised>>

\* The error of the next operation of s, if it raises.
Raises(s) ==
  LET o == Head(body[s]) IN
    CASE o.op = "raise" -> "raised"
      [] o.op = "send"  -> IF o.delay < Lookahead[o.channel] THEN "lookahead" ELSE NoError
      [] OTHER          -> NoError

\* An exception ends the process, whose failure becomes an event of its own.
RunFailure(s) ==
  /\ body[s] # <<>>
  /\ Raises(s) # NoError
  /\ Schedule(s, 0, NORMAL, trace[s][Len(trace[s])].label, {}, Raises(s))
  /\ body' = [body EXCEPT ![s] = <<>>]
  /\ UNCHANGED <<program, now, pending, mail, sequence, trace, raised>>

RunBody(s) == RunSchedule(s) \/ RunSend(s) \/ RunFailure(s)

-----------------------------------------------------------------------------
(* The shard's _ShardRuntime and Inbox. *)

Outbound(s) == {c \in Channels : Sender[c] = s}
Inbound(s)  == {c \in Channels : Receiver[c] = s}

\* The least lookahead of a shard's outgoing channels; a pure sink has none.
MinLookahead(s) == Min({Lookahead[c] : c \in Outbound(s)} \cup {Infinity})

Inflight(s) == UNION {mail[c] : c \in Inbound(s)}

\* Mutant: drain() that does not clear the mailbox.
AbsorbAgain(s) ==
  /\ pending' = [pending EXCEPT ![s] = @ \cup Inflight(s)]
  /\ UNCHANGED mail

\* _ShardRuntime.absorb: every mailbox of s is drained into its pending heap.
Absorb(s) ==
  /\ pending' = [pending EXCEPT ![s] = @ \cup Inflight(s)]
  /\ mail' = [c \in Channels |-> IF c \in Inbound(s) THEN {} ELSE mail[c]]

\* Mutant: the horizon ignores undelivered messages.
NextTimeOfHeap(s) == Min({Infinity} \cup {e.time : e \in heap[s]})

\* The time of the next work of s once its mailboxes are drained.
NextTime(s) ==
  Min({Infinity} \cup {e.time : e \in heap[s]}
        \cup {m.timestamp : m \in pending[s] \cup Inflight(s)})

\* Mutant: the lookahead is forgotten.
BoundAtNext(s) == [next |-> NextTime(s), bound |-> NextTime(s)]

\* _ShardRuntime.bound, in the state in which it is called.
Bound(s) == [next |-> NextTime(s), bound |-> Plus(NextTime(s), MinLookahead(s))]

\* The normative delivery order.
KeyBefore(m, k) ==
  \/ m.timestamp < k.timestamp
  \/ m.timestamp = k.timestamp /\ m.channel < k.channel
  \/ m.timestamp = k.timestamp /\ m.channel = k.channel /\ m.sequence < k.sequence

\* Mutant: pending messages are delivered in no particular order.
DeliverUnsorted(s, horizon) ==
  /\ \E m \in pending[s] :
       /\ m.timestamp < horizon
       /\ pending' = [pending EXCEPT ![s] = @ \ {m}]
       /\ Schedule(s, Minus(m.timestamp, now[s]), NORMAL, m.label, {m}, NoError)
  /\ UNCHANGED <<program, now, mail, sequence, body, trace, raised>>

\* One turn of deliver_below: Inbox.deliver makes an arrival event of the
\* least pending message, or refuses one stamped in the shard's past.
Deliver(s, horizon) ==
  /\ \E m \in pending[s] :
       /\ m.timestamp < horizon
       /\ \A k \in pending[s] \ {m} : KeyBefore(m, k)
       /\ pending' = [pending EXCEPT ![s] = @ \ {m}]
       /\ IF m.timestamp < now[s]
          THEN raised' = [raised EXCEPT ![s] = "causality"] /\ UNCHANGED <<heap, eid>>
          ELSE /\ Schedule(s, Minus(m.timestamp, now[s]), NORMAL, m.label, {m}, NoError)
               /\ UNCHANGED raised
  /\ UNCHANGED <<program, now, mail, sequence, body, trace>>

DeliveredBelow(s, horizon) == \A m \in pending[s] : m.timestamp >= horizon

ExecutedBelow(s, horizon) == body[s] = <<>> /\ \A e \in heap[s] : e.time >= horizon

-----------------------------------------------------------------------------
(* _decide: one round's verdict from the reported bounds. *)

\* Mutant: the run stops as soon as one shard has no work below Until.
NextMinOfOne(bounds) == Max({bounds[s].next : s \in Shards})

NextMin(bounds) == Min({bounds[s].next : s \in Shards})

Horizon(bounds) == Min({bounds[s].bound : s \in Shards})

ShardTypeOK ==
  /\ program \in Programs
  /\ now \in [Shards -> Times]
  /\ heap \in [Shards -> SUBSET Event]
  /\ eid \in [Shards -> Nat]
  /\ pending \in [Shards -> SUBSET Message]
  /\ mail \in [Channels -> SUBSET Message]
  /\ sequence \in [Channels -> Nat]
  /\ body \in [Shards -> Seq(Operations)]
  /\ trace \in [Shards -> Seq(Event)]
  /\ raised \in [Shards -> Errors]
=============================================================================
