-------------------------- MODULE MCPdesEquivalence --------------------------
(***************************************************************************)
(* Instances of PdesEquivalence for TLC: three shards, four threads at the *)
(* barrier.  Shards 0 and 1 both send to 2, so that messages of different  *)
(* channels can tie, and 2 answers 0.                                      *)
(***************************************************************************)
EXTENDS PdesEquivalence, MCFloats, TLC

MCSender    == (0 :> 0) @@ (1 :> 1) @@ (2 :> 2)
MCReceiver  == (0 :> 2) @@ (1 :> 2) @@ (2 :> 0)
MCLookahead == (0 :> 1) @@ (1 :> 2) @@ (2 :> 2)

After(d, p, l) == [op |-> "schedule", delay |-> d, prio |-> p, label |-> l]
Send(c, d, l)  == [op |-> "send", channel |-> c, delay |-> d, label |-> l]
RaiseOp        == [op |-> "raise"]
Boot(d, l)     == [delay |-> d, prio |-> URGENT, label |-> l]

Idle     == [tick |-> <<>>, mail |-> <<>>]
NoErrors == [s \in 0 .. 2 |-> NoError]

\* A model in which every shard starts with a "tick" at time 0.
Model(h0, h1, h2) ==
  [boot |-> [s \in 0 .. 2 |-> <<Boot(0, "tick")>>],
   handler |-> (0 :> h0) @@ (1 :> h1) @@ (2 :> h2),
   builder |-> NoErrors, miswired |-> FALSE]

\* Shard 0 sends once, or at every tick; shard 1 sends and wakes a second
\* process at once, or breaks its channel's promise at time 1; shard 2 stays
\* silent, answers, or raises while the others run on.  Messages of channels
\* 0 and 1 can tie at time 2.
Senders0 == {<<Send(0, 2, "mail")>>, <<Send(0, 1, "mail"), After(2, NORMAL, "tick")>>}

Senders1 == {[tick |-> <<Send(1, 2, "mail"), After(0, NORMAL, "mail")>>, mail |-> <<>>],
             [tick |-> <<After(1, NORMAL, "mail")>>, mail |-> <<Send(1, 1, "mail")>>]}

Answers == {<<>>, <<Send(2, 2, "mail")>>, <<RaiseOp>>}

Models ==
  {Model([tick |-> t, mail |-> <<>>], h, [tick |-> <<After(1, URGENT, "tick")>>, mail |-> a]) :
     t \in Senders0, h \in Senders1, a \in Answers}

\* Runs that fail before the first round.
Unbuildable ==
  LET p == CHOOSE p \in Models : TRUE
  IN  {[p EXCEPT !.builder[1] = "raised"], [p EXCEPT !.miswired = TRUE]}

MCPrograms == Models \cup Unbuildable

\* Shards 0 and 2 raise in the first window.
BothRaise == {Model([Idle EXCEPT !.tick = <<RaiseOp>>], Idle, [Idle EXCEPT !.tick = <<RaiseOp>>])}

\* Shard 1 sends too soon in the first window.
SendsTooSoon == {Model(Idle, [Idle EXCEPT !.tick = <<Send(1, 1, "mail")>>], Idle)}
=============================================================================
