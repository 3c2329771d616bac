---------------------------- MODULE MCPdesRounds ----------------------------
(***************************************************************************)
(* Instances of PdesRounds for TLC.  Three shards: 0 and 1 both send to 2, *)
(* so that messages of different channels can tie, and 2 answers 0.        *)
(***************************************************************************)
EXTENDS PdesRoundsProofs, MCFloats, TLC

MCSender    == (0 :> 0) @@ (1 :> 1) @@ (2 :> 2)
MCReceiver  == (0 :> 2) @@ (1 :> 2) @@ (2 :> 0)
MCLookahead == (0 :> 1) @@ (1 :> 2) @@ (2 :> 2)
FarLookahead == (0 :> 16) @@ (1 :> 4) @@ (2 :> 10)

After(d, p, l) == [op |-> "schedule", delay |-> d, prio |-> p, label |-> l]
Send(c, d, l)  == [op |-> "send", channel |-> c, delay |-> d, label |-> l]
Raise          == [op |-> "raise"]
Boot(d, l)     == [delay |-> d, prio |-> URGENT, label |-> l]

\* Exact arithmetic meets the hypotheses of the theorems.
ASSUME ExactMeetsHypotheses ==
  (\A x \in 0 .. 2 * Infinity : Round(x) = x)
    => NoEarlyArrival /\ StrictLookahead /\ NoOvershoot

\* Like doubles, these floats meet one hypothesis and break the other two.
ASSUME CoarseMeetsHypothesis ==
  (\A x \in 0 .. 2 * Infinity : Round(x) = Coarse(x)) => NoOvershoot

\* "tick" is a process that sends and sleeps, "mail" what an arrival wakes:
\* it may answer, raise, or break its channel's promise.
Ticks ==
  (0 :> {<<Send(0, 1, "mail"), After(2, NORMAL, "tick")>>,
         <<Send(0, 3, "mail"), Send(0, 2, "mail"), After(0, URGENT, "mail")>>})
  @@ (1 :> {<<Send(1, 2, "mail"), After(1, NORMAL, "tick")>>,
            <<After(2, NORMAL, "mail"), Send(1, 3, "mail")>>})
  @@ (2 :> {<<After(2, NORMAL, "tick")>>})

Mails ==
  (0 :> {<<>>, <<Send(0, 1, "mail")>>, <<Raise>>})
  @@ (1 :> {<<>>, <<Send(1, 1, "mail")>>})
  @@ (2 :> {<<>>, <<Send(2, 2, "mail")>>, <<Send(2, 3, "mail"), Raise>>})

NoErrors == [s \in 0 .. 2 |-> NoError]

Models ==
  {[boot |-> [s \in 0 .. 2 |-> <<Boot(0, "tick")>>],
    handler |-> (0 :> [tick |-> t0, mail |-> m0]) @@ (1 :> [tick |-> t1, mail |-> m1])
                  @@ (2 :> [tick |-> t2, mail |-> m2]),
    builder |-> NoErrors, miswired |-> FALSE] :
   t0 \in Ticks[0], t1 \in Ticks[1], t2 \in Ticks[2],
   m0 \in Mails[0], m1 \in Mails[1], m2 \in Mails[2]}

\* Runs that fail before the first round.
Unbuildable ==
  LET p == CHOOSE p \in Models : TRUE
  IN  {[p EXCEPT !.builder[1] = "raised"], [p EXCEPT !.miswired = TRUE]}

\* Shard 2 sleeps until shard 0's message, and answers while 0 is far ahead:
\* only the undelivered message keeps the window away from the answer.
Sparse ==
  {[boot |-> [s \in 0 .. 2 |-> <<Boot(0, "tick")>>],
    handler |-> (0 :> [tick |-> <<Send(0, 1, "mail"), After(4, NORMAL, "mail"), After(5, NORMAL, "mail")>>,
                       mail |-> <<>>])
                  @@ (1 :> [tick |-> <<>>, mail |-> <<>>])
                  @@ (2 :> [tick |-> <<>>, mail |-> <<Send(2, 2, "mail")>>]),
    builder |-> NoErrors, miswired |-> FALSE]}

MCPrograms == Models \cup Sparse \cup Unbuildable

-----------------------------------------------------------------------------
(* Models whose clocks leave the range of exact times. *)

Idle == [l \in {"tick", "mail"} |-> <<>>]

\* Shard 0 first sends at time 8, when shard 2 has been idle since time 1.
LatePrograms ==
  {[boot |-> (0 :> <<Boot(8, "tick")>>) @@ (1 :> <<>>) @@ (2 :> <<Boot(1, "mail")>>),
    handler |-> (0 :> [tick |-> <<Send(0, 2, "mail"), After(4, NORMAL, "tick")>>, mail |-> <<>>])
                  @@ (1 :> Idle) @@ (2 :> Idle),
    builder |-> NoErrors, miswired |-> FALSE]}

\* Shard 2, idle since time 2, forwards to shard 0, with the delay its channel
\* promises, what reaches it from shard 1 at time 20; shard 0 has an event at 28.
RelayPrograms ==
  {[boot |-> (0 :> <<Boot(28, "tick")>>) @@ (1 :> <<Boot(0, "tick")>>) @@ (2 :> <<Boot(2, "tick")>>),
    handler |-> (0 :> Idle)
                  @@ (1 :> [tick |-> <<Send(1, 20, "mail")>>, mail |-> <<>>])
                  @@ (2 :> [tick |-> <<>>, mail |-> <<Send(2, 10, "mail")>>]),
    builder |-> NoErrors, miswired |-> FALSE]}
=============================================================================
