----------------------------- MODULE Replicate -----------------------------
(***************************************************************************)
(* The replication runner (parallel/replicate.py).  The consumer's thread  *)
(* runs the generator iter_results: it submits one job per replication,    *)
(* then takes futures from a completion queue and yields results.  Workers *)
(* of an executor run the jobs.  Another thread may call cancel() at any   *)
(* time; the consumer may cancel or break off at a yield.  An Experiment   *)
(* can be run again.                                                       *)
(*                                                                         *)
(* concurrent.futures is external: a future is cancelled only before a     *)
(* worker takes it, and its done-callback runs once, when it is done or    *)
(* when it is registered, whichever is later.                              *)
(***************************************************************************)
EXTENDS Integers, Sequences, FiniteSets, Functions, Backends

CONSTANTS
    Studies,       \* what is run: backend, outcomes of the factory, options
    MaxWorkers,    \* workers of the executor
    MaxRounds,     \* bound: how often the Experiment is iterated
    MaxCancels     \* bound: how often the other thread calls cancel()

\* Jobs are numbered from 1 on: the outcomes of a study are a sequence.
ASSUME ReplicateAssumption ==
    /\ MaxWorkers \in Nat \ {0} /\ MaxRounds \in Nat /\ MaxCancels \in Nat
    /\ \A s \in Studies : /\ s.kind \in Kinds /\ s.spool \in BOOLEAN /\ s.aware \in BOOLEAN
                          /\ s.outcomes \in Seq(Range(s.outcomes))

VARIABLES
    study,         \* kind, spool, aware (accepts_cancel), configs (their
                   \* values), outcomes: what the factory does, by job
    exp,           \* the fields _cancelled, _token, _executor
    pool,          \* the executor of this iteration: shut down, its token
                   \* fired, whether pending futures are still to be dropped
    futures,       \* by job: "none" until submitted, then its state
    payloads,      \* by job: what its worker sent back
    hooked,        \* the futures whose done-callback is registered
    completions,   \* completion_queue
    coord,         \* the generator: where it is, the next job, how many
                   \* completions it still expects, how it ended
    canceller,     \* the other thread's cancel(); history: whether it began in
                   \* this iteration, whether any such call overlaps it
    yielded,       \* the results the consumer has seen in this iteration
    left           \* rounds and cancels still allowed

vars == <<study, exp, pool, futures, payloads, hooked, completions, coord,
          canceller, yielded, left>>

\* The generator's variables, in the groups that actions leave alone.
workVars == <<futures, payloads, hooked, completions>>

Jobs == DOMAIN study.outcomes
Pending == {j \in Jobs : futures[j] = "pending"}
Running == {j \in Jobs : futures[j] = "running"}
Transport == RequiresTransport(study.kind)

NoPayload == [form |-> "none", of |-> "none"]
FreshPool == [shut |-> FALSE, fired |-> FALSE, dropping |-> FALSE]

Init ==
    /\ study \in Studies
    /\ exp = [cancelled |-> FALSE, token |-> FALSE, executor |-> FALSE]
    /\ pool = FreshPool
    /\ futures = [j \in Jobs |-> "none"]
    /\ payloads = [j \in Jobs |-> NoPayload]
    /\ hooked = {} /\ completions = <<>>
    /\ coord = [at |-> "idle", next |-> 1, expects |-> 0, result |-> "none", blames |-> 0]
    /\ canceller = [at |-> "idle", began |-> FALSE, overlaps |-> FALSE]
    /\ yielded = <<>>
    /\ left = [rounds |-> MaxRounds, cancels |-> MaxCancels]

-----------------------------------------------------------------------------
(* The executor. *)

\* The futures in S one after the other, in the order of their submission.
InOrder(S) == {s \in [1 .. Cardinality(S) -> S] :
                  Range(s) = S /\ \A i, k \in DOMAIN s : i < k => s[i] < s[k]}

\* Mutant: a future puts itself into the queue, hooked or not.
CompletedAnyway(S, queue) == \E s \in InOrder(S) : completions' = queue \o s

\* The futures in S are done, after those in queue: the hooked ones follow.
Completed(S, queue) == \E s \in InOrder(S \cap hooked) : completions' = queue \o s

\* executor.shutdown(cancel_futures=True), after token._cancel() if it fires.
\* The process pool's manager thread drops the pending work later, the other
\* executors at once.
Shut(fires, queue) ==
    LET later == study.kind = "processes"
        drop  == IF later THEN {} ELSE Pending
    IN  /\ pool' = [pool EXCEPT !.shut = TRUE, !.fired = @ \/ fires, !.dropping = @ \/ later]
        /\ futures' = [j \in Jobs |-> IF j \in drop THEN "cancelled" ELSE futures[j]]
        /\ Completed(drop, queue)
        /\ UNCHANGED <<payloads, hooked>>

DropPending ==
    /\ pool.dropping
    /\ pool' = [pool EXCEPT !.dropping = FALSE]
    /\ futures' = [j \in Jobs |-> IF j \in Pending THEN "cancelled" ELSE futures[j]]
    /\ Completed(Pending, completions)
    /\ UNCHANGED <<study, exp, payloads, hooked, coord, canceller, yielded, left>>

\* The process pool hands one job ahead to the call queue.
Capacity == MaxWorkers + (IF study.kind = "processes" THEN 1 ELSE 0)

WorkerTakes ==
    /\ Cardinality(Running) < Capacity /\ Pending # {}
    /\ \E j \in Pending : /\ \A k \in Pending : j <= k
                          /\ futures' = [futures EXCEPT ![j] = "running"]
    /\ UNCHANGED <<study, exp, pool, payloads, hooked, completions, coord,
                   canceller, yielded, left>>

\* _run_replication: what the factory returned is encoded for the way back; a
\* factory that watches a live token may stop early.
RunReplication(j, value) ==
    LET unsent == value # "raises" /\ (Transport \/ study.spool) /\ ~Pickles(value)
        failed == value = "raises" \/ unsent
    IN  /\ payloads' = [payloads EXCEPT ![j] =
              IF failed THEN [form |-> "error", of |-> IF unsent THEN "transport" ELSE "replication"]
                        ELSE Encode(value, Transport, study.spool)]
        /\ futures' = [futures EXCEPT ![j] = IF failed THEN "failed" ELSE "finished"]

WorkerFinishes ==
    /\ \E j \in Running :
          /\ \/ RunReplication(j, study.outcomes[j])
             \/ /\ study.aware /\ SharesToken(study.kind) /\ pool.fired
                /\ RunReplication(j, "partial")
          /\ Completed({j}, completions)
    /\ UNCHANGED <<study, exp, pool, hooked, coord, canceller, yielded, left>>

-----------------------------------------------------------------------------
(* The generator. *)

At(point) == coord.at = point
Goto(point) == coord' = [coord EXCEPT !.at = point]
Raise(error, j) == coord' = [coord EXCEPT !.at = "finally", !.result = error, !.blames = j]

\* iter_results up to its try: preflight, then a fresh flag and executor.
Begin ==
    /\ At("idle") /\ left.rounds > 0
    /\ left' = [left EXCEPT !.rounds = @ - 1]
    /\ yielded' = <<>>
    /\ IF Transport /\ \E c \in study.configs : ~Pickles(c)
       THEN /\ coord' = [coord EXCEPT !.at = "ended", !.result = "config"]
            /\ UNCHANGED <<exp, pool, futures, payloads, hooked, completions>>
       ELSE /\ exp' = [exp EXCEPT !.cancelled = FALSE]
            /\ pool' = FreshPool
            /\ futures' = [j \in Jobs |-> "none"]
            /\ payloads' = [j \in Jobs |-> NoPayload]
            /\ hooked' = {} /\ completions' = <<>>
            /\ coord' = [at |-> "token", next |-> 1, expects |-> 0,
                         result |-> "running", blames |-> 0]
    /\ canceller' = [canceller EXCEPT
          !.began = FALSE, !.overlaps = canceller.at \notin {"idle", "returned", "raised"}]
    /\ UNCHANGED study

AttachToken ==
    /\ At("token") /\ exp' = [exp EXCEPT !.token = TRUE] /\ Goto("executor")
    /\ UNCHANGED <<study, pool, workVars, canceller, yielded, left>>

AttachExecutor ==
    /\ At("executor") /\ exp' = [exp EXCEPT !.executor = TRUE] /\ Goto("check")
    /\ UNCHANGED <<study, pool, workVars, canceller, yielded, left>>

\* Mutant: the flag is not looked at.
CheckNothing ==
    /\ At("check")
    /\ IF coord.next \notin Jobs
       THEN coord' = [coord EXCEPT !.at = "collect", !.expects = coord.next - 1]
       ELSE Goto("submit")
    /\ UNCHANGED <<study, exp, pool, workVars, canceller, yielded, left>>

\* The head of the submission loop.
CheckCancelled ==
    /\ At("check")
    /\ IF coord.next \notin Jobs \/ exp.cancelled
       THEN coord' = [coord EXCEPT !.at = "collect", !.expects = coord.next - 1]
       ELSE Goto("submit")
    /\ UNCHANGED <<study, exp, pool, workVars, canceller, yielded, left>>

\* executor.submit refuses when the executor has been shut down meanwhile.
Submit ==
    /\ At("submit")
    /\ IF pool.shut
       THEN Raise("refused", 0) /\ UNCHANGED futures
       ELSE Goto("hook") /\ futures' = [futures EXCEPT ![coord.next] = "pending"]
    /\ UNCHANGED <<study, exp, pool, payloads, hooked, completions, canceller, yielded, left>>

IsDone(j) == futures[j] \in {"finished", "failed", "cancelled"}

\* Mutant: a future that is done already is not put into the queue.
HookTooLate ==
    /\ At("hook")
    /\ hooked' = hooked \cup {coord.next}
    /\ coord' = [coord EXCEPT !.at = "check", !.next = @ + 1]
    /\ UNCHANGED <<study, exp, pool, futures, payloads, completions, canceller, yielded, left>>

\* add_done_callback: at once if the future is done already.
HookFuture ==
    /\ At("hook")
    /\ hooked' = hooked \cup {coord.next}
    /\ completions' = IF IsDone(coord.next) THEN Append(completions, coord.next)
                                            ELSE completions
    /\ coord' = [coord EXCEPT !.at = "check", !.next = @ + 1]
    /\ UNCHANGED <<study, exp, pool, futures, payloads, canceller, yielded, left>>

\* _make_result
Value(j) == IF study.spool THEN Decode(payloads[j], TRUE, TRUE)
                           ELSE Decode(payloads[j], Transport, FALSE)

\* cancel() on the generator's own thread.
CancelHere(queue) == exp' = [exp EXCEPT !.cancelled = TRUE] /\ Shut(TRUE, queue)

\* completion_queue.get() and what follows.
Collect ==
    /\ At("collect")
    /\ IF coord.expects = 0
       THEN /\ coord' = [coord EXCEPT !.at = "finally", !.result = "returned"]
            /\ UNCHANGED <<exp, pool, workVars, yielded>>
       ELSE /\ completions # <<>>
            /\ LET j == Head(completions)
                   counted == [coord EXCEPT !.expects = @ - 1]
               IN  CASE futures[j] = "cancelled" ->
                          /\ coord' = counted
                          /\ completions' = Tail(completions)
                          /\ UNCHANGED <<exp, pool, futures, payloads, hooked, yielded>>
                     [] futures[j] = "failed" ->
                          /\ CancelHere(Tail(completions))
                          /\ Raise(payloads[j].of, j)
                          /\ UNCHANGED yielded
                     [] OTHER ->
                          /\ coord' = [counted EXCEPT !.at = "yielded"]
                          /\ completions' = Tail(completions)
                          /\ yielded' = Append(yielded, [job |-> j, value |-> Value(j)])
                          /\ UNCHANGED <<exp, pool, futures, payloads, hooked>>
    /\ UNCHANGED <<study, canceller, left>>

\* finally: the fields are cleared one by one, then the executor is joined.
ClearToken ==
    /\ At("finally") /\ exp' = [exp EXCEPT !.token = FALSE] /\ Goto("clear")
    /\ UNCHANGED <<study, pool, workVars, canceller, yielded, left>>

ClearExecutor ==
    /\ At("clear") /\ exp' = [exp EXCEPT !.executor = FALSE] /\ Goto("shutdown")
    /\ UNCHANGED <<study, pool, workVars, canceller, yielded, left>>

ShutDown ==
    /\ At("shutdown") /\ Shut(FALSE, completions) /\ Goto("join")
    /\ UNCHANGED <<study, exp, canceller, yielded, left>>

\* Mutant: shutdown(wait=False).
JoinAtOnce ==
    /\ At("join") /\ Goto("ended")
    /\ UNCHANGED <<study, exp, pool, workVars, canceller, yielded, left>>

Join ==
    /\ At("join") /\ ~pool.dropping /\ Running = {}
    /\ Goto("ended")
    /\ UNCHANGED <<study, exp, pool, workVars, canceller, yielded, left>>

-----------------------------------------------------------------------------
(* The consumer, while the generator is suspended, and after its end. *)

GoOn ==
    /\ At("yielded") /\ Goto("collect")
    /\ UNCHANGED <<study, exp, pool, workVars, canceller, yielded, left>>

CancelAndGoOn ==
    /\ At("yielded") /\ CancelHere(completions) /\ Goto("collect")
    /\ UNCHANGED <<study, canceller, yielded, left>>

\* break closes the generator.
BreakOff ==
    /\ At("yielded")
    /\ coord' = [coord EXCEPT !.at = "finally", !.result = "broken off"]
    /\ UNCHANGED <<study, exp, pool, workVars, canceller, yielded, left>>

RunAgain ==
    /\ At("ended") /\ left.rounds > 0 /\ Goto("idle")
    /\ UNCHANGED <<study, exp, pool, workVars, canceller, yielded, left>>

-----------------------------------------------------------------------------
(* cancel() on another thread: it tests each field, then reads it again. *)

CancelAt(point) == canceller.at = point
CancelGoto(point) == canceller' = [canceller EXCEPT !.at = point]

CancelFlag ==
    /\ CancelAt("idle") /\ left.cancels > 0
    /\ exp' = [exp EXCEPT !.cancelled = TRUE]
    /\ LET active == ~At("idle") /\ ~At("ended") IN
       canceller' = [at |-> "token?", began |-> active, overlaps |-> active \/ canceller.overlaps]
    /\ left' = [left EXCEPT !.cancels = @ - 1]
    /\ UNCHANGED <<study, pool, workVars, coord, yielded>>

CancelSeesToken ==
    /\ CancelAt("token?") /\ CancelGoto(IF exp.token THEN "token" ELSE "executor?")
    /\ UNCHANGED <<study, exp, pool, workVars, coord, yielded, left>>

\* The base token's _cancel does nothing; a field that is None by now has no
\* such method.
CancelFires ==
    /\ CancelAt("token")
    /\ CancelGoto(IF exp.token THEN "executor?" ELSE "raised")
    /\ pool' = IF exp.token THEN [pool EXCEPT !.fired = TRUE] ELSE pool
    /\ UNCHANGED <<study, exp, workVars, coord, yielded, left>>

CancelSeesExecutor ==
    /\ CancelAt("executor?")
    /\ CancelGoto(IF exp.executor THEN "executor" ELSE "returned")
    /\ UNCHANGED <<study, exp, pool, workVars, coord, yielded, left>>

CancelShuts ==
    /\ CancelAt("executor")
    /\ CancelGoto(IF exp.executor THEN "returned" ELSE "raised")
    /\ IF exp.executor THEN Shut(FALSE, completions) ELSE UNCHANGED <<pool, workVars>>
    /\ UNCHANGED <<study, exp, coord, yielded, left>>

CancelAgain ==
    /\ canceller.at \in {"returned", "raised"} /\ left.cancels > 0
    /\ CancelGoto("idle")
    /\ UNCHANGED <<study, exp, pool, workVars, coord, yielded, left>>

-----------------------------------------------------------------------------
Executor == WorkerTakes \/ WorkerFinishes \/ DropPending
Generator == Begin \/ AttachToken \/ AttachExecutor \/ CheckCancelled \/ Submit \/ HookFuture
             \/ Collect \/ ClearToken \/ ClearExecutor \/ ShutDown \/ Join
Consumer == GoOn \/ CancelAndGoOn \/ BreakOff \/ RunAgain
CancelThread == CancelFlag \/ CancelSeesToken \/ CancelFires \/ CancelSeesExecutor
                \/ CancelShuts \/ CancelAgain

Next == Executor \/ Generator \/ Consumer \/ CancelThread

\* Factories return, and every thread that can go on does; the consumer need
\* not come back from a yield, and nobody need call cancel().
Fairness == WF_vars(WorkerTakes) /\ WF_vars(WorkerFinishes) /\ WF_vars(DropPending)
            /\ WF_vars(Generator)

Spec == Init /\ [][Next]_vars /\ Fairness

-----------------------------------------------------------------------------
(* Properties. *)

Yielded == {yielded[i].job : i \in DOMAIN yielded}

\* Each result is yielded exactly once, whether its worker finished before or
\* after the callback was registered, and is what its factory returned, having
\* crossed the transport (iter_results, add_done_callback, _decode_payload); a
\* cut-short one only where a live token was fired.
EachResultOnce ==
    /\ Cardinality(Yielded) = Len(yielded)
    /\ \A i \in DOMAIN yielded :
          LET got == yielded[i] IN
          \/ got.value = study.outcomes[got.job] /\ got.value # "raises"
          \/ /\ got.value = "partial" /\ study.kind = "threads"
             /\ exp.cancelled \/ canceller.overlaps

\* An iteration that has ended is all or nothing: every result was yielded, or
\* someone cancelled or broke off, or the error names a replication that failed
\* (replicate.py:27-30); and no job of it is left waiting or running.
AllOrNothing ==
    At("ended") =>
        /\ Pending = {} /\ Running = {}
        /\ coord.result = "returned" =>
              /\ \A j \in Jobs : futures[j] # "failed"
              /\ {j \in Jobs : futures[j] = "finished"} = Yielded
              /\ Yielded = Jobs \/ exp.cancelled \/ canceller.overlaps
        /\ coord.result \in {"replication", "transport"} =>
              /\ futures[coord.blames] = "failed"
              /\ coord.result = "replication" <=> study.outcomes[coord.blames] = "raises"
        /\ coord.result = "config" => \A j \in Jobs : j \notin Yielded

\* Once a cancel() that began in this iteration has returned, no new work is
\* dispatched (iter_results), although it may have found no executor yet.
QuietAfterCancel ==
    [][ canceller.at = "returned" /\ canceller.began
          => \A j \in Jobs : futures[j] = "none" => futures'[j] # "pending" ]_vars

\* The generator always gets on to its next result or to its end: it never
\* waits for a completion that does not come (the comment at replicate.py:328).
IterationGoesOn ==
    ~At("idle") ~> At("yielded") \/ At("ended")

\* "After cancel, replications that already finished are still yielded"
\* (replicate.py:315-318), so cancelling does not end the iteration by an error.
CancelIsNoError ==
    At("ended") => coord.result # "refused"

=============================================================================
