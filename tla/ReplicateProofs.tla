--------------------------- MODULE ReplicateProofs ---------------------------
(***************************************************************************)
(* What an iteration yields and how it ends, for every study, any number   *)
(* of workers, rounds and cancels: an inductive invariant of Replicate and *)
(* the theorems that follow from it.                                       *)
(***************************************************************************)
EXTENDS Replicate, FiniteSetTheorems, TLAPS

-----------------------------------------------------------------------------
(* The inductive invariant. *)

Returned == Range(study.outcomes) \cup {"partial"}
Payloads == [form : {"none", "raw", "pickle", "zstd", "error"},
             of : Returned \cup {"none", "replication", "transport"}]

FutureStates == {"none", "pending", "running", "finished", "failed", "cancelled"}

Attached == {"executor", "check", "submit", "hook", "collect", "yielded", "finally"}
Submitting == {"check", "submit", "hook"}
Collecting == {"collect", "yielded"}
Closing == {"finally", "clear", "shutdown", "join"}
Points == {"idle", "token", "ended"} \cup Attached \cup Closing

TypeOK ==
    /\ study \in Studies
    /\ exp \in [cancelled : BOOLEAN, token : BOOLEAN, executor : BOOLEAN]
    /\ pool \in [shut : BOOLEAN, fired : BOOLEAN, dropping : BOOLEAN]
    /\ futures \in [Jobs -> FutureStates]
    /\ payloads \in [Jobs -> Payloads]
    /\ hooked \in SUBSET Jobs
    /\ completions \in Seq(Jobs)
    /\ coord \in [at : Points, next : Nat, expects : Nat, blames : Nat,
                  result : {"none", "running", "returned", "broken off", "refused",
                            "config", "replication", "transport"}]
    /\ canceller \in [at : {"idle", "token?", "token", "executor?", "executor",
                            "returned", "raised"},
                      began : BOOLEAN, overlaps : BOOLEAN]
    /\ yielded \in Seq([job : Jobs, value : Returned])
    /\ left \in [rounds : Nat, cancels : Nat]

Active == ~At("idle") /\ ~At("ended")
Looping == coord.at \in Submitting \cup Collecting

\* Someone has cancelled this iteration, or may have.
Excused == exp.cancelled \/ canceller.overlaps

\* What the generator's fields and its place say of each other.
PlaceInv ==
    /\ exp.token <=> coord.at \in Attached
    /\ exp.executor <=> (coord.at \in Attached \ {"executor"} \/ At("clear"))
    /\ Active /\ coord.at \notin Closing => coord.result = "running"
    /\ coord.at \in Closing => coord.result \notin {"none", "running", "config"}
    /\ coord.result = "config" => yielded = <<>>
    /\ canceller.began => exp.cancelled
    /\ Active /\ canceller.at \in {"token?", "token", "executor?", "executor"}
          => canceller.overlaps
    /\ At("submit") /\ canceller.began /\ canceller.at = "returned" => pool.shut

\* The executor loses work only if someone cancelled, and is empty in the end.
PoolInv ==
    /\ Active /\ pool.fired => Excused
    /\ Active /\ ~At("join") =>
          /\ pool.dropping => Excused
          /\ \A j \in Jobs : futures[j] = "cancelled" => Excused
    /\ pool.shut /\ ~pool.dropping => Pending = {}
    /\ At("join") => pool.shut
    /\ ~Active => Pending = {} /\ Running = {}

\* What a finished or failed job sent back.
PayloadInv ==
    \A j \in Jobs :
        /\ futures[j] = "finished" =>
              \/ /\ payloads[j] = Encode(study.outcomes[j], Transport, study.spool)
                 /\ study.outcomes[j] # "raises"
              \/ /\ payloads[j] = Encode("partial", Transport, study.spool)
                 /\ study.kind = "threads" /\ pool.fired
        /\ futures[j] = "failed" =>
              /\ payloads[j].of \in {"replication", "transport"}
              /\ payloads[j].of = "replication" <=> study.outcomes[j] = "raises"

\* The hooked futures the generator has still to hear of.
Outstanding == {j \in hooked : ~IsDone(j) \/ j \in Range(completions)}

\* The queue holds hooked futures that are done, each once.
QueueInv ==
    /\ IsInjective(completions)
    /\ \A j \in Range(completions) : j \in hooked /\ IsDone(j)

\* Every job is unsubmitted, outstanding or dealt with.
LoopInv ==
    Looping =>
        /\ \A j \in Jobs \ hooked : futures[j] = "none" \/ (At("hook") /\ j = coord.next)
        /\ \A j \in hooked : futures[j] # "none"
        /\ At("hook") => futures[coord.next] # "none"
        /\ \A j \in hooked \ Outstanding :
              futures[j] = "cancelled" \/ (futures[j] = "finished" /\ j \in Yielded)

\* The generator submits in order, and then expects what is outstanding.
CountInv ==
    /\ coord.at \in {"token", "executor"} =>
          coord.next = 1 /\ hooked = {} /\ \A j \in Jobs : futures[j] = "none"
    /\ coord.at \in Submitting =>
          /\ coord.next \in 1 .. Len(study.outcomes) + 1
          /\ Outstanding = hooked /\ hooked = 1 .. coord.next - 1
    /\ coord.at \in {"submit", "hook"} => coord.next \in Jobs
    /\ coord.at \in Collecting =>
          coord.expects = Cardinality(Outstanding) /\ (hooked = Jobs \/ exp.cancelled)

\* Every yielded result is one of a finished job that is not in the queue.
YieldInv ==
    /\ \A j \in Yielded : j \in hooked /\ futures[j] = "finished" /\ j \notin Range(completions)
    /\ EachResultOnce

\* How the iteration ended is still true of the jobs.
ResultInv ==
    /\ coord.result = "returned" =>
          /\ Pending = {} /\ Running = {}
          /\ \A j \in Jobs : futures[j] # "failed"
          /\ {j \in Jobs : futures[j] = "finished"} = Yielded
          /\ Yielded = Jobs \/ Excused
    /\ coord.result \in {"replication", "transport"} =>
          /\ coord.blames \in Jobs /\ futures[coord.blames] = "failed"
          /\ coord.result = "replication" <=> study.outcomes[coord.blames] = "raises"

IInv == TypeOK /\ PlaceInv /\ PoolInv /\ PayloadInv /\ QueueInv /\ LoopInv /\ CountInv
        /\ YieldInv /\ ResultInv

-----------------------------------------------------------------------------
(* Lemmas about studies, sequences and the completion queue. *)

\* Jobs are numbered from 1 on, and there are finitely many.
LEMMA JobsAreNumbered ==
  ASSUME study \in Studies
  PROVE  /\ study.kind \in Kinds /\ study.spool \in BOOLEAN /\ study.aware \in BOOLEAN
         /\ Len(study.outcomes) \in Nat /\ Jobs = 1 .. Len(study.outcomes)
         /\ Jobs \subseteq Nat /\ IsFiniteSet(Jobs)
         /\ \A j \in Jobs : study.outcomes[j] \in Returned
         /\ "partial" \in Returned
<1>1. study.outcomes \in Seq(Range(study.outcomes))
  BY ReplicateAssumption
<1>2. Len(study.outcomes) \in Nat /\ Jobs = 1 .. Len(study.outcomes)
  BY <1>1 DEF Jobs
<1>3. IsFiniteSet(Jobs)
  BY <1>2, FS_Interval
<1>4. \A j \in Jobs : study.outcomes[j] \in Returned
  BY DEF Jobs, Returned, Range
<1> QED BY <1>2, <1>3, <1>4, ReplicateAssumption DEF Returned

\* There are n - 1 numbers from 1 up to but not including n.
LEMMA UpTo ==
  ASSUME NEW n \in Nat \ {0} PROVE IsFiniteSet(1 .. n - 1) /\ Cardinality(1 .. n - 1) = n - 1
<1>1. n - 1 \in Int /\ (1 > n - 1 => n - 1 = 0) /\ (n - 1) - 1 + 1 = n - 1
  OBVIOUS
<1> QED BY <1>1, FS_Interval

\* At first there are none.
LEMMA NoneYet == 1 .. 1 - 1 = {} /\ \A n \in Nat : 1 \in 1 .. n + 1
  OBVIOUS

\* Putting the members of a set, each once, behind a queue that has none of them.
LEMMA PutInOrder ==
  ASSUME NEW T, NEW queue \in Seq(T), NEW S \in SUBSET T, IsFiniteSet(S),
         IsInjective(queue), S \cap Range(queue) = {}, NEW s \in InOrder(S),
         S \subseteq Nat
  PROVE  /\ queue \o s \in Seq(T) /\ IsInjective(queue \o s)
         /\ Range(queue \o s) = Range(queue) \cup S
<1> DEFINE n == Cardinality(S)
           both == queue \o s
<1>1. n \in Nat
  BY FS_CardinalityType
<1>2. s \in [1 .. n -> S] /\ Range(s) = S /\ \A i, k \in 1 .. n : i < k => s[i] < s[k]
  BY DEF InOrder
<1> HIDE DEF n
<1>3. s \in Seq(T) /\ Len(s) = n /\ DOMAIN s = 1 .. n
  <2>1. s \in [1 .. n -> T]
    BY <1>2
  <2> QED BY <1>1, <2>1
<1>4. /\ both \in Seq(T) /\ Len(both) = Len(queue) + n
      /\ \A i \in 1 .. Len(queue) + n :
            both[i] = IF i <= Len(queue) THEN queue[i] ELSE s[i - Len(queue)]
  BY <1>1, <1>3
<1>5. /\ Len(queue) \in Nat /\ DOMAIN queue = 1 .. Len(queue)
      /\ DOMAIN both = 1 .. Len(queue) + n
  BY <1>1, <1>4
<1> HIDE DEF both
<1>6. \A i, k \in 1 .. n : s[i] = s[k] => i = k
  <2> SUFFICES ASSUME NEW i \in 1 .. n, NEW k \in 1 .. n, i < k, s[i] = s[k] PROVE FALSE
    BY <1>1
  <2>1. s[i] < s[k]
    BY <1>2
  <2>2. s[i] \in Nat
    BY <1>2
  <2>3. \A x \in Nat : ~(x < x)
    OBVIOUS
  <2> QED BY <2>1, <2>2, <2>3
<1>7. IsInjective(both)
  <2> SUFFICES ASSUME NEW i \in 1 .. Len(queue) + n, NEW k \in 1 .. Len(queue) + n,
                      both[i] = both[k]
               PROVE  i = k
    BY <1>5 DEF IsInjective
  <2>1. CASE i <= Len(queue) /\ k <= Len(queue)
    BY <2>1, <1>4, <1>5, <1>1 DEF IsInjective
  <2>2. CASE i > Len(queue) /\ k > Len(queue)
    <3>1. i - Len(queue) \in 1 .. n /\ k - Len(queue) \in 1 .. n
      BY <2>2, <1>5, <1>1
    <3>2. s[i - Len(queue)] = s[k - Len(queue)]
      BY <2>2, <1>4, <1>5, <1>1
    <3> QED BY <3>1, <3>2, <1>6, <1>5, <1>1
  <2>3. ASSUME NEW x \in 1 .. Len(queue) + n, NEW y \in 1 .. Len(queue) + n,
               x <= Len(queue), y > Len(queue), both[x] = both[y]
        PROVE  FALSE
    <3>1. x \in 1 .. Len(queue) /\ y - Len(queue) \in 1 .. n
      BY <2>3, <1>5, <1>1
    <3>2. both[x] = queue[x] /\ both[y] = s[y - Len(queue)]
      BY <2>3, <1>4, <1>5, <1>1
    <3>3. queue[x] \in Range(queue) /\ s[y - Len(queue)] \in S
      BY <3>1, <1>5, <1>2 DEF Range
    <3> QED BY <3>2, <3>3, <2>3
  <2> QED BY <2>1, <2>2, <2>3, <1>5, <1>1
<1>8. Range(both) \subseteq Range(queue) \cup S
  <2> SUFFICES ASSUME NEW i \in 1 .. Len(queue) + n PROVE both[i] \in Range(queue) \cup S
    BY <1>5 DEF Range
  <2>1. CASE i <= Len(queue)
    BY <2>1, <1>4, <1>5, <1>1 DEF Range
  <2>2. CASE i > Len(queue)
    <3>1. i - Len(queue) \in 1 .. n
      BY <2>2, <1>5, <1>1
    <3> QED BY <3>1, <2>2, <1>2, <1>4, <1>5
  <2> QED BY <2>1, <2>2, <1>5, <1>1
<1>9. Range(queue) \cup S \subseteq Range(both)
  <2>1. ASSUME NEW i \in 1 .. Len(queue) PROVE queue[i] \in Range(both)
    <3>1. i \in 1 .. Len(queue) + n /\ both[i] = queue[i]
      BY <1>4, <1>5, <1>1
    <3> QED BY <3>1, <1>5 DEF Range
  <2>2. ASSUME NEW i \in 1 .. n PROVE s[i] \in Range(both)
    <3>1. i + Len(queue) \in 1 .. Len(queue) + n /\ both[i + Len(queue)] = s[i]
      <4>1. i + Len(queue) \in 1 .. Len(queue) + n /\ (i + Len(queue)) - Len(queue) = i
            /\ ~(i + Len(queue) <= Len(queue))
        BY <1>5, <1>1
      <4> QED BY <4>1, <1>4
    <3> QED BY <3>1, <1>5 DEF Range
  <2>3. S = {s[i] : i \in 1 .. n} /\ Range(queue) = {queue[i] : i \in 1 .. Len(queue)}
    BY <1>2, <1>3, <1>5 DEF Range
  <2> QED BY <2>1, <2>2, <2>3
<1> QED BY <1>4, <1>7, <1>8, <1>9 DEF both

\* Putting one new member behind a queue.
LEMMA AppendNew ==
  ASSUME NEW T, NEW queue \in Seq(T), NEW x \in T, IsInjective(queue), x \notin Range(queue)
  PROVE  /\ Append(queue, x) \in Seq(T) /\ IsInjective(Append(queue, x))
         /\ Range(Append(queue, x)) = Range(queue) \cup {x}
<1> DEFINE more == Append(queue, x)
<1>1. /\ Len(queue) \in Nat /\ DOMAIN queue = 1 .. Len(queue) /\ more \in Seq(T)
      /\ DOMAIN more = 1 .. Len(queue) + 1 /\ more[Len(queue) + 1] = x
      /\ \A i \in 1 .. Len(queue) : more[i] = queue[i]
  OBVIOUS
<1> HIDE DEF more
<1>2. \A i \in 1 .. Len(queue) + 1 : i \in 1 .. Len(queue) \/ i = Len(queue) + 1
  BY <1>1
<1>3. \A i \in 1 .. Len(queue) : queue[i] \in Range(queue)
  BY <1>1 DEF Range
<1>4. IsInjective(more)
  BY <1>1, <1>2, <1>3 DEF IsInjective
<1>5. 1 .. Len(queue) + 1 = 1 .. Len(queue) \cup {Len(queue) + 1}
  BY <1>1
<1>6. Range(more) = Range(queue) \cup {x}
  BY <1>1, <1>5 DEF Range
<1> QED BY <1>1, <1>4, <1>6 DEF more

\* Taking the first of a queue that has each of its members once.
LEMMA TakeFirst ==
  ASSUME NEW T, NEW queue \in Seq(T), queue # <<>>, IsInjective(queue)
  PROVE  /\ Head(queue) \in T /\ Head(queue) \in Range(queue)
         /\ Tail(queue) \in Seq(T) /\ IsInjective(Tail(queue))
         /\ Range(Tail(queue)) = Range(queue) \ {Head(queue)}
<1> DEFINE tail == Tail(queue)
<1>1. /\ Len(queue) \in Nat \ {0} /\ DOMAIN queue = 1 .. Len(queue) /\ Head(queue) = queue[1]
      /\ Head(queue) \in T /\ tail \in Seq(T) /\ Len(tail) = Len(queue) - 1
      /\ DOMAIN tail = 1 .. Len(queue) - 1 /\ \A i \in 1 .. Len(queue) - 1 : tail[i] = queue[i + 1]
  OBVIOUS
<1> HIDE DEF tail
<1>2. Head(queue) \in Range(queue)
  BY <1>1 DEF Range
<1>3. IsInjective(tail)
  <2> SUFFICES ASSUME NEW i \in 1 .. Len(queue) - 1, NEW k \in 1 .. Len(queue) - 1,
                      tail[i] = tail[k]
               PROVE  i = k
    BY <1>1 DEF IsInjective
  <2>1. i + 1 \in 1 .. Len(queue) /\ k + 1 \in 1 .. Len(queue) /\ queue[i + 1] = queue[k + 1]
    BY <1>1
  <2> QED BY <2>1, <1>1 DEF IsInjective
<1>4. Range(tail) \subseteq Range(queue) \ {Head(queue)}
  <2> SUFFICES ASSUME NEW i \in 1 .. Len(queue) - 1
               PROVE  tail[i] \in Range(queue) \ {Head(queue)}
    BY <1>1 DEF Range
  <2>1. i + 1 \in 1 .. Len(queue) /\ 1 \in 1 .. Len(queue) /\ i + 1 # 1 /\ tail[i] = queue[i + 1]
    BY <1>1
  <2> QED BY <2>1, <1>1 DEF IsInjective, Range
<1>5. Range(queue) \ {Head(queue)} \subseteq Range(tail)
  <2> SUFFICES ASSUME NEW i \in 1 .. Len(queue), queue[i] # Head(queue)
               PROVE  queue[i] \in Range(tail)
    BY <1>1 DEF Range
  <2>1. i - 1 \in 1 .. Len(queue) - 1 /\ (i - 1) + 1 = i
    BY <1>1
  <2>2. tail[i - 1] = queue[i]
    BY <2>1, <1>1
  <2> QED BY <2>1, <2>2, <1>1 DEF Range
<1> QED BY <1>1, <1>2, <1>3, <1>4, <1>5 DEF tail

-----------------------------------------------------------------------------
(* The steps that neither move a job nor yield. *)

\* What is defined from the jobs, the queue and the results stays as it is.
LEMMA StillWork ==
  ASSUME UNCHANGED <<study, workVars, yielded>>
  PROVE  /\ Jobs' = Jobs /\ Returned' = Returned /\ Payloads' = Payloads
         /\ Transport' = Transport /\ Pending' = Pending /\ Running' = Running
         /\ Outstanding' = Outstanding /\ Yielded' = Yielded
  BY DEF workVars, Jobs, Returned, Payloads, Transport, Pending, Running, Outstanding,
         IsDone, Yielded

\* So does what was sent, queued and yielded.
LEMMA StillRecords ==
  ASSUME IInv, UNCHANGED <<study, workVars, yielded>>,
         Excused => Excused', pool.fired => pool.fired'
  PROVE  PayloadInv' /\ QueueInv' /\ YieldInv'
<1>1. /\ study' = study /\ futures' = futures /\ payloads' = payloads /\ hooked' = hooked
      /\ completions' = completions /\ yielded' = yielded
      /\ PayloadInv /\ QueueInv /\ YieldInv
  BY DEF workVars, IInv
<1>2. PayloadInv'
  BY <1>1, StillWork DEF PayloadInv, Encode, Transport, RequiresTransport
<1>3. QueueInv'
  BY <1>1 DEF QueueInv, IsDone
<1>4. YieldInv'
  BY <1>1, StillWork DEF YieldInv, EachResultOnce, Excused
<1> QED BY <1>2, <1>3, <1>4

\* And how the iteration ended, if that stays or is none of those that tell.
LEMMA StillInv ==
  ASSUME IInv, UNCHANGED <<study, workVars, yielded>>,
         Excused => Excused', pool.fired => pool.fired',
         \/ coord.result' = coord.result /\ coord.blames' = coord.blames
         \/ coord.result' \notin {"returned", "replication", "transport"}
  PROVE  PayloadInv' /\ QueueInv' /\ YieldInv' /\ ResultInv'
<1>1. study' = study /\ futures' = futures /\ ResultInv
  BY DEF workVars, IInv
<1>2. {j \in Jobs : futures[j] = "finished"}' = {j \in Jobs : futures[j] = "finished"}
  BY <1>1, StillWork
<1>3. CASE coord.result' = coord.result /\ coord.blames' = coord.blames
  BY <1>1, <1>2, <1>3, StillWork, StillRecords DEF ResultInv
<1>4. CASE coord.result' \notin {"returned", "replication", "transport"}
  BY <1>4, StillRecords DEF ResultInv
<1> QED BY <1>3, <1>4

\* In the loop a job stays unsubmitted, outstanding or dealt with.
LEMMA StillLoop ==
  ASSUME IInv, UNCHANGED <<study, workVars, yielded>>, Looping' => Looping,
         At("hook")' <=> At("hook"), At("hook") => coord.next' = coord.next
  PROVE  LoopInv'
<1>1. futures' = futures /\ hooked' = hooked
  BY DEF workVars
<1> QED BY <1>1, StillWork DEF IInv, LoopInv

\* What the generator expects is still what is outstanding.
LEMMA StillCount ==
  ASSUME IInv, UNCHANGED <<study, hooked>>, Outstanding' = Outstanding,
         \A j \in Jobs : futures[j] = "none" => futures'[j] = "none",
         coord.next' = coord.next, coord.expects' = coord.expects,
         exp.cancelled => exp.cancelled',
         \A points \in {{"token", "executor"}, Submitting, {"submit", "hook"}, Collecting} :
            coord.at' \in points => coord.at \in points
  PROVE  CountInv'
<1>1. hooked' = hooked /\ study' = study /\ Jobs' = Jobs
  BY DEF Jobs
<1>2. /\ coord.at' \in {"token", "executor"} => coord.at \in {"token", "executor"}
      /\ coord.at' \in Submitting => coord.at \in Submitting
      /\ coord.at' \in {"submit", "hook"} => coord.at \in {"submit", "hook"}
      /\ coord.at' \in Collecting => coord.at \in Collecting
  OBVIOUS
<1> QED BY <1>1, <1>2 DEF IInv, CountInv, Submitting, Collecting

\* The token is attached.
LEMMA AttachTokenStep ==
  ASSUME IInv, AttachToken PROVE IInv'
<1> USE DEF AttachToken, IInv, TypeOK, At, Goto, Points, Attached, Submitting, Collecting, Closing
<1>1. UNCHANGED <<study, workVars, yielded>> /\ UNCHANGED pool /\ UNCHANGED canceller
      /\ exp.cancelled' = exp.cancelled
  OBVIOUS
<1>2. TypeOK'
  BY <1>1, StillWork, JobsAreNumbered DEF workVars
<1>3. PlaceInv'
  BY <1>1 DEF PlaceInv, Active
<1>4. PoolInv'
  BY <1>1, StillWork DEF PoolInv, Active, Excused, workVars
<1>5. LoopInv'
  BY <1>1, StillWork DEF LoopInv, CountInv, Looping, workVars
<1>6. CountInv'
  BY <1>1, StillWork, StillCount DEF workVars
<1>7. PayloadInv' /\ QueueInv' /\ YieldInv' /\ ResultInv'
  BY <1>1, StillInv DEF Excused
<1> QED BY <1>2, <1>3, <1>4, <1>5, <1>6, <1>7

\* The executor is attached.
LEMMA AttachExecutorStep ==
  ASSUME IInv, AttachExecutor PROVE IInv'
<1> USE DEF AttachExecutor, IInv, TypeOK, At, Goto, Points, Attached, Submitting, Collecting, Closing
<1>1. UNCHANGED <<study, workVars, yielded>> /\ UNCHANGED pool /\ UNCHANGED canceller
      /\ exp.cancelled' = exp.cancelled
  OBVIOUS
<1>2. TypeOK'
  BY <1>1, StillWork, JobsAreNumbered DEF workVars
<1>3. PlaceInv'
  BY <1>1 DEF PlaceInv, Active
<1>4. PoolInv'
  BY <1>1, StillWork DEF PoolInv, Active, Excused, workVars
<1>5. LoopInv'
  <2>1. /\ hooked' = {} /\ futures' = futures /\ Jobs' = Jobs
        /\ \A j \in Jobs : futures[j] = "none"
    BY <1>1, StillWork DEF CountInv, workVars
  <2> QED BY <2>1 DEF LoopInv
<1>6. CountInv'
  <2>1. Len(study.outcomes) \in Nat /\ coord.next = 1 /\ hooked = {} /\ coord'.at = "check"
    BY JobsAreNumbered DEF CountInv
  <2>2. Outstanding = {} /\ 1 .. 1 - 1 = {} /\ 1 \in 1 .. Len(study.outcomes) + 1
    <3>1. Outstanding = {}
      BY <2>1 DEF Outstanding
    <3> QED BY <3>1, <2>1, NoneYet
  <2>3. coord'.next = 1 /\ Outstanding' = {} /\ hooked' = {} /\ study' = study
    BY <2>1, <2>2, <1>1, StillWork DEF workVars
  <2> QED BY <2>1, <2>2, <2>3 DEF CountInv
<1>7. PayloadInv' /\ QueueInv' /\ YieldInv' /\ ResultInv'
  BY <1>1, StillInv DEF Excused
<1> QED BY <1>2, <1>3, <1>4, <1>5, <1>6, <1>7

\* The head of the submission loop: the next job is submitted, or none is any more.
LEMMA CheckCancelledStep ==
  ASSUME IInv, CheckCancelled PROVE IInv'
<1> USE DEF CheckCancelled, IInv, At, Goto, Points, Attached, Submitting, Collecting, Closing
<1>1. /\ UNCHANGED <<study, workVars, yielded>> /\ UNCHANGED pool /\ UNCHANGED canceller
      /\ UNCHANGED exp /\ UNCHANGED left /\ coord.at = "check"
  OBVIOUS
<1>2. /\ coord.next \in Nat /\ coord.next \in 1 .. Len(study.outcomes) + 1
      /\ Outstanding = hooked /\ hooked = 1 .. coord.next - 1
      /\ Jobs = 1 .. Len(study.outcomes) /\ Len(study.outcomes) \in Nat
  BY JobsAreNumbered DEF CountInv, TypeOK
<1>3. \/ /\ coord.next \notin Jobs \/ exp.cancelled
         /\ coord' = [coord EXCEPT !.at = "collect", !.expects = coord.next - 1]
      \/ /\ coord.next \in Jobs /\ ~exp.cancelled
         /\ coord' = [coord EXCEPT !.at = "submit"]
  OBVIOUS
<1>4. TypeOK'
  <2>1. coord.next - 1 \in Nat
    BY <1>2
  <2> QED BY <2>1, <1>1, <1>3, StillWork DEF TypeOK, workVars
<1>5. PlaceInv'
  BY <1>1, <1>3, ZenonT(60) DEF TypeOK, PlaceInv, Active
<1>6. PoolInv'
  <2>1. futures' = futures /\ Active' /\ ~At("join")' /\ Active /\ ~At("join") /\ Excused' = Excused
    BY <1>1, <1>3 DEF TypeOK, Active, Excused, workVars
  <2> QED BY <2>1, <1>1, StillWork DEF PoolInv
<1>7. LoopInv'
  BY <1>1, <1>3, StillLoop DEF TypeOK, Looping
<1>8. CountInv'
  <2>1. CASE coord' = [coord EXCEPT !.at = "submit"] /\ coord.next \in Jobs
    BY <2>1, <1>1, <1>2, StillWork DEF TypeOK, CountInv, workVars
  <2>2. CASE /\ coord' = [coord EXCEPT !.at = "collect", !.expects = coord.next - 1]
             /\ coord.next \notin Jobs \/ exp.cancelled
    <3>1. Cardinality(Outstanding) = coord.next - 1
      BY <1>2, UpTo
    <3>2. coord.next \notin Jobs => hooked = Jobs
      BY <1>2
    <3>3. coord'.at = "collect" /\ coord'.expects = coord.next - 1
      BY <2>2 DEF TypeOK
    <3> QED BY <3>1, <3>2, <3>3, <2>2, <1>1, StillWork DEF CountInv, workVars
  <2> QED BY <2>1, <2>2, <1>3
<1>9. PayloadInv' /\ QueueInv' /\ YieldInv' /\ ResultInv'
  BY <1>1, <1>3, StillInv DEF TypeOK, Excused
<1> QED BY <1>4, <1>5, <1>6, <1>7, <1>8, <1>9

\* The token is cleared.
LEMMA ClearTokenStep ==
  ASSUME IInv, ClearToken PROVE IInv'
<1> USE DEF ClearToken, IInv, TypeOK, At, Goto, Points, Attached, Submitting, Collecting, Closing
<1>1. UNCHANGED <<study, workVars, yielded>> /\ UNCHANGED pool /\ UNCHANGED canceller
      /\ exp.cancelled' = exp.cancelled
  OBVIOUS
<1>2. TypeOK'
  BY <1>1, StillWork, JobsAreNumbered DEF workVars
<1>3. PlaceInv'
  BY <1>1 DEF PlaceInv, Active
<1>4. PoolInv'
  BY <1>1, StillWork DEF PoolInv, Active, Excused, workVars
<1>5. LoopInv'
  BY <1>1, StillWork DEF LoopInv, CountInv, Looping, workVars
<1>6. CountInv'
  BY <1>1, StillWork, StillCount DEF workVars
<1>7. PayloadInv' /\ QueueInv' /\ YieldInv' /\ ResultInv'
  BY <1>1, StillInv DEF Excused
<1> QED BY <1>2, <1>3, <1>4, <1>5, <1>6, <1>7

\* The executor is cleared.
LEMMA ClearExecutorStep ==
  ASSUME IInv, ClearExecutor PROVE IInv'
<1> USE DEF ClearExecutor, IInv, TypeOK, At, Goto, Points, Attached, Submitting, Collecting, Closing
<1>1. UNCHANGED <<study, workVars, yielded>> /\ UNCHANGED pool /\ UNCHANGED canceller
      /\ exp.cancelled' = exp.cancelled
  OBVIOUS
<1>2. TypeOK'
  BY <1>1, StillWork, JobsAreNumbered DEF workVars
<1>3. PlaceInv'
  BY <1>1 DEF PlaceInv, Active
<1>4. PoolInv'
  BY <1>1, StillWork DEF PoolInv, Active, Excused, workVars
<1>5. LoopInv'
  BY <1>1, StillWork DEF LoopInv, CountInv, Looping, workVars
<1>6. CountInv'
  BY <1>1, StillWork, StillCount DEF workVars
<1>7. PayloadInv' /\ QueueInv' /\ YieldInv' /\ ResultInv'
  BY <1>1, StillInv DEF Excused
<1> QED BY <1>2, <1>3, <1>4, <1>5, <1>6, <1>7

\* The executor is joined when it has nothing left.
LEMMA JoinStep ==
  ASSUME IInv, Join PROVE IInv'
<1> USE DEF Join, IInv, TypeOK, At, Goto, Points, Attached, Submitting, Collecting, Closing
<1>1. UNCHANGED <<study, workVars, yielded>> /\ UNCHANGED pool /\ UNCHANGED canceller
      /\ exp.cancelled' = exp.cancelled
  OBVIOUS
<1>2. TypeOK'
  BY <1>1, StillWork, JobsAreNumbered DEF workVars
<1>3. PlaceInv'
  BY <1>1 DEF PlaceInv, Active
<1>4. PoolInv'
  BY <1>1, StillWork DEF PoolInv, Active, Excused, workVars
<1>5. LoopInv'
  BY <1>1, StillWork DEF LoopInv, CountInv, Looping, workVars
<1>6. CountInv'
  BY <1>1, StillWork, StillCount DEF workVars
<1>7. PayloadInv' /\ QueueInv' /\ YieldInv' /\ ResultInv'
  BY <1>1, StillInv DEF Excused
<1> QED BY <1>2, <1>3, <1>4, <1>5, <1>6, <1>7

\* The consumer wants the next result.
LEMMA GoOnStep ==
  ASSUME IInv, GoOn PROVE IInv'
<1> USE DEF GoOn, IInv, TypeOK, At, Goto, Points, Attached, Submitting, Collecting, Closing
<1>1. UNCHANGED <<study, workVars, yielded>> /\ UNCHANGED pool /\ UNCHANGED canceller
      /\ exp.cancelled' = exp.cancelled
  OBVIOUS
<1>2. TypeOK'
  BY <1>1, StillWork, JobsAreNumbered DEF workVars
<1>3. PlaceInv'
  BY <1>1 DEF PlaceInv, Active
<1>4. PoolInv'
  BY <1>1, StillWork DEF PoolInv, Active, Excused, workVars
<1>5. LoopInv'
  BY <1>1, StillLoop DEF Looping
<1>6. CountInv'
  BY <1>1, StillWork, StillCount DEF workVars
<1>7. PayloadInv' /\ QueueInv' /\ YieldInv' /\ ResultInv'
  BY <1>1, StillInv DEF Excused
<1> QED BY <1>2, <1>3, <1>4, <1>5, <1>6, <1>7

\* The consumer closes the generator.
LEMMA BreakOffStep ==
  ASSUME IInv, BreakOff PROVE IInv'
<1> USE DEF BreakOff, IInv, TypeOK, At, Goto, Points, Attached, Submitting, Collecting, Closing
<1>1. UNCHANGED <<study, workVars, yielded>> /\ UNCHANGED pool /\ UNCHANGED canceller
      /\ exp.cancelled' = exp.cancelled
  OBVIOUS
<1>2. TypeOK'
  BY <1>1, StillWork, JobsAreNumbered DEF workVars
<1>3. PlaceInv'
  BY <1>1 DEF PlaceInv, Active
<1>4. PoolInv'
  BY <1>1, StillWork DEF PoolInv, Active, Excused, workVars
<1>5. LoopInv'
  BY <1>1, StillWork DEF LoopInv, CountInv, Looping, workVars
<1>6. CountInv'
  BY <1>1, StillWork, StillCount DEF workVars
<1>7. PayloadInv' /\ QueueInv' /\ YieldInv' /\ ResultInv'
  BY <1>1, StillInv DEF Excused
<1> QED BY <1>2, <1>3, <1>4, <1>5, <1>6, <1>7

\* The Experiment is iterated again.
LEMMA RunAgainStep ==
  ASSUME IInv, RunAgain PROVE IInv'
<1> USE DEF RunAgain, IInv, TypeOK, At, Goto, Points, Attached, Submitting, Collecting, Closing
<1>1. UNCHANGED <<study, workVars, yielded>> /\ UNCHANGED pool /\ UNCHANGED canceller
      /\ exp.cancelled' = exp.cancelled
  OBVIOUS
<1>2. TypeOK'
  BY <1>1, StillWork, JobsAreNumbered DEF workVars
<1>3. PlaceInv'
  BY <1>1 DEF PlaceInv, Active
<1>4. PoolInv'
  BY <1>1, StillWork DEF PoolInv, Active, Excused, workVars
<1>5. LoopInv'
  BY <1>1, StillWork DEF LoopInv, CountInv, Looping, workVars
<1>6. CountInv'
  BY <1>1, StillWork, StillCount DEF workVars
<1>7. PayloadInv' /\ QueueInv' /\ YieldInv' /\ ResultInv'
  BY <1>1, StillInv DEF Excused
<1> QED BY <1>2, <1>3, <1>4, <1>5, <1>6, <1>7

\* cancel() sets the flag.
LEMMA CancelFlagStep ==
  ASSUME IInv, CancelFlag PROVE IInv'
<1> USE DEF CancelFlag, CancelAt, CancelGoto, IInv, TypeOK
<1>1. /\ UNCHANGED <<study, workVars, yielded>> /\ UNCHANGED coord
      /\ (pool.fired => pool'.fired) /\ (Excused => Excused')
      /\ pool'.shut = pool.shut /\ pool'.dropping = pool.dropping
      /\ (exp.cancelled => exp'.cancelled)
  BY DEF Excused
<1>2. TypeOK'
  <2>1. canceller' = [at |-> "token?", began |-> Active, overlaps |-> Active \/ canceller.overlaps]
    BY DEF Active
  <2>2. canceller.overlaps \in BOOLEAN /\ Active \in BOOLEAN
    BY DEF Active
  <2>3. canceller' \in [at : {"idle", "token?", "token", "executor?", "executor",
                             "returned", "raised"},
                       began : BOOLEAN, overlaps : BOOLEAN]
    <3>1. (Active \/ canceller.overlaps) \in BOOLEAN
      OBVIOUS
    <3>2. \A b, c \in BOOLEAN : [at |-> "token?", began |-> b, overlaps |-> c]
             \in [at : {"idle", "token?", "token", "executor?", "executor", "returned", "raised"},
                  began : BOOLEAN, overlaps : BOOLEAN]
      OBVIOUS
    <3> QED BY <2>1, <2>2, <3>1, <3>2, Zenon
  <2>4. exp' \in [cancelled : BOOLEAN, token : BOOLEAN, executor : BOOLEAN]
    OBVIOUS
  <2>5. left' \in [rounds : Nat, cancels : Nat]
    <3>1. /\ left \in [rounds : Nat, cancels : Nat] /\ left.cancels > 0
          /\ left' = [left EXCEPT !.cancels = @ - 1]
      OBVIOUS
    <3> HIDE DEF CancelFlag, IInv, TypeOK
    <3>2. left.cancels - 1 \in Nat
      BY <3>1
    <3> QED BY <3>1, <3>2
  <2> QED BY <1>1, <2>3, <2>4, <2>5, StillWork DEF workVars
<1>3. PlaceInv'
  BY <1>1 DEF PlaceInv, Active, At, Closing, Attached
<1>4. PoolInv'
  BY <1>1, StillWork DEF PoolInv, PlaceInv, Active, At, Attached, Closing, Excused, workVars
<1>5. LoopInv'
  BY <1>1, StillLoop DEF Looping, At
<1>6. CountInv'
  BY <1>1, StillWork, StillCount DEF workVars, Submitting, Collecting
<1>7. PayloadInv' /\ QueueInv' /\ YieldInv' /\ ResultInv'
  BY <1>1, StillInv
<1> QED BY <1>2, <1>3, <1>4, <1>5, <1>6, <1>7

\* cancel() tests the token.
LEMMA CancelSeesTokenStep ==
  ASSUME IInv, CancelSeesToken PROVE IInv'
<1> USE DEF CancelSeesToken, CancelAt, CancelGoto, IInv, TypeOK
<1>1. /\ UNCHANGED <<study, workVars, yielded>> /\ UNCHANGED coord
      /\ (pool.fired => pool'.fired) /\ (Excused => Excused')
      /\ pool'.shut = pool.shut /\ pool'.dropping = pool.dropping
      /\ (exp.cancelled => exp'.cancelled)
  BY DEF Excused
<1>2. TypeOK'
  BY <1>1, StillWork DEF workVars
<1>3. PlaceInv'
  BY <1>1 DEF PlaceInv, Active, At, Closing, Attached
<1>4. PoolInv'
  BY <1>1, StillWork DEF PoolInv, PlaceInv, Active, At, Attached, Closing, Excused, workVars
<1>5. LoopInv'
  BY <1>1, StillLoop DEF Looping, At
<1>6. CountInv'
  BY <1>1, StillWork, StillCount DEF workVars, Submitting, Collecting
<1>7. PayloadInv' /\ QueueInv' /\ YieldInv' /\ ResultInv'
  BY <1>1, StillInv
<1> QED BY <1>2, <1>3, <1>4, <1>5, <1>6, <1>7

\* cancel() fires the token, if it is still there.
LEMMA CancelFiresStep ==
  ASSUME IInv, CancelFires PROVE IInv'
<1> USE DEF CancelFires, CancelAt, CancelGoto, IInv, TypeOK
<1>1. /\ UNCHANGED <<study, workVars, yielded>> /\ UNCHANGED coord
      /\ (pool.fired => pool'.fired) /\ (Excused => Excused')
      /\ pool'.shut = pool.shut /\ pool'.dropping = pool.dropping
      /\ (exp.cancelled => exp'.cancelled)
  BY DEF Excused
<1>2. TypeOK'
  BY <1>1, StillWork DEF workVars
<1>3. PlaceInv'
  BY <1>1 DEF PlaceInv, Active, At, Closing, Attached
<1>4. PoolInv'
  BY <1>1, StillWork DEF PoolInv, PlaceInv, Active, At, Attached, Closing, Excused, workVars
<1>5. LoopInv'
  BY <1>1, StillLoop DEF Looping, At
<1>6. CountInv'
  BY <1>1, StillWork, StillCount DEF workVars, Submitting, Collecting
<1>7. PayloadInv' /\ QueueInv' /\ YieldInv' /\ ResultInv'
  BY <1>1, StillInv
<1> QED BY <1>2, <1>3, <1>4, <1>5, <1>6, <1>7

\* cancel() tests the executor.
LEMMA CancelSeesExecutorStep ==
  ASSUME IInv, CancelSeesExecutor PROVE IInv'
<1> USE DEF CancelSeesExecutor, CancelAt, CancelGoto, IInv, TypeOK
<1>1. /\ UNCHANGED <<study, workVars, yielded>> /\ UNCHANGED coord
      /\ (pool.fired => pool'.fired) /\ (Excused => Excused')
      /\ pool'.shut = pool.shut /\ pool'.dropping = pool.dropping
      /\ (exp.cancelled => exp'.cancelled)
  BY DEF Excused
<1>2. TypeOK'
  BY <1>1, StillWork DEF workVars
<1>3. PlaceInv'
  BY <1>1 DEF PlaceInv, Active, At, Closing, Attached
<1>4. PoolInv'
  BY <1>1, StillWork DEF PoolInv, PlaceInv, Active, At, Attached, Closing, Excused, workVars
<1>5. LoopInv'
  BY <1>1, StillLoop DEF Looping, At
<1>6. CountInv'
  BY <1>1, StillWork, StillCount DEF workVars, Submitting, Collecting
<1>7. PayloadInv' /\ QueueInv' /\ YieldInv' /\ ResultInv'
  BY <1>1, StillInv
<1> QED BY <1>2, <1>3, <1>4, <1>5, <1>6, <1>7

\* Somebody calls cancel() once more.
LEMMA CancelAgainStep ==
  ASSUME IInv, CancelAgain PROVE IInv'
<1> USE DEF CancelAgain, CancelAt, CancelGoto, IInv, TypeOK
<1>1. /\ UNCHANGED <<study, workVars, yielded>> /\ UNCHANGED coord
      /\ (pool.fired => pool'.fired) /\ (Excused => Excused')
      /\ pool'.shut = pool.shut /\ pool'.dropping = pool.dropping
      /\ (exp.cancelled => exp'.cancelled)
  BY DEF Excused
<1>2. TypeOK'
  BY <1>1, StillWork DEF workVars
<1>3. PlaceInv'
  BY <1>1 DEF PlaceInv, Active, At, Closing, Attached
<1>4. PoolInv'
  BY <1>1, StillWork DEF PoolInv, PlaceInv, Active, At, Attached, Closing, Excused, workVars
<1>5. LoopInv'
  BY <1>1, StillLoop DEF Looping, At
<1>6. CountInv'
  BY <1>1, StillWork, StillCount DEF workVars, Submitting, Collecting
<1>7. PayloadInv' /\ QueueInv' /\ YieldInv' /\ ResultInv'
  BY <1>1, StillInv
<1> QED BY <1>2, <1>3, <1>4, <1>5, <1>6, <1>7

-----------------------------------------------------------------------------
(* The steps by which jobs get done. *)

\* The jobs in S get done and follow those in queue, which had been done.
LEMMA QueueGrows ==
  ASSUME IInv, NEW S \in SUBSET (Pending \cup Running), NEW queue \in Seq(Jobs),
         Completed(S, queue), IsInjective(queue), Range(queue) \subseteq Range(completions),
         UNCHANGED <<study, hooked>>, futures' \in [Jobs -> FutureStates],
         \A j \in Jobs \ S : futures'[j] = futures[j], \A j \in S : IsDone(j)'
  PROVE  /\ completions' \in Seq(Jobs) /\ QueueInv'
         /\ Range(completions') = Range(queue) \cup (S \cap hooked)
         /\ Outstanding' = {j \in hooked : ~IsDone(j) \/ j \in Range(queue)}
<1>1. /\ S \subseteq Jobs /\ \A j \in S : ~IsDone(j)
      /\ Jobs' = Jobs /\ hooked' = hooked /\ hooked \subseteq Jobs
  BY DEF Pending, Running, IsDone, Jobs, IInv, TypeOK
<1>2. \A j \in Range(queue) : j \in hooked /\ IsDone(j)
  BY DEF IInv, QueueInv
<1>3. PICK s \in InOrder(S \cap hooked) : completions' = queue \o s
  BY DEF Completed
<1>4. /\ completions' \in Seq(Jobs) /\ IsInjective(completions')
      /\ Range(completions') = Range(queue) \cup (S \cap hooked)
  <2>1. S \cap hooked \in SUBSET Jobs /\ IsFiniteSet(S \cap hooked) /\ S \cap hooked \subseteq Nat
    BY <1>1, JobsAreNumbered, FS_Subset DEF IInv, TypeOK
  <2>2. (S \cap hooked) \cap Range(queue) = {}
    BY <1>1, <1>2
  <2> QED BY <1>3, <2>1, <2>2, PutInOrder
<1>5. \A j \in Jobs : IsDone(j)' <=> (IsDone(j) \/ j \in S)
  BY <1>1 DEF IsDone
<1>6. QueueInv'
  BY <1>1, <1>2, <1>4, <1>5 DEF QueueInv
<1>7. Outstanding' = {j \in hooked : ~IsDone(j) \/ j \in Range(queue)}
  BY <1>1, <1>4, <1>5 DEF Outstanding
<1> QED BY <1>4, <1>6, <1>7

\* Jobs that get done change nothing for the jobs that were, and what the
\* generator still has to hear of is the same.
LEMMA WorkDone ==
  ASSUME IInv, NEW S \in SUBSET (Pending \cup Running), Completed(S, completions),
         UNCHANGED <<study, hooked, yielded>>, futures' \in [Jobs -> FutureStates],
         \A j \in Jobs \ S : futures'[j] = futures[j], \A j \in S : IsDone(j)',
         Excused => Excused', Looping' => Looping,
         At("hook")' <=> At("hook"), At("hook") => coord.next' = coord.next,
         coord.result' = coord.result /\ coord.blames' = coord.blames
  PROVE  /\ completions' \in Seq(Jobs) /\ Outstanding' = Outstanding
         /\ QueueInv' /\ LoopInv' /\ YieldInv' /\ ResultInv'
<1>1. /\ completions \in Seq(Jobs) /\ IsInjective(completions) /\ hooked \subseteq Jobs
      /\ S \subseteq Jobs /\ \A j \in S : futures[j] \in {"pending", "running"}
      /\ Jobs' = Jobs /\ hooked' = hooked /\ study' = study /\ Yielded' = Yielded
      /\ yielded' = yielded
  <2>1. S \subseteq Jobs /\ \A j \in S : futures[j] \in {"pending", "running"}
    BY DEF Pending, Running
  <2>2. Jobs' = Jobs /\ Yielded' = Yielded
    BY DEF Jobs, Yielded
  <2> QED BY <2>1, <2>2 DEF IInv, TypeOK, QueueInv
<1>2. /\ completions' \in Seq(Jobs) /\ QueueInv' /\ Outstanding' = Outstanding
      /\ Range(completions') = Range(completions) \cup (S \cap hooked)
  BY <1>1, QueueGrows DEF Outstanding
<1>3. LoopInv'
  <2>1. ASSUME Looping
        PROVE  \A j \in Jobs \ hooked : futures'[j] = "none" \/ (At("hook") /\ j = coord.next)'
    BY <2>1, <1>1 DEF IInv, LoopInv, At
  <2>2. ASSUME Looping PROVE \A j \in hooked : futures'[j] # "none"
    <3>1. \A j \in hooked : futures[j] # "none"
      BY <2>2 DEF IInv, LoopInv
    <3>2. \A j \in S : futures'[j] # "none"
      BY DEF IsDone
    <3> QED BY <3>1, <3>2, <1>1
  <2>3. ASSUME Looping
        PROVE  \A j \in hooked \ Outstanding :
            futures'[j] = "cancelled" \/ (futures'[j] = "finished" /\ j \in Yielded)
    BY <2>3, <1>1, ZenonT(60) DEF IInv, LoopInv, TypeOK
  <2>4. ASSUME At("hook")' PROVE (futures[coord.next] # "none")'
    <3>1. coord.next \in Jobs /\ futures[coord.next] # "none" /\ coord.next' = coord.next
      BY <2>4 DEF IInv, LoopInv, CountInv, Looping, Submitting, At
    <3>2. \A j \in S : futures'[j] # "none"
      BY DEF IsDone
    <3> QED BY <3>1, <3>2
  <2> QED BY <1>1, <1>2, <2>1, <2>2, <2>3, <2>4 DEF LoopInv
<1>4. YieldInv'
  <2>1. \A j \in Yielded : j \in hooked /\ futures'[j] = "finished" /\ j \notin Range(completions')
    BY <1>1, <1>2 DEF IInv, YieldInv, TypeOK
  <2>2. EachResultOnce'
    BY <1>1 DEF IInv, YieldInv, EachResultOnce, Excused
  <2> QED BY <1>1, <2>1, <2>2 DEF YieldInv
<1>5. ResultInv'
  <2>1. CASE coord.result = "returned"
    <3>1. S = {} /\ Pending' = Pending /\ Running' = Running
      BY <2>1, <1>1 DEF IInv, ResultInv, Pending, Running
    <3>2. \A j \in Jobs : futures'[j] = futures[j]
      BY <3>1
    <3>3. {j \in Jobs : futures[j] = "finished"}' = {j \in Jobs : futures[j] = "finished"}
      BY <3>2, <1>1
    <3> QED BY <2>1, <3>1, <3>2, <3>3, <1>1 DEF IInv, ResultInv
  <2>2. CASE coord.result \in {"replication", "transport"}
    BY <2>2, <1>1 DEF IInv, ResultInv
  <2>3. CASE coord.result \notin {"returned", "replication", "transport"}
    BY <2>3 DEF ResultInv
  <2> QED BY <2>1, <2>2, <2>3
<1> QED BY <1>2, <1>3, <1>4, <1>5

\* A worker takes a job.
LEMMA WorkerTakesStep ==
  ASSUME IInv, WorkerTakes PROVE IInv'
<1>1. /\ UNCHANGED <<study, exp, pool, payloads, hooked, completions>>
      /\ UNCHANGED coord /\ UNCHANGED canceller /\ UNCHANGED yielded /\ UNCHANGED left
  BY DEF WorkerTakes
<1>2. PICK j \in Pending : futures' = [futures EXCEPT ![j] = "running"]
  BY DEF WorkerTakes
<1>3. /\ TypeOK /\ j \in Jobs /\ futures[j] = "pending" /\ Jobs' = Jobs
      /\ futures \in [Jobs -> FutureStates] /\ hooked \subseteq Jobs
  BY <1>1 DEF Pending, IInv, TypeOK, Jobs
<1>4. /\ futures'[j] = "running" /\ \A k \in Jobs \ {j} : futures'[k] = futures[k]
      /\ futures' \in [Jobs -> FutureStates]
  BY <1>2, <1>3 DEF FutureStates
<1>5. Yielded' = Yielded /\ Transport' = Transport /\ Returned' = Returned /\ Payloads' = Payloads
  BY <1>1 DEF Yielded, Transport, Returned, Payloads
<1>6. \A k \in Jobs : IsDone(k)' <=> IsDone(k)
  BY <1>3, <1>4 DEF IsDone
<1>7. Outstanding' = Outstanding
  BY <1>1, <1>3, <1>6 DEF Outstanding
<1>8. TypeOK'
  <2>1. /\ TypeOK /\ study' = study /\ exp' = exp /\ pool' = pool /\ payloads' = payloads
        /\ hooked' = hooked /\ completions' = completions
    BY <1>1, <1>3
  <2> QED BY <2>1, <1>1, <1>3, <1>4, <1>5 DEF TypeOK
<1>9. PlaceInv'
  BY <1>1 DEF IInv, PlaceInv, Active, At
<1>10. PoolInv'
  <2>1. Active /\ (pool.shut => pool.dropping)
    BY <1>3 DEF IInv, PoolInv, Pending
  <2>2. \A k \in Jobs : futures'[k] = "cancelled" => futures[k] = "cancelled"
    BY <1>3, <1>4
  <2> QED BY <1>1, <1>3, <2>1, <2>2 DEF IInv, PoolInv, Active, At, Excused
<1>11. PayloadInv'
  BY <1>1, <1>3, <1>4, <1>5 DEF IInv, PayloadInv, Encode, Transport, RequiresTransport
<1>12. QueueInv'
  BY <1>1, <1>3, <1>6 DEF IInv, QueueInv
<1>13. LoopInv'
  <2>1. Looping' => Looping
    BY <1>1 DEF Looping
  <2>2. \A k \in Jobs : futures'[k] = futures[k] \/ (k = j /\ k \in Jobs /\ ~IsDone(k))
    BY <1>3, <1>4 DEF IsDone
  <2>3. At("hook")' = At("hook") /\ coord' = coord /\ hooked' = hooked
    BY <1>1 DEF At
  <2>4. \A k \in Jobs : (futures'[k] = "none") <=> (futures[k] = "none")
    BY <1>3, <1>4
  <2>5. At("hook") /\ Looping => coord.next \in Jobs
    BY DEF IInv, CountInv, At
  <2> QED BY <2>1, <2>2, <2>3, <2>4, <2>5, <1>3, <1>5, <1>7 DEF IInv, LoopInv, Outstanding
<1>14. CountInv'
  BY <1>1, <1>3, <1>4, <1>7, StillCount
<1>15. YieldInv'
  BY <1>1, <1>3, <1>4, <1>5 DEF IInv, YieldInv, EachResultOnce, Excused
<1>16. ResultInv'
  BY <1>1, <1>2, <1>3, <1>4 DEF IInv, ResultInv
<1> QED BY <1>8, <1>9, <1>10, <1>11, <1>12, <1>13, <1>14, <1>15, <1>16 DEF IInv

\* A worker is done with a job, which is finished or has failed.
LEMMA WorkerFinishesStep ==
  ASSUME IInv, WorkerFinishes PROVE IInv'
<1>1. /\ UNCHANGED <<study, exp, pool, hooked>> /\ UNCHANGED coord /\ UNCHANGED canceller
      /\ UNCHANGED yielded /\ UNCHANGED left
  BY DEF WorkerFinishes
<1>2. PICK j \in Running, value \in Returned :
        /\ RunReplication(j, value) /\ Completed({j}, completions)
        /\ \/ value = study.outcomes[j]
           \/ value = "partial" /\ study.kind = "threads" /\ pool.fired
  <2>1. \A j \in Running : study.outcomes[j] \in Returned /\ "partial" \in Returned
    BY JobsAreNumbered DEF Running, IInv, TypeOK
  <2> QED BY <2>1 DEF WorkerFinishes, SharesToken
<1>3. /\ j \in Jobs /\ futures[j] = "running" /\ Jobs' = Jobs
      /\ futures \in [Jobs -> FutureStates] /\ hooked \subseteq Jobs
      /\ payloads \in [Jobs -> Payloads]
  BY <1>1 DEF Running, IInv, TypeOK, Jobs
<1>4. /\ futures'[j] \in {"finished", "failed"} /\ \A k \in Jobs \ {j} : futures'[k] = futures[k]
      /\ futures' \in [Jobs -> FutureStates]
      /\ \A k \in Jobs \ {j} : payloads'[k] = payloads[k]
  BY <1>2, <1>3 DEF FutureStates, RunReplication
<1>5. /\ futures'[j] = "finished" =>
            payloads'[j] = Encode(value, Transport, study.spool) /\ value # "raises"
      /\ futures'[j] = "failed" =>
            /\ payloads'[j] = [form |-> "error", of |-> payloads'[j].of]
            /\ payloads'[j].of \in {"replication", "transport"}
            /\ payloads'[j].of = "replication" <=> value = "raises"
            /\ value # "partial"
  BY <1>2, <1>3 DEF RunReplication, Pickles, Unpicklable
<1>6. Transport' = Transport /\ Returned' = Returned /\ Payloads' = Payloads
  BY <1>1 DEF Transport, Returned, Payloads
<1>7. payloads' \in [Jobs -> Payloads]
  <2>1. payloads'[j] \in Payloads
    BY <1>4, <1>5 DEF Payloads, Encode
  <2>2. payloads' = [k \in Jobs |-> payloads'[k]]
    BY <1>2, <1>3 DEF RunReplication
  <2> QED BY <2>1, <2>2, <1>3, <1>4
<1>8. /\ {j} \in SUBSET (Pending \cup Running) /\ \A k \in {j} : IsDone(k)'
      /\ \A k \in Jobs \ {j} : futures'[k] = futures[k]
  BY <1>2, <1>4 DEF IsDone
<1>9. /\ completions' \in Seq(Jobs) /\ Outstanding' = Outstanding
      /\ QueueInv' /\ LoopInv' /\ YieldInv' /\ ResultInv'
  BY <1>1, <1>2, <1>4, <1>8, WorkDone DEF Excused, Looping, At
<1>10. TypeOK'
  <2>1. TypeOK /\ study' = study /\ exp' = exp /\ pool' = pool /\ hooked' = hooked
    BY <1>1 DEF IInv
  <2> QED BY <2>1, <1>1, <1>3, <1>4, <1>6, <1>7, <1>9 DEF TypeOK
<1>11. PlaceInv'
  BY <1>1 DEF IInv, PlaceInv, Active, At
<1>12. PoolInv'
  <2>1. Active /\ Pending' \subseteq Pending
    BY <1>2, <1>3, <1>4 DEF IInv, PoolInv, Pending
  <2>2. \A k \in Jobs : futures'[k] = "cancelled" => futures[k] = "cancelled"
    BY <1>3, <1>4
  <2> QED BY <1>1, <1>3, <2>1, <2>2 DEF IInv, PoolInv, Active, At, Excused
<1>13. PayloadInv'
  BY <1>1, <1>2, <1>3, <1>4, <1>5 DEF IInv, PayloadInv, Encode, Transport, RequiresTransport
<1>14. CountInv'
  BY <1>1, <1>3, <1>4, <1>9, StillCount
<1> QED BY <1>9, <1>10, <1>11, <1>12, <1>13, <1>14 DEF IInv

-----------------------------------------------------------------------------
(* The steps by which pending work is dropped. *)

\* Dropped jobs are cancelled, and everything said of the others stays true.
LEMMA WorkDropped ==
  ASSUME IInv, NEW drop \in SUBSET Pending, Completed(drop, completions),
         futures' = [j \in Jobs |-> IF j \in drop THEN "cancelled" ELSE futures[j]],
         UNCHANGED <<study, payloads, hooked, yielded>>,
         pool.fired => pool'.fired, Excused => Excused', Looping' => Looping,
         At("hook")' <=> At("hook"), At("hook") => coord.next' = coord.next,
         coord.result' = coord.result /\ coord.blames' = coord.blames
  PROVE  /\ futures' \in [Jobs -> FutureStates] /\ completions' \in Seq(Jobs)
         /\ Pending' = Pending \ drop /\ Running' = Running /\ Outstanding' = Outstanding
         /\ \A j \in Jobs : futures'[j] = "cancelled" => futures[j] = "cancelled" \/ j \in drop
         /\ \A j \in Jobs : futures[j] = "none" => futures'[j] = "none"
         /\ PayloadInv' /\ QueueInv' /\ LoopInv' /\ YieldInv' /\ ResultInv'
<1>1. /\ futures \in [Jobs -> FutureStates] /\ Jobs' = Jobs
      /\ drop \subseteq Jobs /\ \A j \in drop : futures[j] = "pending"
  BY DEF IInv, TypeOK, Pending, Jobs
<1>2. /\ futures' \in [Jobs -> FutureStates] /\ \A j \in drop : futures'[j] = "cancelled"
      /\ \A j \in Jobs \ drop : futures'[j] = futures[j]
  BY <1>1 DEF FutureStates
<1>3. Pending' = Pending \ drop /\ Running' = Running
  BY <1>1, <1>2 DEF Pending, Running
<1>4. /\ drop \in SUBSET (Pending \cup Running) /\ \A j \in drop : IsDone(j)'
  BY <1>2 DEF IsDone
<1>5. /\ completions' \in Seq(Jobs) /\ Outstanding' = Outstanding
      /\ QueueInv' /\ LoopInv' /\ YieldInv' /\ ResultInv'
  BY <1>2, <1>4, WorkDone
<1>6. PayloadInv'
  <2>1. PayloadInv /\ study' = study /\ payloads' = payloads
    BY DEF IInv
  <2> QED BY <2>1, <1>1, <1>2 DEF PayloadInv, Encode, Transport, RequiresTransport
<1> QED BY <1>1, <1>2, <1>3, <1>5, <1>6

\* The process pool drops what was pending when it was shut down.
LEMMA DropPendingStep ==
  ASSUME IInv, DropPending PROVE IInv'
<1>1. /\ study' = study /\ exp' = exp /\ payloads' = payloads /\ hooked' = hooked
      /\ coord' = coord /\ canceller' = canceller /\ yielded' = yielded /\ left' = left
      /\ pool.dropping /\ pool' = [pool EXCEPT !.dropping = FALSE]
      /\ futures' = [j \in Jobs |-> IF j \in Pending THEN "cancelled" ELSE futures[j]]
      /\ Completed(Pending, completions)
  BY DEF DropPending
<1>2. /\ TypeOK /\ pool' \in [shut : BOOLEAN, fired : BOOLEAN, dropping : BOOLEAN]
      /\ pool'.fired = pool.fired /\ pool'.shut = pool.shut /\ ~pool'.dropping
      /\ Excused' = Excused /\ Looping' = Looping /\ Active' = Active
  BY <1>1 DEF IInv, TypeOK, Excused, Looping, Active, At
<1>3. /\ futures' \in [Jobs -> FutureStates] /\ completions' \in Seq(Jobs)
      /\ Pending' = {} /\ Running' = Running /\ Outstanding' = Outstanding
      /\ \A j \in Jobs : futures'[j] = "cancelled" => futures[j] = "cancelled" \/ j \in Pending
      /\ \A j \in Jobs : futures[j] = "none" => futures'[j] = "none"
      /\ PayloadInv' /\ QueueInv' /\ LoopInv' /\ YieldInv' /\ ResultInv'
  BY <1>1, <1>2, WorkDropped DEF At
<1>4. Jobs' = Jobs /\ Returned' = Returned /\ Payloads' = Payloads
  BY <1>1 DEF Jobs, Returned, Payloads
<1>5. TypeOK'
  BY <1>1, <1>2, <1>3, <1>4, ZenonT(60) DEF TypeOK
<1>6. PlaceInv'
  BY <1>1, <1>2 DEF IInv, PlaceInv, At
<1>7. PoolInv'
  BY <1>1, <1>2, <1>3, <1>4 DEF IInv, PoolInv, At
<1>8. CountInv'
  BY <1>1, <1>3, StillCount
<1> QED BY <1>3, <1>5, <1>6, <1>7, <1>8 DEF IInv

\* executor.shutdown(cancel_futures=True): the pending work is dropped, or will be.
LEMMA WorkShut ==
  ASSUME IInv, NEW fires \in BOOLEAN, Shut(fires, completions), UNCHANGED <<study, yielded>>,
         Excused => Excused', Looping' => Looping,
         At("hook")' <=> At("hook"), At("hook") => coord.next' = coord.next,
         coord.result' = coord.result /\ coord.blames' = coord.blames
  PROVE  /\ pool' \in [shut : BOOLEAN, fired : BOOLEAN, dropping : BOOLEAN]
         /\ pool'.shut /\ pool'.fired = (pool.fired \/ fires)
         /\ ~pool'.dropping => Pending' = {}
         /\ Pending' \subseteq Pending /\ Running' = Running /\ Outstanding' = Outstanding
         /\ futures' \in [Jobs -> FutureStates] /\ completions' \in Seq(Jobs)
         /\ \A j \in Jobs : futures[j] = "none" => futures'[j] = "none"
         /\ UNCHANGED <<payloads, hooked>>
         /\ PayloadInv' /\ QueueInv' /\ LoopInv' /\ YieldInv' /\ ResultInv'
<1> DEFINE later == study.kind = "processes"
           drop == IF later THEN {} ELSE Pending
<1>1. /\ pool' = [pool EXCEPT !.shut = TRUE, !.fired = @ \/ fires, !.dropping = @ \/ later]
      /\ futures' = [j \in Jobs |-> IF j \in drop THEN "cancelled" ELSE futures[j]]
      /\ Completed(drop, completions) /\ UNCHANGED <<payloads, hooked>>
  BY DEF Shut
<1>2. /\ pool \in [shut : BOOLEAN, fired : BOOLEAN, dropping : BOOLEAN]
      /\ later \in BOOLEAN /\ drop \in SUBSET Pending /\ (~later => drop = Pending)
  BY DEF IInv, TypeOK
<1> HIDE DEF later, drop
<1>3. /\ pool' \in [shut : BOOLEAN, fired : BOOLEAN, dropping : BOOLEAN]
      /\ pool'.shut /\ pool'.fired = (pool.fired \/ fires) /\ (later => pool'.dropping)
  BY <1>1, <1>2
<1>4. pool.fired => pool'.fired
  BY <1>3
<1>5. /\ futures' \in [Jobs -> FutureStates] /\ completions' \in Seq(Jobs)
      /\ Pending' = Pending \ drop /\ Running' = Running /\ Outstanding' = Outstanding
      /\ \A j \in Jobs : futures[j] = "none" => futures'[j] = "none"
      /\ PayloadInv' /\ QueueInv' /\ LoopInv' /\ YieldInv' /\ ResultInv'
  BY <1>1, <1>2, <1>4, WorkDropped
<1> QED BY <1>1, <1>2, <1>3, <1>5

\* finally: the executor is shut down.
LEMMA ShutDownStep ==
  ASSUME IInv, ShutDown PROVE IInv'
<1>1. /\ study' = study /\ exp' = exp /\ canceller' = canceller /\ yielded' = yielded
      /\ left' = left /\ coord.at = "shutdown" /\ coord' = [coord EXCEPT !.at = "join"]
      /\ Shut(FALSE, completions)
  BY DEF ShutDown, At, Goto
<1>2. /\ coord'.at = "join" /\ coord'.next = coord.next /\ coord'.expects = coord.expects
      /\ coord'.result = coord.result /\ coord'.blames = coord.blames
      /\ Excused' = Excused /\ ~Looping' /\ ~At("hook") /\ ~At("hook")'
  BY <1>1 DEF IInv, TypeOK, Excused, Looping, Submitting, Collecting, At
<1>3. /\ pool' \in [shut : BOOLEAN, fired : BOOLEAN, dropping : BOOLEAN]
      /\ pool'.shut /\ pool'.fired = pool.fired /\ (~pool'.dropping => Pending' = {})
      /\ futures' \in [Jobs -> FutureStates] /\ completions' \in Seq(Jobs)
      /\ Outstanding' = Outstanding /\ UNCHANGED <<payloads, hooked>>
      /\ \A j \in Jobs : futures[j] = "none" => futures'[j] = "none"
      /\ PayloadInv' /\ QueueInv' /\ LoopInv' /\ YieldInv' /\ ResultInv'
  <2>1. FALSE \in BOOLEAN /\ pool.fired \in BOOLEAN
    BY DEF IInv, TypeOK
  <2> QED BY <1>1, <1>2, <2>1, WorkShut
<1>4. Jobs' = Jobs /\ Returned' = Returned /\ Payloads' = Payloads
  BY <1>1 DEF Jobs, Returned, Payloads
<1>5. TypeOK'
  <2>1. coord' = [coord EXCEPT !.at = "join"] /\ TypeOK
    BY <1>1 DEF IInv
  <2> QED BY <2>1, <1>1, <1>3, <1>4 DEF TypeOK, Points, Closing
<1>6. PlaceInv'
  BY <1>1, <1>2 DEF IInv, PlaceInv, At, Active, Attached, Closing
<1>7. PoolInv'
  BY <1>1, <1>2, <1>3 DEF IInv, PoolInv, At, Active
<1>8. CountInv'
  BY <1>1, <1>2, <1>3, StillCount DEF Submitting, Collecting
<1> QED BY <1>3, <1>5, <1>6, <1>7, <1>8 DEF IInv

\* cancel() shuts the executor down, if it is still there.
LEMMA CancelShutsStep ==
  ASSUME IInv, CancelShuts PROVE IInv'
<1>1. /\ study' = study /\ exp' = exp /\ coord' = coord /\ yielded' = yielded /\ left' = left
      /\ canceller.at = "executor"
      /\ canceller' = [canceller EXCEPT !.at = IF exp.executor THEN "returned" ELSE "raised"]
      /\ IF exp.executor THEN Shut(FALSE, completions) ELSE UNCHANGED <<pool, workVars>>
  BY DEF CancelShuts, CancelAt, CancelGoto
<1>2. /\ TypeOK /\ canceller'.at = (IF exp.executor THEN "returned" ELSE "raised")
      /\ canceller'.began = canceller.began /\ canceller'.overlaps = canceller.overlaps
      /\ canceller' \in [at : {"idle", "token?", "token", "executor?", "executor",
                               "returned", "raised"},
                         began : BOOLEAN, overlaps : BOOLEAN]
  BY <1>1 DEF IInv, TypeOK
<1>3. Excused' = Excused /\ Looping' = Looping /\ Active' = Active
  BY <1>1, <1>2 DEF Excused, Looping, Active, At
<1>4. Jobs' = Jobs /\ Returned' = Returned /\ Payloads' = Payloads
  BY <1>1 DEF Jobs, Returned, Payloads
<1>5. CASE exp.executor
  <2>1. Shut(FALSE, completions)
    BY <1>1, <1>5
  <2>2. FALSE \in BOOLEAN /\ pool.fired \in BOOLEAN
    BY <1>2 DEF TypeOK
  <2>3. /\ pool' \in [shut : BOOLEAN, fired : BOOLEAN, dropping : BOOLEAN]
        /\ pool'.shut /\ pool'.fired = pool.fired /\ (~pool'.dropping => Pending' = {})
        /\ futures' \in [Jobs -> FutureStates] /\ completions' \in Seq(Jobs)
        /\ Outstanding' = Outstanding /\ UNCHANGED <<payloads, hooked>>
        /\ \A j \in Jobs : futures[j] = "none" => futures'[j] = "none"
        /\ PayloadInv' /\ QueueInv' /\ LoopInv' /\ YieldInv' /\ ResultInv'
    BY <1>1, <1>3, <2>1, <2>2, WorkShut DEF At
  <2>4. Active /\ ~At("join") /\ Excused
    BY <1>1, <1>2, <1>5 DEF IInv, PlaceInv, Active, At, Attached, Excused
  <2>5. TypeOK'
    BY <1>1, <1>2, <1>4, <2>3 DEF TypeOK
  <2>6. PlaceInv'
    BY <1>1, <1>2, <2>3 DEF IInv, PlaceInv, At, Active
  <2>7. PoolInv'
    BY <1>1, <1>3, <2>3, <2>4 DEF IInv, PoolInv, At
  <2>8. CountInv'
    BY <1>1, <2>3, StillCount
  <2> QED BY <2>3, <2>5, <2>6, <2>7, <2>8 DEF IInv
<1>6. CASE ~exp.executor
  <2>1. UNCHANGED <<study, workVars, yielded>> /\ pool' = pool
    BY <1>1, <1>6
  <2>2. TypeOK'
    BY <1>1, <1>2, <2>1, StillWork DEF TypeOK, workVars
  <2>3. PlaceInv'
    BY <1>1, <1>2, <1>6, <2>1 DEF IInv, PlaceInv, At, Active
  <2>4. PoolInv'
    BY <1>1, <1>3, <2>1, StillWork DEF IInv, PoolInv, At, workVars
  <2>5. LoopInv'
    BY <1>1, <1>3, <2>1, StillLoop DEF At
  <2>6. CountInv'
    BY <1>1, <2>1, StillWork, StillCount DEF workVars
  <2>7. PayloadInv' /\ QueueInv' /\ YieldInv' /\ ResultInv'
    BY <1>1, <1>3, <2>1, StillInv
  <2> QED BY <2>2, <2>3, <2>4, <2>5, <2>6, <2>7 DEF IInv
<1> QED BY <1>5, <1>6

\* The consumer cancels and wants the next result.
LEMMA CancelAndGoOnStep ==
  ASSUME IInv, CancelAndGoOn PROVE IInv'
<1>1. /\ study' = study /\ canceller' = canceller /\ yielded' = yielded /\ left' = left
      /\ exp' = [exp EXCEPT !.cancelled = TRUE] /\ coord.at = "yielded"
      /\ coord' = [coord EXCEPT !.at = "collect"] /\ Shut(TRUE, completions)
  BY DEF CancelAndGoOn, CancelHere, At, Goto
<1>2. /\ TypeOK /\ coord'.at = "collect" /\ coord'.next = coord.next
      /\ coord'.expects = coord.expects /\ coord'.result = coord.result
      /\ coord'.blames = coord.blames /\ exp'.cancelled
      /\ exp'.token = exp.token /\ exp'.executor = exp.executor
      /\ Excused' /\ Looping /\ ~At("hook") /\ ~At("hook")'
  BY <1>1 DEF IInv, TypeOK, Excused, Looping, Submitting, Collecting, At
<1>3. /\ pool' \in [shut : BOOLEAN, fired : BOOLEAN, dropping : BOOLEAN]
      /\ pool'.shut /\ (~pool'.dropping => Pending' = {})
      /\ futures' \in [Jobs -> FutureStates] /\ completions' \in Seq(Jobs)
      /\ Outstanding' = Outstanding /\ UNCHANGED <<payloads, hooked>>
      /\ \A j \in Jobs : futures[j] = "none" => futures'[j] = "none"
      /\ PayloadInv' /\ QueueInv' /\ LoopInv' /\ YieldInv' /\ ResultInv'
  BY <1>1, <1>2, WorkShut
<1>4. Jobs' = Jobs /\ Returned' = Returned /\ Payloads' = Payloads
  BY <1>1 DEF Jobs, Returned, Payloads
<1>5. TypeOK'
  BY <1>1, <1>2, <1>3, <1>4 DEF TypeOK, Points, Attached
<1>6. PlaceInv'
  BY <1>1, <1>2 DEF IInv, PlaceInv, At, Active, Attached, Closing
<1>7. PoolInv'
  BY <1>1, <1>2, <1>3 DEF IInv, PoolInv, At, Active
<1>8. CountInv'
  BY <1>1, <1>2, <1>3, StillCount DEF Submitting, Collecting
<1> QED BY <1>3, <1>5, <1>6, <1>7, <1>8 DEF IInv

-----------------------------------------------------------------------------
(* The steps that start an iteration, submit, and yield. *)

\* An iteration starts afresh, or is refused because of a config.
LEMMA BeginStep ==
  ASSUME IInv, Begin PROVE IInv'
<1>1. /\ study' = study /\ yielded' = <<>> /\ coord.at = "idle" /\ left.rounds > 0
      /\ left' = [left EXCEPT !.rounds = @ - 1]
      /\ canceller' = [canceller EXCEPT
            !.began = FALSE, !.overlaps = canceller.at \notin {"idle", "returned", "raised"}]
  BY DEF Begin, At
<1>2. /\ TypeOK /\ canceller'.at = canceller.at /\ ~canceller'.began
      /\ canceller'.overlaps = (canceller.at \notin {"idle", "returned", "raised"})
      /\ canceller' \in [at : {"idle", "token?", "token", "executor?", "executor",
                               "returned", "raised"},
                         began : BOOLEAN, overlaps : BOOLEAN]
  <2>1. TypeOK /\ (canceller.at \notin {"idle", "returned", "raised"}) \in BOOLEAN
    BY DEF IInv
  <2> QED BY <2>1, <1>1 DEF TypeOK
<1>3. left' \in [rounds : Nat, cancels : Nat]
  <2>1. left \in [rounds : Nat, cancels : Nat]
    BY <1>2 DEF TypeOK
  <2>2. left.rounds - 1 \in Nat
    BY <1>1, <2>1
  <2> QED BY <1>1, <2>1, <2>2
<1>4. Jobs' = Jobs /\ Returned' = Returned /\ Payloads' = Payloads /\ Yielded' = {}
  BY <1>1 DEF Jobs, Returned, Payloads, Yielded
<1>5. EachResultOnce'
  <2>1. Cardinality({}) = 0 /\ Len(<<>>) = 0 /\ DOMAIN <<>> = {}
    BY FS_EmptySet
  <2> QED BY <1>1, <1>4, <2>1 DEF EachResultOnce
<1>6. YieldInv'
  BY <1>4, <1>5 DEF YieldInv
<1>7. ~exp.token /\ ~exp.executor /\ Pending = {} /\ Running = {}
  BY <1>1, <1>2 DEF IInv, PlaceInv, PoolInv, Active, At, Attached
<1>8. CASE /\ coord' = [coord EXCEPT !.at = "ended", !.result = "config"]
           /\ UNCHANGED <<exp, pool, futures, payloads, hooked, completions>>
  <2>1. /\ exp' = exp /\ pool' = pool /\ futures' = futures /\ payloads' = payloads
        /\ hooked' = hooked /\ completions' = completions
        /\ coord'.at = "ended" /\ coord'.result = "config"
    BY <1>2, <1>8 DEF TypeOK
  <2>2. /\ Pending' = {} /\ Running' = {} /\ \A j \in Jobs : IsDone(j)' <=> IsDone(j)
    BY <1>4, <1>7, <2>1 DEF Pending, Running, IsDone
  <2>3. TypeOK'
    <3>1. yielded' \in Seq([job : Jobs, value : Returned])
      BY <1>1
    <3> QED BY <1>1, <1>2, <1>3, <1>4, <1>8, <2>1, <3>1 DEF TypeOK, Points
  <2>4. PlaceInv'
    BY <1>1, <1>2, <1>7, <2>1 DEF PlaceInv, Active, At, Attached, Closing
  <2>5. PoolInv'
    BY <1>2, <2>1, <2>2 DEF PoolInv, Active, At
  <2>6. PayloadInv'
    BY <1>1, <1>4, <2>1 DEF IInv, PayloadInv, Encode, Transport, RequiresTransport
  <2>7. QueueInv'
    BY <1>4, <2>1, <2>2 DEF IInv, QueueInv, IsDone
  <2>8. LoopInv' /\ CountInv'
    BY <2>1 DEF LoopInv, CountInv, Looping, Submitting, Collecting
  <2>9. ResultInv'
    BY <2>1 DEF ResultInv
  <2> QED BY <1>6, <2>3, <2>4, <2>5, <2>6, <2>7, <2>8, <2>9 DEF IInv
<1>9. CASE /\ exp' = [exp EXCEPT !.cancelled = FALSE] /\ pool' = FreshPool
           /\ futures' = [j \in Jobs |-> "none"] /\ payloads' = [j \in Jobs |-> NoPayload]
           /\ hooked' = {} /\ completions' = <<>>
           /\ coord' = [at |-> "token", next |-> 1, expects |-> 0,
                        result |-> "running", blames |-> 0]
  <2>1. /\ exp' \in [cancelled : BOOLEAN, token : BOOLEAN, executor : BOOLEAN]
        /\ ~exp'.token /\ ~exp'.executor
    BY <1>2, <1>7, <1>9 DEF TypeOK
  <2>2. coord'.at = "token" /\ coord'.next = 1 /\ coord'.result = "running"
    BY <1>9
  <2>3. ~pool'.fired /\ ~pool'.dropping /\ ~pool'.shut
        /\ pool' \in [shut : BOOLEAN, fired : BOOLEAN, dropping : BOOLEAN]
    BY <1>9 DEF FreshPool
  <2>4. /\ \A j \in Jobs : futures'[j] = "none"
        /\ futures' \in [Jobs -> FutureStates] /\ payloads' \in [Jobs -> Payloads]
    BY <1>9 DEF FutureStates, Payloads, NoPayload
  <2>5. Pending' = {} /\ Running' = {}
    BY <1>4, <2>4 DEF Pending, Running
  <2>6. TypeOK'
    <3>1. /\ yielded' \in Seq([job : Jobs, value : Returned]) /\ completions' \in Seq(Jobs)
          /\ hooked' \in SUBSET Jobs
      BY <1>1, <1>9
    <3>2. coord' \in [at : Points, next : Nat, expects : Nat, blames : Nat,
                  result : {"none", "running", "returned", "broken off", "refused",
                            "config", "replication", "transport"}]
      BY <1>9 DEF Points
    <3> QED BY <1>1, <1>2, <1>3, <1>4, <2>1, <2>3, <2>4, <3>1, <3>2 DEF TypeOK
  <2>7. PlaceInv'
    BY <1>1, <1>2, <2>1, <2>2 DEF PlaceInv, Active, At, Attached, Closing
  <2>8. PoolInv'
    BY <1>4, <2>2, <2>3, <2>4, <2>5 DEF PoolInv, Active, At
  <2>9. PayloadInv' /\ ResultInv'
    BY <1>4, <2>2, <2>4 DEF PayloadInv, ResultInv
  <2>10. QueueInv'
    BY <1>9 DEF QueueInv, IsInjective, Range
  <2>11. LoopInv' /\ CountInv'
    BY <1>4, <1>9, <2>2, <2>4 DEF LoopInv, CountInv, Looping, Submitting, Collecting
  <2> QED BY <1>6, <2>6, <2>7, <2>8, <2>9, <2>10, <2>11 DEF IInv
<1> QED BY <1>8, <1>9 DEF Begin

\* executor.submit.
LEMMA SubmitStep ==
  ASSUME IInv, Submit PROVE IInv'
<1>1. /\ study' = study /\ exp' = exp /\ pool' = pool /\ payloads' = payloads
      /\ hooked' = hooked /\ completions' = completions /\ canceller' = canceller
      /\ yielded' = yielded /\ left' = left /\ coord.at = "submit" /\ TypeOK
  BY DEF Submit, At, IInv
<1>2. /\ Jobs' = Jobs /\ Returned' = Returned /\ Payloads' = Payloads /\ Yielded' = Yielded
      /\ Excused' = Excused
  BY <1>1 DEF Jobs, Returned, Payloads, Yielded, Excused
<1>3. CASE pool.shut
  <2>1. /\ futures' = futures
        /\ coord' = [coord EXCEPT !.at = "finally", !.result = "refused", !.blames = 0]
    BY <1>3 DEF Submit, Raise
  <2>2. coord'.at = "finally" /\ coord'.result = "refused"
    BY <1>1, <2>1 DEF TypeOK
  <2>3. UNCHANGED <<study, workVars, yielded>>
    BY <1>1, <2>1 DEF workVars
  <2>4. TypeOK'
    BY <1>1, <1>2, <2>1, ZenonT(60) DEF TypeOK, Points, Closing
  <2>5. PlaceInv'
    BY <1>1, <2>2 DEF IInv, PlaceInv, Active, At, Attached, Closing
  <2>6. PoolInv'
    BY <1>1, <1>2, <2>1, <2>2, <2>3, StillWork DEF IInv, PoolInv, Active, At
  <2>7. LoopInv' /\ CountInv'
    BY <2>2 DEF LoopInv, CountInv, Looping, Submitting, Collecting
  <2>8. PayloadInv' /\ QueueInv' /\ YieldInv' /\ ResultInv'
    BY <1>1, <1>2, <2>2, <2>3, StillInv
  <2> QED BY <2>4, <2>5, <2>6, <2>7, <2>8 DEF IInv
<1>4. CASE ~pool.shut
  <2>1. /\ futures' = [futures EXCEPT ![coord.next] = "pending"]
        /\ coord' = [coord EXCEPT !.at = "hook"]
    BY <1>4 DEF Submit, Goto
  <2>2. /\ coord'.at = "hook" /\ coord'.next = coord.next /\ coord'.result = coord.result
        /\ coord'.blames = coord.blames
    BY <1>1, <2>1 DEF TypeOK
  <2>3. /\ coord.next \in Jobs /\ coord.next \notin hooked /\ futures[coord.next] = "none"
        /\ Outstanding = hooked /\ hooked = 1 .. coord.next - 1
    <3>1. /\ coord.next \in Jobs /\ Outstanding = hooked /\ hooked = 1 .. coord.next - 1
          /\ coord.next \in Nat
      BY <1>1 DEF IInv, CountInv, Submitting, TypeOK
    <3>2. coord.next \notin hooked
      BY <3>1
    <3> QED BY <3>1, <3>2, <1>1 DEF IInv, LoopInv, Looping, Submitting, At
  <2>4. /\ futures' \in [Jobs -> FutureStates] /\ futures'[coord.next] = "pending"
        /\ \A j \in Jobs \ {coord.next} : futures'[j] = futures[j]
    BY <1>1, <2>1, <2>3 DEF TypeOK, FutureStates
  <2>5. /\ hooked \subseteq Jobs /\ Outstanding' = Outstanding
        /\ \A j \in Jobs : IsDone(j)' <=> IsDone(j)
    <3>1. hooked \subseteq Jobs /\ \A j \in Jobs : IsDone(j)' <=> IsDone(j)
      BY <1>1, <2>3, <2>4 DEF IsDone, TypeOK
    <3> QED BY <3>1, <1>1 DEF Outstanding
  <2>6. TypeOK'
    BY <1>1, <1>2, <2>1, <2>4, ZenonT(60) DEF TypeOK, Points, Attached, Closing
  <2>7. PlaceInv'
    BY <1>1, <2>2 DEF IInv, PlaceInv, Active, At, Attached, Closing
  <2>8. PoolInv'
    BY <1>1, <1>2, <1>4, <2>2, <2>4 DEF IInv, PoolInv, Active, At
  <2>9. PayloadInv'
    BY <1>1, <1>2, <2>4 DEF IInv, PayloadInv, Encode, Transport, RequiresTransport
  <2>10. QueueInv'
    BY <1>1, <1>2, <2>5 DEF IInv, QueueInv, TypeOK
  <2>11. LoopInv'
    BY <1>1, <1>2, <2>2, <2>3, <2>4, <2>5 DEF IInv, LoopInv, Looping, Submitting, At
  <2>12. CountInv'
    BY <1>1, <1>2, <2>2, <2>3, <2>5 DEF IInv, CountInv, Submitting, Collecting
  <2>13. YieldInv'
    BY <1>1, <1>2, <2>3, <2>4, <2>5 DEF IInv, YieldInv, EachResultOnce, Excused
  <2>14. ResultInv'
    BY <1>1, <2>2 DEF IInv, PlaceInv, ResultInv, Active, At, Closing
  <2> QED BY <2>6, <2>7, <2>8, <2>9, <2>10, <2>11, <2>12, <2>13, <2>14 DEF IInv
<1> QED BY <1>3, <1>4

\* add_done_callback: a future that is done already goes into the queue at once.
LEMMA HookFutureStep ==
  ASSUME IInv, HookFuture PROVE IInv'
<1> DEFINE job == coord.next
<1>1. /\ study' = study /\ exp' = exp /\ pool' = pool /\ futures' = futures
      /\ payloads' = payloads /\ canceller' = canceller /\ yielded' = yielded /\ left' = left
      /\ coord.at = "hook" /\ hooked' = hooked \cup {job}
      /\ completions' = IF IsDone(job) THEN Append(completions, job) ELSE completions
      /\ coord' = [coord EXCEPT !.at = "check", !.next = @ + 1] /\ TypeOK
  BY DEF HookFuture, At, IInv
<1>2. /\ Jobs' = Jobs /\ Returned' = Returned /\ Payloads' = Payloads /\ Yielded' = Yielded
      /\ Excused' = Excused /\ Pending' = Pending /\ Running' = Running
      /\ \A j \in Jobs : IsDone(j)' <=> IsDone(j)
  BY <1>1 DEF Jobs, Returned, Payloads, Yielded, Excused, Pending, Running, IsDone
<1>3. /\ job \in Jobs /\ job \in Nat /\ Outstanding = hooked /\ hooked = 1 .. job - 1
      /\ Jobs = 1 .. Len(study.outcomes) /\ Len(study.outcomes) \in Nat
  BY <1>1, JobsAreNumbered DEF IInv, CountInv, Submitting, TypeOK
<1>4. /\ coord'.at = "check" /\ coord'.next = job + 1 /\ coord'.result = coord.result
      /\ coord'.blames = coord.blames /\ coord.result = "running"
  BY <1>1 DEF IInv, TypeOK, PlaceInv, Active, At, Closing
<1>5. /\ job + 1 \in Nat /\ hooked' = 1 .. (job + 1) - 1 /\ hooked' \subseteq Jobs
      /\ job \notin hooked /\ job + 1 \in 1 .. Len(study.outcomes) + 1
  <2>1. hooked' = 1 .. job
    BY <1>1, <1>3
  <2> QED BY <2>1, <1>3
<1>6. /\ completions' \in Seq(Jobs) /\ IsInjective(completions')
      /\ Range(completions') = Range(completions) \cup (IF IsDone(job) THEN {job} ELSE {})
  <2>1. /\ completions \in Seq(Jobs) /\ IsInjective(completions) /\ job \notin Range(completions)
    BY <1>1, <1>5 DEF TypeOK, IInv, QueueInv
  <2>2. CASE IsDone(job)
    BY <2>1, <2>2, <1>1, <1>3, AppendNew
  <2>3. CASE ~IsDone(job)
    BY <2>1, <2>3, <1>1
  <2> QED BY <2>2, <2>3
<1>7. Outstanding' = hooked'
  BY <1>1, <1>2, <1>3, <1>5, <1>6 DEF Outstanding
<1>8. TypeOK'
  <2>1. coord' = [coord EXCEPT !.at = "check", !.next = job + 1]
    BY <1>1
  <2>2. coord' \in [at : Points, next : Nat, expects : Nat, blames : Nat,
                     result : {"none", "running", "returned", "broken off", "refused",
                               "config", "replication", "transport"}]
    BY <2>1, <1>1, <1>5 DEF TypeOK, Points, Attached
  <2> QED BY <2>2, <1>1, <1>2, <1>5, <1>6, ZenonT(60) DEF TypeOK
<1>9. PlaceInv'
  BY <1>1, <1>4 DEF IInv, PlaceInv, Active, At, Attached, Closing
<1>10. PoolInv'
  BY <1>1, <1>2, <1>4 DEF IInv, PoolInv, Active, At
<1>11. PayloadInv'
  BY <1>1, <1>2 DEF IInv, PayloadInv, Encode, Transport, RequiresTransport
<1>12. QueueInv'
  BY <1>1, <1>2, <1>3, <1>6 DEF IInv, QueueInv, TypeOK
<1>13. LoopInv'
  <2>1. /\ \A j \in Jobs \ hooked : futures[j] = "none" \/ j = job
        /\ \A j \in hooked : futures[j] # "none"
    BY <1>1 DEF IInv, LoopInv, Looping, Submitting, At
  <2>2. futures[job] # "none"
    BY <1>1 DEF IInv, LoopInv, Looping, Submitting, At
  <2>3. ~At("hook")'
    BY <1>4 DEF At
  <2> QED BY <1>1, <1>2, <1>7, <2>1, <2>2, <2>3 DEF LoopInv
<1>14. CountInv'
  BY <1>1, <1>4, <1>5, <1>7 DEF CountInv, Submitting, Collecting
<1>15. YieldInv'
  BY <1>1, <1>2, <1>5, <1>6 DEF IInv, YieldInv, EachResultOnce, Excused
<1>16. ResultInv'
  BY <1>4 DEF ResultInv
<1> QED BY <1>8, <1>9, <1>10, <1>11, <1>12, <1>13, <1>14, <1>15, <1>16 DEF IInv

\* Decoding a payload gives back what was encoded, spooled or not.
LEMMA DecodedAsEncoded ==
  ASSUME study.spool \in BOOLEAN, NEW j \in Jobs, NEW value,
         payloads[j] = Encode(value, Transport, study.spool)
  PROVE  Value(j) = value
<1>1. CASE study.spool
  BY <1>1 DEF Value, Encode, Decode
<1>2. CASE ~study.spool
  BY <1>2 DEF Value, Encode, Decode
<1> QED BY <1>1, <1>2

\* Nothing is outstanding: the generator returns, and every result was yielded.
LEMMA CollectReturns ==
  ASSUME IInv, Collect, coord.expects = 0 PROVE IInv'
<1>1. /\ coord.at = "collect" /\ coord' = [coord EXCEPT !.at = "finally", !.result = "returned"]
      /\ UNCHANGED <<exp, pool, workVars, yielded>> /\ UNCHANGED <<study, canceller, left>> /\ TypeOK
  BY DEF Collect, At, IInv
<1>2. /\ coord'.at = "finally" /\ coord'.result = "returned"
      /\ UNCHANGED <<study, workVars, yielded>> /\ Excused' = Excused /\ canceller' = canceller
      /\ exp' = exp /\ pool' = pool /\ futures' = futures /\ left' = left
  BY <1>1 DEF TypeOK, Excused, workVars
<1>3. Outstanding = {}
  <2>1. IsFiniteSet(Outstanding)
    BY <1>1, JobsAreNumbered, FS_Subset DEF TypeOK, Outstanding
  <2>2. Cardinality(Outstanding) = 0
    BY <1>1 DEF IInv, CountInv, Collecting
  <2> QED BY <2>1, <2>2, FS_EmptySet
<1>4. /\ \A j \in Jobs \ hooked : futures[j] = "none"
      /\ \A j \in hooked : futures[j] = "cancelled" \/ (futures[j] = "finished" /\ j \in Yielded)
  <2>1. /\ \A j \in Jobs \ hooked : futures[j] = "none"
        /\ \A j \in hooked \ Outstanding :
              futures[j] = "cancelled" \/ (futures[j] = "finished" /\ j \in Yielded)
    BY <1>1 DEF IInv, LoopInv, Looping, Collecting, At
  <2> QED BY <2>1, <1>3
<1>5. Yielded \subseteq Jobs /\ hooked \subseteq Jobs /\ \A j \in Yielded : futures[j] = "finished"
  BY <1>1 DEF IInv, YieldInv, TypeOK
<1>6. /\ Pending = {} /\ Running = {} /\ \A j \in Jobs : futures[j] # "failed"
      /\ {j \in Jobs : futures[j] = "finished"} = Yielded
  BY <1>4, <1>5 DEF Pending, Running
<1>7. Yielded = Jobs \/ Excused
  <2>1. hooked = Jobs \/ exp.cancelled
    BY <1>1 DEF IInv, CountInv, Collecting
  <2>2. (\A j \in Jobs : futures[j] # "cancelled") \/ Excused
    BY <1>1 DEF IInv, PoolInv, Active, At
  <2> QED BY <2>1, <2>2, <1>4, <1>5 DEF Excused
<1>8. TypeOK'
  BY <1>1, <1>2, StillWork DEF TypeOK, Points, Closing, workVars
<1>9. PlaceInv'
  BY <1>1, <1>2 DEF IInv, PlaceInv, Active, At, Attached, Closing
<1>10. PoolInv'
  BY <1>1, <1>2, StillWork DEF IInv, PoolInv, Active, At
<1>11. LoopInv' /\ CountInv'
  BY <1>2 DEF LoopInv, CountInv, Looping, Submitting, Collecting, At
<1>12. ResultInv'
  <2>1. {j \in Jobs : futures[j] = "finished"}' = {j \in Jobs : futures[j] = "finished"}
    BY <1>2, StillWork
  <2> QED BY <1>2, <1>6, <1>7, <2>1, StillWork DEF ResultInv
<1>13. PayloadInv' /\ QueueInv' /\ YieldInv'
  <2>1. UNCHANGED <<study, workVars, yielded>> /\ (Excused => Excused') /\ (pool.fired => pool.fired')
    BY <1>2
  <2> QED BY <2>1, StillRecords
<1> QED BY <1>8, <1>9, <1>10, <1>11, <1>12, <1>13 DEF IInv

\* The next completion, if one is awaited.
LEMMA NextCompletion ==
  ASSUME IInv, At("collect"), completions # <<>>
  PROVE  /\ Head(completions) \in Jobs /\ Head(completions) \in hooked
         /\ futures[Head(completions)] \in {"finished", "failed", "cancelled"}
         /\ Head(completions) \notin Yielded
         /\ Tail(completions) \in Seq(Jobs) /\ IsInjective(Tail(completions))
         /\ Range(Tail(completions)) = Range(completions) \ {Head(completions)}
         /\ IsFiniteSet(Outstanding) /\ Head(completions) \in Outstanding
         /\ Cardinality(Outstanding \ {Head(completions)}) = coord.expects - 1
         /\ coord.expects - 1 \in Nat
<1>1. completions \in Seq(Jobs) /\ IsInjective(completions) /\ hooked \subseteq Jobs
  BY DEF IInv, TypeOK, QueueInv
<1>2. /\ Head(completions) \in Jobs /\ Head(completions) \in Range(completions)
      /\ Tail(completions) \in Seq(Jobs) /\ IsInjective(Tail(completions))
      /\ Range(Tail(completions)) = Range(completions) \ {Head(completions)}
  BY <1>1, TakeFirst
<1>3. /\ Head(completions) \in hooked /\ IsDone(Head(completions))
      /\ Head(completions) \notin Yielded
  BY <1>2 DEF IInv, QueueInv, YieldInv
<1>4. IsFiniteSet(Outstanding) /\ Head(completions) \in Outstanding
  <2>1. IsFiniteSet(Outstanding)
    BY <1>1, JobsAreNumbered, FS_Subset DEF IInv, TypeOK, Outstanding
  <2> QED BY <2>1, <1>2, <1>3 DEF Outstanding
<1>5. /\ coord.expects = Cardinality(Outstanding)
      /\ Cardinality(Outstanding \ {Head(completions)}) = Cardinality(Outstanding) - 1
      /\ Cardinality(Outstanding \ {Head(completions)}) \in Nat
  <2>1. coord.expects = Cardinality(Outstanding)
    BY DEF IInv, CountInv, Collecting, At
  <2>2. IsFiniteSet(Outstanding \ {Head(completions)})
    BY <1>4, FS_Subset
  <2> QED BY <2>1, <2>2, <1>4, FS_RemoveElement, FS_CardinalityType
<1> QED BY <1>2, <1>3, <1>4, <1>5 DEF IsDone

\* A cancelled future is counted.
LEMMA CollectCancelled ==
  ASSUME IInv, Collect, coord.expects # 0, completions # <<>>,
         futures[Head(completions)] = "cancelled"
  PROVE  IInv'
<1> DEFINE job == Head(completions)
<1>1. /\ coord.at = "collect" /\ coord' = [coord EXCEPT !.expects = @ - 1]
      /\ completions' = Tail(completions)
      /\ exp' = exp /\ pool' = pool /\ futures' = futures /\ payloads' = payloads
      /\ hooked' = hooked /\ yielded' = yielded /\ study' = study /\ canceller' = canceller
      /\ left' = left /\ TypeOK
  BY DEF Collect, At, IInv
<1>2. /\ job \in Jobs /\ job \in hooked /\ futures[job] = "cancelled"
      /\ Tail(completions) \in Seq(Jobs) /\ IsInjective(Tail(completions))
      /\ Range(Tail(completions)) = Range(completions) \ {job}
      /\ job \in Outstanding /\ Cardinality(Outstanding \ {job}) = coord.expects - 1
      /\ coord.expects - 1 \in Nat
  BY <1>1, NextCompletion DEF At
<1> HIDE DEF job
<1>3. /\ coord'.at = coord.at /\ coord'.next = coord.next /\ coord'.expects = coord.expects - 1
      /\ coord'.result = coord.result /\ coord'.blames = coord.blames
      /\ coord' \in [at : Points, next : Nat, expects : Nat, blames : Nat,
                     result : {"none", "running", "returned", "broken off", "refused",
                               "config", "replication", "transport"}]
  <2>1. coord' = [coord EXCEPT !.expects = coord.expects - 1]
    BY <1>1
  <2> QED BY <1>1, <1>2, <2>1 DEF TypeOK
<1>4. /\ Jobs' = Jobs /\ Returned' = Returned /\ Payloads' = Payloads /\ Yielded' = Yielded
      /\ Excused' = Excused /\ Pending' = Pending /\ Running' = Running
      /\ \A j \in Jobs : IsDone(j)' <=> IsDone(j)
  BY <1>1 DEF Jobs, Returned, Payloads, Yielded, Excused, Pending, Running, IsDone
<1>5. Outstanding' = Outstanding \ {job}
  <2>1. hooked \subseteq Jobs /\ IsDone(job)
    BY <1>1, <1>2 DEF TypeOK, IsDone
  <2> QED BY <2>1, <1>1, <1>2, <1>4 DEF Outstanding
<1>6. TypeOK'
  BY <1>1, <1>2, <1>3, <1>4, ZenonT(60) DEF TypeOK
<1>7. PlaceInv'
  BY <1>1, <1>3 DEF IInv, PlaceInv, Active, At
<1>8. PoolInv'
  BY <1>1, <1>3, <1>4 DEF IInv, PoolInv, Active, At
<1>9. PayloadInv'
  BY <1>1, <1>4 DEF IInv, PayloadInv, Encode, Transport, RequiresTransport
<1>10. QueueInv'
  BY <1>1, <1>2, <1>4 DEF IInv, QueueInv, TypeOK
<1>11. LoopInv'
  BY <1>1, <1>2, <1>3, <1>4, <1>5 DEF IInv, LoopInv, Looping, Collecting, At
<1>12. CountInv'
  BY <1>1, <1>2, <1>3, <1>4, <1>5 DEF IInv, CountInv, Submitting, Collecting
<1>13. YieldInv'
  BY <1>1, <1>2, <1>4 DEF IInv, YieldInv, EachResultOnce, Excused
<1>14. ResultInv'
  BY <1>1, <1>3 DEF IInv, PlaceInv, ResultInv, Active, At, Closing
<1> QED BY <1>6, <1>7, <1>8, <1>9, <1>10, <1>11, <1>12, <1>13, <1>14 DEF IInv

\* A finished one is yielded.
LEMMA CollectFinished ==
  ASSUME IInv, Collect, coord.expects # 0, completions # <<>>,
         futures[Head(completions)] = "finished"
  PROVE  IInv'
<1> DEFINE job == Head(completions)
           got == [job |-> job, value |-> Value(job)]
<1>1. /\ coord.at = "collect" /\ coord' = [coord EXCEPT !.expects = @ - 1, !.at = "yielded"]
      /\ completions' = Tail(completions) /\ yielded' = Append(yielded, got)
      /\ exp' = exp /\ pool' = pool /\ futures' = futures /\ payloads' = payloads
      /\ hooked' = hooked /\ study' = study /\ canceller' = canceller
      /\ left' = left /\ TypeOK
  BY DEF Collect, At, IInv
<1>2. /\ job \in Jobs /\ job \in hooked /\ futures[job] = "finished" /\ job \notin Yielded
      /\ Tail(completions) \in Seq(Jobs) /\ IsInjective(Tail(completions))
      /\ Range(Tail(completions)) = Range(completions) \ {job}
      /\ job \in Outstanding /\ Cardinality(Outstanding \ {job}) = coord.expects - 1
      /\ coord.expects - 1 \in Nat
  BY <1>1, NextCompletion DEF At
<1>3. /\ got.job = job
      /\ \/ got.value = study.outcomes[job] /\ got.value # "raises"
         \/ got.value = "partial" /\ study.kind = "threads" /\ Excused
  <2>1. study.spool \in BOOLEAN
    BY <1>1, JobsAreNumbered DEF TypeOK
  <2>2. \/ /\ payloads[job] = Encode(study.outcomes[job], Transport, study.spool)
           /\ study.outcomes[job] # "raises"
        \/ /\ payloads[job] = Encode("partial", Transport, study.spool)
           /\ study.kind = "threads" /\ pool.fired
    BY <1>2 DEF IInv, PayloadInv
  <2>3. pool.fired => Excused
    BY <1>1 DEF IInv, PoolInv, Active, At
  <2> QED BY <1>2, <2>1, <2>2, <2>3, DecodedAsEncoded
<1>4. got \in [job : Jobs, value : Returned]
  <2>1. study.outcomes[job] \in Returned /\ "partial" \in Returned
    BY <1>1, <1>2, JobsAreNumbered DEF TypeOK
  <2> QED BY <2>1, <1>2, <1>3
<1> HIDE DEF job, got
<1>5. /\ yielded \in Seq([job : Jobs, value : Returned])
      /\ yielded' \in Seq([job : Jobs, value : Returned])
      /\ Len(yielded) \in Nat /\ Len(yielded') = Len(yielded) + 1
      /\ DOMAIN yielded = 1 .. Len(yielded)
      /\ DOMAIN yielded' = 1 .. Len(yielded) \cup {Len(yielded) + 1}
      /\ yielded'[Len(yielded) + 1] = got
      /\ \A i \in 1 .. Len(yielded) : yielded'[i] = yielded[i]
  <2>1. yielded \in Seq([job : Jobs, value : Returned])
    BY <1>1 DEF TypeOK
  <2> QED BY <2>1, <1>1, <1>4
<1>6. Yielded' = Yielded \cup {job}
  BY <1>3, <1>5 DEF Yielded
<1>7. /\ coord'.at = "yielded" /\ coord'.next = coord.next /\ coord'.expects = coord.expects - 1
      /\ coord'.result = coord.result /\ coord'.blames = coord.blames
      /\ coord' \in [at : Points, next : Nat, expects : Nat, blames : Nat,
                     result : {"none", "running", "returned", "broken off", "refused",
                               "config", "replication", "transport"}]
  <2>1. coord' = [coord EXCEPT !.expects = coord.expects - 1, !.at = "yielded"]
    BY <1>1
  <2>2. "yielded" \in Points
    BY DEF Points, Attached
  <2> QED BY <1>1, <1>2, <2>1, <2>2 DEF TypeOK
<1>8. /\ Jobs' = Jobs /\ Returned' = Returned /\ Payloads' = Payloads
      /\ Excused' = Excused /\ Pending' = Pending /\ Running' = Running
      /\ \A j \in Jobs : IsDone(j)' <=> IsDone(j)
  BY <1>1 DEF Jobs, Returned, Payloads, Excused, Pending, Running, IsDone
<1>9. Outstanding' = Outstanding \ {job}
  <2>1. hooked \subseteq Jobs /\ IsDone(job)
    BY <1>1, <1>2 DEF TypeOK, IsDone
  <2> QED BY <2>1, <1>1, <1>2, <1>8 DEF Outstanding
<1>10. TypeOK'
  BY <1>1, <1>2, <1>5, <1>7, <1>8, ZenonT(60) DEF TypeOK
<1>11. PlaceInv'
  BY <1>1, <1>7 DEF IInv, PlaceInv, Active, At, Attached, Closing
<1>12. PoolInv'
  BY <1>1, <1>7, <1>8 DEF IInv, PoolInv, Active, At
<1>13. PayloadInv'
  BY <1>1, <1>8 DEF IInv, PayloadInv, Encode, Transport, RequiresTransport
<1>14. QueueInv'
  BY <1>1, <1>2, <1>8 DEF IInv, QueueInv, TypeOK
<1>15. LoopInv'
  BY <1>1, <1>2, <1>6, <1>7, <1>8, <1>9 DEF IInv, LoopInv, Looping, Collecting, At
<1>16. CountInv'
  BY <1>1, <1>2, <1>7, <1>8, <1>9 DEF IInv, CountInv, Submitting, Collecting
<1>17. YieldInv'
  <2>1. Cardinality(Yielded') = Len(yielded')
    <3>1. IsFiniteSet(Yielded)
      BY <1>1, JobsAreNumbered, FS_Subset DEF IInv, YieldInv, TypeOK
    <3>2. Cardinality(Yielded) = Len(yielded)
      BY DEF IInv, YieldInv, EachResultOnce
    <3>3. Cardinality(Yielded \cup {job}) = Cardinality(Yielded) + 1
      BY <3>1, <1>2, FS_AddElement
    <3> QED BY <3>2, <3>3, <1>5, <1>6
  <2>2. EachResultOnce'
    <3>1. \A i \in DOMAIN yielded :
            \/ yielded[i].value = study.outcomes[yielded[i].job] /\ yielded[i].value # "raises"
            \/ yielded[i].value = "partial" /\ study.kind = "threads" /\ Excused
      BY DEF IInv, YieldInv, EachResultOnce, Excused
    <3>2. \A i \in DOMAIN yielded' :
            \/ /\ yielded'[i].value = study.outcomes[yielded'[i].job]
               /\ yielded'[i].value # "raises"
            \/ yielded'[i].value = "partial" /\ study.kind = "threads" /\ Excused
      BY <3>1, <1>3, <1>5
    <3> QED BY <3>2, <2>1, <1>1 DEF EachResultOnce, Excused
  <2>3. \A j \in Yielded' : j \in hooked /\ futures[j] = "finished" /\ j \notin Range(Tail(completions))
    BY <1>2, <1>6 DEF IInv, YieldInv
  <2> QED BY <2>2, <2>3, <1>1 DEF YieldInv
<1>18. ResultInv'
  BY <1>1, <1>7 DEF IInv, PlaceInv, ResultInv, Active, At, Closing
<1> QED BY <1>10, <1>11, <1>12, <1>13, <1>14, <1>15, <1>16, <1>17, <1>18 DEF IInv

\* A failed one cancels the rest and is raised.
LEMMA CollectFailed ==
  ASSUME IInv, Collect, coord.expects # 0, completions # <<>>,
         futures[Head(completions)] = "failed"
  PROVE  IInv'
<1> DEFINE job == Head(completions)
           tail == Tail(completions)
           later == study.kind = "processes"
           drop == IF later THEN {} ELSE Pending
<1>1. /\ coord.at = "collect" /\ exp' = [exp EXCEPT !.cancelled = TRUE]
      /\ coord' = [coord EXCEPT !.at = "finally", !.result = payloads[job].of, !.blames = job]
      /\ yielded' = yielded /\ study' = study /\ canceller' = canceller /\ left' = left
      /\ pool' = [pool EXCEPT !.shut = TRUE, !.fired = @ \/ TRUE, !.dropping = @ \/ later]
      /\ futures' = [j \in Jobs |-> IF j \in drop THEN "cancelled" ELSE futures[j]]
      /\ Completed(drop, tail) /\ payloads' = payloads /\ hooked' = hooked /\ TypeOK
  BY DEF Collect, CancelHere, Shut, Raise, At, IInv
<1>2. /\ job \in Jobs /\ job \in hooked /\ futures[job] = "failed"
      /\ tail \in Seq(Jobs) /\ IsInjective(tail) /\ Range(tail) = Range(completions) \ {job}
  BY <1>1, NextCompletion DEF At
<1>3. later \in BOOLEAN /\ drop \in SUBSET Pending /\ (~later => drop = Pending)
  OBVIOUS
<1> HIDE DEF job, tail, later, drop
<1>4. /\ payloads[job].of \in {"replication", "transport"}
      /\ payloads[job].of = "replication" <=> study.outcomes[job] = "raises"
  BY <1>2 DEF IInv, PayloadInv
<1>5. /\ coord'.at = "finally" /\ coord'.result = payloads[job].of /\ coord'.blames = job
      /\ coord' \in [at : Points, next : Nat, expects : Nat, blames : Nat,
                     result : {"none", "running", "returned", "broken off", "refused",
                               "config", "replication", "transport"}]
  <2>1. job \in Nat /\ "finally" \in Points
    BY <1>1, <1>2, JobsAreNumbered DEF TypeOK, Points, Closing
  <2> QED BY <1>1, <1>4, <2>1 DEF TypeOK
<1>6. /\ pool' \in [shut : BOOLEAN, fired : BOOLEAN, dropping : BOOLEAN]
      /\ pool'.shut /\ pool'.fired /\ (later => pool'.dropping)
      /\ exp' \in [cancelled : BOOLEAN, token : BOOLEAN, executor : BOOLEAN]
      /\ exp'.cancelled /\ exp'.token = exp.token /\ exp'.executor = exp.executor
  BY <1>1, <1>3 DEF TypeOK
<1>7. /\ Jobs' = Jobs /\ Returned' = Returned /\ Payloads' = Payloads /\ Yielded' = Yielded /\ Excused'
  BY <1>1, <1>6 DEF Jobs, Returned, Payloads, Yielded, Excused
<1>8. /\ futures \in [Jobs -> FutureStates] /\ drop \subseteq Jobs
      /\ \A j \in drop : futures[j] = "pending"
  BY <1>1, <1>3 DEF TypeOK, Pending
<1>9. /\ futures' \in [Jobs -> FutureStates] /\ \A j \in drop : futures'[j] = "cancelled"
      /\ \A j \in Jobs \ drop : futures'[j] = futures[j]
  BY <1>1, <1>8 DEF FutureStates
<1>10. /\ completions' \in Seq(Jobs) /\ QueueInv'
       /\ Range(completions') = Range(tail) \cup (drop \cap hooked)
  <2>1. drop \in SUBSET (Pending \cup Running) /\ \A j \in drop : IsDone(j)'
    BY <1>3, <1>9 DEF IsDone
  <2>2. UNCHANGED <<study, hooked>> /\ Range(tail) \subseteq Range(completions)
    BY <1>1, <1>2
  <2> QED BY <1>1, <1>2, <1>9, <2>1, <2>2, QueueGrows
<1>11. TypeOK'
  BY <1>1, <1>5, <1>6, <1>7, <1>9, <1>10 DEF TypeOK
<1>12. PlaceInv'
  <2>1. payloads[job].of \notin {"none", "running", "config"}
    BY <1>4
  <2> QED BY <2>1, <1>1, <1>5, <1>6 DEF IInv, PlaceInv, Active, At, Attached, Closing
<1>13. PoolInv'
  <2>1. ~pool'.dropping => Pending' = {}
    BY <1>3, <1>6, <1>7, <1>8, <1>9 DEF Pending
  <2> QED BY <2>1, <1>5, <1>6, <1>7 DEF PoolInv, Active, At
<1>14. PayloadInv'
  <2>1. PayloadInv
    BY DEF IInv
  <2> QED BY <2>1, <1>1, <1>6, <1>7, <1>8, <1>9 DEF PayloadInv, Encode, Transport, RequiresTransport
<1>15. LoopInv' /\ CountInv'
  BY <1>5 DEF LoopInv, CountInv, Looping, Submitting, Collecting
<1>16. YieldInv'
  <2>1. \A j \in Yielded : /\ j \in hooked /\ j \in Jobs /\ futures[j] = "finished"
                           /\ j \notin Range(completions)
    BY <1>1 DEF IInv, YieldInv, TypeOK
  <2>2. \A j \in Yielded : futures'[j] = "finished" /\ j \notin Range(completions')
    BY <2>1, <1>2, <1>8, <1>9, <1>10
  <2>3. EachResultOnce'
    <3>1. exp'.cancelled \/ canceller.overlaps
      BY <1>6
    <3> QED BY <3>1, <1>1, <1>7 DEF IInv, YieldInv, EachResultOnce
  <2> QED BY <2>1, <2>2, <2>3, <1>1, <1>7 DEF YieldInv
<1>17. ResultInv'
  <2>1. futures'[job] = "failed"
    BY <1>2, <1>8, <1>9
  <2> QED BY <2>1, <1>1, <1>2, <1>4, <1>5, <1>7 DEF ResultInv
<1> QED BY <1>10, <1>11, <1>12, <1>13, <1>14, <1>15, <1>16, <1>17 DEF IInv

\* completion_queue.get() and what follows.
LEMMA CollectStep ==
  ASSUME IInv, Collect PROVE IInv'
<1>1. CASE coord.expects = 0
  BY <1>1, CollectReturns
<1>2. CASE coord.expects # 0
  <2>1. completions # <<>> /\ At("collect")
    BY <1>2 DEF Collect
  <2>2. futures[Head(completions)] \in {"finished", "failed", "cancelled"}
    BY <2>1, NextCompletion
  <2> QED BY <1>2, <2>1, <2>2, CollectCancelled, CollectFinished, CollectFailed
<1> QED BY <1>1, <1>2

-----------------------------------------------------------------------------
(* The theorems. *)

\* The invariant holds before the first iteration.
LEMMA InvInit ==
  ASSUME Init PROVE IInv
<1>1. /\ \A j \in Jobs : futures[j] = "none"
      /\ futures \in [Jobs -> FutureStates] /\ payloads \in [Jobs -> Payloads]
  BY DEF Init, FutureStates, Payloads, NoPayload
<1>2. Pending = {} /\ Running = {}
  BY <1>1 DEF Pending, Running
<1>3. TypeOK
  <2>1. MaxRounds \in Nat /\ MaxCancels \in Nat
    BY ReplicateAssumption
  <2>2. completions \in Seq(Jobs) /\ yielded \in Seq([job : Jobs, value : Returned])
    BY DEF Init
  <2> QED BY <1>1, <2>1, <2>2 DEF Init, TypeOK, FreshPool, Points
<1>4. PlaceInv
  BY DEF Init, PlaceInv, Active, At, Attached, Closing
<1>5. PoolInv
  BY <1>2 DEF Init, PoolInv, FreshPool, Active, At
<1>6. PayloadInv /\ ResultInv
  BY <1>1 DEF Init, PayloadInv, ResultInv
<1>7. QueueInv
  BY DEF Init, QueueInv, IsInjective, Range
<1>8. LoopInv /\ CountInv
  BY DEF Init, LoopInv, CountInv, Looping, Submitting, Collecting
<1>9. YieldInv
  <2>1. yielded = <<>> /\ Len(<<>>) = 0 /\ DOMAIN <<>> = {} /\ Cardinality({}) = 0
    BY FS_EmptySet DEF Init
  <2>2. Yielded = {}
    BY <2>1 DEF Yielded
  <2> QED BY <2>1, <2>2 DEF YieldInv, EachResultOnce
<1> QED BY <1>3, <1>4, <1>5, <1>6, <1>7, <1>8, <1>9 DEF IInv

\* Every step keeps it.
LEMMA InvStep ==
  ASSUME IInv, [Next]_vars PROVE IInv'
<1>1. CASE Executor
  BY <1>1, WorkerTakesStep, WorkerFinishesStep, DropPendingStep DEF Executor
<1>2. CASE Generator
  BY <1>2, BeginStep, AttachTokenStep, AttachExecutorStep, CheckCancelledStep, SubmitStep,
     HookFutureStep, CollectStep, ClearTokenStep, ClearExecutorStep, ShutDownStep, JoinStep
     DEF Generator
<1>3. CASE Consumer
  BY <1>3, GoOnStep, CancelAndGoOnStep, BreakOffStep, RunAgainStep DEF Consumer
<1>4. CASE CancelThread
  BY <1>4, CancelFlagStep, CancelSeesTokenStep, CancelFiresStep, CancelSeesExecutorStep,
     CancelShutsStep, CancelAgainStep DEF CancelThread
<1>5. CASE UNCHANGED vars
  <2>1. /\ UNCHANGED <<study, workVars, yielded>> /\ UNCHANGED <<exp, pool, coord, canceller, left>>
        /\ futures' = futures
    BY <1>5 DEF vars, workVars
  <2>2. Excused' = Excused /\ Looping' = Looping /\ Active' = Active
    BY <2>1 DEF Excused, Looping, Active, At
  <2>3. TypeOK'
    <3>1. /\ study' = study /\ exp' = exp /\ pool' = pool /\ futures' = futures
          /\ payloads' = payloads /\ hooked' = hooked /\ completions' = completions
          /\ coord' = coord /\ canceller' = canceller /\ yielded' = yielded /\ left' = left
          /\ TypeOK
      BY <1>5 DEF vars, IInv
    <3> QED BY <3>1, <2>1, StillWork DEF TypeOK
  <2>4. PlaceInv'
    BY <2>1 DEF IInv, PlaceInv, Active, At
  <2>5. PoolInv'
    BY <2>1, <2>2, StillWork DEF IInv, PoolInv, At
  <2>6. LoopInv'
    BY <2>1, <2>2, StillLoop DEF At
  <2>7. CountInv'
    BY <2>1, StillWork, StillCount DEF workVars
  <2>8. PayloadInv' /\ QueueInv' /\ YieldInv' /\ ResultInv'
    BY <2>1, <2>2, StillInv
  <2> QED BY <2>3, <2>4, <2>5, <2>6, <2>7, <2>8 DEF IInv
<1> QED BY <1>1, <1>2, <1>3, <1>4, <1>5 DEF Next

\* The inductive invariant: what the generator expects is what is outstanding,
\* and every other future it hooked was dropped by a cancel or yielded.
THEOREM Invariance == Spec => []IInv
<1>1. Init => IInv
  BY InvInit
<1>2. IInv /\ [Next]_vars => IInv'
  BY InvStep
<1> QED BY <1>1, <1>2, PTL DEF Spec

\* Every variable keeps its type.
THEOREM TypeCorrect == Spec => []TypeOK
<1>1. IInv => TypeOK
  BY DEF IInv
<1> QED BY <1>1, Invariance, PTL

\* Each result is yielded exactly once, and is what its factory returned, or
\* what a factory made of a cancelled token (iter_results, _decode_payload).
THEOREM EachResultIsYieldedOnce == Spec => []EachResultOnce
<1>1. IInv => EachResultOnce
  BY DEF IInv, YieldInv
<1> QED BY <1>1, Invariance, PTL

\* An iteration that has ended yielded everything, or was cancelled or broken
\* off, or names the replication that failed; and it leaves no work behind.
THEOREM IterationIsAllOrNothing == Spec => []AllOrNothing
<1>1. IInv => AllOrNothing
  <2> SUFFICES ASSUME IInv, At("ended") PROVE AllOrNothing
    BY DEF AllOrNothing
  <2>1. Pending = {} /\ Running = {}
    BY DEF IInv, PoolInv, Active, At
  <2>2. coord.result = "returned" =>
              /\ \A j \in Jobs : futures[j] # "failed"
              /\ {j \in Jobs : futures[j] = "finished"} = Yielded
              /\ Yielded = Jobs \/ exp.cancelled \/ canceller.overlaps
    BY DEF IInv, ResultInv, Excused
  <2>3. coord.result \in {"replication", "transport"} =>
              /\ futures[coord.blames] = "failed"
              /\ coord.result = "replication" <=> study.outcomes[coord.blames] = "raises"
    BY DEF IInv, ResultInv
  <2>4. coord.result = "config" => \A j \in Jobs : j \notin Yielded
    BY DEF IInv, PlaceInv, Yielded
  <2> QED BY <2>1, <2>2, <2>3, <2>4 DEF AllOrNothing
<1> QED BY <1>1, Invariance, PTL

\* After a cancel() that began in this iteration has returned, nothing is
\* submitted: either the flag is seen or the executor refuses (iter_results).
THEOREM CancelIsQuiet == Spec => QuietAfterCancel
<1>1. ASSUME IInv, [Next]_vars, canceller.at = "returned", canceller.began,
             NEW j \in Jobs, futures[j] = "none"
      PROVE  futures'[j] # "pending"
  <2>1. exp.cancelled /\ (At("submit") => pool.shut)
    BY <1>1 DEF IInv, PlaceInv
  <2>2. j \notin Pending /\ j \notin Running
    BY <1>1 DEF Pending, Running
  <2>3. futures \in [Jobs -> FutureStates]
    BY <1>1 DEF IInv, TypeOK
  <2>4. CASE UNCHANGED futures
    BY <2>4, <1>1
  <2>5. CASE WorkerTakes \/ WorkerFinishes \/ DropPending
    BY <2>5, <2>2, <2>3, <1>1 DEF WorkerTakes, WorkerFinishes, RunReplication, DropPending
  <2>6. CASE Begin
    BY <2>6, <2>3, <1>1 DEF Begin
  <2>7. CASE Submit
    BY <2>7, <2>1, <1>1 DEF Submit
  <2>8. CASE Collect \/ ShutDown \/ CancelAndGoOn \/ CancelShuts
    BY <2>8, <2>3, <1>1 DEF Collect, ShutDown, CancelAndGoOn, CancelShuts, CancelHere, Shut, workVars
  <2> QED
    BY <1>1, <2>4, <2>5, <2>6, <2>7, <2>8 DEF Next, Executor, Generator, Consumer, CancelThread,
       vars, workVars, AttachToken, AttachExecutor, CheckCancelled, HookFuture, ClearToken,
       ClearExecutor, Join, GoOn, BreakOff, RunAgain, CancelFlag, CancelSeesToken, CancelFires,
       CancelSeesExecutor, CancelAgain
<1>2. IInv /\ [Next]_vars =>
        [ canceller.at = "returned" /\ canceller.began
            => \A j \in Jobs : futures[j] = "none" => futures'[j] # "pending" ]_vars
  BY <1>1
<1> QED BY <1>2, Invariance, PTL DEF Spec, QuietAfterCancel

=============================================================================
