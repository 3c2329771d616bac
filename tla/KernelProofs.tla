----------------------------- MODULE KernelProofs -----------------------------
(***************************************************************************)
(* The kernel: who wakes whom, what stops a run, where failures go and     *)
(* when a condition fires, for every number of events, processes, calls    *)
(* and runs.                                                               *)
(***************************************************************************)
EXTENDS KernelInvariant, FiniteSetTheorems, SequenceTheorems, WellFoundedInduction, TLAPS

-----------------------------------------------------------------------------
\* The least-number principle: it stands in for induction in the proofs about
\* recursive functions.
LEMMA LeastNatural ==
  ASSUME NEW S \in SUBSET Nat, S # {}
  PROVE  \E x \in S : \A y \in S : x <= y
<1>1. PICK x \in S : \A y \in S : <<y, x>> \notin OpToRel(<, Nat)
  BY NatLessThanWellFounded, WFMin
<1>2. \A y \in S : ~(y < x)
  BY <1>1 DEF OpToRel
<1>3. \A y \in S : x <= y
  <2> SUFFICES ASSUME NEW y \in S PROVE x <= y
    OBVIOUS
  <2>1. ~(y < x) /\ x \in Nat /\ y \in Nat
    BY <1>2
  <2> QED BY ONLY <2>1
<1> QED BY <1>3

\* Min returns the least element of a nonempty set of naturals.
LEMMA MinIsLeast ==
  ASSUME NEW S \in SUBSET Nat, S # {}
  PROVE  Min(S) \in S /\ \A y \in S : Min(S) <= y
BY LeastNatural DEF Min

-----------------------------------------------------------------------------
(* Sequences of calls. *)

LEMMA RangeOfCalls ==
  ASSUME NEW S, NEW a \in Seq(S)
  PROVE  \A x : x \in Range(a) <=> (\E i \in 1 .. Len(a) : a[i] = x)
BY DEF Range

LEMMA OccurrencesOfCalls ==
  ASSUME NEW S, NEW a \in Seq(S)
  PROVE  \A x : x \in Range(a) <=> (Occurrences(x, a) # {})
BY DEF Range, Occurrences

LEMMA AppendCall ==
  ASSUME NEW S, NEW a \in Seq(S), NEW x \in S, NEW call
  PROVE  /\ Append(a, x) \in Seq(S)
         /\ Range(Append(a, x)) = Range(a) \cup {x}
         /\ x # call => Same(call, a, Append(a, x)) /\ Occurrences(call, Append(a, x)) = Occurrences(call, a)
         /\ x = call /\ Occurrences(call, a) = {} => Single(Occurrences(call, Append(a, x)))
<1> DEFINE b == Append(a, x)
<1>1. /\ b \in Seq(S) /\ Len(b) = Len(a) + 1 /\ Len(a) \in Nat
      /\ \A i \in 1 .. Len(a) : b[i] = a[i]
      /\ b[Len(a) + 1] = x
      /\ DOMAIN a = 1 .. Len(a) /\ DOMAIN b = 1 .. (Len(a) + 1)
  OBVIOUS
<1> HIDE DEF b
<1>2. Range(b) = Range(a) \cup {x}
  BY <1>1 DEF Range
<1>3. x # call => Occurrences(call, b) = Occurrences(call, a)
  BY <1>1 DEF Occurrences
<1>4. x = call /\ Occurrences(call, a) = {} => Occurrences(call, b) = {Len(a) + 1}
  BY <1>1 DEF Occurrences
<1> QED BY <1>1, <1>2, <1>3, <1>4 DEF b, Same, Single

LEMMA TailCall ==
  ASSUME NEW S, NEW a \in Seq(S), a # <<>>, NEW call
  PROVE  /\ Tail(a) \in Seq(S) /\ Head(a) \in S /\ Head(a) \in Range(a)
         /\ Range(Tail(a)) \subseteq Range(a)
         /\ Head(a) # call => Same(call, a, Tail(a))
         /\ Occurrences(call, a) = {} => Occurrences(call, Tail(a)) = {}
         /\ Head(a) = call /\ Single(Occurrences(call, a)) => Occurrences(call, Tail(a)) = {}
<1> DEFINE b == Tail(a)
<1>1. /\ b \in Seq(S) /\ Len(b) = Len(a) - 1 /\ Len(a) \in Nat \ {0}
      /\ \A i \in 1 .. Len(b) : b[i] = a[i + 1]
      /\ Head(a) = a[1] /\ a[1] \in S
      /\ DOMAIN a = 1 .. Len(a) /\ DOMAIN b = 1 .. Len(b)
  OBVIOUS
<1> HIDE DEF b
<1>2. Range(b) \subseteq Range(a) /\ Head(a) \in Range(a)
  BY <1>1, SMTT(30) DEF Range
<1>3. \A i \in Occurrences(call, b) : i + 1 \in Occurrences(call, a)
  BY <1>1 DEF Occurrences
<1>4. \A i \in Occurrences(call, a) : i # 1 => i - 1 \in Occurrences(call, b)
  BY <1>1 DEF Occurrences
<1>5. Occurrences(call, a) \subseteq Nat /\ Occurrences(call, b) \subseteq Nat \ {0}
  BY <1>1 DEF Occurrences
<1>6. 1 \in Occurrences(call, a) <=> Head(a) = call
  BY <1>1 DEF Occurrences
<1>7. Occurrences(call, a) = {} => Occurrences(call, b) = {}
  BY <1>3
<1>8. ASSUME Head(a) # call, Single(Occurrences(call, a)) PROVE Single(Occurrences(call, b))
  <2>1. PICK i : Occurrences(call, a) = {i}
    BY <1>8 DEF Single
  <2>2. i # 1 /\ i \in Nat
    BY <1>5, <1>6, <1>8, <2>1
  <2>3. i - 1 \in Occurrences(call, b)
    BY <1>4, <2>1, <2>2
  <2>4. \A j \in Occurrences(call, b) : j = i - 1
    BY <1>3, <1>5, <2>1, <2>2
  <2> QED BY <2>3, <2>4 DEF Single
<1>9. Head(a) = call /\ Single(Occurrences(call, a)) => Occurrences(call, b) = {}
  BY <1>3, <1>5, <1>6 DEF Single
<1>10. Head(a) # call /\ call \in Range(a) => call \in Range(b)
  <2>1. \A c : c \in Range(a) => \E i \in 1 .. Len(a) : a[i] = c
    BY <1>1 DEF Range
  <2>2. \A i \in 1 .. Len(a) : i # 1 => a[i] = b[i - 1] /\ i - 1 \in 1 .. Len(b)
    BY <1>1
  <2>3. ASSUME call \in Range(a), Head(a) # call PROVE call \in Range(b)
    <3>1. PICK i \in 1 .. Len(a) : a[i] = call
      BY <2>1, <2>3
    <3>2. i # 1 /\ i - 1 \in 1 .. Len(b) /\ b[i - 1] = call
      BY <1>1, <2>2, <2>3, <3>1
    <3>3. DOMAIN b = 1 .. Len(b)
      BY <1>1
    <3> QED BY <3>2, <3>3 DEF Range
  <2> QED BY <2>3
<1> QED BY <1>1, <1>2, <1>7, <1>8, <1>9, <1>10 DEF b, Same

LEMMA RemoveAtIndex ==
  ASSUME NEW S, NEW a \in Seq(S), NEW i \in 1 .. Len(a)
  PROVE  /\ RemoveAt(a, i) \in Seq(S) /\ Len(RemoveAt(a, i)) = Len(a) - 1
         /\ \A j \in 1 .. Len(a) - 1 : RemoveAt(a, i)[j] = a[IF j < i THEN j ELSE j + 1]
<1> DEFINE b == SubSeq(a, 1, i - 1)
           c == SubSeq(a, i + 1, Len(a))
<1>1. /\ b \in Seq(S) /\ Len(b) = i - 1 /\ \A j \in 1 .. i - 1 : b[j] = a[j]
  OBVIOUS
<1>2. /\ c \in Seq(S) /\ Len(c) = Len(a) - i /\ \A j \in 1 .. Len(a) - i : c[j] = a[i + j]
  OBVIOUS
<1>3. RemoveAt(a, i) = b \o c
  BY DEF RemoveAt
<1> HIDE DEF b, c
<1>4. b \o c \in Seq(S) /\ Len(b \o c) = Len(a) - 1
  <2>1. b \o c \in Seq(S) /\ Len(b \o c) = Len(b) + Len(c)
    BY <1>1, <1>2, ConcatProperties
  <2>2. i \in Int /\ Len(a) \in Int
    OBVIOUS
  <2> QED
    BY <1>1, <1>2, <2>1, <2>2
<1>5. \A j \in 1 .. Len(a) - 1 : (b \o c)[j] = IF j < i THEN b[j] ELSE c[j - (i - 1)]
  BY <1>1, <1>2
<1>6. \A j \in 1 .. Len(a) - 1 : (b \o c)[j] = a[IF j < i THEN j ELSE j + 1]
  <2> TAKE j \in 1 .. Len(a) - 1
  <2>1. CASE j < i
    BY <1>1, <1>5, <2>1
  <2>2. CASE ~(j < i)
    <3>1. j - (i - 1) \in 1 .. Len(a) - i /\ i + (j - (i - 1)) = j + 1
      BY <2>2
    <3> QED BY <1>2, <1>5, <2>2, <3>1
  <2> QED BY <2>1, <2>2
<1> QED BY <1>3, <1>4, <1>6

LEMMA RemoveFirstCall ==
  ASSUME NEW S, NEW a \in Seq(S), NEW x \in S, NEW call
  PROVE  /\ RemoveFirst(a, x) \in Seq(S)
         /\ Range(RemoveFirst(a, x)) \subseteq Range(a)
         /\ x # call => Same(call, a, RemoveFirst(a, x))
         /\ Occurrences(call, a) = {} => Occurrences(call, RemoveFirst(a, x)) = {}
         /\ x = call /\ Single(Occurrences(call, a)) => Occurrences(call, RemoveFirst(a, x)) = {}
<1>1. CASE \A i \in 1 .. Len(a) : a[i] # x
  <2>1. RemoveFirst(a, x) = a
    BY <1>1 DEF RemoveFirst
  <2>2. Occurrences(x, a) = {}
    BY <1>1 DEF Occurrences
  <2> QED BY <2>1, <2>2 DEF Same, Single
<1>2. CASE \E i \in 1 .. Len(a) : a[i] = x
  <2> DEFINE I == {i \in 1 .. Len(a) : a[i] = x}
             k == Min(I)
             b == RemoveAt(a, k)
  <2>1. k \in 1 .. Len(a) /\ a[k] = x
    <3>1. I \in SUBSET Nat /\ I # {}
      BY <1>2
    <3>2. k \in I
      BY <3>1, MinIsLeast
    <3> QED BY <3>2
  <2>2. RemoveFirst(a, x) = b
    BY <1>2 DEF RemoveFirst, SelectInSeq
  <2> HIDE DEF k
  <2>3. /\ b \in Seq(S) /\ Len(b) = Len(a) - 1 /\ Len(a) \in Nat
        /\ \A j \in 1 .. Len(a) - 1 : b[j] = a[IF j < k THEN j ELSE j + 1]
    BY <2>1, RemoveAtIndex
  <2>4. DOMAIN b = 1 .. (Len(a) - 1) /\ DOMAIN a = 1 .. Len(a)
    BY <2>3
  <2> HIDE DEF b
  <2>5. Range(b) \subseteq Range(a)
    BY <2>1, <2>3, <2>4 DEF Range
  <2>6. \A j \in Occurrences(call, b) : (IF j < k THEN j ELSE j + 1) \in Occurrences(call, a) \ {k}
    BY <2>1, <2>3, <2>4 DEF Occurrences
  <2>7. \A j \in Occurrences(call, a) \ {k} : (IF j < k THEN j ELSE j - 1) \in Occurrences(call, b)
    BY <2>1, <2>3, <2>4 DEF Occurrences
  <2>8. Occurrences(call, a) \subseteq Nat /\ Occurrences(call, b) \subseteq Nat /\ k \in Nat
    BY <2>1, <2>3, <2>4 DEF Occurrences
  <2>9. x # call => k \notin Occurrences(call, a)
    BY <2>1 DEF Occurrences
  <2>10. x = call => k \in Occurrences(call, a)
    BY <2>1, <2>4 DEF Occurrences
  <2>11. Occurrences(call, a) = {} => Occurrences(call, b) = {}
    BY <2>6
  <2>12. ASSUME x # call, Single(Occurrences(call, a)) PROVE Single(Occurrences(call, b))
    <3>1. PICK i : Occurrences(call, a) = {i}
      BY <2>12 DEF Single
    <3>2. i # k /\ i \in Nat
      BY <2>8, <2>9, <2>12, <3>1
    <3>3. (IF i < k THEN i ELSE i - 1) \in Occurrences(call, b)
      BY <2>7, <3>1, <3>2
    <3>4. \A j \in Occurrences(call, b) : j = IF i < k THEN i ELSE i - 1
      BY <2>6, <2>8, <3>1, <3>2
    <3> QED BY <3>3, <3>4 DEF Single
  <2>13. x = call /\ Single(Occurrences(call, a)) => Occurrences(call, b) = {}
    BY <2>6, <2>10 DEF Single
  <2>14. x # call /\ call \in Range(a) => call \in Range(b)
    <3>1. call \in Range(a) <=> Occurrences(call, a) # {}
      BY OccurrencesOfCalls
    <3>2. call \in Range(b) <=> Occurrences(call, b) # {}
      BY <2>3, OccurrencesOfCalls
    <3> QED BY <2>7, <2>9, <3>1, <3>2
  <2> QED BY <2>2, <2>3, <2>5, <2>11, <2>12, <2>13, <2>14 DEF Same
<1> QED BY <1>1, <1>2

\* The recursion of Without.
Keeps(kept, calls, dropped) ==
  kept = [i \in 0 .. Len(calls) |->
            IF i = 0 THEN <<>>
            ELSE IF calls[i] \in dropped THEN kept[i - 1] ELSE Append(kept[i - 1], calls[i])]

KeepsUpTo(kept, n, calls, dropped) ==
  kept = [i \in 0 .. n |->
            IF i = 0 THEN <<>>
            ELSE IF calls[i] \in dropped THEN kept[i - 1] ELSE Append(kept[i - 1], calls[i])]

LEMMA KeptExists ==
  ASSUME NEW S, NEW calls \in Seq(S), NEW dropped
  PROVE  \E kept : Keeps(kept, calls, dropped) /\ Without(calls, dropped) = kept[Len(calls)]
<1> DEFINE Bad == {n \in Nat : n <= Len(calls) /\ ~ \E g : KeepsUpTo(g, n, calls, dropped)}
<1>1. Bad = {}
  <2> SUFFICES ASSUME Bad # {} PROVE FALSE
    OBVIOUS
  <2>1. PICK n \in Bad : \A k \in Bad : n <= k
    BY LeastNatural
  <2>2. n # 0
    <3> DEFINE g == [i \in 0 .. 0 |-> <<>>]
    <3>1. KeepsUpTo(g, 0, calls, dropped)
      BY DEF KeepsUpTo
    <3> QED BY <3>1
  <2>3. n \in Nat /\ n - 1 \in Nat /\ n - 1 <= Len(calls) /\ n - 1 \notin Bad
    BY <2>1, <2>2
  <2>4. PICK f : KeepsUpTo(f, n - 1, calls, dropped)
    BY <2>3
  <2> DEFINE next == IF calls[n] \in dropped THEN f[n - 1] ELSE Append(f[n - 1], calls[n])
             g == [i \in 0 .. n |-> IF i < n THEN f[i] ELSE next]
  <2>5. \A i \in 0 .. n - 1 : g[i] = f[i]
    BY <2>3
  <2>6. g[n] = next
    BY <2>3
  <2>7. \A i \in 0 .. n - 1 :
          f[i] = IF i = 0 THEN <<>>
                 ELSE IF calls[i] \in dropped THEN f[i - 1] ELSE Append(f[i - 1], calls[i])
    BY <2>4 DEF KeepsUpTo
  <2> HIDE DEF next
  <2>8. \A i \in 0 .. n :
          g[i] = IF i = 0 THEN <<>>
                 ELSE IF calls[i] \in dropped THEN g[i - 1] ELSE Append(g[i - 1], calls[i])
    <3> TAKE i \in 0 .. n
    <3>1. CASE i = 0
      BY <2>2, <2>3, <2>5, <2>7, <3>1
    <3>2. CASE i # 0 /\ i < n
      <4>1. i \in 0 .. n - 1 /\ i - 1 \in 0 .. n - 1
        BY <2>3, <3>2
      <4>2. g[i] = f[i] /\ g[i - 1] = f[i - 1]
        BY <2>5, <4>1
      <4> HIDE DEF g
      <4> QED BY <2>7, <3>2, <4>1, <4>2
    <3>3. CASE i = n
      <4>1. g[n - 1] = f[n - 1]
        BY <2>3, <2>5
      <4> HIDE DEF g
      <4> QED BY <2>2, <2>6, <3>3, <4>1 DEF next
    <3> QED BY <2>3, <3>1, <3>2, <3>3
  <2>9. KeepsUpTo(g, n, calls, dropped)
    <3>1. g = [i \in 0 .. n |-> g[i]]
      OBVIOUS
    <3> HIDE DEF g
    <3> QED BY <2>8, <3>1 DEF KeepsUpTo
  <2> QED BY <2>1, <2>9
<1>2. \E g : Keeps(g, calls, dropped)
  <2>1. Len(calls) \notin Bad /\ Len(calls) \in Nat
    BY <1>1
  <2>2. PICK g : KeepsUpTo(g, Len(calls), calls, dropped)
    BY <2>1
  <2> QED BY <2>2 DEF KeepsUpTo, Keeps
<1> DEFINE kept == CHOOSE g : Keeps(g, calls, dropped)
<1>3. Keeps(kept, calls, dropped)
  BY <1>2
<1>4. Without(calls, dropped) = kept[Len(calls)]
  BY DEF Without, Keeps
<1> HIDE DEF kept
<1> QED BY <1>3, <1>4

LEMMA FilterDrops ==
  ASSUME NEW S, NEW a \in Seq(S), NEW b \in Seq(S), NEW x \in S, NEW dropped,
         x \in dropped, Filtered(a, b, dropped)
  PROVE  Filtered(Append(a, x), b, dropped)
<1> DEFINE c == Append(a, x)
<1>1. Range(c) = Range(a) \cup {x}
  BY AppendCall
<1>2. \A call : x # call => Occurrences(call, c) = Occurrences(call, a)
  BY AppendCall
<1> HIDE DEF c
<1>3. \A call : call \notin dropped => Occurrences(call, c) = Occurrences(call, a)
  BY <1>2
<1> QED BY <1>1, <1>3 DEF Filtered, c

LEMMA FilterKeeps ==
  ASSUME NEW S, NEW a \in Seq(S), NEW b \in Seq(S), NEW x \in S, NEW dropped,
         x \notin dropped, Filtered(a, b, dropped)
  PROVE  Filtered(Append(a, x), Append(b, x), dropped)
<1> DEFINE c == Append(a, x)
           d == Append(b, x)
<1>1. Range(c) = Range(a) \cup {x} /\ Range(d) = Range(b) \cup {x}
  BY AppendCall
<1>2. \A call : x # call =>
        Occurrences(call, c) = Occurrences(call, a) /\ Occurrences(call, d) = Occurrences(call, b)
  BY AppendCall
<1>3. Occurrences(x, b) = {} => Single(Occurrences(x, d))
  BY AppendCall
<1>4. x \in Range(c)
  BY <1>1
<1>5. c \in Seq(S) /\ d \in Seq(S) /\ Len(c) = Len(a) + 1
  OBVIOUS
<1>6. Occurrences(x, c) = Occurrences(x, a) \cup {Len(a) + 1}
  BY DEF Occurrences
<1>7. Len(a) + 1 \notin Occurrences(x, a)
  BY DEF Occurrences
<1> HIDE DEF c, d
<1>8. Single(Occurrences(x, c)) => Occurrences(x, a) = {}
  BY <1>6, <1>7 DEF Single
<1>9. ASSUME NEW call, call \notin dropped
      PROVE  /\ Occurrences(call, c) = {} => Occurrences(call, d) = {}
             /\ Single(Occurrences(call, c)) => Single(Occurrences(call, d))
             /\ call \in Range(c) => call \in Range(d)
  <2>1. CASE call = x
    BY <1>1, <1>3, <1>6, <1>8, <1>9, <2>1 DEF Filtered
  <2>2. CASE call # x
    BY <1>1, <1>2, <1>9, <2>2 DEF Filtered
  <2> QED BY <2>1, <2>2
<1> QED BY <1>1, <1>9 DEF Filtered, c, d

LEMMA WithoutCalls ==
  ASSUME NEW S, NEW calls \in Seq(S), NEW dropped
  PROVE  /\ Without(calls, dropped) \in Seq(S)
         /\ Filtered(calls, Without(calls, dropped), dropped)
<1>1. PICK kept : Keeps(kept, calls, dropped) /\ Without(calls, dropped) = kept[Len(calls)]
  BY KeptExists
<1> DEFINE Good(n) == /\ kept[n] \in Seq(S)
                      /\ Filtered(SubSeq(calls, 1, n), kept[n], dropped)
           Bad == {n \in Nat : n <= Len(calls) /\ ~Good(n)}
<1>2. Bad = {}
  <2> SUFFICES ASSUME Bad # {} PROVE FALSE
    OBVIOUS
  <2>1. PICK n \in Bad : \A k \in Bad : n <= k
    BY LeastNatural
  <2>2. Good(0)
    <3>1. kept[0] = <<>>
      BY <1>1 DEF Keeps
    <3>2. SubSeq(calls, 1, 0) = <<>>
      OBVIOUS
    <3>3. Filtered(<<>>, <<>>, dropped)
      BY DEF Filtered, Range, Occurrences
    <3>4. kept[0] \in Seq(S)
      BY <3>1
    <3> HIDE DEF Bad
    <3> QED BY <3>1, <3>2, <3>3, <3>4
  <2>3. n \in Nat \ {0} /\ n - 1 \in Nat /\ n - 1 <= Len(calls) /\ n \in 1 .. Len(calls)
    BY <2>1, <2>2
  <2>4. Good(n - 1)
    BY <2>1, <2>3
  <2> DEFINE a == SubSeq(calls, 1, n - 1)
             b == kept[n - 1]
             x == calls[n]
  <2>5. a \in Seq(S) /\ b \in Seq(S) /\ x \in S
    BY <2>3, <2>4
  <2>6. SubSeq(calls, 1, n) = Append(a, x)
    BY <2>3
  <2>7. kept[n] = IF x \in dropped THEN b ELSE Append(b, x)
    <3>1. \A i \in 0 .. Len(calls) :
            kept[i] = IF i = 0 THEN <<>>
                      ELSE IF calls[i] \in dropped THEN kept[i - 1] ELSE Append(kept[i - 1], calls[i])
      BY <1>1 DEF Keeps
    <3>2. n \in 0 .. Len(calls) /\ n # 0
      BY <2>3
    <3> HIDE DEF Bad
    <3> QED BY <3>1, <3>2
  <2>8. Filtered(a, b, dropped)
    BY <2>4
  <2> HIDE DEF a, b, x
  <2>9. CASE x \in dropped
    <3>1. Filtered(Append(a, x), b, dropped)
      BY <2>5, <2>8, <2>9, FilterDrops
    <3> QED BY <2>1, <2>5, <2>6, <2>7, <2>9, <3>1
  <2>10. CASE x \notin dropped
    <3>1. Filtered(Append(a, x), Append(b, x), dropped)
      BY <2>5, <2>8, <2>10, FilterKeeps
    <3>2. Append(b, x) \in Seq(S)
      BY <2>5
    <3> QED BY <2>1, <2>6, <2>7, <2>10, <3>1, <3>2
  <2> QED BY <2>9, <2>10
<1>3. Good(Len(calls))
  BY <1>2
<1>4. SubSeq(calls, 1, Len(calls)) = calls
  OBVIOUS
<1> QED BY <1>1, <1>3, <1>4

-----------------------------------------------------------------------------
(* Time. *)

LEMMA PlusTimes ==
  ASSUME NEW t \in Times, NEW d \in Times
  PROVE  Plus(t, d) \in Times /\ Plus(t, d) >= t /\ (d = 0 => Plus(t, d) = t)
<1>1. /\ t \in Nat /\ d \in Nat /\ t <= Infinity /\ d <= Infinity /\ Infinity \in Nat
      /\ Round(t) = t /\ Round(Infinity) = Infinity
  BY TimeAssumption, RoundAssumption DEF Times
<1>2. Round(t + d) \in Nat /\ t <= Round(t + d)
  BY <1>1, RoundAssumption
<1>3. t + d <= Infinity => Round(Round(t + d)) = Round(t + d)
  BY <1>1, RoundAssumption
<1>4. t + d > Infinity => Round(t + d) >= Infinity
  BY <1>1, RoundAssumption
<1> QED BY <1>1, <1>2, <1>3, <1>4 DEF Plus, Times

LEMMA MinusTimes ==
  ASSUME NEW t \in Times, NEW u \in Times, u <= t
  PROVE  Minus(t, u) \in Times
<1>1. t - u \in 0 .. Infinity
  BY TimeAssumption DEF Times
<1>2. Round(t - u) \in Nat /\ Round(t - u) <= Round(Infinity)
  BY <1>1, TimeAssumption, RoundAssumption
<1> QED BY <1>1, <1>2, TimeAssumption, RoundAssumption DEF Times, Minus

LEMMA TimesAreNatural == Times \subseteq Nat /\ 0 \in Times
BY TimeAssumption, RoundAssumption DEF Times

-----------------------------------------------------------------------------
(* One Sim: what a single assignment does to it. *)

LEMMA SimFields ==
  ASSUME NEW s \in SimType
  PROVE  /\ s.now \in Times /\ s.now \in Nat /\ s.active \in Nat
         /\ s.queue \in Seq(EntryType) /\ s.events \in Seq(EventType)
         /\ DOMAIN s.events = 1 .. Len(s.events) /\ DOMAIN s.queue = 1 .. Len(s.queue)
         /\ Len(s.events) \in Nat /\ Len(s.queue) \in Nat
         /\ \A e \in DOMAIN s.events : s.events[e] \in EventType
         /\ \A i \in DOMAIN s.queue : s.queue[i] \in EntryType
<1>1. s.now \in Times /\ s.now \in Nat
  BY TimesAreNatural DEF SimType
<1> QED BY <1>1 DEF SimType

LEMMA EntryFits ==
  ASSUME NEW s \in SimType, NEW delay \in Times, NEW prio \in {URGENT, NORMAL}, NEW task \in CallType
  PROVE  /\ [at |-> Plus(s.now, delay), prio |-> prio, task |-> task] \in EntryType
         /\ s.now \in Nat /\ Plus(s.now, delay) \in Nat /\ Plus(s.now, delay) >= s.now
         /\ Plus(s.now, 0) = s.now
<1>1. s.now \in Times /\ 0 \in Times /\ Times \subseteq Nat
  BY TimesAreNatural DEF SimType
<1>2. Plus(s.now, delay) \in Times /\ Plus(s.now, delay) >= s.now /\ Plus(s.now, 0) = s.now
  BY <1>1, PlusTimes
<1> QED BY <1>1, <1>2 DEF EntryType

LEMMA CallsFit ==
  ASSUME NEW s \in SimType, NEW t \in SimType, NEW e \in DOMAIN s.events, NEW call, CallOK(s, e, call),
         DOMAIN s.events \subseteq DOMAIN t.events,
         \A f \in DOMAIN s.events : /\ t.events[f].type = s.events[f].type
                                    /\ t.events[f].members = s.events[f].members
  PROVE  CallOK(t, e, call)
BY DEF CallOK, Processes, Conditions

\* The entries of the queue are fit for t.
LEMMA EntriesFit ==
  ASSUME NEW s \in SimType, NEW t \in SimType, NEW entry, EntryOK(s, entry), t.now = s.now,
         DOMAIN s.events \subseteq DOMAIN t.events,
         \A f \in DOMAIN s.events :
            /\ t.events[f].type = s.events[f].type
            /\ s.events[f].state # "pending" => t.events[f].state # "pending"
  PROVE  EntryOK(t, entry)
BY DEF EntryOK, Processes

LEMMA ReplaceEvent ==
  ASSUME NEW s, SimOK(s), NEW e \in DOMAIN s.events, NEW r \in EventType,
         r.type = s.events[e].type, r.members = s.events[e].members,
         r.processed => r.callbacks = <<>> /\ r.state # "pending",
         r.target \in {None} \cup DOMAIN s.events,
         s.events[e].state # "pending" => r.state # "pending",
         \A i \in DOMAIN r.callbacks : CallOK(s, e, r.callbacks[i])
  PROVE  /\ SimOK(Put(s, e, r))
         /\ DOMAIN Put(s, e, r).events = DOMAIN s.events
         /\ Put(s, e, r).events[e] = r
         /\ \A f \in DOMAIN s.events \ {e} : Put(s, e, r).events[f] = s.events[f]
         /\ Put(s, e, r).now = s.now /\ Put(s, e, r).queue = s.queue /\ Put(s, e, r).active = s.active
<1> DEFINE t == Put(s, e, r)
<1>1. s \in SimType
  BY DEF SimOK
<1>2. t = [s EXCEPT !.events = [s.events EXCEPT ![e] = r]]
  BY DEF Put
<1>3. [s.events EXCEPT ![e] = r] \in Seq(EventType)
  BY <1>1, SimFields, ExceptSeq
<1>4. t \in SimType
  BY <1>1, <1>2, <1>3 DEF SimType
<1>5. /\ DOMAIN t.events = DOMAIN s.events /\ t.events[e] = r
      /\ \A f \in DOMAIN s.events \ {e} : t.events[f] = s.events[f]
      /\ t.now = s.now /\ t.queue = s.queue /\ t.active = s.active
  BY <1>1, <1>2, SimFields DEF SimType
<1> HIDE DEF t
<1>6. \A f \in DOMAIN s.events : /\ t.events[f].type = s.events[f].type
                                 /\ t.events[f].members = s.events[f].members
                                 /\ s.events[f].state # "pending" => t.events[f].state # "pending"
  BY <1>5
<1>7. Processes(t) = Processes(s)
  BY <1>5, <1>6 DEF Processes
<1>8. \A f \in DOMAIN t.events : EventOK(t, f)
  <2> TAKE f \in DOMAIN t.events
  <2>1. \A call : CallOK(s, f, call) => CallOK(t, f, call)
    BY <1>1, <1>4, <1>5, <1>6, CallsFit
  <2>2. EventOK(s, f)
    BY <1>5 DEF SimOK
  <2>3. CASE f = e
    BY <1>5, <2>1, <2>2, <2>3 DEF EventOK
  <2>4. CASE f # e
    BY <1>5, <2>1, <2>2, <2>4 DEF EventOK
  <2> QED BY <2>3, <2>4
<1>9. \A i \in DOMAIN t.queue : EntryOK(t, t.queue[i])
  <2> TAKE i \in DOMAIN t.queue
  <2>1. EntryOK(s, s.queue[i])
    BY <1>5 DEF SimOK
  <2> QED BY <1>1, <1>4, <1>5, <1>6, <2>1, EntriesFit
<1>10. StartsFirst(t) /\ t.active \in {None} \cup Processes(t)
  BY <1>5, <1>7 DEF SimOK, StartsFirst
<1>11. SimOK(t)
  BY <1>4, <1>8, <1>9, <1>10 DEF SimOK
<1> QED BY <1>5, <1>11 DEF t

LEMMA AddEntry ==
  ASSUME NEW s, SimOK(s), NEW entry \in EntryType, EntryOK(s, entry),
         entry.task.do = "start" =>
           \A i \in DOMAIN s.queue : s.queue[i].task # Call("interrupt", entry.task.of)
  PROVE  LET t == [s EXCEPT !.queue = Append(@, entry)] IN
         /\ SimOK(t)
         /\ t.events = s.events /\ t.now = s.now /\ t.active = s.active
         /\ t.queue = Append(s.queue, entry)
<1> DEFINE t == [s EXCEPT !.queue = Append(@, entry)]
<1>1. s \in SimType
  BY DEF SimOK
<1>2. t \in SimType /\ t.events = s.events /\ t.now = s.now /\ t.active = s.active
        /\ t.queue = Append(s.queue, entry)
  <2>1. Append(s.queue, entry) \in Seq(EntryType)
    BY <1>1, SimFields, AppendCall
  <2>2. t = [s EXCEPT !.queue = Append(s.queue, entry)]
    OBVIOUS
  <2> HIDE DEF t
  <2> QED BY <1>1, <2>1, <2>2 DEF SimType
<1> HIDE DEF t
<1>3. /\ DOMAIN t.queue = 1 .. Len(s.queue) + 1 /\ DOMAIN s.queue = 1 .. Len(s.queue) /\ Len(s.queue) \in Nat
      /\ t.queue[Len(s.queue) + 1] = entry
      /\ \A i \in DOMAIN s.queue : t.queue[i] = s.queue[i]
  BY <1>1, <1>2, SimFields
<1>4. Processes(t) = Processes(s)
  BY <1>2 DEF Processes
<1>5. \A f \in DOMAIN t.events : EventOK(t, f)
  <2> TAKE f \in DOMAIN t.events
  <2>1. \A call : CallOK(s, f, call) => CallOK(t, f, call)
    BY <1>1, <1>2, CallsFit
  <2>2. EventOK(s, f)
    BY <1>2 DEF SimOK
  <2> QED BY <1>2, <2>1, <2>2 DEF EventOK
<1>6. \A i \in DOMAIN t.queue : EntryOK(t, t.queue[i])
  <2>1. EntryOK(t, entry)
    BY <1>1, <1>2, EntriesFit
  <2>2. \A i \in DOMAIN s.queue : EntryOK(t, s.queue[i])
    BY <1>1, <1>2, EntriesFit DEF SimOK
  <2> QED BY <1>3, <2>1, <2>2
<1>7. StartsFirst(t)
  <2>1. StartsFirst(s)
    BY DEF SimOK
  <2> SUFFICES ASSUME NEW i \in DOMAIN t.queue, NEW j \in DOMAIN t.queue,
                      t.queue[i].task.do = "start", t.queue[j].task.do = "interrupt",
                      t.queue[i].task.of = t.queue[j].task.of
               PROVE  i < j
    BY DEF StartsFirst
  <2>2. CASE i \in DOMAIN s.queue /\ j \in DOMAIN s.queue
    BY <1>3, <2>1, <2>2 DEF StartsFirst
  <2>3. CASE i \in DOMAIN s.queue /\ j \notin DOMAIN s.queue
    BY <1>3, <2>3
  <2>4. CASE i \notin DOMAIN s.queue
    <3>1. t.queue[i] = entry /\ j \in DOMAIN s.queue /\ t.queue[j] = s.queue[j]
      BY <1>3, <2>4
    <3>2. s.queue[j].task \in CallType
      BY <1>1, <3>1, SimFields DEF EntryType
    <3>3. s.queue[j].task = Call("interrupt", entry.task.of)
      BY <3>1, <3>2 DEF CallType, Call
    <3> QED BY <3>1, <3>3
  <2> QED BY <2>2, <2>3, <2>4
<1>8. SimOK(t)
  BY <1>2, <1>4, <1>5, <1>6, <1>7 DEF SimOK
<1> QED BY <1>2, <1>8 DEF t

LEMMA AddEvent ==
  ASSUME NEW s, SimOK(s), NEW r \in EventType,
         ~ r.processed, r.callbacks = <<>>, r.target = None,
         Range(r.members) \subseteq DOMAIN s.events
  PROVE  /\ SimOK(Create(s, r))
         /\ DOMAIN Create(s, r).events = DOMAIN s.events \cup {Fresh(s)}
         /\ Fresh(s) \notin DOMAIN s.events
         /\ Create(s, r).events[Fresh(s)] = r
         /\ \A f \in DOMAIN s.events : Create(s, r).events[f] = s.events[f]
         /\ Create(s, r).now = s.now /\ Create(s, r).queue = s.queue
         /\ Create(s, r).active = s.active
<1> DEFINE t == Create(s, r)
           c == Fresh(s)
<1>1. s \in SimType
  BY DEF SimOK
<1>2. t = [s EXCEPT !.events = Append(s.events, r)] /\ c = Len(s.events) + 1
  BY DEF Create, Fresh
<1>3. Append(s.events, r) \in Seq(EventType)
  BY <1>1, SimFields, AppendCall
<1>4. t \in SimType /\ t.events = Append(s.events, r)
        /\ t.now = s.now /\ t.queue = s.queue /\ t.active = s.active
  BY <1>1, <1>2, <1>3 DEF SimType
<1>5. /\ DOMAIN t.events = DOMAIN s.events \cup {c} /\ c \notin DOMAIN s.events
      /\ t.events[c] = r
      /\ \A f \in DOMAIN s.events : t.events[f] = s.events[f]
      /\ DOMAIN s.events = 1 .. c - 1
  BY <1>1, <1>2, <1>4, SimFields
<1> HIDE DEF t, c
<1>6. \A f \in DOMAIN s.events : /\ t.events[f].type = s.events[f].type
                                 /\ t.events[f].members = s.events[f].members
                                 /\ s.events[f].state # "pending" => t.events[f].state # "pending"
  BY <1>5
<1>7. Processes(s) \subseteq Processes(t)
  BY <1>5, <1>6 DEF Processes
<1>8. \A f \in DOMAIN t.events : EventOK(t, f)
  <2> TAKE f \in DOMAIN t.events
  <2>1. f # c => \A call : CallOK(s, f, call) => CallOK(t, f, call)
    BY <1>1, <1>4, <1>5, <1>6, CallsFit
  <2>2. f # c => EventOK(s, f)
    BY <1>5 DEF SimOK
  <2>3. CASE f = c
    BY <1>5, <2>3 DEF EventOK
  <2>4. CASE f # c
    BY <1>5, <2>1, <2>2, <2>4 DEF EventOK
  <2> QED BY <2>3, <2>4
<1>9. \A i \in DOMAIN t.queue : EntryOK(t, t.queue[i])
  <2> TAKE i \in DOMAIN t.queue
  <2>1. EntryOK(s, s.queue[i])
    BY <1>4 DEF SimOK
  <2> QED BY <1>1, <1>4, <1>5, <1>6, <2>1, EntriesFit
<1>10. StartsFirst(t) /\ t.active \in {None} \cup Processes(t)
  BY <1>4, <1>7 DEF SimOK, StartsFirst
<1>11. SimOK(t)
  BY <1>4, <1>8, <1>9, <1>10 DEF SimOK
<1> QED BY <1>4, <1>5, <1>11 DEF t, c

-----------------------------------------------------------------------------
(* What calls leave alone. *)

LEMMA SameCalls ==
  ASSUME NEW call, NEW a
  PROVE  Same(call, a, a)
BY DEF Same

LEMMA SameTrans ==
  ASSUME NEW call, NEW a, NEW b, NEW c, Same(call, a, b), Same(call, b, c)
  PROVE  Same(call, a, c)
BY DEF Same

LEMMA QuietNothing ==
  ASSUME NEW s, SimOK(s)
  PROVE  Quiet(s, s)
<1>1. \A e \in DOMAIN s.events : EventKept(s, s, e)
  BY SameCalls DEF EventKept
<1>2. QueueGrows(s, s)
  BY SimFields DEF QueueGrows, SimOK
<1> QED BY <1>1, <1>2 DEF Quiet, Tame

LEMMA QueueGrowsTrans ==
  ASSUME NEW s \in SimType, NEW t \in SimType, NEW u \in SimType, QueueGrows(s, t), QueueGrows(t, u)
  PROVE  QueueGrows(s, u) /\ \A task : Due(t, task) => Due(u, task)
<1>1. /\ DOMAIN s.queue = 1 .. Len(s.queue) /\ DOMAIN t.queue = 1 .. Len(t.queue)
      /\ DOMAIN u.queue = 1 .. Len(u.queue)
      /\ Len(s.queue) \in Nat /\ Len(t.queue) \in Nat /\ Len(u.queue) \in Nat
  BY SimFields
<1>2. DOMAIN s.queue \subseteq DOMAIN t.queue /\ DOMAIN t.queue \subseteq DOMAIN u.queue
  BY <1>1 DEF QueueGrows
<1> QED BY <1>1, <1>2 DEF QueueGrows, Due

LEMMA EventKeptTrans ==
  ASSUME NEW s, NEW t, NEW u, NEW e \in DOMAIN s.events, e \in DOMAIN t.events,
         EventKept(s, t, e), EventKept(t, u, e), \A f : TakenBy(t, f) => TakenBy(u, f)
  PROVE  EventKept(s, u, e)
<1>1. \A call : Waker(call) =>
       /\ Same(call, s.events[e].callbacks, u.events[e].callbacks)
       /\ call \in Range(u.events[e].callbacks) => call \in Range(s.events[e].callbacks)
  BY SameTrans DEF EventKept
<1>2. e \in Conditions(s) /\ Failed(s, e) => Failed(u, e)
  BY DEF EventKept, Conditions
<1> QED BY <1>1, <1>2 DEF EventKept

LEMMA TameTrans ==
  ASSUME NEW s, NEW t, NEW u, SimOK(s), Tame(s, t), Tame(t, u)
  PROVE  /\ Tame(s, u)
         /\ Quiet(s, t) /\ Quiet(t, u) => Quiet(s, u)
<1>1. s \in SimType /\ t \in SimType /\ u \in SimType
  BY DEF Tame, SimOK
<1>2. DOMAIN s.events \subseteq DOMAIN t.events /\ DOMAIN t.events \subseteq DOMAIN u.events
  BY DEF Tame
<1>3. QueueGrows(s, u) /\ \A task : Due(t, task) => Due(u, task)
  BY <1>1, QueueGrowsTrans DEF Tame
<1>4. \A f : TakenBy(t, f) => TakenBy(u, f)
  <2> SUFFICES ASSUME NEW f, NEW c \in Conditions(t), Failed(t, c), f \in Range(t.events[c].members)
               PROVE  TakenBy(u, f)
    BY DEF TakenBy
  <2>1. c \in DOMAIN t.events /\ EventKept(t, u, c)
    BY DEF Tame, Conditions
  <2>2. c \in Conditions(u) /\ Failed(u, c) /\ f \in Range(u.events[c].members)
    BY <1>2, <2>1 DEF EventKept, Conditions
  <2> QED BY <2>2 DEF TakenBy
<1>5. \A e \in DOMAIN s.events : EventKept(s, u, e)
  BY <1>2, <1>4, EventKeptTrans DEF Tame
<1>6. \A e \in DOMAIN u.events \ DOMAIN s.events : Born(u, e)
  <2> TAKE e \in DOMAIN u.events \ DOMAIN s.events
  <2>1. CASE e \in DOMAIN t.events
    <3>1. Born(t, e) /\ EventKept(t, u, e)
      BY <2>1 DEF Tame
    <3> QED BY <1>4, <3>1 DEF Born, EventKept
  <2>2. CASE e \notin DOMAIN t.events
    BY <2>2 DEF Tame
  <2> QED BY <2>1, <2>2
<1>7. \A e \in DOMAIN s.events : s.events[e].processed =>
        u.events[e].state = s.events[e].state \/ Due(u, Call("event", e))
  <2> TAKE e \in DOMAIN s.events
  <2>1. EventKept(s, t, e)
    BY DEF Tame
  <2> QED BY <1>2, <1>3, <2>1 DEF Tame, EventKept
<1>8. Tame(s, u)
  BY <1>2, <1>3, <1>5, <1>6, <1>7 DEF Tame
<1>9. ASSUME Quiet(s, t), Quiet(t, u) PROVE Quiet(s, u)
  <2>1. \A e \in DOMAIN s.events : EventKept(s, t, e)
    BY DEF Tame
  <2> QED BY <1>2, <1>8, <1>9, <2>1 DEF Quiet, EventKept
<1> QED BY <1>8, <1>9

LEMMA QuietCreate ==
  ASSUME NEW s, SimOK(s), NEW r \in EventType, r.type # "process",
         ~ r.processed, ~ r.defused, r.callbacks = <<>>, r.target = None,
         Range(r.members) \subseteq DOMAIN s.events
  PROVE  Quiet(s, Create(s, r))
<1> DEFINE t == Create(s, r)
<1>1. /\ SimOK(t)
      /\ DOMAIN t.events = DOMAIN s.events \cup {Fresh(s)}
      /\ t.events[Fresh(s)] = r
      /\ \A f \in DOMAIN s.events : t.events[f] = s.events[f]
      /\ t.now = s.now /\ t.queue = s.queue /\ t.active = s.active
  BY AddEvent
<1> HIDE DEF t
<1>2. QueueGrows(s, t)
  BY <1>1, SimFields DEF QueueGrows, SimOK
<1>3. \A e \in DOMAIN s.events : EventKept(s, t, e)
  BY <1>1, SameCalls DEF EventKept, Failed
<1>4. Range(r.callbacks) = {}
  BY DEF Range
<1>5. \A e \in DOMAIN t.events \ DOMAIN s.events : Born(t, e)
  BY <1>1, <1>4 DEF Born
<1> QED BY <1>1, <1>2, <1>3, <1>5 DEF Quiet, Tame, t

LEMMA QuietEntry ==
  ASSUME NEW s, SimOK(s), NEW entry \in EntryType, EntryOK(s, entry),
         entry.task.do \in {"event", "interrupt"}
  PROVE  /\ Quiet(s, [s EXCEPT !.queue = Append(@, entry)])
         /\ Due([s EXCEPT !.queue = Append(@, entry)], entry.task)
<1> DEFINE t == [s EXCEPT !.queue = Append(@, entry)]
<1>1. /\ SimOK(t)
      /\ t.events = s.events /\ t.now = s.now /\ t.active = s.active
      /\ t.queue = Append(s.queue, entry)
  BY AddEntry
<1> HIDE DEF t
<1>2. s \in SimType
  BY DEF SimOK
<1>3. /\ DOMAIN t.queue = 1 .. Len(s.queue) + 1 /\ DOMAIN s.queue = 1 .. Len(s.queue) /\ Len(s.queue) \in Nat
      /\ Len(t.queue) = Len(s.queue) + 1
      /\ t.queue[Len(s.queue) + 1] = entry
      /\ \A i \in DOMAIN s.queue : t.queue[i] = s.queue[i]
  BY <1>1, <1>2, SimFields
<1>4. QueueGrows(s, t)
  BY <1>3 DEF QueueGrows
<1>5. \A e \in DOMAIN s.events : EventKept(s, t, e)
  BY <1>1, SameCalls DEF EventKept, Failed
<1>6. Due(t, entry.task)
  BY <1>3 DEF Due
<1>7. Quiet(s, t)
  BY <1>1, <1>4, <1>5 DEF Quiet, Tame
<1> QED BY <1>6, <1>7 DEF t

LEMMA JoinedCall ==
  ASSUME NEW x \in CallType, NEW a, NEW b, Joined(a, b, x)
  PROVE  /\ Range(b) = Range(a) \cup {x}
         /\ \A call : call # x => Occurrences(call, b) = Occurrences(call, a)
         /\ Occurrences(x, a) = {} => Single(Occurrences(x, b))
<1>1. a \in Seq(CallType) /\ b = Append(a, x)
  BY DEF Joined
<1>2. Range(Append(a, x)) = Range(a) \cup {x}
  BY <1>1, AppendCall
<1>3. \A call : call # x => Occurrences(call, Append(a, x)) = Occurrences(call, a)
  BY <1>1, AppendCall
<1>4. Occurrences(x, a) = {} => Single(Occurrences(x, Append(a, x)))
  BY <1>1, AppendCall
<1> QED BY <1>1, <1>2, <1>3, <1>4

LEMMA HookSim ==
  ASSUME NEW s, SimOK(s), NEW e \in DOMAIN s.events, ~ s.events[e].processed,
         NEW call \in CallType, CallOK(s, e, call), NEW t, t = Hook(s, e, call)
  PROVE  /\ SimOK(t) /\ Only(s, t, e) /\ t.active = s.active
         /\ Likewise(s.events[e], t.events[e])
         /\ t.events[e].target = s.events[e].target /\ t.events[e].defused = s.events[e].defused
         /\ Joined(s.events[e].callbacks, t.events[e].callbacks, call)
<1> DEFINE r == [s.events[e] EXCEPT !.callbacks = Append(@, call)]
<1>1. s \in SimType
  BY DEF SimOK
<1>2. s.events[e] \in EventType /\ s.events[e].callbacks \in Seq(CallType)
  BY <1>1, SimFields DEF EventType
<1>3. Append(s.events[e].callbacks, call) \in Seq(CallType)
  BY <1>2, AppendCall
<1>4. /\ r \in EventType
      /\ r.type = s.events[e].type /\ r.members = s.events[e].members
      /\ r.processed = s.events[e].processed /\ r.target = s.events[e].target
      /\ r.state = s.events[e].state /\ r.defused = s.events[e].defused
      /\ r.callbacks = Append(s.events[e].callbacks, call)
  BY <1>2, <1>3 DEF EventType
<1>5. EventOK(s, e)
  BY DEF SimOK
<1>6. \A i \in DOMAIN r.callbacks : CallOK(s, e, r.callbacks[i])
  BY <1>2, <1>4, <1>5 DEF EventOK
<1>7. t = Put(s, e, r)
  BY <1>1 DEF Hook, Put, SimType
<1> HIDE DEF r
<1>8. /\ SimOK(t)
      /\ DOMAIN t.events = DOMAIN s.events
      /\ t.events[e] = r
      /\ \A f \in DOMAIN s.events \ {e} : t.events[f] = s.events[f]
      /\ t.now = s.now /\ t.queue = s.queue /\ t.active = s.active
  <2>1. r.target \in {None} \cup DOMAIN s.events
    BY <1>4, <1>5 DEF EventOK
  <2>2. ~ r.processed
    BY <1>4
  <2>3. r.processed => r.callbacks = <<>> /\ r.state # "pending"
    BY <2>2
  <2>4. s.events[e].state # "pending" => r.state # "pending"
    BY <1>4
  <2>5. r \in EventType /\ r.type = s.events[e].type /\ r.members = s.events[e].members
    BY <1>4
  <2> QED BY <1>6, <1>7, <2>1, <2>3, <2>4, <2>5, ReplaceEvent
<1> QED BY <1>2, <1>4, <1>8 DEF Only, Likewise, Joined

LEMMA QuietHook ==
  ASSUME NEW s, SimOK(s), NEW e \in DOMAIN s.events, ~ s.events[e].processed,
         NEW call \in CallType, CallOK(s, e, call), ~ Waker(call)
  PROVE  Quiet(s, Hook(s, e, call))
<1> DEFINE t == Hook(s, e, call)
           a == s.events[e].callbacks
<1>1. /\ SimOK(t) /\ Only(s, t, e) /\ t.active = s.active
      /\ Likewise(s.events[e], t.events[e])
      /\ t.events[e].target = s.events[e].target /\ t.events[e].defused = s.events[e].defused
      /\ Joined(a, t.events[e].callbacks, call)
  BY HookSim
<1> HIDE DEF t
<1>2. QueueGrows(s, t)
  BY <1>1, SimFields DEF QueueGrows, Only, SimOK
<1>3. \A c : Waker(c) =>
         /\ Same(c, a, t.events[e].callbacks)
         /\ c \in Range(t.events[e].callbacks) => c \in Range(a)
  <2> TAKE c
  <2>1. /\ Range(t.events[e].callbacks) = Range(a) \cup {call}
        /\ call # c => Occurrences(c, t.events[e].callbacks) = Occurrences(c, a)
    BY <1>1, JoinedCall
  <2> HIDE DEF a
  <2> QED BY <2>1 DEF Same
<1>4. \A f \in DOMAIN s.events : EventKept(s, t, f)
  <2> TAKE f \in DOMAIN s.events
  <2>1. CASE f = e
    <3>1. e \in Conditions(s) /\ Failed(s, e) => Failed(t, e)
      BY <1>1 DEF Failed, Likewise
    <3> QED BY <1>1, <1>3, <2>1, <3>1 DEF EventKept, Likewise
  <2>2. CASE f # e
    BY <1>1, <2>2, SameCalls DEF EventKept, Failed, Only
  <2> QED BY <2>1, <2>2
<1>5. \A f \in DOMAIN s.events : t.events[f].state = s.events[f].state
  BY <1>1 DEF Only, Likewise
<1> QED BY <1>1, <1>2, <1>4, <1>5 DEF Quiet, Tame, t, Only

LEMMA EventCall ==
  ASSUME NEW e \in Nat
  PROVE  Call("event", e) \in CallType
BY DEF CallType, Call

LEMMA TriggerSim ==
  ASSUME NEW s, SimOK(s), NEW e \in DOMAIN s.events, NEW state \in {"ok", "failed"},
         NEW t, t = Trigger(s, e, state)
  PROVE  /\ SimOK(t) /\ t.now = s.now /\ t.active = s.active
         /\ DOMAIN t.events = DOMAIN s.events
         /\ \A f \in DOMAIN s.events \ {e} : t.events[f] = s.events[f]
         /\ t.events[e].type = s.events[e].type /\ t.events[e].members = s.events[e].members
         /\ t.events[e].processed = s.events[e].processed
         /\ t.events[e].target = s.events[e].target
         /\ t.events[e].state = state /\ t.events[e].defused = s.events[e].defused
         /\ t.events[e].callbacks = s.events[e].callbacks
         /\ QueueGrows(s, t) /\ Due(t, Call("event", e))
<1> DEFINE r == [s.events[e] EXCEPT !.state = state]
           m == Put(s, e, r)
           entry == [at |-> Plus(m.now, 0), prio |-> NORMAL, task |-> Call("event", e)]
           u == [m EXCEPT !.queue = Append(@, entry)]
<1>1. s \in SimType
  BY DEF SimOK
<1>2. s.events[e] \in EventType /\ EventOK(s, e)
  BY <1>1, SimFields DEF SimOK
<1>3. /\ r \in EventType
      /\ r.type = s.events[e].type /\ r.members = s.events[e].members
      /\ r.processed = s.events[e].processed /\ r.target = s.events[e].target
      /\ r.state = state /\ r.defused = s.events[e].defused
      /\ r.callbacks = s.events[e].callbacks
  BY <1>2 DEF EventType
<1>4. t = u
  BY <1>1 DEF Trigger, Schedule, Put, SimType
<1> HIDE DEF r
<1>5. /\ SimOK(m)
      /\ DOMAIN m.events = DOMAIN s.events
      /\ m.events[e] = r
      /\ \A f \in DOMAIN s.events \ {e} : m.events[f] = s.events[f]
      /\ m.now = s.now /\ m.queue = s.queue /\ m.active = s.active
  BY <1>2, <1>3, ReplaceEvent DEF EventOK
<1> HIDE DEF m
<1>6. m \in SimType /\ m.now \in Nat /\ e \in Nat
  BY <1>1, <1>5, SimFields DEF SimOK
<1>7. entry \in EntryType /\ entry.task = Call("event", e) /\ entry.prio = NORMAL /\ entry.at = m.now
  <2>1. Call("event", e) \in CallType
    BY <1>6, EventCall
  <2> QED BY <1>6, <2>1, TimesAreNatural, EntryFits
<1>8. EntryOK(m, entry) /\ entry.task.do = "event"
  <2>1. entry.task.do = "event" /\ entry.task.of = e
    BY <1>7 DEF Call
  <2>2. e \in DOMAIN m.events /\ m.events[e].state # "pending"
    BY <1>3, <1>5
  <2>3. entry.at >= m.now
    BY <1>6, <1>7
  <2> QED BY <1>7, <2>1, <2>2, <2>3 DEF EntryOK
<1> HIDE DEF entry
<1>9. /\ SimOK(u)
      /\ u.events = m.events /\ u.now = m.now /\ u.active = m.active
      /\ QueueGrows(m, u) /\ Due(u, Call("event", e))
  <2>1. entry.task.do # "start"
    BY <1>8
  <2>2. /\ SimOK(u)
        /\ u.events = m.events /\ u.now = m.now /\ u.active = m.active
    BY <1>5, <1>7, <1>8, <2>1, AddEntry
  <2>3. Quiet(m, u) /\ Due(u, entry.task)
    BY <1>5, <1>7, <1>8, QuietEntry
  <2> QED BY <1>7, <2>2, <2>3 DEF Quiet, Tame
<1> HIDE DEF u
<1>10. QueueGrows(s, u)
  BY <1>5, <1>9 DEF QueueGrows
<1> QED BY <1>3, <1>4, <1>5, <1>9, <1>10

LEMMA TameTrigger ==
  ASSUME NEW s, SimOK(s), NEW e \in DOMAIN s.events \ Processes(s), NEW state \in {"ok", "failed"},
         e \in Conditions(s) => s.events[e].state = "pending"
  PROVE  /\ Tame(s, Trigger(s, e, state))
         /\ ~ s.events[e].processed => Quiet(s, Trigger(s, e, state))
         /\ Trigger(s, e, state).events[e].state = state
<1> DEFINE t == Trigger(s, e, state)
<1>1. /\ SimOK(t) /\ t.now = s.now /\ t.active = s.active
      /\ DOMAIN t.events = DOMAIN s.events
      /\ \A f \in DOMAIN s.events \ {e} : t.events[f] = s.events[f]
      /\ t.events[e].type = s.events[e].type /\ t.events[e].members = s.events[e].members
      /\ t.events[e].processed = s.events[e].processed
      /\ t.events[e].target = s.events[e].target
      /\ t.events[e].state = state /\ t.events[e].defused = s.events[e].defused
      /\ t.events[e].callbacks = s.events[e].callbacks
      /\ QueueGrows(s, t) /\ Due(t, Call("event", e))
  BY TriggerSim
<1> HIDE DEF t
<1>2. e \in Conditions(s) => ~ Failed(s, e)
  BY DEF Failed
<1>3. s.events[e].type # "process"
  BY DEF Processes
<1>4. \A f \in DOMAIN s.events : EventKept(s, t, f)
  <2> TAKE f \in DOMAIN s.events
  <2>1. CASE f = e
    BY <1>1, <1>2, <1>3, <2>1, SameCalls DEF EventKept
  <2>2. CASE f # e
    BY <1>1, <2>2, SameCalls DEF EventKept, Failed
  <2> QED BY <2>1, <2>2
<1>5. \A f \in DOMAIN s.events : t.events[f].state = s.events[f].state \/ f = e
  BY <1>1
<1>6. Tame(s, t)
  BY <1>1, <1>4, <1>5 DEF Tame
<1> QED BY <1>1, <1>5, <1>6 DEF Quiet, t

\* The count of a condition is nobody's business but its own.
LEMMA CountedFits ==
  ASSUME NEW T, NEW St, NEW C, NEW M, NEW B,
         NEW r \in [type : T, state : St, processed : B, callbacks : C, defused : B,
                    target : Nat, members : M, count : Nat]
  PROVE  /\ [r EXCEPT !.count = @ + 1] \in
               [type : T, state : St, processed : B, callbacks : C, defused : B,
                target : Nat, members : M, count : Nat]
         /\ LET c == [r EXCEPT !.count = @ + 1] IN
            /\ c.type = r.type /\ c.members = r.members
            /\ c.processed = r.processed /\ c.target = r.target
            /\ c.state = r.state /\ c.defused = r.defused
            /\ c.callbacks = r.callbacks
OBVIOUS

LEMMA QuietCount ==
  ASSUME NEW s, SimOK(s), NEW c \in DOMAIN s.events
  PROVE  /\ [s.events[c] EXCEPT !.count = @ + 1] \in EventType
         /\ Quiet(s, Put(s, c, [s.events[c] EXCEPT !.count = @ + 1]))
         /\ Put(s, c, [s.events[c] EXCEPT !.count = @ + 1]).events[c].members = s.events[c].members
         /\ \A e \in DOMAIN s.events :
               /\ Put(s, c, [s.events[c] EXCEPT !.count = @ + 1]).events[e].state = s.events[e].state
               /\ Put(s, c, [s.events[c] EXCEPT !.count = @ + 1]).events[e].type = s.events[e].type
         /\ Only(s, Put(s, c, [s.events[c] EXCEPT !.count = @ + 1]), c)
         /\ Put(s, c, [s.events[c] EXCEPT !.count = @ + 1]).events[c].callbacks = s.events[c].callbacks
<1> DEFINE r == [s.events[c] EXCEPT !.count = @ + 1]
           t == Put(s, c, r)
<1>1. s \in SimType
  BY DEF SimOK
<1>2. s.events[c] \in EventType /\ EventOK(s, c)
  BY <1>1, SimFields DEF SimOK
<1>3. /\ r \in EventType
      /\ r.type = s.events[c].type /\ r.members = s.events[c].members
      /\ r.processed = s.events[c].processed /\ r.target = s.events[c].target
      /\ r.state = s.events[c].state /\ r.defused = s.events[c].defused
      /\ r.callbacks = s.events[c].callbacks
  <2>1. s.events[c] \in EventType
    BY <1>2
  <2> DEFINE old == s.events[c]
             T == {"event", "timeout", "process", "all", "any", "put", "get", "offload"}
             St == {"pending", "ok", "failed"}
  <2>2. old \in [type : T, state : St, processed : BOOLEAN, callbacks : Seq(CallType),
                 defused : BOOLEAN, target : Nat, members : Seq(Nat), count : Nat]
    BY <2>1 DEF EventType
  <2>3. EventType = [type : T, state : St, processed : BOOLEAN, callbacks : Seq(CallType),
                     defused : BOOLEAN, target : Nat, members : Seq(Nat), count : Nat]
    BY DEF EventType
  <2> HIDE DEF T, St, old
  <2>4. /\ [old EXCEPT !.count = @ + 1] \in EventType
        /\ LET n == [old EXCEPT !.count = @ + 1] IN
           /\ n.type = old.type /\ n.members = old.members
           /\ n.processed = old.processed /\ n.target = old.target
           /\ n.state = old.state /\ n.defused = old.defused
           /\ n.callbacks = old.callbacks
    BY <2>2, <2>3, CountedFits
  <2> QED BY <2>4 DEF old
<1> HIDE DEF r
<1>4. /\ SimOK(t)
      /\ DOMAIN t.events = DOMAIN s.events
      /\ t.events[c] = r
      /\ \A f \in DOMAIN s.events \ {c} : t.events[f] = s.events[f]
      /\ t.now = s.now /\ t.queue = s.queue /\ t.active = s.active
  BY <1>2, <1>3, ReplaceEvent DEF EventOK
<1> HIDE DEF t
<1>5. QueueGrows(s, t)
  BY <1>1, <1>4, SimFields DEF QueueGrows
<1>6. \A f \in DOMAIN s.events : EventKept(s, t, f)
  <2> TAKE f \in DOMAIN s.events
  <2>1. CASE f = c
    <3>1. t.events[f].callbacks = s.events[f].callbacks
      BY <1>3, <1>4, <2>1
    <3> QED BY <1>3, <1>4, <2>1, <3>1, SameCalls DEF EventKept, Failed
  <2>2. CASE f # c
    BY <1>4, <2>2, SameCalls DEF EventKept, Failed
  <2> QED BY <2>1, <2>2
<1>7. \A f \in DOMAIN s.events : t.events[f].state = s.events[f].state /\ t.events[f].type = s.events[f].type
  BY <1>3, <1>4
<1>8. Quiet(s, t)
  BY <1>4, <1>5, <1>6, <1>7 DEF Quiet, Tame
<1>9. Only(s, t, c) /\ t.events[c].callbacks = s.events[c].callbacks
  BY <1>3, <1>4 DEF Only
<1> QED BY <1>3, <1>4, <1>7, <1>8, <1>9 DEF r, t

\* Events of which callbacks may be gone and failures defused, no more.
Relieved(s, events) ==
  /\ events \in Seq(EventType) /\ DOMAIN events = DOMAIN s.events
  /\ \A e \in DOMAIN s.events :
       /\ events[e].type = s.events[e].type /\ events[e].members = s.events[e].members
       /\ events[e].processed = s.events[e].processed
       /\ events[e].target = s.events[e].target
       /\ events[e].state = s.events[e].state
       /\ Range(events[e].callbacks) \subseteq Range(s.events[e].callbacks)

LEMMA ReplaceEvents ==
  ASSUME NEW s, SimOK(s), NEW events, Relieved(s, events),
         NEW t, t = [s EXCEPT !.events = events]
  PROVE  /\ SimOK(t)
         /\ t.events = events
         /\ t.now = s.now /\ t.queue = s.queue /\ t.active = s.active
<1>1. s \in SimType
  BY DEF SimOK
<1>2. t \in SimType /\ t.events = events
        /\ t.now = s.now /\ t.queue = s.queue /\ t.active = s.active
  BY <1>1 DEF SimType, Relieved
<1>3. Processes(t) = Processes(s)
  BY <1>2 DEF Processes, Relieved
<1>4. \A f \in DOMAIN t.events : EventOK(t, f)
  <2> TAKE f \in DOMAIN t.events
  <2>1. \A call : CallOK(s, f, call) => CallOK(t, f, call)
    BY <1>1, <1>2, CallsFit DEF Relieved
  <2>2. EventOK(s, f)
    BY <1>2 DEF SimOK, Relieved
  <2>3. /\ t.events[f] \in EventType /\ s.events[f] \in EventType
    BY <1>1, <1>2, SimFields DEF Relieved
  <2>4. t.events[f].callbacks \in Seq(CallType) /\ s.events[f].callbacks \in Seq(CallType)
    BY <2>3 DEF EventType
  <2>5. \A call \in Range(s.events[f].callbacks) : CallOK(s, f, call)
    BY <2>2, <2>4, RangeOfCalls DEF EventOK
  <2>6. \A i \in DOMAIN t.events[f].callbacks : CallOK(t, f, t.events[f].callbacks[i])
    <3> TAKE i \in DOMAIN t.events[f].callbacks
    <3>1. t.events[f].callbacks[i] \in Range(t.events[f].callbacks)
      BY DEF Range
    <3> QED BY <1>2, <2>1, <2>5, <3>1 DEF Relieved
  <2>7. s.events[f].callbacks = <<>> => t.events[f].callbacks = <<>>
    <3> SUFFICES ASSUME s.events[f].callbacks = <<>>, t.events[f].callbacks # <<>> PROVE FALSE
      OBVIOUS
    <3>1. Head(t.events[f].callbacks) \in Range(t.events[f].callbacks)
      BY <2>4, TailCall
    <3>2. Head(t.events[f].callbacks) \in Range(<<>>)
      BY <1>2, <3>1 DEF Relieved
    <3> QED BY <3>2 DEF Range
  <2> QED BY <1>2, <2>2, <2>6, <2>7 DEF EventOK, Relieved
<1>5. \A i \in DOMAIN t.queue : EntryOK(t, t.queue[i])
  <2> TAKE i \in DOMAIN t.queue
  <2>1. EntryOK(s, s.queue[i])
    BY <1>2 DEF SimOK
  <2>2. \A f \in DOMAIN s.events :
          /\ t.events[f].type = s.events[f].type
          /\ s.events[f].state # "pending" => t.events[f].state # "pending"
    BY <1>2 DEF Relieved
  <2>3. t.now = s.now /\ t.queue = s.queue /\ DOMAIN s.events \subseteq DOMAIN t.events
    BY <1>2 DEF Relieved
  <2>4. t \in SimType
    BY <1>2
  <2> QED BY <1>1, <2>1, <2>2, <2>3, <2>4, EntriesFit
<1>6. StartsFirst(t) /\ t.active \in {None} \cup Processes(t)
  BY <1>2, <1>3 DEF SimOK, StartsFirst
<1>7. SimOK(t)
  BY <1>2, <1>4, <1>5, <1>6 DEF SimOK
<1> QED BY <1>2, <1>7

LEMMA DefusedEvents ==
  ASSUME NEW s, SimOK(s), NEW members
  PROVE  /\ Relieved(s, Defused(s, members).events)
         /\ Defused(s, members) = [s EXCEPT !.events = Defused(s, members).events]
         /\ \A e \in DOMAIN s.events :
              /\ Defused(s, members).events[e].callbacks = s.events[e].callbacks
              /\ Defused(s, members).events[e].defused => s.events[e].defused \/ e \in Range(members)
              /\ s.events[e].defused => Defused(s, members).events[e].defused
<1> DEFINE One(e) == IF e \in Range(members) /\ Failed(s, e)
                     THEN [s.events[e] EXCEPT !.defused = TRUE] ELSE s.events[e]
           events == [e \in DOMAIN s.events |-> One(e)]
<1>1. s \in SimType
  BY DEF SimOK
<1>2. Defused(s, members) = [s EXCEPT !.events = events]
  BY DEF Defused
<1>3. Defused(s, members).events = events
  BY <1>1, <1>2 DEF SimType
<1>4. \A e \in DOMAIN s.events :
        /\ One(e) \in EventType
        /\ One(e).type = s.events[e].type /\ One(e).members = s.events[e].members
        /\ One(e).processed = s.events[e].processed
        /\ One(e).target = s.events[e].target
        /\ One(e).state = s.events[e].state
        /\ One(e).callbacks = s.events[e].callbacks
        /\ One(e).defused => s.events[e].defused \/ e \in Range(members)
        /\ s.events[e].defused => One(e).defused
  <2> TAKE e \in DOMAIN s.events
  <2>1. s.events[e] \in EventType
    BY <1>1, SimFields
  <2>2. CASE e \in Range(members) /\ Failed(s, e)
    BY <2>1, <2>2 DEF EventType
  <2>3. CASE ~ (e \in Range(members) /\ Failed(s, e))
    BY <2>1, <2>3
  <2> QED BY <2>2, <2>3
<1>5. DOMAIN s.events = 1 .. Len(s.events) /\ Len(s.events) \in Nat
  BY <1>1, SimFields
<1> HIDE DEF One
<1>6. events \in Seq(EventType) /\ DOMAIN events = DOMAIN s.events
  BY <1>4, <1>5
<1>7. \A e \in DOMAIN s.events : events[e] = One(e)
  OBVIOUS
<1> HIDE DEF events
<1>8. Relieved(s, events)
  BY <1>4, <1>6, <1>7 DEF Relieved
<1> QED BY <1>2, <1>3, <1>4, <1>7, <1>8

LEMMA QuietFail ==
  ASSUME NEW s, SimOK(s), NEW c \in Conditions(s), s.events[c].state = "pending"
  PROVE  Quiet(s, Trigger(Defused(s, s.events[c].members), c, "failed"))
<1> DEFINE d == Defused(s, s.events[c].members)
           t == Trigger(d, c, "failed")
<1>1. s \in SimType /\ c \in DOMAIN s.events
  BY DEF SimOK, Conditions
<1>2. /\ Relieved(s, d.events)
      /\ d = [s EXCEPT !.events = d.events]
      /\ \A e \in DOMAIN s.events :
           /\ d.events[e].callbacks = s.events[e].callbacks
           /\ d.events[e].defused => s.events[e].defused \/ e \in Range(s.events[c].members)
           /\ s.events[e].defused => d.events[e].defused
  BY DefusedEvents
<1> HIDE DEF d
<1>3. SimOK(d) /\ d.now = s.now /\ d.queue = s.queue /\ d.active = s.active
  BY <1>2, ReplaceEvents
<1>4. /\ DOMAIN d.events = DOMAIN s.events
      /\ \A e \in DOMAIN s.events :
           /\ d.events[e].type = s.events[e].type /\ d.events[e].members = s.events[e].members
           /\ d.events[e].processed = s.events[e].processed
           /\ d.events[e].target = s.events[e].target
           /\ d.events[e].state = s.events[e].state
  BY <1>2 DEF Relieved
<1>5. c \in DOMAIN d.events \ Processes(d) /\ d.events[c].state = "pending"
  BY <1>1, <1>4 DEF Processes, Conditions
<1>6. EventOK(d, c)
  BY <1>3, <1>5 DEF SimOK
<1>7. Quiet(d, t) /\ t.events[c].state = "failed"
  BY <1>3, <1>5, <1>6, TameTrigger DEF EventOK
<1> HIDE DEF t
<1>8. \A e \in DOMAIN s.events : EventKept(d, t, e)
  BY <1>4, <1>7 DEF Quiet, Tame
<1>9. \A e \in Range(s.events[c].members) : TakenBy(t, e)
  <2>1. c \in Conditions(t) /\ t.events[c].members = s.events[c].members /\ Failed(t, c)
    BY <1>1, <1>4, <1>7, <1>8 DEF EventKept, Conditions, Quiet, Tame, Failed
  <2> QED BY <2>1 DEF TakenBy
<1>10. \A e \in DOMAIN s.events : EventKept(s, t, e)
  <2> TAKE e \in DOMAIN s.events
  <2>1. EventKept(d, t, e)
    BY <1>8
  <2>2. /\ t.events[e].defused => s.events[e].defused \/ TakenBy(t, e)
        /\ s.events[e].defused => t.events[e].defused
    BY <1>2, <1>9, <2>1 DEF EventKept
  <2>3. d.events[e].callbacks = s.events[e].callbacks
    BY <1>2
  <2>4. e \in Conditions(s) /\ Failed(s, e) => Failed(t, e)
    BY <1>4, <2>1 DEF EventKept, Conditions, Failed
  <2> QED BY <1>4, <2>1, <2>2, <2>3, <2>4 DEF EventKept
<1>11. \A e \in DOMAIN s.events : s.events[e].processed => t.events[e].state = s.events[e].state
  BY <1>4, <1>7 DEF Quiet
<1>12. QueueGrows(s, t)
  <2>1. QueueGrows(d, t)
    BY <1>7 DEF Quiet, Tame
  <2> QED BY <1>3, <2>1 DEF QueueGrows
<1>13. /\ SimOK(t) /\ t.now = s.now /\ t.active = s.active
       /\ DOMAIN s.events \subseteq DOMAIN t.events
       /\ \A e \in DOMAIN t.events \ DOMAIN s.events : Born(t, e)
  BY <1>3, <1>4, <1>7 DEF Quiet, Tame
<1> QED BY <1>10, <1>11, <1>12, <1>13 DEF Quiet, Tame, t, d

LEMMA QuietCheck ==
  ASSUME NEW s, SimOK(s), NEW c \in Conditions(s), NEW e \in DOMAIN s.events
  PROVE  Quiet(s, Check(s, c, e))
<1> DEFINE cond == [s.events[c] EXCEPT !.count = @ + 1]
           t == Put(s, c, cond)
<1>1. CASE s.events[c].state # "pending"
  BY <1>1, QuietNothing DEF Check
<1>2. CASE s.events[c].state = "pending"
  <2>1. c \in DOMAIN s.events
    BY DEF Conditions
  <2>2. /\ Quiet(s, t) /\ t.events[c].members = s.events[c].members
        /\ \A f \in DOMAIN s.events : t.events[f].state = s.events[f].state
                                       /\ t.events[f].type = s.events[f].type
    BY <2>1, QuietCount
  <2>3. cond.members = s.events[c].members
    <3>1. s.events[c] \in EventType
      BY <2>1, SimFields DEF SimOK
    <3> QED BY <3>1 DEF EventType
  <2>4. Check(s, c, e) = IF Failed(s, e) THEN Trigger(Defused(t, t.events[c].members), c, "failed")
                         ELSE IF Holds(cond) THEN Trigger(t, c, "ok")
                         ELSE t
    BY <1>2, <2>2, <2>3 DEF Check
  <2> HIDE DEF t, cond
  <2>5. SimOK(t) /\ DOMAIN s.events \subseteq DOMAIN t.events
    BY <2>2 DEF Quiet, Tame
  <2>6. c \in Conditions(t) /\ t.events[c].state = "pending" /\ c \in DOMAIN t.events \ Processes(t)
    BY <1>2, <2>1, <2>2, <2>5 DEF Conditions, Processes
  <2>7. Quiet(t, Trigger(Defused(t, t.events[c].members), c, "failed"))
    BY <2>5, <2>6, QuietFail
  <2>8. Quiet(t, Trigger(t, c, "ok"))
    <3>1. ~ t.events[c].processed
      BY <2>5, <2>6 DEF SimOK, EventOK
    <3> QED BY <2>5, <2>6, <3>1, TameTrigger
  <2>9. \A u : Quiet(t, u) => Quiet(s, u)
    BY <2>2, TameTrans DEF Quiet
  <2> QED BY <2>2, <2>4, <2>7, <2>8, <2>9
<1> QED BY <1>1, <1>2

-----------------------------------------------------------------------------
(* Condition.__init__ watches the members one by one. *)

Made(s, type, members) == Create(s, [NewEvent(type) EXCEPT !.members = members])

WatchMember(t, c, m) ==
  IF t.events[m].processed THEN Check(t, c, m) ELSE Hook(t, m, Call("check", c))

WatchesUpTo(w, n, s, type, members) ==
  w = [i \in 0 .. n |-> IF i = 0 THEN Made(s, type, members)
                        ELSE WatchMember(w[i - 1], Fresh(s), members[i])]

LEMMA WatchedExists ==
  ASSUME NEW s, NEW type, NEW S, NEW members \in Seq(S), members # <<>>
  PROVE  \E w : /\ WatchesUpTo(w, Len(members), s, type, members)
                /\ Combine(s, type, members) =
                     Hook(w[Len(members)], Fresh(s), Call("build", Fresh(s)))
<1> DEFINE Bad == {n \in Nat : n <= Len(members) /\ ~ \E g : WatchesUpTo(g, n, s, type, members)}
           c == Fresh(s)
           made == Made(s, type, members)
<1>1. Bad = {}
  <2> SUFFICES ASSUME Bad # {} PROVE FALSE
    OBVIOUS
  <2>1. PICK n \in Bad : \A k \in Bad : n <= k
    BY LeastNatural
  <2>2. n # 0
    <3> DEFINE g == [i \in 0 .. 0 |-> made]
    <3>1. WatchesUpTo(g, 0, s, type, members)
      BY DEF WatchesUpTo
    <3> QED BY <3>1
  <2>3. n \in Nat /\ n - 1 \in Nat /\ n - 1 <= Len(members) /\ n - 1 \notin Bad
    BY <2>1, <2>2
  <2>4. PICK f : WatchesUpTo(f, n - 1, s, type, members)
    BY <2>3
  <2> DEFINE next == WatchMember(f[n - 1], c, members[n])
             g == [i \in 0 .. n |-> IF i < n THEN f[i] ELSE next]
  <2>5. \A i \in 0 .. n - 1 : g[i] = f[i]
    BY <2>3
  <2>6. g[n] = next
    BY <2>3
  <2> HIDE DEF made, c
  <2>7. \A i \in 0 .. n - 1 : f[i] = IF i = 0 THEN made ELSE WatchMember(f[i - 1], c, members[i])
    BY <2>4 DEF WatchesUpTo, made, c
  <2> HIDE DEF next
  <2>8. \A i \in 0 .. n : g[i] = IF i = 0 THEN made ELSE WatchMember(g[i - 1], c, members[i])
    <3> TAKE i \in 0 .. n
    <3>1. CASE i = 0
      BY <2>2, <2>3, <2>5, <2>7, <3>1
    <3>2. CASE i # 0 /\ i < n
      <4>1. i \in 0 .. n - 1 /\ i - 1 \in 0 .. n - 1
        BY <2>3, <3>2
      <4>2. g[i] = f[i] /\ g[i - 1] = f[i - 1]
        BY <2>5, <4>1
      <4> HIDE DEF g
      <4> QED BY <2>7, <3>2, <4>1, <4>2
    <3>3. CASE i = n
      <4>1. g[n - 1] = f[n - 1]
        BY <2>3, <2>5
      <4> HIDE DEF g
      <4> QED BY <2>2, <2>6, <3>3, <4>1 DEF next
    <3> QED BY <2>3, <3>1, <3>2, <3>3
  <2>9. WatchesUpTo(g, n, s, type, members)
    <3>1. g = [i \in 0 .. n |-> g[i]]
      OBVIOUS
    <3> HIDE DEF g
    <3> QED BY <2>8, <3>1 DEF WatchesUpTo, made, c
  <2> QED BY <2>1, <2>9
<1>2. \E g : WatchesUpTo(g, Len(members), s, type, members)
  <2>1. Len(members) \notin Bad /\ Len(members) \in Nat
    BY <1>1
  <2> QED BY <2>1
<1> DEFINE w == CHOOSE g : WatchesUpTo(g, Len(members), s, type, members)
<1>3. WatchesUpTo(w, Len(members), s, type, members)
  BY <1>2
<1>4. Combine(s, type, members) = Hook(w[Len(members)], c, Call("build", c))
  BY DEF Combine, WatchesUpTo, WatchMember, Made
<1> HIDE DEF w
<1> QED BY <1>3, <1>4

\* The condition c is there, and still waits for its first callback.
New(t, c, members) ==
  c \in Conditions(t) /\ t.events[c].members = members /\ ~ t.events[c].processed

LEMMA QuietKeepsNew ==
  ASSUME NEW s, NEW t, Quiet(s, t), NEW c, NEW members, New(s, c, members)
  PROVE  New(t, c, members)
<1>1. c \in DOMAIN s.events /\ EventKept(s, t, c) /\ c \in DOMAIN t.events
  BY DEF New, Conditions, Quiet, Tame
<1> QED BY <1>1 DEF New, Conditions, EventKept

LEMMA QuietWatch ==
  ASSUME NEW t, SimOK(t), NEW c, NEW members, New(t, c, members), NEW m \in DOMAIN t.events,
         m \in Range(members)
  PROVE  Quiet(t, WatchMember(t, c, m))
<1>1. CASE t.events[m].processed
  BY <1>1, QuietCheck DEF WatchMember, New
<1>2. CASE ~ t.events[m].processed
  <2>1. Call("check", c) \in CallType
    <3>1. c \in Nat
      BY SimFields DEF New, Conditions, SimOK
    <3> QED BY <3>1 DEF Call, CallType
  <2>2. CallOK(t, m, Call("check", c))
    BY DEF CallOK, Call, New
  <2>3. ~ Waker(Call("check", c))
    BY DEF Waker, Call
  <2> QED BY <1>2, <2>1, <2>2, <2>3, QuietHook DEF WatchMember
<1> QED BY <1>1, <1>2

LEMMA NewEventFits ==
  ASSUME NEW type \in {"event", "timeout", "process", "all", "any", "put", "get", "offload"}
  PROVE  /\ NewEvent(type) \in EventType /\ NewEvent(type).type = type
         /\ NewEvent(type).state = "pending" /\ ~ NewEvent(type).processed
         /\ ~ NewEvent(type).defused /\ NewEvent(type).callbacks = <<>>
         /\ NewEvent(type).target = None /\ NewEvent(type).members = <<>>
<1>1. <<>> \in Seq(CallType) /\ <<>> \in Seq(Nat) /\ 0 \in Nat
  OBVIOUS
<1>2. NewEvent(type) = [type |-> type, state |-> "pending", processed |-> FALSE,
                        callbacks |-> <<>>, defused |-> FALSE,
                        target |-> 0, members |-> <<>>, count |-> 0]
  BY DEF NewEvent, None
<1> QED BY <1>1, <1>2 DEF EventType, None

LEMMA QuietMade ==
  ASSUME NEW s, SimOK(s), NEW type \in {"all", "any"}, NEW members \in Seq(DOMAIN s.events)
  PROVE  /\ Quiet(s, Made(s, type, members)) /\ New(Made(s, type, members), Fresh(s), members)
         /\ Made(s, type, members).events[Fresh(s)].state = "pending"
<1> DEFINE r == [NewEvent(type) EXCEPT !.members = members]
<1>1. DOMAIN s.events \subseteq Nat
  BY SimFields DEF SimOK
<1>2. members \in Seq(Nat) /\ Range(members) \subseteq DOMAIN s.events
  BY <1>1 DEF Range
<1>3. /\ r.type = type /\ r.state = "pending" /\ ~ r.processed /\ ~ r.defused
      /\ r.callbacks = <<>> /\ r.target = None /\ r.members = members
  BY DEF NewEvent
<1>4. r \in EventType
  BY <1>2, NewEventFits, ZenonT(60) DEF EventType
<1> HIDE DEF r
<1>5. Quiet(s, Create(s, r))
  BY <1>2, <1>3, <1>4, QuietCreate
<1>6. /\ DOMAIN Create(s, r).events = DOMAIN s.events \cup {Fresh(s)}
      /\ Create(s, r).events[Fresh(s)] = r
  BY <1>2, <1>3, <1>4, AddEvent
<1>7. New(Create(s, r), Fresh(s), members)
  BY <1>3, <1>6 DEF New, Conditions
<1> QED BY <1>3, <1>5, <1>6, <1>7 DEF Made, r

LEMMA QuietCombine ==
  ASSUME NEW s, SimOK(s), NEW type \in {"all", "any"}, NEW members \in Seq(DOMAIN s.events)
  PROVE  Quiet(s, Combine(s, type, members))
<1> DEFINE c == Fresh(s)
           made == Made(s, type, members)
<1>1. Quiet(s, made) /\ New(made, c, members) /\ made.events[c].state = "pending"
  BY QuietMade
<1>2. SimOK(made)
  BY <1>1 DEF Quiet, Tame
<1>3. CASE members = <<>>
  <2>1. Combine(s, type, members) = Trigger(made, c, "ok")
    BY <1>3 DEF Combine, Made
  <2>2. c \in DOMAIN made.events \ Processes(made) /\ ~ made.events[c].processed
    BY <1>1 DEF New, Conditions, Processes
  <2> HIDE DEF made, c
  <2>3. Quiet(made, Trigger(made, c, "ok"))
    BY <1>1, <1>2, <2>2, TameTrigger
  <2> QED BY <1>1, <2>1, <2>3, TameTrans DEF Quiet
<1>4. CASE members # <<>>
  <2>1. PICK w : /\ WatchesUpTo(w, Len(members), s, type, members)
                 /\ Combine(s, type, members) = Hook(w[Len(members)], c, Call("build", c))
    BY <1>4, WatchedExists
  <2>2. \A i \in 0 .. Len(members) :
          w[i] = IF i = 0 THEN made ELSE WatchMember(w[i - 1], c, members[i])
    BY <2>1 DEF WatchesUpTo
  <2> HIDE DEF made, c
  <2> DEFINE Late == {n \in Nat : n <= Len(members) /\ ~ Quiet(made, w[n])}
  <2>3. Late = {}
    <3> SUFFICES ASSUME Late # {} PROVE FALSE
      OBVIOUS
    <3>1. PICK n \in Late : \A k \in Late : n <= k
      BY LeastNatural
    <3>2. n # 0
      BY <1>2, <2>2, <3>1, QuietNothing
    <3>3. n \in 1 .. Len(members) /\ n - 1 \in Nat /\ n - 1 <= Len(members) /\ n - 1 \notin Late
      BY <3>1, <3>2
    <3>4. Quiet(made, w[n - 1])
      BY <3>3
    <3>5. w[n] = WatchMember(w[n - 1], c, members[n])
      BY <2>2, <3>3
    <3>6. members[n] \in DOMAIN s.events /\ members[n] \in Range(members)
      BY <3>3 DEF Range
    <3> DEFINE t == w[n - 1]
               m == members[n]
    <3> HIDE DEF t, m
    <3>7. SimOK(t) /\ New(t, c, members) /\ m \in DOMAIN t.events
      <4>1. DOMAIN s.events \subseteq DOMAIN made.events /\ DOMAIN made.events \subseteq DOMAIN t.events
        BY <1>1, <3>4 DEF Quiet, Tame, t
      <4>2. New(t, c, members)
        BY <1>1, <3>4, QuietKeepsNew DEF t
      <4>3. SimOK(t)
        BY <3>4 DEF Quiet, Tame, t
      <4> QED BY <3>6, <4>1, <4>2, <4>3 DEF m
    <3>8. Quiet(t, WatchMember(t, c, m))
      BY <3>6, <3>7, QuietWatch DEF m
    <3>9. Quiet(made, WatchMember(t, c, m))
      BY <1>2, <3>4, <3>8, TameTrans DEF Quiet, t
    <3> QED BY <3>1, <3>5, <3>9 DEF t, m
  <2> DEFINE t == w[Len(members)]
  <2>4. Quiet(made, t)
    BY <2>3
  <2> HIDE DEF t
  <2>5. SimOK(t) /\ New(t, c, members)
    BY <1>1, <2>4, QuietKeepsNew DEF Quiet, Tame
  <2>6. Quiet(t, Hook(t, c, Call("build", c)))
    <3>1. c \in DOMAIN t.events /\ ~ t.events[c].processed /\ c \in Nat
      BY <2>5, SimFields DEF New, Conditions, SimOK
    <3>2. Call("build", c) \in CallType /\ CallOK(t, c, Call("build", c)) /\ ~ Waker(Call("build", c))
      BY <3>1 DEF Call, CallType, CallOK, Waker
    <3> QED BY <2>5, <3>1, <3>2, QuietHook
  <2>7. Quiet(made, Hook(t, c, Call("build", c)))
    BY <1>2, <2>4, <2>6, TameTrans DEF Quiet
  <2>8. Quiet(s, Hook(t, c, Call("build", c)))
    BY <1>1, <2>7, TameTrans DEF Quiet
  <2> QED BY <2>1, <2>8 DEF t
<1> QED BY <1>3, <1>4

LEMMA QuietRemoveChecks ==
  ASSUME NEW s, SimOK(s), NEW c
  PROVE  Quiet(s, RemoveChecks(s, c))
<1> DEFINE members == UNION {Range(s.events[d].members) : d \in Nested(s, c)}
           checks == {Call("check", d) : d \in Nested(s, c)}
           One(e) == IF e \in members
                     THEN [s.events[e] EXCEPT !.callbacks = Without(@, checks)] ELSE s.events[e]
           events == [e \in DOMAIN s.events |-> One(e)]
           t == [s EXCEPT !.events = events]
<1>1. s \in SimType
  BY DEF SimOK
<1>2. RemoveChecks(s, c) = t
  BY Zenon DEF RemoveChecks
<1>3. \A call \in checks : ~ Waker(call)
  BY DEF Waker, Call
<1> HIDE DEF members, checks
<1>4. \A e \in DOMAIN s.events :
        /\ One(e) \in EventType
        /\ One(e).type = s.events[e].type /\ One(e).members = s.events[e].members
        /\ One(e).processed = s.events[e].processed
        /\ One(e).target = s.events[e].target
        /\ One(e).state = s.events[e].state
        /\ One(e).defused = s.events[e].defused
        /\ Range(One(e).callbacks) \subseteq Range(s.events[e].callbacks)
        /\ \A call : Waker(call) => Same(call, s.events[e].callbacks, One(e).callbacks)
  <2> TAKE e \in DOMAIN s.events
  <2> DEFINE a == s.events[e].callbacks
             b == Without(a, checks)
  <2>1. s.events[e] \in EventType /\ a \in Seq(CallType)
    BY <1>1, SimFields DEF EventType
  <2>2. b \in Seq(CallType) /\ Filtered(a, b, checks)
    BY <2>1, WithoutCalls
  <2>3. CASE e \in members
    <3>1. One(e) = [s.events[e] EXCEPT !.callbacks = b]
      BY <2>3
    <3> HIDE DEF One, b
    <3>2. /\ One(e) \in EventType
          /\ One(e).type = s.events[e].type /\ One(e).members = s.events[e].members
          /\ One(e).processed = s.events[e].processed
          /\ One(e).target = s.events[e].target
          /\ One(e).state = s.events[e].state
          /\ One(e).defused = s.events[e].defused
          /\ One(e).callbacks = b
      BY <2>1, <2>2, <3>1 DEF EventType
    <3>3. Range(b) \subseteq Range(a) /\ \A call : Waker(call) => Same(call, a, b)
      BY <1>3, <2>2 DEF Filtered, Same
    <3> QED BY <3>2, <3>3
  <2>4. CASE e \notin members
    BY <2>1, <2>4, SameCalls
  <2> QED BY <2>3, <2>4
<1>5. DOMAIN s.events = 1 .. Len(s.events) /\ Len(s.events) \in Nat
  BY <1>1, SimFields
<1> HIDE DEF One
<1>6. events \in Seq(EventType) /\ DOMAIN events = DOMAIN s.events
  BY <1>4, <1>5
<1>7. \A e \in DOMAIN s.events : events[e] = One(e)
  OBVIOUS
<1> HIDE DEF events
<1>8. Relieved(s, events)
  BY <1>4, <1>6, <1>7 DEF Relieved
<1>9. SimOK(t) /\ t.events = events /\ t.now = s.now /\ t.queue = s.queue /\ t.active = s.active
  BY <1>8, ReplaceEvents
<1> HIDE DEF t
<1>10. \A e \in DOMAIN s.events : EventKept(s, t, e)
  <2> TAKE e \in DOMAIN s.events
  <2>1. \A call : Waker(call) =>
          /\ Same(call, s.events[e].callbacks, t.events[e].callbacks)
          /\ call \in Range(t.events[e].callbacks) => call \in Range(s.events[e].callbacks)
    BY <1>4, <1>7, <1>9
  <2> QED BY <1>4, <1>7, <1>9, <2>1 DEF EventKept, Failed
<1>11. \A e \in DOMAIN s.events : t.events[e].state = s.events[e].state
  BY <1>4, <1>7, <1>9
<1>12. QueueGrows(s, t)
  BY <1>1, <1>9, SimFields DEF QueueGrows
<1>13. DOMAIN t.events = DOMAIN s.events
  BY <1>6, <1>9
<1> QED BY <1>2, <1>9, <1>10, <1>11, <1>12, <1>13 DEF Quiet, Tame

-----------------------------------------------------------------------------
(* Actions that wake nobody preserve the invariant. *)

LEMMA TameEvents ==
  ASSUME SimOK(sim), Tame(sim, sim')
  PROVE  /\ Processes(sim') = Processes(sim)
         /\ \A e \in DOMAIN sim.events :
              /\ e \in DOMAIN sim'.events
              /\ sim'.events[e].target = sim.events[e].target
              /\ sim'.events[e].processed = sim.events[e].processed
              /\ e \in Processes(sim) => sim'.events[e].state = sim.events[e].state
         /\ \A call : Waker(call) => \A e \in DOMAIN sim'.events :
              call \in Range(sim'.events[e].callbacks) =>
                e \in DOMAIN sim.events /\ call \in Range(sim.events[e].callbacks)
<1>1. \A e \in DOMAIN sim.events : EventKept(sim, sim', e) /\ e \in DOMAIN sim'.events
  BY DEF Tame
<1>2. \A e \in DOMAIN sim'.events \ DOMAIN sim.events : Born(sim', e)
  BY DEF Tame
<1>3. Processes(sim') = Processes(sim)
  BY <1>1, <1>2 DEF Processes, EventKept, Born
<1>4. \A e \in DOMAIN sim.events :
        /\ sim'.events[e].target = sim.events[e].target
        /\ sim'.events[e].processed = sim.events[e].processed
        /\ e \in Processes(sim) => sim'.events[e].state = sim.events[e].state
  BY <1>1 DEF EventKept, Processes
<1>5. ASSUME NEW call, Waker(call), NEW e \in DOMAIN sim'.events,
             call \in Range(sim'.events[e].callbacks)
      PROVE  e \in DOMAIN sim.events /\ call \in Range(sim.events[e].callbacks)
  BY <1>1, <1>2, <1>5 DEF EventKept, Born
<1> QED BY <1>1, <1>3, <1>4, <1>5

\* The calls still to come, but for the one that is being called.
LEMMA RestOfStep ==
  ASSUME StepOK, step.rest # <<>>
  PROVE  /\ step.rest \in Seq(CallType) /\ Head(step.rest) \in Range(step.rest)
         /\ Head(step.rest) \in CallType
         /\ [step EXCEPT !.rest = Tail(@)].rest = Tail(step.rest)
         /\ [step EXCEPT !.rest = Tail(@)].task = step.task
         /\ [step EXCEPT !.rest = Tail(@)] \in [task : CallType, rest : Seq(CallType)]
         /\ Range(Tail(step.rest)) \subseteq Range(step.rest)
<1>1. step \in [task : CallType, rest : Seq(CallType)]
  BY DEF StepOK
<1>2. step.rest \in Seq(CallType)
  BY <1>1
<1>3. /\ Tail(step.rest) \in Seq(CallType) /\ Head(step.rest) \in CallType
      /\ Head(step.rest) \in Range(step.rest) /\ Range(Tail(step.rest)) \subseteq Range(step.rest)
  BY <1>2, TailCall
<1> QED BY <1>1, <1>2, <1>3

\* Only the step of an event has callbacks.
LEMMA CallbackOfEvent ==
  ASSUME StepOK, step.rest # <<>>, Head(step.rest).do \in {"check", "build", "trigger", "put", "get"}
  PROVE  step.task.do = "event"
<1>1. ASSUME NEW call, step.rest = <<call>> PROVE Head(step.rest) = call
  BY <1>1
<1>2. CASE step.task.do = "start"
  BY <1>1, <1>2 DEF StepOK, Call, NoTask
<1>3. CASE step.task.do = "interrupt"
  BY <1>1, <1>3 DEF StepOK, Call, NoTask
<1>4. CASE step.task = Call("stop", None)
  BY <1>1, <1>4 DEF StepOK, Call, NoTask
<1> QED BY <1>2, <1>3, <1>4 DEF StepOK

LEMMA CallsOfStep ==
  ASSUME StepOK
  PROVE  /\ step.rest \in Seq(CallType)
         /\ step.task.do = "event" =>
              /\ step.task.of \in DOMAIN sim.events /\ sim.events[step.task.of].processed
              /\ \A call \in Range(step.rest) : CallOK(sim, step.task.of, call)
<1>1. step.rest \in Seq(CallType)
  BY DEF StepOK
<1>2. \A call \in Range(step.rest) : \E i \in DOMAIN step.rest : step.rest[i] = call
  BY <1>1, RangeOfCalls
<1>3. CASE step.task.do = "event"
  BY <1>1, <1>2, <1>3 DEF StepOK, NoTask, Call
<1> QED BY <1>1, <1>3

LEMMA TameStepOK ==
  ASSUME SimOK(sim), StepOK, TameAction
  PROVE  StepOK'
<1>1. sim \in SimType /\ sim' \in SimType /\ Tame(sim, sim')
  BY DEF SimOK, TameAction, Tame
<1>2. /\ Processes(sim') = Processes(sim)
      /\ \A e \in DOMAIN sim.events : /\ e \in DOMAIN sim'.events
                                      /\ sim'.events[e].processed = sim.events[e].processed
  BY <1>1, TameEvents
<1>3. \A e \in DOMAIN sim.events : \A call : CallOK(sim, e, call) => CallOK(sim', e, call)
  <2>1. \A f \in DOMAIN sim.events : /\ sim'.events[f].type = sim.events[f].type
                                     /\ sim'.events[f].members = sim.events[f].members
    BY <1>1 DEF Tame, EventKept
  <2> QED BY <1>1, <1>2, <2>1, CallsFit
<1>4. control' = control
  BY DEF TameAction
<1>5. CASE step' = step
  BY <1>2, <1>3, <1>4, <1>5 DEF StepOK
<1>6. CASE /\ step.rest # <<>> /\ Head(step.rest).do \in {"check", "build", "trigger", "put", "get"}
           /\ step' = [step EXCEPT !.rest = Tail(@)]
  <2>1. step.task.do = "event"
    BY <1>6, CallbackOfEvent
  <2>2. /\ step'.task = step.task /\ step'.rest = Tail(step.rest)
        /\ step' \in [task : CallType, rest : Seq(CallType)]
        /\ Range(Tail(step.rest)) \subseteq Range(step.rest)
    BY <1>6, RestOfStep
  <2>3. /\ step.task.of \in DOMAIN sim.events /\ sim.events[step.task.of].processed
        /\ \A call \in Range(step.rest) : CallOK(sim, step.task.of, call)
    BY <2>1, CallsOfStep
  <2>4. \A i \in DOMAIN step'.rest : CallOK(sim', step'.task.of, step'.rest[i])
    <3> TAKE i \in DOMAIN step'.rest
    <3>1. step'.rest[i] \in Range(step.rest)
      BY <2>2 DEF Range
    <3> QED BY <1>3, <2>2, <2>3, <3>1
  <2>5. step'.task.of \in DOMAIN sim'.events /\ sim'.events[step'.task.of].processed
    BY <1>2, <2>2, <2>3
  <2>6. /\ control' \in {Main, Loop} \cup Processes(sim')
        /\ control' = Main => step'.task = NoTask
        /\ control' \in Processes(sim') => step'.task # NoTask
    BY <1>2, <1>4, <2>2 DEF StepOK
  <2> QED BY <2>1, <2>2, <2>4, <2>5, <2>6 DEF StepOK
<1> QED BY <1>5, <1>6 DEF TameAction

\* What is left of the step after one call, as seen by another one.
LEMMA TameRest ==
  ASSUME SimOK(sim), StepOK, TameAction, NEW call, Waker(call)
  PROVE  /\ Same(call, step.rest, step'.rest)
         /\ call \in Range(step'.rest) <=> call \in Range(step.rest)
         /\ step'.task = step.task
         /\ step.task.do = "interrupt" => step' = step
<1>1. CASE step' = step
  BY <1>1, SameCalls
<1>2. CASE /\ step.rest # <<>> /\ Head(step.rest).do \in {"check", "build", "trigger", "put", "get"}
           /\ step' = [step EXCEPT !.rest = Tail(@)]
  <2>1. step'.rest = Tail(step.rest) /\ step'.task = step.task /\ step.rest \in Seq(CallType)
          /\ Range(Tail(step.rest)) \subseteq Range(step.rest)
    BY <1>2, RestOfStep
  <2>2. Head(step.rest) # call
    BY <1>2 DEF Waker
  <2>3. Same(call, step.rest, Tail(step.rest))
    BY <1>2, <2>1, <2>2, TailCall
  <2>4. step.task.do = "event"
    BY <1>2, CallbackOfEvent
  <2> QED BY <2>1, <2>3, <2>4 DEF Same
<1> QED BY <1>1, <1>2 DEF TameAction

LEMMA TameHooks ==
  ASSUME SimOK(sim), Tame(sim, sim'), NEW p
  PROVE  /\ \A e \in DOMAIN sim.events :
              /\ Hooked(p, e) = {} => Hooked(p, e)' = {}
              /\ Single(Hooked(p, e)) => Single(Hooked(p, e)')
         /\ \A e \in DOMAIN sim'.events : Hooked(p, e)' # {} =>
              e \in DOMAIN sim.events /\ Hooked(p, e) # {}
         /\ NoHook(p) => NoHook(p)'
<1> DEFINE call == Call("resume", p)
<1>1. Waker(call)
  BY DEF Waker, Call
<1>2. \A e \in DOMAIN sim.events : Same(call, sim.events[e].callbacks, sim'.events[e].callbacks)
  BY <1>1 DEF Tame, EventKept
<1>3. \A e \in DOMAIN sim'.events :
        call \in Range(sim'.events[e].callbacks) =>
          e \in DOMAIN sim.events /\ call \in Range(sim.events[e].callbacks)
  BY <1>1, TameEvents
<1>4. /\ \A e \in DOMAIN sim.events : sim.events[e].callbacks \in Seq(CallType)
      /\ \A e \in DOMAIN sim'.events : sim'.events[e].callbacks \in Seq(CallType)
  BY SimFields DEF SimOK, Tame, EventType
<1>5. /\ \A e \in DOMAIN sim.events : call \in Range(sim.events[e].callbacks) <=> Hooked(p, e) # {}
      /\ \A e \in DOMAIN sim'.events : call \in Range(sim'.events[e].callbacks) <=> Hooked(p, e)' # {}
  BY <1>4, OccurrencesOfCalls DEF Hooked
<1>6. /\ \A e \in DOMAIN sim.events :
              /\ Hooked(p, e) = {} => Hooked(p, e)' = {}
              /\ Single(Hooked(p, e)) => Single(Hooked(p, e)')
  BY <1>2 DEF Same, Hooked
<1>7. \A e \in DOMAIN sim'.events : Hooked(p, e)' # {} =>
              e \in DOMAIN sim.events /\ Hooked(p, e) # {}
  BY <1>3, <1>5
<1> HIDE DEF call
<1>8. NoHook(p) => NoHook(p)'
  BY <1>7 DEF NoHook
<1> QED BY <1>6, <1>7, <1>8

LEMMA TameStarts ==
  ASSUME SimOK(sim), Tame(sim, sim'), NEW p
  PROVE  Starts(p)' = Starts(p)
<1>1. /\ DOMAIN sim.queue = 1 .. Len(sim.queue) /\ DOMAIN sim'.queue = 1 .. Len(sim'.queue)
      /\ Len(sim.queue) \in Nat /\ Len(sim'.queue) \in Nat
  BY SimFields DEF SimOK, Tame
<1>2. /\ DOMAIN sim.queue \subseteq DOMAIN sim'.queue
      /\ \A i \in DOMAIN sim.queue : sim'.queue[i] = sim.queue[i]
      /\ \A i \in DOMAIN sim'.queue \ DOMAIN sim.queue :
            sim'.queue[i].task # Call("start", p)
  BY <1>1 DEF Tame, QueueGrows, Call
<1> QED BY <1>2 DEF Starts

\* OnePlace and AtTarget follow when a wake-up stays where it is.
LEMMA SamePlace ==
  ASSUME NEW p, AtTarget(p), OnePlace(p), DOMAIN sim.events \subseteq DOMAIN sim'.events,
         Awaits(p)' <=> Awaits(p),
         Starts(p) = {} => Starts(p)' = {}, Single(Starts(p)) => Single(Starts(p)'),
         InStep(p) = {} => InStep(p)' = {}, Single(InStep(p)) => Single(InStep(p)'),
         \A e \in DOMAIN sim.events : Single(Hooked(p, e)) => Single(Hooked(p, e)'),
         \A e \in DOMAIN sim'.events : Hooked(p, e)' # {} =>
              e \in DOMAIN sim.events /\ Hooked(p, e) # {},
         sim'.events[p].target = sim.events[p].target,
         step'.task = step.task \/ InStep(p)' = {}
  PROVE  AtTarget(p)' /\ OnePlace(p)'
<1>1. NoHook(p) => NoHook(p)'
  BY DEF NoHook
<1>2. AtTarget(p)'
  BY DEF AtTarget
<1>3. OnePlace(p)'
  <2>1. CASE Awaits(p)
    BY <1>1, <2>1 DEF OnePlace
  <2>2. CASE ~ Awaits(p)
    BY <1>1, <2>2 DEF OnePlace
  <2> QED BY <2>1, <2>2
<1> QED BY <1>2, <1>3

LEMMA TameWake ==
  ASSUME SimOK(sim), StepOK, WakeInv, TameAction
  PROVE  WakeInv'
<1>1. sim \in SimType /\ sim' \in SimType /\ Tame(sim, sim') /\ control' = control
        /\ ghost'.stranded = ghost.stranded
  BY DEF SimOK, TameAction, Tame
<1>2. /\ Processes(sim') = Processes(sim)
      /\ \A e \in DOMAIN sim.events :
              /\ e \in DOMAIN sim'.events
              /\ sim'.events[e].target = sim.events[e].target
              /\ e \in Processes(sim) => sim'.events[e].state = sim.events[e].state
  BY <1>1, TameEvents
<1>3. \A p \in Processes(sim) : p \in DOMAIN sim.events
  BY DEF Processes
<1>4. \A p \in Processes(sim) : (Awaits(p)' <=> Awaits(p)) /\ (Alive(sim', p) <=> Alive(sim, p))
  BY <1>1, <1>2, <1>3 DEF Awaits, Alive
<1>5. \A p : /\ InStep(p) = {} => InStep(p)' = {}
             /\ Single(InStep(p)) => Single(InStep(p)')
             /\ step'.task = step.task
             /\ step.task.do = "interrupt" => step' = step
  <2> TAKE p
  <2>1. Waker(Call("resume", p))
    BY DEF Waker, Call
  <2> QED BY <2>1, TameRest DEF Same, InStep
<1>6. \A p \in Processes(sim') : AtTarget(p)' /\ OnePlace(p)' /\ StartedBefore(p)'
  <2> TAKE p \in Processes(sim')
  <2>1. p \in Processes(sim) /\ AtTarget(p) /\ OnePlace(p) /\ StartedBefore(p)
    BY <1>2 DEF WakeInv
  <2>2. Starts(p)' = Starts(p)
    BY <1>1, TameStarts
  <2>3. /\ \A e \in DOMAIN sim.events : Single(Hooked(p, e)) => Single(Hooked(p, e)')
        /\ \A e \in DOMAIN sim'.events : Hooked(p, e)' # {} =>
              e \in DOMAIN sim.events /\ Hooked(p, e) # {}
    BY <1>1, TameHooks
  <2>4. /\ Awaits(p)' <=> Awaits(p)
        /\ sim'.events[p].target = sim.events[p].target
        /\ DOMAIN sim.events \subseteq DOMAIN sim'.events
    BY <1>2, <1>3, <1>4, <2>1
  <2>5. AtTarget(p)' /\ OnePlace(p)'
    BY <1>5, <2>1, <2>2, <2>3, <2>4, SamePlace
  <2>6. StartedBefore(p)'
    BY <1>5, <2>1, <2>2 DEF StartedBefore, Call
  <2> QED BY <2>5, <2>6
<1>7. control' \in Processes(sim') => Alive(sim', control') /\ control' \notin ghost'.stranded
  BY <1>1, <1>2, <1>4 DEF WakeInv
<1> QED BY <1>1, <1>2, <1>6, <1>7 DEF WakeInv

LEMMA TameRun ==
  ASSUME SimOK(sim), StepOK, RunInv, TameAction
  PROVE  RunInv'
<1>1. /\ sim \in SimType /\ sim' \in SimType /\ Tame(sim, sim')
      /\ control' = control /\ run' = run /\ sim'.now = sim.now
  BY DEF SimOK, TameAction, Tame
<1>2. Waker(StopCall)
  BY DEF Waker, StopCall, Call
<1>3. \A e \in DOMAIN sim.events :
        /\ e \in DOMAIN sim'.events
        /\ sim'.events[e].processed = sim.events[e].processed
        /\ StopCall \in Range(sim.events[e].callbacks) => StopCall \in Range(sim'.events[e].callbacks)
  BY <1>1, <1>2, TameEvents DEF Tame, EventKept, Same
<1>4. \A e \in DOMAIN sim'.events : StopCall \in Range(sim'.events[e].callbacks) =>
         e \in DOMAIN sim.events /\ StopCall \in Range(sim.events[e].callbacks)
  BY <1>1, <1>2, TameEvents
<1>5. /\ StopCall \in Range(step'.rest) <=> StopCall \in Range(step.rest)
      /\ step'.task = step.task
  BY <1>2, TameRest
<1>6. \A i \in DOMAIN sim'.queue : sim'.queue[i].task.do = "stop" =>
         i \in DOMAIN sim.queue /\ sim'.queue[i] = sim.queue[i]
  BY <1>1 DEF Tame, QueueGrows
<1>7. run'.until \in {None} \cup DOMAIN sim'.events
  BY <1>1, <1>3 DEF RunInv
<1>8. control # Main => StopAhead'
  <2>1. run.until # None => run.until \in DOMAIN sim.events
    BY DEF RunInv
  <2> QED BY <1>1, <1>3, <1>5, <2>1 DEF RunInv, StopAhead
<1>9. control # Main /\ run.clean => OwnStops'
  <2> SUFFICES ASSUME control # Main, run.clean PROVE OwnStops'
    OBVIOUS
  <2>1. OwnStops
    BY DEF RunInv
  <2>2. \A i \in DOMAIN sim'.queue :
          sim'.queue[i].task.do = "stop" => run'.until = None /\ sim'.queue[i].at = OwnStopTime'
    BY <1>1, <1>6, <2>1 DEF OwnStops, OwnStopTime
  <2>3. \A e \in DOMAIN sim'.events : StopCall \in Range(sim'.events[e].callbacks) => e = run'.until
    BY <1>1, <1>4, <2>1 DEF OwnStops
  <2>4. StopCall \in Range(step'.rest) =>
          \/ step'.task.do = "stop" /\ run'.until = None /\ sim'.now = OwnStopTime'
          \/ step'.task.do = "event" /\ step'.task.of = run'.until
    BY <1>1, <1>5, <2>1 DEF OwnStops, OwnStopTime
  <2>5. StopCall' = StopCall
    BY DEF StopCall, Call
  <2> QED BY <2>2, <2>3, <2>4, <2>5 DEF OwnStops
<1>10. StopsWhereAsked'
  <2>1. CASE control = Main
    <3>1. \A e \in DOMAIN sim.events : sim.events[e].processed => sim'.events[e].state = sim.events[e].state
      BY <2>1 DEF TameAction, Quiet, Main, Loop
    <3>2. StopsWhereAsked
      BY DEF RunInv
    <3>3. CASE run.until = None
      <4>1. run.result # "starved"
        BY <3>3 DEF RunInv
      <4> QED BY <1>1, <3>2, <3>3, <4>1 DEF StopsWhereAsked
    <3>4. CASE run.until # None
      <4>1. run.until \in DOMAIN sim.events
        BY <3>4 DEF RunInv
      <4> QED BY <1>1, <1>3, <3>1, <3>2, <3>4, <4>1 DEF StopsWhereAsked, Failed
    <3> QED BY <3>3, <3>4
  <2>2. CASE control # Main
    <3>1. run'.result = "running"
      BY <1>1, <2>2 DEF RunInv
    <3> QED BY <3>1 DEF StopsWhereAsked
  <2> QED BY <2>1, <2>2
<1> QED BY <1>1, <1>7, <1>8, <1>9, <1>10 DEF RunInv

LEMMA TameFault ==
  ASSUME SimOK(sim), StepOK, FaultInv, TameAction
  PROVE  FaultInv'
<1>1. /\ sim \in SimType /\ sim' \in SimType /\ Tame(sim, sim') /\ control' = control
      /\ ghost'.heard = ghost.heard
  BY DEF SimOK, TameAction, Tame
<1>2. step'.task = step.task
  <2>1. Waker(StopCall)
    BY DEF Waker, StopCall, Call
  <2> QED BY <2>1, TameRest
<1>3. \A e \in DOMAIN sim.events : EventKept(sim, sim', e) /\ e \in DOMAIN sim'.events
  BY <1>1 DEF Tame
<1>4. \A e \in DOMAIN sim'.events \ DOMAIN sim.events : Born(sim', e)
  BY <1>1 DEF Tame
<1>5. \A e : TakenBy(sim, e) => TakenBy(sim', e)
  <2> SUFFICES ASSUME NEW e, NEW c \in Conditions(sim), Failed(sim, c), e \in Range(sim.events[c].members)
               PROVE  TakenBy(sim', e)
    BY DEF TakenBy
  <2>1. c \in DOMAIN sim.events
    BY DEF Conditions
  <2>2. c \in Conditions(sim') /\ Failed(sim', c) /\ e \in Range(sim'.events[c].members)
    BY <1>3, <2>1 DEF EventKept, Conditions
  <2> QED BY <2>2 DEF TakenBy
<1>6. \A e : (TakenOver(e) <=> e \in ghost.heard \/ TakenBy(sim, e))
             /\ (TakenOver(e)' <=> e \in ghost'.heard \/ TakenBy(sim', e))
  BY DEF TakenOver, TakenBy
<1>7. \A task : Queued(task) => Queued(task)'
  <2>1. \A i \in DOMAIN sim.queue : i \in DOMAIN sim'.queue /\ sim'.queue[i] = sim.queue[i]
    BY <1>1, SimFields DEF Tame, QueueGrows
  <2> QED BY <2>1 DEF Queued
<1>8. \A task : Due(sim', task) => Queued(task)'
  BY DEF Due, Queued
<1>9. \A e \in DOMAIN sim'.events : sim'.events[e].defused => TakenOver(e)'
  <2> TAKE e \in DOMAIN sim'.events
  <2>1. CASE e \in DOMAIN sim.events
    <3>1. sim.events[e].defused => TakenOver(e)
      BY <2>1 DEF FaultInv
    <3>2. sim'.events[e].defused => sim.events[e].defused \/ TakenBy(sim', e)
      BY <1>3, <2>1 DEF EventKept
    <3> QED BY <1>1, <1>5, <1>6, <3>1, <3>2
  <2>2. CASE e \notin DOMAIN sim.events
    BY <1>4, <1>6, <2>2 DEF Born
  <2> QED BY <2>1, <2>2
<1>10. \A e \in DOMAIN sim'.events :
         Failed(sim', e) /\ sim'.events[e].processed /\ step'.task # Call("event", e)
           => e \in ghost'.heard \/ sim'.events[e].defused \/ Queued(Call("event", e))'
  <2> SUFFICES ASSUME NEW e \in DOMAIN sim'.events, Failed(sim', e), sim'.events[e].processed,
                      step'.task # Call("event", e), ~ Queued(Call("event", e))'
               PROVE  e \in ghost'.heard \/ sim'.events[e].defused
    OBVIOUS
  <2>1. e \in DOMAIN sim.events
    BY <1>4 DEF Born
  <2>2. EventKept(sim, sim', e)
    BY <1>3, <2>1
  <2>3. sim.events[e].processed
    BY <2>2 DEF EventKept
  <2>4. sim'.events[e].state = sim.events[e].state
    BY <1>1, <1>8, <2>1, <2>3 DEF Tame
  <2>5. Failed(sim, e) /\ ~ Queued(Call("event", e)) /\ step.task # Call("event", e)
    BY <1>2, <1>7, <2>4 DEF Failed
  <2>6. e \in ghost.heard \/ sim.events[e].defused
    BY <2>1, <2>3, <2>5 DEF FaultInv
  <2> QED BY <1>1, <2>2, <2>6 DEF EventKept
<1>11. control' \in Processes(sim') /\ step'.task.do = "event" /\ Failed(sim', step'.task.of)
         => step'.task.of \in ghost'.heard
  <2> SUFFICES ASSUME control \in Processes(sim'), step.task.do = "event", Failed(sim', step.task.of)
               PROVE  step.task.of \in ghost.heard
    BY <1>1, <1>2
  <2>1. control \in Processes(sim) /\ control # Loop
    <3>1. control \in Processes(sim)
      BY <1>1, TameEvents
    <3>2. DOMAIN sim.events = 1 .. Len(sim.events)
      BY <1>1, SimFields
    <3> QED BY <3>1, <3>2 DEF Processes, Loop
  <2>2. step.task.of \in DOMAIN sim.events /\ sim.events[step.task.of].processed
    BY CallsOfStep
  <2>3. Failed(sim, step.task.of)
    BY <2>1, <2>2 DEF TameAction, Quiet, Failed
  <2> QED BY <2>1, <2>3 DEF FaultInv
<1> QED BY <1>9, <1>10, <1>11 DEF FaultInv

LEMMA TameKeeps ==
  ASSUME KInv, TameAction
  PROVE  KInv'
<1>1. SimOK(sim') /\ GhostOK'
  BY DEF TameAction, Tame
<1> QED BY <1>1, TameStepOK, TameWake, TameRun, TameFault DEF KInv

LEMMA QuietCall ==
  ASSUME KInv, NEW s, Quiet(sim, s), Calls(s)
  PROVE  KInv'
<1>1. TameAction
  BY DEF Calls, TameAction, Quiet, KInv, GhostOK
<1> QED BY <1>1, TameKeeps

LEMMA MakeEventKeeps == ASSUME KInv, MakeEvent PROVE KInv'
<1>1. SimOK(sim)
  BY DEF KInv
<1>2. Range(NewEvent("event").members) \subseteq DOMAIN sim.events
  BY NewEventFits DEF Range
<1>3. Quiet(sim, Create(sim, NewEvent("event")))
  BY <1>1, <1>2, NewEventFits, QuietCreate
<1> QED BY <1>3, QuietCall DEF MakeEvent

LEMMA MakeTimeoutKeeps == ASSUME KInv, MakeTimeout PROVE KInv'
<1>1. SimOK(sim)
  BY DEF KInv
<1>2. PICK d \in Delays :
        Calls(Schedule(Create(sim, [NewEvent("timeout") EXCEPT !.state = "ok"]),
                       Call("event", Fresh(sim)), NORMAL, d))
  BY DEF MakeTimeout
<1>3. d \in Times
  BY KernelAssumption
<1> DEFINE r == [NewEvent("timeout") EXCEPT !.state = "ok"]
           c == Fresh(sim)
           s == Create(sim, r)
           entry == [at |-> Plus(s.now, d), prio |-> NORMAL, task |-> Call("event", c)]
           t == [s EXCEPT !.queue = Append(@, entry)]
<1>4. NewEvent("timeout") \in EventType
  BY NewEventFits
<1>5. /\ r \in EventType /\ r.type = "timeout" /\ r.state = "ok"
      /\ r.processed = NewEvent("timeout").processed
      /\ r.defused = NewEvent("timeout").defused
      /\ r.callbacks = NewEvent("timeout").callbacks
      /\ r.target = NewEvent("timeout").target
      /\ r.members = NewEvent("timeout").members
  BY <1>4, NewEventFits DEF EventType
<1> HIDE DEF r
<1>6. /\ ~ r.processed /\ ~ r.defused /\ r.callbacks = <<>> /\ r.target = None
      /\ Range(r.members) \subseteq DOMAIN sim.events
  BY <1>5, NewEventFits DEF Range
<1>7. Quiet(sim, s)
  BY <1>1, <1>5, <1>6, QuietCreate
<1>8. /\ SimOK(s) /\ s.events[c] = r /\ c \in DOMAIN s.events
  BY <1>1, <1>5, <1>6, AddEvent
<1>9. Calls(t)
  BY <1>2 DEF Schedule, r
<1> HIDE DEF s, c
<1>10. s \in SimType /\ c \in Nat
  BY <1>8, SimFields DEF SimOK
<1>11. Call("event", c) \in CallType /\ Call("event", c).do = "event" /\ Call("event", c).of = c
  BY <1>10, EventCall DEF Call
<1>12. entry \in EntryType /\ Plus(s.now, d) >= s.now
  BY <1>3, <1>10, <1>11, EntryFits
<1>13. EntryOK(s, entry)
  BY <1>5, <1>8, <1>11, <1>12 DEF EntryOK
<1>14. Quiet(s, t)
  <2>1. entry.task.do \in {"event", "interrupt"}
    BY <1>11
  <2> HIDE DEF entry
  <2> QED BY <1>8, <1>12, <1>13, <2>1, QuietEntry
<1>15. Quiet(sim, t)
  BY <1>1, <1>7, <1>14, TameTrans DEF Quiet
<1> QED BY <1>9, <1>15, QuietCall

LEMMA PairOf ==
  ASSUME NEW S, NEW a \in S, NEW b \in S
  PROVE  <<a, b>> \in Seq(S)
OBVIOUS

LEMMA MakeConditionKeeps == ASSUME KInv, MakeCondition PROVE KInv'
<1>1. SimOK(sim)
  BY DEF KInv
<1>2. PICK type \in {"all", "any"} :
          \/ Calls(Combine(sim, type, <<>>))
          \/ \E d, e \in DOMAIN sim.events : d < e /\ Calls(Combine(sim, type, <<d, e>>))
  BY DEF MakeCondition
<1>3. CASE Calls(Combine(sim, type, <<>>))
  <2>1. <<>> \in Seq(DOMAIN sim.events)
    OBVIOUS
  <2>2. Quiet(sim, Combine(sim, type, <<>>))
    BY <1>1, <2>1, QuietCombine
  <2> QED BY <1>3, <2>2, QuietCall
<1>4. ASSUME NEW d \in DOMAIN sim.events, NEW e \in DOMAIN sim.events,
             Calls(Combine(sim, type, <<d, e>>))
      PROVE  KInv'
  <2>1. <<d, e>> \in Seq(DOMAIN sim.events)
    BY PairOf
  <2>2. Quiet(sim, Combine(sim, type, <<d, e>>))
    BY <1>1, <2>1, QuietCombine
  <2> QED BY <1>4, <2>2, QuietCall
<1> QED BY <1>2, <1>3, <1>4

LEMMA SucceedOrFailKeeps == ASSUME KInv, SucceedOrFail PROVE KInv'
<1>1. SimOK(sim)
  BY DEF KInv
<1>2. PICK e \in DOMAIN sim.events, state \in {"ok", "failed"} :
        Pending(e) /\ Calls(Trigger(sim, e, state))
  BY DEF SucceedOrFail
<1>3. e \notin Processes(sim) /\ ~ sim.events[e].processed /\ e \notin Conditions(sim)
  BY <1>1, <1>2 DEF Pending, SimOK, EventOK, Processes, Conditions
<1>4. Quiet(sim, Trigger(sim, e, state))
  BY <1>1, <1>3, TameTrigger
<1> QED BY <1>2, <1>4, QuietCall

LEMMA ChainKeeps == ASSUME KInv, Chain PROVE KInv'
<1>1. SimOK(sim)
  BY DEF KInv
<1>2. PICK e \in DOMAIN sim.events, f \in DOMAIN sim.events :
        /\ ~ sim.events[e].processed /\ Pending(f) /\ e # f
        /\ Calls(Hook(sim, e, Call("trigger", f)))
  BY DEF Chain
<1>3. f \in Nat
  BY <1>1, SimFields DEF SimOK
<1>4. /\ Call("trigger", f) \in CallType
      /\ CallOK(sim, e, Call("trigger", f)) /\ ~ Waker(Call("trigger", f))
  BY <1>2, <1>3 DEF Call, CallType, CallOK, Waker, Pending
<1>5. Quiet(sim, Hook(sim, e, Call("trigger", f)))
  BY <1>1, <1>2, <1>4, QuietHook
<1> QED BY <1>2, <1>5, QuietCall

LEMMA InterruptKeeps == ASSUME KInv, Interrupt PROVE KInv'
<1>1. SimOK(sim) /\ sim \in SimType
  BY DEF KInv, SimOK
<1>2. PICK p \in Processes(sim) : Calls(Interrupted(sim, p))
  BY DEF Interrupt
<1> DEFINE entry == [at |-> Plus(sim.now, 0), prio |-> URGENT, task |-> Call("interrupt", p)]
           t == [sim EXCEPT !.queue = Append(@, entry)]
<1>3. Calls(t)
  BY <1>2 DEF Interrupted, Schedule
<1>4. p \in Nat
  BY <1>1, SimFields DEF Processes
<1>5. /\ Call("interrupt", p) \in CallType
      /\ Call("interrupt", p).do = "interrupt" /\ Call("interrupt", p).of = p
  BY <1>4 DEF Call, CallType
<1>6. entry \in EntryType /\ Plus(sim.now, 0) = sim.now /\ sim.now >= sim.now
  BY <1>1, <1>5, TimesAreNatural, EntryFits
<1>7. EntryOK(sim, entry) /\ entry.task.do \in {"event", "interrupt"}
  BY <1>5, <1>6 DEF EntryOK
<1> HIDE DEF entry
<1>8. Quiet(sim, t)
  BY <1>1, <1>6, <1>7, QuietEntry
<1> QED BY <1>3, <1>8, QuietCall

LEMMA TameCallback ==
  ASSUME KInv, NEW do \in {"check", "build", "trigger", "put", "get"}, Turn(do),
         Tame(sim, sim'), step' = [step EXCEPT !.rest = Tail(@)],
         UNCHANGED <<control, run>>,
         GhostOK', ghost'.heard = ghost.heard, ghost'.stranded = ghost.stranded
  PROVE  KInv'
<1>1. TameAction
  BY DEF TameAction, Turn
<1> QED BY <1>1, TameKeeps

\* The callback called is fit for the event of the step.
LEMMA CalleeOK ==
  ASSUME KInv, NEW do \in {"check", "build", "trigger", "put", "get"}, Turn(do)
  PROVE  /\ SimOK(sim) /\ CallOK(sim, step.task.of, Head(step.rest))
         /\ step.task.of \in DOMAIN sim.events /\ sim.events[step.task.of].processed
<1>1. SimOK(sim) /\ StepOK
  BY DEF KInv
<1>2. step.task.do = "event"
  BY <1>1, CallbackOfEvent DEF Turn
<1>3. Head(step.rest) \in Range(step.rest)
  BY <1>1, RestOfStep DEF Turn
<1> QED BY <1>1, <1>2, <1>3, CallsOfStep

LEMMA RunCheckKeeps == ASSUME KInv, RunCheck PROVE KInv'
<1>1. Turn("check") /\ Done(Check(sim, Callee, step.task.of))
  BY DEF RunCheck
<1>2. /\ SimOK(sim) /\ CallOK(sim, step.task.of, Head(step.rest))
      /\ step.task.of \in DOMAIN sim.events
  BY <1>1, CalleeOK
<1>3. Callee \in Conditions(sim)
  BY <1>1, <1>2 DEF CallOK, Turn, Callee
<1>4. Tame(sim, Check(sim, Callee, step.task.of))
  BY <1>2, <1>3, QuietCheck DEF Quiet
<1> QED BY <1>1, <1>4, TameCallback DEF Done, KInv, GhostOK

LEMMA RunBuildKeeps == ASSUME KInv, RunBuild PROVE KInv'
<1>1. SimOK(sim)
  BY DEF KInv
<1>2. Tame(sim, sim')
  BY <1>1, QuietRemoveChecks DEF RunBuild, Quiet
<1>3. ghost'.heard = ghost.heard /\ ghost'.stranded = ghost.stranded /\ GhostOK'
  <2> DEFINE orphaned == ghost.orphaned \cup (Nested(sim, Callee) \ {Callee})
  <2>1. ghost' = [ghost EXCEPT !.orphaned = orphaned]
    BY DEF RunBuild
  <2> HIDE DEF orphaned
  <2>2. ghost' = [stranded |-> ghost.stranded, orphaned |-> orphaned, heard |-> ghost.heard]
    BY <2>1 DEF KInv, GhostOK
  <2> QED BY <2>2 DEF GhostOK
<1> QED BY <1>2, <1>3, TameCallback DEF RunBuild

LEMMA RunTriggerKeeps == ASSUME KInv, RunTrigger PROVE KInv'
<1>1. Turn("trigger") /\ Done(Trigger(sim, Callee, sim.events[step.task.of].state))
  BY DEF RunTrigger
<1>2. /\ SimOK(sim) /\ CallOK(sim, step.task.of, Head(step.rest))
      /\ step.task.of \in DOMAIN sim.events /\ sim.events[step.task.of].processed
  BY <1>1, CalleeOK
<1>3. Callee \in DOMAIN sim.events \ Processes(sim) /\ Callee \notin Conditions(sim)
  BY <1>1, <1>2 DEF CallOK, Turn, Callee, Processes, Conditions
<1>4. sim.events[step.task.of].state \in {"ok", "failed"}
  <2>1. sim.events[step.task.of] \in EventType
    BY <1>2, SimFields DEF SimOK
  <2>2. sim.events[step.task.of].state # "pending"
    BY <1>2 DEF SimOK, EventOK
  <2> QED BY <2>1, <2>2 DEF EventType
<1>5. Tame(sim, Trigger(sim, Callee, sim.events[step.task.of].state))
  BY <1>2, <1>3, <1>4, TameTrigger
<1> QED BY <1>1, <1>5, TameCallback DEF Done, KInv, GhostOK

-----------------------------------------------------------------------------
(* What keeps the parts of the invariant when someone is woken. *)

LEMMA ResumesInStep ==
  ASSUME StepOK, NEW p, InStep(p) # {}
  PROVE  p \in Processes(sim)
<1>1. Call("resume", p) \in Range(step.rest)
  <2>1. step.rest \in Seq(CallType)
    BY CallsOfStep
  <2> QED BY <2>1, OccurrencesOfCalls DEF InStep
<1>2. PICK i \in DOMAIN step.rest : step.rest[i] = Call("resume", p)
  BY <1>1 DEF Range
<1>3. CASE step.task.do = "event"
  <2>1. CallOK(sim, step.task.of, Call("resume", p))
    BY <1>1, <1>3, CallsOfStep
  <2> QED BY <2>1 DEF CallOK, Call
<1>4. CASE step.task.do = "start"
  BY <1>2, <1>4 DEF StepOK, Call, NoTask
<1>5. CASE step.task.do = "interrupt"
  BY <1>2, <1>5 DEF StepOK, Call, NoTask
<1>6. CASE step.task = Call("stop", None)
  BY <1>2, <1>6 DEF StepOK, Call, NoTask
<1>7. CASE step.task = NoTask
  BY <1>2, <1>7 DEF StepOK, Call, NoTask
<1> QED BY <1>3, <1>4, <1>5, <1>6, <1>7 DEF StepOK

LEMMA RunStays ==
  ASSUME RunInv, RunKept
  PROVE  RunInv'
<1>1. run'.until \in {None} \cup DOMAIN sim'.events
  BY DEF RunInv, RunKept
<1>2. control # Main => StopAhead'
  <2>1. run.until # None => run.until \in DOMAIN sim.events
    BY DEF RunInv
  <2> QED BY <2>1 DEF RunInv, StopAhead, RunKept
<1>3. control # Main /\ run.clean => OwnStops'
  <2> SUFFICES ASSUME control # Main, run.clean PROVE OwnStops'
    OBVIOUS
  <2>1. OwnStops
    BY DEF RunInv
  <2>2. \A i \in DOMAIN sim'.queue :
          sim'.queue[i].task.do = "stop" => run'.until = None /\ sim'.queue[i].at = OwnStopTime'
    BY <2>1 DEF OwnStops, OwnStopTime, RunKept
  <2>3. \A e \in DOMAIN sim'.events : StopCall \in Range(sim'.events[e].callbacks) => e = run'.until
    BY <2>1 DEF OwnStops, RunKept
  <2>4. StopCall \in Range(step'.rest) =>
          \/ step'.task.do = "stop" /\ run'.until = None /\ sim'.now = OwnStopTime'
          \/ step'.task.do = "event" /\ step'.task.of = run'.until
    BY <2>1 DEF OwnStops, OwnStopTime, RunKept
  <2>5. StopCall' = StopCall
    BY DEF StopCall, Call
  <2> QED BY <2>2, <2>3, <2>4, <2>5 DEF OwnStops
<1>4. StopsWhereAsked'
  <2>1. StopsWhereAsked /\ run' = run /\ sim'.now = sim.now
    BY DEF RunInv, RunKept
  <2>2. CASE run.until = None
    <3>1. run.result # "starved"
      BY <2>2 DEF RunInv
    <3> QED BY <2>1, <2>2, <3>1 DEF StopsWhereAsked
  <2>3. CASE run.until # None
    <3>1. run.until \in DOMAIN sim.events
      BY <2>3 DEF RunInv
    <3>2. /\ sim'.events[run.until].processed = sim.events[run.until].processed
          /\ sim.events[run.until].processed =>
               sim'.events[run.until].state = sim.events[run.until].state
      BY <3>1 DEF RunKept
    <3> QED BY <2>1, <2>3, <3>2 DEF StopsWhereAsked, Failed
  <2> QED BY <2>2, <2>3
<1> QED BY <1>1, <1>2, <1>3, <1>4 DEF RunInv, RunKept

HeardWhenRun ==
  control \in Processes(sim) /\ step.task.do = "event" /\ Failed(sim, step.task.of)
    => step.task.of \in ghost.heard

LEMMA FaultStays ==
  ASSUME FaultInv, \A e \in DOMAIN sim.events : FaultKept(e),
         \A e \in DOMAIN sim'.events \ DOMAIN sim.events :
            ~ sim'.events[e].processed /\ ~ sim'.events[e].defused,
         ghost.heard \subseteq ghost'.heard, HeardWhenRun'
  PROVE  FaultInv'
<1>1. \A e : TakenOver(e) => TakenOver(e)'
  <2> SUFFICES ASSUME NEW e, NEW c \in Conditions(sim), Failed(sim, c), e \in Range(sim.events[c].members)
               PROVE  TakenOver(e)'
    BY DEF TakenOver
  <2>1. c \in DOMAIN sim.events
    BY DEF Conditions
  <2>2. c \in Conditions(sim') /\ Failed(sim', c) /\ e \in Range(sim'.events[c].members)
    BY <2>1 DEF FaultKept, Conditions, Failed
  <2> QED BY <2>2 DEF TakenOver
<1>2. \A e \in DOMAIN sim'.events : sim'.events[e].defused => TakenOver(e)'
  <2> TAKE e \in DOMAIN sim'.events
  <2>1. CASE e \in DOMAIN sim.events
    <3>1. sim.events[e].defused => TakenOver(e)
      BY <2>1 DEF FaultInv
    <3>2. sim'.events[e].defused => sim.events[e].defused \/ e \in ghost'.heard
      BY <2>1 DEF FaultKept
    <3>3. e \in ghost'.heard => TakenOver(e)'
      BY DEF TakenOver
    <3> QED BY <1>1, <3>1, <3>2, <3>3
  <2>2. CASE e \notin DOMAIN sim.events
    BY <2>2
  <2> QED BY <2>1, <2>2
<1>3. ASSUME NEW e \in DOMAIN sim'.events, Failed(sim', e), sim'.events[e].processed,
             step'.task # Call("event", e), ~ Queued(Call("event", e))'
      PROVE  e \in ghost'.heard \/ sim'.events[e].defused
  <2>1. e \in DOMAIN sim.events
    BY <1>3
  <2>2. FaultKept(e)
    BY <2>1
  <2>3. sim.events[e].processed
    BY <1>3, <2>2 DEF FaultKept
  <2>4. Failed(sim, e)
    BY <1>3, <2>2, <2>3 DEF FaultKept, Failed
  <2>5. CASE step.task # Call("event", e)
    <3>1. e \in ghost.heard \/ sim.events[e].defused \/ Queued(Call("event", e))
      BY <2>1, <2>3, <2>4, <2>5 DEF FaultInv
    <3> QED BY <1>3, <2>2, <3>1 DEF FaultKept
  <2>6. CASE step.task = Call("event", e)
    BY <1>3, <2>2, <2>4, <2>6 DEF FaultKept
  <2> QED BY <2>5, <2>6
<1> QED BY <1>2, <1>3 DEF FaultInv, HeardWhenRun

-----------------------------------------------------------------------------
(* Actions that start, resume or stop someone preserve the invariant. *)

HooksStay(q) ==
  /\ DOMAIN sim.events \subseteq DOMAIN sim'.events
  /\ \A e \in DOMAIN sim.events : Single(Hooked(q, e)) => Single(Hooked(q, e)')
  /\ \A e \in DOMAIN sim'.events : Hooked(q, e)' # {} => e \in DOMAIN sim.events /\ Hooked(q, e) # {}

LEMMA NoHookStays ==
  ASSUME NEW q, HooksStay(q), NoHook(q)
  PROVE  NoHook(q)'
BY DEF HooksStay, NoHook

\* The processes of a Sim to which an event has been added.
LEMMA MoreProcesses ==
  ASSUME NEW s, NEW t, DOMAIN s.events \subseteq DOMAIN t.events,
         \A e \in DOMAIN s.events : t.events[e].type = s.events[e].type
  PROVE  Processes(s) \subseteq Processes(t)
BY DEF Processes

\* The step under way is fit for a Sim that has grown.
LEMMA StepStays ==
  ASSUME SimOK(sim), SimOK(sim'), StepOK, step' = step,
         DOMAIN sim.events \subseteq DOMAIN sim'.events,
         \A e \in DOMAIN sim.events : /\ sim'.events[e].type = sim.events[e].type
                                      /\ sim'.events[e].members = sim.events[e].members
                                      /\ sim'.events[e].processed = sim.events[e].processed,
         control' \in {Main, Loop} \cup Processes(sim'),
         control' = Main <=> control = Main,
         control' \in Processes(sim') => step.task # NoTask
  PROVE  StepOK'
<1>1. sim \in SimType /\ sim' \in SimType
  BY DEF SimOK
<1>2. \A e \in DOMAIN sim.events : \A call : CallOK(sim, e, call) => CallOK(sim', e, call)
  BY <1>1, CallsFit
<1>3. Processes(sim) \subseteq Processes(sim')
  BY MoreProcesses
<1> QED BY <1>2, <1>3 DEF StepOK

LEMMA SpawnKeeps == ASSUME KInv, Spawn PROVE KInv'
<1>1. /\ SimOK(sim) /\ sim \in SimType /\ GhostOK /\ StepOK /\ WakeInv /\ RunInv /\ FaultInv
  BY DEF KInv, SimOK
<1>0. PICK c : c = Fresh(sim)
  OBVIOUS
<1> DEFINE r == NewEvent("process")
           s == Create(sim, r)
           entry == [at |-> Plus(s.now, 0), prio |-> URGENT, task |-> Call("start", c)]
<1>2. Spawned(sim) = [s EXCEPT !.queue = Append(@, entry)]
  BY <1>0 DEF Spawned, Schedule
<1>3. UNCHANGED <<control, step, run, ghost>> /\ sim' = [s EXCEPT !.queue = Append(@, entry)]
  BY <1>2 DEF Spawn, Calls
<1>4. /\ r \in EventType /\ r.type = "process" /\ r.state = "pending" /\ ~ r.processed
      /\ ~ r.defused /\ r.callbacks = <<>> /\ r.target = None /\ r.members = <<>>
  BY NewEventFits
<1> HIDE DEF r
<1>5. /\ SimOK(s) /\ DOMAIN s.events = DOMAIN sim.events \cup {c} /\ c \notin DOMAIN sim.events
      /\ s.events[c] = r /\ \A e \in DOMAIN sim.events : s.events[e] = sim.events[e]
      /\ s.now = sim.now /\ s.queue = sim.queue /\ s.active = sim.active
  <2>1. Range(r.members) \subseteq DOMAIN sim.events
    BY <1>4 DEF Range
  <2> QED BY <1>0, <1>1, <1>4, <2>1, AddEvent
<1> HIDE DEF s
<1>6. s \in SimType /\ c \in Nat \ {0} /\ c \in Processes(s) /\ s.now \in Nat
  BY <1>4, <1>5, SimFields DEF SimOK, Processes
<1>7. Call("start", c) \in CallType /\ Call("start", c).do = "start" /\ Call("start", c).of = c
  BY <1>6 DEF Call, CallType
<1>8. entry \in EntryType /\ entry.at = s.now /\ entry.prio = URGENT /\ entry.task = Call("start", c)
  BY <1>6, <1>7, TimesAreNatural, EntryFits
<1>9. EntryOK(s, entry)
  BY <1>6, <1>7, <1>8 DEF EntryOK
<1>10. \A i \in DOMAIN sim.queue : \A do \in {"start", "interrupt"} : sim.queue[i].task # Call(do, c)
  <2> SUFFICES ASSUME NEW i \in DOMAIN sim.queue, NEW do \in {"start", "interrupt"},
                      sim.queue[i].task = Call(do, c)
               PROVE  FALSE
    OBVIOUS
  <2>1. EntryOK(sim, sim.queue[i])
    BY <1>1 DEF SimOK
  <2>2. c \in Processes(sim)
    BY <2>1 DEF EntryOK, Call
  <2> QED BY <1>5, <2>2 DEF Processes
<1> HIDE DEF entry
<1>11. /\ SimOK(sim') /\ sim'.events = s.events /\ sim'.now = s.now /\ sim'.active = s.active
       /\ sim'.queue = Append(s.queue, entry)
  BY <1>3, <1>5, <1>7, <1>8, <1>9, <1>10, AddEntry
<1>12. /\ DOMAIN sim'.queue = DOMAIN sim.queue \cup {Len(sim.queue) + 1}
       /\ Len(sim.queue) + 1 \notin DOMAIN sim.queue
       /\ sim'.queue[Len(sim.queue) + 1] = entry
       /\ \A i \in DOMAIN sim.queue : sim'.queue[i] = sim.queue[i]
  BY <1>1, <1>5, <1>8, <1>11, SimFields
<1>13. Processes(sim') = Processes(sim) \cup {c}
  BY <1>4, <1>5, <1>11 DEF Processes
<1>14. StepOK'
  <2>1. control \in {Main, Loop} \cup Processes(sim) /\ (control \in Processes(sim) => step.task # NoTask)
    BY <1>1 DEF StepOK
  <2>2. control # c
    BY <1>5, <1>6, <2>1 DEF Processes, Main, Loop
  <2> QED BY <1>1, <1>3, <1>5, <1>11, <1>13, <2>1, <2>2, StepStays
<1>15. \A q \in Processes(sim) : AtTarget(q)' /\ OnePlace(q)' /\ StartedBefore(q)'
  <2> TAKE q \in Processes(sim)
  <2>1. AtTarget(q) /\ OnePlace(q) /\ StartedBefore(q)
    BY <1>1 DEF WakeInv
  <2>2. q \in DOMAIN sim.events /\ q # c
    BY <1>5 DEF Processes
  <2>3. Starts(q)' = Starts(q)
    <3>1. entry.task # Call("start", q)
      BY <1>8, <2>2 DEF Call
    <3> QED BY <1>12, <3>1 DEF Starts
  <2>4. Awaits(q)' <=> Awaits(q)
    BY <1>3, <1>5, <1>11, <2>2 DEF Awaits, Alive
  <2>5. HooksStay(q)
    <3>1. \A e \in DOMAIN sim.events : Hooked(q, e)' = Hooked(q, e)
      BY <1>5, <1>11 DEF Hooked
    <3>2. Hooked(q, c)' = {}
      BY <1>4, <1>5, <1>11 DEF Hooked, Occurrences
    <3> QED BY <1>5, <1>11, <3>1, <3>2 DEF HooksStay
  <2>6. InStep(q)' = InStep(q) /\ step' = step
    BY <1>3 DEF InStep
  <2>7. sim'.events[q].target = sim.events[q].target
    BY <1>5, <1>11, <2>2
  <2>8. AtTarget(q)' /\ OnePlace(q)'
    BY <2>1, <2>3, <2>4, <2>5, <2>6, <2>7, SamePlace DEF HooksStay
  <2> QED BY <2>1, <2>3, <2>6, <2>8 DEF StartedBefore
<1>16. AtTarget(c)' /\ OnePlace(c)' /\ StartedBefore(c)'
  <2>1. NoHook(c)'
    <3> SUFFICES ASSUME NEW e \in DOMAIN sim'.events PROVE Hooked(c, e)' = {}
      BY DEF NoHook
    <3>1. CASE e = c
      BY <1>4, <1>5, <1>11, <3>1 DEF Hooked, Occurrences
    <3>2. CASE e # c
      <4>1. e \in DOMAIN sim.events /\ sim'.events[e] = sim.events[e] /\ EventOK(sim, e)
        BY <1>1, <1>5, <1>11, <3>2 DEF SimOK
      <4>2. \A i \in DOMAIN sim.events[e].callbacks : sim.events[e].callbacks[i] # Call("resume", c)
        <5> SUFFICES ASSUME NEW i \in DOMAIN sim.events[e].callbacks,
                            sim.events[e].callbacks[i] = Call("resume", c)
                     PROVE  FALSE
          OBVIOUS
        <5>1. CallOK(sim, e, Call("resume", c))
          BY <4>1 DEF EventOK
        <5> QED BY <1>5, <5>1 DEF CallOK, Call, Processes
      <4> QED BY <4>1, <4>2 DEF Hooked, Occurrences
    <3> QED BY <3>1, <3>2
  <2>2. InStep(c) = {} /\ InStep(c)' = {}
    <3>1. c \notin Processes(sim)
      BY <1>5 DEF Processes
    <3>2. InStep(c)' = InStep(c)
      BY <1>3 DEF InStep
    <3> QED BY <1>1, <3>1, <3>2, ResumesInStep
  <2>3. Starts(c)' = {Len(sim.queue) + 1}
    BY <1>8, <1>10, <1>12 DEF Starts
  <2>4. Single(Starts(c)')
    BY <2>3 DEF Single
  <2>5. Awaits(c)'
    <3>1. Alive(sim', c)
      BY <1>4, <1>5, <1>11 DEF Alive
    <3>2. c # control' /\ c \notin ghost'.stranded
      <4>1. control \in {Main, Loop} \cup Processes(sim) /\ ghost.stranded \subseteq Processes(sim)
        BY <1>1 DEF StepOK, WakeInv
      <4> QED BY <1>3, <1>5, <1>6, <4>1 DEF Main, Loop, Processes
    <3> QED BY <3>1, <3>2 DEF Awaits
  <2>6. AtTarget(c)'
    BY <2>1, <2>2 DEF AtTarget, NoHook
  <2>7. OnePlace(c)'
    BY <2>1, <2>2, <2>4, <2>5 DEF OnePlace
  <2>8. StartedBefore(c)'
    <3>1. step.task # Call("interrupt", c)
      <4> SUFFICES ASSUME step.task = Call("interrupt", c) PROVE FALSE
        OBVIOUS
      <4>1. c \in Processes(sim)
        BY <1>1 DEF StepOK, Call, NoTask
      <4> QED BY <1>5, <4>1 DEF Processes
    <3> QED BY <1>3, <3>1 DEF StartedBefore, Call
  <2> QED BY <2>6, <2>7, <2>8
<1>17. WakeInv'
  <2>1. control' \in Processes(sim') => Alive(sim', control') /\ control' \notin ghost'.stranded
    <3>1. control \in {Main, Loop} \cup Processes(sim)
      BY <1>1 DEF StepOK
    <3>2. control # c
      BY <1>5, <1>6, <3>1 DEF Main, Loop, Processes
    <3>3. control \in Processes(sim) => sim'.events[control] = sim.events[control]
      BY <1>5, <1>11 DEF Processes
    <3> QED BY <1>1, <1>3, <1>13, <3>2, <3>3 DEF WakeInv, Alive
  <2>2. ghost'.stranded \subseteq Processes(sim')
    BY <1>1, <1>3, <1>13 DEF WakeInv
  <2> QED BY <1>13, <1>15, <1>16, <2>1, <2>2 DEF WakeInv
<1>18. RunInv'
  <2>1. RunKept
    <3>1. entry.task.do # "stop"
      BY <1>7, <1>8
    <3>2. StopCall \notin Range(sim'.events[c].callbacks)
      BY <1>4, <1>5, <1>11 DEF Range
    <3> QED BY <1>3, <1>5, <1>11, <1>12, <3>1, <3>2 DEF RunKept
  <2> QED BY <1>1, <2>1, RunStays
<1>19. FaultInv'
  <2>1. \A e \in DOMAIN sim.events : FaultKept(e)
    <3> TAKE e \in DOMAIN sim.events
    <3>1. sim'.events[e] = sim.events[e] /\ e \in DOMAIN sim'.events
      BY <1>5, <1>11
    <3>2. Queued(Call("event", e)) => Queued(Call("event", e))'
      BY <1>12 DEF Queued, Call
    <3> QED BY <1>3, <3>1, <3>2 DEF FaultKept
  <2>2. HeardWhenRun'
    <3>1. control \in {Main, Loop} \cup Processes(sim)
      BY <1>1 DEF StepOK
    <3>2. control # c
      BY <1>5, <1>6, <3>1 DEF Main, Loop, Processes
    <3>3. step.task.do = "event" => sim'.events[step.task.of] = sim.events[step.task.of]
      BY <1>1, <1>5, <1>11, CallsOfStep
    <3> QED BY <1>1, <1>3, <1>13, <3>2, <3>3 DEF HeardWhenRun, FaultInv, Failed
  <2>3. \A e \in DOMAIN sim'.events \ DOMAIN sim.events :
            ~ sim'.events[e].processed /\ ~ sim'.events[e].defused
    BY <1>4, <1>5, <1>11
  <2>4. ghost.heard \subseteq ghost'.heard
    BY <1>3
  <2> QED BY <1>1, <2>1, <2>2, <2>3, <2>4, FaultStays
<1>20. GhostOK'
  BY <1>1, <1>3 DEF GhostOK
<1> QED BY <1>11, <1>14, <1>17, <1>18, <1>19, <1>20 DEF KInv

-----------------------------------------------------------------------------
(* What a yield, an interrupt or the end of a body does to one event. *)

Aimed(s, p, x) == [s EXCEPT !.events[p].target = x]

LEMMA TargetSim ==
  ASSUME NEW s, SimOK(s), NEW p \in DOMAIN s.events, NEW x \in {None} \cup DOMAIN s.events,
         NEW t, t = Aimed(s, p, x)
  PROVE  /\ SimOK(t) /\ Only(s, t, p) /\ t.active = s.active
         /\ Likewise(s.events[p], t.events[p]) /\ t.events[p].target = x
         /\ t.events[p].callbacks = s.events[p].callbacks
         /\ t.events[p].defused = s.events[p].defused
<1> DEFINE r == [s.events[p] EXCEPT !.target = x]
<1>1. s \in SimType
  BY DEF SimOK
<1>2. s.events[p] \in EventType /\ EventOK(s, p) /\ x \in Nat
  BY <1>1, SimFields DEF SimOK, None
<1>3. /\ r \in EventType
      /\ r.type = s.events[p].type /\ r.members = s.events[p].members
      /\ r.processed = s.events[p].processed /\ r.target = x
      /\ r.state = s.events[p].state /\ r.defused = s.events[p].defused
      /\ r.callbacks = s.events[p].callbacks
  BY <1>2 DEF EventType
<1>4. t = Put(s, p, r)
  BY <1>1 DEF Aimed, Put, SimType
<1> HIDE DEF r
<1>5. /\ SimOK(t)
      /\ DOMAIN t.events = DOMAIN s.events
      /\ t.events[p] = r
      /\ \A f \in DOMAIN s.events \ {p} : t.events[f] = s.events[f]
      /\ t.now = s.now /\ t.queue = s.queue /\ t.active = s.active
  <2>1. r.target \in {None} \cup DOMAIN s.events
    BY <1>3
  <2>2. r.processed => r.callbacks = <<>> /\ r.state # "pending"
    BY <1>2, <1>3 DEF EventOK
  <2>3. s.events[p].state # "pending" => r.state # "pending"
    BY <1>3
  <2>4. \A i \in DOMAIN r.callbacks : CallOK(s, p, r.callbacks[i])
    BY <1>2, <1>3 DEF EventOK
  <2>5. r \in EventType /\ r.type = s.events[p].type /\ r.members = s.events[p].members
    BY <1>3
  <2> QED BY <1>4, <2>1, <2>2, <2>3, <2>4, <2>5, ReplaceEvent
<1> QED BY <1>3, <1>5 DEF Only, Likewise

LEMMA ActiveSim ==
  ASSUME NEW s, SimOK(s), NEW x \in {None} \cup Processes(s), NEW t, t = [s EXCEPT !.active = x]
  PROVE  /\ SimOK(t) /\ t.events = s.events /\ t.now = s.now /\ t.queue = s.queue /\ t.active = x
<1>1. s \in SimType
  BY DEF SimOK
<1>2. x \in Nat
  BY <1>1, SimFields DEF Processes, None
<1>3. t \in SimType /\ t.events = s.events /\ t.now = s.now /\ t.queue = s.queue /\ t.active = x
  BY <1>1, <1>2 DEF SimType
<1>4. \A e \in DOMAIN s.events : EventOK(t, e)
  <2> TAKE e \in DOMAIN s.events
  <2>1. EventOK(s, e)
    BY DEF SimOK
  <2>2. \A call : CallOK(s, e, call) => CallOK(t, e, call)
    BY <1>1, <1>3, CallsFit
  <2> QED BY <1>3, <2>1, <2>2 DEF EventOK
<1>5. \A i \in DOMAIN s.queue : EntryOK(t, s.queue[i])
  <2> TAKE i \in DOMAIN s.queue
  <2>1. EntryOK(s, s.queue[i])
    BY DEF SimOK
  <2> QED BY <1>1, <1>3, <2>1, EntriesFit
<1>6. StartsFirst(t)
  BY <1>3 DEF SimOK, StartsFirst
<1>7. Processes(t) = Processes(s)
  BY <1>3 DEF Processes
<1> QED BY <1>3, <1>4, <1>5, <1>6, <1>7 DEF SimOK

LEMMA SentSim ==
  ASSUME NEW s, SimOK(s), NEW e \in DOMAIN s.events, NEW t, t = Sent(s, e)
  PROVE  /\ SimOK(t) /\ Only(s, t, e) /\ t.active = s.active
         /\ Likewise(s.events[e], t.events[e])
         /\ t.events[e].target = s.events[e].target
         /\ t.events[e].callbacks = s.events[e].callbacks
         /\ t.events[e].defused => s.events[e].defused \/ Failed(s, e)
         /\ s.events[e].defused => t.events[e].defused
<1>1. CASE ~ Failed(s, e)
  BY <1>1 DEF Sent, Only, Likewise
<1>2. CASE Failed(s, e)
  <2> DEFINE r == [s.events[e] EXCEPT !.defused = TRUE]
  <2>1. s \in SimType
    BY DEF SimOK
  <2>2. s.events[e] \in EventType /\ EventOK(s, e)
    BY <2>1, SimFields DEF SimOK
  <2>3. /\ r \in EventType
        /\ r.type = s.events[e].type /\ r.members = s.events[e].members
        /\ r.processed = s.events[e].processed /\ r.target = s.events[e].target
        /\ r.state = s.events[e].state
        /\ r.callbacks = s.events[e].callbacks
    BY <2>2 DEF EventType
  <2>4. r.defused
    BY <2>2 DEF EventType
  <2>5. t = Put(s, e, r)
    BY <1>2, <2>1 DEF Sent, Put, SimType
  <2> HIDE DEF r
  <2>6. /\ SimOK(t)
        /\ DOMAIN t.events = DOMAIN s.events
        /\ t.events[e] = r
        /\ \A f \in DOMAIN s.events \ {e} : t.events[f] = s.events[f]
        /\ t.now = s.now /\ t.queue = s.queue /\ t.active = s.active
    <3>1. r.target \in {None} \cup DOMAIN s.events
      BY <2>2, <2>3 DEF EventOK
    <3>2. r.processed => r.callbacks = <<>> /\ r.state # "pending"
      BY <2>2, <2>3 DEF EventOK
    <3>3. s.events[e].state # "pending" => r.state # "pending"
      BY <2>3
    <3>4. \A i \in DOMAIN r.callbacks : CallOK(s, e, r.callbacks[i])
      BY <2>2, <2>3 DEF EventOK
    <3>5. r \in EventType /\ r.type = s.events[e].type /\ r.members = s.events[e].members
      BY <2>3
    <3> QED BY <2>5, <3>1, <3>2, <3>3, <3>4, <3>5, ReplaceEvent
  <2> QED BY <1>2, <2>3, <2>4, <2>6 DEF Only, Likewise
<1> QED BY <1>1, <1>2

LEMMA UnhookedSim ==
  ASSUME NEW s, SimOK(s), NEW p, NEW e \in DOMAIN s.events, s.events[p].target = e, p \in Nat,
         NEW t, t = Unhooked(s, p)
  PROVE  /\ SimOK(t) /\ Only(s, t, e) /\ t.active = s.active
         /\ Likewise(s.events[e], t.events[e])
         /\ t.events[e].target = s.events[e].target
         /\ t.events[e].defused = s.events[e].defused
         /\ t.events[e].callbacks = RemoveFirst(s.events[e].callbacks, Call("resume", p))
<1> DEFINE a == s.events[e].callbacks
           b == RemoveFirst(a, Call("resume", p))
           r == [s.events[e] EXCEPT !.callbacks = b]
<1>1. s \in SimType
  BY DEF SimOK
<1>2. s.events[e] \in EventType /\ EventOK(s, e) /\ a \in Seq(CallType)
  BY <1>1, SimFields DEF SimOK, EventType
<1>3. t = Put(s, e, r)
  BY <1>1 DEF Unhooked, Put, SimType
<1>4. Call("resume", p) \in CallType
  BY DEF Call, CallType
<1> HIDE DEF a
<1>5. b \in Seq(CallType) /\ Range(b) \subseteq Range(a)
  BY <1>2, <1>4, RemoveFirstCall
<1> HIDE DEF b
<1>6. /\ r \in EventType
      /\ r.type = s.events[e].type /\ r.members = s.events[e].members
      /\ r.processed = s.events[e].processed /\ r.target = s.events[e].target
      /\ r.state = s.events[e].state /\ r.defused = s.events[e].defused
      /\ r.callbacks = b
  BY <1>2, <1>5 DEF EventType
<1> HIDE DEF r
<1>7. \A i \in DOMAIN b : CallOK(s, e, b[i])
  <2> TAKE i \in DOMAIN b
  <2>1. b[i] \in Range(b)
    BY DEF Range
  <2>2. PICK j \in DOMAIN a : a[j] = b[i]
    BY <1>5, <2>1 DEF Range
  <2> QED BY <1>2, <2>2 DEF EventOK, a
<1>8. s.events[e].processed => b = <<>>
  <2> SUFFICES ASSUME s.events[e].processed, b # <<>> PROVE FALSE
    OBVIOUS
  <2>1. a = <<>>
    BY <1>2 DEF EventOK, a
  <2>2. Head(b) \in Range(a)
    BY <1>5, TailCall
  <2> QED BY <2>1, <2>2 DEF Range
<1>9. /\ SimOK(t)
      /\ DOMAIN t.events = DOMAIN s.events
      /\ t.events[e] = r
      /\ \A f \in DOMAIN s.events \ {e} : t.events[f] = s.events[f]
      /\ t.now = s.now /\ t.queue = s.queue /\ t.active = s.active
  <2>1. r.target \in {None} \cup DOMAIN s.events
    BY <1>2, <1>6 DEF EventOK
  <2>2. r.processed => r.callbacks = <<>> /\ r.state # "pending"
    BY <1>2, <1>6, <1>8 DEF EventOK
  <2>3. s.events[e].state # "pending" => r.state # "pending"
    BY <1>6
  <2>4. \A i \in DOMAIN r.callbacks : CallOK(s, e, r.callbacks[i])
    BY <1>6, <1>7
  <2>5. r \in EventType /\ r.type = s.events[e].type /\ r.members = s.events[e].members
    BY <1>6
  <2> QED BY <1>3, <2>1, <2>2, <2>3, <2>4, <2>5, ReplaceEvent
<1> QED BY <1>6, <1>9 DEF Only, Likewise, a, b

LEMMA ProcessIds ==
  ASSUME NEW s \in SimType
  PROVE  \A q \in Processes(s) : q \in Nat \ {0} /\ q \in DOMAIN s.events /\ q # Main /\ q # Loop
<1>1. DOMAIN s.events = 1 .. Len(s.events) /\ Len(s.events) \in Nat
  BY SimFields
<1> QED BY <1>1 DEF Processes, Main, Loop

\* What a queue that grows by events and interrupts leaves alone.
LEMMA GrownQueue ==
  ASSUME SimOK(sim), SimOK(sim'), QueueGrows(sim, sim')
  PROVE  /\ \A q : Starts(q)' = Starts(q)
         /\ \A task : Queued(task) => Queued(task)'
         /\ \A i \in DOMAIN sim'.queue : sim'.queue[i].task.do = "stop" =>
              \E j \in DOMAIN sim.queue : sim'.queue[i] = sim.queue[j]
<1>1. /\ DOMAIN sim.queue = 1 .. Len(sim.queue) /\ DOMAIN sim'.queue = 1 .. Len(sim'.queue)
      /\ Len(sim.queue) \in Nat /\ Len(sim'.queue) \in Nat
  BY SimFields DEF SimOK
<1>2. /\ DOMAIN sim.queue \subseteq DOMAIN sim'.queue
      /\ \A i \in DOMAIN sim.queue : sim'.queue[i] = sim.queue[i]
      /\ \A i \in DOMAIN sim'.queue \ DOMAIN sim.queue :
            sim'.queue[i].task.do \in {"event", "interrupt"}
  BY <1>1 DEF QueueGrows
<1>3. \A q : Call("start", q).do = "start"
  BY DEF Call
<1>4. \A q : Starts(q)' = Starts(q)
  BY <1>2, <1>3 DEF Starts
<1> QED BY <1>2, <1>4 DEF Queued

LEMMA EndKeeps == ASSUME KInv, End PROVE KInv'
<1>1. /\ SimOK(sim) /\ sim \in SimType /\ GhostOK /\ StepOK /\ WakeInv /\ RunInv /\ FaultInv
  BY DEF KInv, SimOK
<1>2. PICK p \in Processes(sim) : p = control
  BY DEF End
<1>3. PICK state \in {"ok", "failed"} : sim' = Ended(sim, p, state)
  BY <1>2 DEF End
<1>4. control' = Loop /\ UNCHANGED <<step, run, cast, ghost>>
  BY DEF End
<1>5. PICK a : a = Aimed(sim, p, None)
  OBVIOUS
<1>6. PICK b : b = [a EXCEPT !.active = None]
  OBVIOUS
<1>7. sim' = Trigger(b, p, state)
  <2>1. b = [sim EXCEPT !.events[p].target = None, !.active = None]
    BY <1>5, <1>6 DEF Aimed
  <2> QED BY <1>3, <2>1 DEF Ended
<1>8. p \in DOMAIN sim.events /\ p \in Nat \ {0} /\ p # Main /\ p # Loop
  BY <1>1, ProcessIds
<1>9. /\ SimOK(a) /\ Only(sim, a, p) /\ a.active = sim.active
      /\ Likewise(sim.events[p], a.events[p]) /\ a.events[p].target = None
      /\ a.events[p].callbacks = sim.events[p].callbacks
      /\ a.events[p].defused = sim.events[p].defused
  BY <1>1, <1>5, <1>8, TargetSim
<1>10. SimOK(b) /\ b.events = a.events /\ b.now = a.now /\ b.queue = a.queue
  BY <1>6, <1>9, ActiveSim
<1>11. /\ SimOK(sim') /\ sim'.now = b.now
       /\ DOMAIN sim'.events = DOMAIN b.events
       /\ \A f \in DOMAIN b.events \ {p} : sim'.events[f] = b.events[f]
       /\ sim'.events[p].type = b.events[p].type /\ sim'.events[p].members = b.events[p].members
       /\ sim'.events[p].processed = b.events[p].processed
       /\ sim'.events[p].state = state /\ sim'.events[p].defused = b.events[p].defused
       /\ sim'.events[p].callbacks = b.events[p].callbacks
       /\ QueueGrows(b, sim')
  <2>1. p \in DOMAIN b.events
    BY <1>8, <1>9, <1>10 DEF Only
  <2> QED BY <1>7, <1>10, <2>1, TriggerSim
<1>12. /\ DOMAIN sim'.events = DOMAIN sim.events /\ sim'.now = sim.now
       /\ \A f \in DOMAIN sim.events \ {p} : sim'.events[f] = sim.events[f]
       /\ sim'.events[p].type = sim.events[p].type /\ sim'.events[p].members = sim.events[p].members
       /\ sim'.events[p].processed = sim.events[p].processed
       /\ sim'.events[p].state = state /\ sim'.events[p].defused = sim.events[p].defused
       /\ sim'.events[p].callbacks = sim.events[p].callbacks
  BY <1>9, <1>10, <1>11 DEF Only, Likewise
<1>13. QueueGrows(sim, sim')
  BY <1>9, <1>10, <1>11 DEF Only, QueueGrows
<1>14. /\ \A q : Starts(q)' = Starts(q)
       /\ \A task : Queued(task) => Queued(task)'
       /\ \A i \in DOMAIN sim'.queue : sim'.queue[i].task.do = "stop" =>
            \E j \in DOMAIN sim.queue : sim'.queue[i] = sim.queue[j]
  BY <1>1, <1>11, <1>13, GrownQueue
<1>15. Processes(sim') = Processes(sim)
  BY <1>12 DEF Processes
<1>16. Alive(sim, p) /\ ~ sim.events[p].processed /\ p \notin Conditions(sim)
  <2>1. Alive(sim, p)
    BY <1>1, <1>2 DEF WakeInv
  <2>2. EventOK(sim, p)
    BY <1>1, <1>8 DEF SimOK
  <2> QED BY <2>1, <2>2 DEF EventOK, Alive, Conditions, Processes
<1>17. \A e \in DOMAIN sim.events : sim'.events[e].callbacks = sim.events[e].callbacks
  BY <1>12
<1>18. StepOK'
  <2>1. \A e \in DOMAIN sim.events : /\ sim'.events[e].type = sim.events[e].type
                                     /\ sim'.events[e].members = sim.events[e].members
                                     /\ sim'.events[e].processed = sim.events[e].processed
    BY <1>12
  <2>2. control' \notin Processes(sim') /\ control' # Main /\ control # Main
    BY <1>1, <1>2, <1>4, <1>8, <1>15, ProcessIds DEF Main, Loop
  <2> QED BY <1>1, <1>4, <1>11, <1>12, <2>1, <2>2, StepStays
<1>19. ASSUME NEW q \in Processes(sim) PROVE AtTarget(q)' /\ OnePlace(q)' /\ StartedBefore(q)'
  <2>1. AtTarget(q) /\ OnePlace(q) /\ StartedBefore(q)
    BY <1>1 DEF WakeInv
  <2>2. Starts(q)' = Starts(q) /\ InStep(q)' = InStep(q) /\ step' = step
    BY <1>4, <1>14 DEF InStep
  <2>3. HooksStay(q)
    BY <1>12, <1>17 DEF HooksStay, Hooked
  <2>4. StartedBefore(q)'
    BY <2>1, <2>2 DEF StartedBefore
  <2>5. CASE q = p
    <3>1. ~ Awaits(q) /\ ~ Awaits(q)'
      BY <1>2, <1>3, <1>12, <2>5 DEF Awaits, Alive
    <3>2. NoHook(q)'
      BY <2>1, <2>3, <3>1, NoHookStays DEF OnePlace
    <3> QED BY <2>1, <2>2, <2>4, <3>1, <3>2 DEF OnePlace, AtTarget, NoHook
  <2>6. CASE q # p
    <3>1. q \in DOMAIN sim.events /\ q # Loop
      BY <1>1, ProcessIds
    <3>2. Awaits(q)' <=> Awaits(q)
      BY <1>2, <1>4, <1>12, <2>6, <3>1 DEF Awaits, Alive
    <3>3. sim'.events[q].target = sim.events[q].target
      BY <1>12, <2>6, <3>1
    <3> QED BY <2>1, <2>2, <2>3, <2>4, <3>2, <3>3, SamePlace DEF HooksStay
  <2> QED BY <2>5, <2>6
<1>20. WakeInv'
  <2>1. control' \notin Processes(sim') /\ ghost'.stranded \subseteq Processes(sim')
    BY <1>1, <1>4, <1>15, ProcessIds DEF WakeInv
  <2> QED BY <1>15, <1>19, <2>1 DEF WakeInv
<1>21. RunInv'
  <2>1. control' # Main /\ control # Main
    BY <1>2, <1>4, <1>8 DEF Main, Loop
  <2>2. \A e \in DOMAIN sim.events :
          /\ sim'.events[e].processed = sim.events[e].processed
          /\ sim.events[e].processed => sim'.events[e].state = sim.events[e].state
    BY <1>12, <1>16
  <2>3. RunKept
    BY <1>4, <1>12, <1>14, <1>17, <2>1, <2>2 DEF RunKept
  <2> QED BY <1>1, <2>3, RunStays
<1>22. FaultInv'
  <2>1. ASSUME NEW e \in DOMAIN sim.events PROVE FaultKept(e)
    BY <1>4, <1>12, <1>14, <1>16 DEF FaultKept
  <2>2. HeardWhenRun'
    BY <1>1, <1>4, <1>15, ProcessIds DEF HeardWhenRun
  <2> QED BY <1>1, <1>4, <1>12, <2>1, <2>2, FaultStays
<1>23. GhostOK'
  BY <1>1, <1>4 DEF GhostOK
<1> QED BY <1>11, <1>18, <1>20, <1>21, <1>22, <1>23 DEF KInv

\* A process that goes on has no wake-up left.
LEMMA NoWakeLeft ==
  ASSUME WakeInv, control \in Processes(sim)
  PROVE  /\ Starts(control) = {} /\ InStep(control) = {} /\ NoHook(control)
         /\ Alive(sim, control) /\ control \notin ghost.stranded
<1>1. OnePlace(control) /\ ~ Awaits(control)
  BY DEF WakeInv, Awaits
<1> QED BY <1>1 DEF OnePlace, WakeInv

\* The yield of an event that is over.
LEMMA YieldOver ==
  ASSUME KInv, NEW e \in DOMAIN sim.events, YieldOn(e), sim.events[e].processed
  PROVE  KInv'
<1>1. /\ SimOK(sim) /\ sim \in SimType /\ GhostOK /\ StepOK /\ WakeInv /\ RunInv /\ FaultInv
  BY DEF KInv, SimOK
<1>2. PICK p \in Processes(sim) \ {e} : p = control
  BY DEF YieldOn
<1>3. PICK a : a = Aimed(sim, p, e)
  OBVIOUS
<1>4. /\ sim' = Sent(a, e)
      /\ ghost' = IF Failed(sim, e) THEN Heard(e) ELSE ghost
      /\ UNCHANGED <<control, step, run, cast>>
  BY <1>2, <1>3 DEF YieldOn, Aimed
<1>5. p \in DOMAIN sim.events /\ p # Main /\ p # Loop
  BY <1>1, ProcessIds
<1>6. /\ SimOK(a) /\ Only(sim, a, p) /\ a.active = sim.active
      /\ Likewise(sim.events[p], a.events[p]) /\ a.events[p].target = e
      /\ a.events[p].callbacks = sim.events[p].callbacks
      /\ a.events[p].defused = sim.events[p].defused
  BY <1>1, <1>3, <1>5, TargetSim
<1>7. /\ SimOK(sim') /\ Only(a, sim', e)
      /\ Likewise(a.events[e], sim'.events[e])
      /\ sim'.events[e].target = a.events[e].target
      /\ sim'.events[e].callbacks = a.events[e].callbacks
      /\ sim'.events[e].defused => a.events[e].defused \/ Failed(a, e)
      /\ a.events[e].defused => sim'.events[e].defused
  BY <1>4, <1>6, SentSim DEF Only
<1>8. /\ DOMAIN sim'.events = DOMAIN sim.events /\ sim'.now = sim.now /\ sim'.queue = sim.queue
      /\ \A f \in DOMAIN sim.events :
           /\ Likewise(sim.events[f], sim'.events[f])
           /\ sim'.events[f].callbacks = sim.events[f].callbacks
           /\ sim.events[f].defused => sim'.events[f].defused
           /\ sim'.events[f].defused => sim.events[f].defused \/ (f = e /\ Failed(sim, f))
           /\ f # p => sim'.events[f].target = sim.events[f].target
  BY <1>2, <1>6, <1>7 DEF Only, Likewise, Failed
<1>9. GhostOK' /\ ghost'.stranded = ghost.stranded /\ ghost.heard \subseteq ghost'.heard
        /\ (Failed(sim, e) => e \in ghost'.heard)
  <2> DEFINE heard == ghost.heard \cup {e}
  <2>1. Heard(e) = [ghost EXCEPT !.heard = heard]
    BY DEF Heard
  <2> HIDE DEF heard
  <2>2. Heard(e) = [stranded |-> ghost.stranded, orphaned |-> ghost.orphaned, heard |-> heard]
    BY <1>1, <2>1 DEF GhostOK
  <2>3. CASE Failed(sim, e)
    BY <1>4, <2>2, <2>3 DEF GhostOK, heard
  <2>4. CASE ~ Failed(sim, e)
    BY <1>1, <1>4, <2>4 DEF GhostOK
  <2> QED BY <2>3, <2>4
<1>10. Processes(sim') = Processes(sim)
  BY <1>8 DEF Processes, Likewise
<1>11. StepOK'
  <2>1. \A f \in DOMAIN sim.events : /\ sim'.events[f].type = sim.events[f].type
                                     /\ sim'.events[f].members = sim.events[f].members
                                     /\ sim'.events[f].processed = sim.events[f].processed
    BY <1>8 DEF Likewise
  <2>2. /\ control' \in {Main, Loop} \cup Processes(sim')
        /\ control' \in Processes(sim') => step.task # NoTask
    BY <1>1, <1>4, <1>10 DEF StepOK
  <2> QED BY <1>1, <1>4, <1>7, <1>8, <2>1, <2>2, StepStays
<1>12. \A q : Starts(q)' = Starts(q) /\ InStep(q)' = InStep(q) /\ HooksStay(q)
  BY <1>4, <1>8 DEF Starts, InStep, HooksStay, Hooked
<1>13. ASSUME NEW q \in Processes(sim) PROVE AtTarget(q)' /\ OnePlace(q)' /\ StartedBefore(q)'
  <2>1. AtTarget(q) /\ OnePlace(q) /\ StartedBefore(q)
    BY <1>1 DEF WakeInv
  <2>2. q \in DOMAIN sim.events
    BY <1>1, ProcessIds
  <2>3. Awaits(q)' <=> Awaits(q)
    BY <1>4, <1>8, <1>9, <2>2 DEF Awaits, Alive, Likewise
  <2>4. StartedBefore(q)'
    BY <1>4, <1>12, <2>1 DEF StartedBefore
  <2>5. CASE q = p
    <3>1. ~ Awaits(q)
      BY <1>2, <2>5 DEF Awaits
    <3>2. Starts(q) = {} /\ InStep(q) = {} /\ NoHook(q)
      BY <1>1, <1>2, <2>5, NoWakeLeft
    <3>3. NoHook(q)'
      BY <1>12, <3>2, NoHookStays
    <3> QED BY <1>12, <2>3, <2>4, <3>1, <3>2, <3>3 DEF OnePlace, AtTarget, NoHook
  <2>6. CASE q # p
    <3>1. sim'.events[q].target = sim.events[q].target
      BY <1>8, <2>2, <2>6
    <3> QED BY <1>4, <1>12, <2>1, <2>3, <2>4, <3>1, SamePlace DEF HooksStay
  <2> QED BY <2>5, <2>6
<1>14. WakeInv'
  <2>1. control' \in Processes(sim') => Alive(sim', control') /\ control' \notin ghost'.stranded
    BY <1>1, <1>2, <1>4, <1>5, <1>8, <1>9 DEF WakeInv, Alive, Likewise
  <2>2. ghost'.stranded \subseteq Processes(sim')
    BY <1>1, <1>9, <1>10 DEF WakeInv
  <2> QED BY <1>10, <1>13, <2>1, <2>2 DEF WakeInv
<1>15. RunInv'
  <2>1. RunKept
    BY <1>4, <1>8 DEF RunKept, Likewise
  <2> QED BY <1>1, <2>1, RunStays
<1>16. FaultInv'
  <2>1. ASSUME NEW f \in DOMAIN sim.events PROVE FaultKept(f)
    <3>1. \A task : Queued(task) => Queued(task)'
      BY <1>8 DEF Queued
    <3> QED BY <1>4, <1>8, <1>9, <3>1 DEF FaultKept, Likewise
  <2>2. HeardWhenRun'
    <3>1. step.task.do = "event" => step.task.of \in DOMAIN sim.events
      BY <1>1, CallsOfStep
    <3> QED BY <1>1, <1>4, <1>8, <1>9, <1>10, <3>1 DEF HeardWhenRun, FaultInv, Failed, Likewise
  <2> QED BY <1>1, <1>8, <1>9, <2>1, <2>2, FaultStays
<1> QED BY <1>7, <1>9, <1>11, <1>14, <1>15, <1>16 DEF KInv

\* The yield of an event that is to come.
LEMMA YieldAhead ==
  ASSUME KInv, NEW e \in DOMAIN sim.events, YieldOn(e), ~ sim.events[e].processed
  PROVE  KInv'
<1>1. /\ SimOK(sim) /\ sim \in SimType /\ GhostOK /\ StepOK /\ WakeInv /\ RunInv /\ FaultInv
  BY DEF KInv, SimOK
<1>2. PICK p \in Processes(sim) \ {e} : p = control
  BY DEF YieldOn
<1>3. PICK call : call = Call("resume", p)
  OBVIOUS
<1>4. PICK a : a = Aimed(sim, p, e)
  OBVIOUS
<1>5. PICK h : h = Hook(a, e, call)
  OBVIOUS
<1>6. /\ sim' = [h EXCEPT !.active = None] /\ control' = Loop
      /\ UNCHANGED <<step, run, cast, ghost>>
  BY <1>2, <1>3, <1>4, <1>5 DEF YieldOn, Aimed
<1>7. p \in DOMAIN sim.events /\ p \in Nat /\ p # Main /\ p # Loop
  BY <1>1, ProcessIds
<1>8. /\ SimOK(a) /\ Only(sim, a, p) /\ a.active = sim.active
      /\ Likewise(sim.events[p], a.events[p]) /\ a.events[p].target = e
      /\ a.events[p].callbacks = sim.events[p].callbacks
      /\ a.events[p].defused = sim.events[p].defused
  BY <1>1, <1>4, <1>7, TargetSim
<1>9. a.events[e] = sim.events[e] /\ e \in DOMAIN a.events
  BY <1>2, <1>8 DEF Only
<1>10. call \in CallType /\ call.do = "resume" /\ CallOK(a, e, call)
  <2>1. call \in CallType /\ call.do = "resume" /\ call.of = p
    BY <1>3, <1>7 DEF Call, CallType
  <2>2. p \in Processes(a)
    BY <1>7, <1>8 DEF Processes, Only, Likewise
  <2> QED BY <2>1, <2>2 DEF CallOK
<1>11. /\ SimOK(h) /\ Only(a, h, e)
       /\ Likewise(a.events[e], h.events[e])
       /\ h.events[e].target = a.events[e].target /\ h.events[e].defused = a.events[e].defused
       /\ Joined(a.events[e].callbacks, h.events[e].callbacks, call)
  <2>1. ~ a.events[e].processed
    BY <1>9
  <2> QED BY <1>5, <1>8, <1>9, <1>10, <2>1, HookSim
<1>12. SimOK(sim') /\ sim'.events = h.events /\ sim'.now = h.now /\ sim'.queue = h.queue
  BY <1>6, <1>11, ActiveSim
<1>13. /\ DOMAIN sim'.events = DOMAIN sim.events /\ sim'.now = sim.now /\ sim'.queue = sim.queue
       /\ \A f \in DOMAIN sim.events :
            /\ Likewise(sim.events[f], sim'.events[f])
            /\ f # e => sim'.events[f].callbacks = sim.events[f].callbacks
            /\ sim'.events[f].defused = sim.events[f].defused
            /\ f # p => sim'.events[f].target = sim.events[f].target
       /\ sim'.events[p].target = e
       /\ Joined(sim.events[e].callbacks, sim'.events[e].callbacks, call)
  <2>1. sim'.events[p] = a.events[p]
    BY <1>2, <1>8, <1>7, <1>11, <1>12 DEF Only
  <2>2. \A f \in DOMAIN sim.events \ {e, p} : sim'.events[f] = sim.events[f]
    BY <1>8, <1>11, <1>12 DEF Only
  <2>3. /\ Likewise(sim.events[e], sim'.events[e])
        /\ sim'.events[e].target = sim.events[e].target
        /\ sim'.events[e].defused = sim.events[e].defused
        /\ Joined(sim.events[e].callbacks, sim'.events[e].callbacks, call)
    BY <1>9, <1>11, <1>12 DEF Likewise
  <2>4. DOMAIN sim'.events = DOMAIN sim.events /\ sim'.now = sim.now /\ sim'.queue = sim.queue
    BY <1>8, <1>11, <1>12 DEF Only
  <2>5. Likewise(sim.events[p], sim'.events[p]) /\ sim'.events[p].target = e
          /\ sim'.events[p].callbacks = sim.events[p].callbacks
          /\ sim'.events[p].defused = sim.events[p].defused
    BY <1>8, <2>1
  <2>6. \A f \in DOMAIN sim.events :
            /\ Likewise(sim.events[f], sim'.events[f])
            /\ f # e => sim'.events[f].callbacks = sim.events[f].callbacks
            /\ sim'.events[f].defused = sim.events[f].defused
            /\ f # p => sim'.events[f].target = sim.events[f].target
    <3> TAKE f \in DOMAIN sim.events
    <3>1. CASE f = e
      BY <2>3, <3>1
    <3>2. CASE f = p
      BY <1>2, <2>5, <3>2
    <3>3. CASE f \notin {e, p}
      BY <2>2, <3>3 DEF Likewise
    <3> QED BY <3>1, <3>2, <3>3
  <2> QED BY <2>3, <2>4, <2>5, <2>6
<1>14. Processes(sim') = Processes(sim)
  BY <1>13 DEF Processes, Likewise
<1>15. StepOK'
  <2>1. \A f \in DOMAIN sim.events : /\ sim'.events[f].type = sim.events[f].type
                                     /\ sim'.events[f].members = sim.events[f].members
                                     /\ sim'.events[f].processed = sim.events[f].processed
    BY <1>13 DEF Likewise
  <2>2. control' \notin Processes(sim') /\ control' # Main /\ control # Main
    BY <1>1, <1>2, <1>6, <1>7, <1>14, ProcessIds DEF Main, Loop
  <2> QED BY <1>1, <1>6, <1>12, <1>13, <2>1, <2>2, StepStays
<1>16. \A q : Starts(q)' = Starts(q) /\ InStep(q)' = InStep(q)
  BY <1>6, <1>13 DEF Starts, InStep
<1>17. \A q, f : q # p /\ f \in DOMAIN sim.events => Hooked(q, f)' = Hooked(q, f)
  <2> SUFFICES ASSUME NEW q, q # p, NEW f \in DOMAIN sim.events PROVE Hooked(q, f)' = Hooked(q, f)
    OBVIOUS
  <2>1. Call("resume", q) # call
    BY <1>3 DEF Call
  <2>2. Occurrences(Call("resume", q), sim'.events[e].callbacks)
          = Occurrences(Call("resume", q), sim.events[e].callbacks)
    BY <1>10, <1>13, <2>1, JoinedCall
  <2> QED BY <1>13, <2>2 DEF Hooked
<1>18. ASSUME NEW q \in Processes(sim) PROVE AtTarget(q)' /\ OnePlace(q)' /\ StartedBefore(q)'
  <2>1. AtTarget(q) /\ OnePlace(q) /\ StartedBefore(q)
    BY <1>1 DEF WakeInv
  <2>2. q \in DOMAIN sim.events /\ q # Loop
    BY <1>1, ProcessIds
  <2>3. StartedBefore(q)'
    BY <1>6, <1>16, <2>1 DEF StartedBefore
  <2>4. CASE q = p
    <3>1. Starts(q) = {} /\ InStep(q) = {} /\ NoHook(q) /\ Alive(sim, q) /\ q \notin ghost.stranded
      BY <1>1, <1>2, <2>4, NoWakeLeft
    <3>2. Awaits(q)'
      BY <1>6, <1>13, <2>2, <3>1 DEF Awaits, Alive, Likewise
    <3>3. Single(Hooked(q, e)')
      <4>1. Occurrences(call, sim.events[e].callbacks) = {}
        BY <1>3, <2>4, <3>1 DEF NoHook, Hooked
      <4>2. Single(Occurrences(call, sim'.events[e].callbacks))
        BY <1>10, <1>13, <4>1, JoinedCall
      <4> QED BY <1>3, <1>13, <2>4, <4>2 DEF Hooked
    <3>4. OnePlace(q)'
      BY <1>13, <1>16, <3>1, <3>2, <3>3 DEF OnePlace
    <3>5. \A f \in DOMAIN sim'.events : Hooked(q, f)' # {} => f = e
      BY <1>13, <3>1 DEF Hooked, NoHook
    <3>6. AtTarget(q)'
      BY <1>13, <1>16, <2>4, <3>1, <3>5 DEF AtTarget
    <3> QED BY <2>3, <3>4, <3>6
  <2>5. CASE q # p
    <3>1. sim'.events[q].target = sim.events[q].target
      BY <1>13, <2>2, <2>5
    <3>2. Awaits(q)' <=> Awaits(q)
      BY <1>2, <1>6, <1>13, <2>2, <2>5 DEF Awaits, Alive, Likewise
    <3>3. \A f \in DOMAIN sim.events : Hooked(q, f)' = Hooked(q, f)
      BY <1>17, <2>5
    <3>4. DOMAIN sim'.events = DOMAIN sim.events
      BY <1>13
    <3> QED BY <1>6, <1>16, <2>1, <2>3, <3>1, <3>2, <3>3, <3>4, SamePlace
  <2> QED BY <2>4, <2>5
<1>19. WakeInv'
  <2>1. control' \notin Processes(sim') /\ ghost'.stranded \subseteq Processes(sim')
    BY <1>1, <1>6, <1>14, ProcessIds DEF WakeInv
  <2> QED BY <1>14, <1>18, <2>1 DEF WakeInv
<1>20. RunInv'
  <2>1. control' # Main /\ control # Main
    BY <1>2, <1>6, <1>7 DEF Main, Loop
  <2>2. StopCall # call
    BY <1>10 DEF StopCall, Call
  <2>3. \A f \in DOMAIN sim.events :
          StopCall \in Range(sim'.events[f].callbacks) <=> StopCall \in Range(sim.events[f].callbacks)
    <3>1. Range(sim'.events[e].callbacks) = Range(sim.events[e].callbacks) \cup {call}
      BY <1>10, <1>13, JoinedCall
    <3> QED BY <1>13, <2>2, <3>1
  <2>4. RunKept
    BY <1>6, <1>13, <2>1, <2>3 DEF RunKept, Likewise
  <2> QED BY <1>1, <2>4, RunStays
<1>21. FaultInv'
  <2>1. ASSUME NEW f \in DOMAIN sim.events PROVE FaultKept(f)
    <3>1. \A task : Queued(task) => Queued(task)'
      BY <1>13 DEF Queued
    <3> QED BY <1>6, <1>13, <3>1 DEF FaultKept, Likewise
  <2>2. HeardWhenRun'
    BY <1>1, <1>6, <1>14, ProcessIds DEF HeardWhenRun
  <2> QED BY <1>1, <1>6, <1>13, <2>1, <2>2, FaultStays
<1>22. GhostOK'
  BY <1>1, <1>6 DEF GhostOK
<1> QED BY <1>12, <1>15, <1>19, <1>20, <1>21, <1>22 DEF KInv

LEMMA YieldKeeps == ASSUME KInv, Yield PROVE KInv'
<1>1. PICK e \in DOMAIN sim.events : YieldOn(e)
  BY DEF Yield
<1> QED BY <1>1, YieldOver, YieldAhead

-----------------------------------------------------------------------------
(* A step that is cut short. *)

LEMMA CutKeeps ==
  ASSUME KInv, control # Main, NEW s, NEW rest, NEW seen, NEW result,
         Cut(s, rest, seen, result), CutFits(s, rest, seen, result)
  PROVE  KInv'
<1>1. /\ SimOK(sim) /\ sim \in SimType /\ GhostOK /\ StepOK /\ WakeInv /\ RunInv /\ FaultInv
  BY DEF KInv, SimOK
<1> DEFINE Of(do) == {call.of : call \in {c \in Range(rest) : c.do = do}}
<1>2. PICK stranded : stranded = ghost.stranded \cup Of("resume") \cup ({control} \cap Processes(s))
  OBVIOUS
<1>3. PICK orphaned : orphaned = ghost.orphaned \cup Of("check")
  OBVIOUS
<1>4. PICK heard : heard = ghost.heard \cup seen
  OBVIOUS
<1>5. /\ sim' = s /\ control' = Main
      /\ step' = [task |-> NoTask, rest |-> <<>>]
      /\ run' = [run EXCEPT !.result = result]
      /\ ghost' = [ghost EXCEPT !.stranded = stranded, !.orphaned = orphaned, !.heard = heard]
  BY <1>2, <1>3, <1>4 DEF Cut
<1>6. ghost' = [stranded |-> stranded, orphaned |-> orphaned, heard |-> heard]
  BY <1>1, <1>5 DEF GhostOK
<1>7. GhostOK' /\ ghost'.stranded = stranded /\ ghost'.heard = heard
  BY <1>6 DEF GhostOK
<1>8. sim'.events = sim.events /\ SimOK(sim')
  BY <1>5 DEF CutFits
<1>9. Processes(sim') = Processes(sim) /\ Processes(s) = Processes(sim)
  BY <1>5, <1>8 DEF Processes
<1>10. step'.task = NoTask /\ step'.rest = <<>> /\ Range(step'.rest) = {}
  BY <1>5 DEF Range
<1>11. \A q : q \in Of("resume") => InStep(q) # {}
  <2> SUFFICES ASSUME NEW c \in Range(rest), c.do = "resume" PROVE InStep(c.of) # {}
    OBVIOUS
  <2>1. step.rest \in Seq(CallType) /\ c \in Range(step.rest)
    BY <1>1, CallsOfStep DEF CutFits
  <2>2. c \in CallType
    BY <2>1 DEF Range
  <2>3. c = Call("resume", c.of)
    BY <2>2 DEF CallType, Call
  <2>4. Occurrences(c, step.rest) # {}
    BY <2>1, OccurrencesOfCalls
  <2> QED BY <2>3, <2>4 DEF InStep
<1>12. \A q \in Processes(sim) : InStep(q) # {} => q \in Of("resume")
  <2> SUFFICES ASSUME NEW q \in Processes(sim), Call("resume", q) \in Range(rest) PROVE q \in Of("resume")
    BY DEF CutFits
  <2>1. Call("resume", q).do = "resume" /\ Call("resume", q).of = q
    BY DEF Call
  <2> QED BY <2>1
<1>13. \A q : q \in Of("resume") => q \in Processes(sim)
  BY <1>1, <1>11, ResumesInStep
<1> HIDE DEF Of
<1>14. StepOK'
  <2>1. step' \in [task : CallType, rest : Seq(CallType)]
    <3>1. NoTask \in CallType
      BY DEF NoTask, Call, CallType, None
    <3> QED BY <1>5, <3>1
  <2>2. control' \notin Processes(sim')
    BY <1>1, <1>5, <1>9, ProcessIds
  <2> QED BY <1>5, <1>10, <2>1, <2>2 DEF StepOK
<1>15. ASSUME NEW q \in Processes(sim) PROVE AtTarget(q)' /\ OnePlace(q)' /\ StartedBefore(q)'
  <2>1. AtTarget(q) /\ OnePlace(q)
    BY <1>1 DEF WakeInv
  <2>2. InStep(q)' = {}
    BY <1>10 DEF InStep, Occurrences
  <2>3. /\ \A e \in DOMAIN sim.events : Hooked(q, e)' = Hooked(q, e)
        /\ NoHook(q)' <=> NoHook(q)
    BY <1>8 DEF Hooked, NoHook
  <2>4. /\ Starts(q) = {} => Starts(q)' = {}
        /\ Single(Starts(q)) => Single(Starts(q)')
    <3>1. Starts(q)' = Starts(q) \/ (Single(Starts(q)) /\ Single(Starts(q)'))
      BY DEF CutFits
    <3>2. Single(Starts(q)) => Starts(q) # {}
      BY DEF Single
    <3> QED BY <3>1, <3>2
  <2>5. AtTarget(q)' /\ StartedBefore(q)'
    BY <1>8, <1>10, <2>1, <2>2, <2>3 DEF AtTarget, StartedBefore
  <2>6. Awaits(q)' <=> Awaits(q) /\ InStep(q) = {}
    <3>1. Awaits(q)' <=> Alive(sim, q) /\ q \notin stranded
      BY <1>1, <1>5, <1>7, <1>8, ProcessIds DEF Awaits, Alive
    <3>2. q \in stranded <=> q \in ghost.stranded \/ InStep(q) # {} \/ q = control
      BY <1>2, <1>9, <1>11, <1>12
    <3> QED BY <3>1, <3>2 DEF Awaits
  <2>7. CASE Awaits(q)'
    <3>1. Awaits(q) /\ InStep(q) = {}
      BY <2>6, <2>7
    <3>2. \/ Single(Starts(q)) /\ NoHook(q)
          \/ Starts(q) = {} /\ \E e \in DOMAIN sim.events : Single(Hooked(q, e))
      BY <2>1, <3>1 DEF OnePlace, Single
    <3>3. OnePlace(q)'
      BY <1>8, <2>2, <2>3, <2>4, <2>7, <3>2 DEF OnePlace
    <3> QED BY <2>5, <3>3
  <2>8. CASE ~ Awaits(q)'
    <3>1. Starts(q) = {} /\ NoHook(q)
      BY <2>1, <2>6, <2>8 DEF OnePlace
    <3>2. OnePlace(q)'
      BY <2>2, <2>3, <2>4, <2>8, <3>1 DEF OnePlace
    <3> QED BY <2>5, <3>2
  <2> QED BY <2>7, <2>8
<1>16. WakeInv'
  <2>1. control' \notin Processes(sim')
    BY <1>1, <1>5, <1>9, ProcessIds
  <2>2. ghost'.stranded \subseteq Processes(sim')
    BY <1>1, <1>2, <1>7, <1>9, <1>13 DEF WakeInv
  <2> QED BY <1>9, <1>15, <2>1, <2>2 DEF WakeInv
<1>17. RunInv'
  <2>1. /\ run' \in [until : Nat, at : Times, from : Times, clean : BOOLEAN,
                     result : {"none", "running", "stopped", "raised", "empty", "starved"}]
        /\ run'.until = run.until /\ run'.at = run.at /\ run'.from = run.from /\ run'.clean = run.clean
        /\ run'.result = result
    BY <1>1, <1>5 DEF RunInv, CutFits
  <2>2. result \in {"raised", "stopped"}
    BY DEF CutFits
  <2>3. StopsWhereAsked'
    BY <1>5, <1>8, <2>1, <2>2 DEF CutFits, StopsWhereAsked, OwnStopTime, Failed
  <2> QED BY <1>1, <1>5, <1>8, <2>1, <2>2, <2>3 DEF RunInv
<1>18. FaultInv'
  <2>1. ASSUME NEW e \in DOMAIN sim.events PROVE FaultKept(e)
    BY <1>4, <1>7, <1>8 DEF FaultKept, CutFits
  <2>2. HeardWhenRun'
    BY <1>1, <1>5, <1>9, ProcessIds DEF HeardWhenRun
  <2>3. ghost.heard \subseteq ghost'.heard
    BY <1>4, <1>7
  <2> QED BY <1>1, <1>8, <2>1, <2>2, <2>3, FaultStays
<1> QED BY <1>7, <1>8, <1>14, <1>16, <1>17, <1>18 DEF KInv

\* The cut leaves the queue alone.
LEMMA PlainCut ==
  ASSUME KInv, control # Main, NEW rest, NEW seen, NEW result,
         Cut(sim, rest, seen, result),
         Range(rest) \subseteq Range(step.rest),
         \A q \in Processes(sim) : InStep(q) # {} => Call("resume", q) \in Range(rest),
         \A e \in DOMAIN sim.events :
           step.task = Call("event", e) /\ Failed(sim, e) =>
             e \in ghost.heard \/ e \in seen \/ sim.events[e].defused,
         result \in {"raised", "stopped"},
         result = "stopped" /\ run.clean =>
           IF run.until = None THEN sim.now = OwnStopTime
           ELSE sim.events[run.until].processed /\ ~Failed(sim, run.until)
  PROVE  KInv'
<1>1. SimOK(sim)
  BY DEF KInv
<1>2. sim' = sim
  BY DEF Cut
<1>3. \A q \in Processes(sim) : Starts(q)' = Starts(q)
  BY <1>2 DEF Starts
<1>4. \A task : Queued(task)' <=> Queued(task)
  BY <1>2 DEF Queued
<1>5. CutFits(sim, rest, seen, result)
  BY <1>1, <1>3, <1>4 DEF CutFits
<1> QED BY <1>5, CutKeeps

LEMMA YieldWrongKeeps == ASSUME KInv, YieldWrong PROVE KInv'
<1>1. /\ SimOK(sim) /\ sim \in SimType /\ StepOK /\ FaultInv
  BY DEF KInv, SimOK
<1>2. control \in Processes(sim) /\ Cut(sim, step.rest, {}, "raised")
  BY DEF YieldWrong
<1>3. control # Main
  BY <1>1, <1>2, ProcessIds
<1>4. \A q \in Processes(sim) : InStep(q) # {} => Call("resume", q) \in Range(step.rest)
  <2>1. step.rest \in Seq(CallType)
    BY <1>1, CallsOfStep
  <2> QED BY <2>1, OccurrencesOfCalls DEF InStep
<1>5. \A e \in DOMAIN sim.events :
        step.task = Call("event", e) /\ Failed(sim, e) =>
          e \in ghost.heard \/ e \in {} \/ sim.events[e].defused
  BY <1>1, <1>2 DEF FaultInv, Call
<1> QED BY <1>2, <1>3, <1>4, <1>5, PlainCut

LEMMA RunStopKeeps == ASSUME KInv, RunStop PROVE KInv'
<1>1. /\ SimOK(sim) /\ sim \in SimType /\ StepOK /\ RunInv
  BY DEF KInv, SimOK
<1>2. Turn("stop") /\ control # Main /\ step.rest # <<>> /\ Head(step.rest).do = "stop"
  BY DEF RunStop, Turn, Main, Loop
<1>3. step.rest \in Seq(CallType) /\ Head(step.rest) \in CallType /\ Head(step.rest) \in Range(step.rest)
        /\ Range(Tail(step.rest)) \subseteq Range(step.rest)
  BY <1>1, <1>2, RestOfStep
<1>4. \A q \in Processes(sim) : InStep(q) # {} => Call("resume", q) \in Range(Tail(step.rest))
  <2> TAKE q \in Processes(sim)
  <2>1. Head(step.rest) # Call("resume", q)
    BY <1>2 DEF Call
  <2>2. Same(Call("resume", q), step.rest, Tail(step.rest))
    BY <1>2, <1>3, <2>1, TailCall
  <2>3. Call("resume", q) \in Range(step.rest) <=> InStep(q) # {}
    BY <1>3, OccurrencesOfCalls DEF InStep
  <2> QED BY <2>2, <2>3 DEF Same
<1>5. Head(step.rest) = StopCall
  <2>1. ASSUME NEW call, step.rest = <<call>> PROVE Head(step.rest) = call
    BY <2>1
  <2>2. Head(step.rest).of = None
    <3>1. CASE step.task.do = "event"
      BY <1>1, <1>2, <1>3, <3>1, CallsOfStep DEF CallOK
    <3>2. CASE step.task.do = "start"
      BY <1>1, <1>2, <2>1, <3>2 DEF StepOK, Call, NoTask
    <3>3. CASE step.task.do = "interrupt"
      BY <1>1, <1>2, <2>1, <3>3 DEF StepOK, Call, NoTask
    <3>4. CASE step.task = Call("stop", None)
      BY <1>1, <1>2, <2>1, <3>4 DEF StepOK, Call, NoTask
    <3> QED BY <1>1, <1>2, <3>1, <3>2, <3>3, <3>4 DEF StepOK
  <2> QED BY <1>2, <1>3, <2>2 DEF CallType, Call, StopCall
<1>6. CASE step.task.do = "event" /\ Failed(sim, step.task.of)
  <2>1. Cut(sim, Tail(step.rest), {step.task.of}, "raised")
    BY <1>6 DEF RunStop
  <2>2. \A e : step.task = Call("event", e) => e \in {step.task.of}
    BY DEF Call
  <2> QED BY <1>2, <1>3, <1>4, <2>1, <2>2, PlainCut
<1>7. CASE ~ (step.task.do = "event" /\ Failed(sim, step.task.of))
  <2>1. Cut(sim, Tail(step.rest), {}, "stopped")
    BY <1>7 DEF RunStop
  <2>2. \A e \in DOMAIN sim.events : ~ (step.task = Call("event", e) /\ Failed(sim, e))
    BY <1>7 DEF Call
  <2>3. run.clean =>
           IF run.until = None THEN sim.now = OwnStopTime
           ELSE sim.events[run.until].processed /\ ~Failed(sim, run.until)
    <3> SUFFICES ASSUME run.clean
                 PROVE  IF run.until = None THEN sim.now = OwnStopTime
                        ELSE sim.events[run.until].processed /\ ~Failed(sim, run.until)
      OBVIOUS
    <3>1. \/ step.task.do = "stop" /\ run.until = None /\ sim.now = OwnStopTime
          \/ step.task.do = "event" /\ step.task.of = run.until
      BY <1>1, <1>2, <1>3, <1>5 DEF RunInv, OwnStops
    <3>2. CASE step.task.do = "event" /\ step.task.of = run.until
      <4>1. run.until \in DOMAIN sim.events /\ sim.events[run.until].processed
        BY <1>1, <3>2, CallsOfStep
      <4>2. run.until # None
        BY <1>1, <4>1, SimFields DEF None
      <4> QED BY <1>7, <3>2, <4>1, <4>2
    <3> QED BY <3>1, <3>2
  <2> QED BY <1>2, <1>3, <1>4, <2>1, <2>2, <2>3, PlainCut
<1> QED BY <1>6, <1>7

-----------------------------------------------------------------------------
(* Actions that leave everyone who waits alone. *)

LEMMA AsleepWake ==
  ASSUME SimOK(sim), WakeInv, Asleep
  PROVE  WakeInv'
<1>1. sim \in SimType
  BY DEF SimOK
<1>2. Processes(sim') = Processes(sim)
  BY DEF Processes, Asleep, Likewise
<1>3. ASSUME NEW q \in Processes(sim) PROVE AtTarget(q)' /\ OnePlace(q)' /\ StartedBefore(q)'
  <2>1. AtTarget(q) /\ OnePlace(q) /\ StartedBefore(q)
    BY DEF WakeInv
  <2>2. q \in DOMAIN sim.events /\ q # Main /\ q # Loop
    BY <1>1, ProcessIds
  <2>3. Awaits(q)' <=> Awaits(q)
    BY <2>2 DEF Asleep, Awaits, Alive, Likewise
  <2>4. InStep(q)' = InStep(q) /\ (step'.task = step.task \/ InStep(q)' = {})
    BY DEF Asleep
  <2>5. StartedBefore(q)'
    BY <2>1 DEF Asleep, StartedBefore
  <2>6. /\ Starts(q)' = Starts(q)
        /\ DOMAIN sim'.events = DOMAIN sim.events
        /\ \A e \in DOMAIN sim.events : Hooked(q, e)' = Hooked(q, e)
        /\ sim'.events[q].target = sim.events[q].target
    BY <2>2 DEF Asleep
  <2> QED BY <2>1, <2>3, <2>4, <2>5, <2>6, SamePlace
<1>4. control' \notin Processes(sim') /\ ghost'.stranded \subseteq Processes(sim')
  BY <1>1, <1>2, ProcessIds DEF Asleep, WakeInv
<1> QED BY <1>2, <1>3, <1>4 DEF WakeInv

LEMMA AsleepFault ==
  ASSUME SimOK(sim), FaultInv, Asleep,
         \A e \in DOMAIN sim.events : step.task = Call("event", e) /\ Failed(sim, e) =>
           step'.task = step.task \/ sim.events[e].defused
  PROVE  FaultInv'
<1>1. sim \in SimType
  BY DEF SimOK
<1>2. Processes(sim') = Processes(sim)
  BY DEF Processes, Asleep, Likewise
<1>3. ASSUME NEW e \in DOMAIN sim.events PROVE FaultKept(e)
  BY DEF FaultKept, Asleep, Likewise
<1>4. HeardWhenRun'
  BY <1>1, <1>2, ProcessIds DEF HeardWhenRun, Asleep
<1>5. DOMAIN sim'.events = DOMAIN sim.events /\ ghost' = ghost
  BY DEF Asleep
<1> QED BY <1>3, <1>4, <1>5, FaultStays

LEMMA FinishStepKeeps == ASSUME KInv, FinishStep PROVE KInv'
<1>1. /\ SimOK(sim) /\ sim \in SimType /\ GhostOK /\ StepOK /\ WakeInv /\ RunInv /\ FaultInv
  BY DEF KInv, SimOK
<1>2. control = Loop /\ control # Main /\ step.rest = <<>>
  BY DEF FinishStep, Main, Loop
<1>3. \A q : InStep(q) = {}
  BY <1>2 DEF InStep, Occurrences
<1>4. CASE step.task.do = "event" /\ Failed(sim, step.task.of)
                                  /\ ~sim.events[step.task.of].defused
  <2>1. Cut(sim, <<>>, {step.task.of}, "raised")
    BY <1>4 DEF FinishStep
  <2>2. \A e : step.task = Call("event", e) => e \in {step.task.of}
    BY DEF Call
  <2>3. Range(<<>>) \subseteq Range(step.rest)
    BY DEF Range
  <2> QED BY <1>2, <1>3, <2>1, <2>2, <2>3, PlainCut
<1>5. CASE ~ (step.task.do = "event" /\ Failed(sim, step.task.of)
                                     /\ ~sim.events[step.task.of].defused)
  <2>1. /\ step' = [task |-> NoTask, rest |-> <<>>]
        /\ UNCHANGED <<sim, control, run, cast, ghost>>
    BY <1>5 DEF FinishStep
  <2>2. Asleep
    <3>1. step'.rest = <<>> /\ \A q : InStep(q)' = {}
      BY <2>1 DEF InStep, Occurrences
    <3> QED BY <1>2, <1>3, <2>1, <3>1 DEF Asleep, Likewise, Starts, Hooked, Queued
  <2>3. \A e \in DOMAIN sim.events : step.task = Call("event", e) /\ Failed(sim, e) =>
           step'.task = step.task \/ sim.events[e].defused
    BY <1>5 DEF Call
  <2>4. WakeInv' /\ FaultInv'
    BY <1>1, <2>2, <2>3, AsleepWake, AsleepFault
  <2>5. step'.rest = <<>> /\ step'.task = NoTask /\ Range(step'.rest) = {} /\ Range(step.rest) = {}
    BY <1>2, <2>1 DEF Range
  <2>6. RunInv'
    <3>1. RunKept
      BY <2>1, <2>5 DEF RunKept
    <3> QED BY <1>1, <3>1, RunStays
  <2>7. StepOK'
    <3>1. step' \in [task : CallType, rest : Seq(CallType)]
      <4>1. NoTask \in CallType
        BY DEF NoTask, Call, CallType, None
      <4> QED BY <2>1, <4>1
    <3>2. control' \notin Processes(sim')
      BY <1>1, <1>2, <2>1, ProcessIds
    <3> QED BY <1>2, <2>1, <2>5, <3>1, <3>2 DEF StepOK
  <2>8. SimOK(sim') /\ GhostOK'
    BY <1>1, <2>1 DEF GhostOK
  <2> QED BY <2>4, <2>6, <2>7, <2>8 DEF KInv
<1> QED BY <1>4, <1>5

\* Between two steps nothing is left to call.
LEMMA NothingLeft ==
  ASSUME StepOK, step.task = NoTask
  PROVE  step.rest = <<>> /\ Range(step.rest) = {}
<1>1. step.rest = <<>>
  BY DEF StepOK, NoTask, Call
<1> QED BY <1>1 DEF Range

LEMMA RunEmptyKeeps == ASSUME KInv, RunEmpty PROVE KInv'
<1>1. /\ SimOK(sim) /\ sim \in SimType /\ GhostOK /\ StepOK /\ WakeInv /\ RunInv /\ FaultInv
  BY DEF KInv, SimOK
<1>2. PICK result \in {"empty", "starved"} : result = IF run.until = None THEN "empty" ELSE "starved"
  OBVIOUS
<1>3. /\ control = Loop /\ step.task = NoTask /\ control' = Main
      /\ run' = [run EXCEPT !.result = result]
      /\ UNCHANGED <<sim, step, cast, ghost>>
  BY <1>2 DEF RunEmpty, Idle
<1>4. Asleep
  BY <1>3 DEF Asleep, Likewise, Starts, Hooked, Queued, InStep
<1>5. WakeInv' /\ FaultInv'
  BY <1>1, <1>3, <1>4, AsleepWake, AsleepFault
<1>6. StepOK'
  <2>1. control' \notin Processes(sim')
    BY <1>1, <1>3, ProcessIds
  <2> QED BY <1>1, <1>3, <2>1, NothingLeft DEF StepOK
<1>7. RunInv'
  <2>1. /\ run' \in [until : Nat, at : Times, from : Times, clean : BOOLEAN,
                     result : {"none", "running", "stopped", "raised", "empty", "starved"}]
        /\ run'.until = run.until /\ run'.at = run.at /\ run'.from = run.from /\ run'.clean = run.clean
        /\ run'.result = result
    BY <1>1, <1>3 DEF RunInv
  <2>2. result = "starved" => ~ sim.events[run.until].processed
    <3> SUFFICES ASSUME run.until # None PROVE ~ sim.events[run.until].processed
      BY <1>2
    <3>1. StopAhead
      BY <1>1, <1>3 DEF RunInv, Main, Loop
    <3>2. StopCall \notin Range(step.rest)
      BY <1>1, <1>3, NothingLeft
    <3> QED BY <3>1, <3>2 DEF StopAhead
  <2>3. StopsWhereAsked'
    BY <1>2, <1>3, <2>1, <2>2 DEF StopsWhereAsked
  <2>4. run'.until \in {None} \cup DOMAIN sim'.events
    BY <1>1, <1>3, <2>1 DEF RunInv
  <2>5. result = "starved" => run'.until # None
    BY <1>2, <2>1
  <2> QED BY <1>1, <1>2, <1>3, <2>1, <2>3, <2>4, <2>5 DEF RunInv
<1>8. SimOK(sim') /\ GhostOK'
  BY <1>1, <1>3 DEF GhostOK
<1> QED BY <1>5, <1>6, <1>7, <1>8 DEF KInv

-----------------------------------------------------------------------------
(* A run starts. *)

LEMMA StartRunKeeps ==
  ASSUME KInv, NEW s, NEW until, NEW at, StartRun(s, until, at), Armed(s, until, at)
  PROVE  KInv'
<1>1. /\ SimOK(sim) /\ sim \in SimType /\ GhostOK /\ StepOK /\ WakeInv /\ RunInv /\ FaultInv
  BY DEF KInv, SimOK
<1>2. PICK clean \in BOOLEAN : clean = ~StopsLeft(sim)
  OBVIOUS
<1>3. /\ control = Main /\ sim' = s /\ control' = Loop /\ UNCHANGED <<step, ghost>>
      /\ run' = [until |-> until, at |-> at, from |-> sim.now, clean |-> clean, result |-> "running"]
  BY <1>2 DEF StartRun
<1>4. step.task = NoTask /\ step.rest = <<>> /\ Range(step.rest) = {}
  BY <1>1, <1>3, NothingLeft DEF StepOK
<1>5. /\ SimOK(sim') /\ DOMAIN sim'.events = DOMAIN sim.events
      /\ \A e \in DOMAIN sim.events : Likewise(sim.events[e], sim'.events[e])
  BY <1>3 DEF Armed
<1>6. Processes(sim') = Processes(sim)
  BY <1>5 DEF Processes, Likewise
<1>7. Asleep
  BY <1>3 DEF Asleep, Armed, Starts, Hooked, Queued, Due, InStep
<1>8. WakeInv' /\ FaultInv'
  BY <1>1, <1>3, <1>7, AsleepWake, AsleepFault
<1>9. StepOK'
  <2>1. control' \notin Processes(sim') /\ control' # Main
    BY <1>1, <1>3, <1>6, ProcessIds DEF Main, Loop
  <2> QED BY <1>1, <1>3, <1>4, <2>1 DEF StepOK
<1>10. RunInv'
  <2>1. /\ run'.until = until /\ run'.at = at /\ run'.clean = clean /\ run'.result = "running"
        /\ run'.from = sim.now
    BY <1>3
  <2>2. /\ until \in {None} \cup DOMAIN sim.events
        /\ at \in Times /\ sim.now \in Times /\ (at = 0 \/ sim.now <= at)
    BY <1>1, SimFields DEF Armed, SimOK
  <2>3. until \in Nat
    BY <1>1, <2>2, SimFields DEF None
  <2>4. run' \in [until : Nat, at : Times, from : Times, clean : BOOLEAN,
                  result : {"none", "running", "stopped", "raised", "empty", "starved"}]
    BY <1>3, <2>2, <2>3
  <2>5. StopAhead'
    <3>1. StopCall' = StopCall
      BY DEF StopCall, Call
    <3>2. until # None => ~ s.events[until].processed /\ StopCall \in Range(s.events[until].callbacks)
      BY <2>2 DEF Armed, Likewise
    <3> QED BY <1>3, <2>1, <3>1, <3>2 DEF StopAhead
  <2>6. clean => OwnStops'
    <3> SUFFICES ASSUME ~StopsLeft(sim) PROVE OwnStops'
      BY <1>2
    <3>1. StopCall' = StopCall
      BY DEF StopCall, Call
    <3>2. \A i \in DOMAIN s.queue :
            s.queue[i].task.do = "stop" => until = None /\ s.queue[i].at = OwnStopTime'
      BY <1>3 DEF Armed, OwnStopTime
    <3>3. \A e \in DOMAIN s.events : StopCall \in Range(s.events[e].callbacks) => e = until
      BY DEF Armed
    <3> QED BY <1>3, <1>4, <2>1, <3>1, <3>2, <3>3 DEF OwnStops
  <2>7. StopsWhereAsked'
    BY <2>1 DEF StopsWhereAsked
  <2>8. control' # Main
    BY <1>3 DEF Main, Loop
  <2>9. run'.until \in {None} \cup DOMAIN sim'.events
    BY <1>5, <2>1, <2>2
  <2> QED BY <2>1, <2>2, <2>4, <2>5, <2>6, <2>7, <2>8, <2>9 DEF RunInv
<1>11. GhostOK'
  BY <1>1, <1>3 DEF GhostOK
<1> QED BY <1>5, <1>8, <1>9, <1>10, <1>11 DEF KInv

\* Arming nothing, and what stops are left in a Sim.
LEMMA StopsInSim ==
  /\ \A i \in DOMAIN sim.queue : sim.queue[i].task.do = "stop" => StopsLeft(sim)
  /\ \A e \in DOMAIN sim.events : StopCall \in Range(sim.events[e].callbacks) => StopsLeft(sim)
BY DEF StopsLeft, StopCall

LEMMA RunToEndKeeps == ASSUME KInv, RunToEnd PROVE KInv'
<1>1. SimOK(sim)
  BY DEF KInv
<1>2. Armed(sim, None, 0)
  BY <1>1, StopsInSim, TimesAreNatural DEF Armed, Likewise, Hooked, Starts, Queued, Due
<1> QED BY <1>2, StartRunKeeps DEF RunToEnd

LEMMA RunToTimeKeeps == ASSUME KInv, RunToTime PROVE KInv'
<1>1. SimOK(sim) /\ sim \in SimType
  BY DEF KInv, SimOK
<1>2. PICK at \in Stops :
        at > sim.now /\ StartRun(Schedule(sim, Call("stop", None), URGENT, Minus(at, sim.now)), None, at)
  BY DEF RunToTime
<1> DEFINE d == Minus(at, sim.now)
<1>3. d \in Times /\ at \in Times /\ sim.now <= at
  BY <1>1, <1>2, SimFields, KernelAssumption, TimesAreNatural, MinusTimes
<1> DEFINE entry == [at |-> Plus(sim.now, d), prio |-> URGENT, task |-> StopCall]
           s == [sim EXCEPT !.queue = Append(@, entry)]
<1>4. StartRun(s, None, at)
  BY <1>2 DEF Schedule, StopCall
<1>5. StopCall \in CallType /\ StopCall.do = "stop" /\ StopCall.of = None
  BY DEF StopCall, Call, CallType, None
<1>6. entry \in EntryType /\ Plus(sim.now, d) \in Nat /\ Plus(sim.now, d) >= sim.now
  BY <1>1, <1>3, <1>5, EntryFits
<1>7. entry.at = StopTime(sim.now, at) /\ entry.task = StopCall
  BY DEF StopTime
<1>8. EntryOK(sim, entry) /\ entry.task.do = "stop"
  BY <1>5, <1>6, <1>7 DEF EntryOK
<1> HIDE DEF entry
<1>9. SimOK(s) /\ s.events = sim.events /\ s.queue = Append(sim.queue, entry)
  BY <1>1, <1>6, <1>8, AddEntry
<1> HIDE DEF s
<1>10. /\ DOMAIN s.queue = DOMAIN sim.queue \cup {Len(sim.queue) + 1}
       /\ Len(sim.queue) + 1 \notin DOMAIN sim.queue
       /\ s.queue[Len(sim.queue) + 1] = entry
       /\ \A i \in DOMAIN sim.queue : s.queue[i] = sim.queue[i]
  BY <1>1, <1>6, <1>9, SimFields
<1>11. Armed(s, None, at)
  <2>1. \A q : {i \in DOMAIN s.queue : s.queue[i].task = Call("start", q)} = Starts(q)
    <3>1. \A q : entry.task # Call("start", q)
      BY <1>8 DEF Call
    <3> QED BY <1>10, <3>1 DEF Starts
  <2>2. \A task : Queued(task) => Due(s, task)
    BY <1>10 DEF Queued, Due
  <2>3. \A i \in DOMAIN s.queue :
          s.queue[i].task.do = "stop" => StopsLeft(sim) \/ (None = None /\ s.queue[i].at = StopTime(sim.now, at))
    BY <1>7, <1>10, StopsInSim
  <2>4. \A e \in DOMAIN sim.events :
          StopCall \in Range(s.events[e].callbacks) => StopsLeft(sim) \/ e = None
    BY <1>9, StopsInSim
  <2> QED BY <1>3, <1>9, <2>1, <2>2, <2>3, <2>4 DEF Armed, Likewise, Hooked
<1> QED BY <1>4, <1>11, StartRunKeeps

LEMMA RunToEventKeeps == ASSUME KInv, RunToEvent PROVE KInv'
<1>1. SimOK(sim) /\ sim \in SimType
  BY DEF KInv, SimOK
<1>2. PICK e \in DOMAIN sim.events :
        ~ sim.events[e].processed /\ StartRun(Hook(sim, e, StopCall), e, 0)
  BY DEF RunToEvent, StopCall
<1>3. PICK s : s = Hook(sim, e, StopCall)
  OBVIOUS
<1>4. StopCall \in CallType /\ StopCall.do = "stop" /\ CallOK(sim, e, StopCall)
  BY DEF StopCall, Call, CallType, None, CallOK
<1>5. /\ SimOK(s) /\ Only(sim, s, e)
      /\ Likewise(sim.events[e], s.events[e])
      /\ s.events[e].target = sim.events[e].target /\ s.events[e].defused = sim.events[e].defused
      /\ Joined(sim.events[e].callbacks, s.events[e].callbacks, StopCall)
  BY <1>1, <1>2, <1>3, <1>4, HookSim
<1>6. /\ Range(s.events[e].callbacks) = Range(sim.events[e].callbacks) \cup {StopCall}
      /\ \A call : call # StopCall =>
           Occurrences(call, s.events[e].callbacks) = Occurrences(call, sim.events[e].callbacks)
  BY <1>4, <1>5, JoinedCall
<1>7. Armed(s, e, 0)
  <2>1. \A q : \A f \in DOMAIN sim.events :
          Occurrences(Call("resume", q), s.events[f].callbacks) = Hooked(q, f)
    <3>1. \A q : Call("resume", q) # StopCall
      BY <1>4 DEF Call
    <3> QED BY <1>5, <1>6, <3>1 DEF Only, Hooked
  <2>2. \A f \in DOMAIN sim.events :
          /\ Likewise(sim.events[f], s.events[f])
          /\ s.events[f].target = sim.events[f].target
          /\ s.events[f].defused = sim.events[f].defused
    BY <1>5 DEF Only, Likewise
  <2>3. \A f \in DOMAIN sim.events :
          StopCall \in Range(s.events[f].callbacks) => StopsLeft(sim) \/ f = e
    BY <1>5, StopsInSim DEF Only
  <2>4. DOMAIN s.events = DOMAIN sim.events /\ s.queue = sim.queue
    BY <1>5 DEF Only
  <2>5. \A i \in DOMAIN s.queue : s.queue[i].task.do = "stop" => StopsLeft(sim)
    BY <2>4, StopsInSim
  <2>6. ~ sim.events[e].processed /\ StopCall \in Range(s.events[e].callbacks)
    BY <1>2, <1>6
  <2>7. \A q : {i \in DOMAIN s.queue : s.queue[i].task = Call("start", q)} = Starts(q)
    BY <2>4 DEF Starts
  <2>8. \A task : Queued(task) => Due(s, task)
    BY <2>4 DEF Queued, Due
  <2>9. SimOK(s) /\ e \in {None} \cup DOMAIN sim.events /\ 0 \in Times
    BY <1>5, TimesAreNatural
  <2> QED BY <2>1, <2>2, <2>3, <2>4, <2>5, <2>6, <2>7, <2>8, <2>9 DEF Armed
<1> QED BY <1>2, <1>3, <1>7, StartRunKeeps

-----------------------------------------------------------------------------
(* An entry is popped. *)

\* Where the entries of the queue are after that, and before it.
After(k, i) == IF k < i THEN k ELSE k - 1
Before(k, i) == IF k < i THEN k ELSE k + 1

LEMMA PoppedQueue ==
  ASSUME NEW s \in SimType, NEW i \in DOMAIN s.queue, NEW queue, queue = RemoveAt(s.queue, i)
  PROVE  /\ queue \in Seq(EntryType)
         /\ \A k \in DOMAIN queue : /\ Before(k, i) \in DOMAIN s.queue \ {i}
                                    /\ queue[k] = s.queue[Before(k, i)]
         /\ \A k \in DOMAIN s.queue \ {i} : /\ After(k, i) \in DOMAIN queue
                                            /\ queue[After(k, i)] = s.queue[k]
<1>1. s.queue \in Seq(EntryType) /\ DOMAIN s.queue = 1 .. Len(s.queue) /\ Len(s.queue) \in Nat
  BY SimFields
<1>2. i \in 1 .. Len(s.queue)
  BY <1>1
<1>3. /\ queue \in Seq(EntryType) /\ Len(queue) = Len(s.queue) - 1
      /\ \A j \in 1 .. Len(s.queue) - 1 : queue[j] = s.queue[IF j < i THEN j ELSE j + 1]
  BY <1>1, <1>2, RemoveAtIndex
<1>4. DOMAIN queue = 1 .. Len(s.queue) - 1
  BY <1>1, <1>3
<1>5. \A k \in DOMAIN queue : /\ Before(k, i) \in DOMAIN s.queue \ {i}
                              /\ queue[k] = s.queue[Before(k, i)]
  BY <1>1, <1>2, <1>3, <1>4 DEF Before
<1>6. \A k \in DOMAIN s.queue \ {i} : After(k, i) \in DOMAIN queue /\ Before(After(k, i), i) = k
  BY <1>1, <1>2, <1>4 DEF Before, After
<1> QED BY <1>3, <1>5, <1>6

LEMMA PoppedSim ==
  ASSUME NEW s, SimOK(s), NEW i \in DOMAIN s.queue, IsNext(s.queue, i), NEW t, t = Popped(s, i)
  PROVE  /\ SimOK(t) /\ t.events = s.events /\ t.now = s.queue[i].at /\ t.active = s.active
         /\ t.queue = RemoveAt(s.queue, i)
<1>1. s \in SimType
  BY DEF SimOK
<1>2. PICK queue : queue = RemoveAt(s.queue, i)
  OBVIOUS
<1>3. /\ queue \in Seq(EntryType)
      /\ \A k \in DOMAIN queue : /\ Before(k, i) \in DOMAIN s.queue \ {i}
                                 /\ queue[k] = s.queue[Before(k, i)]
  BY <1>1, <1>2, PoppedQueue
<1>4. EntryOK(s, s.queue[i]) /\ s.queue[i] \in EntryType
  BY <1>1, SimFields DEF SimOK
<1>5. s.now \in Nat /\ DOMAIN s.queue = 1 .. Len(s.queue) /\ \A j \in DOMAIN s.queue : s.queue[j].at \in Nat
  BY <1>1, SimFields, TimesAreNatural DEF EntryType
<1>6. t \in SimType /\ t.events = s.events /\ t.now = s.queue[i].at /\ t.queue = queue /\ t.active = s.active
  <2>1. t = [s EXCEPT !.now = s.queue[i].at, !.queue = queue]
    BY <1>2 DEF Popped
  <2>2. s.queue[i].at \in Times
    BY <1>4 DEF EntryType
  <2> QED BY <1>1, <1>3, <2>1, <2>2 DEF SimType
<1>7. Processes(t) = Processes(s)
  BY <1>6 DEF Processes
<1>8. \A e \in DOMAIN t.events : EventOK(t, e)
  <2> TAKE e \in DOMAIN t.events
  <2>1. EventOK(s, e)
    BY <1>6 DEF SimOK
  <2>2. \A call : CallOK(s, e, call) => CallOK(t, e, call)
    BY <1>1, <1>6, CallsFit
  <2> QED BY <1>6, <2>1, <2>2 DEF EventOK
<1>9. \A j \in DOMAIN s.queue \ {i} : EntryOK(t, s.queue[j])
  <2> TAKE j \in DOMAIN s.queue \ {i}
  <2>1. EntryOK(s, s.queue[j])
    BY DEF SimOK
  <2>2. s.queue[j].at >= t.now
    BY <1>5, <1>6 DEF IsNext
  <2>3. s.queue[j].at = s.now => s.queue[j].at = t.now
    BY <1>4, <1>5, <1>6, <2>2 DEF EntryOK
  <2> QED BY <1>6, <1>7, <2>1, <2>2, <2>3 DEF EntryOK
<1>10. \A k \in DOMAIN t.queue : EntryOK(t, t.queue[k])
  BY <1>3, <1>6, <1>9
<1>11. StartsFirst(t)
  <2> SUFFICES ASSUME NEW j \in DOMAIN t.queue, NEW k \in DOMAIN t.queue,
                      t.queue[j].task.do = "start", t.queue[k].task.do = "interrupt",
                      t.queue[j].task.of = t.queue[k].task.of
               PROVE  j < k
    BY DEF StartsFirst
  <2>1. Before(j, i) < Before(k, i)
    <3>1. StartsFirst(s)
      BY DEF SimOK
    <3> QED BY <1>3, <1>6, <3>1 DEF StartsFirst
  <2>2. j \in Nat /\ k \in Nat /\ i \in Nat
    BY <1>3, <1>5, <1>6
  <2> QED BY <2>1, <2>2 DEF Before
<1> QED BY <1>2, <1>6, <1>7, <1>8, <1>10, <1>11 DEF SimOK

\* What the queue without its next entry means to those who wait.
LEMMA PoppedStarts ==
  ASSUME SimOK(sim), NEW i \in DOMAIN sim.queue, sim'.queue = RemoveAt(sim.queue, i)
  PROVE  /\ \A q : sim.queue[i].task # Call("start", q) =>
              Starts(q)' = Starts(q) \/ (Single(Starts(q)) /\ Single(Starts(q)'))
                \/ (Starts(q) # {} /\ ~ Single(Starts(q)))
         /\ \A q : sim.queue[i].task = Call("start", q) =>
              Starts(q) # {} /\ (Single(Starts(q)) => Starts(q)' = {})
         /\ \A task : Queued(task) => Queued(task)' \/ task = sim.queue[i].task
         /\ \A k \in DOMAIN sim'.queue : \E j \in DOMAIN sim.queue \ {i} : sim'.queue[k] = sim.queue[j]
<1>1. sim \in SimType
  BY DEF SimOK
<1>2. /\ \A k \in DOMAIN sim'.queue : /\ Before(k, i) \in DOMAIN sim.queue \ {i}
                                      /\ sim'.queue[k] = sim.queue[Before(k, i)]
      /\ \A k \in DOMAIN sim.queue \ {i} : /\ After(k, i) \in DOMAIN sim'.queue
                                           /\ sim'.queue[After(k, i)] = sim.queue[k]
  BY <1>1, PoppedQueue
<1>3. i \in Nat /\ (\A k \in DOMAIN sim.queue : k \in Nat) /\ (\A k \in DOMAIN sim'.queue : k \in Nat)
  <2>1. sim'.queue \in Seq(EntryType)
    BY <1>1, PoppedQueue
  <2> QED BY <1>1, <2>1, SimFields
<1>4. \A q : \A k \in Starts(q)' : Before(k, i) \in Starts(q) \ {i}
  BY <1>2 DEF Starts
<1>5. \A q : \A k \in Starts(q) \ {i} : After(k, i) \in Starts(q)'
  BY <1>2 DEF Starts
<1>6. \A k \in DOMAIN sim'.queue : After(Before(k, i), i) = k
  BY <1>3 DEF Before, After
<1>7. ASSUME NEW q, sim.queue[i].task # Call("start", q)
      PROVE  Starts(q)' = Starts(q) \/ (Single(Starts(q)) /\ Single(Starts(q)'))
                \/ (Starts(q) # {} /\ ~ Single(Starts(q)))
  <2>1. i \notin Starts(q)
    BY <1>7 DEF Starts
  <2>2. Starts(q) = {} => Starts(q)' = {}
    BY <1>4
  <2>3. ASSUME Single(Starts(q)) PROVE Single(Starts(q)')
    <3>1. PICK k : Starts(q) = {k}
      BY <2>3 DEF Single
    <3>2. After(k, i) \in Starts(q)'
      BY <1>5, <2>1, <3>1
    <3>3. \A j \in Starts(q)' : j = After(k, i)
      <4> SUFFICES ASSUME NEW j \in Starts(q)' PROVE j = After(k, i)
        OBVIOUS
      <4>1. Before(j, i) = k
        BY <1>4, <3>1
      <4>2. j \in DOMAIN sim'.queue
        BY DEF Starts
      <4> QED BY <1>6, <4>1, <4>2
    <3> QED BY <3>2, <3>3 DEF Single
  <2> QED BY <2>2, <2>3
<1>8. ASSUME NEW q, sim.queue[i].task = Call("start", q)
      PROVE  Starts(q) # {} /\ (Single(Starts(q)) => Starts(q)' = {})
  <2>1. i \in Starts(q)
    BY <1>8 DEF Starts
  <2>2. Single(Starts(q)) => Starts(q) \ {i} = {}
    BY <2>1 DEF Single
  <2> QED BY <1>4, <2>1, <2>2
<1>9. \A task : Queued(task) => Queued(task)' \/ task = sim.queue[i].task
  BY <1>2 DEF Queued
<1> QED BY <1>2, <1>7, <1>8, <1>9

LEMMA PopStarts ==
  ASSUME KInv, Idle, NEW i \in DOMAIN sim.queue, sim'.queue = RemoveAt(sim.queue, i)
  PROVE  /\ \A q \in Processes(sim) : sim.queue[i].task # Call("start", q) =>
              Starts(q)' = Starts(q) \/ (Single(Starts(q)) /\ Single(Starts(q)'))
         /\ \A q \in Processes(sim) : sim.queue[i].task = Call("start", q) =>
              Awaits(q) /\ NoHook(q) /\ Starts(q)' = {}
         /\ step.rest = <<>> /\ Range(step.rest) = {} /\ \A q : InStep(q) = {}
<1>1. SimOK(sim) /\ StepOK /\ WakeInv
  BY DEF KInv
<1>2. step.rest = <<>> /\ Range(step.rest) = {}
  BY <1>1, NothingLeft DEF Idle
<1>3. \A q : InStep(q) = {}
  BY <1>2 DEF InStep, Occurrences
<1>4. ASSUME NEW q \in Processes(sim)
      PROVE  /\ Starts(q) = {} \/ Single(Starts(q))
             /\ Starts(q) # {} => Awaits(q) /\ NoHook(q)
  <2>1. OnePlace(q)
    BY <1>1 DEF WakeInv
  <2> QED BY <2>1 DEF OnePlace
<1>5. \A q \in Processes(sim) : sim.queue[i].task # Call("start", q) =>
              Starts(q)' = Starts(q) \/ (Single(Starts(q)) /\ Single(Starts(q)'))
  BY <1>1, <1>4, PoppedStarts
<1>6. \A q \in Processes(sim) : sim.queue[i].task = Call("start", q) =>
              Awaits(q) /\ NoHook(q) /\ Starts(q)' = {}
  BY <1>1, <1>4, PoppedStarts
<1> QED BY <1>2, <1>3, <1>5, <1>6

LEMMA PopCases ==
  ASSUME Pop
  PROVE  \E i \in DOMAIN sim.queue : PopTask(i) \/ PopAgain(i) \/ PopEvent(i)
<1>1. PICK i \in DOMAIN sim.queue :
          LET entry == sim.queue[i]
              task  == entry.task
              s     == [sim EXCEPT !.now = entry.at, !.queue = RemoveAt(@, i)]
              Begin(t, rest) == /\ sim' = t
                                /\ step' = [task |-> task, rest |-> rest]
                                /\ UNCHANGED <<control, run, cast, ghost>>
          IN  /\ IsNext(sim.queue, i)
              /\ CASE task.do # "event" -> Begin(s, <<IF task.do = "start"
                                             THEN Call("resume", task.of) ELSE task>>)
                   [] task.do = "event" /\ sim.events[task.of].processed ->
                        Cut(s, <<>>, {task.of}, "raised")
                   [] OTHER -> Begin([s EXCEPT !.events[task.of].processed = TRUE,
                                              !.events[task.of].callbacks = <<>>],
                                    sim.events[task.of].callbacks)
  BY DEF Pop
<1>2. Idle
  BY DEF Pop
<1>3. CASE sim.queue[i].task.do # "event"
  BY <1>1, <1>2, <1>3 DEF PopTask, Popped
<1>4. CASE sim.queue[i].task.do = "event" /\ sim.events[sim.queue[i].task.of].processed
  BY <1>1, <1>2, <1>4 DEF PopAgain, Popped
<1>5. CASE sim.queue[i].task.do = "event" /\ ~ sim.events[sim.queue[i].task.of].processed
  BY <1>1, <1>2, <1>5 DEF PopEvent, Popped
<1> QED BY <1>3, <1>4, <1>5

LEMMA PopAgainKeeps ==
  ASSUME KInv, NEW i \in DOMAIN sim.queue, PopAgain(i)
  PROVE  KInv'
<1>1. SimOK(sim) /\ sim \in SimType /\ StepOK
  BY DEF KInv, SimOK
<1>2. PICK s : s = Popped(sim, i)
  OBVIOUS
<1>3. PICK e : e = sim.queue[i].task.of
  OBVIOUS
<1>4. Idle /\ IsNext(sim.queue, i) /\ sim.queue[i].task.do = "event" /\ Cut(s, <<>>, {e}, "raised")
  BY <1>2, <1>3 DEF PopAgain
<1>5. /\ SimOK(s) /\ s.events = sim.events /\ s.queue = RemoveAt(sim.queue, i)
  BY <1>1, <1>2, <1>4, PoppedSim
<1>6. sim' = s
  BY <1>4 DEF Cut
<1>7. /\ \A q \in Processes(sim) : sim.queue[i].task # Call("start", q) =>
           Starts(q)' = Starts(q) \/ (Single(Starts(q)) /\ Single(Starts(q)'))
      /\ Range(step.rest) = {} /\ \A q : InStep(q) = {}
  BY <1>4, <1>5, <1>6, PopStarts
<1>8. \A q : sim.queue[i].task # Call("start", q)
  BY <1>4 DEF Call
<1>9. \A task : Queued(task) => Queued(task)' \/ task = sim.queue[i].task
  BY <1>1, <1>5, <1>6, PoppedStarts
<1>10. \A f : Call("event", f) = sim.queue[i].task => f = e
  BY <1>3 DEF Call
<1>11. step.task = NoTask /\ control # Main
  BY <1>4 DEF Idle, Main, Loop
<1>12. \A f : step.task # Call("event", f)
  BY <1>11 DEF NoTask, Call
<1>13. Range(<<>>) \subseteq Range(step.rest)
  BY DEF Range
<1>14. CutFits(s, <<>>, {e}, "raised")
  BY <1>5, <1>7, <1>8, <1>9, <1>10, <1>12, <1>13 DEF CutFits
<1> QED BY <1>4, <1>11, <1>14, CutKeeps

\* What a pop leaves of the run: its stops, and the event it waits for.
LEMMA PopRun ==
  ASSUME KInv, Idle
  PROVE  /\ control = Loop /\ control # Main /\ run.result = "running" /\ step.task = NoTask
         /\ Range(step.rest) = {}
         /\ run.until # None =>
              /\ run.until \in DOMAIN sim.events /\ ~ sim.events[run.until].processed
              /\ StopCall \in Range(sim.events[run.until].callbacks)
         /\ run.clean => OwnStops
<1>1. StepOK /\ RunInv
  BY DEF KInv
<1>2. control = Loop /\ control # Main /\ step.task = NoTask
  BY DEF Idle, Main, Loop
<1>3. Range(step.rest) = {}
  BY <1>1, <1>2, NothingLeft
<1>4. run.result = "running" /\ StopAhead /\ (run.clean => OwnStops)
  BY <1>1, <1>2 DEF RunInv
<1>5. run.until # None => run.until \in DOMAIN sim.events
  BY <1>1 DEF RunInv
<1> QED BY <1>2, <1>3, <1>4, <1>5 DEF StopAhead

LEMMA PopTaskKeeps ==
  ASSUME KInv, NEW i \in DOMAIN sim.queue, PopTask(i)
  PROVE  KInv'
<1>1. /\ SimOK(sim) /\ sim \in SimType /\ GhostOK /\ StepOK /\ WakeInv /\ RunInv /\ FaultInv
  BY DEF KInv, SimOK
<1>2. PICK task : task = sim.queue[i].task
  OBVIOUS
<1>3. PICK call : call = IF task.do = "start" THEN Call("resume", task.of) ELSE task
  OBVIOUS
<1>4. /\ Idle /\ IsNext(sim.queue, i) /\ task.do # "event" /\ sim' = Popped(sim, i)
      /\ step' = [task |-> task, rest |-> <<call>>]
      /\ UNCHANGED <<control, run, cast, ghost>>
  BY <1>2, <1>3 DEF PopTask
<1>5. /\ SimOK(sim') /\ sim'.events = sim.events /\ sim'.queue = RemoveAt(sim.queue, i)
      /\ sim'.now = sim.queue[i].at
  BY <1>1, <1>4, PoppedSim
<1>6. /\ task \in CallType /\ task.do \in {"start", "interrupt", "stop"}
      /\ task.do \in {"start", "interrupt"} =>
           task.of \in Processes(sim) /\ sim.queue[i].prio = URGENT /\ sim.queue[i].at = sim.now
      /\ task.do = "stop" => task = StopCall
  <2>1. EntryOK(sim, sim.queue[i])
    BY <1>1 DEF SimOK
  <2>2. task \in CallType
    BY <1>1, <1>2, SimFields DEF EntryType
  <2>3. task.do = "stop" => task = StopCall
    BY <1>2, <2>1, <2>2 DEF EntryOK, CallType, StopCall, Call
  <2> QED BY <1>2, <1>4, <2>1, <2>2, <2>3 DEF EntryOK
<1>7. call \in CallType /\ (task.do = "start" => call.do = "resume") /\ (task.do # "start" => call = task)
  BY <1>3, <1>6 DEF CallType, Call
<1>8. Processes(sim') = Processes(sim)
  BY <1>5 DEF Processes
<1>9. /\ control = Loop /\ control # Main /\ run.result = "running" /\ step.task = NoTask
      /\ Range(step.rest) = {}
      /\ run.until # None =>
           /\ run.until \in DOMAIN sim.events /\ ~ sim.events[run.until].processed
           /\ StopCall \in Range(sim.events[run.until].callbacks)
      /\ run.clean => OwnStops
  BY <1>4, PopRun
<1>10. /\ \A q \in Processes(sim) : task # Call("start", q) =>
            Starts(q)' = Starts(q) \/ (Single(Starts(q)) /\ Single(Starts(q)'))
       /\ \A q \in Processes(sim) : task = Call("start", q) =>
            Awaits(q) /\ NoHook(q) /\ Starts(q)' = {}
       /\ \A q : InStep(q) = {}
  BY <1>2, <1>4, <1>5, PopStarts
<1>11. /\ \A t : Queued(t) => Queued(t)' \/ t = task
       /\ \A k \in DOMAIN sim'.queue : \E j \in DOMAIN sim.queue \ {i} : sim'.queue[k] = sim.queue[j]
  BY <1>1, <1>2, <1>5, PoppedStarts
<1>12. /\ step'.task = task /\ step'.rest = <<call>> /\ Range(step'.rest) = {call}
       /\ \A q : InStep(q)' = IF call = Call("resume", q) THEN {1} ELSE {}
  <2>1. step'.task = task /\ step'.rest = <<call>>
    BY <1>4
  <2>2. DOMAIN <<call>> = {1} /\ <<call>>[1] = call
    OBVIOUS
  <2>3. Range(<<call>>) = {call}
    BY <2>2 DEF Range
  <2>4. \A q : Occurrences(Call("resume", q), <<call>>) = IF call = Call("resume", q) THEN {1} ELSE {}
    BY <2>2 DEF Occurrences
  <2> QED BY <2>1, <2>3, <2>4 DEF InStep
<1>13. StepOK'
  <2>1. step' \in [task : CallType, rest : Seq(CallType)]
    <3>1. <<call>> \in Seq(CallType)
      BY <1>7
    <3> QED BY <1>4, <1>6, <3>1
  <2>2. control' = Loop /\ control' # Main /\ control' \notin Processes(sim')
    BY <1>1, <1>4, <1>8, <1>9, ProcessIds
  <2>3. \/ /\ step'.task.do = "start" /\ step'.task.of \in Processes(sim')
           /\ step'.rest = <<Call("resume", step'.task.of)>>
        \/ /\ step'.task.do = "interrupt" /\ step'.task.of \in Processes(sim')
           /\ step'.rest = <<step'.task>>
        \/ step'.task = Call("stop", None) /\ step'.rest = <<step'.task>>
    BY <1>3, <1>6, <1>7, <1>8, <1>12 DEF StopCall
  <2> QED BY <2>1, <2>2, <2>3 DEF StepOK
<1>14. task.do = "interrupt" => Starts(task.of) = {}
  <2> SUFFICES ASSUME task.do = "interrupt", NEW j \in Starts(task.of) PROVE FALSE
    OBVIOUS
  <2>1. j \in DOMAIN sim.queue /\ sim.queue[j].task.do = "start" /\ sim.queue[j].task.of = task.of
    BY DEF Starts, Call
  <2>2. j # i
    BY <1>2, <2>1
  <2>3. sim.queue[j].prio = URGENT /\ sim.queue[j].at = sim.now
    BY <1>1, <2>1 DEF SimOK, EntryOK
  <2>4. j < i
    BY <1>1, <1>2, <2>1 DEF SimOK, StartsFirst
  <2>5. i \in Nat /\ j \in Nat /\ sim.now \in Nat
    BY <1>1, <2>1, SimFields
  <2>6. i < j
    BY <1>4, <1>6, <2>1, <2>2, <2>3, <2>5 DEF IsNext, URGENT
  <2> QED BY <2>4, <2>5, <2>6
<1>15. ASSUME NEW q \in Processes(sim) PROVE AtTarget(q)' /\ OnePlace(q)' /\ StartedBefore(q)'
  <2>1. AtTarget(q) /\ OnePlace(q) /\ InStep(q) = {}
    BY <1>1, <1>10 DEF WakeInv
  <2>2. Awaits(q)' <=> Awaits(q)
    BY <1>4, <1>5 DEF Awaits, Alive
  <2>3. /\ \A e \in DOMAIN sim.events : Hooked(q, e)' = Hooked(q, e)
        /\ NoHook(q)' <=> NoHook(q)
    BY <1>5 DEF Hooked, NoHook
  <2>4. AtTarget(q)'
    BY <1>4, <1>5, <1>12, <2>1, <2>3 DEF AtTarget
  <2>5. StartedBefore(q)'
    <3> SUFFICES ASSUME task = Call("interrupt", q) PROVE Starts(q)' = {}
      BY <1>12 DEF StartedBefore
    <3>1. task.do = "interrupt" /\ task.of = q
      BY DEF Call
    <3>2. Starts(q) = {} /\ task # Call("start", q)
      BY <1>14, <3>1 DEF Call
    <3> QED BY <1>10, <3>2 DEF Single
  <2>6. CASE task = Call("start", q)
    <3>1. Awaits(q) /\ NoHook(q) /\ Starts(q)' = {}
      BY <1>10, <2>6
    <3>2. InStep(q)' = {1}
      BY <1>3, <1>12, <2>6 DEF Call
    <3>3. OnePlace(q)'
      BY <2>2, <2>3, <3>1, <3>2 DEF OnePlace, Single
    <3> QED BY <2>4, <2>5, <3>3
  <2>7. CASE task # Call("start", q)
    <3>1. InStep(q)' = {}
      <4> SUFFICES ASSUME call = Call("resume", q) PROVE FALSE
        BY <1>12
      <4>1. call.do = "resume" /\ call.of = q
        BY DEF Call
      <4>2. task.do = "start"
        BY <1>6, <1>7, <4>1
      <4>3. task.of = q
        BY <1>3, <4>1, <4>2 DEF Call
      <4> QED BY <1>6, <2>7, <4>2, <4>3 DEF CallType, Call
    <3>2. Starts(q)' = Starts(q) \/ (Single(Starts(q)) /\ Single(Starts(q)'))
      BY <1>10, <2>7
    <3>3. Single(Starts(q)) => Starts(q) # {}
      BY DEF Single
    <3>4. OnePlace(q)'
      <4>1. CASE ~ Awaits(q)
        BY <2>1, <2>2, <2>3, <3>1, <3>2, <3>3, <4>1 DEF OnePlace
      <4>2. CASE Awaits(q)
        <5>1. \/ Single(Starts(q)) /\ NoHook(q)
              \/ Starts(q) = {} /\ \E e \in DOMAIN sim.events : Single(Hooked(q, e))
          BY <2>1, <4>2 DEF OnePlace, Single
        <5> QED BY <1>5, <2>2, <2>3, <3>1, <3>2, <3>3, <4>2, <5>1 DEF OnePlace
      <4> QED BY <4>1, <4>2
    <3> QED BY <2>4, <2>5, <3>4
  <2> QED BY <2>6, <2>7
<1>16. WakeInv'
  <2>1. control' \notin Processes(sim') /\ ghost'.stranded \subseteq Processes(sim')
    BY <1>1, <1>4, <1>8, <1>9, ProcessIds DEF WakeInv
  <2> QED BY <1>8, <1>15, <2>1 DEF WakeInv
<1>17. RunInv'
  <2>1. run' = run /\ control' # Main /\ sim'.events = sim.events
    BY <1>4, <1>5, <1>9
  <2>2. StopCall' = StopCall
    BY DEF StopCall, Call
  <2>3. StopAhead'
    BY <1>9, <2>1, <2>2 DEF StopAhead
  <2>4. run.clean => OwnStops'
    <3> SUFFICES ASSUME OwnStops PROVE OwnStops'
      BY <1>9
    <3>1. \A k \in DOMAIN sim'.queue :
            sim'.queue[k].task.do = "stop" => run.until = None /\ sim'.queue[k].at = OwnStopTime
      BY <1>11 DEF OwnStops
    <3>2. StopCall \in Range(step'.rest) => task.do = "stop" /\ run.until = None /\ sim'.now = OwnStopTime
      <4> SUFFICES ASSUME call = StopCall PROVE task.do = "stop" /\ run.until = None /\ sim'.now = OwnStopTime
        BY <1>12
      <4>1. call.do = "stop"
        BY DEF StopCall, Call
      <4>2. task.do = "stop"
        BY <1>6, <1>7, <4>1
      <4> QED BY <1>2, <1>5, <4>2 DEF OwnStops
    <3>3. \A e \in DOMAIN sim.events : StopCall \in Range(sim.events[e].callbacks) => e = run.until
      BY DEF OwnStops
    <3> QED BY <1>12, <2>1, <2>2, <3>1, <3>2, <3>3 DEF OwnStops, OwnStopTime
  <2>5. StopsWhereAsked'
    BY <1>9, <2>1 DEF StopsWhereAsked
  <2> QED BY <1>1, <1>9, <2>1, <2>3, <2>4, <2>5 DEF RunInv
<1>18. FaultInv'
  <2>1. ASSUME NEW e \in DOMAIN sim.events PROVE FaultKept(e)
    <3>1. step.task # Call("event", e) /\ task # Call("event", e)
      BY <1>4, <1>9 DEF NoTask, Call
    <3> QED BY <1>5, <1>11, <3>1 DEF FaultKept
  <2>2. HeardWhenRun'
    BY <1>1, <1>4, <1>8, <1>9, ProcessIds DEF HeardWhenRun
  <2>3. DOMAIN sim'.events \ DOMAIN sim.events = {} /\ ghost.heard \subseteq ghost'.heard
    BY <1>4, <1>5
  <2> QED BY <1>1, <2>1, <2>2, <2>3, FaultStays
<1>19. GhostOK'
  BY <1>1, <1>4 DEF GhostOK
<1> QED BY <1>5, <1>13, <1>16, <1>17, <1>18, <1>19 DEF KInv

LEMMA ClosedSim ==
  ASSUME NEW s, SimOK(s), NEW e \in DOMAIN s.events, s.events[e].state # "pending",
         NEW t, t = Closed(s, e)
  PROVE  /\ SimOK(t) /\ Only(s, t, e) /\ t.active = s.active
         /\ t.events[e].type = s.events[e].type /\ t.events[e].members = s.events[e].members
         /\ t.events[e].state = s.events[e].state /\ t.events[e].target = s.events[e].target
         /\ t.events[e].defused = s.events[e].defused
         /\ t.events[e].processed /\ t.events[e].callbacks = <<>>
<1> DEFINE r == [s.events[e] EXCEPT !.processed = TRUE, !.callbacks = <<>>]
<1>1. s \in SimType
  BY DEF SimOK
<1>2. s.events[e] \in EventType /\ EventOK(s, e)
  BY <1>1, SimFields DEF SimOK
<1>3. <<>> \in Seq(CallType)
  OBVIOUS
<1>4. /\ r \in EventType
      /\ r.type = s.events[e].type /\ r.members = s.events[e].members
      /\ r.target = s.events[e].target
      /\ r.state = s.events[e].state /\ r.defused = s.events[e].defused
      /\ r.callbacks = <<>>
  BY <1>2, <1>3 DEF EventType
<1>5. r.processed
  BY <1>2 DEF EventType
<1>6. t = Put(s, e, r)
  BY <1>1 DEF Closed, Put, SimType
<1> HIDE DEF r
<1>7. /\ SimOK(t)
      /\ DOMAIN t.events = DOMAIN s.events
      /\ t.events[e] = r
      /\ \A f \in DOMAIN s.events \ {e} : t.events[f] = s.events[f]
      /\ t.now = s.now /\ t.queue = s.queue /\ t.active = s.active
  <2>1. r.target \in {None} \cup DOMAIN s.events
    BY <1>2, <1>4 DEF EventOK
  <2>2. r.state # "pending"
    BY <1>4
  <2>3. r.processed => r.callbacks = <<>> /\ r.state # "pending"
    BY <1>4, <2>2
  <2>4. s.events[e].state # "pending" => r.state # "pending"
    BY <2>2
  <2>5. \A i \in DOMAIN r.callbacks : CallOK(s, e, r.callbacks[i])
    BY <1>4
  <2>6. r \in EventType /\ r.type = s.events[e].type /\ r.members = s.events[e].members
    BY <1>4
  <2> QED BY <1>6, <2>1, <2>3, <2>4, <2>5, <2>6, ReplaceEvent
<1> QED BY <1>4, <1>5, <1>7 DEF Only

LEMMA PopEventKeeps ==
  ASSUME KInv, NEW i \in DOMAIN sim.queue, PopEvent(i)
  PROVE  KInv'
<1>1. /\ SimOK(sim) /\ sim \in SimType /\ GhostOK /\ StepOK /\ WakeInv /\ RunInv /\ FaultInv
  BY DEF KInv, SimOK
<1>2. PICK task : task = sim.queue[i].task
  OBVIOUS
<1>3. PICK e : e = task.of
  OBVIOUS
<1>4. PICK s : s = Popped(sim, i)
  OBVIOUS
<1>5. PICK rest : rest = sim.events[e].callbacks
  OBVIOUS
<1>6. /\ Idle /\ IsNext(sim.queue, i) /\ task.do = "event" /\ ~ sim.events[e].processed
      /\ sim' = Closed(s, e)
      /\ step' = [task |-> task, rest |-> rest]
      /\ UNCHANGED <<control, run, cast, ghost>>
  BY <1>2, <1>3, <1>4, <1>5 DEF PopEvent, Closed
<1>7. /\ SimOK(s) /\ s.events = sim.events /\ s.queue = RemoveAt(sim.queue, i)
  BY <1>1, <1>4, <1>6, PoppedSim
<1>8. task \in CallType /\ e \in DOMAIN sim.events /\ sim.events[e].state # "pending"
        /\ task = Call("event", e)
  <2>1. EntryOK(sim, sim.queue[i])
    BY <1>1 DEF SimOK
  <2>2. task \in CallType
    BY <1>1, <1>2, SimFields DEF EntryType
  <2>3. task = Call("event", e)
    BY <1>3, <1>6, <2>2 DEF CallType, Call
  <2> QED BY <1>2, <1>3, <1>6, <2>1, <2>2, <2>3 DEF EntryOK
<1>9. /\ SimOK(sim') /\ Only(s, sim', e)
      /\ sim'.events[e].type = s.events[e].type /\ sim'.events[e].members = s.events[e].members
      /\ sim'.events[e].state = s.events[e].state /\ sim'.events[e].target = s.events[e].target
      /\ sim'.events[e].defused = s.events[e].defused
      /\ sim'.events[e].processed /\ sim'.events[e].callbacks = <<>>
  BY <1>6, <1>7, <1>8, ClosedSim
<1>10. /\ DOMAIN sim'.events = DOMAIN sim.events /\ sim'.queue = RemoveAt(sim.queue, i)
       /\ \A f \in DOMAIN sim.events \ {e} : sim'.events[f] = sim.events[f]
       /\ sim'.events[e].processed /\ sim'.events[e].callbacks = <<>>
  BY <1>7, <1>9 DEF Only
<1>11. \A f \in DOMAIN sim.events :
         /\ sim'.events[f].type = sim.events[f].type /\ sim'.events[f].members = sim.events[f].members
         /\ sim'.events[f].state = sim.events[f].state /\ sim'.events[f].target = sim.events[f].target
         /\ sim'.events[f].defused = sim.events[f].defused
  BY <1>7, <1>9, <1>10
<1>12. Processes(sim') = Processes(sim)
  BY <1>10, <1>11 DEF Processes
<1>13. /\ control = Loop /\ control # Main /\ run.result = "running" /\ step.task = NoTask
       /\ Range(step.rest) = {}
       /\ run.until # None =>
            /\ run.until \in DOMAIN sim.events /\ ~ sim.events[run.until].processed
            /\ StopCall \in Range(sim.events[run.until].callbacks)
       /\ run.clean => OwnStops
  BY <1>6, PopRun
<1>14. /\ \A q \in Processes(sim) :
            Starts(q)' = Starts(q) \/ (Single(Starts(q)) /\ Single(Starts(q)'))
       /\ \A q : InStep(q) = {}
  <2>1. \A q : sim.queue[i].task # Call("start", q)
    BY <1>2, <1>6 DEF Call
  <2> QED BY <1>6, <1>10, <2>1, PopStarts
<1>15. /\ \A t : Queued(t) => Queued(t)' \/ t = task
       /\ \A k \in DOMAIN sim'.queue : \E j \in DOMAIN sim.queue \ {i} : sim'.queue[k] = sim.queue[j]
  BY <1>1, <1>2, <1>10, PoppedStarts
<1>16. step'.task = task /\ step'.rest = rest /\ \A q : InStep(q)' = Hooked(q, e)
  <2>1. step'.task = task /\ step'.rest = rest
    BY <1>6
  <2> QED BY <1>5, <2>1 DEF InStep, Hooked
<1>17. rest \in Seq(CallType) /\ \A k \in DOMAIN rest : CallOK(sim, e, rest[k])
  <2>1. rest \in Seq(CallType)
    BY <1>1, <1>5, <1>8, SimFields DEF EventType
  <2>2. EventOK(sim, e)
    BY <1>1, <1>8 DEF SimOK
  <2> QED BY <1>5, <2>1, <2>2 DEF EventOK
<1>18. StepOK'
  <2>1. step' \in [task : CallType, rest : Seq(CallType)]
    BY <1>6, <1>8, <1>17
  <2>2. control' = Loop /\ control' # Main /\ control' \notin Processes(sim')
    BY <1>1, <1>6, <1>12, <1>13, ProcessIds
  <2>3. \A k \in DOMAIN rest : CallOK(sim', e, rest[k])
    <3>1. sim' \in SimType
      BY <1>9 DEF SimOK
    <3>2. \A call : CallOK(sim, e, call) => CallOK(sim', e, call)
      BY <1>1, <1>8, <1>10, <1>11, <3>1, CallsFit
    <3> QED BY <1>17, <3>2
  <2>4. /\ step'.task.do = "event" /\ step'.task.of \in DOMAIN sim'.events
        /\ sim'.events[step'.task.of].processed
        /\ \A k \in DOMAIN step'.rest : CallOK(sim', step'.task.of, step'.rest[k])
    BY <1>3, <1>6, <1>8, <1>10, <1>16, <2>3
  <2> QED BY <2>1, <2>2, <2>4 DEF StepOK
<1>19. ASSUME NEW q \in Processes(sim) PROVE AtTarget(q)' /\ OnePlace(q)' /\ StartedBefore(q)'
  <2>1. AtTarget(q) /\ OnePlace(q) /\ InStep(q) = {} /\ q \in DOMAIN sim.events
    BY <1>1, <1>14, ProcessIds DEF WakeInv
  <2>2. Awaits(q)' <=> Awaits(q)
    BY <1>6, <1>11, <2>1 DEF Awaits, Alive
  <2>3. /\ \A f \in DOMAIN sim.events \ {e} : Hooked(q, f)' = Hooked(q, f)
        /\ Hooked(q, e)' = {} /\ InStep(q)' = Hooked(q, e)
    BY <1>10, <1>16 DEF Hooked, Occurrences
  <2>4. AtTarget(q)'
    <3>1. \A f \in DOMAIN sim'.events : Hooked(q, f)' # {} => sim'.events[q].target = f
      BY <1>10, <1>11, <2>1, <2>3 DEF AtTarget
    <3>2. InStep(q)' # {} => sim'.events[q].target = e
      BY <1>8, <1>11, <2>1, <2>3 DEF AtTarget
    <3> QED BY <1>3, <1>16, <3>1, <3>2 DEF AtTarget
  <2>5. StartedBefore(q)'
    BY <1>8, <1>16 DEF StartedBefore, Call
  <2>6. /\ Starts(q) = {} => Starts(q)' = {}
        /\ Single(Starts(q)) => Single(Starts(q)')
    <3>1. Single(Starts(q)) => Starts(q) # {}
      BY DEF Single
    <3> QED BY <1>14, <3>1
  <2>7. NoHook(q) => NoHook(q)' /\ InStep(q)' = {}
    BY <1>8, <1>10, <2>3 DEF NoHook
  <2>8. OnePlace(q)'
    <3>1. CASE ~ Awaits(q)
      BY <2>1, <2>2, <2>6, <2>7, <3>1 DEF OnePlace
    <3>2. CASE Awaits(q) /\ Single(Starts(q)) /\ NoHook(q)
      BY <2>2, <2>6, <2>7, <3>2 DEF OnePlace
    <3>3. ASSUME Awaits(q), Starts(q) = {}, NEW f \in DOMAIN sim.events, Single(Hooked(q, f))
          PROVE  OnePlace(q)'
      <4>1. \A g \in DOMAIN sim.events : g # f => Hooked(q, g) = {}
        BY <2>1, <3>3 DEF AtTarget, Single
      <4>2. CASE f = e
        <5>1. NoHook(q)'
          BY <1>10, <2>3, <4>1, <4>2 DEF NoHook
        <5> QED BY <2>2, <2>3, <2>6, <3>3, <4>2, <5>1 DEF OnePlace
      <4>3. CASE f # e
        <5>1. InStep(q)' = {} /\ Single(Hooked(q, f)') /\ f \in DOMAIN sim'.events
          BY <1>8, <1>10, <2>3, <3>3, <4>1, <4>3
        <5> QED BY <2>2, <2>6, <3>3, <5>1 DEF OnePlace
      <4> QED BY <4>2, <4>3
    <3>4. ~ Single(InStep(q))
      BY <2>1 DEF Single
    <3> QED BY <2>1, <3>1, <3>2, <3>3, <3>4 DEF OnePlace
  <2> QED BY <2>4, <2>5, <2>8
<1>20. WakeInv'
  <2>1. control' \notin Processes(sim') /\ ghost'.stranded \subseteq Processes(sim')
    BY <1>1, <1>6, <1>12, <1>13, ProcessIds DEF WakeInv
  <2> QED BY <1>12, <1>19, <2>1 DEF WakeInv
<1>21. RunInv'
  <2>1. run' = run /\ control' # Main
    BY <1>6, <1>13
  <2>2. StopCall' = StopCall
    BY DEF StopCall, Call
  <2>3. StopAhead'
    <3> SUFFICES ASSUME run.until # None
                 PROVE  StopCall \in IF sim'.events[run.until].processed
                                     THEN Range(rest) ELSE Range(sim'.events[run.until].callbacks)
      BY <1>16, <2>1, <2>2 DEF StopAhead
    <3>1. CASE run.until = e
      BY <1>5, <1>10, <1>13, <3>1
    <3>2. CASE run.until # e
      BY <1>10, <1>13, <3>2
    <3> QED BY <3>1, <3>2
  <2>4. run.clean => OwnStops'
    <3> SUFFICES ASSUME OwnStops PROVE OwnStops'
      BY <1>13
    <3>1. \A k \in DOMAIN sim'.queue :
            sim'.queue[k].task.do = "stop" => run.until = None /\ sim'.queue[k].at = OwnStopTime
      BY <1>15 DEF OwnStops
    <3>2. StopCall \in Range(rest) => e = run.until
      BY <1>5, <1>8 DEF OwnStops
    <3>3. \A f \in DOMAIN sim'.events : StopCall \in Range(sim'.events[f].callbacks) => f = run.until
      <4>1. Range(sim'.events[e].callbacks) = {}
        BY <1>10 DEF Range
      <4> QED BY <1>10, <4>1 DEF OwnStops
    <3> QED BY <1>3, <1>6, <1>16, <2>1, <2>2, <3>1, <3>2, <3>3 DEF OwnStops, OwnStopTime
  <2>5. StopsWhereAsked'
    BY <1>13, <2>1 DEF StopsWhereAsked
  <2>6. run'.until \in {None} \cup DOMAIN sim'.events
    BY <1>1, <1>10, <2>1 DEF RunInv
  <2> QED BY <1>1, <1>13, <2>1, <2>3, <2>4, <2>5, <2>6 DEF RunInv
<1>22. FaultInv'
  <2>1. ASSUME NEW f \in DOMAIN sim.events PROVE FaultKept(f)
    <3>1. step.task # Call("event", f)
      BY <1>13 DEF NoTask, Call
    <3>2. sim'.events[f].processed => sim.events[f].processed \/ step'.task = Call("event", f)
      BY <1>8, <1>10, <1>16
    <3>3. Queued(Call("event", f)) => Queued(Call("event", f))' \/ step'.task = Call("event", f)
      BY <1>15, <1>16
    <3> QED BY <1>10, <1>11, <3>1, <3>2, <3>3 DEF FaultKept
  <2>2. HeardWhenRun'
    BY <1>1, <1>6, <1>12, <1>13, ProcessIds DEF HeardWhenRun
  <2>3. DOMAIN sim'.events \ DOMAIN sim.events = {} /\ ghost.heard \subseteq ghost'.heard
    BY <1>6, <1>10
  <2> QED BY <1>1, <2>1, <2>2, <2>3, FaultStays
<1>23. GhostOK'
  BY <1>1, <1>6 DEF GhostOK
<1> QED BY <1>9, <1>18, <1>20, <1>21, <1>22, <1>23 DEF KInv

LEMMA PopKeeps == ASSUME KInv, Pop PROVE KInv'
<1>1. PICK i \in DOMAIN sim.queue : PopTask(i) \/ PopAgain(i) \/ PopEvent(i)
  BY PopCases
<1> QED BY <1>1, PopTaskKeeps, PopAgainKeeps, PopEventKeeps

-----------------------------------------------------------------------------
(* A process is resumed, or thrown an interrupt. *)

LEMMA EnterKeeps ==
  ASSUME KInv, NEW s, NEW p, NEW ghosts, NEW heard, Enter(s, p, ghosts), EnterFits(s, p, heard),
         ghosts = [stranded |-> ghost.stranded, orphaned |-> ghost.orphaned, heard |-> heard]
  PROVE  KInv'
<1>1. /\ SimOK(sim) /\ sim \in SimType /\ GhostOK /\ StepOK /\ WakeInv /\ RunInv /\ FaultInv
  BY DEF KInv, SimOK
<1>2. PICK stranded : stranded = ghost.stranded \ {p}
  OBVIOUS
<1>3. /\ sim' = [s EXCEPT !.active = p] /\ control' = p
      /\ step' = [step EXCEPT !.rest = Tail(@)]
      /\ ghost' = [ghosts EXCEPT !.stranded = stranded]
      /\ UNCHANGED <<run, cast>>
  BY <1>2 DEF Enter
<1>4. ghost' = [stranded |-> stranded, orphaned |-> ghost.orphaned, heard |-> heard]
  BY <1>3
<1>5. GhostOK' /\ ghost'.stranded = stranded /\ ghost'.heard = heard
  BY <1>4 DEF GhostOK
<1>6. /\ control = Loop /\ step.rest # <<>> /\ p \in Processes(sim) /\ Alive(sim, p)
      /\ SimOK(s) /\ DOMAIN s.events = DOMAIN sim.events /\ s.queue = sim.queue /\ s.now = sim.now
  BY DEF EnterFits
<1>7. /\ \A e \in DOMAIN sim.events :
           /\ Likewise(sim.events[e], s.events[e])
           /\ s.events[e].target = sim.events[e].target
           /\ sim.events[e].defused => s.events[e].defused
           /\ s.events[e].defused => sim.events[e].defused \/ e \in heard
  BY DEF EnterFits
<1>8. Processes(s) = Processes(sim)
  BY <1>6, <1>7 DEF Processes, Likewise
<1>9. SimOK(sim') /\ sim'.events = s.events /\ sim'.now = s.now /\ sim'.queue = s.queue
  BY <1>3, <1>6, <1>8, ActiveSim
<1>10. Processes(sim') = Processes(sim) /\ DOMAIN sim'.events = DOMAIN sim.events
  BY <1>6, <1>8, <1>9 DEF Processes
<1>11. p \in DOMAIN sim.events /\ p # Main /\ p # Loop
  BY <1>1, <1>6, ProcessIds
<1>12. /\ step'.rest = Tail(step.rest) /\ step'.task = step.task
       /\ step' \in [task : CallType, rest : Seq(CallType)]
       /\ step.rest \in Seq(CallType)
       /\ Range(Tail(step.rest)) \subseteq Range(step.rest)
  BY <1>1, <1>3, <1>6, RestOfStep
<1>13. step.task # NoTask
  BY <1>1, <1>6, NothingLeft
<1>14. StepOK'
  <2>1. control' \in Processes(sim') /\ control' # Main /\ step'.task # NoTask
    BY <1>3, <1>6, <1>10, <1>11, <1>12, <1>13
  <2>2. CASE step.task.do = "event"
    <3>1. /\ step.task.of \in DOMAIN sim.events /\ sim.events[step.task.of].processed
          /\ \A call \in Range(step.rest) : CallOK(sim, step.task.of, call)
      BY <1>1, <2>2, CallsOfStep
    <3>2. sim' \in SimType
      BY <1>9 DEF SimOK
    <3>3. \A e \in DOMAIN sim.events : /\ sim'.events[e].type = sim.events[e].type
                                       /\ sim'.events[e].members = sim.events[e].members
                                       /\ sim'.events[e].processed = sim.events[e].processed
      BY <1>7, <1>9 DEF Likewise
    <3>4. \A call : CallOK(sim, step.task.of, call) => CallOK(sim', step.task.of, call)
      BY <1>1, <1>10, <3>1, <3>2, <3>3, CallsFit
    <3>5. \A i \in DOMAIN step'.rest : CallOK(sim', step'.task.of, step'.rest[i])
      <4> TAKE i \in DOMAIN step'.rest
      <4>1. step'.rest[i] \in Range(step.rest)
        BY <1>12 DEF Range
      <4> QED BY <1>12, <3>1, <3>4, <4>1
    <3>6. step'.task.of \in DOMAIN sim'.events /\ sim'.events[step'.task.of].processed
      BY <1>10, <1>12, <3>1, <3>3
    <3> QED BY <1>12, <2>1, <2>2, <3>5, <3>6 DEF StepOK
  <2>3. CASE step.task.do # "event"
    <3>1. \A call : Tail(<<call>>) = <<>>
      OBVIOUS
    <3>2. Tail(step.rest) = <<>>
      BY <1>1, <1>6, <1>13, <2>3, <3>1 DEF StepOK
    <3>3. \/ step.task.do = "start" /\ step.task.of \in Processes(sim)
          \/ step.task.do = "interrupt" /\ step.task.of \in Processes(sim)
          \/ step.task = Call("stop", None)
      BY <1>1, <1>13, <2>3 DEF StepOK
    <3> QED BY <1>10, <1>12, <2>1, <3>2, <3>3 DEF StepOK
  <2> QED BY <2>2, <2>3
<1>15. ASSUME NEW q \in Processes(sim) PROVE AtTarget(q)' /\ OnePlace(q)' /\ StartedBefore(q)'
  <2>1. AtTarget(q) /\ OnePlace(q) /\ StartedBefore(q) /\ q \in DOMAIN sim.events /\ q # Loop
    BY <1>1, ProcessIds DEF WakeInv
  <2>2. Starts(q)' = Starts(q)
    BY <1>6, <1>9 DEF Starts
  <2>3. StartedBefore(q)'
    <3>1. step'.rest # <<>> => step.rest # <<>>
      BY <1>6
    <3> QED BY <1>12, <2>1, <2>2, <3>1 DEF StartedBefore
  <2>4. CASE q = p
    <3>1. Starts(q)' = {} /\ InStep(q)' = {}
      BY <1>12, <2>2, <2>4 DEF EnterFits, InStep
    <3>2. \A e \in DOMAIN sim'.events : Hooked(q, e)' = {}
      BY <1>9, <1>10, <2>4 DEF EnterFits, Hooked
    <3>3. ~ Awaits(q)'
      BY <1>3, <2>4 DEF Awaits
    <3>4. OnePlace(q)'
      BY <3>1, <3>2, <3>3 DEF OnePlace, NoHook
    <3>5. AtTarget(q)'
      BY <3>1, <3>2 DEF AtTarget
    <3> QED BY <2>3, <3>4, <3>5
  <2>5. CASE q # p
    <3>1. Call("resume", q) # Call("resume", p) /\ Call("resume", q).do = "resume"
      BY <2>5 DEF Call
    <3>2. Head(step.rest) # Call("resume", q)
      BY <3>1 DEF EnterFits
    <3>3. Same(Call("resume", q), step.rest, Tail(step.rest))
      BY <1>6, <1>12, <3>2, TailCall
    <3>4. /\ InStep(q) = {} => InStep(q)' = {}
          /\ Single(InStep(q)) => Single(InStep(q)')
      BY <1>12, <3>3 DEF Same, InStep
    <3>5. \A e \in DOMAIN sim.events :
            /\ Same(Call("resume", q), sim.events[e].callbacks, sim'.events[e].callbacks)
      BY <1>9, <3>1 DEF EnterFits
    <3>6. \A e \in DOMAIN sim.events : Single(Hooked(q, e)) => Single(Hooked(q, e)')
      BY <3>5 DEF Same, Hooked
    <3>7. \A e \in DOMAIN sim'.events : Hooked(q, e)' # {} =>
              e \in DOMAIN sim.events /\ Hooked(q, e) # {}
      BY <1>10, <3>5 DEF Same, Hooked
    <3>8. Awaits(q)' <=> Awaits(q)
      BY <1>2, <1>3, <1>5, <1>6, <1>7, <1>9, <2>1, <2>5 DEF Awaits, Alive, Likewise
    <3>9. sim'.events[q].target = sim.events[q].target
      BY <1>7, <1>9, <2>1
    <3>10. DOMAIN sim.events \subseteq DOMAIN sim'.events
      BY <1>10
    <3>11. Starts(q) = {} => Starts(q)' = {}
      BY <2>2
    <3>12. Single(Starts(q)) => Single(Starts(q)')
      BY <2>2
    <3>13. AtTarget(q)' /\ OnePlace(q)'
      BY <1>12, <2>1, <3>4, <3>6, <3>7, <3>8, <3>9, <3>10, <3>11, <3>12, SamePlace
    <3> QED BY <2>3, <3>13
  <2> QED BY <2>4, <2>5
<1>16. WakeInv'
  <2>1. control' \in Processes(sim') => Alive(sim', control') /\ control' \notin ghost'.stranded
    BY <1>2, <1>3, <1>5, <1>6, <1>7, <1>9, <1>11 DEF Alive, Likewise
  <2>2. ghost'.stranded \subseteq Processes(sim')
    BY <1>1, <1>2, <1>5, <1>10 DEF WakeInv
  <2> QED BY <1>10, <1>15, <2>1, <2>2 DEF WakeInv
<1>17. RunInv'
  <2>1. run' = run /\ control' # Main /\ control # Main /\ sim'.now = sim.now /\ sim'.queue = sim.queue
    BY <1>3, <1>6, <1>9, <1>11 DEF Main, Loop
  <2>2. StopCall # Call("resume", p) /\ Head(step.rest) # StopCall
    BY DEF EnterFits, StopCall, Call
  <2>3. \A e \in DOMAIN sim.events :
          StopCall \in Range(sim'.events[e].callbacks) <=> StopCall \in Range(sim.events[e].callbacks)
    BY <1>9, <2>2 DEF EnterFits, Same
  <2>4. StopCall \in Range(step'.rest) <=> StopCall \in Range(step.rest)
    <3>1. Same(StopCall, step.rest, Tail(step.rest))
      BY <1>6, <1>12, <2>2, TailCall
    <3> QED BY <1>12, <3>1 DEF Same
  <2>5. \A e \in DOMAIN sim.events : /\ sim'.events[e].processed = sim.events[e].processed
                                     /\ sim'.events[e].state = sim.events[e].state
    BY <1>7, <1>9 DEF Likewise
  <2>6. RunKept
    BY <1>10, <1>12, <2>1, <2>3, <2>4, <2>5 DEF RunKept
  <2> QED BY <1>1, <2>6, RunStays
<1>18. FaultInv'
  <2>1. ASSUME NEW e \in DOMAIN sim.events PROVE FaultKept(e)
    <3>1. \A task : Queued(task) => Queued(task)'
      BY <1>6, <1>9 DEF Queued
    <3> QED BY <1>5, <1>7, <1>9, <1>10, <1>12, <3>1 DEF FaultKept, Likewise
  <2>2. HeardWhenRun'
    <3>1. step.task.do = "event" => step.task.of \in DOMAIN sim.events
      BY <1>1, CallsOfStep
    <3> QED BY <1>5, <1>7, <1>9, <1>12, <3>1 DEF HeardWhenRun, EnterFits, Failed, Likewise
  <2>3. DOMAIN sim'.events \ DOMAIN sim.events = {} /\ ghost.heard \subseteq ghost'.heard
    BY <1>5, <1>10 DEF EnterFits
  <2> QED BY <1>1, <2>1, <2>2, <2>3, FaultStays
<1> QED BY <1>5, <1>9, <1>14, <1>16, <1>17, <1>18 DEF KInv

LEMMA ResumeKeeps == ASSUME KInv, Resume PROVE KInv'
<1>1. /\ SimOK(sim) /\ sim \in SimType /\ GhostOK /\ StepOK /\ WakeInv
  BY DEF KInv, SimOK
<1>2. PICK p : p = Callee
  OBVIOUS
<1>3. control = Loop /\ step.rest # <<>> /\ Head(step.rest).do = "resume"
  BY DEF Resume, Turn
<1>4. step.rest \in Seq(CallType) /\ Head(step.rest) \in Range(step.rest) /\ Head(step.rest) \in CallType
  BY <1>1, <1>3, RestOfStep
<1>5. Head(step.rest) = Call("resume", p)
  BY <1>2, <1>3, <1>4 DEF CallType, Call, Callee
<1>6. InStep(p) # {}
  BY <1>4, <1>5, OccurrencesOfCalls DEF InStep
<1>7. p \in Processes(sim)
  BY <1>1, <1>6, ResumesInStep
<1>8. Awaits(p) /\ Starts(p) = {} /\ Single(InStep(p)) /\ NoHook(p)
  BY <1>1, <1>6, <1>7 DEF WakeInv, OnePlace
<1>9. Occurrences(Call("resume", p), Tail(step.rest)) = {}
  BY <1>3, <1>4, <1>5, <1>8, TailCall DEF InStep
<1>10. \A e \in DOMAIN sim.events : Occurrences(Call("resume", p), sim.events[e].callbacks) = {}
  BY <1>8 DEF NoHook, Hooked
<1>11. Alive(sim, p)
  BY <1>8 DEF Awaits
<1>12. CASE step.task.do = "event" /\ Failed(sim, step.task.of)
  <2>1. PICK e : e = step.task.of
    OBVIOUS
  <2>2. PICK s : s = Sent(sim, e)
    OBVIOUS
  <2>3. PICK heard : heard = ghost.heard \cup {e}
    OBVIOUS
  <2>4. Enter(s, p, [ghost EXCEPT !.heard = heard])
    BY <1>2, <1>12, <2>1, <2>2, <2>3 DEF Resume, Heard
  <2>5. [ghost EXCEPT !.heard = heard] =
          [stranded |-> ghost.stranded, orphaned |-> ghost.orphaned, heard |-> heard]
    BY <1>1 DEF GhostOK
  <2>6. e \in DOMAIN sim.events
    BY <1>1, <1>12, <2>1, CallsOfStep
  <2>7. /\ SimOK(s) /\ Only(sim, s, e)
        /\ Likewise(sim.events[e], s.events[e])
        /\ s.events[e].target = sim.events[e].target
        /\ s.events[e].callbacks = sim.events[e].callbacks
        /\ s.events[e].defused => sim.events[e].defused \/ Failed(sim, e)
        /\ sim.events[e].defused => s.events[e].defused
    BY <1>1, <2>2, <2>6, SentSim
  <2>8. /\ DOMAIN s.events = DOMAIN sim.events /\ s.queue = sim.queue /\ s.now = sim.now
        /\ \A f \in DOMAIN sim.events :
             /\ Likewise(sim.events[f], s.events[f])
             /\ s.events[f].target = sim.events[f].target
             /\ sim.events[f].defused => s.events[f].defused
             /\ s.events[f].defused => sim.events[f].defused \/ f \in heard
             /\ s.events[f].callbacks = sim.events[f].callbacks
    BY <2>3, <2>7 DEF Only, Likewise
  <2>9. ghost.heard \subseteq heard /\ step.task.of \in heard
    BY <2>1, <2>3
  <2>10. EnterFits(s, p, heard)
    BY <1>3, <1>5, <1>7, <1>8, <1>9, <1>10, <1>11, <2>7, <2>8, <2>9, SameCalls DEF EnterFits
  <2> QED BY <2>4, <2>5, <2>10, EnterKeeps
<1>13. CASE ~ (step.task.do = "event" /\ Failed(sim, step.task.of))
  <2>1. Enter(sim, p, ghost)
    BY <1>2, <1>13 DEF Resume
  <2>2. EnterFits(sim, p, ghost.heard)
    BY <1>1, <1>3, <1>5, <1>7, <1>8, <1>9, <1>10, <1>11, <1>13, SameCalls DEF EnterFits, Likewise
  <2>3. ghost = [stranded |-> ghost.stranded, orphaned |-> ghost.orphaned, heard |-> ghost.heard]
    BY <1>1 DEF GhostOK
  <2> QED BY <2>1, <2>2, <2>3, EnterKeeps
<1> QED BY <1>12, <1>13

\* The step of an interruption has one callback, and no wake-up in it.
LEMMA InterruptStep ==
  ASSUME KInv, Turn("interrupt")
  PROVE  /\ Callee \in Processes(sim) /\ step.task = Call("interrupt", Callee)
         /\ step.rest = <<step.task>> /\ Head(step.rest) = step.task
         /\ Tail(step.rest) = <<>> /\ Range(Tail(step.rest)) = {}
         /\ \A q : InStep(q) = {} /\ Call("resume", q) # step.task
         /\ StopCall \notin Range(step.rest)
<1>1. StepOK /\ step.rest # <<>> /\ Head(step.rest).do = "interrupt"
  BY DEF KInv, Turn
<1>2. step.rest \in Seq(CallType) /\ Head(step.rest) \in Range(step.rest) /\ step.task \in CallType
  BY <1>1, RestOfStep DEF StepOK
<1>3. ASSUME NEW call, step.rest = <<call>> PROVE Head(step.rest) = call /\ Tail(step.rest) = <<>>
  BY <1>3
<1>4. step.task.do = "interrupt"
  <2>1. CASE step.task.do = "event"
    BY <1>1, <1>2, <2>1, CallsOfStep DEF CallOK
  <2>2. CASE step.task.do = "start"
    BY <1>1, <1>3, <2>2 DEF StepOK, Call, NoTask
  <2>3. CASE step.task = Call("stop", None)
    BY <1>1, <1>3, <2>3 DEF StepOK, Call, NoTask
  <2> QED BY <1>1, <2>1, <2>2, <2>3 DEF StepOK
<1>5. step.rest = <<step.task>> /\ step.task.of \in Processes(sim)
  BY <1>1, <1>4 DEF StepOK, NoTask, Call
<1>6. Head(step.rest) = step.task /\ Tail(step.rest) = <<>>
  BY <1>3, <1>5
<1>7. step.task = Call("interrupt", Callee) /\ Callee \in Processes(sim)
  BY <1>2, <1>4, <1>5, <1>6 DEF Callee, CallType, Call
<1>8. Range(step.rest) = {step.task} /\ Range(Tail(step.rest)) = {}
  BY <1>5, <1>6 DEF Range
<1>9. ASSUME NEW q PROVE InStep(q) = {} /\ Call("resume", q) # step.task
  <2>1. Call("resume", q) # step.task
    BY <1>4 DEF Call
  <2>2. Call("resume", q) \notin Range(step.rest)
    BY <1>8, <2>1
  <2> QED BY <1>2, <2>1, <2>2, OccurrencesOfCalls DEF InStep
<1>10. StopCall \notin Range(step.rest)
  BY <1>4, <1>8 DEF StopCall, Call
<1> QED BY <1>5, <1>6, <1>7, <1>8, <1>9, <1>10

LEMMA InterruptDead ==
  ASSUME KInv, Turn("interrupt"), Done(sim)
  PROVE  KInv'
<1>1. /\ SimOK(sim) /\ sim \in SimType /\ GhostOK /\ StepOK /\ WakeInv /\ RunInv /\ FaultInv
  BY DEF KInv, SimOK
<1>2. /\ step.rest # <<>> /\ control = Loop /\ sim' = sim
      /\ step' = [step EXCEPT !.rest = Tail(@)]
      /\ UNCHANGED <<control, run, cast, ghost>>
  BY DEF Turn, Done
<1>3. /\ step'.rest = Tail(step.rest) /\ step'.task = step.task
      /\ step' \in [task : CallType, rest : Seq(CallType)]
  BY <1>1, <1>2, RestOfStep
<1>4. step'.rest = <<>> /\ Range(step'.rest) = {} /\ \A q : InStep(q) = {}
  BY <1>3, InterruptStep
<1>5. Asleep
  <2>1. \A q : InStep(q)' = {}
    BY <1>4 DEF InStep, Occurrences
  <2> QED BY <1>2, <1>4, <2>1 DEF Asleep, Likewise, Starts, Hooked, Queued
<1>6. WakeInv' /\ FaultInv'
  BY <1>1, <1>3, <1>5, AsleepWake, AsleepFault
<1>7. RunInv'
  <2>1. StopCall \notin Range(step.rest)
    BY InterruptStep
  <2>2. RunKept
    BY <1>2, <1>3, <1>4, <2>1 DEF RunKept
  <2> QED BY <1>1, <2>2, RunStays
<1>8. StepOK'
  <2>1. control' # Main /\ control' \notin Processes(sim') /\ control' = Loop
    BY <1>1, <1>2, ProcessIds DEF Main, Loop
  <2>2. step'.task.do = "interrupt" /\ step'.task.of \in Processes(sim')
    BY <1>2, <1>3, InterruptStep DEF Call
  <2> QED BY <1>3, <1>4, <2>1, <2>2 DEF StepOK
<1>9. SimOK(sim') /\ GhostOK'
  BY <1>1, <1>2 DEF GhostOK
<1> QED BY <1>6, <1>7, <1>8, <1>9 DEF KInv

LEMMA InterruptUnhooked ==
  ASSUME KInv, Turn("interrupt"), NEW p, p = Callee, Alive(sim, p),
         sim.events[p].target = None \/ sim.events[sim.events[p].target].processed,
         Enter(sim, p, ghost)
  PROVE  KInv'
<1>1. SimOK(sim) /\ sim \in SimType /\ GhostOK /\ WakeInv
  BY DEF KInv, SimOK
<1>2. /\ p \in Processes(sim) /\ step.task = Call("interrupt", p) /\ step.rest # <<>>
      /\ Head(step.rest) = step.task /\ Tail(step.rest) = <<>> /\ control = Loop
  BY InterruptStep DEF Turn
<1>3. step.task.do = "interrupt" /\ Head(step.rest).do = "interrupt"
  BY <1>2 DEF Call
<1>4. Starts(p) = {}
  BY <1>1, <1>2 DEF WakeInv, StartedBefore
<1>5. \A e \in DOMAIN sim.events : Hooked(p, e) = {}
  <2> SUFFICES ASSUME NEW e \in DOMAIN sim.events, Hooked(p, e) # {} PROVE FALSE
    OBVIOUS
  <2>1. sim.events[p].target = e
    BY <1>1, <1>2 DEF WakeInv, AtTarget
  <2>2. e # None
    BY <1>1, SimFields DEF None
  <2>3. sim.events[e].callbacks = <<>>
    BY <1>1, <2>1, <2>2 DEF SimOK, EventOK
  <2> QED BY <2>3 DEF Hooked, Occurrences
<1>6. \A e \in DOMAIN sim.events : Occurrences(Call("resume", p), sim.events[e].callbacks) = {}
  BY <1>5 DEF Hooked
<1>7. Occurrences(Call("resume", p), Tail(step.rest)) = {}
  BY <1>2 DEF Occurrences
<1>8. EnterFits(sim, p, ghost.heard)
  BY <1>1, <1>2, <1>3, <1>4, <1>6, <1>7, SameCalls DEF EnterFits, Likewise
<1>9. ghost = [stranded |-> ghost.stranded, orphaned |-> ghost.orphaned, heard |-> ghost.heard]
  BY <1>1 DEF GhostOK
<1> QED BY <1>8, <1>9, EnterKeeps

LEMMA InterruptHooked ==
  ASSUME KInv, Turn("interrupt"), NEW p, p = Callee, Alive(sim, p),
         sim.events[p].target # None, ~ sim.events[sim.events[p].target].processed,
         Waiting(sim, p), Enter(Unhooked(sim, p), p, ghost)
  PROVE  KInv'
<1>1. SimOK(sim) /\ sim \in SimType /\ GhostOK /\ WakeInv
  BY DEF KInv, SimOK
<1>2. /\ p \in Processes(sim) /\ step.task = Call("interrupt", p) /\ step.rest # <<>>
      /\ Head(step.rest) = step.task /\ Tail(step.rest) = <<>> /\ control = Loop
      /\ \A q : Call("resume", q) # step.task
  BY InterruptStep DEF Turn
<1>3. step.task.do = "interrupt" /\ Head(step.rest).do = "interrupt"
  BY <1>2 DEF Call
<1>4. p \in DOMAIN sim.events /\ p \in Nat
  BY <1>1, <1>2, SimFields DEF Processes
<1>5. PICK e : e = sim.events[p].target
  OBVIOUS
<1>6. e \in DOMAIN sim.events
  BY <1>1, <1>4, <1>5 DEF SimOK, EventOK
<1>7. sim.events[e].callbacks \in Seq(CallType)
  BY <1>1, <1>6, SimFields DEF EventType
<1>8. Hooked(p, e) # {}
  BY <1>5, <1>7, OccurrencesOfCalls DEF Waiting, Hooked
<1>9. \A f \in DOMAIN sim.events \ {e} : Hooked(p, f) = {}
  BY <1>1, <1>2, <1>5 DEF WakeInv, AtTarget
<1>10. Starts(p) = {} /\ Single(Hooked(p, e))
  <2>1. OnePlace(p)
    BY <1>1, <1>2 DEF WakeInv
  <2>2. ~ NoHook(p)
    BY <1>6, <1>8 DEF NoHook
  <2>3. Starts(p) = {} /\ \E f \in DOMAIN sim.events : Single(Hooked(p, f))
    BY <2>1, <2>2 DEF OnePlace
  <2>4. \A f : Single(Hooked(p, f)) => Hooked(p, f) # {}
    BY DEF Single
  <2> QED BY <1>9, <2>3, <2>4
<1>11. PICK s : s = Unhooked(sim, p)
  OBVIOUS
<1>12. /\ SimOK(s) /\ Only(sim, s, e)
       /\ Likewise(sim.events[e], s.events[e])
       /\ s.events[e].target = sim.events[e].target
       /\ s.events[e].defused = sim.events[e].defused
       /\ s.events[e].callbacks = RemoveFirst(sim.events[e].callbacks, Call("resume", p))
  BY <1>1, <1>4, <1>5, <1>6, <1>11, UnhookedSim
<1>13. /\ DOMAIN s.events = DOMAIN sim.events /\ s.queue = sim.queue /\ s.now = sim.now
       /\ \A f \in DOMAIN sim.events \ {e} : s.events[f] = sim.events[f]
  BY <1>12 DEF Only
<1>14. PICK after : after = s.events[e].callbacks
  OBVIOUS
<1>15. Call("resume", p) \in CallType
  BY <1>4 DEF Call, CallType
<1>16. Occurrences(Call("resume", p), after) = {}
  BY <1>7, <1>10, <1>12, <1>14, <1>15, RemoveFirstCall DEF Hooked
<1>17. \A call : call # Call("resume", p) =>
         /\ Same(call, sim.events[e].callbacks, after)
         /\ call \in Range(after) => call \in Range(sim.events[e].callbacks)
  BY <1>7, <1>12, <1>14, <1>15, RemoveFirstCall
<1>18. ASSUME NEW f \in DOMAIN sim.events
       PROVE  /\ Likewise(sim.events[f], s.events[f])
              /\ s.events[f].target = sim.events[f].target
              /\ s.events[f].defused = sim.events[f].defused
              /\ Occurrences(Call("resume", p), s.events[f].callbacks) = {}
              /\ \A call : call # Call("resume", p) =>
                   /\ Same(call, sim.events[f].callbacks, s.events[f].callbacks)
                   /\ call \in Range(s.events[f].callbacks) => call \in Range(sim.events[f].callbacks)
  <2>1. CASE f = e
    BY <1>12, <1>14, <1>16, <1>17, <2>1
  <2>2. CASE f # e
    <3>1. s.events[f] = sim.events[f] /\ Hooked(p, f) = {}
      BY <1>9, <1>13, <2>2
    <3> QED BY <3>1, SameCalls DEF Likewise, Hooked
  <2> QED BY <2>1, <2>2
<1>19. Occurrences(Call("resume", p), Tail(step.rest)) = {}
  BY <1>2 DEF Occurrences
<1>20. EnterFits(s, p, ghost.heard)
  BY <1>2, <1>3, <1>10, <1>12, <1>13, <1>18, <1>19 DEF EnterFits
<1>21. ghost = [stranded |-> ghost.stranded, orphaned |-> ghost.orphaned, heard |-> ghost.heard]
  BY <1>1 DEF GhostOK
<1>22. Enter(s, p, ghost)
  BY <1>11
<1> QED BY <1>20, <1>21, <1>22, EnterKeeps

LEMMA DeliverInterruptKeeps == ASSUME KInv, DeliverInterrupt PROVE KInv'
<1>1. PICK p : p = Callee
  OBVIOUS
<1>2. Turn("interrupt") /\ control # Main
  BY DEF DeliverInterrupt, DeliverInterruptTo, Turn, Main, Loop
<1>3. \/ ~ Alive(sim, p) /\ Done(sim)
      \/ /\ Alive(sim, p) /\ Enter(sim, p, ghost)
         /\ sim.events[p].target = None \/ sim.events[sim.events[p].target].processed
      \/ /\ Alive(sim, p) /\ Enter(Unhooked(sim, p), p, ghost) /\ Waiting(sim, p)
         /\ sim.events[p].target # None /\ ~ sim.events[sim.events[p].target].processed
      \/ Cut(sim, <<>>, {}, "raised")
  BY <1>1 DEF DeliverInterrupt, DeliverInterruptTo
<1>4. CASE Cut(sim, <<>>, {}, "raised")
  <2>1. \A q : InStep(q) = {}
    BY <1>2, InterruptStep
  <2>2. \A e : step.task # Call("event", e)
    BY <1>2, InterruptStep DEF Call
  <2>3. Range(<<>>) \subseteq Range(step.rest)
    BY DEF Range
  <2> QED BY <1>2, <1>4, <2>1, <2>2, <2>3, PlainCut
<1> QED BY <1>1, <1>2, <1>3, <1>4, InterruptDead, InterruptUnhooked, InterruptHooked

-----------------------------------------------------------------------------
(* The invariant holds at the start, and in every step. *)

LEMMA PreparedSim ==
  ASSUME NEW s, Prepared(s)
  PROVE  /\ SimOK(s)
         /\ \A e \in DOMAIN s.events : \A q :
              Occurrences(Call("resume", q), s.events[e].callbacks) = {}
<1>1. s \in SimType /\ s.active = None
  BY DEF Prepared
<1>2. ASSUME NEW e \in DOMAIN s.events
      PROVE  /\ ~ s.events[e].processed /\ s.events[e].target = None
             /\ Range(s.events[e].members) \subseteq 1 .. e - 1
             /\ \A i \in DOMAIN s.events[e].callbacks :
                  LET call == s.events[e].callbacks[i] IN
                  \/ call.do = "build" /\ call.of = e
                  \/ call.do = "check" /\ call.of \in Conditions(s)
                                       /\ e \in Range(s.events[call.of].members)
  BY DEF Prepared
<1>3. ASSUME NEW e \in DOMAIN s.events PROVE EventOK(s, e)
  <2>1. \A i \in DOMAIN s.events[e].callbacks : CallOK(s, e, s.events[e].callbacks[i])
    BY <1>2 DEF CallOK
  <2> QED BY <1>2, <2>1 DEF EventOK
<1>4. ASSUME NEW i \in DOMAIN s.queue
      PROVE  EntryOK(s, s.queue[i]) /\ s.queue[i].task.do # "interrupt"
  <2>1. \/ /\ s.queue[i].task.do = "event" /\ s.queue[i].prio = NORMAL /\ s.queue[i].at >= s.now
           /\ s.queue[i].task.of \in DOMAIN s.events
           /\ s.events[s.queue[i].task.of].state # "pending"
        \/ /\ s.queue[i].task.do = "start" /\ s.queue[i].prio = URGENT /\ s.queue[i].at = s.now
           /\ s.queue[i].task.of \in Processes(s)
    BY DEF Prepared
  <2>2. s.now \in Nat
    BY <1>1, SimFields
  <2> QED BY <2>1, <2>2 DEF EntryOK
<1>5. StartsFirst(s)
  BY <1>4 DEF StartsFirst
<1>6. ASSUME NEW e \in DOMAIN s.events, NEW q
      PROVE  Occurrences(Call("resume", q), s.events[e].callbacks) = {}
  <2>1. \A i \in DOMAIN s.events[e].callbacks : s.events[e].callbacks[i].do # "resume"
    BY <1>2
  <2> QED BY <2>1 DEF Occurrences, Call
<1> QED BY <1>1, <1>3, <1>4, <1>5, <1>6 DEF SimOK

LEMMA InitHolds == KernelInit => KInv
<1> SUFFICES ASSUME KernelInit PROVE KInv
  OBVIOUS
<1>1. Prepared(sim) /\ \E c \in Casts : Start(c)
  <2>1. PICK c \in Casts : Start(c)
    BY DEF KernelInit
  <2> QED BY <2>1, CastAssumption DEF Start
<1>2. /\ control = Main /\ step = [task |-> NoTask, rest |-> <<>>]
      /\ run = [until |-> None, at |-> 0, from |-> 0, clean |-> TRUE, result |-> "none"]
      /\ ghost = [stranded |-> {}, orphaned |-> {}, heard |-> {}]
  BY <1>1 DEF Start
<1>3. /\ SimOK(sim) /\ sim \in SimType
      /\ \A e \in DOMAIN sim.events : \A q : Hooked(q, e) = {}
  BY <1>1, PreparedSim DEF SimOK, Hooked
<1>4. GhostOK /\ ghost.stranded = {} /\ ghost.heard = {}
  BY <1>2 DEF GhostOK
<1>5. /\ step.rest = <<>> /\ step.task = NoTask /\ Range(step.rest) = {}
      /\ step \in [task : CallType, rest : Seq(CallType)]
  <2>1. NoTask \in CallType
    BY DEF NoTask, Call, CallType, None
  <2> QED BY <1>2, <2>1 DEF Range
<1>6. control \notin Processes(sim)
  BY <1>2, <1>3, ProcessIds
<1>7. StepOK
  BY <1>2, <1>5, <1>6 DEF StepOK
<1>8. ASSUME NEW p \in Processes(sim) PROVE AtTarget(p) /\ OnePlace(p) /\ StartedBefore(p)
  <2>1. p \in DOMAIN sim.events /\ p # Main
    BY <1>3, ProcessIds
  <2>2. InStep(p) = {}
    BY <1>5 DEF InStep, Occurrences
  <2>3. NoHook(p)
    BY <1>3 DEF NoHook
  <2>4. PICK i \in DOMAIN sim.queue : \A j \in DOMAIN sim.queue :
              sim.queue[j].task = Call("start", p) <=> i = j
    BY <1>1, <2>1 DEF Prepared, Processes
  <2>5. Starts(p) = {i}
    BY <2>4 DEF Starts
  <2>6. Single(Starts(p))
    BY <2>5 DEF Single
  <2>7. sim.events[p].state = "pending"
    BY <1>1, <2>1 DEF Prepared, Processes
  <2>8. Awaits(p)
    BY <1>2, <1>4, <2>1, <2>7 DEF Awaits, Alive
  <2>9. AtTarget(p)
    BY <2>2, <2>3 DEF AtTarget, NoHook
  <2> QED BY <1>5, <2>2, <2>3, <2>6, <2>8, <2>9 DEF OnePlace, StartedBefore
<1>9. WakeInv
  BY <1>4, <1>6, <1>8 DEF WakeInv
<1>10. RunInv
  <2>1. /\ run \in [until : Nat, at : Times, from : Times, clean : BOOLEAN,
              result : {"none", "running", "stopped", "raised", "empty", "starved"}]
        /\ run.until = None /\ run.result = "none" /\ run.at = 0
    BY <1>2, TimesAreNatural DEF None
  <2> QED BY <1>2, <2>1 DEF RunInv, StopsWhereAsked
<1>11. FaultInv
  <2>1. \A e \in DOMAIN sim.events : ~ sim.events[e].defused /\ ~ sim.events[e].processed
    BY <1>1 DEF Prepared
  <2> QED BY <1>6, <2>1 DEF FaultInv
<1> QED BY <1>3, <1>4, <1>7, <1>9, <1>10, <1>11 DEF KInv

LEMMA StutterKeeps == ASSUME KInv, UNCHANGED kernelVars PROVE KInv'
<1>1. /\ sim' = sim /\ control' = control /\ step' = step /\ run' = run /\ ghost' = ghost
  BY DEF kernelVars
<1>2. SimOK(sim') /\ GhostOK' /\ StepOK'
  BY <1>1 DEF KInv, GhostOK, StepOK
<1>3. \A p : /\ Starts(p)' = Starts(p) /\ InStep(p)' = InStep(p) /\ (Awaits(p)' <=> Awaits(p))
             /\ NoHook(p)' <=> NoHook(p)
             /\ \A e \in DOMAIN sim.events : Hooked(p, e)' = Hooked(p, e)
  BY <1>1 DEF Starts, InStep, Awaits, NoHook, Hooked, Alive
<1>4. \A p \in Processes(sim) : AtTarget(p)' /\ OnePlace(p)' /\ StartedBefore(p)'
  BY <1>1, <1>3 DEF KInv, WakeInv, AtTarget, OnePlace, StartedBefore
<1>5. WakeInv'
  BY <1>1, <1>4 DEF KInv, WakeInv, Alive
<1>6. RunKept
  BY <1>1 DEF RunKept
<1>7. RunInv'
  BY <1>6, RunStays DEF KInv
<1>8. FaultInv'
  BY <1>1 DEF KInv, FaultInv, TakenOver, Queued, Failed, Conditions
<1> QED BY <1>2, <1>5, <1>7, <1>8, <1>1 DEF KInv

LEMMA NextKeeps == KInv /\ [KernelNext]_kernelVars => KInv'
<1> SUFFICES ASSUME KInv, [KernelNext]_kernelVars PROVE KInv'
  OBVIOUS
<1>1. CASE UNCHANGED kernelVars
  BY <1>1, StutterKeeps
<1>2. CASE UserNext
  BY <1>2, MakeEventKeeps, MakeTimeoutKeeps, MakeConditionKeeps, SpawnKeeps, SucceedOrFailKeeps,
     ChainKeeps, InterruptKeeps, YieldWrongKeeps, EndKeeps DEF UserNext
<1>3. CASE Yield
  BY <1>3, YieldKeeps
<1>4. CASE LoopNext
  BY <1>4, RunToEndKeeps, RunToTimeKeeps, RunToEventKeeps, PopKeeps, ResumeKeeps,
     DeliverInterruptKeeps, RunCheckKeeps, RunBuildKeeps, RunTriggerKeeps, RunStopKeeps,
     FinishStepKeeps, RunEmptyKeeps DEF LoopNext
<1> QED BY <1>1, <1>2, <1>3, <1>4 DEF KernelNext

-----------------------------------------------------------------------------
(* What the kernel promises. *)

\* Whatever is set up and whatever user code calls, the inductive invariant of
\* the event loop, its processes and their wake-ups holds (core/sim.py,
\* core/process.py).
THEOREM KernelInvariance == KernelSpec => []KInv
<1>1. KernelInit => KInv
  BY InitHolds
<1>2. KInv /\ [KernelNext]_kernelVars => KInv'
  BY NextKeeps
<1> QED BY <1>1, <1>2, PTL DEF KernelSpec

LEMMA TypesHold == ASSUME KInv PROVE KernelTypeOK
<1>1. SimOK(sim) /\ StepOK /\ sim \in SimType
  BY DEF KInv, SimOK
<1>2. ASSUME NEW e \in DOMAIN sim.events
      PROVE  /\ sim.events[e].state \in {"pending", "ok", "failed"}
             /\ sim.events[e].processed => sim.events[e].callbacks = <<>> /\ sim.events[e].state # "pending"
             /\ sim.events[e].target \in {None} \cup DOMAIN sim.events
             /\ Range(sim.events[e].members) \subseteq 1 .. e - 1
  <2>1. sim.events[e] \in EventType
    BY <1>1, SimFields
  <2> QED BY <1>1, <2>1 DEF SimOK, EventOK, EventType
<1>3. \A i \in DOMAIN sim.queue : sim.queue[i].at >= sim.now
  BY <1>1 DEF SimOK, EntryOK
<1> QED BY <1>1, <1>2, <1>3 DEF KernelTypeOK, SimOK, StepOK

\* The state of a Sim is well formed, an event is triggered before it is
\* processed, and nothing is ever scheduled in the past (Sim.schedule).
THEOREM KernelTypeCorrect == KernelSpec => []KernelTypeOK
<1>1. KInv => KernelTypeOK
  BY TypesHold
<1> QED BY <1>1, KernelInvariance, PTL

LEMMA HookedOnceHolds == ASSUME KInv PROVE HookedOnce
<1> SUFFICES ASSUME NEW p \in Processes(sim)
             PROVE  Hooks(Call("resume", p)) + (IF Queued(Call("start", p)) THEN 1 ELSE 0) =
                      IF Awaits(p) THEN 1 ELSE 0
  BY DEF HookedOnce, Awaits
<1>1. AtTarget(p) /\ OnePlace(p)
  BY DEF KInv, WakeInv
<1>2. Queued(Call("start", p)) <=> Starts(p) # {}
  BY DEF Queued, Starts
<1> DEFINE hooks == UNION {{e} \X Hooked(p, e) : e \in DOMAIN sim.events}
<1>3. Hooks(Call("resume", p)) = Cardinality(InStep(p)) + Cardinality(hooks)
  BY DEF Hooks, InStep, Hooked
<1>4. ASSUME NEW S PROVE (S = {} => Cardinality(S) = 0) /\ (Single(S) => Cardinality(S) = 1)
  BY FS_EmptySet, FS_Singleton DEF Single
<1>5. NoHook(p) => hooks = {}
  BY DEF NoHook
<1>6. (\E e \in DOMAIN sim.events : Single(Hooked(p, e))) => Single(hooks)
  <2> SUFFICES ASSUME NEW e \in DOMAIN sim.events, Single(Hooked(p, e)) PROVE Single(hooks)
    OBVIOUS
  <2>1. PICK i : Hooked(p, e) = {i}
    BY DEF Single
  <2>2. \A f \in DOMAIN sim.events : f # e => Hooked(p, f) = {}
    BY <1>1, <2>1 DEF AtTarget
  <2>3. hooks = {<<e, i>>}
    BY <2>1, <2>2
  <2> QED BY <2>3 DEF Single
<1>7. Single(Starts(p)) => Starts(p) # {}
  BY DEF Single
<1> HIDE DEF hooks
<1>8. /\ NoHook(p) => Cardinality(hooks) = 0
      /\ (\E e \in DOMAIN sim.events : Single(Hooked(p, e))) => Cardinality(hooks) = 1
      /\ InStep(p) = {} => Cardinality(InStep(p)) = 0
      /\ Single(InStep(p)) => Cardinality(InStep(p)) = 1
  BY <1>4, <1>5, <1>6
<1>9. CASE Awaits(p)
  BY <1>1, <1>2, <1>3, <1>7, <1>8, <1>9 DEF OnePlace
<1>10. CASE ~ Awaits(p)
  BY <1>1, <1>2, <1>3, <1>8, <1>10 DEF OnePlace
<1> QED BY <1>9, <1>10

\* No lost and no double wake-up, for any number of processes, events and
\* interrupts (Process._resume, _Interruption._interrupt).
THEOREM HookedOnceTheorem == KernelSpec => []HookedOnce
<1>1. KInv => HookedOnce
  BY HookedOnceHolds
<1> QED BY <1>1, KernelInvariance, PTL

LEMMA FailuresSurfaceHolds == ASSUME KInv PROVE FailuresSurface
<1>1. FaultInv
  BY DEF KInv
<1> SUFFICES ASSUME NEW e \in DOMAIN sim.events, Failed(sim, e), sim.events[e].processed,
                    step.task # Call("event", e), ~ Queued(Call("event", e)), e \notin ghost.heard
             PROVE  /\ sim.events[e].defused
                    /\ \E c \in Conditions(sim) :
                          Failed(sim, c) /\ e \in Range(sim.events[c].members)
  BY DEF FailuresSurface
<1>2. sim.events[e].defused
  BY <1>1 DEF FaultInv
<1>3. TakenOver(e)
  BY <1>1, <1>2 DEF FaultInv
<1> QED BY <1>2, <1>3 DEF TakenOver

\* A failure is never silently lost: it is thrown into a body, crashes the run,
\* or is taken over by a condition that fails too (Event.defused, Sim.step).
THEOREM FailuresSurfaceTheorem == KernelSpec => []FailuresSurface
<1>1. KInv => FailuresSurface
  BY FailuresSurfaceHolds
<1> QED BY <1>1, KernelInvariance, PTL

\* A run that found no stop left over stops at the time or the event it was
\* asked to, whatever happens in between (_arm_until, _StopSimulation.callback);
\* a time is met but for the rounding of the delay that the stop is scheduled by.
THEOREM StopsWhereAskedTheorem == KernelSpec => []StopsWhereAsked
<1>1. KInv => StopsWhereAsked
  BY DEF KInv, RunInv
<1> QED BY <1>1, KernelInvariance, PTL

\* If sums of times never fall short, a run does not stop before the time asked.
THEOREM NeverStopsEarly ==
  NoEarlyArrival =>
    (KernelSpec => [](run.clean /\ run.result = "stopped" /\ run.until = None => sim.now >= run.at))
<1> SUFFICES ASSUME NoEarlyArrival
             PROVE  KernelSpec => [](run.clean /\ run.result = "stopped" /\ run.until = None
                                       => sim.now >= run.at)
  OBVIOUS
<1>1. ASSUME KInv, run.clean, run.result = "stopped", run.until = None PROVE sim.now >= run.at
  <2>1. sim.now = StopTime(run.from, run.at) /\ sim.now \in Nat
    BY <1>1, SimFields DEF KInv, SimOK, RunInv, StopsWhereAsked
  <2>2. run.at \in Times /\ run.from \in Times /\ (run.at = 0 \/ run.from <= run.at)
    BY <1>1 DEF KInv, RunInv
  <2> QED BY <2>1, <2>2 DEF StopTime, NoEarlyArrival
<1> QED BY <1>1, KernelInvariance, PTL

\* Control passes from the loop to a process in two actions only.
LEMMA Awakened ==
  ASSUME KInv, KernelNext, control = Loop, NEW p \in Processes(sim), control' = p
  PROVE  (Resume /\ p = Callee) \/ DeliverInterrupt
<1>1. sim \in SimType
  BY DEF KInv, SimOK
<1>2. Loop \notin Processes(sim) /\ Main \notin Processes(sim)
  BY <1>1, ProcessIds
<1>3. control' # Loop /\ control' # Main /\ control' # control /\ control # Main
  BY <1>2 DEF Main, Loop
<1>4. ~ UserNext
  BY <1>2, <1>3 DEF UserNext, MakeEvent, MakeTimeout, MakeCondition, Spawn, SucceedOrFail, Chain,
     Interrupt, YieldWrong, End, May
<1>5. ~ Yield
  BY <1>2 DEF Yield, YieldOn
<1>6. ~ (RunToEnd \/ RunToTime \/ RunToEvent \/ RunEmpty)
  BY <1>3 DEF RunToEnd, RunToTime, RunToEvent, RunEmpty, StartRun
<1>7. ~ Pop
  BY <1>3 DEF Pop, Cut
<1>8. ~ (RunCheck \/ RunBuild \/ RunTrigger \/ RunStop \/ FinishStep)
  BY <1>3 DEF RunCheck, RunBuild, RunTrigger, RunStop, FinishStep, Done, Cut
<1>9. Resume => p = Callee
  BY DEF Resume, Enter
<1> QED BY <1>4, <1>5, <1>6, <1>7, <1>8, <1>9 DEF KernelNext, LoopNext

LEMMA NoStaleWakeupHolds ==
  ASSUME KInv, KernelNext, control = Loop, step.task.do = "event",
         NEW p \in Processes(sim), control' = p
  PROVE  sim.events[p].target = step.task.of
<1>1. CASE Resume /\ p = Callee
  <2>1. /\ step.rest \in Seq(CallType) /\ Head(step.rest) \in Range(step.rest)
        /\ Head(step.rest) \in CallType /\ Head(step.rest).do = "resume"
    BY <1>1, RestOfStep DEF KInv, Resume, Turn
  <2>2. Head(step.rest) = Call("resume", p)
    BY <1>1, <2>1 DEF Callee, Call, CallType
  <2>3. InStep(p) # {}
    BY <2>1, <2>2, OccurrencesOfCalls DEF InStep
  <2>4. AtTarget(p)
    BY DEF KInv, WakeInv
  <2> QED BY <2>3, <2>4 DEF AtTarget
<1>2. CASE DeliverInterrupt
  <2>1. step.task.do = "interrupt"
    BY <1>2, InterruptStep DEF DeliverInterrupt, DeliverInterruptTo, Call
  <2> QED BY <2>1
<1> QED BY <1>1, <1>2, Awakened

\* An event wakes a process only while it is what the process waits for: the
\* interrupt that comes in between has taken the wake-up out
\* (_Interruption._interrupt).
THEOREM NoStaleWakeupTheorem == KernelSpec => NoStaleWakeup
<1>1. ASSUME KInv, [KernelNext]_kernelVars
      PROVE  [\A p \in Processes(sim) :
                control = Loop /\ control' = p /\ step.task.do = "event"
                  => sim.events[p].target = step.task.of]_kernelVars
  BY <1>1, NoStaleWakeupHolds
<1> QED BY <1>1, KernelInvariance, PTL DEF KernelSpec, NoStaleWakeup

\* Only Pop makes an event the task of the step.
LEMMA PoppedEvent ==
  ASSUME KInv, KernelNext, step'.task.do = "event", step.task # step'.task
  PROVE  Pop
<1>1. StepOK
  BY DEF KInv
<1>2. NoTask.do # "event"
  BY DEF NoTask, Call
<1>3. \A s, rest, seen, result : ~ Cut(s, rest, seen, result)
  BY <1>2 DEF Cut
<1>4. step' # step
  OBVIOUS
<1>5. ~ (step.rest # <<>> /\ step' = [step EXCEPT !.rest = Tail(@)])
  BY <1>1, RestOfStep
<1>6. ~ UserNext
  BY <1>3, <1>4 DEF UserNext, MakeEvent, MakeTimeout, MakeCondition, Spawn, SucceedOrFail, Chain,
     Interrupt, YieldWrong, End, Calls
<1>7. ~ Yield
  BY <1>4 DEF Yield, YieldOn
<1>8. ~ (RunToEnd \/ RunToTime \/ RunToEvent \/ RunEmpty)
  BY <1>4 DEF RunToEnd, RunToTime, RunToEvent, RunEmpty, StartRun
<1>9. ~ (RunCheck \/ RunBuild \/ RunTrigger)
  BY <1>5 DEF RunCheck, RunBuild, RunTrigger, Turn, Done
<1>10. ~ (RunStop \/ FinishStep)
  BY <1>2, <1>3 DEF RunStop, FinishStep
<1>11. ~ Resume
  BY <1>5 DEF Resume, Turn, Enter
<1>12. ~ DeliverInterrupt
  BY <1>3, <1>5 DEF DeliverInterrupt, DeliverInterruptTo, Turn, Enter, Done
<1> QED BY <1>6, <1>7, <1>8, <1>9, <1>10, <1>11, <1>12 DEF KernelNext, LoopNext

LEMMA InterruptsFirstHolds ==
  ASSUME KInv, KernelNext, step'.task.do = "event", step.task # step'.task,
         NEW p, Queued(Call("interrupt", p))
  PROVE  FALSE
<1>1. Pop
  BY PoppedEvent
<1>2. PICK i \in DOMAIN sim.queue : IsNext(sim.queue, i) /\ step'.task \in {sim.queue[i].task, NoTask}
  BY <1>1 DEF Pop, Cut
<1>3. sim.queue[i].task.do = "event"
  BY <1>2 DEF NoTask, Call
<1>4. PICK j \in DOMAIN sim.queue : sim.queue[j].task = Call("interrupt", p)
  BY DEF Queued
<1>5. sim.queue[j].task.do = "interrupt"
  BY <1>4 DEF Call
<1>6. sim.queue[i].prio = NORMAL /\ sim.queue[i].at >= sim.now
  BY <1>3 DEF KInv, SimOK, EntryOK
<1>7. sim.queue[j].prio = URGENT /\ sim.queue[j].at = sim.now
  BY <1>5 DEF KInv, SimOK, EntryOK
<1>8. /\ sim.now \in Nat /\ sim.queue[i].at \in Nat
  BY SimFields, TimesAreNatural DEF KInv, SimOK, EntryType
<1>9. i # j
  BY <1>3, <1>5
<1>10. ~ (sim.queue[i].at < sim.queue[j].at) /\ ~ (sim.queue[i].prio < sim.queue[j].prio)
       /\ sim.queue[i].prio # sim.queue[j].prio
  BY <1>6, <1>7, <1>8 DEF NORMAL, URGENT
<1> QED BY <1>2, <1>4, <1>9, <1>10 DEF IsNext

\* No event is popped while an interruption is scheduled, at whatever time and
\* however many there are of both (interrupt, URGENT).
THEOREM InterruptsFirstTheorem == KernelSpec => InterruptsFirst
<1>1. ASSUME KInv, [KernelNext]_kernelVars
      PROVE  [control = Loop /\ step'.task.do = "event" /\ step.task # step'.task
                => \A p \in Processes(sim) : ~ Queued(Call("interrupt", p))]_kernelVars
  BY <1>1, InterruptsFirstHolds
<1> QED BY <1>1, KernelInvariance, PTL DEF KernelSpec, InterruptsFirst

-----------------------------------------------------------------------------
(* What is not the Kernel's: the requests of a resource and the offloads of *)
(* a pool are made and triggered by their owners alone.                    *)

LEMMA FollowsSame ==
  ASSUME NEW a
  PROVE  Follows(a, a)
BY DEF Follows

LEMMA UnalteredTrans ==
  ASSUME NEW s, NEW t, NEW u, NEW e, Unaltered(s, t, e), Unaltered(t, u, e),
         u.events[e].processed = t.events[e].processed
  PROVE  Unaltered(s, u, e)
<1>1. u.events[e].state = s.events[e].state
  BY DEF Unaltered
<1>2. Follows(s.events[e].callbacks, u.events[e].callbacks)
  BY DEF Unaltered, Follows
<1>3. \A i \in DOMAIN u.queue :
        u.queue[i].task = Call("event", e) => \E j \in DOMAIN s.queue : s.queue[j] = u.queue[i]
  BY DEF Unaltered
<1>4. Due(s, Call("event", e)) => Due(u, Call("event", e)) \/ u.events[e].processed
  BY DEF Unaltered
<1> QED BY <1>1, <1>2, <1>3, <1>4 DEF Unaltered

LEMMA AsideTrans ==
  ASSUME NEW s, NEW t, NEW u, NEW X, Aside(s, t, X), Aside(t, u, X)
  PROVE  Aside(s, u, X)
<1>1. Established(s, u, X)
  BY DEF Aside, Established
<1>2. ASSUME NEW e \in DOMAIN u.events \ X, Reserved(u, e)
      PROVE  e \in DOMAIN s.events /\ Unaltered(s, u, e)
  <2>1. e \in DOMAIN t.events /\ Unaltered(t, u, e)
    BY <1>2 DEF Aside
  <2>2. Reserved(t, e) /\ u.events[e].processed = t.events[e].processed
    BY <1>2, <2>1 DEF Aside, Established, Reserved
  <2>3. e \in DOMAIN s.events /\ Unaltered(s, t, e)
    BY <1>2, <2>1, <2>2 DEF Aside
  <2> QED BY <2>1, <2>2, <2>3, UnalteredTrans
<1> QED BY <1>1, <1>2 DEF Aside

\* One step: events altered or made, and an entry for what is not reserved.
LEMMA AsideStep ==
  ASSUME NEW s, NEW t, SimOK(t), NEW X, Established(s, t, X),
         \A e \in DOMAIN t.events \ X : Reserved(t, e) =>
           /\ e \in DOMAIN s.events /\ t.events[e].state = s.events[e].state
           /\ Follows(s.events[e].callbacks, t.events[e].callbacks),
         s.queue \in Seq(EntryType),
         \/ t.queue = s.queue
         \/ \E entry : /\ t.queue = Append(s.queue, entry)
                       /\ \A e \in DOMAIN t.events \ X : entry.task = Call("event", e) => ~ Reserved(t, e)
  PROVE  Aside(s, t, X)
<1>1. ASSUME NEW e \in DOMAIN t.events \ X, Reserved(t, e)
      PROVE  e \in DOMAIN s.events /\ Unaltered(s, t, e)
  <2> DEFINE task == Call("event", e)
  <2> HIDE DEF task
  <2>1. /\ \A i \in DOMAIN t.queue : t.queue[i].task = task => \E j \in DOMAIN s.queue : s.queue[j] = t.queue[i]
        /\ Due(s, task) => Due(t, task)
    <3>1. CASE t.queue = s.queue
      BY <3>1 DEF Due
    <3>2. CASE t.queue # s.queue
      <4>1. PICK entry : t.queue = Append(s.queue, entry) /\ entry.task # task
        BY <1>1, <3>2 DEF task
      <4>2. /\ DOMAIN t.queue = DOMAIN s.queue \cup {Len(s.queue) + 1}
            /\ t.queue[Len(s.queue) + 1] = entry
            /\ \A i \in DOMAIN s.queue : t.queue[i] = s.queue[i]
        BY <4>1
      <4> QED BY <4>1, <4>2 DEF Due
    <3> QED BY <3>1, <3>2
  <2> QED BY <1>1, <2>1 DEF Unaltered, task
<1> QED BY <1>1 DEF Aside

LEMMA AsideEvents ==
  ASSUME NEW s, SimOK(s), NEW t, SimOK(t), NEW X, t.queue = s.queue,
         DOMAIN t.events = DOMAIN s.events,
         \A e \in DOMAIN s.events :
           /\ t.events[e].type = s.events[e].type /\ t.events[e].members = s.events[e].members
           /\ t.events[e].processed = s.events[e].processed
           /\ e \notin X /\ Reserved(s, e) =>
                /\ t.events[e].state = s.events[e].state
                /\ Follows(s.events[e].callbacks, t.events[e].callbacks)
  PROVE  Aside(s, t, X)
<1>1. Established(s, t, X)
  BY DEF Established
<1>2. \A e \in DOMAIN t.events \ X : Reserved(t, e) => Reserved(s, e)
  BY DEF Reserved
<1>3. s.queue \in Seq(EntryType)
  BY SimFields DEF SimOK
<1> QED BY <1>1, <1>2, <1>3, AsideStep

LEMMA AsideNothing ==
  ASSUME NEW s, SimOK(s), NEW t, SimOK(t), t.events = s.events, t.queue = s.queue, NEW X
  PROVE  Aside(s, t, X)
BY AsideEvents, FollowsSame

LEMMA AsideOnly ==
  ASSUME NEW s, SimOK(s), NEW t, SimOK(t), NEW e, Only(s, t, e), NEW X,
         e \in DOMAIN s.events =>
           /\ Likewise(s.events[e], t.events[e])
           /\ Follows(s.events[e].callbacks, t.events[e].callbacks)
  PROVE  Aside(s, t, X)
<1>1. ASSUME NEW f \in DOMAIN s.events
      PROVE  /\ t.events[f].type = s.events[f].type /\ t.events[f].members = s.events[f].members
             /\ t.events[f].processed = s.events[f].processed
             /\ t.events[f].state = s.events[f].state
             /\ Follows(s.events[f].callbacks, t.events[f].callbacks)
  BY <1>1, FollowsSame DEF Only, Likewise
<1>2. t.queue = s.queue /\ DOMAIN t.events = DOMAIN s.events
  BY DEF Only
<1> QED BY <1>1, <1>2, AsideEvents

LEMMA FollowsJoined ==
  ASSUME NEW a, NEW b, NEW call, Joined(a, b, call), ~ OwnersCall(call)
  PROVE  Follows(a, b)
<1> SUFFICES ASSUME NEW own, OwnersCall(own), Leads(own, a)
             PROVE  Leads(own, b)
  BY DEF Follows
<1>1. a \in Seq(CallType) /\ b = Append(a, call)
  BY DEF Joined
<1>2. /\ DOMAIN b = 1 .. Len(a) + 1 /\ b[Len(a) + 1] = call /\ Len(a) \in Nat
      /\ \A i \in 1 .. Len(a) : b[i] = a[i]
  BY <1>1
<1>3. Len(a) >= 1 /\ DOMAIN a = 1 .. Len(a)
  BY <1>1 DEF Leads
<1>4. b # <<>> /\ b[1] = own
  BY <1>1, <1>2, <1>3 DEF Leads
<1>5. \A i \in DOMAIN b : OwnersCall(b[i]) => i = 1
  BY <1>2, <1>3 DEF Leads
<1> QED BY <1>4, <1>5 DEF Leads

LEMMA FollowsRemoved ==
  ASSUME NEW a \in Seq(CallType), NEW x \in CallType, ~ OwnersCall(x)
  PROVE  Follows(a, RemoveFirst(a, x))
<1> SUFFICES ASSUME NEW own, OwnersCall(own), Leads(own, a)
             PROVE  Leads(own, RemoveFirst(a, x))
  BY DEF Follows
<1>1. CASE \A i \in 1 .. Len(a) : a[i] # x
  BY <1>1 DEF RemoveFirst
<1>2. CASE \E i \in 1 .. Len(a) : a[i] = x
  <2> DEFINE I == {i \in 1 .. Len(a) : a[i] = x}
             k == Min(I)
             b == RemoveAt(a, k)
  <2>1. k \in 1 .. Len(a) /\ a[k] = x
    <3>1. I \in SUBSET Nat /\ I # {}
      BY <1>2
    <3>2. k \in I
      BY <3>1, MinIsLeast
    <3> QED BY <3>2
  <2>2. RemoveFirst(a, x) = b
    BY <1>2 DEF RemoveFirst, SelectInSeq
  <2> HIDE DEF k
  <2>3. /\ b \in Seq(CallType) /\ Len(b) = Len(a) - 1 /\ Len(a) \in Nat
        /\ \A j \in 1 .. Len(a) - 1 : b[j] = a[IF j < k THEN j ELSE j + 1]
    BY <2>1, RemoveAtIndex
  <2> HIDE DEF b
  <2>4. DOMAIN b = 1 .. (Len(a) - 1) /\ DOMAIN a = 1 .. Len(a)
    BY <2>3
  <2>5. a[1] = own /\ k # 1
    BY <2>1 DEF Leads
  <2>6. b # <<>> /\ b[1] = own
    BY <2>1, <2>3, <2>4, <2>5
  <2>7. ASSUME NEW j \in DOMAIN b, OwnersCall(b[j]) PROVE j = 1
    <3>1. (IF j < k THEN j ELSE j + 1) \in DOMAIN a /\ b[j] = a[IF j < k THEN j ELSE j + 1]
      BY <2>1, <2>3, <2>4
    <3>2. (IF j < k THEN j ELSE j + 1) = 1
      BY <2>7, <3>1 DEF Leads
    <3> QED BY <2>4, <2>7, <3>2
  <2> QED BY <2>2, <2>6, <2>7 DEF Leads
<1> QED BY <1>1, <1>2

LEMMA FollowsWithout ==
  ASSUME NEW a \in Seq(CallType), NEW dropped, \A x \in dropped : ~ OwnersCall(x)
  PROVE  Follows(a, Without(a, dropped))
<1> SUFFICES ASSUME NEW own, OwnersCall(own), Leads(own, a)
             PROVE  Leads(own, Without(a, dropped))
  BY DEF Follows
<1>1. PICK kept : Keeps(kept, a, dropped) /\ Without(a, dropped) = kept[Len(a)]
  BY KeptExists
<1>2. Len(a) \in Nat /\ Len(a) >= 1 /\ DOMAIN a = 1 .. Len(a)
  BY DEF Leads
<1> DEFINE Good(n) == kept[n] \in Seq(CallType) /\ Leads(own, kept[n])
           Bad == {n \in Nat : 1 <= n /\ n <= Len(a) /\ ~ Good(n)}
<1>0. \A n \in 0 .. Len(a) :
        kept[n] = IF n = 0 THEN <<>>
                  ELSE IF a[n] \in dropped THEN kept[n - 1] ELSE Append(kept[n - 1], a[n])
  BY <1>1 DEF Keeps
<1>3. kept[0] = <<>>
  BY <1>0, <1>2
<1>4. \A n \in 1 .. Len(a) :
        kept[n] = IF a[n] \in dropped THEN kept[n - 1] ELSE Append(kept[n - 1], a[n])
  BY <1>0
<1>5. Good(1)
  <2>1. a[1] = own /\ a[1] \in CallType /\ a[1] \notin dropped
    BY <1>2 DEF Leads
  <2>2. 1 \in 1 .. Len(a) /\ 1 - 1 = 0
    BY <1>2
  <2>3. kept[1] = Append(kept[0], own)
    BY <1>4, <2>1, <2>2
  <2>4. kept[1] = <<own>> /\ own \in CallType
    BY <1>3, <2>1, <2>3
  <2> QED BY <2>4 DEF Leads
<1>6. Bad = {}
  <2> SUFFICES ASSUME Bad # {} PROVE FALSE
    OBVIOUS
  <2>1. PICK n \in Bad : \A k \in Bad : n <= k
    BY LeastNatural
  <2>2. n \in 2 .. Len(a) /\ n - 1 \in Nat /\ 1 <= n - 1 /\ n - 1 <= Len(a) /\ n - 1 \notin Bad
    BY <1>2, <1>5, <2>1
  <2>3. Good(n - 1)
    BY <2>2
  <2>4. a[n] \in CallType /\ ~ OwnersCall(a[n])
    BY <1>2, <2>2 DEF Leads
  <2>5. PICK b : b = kept[n - 1]
    OBVIOUS
  <2>6. b \in Seq(CallType) /\ Leads(own, b)
    BY <2>3, <2>5
  <2>7. Joined(b, Append(b, a[n]), a[n])
    BY <2>6 DEF Joined
  <2>8. Leads(own, Append(b, a[n]))
    BY <2>4, <2>6, <2>7, FollowsJoined DEF Follows
  <2>9. kept[n] \in {b, Append(b, a[n])}
    <3>1. n \in 1 .. Len(a)
      BY <2>2
    <3> HIDE DEF Bad
    <3> QED BY <1>4, <2>5, <3>1
  <2>10. Good(n)
    <3> HIDE DEF Bad
    <3>1. Append(b, a[n]) \in Seq(CallType)
      BY <2>4, <2>6
    <3> QED BY <2>6, <2>8, <2>9, <3>1, Zenon
  <2> QED BY <2>1, <2>10
<1>7. Good(Len(a))
  BY <1>2, <1>6
<1> QED BY <1>1, <1>7

LEMMA AsideTrigger ==
  ASSUME NEW s, SimOK(s), NEW X, NEW e \in DOMAIN s.events, e \in X \/ ~ Reserved(s, e),
         NEW state \in {"ok", "failed"}, NEW t, t = Trigger(s, e, state)
  PROVE  Aside(s, t, X)
<1>1. /\ SimOK(t) /\ DOMAIN t.events = DOMAIN s.events
      /\ \A f \in DOMAIN s.events \ {e} : t.events[f] = s.events[f]
      /\ t.events[e].type = s.events[e].type /\ t.events[e].members = s.events[e].members
      /\ t.events[e].processed = s.events[e].processed
  BY TriggerSim
<1>2. s \in SimType /\ s.queue \in Seq(EntryType)
  BY SimFields DEF SimOK
<1>3. \E entry : t.queue = Append(s.queue, entry) /\ entry.task = Call("event", e)
  <2> DEFINE entry == [at |-> Plus(s.now, 0), prio |-> NORMAL, task |-> Call("event", e)]
  <2>1. t.queue = Append(s.queue, entry)
    BY <1>2 DEF Trigger, Schedule, SimType
  <2> QED BY <2>1
<1>4. PICK entry : t.queue = Append(s.queue, entry) /\ entry.task = Call("event", e)
  BY <1>3
<1>5. Established(s, t, X)
  BY <1>1 DEF Established
<1>6. \A f \in DOMAIN t.events \ X : Reserved(t, f) => f # e /\ f \in DOMAIN s.events
  BY <1>1 DEF Reserved
<1>7. \A f \in DOMAIN t.events \ X : Reserved(t, f) =>
           /\ f \in DOMAIN s.events /\ t.events[f].state = s.events[f].state
           /\ Follows(s.events[f].callbacks, t.events[f].callbacks)
  BY <1>1, <1>6, FollowsSame
<1>8. \A f \in DOMAIN t.events \ X : entry.task = Call("event", f) => ~ Reserved(t, f)
  BY <1>4, <1>6 DEF Call
<1> QED BY <1>1, <1>2, <1>4, <1>5, <1>7, <1>8, AsideStep

LEMMA AsideCreate ==
  ASSUME NEW s, SimOK(s), NEW X, NEW r \in EventType, ~ r.processed, r.callbacks = <<>>, r.target = None,
         Range(r.members) \subseteq DOMAIN s.events,
         Fresh(s) \in X \/ r.type \notin {"put", "get", "offload"}
  PROVE  Aside(s, Create(s, r), X)
<1>1. PICK t : t = Create(s, r)
  OBVIOUS
<1>2. /\ SimOK(t) /\ DOMAIN t.events = DOMAIN s.events \cup {Fresh(s)} /\ t.events[Fresh(s)] = r
      /\ \A f \in DOMAIN s.events : t.events[f] = s.events[f]
      /\ t.queue = s.queue
  BY <1>1, AddEvent
<1>3. s.queue \in Seq(EntryType)
  BY SimFields DEF SimOK
<1>4. Established(s, t, X)
  BY <1>2 DEF Established
<1>5. \A f \in DOMAIN t.events \ X : Reserved(t, f) => f \in DOMAIN s.events
  BY <1>2 DEF Reserved
<1>6. \A f \in DOMAIN t.events \ X : Reserved(t, f) =>
           /\ f \in DOMAIN s.events /\ t.events[f].state = s.events[f].state
           /\ Follows(s.events[f].callbacks, t.events[f].callbacks)
  BY <1>2, <1>5, FollowsSame
<1>7. Aside(s, t, X)
  BY <1>2, <1>3, <1>4, <1>6, AsideStep
<1> QED BY <1>1, <1>7

LEMMA AsideHook ==
  ASSUME NEW s, SimOK(s), NEW X, NEW e \in DOMAIN s.events, ~ s.events[e].processed,
         NEW call \in CallType, CallOK(s, e, call), ~ OwnersCall(call), NEW t, t = Hook(s, e, call)
  PROVE  Aside(s, t, X)
<1>1. /\ SimOK(t) /\ Only(s, t, e) /\ Likewise(s.events[e], t.events[e])
      /\ Joined(s.events[e].callbacks, t.events[e].callbacks, call)
  BY HookSim
<1>2. Follows(s.events[e].callbacks, t.events[e].callbacks)
  BY <1>1, FollowsJoined
<1> QED BY <1>1, <1>2, AsideOnly

LEMMA AsideEntry ==
  ASSUME NEW s, SimOK(s), NEW X, NEW entry \in EntryType, EntryOK(s, entry),
         entry.task.do = "start" =>
           \A i \in DOMAIN s.queue : s.queue[i].task # Call("interrupt", entry.task.of),
         \A e \in DOMAIN s.events \ X : entry.task = Call("event", e) => ~ Reserved(s, e),
         NEW t, t = [s EXCEPT !.queue = Append(@, entry)]
  PROVE  Aside(s, t, X)
<1>1. SimOK(t) /\ t.events = s.events /\ t.queue = Append(s.queue, entry)
  BY AddEntry
<1>2. s.queue \in Seq(EntryType)
  BY SimFields DEF SimOK
<1>3. Established(s, t, X)
  BY <1>1 DEF Established
<1>4. \A f \in DOMAIN t.events \ X : Reserved(t, f) =>
           /\ f \in DOMAIN s.events /\ t.events[f].state = s.events[f].state
           /\ Follows(s.events[f].callbacks, t.events[f].callbacks)
  BY <1>1, FollowsSame
<1>5. \A f \in DOMAIN t.events \ X : entry.task = Call("event", f) => ~ Reserved(t, f)
  BY <1>1 DEF Reserved
<1> QED BY <1>1, <1>2, <1>3, <1>4, <1>5, AsideStep

LEMMA AsideCount ==
  ASSUME NEW s, SimOK(s), NEW X, NEW c \in DOMAIN s.events,
         NEW t, t = Put(s, c, [s.events[c] EXCEPT !.count = @ + 1])
  PROVE  Aside(s, t, X)
<1>1. /\ Quiet(s, t) /\ t.events[c].members = s.events[c].members
      /\ t.events[c].state = s.events[c].state
      /\ Only(s, t, c) /\ t.events[c].callbacks = s.events[c].callbacks
  BY QuietCount
<1>2. SimOK(t) /\ Likewise(s.events[c], t.events[c])
  BY <1>1 DEF Quiet, Tame, EventKept, Likewise
<1>3. Follows(s.events[c].callbacks, t.events[c].callbacks)
  BY <1>1, FollowsSame
<1> QED BY <1>1, <1>2, <1>3, AsideOnly

LEMMA AsideDefused ==
  ASSUME NEW s, SimOK(s), NEW X, NEW members, NEW t, t = Defused(s, members)
  PROVE  Aside(s, t, X)
<1>1. /\ Relieved(s, t.events) /\ t = [s EXCEPT !.events = t.events]
      /\ \A e \in DOMAIN s.events : t.events[e].callbacks = s.events[e].callbacks
  BY DefusedEvents
<1>2. PICK events : events = t.events
  OBVIOUS
<1>3. Relieved(s, events) /\ t = [s EXCEPT !.events = events]
  BY <1>1, <1>2
<1>4. SimOK(t) /\ t.queue = s.queue
  BY <1>3, ReplaceEvents
<1>5. DOMAIN t.events = DOMAIN s.events
  BY <1>1 DEF Relieved
<1>6. \A e \in DOMAIN s.events :
        /\ t.events[e].type = s.events[e].type /\ t.events[e].members = s.events[e].members
        /\ t.events[e].processed = s.events[e].processed
        /\ t.events[e].state = s.events[e].state
        /\ Follows(s.events[e].callbacks, t.events[e].callbacks)
  BY <1>1, FollowsSame DEF Relieved
<1> QED BY <1>4, <1>5, <1>6, AsideEvents

LEMMA NotReserved ==
  ASSUME NEW s, NEW c \in Conditions(s)
  PROVE  ~ Reserved(s, c) /\ c \in DOMAIN s.events
BY DEF Conditions, Reserved

LEMMA AsideKeeps ==
  ASSUME NEW s, NEW X, NEW t, Aside(s, t, X)
  PROVE  /\ SimOK(t) /\ DOMAIN s.events \subseteq DOMAIN t.events
         /\ Conditions(s) \subseteq Conditions(t) /\ Processes(s) \subseteq Processes(t)
         /\ \A e \in DOMAIN s.events : t.events[e].type = s.events[e].type
BY DEF Aside, Established, Conditions, Processes

LEMMA AsideCheck ==
  ASSUME NEW s, SimOK(s), NEW X, NEW c \in Conditions(s), NEW e, NEW t, t = Check(s, c, e)
  PROVE  Aside(s, t, X)
<1>1. PICK cond : cond = [s.events[c] EXCEPT !.count = @ + 1]
  OBVIOUS
<1>2. PICK counted : counted = Put(s, c, cond)
  OBVIOUS
<1>3. PICK failing : failing = Defused(counted, cond.members)
  OBVIOUS
<1>4. Aside(s, counted, X)
  BY <1>1, <1>2, NotReserved, AsideCount
<1>5. Aside(counted, failing, X)
  BY <1>3, <1>4, AsideKeeps, AsideDefused
<1>6. Aside(s, failing, X)
  BY <1>4, <1>5, AsideTrans
<1>7. /\ c \in DOMAIN counted.events /\ ~ Reserved(counted, c)
      /\ c \in DOMAIN failing.events /\ ~ Reserved(failing, c)
  BY <1>4, <1>6, AsideKeeps, NotReserved
<1>8. t \in {s, Trigger(failing, c, "failed"), Trigger(counted, c, "ok"), counted}
  BY <1>1, <1>2, <1>3 DEF Check
<1>9. Aside(s, Trigger(failing, c, "failed"), X)
  BY <1>6, <1>7, AsideKeeps, AsideTrigger, AsideTrans
<1>10. Aside(s, Trigger(counted, c, "ok"), X)
  BY <1>4, <1>7, AsideKeeps, AsideTrigger, AsideTrans
<1>11. Aside(s, s, X)
  BY AsideNothing
<1> QED BY <1>4, <1>8, <1>9, <1>10, <1>11

LEMMA AsideMade ==
  ASSUME NEW s, SimOK(s), NEW X, NEW type \in {"all", "any"}, NEW members \in Seq(DOMAIN s.events)
  PROVE  Aside(s, Made(s, type, members), X)
<1> DEFINE r == [NewEvent(type) EXCEPT !.members = members]
<1>1. DOMAIN s.events \subseteq Nat
  BY SimFields DEF SimOK
<1>2. members \in Seq(Nat) /\ Range(members) \subseteq DOMAIN s.events
  BY <1>1 DEF Range
<1>3. /\ r.type = type /\ ~ r.processed /\ r.callbacks = <<>> /\ r.target = None
      /\ r.members = members
  BY DEF NewEvent
<1>4. r \in EventType
  BY <1>2, NewEventFits, ZenonT(60) DEF EventType
<1> HIDE DEF r
<1>5. Aside(s, Create(s, r), X)
  BY <1>2, <1>3, <1>4, AsideCreate
<1> QED BY <1>5 DEF Made, r

LEMMA AsideWatch ==
  ASSUME NEW s, SimOK(s), NEW c, NEW members, New(s, c, members), NEW m \in DOMAIN s.events,
         m \in Range(members), NEW t, t = WatchMember(s, c, m)
  PROVE  Aside(s, t, {})
<1>1. c \in Conditions(s) /\ c \in Nat
  BY SimFields DEF New, Conditions, SimOK
<1>2. CASE s.events[m].processed
  <2>1. t = Check(s, c, m)
    BY <1>2 DEF WatchMember
  <2> QED BY <1>1, <2>1, AsideCheck
<1>3. CASE ~ s.events[m].processed
  <2>1. t = Hook(s, m, Call("check", c))
    BY <1>3 DEF WatchMember
  <2>2. Call("check", c) \in CallType /\ CallOK(s, m, Call("check", c)) /\ ~ OwnersCall(Call("check", c))
    BY <1>1 DEF Call, CallType, CallOK, OwnersCall, New
  <2> QED BY <1>3, <2>1, <2>2, AsideHook
<1> QED BY <1>2, <1>3

LEMMA AsideNew ==
  ASSUME NEW s, NEW t, Aside(s, t, {}), NEW c, NEW members, New(s, c, members)
  PROVE  New(t, c, members)
BY DEF New, Aside, Established, Conditions

LEMMA AsideCombine ==
  ASSUME NEW s, SimOK(s), NEW type \in {"all", "any"}, NEW members \in Seq(DOMAIN s.events)
  PROVE  Aside(s, Combine(s, type, members), {})
<1>1. PICK c : c = Fresh(s)
  OBVIOUS
<1>2. PICK made : made = Made(s, type, members)
  OBVIOUS
<1>3. New(made, c, members) /\ Aside(s, made, {}) /\ SimOK(made)
  BY <1>1, <1>2, QuietMade, AsideMade DEF Aside
<1>4. CASE members = <<>>
  <2>1. Combine(s, type, members) = Trigger(made, c, "ok")
    BY <1>1, <1>2, <1>4 DEF Combine, Made
  <2>2. c \in DOMAIN made.events /\ ~ Reserved(made, c)
    BY <1>3, NotReserved DEF New
  <2>3. Aside(made, Trigger(made, c, "ok"), {})
    BY <1>3, <2>2, AsideTrigger
  <2> QED BY <1>3, <2>1, <2>3, AsideTrans
<1>5. CASE members # <<>>
  <2>1. PICK w : /\ WatchesUpTo(w, Len(members), s, type, members)
                 /\ Combine(s, type, members) = Hook(w[Len(members)], c, Call("build", c))
    BY <1>1, <1>5, WatchedExists
  <2>2. \A i \in 0 .. Len(members) :
          w[i] = IF i = 0 THEN made ELSE WatchMember(w[i - 1], c, members[i])
    BY <1>1, <1>2, <2>1 DEF WatchesUpTo
  <2> DEFINE Late == {n \in Nat : n <= Len(members) /\ ~ Aside(made, w[n], {})}
  <2>3. Late = {}
    <3> SUFFICES ASSUME Late # {} PROVE FALSE
      OBVIOUS
    <3>1. PICK n \in Late : \A k \in Late : n <= k
      BY LeastNatural
    <3>2. n # 0
      BY <1>3, <2>2, <3>1, AsideNothing
    <3>3. n \in 1 .. Len(members) /\ n - 1 \in Nat /\ n - 1 <= Len(members) /\ n - 1 \notin Late
      BY <3>1, <3>2
    <3>4. PICK t : t = w[n - 1]
      OBVIOUS
    <3>5. PICK m : m = members[n]
      OBVIOUS
    <3>6. Aside(made, t, {})
      BY <3>3, <3>4
    <3>7. w[n] = WatchMember(t, c, m)
      BY <2>2, <3>3, <3>4, <3>5
    <3>8. m \in DOMAIN s.events /\ m \in Range(members)
      BY <3>3, <3>5 DEF Range
    <3>9. SimOK(t) /\ New(t, c, members) /\ m \in DOMAIN t.events
      BY <1>3, <3>6, <3>8, AsideNew, AsideKeeps
    <3>10. Aside(t, WatchMember(t, c, m), {})
      BY <3>8, <3>9, AsideWatch
    <3>11. Aside(made, w[n], {})
      BY <3>6, <3>7, <3>10, AsideTrans
    <3> QED BY <3>1, <3>11
  <2>4. PICK t : t = w[Len(members)]
    OBVIOUS
  <2>5. Aside(made, t, {})
    BY <2>3, <2>4
  <2>6. SimOK(t) /\ New(t, c, members) /\ c \in DOMAIN t.events /\ c \in Nat /\ ~ t.events[c].processed
    <3>1. SimOK(t) /\ New(t, c, members)
      BY <1>3, <2>5, AsideNew, AsideKeeps
    <3> QED BY <3>1, SimFields DEF New, Conditions, SimOK
  <2>7. /\ Call("build", c) \in CallType /\ CallOK(t, c, Call("build", c))
        /\ ~ OwnersCall(Call("build", c))
    BY <2>6 DEF Call, CallType, CallOK, OwnersCall
  <2>8. Aside(t, Hook(t, c, Call("build", c)), {})
    BY <2>6, <2>7, AsideHook
  <2>9. Aside(made, Hook(t, c, Call("build", c)), {})
    BY <2>5, <2>8, AsideTrans
  <2> QED BY <1>3, <2>1, <2>4, <2>9, AsideTrans
<1> QED BY <1>4, <1>5

LEMMA AsideRemoveChecks ==
  ASSUME NEW s, SimOK(s), NEW X, NEW c
  PROVE  Aside(s, RemoveChecks(s, c), X)
<1>1. PICK members : members = UNION {Range(s.events[d].members) : d \in Nested(s, c)}
  OBVIOUS
<1>2. PICK checks : checks = {Call("check", d) : d \in Nested(s, c)}
  OBVIOUS
<1> DEFINE events == [m \in DOMAIN s.events |->
            IF m \in members THEN [s.events[m] EXCEPT !.callbacks = Without(@, checks)]
                             ELSE s.events[m]]
<1>3. PICK t : t = RemoveChecks(s, c)
  OBVIOUS
<1>4. t = [s EXCEPT !.events = events]
  BY <1>1, <1>2, <1>3 DEF RemoveChecks
<1>5. s \in SimType /\ SimOK(t)
  BY <1>3, QuietRemoveChecks DEF SimOK, Quiet, Tame
<1>6. t.events = events /\ t.queue = s.queue
  BY <1>4, <1>5 DEF SimType
<1>7. \A x \in checks : ~ OwnersCall(x)
  BY <1>2 DEF Call, OwnersCall
<1>8. ASSUME NEW m \in DOMAIN s.events
      PROVE  /\ events[m].type = s.events[m].type /\ events[m].members = s.events[m].members
             /\ events[m].processed = s.events[m].processed /\ events[m].state = s.events[m].state
             /\ Follows(s.events[m].callbacks, events[m].callbacks)
  <2>1. PICK r : r = s.events[m]
    OBVIOUS
  <2>2. r \in EventType /\ r.callbacks \in Seq(CallType)
    BY <1>5, <2>1, SimFields DEF EventType
  <2>3. PICK calls : calls = Without(r.callbacks, checks)
    OBVIOUS
  <2>4. Follows(r.callbacks, calls)
    BY <1>7, <2>2, <2>3, FollowsWithout
  <2>5. events[m] \in {r, [r EXCEPT !.callbacks = calls]}
    BY <2>1, <2>3
  <2> HIDE DEF events
  <2>6. PICK q : q = [r EXCEPT !.callbacks = calls]
    OBVIOUS
  <2>7. /\ q.type = r.type /\ q.members = r.members /\ q.processed = r.processed
        /\ q.state = r.state /\ q.callbacks = calls
    BY <2>2, <2>6 DEF EventType
  <2> QED BY <2>1, <2>4, <2>5, <2>6, <2>7, FollowsSame
<1>9. DOMAIN events = DOMAIN s.events
  OBVIOUS
<1> HIDE DEF events
<1>10. Aside(s, t, X)
  BY <1>5, <1>6, <1>8, <1>9, AsideEvents
<1> QED BY <1>3, <1>10

LEMMA AsideSchedule ==
  ASSUME NEW s, SimOK(s), NEW X, NEW task \in CallType, NEW prio \in {URGENT, NORMAL}, NEW delay \in Times,
         EntryOK(s, [at |-> Plus(s.now, delay), prio |-> prio, task |-> task]),
         task.do = "start" => \A i \in DOMAIN s.queue : s.queue[i].task # Call("interrupt", task.of),
         \A e \in DOMAIN s.events \ X : task = Call("event", e) => ~ Reserved(s, e),
         NEW t, t = Schedule(s, task, prio, delay)
  PROVE  Aside(s, t, X)
<1>1. PICK entry : entry = [at |-> Plus(s.now, delay), prio |-> prio, task |-> task]
  OBVIOUS
<1>2. entry \in EntryType /\ entry.task = task /\ EntryOK(s, entry)
  BY <1>1, EntryFits DEF SimOK
<1>3. t = [s EXCEPT !.queue = Append(@, entry)]
  BY <1>1 DEF Schedule
<1> QED BY <1>2, <1>3, AsideEntry

\* The step under way, when all that happens is the Kernel's.
LEMMA StepKept ==
  ASSUME SimOK(sim), StepOK, SimOK(sim'), NEW X, Established(sim, sim', X),
         \A e \in X \cap DOMAIN sim.events : sim.events[e].processed => sim'.events[e].processed,
         \/ step' = step
         \/ step.rest # <<>> /\ step' = [step EXCEPT !.rest = Tail(@)],
         control' \in {Main, Loop} \cup Processes(sim'),
         control' = Main => step.task = NoTask,
         control' \in Processes(sim') => step.task # NoTask
  PROVE  StepOK'
<1>1. sim \in SimType /\ sim' \in SimType
  BY DEF SimOK
<1>2. \A e \in DOMAIN sim.events : \A call : CallOK(sim, e, call) => CallOK(sim', e, call)
  BY <1>1, CallsFit DEF Established
<1>3. /\ Processes(sim) \subseteq Processes(sim')
      /\ \A e \in DOMAIN sim.events : /\ e \in DOMAIN sim'.events
                                      /\ sim.events[e].processed => sim'.events[e].processed
  BY DEF Established, Processes
<1>4. CASE step' = step
  BY <1>2, <1>3, <1>4 DEF StepOK
<1>5. CASE step.rest # <<>> /\ step' = [step EXCEPT !.rest = Tail(@)]
  <2>1. /\ step'.rest = Tail(step.rest) /\ step'.task = step.task
        /\ step' \in [task : CallType, rest : Seq(CallType)]
        /\ Range(Tail(step.rest)) \subseteq Range(step.rest)
    BY <1>5, RestOfStep
  <2>2. /\ control' = Main => step'.task = NoTask
        /\ control' \in Processes(sim') => step'.task # NoTask
    BY <2>1
  <2>3. CASE step.task.do = "event"
    <3>1. /\ step.task.of \in DOMAIN sim.events /\ sim.events[step.task.of].processed
          /\ \A call \in Range(step.rest) : CallOK(sim, step.task.of, call)
      BY <2>3, CallsOfStep
    <3>2. \A i \in DOMAIN step'.rest : CallOK(sim', step'.task.of, step'.rest[i])
      <4> TAKE i \in DOMAIN step'.rest
      <4>1. step'.rest[i] \in Range(step.rest)
        BY <2>1 DEF Range
      <4> QED BY <1>2, <2>1, <3>1, <4>1
    <3>3. step'.task.of \in DOMAIN sim'.events /\ sim'.events[step'.task.of].processed
      BY <1>3, <2>1, <3>1
    <3> QED BY <2>1, <2>2, <2>3, <3>2, <3>3 DEF StepOK
  <2>4. CASE step.task.do # "event"
    <3>1. Tail(step.rest) = <<>>
      <4>1. \A call : step.rest = <<call>> => Tail(step.rest) = <<>>
        OBVIOUS
      <4> QED BY <1>5, <2>4, <4>1 DEF StepOK
    <3> QED BY <1>3, <1>5, <2>1, <2>2, <2>4, <3>1 DEF StepOK
  <2> QED BY <2>3, <2>4
<1> QED BY <1>4, <1>5

LEMMA CallsKeepStep ==
  ASSUME SimOK(sim), StepOK, NEW X, Aside(sim, sim', X),
         \A e \in X \cap DOMAIN sim.events : sim.events[e].processed => sim'.events[e].processed,
         UNCHANGED <<control, step>>
  PROVE  StepOK'
<1>1. Established(sim, sim', X) /\ SimOK(sim') /\ Processes(sim) \subseteq Processes(sim')
  BY AsideKeeps DEF Aside
<1>2. /\ control \in {Main, Loop} \cup Processes(sim) /\ (control = Main => step.task = NoTask)
      /\ (control \in Processes(sim) => step.task # NoTask)
  BY DEF StepOK
<1>3. control \in Processes(sim') => control \in Processes(sim)
  <2>1. CASE control \in Processes(sim)
    BY <2>1
  <2>2. CASE control \in {Main, Loop}
    <3>1. DOMAIN sim'.events \subseteq Nat \ {0}
      BY <1>1, SimFields DEF SimOK
    <3> QED BY <2>2, <3>1 DEF Processes, Main, Loop
  <2> QED BY <1>2, <2>1, <2>2
<1> QED BY <1>1, <1>2, <1>3, StepKept

LEMMA AsideSpawned ==
  ASSUME NEW s, SimOK(s), NEW t, t = Spawned(s)
  PROVE  Aside(s, t, {})
<1> DEFINE r == NewEvent("process")
<1>1. PICK c : c = Fresh(s)
  OBVIOUS
<1>2. PICK u : u = Create(s, r)
  OBVIOUS
<1>3. t = Schedule(u, Call("start", c), URGENT, 0)
  BY <1>1, <1>2 DEF Spawned
<1>4. /\ r \in EventType /\ r.type = "process" /\ ~ r.processed
      /\ r.callbacks = <<>> /\ r.target = None /\ r.members = <<>>
  BY NewEventFits
<1>5. Range(r.members) \subseteq DOMAIN s.events
  BY <1>4 DEF Range
<1> HIDE DEF r
<1>6. /\ Aside(s, u, {}) /\ SimOK(u) /\ DOMAIN u.events = DOMAIN s.events \cup {c}
      /\ c \notin DOMAIN s.events /\ u.events[c] = r /\ u.queue = s.queue
  BY <1>1, <1>2, <1>4, <1>5, AsideCreate, AddEvent
<1>7. u \in SimType /\ c \in Nat /\ c \in Processes(u) /\ u.now \in Times /\ 0 \in Times
  BY <1>4, <1>6, SimFields, TimesAreNatural DEF SimOK, Processes
<1>8. Call("start", c) \in CallType /\ Call("start", c).do = "start" /\ Call("start", c).of = c
  BY <1>7 DEF Call, CallType
<1>9. EntryOK(u, [at |-> Plus(u.now, 0), prio |-> URGENT, task |-> Call("start", c)])
  BY <1>7, <1>8, PlusTimes DEF EntryOK
<1>10. \A i \in DOMAIN u.queue : u.queue[i].task # Call("interrupt", c)
  <2> SUFFICES ASSUME NEW i \in DOMAIN s.queue, s.queue[i].task = Call("interrupt", c)
               PROVE  FALSE
    BY <1>6
  <2>1. EntryOK(s, s.queue[i])
    BY DEF SimOK
  <2>2. c \in Processes(s)
    BY <2>1 DEF EntryOK, Call
  <2> QED BY <1>6, <2>2 DEF Processes
<1>11. \A e : Call("start", c) # Call("event", e)
  BY DEF Call
<1>12. Aside(u, t, {})
  BY <1>3, <1>6, <1>7, <1>8, <1>9, <1>10, <1>11, AsideSchedule
<1> QED BY <1>6, <1>12, AsideTrans

LEMMA AsideTimeout ==
  ASSUME NEW s, SimOK(s), NEW d \in Times,
         NEW t, t = Schedule(Create(s, [NewEvent("timeout") EXCEPT !.state = "ok"]),
                             Call("event", Fresh(s)), NORMAL, d)
  PROVE  Aside(s, t, {})
<1> DEFINE r == [NewEvent("timeout") EXCEPT !.state = "ok"]
<1>1. PICK c : c = Fresh(s)
  OBVIOUS
<1>2. PICK u : u = Create(s, r)
  OBVIOUS
<1>3. t = Schedule(u, Call("event", c), NORMAL, d)
  BY <1>1, <1>2
<1>4. NewEvent("timeout") \in EventType
  BY NewEventFits
<1>5. /\ r \in EventType /\ r.type = "timeout" /\ r.state = "ok"
      /\ r.processed = NewEvent("timeout").processed
      /\ r.callbacks = NewEvent("timeout").callbacks
      /\ r.target = NewEvent("timeout").target
      /\ r.members = NewEvent("timeout").members
  BY <1>4, NewEventFits DEF EventType
<1> HIDE DEF r
<1>6. /\ ~ r.processed /\ r.callbacks = <<>> /\ r.target = None
      /\ Range(r.members) \subseteq DOMAIN s.events
  BY <1>5, NewEventFits DEF Range
<1>7. /\ Aside(s, u, {}) /\ SimOK(u) /\ DOMAIN u.events = DOMAIN s.events \cup {c} /\ u.events[c] = r
  BY <1>1, <1>2, <1>5, <1>6, AsideCreate, AddEvent
<1>8. u \in SimType /\ c \in Nat /\ u.now \in Times
  BY <1>7, SimFields DEF SimOK
<1>9. Call("event", c) \in CallType /\ Call("event", c).do = "event" /\ Call("event", c).of = c
  BY <1>8, EventCall DEF Call
<1>10. EntryOK(u, [at |-> Plus(u.now, d), prio |-> NORMAL, task |-> Call("event", c)])
  BY <1>5, <1>7, <1>8, <1>9, PlusTimes DEF EntryOK
<1>11. \A e \in DOMAIN u.events : Call("event", c) = Call("event", e) => ~ Reserved(u, e)
  BY <1>5, <1>7 DEF Reserved, Call
<1>12. Aside(u, t, {})
  BY <1>3, <1>7, <1>9, <1>10, <1>11, AsideSchedule
<1> QED BY <1>7, <1>12, AsideTrans

LEMMA CutStep ==
  ASSUME SimOK(sim'), control' = Main, step' = [task |-> NoTask, rest |-> <<>>]
  PROVE  StepOK'
<1>1. step' \in [task : CallType, rest : Seq(CallType)]
  <2>1. NoTask \in CallType
    BY DEF NoTask, Call, CallType, None
  <2> QED BY <2>1
<1>2. control' \notin Processes(sim')
  <2>1. DOMAIN sim'.events \subseteq Nat \ {0}
    BY SimFields DEF SimOK
  <2> QED BY <2>1 DEF Processes, Main
<1>3. step'.task = NoTask /\ step'.rest = <<>>
  OBVIOUS
<1> QED BY <1>1, <1>2, <1>3 DEF StepOK

\* What user code calls.
LEMMA UserAside ==
  ASSUME SimOK(sim), StepOK, UserNext
  PROVE  Aside(sim, sim', {}) /\ StepOK' /\ control # Loop
<1>1. \A s : Calls(s) => sim' = s /\ UNCHANGED <<control, step>>
  BY DEF Calls
<1>2. ASSUME NEW t, Aside(sim, t, {}), Calls(t) PROVE Aside(sim, sim', {}) /\ StepOK'
  <2>1. sim' = t /\ UNCHANGED <<control, step>>
    BY <1>1, <1>2
  <2> QED BY <1>2, <2>1, CallsKeepStep
<1>3. Main # Loop /\ \A p \in Processes(sim) : p # Loop
  <2>1. DOMAIN sim.events \subseteq Nat
    BY SimFields DEF SimOK
  <2> QED BY <2>1 DEF Main, Loop, Processes
<1>4. CASE MakeEvent
  <2>1. Range(NewEvent("event").members) \subseteq DOMAIN sim.events
    BY NewEventFits DEF Range
  <2>2. Aside(sim, Create(sim, NewEvent("event")), {})
    BY <2>1, NewEventFits, AsideCreate
  <2> QED BY <1>2, <1>3, <1>4, <2>2 DEF MakeEvent, May
<1>5. CASE MakeTimeout
  <2>1. PICK d \in Delays :
          Calls(Schedule(Create(sim, [NewEvent("timeout") EXCEPT !.state = "ok"]),
                         Call("event", Fresh(sim)), NORMAL, d))
    BY <1>5 DEF MakeTimeout
  <2>2. PICK t : t = Schedule(Create(sim, [NewEvent("timeout") EXCEPT !.state = "ok"]),
                              Call("event", Fresh(sim)), NORMAL, d)
    OBVIOUS
  <2>3. d \in Times
    BY KernelAssumption
  <2>4. Aside(sim, t, {}) /\ Calls(t)
    BY <2>1, <2>2, <2>3, AsideTimeout
  <2> QED BY <1>2, <1>3, <1>5, <2>4 DEF MakeTimeout, May
<1>6. CASE MakeCondition
  <2>1. PICK type \in {"all", "any"} :
          \/ Calls(Combine(sim, type, <<>>))
          \/ \E d, e \in DOMAIN sim.events : Calls(Combine(sim, type, <<d, e>>))
    BY <1>6 DEF MakeCondition
  <2>2. \A d, e \in DOMAIN sim.events : <<d, e>> \in Seq(DOMAIN sim.events)
    BY PairOf
  <2>3. <<>> \in Seq(DOMAIN sim.events)
    OBVIOUS
  <2>4. \E members \in Seq(DOMAIN sim.events) : Calls(Combine(sim, type, members))
    BY <2>1, <2>2, <2>3
  <2> QED BY <1>2, <1>3, <1>6, <2>4, AsideCombine DEF MakeCondition, May
<1>7. CASE Spawn
  <2>1. Aside(sim, Spawned(sim), {})
    BY AsideSpawned
  <2> QED BY <1>2, <1>3, <1>7, <2>1 DEF Spawn, May
<1>8. CASE SucceedOrFail
  <2>1. PICK e \in DOMAIN sim.events, state \in {"ok", "failed"} :
          May(state) /\ Pending(e) /\ Calls(Trigger(sim, e, state))
    BY <1>8 DEF SucceedOrFail
  <2>2. ~ Reserved(sim, e)
    BY <2>1 DEF Pending, Reserved
  <2>3. Aside(sim, Trigger(sim, e, state), {})
    BY <2>2, AsideTrigger
  <2> QED BY <1>2, <1>3, <2>1, <2>3 DEF May
<1>9. CASE Chain
  <2>1. PICK e \in DOMAIN sim.events, f \in DOMAIN sim.events :
        /\ ~ sim.events[e].processed /\ Pending(f) /\ e # f
        /\ Calls(Hook(sim, e, Call("trigger", f)))
    BY <1>9 DEF Chain
  <2>2. f \in Nat
    BY SimFields DEF SimOK
  <2>3. /\ Call("trigger", f) \in CallType
        /\ CallOK(sim, e, Call("trigger", f)) /\ ~ OwnersCall(Call("trigger", f))
    BY <2>1, <2>2 DEF Call, CallType, CallOK, OwnersCall, Pending
  <2>4. Aside(sim, Hook(sim, e, Call("trigger", f)), {})
    BY <2>1, <2>3, AsideHook
  <2> QED BY <1>2, <1>3, <1>9, <2>1, <2>4 DEF Chain, May
<1>10. CASE Interrupt
  <2>1. PICK p \in Processes(sim) : Calls(Interrupted(sim, p))
    BY <1>10 DEF Interrupt
  <2>2. p \in Nat /\ sim.now \in Times /\ 0 \in Times
    BY SimFields, TimesAreNatural DEF Processes, SimOK
  <2>3. /\ Call("interrupt", p) \in CallType
        /\ Call("interrupt", p).do = "interrupt" /\ Call("interrupt", p).of = p
    BY <2>2 DEF Call, CallType
  <2>4. EntryOK(sim, [at |-> Plus(sim.now, 0), prio |-> URGENT, task |-> Call("interrupt", p)])
    BY <2>2, <2>3, PlusTimes DEF EntryOK
  <2>5. \A e : Call("interrupt", p) # Call("event", e)
    BY DEF Call
  <2>6. Aside(sim, Interrupted(sim, p), {})
    BY <2>2, <2>3, <2>4, <2>5, AsideSchedule DEF Interrupted
  <2> QED BY <1>2, <1>3, <1>10, <2>1, <2>6 DEF Interrupt, May
<1>11. CASE YieldWrong
  <2>1. sim' = sim /\ control' = Main /\ step' = [task |-> NoTask, rest |-> <<>>]
    BY <1>11 DEF YieldWrong, Cut
  <2>2. Aside(sim, sim', {})
    BY <2>1, AsideNothing
  <2>3. StepOK'
    BY <2>1, <2>2, CutStep, AsideKeeps
  <2> QED BY <1>3, <1>11, <2>2, <2>3 DEF YieldWrong
<1>12. CASE End
  <2>1. PICK p : p = control
    OBVIOUS
  <2>2. PICK state \in {"ok", "failed"} :
          p \in Processes(sim) /\ sim' = Ended(sim, p, state) /\ control' = Loop /\ step' = step
    BY <1>12, <2>1 DEF End
  <2>3. PICK a : a = Aimed(sim, p, None)
    OBVIOUS
  <2>4. PICK b : b = [a EXCEPT !.active = None]
    OBVIOUS
  <2>5. sim' = Trigger(b, p, state)
    <3>1. b = [sim EXCEPT !.events[p].target = None, !.active = None]
      BY <2>3, <2>4 DEF Aimed
    <3> QED BY <2>2, <3>1 DEF Ended
  <2>6. p \in DOMAIN sim.events /\ sim.events[p].type = "process"
    BY <2>2 DEF Processes
  <2>7. SimOK(a) /\ Only(sim, a, p) /\ Likewise(sim.events[p], a.events[p])
        /\ a.events[p].callbacks = sim.events[p].callbacks
    BY <2>3, <2>6, TargetSim
  <2>8. SimOK(b) /\ b.events = a.events /\ b.queue = a.queue
    BY <2>4, <2>7, ActiveSim
  <2>9. Aside(sim, a, {}) /\ Aside(a, b, {})
    BY <2>7, <2>8, AsideOnly, AsideNothing, FollowsSame
  <2>10. p \in DOMAIN b.events /\ ~ Reserved(b, p)
    BY <2>6, <2>7, <2>8 DEF Only, Likewise, Reserved
  <2>11. Aside(b, sim', {})
    BY <2>5, <2>8, <2>10, AsideTrigger
  <2>12. Aside(sim, sim', {})
    BY <2>9, <2>11, AsideTrans
  <2>13. SimOK(sim') /\ Established(sim, sim', {})
    BY <2>12 DEF Aside
  <2>14. Loop # Main /\ Loop \notin Processes(sim')
    <3>1. DOMAIN sim'.events \subseteq Nat
      BY <2>13, SimFields DEF SimOK
    <3> QED BY <3>1 DEF Main, Loop, Processes
  <2>15. StepOK'
    BY <2>2, <2>13, <2>14, StepKept
  <2> QED BY <1>3, <2>1, <2>2, <2>12, <2>15
<1> QED BY <1>4, <1>5, <1>6, <1>7, <1>8, <1>9, <1>10, <1>11, <1>12 DEF UserNext

LEMMA YieldAside ==
  ASSUME SimOK(sim), StepOK, Yield
  PROVE  Aside(sim, sim', {}) /\ StepOK' /\ control # Loop
<1>1. PICK e \in DOMAIN sim.events : YieldOn(e)
  BY DEF Yield
<1>2. PICK p : p = control
  OBVIOUS
<1>3. p \in Processes(sim) /\ p \in DOMAIN sim.events /\ p \in Nat
  BY <1>1, <1>2, SimFields DEF YieldOn, Processes, SimOK
<1>4. PICK s : s = Aimed(sim, p, e)
  OBVIOUS
<1>5. SimOK(s) /\ Only(sim, s, p) /\ Likewise(sim.events[p], s.events[p])
      /\ s.events[p].callbacks = sim.events[p].callbacks
  BY <1>3, <1>4, TargetSim
<1>6. Aside(sim, s, {}) /\ e \in DOMAIN s.events /\ s.events[e].processed = sim.events[e].processed
  BY <1>5, AsideOnly, FollowsSame DEF Only, Likewise
<1>7. control # Loop /\ step.task # NoTask
  BY <1>2, <1>3 DEF StepOK, Loop
<1>8. CASE sim.events[e].processed
  <2>1. sim' = Sent(s, e) /\ UNCHANGED <<control, step>>
    BY <1>1, <1>2, <1>4, <1>8 DEF YieldOn, Aimed
  <2>2. SimOK(sim') /\ Only(s, sim', e) /\ Likewise(s.events[e], sim'.events[e])
        /\ sim'.events[e].callbacks = s.events[e].callbacks
    BY <1>5, <1>6, <2>1, SentSim
  <2>3. Aside(s, sim', {})
    BY <1>5, <2>2, AsideOnly, FollowsSame
  <2>4. Aside(sim, sim', {})
    BY <1>6, <2>3, AsideTrans
  <2> QED BY <1>7, <2>1, <2>4, CallsKeepStep
<1>9. CASE ~ sim.events[e].processed
  <2>1. PICK t : t = Hook(s, e, Call("resume", p))
    OBVIOUS
  <2>2. sim' = [t EXCEPT !.active = None] /\ control' = Loop /\ step' = step
    BY <1>1, <1>2, <1>4, <1>9, <2>1 DEF YieldOn, Aimed
  <2>3. /\ Call("resume", p) \in CallType /\ CallOK(s, e, Call("resume", p))
        /\ ~ OwnersCall(Call("resume", p))
    <3>1. p \in Processes(s)
      BY <1>3, <1>6, AsideKeeps
    <3> QED BY <1>3, <3>1 DEF Call, CallType, CallOK, OwnersCall
  <2>4. Aside(s, t, {}) /\ SimOK(t)
    BY <1>5, <1>6, <1>9, <2>1, <2>3, AsideHook, AsideKeeps
  <2>5. SimOK(sim') /\ sim'.events = t.events /\ sim'.queue = t.queue
    BY <2>2, <2>4, ActiveSim
  <2>6. Aside(t, sim', {})
    BY <2>4, <2>5, AsideNothing
  <2>7. Aside(sim, sim', {})
    BY <1>6, <2>4, <2>6, AsideTrans
  <2>8. Established(sim, sim', {})
    BY <2>7 DEF Aside
  <2>9. Loop # Main /\ Loop \notin Processes(sim')
    <3>1. DOMAIN sim'.events \subseteq Nat
      BY <2>5, SimFields DEF SimOK
    <3> QED BY <3>1 DEF Main, Loop, Processes
  <2>10. StepOK'
    BY <2>2, <2>5, <2>8, <2>9, StepKept
  <2> QED BY <1>7, <2>7, <2>10
<1> QED BY <1>8, <1>9

\* A callback has been called.
LEMMA CallbackStep ==
  ASSUME SimOK(sim), StepOK, NEW do, Turn(do), NEW X, Aside(sim, sim', X),
         \A e \in X \cap DOMAIN sim.events : sim.events[e].processed => sim'.events[e].processed,
         step' = [step EXCEPT !.rest = Tail(@)], control' \in {Loop} \cup Processes(sim')
  PROVE  StepOK'
<1>1. SimOK(sim') /\ Established(sim, sim', X)
  BY DEF Aside
<1>2. step.rest # <<>> /\ step.task # NoTask
  <2>1. step.rest # <<>>
    BY DEF Turn
  <2> QED BY <2>1, NothingLeft
<1>3. control' # Main
  <2>1. DOMAIN sim'.events \subseteq Nat \ {0}
    BY <1>1, SimFields DEF SimOK
  <2> QED BY <2>1 DEF Processes, Main, Loop
<1> QED BY <1>1, <1>2, <1>3, StepKept

LEMMA TurnIsOther ==
  ASSUME NEW do, Turn(do), do # "resolve", do # "put", do # "get"
  PROVE  control = Loop /\ step.rest # <<>> /\ ~ OwnersCall(Head(step.rest))
BY DEF Turn, OwnersCall

LEMMA CalleeFits ==
  ASSUME SimOK(sim), StepOK, NEW do \in {"check", "build", "trigger", "put", "get", "resolve"}, Turn(do)
  PROVE  /\ step.task.do = "event" /\ CallOK(sim, step.task.of, Head(step.rest))
         /\ step.task.of \in DOMAIN sim.events /\ sim.events[step.task.of].processed
<1>1. step.rest # <<>> /\ Head(step.rest).do = do
  BY DEF Turn
<1>2. ASSUME NEW call, step.rest = <<call>> PROVE Head(step.rest) = call
  BY <1>2
<1>3. step.task.do = "event"
  <2>1. CASE step.task.do = "start"
    BY <1>1, <1>2, <2>1 DEF StepOK, Call, NoTask
  <2>2. CASE step.task.do = "interrupt"
    BY <1>1, <1>2, <2>2 DEF StepOK, Call, NoTask
  <2>3. CASE step.task = Call("stop", None)
    BY <1>1, <1>2, <2>3 DEF StepOK, Call, NoTask
  <2> QED BY <1>1, <2>1, <2>2, <2>3 DEF StepOK
<1>4. Head(step.rest) \in Range(step.rest)
  BY <1>1, RestOfStep
<1> QED BY <1>3, <1>4, CallsOfStep

\* The callbacks that are the Kernel's.
LEMMA CallBackAside ==
  ASSUME SimOK(sim), StepOK, Resume \/ RunCheck \/ RunBuild \/ RunTrigger \/ RunStop
  PROVE  /\ Aside(sim, sim', {}) /\ StepOK'
         /\ control = Loop /\ step.rest # <<>> /\ ~ OwnersCall(Head(step.rest))
<1>1. ASSUME NEW do, Turn(do), do # "resolve", do # "put", do # "get",
             Aside(sim, sim', {}),
             step' = [step EXCEPT !.rest = Tail(@)], control' \in {Loop} \cup Processes(sim')
      PROVE  /\ Aside(sim, sim', {}) /\ StepOK'
             /\ control = Loop /\ step.rest # <<>> /\ ~ OwnersCall(Head(step.rest))
  <2>1. StepOK'
    BY <1>1, CallbackStep
  <2> QED BY <1>1, <2>1, TurnIsOther
<1>2. CASE Resume
  <2>1. Turn("resume")
    BY <1>2 DEF Resume
  <2>2. PICK p : p = Callee
    OBVIOUS
  <2>3. p \in Processes(sim)
    <3>1. step.rest \in Seq(CallType) /\ Head(step.rest) \in Range(step.rest) /\ Head(step.rest) \in CallType
      BY <2>1, RestOfStep DEF Turn
    <3>2. Head(step.rest) = Call("resume", p)
      BY <2>1, <2>2, <3>1 DEF CallType, Call, Callee, Turn
    <3>3. InStep(p) # {}
      BY <3>1, <3>2, OccurrencesOfCalls DEF InStep
    <3> QED BY <3>3, ResumesInStep
  <2>4. PICK s : sim' = [s EXCEPT !.active = p] /\ SimOK(s) /\ Aside(sim, s, {})
    <3>1. CASE step.task.do = "event" /\ Failed(sim, step.task.of)
      <4>1. PICK e : e = step.task.of
        OBVIOUS
      <4>2. e \in DOMAIN sim.events
        BY <3>1, <4>1, CallsOfStep
      <4>3. PICK s : s = Sent(sim, e)
        OBVIOUS
      <4>4. SimOK(s) /\ Only(sim, s, e) /\ Likewise(sim.events[e], s.events[e])
            /\ s.events[e].callbacks = sim.events[e].callbacks
        BY <4>2, <4>3, SentSim
      <4>5. Aside(sim, s, {})
        BY <4>4, AsideOnly, FollowsSame
      <4>6. sim' = [s EXCEPT !.active = p]
        BY <1>2, <2>2, <3>1, <4>1, <4>3 DEF Resume, Enter
      <4> QED BY <4>4, <4>5, <4>6
    <3>2. CASE ~ (step.task.do = "event" /\ Failed(sim, step.task.of))
      <4>1. sim' = [sim EXCEPT !.active = p]
        BY <1>2, <2>2, <3>2 DEF Resume, Enter
      <4>2. Aside(sim, sim, {})
        BY AsideNothing
      <4> QED BY <4>1, <4>2
    <3> QED BY <3>1, <3>2
  <2>5. p \in Processes(s)
    BY <2>3, <2>4, AsideKeeps
  <2>6. SimOK(sim') /\ sim'.events = s.events /\ sim'.queue = s.queue
    BY <2>4, <2>5, ActiveSim
  <2>7. Aside(s, sim', {})
    BY <2>4, <2>6, AsideNothing
  <2>8. Aside(sim, sim', {}) /\ p \in Processes(sim')
    BY <2>4, <2>5, <2>7, AsideTrans, AsideKeeps
  <2>9. control' = p /\ step' = [step EXCEPT !.rest = Tail(@)]
    BY <1>2, <2>2 DEF Resume, Enter
  <2> QED BY <1>1, <2>1, <2>8, <2>9
<1>3. CASE RunCheck
  <2>1. /\ Turn("check") /\ sim' = Check(sim, Callee, step.task.of)
        /\ step' = [step EXCEPT !.rest = Tail(@)] /\ control' = control
    BY <1>3 DEF RunCheck, Done
  <2>2. Callee \in Conditions(sim)
    BY <2>1, CalleeFits DEF CallOK, Turn, Callee
  <2>3. Aside(sim, sim', {})
    BY <2>1, <2>2, AsideCheck
  <2> QED BY <1>1, <2>1, <2>3 DEF Turn
<1>4. CASE RunBuild
  <2>1. /\ Turn("build") /\ sim' = RemoveChecks(sim, Callee)
        /\ step' = [step EXCEPT !.rest = Tail(@)] /\ control' = control
    BY <1>4 DEF RunBuild
  <2>2. Aside(sim, sim', {})
    BY <2>1, AsideRemoveChecks
  <2> QED BY <1>1, <2>1, <2>2 DEF Turn
<1>5. CASE RunTrigger
  <2>1. /\ Turn("trigger") /\ sim' = Trigger(sim, Callee, sim.events[step.task.of].state)
        /\ step' = [step EXCEPT !.rest = Tail(@)] /\ control' = control
    BY <1>5 DEF RunTrigger, Done
  <2>2. /\ Callee \in DOMAIN sim.events /\ ~ Reserved(sim, Callee)
        /\ step.task.of \in DOMAIN sim.events /\ sim.events[step.task.of].processed
    BY <2>1, CalleeFits DEF CallOK, Turn, Callee, Reserved
  <2>3. sim.events[step.task.of].state \in {"ok", "failed"}
    <3>1. sim.events[step.task.of] \in EventType
      BY <2>2, SimFields DEF SimOK
    <3>2. sim.events[step.task.of].state # "pending"
      BY <2>2 DEF SimOK, EventOK
    <3> QED BY <3>1, <3>2 DEF EventType
  <2>4. Aside(sim, sim', {})
    BY <2>1, <2>2, <2>3, AsideTrigger
  <2> QED BY <1>1, <2>1, <2>4 DEF Turn
<1>6. CASE RunStop
  <2>1. Turn("stop") /\ sim' = sim /\ control' = Main /\ step' = [task |-> NoTask, rest |-> <<>>]
    BY <1>6 DEF RunStop, Cut
  <2>2. Aside(sim, sim', {}) /\ StepOK'
    BY <2>1, AsideNothing, CutStep
  <2> QED BY <2>1, <2>2, TurnIsOther
<1> QED BY <1>2, <1>3, <1>4, <1>5, <1>6

\* The loop between two steps: run() begins, a step ends, nothing is left.
LEMMA BetweenAside ==
  ASSUME SimOK(sim), StepOK, RunToEnd \/ RunToTime \/ RunToEvent \/ FinishStep \/ RunEmpty
  PROVE  Aside(sim, sim', {}) /\ StepOK'
<1>1. ASSUME NEW s, NEW until, NEW at, Aside(sim, s, {}), StartRun(s, until, at)
      PROVE  Aside(sim, sim', {}) /\ StepOK'
  <2>1. sim' = s /\ control = Main /\ control' = Loop /\ step' = step
    BY <1>1 DEF StartRun
  <2>2. SimOK(sim') /\ Established(sim, sim', {})
    BY <1>1, <2>1 DEF Aside
  <2>3. Loop # Main /\ Loop \notin Processes(sim')
    <3>1. DOMAIN sim'.events \subseteq Nat
      BY <2>2, SimFields DEF SimOK
    <3> QED BY <3>1 DEF Main, Loop, Processes
  <2>4. StepOK'
    BY <2>1, <2>2, <2>3, StepKept
  <2> QED BY <1>1, <2>1, <2>4
<1>2. Aside(sim, sim, {})
  BY AsideNothing
<1>3. CASE RunToEnd
  BY <1>1, <1>2, <1>3 DEF RunToEnd
<1>4. CASE RunToTime
  <2>1. PICK at \in Stops :
          at > sim.now /\ StartRun(Schedule(sim, StopCall, URGENT, Minus(at, sim.now)), None, at)
    BY <1>4 DEF RunToTime, StopCall
  <2> DEFINE d == Minus(at, sim.now)
  <2>2. d \in Times /\ sim \in SimType
    <3>1. sim \in SimType /\ at \in Times
      BY <2>1, KernelAssumption DEF SimOK
    <3> QED BY <2>1, <3>1, SimFields, TimesAreNatural, MinusTimes
  <2> HIDE DEF d
  <2>3. /\ StopCall \in CallType /\ StopCall.do = "stop" /\ StopCall.of = None
        /\ \A e : StopCall # Call("event", e)
    BY DEF StopCall, Call, CallType, None
  <2>4. EntryOK(sim, [at |-> Plus(sim.now, d), prio |-> URGENT, task |-> StopCall])
    <3>1. Plus(sim.now, d) >= sim.now
      BY <2>2, <2>3, EntryFits
    <3> QED BY <2>3, <3>1 DEF EntryOK
  <2>5. Aside(sim, Schedule(sim, StopCall, URGENT, d), {})
    BY <2>2, <2>3, <2>4, AsideSchedule
  <2> QED BY <1>1, <2>1, <2>5 DEF d
<1>5. CASE RunToEvent
  <2>1. PICK e \in DOMAIN sim.events :
          ~ sim.events[e].processed /\ StartRun(Hook(sim, e, StopCall), e, 0)
    BY <1>5 DEF RunToEvent, StopCall
  <2>2. /\ StopCall \in CallType /\ CallOK(sim, e, StopCall) /\ ~ OwnersCall(StopCall)
    BY DEF StopCall, Call, CallType, None, CallOK, OwnersCall
  <2>3. Aside(sim, Hook(sim, e, StopCall), {})
    BY <2>1, <2>2, AsideHook
  <2> QED BY <1>1, <2>1, <2>3
<1>6. CASE FinishStep
  <2>1. /\ sim' = sim /\ step' = [task |-> NoTask, rest |-> <<>>]
        /\ control' = Main \/ (control' = control /\ control = Loop)
    BY <1>6 DEF FinishStep, Cut
  <2>2. CASE control' = Main
    BY <1>2, <2>1, <2>2, CutStep
  <2>3. CASE control' = control /\ control = Loop
    <3>1. step' \in [task : CallType, rest : Seq(CallType)]
      <4>1. NoTask \in CallType
        BY DEF NoTask, Call, CallType, None
      <4> QED BY <2>1, <4>1
    <3>2. control' # Main /\ control' \notin Processes(sim')
      <4>1. DOMAIN sim'.events \subseteq Nat
        BY <2>1, SimFields DEF SimOK
      <4> QED BY <2>3, <4>1 DEF Processes, Main, Loop
    <3>3. step'.task = NoTask /\ step'.rest = <<>>
      BY <2>1
    <3>4. StepOK'
      BY <2>3, <3>1, <3>2, <3>3 DEF StepOK
    <3> QED BY <1>2, <2>1, <3>4
  <2> QED BY <2>1, <2>2, <2>3
<1>7. CASE RunEmpty
  <2>1. sim' = sim /\ step' = step /\ control' = Main /\ step.task = NoTask
    BY <1>7 DEF RunEmpty, Idle
  <2>2. step.rest = <<>>
    BY <2>1, NothingLeft
  <2>3. step = [task |-> NoTask, rest |-> <<>>]
    BY <2>1, <2>2 DEF StepOK
  <2> QED BY <1>2, <2>1, <2>3, CutStep
<1> QED BY <1>3, <1>4, <1>5, <1>6, <1>7

\* The schedule without its next entry.
LEMMA PoppedAside ==
  ASSUME NEW s, SimOK(s), NEW i \in DOMAIN s.queue, IsNext(s.queue, i), NEW t, t = Popped(s, i), NEW X,
         \A e \in DOMAIN s.events \ X : s.queue[i].task = Call("event", e) => s.events[e].processed
  PROVE  Aside(s, t, X)
<1>1. /\ SimOK(t) /\ t.events = s.events /\ t.queue = RemoveAt(s.queue, i)
  BY PoppedSim
<1>2. s \in SimType
  BY DEF SimOK
<1>3. /\ \A k \in DOMAIN t.queue : \E j \in DOMAIN s.queue : s.queue[j] = t.queue[k]
      /\ \A k \in DOMAIN s.queue \ {i} : \E j \in DOMAIN t.queue : t.queue[j] = s.queue[k]
  BY <1>1, <1>2, PoppedQueue
<1>4. ASSUME NEW e \in DOMAIN t.events \ X PROVE Unaltered(s, t, e)
  <2>1. t.events[e].state = s.events[e].state
        /\ Follows(s.events[e].callbacks, t.events[e].callbacks)
    BY <1>1, FollowsSame
  <2>2. Due(s, Call("event", e)) => Due(t, Call("event", e)) \/ t.events[e].processed
    BY <1>1, <1>3, <1>4 DEF Due
  <2> QED BY <1>3, <2>1, <2>2 DEF Unaltered
<1>5. Established(s, t, X)
  BY <1>1 DEF Established
<1> QED BY <1>1, <1>4, <1>5 DEF Aside

LEMMA PopAside ==
  ASSUME SimOK(sim), StepOK, NEW i \in DOMAIN sim.queue, PopTask(i) \/ PopAgain(i)
  PROVE  Aside(sim, sim', {}) /\ StepOK' /\ (PopTask(i) => step'.task.do # "event")
<1>1. CASE PopTask(i)
  <2>1. PICK task : task = sim.queue[i].task
    OBVIOUS
  <2>2. PICK call : call = IF task.do = "start" THEN Call("resume", task.of) ELSE task
    OBVIOUS
  <2>3. /\ IsNext(sim.queue, i) /\ task.do # "event" /\ sim' = Popped(sim, i)
        /\ step' = [task |-> task, rest |-> <<call>>] /\ control' = Loop
    BY <1>1, <2>1, <2>2 DEF PopTask, Idle
  <2>4. Aside(sim, sim', {})
    <3>1. \A e : task # Call("event", e)
      BY <2>3 DEF Call
    <3> QED BY <2>1, <2>3, <3>1, PoppedAside
  <2>5. SimOK(sim') /\ Processes(sim) \subseteq Processes(sim')
    BY <2>4, AsideKeeps
  <2>6. /\ task \in CallType /\ task.do \in {"start", "interrupt", "stop"}
        /\ task.do \in {"start", "interrupt"} => task.of \in Processes(sim)
        /\ task.do = "stop" => task = Call("stop", None)
    <3>1. EntryOK(sim, sim.queue[i])
      BY DEF SimOK
    <3>2. task \in CallType
      BY <2>1, SimFields DEF EntryType, SimOK
    <3>3. task.do = "stop" => task = Call("stop", None)
      BY <2>1, <3>1, <3>2 DEF EntryOK, CallType, Call
    <3> QED BY <2>1, <2>3, <3>1, <3>2, <3>3 DEF EntryOK
  <2>7. call \in CallType
    BY <2>2, <2>6 DEF CallType, Call
  <2>8. step' \in [task : CallType, rest : Seq(CallType)]
    <3>1. <<call>> \in Seq(CallType)
      BY <2>7
    <3> QED BY <2>3, <2>6, <3>1
  <2>9. control' # Main /\ control' \notin Processes(sim')
    <3>1. DOMAIN sim'.events \subseteq Nat
      BY <2>5, SimFields DEF SimOK
    <3> QED BY <2>3, <3>1 DEF Processes, Main, Loop
  <2>10. \/ /\ step'.task.do = "start" /\ step'.task.of \in Processes(sim')
            /\ step'.rest = <<Call("resume", step'.task.of)>>
         \/ /\ step'.task.do = "interrupt" /\ step'.task.of \in Processes(sim')
            /\ step'.rest = <<step'.task>>
         \/ step'.task = Call("stop", None) /\ step'.rest = <<step'.task>>
    BY <2>2, <2>3, <2>5, <2>6
  <2>11. StepOK'
    BY <2>3, <2>8, <2>9, <2>10 DEF StepOK
  <2> QED BY <2>3, <2>4, <2>11
<1>2. CASE PopAgain(i)
  <2>1. /\ IsNext(sim.queue, i) /\ sim' = Popped(sim, i)
        /\ sim.events[sim.queue[i].task.of].processed
        /\ control' = Main /\ step' = [task |-> NoTask, rest |-> <<>>]
    BY <1>2 DEF PopAgain, Cut
  <2>2. \A e : sim.queue[i].task = Call("event", e) => sim.events[e].processed
    BY <2>1 DEF Call
  <2>3. Aside(sim, sim', {})
    BY <2>1, <2>2, PoppedAside
  <2>4. ~ PopTask(i)
    BY <1>2 DEF PopTask, PopAgain
  <2> QED BY <2>1, <2>3, <2>4, CutStep, AsideKeeps
<1> QED BY <1>1, <1>2

\* An event is processed.
LEMMA PopEventAside ==
  ASSUME SimOK(sim), StepOK, NEW i \in DOMAIN sim.queue, PopEvent(i),
         NEW e, e = sim.queue[i].task.of
  PROVE  /\ Aside(sim, sim', {e}) /\ StepOK'
         /\ sim.queue[i].task = Call("event", e) /\ step'.task = Call("event", e)
         /\ e \in DOMAIN sim.events /\ ~ sim.events[e].processed /\ sim.events[e].state # "pending"
         /\ sim'.events[e].type = sim.events[e].type /\ sim'.events[e].state = sim.events[e].state
         /\ sim'.events[e].processed /\ sim'.now = sim.queue[i].at
         /\ step'.rest = sim.events[e].callbacks /\ control' = Loop
         /\ \A k \in DOMAIN sim'.queue : \E j \in DOMAIN sim.queue : sim.queue[j] = sim'.queue[k]
<1>1. PICK s : s = Popped(sim, i)
  OBVIOUS
<1>2. /\ IsNext(sim.queue, i) /\ sim.queue[i].task.do = "event" /\ ~ sim.events[e].processed
      /\ sim' = Closed(s, e) /\ control' = Loop
      /\ step' = [task |-> sim.queue[i].task, rest |-> sim.events[e].callbacks]
  BY <1>1 DEF PopEvent, Closed, Idle
<1>3. SimOK(s) /\ s.events = sim.events /\ s.now = sim.queue[i].at /\ s.queue = RemoveAt(sim.queue, i)
  BY <1>1, <1>2, PoppedSim
<1>4. sim \in SimType
  BY DEF SimOK
<1>5. sim.queue[i].task \in CallType /\ sim.queue[i].task = Call("event", e)
      /\ e \in DOMAIN sim.events /\ sim.events[e].state # "pending"
  <2>1. EntryOK(sim, sim.queue[i])
    BY DEF SimOK
  <2>2. sim.queue[i].task \in CallType
    BY <1>4, SimFields DEF EntryType
  <2>3. sim.queue[i].task = Call("event", e)
    BY <1>2, <2>2 DEF CallType, Call
  <2> QED BY <1>2, <2>1, <2>2, <2>3 DEF EntryOK
<1>6. /\ SimOK(sim') /\ Only(s, sim', e)
      /\ sim'.events[e].type = s.events[e].type /\ sim'.events[e].members = s.events[e].members
      /\ sim'.events[e].state = s.events[e].state
      /\ sim'.events[e].processed
  <2>1. e \in DOMAIN s.events /\ s.events[e].state # "pending" /\ sim' = Closed(s, e) /\ SimOK(s)
    BY <1>2, <1>3, <1>5
  <2>2. PICK t : t = sim'
    OBVIOUS
  <2>3. SimOK(t) /\ Only(s, t, e)
      /\ t.events[e].type = s.events[e].type /\ t.events[e].members = s.events[e].members
      /\ t.events[e].state = s.events[e].state
      /\ t.events[e].processed
    BY ONLY <2>1, <2>2, ClosedSim
  <2> QED BY ONLY <2>2, <2>3
<1>7. Aside(sim, s, {e})
  <2>1. \A f : sim.queue[i].task = Call("event", f) => f = e
    BY <1>5 DEF Call
  <2> QED BY <1>1, <1>2, <2>1, PoppedAside
<1>8. Aside(s, sim', {e})
  <2>1. \A f \in DOMAIN s.events \ {e} : sim'.events[f] = s.events[f]
    BY <1>6 DEF Only
  <2>2. ASSUME NEW f \in DOMAIN s.events
        PROVE  /\ sim'.events[f].type = s.events[f].type /\ sim'.events[f].members = s.events[f].members
               /\ f # e => /\ sim'.events[f].processed = s.events[f].processed
                           /\ sim'.events[f].state = s.events[f].state
                           /\ Follows(s.events[f].callbacks, sim'.events[f].callbacks)
    BY <1>6, <2>1, FollowsSame
  <2>3. Established(s, sim', {e})
    BY <1>6, <2>2 DEF Established, Only
  <2>4. \A f \in DOMAIN sim'.events \ {e} : Reserved(sim', f) =>
           /\ f \in DOMAIN s.events /\ sim'.events[f].state = s.events[f].state
           /\ Follows(s.events[f].callbacks, sim'.events[f].callbacks)
    BY <1>6, <2>2 DEF Only
  <2>5. s.queue \in Seq(EntryType) /\ sim'.queue = s.queue
    BY <1>3, <1>6, SimFields DEF SimOK, Only
  <2> QED BY <1>6, <2>3, <2>4, <2>5, AsideStep
<1>9. Aside(sim, sim', {e})
  BY <1>7, <1>8, AsideTrans
<1>10. \A k \in DOMAIN sim'.queue : \E j \in DOMAIN sim.queue : sim.queue[j] = sim'.queue[k]
  <2>1. PICK queue : queue = RemoveAt(sim.queue, i)
    OBVIOUS
  <2>2. \A k \in DOMAIN queue : \E j \in DOMAIN sim.queue : sim.queue[j] = queue[k]
    <3>1. \A k \in DOMAIN queue : /\ Before(k, i) \in DOMAIN sim.queue \ {i}
                                  /\ queue[k] = sim.queue[Before(k, i)]
      BY <1>4, <2>1, PoppedQueue
    <3> QED BY <3>1
  <2>3. sim'.queue = queue
    BY <1>3, <1>6, <2>1 DEF Only
  <2> QED BY <2>2, <2>3
<1>11. StepOK'
  <2>1. sim.events[e].callbacks \in Seq(CallType) /\ EventOK(sim, e)
    BY <1>4, <1>5, SimFields DEF SimOK, EventType
  <2>2. step' \in [task : CallType, rest : Seq(CallType)]
    BY <1>2, <1>5, <2>1
  <2>3. control' # Main /\ control' \notin Processes(sim')
    <3>1. PICK t : t = sim'
      OBVIOUS
    <3>2. t \in SimType
      BY <1>6, <3>1 DEF SimOK
    <3>3. DOMAIN t.events \subseteq Nat
      BY ONLY <3>2, SimFields
    <3> QED BY <1>2, <3>1, <3>3 DEF Processes, Main, Loop
  <2>4. \A k \in DOMAIN sim.events[e].callbacks : CallOK(sim', e, sim.events[e].callbacks[k])
    <3>1. sim' \in SimType
      BY <1>6 DEF SimOK
    <3>2. \A call : CallOK(sim, e, call) => CallOK(sim', e, call)
      BY <1>4, <1>5, <1>9, <3>1, CallsFit DEF Aside, Established
    <3> QED BY <2>1, <3>2 DEF EventOK
  <2>5. /\ step'.task.do = "event" /\ step'.task.of = e /\ step'.rest = sim.events[e].callbacks
        /\ e \in DOMAIN sim'.events
    BY <1>2, <1>3, <1>5, <1>6 DEF Only, Call
  <2>6. \A k \in DOMAIN step'.rest : CallOK(sim', step'.task.of, step'.rest[k])
    BY <2>4, <2>5
  <2> QED BY <1>2, <1>6, <2>2, <2>3, <2>5, <2>6 DEF StepOK
<1>12. sim'.now = sim.queue[i].at
  BY <1>3, <1>6 DEF Only
<1> QED BY <1>2, <1>3, <1>5, <1>6, <1>9, <1>10, <1>11, <1>12

\* The step of an interruption.
LEMMA InterruptTurn ==
  ASSUME SimOK(sim), StepOK, Turn("interrupt")
  PROVE  /\ Callee \in Processes(sim) /\ step.rest # <<>>
         /\ Head(step.rest).do = "interrupt" /\ control = Loop
<1>1. step.rest # <<>> /\ Head(step.rest).do = "interrupt" /\ control = Loop
  BY DEF Turn
<1>2. step.rest \in Seq(CallType) /\ Head(step.rest) \in Range(step.rest) /\ step.task \in CallType
  BY <1>1, RestOfStep DEF StepOK
<1>3. ASSUME NEW call, step.rest = <<call>> PROVE Head(step.rest) = call
  BY <1>3
<1>4. step.task.do = "interrupt"
  <2>1. CASE step.task.do = "event"
    BY <1>1, <1>2, <2>1, CallsOfStep DEF CallOK
  <2>2. CASE step.task.do = "start"
    BY <1>1, <1>3, <2>2 DEF StepOK, Call, NoTask
  <2>3. CASE step.task = Call("stop", None)
    BY <1>1, <1>3, <2>3 DEF StepOK, Call, NoTask
  <2> QED BY <1>1, <2>1, <2>2, <2>3 DEF StepOK
<1>5. step.rest = <<step.task>> /\ step.task.of \in Processes(sim)
  BY <1>1, <1>4 DEF StepOK, NoTask, Call
<1>6. Head(step.rest) = step.task
  BY <1>3, <1>5
<1> QED BY <1>1, <1>5, <1>6 DEF Callee

\* What an interruption does, freed being what becomes of the process's target.
LEMMA DeliverCases ==
  ASSUME NEW freed, DeliverInterruptTo(freed), NEW p, p = Callee
  PROVE  /\ Turn("interrupt")
         /\ \/ sim' = sim /\ control' = control /\ step' = [step EXCEPT !.rest = Tail(@)]
            \/ /\ sim' = [sim EXCEPT !.active = p] /\ control' = p
               /\ step' = [step EXCEPT !.rest = Tail(@)]
            \/ /\ Alive(sim, p) /\ Waiting(sim, p)
               /\ sim.events[p].target # None /\ ~ sim.events[sim.events[p].target].processed
               /\ sim' = [freed EXCEPT !.active = p] /\ control' = p
               /\ step' = [step EXCEPT !.rest = Tail(@)]
            \/ sim' = sim /\ control' = Main /\ step' = [task |-> NoTask, rest |-> <<>>]
BY DEF DeliverInterruptTo, Done, Enter, Cut

LEMMA UnhookedAside ==
  ASSUME NEW s, SimOK(s), NEW p \in Processes(s), s.events[p].target # None
  PROVE  Aside(s, Unhooked(s, p), {})
<1>1. PICK t : t = Unhooked(s, p)
  OBVIOUS
<1>2. PICK e : e = s.events[p].target
  OBVIOUS
<1>3. p \in DOMAIN s.events /\ p \in Nat
  BY SimFields DEF Processes, SimOK
<1>4. e \in DOMAIN s.events
  BY <1>2, <1>3 DEF SimOK, EventOK
<1>5. /\ SimOK(t) /\ Only(s, t, e) /\ Likewise(s.events[e], t.events[e])
      /\ t.events[e].callbacks = RemoveFirst(s.events[e].callbacks, Call("resume", p))
  BY <1>1, <1>2, <1>3, <1>4, UnhookedSim
<1>6. s.events[e].callbacks \in Seq(CallType)
  BY <1>4, SimFields DEF SimOK, EventType
<1>7. Call("resume", p) \in CallType /\ ~ OwnersCall(Call("resume", p))
  BY <1>3 DEF Call, CallType, OwnersCall
<1>8. Follows(s.events[e].callbacks, t.events[e].callbacks)
  BY <1>5, <1>6, <1>7, FollowsRemoved
<1> QED BY <1>1, <1>5, <1>8, AsideOnly

\* An interruption is delivered, the target's share of it apart.
LEMMA DeliverAside ==
  ASSUME SimOK(sim), StepOK, NEW freed, DeliverInterruptTo(freed), NEW p, p = Callee, NEW X,
         /\ Alive(sim, p) /\ Waiting(sim, p) /\ sim.events[p].target # None
         /\ ~ sim.events[sim.events[p].target].processed
         => Aside(sim, freed, X) /\ \A e \in X \cap DOMAIN sim.events :
                                      freed.events[e].processed = sim.events[e].processed
  PROVE  /\ StepOK' /\ Turn("interrupt")
         /\ \/ Aside(sim, sim', {})
            \/ /\ Aside(sim, freed, X) /\ Aside(freed, sim', {})
               /\ Alive(sim, p) /\ Waiting(sim, p) /\ sim.events[p].target # None
               /\ ~ sim.events[sim.events[p].target].processed
<1>1. Turn("interrupt")
  BY DeliverCases
<1>2. p \in Processes(sim)
  BY <1>1, InterruptTurn
<1>3. Aside(sim, sim, {}) /\ Aside(sim, sim, X)
  BY AsideNothing
<1>4. ASSUME NEW s, SimOK(s), Aside(sim, s, X), sim' = [s EXCEPT !.active = p], control' = p,
             step' = [step EXCEPT !.rest = Tail(@)],
             \A e \in X \cap DOMAIN sim.events : s.events[e].processed = sim.events[e].processed
      PROVE  StepOK' /\ Aside(s, sim', {})
  <2>1. p \in Processes(s)
    BY <1>2, <1>4, AsideKeeps
  <2>2. SimOK(sim') /\ sim'.events = s.events /\ sim'.queue = s.queue
    BY <1>4, <2>1, ActiveSim
  <2>3. Aside(s, sim', {}) /\ Aside(s, sim', X)
    BY <1>4, <2>2, AsideNothing
  <2>4. Aside(sim, sim', X)
    BY <1>4, <2>3, AsideTrans
  <2>5. \A e \in X \cap DOMAIN sim.events : sim.events[e].processed => sim'.events[e].processed
    BY <1>4, <2>2
  <2>6. control' \in {Loop} \cup Processes(sim')
    BY <1>4, <2>1, <2>3, AsideKeeps
  <2>7. StepOK'
    BY <1>1, <1>4, <2>4, <2>5, <2>6, CallbackStep
  <2> QED BY <2>3, <2>7
<1>5. CASE sim' = sim /\ control' = control /\ step' = [step EXCEPT !.rest = Tail(@)]
  <2>1. Aside(sim, sim', {})
    BY <1>3, <1>5
  <2>2. control' \in {Loop} \cup Processes(sim')
    BY <1>1, <1>5 DEF Turn
  <2>3. StepOK'
    BY <1>1, <1>5, <2>1, <2>2, CallbackStep
  <2> QED BY <1>1, <2>1, <2>3
<1>6. CASE sim' = [sim EXCEPT !.active = p] /\ control' = p /\ step' = [step EXCEPT !.rest = Tail(@)]
  BY <1>1, <1>3, <1>4, <1>6
<1>7. CASE /\ Alive(sim, p) /\ Waiting(sim, p)
           /\ sim.events[p].target # None /\ ~ sim.events[sim.events[p].target].processed
           /\ sim' = [freed EXCEPT !.active = p] /\ control' = p
           /\ step' = [step EXCEPT !.rest = Tail(@)]
  <2>1. /\ Aside(sim, freed, X)
        /\ \A e \in X \cap DOMAIN sim.events : freed.events[e].processed = sim.events[e].processed
    BY <1>7
  <2>2. SimOK(freed)
    BY <2>1, AsideKeeps
  <2> QED BY <1>1, <1>4, <1>7, <2>1, <2>2
<1>8. CASE sim' = sim /\ control' = Main /\ step' = [task |-> NoTask, rest |-> <<>>]
  BY <1>1, <1>3, <1>8, CutStep
<1>9. \/ sim' = sim /\ control' = control /\ step' = [step EXCEPT !.rest = Tail(@)]
      \/ sim' = [sim EXCEPT !.active = p] /\ control' = p /\ step' = [step EXCEPT !.rest = Tail(@)]
      \/ /\ Alive(sim, p) /\ Waiting(sim, p)
         /\ sim.events[p].target # None /\ ~ sim.events[sim.events[p].target].processed
         /\ sim' = [freed EXCEPT !.active = p] /\ control' = p
         /\ step' = [step EXCEPT !.rest = Tail(@)]
      \/ sim' = sim /\ control' = Main /\ step' = [task |-> NoTask, rest |-> <<>>]
  BY DeliverCases
<1> QED BY <1>5, <1>6, <1>7, <1>8, <1>9

-----------------------------------------------------------------------------
(* Counting members. *)

LEMMA ConditionFields ==
  ASSUME NEW s, SimOK(s), NEW c \in Conditions(s)
  PROVE  /\ c \in DOMAIN s.events /\ c \in Nat /\ Call("check", c) \in CallType
         /\ s.events[c].type \in {"all", "any"} /\ s.events[c].state \in {"pending", "ok", "failed"}
         /\ s.events[c].count \in Nat
         /\ s.events[c].members \in Seq(Nat)
         /\ Range(s.events[c].members) \subseteq DOMAIN s.events
         /\ s.events[c].state = "pending" => ~ s.events[c].processed
<1>1. c \in DOMAIN s.events /\ s.events[c].type \in {"all", "any"}
  BY DEF Conditions
<1>2. s.events[c] \in EventType /\ DOMAIN s.events = 1 .. Len(s.events) /\ Len(s.events) \in Nat
  BY <1>1, SimFields DEF SimOK
<1>3. EventOK(s, c)
  BY <1>1 DEF SimOK
<1>4. c \in Nat /\ Call("check", c) \in CallType
  BY <1>1, <1>2 DEF Call, CallType
<1>5. Range(s.events[c].members) \subseteq DOMAIN s.events
  BY <1>1, <1>2, <1>3 DEF EventOK
<1>6. s.events[c].count \in Nat /\ s.events[c].members \in Seq(Nat)
      /\ s.events[c].state \in {"pending", "ok", "failed"}
  BY <1>2 DEF EventType
<1> QED BY <1>1, <1>3, <1>4, <1>5, <1>6 DEF EventOK

\* A sequence without repetition has as many elements as it is long.
LEMMA DistinctMembers ==
  ASSUME NEW S, NEW a \in Seq(S)
  PROVE  /\ IsFiniteSet(Range(a))
         /\ IsInjective(a) => Cardinality(Range(a)) = Len(a)
<1>1. Len(a) \in Nat /\ DOMAIN a = 1 .. Len(a) /\ a \in [1 .. Len(a) -> Range(a)]
  BY DEF Range
<1>2. a \in Surjection(1 .. Len(a), Range(a))
  BY <1>1 DEF Surjection, Range
<1>3. IsFiniteSet(1 .. Len(a))
  BY <1>1, FS_Interval
<1>4. IsFiniteSet(Range(a))
  BY <1>2, <1>3, FS_Surjection
<1>5. ASSUME IsInjective(a) PROVE Cardinality(Range(a)) = Len(a)
  <2>1. a \in Injection(1 .. Len(a), Range(a))
    BY <1>1, <1>5 DEF Injection, IsInjective
  <2>2. a \in Bijection(1 .. Len(a), Range(a))
    BY <1>2, <2>1 DEF Bijection
  <2>3. ExistsBijection(1 .. Len(a), Range(a))
    BY <2>2 DEF ExistsBijection
  <2> QED BY <1>1, <2>3, FS_CountingElements
<1> QED BY <1>4, <1>5

\* The members of c, and those it has been told of.
LEMMA ToldMembers ==
  ASSUME NEW s, SimOK(s), NEW c \in Conditions(s), NEW todo
  PROVE  LET told == Over(s, c) \ todo IN
         /\ IsFiniteSet(Range(s.events[c].members)) /\ IsFiniteSet(told)
         /\ Cardinality(told) \in Nat /\ Cardinality(told) <= Cardinality(Range(s.events[c].members))
         /\ Cardinality(told) = Cardinality(Range(s.events[c].members)) => told = Range(s.events[c].members)
<1> DEFINE told == Over(s, c) \ todo
           M == Range(s.events[c].members)
<1>1. IsFiniteSet(M)
  BY ConditionFields, DistinctMembers
<1>2. told \subseteq M
  BY DEF Over
<1> HIDE DEF told, M
<1>3. /\ IsFiniteSet(told) /\ Cardinality(told) <= Cardinality(M)
      /\ Cardinality(M) = Cardinality(told) => M = told
  BY <1>1, <1>2, FS_Subset
<1>4. Cardinality(told) \in Nat
  BY <1>3, FS_CardinalityType
<1> QED BY <1>1, <1>3, <1>4 DEF told, M

-----------------------------------------------------------------------------
(* What a condition does not notice. *)

LEMMA CondAlike ==
  ASSUME NEW s, NEW t, NEW c, NEW todo, NEW before \in BOOLEAN, NEW after \in BOOLEAN,
         CondOK(s, c, todo, before), Alike(s, t, c), Once(t, c),
         Watched(t, c) \subseteq Watched(s, c), before => after,
         Watched(t, c) = Watched(s, c) \/ after \/ s.events[c].state # "pending"
  PROVE  CondOK(t, c, todo, after)
<1>1. Over(t, c) = Over(s, c)
  BY DEF Over, Alike
<1>2. \A m \in Over(s, c) : Failed(t, m) <=> Failed(s, m)
  BY DEF Over, Alike, Failed
<1>3. Holds(t.events[c]) <=> Holds(s.events[c])
  BY DEF Alike, Holds
<1>4. Outcome(t, c)
  <2>1. Outcome(s, c)
    BY DEF CondOK
  <2> QED BY <1>1, <1>2, <2>1 DEF Outcome, Alike
<1>5. ASSUME t.events[c].state = "pending" PROVE Counting(t, c, todo, after)
  <2>1. Counting(s, c, todo, before) /\ s.events[c].state = "pending"
    BY <1>5 DEF CondOK, Alike
  <2>2. t.events[c].count = s.events[c].count /\ t.events[c].members = s.events[c].members
    BY DEF Alike
  <2>3. ~ after => ~ before /\ Watched(t, c) = Watched(s, c)
    BY <2>1
  <2> QED BY <1>1, <1>2, <1>3, <2>1, <2>2, <2>3 DEF Counting
<1>6. IsInjective(t.events[c].members) /\ todo \cap Watched(t, c) = {}
  BY DEF CondOK, Alike
<1> QED BY <1>4, <1>5, <1>6 DEF CondOK, Once

LEMMA HeedsTrans ==
  ASSUME NEW a, NEW b, NEW c, NEW X, Heeds(a, b, X), Heeds(b, c, X)
  PROVE  Heeds(a, c, X)
<1>1. \A d : d \notin X => Same(Call("check", d), a, c)
  BY SameTrans DEF Heeds
<1> QED BY <1>1 DEF Heeds

LEMMA HeedsSame ==
  ASSUME NEW a, NEW X
  PROVE  Heeds(a, a, X)
BY SameCalls DEF Heeds

LEMMA SparesTrans ==
  ASSUME NEW s, NEW t, NEW u, NEW X, Spares(s, t, X), Spares(t, u, X)
  PROVE  Spares(s, u, X)
<1>1. DOMAIN s.events \subseteq DOMAIN t.events /\ DOMAIN t.events \subseteq DOMAIN u.events
  BY DEF Spares
<1>2. ASSUME NEW e \in DOMAIN s.events
      PROVE  /\ Unmoved(s.events[e], u.events[e])
             /\ Heeds(s.events[e].callbacks, u.events[e].callbacks, X)
  <2>1. /\ Unmoved(s.events[e], t.events[e]) /\ Heeds(s.events[e].callbacks, t.events[e].callbacks, X)
        /\ Unmoved(t.events[e], u.events[e]) /\ Heeds(t.events[e].callbacks, u.events[e].callbacks, X)
    BY <1>1 DEF Spares
  <2>2. Heeds(s.events[e].callbacks, u.events[e].callbacks, X)
    BY <2>1, HeedsTrans
  <2> QED BY <2>1, <2>2 DEF Unmoved
<1>3. Conditions(s) \subseteq Conditions(t)
  BY DEF Conditions, Spares, Unmoved
<1>4. \A c \in Conditions(s) \ X :
        u.events[c].state = s.events[c].state /\ u.events[c].count = s.events[c].count
  BY <1>3 DEF Spares
<1>5. ASSUME NEW e \in DOMAIN u.events \ DOMAIN s.events
      PROVE  /\ e \in Conditions(u) => e \in X
             /\ \A c : c \notin X => Occurrences(Call("check", c), u.events[e].callbacks) = {}
             /\ \A call \in Range(u.events[e].callbacks) : call.do # "trigger"
  <2>1. CASE e \notin DOMAIN t.events
    BY <2>1 DEF Spares
  <2>2. CASE e \in DOMAIN t.events
    <3>1. Unmoved(t.events[e], u.events[e]) /\ Heeds(t.events[e].callbacks, u.events[e].callbacks, X)
      BY <2>2 DEF Spares
    <3>2. e \in Conditions(u) => e \in Conditions(t)
      BY <2>2, <3>1 DEF Unmoved, Conditions
    <3>3. e \in Conditions(u) => e \in X
      BY <2>2, <3>2 DEF Spares
    <3>4. /\ \A c : c \notin X => Occurrences(Call("check", c), t.events[e].callbacks) = {}
          /\ \A call \in Range(t.events[e].callbacks) : call.do # "trigger"
      BY <2>2 DEF Spares
    <3>5. \A c : c \notin X => Occurrences(Call("check", c), u.events[e].callbacks) = {}
      BY <3>1, <3>4 DEF Heeds, Same
    <3>6. \A call \in Range(u.events[e].callbacks) : call.do # "trigger"
      BY <3>1, <3>4 DEF Heeds
    <3> QED BY <3>3, <3>5, <3>6
  <2> QED BY <2>1, <2>2
<1> QED BY <1>1, <1>2, <1>4, <1>5 DEF Spares

LEMMA SparesKeep ==
  ASSUME NEW s, NEW t, SimOK(s), SimOK(t), NEW X, Spares(s, t, X), NEW c \in Conditions(s) \ X,
         NEW todo, NEW orphaned \in BOOLEAN, CondOK(s, c, todo, orphaned)
  PROVE  c \in Conditions(t) /\ CondOK(t, c, todo, orphaned)
<1> DEFINE call == Call("check", c)
<1>1. /\ c \in DOMAIN s.events /\ Range(s.events[c].members) \subseteq DOMAIN s.events
      /\ DOMAIN s.events \subseteq DOMAIN t.events
      /\ \A e \in DOMAIN s.events : Unmoved(s.events[e], t.events[e])
  BY ConditionFields DEF Spares
<1>2. c \in Conditions(t)
  BY <1>1 DEF Conditions, Unmoved
<1>3. t.events[c].state = s.events[c].state /\ t.events[c].count = s.events[c].count
  BY DEF Spares
<1>4. Alike(s, t, c)
  BY <1>1, <1>3 DEF Alike, Unmoved
<1>5. \A e \in DOMAIN s.events : Same(call, s.events[e].callbacks, t.events[e].callbacks)
  BY DEF Spares, Heeds
<1>6. \A e \in DOMAIN t.events \ DOMAIN s.events : Occurrences(call, t.events[e].callbacks) = {}
  BY DEF Spares
<1> HIDE DEF call
<1>7. \A e \in DOMAIN s.events : AtMostOnce(Occurrences(call, s.events[e].callbacks))
  BY DEF CondOK, call
<1>8. \A e \in DOMAIN t.events : AtMostOnce(Occurrences(call, t.events[e].callbacks))
  BY <1>5, <1>6, <1>7 DEF AtMostOnce, Same
<1>9. /\ \A e \in DOMAIN s.events : call \in Range(s.events[e].callbacks)
                                   <=> Occurrences(call, s.events[e].callbacks) # {}
      /\ \A e \in DOMAIN t.events : call \in Range(t.events[e].callbacks)
                                   <=> Occurrences(call, t.events[e].callbacks) # {}
  <2>1. ASSUME NEW u, SimOK(u), NEW e \in DOMAIN u.events PROVE u.events[e].callbacks \in Seq(CallType)
    BY <2>1, SimFields DEF SimOK, EventType
  <2> QED BY <2>1, OccurrencesOfCalls
<1>10. {e \in DOMAIN t.events : call \in Range(t.events[e].callbacks)}
         = {e \in DOMAIN s.events : call \in Range(s.events[e].callbacks)}
  BY <1>1, <1>5, <1>6, <1>9 DEF Same
<1>11. Watched(t, c) = Watched(s, c) /\ Once(t, c)
  BY <1>8, <1>10 DEF Watched, Once, call
<1> QED BY <1>2, <1>4, <1>11, CondAlike

\* In a schedule, a clock, an active process there is nothing to notice.
LEMMA SparesSame ==
  ASSUME NEW s, NEW t, t.events = s.events, NEW X
  PROVE  Spares(s, t, X)
BY HeedsSame DEF Spares, Unmoved

\* One event is another one.
LEMMA SparesOnly ==
  ASSUME NEW s, NEW t, NEW e, NEW X, DOMAIN t.events = DOMAIN s.events,
         \A f \in DOMAIN s.events \ {e} : t.events[f] = s.events[f],
         e \in DOMAIN s.events => Unmoved(s.events[e], t.events[e]),
         e \in DOMAIN s.events => Heeds(s.events[e].callbacks, t.events[e].callbacks, X),
         e \in Conditions(s) \ X =>
           t.events[e].state = s.events[e].state /\ t.events[e].count = s.events[e].count
  PROVE  Spares(s, t, X)
<1>1. ASSUME NEW f \in DOMAIN s.events
      PROVE  /\ Unmoved(s.events[f], t.events[f])
             /\ Heeds(s.events[f].callbacks, t.events[f].callbacks, X)
  BY <1>1, HeedsSame DEF Unmoved
<1>2. \A c \in Conditions(s) \ X :
        t.events[c].state = s.events[c].state /\ t.events[c].count = s.events[c].count
  BY DEF Conditions
<1> QED BY <1>1, <1>2 DEF Spares

LEMMA HeedsJoined ==
  ASSUME NEW call \in CallType, NEW a, NEW b, Joined(a, b, call), call.do # "trigger", NEW X,
         call.do # "check" \/ call.of \in X
  PROVE  Heeds(a, b, X)
<1>1. Range(b) = Range(a) \cup {call} /\ \A x : x # call => Occurrences(x, b) = Occurrences(x, a)
  BY JoinedCall
<1>2. \A c : c \notin X => Call("check", c) # call
  BY DEF Call
<1>3. \A c : c \notin X => Same(Call("check", c), a, b)
  BY <1>1, <1>2 DEF Same
<1> QED BY <1>1, <1>3 DEF Heeds

\* A callback that is no check of a condition outside X, and no trigger.
LEMMA SparesHook ==
  ASSUME NEW s, SimOK(s), NEW e \in DOMAIN s.events, ~ s.events[e].processed,
         NEW call \in CallType, CallOK(s, e, call), call.do # "trigger", NEW X,
         call.do # "check" \/ call.of \in X, NEW t, t = Hook(s, e, call)
  PROVE  Spares(s, t, X)
<1>1. /\ SimOK(t) /\ Only(s, t, e) /\ Likewise(s.events[e], t.events[e])
      /\ Joined(s.events[e].callbacks, t.events[e].callbacks, call)
  BY HookSim
<1>2. Heeds(s.events[e].callbacks, t.events[e].callbacks, X)
  BY <1>1, HeedsJoined
<1>3. t.events[e].count = s.events[e].count
  BY SimFields DEF Hook, SimOK, SimType, EventType
<1> QED BY <1>1, <1>2, <1>3, SparesOnly DEF Only, Likewise, Unmoved

LEMMA SparesTrigger ==
  ASSUME NEW s, SimOK(s), NEW X, NEW e \in DOMAIN s.events, ~ s.events[e].processed,
         e \in X \/ e \notin Conditions(s),
         NEW state \in {"ok", "failed"}, NEW t, t = Trigger(s, e, state)
  PROVE  Spares(s, t, X)
<1>1. /\ DOMAIN t.events = DOMAIN s.events
      /\ \A f \in DOMAIN s.events \ {e} : t.events[f] = s.events[f]
      /\ t.events[e].type = s.events[e].type /\ t.events[e].members = s.events[e].members
      /\ t.events[e].processed = s.events[e].processed
      /\ t.events[e].callbacks = s.events[e].callbacks
  BY TriggerSim
<1>2. Heeds(s.events[e].callbacks, t.events[e].callbacks, X)
  BY <1>1, HeedsSame
<1> QED BY <1>1, <1>2, SparesOnly DEF Unmoved

LEMMA SparesCreate ==
  ASSUME NEW s, SimOK(s), NEW X, NEW r \in EventType, ~ r.processed, r.callbacks = <<>>, r.target = None,
         Range(r.members) \subseteq DOMAIN s.events,
         Fresh(s) \in X \/ r.type \notin {"all", "any"}, NEW t, t = Create(s, r)
  PROVE  Spares(s, t, X)
<1>1. /\ DOMAIN t.events = DOMAIN s.events \cup {Fresh(s)} /\ t.events[Fresh(s)] = r
      /\ \A f \in DOMAIN s.events : t.events[f] = s.events[f]
  BY AddEvent
<1>2. ASSUME NEW f \in DOMAIN s.events
      PROVE  /\ Unmoved(s.events[f], t.events[f])
             /\ Heeds(s.events[f].callbacks, t.events[f].callbacks, X)
  BY <1>1, HeedsSame DEF Unmoved
<1>3. \A c \in Conditions(s) \ X :
        t.events[c].state = s.events[c].state /\ t.events[c].count = s.events[c].count
  BY <1>1 DEF Conditions
<1>4. \A e \in DOMAIN t.events \ DOMAIN s.events :
        /\ e \in Conditions(t) => e \in X
        /\ \A c : c \notin X => Occurrences(Call("check", c), t.events[e].callbacks) = {}
        /\ \A call \in Range(t.events[e].callbacks) : call.do # "trigger"
  BY <1>1 DEF Conditions, Occurrences, Range
<1> QED BY <1>1, <1>2, <1>3, <1>4 DEF Spares

LEMMA SparesSchedule ==
  ASSUME NEW s, SimOK(s), NEW task, NEW prio, NEW delay, NEW t, t = Schedule(s, task, prio, delay), NEW X
  PROVE  Spares(s, t, X)
<1>1. t.events = s.events
  BY DEF Schedule, SimOK, SimType
<1> QED BY <1>1, SparesSame

LEMMA SparesDefused ==
  ASSUME NEW s, SimOK(s), NEW X, NEW members, NEW t, t = Defused(s, members)
  PROVE  Spares(s, t, X)
<1>1. t.events = [e \in DOMAIN s.events |->
        IF e \in Range(members) /\ Failed(s, e) THEN [s.events[e] EXCEPT !.defused = TRUE]
                                               ELSE s.events[e]]
  BY DEF Defused, SimOK, SimType
<1>2. ASSUME NEW e \in DOMAIN s.events
      PROVE  /\ t.events[e].type = s.events[e].type /\ t.events[e].members = s.events[e].members
             /\ t.events[e].processed = s.events[e].processed /\ t.events[e].state = s.events[e].state
             /\ t.events[e].callbacks = s.events[e].callbacks /\ t.events[e].count = s.events[e].count
  <2>1. PICK r : r = s.events[e]
    OBVIOUS
  <2>2. r \in EventType
    BY <2>1, SimFields DEF SimOK
  <2>3. t.events[e] \in {r, [r EXCEPT !.defused = TRUE]}
    BY <1>1, <2>1
  <2>4. PICK q : q = [r EXCEPT !.defused = TRUE]
    OBVIOUS
  <2>5. /\ q.type = r.type /\ q.members = r.members /\ q.processed = r.processed
        /\ q.state = r.state /\ q.callbacks = r.callbacks /\ q.count = r.count
    BY <2>2, <2>4 DEF EventType
  <2> QED BY <2>1, <2>3, <2>4, <2>5
<1>3. DOMAIN t.events = DOMAIN s.events
  BY <1>1
<1>4. \A c \in Conditions(s) : c \in DOMAIN s.events
  BY DEF Conditions
<1> QED BY <1>2, <1>3, <1>4, HeedsSame DEF Spares, Unmoved

LEMMA SparesTarget ==
  ASSUME NEW s, SimOK(s), NEW X, NEW p \in DOMAIN s.events, NEW x \in {None} \cup DOMAIN s.events,
         NEW t, t = Aimed(s, p, x)
  PROVE  Spares(s, t, X)
<1>1. /\ Only(s, t, p) /\ Likewise(s.events[p], t.events[p])
      /\ t.events[p].callbacks = s.events[p].callbacks
  BY TargetSim
<1>2. t.events[p].count = s.events[p].count
  BY SimFields DEF Aimed, SimOK, SimType, EventType
<1> QED BY <1>1, <1>2, SparesOnly, HeedsSame DEF Only, Likewise, Unmoved

LEMMA SparesSent ==
  ASSUME NEW s, SimOK(s), NEW X, NEW e \in DOMAIN s.events, NEW t, t = Sent(s, e)
  PROVE  Spares(s, t, X)
<1>1. /\ Only(s, t, e) /\ Likewise(s.events[e], t.events[e])
      /\ t.events[e].callbacks = s.events[e].callbacks
  BY SentSim
<1>2. t.events[e].count = s.events[e].count
  BY SimFields DEF Sent, SimOK, SimType, EventType
<1> QED BY <1>1, <1>2, SparesOnly, HeedsSame DEF Only, Likewise, Unmoved

LEMMA SparesUnhooked ==
  ASSUME NEW s, SimOK(s), NEW X, NEW p \in Processes(s), s.events[p].target # None,
         NEW t, t = Unhooked(s, p)
  PROVE  Spares(s, t, X)
<1>1. PICK e : e = s.events[p].target
  OBVIOUS
<1>2. p \in DOMAIN s.events /\ p \in Nat
  BY SimFields DEF Processes, SimOK
<1>3. e \in DOMAIN s.events
  BY <1>1, <1>2 DEF SimOK, EventOK
<1>4. /\ Only(s, t, e) /\ Likewise(s.events[e], t.events[e])
      /\ t.events[e].callbacks = RemoveFirst(s.events[e].callbacks, Call("resume", p))
  BY <1>1, <1>2, <1>3, UnhookedSim
<1>5. s.events[e].callbacks \in Seq(CallType) /\ Call("resume", p) \in CallType
  BY <1>2, <1>3, SimFields DEF SimOK, EventType, Call, CallType
<1>6. \A c : Call("check", c) # Call("resume", p)
  BY DEF Call
<1>7. Heeds(s.events[e].callbacks, t.events[e].callbacks, X)
  <2>1. \A c : /\ Same(Call("check", c), s.events[e].callbacks, t.events[e].callbacks)
              /\ Range(t.events[e].callbacks) \subseteq Range(s.events[e].callbacks)
    BY <1>4, <1>5, <1>6, RemoveFirstCall
  <2> QED BY <2>1 DEF Heeds
<1>8. t.events[e].count = s.events[e].count
  <2>1. t = [s EXCEPT !.events[e].callbacks = RemoveFirst(@, Call("resume", p))]
    BY <1>1 DEF Unhooked
  <2>2. s \in SimType /\ s.events[e] \in EventType
    BY <1>3, SimFields DEF SimOK
  <2> QED BY <1>3, <2>1, <2>2 DEF SimType, EventType
<1> QED BY <1>4, <1>7, <1>8, SparesOnly DEF Only, Likewise, Unmoved

LEMMA SparesCount ==
  ASSUME NEW s, SimOK(s), NEW X, NEW c \in X, c \in DOMAIN s.events,
         NEW t, t = Put(s, c, [s.events[c] EXCEPT !.count = @ + 1])
  PROVE  Spares(s, t, X)
<1>1. /\ Quiet(s, t) /\ t.events[c].members = s.events[c].members
      /\ t.events[c].state = s.events[c].state
      /\ Only(s, t, c) /\ t.events[c].callbacks = s.events[c].callbacks
  BY QuietCount
<1>2. Likewise(s.events[c], t.events[c])
  BY <1>1 DEF Quiet, Tame, EventKept, Likewise
<1> QED BY <1>1, <1>2, SparesOnly, HeedsSame DEF Only, Likewise, Unmoved

LEMMA SparesKeeps ==
  ASSUME NEW s, NEW t, NEW X, Spares(s, t, X)
  PROVE  /\ DOMAIN s.events \subseteq DOMAIN t.events /\ Conditions(s) \subseteq Conditions(t)
         /\ \A e \in DOMAIN s.events : t.events[e].processed = s.events[e].processed
                                       /\ t.events[e].type = s.events[e].type
BY DEF Spares, Unmoved, Conditions

\* What a check does that has not been told before, piece by piece.
Tallied(s, c) == Put(s, c, [s.events[c] EXCEPT !.count = @ + 1])
Failing(s, c) == Defused(Tallied(s, c), s.events[c].members)

OneMore(a, b) ==
  /\ b.type = a.type /\ b.members = a.members /\ b.state = a.state /\ b.processed = a.processed
  /\ b.count = a.count + 1

Checked(s, c, e, t, counted, failing) ==
  IF s.events[c].state # "pending" THEN t = s
  ELSE IF Failed(s, e) THEN t = Trigger(failing, c, "failed")
  ELSE IF Holds(counted.events[c]) THEN t = Trigger(counted, c, "ok")
  ELSE t = counted

LEMMA CheckCases ==
  ASSUME NEW s, SimOK(s), NEW c \in Conditions(s), NEW e \in DOMAIN s.events,
         NEW t, t = Check(s, c, e), NEW counted, counted = Tallied(s, c), NEW failing, failing = Failing(s, c)
  PROVE  /\ SimOK(t) /\ SimOK(counted) /\ SimOK(failing)
         /\ c \in Conditions(counted) /\ c \in Conditions(failing)
         /\ OneMore(s.events[c], counted.events[c])
         /\ Checked(s, c, e, t, counted, failing)
<1>1. PICK cond : cond = [s.events[c] EXCEPT !.count = @ + 1]
  OBVIOUS
<1>2. c \in DOMAIN s.events /\ s.events[c] \in EventType /\ s \in SimType
  BY SimFields DEF Conditions, SimOK
<1>3. counted = Put(s, c, cond) /\ Quiet(s, counted)
  BY <1>1, <1>2, QuietCount DEF Tallied
<1>4. counted.events[c] = cond
  BY <1>2, <1>3 DEF Put, SimType
<1>5. cond.members = s.events[c].members
  BY <1>1, <1>2 DEF EventType
<1>6. failing = Defused(counted, cond.members)
  BY <1>5 DEF Failing
<1>7. SimOK(counted) /\ c \in Conditions(counted)
  BY <1>2, <1>3 DEF Quiet, Tame, EventKept, Conditions
<1>8. SimOK(t)
  BY QuietCheck DEF Quiet, Tame
<1>9. Aside(counted, failing, {})
  BY <1>6, <1>7, AsideDefused
<1>10. SimOK(failing) /\ c \in Conditions(failing)
  BY <1>7, <1>9, AsideKeeps
<1>11. Checked(s, c, e, t, counted, failing)
  BY <1>1, <1>3, <1>4, <1>6 DEF Check, Checked
<1>12. OneMore(s.events[c], counted.events[c])
  BY <1>1, <1>2, <1>4 DEF OneMore, EventType
<1> QED BY <1>7, <1>8, <1>10, <1>11, <1>12

LEMMA SparesCheck ==
  ASSUME NEW s, SimOK(s), NEW X, NEW c \in Conditions(s), c \in X, NEW e \in DOMAIN s.events,
         NEW t, t = Check(s, c, e)
  PROVE  Spares(s, t, X)
<1>1. PICK counted : counted = Tallied(s, c)
  OBVIOUS
<1>2. PICK failing : failing = Failing(s, c)
  OBVIOUS
<1>3. /\ SimOK(counted) /\ SimOK(failing) /\ c \in Conditions(counted) /\ c \in Conditions(failing)
      /\ Checked(s, c, e, t, counted, failing)
  BY <1>1, <1>2, CheckCases
<1>4. /\ c \in DOMAIN s.events
      /\ s.events[c].state = "pending" => ~ s.events[c].processed
  BY ConditionFields
<1>5. Spares(s, counted, X)
  BY <1>1, <1>4, SparesCount DEF Tallied
<1>6. Spares(counted, failing, X)
  BY <1>1, <1>2, <1>3, SparesDefused DEF Failing
<1>7. Spares(s, failing, X)
  BY <1>5, <1>6, SparesTrans
<1>8. ASSUME NEW u \in {counted, failing}, s.events[c].state = "pending", NEW state \in {"ok", "failed"}
      PROVE  Spares(s, Trigger(u, c, state), X)
  <2>1. c \in DOMAIN u.events /\ ~ u.events[c].processed /\ Spares(s, u, X) /\ SimOK(u)
    BY <1>3, <1>4, <1>5, <1>7, <1>8, SparesKeeps
  <2>2. Spares(u, Trigger(u, c, state), X)
    BY <2>1, SparesTrigger
  <2> QED BY <2>1, <2>2, SparesTrans
<1>9. CASE s.events[c].state # "pending"
  BY <1>3, <1>9, SparesSame DEF Checked
<1>10. CASE s.events[c].state = "pending"
  <2>1. t \in {Trigger(failing, c, "failed"), Trigger(counted, c, "ok"), counted}
    BY <1>3, <1>10 DEF Checked
  <2>2. Spares(s, Trigger(failing, c, "failed"), X) /\ Spares(s, Trigger(counted, c, "ok"), X)
    BY <1>8, <1>10
  <2> QED BY <1>5, <2>1, <2>2
<1> QED BY <1>9, <1>10

-----------------------------------------------------------------------------
(* A condition is told of a member. *)

\* The next one makes it hold.
AlmostHolds(cond) == cond.type = "all" => Len(cond.members) = cond.count + 1

SameHooks(s, t) ==
  /\ DOMAIN t.events = DOMAIN s.events
  /\ \A e \in DOMAIN s.events : t.events[e].callbacks = s.events[e].callbacks

LEMMA TriggerHooks ==
  ASSUME NEW s, SimOK(s), NEW e \in DOMAIN s.events, NEW state \in {"ok", "failed"},
         NEW t, t = Trigger(s, e, state)
  PROVE  SameHooks(s, t) /\ t.events[e].state = state
<1>1. /\ DOMAIN t.events = DOMAIN s.events /\ t.events[e].state = state
      /\ \A f \in DOMAIN s.events \ {e} : t.events[f] = s.events[f]
      /\ t.events[e].callbacks = s.events[e].callbacks
  BY TriggerSim
<1> QED BY <1>1 DEF SameHooks

\* What a pending condition makes of it.
ToldOf(s, t, c, m) ==
  \/ Failed(s, m) /\ t.events[c].state = "failed"
  \/ ~ Failed(s, m) /\ AlmostHolds(s.events[c]) /\ t.events[c].state = "ok"
  \/ /\ ~ Failed(s, m) /\ ~ AlmostHolds(s.events[c])
     /\ t.events[c].state = "pending" /\ t.events[c].count = s.events[c].count + 1

LEMMA CheckEffect ==
  ASSUME NEW s, SimOK(s), NEW c \in Conditions(s), NEW m \in DOMAIN s.events, NEW t, t = Check(s, c, m)
  PROVE  /\ SimOK(t) /\ SameHooks(s, t) /\ Spares(s, t, {c})
         /\ s.events[c].state # "pending" => t = s
         /\ s.events[c].state = "pending" => ToldOf(s, t, c, m)
<1>1. PICK counted : counted = Tallied(s, c)
  OBVIOUS
<1>2. PICK failing : failing = Failing(s, c)
  OBVIOUS
<1>3. /\ SimOK(t) /\ SimOK(counted) /\ SimOK(failing) /\ c \in Conditions(counted) /\ c \in Conditions(failing)
      /\ OneMore(s.events[c], counted.events[c])
      /\ Checked(s, c, m, t, counted, failing)
  BY <1>1, <1>2, CheckCases
<1>4. Spares(s, t, {c})
  BY SparesCheck
<1>5. c \in DOMAIN s.events /\ s.events[c].count \in Nat
  BY ConditionFields
<1>6. Holds(counted.events[c]) <=> AlmostHolds(s.events[c])
  BY <1>3, <1>5 DEF Holds, AlmostHolds, OneMore
<1>7. SameHooks(s, counted)
  <2>1. Only(s, counted, c) /\ counted.events[c].callbacks = s.events[c].callbacks
    BY <1>1, <1>5, QuietCount DEF Tallied
  <2> QED BY <2>1 DEF SameHooks, Only
<1>8. SameHooks(counted, failing)
  <2>1. /\ Relieved(counted, failing.events)
        /\ \A e \in DOMAIN counted.events : failing.events[e].callbacks = counted.events[e].callbacks
    BY <1>1, <1>2, <1>3, DefusedEvents DEF Failing
  <2> QED BY <2>1 DEF SameHooks, Relieved
<1>9. SameHooks(s, failing)
  BY <1>7, <1>8 DEF SameHooks
<1>10. c \in DOMAIN counted.events /\ c \in DOMAIN failing.events
  BY <1>3 DEF Conditions
<1>11. CASE s.events[c].state # "pending"
  BY <1>3, <1>4, <1>11 DEF Checked, SameHooks
<1>12. CASE s.events[c].state = "pending" /\ Failed(s, m)
  <2>1. t = Trigger(failing, c, "failed")
    BY <1>3, <1>12 DEF Checked
  <2>2. SameHooks(failing, t) /\ t.events[c].state = "failed"
    BY <1>3, <1>10, <2>1, TriggerHooks
  <2>3. SameHooks(s, t)
    BY <1>9, <2>2 DEF SameHooks
  <2> QED BY <1>3, <1>4, <1>12, <2>2, <2>3 DEF ToldOf
<1>13. CASE s.events[c].state = "pending" /\ ~ Failed(s, m) /\ AlmostHolds(s.events[c])
  <2>1. t = Trigger(counted, c, "ok")
    BY <1>3, <1>6, <1>13 DEF Checked
  <2>2. SameHooks(counted, t) /\ t.events[c].state = "ok"
    BY <1>3, <1>10, <2>1, TriggerHooks
  <2>3. SameHooks(s, t)
    BY <1>7, <2>2 DEF SameHooks
  <2> QED BY <1>3, <1>4, <1>13, <2>2, <2>3 DEF ToldOf
<1>14. CASE s.events[c].state = "pending" /\ ~ Failed(s, m) /\ ~ AlmostHolds(s.events[c])
  <2>1. t = counted
    BY <1>3, <1>6, <1>14 DEF Checked
  <2>2. t.events[c].state = "pending" /\ t.events[c].count = s.events[c].count + 1
    BY <1>3, <1>14, <2>1 DEF OneMore
  <2> QED BY <1>3, <1>4, <1>7, <1>14, <2>1, <2>2 DEF ToldOf
<1> QED BY <1>11, <1>12, <1>13, <1>14

LEMMA CheckOwn ==
  ASSUME NEW s, SimOK(s), NEW c \in Conditions(s), NEW todo, NEW m \in todo, NEW orphaned \in BOOLEAN,
         m \in Range(s.events[c].members), s.events[m].processed, CondOK(s, c, todo, orphaned),
         NEW t, t = Check(s, c, m)
  PROVE  SimOK(t) /\ Spares(s, t, {c}) /\ CondOK(t, c, todo \ {m}, orphaned)
<1> DEFINE M == Range(s.events[c].members)
           told == Over(s, c) \ todo
           now == Over(s, c) \ (todo \ {m})
<1>1. /\ c \in DOMAIN s.events /\ M \subseteq DOMAIN s.events
      /\ s.events[c].members \in Seq(Nat) /\ s.events[c].count \in Nat
      /\ s.events[c].type \in {"all", "any"} /\ s.events[c].state \in {"pending", "ok", "failed"}
  BY ConditionFields
<1>2. /\ SimOK(t) /\ SameHooks(s, t) /\ Spares(s, t, {c})
      /\ s.events[c].state # "pending" => t = s
      /\ s.events[c].state = "pending" => ToldOf(s, t, c, m)
  BY <1>1, CheckEffect
<1>3. \A e \in DOMAIN s.events : Unmoved(s.events[e], t.events[e])
  BY <1>2 DEF Spares
<1>4. /\ t.events[c].type = s.events[c].type /\ t.events[c].members = s.events[c].members
      /\ Over(t, c) = Over(s, c) /\ \A e \in Over(s, c) : Failed(t, e) <=> Failed(s, e)
  BY <1>1, <1>3 DEF Unmoved, Over, Failed
<1>5. Watched(t, c) = Watched(s, c)
  BY <1>2 DEF SameHooks, Watched
<1>6. /\ IsInjective(t.events[c].members) /\ (todo \ {m}) \cap Watched(t, c) = {}
      /\ \A e \in DOMAIN t.events : AtMostOnce(Occurrences(Call("check", c), t.events[e].callbacks))
  BY <1>2, <1>4, <1>5 DEF CondOK, SameHooks
<1>7. /\ IsFiniteSet(M) /\ IsFiniteSet(told) /\ Cardinality(told) \in Nat /\ Cardinality(now) \in Nat
      /\ Cardinality(now) <= Cardinality(M) /\ (Cardinality(now) = Cardinality(M) => now = M)
  BY ToldMembers
<1>8. Cardinality(M) = Len(s.events[c].members)
  BY <1>1, DistinctMembers DEF CondOK
<1>9. now = told \cup {m} /\ m \notin told /\ m \in Over(s, c) /\ m \in M
  BY DEF Over
<1>10. Cardinality(now) = Cardinality(told) + 1
  <2>1. IsFiniteSet(told) /\ now = told \cup {m} /\ m \notin told
    BY <1>7, <1>9
  <2> HIDE DEF told, now
  <2> QED BY <2>1, FS_AddElement
<1>11. CASE s.events[c].state # "pending"
  BY <1>2, <1>6, <1>11 DEF CondOK
<1>12. ASSUME s.events[c].state = "pending"
       PROVE  /\ s.events[c].count <= Cardinality(told)
              /\ ~ orphaned => /\ s.events[c].count = Cardinality(told)
                               /\ M \ told \subseteq todo \cup Watched(s, c)
                               /\ \A e \in told : ~ Failed(s, e)
  BY <1>12 DEF CondOK, Counting
<1>13. CASE s.events[c].state = "pending" /\ Failed(s, m) /\ t.events[c].state = "failed"
  <2>1. Outcome(t, c)
    BY <1>4, <1>9, <1>13 DEF Outcome
  <2> QED BY <1>2, <1>6, <1>13, <2>1 DEF CondOK
<1>14. CASE /\ s.events[c].state = "pending" /\ ~ Failed(s, m) /\ AlmostHolds(s.events[c])
            /\ t.events[c].state = "ok"
  <2>1. s.events[c].type = "all" => Cardinality(M) <= Cardinality(now)
    <3>1. s.events[c].count + 1 <= Cardinality(now)
      <4> HIDE DEF now, told, M
      <4> QED BY <1>1, <1>7, <1>10, <1>12, <1>14
    <3>2. s.events[c].type = "all" => Cardinality(M) = s.events[c].count + 1
      BY <1>8, <1>14 DEF AlmostHolds
    <3> HIDE DEF now, M
    <3> QED BY <3>1, <3>2
  <2>2. s.events[c].type = "all" => now = M
    <3>1. Cardinality(M) \in Nat
      BY <1>1, <1>8
    <3> HIDE DEF now, M
    <3> QED BY <1>7, <2>1, <3>1
  <2>3. s.events[c].type = "all" => Over(s, c) = M
    BY <2>2 DEF Over
  <2>4. Outcome(t, c)
    BY <1>1, <1>4, <1>9, <1>14, <2>3 DEF Outcome
  <2> QED BY <1>2, <1>6, <1>14, <2>4 DEF CondOK
<1>15. CASE /\ s.events[c].state = "pending" /\ ~ Failed(s, m) /\ ~ AlmostHolds(s.events[c])
            /\ t.events[c].state = "pending" /\ t.events[c].count = s.events[c].count + 1
  <2>1. s.events[c].count + 1 <= Cardinality(now)
    <3> HIDE DEF now, told
    <3> QED BY <1>1, <1>7, <1>10, <1>12, <1>15
  <2>2. ~ orphaned => s.events[c].count + 1 = Cardinality(now)
    <3> HIDE DEF now, told
    <3> QED BY <1>1, <1>7, <1>10, <1>12, <1>15
  <2>3. ~ orphaned => /\ M \ now \subseteq (todo \ {m}) \cup Watched(s, c)
                      /\ \A e \in now : ~ Failed(s, e)
    BY <1>9, <1>12, <1>15
  <2>4. ~ orphaned => ~ Holds(t.events[c])
    <3>1. CASE s.events[c].type = "all"
      BY <1>4, <1>15, <3>1 DEF Holds, AlmostHolds
    <3>2. CASE s.events[c].type = "any"
      BY <1>15, <3>2 DEF AlmostHolds
    <3> QED BY <1>1, <3>1, <3>2
  <2>5. Over(t, c) \ (todo \ {m}) = now /\ Range(t.events[c].members) = M
    BY <1>4
  <2>6. \A e \in now : Failed(t, e) <=> Failed(s, e)
    BY <1>4
  <2> HIDE DEF now, M, told
  <2>7. Counting(t, c, todo \ {m}, orphaned)
    BY <1>5, <1>15, <2>1, <2>2, <2>3, <2>4, <2>5, <2>6 DEF Counting
  <2>8. Outcome(t, c)
    BY <1>15 DEF Outcome
  <2> QED BY <1>2, <1>6, <2>7, <2>8 DEF CondOK
<1>16. s.events[c].state = "pending" =>
         \/ Failed(s, m) /\ t.events[c].state = "failed"
         \/ ~ Failed(s, m) /\ AlmostHolds(s.events[c]) /\ t.events[c].state = "ok"
         \/ /\ ~ Failed(s, m) /\ ~ AlmostHolds(s.events[c])
            /\ t.events[c].state = "pending" /\ t.events[c].count = s.events[c].count + 1
  BY <1>2 DEF ToldOf
<1> QED BY <1>2, <1>11, <1>13, <1>14, <1>15, <1>16

-----------------------------------------------------------------------------
(* A condition is made. *)

\* What Condition.__init__ has still to look at after n of the members.
Left(members, n) == {members[k] : k \in n + 1 .. Len(members)}

LEMMA LeftMembers ==
  ASSUME NEW S, NEW members \in Seq(S)
  PROVE  /\ Left(members, 0) = Range(members) /\ Left(members, Len(members)) = {}
         /\ \A n \in 1 .. Len(members) :
              /\ members[n] \in Left(members, n - 1)
              /\ IsInjective(members) => Left(members, n) = Left(members, n - 1) \ {members[n]}
<1>1. Len(members) \in Nat /\ DOMAIN members = 1 .. Len(members)
  OBVIOUS
<1>2. Left(members, 0) = Range(members) /\ Left(members, Len(members)) = {}
  BY <1>1 DEF Left, Range
<1>3. ASSUME NEW n \in 1 .. Len(members)
      PROVE  /\ members[n] \in Left(members, n - 1)
             /\ IsInjective(members) => Left(members, n) = Left(members, n - 1) \ {members[n]}
  <2>1. \A k : k \in (n - 1) + 1 .. Len(members) <=> k = n \/ k \in n + 1 .. Len(members)
    BY <1>1
  <2>2. ASSUME IsInjective(members) PROVE \A k \in n + 1 .. Len(members) : members[k] # members[n]
    <3> TAKE k \in n + 1 .. Len(members)
    <3>1. k \in DOMAIN members /\ n \in DOMAIN members /\ k # n
      BY <1>1
    <3> QED BY <2>2, <3>1 DEF IsInjective
  <2> QED BY <2>1, <2>2 DEF Left
<1> QED BY <1>2, <1>3

Unseen(t, c, members) == members # <<>> => CondOK(t, c, Range(members), FALSE)

LEMMA NewCondition ==
  ASSUME NEW s, SimOK(s), NEW type \in {"all", "any"}, NEW members \in Seq(DOMAIN s.events),
         IsInjective(members), NEW c, c = Fresh(s), NEW t, t = Made(s, type, members)
  PROVE  /\ SimOK(t) /\ New(t, c, members) /\ Spares(s, t, {c})
         /\ c \notin DOMAIN s.events /\ Once(t, c) /\ Unseen(t, c, members)
<1> DEFINE r == [NewEvent(type) EXCEPT !.members = members]
<1>1. DOMAIN s.events \subseteq Nat
  BY SimFields DEF SimOK
<1>2. members \in Seq(Nat) /\ Range(members) \subseteq DOMAIN s.events
  BY <1>1 DEF Range
<1>3. /\ r.type = type /\ r.state = "pending" /\ ~ r.processed /\ r.count = 0
      /\ r.callbacks = <<>> /\ r.target = None /\ r.members = members
  BY DEF NewEvent
<1>4. r \in EventType
  BY <1>2, NewEventFits, ZenonT(60) DEF EventType
<1> HIDE DEF r
<1>5. t = Create(s, r)
  BY DEF Made, r
<1>6. /\ SimOK(t) /\ DOMAIN t.events = DOMAIN s.events \cup {c} /\ c \notin DOMAIN s.events
      /\ t.events[c] = r /\ \A f \in DOMAIN s.events : t.events[f] = s.events[f]
  BY <1>2, <1>3, <1>4, <1>5, AddEvent
<1>7. Spares(s, t, {c})
  BY <1>2, <1>3, <1>4, <1>5, SparesCreate
<1>8. New(t, c, members)
  BY <1>3, <1>6 DEF New, Conditions
<1>9. \A e \in DOMAIN t.events : Occurrences(Call("check", c), t.events[e].callbacks) = {}
  <2> TAKE e \in DOMAIN t.events
  <2>1. CASE e = c
    BY <1>3, <1>6, <2>1 DEF Occurrences
  <2>2. CASE e # c
    <3>1. e \in DOMAIN s.events /\ t.events[e] = s.events[e] /\ EventOK(s, e)
      BY <1>6, <2>2 DEF SimOK
    <3>2. \A i \in DOMAIN s.events[e].callbacks : s.events[e].callbacks[i] # Call("check", c)
      BY <1>6, <3>1 DEF EventOK, CallOK, Call, Conditions
    <3> QED BY <3>1, <3>2 DEF Occurrences
  <2> QED BY <2>1, <2>2
<1>10. Once(t, c)
  BY <1>9 DEF Once, AtMostOnce
<1>11. Watched(t, c) = {}
  BY <1>9 DEF Watched, Occurrences, Range
<1>12. Over(t, c) \subseteq Range(members)
  BY <1>3, <1>6 DEF Over
<1>13. ASSUME members # <<>> PROVE CondOK(t, c, Range(members), FALSE)
  <2>1. Over(t, c) \ Range(members) = {}
    BY <1>12
  <2>2. ~ Holds(t.events[c])
    BY <1>2, <1>3, <1>6, <1>13 DEF Holds
  <2>3. Counting(t, c, Range(members), FALSE)
    <3>1. Cardinality(Over(t, c) \ Range(members)) = 0
      BY <2>1, FS_EmptySet, Zenon
    <3>2. t.events[c].count = 0 /\ t.events[c].members = members
      BY <1>3, <1>6
    <3>3. PICK told : told = Over(t, c) \ Range(members)
      OBVIOUS
    <3>4. told = {} /\ Cardinality(told) = 0
      BY <2>1, <3>1, <3>3
    <3> QED BY <2>2, <3>2, <3>3, <3>4 DEF Counting
  <2>4. Outcome(t, c)
    BY <1>3, <1>6 DEF Outcome
  <2> QED BY <1>3, <1>6, <1>10, <1>11, <2>3, <2>4 DEF CondOK, Once
<1> QED BY <1>3, <1>6, <1>7, <1>8, <1>10, <1>11, <1>12, <1>13 DEF Unseen

\* The check is registered with a member still to come.
LEMMA HookOwn ==
  ASSUME NEW s, SimOK(s), NEW c \in Conditions(s), NEW todo, NEW m \in todo, NEW orphaned \in BOOLEAN,
         m \in Range(s.events[c].members), ~ s.events[m].processed, CondOK(s, c, todo, orphaned),
         NEW t, t = Hook(s, m, Call("check", c))
  PROVE  SimOK(t) /\ Spares(s, t, {c}) /\ CondOK(t, c, todo \ {m}, orphaned)
<1>1. PICK call : call = Call("check", c)
  OBVIOUS
<1>2. /\ c \in DOMAIN s.events /\ m \in DOMAIN s.events /\ call \in CallType
      /\ Range(s.events[c].members) \subseteq DOMAIN s.events
  BY <1>1, ConditionFields
<1>3. CallOK(s, m, call) /\ call.do = "check" /\ call.of = c
  BY <1>1 DEF CallOK, Call
<1>4. t = Hook(s, m, call)
  BY <1>1
<1>5. /\ SimOK(t) /\ Only(s, t, m) /\ Likewise(s.events[m], t.events[m])
      /\ Joined(s.events[m].callbacks, t.events[m].callbacks, call)
  BY <1>2, <1>3, <1>4, HookSim
<1>6. Spares(s, t, {c})
  BY <1>2, <1>3, <1>4, SparesHook
<1>7. /\ Range(t.events[m].callbacks) = Range(s.events[m].callbacks) \cup {call}
      /\ Occurrences(call, s.events[m].callbacks) = {} => Single(Occurrences(call, t.events[m].callbacks))
  BY <1>2, <1>5, JoinedCall
<1>8. s.events[m].callbacks \in Seq(CallType)
  BY <1>5 DEF Joined
<1>9. m \notin Watched(s, c)
  BY DEF CondOK
<1>10. Occurrences(call, s.events[m].callbacks) = {}
  BY <1>1, <1>2, <1>8, <1>9, OccurrencesOfCalls DEF Watched
<1>11. Watched(t, c) = Watched(s, c) \cup {m}
  BY <1>1, <1>2, <1>5, <1>7 DEF Watched, Only
<1>12. \A e \in DOMAIN t.events : AtMostOnce(Occurrences(Call("check", c), t.events[e].callbacks))
  BY <1>1, <1>5, <1>7, <1>10 DEF CondOK, Only, AtMostOnce
<1>13. \A e \in DOMAIN s.events : Unmoved(s.events[e], t.events[e])
  BY <1>6 DEF Spares
<1>14. /\ t.events[c].type = s.events[c].type /\ t.events[c].members = s.events[c].members
       /\ Over(t, c) = Over(s, c) /\ \A e \in Over(s, c) : Failed(t, e) <=> Failed(s, e)
  BY <1>2, <1>13 DEF Unmoved, Over, Failed
<1>15. t.events[c].state = s.events[c].state /\ t.events[c].count = s.events[c].count
  <2>1. t.events[m].count = s.events[m].count
    BY <1>2, <1>4, SimFields DEF Hook, SimOK, SimType, EventType
  <2> QED BY <1>2, <1>5, <2>1 DEF Only, Likewise
<1>16. Over(s, c) \ (todo \ {m}) = Over(s, c) \ todo
  BY DEF Over
<1>17. Holds(t.events[c]) <=> Holds(s.events[c])
  BY <1>14, <1>15 DEF Holds
<1>18. Outcome(t, c)
  <2>1. Outcome(s, c)
    BY DEF CondOK
  <2> QED BY <1>14, <1>15, <2>1 DEF Outcome
<1>19. ASSUME t.events[c].state = "pending" PROVE Counting(t, c, todo \ {m}, orphaned)
  <2>1. Counting(s, c, todo, orphaned)
    BY <1>15, <1>19 DEF CondOK
  <2> QED BY <1>11, <1>14, <1>15, <1>16, <1>17, <2>1 DEF Counting
<1>20. IsInjective(t.events[c].members) /\ (todo \ {m}) \cap Watched(t, c) = {}
  BY <1>11, <1>14 DEF CondOK
<1> QED BY <1>5, <1>6, <1>12, <1>18, <1>19, <1>20 DEF CondOK

LEMMA SparesNew ==
  ASSUME NEW s, NEW t, NEW X, Spares(s, t, X), NEW c, NEW members, New(s, c, members)
  PROVE  New(t, c, members)
BY DEF New, Spares, Unmoved, Conditions

LEMMA WatchOwn ==
  ASSUME NEW s, SimOK(s), NEW c, NEW members, New(s, c, members), NEW todo, NEW m \in todo,
         m \in Range(members), CondOK(s, c, todo, FALSE), NEW t, t = WatchMember(s, c, m)
  PROVE  SimOK(t) /\ Spares(s, t, {c}) /\ CondOK(t, c, todo \ {m}, FALSE)
<1>1. c \in Conditions(s) /\ m \in Range(s.events[c].members)
  BY DEF New
<1>2. CASE s.events[m].processed
  <2>1. t = Check(s, c, m)
    BY <1>2 DEF WatchMember
  <2> QED BY <1>1, <1>2, <2>1, CheckOwn
<1>3. CASE ~ s.events[m].processed
  <2>1. t = Hook(s, m, Call("check", c))
    BY <1>3 DEF WatchMember
  <2> QED BY <1>1, <1>3, <2>1, HookOwn
<1> QED BY <1>2, <1>3

LEMMA SparesCombine ==
  ASSUME NEW s, SimOK(s), NEW type \in {"all", "any"}, NEW members \in Seq(DOMAIN s.events),
         IsInjective(members), NEW c, c = Fresh(s), NEW t, t = Combine(s, type, members)
  PROVE  /\ SimOK(t) /\ Spares(s, t, {c}) /\ c \notin DOMAIN s.events
         /\ c \in Conditions(t) /\ CondOK(t, c, {}, FALSE)
<1>1. PICK made : made = Made(s, type, members)
  OBVIOUS
<1>2. /\ SimOK(made) /\ New(made, c, members) /\ Spares(s, made, {c})
      /\ c \notin DOMAIN s.events /\ Once(made, c) /\ Unseen(made, c, members)
  BY <1>1, NewCondition
<1>3. c \in Conditions(made) /\ c \in DOMAIN made.events /\ ~ made.events[c].processed
  BY <1>2 DEF New, Conditions
<1>4. SimOK(t)
  BY QuietCombine DEF Quiet, Tame
<1>5. CASE members = <<>>
  <2>1. t = Trigger(made, c, "ok")
    BY <1>1, <1>5 DEF Combine, Made
  <2>2. Spares(made, t, {c})
    BY <1>2, <1>3, <2>1, SparesTrigger
  <2>3. SameHooks(made, t) /\ t.events[c].state = "ok"
    BY <1>2, <1>3, <2>1, TriggerHooks
  <2>4. New(t, c, members)
    BY <1>2, <2>2, SparesNew
  <2>5. Range(members) = {}
    BY <1>5 DEF Range
  <2>6. Outcome(t, c)
    BY <1>5, <2>3, <2>4, <2>5 DEF Outcome, New, Over
  <2>7. \A e \in DOMAIN t.events : AtMostOnce(Occurrences(Call("check", c), t.events[e].callbacks))
    BY <1>2, <2>3 DEF Once, SameHooks
  <2>8. CondOK(t, c, {}, FALSE)
    BY <2>3, <2>4, <2>6, <2>7 DEF CondOK, New
  <2> QED BY <1>2, <1>4, <2>2, <2>4, <2>8, SparesTrans DEF New
<1>6. CASE members # <<>>
  <2>1. PICK w : /\ WatchesUpTo(w, Len(members), s, type, members)
                 /\ Combine(s, type, members) = Hook(w[Len(members)], c, Call("build", c))
    BY <1>6, WatchedExists
  <2>2. \A i \in 0 .. Len(members) :
          w[i] = IF i = 0 THEN made ELSE WatchMember(w[i - 1], c, members[i])
    BY <1>1, <2>1 DEF WatchesUpTo
  <2> DEFINE Good(n) == /\ SimOK(w[n]) /\ Spares(made, w[n], {c})
                        /\ CondOK(w[n], c, Left(members, n), FALSE)
             Late == {n \in Nat : n <= Len(members) /\ ~ Good(n)}
  <2>14. Len(members) \in Nat
    OBVIOUS
  <2>3. Late = {}
    <3> SUFFICES ASSUME Late # {} PROVE FALSE
      OBVIOUS
    <3>1. PICK n \in Late : \A k \in Late : n <= k
      BY LeastNatural
    <3>2. n # 0
      <4>1. w[0] = made
        BY <2>2
      <4>2. Spares(made, made, {c})
        BY SparesSame
      <4>3. Left(members, 0) = Range(members)
        BY LeftMembers
      <4> QED BY <1>2, <1>6, <3>1, <4>1, <4>2, <4>3 DEF Unseen
    <3>3. n \in 1 .. Len(members) /\ n - 1 \in Nat /\ n - 1 <= Len(members) /\ n - 1 \notin Late
      <4> HIDE DEF Good
      <4> QED BY <2>14, <3>1, <3>2
    <3>4. PICK u : u = w[n - 1]
      OBVIOUS
    <3>5. PICK m : m = members[n]
      OBVIOUS
    <3>6. PICK todo : todo = Left(members, n - 1)
      OBVIOUS
    <3>7. SimOK(u) /\ Spares(made, u, {c}) /\ CondOK(u, c, todo, FALSE)
      BY <3>3, <3>4, <3>6
    <3>8. w[n] = WatchMember(u, c, m)
      BY <2>2, <3>3, <3>4, <3>5
    <3>9. m \in todo /\ Left(members, n) = todo \ {m} /\ m \in Range(members)
      <4>1. m \in todo /\ Left(members, n) = todo \ {m}
        BY <3>3, <3>5, <3>6, LeftMembers
      <4>2. m \in Range(members)
        BY <3>3, <3>5 DEF Range
      <4> QED BY <4>1, <4>2
    <3>10. New(u, c, members)
      BY <1>2, <3>7, SparesNew
    <3>11. PICK v : v = w[n]
      OBVIOUS
    <3>12. SimOK(v) /\ Spares(u, v, {c}) /\ CondOK(v, c, todo \ {m}, FALSE)
      BY <3>7, <3>8, <3>9, <3>10, <3>11, WatchOwn
    <3>13. Spares(made, v, {c})
      BY <3>7, <3>12, SparesTrans
    <3>14. Good(n)
      BY <3>9, <3>11, <3>12, <3>13
    <3> QED BY <3>1, <3>14
  <2>4. PICK u : u = w[Len(members)]
    OBVIOUS
  <2>5. SimOK(u) /\ Spares(made, u, {c}) /\ CondOK(u, c, {}, FALSE)
    <3>1. Good(Len(members))
      <4> HIDE DEF Good
      <4> QED BY <2>3, <2>14
    <3>2. Left(members, Len(members)) = {}
      BY LeftMembers
    <3> QED BY <2>4, <3>1, <3>2
  <2>6. New(u, c, members)
    BY <1>2, <2>5, SparesNew
  <2>7. c \in Conditions(u) /\ c \in DOMAIN u.events /\ c \in Nat /\ ~ u.events[c].processed
    BY <2>5, <2>6, SimFields DEF New, Conditions, SimOK
  <2>8. PICK call : call = Call("build", c)
    OBVIOUS
  <2>9. call \in CallType /\ CallOK(u, c, call) /\ call.do = "build"
    BY <2>7, <2>8 DEF Call, CallType, CallOK
  <2>10. t = Hook(u, c, call)
    BY <2>1, <2>4, <2>8
  <2>11. Spares(u, t, {}) /\ Spares(u, t, {c})
    BY <2>5, <2>7, <2>9, <2>10, SparesHook
  <2>12. c \in Conditions(t) /\ CondOK(t, c, {}, FALSE)
    <3>1. FALSE \in BOOLEAN /\ c \in Conditions(u) \ {}
      BY <2>7
    <3> QED BY ONLY <1>4, <2>5, <2>11, <3>1, SparesKeep
  <2>13. Spares(s, t, {c})
    BY <1>2, <2>5, <2>11, SparesTrans
  <2> QED BY <1>2, <1>4, <2>12, <2>13
<1> QED BY <1>5, <1>6

-----------------------------------------------------------------------------
(* A condition takes the checks of those below it out. *)

Checks(X) == {Call("check", d) : d \in X}

\* But for the callbacks nothing has changed.
OnlyCallbacks(a, b) ==
  /\ b.type = a.type /\ b.members = a.members /\ b.processed = a.processed
  /\ b.state = a.state /\ b.count = a.count

Trimmed(a, b, dropped) == b = a \/ Filtered(a, b, dropped)

LEMMA RemovedChecks ==
  ASSUME NEW s, SimOK(s), NEW c, NEW t, t = RemoveChecks(s, c)
  PROVE  /\ SimOK(t) /\ DOMAIN t.events = DOMAIN s.events
         /\ \A e \in DOMAIN s.events :
              /\ OnlyCallbacks(s.events[e], t.events[e])
              /\ Trimmed(s.events[e].callbacks, t.events[e].callbacks, Checks(Nested(s, c)))
<1>1. PICK members : members = UNION {Range(s.events[d].members) : d \in Nested(s, c)}
  OBVIOUS
<1>2. PICK checks : checks = {Call("check", d) : d \in Nested(s, c)}
  OBVIOUS
<1> DEFINE events == [m \in DOMAIN s.events |->
            IF m \in members THEN [s.events[m] EXCEPT !.callbacks = Without(@, checks)]
                             ELSE s.events[m]]
<1>3. t = [s EXCEPT !.events = events]
  BY <1>1, <1>2 DEF RemoveChecks
<1>4. s \in SimType /\ SimOK(t)
  BY QuietRemoveChecks DEF SimOK, Quiet, Tame
<1>5. t.events = events
  BY <1>3, <1>4 DEF SimType
<1>6. ASSUME NEW m \in DOMAIN s.events
      PROVE  /\ OnlyCallbacks(s.events[m], events[m])
             /\ Trimmed(s.events[m].callbacks, events[m].callbacks, checks)
  <2>1. PICK r : r = s.events[m]
    OBVIOUS
  <2>2. r \in EventType /\ r.callbacks \in Seq(CallType)
    BY <1>4, <2>1, SimFields DEF EventType
  <2>3. PICK calls : calls = Without(r.callbacks, checks)
    OBVIOUS
  <2>4. Filtered(r.callbacks, calls, checks)
    BY <2>2, <2>3, WithoutCalls
  <2>5. events[m] \in {r, [r EXCEPT !.callbacks = calls]}
    BY <2>1, <2>3
  <2> HIDE DEF events
  <2>6. PICK q : q = [r EXCEPT !.callbacks = calls]
    OBVIOUS
  <2>7. OnlyCallbacks(r, q) /\ OnlyCallbacks(r, r) /\ q.callbacks = calls
    BY <2>2, <2>6 DEF EventType, OnlyCallbacks
  <2> QED BY <2>1, <2>4, <2>5, <2>6, <2>7 DEF Trimmed
<1>7. DOMAIN events = DOMAIN s.events
  OBVIOUS
<1> HIDE DEF events
<1> QED BY <1>2, <1>4, <1>5, <1>6, <1>7 DEF Checks

LEMMA CheckOfOne ==
  ASSUME NEW X, NEW d
  PROVE  Call("check", d) \in Checks(X) <=> d \in X
BY DEF Checks, Call

\* To the others it does not matter.
LEMMA SparesRemoveChecks ==
  ASSUME NEW s, SimOK(s), NEW c, NEW t, t = RemoveChecks(s, c)
  PROVE  Spares(s, t, Nested(s, c))
<1>1. PICK X : X = Nested(s, c)
  OBVIOUS
<1>2. /\ DOMAIN t.events = DOMAIN s.events
      /\ \A e \in DOMAIN s.events :
           /\ OnlyCallbacks(s.events[e], t.events[e])
           /\ Trimmed(s.events[e].callbacks, t.events[e].callbacks, Checks(X))
  BY <1>1, RemovedChecks
<1>3. ASSUME NEW a, NEW b, Trimmed(a, b, Checks(X)) PROVE Heeds(a, b, X)
  <2>1. CASE b = a
    BY <2>1, HeedsSame
  <2>2. CASE Filtered(a, b, Checks(X))
    BY <2>2, CheckOfOne DEF Filtered, Heeds, Same
  <2> QED BY <1>3, <2>1, <2>2 DEF Trimmed
<1>4. \A e \in DOMAIN s.events :
        /\ Unmoved(s.events[e], t.events[e])
        /\ Heeds(s.events[e].callbacks, t.events[e].callbacks, X)
  BY <1>2, <1>3 DEF OnlyCallbacks, Unmoved
<1>5. \A e \in Conditions(s) :
        t.events[e].state = s.events[e].state /\ t.events[e].count = s.events[e].count
  BY <1>2 DEF OnlyCallbacks, Conditions
<1> QED BY <1>1, <1>2, <1>4, <1>5 DEF Spares

\* Those below it will not be told any more.
LEMMA LosesChecks ==
  ASSUME NEW s, SimOK(s), NEW c, NEW t, t = RemoveChecks(s, c), NEW d \in Conditions(s), d \in Nested(s, c),
         NEW todo, NEW before \in BOOLEAN, NEW after \in BOOLEAN, CondOK(s, d, todo, before),
         before => after, after \/ s.events[d].state # "pending"
  PROVE  CondOK(t, d, todo, after)
<1>1. PICK X : X = Nested(s, c)
  OBVIOUS
<1>2. /\ DOMAIN t.events = DOMAIN s.events /\ SimOK(t)
      /\ \A e \in DOMAIN s.events :
           /\ OnlyCallbacks(s.events[e], t.events[e])
           /\ Trimmed(s.events[e].callbacks, t.events[e].callbacks, Checks(X))
  BY <1>1, RemovedChecks
<1>3. /\ d \in DOMAIN s.events /\ Range(s.events[d].members) \subseteq DOMAIN s.events
  BY ConditionFields
<1>4. Alike(s, t, d)
  BY <1>2, <1>3 DEF Alike, OnlyCallbacks
<1>5. PICK call : call = Call("check", d)
  OBVIOUS
<1>6. call \in Checks(X)
  BY <1>1, <1>5, CheckOfOne
<1>7. ASSUME NEW e \in DOMAIN s.events
      PROVE  /\ t.events[e].callbacks = s.events[e].callbacks \/ Occurrences(call, t.events[e].callbacks) = {}
             /\ call \in Range(t.events[e].callbacks) => call \in Range(s.events[e].callbacks)
  <2>1. CASE Filtered(s.events[e].callbacks, t.events[e].callbacks, Checks(X))
    <3>1. call \notin Range(t.events[e].callbacks)
      BY <1>6, <2>1 DEF Filtered
    <3>2. t.events[e].callbacks \in Seq(CallType)
      BY <1>2, SimFields DEF SimOK, EventType
    <3> QED BY <3>1, <3>2, OccurrencesOfCalls
  <2> QED BY <1>2, <2>1 DEF Trimmed
<1>8. Once(t, d)
  BY <1>2, <1>5, <1>7 DEF Once, CondOK, AtMostOnce
<1>9. Watched(t, d) \subseteq Watched(s, d)
  BY <1>2, <1>5, <1>7 DEF Watched
<1> QED BY <1>4, <1>8, <1>9, CondAlike

-----------------------------------------------------------------------------
(* Actions preserve the invariant: what most of them have in common. *)

\* A condition that has lost a check, or is not told after all.
LEMMA CondWeaken ==
  ASSUME NEW s, SimOK(s), NEW c \in Conditions(s), NEW todo, NEW before \in BOOLEAN, NEW after \in BOOLEAN,
         CondOK(s, c, todo, before), before => after, NEW now, now = todo \/ (now = {} /\ after)
  PROVE  CondOK(s, c, now, after)
<1>1. PICK told : told = Over(s, c) \ todo
  OBVIOUS
<1>2. PICK said : said = Over(s, c) \ now
  OBVIOUS
<1>3. Cardinality(told) \in Nat /\ Cardinality(said) \in Nat /\ Cardinality(told) <= Cardinality(said)
  <2>1. /\ IsFiniteSet(told) /\ IsFiniteSet(said)
        /\ Cardinality(told) \in Nat /\ Cardinality(said) \in Nat
    BY <1>1, <1>2, ToldMembers
  <2>2. told \subseteq said
    BY <1>1, <1>2
  <2> QED BY ONLY <2>1, <2>2, FS_Subset
<1>4. s.events[c].count \in Nat
  BY ConditionFields
<1>5. ASSUME s.events[c].state = "pending" PROVE Counting(s, c, now, after)
  <2>1. Counting(s, c, todo, before)
    BY <1>5 DEF CondOK
  <2>2. CASE now = todo
    BY <2>1, <2>2 DEF Counting
  <2>3. CASE after
    <3>1. s.events[c].count <= Cardinality(told)
      BY <1>1, <2>1 DEF Counting
    <3>2. s.events[c].count <= Cardinality(said)
      BY <1>3, <1>4, <3>1
    <3> QED BY <1>2, <2>3, <3>2 DEF Counting
  <2> QED BY <2>2, <2>3
<1>6. now \cap Watched(s, c) = {}
  BY DEF CondOK
<1> QED BY <1>5, <1>6 DEF CondOK

LEMMA HeardOf ==
  ASSUME StepOK, StepOK', NEW X, Hears(X), NEW c, c \notin X,
         AtMostOnce(Occurrences(Call("check", c), step.rest))
  PROVE  /\ Busy(c)' = Busy(c) \/ (Busy(c)' = {} /\ c \in ghost'.orphaned)
         /\ AtMostOnce(Occurrences(Call("check", c), step'.rest))
<1>1. PICK call : call = Call("check", c)
  OBVIOUS
<1>2. step.rest \in Seq(CallType) /\ step'.rest \in Seq(CallType)
  BY DEF StepOK
<1>3. /\ call \in Range(step.rest) <=> Occurrences(call, step.rest) # {}
      /\ call \in Range(step'.rest) <=> Occurrences(call, step'.rest) # {}
  BY <1>2, OccurrencesOfCalls
<1>4. CASE step'.task = step.task /\ Same(call, step.rest, step'.rest)
  <2>1. call \in Range(step'.rest) <=> call \in Range(step.rest)
    BY <1>3, <1>4 DEF Same
  <2>2. Busy(c)' = Busy(c)
    BY <1>1, <1>4, <2>1 DEF Busy
  <2>3. AtMostOnce(Occurrences(call, step'.rest))
    BY <1>1, <1>4 DEF Same, AtMostOnce
  <2> QED BY <1>1, <2>2, <2>3
<1>5. CASE call \notin Range(step'.rest) /\ (call \in Range(step.rest) => c \in ghost'.orphaned)
  <2>1. Busy(c)' = {}
    BY <1>1, <1>5 DEF Busy
  <2>2. call \notin Range(step.rest) => Busy(c) = {}
    BY <1>1 DEF Busy
  <2>3. AtMostOnce(Occurrences(call, step'.rest))
    BY <1>3, <1>5 DEF AtMostOnce
  <2> QED BY <1>1, <1>5, <2>1, <2>2, <2>3
<1> QED BY <1>1, <1>4, <1>5 DEF Hears

LEMMA FireStays ==
  ASSUME SimOK(sim), StepOK, SimOK(sim'), StepOK', FireInv, NEW X, Spares(sim, sim', X), Hears(X),
         cast' \in [menu : SUBSET STRING, calls : Nat, runs : Nat], cast'.menu = cast.menu,
         Conditions(sim) = {} /\ "condition" \notin cast.menu => Conditions(sim') = {},
         \A c \in X \cap Conditions(sim') : CondNow(c)'
  PROVE  FireInv'
<1>1. CondInv'
  <2>1. ASSUME NEW c \in Conditions(sim') PROVE CondNow(c)'
    <3>1. CASE c \in X
      BY <3>1
    <3>2. CASE c \notin X
      <4>1. c \in Conditions(sim) \ X
        BY <3>2 DEF Spares, Conditions, Unmoved
      <4>2. /\ CondOK(sim, c, Busy(c), c \in ghost.orphaned)
            /\ AtMostOnce(Occurrences(Call("check", c), step.rest))
        BY <4>1 DEF FireInv, CondInv
      <4>3. PICK before \in BOOLEAN : before = (c \in ghost.orphaned)
        BY (c \in ghost.orphaned) \in BOOLEAN, Zenon
      <4>4. PICK after \in BOOLEAN : after = (c \in ghost'.orphaned)
        BY (c \in ghost'.orphaned) \in BOOLEAN, Zenon
      <4>5. PICK todo : todo = Busy(c)
        OBVIOUS
      <4>6. PICK now : now = Busy(c)'
        OBVIOUS
      <4>7. PICK t : t = sim'
        OBVIOUS
      <4>8. CondOK(sim, c, todo, before)
        BY <4>2, <4>3, <4>5
      <4>9. c \in Conditions(t) /\ CondOK(t, c, todo, before) /\ SimOK(t)
        BY <4>1, <4>7, <4>8, SparesKeep
      <4>10. /\ now = todo \/ (now = {} /\ after)
             /\ AtMostOnce(Occurrences(Call("check", c), step'.rest))
        BY <3>2, <4>2, <4>4, <4>5, <4>6, HeardOf
      <4>11. before => after
        BY <4>3, <4>4 DEF Hears
      <4>12. CondOK(t, c, now, after)
        BY ONLY <4>9, <4>10, <4>11, CondWeaken
      <4> QED BY <4>4, <4>6, <4>7, <4>10, <4>12 DEF CondNow
    <3> QED BY <3>1, <3>2
  <2> QED BY <2>1 DEF CondInv, CondNow
<1>2. Untangled'
  <2>1. CASE Conditions(sim) = {} /\ "condition" \notin cast.menu
    BY <2>1 DEF Untangled
  <2>2. CASE NoTriggers /\ "chain" \notin cast.menu
    <3>1. ASSUME NEW e \in DOMAIN sim'.events, NEW call \in Range(sim'.events[e].callbacks)
          PROVE  call.do # "trigger"
      <4>1. CASE e \in DOMAIN sim.events
        BY <2>2, <3>1, <4>1 DEF Spares, Heeds, NoTriggers
      <4>2. CASE e \notin DOMAIN sim.events
        BY <3>1, <4>2 DEF Spares
      <4> QED BY <4>1, <4>2
    <3>2. \A call \in Range(step'.rest) : call.do # "trigger"
      BY <2>2 DEF Hears, NoTriggers
    <3> QED BY <2>2, <3>1, <3>2 DEF Untangled, NoTriggers
  <2> QED BY <2>1, <2>2 DEF FireInv, Untangled
<1> QED BY <1>1, <1>2 DEF FireInv

-----------------------------------------------------------------------------
(* Actions preserve the invariant: those that no condition notices. *)

LEMMA SpentCast ==
  ASSUME FireInv, Spent
  PROVE  cast' \in [menu : SUBSET STRING, calls : Nat, runs : Nat] /\ cast'.menu = cast.menu
BY DEF FireInv, Spent

LEMMA SparesNone ==
  ASSUME NEW s, NEW t, NEW X, Spares(s, t, X), X \cap DOMAIN t.events \subseteq DOMAIN s.events
  PROVE  Conditions(s) = {} => Conditions(t) = {}
BY DEF Spares, Unmoved, Conditions

\* In X, if at all, are conditions that were there.
LEMMA SparedStays ==
  ASSUME KInv, KInv', FireInv, Spent, NEW X, Spares(sim, sim', X), Hears(X),
         X \cap DOMAIN sim'.events \subseteq DOMAIN sim.events,
         \A c \in X \cap Conditions(sim') : CondNow(c)'
  PROVE  FireInv'
<1>1. SimOK(sim) /\ StepOK /\ SimOK(sim') /\ StepOK'
  BY DEF KInv
<1>2. Conditions(sim) = {} => Conditions(sim') = {}
  BY SparesNone
<1> QED BY <1>1, <1>2, SpentCast, FireStays

LEMMA PlainStays ==
  ASSUME KInv, KInv', FireInv, Spent, Spares(sim, sim', {}), Hears({})
  PROVE  FireInv'
BY SparedStays

LEMMA HearsSame ==
  ASSUME step' = step, ghost' = ghost, NEW X
  PROVE  Hears(X)
BY SameCalls DEF Hears

LEMMA HearsTail ==
  ASSUME StepOK, step.rest # <<>>, step' = [step EXCEPT !.rest = Tail(@)],
         ghost.orphaned \subseteq ghost'.orphaned, NEW X,
         \A c : c \notin X => Head(step.rest) # Call("check", c)
  PROVE  Hears(X)
<1>1. /\ step'.task = step.task /\ step'.rest = Tail(step.rest) /\ step.rest \in Seq(CallType)
      /\ Range(Tail(step.rest)) \subseteq Range(step.rest)
  BY RestOfStep
<1>2. \A c : c \notin X => Same(Call("check", c), step.rest, step'.rest)
  BY <1>1, TailCall
<1> QED BY <1>1, <1>2 DEF Hears

\* No check is among the calls of this step.
Unchecked(calls) == \A call \in Range(calls) : call.do # "check"

LEMMA HearsNothing ==
  ASSUME ghost.orphaned \subseteq ghost'.orphaned, Unchecked(step'.rest),
         \A call \in Range(step'.rest) : call.do # "trigger",
         \A c : Call("check", c) \in Range(step.rest) => c \in ghost'.orphaned, NEW X
  PROVE  Hears(X)
<1>1. \A c : Call("check", c) \notin Range(step'.rest)
  BY DEF Unchecked, Call
<1> QED BY <1>1 DEF Hears

LEMMA CutHears ==
  ASSUME GhostOK, NEW s, NEW rest, NEW seen, NEW result, Cut(s, rest, seen, result),
         \A c : Call("check", c) \in Range(step.rest) => Call("check", c) \in Range(rest), NEW X
  PROVE  sim' = s /\ Spent /\ Hears(X)
<1>1. sim' = s /\ cast' = cast /\ step' = [task |-> NoTask, rest |-> <<>>]
  BY DEF Cut
<1>2. PICK missed : missed = {call.of : call \in {c \in Range(rest) : c.do = "check"}}
  OBVIOUS
<1>3. ghost'.orphaned = ghost.orphaned \cup missed
  <2>1. PICK stranded : stranded = ghost.stranded
          \cup ({call.of : call \in {c \in Range(rest) : c.do = "resume"}} \cup ({control} \cap Processes(s)))
    OBVIOUS
  <2>2. PICK heard : heard = ghost.heard \cup seen
    OBVIOUS
  <2>3. ghost' = [ghost EXCEPT !.stranded = ghost'.stranded, !.orphaned = ghost.orphaned \cup missed,
                               !.heard = heard]
    BY <1>2, <2>1, <2>2 DEF Cut
  <2> QED BY <2>3 DEF GhostOK
<1>4. ASSUME NEW c, Call("check", c) \in Range(step.rest) PROVE c \in missed
  <2>1. Call("check", c) \in Range(rest) /\ Call("check", c).do = "check" /\ Call("check", c).of = c
    BY <1>4 DEF Call
  <2> QED BY <1>2, <2>1
<1>5. Range(step'.rest) = {}
  BY <1>1 DEF Range
<1>6. Hears(X)
  BY <1>3, <1>4, <1>5, HearsNothing DEF Unchecked
<1> QED BY <1>1, <1>6 DEF Spent

\* User code calls something no condition notices.
LEMMA CallFires ==
  ASSUME KInv, KInv', FireInv, NEW call, May(call), NEW t, Calls(t), Spares(sim, t, {})
  PROVE  FireInv'
<1>1. sim' = t /\ step' = step /\ ghost' = ghost
  BY DEF Calls
<1>2. Spent
  BY DEF Calls, May, Spent
<1> QED BY <1>1, <1>2, HearsSame, PlainStays

LEMMA MakeEventFires == ASSUME KInv, KInv', FireInv, MakeEvent PROVE FireInv'
<1>1. SimOK(sim)
  BY DEF KInv
<1>2. PICK r : r = NewEvent("event")
  OBVIOUS
<1>3. /\ r \in EventType /\ r.type = "event" /\ ~ r.processed /\ r.callbacks = <<>>
      /\ r.target = None /\ r.members = <<>>
  BY <1>2, NewEventFits
<1>4. Range(r.members) \subseteq DOMAIN sim.events
  BY <1>3 DEF Range
<1>5. PICK t : t = Create(sim, r)
  OBVIOUS
<1>6. Spares(sim, t, {})
  BY <1>1, <1>3, <1>4, <1>5, SparesCreate
<1>7. May("event") /\ Calls(t)
  BY <1>2, <1>5 DEF MakeEvent
<1> QED BY <1>6, <1>7, CallFires

LEMMA MakeTimeoutFires == ASSUME KInv, KInv', FireInv, MakeTimeout PROVE FireInv'
<1>1. SimOK(sim)
  BY DEF KInv
<1>2. PICK d \in Delays :
        Calls(Schedule(Create(sim, [NewEvent("timeout") EXCEPT !.state = "ok"]),
                       Call("event", Fresh(sim)), NORMAL, d))
  BY DEF MakeTimeout
<1> DEFINE r == [NewEvent("timeout") EXCEPT !.state = "ok"]
<1>3. PICK u : u = Create(sim, r)
  OBVIOUS
<1>4. PICK t : t = Schedule(u, Call("event", Fresh(sim)), NORMAL, d)
  OBVIOUS
<1>5. NewEvent("timeout") \in EventType
  BY NewEventFits
<1>6. /\ r \in EventType /\ r.type = "timeout"
      /\ r.processed = NewEvent("timeout").processed
      /\ r.callbacks = NewEvent("timeout").callbacks
      /\ r.target = NewEvent("timeout").target
      /\ r.members = NewEvent("timeout").members
  BY <1>5, NewEventFits DEF EventType
<1>7. Calls(t)
  BY <1>2, <1>3, <1>4
<1> HIDE DEF r
<1>8. /\ ~ r.processed /\ r.callbacks = <<>> /\ r.target = None
      /\ Range(r.members) \subseteq DOMAIN sim.events
  BY <1>6, NewEventFits DEF Range
<1>9. Spares(sim, u, {}) /\ SimOK(u)
  BY <1>1, <1>3, <1>6, <1>8, SparesCreate, AddEvent
<1>10. Spares(u, t, {})
  BY <1>4, <1>9, SparesSchedule
<1>11. Spares(sim, t, {})
  BY <1>9, <1>10, SparesTrans
<1>12. May("timeout")
  BY DEF MakeTimeout
<1> QED BY <1>7, <1>11, <1>12, CallFires

LEMMA SpawnFires == ASSUME KInv, KInv', FireInv, Spawn PROVE FireInv'
<1>1. SimOK(sim)
  BY DEF KInv
<1>2. PICK r : r = NewEvent("process")
  OBVIOUS
<1>3. /\ r \in EventType /\ r.type = "process" /\ ~ r.processed /\ r.callbacks = <<>>
      /\ r.target = None /\ r.members = <<>>
  BY <1>2, NewEventFits
<1>4. Range(r.members) \subseteq DOMAIN sim.events
  BY <1>3 DEF Range
<1>5. PICK u : u = Create(sim, r)
  OBVIOUS
<1>6. PICK t : t = Schedule(u, Call("start", Fresh(sim)), URGENT, 0)
  OBVIOUS
<1>7. Spares(sim, u, {}) /\ SimOK(u)
  BY <1>1, <1>3, <1>4, <1>5, SparesCreate, AddEvent
<1>8. Spares(u, t, {})
  BY <1>6, <1>7, SparesSchedule
<1>9. Spares(sim, t, {})
  BY <1>7, <1>8, SparesTrans
<1>10. May("spawn") /\ Calls(t)
  BY <1>2, <1>5, <1>6 DEF Spawn, Spawned
<1> QED BY <1>9, <1>10, CallFires

LEMMA SucceedOrFailFires == ASSUME KInv, KInv', FireInv, SucceedOrFail PROVE FireInv'
<1>1. SimOK(sim)
  BY DEF KInv
<1>2. PICK e \in DOMAIN sim.events, state \in {"ok", "failed"} :
        May(state) /\ Pending(e) /\ Calls(Trigger(sim, e, state))
  BY DEF SucceedOrFail
<1>3. ~ sim.events[e].processed /\ e \notin Conditions(sim)
  BY <1>1, <1>2 DEF Pending, SimOK, EventOK, Conditions
<1>4. PICK t : t = Trigger(sim, e, state)
  OBVIOUS
<1>5. Spares(sim, t, {})
  BY <1>1, <1>3, <1>4, SparesTrigger
<1> QED BY <1>2, <1>4, <1>5, CallFires

LEMMA InterruptFires == ASSUME KInv, KInv', FireInv, Interrupt PROVE FireInv'
<1>1. SimOK(sim)
  BY DEF KInv
<1>2. PICK p \in Processes(sim) : Calls(Interrupted(sim, p))
  BY DEF Interrupt
<1>3. PICK t : t = Schedule(sim, Call("interrupt", p), URGENT, 0)
  OBVIOUS
<1>4. Spares(sim, t, {})
  BY <1>1, <1>3, SparesSchedule
<1>5. May("interrupt") /\ Calls(t)
  BY <1>2, <1>3 DEF Interrupt, Interrupted
<1> QED BY <1>4, <1>5, CallFires

\* Where there are conditions, events are not chained.
LEMMA TangledFires ==
  ASSUME FireInv, Spent, Conditions(sim) = {}, "condition" \notin cast.menu,
         DOMAIN sim'.events = DOMAIN sim.events,
         \A e \in DOMAIN sim.events : sim'.events[e].type = sim.events[e].type
  PROVE  FireInv'
<1>1. Conditions(sim') = {}
  BY DEF Conditions
<1> QED BY <1>1, SpentCast DEF FireInv, CondInv, Untangled

LEMMA ChainFires == ASSUME KInv, FireInv, Chain PROVE FireInv'
<1>1. SimOK(sim)
  BY DEF KInv
<1>2. PICK e \in DOMAIN sim.events, f \in DOMAIN sim.events :
        /\ ~ sim.events[e].processed /\ Pending(f) /\ e # f
        /\ Calls(Hook(sim, e, Call("trigger", f)))
  BY DEF Chain
<1>3. PICK call : call = Call("trigger", f)
  OBVIOUS
<1>4. call \in CallType /\ CallOK(sim, e, call)
  BY <1>1, <1>2, <1>3, SimFields DEF Call, CallType, CallOK, Pending, SimOK
<1>5. PICK t : t = Hook(sim, e, call)
  OBVIOUS
<1>6. Only(sim, t, e) /\ Likewise(sim.events[e], t.events[e])
  BY <1>1, <1>2, <1>4, <1>5, HookSim
<1>7. May("chain") /\ Calls(t)
  BY <1>2, <1>3, <1>5 DEF Chain
<1>8. sim' = t /\ Spent
  BY <1>7 DEF Calls, May, Spent
<1>9. Conditions(sim) = {} /\ "condition" \notin cast.menu
  BY <1>7 DEF FireInv, Untangled, May
<1>10. DOMAIN t.events = DOMAIN sim.events
       /\ \A d \in DOMAIN sim.events : t.events[d].type = sim.events[d].type
  BY <1>6 DEF Only, Likewise
<1> QED BY <1>8, <1>9, <1>10, TangledFires

LEMMA RunTriggerFires == ASSUME KInv, FireInv, RunTrigger PROVE FireInv'
<1>1. Turn("trigger") /\ Done(Trigger(sim, Callee, sim.events[step.task.of].state))
  BY DEF RunTrigger
<1>2. /\ SimOK(sim) /\ CallOK(sim, step.task.of, Head(step.rest))
      /\ step.task.of \in DOMAIN sim.events /\ sim.events[step.task.of].processed
  BY <1>1, CalleeOK
<1>3. Callee \in DOMAIN sim.events
  BY <1>1, <1>2 DEF CallOK, Turn, Callee
<1>4. sim.events[step.task.of].state \in {"ok", "failed"}
  <2>1. sim.events[step.task.of] \in EventType
    BY <1>2, SimFields DEF SimOK
  <2>2. sim.events[step.task.of].state # "pending"
    BY <1>2 DEF SimOK, EventOK
  <2> QED BY <2>1, <2>2 DEF EventType
<1>5. PICK t : t = Trigger(sim, Callee, sim.events[step.task.of].state)
  OBVIOUS
<1>6. PICK f \in DOMAIN sim.events, state \in {"ok", "failed"} : t = Trigger(sim, f, state)
  BY <1>3, <1>4, <1>5
<1>7. sim' = t /\ Spent
  BY <1>1, <1>5 DEF Done, Spent
<1>8. Head(step.rest) \in Range(step.rest) /\ Head(step.rest).do = "trigger"
  BY <1>1, RestOfStep DEF Turn, KInv
<1>9. Conditions(sim) = {} /\ "condition" \notin cast.menu
  BY <1>8 DEF FireInv, Untangled, NoTriggers
<1>10. DOMAIN t.events = DOMAIN sim.events
       /\ \A d \in DOMAIN sim.events : t.events[d].type = sim.events[d].type
  <2>1. /\ DOMAIN t.events = DOMAIN sim.events /\ t.events[f].type = sim.events[f].type
        /\ \A d \in DOMAIN sim.events \ {f} : t.events[d] = sim.events[d]
    BY ONLY <1>2, <1>6, TriggerSim
  <2> QED BY <2>1
<1> QED BY <1>7, <1>9, <1>10, TangledFires

LEMMA YieldWrongFires == ASSUME KInv, KInv', FireInv, YieldWrong PROVE FireInv'
<1>1. Cut(sim, step.rest, {}, "raised") /\ GhostOK
  BY DEF YieldWrong, KInv
<1>2. sim' = sim /\ Spent /\ Hears({})
  BY <1>1, CutHears
<1> QED BY <1>2, SparesSame, PlainStays

LEMMA EndFires == ASSUME KInv, KInv', FireInv, End PROVE FireInv'
<1>1. SimOK(sim) /\ WakeInv
  BY DEF KInv
<1>2. PICK p : p = control
  OBVIOUS
<1>3. PICK state \in {"ok", "failed"} : p \in Processes(sim) /\ sim' = Ended(sim, p, state)
  BY <1>2 DEF End
<1>4. UNCHANGED <<step, cast, ghost>>
  BY DEF End
<1>5. PICK a : a = Aimed(sim, p, None)
  OBVIOUS
<1>6. PICK b : b = [a EXCEPT !.active = None]
  OBVIOUS
<1>7. sim' = Trigger(b, p, state)
  <2>1. b = [sim EXCEPT !.events[p].target = None, !.active = None]
    BY <1>5, <1>6 DEF Aimed
  <2> QED BY <1>3, <2>1 DEF Ended
<1>8. p \in DOMAIN sim.events /\ sim.events[p].type = "process" /\ ~ sim.events[p].processed
  <2>1. sim.events[p].state = "pending" /\ p \in DOMAIN sim.events
    BY <1>1, <1>2, <1>3 DEF WakeInv, Alive, Processes
  <2> QED BY <1>1, <1>3, <2>1 DEF SimOK, EventOK, Processes
<1>9. SimOK(a) /\ Only(sim, a, p) /\ Likewise(sim.events[p], a.events[p])
  BY <1>1, <1>5, <1>8, TargetSim
<1>10. SimOK(b) /\ b.events = a.events
  BY <1>6, <1>9, ActiveSim
<1>11. Spares(sim, a, {}) /\ Spares(a, b, {})
  BY <1>1, <1>5, <1>8, <1>10, SparesTarget, SparesSame
<1>12. p \in DOMAIN b.events /\ p \notin Conditions(b) /\ ~ b.events[p].processed
  BY <1>8, <1>9, <1>10 DEF Only, Likewise, Conditions
<1>13. PICK t : t = sim'
  OBVIOUS
<1>14. Spares(b, t, {})
  BY <1>7, <1>10, <1>12, <1>13, SparesTrigger
<1>15. Spares(sim, t, {})
  BY <1>11, <1>14, SparesTrans
<1> QED BY <1>4, <1>13, <1>15, HearsSame, PlainStays DEF Spent

LEMMA YieldFires == ASSUME KInv, KInv', FireInv, Yield PROVE FireInv'
<1>1. SimOK(sim)
  BY DEF KInv
<1>2. PICK e \in DOMAIN sim.events : YieldOn(e)
  BY DEF Yield
<1>3. PICK p : p = control
  OBVIOUS
<1>4. p \in Processes(sim) /\ p \in DOMAIN sim.events /\ p \in Nat
  BY <1>1, <1>2, <1>3, SimFields DEF YieldOn, Processes, SimOK
<1>5. PICK s : s = Aimed(sim, p, e)
  OBVIOUS
<1>6. /\ SimOK(s) /\ Spares(sim, s, {}) /\ e \in DOMAIN s.events
      /\ s.events[e].processed = sim.events[e].processed /\ p \in Processes(s)
  <2>1. SimOK(s) /\ Only(sim, s, p) /\ Likewise(sim.events[p], s.events[p])
    BY <1>1, <1>4, <1>5, TargetSim
  <2>2. Spares(sim, s, {})
    BY <1>1, <1>4, <1>5, SparesTarget
  <2> QED BY <1>4, <2>1, <2>2 DEF Only, Likewise, Processes
<1>7. PICK t : t = sim'
  OBVIOUS
<1>8. CASE sim.events[e].processed
  <2>1. t = Sent(s, e) /\ UNCHANGED <<step, cast>>
        /\ ghost' = IF Failed(sim, e) THEN Heard(e) ELSE ghost
    BY <1>2, <1>3, <1>5, <1>7, <1>8 DEF YieldOn, Aimed
  <2>2. Spares(s, t, {})
    BY <1>6, <2>1, SparesSent
  <2>3. Spares(sim, t, {})
    BY <1>6, <2>2, SparesTrans
  <2>4. ghost'.orphaned = ghost.orphaned
    <3>1. GhostOK
      BY DEF KInv
    <3>2. PICK heard : heard = ghost.heard \cup {e}
      OBVIOUS
    <3>3. ghost' \in {ghost, [ghost EXCEPT !.heard = heard]}
      BY <2>1, <3>2 DEF Heard
    <3> QED BY <3>1, <3>3 DEF GhostOK
  <2>5. Hears({})
    BY <2>1, <2>4, SameCalls DEF Hears
  <2> QED BY <1>7, <2>1, <2>3, <2>5, PlainStays DEF Spent
<1>9. CASE ~ sim.events[e].processed
  <2>1. PICK call : call = Call("resume", p)
    OBVIOUS
  <2>2. PICK u : u = Hook(s, e, call)
    OBVIOUS
  <2>3. t = [u EXCEPT !.active = None] /\ UNCHANGED <<step, cast, ghost>>
    BY <1>2, <1>3, <1>5, <1>7, <1>9, <2>1, <2>2 DEF YieldOn, Aimed
  <2>4. call \in CallType /\ CallOK(s, e, call) /\ call.do = "resume"
    BY <1>4, <1>6, <2>1 DEF Call, CallType, CallOK
  <2>5. SimOK(u) /\ Spares(s, u, {})
    BY <1>6, <1>9, <2>2, <2>4, HookSim, SparesHook
  <2>6. t.events = u.events
    BY <2>3, <2>5, ActiveSim
  <2>7. Spares(u, t, {})
    BY <2>6, SparesSame
  <2>8. Spares(sim, t, {})
    BY <1>6, <2>5, <2>7, SparesTrans
  <2> QED BY <1>7, <2>3, <2>8, HearsSame, PlainStays DEF Spent
<1> QED BY <1>8, <1>9

\* run() begins.
LEMMA StartRunFires ==
  ASSUME KInv, KInv', FireInv, NEW s, NEW until, NEW at, StartRun(s, until, at), Spares(sim, s, {})
  PROVE  FireInv'
<1>1. sim' = s /\ step' = step /\ ghost' = ghost
  BY DEF StartRun
<1>2. Spent
  BY DEF StartRun, Spent
<1> QED BY <1>1, <1>2, HearsSame, PlainStays

LEMMA RunToFires == ASSUME KInv, KInv', FireInv, RunToEnd \/ RunToTime \/ RunToEvent PROVE FireInv'
<1>1. SimOK(sim)
  BY DEF KInv
<1>2. CASE RunToEnd
  BY <1>2, SparesSame, StartRunFires DEF RunToEnd
<1>3. CASE RunToTime
  <2>1. PICK d, at : StartRun(Schedule(sim, StopCall, URGENT, d), None, at)
    BY <1>3 DEF RunToTime, StopCall
  <2>2. PICK t : t = Schedule(sim, StopCall, URGENT, d)
    OBVIOUS
  <2>3. Spares(sim, t, {})
    BY <1>1, <2>2, SparesSchedule
  <2> QED BY <2>1, <2>2, <2>3, StartRunFires
<1>4. CASE RunToEvent
  <2>1. PICK e \in DOMAIN sim.events :
          ~ sim.events[e].processed /\ StartRun(Hook(sim, e, StopCall), e, 0)
    BY <1>4 DEF RunToEvent, StopCall
  <2>2. StopCall \in CallType /\ CallOK(sim, e, StopCall) /\ StopCall.do = "stop"
    BY DEF StopCall, Call, CallType, None, CallOK
  <2>3. PICK t : t = Hook(sim, e, StopCall)
    OBVIOUS
  <2>4. Spares(sim, t, {})
    BY <1>1, <2>1, <2>2, <2>3, SparesHook
  <2> QED BY <2>1, <2>3, <2>4, StartRunFires
<1> QED BY <1>2, <1>3, <1>4

\* A step ends, or nothing is left.
LEMMA EmptyHears ==
  ASSUME step.rest = <<>>, step'.rest = <<>>, ghost' = ghost, NEW X
  PROVE  Hears(X)
<1>1. Range(step.rest) = {} /\ Range(step'.rest) = {}
  BY DEF Range
<1> QED BY <1>1, HearsNothing DEF Unchecked

LEMMA FinishStepFires == ASSUME KInv, KInv', FireInv, FinishStep PROVE FireInv'
<1>1. GhostOK /\ step.rest = <<>>
  BY DEF KInv, FinishStep
<1>2. Range(step.rest) = {}
  BY <1>1 DEF Range
<1>3. CASE Cut(sim, <<>>, {step.task.of}, "raised")
  <2>1. sim' = sim /\ Spent /\ Hears({})
    BY <1>1, <1>2, <1>3, CutHears
  <2> QED BY <2>1, SparesSame, PlainStays
<1>4. CASE step' = [task |-> NoTask, rest |-> <<>>] /\ UNCHANGED <<sim, cast, ghost>>
  <2>1. Hears({})
    BY <1>1, <1>4, EmptyHears
  <2> QED BY <1>4, <2>1, SparesSame, PlainStays DEF Spent
<1> QED BY <1>3, <1>4 DEF FinishStep

LEMMA RunEmptyFires == ASSUME KInv, KInv', FireInv, RunEmpty PROVE FireInv'
<1>1. UNCHANGED <<sim, step, cast, ghost>>
  BY DEF RunEmpty
<1> QED BY <1>1, SparesSame, HearsSame, PlainStays DEF Spent

LEMMA PopTaskFires ==
  ASSUME KInv, KInv', FireInv, NEW i \in DOMAIN sim.queue, PopTask(i)
  PROVE  FireInv'
<1>1. SimOK(sim) /\ StepOK
  BY DEF KInv
<1>2. PICK task : task = sim.queue[i].task
  OBVIOUS
<1>3. PICK call : call = IF task.do = "start" THEN Call("resume", task.of) ELSE task
  OBVIOUS
<1>4. /\ IsNext(sim.queue, i) /\ task.do # "event" /\ sim' = Popped(sim, i)
      /\ step'.rest = <<call>> /\ step.task = NoTask /\ UNCHANGED <<cast, ghost>>
  BY <1>2, <1>3 DEF PopTask, Idle
<1>5. sim'.events = sim.events
  BY <1>1, <1>4, PoppedSim
<1>6. call.do \notin {"check", "trigger"}
  <2>1. EntryOK(sim, sim.queue[i])
    BY <1>1 DEF SimOK
  <2>2. task.do \in {"start", "interrupt", "stop"}
    BY <1>2, <1>4, <2>1 DEF EntryOK
  <2> QED BY <1>3, <2>2 DEF Call
<1>7. Range(step.rest) = {}
  BY <1>1, <1>4, NothingLeft
<1>8. \A x \in Range(step'.rest) : x = call
  BY <1>4 DEF Range
<1>9. Hears({})
  BY <1>4, <1>6, <1>7, <1>8, HearsNothing DEF Unchecked
<1>10. Spares(sim, sim', {})
  BY <1>5, SparesSame
<1> QED BY <1>4, <1>9, <1>10, PlainStays DEF Spent

LEMMA PopAgainFires ==
  ASSUME KInv, KInv', FireInv, NEW i \in DOMAIN sim.queue, PopAgain(i)
  PROVE  FireInv'
<1>1. SimOK(sim) /\ StepOK /\ GhostOK
  BY DEF KInv
<1>2. PICK t : t = Popped(sim, i)
  OBVIOUS
<1>3. /\ IsNext(sim.queue, i) /\ Cut(t, <<>>, {sim.queue[i].task.of}, "raised") /\ step.task = NoTask
  BY <1>2 DEF PopAgain, Idle
<1>4. Range(step.rest) = {}
  BY <1>1, <1>3, NothingLeft
<1>5. sim' = t /\ Spent /\ Hears({})
  BY <1>1, <1>3, <1>4, CutHears
<1>6. t.events = sim.events
  BY <1>1, <1>2, <1>3, PoppedSim
<1> QED BY <1>5, <1>6, SparesSame, PlainStays

\* A process gets control.
LEMMA EnterFires ==
  ASSUME KInv, KInv', FireInv, step.rest # <<>>, Head(step.rest).do # "check",
         NEW s, SimOK(s), Spares(sim, s, {}), NEW p \in Processes(s), NEW heard,
         Enter(s, p, heard), heard = ghost \/ \E e : heard = Heard(e)
  PROVE  FireInv'
<1>1. StepOK /\ GhostOK
  BY DEF KInv
<1>2. sim' = [s EXCEPT !.active = p] /\ step' = [step EXCEPT !.rest = Tail(@)] /\ cast' = cast
      /\ ghost' = [heard EXCEPT !.stranded = @ \ {p}]
  BY DEF Enter
<1>3. PICK t : t = sim'
  OBVIOUS
<1>4. t.events = s.events
  BY <1>2, <1>3, ActiveSim
<1>5. Spares(s, t, {})
  BY <1>4, SparesSame
<1>6. Spares(sim, t, {})
  BY <1>5, SparesTrans
<1>7. ghost'.orphaned = ghost.orphaned
  BY <1>1, <1>2 DEF Heard, GhostOK
<1>8. Hears({})
  <2>1. \A c : Head(step.rest) # Call("check", c)
    BY DEF Call
  <2> QED BY <1>1, <1>2, <1>7, <2>1, HearsTail
<1> QED BY <1>2, <1>3, <1>6, <1>8, PlainStays DEF Spent

LEMMA ResumeFires == ASSUME KInv, KInv', FireInv, Resume PROVE FireInv'
<1>1. SimOK(sim) /\ StepOK
  BY DEF KInv
<1>2. Turn("resume") /\ step.rest # <<>> /\ Head(step.rest).do = "resume"
  BY DEF Resume, Turn
<1>3. PICK p : p = Callee
  OBVIOUS
<1>4. p \in Processes(sim)
  <2>1. step.rest \in Seq(CallType) /\ Head(step.rest) \in Range(step.rest) /\ Head(step.rest) \in CallType
    BY <1>1, <1>2, RestOfStep
  <2>2. Head(step.rest) = Call("resume", p)
    BY <1>2, <1>3, <2>1 DEF CallType, Call, Callee
  <2>3. InStep(p) # {}
    BY <2>1, <2>2, OccurrencesOfCalls DEF InStep
  <2> QED BY <1>1, <2>3, ResumesInStep
<1>5. CASE step.task.do = "event" /\ Failed(sim, step.task.of)
  <2>1. PICK e : e = step.task.of
    OBVIOUS
  <2>2. e \in DOMAIN sim.events
    BY <1>1, <1>5, <2>1, CallsOfStep
  <2>3. PICK s : s = Sent(sim, e)
    OBVIOUS
  <2>4. SimOK(s) /\ Spares(sim, s, {})
    BY <1>1, <2>2, <2>3, SentSim, SparesSent
  <2>5. p \in Processes(s)
    BY <1>4, <2>4, SparesKeeps DEF Processes
  <2>6. Enter(s, p, Heard(e))
    BY <1>3, <1>5, <2>1, <2>3 DEF Resume
  <2> QED BY <1>2, <2>4, <2>5, <2>6, EnterFires
<1>6. CASE ~ (step.task.do = "event" /\ Failed(sim, step.task.of))
  <2>1. Enter(sim, p, ghost)
    BY <1>3, <1>6 DEF Resume
  <2>2. Spares(sim, sim, {})
    BY SparesSame
  <2> QED BY <1>1, <1>2, <1>4, <2>1, <2>2, EnterFires
<1> QED BY <1>5, <1>6

LEMMA DeliverInterruptFires == ASSUME KInv, KInv', FireInv, DeliverInterrupt PROVE FireInv'
<1>1. SimOK(sim) /\ StepOK /\ GhostOK
  BY DEF KInv
<1>2. Turn("interrupt") /\ step.rest # <<>> /\ Head(step.rest).do = "interrupt"
  BY DEF DeliverInterrupt, DeliverInterruptTo, Turn
<1>3. PICK p : p = Callee
  OBVIOUS
<1>4. p \in Processes(sim) /\ step.rest = <<step.task>> /\ step.task = Call("interrupt", p)
  BY <1>2, <1>3, InterruptStep
<1>5. Spares(sim, sim, {})
  BY SparesSame
<1>6. CASE Done(sim)
  <2>1. /\ sim' = sim /\ step' = [step EXCEPT !.rest = Tail(@)] /\ cast' = cast /\ ghost' = ghost
    BY <1>6 DEF Done
  <2>2. Hears({})
    <3>1. \A c : Head(step.rest) # Call("check", c)
      BY <1>2 DEF Call
    <3> QED BY <1>1, <1>2, <2>1, <3>1, HearsTail
  <2> QED BY <1>5, <2>1, <2>2, PlainStays DEF Spent
<1>7. CASE Enter(sim, p, ghost)
  BY <1>1, <1>2, <1>4, <1>5, <1>7, EnterFires
<1>8. CASE sim.events[p].target # None /\ Enter(Unhooked(sim, p), p, ghost)
  <2>1. PICK s : s = Unhooked(sim, p)
    OBVIOUS
  <2>2. Spares(sim, s, {})
    BY <1>1, <1>4, <1>8, <2>1, SparesUnhooked
  <2>3. SimOK(s)
    <3>1. Aside(sim, s, {})
      BY <1>1, <1>4, <1>8, <2>1, UnhookedAside
    <3> QED BY <3>1, AsideKeeps
  <2>4. p \in Processes(s)
    BY <1>4, <2>2, SparesKeeps DEF Processes
  <2> QED BY <1>2, <1>8, <2>1, <2>2, <2>3, <2>4, EnterFires
<1>9. CASE Cut(sim, <<>>, {}, "raised")
  <2>1. \A c : Call("check", c) \notin Range(step.rest)
    BY <1>4 DEF Range, Call
  <2>2. sim' = sim /\ Spent /\ Hears({})
    BY <1>1, <1>9, <2>1, CutHears
  <2> QED BY <1>5, <2>2, PlainStays
<1>10. \/ Done(sim) \/ Enter(sim, p, ghost)
       \/ sim.events[p].target # None /\ Enter(Unhooked(sim, p), p, ghost)
       \/ Cut(sim, <<>>, {}, "raised")
  BY <1>3 DEF DeliverInterrupt, DeliverInterruptTo
<1> QED BY <1>6, <1>7, <1>8, <1>9, <1>10

LEMMA RunStopFires == ASSUME KInv, KInv', FireInv, RunStop PROVE FireInv'
<1>1. SimOK(sim) /\ StepOK /\ GhostOK
  BY DEF KInv
<1>2. step.rest # <<>> /\ Head(step.rest).do = "stop"
  BY DEF RunStop, Turn
<1>3. PICK seen, result : Cut(sim, Tail(step.rest), seen, result)
  BY DEF RunStop
<1>4. \A c : Call("check", c) \in Range(step.rest) => Call("check", c) \in Range(Tail(step.rest))
  <2>1. \A c : Head(step.rest) # Call("check", c)
    BY <1>2 DEF Call
  <2>2. \A c : Same(Call("check", c), step.rest, Tail(step.rest))
    BY <1>1, <1>2, <2>1, TailCall, RestOfStep
  <2> QED BY <2>2 DEF Same
<1>5. sim' = sim /\ Spent /\ Hears({})
  BY <1>1, <1>3, <1>4, CutHears
<1> QED BY <1>5, SparesSame, PlainStays

-----------------------------------------------------------------------------
(* Actions preserve the invariant: those of the conditions. *)

\* Only the conditions there are can be told.
LEMMA ToldInStep ==
  ASSUME StepOK, NEW c, Call("check", c) \in Range(step.rest)
  PROVE  /\ step.task.do = "event" /\ step.task.of \in DOMAIN sim.events
         /\ c \in Conditions(sim) /\ step.task.of \in Range(sim.events[c].members)
         /\ sim.events[step.task.of].processed
<1>1. PICK call : call = Call("check", c)
  OBVIOUS
<1>2. call.do = "check" /\ call.of = c /\ call \in Range(step.rest)
  BY <1>1 DEF Call
<1>3. ASSUME NEW x, step.rest \in {<<>>, <<x>>} PROVE x = call
  BY <1>2, <1>3 DEF Range
<1>4. step.task.do = "event"
  <2>1. CASE step.task.do = "start"
    <3>1. step.rest \in {<<>>, <<Call("resume", step.task.of)>>}
      BY <2>1 DEF StepOK, NoTask, Call
    <3>2. Call("resume", step.task.of) = call
      BY <1>3, <3>1
    <3> QED BY <1>2, <3>2 DEF Call
  <2>2. CASE step.task.do = "interrupt"
    <3>1. step.rest \in {<<>>, <<step.task>>}
      BY <2>2 DEF StepOK, NoTask, Call
    <3>2. step.task = call
      BY <1>3, <3>1
    <3> QED BY <1>2, <2>2, <3>2
  <2>3. CASE step.task = Call("stop", None)
    <3>1. step.rest \in {<<>>, <<step.task>>}
      BY <2>3 DEF StepOK, NoTask, Call
    <3>2. step.task = call
      BY <1>3, <3>1
    <3> QED BY <1>2, <2>3, <3>2 DEF Call
  <2>4. CASE step.task = NoTask
    BY <1>2, <2>4, NothingLeft
  <2> QED BY <2>1, <2>2, <2>3, <2>4 DEF StepOK
<1>5. /\ step.task.of \in DOMAIN sim.events /\ sim.events[step.task.of].processed
      /\ CallOK(sim, step.task.of, call)
  BY <1>2, <1>4, CallsOfStep
<1> QED BY <1>2, <1>4, <1>5 DEF CallOK

LEMMA MakeConditionFires == ASSUME KInv, KInv', FireInv, MakeCondition PROVE FireInv'
<1>1. SimOK(sim) /\ StepOK /\ SimOK(sim') /\ StepOK'
  BY DEF KInv
<1>2. PICK type \in {"all", "any"} :
        \/ Calls(Combine(sim, type, <<>>))
        \/ \E d, e \in DOMAIN sim.events : d < e /\ Calls(Combine(sim, type, <<d, e>>))
  BY DEF MakeCondition
<1>3. PICK members \in Seq(DOMAIN sim.events) : IsInjective(members) /\ Calls(Combine(sim, type, members))
  <2>1. CASE Calls(Combine(sim, type, <<>>))
    <3>1. <<>> \in Seq(DOMAIN sim.events) /\ IsInjective(<<>>)
      BY DEF IsInjective
    <3> QED BY <2>1, <3>1
  <2>2. CASE \E d, e \in DOMAIN sim.events : d < e /\ Calls(Combine(sim, type, <<d, e>>))
    <3>1. PICK d \in DOMAIN sim.events, e \in DOMAIN sim.events : d < e /\ Calls(Combine(sim, type, <<d, e>>))
      BY <2>2
    <3>2. d # e
      <4>1. DOMAIN sim.events \subseteq Nat
        BY <1>1, SimFields DEF SimOK
      <4> QED BY <3>1, <4>1
    <3>3. <<d, e>> \in Seq(DOMAIN sim.events)
      BY PairOf
    <3>4. IsInjective(<<d, e>>)
      BY <3>2 DEF IsInjective
    <3> QED BY <3>1, <3>3, <3>4
  <2> QED BY <1>2, <2>1, <2>2
<1>4. PICK c : c = Fresh(sim)
  OBVIOUS
<1>5. PICK t : t = Combine(sim, type, members)
  OBVIOUS
<1>6. /\ Spares(sim, t, {c}) /\ c \notin DOMAIN sim.events
      /\ c \in Conditions(t) /\ CondOK(t, c, {}, FALSE)
  BY <1>1, <1>3, <1>4, <1>5, SparesCombine
<1>7. sim' = t /\ step' = step /\ ghost' = ghost
  BY <1>3, <1>5 DEF Calls
<1>8. Spent /\ "condition" \in cast.menu
  BY <1>3 DEF Calls, MakeCondition, May, Spent
<1>9. Call("check", c) \notin Range(step.rest)
  BY <1>1, <1>6, ToldInStep DEF Conditions
<1>10. CondNow(c)'
  <2>1. Busy(c)' = {}
    BY <1>7, <1>9 DEF Busy
  <2>2. step.rest \in Seq(CallType)
    BY <1>1 DEF StepOK
  <2>3. AtMostOnce(Occurrences(Call("check", c), step'.rest))
    BY <1>7, <1>9, <2>2, OccurrencesOfCalls DEF AtMostOnce
  <2>4. PICK after \in BOOLEAN : after = (c \in ghost'.orphaned)
    BY (c \in ghost'.orphaned) \in BOOLEAN, Zenon
  <2>5. PICK before \in BOOLEAN : before = FALSE
    OBVIOUS
  <2>6. CondOK(t, c, {}, before) /\ SimOK(t)
    BY <1>1, <1>6, <1>7, <2>5
  <2>7. CondOK(t, c, {}, after)
    BY <1>6, <2>5, <2>6, CondWeaken
  <2> QED BY <1>7, <2>1, <2>3, <2>4, <2>7 DEF CondNow
<1>11. Hears({c})
  BY <1>7, HearsSame
<1> QED BY <1>1, <1>6, <1>7, <1>8, <1>10, <1>11, SpentCast, FireStays

LEMMA RunCheckFires == ASSUME KInv, KInv', FireInv, RunCheck PROVE FireInv'
<1>1. SimOK(sim) /\ StepOK
  BY DEF KInv
<1>2. PICK c : c = Callee
  OBVIOUS
<1>3. PICK e : e = step.task.of
  OBVIOUS
<1>4. PICK t : t = Check(sim, c, e)
  OBVIOUS
<1>5. /\ sim' = t /\ step' = [step EXCEPT !.rest = Tail(@)] /\ cast' = cast /\ ghost' = ghost
      /\ step.rest # <<>> /\ Head(step.rest).do = "check"
  BY <1>2, <1>3, <1>4 DEF RunCheck, Done, Turn
<1>6. /\ step.rest \in Seq(CallType) /\ Head(step.rest) \in Range(step.rest) /\ Head(step.rest) \in CallType
      /\ step'.rest = Tail(step.rest) /\ step'.task = step.task
  BY <1>1, <1>5, RestOfStep
<1>7. Head(step.rest) = Call("check", c)
  BY <1>2, <1>5, <1>6 DEF CallType, Call, Callee
<1>8. /\ step.task.do = "event" /\ e \in DOMAIN sim.events /\ sim.events[e].processed
      /\ c \in Conditions(sim) /\ e \in Range(sim.events[c].members)
  BY <1>1, <1>3, <1>6, <1>7, ToldInStep
<1>9. CondOK(sim, c, Busy(c), c \in ghost.orphaned) /\ AtMostOnce(Occurrences(Call("check", c), step.rest))
  BY <1>8 DEF FireInv, CondInv
<1>10. Busy(c) = {e}
  BY <1>3, <1>6, <1>7, <1>8 DEF Busy
<1>11. PICK orphaned \in BOOLEAN : orphaned = (c \in ghost.orphaned)
  BY (c \in ghost.orphaned) \in BOOLEAN, Zenon
<1>12. PICK todo : todo = {e}
  OBVIOUS
<1>13. CondOK(sim, c, todo, orphaned) /\ e \in todo
  BY <1>9, <1>10, <1>11, <1>12
<1>14. Spares(sim, t, {c}) /\ CondOK(t, c, todo \ {e}, orphaned)
  BY <1>1, <1>4, <1>8, <1>13, CheckOwn
<1>15. CondOK(t, c, {}, orphaned)
  <2>1. todo \ {e} = {}
    BY <1>12
  <2> QED BY <1>14, <2>1
<1>16. Occurrences(Call("check", c), step'.rest) = {}
  <2>1. Single(Occurrences(Call("check", c), step.rest))
    <3>1. Occurrences(Call("check", c), step.rest) # {}
      BY <1>6, <1>7, OccurrencesOfCalls
    <3> QED BY <1>9, <3>1 DEF AtMostOnce
  <2> QED BY <1>5, <1>6, <1>7, <2>1, TailCall
<1>17. Busy(c)' = {}
  <2>1. step'.rest \in Seq(CallType)
    BY DEF KInv, StepOK
  <2>2. Call("check", c) \notin Range(step'.rest)
    BY <1>16, <2>1, OccurrencesOfCalls
  <2> QED BY <2>2 DEF Busy
<1>18. CondNow(c)'
  BY <1>5, <1>11, <1>15, <1>16, <1>17 DEF CondNow, AtMostOnce
<1>19. Hears({c})
  <2>1. \A d : d \notin {c} => Head(step.rest) # Call("check", d)
    BY <1>7 DEF Call
  <2> QED BY <1>1, <1>5, <2>1, HearsTail
<1>20. c \in DOMAIN sim.events
  BY <1>8 DEF Conditions
<1> QED BY <1>5, <1>14, <1>18, <1>19, <1>20, SparedStays DEF Spent

LEMMA RunBuildFires == ASSUME KInv, KInv', FireInv, RunBuild PROVE FireInv'
<1>1. SimOK(sim) /\ StepOK /\ GhostOK
  BY DEF KInv
<1>2. PICK c : c = Callee
  OBVIOUS
<1>3. PICK X : X = Nested(sim, c)
  OBVIOUS
<1>4. PICK t : t = RemoveChecks(sim, c)
  OBVIOUS
<1>5. /\ sim' = t /\ step' = [step EXCEPT !.rest = Tail(@)] /\ cast' = cast
      /\ ghost' = [ghost EXCEPT !.orphaned = @ \cup (X \ {c})]
      /\ Turn("build") /\ step.rest # <<>> /\ Head(step.rest).do = "build"
  BY <1>2, <1>3, <1>4 DEF RunBuild, Turn
<1>6. ghost'.orphaned = ghost.orphaned \cup (X \ {c})
  BY <1>1, <1>5 DEF GhostOK
<1>7. sim.events[c].processed /\ c \in DOMAIN sim.events /\ sim.events[c].state # "pending"
  <2>1. /\ CallOK(sim, step.task.of, Head(step.rest))
        /\ step.task.of \in DOMAIN sim.events /\ sim.events[step.task.of].processed
    BY <1>5, CalleeOK
  <2>2. c = step.task.of
    BY <1>2, <1>5, <2>1 DEF CallOK, Callee
  <2> QED BY <1>1, <2>1, <2>2 DEF SimOK, EventOK
<1>8. Spares(sim, t, X) /\ DOMAIN t.events = DOMAIN sim.events
  BY <1>1, <1>3, <1>4, SparesRemoveChecks, RemovedChecks
<1>9. \A d : Head(step.rest) # Call("check", d)
  BY <1>5 DEF Call
<1>10. Hears(X) /\ Hears({})
  BY <1>1, <1>5, <1>6, <1>9, HearsTail
<1>11. ASSUME NEW d \in X \cap Conditions(t) PROVE CondNow(d)'
  <2>1. d \in Conditions(sim)
    BY <1>8 DEF Conditions, Spares, Unmoved
  <2>2. CondOK(sim, d, Busy(d), d \in ghost.orphaned) /\ AtMostOnce(Occurrences(Call("check", d), step.rest))
    BY <2>1 DEF FireInv, CondInv
  <2>3. step'.task = step.task /\ step'.rest = Tail(step.rest) /\ Same(Call("check", d), step.rest, Tail(step.rest))
    BY <1>1, <1>5, <1>9, RestOfStep, TailCall
  <2>4. Busy(d)' = Busy(d)
    <3>1. Call("check", d) \in Range(step'.rest) <=> Call("check", d) \in Range(step.rest)
      <4>1. Range(Tail(step.rest)) \subseteq Range(step.rest)
        BY <1>1, <1>5, RestOfStep
      <4> QED BY <2>3, <4>1 DEF Same
    <3> QED BY <2>3, <3>1 DEF Busy
  <2>5. AtMostOnce(Occurrences(Call("check", d), step'.rest))
    BY <2>2, <2>3 DEF Same, AtMostOnce
  <2>6. PICK before \in BOOLEAN : before = (d \in ghost.orphaned)
    BY (d \in ghost.orphaned) \in BOOLEAN, Zenon
  <2>7. PICK after \in BOOLEAN : after = (d \in ghost'.orphaned)
    BY (d \in ghost'.orphaned) \in BOOLEAN, Zenon
  <2>8. PICK todo : todo = Busy(d)
    OBVIOUS
  <2>9. CondOK(sim, d, todo, before)
    BY <2>2, <2>6, <2>8
  <2>10. (before => after) /\ (after \/ sim.events[d].state # "pending")
    BY <1>6, <1>7, <1>11, <2>6, <2>7
  <2>11. CondOK(t, d, todo, after)
    BY <1>1, <1>3, <1>4, <1>11, <2>1, <2>9, <2>10, LosesChecks
  <2> QED BY <1>5, <2>4, <2>5, <2>7, <2>8, <2>11 DEF CondNow
<1>12. X \cap DOMAIN sim'.events \subseteq DOMAIN sim.events
  BY <1>5, <1>8
<1> QED BY <1>5, <1>8, <1>10, <1>11, <1>12, SparedStays DEF Spent

LEMMA ClosingSim ==
  ASSUME NEW s, SimOK(s), NEW e \in DOMAIN s.events, s.events[e].state # "pending",
         ~ s.events[e].processed, NEW t, t = Closed(s, e)
  PROVE  Closing(s, t, e)
<1>1. /\ SimOK(t) /\ Only(s, t, e)
      /\ t.events[e].type = s.events[e].type /\ t.events[e].members = s.events[e].members
      /\ t.events[e].state = s.events[e].state
      /\ t.events[e].processed /\ t.events[e].callbacks = <<>>
  BY ClosedSim
<1>2. t.events[e].count = s.events[e].count
  <2>1. s \in SimType /\ s.events[e] \in EventType
    BY SimFields DEF SimOK
  <2>2. t.events = [s.events EXCEPT ![e].processed = TRUE, ![e].callbacks = <<>>]
    BY <2>1 DEF Closed, SimType
  <2> QED BY <2>1, <2>2 DEF EventType
<1> QED BY <1>1, <1>2 DEF Closing, Only

LEMMA ClosingCond ==
  ASSUME NEW s, SimOK(s), NEW t, NEW e \in DOMAIN s.events, Closing(s, t, e), NEW c \in Conditions(s),
         NEW orphaned \in BOOLEAN, CondOK(s, c, {}, orphaned), NEW todo, todo = {e} \cap Watched(s, c)
  PROVE  CondOK(t, c, todo, orphaned)
<1>1. PICK M : M = Range(s.events[c].members)
  OBVIOUS
<1>2. /\ c \in DOMAIN s.events /\ M \subseteq DOMAIN s.events /\ Call("check", c) \in CallType
      /\ s.events[c].count \in Nat
  BY <1>1, ConditionFields
<1>3. /\ t.events[c].type = s.events[c].type /\ t.events[c].members = s.events[c].members
      /\ t.events[c].state = s.events[c].state /\ t.events[c].count = s.events[c].count
  BY <1>2 DEF Closing
<1>4. /\ Over(t, c) = Over(s, c) \cup ({e} \cap M)
      /\ e \notin Over(s, c) /\ Over(s, c) \subseteq M /\ Over(t, c) \subseteq M
  BY <1>1, <1>2, <1>3 DEF Over, Closing
<1>5. \A m \in M : Failed(t, m) <=> Failed(s, m)
  BY <1>2 DEF Failed, Closing
<1>6. Watched(t, c) = Watched(s, c) \ {e} /\ Once(t, c)
  <2>1. PICK call : call = Call("check", c)
    OBVIOUS
  <2>2. call \notin Range(t.events[e].callbacks) /\ Occurrences(call, t.events[e].callbacks) = {}
    BY DEF Closing, Range, Occurrences
  <2>3. Watched(t, c) = Watched(s, c) \ {e}
    BY <2>1, <2>2 DEF Watched, Closing
  <2>4. \A f \in DOMAIN s.events : AtMostOnce(Occurrences(call, s.events[f].callbacks))
    BY <2>1 DEF CondOK
  <2>5. \A f \in DOMAIN t.events : AtMostOnce(Occurrences(call, t.events[f].callbacks))
    BY <2>2, <2>4 DEF AtMostOnce, Closing
  <2> QED BY <2>1, <2>3, <2>5 DEF Once
<1>7. e \in Watched(s, c) => e \in M
  <2>1. ASSUME e \in Watched(s, c) PROVE e \in M
    <3>1. PICK i \in DOMAIN s.events[e].callbacks : s.events[e].callbacks[i] = Call("check", c)
      BY <2>1 DEF Watched, Range
    <3>2. CallOK(s, e, Call("check", c))
      BY <3>1 DEF SimOK, EventOK
    <3> QED BY <1>1, <3>2 DEF CallOK, Call
  <2> QED BY <2>1
<1>8. Outcome(t, c)
  <2>1. Outcome(s, c)
    BY DEF CondOK
  <2>2. t.events[c].state = "ok" =>
          IF t.events[c].type = "all" THEN Over(t, c) = M ELSE Over(t, c) # {} \/ t.events[c].members = <<>>
    BY <1>1, <1>3, <1>4, <2>1 DEF Outcome
  <2>3. t.events[c].state = "failed" => \E m \in Over(t, c) : Failed(t, m)
    BY <1>3, <1>4, <1>5, <2>1 DEF Outcome
  <2> QED BY <1>1, <1>3, <2>2, <2>3 DEF Outcome
<1>9. ASSUME t.events[c].state = "pending" PROVE Counting(t, c, todo, orphaned)
  <2>1. PICK was : was = Over(s, c) \ {}
    OBVIOUS
  <2>2. PICK told : told = Over(t, c) \ todo
    OBVIOUS
  <2>3. /\ s.events[c].count <= Cardinality(was)
        /\ ~ orphaned =>
             /\ ~ Holds(s.events[c]) /\ s.events[c].count = Cardinality(was)
             /\ M \ was \subseteq {} \cup Watched(s, c)
             /\ \A m \in was : ~ Failed(s, m)
    BY <1>1, <1>3, <1>9, <2>1 DEF CondOK, Counting
  <2>4. Holds(t.events[c]) <=> Holds(s.events[c])
    BY <1>3 DEF Holds
  <2>5. CASE told = was
    <3>1. M \ told \subseteq {} \cup Watched(s, c) => M \ told \subseteq todo \cup Watched(t, c)
      BY <1>6
    <3>2. \A m \in told : ~ Failed(s, m) => ~ Failed(t, m)
      BY <1>4, <1>5, <2>1, <2>5
    <3> QED BY <1>1, <1>3, <2>2, <2>3, <2>4, <2>5, <3>1, <3>2 DEF Counting
  <2>6. CASE told # was
    <3>1. e \in M /\ e \notin Watched(s, c) /\ e \notin was
      BY <1>4, <1>7, <2>1, <2>2, <2>6
    <3>2. orphaned
      BY <2>3, <3>1
    <3>3. was \subseteq told
      BY <1>4, <2>1, <2>2
    <3>4. IsFiniteSet(told) /\ Cardinality(was) \in Nat
      <4>1. IsFiniteSet(M) /\ told \subseteq M
        BY <1>1, <1>4, <2>2, ToldMembers
      <4>2. Cardinality(was) \in Nat
        BY <2>1, ToldMembers
      <4> QED BY <4>1, <4>2, FS_Subset
    <3>5. Cardinality(was) <= Cardinality(told) /\ Cardinality(told) \in Nat
      BY ONLY <3>3, <3>4, FS_Subset, FS_CardinalityType
    <3>6. s.events[c].count <= Cardinality(told)
      BY ONLY <1>2, <2>3, <3>4, <3>5
    <3> QED BY <1>3, <2>2, <3>2, <3>6 DEF Counting
  <2> QED BY <2>5, <2>6
<1>10. IsInjective(t.events[c].members) /\ todo \cap Watched(t, c) = {}
  BY <1>3, <1>6 DEF CondOK
<1> QED BY <1>6, <1>8, <1>9, <1>10 DEF CondOK, Once

LEMMA PopEventFires ==
  ASSUME KInv, KInv', FireInv, NEW i \in DOMAIN sim.queue, PopEvent(i)
  PROVE  FireInv'
<1>1. SimOK(sim) /\ StepOK
  BY DEF KInv
<1>2. PICK e : e = sim.queue[i].task.of
  OBVIOUS
<1>3. PICK s : s = Popped(sim, i)
  OBVIOUS
<1>4. PICK t : t = sim'
  OBVIOUS
<1>5. /\ IsNext(sim.queue, i) /\ t = Closed(s, e) /\ step.task = NoTask /\ UNCHANGED <<cast, ghost>>
  BY <1>2, <1>3, <1>4 DEF PopEvent, Closed, Idle
<1>6. /\ step'.task = Call("event", e) /\ step'.rest = sim.events[e].callbacks
      /\ e \in DOMAIN sim.events /\ ~ sim.events[e].processed /\ sim.events[e].state # "pending"
  BY <1>1, <1>2, PopEventAside
<1>7. SimOK(s) /\ s.events = sim.events
  BY <1>1, <1>3, <1>5, PoppedSim
<1>8. Closing(s, t, e)
  BY <1>5, <1>6, <1>7, ClosingSim
<1>9. Closing(sim, t, e)
  BY <1>7, <1>8 DEF Closing
<1>10. Range(step.rest) = {}
  BY <1>1, <1>5, NothingLeft
<1>11. Conditions(t) = Conditions(sim)
  BY <1>9 DEF Conditions, Closing
<1>12. ASSUME NEW c \in Conditions(sim) PROVE CondNow(c)'
  <2>1. Busy(c) = {}
    BY <1>10 DEF Busy
  <2>2. PICK orphaned \in BOOLEAN : orphaned = (c \in ghost.orphaned)
    BY (c \in ghost.orphaned) \in BOOLEAN, Zenon
  <2>3. PICK todo : todo = {e} \cap Watched(sim, c)
    OBVIOUS
  <2>4. CondOK(sim, c, {}, orphaned)
    BY <2>1, <2>2 DEF FireInv, CondInv
  <2>5. CondOK(t, c, todo, orphaned)
    BY <1>1, <1>6, <1>9, <2>3, <2>4, ClosingCond
  <2>6. Busy(c)' = todo
    BY <1>6, <2>3 DEF Busy, Watched, Call
  <2>7. AtMostOnce(Occurrences(Call("check", c), step'.rest))
    BY <1>6, <2>4 DEF CondOK
  <2> QED BY <1>4, <1>5, <2>2, <2>5, <2>6, <2>7 DEF CondNow
<1>13. CondInv'
  BY <1>4, <1>11, <1>12 DEF CondInv, CondNow
<1>14. NoTriggers => NoTriggers'
  <2>1. \A f \in DOMAIN t.events : Range(t.events[f].callbacks) \subseteq Range(sim.events[f].callbacks)
    BY <1>9 DEF Closing, Range
  <2>2. DOMAIN t.events = DOMAIN sim.events
    BY <1>9 DEF Closing
  <2> QED BY <1>4, <1>6, <2>1, <2>2 DEF NoTriggers
<1>15. Untangled'
  BY <1>4, <1>5, <1>11, <1>14 DEF FireInv, Untangled
<1> QED BY <1>5, <1>13, <1>15 DEF FireInv

LEMMA PopFires == ASSUME KInv, KInv', FireInv, Pop PROVE FireInv'
<1>1. PICK i \in DOMAIN sim.queue : PopTask(i) \/ PopAgain(i) \/ PopEvent(i)
  BY PopCases
<1> QED BY <1>1, PopTaskFires, PopAgainFires, PopEventFires

-----------------------------------------------------------------------------
(* The invariant holds. *)

LEMMA StutterFires == ASSUME FireInv, UNCHANGED kernelVars PROVE FireInv'
<1>1. sim' = sim /\ step' = step /\ cast' = cast /\ ghost' = ghost
  BY DEF kernelVars
<1>2. \A c : Busy(c)' = Busy(c)
  BY <1>1 DEF Busy
<1>3. CondInv'
  BY <1>1, <1>2 DEF FireInv, CondInv
<1>4. Untangled'
  BY <1>1 DEF FireInv, Untangled, NoTriggers
<1> QED BY <1>1, <1>3, <1>4 DEF FireInv

LEMMA NextFires == KInv /\ FireInv /\ [KernelNext]_kernelVars => FireInv'
<1> SUFFICES ASSUME KInv, FireInv, [KernelNext]_kernelVars PROVE FireInv'
  OBVIOUS
<1>1. KInv'
  BY NextKeeps
<1>2. CASE UNCHANGED kernelVars
  BY <1>2, StutterFires
<1>3. CASE UserNext
  BY <1>1, <1>3, MakeEventFires, MakeTimeoutFires, MakeConditionFires, SpawnFires, SucceedOrFailFires,
     ChainFires, InterruptFires, YieldWrongFires, EndFires DEF UserNext
<1>4. CASE Yield
  BY <1>1, <1>4, YieldFires
<1>5. CASE LoopNext
  BY <1>1, <1>5, RunToFires, PopFires, ResumeFires, DeliverInterruptFires, RunCheckFires, RunBuildFires,
     RunTriggerFires, RunStopFires, FinishStepFires, RunEmptyFires DEF LoopNext
<1> QED BY <1>2, <1>3, <1>4, <1>5 DEF KernelNext

\* The conditions of a cast are as they are made.
Unprocessed(s) == \A e \in DOMAIN s.events : ~ s.events[e].processed

LEMMA PreparedCond ==
  ASSUME NEW s, SimOK(s), Unprocessed(s), NEW c \in Conditions(s),
         NEW members, members = s.events[c].members,
         IsInjective(members), s.events[c].count = 0,
         s.events[c].state = IF members = <<>> THEN "ok" ELSE "pending",
         \A m \in Range(members) : Single(Occurrences(Call("check", c), s.events[m].callbacks))
  PROVE  CondOK(s, c, {}, FALSE)
<1>1. /\ c \in DOMAIN s.events /\ Range(members) \subseteq DOMAIN s.events /\ members \in Seq(Nat)
      /\ s.events[c].type \in {"all", "any"}
  BY ConditionFields
<1>2. Over(s, c) = {}
  BY <1>1 DEF Over, Unprocessed
<1>3. PICK call : call = Call("check", c)
  OBVIOUS
<1>4. \A e \in DOMAIN s.events : /\ s.events[e].callbacks \in Seq(CallType)
                                 /\ call \in Range(s.events[e].callbacks)
                                      <=> Occurrences(call, s.events[e].callbacks) # {}
  <2>1. \A e \in DOMAIN s.events : s.events[e].callbacks \in Seq(CallType)
    BY SimFields DEF SimOK, EventType
  <2> QED BY <2>1, OccurrencesOfCalls
<1>5. ASSUME NEW e \in DOMAIN s.events, call \in Range(s.events[e].callbacks) PROVE e \in Range(members)
  <2>1. PICK i \in DOMAIN s.events[e].callbacks : s.events[e].callbacks[i] = call
    BY <1>5 DEF Range
  <2>2. CallOK(s, e, call)
    BY <2>1 DEF SimOK, EventOK
  <2> QED BY <1>3, <2>2 DEF CallOK, Call
<1>6. \A e \in DOMAIN s.events : AtMostOnce(Occurrences(call, s.events[e].callbacks))
  BY <1>3, <1>4, <1>5 DEF AtMostOnce
<1>7. Watched(s, c) = Range(members)
  <2>1. \A m \in Range(members) : call \in Range(s.events[m].callbacks)
    BY <1>1, <1>3, <1>4 DEF Single
  <2> QED BY <1>1, <1>3, <1>5, <2>1 DEF Watched
<1>8. Outcome(s, c)
  <2>1. members = <<>> => Range(members) = {}
    BY DEF Range
  <2> QED BY <1>2, <2>1 DEF Outcome
<1>9. ASSUME s.events[c].state = "pending" PROVE Counting(s, c, {}, FALSE)
  <2>1. members # <<>> /\ Len(members) # 0
    BY <1>1, <1>9
  <2>2. Cardinality(Over(s, c) \ {}) = 0 /\ Over(s, c) \ {} = {}
    BY <1>2, FS_EmptySet
  <2>3. ~ Holds(s.events[c])
    BY <2>1 DEF Holds
  <2> QED BY <1>7, <2>2, <2>3 DEF Counting
<1> QED BY <1>3, <1>6, <1>8, <1>9 DEF CondOK

LEMMA InitFires == ASSUME ConditionsApart, KernelInit PROVE FireInv
<1>1. PICK k \in Casts : Start(k)
  BY DEF KernelInit
<1>2. /\ sim = k.sim /\ cast = k.may /\ step.rest = <<>> /\ ghost.orphaned = {} /\ Prepared(sim)
  BY <1>1, CastAssumption DEF Start
<1>3. SimOK(sim)
  BY <1>2, PreparedSim
<1>4. Range(step.rest) = {}
  BY <1>2 DEF Range
<1>5. Unprocessed(sim)
  BY <1>2 DEF Prepared, Unprocessed
<1>6. ASSUME NEW c \in Conditions(sim) PROVE CondNow(c)
  <2>1. Busy(c) = {}
    BY <1>4 DEF Busy
  <2>2. PICK members : members = sim.events[c].members
    OBVIOUS
  <2>3. /\ IsInjective(members) /\ sim.events[c].count = 0
        /\ sim.events[c].state = IF members = <<>> THEN "ok" ELSE "pending"
        /\ \A m \in Range(members) : Single(Occurrences(Call("check", c), sim.events[m].callbacks))
    BY <1>2, <1>6, <2>2 DEF ConditionsApart
  <2>4. CondOK(sim, c, {}, FALSE)
    BY <1>3, <1>5, <2>2, <2>3, PreparedCond
  <2>5. (c \in ghost.orphaned) = FALSE
    BY <1>2
  <2>6. AtMostOnce(Occurrences(Call("check", c), step.rest))
    BY <1>2 DEF AtMostOnce, Occurrences
  <2> QED BY <2>1, <2>4, <2>5, <2>6 DEF CondNow
<1>7. CondInv
  BY <1>6 DEF CondInv, CondNow
<1>8. NoTriggers
  <2>1. ASSUME NEW e \in DOMAIN sim.events, NEW call \in Range(sim.events[e].callbacks)
        PROVE  call.do # "trigger"
    <3>1. PICK i \in DOMAIN sim.events[e].callbacks : sim.events[e].callbacks[i] = call
      BY DEF Range
    <3>2. call.do \in {"build", "check"}
      BY <1>2, <3>1 DEF Prepared
    <3> QED BY <3>2
  <2> QED BY <1>4, <2>1 DEF NoTriggers
<1>9. Untangled /\ cast \in [menu : SUBSET STRING, calls : Nat, runs : Nat]
  BY <1>2, <1>8 DEF ConditionsApart, Untangled
<1> QED BY <1>7, <1>9 DEF FireInv

-----------------------------------------------------------------------------
(* A condition fires when it holds. *)

\* There is one place for each event that has the check.
LEMMA PlacesOfCheck ==
  ASSUME NEW s, SimOK(s), NEW c, Once(s, c), NEW W, W = Watched(s, c), IsFiniteSet(W),
         NEW call, call = Call("check", c)
  PROVE  Cardinality(UNION {{e} \X Occurrences(call, s.events[e].callbacks) : e \in DOMAIN s.events})
           = Cardinality(W)
<1> DEFINE At(e) == Occurrences(call, s.events[e].callbacks)
           places == UNION {{e} \X At(e) : e \in DOMAIN s.events}
           place == [e \in W |-> <<e, CHOOSE i : At(e) = {i}>>]
<1>1. \A e \in DOMAIN s.events : call \in Range(s.events[e].callbacks) <=> At(e) # {}
  <2>1. \A e \in DOMAIN s.events : s.events[e].callbacks \in Seq(CallType)
    BY SimFields DEF SimOK, EventType
  <2> QED BY <2>1, OccurrencesOfCalls
<1>2. W \subseteq DOMAIN s.events /\ \A e \in DOMAIN s.events : e \in W <=> At(e) # {}
  BY <1>1 DEF Watched
<1>3. \A e \in DOMAIN s.events : At(e) = {} \/ Single(At(e))
  BY DEF Once, AtMostOnce
<1> HIDE DEF At
<1>4. \A e \in W : At(e) = {CHOOSE i : At(e) = {i}}
  BY <1>2, <1>3 DEF Single
<1>5. \A e \in W : place[e] \in places /\ place[e][1] = e
  BY <1>2, <1>4
<1>6. \A q \in places : \E e \in W : place[e] = q
  <2>1. ASSUME NEW q \in places PROVE \E e \in W : place[e] = q
    <3>1. PICK e \in DOMAIN s.events : q \in {e} \X At(e)
      BY <2>1
    <3>2. PICK i \in At(e) : q = <<e, i>>
      BY <3>1
    <3>3. e \in W
      BY <1>2, <3>2
    <3>4. i = CHOOSE j : At(e) = {j}
      BY <1>4, <3>2, <3>3
    <3> QED BY <3>2, <3>3, <3>4
  <2> QED BY <2>1
<1>7. place \in [W -> places]
  BY <1>5
<1> HIDE DEF place, places
<1>8. place \in Bijection(W, places)
  BY <1>5, <1>6, <1>7 DEF Bijection, Injection, Surjection, IsInjective
<1>9. Cardinality(places) = Cardinality(W)
  BY <1>8, FS_Bijection DEF ExistsBijection
<1> QED BY <1>9 DEF places, At

\* Three parts make up the whole.
LEMMA ThreeParts ==
  ASSUME NEW A, NEW B, NEW C, NEW M, IsFiniteSet(M), M = A \cup B \cup C,
         A \cap B = {}, A \cap C = {}, B \cap C = {}
  PROVE  Cardinality(M) = Cardinality(A) + Cardinality(B) + Cardinality(C)
<1>1. IsFiniteSet(A) /\ IsFiniteSet(B) /\ IsFiniteSet(C)
  BY FS_Subset
<1>2. PICK AB : AB = A \cup B
  OBVIOUS
<1>3. AB \cap C = {} /\ M = AB \cup C
  BY <1>2
<1>4. Cardinality({}) = 0
  BY FS_EmptySet
<1>5. IsFiniteSet(AB) /\ Cardinality(AB) = Cardinality(A) + Cardinality(B) - Cardinality({})
  BY ONLY <1>1, <1>2, FS_Union, A \cap B = {}
<1>6. Cardinality(M) = Cardinality(AB) + Cardinality(C) - Cardinality({})
  BY ONLY <1>1, <1>3, <1>5, FS_Union
<1>7. Cardinality(A) \in Nat /\ Cardinality(B) \in Nat /\ Cardinality(C) \in Nat
  BY <1>1, FS_CardinalityType
<1> QED BY ONLY <1>4, <1>5, <1>6, <1>7

LEMMA FiresOnTime ==
  ASSUME KInv, NEW c \in Conditions(sim), CondNow(c), sim.events[c].state = "pending", c \notin ghost.orphaned
  PROVE  /\ ~ Holds(sim.events[c])
         /\ sim.events[c].count + Hooks(Call("check", c)) = Len(sim.events[c].members)
         /\ \A m \in Range(sim.events[c].members) :
              Failed(sim, m) /\ sim.events[m].processed => Call("check", c) \in Range(step.rest)
<1>1. SimOK(sim) /\ StepOK
  BY DEF KInv
<1>2. PICK members : members = sim.events[c].members
  OBVIOUS
<1>3. PICK M : M = Range(members)
  OBVIOUS
<1>4. PICK B : B = Busy(c)
  OBVIOUS
<1>5. PICK told : told = Over(sim, c) \ B
  OBVIOUS
<1>6. PICK W : W = Watched(sim, c)
  OBVIOUS
<1>7. PICK call : call = Call("check", c)
  OBVIOUS
<1>8. /\ members \in Seq(Nat) /\ IsFiniteSet(M) /\ sim.events[c].count \in Nat /\ Len(members) \in Nat
      /\ M \subseteq DOMAIN sim.events
  <2>1. members \in Seq(Nat) /\ sim.events[c].count \in Nat /\ M \subseteq DOMAIN sim.events
    BY <1>1, <1>2, <1>3, ConditionFields
  <2>2. IsFiniteSet(M)
    BY <1>3, <2>1, DistinctMembers
  <2> QED BY <2>1, <2>2
<1>9. (c \in ghost.orphaned) = FALSE
  OBVIOUS
<1>10. CondOK(sim, c, B, FALSE) /\ AtMostOnce(Occurrences(call, step.rest))
  BY <1>4, <1>7, <1>9 DEF CondNow
<1>11. /\ ~ Holds(sim.events[c]) /\ sim.events[c].count = Cardinality(told)
       /\ M \ told \subseteq B \cup W /\ \A m \in told : ~ Failed(sim, m)
       /\ B \cap W = {} /\ IsInjective(members) /\ Once(sim, c)
  BY <1>2, <1>3, <1>5, <1>6, <1>10 DEF CondOK, Counting, Once
<1>12. B \subseteq Over(sim, c) /\ Over(sim, c) \subseteq M
  <2>1. ASSUME NEW b \in B PROVE b \in Over(sim, c)
    <3>1. b = step.task.of /\ call \in Range(step.rest)
      BY <1>4, <1>7 DEF Busy
    <3> QED BY <1>1, <1>7, <3>1, ToldInStep DEF Over
  <2> QED BY <1>2, <1>3, <2>1 DEF Over
<1>13. W \subseteq M /\ W \cap Over(sim, c) = {}
  <2>1. ASSUME NEW e \in W PROVE e \in M /\ e \notin Over(sim, c)
    <3>1. e \in DOMAIN sim.events /\ call \in Range(sim.events[e].callbacks)
      BY <1>6, <1>7 DEF Watched
    <3>2. PICK i \in DOMAIN sim.events[e].callbacks : sim.events[e].callbacks[i] = call
      BY <3>1 DEF Range
    <3>3. CallOK(sim, e, call) /\ ~ sim.events[e].processed
      BY <1>1, <3>1, <3>2 DEF SimOK, EventOK
    <3> QED BY <1>2, <1>3, <1>7, <3>3 DEF CallOK, Call, Over
  <2> QED BY <2>1
<1>14. M = told \cup B \cup W /\ told \cap B = {} /\ told \cap W = {}
  BY <1>5, <1>11, <1>12, <1>13
<1>15. Cardinality(M) = Cardinality(told) + Cardinality(B) + Cardinality(W)
  BY ONLY <1>8, <1>11, <1>14, ThreeParts
<1>16. Cardinality(M) = Len(members)
  BY <1>3, <1>8, <1>11, DistinctMembers
<1>17. Cardinality(Occurrences(call, step.rest)) = Cardinality(B)
  <2>1. step.rest \in Seq(CallType)
    BY <1>1 DEF StepOK
  <2>2. call \in Range(step.rest) <=> Occurrences(call, step.rest) # {}
    BY <2>1, OccurrencesOfCalls
  <2>3. CASE call \in Range(step.rest)
    <3>1. B = {step.task.of}
      BY <1>1, <1>4, <1>7, <2>3, ToldInStep DEF Busy
    <3>2. Single(Occurrences(call, step.rest))
      BY <1>10, <2>2, <2>3 DEF AtMostOnce
    <3> QED BY <3>1, <3>2, FS_Singleton DEF Single
  <2>4. CASE call \notin Range(step.rest)
    <3>1. B = {} /\ Occurrences(call, step.rest) = {}
      BY <1>4, <1>7, <2>2, <2>4 DEF Busy
    <3> QED BY <3>1
  <2> QED BY <2>3, <2>4
<1>18. Cardinality(UNION {{e} \X Occurrences(call, sim.events[e].callbacks) : e \in DOMAIN sim.events})
         = Cardinality(W)
  <2>1. IsFiniteSet(W)
    BY <1>8, <1>13, FS_Subset
  <2> QED BY <1>1, <1>6, <1>7, <1>11, <2>1, PlacesOfCheck
<1>19. Hooks(call) = Cardinality(B) + Cardinality(W)
  BY <1>17, <1>18 DEF Hooks
<1>20. Cardinality(told) \in Nat /\ Cardinality(B) \in Nat /\ Cardinality(W) \in Nat
  <2>1. IsFiniteSet(told) /\ IsFiniteSet(B) /\ IsFiniteSet(W)
    BY <1>8, <1>14, FS_Subset
  <2> QED BY <2>1, FS_CardinalityType
<1>21. sim.events[c].count + Hooks(call) = Len(members)
  BY ONLY <1>11, <1>15, <1>16, <1>19, <1>20
<1>22. ASSUME NEW m \in M, Failed(sim, m), sim.events[m].processed PROVE call \in Range(step.rest)
  <2>1. m \in Over(sim, c)
    BY <1>2, <1>3, <1>22 DEF Over
  <2>2. m \in B
    BY <1>5, <1>11, <1>22, <2>1
  <2> QED BY <1>4, <1>7, <2>2 DEF Busy
<1> QED BY <1>2, <1>3, <1>7, <1>11, <1>21, <1>22

LEMMA FiresHolds == ASSUME KInv, FireInv PROVE FiresWhenItHolds
<1>1. \A c \in Conditions(sim) : CondNow(c)
  BY DEF FireInv, CondInv, CondNow
<1>2. FiresNotEarly
  <2>1. \A c \in Conditions(sim) : Outcome(sim, c)
    BY <1>1 DEF CondNow, CondOK
  <2> QED BY <2>1 DEF FiresNotEarly, Outcome, Over
<1>3. FiresNotLate
  BY <1>1, FiresOnTime DEF FiresNotLate
<1> QED BY <1>2, <1>3 DEF FiresWhenItHolds

\* A condition is triggered exactly when its predicate comes to hold, however
\* events, checks, nested conditions, interrupts and cut steps interleave
\* (Condition._check, Condition.__init__, _remove_check_callbacks).
THEOREM FiresWhenItHoldsTheorem == ASSUME ConditionsApart PROVE KernelSpec => []FiresWhenItHolds
<1>1. KernelInit => KInv /\ FireInv
  BY InitHolds, InitFires
<1>2. (KInv /\ FireInv) /\ [KernelNext]_kernelVars => (KInv /\ FireInv)'
  <2>1. KInv /\ [KernelNext]_kernelVars => KInv'
    BY NextKeeps
  <2>2. KInv /\ FireInv /\ [KernelNext]_kernelVars => FireInv'
    BY NextFires
  <2> QED BY <2>1, <2>2
<1>3. KInv /\ FireInv => FiresWhenItHolds
  BY FiresHolds
<1> QED BY <1>1, <1>2, <1>3, PTL DEF KernelSpec
=============================================================================
