------------------------------ MODULE Iteration ------------------------------
(***************************************************************************)
(* Lemmas about loops: what holds of every step of a loop of N steps, and  *)
(* that a function defined by what each step does to the result of the one *)
(* before exists.  They are about sets and functions, not about operators: *)
(* a user names the set of the numbers of which his claim holds.           *)
(***************************************************************************)
EXTENDS Integers, WellFoundedInduction, TLAPS

\* Induction up to N: a set with 0 and the successor of each of its members
\* contains every number up to N.
LEMMA UpTo ==
  ASSUME NEW N \in Nat, NEW S, 0 \in S,
         \A n \in 1 .. N : n - 1 \in S => n \in S
  PROVE  \A n \in 0 .. N : n \in S
<1> DEFINE Missed == {n \in 0 .. N : n \notin S}
<1>1. SUFFICES ASSUME Missed # {} PROVE FALSE
  OBVIOUS
<1>2. Missed \subseteq Nat
  OBVIOUS
<1>3. PICK n \in Missed : \A m \in Missed : ~ (<<m, n>> \in OpToRel(<, Nat))
  BY <1>1, <1>2, NatLessThanWellFounded, WFMin
<1>4. n # 0 /\ n - 1 \in 0 .. N /\ n \in 1 .. N
  OBVIOUS
<1>5. n - 1 \notin Missed
  <2>1. <<n - 1, n>> \in OpToRel(<, Nat)
    BY <1>4 DEF OpToRel
  <2> QED
    BY <1>3, <2>1
<1> QED
  BY <1>3, <1>4, <1>5

\* The results, step by step, of a loop of n steps that starts from zero and
\* whose step i makes g[i][x] of x.
LoopResults(T, zero, n, g) ==
    {f \in [0 .. n -> T] : f[0] = zero /\ \A i \in 1 .. n : f[i] = g[i][f[i - 1]]}

\* There are such results, for every length of the loop.
LEMMA LoopExists ==
  ASSUME NEW T, NEW zero \in T, NEW N \in Nat, NEW g \in [1 .. N -> [T -> T]]
  PROVE  LoopResults(T, zero, N, g) # {}
<1> DEFINE Result(m) == LoopResults(T, zero, m, g)
           S == {m \in 0 .. N : Result(m) # {}}
<1>1. 0 \in S
  <2>1. [i \in 0 .. 0 |-> zero] \in Result(0)
    BY DEF LoopResults
  <2> QED
    BY <2>1
<1>2. ASSUME NEW m \in 1 .. N, m - 1 \in S PROVE m \in S
  <2>1. PICK f : f \in Result(m - 1)
    BY <1>2
  <2>2. /\ f \in [0 .. m - 1 -> T]
        /\ f[0] = zero /\ \A i \in 1 .. m - 1 : f[i] = g[i][f[i - 1]]
    BY <2>1 DEF LoopResults
  <2> DEFINE h == [i \in 0 .. m |-> IF i = m THEN g[m][f[m - 1]] ELSE f[i]]
  <2>3. g[m][f[m - 1]] \in T
    BY <1>2, <2>2
  <2>4. h \in [0 .. m -> T] /\ h[0] = zero
    BY <1>2, <2>2, <2>3
  <2>5. \A n \in 1 .. m : h[n] = g[n][h[n - 1]]
    <3> TAKE n \in 1 .. m
    <3>1. CASE n = m
      BY <3>1, <1>2
    <3>2. CASE n # m
      <4>1. n \in 1 .. m - 1
        BY <3>2, <1>2
      <4>2. h[n] = f[n] /\ h[n - 1] = f[n - 1]
        BY <4>1, <1>2
      <4> QED
        BY <4>1, <4>2, <2>2
    <3> QED
      BY <3>1, <3>2
  <2>6. h \in Result(m)
    <3> HIDE DEF h
    <3> QED
      BY <2>4, <2>5 DEF LoopResults
  <2> HIDE DEF Result
  <2> QED
    BY <2>6, <1>2
<1>3. \A m \in 0 .. N : m \in S
  <2> HIDE DEF S
  <2> QED
    BY <1>1, <1>2, UpTo
<1> QED
  BY <1>3
==============================================================================
