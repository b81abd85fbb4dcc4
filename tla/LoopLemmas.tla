----------------------------- MODULE LoopLemmas -----------------------------
(***************************************************************************)
(* What a loop computes, for every loop body Step.  A proof module takes   *)
(* an instance of this module for each loop it reasons about.              *)
(***************************************************************************)
EXTENDS Loops

\* Counting reaches every number up to N.  The lemmas below take this as a
\* hypothesis, which the induction on numbers provides, to keep their instances small.
Counts(N) ==
    \A S : 0 \in S /\ (\A n \in 0..(N - 1) : n \in S => n + 1 \in S) => 0..N \subseteq S

\* acc[i] is the value the loop threads after i iterations.
Trace(env, start, q, acc) ==
    acc = [i \in 0..Len(q) |-> IF i = 0 THEN start ELSE Step(env, acc[i - 1], q[i])]

\* Every loop has a trace, so the recursive function in Run is one.
LEMMA TraceExists ==
    ASSUME NEW env, NEW start, NEW q, Len(q) \in Nat, Counts(Len(q))
    PROVE  \E acc : Trace(env, start, q, acc)
  <1> DEFINE N == Len(q)
             Upto(g, n) == g = [i \in 0..n |-> IF i = 0 THEN start ELSE Step(env, g[i - 1], q[i])]
             S == {n \in 0..N : \E g : Upto(g, n)}
  <1> HIDE DEF N
  <1>1. 0 \in S
    <2> DEFINE g == [i \in 0..0 |-> start]
    <2>1. Upto(g, 0)
      OBVIOUS
    <2>2. 0 \in 0..N
      BY DEF N
    <2>3. QED
      BY <2>1, <2>2
  <1>2. ASSUME NEW n \in 0..(N - 1), n \in S
        PROVE  n + 1 \in S
    <2>0. N \in Nat
      BY DEF N
    <2>1. PICK g : Upto(g, n)
      BY <1>2
    <2> DEFINE h == [i \in 0..(n + 1) |-> IF i = n + 1 THEN Step(env, g[n], q[n + 1]) ELSE g[i]]
    <2>2. ASSUME NEW i \in 0..(n + 1)
          PROVE  h[i] = IF i = 0 THEN start ELSE Step(env, h[i - 1], q[i])
      <3>1. CASE i = 0
        <4>1. h[i] = g[0] /\ 0 \in 0..n
          BY <2>0, <3>1
        <4>2. QED
          BY <4>1, <3>1, <2>1
      <3>2. CASE i = n + 1
        <4>1. h[i] = Step(env, g[n], q[n + 1])
          BY <3>2
        <4>2. h[i - 1] = g[n]
          BY <2>0, <3>2
        <4>3. i # 0
          BY <2>0, <3>2
        <4>4. QED
          BY <4>1, <4>2, <4>3, <3>2
      <3>3. CASE i # 0 /\ i # n + 1
        <4>1. i \in 0..n /\ i - 1 \in 0..n /\ i - 1 # n + 1 /\ i - 1 \in 0..(n + 1)
          BY <2>0, <3>3
        <4>2. h[i] = g[i] /\ h[i - 1] = g[i - 1]
          BY <4>1, <3>3
        <4>3. g[i] = Step(env, g[i - 1], q[i])
          BY <2>1, <3>3, <4>1
        <4>4. QED
          BY <4>2, <4>3, <3>3
      <3>4. QED
        BY <3>1, <3>2, <3>3
    <2>3. Upto(h, n + 1)
      BY <2>2
    <2>4. n + 1 \in 0..N
      BY <2>0
    <2>5. QED
      BY <2>3, <2>4
  <1>3. 0..N \subseteq S
    <2> HIDE DEF S
    <2>1. N \in Nat
      BY DEF N
    <2>2. QED
      BY <1>1, <1>2, <2>1 DEF Counts, N
  <1>4. PICK g : Upto(g, N)
    <2>1. N \in 0..N
      BY DEF N
    <2>2. QED
      BY <1>3, <2>1
  <1>5. QED
    BY <1>4 DEF Trace, N

\* A loop returns the last value of its trace, which starts with the initial
\* value and advances by one iteration at a time.
LEMMA RunTrace ==
    ASSUME NEW env, NEW start, NEW q, Len(q) \in Nat, Counts(Len(q))
    PROVE  \E acc : /\ Run(env, start, q) = acc[Len(q)]
                    /\ acc[0] = start
                    /\ \A i \in 1..Len(q) : acc[i] = Step(env, acc[i - 1], q[i])
  <1> DEFINE a == CHOOSE acc : Trace(env, start, q, acc)
  <1>1. Trace(env, start, q, a)
    BY TraceExists
  <1>2. Run(env, start, q) = a[Len(q)]
    BY DEF Run, Trace
  <1>3. a[0] = start
    <2>1. 0 \in 0..Len(q)
      OBVIOUS
    <2> HIDE DEF a
    <2>2. QED
      BY <1>1, <2>1 DEF Trace
  <1>4. ASSUME NEW i \in 1..Len(q)
        PROVE  a[i] = Step(env, a[i - 1], q[i])
    <2>1. i \in 0..Len(q) /\ i # 0
      OBVIOUS
    <2> HIDE DEF a
    <2>2. QED
      BY <1>1, <2>1 DEF Trace
  <1> HIDE DEF a
  <1>5. QED
    BY <1>2, <1>3, <1>4

\* One more iteration.
LEMMA RunAppend ==
    ASSUME NEW env, NEW start, NEW S, NEW q \in Seq(S), NEW x \in S, Counts(Len(q)), Counts(Len(q) + 1)
    PROVE  Run(env, start, Append(q, x)) = Step(env, Run(env, start, q), x)
  <1> DEFINE r == Append(q, x)
             n == Len(q)
  <1>1. /\ n \in Nat /\ Len(r) = n + 1 /\ r[n + 1] = x
        /\ \A i \in 1..n : r[i] = q[i]
    OBVIOUS
  <1> HIDE DEF r
  <1>2. PICK f : /\ Run(env, start, q) = f[n] /\ f[0] = start
                 /\ \A i \in 1..n : f[i] = Step(env, f[i - 1], q[i])
    BY <1>1, RunTrace
  <1>3. PICK g : /\ Run(env, start, r) = g[n + 1] /\ g[0] = start
                 /\ \A i \in 1..(n + 1) : g[i] = Step(env, g[i - 1], r[i])
    <2>1. Len(r) \in Nat /\ Counts(Len(r))
      BY <1>1
    <2>2. \E g : /\ Run(env, start, r) = g[Len(r)] /\ g[0] = start
                 /\ \A i \in 1..Len(r) : g[i] = Step(env, g[i - 1], r[i])
      BY <2>1, RunTrace
    <2>3. Len(r) = n + 1
      BY <1>1
    <2>4. QED
      BY <2>2, <2>3
  <1> HIDE DEF n
  <1> DEFINE T == {i \in 0..n : f[i] = g[i]}
  <1>4. 0 \in T
    BY <1>1, <1>2, <1>3
  <1>5. ASSUME NEW i \in 0..(n - 1), i \in T PROVE i + 1 \in T
    <2>1. i + 1 \in 1..n /\ i + 1 \in 1..(n + 1) /\ (i + 1) - 1 = i /\ i + 1 \in 0..n
      BY <1>1
    <2>2. f[i + 1] = Step(env, f[i], q[i + 1]) /\ g[i + 1] = Step(env, g[i], r[i + 1])
      BY <1>2, <1>3, <2>1
    <2>3. f[i] = g[i] /\ r[i + 1] = q[i + 1]
      BY <1>1, <1>5, <2>1
    <2>4. QED
      BY <2>1, <2>2, <2>3
  <1>6. n \in T
    <2> HIDE DEF T
    <2>1. 0..n \subseteq T
      BY <1>4, <1>5 DEF Counts, n
    <2>2. QED
      BY <1>1, <2>1
  <1>7. g[n + 1] = Step(env, g[n], x)
    <2>1. n + 1 \in 1..(n + 1) /\ (n + 1) - 1 = n
      BY <1>1
    <2>2. QED
      BY <1>1, <1>3, <2>1
  <1>8. QED
    BY <1>2, <1>3, <1>6, <1>7 DEF r
=============================================================================
