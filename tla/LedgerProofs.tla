---------------------------- MODULE LedgerProofs ----------------------------
(***************************************************************************)
(* What executing a batch does to a store, what the mempool's operations   *)
(* do to the pool, and what a mining round builds, for every store, pool,  *)
(* batch and seed: the facts MinerProofs rests on.                         *)
(***************************************************************************)
EXTENDS Mempool, WellFoundedInduction, TLAPS

-----------------------------------------------------------------------------
(* Numbers.                                                                *)

\* Every set of naturals that is not empty has a least element.
LEMMA LeastNatural ==
    ASSUME NEW T, T \subseteq Nat, T # {}
    PROVE  \E x \in T : \A y \in T : x <= y
  <1> DEFINE R == OpToRel(<, Nat)
  <1>1. IsWellFoundedOn(R, Nat)
    BY NatLessThanWellFounded, Zenon
  <1>2. \A x, y \in Nat : <<x, y>> \in R <=> x < y
    BY DEF OpToRel
  <1> HIDE DEF R
  <1>3. PICK x \in T : \A y \in T : ~(<<y, x>> \in R)
    BY <1>1, WFMin, Zenon
  <1>4. ASSUME NEW y \in T PROVE x <= y
    <2>1. x \in Nat /\ y \in Nat
      OBVIOUS
    <2>2. ~(y < x)
      BY <1>2, <1>3, <2>1, Zenon
    <2>3. QED
      BY <2>1, <2>2
  <1>5. QED
    BY <1>4

\* Induction up to N: a set that holds 0, and n + 1 whenever it holds n,
\* holds every number up to N.
LEMMA Induction ==
    ASSUME NEW N \in Nat, NEW S, 0 \in S, \A n \in 0..(N - 1) : n \in S => n + 1 \in S
    PROVE  0..N \subseteq S
  <1> DEFINE T == (0..N) \ S
  <1> SUFFICES ASSUME T # {} PROVE FALSE
    OBVIOUS
  <1>1. PICK x \in T : \A y \in T : x <= y
    <2>1. T \subseteq Nat
      OBVIOUS
    <2> HIDE DEF T
    <2>2. QED
      BY <2>1, LeastNatural, Zenon
  <1>2. QED
    BY <1>1

-----------------------------------------------------------------------------
(* Sequences.                                                              *)

LEMMA LenProperties ==
    ASSUME NEW S, NEW q \in Seq(S)
    PROVE  Len(q) \in Nat /\ DOMAIN q = 1..Len(q) /\ q \in [1..Len(q) -> S]
  OBVIOUS

LEMMA RangeOfSeq ==
    ASSUME NEW S, NEW q \in Seq(S)
    PROVE  Range(q) \subseteq S
  BY LenProperties DEF Range

LEMMA ElementOfSeq ==
    ASSUME NEW S, NEW q \in Seq(S), NEW i \in 1..Len(q)
    PROVE  q[i] \in S
  OBVIOUS

LEMMA EmptySeq ==
    ASSUME NEW S
    PROVE  /\ << >> \in Seq(S) /\ Len(<< >>) = 0
           /\ \A q \in Seq(S) : q # << >> => Len(q) \in Nat \ {0}
  OBVIOUS

LEMMA SeqEqual ==
    ASSUME NEW S, NEW q \in Seq(S), NEW r \in Seq(S), Len(q) = Len(r),
           \A i \in 1..Len(q) : q[i] = r[i]
    PROVE  q = r
  OBVIOUS

LEMMA AppendProperties ==
    ASSUME NEW S, NEW q \in Seq(S), NEW e \in S
    PROVE  LET r == Append(q, e)
           IN  /\ r \in Seq(S) /\ r # << >> /\ Len(r) = Len(q) + 1 /\ r[Len(q) + 1] = e
               /\ \A i \in 1..Len(q) : r[i] = q[i]
  OBVIOUS

LEMMA AppendInjective ==
    ASSUME NEW S, NEW q \in Seq(S), NEW r \in Seq(S), NEW d \in S, NEW e \in S,
           Append(q, d) = Append(r, e)
    PROVE  q = r /\ d = e
  OBVIOUS

LEMMA SeqMonotonic ==
    ASSUME NEW S, NEW T, S \subseteq T, NEW q \in Seq(S)
    PROVE  q \in Seq(T)
  OBVIOUS

\* A prefix.
LEMMA SubSeqProperties ==
    ASSUME NEW S, NEW q \in Seq(S), NEW n \in 0..Len(q)
    PROVE  LET r == SubSeq(q, 1, n)
           IN  r \in Seq(S) /\ Len(r) = n /\ \A i \in 1..n : r[i] = q[i]
  OBVIOUS

-----------------------------------------------------------------------------
(* Loops.                                                                  *)

ExecutionLoop == INSTANCE LoopLemmas WITH Step <- RunStep

GasLoop == INSTANCE LoopLemmas WITH Step <- AddGas

RetentionLoop == INSTANCE LoopLemmas WITH Step <- KeepValid

-----------------------------------------------------------------------------
(* Lists of transactions.                                                  *)

\* The ids of a list of transactions, one by one.
LEMMA RootShape ==
    ASSUME NEW q \in Seq(Tx)
    PROVE  /\ DOMAIN TxRoot(q) = 1..Len(q)
           /\ Len(q) \in Nat
           /\ Len(TxRoot(q)) = Len(q)
           /\ \A i \in 1..Len(q) : TxRoot(q)[i] = q[i].id /\ q[i] \in Tx
           /\ TxRoot(q) \in Seq({tx.id : tx \in Tx})
  <1>1. Len(q) \in Nat /\ \A i \in 1..Len(q) : q[i] \in Tx
    BY ElementOfSeq, LenProperties
  <1>2. TxRoot(q) \in [1..Len(q) -> {tx.id : tx \in Tx}]
    BY <1>1 DEF TxRoot
  <1>3. TxRoot(q) \in Seq({tx.id : tx \in Tx}) /\ Len(TxRoot(q)) = Len(q)
    BY <1>1, <1>2
  <1>4. QED
    BY <1>1, <1>3 DEF TxRoot

\* Digests identify transactions, so the root of a list identifies the list.
LEMMA RootIdentifies ==
    ASSUME NEW p \in Seq(Tx), NEW q \in Seq(Tx), TxRoot(p) = TxRoot(q)
    PROVE  p = q
  <1>1. Len(p) = Len(q)
    BY RootShape, Zenon
  <1>2. ASSUME NEW i \in 1..Len(p) PROVE p[i] = q[i]
    <2>1. p[i] \in Tx /\ q[i] \in Tx /\ p[i].id = q[i].id
      BY <1>1, RootShape, Zenon
    <2>2. QED
      BY <2>1, DigestAssumption
  <1>3. QED
    BY <1>1, <1>2, SeqEqual

\* No digest is listed twice.
LEMMA RootInjective ==
    ASSUME NEW q \in Seq(Tx)
    PROVE  IsInjective(TxRoot(q)) <=> \A i, j \in 1..Len(q) : q[i].id = q[j].id => i = j
  <1>1. DOMAIN TxRoot(q) = 1..Len(q) /\ \A i \in 1..Len(q) : TxRoot(q)[i] = q[i].id
    BY DEF TxRoot
  <1>2. QED
    BY <1>1 DEF IsInjective

\* d is drawn from the first n elements of q, without repetition.
Drawn(d, q, n) ==
    /\ d \in Seq(Tx)
    /\ Len(d) <= n
    /\ IsInjective(TxRoot(d))
    /\ \A k \in 1..Len(d) : \E j \in 1..n : d[k] = q[j]

LEMMA DrawnEmpty ==
    ASSUME NEW q
    PROVE  Drawn(<< >>, q, 0)
  BY DEF Drawn, IsInjective, TxRoot

\* Going on to the next element, and taking it or not.
LEMMA DrawnMore ==
    ASSUME NEW q \in Seq(Tx), IsInjective(TxRoot(q)), NEW d, NEW n \in 0..(Len(q) - 1), Drawn(d, q, n)
    PROVE  Drawn(d, q, n + 1) /\ Drawn(Append(d, q[n + 1]), q, n + 1)
  <1>0. n + 1 \in 1..Len(q) /\ n \in Nat /\ q[n + 1] \in Tx /\ d \in Seq(Tx) /\ Len(d) \in Nat
    BY RootShape DEF Drawn
  <1>1. Drawn(d, q, n + 1)
    BY <1>0 DEF Drawn
  <1> DEFINE e == Append(d, q[n + 1])
  <1>2. /\ e \in Seq(Tx) /\ Len(e) = Len(d) + 1
        /\ \A k \in 1..Len(d) : e[k] = d[k]
        /\ e[Len(d) + 1] = q[n + 1]
    BY <1>0, AppendProperties
  <1> HIDE DEF e
  <1>3. \A k \in 1..Len(e) : \E j \in 1..(n + 1) : e[k] = q[j] /\ (k <= Len(d) => j <= n)
    <2> TAKE k \in 1..Len(e)
    <2>1. CASE k <= Len(d)
      <3>1. k \in 1..Len(d) /\ e[k] = d[k]
        BY <1>0, <1>2, <2>1
      <3>2. PICK j \in 1..n : d[k] = q[j]
        BY <3>1 DEF Drawn
      <3>3. j \in 1..(n + 1) /\ j <= n
        BY <1>0
      <3>4. QED
        BY <3>1, <3>2, <3>3
    <2>2. CASE k = Len(d) + 1
      BY <1>0, <1>2, <2>2
    <2>3. QED
      BY <1>0, <1>2, <2>1, <2>2
  <1>4. ASSUME NEW k \in 1..Len(e), NEW l \in 1..Len(e), e[k].id = e[l].id
        PROVE  k = l
    <2>1. \A i, j \in 1..Len(q) : q[i].id = q[j].id => i = j
      BY RootInjective
    <2>2. \A i, j \in 1..Len(d) : d[i].id = d[j].id => i = j
      BY <1>0, RootInjective DEF Drawn
    <2>3. CASE k <= Len(d) /\ l <= Len(d)
      <3>1. k \in 1..Len(d) /\ l \in 1..Len(d)
        BY <1>0, <1>2, <2>3
      <3>2. e[k] = d[k] /\ e[l] = d[l]
        BY <1>2, <3>1, Zenon
      <3>3. QED
        BY <1>4, <2>2, <3>1, <3>2, Zenon
    <2>4. ASSUME NEW i \in 1..Len(e), NEW j \in 1..Len(e), i = Len(d) + 1, j <= Len(d),
                 e[i].id = e[j].id
          PROVE  FALSE
      <3>1. PICK m \in 1..(n + 1) : e[j] = q[m] /\ m <= n
        BY <1>3, <2>4
      <3>2. m \in 1..Len(q) /\ m # n + 1
        BY <1>0, <3>1
      <3>3. q[m].id = q[n + 1].id
        BY <1>2, <2>4, <3>1
      <3>4. QED
        BY <1>0, <2>1, <3>2, <3>3
    <2>5. CASE k = Len(d) + 1 /\ l <= Len(d)
      BY <1>4, <2>4, <2>5
    <2>6. CASE k <= Len(d) /\ l = Len(d) + 1
      BY <1>4, <2>4, <2>6
    <2>7. QED
      BY <1>0, <1>2, <2>3, <2>5, <2>6
  <1>5. IsInjective(TxRoot(e))
    BY <1>2, <1>4, RootInjective
  <1>6. Len(e) <= n + 1
    BY <1>0, <1>2 DEF Drawn
  <1>7. Drawn(e, q, n + 1)
    BY <1>2, <1>3, <1>5, <1>6 DEF Drawn
  <1>8. QED
    BY <1>1, <1>7 DEF e

-----------------------------------------------------------------------------
(* One transaction.                                                        *)

\* What one iteration of the execution loop does.
LEMMA RunStepShape ==
    ASSUME NEW luck, NEW run, NEW tx
    PROVE  LET next == RunStep(luck, run, tx)
               r    == Execute(tx, luck, run.store)
           IN  /\ ~GasCoinResolves(tx, run.store) => next = run
               /\ GasCoinResolves(tx, run.store) =>
                     /\ next.store = ApplyResult(run.store, r)
                     /\ next.results = Append(run.results, r)
                     /\ next.done = Append(run.done, tx)
                     /\ next.fits = (run.fits /\ ResultFits(run.store, r))
  BY DEF RunStep

\* The gas charged is a natural number, since the coin is the one referred to.
LEMMA GasIsNatural ==
    ASSUME NEW tx \in Tx, NEW luck \in Luck, NEW s, GasCoinResolves(tx, s)
    PROVE  GasUsed(tx, luck, s) \in Nat
  <1>1. s[tx.gas.id].balance \in Nat
    BY TxAssumption DEF GasCoinResolves
  <1>2. tx.run[luck].cost \in Nat /\ BaseCost \in Nat
    BY TxAssumption, LimitsAssumption
  <1>3. QED
    BY <1>1, <1>2 DEF GasUsed

\* Execution creates objects under fresh ids with version 1, writes the gas
\* coin and arguments of the sender with the next version, and destroys only
\* arguments of the sender.
LEMMA ExecuteShape ==
    ASSUME NEW tx \in Tx, NEW luck \in Luck, NEW s
    PROVE  LET r == Execute(tx, luck, s) IN
           /\ r.tx = tx.id
           /\ r.gasUsed = GasUsed(tx, luck, s)
           /\ \A i \in DOMAIN r.created : i \in FreshIds(tx) /\ r.created[i].version = 1
           /\ tx.gas.id \in DOMAIN r.changed
           /\ \A i \in DOMAIN r.changed : r.changed[i].version = s[i].version + 1
           /\ \A i \in (DOMAIN r.changed \ {tx.gas.id}) \cup r.destroyed :
                 /\ i \in ArgIds(tx) /\ i \in DOMAIN s
                 /\ s[i].kind # "module" /\ s[i].owner = tx.sender
  <1> DEFINE r == Execute(tx, luck, s)
             run == tx.run[luck]
             ok == Succeeds(tx, luck, s)
             moved == IF ok THEN DOMAIN run.sends ELSE {}
  <1>1. /\ r.tx = tx.id
        /\ r.gasUsed = GasUsed(tx, luck, s)
        /\ r.created = [i \in moved \cap run.fresh |-> Written(tx, 1, run.sends[i])]
        /\ r.changed = [i \in (moved \ run.fresh) \cup {tx.gas.id} |->
                           IF i = tx.gas.id THEN GasCoinAfter(tx, luck, s)
                           ELSE Written(tx, s[i].version + 1, run.sends[i])]
        /\ r.destroyed = IF ok THEN run.burns \ run.fresh ELSE {}
    BY Zenon DEF Execute
  <1>2. run.fresh \subseteq FreshIds(tx)
    BY DEF FreshIds
  <1>3. \A v, sent : Written(tx, v, sent).version = v
    BY DEF Written
  <1>4. GasCoinAfter(tx, luck, s).version = s[tx.gas.id].version + 1
    BY <1>3 DEF GasCoinAfter
  <1>5. ASSUME NEW i \in (DOMAIN r.changed \ {tx.gas.id}) \cup r.destroyed
        PROVE  /\ i \in ArgIds(tx) /\ i \in DOMAIN s
               /\ s[i].kind # "module" /\ s[i].owner = tx.sender
    <2>1. ok /\ i \in DOMAIN run.sends \cup run.burns /\ i \notin run.fresh
      <3> HIDE DEF r, run, ok
      <3>1. DOMAIN r.changed = (moved \ run.fresh) \cup {tx.gas.id}
        BY <1>1, Zenon
      <3>2. i \in moved \ run.fresh \/ (ok /\ i \in run.burns \ run.fresh)
        BY <1>1, <3>1, Zenon
      <3>3. QED
        BY <3>2, Zenon
    <2>2. i \in ArgIds(tx)
      BY <2>1, TxAssumption
    <2>3. ArgsResolve(tx, s)
      BY <2>1 DEF Succeeds
    <2>4. QED
      BY <2>2, <2>3 DEF ArgsResolve, ArgIds
  <1> HIDE DEF r, run, ok, moved
  <1>6. ASSUME NEW i \in DOMAIN r.created
        PROVE  i \in FreshIds(tx) /\ r.created[i].version = 1
    <2>1. i \in moved \cap run.fresh
      BY <1>1, Zenon
    <2>2. r.created[i] = Written(tx, 1, run.sends[i])
      BY <1>1, <2>1, Zenon
    <2>3. QED
      BY <1>2, <1>3, <2>1, <2>2, Zenon
  <1>7. /\ tx.gas.id \in DOMAIN r.changed
        /\ \A i \in DOMAIN r.changed : r.changed[i].version = s[i].version + 1
    <2>1. DOMAIN r.changed = (moved \ run.fresh) \cup {tx.gas.id}
      BY <1>1, Zenon
    <2>2. r.changed[tx.gas.id] = GasCoinAfter(tx, luck, s)
      BY <1>1, Zenon
    <2>3. ASSUME NEW i \in DOMAIN r.changed, i # tx.gas.id
          PROVE  r.changed[i] = Written(tx, s[i].version + 1, run.sends[i])
      BY <1>1, <2>1, <2>3, Zenon
    <2>4. ASSUME NEW i \in DOMAIN r.changed PROVE r.changed[i].version = s[i].version + 1
      <3>1. CASE i = tx.gas.id
        BY <1>4, <2>2, <3>1, Zenon
      <3>2. CASE i # tx.gas.id
        <4>1. r.changed[i] = Written(tx, s[i].version + 1, run.sends[i])
          BY <2>3, <3>2, Zenon
        <4>2. Written(tx, s[i].version + 1, run.sends[i]).version = s[i].version + 1
          BY <1>3, Zenon
        <4>3. QED
          BY <4>1, <4>2, Zenon
      <3>3. QED
        BY <3>1, <3>2, Zenon
    <2>5. QED
      BY <2>1, <2>4, Zenon
  <1>8. QED
    BY <1>1, <1>5, <1>6, <1>7, Zenon DEF r

-----------------------------------------------------------------------------
(* The invariant of stores.  X are the transactions executed on the chain  *)
(* so far and n is its length.                                             *)

\* Where an object may come from.
Origin(i, X, n) ==
    \/ i \in DOMAIN GenesisStore
    \/ \E tx \in X : i \in FreshIds(tx)
    \/ IsRewardId(i) /\ Len(i[1]) \in 0..n

\* Every object has an origin; the gas coin of an executed transaction has
\* one too, and if it is still there, its version is past the reference the
\* transaction holds; the modules of genesis are untouched.
Sane(s, X, n) ==
    /\ \A i \in DOMAIN s : s[i].version \in Nat /\ Origin(i, X, n)
    /\ \A tx \in X :
          /\ Origin(tx.gas.id, X, n)
          /\ tx.gas.id \in DOMAIN s => s[tx.gas.id].version > tx.gas.obj.version
    /\ \A i \in DOMAIN GenesisStore :
          GenesisStore[i].kind = "module" => i \in DOMAIN s /\ s[i] = GenesisStore[i]

\* What the transactions in X may do to an object: give it a later version or
\* destroy it, for its owner, who names it.
Follows(s, t, X) ==
    \A i \in DOMAIN s :
        /\ i \in DOMAIN t => t[i] = s[i] \/ t[i].version > s[i].version
        /\ \/ i \in DOMAIN t /\ t[i] = s[i]
           \/ \E tx \in X : tx.sender = s[i].owner /\ i \in ArgIds(tx) \cup {tx.gas.id}

\* An id that once had an origin is not created again.
StaysGone(s, t, X, n) == \A i \in DOMAIN t : Origin(i, X, n) => i \in DOMAIN s

LEMMA SameIsWithin ==
    ASSUME NEW n \in Nat
    PROVE  n <= n
  OBVIOUS

\* Origins accumulate.
LEMMA OriginGrows ==
    ASSUME NEW X, NEW Y, X \subseteq Y, NEW n \in Nat, NEW m \in Nat, n <= m, NEW i, Origin(i, X, n)
    PROVE  Origin(i, Y, m)
  BY DEF Origin

\* A transaction whose gas coin resolves was not executed before, satisfies
\* the assertions of apply_execution_result, and leaves a sane store.
LEMMA ExecuteEffects ==
    ASSUME NEW X \in SUBSET Tx, NEW n \in Nat, NEW s, Sane(s, X, n),
           NEW tx \in Tx, NEW luck \in Luck, GasCoinResolves(tx, s)
    PROVE  LET r == Execute(tx, luck, s)
               t == ApplyResult(s, r)
           IN  /\ tx \notin X
               /\ ResultFits(s, r)
               /\ Sane(t, X \cup {tx}, n)
               /\ Follows(s, t, {tx})
               /\ StaysGone(s, t, X, n)
  <1> DEFINE r == Execute(tx, luck, s)
             t == ApplyResult(s, r)
             g == tx.gas.id
             Y == X \cup {tx}
  <1>1. /\ g \in DOMAIN s /\ s[g].kind = "coin" /\ s[g].owner = tx.sender
        /\ s[g] = tx.gas.obj /\ s[g].version \in Nat
    BY DEF GasCoinResolves, Sane
  <1>2. tx \notin X
    BY <1>1 DEF Sane
  <1>3. ASSUME NEW i \in FreshIds(tx) PROVE ~Origin(i, X, n)
    BY <1>2, DigestAssumption DEF Origin
  <1>4. \A i \in DOMAIN s : i \notin FreshIds(tx) /\ s[i].version \in Nat /\ Origin(i, X, n)
    BY <1>3 DEF Sane
  <1>5. /\ \A i \in DOMAIN r.created : i \in FreshIds(tx) /\ r.created[i].version = 1
        /\ g \in DOMAIN r.changed
        /\ \A i \in DOMAIN r.changed : r.changed[i].version = s[i].version + 1
        /\ \A i \in (DOMAIN r.changed \ {g}) \cup r.destroyed :
                 /\ i \in ArgIds(tx) /\ i \in DOMAIN s
                 /\ s[i].kind # "module" /\ s[i].owner = tx.sender
    BY ExecuteShape
  <1> HIDE DEF r
  <1>6. /\ DOMAIN t = (DOMAIN s \cup DOMAIN r.created) \ r.destroyed
        /\ \A i \in DOMAIN t : t[i] = IF i \in DOMAIN r.changed THEN r.changed[i]
                                      ELSE IF i \in DOMAIN r.created THEN r.created[i]
                                      ELSE s[i]
    BY DEF ApplyResult
  <1> HIDE DEF t
  <1>7. DOMAIN r.changed \subseteq DOMAIN s
    BY <1>1, <1>5
  <1>8. ResultFits(s, r)
    BY <1>4, <1>5, <1>7 DEF ResultFits
  <1>9. ASSUME NEW i \in DOMAIN s
        PROVE  /\ i \in DOMAIN t /\ i \notin DOMAIN r.changed => t[i] = s[i]
               /\ i \in DOMAIN t /\ i \in DOMAIN r.changed => t[i].version = s[i].version + 1
               /\ i \notin DOMAIN t => i \in r.destroyed
    BY <1>4, <1>5, <1>6
  <1>10. StaysGone(s, t, X, n)
    BY <1>3, <1>5, <1>6 DEF StaysGone
  <1>11. Follows(s, t, {tx})
    <2> SUFFICES ASSUME NEW i \in DOMAIN s
                 PROVE  /\ i \in DOMAIN t => t[i] = s[i] \/ t[i].version > s[i].version
                        /\ \/ i \in DOMAIN t /\ t[i] = s[i]
                           \/ tx.sender = s[i].owner /\ i \in ArgIds(tx) \cup {g}
      BY DEF Follows
    <2>1. i \in DOMAIN t => t[i] = s[i] \/ t[i].version > s[i].version
      BY <1>4, <1>9
    <2>2. i \in DOMAIN r.changed \cup r.destroyed =>
              tx.sender = s[i].owner /\ i \in ArgIds(tx) \cup {g}
      BY <1>1, <1>5
    <2>3. QED
      BY <1>9, <2>1, <2>2
  <1>12. Sane(t, Y, n)
    <2>1. ASSUME NEW i \in DOMAIN t PROVE t[i].version \in Nat /\ Origin(i, Y, n)
      <3>1. CASE i \in DOMAIN s
        <4>1. Origin(i, Y, n)
          BY <1>4, <3>1, OriginGrows
        <4>2. t[i].version \in Nat
          BY <1>4, <1>9, <3>1
        <4>3. QED
          BY <4>1, <4>2
      <3>2. CASE i \notin DOMAIN s
        <4>1. i \in DOMAIN r.created /\ i \notin DOMAIN r.changed
          BY <1>6, <1>7, <3>2
        <4>2. t[i].version \in Nat
          BY <1>5, <1>6, <4>1
        <4>3. Origin(i, Y, n)
          BY <1>5, <4>1 DEF Origin
        <4>4. QED
          BY <4>2, <4>3
      <3>3. QED
        BY <3>1, <3>2
    <2>2. ASSUME NEW u \in Y
          PROVE  /\ Origin(u.gas.id, Y, n)
                 /\ u.gas.id \in DOMAIN t => t[u.gas.id].version > u.gas.obj.version
      <3>1. CASE u = tx
        <4>1. Origin(g, Y, n)
          BY <1>1, <1>4, OriginGrows
        <4>2. g \in DOMAIN t => t[g].version = s[g].version + 1
          BY <1>1, <1>5, <1>9
        <4>3. g \in DOMAIN t => t[g].version > tx.gas.obj.version
          BY <1>1, <4>2
        <4>4. QED
          BY <4>1, <4>3, <3>1
      <3>2. CASE u \in X
        <4>1. Origin(u.gas.id, X, n) /\ u.gas.obj.version \in Nat
          BY <3>2, TxAssumption DEF Sane
        <4>2. Origin(u.gas.id, Y, n)
          BY <4>1, OriginGrows
        <4>3. ASSUME u.gas.id \in DOMAIN t PROVE t[u.gas.id].version > u.gas.obj.version
          <5>1. u.gas.id \in DOMAIN s
            BY <4>1, <4>3, <1>10 DEF StaysGone
          <5>2. s[u.gas.id].version > u.gas.obj.version /\ s[u.gas.id].version \in Nat
            BY <5>1, <3>2 DEF Sane
          <5>3. t[u.gas.id].version = s[u.gas.id].version \/ t[u.gas.id].version = s[u.gas.id].version + 1
            BY <5>1, <4>3, <1>9
          <5>4. QED
            BY <4>1, <5>2, <5>3
        <4>4. QED
          BY <4>2, <4>3
      <3>3. QED
        BY <3>1, <3>2
    <2>3. ASSUME NEW i \in DOMAIN GenesisStore, GenesisStore[i].kind = "module"
          PROVE  i \in DOMAIN t /\ t[i] = GenesisStore[i]
      <3>1. i \in DOMAIN s /\ s[i] = GenesisStore[i]
        BY <2>3 DEF Sane
      <3>2. i \notin DOMAIN r.changed /\ i \notin r.destroyed
        BY <3>1, <2>3, <1>1, <1>5
      <3>3. QED
        BY <3>1, <3>2, <1>9
    <2>4. QED
      BY <2>1, <2>2, <2>3, Zenon DEF Sane
  <1>13. QED
    BY <1>2, <1>8, <1>10, <1>11, <1>12 DEF t, r

-----------------------------------------------------------------------------
(* A batch.                                                                *)

\* acc[i] is the state of the execution loop after i transactions.
Iterates(txs, luck, s, acc) ==
    /\ RunBatch(txs, luck, s) = acc[Len(txs)]
    /\ acc[0] = [store |-> s, results |-> << >>, done |-> << >>, fits |-> TRUE]
    /\ \A i \in 1..Len(txs) : acc[i] = RunStep(luck, acc[i - 1], txs[i])

LEMMA BatchTrace ==
    ASSUME NEW txs \in Seq(Tx), NEW luck, NEW s
    PROVE  \E acc : Iterates(txs, luck, s, acc)
  <1> DEFINE start == [store |-> s, results |-> << >>, done |-> << >>, fits |-> TRUE]
  <1>1. ExecutionLoop!Run(luck, start, txs) = RunBatch(txs, luck, s)
    BY DEF ExecutionLoop!Run, Execution!Run, RunBatch
  <1> HIDE DEF start
  <1>2. Len(txs) \in Nat /\ ExecutionLoop!Counts(Len(txs))
    BY LenProperties, Induction DEF ExecutionLoop!Counts
  <1>3. \E acc : /\ ExecutionLoop!Run(luck, start, txs) = acc[Len(txs)]
                 /\ acc[0] = start
                 /\ \A i \in 1..Len(txs) : acc[i] = RunStep(luck, acc[i - 1], txs[i])
    BY <1>2, ExecutionLoop!RunTrace
  <1>4. QED
    BY <1>1, <1>3 DEF start, Iterates

\* What was executed is drawn from the batch, with one result for each.
OneResultEach(run, txs) ==
    /\ Drawn(run.done, txs, Len(txs))
    /\ \E R : run.results \in Seq(R) /\ \A r \in R : r.gasUsed \in Nat
    /\ Len(run.results) = Len(run.done)
    /\ \A k \in 1..Len(run.done) : run.results[k].tx = run.done[k].id

LEMMA BatchSound ==
    ASSUME NEW txs \in Seq(Tx), IsInjective(TxRoot(txs)), NEW luck \in Luck, NEW s
    PROVE  OneResultEach(RunBatch(txs, luck, s), txs)
  <1>0. Len(txs) \in Nat
    BY LenProperties
  <1>a. PICK acc : Iterates(txs, luck, s, acc)
    BY BatchTrace
  <1>1. /\ RunBatch(txs, luck, s) = acc[Len(txs)]
        /\ acc[0] = [store |-> s, results |-> << >>, done |-> << >>, fits |-> TRUE]
        /\ \A i \in 1..Len(txs) : acc[i] = RunStep(luck, acc[i - 1], txs[i])
    BY <1>a DEF Iterates
  <1> DEFINE Result(i) == Execute(txs[i], luck, acc[i - 1].store)
             R == {r \in {Result(i) : i \in 1..Len(txs)} : r.gasUsed \in Nat}
             P(i) == /\ Drawn(acc[i].done, txs, i)
                     /\ acc[i].results \in Seq(R)
                     /\ Len(acc[i].results) = Len(acc[i].done)
                     /\ \A k \in 1..Len(acc[i].done) : acc[i].results[k].tx = acc[i].done[k].id
             S == {i \in 0..Len(txs) : P(i)}
  <1>2. 0 \in S
    <2>1. P(0)
      BY <1>1, DrawnEmpty
    <2>2. QED
      BY <1>0, <2>1
  <1>3. ASSUME NEW i \in 0..(Len(txs) - 1), i \in S PROVE i + 1 \in S
    <2> DEFINE run == acc[i]
               tx == txs[i + 1]
               next == acc[i + 1]
               r == Execute(tx, luck, run.store)
    <2>1. /\ i + 1 \in 1..Len(txs) /\ i \in Nat /\ (i + 1) - 1 = i
          /\ tx \in Tx
      BY <1>0, ElementOfSeq
    <2>2. next = RunStep(luck, run, tx)
      BY <1>1, <2>1
    <2>3. P(i)
      BY <1>3, Zenon
    <2>4. Drawn(run.done, txs, i + 1) /\ Drawn(Append(run.done, tx), txs, i + 1)
      BY <2>3, DrawnMore
    <2>5. CASE ~GasCoinResolves(tx, run.store)
      <3>1. next = run
        BY <2>2, <2>5, RunStepShape
      <3>2. P(i + 1)
        BY <2>3, <2>4, <3>1, Zenon
      <3> HIDE DEF P
      <3>3. QED
        BY <1>0, <2>1, <3>2
    <2>6. CASE GasCoinResolves(tx, run.store)
      <3>1. next.results = Append(run.results, r) /\ next.done = Append(run.done, tx)
        <4> HIDE DEF run, tx, next
        <4>1. QED
          BY <2>2, <2>6, RunStepShape DEF r
      <3>2. r.gasUsed \in Nat /\ r.tx = tx.id
        <4> HIDE DEF run, tx
        <4>1. GasUsed(tx, luck, run.store) \in Nat
          BY <2>1, <2>6, GasIsNatural
        <4>2. r.gasUsed = GasUsed(tx, luck, run.store) /\ r.tx = tx.id
          BY <2>1, ExecuteShape
        <4>3. QED
          BY <4>1, <4>2
      <3>3. r \in R
        <4>1. r = Result(i + 1)
          BY <2>1
        <4>2. QED
          BY <2>1, <3>2, <4>1
      <3> HIDE DEF R, r, run, tx, next
      <3>4. /\ run.results \in Seq(R) /\ run.done \in Seq(Tx)
            /\ Len(run.results) = Len(run.done)
            /\ \A k \in 1..Len(run.done) : run.results[k].tx = run.done[k].id
        BY <2>3 DEF Drawn, run
      <3>5. /\ next.results \in Seq(R)
            /\ Len(next.results) = Len(run.done) + 1 /\ Len(next.done) = Len(run.done) + 1
            /\ \A k \in 1..Len(run.done) : /\ next.results[k] = run.results[k]
                                           /\ next.done[k] = run.done[k]
            /\ next.results[Len(run.done) + 1] = r /\ next.done[Len(run.done) + 1] = tx
            /\ Len(run.done) \in Nat
        BY <2>1, <3>1, <3>3, <3>4, AppendProperties, LenProperties
      <3>6. \A k \in 1..Len(next.done) : next.results[k].tx = next.done[k].id
        <4> TAKE k \in 1..Len(next.done)
        <4>1. CASE k \in 1..Len(run.done)
          BY <3>4, <3>5, <4>1, Zenon
        <4>2. CASE k = Len(run.done) + 1
          BY <3>2, <3>5, <4>2
        <4>3. QED
          BY <3>5, <4>1, <4>2
      <3>7. P(i + 1)
        BY <2>4, <3>1, <3>5, <3>6 DEF next
      <3>8. QED
        BY <2>1, <3>7
    <2>7. QED
      BY <2>5, <2>6
  <1>4. Len(txs) \in S
    <2> HIDE DEF S
    <2>1. 0..Len(txs) \subseteq S
      BY <1>0, <1>2, <1>3, Induction
    <2>2. QED
      BY <1>0, <2>1
  <1>5. P(Len(txs))
    BY <1>4
  <1>6. \A r \in R : r.gasUsed \in Nat
    OBVIOUS
  <1> HIDE DEF R
  <1>7. QED
    BY <1>1, <1>5, <1>6 DEF OneResultEach

\* The gas of a block is a natural number.
LEMMA TotalGasIsNatural ==
    ASSUME NEW R, NEW results \in Seq(R), \A r \in R : r.gasUsed \in Nat
    PROVE  TotalGas(results) \in Nat
  <1>0. Len(results) \in Nat
    BY LenProperties
  <1>1. GasLoop!Run(0, 0, results) = TotalGas(results)
    BY DEF GasLoop!Run, Gas!Run, TotalGas
  <1>a. GasLoop!Counts(Len(results))
    BY <1>0, Induction, Zenon DEF GasLoop!Counts
  <1>2. PICK acc : /\ TotalGas(results) = acc[Len(results)]
                   /\ acc[0] = 0
                   /\ \A i \in 1..Len(results) : acc[i] = AddGas(0, acc[i - 1], results[i])
    BY <1>0, <1>1, <1>a, GasLoop!RunTrace
  <1> DEFINE S == {i \in 0..Len(results) : acc[i] \in Nat}
  <1>3. 0 \in S
    BY <1>0, <1>2
  <1>4. ASSUME NEW i \in 0..(Len(results) - 1), i \in S PROVE i + 1 \in S
    <2>1. i + 1 \in 1..Len(results) /\ i + 1 \in 0..Len(results) /\ (i + 1) - 1 = i
      BY <1>0
    <2>2. acc[i + 1] = acc[i] + results[i + 1].gasUsed
      BY <1>2, <2>1 DEF AddGas
    <2>3. results[i + 1].gasUsed \in Nat
      BY <2>1, ElementOfSeq
    <2>4. acc[i] \in Nat
      BY <1>4
    <2>5. acc[i + 1] \in Nat
      BY <2>2, <2>3, <2>4
    <2>6. QED
      BY <2>1, <2>5
  <1> HIDE DEF S
  <1>5. 0..Len(results) \subseteq S
    BY <1>0, <1>3, <1>4, Induction, Zenon
  <1>6. Len(results) \in S
    BY <1>0, <1>5
  <1>7. QED
    BY <1>2, <1>6 DEF S

\* Nothing happens to a store without a transaction.
LEMMA FollowsNothing ==
    ASSUME NEW s, NEW X
    PROVE  Follows(s, s, X)
  BY DEF Follows

\* First the transactions in X, then those in Y.
LEMMA FollowsThen ==
    ASSUME NEW s, NEW t, NEW u, NEW X, NEW Y, Follows(s, t, X), Follows(t, u, Y),
           \A i \in DOMAIN s : s[i].version \in Nat,
           \A i \in DOMAIN t : t[i].version \in Nat,
           \A i \in DOMAIN u : u[i].version \in Nat,
           \A i \in DOMAIN s : i \in DOMAIN u => i \in DOMAIN t
    PROVE  Follows(s, u, X \cup Y)
  <1> SUFFICES ASSUME NEW i \in DOMAIN s
               PROVE  /\ i \in DOMAIN u => u[i] = s[i] \/ u[i].version > s[i].version
                      /\ \/ i \in DOMAIN u /\ u[i] = s[i]
                         \/ \E tx \in X \cup Y : /\ tx.sender = s[i].owner
                                                 /\ i \in ArgIds(tx) \cup {tx.gas.id}
    BY DEF Follows
  <1>1. i \in DOMAIN u => u[i] = s[i] \/ u[i].version > s[i].version
    <2> SUFFICES ASSUME i \in DOMAIN u PROVE u[i] = s[i] \/ u[i].version > s[i].version
      OBVIOUS
    <2>1. i \in DOMAIN t
      OBVIOUS
    <2>2. t[i] = s[i] \/ t[i].version > s[i].version
      BY <2>1 DEF Follows
    <2>3. u[i] = t[i] \/ u[i].version > t[i].version
      BY <2>1 DEF Follows
    <2>4. s[i].version \in Nat /\ t[i].version \in Nat /\ u[i].version \in Nat
      BY <2>1
    <2>5. QED
      BY <2>2, <2>3, <2>4
  <1>2. CASE i \in DOMAIN t /\ t[i] = s[i]
    BY <1>1, <1>2 DEF Follows
  <1>3. CASE ~(i \in DOMAIN t /\ t[i] = s[i])
    BY <1>1, <1>3 DEF Follows
  <1>4. QED
    BY <1>2, <1>3

\* The transactions of a list with one more.
LEMMA SetOfAppend ==
    ASSUME NEW d \in Seq(Tx), NEW tx \in Tx
    PROVE  Range(Append(d, tx)) = Range(d) \cup {tx} /\ Range(d) \subseteq Tx
  <1> DEFINE e == Append(d, tx)
  <1>1. /\ DOMAIN d = 1..Len(d) /\ Len(d) \in Nat /\ \A k \in 1..Len(d) : d[k] \in Tx
        /\ DOMAIN e = 1..(Len(d) + 1)
        /\ \A k \in 1..Len(d) : e[k] = d[k]
        /\ e[Len(d) + 1] = tx
    BY AppendProperties, LenProperties, ElementOfSeq
  <1> HIDE DEF e
  <1>2. Range(d) \subseteq Tx
    BY <1>1 DEF Range
  <1>3. \A x : x \in Range(e) <=> x \in Range(d) \cup {tx}
    <2> TAKE x
    <2>1. ASSUME x \in Range(e) PROVE x \in Range(d) \cup {tx}
      <3>1. PICK k \in 1..(Len(d) + 1) : x = e[k]
        BY <2>1, <1>1 DEF Range
      <3>2. k \in 1..Len(d) \/ k = Len(d) + 1
        BY <1>1
      <3>3. QED
        BY <1>1, <3>1, <3>2 DEF Range
    <2>2. ASSUME x \in Range(d) PROVE x \in Range(e)
      <3>1. PICK k \in 1..Len(d) : x = d[k]
        BY <2>2, <1>1 DEF Range
      <3>2. k \in 1..(Len(d) + 1)
        BY <1>1
      <3>3. QED
        BY <1>1, <3>1, <3>2 DEF Range
    <2>3. tx \in Range(e)
      <3>1. Len(d) + 1 \in 1..(Len(d) + 1)
        BY <1>1
      <3>2. QED
        BY <1>1, <3>1 DEF Range
    <2>4. QED
      BY <2>1, <2>2, <2>3
  <1>4. QED
    BY <1>2, <1>3 DEF e

\* What the execution loop has done to a sane store s after some iterations.
Effects(s, X, n, run) ==
    /\ run.done \in Seq(Tx)
    /\ run.fits
    /\ Sane(run.store, X \cup Range(run.done), n)
    /\ Range(run.done) \cap X = {}
    /\ Follows(s, run.store, Range(run.done))
    /\ StaysGone(s, run.store, X, n)

\* Before the first.
LEMMA NoEffects ==
    ASSUME NEW X, NEW n, NEW s, Sane(s, X, n)
    PROVE  Effects(s, X, n, [store |-> s, results |-> << >>, done |-> << >>, fits |-> TRUE])
  <1> DEFINE run == [store |-> s, results |-> << >>, done |-> << >>, fits |-> TRUE]
  <1>1. run.done = << >> /\ run.store = s /\ run.fits /\ Range(<< >>) = {}
    BY DEF Range
  <1> HIDE DEF run
  <1>2. X \cup Range(run.done) = X /\ Range(run.done) \cap X = {} /\ run.done \in Seq(Tx)
    BY <1>1
  <1>3. Follows(s, run.store, Range(run.done)) /\ StaysGone(s, run.store, X, n)
    BY <1>1, FollowsNothing DEF StaysGone
  <1>4. Effects(s, X, n, run)
    BY <1>1, <1>2, <1>3, Zenon DEF Effects
  <1>5. QED
    BY <1>4 DEF run

\* One more transaction.
LEMMA EffectsStep ==
    ASSUME NEW X \in SUBSET Tx, NEW n \in Nat, NEW s, Sane(s, X, n), NEW luck \in Luck,
           NEW tx \in Tx, NEW run, Effects(s, X, n, run)
    PROVE  Effects(s, X, n, RunStep(luck, run, tx))
  <1>1. CASE ~GasCoinResolves(tx, run.store)
    BY <1>1, RunStepShape
  <1>2. CASE GasCoinResolves(tx, run.store)
    <2> DEFINE t == run.store
               r == Execute(tx, luck, t)
               u == ApplyResult(t, r)
               D == Range(run.done)
               Y == X \cup D
               next == RunStep(luck, run, tx)
    <2>1. /\ next.store = u /\ next.done = Append(run.done, tx)
          /\ next.fits = (run.fits /\ ResultFits(t, r))
      BY <1>2, RunStepShape
    <2> HIDE DEF next
    <2>2. Range(next.done) = D \cup {tx} /\ D \subseteq Tx /\ next.done \in Seq(Tx)
      BY <2>1, SetOfAppend, AppendProperties DEF Effects
    <2>3. Y \in SUBSET Tx
      BY <2>2
    <2>4. Sane(t, Y, n)
      BY DEF Effects
    <2>5. /\ tx \notin Y /\ ResultFits(t, r) /\ Sane(u, Y \cup {tx}, n)
          /\ Follows(t, u, {tx}) /\ StaysGone(t, u, Y, n)
      <3> HIDE DEF t, Y
      <3>1. GasCoinResolves(tx, t)
        BY <1>2 DEF t
      <3>2. QED
        BY <2>3, <2>4, <3>1, ExecuteEffects, Zenon
    <2> HIDE DEF r, u
    <2>6. Sane(next.store, X \cup Range(next.done), n)
      <3>1. X \cup Range(next.done) = Y \cup {tx}
        BY <2>2
      <3>2. QED
        BY <2>1, <2>5, <3>1, Zenon
    <2>7. StaysGone(s, u, X, n)
      <3> SUFFICES ASSUME NEW i \in DOMAIN u, Origin(i, X, n) PROVE i \in DOMAIN s
        BY DEF StaysGone
      <3>1. Origin(i, Y, n)
        BY OriginGrows
      <3>2. i \in DOMAIN t
        BY <2>5, <3>1 DEF StaysGone
      <3>3. QED
        BY <3>2 DEF Effects, StaysGone
    <2>8. Follows(s, u, D \cup {tx})
      <3>1. /\ \A i \in DOMAIN s : s[i].version \in Nat
            /\ \A i \in DOMAIN t : t[i].version \in Nat
            /\ \A i \in DOMAIN u : u[i].version \in Nat
        BY <2>4, <2>5 DEF Sane
      <3>2. ASSUME NEW i \in DOMAIN s, i \in DOMAIN u PROVE i \in DOMAIN t
        <4>1. Origin(i, X, n)
          BY DEF Sane
        <4>2. Origin(i, Y, n)
          BY <4>1, OriginGrows
        <4>3. QED
          BY <2>5, <3>2, <4>2 DEF StaysGone
      <3>3. Follows(s, t, D)
        BY DEF Effects
      <3> HIDE DEF t, D
      <3>4. QED
        BY <2>5, <3>1, <3>2, <3>3, FollowsThen
    <2>9. next.fits /\ Range(next.done) \cap X = {}
      BY <2>1, <2>2, <2>5, Zenon DEF Effects
    <2>10. Effects(s, X, n, next)
      BY <2>1, <2>2, <2>6, <2>7, <2>8, <2>9 DEF Effects
    <2>11. QED
      BY <2>10 DEF next
  <1>3. QED
    BY <1>1, <1>2

\* A whole batch.
LEMMA BatchEffects ==
    ASSUME NEW X \in SUBSET Tx, NEW n \in Nat, NEW s, Sane(s, X, n), NEW luck \in Luck,
           NEW txs \in Seq(Tx)
    PROVE  Effects(s, X, n, RunBatch(txs, luck, s))
  <1>0. Len(txs) \in Nat
    BY LenProperties
  <1>a. PICK acc : Iterates(txs, luck, s, acc)
    BY BatchTrace
  <1>1. /\ RunBatch(txs, luck, s) = acc[Len(txs)]
        /\ acc[0] = [store |-> s, results |-> << >>, done |-> << >>, fits |-> TRUE]
        /\ \A i \in 1..Len(txs) : acc[i] = RunStep(luck, acc[i - 1], txs[i])
    BY <1>a DEF Iterates
  <1> DEFINE S == {i \in 0..Len(txs) : Effects(s, X, n, acc[i])}
  <1>2. 0 \in S
    <2>1. Effects(s, X, n, acc[0])
      BY <1>1, NoEffects
    <2>2. 0 \in 0..Len(txs)
      BY <1>0
    <2>3. QED
      BY <2>1, <2>2
  <1>3. ASSUME NEW i \in 0..(Len(txs) - 1), i \in S PROVE i + 1 \in S
    <2>1. i + 1 \in 1..Len(txs) /\ i + 1 \in 0..Len(txs) /\ (i + 1) - 1 = i
      BY <1>0
    <2>2. txs[i + 1] \in Tx
      BY <2>1, ElementOfSeq
    <2>3. acc[i + 1] = RunStep(luck, acc[i], txs[i + 1])
      BY <1>1, <2>1
    <2>4. Effects(s, X, n, acc[i])
      BY <1>3
    <2>5. Effects(s, X, n, acc[i + 1])
      BY <2>2, <2>3, <2>4, EffectsStep
    <2>6. QED
      BY <2>1, <2>5
  <1> HIDE DEF S
  <1>4. 0..Len(txs) \subseteq S
    BY <1>0, <1>2, <1>3, Induction, Zenon
  <1>5. Len(txs) \in S
    BY <1>0, <1>4
  <1>6. QED
    BY <1>1, <1>5 DEF S

-----------------------------------------------------------------------------
(* The reward and the block.                                               *)

\* The store after the reward, if there is one: one more coin.
LEMMA RewardShape ==
    ASSUME NEW s, NEW reward
    PROVE  LET t  == WithReward(s, {reward})
               id == RewardId(reward.seed, reward.to)
           IN  /\ WithReward(s, {}) = s
               /\ ResultFits(s, ExecuteReward(reward)) <=> id \notin DOMAIN s
               /\ DOMAIN t = DOMAIN s \cup {id}
               /\ id \notin DOMAIN s => /\ t[id].version = 1 /\ t[id].kind = "coin"
                                      /\ t[id].balance = reward.amount
               /\ \A i \in DOMAIN s : i # id => t[i] = s[i]
  <1> DEFINE r == ExecuteReward(reward)
             t == WithReward(s, {reward})
             id == RewardId(reward.seed, reward.to)
  <1>1. WithReward(s, {}) = s
    BY DEF WithReward
  <1>2. t = ApplyResult(s, r)
    BY DEF WithReward
  <1>3. /\ r.created = [i \in {id} |-> [version |-> 1, owner |-> reward.to, kind |-> "coin",
                                        balance |-> reward.amount, tx |-> "reward"]]
        /\ r.changed = << >> /\ r.destroyed = {}
    BY DEF ExecuteReward
  <1>4. /\ DOMAIN r.created = {id} /\ DOMAIN r.changed = {}
        /\ r.created[id].version = 1 /\ r.created[id].kind = "coin"
        /\ r.created[id].balance = reward.amount
    BY <1>3
  <1> HIDE DEF r, id, t
  <1>5. ResultFits(s, r) <=> id \notin DOMAIN s
    BY <1>3, <1>4 DEF ResultFits
  <1>6. /\ DOMAIN t = DOMAIN s \cup {id}
        /\ \A i \in DOMAIN t : t[i] = IF i \in DOMAIN r.created THEN r.created[i] ELSE s[i]
    BY <1>2, <1>3, <1>4 DEF ApplyResult
  <1>7. QED
    BY <1>1, <1>4, <1>5, <1>6 DEF r, id, t

\* The coin minted for a block extending a chain of length n is new.
LEMMA RewardEffects ==
    ASSUME NEW X \in SUBSET Tx, NEW n \in Nat, NEW s, Sane(s, X, n), NEW Y,
           NEW seed, Len(seed) = n + 1, NEW miner, NEW amount,
           NEW reward \in {{}, {RewardTx(miner, amount, seed)}}
    PROVE  LET t == WithReward(s, reward)
           IN  /\ \A r \in reward : ResultFits(s, ExecuteReward(r))
               /\ Sane(t, X, n + 1)
               /\ Follows(s, t, Y)
               /\ \A i \in DOMAIN t : Origin(i, X, n) => i \in DOMAIN s
  <1>0. \A i : Origin(i, X, n) => Origin(i, X, n + 1)
    BY OriginGrows
  <1>1. CASE reward = {}
    <2>1. WithReward(s, reward) = s
      BY <1>1, RewardShape, Zenon
    <2>2. Sane(s, X, n + 1)
      BY <1>0 DEF Sane
    <2>3. QED
      BY <1>1, <2>1, <2>2, FollowsNothing
  <1>2. CASE reward = {RewardTx(miner, amount, seed)}
    <2> DEFINE r == RewardTx(miner, amount, seed)
               t == WithReward(s, reward)
               id == RewardId(seed, miner)
    <2>1. r.seed = seed /\ r.to = miner
      BY DEF RewardTx
    <2>2. IsRewardId(id) /\ id[1] = seed
      BY DEF RewardId, IsRewardId
    <2>3. ~Origin(id, X, n) /\ Origin(id, X, n + 1)
      <3> HIDE DEF id
      <3>1. Len(id[1]) \in 0..(n + 1) /\ Len(id[1]) \notin 0..n
        BY <2>2
      <3>2. id \notin DOMAIN GenesisStore /\ \A tx \in X : id \notin FreshIds(tx)
        BY <2>2, GenesisAssumption, DigestAssumption
      <3>3. QED
        BY <2>2, <3>1, <3>2 DEF Origin
    <2>4. id \notin DOMAIN s
      BY <2>3 DEF Sane
    <2>5. /\ ResultFits(s, ExecuteReward(r))
          /\ DOMAIN t = DOMAIN s \cup {id}
          /\ t[id].version = 1
          /\ \A i \in DOMAIN s : t[i] = s[i]
      <3> HIDE DEF r
      <3>1. reward = {r} /\ id = RewardId(r.seed, r.to)
        BY <1>2, <2>1 DEF r
      <3>2. t = WithReward(s, {r})
        BY <3>1
      <3> DEFINE T == WithReward(s, {r})
                 I == RewardId(r.seed, r.to)
      <3>3. /\ ResultFits(s, ExecuteReward(r)) <=> I \notin DOMAIN s
            /\ DOMAIN T = DOMAIN s \cup {I}
            /\ I \notin DOMAIN s => T[I].version = 1
            /\ \A i \in DOMAIN s : i # I => T[i] = s[i]
        BY RewardShape, Zenon
      <3>4. t = T /\ id = I
        BY <3>1, <3>2, Zenon
      <3> HIDE DEF t, id, T, I
      <3>5. /\ ResultFits(s, ExecuteReward(r))
            /\ DOMAIN t = DOMAIN s \cup {id}
            /\ t[id].version = 1
        BY <2>4, <3>3, <3>4, Zenon
      <3>6. \A i \in DOMAIN s : t[i] = s[i]
        BY <2>4, <3>3, <3>4, Zenon
      <3>7. QED
        BY <3>5, <3>6, Zenon
    <2> HIDE DEF t, id
    <2>6. Sane(t, X, n + 1)
      <3>1. ASSUME NEW i \in DOMAIN t PROVE t[i].version \in Nat /\ Origin(i, X, n + 1)
        BY <1>0, <2>3, <2>5 DEF Sane
      <3>2. ASSUME NEW tx \in X
            PROVE  /\ Origin(tx.gas.id, X, n + 1)
                   /\ tx.gas.id \in DOMAIN t => t[tx.gas.id].version > tx.gas.obj.version
        <4>1. Origin(tx.gas.id, X, n)
          BY DEF Sane
        <4>2. tx.gas.id # id
          BY <2>3, <4>1
        <4>3. QED
          BY <1>0, <2>5, <4>1, <4>2 DEF Sane
      <3>3. ASSUME NEW i \in DOMAIN GenesisStore, GenesisStore[i].kind = "module"
            PROVE  i \in DOMAIN t /\ t[i] = GenesisStore[i]
        BY <2>5, <3>3 DEF Sane
      <3>4. QED
        BY <3>1, <3>2, <3>3 DEF Sane
    <2>7. Follows(s, t, Y)
      BY <2>5 DEF Follows
    <2>8. \A i \in DOMAIN t : Origin(i, X, n) => i \in DOMAIN s
      BY <2>3, <2>5
    <2>9. \A x \in reward : ResultFits(s, ExecuteReward(x))
      BY <1>2, <2>5
    <2>10. QED
      BY <2>6, <2>7, <2>8, <2>9 DEF t
  <1>3. QED
    BY <1>1, <1>2

\* The reward transaction of a round, if there is one.
RewardOf(round, luck, miner) ==
    LET total == TotalGas(RunBatch(round.batch, luck, round.store).results)
    IN  IF total > 0
        THEN {RewardTx(miner, total, Seed(round.parent, round.txRoot, round.timestamp))}
        ELSE {}

\* w is how the round ends with a block: the fields of the block.
SolvedAs(round, luck, miner, w) ==
    /\ w.stage = "solved"
    /\ w.store = WithReward(RunBatch(round.batch, luck, round.store).store,
                             RewardOf(round, luck, miner))
    /\ w.block.hash = BlockHash(round.parent, round.txRoot, round.timestamp, luck, miner)
    /\ w.block.parent = round.parent /\ w.block.height = round.height
    /\ w.block.timestamp = round.timestamp /\ w.block.txRoot = round.txRoot
    /\ w.block.rewardRoot = RewardOf(round, luck, miner) /\ w.block.stateRoot = w.store
    /\ w.block.nonce.seed = Seed(round.parent, round.txRoot, round.timestamp)
    /\ w.block.nonce.luck = luck
    /\ w.block.txs = RunBatch(round.batch, luck, round.store).done
    /\ w.block.results = RunBatch(round.batch, luck, round.store).results
    /\ w.block.rewardTx = RewardOf(round, luck, miner)
    /\ w.block.rewardResult = {ExecuteReward(r) : r \in RewardOf(round, luck, miner)}

LEMMA SolveShape ==
    ASSUME NEW round, NEW luck, NEW miner
    PROVE  SolvedAs(round, luck, miner, Solve(round, luck, miner))
  BY Zenon DEF SolvedAs, Solve, StateRoot, RewardOf

\* The two bounds that ValidStructure puts on a block.
LEMMA WithinDrift ==
    ASSUME NEW made \in Nat, NEW now \in Nat, NEW drift \in Nat, made <= now
    PROVE  made <= now + drift
  OBVIOUS

LEMMA WithinLimit ==
    ASSUME NEW S, NEW q \in Seq(S), NEW m \in Nat, Len(q) \in 1..m
    PROVE  q # << >> /\ Len(q) <= m
  OBVIOUS

\* A block finished without dropping a transaction passes every check of
\* apply_block against the store it was executed on, and re-executing it gives
\* the store the round computed.
LEMMA SolvedVerifies ==
    ASSUME NEW round, Minable(round.batch), round.txRoot = TxRoot(round.batch),
           NEW now \in Nat, round.timestamp \in Nat, round.timestamp <= now,
           NEW luck \in Luck, NEW miner,
           RunBatch(round.batch, luck, round.store).done = round.batch
    PROVE  LET w == Solve(round, luck, miner)
           IN  /\ ValidStructure(w.block, now)
               /\ ReplayOk(w.block, round.store)
               /\ ReplayStore(w.block, round.store) = w.store
  <1> DEFINE w      == Solve(round, luck, miner)
             b      == w.block
             seed   == Seed(round.parent, round.txRoot, round.timestamp)
             run    == RunBatch(round.batch, luck, round.store)
             total  == TotalGas(run.results)
             reward == IF total > 0 THEN {RewardTx(miner, total, seed)} ELSE {}
  <1>1. /\ w.store = WithReward(run.store, reward)
        /\ b.parent = round.parent /\ b.timestamp = round.timestamp /\ b.txRoot = round.txRoot
        /\ b.rewardRoot = reward /\ b.nonce.seed = seed /\ b.nonce.luck = luck
        /\ b.txs = run.done /\ b.results = run.results
        /\ b.rewardTx = reward /\ b.rewardResult = {ExecuteReward(r) : r \in reward}
    <2>1. SolvedAs(round, luck, miner, w)
      BY SolveShape
    <2>2. reward = RewardOf(round, luck, miner)
      BY DEF RewardOf
    <2> HIDE DEF w, reward
    <2>3. QED
      BY <2>1, <2>2 DEF SolvedAs
  <1> HIDE DEF w
  <1>2. /\ round.batch \in Seq(Tx) /\ IsInjective(TxRoot(round.batch))
        /\ Len(round.batch) \in 1..MaxTxs
        /\ \A i \in 1..Len(round.batch) : ValidSigned(round.batch[i])
    BY DEF Minable
  <1>3. b.txs = round.batch
    BY <1>1
  <1>4. Len(run.results) = Len(round.batch) /\ total \in Nat
    <2>1. /\ \E R : run.results \in Seq(R) /\ \A r \in R : r.gasUsed \in Nat
          /\ Len(run.results) = Len(run.done)
      <3>1. OneResultEach(run, round.batch)
        BY <1>2, BatchSound, Zenon
      <3> HIDE DEF run
      <3>2. QED
        BY <3>1, Zenon DEF OneResultEach
    <2>2. QED
      BY <2>1, TotalGasIsNatural
  <1>5. ReplayStore(b, round.store) = w.store
    <2>1. RunBatch(b.txs, b.nonce.luck, round.store) = run
      BY <1>1, <1>3
    <2> HIDE DEF run, reward, b
    <2>2. QED
      BY <1>1, <2>1 DEF ReplayStore, b
  <1> HIDE DEF run, seed
  <1>6. ValidStructure(b, now)
    <2>1. b.txs # << >> /\ Len(b.txs) <= MaxTxs
      BY <1>2, <1>3, LimitsAssumption, WithinLimit, Zenon
    <2>2. b.timestamp <= now + Drift
      <3> DEFINE made == round.timestamp
      <3>1. b.timestamp = made
        BY <1>1, Zenon
      <3>2. made \in Nat /\ made <= now /\ Drift \in Nat
        BY LimitsAssumption, Zenon
      <3>3. made <= now + Drift
        BY <3>2, WithinDrift, Zenon
      <3>4. QED
        BY <3>1, <3>3, Zenon
    <2>3. (b.rewardTx = {}) = (b.rewardResult = {})
      <3>1. b.rewardTx = reward /\ b.rewardResult = {ExecuteReward(r) : r \in reward}
        BY <1>1
      <3> HIDE DEF b, reward, total
      <3>2. QED
        BY <3>1
    <2>4. QED
      BY <1>1, <1>2, <1>3, <1>4, <2>1, <2>2, <2>3, Zenon DEF ValidStructure, seed
  <1>7. ReplayOk(b, round.store)
    <2>1. RunBatch(b.txs, b.nonce.luck, round.store) = run
      BY <1>1, <1>3 DEF run
    <2>2. run.done = b.txs /\ run.results = b.results
      BY <1>1
    <2>3. \A i \in 1..Len(b.txs) : ValidSigned(b.txs[i])
      BY <1>2, <1>3
    <2>4. CASE total = 0
      <3>a. reward = {}
        <4> HIDE DEF total
        <4>1. ~(total > 0)
          BY <2>4
        <4>2. QED
          BY <4>1
      <3>1. b.rewardTx = {} /\ b.rewardResult = {}
        <4> HIDE DEF b, reward, total
        <4>1. b.rewardTx = reward /\ b.rewardResult = {ExecuteReward(r) : r \in reward}
          BY <1>1
        <4>2. QED
          BY <3>a, <4>1
      <3> HIDE DEF total, reward, b
      <3>2. TotalGas(RunBatch(b.txs, b.nonce.luck, round.store).results) = 0
        BY <2>1, <2>4 DEF total
      <3>3. QED
        BY <2>1, <2>2, <2>3, <3>1, <3>2, Zenon DEF ReplayOk
    <2>5. CASE total # 0
      <3> DEFINE r == RewardTx(miner, total, seed)
      <3>1. total > 0
        BY <1>4, <2>5
      <3>2. b.rewardTx = {r} /\ b.rewardResult = {ExecuteReward(r)}
        BY <1>1, <3>1
      <3>3. ValidReward(r, total, b.nonce.seed)
        BY <1>1 DEF ValidReward, RewardTx
      <3> HIDE DEF r
      <3>4. \E x \in b.rewardTx : ValidReward(x, total, b.nonce.seed) /\ b.rewardResult = {ExecuteReward(x)}
        BY <3>2, <3>3
      <3>5. QED
        BY <2>1, <2>2, <2>3, <2>5, <3>4 DEF ReplayOk
    <2>6. QED
      BY <2>4, <2>5
  <1>8. QED
    BY <1>5, <1>6, <1>7 DEF w

\* A seed is one longer than the hash it extends.
LEMMA SeedLength ==
    ASSUME NEW H, NEW parent \in Seq(H), NEW root, NEW time
    PROVE  Len(Seed(parent, root, time)) = Len(parent) + 1
  <1> DEFINE e == <<root, time>>
  <1>1. parent \in Seq(H \cup {e})
    BY SeqMonotonic
  <1> HIDE DEF e
  <1>2. Len(Append(parent, e)) = Len(parent) + 1
    BY <1>1, AppendProperties
  <1>3. QED
    BY <1>2 DEF Seed, e

\* What a block does to a sane store: it executes transactions that were not
\* executed before, the assertions of apply_execution_result hold also for
\* the reward, and the store stays sane.
LEMMA SolvedEffects ==
    ASSUME NEW X \in SUBSET Tx, NEW H, NEW round, round.parent \in Seq(H),
           Sane(round.store, X, Len(round.parent)), round.batch \in Seq(Tx),
           NEW luck \in Luck, NEW miner,
           RunBatch(round.batch, luck, round.store).done = round.batch
    PROVE  LET w   == Solve(round, luck, miner)
               run == RunBatch(round.batch, luck, round.store)
               D   == Range(round.batch)
           IN  /\ D \cap X = {}
               /\ run.fits
               /\ \A r \in w.block.rewardTx : ResultFits(run.store, ExecuteReward(r))
               /\ Sane(w.store, X \cup D, Len(round.parent) + 1)
               /\ Follows(round.store, w.store, D)
  <1> DEFINE w      == Solve(round, luck, miner)
             seed   == Seed(round.parent, round.txRoot, round.timestamp)
             run    == RunBatch(round.batch, luck, round.store)
             total  == TotalGas(run.results)
             reward == IF total > 0 THEN {RewardTx(miner, total, seed)} ELSE {}
             D      == Range(round.batch)
             n      == Len(round.parent)
             s      == round.store
             t      == run.store
             u      == w.store
             Y      == X \cup D
  <1>1. u = WithReward(t, reward) /\ w.block.rewardTx = reward
    <2>1. SolvedAs(round, luck, miner, w)
      BY SolveShape
    <2>2. reward = RewardOf(round, luck, miner)
      BY DEF RewardOf
    <2> HIDE DEF w, reward
    <2>3. QED
      BY <2>1, <2>2 DEF SolvedAs
  <1> HIDE DEF w
  <1>2. n \in Nat
    BY LenProperties, Zenon
  <1>3. Effects(s, X, n, run)
    BY <1>2, BatchEffects, Zenon
  <1>4. /\ run.fits /\ Sane(t, Y, n) /\ D \cap X = {} /\ Follows(s, t, D) /\ StaysGone(s, t, X, n)
    BY <1>3 DEF Effects
  <1>5. D \subseteq Tx
    BY RangeOfSeq, Zenon
  <1>6. Len(seed) = n + 1
    BY SeedLength
  <1>7. reward \in {{}, {RewardTx(miner, total, seed)}}
    OBVIOUS
  <1> HIDE DEF run, seed, n, s, t, u, D, Y, total, reward
  <1>8. /\ \A r \in reward : ResultFits(t, ExecuteReward(r))
        /\ Sane(u, Y, n + 1)
        /\ Follows(t, u, D)
        /\ \A i \in DOMAIN u : Origin(i, Y, n) => i \in DOMAIN t
    <2>1. Y \in SUBSET Tx
      BY <1>5 DEF Y
    <2>2. QED
      BY <1>1, <1>2, <1>4, <1>6, <1>7, <2>1, RewardEffects, Zenon
  <1>9. Follows(s, u, D)
    <2>1. Sane(s, X, n)
      BY DEF s, n
    <2>2. /\ \A i \in DOMAIN s : s[i].version \in Nat /\ Origin(i, X, n)
          /\ \A i \in DOMAIN t : t[i].version \in Nat
          /\ \A i \in DOMAIN u : u[i].version \in Nat
      BY <1>4, <1>8, <2>1, Zenon DEF Sane
    <2>3. ASSUME NEW i \in DOMAIN s, i \in DOMAIN u PROVE i \in DOMAIN t
      <3>1. Origin(i, X, n)
        BY <2>2, Zenon
      <3>2. X \subseteq Y
        BY Zenon DEF Y
      <3>3. n <= n
        BY <1>2, SameIsWithin, Zenon
      <3>4. Origin(i, Y, n)
        BY <1>2, <3>1, <3>2, <3>3, OriginGrows, Zenon
      <3>5. QED
        BY <1>8, <2>3, <3>4, Zenon
    <2>4. Follows(s, u, D \cup D)
      BY <1>4, <1>8, <2>2, <2>3, FollowsThen, Zenon
    <2>5. QED
      BY <2>4, Zenon
  <1>10. /\ D \cap X = {}
         /\ run.fits
         /\ \A r \in w.block.rewardTx : ResultFits(run.store, ExecuteReward(r))
         /\ Sane(w.store, X \cup D, n + 1)
         /\ Follows(s, w.store, D)
    BY <1>1, <1>4, <1>8, <1>9, Zenon DEF t, u, Y
  <1>11. QED
    BY <1>10, Zenon DEF run, s, D, n, w

-----------------------------------------------------------------------------
(* The mempool.                                                            *)

Ids(q) == {tx.id : tx \in Range(q)}

PoolOK(p) ==
    /\ p.pending \in Seq(Tx)
    /\ p.seen = Ids(p.pending)
    /\ IsInjective(TxRoot(p.pending))
    /\ Len(p.pending) <= MaxMempool
    /\ \A i \in 1..Len(p.pending) : ValidSigned(p.pending[i])

LEMMA EmptyPoolOK == PoolOK(EmptyPool)
  <1>1. EmptyPool.pending = << >> /\ EmptyPool.seen = {} /\ Ids(<< >>) = {} /\ TxRoot(<< >>) = << >>
    BY DEF EmptyPool, Ids, Range, TxRoot
  <1> DEFINE p == EmptyPool
  <1> HIDE DEF p
  <1>2. p.pending = << >> /\ p.seen = {}
    BY <1>1 DEF p
  <1>3. PoolOK(p)
    BY <1>1, <1>2, PoolAssumption DEF PoolOK, IsInjective
  <1>4. QED
    BY <1>3 DEF p

\* The queue and the digests with one more transaction.
LEMMA EnqueueShape ==
    ASSUME NEW p, p.pending \in Seq(Tx), p.seen = Ids(p.pending), NEW tx \in Tx
    PROVE  LET q == Enqueue(p, tx)
           IN  q.pending = Append(p.pending, tx) /\ q.seen = Ids(q.pending)
  <1> DEFINE q == Enqueue(p, tx)
  <1>1. q.pending = Append(p.pending, tx) /\ q.seen = p.seen \cup {tx.id}
    BY DEF Enqueue
  <1>2. Range(Append(p.pending, tx)) = Range(p.pending) \cup {tx}
    BY SetOfAppend
  <1> HIDE DEF q
  <1>3. q.seen = Ids(q.pending)
    BY <1>1, <1>2 DEF Ids
  <1>4. QED
    BY <1>1, <1>3 DEF q

\* Mempool::submit keeps the pool consistent.
LEMMA EnqueueOK ==
    ASSUME NEW p, PoolOK(p), NEW tx \in Tx, ValidSigned(tx), tx.id \notin p.seen,
           Len(p.pending) < MaxMempool
    PROVE  PoolOK(Enqueue(p, tx))
  <1> DEFINE d == p.pending
             q == Enqueue(p, tx)
             e == q.pending
  <1>1. d \in Seq(Tx) /\ p.seen = Ids(d)
    BY DEF PoolOK
  <1>2. e = Append(d, tx) /\ q.seen = Ids(e)
    BY <1>1, EnqueueShape
  <1> HIDE DEF q, d
  <1>3. /\ e \in Seq(Tx) /\ Len(e) = Len(d) + 1 /\ Len(d) \in Nat /\ DOMAIN d = 1..Len(d)
        /\ \A k \in 1..Len(d) : e[k] = d[k]
        /\ e[Len(d) + 1] = tx
    BY <1>1, <1>2, AppendProperties, LenProperties
  <1> HIDE DEF e
  <1>4. \A k \in 1..Len(e) : k \in 1..Len(d) \/ k = Len(d) + 1
    BY <1>3
  <1>5. \A i \in 1..Len(d) : d[i].id # tx.id
    BY <1>1, <1>3 DEF Ids, Range
  <1>6. \A i, j \in 1..Len(d) : d[i].id = d[j].id => i = j
    BY <1>1, RootInjective DEF PoolOK, d
  <1>7. \A i, j \in 1..Len(e) : e[i].id = e[j].id => i = j
    BY <1>3, <1>4, <1>5, <1>6
  <1>8. IsInjective(TxRoot(e))
    BY <1>3, <1>7, RootInjective
  <1>9. \A i \in 1..Len(e) : ValidSigned(e[i])
    BY <1>3, <1>4 DEF PoolOK, d
  <1>10. Len(e) <= MaxMempool
    BY <1>3, PoolAssumption DEF d
  <1>11. QED
    BY <1>2, <1>3, <1>8, <1>9, <1>10 DEF PoolOK, q, e

\* Mempool::retain_valid keeps the pool consistent.
LEMMA RetainOK ==
    ASSUME NEW p, PoolOK(p), NEW s
    PROVE  PoolOK(RetainValid(p, s))
  <1> DEFINE q == p.pending
  <1>1. q \in Seq(Tx) /\ IsInjective(TxRoot(q)) /\ Len(q) \in Nat
    BY LenProperties DEF PoolOK
  <1>2. RetentionLoop!Run(s, EmptyPool, q) = RetainValid(p, s)
    BY DEF RetentionLoop!Run, Retention!Run, RetainValid
  <1>a. RetentionLoop!Counts(Len(q))
    BY <1>1, Induction, Zenon DEF RetentionLoop!Counts
  <1>3. PICK acc : /\ RetainValid(p, s) = acc[Len(q)]
                   /\ acc[0] = EmptyPool
                   /\ \A i \in 1..Len(q) : acc[i] = KeepValid(s, acc[i - 1], q[i])
    <2> HIDE DEF q
    <2>1. QED
      BY <1>1, <1>2, <1>a, RetentionLoop!RunTrace
  <1> DEFINE P(i) == Drawn(acc[i].pending, q, i) /\ acc[i].seen = Ids(acc[i].pending)
             S == {i \in 0..Len(q) : P(i)}
  <1> HIDE DEF q
  <1>4. 0 \in S
    <2>1. EmptyPool.pending = << >> /\ EmptyPool.seen = Ids(<< >>)
      BY DEF EmptyPool, Ids, Range
    <2>2. P(0)
      BY <1>3, <2>1, DrawnEmpty
    <2>3. QED
      BY <1>1, <2>2
  <1>5. ASSUME NEW i \in 0..(Len(q) - 1), i \in S PROVE i + 1 \in S
    <2> DEFINE a == acc[i]
               b == acc[i + 1]
               tx == q[i + 1]
    <2>1. i + 1 \in 1..Len(q) /\ i + 1 \in 0..Len(q) /\ (i + 1) - 1 = i
      BY <1>1
    <2>2. tx \in Tx /\ b = KeepValid(s, a, tx)
      BY <1>1, <1>3, <2>1, ElementOfSeq
    <2>3. Drawn(a.pending, q, i) /\ a.seen = Ids(a.pending)
      BY <1>5
    <2>4. Drawn(a.pending, q, i + 1) /\ Drawn(Append(a.pending, tx), q, i + 1)
      BY <1>1, <2>3, DrawnMore
    <2> HIDE DEF a, b, tx
    <2>5. Drawn(b.pending, q, i + 1) /\ b.seen = Ids(b.pending)
      <3>1. CASE ValidAgainst(tx, s)
        <4>1. b = Enqueue(a, tx)
          BY <2>2, <3>1 DEF KeepValid
        <4>2. a.pending \in Seq(Tx)
          BY <2>3 DEF Drawn
        <4>3. b.pending = Append(a.pending, tx) /\ b.seen = Ids(b.pending)
          BY <2>2, <2>3, <4>1, <4>2, EnqueueShape
        <4>4. QED
          BY <2>4, <4>3
      <3>2. CASE ~ValidAgainst(tx, s)
        BY <2>2, <2>3, <2>4, <3>2 DEF KeepValid
      <3>3. QED
        BY <3>1, <3>2
    <2>6. QED
      BY <2>1, <2>5 DEF b
  <1>6. Len(q) \in S
    <2> HIDE DEF S
    <2>1. 0..Len(q) \subseteq S
      BY <1>1, <1>4, <1>5, Induction
    <2>2. QED
      BY <1>1, <2>1
  <1> DEFINE r == RetainValid(p, s)
  <1>7. Drawn(r.pending, q, Len(q)) /\ r.seen = Ids(r.pending)
    BY <1>3, <1>6
  <1> HIDE DEF r
  <1>8. r.pending \in Seq(Tx) /\ Len(r.pending) \in Nat
    BY <1>7, LenProperties DEF Drawn
  <1>9. Len(r.pending) <= MaxMempool
    <2>1. Len(r.pending) <= Len(q) /\ Len(q) <= MaxMempool
      BY <1>7 DEF Drawn, PoolOK, q
    <2>2. QED
      BY <1>1, <1>8, <2>1, PoolAssumption
  <1>10. \A i \in 1..Len(r.pending) : ValidSigned(r.pending[i])
    BY <1>7 DEF Drawn, PoolOK, q
  <1>11. PoolOK(r)
    BY <1>7, <1>8, <1>9, <1>10 DEF PoolOK, Drawn
  <1>12. QED
    BY <1>11 DEF r

\* Mempool::drain_batch hands out a batch that can be mined, and keeps the
\* pool consistent.
LEMMA DrainOK ==
    ASSUME NEW p, PoolOK(p), NEW n \in 1..MaxTxs, Len(p.pending) >= n
    PROVE  Minable(Batch(p, n)) /\ PoolOK(DrainBatch(p, n))
  <1> DEFINE q == p.pending
             batch == Batch(p, n)
             d == DrainBatch(p, n)
             rest == SubSeq(q, n + 1, Len(q))
  <1>1. /\ q \in Seq(Tx) /\ Len(q) \in Nat /\ n \in 1..Len(q) /\ n \in 1..MaxTxs /\ MaxTxs \in Nat
        /\ p.seen = Ids(q) /\ Len(q) <= MaxMempool
        /\ \A i \in 1..Len(q) : ValidSigned(q[i])
    BY LenProperties, PoolAssumption, LimitsAssumption DEF PoolOK
  <1>2. batch = SubSeq(q, 1, n)
    BY <1>1 DEF Batch
  <1> HIDE DEF batch
  <1>3. /\ batch \in Seq(Tx) /\ Len(batch) = n /\ DOMAIN batch = 1..n
        /\ \A i \in 1..n : batch[i] = q[i]
    <2>1. /\ SubSeq(q, 1, n) \in Seq(Tx)
          /\ Len(SubSeq(q, 1, n)) = n
          /\ \A i \in 1..n : SubSeq(q, 1, n)[i] = q[i]
      BY <1>1
    <2>2. QED
      BY <1>2, <2>1, LenProperties
  <1>4. d.pending = rest /\ d.seen = p.seen \ Ids(batch)
    BY <1>3 DEF DrainBatch, batch, Ids
  <1>5. /\ rest \in Seq(Tx) /\ Len(rest) = Len(q) - n /\ DOMAIN rest = 1..(Len(q) - n)
        /\ \A i \in 1..(Len(q) - n) : rest[i] = q[n + i] /\ n + i \in 1..Len(q)
    BY <1>1
  <1> HIDE DEF d, rest, q
  <1>6. \A i, j \in 1..Len(q) : q[i].id = q[j].id => i = j
    BY <1>1, RootInjective DEF PoolOK, q
  <1>7. IsInjective(TxRoot(batch)) /\ \A i \in 1..Len(batch) : ValidSigned(batch[i])
    <2>1. \A i \in 1..n : i \in 1..Len(q)
      BY <1>1
    <2>2. \A i, j \in 1..Len(batch) : batch[i].id = batch[j].id => i = j
      BY <1>3, <1>6, <2>1
    <2>3. QED
      BY <1>1, <1>3, <2>1, <2>2, RootInjective
  <1>8. Minable(batch)
    BY <1>1, <1>3, <1>7 DEF Minable
  <1>9. IsInjective(TxRoot(rest)) /\ \A i \in 1..Len(rest) : ValidSigned(rest[i])
    <2>1. \A i, j \in 1..Len(rest) : rest[i].id = rest[j].id => i = j
      <3> TAKE i, j \in 1..Len(rest)
      <3>1. n + i = n + j => i = j
        BY <1>1, <1>5
      <3>2. QED
        BY <1>5, <1>6, <3>1
    <2>2. QED
      BY <1>1, <1>5, <2>1, RootInjective, Zenon
  <1>10. d.seen = Ids(rest)
    <2>1. \A x : x \in Ids(q) <=> \E i \in 1..Len(q) : x = q[i].id
      BY <1>1, LenProperties DEF Ids, Range
    <2>2. \A x : x \in Ids(batch) <=> \E i \in 1..n : x = q[i].id
      BY <1>3 DEF Ids, Range
    <2>3. \A x : x \in Ids(rest) <=> \E i \in 1..(Len(q) - n) : x = q[n + i].id
      BY <1>5, Zenon DEF Ids, Range
    <2>4. ASSUME NEW x \in Ids(q), x \notin Ids(batch) PROVE x \in Ids(rest)
      <3>1. PICK i \in 1..Len(q) : x = q[i].id
        BY <2>1
      <3>2. i \notin 1..n
        BY <2>2, <2>4, <3>1
      <3>3. i - n \in 1..(Len(q) - n) /\ n + (i - n) = i
        BY <1>1, <3>2
      <3>4. QED
        BY <2>3, <3>1, <3>3, Zenon
    <2>5. ASSUME NEW x \in Ids(rest) PROVE x \in Ids(q) /\ x \notin Ids(batch)
      <3>1. PICK i \in 1..(Len(q) - n) : x = q[n + i].id
        BY <2>3, Zenon
      <3>2. n + i \in 1..Len(q) /\ \A j \in 1..n : j \in 1..Len(q) /\ j # n + i
        BY <1>1
      <3>3. x \in Ids(q)
        BY <2>1, <3>1, <3>2
      <3>4. x \notin Ids(batch)
        BY <1>6, <2>2, <3>1, <3>2
      <3>5. QED
        BY <3>3, <3>4
    <2>6. Ids(q) \ Ids(batch) = Ids(rest)
      BY <2>4, <2>5
    <2>7. QED
      BY <1>1, <1>4, <2>6
  <1>11. Len(rest) <= MaxMempool
    BY <1>1, <1>5, PoolAssumption
  <1>12. PoolOK(d)
    BY <1>4, <1>5, <1>9, <1>10, <1>11 DEF PoolOK
  <1>13. QED
    BY <1>8, <1>12 DEF batch, d

-----------------------------------------------------------------------------
(* The network: what a published block is.                                 *)

TxId == {tx.id : tx \in Tx}

Who == {"me", "peer"}

Header == [txs : Seq(TxId), time : Nat, luck : Luck, miner : Who]

\* The transactions that a chain, given by the hash of its tip, executed.
Executed(h) == {tx \in Tx : \E i \in 1..Len(h) : \E k \in 1..Len(h[i].txs) : h[i].txs[k] = tx.id}

\* No transaction is listed twice on the chain.
Once(h) ==
    \A i, j \in 1..Len(h) : \A k \in 1..Len(h[i].txs), l \in 1..Len(h[j].txs) :
        h[i].txs[k] = h[j].txs[l] => i = j /\ k = l

\* The round that a node prepares on the published block p.
RoundOn(f, p, batch, time) == Round(p, f[p].block.height + 1, f[p].store, batch, time)

\* A round that ends with a block: no transaction was dropped.
Completes(f, p, batch, time, luck, miner) ==
    /\ p \in DOMAIN f /\ Minable(batch) /\ time \in Nat /\ luck \in Luck
    /\ miner \in Who
    /\ RunBatch(batch, luck, f[p].store).done = batch

Mined(f, p, batch, time, luck, miner) == Solve(RoundOn(f, p, batch, time), luck, miner)

\* The published entry h comes from such a round.
MinedBy(f, h, p, batch, time, luck, miner) ==
    /\ p \in DOMAIN f /\ batch \in Seq(Tx) /\ time \in Nat /\ luck \in Luck /\ miner \in Who
    /\ Completes(f, p, batch, time, luck, miner)
    /\ h = BlockHash(p, TxRoot(batch), time, luck, miner)
    /\ f[h] = Entry(Mined(f, p, batch, time, luck, miner).block,
                    Mined(f, p, batch, time, luck, miner).store)

MinedEntry(f, h) ==
    \E p, batch, time, luck, miner : MinedBy(f, h, p, batch, time, luck, miner)

\* What holds of one entry: the hash lists the chain, and executing it left a
\* sane store.
EntryOK(f, h) ==
    /\ h \in Seq(Header)
    /\ f[h].block.hash = h
    /\ f[h].block.height = Len(h)
    /\ Once(h)
    /\ Sane(f[h].store, Executed(h), Len(h))

NetOK(f) ==
    /\ << >> \in DOMAIN f
    /\ f[<< >>] = Entry(GenesisBlock, GenesisStore)
    /\ \A h \in DOMAIN f : EntryOK(f, h)
    /\ \A h \in DOMAIN f \ {<< >>} : MinedEntry(f, h)

\* The parts of an entry, of genesis and of a round.
LEMMA EntryShape == \A b, s : Entry(b, s).block = b /\ Entry(b, s).store = s
  BY Zenon DEF Entry

LEMMA GenesisShape ==
    /\ GenesisBlock.hash = << >> /\ GenesisBlock.height = 0
    /\ GenesisBlock.txs = << >> /\ GenesisBlock.results = << >>
    /\ GenesisBlock.parent = BlockHash(<< >>, << >>, 0, 0, "zero")
  BY Zenon DEF GenesisBlock

LEMMA GenesisEntry ==
    ASSUME NEW f, NetOK(f)
    PROVE  f[<< >>].block = GenesisBlock /\ f[<< >>].store = GenesisStore
  <1>1. f[<< >>] = Entry(GenesisBlock, GenesisStore)
    BY Zenon DEF NetOK
  <1>2. /\ Entry(GenesisBlock, GenesisStore).block = GenesisBlock
        /\ Entry(GenesisBlock, GenesisStore).store = GenesisStore
    BY EntryShape, Zenon
  <1>3. QED
    BY <1>1, <1>2, Zenon

IsRound(r, f, p, batch, time) ==
    /\ r.stage = "grinding" /\ r.parent = p /\ r.height = f[p].block.height + 1
    /\ r.store = f[p].store /\ r.batch = batch /\ r.txRoot = TxRoot(batch)
    /\ r.timestamp = time

LEMMA RoundShape ==
    ASSUME NEW f, NEW p, NEW batch, NEW time
    PROVE  IsRound(RoundOn(f, p, batch, time), f, p, batch, time)
  BY Zenon DEF IsRound, RoundOn, Round

HeaderOf(batch, time, luck, miner) ==
    [txs |-> TxRoot(batch), time |-> time, luck |-> luck, miner |-> miner]

\* The header of a block is one, and the hash tells the parent and it.
Binds(h, p, e, root) ==
    /\ e \in Header /\ e.txs = root
    /\ h = Append(p, e) /\ h \in Seq(Header) /\ h # << >>
    /\ Len(h) = Len(p) + 1 /\ Len(p) \in Nat
    /\ \A i \in 1..Len(p) : h[i] = p[i]
    /\ h[Len(p) + 1] = e

LEMMA AppendBinds ==
    ASSUME NEW p \in Seq(Header), NEW e \in Header
    PROVE  Binds(Append(p, e), p, e, e.txs)
  BY AppendProperties, LenProperties DEF Binds

LEMMA HashBinds ==
    ASSUME NEW p \in Seq(Header), NEW batch \in Seq(Tx), NEW time \in Nat, NEW luck \in Luck,
           NEW miner \in Who
    PROVE  Binds(BlockHash(p, TxRoot(batch), time, luck, miner), p,
                 HeaderOf(batch, time, luck, miner), TxRoot(batch))
  <1> DEFINE e == HeaderOf(batch, time, luck, miner)
  <1>1. TxRoot(batch) \in Seq(TxId)
    BY RootShape DEF TxId
  <1>2. e \in Header /\ e.txs = TxRoot(batch)
    BY <1>1 DEF Header, HeaderOf
  <1>3. BlockHash(p, TxRoot(batch), time, luck, miner) = Append(p, e)
    BY DEF BlockHash, HeaderOf
  <1> HIDE DEF e
  <1>4. QED
    BY <1>2, <1>3, AppendBinds DEF e

\* A hash names one round.
Names(h, p, batch, time, luck, miner) ==
    /\ p \in Seq(Header) /\ batch \in Seq(Tx) /\ time \in Nat /\ luck \in Luck /\ miner \in Who
    /\ h = BlockHash(p, TxRoot(batch), time, luck, miner)

LEMMA HashIdentifies ==
    ASSUME NEW h, NEW p, NEW batch, NEW time, NEW luck, NEW miner,
           NEW q, NEW bats, NEW tick, NEW lot, NEW who,
           Names(h, p, batch, time, luck, miner), Names(h, q, bats, tick, lot, who)
    PROVE  p = q /\ batch = bats /\ time = tick /\ luck = lot /\ miner = who
  <1> DEFINE d == HeaderOf(batch, time, luck, miner)
             e == HeaderOf(bats, tick, lot, who)
  <1>a. /\ p \in Seq(Header) /\ batch \in Seq(Tx) /\ time \in Nat /\ luck \in Luck /\ miner \in Who
        /\ h = BlockHash(p, TxRoot(batch), time, luck, miner)
    BY Zenon DEF Names
  <1>b. /\ q \in Seq(Header) /\ bats \in Seq(Tx) /\ tick \in Nat /\ lot \in Luck /\ who \in Who
        /\ h = BlockHash(q, TxRoot(bats), tick, lot, who)
    BY Zenon DEF Names
  <1>0. Binds(h, p, d, TxRoot(batch))
    BY <1>a, HashBinds, Zenon
  <1>1. Binds(h, q, e, TxRoot(bats))
    BY <1>b, HashBinds, Zenon
  <1> HIDE DEF d, e
  <1>2. d \in Header /\ e \in Header /\ Append(p, d) = Append(q, e)
    BY <1>0, <1>1, Zenon DEF Binds
  <1>3. p = q /\ d = e
    <2>1. p \in Seq(Header) /\ q \in Seq(Header)
      BY <1>a, <1>b, Zenon
    <2>2. QED
      BY <1>2, <2>1, AppendInjective
  <1>4. TxRoot(batch) = TxRoot(bats) /\ time = tick /\ luck = lot /\ miner = who
    BY <1>3, Zenon DEF d, e, HeaderOf
  <1>5. QED
    BY <1>a, <1>b, <1>3, <1>4, RootIdentifies, Zenon

\* The chain after one more block: what it executed, and that it did so once.
LEMMA ChainGrows ==
    ASSUME NEW p \in Seq(Header), Once(p), NEW batch \in Seq(Tx), IsInjective(TxRoot(batch)),
           NEW time \in Nat, NEW luck \in Luck, NEW miner \in Who,
           Range(batch) \cap Executed(p) = {}
    PROVE  LET h == BlockHash(p, TxRoot(batch), time, luck, miner)
           IN  Executed(h) = Executed(p) \cup Range(batch) /\ Once(h)
  <1> DEFINE h == BlockHash(p, TxRoot(batch), time, luck, miner)
             n == Len(p)
             root == TxRoot(batch)
  <1>1. /\ Len(h) = n + 1 /\ n \in Nat
        /\ \A i \in 1..n : h[i] = p[i]
        /\ h[n + 1].txs = root
    <2> DEFINE e == HeaderOf(batch, time, luck, miner)
    <2>1. Binds(h, p, e, root)
      BY HashBinds, Zenon
    <2> HIDE DEF e, h, root
    <2>2. QED
      BY <2>1, Zenon DEF Binds
  <1> HIDE DEF h
  <1>2. /\ Len(root) = Len(batch) /\ Len(batch) \in Nat /\ DOMAIN batch = 1..Len(batch)
        /\ \A k \in 1..Len(batch) : root[k] = batch[k].id /\ batch[k] \in Tx
    BY RootShape, LenProperties, Zenon
  <1>3. \A k, l \in 1..Len(batch) : root[k] = root[l] => k = l
    BY RootShape, Zenon DEF IsInjective
  <1> HIDE DEF n, root
  <1>4. ASSUME NEW tx \in Tx PROVE tx \in Range(batch) <=> \E k \in 1..Len(root) : root[k] = tx.id
    <2>1. tx \in Range(batch) <=> \E k \in 1..Len(batch) : batch[k] = tx
      BY <1>2 DEF Range
    <2>2. \A k \in 1..Len(batch) : batch[k] = tx <=> root[k] = tx.id
      BY <1>2, DigestAssumption
    <2>3. QED
      BY <1>2, <2>1, <2>2
  <1>5. ASSUME NEW tx \in Tx
        PROVE  tx \in Executed(h) <=> tx \in Executed(p) \/ tx \in Range(batch)
    <2>1. tx \in Executed(h) <=> \E i \in 1..(n + 1) : \E k \in 1..Len(h[i].txs) : h[i].txs[k] = tx.id
      <3>1. tx \in Executed(h) <=> \E i \in 1..Len(h) : \E k \in 1..Len(h[i].txs) : h[i].txs[k] = tx.id
        BY Zenon DEF Executed
      <3>2. QED
        BY <1>1, <3>1, Zenon
    <2>2. tx \in Executed(p) <=> \E i \in 1..n : \E k \in 1..Len(h[i].txs) : h[i].txs[k] = tx.id
      <3>1. tx \in Executed(p) <=> \E i \in 1..n : \E k \in 1..Len(p[i].txs) : p[i].txs[k] = tx.id
        BY Zenon DEF Executed, n
      <3>2. QED
        BY <1>1, <3>1, Zenon
    <2>3. \A i : i \in 1..(n + 1) <=> i \in 1..n \/ i = n + 1
      BY <1>1
    <2> DEFINE In(i) == \E k \in 1..Len(h[i].txs) : h[i].txs[k] = tx.id
    <2>4. In(n + 1) <=> tx \in Range(batch)
      BY <1>1, <1>4, Zenon
    <2>5. tx \in Executed(h) <=> \E i \in 1..(n + 1) : In(i)
      BY <2>1, Zenon
    <2>6. tx \in Executed(p) <=> \E i \in 1..n : In(i)
      BY <2>2, Zenon
    <2> HIDE DEF In
    <2>7. QED
      BY <2>3, <2>4, <2>5, <2>6, Zenon
  <1>6. Range(batch) \subseteq Tx
    BY <1>2 DEF Range
  <1>7. Executed(h) = Executed(p) \cup Range(batch)
    <2>1. Executed(h) \subseteq Tx /\ Executed(p) \subseteq Tx
      BY DEF Executed
    <2>2. QED
      BY <1>5, <1>6, <2>1
  <1>8. Once(h)
    <2> SUFFICES ASSUME NEW i \in 1..(n + 1), NEW j \in 1..(n + 1),
                        NEW k \in 1..Len(h[i].txs), NEW l \in 1..Len(h[j].txs),
                        h[i].txs[k] = h[j].txs[l]
                 PROVE  i = j /\ k = l
      BY <1>1 DEF Once
    <2>1. ASSUME NEW x \in 1..n, NEW m \in 1..Len(h[x].txs), NEW o \in 1..Len(root),
                 h[x].txs[m] = root[o]
          PROVE  FALSE
      <3>1. batch[o] \in Range(batch) /\ batch[o] \in Tx /\ root[o] = batch[o].id
        BY <1>2, Zenon DEF Range
      <3>2. h[x] = p[x]
        BY <1>1, Zenon
      <3>3. batch[o] \in Executed(p)
        BY <2>1, <3>1, <3>2 DEF Executed, n
      <3>4. QED
        BY <3>1, <3>3
    <2>2. CASE i \in 1..n /\ j \in 1..n
      <3>1. h[i] = p[i] /\ h[j] = p[j]
        BY <1>1, <2>2, Zenon
      <3>2. /\ k \in 1..Len(p[i].txs) /\ l \in 1..Len(p[j].txs)
            /\ p[i].txs[k] = p[j].txs[l]
        BY <3>1, Zenon
      <3>3. QED
        BY <2>2, <3>2, ZenonT(60) DEF Once, n
    <2>3. CASE i = n + 1 /\ j = n + 1
      BY <1>1, <1>2, <1>3, <2>3
    <2>4. CASE i \in 1..n /\ j = n + 1
      BY <1>1, <2>1, <2>4
    <2>5. CASE i = n + 1 /\ j \in 1..n
      BY <1>1, <2>1, <2>5
    <2>6. QED
      BY <1>1, <2>2, <2>3, <2>4, <2>5
  <1>9. QED
    BY <1>7, <1>8 DEF h

\* The hash h extends p by one header that lists the transactions of txs.
ExtendsBy(h, p, txs) ==
    /\ Len(h) = Len(p) + 1 /\ Len(p) \in Nat
    /\ \A i \in 1..Len(p) : h[i] = p[i]
    /\ h[Len(h)].txs = TxRoot(txs)

\* There is one result for each transaction, in the order of the block.
Reported(b) ==
    /\ DOMAIN b.results = 1..Len(b.txs) /\ DOMAIN b.txs = 1..Len(b.txs)
    /\ \A k \in 1..Len(b.txs) : b.results[k].tx = b.txs[k].id

\* What is known of a block b, and of the store s after it, when b was mined
\* on an entry p of the network.
Built(f, p, b, s) ==
    /\ p \in DOMAIN f /\ b.parent = p
    /\ b.hash \in Seq(Header) /\ b.hash # << >> /\ Len(b.hash) = Len(p) + 1
    /\ b.txs \in Seq(Tx) /\ ExtendsBy(b.hash, p, b.txs) /\ Reported(b)
    /\ b.height = Len(b.hash)
    /\ Once(b.hash)
    /\ Sane(s, Executed(b.hash), Len(b.hash))
    /\ ReplayStore(b, f[p].store) = s /\ b.stateRoot = s
    /\ ReplayOk(b, f[p].store)
    /\ b.timestamp \in Nat /\ b.nonce.luck \in Luck
    /\ \A t \in Nat : b.timestamp <= t => ValidStructure(b, t)
    /\ RunBatch(b.txs, b.nonce.luck, f[p].store).fits
    /\ \A r, q \in b.rewardTx : r = q
    /\ \A r \in b.rewardTx :
          ResultFits(RunBatch(b.txs, b.nonce.luck, f[p].store).store, ExecuteReward(r))
    /\ Follows(f[p].store, s, Range(b.txs))

\* A round that completes builds such a block.
Builds(f, p, time, h, w) ==
    /\ w.stage = "solved" /\ w.block.hash = h /\ w.block.timestamp = time
    /\ Built(f, p, w.block, w.store)

LEMMA MinedIsBuilt ==
    ASSUME NEW f, NetOK(f), NEW p, NEW batch, NEW time, NEW luck, NEW miner,
           Completes(f, p, batch, time, luck, miner)
    PROVE  Builds(f, p, time, BlockHash(p, TxRoot(batch), time, luck, miner),
                  Mined(f, p, batch, time, luck, miner))
  <1> DEFINE round == RoundOn(f, p, batch, time)
             w == Mined(f, p, batch, time, luck, miner)
             b == w.block
             s == f[p].store
             h == BlockHash(p, TxRoot(batch), time, luck, miner)
             X == Executed(p)
             D == Range(batch)
  <1>0. /\ p \in DOMAIN f /\ Minable(batch) /\ time \in Nat /\ luck \in Luck /\ miner \in Who
        /\ RunBatch(batch, luck, s).done = batch
    BY DEF Completes
  <1>1. /\ round.parent = p /\ round.height = f[p].block.height + 1 /\ round.store = s
        /\ round.batch = batch /\ round.txRoot = TxRoot(batch) /\ round.timestamp = time
    <2>1. IsRound(round, f, p, batch, time)
      BY RoundShape, Zenon
    <2> HIDE DEF round
    <2>2. QED
      BY <2>1, Zenon DEF IsRound
  <1>2. /\ p \in Seq(Header) /\ f[p].block.height = Len(p) /\ Once(p) /\ Sane(s, X, Len(p))
        /\ X \in SUBSET Tx
    BY <1>0, Zenon DEF NetOK, EntryOK, Executed
  <1>3. batch \in Seq(Tx) /\ IsInjective(TxRoot(batch))
    BY <1>0 DEF Minable
  <1> HIDE DEF round
  <1>4. SolvedAs(round, luck, miner, w)
    BY SolveShape DEF Mined, round
  <1>5. w = Solve(round, luck, miner)
    BY DEF Mined, round
  <1> HIDE DEF w, s, X
  <1>6. /\ w.stage = "solved" /\ b.hash = h /\ b.parent = p /\ b.height = Len(p) + 1
        /\ b.timestamp = time /\ b.stateRoot = w.store /\ b.txs = batch /\ b.nonce.luck = luck
    BY <1>0, <1>1, <1>2, <1>4, Zenon DEF SolvedAs
  <1>7. /\ h \in Seq(Header) /\ h # << >> /\ Len(h) = Len(p) + 1 /\ Len(p) \in Nat
        /\ ExtendsBy(h, p, batch)
    <2> DEFINE e == HeaderOf(batch, time, luck, miner)
    <2>1. Binds(h, p, e, TxRoot(batch))
      BY <1>0, <1>2, <1>3, HashBinds, Zenon
    <2> HIDE DEF e, h
    <2>2. QED
      BY <2>1, Zenon DEF Binds, ExtendsBy
  <1>8. Reported(b)
    <2> DEFINE run == RunBatch(batch, luck, s)
    <2>1. /\ \E R : run.results \in Seq(R) /\ \A r \in R : r.gasUsed \in Nat
          /\ Len(run.results) = Len(run.done)
          /\ \A k \in 1..Len(run.done) : run.results[k].tx = run.done[k].id
      <3>1. OneResultEach(run, batch)
        BY <1>0, <1>3, BatchSound, Zenon
      <3> HIDE DEF run
      <3>2. QED
        BY <3>1, Zenon DEF OneResultEach
    <2>2. b.results = run.results
      BY <1>1, <1>4, Zenon DEF SolvedAs
    <2> HIDE DEF run
    <2>3. DOMAIN run.results = 1..Len(run.results) /\ DOMAIN batch = 1..Len(batch)
      BY <1>3, <2>1, LenProperties
    <2>4. run.done = batch
      BY <1>0 DEF run
    <2>5. QED
      BY <1>6, <2>1, <2>2, <2>3, <2>4 DEF Reported
  <1> HIDE DEF h
  <1>9. ReplayOk(b, s) /\ ReplayStore(b, s) = w.store
    <2>1. time <= time
      BY <1>0
    <2>2. /\ Minable(round.batch) /\ round.txRoot = TxRoot(round.batch)
          /\ round.timestamp \in Nat /\ round.timestamp <= time
          /\ RunBatch(round.batch, luck, round.store).done = round.batch
      BY <1>0, <1>1, <2>1, Zenon
    <2>3. /\ ReplayOk(w.block, round.store)
          /\ ReplayStore(w.block, round.store) = w.store
      BY <1>0, <1>5, <2>2, SolvedVerifies, Zenon
    <2>4. QED
      BY <1>1, <2>3, Zenon
  <1>10. ASSUME NEW t \in Nat, b.timestamp <= t PROVE ValidStructure(b, t)
    <2>1. round.timestamp <= t
      BY <1>1, <1>6, <1>10
    <2>2. QED
      BY <1>0, <1>1, <1>5, <2>1, SolvedVerifies, Zenon
  <1>11. /\ D \cap X = {}
         /\ RunBatch(batch, luck, s).fits
         /\ \A r \in b.rewardTx : ResultFits(RunBatch(batch, luck, s).store, ExecuteReward(r))
         /\ Sane(w.store, X \cup D, Len(p) + 1)
         /\ Follows(s, w.store, D)
    BY <1>0, <1>1, <1>2, <1>3, <1>5, SolvedEffects, Zenon
  <1>12. Executed(h) = X \cup D /\ Once(h)
    BY <1>0, <1>2, <1>3, <1>11, ChainGrows, Zenon DEF X, h
  <1>13. Sane(w.store, Executed(h), Len(h))
    BY <1>7, <1>11, <1>12, Zenon
  <1>14. b.txs \in Seq(Tx) /\ ExtendsBy(b.hash, p, b.txs)
    BY <1>3, <1>6, <1>7
  <1>15. \A r, q \in b.rewardTx : r = q
    <2>1. b.rewardTx = RewardOf(round, luck, miner)
      BY <1>4, Zenon DEF SolvedAs
    <2>2. \A r, q \in RewardOf(round, luck, miner) : r = q
      BY DEF RewardOf
    <2>3. QED
      BY <2>1, <2>2
  <1>16. Built(f, p, b, w.store)
    BY <1>0, <1>6, <1>7, <1>8, <1>9, <1>10, <1>11, <1>12, <1>13, <1>14, <1>15, Zenon DEF Built, s
  <1>17. QED
    BY <1>6, <1>16, Zenon DEF w, h, Builds

\* So is every published block but genesis.
LEMMA EntryIsBuilt ==
    ASSUME NEW f, NetOK(f), NEW h \in DOMAIN f, h # << >>
    PROVE  LET b == f[h].block
           IN  Built(f, b.parent, b, f[h].store) /\ b.hash = h
  <1>0. MinedEntry(f, h)
    BY Zenon DEF NetOK
  <1>a. PICK p, batch, time, luck, miner : MinedBy(f, h, p, batch, time, luck, miner)
    BY <1>0, Zenon DEF MinedEntry
  <1> DEFINE w == Mined(f, p, batch, time, luck, miner)
  <1>1. /\ p \in DOMAIN f /\ batch \in Seq(Tx) /\ time \in Nat /\ luck \in Luck /\ miner \in Who
        /\ Completes(f, p, batch, time, luck, miner)
        /\ h = BlockHash(p, TxRoot(batch), time, luck, miner)
        /\ f[h] = Entry(w.block, w.store)
    BY <1>a, Zenon DEF MinedBy
  <1>2. f[h].block = w.block /\ f[h].store = w.store
    <2> HIDE DEF w
    <2>1. Entry(w.block, w.store).block = w.block /\ Entry(w.block, w.store).store = w.store
      BY EntryShape, Zenon
    <2>2. QED
      BY <1>1, <2>1, Zenon
  <1>3. Built(f, p, w.block, w.store)
    BY <1>1, MinedIsBuilt, Zenon DEF Builds
  <1>4. w.block.parent = p
    BY <1>3, Zenon DEF Built
  <1>5. f[h].block.hash = h
    BY Zenon DEF NetOK, EntryOK
  <1> HIDE DEF w
  <1>6. QED
    BY <1>2, <1>3, <1>4, <1>5, Zenon

\* The parent hash in the genesis block is nobody's.
LEMMA GenesisHasNoParent ==
    ASSUME NEW f, NetOK(f), f[<< >>].block.parent \in DOMAIN f
    PROVE  FALSE
  <1> DEFINE e == [txs |-> << >>, time |-> 0, luck |-> 0, miner |-> "zero"]
             h == f[<< >>].block.parent
  <1>1. h = BlockHash(<< >>, << >>, 0, 0, "zero")
    BY GenesisEntry, GenesisShape
  <1>2. h \in Seq(Header)
    BY DEF NetOK, EntryOK
  <1> HIDE DEF h
  <1>3. e \in Header
    <2> HIDE DEF e
    <2>1. h = Append(<< >>, e)
      BY <1>1 DEF BlockHash, e
    <2>2. Len(h) = 1 /\ h[1] = e
      BY <2>1
    <2>3. QED
      BY <1>2, <2>2, ElementOfSeq
  <1>4. QED
    BY <1>3 DEF Header, Who

\* Entries that stay are the ones a round was prepared on.
Retains(f, g) == \A h \in DOMAIN f : h \in DOMAIN g /\ g[h] = f[h]

StillMined(f, g, p, batch, time, luck, miner) ==
    /\ Completes(g, p, batch, time, luck, miner)
    /\ Mined(g, p, batch, time, luck, miner) = Mined(f, p, batch, time, luck, miner)

LEMMA MinedKept ==
    ASSUME NEW f, NEW g, Retains(f, g),
           NEW p, NEW batch, NEW time, NEW luck, NEW miner,
           Completes(f, p, batch, time, luck, miner)
    PROVE  StillMined(f, g, p, batch, time, luck, miner)
  <1>1. p \in DOMAIN g /\ g[p] = f[p]
    BY Zenon DEF Completes, Retains
  <1>2. QED
    BY <1>1, Zenon DEF StillMined, Completes, Mined, RoundOn

\* So an entry that a round left is still one that a round left.
LEMMA EntryKept ==
    ASSUME NEW f, NEW g, Retains(f, g), NEW k \in DOMAIN f, MinedEntry(f, k)
    PROVE  MinedEntry(g, k)
  <1>0. PICK p, batch, time, luck, miner : MinedBy(f, k, p, batch, time, luck, miner)
    BY Zenon DEF MinedEntry
  <1>1. /\ p \in DOMAIN f /\ batch \in Seq(Tx) /\ time \in Nat /\ luck \in Luck /\ miner \in Who
        /\ Completes(f, p, batch, time, luck, miner)
        /\ k = BlockHash(p, TxRoot(batch), time, luck, miner)
        /\ f[k] = Entry(Mined(f, p, batch, time, luck, miner).block,
                        Mined(f, p, batch, time, luck, miner).store)
    BY <1>0, Zenon DEF MinedBy
  <1>2. /\ Completes(g, p, batch, time, luck, miner)
        /\ Mined(g, p, batch, time, luck, miner) = Mined(f, p, batch, time, luck, miner)
    <2>1. StillMined(f, g, p, batch, time, luck, miner)
      BY <1>1, MinedKept, Zenon
    <2>2. QED
      BY <2>1, Zenon DEF StillMined
  <1>3. g[k] = f[k] /\ p \in DOMAIN g
    BY <1>1, Zenon DEF Retains
  <1>4. MinedBy(g, k, p, batch, time, luck, miner)
    BY <1>1, <1>2, <1>3, Zenon DEF MinedBy
  <1>5. QED
    BY <1>4, Zenon DEF MinedEntry

\* A block that is mined again is the block that was published.
LEMMA MinedAgain ==
    ASSUME NEW f, NetOK(f), NEW p, NEW batch, NEW time, NEW luck, NEW miner,
           Completes(f, p, batch, time, luck, miner),
           BlockHash(p, TxRoot(batch), time, luck, miner) \in DOMAIN f \ {<< >>}
    PROVE  f[BlockHash(p, TxRoot(batch), time, luck, miner)] =
              Entry(Mined(f, p, batch, time, luck, miner).block,
                    Mined(f, p, batch, time, luck, miner).store)
  <1> DEFINE h == BlockHash(p, TxRoot(batch), time, luck, miner)
  <1>1. /\ p \in DOMAIN f /\ batch \in Seq(Tx) /\ time \in Nat /\ luck \in Luck /\ miner \in Who
    BY Zenon DEF Completes, Minable
  <1> HIDE DEF h
  <1>0. MinedEntry(f, h)
    BY Zenon DEF NetOK, h
  <1>a. PICK q, bats, tick, lot, who : MinedBy(f, h, q, bats, tick, lot, who)
    BY <1>0, Zenon DEF MinedEntry
  <1>2. /\ q \in DOMAIN f /\ bats \in Seq(Tx) /\ tick \in Nat /\ lot \in Luck /\ who \in Who
        /\ h = BlockHash(q, TxRoot(bats), tick, lot, who)
        /\ f[h] = Entry(Mined(f, q, bats, tick, lot, who).block,
                        Mined(f, q, bats, tick, lot, who).store)
    BY <1>a, Zenon DEF MinedBy
  <1>3. p \in Seq(Header) /\ q \in Seq(Header)
    BY <1>1, <1>2, Zenon DEF NetOK, EntryOK
  <1>4. p = q /\ batch = bats /\ time = tick /\ luck = lot /\ miner = who
    <2>1. Names(h, p, batch, time, luck, miner)
      BY <1>1, <1>3, Zenon DEF Names, h
    <2>2. Names(h, q, bats, tick, lot, who)
      BY <1>2, <1>3, Zenon DEF Names
    <2>3. QED
      BY <2>1, <2>2, HashIdentifies, Zenon
  <1>5. QED
    BY <1>2, <1>4, Zenon DEF h

\* Publishing a block that a round completed changes no published entry, and
\* keeps the network as it should be.
Adds(f, g, b, s) ==
    /\ DOMAIN g = DOMAIN f \cup {b.hash}
    /\ g[b.hash] = Entry(b, s)
    /\ \A k \in DOMAIN f : k # b.hash => g[k] = f[k]

Publishes(f, g, b, s) ==
    /\ NetOK(g)
    /\ DOMAIN g = DOMAIN f \cup {b.hash}
    /\ g[b.hash].block = b /\ g[b.hash].store = s
    /\ \A h \in DOMAIN f : g[h] = f[h]

LEMMA NetGrows ==
    ASSUME NEW f, NetOK(f), NEW p, NEW batch, NEW time, NEW luck, NEW miner,
           Completes(f, p, batch, time, luck, miner),
           NEW g, Adds(f, g, Mined(f, p, batch, time, luck, miner).block,
                       Mined(f, p, batch, time, luck, miner).store)
    PROVE  Publishes(f, g, Mined(f, p, batch, time, luck, miner).block,
                     Mined(f, p, batch, time, luck, miner).store)
  <1> DEFINE b == Mined(f, p, batch, time, luck, miner).block
             s == Mined(f, p, batch, time, luck, miner).store
             h == BlockHash(p, TxRoot(batch), time, luck, miner)
  <1>0. Adds(f, g, b, s)
    OBVIOUS
  <1>1. Built(f, p, b, s) /\ b.hash = h
    <2>1. Builds(f, p, time, h, Mined(f, p, batch, time, luck, miner))
      BY MinedIsBuilt, Zenon
    <2>2. QED
      BY <2>1, Zenon DEF Builds
  <1>2. h \in DOMAIN f \ {<< >>} => f[h] = Entry(b, s)
    BY MinedAgain, Zenon
  <1> HIDE DEF b, s, h
  <1>3. h # << >>
    BY <1>1, Zenon DEF Built
  <1>4. \A k \in DOMAIN f : k \in DOMAIN g /\ g[k] = f[k]
    BY <1>0, <1>1, <1>2, <1>3, Zenon DEF Adds
  <1>a. Retains(f, g)
    BY <1>4, Zenon DEF Retains
  <1>5. << >> \in DOMAIN g /\ g[<< >>] = Entry(GenesisBlock, GenesisStore)
    BY <1>4, Zenon DEF NetOK
  <1>6. g[h].block = b /\ g[h].store = s
    <2>1. Entry(b, s).block = b /\ Entry(b, s).store = s
      BY EntryShape, Zenon
    <2>2. QED
      BY <1>0, <1>1, <2>1, Zenon DEF Adds
  <1>7. \A k \in DOMAIN g : k \in DOMAIN f \/ k = h
    BY <1>0, <1>1, Zenon DEF Adds
  <1>8. ASSUME NEW k \in DOMAIN g PROVE EntryOK(g, k)
    <2>1. CASE k \in DOMAIN f
      BY <1>4, <2>1, Zenon DEF NetOK, EntryOK
    <2>2. CASE k = h
      BY <1>1, <1>6, <2>2, Zenon DEF EntryOK, Built
    <2>3. QED
      BY <1>7, <2>1, <2>2, Zenon
  <1>9. ASSUME NEW k \in DOMAIN g, k # << >> PROVE MinedEntry(g, k)
    <2>1. CASE k \in DOMAIN f
      <3>1. MinedEntry(f, k)
        BY <1>9, <2>1, Zenon DEF NetOK
      <3>2. QED
        BY <1>a, <2>1, <3>1, EntryKept, Zenon
    <2>2. CASE k = h
      <3>1. /\ Completes(g, p, batch, time, luck, miner)
            /\ Mined(g, p, batch, time, luck, miner) = Mined(f, p, batch, time, luck, miner)
        <4>1. StillMined(f, g, p, batch, time, luck, miner)
          BY <1>a, MinedKept, Zenon
        <4>2. QED
          BY <4>1, Zenon DEF StillMined
      <3>2. batch \in Seq(Tx) /\ p \in DOMAIN g /\ time \in Nat /\ luck \in Luck /\ miner \in Who
        BY <3>1, Zenon DEF Completes, Minable
      <3>3. g[k] = Entry(Mined(g, p, batch, time, luck, miner).block,
                         Mined(g, p, batch, time, luck, miner).store)
        BY <1>0, <1>1, <2>2, <3>1, Zenon DEF Adds, b, s
      <3>4. MinedBy(g, k, p, batch, time, luck, miner)
        BY <2>2, <3>1, <3>2, <3>3, Zenon DEF MinedBy, h
      <3>5. QED
        BY <3>4, Zenon DEF MinedEntry
    <2>3. QED
      BY <1>7, <2>1, <2>2, Zenon
  <1>10. NetOK(g)
    BY <1>5, <1>8, <1>9, Zenon DEF NetOK
  <1>11. Publishes(f, g, b, s)
    BY <1>0, <1>1, <1>4, <1>6, <1>10, Zenon DEF Publishes, Adds
  <1>12. QED
    BY <1>11, Zenon DEF b, s

\* The round in progress was prepared on a published block, and when it found
\* a block, no transaction was dropped since the last regrind.
Grinding(w, f, t) ==
    \E p \in DOMAIN f, batch \in Seq(Tx), time \in 0..t :
        Minable(batch) /\ w = RoundOn(f, p, batch, time)

Solved(w, f, t) ==
    \E p \in DOMAIN f, batch \in Seq(Tx), time \in 0..t, luck \in Luck :
        Completes(f, p, batch, time, luck, "me") /\ w = Mined(f, p, batch, time, luck, "me")

WorkOK(w, f, t) == w = Idle \/ Grinding(w, f, t) \/ Solved(w, f, t)

\* Published entries stay, and time passes.
LEMMA WorkKept ==
    ASSUME NEW w, NEW f, NEW g, NEW t \in Nat, NEW u \in Nat, t <= u, WorkOK(w, f, t),
           \A h \in DOMAIN f : h \in DOMAIN g /\ g[h] = f[h]
    PROVE  WorkOK(w, g, u)
  <1>0. \A x \in 0..t : x \in 0..u
    OBVIOUS
  <1>1. CASE w = Idle
    BY <1>1 DEF WorkOK
  <1>2. CASE Grinding(w, f, t)
    <2>1. PICK p \in DOMAIN f, batch \in Seq(Tx), time \in 0..t :
              Minable(batch) /\ w = RoundOn(f, p, batch, time)
      BY <1>2 DEF Grinding
    <2>2. p \in DOMAIN g /\ RoundOn(g, p, batch, time) = RoundOn(f, p, batch, time)
      BY DEF RoundOn
    <2>3. Grinding(w, g, u)
      BY <1>0, <2>1, <2>2 DEF Grinding
    <2>4. QED
      BY <2>3 DEF WorkOK
  <1>3. CASE Solved(w, f, t)
    <2>1. PICK p \in DOMAIN f, batch \in Seq(Tx), time \in 0..t, luck \in Luck :
              /\ Completes(f, p, batch, time, luck, "me")
              /\ w = Mined(f, p, batch, time, luck, "me")
      BY <1>3 DEF Solved
    <2>2. /\ Completes(g, p, batch, time, luck, "me")
          /\ Mined(g, p, batch, time, luck, "me") = w
      <3>1. Retains(f, g)
        BY Zenon DEF Retains
      <3>2. StillMined(f, g, p, batch, time, luck, "me")
        BY <2>1, <3>1, MinedKept, Zenon
      <3>3. QED
        BY <2>1, <3>2, Zenon DEF StillMined
    <2>3. Solved(w, g, u)
      BY <1>0, <2>1, <2>2, Zenon DEF Solved
    <2>4. QED
      BY <2>3 DEF WorkOK
  <1>4. QED
    BY <1>1, <1>2, <1>3 DEF WorkOK

\* One iteration of grind, on a batch that a mempool handed out: it gives up,
\* starts over with fewer transactions, or completes.
LEMMA GrindOutcome ==
    ASSUME NEW f, NEW p \in DOMAIN f, NEW batch, Minable(batch), NEW time \in Nat,
           NEW luck \in Luck, NEW miner \in Who
    PROVE  LET w == GrindStep(RoundOn(f, p, batch, time), luck, miner)
           IN  \/ w = Idle
               \/ \E some \in Seq(Tx) : Minable(some) /\ w = RoundOn(f, p, some, time)
               \/ /\ Completes(f, p, batch, time, luck, miner)
                  /\ w = Mined(f, p, batch, time, luck, miner)
  <1> DEFINE round == RoundOn(f, p, batch, time)
             w == GrindStep(round, luck, miner)
             run == RunBatch(batch, luck, f[p].store)
             done == run.done
  <1>1. /\ round.parent = p /\ round.height = f[p].block.height + 1 /\ round.store = f[p].store
        /\ round.batch = batch /\ round.txRoot = TxRoot(batch) /\ round.timestamp = time
    <2>1. IsRound(round, f, p, batch, time)
      BY RoundShape, Zenon
    <2> HIDE DEF round
    <2>2. QED
      BY <2>1, Zenon DEF IsRound
  <1>2. batch \in Seq(Tx) /\ IsInjective(TxRoot(batch)) /\ Len(batch) \in 1..MaxTxs
    BY DEF Minable
  <1>3. Drawn(done, batch, Len(batch))
    <2>1. OneResultEach(run, batch)
      BY <1>2, BatchSound, Zenon
    <2> HIDE DEF run
    <2>2. QED
      BY <2>1, Zenon DEF OneResultEach
  <1>4. done \in Seq(Tx) /\ Len(done) \in Nat
    BY <1>3, LenProperties DEF Drawn
  <1>5. w = CASE done = << >> -> Idle
              [] done # << >> /\ TxRoot(done) # TxRoot(batch) ->
                    Round(round.parent, round.height, round.store, done, round.timestamp)
              [] OTHER -> Solve(round, luck, miner)
    <2> HIDE DEF round, run
    <2>1. RunBatch(round.batch, luck, round.store) = run
      BY <1>1 DEF run
    <2>2. QED
      BY <1>1, <2>1 DEF GrindStep
  <1> HIDE DEF w, run, done
  <1>6. Round(round.parent, round.height, round.store, done, round.timestamp) = RoundOn(f, p, done, time)
    BY <1>1, Zenon DEF RoundOn
  <1> HIDE DEF round
  <1>7. CASE done = << >>
    BY <1>5, <1>7 DEF w, round
  <1>8. CASE done # << >> /\ TxRoot(done) # TxRoot(batch)
    <2>1. w = RoundOn(f, p, done, time)
      BY <1>5, <1>6, <1>8
    <2>2. Len(done) # 0
      BY <1>4, <1>8, EmptySeq
    <2>3. Len(done) \in 1..MaxTxs
      <3>1. Len(done) <= Len(batch)
        BY <1>3 DEF Drawn
      <3>2. QED
        BY <1>2, <1>4, <2>2, <3>1, LimitsAssumption
    <2>4. \A i \in 1..Len(done) : ValidSigned(done[i])
      BY <1>3 DEF Drawn, Minable
    <2>5. Minable(done)
      BY <1>3, <1>4, <2>3, <2>4 DEF Drawn, Minable
    <2>6. QED
      BY <1>4, <2>1, <2>5 DEF w, round
  <1>9. CASE done # << >> /\ TxRoot(done) = TxRoot(batch)
    <2>1. w = Solve(round, luck, miner)
      BY <1>5, <1>9
    <2>2. done = batch
      BY <1>2, <1>4, <1>9, RootIdentifies
    <2>3. Completes(f, p, batch, time, luck, miner)
      BY <2>2 DEF Completes, done, run
    <2>4. w = Mined(f, p, batch, time, luck, miner)
      BY <2>1 DEF Mined, round
    <2>5. QED
      BY <2>3, <2>4 DEF w, round
  <1>10. QED
    BY <1>7, <1>8, <1>9, Zenon
=============================================================================
