---------------------------- MODULE SupplyProofs ----------------------------
(***************************************************************************)
(* A block changes the supply of coins only by what its calls mint and     *)
(* destroy, for every transaction the VM can run: what senders pay for gas *)
(* is what the reward mints.                                               *)
(***************************************************************************)
EXTENDS LedgerProofs, Coins, FiniteSetTheorems

-----------------------------------------------------------------------------
(* Counting units.                                                         *)

\* Objects whose units can be counted.
Counted(s) == IsFiniteSet(DOMAIN s) /\ \A i \in DOMAIN s : s[i].balance \in Nat

\* The units of the objects in D.
UnitsIn(s, D) == {u \in Units(s) : u[1] \in D}

Worth(s, D) == Cardinality(UnitsIn(s, D))

\* A unit is a coin and a number up to its balance.
LEMMA UnitsShape ==
    ASSUME NEW s, NEW u
    PROVE  u \in Units(s) <=> \E i \in DOMAIN s : s[i].kind = "coin" /\ u \in {i} \X (1..s[i].balance)
  BY DEF Units

\* Finitely many objects have finitely many units.
LEMMA UnitsFinite ==
    ASSUME NEW s, Counted(s)
    PROVE  IsFiniteSet(Units(s))
  <1> DEFINE J == {j \in DOMAIN s : s[j].kind = "coin"}
             f == [i \in J |-> {i} \X (1..s[i].balance)]
             T == {f[i] : i \in J}
  <1>1. IsFiniteSet(J)
    <2>1. J \in SUBSET DOMAIN s
      OBVIOUS
    <2> HIDE DEF J
    <2>2. QED
      BY <2>1, FS_Subset DEF Counted
  <1>2. Units(s) = UNION T
    BY Zenon DEF Units
  <1>3. ASSUME NEW U \in T PROVE IsFiniteSet(U)
    <2>1. PICK i \in J : U = {i} \X (1..s[i].balance)
      BY Zenon
    <2>2. IsFiniteSet({i})
      BY FS_Singleton
    <2>3. IsFiniteSet(1..s[i].balance)
      BY FS_Interval DEF Counted
    <2>4. QED
      BY <2>1, <2>2, <2>3, FS_Product, Zenon
  <1>4. IsFiniteSet(T)
    <2>1. f \in Surjection(J, T)
      BY Zenon DEF Surjection
    <2> HIDE DEF f, T, J
    <2>2. QED
      BY <1>1, <2>1, FS_Surjection
  <1> HIDE DEF T
  <1>5. QED
    BY <1>2, <1>3, <1>4, FS_UNION

\* The units of two sets of objects add up.
LEMMA WorthAdds ==
    ASSUME NEW s, Counted(s), NEW D, NEW E, D \cap E = {}
    PROVE  /\ Worth(s, D) \in Nat /\ Worth(s, E) \in Nat
           /\ Worth(s, D \cup E) = Worth(s, D) + Worth(s, E)
  <1> DEFINE P == UnitsIn(s, D)
             Q == UnitsIn(s, E)
  <1>1. P \in SUBSET Units(s) /\ Q \in SUBSET Units(s) /\ P \cap Q = {} /\ UnitsIn(s, D \cup E) = P \cup Q
    BY DEF UnitsIn
  <1> HIDE DEF P, Q
  <1>2. IsFiniteSet(P) /\ IsFiniteSet(Q)
    BY <1>1, UnitsFinite, FS_Subset
  <1>3. Cardinality(P \cup Q) = Cardinality(P) + Cardinality(Q) - Cardinality(P \cap Q)
    BY <1>2, FS_Union
  <1>4. Cardinality(P \cap Q) = 0 /\ Cardinality(P) \in Nat /\ Cardinality(Q) \in Nat
    BY <1>1, <1>2, FS_EmptySet, FS_CardinalityType, Zenon
  <1>5. Worth(s, D) = Cardinality(P) /\ Worth(s, E) = Cardinality(Q) /\ Worth(s, D \cup E) = Cardinality(P \cup Q)
    BY <1>1 DEF Worth, P, Q
  <1>6. QED
    BY <1>3, <1>4, <1>5

LEMMA SupplyIsWorth ==
    ASSUME NEW s
    PROVE  Supply(s) = Worth(s, DOMAIN s)
  <1>1. UnitsIn(s, DOMAIN s) = Units(s)
    BY DEF UnitsIn, Units
  <1>2. QED
    BY <1>1 DEF Worth, Supply

\* Only the coins and their balances count.
LEMMA WorthSame ==
    ASSUME NEW s, NEW t, NEW D, D \subseteq DOMAIN s, D \subseteq DOMAIN t,
           \A i \in D : s[i].kind = t[i].kind /\ s[i].balance = t[i].balance
    PROVE  UnitsIn(s, D) = UnitsIn(t, D) /\ Worth(s, D) = Worth(t, D)
  <1>1. ASSUME NEW u PROVE u \in UnitsIn(s, D) <=> u \in UnitsIn(t, D)
    <2>1. \A i : u \in {i} \X (1..s[i].balance) => u[1] = i
      OBVIOUS
    <2>2. \A i : u \in {i} \X (1..t[i].balance) => u[1] = i
      OBVIOUS
    <2>3. u \in UnitsIn(s, D) <=> \E i \in D : s[i].kind = "coin" /\ u \in {i} \X (1..s[i].balance)
      BY <2>1, UnitsShape DEF UnitsIn
    <2>4. u \in UnitsIn(t, D) <=> \E i \in D : t[i].kind = "coin" /\ u \in {i} \X (1..t[i].balance)
      BY <2>2, UnitsShape DEF UnitsIn
    <2>5. QED
      BY <2>3, <2>4
  <1>2. UnitsIn(s, D) = UnitsIn(t, D)
    BY <1>1
  <1>3. QED
    BY <1>2 DEF Worth

\* A coin is worth its balance.
LEMMA WorthOfCoin ==
    ASSUME NEW s, NEW g \in DOMAIN s, s[g].kind = "coin", s[g].balance \in Nat
    PROVE  Worth(s, {g}) = s[g].balance
  <1> DEFINE b == s[g].balance
  <1>1. UnitsIn(s, {g}) = {g} \X (1..b)
    <2>1. ASSUME NEW u PROVE u \in UnitsIn(s, {g}) <=> u \in {g} \X (1..b)
      <3>1. \A i : u \in {i} \X (1..s[i].balance) => u[1] = i
        OBVIOUS
      <3>2. u \in UnitsIn(s, {g}) <=> \E i \in {g} : s[i].kind = "coin" /\ u \in {i} \X (1..s[i].balance)
        BY <3>1, UnitsShape DEF UnitsIn
      <3>3. QED
        BY <3>2
    <2>2. QED
      BY <2>1
  <1> HIDE DEF b
  <1>2. b \in Nat
    BY DEF b
  <1>3. IsFiniteSet({g}) /\ Cardinality({g}) = 1
    BY FS_Singleton, Zenon
  <1>4. IsFiniteSet(1..b) /\ Cardinality(1..b) = b
    <2>1. 1 \in Int /\ b \in Int
      BY <1>2
    <2>2. IsFiniteSet(1..b) /\ Cardinality(1..b) = IF 1 > b THEN 0 ELSE b - 1 + 1
      BY <2>1, FS_Interval
    <2>3. QED
      BY <1>2, <2>2
  <1>5. Cardinality({g} \X (1..b)) = Cardinality({g}) * Cardinality(1..b)
    BY <1>3, <1>4, FS_Product, Zenon
  <1>6. Cardinality({g} \X (1..b)) = b
    BY <1>2, <1>3, <1>4, <1>5
  <1>7. QED
    BY <1>1, <1>6 DEF Worth, b

-----------------------------------------------------------------------------
(* One transaction.                                                        *)

\* The objects of a call that resolves, as the transaction refers to them.
LEMMA GivenIsStored ==
    ASSUME NEW tx, NEW s, ArgsResolve(tx, s)
    PROVE  /\ ArgIds(tx) \subseteq DOMAIN s /\ DOMAIN Given(tx) = ArgIds(tx)
           /\ \A i \in ArgIds(tx) : Given(tx)[i] = s[i]
  <1>1. ArgIds(tx) \subseteq DOMAIN s /\ DOMAIN Given(tx) = ArgIds(tx)
    BY DEF ArgIds, ArgsResolve, Given
  <1>2. ASSUME NEW i \in ArgIds(tx) PROVE Given(tx)[i] = s[i]
    <2> DEFINE k == CHOOSE k \in 1..Len(tx.args) : tx.args[k].id = i
    <2>1. k \in 1..Len(tx.args) /\ tx.args[k].id = i
      BY DEF ArgIds
    <2>2. Given(tx)[i] = tx.args[k].obj
      BY DEF Given
    <2> HIDE DEF k
    <2>3. QED
      BY <2>1, <2>2 DEF ArgsResolve
  <1>3. QED
    BY <1>1, <1>2

\* The ids a call is given and the ids it sends, if the transaction succeeds.
Taken(tx, ok) == IF ok THEN ArgIds(tx) ELSE {}
Moved(tx, luck, ok) == IF ok THEN DOMAIN tx.run[luck].sends ELSE {}

\* What execution leaves alone (U), what it takes (A) and puts down (M), and
\* the gas coin.
Parts(tx, luck, s, r, t) ==
    LET g == tx.gas.id
        A == Taken(tx, r.success)
        M == Moved(tx, luck, r.success)
        U == DOMAIN s \ (A \cup {g})
    IN  /\ g \in DOMAIN s /\ g \notin A /\ A \subseteq DOMAIN s
        /\ M \cap (U \cup {g}) = {} /\ DOMAIN t = (U \cup {g}) \cup M
        /\ \A i \in U : t[i] = s[i]
        /\ \A i \in M : /\ t[i].kind = tx.run[luck].sends[i].kind
                        /\ t[i].balance = tx.run[luck].sends[i].balance
        /\ t[g] = GasCoinAfter(tx, luck, s)
        /\ r.success = Succeeds(tx, luck, s) /\ r.gasUsed = GasUsed(tx, luck, s)

LEMMA ExecuteParts ==
    ASSUME NEW tx \in Tx, NEW luck \in Luck, NEW s, ValidSigned(tx), GasCoinResolves(tx, s),
           tx.run[luck].fresh \cap DOMAIN s = {}
    PROVE  Parts(tx, luck, s, Execute(tx, luck, s), ApplyResult(s, Execute(tx, luck, s)))
  <1> DEFINE r == Execute(tx, luck, s)
             run == tx.run[luck]
             ok == Succeeds(tx, luck, s)
             t == ApplyResult(s, r)
             g == tx.gas.id
             A == Taken(tx, ok)
             M == Moved(tx, luck, ok)
             U == DOMAIN s \ (A \cup {g})
             made == M \cap run.fresh
             written == (M \ run.fresh) \cup {g}
             gone == IF ok THEN run.burns \ run.fresh ELSE {}
  <1>1. /\ r.success = ok /\ r.gasUsed = GasUsed(tx, luck, s)
        /\ r.created = [i \in made |-> Written(tx, 1, run.sends[i])]
        /\ r.changed = [i \in written |->
                           IF i = g THEN GasCoinAfter(tx, luck, s)
                           ELSE Written(tx, s[i].version + 1, run.sends[i])]
        /\ r.destroyed = gone
    <2>1. /\ r.success = ok /\ r.gasUsed = GasUsed(tx, luck, s)
          /\ r.destroyed = gone
      BY Zenon DEF Execute
    <2> DEFINE sent == IF ok THEN DOMAIN run.sends ELSE {}
    <2>2. /\ r.created = [i \in sent \cap run.fresh |-> Written(tx, 1, run.sends[i])]
          /\ r.changed = [i \in (sent \ run.fresh) \cup {g} |->
                             IF i = g THEN GasCoinAfter(tx, luck, s)
                             ELSE Written(tx, s[i].version + 1, run.sends[i])]
      BY Zenon DEF Execute
    <2>3. sent = M
      BY Zenon DEF Moved
    <2>4. QED
      BY <2>1, <2>2, <2>3, Zenon
  <1>2. g \in DOMAIN s
    BY DEF GasCoinResolves
  <1>3. g \notin A /\ A \subseteq DOMAIN s
    <2>1. g \notin ArgIds(tx)
      BY DEF ValidSigned
    <2>2. ok => ArgIds(tx) \subseteq DOMAIN s
      BY GivenIsStored DEF Succeeds
    <2>3. QED
      BY <2>1, <2>2 DEF Taken
  <1>4. /\ M \subseteq A \cup run.fresh /\ gone \subseteq A /\ M \cap gone = {}
        /\ A \subseteq M \cup gone
    <2>1. CASE ok
      <3>1. /\ DOMAIN run.sends \cup run.burns \subseteq ArgIds(tx) \cup run.fresh
            /\ DOMAIN run.sends \cap run.burns = {}
        BY TxAssumption
      <3>2. ArgIds(tx) \subseteq DOMAIN run.sends \cup run.burns
        BY <2>1 DEF Succeeds, AllConsumed
      <3>3. A = ArgIds(tx) /\ M = DOMAIN run.sends /\ gone = run.burns \ run.fresh
        BY <2>1 DEF Taken, Moved
      <3> HIDE DEF run, A, M, gone, ok
      <3>4. A \cap run.fresh = {}
        BY <1>3 DEF run
      <3>5. QED
        BY <3>1, <3>2, <3>3, <3>4
    <2>2. CASE ~ok
      <3>1. A = {} /\ M = {} /\ gone = {}
        BY <2>2 DEF Taken, Moved
      <3>2. QED
        BY <3>1
    <2>3. QED
      BY <2>1, <2>2, Zenon
  <1> HIDE DEF r, ok, A, M, gone, g, run, made, written
  <1>5. DOMAIN r.created = made /\ DOMAIN r.changed = written
    BY <1>1
  <1>6. run.fresh \cap DOMAIN s = {}
    BY DEF run
  <1>7. DOMAIN t = (DOMAIN s \cup made) \ gone
    BY <1>1, <1>5 DEF ApplyResult
  <1>8. M \cap (U \cup {g}) = {} /\ DOMAIN t = (U \cup {g}) \cup M
    BY <1>2, <1>3, <1>4, <1>6, <1>7 DEF made
  <1>9. \A i \in DOMAIN t : t[i] = IF i \in written THEN r.changed[i]
                                   ELSE IF i \in made THEN r.created[i] ELSE s[i]
    BY <1>5, <1>7, <1>1 DEF ApplyResult
  <1> HIDE DEF t
  <1>10. \A i \in U : t[i] = s[i]
    <2>1. \A i \in U : i \notin written /\ i \notin made /\ i \in DOMAIN t
      BY <1>8 DEF made, written
    <2>2. QED
      BY <1>9, <2>1
  <1>11. ASSUME NEW i \in M PROVE t[i].kind = run.sends[i].kind /\ t[i].balance = run.sends[i].balance
    <2>1. \A v : /\ Written(tx, v, run.sends[i]).kind = run.sends[i].kind
                 /\ Written(tx, v, run.sends[i]).balance = run.sends[i].balance
      BY DEF Written
    <2>2. i # g /\ i \in DOMAIN t
      BY <1>8
    <2>3. CASE i \in run.fresh
      <3>1. i \in made /\ i \notin written
        BY <2>2, <2>3, Zenon DEF made, written
      <3>2. r.created[i] = Written(tx, 1, run.sends[i])
        BY <1>1, <3>1, Zenon
      <3>3. t[i] = Written(tx, 1, run.sends[i])
        BY <1>9, <2>2, <3>1, <3>2, Zenon
      <3>4. QED
        BY <2>1, <3>3
    <2>4. CASE i \notin run.fresh
      <3>1. i \in written
        BY <2>4, Zenon DEF written
      <3>2. r.changed[i] = Written(tx, s[i].version + 1, run.sends[i])
        BY <1>1, <2>2, <3>1, Zenon
      <3>3. t[i] = Written(tx, s[i].version + 1, run.sends[i])
        BY <1>9, <2>2, <3>1, <3>2, Zenon
      <3>4. QED
        BY <2>1, <3>3
    <2>5. QED
      BY <2>3, <2>4
  <1>12. t[g] = GasCoinAfter(tx, luck, s)
    <2>1. g \in written /\ g \in DOMAIN t
      BY <1>8 DEF written
    <2>2. QED
      BY <1>1, <1>9, <2>1
  <1>13. QED
    <2>1. A = Taken(tx, r.success) /\ M = Moved(tx, luck, r.success)
      BY <1>1 DEF A, M
    <2>2. r.success = Succeeds(tx, luck, s) /\ r.gasUsed = GasUsed(tx, luck, s)
      BY <1>1, Zenon DEF ok
    <2>3. Parts(tx, luck, s, r, t)
      BY <1>2, <1>3, <1>8, <1>10, <1>11, <1>12, <2>1, <2>2, Zenon DEF Parts, g, run
    <2>4. QED
      BY <2>3 DEF r, t

\* The gas coin pays what was charged, which is no more than it holds.
LEMMA GasCoinPays ==
    ASSUME NEW tx \in Tx, NEW luck \in Luck, NEW s, GasCoinResolves(tx, s)
    PROVE  LET before == s[tx.gas.id]
               after  == GasCoinAfter(tx, luck, s)
               used   == GasUsed(tx, luck, s)
           IN  /\ before.kind = "coin" /\ after.kind = "coin"
               /\ before.balance \in Nat /\ after.balance \in Nat /\ used \in Nat
               /\ after.balance + used = before.balance
  <1> DEFINE c == s[tx.gas.id]
             b == c.balance
             used == GasUsed(tx, luck, s)
  <1>1. b \in Nat /\ c.kind = "coin"
    BY TxAssumption DEF GasCoinResolves
  <1>2. tx.run[luck].cost \in Nat /\ BaseCost \in Nat
    BY TxAssumption, LimitsAssumption
  <1>3. used \in Nat /\ used <= b
    <2> DEFINE charged == IF ArgsResolve(tx, s) THEN tx.run[luck].cost ELSE BaseCost
    <2>1. charged \in Nat
      BY <1>2
    <2>2. used = IF charged > b THEN b ELSE charged
      BY DEF GasUsed
    <2> HIDE DEF charged, used, b
    <2>3. QED
      BY <1>1, <2>1, <2>2
  <1> HIDE DEF used
  <1>4. /\ GasCoinAfter(tx, luck, s).kind = c.kind
        /\ GasCoinAfter(tx, luck, s).balance = IF b < used THEN 0 ELSE b - used
    <2> DEFINE sent == [owner |-> c.owner, kind |-> c.kind,
                        balance |-> IF b < used THEN 0 ELSE b - used]
    <2>1. GasCoinAfter(tx, luck, s) = Written(tx, c.version + 1, sent)
      BY Zenon DEF GasCoinAfter, used
    <2>2. \A v : /\ Written(tx, v, sent).kind = sent.kind
                 /\ Written(tx, v, sent).balance = sent.balance
      BY DEF Written
    <2>3. sent.kind = c.kind /\ sent.balance = IF b < used THEN 0 ELSE b - used
      OBVIOUS
    <2> HIDE DEF sent
    <2>4. QED
      BY <2>1, <2>2, <2>3
  <1>5. QED
    BY <1>1, <1>3, <1>4 DEF used

\* Nothing is worth nothing.
LEMMA WorthOfNothing ==
    ASSUME NEW s, Counted(s)
    PROVE  Worth(s, {}) = 0
  <1>1. Worth(s, {}) \in Nat /\ Worth(s, {}) = Worth(s, {}) + Worth(s, {})
    <2>1. {} \cap {} = {} /\ {} \cup {} = {}
      OBVIOUS
    <2>2. QED
      BY <2>1, WorthAdds
  <1> DEFINE w == Worth(s, {})
  <1> HIDE DEF w
  <1>2. w \in Nat /\ w = w + w
    BY <1>1 DEF w
  <1>3. w = 0
    BY <1>2
  <1>4. QED
    BY <1>3 DEF w

\* The units of three sets of objects add up.
Partition(s, U, A, g) ==
    DOMAIN s = (U \cup A) \cup {g} /\ U \cap A = {} /\ g \notin U /\ g \notin A

LEMMA SupplyOfParts ==
    ASSUME NEW s, Counted(s), NEW U, NEW A, NEW g, Partition(s, U, A, g)
    PROVE  /\ Worth(s, U) \in Nat /\ Worth(s, A) \in Nat /\ Worth(s, {g}) \in Nat
           /\ Supply(s) = Worth(s, U) + Worth(s, A) + Worth(s, {g})
  <1>1. U \cap A = {} /\ (U \cup A) \cap {g} = {}
    BY DEF Partition
  <1>2. /\ Worth(s, U) \in Nat /\ Worth(s, A) \in Nat
        /\ Worth(s, U \cup A) = Worth(s, U) + Worth(s, A)
    BY <1>1, WorthAdds, Zenon
  <1>3. Worth(s, {g}) \in Nat /\ Worth(s, (U \cup A) \cup {g}) = Worth(s, U \cup A) + Worth(s, {g})
    BY <1>1, WorthAdds, Zenon
  <1>4. Supply(s) = Worth(s, (U \cup A) \cup {g})
    BY SupplyIsWorth DEF Partition
  <1>5. QED
    BY <1>2, <1>3, <1>4

\* A transaction takes from the supply what it pays, and adds what its call
\* adds.
LEMMA ExecuteSupply ==
    ASSUME NEW tx \in Tx, NEW luck \in Luck, NEW s, Counted(s), ValidSigned(tx),
           GasCoinResolves(tx, s), tx.run[luck].fresh \cap DOMAIN s = {}
    PROVE  LET r == Execute(tx, luck, s)
               t == ApplyResult(s, r)
           IN  /\ Counted(t) /\ r.gasUsed \in Nat /\ NetOf(luck, tx, r.success) \in Int
               /\ Supply(s) \in Nat /\ Supply(t) \in Nat
               /\ Supply(t) + r.gasUsed = Supply(s) + NetOf(luck, tx, r.success)
  <1> DEFINE r == Execute(tx, luck, s)
             t == ApplyResult(s, r)
             g == tx.gas.id
             A == Taken(tx, r.success)
             M == Moved(tx, luck, r.success)
             U == DOMAIN s \ (A \cup {g})
             sends == tx.run[luck].sends
             after == GasCoinAfter(tx, luck, s)
             used == r.gasUsed
  <1>1. /\ g \in DOMAIN s /\ g \notin A /\ A \subseteq DOMAIN s
        /\ M \cap (U \cup {g}) = {} /\ DOMAIN t = (U \cup {g}) \cup M
        /\ \A i \in U : t[i] = s[i]
        /\ \A i \in M : t[i].kind = sends[i].kind /\ t[i].balance = sends[i].balance
        /\ t[g] = after
        /\ r.success = Succeeds(tx, luck, s) /\ used = GasUsed(tx, luck, s)
    <2>1. Parts(tx, luck, s, r, t)
      BY ExecuteParts
    <2> HIDE DEF r, t
    <2>2. QED
      BY <2>1, Zenon DEF Parts
  <1>2. /\ s[g].kind = "coin" /\ after.kind = "coin"
        /\ s[g].balance \in Nat /\ after.balance \in Nat /\ used \in Nat
        /\ after.balance + used = s[g].balance
    <2> DEFINE gas == GasUsed(tx, luck, s)
    <2>1. /\ s[g].kind = "coin" /\ after.kind = "coin"
          /\ s[g].balance \in Nat /\ after.balance \in Nat /\ gas \in Nat
          /\ after.balance + gas = s[g].balance
      BY GasCoinPays, Zenon
    <2>2. used = gas
      BY <1>1, Zenon
    <2> HIDE DEF used, gas, after, g
    <2>3. QED
      BY <2>1, <2>2, Zenon
  <1>3. /\ IsFiniteSet(DOMAIN sends) /\ \A i \in DOMAIN sends : sends[i].balance \in Nat
    BY TxAssumption
  <1>4. M \subseteq DOMAIN sends /\ (r.success => M = DOMAIN sends /\ A = ArgIds(tx))
        /\ (~r.success => M = {} /\ A = {})
    BY DEF Moved, Taken
  <1>5. r.success => ArgsResolve(tx, s)
    BY <1>1, Zenon DEF Succeeds
  <1> HIDE DEF r, A, M, after
  <1>6. U \subseteq DOMAIN s /\ Partition(s, U, A, g)
    BY <1>1, Zenon DEF Partition
  <1>7. DOMAIN t = (U \cup M) \cup {g} /\ Partition(t, U, M, g)
    BY <1>1, Zenon DEF Partition
  <1> HIDE DEF t, U, g, sends
  <1>8. Counted(t)
    <2>1. IsFiniteSet(U) /\ IsFiniteSet(M) /\ IsFiniteSet({g})
      BY <1>3, <1>4, <1>6, FS_Subset, FS_Singleton, Zenon DEF Counted
    <2>2. IsFiniteSet(U \cup M)
      BY <2>1, FS_Union, Zenon
    <2>3. IsFiniteSet(DOMAIN t)
      <3> DEFINE V == U \cup M
                 G == {g}
      <3> HIDE DEF V, G
      <3>1. IsFiniteSet(V) /\ IsFiniteSet(G)
        BY <2>1, <2>2 DEF V, G
      <3>2. IsFiniteSet(V \cup G)
        BY <3>1, FS_Union, Zenon
      <3>3. QED
        BY <1>7, <3>2 DEF V, G
    <2>4. ASSUME NEW i \in DOMAIN t PROVE t[i].balance \in Nat
      <3>1. CASE i \in U
        BY <1>1, <1>6, <3>1 DEF Counted
      <3>2. CASE i \in M
        BY <1>1, <1>3, <1>4, <3>2
      <3>3. CASE i = g
        BY <1>1, <1>2, <3>3
      <3>4. QED
        BY <1>7, <3>1, <3>2, <3>3
    <2>5. QED
      BY <2>3, <2>4 DEF Counted
  <1>9. /\ Worth(s, U) \in Nat /\ Worth(s, A) \in Nat /\ Worth(s, {g}) \in Nat
        /\ Supply(s) = Worth(s, U) + Worth(s, A) + Worth(s, {g})
    BY <1>6, SupplyOfParts
  <1>10. /\ Worth(t, U) \in Nat /\ Worth(t, M) \in Nat /\ Worth(t, {g}) \in Nat
         /\ Supply(t) = Worth(t, U) + Worth(t, M) + Worth(t, {g})
    BY <1>7, <1>8, SupplyOfParts
  <1>11. Worth(s, U) = Worth(t, U)
    BY <1>1, <1>6, <1>7, WorthSame
  <1>12. Worth(s, {g}) = s[g].balance /\ Worth(t, {g}) = after.balance
    BY <1>1, <1>2, WorthOfCoin
  <1>13. NetOf(luck, tx, r.success) = Worth(t, M) - Worth(s, A)
    <2>1. CASE r.success
      <3>1. Worth(t, M) = Supply(sends)
        <4>1. /\ M = DOMAIN sends /\ M \subseteq DOMAIN t
              /\ \A i \in M : t[i].kind = sends[i].kind /\ t[i].balance = sends[i].balance
          <5>1. M = DOMAIN sends
            BY <1>4, <2>1, Zenon DEF sends
          <5>2. M \subseteq DOMAIN t
            BY <1>7, Zenon
          <5>3. QED
            BY <1>1, <5>1, <5>2, Zenon
        <4>2. Worth(t, M) = Worth(sends, M)
          BY <4>1, WorthSame
        <4>3. QED
          BY <4>1, <4>2, SupplyIsWorth
      <3>2. Worth(s, A) = Supply(Given(tx))
        <4>1. /\ A = DOMAIN Given(tx) /\ A \subseteq DOMAIN s
              /\ \A i \in A : Given(tx)[i] = s[i]
          BY <1>4, <1>5, <2>1, GivenIsStored
        <4>2. Worth(s, A) = Worth(Given(tx), A)
          BY <4>1, WorthSame
        <4>3. QED
          BY <4>1, <4>2, SupplyIsWorth
      <3>3. QED
        BY <2>1, <3>1, <3>2 DEF NetOf, sends
    <2>2. CASE ~r.success
      <3>1. Worth(t, M) = 0 /\ Worth(s, A) = 0
        BY <1>4, <1>8, <2>2, WorthOfNothing
      <3>2. QED
        BY <2>2, <3>1 DEF NetOf
    <2>3. QED
      BY <2>1, <2>2
  <1> DEFINE mint == NetOf(luck, tx, r.success)
             w == Worth(t, M)
             v == Worth(s, A)
             x == Worth(s, U)
             b == s[g].balance
             a == after.balance
  <1>14. /\ mint = w - v /\ w \in Nat /\ v \in Nat /\ x \in Nat /\ a \in Nat /\ b \in Nat
         /\ used \in Nat /\ a + used = b
         /\ Supply(s) = x + v + b /\ Supply(t) = x + w + a
    BY <1>2, <1>9, <1>10, <1>11, <1>12, <1>13
  <1> HIDE DEF mint, w, v, x, a, b, used
  <1>15. /\ mint \in Int /\ Supply(s) \in Nat /\ Supply(t) \in Nat
         /\ Supply(t) + used = Supply(s) + mint
    BY <1>14
  <1>16. QED
    BY <1>8, <1>14, <1>15 DEF mint, used, r, t

-----------------------------------------------------------------------------
(* A batch.                                                                *)

CallLoop == INSTANCE LoopLemmas WITH Step <- AddNet

\* The gas of one more result.
LEMMA TotalGasMore ==
    ASSUME NEW R, NEW results \in Seq(R), NEW r \in R
    PROVE  TotalGas(Append(results, r)) = TotalGas(results) + r.gasUsed
  <1>1. /\ GasLoop!Run(0, 0, results) = TotalGas(results)
        /\ GasLoop!Run(0, 0, Append(results, r)) = TotalGas(Append(results, r))
    BY DEF GasLoop!Run, Gas!Run, TotalGas
  <1>2. Len(results) \in Nat /\ Len(results) + 1 \in Nat
    BY LenProperties
  <1>3. GasLoop!Counts(Len(results)) /\ GasLoop!Counts(Len(results) + 1)
    BY <1>2, Induction, Zenon DEF GasLoop!Counts
  <1>4. GasLoop!Run(0, 0, Append(results, r)) = AddGas(0, GasLoop!Run(0, 0, results), r)
    BY <1>3, GasLoop!RunAppend
  <1>5. QED
    BY <1>1, <1>4 DEF AddGas

\* What the calls do with one more call.
LEMMA NetMore ==
    ASSUME NEW d \in Seq(Tx), NEW tx \in Tx, NEW R, NEW results \in Seq(R), NEW r \in R,
           Len(results) = Len(d), NEW luck
    PROVE  NetOfCalls(Append(d, tx), Append(results, r), luck) =
               NetOfCalls(d, results, luck) + NetOf(luck, tx, r.success)
  <1> DEFINE C1(q, x) == [k \in 1..Len(q) |-> [tx |-> q[k], success |-> x[k].success]]
             n == Len(d)
             e == Append(d, tx)
             f == Append(results, r)
             call == [tx |-> tx, success |-> r.success]
             S == {[tx |-> d[k], success |-> results[k].success] : k \in 1..n} \cup {call}
             c == C1(d, results)
  <1>1. n \in Nat /\ n + 1 \in Nat
    BY LenProperties
  <1>2. /\ Len(e) = n + 1 /\ \A k \in 1..n : e[k] = d[k]
        /\ e[n + 1] = tx
    BY AppendProperties
  <1>3. /\ \A k \in 1..n : f[k] = results[k]
        /\ f[n + 1] = r
    BY AppendProperties
  <1> HIDE DEF n, e, f
  <1>4. c \in Seq(S) /\ Len(c) = n /\ call \in S
    <2>1. call \in S
      OBVIOUS
    <2>2. c = [k \in 1..n |-> [tx |-> d[k], success |-> results[k].success]]
      BY DEF n
    <2>3. \A k \in 1..n : [tx |-> d[k], success |-> results[k].success] \in S
      OBVIOUS
    <2> HIDE DEF S, c
    <2>4. c \in [1..n -> S]
      BY <2>2, <2>3
    <2>5. c \in Seq(S) /\ Len(c) = n
      BY <1>1, <2>4
    <2>6. QED
      BY <2>1, <2>5
  <1>5. C1(e, f) = Append(c, call)
    <2>1. \A k \in 1..(n + 1) : k \in 1..n \/ k = n + 1
      BY <1>1
    <2>2. C1(e, f) = [k \in 1..(n + 1) |-> IF k \in 1..n THEN c[k] ELSE call]
      BY <1>2, <1>3, <2>1 DEF n
    <2> HIDE DEF c, call, S
    <2>3. Append(c, call) = [k \in 1..(n + 1) |-> IF k \in 1..n THEN c[k] ELSE call]
      <3> DEFINE a == Append(c, call)
      <3>a. /\ a \in Seq(S) /\ Len(a) = Len(c) + 1
            /\ a[Len(c) + 1] = call /\ \A k \in 1..Len(c) : a[k] = c[k]
        BY <1>4, AppendProperties
      <3> HIDE DEF a
      <3>1. Len(a) = n + 1 /\ a[n + 1] = call /\ \A k \in 1..n : a[k] = c[k]
        BY <1>4, <3>a
      <3>2. a \in [1..(n + 1) -> S]
        BY <3>a, <3>1, LenProperties
      <3>3. \A k \in 1..(n + 1) : a[k] = IF k \in 1..n THEN c[k] ELSE call
        BY <2>1, <3>1
      <3>4. a = [k \in 1..(n + 1) |-> a[k]]
        BY <3>2
      <3>5. QED
        BY <3>3, <3>4, Zenon DEF a
    <2>4. QED
      BY <2>2, <2>3
  <1>6. /\ NetOfCalls(d, results, luck) = CallLoop!Run(luck, 0, c)
        /\ NetOfCalls(e, f, luck) = CallLoop!Run(luck, 0, C1(e, f))
    BY DEF NetOfCalls, Calls!Run, CallLoop!Run
  <1>7. call.tx = tx /\ call.success = r.success
    OBVIOUS
  <1> HIDE DEF c, call, S, C1
  <1>8. CallLoop!Counts(Len(c)) /\ CallLoop!Counts(Len(c) + 1)
    BY <1>1, <1>4, Induction, Zenon DEF CallLoop!Counts
  <1>9. CallLoop!Run(luck, 0, Append(c, call)) = AddNet(luck, CallLoop!Run(luck, 0, c), call)
    BY <1>4, <1>8, CallLoop!RunAppend
  <1>10. QED
    BY <1>5, <1>6, <1>7, <1>9 DEF AddNet, e, f

\* An empty batch.
LEMMA NothingRuns ==
    ASSUME NEW luck
    PROVE  TotalGas(<< >>) = 0 /\ NetOfCalls(<< >>, << >>, luck) = 0
  <1>1. Len(<< >>) = 0 /\ [k \in 1..0 |-> [tx |-> << >>[k], success |-> << >>[k].success]] = << >>
    OBVIOUS
  <1>2. 0 \in Nat /\ \A S : 0 \in S => 0..0 \subseteq S
    OBVIOUS
  <1>3. GasLoop!Run(0, 0, << >>) = 0
    BY <1>1, <1>2, GasLoop!RunTrace DEF GasLoop!Counts
  <1>4. CallLoop!Run(luck, 0, << >>) = 0
    BY <1>1, <1>2, CallLoop!RunTrace DEF CallLoop!Counts
  <1>5. TotalGas(<< >>) = GasLoop!Run(0, 0, << >>)
    BY DEF TotalGas, Gas!Run, GasLoop!Run
  <1>6. NetOfCalls(<< >>, << >>, luck) = CallLoop!Run(luck, 0, << >>)
    BY <1>1 DEF NetOfCalls, Calls!Run, CallLoop!Run
  <1>7. QED
    BY <1>3, <1>4, <1>5, <1>6

\* A transaction that has not run creates ids the store does not have.
LEMMA FreshAreNew ==
    ASSUME NEW X \in SUBSET Tx, NEW n \in Nat, NEW s, Sane(s, X, n),
           NEW tx \in Tx, NEW luck \in Luck, GasCoinResolves(tx, s)
    PROVE  tx.run[luck].fresh \cap DOMAIN s = {}
  <1>1. tx \notin X
    BY ExecuteEffects, Zenon
  <1>2. ASSUME NEW i \in FreshIds(tx) PROVE ~Origin(i, X, n)
    BY <1>1, DigestAssumption DEF Origin
  <1>3. tx.run[luck].fresh \subseteq FreshIds(tx)
    BY DEF FreshIds
  <1>4. QED
    BY <1>2, <1>3 DEF Sane

\* What the execution loop has done to the supply after some iterations.
Money(s, luck, run) ==
    /\ Counted(run.store)
    /\ Len(run.results) = Len(run.done)
    /\ \E R : run.results \in Seq(R)
    /\ Supply(run.store) \in Nat /\ TotalGas(run.results) \in Nat
    /\ NetOfCalls(run.done, run.results, luck) \in Int
    /\ Supply(run.store) + TotalGas(run.results) =
           Supply(s) + NetOfCalls(run.done, run.results, luck)

\* One more transaction.
LEMMA MoneyStep ==
    ASSUME NEW X \in SUBSET Tx, NEW n \in Nat, NEW s, Supply(s) \in Nat, NEW luck \in Luck,
           NEW tx \in Tx, ValidSigned(tx), NEW run, Effects(s, X, n, run), Money(s, luck, run)
    PROVE  Money(s, luck, RunStep(luck, run, tx))
  <1>1. CASE ~GasCoinResolves(tx, run.store)
    BY <1>1, RunStepShape
  <1>2. CASE GasCoinResolves(tx, run.store)
    <2> DEFINE t == run.store
               r == Execute(tx, luck, t)
               u == ApplyResult(t, r)
               d == run.done
               q == run.results
               Y == X \cup Range(d)
               next == RunStep(luck, run, tx)
    <2>1. next.store = u /\ next.done = Append(d, tx) /\ next.results = Append(q, r)
      BY <1>2, RunStepShape
    <2> HIDE DEF next
    <2>2. d \in Seq(Tx) /\ Sane(t, Y, n) /\ Y \in SUBSET Tx
      BY SetOfAppend DEF Effects
    <2>3. PICK P : q \in Seq(P)
      BY DEF Money
    <2> DEFINE R == P \cup {r}
    <2>4. q \in Seq(R) /\ r \in R
      BY <2>3, SeqMonotonic
    <2>5. /\ Counted(t) /\ Len(q) = Len(d) /\ Supply(t) \in Nat /\ TotalGas(q) \in Nat
          /\ NetOfCalls(d, q, luck) \in Int
          /\ Supply(t) + TotalGas(q) = Supply(s) + NetOfCalls(d, q, luck)
      BY DEF Money
    <2> HIDE DEF t, d, q, R, Y
    <2>6. GasCoinResolves(tx, t)
      BY <1>2 DEF t
    <2>7. tx.run[luck].fresh \cap DOMAIN t = {}
      BY <2>2, <2>6, FreshAreNew
    <2>8. /\ Counted(u) /\ r.gasUsed \in Nat /\ NetOf(luck, tx, r.success) \in Int
          /\ Supply(u) \in Nat
          /\ Supply(u) + r.gasUsed = Supply(t) + NetOf(luck, tx, r.success)
      BY <2>5, <2>6, <2>7, ExecuteSupply, Zenon
    <2> HIDE DEF r, u
    <2>9. TotalGas(next.results) = TotalGas(q) + r.gasUsed
      BY <2>1, <2>4, TotalGasMore
    <2>10. NetOfCalls(next.done, next.results, luck) =
               NetOfCalls(d, q, luck) + NetOf(luck, tx, r.success)
      <3>1. NetOfCalls(Append(d, tx), Append(q, r), luck) =
                NetOfCalls(d, q, luck) + NetOf(luck, tx, r.success)
        BY <2>2, <2>4, <2>5, NetMore, SMTT(20)
      <3>2. QED
        BY <2>1, <3>1
    <2>11. next.results \in Seq(R) /\ Len(next.results) = Len(next.done)
      <3>1. Append(q, r) \in Seq(R) /\ Len(Append(q, r)) = Len(q) + 1
        BY <2>4, AppendProperties
      <3>2. Len(Append(d, tx)) = Len(d) + 1
        BY <2>2, AppendProperties
      <3>3. QED
        BY <2>1, <2>5, <3>1, <3>2
    <2> DEFINE a == Supply(u)
               b == Supply(t)
               g == TotalGas(q)
               h == TotalGas(next.results)
               x == NetOfCalls(d, q, luck)
               y == NetOfCalls(next.done, next.results, luck)
               m == NetOf(luck, tx, r.success)
               c == r.gasUsed
               o == Supply(s)
    <2>12. /\ a \in Nat /\ b \in Nat /\ g \in Nat /\ x \in Int /\ m \in Int /\ c \in Nat /\ o \in Nat
           /\ a + c = b + m /\ b + g = o + x /\ h = g + c /\ y = x + m
      BY <2>5, <2>8, <2>9, <2>10
    <2> HIDE DEF a, b, g, h, x, y, m, c, o
    <2>13. h \in Nat /\ y \in Int /\ a + h = o + y
      BY <2>12
    <2>14. Money(s, luck, next)
      BY <2>1, <2>8, <2>11, <2>12, <2>13 DEF Money, a, h, y, o
    <2>15. QED
      BY <2>14 DEF next
  <1>3. QED
    BY <1>1, <1>2

\* A whole batch.
LEMMA BatchMoney ==
    ASSUME NEW X \in SUBSET Tx, NEW n \in Nat, NEW s, Sane(s, X, n), Counted(s), NEW luck \in Luck,
           NEW txs \in Seq(Tx), \A i \in 1..Len(txs) : ValidSigned(txs[i])
    PROVE  Money(s, luck, RunBatch(txs, luck, s))
  <1>0. Len(txs) \in Nat /\ Supply(s) \in Nat
    <2>1. Cardinality(Units(s)) \in Nat
      BY UnitsFinite, FS_CardinalityType
    <2>2. QED
      BY <2>1, LenProperties DEF Supply
  <1>a. PICK acc : Iterates(txs, luck, s, acc)
    BY BatchTrace
  <1>1. /\ RunBatch(txs, luck, s) = acc[Len(txs)]
        /\ acc[0] = [store |-> s, results |-> << >>, done |-> << >>, fits |-> TRUE]
        /\ \A i \in 1..Len(txs) : acc[i] = RunStep(luck, acc[i - 1], txs[i])
    BY <1>a DEF Iterates
  <1> DEFINE S == {i \in 0..Len(txs) : Effects(s, X, n, acc[i]) /\ Money(s, luck, acc[i])}
  <1>2. 0 \in S
    <2> DEFINE run == acc[0]
    <2>1. run.done = << >> /\ run.results = << >> /\ run.store = s
      <3>1. run = [store |-> s, results |-> << >>, done |-> << >>, fits |-> TRUE]
        BY <1>1, Zenon
      <3> HIDE DEF run
      <3>2. QED
        BY <3>1, Zenon
    <2>2. Effects(s, X, n, run)
      BY <1>1, NoEffects
    <2> HIDE DEF run
    <2>3. Len(<< >>) = 0 /\ << >> \in Seq({})
      OBVIOUS
    <2>4. Money(s, luck, run)
      BY <1>0, <2>1, <2>3, NothingRuns DEF Money
    <2>5. 0 \in 0..Len(txs)
      BY <1>0
    <2>6. QED
      BY <2>2, <2>4, <2>5 DEF run
  <1>3. ASSUME NEW i \in 0..(Len(txs) - 1), i \in S PROVE i + 1 \in S
    <2>1. i + 1 \in 1..Len(txs) /\ i + 1 \in 0..Len(txs) /\ (i + 1) - 1 = i
      BY <1>0
    <2>2. txs[i + 1] \in Tx /\ ValidSigned(txs[i + 1])
      BY <2>1, ElementOfSeq
    <2>3. acc[i + 1] = RunStep(luck, acc[i], txs[i + 1])
      BY <1>1, <2>1
    <2>4. Effects(s, X, n, acc[i]) /\ Money(s, luck, acc[i])
      BY <1>3
    <2>5. Effects(s, X, n, acc[i + 1])
      BY <2>2, <2>3, <2>4, EffectsStep
    <2>6. Money(s, luck, acc[i + 1])
      BY <1>0, <2>2, <2>3, <2>4, MoneyStep
    <2>7. QED
      BY <2>1, <2>5, <2>6
  <1> HIDE DEF S
  <1>4. 0..Len(txs) \subseteq S
    BY <1>0, <1>2, <1>3, Induction, Zenon
  <1>5. Len(txs) \in S
    BY <1>0, <1>4
  <1>6. QED
    BY <1>1, <1>5, Zenon DEF S

-----------------------------------------------------------------------------
(* A block.                                                                *)

\* The reward adds its amount.
LEMMA RewardMoney ==
    ASSUME NEW s, Counted(s), NEW r, r.amount \in Nat, ResultFits(s, ExecuteReward(r))
    PROVE  LET t == WithReward(s, {r})
           IN  Counted(t) /\ Supply(t) = Supply(s) + r.amount
  <1> DEFINE t == WithReward(s, {r})
             i == RewardId(r.seed, r.to)
             D == DOMAIN s
             G == {i}
  <1>1. /\ i \notin D /\ DOMAIN t = D \cup G
        /\ t[i].kind = "coin" /\ t[i].balance = r.amount
        /\ \A j \in D : t[j] = s[j]
    <2>1. /\ ResultFits(s, ExecuteReward(r)) <=> i \notin D
          /\ DOMAIN t = D \cup {i}
          /\ i \notin D => t[i].kind = "coin" /\ t[i].balance = r.amount
          /\ \A j \in D : j # i => t[j] = s[j]
      BY RewardShape, Zenon
    <2> HIDE DEF t, i, D
    <2>2. QED
      BY <2>1
  <1> HIDE DEF t, i, D
  <1>2. IsFiniteSet(D) /\ IsFiniteSet(G) /\ D \cap G = {}
    BY <1>1, FS_Singleton, Zenon DEF Counted, D
  <1>3. \A j \in DOMAIN t : t[j].balance \in Nat
    BY <1>1 DEF Counted, D
  <1>a. i \in DOMAIN t
    BY <1>1
  <1>4. Worth(t, G) = r.amount
    BY <1>1, <1>a, WorthOfCoin
  <1> HIDE DEF G
  <1>5. Counted(t)
    BY <1>1, <1>2, <1>3, FS_Union, Zenon DEF Counted
  <1>6. D \subseteq DOMAIN s /\ D \subseteq DOMAIN t
    BY <1>1 DEF D
  <1>7. Worth(s, D) = Worth(t, D)
    BY <1>1, <1>6, WorthSame
  <1>8. Worth(t, D \cup G) = Worth(t, D) + Worth(t, G)
    BY <1>2, <1>5, WorthAdds
  <1>9. Supply(s) = Worth(s, D) /\ Supply(t) = Worth(t, D \cup G)
    BY <1>1, SupplyIsWorth DEF D
  <1>10. QED
    BY <1>4, <1>5, <1>7, <1>8, <1>9 DEF t

\* A block pays its miner what its senders paid.
LEMMA BuiltMoney ==
    ASSUME NEW f, NetOK(f), NEW p, NEW b, NEW s, Built(f, p, b, s), Counted(f[p].store)
    PROVE  Counted(s) /\ Supply(s) = Supply(f[p].store) + NetOfCalls(b.txs, b.results, b.nonce.luck)
  <1> DEFINE o     == f[p].store
             luck  == b.nonce.luck
             run   == RunBatch(b.txs, luck, o)
             total == TotalGas(run.results)
             t     == run.store
             X     == Executed(p)
  <1>1. /\ p \in DOMAIN f /\ b.txs \in Seq(Tx) /\ luck \in Luck
        /\ ReplayOk(b, o) /\ ReplayStore(b, o) = s
        /\ \A r, q \in b.rewardTx : r = q
        /\ \A r \in b.rewardTx : ResultFits(t, ExecuteReward(r))
    BY Zenon DEF Built
  <1>2. /\ \A i \in 1..Len(b.txs) : ValidSigned(b.txs[i])
        /\ run.done = b.txs /\ run.results = b.results
        /\ total = 0 => b.rewardTx = {}
        /\ total # 0 => \E r \in b.rewardTx : r.amount = total
    BY <1>1, Zenon DEF ReplayOk, ValidReward
  <1>3. s = WithReward(t, b.rewardTx)
    BY <1>1, Zenon DEF ReplayStore
  <1>4. Sane(o, X, Len(p)) /\ X \in SUBSET Tx /\ Len(p) \in Nat
    BY <1>1, LenProperties, Zenon DEF NetOK, EntryOK, Executed
  <1>5. Money(o, luck, run)
    <2> HIDE DEF X, o, luck
    <2>1. Counted(o)
      BY DEF o
    <2>2. QED
      BY <1>1, <1>2, <1>4, <2>1, BatchMoney, Zenon
  <1> HIDE DEF run, o, luck, X
  <1> DEFINE a == Supply(t)
             m == NetOfCalls(b.txs, b.results, luck)
             c == Supply(o)
  <1>6. Counted(t) /\ a \in Nat /\ total \in Nat /\ m \in Int /\ a + total = c + m
    BY <1>2, <1>5, Zenon DEF Money
  <1>7. Counted(s) /\ Supply(s) = a + total
    <2>1. CASE total = 0
      <3>1. WithReward(t, {}) = t
        BY RewardShape, Zenon
      <3>2. s = t
        BY <1>2, <1>3, <2>1, <3>1, Zenon
      <3>3. QED
        BY <1>6, <2>1, <3>2
    <2>2. CASE total # 0
      <3>1. PICK r \in b.rewardTx : r.amount = total
        BY <1>2, <2>2
      <3>2. b.rewardTx = {r}
        BY <1>1
      <3> HIDE DEF total, t
      <3>3. s = WithReward(t, {r}) /\ ResultFits(t, ExecuteReward(r))
        BY <1>1, <1>3, <3>2
      <3>4. QED
        BY <1>6, <3>1, <3>3, RewardMoney
    <2>3. QED
      BY <2>1, <2>2
  <1>8. c \in Nat
    <2>1. Counted(o)
      BY DEF o
    <2>2. QED
      BY <2>1, UnitsFinite, FS_CardinalityType DEF Supply
  <1> HIDE DEF a, m, c, total
  <1>9. a + total = c + m
    BY <1>6
  <1>10. QED
    BY <1>7, <1>9 DEF m, c, o, luck

\* The store after every published block can be counted.
LEMMA EntriesCounted ==
    ASSUME NEW f, NetOK(f), NEW h \in DOMAIN f
    PROVE  Counted(f[h].store)
  <1> DEFINE N == Len(h)
             S == {n \in 0..N : \A k \in DOMAIN f : Len(k) = n => Counted(f[k].store)}
  <1>1. \A k \in DOMAIN f : k \in Seq(Header) /\ Len(k) \in Nat
    BY LenProperties DEF NetOK, EntryOK
  <1>2. N \in Nat
    BY <1>1
  <1>3. 0 \in S
    <2>1. ASSUME NEW k \in DOMAIN f, Len(k) = 0 PROVE Counted(f[k].store)
      <3>1. k = << >>
        BY <1>1, <2>1, EmptySeq
      <3>2. f[<< >>].store = GenesisStore
        BY GenesisEntry
      <3>3. QED
        BY <3>1, <3>2, GenesisAssumption DEF Counted
    <2>2. QED
      BY <1>2, <2>1
  <1>4. ASSUME NEW n \in 0..(N - 1), n \in S PROVE n + 1 \in S
    <2>1. ASSUME NEW k \in DOMAIN f, Len(k) = n + 1 PROVE Counted(f[k].store)
      <3> DEFINE b == f[k].block
                 p == b.parent
      <3>1. k # << >>
        BY <2>1
      <3>2. Built(f, p, b, f[k].store) /\ b.hash = k
        BY <3>1, EntryIsBuilt
      <3>3. p \in DOMAIN f /\ Len(k) = Len(p) + 1
        BY <3>2, Zenon DEF Built
      <3>4. Len(p) = n
        BY <1>1, <2>1, <3>3
      <3>5. Counted(f[p].store)
        BY <1>4, <3>3, <3>4
      <3> HIDE DEF b, p
      <3>6. QED
        BY <3>2, <3>5, BuiltMoney
    <2>2. n + 1 \in 0..N
      BY <1>2
    <2>3. QED
      BY <2>1, <2>2
  <1> HIDE DEF S
  <1>5. 0..N \subseteq S
    BY <1>2, <1>3, <1>4, Induction
  <1>6. N \in S
    BY <1>2, <1>5
  <1>7. QED
    BY <1>6 DEF S, N
=============================================================================
