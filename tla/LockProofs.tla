----------------------------- MODULE LockProofs -----------------------------
(***************************************************************************)
(* Mutual exclusion on the Miner of a node, for every number of requests   *)
(* in flight: the proof that LockIsConsistent is an invariant of NodeTasks.*)
(***************************************************************************)
EXTENDS NodeTasks, SequenceTheorems, TLAPS

\* The lock with holder h and waiters q is owned by exactly the tasks S.
OwnedBy(h, q, S) ==
    /\ q \in Seq(Task)
    /\ h \in Task \cup {"free"}
    /\ IsInjective(q)
    /\ ToSet(q) \cup ({h} \ {"free"}) = S
    /\ h \notin ToSet(q)
    /\ h = "free" => q = << >>

\* No task has the name of the free lock.
LEMMA FreeIsNoTask == "free" \notin Task
  BY RequestAssumption DEF Task

\* The elements of a sequence that grew at its end.
LEMMA AppendShape ==
    ASSUME NEW q \in Seq(Task), NEW t \in Task
    PROVE  /\ Append(q, t) \in Seq(Task)
           /\ ToSet(Append(q, t)) = ToSet(q) \cup {t}
           /\ (IsInjective(q) /\ t \notin ToSet(q)) => IsInjective(Append(q, t))
  <1> DEFINE r == Append(q, t)
  <1>1. /\ r \in Seq(Task)
        /\ Len(q) \in Nat
        /\ DOMAIN q = 1..Len(q)
        /\ DOMAIN r = 1..(Len(q) + 1)
        /\ \A i \in 1..Len(q) : r[i] = q[i]
        /\ r[Len(q) + 1] = t
    BY AppendProperties, LenProperties
  <1> HIDE DEF r
  <1>2. ToSet(r) = ToSet(q) \cup {t}
    BY <1>1 DEF ToSet
  <1>3. ASSUME IsInjective(q), t \notin ToSet(q)
        PROVE  IsInjective(r)
    BY <1>1, <1>3 DEF IsInjective, ToSet
  <1>4. QED
    BY <1>1, <1>2, <1>3 DEF r

\* The elements of a sequence without its first.
LEMMA TailShape ==
    ASSUME NEW q \in Seq(Task), q # << >>, IsInjective(q)
    PROVE  /\ Tail(q) \in Seq(Task)
           /\ Head(q) \in Task
           /\ ToSet(q) = ToSet(Tail(q)) \cup {Head(q)}
           /\ Head(q) \notin ToSet(Tail(q))
           /\ IsInjective(Tail(q))
  <1> DEFINE r == Tail(q)
  <1>1. /\ r \in Seq(Task)
        /\ Len(q) \in Nat \ {0}
        /\ DOMAIN q = 1..Len(q)
        /\ DOMAIN r = 1..(Len(q) - 1)
        /\ \A i \in 1..(Len(q) - 1) : r[i] = q[i + 1]
        /\ Head(q) = q[1]
        /\ Head(q) \in Task
    BY HeadTailProperties, LenProperties, EmptySeq
  <1> HIDE DEF r
  <1>2. ASSUME NEW x \in ToSet(q), x # q[1]
        PROVE  x \in ToSet(r)
    <2>1. PICK i \in 2..Len(q) : x = q[i]
      BY <1>1, <1>2 DEF ToSet
    <2>2. i - 1 \in DOMAIN r /\ r[i - 1] = x
      BY <1>1, <2>1
    <2>3. QED
      BY <2>2 DEF ToSet
  <1>3. ToSet(r) \cup {q[1]} \subseteq ToSet(q)
    <2>1. q[1] \in ToSet(q)
      <3>1. 1 \in DOMAIN q
        BY <1>1
      <3>2. QED
        BY <3>1 DEF ToSet
    <2>2. ASSUME NEW x \in ToSet(r)
          PROVE  x \in ToSet(q)
      <3>1. PICK j \in DOMAIN r : x = r[j]
        BY <2>2 DEF ToSet
      <3>2. j + 1 \in DOMAIN q /\ q[j + 1] = x
        BY <1>1, <3>1
      <3>3. QED
        BY <3>2 DEF ToSet
    <2>3. QED
      BY <2>1, <2>2
  <1>4. q[1] \notin ToSet(r)
    <2> SUFFICES ASSUME NEW j \in DOMAIN r, q[1] = r[j]
                 PROVE  FALSE
      BY Zenon DEF ToSet
    <2>1. 1 \in DOMAIN q /\ j + 1 \in DOMAIN q /\ q[1] = q[j + 1] /\ j + 1 # 1
      BY <1>1
    <2>2. QED
      BY <2>1, Zenon DEF IsInjective
  <1>5. IsInjective(r)
    <2> SUFFICES ASSUME NEW j \in 1..(Len(q) - 1), NEW k \in 1..(Len(q) - 1), r[j] = r[k]
                 PROVE  j = k
      BY <1>1 DEF IsInjective
    <2>1. j + 1 \in DOMAIN q /\ k + 1 \in DOMAIN q /\ q[j + 1] = q[k + 1]
      BY <1>1
    <2>2. j + 1 = k + 1
      BY <2>1 DEF IsInjective
    <2>3. QED
      BY <2>2
  <1>6. QED
    BY <1>1, <1>2, <1>3, <1>4, <1>5 DEF r

\* The elements of a sequence without one in its middle.
LEMMA RemoveAtShape ==
    ASSUME NEW q \in Seq(Task), IsInjective(q), NEW i \in DOMAIN q
    PROVE  /\ RemoveAt(q, i) \in Seq(Task)
           /\ ToSet(RemoveAt(q, i)) = ToSet(q) \ {q[i]}
           /\ IsInjective(RemoveAt(q, i))
  <1> DEFINE r == RemoveAt(q, i)
             n == Len(q)
             a == SubSeq(q, 1, i - 1)
             b == SubSeq(q, i + 1, n)
  <1>1. n \in Nat /\ DOMAIN q = 1..n /\ i \in 1..n
    BY LenProperties
  <1>2. /\ a \in Seq(Task) /\ Len(a) = i - 1
        /\ \A j \in 1..(i - 1) : a[j] = q[j]
    BY <1>1, SubSeqProperties
  <1>3. /\ b \in Seq(Task) /\ Len(b) = n - i
        /\ \A j \in 1..(n - i) : b[j] = q[i + j]
    <2> HIDE DEF n
    <2>1. i + 1 \in Int /\ n \in Int /\ \A j \in (i + 1)..n : q[j] \in Task
      BY <1>1
    <2>2. /\ b \in Seq(Task)
          /\ Len(b) = IF i + 1 <= n THEN n - (i + 1) + 1 ELSE 0
          /\ \A j \in 1..(n - (i + 1) + 1) : b[j] = q[i + 1 + j - 1]
      BY <2>1, SubSeqProperties
    <2> HIDE DEF b
    <2>3. Len(b) = n - i
      BY <1>1, <2>2
    <2>4. ASSUME NEW j \in 1..(n - i)
          PROVE  b[j] = q[i + j]
      <3>1. j \in 1..(n - (i + 1) + 1) /\ i + 1 + j - 1 = i + j
        BY <1>1
      <3>2. b[j] = q[i + 1 + j - 1]
        BY <2>2, <3>1, Zenon
      <3>3. QED
        BY <3>1, <3>2, Zenon
    <2>5. QED
      BY <2>2, <2>3, <2>4
  <1>4. r = a \o b
    BY DEF RemoveAt
  <1> HIDE DEF a, b, r, n
  <1>5. /\ r \in Seq(Task)
        /\ DOMAIN r = 1..(n - 1)
        /\ \A j \in 1..(n - 1) : r[j] = IF j < i THEN q[j] ELSE q[j + 1]
    <2>0. /\ a \o b \in Seq(Task)
          /\ Len(a \o b) = Len(a) + Len(b)
          /\ \A j \in 1..(Len(a) + Len(b)) :
                (a \o b)[j] = IF j <= Len(a) THEN a[j] ELSE b[j - Len(a)]
      BY <1>2, <1>3, ConcatProperties
    <2>1. /\ r \in Seq(Task)
          /\ Len(r) = (i - 1) + (n - i)
          /\ \A j \in 1..((i - 1) + (n - i)) :
                r[j] = IF j <= i - 1 THEN a[j] ELSE b[j - (i - 1)]
      BY <1>2, <1>3, <1>4, <2>0
    <2>2. Len(r) = n - 1 /\ DOMAIN r = 1..(n - 1)
      BY <1>1, <2>1, LenProperties
    <2>3. ASSUME NEW j \in 1..(n - 1), j < i
          PROVE  r[j] = q[j]
      BY <1>1, <1>2, <2>1, <2>2, <2>3
    <2>4. ASSUME NEW j \in 1..(n - 1), ~(j < i)
          PROVE  r[j] = q[j + 1]
      <3>1. /\ j - (i - 1) \in 1..(n - i)
            /\ i + (j - (i - 1)) = j + 1
        BY <1>1, <2>4
      <3>2. b[j - (i - 1)] = q[j + 1]
        BY <1>3, <3>1
      <3>3. r[j] = b[j - (i - 1)]
        BY <1>1, <2>1, <2>2, <2>4
      <3>4. QED
        BY <3>2, <3>3
    <2>5. QED
      BY <2>1, <2>2, <2>3, <2>4
  \* Where an element of r is in q.
  <1> DEFINE At(j) == IF j < i THEN j ELSE j + 1
  <1>a. \A j \in 1..(n - 1) : At(j) \in 1..n /\ At(j) # i /\ r[j] = q[At(j)]
    BY <1>1, <1>5
  <1>b. \A j, k \in 1..(n - 1) : At(j) = At(k) => j = k
    BY <1>1
  <1> HIDE DEF At
  <1>6. ASSUME NEW x \in ToSet(q), x # q[i]
        PROVE  x \in ToSet(r)
    <2>1. PICK j \in 1..n : x = q[j]
      BY <1>1, <1>6 DEF ToSet
    <2>2. \E k \in DOMAIN r : r[k] = x
      <3>1. CASE j < i
        BY <1>1, <1>5, <2>1, <3>1
      <3>2. CASE j > i
        <4>1. j - 1 \in 1..(n - 1) /\ ~(j - 1 < i) /\ (j - 1) + 1 = j
          BY <1>1, <2>1, <3>2
        <4>2. QED
          BY <1>5, <2>1, <4>1
      <3>3. QED
        BY <1>1, <1>6, <2>1, <3>1, <3>2
    <2>3. QED
      BY <2>2 DEF ToSet
  <1>7. ToSet(r) \subseteq ToSet(q) \ {q[i]}
    BY <1>1, <1>5, <1>a DEF ToSet, IsInjective
  <1>8. IsInjective(r)
    BY <1>1, <1>5, <1>a, <1>b DEF IsInjective
  <1>9. QED
    BY <1>5, <1>6, <1>7, <1>8 DEF r

-----------------------------------------------------------------------------
(* The operations of the lock. *)

\* Waiting adds the task to the owners.
LEMMA WaitOwns ==
    ASSUME NEW S, OwnedBy(holder, queue, S), NEW t \in Task, t \notin S, Wait(t)
    PROVE  OwnedBy(holder', queue', S \cup {t})
  BY AppendShape, FreeIsNoTask DEF OwnedBy, Wait

\* So does taking the free lock.
LEMMA TakeOwns ==
    ASSUME NEW S, OwnedBy(holder, queue, S), NEW t \in Task,
           holder = "free", holder' = t, UNCHANGED queue
    PROVE  OwnedBy(holder', queue', S \cup {t})
  <1>1. queue = << >> /\ ToSet(queue) = {}
    BY DEF OwnedBy, ToSet
  <1>2. QED
    BY <1>1, FreeIsNoTask DEF OwnedBy

\* Unlocking takes the holder, and only the holder, from the owners.
LEMMA UnlockOwns ==
    ASSUME NEW S, OwnedBy(holder, queue, S), holder # "free", Unlock
    PROVE  OwnedBy(holder', queue', S \ {holder})
  <1>1. CASE queue = << >>
    <2>1. ToSet(queue) = {}
      BY <1>1 DEF ToSet
    <2>2. QED
      BY <1>1, <2>1 DEF OwnedBy, Unlock
  <1>2. CASE queue # << >>
    <2>1. /\ Tail(queue) \in Seq(Task)
          /\ Head(queue) \in Task
          /\ ToSet(queue) = ToSet(Tail(queue)) \cup {Head(queue)}
          /\ Head(queue) \notin ToSet(Tail(queue))
          /\ IsInjective(Tail(queue))
      BY <1>2, TailShape DEF OwnedBy
    <2>2. holder' = Head(queue) /\ queue' = Tail(queue)
      BY <1>2 DEF Unlock
    <2>3. QED
      BY <2>1, <2>2, FreeIsNoTask DEF OwnedBy
  <1>3. QED
    BY <1>1, <1>2

\* Dropping a future takes its task from the owners, if it is one.
LEMMA DropOwns ==
    ASSUME NEW S, OwnedBy(holder, queue, S), NEW t \in Task, DropFuture(t)
    PROVE  OwnedBy(holder', queue', S \ {t})
  <1>1. CASE holder = t /\ Unlock
    BY <1>1, UnlockOwns, FreeIsNoTask
  <1>2. CASE \E i \in DOMAIN queue :
                queue[i] = t /\ queue' = RemoveAt(queue, i) /\ UNCHANGED holder
    <2>1. PICK i \in DOMAIN queue :
              queue[i] = t /\ queue' = RemoveAt(queue, i) /\ UNCHANGED holder
      BY <1>2
    <2>2. /\ queue' \in Seq(Task)
          /\ ToSet(queue') = ToSet(queue) \ {t}
          /\ IsInjective(queue')
      BY <2>1, RemoveAtShape DEF OwnedBy
    <2>3. t \in ToSet(queue) /\ holder # t
      BY <2>1 DEF OwnedBy, ToSet
    <2>4. holder # "free"
      BY <2>1 DEF OwnedBy
    <2>5. QED
      BY <2>1, <2>2, <2>3, <2>4 DEF OwnedBy
  <1>3. CASE holder # t /\ t \notin ToSet(queue) /\ UNCHANGED <<holder, queue>>
    BY <1>3 DEF OwnedBy
  <1>4. QED
    BY <1>1, <1>2, <1>3 DEF DropFuture

-----------------------------------------------------------------------------
(* The tasks that own the lock, before and after a step of one of them. *)

\* The program points of the two services at which they own the lock or a
\* place in its queue.
MinerOwns == {"starting", "preparing", "sleeping", "committing"}
GossipOwns == {"handling", "applying"}

\* The inductive invariant: the lock is owned by the contenders, and the
\* miner sleeps with the lock, so that waking it may release it.
LockInv ==
    /\ OwnedBy(holder, queue, Contending)
    /\ miner = "sleeping" => holder = "miner"
    /\ request = [r \in Request |-> request[r]]

\* The program point of a service says whether it contends.
LEMMA WhoContends ==
    /\ "miner" \in Contending <=> miner \in MinerOwns
    /\ "gossip" \in Contending <=> gossip \in GossipOwns
    /\ \A r \in Request : r \in Contending <=> request[r] = "locking"
  BY RequestAssumption DEF Contending, MinerOwns, GossipOwns

\* A step of the miner changes the contenders by the miner at most.
LEMMA MinerContends ==
    ASSUME UNCHANGED <<gossip, request>>
    PROVE  Contending' = IF miner' \in MinerOwns THEN Contending \cup {"miner"}
                                                 ELSE Contending \ {"miner"}
  BY RequestAssumption DEF Contending, MinerOwns

\* A step of the gossip service changes them by the gossip service.
LEMMA GossipContends ==
    ASSUME UNCHANGED <<miner, request>>
    PROVE  Contending' = IF gossip' \in GossipOwns THEN Contending \cup {"gossip"}
                                                   ELSE Contending \ {"gossip"}
  BY RequestAssumption DEF Contending, GossipOwns

\* A step of a request changes them by that request.
LEMMA RequestContends ==
    ASSUME UNCHANGED <<miner, gossip>>, NEW r \in Request, NEW p,
           request = [x \in Request |-> request[x]],
           request' = [request EXCEPT ![r] = p]
    PROVE  /\ Contending' = IF p = "locking" THEN Contending \cup {r}
                                             ELSE Contending \ {r}
           /\ request' = [x \in Request |-> request'[x]]
  <1>1. \A x \in Request : request'[x] = IF x = r THEN p ELSE request[x]
    OBVIOUS
  <1>2. request' = [x \in Request |-> request'[x]]
    OBVIOUS
  <1>3. QED
    BY <1>1, <1>2, RequestAssumption DEF Contending

\* The steps of the mining loop.
LEMMA MinerKeepsLock ==
    ASSUME LockInv, MinerService
    PROVE  LockInv'
  <1> USE DEF LockInv
  <1>1. UNCHANGED <<gossip, request>> /\ "miner" \in Task
    BY DEF MinerService, MinerStarts, MinerPolls, MinerPrepares, MinerWakes,
           MinerGrinds, MinerCommits, MinerCancelled, MinerStep, Task
  <1>2. request' = [r \in Request |-> request'[r]]
    BY <1>1
  <1>3. Contending' = IF miner' \in MinerOwns THEN Contending \cup {"miner"}
                                              ELSE Contending \ {"miner"}
    BY <1>1, MinerContends
  \* Four ways for a step to treat the lock.
  <1>4. ASSUME miner \notin MinerOwns, Wait("miner"), miner' \in MinerOwns \ {"sleeping"}
        PROVE  LockInv'
    BY <1>1, <1>2, <1>3, <1>4, WhoContends, WaitOwns
  <1>5. ASSUME miner \notin MinerOwns, UNCHANGED <<holder, queue>>, miner' \notin MinerOwns
        PROVE  LockInv'
    <2>1. Contending' = Contending
      BY <1>3, <1>5, WhoContends
    <2>2. QED
      BY <1>2, <1>5, <2>1 DEF MinerOwns
  <1>6. ASSUME holder = "miner", Unlock, miner' \notin MinerOwns
        PROVE  LockInv'
    BY <1>1, <1>2, <1>3, <1>6, UnlockOwns, FreeIsNoTask DEF MinerOwns
  <1>7. ASSUME miner \in MinerOwns, holder = "miner", UNCHANGED <<holder, queue>>,
               miner' \in MinerOwns
        PROVE  LockInv'
    <2>1. Contending' = Contending
      BY <1>3, <1>7, WhoContends
    <2>2. QED
      BY <1>2, <1>7, <2>1
  <1>8. CASE MinerStarts
    BY <1>4, <1>5, <1>6, <1>8 DEF MinerStarts, AtOnce, MinerOwns
  <1>9. CASE MinerPolls
    <2>1. CASE holder = "free" /\ holder' = "miner" /\ UNCHANGED queue /\ miner' = "sleeping"
      <3>1. miner' \in MinerOwns
        BY <2>1 DEF MinerOwns
      <3>2. QED
        BY <1>1, <1>2, <1>3, <2>1, <3>1, TakeOwns
    <2>2. QED
      BY <1>4, <1>5, <1>9, <2>1 DEF MinerPolls, AtOnce, MinerOwns
  <1>10. CASE MinerPrepares
    BY <1>6, <1>7, <1>10 DEF MinerPrepares, MinerOwns
  <1>11. CASE MinerWakes
    BY <1>6, <1>11 DEF MinerWakes, MinerOwns
  <1>12. CASE MinerGrinds
    BY <1>4, <1>5, <1>12 DEF MinerGrinds, MinerOwns
  <1>13. CASE MinerCommits
    BY <1>6, <1>13 DEF MinerCommits, MinerOwns
  <1>14. CASE MinerCancelled
    <2>1. miner' \notin MinerOwns /\ DropFuture("miner")
      BY <1>14 DEF MinerCancelled, MinerOwns
    <2>2. QED
      BY <1>1, <1>2, <1>3, <2>1, DropOwns DEF MinerOwns
  <1>15. QED
    BY <1>8, <1>9, <1>10, <1>11, <1>12, <1>13, <1>14 DEF MinerService

\* The steps of the gossip service.
LEMMA GossipKeepsLock ==
    ASSUME LockInv, GossipEvent \/ GossipHandled \/ GossipRelocks \/ GossipStops
    PROVE  LockInv'
  <1> USE DEF LockInv
  <1>1. UNCHANGED <<miner, request>> /\ "gossip" \in Task
    BY DEF GossipEvent, GossipHandled, GossipRelocks, GossipStops, GossipStep, Task
  <1>2. request' = [r \in Request |-> request'[r]]
    BY <1>1
  <1>3. Contending' = IF gossip' \in GossipOwns THEN Contending \cup {"gossip"}
                                                ELSE Contending \ {"gossip"}
    BY <1>1, GossipContends
  <1>4. ASSUME gossip \notin GossipOwns, UNCHANGED <<holder, queue>>, gossip' \notin GossipOwns
        PROVE  LockInv'
    <2>1. Contending' = Contending
      BY <1>3, <1>4, WhoContends
    <2>2. QED
      BY <1>1, <1>2, <1>4, <2>1
  <1>5. ASSUME gossip \notin GossipOwns, Wait("gossip"), gossip' \in GossipOwns
        PROVE  LockInv'
    <2>1. OwnedBy(holder', queue', Contending')
      BY <1>1, <1>3, <1>5, WhoContends, WaitOwns
    <2>2. QED
      BY <1>1, <1>2, <1>5, <2>1 DEF Wait
  <1>6. ASSUME holder = "gossip", Unlock, gossip' \notin GossipOwns
        PROVE  LockInv'
    <2>1. OwnedBy(holder', queue', Contending')
      BY <1>1, <1>3, <1>6, UnlockOwns, FreeIsNoTask
    <2>2. QED
      BY <1>1, <1>2, <1>6, <2>1
  <1>7. CASE GossipEvent
    BY <1>4, <1>5, <1>7 DEF GossipEvent, AtOnce, GossipOwns
  <1>8. CASE GossipHandled
    BY <1>6, <1>8 DEF GossipHandled, GossipOwns
  <1>9. CASE GossipStops
    BY <1>4, <1>9 DEF GossipStops, GossipOwns
  \* The service goes from the lock to the end of the queue.
  <1>10. CASE GossipRelocks
    <2>1. CASE queue = << >>
      BY <1>6, <1>10, <2>1 DEF GossipRelocks, GossipOwns
    <2>2. CASE queue # << >>
      <3>1. /\ holder = "gossip"
            /\ holder' = Head(queue)
            /\ queue' = Append(Tail(queue), "gossip")
            /\ gossip' \in GossipOwns
            /\ gossip \in GossipOwns
        BY <1>10, <2>2 DEF GossipRelocks, GossipOwns
      <3>2. Contending' = Contending
        BY <1>3, <3>1, WhoContends
      <3>3. /\ Tail(queue) \in Seq(Task)
            /\ Head(queue) \in Task
            /\ ToSet(queue) = ToSet(Tail(queue)) \cup {Head(queue)}
            /\ Head(queue) \notin ToSet(Tail(queue))
            /\ IsInjective(Tail(queue))
        BY <2>2, TailShape DEF OwnedBy
      <3>4. /\ queue' \in Seq(Task)
            /\ ToSet(queue') = ToSet(Tail(queue)) \cup {"gossip"}
            /\ IsInjective(queue')
        BY <1>1, <3>1, <3>3, AppendShape, Zenon DEF OwnedBy
      <3>5. OwnedBy(holder', queue', Contending)
        BY <1>1, <3>1, <3>3, <3>4, FreeIsNoTask DEF OwnedBy
      <3>6. QED
        BY <1>1, <1>2, <3>1, <3>2, <3>5
    <2>3. QED
      BY <2>1, <2>2
  <1>11. QED
    BY <1>7, <1>8, <1>9, <1>10

\* The steps of a request.
LEMMA RequestKeepsLock ==
    ASSUME LockInv, NEW r \in Request, RequestArrives(r) \/ RequestServed(r)
    PROVE  LockInv'
  <1> USE DEF LockInv
  <1>1. UNCHANGED <<miner, gossip>> /\ r \in Task /\ r # "miner"
    BY RequestAssumption DEF RequestArrives, RequestServed, Task
  <1>2. CASE RequestArrives(r)
    <2>1. /\ Contending' = Contending \cup {r}
          /\ request' = [x \in Request |-> request'[x]]
      BY <1>1, <1>2, RequestContends DEF RequestArrives
    <2>2. r \notin Contending
      BY <1>2, WhoContends DEF RequestArrives
    <2>3. CASE holder = "free" /\ holder' = r /\ UNCHANGED queue
      BY <1>1, <2>1, <2>3, TakeOwns
    <2>4. CASE Wait(r)
      <3>1. OwnedBy(holder', queue', Contending')
        BY <1>1, <2>1, <2>2, <2>4, WaitOwns
      <3>2. QED
        BY <1>1, <2>1, <2>4, <3>1 DEF Wait
    <2>5. QED
      BY <1>2, <2>3, <2>4 DEF RequestArrives
  <1>3. CASE RequestServed(r)
    <2>1. /\ Contending' = Contending \ {r}
          /\ request' = [x \in Request |-> request'[x]]
      BY <1>1, <1>3, RequestContends DEF RequestServed
    <2>2. OwnedBy(holder', queue', Contending')
      BY <1>1, <1>3, <2>1, UnlockOwns, FreeIsNoTask DEF RequestServed
    <2>3. QED
      BY <1>1, <1>3, <2>1, <2>2 DEF RequestServed
  <1>4. QED
    BY <1>2, <1>3

\* The lock is owned by the tasks in a locked section and by no other, for
\* any number of requests, whatever is cancelled by a shutdown.
THEOREM LockAlwaysConsistent == Spec => []LockIsConsistent
  <1>1. Init => LockInv
    <2> SUFFICES ASSUME Init
                 PROVE  LockInv
      OBVIOUS
    <2>1. Contending = {} /\ ToSet(queue) = {} /\ IsInjective(queue) /\ queue \in Seq(Task)
      BY DEF Init, Contending, ToSet, IsInjective
    <2>2. QED
      BY <2>1 DEF Init, LockInv, OwnedBy
  <1>2. LockInv /\ [Next]_vars => LockInv'
    <2> SUFFICES ASSUME LockInv, [Next]_vars
                 PROVE  LockInv'
      OBVIOUS
    <2>1. ASSUME UNCHANGED <<holder, queue, miner, gossip, request>>
          PROVE  LockInv'
      BY <2>1 DEF LockInv, Contending
    <2>2. CASE ServiceEnds
      <3>1. /\ Contending' = {} /\ ToSet(queue') = {}
            /\ IsInjective(queue') /\ queue' \in Seq(Task)
        BY <2>2 DEF ServiceEnds, Contending, ToSet, IsInjective
      <3>2. QED
        BY <2>2, <3>1 DEF ServiceEnds, LockInv, OwnedBy
    <2>3. CASE CtrlC \/ RunInternal \/ UNCHANGED vars
      BY <2>1, <2>3 DEF CtrlC, RunInternal, RpcStopped, MinerStopped, GossipStopped, vars
    <2>4. QED
      BY <2>2, <2>3, MinerKeepsLock, GossipKeepsLock, RequestKeepsLock DEF Next
  <1>3. LockInv => LockIsConsistent
    BY DEF LockInv, OwnedBy, LockIsConsistent
  <1>4. QED
    BY <1>1, <1>2, <1>3, PTL DEF Spec
=============================================================================
