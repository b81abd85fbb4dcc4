------------------------------ MODULE NodeTasks ------------------------------
(***************************************************************************)
(* The tasks of a node and the lock on its Miner:                          *)
(* crates/meow-node/src/node/mod.rs, miner_service/mod.rs, and the lock    *)
(* pattern of gossip_service/mod.rs and rpc/rpc_handler/mod.rs.            *)
(*                                                                         *)
(* The three service futures are polled by the one task of run_internal:   *)
(* all of them by its select!, and after Ctrl+C one at a time, in the      *)
(* order rpc, miner, gossip.  RPC requests run in tasks of their own.  All *)
(* of them share an Arc<Mutex<Miner>>, tokio's mutex, which hands the lock *)
(* to the waiters in the order they asked, whether they are polled or not. *)
(* A locked section has no await in it, but for the miner's sleep; a       *)
(* service that finds the lock free runs its section in the same poll, and *)
(* that is one step here.                                                  *)
(***************************************************************************)
EXTENDS Sequences, SequencesExt, FiniteSets

CONSTANT Request        \* the RPC requests that may be in flight at once

ASSUME RequestAssumption == Request \cap {"miner", "gossip", "free"} = {}

VARIABLES
    phase,      \* of run_internal: "running", the service it awaits, or "down"
    holder,     \* the task that holds the lock, "free" if nobody does
    queue,      \* the tasks waiting for it
    miner,      \* where MinerService::run is
    gossip,     \* where GossipService::run is
    request     \* where each request is: "idle", or "locking" its handler's lock

vars == <<phase, holder, queue, miner, gossip, request>>

Task == {"miner", "gossip"} \cup Request

Init ==
    /\ phase = "running"
    /\ holder = "free"
    /\ queue = << >>
    /\ miner = "start"
    /\ gossip = "loop"
    /\ request = [r \in Request |-> "idle"]

-----------------------------------------------------------------------------
(* tokio::sync::Mutex *)

\* A slip: a newcomer overtakes the waiters.
WaitBarging(t) == holder # "free" /\ queue' = <<t>> \o queue /\ UNCHANGED holder

\* lock() while somebody has the lock: wait behind the others.
Wait(t) == holder # "free" /\ queue' = Append(queue, t) /\ UNCHANGED holder

\* lock() and a whole section, on a lock nobody has.
AtOnce == holder = "free" /\ UNCHANGED <<holder, queue>>

\* Dropping the guard hands the lock to the first waiter.
Unlock ==
    IF queue = << >>
    THEN holder' = "free" /\ UNCHANGED queue
    ELSE holder' = Head(queue) /\ queue' = Tail(queue)

\* A slip: the guard is released, a waiter is left in the queue.
DropFutureKeepsPlace(t) ==
    IF holder = t THEN Unlock ELSE UNCHANGED <<holder, queue>>

\* Dropping a future drops its guard, or its place in the queue.
DropFuture(t) ==
    \/ holder = t /\ Unlock
    \/ \E i \in DOMAIN queue :
          queue[i] = t /\ queue' = RemoveAt(queue, i) /\ UNCHANGED holder
    \/ holder # t /\ t \notin ToSet(queue) /\ UNCHANGED <<holder, queue>>

-----------------------------------------------------------------------------
(* MinerService::run.  "start" is the lock before the loop and "poll" the  *)
(* top of the loop; "starting", "preparing" and "committing" wait for the  *)
(* lock; "sleeping" is the poll interval, with the lock.                   *)

\* A slip: the watch channel is never written.
SignalledNever == FALSE

\* shutdown_tx.send(()) happened.
Signalled == phase # "running"

Polled(service) == phase \in {"running", service}

MinerStep == Polled("miner") /\ UNCHANGED <<phase, gossip, request>>

MinerStarts ==
    /\ MinerStep
    /\ \/ miner = "start" /\ AtOnce /\ miner' = "poll"
       \/ miner = "start" /\ Wait("miner") /\ miner' = "starting"
       \/ miner = "starting" /\ holder = "miner" /\ Unlock /\ miner' = "poll"

\* The top of the loop: the biased select! looks at the shutdown signal first.
\* With too few transactions for a round the service sleeps inside the match
\* whose scrutinee holds the guard, so it sleeps with the lock.
MinerPolls ==
    /\ MinerStep
    /\ miner = "poll"
    /\ \/ Signalled /\ miner' = "stopped" /\ UNCHANGED <<holder, queue>>
       \/ ~Signalled /\ AtOnce /\ miner' = "grinding"
       \/ ~Signalled /\ holder = "free" /\ holder' = "miner" /\ UNCHANGED queue /\ miner' = "sleeping"
       \/ ~Signalled /\ Wait("miner") /\ miner' = "preparing"

\* The same prepare_round, after a wait for the lock.
MinerPrepares ==
    /\ MinerStep
    /\ miner = "preparing" /\ holder = "miner"
    /\ \/ miner' = "grinding" /\ Unlock
       \/ miner' = "sleeping" /\ UNCHANGED <<holder, queue>>

MinerWakes ==
    /\ MinerStep
    /\ miner = "sleeping"
    /\ miner' = "poll"
    /\ Unlock

\* grind() ends: with no block, or with one that is committed under the lock.
MinerGrinds ==
    /\ MinerStep
    /\ miner = "grinding"
    /\ \/ miner' = "poll" /\ UNCHANGED <<holder, queue>>
       \/ miner' = "committing" /\ Wait("miner")

MinerCommits ==
    /\ MinerStep
    /\ miner = "committing" /\ holder = "miner"
    /\ miner' = "poll"
    /\ Unlock

\* The shutdown branch of select! drops the round where it is; the arm that
\* commits a block is not part of the round.
MinerCancelled ==
    /\ MinerStep
    /\ Signalled
    /\ miner \in {"preparing", "sleeping", "grinding"}
    /\ miner' = "stopped"
    /\ DropFuture("miner")

MinerService ==
    \/ MinerStarts \/ MinerPolls \/ MinerPrepares \/ MinerWakes
    \/ MinerGrinds \/ MinerCommits \/ MinerCancelled

-----------------------------------------------------------------------------
(* GossipService::run: handlers lock, some twice, and are not cancelled.   *)

GossipStep == Polled("gossip") /\ UNCHANGED <<phase, miner, request>>

\* An event that needs the lock, when the lock is taken ("handling" has two
\* sections ahead of it, "applying" one) or free.
GossipEvent ==
    /\ GossipStep
    /\ gossip = "loop"
    /\ ~Signalled
    /\ \/ AtOnce /\ UNCHANGED gossip
       \/ Wait("gossip") /\ gossip' \in {"handling", "applying"}

\* The first section of a block message is over: the lock goes to the next
\* waiter, and the service waits for it again, unless it is free.
GossipRelocks ==
    /\ GossipStep
    /\ gossip = "handling" /\ holder = "gossip"
    /\ IF queue = << >>
       THEN gossip' = "loop" /\ Unlock
       ELSE /\ gossip' = "applying"
            /\ holder' = Head(queue)
            /\ queue' = Append(Tail(queue), "gossip")

GossipHandled ==
    /\ GossipStep
    /\ gossip = "applying" /\ holder = "gossip"
    /\ gossip' = "loop"
    /\ Unlock

GossipStops ==
    /\ GossipStep
    /\ gossip = "loop"
    /\ Signalled
    /\ gossip' = "stopped"
    /\ UNCHANGED <<holder, queue>>

-----------------------------------------------------------------------------
(* RPC requests.  axum spawns a task for each connection; it accepts none  *)
(* after the signal.                                                       *)

RequestArrives(r) ==
    /\ phase = "running"
    /\ request[r] = "idle"
    /\ request' = [request EXCEPT ![r] = "locking"]
    /\ \/ holder = "free" /\ holder' = r /\ UNCHANGED queue
       \/ Wait(r)
    /\ UNCHANGED <<phase, miner, gossip>>

RequestServed(r) ==
    /\ phase # "down"
    /\ holder = r
    /\ request' = [request EXCEPT ![r] = "idle"]
    /\ Unlock
    /\ UNCHANGED <<phase, miner, gossip>>

-----------------------------------------------------------------------------
(* run_internal *)

CtrlC ==
    /\ phase = "running"
    /\ phase' = "rpc"
    /\ UNCHANGED <<holder, queue, miner, gossip, request>>

\* The graceful shutdown of axum waits for the requests in flight.
RpcStopped ==
    /\ phase = "rpc"
    /\ \A r \in Request : request[r] = "idle"
    /\ phase' = "miner"
    /\ UNCHANGED <<holder, queue, miner, gossip, request>>

MinerStopped ==
    /\ phase = "miner"
    /\ miner = "stopped"
    /\ phase' = "gossip"
    /\ UNCHANGED <<holder, queue, miner, gossip, request>>

GossipStopped ==
    /\ phase = "gossip"
    /\ gossip = "stopped"
    /\ phase' = "down"
    /\ UNCHANGED <<holder, queue, miner, gossip, request>>

\* A service ends by itself (the event stream or a channel closed): the
\* node returns, and every other future is dropped with it.
ServiceEnds ==
    /\ phase = "running"
    /\ gossip = "loop"
    /\ gossip' = "stopped"
    /\ miner' = "stopped"
    /\ request' = [r \in Request |-> "idle"]
    /\ holder' = "free"
    /\ queue' = << >>
    /\ phase' = "down"

RunInternal == RpcStopped \/ MinerStopped \/ GossipStopped

Next ==
    \/ MinerService
    \/ GossipEvent \/ GossipHandled \/ GossipRelocks \/ GossipStops
    \/ \E r \in Request : RequestArrives(r) \/ RequestServed(r)
    \/ CtrlC
    \/ ServiceEnds
    \/ RunInternal

Spec == Init /\ [][Next]_vars

(***************************************************************************)
(* Fairness: the runtime polls a future that can go on and that somebody   *)
(* awaits; sleeps end and a nonce is found (difficulty is at most 32).     *)
(* Nothing makes events, requests or Ctrl+C happen.                        *)
(***************************************************************************)
FairSpec ==
    /\ Spec
    /\ WF_vars(MinerService)
    /\ WF_vars(GossipHandled \/ GossipRelocks \/ GossipStops)
    /\ \A r \in Request : WF_vars(RequestServed(r))
    /\ WF_vars(RunInternal)

-----------------------------------------------------------------------------

\* The tasks at an await or in a section that owns the lock or a place in
\* its queue.
Contending ==
    (IF miner \in {"starting", "preparing", "sleeping", "committing"} THEN {"miner"} ELSE {})
    \cup (IF gossip \in {"handling", "applying"} THEN {"gossip"} ELSE {})
    \cup {r \in Request : request[r] = "locking"}

\* The lock is owned by the tasks that are in a locked section and by no
\* other: nobody waits twice, nobody waits for a lock it has, the lock is not
\* free while somebody waits, grinding is done "without holding the lock", and
\* a cancelled mining round leaves neither a guard nor a place in the queue
\* behind.
LockIsConsistent ==
    /\ IsInjective(queue)
    /\ ToSet(queue) \cup ({holder} \ {"free"}) = Contending
    /\ holder \notin ToSet(queue)
    /\ holder = "free" => queue = << >>

\* While the node runs, a request that waits for the lock gets it, although
\* the mining loop takes the lock again and again and sleeps with it.
RequestsAreServed ==
    \A r \in Request : request[r] = "locking" ~> (request[r] = "idle" \/ phase # "running")

\* If nobody holds the lock when Ctrl+C arrives, the node shuts down.
QuietShutdown == (phase = "rpc" /\ holder = "free") ~> phase = "down"

\* The services "check for shutdown signal with higher priority to allow
\* timely shutdown", and the node "shuts down gracefully": after Ctrl+C the
\* node goes down.
ShutdownCompletes == phase = "rpc" ~> phase = "down"
=============================================================================
