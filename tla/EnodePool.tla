------------------------------ MODULE EnodePool ------------------------------
(***************************************************************************)
(* Finding nodes and dialing them: the enode pool and the dial history     *)
(* (node_manager/crawl.go), and the loops of node_manager/node-manager.go  *)
(* that use them, each in goroutines of its own: crawlLoop fills the pool, *)
(* ManagerLoop dials from it, HistoryLoop expires the history.             *)
(*                                                                         *)
(* enodePool and enodeHistory are concurrent maps: every call is a step.   *)
(* enodeReadLock is held across steps only by getEnodeFromCacheForDail.    *)
(* A crawler is run together with its readLoop, which it waits for.        *)
(***************************************************************************)
EXTENDS Integers, FiniteSets

CONSTANTS
  Key,          \* endpoints, ip:port; one node each
  Crawler,      \* goroutines of crawlLoop, Setting.CrawlCount of them
  Pending,      \* Setting.PendingEnodeCount
  MaxCount,     \* Setting.MaxCount
  MaxDail,      \* Setting.MaxDailCount
  ServerMax,    \* MaxPeers of the p2p server
  TTL,          \* lifetime of a history entry, 60*60*1
  MaxTime       \* bound: the clock

ASSUME EnodePoolAssumption ==
  /\ IsFiniteSet(Key) /\ Key # {} /\ IsFiniteSet(Crawler)
  /\ Pending \in Nat /\ MaxCount \in Nat /\ MaxDail \in Nat /\ ServerMax \in Nat
  /\ TTL \in Nat /\ MaxTime \in Nat

\* No entry in enodeHistory.
Absent == -1

VARIABLES
  enodePool,    \* keys of the pool
  enodeHistory, \* key -> time of the dial, or Absent
  now,          \* time.Now().Unix()
  mpc, mkey,    \* ManagerLoop: where it is, the item it took
  expired,      \* HistoryLoop: keys its copy shows as expired
  cpc, ckey,    \* crawlers: where each is, the neighbour it adds
  conn,         \* crawlers whose UDP connection is open
  stage,        \* of the node at a key: dialing, set up, registered in the peer set
  cancelFlag,   \* set by the exit watcher
  crashed,      \* a goroutine has panicked
  picks         \* history: picks of a key since it was last out of enodeHistory

poolVars == <<enodePool, enodeHistory>>
mgrVars == <<mpc, mkey>>
crawlVars == <<cpc, ckey, conn>>
vars == <<poolVars, now, mgrVars, expired, crawlVars, stage, cancelFlag, crashed, picks>>

ManagerStates == {"peers", "count", "pick", "history", "dial"}
CrawlStates == {"idle", "take", "read", "hist", "pool", "set", "blocked", "exit"}
Stages == {"none", "dialing", "setup", "peer"}

TypeOK ==
  /\ enodePool \subseteq Key
  /\ enodeHistory \in [Key -> 0..MaxTime \cup {Absent}]
  /\ now \in 0..MaxTime
  /\ mpc \in ManagerStates /\ mkey \in Key
  /\ expired \subseteq Key
  /\ cpc \in [Crawler -> CrawlStates] /\ ckey \in [Crawler -> Key]
  /\ conn \subseteq Crawler
  /\ stage \in [Key -> Stages]
  /\ cancelFlag \in BOOLEAN /\ crashed \in BOOLEAN
  /\ picks \in [Key -> Nat]

\* ManagerStart starts the loops only if the first crawl found something.
Init ==
  /\ enodePool \in SUBSET Key \ {{}}
  /\ enodeHistory = [k \in Key |-> Absent]
  /\ now = 0
  /\ mpc = "peers" /\ mkey = CHOOSE k \in Key : TRUE
  /\ expired = {}
  /\ cpc = [c \in Crawler |-> "idle"]
  /\ ckey = [c \in Crawler |-> CHOOSE k \in Key : TRUE]
  /\ conn = {}
  /\ stage = [k \in Key |-> "none"]
  /\ cancelFlag = FALSE /\ crashed = FALSE
  /\ picks = [k \in Key |-> 0]

At(s) == {k \in Key : stage[k] = s}

-----------------------------------------------------------------------------
(* ManagerLoop.                                                            *)

\* len(allPeers) < Setting.MaxCount, else it sleeps and starts again.
CheckPeers ==
  /\ mpc = "peers" /\ Cardinality(At("peer")) < MaxCount
  /\ mpc' = "count"
  /\ UNCHANGED <<poolVars, now, mkey, expired, crawlVars, stage, cancelFlag, crashed, picks>>

\* DialingCount() <= Setting.MaxDailCount
CheckDialing ==
  /\ mpc = "count"
  /\ mpc' = IF Cardinality(At("dialing")) <= MaxDail THEN "pick" ELSE "peers"
  /\ UNCHANGED <<poolVars, now, mkey, expired, crawlVars, stage, cancelFlag, crashed, picks>>

\* getEnodeFromCacheForDail: lock, and remove any item from the pool.
PickForDail ==
  /\ mpc = "pick"
  /\ \/ \E k \in enodePool :
          /\ enodePool' = enodePool \ {k}
          /\ mkey' = k
          /\ picks' = [picks EXCEPT ![k] = @ + 1]
          /\ mpc' = "history"
     \/ /\ enodePool = {}
        /\ mpc' = "peers"
        /\ UNCHANGED <<enodePool, mkey, picks>>
  /\ UNCHANGED <<enodeHistory, now, expired, crawlVars, stage, cancelFlag, crashed>>

\* enodeHistory.Set(item.Key, time.Now().Unix()), unlock.
PickHistory ==
  /\ mpc = "history"
  /\ enodeHistory' = [enodeHistory EXCEPT ![mkey] = now]
  /\ mpc' = "dial"
  /\ UNCHANGED <<enodePool, now, mkey, expired, crawlVars, stage, cancelFlag, crashed, picks>>

\* enode.Parse, which may fail, and StartDialEnode, which refuses a node that
\* is dialed or connected already.
StartDialEnode ==
  /\ mpc = "dial"
  /\ mpc' = "peers"
  /\ \/ stage' = stage
     \/ stage[mkey] = "none" /\ stage' = [stage EXCEPT ![mkey] = "dialing"]
  /\ UNCHANGED <<poolVars, now, mkey, expired, crawlVars, cancelFlag, crashed, picks>>

ManagerStep ==
  CheckPeers \/ CheckDialing \/ PickForDail \/ PickHistory \/ StartDialEnode

-----------------------------------------------------------------------------
(* HistoryLoop.                                                            *)

\* nowTime and the copy IterBuffered makes of the history.
ScanHistory ==
  /\ expired = {}
  /\ expired' = {k \in Key : enodeHistory[k] # Absent /\ now - enodeHistory[k] > TTL}
  /\ UNCHANGED <<poolVars, now, mgrVars, crawlVars, stage, cancelFlag, crashed, picks>>

\* enodeHistory.Remove(item.Key) for an item of the copy.
RemoveHistory(k) ==
  /\ k \in expired
  /\ expired' = expired \ {k}
  /\ enodeHistory' = [enodeHistory EXCEPT ![k] = Absent]
  /\ picks' = [picks EXCEPT ![k] = 0]
  /\ UNCHANGED <<enodePool, now, mgrVars, crawlVars, stage, cancelFlag, crashed>>

-----------------------------------------------------------------------------
(* crawlLoop and the crawler it runs.                                      *)

\* Mutant: cancelFlag is only looked at when the pool has room.
CrawlLoop_RoomFirst(c) ==
  /\ cpc[c] = "idle" /\ Cardinality(enodePool) < Pending
  /\ cpc' = [cpc EXCEPT ![c] = IF cancelFlag THEN "exit" ELSE "take"]
  /\ UNCHANGED <<poolVars, now, mgrVars, expired, ckey, conn, stage, cancelFlag, crashed, picks>>

\* cancelFlag, and the size of the pool, at the top of the loop.
CrawlLoop(c) ==
  /\ cpc[c] = "idle"
  /\ \/ cancelFlag /\ cpc' = [cpc EXCEPT ![c] = "exit"]
     \/ /\ ~cancelFlag /\ Cardinality(enodePool) < Pending
        /\ cpc' = [cpc EXCEPT ![c] = "take"]
  /\ UNCHANGED <<poolVars, now, mgrVars, expired, ckey, conn, stage, cancelFlag, crashed, picks>>

\* getRandEnodeFromCache under enodeReadLock; with an empty pool a registered
\* peer, by rand.Intn(len(allPeers)), which panics for 0.  The crawler opens its
\* connection, or DialUDP fails.
TakeTarget(c) ==
  /\ cpc[c] = "take" /\ mpc # "history"
  /\ IF enodePool = {} /\ At("peer") = {}
     THEN crashed' = TRUE /\ UNCHANGED <<cpc, conn>>
     ELSE /\ crashed' = crashed
          /\ \/ cpc' = [cpc EXCEPT ![c] = "read"] /\ conn' = conn \cup {c}
             \/ cpc' = [cpc EXCEPT ![c] = "idle"] /\ conn' = conn
  /\ UNCHANGED <<poolVars, now, mgrVars, expired, ckey, stage, cancelFlag, picks>>

\* The timers of run end and it closes the connection.
CloseConn(c) ==
  /\ c \in conn
  /\ conn' = conn \ {c}
  /\ UNCHANGED <<poolVars, now, mgrVars, expired, cpc, ckey, stage, cancelFlag, crashed, picks>>

\* readLoop meets the closed connection, and run, waiting for it, returns.
CrawlEnds(c) ==
  /\ cpc[c] = "read" /\ c \notin conn
  /\ cpc' = [cpc EXCEPT ![c] = "idle"]
  /\ UNCHANGED <<poolVars, now, mgrVars, expired, ckey, conn, stage, cancelFlag, crashed, picks>>

\* readLoop blocks for good on a full channel (module Crawler), and run with it.
ReadLoopBlocks(c) ==
  /\ cpc[c] = "read" /\ c \in conn
  /\ cpc' = [cpc EXCEPT ![c] = "blocked"]
  /\ UNCHANGED <<poolVars, now, mgrVars, expired, ckey, conn, stage, cancelFlag, crashed, picks>>

\* handleNeighbors for one node: existEnodeIpItem is false, addEnodeToCache
\* starts (a node that is in the pool changes nothing).
Neighbor(c, k) ==
  /\ cpc[c] = "read" /\ c \in conn /\ k \notin enodePool
  /\ ckey' = [ckey EXCEPT ![c] = k]
  /\ cpc' = [cpc EXCEPT ![c] = "hist"]
  /\ UNCHANGED <<poolVars, now, mgrVars, expired, conn, stage, cancelFlag, crashed, picks>>

\* Mutant: addEnodeToCache does not ask the history.
AddInHistory_NoCheck(c) ==
  /\ cpc[c] = "hist"
  /\ cpc' = [cpc EXCEPT ![c] = "pool"]
  /\ UNCHANGED <<poolVars, now, mgrVars, expired, ckey, conn, stage, cancelFlag, crashed, picks>>

\* addEnodeToCache: enodeHistory.Has ...
AddInHistory(c) ==
  /\ cpc[c] = "hist"
  /\ cpc' = [cpc EXCEPT ![c] = IF enodeHistory[ckey[c]] = Absent THEN "pool" ELSE "read"]
  /\ UNCHANGED <<poolVars, now, mgrVars, expired, ckey, conn, stage, cancelFlag, crashed, picks>>

\* ... enodePool.Has ...
AddInPool(c) ==
  /\ cpc[c] = "pool"
  /\ cpc' = [cpc EXCEPT ![c] = IF ckey[c] \in enodePool THEN "read" ELSE "set"]
  /\ UNCHANGED <<poolVars, now, mgrVars, expired, ckey, conn, stage, cancelFlag, crashed, picks>>

\* ... enodePool.Set.
AddSet(c) ==
  /\ cpc[c] = "set"
  /\ enodePool' = enodePool \cup {ckey[c]}
  /\ cpc' = [cpc EXCEPT ![c] = "read"]
  /\ UNCHANGED <<enodeHistory, now, mgrVars, expired, ckey, conn, stage, cancelFlag, crashed, picks>>

CrawlStep(c) ==
  \/ CrawlLoop(c) \/ TakeTarget(c) \/ CrawlEnds(c)
  \/ AddInHistory(c) \/ AddInPool(c) \/ AddSet(c)

-----------------------------------------------------------------------------
(* Connections, as far as the manager sees them.                           *)

\* A dial task ends: no connection, or one the server admits.
DialDone(k) ==
  /\ stage[k] = "dialing"
  /\ \/ stage' = [stage EXCEPT ![k] = "none"]
     \/ /\ Cardinality(At("setup") \cup At("peer")) < ServerMax
        /\ stage' = [stage EXCEPT ![k] = "setup"]
  /\ UNCHANGED <<poolVars, now, mgrVars, expired, crawlVars, cancelFlag, crashed, picks>>

\* A remote node connects.
Inbound(k) ==
  /\ stage[k] = "none"
  /\ Cardinality(At("setup") \cup At("peer")) < ServerMax
  /\ stage' = [stage EXCEPT ![k] = "setup"]
  /\ UNCHANGED <<poolVars, now, mgrVars, expired, crawlVars, cancelFlag, crashed, picks>>

\* runEthPeer has shaken hands and registers the peer.
PeerRegistered(k) ==
  /\ stage[k] = "setup"
  /\ stage' = [stage EXCEPT ![k] = "peer"]
  /\ UNCHANGED <<poolVars, now, mgrVars, expired, crawlVars, cancelFlag, crashed, picks>>

\* A connection ends, by itself or because ManagerLoop kicks the peer.
PeerLeaves(k) ==
  /\ stage[k] \in {"setup", "peer"}
  /\ stage' = [stage EXCEPT ![k] = "none"]
  /\ UNCHANGED <<poolVars, now, mgrVars, expired, crawlVars, cancelFlag, crashed, picks>>

\* exitWatcher receives a signal.
ExitWatcher ==
  /\ ~cancelFlag /\ cancelFlag' = TRUE
  /\ UNCHANGED <<poolVars, now, mgrVars, expired, crawlVars, stage, crashed, picks>>

Tick ==
  /\ now < MaxTime /\ now' = now + 1
  /\ UNCHANGED <<poolVars, mgrVars, expired, crawlVars, stage, cancelFlag, crashed, picks>>

Next ==
  /\ ~crashed
  /\ \/ ManagerStep \/ ScanHistory \/ ExitWatcher \/ Tick
     \/ \E k \in Key : \/ RemoveHistory(k) \/ DialDone(k) \/ Inbound(k)
                       \/ PeerRegistered(k) \/ PeerLeaves(k)
     \/ \E c \in Crawler : \/ CrawlStep(c) \/ CloseConn(c) \/ ReadLoopBlocks(c)
                           \/ \E k \in Key : Neighbor(c, k)

Spec == Init /\ [][Next]_vars

\* Goroutines keep running, a Mutex is granted in the end, timers fire; what the
\* network does is not promised.
Fairness ==
  /\ WF_vars(~crashed /\ ManagerStep)
  /\ \A c \in Crawler :
       /\ WF_vars(~crashed /\ CloseConn(c))
       /\ WF_vars(~crashed /\ cpc[c] # "take" /\ CrawlStep(c))
       /\ SF_vars(~crashed /\ TakeTarget(c))

FairSpec == Spec /\ Fairness

-----------------------------------------------------------------------------
(* Properties.                                                             *)

\* An endpoint is taken for dialing at most 1 + CrawlCount times before its
\* history entry expires.  Once would be right if the calls of addEnodeToCache
\* and of getEnodeFromCacheForDail were atomic; each crawler that is between
\* its look at the history and its Set can bring the endpoint back once.
RedialBounded ==
  \A k \in Key : picks[k] <= 1 + Cardinality(Crawler)

\* The dials under way exceed MaxDailCount by one at most, although the test is
\* made before the item is taken and the dial starts (node-manager.go:279).
DialingBounded == Cardinality(At("dialing")) <= MaxDail + 1

\* ManagerLoop keeps to its limits, per endpoint and in all.
DialsLimited == RedialBounded /\ DialingBounded

\* After the exit signal every crawler leaves its loop, whatever the pool holds:
\* run returns and enodeReadLock is released (node-manager.go:299).  Only a
\* readLoop blocked on a full channel keeps its crawler.
CancelStopsCrawlers ==
  \A c \in Crawler : cancelFlag ~> (cpc[c] \in {"exit", "blocked"} \/ crashed)
==============================================================================
