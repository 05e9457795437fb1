------------------------------ MODULE CoinBase ------------------------------
(***************************************************************************)
(* The list of peers that deliver a miner's blocks first,                  *)
(* node_manager/node-manager.go: the first half of BlockProcess, which     *)
(* keeps coinBaseList and runs in the goroutine of each eth peer, and the  *)
(* two calls that send a client's transactions: HandSendTxToCoinBase to    *)
(* the first peers of a list, HandSendTx to every peer.                    *)
(*                                                                         *)
(* coinBaseList maps a miner to a pointer.  Get and Set are single calls   *)
(* of a concurrent map; what a pointer leads to is read and written under  *)
(* its own lock, ReadLock, which is held across steps only by a            *)
(* HandSendTxToCoinBase that waits in AllPeers for the lock of the peer    *)
(* set.  That lock behaves as PeerLock says; PeerSet implements it.        *)
(***************************************************************************)
EXTENDS Integers, Sequences, FiniteSets

CONSTANTS
  Peer,     \* eth peers
  Miner,    \* coinbases, as lower-case strings
  Number,   \* block numbers
  ListCap,  \* 60
  Top,      \* sendReq.Top, the bound of the client's request
  Request,  \* calls of HandSendTx and HandSendTxToCoinBase
  MaxBlock, \* bound: blocks each peer delivers
  NoMiner   \* a coinbase name that is no key of coinBaseList

ASSUME CoinBaseAssumption ==
  /\ IsFiniteSet(Peer) /\ <<>> \notin Peer
  /\ Number \subseteq Nat \ {0} /\ Number # {} /\ Miner # {} /\ NoMiner \notin Miner
  /\ ListCap \in Nat \ {0} /\ Top \in Nat /\ MaxBlock \in [Peer -> Nat]

\* CoinBaseInfo objects are named by the peer and delivery that create them.
Info == UNION {{p} \X (1..MaxBlock[p]) : p \in Peer}
Nil == <<>>

VARIABLES
  pc,           \* where the goroutine of each peer is in BlockProcess
  count,        \* blocks the peer has delivered
  miner, num,   \* coinbase and number of its block
  ptr,          \* the pointer Get returned
  coinBaseList, \* miner -> pointer
  last, list,   \* LastBlock and PeerIdList of each object
  lock,         \* ps.lock, as its users see it
  conn,         \* ps.peers: the peers AllPeers returns
  rpc,          \* where each call of a client is
  name,         \* its CoinBaseName
  rptr,         \* the pointer its iteration found
  left,         \* HandSendTx: the peers its loop has still to visit
  peer,         \* ... the variable of that loop, which its goroutines share
  spawned,      \* ... goroutines that have not sent yet
  target,       \* the peers sent to, in order
  best,         \* history: highest block number entered for a miner
  first,        \* history: the peer that entered a miner's block number first
  lost          \* history: miners whose newest block is not in the entry

blockVars == <<pc, count, miner, num, ptr>>
listVars == <<coinBaseList, last, list>>
loopVars == <<left, peer, spawned>>
rpcVars == <<rpc, name, rptr, loopVars, target>>
histVars == <<best, first, lost>>
vars == <<blockVars, listVars, lock, conn, rpcVars, histVars>>

PeerSetLock == INSTANCE PeerLock

\* target is left out: what SelectSeq returns is beyond the prover.
TypeOK ==
  /\ pc \in [Peer -> {"idle", "get", "update", "create"}]
  /\ count \in [Peer -> Nat]
  /\ miner \in [Peer -> Miner] /\ num \in [Peer -> Number]
  /\ ptr \in [Peer -> Info \cup {Nil}]
  /\ coinBaseList \in [Miner -> Info \cup {Nil}]
  /\ last \in [Info -> Number \cup {0}]
  /\ list \in [Info -> Seq(Peer)]
  /\ conn \subseteq Peer
  /\ lock \in {"free", "held", "stuck"}
  /\ rpc \in [Request -> {"new", "find", "lock", "peers", "all", "loop", "done"}]
  /\ name \in [Request -> Miner \cup {NoMiner}]
  /\ rptr \in [Request -> Info \cup {Nil}]
  /\ left \in [Request -> SUBSET Peer]
  /\ peer \in [Request -> Peer \cup {Nil}]
  /\ spawned \in [Request -> Nat]
  /\ best \in [Miner -> Number \cup {0}]
  /\ first \in [Miner -> [Number -> Peer \cup {Nil}]]
  /\ lost \subseteq Miner

Init ==
  /\ pc = [p \in Peer |-> "idle"]
  /\ count = [p \in Peer |-> 0]
  /\ miner = [p \in Peer |-> CHOOSE m \in Miner : TRUE]
  /\ num = [p \in Peer |-> CHOOSE n \in Number : TRUE]
  /\ ptr = [p \in Peer |-> Nil]
  /\ coinBaseList = [m \in Miner |-> Nil]
  /\ last = [o \in Info |-> 0]
  /\ list = [o \in Info |-> <<>>]
  /\ PeerSetLock!Init
  /\ conn = {}
  /\ rpc = [r \in Request |-> "new"]
  /\ name = [r \in Request |-> NoMiner]
  /\ rptr = [r \in Request |-> Nil]
  /\ left = [r \in Request |-> {}]
  /\ peer = [r \in Request |-> Nil]
  /\ spawned = [r \in Request |-> 0]
  /\ target = [r \in Request |-> <<>>]
  /\ best = [m \in Miner |-> 0]
  /\ first = [m \in Miner |-> [n \in Number |-> Nil]]
  /\ lost = {}

\* BlockProcess is called: a block message of p, decoded, reaches the callback.
BlockProcess(p) ==
  /\ p \in conn /\ pc[p] = "idle" /\ count[p] < MaxBlock[p]
  /\ \E m \in Miner, n \in Number :
       miner' = [miner EXCEPT ![p] = m] /\ num' = [num EXCEPT ![p] = n]
  /\ count' = [count EXCEPT ![p] = @ + 1]
  /\ pc' = [pc EXCEPT ![p] = "get"]
  /\ UNCHANGED <<ptr, listVars, lock, conn, rpcVars, histVars>>

\* newCoinBaseValue, ok := coinBaseList.Get(coinBase)
GetInfo(p) ==
  /\ pc[p] = "get"
  /\ ptr' = [ptr EXCEPT ![p] = coinBaseList[miner[p]]]
  /\ pc' = [pc EXCEPT ![p] = IF coinBaseList[miner[p]] = Nil THEN "create" ELSE "update"]
  /\ UNCHANGED <<count, miner, num, listVars, lock, conn, rpcVars, histVars>>

\* History of p entering its block in the object o while the map's entry
\* becomes e: the first peer to enter a number, the highest number, and the
\* miners whose entry does not hold that highest number.
Enter(p, o, e) ==
  LET m == miner[p]
      n == num[p]
  IN /\ best' = IF n > best[m] THEN [best EXCEPT ![m] = n] ELSE best
     /\ first' = IF first[m][n] = Nil THEN [first EXCEPT ![m][n] = p] ELSE first
     /\ lost' = IF n > best[m] THEN (IF o = e THEN lost \ {m} ELSE lost \cup {m})
                ELSE IF e # coinBaseList[m] THEN lost \cup {m}
                ELSE lost

\* No call holds the ReadLock of object o while it waits in AllPeers.
ListFree(o) == \A r \in Request : rpc[r] = "peers" => rptr[r] # o

\* Mutant: a block of the same number starts a new list too.
UpdateInfo_Equal(p) ==
  /\ pc[p] = "update" /\ ListFree(ptr[p])
  /\ LET o == ptr[p]
     IN IF num[p] >= last[o]
        THEN /\ last' = [last EXCEPT ![o] = num[p]]
             /\ list' = [list EXCEPT ![o] = <<p>>]
        ELSE /\ last' = last
             /\ list' = [list EXCEPT ![o] = IF Len(@) < ListCap THEN Append(@, p) ELSE @]
  /\ Enter(p, ptr[p], coinBaseList[miner[p]])
  /\ pc' = [pc EXCEPT ![p] = "idle"]
  /\ UNCHANGED <<count, miner, num, ptr, coinBaseList, lock, conn, rpcVars>>

\* The critical section of ReadLock: a newer block starts a new list, any
\* other is added to a list that is not full.
UpdateInfo(p) ==
  /\ pc[p] = "update" /\ ListFree(ptr[p])
  /\ LET o == ptr[p]
     IN IF num[p] > last[o]
        THEN /\ last' = [last EXCEPT ![o] = num[p]]
             /\ list' = [list EXCEPT ![o] = <<p>>]
        ELSE /\ last' = last
             /\ list' = [list EXCEPT ![o] = IF Len(@) < ListCap THEN Append(@, p) ELSE @]
  /\ Enter(p, ptr[p], coinBaseList[miner[p]])
  /\ pc' = [pc EXCEPT ![p] = "idle"]
  /\ UNCHANGED <<count, miner, num, ptr, coinBaseList, lock, conn, rpcVars>>

\* No entry for the coinbase: a new object, stored with Set.
CreateInfo(p) ==
  LET o == <<p, count[p]>>
  IN /\ pc[p] = "create"
     /\ last' = [last EXCEPT ![o] = num[p]]
     /\ list' = [list EXCEPT ![o] = <<p>>]
     /\ coinBaseList' = [coinBaseList EXCEPT ![miner[p]] = o]
     /\ Enter(p, o, o)
     /\ pc' = [pc EXCEPT ![p] = "idle"]
     /\ UNCHANGED <<count, miner, num, ptr, lock, conn, rpcVars>>

\* ps.peers gains and loses a peer, under ps.lock; a peer's messages are handled
\* in between.
RegisterPeer(p) ==
  /\ p \notin conn /\ lock = "free"
  /\ conn' = conn \cup {p}
  /\ UNCHANGED <<blockVars, listVars, lock, rpcVars, histVars>>

UnregisterPeer(p) ==
  /\ p \in conn /\ pc[p] = "idle" /\ lock = "free"
  /\ conn' = conn \ {p}
  /\ UNCHANGED <<blockVars, listVars, lock, rpcVars, histVars>>

\* The extensions of the peer set take ps.lock and release it, or never do.
LockStep ==
  /\ PeerSetLock!Next
  /\ UNCHANGED <<blockVars, listVars, conn, rpcVars, histVars>>

-----------------------------------------------------------------------------
(* HandSendTxToCoinBase.                                                   *)

\* The call returns at once if a transaction cannot be decoded or there is none,
\* and otherwise looks for the coinbase.
HandSendTxToCoinBase(r) ==
  /\ rpc[r] = "new"
  /\ \E m \in Miner \cup {NoMiner} : name' = [name EXCEPT ![r] = m]
  /\ \E s \in {"find", "done"} : rpc' = [rpc EXCEPT ![r] = s]
  /\ UNCHANGED <<blockVars, listVars, lock, conn, rptr, loopVars, target, histVars>>

\* The iteration over coinBaseList: the pointer of the key equal to the name,
\* if there is one.
FindCoinBase(r) ==
  /\ rpc[r] = "find"
  /\ IF name[r] \in Miner /\ coinBaseList[name[r]] # Nil
     THEN /\ rptr' = [rptr EXCEPT ![r] = coinBaseList[name[r]]]
          /\ rpc' = [rpc EXCEPT ![r] = "lock"]
     ELSE /\ rptr' = rptr
          /\ rpc' = [rpc EXCEPT ![r] = "done"]
  /\ UNCHANGED <<blockVars, listVars, lock, conn, name, loopVars, target, histVars>>

\* coinBaseItemInfo.ReadLock.Lock(), before AllPeers is called.
LockList(r) ==
  /\ rpc[r] = "lock" /\ ListFree(rptr[r])
  /\ rpc' = [rpc EXCEPT ![r] = "peers"]
  /\ UNCHANGED <<blockVars, listVars, lock, conn, name, rptr, loopVars, target, histVars>>

\* Mutant: the loop skips the first peer.
Selected_FromOne(o) ==
  LET Connected(p) == p \in conn
  IN SelectSeq(SubSeq(list[o], 2, IF Top < Len(list[o]) THEN Top ELSE Len(list[o])),
               Connected)

\* The loop over PeerIdList: the first Top peers, connected or not, count; a
\* goroutine sends to each of them that AllPeers returned.
Selected(o) ==
  LET Connected(p) == p \in conn
  IN SelectSeq(SubSeq(list[o], 1, IF Top < Len(list[o]) THEN Top ELSE Len(list[o])),
               Connected)

\* Mutant: a call that finds none of the peers connected tries again.
SendToSelected_Retry(r) ==
  /\ rpc[r] = "peers" /\ lock = "free"
  /\ target' = [target EXCEPT ![r] = Selected(rptr[r])]
  /\ rpc' = [rpc EXCEPT ![r] = IF Selected(rptr[r]) = <<>> THEN "lock" ELSE "done"]
  /\ UNCHANGED <<blockVars, listVars, lock, conn, name, rptr, loopVars, histVars>>

\* AllPeers gets ps.lock, the peers are selected, ReadLock is released.
SendToSelected(r) ==
  /\ rpc[r] = "peers" /\ lock = "free"
  /\ target' = [target EXCEPT ![r] = Selected(rptr[r])]
  /\ rpc' = [rpc EXCEPT ![r] = "done"]
  /\ UNCHANGED <<blockVars, listVars, lock, conn, name, rptr, loopVars, histVars>>

-----------------------------------------------------------------------------
(* HandSendTx.                                                             *)

HandSendTx(r) ==
  /\ rpc[r] = "new"
  /\ \E s \in {"all", "done"} : rpc' = [rpc EXCEPT ![r] = s]
  /\ UNCHANGED <<blockVars, listVars, lock, conn, name, rptr, loopVars, target, histVars>>

\* nodePeers.AllPeers()
AllPeers(r) ==
  /\ rpc[r] = "all" /\ lock = "free"
  /\ left' = [left EXCEPT ![r] = conn]
  /\ rpc' = [rpc EXCEPT ![r] = "loop"]
  /\ UNCHANGED <<blockVars, listVars, lock, conn, name, rptr, peer, spawned, target, histVars>>

\* Mutant: the loop leaves before its last goroutine.
NextPeer_SkipLast(r) ==
  /\ rpc[r] = "loop"
  /\ IF left[r] = {}
     THEN rpc' = [rpc EXCEPT ![r] = "done"] /\ UNCHANGED loopVars
     ELSE /\ \E p \in left[r] :
               left' = [left EXCEPT ![r] = @ \ {p}] /\ peer' = [peer EXCEPT ![r] = p]
          /\ spawned' = [spawned EXCEPT ![r] = IF left'[r] = {} THEN @ ELSE @ + 1]
          /\ UNCHANGED rpc
  /\ UNCHANGED <<blockVars, listVars, lock, conn, name, rptr, target, histVars>>

\* The loop sets its variable and spawns a goroutine, or ends and the call
\* returns.
NextPeer(r) ==
  /\ rpc[r] = "loop"
  /\ IF left[r] = {}
     THEN rpc' = [rpc EXCEPT ![r] = "done"] /\ UNCHANGED loopVars
     ELSE /\ \E p \in left[r] :
               left' = [left EXCEPT ![r] = @ \ {p}] /\ peer' = [peer EXCEPT ![r] = p]
          /\ spawned' = [spawned EXCEPT ![r] = @ + 1]
          /\ UNCHANGED rpc
  /\ UNCHANGED <<blockVars, listVars, lock, conn, name, rptr, target, histVars>>

\* A goroutine runs: peer.SendTransactions, with the peer the variable names now.
SendTransactions(r) ==
  /\ spawned[r] > 0
  /\ target' = [target EXCEPT ![r] = Append(@, peer[r])]
  /\ spawned' = [spawned EXCEPT ![r] = @ - 1]
  /\ UNCHANGED <<blockVars, listVars, lock, conn, rpc, name, rptr, left, peer, histVars>>

-----------------------------------------------------------------------------
BlockStep(p) == GetInfo(p) \/ UpdateInfo(p) \/ CreateInfo(p)

RequestStep(r) ==
  \/ FindCoinBase(r) \/ LockList(r) \/ SendToSelected(r)
  \/ AllPeers(r) \/ NextPeer(r) \/ SendTransactions(r)

Next ==
  \/ \E p \in Peer : BlockProcess(p) \/ BlockStep(p) \/ RegisterPeer(p) \/ UnregisterPeer(p)
  \/ \E r \in Request : HandSendTx(r) \/ HandSendTxToCoinBase(r) \/ RequestStep(r)
  \/ LockStep

Spec == Init /\ [][Next]_vars

\* Goroutines keep running, and who waits for a Mutex that is free again and
\* again gets it.  PeerLock promises that a lock that is held is released or
\* stuck.  Blocks, calls and connections are not promised.
FairSpec ==
  /\ Spec
  /\ \A p \in Peer : SF_vars(BlockStep(p))
  /\ \A r \in Request : SF_vars(RequestStep(r))
  /\ WF_vars(lock = "held" /\ LockStep)

----------------------------------------------------------------------------
\* A list never outgrows the 60 entries the code allows it, whichever peers
\* append at the same time (node-manager.go:153).
ListBounded == \A o \in Info : Len(list[o]) <= ListCap

\* The entry of a miner holds the highest block number any peer entered, and
\* its list starts with the peer that entered that block first.  The one
\* exception is an update lost to the unlocked Get and Set that create an
\* entry, and it ends when the next higher block reaches the entry.
EntryIsNewest ==
  \A m \in Miner \ lost :
    LET o == coinBaseList[m]
    IN IF o = Nil THEN best[m] = 0
       ELSE /\ last[o] = best[m]
            /\ list[o] # <<>>
            /\ list[o][1] = first[m][best[m]]

\* A call of HandSendTxToCoinBase that found the current entry sends first to
\* the peer that delivered the miner's newest block first, if it is still
\* connected, although blocks arrive and peers leave while the call runs.
SendsToFirstPeer ==
  [][\A r \in Request :
       LET m == name[r]
       IN /\ rpc[r] = "peers" /\ rpc'[r] = "done" /\ Top > 0
          /\ m \notin lost /\ rptr[r] = coinBaseList[m]
          /\ first[m][best[m]] \in conn
          => target'[r] # <<>> /\ target'[r][1] = first[m][best[m]]]_vars

\* The goroutines of HandSendTx share the variable of its loop, so a peer can be
\* sent to twice and another not at all; but the transactions always leave the
\* node: once all goroutines have run, the peer the loop visited last has them.
LastPeerServed ==
  \A r \in Request : rpc[r] = "done" /\ spawned[r] = 0 /\ peer[r] # Nil =>
    \E i \in DOMAIN target[r] : target[r][i] = peer[r]

\* A client's call returns and a peer's goroutine gets through BlockProcess,
\* although HandSendTxToCoinBase waits for ps.lock with the lock of a list in its
\* hands and blocks wait for that one: nothing but a peer set that is stuck for
\* good keeps them.
EndsUnlessStuck ==
  /\ \A r \in Request : rpc[r] # "new" ~> (rpc[r] = "done" \/ lock = "stuck")
  /\ \A p \in Peer : pc[p] # "idle" ~> (pc[p] = "idle" \/ lock = "stuck")
==============================================================================
