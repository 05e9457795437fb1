--------------------------- MODULE CoinBase_proofs ---------------------------
(***************************************************************************)
(* Proofs about CoinBase, for any peers, miners, blocks and calls.         *)
(***************************************************************************)
EXTENDS CoinBase, TLAPS

-----------------------------------------------------------------------------
(* Objects.                                                                *)

\* The history of one peer entering a block, taken apart: m is the miner of the
\* block, n its number.
LEMMA EnterFacts ==
  ASSUME TypeOK, NEW p \in Peer, NEW o, NEW e, Enter(p, o, e),
         NEW m \in Miner, m = miner[p], NEW n \in Number, n = num[p]
  PROVE  /\ best' \in [Miner -> Number \cup {0}] /\ lost' \subseteq Miner
         /\ first' \in [Miner -> [Number -> Peer \cup {Nil}]]
         /\ best'[m] = IF n > best[m] THEN n ELSE best[m]
         /\ first'[m][n] = IF first[m][n] = Nil THEN p ELSE first[m][n]
         /\ \A k \in Number : k # n => first'[m][k] = first[m][k]
         /\ \A x \in Miner : x # m => best'[x] = best[x] /\ first'[x] = first[x]
                                     /\ (x \in lost' <=> x \in lost)
         /\ lost' = IF n > best[m] THEN (IF o = e THEN lost \ {m} ELSE lost \cup {m})
                    ELSE IF e # coinBaseList[m] THEN lost \cup {m} ELSE lost
<1>0. /\ best \in [Miner -> Number \cup {0}] /\ lost \subseteq Miner
      /\ first \in [Miner -> [Number -> Peer \cup {Nil}]]
  BY Zenon DEF TypeOK
<1>1. best' = IF n > best[m] THEN [best EXCEPT ![m] = n] ELSE best
  BY Zenon DEF Enter
<1>2. first' = IF first[m][n] = Nil THEN [first EXCEPT ![m][n] = p] ELSE first
  BY Zenon DEF Enter
<1>3. lost' = IF n > best[m] THEN (IF o = e THEN lost \ {m} ELSE lost \cup {m})
              ELSE IF e # coinBaseList[m] THEN lost \cup {m} ELSE lost
  BY Zenon DEF Enter
<1>4. /\ best' \in [Miner -> Number \cup {0}]
      /\ best'[m] = IF n > best[m] THEN n ELSE best[m]
      /\ \A x \in Miner : x # m => best'[x] = best[x]
  BY <1>0, <1>1, Zenon
<1>5. lost' \subseteq Miner /\ \A x \in Miner : x # m => (x \in lost' <=> x \in lost)
  BY <1>0, <1>3, Zenon
<1>6. /\ first' \in [Miner -> [Number -> Peer \cup {Nil}]]
      /\ first'[m][n] = IF first[m][n] = Nil THEN p ELSE first[m][n]
      /\ \A k \in Number : k # n => first'[m][k] = first[m][k]
      /\ \A x \in Miner : x # m => first'[x] = first[x]
  <2>1. CASE first[m][n] = Nil
    <3>1. first' = [first EXCEPT ![m] = [first[m] EXCEPT ![n] = p]]
      BY <1>2, <2>1, Zenon
    <3>2. [first[m] EXCEPT ![n] = p] \in [Number -> Peer \cup {Nil}]
      BY <1>0, Zenon
    <3> QED
      BY <1>0, <2>1, <3>1, <3>2, Zenon
  <2>2. CASE first[m][n] # Nil
    BY <1>0, <1>2, <2>2, Zenon
  <2> QED
    BY <2>1, <2>2, Zenon
<1> QED
  BY <1>3, <1>4, <1>5, <1>6, Zenon

\* A peer creates objects named after its deliveries; those it has not stored
\* yet are nowhere in use.
Fresh ==
  \A p \in Peer, k \in Nat : k > count[p] \/ (k = count[p] /\ pc[p] # "idle") =>
    /\ \A m \in Miner : coinBaseList[m] # <<p, k>>
    /\ \A q \in Peer : ptr[q] # <<p, k>>

\* An object belongs to one miner, whoever holds a pointer to it.
Owned ==
  /\ \A m1, m2 \in Miner :
       coinBaseList[m1] # Nil /\ coinBaseList[m1] = coinBaseList[m2] => m1 = m2
  /\ \A p \in Peer : pc[p] = "update" =>
       /\ ptr[p] \in Info
       /\ \A m \in Miner : coinBaseList[m] = ptr[p] => m = miner[p]
       /\ \A q \in Peer : pc[q] = "update" /\ ptr[q] = ptr[p] => miner[q] = miner[p]

\* No object is ahead of its miner, and what is ahead of it was never entered.
Below ==
  /\ \A m \in Miner : coinBaseList[m] # Nil => last[coinBaseList[m]] <= best[m]
  /\ \A p \in Peer : pc[p] = "update" => last[ptr[p]] <= best[miner[p]]
  /\ \A m \in Miner : /\ \A n \in Number : n > best[m] => first[m][n] = Nil
                      /\ best[m] # 0 => first[m][best[m]] # Nil

\* A peer in the middle of a delivery has begun one.
Counted == \A p \in Peer : count[p] <= MaxBlock[p] /\ (pc[p] # "idle" => count[p] > 0)

\* Objects are pairs, and the object a delivery creates is one of them.
LEMMA InfoFacts ==
  /\ Nil \notin Info
  /\ TypeOK /\ Counted => \A p \in Peer : pc[p] # "idle" => <<p, count[p]>> \in Info
<1>1. Nil \notin Info
  BY DEF Nil, Info
<1>2. ASSUME TypeOK, Counted, NEW p \in Peer, pc[p] # "idle" PROVE <<p, count[p]>> \in Info
  <2>1. count[p] \in 1..MaxBlock[p]
    BY <1>2, CoinBaseAssumption DEF TypeOK, Counted
  <2> QED
    BY <2>1 DEF Info
<1> QED
  BY <1>1, <1>2, Zenon
-----------------------------------------------------------------------------
(* Types.                                                                  *)

BlockType ==
  /\ pc \in [Peer -> {"idle", "get", "update", "create"}]
  /\ count \in [Peer -> Nat]
  /\ miner \in [Peer -> Miner] /\ num \in [Peer -> Number]
  /\ ptr \in [Peer -> Info \cup {Nil}]
  /\ coinBaseList \in [Miner -> Info \cup {Nil}]
  /\ last \in [Info -> Number \cup {0}]
  /\ list \in [Info -> Seq(Peer)]
  /\ best \in [Miner -> Number \cup {0}]
  /\ first \in [Miner -> [Number -> Peer \cup {Nil}]]
  /\ lost \subseteq Miner

CallType ==
  /\ conn \subseteq Peer
  /\ lock \in {"free", "held", "stuck"}
  /\ rpc \in [Request -> {"new", "find", "lock", "peers", "all", "loop", "done"}]
  /\ name \in [Request -> Miner \cup {NoMiner}]
  /\ rptr \in [Request -> Info \cup {Nil}]
  /\ left \in [Request -> SUBSET Peer]
  /\ peer \in [Request -> Peer \cup {Nil}]
  /\ spawned \in [Request -> Nat]

\* The peer set's side and the calls of clients, which do not touch what
\* BlockProcess keeps; what BlockProcess does not touch.
PeerStep ==
  LockStep \/ \E p \in Peer : RegisterPeer(p) \/ UnregisterPeer(p)
CallStep == \E r \in Request : HandSendTx(r) \/ HandSendTxToCoinBase(r) \/ RequestStep(r)
BlockQuiet == UNCHANGED <<blockVars, listVars, histVars>>

LEMMA Frames ==
  /\ PeerStep => BlockQuiet /\ UNCHANGED rpcVars
  /\ CallStep => BlockQuiet /\ UNCHANGED <<lock, conn>>
  /\ \A p \in Peer : BlockProcess(p) \/ BlockStep(p) => UNCHANGED <<lock, conn, rpcVars>>
<1>1. PeerStep => BlockQuiet /\ UNCHANGED rpcVars
  BY Zenon DEF PeerStep, LockStep, RegisterPeer, UnregisterPeer, BlockQuiet
<1>2. CallStep => BlockQuiet /\ UNCHANGED <<lock, conn>>
  BY Zenon DEF CallStep, HandSendTx, HandSendTxToCoinBase, RequestStep, FindCoinBase, LockList,
     SendToSelected, AllPeers, NextPeer, SendTransactions, BlockQuiet
<1>3. ASSUME NEW p \in Peer, BlockProcess(p) \/ BlockStep(p) PROVE UNCHANGED <<lock, conn, rpcVars>>
  BY <1>3, Zenon DEF BlockProcess, BlockStep, GetInfo, UpdateInfo, CreateInfo
<1> QED
  BY <1>1, <1>2, <1>3, Zenon

\* Client calls and the peer set keep their own types.
LEMMA NextCallType == TypeOK /\ [Next]_vars => CallType'
<1> SUFFICES ASSUME TypeOK, [Next]_vars PROVE CallType'
  BY Zenon
<1>0. BlockType /\ CallType
  BY Zenon DEF TypeOK, BlockType, CallType
<1>1. CASE UNCHANGED <<lock, conn, rpcVars>>
  BY <1>0, <1>1, Zenon DEF CallType, rpcVars, loopVars
<1>2. CASE PeerStep
  <2>1. UNCHANGED <<rpc, name, rptr, left, peer, spawned>>
    BY <1>2, Frames, Zenon DEF rpcVars, loopVars
  <2>2. conn' \subseteq Peer /\ lock' \in {"free", "held", "stuck"}
    BY <1>0, <1>2, Zenon DEF CallType, PeerStep, LockStep, RegisterPeer, UnregisterPeer,
       PeerSetLock!Next, PeerSetLock!Take, PeerSetLock!Settle
  <2> QED
    BY <1>0, <2>1, <2>2, Zenon DEF CallType
<1>3. ASSUME NEW r \in Request, HandSendTx(r) \/ HandSendTxToCoinBase(r) \/ RequestStep(r)
      PROVE  CallType'
  <2>0. UNCHANGED <<lock, conn>>
    BY <1>3, Frames, Zenon DEF CallStep
  <2>1. /\ rpc' = rpc \/ \E s \in {"find", "lock", "peers", "all", "loop", "done"} :
                            rpc' = [rpc EXCEPT ![r] = s]
        /\ name' = name \/ \E m \in Miner \cup {NoMiner} : name' = [name EXCEPT ![r] = m]
    BY <1>3, Zenon DEF HandSendTx, HandSendTxToCoinBase, RequestStep, FindCoinBase, LockList,
       SendToSelected, AllPeers, NextPeer, SendTransactions
  <2>2. rptr' = rptr \/ \E m \in Miner : rptr' = [rptr EXCEPT ![r] = coinBaseList[m]]
    BY <1>3, Zenon DEF HandSendTx, HandSendTxToCoinBase, RequestStep, FindCoinBase, LockList,
       SendToSelected, AllPeers, NextPeer, SendTransactions
  <2>3. /\ left' \in {left, [left EXCEPT ![r] = conn]}
           \/ \E p \in Peer : left' = [left EXCEPT ![r] = @ \ {p}]
        /\ peer' = peer \/ \E p \in Peer : peer' = [peer EXCEPT ![r] = p]
    BY <1>0, <1>3, Zenon DEF HandSendTx, HandSendTxToCoinBase, RequestStep, FindCoinBase,
       LockList,
       SendToSelected, AllPeers, NextPeer, SendTransactions, loopVars, CallType
  <2>4. spawned' \in [Request -> Nat]
    BY <1>0, <1>3 DEF HandSendTx, HandSendTxToCoinBase, RequestStep, FindCoinBase, LockList,
       SendToSelected, AllPeers, NextPeer, SendTransactions, loopVars, CallType
  <2>5. rpc' \in [Request -> {"new", "find", "lock", "peers", "all", "loop", "done"}]
        /\ name' \in [Request -> Miner \cup {NoMiner}]
    BY <1>0, <2>1 DEF CallType
  <2>6. rptr' \in [Request -> Info \cup {Nil}]
    BY <1>0, <2>2, Zenon DEF CallType, BlockType
  <2>7. left' \in [Request -> SUBSET Peer] /\ peer' \in [Request -> Peer \cup {Nil}]
    BY <1>0, <2>3 DEF CallType
  <2> QED
    BY <1>0, <2>0, <2>4, <2>5, <2>6, <2>7, Zenon DEF CallType
<1>4. ASSUME NEW p \in Peer, BlockProcess(p) \/ BlockStep(p) PROVE UNCHANGED <<lock, conn, rpcVars>>
  BY <1>4, Frames, Zenon
<1> QED
  BY <1>1, <1>2, <1>3, <1>4, Zenon DEF Next, vars, PeerStep

\* BlockProcess keeps its types.
LEMMA NextBlockType == TypeOK /\ Counted /\ Owned /\ [Next]_vars => BlockType'
<1> SUFFICES ASSUME TypeOK, Counted, Owned, [Next]_vars PROVE BlockType'
  BY Zenon
<1>0. BlockType
  BY Zenon DEF TypeOK, BlockType
<1>1. CASE BlockQuiet
  BY <1>0, <1>1, Zenon DEF BlockQuiet, blockVars, listVars, histVars, BlockType
<1>2. ASSUME NEW p \in Peer, BlockProcess(p) PROVE BlockType'
  BY <1>0, <1>2 DEF BlockProcess, BlockType, listVars, histVars
<1>3. ASSUME NEW p \in Peer, GetInfo(p) PROVE BlockType'
  BY <1>0, <1>3, Zenon DEF GetInfo, BlockType, listVars, histVars
<1>4. ASSUME NEW p \in Peer, UpdateInfo(p) PROVE BlockType'
  <2>1. /\ best' \in [Miner -> Number \cup {0}] /\ lost' \subseteq Miner
        /\ first' \in [Miner -> [Number -> Peer \cup {Nil}]]
    BY <1>0, <1>4, EnterFacts DEF UpdateInfo, BlockType
  <2>2. /\ last' = last \/ last' = [last EXCEPT ![ptr[p]] = num[p]]
        /\ \E s \in Seq(Peer) : list' = [list EXCEPT ![ptr[p]] = s]
    <3>1. list[ptr[p]] \in Seq(Peer)
      BY <1>0, <1>4, Zenon DEF UpdateInfo, Owned, BlockType
    <3>2. Append(list[ptr[p]], p) \in Seq(Peer) /\ <<p>> \in Seq(Peer)
      BY <3>1
    <3> QED
      BY <1>4, <3>1, <3>2, Zenon DEF UpdateInfo
  <2>3. pc' = [pc EXCEPT ![p] = "idle"] /\ UNCHANGED <<count, miner, num, ptr, coinBaseList>>
    BY <1>4, Zenon DEF UpdateInfo
  <2>4. last' \in [Info -> Number \cup {0}] /\ list' \in [Info -> Seq(Peer)]
    BY <1>0, <2>2 DEF BlockType
  <2>5. pc' \in [Peer -> {"idle", "get", "update", "create"}]
    BY <1>0, <2>3, Zenon DEF BlockType
  <2> QED
    BY <1>0, <2>1, <2>3, <2>4, <2>5, Zenon DEF BlockType
<1>5. ASSUME NEW p \in Peer, CreateInfo(p) PROVE BlockType'
  <2>0. <<p, count[p]>> \in Info
    BY <1>5, InfoFacts, Zenon DEF CreateInfo
  <2>1. /\ best' \in [Miner -> Number \cup {0}] /\ lost' \subseteq Miner
        /\ first' \in [Miner -> [Number -> Peer \cup {Nil}]]
    BY <1>0, <1>5, EnterFacts DEF CreateInfo, BlockType
  <2>2. /\ last' = [last EXCEPT ![<<p, count[p]>>] = num[p]]
        /\ list' = [list EXCEPT ![<<p, count[p]>>] = <<p>>]
        /\ coinBaseList' = [coinBaseList EXCEPT ![miner[p]] = <<p, count[p]>>]
        /\ pc' = [pc EXCEPT ![p] = "idle"] /\ UNCHANGED <<count, miner, num, ptr>>
    BY <1>5, Zenon DEF CreateInfo
  <2>3. <<p>> \in Seq(Peer)
    OBVIOUS
  <2> QED
    BY <1>0, <2>0, <2>1, <2>2, <2>3, Zenon DEF BlockType
<1> QED
  BY <1>1, <1>2, <1>3, <1>4, <1>5, Frames, Zenon DEF Next, vars, BlockQuiet, BlockStep,
     PeerStep, CallStep

-----------------------------------------------------------------------------
(* Who uses which object.                                                  *)

\* What a stored object and a pointer of one peer change for the others.
LEMMA NextFresh == TypeOK /\ Counted /\ Fresh /\ [Next]_vars => Counted' /\ Fresh'
<1> SUFFICES ASSUME TypeOK, Counted, Fresh, [Next]_vars PROVE Counted' /\ Fresh'
  BY Zenon
<1>0. BlockType /\ MaxBlock \in [Peer -> Nat]
  BY CoinBaseAssumption, Zenon DEF TypeOK, BlockType
<1>1. CASE BlockQuiet
  BY <1>1, Zenon DEF BlockQuiet, blockVars, listVars, histVars, Counted, Fresh
<1>2. ASSUME NEW p \in Peer, BlockProcess(p) PROVE Counted' /\ Fresh'
  <2>1. /\ count' = [count EXCEPT ![p] = @ + 1] /\ pc' = [pc EXCEPT ![p] = "get"]
        /\ count[p] < MaxBlock[p] /\ UNCHANGED <<ptr, coinBaseList>>
    BY <1>2, Zenon DEF BlockProcess, listVars
  <2>2. \A q \in Peer : count'[q] \in Nat /\ count[q] \in Nat /\ MaxBlock[q] \in Nat
                        /\ (q = p => count'[q] = count[q] + 1)
                        /\ (q # p => count'[q] = count[q] /\ pc'[q] = pc[q])
    BY <1>0, <2>1 DEF BlockType
  <2>3. Counted'
    BY <2>1, <2>2 DEF Counted
  <2>4. Fresh'
    BY <2>1, <2>2 DEF Fresh
  <2> QED
    BY <2>3, <2>4, Zenon
<1>3. ASSUME NEW p \in Peer, GetInfo(p) PROVE Counted' /\ Fresh'
  <2>1. /\ pc[p] = "get" /\ \E s \in {"create", "update"} : pc' = [pc EXCEPT ![p] = s]
        /\ UNCHANGED <<count, coinBaseList>> /\ miner[p] \in Miner
        /\ ptr' = [ptr EXCEPT ![p] = coinBaseList[miner[p]]]
    BY <1>0, <1>3, Zenon DEF GetInfo, listVars, BlockType
  <2>2. \A q \in Peer : pc'[q] # "idle" <=> pc[q] # "idle"
    BY <1>0, <2>1, Zenon DEF BlockType
  <2>3. \A q \in Peer : ptr'[q] = ptr[q] \/ ptr'[q] = coinBaseList[miner[p]]
    BY <1>0, <2>1, Zenon DEF BlockType
  <2>4. Counted'
    BY <2>1, <2>2, Zenon DEF Counted
  <2>5. Fresh'
    BY <2>1, <2>2, <2>3 DEF Fresh
  <2> QED
    BY <2>4, <2>5, Zenon
<1>4. ASSUME NEW p \in Peer, UpdateInfo(p) PROVE Counted' /\ Fresh'
  <2>1. pc' = [pc EXCEPT ![p] = "idle"] /\ UNCHANGED <<count, ptr, coinBaseList>>
    BY <1>4, Zenon DEF UpdateInfo
  <2>2. \A q \in Peer : pc'[q] # "idle" => pc[q] # "idle"
    BY <1>0, <2>1, Zenon DEF BlockType
  <2> QED
    BY <2>1, <2>2, Zenon DEF Counted, Fresh
<1>5. ASSUME NEW p \in Peer, CreateInfo(p) PROVE Counted' /\ Fresh'
  <2>1. /\ coinBaseList' = [coinBaseList EXCEPT ![miner[p]] = <<p, count[p]>>]
        /\ pc' = [pc EXCEPT ![p] = "idle"] /\ UNCHANGED <<count, ptr>>
    BY <1>5, Zenon DEF CreateInfo
  <2>2. \A q \in Peer : (pc'[q] # "idle" => pc[q] # "idle" /\ q # p) /\ count[q] \in Nat
    BY <1>0, <2>1, Zenon DEF BlockType
  <2>3. \A m \in Miner : coinBaseList'[m] = coinBaseList[m] \/ coinBaseList'[m] = <<p, count[p]>>
    BY <1>0, <2>1, Zenon DEF BlockType
  <2>4. Counted'
    BY <2>1, <2>2, Zenon DEF Counted
  <2>5. \A q \in Peer, k \in Nat :
          k > count[q] \/ (k = count[q] /\ pc'[q] # "idle") => <<q, k>> # <<p, count[p]>>
    BY <2>2
  <2>6. Fresh'
    <3> SUFFICES ASSUME NEW q \in Peer, NEW k \in Nat,
                        k > count[q] \/ (k = count[q] /\ pc'[q] # "idle")
                 PROVE  /\ \A m \in Miner : coinBaseList'[m] # <<q, k>>
                        /\ \A x \in Peer : ptr[x] # <<q, k>>
      BY <2>1, Zenon DEF Fresh
    <3>1. /\ \A m \in Miner : coinBaseList[m] # <<q, k>>
          /\ \A x \in Peer : ptr[x] # <<q, k>>
      BY <2>2, Zenon DEF Fresh
    <3> QED
      BY <2>3, <2>5, <3>1, Zenon
  <2> QED
    BY <2>4, <2>6, Zenon
<1> QED
  BY <1>1, <1>2, <1>3, <1>4, <1>5, Frames, Zenon DEF Next, vars, BlockQuiet, BlockStep,
     PeerStep, CallStep

\* Objects keep their owner.
LEMMA NextOwned == TypeOK /\ Counted /\ Fresh /\ Owned /\ [Next]_vars => Owned'
<1> SUFFICES ASSUME TypeOK, Counted, Fresh, Owned, [Next]_vars PROVE Owned'
  BY Zenon
<1>0. BlockType /\ Nil \notin Info
  BY InfoFacts, Zenon DEF TypeOK, BlockType
<1>1. CASE BlockQuiet
  BY <1>1, Zenon DEF BlockQuiet, blockVars, listVars, histVars, Owned
<1>2. ASSUME NEW p \in Peer, BlockProcess(p) \/ UpdateInfo(p) PROVE Owned'
  <2>1. /\ \E s \in {"get", "idle"} : pc' = [pc EXCEPT ![p] = s]
        /\ UNCHANGED <<ptr, coinBaseList>>
        /\ miner' = miner \/ \E m \in Miner : miner' = [miner EXCEPT ![p] = m]
    BY <1>2, Zenon DEF BlockProcess, UpdateInfo, listVars
  <2>2. \A q \in Peer : pc'[q] = "update" => pc[q] = "update" /\ q # p /\ miner'[q] = miner[q]
    BY <1>0, <2>1, Zenon DEF BlockType
  <2> QED
    BY <2>1, <2>2 DEF Owned
<1>3. ASSUME NEW p \in Peer, GetInfo(p) PROVE Owned'
  <2>1. /\ pc' = [pc EXCEPT ![p] = IF coinBaseList[miner[p]] = Nil THEN "create" ELSE "update"]
        /\ UNCHANGED <<miner, coinBaseList>> /\ miner[p] \in Miner
        /\ ptr' = [ptr EXCEPT ![p] = coinBaseList[miner[p]]]
    BY <1>0, <1>3, Zenon DEF GetInfo, listVars, BlockType
  <2>2. \A q \in Peer : q # p => pc'[q] = pc[q] /\ ptr'[q] = ptr[q]
    BY <1>0, <2>1, Zenon DEF BlockType
  <2>3. pc'[p] = "update" => ptr'[p] = coinBaseList[miner[p]] /\ ptr'[p] # Nil /\ ptr'[p] \in Info
    BY <1>0, <2>1, Zenon DEF BlockType
  <2>4. ASSUME NEW q \in Peer, pc'[q] = "update"
        PROVE  /\ ptr'[q] \in Info
               /\ \A m \in Miner : coinBaseList[m] = ptr'[q] => m = miner[q]
    BY <2>1, <2>2, <2>3, <2>4 DEF Owned
  <2>5. ASSUME NEW q \in Peer, NEW x \in Peer, pc'[q] = "update", pc'[x] = "update",
               ptr'[q] = ptr'[x]
        PROVE  miner[q] = miner[x]
    <3>1. CASE q = p /\ x # p
      BY <2>1, <2>2, <2>3, <2>5, <3>1 DEF Owned
    <3>2. CASE q # p /\ x = p
      BY <2>1, <2>2, <2>3, <2>5, <3>2 DEF Owned
    <3>3. CASE q # p /\ x # p
      BY <2>2, <2>5, <3>3 DEF Owned
    <3> QED
      BY <3>1, <3>2, <3>3, Zenon
  <2> QED
    BY <2>1, <2>4, <2>5, Zenon DEF Owned
<1>4. ASSUME NEW p \in Peer, CreateInfo(p) PROVE Owned'
  <2> DEFINE o == <<p, count[p]>>
  <2>1. /\ coinBaseList' = [coinBaseList EXCEPT ![miner[p]] = o]
        /\ pc' = [pc EXCEPT ![p] = "idle"] /\ UNCHANGED <<miner, ptr>>
        /\ pc[p] = "create" /\ miner[p] \in Miner /\ count[p] \in Nat
    BY <1>0, <1>4, Zenon DEF CreateInfo, BlockType
  <2>2. (\A m \in Miner : coinBaseList[m] # o) /\ (\A q \in Peer : ptr[q] # o)
    BY <2>1, Zenon DEF Fresh
  <2> HIDE DEF o
  <2>3. /\ coinBaseList'[miner[p]] = o
        /\ \A m \in Miner : m # miner[p] => coinBaseList'[m] = coinBaseList[m]
    BY <1>0, <2>1, Zenon DEF BlockType
  <2>4. \A q \in Peer : pc'[q] = "update" => pc[q] = "update"
    BY <1>0, <2>1, Zenon DEF BlockType
  <2>5. (\A m1, m2 \in Miner :
           coinBaseList[m1] # Nil /\ coinBaseList[m1] = coinBaseList[m2] => m1 = m2)'
    BY <2>2, <2>3 DEF Owned
  <2> QED
    BY <2>1, <2>2, <2>3, <2>4, <2>5 DEF Owned
<1> QED
  BY <1>1, <1>2, <1>3, <1>4, Frames, Zenon DEF Next, vars, BlockQuiet, BlockStep, PeerStep,
     CallStep

-----------------------------------------------------------------------------
(* The entry of a miner.                                                   *)

EntryInv == TypeOK /\ Counted /\ Fresh /\ Owned /\ Below /\ EntryIsNewest /\ ListBounded

\* Numbers compare.
LEMMA NumberFacts ==
  ASSUME BlockType
  PROVE  /\ \A m \in Miner : best[m] \in Nat
         /\ \A o \in Info : last[o] \in Nat /\ list[o] \in Seq(Peer)
         /\ \A p \in Peer : num[p] \in Nat /\ num[p] > 0 /\ p # Nil
         /\ \A n \in Number : n \in Nat /\ n > 0
<1>1. \A n \in Number : n \in Nat /\ n > 0
  BY CoinBaseAssumption
<1>2. \A p \in Peer : num[p] \in Number /\ p # Nil
  BY CoinBaseAssumption, Zenon DEF BlockType, Nil
<1>3. \A m \in Miner : best[m] \in Number \cup {0}
  BY Zenon DEF BlockType
<1>4. \A o \in Info : last[o] \in Number \cup {0} /\ list[o] \in Seq(Peer)
  BY Zenon DEF BlockType
<1> QED
  BY <1>1, <1>2, <1>3, <1>4

\* What a delivery does to first and best, below and at the new number.
LEMMA EnterKeepsFirst ==
  ASSUME TypeOK, Below, NEW p \in Peer, NEW o, NEW e, Enter(p, o, e)
  PROVE  \A m \in Miner : /\ \A k \in Number : k > best'[m] => first'[m][k] = Nil
                          /\ best'[m] # 0 => first'[m][best'[m]] # Nil
<1> SUFFICES ASSUME NEW m \in Miner
             PROVE  /\ \A k \in Number : k > best'[m] => first'[m][k] = Nil
                    /\ best'[m] # 0 => first'[m][best'[m]] # Nil
  BY Zenon
<1>0. BlockType /\ miner[p] \in Miner /\ num[p] \in Number
  BY Zenon DEF TypeOK, BlockType
<1>1. CASE m # miner[p]
  <2>1. best'[m] = best[m] /\ first'[m] = first[m]
    BY <1>0, <1>1, EnterFacts
  <2> QED
    BY <2>1, Zenon DEF Below
<1>2. CASE m = miner[p]
  <2>1. best'[m] = IF num[p] > best[m] THEN num[p] ELSE best[m]
    BY <1>0, <1>2, EnterFacts, Zenon
  <2>2. first'[m][num[p]] = IF first[m][num[p]] = Nil THEN p ELSE first[m][num[p]]
    BY <1>0, <1>2, EnterFacts
  <2>3. \A k \in Number : k # num[p] => first'[m][k] = first[m][k]
    BY <1>0, <1>2, EnterFacts
  <2>4. best[m] \in Nat /\ num[p] \in Nat /\ p # Nil /\ (best[m] # 0 => best[m] \in Number)
        /\ \A k \in Number : k \in Nat
    BY <1>0, NumberFacts, Zenon DEF BlockType
  <2>5. \A k \in Number : k > best'[m] => first'[m][k] = Nil
    BY <1>0, <2>1, <2>3, <2>4 DEF Below
  <2>6. best'[m] # 0 => first'[m][best'[m]] # Nil
    <3>1. CASE num[p] > best[m]
      BY <2>1, <2>2, <2>4, <3>1, Zenon
    <3>2. CASE ~(num[p] > best[m])
      BY <2>1, <2>2, <2>3, <2>4, <3>2, Zenon DEF Below
    <3> QED
      BY <3>1, <3>2, Zenon
  <2> QED
    BY <2>5, <2>6, Zenon
<1> QED
  BY <1>1, <1>2, Zenon

\* The critical section of ReadLock keeps the entry the newest.
LEMMA UpdateKeepsEntry ==
  ASSUME EntryInv, NEW p \in Peer, UpdateInfo(p)
  PROVE  Below' /\ EntryIsNewest' /\ ListBounded'
<1> DEFINE o == ptr[p]
           m == miner[p]
           n == num[p]
<1>0. TypeOK /\ BlockType /\ Owned /\ Below /\ EntryIsNewest /\ ListBounded
  BY Zenon DEF EntryInv, TypeOK, BlockType
<1>1. /\ o \in Info /\ m \in Miner /\ n \in Number /\ pc[p] = "update"
      /\ pc' = [pc EXCEPT ![p] = "idle"] /\ UNCHANGED <<miner, ptr, coinBaseList>>
      /\ Enter(p, o, coinBaseList[m])
  BY <1>0, Zenon DEF UpdateInfo, Owned, BlockType
<1>2. /\ \A x \in Info : x # o => last'[x] = last[x] /\ list'[x] = list[x]
      /\ n > last[o] => last'[o] = n /\ list'[o] = <<p>>
      /\ ~(n > last[o]) =>
           /\ last'[o] = last[o]
           /\ list'[o] = IF Len(list[o]) < ListCap THEN Append(list[o], p) ELSE list[o]
  BY <1>0, <1>1, Zenon DEF UpdateInfo, BlockType
<1>3. /\ last[o] \in Nat /\ list[o] \in Seq(Peer) /\ n \in Nat /\ n > 0 /\ best[m] \in Nat
      /\ last[o] <= best[m] /\ (\A x \in Miner : best[x] \in Nat)
  BY <1>0, <1>1, NumberFacts, Zenon DEF Below
<1>4. /\ best'[m] = (IF n > best[m] THEN n ELSE best[m])
      /\ \A x \in Miner : x # m => best'[x] = best[x] /\ first'[x] = first[x]
                                  /\ (x \in lost' <=> x \in lost)
      /\ lost' = IF n > best[m] THEN (IF o = coinBaseList[m] THEN lost \ {m} ELSE lost \cup {m})
                 ELSE lost
      /\ first'[m][n] = (IF first[m][n] = Nil THEN p ELSE first[m][n])
      /\ \A k \in Number : k # n => first'[m][k] = first[m][k]
  BY <1>0, <1>1, EnterFacts
<1>5. \A x \in Miner : coinBaseList[x] = o => x = m
  BY <1>0, <1>1, Zenon DEF Owned
<1>6. \A q \in Peer : pc'[q] = "update" => pc[q] = "update" /\ (ptr[q] = o => miner[q] = m)
  BY <1>0, <1>1, Zenon DEF Owned, BlockType
<1>7. \A q \in Peer : pc[q] = "update" => ptr[q] \in Info /\ miner[q] \in Miner
  BY <1>0, Zenon DEF Owned, BlockType
<1>8. \A x \in Miner : coinBaseList[x] # Nil => coinBaseList[x] \in Info
  BY <1>0, Zenon DEF BlockType
<1>9. \A x \in Miner : /\ \A k \in Number : k > best'[x] => first'[x][k] = Nil
                       /\ best'[x] # 0 => first'[x][best'[x]] # Nil
  BY <1>0, <1>1, EnterKeepsFirst, Zenon
<1>10. last'[o] <= best'[m] /\ last'[o] \in Nat /\ best'[m] >= best[m]
  BY <1>2, <1>3, <1>4
<1>11. \A x \in Info : last[x] \in Nat
  BY <1>0, NumberFacts, Zenon
<1> HIDE DEF o, m, n
<1>12. ASSUME NEW x \in Miner, NEW y \in Info, last[y] <= best[x], y = o => x = m
       PROVE  last'[y] <= best'[x]
  <2>1. CASE y = o
    BY <1>10, <1>12, <2>1, Zenon
  <2>2. CASE y # o
    <3>1. best'[x] \in Nat /\ best'[x] >= best[x]
      BY <1>3, <1>4
    <3> QED
      BY <1>2, <1>3, <1>11, <1>12, <2>2, <3>1
  <2> QED
    BY <2>1, <2>2, Zenon
<1>13. Below'
  <2>1. \A x \in Miner : coinBaseList[x] # Nil => last'[coinBaseList[x]] <= best'[x]
    BY <1>0, <1>5, <1>8, <1>12, Zenon DEF Below
  <2>2. \A q \in Peer : pc'[q] = "update" => last'[ptr[q]] <= best'[miner[q]]
    BY <1>0, <1>6, <1>7, <1>12, Zenon DEF Below
  <2> QED
    BY <1>1, <1>9, <2>1, <2>2, Zenon DEF Below
<1>14. EntryIsNewest'
  <2> SUFFICES ASSUME NEW x \in Miner, x \notin lost'
               PROVE  IF coinBaseList[x] = Nil THEN best'[x] = 0
                      ELSE /\ last'[coinBaseList[x]] = best'[x]
                           /\ list'[coinBaseList[x]] # <<>>
                           /\ list'[coinBaseList[x]][1] = first'[x][best'[x]]
    BY <1>1, Zenon DEF EntryIsNewest
  <2>1. CASE x # m
    <3>1. x \notin lost /\ best'[x] = best[x] /\ first'[x] = first[x]
      BY <1>4, <2>1, Zenon
    <3>2. coinBaseList[x] # Nil => /\ last'[coinBaseList[x]] = last[coinBaseList[x]]
                                  /\ list'[coinBaseList[x]] = list[coinBaseList[x]]
      BY <1>2, <1>5, <1>8, <2>1, Zenon
    <3> QED
      BY <1>0, <3>1, <3>2, Zenon DEF EntryIsNewest
  <2>2. CASE x = m /\ n > best[m]
    <3>1. coinBaseList[m] = o /\ best'[m] = n /\ n > last[o]
      BY <1>3, <1>4, <2>2
    <3>2. first[m][n] = Nil
      BY <1>0, <1>1, <2>2, Zenon DEF Below
    <3>3. last'[o] = n /\ list'[o] = <<p>> /\ first'[m][n] = p
      BY <1>2, <1>4, <3>1, <3>2, Zenon
    <3>4. o # Nil
      BY <1>1, InfoFacts, Zenon
    <3> QED
      BY <2>2, <3>1, <3>3, <3>4
  <2>3. CASE x = m /\ ~(n > best[m])
    <3>1. m \notin lost /\ best'[m] = best[m] /\ best[m] # 0
      BY <1>3, <1>4, <2>3, Zenon
    <3>2. coinBaseList[m] # Nil /\ last[coinBaseList[m]] = best[m]
          /\ list[coinBaseList[m]] # <<>> /\ list[coinBaseList[m]][1] = first[m][best[m]]
      BY <1>0, <1>1, <3>1, Zenon DEF EntryIsNewest
    <3>3. first'[m][best[m]] = first[m][best[m]]
      <4>1. first[m][best[m]] # Nil /\ best[m] \in Number
        BY <1>0, <1>1, <3>1, Zenon DEF Below, BlockType
      <4> QED
        BY <1>4, <4>1, Zenon
    <3>4. last'[coinBaseList[m]] = last[coinBaseList[m]] /\ list'[coinBaseList[m]] # <<>>
          /\ list'[coinBaseList[m]][1] = list[coinBaseList[m]][1]
      <4>1. CASE coinBaseList[m] # o
        BY <1>1, <1>2, <1>8, <3>2, <4>1, Zenon
      <4>2. CASE coinBaseList[m] = o
        <5>1. ~(n > last[o])
          BY <2>3, <3>2, <4>2, Zenon
        <5>2. Append(list[o], p) # <<>> /\ Append(list[o], p)[1] = list[o][1]
          BY <1>3, <3>2, <4>2
        <5> QED
          BY <1>2, <3>2, <4>2, <5>1, <5>2, Zenon
      <4> QED
        BY <4>1, <4>2, Zenon
    <3> QED
      BY <2>3, <3>1, <3>2, <3>3, <3>4, Zenon
  <2> QED
    BY <2>1, <2>2, <2>3, Zenon
<1>15. ListBounded'
  <2> SUFFICES ASSUME NEW x \in Info PROVE Len(list'[x]) <= ListCap
    BY Zenon DEF ListBounded
  <2>1. ListCap \in Nat \ {0} /\ Len(list[o]) \in Nat /\ Len(<<p>>) = 1
        /\ Len(Append(list[o], p)) = Len(list[o]) + 1
    BY <1>3, CoinBaseAssumption
  <2>2. Len(list[x]) <= ListCap
    BY <1>0, Zenon DEF ListBounded
  <2>3. CASE x # o
    BY <1>2, <2>2, <2>3, Zenon
  <2>4. CASE x = o
    <3>1. list'[o] = <<p>> \/ list'[o] = list[o]
          \/ (Len(list[o]) < ListCap /\ list'[o] = Append(list[o], p))
      BY <1>2, <2>4, Zenon
    <3>2. 1 <= ListCap /\ (Len(list[o]) < ListCap => Len(list[o]) + 1 <= ListCap)
      BY <2>1
    <3>3. CASE list'[o] = <<p>>
      BY <2>1, <2>4, <3>2, <3>3, Zenon
    <3>4. CASE list'[o] = list[o]
      BY <2>2, <2>4, <3>4, Zenon
    <3>5. CASE Len(list[o]) < ListCap /\ list'[o] = Append(list[o], p)
      BY <2>1, <2>4, <3>2, <3>5, Zenon
    <3> QED
      BY <3>1, <3>3, <3>4, <3>5, Zenon
  <2> QED
    BY <2>3, <2>4, Zenon
<1> QED
  BY <1>13, <1>14, <1>15, Zenon

\* A new object keeps the entry the newest, or the miner counts as lost.
LEMMA CreateKeepsEntry ==
  ASSUME EntryInv, NEW p \in Peer, CreateInfo(p)
  PROVE  Below' /\ EntryIsNewest' /\ ListBounded'
<1> DEFINE o == <<p, count[p]>>
           m == miner[p]
           n == num[p]
<1>0. TypeOK /\ BlockType /\ Owned /\ Fresh /\ Below /\ EntryIsNewest /\ ListBounded
  BY Zenon DEF EntryInv, TypeOK, BlockType
<1>1. /\ o \in Info /\ m \in Miner /\ n \in Number /\ pc[p] = "create" /\ count[p] \in Nat
      /\ pc' = [pc EXCEPT ![p] = "idle"] /\ UNCHANGED <<miner, ptr>>
      /\ coinBaseList' = [coinBaseList EXCEPT ![m] = o]
      /\ Enter(p, o, o)
  BY <1>0, InfoFacts, Zenon DEF CreateInfo, EntryInv, BlockType
<1>2. (\A x \in Miner : coinBaseList[x] # o) /\ (\A q \in Peer : ptr[q] # o)
  BY <1>0, <1>1, Zenon DEF Fresh
<1>3. /\ \A x \in Info : x # o => last'[x] = last[x] /\ list'[x] = list[x]
      /\ last'[o] = n /\ list'[o] = <<p>>
  BY <1>0, <1>1, Zenon DEF CreateInfo, BlockType
<1> HIDE DEF o, m, n
<1>4. /\ n \in Nat /\ n > 0 /\ (\A x \in Miner : best[x] \in Nat)
      /\ \A x \in Info : last[x] \in Nat
  BY <1>0, <1>1, NumberFacts, Zenon
<1>5. /\ best'[m] = (IF n > best[m] THEN n ELSE best[m])
      /\ \A x \in Miner : x # m => best'[x] = best[x] /\ first'[x] = first[x]
                                  /\ (x \in lost' <=> x \in lost)
      /\ lost' = IF n > best[m] THEN lost \ {m} ELSE lost \cup {m}
      /\ first'[m][n] = (IF first[m][n] = Nil THEN p ELSE first[m][n])
  BY <1>0, <1>1, <1>2, EnterFacts DEF m, n
<1>6. \A x \in Miner : /\ \A k \in Number : k > best'[x] => first'[x][k] = Nil
                       /\ best'[x] # 0 => first'[x][best'[x]] # Nil
  BY <1>0, <1>1, EnterKeepsFirst, Zenon
<1>7. /\ coinBaseList'[m] = o
      /\ \A x \in Miner : x # m => coinBaseList'[x] = coinBaseList[x]
      /\ \A x \in Miner : coinBaseList[x] # Nil => coinBaseList[x] \in Info
  BY <1>0, <1>1, Zenon DEF BlockType
<1>8. \A q \in Peer : pc'[q] = "update" =>
        pc[q] = "update" /\ ptr[q] \in Info /\ miner[q] \in Miner
  BY <1>0, <1>1, Zenon DEF Owned, BlockType
<1>9. \A x \in Miner : best'[x] \in Nat /\ best'[x] >= best[x]
  BY <1>4, <1>5
<1>10. last'[o] <= best'[m]
  BY <1>1, <1>3, <1>4, <1>5
<1>11. Below'
  <2>1. \A x \in Miner : coinBaseList'[x] # Nil => last'[coinBaseList'[x]] <= best'[x]
    <3> SUFFICES ASSUME NEW x \in Miner, coinBaseList'[x] # Nil
                 PROVE  last'[coinBaseList'[x]] <= best'[x]
      BY Zenon
    <3>1. CASE x = m
      BY <1>7, <1>10, <3>1, Zenon
    <3>2. CASE x # m
      <4>1. last[coinBaseList[x]] <= best[x] /\ coinBaseList[x] \in Info /\ coinBaseList[x] # o
        BY <1>0, <1>2, <1>7, <3>2, Zenon DEF Below
      <4>2. last'[coinBaseList[x]] = last[coinBaseList[x]] /\ best'[x] = best[x]
        BY <1>3, <1>5, <3>2, <4>1, Zenon
      <4> QED
        BY <1>7, <3>2, <4>1, <4>2, Zenon
    <3> QED
      BY <3>1, <3>2, Zenon
  <2>2. ASSUME NEW q \in Peer, pc'[q] = "update" PROVE last'[ptr[q]] <= best'[miner[q]]
    <3>1. last[ptr[q]] <= best[miner[q]] /\ ptr[q] # o /\ ptr[q] \in Info /\ miner[q] \in Miner
      BY <1>0, <1>2, <1>8, <2>2, Zenon DEF Below
    <3>2. last'[ptr[q]] = last[ptr[q]]
      BY <1>3, <3>1, Zenon
    <3> QED
      BY <1>4, <1>9, <3>1, <3>2
  <2> QED
    BY <1>1, <1>6, <2>1, <2>2, Zenon DEF Below
<1>12. EntryIsNewest'
  <2> SUFFICES ASSUME NEW x \in Miner, x \notin lost'
               PROVE  IF coinBaseList'[x] = Nil THEN best'[x] = 0
                      ELSE /\ last'[coinBaseList'[x]] = best'[x]
                           /\ list'[coinBaseList'[x]] # <<>>
                           /\ list'[coinBaseList'[x]][1] = first'[x][best'[x]]
    BY Zenon DEF EntryIsNewest
  <2>1. CASE x # m
    <3>1. x \notin lost /\ best'[x] = best[x] /\ first'[x] = first[x]
          /\ coinBaseList'[x] = coinBaseList[x]
      BY <1>5, <1>7, <2>1, Zenon
    <3>2. coinBaseList[x] # Nil => /\ last'[coinBaseList[x]] = last[coinBaseList[x]]
                                  /\ list'[coinBaseList[x]] = list[coinBaseList[x]]
      BY <1>2, <1>3, <1>7, Zenon
    <3> QED
      BY <1>0, <3>1, <3>2 DEF EntryIsNewest
  <2>2. CASE x = m
    <3>1. n > best[m] /\ best'[m] = n
      BY <1>5, <2>2, Zenon
    <3>2. first[m][n] = Nil
      BY <1>0, <1>1, <3>1, Zenon DEF Below
    <3>3. first'[m][n] = p /\ o # Nil
      BY <1>1, <1>5, <3>2, InfoFacts, Zenon
    <3> QED
      BY <1>3, <1>7, <2>2, <3>1, <3>3
  <2> QED
    BY <2>1, <2>2, Zenon
<1>13. ListBounded'
  <2> SUFFICES ASSUME NEW x \in Info PROVE Len(list'[x]) <= ListCap
    BY Zenon DEF ListBounded
  <2>1. Len(<<p>>) <= ListCap
    BY CoinBaseAssumption
  <2> QED
    BY <1>0, <1>3, <2>1, Zenon DEF ListBounded
<1> QED
  BY <1>11, <1>12, <1>13, Zenon

\* One step keeps everything.
LEMMA NextEntry == EntryInv /\ [Next]_vars => EntryInv'
<1> SUFFICES ASSUME EntryInv, [Next]_vars PROVE EntryInv'
  BY Zenon
<1>0. TypeOK /\ BlockType /\ Counted /\ Fresh /\ Owned /\ Below /\ EntryIsNewest /\ ListBounded
  BY Zenon DEF EntryInv, TypeOK, BlockType
<1>1. BlockType' /\ CallType'
  BY <1>0, NextBlockType, NextCallType, Zenon
<1>2. TypeOK'
  BY <1>1, Zenon DEF BlockType, CallType, TypeOK
<1>3. Counted' /\ Fresh' /\ Owned'
  BY <1>0, NextFresh, NextOwned, Zenon
<1>4. Below' /\ EntryIsNewest' /\ ListBounded'
  <2>1. CASE BlockQuiet
    BY <1>0, <2>1, Zenon DEF BlockQuiet, blockVars, listVars, histVars, Below, EntryIsNewest,
       ListBounded
  <2>2. ASSUME NEW p \in Peer, BlockProcess(p) \/ GetInfo(p)
        PROVE  Below' /\ EntryIsNewest' /\ ListBounded'
    <3>1. UNCHANGED <<coinBaseList, last, list, best, first, lost>>
      BY <2>2, Zenon DEF BlockProcess, GetInfo, listVars, histVars
    <3>2. EntryIsNewest' /\ ListBounded'
      BY <1>0, <3>1, Zenon DEF EntryIsNewest, ListBounded
    <3>3. \A q \in Peer : q # p => pc'[q] = pc[q] /\ ptr'[q] = ptr[q] /\ miner'[q] = miner[q]
      BY <1>0, <2>2, Zenon DEF BlockProcess, GetInfo, BlockType
    <3>4. pc'[p] = "update" => /\ ptr'[p] = coinBaseList[miner[p]] /\ miner'[p] = miner[p]
                              /\ coinBaseList[miner[p]] # Nil /\ miner[p] \in Miner
      BY <1>0, <2>2, Zenon DEF BlockProcess, GetInfo, BlockType
    <3>5. \A q \in Peer : pc'[q] = "update" => last[ptr'[q]] <= best[miner'[q]]
      BY <1>0, <3>3, <3>4, Zenon DEF Below
    <3>6. Below'
      BY <1>0, <3>1, <3>5, Zenon DEF Below
    <3> QED
      BY <3>2, <3>6, Zenon
  <2> QED
    BY <2>1, <2>2, UpdateKeepsEntry, CreateKeepsEntry, Frames, Zenon DEF Next, vars,
       BlockQuiet, BlockStep, PeerStep, CallStep
<1> QED
  BY <1>2, <1>3, <1>4, Zenon DEF EntryInv

\* The node starts without entries.
LEMMA InitEntry == Init => EntryInv
<1> SUFFICES ASSUME Init PROVE EntryInv
  BY Zenon
<1>1. (CHOOSE m \in Miner : TRUE) \in Miner /\ (CHOOSE n \in Number : TRUE) \in Number
  BY CoinBaseAssumption, Zenon
<1>2. TypeOK
  <2>1. BlockType
    BY <1>1 DEF Init, BlockType
  <2>2. CallType
    BY Zenon DEF Init, CallType, PeerSetLock!Init
  <2> QED
    BY <2>1, <2>2, Zenon DEF BlockType, CallType, TypeOK
<1>3. Counted
  BY CoinBaseAssumption DEF Init, Counted
<1>4. Fresh
  BY Zenon DEF Init, Fresh, Nil
<1>5. Owned
  BY Zenon DEF Init, Owned
<1>6. Below
  BY Zenon DEF Init, Below
<1>7. EntryIsNewest
  BY Zenon DEF Init, EntryIsNewest
<1>8. ListBounded
  BY CoinBaseAssumption DEF Init, ListBounded
<1> QED
  BY <1>2, <1>3, <1>4, <1>5, <1>6, <1>7, <1>8, Zenon DEF EntryInv

\* The inductive invariant of BlockProcess.
LEMMA EntryInvariant == Spec => []EntryInv
BY InitEntry, NextEntry, PTL DEF Spec

\* Deliveries, calls and peers keep their variables to their types.
THEOREM TypeCorrect == Spec => []TypeOK
<1>1. EntryInv => TypeOK
  BY Zenon DEF EntryInv
<1> QED
  BY <1>1, EntryInvariant, PTL

\* No PeerIdList outgrows its 60 entries.
THEOREM ListsBounded == Spec => []ListBounded
<1>1. EntryInv => ListBounded
  BY Zenon DEF EntryInv
<1> QED
  BY <1>1, EntryInvariant, PTL

\* The entry of a miner holds its newest block and starts with the peer that
\* delivered it first, unless the unlocked creation of an entry lost an update.
THEOREM NewestEntry == Spec => []EntryIsNewest
<1>1. EntryInv => EntryIsNewest
  BY Zenon DEF EntryInv
<1> QED
  BY <1>1, EntryInvariant, PTL

-----------------------------------------------------------------------------
(* HandSendTx.  Whoever sends last sends to the peer visited last, since    *)
(* the variable of the loop moves only together with a new goroutine.      *)

Served(r) ==
  /\ rpc[r] \in {"new", "find", "lock", "peers", "all"} => peer[r] = Nil /\ spawned[r] = 0
  /\ spawned[r] > 0 => peer[r] # Nil
  /\ rpc[r] \in {"new", "all", "loop"} \/ peer[r] # Nil => target[r] \in Seq(Peer \cup {Nil})
  /\ peer[r] # Nil /\ spawned[r] = 0 => \E i \in DOMAIN target[r] : target[r][i] = peer[r]

ServedInv == target = [r \in Request |-> target[r]] /\ \A r \in Request : Served(r)

\* One call's step keeps what its goroutines owe.
LEMMA CallKeepsServed ==
  ASSUME TypeOK, ServedInv, NEW r \in Request,
         HandSendTx(r) \/ HandSendTxToCoinBase(r) \/ RequestStep(r)
  PROVE  ServedInv'
<1>0. /\ CallType /\ Served(r) /\ DOMAIN target = Request
      /\ target = [x \in Request |-> target[x]]
  BY Zenon DEF TypeOK, CallType, ServedInv
<1>1. ASSUME Served(r)',
             target' = target \/ \E t : target' = [target EXCEPT ![r] = t],
             \A x \in Request : x # r => rpc'[x] = rpc[x] /\ peer'[x] = peer[x]
                                         /\ spawned'[x] = spawned[x]
      PROVE  ServedInv'
  <2>1. target' = [x \in Request |-> target'[x]] /\ \A x \in Request : x # r => target'[x] = target[x]
    BY <1>0, <1>1, Zenon
  <2>2. ASSUME NEW x \in Request, x # r PROVE Served(x)'
    BY <1>1, <2>1, <2>2 DEF ServedInv, Served
  <2> QED
    BY <1>1, <2>1, <2>2, Zenon DEF ServedInv
<1>2. CASE HandSendTx(r) \/ HandSendTxToCoinBase(r) \/ FindCoinBase(r) \/ LockList(r) \/ AllPeers(r)
  <2>1. /\ UNCHANGED <<peer, spawned, target>>
        /\ \E s \in {"find", "lock", "peers", "all", "done", "loop"} : rpc' = [rpc EXCEPT ![r] = s]
        /\ rpc[r] \in {"new", "find", "lock", "all"}
        /\ rpc'[r] \in {"all", "loop"} => rpc[r] \in {"new", "all"}
    BY <1>0, <1>2, Zenon DEF HandSendTx, HandSendTxToCoinBase, FindCoinBase, LockList,
       AllPeers, loopVars,
       CallType
  <2>2. Served(r)'
    BY <1>0, <2>1, Zenon DEF Served, CallType
  <2>3. \A x \in Request : x # r => rpc'[x] = rpc[x]
    BY <1>0, <2>1, Zenon DEF CallType
  <2> QED
    BY <1>1, <2>1, <2>2, <2>3, Zenon
<1>3. CASE SendToSelected(r)
  <2>1. /\ UNCHANGED <<peer, spawned>> /\ rpc' = [rpc EXCEPT ![r] = "done"] /\ rpc[r] = "peers"
        /\ \E t : target' = [target EXCEPT ![r] = t]
    BY <1>3, Zenon DEF SendToSelected, loopVars
  <2>2. Served(r)'
    BY <1>0, <2>1, Zenon DEF Served, CallType
  <2>3. \A x \in Request : x # r => rpc'[x] = rpc[x]
    BY <1>0, <2>1, Zenon DEF CallType
  <2> QED
    BY <1>1, <2>1, <2>2, <2>3, Zenon
<1>4. CASE NextPeer(r) /\ left[r] = {}
  <2>1. UNCHANGED <<peer, spawned, target>> /\ rpc' = [rpc EXCEPT ![r] = "done"] /\ rpc[r] = "loop"
    BY <1>4, Zenon DEF NextPeer, loopVars
  <2>2. Served(r)'
    BY <1>0, <2>1, Zenon DEF Served, CallType
  <2>3. \A x \in Request : x # r => rpc'[x] = rpc[x]
    BY <1>0, <2>1, Zenon DEF CallType
  <2> QED
    BY <1>1, <2>1, <2>2, <2>3, Zenon
<1>5. CASE NextPeer(r) /\ left[r] # {}
  <2>1. /\ UNCHANGED <<rpc, target>> /\ rpc[r] = "loop" /\ spawned' = [spawned EXCEPT ![r] = @ + 1]
        /\ \E p \in left[r] : peer' = [peer EXCEPT ![r] = p]
    BY <1>5, Zenon DEF NextPeer
  <2>2. peer'[r] # Nil /\ spawned'[r] # 0
    BY <1>0, <2>1, CoinBaseAssumption DEF CallType, Nil
  <2>3. Served(r)'
    BY <1>0, <2>1, <2>2, Zenon DEF Served
  <2>4. \A x \in Request : x # r => peer'[x] = peer[x] /\ spawned'[x] = spawned[x]
    BY <1>0, <2>1, Zenon DEF CallType
  <2> QED
    BY <1>1, <2>1, <2>3, <2>4, Zenon
<1>6. CASE SendTransactions(r)
  <2>1. /\ UNCHANGED <<rpc, peer>> /\ spawned[r] > 0
        /\ target' = [target EXCEPT ![r] = Append(target[r], peer[r])]
        /\ spawned' = [spawned EXCEPT ![r] = @ - 1]
    BY <1>6, Zenon DEF SendTransactions
  <2>2. /\ target[r] \in Seq(Peer \cup {Nil}) /\ peer[r] \in Peer \cup {Nil} /\ peer[r] # Nil
        /\ spawned[r] \in Nat /\ rpc[r] \in {"loop", "done"}
    BY <1>0, <2>1, Zenon DEF Served, CallType
  <2>3. target'[r] = Append(target[r], peer[r])
    BY <1>0, <2>1, Zenon
  <2>4. /\ target'[r] \in Seq(Peer \cup {Nil}) /\ Len(target[r]) + 1 \in DOMAIN target'[r]
        /\ target'[r][Len(target[r]) + 1] = peer[r]
    BY <2>2, <2>3
  <2>5. Served(r)'
    BY <2>1, <2>2, <2>4, Zenon DEF Served
  <2>6. \A x \in Request : x # r => spawned'[x] = spawned[x]
    BY <1>0, <2>1, Zenon DEF CallType
  <2> QED
    BY <1>1, <2>1, <2>5, <2>6, Zenon
<1> QED
  BY <1>2, <1>3, <1>4, <1>5, <1>6, Zenon DEF RequestStep

\* Once the goroutines of a HandSendTx have run, the peer it visited last has the
\* transactions.
THEOREM LastServed == Spec => []LastPeerServed
<1>1. Init => ServedInv
  <2> SUFFICES ASSUME Init PROVE ServedInv
    BY Zenon
  <2>1. <<>> \in Seq(Peer \cup {Nil})
    OBVIOUS
  <2> QED
    BY <2>1 DEF Init, ServedInv, Served
<1>2. TypeOK /\ ServedInv /\ [Next]_vars => ServedInv'
  <2> SUFFICES ASSUME TypeOK, ServedInv, [Next]_vars PROVE ServedInv'
    BY Zenon
  <2>1. CASE UNCHANGED rpcVars
    BY <2>1, Zenon DEF rpcVars, loopVars, ServedInv, Served
  <2>2. CASE CallStep
    BY <2>2, CallKeepsServed, Zenon DEF CallStep
  <2> QED
    BY <2>1, <2>2, Frames, Zenon DEF Next, vars, PeerStep, CallStep
<1>3. ServedInv => LastPeerServed
  BY Zenon DEF ServedInv, Served, LastPeerServed
<1> QED
  BY <1>1, <1>2, <1>3, TypeCorrect, PTL DEF Spec

==============================================================================
