--------------------------- MODULE PeerSet_proofs ---------------------------
(* Proofs about PeerSet, for any set of node IDs and any bounds.            *)
EXTENDS PeerSet, FiniteSetTheorems, TLAPS

-----------------------------------------------------------------------------
(* Type correctness.                                                       *)

\* The steps of the p2p server loop keep the types.
LEMMA ServerTypes ==
  ASSUME TypeOK, NEW id \in ID, Connect(id) \/ Disconnect(id) \/ DropPeer(id)
  PROVE  TypeOK'
<1> USE PeerSetAssumption DEF TypeOK, Ext, EthStates, ExtStates
<1>1. CASE Connect(id)
  <2> USE <1>1 DEF Connect, setVars, NoExt
  <2>1. PICK c \in CapSets[id] :
          /\ caps' = [caps EXCEPT ![id] = c]
          /\ eth' = [eth EXCEPT ![id] = IF "eth" \in c THEN "wait" ELSE "ret"]
          /\ ext' = [ext EXCEPT ![id] =
                       [e \in Ext |-> IF e \in c THEN "start" ELSE "ret"]]
    BY Zenon
  <2>2. c \in SUBSET Protocols
    BY Zenon
  <2>3. caps' \in [ID -> SUBSET Protocols]
    BY <2>1, <2>2, Zenon
  <2>4. eth' \in [ID -> EthStates]
    BY <2>1, Zenon
  <2>5. [e \in Ext |-> IF e \in c THEN "start" ELSE "ret"] \in [Ext -> ExtStates]
    BY Zenon
  <2>6. ext' \in [ID -> [Ext -> ExtStates]]
    BY <2>1, <2>5, Zenon
  <2>7. sess' \in [ID -> Nat]
    OBVIOUS
  <2> QED
    BY <2>3, <2>4, <2>6, <2>7, Zenon
<1>2. CASE Disconnect(id)
  BY <1>2, Zenon DEF Disconnect, connVars, setVars
<1>3. CASE DropPeer(id)
  BY <1>3, Zenon DEF DropPeer, setVars
<1> QED
  BY <1>1, <1>2, <1>3, Zenon

\* Leaving runEthPeer keeps the types of what it changes.
LEMMA EthReturnsTypes ==
  ASSUME TypeOK, NEW id \in ID, EthReturns(id)
  PROVE  /\ eth' \in [ID -> EthStates] /\ closing' \in [ID -> BOOLEAN]
         /\ at' \in [ID -> Ext] /\ got' \in [ID -> [Ext -> Nat]]
BY Zenon DEF EthReturns, TypeOK, EthStates

\* Collecting an extension keeps the types of what it changes.
LEMMA CollectTypes ==
  ASSUME TypeOK, NEW id \in ID, NEW x \in Nat, Collect(id, x)
  PROVE  /\ eth' \in [ID -> EthStates] /\ closing' \in [ID -> BOOLEAN]
         /\ at' \in [ID -> Ext] /\ got' \in [ID -> [Ext -> Nat]]
<1> USE DEF Collect, TypeOK, EthStates, Ext, After
<1>1. got' \in [ID -> [Ext -> Nat]]
  BY Zenon
<1>2. eth' \in [ID -> EthStates] /\ at' \in [ID -> Ext]
  BY Zenon
<1> QED
  BY <1>1, <1>2, Zenon

\* The steps of the eth goroutine keep the types.
LEMMA EthTypes ==
  ASSUME TypeOK, NEW id \in ID, EthStep(id)
  PROVE  TypeOK'
<1> USE PeerSetAssumption DEF connVars, setVars
<1>1. CASE WaitExtension(id)
  <2> DEFINE e == at[id]
  <2>0. e \in Ext /\ pend[e][id] \in Nat /\ 0 \in Nat
    BY Zenon DEF TypeOK
  <2>1. CASE Collect(id, 0) /\ UNCHANGED setVars
    BY <1>1, <2>0, <2>1, CollectTypes, Zenon DEF WaitExtension, TypeOK
  <2>2. CASE EthReturns(id) /\ UNCHANGED setVars
    BY <1>1, <2>2, EthReturnsTypes, Zenon DEF WaitExtension, TypeOK
  <2>3. CASE /\ pend' = [pend EXCEPT ![e][id] = 0]
             /\ Collect(id, pend[e][id])
             /\ UNCHANGED <<peers, snapPeers, wait, closed>>
    <3>1. pend' \in [Ext -> [ID -> Nat]]
      BY <2>0, <2>3, Zenon DEF TypeOK
    <3> QED
      BY <1>1, <2>0, <2>3, <3>1, CollectTypes, Zenon DEF WaitExtension, TypeOK
  <2>4. CASE /\ wait' = [wait EXCEPT ![e] = @ \cup {id}]
             /\ eth' = [eth EXCEPT ![id] = "select"]
             /\ UNCHANGED <<at, got, closing, peers, snapPeers, pend, closed>>
    <3>1. wait' \in [Ext -> SUBSET ID]
      BY <2>0, <2>4, Zenon DEF TypeOK
    <3>2. eth' \in [ID -> EthStates]
      BY <2>4, Zenon DEF TypeOK, EthStates
    <3> QED
      BY <1>1, <2>4, <3>1, <3>2, Zenon DEF WaitExtension, TypeOK
  <2> QED
    BY <1>1, <2>1, <2>2, <2>3, <2>4, Zenon DEF WaitExtension
<1>2. CASE WaitTimeout(id)
  BY <1>2, Zenon DEF WaitTimeout, TypeOK, EthStates
<1>3. CASE WaitTimedOut(id)
  <2>1. wait' \in [Ext -> SUBSET ID]
    BY <1>3, Zenon DEF WaitTimedOut, TypeOK
  <2> QED
    BY <1>3, <2>1, EthReturnsTypes, Zenon DEF WaitTimedOut, TypeOK
<1>4. CASE Handshake(id)
  <2>1. CASE EthReturns(id)
    BY <1>4, <2>1, EthReturnsTypes, Zenon DEF Handshake, TypeOK
  <2>2. CASE ~EthReturns(id)
    BY <1>4, <2>2, Zenon DEF Handshake, TypeOK, EthStates
  <2> QED
    BY <2>1, <2>2, Zenon
<1>5. CASE SlotsLen(id)
  <2>1. Cardinality(Registered) \in Nat
    BY FS_CardinalityType, FS_Subset, Zenon DEF Registered
  <2>2. seenLen' \in [ID -> Nat]
    <3>1. seenLen \in [ID -> Nat]
      BY Zenon DEF TypeOK
    <3> HIDE PeerSetAssumption
    <3> QED
      BY <1>5, <2>1, <3>1, Zenon DEF SlotsLen
  <2>3. eth' \in [ID -> EthStates]
    BY <1>5, Zenon DEF SlotsLen, TypeOK, EthStates
  <2> QED
    BY <1>5, <2>2, <2>3, Zenon DEF SlotsLen, TypeOK
<1>6. CASE SlotsSnapLen(id)
  <2>1. CASE EthReturns(id)
    BY <1>6, <2>1, EthReturnsTypes, Zenon DEF SlotsSnapLen, TypeOK
  <2>2. CASE ~EthReturns(id)
    BY <1>6, <2>2, Zenon DEF SlotsSnapLen, TypeOK, EthStates
  <2> QED
    BY <2>1, <2>2, Zenon
<1>7. CASE MaxPeersCheck(id)
  <2>1. CASE EthReturns(id)
    BY <1>7, <2>1, EthReturnsTypes, Zenon DEF MaxPeersCheck, TypeOK
  <2>2. CASE ~EthReturns(id)
    BY <1>7, <2>2, Zenon DEF MaxPeersCheck, TypeOK, EthStates
  <2> QED
    BY <2>1, <2>2, Zenon
<1>8. CASE RegisterPeer(id)
  <2>1. CASE EthReturns(id) /\ UNCHANGED <<peers, snapPeers>>
    BY <1>8, <2>1, EthReturnsTypes, Zenon DEF RegisterPeer, TypeOK
  <2>2. CASE /\ peers' = [peers EXCEPT ![id] = [sess |-> sess[id], ext |-> got[id]]]
             /\ snapPeers' = IF got[id]["snap"] # 0 THEN snapPeers + 1 ELSE snapPeers
             /\ eth' = [eth EXCEPT ![id] = "handler"]
             /\ UNCHANGED <<at, got, closing>>
    BY <1>8, <2>2 DEF RegisterPeer, TypeOK, EthStates
  <2> QED
    BY <1>8, <2>1, <2>2, Zenon DEF RegisterPeer
<1>9. CASE HandlerReturns(id)
  BY <1>9, Zenon DEF HandlerReturns, TypeOK, EthStates
<1>10. CASE UnregisterPeer(id)
  <2>1. NoPeer \in [sess : Nat, ext : [Ext -> Nat]]
    BY Zenon DEF NoPeer, NoExt
  <2>2. peers' \in [ID -> [sess : Nat, ext : [Ext -> Nat]]]
    BY <1>10, <2>1, Zenon DEF UnregisterPeer, TypeOK
  <2>3. snapPeers' \in Int
    BY <1>10 DEF UnregisterPeer, TypeOK
  <2> QED
    BY <1>10, <2>2, <2>3, EthReturnsTypes, Zenon DEF UnregisterPeer, TypeOK
<1> QED
  BY <1>1, <1>2, <1>3, <1>4, <1>5, <1>6, <1>7, <1>8, <1>9, <1>10, Zenon DEF EthStep

\* The steps of an extension goroutine keep the types.
LEMMA ExtTypes ==
  ASSUME TypeOK, NEW id \in ID, NEW e \in Ext,
         ExtStep(id, e) \/ DiffHandshakeFails(id)
  PROVE  TypeOK'
<1> USE PeerSetAssumption DEF connVars, setVars
<1>1. ASSUME NEW s \in ExtStates, NEW f \in Ext, ext' = [ext EXCEPT ![id][f] = s]
      PROVE  ext' \in [ID -> [Ext -> ExtStates]]
  BY <1>1, Zenon DEF TypeOK
<1>2. ASSUME NEW f \in Ext, ExtReturns(id, f)
      PROVE  /\ ext' \in [ID -> [Ext -> ExtStates]]
             /\ closing' \in [ID -> BOOLEAN]
  BY <1>2, <1>1, Zenon DEF ExtReturns, TypeOK, ExtStates
<1>3. {"run", "sending", "sendfail", "ret"} \subseteq ExtStates /\ "diff" \in Ext
  BY Zenon DEF ExtStates, Ext
<1>4. CASE RegisterExtension(id, e)
  <2> USE <1>4 DEF RegisterExtension
  <2>1. CASE ExtReturns(id, e) /\ UNCHANGED setVars
    BY <2>1, <1>2, Zenon DEF TypeOK
  <2>2. CASE /\ ext' = [ext EXCEPT ![id][e] = "run"]
             /\ UNCHANGED <<closing, setVars>>
    BY <2>2, <1>1, <1>3, Zenon DEF TypeOK
  <2>3. CASE /\ wait' = [wait EXCEPT ![e] = @ \ {id}]
             /\ ext' = [ext EXCEPT ![id][e] = "sending"]
             /\ UNCHANGED <<closing, peers, snapPeers, pend, closed>>
    <3>1. wait' \in [Ext -> SUBSET ID]
      BY <2>3, Zenon DEF TypeOK
    <3> QED
      BY <2>3, <3>1, <1>1, <1>3, Zenon DEF TypeOK
  <2>4. CASE /\ pend' = [pend EXCEPT ![e][id] = sess[id]]
             /\ ext' = [ext EXCEPT ![id][e] = "run"]
             /\ UNCHANGED <<closing, peers, snapPeers, wait, closed>>
    <3>1. pend' \in [Ext -> [ID -> Nat]]
      BY <2>4, Zenon DEF TypeOK
    <3> QED
      BY <2>4, <3>1, <1>1, <1>3, Zenon DEF TypeOK
  <2> QED
    BY <2>1, <2>2, <2>3, <2>4, Zenon
<1>5. CASE HandOver(id, e)
  <2>0. sess[id] \in Nat
    BY Zenon DEF TypeOK
  <2>1. CASE ext[id][e] = "sending"
    BY <1>1, <1>3, <1>5, <2>0, <2>1, CollectTypes, Zenon DEF HandOver, TypeOK
  <2>2. CASE ext[id][e] # "sending"
    <3>0. got' = [got EXCEPT ![id][e] = sess[id]]
      BY <1>5, <2>2, Zenon DEF HandOver
    <3>1. got' \in [ID -> [Ext -> Nat]]
      BY <3>0, <2>0, Zenon DEF TypeOK
    <3>2. eth' \in [ID -> EthStates] /\ closing' \in [ID -> BOOLEAN]
      BY <1>5, <2>2, Zenon DEF HandOver, TypeOK, EthStates
    <3>3. at' \in [ID -> Ext]
      BY <1>5, <2>2, Zenon DEF HandOver, TypeOK, After, Ext
    <3> QED
      BY <1>1, <1>3, <1>5, <2>2, <3>1, <3>2, <3>3, Zenon DEF HandOver, TypeOK
  <2> QED
    BY <2>1, <2>2, Zenon
<1>6. CASE ExtHandlerReturns(id, e)
  BY <1>2, <1>6, Zenon DEF ExtHandlerReturns, TypeOK
<1>7. CASE DiffHandshakeFails(id)
  <2>1. CASE id \in wait["diff"]
    <3>1. wait' \in [Ext -> SUBSET ID]
      BY <1>7, <2>1 DEF DiffHandshakeFails, TypeOK, Ext
    <3> QED
      BY <1>1, <1>3, <1>7, <2>1, <3>1, Zenon DEF DiffHandshakeFails, TypeOK
  <2>2. CASE id \notin wait["diff"]
    BY <1>2, <1>3, <1>7, <2>2, Zenon DEF DiffHandshakeFails, TypeOK
  <2> QED
    BY <2>1, <2>2, Zenon
<1> QED
  BY <1>4, <1>5, <1>6, <1>7, Zenon DEF ExtStep

\* Every step keeps the types.
LEMMA NextTypes == TypeOK /\ [Next]_vars => TypeOK'
<1> SUFFICES ASSUME TypeOK, [Next]_vars PROVE TypeOK'
  BY Zenon
<1>1. CASE Close
  BY <1>1, Zenon DEF Close, TypeOK, connVars
<1>2. CASE UNCHANGED vars
  BY <1>2, Zenon DEF vars, TypeOK, connVars, setVars
<1>3. ASSUME NEW id \in ID, DiffHandshakeFails(id)
      PROVE  TypeOK'
  BY <1>3, ExtTypes, Zenon DEF Ext
<1> QED
  BY <1>1, <1>2, <1>3, ServerTypes, EthTypes, ExtTypes, Zenon DEF Next

\* The peer set and its goroutines stay within their types, whatever the
\* number of nodes, connections and limits.
THEOREM TypeCorrect == Spec => []TypeOK
<1>1. Init => TypeOK
  <2> SUFFICES ASSUME Init PROVE TypeOK
    BY Zenon
  <2>1. NoExt \in [Ext -> Nat] /\ "snap" \in Ext
    BY PeerSetAssumption, Zenon DEF NoExt, Ext
  <2>2. /\ got \in [ID -> [Ext -> Nat]]
        /\ peers \in [ID -> [sess : Nat, ext : [Ext -> Nat]]]
    BY <2>1, PeerSetAssumption, Zenon DEF Init, NoPeer
  <2>3. /\ ext \in [ID -> [Ext -> ExtStates]]
        /\ eth \in [ID -> EthStates]
    BY Zenon DEF Init, EthStates, ExtStates
  <2>4. /\ wait \in [Ext -> SUBSET ID]
        /\ pend \in [Ext -> [ID -> Nat]]
        /\ sess \in [ID -> Nat]
    BY PeerSetAssumption, Zenon DEF Init
  <2>5. /\ up \in [ID -> BOOLEAN] /\ closing \in [ID -> BOOLEAN]
        /\ closed \in BOOLEAN
    BY Zenon DEF Init
  <2>6. caps \in [ID -> SUBSET Protocols] /\ at \in [ID -> Ext]
    BY <2>1, Zenon DEF Init
  <2>7. seenLen \in [ID -> Nat] /\ snapPeers \in Int
    BY DEF Init
  <2> QED
    BY <2>2, <2>3, <2>4, <2>5, <2>6, <2>7, Zenon DEF TypeOK
<1> QED
  BY <1>1, NextTypes, PTL DEF Spec
-----------------------------------------------------------------------------
(* The inductive invariant.  SnapPeersCounted, EntryOwnedByConnection,     *)
(* WaitEntryHasWaiter and OneSenderWithPartner are not inductive alone:    *)
(* what an entry or a lock holder may assume of its goroutine rests on     *)
(* goroutines running only inside a live, numbered connection, and on each *)
(* other.                                                                  *)

\* A goroutine that has not returned belongs to a live connection, and a live
\* connection has a number.
GoroutinesAlive ==
  \A id \in ID :
    /\ eth[id] # "ret" => up[id]
    /\ \A e \in Ext : ext[id][e] # "ret" => up[id]
    /\ up[id] => sess[id] # 0

\* The inductive invariant: the three link properties and what they rest on.
LinkInv ==
  /\ GoroutinesAlive
  /\ EntryOwnedByConnection
  /\ WaitEntryHasWaiter
  /\ OneSenderWithPartner

\* The p2p server loop keeps LinkInv.
LEMMA ServerLink ==
  ASSUME TypeOK, LinkInv, NEW id \in ID,
         Connect(id) \/ Disconnect(id) \/ DropPeer(id)
  PROVE  LinkInv'
<1> USE DEF LinkInv
<1>1. CASE Connect(id)
  <2>1. PICK c \in CapSets[id] :
          /\ eth' = [eth EXCEPT ![id] = IF "eth" \in c THEN "wait" ELSE "ret"]
          /\ ext' = [ext EXCEPT ![id] =
                       [e \in Ext |-> IF e \in c THEN "start" ELSE "ret"]]
    BY <1>1, Zenon DEF Connect
  <2>2. /\ ~up[id] /\ eth[id] = "ret"
        /\ \A e \in Ext : ext[id][e] = "ret" /\ id \notin wait[e]
        /\ peers[id] = NoPeer
    BY <1>1, Zenon DEF Connect, GoroutinesAlive, EntryOwnedByConnection, WaitEntryHasWaiter
  <2>0. /\ up \in [ID -> BOOLEAN] /\ sess \in [ID -> Nat] /\ eth \in [ID -> EthStates]
        /\ ext \in [ID -> [Ext -> ExtStates]]
    BY Zenon DEF TypeOK
  <2>3. GoroutinesAlive'
    <3> SUFFICES ASSUME NEW j \in ID
                 PROVE  /\ eth'[j] # "ret" => up'[j]
                        /\ \A e \in Ext : ext'[j][e] # "ret" => up'[j]
                        /\ up'[j] => sess'[j] # 0
      BY Zenon DEF GoroutinesAlive
    <3>1. CASE j = id
      <4>1. up'[j] = TRUE /\ sess'[j] = sess[j] + 1 /\ sess[j] \in Nat
        BY <1>1, <2>0, <3>1, Zenon DEF Connect
      <4> QED
        BY <4>1
    <3>2. CASE j # id
      <4>1. up'[j] = up[j] /\ sess'[j] = sess[j] /\ eth'[j] = eth[j] /\ ext'[j] = ext[j]
        BY <1>1, <2>0, <2>1, <3>2, Zenon DEF Connect
      <4> QED
        BY <4>1, Zenon DEF GoroutinesAlive
    <3> QED
      BY <3>1, <3>2, Zenon
  <2>4. EntryOwnedByConnection'
    BY <1>1, <2>1, <2>2, Zenon DEF Connect, EntryOwnedByConnection, TypeOK, setVars
  <2>5. WaitEntryHasWaiter'
    BY <1>1, <2>1, <2>2, Zenon DEF Connect, WaitEntryHasWaiter, TypeOK, setVars
  <2>6. \A j \in ID, f \in Ext :
          ext'[j][f] \in Sending => j # id /\ ext[j][f] \in Sending
    BY <2>1, Zenon DEF TypeOK, Sending
  <2>7. OneSenderWithPartner'
    <3>1. \A j \in ID : j # id => eth'[j] = eth[j] /\ at'[j] = at[j]
      BY <1>1, <2>0, <2>1, Zenon DEF Connect, TypeOK
    <3>2. wait' = wait
      BY <1>1, Zenon DEF Connect, setVars
    <3> SUFFICES ASSUME NEW j \in ID, NEW f \in Ext, ext'[j][f] \in Sending
                 PROVE  /\ eth'[j] \in {"select", "timeout"} /\ at'[j] = f /\ j \notin wait'[f]
                        /\ \A k \in ID, g \in Ext : ext'[k][g] \in Sending => <<k, g>> = <<j, f>>
      BY Zenon DEF OneSenderWithPartner
    <3>3. j # id /\ ext[j][f] \in Sending
      BY <2>6, Zenon
    <3>4. /\ eth[j] \in {"select", "timeout"} /\ at[j] = f /\ j \notin wait[f]
          /\ \A k \in ID, g \in Ext : ext[k][g] \in Sending => <<k, g>> = <<j, f>>
      BY <3>3, Zenon DEF OneSenderWithPartner
    <3> QED
      BY <2>6, <3>1, <3>2, <3>3, <3>4, Zenon
  <2> QED
    BY <2>3, <2>4, <2>5, <2>7, Zenon
<1>2. CASE Disconnect(id)
  <2>1. UNCHANGED <<up, sess, eth, at, got, ext, peers, wait>>
    BY <1>2, Zenon DEF Disconnect, connVars, setVars
  <2>2. GoroutinesAlive' /\ EntryOwnedByConnection'
    BY <2>1, Zenon DEF GoroutinesAlive, EntryOwnedByConnection
  <2>3. WaitEntryHasWaiter'
    BY <2>1, Zenon DEF WaitEntryHasWaiter
  <2>4. OneSenderWithPartner'
    BY <2>1, Zenon DEF OneSenderWithPartner
  <2> QED
    BY <2>2, <2>3, <2>4, Zenon
<1>3. CASE DropPeer(id)
  BY <1>3 DEF DropPeer, setVars, GoroutinesAlive, EntryOwnedByConnection,
       WaitEntryHasWaiter, OneSenderWithPartner, TypeOK
<1> QED
  BY <1>1, <1>2, <1>3, Zenon
\* A step of the eth goroutine of id between states outside the extension wait
\* and outside the registered section keeps LinkInv.
LEMMA EthMoveLink ==
  ASSUME TypeOK, LinkInv, NEW id \in ID, NEW s,
         eth[id] \notin {"select", "timeout", "handler", "unregister", "ret"},
         s \notin {"select", "timeout", "handler", "unregister"},
         eth' = [eth EXCEPT ![id] = s],
         \A j \in ID \ {id} : at'[j] = at[j] /\ got'[j] = got[j],
         UNCHANGED <<up, sess, ext, peers, wait>>
  PROVE  LinkInv'
<1> USE DEF LinkInv
<1>1. GoroutinesAlive'
  BY Zenon DEF GoroutinesAlive, TypeOK
<1>2. EntryOwnedByConnection'
  BY Zenon DEF EntryOwnedByConnection, TypeOK
<1>3. WaitEntryHasWaiter'
  BY DEF WaitEntryHasWaiter, TypeOK
<1>4. OneSenderWithPartner'
  BY DEF OneSenderWithPartner, TypeOK
<1> QED
  BY <1>1, <1>2, <1>3, <1>4, Zenon

\* EthReturns and Collect outside the extension select and the registered
\* section are such moves.
LEMMA EthLeaveLink ==
  ASSUME TypeOK, LinkInv, NEW id \in ID, NEW x,
         eth[id] \notin {"select", "timeout", "handler", "unregister", "ret"},
         EthReturns(id) \/ Collect(id, x),
         UNCHANGED <<up, sess, ext, peers, wait>>
  PROVE  LinkInv'
<1>1. CASE EthReturns(id)
  BY <1>1, EthMoveLink, Zenon DEF EthReturns
<1>2. CASE Collect(id, x)
  <2>1. \A j \in ID \ {id} : at'[j] = at[j] /\ got'[j] = got[j]
    BY <1>2, Zenon DEF Collect, TypeOK
  <2>2. eth' = [eth EXCEPT ![id] = "handshake"] \/ eth' = [eth EXCEPT ![id] = "wait"]
    BY <1>2, Zenon DEF Collect
  <2> QED
    BY <2>1, <2>2, EthMoveLink, Zenon
<1> QED
  BY <1>1, <1>2, Zenon

\* The steps of the eth goroutine keep LinkInv.
LEMMA EthLink ==
  ASSUME TypeOK, LinkInv, NEW id \in ID, EthStep(id)
  PROVE  LinkInv'
<1> USE DEF connVars, setVars
<1>1. CASE WaitExtension(id)
  <2>1. CASE \E x : Collect(id, x) /\ UNCHANGED wait /\ UNCHANGED peers
    BY <1>1, <2>1, EthLeaveLink, Zenon DEF WaitExtension
  <2>2. CASE EthReturns(id) /\ UNCHANGED setVars
    BY <1>1, <2>2, EthLeaveLink, Zenon DEF WaitExtension
  <2>3. CASE /\ LockFree
             /\ wait' = [wait EXCEPT ![at[id]] = @ \cup {id}]
             /\ eth' = [eth EXCEPT ![id] = "select"]
             /\ UNCHANGED <<at, got, closing, peers, snapPeers, pend, closed>>
    <3> USE <1>1, <2>3 DEF WaitExtension, LinkInv, TypeOK
    <3>1. GoroutinesAlive'
      BY Zenon DEF GoroutinesAlive
    <3>2. EntryOwnedByConnection'
      BY Zenon DEF EntryOwnedByConnection
    <3>3. WaitEntryHasWaiter'
      BY DEF WaitEntryHasWaiter
    <3>4. OneSenderWithPartner'
      BY Zenon DEF OneSenderWithPartner, LockFree
    <3> QED
      BY <3>1, <3>2, <3>3, <3>4, Zenon
  <2> QED
    BY <1>1, <2>1, <2>2, <2>3, Zenon DEF WaitExtension
<1>2. CASE WaitTimeout(id)
  BY <1>2 DEF WaitTimeout, LinkInv, TypeOK, GoroutinesAlive, EntryOwnedByConnection,
       WaitEntryHasWaiter, OneSenderWithPartner
<1>3. CASE WaitTimedOut(id)
  BY <1>3 DEF WaitTimedOut, EthReturns, LinkInv, TypeOK, LockFree, GoroutinesAlive,
       EntryOwnedByConnection, WaitEntryHasWaiter, OneSenderWithPartner
<1>4. CASE Handshake(id)
  <2>1. CASE EthReturns(id)
    BY <1>4, <2>1, EthLeaveLink, Zenon DEF Handshake
  <2>2. CASE ~EthReturns(id)
    BY <1>4, <2>2, EthMoveLink, Zenon DEF Handshake
  <2> QED
    BY <2>1, <2>2, Zenon
<1>5. CASE SlotsLen(id)
  BY <1>5, EthMoveLink, Zenon DEF SlotsLen
<1>6. CASE SlotsSnapLen(id)
  <2>1. CASE EthReturns(id)
    BY <1>6, <2>1, EthLeaveLink, Zenon DEF SlotsSnapLen
  <2>2. CASE ~EthReturns(id)
    BY <1>6, <2>2, EthMoveLink, Zenon DEF SlotsSnapLen
  <2> QED
    BY <2>1, <2>2, Zenon
<1>7. CASE MaxPeersCheck(id)
  <2>1. CASE EthReturns(id)
    BY <1>7, <2>1, EthLeaveLink, Zenon DEF MaxPeersCheck
  <2>2. CASE ~EthReturns(id)
    BY <1>7, <2>2, EthMoveLink, Zenon DEF MaxPeersCheck
  <2> QED
    BY <2>1, <2>2, Zenon
<1>8. CASE RegisterPeer(id)
  <2>1. CASE EthReturns(id) /\ UNCHANGED <<peers, snapPeers>>
    BY <1>8, <2>1, EthLeaveLink, Zenon DEF RegisterPeer
  <2>2. CASE /\ peers' = [peers EXCEPT ![id] = [sess |-> sess[id], ext |-> got[id]]]
             /\ eth' = [eth EXCEPT ![id] = "handler"]
             /\ UNCHANGED <<at, got, closing>>
    <3> USE <1>8, <2>2 DEF RegisterPeer, LinkInv, TypeOK
    <3>1. GoroutinesAlive'
      BY Zenon DEF GoroutinesAlive
    <3>2. EntryOwnedByConnection'
      BY Zenon DEF EntryOwnedByConnection, GoroutinesAlive
    <3>3. WaitEntryHasWaiter'
      BY Zenon DEF WaitEntryHasWaiter
    <3>4. OneSenderWithPartner'
      BY DEF OneSenderWithPartner
    <3> QED
      BY <3>1, <3>2, <3>3, <3>4, Zenon
  <2> QED
    BY <1>8, <2>1, <2>2, Zenon DEF RegisterPeer
<1>9. CASE HandlerReturns(id)
  BY <1>9 DEF HandlerReturns, LinkInv, TypeOK, GoroutinesAlive, EntryOwnedByConnection,
       WaitEntryHasWaiter, OneSenderWithPartner
<1>10. CASE UnregisterPeer(id)
  <2> USE <1>10 DEF UnregisterPeer, EthReturns, LinkInv, TypeOK
  <2>1. GoroutinesAlive'
    BY Zenon DEF GoroutinesAlive
  <2>2. id \in Registered
    BY DEF EntryOwnedByConnection, GoroutinesAlive, Registered
  <2>3. EntryOwnedByConnection'
    BY <2>2, Zenon DEF EntryOwnedByConnection
  <2>4. WaitEntryHasWaiter'
    BY Zenon DEF WaitEntryHasWaiter
  <2>5. OneSenderWithPartner'
    BY DEF OneSenderWithPartner
  <2> QED
    BY <2>1, <2>3, <2>4, <2>5, Zenon
<1> QED
  BY <1>1, <1>2, <1>3, <1>4, <1>5, <1>6, <1>7, <1>8, <1>9, <1>10, Zenon DEF EthStep
\* An extension that changes only its own state, to one that holds no lock,
\* keeps LinkInv.
LEMMA ExtMoveLink ==
  ASSUME TypeOK, LinkInv, NEW id \in ID, NEW e \in Ext, NEW s,
         ext[id][e] # "ret", s \notin Sending,
         ext' = [ext EXCEPT ![id][e] = s],
         UNCHANGED <<up, sess, eth, at, got, peers, wait>>
  PROVE  LinkInv'
<1> USE DEF LinkInv
<1>1. \A j \in ID, f \in Ext :
        /\ ext'[j][f] \in Sending => ext[j][f] \in Sending
        /\ ext'[j][f] # "ret" => ext[j][f] # "ret"
  BY Zenon DEF TypeOK
<1>2. GoroutinesAlive'
  BY <1>1, Zenon DEF GoroutinesAlive
<1>3. EntryOwnedByConnection' /\ WaitEntryHasWaiter'
  BY Zenon DEF EntryOwnedByConnection, WaitEntryHasWaiter
<1>4. OneSenderWithPartner'
  BY <1>1 DEF OneSenderWithPartner
<1> QED
  BY <1>2, <1>3, <1>4, Zenon

\* An extension that takes ps.lock, finds its eth goroutine waiting and starts
\* to send keeps LinkInv.
LEMMA ExtSendLink ==
  ASSUME TypeOK, LinkInv, NEW id \in ID, NEW e \in Ext, NEW s \in Sending,
         LockFree, ext[id][e] = "start", id \in wait[e],
         wait' = [wait EXCEPT ![e] = @ \ {id}],
         ext' = [ext EXCEPT ![id][e] = s],
         UNCHANGED <<up, sess, eth, at, got, peers>>
  PROVE  LinkInv'
<1> USE DEF LinkInv
<1>1. \A j \in ID, f \in Ext :
        /\ ext'[j][f] \in Sending => j = id /\ f = e
        /\ ext'[j][f] # "ret" => ext[j][f] # "ret"
  BY Zenon DEF TypeOK, LockFree
<1>2. GoroutinesAlive'
  BY <1>1, Zenon DEF GoroutinesAlive
<1>3. EntryOwnedByConnection'
  BY Zenon DEF EntryOwnedByConnection
<1>4. WaitEntryHasWaiter'
  BY Zenon DEF WaitEntryHasWaiter, TypeOK
<1>5. eth[id] \in {"select", "timeout"} /\ at[id] = e /\ id \notin wait'[e]
  BY Zenon DEF WaitEntryHasWaiter, TypeOK
<1>6. OneSenderWithPartner'
  BY <1>1, <1>5 DEF OneSenderWithPartner
<1> QED
  BY <1>2, <1>3, <1>4, <1>6, Zenon

\* The steps of an extension goroutine keep LinkInv.
LEMMA ExtLink ==
  ASSUME TypeOK, LinkInv, NEW id \in ID, NEW e \in Ext,
         ExtStep(id, e) \/ DiffHandshakeFails(id)
  PROVE  LinkInv'
<1> USE DEF connVars, setVars
<1>0. {"run", "ret"} \cap Sending = {} /\ {"sending", "sendfail"} = Sending
      /\ "diff" \in Ext
  BY Zenon DEF Sending, Ext
<1>1. CASE RegisterExtension(id, e)
  <2>1. CASE /\ LockFree /\ id \in wait[e]
             /\ wait' = [wait EXCEPT ![e] = @ \ {id}]
             /\ ext' = [ext EXCEPT ![id][e] = "sending"]
             /\ UNCHANGED peers
    BY <1>0, <1>1, <2>1, ExtSendLink, Zenon DEF RegisterExtension
  <2>2. CASE /\ ext' = [ext EXCEPT ![id][e] = "run"]
             /\ UNCHANGED <<peers, wait>>
    BY <1>0, <1>1, <2>2, ExtMoveLink, Zenon DEF RegisterExtension
  <2>3. CASE ExtReturns(id, e) /\ UNCHANGED <<peers, wait>>
    BY <1>0, <1>1, <2>3, ExtMoveLink, Zenon DEF RegisterExtension, ExtReturns
  <2> QED
    BY <1>1, <2>1, <2>2, <2>3, Zenon DEF RegisterExtension
<1>2. CASE HandOver(id, e)
  <2> USE <1>2 DEF LinkInv
  <2>1. /\ ext[id][e] \in Sending /\ id \notin wait[e]
        /\ \A f \in Ext : id \notin wait[f]
        /\ \A j \in ID, f \in Ext : ext[j][f] \in Sending => j = id /\ f = e
        /\ up[id]
    BY DEF HandOver, OneSenderWithPartner, WaitEntryHasWaiter, GoroutinesAlive, Sending
  <2>2. \E s \in {"run", "ret"} : ext' = [ext EXCEPT ![id][e] = s]
    BY Zenon DEF HandOver
  <2>3. \E s \in {"wait", "handshake"} : eth' = [eth EXCEPT ![id] = s]
    BY Zenon DEF HandOver, Collect
  <2>4. \A j \in ID \ {id} : at'[j] = at[j] /\ got'[j] = got[j]
    BY Zenon DEF HandOver, Collect, TypeOK
  <2>5. UNCHANGED <<up, sess, peers, wait>>
    BY Zenon DEF HandOver
  <2>6. GoroutinesAlive'
    BY <2>1, <2>2, <2>3, <2>5 DEF GoroutinesAlive, TypeOK
  <2>7. EntryOwnedByConnection'
    <3>1. \A j \in ID \ {id} : eth'[j] = eth[j]
      BY <2>3, Zenon DEF TypeOK
    <3>2. eth[id] = "select" /\ eth'[id] \in {"wait", "handshake"}
      BY <2>3, Zenon DEF HandOver, TypeOK
    <3> QED
      BY <2>4, <2>5, <3>1, <3>2, Zenon DEF EntryOwnedByConnection
  <2>8. WaitEntryHasWaiter'
    <3>1. \A j \in ID \ {id} : eth'[j] = eth[j] /\ at'[j] = at[j]
      BY <2>3, <2>4, Zenon DEF TypeOK
    <3>2. \A f \in Ext : \A j \in wait'[f] : j \in wait[f] /\ j \in ID \ {id}
      BY <2>1, <2>5, Zenon DEF TypeOK
    <3> QED
      BY <3>1, <3>2, Zenon DEF WaitEntryHasWaiter
  <2>9. \A j \in ID, f \in Ext : ext'[j][f] \notin Sending
    BY <1>0, <2>1, <2>2 DEF TypeOK
  <2> QED
    BY <2>6, <2>7, <2>8, <2>9, Zenon DEF OneSenderWithPartner
<1>3. CASE ExtHandlerReturns(id, e)
  BY <1>0, <1>3, ExtMoveLink, Zenon DEF ExtHandlerReturns, ExtReturns
<1>4. CASE DiffHandshakeFails(id)
  <2>1. CASE id \in wait["diff"]
    BY <1>0, <1>4, <2>1, ExtSendLink, Zenon DEF DiffHandshakeFails
  <2>2. CASE id \notin wait["diff"]
    BY <1>0, <1>4, <2>2, ExtMoveLink, Zenon DEF DiffHandshakeFails, ExtReturns
  <2> QED
    BY <2>1, <2>2, Zenon
<1> QED
  BY <1>1, <1>2, <1>3, <1>4, Zenon DEF ExtStep

\* LinkInv is inductive.
LEMMA NextLink == TypeOK /\ LinkInv /\ [Next]_vars => LinkInv'
<1> SUFFICES ASSUME TypeOK, LinkInv, [Next]_vars PROVE LinkInv'
  BY Zenon
<1>1. CASE Close \/ UNCHANGED vars
  <2>1. UNCHANGED <<up, sess, eth, at, got, ext, peers, wait>>
    BY <1>1, Zenon DEF Close, vars, connVars, setVars
  <2>2. GoroutinesAlive' /\ EntryOwnedByConnection'
    BY <2>1, Zenon DEF LinkInv, GoroutinesAlive, EntryOwnedByConnection
  <2>3. WaitEntryHasWaiter'
    BY <2>1, Zenon DEF LinkInv, WaitEntryHasWaiter
  <2>4. OneSenderWithPartner'
    BY <2>1, Zenon DEF LinkInv, OneSenderWithPartner
  <2> QED
    BY <2>2, <2>3, <2>4, Zenon DEF LinkInv
<1>3. ASSUME NEW id \in ID, DiffHandshakeFails(id)
      PROVE  LinkInv'
  BY <1>3, ExtLink, Zenon DEF Ext
<1> QED
  BY <1>1, <1>3, ServerLink, EthLink, ExtLink, Zenon DEF Next

\* The peer set and the goroutines of each connection agree in every state.
LEMMA LinkInvariant == Spec => []LinkInv
<1>1. Init => LinkInv
  BY DEF Init, LinkInv, GoroutinesAlive, EntryOwnedByConnection,
       WaitEntryHasWaiter, OneSenderWithPartner, Sending
<1> QED
  BY <1>1, NextLink, TypeCorrect, PTL DEF Spec

\* An entry of ps.peers is the one its running connection registered, from
\* registerPeer to its own unregisterPeer.
THEOREM EntryOwned == Spec => []EntryOwnedByConnection
BY LinkInvariant, PTL DEF LinkInv

\* No wait entry is left behind by an eth goroutine that has stopped waiting.
THEOREM WaitEntries == Spec => []WaitEntryHasWaiter
BY LinkInvariant, PTL DEF LinkInv

\* At most one extension holds ps.lock across its send, and to its own partner.
THEOREM OneSender == Spec => []OneSenderWithPartner
BY LinkInvariant, PTL DEF LinkInv
-----------------------------------------------------------------------------
(* Counting.                                                               *)

\* The registered peers with a snap extension.
WithSnap == {id \in ID : peers[id].ext["snap"] # 0}

\* Only registerPeer and unregisterPeer change the peers with a snap extension,
\* and snapPeers with them.
LEMMA NextCount ==
  TypeOK /\ LinkInv /\ SnapPeersCounted /\ [Next]_vars => SnapPeersCounted'
<1> SUFFICES ASSUME TypeOK, LinkInv, SnapPeersCounted, [Next]_vars
             PROVE  SnapPeersCounted'
  BY Zenon
<1> USE DEF SnapPeersCounted, WithSnap
<1>0. IsFiniteSet(WithSnap) /\ Cardinality(WithSnap) \in Nat
      /\ snapPeers = Cardinality(WithSnap) /\ "snap" \in Ext
  BY FS_Subset, FS_CardinalityType, PeerSetAssumption, Zenon DEF Ext
<1>1. ASSUME NEW id \in ID, RegisterPeer(id)
      PROVE  SnapPeersCounted'
  <2> USE <1>1 DEF RegisterPeer
  <2>1. CASE UNCHANGED <<peers, snapPeers>>
    BY <2>1, Zenon
  <2>2. CASE /\ id \notin Registered
             /\ peers' = [peers EXCEPT ![id] = [sess |-> sess[id], ext |-> got[id]]]
             /\ snapPeers' = IF got[id]["snap"] # 0 THEN snapPeers + 1 ELSE snapPeers
    <3>1. id \notin WithSnap
      <4>1. peers[id] = NoPeer
        BY Zenon DEF LinkInv, EntryOwnedByConnection
      <4>2. NoPeer.ext["snap"] = 0
        BY <1>0, Zenon DEF NoPeer, NoExt
      <4> QED
        BY <4>1, <4>2, Zenon
    <3>2. CASE got[id]["snap"] # 0
      <4>1. WithSnap' = WithSnap \cup {id}
        <5>1. peers'[id].ext["snap"] # 0 /\ \A j \in ID : j # id => peers'[j] = peers[j]
          BY <2>2, <3>2, Zenon DEF TypeOK
        <5> QED
          BY <5>1, Zenon
      <4> QED
        BY <1>0, <2>2, <3>1, <3>2, <4>1, FS_AddElement, Zenon
    <3>3. CASE got[id]["snap"] = 0
      <4>1. WithSnap' = WithSnap
        BY <2>2, <3>1, <3>3, Zenon DEF TypeOK
      <4> QED
        BY <1>0, <2>2, <3>3, <4>1, Zenon
    <3> QED
      BY <3>2, <3>3, Zenon
  <2> QED
    BY <2>1, <2>2, Zenon
<1>2. ASSUME NEW id \in ID, UnregisterPeer(id)
      PROVE  SnapPeersCounted'
  <2> USE <1>2 DEF UnregisterPeer
  <2>1. CASE id \notin Registered
    BY <2>1, Zenon
  <2>2. CASE id \in Registered
    <3>1. WithSnap' = WithSnap \ {id}
      BY <1>0, <2>2 DEF TypeOK, NoPeer, NoExt
    <3>2. CASE peers[id].ext["snap"] # 0
      BY <1>0, <2>2, <3>1, <3>2, FS_RemoveElement, Zenon
    <3>3. CASE peers[id].ext["snap"] = 0
      <4>1. WithSnap' = WithSnap
        BY <3>1, <3>3, Zenon
      <4> QED
        BY <1>0, <2>2, <3>3, <4>1, Zenon
    <3> QED
      BY <3>2, <3>3, Zenon
  <2> QED
    BY <2>1, <2>2, Zenon
<1>3. CASE UNCHANGED <<peers, snapPeers>>
  BY <1>3, Zenon
<1>4. ASSUME NEW id \in ID, EthStep(id), ~RegisterPeer(id), ~UnregisterPeer(id)
      PROVE  UNCHANGED <<peers, snapPeers>>
  BY <1>4, Zenon DEF EthStep, setVars, WaitExtension, WaitTimeout, WaitTimedOut, Handshake,
       SlotsLen, SlotsSnapLen, MaxPeersCheck, HandlerReturns
<1>5. ASSUME NEW id \in ID, NEW e \in Ext, ExtStep(id, e) \/ DiffHandshakeFails(id)
      PROVE  UNCHANGED <<peers, snapPeers>>
  BY <1>5, Zenon DEF ExtStep, setVars, RegisterExtension, HandOver, ExtHandlerReturns,
       DiffHandshakeFails
<1>6. ASSUME NEW id \in ID, Connect(id) \/ Disconnect(id) \/ DropPeer(id)
      PROVE  UNCHANGED <<peers, snapPeers>>
  BY <1>6, Zenon DEF Connect, Disconnect, DropPeer, setVars
<1>7. CASE Close \/ UNCHANGED vars
  BY <1>3, <1>7, Zenon DEF Close, vars, setVars
<1> QED
  BY <1>0, <1>1, <1>2, <1>3, <1>4, <1>5, <1>6, <1>7, Zenon DEF Next

\* snapPeers counts the registered peers with a snap extension.
THEOREM SnapPeersCount == Spec => []SnapPeersCounted
<1>1. Init => SnapPeersCounted
  <2> SUFFICES ASSUME Init PROVE SnapPeersCounted
    BY Zenon
  <2>1. {id \in ID : peers[id].ext["snap"] # 0} = {}
    BY Zenon DEF Init, NoPeer, NoExt, Ext
  <2> QED
    BY <2>1, FS_EmptySet, Zenon DEF Init, SnapPeersCounted
<1> QED
  BY <1>1, NextCount, TypeCorrect, LinkInvariant, PTL DEF Spec

\* Server.run never lets more than MaxPeers untrusted connections in.
ConnectionsWithinMaxPeers == Cardinality(Up \ Trusted) <= MaxPeers

\* Only Connect, under its limit, adds a connection.
LEMMA NextConnections ==
  TypeOK /\ ConnectionsWithinMaxPeers /\ [Next]_vars => ConnectionsWithinMaxPeers'
<1> SUFFICES ASSUME TypeOK, ConnectionsWithinMaxPeers, [Next]_vars
             PROVE  ConnectionsWithinMaxPeers'
  BY Zenon
<1> USE PeerSetAssumption DEF ConnectionsWithinMaxPeers
<1>0. /\ IsFiniteSet(Up) /\ IsFiniteSet(Up \ Trusted)
      /\ Cardinality(Up) \in Nat /\ Cardinality(Up \ Trusted) \in Nat
  BY FS_Subset, FS_CardinalityType, Zenon DEF Up
<1>1. ASSUME NEW id \in ID, Connect(id)
      PROVE  ConnectionsWithinMaxPeers'
  <2>1. Up' = Up \cup {id}
    BY <1>1 DEF Connect, Up, TypeOK
  <2>2. CASE id \in Trusted
    <3>1. (Up \ Trusted)' = Up \ Trusted
      BY <2>1, <2>2, Zenon
    <3> QED
      BY <3>1, Zenon
  <2>3. CASE id \notin Trusted
    <3>1. (Up \ Trusted)' = (Up \ Trusted) \cup {id}
      BY <2>1, <2>3, Zenon
    <3>2. Cardinality(Up) < MaxPeers
      BY <1>1, <2>3, Zenon DEF Connect
    <3>3. Cardinality(Up \ Trusted) <= Cardinality(Up)
      BY <1>0, FS_Subset, Zenon
    <3>4. id \notin Up \ Trusted
      BY <1>1, Zenon DEF Connect, Up
    <3>5. Cardinality((Up \ Trusted) \cup {id}) = Cardinality(Up \ Trusted) + 1
      BY <1>0, <3>4, FS_AddElement, Zenon
    <3>6. Cardinality((Up \ Trusted)') = Cardinality(Up \ Trusted) + 1
      BY <3>1, <3>5, Zenon
    <3>7. Cardinality(Up \ Trusted) + 1 <= MaxPeers
      BY <1>0, <3>2, <3>3
    <3> QED
      BY <3>6, <3>7, Zenon
  <2> QED
    BY <2>2, <2>3, Zenon
<1>2. ASSUME NEW id \in ID, DropPeer(id)
      PROVE  ConnectionsWithinMaxPeers'
  <2>1. (Up \ Trusted)' \subseteq Up \ Trusted
    BY <1>2, Zenon DEF DropPeer, Up, TypeOK
  <2>2. Cardinality((Up \ Trusted)') <= Cardinality(Up \ Trusted)
        /\ Cardinality((Up \ Trusted)') \in Nat
    BY <1>0, <2>1, FS_Subset, FS_CardinalityType, Zenon
  <2> QED
    BY <1>0, <2>2
<1>3. CASE UNCHANGED up
  BY <1>3, Zenon DEF Up
<1>4. ASSUME NEW id \in ID, EthStep(id) \/ Disconnect(id) PROVE UNCHANGED up
  BY <1>4, Zenon DEF EthStep, connVars, WaitExtension, WaitTimeout, WaitTimedOut, Handshake,
       SlotsLen, SlotsSnapLen, MaxPeersCheck, RegisterPeer, HandlerReturns,
       UnregisterPeer, Disconnect
<1>5. ASSUME NEW id \in ID, NEW e \in Ext, ExtStep(id, e) \/ DiffHandshakeFails(id)
      PROVE  UNCHANGED up
  BY <1>5, Zenon DEF ExtStep, connVars, RegisterExtension, HandOver, ExtHandlerReturns,
       DiffHandshakeFails
<1>6. CASE Close \/ UNCHANGED vars
  BY <1>3, <1>6, Zenon DEF Close, vars, connVars
<1>7. "snap" \in Ext
  BY Zenon DEF Ext
<1> QED
  BY <1>1, <1>2, <1>3, <1>4, <1>5, <1>6, <1>7, Zenon DEF Next

\* Untrusted registered peers never exceed MaxPeers: the test in runEthPeer may
\* be stale, but every registered peer has an admitted connection.
THEOREM UntrustedWithin == Spec => []UntrustedWithinMaxPeers
<1>1. Init => ConnectionsWithinMaxPeers
  <2> SUFFICES ASSUME Init PROVE ConnectionsWithinMaxPeers
    BY Zenon
  <2>1. Up \ Trusted = {}
    BY Zenon DEF Init, Up
  <2>2. Cardinality(Up \ Trusted) = 0
    BY <2>1, FS_EmptySet, Zenon
  <2> QED
    BY <2>2, PeerSetAssumption DEF ConnectionsWithinMaxPeers
<1>2. LinkInv /\ ConnectionsWithinMaxPeers => UntrustedWithinMaxPeers
  <2> SUFFICES ASSUME LinkInv, ConnectionsWithinMaxPeers
               PROVE  UntrustedWithinMaxPeers
    BY Zenon
  <2>1. Registered \ Trusted \subseteq Up \ Trusted
    <3> SUFFICES ASSUME NEW id \in Registered PROVE id \in Up
      BY Zenon
    <3>1. id \in ID /\ peers[id] # NoPeer
      BY DEF Registered, NoPeer
    <3> QED
      BY <3>1, Zenon DEF Up, LinkInv, EntryOwnedByConnection
  <2>2. /\ IsFiniteSet(Up \ Trusted)
        /\ Cardinality(Up \ Trusted) \in Nat
    BY FS_Subset, FS_CardinalityType, PeerSetAssumption, Zenon DEF Up
  <2>3. /\ Cardinality(Registered \ Trusted) <= Cardinality(Up \ Trusted)
        /\ Cardinality(Registered \ Trusted) \in Nat
    BY <2>1, <2>2, FS_Subset, FS_CardinalityType, Zenon
  <2> QED
    BY <2>2, <2>3, PeerSetAssumption
      DEF UntrustedWithinMaxPeers, ConnectionsWithinMaxPeers
<1> QED
  BY <1>1, <1>2, NextConnections, TypeCorrect, LinkInvariant, PTL DEF Spec
-----------------------------------------------------------------------------
(* The peer set implements PeerLock, as far as the order of events goes.   *)

\* Once timer and extension block each other, no step of any goroutine of any
\* connection undoes it.
LEMMA FrozenStays ==
  ASSUME TypeOK, GoroutinesAlive, Frozen, [Next]_vars
  PROVE  Frozen'
<1>1. PICK id \in ID, e \in Ext : ext[id][e] \in Sending /\ eth[id] = "timeout"
  BY Zenon DEF Frozen
<1>2. ~LockFree /\ up[id]
  BY <1>1, Zenon DEF LockFree, GoroutinesAlive
<1> SUFFICES eth'[id] = "timeout" /\ ext'[id][e] = ext[id][e]
  BY <1>1, Zenon DEF Frozen
<1> USE <1>1, <1>2 DEF TypeOK
<1>3. CASE Close \/ UNCHANGED vars
  BY <1>3, Zenon DEF Close, vars
<1>4. ASSUME NEW j \in ID, Connect(j) \/ Disconnect(j) \/ DropPeer(j)
      PROVE  eth'[id] = "timeout" /\ ext'[id][e] = ext[id][e]
  <2>1. CASE Connect(j)
    BY <2>1, Zenon DEF Connect
  <2>2. CASE Disconnect(j)
    BY <2>2, Zenon DEF Disconnect
  <2>3. CASE DropPeer(j)
    BY <2>3, Zenon DEF DropPeer
  <2> QED
    BY <1>4, <2>1, <2>2, <2>3, Zenon
<1>5. ASSUME NEW j \in ID, EthStep(j)
      PROVE  eth'[id] = "timeout" /\ ext'[id][e] = ext[id][e]
  <2>1. ext' = ext
    BY <1>5, Zenon DEF EthStep, WaitExtension, WaitTimeout, WaitTimedOut, Handshake, SlotsLen,
                SlotsSnapLen, MaxPeersCheck, RegisterPeer, HandlerReturns, UnregisterPeer
  <2>2. eth[j] # "timeout"
    BY <1>5, Zenon DEF EthStep, WaitExtension, WaitTimeout, WaitTimedOut, Handshake, SlotsLen,
                SlotsSnapLen, MaxPeersCheck, RegisterPeer, HandlerReturns, UnregisterPeer
  <2>3. \E s \in EthStates : eth' = [eth EXCEPT ![j] = s]
    BY <1>5, Zenon DEF EthStep, WaitExtension, WaitTimeout, WaitTimedOut, Handshake, SlotsLen,
                SlotsSnapLen, MaxPeersCheck, RegisterPeer, HandlerReturns, UnregisterPeer,
                EthReturns, Collect, EthStates
  <2> QED
    BY <2>1, <2>2, <2>3, Zenon
<1>6. ASSUME NEW j \in ID, DiffHandshakeFails(j)
      PROVE  eth'[id] = "timeout" /\ ext'[id][e] = ext[id][e]
  BY <1>6, Zenon DEF DiffHandshakeFails
<1>7. ASSUME NEW j \in ID, NEW f \in Ext, ExtStep(j, f)
      PROVE  eth'[id] = "timeout" /\ ext'[id][e] = ext[id][e]
  <2>1. CASE RegisterExtension(j, f)
    <3>1. eth' = eth /\ ext[j][f] = "start"
      BY <2>1, Zenon DEF RegisterExtension
    <3>2. \E x \in ExtStates : ext' = [ext EXCEPT ![j][f] = x]
      BY <2>1, Zenon DEF RegisterExtension, ExtReturns, ExtStates
    <3>3. <<j, f>> # <<id, e>>
      BY <3>1, Zenon DEF Sending
    <3> QED
      BY <3>1, <3>2, <3>3
  <2>2. CASE HandOver(j, f)
    <3>1. j # id
      BY <2>2, Zenon DEF HandOver
    <3>2. \E s \in EthStates : eth' = [eth EXCEPT ![j] = s]
      BY <2>2, Zenon DEF HandOver, Collect, EthStates
    <3>3. \E x \in ExtStates : ext' = [ext EXCEPT ![j][f] = x]
      BY <2>2, Zenon DEF HandOver, ExtStates
    <3> QED
      BY <3>1, <3>2, <3>3, Zenon
  <2>3. CASE ExtHandlerReturns(j, f)
    BY <2>3, Zenon DEF ExtHandlerReturns, ExtReturns, Sending
  <2> QED
    BY <1>7, <2>1, <2>2, <2>3, Zenon DEF ExtStep
<1> QED
  BY <1>3, <1>4, <1>5, <1>6, <1>7, Zenon DEF Next

\* The lock of the peer set moves only as PeerLock says, for any number of
\* connections: what is held is released or stuck, and what is stuck stays so.
THEOREM LockOrder == Spec => Lock!Order
<1>1. Init => Lock!Init
  BY DEF Init, Lock!Init, LockView, LockFree, Sending
<1>2. TypeOK /\ LinkInv /\ [Next]_vars => [Lock!Next]_LockView
  <2> SUFFICES ASSUME TypeOK, LinkInv, [Next]_vars
               PROVE  [Lock!Next]_LockView
    BY Zenon
  <2>1. LockView = "stuck" => LockView' = "stuck"
    <3> SUFFICES ASSUME LockView = "stuck" PROVE LockView' = "stuck"
      BY Zenon
    <3>1. Frozen
      BY Zenon DEF LockView
    <3>2. Frozen'
      BY <3>1, FrozenStays, Zenon DEF LinkInv
    <3>3. ~LockFree'
      BY <3>2, Zenon DEF Frozen, LockFree
    <3> QED
      BY <3>2, <3>3, Zenon DEF LockView
  <2>2. LockView \in {"free", "held", "stuck"} /\ LockView' \in {"free", "held", "stuck"}
    BY Zenon DEF LockView
  <2> QED
    BY <2>1, <2>2, Zenon DEF Lock!Next, Lock!Take, Lock!Settle
<1> QED
  BY <1>1, <1>2, TypeCorrect, LinkInvariant, PTL DEF Spec, Lock!Order
-----------------------------------------------------------------------------
(* Extensions are handed over once.                                        *)

\* For the values of a connection number s, the pending and the collected
\* extension p and g, and the place x of the extension's goroutine: both come from
\* this or an earlier connection; one of this connection has left the start of
\* its goroutine, and is pending or collected but not both.
HandedOf(s, p, g, x) ==
  /\ p <= s /\ g <= s
  /\ (s # 0 /\ p = s) => (x \in {"run", "ret"} /\ g # s)
  /\ (s # 0 /\ g = s) => x \in {"run", "ret"}

Handed(id, e) == HandedOf(sess[id], pend[e][id], got[id][e], ext[id][e])

HandedInv == \A id \in ID, e \in Ext : Handed(id, e)

\* What a step may do to the four values of an extension.
LEMMA HandedMoves ==
  ASSUME NEW s \in Nat, NEW p \in Nat, NEW g \in Nat, NEW x, HandedOf(s, p, g, x)
  PROVE  /\ HandedOf(s, p, 0, x)
         /\ HandedOf(s, 0, p, x)
         /\ \A y : HandedOf(s + 1, p, 0, y)
         /\ x \notin {"run", "ret"} => \A y : HandedOf(s, p, g, y)
         /\ x \notin {"run", "ret"} => HandedOf(s, s, g, "run")
         /\ x \notin {"run", "ret"} => HandedOf(s, p, s, "run") /\ HandedOf(s, p, s, "ret")
         /\ x = "run" => HandedOf(s, p, g, "ret")
<1>1. HandedOf(s, p, 0, x) /\ HandedOf(s, 0, p, x)
  BY DEF HandedOf
<1>2. ASSUME NEW y PROVE HandedOf(s + 1, p, 0, y)
  BY DEF HandedOf
<1>3. CASE x \notin {"run", "ret"}
  <2>1. s = 0 \/ (p # s /\ g # s)
    BY <1>3, Zenon DEF HandedOf
  <2>2. p <= s /\ g <= s
    BY Zenon DEF HandedOf
  <2>3. ASSUME NEW y PROVE HandedOf(s, p, g, y)
    BY <2>1, <2>2, Zenon DEF HandedOf
  <2>4. HandedOf(s, s, g, "run")
    BY <2>1, <2>2 DEF HandedOf
  <2>5. HandedOf(s, p, s, "run") /\ HandedOf(s, p, s, "ret")
    BY <2>1, <2>2 DEF HandedOf
  <2> QED
    BY <1>1, <1>2, <1>3, <2>3, <2>4, <2>5, Zenon
<1>4. x = "run" => HandedOf(s, p, g, "ret")
  BY Zenon DEF HandedOf
<1> QED
  BY <1>1, <1>2, <1>3, <1>4, Zenon

\* An update of one entry of a function of two arguments.
LEMMA UpdateAt ==
  ASSUME NEW A, NEW B, NEW C, NEW f \in [A -> [B -> C]], NEW a \in A, NEW b \in B,
         NEW v, NEW g, g = [f EXCEPT ![a][b] = v]
  PROVE  /\ g[a][b] = v
         /\ \A x \in A, y \in B : x # a \/ y # b => g[x][y] = f[x][y]
BY Zenon

\* The values of one extension in a typed state.
LEMMA HandedTypes ==
  ASSUME TypeOK, NEW id \in ID, NEW e \in Ext
  PROVE  sess[id] \in Nat /\ pend[e][id] \in Nat /\ got[id][e] \in Nat
BY Zenon DEF TypeOK

\* The functions that hold them.
LEMMA HandedDomains ==
  ASSUME TypeOK
  PROVE  /\ pend \in [Ext -> [ID -> Nat]] /\ got \in [ID -> [Ext -> Nat]]
         /\ ext \in [ID -> [Ext -> ExtStates]]
BY Zenon DEF TypeOK

\* Only the extension e of id changes, and it stays handed over once.
LEMMA HandedStep ==
  ASSUME HandedInv, NEW id \in ID, NEW e \in Ext, sess' = sess,
         \A j \in ID, f \in Ext : j # id \/ f # e =>
           pend'[f][j] = pend[f][j] /\ got'[j][f] = got[j][f] /\ ext'[j][f] = ext[j][f],
         HandedOf(sess[id], pend'[e][id], got'[id][e], ext'[id][e])
  PROVE  HandedInv'
<1> SUFFICES ASSUME NEW j \in ID, NEW f \in Ext
             PROVE  HandedOf(sess'[j], pend'[f][j], got'[j][f], ext'[j][f])
  BY Zenon DEF HandedInv, Handed
<1>1. CASE j = id /\ f = e
  BY <1>1, Zenon
<1>2. CASE j # id \/ f # e
  BY <1>2, Zenon DEF HandedInv, Handed
<1> QED
  BY <1>1, <1>2, Zenon

\* Nothing that HandedInv speaks of changes.
LEMMA HandedSame ==
  ASSUME HandedInv, UNCHANGED <<sess, pend, got, ext>>
  PROVE  HandedInv'
BY Zenon DEF HandedInv, Handed

\* Collecting what was pending, or nothing, keeps HandedInv.
LEMMA CollectHanded ==
  ASSUME TypeOK, HandedInv, NEW id \in ID, WaitExtension(id)
  PROVE  HandedInv'
<1>0. PICK e \in Ext : e = at[id] /\ sess' = sess /\ ext' = ext
  BY Zenon DEF WaitExtension, connVars, TypeOK
<1>1. HandedOf(sess[id], pend[e][id], got[id][e], ext[id][e])
  BY Zenon DEF HandedInv, Handed
<1>2. /\ HandedOf(sess[id], pend[e][id], 0, ext[id][e])
      /\ HandedOf(sess[id], 0, pend[e][id], ext[id][e])
  BY <1>1, HandedTypes, HandedMoves, Zenon
<1>3. CASE got' = got /\ pend' = pend
  BY <1>0, <1>3, HandedSame, Zenon
<1>4. CASE got' = [got EXCEPT ![id][e] = 0] /\ pend' = pend
  <2>1. /\ got'[id][e] = 0
        /\ \A j \in ID, f \in Ext : j # id \/ f # e => got'[j][f] = got[j][f]
    BY <1>4, HandedDomains, UpdateAt, Zenon
  <2> QED
    BY <1>0, <1>2, <1>4, <2>1, HandedStep
<1>5. CASE /\ got' = [got EXCEPT ![id][e] = pend[e][id]]
           /\ pend' = [pend EXCEPT ![e][id] = 0]
  <2>1. /\ got'[id][e] = pend[e][id]
        /\ \A j \in ID, f \in Ext : j # id \/ f # e => got'[j][f] = got[j][f]
    BY <1>5, HandedDomains, UpdateAt, Zenon
  <2>2. /\ pend'[e][id] = 0
        /\ \A f \in Ext, j \in ID : f # e \/ j # id => pend'[f][j] = pend[f][j]
    BY <1>5, HandedDomains, UpdateAt, Zenon
  <2>3. \A j \in ID, f \in Ext : j # id \/ f # e =>
          pend'[f][j] = pend[f][j] /\ got'[j][f] = got[j][f] /\ ext'[j][f] = ext[j][f]
    BY <1>0, <2>1, <2>2, Zenon
  <2>4. HandedOf(sess[id], pend'[e][id], got'[id][e], ext'[id][e])
    BY <1>0, <1>2, <2>1, <2>2, Zenon
  <2> QED
    BY <1>0, <2>3, <2>4, HandedStep, Zenon
<1> QED
  BY <1>0, <1>3, <1>4, <1>5, Zenon DEF WaitExtension, Collect, EthReturns, setVars

\* A goroutine that has not run moves, or one that runs returns.
LEMMA MoveHanded ==
  ASSUME TypeOK, HandedInv, NEW id \in ID, NEW e \in Ext, NEW x,
         UNCHANGED <<sess, got, pend>>, ext' = [ext EXCEPT ![id][e] = x],
         ext[id][e] \notin {"run", "ret"} \/ (ext[id][e] = "run" /\ x = "ret")
  PROVE  HandedInv'
<1>1. /\ ext'[id][e] = x
      /\ \A j \in ID, f \in Ext : j # id \/ f # e => ext'[j][f] = ext[j][f]
  BY HandedDomains, UpdateAt, Zenon
<1>2. HandedOf(sess[id], pend[e][id], got[id][e], ext[id][e])
  BY Zenon DEF HandedInv, Handed
<1>3. HandedOf(sess[id], pend[e][id], got[id][e], x)
  BY <1>2, HandedTypes, HandedMoves, Zenon
<1> QED
  BY <1>1, <1>3, HandedStep, Zenon

\* Every step keeps HandedInv.
LEMMA NextHanded == TypeOK /\ LinkInv /\ HandedInv /\ [Next]_vars => HandedInv'
<1> SUFFICES ASSUME TypeOK, LinkInv, HandedInv, [Next]_vars PROVE HandedInv'
  BY Zenon
<1>1. CASE Close \/ UNCHANGED vars
  BY <1>1, HandedSame, Zenon DEF Close, vars, connVars, setVars
<1>2. ASSUME NEW id \in ID, Connect(id)
      PROVE  HandedInv'
  <2>1. /\ sess'[id] = sess[id] + 1 /\ got'[id] = NoExt /\ pend' = pend
        /\ \A j \in ID \ {id} : sess'[j] = sess[j] /\ got'[j] = got[j] /\ ext'[j] = ext[j]
    BY <1>2 DEF Connect, TypeOK, setVars
  <2> SUFFICES ASSUME NEW j \in ID, NEW f \in Ext
               PROVE  HandedOf(sess'[j], pend'[f][j], got'[j][f], ext'[j][f])
    BY Zenon DEF HandedInv, Handed
  <2>2. HandedOf(sess[j], pend[f][j], got[j][f], ext[j][f])
    BY Zenon DEF HandedInv, Handed
  <2>3. CASE j = id
    <3>1. got'[id][f] = 0
      BY <2>1, Zenon DEF NoExt
    <3>2. HandedOf(sess[id] + 1, pend[f][id], 0, ext'[id][f])
      BY <2>2, <2>3, HandedTypes, HandedMoves, Zenon
    <3> QED
      BY <2>1, <2>3, <3>1, <3>2, Zenon
  <2>4. CASE j # id
    BY <2>1, <2>2, <2>4, Zenon
  <2> QED
    BY <2>3, <2>4, Zenon
<1>3. ASSUME NEW id \in ID, Disconnect(id) \/ DropPeer(id)
      PROVE  HandedInv'
  BY <1>3, HandedSame, Zenon DEF Disconnect, DropPeer, connVars, setVars
<1>4. ASSUME NEW id \in ID, EthStep(id)
      PROVE  HandedInv'
  <2>1. CASE WaitExtension(id)
    BY <2>1, CollectHanded, Zenon
  <2>2. CASE ~WaitExtension(id)
    <3>1. UNCHANGED <<sess, got, ext, pend>>
      BY <1>4, <2>2, Zenon DEF EthStep, WaitTimeout, WaitTimedOut, Handshake, SlotsLen,
         SlotsSnapLen,
             MaxPeersCheck, RegisterPeer, HandlerReturns, UnregisterPeer, EthReturns,
             connVars, setVars
    <3> QED
      BY <3>1, HandedSame, Zenon
  <2> QED
    BY <2>1, <2>2, Zenon
<1>5. ASSUME NEW id \in ID, DiffHandshakeFails(id)
      PROVE  HandedInv'
  <2>1. /\ UNCHANGED <<sess, got, pend>> /\ ext[id]["diff"] = "start"
        /\ \E x : ext' = [ext EXCEPT ![id]["diff"] = x]
    BY <1>5, Zenon DEF DiffHandshakeFails, ExtReturns, connVars
  <2>2. "diff" \in Ext /\ "start" \notin {"run", "ret"}
    BY Zenon DEF Ext
  <2> QED
    BY <2>1, <2>2, MoveHanded, Zenon
<1>6. ASSUME NEW id \in ID, NEW e \in Ext, ExtStep(id, e)
      PROVE  HandedInv'
  <2>1. CASE RegisterExtension(id, e)
    <3>1. UNCHANGED <<sess, got>> /\ ext[id][e] = "start" /\ "start" \notin {"run", "ret"}
      BY <2>1, Zenon DEF RegisterExtension, connVars
    <3>2. CASE pend' = pend /\ \E x : ext' = [ext EXCEPT ![id][e] = x]
      BY <3>1, <3>2, MoveHanded, Zenon
    <3>3. CASE /\ pend' = [pend EXCEPT ![e][id] = sess[id]]
               /\ ext' = [ext EXCEPT ![id][e] = "run"]
      <4>1. /\ ext'[id][e] = "run"
            /\ \A j \in ID, f \in Ext : j # id \/ f # e => ext'[j][f] = ext[j][f]
        BY <3>3, HandedDomains, UpdateAt, Zenon
      <4>2. /\ pend'[e][id] = sess[id]
            /\ \A f \in Ext, j \in ID : f # e \/ j # id => pend'[f][j] = pend[f][j]
        BY <3>3, HandedDomains, UpdateAt, Zenon
      <4>3. HandedOf(sess[id], pend[e][id], got[id][e], ext[id][e])
        BY Zenon DEF HandedInv, Handed
      <4>4. HandedOf(sess[id], sess[id], got[id][e], "run")
        BY <3>1, <4>3, HandedTypes, HandedMoves, Zenon
      <4> QED
        BY <3>1, <4>1, <4>2, <4>4, HandedStep, Zenon
    <3> QED
      BY <2>1, <3>2, <3>3, Zenon DEF RegisterExtension, ExtReturns, setVars
  <2>2. CASE HandOver(id, e)
    <3>1. PICK x \in {"run", "ret"} :
            /\ UNCHANGED <<sess, pend>> /\ ext[id][e] \in Sending
            /\ got' = [got EXCEPT ![id][e] = sess[id]]
            /\ ext' = [ext EXCEPT ![id][e] = x]
      BY <2>2, Zenon DEF HandOver, Collect, connVars, setVars
    <3>2. ext[id][e] \notin {"run", "ret"}
      BY <3>1, Zenon DEF Sending
    <3>3. /\ ext'[id][e] = x
          /\ \A j \in ID, f \in Ext : j # id \/ f # e => ext'[j][f] = ext[j][f]
      BY <3>1, HandedDomains, UpdateAt, Zenon
    <3>4. /\ got'[id][e] = sess[id]
          /\ \A j \in ID, f \in Ext : j # id \/ f # e => got'[j][f] = got[j][f]
      BY <3>1, HandedDomains, UpdateAt, Zenon
    <3>5. HandedOf(sess[id], pend[e][id], got[id][e], ext[id][e])
      BY Zenon DEF HandedInv, Handed
    <3>6. HandedOf(sess[id], pend[e][id], sess[id], x)
      BY <3>2, <3>5, HandedTypes, HandedMoves, Zenon
    <3> QED
      BY <3>1, <3>3, <3>4, <3>6, HandedStep
  <2>3. CASE ExtHandlerReturns(id, e)
    BY <2>3, MoveHanded, Zenon DEF ExtHandlerReturns, ExtReturns, connVars, setVars
  <2> QED
    BY <1>6, <2>1, <2>2, <2>3, Zenon DEF ExtStep
<1> QED
  BY <1>1, <1>2, <1>3, <1>4, <1>5, <1>6, Zenon DEF Next

\* For any number of nodes and reconnects, the extension of a connection is
\* never pending while it is sent or after it was collected.
THEOREM HandedOnce == Spec => []ExtensionInOnePlace
<1>1. Init => HandedInv
  <2> SUFFICES ASSUME Init PROVE HandedInv
    BY Zenon
  <2>1. \A id \in ID, e \in Ext : sess[id] = 0 /\ pend[e][id] = 0 /\ got[id][e] = 0
    BY Zenon DEF Init, NoExt
  <2>2. \A x : HandedOf(0, 0, 0, x)
    BY DEF HandedOf
  <2> QED
    BY <2>1, <2>2, Zenon DEF HandedInv, Handed
<1>2. HandedInv => ExtensionInOnePlace
  BY Zenon DEF HandedInv, Handed, HandedOf, ExtensionInOnePlace, Sending
<1> QED
  BY <1>1, <1>2, NextHanded, TypeCorrect, LinkInvariant, PTL DEF Spec

\* The entries and the counter of the peer set match the connections.
THEOREM PeersMatch == Spec => []PeersMatchConnections
BY EntryOwned, SnapPeersCount, PTL DEF PeersMatchConnections

\* The pending and wait maps and the sends under way match the goroutines.
THEOREM ExtensionsMatch == Spec => []ExtensionsMatched
BY WaitEntries, OneSender, HandedOnce, PTL DEF ExtensionsMatched
==============================================================================
