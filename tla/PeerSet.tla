------------------------------- MODULE PeerSet -------------------------------
(***************************************************************************)
(* The joint eth/snap/diff/trust peer set of eth/peerset.go and the        *)
(* goroutines of a connection that use it: runEthPeer (eth/handler.go),    *)
(* the three run*Extension handlers, the p2p server loop that admits and   *)
(* drops connections, and handler.Stop.                                    *)
(*                                                                         *)
(* A connection runs one goroutine for each protocol both sides support.   *)
(* The eth goroutine has to collect the satellite ("extension") peers of   *)
(* its own connection before it registers.  The two sides meet in          *)
(* peerSet: whoever comes first leaves an entry (pend: the extension was   *)
(* first, wait: eth was first), and the extension hands itself over an     *)
(* unbuffered channel, holding ps.lock while it does.                      *)
(*                                                                         *)
(* All other critical sections of ps.lock are single actions, so the lock  *)
(* is visibly held only by an extension blocked in `wait <- peer`.         *)
(***************************************************************************)
EXTENDS Integers, FiniteSets

CONSTANTS
  ID,          \* node IDs
  Trusted,     \* the IDs whose connections carry the trusted flag
  CapSets,     \* the protocol sets a connection of each node may negotiate
  MaxPeers,    \* srv.MaxPeers, also given to handler.Start as h.maxPeers
  SnapSync,    \* h.snapSync = 1: slots are reserved for snap peers
  SnapReserve, \* the 5 of `all-snp > snp+5`
  MaxSess      \* bound: connections made by each node ID

\* The satellite protocols, in the order runEthPeer waits for them.
Ext == {"snap", "diff", "trust"}

Protocols == Ext \cup {"eth", "verify"}

After(e) == IF e = "snap" THEN "diff" ELSE "trust"

ASSUME PeerSetAssumption ==
  /\ IsFiniteSet(ID)
  /\ Trusted \subseteq ID
  /\ CapSets \in [ID -> SUBSET SUBSET Protocols]
  /\ MaxPeers \in Nat
  /\ SnapSync \in BOOLEAN
  /\ SnapReserve \in Nat
  /\ MaxSess \in [ID -> Nat]

VARIABLES
  up,        \* the connection is in the peers map of Server.run
  sess,      \* number of the latest connection of an ID; 0: never connected
  caps,      \* protocols the connection runs ("verify": peer.VerifyNode())
  closing,   \* p.closed of the connection is closed
  eth,       \* where the eth goroutine is
  at,        \* the extension it waits for, or waited for last
  got,       \* the connection each collected extension peer came from; 0: nil
  seenLen,   \* h.peers.len() read for the snap slot reservation
  ext,       \* where each extension goroutine is
  peers,     \* ps.peers; session 0: no entry
  snapPeers, \* ps.snapPeers
  wait,      \* ps.snapWait, ps.diffWait, ps.trustWait
  pend,      \* ps.snapPend, ps.diffPend, ps.trustPend: connection or 0
  closed     \* ps.closed

connVars == <<up, sess, caps>>
setVars == <<peers, snapPeers, wait, pend, closed>>
vars == <<connVars, closing, eth, at, got, seenLen, ext, setVars>>

NoExt == [e \in Ext |-> 0]
NoPeer == [sess |-> 0, ext |-> NoExt]

EthStates == {"wait", "select", "timeout", "handshake", "slots", "snaplen",
              "maxpeers", "register", "handler", "unregister", "ret"}

\* "sending": registerXExtension blocked in `wait <- peer`;
\* "sendfail": the same send made by diffHandler.RunPeer after a failed handshake.
ExtStates == {"start", "sending", "sendfail", "run", "ret"}

TypeOK ==
  /\ up \in [ID -> BOOLEAN]
  /\ sess \in [ID -> Nat]
  /\ caps \in [ID -> SUBSET Protocols]
  /\ closing \in [ID -> BOOLEAN]
  /\ eth \in [ID -> EthStates]
  /\ at \in [ID -> Ext]
  /\ got \in [ID -> [Ext -> Nat]]
  /\ seenLen \in [ID -> Nat]
  /\ ext \in [ID -> [Ext -> ExtStates]]
  /\ peers \in [ID -> [sess : Nat, ext : [Ext -> Nat]]]
  /\ snapPeers \in Int
  /\ wait \in [Ext -> SUBSET ID]
  /\ pend \in [Ext -> [ID -> Nat]]
  /\ closed \in BOOLEAN

Init ==
  /\ up = [id \in ID |-> FALSE]
  /\ sess = [id \in ID |-> 0]
  /\ caps = [id \in ID |-> {}]
  /\ closing = [id \in ID |-> FALSE]
  /\ eth = [id \in ID |-> "ret"]
  /\ at = [id \in ID |-> "snap"]
  /\ got = [id \in ID |-> NoExt]
  /\ seenLen = [id \in ID |-> 0]
  /\ ext = [id \in ID |-> [e \in Ext |-> "ret"]]
  /\ peers = [id \in ID |-> NoPeer]
  /\ snapPeers = 0
  /\ wait = [e \in Ext |-> {}]
  /\ pend = [e \in Ext |-> [id \in ID |-> 0]]
  /\ closed = FALSE

-----------------------------------------------------------------------------
Sending == {"sending", "sendfail"}

\* ps.lock is not held across a step.
LockFree == \A id \in ID, e \in Ext : ext[id][e] \notin Sending

Up == {id \in ID : up[id]}
Registered == {id \in ID : peers[id].sess # 0}

\* peer.RunningCap for an extension; trust counts only on verify nodes.
Uses(id, e) == e \in caps[id] /\ (e = "trust" => "verify" \in caps[id])

-----------------------------------------------------------------------------
(* Server.run: admission and removal of connections.                       *)

\* Mutant: no errTooManyPeers.
Connect_NoLimit(id) ==
  /\ ~up[id]
  /\ sess[id] < MaxSess[id]
  /\ \E c \in CapSets[id] :
       /\ caps' = [caps EXCEPT ![id] = c]
       /\ eth' = [eth EXCEPT ![id] = IF "eth" \in c THEN "wait" ELSE "ret"]
       /\ ext' = [ext EXCEPT ![id] =
                    [e \in Ext |-> IF e \in c THEN "start" ELSE "ret"]]
  /\ up' = [up EXCEPT ![id] = TRUE]
  /\ sess' = [sess EXCEPT ![id] = @ + 1]
  /\ closing' = [closing EXCEPT ![id] = FALSE]
  /\ at' = [at EXCEPT ![id] = "snap"]
  /\ got' = [got EXCEPT ![id] = NoExt]
  /\ UNCHANGED <<seenLen, setVars>>

\* checkpointAddPeer with addPeerChecks, then Peer.startProtocols.
Connect(id) ==
  /\ ~up[id]
  /\ sess[id] < MaxSess[id]
  /\ id \in Trusted \/ Cardinality(Up) < MaxPeers
  /\ \E c \in CapSets[id] :
       /\ c \cap (Ext \cup {"eth"}) # {}
       /\ caps' = [caps EXCEPT ![id] = c]
       /\ eth' = [eth EXCEPT ![id] = IF "eth" \in c THEN "wait" ELSE "ret"]
       /\ ext' = [ext EXCEPT ![id] =
                    [e \in Ext |-> IF e \in c THEN "start" ELSE "ret"]]
  /\ up' = [up EXCEPT ![id] = TRUE]
  /\ sess' = [sess EXCEPT ![id] = @ + 1]
  /\ closing' = [closing EXCEPT ![id] = FALSE]
  /\ at' = [at EXCEPT ![id] = "snap"]
  /\ got' = [got EXCEPT ![id] = NoExt]
  /\ UNCHANGED <<seenLen, setVars>>

\* A disconnect request, a read or write error, or the remote hanging up.
Disconnect(id) ==
  /\ up[id] /\ ~closing[id]
  /\ closing' = [closing EXCEPT ![id] = TRUE]
  /\ UNCHANGED <<connVars, eth, at, got, seenLen, ext, setVars>>

\* Peer.run returns once every protocol goroutine has (p.wg.Wait), delpeer.
DropPeer(id) ==
  /\ up[id] /\ closing[id]
  /\ eth[id] = "ret" /\ \A e \in Ext : ext[id][e] = "ret"
  /\ up' = [up EXCEPT ![id] = FALSE]
  /\ UNCHANGED <<sess, caps, closing, eth, at, got, seenLen, ext, setVars>>

-----------------------------------------------------------------------------
(* runEthPeer.                                                             *)

\* The eth protocol function returns: the connection is torn down.
EthReturns(id) ==
  /\ eth' = [eth EXCEPT ![id] = "ret"]
  /\ closing' = [closing EXCEPT ![id] = TRUE]
  /\ UNCHANGED <<at, got>>

\* wait*Extension returned extension peer x: go on with the next extension.
Collect(id, x) ==
  /\ got' = [got EXCEPT ![id][at[id]] = x]
  /\ IF at[id] = "trust"
       THEN eth' = [eth EXCEPT ![id] = "handshake"] /\ UNCHANGED at
       ELSE /\ eth' = [eth EXCEPT ![id] = "wait"]
            /\ at' = [at EXCEPT ![id] = After(@)]
  /\ UNCHANGED closing

\* waitSnapExtension, waitDiffExtension, waitTrustExtension up to the select.
WaitExtension(id) ==
  LET e == at[id] IN
  /\ eth[id] = "wait"
  /\ \/ /\ ~Uses(id, e)
        /\ Collect(id, 0)
        /\ UNCHANGED setVars
     \/ /\ Uses(id, e) /\ LockFree
        /\ id \in Registered \/ id \in wait[e]
        /\ EthReturns(id)
        /\ UNCHANGED setVars
     \/ /\ Uses(id, e) /\ LockFree
        /\ id \notin Registered /\ id \notin wait[e] /\ pend[e][id] # 0
        /\ pend' = [pend EXCEPT ![e][id] = 0]
        /\ Collect(id, pend[e][id])
        /\ UNCHANGED <<peers, snapPeers, wait, closed>>
     \/ /\ Uses(id, e) /\ LockFree
        /\ id \notin Registered /\ id \notin wait[e] /\ pend[e][id] = 0
        /\ wait' = [wait EXCEPT ![e] = @ \cup {id}]
        /\ eth' = [eth EXCEPT ![id] = "select"]
        /\ UNCHANGED <<at, got, closing, peers, snapPeers, pend, closed>>
  /\ UNCHANGED <<connVars, seenLen, ext>>

\* The select takes the timer; the branch still needs ps.lock.
WaitTimeout(id) ==
  /\ eth[id] = "select"
  /\ eth' = [eth EXCEPT ![id] = "timeout"]
  /\ UNCHANGED <<connVars, closing, at, got, seenLen, ext, setVars>>

\* Mutant: the wait entry is not deleted.
WaitTimedOut_NoDelete(id) ==
  /\ eth[id] = "timeout" /\ LockFree
  /\ EthReturns(id)
  /\ UNCHANGED <<connVars, seenLen, ext, setVars>>

\* Mutant: after a timeout the select is tried again.
WaitTimedOut_Retry(id) ==
  /\ eth[id] = "timeout" /\ LockFree
  /\ wait' = [wait EXCEPT ![at[id]] = @ \ {id}]
  /\ eth' = [eth EXCEPT ![id] = "select"]
  /\ UNCHANGED <<connVars, closing, at, got, seenLen, ext, peers, snapPeers, pend, closed>>

\* Mutant: the timer branch returns without taking the lock.
WaitTimedOut_NoLock(id) ==
  /\ eth[id] = "timeout"
  /\ EthReturns(id)
  /\ UNCHANGED <<connVars, seenLen, ext, setVars>>

\* Lock, delete the wait entry, unlock, return errPeerWaitTimeout.
WaitTimedOut(id) ==
  /\ eth[id] = "timeout" /\ LockFree
  /\ wait' = [wait EXCEPT ![at[id]] = @ \ {id}]
  /\ EthReturns(id)
  /\ UNCHANGED <<connVars, seenLen, ext, peers, snapPeers, pend, closed>>

\* The eth handshake, which may fail.
Handshake(id) ==
  /\ eth[id] = "handshake"
  /\ \/ /\ eth' = [eth EXCEPT ![id] = "slots"]
        /\ UNCHANGED <<at, got, closing>>
     \/ EthReturns(id)
  /\ UNCHANGED <<connVars, seenLen, ext, setVars>>

\* The snap slot reservation: read len() ...
SlotsLen(id) ==
  /\ eth[id] = "slots"
  /\ \/ /\ SnapSync /\ got[id]["snap"] = 0 /\ LockFree
        /\ seenLen' = [seenLen EXCEPT ![id] = Cardinality(Registered)]
        /\ eth' = [eth EXCEPT ![id] = "snaplen"]
     \/ /\ ~SnapSync \/ got[id]["snap"] # 0
        /\ eth' = [eth EXCEPT ![id] = "maxpeers"]
        /\ UNCHANGED seenLen
  /\ UNCHANGED <<connVars, closing, at, got, ext, setVars>>

\* ... then snapLen(), and reject an untrusted peer beyond the reserve.
SlotsSnapLen(id) ==
  /\ eth[id] = "snaplen" /\ LockFree
  /\ IF seenLen[id] - snapPeers > snapPeers + SnapReserve /\ id \notin Trusted
       THEN EthReturns(id)
       ELSE /\ eth' = [eth EXCEPT ![id] = "maxpeers"]
            /\ UNCHANGED <<at, got, closing>>
  /\ UNCHANGED <<connVars, seenLen, ext, setVars>>

\* h.peers.len() >= h.maxPeers, not asked for trusted peers.
MaxPeersCheck(id) ==
  /\ eth[id] = "maxpeers"
  /\ \/ /\ id \in Trusted \/ (LockFree /\ Cardinality(Registered) < MaxPeers)
        /\ eth' = [eth EXCEPT ![id] = "register"]
        /\ UNCHANGED <<at, got, closing>>
     \/ /\ id \notin Trusted /\ LockFree /\ Cardinality(Registered) >= MaxPeers
        /\ EthReturns(id)
  /\ UNCHANGED <<connVars, seenLen, ext, setVars>>

\* Mutant: registerPeer does not look at ps.closed.
RegisterPeer_NoGate(id) ==
  /\ eth[id] = "register" /\ LockFree
  /\ id \notin Registered
  /\ peers' = [peers EXCEPT ![id] = [sess |-> sess[id], ext |-> got[id]]]
  /\ snapPeers' = IF got[id]["snap"] # 0 THEN snapPeers + 1 ELSE snapPeers
  /\ eth' = [eth EXCEPT ![id] = "handler"]
  /\ UNCHANGED <<connVars, closing, at, got, seenLen, ext, wait, pend, closed>>

\* registerPeer.
RegisterPeer(id) ==
  /\ eth[id] = "register" /\ LockFree
  /\ \/ /\ closed \/ id \in Registered
        /\ EthReturns(id)
        /\ UNCHANGED <<peers, snapPeers>>
     \/ /\ ~closed /\ id \notin Registered
        /\ peers' = [peers EXCEPT ![id] = [sess |-> sess[id], ext |-> got[id]]]
        /\ snapPeers' = IF got[id]["snap"] # 0 THEN snapPeers + 1 ELSE snapPeers
        /\ eth' = [eth EXCEPT ![id] = "handler"]
        /\ UNCHANGED <<at, got, closing>>
  /\ UNCHANGED <<connVars, seenLen, ext, wait, pend, closed>>

\* The message loop ends: the connection is closing, or a message is bad.
HandlerReturns(id) ==
  /\ eth[id] = "handler"
  /\ eth' = [eth EXCEPT ![id] = "unregister"]
  /\ UNCHANGED <<connVars, closing, at, got, seenLen, ext, setVars>>

\* Mutant: unregisterPeer does not give the snap slot back.
UnregisterPeer_NoDecrement(id) ==
  /\ eth[id] = "unregister" /\ LockFree
  /\ peers' = [peers EXCEPT ![id] = NoPeer]
  /\ EthReturns(id)
  /\ UNCHANGED <<connVars, seenLen, ext, snapPeers, wait, pend, closed>>

\* The deferred unregisterPeer(peer.ID()), then runEthPeer returns.
UnregisterPeer(id) ==
  /\ eth[id] = "unregister" /\ LockFree
  /\ IF id \in Registered
       THEN /\ peers' = [peers EXCEPT ![id] = NoPeer]
            /\ snapPeers' = IF peers[id].ext["snap"] # 0
                              THEN snapPeers - 1 ELSE snapPeers
       ELSE UNCHANGED <<peers, snapPeers>>
  /\ EthReturns(id)
  /\ UNCHANGED <<connVars, seenLen, ext, wait, pend, closed>>

-----------------------------------------------------------------------------
(* The extension goroutines.                                               *)

\* An extension protocol function returns: the connection is torn down.
ExtReturns(id, e) ==
  /\ ext' = [ext EXCEPT ![id][e] = "ret"]
  /\ closing' = [closing EXCEPT ![id] = TRUE]

\* registerSnapExtension, registerDiffExtension, registerTrustExtension.
RegisterExtension(id, e) ==
  /\ ext[id][e] = "start"
  /\ \/ /\ "eth" \notin caps[id]
        /\ ExtReturns(id, e)
        /\ UNCHANGED setVars
     \/ /\ "eth" \in caps[id] /\ ~Uses(id, e)
        /\ ext' = [ext EXCEPT ![id][e] = "run"]
        /\ UNCHANGED <<closing, setVars>>
     \/ /\ "eth" \in caps[id] /\ Uses(id, e) /\ LockFree
        /\ id \in Registered \/ pend[e][id] # 0
        /\ ExtReturns(id, e)
        /\ UNCHANGED setVars
     \/ /\ "eth" \in caps[id] /\ Uses(id, e) /\ LockFree
        /\ id \notin Registered /\ pend[e][id] = 0 /\ id \in wait[e]
        /\ wait' = [wait EXCEPT ![e] = @ \ {id}]
        /\ ext' = [ext EXCEPT ![id][e] = "sending"]
        /\ UNCHANGED <<closing, peers, snapPeers, pend, closed>>
     \/ /\ "eth" \in caps[id] /\ Uses(id, e) /\ LockFree
        /\ id \notin Registered /\ pend[e][id] = 0 /\ id \notin wait[e]
        /\ pend' = [pend EXCEPT ![e][id] = sess[id]]
        /\ ext' = [ext EXCEPT ![id][e] = "run"]
        /\ UNCHANGED <<closing, peers, snapPeers, wait, closed>>
  /\ UNCHANGED <<connVars, eth, at, got, seenLen>>

\* diffHandler.RunPeer when the diff handshake fails.
DiffHandshakeFails(id) ==
  /\ ext[id]["diff"] = "start" /\ LockFree
  /\ IF id \in wait["diff"]
       THEN /\ wait' = [wait EXCEPT !["diff"] = @ \ {id}]
            /\ ext' = [ext EXCEPT ![id]["diff"] = "sendfail"]
            /\ UNCHANGED closing
       ELSE ExtReturns(id, "diff") /\ UNCHANGED wait
  /\ UNCHANGED <<connVars, eth, at, got, seenLen, peers, snapPeers, pend, closed>>

\* The rendezvous on the wait channel; the sender then releases ps.lock.
HandOver(id, e) ==
  /\ eth[id] = "select" /\ at[id] = e /\ ext[id][e] \in Sending
  /\ IF ext[id][e] = "sending"
       THEN /\ ext' = [ext EXCEPT ![id][e] = "run"]
            /\ Collect(id, sess[id])
       ELSE /\ ext' = [ext EXCEPT ![id][e] = "ret"]
            /\ got' = [got EXCEPT ![id][e] = sess[id]]
            /\ eth' = [eth EXCEPT ![id] = "wait"]
            /\ at' = [at EXCEPT ![id] = After(e)]
            /\ closing' = [closing EXCEPT ![id] = TRUE]
  /\ UNCHANGED <<connVars, seenLen, setVars>>

\* An extension's message loop ends.
ExtHandlerReturns(id, e) ==
  /\ ext[id][e] = "run"
  /\ ExtReturns(id, e)
  /\ UNCHANGED <<connVars, eth, at, got, seenLen, setVars>>

-----------------------------------------------------------------------------
\* handler.Stop: peerSet.close disconnects the registered peers and shuts the gate.
Close ==
  /\ ~closed /\ LockFree
  /\ closed' = TRUE
  /\ closing' = [id \in ID |-> closing[id] \/ id \in Registered]
  /\ UNCHANGED <<connVars, eth, at, got, seenLen, ext, peers, snapPeers, wait, pend>>

EthStep(id) ==
  \/ WaitExtension(id) \/ WaitTimeout(id) \/ WaitTimedOut(id)
  \/ Handshake(id) \/ SlotsLen(id) \/ SlotsSnapLen(id) \/ MaxPeersCheck(id)
  \/ RegisterPeer(id) \/ HandlerReturns(id) \/ UnregisterPeer(id)

ExtStep(id, e) ==
  RegisterExtension(id, e) \/ HandOver(id, e) \/ ExtHandlerReturns(id, e)

Next ==
  \/ \E id \in ID :
       \/ Connect(id) \/ Disconnect(id) \/ DropPeer(id)
       \/ EthStep(id)
       \/ DiffHandshakeFails(id)
       \/ \E e \in Ext : ExtStep(id, e)
  \/ Close

Spec == Init /\ [][Next]_vars

\* Goroutines keep running.  A message loop is only sure to end once the
\* connection is closing; connecting, hanging up and stopping are not promised.
EthProgress(id) == (eth[id] = "handler" => closing[id]) /\ EthStep(id)
ExtProgress(id, e) == (ext[id][e] = "run" => closing[id]) /\ ExtStep(id, e)

Fairness ==
  \A id \in ID :
    /\ WF_vars(EthProgress(id))
    /\ WF_vars(DropPeer(id))
    /\ \A e \in Ext : WF_vars(ExtProgress(id, e))

FairSpec == Spec /\ Fairness

-----------------------------------------------------------------------------
(* Properties.                                                             *)

\* snapPeers, which is only ever incremented and decremented, is the number of
\* registered peers that have a snap extension (snapLen: "a subset of eth").
SnapPeersCounted ==
  snapPeers = Cardinality({id \in ID : peers[id].ext["snap"] # 0})

\* The entry of an ID belongs to the connection that now runs, and is there
\* exactly from registerPeer to the deferred unregisterPeer: unregistering by
\* ID never removes the entry of a later connection, and no entry outlives its
\* own (the lookup after registerPeer cannot find nil).
EntryOwnedByConnection ==
  \A id \in ID :
    IF eth[id] \in {"handler", "unregister"}
      THEN up[id] /\ peers[id] = [sess |-> sess[id], ext |-> got[id]]
      ELSE peers[id] = NoPeer

\* The map and its counter match the connections: an entry for the running one
\* of each node, and snapPeers counting the entries (the slot reservation of
\* runEthPeer compares the two).
PeersMatchConnections == EntryOwnedByConnection /\ SnapPeersCounted

\* A wait entry has its eth goroutine behind it, waiting for that extension.
\* One left behind would make the next connection of the node fail with
\* errPeerAlreadyRegistered, or a later extension send to a dead channel.
WaitEntryHasWaiter ==
  \A e \in Ext : \A id \in wait[e] :
    eth[id] \in {"select", "timeout"} /\ at[id] = e

\* ps.lock is held across a step by at most one extension, and the channel it
\* sends on is the one its own eth goroutine created for it.
OneSenderWithPartner ==
  \A id \in ID, e \in Ext : ext[id][e] \in Sending =>
    /\ eth[id] \in {"select", "timeout"} /\ at[id] = e /\ id \notin wait[e]
    /\ \A j \in ID, f \in Ext : ext[j][f] \in Sending => <<j, f>> = <<id, e>>

\* The extension of a connection is handed over once, whichever side comes first:
\* it is not pending while it is being sent or after it was collected, so what
\* a later connection of the node finds pending was never used before.
ExtensionInOnePlace ==
  \A id \in ID, e \in Ext : sess[id] # 0 /\ pend[e][id] = sess[id] =>
    got[id][e] # sess[id] /\ ext[id][e] \notin Sending

\* The two halves of a connection find each other: the pending and the wait maps
\* and the sends under way belong to goroutines that are there for them.
ExtensionsMatched == WaitEntryHasWaiter /\ OneSenderWithPartner /\ ExtensionInOnePlace

\* The maxPeers test of runEthPeer is not atomic with registerPeer; untrusted
\* peers still never exceed MaxPeers, because Server.run admits connections
\* one at a time under the same limit.
UntrustedWithinMaxPeers == Cardinality(Registered \ Trusted) <= MaxPeers

\* The extension holds ps.lock and sends to an eth goroutine that has already
\* taken its timer and now wants ps.lock: neither can move again.
Frozen ==
  \E id \in ID, e \in Ext : ext[id][e] \in Sending /\ eth[id] = "timeout"

\* peerset.go: "extensionWaitTimeout is the maximum allowed time for the
\* extension wait to complete before dropping the connection".
ExtensionWaitEnds ==
  \A id \in ID : eth[id] \in {"select", "timeout"} ~> eth[id] \notin {"select", "timeout"}

\* The race between the timer and a late extension is the only thing that can
\* keep an extension wait from ending.
WaitEndsUnlessFrozen ==
  \A id \in ID : eth[id] \in {"select", "timeout"} ~>
                   (eth[id] \notin {"select", "timeout"} \/ Frozen)

\* handler.Stop: close disconnects the registered peers, "sessions which are
\* already established but not added to h.peers yet will exit when they try to
\* register", so the set empties and stays empty (unless frozen).
StopEmptiesPeerSet == closed ~> (Registered = {} \/ Frozen)

\* What a user of ps.lock meets: free, held by an extension that is being
\* received, or held for good.
LockView == IF LockFree THEN "free" ELSE IF Frozen THEN "stuck" ELSE "held"

Lock == INSTANCE PeerLock WITH lock <- LockView

\* The peer set implements PeerLock: every critical section that spans a channel
\* send ends by itself, except the one whose receiver has taken its timer, and
\* that one never ends (registerXExtension and waitXExtension).
KeepsLockPromise == Lock!Spec
==============================================================================
