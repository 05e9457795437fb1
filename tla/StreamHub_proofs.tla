-------------------------- MODULE StreamHub_proofs --------------------------
(***************************************************************************)
(* Proofs about StreamHub: its types, the registration of stream handlers, *)
(* the bound on the caches and the copies of an item in a stream.          *)
(***************************************************************************)
EXTENDS StreamHub, FiniteSetTheorems, TLAPS

\* What the types rest on: a goroutine that handles an item has a call number,
\* and one that sends has a handler to send to.
AtWork ==
  \A p \in Peer :
    /\ pc[p] # "idle" => call[p] # 0
    /\ pc[p] = "send" => cur[p] \in Handler

TypeInv == TypeOK /\ AtWork

\* What Push puts in a channel is a message.
LEMMA MessageOf ==
  ASSUME NEW p \in Peer, NEW k \in 1..MaxCall[p], NEW i \in Item
  PROVE  [peer |-> p, call |-> k, item |-> i] \in Message
<1>1. [peer |-> p, call |-> k, item |-> i] \in [peer : {p}, call : 1..MaxCall[p], item : Item]
  BY Zenon
<1> QED
  BY <1>1, Zenon DEF Message

\* Updating a set-valued function with a subset keeps its type.
LEMMA UpdateSubset ==
  ASSUME NEW D, NEW R, NEW f \in [D -> SUBSET R], NEW d \in D, NEW S \in SUBSET R
  PROVE  [f EXCEPT ![d] = S] \in [D -> SUBSET R]
BY Zenon

\* The steps of a peer's goroutine keep the types.
LEMMA PeerTypes ==
  ASSUME TypeInv, NEW p \in Peer, PeerStep(p) \/ \E i \in Item : Process(p, i)
  PROVE  TypeInv'
<1> USE StreamHubAssumption DEF TypeInv
<1>1. ASSUME NEW i \in Item, Process(p, i) PROVE TypeInv'
  <2>1. TypeOK'
    BY <1>1 DEF Process, TypeOK, streamVars, PeerStates
  <2>2. AtWork'
    BY <1>1 DEF Process, TypeOK, AtWork
  <2> QED
    BY <2>1, <2>2, Zenon
<1>2. CASE CheckSize(p)
  BY <1>2, Zenon DEF CheckSize, TypeOK, AtWork, streamVars, PeerStates
<1>3. CASE Pop(p)
  BY <1>3, Zenon DEF Pop, TypeOK, AtWork, streamVars, PeerStates
<1>4. CASE Insert(p)
  <2>1. known' \subseteq Item /\ left' \in [Peer -> SUBSET Name]
    <3>1. known' = known \cup {item[p]} /\ item[p] \in Item /\ known \subseteq Item
      BY <1>4, Zenon DEF Insert, TypeOK
    <3>2. left' = left \/ left' = [left EXCEPT ![p] = Name]
      BY <1>4, Zenon DEF Insert
    <3>3. left \in [Peer -> SUBSET Name]
      BY Zenon DEF TypeOK
    <3> QED
      BY <3>1, <3>2, <3>3, UpdateSubset
  <2>2. pc' \in [Peer -> PeerStates]
    <3>1. pc' = [pc EXCEPT ![p] = "idle"] \/ pc' = [pc EXCEPT ![p] = "iter"]
      BY <1>4, Zenon DEF Insert
    <3>2. pc \in [Peer -> PeerStates]
      BY Zenon DEF TypeOK
    <3> QED
      BY <3>1, <3>2, Zenon DEF PeerStates
  <2>3. AtWork'
    BY <1>4 DEF Insert, TypeOK, AtWork
  <2> QED
    BY <1>4, <2>1, <2>2, <2>3, Zenon DEF Insert, TypeOK, streamVars
<1>5. CASE Snapshot(p)
  <2>1. pc' \in [Peer -> PeerStates] /\ AtWork'
    BY <1>5, Zenon DEF Snapshot, TypeOK, AtWork, PeerStates
  <2>2. left' \in [Peer -> SUBSET Name]
    <3>1. left' = left \/ \E n \in left[p] : left' = [left EXCEPT ![p] = left[p] \ {n}]
      BY <1>5, Zenon DEF Snapshot
    <3>2. left \in [Peer -> SUBSET Name]
      BY Zenon DEF TypeOK
    <3> QED
      BY <3>1, <3>2, UpdateSubset
  <2>3. todo' \in [Peer -> SUBSET Handler]
    <3>1. \A n \in left[p] : {serverPeer[n]} \ {NoHandler} \in SUBSET Handler
      BY Zenon DEF TypeOK
    <3>2. \/ todo' = todo
          \/ \E n \in left[p] : todo' = [todo EXCEPT ![p] =
                                todo[p] \cup ({serverPeer[n]} \ {NoHandler})]
      BY <1>5, Zenon DEF Snapshot
    <3>3. todo \in [Peer -> SUBSET Handler]
      BY Zenon DEF TypeOK
    <3>4. \A n \in left[p] : todo[p] \cup ({serverPeer[n]} \ {NoHandler}) \in SUBSET Handler
      BY <3>1, <3>3, Zenon
    <3> QED
      BY <3>2, <3>3, <3>4, UpdateSubset
  <2> QED
    BY <1>5, <2>1, <2>2, <2>3, Zenon DEF Snapshot, TypeOK, streamVars
<1>6. CASE NextClient(p)
  <2>1. pc' \in [Peer -> PeerStates]
    <3>1. \E s \in {"send", "idle"} : pc' = [pc EXCEPT ![p] = s]
      BY <1>6, Zenon DEF NextClient
    <3> QED
      BY <3>1, Zenon DEF TypeOK, PeerStates
  <2>2. /\ todo' \in [Peer -> SUBSET Handler]
        /\ cur' \in [Peer -> Handler \cup {NoHandler}]
    <3>1. \/ todo' = todo /\ cur' = cur
          \/ \E h \in todo[p] : /\ todo' = [todo EXCEPT ![p] = todo[p] \ {h}]
                              /\ cur' = [cur EXCEPT ![p] = h]
      BY <1>6, Zenon DEF NextClient
    <3>2. /\ todo \in [Peer -> SUBSET Handler]
          /\ cur \in [Peer -> Handler \cup {NoHandler}]
      BY Zenon DEF TypeOK
    <3>0. \A h \in todo[p] : todo[p] \ {h} \in SUBSET Handler
      BY <3>2, Zenon
    <3>3. todo' \in [Peer -> SUBSET Handler]
      BY <3>0, <3>1, <3>2, UpdateSubset
    <3>4. cur' \in [Peer -> Handler \cup {NoHandler}]
      BY <3>1, <3>2, Zenon
    <3> QED
      BY <3>3, <3>4, Zenon
  <2>3. AtWork'
    BY <1>6 DEF NextClient, TypeOK, AtWork
  <2> QED
    BY <1>6, <2>1, <2>2, <2>3, Zenon DEF NextClient, TypeOK, streamVars
<1>7. CASE Push(p)
  <2>1. cur[p] \in Handler /\ call[p] \in 1..MaxCall[p]
    BY <1>7 DEF Push, TypeOK, AtWork
  <2>2. [peer |-> p, call |-> call[p], item |-> item[p]] \in Message
    <3>1. item[p] \in Item
      BY Zenon DEF TypeOK
    <3> QED
      BY <2>1, <3>1, MessageOf, Zenon
  <2>3. chan' \in [Handler -> Seq(Message)]
    BY <1>7, <2>1, <2>2 DEF Push, TypeOK
  <2>4. pc' \in [Peer -> PeerStates] /\ AtWork'
    BY <1>7, Zenon DEF Push, TypeOK, PeerStates, AtWork
  <2> QED
    BY <1>7, <2>3, <2>4, Zenon DEF Push, TypeOK
<1> QED
  BY <1>1, <1>2, <1>3, <1>4, <1>5, <1>6, <1>7, Zenon DEF PeerStep

\* The steps of a handler, its goroutines and its client keep the types.
LEMMA HandlerTypes ==
  ASSUME TypeInv, NEW h \in Handler,
         \/ CheckName(h) \/ Register(h) \/ Deliver(h) \/ CloseStream(h) \/ Remove(h)
         \/ ClientGone(h)
         \/ \E m \in fly[h] : SendDone(h, m)
  PROVE  TypeInv'
<1> USE StreamHubAssumption DEF TypeInv
<1>1. CASE CheckName(h)
  <2>1. hpc' \in [Handler -> HandlerStates]
    <3>1. \/ hpc' = [hpc EXCEPT ![h] = "checked"]
          \/ hpc' = [hpc EXCEPT ![h] = "refused"]
      BY <1>1, Zenon DEF CheckName
    <3> QED
      BY <3>1, Zenon DEF TypeOK, HandlerStates
  <2>2. raced' \subseteq Name
    <3>1. raced' = raced \/ raced' = raced \cup {NameOf[h]}
      BY <1>1, Zenon DEF CheckName
    <3> QED
      BY <3>1 DEF TypeOK
  <2> QED
    BY <1>1, <2>1, <2>2, Zenon DEF CheckName, TypeOK, AtWork, peerVars, streamVars
<1>2. CASE Register(h)
  BY <1>2, Zenon DEF Register, TypeOK, AtWork, peerVars, streamVars, HandlerStates
<1>3. CASE Deliver(h)
  <2>1. Head(chan[h]) \in Message /\ Tail(chan[h]) \in Seq(Message)
    BY <1>3 DEF Deliver, TypeOK
  <2> QED
    BY <1>3, <2>1, Zenon DEF Deliver, TypeOK, AtWork, peerVars
<1>4. CASE CloseStream(h)
  BY <1>4 DEF CloseStream, TypeOK, AtWork, peerVars, HandlerStates
<1>5. CASE Remove(h)
  BY <1>5, Zenon DEF Remove, TypeOK, AtWork, peerVars, streamVars, HandlerStates
<1>6. CASE ClientGone(h)
  BY <1>6, Zenon DEF ClientGone, TypeOK, AtWork, peerVars, streamVars
<1>7. ASSUME NEW m \in fly[h], SendDone(h, m) PROVE TypeInv'
  <2>1. fly' \in [Handler -> SUBSET Message]
    BY <1>7, Zenon DEF SendDone, TypeOK
  <2>2. stuck' \in [Handler -> SUBSET Message] /\ sent' \in [Handler -> SUBSET Message]
    <3>1. m \in Message
      BY Zenon DEF TypeOK
    <3>2. stuck' = stuck \/ stuck' = [stuck EXCEPT ![h] = stuck[h] \cup {m}]
      BY <1>7, Zenon DEF SendDone
    <3>3. sent' = sent \/ sent' = [sent EXCEPT ![h] = sent[h] \cup {m}]
      BY <1>7, Zenon DEF SendDone
    <3>0. stuck \in [Handler -> SUBSET Message] /\ sent \in [Handler -> SUBSET Message]
      BY Zenon DEF TypeOK
    <3>6. stuck[h] \cup {m} \in SUBSET Message /\ sent[h] \cup {m} \in SUBSET Message
      BY <3>0, <3>1, Zenon
    <3>7. /\ [stuck EXCEPT ![h] = stuck[h] \cup {m}] \in [Handler -> SUBSET Message]
          /\ [sent EXCEPT ![h] = sent[h] \cup {m}] \in [Handler -> SUBSET Message]
      BY <3>0, <3>6, UpdateSubset, Zenon
    <3>4. stuck' \in [Handler -> SUBSET Message]
      BY <3>0, <3>2, <3>7, Zenon
    <3>5. sent' \in [Handler -> SUBSET Message]
      BY <3>0, <3>3, <3>7, Zenon
    <3> QED
      BY <3>4, <3>5, Zenon
  <2> QED
    BY <1>7, <2>1, <2>2, Zenon DEF SendDone, TypeOK, AtWork, peerVars
<1> QED
  BY <1>1, <1>2, <1>3, <1>4, <1>5, <1>6, <1>7, Zenon

\* The types of the hub are an invariant.
LEMMA TypeInvariant == Spec => []TypeInv
<1>1. Init => TypeInv
  <2> SUFFICES ASSUME Init PROVE TypeInv
    BY Zenon
  <2>1. (CHOOSE i \in Item : TRUE) \in Item
    BY StreamHubAssumption, Zenon
  <2> QED
    BY <2>1, StreamHubAssumption
      DEF Init, TypeInv, TypeOK, AtWork, PeerStates, HandlerStates
<1>2. TypeInv /\ [Next]_vars => TypeInv'
  <2> SUFFICES ASSUME TypeInv, [Next]_vars PROVE TypeInv'
    BY Zenon
  <2>1. CASE UNCHANGED vars
    BY <2>1, Zenon DEF vars, peerVars, streamVars, TypeInv, TypeOK, AtWork
  <2> QED
    BY <2>1, PeerTypes, HandlerTypes, Zenon DEF Next
<1> QED
  BY <1>1, <1>2, PTL DEF Spec

\* The hub stays within its types for any number of peers, clients and items.
THEOREM TypeCorrect == Spec => []TypeOK
BY TypeInvariant, PTL DEF TypeInv
-----------------------------------------------------------------------------
(* Registration.  HandlerHasEntry needs to know that a name whose Has test *)
(* succeeded is still free, unless two calls raced.                        *)

Running(h) == hpc[h] \in {"loop", "leaving"}

\* Between Has and Set the name is free and no other handler of it is past Has.
CheckedAlone ==
  \A g, h \in Handler :
    /\ hpc[g] = "checked" /\ NameOf[g] \notin raced
    /\ NameOf[h] = NameOf[g] /\ h # g
    => ~Running(h) /\ hpc[h] # "checked"

EntryInv == EntryHasHandler /\ HandlerHasEntry /\ CheckedAlone /\ OpenStreamKept

\* Every step keeps serverPeer and the running handlers in agreement.
LEMMA NextEntry == TypeInv /\ EntryInv /\ [Next]_vars => EntryInv'
<1> SUFFICES ASSUME TypeInv, EntryInv, [Next]_vars PROVE EntryInv'
  BY Zenon
<1> USE StreamHubAssumption DEF EntryInv, TypeInv, Running
<1>1. ASSUME NEW h \in Handler, CheckName(h) PROVE EntryInv'
  <2>0. \/ hpc' = [hpc EXCEPT ![h] = "checked"]
        \/ hpc' = [hpc EXCEPT ![h] = "refused"]
    BY <1>1, Zenon DEF CheckName
  <2>1. EntryHasHandler'
    <3>1. \A g \in Handler : hpc[g] \in {"loop", "leaving"} => hpc'[g] = hpc[g]
      BY <1>1, <2>0, Zenon DEF CheckName, TypeOK
    <3>2. serverPeer' = serverPeer /\ serverPeer \in [Name -> Handler \cup {NoHandler}]
      BY <1>1, Zenon DEF CheckName, TypeOK
    <3> QED
      BY <3>1, <3>2 DEF EntryHasHandler
  <2>2. HandlerHasEntry'
    BY <1>1 DEF CheckName, HandlerHasEntry, TypeOK
  <2>3. CheckedAlone'
    <3>1. CASE serverPeer[NameOf[h]] = NoHandler
      <4>1. /\ hpc' = [hpc EXCEPT ![h] = "checked"]
            /\ raced' = IF \E g \in Handler : NameOf[g] = NameOf[h] /\ hpc[g] = "checked"
                          THEN raced \cup {NameOf[h]} ELSE raced
        BY <1>1, <3>1, Zenon DEF CheckName
      <4> QED
        BY <1>1, <3>1, <4>1 DEF CheckedAlone, HandlerHasEntry, TypeOK
    <3>2. CASE serverPeer[NameOf[h]] # NoHandler
      <4>1. hpc' = [hpc EXCEPT ![h] = "refused"] /\ raced' = raced
        BY <1>1, <3>2, Zenon DEF CheckName
      <4> QED
        BY <4>1, Zenon DEF CheckedAlone, TypeOK
    <3> QED
      BY <3>1, <3>2, Zenon
  <2>4. OpenStreamKept'
    BY <1>1 DEF CheckName, OpenStreamKept, TypeOK, streamVars
  <2> QED
    BY <2>1, <2>2, <2>3, <2>4, Zenon
<1>2. ASSUME NEW h \in Handler, Register(h) PROVE EntryInv'
  <2>1. EntryHasHandler'
    BY <1>2 DEF Register, EntryHasHandler, TypeOK
  <2>2. HandlerHasEntry'
    BY <1>2, Zenon DEF Register, HandlerHasEntry, CheckedAlone, TypeOK
  <2>3. CheckedAlone'
    BY <1>2, Zenon DEF Register, CheckedAlone, TypeOK
  <2>4. OpenStreamKept'
    BY <1>2, Zenon DEF Register, OpenStreamKept, TypeOK, streamVars
  <2> QED
    BY <2>1, <2>2, <2>3, <2>4, Zenon
<1>3. ASSUME NEW h \in Handler, CloseStream(h) PROVE EntryInv'
  <2>1. EntryHasHandler' /\ HandlerHasEntry'
    BY <1>3 DEF CloseStream, EntryHasHandler, HandlerHasEntry, TypeOK
  <2>2. CheckedAlone'
    BY <1>3, Zenon DEF CloseStream, CheckedAlone, TypeOK
  <2>3. OpenStreamKept'
    BY <1>3, Zenon DEF CloseStream, OpenStreamKept, TypeOK
  <2> QED
    BY <2>1, <2>2, <2>3, Zenon
<1>4. ASSUME NEW h \in Handler, Remove(h) PROVE EntryInv'
  <2>1. EntryHasHandler'
    BY <1>4 DEF Remove, EntryHasHandler, TypeOK
  <2>2. HandlerHasEntry'
    BY <1>4, Zenon DEF Remove, HandlerHasEntry, TypeOK
  <2>3. CheckedAlone'
    BY <1>4, Zenon DEF Remove, CheckedAlone, TypeOK
  <2>4. OpenStreamKept'
    BY <1>4, Zenon DEF Remove, OpenStreamKept, TypeOK, streamVars
  <2> QED
    BY <2>1, <2>2, <2>3, <2>4, Zenon
<1>5. ASSUME NEW h \in Handler, NEW m \in fly[h], SendDone(h, m) PROVE EntryInv'
  <2>1. OpenStreamKept'
    <3>1. \/ stuck' = stuck
          \/ ~open[h] /\ stuck' = [stuck EXCEPT ![h] = stuck[h] \cup {m}]
      BY <1>5, Zenon DEF SendDone, OpenStreamKept
    <3> QED
      BY <1>5, <3>1, Zenon DEF SendDone, OpenStreamKept, TypeOK
  <2> QED
    BY <1>5, <2>1, Zenon DEF SendDone, EntryHasHandler, HandlerHasEntry, CheckedAlone
<1>6. ASSUME NEW h \in Handler, ClientGone(h) PROVE EntryInv'
  <2>1. EntryHasHandler' /\ HandlerHasEntry' /\ CheckedAlone'
    BY <1>6, Zenon DEF ClientGone, EntryHasHandler, HandlerHasEntry, CheckedAlone
  <2>2. OpenStreamKept'
    BY <1>6, Zenon DEF ClientGone, OpenStreamKept, TypeOK, streamVars
  <2> QED
    BY <2>1, <2>2, Zenon
<1>7. CASE UNCHANGED <<serverPeer, hpc, stuck, open, raced>>
  BY <1>7, Zenon DEF EntryHasHandler, HandlerHasEntry, CheckedAlone, OpenStreamKept
<1>8. ASSUME NEW p \in Peer, PeerStep(p) \/ \E i \in Item : Process(p, i)
      PROVE  UNCHANGED <<serverPeer, hpc, stuck, open, raced>>
  BY <1>8, Zenon DEF PeerStep, Process, CheckSize, Pop, Insert, Snapshot, NextClient, Push,
       streamVars
<1>9. ASSUME NEW h \in Handler, Deliver(h)
      PROVE  UNCHANGED <<serverPeer, hpc, stuck, open, raced>>
  BY <1>9, Zenon DEF Deliver
<1>10. CASE UNCHANGED vars
  BY <1>7, <1>10, Zenon DEF vars, streamVars
<1> QED
  BY <1>1, <1>2, <1>3, <1>4, <1>5, <1>6, <1>7, <1>8, <1>9, <1>10, Zenon DEF Next

\* serverPeer and the running handlers agree in every state.
LEMMA EntryInvariant == Spec => []EntryInv
<1>1. Init => EntryInv
  BY StreamHubAssumption, Zenon DEF Init, EntryInv, EntryHasHandler, HandlerHasEntry,
       CheckedAlone, OpenStreamKept, Running
<1> QED
  BY <1>1, NextEntry, TypeInvariant, PTL DEF Spec

\* Every registered channel has a running handler that reads it.
THEOREM EntriesHaveHandlers == Spec => []EntryHasHandler
BY EntryInvariant, PTL DEF EntryInv

\* Every running handler is registered, unless two calls of its name raced.
THEOREM HandlersHaveEntries == Spec => []HandlerHasEntry
BY EntryInvariant, PTL DEF EntryInv

\* The entries of serverPeer and the running handlers match.
THEOREM EntriesMatch == Spec => []EntriesMatchHandlers
BY EntriesHaveHandlers, HandlersHaveEntries, PTL DEF EntriesMatchHandlers

\* No stream of an open client is ended.
THEOREM OpenStreams == Spec => []OpenStreamKept
BY EntryInvariant, PTL DEF EntryInv
-----------------------------------------------------------------------------
(* The caches.  A peer that passed the size test will insert without       *)
(* looking again: it is counted with the hashes already there.             *)

Inserting(K) == {p \in Peer : pc[p] = "insert" /\ item[p] \in K}

Within(K, c) ==
  Cardinality(known \cap K) + Cardinality(Inserting(K)) <= c - 1 + Cardinality(Peer)

CacheInv == Within(Tx, TxCap) /\ Within(Block, BlockCap)

\* The sets that are counted are finite.
LEMMA CountsFinite ==
  ASSUME TypeOK, NEW K \in {Tx, Block}
  PROVE  /\ IsFiniteSet(known \cap K) /\ Cardinality(known \cap K) \in Nat
         /\ IsFiniteSet(Inserting(K)) /\ Cardinality(Inserting(K)) \in Nat
         /\ Cardinality(Inserting(K)) <= Cardinality(Peer)
         /\ Cardinality(Peer) \in Nat
<1>1. IsFiniteSet(K) /\ IsFiniteSet(Peer)
  BY StreamHubAssumption, Zenon
<1>2. known \cap K \in SUBSET K /\ Inserting(K) \in SUBSET Peer
  BY Zenon DEF Inserting
<1>3. IsFiniteSet(known \cap K) /\ IsFiniteSet(Inserting(K))
      /\ Cardinality(Inserting(K)) <= Cardinality(Peer)
  BY <1>1, <1>2, FS_Subset, Zenon
<1> QED
  BY <1>1, <1>3, FS_CardinalityType, Zenon

\* The bound in the next state, in numbers.
LEMMA WithinNext ==
  ASSUME NEW K, NEW c \in Nat, NEW a \in Int, NEW b \in Int,
         Cardinality(known' \cap K) = a, Cardinality(Inserting(K)') = b,
         Cardinality(Peer) \in Nat, a + b <= c - 1 + Cardinality(Peer)
  PROVE  Within(K, c)'
BY Zenon DEF Within, Inserting

\* Fewer hashes and no more insertions stay within the bound.
LEMMA WithinShrinks ==
  ASSUME TypeOK, NEW K \in {Tx, Block}, NEW c \in Nat, Within(K, c),
         (known \cap K)' \subseteq known \cap K, Inserting(K)' \subseteq Inserting(K)
  PROVE  Within(K, c)'
<1>0. /\ IsFiniteSet(known \cap K) /\ Cardinality(known \cap K) \in Nat
      /\ IsFiniteSet(Inserting(K)) /\ Cardinality(Inserting(K)) \in Nat
      /\ Cardinality(Inserting(K)) <= Cardinality(Peer)
      /\ Cardinality(Peer) \in Nat
  BY CountsFinite, Zenon
<1>a. Cardinality(known \cap K) + Cardinality(Inserting(K)) <= c - 1 + Cardinality(Peer)
  BY Zenon DEF Within
<1>1. /\ Cardinality((known \cap K)') <= Cardinality(known \cap K)
      /\ Cardinality(Inserting(K)') <= Cardinality(Inserting(K))
      /\ IsFiniteSet((known \cap K)') /\ IsFiniteSet(Inserting(K)')
  BY <1>0, <1>a, FS_Subset, Zenon
<1>2. Cardinality((known \cap K)') \in Nat /\ Cardinality(Inserting(K)') \in Nat
  BY <1>1, FS_CardinalityType, Zenon
<1>3. Cardinality(known' \cap K) + Cardinality(Inserting(K)') <= c - 1 + Cardinality(Peer)
  BY <1>1, <1>2, <1>0, <1>a DEF Within
<1> QED
  BY <1>2, <1>3, <1>0, <1>a, WithinNext

\* The step of one peer keeps the bound of one cache.
LEMMA StepWithin ==
  ASSUME TypeInv, NEW K \in {Tx, Block}, NEW c \in Nat \ {0}, Within(K, c),
         \A i \in K : Cap(i) = c /\ Cached(i) = known \cap K,
         NEW p \in Peer, PeerStep(p) \/ \E i \in Item : Process(p, i)
  PROVE  Within(K, c)'
<1>0. /\ IsFiniteSet(known \cap K) /\ Cardinality(known \cap K) \in Nat
      /\ IsFiniteSet(Inserting(K)) /\ Cardinality(Inserting(K)) \in Nat
      /\ Cardinality(Inserting(K)) <= Cardinality(Peer)
      /\ Cardinality(Peer) \in Nat
  BY CountsFinite, Zenon DEF TypeInv
<1>a. Cardinality(known \cap K) + Cardinality(Inserting(K)) <= c - 1 + Cardinality(Peer)
  BY Zenon DEF Within
<1> USE DEF TypeInv
<1>1. CASE CheckSize(p) /\ pc'[p] = "insert" /\ item[p] \in K
  <2>1. Cardinality(known \cap K) <= c - 1
    <3>1. ~(Cardinality(Cached(item[p])) > Cap(item[p]) - 1)
      BY <1>1, Zenon DEF CheckSize, TypeOK
    <3>2. Cached(item[p]) = known \cap K /\ Cap(item[p]) = c
      BY <1>1, Zenon
    <3> QED
      BY <3>1, <3>2, <1>0, <1>a
  <2>2. Inserting(K)' \in SUBSET Peer
    BY Zenon DEF Inserting
  <2>3. Cardinality(Inserting(K)') <= Cardinality(Peer) /\ IsFiniteSet(Inserting(K)')
    BY <2>2, FS_Subset, StreamHubAssumption, Zenon
  <2>4. Cardinality(Inserting(K)') \in Nat /\ known' = known
    BY <1>1, <2>3, FS_CardinalityType, Zenon DEF CheckSize
  <2> QED
    BY <2>1, <2>3, <2>4, <1>0, <1>a, WithinNext
<1>2. CASE Insert(p) /\ item[p] \in K
  <2>1. p \in Inserting(K)
    BY <1>2, Zenon DEF Insert, Inserting
  <2>2. Inserting(K)' = Inserting(K) \ {p}
    BY <1>2, Zenon DEF Insert, Inserting, TypeOK
  <2>3. (known \cap K)' = (known \cap K) \cup {item[p]}
    BY <1>2, Zenon DEF Insert
  <2>4. Cardinality(Inserting(K)') = Cardinality(Inserting(K)) - 1
    <3>1. IsFiniteSet(Inserting(K))
      BY <1>0, Zenon
    <3>2. Cardinality(Inserting(K) \ {p}) = Cardinality(Inserting(K)) - 1
      BY <2>1, <3>1, FS_RemoveElement, Zenon
    <3> QED
      BY <2>2, <3>2, Zenon
  <2>5. \/ Cardinality((known \cap K)') = Cardinality(known \cap K)
        \/ Cardinality((known \cap K)') = Cardinality(known \cap K) + 1
    BY <2>3, <1>0, <1>a, FS_AddElement, Zenon
  <2>6. /\ Cardinality((known \cap K)') \in Int /\ Cardinality(Inserting(K)') \in Int
        /\ Cardinality((known \cap K)') + Cardinality(Inserting(K)') <= c - 1 + Cardinality(Peer)
    BY <2>4, <2>5, <1>0, <1>a DEF Within
  <2> QED
    BY <2>6, <1>0, <1>a, WithinNext, Zenon
<1>3. CASE ~(CheckSize(p) /\ pc'[p] = "insert" /\ item[p] \in K)
           /\ ~(Insert(p) /\ item[p] \in K)
  <2>1. (known \cap K)' \subseteq known \cap K
    BY <1>3, Zenon DEF PeerStep, Process, CheckSize, Pop, Insert, Snapshot, NextClient, Push
  <2>2. \A q \in Peer : pc'[q] = "insert" /\ item'[q] \in K =>
                         pc[q] = "insert" /\ item[q] \in K
    BY <1>3 DEF PeerStep, Process, CheckSize, Pop, Insert, Snapshot, NextClient, Push,
         TypeOK
  <2>3. Inserting(K)' \subseteq Inserting(K)
    BY <2>2, Zenon DEF Inserting
  <2> QED
    BY <2>1, <2>3, WithinShrinks, Zenon
<1> QED
  BY <1>1, <1>2, <1>3, Zenon

\* The caches pass their capacity by at most one hash less than there are peers.
THEOREM KnownBounded == Spec => []KnownOverrunBounded
<1> USE StreamHubAssumption
<1>1. Init => CacheInv
  <2> SUFFICES ASSUME Init PROVE CacheInv
    BY Zenon
  <2>1. known \cap Tx = {} /\ known \cap Block = {}
        /\ Inserting(Tx) = {} /\ Inserting(Block) = {}
    BY Zenon DEF Init, Inserting
  <2>2. Cardinality({}) = 0 /\ Cardinality(Peer) \in Nat
    BY FS_EmptySet, FS_CardinalityType, Zenon
  <2>3. /\ Cardinality(known \cap Tx) = 0 /\ Cardinality(known \cap Block) = 0
        /\ Cardinality(Inserting(Tx)) = 0 /\ Cardinality(Inserting(Block)) = 0
    BY <2>1, <2>2, Zenon
  <2>4. \A c \in Nat \ {0}, n \in Nat : 0 + 0 <= c - 1 + n
    OBVIOUS
  <2>5. TxCap \in Nat \ {0} /\ BlockCap \in Nat \ {0}
    BY Zenon
  <2> HIDE StreamHubAssumption
  <2> QED
    BY <2>2, <2>3, <2>4, <2>5, Zenon DEF CacheInv, Within
<1>2. TypeInv /\ CacheInv /\ [Next]_vars => CacheInv'
  <2> SUFFICES ASSUME TypeInv, CacheInv, [Next]_vars PROVE CacheInv'
    BY Zenon
  <2> USE DEF CacheInv
  <2>1. /\ \A i \in Tx : Cap(i) = TxCap /\ Cached(i) = known \cap Tx
        /\ \A i \in Block : Cap(i) = BlockCap /\ Cached(i) = known \cap Block
    BY Zenon DEF Cap, Cached
  <2>2. ASSUME NEW p \in Peer, PeerStep(p) \/ \E i \in Item : Process(p, i)
        PROVE  CacheInv'
    BY <2>1, <2>2, StepWithin, Zenon
  <2>3. CASE UNCHANGED <<known, pc, item>>
    BY <2>3, Zenon DEF Within, Inserting
  <2>4. ASSUME NEW h \in Handler,
               \/ CheckName(h) \/ Register(h) \/ Deliver(h) \/ CloseStream(h) \/ Remove(h)
               \/ ClientGone(h)
               \/ \E m \in fly[h] : SendDone(h, m)
        PROVE  UNCHANGED <<known, pc, item>>
    BY <2>4, Zenon DEF CheckName, Register, Deliver, CloseStream, Remove, ClientGone, SendDone,
         peerVars
  <2>5. CASE UNCHANGED vars
    BY <2>3, <2>5, Zenon DEF vars, peerVars
  <2> QED
    BY <2>2, <2>3, <2>4, <2>5, Zenon DEF Next
<1>3. TypeInv /\ CacheInv => KnownOverrunBounded
  <2> SUFFICES ASSUME TypeOK, CacheInv PROVE KnownOverrunBounded
    BY Zenon DEF TypeInv
  <2> QED
    BY CountsFinite DEF CacheInv, Within, KnownOverrunBounded
<1> QED
  BY <1>1, <1>2, <1>3, TypeInvariant, PTL DEF Spec
-----------------------------------------------------------------------------
(* Copies.                                                                 *)

Roomy == Cardinality(Tx) < TxCap /\ Cardinality(Block) < BlockCap

\* With roomy caches nothing is evicted ...
Forwarding ==
  /\ \A p \in Peer : pc[p] # "pop"
  /\ \A p \in Peer : pc[p] \in {"iter", "next", "send"} => item[p] \in known
  /\ \A p \in Peer : pc[p] = "send" => cur[p] \notin todo[p]

\* ... so whatever was forwarded is known;
ForwardedKnown == \A h \in Handler : \A m \in Stream(h) : m.item \in known

\* a peer that is still to send its item to a handler has not sent it there;
NotSentYet ==
  \A p \in Peer, h \in Handler : \A m \in Stream(h) :
    m.peer = p /\ m.item = item[p] =>
      /\ pc[p] \notin {"size", "insert", "iter"}
      /\ h \notin todo[p]
      /\ pc[p] = "send" => h # cur[p]

\* and no stream has two copies.
OnceEach ==
  \A h \in Handler : \A m, n \in Stream(h) :
    m.peer = n.peer /\ m.item = n.item => m = n

CopyInv == Forwarding /\ ForwardedKnown /\ NotSentYet /\ OnceEach

\* The elements of a channel after a send and after a receive.
LEMMA ElemsFacts ==
  ASSUME NEW S, NEW s \in Seq(S), NEW e \in S
  PROVE  /\ Elems(Append(s, e)) = Elems(s) \cup {e}
         /\ s # <<>> => Head(s) \in Elems(s) /\ Elems(Tail(s)) \subseteq Elems(s)
<1>1. Elems(Append(s, e)) \subseteq Elems(s) \cup {e}
  BY DEF Elems
<1>2. Elems(s) \subseteq Elems(Append(s, e))
  BY DEF Elems
<1>3. e \in Elems(Append(s, e))
  <2>1. Len(s) + 1 \in DOMAIN Append(s, e) /\ Append(s, e)[Len(s) + 1] = e
    OBVIOUS
  <2> QED
    BY <2>1, Zenon DEF Elems
<1>4. ASSUME s # <<>>
      PROVE  Head(s) \in Elems(s) /\ Elems(Tail(s)) \subseteq Elems(s)
  <2>1. 1 \in DOMAIN s /\ Head(s) = s[1]
    BY <1>4
  <2>2. \A k \in DOMAIN Tail(s) : k + 1 \in DOMAIN s /\ Tail(s)[k] = s[k + 1]
    BY <1>4
  <2> QED
    BY <2>1, <2>2 DEF Elems
<1> QED
  BY <1>1, <1>2, <1>3, <1>4, Zenon

\* Only Push puts a message into a stream.
LEMMA HandlerStream ==
  ASSUME TypeInv, NEW h \in Handler,
         \/ CheckName(h) \/ Register(h) \/ Deliver(h) \/ CloseStream(h) \/ Remove(h)
         \/ ClientGone(h)
         \/ \E m \in fly[h] : SendDone(h, m)
  PROVE  \A g \in Handler : Stream(g)' \subseteq Stream(g)
<1> SUFFICES ASSUME NEW g \in Handler PROVE Stream(g)' \subseteq Stream(g)
  BY Zenon
<1> USE DEF TypeInv
<1>1. CASE CheckName(h) \/ Register(h) \/ Remove(h) \/ ClientGone(h)
  BY <1>1, Zenon DEF CheckName, Register, Remove, ClientGone, streamVars, Stream, Elems
<1>2. CASE Deliver(h)
  <2>1. chan[h] \in Seq(Message) /\ chan[h] # <<>> /\ Head(chan[h]) \in Message
    BY <1>2 DEF Deliver, TypeOK
  <2>2. Head(chan[h]) \in Elems(chan[h]) /\ Elems(Tail(chan[h])) \subseteq Elems(chan[h])
    BY <2>1, ElemsFacts, Zenon
  <2>3. chan' = [chan EXCEPT ![h] = Tail(chan[h])]
        /\ fly' = [fly EXCEPT ![h] = fly[h] \cup {Head(chan[h])}]
        /\ stuck' = stuck /\ sent' = sent
    BY <1>2, Zenon DEF Deliver
  <2>4. CASE g = h
    <3>1. chan'[g] = Tail(chan[h]) /\ fly'[g] = fly[h] \cup {Head(chan[h])}
      BY <2>3, <2>4, Zenon DEF TypeOK
    <3>2. Stream(g)' = Elems(chan'[g]) \cup fly'[g] \cup stuck'[g] \cup sent'[g]
      BY Zenon DEF Stream, Elems
    <3> QED
      BY <2>2, <2>3, <2>4, <3>1, <3>2, Zenon DEF Stream
  <2>5. CASE g # h
    <3>1. chan'[g] = chan[g] /\ fly'[g] = fly[g]
      BY <2>3, <2>5, Zenon DEF TypeOK
    <3> QED
      BY <2>3, <3>1, Zenon DEF Stream, Elems
  <2> QED
    BY <2>4, <2>5, Zenon
<1>3. CASE CloseStream(h)
  <2>1. stuck'[g] \subseteq stuck[g] /\ chan' = chan /\ fly' = fly /\ sent' = sent
    BY <1>3, Zenon DEF CloseStream, TypeOK
  <2> QED
    BY <2>1, Zenon DEF Stream, Elems
<1>4. ASSUME NEW m \in fly[h], SendDone(h, m) PROVE Stream(g)' \subseteq Stream(g)
  <2>1. fly'[g] \subseteq fly[g] /\ chan' = chan
    BY <1>4 DEF SendDone, TypeOK
  <2>2. \/ stuck' = stuck
        \/ stuck' = [stuck EXCEPT ![h] = stuck[h] \cup {m}]
    BY <1>4, Zenon DEF SendDone
  <2>3. \/ sent' = sent
        \/ sent' = [sent EXCEPT ![h] = sent[h] \cup {m}]
    BY <1>4, Zenon DEF SendDone
  <2>a. DOMAIN stuck = Handler /\ DOMAIN sent = Handler
    BY Zenon DEF TypeOK
  <2>4. stuck'[g] \subseteq stuck[g] \cup fly[g]
    <3>1. stuck'[g] = stuck[g] \/ (g = h /\ stuck'[g] = stuck[g] \cup {m})
      BY <2>2, <2>a, Zenon
    <3> QED
      BY <3>1, Zenon
  <2>5. sent'[g] \subseteq sent[g] \cup fly[g]
    <3>1. sent'[g] = sent[g] \/ (g = h /\ sent'[g] = sent[g] \cup {m})
      BY <2>3, <2>a, Zenon
    <3> QED
      BY <3>1, Zenon
  <2> QED
    BY <2>1, <2>4, <2>5, Zenon DEF Stream, Elems
<1> QED
  BY <1>1, <1>2, <1>3, <1>4, Zenon
\* CopyInv in the next state, in terms of the streams of this one.
LEMMA CopyNext ==
  ASSUME CopyInv, \A h \in Handler : Stream(h)' \subseteq Stream(h),
         known \subseteq known', Forwarding',
         \A q \in Peer, h \in Handler : \A m \in Stream(h) :
           m.peer = q /\ m.item = item'[q] =>
             /\ pc'[q] \notin {"size", "insert", "iter"}
             /\ h \notin todo'[q]
             /\ pc'[q] = "send" => h # cur'[q]
  PROVE  CopyInv'
<1>1. \A h \in Handler : \A m \in Stream(h)' : m \in Stream(h)
  BY Zenon
<1>2. ForwardedKnown'
  BY <1>1, Zenon DEF CopyInv, ForwardedKnown
<1>3. OnceEach'
  BY <1>1, Zenon DEF CopyInv, OnceEach
<1>4. NotSentYet'
  BY <1>1, Zenon DEF NotSentYet
<1> QED
  BY <1>2, <1>3, <1>4, Zenon DEF CopyInv

\* A step that puts nothing new into a stream, forgets no hash and leaves the
\* peers' goroutines alone keeps CopyInv.
LEMMA CopyShrinks ==
  ASSUME CopyInv, \A h \in Handler : Stream(h)' \subseteq Stream(h),
         UNCHANGED <<known, pc, item, todo, cur>>
  PROVE  CopyInv'
<1>1. Forwarding'
  BY Zenon DEF CopyInv, Forwarding
<1> QED
  BY <1>1, CopyNext, Zenon DEF CopyInv, NotSentYet

\* With roomy caches the size test always finds room.
LEMMA NeverFull ==
  ASSUME TypeInv, Roomy, NEW p \in Peer, CheckSize(p)
  PROVE  pc' = [pc EXCEPT ![p] = "insert"]
<1>1. item[p] \in Item
  BY Zenon DEF TypeInv, TypeOK
<1>2. \A K \in {Tx, Block} : /\ Cardinality(known \cap K) <= Cardinality(K)
                             /\ Cardinality(known \cap K) \in Nat
                             /\ Cardinality(K) \in Nat
  BY StreamHubAssumption, FS_Subset, FS_CardinalityType
<1>3. ~(Cardinality(Cached(item[p])) > Cap(item[p]) - 1)
  <2>1. CASE item[p] \in Tx
    <3>1. Cached(item[p]) = known \cap Tx /\ Cap(item[p]) = TxCap
      BY <2>1, Zenon DEF Cached, Cap
    <3> QED
      BY <1>2, <3>1, StreamHubAssumption DEF Roomy
  <2>2. CASE item[p] \notin Tx
    <3>1. Cached(item[p]) = known \cap Block /\ Cap(item[p]) = BlockCap
      BY <2>2, Zenon DEF Cached, Cap
    <3> QED
      BY <1>2, <3>1, StreamHubAssumption DEF Roomy
  <2> QED
    BY <2>1, <2>2, Zenon
<1> QED
  BY <1>3, Zenon DEF CheckSize

\* The steps of a peer's goroutine keep CopyInv.
LEMMA PeerCopies ==
  ASSUME TypeInv, Roomy, CopyInv, NEW p \in Peer,
         PeerStep(p) \/ \E i \in Item : Process(p, i)
  PROVE  CopyInv'
<1> USE DEF TypeInv
<1>0. /\ DOMAIN pc = Peer /\ DOMAIN item = Peer /\ DOMAIN todo = Peer /\ DOMAIN cur = Peer
  <2>1. DOMAIN pc = Peer
    BY Zenon DEF TypeOK
  <2>2. DOMAIN item = Peer
    BY Zenon DEF TypeOK
  <2>3. DOMAIN todo = Peer
    BY Zenon DEF TypeOK
  <2>4. DOMAIN cur = Peer
    BY Zenon DEF TypeOK
  <2> QED
    BY <2>1, <2>2, <2>3, <2>4, Zenon
<1>1. ASSUME NEW i \in Item, Process(p, i) PROVE CopyInv'
  <2>1. \A h \in Handler : Stream(h)' = Stream(h)
    BY <1>1 DEF Process, streamVars, Stream, Elems
  <2>2. \A h \in Handler : \A m \in Stream(h) : m.item # i
    BY <1>1, Zenon DEF Process, CopyInv, ForwardedKnown
  <2>3. /\ pc' = [pc EXCEPT ![p] = "size"] /\ item' = [item EXCEPT ![p] = i]
        /\ UNCHANGED <<known, todo, cur>>
    BY <1>1, Zenon DEF Process
  <2>4. /\ pc'[p] = "size" /\ item'[p] = i
        /\ \A q \in Peer : q # p => pc'[q] = pc[q] /\ item'[q] = item[q]
    BY <1>0, <2>3, Zenon
  <2>5. \A q \in Peer, h \in Handler : \A m \in Stream(h) :
          m.peer = q /\ m.item = item'[q] => q # p
    BY <2>2, <2>4, Zenon
  <2>6. Forwarding'
    BY <2>3, <2>4 DEF CopyInv, Forwarding
  <2>7. \A q \in Peer, h \in Handler : \A m \in Stream(h) :
          m.peer = q /\ m.item = item'[q] =>
            /\ pc'[q] \notin {"size", "insert", "iter"}
            /\ h \notin todo'[q]
            /\ pc'[q] = "send" => h # cur'[q]
    <3> SUFFICES ASSUME NEW q \in Peer, NEW h \in Handler, NEW m \in Stream(h),
                        m.peer = q, m.item = item'[q]
                 PROVE  /\ pc'[q] \notin {"size", "insert", "iter"}
                        /\ h \notin todo'[q]
                        /\ pc'[q] = "send" => h # cur'[q]
      BY Zenon
    <3>1. q # p
      BY <2>5, Zenon
    <3>2. pc'[q] = pc[q] /\ item'[q] = item[q] /\ todo' = todo /\ cur' = cur
      BY <2>3, <2>4, <3>1, Zenon
    <3> QED
      BY <3>2, Zenon DEF CopyInv, NotSentYet
  <2> QED
    BY <2>1, <2>3, <2>6, <2>7, CopyNext, Zenon
<1>2. CASE CheckSize(p)
  <2>1. \A h \in Handler : Stream(h)' = Stream(h)
    BY <1>2, Zenon DEF CheckSize, streamVars, Stream, Elems
  <2>2. /\ pc'[p] = "insert" /\ pc[p] = "size"
        /\ \A q \in Peer : q # p => pc'[q] = pc[q]
        /\ UNCHANGED <<item, todo, cur, known>>
    BY <1>0, <1>2, NeverFull, Zenon DEF CheckSize
  <2>3. Forwarding'
    BY <2>2, Zenon DEF CopyInv, Forwarding
  <2>8. \A q \in Peer, h \in Handler : \A m \in Stream(h) :
          m.peer = q /\ m.item = item'[q] =>
            /\ pc'[q] \notin {"size", "insert", "iter"}
            /\ h \notin todo'[q]
            /\ pc'[q] = "send" => h # cur'[q]
    <3> SUFFICES ASSUME NEW q \in Peer, NEW h \in Handler, NEW m \in Stream(h),
                        m.peer = q, m.item = item'[q]
                 PROVE  /\ pc'[q] \notin {"size", "insert", "iter"}
                        /\ h \notin todo'[q]
                        /\ pc'[q] = "send" => h # cur'[q]
      BY Zenon
    <3>1. /\ pc[q] \notin {"size", "insert", "iter"}
          /\ h \notin todo[q]
          /\ pc[q] = "send" => h # cur[q]
      BY <2>2, Zenon DEF CopyInv, NotSentYet
    <3> QED
      BY <2>2, <3>1, Zenon
  <2> QED
    BY <2>1, <2>2, <2>3, <2>8, CopyNext, Zenon
<1>3. CASE Pop(p)
  <2>1. pc[p] = "pop"
    BY <1>3, Zenon DEF Pop
  <2> QED
    BY <2>1, Zenon DEF CopyInv, Forwarding
<1>4. CASE Insert(p)
  <2>1. \A h \in Handler : Stream(h)' = Stream(h)
    BY <1>4, Zenon DEF Insert, streamVars, Stream, Elems
  <2>2. /\ pc'[p] \in {"idle", "iter"} /\ pc[p] = "insert"
        /\ \A q \in Peer : q # p => pc'[q] = pc[q]
        /\ UNCHANGED <<item, todo, cur>> /\ known' = known \cup {item[p]}
    BY <1>0, <1>4, Zenon DEF Insert
  <2>3. Forwarding'
    <3>1. \A q \in Peer : pc'[q] \in {"iter", "next", "send"} => item[q] \in known'
      BY <2>2, Zenon DEF CopyInv, Forwarding
    <3>2. \A q \in Peer : pc'[q] # "pop"
      BY <2>2, Zenon DEF CopyInv, Forwarding
    <3>3. \A q \in Peer : pc'[q] = "send" => cur[q] \notin todo[q]
      BY <2>2, Zenon DEF CopyInv, Forwarding
    <3> QED
      BY <2>2, <3>1, <3>2, <3>3, Zenon DEF Forwarding
  <2>8. \A q \in Peer, h \in Handler : \A m \in Stream(h) :
          m.peer = q /\ m.item = item'[q] =>
            /\ pc'[q] \notin {"size", "insert", "iter"}
            /\ h \notin todo'[q]
            /\ pc'[q] = "send" => h # cur'[q]
    <3> SUFFICES ASSUME NEW q \in Peer, NEW h \in Handler, NEW m \in Stream(h),
                        m.peer = q, m.item = item'[q]
                 PROVE  /\ pc'[q] \notin {"size", "insert", "iter"}
                        /\ h \notin todo'[q]
                        /\ pc'[q] = "send" => h # cur'[q]
      BY Zenon
    <3>1. /\ pc[q] \notin {"size", "insert", "iter"}
          /\ h \notin todo[q]
          /\ pc[q] = "send" => h # cur[q]
      BY <2>2, Zenon DEF CopyInv, NotSentYet
    <3> QED
      BY <2>2, <3>1, Zenon
  <2> QED
    BY <2>1, <2>2, <2>3, <2>8, CopyNext, Zenon
<1>5. CASE Snapshot(p)
  <2>1. \A h \in Handler : Stream(h)' = Stream(h)
    BY <1>5, Zenon DEF Snapshot, streamVars, Stream, Elems
  <2>2. /\ \A q \in Peer : q # p => todo'[q] = todo[q] /\ pc'[q] = pc[q]
        /\ pc'[p] \in {"iter", "next"} /\ pc[p] = "iter"
        /\ UNCHANGED <<item, cur, known>>
    BY <1>0, <1>5, Zenon DEF Snapshot
  <2>3. Forwarding'
    BY <2>2, Zenon DEF CopyInv, Forwarding
  <2>8. \A q \in Peer, h \in Handler : \A m \in Stream(h) :
          m.peer = q /\ m.item = item'[q] =>
            /\ pc'[q] \notin {"size", "insert", "iter"}
            /\ h \notin todo'[q]
            /\ pc'[q] = "send" => h # cur'[q]
    <3> SUFFICES ASSUME NEW q \in Peer, NEW h \in Handler, NEW m \in Stream(h),
                        m.peer = q, m.item = item'[q]
                 PROVE  /\ pc'[q] \notin {"size", "insert", "iter"}
                        /\ h \notin todo'[q]
                        /\ pc'[q] = "send" => h # cur'[q]
      BY Zenon
    <3>1. /\ pc[q] \notin {"size", "insert", "iter"}
          /\ h \notin todo[q]
          /\ pc[q] = "send" => h # cur[q]
      BY <2>2, Zenon DEF CopyInv, NotSentYet
    <3> QED
      BY <2>2, <3>1, Zenon
  <2> QED
    BY <2>1, <2>2, <2>3, <2>8, CopyNext, Zenon
<1>6. CASE NextClient(p)
  <2>1. \A h \in Handler : Stream(h)' = Stream(h)
    BY <1>6, Zenon DEF NextClient, streamVars, Stream, Elems
  <2>2. /\ \A q \in Peer : q # p => todo'[q] = todo[q] /\ pc'[q] = pc[q] /\ cur'[q] = cur[q]
        /\ pc'[p] \in {"idle", "send"} /\ pc[p] = "next"
        /\ todo'[p] \subseteq todo[p]
        /\ pc'[p] = "send" => cur'[p] \in todo[p] /\ cur'[p] \notin todo'[p]
        /\ UNCHANGED <<item, known>>
    BY <1>0, <1>6 DEF NextClient
  <2>3. Forwarding'
    BY <2>2, Zenon DEF CopyInv, Forwarding
  <2>8. \A q \in Peer, h \in Handler : \A m \in Stream(h) :
          m.peer = q /\ m.item = item'[q] =>
            /\ pc'[q] \notin {"size", "insert", "iter"}
            /\ h \notin todo'[q]
            /\ pc'[q] = "send" => h # cur'[q]
    <3> SUFFICES ASSUME NEW q \in Peer, NEW h \in Handler, NEW m \in Stream(h),
                        m.peer = q, m.item = item'[q]
                 PROVE  /\ pc'[q] \notin {"size", "insert", "iter"}
                        /\ h \notin todo'[q]
                        /\ pc'[q] = "send" => h # cur'[q]
      BY Zenon
    <3>1. /\ pc[q] \notin {"size", "insert", "iter"}
          /\ h \notin todo[q]
          /\ pc[q] = "send" => h # cur[q]
      BY <2>2, Zenon DEF CopyInv, NotSentYet
    <3> QED
      BY <2>2, <3>1, Zenon
  <2> QED
    BY <2>1, <2>2, <2>3, <2>8, CopyNext, Zenon
<1>7. CASE Push(p)
  <2>a. cur[p] \in Handler /\ call[p] \in 1..MaxCall[p] /\ item[p] \in Item
    BY <1>7, StreamHubAssumption DEF Push, TypeOK, AtWork
  <2>b. PICK c \in Handler : c = cur[p]
    BY <2>a, Zenon
  <2>c. PICK m \in Message : m = [peer |-> p, call |-> call[p], item |-> item[p]]
    BY <2>a, MessageOf, Zenon
  <2>1. c \in Handler /\ m \in Message /\ chan[c] \in Seq(Message)
    BY Zenon DEF TypeOK
  <2>2. /\ chan' = [chan EXCEPT ![c] = Append(chan[c], m)]
        /\ fly' = fly /\ stuck' = stuck /\ sent' = sent
    BY <1>7, <2>b, <2>c, Zenon DEF Push
  <2>3. Elems(Append(chan[c], m)) = Elems(chan[c]) \cup {m}
    BY <2>1, ElemsFacts, Zenon
  <2>4. Stream(c)' = Stream(c) \cup {m}
    <3>1. chan'[c] = Append(chan[c], m)
      BY <2>1, <2>2, Zenon DEF TypeOK
    <3>2. Stream(c)' = Elems(chan'[c]) \cup fly'[c] \cup stuck'[c] \cup sent'[c]
      BY Zenon DEF Stream, Elems
    <3> QED
      BY <2>2, <2>3, <3>1, <3>2, Zenon DEF Stream
  <2>5. \A h \in Handler : h # c => Stream(h)' = Stream(h)
    <3>1. \A h \in Handler : h # c => chan'[h] = chan[h]
      BY <2>2, Zenon DEF TypeOK
    <3> QED
      BY <2>2, <3>1, Zenon DEF Stream, Elems
  <2>d. pc[p] = "send"
    BY <1>7, Zenon DEF Push
  <2>e. item[p] \in known /\ c \notin todo[p]
    BY <2>b, <2>d, Zenon DEF CopyInv, Forwarding
  <2>6. \A n \in Stream(c) : ~(n.peer = p /\ n.item = item[p])
    BY <2>b, <2>d, Zenon DEF CopyInv, NotSentYet
  <2>7. m.peer = p /\ m.item = item[p]
    BY <2>c, Zenon
  <2>8. /\ pc' = [pc EXCEPT ![p] = "next"]
        /\ UNCHANGED <<item, todo, cur, known>>
    BY <1>7, Zenon DEF Push
  <2>9. \A h \in Handler : \A n \in Stream(h)' : n \in Stream(h) \/ (h = c /\ n = m)
    BY <2>4, <2>5, Zenon
  <2>10. pc'[p] = "next" /\ \A q \in Peer : q # p => pc'[q] = pc[q]
    BY <1>0, <2>8, Zenon
  <2>11. Forwarding'
    BY <2>8, <2>10, <2>e, Zenon DEF CopyInv, Forwarding
  <2>12. ForwardedKnown'
    BY <2>7, <2>8, <2>9, <2>e, Zenon DEF CopyInv, ForwardedKnown
  <2>13. NotSentYet'
    BY <2>7, <2>8, <2>9, <2>10, <2>e DEF CopyInv, NotSentYet
  <2>14. \A h \in Handler : \A k, n \in Stream(h)' :
           k.peer = n.peer /\ k.item = n.item => k = n
    <3> SUFFICES ASSUME NEW h \in Handler, NEW k \in Stream(h)', NEW n \in Stream(h)',
                        k.peer = n.peer, k.item = n.item
                 PROVE  k = n
      BY Zenon
    <3>1. CASE k \in Stream(h) /\ n \in Stream(h)
      BY <3>1, Zenon DEF CopyInv, OnceEach
    <3>2. CASE h = c /\ k = m /\ n \in Stream(h)
      BY <2>6, <2>7, <3>2, Zenon
    <3>3. CASE h = c /\ n = m /\ k \in Stream(h)
      BY <2>6, <2>7, <3>3, Zenon
    <3> QED
      BY <2>9, <3>1, <3>2, <3>3, Zenon
  <2>15. OnceEach'
    BY <2>14, Zenon DEF OnceEach
  <2> QED
    BY <2>11, <2>12, <2>13, <2>15, Zenon DEF CopyInv
<1> QED
  BY <1>1, <1>2, <1>3, <1>4, <1>5, <1>6, <1>7, Zenon DEF PeerStep

\* While the caches never fill, no peer puts an item twice into a stream.
THEOREM Once == Spec => []OncePerPeer
<1>1. Init => (Roomy => CopyInv)
  BY DEF Init, CopyInv, Forwarding, ForwardedKnown, NotSentYet, OnceEach, Stream, Elems
<1>2. TypeInv /\ (Roomy => CopyInv) /\ [Next]_vars => (Roomy => CopyInv)'
  <2> SUFFICES ASSUME TypeInv, Roomy, CopyInv, [Next]_vars PROVE CopyInv'
    BY Zenon DEF Roomy
  <2>1. ASSUME NEW h \in Handler,
               \/ CheckName(h) \/ Register(h) \/ Deliver(h) \/ CloseStream(h) \/ Remove(h)
               \/ ClientGone(h)
               \/ \E m \in fly[h] : SendDone(h, m)
        PROVE  CopyInv'
    <3>1. UNCHANGED <<known, pc, item, todo, cur>>
      BY <2>1, Zenon DEF CheckName, Register, Deliver, CloseStream, Remove, ClientGone,
         SendDone,
           peerVars
    <3>2. \A g \in Handler : Stream(g)' \subseteq Stream(g)
      BY <2>1, HandlerStream, Zenon
    <3> QED
      BY <3>1, <3>2, CopyShrinks, Zenon
  <2>2. CASE UNCHANGED vars
    <3>1. \A h \in Handler : Stream(h)' = Stream(h)
      BY <2>2, Zenon DEF vars, streamVars, Stream, Elems
    <3> QED
      BY <2>2, <3>1, CopyShrinks, Zenon DEF vars, peerVars
  <2> QED
    BY <2>1, <2>2, PeerCopies, Zenon DEF Next
<1>3. (Roomy => CopyInv) => OncePerPeer
  BY Zenon DEF Roomy, CopyInv, OnceEach, OncePerPeer
<1> QED
  BY <1>1, <1>2, <1>3, TypeInvariant, PTL DEF Spec
=============================================================================
