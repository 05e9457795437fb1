------------------------------ MODULE StreamHub ------------------------------
(***************************************************************************)
(* The fan-out of received transactions and blocks to the stream clients,  *)
(* node_manager/node-manager.go: TransactionProcess and the second half of *)
(* BlockProcess, run by the goroutine of each eth peer; knownCache, which  *)
(* keeps an item from being forwarded twice; and HandStartStream, the gRPC *)
(* handler of a client, with the goroutine it spawns for every message.    *)
(*                                                                         *)
(* serverPeer and the hash sets lock every single call, so each call is a  *)
(* step; nothing ties two calls together.                                  *)
(***************************************************************************)
EXTENDS Integers, Sequences, FiniteSets

CONSTANTS
  Peer,        \* eth peers, each with one goroutine that handles its messages
  Tx, Block,   \* items, by the hash that identifies them
  Unencodable, \* items whose MarshalBinary or EncodeRLP fails
  Undecodable, \* items the spawned goroutine cannot decode again
  TxCap,       \* newKnownCache(1024) of knowTx
  BlockCap,    \* newKnownCache(12345) of knowBlock
  Name,        \* client names
  Handler,     \* calls of HandStartStream
  NameOf,      \* the req.Name of each
  NoHandler,   \* no entry in serverPeer
  ChanCap,     \* capacity of StreamChan, 1024
  MaxCall      \* bound: items each peer forwards

Item == Tx \cup Block

ASSUME StreamHubAssumption ==
  /\ IsFiniteSet(Peer) /\ IsFiniteSet(Tx) /\ IsFiniteSet(Block)
  /\ Tx \cap Block = {} /\ Item # {}
  /\ TxCap \in Nat \ {0} /\ BlockCap \in Nat \ {0}
  /\ NameOf \in [Handler -> Name]
  /\ NoHandler \notin Handler
  /\ ChanCap \in Nat \ {0}
  /\ MaxCall \in [Peer -> Nat]

VARIABLES
  pc,         \* where the goroutine of each eth peer is
  item,       \* the item it handles
  call,       \* how many items it took on
  left,       \* names IterBuffered has still to look up
  todo,       \* handlers found and not sent to yet
  cur,        \* the handler whose StreamChan it is sending on
  known,      \* knowTx and knowBlock
  serverPeer, \* name -> the handler whose StreamChan is registered
  hpc,        \* where each HandStartStream call is
  chan,       \* its sendChan
  fly,        \* messages in its spawned goroutines
  stuck,      \* spawned goroutines blocked in `closeSteamChan <- 1`
  sent,       \* messages whose stream.Send returned nil
  open,       \* the transport has not seen the client go
  raced       \* history: two calls of the name were between Has and Set at once

peerVars == <<pc, item, call, left, todo, cur>>
streamVars == <<chan, fly, stuck, sent>>
vars == <<peerVars, known, serverPeer, hpc, streamVars, open, raced>>

\* A message and, to tell copies apart, the peer and call that made it.
Message == UNION {[peer : {p}, call : 1..MaxCall[p], item : Item] : p \in Peer}

PeerStates == {"idle", "size", "pop", "insert", "iter", "next", "send"}
HandlerStates == {"new", "refused", "checked", "loop", "leaving", "done"}

TypeOK ==
  /\ pc \in [Peer -> PeerStates]
  /\ item \in [Peer -> Item]
  /\ call \in [Peer -> Nat] /\ \A p \in Peer : call[p] <= MaxCall[p]
  /\ left \in [Peer -> SUBSET Name]
  /\ todo \in [Peer -> SUBSET Handler]
  /\ cur \in [Peer -> Handler \cup {NoHandler}]
  /\ known \subseteq Item
  /\ serverPeer \in [Name -> Handler \cup {NoHandler}]
  /\ hpc \in [Handler -> HandlerStates]
  /\ chan \in [Handler -> Seq(Message)]
  /\ fly \in [Handler -> SUBSET Message]
  /\ stuck \in [Handler -> SUBSET Message]
  /\ sent \in [Handler -> SUBSET Message]
  /\ open \in [Handler -> BOOLEAN]
  /\ raced \subseteq Name

Init ==
  /\ pc = [p \in Peer |-> "idle"]
  /\ item = [p \in Peer |-> CHOOSE i \in Item : TRUE]
  /\ call = [p \in Peer |-> 0]
  /\ left = [p \in Peer |-> {}]
  /\ todo = [p \in Peer |-> {}]
  /\ cur = [p \in Peer |-> NoHandler]
  /\ known = {}
  /\ serverPeer = [n \in Name |-> NoHandler]
  /\ hpc = [h \in Handler |-> "new"]
  /\ chan = [h \in Handler |-> <<>>]
  /\ fly = [h \in Handler |-> {}]
  /\ stuck = [h \in Handler |-> {}]
  /\ sent = [h \in Handler |-> {}]
  /\ open = [h \in Handler |-> TRUE]
  /\ raced = {}

-----------------------------------------------------------------------------
(* TransactionProcess, BlockProcess and knownCache.Add.                    *)

\* The hashes in the cache of item i, and its capacity.
Cached(i) == known \cap (IF i \in Tx THEN Tx ELSE Block)
Cap(i) == IF i \in Tx THEN TxCap ELSE BlockCap

\* Mutant: no Contains test.
Process_NoContains(p, i) ==
  /\ pc[p] = "idle" /\ call[p] < MaxCall[p]
  /\ pc' = [pc EXCEPT ![p] = "size"]
  /\ item' = [item EXCEPT ![p] = i]
  /\ call' = [call EXCEPT ![p] = @ + 1]
  /\ UNCHANGED <<left, todo, cur, known, serverPeer, hpc, streamVars, open, raced>>

\* A peer delivers an item that is not known (a known one changes nothing).
Process(p, i) ==
  /\ pc[p] = "idle" /\ call[p] < MaxCall[p]
  /\ i \notin known
  /\ pc' = [pc EXCEPT ![p] = "size"]
  /\ item' = [item EXCEPT ![p] = i]
  /\ call' = [call EXCEPT ![p] = @ + 1]
  /\ UNCHANGED <<left, todo, cur, known, serverPeer, hpc, streamVars, open, raced>>

\* Mutant: the loop leaves the cache full.
CheckSize_Full(p) ==
  /\ pc[p] = "size"
  /\ pc' = [pc EXCEPT ![p] =
              IF Cardinality(Cached(item[p])) > Cap(item[p]) THEN "pop" ELSE "insert"]
  /\ UNCHANGED <<item, call, left, todo, cur, known, serverPeer, hpc, streamVars, open, raced>>

\* Add: `for k.hashes.Cardinality() > max(0, k.max-1)` ...
CheckSize(p) ==
  /\ pc[p] = "size"
  /\ pc' = [pc EXCEPT ![p] =
              IF Cardinality(Cached(item[p])) > Cap(item[p]) - 1 THEN "pop" ELSE "insert"]
  /\ UNCHANGED <<item, call, left, todo, cur, known, serverPeer, hpc, streamVars, open, raced>>

\* ... Pop, which removes an arbitrary hash, or nothing from an empty set.
Pop(p) ==
  /\ pc[p] = "pop"
  /\ pc' = [pc EXCEPT ![p] = "size"]
  /\ \/ \E j \in Cached(item[p]) : known' = known \ {j}
     \/ Cached(item[p]) = {} /\ UNCHANGED known
  /\ UNCHANGED <<item, call, left, todo, cur, serverPeer, hpc, streamVars, open, raced>>

\* Add the hash and encode the item; the iteration over serverPeer starts.
Insert(p) ==
  /\ pc[p] = "insert"
  /\ known' = known \cup {item[p]}
  /\ IF item[p] \in Unencodable
       THEN pc' = [pc EXCEPT ![p] = "idle"] /\ UNCHANGED left
       ELSE /\ pc' = [pc EXCEPT ![p] = "iter"]
            /\ left' = [left EXCEPT ![p] = Name]
  /\ UNCHANGED <<item, call, todo, cur, serverPeer, hpc, streamVars, open, raced>>

\* IterBuffered copies the shards of the map one by one, then returns.
Snapshot(p) ==
  /\ pc[p] = "iter"
  /\ \/ \E n \in left[p] :
          /\ left' = [left EXCEPT ![p] = @ \ {n}]
          /\ todo' = [todo EXCEPT ![p] = @ \cup ({serverPeer[n]} \ {NoHandler})]
          /\ UNCHANGED pc
     \/ /\ left[p] = {}
        /\ pc' = [pc EXCEPT ![p] = "next"]
        /\ UNCHANGED <<left, todo>>
  /\ UNCHANGED <<item, call, cur, known, serverPeer, hpc, streamVars, open, raced>>

\* The loop takes the next entry of the copy, or ends.
NextClient(p) ==
  /\ pc[p] = "next"
  /\ \/ \E h \in todo[p] :
          /\ todo' = [todo EXCEPT ![p] = @ \ {h}]
          /\ cur' = [cur EXCEPT ![p] = h]
          /\ pc' = [pc EXCEPT ![p] = "send"]
     \/ /\ todo[p] = {}
        /\ pc' = [pc EXCEPT ![p] = "idle"]
        /\ UNCHANGED <<todo, cur>>
  /\ UNCHANGED <<item, call, left, known, serverPeer, hpc, streamVars, open, raced>>

\* `peerItem.StreamChan <- ...` blocks while the channel is full.
Push(p) ==
  LET h == cur[p] IN
  /\ pc[p] = "send"
  /\ Len(chan[h]) < ChanCap
  /\ chan' = [chan EXCEPT ![h] =
                Append(@, [peer |-> p, call |-> call[p], item |-> item[p]])]
  /\ pc' = [pc EXCEPT ![p] = "next"]
  /\ UNCHANGED <<item, call, left, todo, cur, known, serverPeer, hpc, fly, stuck, sent,
                 open, raced>>

-----------------------------------------------------------------------------
(* HandStartStream.                                                        *)

\* Mutant: no Has test.
CheckName_NoHas(h) ==
  LET n == NameOf[h] IN
  /\ hpc[h] = "new"
  /\ hpc' = [hpc EXCEPT ![h] = "checked"]
  /\ raced' = IF \E g \in Handler : NameOf[g] = n /\ hpc[g] = "checked"
                THEN raced \cup {n} ELSE raced
  /\ UNCHANGED <<peerVars, known, serverPeer, streamVars, open>>

\* `if !serverPeer.Has(req.Name)`, else the call returns at once.
CheckName(h) ==
  LET n == NameOf[h] IN
  /\ hpc[h] = "new"
  /\ IF serverPeer[n] = NoHandler
       THEN /\ hpc' = [hpc EXCEPT ![h] = "checked"]
            /\ raced' = IF \E g \in Handler : NameOf[g] = n /\ hpc[g] = "checked"
                          THEN raced \cup {n} ELSE raced
       ELSE hpc' = [hpc EXCEPT ![h] = "refused"] /\ UNCHANGED raced
  /\ UNCHANGED <<peerVars, known, serverPeer, streamVars, open>>

\* serverPeer.Set with a fresh channel, whatever is there by now.
Register(h) ==
  /\ hpc[h] = "checked"
  /\ serverPeer' = [serverPeer EXCEPT ![NameOf[h]] = h]
  /\ hpc' = [hpc EXCEPT ![h] = "loop"]
  /\ UNCHANGED <<peerVars, known, streamVars, open, raced>>

\* Mutant: the handler stops reading when the client is gone.
Deliver_WhileOpen(h) ==
  /\ hpc[h] = "loop" /\ chan[h] # <<>> /\ open[h]
  /\ fly' = [fly EXCEPT ![h] = @ \cup {Head(chan[h])}]
  /\ chan' = [chan EXCEPT ![h] = Tail(@)]
  /\ UNCHANGED <<peerVars, known, serverPeer, hpc, stuck, sent, open, raced>>

\* Mutant: the goroutines share the variable of the loop.
Deliver_Captured(h) ==
  /\ hpc[h] = "loop" /\ chan[h] # <<>>
  /\ fly' = [fly EXCEPT ![h] = {Head(chan[h])}]
  /\ chan' = [chan EXCEPT ![h] = Tail(@)]
  /\ UNCHANGED <<peerVars, known, serverPeer, hpc, stuck, sent, open, raced>>

\* select, first case: a message goes to a goroutine of its own.
Deliver(h) ==
  /\ hpc[h] = "loop" /\ chan[h] # <<>>
  /\ fly' = [fly EXCEPT ![h] = @ \cup {Head(chan[h])}]
  /\ chan' = [chan EXCEPT ![h] = Tail(@)]
  /\ UNCHANGED <<peerVars, known, serverPeer, hpc, stuck, sent, open, raced>>

\* select, second case: meet one goroutine whose Send failed.
CloseStream(h) ==
  /\ hpc[h] = "loop"
  /\ \E m \in stuck[h] : stuck' = [stuck EXCEPT ![h] = @ \ {m}]
  /\ hpc' = [hpc EXCEPT ![h] = "leaving"]
  /\ UNCHANGED <<peerVars, known, serverPeer, chan, fly, sent, open, raced>>

\* The deferred serverPeer.Remove(req.Name), whoever is registered.
Remove(h) ==
  /\ hpc[h] = "leaving"
  /\ serverPeer' = [serverPeer EXCEPT ![NameOf[h]] = NoHandler]
  /\ hpc' = [hpc EXCEPT ![h] = "done"]
  /\ UNCHANGED <<peerVars, known, streamVars, open, raced>>

\* Mutant: a message that cannot be decoded closes the stream.
SendDone_DecodeCloses(h, m) ==
  /\ m \in fly[h]
  /\ fly' = [fly EXCEPT ![h] = @ \ {m}]
  /\ \/ /\ m.item \notin Undecodable /\ open[h]
        /\ sent' = [sent EXCEPT ![h] = @ \cup {m}]
        /\ UNCHANGED stuck
     \/ /\ m.item \in Undecodable \/ ~open[h]
        /\ stuck' = [stuck EXCEPT ![h] = @ \cup {m}]
        /\ UNCHANGED sent
  /\ UNCHANGED <<peerVars, known, serverPeer, hpc, chan, open, raced>>

\* Mutant: a failed Send is only logged.
SendDone_NoReport(h, m) ==
  /\ m \in fly[h]
  /\ fly' = [fly EXCEPT ![h] = @ \ {m}]
  /\ sent' = IF open[h] THEN [sent EXCEPT ![h] = @ \cup {m}] ELSE sent
  /\ UNCHANGED <<peerVars, known, serverPeer, hpc, chan, stuck, open, raced>>

\* The spawned goroutine: decode, Send, and report a failed Send.  The stream
\* is closed once its handler has returned.
SendDone(h, m) ==
  /\ m \in fly[h]
  /\ fly' = [fly EXCEPT ![h] = @ \ {m}]
  /\ \/ /\ m.item \in Undecodable
        /\ UNCHANGED <<stuck, sent>>
     \/ /\ m.item \notin Undecodable /\ open[h] /\ hpc[h] # "done"
        /\ sent' = [sent EXCEPT ![h] = @ \cup {m}]
        /\ UNCHANGED stuck
     \/ /\ m.item \notin Undecodable /\ (~open[h] \/ hpc[h] = "done")
        /\ stuck' = [stuck EXCEPT ![h] = @ \cup {m}]
        /\ UNCHANGED sent
  /\ UNCHANGED <<peerVars, known, serverPeer, hpc, chan, open, raced>>

\* The client's connection breaks.
ClientGone(h) ==
  /\ hpc[h] \in {"checked", "loop"} /\ open[h]
  /\ open' = [open EXCEPT ![h] = FALSE]
  /\ UNCHANGED <<peerVars, known, serverPeer, hpc, streamVars, raced>>

PeerStep(p) ==
  CheckSize(p) \/ Pop(p) \/ Insert(p) \/ Snapshot(p) \/ NextClient(p) \/ Push(p)

Next ==
  \/ \E p \in Peer : PeerStep(p) \/ \E i \in Item : Process(p, i)
  \/ \E h \in Handler :
       \/ CheckName(h) \/ Register(h) \/ Deliver(h) \/ CloseStream(h) \/ Remove(h)
       \/ ClientGone(h)
       \/ \E m \in fly[h] : SendDone(h, m)

Spec == Init /\ [][Next]_vars

\* Goroutines keep running, select is fair between ready cases, and a Send on an
\* open stream returns.  New items, new clients and broken clients are not promised.
Fairness ==
  /\ \A p \in Peer : WF_vars(PeerStep(p))
  /\ \A h \in Handler :
       /\ WF_vars(Register(h)) /\ WF_vars(Deliver(h))
       /\ WF_vars(CloseStream(h)) /\ WF_vars(Remove(h))
       /\ \A m \in Message : WF_vars(SendDone(h, m))

FairSpec == Spec /\ Fairness

-----------------------------------------------------------------------------
(* Properties.                                                             *)

\* A StreamChan in serverPeer is the one of a handler that still runs: no item
\* that starts its iteration now is pushed to a channel nobody reads.  It holds
\* although Remove goes by name and Has is not atomic with Set.
EntryHasHandler ==
  \A n \in Name : serverPeer[n] # NoHandler =>
    NameOf[serverPeer[n]] = n /\ hpc[serverPeer[n]] \in {"loop", "leaving"}

\* Unless two calls of one name were between Has and Set together, the running
\* handler of a name is the registered one: no client sits in a stream that
\* receives nothing, and no handler removes another's entry.
HandlerHasEntry ==
  \A h \in Handler : hpc[h] \in {"loop", "leaving"} =>
    serverPeer[NameOf[h]] = h \/ NameOf[h] \in raced

\* serverPeer and the running handlers match, although Has, Set and the deferred
\* Remove are three calls.
EntriesMatchHandlers == EntryHasHandler /\ HandlerHasEntry

\* A stream ends only after a Send failed: an open client is never dropped.
OpenStreamKept ==
  \A h \in Handler : hpc[h] \in {"leaving", "done"} \/ stuck[h] # {} => ~open[h]

\* Add checks the size and inserts in separate steps, so concurrent calls pass
\* the capacity together: by one hash less than there are peers, never more.
KnownOverrunBounded ==
  /\ Cardinality(known \cap Tx) <= TxCap - 1 + Cardinality(Peer)
  /\ Cardinality(known \cap Block) <= BlockCap - 1 + Cardinality(Peer)

Elems(s) == {s[k] : k \in DOMAIN s}

\* The messages handed to a handler so far that are not lost.
Stream(h) == Elems(chan[h]) \cup fly[h] \cup stuck[h] \cup sent[h]

\* While the caches never fill, a client's stream holds an item at most once
\* for each peer (Contains and Add are not atomic, so not at most once).
OncePerPeer ==
  Cardinality(Tx) < TxCap /\ Cardinality(Block) < BlockCap =>
    \A h \in Handler : \A m, n \in Stream(h) :
      m.peer = n.peer /\ m.item = n.item => m = n

\* The peer's goroutine sends on the full channel of a handler that has gone.
Orphaned(p) == pc[p] = "send" /\ hpc[cur[p]] = "done" /\ Len(chan[cur[p]]) = ChanCap

\* A peer's goroutine is never held up for good by a slow or broken client,
\* except by the full channel of a handler that has returned: it copied the
\* entry before Remove, and nobody reads that channel any more.
SendEndsUnlessOrphaned ==
  \A p \in Peer : pc[p] = "send" ~> (pc[p] # "send" \/ Orphaned(p))

\* A queued item that can be decoded reaches its client unless the client goes.
QueuedReachesClient ==
  \A h \in Handler, m \in Message :
    (m \in Elems(chan[h]) /\ m.item \notin Undecodable) ~> (m \in sent[h] \/ ~open[h])

\* The name of a client that is gone is free again once an item was sent its
\* way: the next connection under that name is not refused for ever.
DeadClientReleased ==
  \A h \in Handler :
    ( /\ hpc[h] = "loop" /\ ~open[h]
      /\ \E m \in Elems(chan[h]) \cup fly[h] : m.item \notin Undecodable )
    ~> hpc[h] = "done"
==============================================================================
