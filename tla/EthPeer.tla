------------------------------- MODULE EthPeer -------------------------------
(***************************************************************************)
(* One session with an eth peer, from the handshake to Close               *)
(* (eth/protocols/eth: handshake.go, handler.go, dispatcher.go, peer.go;   *)
(* runEthPeer of eth/handler.go).                                          *)
(*                                                                         *)
(* The session goroutine runs Handshake, issues the challenges of          *)
(* runEthPeer and then reads messages.  A response goes to the dispatcher  *)
(* goroutine, which matches it with a pending request; the reader itself   *)
(* then hands it to the requester on an unbuffered channel (sink) and      *)
(* waits until the requester is Done.  Announced blocks are retrieved      *)
(* beside the dispatcher: RequestBlocks sends a header and a body request  *)
(* and the reader collects the answers in receiveBlocks.                   *)
(*                                                                         *)
(* Responses may be lost, late, duplicated, of the wrong type or empty.    *)
(* The dispatcher answers each operation before it takes the next, and the *)
(* caller waits for the answer, so an operation is one step of both.       *)
(***************************************************************************)
EXTENDS Integers, Sequences, FiniteSets

CONSTANTS
  Fetch,      \* requests of callers that close them (fetchers.go, block_fetcher.go)
  Batch,      \* requests of concurrentFetch, which keeps listening after a timeout
  Checkpoint, \* challenges of runEthPeer that end with the session
  Whitelist,  \* challenges of runEthPeer that only a response or the timer ends
  Block,      \* announced blocks, each with the id RequestBlocks draws for it
  MaxLen,     \* bound: headers or bodies of one answer
  MaxMsg      \* bound: messages read in a session

Challenge == Checkpoint \cup Whitelist
Req == Fetch \cup Batch \cup Challenge

ASSUME EthPeerAssumption ==
  /\ IsFiniteSet(Req)
  /\ Fetch \cap Batch = {} /\ (Fetch \cup Batch) \cap Challenge = {}
  /\ Checkpoint \cap Whitelist = {}
  /\ Req \cap Block = {}
  /\ MaxLen \in Nat /\ MaxMsg \in Nat

VARIABLES
  conn,      \* the connection is up: it can be read from and written to
  pc,        \* where the session goroutine is
  running,   \* handshake goroutines that have not written to errc
  errc,      \* errc, a buffered channel: TRUE stands for a nil error
  phase,     \* 1: Status, 2: UpgradeStatus
  left,      \* values of errc Handshake still expects
  cur,       \* the response the reader holds
  st,        \* where the goroutine behind each request is
  pending,   \* requests the dispatcher tracks
  cancel,    \* requests whose cancel channel is closed
  term,      \* p.term is closed
  disp,      \* the dispatcher goroutine runs
  retr,      \* receiveBlocks and what became of its entries
  got,       \* history: requests whose response was handed over
  msgs       \* messages read

hsVars == <<running, errc, phase, left>>
reqVars == <<st, pending, cancel>>
vars == <<conn, pc, hsVars, cur, reqVars, term, disp, retr, got, msgs>>

SessionStates == {"handshake", "setup", "read", "offer", "accepted", "deliver",
                  "reply", "exit", "closed"}

\* "stale": timed out, still listening; "gone": given up without Close.
ReqStates == {"new", "await", "stale", "serve", "close", "closing", "gone", "done"}

\* open: RequestBlocks registered the id; fed: times its block was completed.
Entry == [state : {"new", "open", "done"}, header : 0..MaxLen, body : 0..MaxLen,
          seen : SUBSET {"header", "body"}, fed : 0..MaxMsg]

NoResponse == [id |-> "none", ok |-> FALSE]

TypeOK ==
  /\ conn \in BOOLEAN /\ term \in BOOLEAN /\ disp \in BOOLEAN
  /\ pc \in SessionStates
  /\ running \subseteq {"send", "read"}
  /\ errc \in Seq(BOOLEAN)
  /\ phase \in 1..2 /\ left \in 0..2
  /\ cur \in [id : Req \cup Block, ok : BOOLEAN] \cup {NoResponse}
  /\ st \in [Req -> ReqStates]
  /\ pending \subseteq Req /\ cancel \subseteq Req /\ got \subseteq Req
  /\ retr \in [Block -> Entry]
  /\ msgs \in 0..MaxMsg

Init ==
  /\ conn = TRUE /\ term = FALSE /\ disp = TRUE
  /\ pc = "handshake"
  /\ running = {"send", "read"} /\ errc = <<>> /\ phase = 1 /\ left = 2
  /\ cur = NoResponse
  /\ st = [r \in Req |-> "new"]
  /\ pending = {} /\ cancel = {}
  /\ retr = [b \in Block |-> [state |-> "new", header |-> 0, body |-> 0,
                              seen |-> {}, fed |-> 0]]
  /\ got = {} /\ msgs = 0

-----------------------------------------------------------------------------
(* Handshake *)

\* errc <- p2p.Send(...) and errc <- p.readStatus(...): an error when the
\* connection is gone; what is read may also be refused.
HandshakeResult(g) ==
  /\ g \in running
  /\ running' = running \ {g}
  /\ \E ok \in BOOLEAN :
       /\ ok => conn
       /\ g = "send" => ok = conn
       /\ errc' = Append(errc, ok)
  /\ UNCHANGED <<conn, pc, phase, left, cur, reqVars, term, disp, retr, got, msgs>>

\* Mutant: one of the two results is enough.
HandshakeReceive_One ==
  /\ pc = "handshake" /\ errc # <<>>
  /\ errc' = Tail(errc)
  /\ \/ /\ ~Head(errc)
        /\ pc' = "exit"
        /\ UNCHANGED <<running, phase, left>>
     \/ /\ Head(errc)
        /\ pc' = "setup" /\ left' = 0
        /\ UNCHANGED <<running, phase>>
  /\ UNCHANGED <<conn, cur, reqVars, term, disp, retr, got, msgs>>

\* case err := <-errc, with what follows the second value: the total
\* difficulty or the extension may be refused, and version 67 has a second
\* exchange over the same channel.
HandshakeReceive ==
  /\ pc = "handshake" /\ errc # <<>>
  /\ errc' = Tail(errc)
  /\ \/ /\ ~Head(errc)
        /\ pc' = "exit"
        /\ UNCHANGED <<running, phase, left>>
     \/ /\ Head(errc) /\ left = 2
        /\ left' = 1
        /\ UNCHANGED <<pc, running, phase>>
     \/ /\ Head(errc) /\ left = 1
        /\ left' = 0
        /\ pc' \in {"exit", "setup"}
        /\ UNCHANGED <<running, phase>>
     \/ /\ Head(errc) /\ left = 1 /\ phase = 1
        /\ left' = 2 /\ phase' = 2
        /\ running' = running \cup {"send", "read"}
        /\ UNCHANGED pc
  /\ UNCHANGED <<conn, cur, reqVars, term, disp, retr, got, msgs>>

\* case <-timeout.C: return p2p.DiscReadTimeout
HandshakeTimeout ==
  /\ pc = "handshake"
  /\ pc' = "exit"
  /\ UNCHANGED <<conn, hsVars, cur, reqVars, term, disp, retr, got, msgs>>

-----------------------------------------------------------------------------
(* The dispatcher and its callers *)

\* The dispatcher takes reqOp: the request is sent and tracked, or fails.
Dispatched(r) ==
  /\ disp
  /\ pending' = IF conn THEN pending \cup {r} ELSE pending
  /\ st' = [st EXCEPT ![r] = IF conn THEN "await" ELSE "done"]

\* The checkpoint is asked for first.  A failed dispatch ends runEthPeer.
SetupRequest(r) ==
  /\ pc = "setup" /\ st[r] = "new"
  /\ r \in Challenge
  /\ r \in Whitelist => \A c \in Checkpoint : st[c] # "new"
  /\ Dispatched(r)
  /\ pc' = IF conn THEN pc ELSE "exit"
  /\ UNCHANGED <<conn, hsVars, cur, cancel, term, disp, retr, got, msgs>>

SetupDone ==
  /\ pc = "setup" /\ \A r \in Challenge : st[r] # "new"
  /\ pc' = "read"
  /\ UNCHANGED <<conn, hsVars, cur, reqVars, term, disp, retr, got, msgs>>

\* dispatchRequest by another goroutine, which holds the registered peer.
Request(r) ==
  /\ r \in Fetch \cup Batch /\ st[r] = "new" /\ pc # "handshake"
  /\ \/ Dispatched(r)
     \/ term /\ st' = [st EXCEPT ![r] = "done"] /\ UNCHANGED pending
  /\ UNCHANGED <<conn, pc, hsVars, cur, cancel, term, disp, retr, got, msgs>>

\* The timer of a request fires, or its caller is cancelled.  The fetchers
\* close it, and some drop the peer; concurrentFetch keeps it in stales and
\* may drop the peer; a challenge drops it (removePeer) and forgets the request.
Timeout(r) ==
  /\ st[r] = "await"
  /\ \/ r \in Fetch /\ st' = [st EXCEPT ![r] = "close"] /\ conn' \in {conn, FALSE}
     \/ r \in Batch /\ st' = [st EXCEPT ![r] = "stale"] /\ conn' \in {conn, FALSE}
     \/ r \in Challenge /\ st' = [st EXCEPT ![r] = "gone"] /\ conn' = FALSE
  /\ UNCHANGED <<pc, hsVars, cur, pending, cancel, term, disp, retr, got, msgs>>

\* concurrentFetch returns, or learns that the peer has left.
Abort(r) ==
  /\ r \in Batch /\ st[r] \in {"await", "stale"}
  /\ st' = [st EXCEPT ![r] = "close"]
  /\ UNCHANGED <<conn, pc, hsVars, cur, pending, cancel, term, disp, retr, got, msgs>>

\* case <-dead: runEthPeer has returned.
Dead(r) ==
  /\ r \in Checkpoint /\ st[r] = "await" /\ pc = "closed"
  /\ st' = [st EXCEPT ![r] = "done"]
  /\ UNCHANGED <<conn, pc, hsVars, cur, pending, cancel, term, disp, retr, got, msgs>>

\* Mutant: the dispatcher acknowledges Close and keeps the request.
Close_Keep(r) ==
  /\ st[r] = "close"
  /\ disp \/ term
  /\ st' = [st EXCEPT ![r] = IF disp THEN "closing" ELSE "done"]
  /\ UNCHANGED <<conn, pc, hsVars, cur, pending, cancel, term, disp, retr, got, msgs>>

\* Request.Close: the dispatcher stops tracking, or the peer has terminated.
Close(r) ==
  /\ st[r] = "close"
  /\ \/ /\ disp
        /\ pending' = pending \ {r}
        /\ st' = [st EXCEPT ![r] = "closing"]
     \/ /\ term
        /\ st' = [st EXCEPT ![r] = "done"]
        /\ UNCHANGED pending
  /\ UNCHANGED <<conn, pc, hsVars, cur, cancel, term, disp, retr, got, msgs>>

\* Mutant: Close leaves the cancel channel open.
CloseCancel_Open(r) ==
  /\ st[r] = "closing"
  /\ st' = [st EXCEPT ![r] = "done"]
  /\ UNCHANGED <<conn, pc, hsVars, cur, pending, cancel, term, disp, retr, got, msgs>>

\* close(r.cancel)
CloseCancel(r) ==
  /\ st[r] = "closing"
  /\ cancel' = cancel \cup {r}
  /\ st' = [st EXCEPT ![r] = "done"]
  /\ UNCHANGED <<conn, pc, hsVars, cur, pending, term, disp, retr, got, msgs>>

\* case <-p.term: return; its map of pending requests goes with it.
DispatcherExit ==
  /\ term /\ disp
  /\ disp' = FALSE /\ pending' = {}
  /\ UNCHANGED <<conn, pc, hsVars, cur, st, cancel, term, retr, got, msgs>>

-----------------------------------------------------------------------------
(* The reader *)

Reading == pc = "read" /\ conn /\ msgs < MaxMsg /\ msgs' = msgs + 1

\* A response arrives that is not for receiveBlocks: to a request made, of
\* the wanted type or not, for the first time or again; or to an id that
\* CheckBlockComplete has removed.
ReadResponse(id, ok) ==
  /\ Reading
  /\ \/ id \in Req /\ st[id] # "new"
     \/ id \in Block /\ retr[id].state = "done"
  /\ cur' = [id |-> id, ok |-> ok]
  /\ pc' = "offer"
  /\ UNCHANGED <<conn, hsVars, reqVars, term, disp, retr, got>>

\* Mutant: the request stays tracked after its response.
DispatchResponse_Keep ==
  /\ pc = "offer" /\ disp
  /\ pc' = IF cur.id \in pending /\ cur.ok THEN "accepted" ELSE "read"
  /\ UNCHANGED pending
  /\ UNCHANGED <<conn, hsVars, cur, st, cancel, term, disp, retr, got, msgs>>

\* The dispatcher accepts a response of the wanted type and stops tracking;
\* a dangling or mismatching one is dropped without an error.  The session
\* goroutine alone closes term, so its case <-p.term is never chosen here.
DispatchResponse ==
  /\ pc = "offer" /\ disp
  /\ \/ /\ cur.id \in pending /\ cur.ok
        /\ pc' = "accepted"
        /\ pending' = pending \ {cur.id}
     \/ /\ cur.id \notin pending \/ ~cur.ok
        /\ pc' = "read"
        /\ UNCHANGED pending
  /\ UNCHANGED <<conn, hsVars, cur, st, cancel, term, disp, retr, got, msgs>>

\* select { case <-res.Req.cancel: return nil; default: ... }
CheckCancel ==
  /\ pc = "accepted"
  /\ pc' = IF cur.id \in cancel THEN "read" ELSE "deliver"
  /\ UNCHANGED <<conn, hsVars, cur, reqVars, term, disp, retr, got, msgs>>

\* case res.Req.sink <- res: the requester takes the response.
Deliver ==
  /\ pc = "deliver" /\ st[cur.id] \in {"await", "stale"}
  /\ pc' = "reply"
  /\ st' = [st EXCEPT ![cur.id] = "serve"]
  /\ got' = got \cup {cur.id}
  /\ UNCHANGED <<conn, hsVars, cur, pending, cancel, term, disp, retr, msgs>>

\* case <-res.Req.cancel: return nil
Discard ==
  /\ pc = "deliver" /\ cur.id \in cancel
  /\ pc' = "read"
  /\ UNCHANGED <<conn, hsVars, cur, reqVars, term, disp, retr, got, msgs>>

\* res.Done <- err: a challenge that is not met ends the session; the others
\* close their request next.
Done ==
  /\ pc = "reply" /\ st[cur.id] = "serve"
  /\ \/ /\ cur.id \in Challenge
        /\ st' = [st EXCEPT ![cur.id] = "done"]
        /\ pc' \in {"read", "exit"}
     \/ /\ cur.id \notin Challenge
        /\ st' = [st EXCEPT ![cur.id] = "close"]
        /\ pc' = "read"
  /\ UNCHANGED <<conn, hsVars, cur, pending, cancel, term, disp, retr, got, msgs>>

\* An announcement: RequestBlocks registers the id once both requests are out.
RequestBlocks(b) ==
  /\ Reading
  /\ retr[b].state = "new"
  /\ \/ retr' = [retr EXCEPT ![b].state = "open"] /\ UNCHANGED conn
     \/ conn' = FALSE /\ UNCHANGED retr
  /\ UNCHANGED <<pc, hsVars, cur, reqVars, term, disp, got>>

\* Mutant: the entry stays after its block is complete.
CheckBlockComplete_Keep(e) ==
  IF e.header = e.body /\ e.header > 0 THEN [e EXCEPT !.fed = @ + 1] ELSE e

\* As many bodies as headers: each pair makes a block and removes the entry,
\* so two empty lists leave it.
CheckBlockComplete(e) ==
  IF e.header = e.body /\ e.header > 0 THEN [e EXCEPT !.state = "done", !.fed = e.fed + 1] ELSE e

\* ProcessBlockHeader and ProcessBlockBody replace the list ...
ReplaceList(e, part, n) == [e EXCEPT ![part] = n, !.seen = e.seen \cup {part}]

\* ... and check: handleBlockHeaders66, handleBlockBodies66 with an id of
\* receiveBlocks.
ReadBlockAnswer(b, part, n) ==
  /\ Reading
  /\ retr[b].state = "open"
  /\ retr' = [retr EXCEPT ![b] = CheckBlockComplete(ReplaceList(retr[b], part, n))]
  /\ UNCHANGED <<conn, pc, hsVars, cur, reqVars, term, disp, got>>

\* ReadMsg fails, or the message is too large, unknown or does not decode.
ReadError ==
  /\ pc = "read"
  /\ pc' = "exit"
  /\ UNCHANGED <<conn, hsVars, cur, reqVars, term, disp, retr, got, msgs>>

\* Mutant: the deferred peer.Close() is missing.
ClosePeer_NoTerm ==
  /\ pc = "exit"
  /\ pc' = "closed" /\ conn' = FALSE
  /\ UNCHANGED <<hsVars, cur, reqVars, term, disp, retr, got, msgs>>

\* runEthPeer has returned: dead is closed, then defer peer.Close(); the p2p
\* peer closes the connection when one of its protocols returns.
ClosePeer ==
  /\ pc = "exit"
  /\ pc' = "closed" /\ term' = TRUE /\ conn' = FALSE
  /\ UNCHANGED <<hsVars, cur, reqVars, disp, retr, got, msgs>>

\* The remote side hangs up, or somebody disconnects the peer.
Disconnect ==
  /\ conn
  /\ conn' = FALSE
  /\ UNCHANGED <<pc, hsVars, cur, reqVars, term, disp, retr, got, msgs>>

Session ==
  \/ HandshakeReceive \/ HandshakeTimeout
  \/ \E r \in Req : SetupRequest(r)
  \/ SetupDone \/ DispatchResponse \/ CheckCancel \/ Deliver \/ Discard \/ Done
  \/ ClosePeer

Requester(r) == Timeout(r) \/ Abort(r) \/ Dead(r) \/ Close(r) \/ CloseCancel(r)

Read ==
  \/ \E id \in Req \cup Block, ok \in BOOLEAN : ReadResponse(id, ok)
  \/ \E b \in Block : RequestBlocks(b)
  \/ \E b \in Block, part \in {"header", "body"}, n \in 0..MaxLen : ReadBlockAnswer(b, part, n)

Next ==
  \/ \E g \in {"send", "read"} : HandshakeResult(g)
  \/ Session \/ Read \/ ReadError \/ DispatcherExit \/ Disconnect
  \/ \E r \in Req : Request(r) \/ Requester(r)

Spec == Init /\ [][Next]_vars

\* Goroutines that can go on do; a read fails once the connection is gone;
\* timers fire.  That the remote side answers, or anybody makes a request,
\* is not assumed.
FairSpec ==
  /\ Spec
  /\ \A g \in {"send", "read"} : WF_vars(~conn /\ HandshakeResult(g))
  /\ WF_vars(Session) /\ WF_vars(~conn /\ ReadError)
  /\ WF_vars(DispatcherExit)
  /\ \A r \in Req : WF_vars(Requester(r))

-----------------------------------------------------------------------------
(* Properties *)

\* Dispatcher and reader together keep the promise of Retrieval to whoever
\* makes requests, whatever the remote side sends twice, late or unasked: a
\* request counts as open while the dispatcher tracks it or the reader holds
\* a response that the dispatcher accepted for it.
Held == IF pc \in {"accepted", "deliver"} THEN {cur.id} ELSE {}

Promise == INSTANCE Retrieval WITH
  used <- {r \in Req : st[r] # "new"},
  open <- pending \cup Held,
  answered <- got

ImplementsRetrieval == Promise!Spec

\* The reader waits for ever for a requester that gave up without Close: a
\* challenge of runEthPeer whose timer fired when its response was accepted.
Abandoned == pc = "deliver" /\ st[cur.id] = "gone"

\* dispatchResponse returns: whatever order responses, timeouts and Close come
\* in, the reader gets back to its messages, unless the request is Abandoned.
ReaderReleased ==
  pc \in {"offer", "accepted", "deliver", "reply"} ~> (pc \in {"read", "exit"} \/ Abandoned)

\* Once the connection is gone every goroutine of the session ends, the
\* handshake's included, and every caller gets its answer or an error.
SessionEnds ==
  ~conn ~> \/ /\ pc = "closed" /\ ~disp /\ running = {}
              /\ \A r \in Req : st[r] \in {"new", "done", "gone"}
           \/ Abandoned

\* errc has room for every result that is still to come, and no goroutine of
\* the handshake still reads the stream when the session reads messages from
\* it: two values were received in each exchange.
HandshakeQuiet ==
  /\ Len(errc) + Cardinality(running) <= 2
  /\ pc \in {"setup", "read", "offer", "accepted", "deliver", "reply"} =>
       errc = <<>> /\ running = {}

\* The dispatcher forgets what nobody waits for: while the peer lives, a
\* tracked request has a caller that listens or is about to close it, or is
\* a challenge that timed out.
TrackedIsAwaited ==
  ~term => \A r \in pending :
    st[r] \in {"await", "stale", "close"} \/ (r \in Challenge /\ st[r] = "gone")

\* An announced block is completed at most once, from a header answer and a
\* body answer of the same length; an entry with both answers stays in
\* receiveBlocks only if they differ in length or are empty.
BlockCompletedOnce ==
  \A b \in Block :
    /\ retr[b].fed <= 1
    /\ retr[b].fed = 1 => retr[b].header = retr[b].body
    /\ retr[b].state = "open" /\ retr[b].seen = {"header", "body"} =>
         retr[b].header # retr[b].body \/ retr[b].header = 0
==============================================================================
