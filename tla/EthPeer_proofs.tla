---------------------------- MODULE EthPeer_proofs ----------------------------
(***************************************************************************)
(* Proofs about EthPeer, for any requests and announced blocks and any     *)
(* number of messages.                                                     *)
(***************************************************************************)
EXTENDS EthPeer, FiniteSetTheorems, TLAPS

-----------------------------------------------------------------------------
(* Types.  fed counts within its type only because a block is fed once.    *)

\* receiveBlocks: an entry that can still be completed was not, and a
\* completed one had as many bodies as headers.
FedOnce ==
  \A b \in Block :
    /\ retr[b].state = "new" => retr[b].seen = {}
    /\ retr[b].state # "done" => retr[b].fed = 0
    /\ retr[b].state = "done" => retr[b].fed = 1 /\ retr[b].header = retr[b].body
    /\ retr[b].state = "open" /\ retr[b].seen = {"header", "body"} =>
         retr[b].header # retr[b].body \/ retr[b].header = 0

\* The dispatcher tracks requests that were made, and no longer the one whose
\* response the reader holds.
HeldOnce ==
  /\ \A r \in pending : st[r] # "new"
  /\ pc \in {"accepted", "deliver"} =>
       cur.id \in Req /\ cur.id \notin pending /\ st[cur.id] # "new"

\* The answer to RequestBlocks keeps the entries typed and fed once.
LEMMA AnswerKeepsRetr ==
  ASSUME NEW b \in Block, NEW part \in {"header", "body"}, NEW n \in 0..MaxLen,
         TypeOK, FedOnce, ReadBlockAnswer(b, part, n)
  PROVE  retr' \in [Block -> Entry] /\ FedOnce'
<1> DEFINE e == ReplaceList(retr[b], part, n)
           f == CheckBlockComplete(e)
<1>0. MaxMsg \in Nat /\ MaxLen \in Nat /\ MaxMsg > 0
  BY EthPeerAssumption DEF TypeOK, ReadBlockAnswer, Reading
<1>1. /\ retr \in [Block -> Entry] /\ retr[b] \in Entry /\ retr[b].state = "open"
      /\ retr' = [retr EXCEPT ![b] = f]
  BY Zenon DEF TypeOK, ReadBlockAnswer
<1>2. e \in Entry /\ e.state = "open" /\ e.fed = 0
  <2>1. retr[b].fed = 0
    BY <1>1, Zenon DEF FedOnce
  <2>2. CASE part = "header"
    BY <1>1, <2>1, <2>2, Zenon DEF Entry, ReplaceList
  <2>3. CASE part = "body"
    BY <1>1, <2>1, <2>3, Zenon DEF Entry, ReplaceList
  <2> QED
    BY <2>2, <2>3, Zenon
<1> HIDE DEF e
<1>3. /\ f \in Entry
      /\ f.state # "new" /\ (f.state # "done" => f.fed = 0)
      /\ f.state = "done" => f.fed = 1 /\ f.header = f.body
      /\ f.state = "open" => f.header # f.body \/ f.header = 0
  <2>1. CASE e.header = e.body /\ e.header > 0
    <3>1. f = [e EXCEPT !.state = "done", !.fed = e.fed + 1]
      BY <2>1, Zenon DEF CheckBlockComplete
    <3>2. /\ f.state = "done" /\ f.fed = 1 /\ f.header = e.header /\ f.body = e.body
          /\ f.seen = e.seen /\ 1 \in 0..MaxMsg
      BY <1>0, <1>2, <3>1 DEF Entry
    <3>3. f \in Entry
      BY <1>2, <3>1, <3>2, Zenon DEF Entry
    <3> QED
      BY <2>1, <3>2, <3>3, Zenon
  <2>2. CASE ~(e.header = e.body /\ e.header > 0)
    <3>1. f = e
      BY <2>2, Zenon DEF CheckBlockComplete
    <3> QED
      BY <1>0, <1>2, <2>2, <3>1 DEF Entry
  <2> QED
    BY <2>1, <2>2, Zenon
<1> HIDE DEF f
<1>4. retr' \in [Block -> Entry]
  BY <1>1, <1>3, Zenon
<1>5. ASSUME NEW x \in Block
      PROVE  /\ retr'[x].state = "new" => retr'[x].seen = {}
             /\ retr'[x].state # "done" => retr'[x].fed = 0
             /\ retr'[x].state = "done" => retr'[x].fed = 1 /\ retr'[x].header = retr'[x].body
             /\ retr'[x].state = "open" /\ retr'[x].seen = {"header", "body"} =>
                  retr'[x].header # retr'[x].body \/ retr'[x].header = 0
  <2>1. CASE x = b
    <3>1. retr'[x] = f
      BY <1>1, <2>1, Zenon
    <3> QED
      BY <1>3, <3>1, Zenon
  <2>2. CASE x # b
    <3>1. retr'[x] = retr[x]
      BY <1>1, <2>2, Zenon
    <3> QED
      BY <3>1, Zenon DEF FedOnce
  <2> QED
    BY <2>1, <2>2, Zenon
<1> QED
  BY <1>4, <1>5, Zenon DEF FedOnce

\* RequestBlocks registers an entry, still empty.
LEMMA RequestKeepsRetr ==
  ASSUME NEW b \in Block, TypeOK, FedOnce, retr[b].state = "new",
         retr' = [retr EXCEPT ![b].state = "open"]
  PROVE  retr' \in [Block -> Entry] /\ FedOnce'
<1>1. retr \in [Block -> Entry] /\ retr[b] \in Entry
  BY Zenon DEF TypeOK
<1>0. retr'[b] = [retr[b] EXCEPT !.state = "open"]
  BY <1>1, Zenon
<1>2. /\ retr'[b] \in Entry /\ retr'[b].state = "open" /\ retr'[b].seen = retr[b].seen
      /\ retr'[b].fed = retr[b].fed
  BY <1>0, <1>1, Zenon DEF Entry
<1>3. \A x \in Block : x # b => retr'[x] = retr[x]
  BY <1>1, Zenon
<1>4. retr' \in [Block -> Entry]
  BY <1>1, <1>2, Zenon
<1>5. retr[b].seen = {} /\ retr[b].fed = 0
  BY Zenon DEF FedOnce
<1>6. \A x \in Block : x = b \/ retr'[x] = retr[x]
  BY <1>3, Zenon
<1>7. FedOnce'
  <2> SUFFICES ASSUME NEW x \in Block
      PROVE  /\ retr'[x].state = "new" => retr'[x].seen = {}
             /\ retr'[x].state # "done" => retr'[x].fed = 0
             /\ retr'[x].state = "done" => retr'[x].fed = 1 /\ retr'[x].header = retr'[x].body
             /\ retr'[x].state = "open" /\ retr'[x].seen = {"header", "body"} =>
                  retr'[x].header # retr'[x].body \/ retr'[x].header = 0
    BY Zenon DEF FedOnce
  <2>1. CASE x = b
    BY <1>2, <1>5, <2>1, Zenon
  <2>2. CASE retr'[x] = retr[x]
    BY <2>2, Zenon DEF FedOnce
  <2> QED
    BY <1>6, <2>1, <2>2, Zenon
<1> QED
  BY <1>4, <1>7, Zenon
-----------------------------------------------------------------------------
(* What each group of steps may change.                                    *)

Handshaking ==
  HandshakeReceive \/ HandshakeTimeout \/ \E g \in {"send", "read"} : HandshakeResult(g)

\* Steps of the session goroutine after the handshake, without requests.
Moving == SetupDone \/ DispatchResponse \/ CheckCancel \/ Discard \/ ReadError

\* Steps that change the state of one request.
Requesting(r) == SetupRequest(r) \/ Request(r) \/ Requester(r)

Ending == DispatcherExit \/ ClosePeer \/ Disconnect

\* Next, by these groups.
LEMMA NextGroups ==
  Next => Handshaking \/ Moving \/ Deliver \/ Done \/ Read \/ Ending
          \/ \E r \in Req : Requesting(r)
BY Zenon DEF Next, Session, Handshaking, Moving, Requesting, Ending

\* The handshake leaves the rest of the session alone.
LEMMA HandshakeFrame ==
  Handshaking => UNCHANGED <<conn, cur, st, pending, cancel, term, disp, retr, got, msgs>>
BY Zenon DEF Handshaking, HandshakeReceive, HandshakeTimeout, HandshakeResult, reqVars

\* After the handshake nothing of it changes.
LEMMA LaterFrame ==
  ASSUME \/ Moving \/ Deliver \/ Done \/ Read \/ Ending \/ \E r \in Req : Requesting(r)
  PROVE  UNCHANGED <<running, errc, phase, left>>
<1>1. CASE Moving \/ Deliver \/ Done \/ Ending
  BY <1>1, Zenon DEF Moving, SetupDone, DispatchResponse, CheckCancel, Discard, ReadError,
     Deliver,
     Done, Ending, DispatcherExit, ClosePeer, Disconnect, hsVars
<1>2. CASE Read
  BY <1>2, Zenon DEF Read, ReadResponse, RequestBlocks, ReadBlockAnswer, hsVars
<1>3. CASE \E r \in Req : Requesting(r)
  BY <1>3, Zenon DEF Requesting, SetupRequest, Request, Requester, Timeout, Abort, Dead, Close,
     CloseCancel, hsVars
<1> QED
  BY <1>1, <1>2, <1>3, Zenon

\* The flags stay flags.
LEMMA NextFlags ==
  ASSUME conn \in BOOLEAN, term \in BOOLEAN, disp \in BOOLEAN, Next
  PROVE  conn' \in BOOLEAN /\ term' \in BOOLEAN /\ disp' \in BOOLEAN
<1>1. CASE Handshaking
  BY <1>1, HandshakeFrame, Zenon
<1>2. CASE Moving \/ Deliver \/ Done
  BY <1>2, Zenon DEF Moving, SetupDone, DispatchResponse, CheckCancel, Discard, ReadError,
     Deliver, Done
<1>3. CASE Read
  BY <1>3, Zenon DEF Read, ReadResponse, RequestBlocks, ReadBlockAnswer
<1>4. CASE Ending
  BY <1>4, Zenon DEF Ending, DispatcherExit, ClosePeer, Disconnect
<1>5. ASSUME NEW r \in Req, Requesting(r)
      PROVE  conn' \in BOOLEAN /\ term' \in BOOLEAN /\ disp' \in BOOLEAN
  BY <1>5, Zenon DEF Requesting, SetupRequest, Request, Requester, Timeout, Abort, Dead, Close,
     CloseCancel
<1> QED
  BY <1>1, <1>2, <1>3, <1>4, <1>5, NextGroups, Zenon

\* The handshake's own variables keep their types.
LEMMA HandshakeType ==
  ASSUME TypeOK, Handshaking
  PROVE  /\ pc' \in SessionStates /\ running' \subseteq {"send", "read"}
         /\ errc' \in Seq(BOOLEAN) /\ phase' \in 1..2 /\ left' \in 0..2
<1>1. CASE HandshakeTimeout
  BY <1>1, Zenon DEF HandshakeTimeout, TypeOK, SessionStates, hsVars
<1>2. ASSUME NEW g \in {"send", "read"}, HandshakeResult(g)
      PROVE  /\ pc' \in SessionStates /\ running' \subseteq {"send", "read"}
             /\ errc' \in Seq(BOOLEAN) /\ phase' \in 1..2 /\ left' \in 0..2
  BY <1>2 DEF HandshakeResult, TypeOK
<1>3. CASE HandshakeReceive
  <2>1. errc \in Seq(BOOLEAN) /\ errc # <<>> /\ errc' = Tail(errc)
    BY <1>3, Zenon DEF HandshakeReceive, TypeOK
  <2>2. errc' \in Seq(BOOLEAN)
    BY <2>1
  <2>3. pc' \in SessionStates /\ running' \subseteq {"send", "read"}
        /\ phase' \in 1..2 /\ left' \in 0..2
    <3>1. /\ pc' \in {pc, "exit", "setup"} /\ running' \in {running, running \cup {"send", "read"}}
          /\ phase' \in {phase, 2} /\ left' \in {left, 0, 1, 2}
      BY <1>3, Zenon DEF HandshakeReceive
    <3> QED
      BY <3>1 DEF TypeOK, SessionStates
  <2> QED
    BY <2>2, <2>3, Zenon
<1> QED
  BY <1>1, <1>2, <1>3, Zenon DEF Handshaking

\* One step keeps the types, and receiveBlocks as it should be.
LEMMA NextType == TypeOK /\ FedOnce /\ HeldOnce /\ [Next]_vars => TypeOK' /\ FedOnce'
<1> SUFFICES ASSUME TypeOK, FedOnce, HeldOnce, [Next]_vars PROVE TypeOK' /\ FedOnce'
  BY Zenon
<1> DEFINE Flags == conn \in BOOLEAN /\ term \in BOOLEAN /\ disp \in BOOLEAN
           Hs == /\ running \subseteq {"send", "read"} /\ errc \in Seq(BOOLEAN)
                 /\ phase \in 1..2 /\ left \in 0..2
           Cur == cur \in [id : Req \cup Block, ok : BOOLEAN] \cup {NoResponse}
           Reqs == /\ st \in [Req -> ReqStates]
                   /\ pending \subseteq Req /\ cancel \subseteq Req /\ got \subseteq Req
           Rest == pc \in SessionStates /\ msgs \in 0..MaxMsg
           Retr == retr \in [Block -> Entry] /\ FedOnce
<1>0. Flags /\ Hs /\ Cur /\ Reqs /\ Rest /\ Retr
  BY Zenon DEF TypeOK
<1>1. CASE UNCHANGED vars
  BY <1>1, Zenon DEF vars, hsVars, reqVars, TypeOK, FedOnce
<1>2. CASE Next
  <2>1. Flags'
    BY <1>0, <1>2, NextFlags, Zenon
  <2>2. CASE Handshaking
    <3>1. Hs' /\ pc' \in SessionStates
      BY <2>2, HandshakeType, Zenon
    <3>2. UNCHANGED <<cur, st, pending, cancel, retr, got, msgs>>
      BY <2>2, HandshakeFrame, Zenon
    <3>3. Cur' /\ Reqs' /\ msgs' \in 0..MaxMsg
      BY <1>0, <3>2, Zenon
    <3>4. Retr'
      BY <1>0, <3>2, Zenon DEF FedOnce
    <3> QED
      BY <2>1, <3>1, <3>3, <3>4, Zenon DEF TypeOK
  <2>3. ASSUME \/ Moving \/ Deliver \/ Done \/ Read \/ Ending \/ \E r \in Req : Requesting(r)
        PROVE  Hs'
    BY <1>0, <2>3, LaterFrame, Zenon
  <2>4. CASE Moving
    <3>1. UNCHANGED <<cur, st, cancel, retr, got, msgs>> /\ pending' \subseteq pending
          /\ pc' \in {"read", "accepted", "deliver", "exit"}
      BY <2>4, Zenon DEF Moving, SetupDone, DispatchResponse, CheckCancel, Discard,
         ReadError, reqVars
    <3>2. Cur' /\ Reqs' /\ Rest'
      BY <1>0, <3>1, Zenon DEF SessionStates
    <3>3. Retr'
      BY <1>0, <3>1, Zenon DEF FedOnce
    <3> QED
      BY <2>1, <2>3, <2>4, <3>2, <3>3, Zenon DEF TypeOK
  <2>5. CASE Ending
    <3>1. UNCHANGED <<cur, st, cancel, retr, got, msgs>> /\ pending' \subseteq pending
          /\ pc' \in {pc, "closed"}
      BY <2>5, Zenon DEF Ending, DispatcherExit, ClosePeer, Disconnect, reqVars
    <3>2. Cur' /\ Reqs' /\ Rest'
      BY <1>0, <3>1, Zenon DEF SessionStates
    <3>3. Retr'
      BY <1>0, <3>1, Zenon DEF FedOnce
    <3> QED
      BY <2>1, <2>3, <2>5, <3>2, <3>3, Zenon DEF TypeOK
  <2>6. ASSUME NEW r \in Req, Requesting(r) PROVE TypeOK' /\ FedOnce'
    <3>1. UNCHANGED <<cur, retr, got, msgs>> /\ pc' \in {pc, "exit"}
          /\ pending' \in {pending, pending \cup {r}, pending \ {r}}
          /\ cancel' \in {cancel, cancel \cup {r}}
      BY <2>6, Zenon DEF Requesting, SetupRequest, Request, Requester, Timeout, Abort, Dead,
         Close,
         CloseCancel, Dispatched
    <3>2. \E s \in ReqStates : st' = [st EXCEPT ![r] = s]
      BY <2>6, Zenon DEF Requesting, SetupRequest, Request, Requester, Timeout, Abort, Dead,
         Close,
         CloseCancel, Dispatched, ReqStates
    <3>3. Cur' /\ Reqs' /\ Rest'
      BY <1>0, <3>1, <3>2, Zenon DEF SessionStates
    <3>4. Retr'
      BY <1>0, <3>1, Zenon DEF FedOnce
    <3> QED
      BY <2>1, <2>3, <2>6, <3>3, <3>4, Zenon DEF TypeOK
  <2>7. CASE Deliver \/ Done
    <3>1. UNCHANGED <<cur, pending, cancel, retr, msgs>> /\ pc' \in {"reply", "read", "exit"}
          /\ \E s \in ReqStates : st' = [st EXCEPT ![cur.id] = s]
      BY <2>7, Zenon DEF Deliver, Done, ReqStates
    <3>2. got' \subseteq Req
      BY <1>0, <2>7, Zenon DEF Deliver, Done, HeldOnce
    <3>3. Cur' /\ Reqs' /\ Rest'
      BY <1>0, <3>1, <3>2, Zenon DEF SessionStates
    <3>4. Retr'
      BY <1>0, <3>1, Zenon DEF FedOnce
    <3> QED
      BY <2>1, <2>3, <2>7, <3>3, <3>4, Zenon DEF TypeOK
  <2>8. CASE Read
    <3>1. msgs' \in 0..MaxMsg
      <4>1. msgs < MaxMsg /\ msgs' = msgs + 1
        BY <2>8, Zenon DEF Read, ReadResponse, RequestBlocks, ReadBlockAnswer, Reading
      <4> QED
        BY <1>0, <4>1, EthPeerAssumption
    <3>2. UNCHANGED <<st, pending, cancel, got>>
      BY <2>8, Zenon DEF Read, ReadResponse, RequestBlocks, ReadBlockAnswer, reqVars
    <3>3. pc' \in {pc, "offer"}
      BY <2>8, Zenon DEF Read, ReadResponse, RequestBlocks, ReadBlockAnswer
    <3>4. Cur'
      <4>1. \/ cur' = cur
            \/ \E id \in Req \cup Block, ok \in BOOLEAN : cur' = [id |-> id, ok |-> ok]
        BY <2>8, Zenon DEF Read, ReadResponse, RequestBlocks, ReadBlockAnswer
      <4> QED
        BY <1>0, <4>1
    <3>5. Retr'
      <4>1. CASE retr' = retr
        BY <1>0, <4>1, Zenon DEF FedOnce
      <4>2. CASE \E b \in Block : /\ retr[b].state = "new"
                                   /\ retr' = [retr EXCEPT ![b].state = "open"]
        BY <4>2, RequestKeepsRetr, Zenon
      <4>3. CASE \E b \in Block, part \in {"header", "body"}, n \in 0..MaxLen :
                   ReadBlockAnswer(b, part, n)
        BY <4>3, AnswerKeepsRetr, Zenon
      <4> QED
        BY <2>8, <4>1, <4>2, <4>3, Zenon DEF Read, ReadResponse, RequestBlocks
    <3>6. Reqs' /\ Rest'
      BY <1>0, <3>1, <3>2, <3>3, Zenon DEF SessionStates
    <3> QED
      BY <2>1, <2>3, <2>8, <3>4, <3>5, <3>6, Zenon DEF TypeOK
  <2> QED
    BY <1>2, <2>2, <2>4, <2>5, <2>6, <2>7, <2>8, NextGroups, Zenon
<1> QED
  BY <1>1, <1>2, Zenon

\* One step keeps the tracked requests apart from the held one.
LEMMA NextHeld == TypeOK /\ HeldOnce /\ [Next]_vars => HeldOnce'
<1> SUFFICES ASSUME TypeOK, HeldOnce, [Next]_vars PROVE HeldOnce'
  BY Zenon
<1>0. st \in [Req -> ReqStates] /\ pending \subseteq Req
  BY Zenon DEF TypeOK
<1>1. CASE UNCHANGED vars
  BY <1>1, Zenon DEF vars, reqVars, HeldOnce
<1>2. CASE Handshaking
  <2>1. UNCHANGED <<cur, st, pending>>
    BY <1>2, HandshakeFrame, Zenon
  <2>2. pc' \in {pc, "exit", "setup"}
    BY <1>2, Zenon DEF Handshaking, HandshakeReceive, HandshakeTimeout, HandshakeResult
  <2> QED
    BY <2>1, <2>2, Zenon DEF HeldOnce
<1>3. CASE Moving
  <2>1. UNCHANGED <<cur, st>>
    BY <1>3, Zenon DEF Moving, SetupDone, DispatchResponse, CheckCancel, Discard, ReadError,
       reqVars
  <2>2. \/ pc' \in {"read", "exit"} /\ pending' = pending
        \/ pc = "accepted" /\ pc' \in {"read", "deliver"} /\ pending' = pending
        \/ pc' = "accepted" /\ cur.id \in pending /\ pending' = pending \ {cur.id}
    BY <1>3, Zenon DEF Moving, SetupDone, DispatchResponse, CheckCancel, Discard, ReadError,
       reqVars
  <2> QED
    BY <1>0, <2>1, <2>2, Zenon DEF HeldOnce
<1>4. CASE Deliver \/ Done
  <2>1. /\ pc' \in {"reply", "read", "exit"} /\ pending' = pending
        /\ \E s \in {"serve", "done", "close"} : st' = [st EXCEPT ![cur.id] = s]
    BY <1>4, Zenon DEF Deliver, Done
  <2> QED
    BY <1>0, <2>1, Zenon DEF HeldOnce
<1>5. CASE Read
  <2>1. UNCHANGED <<st, pending>> /\ pc' \in {"read", "offer"}
    BY <1>5, Zenon DEF Read, ReadResponse, RequestBlocks, ReadBlockAnswer, Reading, reqVars
  <2> QED
    BY <2>1, Zenon DEF HeldOnce
<1>6. CASE Ending
  <2>1. UNCHANGED <<cur, st>> /\ pending' \subseteq pending /\ pc' \in {pc, "closed"}
    BY <1>6, Zenon DEF Ending, DispatcherExit, ClosePeer, Disconnect, reqVars
  <2> QED
    BY <2>1, Zenon DEF HeldOnce
<1>7. ASSUME NEW r \in Req, Requesting(r) PROVE HeldOnce'
  <2>1. cur' = cur /\ pc' \in {pc, "exit"}
    BY <1>7, Zenon DEF Requesting, SetupRequest, Request, Requester, Timeout, Abort, Dead,
       Close,
       CloseCancel
  <2>2. \E s \in ReqStates \ {"new"} : st' = [st EXCEPT ![r] = s]
    BY <1>7, Zenon DEF Requesting, SetupRequest, Request, Requester, Timeout, Abort, Dead,
       Close,
       CloseCancel, Dispatched, ReqStates
  <2>3. pending' \subseteq pending \/ (st[r] = "new" /\ pending' = pending \cup {r})
    BY <1>7, Zenon DEF Requesting, SetupRequest, Request, Requester, Timeout, Abort, Dead,
       Close,
       CloseCancel, Dispatched
  <2> QED
    BY <1>0, <2>1, <2>2, <2>3, Zenon DEF HeldOnce
<1> QED
  BY <1>1, <1>2, <1>3, <1>4, <1>5, <1>6, <1>7, NextGroups, Zenon

SessionInv == TypeOK /\ FedOnce /\ HeldOnce

\* The session starts so.
LEMMA InitSession == Init => SessionInv
<1> SUFFICES ASSUME Init PROVE SessionInv
  BY Zenon
<1>1. conn \in BOOLEAN /\ term \in BOOLEAN /\ disp \in BOOLEAN
  BY Zenon DEF Init
<1>2. running \subseteq {"send", "read"} /\ errc \in Seq(BOOLEAN) /\ phase \in 1..2 /\ left \in 0..2
  BY DEF Init
<1>3. pc \in SessionStates /\ st \in [Req -> ReqStates]
  BY Zenon DEF Init, SessionStates, ReqStates
<1>4. /\ cur \in [id : Req \cup Block, ok : BOOLEAN] \cup {NoResponse}
      /\ pending \subseteq Req /\ cancel \subseteq Req /\ got \subseteq Req
  BY Zenon DEF Init
<1>5. msgs \in 0..MaxMsg /\ retr \in [Block -> Entry]
  BY EthPeerAssumption DEF Init, Entry
<1>6. TypeOK
  BY <1>1, <1>2, <1>3, <1>4, <1>5, Zenon DEF TypeOK
<1>7. FedOnce
  BY Zenon DEF Init, FedOnce
<1>8. HeldOnce
  BY Zenon DEF Init, HeldOnce
<1> QED
  BY <1>6, <1>7, <1>8, Zenon DEF SessionInv

\* The inductive invariant of the session.
LEMMA SessionInvariant == Spec => []SessionInv
<1>1. SessionInv /\ [Next]_vars => SessionInv'
  BY NextType, NextHeld, Zenon DEF SessionInv
<1> QED
  BY <1>1, InitSession, PTL DEF Spec

\* Every variable keeps its type through handshake, requests and blocks.
THEOREM TypeCorrect == Spec => []TypeOK
<1>1. SessionInv => TypeOK
  BY Zenon DEF SessionInv
<1> QED
  BY <1>1, SessionInvariant, PTL

\* CheckBlockComplete completes an announced block at most once, and from
\* answers of the same length.
THEOREM BlockOnce == Spec => []BlockCompletedOnce
<1>1. SessionInv => BlockCompletedOnce
  <2> SUFFICES ASSUME TypeOK, FedOnce, NEW b \in Block
               PROVE  /\ retr[b].fed <= 1
                      /\ retr[b].fed = 1 => retr[b].header = retr[b].body
                      /\ retr[b].state = "open" /\ retr[b].seen = {"header", "body"} =>
                           retr[b].header # retr[b].body \/ retr[b].header = 0
    BY Zenon DEF SessionInv, BlockCompletedOnce
  <2>1. retr[b].fed = 0 \/ (retr[b].fed = 1 /\ retr[b].header = retr[b].body)
    BY Zenon DEF FedOnce
  <2> QED
    BY <2>1 DEF FedOnce
<1> QED
  BY <1>1, SessionInvariant, PTL

-----------------------------------------------------------------------------
(* What the dispatcher tracks.                                             *)

\* term is closed before anything is told that the session is over.
AwaitedInv == TrackedIsAwaited /\ (pc = "closed" => term)

\* A caller leaves a tracked request only through Close, or as a challenge.
LEMMA NextAwaited == SessionInv /\ AwaitedInv /\ [Next]_vars => AwaitedInv'
<1> SUFFICES ASSUME SessionInv, AwaitedInv, [Next]_vars PROVE AwaitedInv'
  BY Zenon
<1> USE DEF AwaitedInv
<1>0. st \in [Req -> ReqStates] /\ pending \subseteq Req /\ HeldOnce
  BY Zenon DEF SessionInv, TypeOK
<1>1. CASE UNCHANGED vars
  BY <1>1, Zenon DEF vars, reqVars, TrackedIsAwaited
<1>2. CASE Handshaking
  <2>1. UNCHANGED <<st, pending, term>>
    BY <1>2, HandshakeFrame, Zenon
  <2>2. pc' \in {pc, "exit", "setup"}
    BY <1>2, Zenon DEF Handshaking, HandshakeReceive, HandshakeTimeout, HandshakeResult
  <2> QED
    BY <2>1, <2>2, Zenon DEF TrackedIsAwaited
<1>3. CASE Moving
  <2>1. UNCHANGED <<st, term>> /\ pending' \subseteq pending /\ pc' # "closed"
    BY <1>3, Zenon DEF Moving, SetupDone, DispatchResponse, CheckCancel, Discard, ReadError,
       reqVars
  <2> QED
    BY <2>1, Zenon DEF TrackedIsAwaited
<1>4. CASE Deliver
  <2>1. /\ UNCHANGED <<pending, term>> /\ pc' # "closed" /\ cur.id \notin pending
        /\ st' = [st EXCEPT ![cur.id] = "serve"]
    BY <1>0, <1>4, Zenon DEF Deliver, HeldOnce
  <2> QED
    BY <1>0, <2>1, Zenon DEF TrackedIsAwaited
<1>5. CASE Done
  <2>1. /\ UNCHANGED <<pending, term>> /\ pc' # "closed" /\ st[cur.id] = "serve"
        /\ \E s \in {"done", "close"} : st' = [st EXCEPT ![cur.id] = s]
    BY <1>5, Zenon DEF Done
  <2> QED
    BY <1>0, <2>1, Zenon DEF TrackedIsAwaited
<1>6. CASE Read
  <2>1. UNCHANGED <<st, pending, term>> /\ pc' \in {pc, "offer"}
    BY <1>6, Zenon DEF Read, ReadResponse, RequestBlocks, ReadBlockAnswer, reqVars
  <2> QED
    BY <2>1, Zenon DEF TrackedIsAwaited
<1>7. CASE Ending
  <2>1. /\ st' = st /\ pending' \subseteq pending /\ (term => term')
        /\ (pc' = pc \/ term')
    BY <1>7, Zenon DEF Ending, DispatcherExit, ClosePeer, Disconnect, reqVars
  <2> QED
    BY <2>1, Zenon DEF TrackedIsAwaited
<1>8. ASSUME NEW r \in Req, Requesting(r) PROVE AwaitedInv'
  <2>1. term' = term /\ pc' \in {pc, "exit"}
    BY <1>8, Zenon DEF Requesting, SetupRequest, Request, Requester, Timeout, Abort, Dead,
       Close,
       CloseCancel
  <2>2. CASE term
    BY <2>1, <2>2, Zenon DEF TrackedIsAwaited
  <2>3. CASE ~term
    <3>1. CASE SetupRequest(r) \/ Request(r)
      <4>1. /\ \/ pending' = pending \cup {r} /\ st' = [st EXCEPT ![r] = "await"]
               \/ pending' = pending /\ st' = [st EXCEPT ![r] = "done"]
            /\ st[r] = "new"
        BY <2>3, <3>1, Zenon DEF SetupRequest, Request, Dispatched
      <4> QED
        BY <1>0, <2>1, <2>3, <4>1, Zenon DEF TrackedIsAwaited, HeldOnce
    <3>2. CASE Timeout(r) \/ Abort(r)
      <4>1. /\ pending' = pending
            /\ \/ \E s \in {"close", "stale"} : st' = [st EXCEPT ![r] = s]
               \/ r \in Challenge /\ st' = [st EXCEPT ![r] = "gone"]
        BY <3>2, Zenon DEF Timeout, Abort
      <4> QED
        BY <1>0, <2>1, <2>3, <4>1, Zenon DEF TrackedIsAwaited
    <3>3. CASE Dead(r)
      BY <2>3, <3>3, Zenon DEF Dead
    <3>4. CASE Close(r)
      <4>1. pending' = pending \ {r} /\ st' = [st EXCEPT ![r] = "closing"]
        BY <2>3, <3>4, Zenon DEF Close
      <4> QED
        BY <1>0, <2>1, <2>3, <4>1, Zenon DEF TrackedIsAwaited
    <3>5. CASE CloseCancel(r)
      <4>1. pending' = pending /\ st[r] = "closing" /\ st' = [st EXCEPT ![r] = "done"]
        BY <3>5, Zenon DEF CloseCancel
      <4> QED
        BY <1>0, <2>1, <2>3, <4>1, Zenon DEF TrackedIsAwaited
    <3> QED
      BY <1>8, <3>1, <3>2, <3>3, <3>4, <3>5, Zenon DEF Requesting, Requester
  <2> QED
    BY <2>2, <2>3, Zenon
<1> QED
  BY <1>1, <1>2, <1>3, <1>4, <1>5, <1>6, <1>7, <1>8, NextGroups, Zenon

\* The dispatcher forgets what nobody waits for while the peer lives.
THEOREM Tracked == Spec => []TrackedIsAwaited
<1>1. Init => AwaitedInv
  BY Zenon DEF Init, AwaitedInv, TrackedIsAwaited
<1>2. AwaitedInv => TrackedIsAwaited
  BY Zenon DEF AwaitedInv
<1> QED
  BY <1>1, <1>2, NextAwaited, SessionInvariant, PTL DEF Spec

-----------------------------------------------------------------------------
(* The handshake.  Handshake still expects as many values as are in errc   *)
(* or on their way to it.                                                  *)

Coming == Len(errc) + Cardinality(running)

QuietInv ==
  /\ Coming <= 2
  /\ pc = "handshake" => left \in 1..2 /\ Coming = left
  /\ pc \notin {"handshake", "exit", "closed"} => errc = <<>> /\ running = {}

\* The goroutines of the handshake have a number.
LEMMA RunningFinite ==
  ASSUME TypeOK
  PROVE  IsFiniteSet(running) /\ Cardinality(running) \in Nat /\ Len(errc) \in Nat
<1>1. IsFiniteSet({"send", "read"})
  <2>1. {"send", "read"} = ({} \cup {"send"}) \cup {"read"}
    BY Zenon
  <2>2. IsFiniteSet({} \cup {"send"})
    BY FS_EmptySet, FS_AddElement, Zenon
  <2> QED
    BY <2>1, <2>2, FS_AddElement
<1>2. running \subseteq {"send", "read"} /\ errc \in Seq(BOOLEAN)
  BY Zenon DEF TypeOK
<1>3. IsFiniteSet(running)
  BY <1>1, <1>2, FS_Subset, Zenon
<1>4. Len(errc) \in Nat
  BY <1>2
<1> QED
  BY <1>3, <1>4, FS_CardinalityType, Zenon

\* Two goroutines write to errc in each exchange.
LEMMA TwoSenders == Cardinality({"send", "read"}) = 2
<1>1. IsFiniteSet({}) /\ Cardinality({}) = 0
  BY FS_EmptySet, Zenon
<1>2. IsFiniteSet({} \cup {"send"}) /\ Cardinality({} \cup {"send"}) = 1
  BY <1>1, FS_AddElement
<1>3. Cardinality(({} \cup {"send"}) \cup {"read"}) = 2
  BY <1>2, FS_AddElement
<1>4. ({} \cup {"send"}) \cup {"read"} = {"send", "read"}
  BY Zenon
<1> QED
  BY <1>3, <1>4, Zenon

\* A result goes from a goroutine to errc.
LEMMA ResultKeepsQuiet ==
  ASSUME TypeOK, QuietInv, NEW g \in {"send", "read"}, HandshakeResult(g)
  PROVE  QuietInv'
<1>1. UNCHANGED <<pc, left>> /\ g \in running /\ running' = running \ {g}
      /\ \E ok \in BOOLEAN : errc' = Append(errc, ok)
  BY Zenon DEF HandshakeResult
<1>2. Len(errc') = Len(errc) + 1
  <2>1. PICK ok \in BOOLEAN : errc' = Append(errc, ok)
    BY <1>1, Zenon
  <2>2. errc \in Seq(BOOLEAN)
    BY Zenon DEF TypeOK
  <2> QED
    BY <2>1, <2>2
<1>3. Cardinality(running \ {g}) = Cardinality(running) - 1
  BY <1>1, RunningFinite, FS_RemoveElement, Zenon
<1>4. Coming' = Coming
  BY <1>1, <1>2, <1>3, RunningFinite DEF Coming
<1>5. running # {}
  BY <1>1, Zenon
<1> QED
  BY <1>1, <1>4, <1>5, Zenon DEF QuietInv

\* Handshake receives a result.
LEMMA ReceiveKeepsQuiet ==
  ASSUME TypeOK, QuietInv, HandshakeReceive
  PROVE  QuietInv'
<1>1. /\ pc = "handshake" /\ errc # <<>> /\ errc' = Tail(errc) /\ errc \in Seq(BOOLEAN)
      /\ left \in 1..2 /\ Coming = left
  BY Zenon DEF HandshakeReceive, TypeOK, QuietInv
<1>2. Len(errc') = Len(errc) - 1 /\ Len(errc) >= 1
  BY <1>1
<1>3. /\ Cardinality(running) \in Nat /\ Len(errc) \in Nat /\ IsFiniteSet(running)
      /\ Len(errc) + Cardinality(running) = left
  BY <1>1, RunningFinite, Zenon DEF Coming
<1>4. left = 1 => errc' = <<>> /\ running = {}
  <2>1. left = 1 => Len(errc') = 0 /\ Cardinality(running) = 0
    BY <1>1, <1>2, <1>3
  <2>2. Cardinality(running) = 0 => running = {}
    BY <1>3, FS_EmptySet, Zenon
  <2>3. errc' \in Seq(BOOLEAN)
    BY <1>1
  <2>4. Len(errc') = 0 => errc' = <<>>
    BY <2>3
  <2> QED
    BY <2>1, <2>2, <2>4, Zenon
<1>5. \/ pc' = "exit" /\ running' = running
      \/ pc' = pc /\ left = 2 /\ left' = 1 /\ running' = running
      \/ pc' \in {"exit", "setup"} /\ left = 1 /\ running' = running
      \/ pc' = pc /\ left = 1 /\ left' = 2 /\ running' = running \cup {"send", "read"}
  BY Zenon DEF HandshakeReceive
<1>6. CASE pc' = "exit" /\ running' = running
  <2>1. Coming' <= 2
    BY <1>1, <1>2, <1>3, <1>6 DEF Coming
  <2> QED
    BY <1>6, <2>1, Zenon DEF QuietInv
<1>7. CASE pc' = pc /\ left = 2 /\ left' = 1 /\ running' = running
  <2>1. Coming' = 1
    BY <1>2, <1>3, <1>7 DEF Coming
  <2> QED
    BY <1>1, <1>7, <2>1 DEF QuietInv
<1>8. CASE pc' \in {"exit", "setup"} /\ left = 1 /\ running' = running
  <2>1. errc' = <<>> /\ running' = {}
    BY <1>4, <1>8, Zenon
  <2>2. Coming' = 0
    BY <2>1, FS_EmptySet DEF Coming
  <2> QED
    BY <1>8, <2>1, <2>2 DEF QuietInv
<1>9. CASE pc' = pc /\ left = 1 /\ left' = 2 /\ running' = running \cup {"send", "read"}
  <2>1. errc' = <<>> /\ running' = {"send", "read"}
    BY <1>4, <1>9, Zenon
  <2>2. Coming' = 2
    BY <2>1, TwoSenders DEF Coming
  <2> QED
    BY <1>1, <1>9, <2>2 DEF QuietInv
<1> QED
  BY <1>5, <1>6, <1>7, <1>8, <1>9, Zenon

\* Every other step leaves errc and its writers alone, and none goes back to
\* the handshake or past a handshake that is not over.
LEMMA NextQuiet == TypeOK /\ QuietInv /\ [Next]_vars => QuietInv'
<1> SUFFICES ASSUME TypeOK, QuietInv, [Next]_vars PROVE QuietInv'
  BY Zenon
<1>1. CASE UNCHANGED <<running, errc, left>> /\ (pc' = pc \/ (pc' # "handshake"
             /\ (pc' \in {"exit", "closed"} \/ pc \notin {"handshake", "exit", "closed"})))
  <2>1. Coming' = Coming
    BY <1>1, Zenon DEF Coming
  <2> QED
    BY <1>1, <2>1, Zenon DEF QuietInv
<1>2. CASE UNCHANGED vars
  BY <1>1, <1>2, Zenon DEF vars, hsVars
<1>3. CASE Handshaking
  BY <1>1, <1>3, ResultKeepsQuiet, ReceiveKeepsQuiet, Zenon DEF Handshaking,
     HandshakeTimeout, hsVars
<1>4. CASE Moving \/ Deliver \/ Done
  <2>1. UNCHANGED <<running, errc, left>>
    BY <1>4, LaterFrame, Zenon
  <2>2. pc' # "handshake" /\ pc \notin {"handshake", "exit", "closed"}
    BY <1>4, Zenon DEF Moving, SetupDone, DispatchResponse, CheckCancel, Discard, ReadError,
       Deliver, Done
  <2> QED
    BY <1>1, <2>1, <2>2, Zenon
<1>5. CASE Read
  <2>1. UNCHANGED <<running, errc, left>>
    BY <1>5, LaterFrame, Zenon
  <2>2. pc' = pc \/ (pc = "read" /\ pc' = "offer")
    BY <1>5, Zenon DEF Read, ReadResponse, RequestBlocks, ReadBlockAnswer, Reading
  <2> QED
    BY <1>1, <2>1, <2>2, Zenon
<1>6. CASE Ending
  <2>1. UNCHANGED <<running, errc, left>>
    BY <1>6, LaterFrame, Zenon
  <2>2. pc' = pc \/ pc' = "closed"
    BY <1>6, Zenon DEF Ending, DispatcherExit, ClosePeer, Disconnect
  <2> QED
    BY <1>1, <2>1, <2>2, Zenon
<1>7. ASSUME NEW r \in Req, Requesting(r) PROVE QuietInv'
  <2>1. UNCHANGED <<running, errc, left>>
    BY <1>7, LaterFrame, Zenon
  <2>2. pc' = pc \/ pc' = "exit"
    BY <1>7, Zenon DEF Requesting, SetupRequest, Request, Requester, Timeout, Abort, Dead,
       Close,
       CloseCancel
  <2> QED
    BY <1>1, <2>1, <2>2, Zenon
<1> QED
  BY <1>2, <1>3, <1>4, <1>5, <1>6, <1>7, NextGroups, Zenon

\* errc never blocks a goroutine of the handshake, and none is left when the
\* session reads messages.
THEOREM Quiet == Spec => []HandshakeQuiet
<1>1. Init => QuietInv
  <2> SUFFICES ASSUME Init PROVE QuietInv
    BY Zenon
  <2>1. Coming = 2 /\ left = 2 /\ pc = "handshake"
    BY TwoSenders DEF Init, Coming
  <2> QED
    BY <2>1 DEF QuietInv
<1>2. QuietInv => HandshakeQuiet
  BY Zenon DEF QuietInv, Coming, HandshakeQuiet
<1> QED
  BY <1>1, <1>2, NextQuiet, TypeCorrect, PTL DEF Spec

-----------------------------------------------------------------------------
(* The session implements Retrieval.                                       *)

\* A step that leaves the requests made and answered as they are, and opens
\* none, withdraws those that are no longer open.
LEMMA Withdraws ==
  ASSUME UNCHANGED got, \A r \in Req : st'[r] = "new" <=> st[r] = "new",
         (pending \cup Held)' \subseteq pending \cup Held
  PROVE  Promise!Next
<1> DEFINE S == (pending \cup Held) \ (pending \cup Held)'
<1>1. (pending \cup Held)' = (pending \cup Held) \ S
  BY Zenon
<1>2. {r \in Req : st[r] # "new"}' = {r \in Req : st[r] # "new"}
  BY Zenon
<1>3. S \in SUBSET (pending \cup Held)
  BY Zenon
<1> HIDE DEF S
<1>4. Promise!Withdraw(S)
  BY <1>1, <1>2, Zenon DEF Promise!Withdraw
<1> QED
  BY <1>3, <1>4, Zenon DEF Promise!Next

\* Dispatching makes a request that was not made before.
LEMMA Issues ==
  ASSUME SessionInv, NEW r \in Req, SetupRequest(r) \/ Request(r)
  PROVE  Promise!Issue(r)
<1>1. /\ got' = got /\ cur' = cur /\ st[r] = "new" /\ st \in [Req -> ReqStates]
      /\ \E s \in {"await", "done"} : st' = [st EXCEPT ![r] = s]
      /\ pending' \in {pending, pending \cup {r}}
  BY Zenon DEF SetupRequest, Request, Dispatched, SessionInv, TypeOK
<1>2. pc' = pc \/ (pc = "setup" /\ pc' = "exit")
  BY Zenon DEF SetupRequest, Request
<1>3. Held' = Held
  BY <1>1, <1>2, Zenon DEF Held
<1>4. r \notin {x \in Req : st[x] # "new"}
  BY <1>1, Zenon
<1>5. {x \in Req : st[x] # "new"}' = {x \in Req : st[x] # "new"} \cup {r}
  BY <1>1, Zenon
<1>6. (pending \cup Held)' \in {pending \cup Held, (pending \cup Held) \cup {r}}
  BY <1>1, <1>3, Zenon
<1> QED
  BY <1>1, <1>4, <1>5, <1>6, Zenon DEF Promise!Issue

\* The reader hands over the response of the request it holds.
LEMMA Answers ==
  ASSUME SessionInv, Deliver
  PROVE  cur.id \in Req /\ Promise!Answer(cur.id)
<1>1. /\ pc = "deliver" /\ pc' = "reply" /\ st[cur.id] \in {"await", "stale"}
      /\ st' = [st EXCEPT ![cur.id] = "serve"] /\ got' = got \cup {cur.id}
      /\ UNCHANGED <<cur, pending>> /\ st \in [Req -> ReqStates]
  BY Zenon DEF Deliver, SessionInv, TypeOK
<1>2. cur.id \in Req /\ cur.id \notin pending
  BY <1>1, Zenon DEF SessionInv, HeldOnce
<1>3. Held = {cur.id} /\ Held' = {}
  BY <1>1, Zenon DEF Held
<1>4. (pending \cup Held)' = (pending \cup Held) \ {cur.id}
  BY <1>1, <1>2, <1>3, Zenon
<1>5. {r \in Req : st[r] # "new"}' = {r \in Req : st[r] # "new"}
  BY <1>1, <1>2, Zenon
<1>6. cur.id \in pending \cup Held
  BY <1>3, Zenon
<1> QED
  BY <1>1, <1>2, <1>4, <1>5, <1>6, Zenon DEF Promise!Answer

\* Every step of the session is a step of Retrieval.
LEMMA NextPromise == SessionInv /\ [Next]_vars => [Promise!Next]_(Promise!vars)
<1> SUFFICES ASSUME SessionInv, [Next]_vars PROVE Promise!Next \/ UNCHANGED Promise!vars
  BY Zenon
<1>0. st \in [Req -> ReqStates]
  BY Zenon DEF SessionInv, TypeOK
<1>1. CASE UNCHANGED vars
  <2>1. UNCHANGED <<pending, st, got, pc, cur>>
    BY <1>1, Zenon DEF vars, reqVars
  <2>2. Held' = Held
    BY <2>1, Zenon DEF Held
  <2> QED
    BY <2>1, <2>2, Zenon DEF Promise!vars
<1>2. CASE Handshaking
  <2>1. UNCHANGED <<cur, st, pending, got>>
    BY <1>2, HandshakeFrame, Zenon
  <2>2. pc' \in {pc, "exit", "setup"}
    BY <1>2, Zenon DEF Handshaking, HandshakeReceive, HandshakeTimeout, HandshakeResult
  <2>3. Held' \subseteq Held
    BY <2>1, <2>2, Zenon DEF Held
  <2> QED
    BY <2>1, <2>3, Withdraws, Zenon
<1>3. CASE Moving
  <2>1. UNCHANGED <<cur, st, got>>
    BY <1>3, Zenon DEF Moving, SetupDone, DispatchResponse, CheckCancel, Discard, ReadError,
       reqVars
  <2>2. \/ pc' \in {"read", "exit"} /\ pending' = pending
        \/ pc = "accepted" /\ pc' \in {"read", "deliver"} /\ pending' = pending
        \/ pc' = "accepted" /\ cur.id \in pending /\ pending' = pending \ {cur.id}
    BY <1>3, Zenon DEF Moving, SetupDone, DispatchResponse, CheckCancel, Discard, ReadError,
       reqVars
  <2>3. (pending \cup Held)' \subseteq pending \cup Held
    BY <2>1, <2>2, Zenon DEF Held
  <2> QED
    BY <2>1, <2>3, Withdraws, Zenon
<1>4. CASE Deliver
  BY <1>4, Answers, Zenon DEF Promise!Next
<1>5. CASE Done
  <2>1. /\ UNCHANGED <<cur, pending, got>> /\ pc' \in {"read", "exit"} /\ st[cur.id] = "serve"
        /\ \E s \in {"done", "close"} : st' = [st EXCEPT ![cur.id] = s]
    BY <1>5, Zenon DEF Done
  <2>2. \A r \in Req : st'[r] = "new" <=> st[r] = "new"
    BY <1>0, <2>1, Zenon
  <2>3. Held' = {}
    BY <2>1, Zenon DEF Held
  <2> QED
    BY <2>1, <2>2, <2>3, Withdraws, Zenon
<1>6. CASE Read
  <2>1. UNCHANGED <<st, pending, got>> /\ pc' \in {"read", "offer"}
    BY <1>6, Zenon DEF Read, ReadResponse, RequestBlocks, ReadBlockAnswer, Reading, reqVars
  <2>2. Held' = {}
    BY <2>1, Zenon DEF Held
  <2> QED
    BY <2>1, <2>2, Withdraws, Zenon
<1>7. CASE Ending
  <2>1. UNCHANGED <<cur, st, got>> /\ pending' \subseteq pending /\ pc' \in {pc, "closed"}
    BY <1>7, Zenon DEF Ending, DispatcherExit, ClosePeer, Disconnect, reqVars
  <2>2. Held' \subseteq Held
    BY <2>1, Zenon DEF Held
  <2> QED
    BY <2>1, <2>2, Withdraws, Zenon
<1>8. ASSUME NEW r \in Req, SetupRequest(r) \/ Request(r) PROVE Promise!Next
  BY <1>8, Issues, Zenon DEF Promise!Next
<1>9. ASSUME NEW r \in Req, Requester(r) PROVE Promise!Next
  <2>1. UNCHANGED <<cur, got, pc>> /\ pending' \subseteq pending
    BY <1>9, Zenon DEF Requester, Timeout, Abort, Dead, Close, CloseCancel
  <2>2. st[r] # "new" /\ \E s \in ReqStates \ {"new"} : st' = [st EXCEPT ![r] = s]
    BY <1>9, Zenon DEF Requester, Timeout, Abort, Dead, Close, CloseCancel, ReqStates
  <2>3. \A x \in Req : st'[x] = "new" <=> st[x] = "new"
    BY <1>0, <2>2, Zenon
  <2>4. Held' = Held
    BY <2>1, Zenon DEF Held
  <2> QED
    BY <2>1, <2>3, <2>4, Withdraws, Zenon
<1> QED
  BY <1>1, <1>2, <1>3, <1>4, <1>5, <1>6, <1>7, <1>8, <1>9, NextGroups, Zenon DEF Requesting

\* Dispatcher and reader keep the promise of Retrieval: at most one response per
\* request, none unasked for and none after the request was closed.
THEOREM Implements == Spec => ImplementsRetrieval
<1>1. Init => Promise!Init
  BY Zenon DEF Init, Promise!Init, Held
<1> QED
  BY <1>1, NextPromise, SessionInvariant, PTL DEF Spec, ImplementsRetrieval, Promise!Spec

===============================================================================
