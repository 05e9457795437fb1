---------------------------- MODULE DialScheduler ----------------------------
(***************************************************************************)
(* The dial scheduler of the p2p server, p2p/dial.go, with the two entry   *)
(* points this repository adds in p2p/server.go: StartDialEnode, called by *)
(* ManagerLoop from a goroutine of its own, and DialingCount.              *)
(*                                                                         *)
(* Every function locks what it reads of dialing, peers and history, so a  *)
(* critical section is one step; checkDial and startDial are two.  Locks   *)
(* are held across steps in two places: historyRDLock by expireHistory     *)
(* when its callback calls checkDial, and dialingRDLock while loop drains  *)
(* doneCh at the end.                                                      *)
(***************************************************************************)
EXTENDS Integers, Sequences, FiniteSets

CONSTANTS
  ID,             \* nodes
  Undialable,     \* nodes checkDial always refuses: self, no port, net restriction
  MaxDialPeers,   \* maxDialPeers, 0 if the server has NoDial
  MaxActiveDials, \* maxActiveDials
  MaxTask         \* bound: tasks of a node still running when one of its history
                  \* entries expires (a slow handshake outlasts the entry)

ASSUME DialAssumption ==
  /\ IsFiniteSet(ID) /\ ID # {} /\ Undialable \subseteq ID
  /\ MaxDialPeers \in Nat /\ MaxActiveDials \in Nat /\ MaxTask \in Nat

VARIABLES
  lpc,        \* where loop is
  slots,      \* its local variable; at the select 1 or 0, for nodesCh set or nil
  node,       \* the node of the case it handles, {} when there is none
  checked,    \* the node StartDialEnode has checked and not dialed yet, or {}
  dialing,    \* d.dialing
  task,       \* running tasks of each node
  peers,      \* d.peers, with the way each was connected
  dialPeers,  \* d.dialPeers
  static,     \* d.static
  staticPool, \* d.staticPool, by node
  index,      \* staticPoolIndex of the task in d.static, -1 outside the pool
  history,    \* entries of each node in d.history
  timer,      \* d.historyTimer is set
  left,       \* doneCh messages the final loop still expects
  cancelled   \* d.ctx is done

loopVars == <<lpc, slots, node, left>>
poolVars == <<static, staticPool, index>>
peerVars == <<peers, dialPeers>>
vars == <<loopVars, checked, dialing, task, peerVars, poolVars, history, timer, cancelled>>

LoopStates == {"top", "static", "select", "dynamic", "update", "stuck", "drain", "end"}

TypeOK ==
  /\ lpc \in LoopStates /\ slots \in Int /\ node \subseteq ID
  /\ checked \subseteq ID
  /\ dialing \subseteq ID
  /\ task \in [ID -> Nat]
  /\ peers \in [ID -> {"none", "dialed", "inbound"}]
  /\ dialPeers \in Int
  /\ static \subseteq ID
  /\ staticPool \in Seq(ID)
  /\ index \in [ID -> Int]
  /\ history \in [ID -> Nat]
  /\ timer \in BOOLEAN
  /\ left \in Nat
  /\ cancelled \in BOOLEAN

Init ==
  /\ lpc = "top" /\ slots = 0 /\ node = {}
  /\ checked = {}
  /\ dialing = {} /\ task = [n \in ID |-> 0]
  /\ peers = [n \in ID |-> "none"] /\ dialPeers = 0
  /\ static = {} /\ staticPool = <<>> /\ index = [n \in ID |-> -1]
  /\ history = [n \in ID |-> 0] /\ timer = FALSE
  /\ left = 0 /\ cancelled = FALSE

-----------------------------------------------------------------------------
\* No goroutine rests with dialingRDLock or historyRDLock held.  A loop stuck in
\* checkDial under expireHistory holds both, and peersRDLock.
LocksFree == lpc \notin {"stuck", "drain"}

\* Mutant: the history is not consulted.
CheckDial_NoHistory(n) ==
  n \notin Undialable /\ n \notin dialing /\ peers[n] = "none"

\* checkDial(n) == nil, without its locks.
CheckDial(n) ==
  /\ n \notin Undialable /\ n \notin dialing
  /\ peers[n] = "none" /\ history[n] = 0

\* startDial, without its locks.
StartDial(n) ==
  /\ history' = [history EXCEPT ![n] = @ + 1]
  /\ dialing' = dialing \cup {n}
  /\ task' = [task EXCEPT ![n] = @ + 1]

\* addToStaticPool, as the change of <<staticPool, index>>.
AddToPool(n) ==
  /\ staticPool' = Append(staticPool, n)
  /\ index' = [index EXCEPT ![n] = Len(staticPool)]

\* Mutant: the removed task's index is reset before the moved one's is set.
RemoveFromPool_OutFirst(idx) ==
  LET end == Len(staticPool)
      out == staticPool[idx + 1]
      mover == staticPool[end]
  IN /\ staticPool' = SubSeq([staticPool EXCEPT ![idx + 1] = mover], 1, end - 1)
     /\ index' = [[index EXCEPT ![out] = -1] EXCEPT ![mover] = idx]

\* removeFromStaticPool(idx): the last task takes the place of the removed one.
RemoveFromPool(idx) ==
  LET end == Len(staticPool)
      out == staticPool[idx + 1]
      mover == staticPool[end]
  IN /\ staticPool' = SubSeq([staticPool EXCEPT ![idx + 1] = mover], 1, end - 1)
     /\ index' = [[index EXCEPT ![mover] = idx] EXCEPT ![out] = -1]

\* The next iteration of loop; its locals are dead.
ToTop == lpc' = "top" /\ slots' = 0 /\ node' = {}

-----------------------------------------------------------------------------
\* freeDialSlots at the top of an iteration.
FreeDialSlots ==
  LET twice == (MaxDialPeers - dialPeers) * 2
      limit == IF twice > MaxActiveDials THEN MaxActiveDials ELSE twice
  IN /\ lpc = "top"
     /\ slots' = limit - Cardinality(dialing)
     /\ lpc' = "static"
     /\ UNCHANGED <<node, left, checked, dialing, task, peerVars, poolVars, history, timer, cancelled>>

\* One round of startStaticDials: a random task of the pool.
StartStaticDial ==
  /\ lpc = "static" /\ slots > 0
  /\ \E i \in DOMAIN staticPool :
       StartDial(staticPool[i]) /\ RemoveFromPool(i - 1)
  /\ slots' = slots - 1
  /\ UNCHANGED <<lpc, node, left, checked, peerVars, static, timer, cancelled>>

\* Mutant: the timer is armed only while a dial is running.
RearmHistoryTimer_Dialing ==
  /\ lpc = "static" /\ (slots <= 0 \/ staticPool = <<>>)
  /\ timer' = (timer \/ dialing # {})
  /\ lpc' = "select" /\ slots' = IF slots > 0 THEN 1 ELSE 0
  /\ UNCHANGED <<node, left, checked, dialing, task, peerVars, poolVars, history, cancelled>>

\* startStaticDials returns; rearmHistoryTimer; select.
RearmHistoryTimer ==
  /\ lpc = "static" /\ (slots <= 0 \/ staticPool = <<>>)
  /\ timer' = (timer \/ \E n \in ID : history[n] > 0)
  /\ lpc' = "select" /\ slots' = IF slots > 0 THEN 1 ELSE 0
  /\ UNCHANGED <<node, left, checked, dialing, task, peerVars, poolVars, history, cancelled>>

\* A node of the iterator; nodesCh is nil without a slot.
NodeIn(n) ==
  /\ lpc = "select" /\ slots > 0
  /\ IF CheckDial(n) THEN lpc' = "dynamic" /\ slots' = 0 /\ node' = {n} ELSE ToTop
  /\ UNCHANGED <<left, checked, dialing, task, peerVars, poolVars, history, timer, cancelled>>

\* The startDial after the check: ManagerLoop may have run in between.
StartDynamicDial ==
  /\ lpc = "dynamic"
  /\ \E n \in node : StartDial(n)
  /\ ToTop
  /\ UNCHANGED <<left, checked, peerVars, poolVars, timer, cancelled>>

\* Mutant: the entry of a static node is kept.
TaskDone_Static(n) ==
  /\ lpc = "select" /\ task[n] > 0
  /\ task' = [task EXCEPT ![n] = @ - 1]
  /\ dialing' = dialing \ ({n} \ static)
  /\ lpc' = "update" /\ slots' = 0 /\ node' = {n}
  /\ UNCHANGED <<left, checked, peerVars, poolVars, history, timer, cancelled>>

\* task := <-doneCh.
TaskDone(n) ==
  /\ lpc = "select" /\ task[n] > 0
  /\ task' = [task EXCEPT ![n] = @ - 1]
  /\ dialing' = dialing \ {n}
  /\ lpc' = "update" /\ slots' = 0 /\ node' = {n}
  /\ UNCHANGED <<left, checked, peerVars, poolVars, history, timer, cancelled>>

\* c := <-addPeerCh.  A dialed connection is set up by a running task.
PeerAdded(n, how) ==
  /\ lpc = "select" /\ peers[n] = "none"
  /\ how = "dialed" => task[n] > 0
  /\ peers' = [peers EXCEPT ![n] = how]
  /\ dialPeers' = IF how = "dialed" THEN dialPeers + 1 ELSE dialPeers
  /\ IF n \in static /\ index[n] >= 0
     THEN RemoveFromPool(index[n]) ELSE UNCHANGED <<staticPool, index>>
  /\ ToTop
  /\ UNCHANGED <<left, checked, dialing, task, static, history, timer, cancelled>>

\* c := <-remPeerCh.
PeerRemoved(n) ==
  /\ lpc = "select" /\ peers[n] # "none"
  /\ peers' = [peers EXCEPT ![n] = "none"]
  /\ dialPeers' = IF peers[n] = "dialed" THEN dialPeers - 1 ELSE dialPeers
  /\ lpc' = "update" /\ slots' = 0 /\ node' = {n}
  /\ UNCHANGED <<left, checked, dialing, task, poolVars, history, timer, cancelled>>

\* node := <-addStaticCh.
AddStatic(n) ==
  /\ lpc = "select"
  /\ static' = static \cup {n}
  /\ IF n \notin static /\ CheckDial(n)
     THEN AddToPool(n) ELSE UNCHANGED <<staticPool, index>>
  /\ ToTop
  /\ UNCHANGED <<left, checked, dialing, task, peerVars, history, timer, cancelled>>

\* node := <-remStaticCh.
RemoveStatic(n) ==
  /\ lpc = "select"
  /\ static' = static \ {n}
  /\ IF n \in static /\ index[n] >= 0
     THEN RemoveFromPool(index[n]) ELSE UNCHANGED <<staticPool, index>>
  /\ ToTop
  /\ UNCHANGED <<left, checked, dialing, task, peerVars, history, timer, cancelled>>

\* updateStaticPool after a task is done or a peer has gone.
UpdateStaticPool ==
  /\ lpc = "update"
  /\ \E n \in node :
       IF n \in static /\ index[n] < 0 /\ CheckDial(n)
       THEN AddToPool(n) ELSE UNCHANGED <<staticPool, index>>
  /\ ToTop
  /\ UNCHANGED <<left, checked, dialing, task, peerVars, static, history, timer, cancelled>>

\* The callback of expireHistory reaches checkDial for n, which locks
\* historyRDLock again.
Relocks(n) == n \in static /\ index[n] < 0

\* <-historyExp: expireHistory drops the entries that have run out, calling
\* updateStaticPool for each with historyRDLock held.
ExpireHistory ==
  /\ lpc = "select" /\ timer
  /\ timer' = FALSE
  /\ \E out \in SUBSET {n \in ID : history[n] > 0 /\ task[n] <= MaxTask} :
       /\ out # {}
       /\ history' = [n \in ID |-> IF n \in out THEN history[n] - 1 ELSE history[n]]
       /\ lpc' = IF \E n \in out : Relocks(n) THEN "stuck" ELSE "top"
  /\ slots' = 0
  /\ UNCHANGED <<node, left, checked, dialing, task, peerVars, poolVars, cancelled>>

\* Mutant: the final loop ranges over d.static.
LoopCancelled_Static ==
  /\ lpc = "select" /\ cancelled
  /\ lpc' = "drain" /\ left' = Cardinality(static)
  /\ timer' = FALSE /\ slots' = 0
  /\ UNCHANGED <<node, checked, dialing, task, peerVars, poolVars, history, cancelled>>

\* <-ctx.Done(), stopHistoryTimer, and dialingRDLock for the final loop, which
\* receives once for every entry of d.dialing.
LoopCancelled ==
  /\ lpc = "select" /\ cancelled
  /\ lpc' = "drain" /\ left' = Cardinality(dialing)
  /\ timer' = FALSE /\ slots' = 0
  /\ UNCHANGED <<node, checked, dialing, task, peerVars, poolVars, history, cancelled>>

Drain(n) ==
  /\ lpc = "drain" /\ left > 0 /\ task[n] > 0
  /\ left' = left - 1
  /\ task' = [task EXCEPT ![n] = @ - 1]
  /\ UNCHANGED <<lpc, slots, node, checked, dialing, peerVars, poolVars, history, timer, cancelled>>

LoopEnds ==
  /\ lpc = "drain" /\ left = 0
  /\ lpc' = "end"
  /\ UNCHANGED <<slots, node, left, checked, dialing, task, peerVars, poolVars, history, timer, cancelled>>

\* The scheduler's stop.
Stop ==
  /\ ~cancelled /\ cancelled' = TRUE
  /\ UNCHANGED <<loopVars, checked, dialing, task, peerVars, poolVars, history, timer>>

\* StartDialEnode(n), called by ManagerLoop: the check ...
StartDialEnode(n) ==
  /\ checked = {} /\ LocksFree
  /\ CheckDial(n)
  /\ checked' = {n}
  /\ UNCHANGED <<loopVars, dialing, task, peerVars, poolVars, history, timer, cancelled>>

\* ... and the dial.
StartChecked ==
  /\ LocksFree
  /\ \E n \in checked : StartDial(n)
  /\ checked' = {}
  /\ UNCHANGED <<loopVars, peerVars, poolVars, timer, cancelled>>

\* The steps of loop that wait for nobody.
LoopStep ==
  \/ FreeDialSlots \/ StartStaticDial \/ RearmHistoryTimer
  \/ StartDynamicDial \/ UpdateStaticPool \/ LoopEnds

Next ==
  \/ LoopStep \/ ExpireHistory \/ LoopCancelled \/ Stop \/ StartChecked
  \/ \E n \in ID :
       \/ NodeIn(n) \/ TaskDone(n) \/ Drain(n)
       \/ \E how \in {"dialed", "inbound"} : PeerAdded(n, how)
       \/ PeerRemoved(n) \/ AddStatic(n) \/ RemoveStatic(n)
       \/ StartDialEnode(n)

Spec == Init /\ [][Next]_vars

\* loop runs, every task ends, every entry runs out of time, and a select takes
\* every case that is ready again and again.
FairSpec ==
  /\ Spec
  /\ WF_vars(LoopStep) /\ SF_vars(LoopCancelled)
  /\ \A n \in ID : /\ SF_vars(TaskDone(n)) /\ WF_vars(Drain(n))
                  /\ SF_vars(ExpireHistory /\ history'[n] < history[n])

-----------------------------------------------------------------------------
(* Properties *)

\* The swaps of removeFromStaticPool and the early re-adds of updateStaticPool keep
\* every staticPoolIndex right: a pooled task is static, sits where its index
\* says, once, and its node is not connected.  A wrong index removes another
\* node's task, or panics.
PoolIndexed ==
  /\ \A i \in DOMAIN staticPool :
       /\ index[staticPool[i]] = i - 1
       /\ staticPool[i] \in static
       /\ peers[staticPool[i]] = "none"
  /\ \A n \in ID : index[n] >= 0 =>
       index[n] < Len(staticPool) /\ staticPool[index[n] + 1] = n

\* While loop runs, every entry of d.dialing belongs to a running task, even when
\* startDial of ManagerLoop and of loop have overwritten one another's entry.
\* An entry without a task would count in DialingCount for ever, and the final
\* loop would wait for a task that never reports.
EntryHasTask ==
  lpc \notin {"drain", "end"} => \A n \in dialing : task[n] > 0

\* "Members of history are not dialed" (the comment on d.history) holds up to one
\* dial: ManagerLoop's check goes stale while loop dials the node, or loop's check,
\* or the node's place in the static pool, while ManagerLoop dials it; but no two
\* of these meet before the node's history is empty again.
HistoryBounded == \A n \in ID : history[n] <= 2

\* "The dialer attempts [to] keep these nodes connected at all times" (the comment
\* on dialScheduler): a static node that is not connected is dialed again, is
\* connected, or is removed from the static nodes, until the scheduler stops.
StaticRedialed ==
  \A n \in ID \ Undialable :
    (n \in static /\ peers[n] = "none") ~>
      (task[n] > 0 \/ peers[n] # "none" \/ n \notin static \/ cancelled)

\* A node that ManagerLoop or loop dialed becomes dialable again: its entries
\* leave history, although StartDialEnode adds them without waking loop, which
\* alone arms the timer.  Only the end of loop, or its self-deadlock in
\* expireHistory, leaves an entry for ever.
HistoryExpires ==
  \A n \in ID : history[n] > 0 ~> (history[n] = 0 \/ cancelled \/ lpc = "stuck")

\* stop returns: after the cancel loop receives from as many tasks as it waits for
\* and ends, unless it is stuck in expireHistory.
StopReturns == cancelled ~> lpc \in {"end", "stuck"}
==============================================================================
