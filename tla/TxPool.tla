------------------------------- MODULE TxPool -------------------------------
(***************************************************************************)
(* The transaction pool and its goroutines: callers of AddLocal and        *)
(* AddRemotes, the event loop, scheduleReorgLoop, runReorg, the journal on *)
(* disk, and a process that may die and start again.                       *)
(*                                                                         *)
(* What runs under pool.mu is one step.  A head is the set of transactions *)
(* its chain includes and the accounts that are poor in its state.         *)
(***************************************************************************)
EXTENDS PoolOps

CONSTANTS
  Heads,       \* the heads the chain may have; Genesis is one of them
  Genesis,
  Offers,      \* the transactions each caller may submit
  GasPrices,   \* arguments of SetGasPrice
  MaxAdd,      \* bound: calls of AddLocal and AddRemotes
  MaxEvent     \* bound: heads, ticks, price changes, stops and restarts

Caller == {"local", "remote"}   \* an RPC call of AddLocal, a peer's AddRemotes

VARIABLES
  pool,        \* the structures under pool.mu
  chain,       \* the head of the chain
  headCh,      \* chainHeadCh
  head,        \* the loop's head: the last one it asked a reset for
  caller,      \* where each caller is in addTxs, and its dirty accounts
  next,        \* what scheduleReorgLoop gathers for the next run
  job,         \* the runReorg that is active, if any
  loop,        \* the two loops: "up", "stopping" (reorgShutdownCh closed), "down"
  disk,        \* the journal file
  writer,      \* journal.writer is open
  told,        \* pending transactions that a NewTxsEvent has named
  muted,       \* pending transactions whose event a failed reset discarded
  stranded,    \* executable ones that a run with a reset left in the queue
  count        \* adds, bounded events and restarts so far

vars == <<pool, chain, headCh, head, caller, next, job, loop, disk, writer,
          told, muted, stranded, count>>
sched == <<next, job, loop>>
ghosts == <<told, muted, stranded>>

None == [is |-> FALSE]
NoNext == [launch |-> FALSE, reset |-> None, dirty |-> {}, events |-> {}]
NoJob == [pc |-> "none", reset |-> None, dirty |-> {}, events |-> {}]
Idle == [pc |-> "idle", dirty |-> {}]

StateNonce(h) == [a \in Acct |-> Cardinality(At(h.mined, a))]

ASSUME HeadAssumption ==
  /\ Genesis \in Heads
  /\ \A h \in Heads :
       /\ h.mined \subseteq Tx /\ h.poor \subseteq Acct
       /\ \A a \in Acct : Nonces(At(h.mined, a)) = 0..(StateNonce(h)[a] - 1)

Executable(p) == {t \in p.queue : Nonce[t] = p.nonces[From[t]]}

Init ==
  /\ pool = NewPool(StateNonce(Genesis), Genesis.poor)
  /\ chain = Genesis /\ headCh = <<>> /\ head = Genesis
  /\ caller = [c \in Caller |-> Idle]
  /\ next = NoNext /\ job = NoJob /\ loop = "up"
  /\ disk = <<>> /\ writer = TRUE
  /\ told = {} /\ muted = {} /\ stranded = {}
  /\ count = [add |-> 0, event |-> 0, restart |-> 0]

\* The pool becomes p, and the history follows.
SetPool(p) ==
  /\ pool' = p
  /\ told' = told \cap p.pending
  /\ muted' = muted \cap p.pending
  /\ stranded' = stranded \cap Executable(p)

\* One of the events whose number MaxEvent bounds.
Event == count.event < MaxEvent /\ count' = [count EXCEPT !.event = @ + 1]

-----------------------------------------------------------------------------
(* scheduleReorgLoop.                                                      *)

\* Mutant: the queued events do not reach the run.
Launch_NoEvents(n, free, c) ==
  IF n.launch /\ free
    THEN /\ next' = NoNext
         /\ job' = [pc |-> "run", reset |-> n.reset, dirty |-> n.dirty, events |-> {}]
         /\ caller' = [k \in Caller |-> IF c[k].pc = "next" THEN [c[k] EXCEPT !.pc = "cur"]
                                                          ELSE c[k]]
    ELSE next' = n /\ job' = (IF free THEN NoJob ELSE job) /\ caller' = c

\* The top of the loop: launch the next run when none is active.  Callers that
\* wait for nextDone now wait for curDone.
Launch(n, free, c) ==
  IF n.launch /\ free
    THEN /\ next' = NoNext
         /\ job' = [pc |-> "run", reset |-> n.reset, dirty |-> n.dirty, events |-> n.events]
         /\ caller' = [k \in Caller |-> IF c[k].pc = "next" THEN [c[k] EXCEPT !.pc = "cur"]
                                                          ELSE c[k]]
    ELSE next' = n /\ job' = (IF free THEN NoJob ELSE job) /\ caller' = c

\* Put for each of S in a map of events, which has one for a nonce.
PutEvents(events, S) == {t \in events : Overlapping(S, t) = {}} \cup S

\* queueTxEvent, on behalf of code that holds pool.mu.
Queued(n, S) ==
  IF loop = "down" THEN n ELSE [n EXCEPT !.events = PutEvents(@, S)]

\* journal.insert.
Journalled(txs) == IF writer THEN disk \o txs ELSE disk

-----------------------------------------------------------------------------
(* addTxs.                                                                 *)

\* What addTxs does with the result r of addTxsLocked.
Added(c, r) ==
  /\ SetPool(r.pool)
  /\ disk' = Journalled(r.journal)
  /\ next' = Queued(next, r.events)
  /\ caller' = [caller EXCEPT ![c] = [pc |-> "request", dirty |-> r.dirty]]

\* The known transactions are filtered out first; the others are added.
AddTx(c, t) ==
  /\ loop = "up" /\ caller[c].pc = "idle" /\ count.add < MaxAdd /\ t \notin All(pool)
  /\ Added(c, AddTxsLocked(pool, <<t>>, c = "local"))
  /\ count' = [count EXCEPT !.add = @ + 1]
  /\ UNCHANGED <<chain, headCh, head, job, loop, writer>>

\* Mutant: the accounts of an earlier request are overwritten.
RequestPromote_Overwrite(c) ==
  /\ caller[c].pc = "request"
  /\ \/ /\ loop # "down"
        /\ Launch([next EXCEPT !.launch = TRUE, !.dirty = caller[c].dirty],
                  job.pc = "none",
                  [caller EXCEPT ![c] = [pc |-> IF c = "local" THEN "next" ELSE "idle",
                                         dirty |-> {}]])
     \/ /\ loop # "up"
        /\ caller' = [caller EXCEPT ![c] = Idle]
        /\ UNCHANGED <<next, job>>
  /\ UNCHANGED <<pool, chain, headCh, head, loop, disk, writer, ghosts, count>>

\* requestPromoteExecutables; only AddLocal waits for the run.
RequestPromote(c) ==
  /\ caller[c].pc = "request"
  /\ \/ /\ loop # "down"
        /\ Launch([next EXCEPT !.launch = TRUE, !.dirty = @ \cup caller[c].dirty],
                  job.pc = "none",
                  [caller EXCEPT ![c] = [pc |-> IF c = "local" THEN "next" ELSE "idle",
                                         dirty |-> {}]])
     \/ /\ loop # "up"
        /\ caller' = [caller EXCEPT ![c] = Idle]
        /\ UNCHANGED <<next, job>>
  /\ UNCHANGED <<pool, chain, headCh, head, loop, disk, writer, ghosts, count>>

-----------------------------------------------------------------------------
(* runReorg.                                                               *)

\* reset(oldHead, newHead).  The walk back from the old head reinjects what only
\* the old chain has; a deep reorg and a missing old block reinject nothing; a
\* missing state or an unrooted chain leave the pool on its old state.
Outcome(reset) ==
  IF ~reset.is THEN {"none"}
  ELSE {"full", "fail"} \cup (IF reset.old.mined \subseteq reset.new.mined THEN {} ELSE {"deep"})

ResetPool(p, reset, outcome) ==
  IF outcome \in {"none", "fail"} THEN AddTxsLocked(p, <<>>, FALSE)
  ELSE Reset(p, StateNonce(reset.new), reset.new.poor,
             IF outcome = "full" THEN reset.old.mined \ reset.new.mined ELSE {})

\* The sizes are brought back within the limits, the change counter to zero.
Truncate(p, order) ==
  [TruncateQueue(TruncatePending(p), order) EXCEPT !.changes = 0]

\* After a reset the pending lists are validated, the heaps rebuilt, and every
\* nonce set to the end of its pending list.
SetNonces(p) == [p EXCEPT !.nonces = PendingNonces(p)]

Demote(p) == SetNonces(Reheap(FoldSet(LAMBDA a, r : DemoteAccount(r, a), p, Acct)))

\* The pool becomes p; told, muted and stranded follow, events being those of the
\* queued ones that the run forwards.
SetReorganized(p, events) ==
  /\ pool' = p
  /\ told' = told \cap p.pending
  /\ muted' = (muted \cup (job.events \ events)) \cap p.pending
  /\ stranded' = IF job.reset.is THEN Executable(p) ELSE stranded \cap Executable(p)

\* runReorg from the promotion on: r is what reset left, p the promoted pool.
Promoted(r, p, order) ==
  LET events == IF job.reset.is
                THEN {t \in job.events : Nonce[t] >= r.pool.nonces[From[t]]} ELSE job.events
  IN /\ SetReorganized(Truncate(IF job.reset.is THEN Demote(p) ELSE p, order), events)
     /\ disk' = Journalled(r.journal)
     /\ next' = Queued(next, r.events)
     /\ job' = [job EXCEPT !.pc = "feed",
                           !.events = PutEvents(events, p.pending \ r.pool.pending)]

AfterReset(r, order) ==
  Promoted(r, PromoteExecutables(r.pool, IF job.reset.is THEN {From[t] : t \in r.pool.queue}
                                                         ELSE job.dirty), order)

RunReorg(outcome, order) ==
  /\ job.pc = "run" /\ outcome \in Outcome(job.reset)
  /\ AfterReset(ResetPool(pool, job.reset, outcome), order)
  /\ UNCHANGED <<chain, headCh, head, caller, loop, writer, count>>

Released(c, pcs) == [k \in Caller |-> IF c[k].pc \in pcs THEN Idle ELSE c[k]]

\* txFeed.Send, then close(done): the loop may launch the next run.
ReorgDone ==
  /\ job.pc = "feed" /\ loop # "down"
  /\ told' = told \cup (job.events \cap pool.pending)
  /\ Launch(next, TRUE, Released(caller, {"cur"}))
  /\ UNCHANGED <<pool, chain, headCh, head, loop, disk, writer, muted, stranded, count>>

-----------------------------------------------------------------------------
(* The event loop.                                                         *)

\* The chain gets a new head and says so.
ChainHead(h) ==
  /\ loop = "up" /\ h # chain /\ Event
  /\ chain' = h
  /\ headCh' = Append(headCh, h)
  /\ UNCHANGED <<pool, head, caller, sched, disk, writer, ghosts>>

\* case ev := <-pool.chainHeadCh, with requestReset: a reset that is already
\* waiting keeps its old head and takes the new one.
LoopHead ==
  /\ loop = "up" /\ headCh # <<>>
  /\ LET new == headCh[1]
         old == IF next.reset.is THEN next.reset.old ELSE head
     IN /\ Launch([next EXCEPT !.launch = TRUE,
                               !.reset = [is |-> TRUE, old |-> old, new |-> new]],
                  job.pc = "none", caller)
        /\ head' = new
  /\ headCh' = Tail(headCh)
  /\ UNCHANGED <<pool, chain, loop, disk, writer, ghosts, count>>

\* case <-evict.C: old is the set of accounts whose heartbeat is too old.
Evict(old) ==
  /\ loop = "up" /\ old # {} /\ Event
  /\ old \subseteq {From[t] : t \in pool.queue} \ pool.locals
  /\ SetPool(RemoveAll(pool, ByNonce({t \in pool.queue : From[t] \in old}), TRUE))
  /\ UNCHANGED <<chain, headCh, head, caller, sched, disk, writer>>

\* Mutant: the queued transactions are left out.
LocalTxs_Pending(p) ==
  FoldSet(LAMBDA a, s : s \o ByNonce(At(p.pending, a)), <<>>, p.locals)

\* The journal as rotate writes it: pool.local().
LocalTxs(p) ==
  FoldSet(LAMBDA a, s : s \o ByNonce(At(p.pending, a)) \o ByNonce(At(p.queue, a)),
          <<>>, p.locals)

\* journal.rotate: it can fail before the rename and after it; either way no
\* writer is left.
RotateJournal(p, outcome) ==
  /\ disk' = IF outcome = "early" THEN disk ELSE LocalTxs(p)
  /\ writer' = (outcome = "done")

\* case <-journal.C.
Rotate(outcome) ==
  /\ loop = "up" /\ Event
  /\ RotateJournal(pool, outcome)
  /\ UNCHANGED <<pool, chain, headCh, head, caller, sched, ghosts>>

SetGasPrice(price) ==
  /\ loop = "up" /\ price # pool.gasPrice /\ Event
  /\ LET drop == {t \in pool.remote : Price[t] < price}
         p    == [pool EXCEPT !.gasPrice = price]
     IN SetPool(IF price > pool.gasPrice
                THEN Removed(RemoveAll(p, ByNonce(drop), FALSE), Cardinality(drop)) ELSE p)
  /\ UNCHANGED <<chain, headCh, head, caller, sched, disk, writer>>

\* Stop: the subscription ends, and the loop closes reorgShutdownCh.
Stop ==
  /\ loop = "up" /\ Event
  /\ loop' = "stopping"
  /\ UNCHANGED <<pool, chain, headCh, head, caller, next, job, disk, writer, ghosts>>

\* Mutant: nextDone is not closed.
Shutdown_Keep ==
  /\ loop = "stopping" /\ job.pc # "run"
  /\ loop' = "down"
  /\ next' = NoNext /\ job' = NoJob
  /\ told' = told \cup (job.events \cap pool.pending)
  /\ caller' = Released(caller, {"cur"})
  /\ writer' = FALSE
  /\ UNCHANGED <<pool, chain, headCh, head, disk, muted, stranded, count>>

\* scheduleReorgLoop on shutdown: the current run finishes, nextDone is closed
\* without another one; then Stop closes the journal.
Shutdown ==
  /\ loop = "stopping" /\ job.pc # "run"
  /\ loop' = "down"
  /\ next' = NoNext /\ job' = NoJob
  /\ told' = told \cup (job.events \cap pool.pending)
  /\ caller' = Released(caller, {"cur", "next"})
  /\ writer' = FALSE
  /\ UNCHANGED <<pool, chain, headCh, head, disk, muted, stranded, count>>

\* NewTxPool once the journal is loaded and its accounts are promoted; nobody
\* subscribed before, so all of pending counts as told.
Loaded(p, outcome) ==
  /\ pool' = p
  /\ RotateJournal(p, outcome)
  /\ told' = p.pending /\ muted' = {} /\ stranded' = {}

Load(r, outcome) ==
  Loaded(Truncate(PromoteExecutables(r.pool, r.dirty), SetToSeq(Acct)), outcome)

\* The process dies, and NewTxPool starts from the head of the chain with what
\* the journal holds; nothing else runs until that is done.
Restart(outcome) ==
  /\ count.event < MaxEvent
  /\ Load(AddTxsLocked(NewPool(StateNonce(chain), chain.poor), disk, TRUE), outcome)
  /\ head' = chain /\ headCh' = <<>>
  /\ caller' = [c \in Caller |-> Idle]
  /\ next' = NoNext /\ job' = NoJob /\ loop' = "up"
  /\ count' = [count EXCEPT !.event = @ + 1, !.restart = @ + 1]
  /\ UNCHANGED chain

Orders == {s \in [1..Cardinality(Acct) -> Acct] : \A i, j \in DOMAIN s : i # j => s[i] # s[j]}
Rotations == {"done", "early", "late"}

Next ==
  \/ \E c \in Caller : (\E t \in Offers[c] : AddTx(c, t)) \/ RequestPromote(c)
  \/ \E outcome \in {"none", "full", "deep", "fail"}, order \in Orders :
       RunReorg(outcome, order)
  \/ ReorgDone \/ LoopHead \/ Stop \/ Shutdown
  \/ \E h \in Heads : ChainHead(h)
  \/ \E old \in SUBSET Acct : Evict(old)
  \/ \E outcome \in Rotations : Rotate(outcome)
  \/ \E price \in GasPrices : SetGasPrice(price)
  \/ \E outcome \in Rotations : Restart(outcome)

Spec == Init /\ [][Next]_vars

-----------------------------------------------------------------------------
(* Properties.                                                             *)

TypeOK ==
  /\ {pool.pending, pool.queue, pool.local, pool.remote} \subseteq SUBSET Tx
  /\ {pool.locals, pool.beats, pool.poor} \subseteq SUBSET Acct
  /\ {pool.nonces, pool.state} \subseteq [Acct -> Nat]
  /\ ToSet(pool.urgent \o pool.floating) \subseteq Tx
  /\ pool.stales \in Int /\ {pool.changes, pool.gasPrice} \subseteq Nat
  /\ {chain, head} \subseteq Heads /\ ToSet(headCh) \subseteq Heads
  /\ \A c \in Caller : /\ caller[c].pc \in {"idle", "request", "next", "cur"}
                       /\ caller[c].dirty \subseteq Acct
  /\ next.launch \in BOOLEAN /\ next.dirty \subseteq Acct /\ next.events \subseteq Tx
  /\ job.pc \in {"none", "run", "feed"} /\ job.dirty \subseteq Acct /\ job.events \subseteq Tx
  /\ loop \in {"up", "stopping", "down"}
  /\ ToSet(disk) \subseteq Tx /\ writer \in BOOLEAN
  /\ {told, muted, stranded} \subseteq SUBSET Tx

\* pool.all, the lists and the heaps agree whatever removes, replaces, demotes
\* or reinjects a transaction: each one is in exactly one list, no account has
\* a nonce twice, a remote one can be found by Discard, and an account with queued
\* transactions has a heartbeat (without one it counts as idle since the year 1,
\* and the next eviction tick would drop them).
LookupConsistent ==
  /\ All(pool) = pool.pending \cup pool.queue
  /\ pool.pending \cap pool.queue = {} /\ pool.local \cap pool.remote = {}
  /\ \A t \in All(pool) : Overlapping(All(pool), t) = {t}
  /\ pool.remote \subseteq ToSet(pool.urgent \o pool.floating)
  /\ {From[t] : t \in pool.queue} \subseteq pool.beats

\* The pending transactions of an account are executable in sequence on the
\* pool's state, and pendingNonces is the nonce after the last of them.
PendingContiguous ==
  \A a \in Acct :
    Nonces(At(pool.pending, a)) = pool.state[a]..(pool.nonces[a] - 1)

\* The limits hold whenever mu is free.  The pool outgrows its slots only for
\* local transactions, and then holds no remote one (Discard); with too many
\* pending transactions no remote account has more than its allowance
\* (truncatePending).
LimitsKept ==
  /\ SlotsOf(All(pool)) > GlobalSlots + GlobalQueue => pool.remote = {}
  /\ Cardinality(pool.pending) > GlobalSlots =>
       \A a \in Acct \ pool.locals : Len0(pool, a) <= AccountSlots

\* A run that looks at the account of t is still to come.
RunAhead(t) ==
  \/ From[t] \in next.dirty \/ next.reset.is
  \/ job.pc = "run" /\ (From[t] \in job.dirty \/ job.reset.is)
  \/ \E c \in Caller : From[t] \in caller[c].dirty

\* A transaction that could be executed next is not forgotten in the queue: a
\* run that will promote it is on its way - unless a run with a reset has
\* passed it over (see ExecutablePromoted).
ExecutableOnItsWay ==
  loop = "up" => \A t \in Executable(pool) : t \in stranded \/ RunAhead(t)

\* promoteExecutables "moves transactions that have become processable from the
\* future queue to the set of pending transactions", and "for resets, all
\* addresses in the tx queue will be promoted": nothing executable is left
\* queued when no run is ahead.  But reset sets the nonces back to the state's
\* before promoteExecutables compares them with the queue.
ExecutablePromoted ==
  loop = "up" => \A t \in Executable(pool) : RunAhead(t)

\* Subscribers hear of every transaction that becomes pending, also of one that
\* replaces another or that a reorg brings back - unless a reset that failed
\* discarded its event as stale.
PendingAnnounced ==
  loop = "up" => pool.pending \subseteq told \cup muted \cup next.events \cup job.events

\* "preventing any associated transaction from being dropped out of the pool
\* due to pricing constraints": a transaction of a local account only leaves for
\* one that outbids it, when it is mined or when it cannot be paid.
LocalsKept ==
  [][count'.restart = count.restart =>
       \A t \in All(pool) \ All(pool') : From[t] \in pool.locals =>
         \/ Overlapping(All(pool'), t) # {}
         \/ Nonce[t] < pool'.state[From[t]]
         \/ ~Payable(pool', t)]_vars

\* A restart gives a local account back every nonce that the journal and the
\* pool had for it, if the chain still wants it; and the journal has it again.
RestartRestores ==
  [][count'.restart # count.restart =>
       \A t \in ToSet(disk) \cap All(pool) :
         (Nonce[t] >= StateNonce(chain)[From[t]] /\ (t \in Dear => From[t] \notin chain.poor)) =>
           \E s \in Overlapping(All(pool'), t) : s \in ToSet(disk') /\ From[s] \in pool'.locals]_vars

\* AddLocal "performs synchronous pool reorganization": the channel its caller
\* waits for belongs to the run that is active or to one that will be launched
\* after it, also when the request races with a stop.
WaiterHasRun ==
  \A c \in Caller :
    /\ caller[c].pc \in {"cur", "next"} => job.pc # "none"
    /\ caller[c].pc = "next" => next.launch
==============================================================================
