------------------------------- MODULE PoolOps -------------------------------
(***************************************************************************)
(* The transaction pool as a value: what the methods of TxPool, txList,    *)
(* txLookup and txPricedList that run under pool.mu do to it.              *)
(*                                                                         *)
(* A transaction is an identifier with a sender, a nonce, a price (fee cap *)
(* and tip are equal, as in a legacy transaction) and a number of slots.   *)
(* An account is poor or not, and a Dear transaction needs one that is     *)
(* not.  A list per account is the subset At(S, a) of one set S.           *)
(***************************************************************************)
EXTENDS Integers, Sequences, SequencesExt, FiniteSetsExt

CONSTANTS
  Acct,                       \* sender accounts
  Tx, From, Nonce, Price,     \* transactions (integers) and their fields
  Slots, Dear,                \* numSlots(tx); those a poor account cannot pay
  GlobalSlots, GlobalQueue,   \* TxPoolConfig
  AccountSlots, AccountQueue,
  PriceBump,                  \* TxPoolConfig.PriceBump, in percent
  StaleShare,                 \* the 4 of txPricedList.Removed
  UrgentRatio                 \* urgentRatio (floatingRatio is 1)

ASSUME PoolAssumption ==
  /\ Tx \subseteq Nat /\ IsFiniteSet(Tx) /\ Dear \subseteq Tx
  /\ From \in [Tx -> Acct] /\ Nonce \in [Tx -> Nat]
  /\ Price \in [Tx -> Nat] /\ Slots \in [Tx -> Nat \ {0}]
  /\ {GlobalSlots, GlobalQueue, AccountSlots, AccountQueue} \subseteq Nat \ {0}
  /\ PriceBump \in Nat /\ StaleShare \in Nat \ {0} /\ UrgentRatio \in Nat \ {0}

At(S, a) == {t \in S : From[t] = a}
Nonces(S) == {Nonce[t] : t \in S}
Overlapping(S, t) == {o \in S : From[o] = From[t] /\ Nonce[o] = Nonce[t]}
SlotsOf(S) == MapThenSumSet(LAMBDA t : Slots[t], S)
ByNonce(S) == SetToSortSeq(S, LAMBDA s, t : Nonce[s] < Nonce[t])

\* newTxPool with an empty journal, after reset to a head: state is the nonce of
\* every account there, poor the accounts without funds.
NewPool(state, poor) ==
  [pending |-> {}, queue |-> {},     \* pool.pending, pool.queue
   local |-> {}, remote |-> {},      \* pool.all
   locals |-> {}, beats |-> {},      \* pool.locals; accounts with a heartbeat
   nonces |-> state,                 \* pool.pendingNonces
   state |-> state, poor |-> poor,   \* pool.currentState
   urgent |-> <<>>, floating |-> <<>>, stales |-> 0,  \* pool.priced
   changes |-> 0,                    \* pool.changesSinceReorg
   gasPrice |-> 0]

All(p) == p.local \cup p.remote
Payable(p, t) == t \notin Dear \/ From[t] \notin p.poor

-----------------------------------------------------------------------------
(* txPricedList: a heap is the sequence of its elements, the worst first.   *)

\* priceHeap.Less; equal transactions are told apart by their identifier.
Less(s, t) ==
  \/ Price[s] < Price[t]
  \/ Price[s] = Price[t] /\ Nonce[s] > Nonce[t]
  \/ Price[s] = Price[t] /\ Nonce[s] = Nonce[t] /\ s < t

HeapPush(h, t) == SortSeq(Append(h, t), Less)
HeapInit(S) == SetToSortSeq(S, Less)

Reheap(p) ==
  LET all == HeapInit(p.remote)
      n   == Len(all) \div (UrgentRatio + 1)
  IN [p EXCEPT !.stales = 0, !.urgent = SubSeq(all, n + 1, Len(all)),
               !.floating = SubSeq(all, 1, n)]

Removed(p, count) ==
  LET q == [p EXCEPT !.stales = @ + count]
  IN IF q.stales <= (Len(p.urgent) + Len(p.floating)) \div StaleShare
       THEN q ELSE Reheap(q)

Put(p, t, local) == IF local THEN p ELSE [p EXCEPT !.urgent = HeapPush(@, t)]

\* underpricedFor drops the stale elements at the head of a heap first.
RECURSIVE DropStale(_, _)
DropStale(p, h) ==
  IF p[h] # <<>> /\ Head(p[h]) \notin p.remote
    THEN DropStale([p EXCEPT ![h] = Tail(@), !.stales = @ - 1], h)
    ELSE p

NotAbove(p, h, t) == p[h] = <<>> \/ Price[Head(p[h])] >= Price[t]

\* Underpriced, with the heaps it leaves behind: the floating one is only
\* looked at when the urgent one does not settle the answer.
Underpriced(p, t) ==
  LET q == DropStale(p, "urgent")
      r == DropStale(q, "floating")
  IN IF ~NotAbove(q, "urgent", t) THEN [under |-> FALSE, pool |-> q]
     ELSE [under |-> NotAbove(r, "floating", t) /\ r.urgent \o r.floating # <<>>,
           pool |-> r]

\* The loop of Discard: room for need more slots.
RECURSIVE DiscardLoop(_, _, _)
DiscardLoop(p, need, drop) ==
  LET u == Head(p.urgent)
      f == Head(p.floating)
      fromUrgent == [p EXCEPT !.urgent = Tail(@)]
      fromFloating == [p EXCEPT !.floating = Tail(@)]
      stop == [pool |-> p, need |-> need, drop |-> drop]
  IN IF need <= 0 THEN stop
     ELSE IF Len(p.urgent) > Len(p.floating) * UrgentRatio
       THEN DiscardLoop(IF u \in p.remote
                          THEN [fromUrgent EXCEPT !.floating = HeapPush(@, u)]
                          ELSE [fromUrgent EXCEPT !.stales = @ - 1],
                        need, drop)
     ELSE IF p.floating = <<>> THEN stop
     ELSE IF f \in p.remote
       THEN DiscardLoop(fromFloating, need - Slots[f], Append(drop, f))
       ELSE DiscardLoop([fromFloating EXCEPT !.stales = @ - 1], need, drop)

\* Without force, what was taken goes back if it is not enough.
GiveBack(d, force) ==
  IF d.need > 0 /\ ~force
    THEN [ok |-> FALSE, drop |-> <<>>,
          pool |-> FoldLeft(LAMBDA q, t : Put(q, t, FALSE), d.pool, d.drop)]
    ELSE [ok |-> TRUE, drop |-> d.drop, pool |-> d.pool]

Discard(p, need, force) == GiveBack(DiscardLoop(p, need, <<>>), force)

-----------------------------------------------------------------------------
(* txLookup and txList.                                                    *)

AllAdd(p, t, local) ==
  IF local THEN [p EXCEPT !.local = @ \cup {t}] ELSE [p EXCEPT !.remote = @ \cup {t}]

AllRemove(p, S) == [p EXCEPT !.local = @ \ S, !.remote = @ \ S]

\* The test of txList.Add: a transaction only replaces one it outbids.
Outbids(S, t) ==
  \A o \in Overlapping(S, t) :
    /\ Price[o] < Price[t]
    /\ Price[t] >= (Price[o] * (100 + PriceBump)) \div 100

\* Mutant: the replaced transaction stays in pool.all.
Replace_Keep(p, old) == IF old = {} THEN p ELSE Removed(p, 1)

\* The old transaction leaves pool.all and the priced list hears of it.
Replace(p, old) == IF old = {} THEN p ELSE Removed(AllRemove(p, old), 1)

\* txSortedMap.Ready: from the lowest nonce, if that is not beyond start, as
\* far as there is no gap.
Ready(S, start) ==
  {t \in S : /\ Min(Nonces(S)) <= start
             /\ \A n \in Min(Nonces(S))..Nonce[t] : n \in Nonces(S)}

\* txSortedMap.Cap: what is beyond the n lowest nonces.
Beyond(S, n) == {t \in S : Cardinality({s \in S : Nonce[s] < Nonce[t]}) >= n}

-----------------------------------------------------------------------------
(* TxPool, under pool.mu.                                                  *)

\* enqueueTx; a refused transaction changes nothing.
EnqueueTx(p, t, local, addAll) ==
  LET old == Overlapping(p.queue, t)
      q   == Replace([p EXCEPT !.queue = (@ \ old) \cup {t}], old)
      r   == IF addAll THEN Put(AllAdd(q, t, local), t, local) ELSE q
  IN IF Outbids(p.queue, t) THEN [r EXCEPT !.beats = @ \cup {From[t]}] ELSE p

EnqueueAll(p, S) ==
  FoldLeft(LAMBDA q, t : EnqueueTx(q, t, FALSE, FALSE), p, ByNonce(S))

SetIfLower(p, a, n) == IF n < p.nonces[a] THEN [p EXCEPT !.nonces[a] = n] ELSE p

\* Mutant: the nonce of the account is set one too low.
RemoveFromLists_Below(p, t) ==
  LET a    == From[t]
      gone == Overlapping(p.pending, t)
      up   == {s \in At(p.pending, a) : Nonce[s] > Nonce[t]}
      que  == [p EXCEPT !.queue = @ \ Overlapping(@, t)]
  IN IF gone # {}
     THEN SetIfLower(EnqueueAll([p EXCEPT !.pending = @ \ (gone \cup up)], up),
                     a, Nonce[t] - 1)
     ELSE IF At(que.queue, a) = {} THEN [que EXCEPT !.beats = @ \ {a}] ELSE que

\* The lists are searched by nonce, pending first; what followed a pending
\* transaction goes back to the queue.
RemoveFromLists(p, t) ==
  LET a    == From[t]
      gone == Overlapping(p.pending, t)
      up   == {s \in At(p.pending, a) : Nonce[s] > Nonce[t]}
      que  == [p EXCEPT !.queue = @ \ Overlapping(@, t)]
  IN IF gone # {}
     THEN SetIfLower(EnqueueAll([p EXCEPT !.pending = @ \ (gone \cup up)], up),
                     a, Nonce[t])
     ELSE IF At(que.queue, a) = {} THEN [que EXCEPT !.beats = @ \ {a}] ELSE que

\* removeTx.
RemoveTx(p, t, outofbound) ==
  IF t \notin All(p) THEN p
  ELSE RemoveFromLists(IF outofbound THEN Removed(AllRemove(p, {t}), 1)
                                     ELSE AllRemove(p, {t}), t)

RemoveAll(p, s, outofbound) == FoldLeft(LAMBDA q, t : RemoveTx(q, t, outofbound), p, s)

\* validateTx, as far as the state of the pool decides.
Valid(p, t, isLocal) ==
  /\ isLocal \/ Price[t] >= p.gasPrice
  /\ p.state[From[t]] <= Nonce[t]
  /\ Payable(p, t)

Refused(p) == [ok |-> FALSE, replaced |-> FALSE, event |-> FALSE, journal |-> FALSE, pool |-> p]

\* What Discard took is removed.
DropAll(d) ==
  [ok |-> d.ok,
   pool |-> RemoveAll([d.pool EXCEPT !.changes = @ + Len(d.drop)], d.drop, FALSE)]

\* u is the answer of Underpriced: "too many churns" too refuses.
DiscardFor(u, over, isLocal) ==
  IF u.under \/ u.pool.changes > GlobalSlots \div 4
    THEN [ok |-> FALSE, pool |-> u.pool]
    ELSE DropAll(Discard(u.pool, over, isLocal))

\* Mutant: the slots of the new transaction are not counted.
MakeRoom_Late(p, t, isLocal) ==
  LET over == SlotsOf(All(p)) - (GlobalSlots + GlobalQueue)
  IN IF over <= 0 THEN [ok |-> TRUE, pool |-> p]
     ELSE DiscardFor([under |-> FALSE, pool |-> p], over, isLocal)

\* The part of add that makes room in a full pool.
MakeRoom(p, t, isLocal) ==
  LET over == SlotsOf(All(p)) + Slots[t] - (GlobalSlots + GlobalQueue)
  IN IF over <= 0 THEN [ok |-> TRUE, pool |-> p]
     ELSE DiscardFor(IF isLocal THEN [under |-> FALSE, pool |-> p] ELSE Underpriced(p, t),
                     over, isLocal)

\* Mutant: the remote transactions of the new local account are not migrated.
MarkLocal_NoMigrate(p, a) == [p EXCEPT !.locals = @ \cup {a}]

\* locals.add and RemoteToLocals.
MarkLocal(p, a) ==
  LET moved == At(p.remote, a)
  IN Removed([p EXCEPT !.locals = @ \cup {a}, !.remote = @ \ moved,
                       !.local = @ \cup moved],
             Cardinality(moved))

\* t replaces a pending transaction, or goes to the queue.
Insert(p, t, local, isLocal) ==
  LET a   == From[t]
      old == Overlapping(p.pending, t)
      Marked(q) == IF local /\ a \notin p.locals THEN MarkLocal(q, a) ELSE q
  IN CASE old # {} /\ Outbids(p.pending, t) ->
            [ok |-> TRUE, replaced |-> TRUE, event |-> TRUE, journal |-> a \in p.locals,
             pool |-> Put(AllAdd(Replace([p EXCEPT !.pending = (@ \ old) \cup {t},
                                                   !.beats = @ \cup {a}], old),
                                 t, isLocal), t, isLocal)]
       [] old = {} /\ Outbids(p.queue, t) ->
            [ok |-> TRUE, replaced |-> Overlapping(p.queue, t) # {}, event |-> FALSE,
             journal |-> local \/ a \in p.locals,
             pool |-> Marked(EnqueueTx(p, t, isLocal, TRUE))]
       [] OTHER -> Refused(p)

InsertWithRoom(room, t, local, isLocal) ==
  IF room.ok THEN Insert(room.pool, t, local, isLocal) ELSE Refused(room.pool)

\* add: journal says that journalTx wrote t, event that queueTxEvent got it.
Add(p, t, local) ==
  LET isLocal == local \/ From[t] \in p.locals
  IN IF t \in All(p) \/ ~Valid(p, t, isLocal) THEN Refused(p)
     ELSE InsertWithRoom(MakeRoom(p, t, isLocal), t, local, isLocal)

-----------------------------------------------------------------------------
(* The steps of runReorg, under pool.mu.                                   *)

\* promoteTx.
PromoteTx(p, t) ==
  LET old == Overlapping(p.pending, t)
      q   == Replace([p EXCEPT !.pending = (@ \ old) \cup {t}], old)
  IN IF ~Outbids(p.pending, t) THEN Removed(AllRemove(p, {t}), 1)
     ELSE [q EXCEPT !.nonces[From[t]] = Nonce[t] + 1, !.beats = @ \cup {From[t]}]

\* promoteExecutables for one account.
PromoteAccount(p, a) ==
  LET list  == At(p.queue, a)
      old   == {t \in list : Nonce[t] < p.state[a]}
      drops == {t \in list \ old : ~Payable(p, t)}
      rest  == list \ (old \cup drops)
      ready == Ready(rest, p.nonces[a])
      q     == FoldLeft(LAMBDA r, t : PromoteTx(r, t),
                        AllRemove(p, old \cup drops), ByNonce(ready))
      caps  == IF a \in p.locals THEN {} ELSE Beyond(rest \ ready, AccountQueue)
      left  == rest \ (ready \cup caps)
      r     == Removed(AllRemove([q EXCEPT !.queue = (@ \ list) \cup left], caps),
                       Cardinality(old \cup drops \cup caps))
  IN CASE list = {} -> p
       [] list # {} /\ left = {} -> [r EXCEPT !.beats = @ \ {a}]
       [] OTHER -> r

PromoteExecutables(p, accounts) == FoldSet(LAMBDA a, q : PromoteAccount(q, a), p, accounts)

\* Mutant: a gap in front of the pending list goes unnoticed.
DemoteAccount_Gap(p, a) ==
  LET list  == At(p.pending, a)
      old   == {t \in list : Nonce[t] < p.state[a]}
      drops == {t \in list \ old : ~Payable(p, t)}
      bad   == {t \in list \ (old \cup drops) :
                  \E d \in drops : Nonce[t] > Nonce[d]}
      left  == list \ (old \cup drops \cup bad)
  IN EnqueueAll([AllRemove(p, old \cup drops) EXCEPT !.pending = (@ \ list) \cup left], bad)

\* demoteUnexecutables for one account; Reheap follows, so the priced list is
\* not told.
DemoteAccount(p, a) ==
  LET list  == At(p.pending, a)
      old   == {t \in list : Nonce[t] < p.state[a]}
      drops == {t \in list \ old : ~Payable(p, t)}
      bad   == {t \in list \ (old \cup drops) :
                  \E d \in drops : Nonce[t] > Nonce[d]}
      left  == list \ (old \cup drops \cup bad)
      gap   == IF p.state[a] \in Nonces(left) THEN {} ELSE left
  IN EnqueueAll([AllRemove(p, old \cup drops) EXCEPT !.pending = (@ \ list) \cup (left \ gap)],
                bad \cup gap)

\* The nonces runReorg sets after a reset: setAll forgets the other accounts.
PendingNonces(p) ==
  [a \in Acct |-> LET n == Nonces(At(p.pending, a))
                  IN IF n = {} THEN p.state[a] ELSE Max(n) + 1]

Len0(p, a) == Cardinality(At(p.pending, a))

\* One transaction less for each offender.
Shorten(p, offenders) ==
  FoldLeft(LAMBDA q, a :
             LET last == Beyond(At(q.pending, a), Len0(q, a) - 1)
                 r    == Removed(AllRemove([q EXCEPT !.pending = @ \ last], last), 1)
             IN SetIfLower(r, a, Max(Nonces(last))),
           p, offenders)

RECURSIVE Shrink(_, _, _)
Shrink(p, offenders, threshold) ==
  IF Cardinality(p.pending) > GlobalSlots /\ Len0(p, Last(offenders)) > threshold
    THEN Shrink(Shorten(p, offenders), offenders, threshold)
    ELSE p

\* truncatePending: the k largest are shortened to the size of the next one,
\* and when there is no next one to the account allowance.
RECURSIVE Level(_, _, _)
Level(p, spammers, k) ==
  IF Cardinality(p.pending) > GlobalSlots /\ k < Len(spammers)
    THEN Level(IF k = 0 THEN p
               ELSE Shrink(p, SubSeq(spammers, 1, k), Len0(p, spammers[k + 1])),
               spammers, k + 1)
    ELSE IF k = 0 THEN p ELSE Shrink(p, SubSeq(spammers, 1, k), AccountSlots)

TruncatePending(p) ==
  LET spammers == {a \in Acct \ p.locals : Len0(p, a) > AccountSlots}
  IN Level(p, SetToSortSeq(spammers, LAMBDA a, b : Len0(p, a) > Len0(p, b)), 0)

\* truncateQueue: order is the accounts by age of their heartbeat; of each, the
\* highest nonces go first.
TruncateQueue(p, order) ==
  LET step(q, a) ==
        LET list == At(q.queue, a)
            drop == Cardinality(q.queue) - GlobalQueue
            keep == Max({0, Cardinality(list) - drop})
        IN IF a \in q.locals \/ drop <= 0 THEN q
           ELSE RemoveAll(q, Reverse(ByNonce(Beyond(list, keep))), TRUE)
  IN FoldLeft(step, p, order)

\* What addTxsLocked gathers: the pool, and what its add calls journalled, queued
\* as events and left to promote; x is the result of add.
Gather(r, t, x) ==
  [pool    |-> x.pool,
   journal |-> IF x.journal THEN Append(r.journal, t) ELSE r.journal,
   events  |-> IF x.event THEN {e \in r.events : Overlapping({t}, e) = {}} \cup {t}
                          ELSE r.events,
   dirty   |-> IF x.ok /\ ~x.replaced THEN r.dirty \cup {From[t]} ELSE r.dirty]

AddTxsLocked(p, txs, local) ==
  FoldLeft(LAMBDA r, t : Gather(r, t, Add(r.pool, t, local)),
           [pool |-> p, journal |-> <<>>, events |-> {}, dirty |-> {}], txs)

\* reset to a head with these nonces: the transactions of blocks walked back
\* from the old head are added again.
Reset(p, state, poor, reinject) ==
  AddTxsLocked([p EXCEPT !.state = state, !.nonces = state, !.poor = poor],
               Reverse(ByNonce(reinject)), FALSE)
==============================================================================
