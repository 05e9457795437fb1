------------------------ MODULE DialScheduler_proofs ------------------------
(***************************************************************************)
(* Proofs about DialScheduler: its types, the indices of the static pool,  *)
(* the entries of dialing and the number of dials per history entry, for   *)
(* any set of nodes.                                                       *)
(***************************************************************************)
EXTENDS DialScheduler, FiniteSetTheorems, TLAPS

\* loop has no node to dial from its pool when it waits for dynamic nodes.
PoolEmptyForDynamic ==
  /\ lpc = "select" /\ slots > 0 => staticPool = <<>>
  /\ lpc = "dynamic" => staticPool = <<>>

\* n passed checkDial in loop and will be dialed by it: as a dynamic node, or from
\* the static pool.
DueInLoop(n) == (lpc = "dynamic" /\ n \in node) \/ index[n] >= 0

\* Dials of n in history or on their way there: each of the two parties that dial
\* starts from an empty history.
DialsBounded ==
  \A n \in ID :
    history[n] + (IF n \in checked THEN 1 ELSE 0) + (IF DueInLoop(n) THEN 1 ELSE 0) <= 2

DialInv == TypeOK /\ PoolIndexed /\ EntryHasTask /\ PoolEmptyForDynamic /\ DialsBounded

-----------------------------------------------------------------------------
(* The static pool.                                                        *)

\* removeFromStaticPool on the sequence: the last element replaces the i-th.
Removed(s, i) == SubSeq([s EXCEPT ![i] = s[Len(s)]], 1, Len(s) - 1)

\* The elements of the pool that is left.
LEMMA RemoveFromSeq ==
  ASSUME NEW s \in Seq(ID), NEW i \in 1..Len(s)
  PROVE  /\ Removed(s, i) \in Seq(ID) /\ Len(Removed(s, i)) = Len(s) - 1
         /\ \A j \in 1..(Len(s) - 1) : Removed(s, i)[j] = IF j = i THEN s[Len(s)] ELSE s[j]
<1> DEFINE u == [s EXCEPT ![i] = s[Len(s)]]
           t == Removed(s, i)
<1>1. u \in Seq(ID) /\ Len(u) = Len(s)
  OBVIOUS
<1>2. \A j \in 1..Len(s) : u[j] = IF j = i THEN s[Len(s)] ELSE s[j]
  OBVIOUS
<1>3. Len(s) - 1 \in 0..Len(u)
  BY <1>1
<1>4. t = SubSeq(u, 1, Len(s) - 1)
  BY Zenon DEF Removed
<1> HIDE DEF u, t
<1>5. t \in Seq(ID) /\ Len(t) = Len(s) - 1 /\ \A j \in 1..(Len(s) - 1) : t[j] = u[j]
  BY <1>1, <1>3, <1>4
<1>6. \A j \in 1..(Len(s) - 1) : t[j] = IF j = i THEN s[Len(s)] ELSE s[j]
  BY <1>2, <1>5
<1> QED
  BY <1>5, <1>6, Zenon DEF t

\* What removeFromStaticPool(i) does to a pool whose indices are right: they are
\* right again, and the removed task, alone, is outside.
LEMMA RemoveKeepsPool ==
  ASSUME TypeOK, PoolIndexed, NEW i \in Nat, i < Len(staticPool), RemoveFromPool(i)
  PROVE  /\ staticPool' \in Seq(ID) /\ index' \in [ID -> Int]
         /\ \A j \in DOMAIN staticPool' :
              /\ index'[staticPool'[j]] = j - 1
              /\ \E k \in DOMAIN staticPool : staticPool'[j] = staticPool[k]
              /\ staticPool'[j] # staticPool[i + 1]
         /\ \A n \in ID : index'[n] >= 0 =>
              /\ index[n] >= 0 /\ n # staticPool[i + 1]
              /\ index'[n] < Len(staticPool') /\ staticPool'[index'[n] + 1] = n
         /\ index'[staticPool[i + 1]] = -1
<1> DEFINE last == Len(staticPool)
           out == staticPool[i + 1]
           mover == staticPool[last]
<1>1. /\ staticPool \in Seq(ID) /\ last \in Nat /\ i + 1 \in 1..last
      /\ out \in ID /\ mover \in ID /\ index \in [ID -> Int]
  BY DEF TypeOK
<1>2. /\ staticPool' = SubSeq([staticPool EXCEPT ![i + 1] = mover], 1, last - 1)
      /\ index' = [[index EXCEPT ![mover] = i] EXCEPT ![out] = -1]
  BY Zenon DEF RemoveFromPool
<1>3. /\ staticPool' \in Seq(ID) /\ Len(staticPool') = last - 1
      /\ \A j \in 1..(last - 1) :
           staticPool'[j] = IF j = i + 1 THEN mover ELSE staticPool[j]
  <2>1. staticPool' = Removed(staticPool, i + 1)
    BY <1>2, Zenon DEF Removed
  <2> QED
    BY <1>1, <2>1, RemoveFromSeq, Zenon
<1>4. \A j \in 1..last : staticPool[j] \in ID /\ index[staticPool[j]] = j - 1
  <2>1. DOMAIN staticPool = 1..last
    BY <1>1
  <2> QED
    BY <1>1, <2>1 DEF PoolIndexed
<1>5. \A n \in ID : index[n] >= 0 => index[n] + 1 \in 1..last /\ staticPool[index[n] + 1] = n
  <2> SUFFICES ASSUME NEW n \in ID, index[n] >= 0
               PROVE  index[n] + 1 \in 1..last /\ staticPool[index[n] + 1] = n
    BY Zenon
  <2>1. index[n] < last /\ staticPool[index[n] + 1] = n
    BY Zenon DEF PoolIndexed
  <2>2. index[n] \in Int
    BY <1>1, Zenon
  <2> HIDE DEF last
  <2> QED
    BY <1>1, <2>1, <2>2
<1>6. /\ index' \in [ID -> Int] /\ index'[out] = -1
      /\ \A n \in ID : n # out => index'[n] = IF n = mover THEN i ELSE index[n]
  BY <1>1, <1>2
<1> HIDE DEF last, out, mover
<1>7. DOMAIN staticPool' = 1..(last - 1) /\ DOMAIN staticPool = 1..last
  BY <1>1, <1>3 DEF last
<1>8. index[out] = i /\ index[mover] = last - 1
  BY <1>1, <1>4 DEF out, mover
<1>9. ASSUME NEW j \in 1..(last - 1)
      PROVE  /\ index'[staticPool'[j]] = j - 1
             /\ \E k \in 1..last : staticPool'[j] = staticPool[k]
             /\ staticPool'[j] # out
  <2>1. CASE j = i + 1
    <3>1. staticPool'[j] = mover /\ mover # out
      BY <1>1, <1>3, <1>8, <2>1
    <3>2. mover = staticPool[last] /\ last \in 1..last
      BY <1>1 DEF mover
    <3> QED
      BY <1>1, <1>6, <2>1, <3>1, <3>2
  <2>2. CASE j # i + 1
    <3>0. j \in 1..last
      BY <1>1
    <3>1. staticPool'[j] = staticPool[j] /\ index[staticPool[j]] = j - 1 /\ staticPool[j] \in ID
      BY <1>3, <1>4, <2>2, <3>0, Zenon
    <3>2. staticPool[j] # out /\ staticPool[j] # mover
      BY <1>1, <1>8, <2>2, <3>1
    <3> QED
      BY <1>1, <1>6, <3>1, <3>2
  <2> QED
    BY <2>1, <2>2, Zenon
<1>10. ASSUME NEW n \in ID, index'[n] >= 0
       PROVE  /\ index[n] >= 0 /\ n # out
              /\ index'[n] < last - 1 /\ staticPool'[index'[n] + 1] = n
  <2>1. n # out
    BY <1>6, <1>10
  <2>2. CASE n = mover
    <3>1. index'[n] = i /\ i # last - 1 /\ index[n] = last - 1
      BY <1>1, <1>6, <1>8, <2>1, <2>2 DEF out, mover
    <3>2. i + 1 \in 1..(last - 1)
      BY <1>1, <3>1
    <3> QED
      BY <1>1, <1>3, <2>1, <2>2, <3>1, <3>2
  <2>3. CASE n # mover
    <3>1. index'[n] = index[n] /\ index[n] + 1 \in 1..last /\ staticPool[index[n] + 1] = n
      BY <1>5, <1>6, <1>10, <2>1, <2>3, Zenon
    <3>2. index[n] + 1 # i + 1 /\ index[n] + 1 # last
      BY <2>1, <2>3, <3>1, Zenon DEF out, mover
    <3>3. index[n] + 1 \in 1..(last - 1)
      BY <1>1, <3>1, <3>2
    <3>4. staticPool'[index[n] + 1] = staticPool[index[n] + 1]
      BY <1>3, <3>2, <3>3, Zenon
    <3>5. index[n] < last - 1 /\ index[n] >= 0
      BY <1>1, <3>1, <3>3
    <3> QED
      BY <2>1, <3>1, <3>4, <3>5, Zenon
  <2> QED
    BY <2>2, <2>3, Zenon
<1> QED
  BY <1>3, <1>6, <1>7, <1>9, <1>10 DEF out
\* addToStaticPool of a task outside the pool.
LEMMA AddKeepsPool ==
  ASSUME TypeOK, PoolIndexed, NEW n \in ID, index[n] < 0, AddToPool(n)
  PROVE  /\ staticPool' \in Seq(ID) /\ index' \in [ID -> Int]
         /\ \A j \in DOMAIN staticPool' :
              /\ index'[staticPool'[j]] = j - 1
              /\ staticPool'[j] = n \/ \E k \in DOMAIN staticPool : staticPool'[j] = staticPool[k]
         /\ \A m \in ID : index'[m] >= 0 =>
              /\ index[m] >= 0 \/ m = n
              /\ index'[m] < Len(staticPool') /\ staticPool'[index'[m] + 1] = m
<1> DEFINE len == Len(staticPool)
<1>1. staticPool \in Seq(ID) /\ len \in Nat /\ index \in [ID -> Int]
  BY DEF TypeOK
<1>2. staticPool' = Append(staticPool, n) /\ index' = [index EXCEPT ![n] = len]
  BY Zenon DEF AddToPool
<1>3. /\ staticPool' \in Seq(ID) /\ Len(staticPool') = len + 1 /\ staticPool'[len + 1] = n
      /\ \A j \in 1..len : staticPool'[j] = staticPool[j]
  BY <1>1, <1>2
<1>4. DOMAIN staticPool = 1..len /\ DOMAIN staticPool' = 1..(len + 1)
  BY <1>1, <1>3
<1>5. index' \in [ID -> Int] /\ index'[n] = len /\ \A m \in ID : m # n => index'[m] = index[m]
  BY <1>1, <1>2
<1>6. \A j \in 1..len : staticPool[j] \in ID /\ index[staticPool[j]] = j - 1
  BY <1>1, <1>4 DEF PoolIndexed
<1>7. \A m \in ID : index[m] >= 0 => index[m] + 1 \in 1..len /\ staticPool[index[m] + 1] = m
  BY <1>1 DEF PoolIndexed
<1> HIDE DEF len
<1>8. ASSUME NEW j \in 1..(len + 1)
      PROVE  /\ index'[staticPool'[j]] = j - 1
             /\ staticPool'[j] = n \/ \E k \in 1..len : staticPool'[j] = staticPool[k]
  <2>1. CASE j = len + 1
    BY <1>1, <1>3, <1>5, <2>1
  <2>2. CASE j # len + 1
    <3>1. j \in 1..len
      BY <1>1, <2>2
    <3>2. staticPool'[j] = staticPool[j] /\ staticPool[j] \in ID /\ index[staticPool[j]] = j - 1
      BY <1>3, <1>6, <3>1, Zenon
    <3>3. staticPool[j] # n
      BY <3>1, <3>2
    <3> QED
      BY <1>5, <3>1, <3>2, <3>3, Zenon
  <2> QED
    BY <2>1, <2>2, Zenon
<1>9. ASSUME NEW m \in ID, index'[m] >= 0
      PROVE  /\ index[m] >= 0 \/ m = n
             /\ index'[m] < len + 1 /\ staticPool'[index'[m] + 1] = m
  <2>1. CASE m = n
    BY <1>1, <1>3, <1>5, <2>1
  <2>2. CASE m # n
    <3>1. index'[m] = index[m] /\ index[m] >= 0 /\ index[m] + 1 \in 1..len
          /\ staticPool[index[m] + 1] = m
      BY <1>5, <1>7, <1>9, <2>2, Zenon
    <3>2. staticPool'[index[m] + 1] = staticPool[index[m] + 1]
      BY <1>3, <3>1, Zenon
    <3> QED
      BY <1>1, <3>1, <3>2
  <2> QED
    BY <2>1, <2>2, Zenon
<1> QED
  BY <1>3, <1>4, <1>5, <1>8, <1>9, Zenon

\* In a pool whose indices are right, the index of a task outside is negative.
LEMMA OutsidePool ==
  ASSUME TypeOK, PoolIndexed, NEW n \in ID, n \notin static
  PROVE  index[n] < 0
<1>1. index[n] \in Int /\ staticPool \in Seq(ID)
  BY Zenon DEF TypeOK
<1>2. SUFFICES ASSUME index[n] >= 0 PROVE FALSE
  BY <1>1
<1>3. index[n] + 1 \in DOMAIN staticPool /\ staticPool[index[n] + 1] = n
  BY <1>1, <1>2 DEF PoolIndexed
<1> QED
  BY <1>3, Zenon DEF PoolIndexed

-----------------------------------------------------------------------------
(* Types and the pool, one step per action.                                *)

\* startDial.
LEMMA StartDialTypes ==
  ASSUME TypeOK, NEW n \in ID, StartDial(n)
  PROVE  history' \in [ID -> Nat] /\ dialing' \subseteq ID /\ task' \in [ID -> Nat]
BY DEF TypeOK, StartDial

\* No step changes the type of a variable.
LEMMA NextType == TypeOK /\ PoolIndexed /\ [Next]_vars => TypeOK'
<1> SUFFICES ASSUME TypeOK, PoolIndexed, [Next]_vars PROVE TypeOK'
  BY Zenon
<1> USE DialAssumption
<1>0. Cardinality(dialing) \in Nat
  BY FS_Subset, FS_CardinalityType, Zenon DEF TypeOK
<1>1. CASE FreeDialSlots
  <2>1. slots' \in Int /\ lpc' \in LoopStates
    BY <1>0, <1>1 DEF TypeOK, FreeDialSlots, LoopStates
  <2> QED
    BY <1>1, <2>1, Zenon DEF TypeOK, FreeDialSlots, peerVars, poolVars
<1>2. CASE StartStaticDial
  <2>1. PICK i \in DOMAIN staticPool : StartDial(staticPool[i]) /\ RemoveFromPool(i - 1)
    BY <1>2, Zenon DEF StartStaticDial
  <2>2. i - 1 \in Nat /\ i - 1 < Len(staticPool) /\ staticPool[i] \in ID
    <3>1. staticPool \in Seq(ID)
      BY Zenon DEF TypeOK
    <3> QED
      BY <3>1
  <2>3. staticPool' \in Seq(ID) /\ index' \in [ID -> Int]
    BY <2>1, <2>2, RemoveKeepsPool, Zenon
  <2>4. history' \in [ID -> Nat] /\ dialing' \subseteq ID /\ task' \in [ID -> Nat]
    BY <2>1, <2>2, StartDialTypes, Zenon
  <2>5. slots' = slots - 1
        /\ UNCHANGED <<lpc, node, left, checked, peers, dialPeers, static, timer, cancelled>>
    BY <1>2, Zenon DEF StartStaticDial, peerVars
  <2>6. lpc \in LoopStates /\ slots' \in Int
    BY <2>5 DEF TypeOK
  <2> QED
    BY <2>3, <2>4, <2>5, <2>6, Zenon DEF TypeOK
<1>3. CASE RearmHistoryTimer
  BY <1>3 DEF TypeOK, RearmHistoryTimer, LoopStates, peerVars, poolVars
<1>4. CASE StartDynamicDial
  BY <1>4 DEF TypeOK, StartDynamicDial, StartDial, ToTop, LoopStates, peerVars, poolVars
<1>5. CASE UpdateStaticPool
  <2>1. PICK n \in node : IF n \in static /\ index[n] < 0 /\ CheckDial(n)
                          THEN AddToPool(n) ELSE UNCHANGED <<staticPool, index>>
    BY <1>5, Zenon DEF UpdateStaticPool
  <2>2. staticPool' \in Seq(ID) /\ index' \in [ID -> Int]
    <3>1. n \in ID
      BY Zenon DEF TypeOK
    <3>2. CASE index[n] < 0 /\ AddToPool(n)
      BY <3>1, <3>2, AddKeepsPool, Zenon
    <3>3. CASE UNCHANGED <<staticPool, index>>
      BY <3>3, Zenon DEF TypeOK
    <3> QED
      BY <2>1, <3>2, <3>3, Zenon
  <2>3. lpc' \in LoopStates /\ node' \subseteq ID
    BY <1>5, Zenon DEF TypeOK, UpdateStaticPool, ToTop, LoopStates
  <2>4. /\ slots' = 0
        /\ UNCHANGED <<left, checked, dialing, task, peers, dialPeers, static, history, timer,
                       cancelled>>
    BY <1>5, Zenon DEF UpdateStaticPool, ToTop, peerVars
  <2> QED
    BY <2>2, <2>3, <2>4 DEF TypeOK
<1>6. CASE LoopEnds
  BY <1>6, Zenon DEF TypeOK, LoopEnds, LoopStates, peerVars, poolVars
<1>7. CASE ExpireHistory
  <2>1. history' \in [ID -> Nat] /\ lpc' \in {"top", "stuck"}
    BY <1>7 DEF TypeOK, ExpireHistory
  <2>2. /\ slots' = 0 /\ timer' \in BOOLEAN
        /\ UNCHANGED <<node, left, checked, dialing, task, peers, dialPeers, static,
                        staticPool, index, cancelled>>
    BY <1>7, Zenon DEF ExpireHistory, peerVars, poolVars
  <2> QED
    BY <2>1, <2>2 DEF TypeOK, LoopStates
<1>8. CASE LoopCancelled
  <2>1. timer' \in BOOLEAN
    BY <1>8, Zenon DEF LoopCancelled
  <2>2. /\ slots' = 0 /\ lpc' = "drain" /\ left' = Cardinality(dialing)
        /\ UNCHANGED <<node, checked, dialing, task, peers, dialPeers, static,
                        staticPool, index, history, cancelled>>
    BY <1>8, Zenon DEF LoopCancelled, peerVars, poolVars
  <2> QED
    BY <1>0, <2>1, <2>2 DEF TypeOK, LoopStates
<1>9. CASE Stop
  BY <1>9, Zenon DEF TypeOK, Stop, loopVars, peerVars, poolVars
<1>10. CASE StartChecked
  BY <1>10 DEF TypeOK, StartChecked, StartDial, loopVars, peerVars, poolVars
<1>11. ASSUME NEW n \in ID, NodeIn(n) PROVE TypeOK'
  BY <1>11 DEF TypeOK, NodeIn, ToTop, LoopStates, peerVars, poolVars
<1>12. ASSUME NEW n \in ID, TaskDone(n) PROVE TypeOK'
  BY <1>12 DEF TypeOK, TaskDone, LoopStates, peerVars, poolVars
<1>13. ASSUME NEW n \in ID, Drain(n) PROVE TypeOK'
  BY <1>13 DEF TypeOK, Drain, LoopStates, peerVars, poolVars
<1>14. ASSUME NEW n \in ID, NEW how \in {"dialed", "inbound"}, PeerAdded(n, how)
       PROVE  TypeOK'
  <2>1. staticPool' \in Seq(ID) /\ index' \in [ID -> Int]
    <3>1. CASE index[n] >= 0 /\ RemoveFromPool(index[n])
      <4>1. index[n] \in Nat /\ index[n] < Len(staticPool)
        BY <3>1 DEF TypeOK, PoolIndexed
      <4> QED
        BY <3>1, <4>1, RemoveKeepsPool, Zenon
    <3>2. CASE UNCHANGED <<staticPool, index>>
      BY <3>2, Zenon DEF TypeOK
    <3> QED
      BY <1>14, <3>1, <3>2, Zenon DEF PeerAdded
  <2> QED
    <3>1. /\ peers' = [peers EXCEPT ![n] = how] /\ dialPeers' \in Int
          /\ lpc' = "top" /\ slots' = 0 /\ node' = {}
          /\ UNCHANGED <<left, checked, dialing, task, static, history, timer, cancelled>>
      BY <1>14 DEF TypeOK, PeerAdded, ToTop
    <3> QED
      BY <2>1, <3>1 DEF TypeOK, LoopStates
<1>15. ASSUME NEW n \in ID, PeerRemoved(n) PROVE TypeOK'
  BY <1>15 DEF TypeOK, PeerRemoved, LoopStates, poolVars
<1>16. ASSUME NEW n \in ID, AddStatic(n) PROVE TypeOK'
  <2>1. staticPool' \in Seq(ID) /\ index' \in [ID -> Int]
    <3>1. CASE n \notin static /\ AddToPool(n)
      BY <3>1, OutsidePool, AddKeepsPool, Zenon
    <3>2. CASE UNCHANGED <<staticPool, index>>
      BY <3>2, Zenon DEF TypeOK
    <3> QED
      BY <1>16, <3>1, <3>2, Zenon DEF AddStatic
  <2> QED
    <3>1. /\ static' = static \cup {n}
          /\ lpc' = "top" /\ slots' = 0 /\ node' = {}
          /\ UNCHANGED <<left, checked, dialing, task, peers, dialPeers, history, timer, cancelled>>
      BY <1>16, Zenon DEF AddStatic, ToTop, peerVars
    <3> QED
      BY <2>1, <3>1 DEF TypeOK, LoopStates
<1>17. ASSUME NEW n \in ID, RemoveStatic(n) PROVE TypeOK'
  <2>1. staticPool' \in Seq(ID) /\ index' \in [ID -> Int]
    <3>1. CASE index[n] >= 0 /\ RemoveFromPool(index[n])
      <4>1. index[n] \in Nat /\ index[n] < Len(staticPool)
        BY <3>1 DEF TypeOK, PoolIndexed
      <4> QED
        BY <3>1, <4>1, RemoveKeepsPool, Zenon
    <3>2. CASE UNCHANGED <<staticPool, index>>
      BY <3>2, Zenon DEF TypeOK
    <3> QED
      BY <1>17, <3>1, <3>2, Zenon DEF RemoveStatic
  <2> QED
    BY <1>17, <2>1 DEF TypeOK, RemoveStatic, ToTop, LoopStates, peerVars
<1>18. ASSUME NEW n \in ID, StartDialEnode(n) PROVE TypeOK'
  BY <1>18, Zenon DEF TypeOK, StartDialEnode, loopVars, peerVars, poolVars
<1>19. CASE UNCHANGED vars
  BY <1>19, Zenon DEF TypeOK, vars, loopVars, peerVars, poolVars
<1> QED
  BY <1>1, <1>2, <1>3, <1>4, <1>5, <1>6, <1>7, <1>8, <1>9, <1>10, <1>11, <1>12, <1>13,
     <1>14, <1>15, <1>16, <1>17, <1>18, <1>19, Zenon DEF Next, LoopStep

\* The actions that leave the static nodes, the pool and the peers alone.
PoolQuiet == UNCHANGED <<peers, static, staticPool, index>>

\* A task leaves the pool and whatever else changes concerns that node alone.
LEMMA RemovalKeepsIndices ==
  ASSUME TypeOK, PoolIndexed, NEW i \in Nat, i < Len(staticPool), RemoveFromPool(i),
         \A m \in ID : m # staticPool[i + 1] =>
           (m \in static => m \in static') /\ (peers[m] = "none" => peers'[m] = "none")
  PROVE  PoolIndexed'
<1>1. staticPool \in Seq(ID) /\ staticPool' \in Seq(ID)
  BY RemoveKeepsPool, Zenon DEF TypeOK
<1>2. ASSUME NEW j \in DOMAIN staticPool'
      PROVE  /\ index'[staticPool'[j]] = j - 1
             /\ staticPool'[j] \in static' /\ peers'[staticPool'[j]] = "none"
  <2>1. PICK k \in DOMAIN staticPool : staticPool'[j] = staticPool[k]
    BY RemoveKeepsPool, Zenon
  <2>2. staticPool[k] \in ID /\ staticPool[k] \in static /\ peers[staticPool[k]] = "none"
    BY <1>1 DEF PoolIndexed
  <2>3. index'[staticPool'[j]] = j - 1 /\ staticPool'[j] # staticPool[i + 1]
    BY RemoveKeepsPool, Zenon
  <2> QED
    BY <2>1, <2>2, <2>3, Zenon
<1>3. \A n \in ID : index'[n] >= 0 =>
        index'[n] < Len(staticPool') /\ staticPool'[index'[n] + 1] = n
  BY RemoveKeepsPool, Zenon
<1> QED
  BY <1>2, <1>3, Zenon DEF PoolIndexed

\* A dialable static node outside the pool is added to it.
LEMMA AdditionKeepsIndices ==
  ASSUME TypeOK, PoolIndexed, NEW n \in ID, index[n] < 0, AddToPool(n), CheckDial(n),
         n \in static', static \subseteq static', peers' = peers
  PROVE  PoolIndexed'
<1>1. staticPool \in Seq(ID) /\ staticPool' \in Seq(ID)
  BY AddKeepsPool, Zenon DEF TypeOK
<1>2. ASSUME NEW j \in DOMAIN staticPool'
      PROVE  /\ index'[staticPool'[j]] = j - 1
             /\ staticPool'[j] \in static' /\ peers'[staticPool'[j]] = "none"
  <2>1. index'[staticPool'[j]] = j - 1
    BY AddKeepsPool, Zenon
  <2>2. CASE staticPool'[j] = n
    BY <2>1, <2>2, Zenon DEF CheckDial
  <2>3. ASSUME NEW k \in DOMAIN staticPool, staticPool'[j] = staticPool[k]
        PROVE  staticPool'[j] \in static' /\ peers'[staticPool'[j]] = "none"
    BY <2>3, Zenon DEF PoolIndexed
  <2> QED
    BY <2>1, <2>2, <2>3, AddKeepsPool, Zenon
<1>3. \A m \in ID : index'[m] >= 0 =>
        index'[m] < Len(staticPool') /\ staticPool'[index'[m] + 1] = m
  BY AddKeepsPool, Zenon
<1> QED
  BY <1>2, <1>3, Zenon DEF PoolIndexed

\* No step breaks the indices of the pool.
LEMMA NextPool == TypeOK /\ PoolIndexed /\ [Next]_vars => PoolIndexed'
<1> SUFFICES ASSUME TypeOK, PoolIndexed, [Next]_vars PROVE PoolIndexed'
  BY Zenon
<1>1. CASE PoolQuiet
  BY <1>1, Zenon DEF PoolIndexed, PoolQuiet
<1>2. CASE StartStaticDial
  <2>1. PICK i \in DOMAIN staticPool : RemoveFromPool(i - 1)
    BY <1>2, Zenon DEF StartStaticDial
  <2>2. i - 1 \in Nat /\ i - 1 < Len(staticPool)
    BY DEF TypeOK
  <2>3. UNCHANGED <<static, peers>>
    BY <1>2, Zenon DEF StartStaticDial, peerVars
  <2> QED
    BY <2>1, <2>2, <2>3, RemovalKeepsIndices, Zenon
<1>3. CASE UpdateStaticPool
  <2>1. PICK n \in node : IF n \in static /\ index[n] < 0 /\ CheckDial(n)
                          THEN AddToPool(n) ELSE UNCHANGED <<staticPool, index>>
    BY <1>3, Zenon DEF UpdateStaticPool
  <2>2. n \in ID /\ UNCHANGED <<static, peers>>
    BY <1>3, Zenon DEF TypeOK, UpdateStaticPool, peerVars
  <2>3. CASE n \in static /\ index[n] < 0 /\ CheckDial(n) /\ AddToPool(n)
    BY <2>2, <2>3, AdditionKeepsIndices, Zenon
  <2>4. CASE UNCHANGED <<staticPool, index>>
    BY <1>1, <2>2, <2>4, Zenon DEF PoolQuiet
  <2> QED
    BY <2>1, <2>3, <2>4, Zenon
<1>4. ASSUME NEW n \in ID, NEW how \in {"dialed", "inbound"}, PeerAdded(n, how)
      PROVE  PoolIndexed'
  <2>1. static' = static /\ peers' = [peers EXCEPT ![n] = how]
    BY <1>4, Zenon DEF PeerAdded
  <2>2. CASE index[n] >= 0 /\ RemoveFromPool(index[n])
    <3>1. index[n] \in Nat /\ index[n] < Len(staticPool) /\ staticPool[index[n] + 1] = n
      BY <2>2 DEF TypeOK, PoolIndexed
    <3>2. \A m \in ID : m # n => peers'[m] = peers[m]
      BY <2>1, Zenon DEF TypeOK
    <3> QED
      BY <2>1, <2>2, <3>1, <3>2, RemovalKeepsIndices, Zenon
  <2>3. CASE index[n] < 0 /\ UNCHANGED <<staticPool, index>>
    <3>1. \A j \in DOMAIN staticPool : staticPool[j] \in ID /\ staticPool[j] # n
      BY <2>3 DEF TypeOK, PoolIndexed
    <3> QED
      BY <2>1, <2>3, <3>1, Zenon DEF TypeOK, PoolIndexed
  <2>4. n \in static \/ index[n] < 0
    BY OutsidePool, Zenon
  <2>5. index[n] \in Int
    BY Zenon DEF TypeOK
  <2> QED
    BY <1>4, <2>2, <2>3, <2>4, <2>5 DEF PeerAdded
<1>5. ASSUME NEW n \in ID, PeerRemoved(n) PROVE PoolIndexed'
  BY <1>5, Zenon DEF PeerRemoved, TypeOK, PoolIndexed, poolVars
<1>6. ASSUME NEW n \in ID, AddStatic(n) PROVE PoolIndexed'
  <2>1. static' = static \cup {n} /\ peers' = peers
    BY <1>6, Zenon DEF AddStatic, peerVars
  <2>2. CASE n \notin static /\ CheckDial(n) /\ AddToPool(n)
    BY <2>1, <2>2, OutsidePool, AdditionKeepsIndices, Zenon
  <2>3. CASE UNCHANGED <<staticPool, index>>
    BY <2>1, <2>3, Zenon DEF PoolIndexed
  <2> QED
    BY <1>6, <2>2, <2>3, Zenon DEF AddStatic
<1>7. ASSUME NEW n \in ID, RemoveStatic(n) PROVE PoolIndexed'
  <2>1. static' = static \ {n} /\ peers' = peers
    BY <1>7, Zenon DEF RemoveStatic, peerVars
  <2>2. CASE index[n] >= 0 /\ RemoveFromPool(index[n])
    <3>1. index[n] \in Nat /\ index[n] < Len(staticPool) /\ staticPool[index[n] + 1] = n
      BY <2>2 DEF TypeOK, PoolIndexed
    <3> QED
      BY <2>1, <2>2, <3>1, RemovalKeepsIndices, Zenon
  <2>3. CASE index[n] < 0 /\ UNCHANGED <<staticPool, index>>
    <3>1. \A j \in DOMAIN staticPool : staticPool[j] # n
      BY <2>3 DEF TypeOK, PoolIndexed
    <3> QED
      BY <2>1, <2>3, <3>1, Zenon DEF PoolIndexed
  <2>4. n \in static \/ index[n] < 0
    BY OutsidePool, Zenon
  <2>5. index[n] \in Int
    BY Zenon DEF TypeOK
  <2> QED
    BY <1>7, <2>2, <2>3, <2>4, <2>5 DEF RemoveStatic
<1>8. FreeDialSlots \/ RearmHistoryTimer \/ StartDynamicDial \/ LoopEnds \/ ExpireHistory
      \/ LoopCancelled \/ Stop \/ StartChecked \/ UNCHANGED vars => PoolQuiet
  BY Zenon DEF FreeDialSlots, RearmHistoryTimer, StartDynamicDial, LoopEnds, ExpireHistory,
         LoopCancelled, Stop, StartChecked, vars, peerVars, poolVars, PoolQuiet
<1>9. \A n \in ID : NodeIn(n) \/ TaskDone(n) \/ Drain(n) \/ StartDialEnode(n) => PoolQuiet
  BY Zenon DEF NodeIn, TaskDone, Drain, StartDialEnode, peerVars, poolVars, PoolQuiet
<1> QED
  BY <1>1, <1>2, <1>3, <1>4, <1>5, <1>6, <1>7, <1>8, <1>9, Zenon DEF Next, LoopStep

-----------------------------------------------------------------------------
(* Entries and tasks, and the number of dials.                             *)

\* startDial adds the entry together with its task.
LEMMA StartKeepsEntries ==
  ASSUME TypeOK, \A m \in dialing : task[m] > 0, NEW n \in ID, StartDial(n)
  PROVE  \A m \in dialing' : task'[m] > 0
BY DEF TypeOK, StartDial

\* No step leaves an entry of dialing without a task.
LEMMA NextEntries == TypeOK /\ EntryHasTask /\ [Next]_vars => EntryHasTask'
<1> SUFFICES ASSUME TypeOK, EntryHasTask, [Next]_vars, lpc' \notin {"drain", "end"}
             PROVE  \A m \in dialing' : task'[m] > 0
  BY Zenon DEF EntryHasTask
<1>1. CASE UNCHANGED <<dialing, task>> /\ lpc \notin {"drain", "end"}
  BY <1>1, Zenon DEF EntryHasTask
<1>2. CASE StartStaticDial
  <2>1. PICK i \in DOMAIN staticPool : StartDial(staticPool[i])
    BY <1>2, Zenon DEF StartStaticDial
  <2>2. staticPool[i] \in ID /\ \A m \in dialing : task[m] > 0
    BY <1>2 DEF TypeOK, StartStaticDial, EntryHasTask
  <2> QED
    BY <2>1, <2>2, StartKeepsEntries, Zenon
<1>3. CASE StartDynamicDial
  <2>1. PICK n \in node : StartDial(n)
    BY <1>3, Zenon DEF StartDynamicDial
  <2>2. n \in ID /\ \A m \in dialing : task[m] > 0
    BY <1>3, Zenon DEF TypeOK, StartDynamicDial, EntryHasTask
  <2> QED
    BY <2>1, <2>2, StartKeepsEntries, Zenon
<1>4. CASE StartChecked
  <2>1. PICK n \in checked : StartDial(n)
    BY <1>4, Zenon DEF StartChecked
  <2>2. n \in ID /\ \A m \in dialing : task[m] > 0
    BY <1>4, Zenon DEF TypeOK, StartChecked, EntryHasTask, loopVars
  <2> QED
    BY <2>1, <2>2, StartKeepsEntries, Zenon
<1>5. ASSUME NEW n \in ID, TaskDone(n) PROVE \A m \in dialing' : task'[m] > 0
  BY <1>5, Zenon DEF TypeOK, EntryHasTask, TaskDone
<1>6. FreeDialSlots \/ RearmHistoryTimer \/ UpdateStaticPool \/ ExpireHistory \/ Stop
      \/ UNCHANGED vars => UNCHANGED <<dialing, task>> /\ lpc \notin {"drain", "end"}
  BY Zenon DEF FreeDialSlots, RearmHistoryTimer, UpdateStaticPool, ExpireHistory, Stop, vars,
     loopVars
<1>7. \A n \in ID :
        NodeIn(n) \/ PeerRemoved(n) \/ AddStatic(n) \/ RemoveStatic(n) \/ StartDialEnode(n)
        \/ (\E how \in {"dialed", "inbound"} : PeerAdded(n, how))
        => UNCHANGED <<dialing, task>> /\ lpc \notin {"drain", "end"}
  BY Zenon DEF NodeIn, PeerRemoved, AddStatic, RemoveStatic, StartDialEnode, PeerAdded, loopVars
<1>8. ~LoopEnds /\ ~LoopCancelled /\ \A n \in ID : ~Drain(n)
  BY Zenon DEF LoopEnds, LoopCancelled, Drain
<1> QED
  BY <1>1, <1>2, <1>3, <1>4, <1>5, <1>6, <1>7, <1>8, Zenon DEF Next, LoopStep

\* loop waits for dynamic nodes only when its pool is empty, and the pool stays
\* empty until it goes on.
LEMMA NextEmpty == TypeOK /\ PoolEmptyForDynamic /\ [Next]_vars => PoolEmptyForDynamic'
<1> SUFFICES ASSUME TypeOK, PoolEmptyForDynamic, [Next]_vars PROVE PoolEmptyForDynamic'
  BY Zenon
<1>1. CASE UNCHANGED <<lpc, slots, staticPool>>
  BY <1>1, Zenon DEF PoolEmptyForDynamic
<1>2. CASE lpc' \notin {"select", "dynamic"} \/ (lpc' = "select" /\ ~(slots' > 0))
  BY <1>2, Zenon DEF PoolEmptyForDynamic
<1>3. CASE RearmHistoryTimer
  BY <1>3 DEF TypeOK, RearmHistoryTimer, PoolEmptyForDynamic, poolVars
<1>4. ASSUME NEW n \in ID, NodeIn(n) PROVE PoolEmptyForDynamic'
  BY <1>4, Zenon DEF NodeIn, ToTop, PoolEmptyForDynamic, poolVars
<1>5. FreeDialSlots \/ StartStaticDial \/ StartDynamicDial \/ UpdateStaticPool \/ LoopEnds
      \/ ExpireHistory \/ LoopCancelled => lpc' \notin {"select", "dynamic"}
  BY Zenon DEF FreeDialSlots, StartStaticDial, StartDynamicDial, UpdateStaticPool, LoopEnds,
         ExpireHistory, LoopCancelled, ToTop
<1>6. Stop \/ StartChecked \/ UNCHANGED vars => UNCHANGED <<lpc, slots, staticPool>>
  BY Zenon DEF Stop, StartChecked, vars, loopVars, poolVars
<1>7. \A n \in ID :
        TaskDone(n) \/ Drain(n) \/ PeerRemoved(n) \/ AddStatic(n) \/ RemoveStatic(n)
        \/ (\E how \in {"dialed", "inbound"} : PeerAdded(n, how))
        => lpc' \notin {"select", "dynamic"}
  BY Zenon DEF TaskDone, Drain, PeerRemoved, AddStatic, RemoveStatic, PeerAdded, ToTop
<1>8. \A n \in ID : StartDialEnode(n) => UNCHANGED <<lpc, slots, staticPool>>
  BY Zenon DEF StartDialEnode, loopVars, poolVars
<1> QED
  BY <1>1, <1>2, <1>3, <1>4, <1>5, <1>6, <1>7, <1>8, Zenon DEF Next, LoopStep

\* The dials of n: in history, checked by ManagerLoop, due in loop.
Dials(n) ==
  history[n] + (IF n \in checked THEN 1 ELSE 0) + (IF DueInLoop(n) THEN 1 ELSE 0)

\* Where one of the three falls and none other rises, the bound stays.
LEMMA DialsOfOne ==
  ASSUME TypeOK, TypeOK', DialsBounded, NEW n \in ID,
         \/ /\ history'[n] <= history[n]
            /\ n \in checked' => n \in checked
            /\ DueInLoop(n)' => DueInLoop(n)
         \/ history[n] = 0 /\ history'[n] = 0
         \/ /\ history'[n] = history[n] + 1
            /\ \/ n \in checked /\ n \notin checked' /\ (DueInLoop(n)' => DueInLoop(n))
               \/ DueInLoop(n) /\ ~DueInLoop(n)' /\ (n \in checked' => n \in checked)
  PROVE  Dials(n)' <= 2
<1>1. history[n] \in Nat /\ history'[n] \in Nat /\ Dials(n) <= 2
  BY Zenon DEF TypeOK, DialsBounded, Dials
<1> QED
  BY <1>1 DEF Dials

\* No step lets a third dial of a node begin before its history is empty.
LEMMA NextBound ==
  DialInv /\ [Next]_vars => DialsBounded'
<1> SUFFICES ASSUME DialInv, [Next]_vars, NEW m \in ID PROVE Dials(m)' <= 2
  BY Zenon DEF DialsBounded, Dials
<1>0. TypeOK /\ TypeOK' /\ PoolIndexed /\ PoolEmptyForDynamic /\ DialsBounded
  BY NextType, Zenon DEF DialInv
<1> DEFINE Falls == /\ history'[m] <= history[m]
                    /\ m \in checked' => m \in checked
                    /\ DueInLoop(m)' => DueInLoop(m)
<1>1. CASE Falls
  BY <1>0, <1>1, DialsOfOne, Zenon
<1>2. history[m] \in Nat /\ index[m] \in Int /\ index'[m] \in Int
  BY <1>0, Zenon DEF TypeOK
<1>3. CASE UNCHANGED <<lpc, node, checked, index>> /\ history' = history
  BY <1>1, <1>2, <1>3 DEF DueInLoop
<1>4. CASE lpc' # "dynamic" /\ UNCHANGED <<checked, index>> /\ history'[m] <= history[m]
  BY <1>1, <1>4, Zenon DEF DueInLoop
<1>5. CASE StartStaticDial
  <2>1. PICK i \in DOMAIN staticPool : StartDial(staticPool[i]) /\ RemoveFromPool(i - 1)
    BY <1>5, Zenon DEF StartStaticDial
  <2>2. i - 1 \in Nat /\ i - 1 < Len(staticPool) /\ i - 1 + 1 = i /\ staticPool[i] \in ID
    <3>1. staticPool \in Seq(ID)
      BY <1>0, Zenon DEF TypeOK
    <3> QED
      BY <3>1
  <2>3. lpc' # "dynamic" /\ checked' = checked
    BY <1>5, Zenon DEF StartStaticDial
  <2>4. index'[m] >= 0 => index[m] >= 0 /\ m # staticPool[i]
    BY <1>0, <2>1, <2>2, RemoveKeepsPool, Zenon
  <2>5. CASE m = staticPool[i]
    <3>1. index[m] >= 0
      BY <1>0, <2>2, <2>5 DEF PoolIndexed
    <3>2. history'[m] = history[m] + 1
      BY <1>0, <2>1, <2>5, Zenon DEF TypeOK, StartDial
    <3> QED
      BY <1>0, <2>3, <2>4, <2>5, <3>1, <3>2, DialsOfOne, Zenon DEF DueInLoop
  <2>6. CASE m # staticPool[i]
    <3>1. history'[m] = history[m]
      BY <1>0, <2>1, <2>6, Zenon DEF TypeOK, StartDial
    <3> QED
      BY <1>1, <1>2, <2>3, <2>4, <3>1 DEF DueInLoop
  <2> QED
    BY <2>5, <2>6, Zenon
<1>6. CASE StartDynamicDial
  <2>1. PICK n \in node : StartDial(n)
    BY <1>6, Zenon DEF StartDynamicDial
  <2>2. lpc = "dynamic" /\ lpc' = "top" /\ checked' = checked /\ index' = index
        /\ staticPool = <<>>
    BY <1>0, <1>6, Zenon DEF StartDynamicDial, ToTop, poolVars, PoolEmptyForDynamic
  <2>3. ~(index[m] >= 0)
    BY <1>0, <1>2, <2>2 DEF PoolIndexed
  <2>4. CASE m = n
    <3>1. history'[m] = history[m] + 1
      BY <1>0, <2>1, <2>4, Zenon DEF TypeOK, StartDial
    <3> QED
      BY <1>0, <2>2, <2>3, <2>4, <3>1, DialsOfOne, Zenon DEF DueInLoop
  <2>5. CASE m # n
    <3>1. history'[m] = history[m]
      BY <1>0, <2>1, <2>5, Zenon DEF TypeOK, StartDial
    <3> QED
      BY <1>1, <1>2, <2>2, <3>1 DEF DueInLoop
  <2> QED
    BY <2>4, <2>5, Zenon
<1>7. CASE StartChecked
  <2>1. PICK n \in checked : StartDial(n)
    BY <1>7, Zenon DEF StartChecked
  <2>2. checked' = {} /\ UNCHANGED <<lpc, node, index>>
    BY <1>7, Zenon DEF StartChecked, loopVars, poolVars
  <2>3. CASE m = n
    <3>1. history'[m] = history[m] + 1
      BY <1>0, <2>1, <2>3, Zenon DEF TypeOK, StartDial
    <3> QED
      BY <1>0, <2>2, <2>3, <3>1, DialsOfOne, Zenon DEF DueInLoop
  <2>4. CASE m # n
    <3>1. history'[m] = history[m]
      BY <1>0, <2>1, <2>4, Zenon DEF TypeOK, StartDial
    <3> QED
      BY <1>1, <1>2, <2>2, <3>1 DEF DueInLoop
  <2> QED
    BY <2>3, <2>4, Zenon
<1>8. CASE ExpireHistory
  <2>1. history'[m] <= history[m]
    <3>1. PICK out \in SUBSET ID :
            history' = [n \in ID |-> IF n \in out THEN history[n] - 1 ELSE history[n]]
      BY <1>8, Zenon DEF ExpireHistory
    <3> QED
      BY <1>2, <3>1
  <2>2. lpc' # "dynamic" /\ UNCHANGED <<checked, index>>
    BY <1>8, Zenon DEF ExpireHistory, poolVars
  <2> QED
    BY <1>4, <2>1, <2>2, Zenon
<1>9. CASE UpdateStaticPool
  <2>1. PICK n \in node : IF n \in static /\ index[n] < 0 /\ CheckDial(n)
                          THEN AddToPool(n) ELSE UNCHANGED <<staticPool, index>>
    BY <1>9, Zenon DEF UpdateStaticPool
  <2>2. lpc' # "dynamic" /\ checked' = checked /\ history' = history /\ n \in ID
    BY <1>0, <1>9, Zenon DEF TypeOK, UpdateStaticPool, ToTop
  <2>3. CASE index[n] < 0 /\ CheckDial(n) /\ AddToPool(n)
    <3>1. CASE m = n
      BY <1>0, <2>2, <2>3, <3>1, DialsOfOne, Zenon DEF CheckDial
    <3>2. CASE m # n
      <4>1. index'[m] = index[m]
        BY <1>0, <2>3, <3>2, Zenon DEF TypeOK, AddToPool
      <4> QED
        BY <1>1, <1>2, <2>2, <4>1 DEF DueInLoop
    <3> QED
      BY <3>1, <3>2, Zenon
  <2>4. CASE UNCHANGED <<staticPool, index>>
    BY <1>2, <1>4, <2>2, <2>4
  <2> QED
    BY <2>1, <2>3, <2>4, Zenon
<1>10. ASSUME NEW n \in ID, NodeIn(n) PROVE Dials(m)' <= 2
  <2>1. checked' = checked /\ index' = index /\ history' = history
    BY <1>10, Zenon DEF NodeIn, poolVars
  <2>2. CASE CheckDial(n) /\ m = n
    BY <1>0, <2>1, <2>2, DialsOfOne, Zenon DEF CheckDial
  <2>3. CASE ~CheckDial(n) \/ m # n
    <3>1. ~(lpc' = "dynamic" /\ m \in node')
      BY <1>10, <2>3, Zenon DEF NodeIn, ToTop
    <3> QED
      BY <1>1, <1>2, <2>1, <3>1 DEF DueInLoop
  <2> QED
    BY <2>2, <2>3, Zenon
<1>11. ASSUME NEW n \in ID, StartDialEnode(n) PROVE Dials(m)' <= 2
  <2>1. UNCHANGED <<lpc, node, index, history>> /\ checked' = {n} /\ CheckDial(n)
    BY <1>11, Zenon DEF StartDialEnode, loopVars, poolVars
  <2>2. CASE m = n
    BY <1>0, <2>1, <2>2, DialsOfOne, Zenon DEF CheckDial
  <2>3. CASE m # n
    BY <1>1, <1>2, <2>1, <2>3 DEF DueInLoop
  <2> QED
    BY <2>2, <2>3, Zenon
<1>12. ASSUME NEW n \in ID, AddStatic(n) PROVE Dials(m)' <= 2
  <2>1. lpc' # "dynamic" /\ checked' = checked /\ history' = history
    BY <1>12, Zenon DEF AddStatic, ToTop
  <2>2. CASE CheckDial(n) /\ AddToPool(n)
    <3>1. CASE m = n
      BY <1>0, <2>1, <2>2, <3>1, DialsOfOne, Zenon DEF CheckDial
    <3>2. CASE m # n
      <4>1. index'[m] = index[m]
        BY <1>0, <2>2, <3>2, Zenon DEF TypeOK, AddToPool
      <4> QED
        BY <1>1, <1>2, <2>1, <4>1 DEF DueInLoop
    <3> QED
      BY <3>1, <3>2, Zenon
  <2>3. CASE UNCHANGED <<staticPool, index>>
    BY <1>2, <1>4, <2>1, <2>3
  <2> QED
    BY <1>12, <2>2, <2>3, Zenon DEF AddStatic
<1>13. ASSUME NEW n \in ID, UNCHANGED <<checked, history>>, lpc' # "dynamic",
              \/ index[n] >= 0 /\ RemoveFromPool(index[n])
              \/ UNCHANGED <<staticPool, index>>
       PROVE  Dials(m)' <= 2
  <2>1. CASE index[n] >= 0 /\ RemoveFromPool(index[n])
    <3>1. index[n] \in Nat /\ index[n] < Len(staticPool)
      BY <1>0, <2>1 DEF TypeOK, PoolIndexed
    <3>2. index'[m] >= 0 => index[m] >= 0
      BY <1>0, <2>1, <3>1, RemoveKeepsPool, Zenon
    <3> QED
      BY <1>1, <1>2, <1>13, <3>2 DEF DueInLoop
  <2>2. CASE UNCHANGED <<staticPool, index>>
    BY <1>2, <1>4, <1>13, <2>2
  <2> QED
    BY <1>13, <2>1, <2>2, Zenon
<1>14. ASSUME NEW n \in ID, RemoveStatic(n) PROVE Dials(m)' <= 2
  BY <1>13, <1>14, Zenon DEF RemoveStatic, ToTop
<1>15. ASSUME NEW n \in ID, NEW how \in {"dialed", "inbound"}, PeerAdded(n, how)
       PROVE  Dials(m)' <= 2
  BY <1>13, <1>15, Zenon DEF PeerAdded, ToTop
<1>16. FreeDialSlots \/ RearmHistoryTimer \/ LoopEnds \/ LoopCancelled
       => lpc' # "dynamic" /\ UNCHANGED <<checked, index, history>>
  BY Zenon DEF FreeDialSlots, RearmHistoryTimer, LoopEnds, LoopCancelled, poolVars
<1>17. \A n \in ID : TaskDone(n) \/ Drain(n) \/ PeerRemoved(n)
       => lpc' # "dynamic" /\ UNCHANGED <<checked, index, history>>
  BY Zenon DEF TaskDone, Drain, PeerRemoved, poolVars
<1>18. Stop \/ UNCHANGED vars => UNCHANGED <<lpc, node, checked, index, history>>
  BY Zenon DEF Stop, vars, loopVars, poolVars
<1>19. CASE lpc' # "dynamic" /\ UNCHANGED <<checked, index, history>>
  BY <1>2, <1>4, <1>19
<1> QED
  BY <1>3, <1>5, <1>6, <1>7, <1>8, <1>9, <1>10, <1>11, <1>12, <1>14, <1>15, <1>16,
     <1>17, <1>18, <1>19, Zenon DEF Next, LoopStep

-----------------------------------------------------------------------------
\* The inductive invariant.
LEMMA DialInvariant == Spec => []DialInv
<1>1. Init => DialInv
  <2> SUFFICES ASSUME Init PROVE DialInv
    BY Zenon
  <2>0. timer \in BOOLEAN /\ cancelled \in BOOLEAN
    BY Zenon DEF Init
  <2>1. TypeOK
    BY <2>0 DEF Init, TypeOK, LoopStates
  <2>2. PoolIndexed /\ EntryHasTask /\ PoolEmptyForDynamic
    BY DEF Init, PoolIndexed, EntryHasTask, PoolEmptyForDynamic
  <2>3. DialsBounded
    BY DEF Init, DialsBounded, DueInLoop
  <2> QED
    BY <2>1, <2>2, <2>3, Zenon DEF DialInv
<1>2. DialInv /\ [Next]_vars => DialInv'
  <2> SUFFICES ASSUME DialInv, [Next]_vars PROVE DialInv'
    BY Zenon
  <2>1. TypeOK' /\ PoolIndexed' /\ EntryHasTask' /\ PoolEmptyForDynamic' /\ DialsBounded'
    BY NextType, NextPool, NextEntries, NextEmpty, NextBound, Zenon DEF DialInv
  <2> QED
    BY <2>1, Zenon DEF DialInv
<1> QED
  BY <1>1, <1>2, PTL DEF Spec

\* Every variable of the dial scheduler model keeps its type.
THEOREM TypeCorrect == Spec => []TypeOK
BY DialInvariant, PTL DEF DialInv

\* removeFromStaticPool and updateStaticPool keep every staticPoolIndex right, for
\* any number of static nodes.
THEOREM PoolIndices == Spec => []PoolIndexed
BY DialInvariant, PTL DEF DialInv

\* Every entry of d.dialing has a running task until the final loop.
THEOREM EntriesHaveTasks == Spec => []EntryHasTask
BY DialInvariant, PTL DEF DialInv

\* No node has more than two entries in d.history.
THEOREM HistoryBound == Spec => []HistoryBounded
<1>1. DialInv => HistoryBounded
  <2> SUFFICES ASSUME DialInv, NEW n \in ID PROVE history[n] <= 2
    BY Zenon DEF HistoryBounded
  <2>1. history[n] \in Nat
    BY Zenon DEF DialInv, TypeOK
  <2>2. history[n] + (IF n \in checked THEN 1 ELSE 0) + (IF DueInLoop(n) THEN 1 ELSE 0) <= 2
    BY Zenon DEF DialInv, DialsBounded
  <2> QED
    BY <2>1, <2>2
<1> QED
  BY <1>1, DialInvariant, PTL

=============================================================================
