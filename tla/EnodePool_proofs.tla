-------------------------- MODULE EnodePool_proofs --------------------------
(***************************************************************************)
(* Proofs about EnodePool: its types and the two limits on dials, for any  *)
(* set of endpoints and any number of crawlers.                            *)
(***************************************************************************)
EXTENDS EnodePool, FiniteSetTheorems, TLAPS

\* No step changes the type of a variable.
LEMMA NextType == TypeOK /\ [Next]_vars => TypeOK'
<1> SUFFICES ASSUME TypeOK, [Next]_vars PROVE TypeOK'
  BY Zenon
<1> USE EnodePoolAssumption DEF TypeOK, poolVars, mgrVars, crawlVars, ManagerStates,
        CrawlStates, Stages
<1>1. CASE CheckPeers
  BY <1>1, Zenon DEF CheckPeers
<1>2. CASE CheckDialing
  BY <1>2, Zenon DEF CheckDialing
<1>3. CASE PickForDail
  BY <1>3 DEF PickForDail
<1>4. CASE PickHistory
  BY <1>4, Zenon DEF PickHistory
<1>5. CASE StartDialEnode
  BY <1>5, Zenon DEF StartDialEnode
<1>6. CASE ScanHistory
  BY <1>6, Zenon DEF ScanHistory
<1>7. CASE ExitWatcher
  BY <1>7, Zenon DEF ExitWatcher
<1>8. CASE Tick
  BY <1>8 DEF Tick
<1>9. ASSUME NEW k \in Key, RemoveHistory(k) PROVE TypeOK'
  BY <1>9, Zenon DEF RemoveHistory
<1>10. ASSUME NEW k \in Key, DialDone(k) \/ Inbound(k) \/ PeerRegistered(k) \/ PeerLeaves(k)
       PROVE  TypeOK'
  BY <1>10, Zenon DEF DialDone, Inbound, PeerRegistered, PeerLeaves
<1>11. ASSUME NEW c \in Crawler, CrawlLoop(c) \/ CrawlEnds(c) \/ ReadLoopBlocks(c) \/ CloseConn(c)
       PROVE  TypeOK'
  BY <1>11, Zenon DEF CrawlLoop, CrawlEnds, ReadLoopBlocks, CloseConn
<1>12. ASSUME NEW c \in Crawler, TakeTarget(c) PROVE TypeOK'
  BY <1>12, Zenon DEF TakeTarget
<1>13. ASSUME NEW c \in Crawler, NEW k \in Key, Neighbor(c, k) PROVE TypeOK'
  BY <1>13, Zenon DEF Neighbor
<1>14. ASSUME NEW c \in Crawler, AddInHistory(c) \/ AddInPool(c) \/ AddSet(c) PROVE TypeOK'
  BY <1>14, Zenon DEF AddInHistory, AddInPool, AddSet
<1>15. CASE UNCHANGED vars
  BY <1>15, Zenon DEF vars
<1> QED
  BY <1>1, <1>2, <1>3, <1>4, <1>5, <1>6, <1>7, <1>8, <1>9, <1>10, <1>11, <1>12, <1>13,
     <1>14, <1>15, Zenon DEF Next, ManagerStep, CrawlStep

\* The initial values have their types.
LEMMA InitType == Init => TypeOK
<1> SUFFICES ASSUME Init PROVE TypeOK
  BY Zenon
<1>1. (CHOOSE k \in Key : TRUE) \in Key
  BY EnodePoolAssumption, Zenon
<1>2. cancelFlag \in BOOLEAN /\ crashed \in BOOLEAN
  BY Zenon DEF Init
<1>3. enodePool \subseteq Key /\ now \in 0..MaxTime /\ expired \subseteq Key /\ conn \subseteq Crawler
  BY EnodePoolAssumption DEF Init
<1>4. /\ enodeHistory \in [Key -> 0..MaxTime \cup {Absent}]
      /\ mpc \in ManagerStates /\ mkey \in Key
      /\ cpc \in [Crawler -> CrawlStates] /\ ckey \in [Crawler -> Key]
      /\ stage \in [Key -> Stages] /\ picks \in [Key -> Nat]
  BY <1>1, Zenon DEF Init, ManagerStates, CrawlStates, Stages
<1> QED
  BY <1>2, <1>3, <1>4, Zenon DEF TypeOK

\* Every variable of the endpoint pool model keeps its type.
THEOREM TypeCorrect == Spec => []TypeOK
BY InitType, NextType, PTL DEF Spec
-----------------------------------------------------------------------------
(* The dials under way.  Between the test of DialingCount and the dial only *)
(* other dials can end.                                                    *)

DialingInv ==
  /\ DialingBounded
  /\ mpc \in {"pick", "history", "dial"} => Cardinality(At("dialing")) <= MaxDail

\* Sets of keys have a size.
LEMMA KeySets == \A S \in SUBSET Key : IsFiniteSet(S) /\ Cardinality(S) \in Nat
BY EnodePoolAssumption, FS_Subset, FS_CardinalityType, Zenon

\* No step brings the dials above their limit.
LEMMA NextDialing == TypeOK /\ DialingInv /\ [Next]_vars => DialingInv'
<1> SUFFICES ASSUME TypeOK, DialingInv, [Next]_vars PROVE DialingInv'
  BY Zenon
<1> DEFINE D == At("dialing")
<1>0. /\ D \subseteq Key /\ IsFiniteSet(D) /\ Cardinality(D) \in Nat
      /\ MaxDail \in Nat /\ Cardinality(D) <= MaxDail + 1
  BY KeySets, EnodePoolAssumption, Zenon DEF At, DialingInv, DialingBounded
<1>1. ASSUME NEW S \in SUBSET D PROVE Cardinality(S) <= Cardinality(D) /\ Cardinality(S) \in Nat
  BY <1>0, FS_Subset, FS_CardinalityType, Zenon
<1>2. CASE D' \subseteq D /\ (mpc' \in {"pick", "history", "dial"} =>
                               mpc \in {"pick", "history", "dial"} \/ Cardinality(D) <= MaxDail)
  <2>1. Cardinality(D') <= Cardinality(D) /\ Cardinality(D') \in Nat
    BY <1>1, <1>2, Zenon
  <2>2. mpc' \in {"pick", "history", "dial"} => Cardinality(D) <= MaxDail
    BY <1>2, Zenon DEF DialingInv
  <2> HIDE DEF D
  <2>3. /\ Cardinality(D') <= MaxDail + 1
        /\ mpc' \in {"pick", "history", "dial"} => Cardinality(D') <= MaxDail
    BY <1>0, <2>1, <2>2
  <2> QED
    BY <2>3, Zenon DEF D, DialingInv, DialingBounded
<1>3. CASE stage' = stage /\ mpc' = mpc
  BY <1>2, <1>3, Zenon DEF At
<1>4. CASE CheckPeers \/ PickForDail \/ PickHistory
  <2>1. D' = D /\ (mpc' \in {"pick", "history", "dial"} => mpc \in {"pick", "history", "dial"})
    BY <1>4, Zenon DEF CheckPeers, PickForDail, PickHistory, At
  <2> QED
    BY <1>2, <2>1, Zenon
<1>5. CASE CheckDialing
  <2>1. D' = D /\ (mpc' \in {"pick", "history", "dial"} => Cardinality(D) <= MaxDail)
    BY <1>5, Zenon DEF CheckDialing, At
  <2> QED
    BY <1>2, <2>1, Zenon
<1>6. CASE StartDialEnode
  <2>1. mpc' = "peers" /\ Cardinality(D) <= MaxDail /\ D' \subseteq D \cup {mkey}
    BY <1>6 DEF StartDialEnode, TypeOK, At, DialingInv
  <2>2. IsFiniteSet(D \cup {mkey}) /\ Cardinality(D \cup {mkey}) <= Cardinality(D) + 1
    <3> HIDE DEF D
    <3>1. IsFiniteSet(D \cup {mkey})
      BY <1>0, FS_AddElement, Zenon
    <3>2. Cardinality(D \cup {mkey}) = IF mkey \in D THEN Cardinality(D) ELSE Cardinality(D) + 1
      BY <1>0, FS_AddElement, Zenon
    <3> QED
      BY <1>0, <3>1, <3>2
  <2>3. Cardinality(D') <= Cardinality(D \cup {mkey}) /\ Cardinality(D \cup {mkey}) \in Nat
        /\ Cardinality(D') \in Nat
    BY <2>1, <2>2, FS_Subset, FS_CardinalityType, Zenon
  <2> HIDE DEF D
  <2>4. Cardinality(D') <= MaxDail + 1
    BY <1>0, <2>1, <2>2, <2>3
  <2> QED
    BY <2>1, <2>4, Zenon DEF D, DialingInv, DialingBounded
<1>7. ASSUME NEW k \in Key, DialDone(k) \/ Inbound(k) \/ PeerRegistered(k) \/ PeerLeaves(k)
      PROVE  DialingInv'
  <2>1. mpc' = mpc /\ D' \subseteq D
    BY <1>7, Zenon DEF DialDone, Inbound, PeerRegistered, PeerLeaves, TypeOK, At, mgrVars
  <2> QED
    BY <1>2, <2>1, Zenon
<1>8. ScanHistory \/ ExitWatcher \/ Tick \/ UNCHANGED vars => stage' = stage /\ mpc' = mpc
  BY Zenon DEF ScanHistory, ExitWatcher, Tick, vars, mgrVars
<1>9. \A k \in Key : RemoveHistory(k) => stage' = stage /\ mpc' = mpc
  BY Zenon DEF RemoveHistory, mgrVars
<1>10. \A c \in Crawler : CrawlStep(c) \/ CloseConn(c) \/ ReadLoopBlocks(c)
                           \/ (\E k \in Key : Neighbor(c, k)) => stage' = stage /\ mpc' = mpc
  BY Zenon DEF CrawlStep, CrawlLoop, TakeTarget, CrawlEnds, AddInHistory, AddInPool, AddSet,
         CloseConn, ReadLoopBlocks, Neighbor, mgrVars
<1> QED
  BY <1>3, <1>4, <1>5, <1>6, <1>7, <1>8, <1>9, <1>10, Zenon DEF Next, ManagerStep

\* The dials under way never exceed MaxDailCount by more than one.
THEOREM Dialing == Spec => []DialingBounded
<1>1. Init => DialingInv
  <2> SUFFICES ASSUME Init PROVE DialingInv
    BY Zenon
  <2>1. At("dialing") = {} /\ mpc = "peers"
    BY Zenon DEF Init, At
  <2>2. Cardinality(At("dialing")) = 0
    BY <2>1, FS_EmptySet, Zenon
  <2> QED
    BY <2>1, <2>2, EnodePoolAssumption DEF DialingInv, DialingBounded
<1>2. DialingInv => DialingBounded
  BY Zenon DEF DialingInv
<1> QED
  BY <1>1, <1>2, NextDialing, TypeCorrect, PTL DEF Spec

-----------------------------------------------------------------------------
(* The picks of one endpoint.  What RedialBounded leaves out is where the   *)
(* next picks come from: a crawler past its look at the history, or the    *)
(* pool.  While an entry is in the history no crawler joins them.           *)

\* Crawlers that have found k out of the history, and those that ask for it.
Adding(k) == {c \in Crawler : cpc[c] \in {"pool", "set"} /\ ckey[c] = k}
InFlight(k) == {c \in Crawler : cpc[c] \in {"hist", "pool", "set"} /\ ckey[c] = k}

\* getEnodeFromCacheForDail has taken k and not yet written the history.
Taking(k) == mpc = "history" /\ mkey = k

InPool(k) == IF k \in enodePool THEN 1 ELSE 0

PicksOf(k) ==
  /\ enodeHistory[k] = Absent => picks[k] <= 1 /\ (~Taking(k) => picks[k] = 0)
  /\ enodeHistory[k] # Absent =>
        picks[k] + Cardinality(Adding(k)) + InPool(k) <= 1 + Cardinality(Crawler)
  /\ k \in enodePool /\ Crawler # {} => InFlight(k) # Crawler
  /\ Crawler = {} => ~(Taking(k) /\ k \in enodePool)

\* Sets of crawlers have a size, and a smaller set a smaller one.
LEMMA CrawlerSets ==
  /\ IsFiniteSet(Crawler) /\ Cardinality(Crawler) \in Nat
  /\ \A S \in SUBSET Crawler : IsFiniteSet(S) /\ Cardinality(S) \in Nat
  /\ \A S \in SUBSET Crawler : \A T \in SUBSET S : Cardinality(T) <= Cardinality(S)
  /\ \A S \in SUBSET Crawler : S # Crawler => Cardinality(S) + 1 <= Cardinality(Crawler)
<1>1. IsFiniteSet(Crawler) /\ Cardinality(Crawler) \in Nat
  BY EnodePoolAssumption, FS_CardinalityType, Zenon
<1>2. \A S \in SUBSET Crawler : IsFiniteSet(S) /\ Cardinality(S) \in Nat
  BY <1>1, FS_Subset, FS_CardinalityType, Zenon
<1>3. \A S \in SUBSET Crawler : \A T \in SUBSET S : Cardinality(T) <= Cardinality(S)
  BY <1>2, FS_Subset, Zenon
<1>4. ASSUME NEW S \in SUBSET Crawler, S # Crawler
      PROVE  Cardinality(S) + 1 <= Cardinality(Crawler)
  <2>1. Cardinality(S) <= Cardinality(Crawler) /\ Cardinality(S) # Cardinality(Crawler)
    BY <1>1, <1>4, FS_Subset, Zenon
  <2> QED
    BY <1>1, <1>2, <2>1
<1> QED
  BY <1>1, <1>2, <1>3, <1>4, Zenon

\* A step that leaves pool, history and picks alone and lets no crawler join
\* those that add k keeps the count of k.
LEMMA KeepsPicks ==
  ASSUME NEW k \in Key, TypeOK, PicksOf(k),
         UNCHANGED <<enodePool, enodeHistory, picks>>, Taking(k)' = Taking(k),
         enodeHistory[k] # Absent => Adding(k)' \subseteq Adding(k),
         k \in enodePool => InFlight(k)' \subseteq InFlight(k)
  PROVE  PicksOf(k)'
<1>1. enodeHistory[k] # Absent =>
        Cardinality(Adding(k)') <= Cardinality(Adding(k)) /\ Cardinality(Adding(k)') \in Nat
  BY CrawlerSets, Zenon DEF Adding
<1>2. Cardinality(Adding(k)) \in Nat /\ picks[k] \in Nat /\ InPool(k) \in Nat
      /\ Cardinality(Crawler) \in Nat
  BY CrawlerSets, Zenon DEF Adding, TypeOK, InPool
<1>3. InPool(k)' = InPool(k)
  BY Zenon DEF InPool
<1>4. (enodeHistory[k] # Absent =>
        picks[k] + Cardinality(Adding(k)) + InPool(k) <= 1 + Cardinality(Crawler))'
  <2>1. SUFFICES ASSUME enodeHistory[k] # Absent
                 PROVE  picks[k] + Cardinality(Adding(k)') + InPool(k) <= 1 + Cardinality(Crawler)
    BY <1>3, Zenon
  <2>2. picks[k] + Cardinality(Adding(k)) + InPool(k) <= 1 + Cardinality(Crawler)
    BY <2>1, Zenon DEF PicksOf
  <2> QED
    BY <1>1, <1>2, <2>1, <2>2
<1>5. (k \in enodePool /\ Crawler # {} => InFlight(k) # Crawler)'
  <2>1. InFlight(k) \subseteq Crawler
    BY Zenon DEF InFlight
  <2> QED
    BY <2>1, Zenon DEF PicksOf
<1> QED
  BY <1>4, <1>5, Zenon DEF PicksOf

\* getEnodeFromCacheForDail takes x: for x itself the pick comes out of the pool.
LEMMA PickKeepsPicks ==
  ASSUME NEW k \in Key, TypeOK, PicksOf(k), PickForDail
  PROVE  PicksOf(k)'
<1>1. UNCHANGED <<enodeHistory, cpc, ckey>> /\ mpc = "pick"
  BY Zenon DEF PickForDail, crawlVars
<1>2. CASE enodePool = {} /\ mpc' = "peers" /\ UNCHANGED <<enodePool, mkey, picks>>
  <2>1. Taking(k)' = Taking(k)
    BY <1>1, <1>2, Zenon DEF Taking
  <2> QED
    BY <1>1, <1>2, <2>1, KeepsPicks, Zenon DEF Adding, InFlight
<1>3. ASSUME NEW x \in enodePool, enodePool' = enodePool \ {x}, mkey' = x,
             picks' = [picks EXCEPT ![x] = @ + 1], mpc' = "history"
      PROVE  PicksOf(k)'
  <2>0. /\ x \in Key /\ picks[k] \in Nat
        /\ Adding(k)' = Adding(k) /\ InFlight(k)' = InFlight(k) /\ ~Taking(k)
        /\ Cardinality(Adding(k)) \in Nat /\ Cardinality(Crawler) \in Nat
    BY <1>1, CrawlerSets, Zenon DEF TypeOK, Adding, InFlight, Taking
  <2>1. CASE x = k
    <3>1. picks'[k] = picks[k] + 1 /\ k \notin enodePool' /\ InPool(k) = 1 /\ InPool(k)' = 0
      BY <1>3, <2>0, <2>1, Zenon DEF TypeOK, InPool
    <3>2. enodeHistory[k] = Absent => picks[k] = 0
      BY <2>0, Zenon DEF PicksOf
    <3>3. enodeHistory[k] # Absent =>
            picks[k] + Cardinality(Adding(k)) + 1 <= 1 + Cardinality(Crawler)
      BY <3>1, Zenon DEF PicksOf
    <3>4. enodeHistory[k] = Absent => picks'[k] <= 1
      BY <3>1, <3>2
    <3>5. enodeHistory[k] # Absent =>
            picks'[k] + Cardinality(Adding(k)) + 0 <= 1 + Cardinality(Crawler)
      BY <2>0, <3>1, <3>3
    <3>6. Taking(k)'
      BY <1>3, <2>1, Zenon DEF Taking
    <3> QED
      BY <1>1, <2>0, <3>1, <3>4, <3>5, <3>6, Zenon DEF PicksOf
  <2>2. CASE x # k
    <3>1. picks'[k] = picks[k] /\ InPool(k)' = InPool(k) /\ ~Taking(k)'
          /\ (k \in enodePool' <=> k \in enodePool)
      BY <1>3, <2>0, <2>2, Zenon DEF TypeOK, InPool, Taking
    <3> QED
      BY <1>1, <2>0, <3>1, Zenon DEF PicksOf
  <2> QED
    BY <2>1, <2>2, Zenon
<1> QED
  BY <1>2, <1>3, Zenon DEF PickForDail

\* It writes the history.  The crawlers that may still bring the endpoint back
\* are then fixed, and are not all of them if it is in the pool again.
LEMMA HistoryKeepsPicks ==
  ASSUME NEW k \in Key, TypeOK, PicksOf(k), PickHistory
  PROVE  PicksOf(k)'
<1>1. /\ UNCHANGED <<enodePool, picks, cpc, ckey, mkey>> /\ mpc = "history"
      /\ ~Taking(k)' /\ mkey \in Key /\ now \in Nat
      /\ enodeHistory' = [enodeHistory EXCEPT ![mkey] = now]
  BY EnodePoolAssumption DEF PickHistory, crawlVars, Taking, TypeOK
<1>2. /\ Adding(k)' = Adding(k) /\ InFlight(k)' = InFlight(k) /\ InPool(k)' = InPool(k)
      /\ Adding(k) \subseteq InFlight(k) /\ InFlight(k) \subseteq Crawler
  BY <1>1, Zenon DEF Adding, InFlight, InPool
<1>3. /\ Cardinality(Adding(k)) \in Nat /\ Cardinality(Crawler) \in Nat /\ picks[k] \in Nat
      /\ Cardinality(Adding(k)) <= Cardinality(Crawler)
  BY <1>2, CrawlerSets, Zenon DEF TypeOK
<1>4. CASE mkey # k
  <2>1. enodeHistory'[k] = enodeHistory[k] /\ ~Taking(k)
    BY <1>1, <1>4, Zenon DEF TypeOK, Taking
  <2> QED
    BY <1>1, <1>2, <2>1, Zenon DEF PicksOf
<1>5. CASE mkey = k
  <2>1. enodeHistory'[k] # Absent /\ Taking(k)
    BY <1>1, <1>5 DEF TypeOK, Taking, Absent
  <2>2. picks[k] + Cardinality(Adding(k)) + InPool(k) <= 1 + Cardinality(Crawler)
    <3>1. CASE enodeHistory[k] # Absent
      BY <3>1, Zenon DEF PicksOf
    <3>2. CASE enodeHistory[k] = Absent
      <4>1. picks[k] <= 1
        BY <3>2, Zenon DEF PicksOf
      <4>2. k \in enodePool => Cardinality(Adding(k)) + 1 <= Cardinality(Crawler)
        <5>1. SUFFICES ASSUME k \in enodePool PROVE Adding(k) # Crawler
          BY <1>2, CrawlerSets, Zenon
        <5>2. InFlight(k) # Crawler
          BY <2>1, <5>1, Zenon DEF PicksOf
        <5> QED
          BY <1>2, <5>2, Zenon
      <4> QED
        BY <1>3, <4>1, <4>2 DEF InPool
    <3> QED
      BY <3>1, <3>2, Zenon
  <2> QED
    BY <1>1, <1>2, <2>1, <2>2, Zenon DEF PicksOf
<1> QED
  BY <1>4, <1>5, Zenon

\* HistoryLoop removes the entry of x, and the picks of x start again.
LEMMA RemoveKeepsPicks ==
  ASSUME NEW k \in Key, NEW x \in Key, TypeOK, PicksOf(k), RemoveHistory(x)
  PROVE  PicksOf(k)'
<1>1. /\ UNCHANGED <<enodePool, cpc, ckey, mpc, mkey>>
      /\ enodeHistory' = [enodeHistory EXCEPT ![x] = Absent] /\ picks' = [picks EXCEPT ![x] = 0]
  BY Zenon DEF RemoveHistory, crawlVars, mgrVars
<1>2. /\ Adding(k)' = Adding(k) /\ InFlight(k)' = InFlight(k) /\ InPool(k)' = InPool(k)
      /\ Taking(k)' = Taking(k)
  BY <1>1, Zenon DEF Adding, InFlight, InPool, Taking
<1>3. CASE x = k
  <2>1. enodeHistory'[k] = Absent /\ picks'[k] = 0
    BY <1>1, <1>3, Zenon DEF TypeOK
  <2> QED
    BY <1>1, <1>2, <2>1 DEF PicksOf
<1>4. CASE x # k
  <2>1. enodeHistory'[k] = enodeHistory[k] /\ picks'[k] = picks[k]
    BY <1>1, <1>4, Zenon DEF TypeOK
  <2> QED
    BY <1>1, <1>2, <2>1, Zenon DEF PicksOf
<1> QED
  BY <1>3, <1>4, Zenon

\* enodePool.Set: the crawler leaves those that add its endpoint, which is now
\* in the pool; it is not among those that ask for it, either.
LEMMA SetKeepsPicks ==
  ASSUME NEW k \in Key, NEW c \in Crawler, TypeOK, PicksOf(k), AddSet(c)
  PROVE  PicksOf(k)'
<1>1. /\ UNCHANGED <<enodeHistory, picks, ckey, mpc, mkey>> /\ cpc[c] = "set"
      /\ enodePool' = enodePool \cup {ckey[c]} /\ cpc' = [cpc EXCEPT ![c] = "read"]
  BY Zenon DEF AddSet, mgrVars
<1>2. /\ Adding(k)' = Adding(k) \ {c} /\ InFlight(k)' = InFlight(k) \ {c}
      /\ Taking(k)' = Taking(k) /\ Adding(k) \subseteq Crawler
      /\ (c \in Adding(k) <=> ckey[c] = k)
  BY <1>1, Zenon DEF Adding, InFlight, Taking, TypeOK
<1>3. /\ Cardinality(Adding(k)) \in Nat /\ Cardinality(Crawler) \in Nat /\ picks[k] \in Nat
      /\ IsFiniteSet(Adding(k))
  BY <1>2, CrawlerSets, Zenon DEF TypeOK
<1>4. Crawler # {} /\ InFlight(k)' # Crawler
  BY <1>2, Zenon
<1>5. (enodeHistory[k] # Absent =>
        picks[k] + Cardinality(Adding(k)) + InPool(k) <= 1 + Cardinality(Crawler))'
  <2>1. SUFFICES ASSUME enodeHistory[k] # Absent
        PROVE picks[k] + Cardinality(Adding(k)') + InPool(k)' <= 1 + Cardinality(Crawler)
    BY <1>1, Zenon
  <2>2. picks[k] + Cardinality(Adding(k)) + InPool(k) <= 1 + Cardinality(Crawler)
    BY <2>1, Zenon DEF PicksOf
  <2>3. CASE ckey[c] = k
    <3>0. Cardinality(Adding(k) \ {c}) = Cardinality(Adding(k)) - 1
      BY <1>2, <1>3, <2>3, FS_RemoveElement, Zenon
    <3>1. Cardinality(Adding(k)') = Cardinality(Adding(k)) - 1
      BY <1>2, <3>0, Zenon
    <3> QED
      BY <1>3, <2>2, <3>1 DEF InPool
  <2>4. CASE ckey[c] # k
    <3>1. Adding(k)' = Adding(k) /\ InPool(k)' = InPool(k)
      BY <1>1, <1>2, <2>4, Zenon DEF InPool
    <3> QED
      BY <2>2, <3>1, Zenon
  <2> QED
    BY <2>3, <2>4, Zenon
<1> QED
  BY <1>1, <1>2, <1>4, <1>5, Zenon DEF PicksOf

\* The other steps of a crawler.  One joins those that add k only when k is out
\* of the history, and those that ask for k only when k is out of the pool.
LEMMA CrawlKeepsPicks ==
  ASSUME NEW k \in Key, NEW c \in Crawler, TypeOK, PicksOf(k),
         \/ CrawlLoop(c) \/ TakeTarget(c) \/ CrawlEnds(c) \/ AddInHistory(c) \/ AddInPool(c)
         \/ CloseConn(c) \/ ReadLoopBlocks(c) \/ \E x \in Key : Neighbor(c, x)
  PROVE  PicksOf(k)'
<1>1. UNCHANGED <<enodePool, enodeHistory, picks, mpc, mkey>>
  BY Zenon DEF CrawlLoop, TakeTarget, CrawlEnds, AddInHistory, AddInPool, CloseConn,
     ReadLoopBlocks,
         Neighbor, poolVars, mgrVars
<1>2. Taking(k)' = Taking(k)
  BY <1>1, Zenon DEF Taking
<1>3. CASE CrawlLoop(c) \/ TakeTarget(c) \/ CrawlEnds(c) \/ AddInPool(c)
           \/ CloseConn(c) \/ ReadLoopBlocks(c)
  <2>1. /\ ckey' = ckey
        /\ \/ cpc' = cpc
           \/ \E s \in {"exit", "take", "read", "idle", "blocked"} : cpc' = [cpc EXCEPT ![c] = s]
           \/ cpc[c] = "pool" /\ cpc' = [cpc EXCEPT ![c] = "set"]
    BY <1>3, Zenon DEF CrawlLoop, TakeTarget, CrawlEnds, AddInPool, CloseConn, ReadLoopBlocks
  <2>2. Adding(k)' \subseteq Adding(k) /\ InFlight(k)' \subseteq InFlight(k)
    BY <2>1, Zenon DEF Adding, InFlight, TypeOK
  <2> QED
    BY <1>1, <1>2, <2>2, KeepsPicks, Zenon
<1>4. CASE AddInHistory(c)
  <2>1. /\ ckey' = ckey /\ cpc[c] = "hist"
        /\ cpc' = [cpc EXCEPT ![c] = IF enodeHistory[ckey[c]] = Absent THEN "pool" ELSE "read"]
    BY <1>4, Zenon DEF AddInHistory
  <2>2. enodeHistory[k] # Absent => Adding(k)' \subseteq Adding(k)
    BY <2>1, Zenon DEF Adding, TypeOK
  <2>3. InFlight(k)' \subseteq InFlight(k)
    BY <2>1, Zenon DEF InFlight, TypeOK
  <2> QED
    BY <1>1, <1>2, <2>2, <2>3, KeepsPicks, Zenon
<1>5. ASSUME NEW x \in Key, Neighbor(c, x)
      PROVE  PicksOf(k)'
  <2>1. /\ ckey' = [ckey EXCEPT ![c] = x] /\ cpc[c] = "read" /\ x \notin enodePool
        /\ cpc' = [cpc EXCEPT ![c] = "hist"]
    BY <1>5, Zenon DEF Neighbor
  <2>2. Adding(k)' \subseteq Adding(k)
    BY <2>1, Zenon DEF Adding, TypeOK
  <2>3. k \in enodePool => InFlight(k)' \subseteq InFlight(k)
    BY <2>1, Zenon DEF InFlight, TypeOK
  <2> QED
    BY <1>1, <1>2, <2>2, <2>3, KeepsPicks, Zenon
<1> QED
  BY <1>3, <1>4, <1>5, Zenon

\* One step keeps the count of every endpoint.
LEMMA NextPicks ==
  TypeOK /\ (\A k \in Key : PicksOf(k)) /\ [Next]_vars => (\A k \in Key : PicksOf(k))'
<1> SUFFICES ASSUME TypeOK, \A x \in Key : PicksOf(x), [Next]_vars, NEW k \in Key
             PROVE  PicksOf(k)'
  BY Zenon
<1>1. PicksOf(k)
  BY Zenon
<1>2. CASE /\ UNCHANGED <<enodePool, enodeHistory, picks, cpc, ckey, mkey>>
           /\ mpc' = mpc \/ (mpc # "history" /\ mpc' # "history")
  <2>1. Taking(k)' = Taking(k) /\ Adding(k)' = Adding(k) /\ InFlight(k)' = InFlight(k)
    BY <1>2, Zenon DEF Taking, Adding, InFlight
  <2> QED
    BY <1>1, <1>2, <2>1, KeepsPicks, Zenon
<1>3. CASE CheckPeers \/ CheckDialing \/ StartDialEnode
  BY <1>2, <1>3, Zenon DEF CheckPeers, CheckDialing, StartDialEnode, poolVars, crawlVars
<1>4. CASE ScanHistory \/ ExitWatcher \/ Tick \/ UNCHANGED vars
  BY <1>2, <1>4, Zenon DEF ScanHistory, ExitWatcher, Tick, vars, poolVars, crawlVars, mgrVars
<1>5. CASE \E x \in Key : DialDone(x) \/ Inbound(x) \/ PeerRegistered(x) \/ PeerLeaves(x)
  BY <1>2, <1>5, Zenon DEF DialDone, Inbound, PeerRegistered, PeerLeaves, poolVars,
     crawlVars, mgrVars
<1>6. CASE PickForDail
  BY <1>1, <1>6, PickKeepsPicks, Zenon
<1>7. CASE PickHistory
  BY <1>1, <1>7, HistoryKeepsPicks, Zenon
<1>8. ASSUME NEW x \in Key, RemoveHistory(x) PROVE PicksOf(k)'
  BY <1>1, <1>8, RemoveKeepsPicks, Zenon
<1>9. ASSUME NEW c \in Crawler,
             CrawlStep(c) \/ CloseConn(c) \/ ReadLoopBlocks(c) \/ \E x \in Key : Neighbor(c, x)
      PROVE  PicksOf(k)'
  BY <1>1, <1>9, SetKeepsPicks, CrawlKeepsPicks, Zenon DEF CrawlStep
<1> QED
  BY <1>3, <1>4, <1>5, <1>6, <1>7, <1>8, <1>9, Zenon DEF Next, ManagerStep

\* ManagerLoop keeps to its limits: between two expiries of its history entry an
\* endpoint is dialed at most once more than there are crawlers, and the dials
\* under way exceed MaxDailCount by one at most.
THEOREM Limits == Spec => []DialsLimited
<1>1. Init => \A k \in Key : PicksOf(k)
  <2> SUFFICES ASSUME Init, NEW k \in Key PROVE PicksOf(k)
    BY Zenon
  <2>1. enodeHistory[k] = Absent /\ picks[k] = 0 /\ mpc = "peers"
    BY Zenon DEF Init
  <2>2. InFlight(k) = {}
    BY Zenon DEF Init, InFlight
  <2> QED
    BY <2>1, <2>2 DEF PicksOf, Taking
<1>2. TypeOK /\ (\A k \in Key : PicksOf(k)) => RedialBounded
  <2> SUFFICES ASSUME TypeOK, NEW k \in Key, PicksOf(k)
               PROVE  picks[k] <= 1 + Cardinality(Crawler)
    BY Zenon DEF RedialBounded
  <2>1. /\ picks[k] \in Nat /\ Cardinality(Adding(k)) \in Nat /\ InPool(k) \in Nat
        /\ Cardinality(Crawler) \in Nat
    BY CrawlerSets, Zenon DEF TypeOK, Adding, InPool
  <2> QED
    BY <2>1 DEF PicksOf
<1>3. RedialBounded /\ DialingBounded => DialsLimited
  BY Zenon DEF DialsLimited
<1> QED
  BY <1>1, <1>2, <1>3, NextPicks, TypeCorrect, Dialing, PTL DEF Spec

=============================================================================
