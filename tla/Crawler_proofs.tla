---------------------------- MODULE Crawler_proofs ----------------------------
(***************************************************************************)
(* Proofs about Crawler, for channels of any capacity and any number of    *)
(* packets: when readLoop can be left at a full channel.                   *)
(***************************************************************************)
EXTENDS Crawler, TLAPS

\* Packets of a kind that readLoop has read and run has not taken: those in the
\* channel and the one in the send.
Untaken ==
  /\ pingCh + (IF loop = "sendPing" THEN 1 ELSE 0) <= got["ping"]
  /\ pongCh + (IF loop = "sendPong" THEN 1 ELSE 0) <= got["pong"]

\* No step breaks the type invariant.
LEMMA NextType == TypeOK /\ [Next]_vars => TypeOK'
<1> SUFFICES ASSUME TypeOK, [Next]_vars PROVE TypeOK'
  BY Zenon
<1>0. ChanCap \in Nat /\ MaxPacket \in Nat
  BY CrawlerAssumption, Zenon
<1>1. CASE RunPong
  BY <1>0, <1>1 DEF RunPong, TypeOK
<1>2. CASE PongTimeout \/ SleepOver
  <2>1. open' \in BOOLEAN
    BY <1>2, Zenon DEF PongTimeout, SleepOver
  <2> QED
    BY <1>2, <2>1, Zenon DEF PongTimeout, SleepOver, TypeOK
<1>3. CASE RunPing
  <2>1. asked' \in BOOLEAN
    BY <1>3, Zenon DEF RunPing
  <2>2. pingCh' \in 0..ChanCap
    BY <1>0, <1>3 DEF RunPing, TypeOK
  <2> QED
    BY <1>3, <2>1, <2>2, Zenon DEF RunPing, TypeOK
<1>4. CASE RunReturn \/ ReadLoopReturn
  BY <1>4, Zenon DEF RunReturn, ReadLoopReturn, TypeOK
<1>5. CASE HandlePing
  BY <1>0, <1>5 DEF HandlePing, TypeOK
<1>6. CASE HandlePong
  BY <1>0, <1>6 DEF HandlePong, TypeOK
<1>7. ASSUME NEW k \in Kind, Receive(k) PROVE TypeOK'
  <2>1. got' \in [Kind -> 0..MaxPacket]
    BY <1>0, <1>7 DEF Receive, TypeOK
  <2>2. loop' \in {"read", "sendPing", "sendPong", "exit"}
    BY <1>7, Zenon DEF Receive
  <2> QED
    BY <1>7, <2>1, <2>2, Zenon DEF Receive, TypeOK
<1>8. CASE UNCHANGED vars
  BY <1>8, Zenon DEF vars, TypeOK
<1> QED
  BY <1>1, <1>2, <1>3, <1>4, <1>5, <1>6, <1>7, <1>8, Zenon DEF Next, RunStep, LoopStep

\* The initial state has the type.
LEMMA InitType == Init => TypeOK
<1> SUFFICES ASSUME Init PROVE TypeOK
  BY Zenon
<1>1. open \in BOOLEAN /\ asked \in BOOLEAN
  BY Zenon DEF Init
<1> QED
  BY <1>1, CrawlerAssumption DEF Init, TypeOK

\* Every packet in a channel, or in a send, was received.
LEMMA NextUntaken == TypeOK /\ Untaken /\ [Next]_vars => Untaken'
<1> SUFFICES ASSUME TypeOK, Untaken, [Next]_vars PROVE Untaken'
  BY Zenon
<1>0. /\ pingCh \in Nat /\ pongCh \in Nat /\ got["ping"] \in Nat /\ got["pong"] \in Nat
      /\ got \in [Kind -> 0..MaxPacket]
  BY CrawlerAssumption DEF TypeOK, Kind
<1>1. CASE RunStep
  <2>1. loop' = loop /\ got' = got /\ pingCh' <= pingCh /\ pongCh' <= pongCh
        /\ pingCh' \in Nat /\ pongCh' \in Nat
    BY <1>0, <1>1 DEF RunStep, RunPong, PongTimeout, RunPing, SleepOver, RunReturn
  <2> QED
    BY <1>0, <2>1 DEF Untaken
<1>2. CASE LoopStep
  BY <1>0, <1>2 DEF LoopStep, HandlePing, HandlePong, ReadLoopReturn, Untaken
<1>3. ASSUME NEW k \in Kind, Receive(k) PROVE Untaken'
  <2>1. /\ UNCHANGED <<pingCh, pongCh>> /\ loop = "read"
        /\ got' = [got EXCEPT ![k] = @ + 1]
        /\ loop' = "sendPing" => k = "ping"
        /\ loop' = "sendPong" => k = "pong"
    BY <1>3, Zenon DEF Receive, Kind
  <2> QED
    BY <1>0, <2>1 DEF Untaken, Kind
<1>4. CASE UNCHANGED vars
  BY <1>4, Zenon DEF vars, Untaken
<1> QED
  BY <1>1, <1>2, <1>3, <1>4, Zenon DEF Next

\* Run and readLoop keep their variables to their types.
THEOREM TypeCorrect == Spec => []TypeOK
BY InitType, NextType, PTL DEF Spec

\* readLoop meets a full channel only if the node has sent more packets of that
\* kind than the channel holds.
THEOREM FullOnlyIfChatty == Spec => []FullMeansChatty
<1>1. Init => Untaken
  BY DEF Init, Untaken, Kind
<1>2. TypeOK /\ Untaken => FullMeansChatty
  BY CrawlerAssumption DEF TypeOK, Untaken, FullMeansChatty, Kind
<1> QED
  BY <1>1, <1>2, NextUntaken, TypeCorrect, PTL DEF Spec
===============================================================================
