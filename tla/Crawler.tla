------------------------------- MODULE Crawler -------------------------------
(***************************************************************************)
(* One crawl of a node, node_manager/crawl.go: run pings the node, waits   *)
(* for its pong and its ping, asks it for neighbours and waits for         *)
(* readLoop, a goroutine of its own that hands pongs and pings over in     *)
(* buffered channels.                                                      *)
(***************************************************************************)
EXTENDS Naturals

CONSTANTS
  ChanCap,    \* capacity of waitRemotePongCh and of waitRemotePingCh, 10
  MaxPacket   \* bound: packets of each kind the node sends

ASSUME CrawlerAssumption == ChanCap \in Nat \ {0} /\ MaxPacket \in Nat

VARIABLES
  rpc,        \* run: what it waits for
  loop,       \* readLoop: in ReadFromUDP, in a send, or returned
  pongCh, pingCh, \* elements of the channels
  open,       \* c.conn is open
  asked,      \* FindNode and ENRRequest have been sent
  got         \* packets received, by kind

vars == <<rpc, loop, pongCh, pingCh, open, asked, got>>

Kind == {"ping", "pong", "neighbors", "enr"}

TypeOK ==
  /\ rpc \in {"pong", "ping", "sleep", "wait", "done"}
  /\ loop \in {"read", "sendPing", "sendPong", "exit"}
  /\ pongCh \in 0..ChanCap /\ pingCh \in 0..ChanCap
  /\ open \in BOOLEAN /\ asked \in BOOLEAN
  /\ got \in [Kind -> 0..MaxPacket]

\* DialUDP, sendPing, go readLoop.
Init ==
  /\ rpc = "pong" /\ loop = "read"
  /\ pongCh = 0 /\ pingCh = 0
  /\ open = TRUE /\ asked = FALSE
  /\ got = [k \in Kind |-> 0]

\* run: the remote pong.
RunPong ==
  /\ rpc = "pong" /\ pongCh > 0
  /\ pongCh' = pongCh - 1 /\ rpc' = "ping"
  /\ UNCHANGED <<loop, pingCh, open, asked, got>>

\* run: no pong in time, close the connection and wait.
PongTimeout ==
  /\ rpc = "pong"
  /\ open' = FALSE /\ rpc' = "wait"
  /\ UNCHANGED <<loop, pongCh, pingCh, asked, got>>

\* Mutant: run waits for readLoop without closing the connection.
RunPing_NoClose ==
  /\ rpc = "ping"
  /\ pingCh' \in {pingCh} \cup (IF pingCh > 0 THEN {pingCh - 1} ELSE {})
  /\ rpc' = "wait" /\ asked' = TRUE
  /\ UNCHANGED <<loop, pongCh, open, got>>

\* run: the remote ping, or its time is up; sendFindNode and sendRequestENR.
RunPing ==
  /\ rpc = "ping"
  /\ pingCh' \in {pingCh} \cup (IF pingCh > 0 THEN {pingCh - 1} ELSE {})
  /\ rpc' = "sleep" /\ asked' = TRUE
  /\ UNCHANGED <<loop, pongCh, open, got>>

\* run: two seconds for the answers, then close.
SleepOver ==
  /\ rpc = "sleep"
  /\ open' = FALSE /\ rpc' = "wait"
  /\ UNCHANGED <<loop, pongCh, pingCh, asked, got>>

\* run: wg.Wait.
RunReturn ==
  /\ rpc = "wait" /\ loop = "exit"
  /\ rpc' = "done"
  /\ UNCHANGED <<loop, pongCh, pingCh, open, asked, got>>

\* readLoop and handlePacket.
Receive(k) ==
  /\ loop = "read" /\ open /\ got[k] < MaxPacket
  /\ k \in {"neighbors", "enr"} => asked
  /\ got' = [got EXCEPT ![k] = @ + 1]
  /\ loop' = CASE k = "ping" -> "sendPing" [] k = "pong" -> "sendPong" [] OTHER -> "read"
  /\ UNCHANGED <<rpc, pongCh, pingCh, open, asked>>

\* handlePing: waitRemotePingCh <- 1.
HandlePing ==
  /\ loop = "sendPing" /\ pingCh < ChanCap
  /\ pingCh' = pingCh + 1 /\ loop' = "read"
  /\ UNCHANGED <<rpc, pongCh, open, asked, got>>

\* handlePong: waitRemotePongCh <- 1.
HandlePong ==
  /\ loop = "sendPong" /\ pongCh < ChanCap
  /\ pongCh' = pongCh + 1 /\ loop' = "read"
  /\ UNCHANGED <<rpc, pingCh, open, asked, got>>

\* readLoop: an error that is not temporary.
ReadLoopReturn ==
  /\ loop = "read" /\ ~open
  /\ loop' = "exit"
  /\ UNCHANGED <<rpc, pongCh, pingCh, open, asked, got>>

RunStep == RunPong \/ PongTimeout \/ RunPing \/ SleepOver \/ RunReturn

LoopStep == HandlePing \/ HandlePong \/ ReadLoopReturn

Next == RunStep \/ LoopStep \/ \E k \in Kind : Receive(k)

Spec == Init /\ [][Next]_vars

\* The goroutines run and the timers fire; the node sends what it likes.
FairSpec == Spec /\ WF_vars(RunStep) /\ WF_vars(LoopStep)

-----------------------------------------------------------------------------
(* Properties. *)

\* readLoop is in a send on a full channel.
Full ==
  \/ loop = "sendPing" /\ pingCh = ChanCap
  \/ loop = "sendPong" /\ pongCh = ChanCap

\* run takes one element of each channel at most, so readLoop meets a full one
\* only if the node has sent more packets of that kind than the channel holds.
FullMeansChatty ==
  /\ loop = "sendPing" /\ pingCh = ChanCap => got["ping"] > ChanCap
  /\ loop = "sendPong" /\ pongCh = ChanCap => got["pong"] > ChanCap

\* run returns, whatever comes and whenever the timers fire, unless readLoop is
\* left for good at a full channel: then run waits for readLoop, and crawlLoop
\* for run.
RunReturnsUnlessFull == <>(rpc = "done") \/ <>[]Full
=============================================================================
