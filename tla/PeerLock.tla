------------------------------ MODULE PeerLock ------------------------------
(***************************************************************************)
(* What the peer set promises to whoever wants ps.lock (AllPeers, len,     *)
(* registerPeer, ...): the lock is free; or an extension holds it while it *)
(* hands itself to its eth goroutine, which ends by itself; or that        *)
(* goroutine has taken its timer, and the lock is never released again.    *)
(***************************************************************************)
VARIABLE lock

Init == lock = "free"

\* An extension found a wait entry; the timer of that wait may have fired.
Take == lock = "free" /\ lock' \in {"held", "stuck"}

\* The eth goroutine receives the extension, or takes its timer.
Settle == lock = "held" /\ lock' \in {"free", "stuck"}

Next == Take \/ Settle

\* The order of events alone.
Order == Init /\ [][Next]_lock

Spec == Order /\ WF_lock(Settle)
=============================================================================
