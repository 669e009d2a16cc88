----------------------------- MODULE SharedLink -----------------------------
(***************************************************************************)
(* What the link server promises the machines that share a link, without   *)
(* the turns of its loop, its time stamps, its retries, its client list or *)
(* the scripts: a link has users and a phase, a user joins or leaves, and  *)
(* the line is lost or closed.  The promise is the one of README.protocol  *)
(* (UP, DOWN and FORCE_DOWN) and README.states; LinkServer implements it   *)
(* (LinkServer!SharedLinkPromise).                                         *)
(*                                                                         *)
(* If the scripts cannot be trusted to work (Reliable is FALSE) a link may *)
(* be lost without telling its users, left without being hung up, and be   *)
(* joined although it has just been given up; nothing else is excused.     *)
(***************************************************************************)
EXTENDS FiniteSets

CONSTANTS Links, Machines, Reliable

VARIABLES
    users,    \* the machines that want a link up
    phase     \* where the link is on its way up or down

vars == <<users, phase>>

Phases == {"DOWN", "CONNECTING", "UP", "DISCONNECTING"}

Init ==
    /\ users = [l \in Links |-> {}]
    /\ phase = [l \in Links |-> "DOWN"]

Becomes(l, u, p) ==
    /\ users' = [users EXCEPT ![l] = u]
    /\ phase' = [phase EXCEPT ![l] = p]

\* The first user dials; the others find the link as it is, and never disturb
\* it.  A link that is up although nobody wants it cannot be joined.
Join(l, m) ==
    IF users[l] # {}
    THEN Becomes(l, users[l] \cup {m}, phase[l])
    ELSE /\ phase[l] # "UP"
         /\ \/ Becomes(l, {m}, "CONNECTING")
            \/ ~Reliable /\ Becomes(l, {m}, "DOWN")

\* The last user hangs up; the others leave the link alone.
Leave(l, m) ==
    /\ m \in users[l]
    /\ phase[l] # "DISCONNECTING"
    /\ IF users[l] = {m} /\ phase[l] # "DOWN"
       THEN \/ Becomes(l, {}, "DISCONNECTING")
            \/ ~Reliable /\ Becomes(l, {}, phase[l])
       ELSE Becomes(l, users[l] \ {m}, phase[l])

Answered(l) ==
    /\ phase[l] = "CONNECTING"
    /\ Becomes(l, users[l], "UP")

\* The line is lost, given up, forced down or done with hanging up: the link is
\* down, and its users, who all lose it together, are told so.
Lose(l) ==
    \/ Becomes(l, {}, "DOWN")
    \/ ~Reliable /\ Becomes(l, users[l], "DOWN")

\* The server is gone, and what it knew.
Reset ==
    /\ users' = [l \in Links |-> {}]
    /\ phase' = [l \in Links |-> "DOWN"]

Next ==
    \/ \E l \in Links :
         \/ \E m \in Machines : Join(l, m) \/ Leave(l, m)
         \/ Answered(l)
         \/ Lose(l)
    \/ Reset

Spec == Init /\ [][Next]_vars

-----------------------------------------------------------------------------
\* With scripts that work a link is in use exactly while somebody wants it.
InUseWhileWanted ==
    Reliable => \A l \in Links : users[l] # {} <=> phase[l] \in {"CONNECTING", "UP"}

=============================================================================
