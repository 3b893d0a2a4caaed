----------------------------- MODULE SlotSession -----------------------------
(***************************************************************************)
(* What one TWS slot promises the rest of the gateway, without its lock,   *)
(* its client ids or its callers: sessions are opened one at a time, the   *)
(* session that the slot hands out is the only one alive, and a session    *)
(* that ended never comes back.  SlotConnection implements this.           *)
(***************************************************************************)
CONSTANTS
    Sessions,   \* identities of ib_insync IB objects
    NoSession   \* the slot hands out no session (Python None); not in Sessions

VARIABLES
    live,       \* sessions whose socket is open or being opened
    current     \* the session the slot hands out, or NoSession

vars == <<live, current>>

Init ==
    /\ live = {}
    /\ current = NoSession

\* A new session is dialled; the one handed out before, if any, has ended.
Dial(s) ==
    /\ current \notin live
    /\ s \notin live
    /\ live' = {s}
    /\ current' = NoSession

\* The dialled session is up and is handed out from now on.
Accept(s) ==
    /\ live = {s}
    /\ current = NoSession
    /\ current' = s
    /\ UNCHANGED live

\* A session ends by itself; the slot may still hand it out for a while.
Drop(s) ==
    /\ s \in live
    /\ live' = live \ {s}
    /\ UNCHANGED current

\* The slot gives up the session it hands out, which ends with it.
Release ==
    /\ current # NoSession
    /\ live' = live \ {current}
    /\ current' = NoSession

Next ==
    \/ \E s \in Sessions : Dial(s) \/ Accept(s) \/ Drop(s)
    \/ Release

Spec == Init /\ [][Next]_vars
=============================================================================
