---------------------------- MODULE SlotConnection ----------------------------
(***************************************************************************)
(* connection.py: one TWS slot, shared by every asyncio task of the        *)
(* gateway.  Code between two awaits is one step.  connect() and           *)
(* disconnect() run under a FIFO asyncio.Lock; sync_connection_state(),    *)
(* the maintenance switch and the socket itself take no lock at all.       *)
(***************************************************************************)
EXTENDS Integers, Sequences, FiniteSets

CONSTANTS
    Sessions,       \* ib_insync IB objects, recycled once nothing refers to them
    NoSession,      \* Python None for a session
    Loop,           \* the slot's own reconnect_loop task
    Connectors,     \* other tasks that call connect(): the operator loop
    Disconnectors,  \* tasks that call disconnect(): operator, market and health loops
    Probers,        \* tasks that call verify_api_alive(): the health loop
    NoTask,         \* the lock has no holder
    NumClientIds,   \* len(cfg.client_ids)
    Maintainable,   \* TRUE: something uses enter_/exit_maintenance
    MaxDisruptions  \* bound on losses, hang-ups and other clients' moves

Tasks == {Loop} \union Connectors \union Disconnectors \union Probers
ClientIds == 0 .. NumClientIds - 1

ASSUME NumClientIdsAssumption == NumClientIds \in Nat \ {0}
ASSUME MaxDisruptionsAssumption == MaxDisruptions \in Nat
ASSUME MaintainableAssumption == Maintainable \in BOOLEAN
ASSUME NoSessionAssumption == NoSession \notin Sessions
ASSUME NoTaskAssumption == NoTask \notin Tasks

VARIABLES
    state,          \* self.state
    ib,             \* self.ib
    link,           \* the socket of each session: "down", "dialing" or "up"
    maintenance,    \* self._maintenance
    busy,           \* client ids that other programs hold on this TWS
    cidIndex,       \* self.current_cid_index
    lastError,      \* does self.last_error name a client id conflict?
    lock,           \* the holder of self._connect_lock
    waiters,        \* the tasks queued on it, oldest first
    pc,             \* where each task stands in its call on this slot
    cand,           \* connect()'s local ib of each task
    tries,          \* connect()'s loop iterations left after this one
    probe,          \* verify_api_alive()'s local ib of each task
    reconnects,     \* self.reconnects
    opened,         \* sessions ever handed out (history)
    disruptions     \* disruptions so far, at most MaxDisruptions

twsVars == <<busy, disruptions>>
lockVars == <<lock, waiters>>
callVars == <<pc, cand, tries, probe>>
vars == <<state, ib, link, maintenance, cidIndex, lastError, reconnects,
          opened, lockVars, callVars, twsVars>>

States == {"CONNECTED", "DISCONNECTED", "RECONNECTING", "MAINTENANCE"}
Calls == {"idle", "want_connect", "want_disconnect", "dialing", "backoff",
          "accounts", "probing"}

TypeOK ==
    /\ state \in States
    /\ ib \in Sessions \union {NoSession}
    /\ link \in [Sessions -> {"down", "dialing", "up"}]
    /\ maintenance \in BOOLEAN
    /\ busy \in SUBSET ClientIds
    /\ cidIndex \in ClientIds
    /\ lastError \in {"none", "conflict"}
    /\ lock \in Tasks \union {NoTask}
    /\ waiters \in Seq(Tasks)
    /\ pc \in [Tasks -> Calls]
    /\ cand \in [Tasks -> Sessions \union {NoSession}]
    /\ tries \in [Tasks -> ClientIds]
    /\ probe \in [Tasks -> Sessions \union {NoSession}]
    /\ reconnects \in Nat
    /\ opened \in Nat
    /\ disruptions \in 0 .. MaxDisruptions

Init ==
    /\ state = "DISCONNECTED"
    /\ ib = NoSession
    /\ link = [s \in Sessions |-> "down"]
    /\ maintenance = FALSE
    /\ busy \in (SUBSET ClientIds) \ {ClientIds}
    /\ cidIndex = 0
    /\ lastError = "none"
    /\ lock = NoTask
    /\ waiters = <<>>
    /\ pc = [t \in Tasks |-> "idle"]
    /\ cand = [t \in Tasks |-> NoSession]
    /\ tries = [t \in Tasks |-> 0]
    /\ probe = [t \in Tasks |-> NoSession]
    /\ reconnects = 0
    /\ opened = 0
    /\ disruptions = 0

-----------------------------------------------------------------------------
(* Helpers.                                                                *)

IsConnected(s) == s # NoSession /\ link[s] = "up"

\* factory(): a session object that nothing refers to.
Fresh(s) ==
    /\ s # ib
    /\ link[s] = "down"
    /\ \A t \in Tasks : cand[t] # s /\ probe[t] # s

\* Mutant of LockFree: the lock is not taken into account.
LockIgnored == TRUE

\* asyncio.Lock.acquire's fast path: unlocked and nobody queued.
LockFree == lock = NoTask /\ waiters = <<>>

\* Mutants of NextCid: no wrap-around; the refused id is tried again.
NextCidUnwrapped(c) == c + 1
NextCidStuck(c) == c

NextCid(c) == (c + 1) % NumClientIds

\* Mutant of HangUp: the reference is dropped, the socket stays open.
HangUpForgotten(s) == link

\* The links once session s (or none) has hung up.
HangUp(s) == [x \in Sessions |-> IF x = s THEN "down" ELSE link[x]]

\* Mutant of CountReconnect: every task's connect() is counted.
CountEveryConnect(t) == reconnects' = reconnects + 1

\* reconnect_loop counts every connect() that returned True to it.
CountReconnect(t) == reconnects' = reconnects + (IF t = Loop THEN 1 ELSE 0)

Disrupt == disruptions < MaxDisruptions /\ disruptions' = disruptions + 1

\* Attempt number NumClientIds - left of connect(), by t: a new session is
\* dialled once session old (or none) has hung up.
Dial(t, old, left) == \E s \in Sessions :
    /\ Fresh(s)
    /\ link' = [HangUp(old) EXCEPT ![s] = "dialing"]
    /\ cand' = [cand EXCEPT ![t] = s]
    /\ tries' = [tries EXCEPT ![t] = left]
    /\ pc' = [pc EXCEPT ![t] = "dialing"]

\* Mutant of ConnectBody: always dials, over a live session too.
ConnectBodyAlwaysDials(t) ==
    /\ state' = "RECONNECTING"
    /\ ib' = NoSession
    /\ lock' = t
    /\ Dial(t, ib, NumClientIds - 1)
    /\ UNCHANGED reconnects

\* connect() from the lock on: already connected, or the first attempt.
ConnectBody(t) ==
    \/ /\ IsConnected(ib)
       /\ state' = "CONNECTED"
       /\ pc' = [pc EXCEPT ![t] = "idle"]
       /\ CountReconnect(t)
       /\ UNCHANGED <<ib, link, lock, cand, tries>>
    \/ /\ ~IsConnected(ib)
       /\ state' = "RECONNECTING"
       /\ ib' = NoSession
       /\ lock' = t
       /\ Dial(t, ib, NumClientIds - 1)
       /\ UNCHANGED reconnects

\* disconnect() from the lock on; it never awaits while it holds it.
DisconnectBody(t) ==
    /\ link' = HangUp(ib)
    /\ ib' = NoSession
    /\ state' = "DISCONNECTED"
    /\ pc' = [pc EXCEPT ![t] = "idle"]
    /\ probe' = [probe EXCEPT ![t] = NoSession]

Enqueue(t, call) ==
    /\ waiters' = Append(waiters, t)
    /\ pc' = [pc EXCEPT ![t] = call]
    /\ UNCHANGED lock

\* Mutant of NextAttempt: giving up leaves the state as it is.
NextAttemptKeepsState(t) ==
    \/ /\ tries[t] > 0
       /\ Dial(t, cand[t], tries[t] - 1)
       /\ UNCHANGED <<state, lock>>
    \/ /\ tries[t] = 0
       /\ link' = HangUp(cand[t])
       /\ lock' = NoTask
       /\ pc' = [pc EXCEPT ![t] = "idle"]
       /\ cand' = [cand EXCEPT ![t] = NoSession]
       /\ UNCHANGED <<state, tries>>

\* An attempt by t is over and its session hung up: try the next client id,
\* or give up when every one had its turn.
NextAttempt(t) ==
    \/ /\ tries[t] > 0
       /\ Dial(t, cand[t], tries[t] - 1)
       /\ UNCHANGED <<state, lock>>
    \/ /\ tries[t] = 0
       /\ link' = HangUp(cand[t])
       /\ state' = "DISCONNECTED"
       /\ lock' = NoTask
       /\ pc' = [pc EXCEPT ![t] = "idle"]
       /\ cand' = [cand EXCEPT ![t] = NoSession]
       /\ UNCHANGED tries

-----------------------------------------------------------------------------
(* The calls.                                                              *)

\* connect().  reconnect_loop calls it only while the state is not CONNECTED.
CallConnect(t) ==
    /\ t \in {Loop} \union Connectors
    /\ pc[t] = "idle"
    /\ ~maintenance
    /\ t = Loop => state # "CONNECTED"
    /\ \/ LockFree /\ ConnectBody(t) /\ UNCHANGED waiters
       \/ /\ ~LockFree
          /\ Enqueue(t, "want_connect")
          /\ UNCHANGED <<state, ib, link, cand, tries, reconnects>>
    /\ UNCHANGED <<maintenance, cidIndex, lastError, probe, opened, twsVars>>

\* The disconnect() of task t, at once or queued.
Disconnect(t) ==
    \/ LockFree /\ DisconnectBody(t) /\ UNCHANGED lockVars
    \/ /\ ~LockFree
       /\ Enqueue(t, "want_disconnect")
       /\ UNCHANGED <<state, ib, link, probe>>

CallDisconnect(t) ==
    /\ t \in Disconnectors
    /\ pc[t] = "idle"
    /\ Disrupt
    /\ Disconnect(t)
    /\ UNCHANGED <<maintenance, cidIndex, lastError, cand, tries, reconnects,
                   opened, busy>>

\* The oldest waiter gets the lock and runs to its next await.
Grant(t) ==
    /\ lock = NoTask
    /\ waiters # <<>>
    /\ t = Head(waiters)
    /\ waiters' = Tail(waiters)
    /\ \/ pc[t] = "want_connect" /\ ConnectBody(t) /\ UNCHANGED probe
       \/ /\ pc[t] = "want_disconnect"
          /\ DisconnectBody(t)
          /\ UNCHANGED <<lock, cand, tries, reconnects>>
    /\ UNCHANGED <<maintenance, cidIndex, lastError, opened, twsVars>>

\* connectAsync returns a working session.  It is handed out at once; the
\* lock is kept while the managed accounts are awaited.
DialSucceed(t) ==
    /\ pc[t] = "dialing"
    /\ cidIndex \notin busy
    /\ ib' = cand[t]
    /\ link' = [link EXCEPT ![cand[t]] = "up"]
    /\ state' = "CONNECTED"
    /\ lastError' = "none"
    /\ opened' = opened + 1
    /\ cand' = [cand EXCEPT ![t] = NoSession]
    /\ \/ /\ pc' = [pc EXCEPT ![t] = "accounts"]
          /\ UNCHANGED <<lock, reconnects>>
       \/ /\ pc' = [pc EXCEPT ![t] = "idle"]
          /\ lock' = NoTask
          /\ CountReconnect(t)
    /\ UNCHANGED <<maintenance, cidIndex, waiters, tries, probe, twsVars>>

\* Mutant of AccountsDone: the accounts are awaited for as long as it takes.
AccountsAwaited(t) ==
    /\ pc[t] = "accounts"
    /\ IsConnected(ib)
    /\ pc' = [pc EXCEPT ![t] = "idle"]
    /\ lock' = NoTask
    /\ CountReconnect(t)
    /\ UNCHANGED <<state, ib, link, maintenance, cidIndex, lastError, waiters,
                   cand, tries, probe, opened, twsVars>>

\* The managed accounts arrived, or 20 polls went by without them.
AccountsDone(t) ==
    /\ pc[t] = "accounts"
    /\ pc' = [pc EXCEPT ![t] = "idle"]
    /\ lock' = NoTask
    /\ CountReconnect(t)
    /\ UNCHANGED <<state, ib, link, maintenance, cidIndex, lastError, waiters,
                   cand, tries, probe, opened, twsVars>>

\* The client id is taken: the next id is due, and the refused session is
\* hung up only after a second's sleep.  The exception that ends the attempt
\* may hide the conflict from last_error, never from cid_conflict.
DialConflict(t) ==
    /\ pc[t] = "dialing"
    /\ cidIndex \in busy
    /\ cidIndex' = NextCid(cidIndex)
    /\ pc' = [pc EXCEPT ![t] = "backoff"]
    /\ \E l \in {"up", "down"} : link' = [link EXCEPT ![cand[t]] = l]
    /\ lastError' \in {"none", "conflict"}
    /\ UNCHANGED <<state, ib, maintenance, lockVars, cand, tries, probe,
                   reconnects, opened, twsVars>>

\* The attempt fails for another reason.  With a message of its own the
\* error replaces last_error; an exception without text (TimeoutError) is
\* read as the error remembered from before, conflicts included.
DialFail(t) ==
    /\ pc[t] = "dialing"
    /\ \/ /\ lastError' = "none"
          /\ NextAttempt(t)
          /\ UNCHANGED cidIndex
       \/ /\ lastError = "conflict"
          /\ cidIndex' = NextCid(cidIndex)
          /\ pc' = [pc EXCEPT ![t] = "backoff"]
          /\ link' = HangUp(cand[t])
          /\ UNCHANGED <<state, lastError, lock, cand, tries>>
    /\ UNCHANGED <<ib, maintenance, waiters, probe, reconnects, opened, twsVars>>

\* Mutant of BackoffDone: a refused client id does not count as an attempt.
BackoffUncounted(t) ==
    /\ pc[t] = "backoff"
    /\ Dial(t, cand[t], tries[t])
    /\ UNCHANGED <<state, ib, maintenance, cidIndex, lastError, lockVars, probe,
                   reconnects, opened, twsVars>>

BackoffDone(t) ==
    /\ pc[t] = "backoff"
    /\ NextAttempt(t)
    /\ UNCHANGED <<ib, maintenance, cidIndex, lastError, waiters, probe,
                   reconnects, opened, twsVars>>

\* Mutant of Sync: the dead session is dropped, the state forgotten.
SyncKeepsState ==
    /\ state = "CONNECTED"
    /\ ~IsConnected(ib)
    /\ ib' = NoSession
    /\ UNCHANGED <<state, link, maintenance, cidIndex, lastError, lockVars,
                   callVars, reconnects, opened, twsVars>>

\* sync_connection_state(): any task, no lock.  (It changes nothing when the
\* state is not CONNECTED or the session is alive.)
Sync ==
    /\ state = "CONNECTED"
    /\ ~IsConnected(ib)
    /\ ib' = NoSession
    /\ state' = "DISCONNECTED"
    /\ UNCHANGED <<link, maintenance, cidIndex, lastError, lockVars, callVars,
                   reconnects, opened, twsVars>>

\* verify_api_alive() of a live session up to its await.
VerifyStart(t) ==
    /\ t \in Probers
    /\ pc[t] = "idle"
    /\ state = "CONNECTED"
    /\ IsConnected(ib)
    /\ pc' = [pc EXCEPT ![t] = "probing"]
    /\ probe' = [probe EXCEPT ![t] = ib]
    /\ UNCHANGED <<state, ib, link, maintenance, cidIndex, lastError, lockVars,
                   cand, tries, reconnects, opened, twsVars>>

VerifyOk(t) ==
    /\ pc[t] = "probing"
    /\ link[probe[t]] = "up"
    /\ pc' = [pc EXCEPT ![t] = "idle"]
    /\ probe' = [probe EXCEPT ![t] = NoSession]
    /\ UNCHANGED <<state, ib, link, maintenance, cidIndex, lastError, lockVars,
                   cand, tries, reconnects, opened, twsVars>>

\* No answer within the timeout: disconnect() whatever the slot holds by now.
\* A silent TWS behind an open socket is a disruption.
VerifyFail(t) ==
    /\ pc[t] = "probing"
    /\ \/ link[probe[t]] = "down" /\ UNCHANGED disruptions
       \/ link[probe[t]] = "up" /\ Disrupt
    /\ Disconnect(t)
    /\ UNCHANGED <<maintenance, cidIndex, lastError, cand, tries, reconnects,
                   opened, busy>>

EnterMaintenance ==
    /\ Maintainable
    /\ Disrupt
    /\ maintenance' = TRUE
    /\ state' = "MAINTENANCE"
    /\ UNCHANGED <<ib, link, cidIndex, lastError, lockVars, callVars, reconnects,
                   opened, busy>>

ExitMaintenance ==
    /\ Maintainable
    /\ maintenance
    /\ maintenance' = FALSE
    /\ UNCHANGED <<state, ib, link, cidIndex, lastError, lockVars, callVars,
                   reconnects, opened, twsVars>>

-----------------------------------------------------------------------------
(* The TWS side.                                                           *)

LinkDrop(s) ==
    /\ link[s] = "up"
    /\ Disrupt
    /\ link' = HangUp(s)
    /\ UNCHANGED <<state, ib, maintenance, cidIndex, lastError, lockVars,
                   callVars, reconnects, opened, busy>>

\* Another program takes or frees a client id, never the one in use by the
\* slot's own session; at least one stays free.
OtherClient(c) ==
    /\ Disrupt
    /\ \/ busy' = busy \ {c}
       \/ busy' = busy \union {c} /\ busy' # ClientIds
    /\ busy' # busy
    /\ c = cidIndex => ~IsConnected(ib)
    /\ UNCHANGED <<state, ib, link, maintenance, cidIndex, lastError, lockVars,
                   callVars, reconnects, opened>>

-----------------------------------------------------------------------------
TaskStep(t) ==
    \/ CallConnect(t)
    \/ CallDisconnect(t)
    \/ Grant(t)
    \/ DialSucceed(t)
    \/ DialConflict(t)
    \/ DialFail(t)
    \/ BackoffDone(t)
    \/ AccountsDone(t)
    \/ VerifyStart(t)
    \/ VerifyOk(t)
    \/ VerifyFail(t)

Next ==
    \/ \E t \in Tasks : TaskStep(t)
    \/ Sync
    \/ EnterMaintenance
    \/ ExitMaintenance
    \/ \E s \in Sessions : LinkDrop(s)
    \/ \E c \in ClientIds : OtherClient(c)

Spec == Init /\ [][Next]_vars

\* What ends an await of task t.
Return(t) ==
    \/ Grant(t)
    \/ DialConflict(t)
    \/ DialFail(t)
    \/ DialSucceed(t)
    \/ BackoffDone(t)
    \/ AccountsDone(t)
    \/ VerifyOk(t)
    \/ VerifyFail(t)

\* Every await is bounded (30 s dials, 1 s and 5 s sleeps, 8 s probes), the
\* reconnect loop and the callers of sync_connection_state come round again
\* and again, and a TWS dialled over and over ends up accepting a free client
\* id and refusing a taken one.
Fairness ==
    /\ \A t \in Tasks :
         WF_vars(Return(t)) /\ SF_vars(DialSucceed(t)) /\ SF_vars(DialConflict(t))
    /\ WF_vars(CallConnect(Loop))
    /\ WF_vars(Sync)

FairSpec == Spec /\ Fairness

-----------------------------------------------------------------------------
(* Properties.                                                             *)

\* "1 active ib_insync IB session at a time" (the class's docstring): never
\* two sockets to the TWS open or being opened, whoever calls what and when.
OneActiveSession ==
    \A s1, s2 \in Sessions : link[s1] # "down" /\ link[s2] # "down" => s1 = s2

\* A socket is open only while somebody can still close it: the slot hands
\* its session out, or the connect() that holds the lock is dialling it.
NoOrphanSession ==
    \A s \in Sessions : link[s] # "down" =>
        s = ib \/ (lock # NoTask /\ cand[lock] = s)

\* What state promises to code that reads ib right after it without checking
\* (live.py's handlers): CONNECTED comes with a session, the two states
\* without a connection do not.
StateMatchesIb ==
    /\ state = "CONNECTED" => ib # NoSession
    /\ state \in {"DISCONNECTED", "RECONNECTING"} => ib = NoSession

\* Nothing is left RECONNECTING by a connect() that is over.
ReconnectingIsHeld ==
    state = "RECONNECTING" => lock # NoTask /\ pc[lock] \in {"dialing", "backoff"}

\* reconnects counts sessions, not calls: a reconnect_loop that waited for
\* somebody else's connect() counts that session once at most.
ReconnectsCountSessions == reconnects <= opened

\* The awaits before the lock's holder lets go: a dial and a sleep for each
\* client id left, or the wait for the accounts.
AwaitsLeft ==
    CASE pc[lock] = "dialing" -> 2 * tries[lock] + 2
      [] pc[lock] = "backoff" -> 2 * tries[lock] + 1
      [] pc[lock] = "accounts" -> 1

\* How long the callers behind a connect() may have to wait: it ends after two
\* awaits per client id, each of which is bounded in time.  Whatever is
\* refused, times out, drops or queues meanwhile, no step gives the holder
\* more awaits, and each that returns takes one away.
HoldIsBounded ==
    [][lock' # NoTask =>
         \/ lock = NoTask /\ AwaitsLeft' <= 2 * NumClientIds
         \/ lock = lock' /\ AwaitsLeft' <= AwaitsLeft - (IF Return(lock) THEN 1 ELSE 0)]_vars

\* Everybody gets an answer: no call on the slot waits for ever, behind
\* whatever queue of dials and hang-ups (the operator loop answers no other
\* command meanwhile).
CallsReturn == \A t \in Tasks : pc[t] # "idle" ~> pc[t] = "idle"

\* However the losses, hang-ups and refused client ids fall, once they stop
\* the slot ends up handing out a live session and keeps it.
Recovers == <>[](state = "CONNECTED" /\ IsConnected(ib))

\* verify_api_alive() "False -> mark disconnected": the probe that failed
\* condemns the session it probed and no other one.
VerdictHitsProbedSession ==
    [][\A t \in Tasks :
         probe[t] # NoSession /\ probe'[t] = NoSession /\ ib' # ib =>
             ib = probe[t]]_vars

\* The slot implements the one-session slot.
Slot == INSTANCE SlotSession WITH
    live <- {s \in Sessions : link[s] # "down"}, current <- ib
SlotSpec == Slot!Spec
=============================================================================
