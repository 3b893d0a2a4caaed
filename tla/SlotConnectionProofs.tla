------------------------- MODULE SlotConnectionProofs -------------------------
(***************************************************************************)
(* Theorems of SlotConnection, for any number of tasks, sessions, client   *)
(* ids and disruptions: its type invariant, its safety invariants, and     *)
(* that it implements SlotSession.                                         *)
(***************************************************************************)
EXTENDS SlotConnection, TLAPS

(* The inductive invariant.                                                *)

Dialing == {"dialing", "backoff"}
Holding == {"dialing", "backoff", "accounts"}

\* The lock's holder is the one task past connect()'s first await.
LockInv == \A t \in Tasks : lock = t <=> pc[t] \in Holding

\* A task has a candidate session exactly while it dials.
CandInv == \A t \in Tasks : cand[t] # NoSession <=> pc[t] \in Dialing

\* While anybody dials the slot hands out nothing.
DialInv == \A t \in Tasks : pc[t] \in Dialing => ib = NoSession

\* A session is never handed out half-open.
IbInv == \A s \in Sessions : link[s] = "dialing" => s # ib

\* A dialling task's candidate is being opened.
LinkInv == \A t \in Tasks : pc[t] = "dialing" => link[cand[t]] = "dialing"

Core ==
    /\ LockInv
    /\ CandInv
    /\ DialInv
    /\ IbInv
    /\ LinkInv
    /\ NoOrphanSession
    /\ StateMatchesIb
    /\ ReconnectingIsHeld

IInv == TypeOK /\ Core

-----------------------------------------------------------------------------
LEMMA InitIInv == Init => IInv
  <1> SUFFICES ASSUME Init PROVE IInv
    OBVIOUS
  <1> USE DEF Init
  <1>1. TypeOK
    <2>1. cidIndex \in ClientIds /\ tries \in [Tasks -> ClientIds]
      BY NumClientIdsAssumption DEF ClientIds
    <2>2. disruptions \in 0 .. MaxDisruptions
      BY MaxDisruptionsAssumption
    <2>3. waiters \in Seq(Tasks)
      OBVIOUS
    <2>4. busy \in SUBSET ClientIds
      OBVIOUS
    <2> QED
      BY <2>1, <2>2, <2>3, <2>4 DEF TypeOK, States, Calls
  <1>2. LockInv
    BY NoTaskAssumption DEF LockInv, Holding
  <1>3. CandInv /\ DialInv /\ IbInv /\ LinkInv
    BY DEF CandInv, DialInv, IbInv, LinkInv, Dialing
  <1>4. NoOrphanSession /\ StateMatchesIb /\ ReconnectingIsHeld
    BY DEF NoOrphanSession, StateMatchesIb, ReconnectingIsHeld
  <1> QED
    BY <1>1, <1>2, <1>3, <1>4 DEF IInv, Core

-----------------------------------------------------------------------------
(* Steps that several actions share.                                       *)

LEMMA HangUpType ==
  ASSUME TypeOK, NEW s
  PROVE  HangUp(s) \in [Sessions -> {"down", "dialing", "up"}]
  BY DEF TypeOK, HangUp

\* A task outside the lock moves between states outside the lock.
LEMMA QuietStep ==
  ASSUME IInv, NEW t \in Tasks, pc[t] \notin Holding,
         NEW v \in Calls \ Holding, pc' = [pc EXCEPT ![t] = v],
         UNCHANGED <<state, ib, link, lock, cand>>
  PROVE  Core'
  <1> USE DEF IInv, Core
  <1>1. LockInv'
    BY DEF TypeOK, LockInv
  <1>2. CandInv' /\ DialInv' /\ IbInv' /\ LinkInv'
    BY DEF TypeOK, CandInv, DialInv, IbInv, LinkInv, Dialing, Holding
  <1>3. NoOrphanSession' /\ StateMatchesIb'
    BY DEF NoOrphanSession, StateMatchesIb
  <1>4. ReconnectingIsHeld'
    BY DEF TypeOK, ReconnectingIsHeld, Holding
  <1> QED
    BY <1>1, <1>2, <1>3, <1>4

LEMMA DisconnectBodyStep ==
  ASSUME IInv, NEW t \in Tasks, lock = NoTask, DisconnectBody(t),
         UNCHANGED <<lock, cand>>
  PROVE  Core'
  <1> USE DEF IInv, Core, DisconnectBody
  <1>1. LockInv'
    BY NoTaskAssumption DEF TypeOK, LockInv, Holding
  <1>2. CandInv' /\ DialInv'
    BY NoTaskAssumption DEF TypeOK, CandInv, DialInv, LockInv, Dialing, Holding
  <1>3. IbInv'
    BY NoSessionAssumption DEF IbInv
  <1>4. NoOrphanSession'
    BY DEF TypeOK, NoOrphanSession, HangUp
  <1>5. StateMatchesIb' /\ ReconnectingIsHeld'
    BY DEF StateMatchesIb, ReconnectingIsHeld
  <1>6. LinkInv'
    BY NoTaskAssumption DEF TypeOK, LinkInv, LockInv, Holding
  <1> QED
    BY <1>1, <1>2, <1>3, <1>4, <1>5, <1>6

LEMMA ConnectBodyStep ==
  ASSUME IInv, NEW t \in Tasks, lock = NoTask, pc[t] \notin Holding,
         ConnectBody(t)
  PROVE  Core'
  <1> USE DEF IInv, Core
  <1>1. CASE IsConnected(ib) /\ state' = "CONNECTED"
             /\ pc' = [pc EXCEPT ![t] = "idle"]
             /\ UNCHANGED <<ib, link, lock, cand>>
    <2> USE <1>1
    <2>1. LockInv' /\ CandInv' /\ DialInv' /\ IbInv' /\ LinkInv'
      BY DEF TypeOK, LockInv, CandInv, DialInv, IbInv, LinkInv, Dialing, Holding
    <2>2. NoOrphanSession' /\ StateMatchesIb' /\ ReconnectingIsHeld'
      BY DEF NoOrphanSession, StateMatchesIb, ReconnectingIsHeld, IsConnected
    <2> QED
      BY <2>1, <2>2
  <1>2. CASE state' = "RECONNECTING" /\ ib' = NoSession /\ lock' = t
             /\ Dial(t, ib, NumClientIds - 1)
    <2> USE <1>2
    <2>1. PICK s \in Sessions :
            /\ link' = [HangUp(ib) EXCEPT ![s] = "dialing"]
            /\ cand' = [cand EXCEPT ![t] = s]
            /\ pc' = [pc EXCEPT ![t] = "dialing"]
      BY DEF Dial
    <2>2. LockInv'
      BY <2>1, NoTaskAssumption DEF TypeOK, LockInv, Holding
    <2>3. CandInv' /\ DialInv'
      BY <2>1, NoSessionAssumption DEF TypeOK, CandInv, DialInv, Dialing
    <2>4. IbInv'
      BY NoSessionAssumption DEF IbInv
    <2>5. \A x \in Sessions : x # s => link'[x] = "down"
      BY <2>1 DEF HangUp, NoOrphanSession
    <2>6. NoOrphanSession'
      BY <2>1, <2>5, NoTaskAssumption DEF TypeOK, NoOrphanSession
    <2>7. StateMatchesIb' /\ ReconnectingIsHeld'
      BY <2>1, NoTaskAssumption DEF TypeOK, StateMatchesIb, ReconnectingIsHeld
    <2>8. LinkInv'
      BY <2>1, <2>2, HangUpType DEF TypeOK, LinkInv, LockInv, Holding
    <2> QED
      BY <2>2, <2>3, <2>4, <2>6, <2>7, <2>8
  <1> QED
    BY <1>1, <1>2 DEF ConnectBody

LEMMA NextAttemptStep ==
  ASSUME IInv, NEW t \in Tasks, pc[t] \in Dialing, NextAttempt(t),
         UNCHANGED ib
  PROVE  Core'
  <1> USE DEF IInv, Core
  <1>1. lock = t /\ ib = NoSession
    BY DEF LockInv, DialInv, Dialing, Holding
  <1>2. CASE Dial(t, cand[t], tries[t] - 1) /\ UNCHANGED <<state, lock>>
    <2> USE <1>2
    <2>1. PICK s \in Sessions :
            /\ link' = [HangUp(cand[t]) EXCEPT ![s] = "dialing"]
            /\ cand' = [cand EXCEPT ![t] = s]
            /\ pc' = [pc EXCEPT ![t] = "dialing"]
      BY DEF Dial
    <2>2. LockInv'
      BY <1>1, <2>1 DEF TypeOK, LockInv, Holding
    <2>3. CandInv' /\ DialInv'
      BY <1>1, <2>1, NoSessionAssumption DEF TypeOK, CandInv, DialInv, Dialing
    <2>4. IbInv'
      BY <1>1, NoSessionAssumption DEF IbInv
    <2>5. \A x \in Sessions : x # s => link'[x] = "down"
      BY <1>1, <2>1, NoSessionAssumption DEF HangUp, NoOrphanSession
    <2>6. NoOrphanSession'
      BY <1>1, <2>1, <2>5, NoTaskAssumption DEF TypeOK, NoOrphanSession
    <2>7. StateMatchesIb' /\ ReconnectingIsHeld'
      BY <1>1, <2>1, NoTaskAssumption
      DEF TypeOK, StateMatchesIb, ReconnectingIsHeld
    <2>8. LinkInv'
      BY <1>1, <2>1, <2>2, HangUpType DEF TypeOK, LinkInv, LockInv, Holding
    <2> QED
      BY <2>2, <2>3, <2>4, <2>6, <2>7, <2>8
  <1>3. CASE /\ link' = HangUp(cand[t])
             /\ state' = "DISCONNECTED"
             /\ lock' = NoTask
             /\ pc' = [pc EXCEPT ![t] = "idle"]
             /\ cand' = [cand EXCEPT ![t] = NoSession]
    <2> USE <1>3
    <2>1. LockInv'
      BY <1>1, NoTaskAssumption DEF TypeOK, LockInv, Holding
    <2>2. CandInv' /\ DialInv'
      BY <1>1 DEF TypeOK, CandInv, DialInv, Dialing
    <2>3. IbInv'
      BY <1>1, NoSessionAssumption DEF IbInv
    <2>4. NoOrphanSession'
      BY <1>1, NoSessionAssumption DEF NoOrphanSession, HangUp
    <2>5. StateMatchesIb' /\ ReconnectingIsHeld'
      BY <1>1 DEF StateMatchesIb, ReconnectingIsHeld
    <2>6. LinkInv'
      BY <1>1, NoTaskAssumption DEF TypeOK, LinkInv, LockInv, Holding
    <2> QED
      BY <2>1, <2>2, <2>3, <2>4, <2>5, <2>6
  <1> QED
    BY <1>2, <1>3 DEF NextAttempt

-----------------------------------------------------------------------------
(* Type correctness.                                                       *)

LEMMA CidFacts ==
  /\ 0 \in ClientIds
  /\ NumClientIds - 1 \in ClientIds
  /\ \A c \in ClientIds : NextCid(c) \in ClientIds
  /\ \A c \in ClientIds : c > 0 => c - 1 \in ClientIds
  <1>1. \A c \in ClientIds : NextCid(c) \in ClientIds
    BY NumClientIdsAssumption DEF ClientIds, NextCid
  <1> QED
    BY <1>1, NumClientIdsAssumption DEF ClientIds

LEMMA DialType ==
  ASSUME TypeOK, NEW t \in Tasks, NEW old, NEW left \in ClientIds,
         Dial(t, old, left)
  PROVE  /\ link' \in [Sessions -> {"down", "dialing", "up"}]
         /\ cand' \in [Tasks -> Sessions \union {NoSession}]
         /\ tries' \in [Tasks -> ClientIds]
         /\ pc' \in [Tasks -> Calls]
  BY HangUpType DEF Dial, TypeOK, Calls

LEMMA ConnectBodyType ==
  ASSUME TypeOK, NEW t \in Tasks, ConnectBody(t)
  PROVE  /\ state' \in States
         /\ ib' \in Sessions \union {NoSession}
         /\ link' \in [Sessions -> {"down", "dialing", "up"}]
         /\ lock' \in Tasks \union {NoTask}
         /\ cand' \in [Tasks -> Sessions \union {NoSession}]
         /\ tries' \in [Tasks -> ClientIds]
         /\ pc' \in [Tasks -> Calls]
         /\ reconnects' \in Nat
  <1>1. CASE Dial(t, ib, NumClientIds - 1) /\ ConnectBody(t)
    BY <1>1, DialType, CidFacts
    DEF ConnectBody, TypeOK, States, CountReconnect, Calls
  <1>2. CASE ~Dial(t, ib, NumClientIds - 1)
    BY <1>2 DEF ConnectBody, TypeOK, States, CountReconnect, Calls
  <1> QED
    BY <1>1, <1>2

LEMMA DisconnectBodyType ==
  ASSUME TypeOK, NEW t \in Tasks, DisconnectBody(t)
  PROVE  /\ state' \in States
         /\ ib' \in Sessions \union {NoSession}
         /\ link' \in [Sessions -> {"down", "dialing", "up"}]
         /\ pc' \in [Tasks -> Calls]
         /\ probe' \in [Tasks -> Sessions \union {NoSession}]
  BY HangUpType DEF DisconnectBody, TypeOK, States, Calls

LEMMA EnqueueType ==
  ASSUME TypeOK, NEW t \in Tasks, NEW c \in Calls, Enqueue(t, c)
  PROVE  waiters' \in Seq(Tasks) /\ pc' \in [Tasks -> Calls]
  BY DEF Enqueue, TypeOK

LEMMA DisconnectType ==
  ASSUME TypeOK, NEW t \in Tasks, Disconnect(t)
  PROVE  /\ state' \in States
         /\ ib' \in Sessions \union {NoSession}
         /\ link' \in [Sessions -> {"down", "dialing", "up"}]
         /\ lock' \in Tasks \union {NoTask}
         /\ waiters' \in Seq(Tasks)
         /\ pc' \in [Tasks -> Calls]
         /\ probe' \in [Tasks -> Sessions \union {NoSession}]
  <1>1. CASE DisconnectBody(t) /\ UNCHANGED lockVars
    BY <1>1, DisconnectBodyType DEF TypeOK, lockVars
  <1>2. CASE Enqueue(t, "want_disconnect") /\ UNCHANGED <<state, ib, link, probe>>
    BY <1>2, EnqueueType DEF TypeOK, Calls, Enqueue
  <1> QED
    BY <1>1, <1>2 DEF Disconnect

LEMMA NextAttemptType ==
  ASSUME TypeOK, NEW t \in Tasks, NextAttempt(t)
  PROVE  /\ state' \in States
         /\ link' \in [Sessions -> {"down", "dialing", "up"}]
         /\ lock' \in Tasks \union {NoTask}
         /\ cand' \in [Tasks -> Sessions \union {NoSession}]
         /\ tries' \in [Tasks -> ClientIds]
         /\ pc' \in [Tasks -> Calls]
  <1>1. CASE /\ tries[t] > 0
             /\ Dial(t, cand[t], tries[t] - 1)
             /\ UNCHANGED <<state, lock>>
    <2>1. tries[t] - 1 \in ClientIds
      BY <1>1, CidFacts DEF TypeOK
    <2> QED
      BY <1>1, <2>1, DialType DEF TypeOK
  <1>2. CASE /\ link' = HangUp(cand[t])
             /\ state' = "DISCONNECTED"
             /\ lock' = NoTask
             /\ pc' = [pc EXCEPT ![t] = "idle"]
             /\ cand' = [cand EXCEPT ![t] = NoSession]
             /\ UNCHANGED tries
    BY <1>2, HangUpType DEF TypeOK, States, Calls
  <1> QED
    BY <1>1, <1>2 DEF NextAttempt

LEMMA TaskStepType ==
  ASSUME TypeOK, NEW t \in Tasks, TaskStep(t)
  PROVE  TypeOK'
  <1> USE DEF lockVars, callVars, twsVars
  <1>1. CASE CallConnect(t)
    <2>1. CASE LockFree /\ ConnectBody(t) /\ UNCHANGED waiters
      BY <1>1, <2>1, ConnectBodyType DEF CallConnect, TypeOK
    <2>2. CASE /\ Enqueue(t, "want_connect")
               /\ UNCHANGED <<state, ib, link, cand, tries, reconnects>>
      BY <1>1, <2>2, EnqueueType DEF CallConnect, TypeOK, Calls, Enqueue
    <2> QED
      BY <1>1, <2>1, <2>2 DEF CallConnect
  <1>2. CASE CallDisconnect(t)
    BY <1>2, DisconnectType, MaxDisruptionsAssumption
    DEF CallDisconnect, TypeOK, Disrupt
  <1>3. CASE Grant(t)
    <2>1. waiters' \in Seq(Tasks)
      BY <1>3 DEF Grant, TypeOK
    <2>2. CASE ConnectBody(t) /\ UNCHANGED probe
      BY <1>3, <2>1, <2>2, ConnectBodyType DEF Grant, TypeOK
    <2>3. CASE DisconnectBody(t) /\ UNCHANGED <<lock, cand, tries, reconnects>>
      BY <1>3, <2>1, <2>3, DisconnectBodyType DEF Grant, TypeOK
    <2> QED
      BY <1>3, <2>2, <2>3 DEF Grant
  <1>4. CASE DialSucceed(t)
    <2>1. link' \in [Sessions -> {"down", "dialing", "up"}]
      BY <1>4 DEF DialSucceed, TypeOK
    <2> QED
      BY <1>4, <2>1 DEF DialSucceed, TypeOK, States, Calls, CountReconnect
  <1>5. CASE DialConflict(t)
    <2>1. link' \in [Sessions -> {"down", "dialing", "up"}]
      BY <1>5 DEF DialConflict, TypeOK
    <2> QED
      BY <1>5, <2>1, CidFacts DEF DialConflict, TypeOK, Calls
  <1>6. CASE DialFail(t)
    <2>1. CASE lastError' = "none" /\ NextAttempt(t) /\ UNCHANGED cidIndex
      BY <1>6, <2>1, NextAttemptType DEF DialFail, TypeOK
    <2>2. CASE /\ cidIndex' = NextCid(cidIndex)
               /\ pc' = [pc EXCEPT ![t] = "backoff"]
               /\ link' = HangUp(cand[t])
               /\ UNCHANGED <<state, lastError, lock, cand, tries>>
      BY <1>6, <2>2, HangUpType, CidFacts DEF DialFail, TypeOK, Calls
    <2> QED
      BY <1>6, <2>1, <2>2 DEF DialFail
  <1>7. CASE BackoffDone(t)
    BY <1>7, NextAttemptType DEF BackoffDone, TypeOK
  <1>8. CASE AccountsDone(t)
    BY <1>8 DEF AccountsDone, TypeOK, Calls, CountReconnect
  <1>9. CASE VerifyStart(t)
    BY <1>9 DEF VerifyStart, TypeOK, Calls
  <1>10. CASE VerifyOk(t)
    BY <1>10 DEF VerifyOk, TypeOK, Calls
  <1>11. CASE VerifyFail(t)
    BY <1>11, DisconnectType, MaxDisruptionsAssumption
    DEF VerifyFail, TypeOK, Disrupt
  <1> QED
    BY <1>1, <1>2, <1>3, <1>4, <1>5, <1>6, <1>7, <1>8, <1>9, <1>10, <1>11
    DEF TaskStep

LEMMA NextType == TypeOK /\ [Next]_vars => TypeOK'
  <1> SUFFICES ASSUME TypeOK, [Next]_vars PROVE TypeOK'
    OBVIOUS
  <1> USE DEF lockVars, callVars, twsVars
  <1>1. ASSUME NEW t \in Tasks, TaskStep(t) PROVE TypeOK'
    BY <1>1, TaskStepType
  <1>2. CASE Sync
    BY <1>2 DEF Sync, TypeOK, States
  <1>3. CASE EnterMaintenance
    BY <1>3, MaxDisruptionsAssumption
    DEF EnterMaintenance, TypeOK, States, Disrupt
  <1>4. CASE ExitMaintenance
    BY <1>4 DEF ExitMaintenance, TypeOK
  <1>5. ASSUME NEW s \in Sessions, LinkDrop(s) PROVE TypeOK'
    BY <1>5, HangUpType, MaxDisruptionsAssumption DEF LinkDrop, TypeOK, Disrupt
  <1>6. ASSUME NEW c \in ClientIds, OtherClient(c) PROVE TypeOK'
    BY <1>6, MaxDisruptionsAssumption DEF OtherClient, TypeOK, Disrupt
  <1>7. CASE UNCHANGED vars
    BY <1>7 DEF vars, TypeOK
  <1> QED
    BY <1>1, <1>2, <1>3, <1>4, <1>5, <1>6, <1>7 DEF Next

-----------------------------------------------------------------------------
(* Preservation of the rest of the invariant.                              *)

LEMMA DisconnectCore ==
  ASSUME IInv, NEW t \in Tasks, pc[t] \in {"idle", "probing"}, Disconnect(t),
         UNCHANGED cand
  PROVE  Core'
  <1>1. CASE LockFree /\ DisconnectBody(t) /\ UNCHANGED lockVars
    BY <1>1, DisconnectBodyStep DEF LockFree, lockVars
  <1>2. CASE Enqueue(t, "want_disconnect") /\ UNCHANGED <<state, ib, link, probe>>
    BY <1>2, QuietStep DEF Enqueue, Holding, Calls
  <1> QED
    BY <1>1, <1>2 DEF Disconnect

LEMMA DialSucceedCore ==
  ASSUME IInv, NEW t \in Tasks, DialSucceed(t)
  PROVE  Core'
  <1> USE DEF IInv, Core, DialSucceed
  <1>1. lock = t /\ ib = NoSession /\ cand[t] \in Sessions
    BY DEF TypeOK, LockInv, DialInv, CandInv, Dialing, Holding
  <1>2. LockInv'
    BY <1>1, NoTaskAssumption DEF TypeOK, LockInv, Holding
  <1>3. CandInv'
    BY <1>1 DEF TypeOK, CandInv, Dialing
  <1>4. DialInv'
    BY <1>1 DEF TypeOK, DialInv, LockInv, Dialing, Holding
  <1>5. IbInv'
    BY <1>1 DEF TypeOK, IbInv
  <1>6. \A x \in Sessions : x # cand[t] => link'[x] = "down"
    BY <1>1, NoSessionAssumption DEF TypeOK, NoOrphanSession
  <1>7. NoOrphanSession' /\ StateMatchesIb' /\ ReconnectingIsHeld'
    BY <1>1, <1>6, NoSessionAssumption
    DEF NoOrphanSession, StateMatchesIb, ReconnectingIsHeld
  <1>8. LinkInv'
    BY <1>1 DEF TypeOK, LinkInv, LockInv, Holding
  <1> QED
    BY <1>2, <1>3, <1>4, <1>5, <1>7, <1>8

\* A refused or failed dial turns into a backoff.
LEMMA BackoffCore ==
  ASSUME IInv, NEW t \in Tasks, pc[t] = "dialing",
         pc' = [pc EXCEPT ![t] = "backoff"],
         NEW l \in {"up", "down"}, link' = [link EXCEPT ![cand[t]] = l],
         UNCHANGED <<state, ib, lock, cand>>
  PROVE  Core'
  <1> USE DEF IInv, Core
  <1>1. LockInv'
    BY DEF TypeOK, LockInv, Holding
  <1>2. CandInv' /\ DialInv' /\ IbInv'
    BY DEF TypeOK, CandInv, DialInv, IbInv, Dialing
  <1>3. NoOrphanSession'
    BY NoTaskAssumption DEF TypeOK, NoOrphanSession, LockInv, Holding
  <1>4. StateMatchesIb' /\ ReconnectingIsHeld'
    BY DEF TypeOK, StateMatchesIb, ReconnectingIsHeld
  <1>5. LinkInv'
    BY DEF TypeOK, LinkInv, LockInv, Holding
  <1> QED
    BY <1>1, <1>2, <1>3, <1>4, <1>5

LEMMA AccountsDoneCore ==
  ASSUME IInv, NEW t \in Tasks, AccountsDone(t)
  PROVE  Core'
  <1> USE DEF IInv, Core, AccountsDone
  <1>1. lock = t /\ cand[t] = NoSession
    BY DEF LockInv, CandInv, Dialing, Holding
  <1>2. LockInv'
    BY <1>1, NoTaskAssumption DEF TypeOK, LockInv, Holding
  <1>3. CandInv' /\ DialInv' /\ IbInv' /\ LinkInv'
    BY DEF TypeOK, CandInv, DialInv, IbInv, LinkInv, Dialing
  <1>4. NoOrphanSession'
    <2>1. \A s \in Sessions : link[s] # "down" => s = ib
      BY <1>1, NoSessionAssumption DEF NoOrphanSession
    <2>2. link' = link /\ ib' = ib
      OBVIOUS
    <2> QED
      BY <2>1, <2>2 DEF NoOrphanSession
  <1>5. StateMatchesIb' /\ ReconnectingIsHeld'
    BY <1>1 DEF StateMatchesIb, ReconnectingIsHeld
  <1> QED
    BY <1>2, <1>3, <1>4, <1>5

LEMMA TaskStepCore ==
  ASSUME IInv, NEW t \in Tasks, TaskStep(t)
  PROVE  Core'
  <1>1. CASE CallConnect(t)
    <2>1. CASE LockFree /\ ConnectBody(t)
      BY <1>1, <2>1, ConnectBodyStep DEF CallConnect, LockFree, Holding
    <2>2. CASE /\ Enqueue(t, "want_connect")
               /\ UNCHANGED <<state, ib, link, cand, tries, reconnects>>
      BY <1>1, <2>2, QuietStep DEF CallConnect, Enqueue, Holding, Calls
    <2> QED
      BY <1>1, <2>1, <2>2 DEF CallConnect
  <1>2. CASE CallDisconnect(t)
    BY <1>2, DisconnectCore DEF CallDisconnect
  <1>3. CASE Grant(t)
    BY <1>3, ConnectBodyStep, DisconnectBodyStep DEF Grant, Holding
  <1>4. CASE DialSucceed(t)
    BY <1>4, DialSucceedCore
  <1>5. CASE DialConflict(t)
    BY <1>5, BackoffCore DEF DialConflict, lockVars
  <1>6. CASE DialFail(t)
    <2>1. CASE NextAttempt(t)
      BY <1>6, <2>1, NextAttemptStep DEF DialFail, Dialing
    <2>2. CASE /\ pc' = [pc EXCEPT ![t] = "backoff"]
               /\ link' = HangUp(cand[t])
               /\ UNCHANGED <<state, lastError, lock, cand, tries>>
      <3>1. link' = [link EXCEPT ![cand[t]] = "down"]
        BY <2>2 DEF HangUp, IInv, TypeOK
      <3> QED
        BY <1>6, <2>2, <3>1, BackoffCore DEF DialFail
    <2> QED
      BY <1>6, <2>1, <2>2 DEF DialFail
  <1>7. CASE BackoffDone(t)
    BY <1>7, NextAttemptStep DEF BackoffDone, Dialing
  <1>8. CASE AccountsDone(t)
    BY <1>8, AccountsDoneCore
  <1>9. CASE VerifyStart(t)
    BY <1>9, QuietStep DEF VerifyStart, lockVars, Holding, Calls
  <1>10. CASE VerifyOk(t)
    BY <1>10, QuietStep DEF VerifyOk, lockVars, Holding, Calls
  <1>11. CASE VerifyFail(t)
    BY <1>11, DisconnectCore DEF VerifyFail
  <1> QED
    BY <1>1, <1>2, <1>3, <1>4, <1>5, <1>6, <1>7, <1>8, <1>9, <1>10, <1>11
    DEF TaskStep

LEMMA NextCore == IInv /\ [Next]_vars => Core'
  <1> SUFFICES ASSUME IInv, [Next]_vars PROVE Core'
    OBVIOUS
  <1> USE DEF lockVars, callVars, twsVars
  <1>1. ASSUME NEW t \in Tasks, TaskStep(t) PROVE Core'
    BY <1>1, TaskStepCore
  <1>2. CASE Sync
    <2> USE <1>2 DEF IInv, Core, Sync
    <2>1. LockInv' /\ CandInv' /\ DialInv' /\ LinkInv'
      BY DEF LockInv, CandInv, DialInv, LinkInv
    <2>2. IbInv' /\ NoOrphanSession'
      BY NoSessionAssumption
      DEF IbInv, NoOrphanSession, IsConnected, TypeOK, StateMatchesIb
    <2>3. StateMatchesIb' /\ ReconnectingIsHeld'
      BY DEF StateMatchesIb, ReconnectingIsHeld
    <2> QED
      BY <2>1, <2>2, <2>3
  <1>3. CASE EnterMaintenance
    BY <1>3
    DEF EnterMaintenance, IInv, Core, LockInv, CandInv, DialInv, IbInv, LinkInv,
        NoOrphanSession, StateMatchesIb, ReconnectingIsHeld
  <1>4. CASE UNCHANGED <<state, ib, link, lock, pc, cand>>
    BY <1>4
    DEF IInv, Core, LockInv, CandInv, DialInv, IbInv, LinkInv, NoOrphanSession,
        StateMatchesIb, ReconnectingIsHeld
  <1>5. ASSUME NEW s \in Sessions, LinkDrop(s) PROVE Core'
    <2> USE <1>5 DEF IInv, Core, LinkDrop
    <2>1. LockInv' /\ CandInv' /\ DialInv'
      BY DEF LockInv, CandInv, DialInv
    <2>4. LinkInv'
      BY DEF LinkInv, HangUp, TypeOK, CandInv, Dialing
    <2>2. IbInv' /\ NoOrphanSession'
      BY DEF IbInv, NoOrphanSession, HangUp
    <2>3. StateMatchesIb' /\ ReconnectingIsHeld'
      BY DEF StateMatchesIb, ReconnectingIsHeld
    <2> QED
      BY <2>1, <2>2, <2>3, <2>4
  <1>6. CASE ExitMaintenance
    BY <1>4, <1>6 DEF ExitMaintenance
  <1>7. ASSUME NEW c \in ClientIds, OtherClient(c) PROVE Core'
    BY <1>4, <1>7 DEF OtherClient
  <1>8. CASE UNCHANGED vars
    BY <1>4, <1>8 DEF vars
  <1> QED
    BY <1>1, <1>2, <1>3, <1>5, <1>6, <1>7, <1>8 DEF Next

-----------------------------------------------------------------------------
(* The theorems.                                                           *)

\* Every variable keeps its type: client ids stay within cfg.client_ids
\* through every rotation, retries within their budget.
THEOREM TypeCorrect == Spec => []TypeOK
  <1>1. Init => TypeOK
    BY InitIInv DEF IInv
  <1> QED
    BY <1>1, NextType, PTL DEF Spec

\* connect(), disconnect(), sync_connection_state() and their callers keep the
\* whole inductive invariant; the theorems below take their parts from it.
THEOREM Invariance == Spec => []IInv
  <1>1. IInv /\ [Next]_vars => IInv'
    BY NextType, NextCore DEF IInv
  <1> QED
    BY <1>1, InitIInv, PTL DEF Spec

\* The one-session promise of SlotConnection's docstring, whatever tasks
\* call connect(), disconnect() and verify_api_alive() and in any order.
THEOREM OneSession == Spec => []OneActiveSession
  <1>1. IInv => OneActiveSession
    <2> SUFFICES ASSUME IInv, NEW s1 \in Sessions, NEW s2 \in Sessions,
                        link[s1] # "down", link[s2] # "down"
                 PROVE  s1 = s2
      BY DEF OneActiveSession
    <2> USE DEF IInv, Core
    <2>1. ~(s1 = ib /\ s2 # ib) /\ ~(s2 = ib /\ s1 # ib)
      BY NoSessionAssumption
      DEF TypeOK, NoOrphanSession, CandInv, DialInv
    <2> QED
      BY <2>1 DEF NoOrphanSession
  <1> QED
    BY <1>1, Invariance, PTL

\* No socket without somebody who can still close it.
THEOREM NoOrphans == Spec => []NoOrphanSession
  <1>1. IInv => NoOrphanSession
    BY DEF IInv, Core
  <1> QED
    BY <1>1, Invariance, PTL

\* state tells readers of ib the truth: CONNECTED comes with a session, the
\* two states without a connection do not.
THEOREM StateIsHonest == Spec => []StateMatchesIb
  <1>1. IInv => StateMatchesIb
    BY DEF IInv, Core
  <1> QED
    BY <1>1, Invariance, PTL

\* No connect() that is over leaves the slot RECONNECTING, whichever of its
\* attempts and exceptions it ended with.
THEOREM NothingLeftReconnecting == Spec => []ReconnectingIsHeld
  <1>1. IInv => ReconnectingIsHeld
    BY DEF IInv, Core
  <1> QED
    BY <1>1, Invariance, PTL

-----------------------------------------------------------------------------
(* reconnects counts sessions.                                             *)

\* What keeps the count below the sessions: a reconnect_loop that waits for
\* the lock, or for the accounts, has one of them still to count.
CountInv ==
    /\ state # "MAINTENANCE"
    /\ ReconnectsCountSessions
    /\ pc[Loop] = "want_connect" /\ ib # NoSession => reconnects < opened
    /\ pc[Loop] = "accounts" => reconnects < opened

\* A step that neither counts nor takes a session away from nobody.
LEMMA NoCount ==
  ASSUME IInv, CountInv, state' # "MAINTENANCE", ib' \in {ib, NoSession},
         pc'[Loop] = "accounts" => pc[Loop] = "accounts",
         pc'[Loop] = "want_connect" /\ ib # NoSession => pc[Loop] = "want_connect",
         UNCHANGED <<reconnects, opened>>
  PROVE  CountInv'
  BY DEF CountInv, ReconnectsCountSessions

LEMMA LoopIsTask == Loop \in Tasks
  BY DEF Tasks

\* connect() from the lock on, by a task that found the slot closed or waited.
LEMMA ConnectBodyCount ==
  ASSUME IInv, CountInv, NEW t \in Tasks, ConnectBody(t), UNCHANGED opened,
         t = Loop => ib = NoSession \/ pc[Loop] = "want_connect"
  PROVE  CountInv'
  <1> USE LoopIsTask DEF IInv
  <1>1. CASE /\ IsConnected(ib)
             /\ state' = "CONNECTED"
             /\ pc' = [pc EXCEPT ![t] = "idle"]
             /\ CountReconnect(t)
             /\ UNCHANGED ib
    <2>1. CASE t = Loop
      <3>1. reconnects < opened /\ reconnects' = reconnects + 1
        BY <1>1, <2>1 DEF CountInv, CountReconnect, IsConnected
      <3>2. pc'[Loop] = "idle"
        BY <1>1, <2>1 DEF TypeOK
      <3> QED
        BY <1>1, <3>1, <3>2 DEF CountInv, ReconnectsCountSessions, TypeOK
    <2>2. CASE t # Loop
      <3>1. reconnects' = reconnects /\ pc'[Loop] = pc[Loop]
        BY <1>1, <2>2 DEF CountReconnect, TypeOK
      <3> QED
        BY <1>1, <3>1, NoCount
    <2> QED
      BY <2>1, <2>2
  <1>2. CASE /\ state' = "RECONNECTING"
             /\ ib' = NoSession
             /\ Dial(t, ib, NumClientIds - 1)
             /\ UNCHANGED reconnects
    <2>1. pc'[Loop] \in {pc[Loop], "dialing"}
      BY <1>2 DEF Dial, TypeOK
    <2> QED
      BY <1>2, <2>1, NoCount
  <1> QED
    BY <1>1, <1>2 DEF ConnectBody

\* disconnect(), at once or queued.
LEMMA DisconnectCount ==
  ASSUME IInv, CountInv, NEW t \in Tasks, Disconnect(t),
         UNCHANGED <<reconnects, opened>>
  PROVE  CountInv'
  <1>1. pc'[Loop] \in {pc[Loop], "idle", "want_disconnect"}
    BY LoopIsTask DEF IInv, TypeOK, Disconnect, DisconnectBody, Enqueue
  <1>2. ib' \in {ib, NoSession} /\ state' \in {state, "DISCONNECTED"}
    BY DEF Disconnect, DisconnectBody
  <1> QED
    BY <1>1, <1>2, NoCount DEF CountInv

LEMMA NextAttemptCount ==
  ASSUME IInv, CountInv, NEW t \in Tasks, NextAttempt(t),
         UNCHANGED <<ib, reconnects, opened>>
  PROVE  CountInv'
  <1>1. pc'[Loop] \in {pc[Loop], "idle", "dialing"}
    BY LoopIsTask DEF IInv, TypeOK, NextAttempt, Dial
  <1>2. state' \in {state, "DISCONNECTED"}
    BY DEF NextAttempt
  <1> QED
    BY <1>1, <1>2, NoCount DEF CountInv

\* A new session is one more to count, whoever dialled it.
LEMMA DialSucceedCount ==
  ASSUME IInv, CountInv, NEW t \in Tasks, DialSucceed(t)
  PROVE  CountInv'
  <1>1. /\ opened' = opened + 1
        /\ state' = "CONNECTED"
        /\ reconnects' \in {reconnects, reconnects + 1}
    BY DEF DialSucceed, CountReconnect, IInv, TypeOK
  <1>2. reconnects' = reconnects \/ pc'[Loop] = "idle"
    BY LoopIsTask DEF DialSucceed, CountReconnect, IInv, TypeOK
  <1> QED
    BY <1>1, <1>2 DEF CountInv, ReconnectsCountSessions, IInv, TypeOK

LEMMA AccountsDoneCount ==
  ASSUME IInv, CountInv, NEW t \in Tasks, AccountsDone(t)
  PROVE  CountInv'
  <1> USE LoopIsTask DEF IInv
  <1>1. CASE t = Loop
    <2>1. /\ pc'[Loop] = "idle"
          /\ reconnects < opened
          /\ reconnects' = reconnects + 1
          /\ UNCHANGED <<state, opened>>
      BY <1>1 DEF AccountsDone, CountReconnect, CountInv, TypeOK
    <2> QED
      BY <2>1 DEF CountInv, ReconnectsCountSessions, TypeOK
  <1>2. CASE t # Loop
    <2>1. pc'[Loop] = pc[Loop] /\ UNCHANGED <<state, ib, reconnects, opened>>
      BY <1>2 DEF AccountsDone, CountReconnect, TypeOK
    <2> QED
      BY <2>1, NoCount DEF CountInv
  <1> QED
    BY <1>1, <1>2

LEMMA TaskStepCount ==
  ASSUME IInv, CountInv, NEW t \in Tasks, TaskStep(t)
  PROVE  CountInv'
  <1> USE LoopIsTask DEF lockVars, callVars, twsVars
  <1>1. CASE CallConnect(t)
    <2>1. t = Loop => ib = NoSession
      BY <1>1
      DEF CallConnect, CountInv, IInv, Core, StateMatchesIb, TypeOK, States
    <2>2. CASE ConnectBody(t)
      BY <1>1, <2>1, <2>2, ConnectBodyCount DEF CallConnect
    <2>3. CASE /\ Enqueue(t, "want_connect")
               /\ UNCHANGED <<state, ib, reconnects, opened>>
      <3>1. IF t = Loop THEN pc'[Loop] = "want_connect" ELSE pc'[Loop] = pc[Loop]
        BY <2>3 DEF Enqueue, IInv, TypeOK
      <3> QED
        BY <2>1, <2>3, <3>1, NoCount DEF CountInv
    <2> QED
      BY <1>1, <2>2, <2>3 DEF CallConnect
  <1>2. CASE CallDisconnect(t)
    BY <1>2, DisconnectCount DEF CallDisconnect
  <1>3. CASE Grant(t)
    <2>1. CASE pc[t] = "want_connect" /\ ConnectBody(t)
      BY <1>3, <2>1, ConnectBodyCount DEF Grant
    <2>2. CASE DisconnectBody(t) /\ UNCHANGED reconnects
      <3>1. pc'[Loop] \in {pc[Loop], "idle"}
        BY <2>2 DEF DisconnectBody, IInv, TypeOK
      <3> QED
        BY <1>3, <2>2, <3>1, NoCount DEF Grant, DisconnectBody, CountInv
    <2> QED
      BY <1>3, <2>1, <2>2 DEF Grant
  <1>4. CASE DialSucceed(t)
    BY <1>4, DialSucceedCount
  <1>5. CASE DialConflict(t)
    <2>1. pc'[Loop] \in {pc[Loop], "backoff"}
      BY <1>5 DEF DialConflict, IInv, TypeOK
    <2> QED
      BY <1>5, <2>1, NoCount DEF DialConflict, CountInv
  <1>6. CASE DialFail(t)
    <2>1. CASE NextAttempt(t)
      BY <1>6, <2>1, NextAttemptCount DEF DialFail
    <2>2. CASE pc' = [pc EXCEPT ![t] = "backoff"] /\ UNCHANGED state
      <3>1. pc'[Loop] \in {pc[Loop], "backoff"}
        BY <2>2 DEF IInv, TypeOK
      <3> QED
        BY <1>6, <2>2, <3>1, NoCount DEF DialFail, CountInv
    <2> QED
      BY <1>6, <2>1, <2>2 DEF DialFail
  <1>7. CASE BackoffDone(t)
    BY <1>7, NextAttemptCount DEF BackoffDone
  <1>8. CASE AccountsDone(t)
    BY <1>8, AccountsDoneCount
  <1>9. CASE VerifyStart(t)
    <2>1. pc'[Loop] \in {pc[Loop], "probing"}
      BY <1>9 DEF VerifyStart, IInv, TypeOK
    <2> QED
      BY <1>9, <2>1, NoCount DEF VerifyStart, CountInv
  <1>10. CASE VerifyOk(t)
    <2>1. pc'[Loop] \in {pc[Loop], "idle"}
      BY <1>10 DEF VerifyOk, IInv, TypeOK
    <2> QED
      BY <1>10, <2>1, NoCount DEF VerifyOk, CountInv
  <1>11. CASE VerifyFail(t)
    BY <1>11, DisconnectCount DEF VerifyFail
  <1> QED
    BY <1>1, <1>2, <1>3, <1>4, <1>5, <1>6, <1>7, <1>8, <1>9, <1>10, <1>11
    DEF TaskStep

\* reconnect_loop counts a session once, however its connect() calls queue
\* behind other tasks'.  Without maintenance, which nothing in the gateway
\* enters: it overwrites state, and a reconnect_loop that comes after it counts
\* the session that is still there a second time.
THEOREM ReconnectsAreSessions ==
  ASSUME ~Maintainable
  PROVE  Spec => []ReconnectsCountSessions
  <1>1. Init => CountInv
    BY LoopIsTask DEF Init, CountInv, ReconnectsCountSessions
  <1>2. IInv /\ CountInv /\ [Next]_vars => CountInv'
    <2> SUFFICES ASSUME IInv, CountInv, [Next]_vars PROVE CountInv'
      OBVIOUS
    <2> USE DEF lockVars, callVars, twsVars
    <2>1. ASSUME NEW t \in Tasks, TaskStep(t) PROVE CountInv'
      BY <2>1, TaskStepCount
    <2>2. CASE Sync
      BY <2>2, NoCount DEF Sync
    <2>3. CASE EnterMaintenance \/ ExitMaintenance
      BY <2>3 DEF EnterMaintenance, ExitMaintenance
    <2>4. ASSUME NEW s \in Sessions, LinkDrop(s) PROVE CountInv'
      BY <2>4, NoCount DEF LinkDrop, CountInv
    <2>5. ASSUME NEW c \in ClientIds, OtherClient(c) PROVE CountInv'
      BY <2>5, NoCount DEF OtherClient, CountInv
    <2>6. CASE UNCHANGED vars
      BY <2>6, NoCount DEF vars, CountInv
    <2> QED
      BY <2>1, <2>2, <2>3, <2>4, <2>5, <2>6 DEF Next
  <1>3. CountInv => ReconnectsCountSessions
    BY DEF CountInv
  <1> QED
    BY <1>1, <1>2, <1>3, Invariance, PTL DEF Spec

-----------------------------------------------------------------------------
(* How long the lock is held.                                              *)

\* The awaits left, at each of the three places where the lock is held.
LEMMA AwaitsLeftIs ==
  ASSUME TypeOK, LockInv, lock # NoTask
  PROVE  /\ lock \in Tasks /\ pc[lock] \in Holding /\ tries[lock] \in Nat
         /\ pc[lock] = "dialing" => AwaitsLeft = 2 * tries[lock] + 2
         /\ pc[lock] = "backoff" => AwaitsLeft = 2 * tries[lock] + 1
         /\ pc[lock] = "accounts" => AwaitsLeft = 1
         /\ AwaitsLeft \in Nat
  <1>1. lock \in Tasks /\ pc[lock] \in Holding
    BY DEF TypeOK, LockInv
  <1>2. tries[lock] \in Nat
    BY <1>1 DEF TypeOK, ClientIds
  <1>3. /\ pc[lock] = "dialing" => AwaitsLeft = 2 * tries[lock] + 2
        /\ pc[lock] = "backoff" => AwaitsLeft = 2 * tries[lock] + 1
        /\ pc[lock] = "accounts" => AwaitsLeft = 1
    BY DEF AwaitsLeft
  <1> QED
    BY <1>1, <1>2, <1>3 DEF Holding

\* Who holds the lock has its place.
LEMMA HolderIs ==
  ASSUME IInv, NEW t \in Tasks, pc[t] \in Holding
  PROVE  lock = t /\ lock # NoTask
  BY NoTaskAssumption DEF IInv, Core, LockInv

\* connect() begins with every client id before it.
LEMMA ConnectBodyAwaits ==
  ASSUME IInv, NEW t \in Tasks, lock = NoTask, ConnectBody(t), lock' # NoTask
  PROVE  AwaitsLeft' <= 2 * NumClientIds
  <1>1. lock' = t /\ Dial(t, ib, NumClientIds - 1)
    BY DEF ConnectBody
  <1>2. pc'[t] = "dialing" /\ tries'[t] = NumClientIds - 1
    BY <1>1 DEF Dial, IInv, TypeOK
  <1>3. AwaitsLeft' = 2 * (NumClientIds - 1) + 2
    BY <1>1, <1>2 DEF AwaitsLeft
  <1> QED
    BY <1>3, NumClientIdsAssumption

\* Another client id has a turn only if there is one left.
LEMMA NextAttemptAwaits ==
  ASSUME IInv, NEW t \in Tasks, pc[t] \in Dialing, NextAttempt(t), lock' # NoTask
  PROVE  lock' = lock /\ AwaitsLeft' \in Int /\ AwaitsLeft' <= AwaitsLeft - 1
  <1>1. lock = t /\ lock # NoTask
    BY HolderIs DEF Dialing, Holding
  <1>2. tries[t] > 0 /\ Dial(t, cand[t], tries[t] - 1) /\ lock' = lock
    BY DEF NextAttempt
  <1>3. pc'[t] = "dialing" /\ tries'[t] = tries[t] - 1
    BY <1>2 DEF Dial, IInv, TypeOK
  <1>4. AwaitsLeft' = 2 * (tries[t] - 1) + 2
    BY <1>1, <1>2, <1>3 DEF AwaitsLeft
  <1>5. tries[t] \in Nat /\ AwaitsLeft \in Nat /\ AwaitsLeft >= 2 * tries[t] + 1
    BY <1>1, AwaitsLeftIs DEF IInv, Core, Dialing
  <1> QED
    BY <1>2, <1>4, <1>5

\* Every await that returns to the holder is one less.
LEMMA ReturnAwaits ==
  ASSUME IInv, NEW t \in Tasks, pc[t] \in Holding, Return(t), lock' # NoTask
  PROVE  lock' = lock /\ AwaitsLeft' \in Int /\ AwaitsLeft' <= AwaitsLeft - 1
  <1>1. lock = t /\ lock # NoTask
    BY HolderIs
  <1>2. /\ tries[t] \in Nat
        /\ pc[t] = "dialing" => AwaitsLeft = 2 * tries[t] + 2
    BY <1>1, AwaitsLeftIs DEF IInv, Core
  <1>3. CASE DialConflict(t) \/ (DialFail(t) /\ pc' = [pc EXCEPT ![t] = "backoff"]
                                             /\ UNCHANGED <<lock, tries>>)
    <2>1. pc[t] = "dialing" /\ pc'[t] = "backoff" /\ tries' = tries /\ lock' = lock
      BY <1>3 DEF DialConflict, DialFail, IInv, TypeOK, lockVars
    <2>2. AwaitsLeft' = 2 * tries[t] + 1
      BY <1>1, <2>1 DEF AwaitsLeft
    <2> QED
      BY <1>2, <2>1, <2>2
  <1>4. CASE DialFail(t) /\ NextAttempt(t)
    BY <1>4, NextAttemptAwaits DEF DialFail, Dialing
  <1>5. CASE BackoffDone(t)
    BY <1>5, NextAttemptAwaits DEF BackoffDone, Dialing
  <1>6. CASE DialSucceed(t)
    <2>1. pc[t] = "dialing" /\ pc'[t] = "accounts" /\ lock' = lock
      BY <1>6 DEF DialSucceed, IInv, TypeOK
    <2>2. AwaitsLeft' = 1
      BY <1>1, <2>1 DEF AwaitsLeft
    <2> QED
      BY <1>2, <2>1, <2>2
  <1>7. CASE AccountsDone(t)
    BY <1>7 DEF AccountsDone
  <1>8. ~Grant(t) /\ ~VerifyOk(t) /\ ~VerifyFail(t)
    BY <1>1 DEF Grant, VerifyOk, VerifyFail, Holding
  <1> QED
    BY <1>3, <1>4, <1>5, <1>6, <1>7, <1>8 DEF Return, DialFail

\* A step that leaves the holder where it is takes and gives nothing.
LEMMA OthersAwaits ==
  ASSUME IInv, lock # NoTask, lock' = lock,
         pc'[lock] = pc[lock], tries'[lock] = tries[lock]
  PROVE  AwaitsLeft' <= AwaitsLeft
  <1>1. AwaitsLeft' = AwaitsLeft
    BY DEF AwaitsLeft
  <1> QED
    BY <1>1, AwaitsLeftIs DEF IInv, Core

\* No step takes the lock away from its holder or gives it more awaits.
LEMMA TaskStepAwaits ==
  ASSUME IInv, NEW t \in Tasks, TaskStep(t), lock' # NoTask
  PROVE  \/ lock = NoTask /\ AwaitsLeft' <= 2 * NumClientIds
         \/ lock # NoTask /\ lock' = lock /\ AwaitsLeft' <= AwaitsLeft
  <1>1. CASE lock = NoTask
    <2>1. ConnectBody(t) \/ lock' = lock
      <3>1. pc[t] \notin Holding
        BY <1>1, HolderIs
      <3> QED
        BY <3>1
        DEF TaskStep, CallConnect, CallDisconnect, Grant, DialSucceed,
            DialConflict,
            DialFail, BackoffDone, AccountsDone, VerifyStart, VerifyOk, VerifyFail,
            Enqueue, Disconnect, Holding, lockVars, callVars
    <2> QED
      BY <1>1, <2>1, ConnectBodyAwaits
  <1>2. CASE lock # NoTask
    <2>0. lock \in Tasks /\ pc[lock] \in Holding /\ AwaitsLeft \in Nat
      BY <1>2, AwaitsLeftIs DEF IInv, Core
    <2>1. CASE pc[t] \in Holding
      <3>1. lock = t
        BY <2>1, HolderIs
      <3>2. Return(t)
        BY <2>1
        DEF TaskStep, Return, CallConnect, CallDisconnect, VerifyStart, Holding
      <3>3. lock' = lock /\ AwaitsLeft' \in Int /\ AwaitsLeft' <= AwaitsLeft - 1
        BY <2>1, <3>2, ReturnAwaits
      <3> QED
        BY <1>2, <2>0, <3>3
    <2>2. CASE pc[t] \notin Holding
      <3>1. t # lock
        BY <2>0, <2>2
      <3>2. \E place \in Calls : pc' = [pc EXCEPT ![t] = place]
        BY <1>2, <2>2
        DEF TaskStep, CallConnect, CallDisconnect, Grant, DialSucceed,
            DialConflict,
            DialFail, BackoffDone, AccountsDone, VerifyStart, VerifyOk, VerifyFail,
            Enqueue, Disconnect, DisconnectBody, LockFree, Holding, Calls
      <3>3. tries' = tries /\ lock' = lock
        BY <1>2, <2>2
        DEF TaskStep, CallConnect, CallDisconnect, Grant, DialSucceed,
            DialConflict,
            DialFail, BackoffDone, AccountsDone, VerifyStart, VerifyOk, VerifyFail,
            Enqueue, Disconnect, LockFree, Holding, lockVars, callVars
      <3>4. pc'[lock] = pc[lock]
        BY <2>0, <3>1, <3>2 DEF IInv, TypeOK
      <3> QED
        BY <1>2, <3>3, <3>4, OthersAwaits
    <2> QED
      BY <2>1, <2>2
  <1> QED
    BY <1>1, <1>2

\* Whoever holds the lock lets go after two awaits per client id at most,
\* whatever TWS, the other tasks and the other programs do meanwhile.
THEOREM HoldsAreBounded == Spec => HoldIsBounded
  <1>1. ASSUME IInv, [Next]_vars, lock' # NoTask
        PROVE  \/ lock = NoTask /\ AwaitsLeft' <= 2 * NumClientIds
               \/ lock # NoTask /\ lock' = lock /\ AwaitsLeft' <= AwaitsLeft
    <2>1. ASSUME NEW t \in Tasks, TaskStep(t)
          PROVE  \/ lock = NoTask /\ AwaitsLeft' <= 2 * NumClientIds
                 \/ lock # NoTask /\ lock' = lock /\ AwaitsLeft' <= AwaitsLeft
      BY <1>1, <2>1, TaskStepAwaits
    <2>2. CASE UNCHANGED <<lock, pc, tries>>
      BY <1>1, <2>2, OthersAwaits
    <2> QED
      BY <1>1, <2>1, <2>2
      DEF Next, Sync, EnterMaintenance, ExitMaintenance, LinkDrop, OtherClient,
          vars,
          lockVars, callVars
  <1>2. ASSUME IInv, lock # NoTask, lock' # NoTask, Return(lock)
        PROVE  lock' = lock /\ AwaitsLeft' <= AwaitsLeft - 1
    <2>1. lock \in Tasks /\ pc[lock] \in Holding
      BY <1>2, AwaitsLeftIs DEF IInv, Core
    <2> QED
      BY <1>2, <2>1, ReturnAwaits
  <1>3. IInv /\ [Next]_vars =>
          [lock' # NoTask =>
             \/ lock = NoTask /\ AwaitsLeft' <= 2 * NumClientIds
             \/ lock = lock' /\ AwaitsLeft' <= AwaitsLeft - (IF Return(lock) THEN 1 ELSE 0)]_vars
    <2> SUFFICES ASSUME IInv, [Next]_vars, lock' # NoTask, lock # NoTask
                 PROVE  /\ lock = lock'
                        /\ AwaitsLeft' <= AwaitsLeft - (IF Return(lock) THEN 1 ELSE 0)
      BY <1>1
    <2>1. AwaitsLeft \in Nat
      BY AwaitsLeftIs DEF IInv, Core
    <2>2. CASE Return(lock)
      BY <1>2, <2>1, <2>2
    <2>3. CASE ~Return(lock)
      BY <1>1, <2>1, <2>3
    <2> QED
      BY <2>2, <2>3
  <1> QED
    BY <1>3, Invariance, PTL DEF Spec, HoldIsBounded

-----------------------------------------------------------------------------
(* SlotConnection implements SlotSession: the live sessions are those with *)
(* a socket, the current one is ib.                                        *)

USE DEF Slot!vars, Slot!Init, Slot!Next, Slot!Dial, Slot!Accept, Slot!Drop,
        Slot!Release

Live == {s \in Sessions : link[s] # "down"}

LEMMA ConnectBodyRefines ==
  ASSUME IInv, NEW t \in Tasks, lock = NoTask, ConnectBody(t)
  PROVE  [Slot!Next]_Slot!vars
  <1> USE DEF IInv, Core
  <1>1. CASE UNCHANGED <<ib, link>>
    BY <1>1
  <1>2. CASE ~IsConnected(ib) /\ ib' = NoSession /\ Dial(t, ib, NumClientIds - 1)
    <2>1. PICK s \in Sessions :
            Fresh(s) /\ link' = [HangUp(ib) EXCEPT ![s] = "dialing"]
      BY <1>2 DEF Dial
    <2>2. Live' = {s}
      BY <2>1 DEF Live, HangUp, NoOrphanSession
    <2>3. ib \notin Live /\ s \notin Live
      BY <1>2, <2>1, NoSessionAssumption
      DEF Live, IsConnected, Fresh, IbInv, TypeOK
    <2> QED
      BY <1>2, <2>2, <2>3 DEF Live
  <1> QED
    BY <1>1, <1>2 DEF ConnectBody

LEMMA DisconnectBodyRefines ==
  ASSUME IInv, NEW t \in Tasks, DisconnectBody(t)
  PROVE  [Slot!Next]_Slot!vars
  <1>1. Live' = Live \ {ib}
    BY DEF DisconnectBody, Live, HangUp
  <1>2. CASE ib = NoSession
    BY <1>1, <1>2, NoSessionAssumption DEF DisconnectBody, Live
  <1>3. CASE ib # NoSession
    BY <1>1, <1>3 DEF DisconnectBody, Live
  <1> QED
    BY <1>2, <1>3

LEMMA DisconnectRefines ==
  ASSUME IInv, NEW t \in Tasks, Disconnect(t)
  PROVE  [Slot!Next]_Slot!vars
  BY DisconnectBodyRefines DEF Disconnect

LEMMA NextAttemptRefines ==
  ASSUME IInv, NEW t \in Tasks, pc[t] \in Dialing, NextAttempt(t), UNCHANGED ib
  PROVE  [Slot!Next]_Slot!vars
  <1> USE DEF IInv, Core
  <1>1. lock = t /\ ib = NoSession /\ cand[t] \in Sessions
    BY DEF TypeOK, LockInv, DialInv, CandInv, Dialing, Holding
  <1>2. \A x \in Live : x = cand[t]
    BY <1>1, NoSessionAssumption DEF Live, NoOrphanSession
  <1>3. CASE Dial(t, cand[t], tries[t] - 1)
    <2>1. PICK s \in Sessions :
            Fresh(s) /\ link' = [HangUp(cand[t]) EXCEPT ![s] = "dialing"]
      BY <1>3 DEF Dial
    <2>2. Live' = {s}
      BY <1>2, <2>1 DEF Live, HangUp
    <2>3. ib \notin Live /\ s \notin Live
      BY <1>1, <2>1, NoSessionAssumption DEF Live, Fresh
    <2> QED
      BY <1>1, <2>2, <2>3 DEF Live
  <1>4. CASE link' = HangUp(cand[t])
    <2>1. Live' = Live \ {cand[t]}
      BY <1>4 DEF Live, HangUp
    <2> QED
      BY <1>1, <2>1 DEF Live
  <1> QED
    BY <1>3, <1>4 DEF NextAttempt

LEMMA DialSucceedRefines ==
  ASSUME IInv, NEW t \in Tasks, DialSucceed(t)
  PROVE  [Slot!Next]_Slot!vars
  <1> USE DEF IInv, Core
  <1>1. lock = t /\ ib = NoSession /\ cand[t] \in Sessions
    BY DEF DialSucceed, TypeOK, LockInv, DialInv, CandInv, Dialing, Holding
  <1>2. \A x \in Live : x = cand[t]
    BY <1>1, NoSessionAssumption DEF Live, NoOrphanSession
  <1>3. Live = {cand[t]} /\ Live' = {cand[t]}
    BY <1>1, <1>2 DEF DialSucceed, Live, TypeOK, LinkInv
  <1> QED
    BY <1>1, <1>3 DEF DialSucceed, Live

LEMMA TaskStepRefines ==
  ASSUME IInv, NEW t \in Tasks, TaskStep(t)
  PROVE  [Slot!Next]_Slot!vars
  <1>1. CASE CallConnect(t)
    BY <1>1, ConnectBodyRefines DEF CallConnect, LockFree
  <1>2. CASE CallDisconnect(t)
    BY <1>2, DisconnectRefines DEF CallDisconnect
  <1>3. CASE Grant(t)
    BY <1>3, ConnectBodyRefines, DisconnectBodyRefines DEF Grant
  <1>4. CASE DialSucceed(t)
    BY <1>4, DialSucceedRefines
  <1>5. CASE DialConflict(t)
    <2> USE <1>5 DEF IInv, Core
    <2>1. lock = t /\ ib = NoSession /\ cand[t] \in Sessions
      BY DEF DialConflict, TypeOK, LockInv, DialInv, CandInv, Dialing, Holding
    <2>2. Live = {cand[t]}
      BY <2>1, NoSessionAssumption
      DEF DialConflict, Live, NoOrphanSession, LinkInv
    <2>3. Live' = {cand[t]} \/ Live' = {}
      BY <2>1, <2>2 DEF DialConflict, Live, TypeOK
    <2> QED
      BY <2>1, <2>2, <2>3 DEF DialConflict, Live
  <1>6. CASE DialFail(t)
    <2>1. CASE NextAttempt(t)
      BY <1>6, <2>1, NextAttemptRefines DEF DialFail, Dialing
    <2>2. CASE link' = HangUp(cand[t])
      <3>1. cand[t] \in Sessions
        BY <1>6 DEF DialFail, IInv, Core, TypeOK, CandInv, Dialing
      <3>2. Live' = Live \ {cand[t]}
        BY <2>2 DEF HangUp, Live
      <3> QED
        BY <1>6, <3>1, <3>2 DEF DialFail, Live
    <2> QED
      BY <1>6, <2>1, <2>2 DEF DialFail
  <1>7. CASE BackoffDone(t)
    BY <1>7, NextAttemptRefines DEF BackoffDone, Dialing
  <1>8. CASE UNCHANGED <<ib, link>>
    BY <1>8
  <1>9. CASE VerifyFail(t)
    BY <1>9, DisconnectRefines DEF VerifyFail
  <1> QED
    BY <1>1, <1>2, <1>3, <1>4, <1>5, <1>6, <1>7, <1>8, <1>9
    DEF TaskStep, AccountsDone, VerifyStart, VerifyOk

LEMMA NextRefines == IInv /\ [Next]_vars => [Slot!Next]_Slot!vars
  <1> SUFFICES ASSUME IInv, [Next]_vars PROVE [Slot!Next]_Slot!vars
    OBVIOUS
  <1>1. ASSUME NEW t \in Tasks, TaskStep(t) PROVE [Slot!Next]_Slot!vars
    BY <1>1, TaskStepRefines
  <1>2. CASE Sync
    <2>1. ib # NoSession /\ ib \notin Live
      BY <1>2
      DEF Sync, IInv, Core, TypeOK, StateMatchesIb, IsConnected, IbInv, Live
    <2> QED
      BY <1>2, <2>1 DEF Sync, Live
  <1>3. CASE UNCHANGED <<ib, link>>
    BY <1>3
  <1>4. ASSUME NEW s \in Sessions, LinkDrop(s) PROVE [Slot!Next]_Slot!vars
    <2>1. s \in Live /\ Live' = Live \ {s}
      BY <1>4 DEF LinkDrop, Live, HangUp
    <2> QED
      BY <1>4, <2>1 DEF LinkDrop, Live
  <1> QED
    BY <1>1, <1>2, <1>3, <1>4
    DEF Next, EnterMaintenance, ExitMaintenance, OtherClient, vars

\* Every behaviour of the slot, with all its tasks, locks, client ids and
\* retries, is one of the one-session slot.
THEOREM Refinement == Spec => SlotSpec
  <1>1. Init => Slot!Init
    BY DEF Init
  <1>2. IInv /\ [Next]_vars => [Slot!Next]_Slot!vars
    BY NextRefines
  <1> QED
    BY <1>1, <1>2, Invariance, PTL DEF Spec, SlotSpec, Slot!Spec
=============================================================================
