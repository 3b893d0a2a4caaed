--------------------------- MODULE MarketLoopProofs ---------------------------
(***************************************************************************)
(* Theorems of MarketLoop, for any slots, symbols and number of sessions:  *)
(* its type invariant, that each slot is a SlotSession, that an order book *)
(* omits only slots that lost their session, where stale streams come      *)
(* from, and that no tick comes from a session the loop has condemned.     *)
(***************************************************************************)
EXTENDS MarketLoop, TLAPS

(* The inductive invariant.                                                *)

\* Sessions are numbered as they are opened, and a slot that is dialled hands
\* out none.
SessionsInOrder ==
    \A k \in Slots :
        /\ current[k] <= opened[k]
        /\ ghosts[k] <= opened[k]
        /\ held[k] <= opened[k]
        /\ lock[k] = "dialing" => current[k] = 0 /\ opened[k] < MaxSessions

\* While the loop awaits a slot there is one; while it awaits the accounts, the
\* slot counts as a ghost until it has answered.
AwaitsASlot ==
    /\ pc \in {"fetch", "reading"} => at <= N
    /\ pc = "fetch" => ghosts[Turn] # 0

\* Only sessions that the host once had are condemned.
CondemnedWereOpened == condemned \subseteq 1 .. opened[Host]

\* Between the verdict on a host session and the hang-up.
HostIsDoomed ==
    /\ ghosts[Host] # 0
    /\ \/ pc \in {"scan", "fetch"}
          /\ \E i \in 1 .. at - 1 : SlotOrder[i] = Host
       \/ pc \in {"close", "closing"}

\* A condemned session is still handed out, or a symbol still streamed on it,
\* only until the loop has hung up its ghosts.
GhostsAreCutOff ==
    /\ current[Host] \in condemned => HostIsDoomed
    /\ \A s \in Symbols : tickers[s] \in condemned => HostIsDoomed

IInv ==
    /\ TypeOK
    /\ SessionsInOrder
    /\ AwaitsASlot
    /\ CondemnedWereOpened
    /\ GhostsAreCutOff

-----------------------------------------------------------------------------
(* Facts about the slots.                                                  *)

LEMMA NumberOfSlots == N \in Nat
  BY SlotOrderAssumption DEF N

\* A loop over the slots always stands at one of them.
LEMMA TurnIsASlot ==
  ASSUME at \in 1 .. N
  PROVE  Turn \in Slots
  BY DEF Turn, Slots

\* A slot comes once in the order: its turn does not come again.
LEMMA TurnComesOnce ==
  ASSUME at \in 1 .. N, NEW i \in 1 .. at - 1
  PROVE  SlotOrder[i] # Turn
  BY NumberOfSlots, SlotOrderAssumption DEF Turn

-----------------------------------------------------------------------------
(* Type correctness.                                                       *)

LEMMA InitType == Init => TypeOK
  <1> SUFFICES ASSUME Init PROVE TypeOK
    OBVIOUS
  <1>1. 0 \in SessionIds /\ 1 \in 1 .. N + 1
    BY NumberOfSlots, MaxSessionsAssumption DEF SessionIds
  <1> QED
    BY <1>1 DEF Init, TypeOK, Running, Awaiting

\* What the slots' own tasks change.
SlotsType ==
    /\ current \in [Slots -> SessionIds]
    /\ alive \in [Slots -> BOOLEAN]
    /\ \A k \in Slots : alive[k] => current[k] # 0
    /\ opened \in [Slots -> SessionIds]
    /\ lock \in [Slots -> {"free", "dialing", "accounts"}]

LEMMA ReleaseType ==
  ASSUME TypeOK, NEW k, Release(k)
  PROVE  SlotsType'
  <1>0. 0 \in SessionIds
    BY MaxSessionsAssumption DEF SessionIds
  <1>1. /\ current' \in [Slots -> SessionIds]
        /\ alive' \in [Slots -> BOOLEAN]
        /\ UNCHANGED <<opened, lock>>
    BY <1>0 DEF TypeOK, Release
  <1>2. \A j \in Slots : alive'[j] => current'[j] # 0
    BY DEF TypeOK, Release
  <1> QED
    BY <1>1, <1>2 DEF TypeOK, SlotsType

LEMMA CondemnType ==
  ASSUME TypeOK, NEW k, NEW n \in SessionIds, Condemn(k, n)
  PROVE  condemned' \subseteq SessionIds /\ taken' \subseteq SessionIds
  BY DEF TypeOK, Condemn

LEMMA TakeType ==
  ASSUME TypeOK, NEW k \in Slots, Take(k)
  PROVE  /\ SlotsType'
         /\ taken' \subseteq SessionIds
         /\ UNCHANGED <<condemned, tickers, reconciled>>
  <1>1. SlotsType'
    BY ReleaseType DEF Take
  <1> QED
    BY <1>1 DEF Take, TypeOK

LEMMA ClearTickersType ==
  ASSUME TypeOK, ClearTickers
  PROVE  tickers' \in [Symbols -> SessionIds] /\ reconciled' \in BOOLEAN
  BY MaxSessionsAssumption DEF TypeOK, ClearTickers, SessionIds

LEMMA StepType == TypeOK /\ AwaitsASlot /\ LoopStep => TypeOK'
  <1> SUFFICES ASSUME TypeOK, AwaitsASlot, LoopStep PROVE TypeOK'
    OBVIOUS
  <1> USE DEF slotVars, localVars, bookVars, historyVars
  <1>0. N \in Nat /\ 0 \in SessionIds /\ 1 \in 1 .. N + 1 /\ Host \in Slots
    BY NumberOfSlots, HostAssumption, MaxSessionsAssumption DEF SessionIds
  <1>1. CASE TopDead
    <2>1. SlotsType' /\ condemned' \subseteq SessionIds /\ taken' \subseteq SessionIds
      BY <1>0, <1>1, ReleaseType, CondemnType DEF TopDead, TypeOK
    <2> QED
      BY <1>1, <2>1, ClearTickersType DEF TopDead, TypeOK, SlotsType
  <1>2. CASE TopGo
    BY <1>0, <1>2 DEF TopGo, TypeOK, Running
  <1>3. CASE Scan
    <2>0. at \in 1 .. N + 1
      BY DEF TypeOK
    <2>1. CASE at > N
      BY <1>0, <1>3, <2>0, <2>1 DEF Scan, TypeOK, Running
    <2>2. CASE at <= N
      <3>1. Turn \in Slots /\ at + 1 \in 1 .. N + 1
        BY <1>0, <2>0, <2>2, TurnIsASlot
      <3>2. CASE current[Turn] = 0 /\ at' = at + 1
                 /\ UNCHANGED <<slotVars, pc, ghosts, historyVars>>
        BY <1>3, <3>1, <3>2 DEF Scan, TypeOK
      <3>3. CASE /\ Release(Turn)
                 /\ ghosts' = [ghosts EXCEPT ![Turn] = current[Turn]]
                 /\ Condemn(Turn, current[Turn])
                 /\ at' = at + 1
                 /\ UNCHANGED pc
        <4>1. SlotsType' /\ condemned' \subseteq SessionIds /\ taken' \subseteq SessionIds
          BY <3>1, <3>3, ReleaseType, CondemnType DEF TypeOK
        <4> QED
          BY <1>3, <3>1, <3>3, <4>1 DEF Scan, TypeOK, SlotsType
      <3>4. CASE /\ pc' = "fetch"
                 /\ ghosts' = [ghosts EXCEPT ![Turn] = current[Turn]]
                 /\ UNCHANGED <<slotVars, at, historyVars>>
        BY <1>3, <3>1, <3>4 DEF Scan, TypeOK, Awaiting
      <3> QED
        BY <1>0, <1>3, <2>0, <2>2, <3>2, <3>3, <3>4 DEF Scan
    <2> QED
      BY <1>0, <2>0, <2>1, <2>2
  <1>4. CASE pc \in {"fetch", "reading"}
    <2>1. at \in 1 .. N /\ Turn \in Slots /\ at + 1 \in 1 .. N + 1
      BY <1>0, <1>4, TurnIsASlot DEF AwaitsASlot, TypeOK
    <2>3. CASE FetchOk
      BY <1>0, <2>1, <2>3 DEF FetchOk, TypeOK, Running
    <2>4. CASE FetchBad
      <3>1. condemned' \subseteq SessionIds /\ taken' \subseteq SessionIds
        BY <2>1, <2>4, CondemnType DEF FetchBad, TypeOK
      <3> QED
        BY <2>1, <2>4, <3>1 DEF FetchBad, TypeOK, Running
    <2>5. CASE ReadOk
      BY <2>1, <2>5 DEF ReadOk, TypeOK, Running
    <2>6. CASE ReadFail
      BY <2>6 DEF ReadFail, TypeOK, Running
    <2> QED
      BY <1>4, <2>3, <2>4, <2>5, <2>6
      DEF LoopStep, TopDead, TopGo, Scan, Close, GetLock, Orders, Collect,
          Publish, PublishFail, Ticks
  <1>5. CASE Close
    <2>1. CASE UNCHANGED <<slotVars, ghosts, tickers, reconciled>>
               /\ pc' \in {"orders", "closing"}
      BY <1>5, <2>1 DEF Close, TypeOK, Running, Awaiting
    <2>2. CASE /\ Release(FirstGhost)
               /\ ghosts' = [ghosts EXCEPT ![FirstGhost] = 0]
               /\ ClearTickers
               /\ UNCHANGED pc
      <3>1. SlotsType'
        BY <2>2, ReleaseType
      <3> QED
        BY <1>0, <1>5, <2>2, <3>1, ClearTickersType DEF Close, TypeOK, SlotsType
    <2> QED
      BY <1>5, <2>1, <2>2 DEF Close
  <1>6. CASE GetLock
    BY <1>6 DEF GetLock, TypeOK, Running
  <1>7. CASE Orders
    BY <1>0, <1>7 DEF Orders, TypeOK, Running
  <1>8. CASE Collect
    <2>1. at' \in 1 .. N + 1
      BY <1>0, <1>8 DEF Collect, TypeOK
    <2>2. book' \subseteq Slots /\ got' \subseteq Slots
      BY <1>8 DEF Collect, TypeOK
    <2>3. pc' \in {"collect", "publish", "reading"}
      BY <1>8 DEF Collect
    <2> QED
      BY <1>8, <2>1, <2>2, <2>3 DEF Collect, TypeOK, Running, Awaiting
  <1>9. CASE Publish
    BY <1>0, <1>9 DEF Publish, ForgetLocals, TypeOK, Running, Awaiting
  <1>10. CASE PublishFail
    BY <1>0, <1>10 DEF PublishFail, ForgetLocals, TypeOK, Running, Awaiting
  <1>11. CASE Ticks
    <2>1. tickers' \in [Symbols -> SessionIds] /\ reconciled' \in BOOLEAN
      BY <1>0, <1>11 DEF Ticks, Reconcile, TypeOK
    <2> QED
      BY <1>11, <2>1 DEF Ticks, TypeOK, Awaiting
  <1> QED
    BY <1>1, <1>2, <1>3, <1>4, <1>5, <1>6, <1>7, <1>8, <1>9, <1>10, <1>11
    DEF LoopStep, FetchOk, FetchBad, ReadOk, ReadFail

\* The steps of the slots' own tasks and of time.
SlotStep(k) ==
    Dial(k) \/ DialOk(k) \/ DialEnd(k) \/ Drop(k) \/ OtherSync(k) \/ OtherClose(k)

LEMMA SlotStepType ==
  ASSUME TypeOK, SessionsInOrder, NEW k \in Slots, SlotStep(k)
  PROVE  TypeOK'
  <1> USE DEF loopVars, localVars, bookVars, historyVars
  <1>1. CASE Dial(k)
    BY <1>1 DEF Dial, TypeOK
  <1>2. CASE DialOk(k)
    <2>1. opened[k] + 1 \in SessionIds /\ opened[k] + 1 # 0
      BY <1>2, MaxSessionsAssumption
      DEF DialOk, TypeOK, SessionsInOrder, SessionIds
    <2>2. opened'[k] = opened[k] + 1
      BY <1>2 DEF DialOk, TypeOK
    <2>3. /\ current' \in [Slots -> SessionIds]
          /\ alive' \in [Slots -> BOOLEAN]
          /\ opened' \in [Slots -> SessionIds]
          /\ lock' \in [Slots -> {"free", "dialing", "accounts"}]
      BY <1>2, <2>1, <2>2 DEF DialOk, TypeOK
    <2>4. \A j \in Slots : alive'[j] => current'[j] # 0
      BY <1>2, <2>1, <2>2 DEF DialOk, TypeOK
    <2> QED
      BY <1>2, <2>3, <2>4 DEF DialOk, TypeOK
  <1>3. CASE DialEnd(k)
    BY <1>3 DEF DialEnd, TypeOK
  <1>4. CASE Drop(k)
    BY <1>4 DEF Drop, TypeOK
  <1>5. CASE OtherSync(k)
    BY <1>5, TakeType DEF OtherSync, TypeOK, SlotsType
  <1>6. CASE OtherClose(k)
    BY <1>6, TakeType DEF OtherClose, TypeOK, SlotsType
  <1> QED
    BY <1>1, <1>2, <1>3, <1>4, <1>5, <1>6 DEF SlotStep

LEMMA RestType ==
  ASSUME TypeOK, SelfHeal \/ BookAges \/ DiffDue \/ UNCHANGED vars
  PROVE  TypeOK'
  <1> USE DEF loopVars, slotVars, localVars, bookVars, historyVars
  <1>1. CASE SelfHeal
    <2>1. SlotsType'
      BY <1>1, ReleaseType DEF SelfHeal, TypeOK, SlotsType
    <2> QED
      BY <1>1, <2>1, ClearTickersType DEF SelfHeal, TypeOK, SlotsType
  <1>2. CASE BookAges
    BY <1>2 DEF BookAges, TypeOK
  <1>3. CASE DiffDue
    BY <1>3 DEF DiffDue, TypeOK
  <1>4. CASE UNCHANGED vars
    BY <1>4 DEF vars, TypeOK
  <1> QED
    BY <1>1, <1>2, <1>3, <1>4

LEMMA NextType == IInv /\ [Next]_vars => TypeOK'
  BY StepType, SlotStepType, RestType DEF IInv, Next, SlotStep

-----------------------------------------------------------------------------
(* The numbering of sessions.                                              *)

\* No slot is dialled or hung up, or one is hung up.
LEMMA CountKept ==
  ASSUME TypeOK, SessionsInOrder,
         UNCHANGED slotVars \/ \E k : Release(k),
         \A j \in Slots : ghosts'[j] \in {ghosts[j], current[j], 0},
         \A j \in Slots : held'[j] \in {held[j], current[j], 0}
  PROVE  SessionsInOrder' /\ UNCHANGED opened
  <1>1. \A j \in Slots : current'[j] \in {current[j], 0}
    BY DEF TypeOK, slotVars, Release
  <1>2. UNCHANGED <<opened, lock>>
    BY DEF slotVars, Release
  <1>3. \A j \in Slots : opened[j] \in Nat
    BY MaxSessionsAssumption DEF TypeOK, SessionIds
  <1> QED
    BY <1>1, <1>2, <1>3 DEF SessionsInOrder

\* The market loop opens no session and hands out none that was not opened.
LEMMA StepCount ==
  ASSUME TypeOK, SessionsInOrder, LoopStep
  PROVE  SessionsInOrder' /\ UNCHANGED opened
  <1>1. UNCHANGED slotVars \/ \E k : Release(k)
    BY DEF LoopStep, TopDead, TopGo, Scan, FetchOk, FetchBad, Close,
           GetLock, Orders, Collect, ReadOk, ReadFail, Publish, PublishFail, Ticks
  <1>2. \A j \in Slots : ghosts'[j] \in {ghosts[j], current[j], 0}
    BY DEF LoopStep, TopDead, TopGo, Scan, FetchOk, FetchBad, Close,
           GetLock, Orders, Collect, ReadOk, ReadFail, Publish, PublishFail,
           Ticks, TypeOK
  <1>3. \A j \in Slots : held'[j] \in {held[j], current[j], 0}
    BY DEF LoopStep, TopDead, TopGo, Scan, FetchOk, FetchBad, Close, GetLock,
           Orders, Collect, ReadOk, ReadFail, Publish, PublishFail, Ticks,
           ForgetLocals, localVars, TypeOK
  <1> QED
    BY <1>1, <1>2, <1>3, CountKept

\* A slot's own steps hand out the next session, or nothing.
LEMMA SlotStepCount ==
  ASSUME TypeOK, SessionsInOrder, NEW k \in Slots, SlotStep(k)
  PROVE  /\ SessionsInOrder'
         /\ \A j \in Slots : opened[j] <= opened'[j]
         /\ current'[Host] \in {current[Host], 0, opened[Host] + 1}
  <1>0. \A j \in Slots : opened[j] \in Nat /\ current[j] \in Nat
                       /\ ghosts[j] \in Nat /\ held[j] \in Nat
    BY MaxSessionsAssumption DEF TypeOK, SessionIds
  <1>1. CASE Dial(k)
    <2>1. \A j \in Slots : lock'[j] = "dialing" /\ j # k => lock[j] = "dialing"
      BY <1>1 DEF Dial, TypeOK
    <2>2. /\ UNCHANGED <<current, opened, ghosts, held>>
          /\ current[k] = 0 /\ opened[k] < MaxSessions
      BY <1>1 DEF Dial, NeedsDial, loopVars, localVars
    <2> QED
      BY <1>0, <2>1, <2>2, HostAssumption DEF SessionsInOrder
  <1>2. CASE DialOk(k)
    <2>1. /\ \A j \in Slots : opened'[j] = IF j = k THEN opened[j] + 1 ELSE opened[j]
          /\ \A j \in Slots : current'[j] = IF j = k THEN opened[j] + 1 ELSE current[j]
          /\ \A j \in Slots : lock'[j] = IF j = k THEN "accounts" ELSE lock[j]
          /\ UNCHANGED <<ghosts, held>>
      BY <1>2 DEF DialOk, TypeOK, loopVars, localVars
    <2> QED
      BY <1>0, <2>1, HostAssumption DEF SessionsInOrder
  <1>3. CASE DialEnd(k)
    BY <1>0, <1>3, HostAssumption DEF DialEnd, TypeOK, SessionsInOrder, loopVars, localVars
  <1>4. CASE Drop(k)
    BY <1>0, <1>4, HostAssumption DEF Drop, TypeOK, SessionsInOrder, loopVars, localVars
  <1>5. CASE OtherSync(k) \/ OtherClose(k)
    <2>1. Release(k) /\ UNCHANGED <<ghosts, held>>
      BY <1>5 DEF OtherSync, OtherClose, Take, loopVars, localVars
    <2>2. current'[Host] \in {current[Host], 0}
      BY <2>1, HostAssumption DEF Release, TypeOK
    <2> QED
      BY <1>0, <2>1, <2>2, CountKept
  <1> QED
    BY <1>1, <1>2, <1>3, <1>4, <1>5 DEF SlotStep

-----------------------------------------------------------------------------
(* The verdict on the host.                                                *)

\* A step that condemns nobody, and neither undoes a verdict before the hang-up
\* nor streams from anything but the host's session.
LEMMA CutOffKept ==
  ASSUME IInv, UNCHANGED condemned, HostIsDoomed => HostIsDoomed',
         current'[Host] \in {current[Host], 0, opened[Host] + 1},
         \A s \in Symbols : tickers'[s] \in {tickers[s], 0, current[Host]}
  PROVE  GhostsAreCutOff'
  <1>1. 0 \notin condemned /\ opened[Host] + 1 \notin condemned
    BY HostAssumption, MaxSessionsAssumption
    DEF IInv, CondemnedWereOpened, TypeOK, SessionIds
  <1> QED
    BY <1>1 DEF IInv, GhostsAreCutOff

\* Where the loop may be while a verdict waits for its hang-up.
LEMMA DoomedWhere ==
  HostIsDoomed => pc \in {"scan", "fetch", "close", "closing"}
  BY DEF HostIsDoomed

\* A verdict stands: the scan goes on without undoing it, and takes nothing
\* from the host without one.
LEMMA ScanVerdict ==
  ASSUME IInv, Scan
  PROVE  /\ HostIsDoomed => HostIsDoomed'
         /\ HostIsDoomed' \/ UNCHANGED <<current[Host], condemned>>
  <1>0. N \in Nat /\ Host \in Slots /\ at \in 1 .. N + 1 /\ pc = "scan"
    BY NumberOfSlots, HostAssumption DEF IInv, TypeOK, Scan
  <1>1. CASE at > N
    <2>1. pc' = "close" /\ UNCHANGED <<slotVars, at, ghosts, historyVars>>
      BY <1>0, <1>1 DEF Scan
    <2> QED
      BY <1>0, <2>1 DEF HostIsDoomed, slotVars, historyVars
  <1>2. CASE at <= N
    <2>0. at \in 1 .. N /\ Turn \in Slots
      BY <1>0, <1>2, TurnIsASlot
    <2>1. CASE at' = at + 1 /\ UNCHANGED <<slotVars, pc, ghosts, historyVars>>
      BY <1>0, <2>1 DEF HostIsDoomed, slotVars, historyVars
    <2>2. CASE /\ current[Turn] # 0
               /\ Release(Turn)
               /\ ghosts' = [ghosts EXCEPT ![Turn] = current[Turn]]
               /\ Condemn(Turn, current[Turn])
               /\ at' = at + 1
               /\ UNCHANGED pc
      <3>1. CASE Turn = Host
        <4>1. at \in 1 .. at' - 1 /\ SlotOrder[at] = Host
          BY <1>0, <2>2, <3>1 DEF Turn
        <4>2. ghosts'[Host] # 0
          BY <2>0, <2>2, <3>1 DEF IInv, TypeOK
        <4> QED
          BY <1>0, <2>2, <4>1, <4>2 DEF HostIsDoomed
      <3>2. CASE Turn # Host
        <4>1. /\ UNCHANGED <<current[Host], condemned>>
              /\ ghosts'[Host] = ghosts[Host]
          BY <1>0, <2>2, <3>2 DEF Condemn, Release, IInv, TypeOK
        <4>2. HostIsDoomed => HostIsDoomed'
          BY <1>0, <2>2, <4>1 DEF HostIsDoomed
        <4> QED
          BY <4>1, <4>2
      <3> QED
        BY <3>1, <3>2
    <2>3. CASE /\ alive[Turn]
               /\ pc' = "fetch"
               /\ ghosts' = [ghosts EXCEPT ![Turn] = current[Turn]]
               /\ UNCHANGED <<slotVars, at, historyVars>>
      <3>1. ASSUME HostIsDoomed PROVE HostIsDoomed'
        <4>1. PICK i \in 1 .. at - 1 : SlotOrder[i] = Host
          BY <1>0, <3>1 DEF HostIsDoomed
        <4>2. Turn # Host
          BY <2>0, <4>1, TurnComesOnce
        <4>3. ghosts'[Host] = ghosts[Host]
          BY <1>0, <2>3, <4>2 DEF IInv, TypeOK
        <4> QED
          BY <2>3, <3>1, <4>1, <4>3 DEF HostIsDoomed
      <3> QED
        BY <2>3, <3>1 DEF slotVars, historyVars
    <2> QED
      BY <1>0, <1>2, <2>1, <2>2, <2>3 DEF Scan
  <1> QED
    BY <1>0, <1>1, <1>2

\* An account read may reach a verdict on its own slot only.
LEMMA FetchVerdict ==
  ASSUME IInv, FetchOk \/ FetchBad
  PROVE  HostIsDoomed => HostIsDoomed'
  <1> SUFFICES ASSUME HostIsDoomed PROVE HostIsDoomed'
    OBVIOUS
  <1>0. /\ N \in Nat /\ Host \in Slots
        /\ at \in 1 .. N
        /\ Turn \in Slots
        /\ pc = "fetch"
    BY NumberOfSlots, HostAssumption, TurnIsASlot
    DEF IInv, TypeOK, AwaitsASlot, FetchOk, FetchBad
  <1>1. PICK i \in 1 .. at - 1 : SlotOrder[i] = Host
    BY <1>0 DEF HostIsDoomed
  <1>2. Turn # Host
    BY <1>0, <1>1, TurnComesOnce
  <1>3. ghosts'[Host] = ghosts[Host]
    BY <1>0, <1>2 DEF FetchOk, FetchBad, IInv, TypeOK
  <1>4. at' = at + 1 /\ pc' = "scan"
    BY DEF FetchOk, FetchBad
  <1>5. i \in 1 .. at' - 1
    <2>1. at \in Int /\ at' = at + 1
      BY <1>0, <1>4
    <2> QED
      BY <2>1
  <1> QED
    BY <1>1, <1>3, <1>4, <1>5 DEF HostIsDoomed

\* The part of the invariant about ghosts: kept by a step of the scan,
LEMMA ScanCutOff ==
  ASSUME IInv, Scan
  PROVE  GhostsAreCutOff' /\ CondemnedWereOpened' /\ AwaitsASlot'
  <1>0. N \in Nat /\ Host \in Slots /\ at \in 1 .. N + 1 /\ pc = "scan"
        /\ UNCHANGED <<opened, tickers>>
    BY NumberOfSlots, HostAssumption
    DEF IInv, TypeOK, Scan, Release, slotVars
  <1>1. GhostsAreCutOff'
    <2>1. CASE HostIsDoomed'
      BY <2>1 DEF GhostsAreCutOff
    <2>2. CASE UNCHANGED <<current[Host], condemned>>
      BY <1>0, <2>2, ScanVerdict, CutOffKept
    <2> QED
      BY <2>1, <2>2, ScanVerdict
  <1>2. AwaitsASlot'
    BY <1>0, TurnIsASlot DEF Scan, AwaitsASlot, Turn, IInv, TypeOK
  <1>3. CondemnedWereOpened'
    <2>1. CASE UNCHANGED condemned
      BY <1>0, <2>1 DEF IInv, CondemnedWereOpened
    <2>2. CASE current[Turn] # 0 /\ Condemn(Turn, current[Turn])
      <3>1. Turn = Host => current[Host] \in 1 .. opened[Host]
        BY <1>0, <2>2, MaxSessionsAssumption
        DEF IInv, SessionsInOrder, TypeOK, SessionIds
      <3> QED
        BY <1>0, <2>2, <3>1 DEF IInv, CondemnedWereOpened, Condemn
    <2> QED
      BY <2>1, <2>2 DEF Scan, historyVars
  <1> QED
    BY <1>1, <1>2, <1>3

\* kept by an account read, which may condemn the session it was made on,
LEMMA FetchCutOff ==
  ASSUME IInv, FetchOk \/ FetchBad
  PROVE  GhostsAreCutOff' /\ CondemnedWereOpened' /\ AwaitsASlot'
  <1> USE DEF slotVars
  <1>0. /\ N \in Nat /\ Host \in Slots
        /\ at \in 1 .. N
        /\ Turn \in Slots
        /\ pc = "fetch"
        /\ ghosts[Turn] # 0
        /\ UNCHANGED <<current, opened, tickers>>
    BY NumberOfSlots, HostAssumption, TurnIsASlot
    DEF IInv, TypeOK, AwaitsASlot, FetchOk, FetchBad
  <1>1. AwaitsASlot'
    BY <1>0 DEF FetchOk, FetchBad, AwaitsASlot, Turn
  <1>2. CASE UNCHANGED condemned
    <2>1. GhostsAreCutOff'
      BY <1>0, <1>2, FetchVerdict, CutOffKept
    <2> QED
      BY <1>0, <1>1, <1>2, <2>1 DEF IInv, CondemnedWereOpened
  <1>3. CASE FetchBad /\ Turn = Host
    <2>1. at \in 1 .. at' - 1 /\ SlotOrder[at] = Host
      BY <1>0, <1>3 DEF FetchBad, Turn
    <2>2. HostIsDoomed'
      BY <1>0, <1>3, <2>1 DEF FetchBad, HostIsDoomed
    <2>3. ghosts[Host] \in 1 .. opened[Host]
      BY <1>0, <1>3, MaxSessionsAssumption
      DEF IInv, SessionsInOrder, TypeOK, SessionIds
    <2>4. CondemnedWereOpened'
      BY <1>0, <1>3, <2>3 DEF FetchBad, Condemn, IInv, CondemnedWereOpened
    <2> QED
      BY <1>1, <2>2, <2>4 DEF GhostsAreCutOff
  <1> QED
    BY <1>2, <1>3 DEF FetchOk, FetchBad, Condemn, historyVars

\* and kept by the closing of ghosts, which clears their tickers.
LEMMA CloseCutOff ==
  ASSUME IInv, Close
  PROVE  GhostsAreCutOff' /\ CondemnedWereOpened' /\ AwaitsASlot'
  <1>0. /\ Host \in Slots
        /\ pc = "close"
        /\ UNCHANGED <<opened, condemned>>
        /\ 0 \notin condemned
    BY HostAssumption
    DEF Close, slotVars, historyVars, Release, IInv, CondemnedWereOpened
  <1>1. AwaitsASlot' /\ CondemnedWereOpened'
    BY <1>0 DEF Close, AwaitsASlot, IInv, CondemnedWereOpened
  <1>2. CASE GhostSlots = {} /\ UNCHANGED <<slotVars, ghosts, tickers, reconciled>>
    <2>1. ~HostIsDoomed
      BY <1>0, <1>2 DEF HostIsDoomed, GhostSlots
    <2> QED
      BY <1>0, <1>1, <1>2, <2>1, CutOffKept DEF slotVars
  <1>3. CASE pc' = "closing" /\ UNCHANGED <<slotVars, ghosts, tickers, reconciled>>
    <2>1. HostIsDoomed => HostIsDoomed'
      BY <1>0, <1>3 DEF HostIsDoomed
    <2> QED
      BY <1>0, <1>1, <1>3, <2>1, CutOffKept DEF slotVars
  <1>4. CASE /\ Release(FirstGhost)
             /\ ghosts' = [ghosts EXCEPT ![FirstGhost] = 0]
             /\ ClearTickers
             /\ UNCHANGED pc
    <2>1. \A s \in Symbols : tickers'[s] = 0
      BY <1>4 DEF ClearTickers
    <2>2. CASE FirstGhost = Host
      <3>1. current'[Host] = 0
        BY <1>0, <1>4, <2>2 DEF Release, IInv, TypeOK
      <3> QED
        BY <1>0, <1>1, <2>1, <3>1 DEF GhostsAreCutOff
    <2>3. CASE FirstGhost # Host
      <3>1. current'[Host] = current[Host] /\ ghosts'[Host] = ghosts[Host]
        BY <1>0, <1>4, <2>3 DEF Release, IInv, TypeOK
      <3>2. HostIsDoomed => HostIsDoomed'
        BY <1>0, <1>4, <3>1 DEF HostIsDoomed
      <3> QED
        BY <1>0, <1>1, <2>1, <3>1, <3>2, CutOffKept
    <2> QED
      BY <2>2, <2>3
  <1> QED
    BY <1>2, <1>3, <1>4 DEF Close

\* The steps of the iteration with no verdict to wait for, and the wait for a
\* lock.
LEMMA OtherLoopStepsCutOff ==
  ASSUME IInv,
         \/ TopDead \/ TopGo \/ GetLock \/ Orders \/ Collect \/ ReadOk
         \/ ReadFail \/ Publish \/ PublishFail \/ Ticks
  PROVE  GhostsAreCutOff' /\ CondemnedWereOpened' /\ AwaitsASlot'
  <1> USE DEF slotVars
  <1>0. N \in Nat /\ Host \in Slots /\ at \in 1 .. N + 1 /\ UNCHANGED opened
    BY NumberOfSlots, HostAssumption
    DEF IInv, TypeOK, Release, TopDead, TopGo, GetLock, Orders, Collect, ReadOk,
        ReadFail, Publish, PublishFail, Ticks
  <1>1. CASE TopDead
    <2>1. current'[Host] = 0 /\ current[Host] # 0
          /\ \A s \in Symbols : tickers'[s] = 0
      BY <1>0, <1>1 DEF TopDead, Release, ClearTickers, IInv, TypeOK
    <2>2. condemned' = condemned \union {current[Host]}
      BY <1>1 DEF TopDead, Condemn
    <2>3. current[Host] \in 1 .. opened[Host]
      BY <1>0, <2>1, MaxSessionsAssumption
      DEF IInv, SessionsInOrder, TypeOK, SessionIds
    <2>4. 0 \notin condemned
      BY DEF IInv, CondemnedWereOpened
    <2> QED
      BY <1>0, <1>1, <2>1, <2>2, <2>3, <2>4
      DEF TopDead, IInv, CondemnedWereOpened, GhostsAreCutOff, AwaitsASlot
  <1>2. CASE ~TopDead
    <2>1. UNCHANGED <<current, condemned>>
      BY <1>2 DEF TopGo, GetLock, Orders, Collect, ReadOk, ReadFail, Publish,
                  PublishFail, Ticks, historyVars
    <2>2. \A s \in Symbols : tickers'[s] \in {tickers[s], 0, current[Host]}
      BY <1>2 DEF TopGo, GetLock, Orders, Collect, ReadOk, ReadFail, Publish,
                  PublishFail, Ticks, Reconcile
    <2>3. HostIsDoomed => HostIsDoomed'
      BY <1>2, DoomedWhere
      DEF TopGo, GetLock, Orders, Collect, ReadOk, ReadFail, Publish,
          PublishFail, Ticks, HostIsDoomed
    <2>4. GhostsAreCutOff'
      BY <2>1, <2>2, <2>3, CutOffKept
    <2>5. AwaitsASlot'
      BY <1>0, <1>2
      DEF TopGo, GetLock, Orders, Collect, ReadOk, ReadFail, Publish,
          PublishFail, Ticks, AwaitsASlot, Turn
    <2> QED
      BY <1>0, <2>1, <2>4, <2>5 DEF IInv, CondemnedWereOpened
  <1> QED
    BY <1>1, <1>2

\* What the others do leaves the loop, its verdicts and their order alone.
LEMMA OthersCutOff ==
  ASSUME IInv, UNCHANGED <<pc, at, ghosts, condemned>>,
         current'[Host] \in {current[Host], 0, opened[Host] + 1},
         opened[Host] <= opened'[Host], opened'[Host] \in Nat,
         \A s \in Symbols : tickers'[s] \in {tickers[s], 0}
  PROVE  GhostsAreCutOff' /\ CondemnedWereOpened' /\ AwaitsASlot'
  <1>1. HostIsDoomed => HostIsDoomed'
    BY DEF HostIsDoomed
  <1>2. GhostsAreCutOff'
    BY <1>1, CutOffKept
  <1>3. AwaitsASlot'
    BY DEF AwaitsASlot, Turn, IInv
  <1>4. CondemnedWereOpened'
    <2>1. opened[Host] \in Nat
      BY HostAssumption, MaxSessionsAssumption DEF IInv, TypeOK, SessionIds
    <2> QED
      BY <2>1 DEF CondemnedWereOpened, IInv
  <1> QED
    BY <1>2, <1>3, <1>4

-----------------------------------------------------------------------------
(* The invariant.                                                          *)

LEMMA InitInvariant == Init => IInv
  <1> SUFFICES ASSUME Init PROVE IInv
    OBVIOUS
  <1>1. TypeOK
    BY InitType
  <1>2. SessionsInOrder /\ AwaitsASlot /\ CondemnedWereOpened /\ GhostsAreCutOff
    BY HostAssumption
    DEF Init, SessionsInOrder, AwaitsASlot, CondemnedWereOpened, GhostsAreCutOff
  <1> QED
    BY <1>1, <1>2 DEF IInv

LEMMA NextInvariant == IInv /\ [Next]_vars => IInv'
  <1> SUFFICES ASSUME IInv, [Next]_vars PROVE IInv'
    OBVIOUS
  <1>1. TypeOK'
    BY NextType
  <1>2. CASE LoopStep
    <2>1. SessionsInOrder'
      BY <1>2, StepCount DEF IInv
    <2>2. GhostsAreCutOff' /\ CondemnedWereOpened' /\ AwaitsASlot'
      BY <1>2, ScanCutOff, FetchCutOff, CloseCutOff, OtherLoopStepsCutOff
      DEF LoopStep
    <2> QED
      BY <1>1, <2>1, <2>2 DEF IInv
  <1>3. ASSUME NEW k \in Slots, SlotStep(k) PROVE IInv'
    <2>1. /\ SessionsInOrder'
          /\ opened[Host] <= opened'[Host]
          /\ current'[Host] \in {current[Host], 0, opened[Host] + 1}
      BY <1>3, SlotStepCount, HostAssumption DEF IInv
    <2>2. opened'[Host] \in Nat
      BY <1>1, HostAssumption, MaxSessionsAssumption DEF TypeOK, SessionIds
    <2>3. UNCHANGED <<pc, at, ghosts, condemned, tickers>>
      BY <1>3 DEF SlotStep, Dial, DialOk, DialEnd, Drop, OtherSync, OtherClose,
                  Take, loopVars, historyVars
    <2> QED
      BY <1>1, <2>1, <2>2, <2>3, OthersCutOff DEF IInv
  <1>4. CASE SelfHeal \/ BookAges \/ DiffDue \/ UNCHANGED vars
    <2> USE DEF slotVars
    <2>1. UNCHANGED <<pc, at, ghosts, held, condemned>>
      BY <1>4 DEF SelfHeal, BookAges, DiffDue, vars, loopVars, localVars, historyVars
    <2>2. UNCHANGED slotVars \/ Release(Host)
      BY <1>4 DEF SelfHeal, BookAges, DiffDue, vars
    <2>3. SessionsInOrder' /\ UNCHANGED opened
      BY <2>1, <2>2, CountKept DEF IInv
    <2>4. current'[Host] \in {current[Host], 0} /\ opened'[Host] \in Nat
      BY <1>1, <2>2, HostAssumption, MaxSessionsAssumption
      DEF Release, IInv, TypeOK, SessionIds
    <2>5. \A s \in Symbols : tickers'[s] \in {tickers[s], 0}
      BY <1>4 DEF SelfHeal, BookAges, DiffDue, vars, ClearTickers
    <2> QED
      BY <1>1, <2>1, <2>3, <2>4, <2>5, OthersCutOff DEF IInv
  <1> QED
    BY <1>2, <1>3, <1>4 DEF Next, SlotStep

\* The invariant holds throughout: in particular a host session the loop has
\* found dead, silent or without accounts is handed out, and its streams are
\* taken for alive, only until the hang-up of the same iteration.
THEOREM Invariance == Spec => []IInv
  BY InitInvariant, NextInvariant, PTL DEF Spec

\* Type correctness of live.py's market loop and of what it sees of the slots.
THEOREM TypeCorrect == Spec => []TypeOK
  <1>1. IInv => TypeOK
    BY DEF IInv
  <1> QED
    BY <1>1, Invariance, PTL

-----------------------------------------------------------------------------
(* Where streams come from.                                                *)

\* What a stream is on, until there is a verdict on the host.
StreamsFollow ==
    ~HostIsDoomed =>
        \A s \in Symbols : tickers[s] \in {0, current[Host]} \union taken

\* Kept by a step that undoes no verdict, streams from no session but the
\* host's, and takes that one away only as another task does.
LEMMA FollowKept ==
  ASSUME StreamsFollow, HostIsDoomed => HostIsDoomed', taken \subseteq taken',
         current'[Host] = current[Host] \/ current[Host] \in {0} \union taken',
         \A s \in Symbols : tickers'[s] \in {tickers[s], 0, current[Host]}
  PROVE  StreamsFollow'
  BY DEF StreamsFollow

\* Kept by the loop: it takes nothing from the host without a verdict, and
\* clears the streams with the hang-up.
LEMMA LoopFollows ==
  ASSUME IInv, StreamsFollow, LoopStep
  PROVE  StreamsFollow'
  <1>0. Host \in Slots /\ UNCHANGED taken
    BY HostAssumption
    DEF LoopStep, TopDead, TopGo, Scan, FetchOk, FetchBad, Close, GetLock, Orders,
        Collect, ReadOk, ReadFail, Publish, PublishFail, Ticks, Condemn, historyVars
  <1>1. CASE Scan
    <2>1. UNCHANGED tickers
      BY <1>1 DEF Scan
    <2>2. CASE HostIsDoomed'
      BY <2>2 DEF StreamsFollow
    <2>3. CASE current'[Host] = current[Host]
      BY <1>0, <1>1, <2>1, <2>3, ScanVerdict, FollowKept
    <2> QED
      BY <1>1, <2>2, <2>3, ScanVerdict
  <1>2. CASE FetchOk \/ FetchBad
    <2>1. UNCHANGED <<current, tickers>>
      BY <1>2 DEF FetchOk, FetchBad, slotVars
    <2> QED
      BY <1>0, <1>2, <2>1, FetchVerdict, FollowKept
  <1>3. CASE TopDead
    BY <1>3 DEF TopDead, ClearTickers, StreamsFollow
  <1>4. CASE Close
    <2>1. CASE ClearTickers
      BY <2>1 DEF ClearTickers, StreamsFollow
    <2>2. CASE GhostSlots = {} /\ UNCHANGED <<slotVars, ghosts, tickers>>
      <3>1. ~HostIsDoomed
        BY <1>0, <2>2 DEF HostIsDoomed, GhostSlots
      <3> QED
        BY <1>0, <2>2, <3>1, FollowKept DEF slotVars
    <2>3. CASE pc' = "closing" /\ UNCHANGED <<slotVars, ghosts, tickers>>
      <3>1. HostIsDoomed => HostIsDoomed'
        BY <1>4, <2>3 DEF Close, HostIsDoomed
      <3> QED
        BY <1>0, <2>3, <3>1, FollowKept DEF slotVars
    <2> QED
      BY <1>4, <2>1, <2>2, <2>3 DEF Close
  <1>5. CASE \/ TopGo \/ GetLock \/ Orders \/ Collect \/ ReadOk \/ ReadFail
             \/ Publish \/ PublishFail \/ Ticks
    <2>1. UNCHANGED current
      BY <1>5 DEF TopGo, GetLock, Orders, Collect, ReadOk, ReadFail, Publish,
                  PublishFail, Ticks, slotVars
    <2>2. \A s \in Symbols : tickers'[s] \in {tickers[s], 0, current[Host]}
      BY <1>5 DEF TopGo, GetLock, Orders, Collect, ReadOk, ReadFail, Publish,
                  PublishFail, Ticks, Reconcile
    <2>3. HostIsDoomed => HostIsDoomed'
      BY <1>5, DoomedWhere
      DEF TopGo, GetLock, Orders, Collect, ReadOk, ReadFail, Publish,
          PublishFail, Ticks, HostIsDoomed
    <2> QED
      BY <1>0, <2>1, <2>2, <2>3, FollowKept
  <1> QED
    BY <1>1, <1>2, <1>3, <1>4, <1>5 DEF LoopStep

\* Another task that hangs up the host leaves its session to the streams.
LEMMA OthersFollow ==
  ASSUME IInv, StreamsFollow, NEW k \in Slots, OtherSync(k) \/ OtherClose(k)
  PROVE  StreamsFollow'
  <1>1. /\ UNCHANGED <<pc, at, ghosts, tickers>>
        /\ Take(k)
    BY DEF OtherSync, OtherClose, Take, loopVars
  <1>2. HostIsDoomed => HostIsDoomed'
    BY <1>1 DEF HostIsDoomed
  <1>3. taken \subseteq taken' /\ (k = Host => current[Host] \in taken')
    BY <1>1 DEF Take
  <1>4. k # Host => current'[Host] = current[Host]
    BY <1>1, HostAssumption DEF Take, Release, IInv, TypeOK
  <1> QED
    BY <1>1, <1>2, <1>3, <1>4, FollowKept

\* Once the loop has hung up what it judged, a stream is on the session that
\* the host hands out or on one that another task has hung up: losses, refusals,
\* new sessions and the loop's own verdicts leave no stale stream behind.
THEOREM StreamsAreExplained == Spec => []StrayStreamsWereTaken
  <1>1. Init => StreamsFollow
    BY DEF Init, StreamsFollow
  <1>2. IInv /\ StreamsFollow /\ [Next]_vars => StreamsFollow'
    <2> SUFFICES ASSUME IInv, StreamsFollow, [Next]_vars PROVE StreamsFollow'
      OBVIOUS
    <2>1. CASE LoopStep
      BY <2>1, LoopFollows
    <2>2. CASE UNCHANGED <<pc, at, ghosts, current, tickers, taken>>
      <3>1. HostIsDoomed => HostIsDoomed'
        BY <2>2 DEF HostIsDoomed
      <3> QED
        BY <2>2, <3>1, FollowKept
    <2>3. ASSUME NEW k \in Slots, DialOk(k) PROVE StreamsFollow'
      <3>1. UNCHANGED <<pc, at, ghosts, tickers, taken>> /\ lock[k] = "dialing"
        BY <2>3 DEF DialOk, loopVars, historyVars
      <3>2. current[k] = 0
        BY <3>1 DEF IInv, SessionsInOrder
      <3>3. current'[Host] = current[Host] \/ current[Host] = 0
        BY <2>3, <3>2, HostAssumption DEF DialOk, IInv, TypeOK
      <3>4. HostIsDoomed => HostIsDoomed'
        BY <3>1 DEF HostIsDoomed
      <3> QED
        BY <3>1, <3>3, <3>4, FollowKept
    <2>4. ASSUME NEW k \in Slots, OtherSync(k) \/ OtherClose(k) PROVE StreamsFollow'
      BY <2>4, OthersFollow
    <2>5. CASE SelfHeal
      BY <2>5 DEF SelfHeal, ClearTickers, StreamsFollow
    <2> QED
      BY <2>1, <2>2, <2>3, <2>4, <2>5
      DEF Next, Dial, DialEnd, Drop, BookAges, DiffDue, vars, loopVars, slotVars,
          historyVars
  <1>3. StreamsFollow => StrayStreamsWereTaken
    BY DoomedWhere DEF StreamsFollow, StrayStreamsWereTaken
  <1> QED
    BY <1>1, <1>2, <1>3, Invariance, PTL DEF Spec

-----------------------------------------------------------------------------
(* What an order book leaves out.                                          *)

\* Slot k has kept the session it had when the order reads began.
Kept(k) == held[k] # 0 /\ alive[k] /\ current[k] = held[k]

\* The slots that the pass has left behind and that have kept their session
\* are all collected.
PassIsWhole ==
    pc \in {"collect", "reading"} =>
        \A i \in 1 .. at - 1 : Kept(SlotOrder[i]) => SlotOrder[i] \in got

\* A step away from the pass, or one in it that neither goes on nor gives a slot
\* its old session back.
LEMMA PassKept ==
  ASSUME PassIsWhole, pc' = pc, at' = at, got' = got,
         \A k \in Slots : Kept(k)' => Kept(k), at \in 1 .. N + 1
  PROVE  PassIsWhole'
  <1>1. \A i \in 1 .. at - 1 : SlotOrder[i] \in Slots
    BY NumberOfSlots DEF Slots
  <1> QED
    BY <1>1 DEF PassIsWhole

\* A slot of the pass is passed by only if it has no session, or was read.
LEMMA LoopKeepsPass ==
  ASSUME IInv, PassIsWhole, LoopStep
  PROVE  PassIsWhole'
  <1>0. N \in Nat /\ at \in 1 .. N + 1
    BY NumberOfSlots DEF IInv, TypeOK
  <1>1. CASE pc' \notin {"collect", "reading"}
    BY <1>1 DEF PassIsWhole
  <1>2. CASE Orders
    BY <1>0, <1>2 DEF Orders, PassIsWhole
  <1>3. CASE Collect /\ at' = at + 1
    <2>1. /\ pc = "collect" /\ current[Turn] = 0
          /\ UNCHANGED <<alive, current, held, got>>
      BY <1>0, <1>3 DEF Collect, slotVars, localVars, bookVars
    <2>2. ~Kept(Turn)
      BY <2>1 DEF Kept
    <2>3. \A i \in 1 .. at' - 1 : i \in 1 .. at - 1 \/ i = at
      BY <1>0, <1>3
    <2> QED
      BY <1>3, <2>1, <2>2, <2>3 DEF PassIsWhole, Kept, Turn
  <1>4. CASE Collect /\ pc' = "reading"
    BY <1>4 DEF Collect, PassIsWhole, Kept, slotVars, localVars, bookVars
  <1>5. CASE ReadOk
    <2>1. \A i \in 1 .. at' - 1 : i \in 1 .. at - 1 \/ i = at
      BY <1>0, <1>5 DEF ReadOk
    <2> QED
      BY <1>5, <2>1 DEF ReadOk, PassIsWhole, Kept, Turn, slotVars, localVars
  <1> QED
    BY <1>0, <1>1, <1>2, <1>3, <1>4, <1>5
    DEF LoopStep, TopDead, TopGo, Scan, FetchOk, FetchBad, Close, GetLock, Collect,
        ReadFail, Publish, PublishFail, Ticks

\* Other tasks end sessions and open new ones, but bring no session back.
LEMMA OthersKeepPass ==
  ASSUME IInv, PassIsWhole,
         \/ \E k \in Slots : SlotStep(k)
         \/ SelfHeal \/ BookAges \/ DiffDue \/ UNCHANGED vars
  PROVE  PassIsWhole'
  <1>0. /\ UNCHANGED <<pc, at, got, held>>
        /\ at \in 1 .. N + 1
    BY DEF SlotStep, Dial, DialOk, DialEnd, Drop, OtherSync, OtherClose, SelfHeal,
           BookAges, DiffDue, vars, loopVars, localVars, bookVars, IInv, TypeOK
  <1>1. ASSUME NEW k \in Slots, DialOk(k) PROVE \A j \in Slots : Kept(j)' => Kept(j)
    <2>1. ~Kept(k)'
      <3>1. current'[k] = opened[k] + 1
        BY <1>1 DEF DialOk, IInv, TypeOK
      <3>2. held[k] <= opened[k] /\ held[k] \in Nat /\ opened[k] \in Nat
        BY MaxSessionsAssumption DEF IInv, SessionsInOrder, TypeOK, SessionIds
      <3> QED
        BY <1>0, <3>1, <3>2 DEF Kept
    <2>2. \A j \in Slots \ {k} : current'[j] = current[j] /\ alive'[j] = alive[j]
      BY <1>1 DEF DialOk, IInv, TypeOK
    <2> QED
      BY <1>0, <2>1, <2>2 DEF Kept
  <1>2. ASSUME NEW k, Release(k) PROVE \A j \in Slots : Kept(j)' => Kept(j)
    BY <1>0, <1>2 DEF Release, Kept, IInv, TypeOK
  <1>3. ASSUME NEW k \in Slots, Drop(k) PROVE \A j \in Slots : Kept(j)' => Kept(j)
    BY <1>0, <1>3 DEF Drop, Kept, IInv, TypeOK
  <1>4. CASE UNCHANGED <<current, alive>>
    BY <1>0, <1>4, PassKept DEF Kept
  <1> QED
    BY <1>0, <1>1, <1>2, <1>3, <1>4, PassKept
    DEF SlotStep, Dial, DialEnd, OtherSync, OtherClose, Take, SelfHeal, BookAges,
        DiffDue, vars, slotVars

\* The book of a finished pass has every slot that kept its session.
LEMMA BookHasTheKept ==
  ASSUME IInv, PassIsWhole, [Next]_vars, pc = "collect", pc' = "publish",
         book' # {}, NEW k \in Slots, Kept(k)
  PROVE  k \in book'
  <1>1. Collect /\ at > N /\ book' = got
    BY DEF Next, LoopStep, TopDead, TopGo, Scan, FetchOk, FetchBad, Close, GetLock,
           Orders, Collect, ReadOk, ReadFail, Publish, PublishFail, Ticks, Dial,
           DialOk, DialEnd, Drop, OtherSync, OtherClose, SelfHeal, BookAges,
           DiffDue, vars, loopVars
  <1>2. PICK i \in 1 .. N : k = SlotOrder[i]
    BY DEF Slots
  <1>3. i \in 1 .. at - 1
    BY <1>1, NumberOfSlots DEF IInv, TypeOK
  <1> QED
    BY <1>1, <1>2, <1>3 DEF PassIsWhole

\* "A failed read is not an empty book" (TD-211), nor a shorter one: for any
\* slots, a book leaves out only those without a live session when its pass
\* began and those that lost it during the pass.
THEOREM BooksAreComplete == Spec => BookOmitsOnlyLost
  <1>1. Init => PassIsWhole
    BY DEF Init, PassIsWhole
  <1>2. IInv /\ PassIsWhole /\ [Next]_vars => PassIsWhole'
    BY LoopKeepsPass, OthersKeepPass DEF Next, SlotStep
  <1>3. IInv /\ PassIsWhole /\ [Next]_vars =>
          [pc = "collect" /\ pc' = "publish" /\ book' # {} =>
             \A k \in Slots :
                held[k] # 0 /\ alive[k] /\ current[k] = held[k] => k \in book']_vars
    BY BookHasTheKept DEF Kept
  <1> QED
    BY <1>1, <1>2, <1>3, Invariance, PTL DEF Spec, BookOmitsOnlyLost

-----------------------------------------------------------------------------
(* Ticks.                                                                  *)

\* When the ticks are due, no verdict is left to wait for: nothing is streamed
\* on a condemned session, and the host hands out none.
LEMMA TicksAreClean ==
  ASSUME IInv, [Next]_vars, pc = "ticks", pc' = "top", NEW s \in Symbols
  PROVE  tickers'[s] \notin condemned
  <1>1. ~HostIsDoomed
    BY DoomedWhere
  <1>2. 0 \notin condemned /\ current[Host] \notin condemned
        /\ tickers[s] \notin condemned
    BY <1>1 DEF IInv, CondemnedWereOpened, GhostsAreCutOff
  <1>3. tickers'[s] \in {tickers[s], 0, current[Host]}
    BY DEF Next, LoopStep, TopDead, TopGo, Scan, FetchOk, FetchBad,
           Close, GetLock, Orders, Collect, ReadOk, ReadFail, Publish,
           PublishFail, Ticks, Reconcile, Dial, DialOk, DialEnd, Drop,
           OtherSync, OtherClose, SelfHeal, BookAges, DiffDue, vars,
           ClearTickers, loopVars
  <1> QED
    BY <1>2, <1>3

\* "Account truth before tick optimism": whatever is dialled, lost and hung up
\* meanwhile, no tick comes from a session the loop has condemned.
THEOREM GhostsAreSilent == Spec => NoTickFromGhost
  <1>1. IInv /\ [Next]_vars =>
          [pc = "ticks" /\ pc' = "top" =>
             \A s \in Symbols : tickers'[s] \notin condemned]_vars
    BY TicksAreClean
  <1> QED
    BY <1>1, Invariance, PTL DEF Spec, NoTickFromGhost

-----------------------------------------------------------------------------
(* Each slot is a SlotSession.                                             *)

LEMMA SlotInit ==
  ASSUME Init, NEW k \in Slots
  PROVE  Slot(k)!Init
  BY DEF Init, Slot!Init

\* A hang-up of some slot is a hang-up of that one, if it had a session.
LEMMA ReleaseImplements ==
  ASSUME IInv, NEW j, Release(j), NEW k \in Slots
  PROVE  UNCHANGED Slot(k)!vars \/ Slot(k)!Next
  <1>1. CASE j # k
    <2>1. /\ current'[k] = current[k] /\ alive'[k] = alive[k]
          /\ UNCHANGED <<opened, lock>>
      BY <1>1 DEF Release, IInv, TypeOK
    <2> QED
      BY <2>1 DEF Slot!vars
  <1>2. CASE j = k
    <2>1. current'[k] = 0 /\ ~alive'[k] /\ UNCHANGED <<opened, lock>>
      BY <1>2 DEF Release, IInv, TypeOK
    <2>2. alive[k] => current[k] # 0
      BY DEF IInv, TypeOK
    <2>3. lock[k] = "dialing" => current[k] = 0
      BY DEF IInv, SessionsInOrder
    <2>4. CASE current[k] = 0
      BY <2>1, <2>2, <2>4 DEF Slot!vars
    <2>5. CASE current[k] # 0
      BY <2>1, <2>3, <2>5 DEF Slot!Next, Slot!Release
    <2> QED
      BY <2>4, <2>5
  <1> QED
    BY <1>1, <1>2

\* A slot's own step is one of SlotSession's, and a stutter of the others.
LEMMA SlotStepImplements ==
  ASSUME IInv, NEW j \in Slots, SlotStep(j), NEW k \in Slots
  PROVE  UNCHANGED Slot(k)!vars \/ Slot(k)!Next
  <1>0. /\ opened[k] \in Nat /\ current[k] \in Nat
        /\ alive[k] => current[k] # 0
        /\ lock[k] = "dialing" => current[k] = 0 /\ opened[k] < MaxSessions
    BY MaxSessionsAssumption DEF IInv, TypeOK, SessionsInOrder, SessionIds
  <1>1. CASE OtherSync(j) \/ OtherClose(j)
    BY <1>1, ReleaseImplements DEF OtherSync, OtherClose, Take
  <1>2. CASE j # k /\ ~(OtherSync(j) \/ OtherClose(j))
    <2>1. /\ current'[k] = current[k] /\ alive'[k] = alive[k]
          /\ opened'[k] = opened[k] /\ lock'[k] = lock[k]
      BY <1>2 DEF SlotStep, Dial, DialOk, DialEnd, Drop, IInv, TypeOK
    <2> QED
      BY <2>1 DEF Slot!vars
  <1>3. CASE j = k /\ Dial(k)
    <2>1. /\ current[k] = 0 /\ current'[k] = 0 /\ ~alive[k] /\ ~alive'[k]
          /\ lock[k] = "free" /\ lock'[k] = "dialing"
          /\ opened[k] < MaxSessions /\ UNCHANGED opened
      BY <1>0, <1>3 DEF Dial, NeedsDial, IInv, TypeOK
    <2>2. opened[k] + 1 \in 1 .. MaxSessions
      BY <1>0, <2>1, MaxSessionsAssumption
    <2>3. Slot(k)!Dial(opened[k] + 1)
      BY <2>1 DEF Slot!Dial
    <2> QED
      BY <2>2, <2>3 DEF Slot!Next
  <1>4. CASE j = k /\ DialOk(k)
    <2>1. /\ current[k] = 0 /\ current'[k] = opened[k] + 1
          /\ ~alive[k] /\ alive'[k]
          /\ lock[k] = "dialing"
      BY <1>0, <1>4 DEF DialOk, IInv, TypeOK
    <2>2. opened[k] + 1 \in 1 .. MaxSessions
      BY <1>0, <2>1, MaxSessionsAssumption
    <2>3. Slot(k)!Accept(opened[k] + 1)
      BY <2>1 DEF Slot!Accept
    <2> QED
      BY <2>2, <2>3 DEF Slot!Next
  <1>5. CASE j = k /\ DialEnd(k)
    <2>1. /\ lock[k] # "free" /\ lock'[k] = "free"
          /\ UNCHANGED <<current, alive, opened>>
      BY <1>5 DEF DialEnd, IInv, TypeOK
    <2>2. CASE alive[k] \/ lock[k] # "dialing"
      BY <2>1, <2>2 DEF Slot!vars
    <2>3. CASE ~alive[k] /\ lock[k] = "dialing"
      <3>1. opened[k] + 1 \in 1 .. MaxSessions
        BY <1>0, <2>3, MaxSessionsAssumption
      <3>2. Slot(k)!Drop(opened[k] + 1)
        BY <2>1, <2>3 DEF Slot!Drop
      <3> QED
        BY <3>1, <3>2 DEF Slot!Next
    <2> QED
      BY <2>2, <2>3
  <1>6. CASE j = k /\ Drop(k)
    <2>1. /\ alive[k] /\ ~alive'[k] /\ lock[k] # "dialing"
          /\ UNCHANGED <<current, opened, lock>>
      BY <1>0, <1>6 DEF Drop, IInv, TypeOK
    <2>2. current[k] \in 1 .. MaxSessions
      BY <1>0, <2>1, MaxSessionsAssumption DEF IInv, TypeOK, SessionIds
    <2>3. Slot(k)!Drop(current[k])
      BY <2>1 DEF Slot!Drop
    <2> QED
      BY <2>2, <2>3 DEF Slot!Next
  <1> QED
    BY <1>1, <1>2, <1>3, <1>4, <1>5, <1>6 DEF SlotStep

\* Every step is one of SlotSession's for each slot, or a stutter.
LEMMA StepImplements ==
  ASSUME IInv, [Next]_vars, NEW k \in Slots
  PROVE  UNCHANGED Slot(k)!vars \/ Slot(k)!Next
  <1>1. CASE \E j \in Slots : SlotStep(j)
    BY <1>1, SlotStepImplements
  <1>2. CASE LoopStep \/ SelfHeal \/ BookAges \/ DiffDue \/ UNCHANGED vars
    <2>1. UNCHANGED slotVars \/ \E j : Release(j)
      BY <1>2
      DEF LoopStep, TopDead, TopGo, Scan, FetchOk, FetchBad, Close,
          GetLock, Orders, Collect, ReadOk, ReadFail, Publish, PublishFail,
          Ticks, SelfHeal, BookAges, DiffDue, vars
    <2>2. CASE UNCHANGED slotVars
      BY <2>2 DEF slotVars, Slot!vars
    <2> QED
      BY <2>1, <2>2, ReleaseImplements
  <1> QED
    BY <1>1, <1>2 DEF Next, SlotStep

\* The loop asks no more of a slot than SlotConnection provides: seen through
\* the session numbers, every slot is a SlotSession.
THEOREM SlotsAreSessions == Spec => SlotsSpec
  <1>1. Init => \A k \in Slots : Slot(k)!Init
    BY SlotInit
  <1>2. IInv /\ [Next]_vars =>
          [\A k \in Slots : UNCHANGED Slot(k)!vars \/ Slot(k)!Next]_vars
    BY StepImplements
  <1> QED
    BY <1>1, <1>2, Invariance, PTL DEF Spec, SlotsSpec
=============================================================================
