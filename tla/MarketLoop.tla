------------------------------ MODULE MarketLoop ------------------------------
(***************************************************************************)
(* live.py's _market_loop with _refresh_order_reads and                    *)
(* _reconcile_host_market_data, over slots that other tasks dial and hang  *)
(* up.  A slot is seen here as SlotSession shows it: sessions numbered in  *)
(* the order they are opened, one current at most (state is CONNECTED      *)
(* exactly then), and the lock of connect() that a disconnect() waits for. *)
(* While pc is in Running the loop is between two awaits: nothing else in  *)
(* the process moves.                                                      *)
(***************************************************************************)
EXTENDS Integers, Sequences, FiniteSets

CONSTANTS
    SlotOrder,      \* the slots in the order of self._slots
    Host,           \* the slot that streams market data
    Watch,          \* settings.watchlist_symbols
    OnDemand,       \* symbols others may register
    MaxSessions,    \* bound on the sessions opened on each slot
    OthersClose     \* TRUE: health and operator loops notice and cause losses too

N == Len(SlotOrder)
Slots == {SlotOrder[i] : i \in 1 .. N}
Symbols == Watch \union OnDemand

\* self._slots is a dict: no slot comes twice.
ASSUME SlotOrderAssumption ==
    /\ SlotOrder \in Seq(Slots)
    /\ \A i, j \in 1 .. N : SlotOrder[i] = SlotOrder[j] => i = j
ASSUME HostAssumption == Host \in Slots
ASSUME MaxSessionsAssumption == MaxSessions \in Nat \ {0}
ASSUME OthersCloseAssumption == OthersClose \in BOOLEAN

VARIABLES
    current,        \* the session each slot hands out, 0 for none
    alive,          \* is the current session's socket open?
    opened,         \* sessions opened on each slot so far
    lock,           \* connect() on each slot: "free", "dialing" or "accounts"
    pc,             \* where the market loop stands
    at,             \* position in SlotOrder of the loop it is in
    ghosts,         \* the session judged on each slot of ghost_slots, or 0
    rows,           \* slots whose accounts are in snap_accounts
    held,           \* session of each slot when the order reads began (history)
    got,            \* slots whose orders and executions have been collected
    book,           \* _open_orders_cache: the slots it covers, {} for None or
                    \* older than a minute (which is read again before any use)
    tickers,        \* the session each symbol is streamed on, 0 for none
    reconciled,     \* less than on_demand_reconcile_sec since the last diff
    condemned,      \* host sessions the loop found to be ghosts (history)
    taken           \* host sessions that other tasks hung up (history)

slotVars == <<current, alive, opened, lock>>
localVars == <<rows, held>>
bookVars == <<got, book>>
historyVars == <<condemned, taken>>
vars == <<slotVars, pc, at, ghosts, localVars, bookVars, tickers,
          reconciled, historyVars>>

SessionIds == 0 .. MaxSessions
Running == {"scan", "close", "orders", "collect", "publish", "ticks"}
Awaiting == {"top", "fetch", "closing", "reading"}

TypeOK ==
    /\ current \in [Slots -> SessionIds]
    /\ alive \in [Slots -> BOOLEAN]
    /\ \A k \in Slots : alive[k] => current[k] # 0
    /\ opened \in [Slots -> SessionIds]
    /\ lock \in [Slots -> {"free", "dialing", "accounts"}]
    /\ pc \in Running \union Awaiting
    /\ at \in 1 .. N + 1
    /\ ghosts \in [Slots -> SessionIds]
    /\ rows \subseteq Slots
    /\ held \in [Slots -> SessionIds]
    /\ got \subseteq Slots
    /\ book \subseteq Slots
    /\ tickers \in [Symbols -> SessionIds]
    /\ reconciled \in BOOLEAN
    /\ condemned \subseteq SessionIds
    /\ taken \subseteq SessionIds

Init ==
    /\ current = [k \in Slots |-> 0]
    /\ alive = [k \in Slots |-> FALSE]
    /\ opened = [k \in Slots |-> 0]
    /\ lock = [k \in Slots |-> "free"]
    /\ pc = "top"
    /\ at = 1
    /\ ghosts = [k \in Slots |-> 0]
    /\ rows = {}
    /\ held = [k \in Slots |-> 0]
    /\ got = {}
    /\ book = {}
    /\ tickers = [s \in Symbols |-> 0]
    /\ reconciled = FALSE
    /\ condemned = {}
    /\ taken = {}

-----------------------------------------------------------------------------
(* Helpers.                                                                *)

\* Mutant of Release: the slot forgets the session, its socket stays open.
ReleaseKeepsSocket(k) ==
    /\ current' = [current EXCEPT ![k] = 0]
    /\ UNCHANGED <<alive, opened, lock>>

\* Slot k hands out nothing any more; its session, if any, has ended.
Release(k) ==
    /\ current' = [current EXCEPT ![k] = 0]
    /\ alive' = [alive EXCEPT ![k] = FALSE]
    /\ UNCHANGED <<opened, lock>>

\* Mutant of ClearTickers: the streams are taken to survive the session.
KeepTickers == UNCHANGED <<tickers, reconciled>>

ClearTickers ==
    /\ tickers' = [s \in Symbols |-> 0]
    /\ UNCHANGED reconciled

\* The loop finds session n of slot k dead, silent or without accounts.
Condemn(k, n) ==
    /\ condemned' = IF k = Host THEN condemned \union {n} ELSE condemned
    /\ UNCHANGED taken

\* Another task hangs up slot k: the streams stay as they are.
Take(k) ==
    /\ Release(k)
    /\ taken' = IF k = Host THEN taken \union {current[k]} ELSE taken
    /\ UNCHANGED <<condemned, tickers, reconciled>>

\* The slot whose turn it is.
Turn == SlotOrder[at]

-----------------------------------------------------------------------------
(* One iteration of the loop.                                              *)

\* The host's session died since the last iteration.  (Without a session the
\* loop only sleeps.)
TopDead ==
    /\ pc = "top"
    /\ current[Host] # 0
    /\ ~alive[Host]
    /\ Release(Host)
    /\ ClearTickers
    /\ Condemn(Host, current[Host])
    /\ UNCHANGED <<pc, at, ghosts, localVars, bookVars>>

TopGo ==
    /\ pc = "top"
    /\ alive[Host]
    /\ pc' = "scan"
    /\ at' = 1
    /\ ghosts' = [k \in Slots |-> 0]
    /\ rows' = {}
    /\ UNCHANGED <<slotVars, held, bookVars, tickers, reconciled, historyVars>>

\* The next slot: not connected, found dead, or asked for its accounts.
Scan ==
    /\ pc = "scan"
    /\ \/ /\ at > N
          /\ pc' = "close"
          /\ UNCHANGED <<slotVars, at, ghosts, historyVars>>
       \/ /\ at <= N
          /\ current[Turn] = 0
          /\ at' = at + 1
          /\ UNCHANGED <<slotVars, pc, ghosts, historyVars>>
       \/ /\ at <= N
          /\ current[Turn] # 0
          /\ ~alive[Turn]
          /\ Release(Turn)
          /\ ghosts' = [ghosts EXCEPT ![Turn] = current[Turn]]
          /\ Condemn(Turn, current[Turn])
          /\ at' = at + 1
          /\ UNCHANGED pc
       \/ /\ at <= N
          /\ alive[Turn]
          /\ pc' = "fetch"
          /\ ghosts' = [ghosts EXCEPT ![Turn] = current[Turn]]
          /\ UNCHANGED <<slotVars, at, historyVars>>
    /\ UNCHANGED <<localVars, bookVars, tickers, reconciled>>

\* fetch_accounts_snapshot_rows returns, whether its reads of positions and
\* summaries raised or not: there are rows, the slot is no ghost.
FetchOk ==
    /\ pc = "fetch"
    /\ pc' = "scan"
    /\ at' = at + 1
    /\ rows' = rows \union {Turn}
    /\ ghosts' = [ghosts EXCEPT ![Turn] = 0]
    /\ UNCHANGED <<slotVars, held, bookVars, tickers, reconciled, historyVars>>

\* No managed accounts, or no answer in 30 s: the session asked is a ghost.
FetchBad ==
    /\ pc = "fetch"
    /\ pc' = "scan"
    /\ at' = at + 1
    /\ Condemn(Turn, ghosts[Turn])
    /\ UNCHANGED <<slotVars, ghosts, localVars, bookVars, tickers, reconciled>>

GhostSlots == {k \in Slots : ghosts[k] # 0}

\* The first slot of ghost_slots that is not hung up yet.
FirstGhost == SlotOrder[CHOOSE i \in 1 .. N :
    /\ SlotOrder[i] \in GhostSlots
    /\ \A j \in 1 .. i - 1 : SlotOrder[j] \notin GhostSlots]

\* "await sc.disconnect()" on each ghost slot, whatever session it has by
\* now; it waits for a connect() on that slot.  Then the streams are gone.
Close ==
    /\ pc = "close"
    /\ \/ /\ GhostSlots = {}
          /\ pc' = "orders"
          /\ UNCHANGED <<slotVars, ghosts, tickers, reconciled>>
       \/ /\ GhostSlots # {}
          /\ lock[FirstGhost] # "free"
          /\ pc' = "closing"
          /\ UNCHANGED <<slotVars, ghosts, tickers, reconciled>>
       \/ /\ GhostSlots # {}
          /\ lock[FirstGhost] = "free"
          /\ Release(FirstGhost)
          /\ ghosts' = [ghosts EXCEPT ![FirstGhost] = 0]
          /\ ClearTickers
          /\ UNCHANGED pc
    /\ UNCHANGED <<at, localVars, bookVars, historyVars>>

GetLock ==
    /\ pc = "closing"
    /\ lock[FirstGhost] = "free"
    /\ pc' = "close"
    /\ UNCHANGED <<slotVars, at, ghosts, localVars, bookVars, tickers,
                   reconciled, historyVars>>

\* _refresh_order_reads(): the cache is good for a minute.
Orders ==
    /\ pc = "orders"
    /\ \/ /\ book # {}
          /\ pc' = "publish"
          /\ UNCHANGED <<at, got, held>>
       \/ /\ book = {}
          /\ pc' = "collect"
          /\ at' = 1
          /\ got' = {}
          /\ held' = [k \in Slots |-> IF alive[k] THEN current[k] ELSE 0]
    /\ UNCHANGED <<slotVars, ghosts, rows, book, tickers,
                   reconciled, historyVars>>

\* The next slot of the order reads.  On a dead session reqOpenOrders is
\* skipped and its list is empty, but reqExecutions, next, raises.
Collect ==
    /\ pc = "collect"
    /\ \/ /\ at > N
          /\ book' = got
          /\ pc' = "publish"
          /\ UNCHANGED <<at, got>>
       \/ /\ at <= N
          /\ current[Turn] = 0
          /\ at' = at + 1
          /\ UNCHANGED <<pc, bookVars>>
       \/ /\ at <= N
          /\ current[Turn] # 0
          /\ ~alive[Turn]
          /\ book' = {}
          /\ pc' = "publish"
          /\ UNCHANGED <<at, got>>
       \/ /\ at <= N
          /\ alive[Turn]
          /\ pc' = "reading"
          /\ UNCHANGED <<at, bookVars>>
    /\ UNCHANGED <<slotVars, ghosts, localVars, tickers, reconciled,
                   historyVars>>

ReadOk ==
    /\ pc = "reading"
    /\ alive[Turn]
    /\ pc' = "collect"
    /\ at' = at + 1
    /\ got' = got \union {Turn}
    /\ UNCHANGED <<slotVars, ghosts, localVars, book, tickers,
                   reconciled, historyVars>>

\* Mutant of ReadFail: a read that raises skips its slot.
ReadFailSkips ==
    /\ pc = "reading"
    /\ pc' = "collect"
    /\ at' = at + 1
    /\ UNCHANGED <<slotVars, ghosts, localVars, bookVars, tickers,
                   reconciled, historyVars>>

\* A read raises or times out: the whole cache goes.
ReadFail ==
    /\ pc = "reading"
    /\ pc' = "publish"
    /\ book' = {}
    /\ UNCHANGED <<slotVars, at, ghosts, localVars, got, tickers,
                   reconciled, historyVars>>

\* The locals of the iteration that nothing reads any more.
ForgetLocals ==
    /\ at' = 1
    /\ rows' = {}
    /\ held' = [k \in Slots |-> 0]
    /\ got' = {}

\* write_account_snapshot, and whether ticks are due.
Publish ==
    /\ pc = "publish"
    /\ pc' = IF current[Host] = 0 \/ rows = {} THEN "top" ELSE "ticks"
    /\ ForgetLocals
    /\ UNCHANGED <<slotVars, ghosts, book, tickers, reconciled, historyVars>>

\* Redis is out of reach, at the SET or at the PUBLISH after it: the
\* iteration is abandoned.
PublishFail ==
    /\ pc = "publish"
    /\ pc' = "top"
    /\ ForgetLocals
    /\ UNCHANGED <<slotVars, ghosts, book, tickers,
                   reconciled, historyVars>>

\* _reconcile_host_market_data for the desired symbols: only what is not in
\* _tickers is requested, on the host's session of today.  On a dead session
\* reqMktData raises.
Reconcile(desired) ==
    tickers' = [s \in Symbols |->
        IF s \notin desired THEN 0
        ELSE IF tickers[s] = 0 /\ alive[Host] THEN current[Host]
        ELSE tickers[s]]

\* The diff, unless there was one lately, and a tick for every stream.
Ticks ==
    /\ pc = "ticks"
    /\ \/ /\ reconciled /\ \E s \in Symbols : tickers[s] # 0
          /\ UNCHANGED <<tickers, reconciled>>
       \/ /\ ~(reconciled /\ \E s \in Symbols : tickers[s] # 0)
          /\ \E extra \in SUBSET OnDemand : Reconcile(Watch \union extra)
          /\ reconciled' = TRUE
    /\ pc' = "top"
    /\ UNCHANGED <<slotVars, at, ghosts, localVars, bookVars, historyVars>>

-----------------------------------------------------------------------------
(* The rest of the process, and time.                                      *)

loopVars == <<pc, at, ghosts, localVars, bookVars>>

\* Mutant of NeedsDial: nobody looks whether the slot is connected.
NeedsDialAlways(k) == lock[k] = "free"

\* connect() has the lock and finds no session.
NeedsDial(k) == lock[k] = "free" /\ current[k] = 0

\* reconnect_loop (or reconnect_all) starts to dial.  The lock is fair: a
\* market loop waiting for it goes first.
Dial(k) ==
    /\ pc \notin Running
    /\ NeedsDial(k)
    /\ ~(pc = "closing" /\ k = FirstGhost)
    /\ opened[k] < MaxSessions
    /\ lock' = [lock EXCEPT ![k] = "dialing"]
    /\ UNCHANGED <<current, alive, opened, loopVars, tickers, reconciled, historyVars>>

DialOk(k) ==
    /\ pc \notin Running
    /\ lock[k] = "dialing"
    /\ opened' = [opened EXCEPT ![k] = @ + 1]
    /\ current' = [current EXCEPT ![k] = opened'[k]]
    /\ alive' = [alive EXCEPT ![k] = TRUE]
    /\ lock' = [lock EXCEPT ![k] = "accounts"]
    /\ UNCHANGED <<loopVars, tickers, reconciled, historyVars>>

\* Mutant of DialEnd: a connect() that waits for the accounts keeps the lock.
DialEndOnFailure(k) ==
    /\ pc \notin Running
    /\ lock[k] = "dialing"
    /\ lock' = [lock EXCEPT ![k] = "free"]
    /\ UNCHANGED <<current, alive, opened, loopVars, tickers, reconciled, historyVars>>

\* connect() gives up, or has seen the managed accounts.
DialEnd(k) ==
    /\ pc \notin Running
    /\ lock[k] # "free"
    /\ lock' = [lock EXCEPT ![k] = "free"]
    /\ UNCHANGED <<current, alive, opened, loopVars, tickers, reconciled, historyVars>>

Drop(k) ==
    /\ pc \notin Running
    /\ alive[k]
    /\ alive' = [alive EXCEPT ![k] = FALSE]
    /\ UNCHANGED <<current, opened, lock, loopVars, tickers, reconciled, historyVars>>

\* The health loop's sync_connection_state.
OtherSync(k) ==
    /\ OthersClose
    /\ pc \notin Running
    /\ current[k] # 0
    /\ ~alive[k]
    /\ Take(k)
    /\ UNCHANGED loopVars

\* disconnect() by the health loop (a failed probe) or by disconnect_all.
OtherClose(k) ==
    /\ OthersClose
    /\ pc \notin Running
    /\ current[k] # 0
    /\ lock[k] = "free"
    /\ Take(k)
    /\ UNCHANGED loopVars

\* The self-heal drops the streams and then every session, host first; a
\* connect() under way on the host makes it wait (and then it is OtherClose).
SelfHeal ==
    /\ OthersClose
    /\ pc \notin Running
    /\ current[Host] # 0
    /\ ClearTickers
    /\ \/ lock[Host] = "free" /\ Release(Host)
       \/ lock[Host] # "free" /\ UNCHANGED slotVars
    /\ UNCHANGED <<loopVars, historyVars>>

BookAges ==
    /\ pc \notin Running
    /\ book # {}
    /\ book' = {}
    /\ UNCHANGED <<slotVars, pc, at, ghosts, localVars, got,
                   tickers, reconciled, historyVars>>

DiffDue ==
    /\ pc \notin Running
    /\ reconciled
    /\ reconciled' = FALSE
    /\ UNCHANGED <<slotVars, loopVars, tickers, historyVars>>

-----------------------------------------------------------------------------
LoopStep ==
    \/ TopDead
    \/ TopGo
    \/ Scan
    \/ FetchOk
    \/ FetchBad
    \/ Close
    \/ GetLock
    \/ Orders
    \/ Collect
    \/ ReadOk
    \/ ReadFail
    \/ Publish
    \/ PublishFail
    \/ Ticks

Next ==
    \/ LoopStep
    \/ \E k \in Slots :
         Dial(k) \/ DialOk(k) \/ DialEnd(k) \/ Drop(k) \/ OtherSync(k) \/ OtherClose(k)
    \/ SelfHeal
    \/ BookAges
    \/ DiffDue

Spec == Init /\ [][Next]_vars

\* Every await of the loop has a timeout; a dial ends, though the loop may be
\* running at any moment at which it could (hence strong); time goes on, and
\* Redis takes a snapshot now and then.
Fairness ==
    /\ WF_vars(LoopStep)
    /\ SF_vars(Publish)
    /\ WF_vars(DiffDue)
    /\ \A k \in Slots : SF_vars(DialEnd(k))

FairSpec == Spec /\ Fairness

-----------------------------------------------------------------------------
(* Properties.                                                             *)

\* "Account truth before tick optimism": a session the loop has found dead,
\* silent or without accounts never feeds another tick, whoever replaces it.
NoTickFromGhost ==
    [][pc = "ticks" /\ pc' = "top" =>
         \A s \in Symbols : tickers'[s] \notin condemned]_vars

\* "A failed read is not an empty book" (TD-211), nor a shorter one: a book of
\* a new pass leaves out only slots that were without a live session when the
\* pass began or have lost it since, whichever slots were read, died and came
\* back between the reads.
BookOmitsOnlyLost ==
    [][pc = "collect" /\ pc' = "publish" /\ book' # {} =>
         \A k \in Slots :
            held[k] # 0 /\ alive[k] /\ current[k] = held[k] => k \in book']_vars

\* Each slot of this module is a SlotSession, which SlotConnection implements:
\* nothing the loop is shown of a slot is more than a slot may do.  (A dial
\* under way is the next session being opened.)
Slot(k) == INSTANCE SlotSession WITH
    Sessions <- 1 .. MaxSessions,
    NoSession <- 0,
    live <- IF alive[k] THEN {current[k]}
            ELSE IF lock[k] = "dialing" THEN {opened[k] + 1} ELSE {},
    current <- current[k]

SlotsSpec ==
    /\ \A k \in Slots : Slot(k)!Init
    /\ [][\A k \in Slots : UNCHANGED Slot(k)!vars \/ Slot(k)!Next]_vars

\* Every iteration comes to its end, past fetches, lock queues and dials.
IterationEnds == pc # "top" ~> pc = "top"

\* "Diff watchlist ... vs active Host reqMktData streams": once the host
\* stays connected, the watchlist is streamed on that very session.  (It is
\* not: FeedGoesOn says what is true.)
FeedRecovers ==
    <>[]alive[Host] => <>[](\A s \in Watch : tickers[s] = current[Host])

\* Where stale streams come from: once the loop has hung up what it judged, a
\* symbol in _tickers is streamed on the session the host hands out, or on one
\* that another task has hung up - whatever was lost, dialled, refused and judged
\* before.  (That the latter may stay is why FeedRecovers fails.)
StrayStreamsWereTaken ==
    pc \notin {"scan", "fetch", "close", "closing"} =>
        \A s \in Symbols : tickers[s] \in {0, current[Host]} \union taken

\* What of FeedRecovers holds whoever ends sessions: once the host stays
\* connected, each symbol of the watchlist is streamed, and on that session
\* unless its old stream was left behind by another task's hang-up.
FeedGoesOn ==
    <>[]alive[Host] =>
        <>[](\A s \in Watch : tickers[s] \in {current[Host]} \union taken)

\* "Absent key: core must not TRUNCATE. Empty list: the read succeeded and
\* there are none": a book about to be published covers every slot there is.
BookIsWhole == pc = "publish" => book \in {{}, Slots}
=============================================================================
