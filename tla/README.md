# Verification of the IB gateway (bifrost-platform-plugin)

TLA+ models of `src/bifrost_plugin/ib_gateway`, checked with TLC on small
instances; their safety properties are proved with TLAPS for all instances. Paths below are relative to that package;
the repository root is `src/` in `PROJECT.json`.

## 1. The system

One process per cluster (`replicas: 1`, `Recreate`) connects one or two TWS
instances ("host", "secondary") to one Redis (`redis-ib`) that every Trade
environment reads. It is one asyncio event loop: code between two awaits is
atomic, everything else interleaves. The tasks are

    app.run_gateway ── engine.run ──┬─ reconnect-<slot>   connection.py, one per slot
                    │               ├─ market             live.py _market_loop
                    │               ├─ opt-cache          live.py _opt_cache_loop
                    │               └─ health             live.py _health_loop (+ self-heal)
                    └─ operator     operator.py operator_loop -> live.py handle_command

and they share the slots, `_tickers`, the order caches and Redis.

### Inventory

| Component | State | Operations | Talks to | What is hard | What makes it correct |
|---|---|---|---|---|---|
| Slot connection (`connection.py`) | `state`, `ib`, client-id index, `last_error`, `_connect_lock`, `_maintenance`, `reconnects` | `connect`, `disconnect`, `sync_connection_state`, `verify_api_alive`, maintenance, `reconnect_loop` | TWS; called by every task | FIFO lock on two methods only, sync without it, sessions read before and used after an await, id conflicts, dials that time out | one session; no socket nobody can close; honest `state`; every call returns; recovery |
| Operator bus (`operator.py`, `protocol.py`) | none of its own; Redis streams, group, pending entries | make groups, read a batch, refuse / handle / answer / acknowledge | Redis; the handlers | crash between read, answer and ack; lost replies; Redis restarting empty; errors outside any `try` | at most once, in order per stream; ack only after answer; nothing lost without a failure; an answer in the end |
| Market loop (`live.py`) | `_tickers`, order caches, reconcile time | scan slots, fetch accounts, hang up ghosts, read orders, publish, reconcile streams, write ticks | slots, Redis | verdicts applied after awaits; tickers outliving their session; partial order reads | no tick from a ghost; a failed order read leaves no shorter book behind; the watchlist streams again after a loss |
| Health loop and self-heal (`live.py`, `writer.py`) | stale streak, cooldown | sync and probe slots, L0 soft reconnect, L0.5 exit, health writes | slots, Redis, platform (kill switch), Kubernetes | minutes pass inside a check; shared hash field; Redis failing in the loop | exit only when unhealed; a stuck market loop is healed; the switch is obeyed |
| Command handlers (`live.py`, `ib_ops.py`) | `_cmd_count` | nine ops | slots, TWS | awaits without timeout; slot lost half-way | an envelope for every command |
| On-demand registries (`on_demand*.py`) | two Redis set/hash pairs | list fresh and prune; merge with cap | Redis, market API | prune races with registration | a fresh registration survives; cap respected |
| Option cache loop (`live.py`, `ib_ops.py`) | heartbeat; one TWS stream per one-shot | refresh cycle, RPC refresh, snapshot and price commands | slot, TWS, Redis | two refreshers at once, contracts that hang, a session lost in the middle, a cycle longer than the TTL | no stream outlives its one-shot; heartbeat honest; a contract that answers is cached in time; refreshes end |
| Redis writer (`writer.py`) | snapshot version | writes | Redis | two-step writes, restart resets version | see the components above |
| Supervision (`app.py`) | tasks, stop event | start, stop | all | nobody notices a finished task | a task that ends is noticed (it is not: section 3) |
| Mock gateway, settings, log filters | – | – | – | nothing concurrent | – |

`PROJECT.json` lists all of them with their status, and every hazard with its
line and the property that would catch it.

## 2. Modules

| Module | What it is | Source |
|---|---|---|
| `SlotSession` | abstract: one slot, one session at a time | – |
| `SlotConnection` | one slot with its lock, ids, tasks and TWS; implements `SlotSession` | `connection.py` |
| `CommandBus` | abstract: an at-most-once mailbox, FIFO per stream | – |
| `OperatorBus` | the operator task over Redis streams; implements `CommandBus` | `operator.py`, `protocol.py`, `writer.py` |
| `MarketLoop` | the market loop and its account and order reads over slots; each slot implements `SlotSession` | `live.py`, `ib_ops.py` |
| `SelfHeal` | the health loop's ladder, the kill switch, Redis, the kubelet's probe and restarts | `live.py`, `writer.py`, `app.py` |
| `OnDemand` | the registry of on-demand keys, its listing and pruning, the merge with the watchlist | `on_demand.py`, `on_demand_opt.py`, `live.py` |
| `OptCache` | the opt-cache loop and the operator's quote commands over one session: one-shots, streams, cache, heartbeat, time | `live.py`, `ib_ops.py`, `writer.py` |
| `…Proofs` | the theorems about each of the six models and their proofs (section 4) | |
| `ListLemmas` | what these proofs need of numbers, lists and folds, independent of the gateway | |
| `MC…` | constants of the runs | |

### How the models read the code

**SlotConnection.** Each task (reconnect loop, operator, market, health) has a
`pc` that names the await it is in. `lock` and `waiters` are asyncio's FIFO
lock: a free lock with nobody queued is taken at once, otherwise the task is
queued and `Grant` wakes the oldest. `link[s]` is the socket of IB object `s`;
a dialled object is `cand[t]` (connect()'s local `ib`) until it becomes
`self.ib`. A dial ends in `DialSucceed`, `DialConflict` (error 326: the id
rotates, a second's sleep, hang up) or `DialFail`; an exception without text
falls back to `last_error`, which is why `lastError` is kept. `busy` is the set
of ids other programs hold. Objects nobody refers to are reused, so three
session names stand for any number. Maintenance is modelled although nothing
calls it (constant `Maintainable`).

**OperatorBus.** `log`, `last` and `pel` are the streams, the group's
last-delivered position and its pending entries. `Deliver` is XREADGROUP `>`
over all streams; `ReadLost` is the same without the reply. `Entry` runs
`_process_entry` up to its first await; a deadline may have passed for any
command, so a refusal is always possible. A Redis call outside any `try` that
fails ends the task (`Die`). The results a command may have are abstracted to
"answered", the nine operations to what an entry may be (`Ops`): a query
(`READ_ONLY_OPS`), a control command (`PROD_ONLY_OPS`), or nothing that parses.
Most queries await TWS with no timeout of their own (bars, accounts, executions,
expirations, option snapshots); `ping` and the time-boxed `refresh_option_cache`
are not told apart from these. While one is being handled it is `OpenEnded` when
the task goes on.

The streams are read in the order in which they were given to the client, a
dict's keys: `StreamOrder` names no stream twice (`StreamOrderAssumption`).

**MarketLoop.** `SlotOrder` is the order of `self._slots`, a dict too
(`SlotOrderAssumption`). Sessions of a slot are numbered in the order of opening, which
is all `SlotConnection` promises about them (`OneActiveSession`,
`StateMatchesIb`: `current[k] # 0` is both `ib is not None` and CONNECTED).
`Running` are the program points between two awaits: while `pc` is there no
other task moves. `ghosts` remembers the session that was judged, which the
code does not; it serves the properties only, as do the history variables
`condemned` (host sessions the loop has judged), `taken` (host sessions other
tasks have hung up) and `held` (the session each slot had when the order reads
began). `book` is what `_open_orders_cache` covers while it is good: the code keeps
a list older than a minute, but reads again before it publishes anything, so the
model forgets it. What is published is `book` when `pc` is `"publish"`. The order
reads of `ib_ops.py` are modelled by what they return on a live and on a dead session. The account read is one await: it returns rows,
whether its own reads of positions and summaries raised or not, or none in time;
what the rows say of their positions is a flag that travels with them
(`positions_ok`) and is not modelled.

**SelfHeal.** Time advances in ticks of 30 s, the distance of two checks. Ages
saturate at `MaxAge`, a streak at `MaxStreak` (the code counts on, live.py:602,
but only asks whether the maximum is reached). A check from reading the switch to hanging up the
slots is one step; the platform's write may come between two steps. The reads
of a check and its first status write are therefore seen as one moment: the
model shows fewer overwritten switches than the code allows, never more.

**OnDemand.** One registry: a set of keys (`members`) and a hash of heartbeats,
of which the model keeps the ages (`beat`), as stocks and options have one each
and treat it alike. A client's SADD and HSET are two steps and the second may
never come; a listing is SMEMBERS, HGETALL, SREM, HDEL, each of which may fail,
and clients go on between them. The clock is read once per listing, so `Tick`
waits for it to end. `promised` and `unread` are history: what was registered
and fresh when the listing began, and whether its HGETALL failed.
`BuildDesired` is the merge as the code does it, two loops over sequences;
`DesiredIsRight` is what it should be, by sets. Redis restarting empty is not
part of this model.

**OptCache.** Four actors ask TWS for quotes: the loop, and the operator in one
of three commands at a time (`refresh_option_cache`, `fetch_option_snapshot`
with strikes, and without: then only the underlying's price is fetched and no
row returned, the code that would pick strikes near it is never reached with
any). `pc[a]` is the await a one-shot is in: `"asking"` (qualify, which may
never answer), `"polling"` (a stream is open), then `"pacing"`. `TimeBoxed` are
the callers that use `wait_for`. The refreshers read `host.ib` before each
contract, the snapshot keeps the session it began with; `live` are the actors
whose session is the one that is up, so that a reconnect in the middle leaves a
snapshot on a dead session. A listing may be any set of keys (the registry is
`OnDemand`'s matter), `Sorted` and cut at `Cap`. The cache entry of one contract,
`Tracked`, is followed: `age` counts from the loop's last success with it and is
`NoAge` after a failure of its own or a cycle without it.

**SelfHeal's kubelet.** The liveness probe of k8s/ib-gateway/base/deployment.yaml
pings Redis every 30 s, one tick; it says nothing of the gateway's tasks. After
`ProbeLimit` failures (3, Kubernetes' default: the manifest sets none) the pod
gets SIGTERM, which `run_gateway` obeys, and is started again.

## 3. Runs

| Run | Expect | Question |
|---|---|---|
| `SlotSafety` | pass | one session, no orphan socket, honest state, how long the lock is held, refinement of `SlotSession` |
| `SlotLiveness` | pass | every call returns, the slot recovers, `reconnects` never exceeds sessions |
| `SlotVerdict` | violation | does a failed probe close the session it probed? |
| `Bus` | pass | acknowledged means answered, drops need a failure, refinement of `CommandBus`, an answer in the end while the task lives and no query waits for TWS for ever |
| `Market` | pass | no tick from a ghost, where stale streams come from, what an order book may leave out, refinement of `SlotSession`, iterations end, the watchlist goes on being streamed |
| `MarketStaleFeed` | violation | is the watchlist streamed on the session that stays, though the health and operator loops end sessions too? |
| `MarketBook` | violation | does a published order book cover every slot? |
| `Heal` | pass | is the pod given up only when the soft reconnect did not help? is a stuck market loop always healed? |
| `OnDemand` | pass | is a fresh registration listed and kept, and nothing else listed, does an expired one go, is the merge with the cap right? |
| `OnDemandCap` | violation | are there never more streams than the cap? |
| `OptCache` | pass | does a one-shot always give its stream back, is the heartbeat honest, is a good contract cached in time though others hang, does every refresh end, and how soon? |
| `HealSwitch` | violation | does only the platform turn the switch on again? |

The five violations are listed under "findings" with the line and the text
each contradicts. `CHECK_DEADLOCK FALSE` is set where a bound on failures,
commands, sessions or troubles ends the behaviours, or where a task may end.

What the passing runs except is part of what they say:

* `Answered` (`Bus`) names two ways in which all later commands wait for
  ever, and says that there is no other. One is a query that TWS never answers
  (`OpenEnded`): the requests at ib_ops.py:72, 85, 196, 300 and 335, reqHistoricalData
  in `handle_command` and the option snapshots have no timeout, and the code gives
  no reason why they should return. The other is an operator task that is `"dead"`: the result write, the
  acknowledgement and the making of groups are in no `try` (operator.py:55-56,
  70-71, 126-127), so that one Redis error there ends `operator_loop`;
  `run_gateway` awaits only the stop event (app.py:65) and does not notice.
* `StuckIsHealed` (`Heal`) lets the health loop be `"dead"` while Redis is up:
  `write_plugin_health` (writer.py:154) is in no `try` either, and the kubelet
  restarts the pod only when the outage lasts for three of its probes. A shorter
  one, or one during which the pod starts, leaves a gateway without a health
  loop that nobody restarts. The property also excepts a missing snapshot key:
  after a Redis restart, or before the first snapshot, the check returns at
  live.py:584 and a market loop that is stuck is not healed, so that the snapshot
  stays away, though README.md says of redis-ib that "all keys rebuild from TWS".
* `CacheKeepsUp` (`OptCache`) speaks of a contract that is on the list in every
  cycle. With more fresh keys than `opt_cache_max_contracts` the first ones in
  alphabetical order are listed every time and the others never (live.py:479).
  Its bound, `2(Cap-1)(Timeout+Pacing) + Refresh + Timeout`, is about 860 s with
  the defaults (40 contracts, 10 s, 0.5 s, 30 s); the cache's entries live for
  300 s. An entry of a contract that always answers may thus be gone for minutes
  while others hang. TLC finds the bound reached.
* `HeartbeatIsHonest` (`OptCache`) is one direction of the docstring at
  live.py:655: no false alarm. The other, that a loop that has died is reported, has
  no case here: since 0.2.4 no await of the loop could hang.
* `RefreshesEnd` (`OptCache`) leaves out the snapshot and price commands: they
  have no timeout and may block the operator for as long as TWS is silent.
  `RefreshIsTimeBoxed` says how long a refresh takes at most: `Cap` timeouts and
  the `Cap - 1` pauses between them, with the defaults about 420 s, during which the
  operator that has asked for it answers no other command. What it says is not
  only the sum: a contract's timeout runs over its whole one-shot, and neither a
  broken session nor a refresh by somebody else starts it anew.
* `HoldIsBounded` (`SlotSafety`) counts awaits, not seconds: two per client id (a
  dial of 30 s at most and a second's sleep), and the wait for the accounts, 20 short
sleeps of 5 s together, as one. A
  `disconnect()` of the market or health loop may wait that long in the queue, for
  each connect() before it.
* `StrayStreamsWereTaken` (`Market`) says where stale streams come from: only
  from a session that another task has hung up, never from losses, refusals, new
  sessions or the loop's own verdicts. `FeedGoesOn` adds that no watched symbol is left
  without a stream. That the stale ones then stay, and feed frozen quotes, is what
  `MarketStaleFeed` shows.
* `BookOmitsOnlyLost` (`Market`) allows a book without a slot that was down
  when the reads began or lost its session during them; that such a book is published
  is what `MarketBook` shows (a consumer could tell only from
  `host_connected` and `secondary_connected` in the same snapshot).
* `Close` (`MarketLoop`) hangs up whatever session a ghost slot has by then,
  which may be a fresh one (live.py:339-340); no property says otherwise.
* `FreshAreKept` (`OnDemand`) excepts listings whose HGETALL failed: the code goes
  on without heartbeats (on_demand.py:43) and prunes every member, the fresh ones
  included. It speaks of keys that were fresh when the
  listing began: one that gets its heartbeat, the first or a new one, between
  HGETALL and SREM is pruned all the same, and comes back with its
  client's next call.
* `ExpiredGo` (`OnDemand`) is about the set. A heartbeat whose HDEL failed, or that
  came after it, stays in the hash: nobody removes it and nobody reads it
  until its key is registered again. The docstring's "prune expired SET/HASH
  members" holds of the hash only while no such call fails or comes late.
* `DesiredIsRight` (`OnDemand`) describes the merge as the code does it: the cap is
  applied to the keys on demand only (on_demand.py:95-101), so that a watchlist may
  exceed it. That this is not the "hard cap" of the docstring and of README.md is
  what `OnDemandCap` shows.

### Bounds

* Slot: three IB objects (one handed out, one being probed or refused, one
  being dialled), two client ids (rotation and wrap-around), three disruptions
  (losses, hang-ups, silent TWS, other clients' moves), with the operator and
  the health loop as the other callers of `connect` and `disconnect`; the
  liveness run has two objects, one such caller and no prober. Symmetry on sessions in the safety run only.
* Bus: two streams, one of them restricted, batches of two, three commands (a
  full batch and one left behind), two failures: enough to lose the groups, a batch
  or the task, and to fail again while recovering.
* Market: two slots, two sessions each: enough for a ghost and its
  replacement. One symbol, on the watchlist: every symbol is treated alike, but that
  the ones on demand come and go, which the proofs cover and the runs do not.
  `OthersClose` tells whether tasks other than the market loop end sessions; only
  `MarketBook`, which needs none, says no.
* Self-heal: stale after 3 ticks (90 s), cooldown 2 (60 s), escalation at the third stale check, three failed probes, a soft reconnect of at most 4
  ticks (`MaxHeal`; dials time out), two or four troubles.
* On demand: three keys, one of them on the watchlist, one before and one after
  it in the alphabet's order; a watchlist that is empty or longer than the
  smaller cap and repeats a symbol; caps of 0 (taken as 1) and 2; three
  registrations, so that a key can be registered again during its own prune;
  heartbeats fresh for two ages.
* Option cache: four keys, one of which does not parse, room for two; `Tracked`
  is neither the first nor the last, so it may change its place between two
  cycles. Timeout and refresh of 2 ticks, pacing and retry of 1: every order of
  two timers occurs, and the bounds of `HeartbeatIsHonest` (`StaleWarn` is the
  least its assumption allows) and `CacheKeepsUp` are reached exactly. Nothing
  bounds the sessions: a lost one leaves nothing behind.

### Fairness

Every await in `connection.py` has a timeout or ends in a sleep, so the step
that ends it is weakly fair (`Return`, `GetLock` in `LoopStep`; `DialEnd` is strongly
fair, as the market loop's stretches between two awaits interrupt it); the
reconnect loop and the loops that call `sync_connection_state` come round for
ever. A TWS that is dialled again and again is assumed to accept a free id
sometimes and to refuse a taken one as such sometimes (strong fairness of
`DialSucceed`, `DialConflict`). The market loop's account and order reads have
`wait_for` timeouts; a snapshot write succeeds again and again if tried again
and again (strong fairness of `Publish`). The operator task's steps are weakly
fair, and so is the return of a control command, which waits for calls on the
slots, all of which return (`CallsReturn`). The return of a query (`OpenEnded`) is
not assumed. Failures, drops and restarts are never fair. An outage of Redis ends in
`Bus` (`RedisBack`); in `Heal` it need not, as the kubelet's probe covers the outages
that stay.
The option cache assumes nothing of TWS: only that the event loop serves what is
due and that time goes on (`Tick` is strongly fair, as any number of commands and
reconnects may fit between two ticks of the model, but none takes no time for ever).
The registry is listed again and again (every reconcile or refresh) and time
passes between listings; a Redis that is asked again and again does not fail
every time (strong fairness of `ReadSet` on a non-empty set, `PruneSet`, `Tick`).

## 4. Proofs

Seven modules hold theorems: six about the module each is named after, for any
value of the constants that satisfies that module's `ASSUME`s, and `ListLemmas`,
which they share. There is no other assumption, but for the hypothesis of
`ReconnectsAreSessions`. TLC evaluates every `ASSUME` in
some run.

| Module | Theorem | Says |
|---|---|---|
| `SlotConnectionProofs` | `TypeCorrect`, `Invariance` | `[]TypeOK`, `[]IInv` |
| | `OneSession` | `[]OneActiveSession`: never two sockets open or being opened |
| | `NoOrphans` | `[]NoOrphanSession`: every open socket is the one handed out, or dialled by the lock's holder |
| | `StateIsHonest` | `[]StateMatchesIb` |
| | `NothingLeftReconnecting` | `[]ReconnectingIsHeld` |
| | `ReconnectsAreSessions` | `[]ReconnectsCountSessions`, without maintenance |
| | `HoldsAreBounded` | `HoldIsBounded`: the lock's holder lets go after two awaits per client id |
| | `Refinement` | `SlotSpec`: it implements `SlotSession` |
| `OperatorBusProofs` | `TypeCorrect`, `Invariance` | `[]TypeOK`, `[]IInv` |
| | `PendingIsTrue` | `[]AckedMeansAnswered` |
| | `OnlyFailuresDrop` | `DropsAreFailures` |
| | `MailboxIsKept` | `BusSpec`: it implements `CommandBus` |
| | `NeverTwice` | what is over stays over, what has been started is never started again (no run checks this one by itself: `BusSpec` implies it) |
| `MarketLoopProofs` | `TypeCorrect`, `Invariance` | `[]TypeOK`, `[]IInv` |
| | `GhostsAreSilent` | `NoTickFromGhost` |
| | `StreamsAreExplained` | `[]StrayStreamsWereTaken` |
| | `BooksAreComplete` | `BookOmitsOnlyLost` |
| | `SlotsAreSessions` | `SlotsSpec`: each slot implements `SlotSession` |
| `SelfHealProofs` | `TypeCorrect`, `Invariance` | `[]TypeOK`, `[]IInv` |
| | `ExitOnlyUnhealed` | `ExitMeansUnhealed` |
| | `ExitOnlyAfterStreak` | the ladder gives the pod up only at the end of the streak (no run checks this one) |
| `OnDemandProofs` | `TypeCorrect`, `Invariance` | `[]TypeOK`, `[]IInv` |
| | `FreshSurvive` | `FreshAreKept` |
| | `ListedAlive` | `ListedAreAlive` |
| | `StreamsAreShared` | `[]DesiredIsRight`: what the merge of watchlist and registry computes |
| `OptCacheProofs` | `TypeCorrect`, `Invariance` | `[]TypeOK`, `[]Inv` |
| | `NoStreamLeaks` | `[]NoStrayStream` |
| | `HeartbeatHonest` | `[]HeartbeatIsHonest` |
| | `CacheIsFresh` | `[]CacheKeepsUp` |
| | `RefreshesAreTimeBoxed` | `RefreshIsTimeBoxed` |

Each of the properties is false for some plausible change of the code: the
runs' mutants (`PROJECT.json`) show one for each. TLC checked the inductive
invariants of the operator bus and the market loop on the runs' instances before
they were proved.

### Slot connection

`OneActiveSession` is not inductive: nothing in it says who may
dial. `IInv` adds that the lock is held by exactly the task that is past
`connect()`'s first await (`LockInv`), that a task has a candidate exactly while
it dials or backs off (`CandInv`), that nothing is handed out meanwhile
(`DialInv`: the old session is hung up first, and `Sync` can only take away),
that a session handed out was opened completely (`IbInv`, `LinkInv`), and
`NoOrphanSession`: each open socket is `ib` or the holder's candidate. Two open
sockets would then be `ib` and a candidate, which `DialInv` excludes. Lemmas
treat the shared bodies (`ConnectBody`, `DisconnectBody`, `NextAttempt`) once; one
step per action uses them. The refinement maps a dial to `Dial`, an accepted
dial to `Accept`, losses and failed dials to `Drop`, and hang-ups or `Sync` to
`Release`, everything else to a stutter.

The count of reconnects needs `CountInv`: a reconnect loop that waits for the
lock while the slot has a session, or for the accounts, still has a session to
count. Its hypothesis is `~Maintainable`: `enter_maintenance` has no caller in
the gateway, and with it the property is false, as the reconnect loop that finds
`MAINTENANCE` over a live session counts that session again.

`HoldsAreBounded` is the safety half of `CallsReturn`: a measure of the holder
(`AwaitsLeft`: attempts left, doubled, and where in the attempt it stands) that
falls with each of its own steps and is left alone by everybody else's, `Sync` and
lost sockets included. It needs `LockInv` to know who the holder is; it is what
a refusal that costs no attempt would break.

### Operator bus

What makes a command run once and in turn is spread over Redis and the task.
`IInv` says that the entries of a stream are its commands in the order of
sending (`StreamsAreOrdered`), that the batch holds no command twice and those of
a stream in order (`Ordered`), that it is older than what is still undelivered
(`BatchComesFirst`), that nothing is answered before its turn
(`AnsweredInTurn`: neither what is undelivered nor the rest of the batch nor, up
to its answer, the first of it), and that there is a batch exactly while it is
worked on. A Redis that restarts empty keeps all of this since it only empties
streams. `Deliver` appends one piece per stream to the batch (`FlattenSeq`):
`DeliveryHoldsNewEntries` says which, and needs the existence and the equations of
that operator's recursive function, which follow by an induction over the
number of pieces, as `FlattenSteps` (`ListLemmas`). `MailboxIsKept` follows the phase of
each command through every action; `OnlyFailuresDrop` reads the same lemmas for
the one phase `"dropped"`. The only steps that drop are a crash, a lost reply, a
loss of Redis, the death of the task while Redis is down, and an entry that does
not parse. `NeverTwice` follows from the refinement, as no step of `CommandBus`
leads back from `"done"`, `"dropped"` or `"running"`.

### Market loop

`NoTickFromGhost` speaks of the moment of writing ticks; what makes it true
happens earlier. `GhostsAreCutOff`: the host hands out a condemned session, or a
symbol streams on one, only between the verdict and the hang-up
(`HostIsDoomed`), and the loop passes through neither the reconciliation nor the
ticks in between. Sessions are numbered in order and a slot under dial has
none (`SessionsInOrder`), so that a new session is never one that was condemned
(`CondemnedWereOpened`); `AwaitsASlot` says which slot an await is about. That
`SlotOrder` names a slot once is needed: the loop's position tells whether the
host has been judged in this round. Tasks other than the loop may end sessions
(`OthersClose` is any Boolean). `StreamsAreExplained` uses the same verdict for
another purpose: until `HostIsDoomed` every stream is on the host's session or on
one that was taken (`StreamsFollow`), since the loop takes no session from the host
without a verdict (`ScanVerdict`, `FetchVerdict`), clears the streams with the
hang-up, and a slot under dial has no session on which a stream could be left;
what another task hangs up joins `taken` (`OthersFollow`). `BooksAreComplete` rests on
`PassIsWhole`: of the slots that the order reads have left behind, those that have
kept their session are collected. A slot is passed by only without a session
(`LoopKeepsPass`), and no session comes back: a new one has a number above
`held` (`OthersKeepPass`, by `SessionsInOrder`). `SlotsAreSessions` is proved for an arbitrary slot
`k` and then for all.

### Self-heal

`Escalate` decides by a snapshot's age read before the soft reconnect.
`RewrittenIsYoung`: while the ladder waits, a snapshot written since the check is
at most as old as the wait, so the comparison cannot find it stale. That it waits
only at the end of the streak is part of `TypeOK`.

### On-demand registry

`FreshAreKept` compares the end of a listing with its beginning. `PromisedAreSeen`
carries the promise to HGETALL (clients only add members and refresh
heartbeats, and the clock is not read again), `PromisedAreSafe` from there to the
end: the promised keys are in the result and none of them is to be pruned, or
the hash was unread. `ListedAreAlive` is the other half: `ListedSoFar` carries
what HGETALL found fresh past the prune.

`StreamsAreShared` is about data: two loops over lists, which the code runs and the
model writes as `FoldLeft`. `IncludeSteps` and `OfferSteps` give each of them as a
row of intermediate results, one per key (`FoldExists`: the fold's recursive
function exists and satisfies its equations); what is chosen so far is then shown,
by induction along the row, to be the first of the other keys as long as there is
room (`TakenStep`, `OfferedInOrder`). Sorting is a `CHOOSE`, so it must be shown
that a sorted list exists for every finite set of numbers (`SortingExists`), and
that the sets in play are finite (`Finite`, an invariant). That keys are numbers
and caps integers is `SettingsAssumption`.

### Option cache

The type holds only together with `OneCommand`, `HasContract` and `LoopRuns`: a
one-shot always has its contract at the head of its list. Most actions are one
of two moves, the end of a one-shot (`Over`) or the beginning of a list
(`Begins`), and `MoveInv` treats them once. `HeartbeatIsHonest` follows from
`BeatBudget`: what has gone by since the last heartbeat and what the loop's timer
still runs never exceed one pause and the longest timer, which
`StaleWarnAssumption`, true of the default settings, allows. `CacheKeepsUp` needs a
budget for a whole cycle, `AgeBudget`: the age of the entry, the timer and the
contracts ahead of `Tracked` in this pass or, when it has been cached already,
in the rest of this pass, the sleep and the next pass. Its bound is
`2(Cap-1)(Timeout+Pacing) + Refresh + Timeout` for every setting.
`RefreshesAreTimeBoxed` follows the time one refresh has left (`Remaining`)
through the end of a one-shot (`OverRemaining`), the continuation after a pause
(`BeginsRemaining`) and the clock, which cannot pass a timer that is due
(`TickRemaining`); keys that do not parse are skipped and only shorten it. `Min`,
`Max` and sorting are shown to be what they are called (`MinOfNaturals`,
`MaxIsUpper`, `SortingIsSorted`, in `ListLemmas`).

### Lists and folds

The library's induction theorems take an operator as a parameter, which the
provers here cannot instantiate. `ListLemmas` states induction as a fact about sets
of numbers instead (`LeastNatural`, `Induction`, from the well-foundedness of `<`)
and derives with it what the recursive functions inside `FoldLeft`, `FlattenSeq`
and the sorting of a finite set compute. It knows nothing of the gateway.

### What is only model-checked

* All liveness (`CallsReturn`, `Recovers`, `Answered`, `IterationEnds`,
  `FeedGoesOn`, `StuckIsHealed`, `ExpiredGo`, `RefreshesEnd`): the prover does
  not treat fairness. Of four of these a safety half is proved: `HoldIsBounded` for
  the lock that `CallsReturn` waits for, `StrayStreamsWereTaken` for `FeedGoesOn`,
  `RefreshIsTimeBoxed` for `RefreshesEnd`, `ListedAreAlive` for `ExpiredGo`.
* The five properties that are violated, by their nature.

## 5. Not modelled, and the plan

Not modelled:

* log texts, message times, JSON and key formats, the contents of health hashes,
  the translation of TWS objects to rows, bars and option expirations: I/O and
  conversions without state;
* settings, parsed once at the start;
* the mock gateway: it has no TWS, no session and no timeout; its listing and
  merge are the functions `OnDemand` models;
* a Redis connection that hangs: the client has no socket timeout (app.py:25) and
  is called from the event loop, so every task would stand still. In the models
  Redis answers or raises.

The modules meet in `SlotSession` (what `SlotConnection` provides and
`MarketLoop` uses, both proved) and in the state of the host's session, of Redis
and of the streams.

Done: all six models, and every invariant, safety action property and
refinement that a passing run checks is a theorem.

What could follow: the safety part of `StuckIsHealed` (from which states the
healing is lost: no snapshot, a dead health loop) as an invariant of what can
still happen, and the seconds behind the awaits of `HoldIsBounded`, for which the
slot's model would need a clock.
