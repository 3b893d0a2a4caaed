------------------------------- MODULE OptCache -------------------------------
(***************************************************************************)
(* Option quotes.  The opt-cache loop and the operator's commands ask TWS  *)
(* for one contract after another over the host's session and share the    *)
(* cache in Redis, the heartbeat of the loop and the session itself, which *)
(* may break at any moment.  A one-shot waits for TWS to qualify the       *)
(* contract, opens a stream, polls it and closes it.  Time goes in ticks,  *)
(* against which the 2 s of polling are short; a timer that has run out is *)
(* served before the next tick.                                            *)
(***************************************************************************)
EXTENDS Integers, SequencesExt, FiniteSetsExt

CONSTANTS
    Keys,       \* the option contracts, in alphabetical order
    Bad,        \* those whose key does not parse
    Tracked,    \* the one whose cache entry is followed
    Cap,        \* opt_cache_max_contracts
    Timeout,    \* opt_cache_one_shot_timeout_sec
    Pacing,     \* opt_cache_pacing_sec (and the snapshot's pacing_sec)
    Refresh,    \* opt_cache_refresh_sec
    Retry,      \* the loop's sleep while there is no host
    StaleWarn   \* opt_cache_stale_warn_sec

ASSUME KeysAssumption ==
    /\ Keys \subseteq Nat /\ IsFiniteSet(Keys)
    /\ Bad \subseteq Keys
    /\ Tracked \in Keys \ Bad
ASSUME CapAssumption == Cap \in Nat \ {0}
ASSUME TimesAssumption == Timeout \in Nat \ {0} /\ {Pacing, Refresh, Retry, StaleWarn} \subseteq Nat
\* As in the defaults: 0.5 s + max(10 s, 30 s) against 120 s.
ASSUME StaleWarnAssumption == StaleWarn >= Pacing + Max({Timeout, Refresh, Retry})

VARIABLES
    host,       \* the host slot: "none", "up" or "lost" (its socket is gone, unnoticed)
    pc,         \* per actor: "idle", "asleep", "asking", "polling" or "pacing"
    live,       \* the actors whose one-shots hold the session that is up
    todo,       \* per actor: the contracts left, the current one first
    left,       \* per actor: ticks until its timer goes off
    streams,    \* TWS: the actors for which a market-data stream is open
    beat,       \* ticks since _opt_cache_progress_at, StaleWarn + 1 at most
    age         \* ticks since the loop last cached Tracked; NoAge once it fails to

vars == <<host, pc, live, todo, left, streams, beat, age>>

\* The loop, and the operator in the three commands that need quotes; it
\* handles one command at a time.
Commands == {"refresh", "snapshot", "price"}
Actors == {"loop"} \union Commands
Refreshers == {"loop", "refresh"}

\* The oldest an entry may get: the loop cached it first in one pass and last
\* in the next, and every other contract of both ran into its timeout.
Others == (Cap - 1) * (Timeout + Pacing)
MaxAge == Others + Refresh + Others + Timeout
NoAge == -1

TypeOK ==
    /\ host \in {"none", "up", "lost"}
    /\ pc \in [Actors -> {"idle", "asleep", "asking", "polling", "pacing"}]
    /\ Cardinality({a \in Commands : pc[a] # "idle"}) <= 1
    /\ live \subseteq Actors
    /\ live # {} => host = "up"
    /\ todo \in [Actors -> BoundedSeq(Keys, Max({Cap, 2}))]
    /\ left \in [Actors -> 0 .. Max({Timeout, Pacing, Refresh, Retry})]
    /\ streams \subseteq Actors
    /\ beat \in 0 .. StaleWarn + 1
    /\ age \in NoAge .. MaxAge + 1

Init ==
    /\ host = "none"
    /\ pc = [a \in Actors |-> IF a = "loop" THEN "asleep" ELSE "idle"]
    /\ live = {}
    /\ todo = [a \in Actors |-> <<>>]
    /\ left = [a \in Actors |-> 0]
    /\ streams = {}
    /\ beat = 0
    /\ age = NoAge

-----------------------------------------------------------------------------
(* Lists of contracts.                                                     *)

\* Mutants of TimeBoxed: nothing, as before 0.2.4; the loop alone.
NothingTimeBoxed == {}
LoopTimeBoxed == {"loop"}

\* Whose one-shots are wrapped in wait_for: qualify may never answer.
TimeBoxed == Refreshers

Ask(a, contracts) ==
    /\ pc' = [pc EXCEPT ![a] = "asking"]
    /\ todo' = [todo EXCEPT ![a] = contracts]
    /\ left' = [left EXCEPT ![a] = IF a \in TimeBoxed THEN Timeout ELSE 0]

\* The slot's session is read; to ask a lost one, or None, fails.
Take(a) == live' = IF host = "up" THEN live \union {a} ELSE live

\* A list is done: the loop sleeps, the command is answered.
Rest(a, ticks) ==
    /\ pc' = [pc EXCEPT ![a] = IF a = "loop" THEN "asleep" ELSE "idle"]
    /\ todo' = [todo EXCEPT ![a] = <<>>]
    /\ left' = [left EXCEPT ![a] = IF a = "loop" THEN ticks ELSE 0]
    /\ live' = live \ {a}

Pace(a, contracts) ==
    /\ pc' = [pc EXCEPT ![a] = "pacing"]
    /\ todo' = [todo EXCEPT ![a] = contracts]
    /\ left' = [left EXCEPT ![a] = Pacing]
    /\ live' = IF a \in Refreshers THEN live \ {a} ELSE live

\* _refresh_opt_cache_once goes on with the next key that parses and reads
\* host.ib for it; the others are skipped, with no heartbeat and no pacing.
RefreshRest(a, contracts) ==
    LET first == SelectInSeq(contracts, LAMBDA k : k \notin Bad)
    IN  IF first = 0 THEN Rest(a, Refresh)
        ELSE Ask(a, SubSeq(contracts, first, Len(contracts))) /\ Take(a)

\* list_fresh_on_demand_opt's result is sorted.
Sorted(fresh) == CHOOSE s \in SetToSeqs(fresh) : IsSorted(s, <)

\* Mutant of Listing: everything that is fresh.
ListingUncapped(fresh) == Sorted(fresh)

Listing(fresh) == SubSeq(Sorted(fresh), 1, Min({Cap, Cardinality(fresh)}))

-----------------------------------------------------------------------------
(* The loop and the commands begin.                                        *)

\* An iteration of _opt_cache_loop; any keys may be on demand and fresh, none
\* if Redis cannot be read.
Cycle ==
    /\ pc["loop"] = "asleep" /\ left["loop"] = 0
    /\ beat' = 0
    /\ \/ /\ host = "none"
          /\ Rest("loop", Retry)
          /\ age' = NoAge
       \/ /\ host # "none"
          /\ \E fresh \in SUBSET Keys :
               /\ RefreshRest("loop", Listing(fresh))
               /\ age' = IF Contains(Listing(fresh), Tracked) THEN age ELSE NoAge
    /\ UNCHANGED <<host, streams>>

OperatorFree == host # "none" /\ \A a \in Commands : pc[a] = "idle"

RefreshCommand ==
    /\ OperatorFree
    /\ \E fresh \in SUBSET Keys : RefreshRest("refresh", Listing(fresh))
    /\ UNCHANGED <<host, streams, beat, age>>

\* fetch_option_snapshot of one strike: a call and a put, all over the
\* session of its beginning.
SnapshotCommand ==
    /\ OperatorFree
    /\ Ask("snapshot", <<Tracked, Tracked>>)
    /\ Take("snapshot")
    /\ UNCHANGED <<host, streams, beat, age>>

\* fetch_option_snapshot without strikes: the underlying's price, no quotes.
PriceCommand ==
    /\ OperatorFree
    /\ Ask("price", <<Tracked>>)
    /\ Take("price")
    /\ UNCHANGED <<host, streams, beat, age>>

-----------------------------------------------------------------------------
(* One-shots.                                                              *)

\* Mutant of Qualified: the polling has a timeout of its own.
QualifiedAnew(a) ==
    /\ pc[a] = "asking"
    /\ a \in live
    /\ pc' = [pc EXCEPT ![a] = "polling"]
    /\ left' = [left EXCEPT ![a] = IF a \in TimeBoxed THEN Timeout ELSE 0]
    /\ streams' = streams \union {a}
    /\ UNCHANGED <<host, live, todo, beat, age>>

\* TWS has qualified the contract; the stream is opened.
Qualified(a) ==
    /\ pc[a] = "asking"
    /\ a \in live
    /\ pc' = [pc EXCEPT ![a] = "polling"]
    /\ streams' = streams \union {a}
    /\ UNCHANGED <<host, live, todo, left, beat, age>>

\* Mutant of Close: the Ticker is passed, of which TWS knows no stream.
CloseTicker(a) == UNCHANGED streams

\* cancelMktData.
Close(a) == streams' = streams \ {a}

\* Mutant of Heartbeat: only a quote that was cached is progress.
HeartbeatIfCached(a, cached) == beat' = IF a \in Refreshers /\ cached THEN 0 ELSE beat

Heartbeat(a, cached) == beat' = IF a \in Refreshers THEN 0 ELSE beat

\* What becomes of Tracked: the loop must cache it whenever it is on the
\* list, a refresh command may.
Account(a, cached) ==
    age' = IF a \notin Refreshers \/ Head(todo[a]) # Tracked THEN age
           ELSE IF cached /\ (a = "loop" \/ age # NoAge) THEN 0
           ELSE IF a = "loop" THEN NoAge ELSE age

\* A one-shot is over: the finally block, the heartbeat, the cache, and the
\* pause before the next.
Conclude(a, cached) ==
    /\ Close(a)
    /\ Heartbeat(a, cached)
    /\ Account(a, cached)
    /\ LET rest == Tail(todo[a])
       IN  CASE a = "price" -> Rest(a, 0)
             [] a = "snapshot" -> Pace(a, rest)
             [] a \in Refreshers ->
                  IF Pacing > 0 /\ rest # <<>> THEN Pace(a, rest) ELSE RefreshRest(a, rest)
    /\ UNCHANGED host

\* Some value came, or none in 2 s; write_opt_cache may fail.
Polled(a) ==
    /\ pc[a] = "polling"
    /\ \E cached \in BOOLEAN : Conclude(a, cached)

\* TWS refuses, or the session is lost.
Fails(a) ==
    /\ pc[a] = "asking"
    /\ Conclude(a, FALSE)

\* wait_for cancels the one-shot.
TimesOut(a) ==
    /\ a \in TimeBoxed
    /\ pc[a] \in {"asking", "polling"}
    /\ left[a] = 0
    /\ Conclude(a, FALSE)

Paced(a) ==
    /\ pc[a] = "pacing"
    /\ left[a] = 0
    /\ IF a \in Refreshers THEN RefreshRest(a, todo[a])
       ELSE IF todo[a] = <<>> THEN Rest(a, 0)
       ELSE Ask(a, todo[a]) /\ UNCHANGED live
    /\ UNCHANGED <<host, streams, beat, age>>

Step(a) == Qualified(a) \/ Polled(a) \/ Fails(a) \/ TimesOut(a) \/ Paced(a) \/ (a = "loop" /\ Cycle)

-----------------------------------------------------------------------------
(* The host's session, and time.                                           *)

HostConnects ==
    /\ host = "none"
    /\ host' = "up"
    /\ UNCHANGED <<pc, live, todo, left, streams, beat, age>>

\* TWS hangs up, which the slot may see later, or the slot does.
HostDrops ==
    /\ host = "up"
    /\ host' \in {"lost", "none"}
    /\ live' = {}
    /\ streams' = {}
    /\ UNCHANGED <<pc, todo, left, beat, age>>

HostNoticed ==
    /\ host = "lost"
    /\ host' = "none"
    /\ UNCHANGED <<pc, live, todo, left, streams, beat, age>>

\* What does not wait for the next tick.
Urgent(a) ==
    \/ pc[a] = "polling"
    \/ pc[a] = "asking" /\ (a \in live => a \in TimeBoxed /\ left[a] = 0)
    \/ pc[a] \in {"asleep", "pacing"} /\ left[a] = 0

Tick ==
    /\ \A a \in Actors : ~Urgent(a)
    /\ left' = [a \in Actors |-> Max({0, left[a] - 1})]
    /\ beat' = Min({beat + 1, StaleWarn + 1})
    /\ age' = IF age = NoAge THEN age ELSE Min({age + 1, MaxAge + 1})
    /\ UNCHANGED <<host, pc, live, todo, streams>>

Next ==
    \/ \E a \in Actors : Step(a)
    \/ RefreshCommand
    \/ SnapshotCommand
    \/ PriceCommand
    \/ HostConnects
    \/ HostDrops
    \/ HostNoticed
    \/ Tick

Spec == Init /\ [][Next]_vars

\* The event loop runs what is due, and time goes on, however many commands
\* and connections fit between two ticks.  Nothing says that TWS answers.
Fairness ==
    /\ \A a \in Actors : WF_vars(Urgent(a) /\ Step(a))
    /\ SF_vars(Tick)

FairSpec == Spec /\ Fairness

-----------------------------------------------------------------------------
(* Properties.                                                             *)

\* "Cancelling the one-shot runs its finally, which cancels the stream it
\* opened": TWS's limited streams are never held by a one-shot that is over,
\* be it by a value, a timeout, an error or the session's end.
NoStrayStream == \A a \in streams : pc[a] = "polling" /\ a \in live

\* "a stale heartbeat means the task is stuck on an await or has died": while
\* the loop runs, no health check finds the heartbeat stale - whether or not
\* TWS answers, the host is up or the keys parse.
Alarm == beat > StaleWarn
HeartbeatIsHonest == ~Alarm

\* One contract that hangs does not spoil the others: a contract that stays
\* on the list and that TWS always quotes is cached again before its entry is
\* older than MaxAge, though all others hang and the operator refreshes too.
CacheKeepsUp == age <= MaxAge

Refreshing(a) == pc[a] \in {"asking", "polling", "pacing"}

\* A refresh, by the loop or on command, comes to an end even if TWS never
\* answers anything: it does not block the operator for good.
RefreshesEnd == \A a \in Refreshers : Refreshing(a) ~> ~Refreshing(a)

\* What a refresh by a may still take: each contract left its timeout, with a
\* pause before each but the current one.
Remaining(a) ==
    IF Refreshing(a)
    THEN left[a] + (Len(todo[a]) - 1) * (Timeout + Pacing)
           + (IF pc[a] = "pacing" THEN Timeout ELSE 0)
    ELSE 0

\* How long at most: the timeouts and pauses of a full list.  Whatever happens
\* to the session, to the other actors and to the list, a refresh under way is
\* never given more time, and every tick of the clock uses some of it up.
RefreshIsTimeBoxed ==
    [][\A a \in Refreshers :
         /\ Remaining(a)' <= Others + Timeout
         /\ Refreshing(a) => Remaining(a)' <= Remaining(a) - (IF Tick THEN 1 ELSE 0)]_vars
=============================================================================
