------------------------------- MODULE SelfHeal -------------------------------
(***************************************************************************)
(* live.py's self-heal ladder (_maybe_self_heal_snapshot_stale) in the     *)
(* health loop that drives it, with the keys it shares with Redis and the  *)
(* platform: the account snapshot that the market loop writes and the      *)
(* "enabled" field of the self_heal hash.  Beside the ladder works the     *)
(* kubelet, whose liveness probe pings Redis, not the gateway.  Time goes  *)
(* in ticks of the 30 s between two checks, and between two probes; ages   *)
(* and cooldowns are counted in ticks.                                     *)
(***************************************************************************)
EXTENDS Integers

CONSTANTS
    Stale,          \* snapshot_stale_reconnect_sec
    Cooldown,       \* soft_reconnect_cooldown_sec
    MaxStreak,      \* snapshot_stale_max_before_rollout
    Forgets,        \* TRUE: Redis starts empty and may lose everything
    Outages,        \* TRUE: Redis may be out of reach for a while
    ProbeLimit,     \* the probe's failureThreshold (3, the default of Kubernetes)
    MaxHeal,        \* bound on the ticks a soft reconnect takes (its dials time out)
    MaxTroubles     \* bound on what goes wrong and on switch changes

ASSUME LadderAssumption ==
    /\ Stale \in Nat
    /\ Cooldown \in Nat
    /\ MaxStreak \in Nat \ {0}
    /\ MaxHeal \in Nat
    /\ ProbeLimit \in Nat \ {0}
ASSUME TroubleAssumption ==
    Forgets \in BOOLEAN /\ Outages \in BOOLEAN /\ MaxTroubles \in Nat

VARIABLES
    pc,         \* the health loop: "idle", "healing", "waiting", "dead", "exited"
    due,        \* a check is due
    streak,     \* self._self_heal_stale_streak
    cooling,    \* ticks left until _self_heal_cooldown_until
    elapsed,    \* ticks since the check that began the last soft reconnect
    rewritten,  \* has the snapshot been written since that check? (history)
    hostUp,     \* is the host slot CONNECTED?
    market,     \* the market loop: "ok" or "stuck" (hung in an await, or dead)
    snapAge,    \* Redis: age of the snapshot, MaxAge at most, or NoSnapshot
    enabled,    \* Redis: the kill switch, "unset", "on" or "off"
    redisUp,    \* does Redis answer?
    failed,     \* the probes that have failed in a row, at most ProbeLimit
    troubles    \* troubles so far, at most MaxTroubles

ladderVars == <<pc, due, streak, cooling, elapsed>>
worldVars == <<hostUp, market, redisUp, failed, troubles>>
vars == <<ladderVars, rewritten, snapAge, enabled, worldVars>>

NoSnapshot == -1
MaxAge == Stale + 1 + MaxHeal
Ages == 0 .. MaxAge

TypeOK ==
    /\ pc \in {"idle", "healing", "waiting", "dead", "exited"}
    /\ due \in BOOLEAN
    /\ streak \in 0 .. MaxStreak
    /\ pc = "waiting" => streak = MaxStreak
    /\ cooling \in 0 .. Cooldown
    /\ elapsed \in 0 .. MaxHeal
    /\ rewritten \in BOOLEAN
    /\ hostUp \in BOOLEAN
    /\ market \in {"ok", "stuck"}
    /\ snapAge \in Ages \union {NoSnapshot}
    /\ enabled \in {"unset", "on", "off"}
    /\ redisUp \in BOOLEAN
    /\ failed \in 0 .. ProbeLimit
    /\ troubles \in 0 .. MaxTroubles

Init ==
    /\ pc = "idle"
    /\ due = FALSE
    /\ streak = 0
    /\ cooling = 0
    /\ elapsed = 0
    /\ rewritten = FALSE
    /\ hostUp = FALSE
    /\ market = "ok"
    /\ snapAge \in IF Forgets THEN {NoSnapshot} ELSE Ages
    /\ enabled = "unset"
    /\ redisUp = TRUE
    /\ failed = 0
    /\ troubles = 0

-----------------------------------------------------------------------------
(* The health loop.                                                        *)

\* read_self_heal_enabled: unset and unreadable both mean on.
RuntimeEnabled == redisUp => enabled # "off"

\* write_self_heal_status publishes self_heal_enabled=True into the very
\* field that is the switch.
WriteStatus == enabled' = IF redisUp THEN "on" ELSE enabled

\* The rest of an iteration: write_plugin_health raises without Redis, in no
\* try, and the task is over.
EndIteration == pc' = IF redisUp THEN "idle" ELSE "dead"

\* What stops a check before it looks at the age.
Blocked ==
    \/ ~RuntimeEnabled
    \/ ~hostUp
    \/ cooling > 0
    \/ ~redisUp
    \/ snapAge = NoSnapshot

CheckBlocked ==
    /\ pc = "idle" /\ due
    /\ Blocked
    /\ due' = FALSE
    /\ EndIteration
    /\ UNCHANGED <<streak, cooling, elapsed, rewritten, snapAge, enabled, worldVars>>

CheckFresh ==
    /\ pc = "idle" /\ due
    /\ ~Blocked
    /\ snapAge <= Stale
    /\ due' = FALSE
    /\ streak' = 0
    /\ IF streak > 0 THEN WriteStatus ELSE UNCHANGED enabled
    /\ EndIteration
    /\ UNCHANGED <<cooling, elapsed, rewritten, snapAge, worldVars>>

\* Mutant of CountStale: it is not counted.
CountNothing == UNCHANGED streak

\* One more stale check.  (The code's count has no bound; it is only compared
\* with MaxStreak by >=, so counting stops there to no other effect.)
CountStale == streak' = IF streak < MaxStreak THEN streak + 1 ELSE streak

\* L0: the soft reconnect hangs up every slot.
CheckStale ==
    /\ pc = "idle" /\ due
    /\ ~Blocked
    /\ snapAge > Stale
    /\ due' = FALSE
    /\ CountStale
    /\ cooling' = Cooldown
    /\ elapsed' = 0
    /\ rewritten' = FALSE
    /\ WriteStatus
    /\ hostUp' = FALSE
    /\ pc' = "healing"
    /\ UNCHANGED <<snapAge, market, redisUp, failed, troubles>>

\* Mutant of HealDone: one stale check too few leads to the verdict.
HealDoneEarly ==
    /\ pc = "healing"
    /\ hostUp' \in {hostUp, TRUE}
    /\ market' \in {market, "ok"}
    /\ IF streak >= MaxStreak - 1 THEN pc' = "waiting" ELSE EndIteration
    /\ UNCHANGED <<due, streak, cooling, elapsed, rewritten, snapAge, enabled, redisUp, failed, troubles>>

\* disconnect_all and reconnect_all are over; a stuck loop may have been
\* shaken free by its sessions' end.
HealDone ==
    /\ pc = "healing"
    /\ hostUp' \in {hostUp, TRUE}
    /\ market' \in {market, "ok"}
    /\ IF streak >= MaxStreak THEN pc' = "waiting" ELSE EndIteration
    /\ UNCHANGED <<due, streak, cooling, elapsed, rewritten, snapAge, enabled, redisUp, failed, troubles>>

\* Mutant of StillStale: the age is taken from the clock of today.
StaleByNow == ~redisUp \/ snapAge = NoSnapshot \/ snapAge > Stale

\* After 20 s more: the age of the snapshot at the time of the check (an
\* unreadable one is too old), however long the reconnect has taken.
StillStale == ~redisUp \/ snapAge = NoSnapshot \/ snapAge - elapsed > Stale

\* L0.5: os._exit(1), whatever the switch says by now.
Escalate ==
    /\ pc = "waiting"
    /\ StillStale
    /\ WriteStatus
    /\ pc' = "exited"
    /\ UNCHANGED <<due, streak, cooling, elapsed, rewritten, snapAge, worldVars>>

StandDown ==
    /\ pc = "waiting"
    /\ ~StillStale
    /\ EndIteration
    /\ UNCHANGED <<due, streak, cooling, elapsed, rewritten, snapAge, enabled, worldVars>>

\* An iteration between two checks meets an outage.
WriteFails ==
    /\ pc = "idle"
    /\ ~redisUp
    /\ pc' = "dead"
    /\ UNCHANGED <<due, streak, cooling, elapsed, rewritten, snapAge, enabled, worldVars>>

-----------------------------------------------------------------------------
(* The rest of the gateway, Kubernetes, and time.                          *)

\* The market loop's write_account_snapshot.
WriteSnapshot ==
    /\ pc # "exited"
    /\ market = "ok" /\ hostUp /\ redisUp
    /\ snapAge' = 0
    /\ rewritten' = TRUE
    /\ UNCHANGED <<ladderVars, enabled, worldVars>>

\* reconnect_loop succeeds.
HostConnects ==
    /\ pc # "exited"
    /\ ~hostUp
    /\ hostUp' = TRUE
    /\ UNCHANGED <<ladderVars, rewritten, snapAge, enabled, market, redisUp, failed, troubles>>

\* One probe too many has failed: SIGTERM, which app.py obeys.
Terminate ==
    /\ pc # "exited"
    /\ failed = ProbeLimit
    /\ pc' = "exited"
    /\ UNCHANGED <<due, streak, cooling, elapsed, rewritten, snapAge, enabled, worldVars>>

\* The kubelet starts the container again.
PodRestart ==
    /\ pc = "exited"
    /\ pc' = "idle"
    /\ due' = FALSE
    /\ streak' = 0
    /\ cooling' = 0
    /\ elapsed' = 0
    /\ rewritten' = FALSE
    /\ hostUp' = FALSE
    /\ market' = "ok"
    /\ failed' = 0
    /\ UNCHANGED <<snapAge, enabled, redisUp, troubles>>

\* Mutant of Probe: there is none.
ProbeLeftOut == UNCHANGED failed

\* The kubelet's probe.
Probe == failed' = IF redisUp THEN 0 ELSE failed + 1

\* 30 s go by: no check is left over, a working market loop has written, the
\* 20 s sleep is not that long, the kubelet has acted.
Tick ==
    /\ pc \notin {"waiting", "exited"}
    /\ ~(pc = "idle" /\ due)
    /\ market = "ok" /\ hostUp /\ redisUp => snapAge = 0
    /\ pc = "healing" => elapsed < MaxHeal
    /\ failed < ProbeLimit
    /\ Probe
    /\ due' = TRUE
    /\ elapsed' = IF pc = "healing" THEN elapsed + 1 ELSE elapsed
    /\ cooling' = IF cooling > 0 THEN cooling - 1 ELSE 0
    /\ snapAge' = IF snapAge \in 0 .. MaxAge - 1 THEN snapAge + 1 ELSE snapAge
    /\ UNCHANGED <<pc, streak, rewritten, enabled, hostUp, market, redisUp, troubles>>

-----------------------------------------------------------------------------
(* Troubles.                                                               *)

Trouble == troubles < MaxTroubles /\ troubles' = troubles + 1

HostDrops ==
    /\ Trouble
    /\ hostUp
    /\ hostUp' = FALSE
    /\ UNCHANGED <<ladderVars, rewritten, snapAge, enabled, market, redisUp, failed>>

MarketSticks ==
    /\ Trouble
    /\ market = "ok"
    /\ market' = "stuck"
    /\ UNCHANGED <<ladderVars, rewritten, snapAge, enabled, hostUp, redisUp, failed>>

\* The platform sets the switch.
SetSwitch(v) ==
    /\ Trouble
    /\ redisUp
    /\ enabled # v
    /\ enabled' = v
    /\ UNCHANGED <<ladderVars, rewritten, snapAge, hostUp, market, redisUp, failed>>

\* Redis restarts without its data.
RedisForgets ==
    /\ Forgets
    /\ Trouble
    /\ snapAge' = NoSnapshot
    /\ enabled' = "unset"
    /\ UNCHANGED <<ladderVars, rewritten, hostUp, market, redisUp, failed>>

RedisDown ==
    /\ Outages
    /\ Trouble
    /\ redisUp
    /\ redisUp' = FALSE
    /\ UNCHANGED <<ladderVars, rewritten, snapAge, enabled, hostUp, market, failed>>

RedisBack ==
    /\ ~redisUp
    /\ redisUp' = TRUE
    /\ UNCHANGED <<ladderVars, rewritten, snapAge, enabled, hostUp, market, failed, troubles>>

-----------------------------------------------------------------------------
HealthLoop ==
    \/ CheckBlocked
    \/ CheckFresh
    \/ CheckStale
    \/ HealDone
    \/ Escalate
    \/ StandDown

Next ==
    \/ HealthLoop
    \/ WriteFails
    \/ WriteSnapshot
    \/ HostConnects
    \/ Terminate
    \/ PodRestart
    \/ Tick
    \/ HostDrops
    \/ MarketSticks
    \/ \E v \in {"on", "off"} : SetSwitch(v)
    \/ RedisForgets
    \/ RedisDown
    \/ RedisBack

Spec == Init /\ [][Next]_vars

\* Time goes on, the loops and the kubelet run, TWS takes the host back.  An
\* outage of Redis need not end.
Fairness ==
    /\ WF_vars(HealthLoop)
    /\ WF_vars(WriteSnapshot /\ snapAge # 0)
    /\ WF_vars(HostConnects)
    /\ WF_vars(Terminate)
    /\ WF_vars(PodRestart)
    /\ WF_vars(Tick)

FairSpec == Spec /\ Fairness

-----------------------------------------------------------------------------
(* Properties.                                                             *)

\* "snapshot still stale after soft reconnect": the ladder never throws the
\* pod away once the soft reconnect has brought a new snapshot (that can be
\* read), however long ago the check and the slow reconnect calls were.
ExitMeansUnhealed ==
    [][pc' = "exited" /\ pc # "exited" /\ failed < ProbeLimit =>
         ~rewritten \/ snapAge = NoSnapshot \/ ~redisUp]_vars

\* "soft reconnect cannot unblock a stuck market loop; exit for K8s restart":
\* a market loop that is stuck runs again in the end, unless the platform has
\* switched the ladder off.  Two things void the promise: Redis holds no
\* snapshot whose age could be told, or an outage of Redis ended the health
\* loop and was over before the kubelet gave up on it.
StuckIsHealed ==
    market = "stuck" ~>
        \/ market = "ok"
        \/ enabled = "off"
        \/ snapAge = NoSnapshot
        \/ pc = "dead" /\ redisUp

\* "Runtime kill switch - platform-api may SET enabled": only the platform
\* turns it on again.
KillSwitchSticks ==
    [][enabled = "off" /\ enabled' # "off" => troubles' > troubles]_vars
=============================================================================
