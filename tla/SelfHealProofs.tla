---------------------------- MODULE SelfHealProofs ----------------------------
(***************************************************************************)
(* Theorems of SelfHeal, for any thresholds, cooldown, streak and probe    *)
(* limit, and any number of troubles: its type invariant, and that the     *)
(* ladder throws away no pod whose soft reconnect has worked.              *)
(***************************************************************************)
EXTENDS SelfHeal, TLAPS

(* The inductive invariant.                                                *)

\* While the ladder waits for its soft reconnect, a snapshot written since the
\* check is younger than the check: Escalate, which takes the age as of the
\* check, cannot find it stale.
RewrittenIsYoung ==
    pc \in {"healing", "waiting"} /\ rewritten /\ snapAge # NoSnapshot =>
        snapAge <= elapsed

IInv == TypeOK /\ RewrittenIsYoung

-----------------------------------------------------------------------------
(* Type correctness.                                                       *)

LEMMA InitType == Init => TypeOK
  <1> SUFFICES ASSUME Init PROVE TypeOK
    OBVIOUS
  <1> USE DEF Init
  <1>1. streak \in 0 .. MaxStreak /\ cooling \in 0 .. Cooldown
        /\ elapsed \in 0 .. MaxHeal /\ failed \in 0 .. ProbeLimit
    BY LadderAssumption
  <1>2. troubles \in 0 .. MaxTroubles
    BY TroubleAssumption
  <1>3. snapAge \in Ages \union {NoSnapshot}
    BY DEF Ages
  <1> QED
    BY <1>1, <1>2, <1>3 DEF TypeOK

\* Every action that is a trouble stays within their bound.
LEMMA TroubleType ==
  ASSUME TypeOK, Trouble
  PROVE  troubles' \in 0 .. MaxTroubles
  BY TroubleAssumption DEF TypeOK, Trouble

\* write_self_heal_status and the end of an iteration write what they may.
LEMMA WriteStatusType ==
  ASSUME TypeOK, WriteStatus
  PROVE  enabled' \in {"unset", "on", "off"}
  BY DEF TypeOK, WriteStatus

LEMMA EndIterationType ==
  ASSUME EndIteration
  PROVE  pc' \in {"idle", "dead"}
  BY DEF EndIteration

LEMMA NextType == TypeOK /\ [Next]_vars => TypeOK'
  <1> SUFFICES ASSUME TypeOK, [Next]_vars PROVE TypeOK'
    OBVIOUS
  <1> USE DEF ladderVars, worldVars
  <1>0. 0 \in 0 .. MaxStreak /\ 0 \in 0 .. Cooldown /\ Cooldown \in 0 .. Cooldown
        /\ 0 \in 0 .. MaxHeal /\ 0 \in 0 .. ProbeLimit
    BY LadderAssumption
  <1>1. CASE CheckBlocked
    BY <1>1, EndIterationType DEF CheckBlocked, TypeOK
  <1>2. CASE CheckFresh
    <2>1. enabled' \in {"unset", "on", "off"}
      BY <1>2, WriteStatusType DEF CheckFresh, TypeOK
    <2> QED
      BY <1>0, <1>2, <2>1, EndIterationType DEF CheckFresh, TypeOK
  <1>3. CASE CheckStale
    <2>1. streak' \in 0 .. MaxStreak
      BY <1>3, LadderAssumption DEF CheckStale, CountStale, TypeOK
    <2>2. enabled' \in {"unset", "on", "off"}
      BY <1>3, WriteStatusType DEF CheckStale
    <2> QED
      BY <1>0, <1>3, <2>1, <2>2 DEF CheckStale, TypeOK
  <1>4. CASE HealDone
    <2>1. \/ pc' = "waiting" /\ streak >= MaxStreak
          \/ pc' \in {"idle", "dead"}
      BY <1>4, EndIterationType DEF HealDone
    <2>2. pc' = "waiting" => streak' = MaxStreak
      <3>1. streak \in 0 .. MaxStreak /\ streak' = streak
        BY <1>4 DEF HealDone, TypeOK
      <3> QED
        BY <2>1, <3>1, LadderAssumption
    <2> QED
      BY <1>4, <2>1, <2>2 DEF HealDone, TypeOK
  <1>5. CASE Escalate
    BY <1>5, WriteStatusType DEF Escalate, TypeOK
  <1>6. CASE StandDown
    BY <1>6, EndIterationType DEF StandDown, TypeOK
  <1>7. CASE WriteFails
    BY <1>7 DEF WriteFails, TypeOK
  <1>8. CASE WriteSnapshot
    <2>1. snapAge' \in Ages
      BY <1>8, LadderAssumption DEF WriteSnapshot, Ages, MaxAge
    <2> QED
      BY <1>8, <2>1 DEF WriteSnapshot, TypeOK
  <1>9. CASE HostConnects
    BY <1>9 DEF HostConnects, TypeOK
  <1>10. CASE Terminate
    BY <1>10 DEF Terminate, TypeOK
  <1>11. CASE PodRestart
    BY <1>0, <1>11 DEF PodRestart, TypeOK
  <1>12. CASE Tick
    <2>1. snapAge' \in Ages \union {NoSnapshot}
      BY <1>12, LadderAssumption DEF Tick, TypeOK, Ages, MaxAge, NoSnapshot
    <2>2. failed' \in 0 .. ProbeLimit
      <3>1. failed < ProbeLimit /\ failed \in 0 .. ProbeLimit
        BY <1>12 DEF Tick, TypeOK
      <3>2. failed' = 0 \/ failed' = failed + 1
        BY <1>12 DEF Tick, Probe
      <3> QED
        BY <3>1, <3>2, LadderAssumption
    <2>3. elapsed' \in 0 .. MaxHeal /\ cooling' \in 0 .. Cooldown
      BY <1>12, LadderAssumption DEF Tick, TypeOK
    <2> QED
      BY <1>12, <2>1, <2>2, <2>3 DEF Tick, TypeOK
  <1>13. CASE HostDrops
    BY <1>13, TroubleType DEF HostDrops, TypeOK
  <1>14. CASE MarketSticks
    BY <1>14, TroubleType DEF MarketSticks, TypeOK
  <1>15. ASSUME NEW v \in {"on", "off"}, SetSwitch(v) PROVE TypeOK'
    BY <1>15, TroubleType DEF SetSwitch, TypeOK
  <1>16. CASE RedisForgets
    BY <1>16, TroubleType DEF RedisForgets, TypeOK
  <1>17. CASE RedisDown
    BY <1>17, TroubleType DEF RedisDown, TypeOK
  <1>18. CASE RedisBack
    BY <1>18 DEF RedisBack, TypeOK
  <1>19. CASE UNCHANGED vars
    BY <1>19 DEF vars, TypeOK
  <1> QED
    BY <1>1, <1>2, <1>3, <1>4, <1>5, <1>6, <1>7, <1>8, <1>9, <1>10, <1>11,
       <1>12, <1>13, <1>14, <1>15, <1>16, <1>17, <1>18, <1>19
    DEF Next, HealthLoop

-----------------------------------------------------------------------------
(* Preservation of the rest of the invariant.                              *)

LEMMA NextInv ==
  IInv /\ [Next]_vars => RewrittenIsYoung'
  <1> SUFFICES ASSUME IInv, [Next]_vars
               PROVE  RewrittenIsYoung'
    OBVIOUS
  <1> USE LadderAssumption
      DEF IInv, RewrittenIsYoung, ladderVars, worldVars
  \* Steps after which the loop is in no soft reconnect.
  <1>1. CASE pc' \notin {"healing", "waiting"}
    BY <1>1
  <1>2. CASE CheckBlocked \/ CheckFresh \/ Escalate \/ StandDown \/ WriteFails
             \/ Terminate \/ PodRestart
    BY <1>1, <1>2
    DEF CheckBlocked, CheckFresh, Escalate, StandDown, WriteFails, Terminate,
        PodRestart, EndIteration
  <1>3. CASE CheckStale
    BY <1>3 DEF CheckStale
  <1>4. CASE HealDone
    BY <1>4 DEF HealDone, EndIteration, TypeOK
  <1>5. CASE WriteSnapshot
    BY <1>5 DEF WriteSnapshot, TypeOK
  <1>6. CASE Tick
    <2>1. pc = "healing" => elapsed' = elapsed + 1 /\ snapAge' <= snapAge + 1
      BY <1>6 DEF Tick, TypeOK, Ages, MaxAge, NoSnapshot
    <2>2. snapAge' # NoSnapshot => snapAge # NoSnapshot
      BY <1>6, LadderAssumption DEF Tick, MaxAge, NoSnapshot
    <2>3. elapsed \in Int /\ snapAge \in Int /\ elapsed' \in Int /\ snapAge' \in Int
      BY <1>6 DEF Tick, TypeOK, Ages, MaxAge, NoSnapshot
    <2> QED
      BY <1>6, <2>1, <2>2, <2>3 DEF Tick
  <1>7. CASE UNCHANGED <<ladderVars, rewritten, snapAge>>
    BY <1>7
  <1>8. CASE HostConnects \/ HostDrops \/ MarketSticks \/ RedisDown \/ RedisBack
    BY <1>7, <1>8
    DEF HostConnects, HostDrops, MarketSticks, RedisDown, RedisBack
  <1>9. ASSUME NEW v \in {"on", "off"}, SetSwitch(v)
        PROVE  RewrittenIsYoung'
    BY <1>9 DEF SetSwitch
  <1>10. CASE RedisForgets
    BY <1>10 DEF RedisForgets
  <1>11. CASE UNCHANGED vars
    BY <1>7, <1>11 DEF vars
  <1> QED
    BY <1>2, <1>3, <1>4, <1>5, <1>6, <1>8, <1>9, <1>10, <1>11
    DEF Next, HealthLoop

-----------------------------------------------------------------------------
(* The theorems.                                                           *)

\* Every variable of the ladder and of what it shares keeps its type: the
\* streak, the cooldown and the kubelet's count within their limits.
THEOREM TypeCorrect == Spec => []TypeOK
  BY InitType, NextType, PTL DEF Spec

\* The checks, the soft reconnect and its verdict keep the invariant, with
\* whatever the market loop, Redis, the platform and the kubelet do meanwhile.
THEOREM Invariance == Spec => []IInv
  <1>1. Init => IInv
    BY InitType DEF Init, IInv, RewrittenIsYoung
  <1>2. IInv /\ [Next]_vars => IInv'
    BY NextType, NextInv DEF IInv
  <1> QED
    BY <1>1, <1>2, PTL DEF Spec

\* A step into "exited" that is not the kubelet's is Escalate.
LEMMA ExitIsEscalate ==
  ASSUME TypeOK, [Next]_vars, pc' = "exited", pc # "exited", failed < ProbeLimit
  PROVE  Escalate
  <1> USE LadderAssumption DEF ladderVars
  <1>1. ~(CheckBlocked \/ CheckFresh \/ CheckStale \/ HealDone \/ StandDown
          \/ WriteFails)
    BY
    DEF CheckBlocked, CheckFresh, CheckStale, HealDone, StandDown, WriteFails,
           EndIteration
  <1>2. ~Terminate
    BY DEF Terminate, TypeOK
  <1>3. ~(PodRestart \/ Tick \/ WriteSnapshot \/ HostConnects \/ HostDrops
          \/ MarketSticks)
    BY
    DEF PodRestart, Tick, WriteSnapshot, HostConnects, HostDrops, MarketSticks
  <1>4. ~(RedisForgets \/ RedisDown \/ RedisBack)
    BY DEF RedisForgets, RedisDown, RedisBack
  <1>5. \A v \in {"on", "off"} : ~SetSwitch(v)
    BY DEF SetSwitch
  <1> QED
    BY <1>1, <1>2, <1>3, <1>4, <1>5 DEF Next, HealthLoop, vars

\* os._exit(1) only while the snapshot the market loop should have written is
\* missing: the ladder never throws away a pod whose soft reconnect brought a
\* new snapshot that can be read, however long its dials and sleeps took.
THEOREM ExitOnlyUnhealed == Spec => ExitMeansUnhealed
  <1>1. ASSUME IInv, [Next]_vars, pc' = "exited", pc # "exited",
               failed < ProbeLimit
        PROVE  ~rewritten \/ snapAge = NoSnapshot \/ ~redisUp
    <2>1. Escalate
      BY <1>1, ExitIsEscalate DEF IInv
    <2>2. CASE snapAge # NoSnapshot /\ snapAge - elapsed > Stale
      <3>1. elapsed \in Int /\ snapAge \in Int /\ Stale \in Nat
        BY <1>1, LadderAssumption DEF IInv, TypeOK, Ages, MaxAge, NoSnapshot
      <3> QED
        BY <1>1, <2>1, <2>2, <3>1 DEF Escalate, IInv, RewrittenIsYoung
    <2> QED
      BY <2>1, <2>2 DEF Escalate, StillStale
  <1>2. IInv /\ [Next]_vars =>
          [pc' = "exited" /\ pc # "exited" /\ failed < ProbeLimit =>
             ~rewritten \/ snapAge = NoSnapshot \/ ~redisUp]_vars
    BY <1>1
  <1> QED
    BY <1>2, Invariance, PTL DEF Spec, ExitMeansUnhealed

\* "snapshot_stale_max_before_rollout": the ladder gives the pod up only after
\* that many stale checks without a fresh one, each with its soft reconnect.
THEOREM ExitOnlyAfterStreak ==
  Spec => [][pc' = "exited" /\ pc # "exited" /\ failed < ProbeLimit =>
               streak = MaxStreak]_vars
  <1>1. IInv /\ [Next]_vars =>
          [pc' = "exited" /\ pc # "exited" /\ failed < ProbeLimit =>
             streak = MaxStreak]_vars
    BY ExitIsEscalate DEF IInv, TypeOK, Escalate
  <1> QED
    BY <1>1, Invariance, PTL DEF Spec
=============================================================================
