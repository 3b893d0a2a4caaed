---------------------------- MODULE OnDemandProofs ----------------------------
(***************************************************************************)
(* Theorems of OnDemand, for any keys, watchlists, caps and maximal age,   *)
(* and any number of registrations: its type invariant, that a listing     *)
(* loses no key that was fresh when it began, and which streams are wanted *)
(* for its result and the watchlist.                                       *)
(***************************************************************************)
EXTENDS OnDemand, ListLemmas, TLAPS

(* The inductive invariant.                                                *)

FreshKeys == {k \in Keys : beat[k] \in 0 .. MaxAge}

\* Between listings, and before anything is judged, nothing is to be pruned.
NothingToPrune == pc \in {"idle", "hgetall"} => stale = {}

\* Clients only add members and refresh heartbeats, and time stands still:
\* when HGETALL comes, the promised keys are still members and still fresh.
PromisedAreSeen ==
    pc = "hgetall" => promised \subseteq seen \intersect members \intersect FreshKeys

\* HGETALL is only sent when there is something to judge.
SomethingSeen == pc = "hgetall" => seen # {}

\* Once judged, the promised keys are in the result, and none is to be pruned.
PromisedAreSafe ==
    pc \in {"srem", "hdel"} =>
        \/ unread
        \/ /\ promised \subseteq fresh \intersect members
           /\ promised \intersect stale = {}

Safe == NothingToPrune /\ PromisedAreSeen /\ SomethingSeen /\ PromisedAreSafe

IInv == TypeOK /\ Safe

-----------------------------------------------------------------------------
(* Type correctness.  ReadSet keeps "stale" within "seen" because there is *)
(* nothing to prune.                                                       *)

LEMMA InitType == Init => TypeOK
  <1> SUFFICES ASSUME Init PROVE TypeOK
    OBVIOUS
  <1> USE DEF Init
  <1>1. beat \in [Keys -> NoBeat .. Expired]
    BY AgeAssumption DEF NoBeat, Expired
  <1>2. adds \in 0 .. MaxAdds
    BY AddsAssumption
  <1> QED
    BY <1>1, <1>2 DEF TypeOK

\* The ages a heartbeat may have.
LEMMA AgesOfBeats ==
  /\ 0 \in NoBeat .. Expired
  /\ NoBeat \in NoBeat .. Expired
  /\ \A a \in 0 .. MaxAge : a + 1 \in NoBeat .. Expired
  BY AgeAssumption DEF NoBeat, Expired

LEMMA RegisterType ==
  ASSUME TypeOK, NEW k \in Keys, Register(k)
  PROVE  members' \subseteq Keys /\ adds' \in 0 .. MaxAdds
  BY AddsAssumption DEF TypeOK, Register

LEMMA JudgeType ==
  ASSUME TypeOK, NEW freshNow \in SUBSET seen, Judge(freshNow)
  PROVE  /\ pc' \in {"idle", "srem"}
         /\ seen' \subseteq Keys
         /\ stale' \subseteq seen'
         /\ fresh' \subseteq Keys
  BY DEF TypeOK, Judge, Done

LEMMA NextType == IInv /\ [Next]_vars => TypeOK'
  <1> SUFFICES ASSUME IInv, [Next]_vars PROVE TypeOK'
    OBVIOUS
  <1> USE DEF IInv, redisVars, clientVars, listVars, settings
  <1>1. ASSUME NEW k \in Keys, Add(k) PROVE TypeOK'
    BY <1>1, RegisterType DEF Add, TypeOK
  <1>2. ASSUME NEW k \in Keys, Heartbeat(k) PROVE TypeOK'
    BY <1>2, AgesOfBeats DEF Heartbeat, TypeOK
  <1>3. ASSUME NEW k \in Keys, ClientGone(k) PROVE TypeOK'
    BY <1>3 DEF ClientGone, TypeOK
  <1>4. ASSUME NEW k \in Keys, RegisterOwn(k) PROVE TypeOK'
    BY <1>4, RegisterType, AgesOfBeats DEF RegisterOwn, TypeOK
  <1>5. CASE ReadSet
    BY <1>5 DEF ReadSet, TypeOK, Safe, NothingToPrune
  <1>6. CASE ReadSetFails
    BY <1>6 DEF ReadSetFails, TypeOK
  <1>7. CASE ReadHash
    BY <1>7, JudgeType DEF ReadHash, TypeOK
  <1>8. CASE ReadHashFails
    BY <1>8, JudgeType DEF ReadHashFails, TypeOK
  <1>9. CASE PruneSet
    BY <1>9 DEF PruneSet, TypeOK
  <1>10. CASE PruneHash
    BY <1>10, AgesOfBeats DEF PruneHash, Done, TypeOK
  <1>11. CASE PruneFails
    BY <1>11 DEF PruneFails, Done, TypeOK
  <1>12. CASE Tick
    BY <1>12, AgesOfBeats DEF Tick, TypeOK
  <1>13. CASE UNCHANGED vars
    BY <1>13 DEF vars, TypeOK
  <1> QED
    BY <1>1, <1>2, <1>3, <1>4, <1>5, <1>6, <1>7, <1>8, <1>9, <1>10, <1>11,
       <1>12, <1>13 DEF Next, Listing

-----------------------------------------------------------------------------
(* Preservation of the rest of the invariant.                              *)

\* A client's call within a listing: members and fresh keys only grow.
LEMMA ClientStep ==
  ASSUME IInv, UNCHANGED listVars, members \subseteq members',
         FreshKeys \subseteq FreshKeys'
  PROVE  Safe'
  BY DEF IInv, Safe, NothingToPrune, PromisedAreSeen, SomethingSeen,
         PromisedAreSafe, listVars

\* A new heartbeat makes its key fresh and leaves the others as they are.
LEMMA HeartbeatStep ==
  ASSUME TypeOK, NEW k \in Keys, beat' = [beat EXCEPT ![k] = 0]
  PROVE  FreshKeys \subseteq FreshKeys'
  BY AgeAssumption DEF TypeOK, FreshKeys

\* What ends a listing, or fails before it begins.
LEMMA IdleStep ==
  ASSUME pc' = "idle", stale' = {}
  PROVE  Safe'
  BY DEF Safe, NothingToPrune, PromisedAreSeen, SomethingSeen, PromisedAreSafe

\* Judging keeps what was promised, or the hash was unread.
LEMMA JudgeStep ==
  ASSUME IInv, NEW freshNow, Judge(freshNow), UNCHANGED <<members, promised>>,
         unread' \/ promised \subseteq freshNow \intersect members
  PROVE  Safe'
  <1>1. CASE seen = freshNow
    BY <1>1, IdleStep DEF Judge, Done
  <1>2. CASE seen # freshNow
    BY <1>2
    DEF Judge, Safe, NothingToPrune, PromisedAreSeen, SomethingSeen,
        PromisedAreSafe
  <1> QED
    BY <1>1, <1>2

\* Every promised key is among those that HGETALL finds fresh.
LEMMA PromisedAreFresh ==
  ASSUME IInv, ReadHash
  PROVE  promised \subseteq {k \in seen : IsFresh(k)} \intersect members
  BY DEF IInv, Safe, PromisedAreSeen, ReadHash, FreshKeys, IsFresh

LEMMA NextSafe == IInv /\ [Next]_vars => Safe'
  <1> SUFFICES ASSUME IInv, [Next]_vars PROVE Safe'
    OBVIOUS
  <1> USE DEF redisVars, clientVars, listVars, settings
  <1>1. ASSUME NEW k \in Keys, Add(k) PROVE Safe'
    BY <1>1, ClientStep DEF Add, Register, FreshKeys
  <1>2. ASSUME NEW k \in Keys, Heartbeat(k) PROVE Safe'
    BY <1>2, ClientStep, HeartbeatStep DEF Heartbeat, IInv
  <1>3. ASSUME NEW k \in Keys, ClientGone(k) PROVE Safe'
    BY <1>3, ClientStep DEF ClientGone, FreshKeys
  <1>4. ASSUME NEW k \in Keys, RegisterOwn(k) PROVE Safe'
    BY <1>4, ClientStep, HeartbeatStep DEF RegisterOwn, Register, IInv
  <1>5. CASE ReadSet
    <2>1. stale' = {}
      BY <1>5 DEF ReadSet, IInv, Safe, NothingToPrune
    <2>2. CASE pc' = "idle"
      BY <2>1, <2>2, IdleStep
    <2>3. CASE seen' = members /\ pc' = "hgetall"
      BY <1>5, <2>1, <2>3
      DEF ReadSet, IInv, TypeOK, Safe, NothingToPrune, PromisedAreSeen,
          SomethingSeen, PromisedAreSafe, FreshKeys
    <2> QED
      BY <1>5, <2>2, <2>3 DEF ReadSet
  <1>6. CASE ReadSetFails
    BY <1>6, IdleStep DEF ReadSetFails, IInv, Safe, NothingToPrune
  <1>7. CASE ReadHash
    BY <1>7, PromisedAreFresh, JudgeStep DEF ReadHash
  <1>8. CASE ReadHashFails
    BY <1>8, JudgeStep DEF ReadHashFails
  <1>9. CASE PruneSet
    BY <1>9
    DEF PruneSet, IInv, Safe, NothingToPrune, PromisedAreSeen, SomethingSeen,
        PromisedAreSafe
  <1>10. CASE PruneHash
    BY <1>10, IdleStep DEF PruneHash, Done
  <1>11. CASE PruneFails
    BY <1>11, IdleStep DEF PruneFails, Done
  <1>12. CASE Tick
    BY <1>12
    DEF Tick, IInv, Safe, NothingToPrune, PromisedAreSeen, SomethingSeen,
        PromisedAreSafe
  <1>13. CASE UNCHANGED vars
    BY <1>13, ClientStep DEF vars, FreshKeys
  <1> QED
    BY <1>1, <1>2, <1>3, <1>4, <1>5, <1>6, <1>7, <1>8, <1>9, <1>10, <1>11,
       <1>12, <1>13 DEF Next, Listing

-----------------------------------------------------------------------------
(* The theorems.                                                           *)

\* list_fresh_on_demand, its clients and the gateway's own registrations keep
\* the invariant, whichever Redis command fails.
THEOREM Invariance == Spec => []IInv
  <1>1. Init => IInv
    BY InitType
    DEF Init, IInv, Safe, NothingToPrune, PromisedAreSeen, SomethingSeen,
        PromisedAreSafe
  <1>2. IInv /\ [Next]_vars => IInv'
    BY NextType, NextSafe DEF IInv
  <1> QED
    BY <1>1, <1>2, PTL DEF Spec

\* Registry, heartbeats and listing keep their types: what is to be pruned
\* is part of what the listing has seen, and no heartbeat leaves its range.
THEOREM TypeCorrect == Spec => []TypeOK
  <1>1. IInv => TypeOK
    BY DEF IInv
  <1> QED
    BY <1>1, Invariance, PTL

\* A listing that could read the heartbeats returns every key that was a fresh
\* member when it began, and leaves it in the registry, whatever clients did
\* between its Redis commands and whichever of them failed.
THEOREM FreshSurvive == Spec => FreshAreKept
  <1> USE DEF redisVars, clientVars, listVars, settings
  <1>1. ASSUME IInv, Next, pc # "idle", pc' = "idle"
        PROVE  unread \/ promised \subseteq fresh' \intersect members'
    <2>1. CASE ReadHash
      BY <2>1, <1>1, PromisedAreFresh DEF ReadHash, Judge
    <2>2. CASE ReadHashFails
      BY <1>1, <2>2
      DEF ReadHashFails, Judge, IInv, Safe, SomethingSeen
    <2>3. CASE PruneHash \/ PruneFails
      BY <1>1, <2>3 DEF PruneHash, PruneFails, IInv, Safe, PromisedAreSafe
    <2>4. ~(ReadSet \/ ReadSetFails \/ PruneSet \/ Tick)
      BY <1>1 DEF ReadSet, ReadSetFails, PruneSet, Tick
    <2>5. \A k \in Keys : ~(Add(k) \/ Heartbeat(k) \/ ClientGone(k) \/ RegisterOwn(k))
      BY <1>1 DEF Add, Heartbeat, ClientGone, RegisterOwn
    <2> QED
      BY <1>1, <2>1, <2>2, <2>3, <2>4, <2>5 DEF Next, Listing
  <1>2. IInv /\ [Next]_vars =>
          [pc # "idle" /\ pc' = "idle" =>
             unread \/ promised \subseteq fresh' \intersect members']_vars
    BY <1>1
  <1> QED
    BY <1>2, Invariance, PTL DEF Spec, FreshAreKept

-----------------------------------------------------------------------------
(* What a listing returns.                                                 *)

\* Nobody but the listing itself removes members, and no key expires meanwhile:
\* what was judged fresh stays so, and the prune passes it by.
ListedSoFar ==
    /\ pc = "hgetall" => seen \subseteq members
    /\ pc \in {"srem", "hdel"} =>
         fresh \subseteq members \intersect FreshKeys /\ fresh \intersect stale = {}

\* Kept by clients, as members and fresh keys only grow.
LEMMA ClientListed ==
  ASSUME ListedSoFar, UNCHANGED listVars, members \subseteq members',
         FreshKeys \subseteq FreshKeys'
  PROVE  ListedSoFar'
  BY DEF ListedSoFar, listVars

\* Kept by what ends a listing, or fails before it begins.
LEMMA IdleListed ==
  ASSUME pc' = "idle"
  PROVE  ListedSoFar'
  BY DEF ListedSoFar

\* Kept by the verdict on what was read.
LEMMA JudgeListed ==
  ASSUME ListedSoFar, pc = "hgetall", NEW freshNow \in SUBSET (seen \intersect FreshKeys),
         Judge(freshNow), UNCHANGED <<members, beat>>
  PROVE  ListedSoFar'
  BY DEF Judge, Done, ListedSoFar, FreshKeys

LEMMA NextListed == IInv /\ ListedSoFar /\ [Next]_vars => ListedSoFar'
  <1> SUFFICES ASSUME IInv, ListedSoFar, [Next]_vars PROVE ListedSoFar'
    OBVIOUS
  <1> USE DEF redisVars, clientVars, listVars, settings
  <1>1. ASSUME NEW k \in Keys, Add(k) PROVE ListedSoFar'
    BY <1>1, ClientListed DEF Add, Register, FreshKeys
  <1>2. ASSUME NEW k \in Keys, Heartbeat(k) PROVE ListedSoFar'
    BY <1>2, ClientListed, HeartbeatStep DEF Heartbeat, IInv
  <1>3. ASSUME NEW k \in Keys, ClientGone(k) PROVE ListedSoFar'
    BY <1>3, ClientListed DEF ClientGone, FreshKeys
  <1>4. CASE (\E k \in Keys : RegisterOwn(k)) \/ ReadSetFails \/ Tick
    BY <1>4, IdleListed DEF RegisterOwn, ReadSetFails, Tick
  <1>5. CASE ReadSet
    BY <1>5 DEF ReadSet, ListedSoFar
  <1>6. CASE ReadHash
    BY <1>6, JudgeListed DEF ReadHash, IInv, TypeOK, FreshKeys, IsFresh
  <1>7. CASE ReadHashFails
    BY <1>7, JudgeListed DEF ReadHashFails
  <1>8. CASE PruneSet
    BY <1>8 DEF PruneSet, ListedSoFar, FreshKeys
  <1>9. CASE PruneHash \/ PruneFails
    BY <1>9, IdleListed DEF PruneHash, PruneFails, Done
  <1>10. CASE UNCHANGED vars
    BY <1>10, ClientListed DEF vars, FreshKeys
  <1> QED
    BY <1>1, <1>2, <1>3, <1>4, <1>5, <1>6, <1>7, <1>8, <1>9, <1>10
    DEF Next, Listing

\* What a listing returns is registered, and fresh, when it returns, whatever
\* clients and failures came between its Redis commands.
THEOREM ListedAlive == Spec => ListedAreAlive
  <1> USE DEF redisVars, clientVars, listVars, settings
  <1>1. Init => ListedSoFar
    BY DEF Init, ListedSoFar
  <1>2. ASSUME IInv, ListedSoFar, Next, pc # "idle", pc' = "idle", NEW k \in fresh'
        PROVE  k \in members' /\ beat'[k] \in 0 .. MaxAge
    <2>1. CASE ReadHash
      BY <1>2, <2>1 DEF ReadHash, Judge, ListedSoFar, IsFresh
    <2>2. CASE ReadHashFails
      BY <1>2, <2>2 DEF ReadHashFails, Judge
    <2>3. CASE PruneHash \/ PruneFails
      <3>1. k \in fresh /\ members' = members /\ pc \in {"srem", "hdel"}
        BY <1>2, <2>3 DEF PruneHash, PruneFails
      <3>2. k \in members \intersect FreshKeys /\ k \notin stale
        BY <1>2, <3>1 DEF ListedSoFar
      <3>3. beat'[k] = beat[k]
        BY <2>3, <3>2 DEF PruneHash, PruneFails, FreshKeys, IInv, TypeOK
      <3> QED
        BY <3>1, <3>2, <3>3 DEF FreshKeys
    <2>4. ~(ReadSet \/ ReadSetFails \/ PruneSet \/ Tick)
      BY <1>2 DEF ReadSet, ReadSetFails, PruneSet, Tick
    <2>5. \A x \in Keys : ~(Add(x) \/ Heartbeat(x) \/ ClientGone(x) \/ RegisterOwn(x))
      BY <1>2 DEF Add, Heartbeat, ClientGone, RegisterOwn
    <2> QED
      BY <1>2, <2>1, <2>2, <2>3, <2>4, <2>5 DEF Next, Listing
  <1>3. IInv /\ ListedSoFar /\ [Next]_vars =>
          [pc # "idle" /\ pc' = "idle" =>
             \A k \in fresh' : k \in members' /\ beat'[k] \in 0 .. MaxAge]_vars
    BY <1>2
  <1> QED
    BY <1>1, <1>3, NextListed, Invariance, PTL DEF Spec, ListedAreAlive

-----------------------------------------------------------------------------
(* What is desired: the two loops of build_desired_stk_symbols, one key    *)
(* after another.                                                          *)

\* The watchlist, without its duplicates.
LEMMA IncludeSteps ==
  ASSUME NEW w \in Seq(Nat)
  PROVE  \E h : /\ h[0] = <<>>
                /\ \A k \in 0 .. Len(w) - 1 : h[k + 1] = Include(h[k], w[k + 1])
                /\ h[Len(w)] = FoldLeft(Include, <<>>, w)
  <1> DEFINE n == Len(w)
             g == [p \in (1 .. n) \X Seq(Nat) |-> Include(p[2], w[p[1]])]
             Recurs(f) == f = [s \in SUBSET (1 .. n) |->
                                 IF s = {} THEN <<>>
                                 ELSE Include(f[s \ {Max(s)}], w[Max(s)])]
  <1>1. n \in Nat /\ DOMAIN w = 1 .. n /\ <<>> \in Seq(Nat)
    OBVIOUS
  <1>2. ASSUME NEW p \in (1 .. n) \X Seq(Nat) PROVE g[p] \in Seq(Nat)
    <2>1. p[2] \in Seq(Nat) /\ w[p[1]] \in Nat
      OBVIOUS
    <2> QED
      BY <2>1, AppendProperties DEF Include
  <1>3. g \in [(1 .. n) \X Seq(Nat) -> Seq(Nat)]
    BY <1>2
  <1>4. PICK f \in [SUBSET (1 .. n) -> Seq(Nat)] : Folds(f, n, <<>>, g)
    <2> HIDE DEF n, g
    <2> QED
      BY <1>1, <1>3, FoldExists
  <1>5. Recurs(f)
    <2>1. ASSUME NEW s \in SUBSET (1 .. n), s # {}
          PROVE  g[<<Max(s), f[s \ {Max(s)}]>>] = Include(f[s \ {Max(s)}], w[Max(s)])
      <3>1. Max(s) \in 1 .. n
        BY <1>1, <2>1, GreatestPosition
      <3>2. f[s \ {Max(s)}] \in Seq(Nat)
        BY <1>4
      <3> QED
        BY <3>1, <3>2
    <2> HIDE DEF g, n
    <2> QED
      BY <1>4, <2>1 DEF Folds
  <1>6. PICK r : Recurs(r) /\ FoldLeft(Include, <<>>, w) = r[1 .. n]
    <2> HIDE DEF g
    <2> QED
      BY <1>1, <1>5 DEF FoldLeft, MapThenFoldSet
  <1>7. \A k \in 0 .. n - 1 : r[1 .. k + 1] = Include(r[1 .. k], w[k + 1])
    <2>1. \A s \in SUBSET (1 .. n) : s # {} =>
            r[s] = Include(r[s \ {Max(s)}], w[Max(s)])
      BY <1>6
    <2> TAKE k \in 0 .. n - 1
    <2> HIDE DEF g, n, Recurs
    <2>2. /\ 1 .. k + 1 \in SUBSET (1 .. n) /\ 1 .. k + 1 # {}
          /\ Max(1 .. k + 1) = k + 1 /\ (1 .. k + 1) \ {k + 1} = 1 .. k
      BY <1>1, PositionsUpTo
    <2> DEFINE Q == 1 .. k + 1
               P == 1 .. k
    <2>3. Q \in SUBSET (1 .. n) /\ Q # {} /\ Max(Q) = k + 1 /\ Q \ {k + 1} = P
      BY <2>2
    <2> HIDE DEF P, Q
    <2>4. r[Q] = Include(r[P], w[k + 1])
      BY <2>1, <2>3
    <2> QED
      BY <2>4 DEF P, Q
  <1>8. r[1 .. 0] = <<>>
    BY <1>6
  <1> DEFINE h == [k \in 0 .. n |-> r[1 .. k]]
  <1>9. /\ h[0] = <<>> /\ h[n] = r[1 .. n]
        /\ \A k \in 0 .. n - 1 : h[k + 1] = Include(h[k], w[k + 1])
    BY <1>1, <1>7, <1>8
  <1> HIDE DEF h, Recurs
  <1> QED
    BY <1>6, <1>9

\* The keys on demand, offered in order.
Accs == [list : Seq(Nat), truncated : BOOLEAN, cap : Int]

LEMMA OfferType ==
  ASSUME NEW acc \in Accs, NEW k \in Nat
  PROVE  Offer(acc, k) \in Accs
  <1>1. /\ acc.list \in Seq(Nat)
        /\ acc = [list |-> acc.list, truncated |-> acc.truncated, cap |-> acc.cap]
        /\ acc.truncated \in BOOLEAN /\ acc.cap \in Int
    BY DEF Accs
  <1>2. Append(acc.list, k) \in Seq(Nat)
    BY <1>1, AppendProperties
  <1>3. [acc EXCEPT !.truncated = TRUE] \in Accs
    BY <1>1 DEF Accs
  <1>4. [acc EXCEPT !.list = Append(@, k)] \in Accs
    BY <1>1, <1>2 DEF Accs
  <1> QED
    BY <1>3, <1>4 DEF Offer

LEMMA OfferSteps ==
  ASSUME NEW base \in Accs, NEW d \in Seq(Nat)
  PROVE  \E h : /\ h[0] = base
                /\ \A k \in 0 .. Len(d) - 1 : h[k + 1] = Offer(h[k], d[k + 1])
                /\ h[Len(d)] = FoldLeft(Offer, base, d)
  <1> DEFINE n == Len(d)
             g == [p \in (1 .. n) \X Accs |-> Offer(p[2], d[p[1]])]
             Recurs(f) == f = [s \in SUBSET (1 .. n) |->
                                 IF s = {} THEN base
                                 ELSE Offer(f[s \ {Max(s)}], d[Max(s)])]
  <1>1. n \in Nat /\ DOMAIN d = 1 .. n
    OBVIOUS
  <1>2. ASSUME NEW p \in (1 .. n) \X Accs PROVE g[p] \in Accs
    <2>1. p[2] \in Accs /\ d[p[1]] \in Nat
      OBVIOUS
    <2>2. g[p] = Offer(p[2], d[p[1]])
      OBVIOUS
    <2> HIDE DEF g
    <2> QED
      BY <2>1, <2>2, OfferType
  <1>3. g \in [(1 .. n) \X Accs -> Accs]
    BY <1>2
  <1>4. PICK f \in [SUBSET (1 .. n) -> Accs] : Folds(f, n, base, g)
    <2> HIDE DEF n, g
    <2> QED
      BY <1>1, <1>3, FoldExists
  <1>5. Recurs(f)
    <2>1. ASSUME NEW s \in SUBSET (1 .. n), s # {}
          PROVE  g[<<Max(s), f[s \ {Max(s)}]>>] = Offer(f[s \ {Max(s)}], d[Max(s)])
      <3>1. Max(s) \in 1 .. n
        BY <1>1, <2>1, GreatestPosition
      <3>2. f[s \ {Max(s)}] \in Accs
        BY <1>4
      <3> QED
        BY <3>1, <3>2
    <2> HIDE DEF g, n
    <2> QED
      BY <1>4, <2>1 DEF Folds
  <1>6. PICK r : Recurs(r) /\ FoldLeft(Offer, base, d) = r[1 .. n]
    <2> HIDE DEF g
    <2> QED
      BY <1>1, <1>5 DEF FoldLeft, MapThenFoldSet
  <1>7. \A k \in 0 .. n - 1 : r[1 .. k + 1] = Offer(r[1 .. k], d[k + 1])
    <2>1. \A s \in SUBSET (1 .. n) : s # {} =>
            r[s] = Offer(r[s \ {Max(s)}], d[Max(s)])
      BY <1>6
    <2> TAKE k \in 0 .. n - 1
    <2> HIDE DEF g, n, Recurs
    <2>2. /\ 1 .. k + 1 \in SUBSET (1 .. n) /\ 1 .. k + 1 # {}
          /\ Max(1 .. k + 1) = k + 1 /\ (1 .. k + 1) \ {k + 1} = 1 .. k
      BY <1>1, PositionsUpTo
    <2> DEFINE Q == 1 .. k + 1
               P == 1 .. k
    <2>3. Q \in SUBSET (1 .. n) /\ Q # {} /\ Max(Q) = k + 1 /\ Q \ {k + 1} = P
      BY <2>2
    <2> HIDE DEF P, Q
    <2>4. r[Q] = Offer(r[P], d[k + 1])
      BY <2>1, <2>3
    <2> QED
      BY <2>4 DEF P, Q
  <1>8. r[1 .. 0] = base
    BY <1>6
  <1> DEFINE h == [k \in 0 .. n |-> r[1 .. k]]
  <1>9. /\ h[0] = base /\ h[n] = r[1 .. n]
        /\ \A k \in 0 .. n - 1 : h[k + 1] = Offer(h[k], d[k + 1])
    BY <1>1, <1>7, <1>8
  <1> HIDE DEF h, Recurs
  <1> QED
    BY <1>6, <1>9

\* What the first i keys of a list are.
FirstOf(d, i) == {d[j] : j \in 1 .. i}

\* The watchlist's keys, each of them once, are the list to begin with.
LEMMA IncludedOnce ==
  ASSUME NEW w \in Seq(Nat)
  PROVE  LET list == FoldLeft(Include, <<>>, w)
         IN  list \in Seq(Nat) /\ IsInjective(list) /\ ToSet(list) = ToSet(w)
  <1> DEFINE n == Len(w)
             Good(q, k) == q \in Seq(Nat) /\ IsInjective(q) /\ ToSet(q) = FirstOf(w, k)
  <1>1. n \in Nat /\ \A k \in 1 .. n : w[k] \in Nat
    OBVIOUS
  <1>2. PICK h : /\ h[0] = <<>>
                 /\ \A k \in 0 .. n - 1 : h[k + 1] = Include(h[k], w[k + 1])
                 /\ h[n] = FoldLeft(Include, <<>>, w)
    BY IncludeSteps
  <1> DEFINE Done0 == {k \in Nat : k <= n => Good(h[k], k)}
  <1>3. Good(<<>>, 0)
    <2>1. <<>> \in Seq(Nat) /\ IsInjective(<<>>) /\ ToSet(<<>>) = {}
      BY DEF IsInjective, ToSet
    <2>2. FirstOf(w, 0) = {}
      BY DEF FirstOf
    <2> QED
      BY <2>1, <2>2
  <1>4. ASSUME NEW k \in 0 .. n - 1, NEW q, Good(q, k)
        PROVE  Good(Include(q, w[k + 1]), k + 1)
    <2>1. FirstOf(w, k + 1) = FirstOf(w, k) \union {w[k + 1]}
      BY <1>1 DEF FirstOf
    <2>2. k + 1 \in 1 .. n /\ w[k + 1] \in Nat
      BY <1>1
    <2> HIDE DEF n
    <2> DEFINE x == w[k + 1]
    <2>3. x \in Nat /\ FirstOf(w, k + 1) = FirstOf(w, k) \union {x}
      BY <2>1, <2>2
    <2> HIDE DEF x
    <2>4. q \in Seq(Nat) /\ IsInjective(q) /\ ToSet(q) = FirstOf(w, k)
      BY <1>4
    <2>5. /\ Include(q, x) \in Seq(Nat) /\ IsInjective(Include(q, x))
          /\ ToSet(Include(q, x)) = ToSet(q) \union {x}
      BY <2>3, <2>4, AppendNew DEF Include
    <2> QED
      BY <2>3, <2>4, <2>5 DEF x
  <1> HIDE DEF Good
  <1>5. \A k \in Done0 : k \in Nat => k + 1 \in Done0
    <2> SUFFICES ASSUME NEW k \in Done0, k \in Nat, k + 1 <= n
                 PROVE  Good(h[k + 1], k + 1)
      OBVIOUS
    <2>1. k \in 0 .. n - 1 /\ k <= n
      BY <1>1
    <2>2. Good(h[k], k) /\ h[k + 1] = Include(h[k], w[k + 1])
      BY <1>2, <2>1
    <2> QED
      BY <1>4, <2>1, <2>2
  <1>6. 0 \in Done0
    BY <1>2, <1>3
  <1>7. n \in Done0
    <2> HIDE DEF Done0, n
    <2> QED
      BY <1>1, <1>5, <1>6, InductionFromZero
  <1>8. Good(h[n], n)
    BY <1>1, <1>7
  <1>9. FirstOf(w, n) = ToSet(w)
    BY DEF FirstOf, ToSet
  <1> QED
    BY <1>2, <1>8, <1>9 DEF Good

\* The other keys are taken in order as far as the cap goes: what was offered
\* so far is in the list up to some key, the first to find it full.
Taken(acc, base, d, k) ==
    /\ acc \in Accs
    /\ acc.cap = base.cap
    /\ IsInjective(acc.list)
    /\ Len(acc.list) = Len(base.list) \/ Len(acc.list) <= acc.cap
    /\ \E j \in 0 .. k :
         /\ ToSet(acc.list) = ToSet(base.list) \union FirstOf(d, j)
         /\ IF acc.truncated
            THEN j < k /\ d[j + 1] \notin ToSet(acc.list) /\ Len(acc.list) >= acc.cap
            ELSE j = k

LEMMA TakenStep ==
  ASSUME NEW base \in Accs, NEW d \in Seq(Nat), NEW k \in 0 .. Len(d) - 1,
         NEW acc, Taken(acc, base, d, k)
  PROVE  Taken(Offer(acc, d[k + 1]), base, d, k + 1)
  <1>1. Len(d) \in Nat /\ k + 1 \in 1 .. Len(d) /\ d[k + 1] \in Nat /\ k \in Nat
    OBVIOUS
  <1>2. PICK j \in 0 .. k :
         /\ ToSet(acc.list) = ToSet(base.list) \union FirstOf(d, j)
         /\ IF acc.truncated
            THEN j < k /\ d[j + 1] \notin ToSet(acc.list) /\ Len(acc.list) >= acc.cap
            ELSE j = k
    BY DEF Taken
  <1>3. /\ acc \in Accs /\ acc.cap = base.cap /\ IsInjective(acc.list)
        /\ Len(acc.list) = Len(base.list) \/ Len(acc.list) <= acc.cap
        /\ acc.list \in Seq(Nat) /\ acc.cap \in Int /\ Len(acc.list) \in Nat
    BY DEF Taken, Accs
  <1> DEFINE x == d[k + 1]
  <1>4. FirstOf(d, k + 1) = FirstOf(d, k) \union {x}
    BY <1>1 DEF FirstOf
  <1>5. Offer(acc, x) \in Accs
    BY <1>1, <1>3, OfferType
  <1>6. /\ Contains(acc.list, x) <=> x \in ToSet(acc.list)
        /\ Len(Append(acc.list, x)) = Len(acc.list) + 1
        /\ ToSet(Append(acc.list, x)) = ToSet(acc.list) \union {x}
        /\ ~Contains(acc.list, x) => IsInjective(Append(acc.list, x))
    BY <1>1, <1>3, AppendNew
  <1>7. j \in 0 .. k + 1 /\ k + 1 \in 0 .. k + 1 /\ j < k + 1
    BY <1>1
  <1> HIDE DEF x
  <1>8. CASE acc.truncated
    <2>1. Offer(acc, x) = acc
      BY <1>8 DEF Offer
    <2>2. j < k + 1 /\ d[j + 1] \notin ToSet(acc.list) /\ Len(acc.list) >= acc.cap
      BY <1>2, <1>7, <1>8
    <2> QED
      BY <1>2, <1>3, <1>7, <1>8, <2>1, <2>2 DEF Taken, x
  <1>9. CASE ~acc.truncated /\ Contains(acc.list, x)
    <2>1. Offer(acc, x) = acc
      BY <1>9 DEF Offer
    <2>2. ToSet(acc.list) = ToSet(base.list) \union FirstOf(d, k + 1)
      BY <1>2, <1>4, <1>6, <1>9
    <2> QED
      BY <1>3, <1>7, <1>9, <2>1, <2>2 DEF Taken, x
  <1>10. CASE ~acc.truncated /\ ~Contains(acc.list, x) /\ Len(acc.list) >= acc.cap
    <2> DEFINE new == [acc EXCEPT !.truncated = TRUE]
    <2>1. Offer(acc, x) = new
      BY <1>10 DEF Offer
    <2>2. new.list = acc.list /\ new.cap = acc.cap /\ new.truncated
      BY <1>3 DEF Accs
    <2>3. j = k /\ d[j + 1] \notin ToSet(acc.list)
      BY <1>2, <1>6, <1>10 DEF x
    <2>4. new \in Accs
      BY <1>5, <2>1
    <2> HIDE DEF new
    <2> QED
      BY <1>2, <1>3, <1>7, <1>10, <2>1, <2>2, <2>3, <2>4 DEF Taken, x
  <1>11. CASE ~acc.truncated /\ ~Contains(acc.list, x) /\ ~(Len(acc.list) >= acc.cap)
    <2> DEFINE new == [acc EXCEPT !.list = Append(@, x)]
    <2>1. Offer(acc, x) = new
      BY <1>11 DEF Offer
    <2>2. new.list = Append(acc.list, x) /\ new.cap = acc.cap /\ ~new.truncated
      BY <1>3, <1>11 DEF Accs
    <2>3. ToSet(new.list) = ToSet(base.list) \union FirstOf(d, k + 1)
      BY <1>2, <1>4, <1>6, <1>11, <2>2
    <2>4. new \in Accs
      BY <1>5, <2>1
    <2>5. Len(new.list) <= new.cap
      BY <1>3, <1>6, <1>11, <2>2
    <2>6. IsInjective(new.list) /\ new.cap = base.cap
      BY <1>3, <1>6, <1>11, <2>2
    <2> HIDE DEF new
    <2> QED
      BY <1>7, <2>1, <2>2, <2>3, <2>4, <2>5, <2>6 DEF Taken, x
  <1> QED
    BY <1>8, <1>9, <1>10, <1>11 DEF x

LEMMA OfferedInOrder ==
  ASSUME NEW base \in Accs, NEW d \in Seq(Nat), IsInjective(base.list), ~base.truncated
  PROVE  Taken(FoldLeft(Offer, base, d), base, d, Len(d))
  <1> DEFINE n == Len(d)
  <1>1. n \in Nat
    OBVIOUS
  <1>2. PICK h : /\ h[0] = base
                 /\ \A k \in 0 .. n - 1 : h[k + 1] = Offer(h[k], d[k + 1])
                 /\ h[n] = FoldLeft(Offer, base, d)
    BY OfferSteps
  <1> DEFINE Reached == {k \in Nat : k <= n => Taken(h[k], base, d, k)}
  <1>3. 0 \in Reached
    <2>1. FirstOf(d, 0) = {}
      BY DEF FirstOf
    <2>2. 0 \in 0 .. 0
      OBVIOUS
    <2>3. Taken(base, base, d, 0)
      BY <2>1, <2>2 DEF Taken
    <2> QED
      BY <1>2, <2>3
  <1>4. \A k \in Reached : k \in Nat => k + 1 \in Reached
    <2> SUFFICES ASSUME NEW k \in Reached, k \in Nat, k + 1 <= n
                 PROVE  Taken(h[k + 1], base, d, k + 1)
      OBVIOUS
    <2>1. k \in 0 .. n - 1 /\ k <= n
      BY <1>1
    <2>2. Taken(h[k], base, d, k) /\ h[k + 1] = Offer(h[k], d[k + 1])
      BY <1>2, <2>1
    <2> QED
      BY <2>1, <2>2, TakenStep
  <1>5. n \in Reached
    <2> HIDE DEF Reached, n
    <2> QED
      BY <1>1, <1>3, <1>4, InductionFromZero
  <1> QED
    BY <1>1, <1>2, <1>5

-----------------------------------------------------------------------------
(* What is desired: the theorem.                                           *)

\* Only registered keys are listed, and only finitely many are registered.
Finite == IsFiniteSet(members) /\ IsFiniteSet(seen) /\ IsFiniteSet(fresh)

LEMMA NextFinite == TypeOK /\ Finite /\ [Next]_vars => Finite'
  <1> SUFFICES ASSUME TypeOK, Finite, [Next]_vars PROVE Finite'
    OBVIOUS
  <1> USE DEF redisVars, clientVars, listVars, settings
  <1>1. IsFiniteSet({})
    BY FS_EmptySet
  <1>2. ASSUME NEW freshNow \in SUBSET seen, Judge(freshNow)
        PROVE  IsFiniteSet(fresh') /\ IsFiniteSet(seen')
    <2>1. IsFiniteSet(freshNow)
      BY FS_Subset DEF Finite
    <2> QED
      BY <1>1, <1>2, <2>1 DEF Judge, Done, Finite
  <1>3. ASSUME NEW k \in Keys, Register(k) PROVE IsFiniteSet(members')
    BY <1>3, FS_AddElement DEF Register, Finite
  <1>4. ASSUME NEW k \in Keys, Add(k) \/ Heartbeat(k) \/ ClientGone(k) \/ RegisterOwn(k)
        PROVE  Finite'
    <2>1. IsFiniteSet(members')
      BY <1>3, <1>4 DEF Add, Heartbeat, ClientGone, RegisterOwn, Finite
    <2> QED
      BY <1>4, <2>1 DEF Add, Heartbeat, ClientGone, RegisterOwn, Finite
  <1>5. CASE ReadSet
    BY <1>1, <1>5 DEF ReadSet, Finite
  <1>6. CASE ReadSetFails
    BY <1>1, <1>6 DEF ReadSetFails, Finite
  <1>7. CASE ReadHash
    BY <1>2, <1>7 DEF ReadHash, Finite
  <1>8. CASE ReadHashFails
    BY <1>2, <1>8 DEF ReadHashFails, Finite
  <1>9. CASE PruneSet
    <2>1. members' \in SUBSET members
      BY <1>9 DEF PruneSet
    <2> QED
      BY <1>9, <2>1, FS_Subset DEF PruneSet, Finite
  <1>10. CASE PruneHash \/ PruneFails
    BY <1>1, <1>10 DEF PruneHash, PruneFails, Done, Finite
  <1>11. CASE Tick
    BY <1>11 DEF Tick, Finite
  <1>12. CASE UNCHANGED vars
    BY <1>12 DEF vars, Finite
  <1> QED
    BY <1>4, <1>5, <1>6, <1>7, <1>8, <1>9, <1>10, <1>11, <1>12 DEF Next, Listing

\* The arithmetic of the cap: w keys are watched, o others fresh, and c of
\* these chosen.
LEMMA CapArithmetic ==
  ASSUME NEW w \in Nat, NEW o \in Nat, NEW c \in Nat, NEW limit \in Int,
         c <= o, c = 0 \/ w + c <= limit,
         c = o \/ w + c >= limit
  PROVE  c = Min({Max({0, limit - w}), o})
  <1>1. Max({0, limit - w}) = IF 0 >= limit - w THEN 0 ELSE limit - w
    BY MaxOfTwo
  <1> DEFINE room == Max({0, limit - w})
  <1>2. room \in Int /\ room = IF 0 >= limit - w THEN 0 ELSE limit - w
    BY <1>1
  <1> HIDE DEF room
  <1>3. Min({room, o}) = IF room <= o THEN room ELSE o
    BY <1>2, MinOfTwo
  <1>4. c = IF room <= o THEN room ELSE o
    BY <1>2
  <1> QED
    BY <1>3, <1>4 DEF room

\* build_desired_stk_symbols does what it is for, whatever is watched, fresh
\* and allowed.
LEMMA DesiredMeets == TypeOK /\ Finite => DesiredIsRight
  <1> SUFFICES ASSUME TypeOK, Finite PROVE DesiredIsRight
    OBVIOUS
  <1> DEFINE limit == IF cap < 1 THEN 1 ELSE cap
             first == FoldLeft(Include, <<>>, watch)
             base == [list |-> first, truncated |-> FALSE, cap |-> limit]
             d == Sorted(fresh)
             watched == ToSet(watch)
             others == fresh \ watched
             list == Desired.list
             chosen == ToSet(list) \ watched
  <1>1. watch \in Seq(Nat) /\ limit \in Int /\ cap \in Int /\ fresh \in SUBSET Nat
    BY SettingsAssumption, KeysAssumption DEF TypeOK
  <1>2. first \in Seq(Nat) /\ IsInjective(first) /\ ToSet(first) = watched
    BY <1>1, IncludedOnce
  <1>3. IsFiniteSet(fresh) /\ Cardinality(fresh) \in Nat
    BY FS_CardinalityType DEF Finite
  <1>4. Sorting(d, fresh)
    BY <1>1, <1>3, SortedListOf DEF Sorted
  <1>5. /\ d \in Seq(Nat) /\ Len(d) \in Nat
        /\ \A i, j \in 1 .. Len(d) : i < j => d[i] < d[j]
        /\ \A i \in 1 .. Len(d) : d[i] \in fresh
    BY <1>1, <1>3, <1>4, FunctionIsSeq DEF Sorting
  <1>6. Len(d) = Cardinality(fresh)
    BY <1>3, <1>4, FunctionIsSeq DEF Sorting
  <1>7. FirstOf(d, Len(d)) = fresh
    <2>1. \A x \in fresh : \E i \in 1 .. Len(d) : d[i] = x
      BY <1>1, <1>3, <1>4, <1>6, SortingIsComplete
    <2> HIDE DEF d
    <2> QED
      BY <1>5, <2>1 DEF FirstOf
  <1>8. Desired = FoldLeft(Offer, base, d)
    BY DEF Desired, BuildDesired
  <1>9. base \in Accs /\ base.list = first /\ ~base.truncated /\ base.cap = limit
    BY <1>1, <1>2 DEF Accs
  <1>10. Taken(Desired, base, d, Len(d))
    <2> HIDE DEF base, d, first, limit
    <2> QED
      BY <1>2, <1>5, <1>8, <1>9, OfferedInOrder
  <1>11. /\ list \in Seq(Nat) /\ IsInjective(list) /\ Len(list) \in Nat
         /\ Desired.truncated \in BOOLEAN
         /\ Len(list) = Len(first) \/ Len(list) <= limit
    BY <1>9, <1>10 DEF Taken, Accs
  <1>12. PICK j \in 0 .. Len(d) :
           /\ ToSet(list) = watched \union FirstOf(d, j)
           /\ IF Desired.truncated
              THEN j < Len(d) /\ d[j + 1] \notin ToSet(list) /\ Len(list) >= limit
              ELSE j = Len(d)
    <2> HIDE DEF base, first, limit, d, watched
    <2> QED
      BY <1>2, <1>9, <1>10 DEF Taken
  <1> HIDE DEF limit, first, base, d, watched, list
  <1>13. watched \subseteq ToSet(list)
    BY <1>12
  <1>14. chosen \subseteq others /\ chosen = FirstOf(d, j) \ watched
    BY <1>5, <1>12 DEF FirstOf
  <1>15. \A a \in chosen, b \in others \ chosen : a < b
    <2> SUFFICES ASSUME NEW a \in chosen, NEW b \in others \ chosen PROVE a < b
      OBVIOUS
    <2>1. PICK i \in 1 .. j : d[i] = a
      BY <1>14 DEF FirstOf
    <2>2. PICK k \in 1 .. Len(d) : d[k] = b
      BY <1>7 DEF FirstOf
    <2>3. ~(k \in 1 .. j)
      BY <1>14, <2>2 DEF FirstOf
    <2>4. /\ i \in 1 .. Len(d) /\ i < k
      BY <1>5, <1>12, <2>1, <2>2, <2>3
    <2>5. d[i] < d[k]
      BY <1>5, <2>2, <2>4
    <2> QED
      BY <2>1, <2>2, <2>5
  <1>16. Desired.truncated <=> chosen # others
    <2>1. CASE Desired.truncated
      <3>1. j + 1 \in 1 .. Len(d) /\ d[j + 1] \notin ToSet(list)
        BY <1>5, <1>12, <2>1
      <3>2. d[j + 1] \in others
        BY <1>5, <1>13, <3>1
      <3> QED
        BY <2>1, <3>1, <3>2
    <2>2. CASE ~Desired.truncated
      BY <1>7, <1>12, <1>14, <2>2
    <2> QED
      BY <2>1, <2>2
  <1>17. /\ Cardinality(watched) = Len(first) /\ IsFiniteSet(watched)
         /\ Len(first) \in Nat
    BY <1>2, InjectiveListSize
  <1>18. IsFiniteSet(ToSet(list)) /\ Cardinality(ToSet(list)) = Len(list)
    BY <1>11, InjectiveListSize
  <1>19. /\ IsFiniteSet(others) /\ Cardinality(others) \in Nat
         /\ IsFiniteSet(chosen) /\ Cardinality(chosen) \in Nat
         /\ Cardinality(chosen) <= Cardinality(others)
         /\ Cardinality(chosen) = Cardinality(others) => chosen = others
    BY <1>3, <1>14, FS_Subset, FS_CardinalityType
  <1>20. Len(list) = Cardinality(watched) + Cardinality(chosen)
    <2>1. watched \intersect chosen = {} /\ watched \union chosen = ToSet(list)
      BY <1>13
    <2>2. IsFiniteSet(watched) /\ IsFiniteSet(chosen)
      BY <1>17, <1>19
    <2> HIDE DEF chosen
    <2>3. Cardinality(watched \union chosen)
            = Cardinality(watched) + Cardinality(chosen) - Cardinality(watched \intersect chosen)
      BY <2>2, FS_Union
    <2>4. Cardinality(ToSet(list)) = Cardinality(watched) + Cardinality(chosen) - 0
      BY <2>1, <2>3, FS_EmptySet
    <2> QED
      BY <1>17, <1>18, <1>19, <2>4
  <1>21. Cardinality(chosen) = 0 \/ Cardinality(watched) + Cardinality(chosen) <= limit
    BY <1>11, <1>17, <1>19, <1>20
  <1>22. \/ Cardinality(chosen) = Cardinality(others)
         \/ Cardinality(watched) + Cardinality(chosen) >= limit
    BY <1>12, <1>16, <1>20
  <1> HIDE DEF chosen, others
  <1>23. Cardinality(chosen)
           = Min({Max({0, limit - Cardinality(watched)}), Cardinality(others)})
    BY <1>1, <1>17, <1>19, <1>21, <1>22, CapArithmetic
  <1>24. Max({1, cap}) = limit
    BY <1>1, MaxOfTwo DEF limit
  <1>25. Cardinality(chosen)
           = Min({Max({0, Max({1, cap}) - Cardinality(watched)}), Cardinality(others)})
    BY <1>23, <1>24
  <1> QED
    BY <1>11, <1>13, <1>14, <1>15, <1>16, <1>25
    DEF DesiredIsRight, chosen, others, list, watched

\* Whatever is watched, fresh and allowed at the moment, the streams that are
\* desired are the watchlist and the first of the other fresh keys that fit
\* under the cap, and "truncated" says whether one was left out.
THEOREM StreamsAreShared == Spec => []DesiredIsRight
  <1>1. Init => Finite
    BY FS_EmptySet DEF Init, Finite
  <1>2. IInv /\ Finite /\ [Next]_vars => Finite'
    BY NextFinite DEF IInv
  <1>3. IInv /\ Finite => DesiredIsRight
    BY DesiredMeets DEF IInv
  <1> QED
    BY <1>1, <1>2, <1>3, Invariance, PTL DEF Spec
=============================================================================
