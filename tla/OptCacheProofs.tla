---------------------------- MODULE OptCacheProofs ----------------------------
(***************************************************************************)
(* Theorems of OptCache, for any finite set of contracts, any cap and any  *)
(* timers that satisfy its assumptions: its type invariant, that no stream *)
(* is left open, that the heartbeat of the loop never raises a false       *)
(* alarm, that one contract that hangs does not spoil the others, and how  *)
(* long a refresh may take.                                                *)
(***************************************************************************)
EXTENDS OptCache, ListLemmas, TLAPS

-----------------------------------------------------------------------------
(* Operators: the timers.                                                  *)

\* The longest sleep of a one-shot or between two passes, and the longest
\* timer there is.
Longest == Max({Timeout, Refresh, Retry})
TimerMax == Max({Timeout, Pacing, Refresh, Retry})

\* What the assumptions on the timers come to.
LEMMA TimerFacts ==
  /\ Timeout \in Nat /\ Pacing \in Nat /\ Refresh \in Nat /\ Retry \in Nat
  /\ Timeout > 0
  /\ Longest \in Nat
  /\ Timeout <= Longest /\ Refresh <= Longest /\ Retry <= Longest
  /\ StaleWarn \in Nat /\ StaleWarn >= Pacing + Longest
  /\ TimerMax \in Nat
  /\ Timeout <= TimerMax /\ Pacing <= TimerMax
  /\ Refresh <= TimerMax /\ Retry <= TimerMax
  <1>1. /\ Timeout \in Nat /\ Pacing \in Nat /\ Refresh \in Nat /\ Retry \in Nat
        /\ StaleWarn \in Nat /\ Timeout > 0
    BY TimesAssumption
  <1>2. \E x \in {Timeout, Refresh, Retry} : \A y \in {Timeout, Refresh, Retry} : x >= y
    BY <1>1
  <1>3. \A y \in {Timeout, Refresh, Retry} : Longest >= y
    BY <1>2, MaxIsUpper DEF Longest
  <1>4. Longest \in {Timeout, Refresh, Retry}
    BY <1>2, MaxIsUpper DEF Longest
  <1>5. \E x \in {Timeout, Pacing, Refresh, Retry} :
          \A y \in {Timeout, Pacing, Refresh, Retry} : x >= y
    BY <1>1
  <1>6. \A y \in {Timeout, Pacing, Refresh, Retry} : TimerMax >= y
    BY <1>5, MaxIsUpper DEF TimerMax
  <1>7. TimerMax \in {Timeout, Pacing, Refresh, Retry}
    BY <1>5, MaxIsUpper DEF TimerMax
  <1> QED
    BY <1>1, <1>3, <1>4, <1>6, <1>7, StaleWarnAssumption DEF Longest

-----------------------------------------------------------------------------
(* Operators: the lists of contracts.                                      *)

\* sorted(fresh) lists every fresh contract once, in order ...
LEMMA SortedIsSorting ==
  ASSUME NEW fresh \in SUBSET Keys
  PROVE  Sorting(Sorted(fresh), fresh)
  <1>1. IsFiniteSet(fresh) /\ fresh \in SUBSET Nat
    BY KeysAssumption, FS_Subset
  <1>2. PICK s : Sorting(s, fresh)
    BY <1>1, SortingExists
  <1>3. s \in SetToSeqs(fresh) /\ Increasing(s)
    BY <1>1, <1>2, SortingIsSorted
  <1>4. Sorted(fresh) = CHOOSE x \in SetToSeqs(fresh) : Increasing(x)
    BY DEF Sorted, IsSorted, Increasing
  <1>5. Sorted(fresh) \in SetToSeqs(fresh) /\ Increasing(Sorted(fresh))
    BY <1>3, <1>4
  <1> QED
    BY <1>1, <1>5, SortingIsSorted

\* ... and the cap cuts the list.
LEMMA ListingType ==
  ASSUME NEW fresh \in SUBSET Keys
  PROVE  Listing(fresh) \in Seq(Keys) /\ Len(Listing(fresh)) <= Cap
  <1>1. Cardinality(fresh) \in Nat /\ Cap \in Nat \ {0}
    BY KeysAssumption, CapAssumption, FS_Subset, FS_CardinalityType
  <1>2. /\ Sorted(fresh) \in Seq(Keys)
        /\ Len(Sorted(fresh)) = Cardinality(fresh)
    BY <1>1, SortedIsSorting DEF Sorting
  <1>3. /\ Min({Cap, Cardinality(fresh)}) \in 0 .. Cardinality(fresh)
        /\ Min({Cap, Cardinality(fresh)}) <= Cap
    BY <1>1, MinOfTwo
  <1> DEFINE s == Sorted(fresh)
             n == Min({Cap, Cardinality(fresh)})
  <1>4. /\ s \in Seq(Keys) /\ Len(s) \in Nat
        /\ n \in 0 .. Len(s) /\ n <= Cap
        /\ Listing(fresh) = SubSeq(s, 1, n)
    BY <1>1, <1>2, <1>3 DEF Listing
  <1> HIDE DEF s, n
  <1>5. 1 \in 1 .. Len(s) + 1 /\ n \in 1 - 1 .. Len(s)
    BY <1>4
  <1>6. SubSeq(s, 1, n) \in Seq(Keys) /\ Len(SubSeq(s, 1, n)) = n - 1 + 1
    BY <1>4, <1>5, SubSeqProperties
  <1> QED
    BY <1>1, <1>4, <1>6

\* _refresh_opt_cache_once skips what does not parse, and nothing else: the
\* list is done only if nothing parses, and what is asked for still holds
\* every contract that does.
LEMMA RefreshRestCases ==
  ASSUME NEW a \in Actors, NEW contracts \in Seq(Keys), RefreshRest(a, contracts)
  PROVE  \/ /\ \A i \in 1 .. Len(contracts) : contracts[i] \in Bad
            /\ Rest(a, Refresh)
         \/ \E rest \in Seq(Keys) :
              /\ rest # <<>>
              /\ Len(rest) <= Len(contracts)
              /\ Contains(contracts, Tracked) => Contains(rest, Tracked)
              /\ Ask(a, rest)
              /\ Take(a)
  <1> DEFINE Good == {i \in 1 .. Len(contracts) : contracts[i] \notin Bad}
             first == IF Good # {} THEN Min(Good) ELSE 0
             rest == SubSeq(contracts, first, Len(contracts))
  <1>1. IF first = 0 THEN Rest(a, Refresh) ELSE Ask(a, rest) /\ Take(a)
    BY DEF RefreshRest, SelectInSeq
  <1>2. CASE Good = {}
    BY <1>1, <1>2
  <1>3. CASE Good # {}
    <2>1. Good \in SUBSET Nat
      BY LenProperties
    <2>2. first \in Good /\ \A i \in Good : first <= i
      BY <1>3, <2>1, MinOfNaturals
    <2>3. first # 0 /\ first \in 1 .. Len(contracts)
      BY <2>2
    <2> HIDE DEF first
    <2>4. /\ rest \in Seq(Keys)
          /\ Len(rest) = Len(contracts) - first + 1
          /\ \A i \in 1 .. Len(rest) : rest[i] = contracts[first + i - 1]
      BY <2>3, SubSeqProperties
    <2>5. Contains(contracts, Tracked) => Contains(rest, Tracked)
      <3> SUFFICES ASSUME NEW i \in 1 .. Len(contracts), contracts[i] = Tracked
                   PROVE  Contains(rest, Tracked)
        BY DEF Contains
      <3>1. i >= first
        BY <2>2, KeysAssumption
      <3>2. i - first + 1 \in 1 .. Len(rest) /\ rest[i - first + 1] = contracts[i]
        BY <2>3, <2>4, <3>1
      <3> QED
        BY <3>2 DEF Contains
    <2>6. Len(rest) \in 1 .. Len(contracts)
      BY <2>3, <2>4
    <2>8. Ask(a, rest) /\ Take(a)
      BY <1>1, <2>3
    <2> HIDE DEF rest
    <2>7. rest # <<>>
      BY <2>6
    <2> QED
      BY <2>4, <2>5, <2>6, <2>7, <2>8
  <1> QED
    BY <1>2, <1>3

-----------------------------------------------------------------------------
(* The inductive invariant.                                                *)

Pcs == {"idle", "asleep", "asking", "polling", "pacing"}

\* How long a list may get: what Listing cuts, or two contracts.
Room(a) == IF a \in Refreshers THEN Cap ELSE 2

OneCommand ==
    \A a, b \in Commands : pc[a] # "idle" /\ pc[b] # "idle" => a = b

TypeInv ==
    /\ host \in {"none", "up", "lost"}
    /\ pc \in [Actors -> Pcs]
    /\ OneCommand
    /\ live \subseteq Actors
    /\ live # {} => host = "up"
    /\ todo \in [Actors -> Seq(Keys)]
    /\ \A a \in Actors : Len(todo[a]) <= Room(a)
    /\ left \in [Actors -> 0 .. TimerMax]
    /\ streams \subseteq Actors
    /\ beat \in 0 .. StaleWarn + 1
    /\ age \in NoAge .. MaxAge + 1

\* A one-shot has its contract at the head of the list, and a refresher
\* pauses only before another one.
HasContract(a) ==
    pc[a] \in {"asking", "polling"} \/ (pc[a] = "pacing" /\ a \in Refreshers)
        => todo[a] # <<>>

\* The loop never ends.
LoopRuns == pc["loop"] # "idle"

Core ==
    /\ \A a \in Actors : HasContract(a)
    /\ LoopRuns
    /\ NoStrayStream

Inv == TypeInv /\ Core

-----------------------------------------------------------------------------
(* What every move of one actor has in common.                             *)

MovesOnly(a) ==
    /\ pc' \in [Actors -> Pcs]
    /\ todo' \in [Actors -> Seq(Keys)]
    /\ left' \in [Actors -> 0 .. TimerMax]
    /\ \A b \in Actors \ {a} :
          pc'[b] = pc[b] /\ todo'[b] = todo[b] /\ left'[b] = left[b]

MoveOK(a) ==
    /\ MovesOnly(a)
    /\ Len(todo'[a]) <= Room(a)
    /\ HasContract(a)'
    /\ a = "loop" => pc'[a] # "idle"
    /\ live \ {a} \subseteq live' /\ live' \subseteq live \union {a}
    /\ live' # {} => host = "up"

\* Who acts, who is time-boxed, and how many contracts each may hold.
LEMMA ActorFacts ==
  /\ "loop" \in Actors /\ Refreshers \subseteq Actors /\ Commands \subseteq Actors
  /\ TimeBoxed = Refreshers /\ "loop" \in Refreshers
  /\ \A a \in Actors : Room(a) \in Nat \ {0}
  BY CapAssumption DEF Actors, Commands, Refreshers, TimeBoxed, Room

\* The steps every one-shot is made of: ask, rest, pace.
LEMMA AskMove ==
  ASSUME Inv, NEW a \in Actors, NEW contracts \in Seq(Keys), contracts # <<>>,
         Len(contracts) <= Room(a), Ask(a, contracts),
         Take(a) \/ UNCHANGED live
  PROVE  MoveOK(a)
  <1>1. 0 \in 0 .. TimerMax /\ Timeout \in 0 .. TimerMax
    BY TimerFacts
  <1>2. MovesOnly(a)
    BY <1>1 DEF Inv, TypeInv, Ask, MovesOnly, Pcs
  <1>3. pc'[a] = "asking" /\ todo'[a] = contracts
    BY DEF Inv, TypeInv, Ask
  <1>4. /\ live \ {a} \subseteq live' /\ live' \subseteq live \union {a}
        /\ live' # {} => host = "up"
    BY DEF Inv, TypeInv, Take
  <1> QED
    BY <1>2, <1>3, <1>4 DEF MoveOK, HasContract

LEMMA RestMove ==
  ASSUME Inv, NEW a \in Actors, NEW ticks \in 0 .. TimerMax, Rest(a, ticks)
  PROVE  MoveOK(a)
  <1>1. 0 \in 0 .. TimerMax /\ <<>> \in Seq(Keys) /\ Len(<<>>) = 0
    BY TimerFacts
  <1>2. MovesOnly(a)
    BY <1>1 DEF Inv, TypeInv, Rest, MovesOnly, Pcs
  <1>3. /\ pc'[a] = IF a = "loop" THEN "asleep" ELSE "idle"
        /\ todo'[a] = <<>>
    BY DEF Inv, TypeInv, Rest
  <1>4. /\ live \ {a} \subseteq live' /\ live' \subseteq live \union {a}
        /\ live' # {} => host = "up"
    BY DEF Inv, TypeInv, Rest
  <1>5. Len(todo'[a]) <= Room(a)
    BY <1>1, <1>3, ActorFacts
  <1> QED
    BY <1>2, <1>3, <1>4, <1>5 DEF MoveOK, HasContract

LEMMA PaceMove ==
  ASSUME Inv, NEW a \in Actors, NEW contracts \in Seq(Keys),
         a \in Refreshers => contracts # <<>>,
         Len(contracts) <= Room(a), Pace(a, contracts)
  PROVE  MoveOK(a)
  <1>1. Pacing \in 0 .. TimerMax
    BY TimerFacts
  <1>2. MovesOnly(a)
    BY <1>1 DEF Inv, TypeInv, Pace, MovesOnly, Pcs
  <1>3. pc'[a] = "pacing" /\ todo'[a] = contracts
    BY DEF Inv, TypeInv, Pace
  <1>4. /\ live \ {a} \subseteq live' /\ live' \subseteq live \union {a}
        /\ live' # {} => host = "up"
    BY DEF Inv, TypeInv, Pace
  <1> QED
    BY <1>2, <1>3, <1>4 DEF MoveOK, HasContract

LEMMA RefreshRestMove ==
  ASSUME Inv, NEW a \in Actors, NEW contracts \in Seq(Keys),
         Len(contracts) <= Room(a), RefreshRest(a, contracts)
  PROVE  MoveOK(a)
  <1>1. CASE Rest(a, Refresh)
    BY <1>1, RestMove, TimerFacts
  <1>2. ASSUME NEW rest \in Seq(Keys), rest # <<>>, Len(rest) <= Len(contracts),
               Ask(a, rest), Take(a)
        PROVE  MoveOK(a)
    <2>1. Len(rest) <= Room(a)
      BY <1>2, ActorFacts, LenProperties
    <2> QED
      BY <1>2, <2>1, AskMove
  <1> QED
    BY <1>1, <1>2, RefreshRestCases

\* The one-shot of an actor is over, however.
Over(a) ==
    /\ pc[a] \in {"asking", "polling"}
    /\ \E cached \in BOOLEAN : Conclude(a, cached)

\* A one-shot under way has its contract at the head of what is to do.
LEMMA TailFacts ==
  ASSUME Inv, NEW a \in Actors, pc[a] \in {"asking", "polling"}
  PROVE  /\ Tail(todo[a]) \in Seq(Keys)
         /\ Len(Tail(todo[a])) = Len(todo[a]) - 1
         /\ Len(todo[a]) \in Nat \ {0}
         /\ Len(Tail(todo[a])) <= Room(a)
         /\ Head(todo[a]) = todo[a][1]
         /\ \A i \in 1 .. Len(todo[a]) - 1 : Tail(todo[a])[i] = todo[a][i + 1]
  <1>1. todo[a] \in Seq(Keys) /\ todo[a] # <<>> /\ Len(todo[a]) <= Room(a)
    BY DEF Inv, TypeInv, Core, HasContract
  <1>2. Len(todo[a]) \in Nat \ {0} /\ Room(a) \in Nat
    BY <1>1, EmptySeq, LenProperties, ActorFacts
  <1> QED
    BY <1>1, <1>2, HeadTailProperties

\* The end of a one-shot, however it ends, gives its stream back.
LEMMA OverMove ==
  ASSUME Inv, NEW a \in Actors, Over(a)
  PROVE  MoveOK(a) /\ streams' = streams \ {a} /\ UNCHANGED host
  <1> DEFINE rest == Tail(todo[a])
  <1>1. /\ CASE a = "price" -> Rest(a, 0)
              [] a = "snapshot" -> Pace(a, rest)
              [] a \in Refreshers ->
                   IF Pacing > 0 /\ rest # <<>> THEN Pace(a, rest)
                   ELSE RefreshRest(a, rest)
        /\ streams' = streams \ {a}
        /\ UNCHANGED host
    BY DEF Over, Conclude, Close
  <1>2. rest \in Seq(Keys) /\ Len(rest) <= Room(a)
    BY TailFacts DEF Over
  <1> HIDE DEF rest
  <1>3. CASE a = "price"
    <2>1. Rest(a, 0)
      BY <1>1, <1>3 DEF Refreshers
    <2>2. 0 \in 0 .. TimerMax
      BY TimerFacts
    <2> QED
      BY <1>1, <2>1, <2>2, RestMove
  <1>4. CASE a = "snapshot"
    BY <1>1, <1>2, <1>4, PaceMove DEF Refreshers
  <1>5. CASE a \in Refreshers
    <2>1. IF Pacing > 0 /\ rest # <<>> THEN Pace(a, rest) ELSE RefreshRest(a, rest)
      BY <1>1, <1>5 DEF Refreshers
    <2> QED
      BY <1>1, <1>2, <2>1, PaceMove, RefreshRestMove
  <1> QED
    BY <1>1, <1>3, <1>4, <1>5 DEF Actors, Commands, Refreshers

\* An actor begins, or goes on after a pause: it has no stream.
Begins(a) ==
    \/ Paced(a)
    \/ a = "loop" /\ Cycle
    \/ a = "refresh" /\ RefreshCommand
    \/ a = "snapshot" /\ SnapshotCommand
    \/ a = "price" /\ PriceCommand

LEMMA TrackedLists ==
  /\ <<Tracked>> \in Seq(Keys) /\ Len(<<Tracked>>) = 1
  /\ <<Tracked, Tracked>> \in Seq(Keys) /\ Len(<<Tracked, Tracked>>) = 2
  BY KeysAssumption

\* Beginning a one-shot touches no stream.
LEMMA BeginsMove ==
  ASSUME Inv, NEW a \in Actors, Begins(a)
  PROVE  MoveOK(a) /\ UNCHANGED <<host, streams>> /\ pc[a] # "polling"
  <1>1. CASE Paced(a)
    <2>1. todo[a] \in Seq(Keys) /\ Len(todo[a]) <= Room(a)
      BY DEF Inv, TypeInv
    <2>2. CASE a \in Refreshers
      BY <1>1, <2>1, <2>2, RefreshRestMove DEF Paced
    <2>3. CASE a \notin Refreshers /\ todo[a] = <<>>
      <3>1. Rest(a, 0) /\ 0 \in 0 .. TimerMax
        BY <1>1, <2>3, TimerFacts DEF Paced
      <3> QED
        BY <1>1, <3>1, RestMove DEF Paced
    <2>4. CASE a \notin Refreshers /\ todo[a] # <<>>
      BY <1>1, <2>1, <2>4, AskMove DEF Paced
    <2> QED
      BY <2>2, <2>3, <2>4
  <1>2. CASE a = "loop" /\ Cycle
    <2>1. CASE Rest("loop", Retry)
      BY <1>2, <2>1, RestMove, TimerFacts DEF Cycle
    <2>2. ASSUME NEW fresh \in SUBSET Keys, RefreshRest("loop", Listing(fresh))
          PROVE  MoveOK("loop")
      BY <2>2, ListingType, RefreshRestMove, ActorFacts DEF Room
    <2> QED
      BY <1>2, <2>1, <2>2 DEF Cycle
  <1>3. CASE a = "refresh" /\ RefreshCommand
    <2>1. PICK fresh \in SUBSET Keys : RefreshRest("refresh", Listing(fresh))
      BY <1>3 DEF RefreshCommand
    <2>2. Len(Listing(fresh)) <= Room("refresh")
      BY ListingType DEF Room, Refreshers
    <2> QED
      BY <1>3, <2>1, <2>2, ListingType, RefreshRestMove
      DEF RefreshCommand, OperatorFree, Commands
  <1>4. CASE a = "snapshot" /\ SnapshotCommand
    <2>1. Len(<<Tracked, Tracked>>) <= Room(a) /\ <<Tracked, Tracked>> # <<>>
      BY <1>4, TrackedLists DEF Room, Refreshers
    <2> QED
      BY <1>4, <2>1, TrackedLists, AskMove
      DEF SnapshotCommand, OperatorFree, Commands
  <1>5. CASE a = "price" /\ PriceCommand
    <2>1. Len(<<Tracked>>) <= Room(a) /\ <<Tracked>> # <<>>
      BY <1>5, TrackedLists DEF Room, Refreshers
    <2> QED
      BY <1>5, <2>1, TrackedLists, AskMove
      DEF PriceCommand, OperatorFree, Commands
  <1> QED
    BY <1>1, <1>2, <1>3, <1>4, <1>5 DEF Begins

\* The rest of what can happen.
LEMMA NextCases ==
  ASSUME [Next]_vars
  PROVE  \/ \E a \in Actors : Over(a) \/ Begins(a) \/ Qualified(a)
         \/ HostConnects \/ HostDrops \/ HostNoticed \/ Tick \/ UNCHANGED vars
  <1>1. ASSUME NEW a \in Actors, Step(a)
        PROVE  Over(a) \/ Begins(a) \/ Qualified(a)
    BY <1>1 DEF Step, Polled, Fails, TimesOut, Over, Begins
  <1>2. RefreshCommand => Begins("refresh")
    BY DEF Begins
  <1>3. SnapshotCommand => Begins("snapshot")
    BY DEF Begins
  <1>4. PriceCommand => Begins("price")
    BY DEF Begins
  <1> QED
    BY <1>1, <1>2, <1>3, <1>4 DEF Next, Actors, Commands

-----------------------------------------------------------------------------
(* Preservation of the invariant.                                          *)

LEMMA AgeBounds ==
  /\ NoAge \in NoAge .. MaxAge + 1 /\ 0 \in NoAge .. MaxAge + 1
  /\ 0 \in 0 .. StaleWarn + 1
  /\ StaleWarn \in Int /\ MaxAge \in Nat /\ NoAge \in Int
  <1>1. Cap - 1 \in Nat /\ Timeout + Pacing \in Nat
    BY CapAssumption, TimerFacts
  <1>2. Others \in Nat
    BY <1>1 DEF Others
  <1>3. MaxAge \in Nat
    BY <1>2, TimerFacts DEF MaxAge
  <1> QED
    BY <1>3, TimerFacts DEF NoAge

\* Heartbeat and age are left alone, reset, or given up.
Counters ==
    /\ beat' \in {beat, 0}
    /\ age' \in {age, 0, NoAge}

LEMMA MoveCounters ==
  ASSUME NEW a \in Actors, Over(a) \/ Begins(a)
  PROVE  Counters
  BY
  DEF Over, Begins, Conclude, Heartbeat, Account, Paced, Cycle, RefreshCommand,
         SnapshotCommand, PriceCommand, Counters

\* A command moves only if it is under way, or if none is.
LEMMA MoveOneCommand ==
  ASSUME Inv, NEW a \in Actors, Over(a) \/ Begins(a), MoveOK(a)
  PROVE  OneCommand'
  <1>1. a \in Commands => pc[a] # "idle" \/ \A c \in Commands : pc[c] = "idle"
    BY DEF Over, Begins, Paced, RefreshCommand, SnapshotCommand, PriceCommand,
           OperatorFree, Commands
  <1>2. \A b \in Actors \ {a} : pc'[b] = pc[b]
    BY DEF MoveOK, MovesOnly
  <1> QED
    BY <1>1, <1>2, ActorFacts DEF OneCommand, Inv, TypeInv

\* Every move of an actor keeps the invariant.
LEMMA MoveInv ==
  ASSUME Inv, NEW a \in Actors, Over(a) \/ Begins(a)
  PROVE  Inv'
  <1>1. MoveOK(a) /\ UNCHANGED host /\ streams' \subseteq streams \ {a}
    BY OverMove, BeginsMove DEF Inv, Core, NoStrayStream
  <1>2. TypeInv'
    <2>1. OneCommand'
      BY <1>1, MoveOneCommand
    <2>2. \A b \in Actors : Len(todo'[b]) <= Room(b)
      BY <1>1 DEF MoveOK, MovesOnly, Inv, TypeInv
    <2>3. beat' \in 0 .. StaleWarn + 1 /\ age' \in NoAge .. MaxAge + 1
      BY MoveCounters, AgeBounds DEF Counters, Inv, TypeInv
    <2>4. live' \subseteq Actors /\ streams' \subseteq Actors /\ (live' # {} => host' = "up")
      BY <1>1 DEF MoveOK, Inv, TypeInv
    <2> QED
      BY <1>1, <2>1, <2>2, <2>3, <2>4 DEF MoveOK, MovesOnly, Inv, TypeInv
  <1>3. \A b \in Actors : HasContract(b)'
    BY <1>1 DEF MoveOK, MovesOnly, Inv, Core, HasContract
  <1>4. LoopRuns'
    BY <1>1, ActorFacts DEF MoveOK, MovesOnly, Inv, Core, LoopRuns
  <1>5. NoStrayStream'
    BY <1>1 DEF MoveOK, MovesOnly, Inv, TypeInv, Core, NoStrayStream
  <1> QED
    BY <1>2, <1>3, <1>4, <1>5 DEF Inv, Core

\* A tick takes one from every running timer and adds one to every age.
LEMMA TickFacts ==
  ASSUME Inv, Tick
  PROVE  /\ \A a \in Actors :
              left'[a] = (IF left[a] > 0 THEN left[a] - 1 ELSE 0)
              /\ left'[a] \in 0 .. TimerMax
         /\ beat' <= beat + 1 /\ beat' \in 0 .. StaleWarn + 1
         /\ age # NoAge => age' <= age + 1 /\ age' \in 0 .. MaxAge + 1
         /\ age = NoAge => age' = NoAge
  <1>1. ASSUME NEW a \in Actors
        PROVE  left'[a] = (IF left[a] > 0 THEN left[a] - 1 ELSE 0)
               /\ left'[a] \in 0 .. TimerMax
    <2>1. left[a] \in 0 .. TimerMax /\ TimerMax \in Nat
      BY TimerFacts DEF Inv, TypeInv
    <2>2. left'[a] = Max({0, left[a] - 1})
      BY DEF Tick
    <2>3. left[a] - 1 \in Int /\ 0 \in Int
      BY <2>1
    <2>4. Max({0, left[a] - 1}) = IF 0 >= left[a] - 1 THEN 0 ELSE left[a] - 1
      BY <2>3, MaxOfTwo
    <2> QED
      BY <2>1, <2>2, <2>4
  <1>2. beat' <= beat + 1 /\ beat' \in 0 .. StaleWarn + 1
    <2>1. beat + 1 \in Int /\ StaleWarn + 1 \in Int /\ beat \in 0 .. StaleWarn + 1
      BY AgeBounds DEF Inv, TypeInv
    <2>2. beat' = IF beat + 1 <= StaleWarn + 1 THEN beat + 1 ELSE StaleWarn + 1
      BY <2>1, MinOfTwo DEF Tick
    <2> QED
      BY <2>1, <2>2, AgeBounds
  <1>3. ASSUME age # NoAge
        PROVE  age' <= age + 1 /\ age' \in 0 .. MaxAge + 1
    <2>1. age + 1 \in Int /\ MaxAge + 1 \in Int /\ age \in 0 .. MaxAge + 1
      BY <1>3, AgeBounds DEF Inv, TypeInv, NoAge
    <2>2. age' = IF age + 1 <= MaxAge + 1 THEN age + 1 ELSE MaxAge + 1
      BY <1>3, <2>1, MinOfTwo DEF Tick
    <2> QED
      BY <2>1, <2>2, AgeBounds
  <1> QED
    BY <1>1, <1>2, <1>3 DEF Tick

LEMMA NextInv == Inv /\ [Next]_vars => Inv'
  <1> SUFFICES ASSUME Inv, [Next]_vars PROVE Inv'
    OBVIOUS
  <1>1. ASSUME NEW a \in Actors, Over(a) \/ Begins(a) PROVE Inv'
    BY <1>1, MoveInv
  <1>2. ASSUME NEW a \in Actors, Qualified(a) PROVE Inv'
    <2>1. /\ pc' \in [Actors -> Pcs]
          /\ pc'[a] = "polling" /\ pc[a] = "asking" /\ a \in live
          /\ \A b \in Actors \ {a} : pc'[b] = pc[b]
      BY <1>2 DEF Qualified, Inv, TypeInv, Pcs
    <2>2. OneCommand'
      BY <2>1, ActorFacts DEF OneCommand, Inv, TypeInv
    <2>3. TypeInv'
      BY <1>2, <2>1, <2>2 DEF Qualified, Inv, TypeInv
    <2>4. \A b \in Actors : HasContract(b)'
      BY <1>2, <2>1 DEF Qualified, Inv, Core, HasContract
    <2>5. LoopRuns' /\ NoStrayStream'
      BY <1>2, <2>1, ActorFacts
      DEF Qualified, Inv, TypeInv, Core, LoopRuns, NoStrayStream
    <2> QED
      BY <2>3, <2>4, <2>5 DEF Inv, Core
  <1>3. CASE HostConnects \/ HostNoticed
    BY <1>3
    DEF HostConnects, HostNoticed, Inv, TypeInv, OneCommand, Core, HasContract,
        LoopRuns, NoStrayStream
  <1>4. CASE HostDrops
    BY <1>4
    DEF HostDrops, Inv, TypeInv, OneCommand, Core, HasContract, LoopRuns,
        NoStrayStream
  <1>5. CASE Tick
    <2>1. left' \in [Actors -> 0 .. TimerMax]
      BY <1>5, TickFacts DEF Tick
    <2>2. beat' \in 0 .. StaleWarn + 1 /\ age' \in NoAge .. MaxAge + 1
      BY <1>5, TickFacts, AgeBounds DEF NoAge
    <2>3. TypeInv'
      BY <1>5, <2>1, <2>2 DEF Tick, Inv, TypeInv, OneCommand
    <2>4. Core'
      BY <1>5 DEF Tick, Inv, Core, HasContract, LoopRuns, NoStrayStream
    <2> QED
      BY <2>3, <2>4 DEF Inv
  <1>6. CASE UNCHANGED vars
    BY <1>6
    DEF vars, Inv, TypeInv, OneCommand, Core, HasContract, LoopRuns,
        NoStrayStream
  <1> QED
    BY <1>1, <1>2, <1>3, <1>4, <1>5, <1>6, NextCases

LEMMA InitInv == Init => Inv
  <1> SUFFICES ASSUME Init PROVE Inv
    OBVIOUS
  <1> USE DEF Init
  <1>1. left \in [Actors -> 0 .. TimerMax]
    BY TimerFacts
  <1>2. \A a \in Actors : todo[a] \in Seq(Keys) /\ Len(todo[a]) <= Room(a)
    BY ActorFacts
  <1>3. TypeInv
    BY <1>1, <1>2, AgeBounds
    DEF TypeInv, OneCommand, Pcs, Actors, Commands, NoAge
  <1>4. Core
    BY ActorFacts DEF Core, HasContract, LoopRuns, NoStrayStream
  <1> QED
    BY <1>3, <1>4 DEF Inv

-----------------------------------------------------------------------------
(* Types, and streams.                                                     *)

\* The loop, the operator, TWS and the timers keep the invariant.
THEOREM Invariance == Spec => []Inv
  BY InitInv, NextInv, PTL DEF Spec

\* No actor's list is longer than the longest.
LEMMA RoomFits ==
  /\ Max({Cap, 2}) \in Nat
  /\ \A a \in Actors : Room(a) <= Max({Cap, 2})
  <1>1. Max({Cap, 2}) = IF Cap >= 2 THEN Cap ELSE 2
    BY CapAssumption, MaxOfTwo
  <1> QED
    BY <1>1, CapAssumption DEF Room

\* Every variable keeps its type: at most one command is under way, no list
\* outgrows the cap, no timer its limit.
THEOREM TypeCorrect == Spec => []TypeOK
  <1>1. ASSUME Inv PROVE TypeOK
    <2> USE <1>1 DEF Inv, TypeInv
    <2>1. Cardinality({a \in Commands : pc[a] # "idle"}) <= 1
      <3> DEFINE Busy == {a \in Commands : pc[a] # "idle"}
      <3>1. ASSUME NEW c \in Busy PROVE Busy = {c}
        BY <3>1 DEF OneCommand
      <3> HIDE DEF Busy
      <3>2. ASSUME NEW c \in Busy PROVE Cardinality(Busy) = 1
        BY <3>1, <3>2, FS_Singleton
      <3>3. Cardinality(Busy) <= 1
        <4>1. Busy # {} => Cardinality(Busy) = 1
          BY <3>2
        <4>2. Busy = {} => Cardinality(Busy) = 0
          BY FS_EmptySet
        <4> QED
          BY <4>1, <4>2
      <3> QED
        BY <3>3 DEF Busy
    <2>2. todo \in [Actors -> BoundedSeq(Keys, Max({Cap, 2}))]
      <3> DEFINE most == Max({Cap, 2})
      <3>1. most \in Nat /\ \A a \in Actors : Room(a) <= most /\ Room(a) \in Nat
        BY RoomFits, ActorFacts
      <3> HIDE DEF most
      <3>2. ASSUME NEW a \in Actors
            PROVE  todo[a] \in BoundedSeq(Keys, most)
        <4>0. todo[a] \in Seq(Keys) /\ Len(todo[a]) <= Room(a)
          OBVIOUS
        <4>1. todo[a] \in Seq(Keys) /\ Len(todo[a]) \in 0 .. most
          BY <4>0, <3>1, LenProperties
        <4>2. todo[a] \in [1 .. Len(todo[a]) -> Keys]
          BY <4>1, LenProperties
        <4> QED
          BY <4>1, <4>2 DEF BoundedSeq, SeqOf
      <3> QED
        BY <3>2 DEF most
    <2> QED
      BY <2>1, <2>2 DEF TypeOK, Pcs, TimerMax
  <1> QED
    BY <1>1, Invariance, PTL

\* "Cancelling the one-shot runs its finally, which cancels the stream it
\* opened": of TWS's limited streams none is held by a one-shot that is over,
\* whichever way it ended and whoever started it.
THEOREM NoStreamLeaks == Spec => []NoStrayStream
  <1>1. Inv => NoStrayStream
    BY DEF Inv, Core
  <1> QED
    BY <1>1, Invariance, PTL

-----------------------------------------------------------------------------
(* The heartbeat.                                                          *)

\* Between two heartbeats the loop pauses at most once and then waits for one
\* timer: what has gone by and what its timer still runs fit into that.
BeatBudget ==
    beat + left["loop"] <= IF pc["loop"] = "pacing" THEN Pacing ELSE Pacing + Longest

\* A new list or the next contract starts one timer.
LEMMA RefreshRestTimer ==
  ASSUME Inv, NEW a \in Actors, NEW contracts \in Seq(Keys),
         RefreshRest(a, contracts), a \in Refreshers
  PROVE  /\ left'[a] \in {Timeout, Refresh, 0}
         /\ pc'[a] # "pacing"
  <1>1. CASE Rest(a, Refresh)
    BY <1>1 DEF Rest, Inv, TypeInv
  <1>2. ASSUME NEW rest, Ask(a, rest)
        PROVE  left'[a] = Timeout /\ pc'[a] = "asking"
    BY <1>2, ActorFacts DEF Ask, Inv, TypeInv
  <1> QED
    BY <1>1, <1>2, RefreshRestCases

\* Whoever moves, the heartbeat stays within its budget.
LEMMA BeatMove ==
  ASSUME Inv, BeatBudget, NEW a \in Actors, Over(a) \/ Begins(a)
  PROVE  BeatBudget'
  <1>1. /\ beat \in Nat /\ beat' \in {beat, 0} /\ left["loop"] \in Nat
        /\ Pacing \in Nat /\ Longest \in Nat /\ Timeout \in Nat /\ Refresh \in Nat
        /\ Retry \in Nat /\ Timeout <= Longest /\ Refresh <= Longest
        /\ Retry <= Longest
    BY MoveCounters, TimerFacts, ActorFacts DEF Counters, Inv, TypeInv
  <1>2. CASE a # "loop"
    <2>1. MoveOK(a)
      BY OverMove, BeginsMove
    <2>2. left'["loop"] = left["loop"] /\ pc'["loop"] = pc["loop"]
      BY <1>2, <2>1, ActorFacts DEF MoveOK, MovesOnly
    <2> QED
      BY <1>1, <2>2 DEF BeatBudget
  <1>3. CASE a = "loop" /\ Over(a)
    <2> DEFINE rest == Tail(todo[a])
    <2>1. /\ beat' = 0
          /\ IF Pacing > 0 /\ rest # <<>> THEN Pace(a, rest) ELSE RefreshRest(a, rest)
      BY <1>3 DEF Over, Conclude, Heartbeat, Refreshers, Commands
    <2>2. rest \in Seq(Keys)
      BY <1>3, TailFacts DEF Over
    <2> HIDE DEF rest
    <2>3. CASE Pace(a, rest)
      <3>1. left'["loop"] = Pacing /\ pc'["loop"] = "pacing"
        BY <1>3, <2>3 DEF Pace, Inv, TypeInv
      <3> QED
        BY <1>1, <2>1, <3>1 DEF BeatBudget
    <2>4. CASE RefreshRest(a, rest)
      <3>1. left'["loop"] \in {Timeout, Refresh, 0} /\ pc'["loop"] # "pacing"
        BY <1>3, <2>2, <2>4, RefreshRestTimer, ActorFacts
      <3> QED
        BY <1>1, <2>1, <3>1 DEF BeatBudget
    <2> QED
      BY <2>1, <2>3, <2>4
  <1>4. CASE a = "loop" /\ Paced(a)
    <2>1. /\ pc["loop"] = "pacing" /\ left["loop"] = 0
          /\ RefreshRest("loop", todo["loop"]) /\ beat' = beat
          /\ todo["loop"] \in Seq(Keys)
      BY <1>4, ActorFacts DEF Paced, Inv, TypeInv
    <2>2. left'["loop"] \in {Timeout, Refresh, 0} /\ pc'["loop"] # "pacing"
      BY <2>1, RefreshRestTimer, ActorFacts
    <2> QED
      BY <1>1, <2>1, <2>2 DEF BeatBudget
  <1>5. CASE a = "loop" /\ Cycle
    <2>1. beat' = 0
      BY <1>5 DEF Cycle
    <2>2. CASE Rest("loop", Retry)
      <3>1. left'["loop"] = Retry /\ pc'["loop"] = "asleep"
        BY <2>2, ActorFacts DEF Rest, Inv, TypeInv
      <3> QED
        BY <1>1, <2>1, <3>1 DEF BeatBudget
    <2>3. ASSUME NEW fresh \in SUBSET Keys, RefreshRest("loop", Listing(fresh))
          PROVE  BeatBudget'
      <3>1. left'["loop"] \in {Timeout, Refresh, 0} /\ pc'["loop"] # "pacing"
        BY <2>3, ListingType, RefreshRestTimer, ActorFacts
      <3> QED
        BY <1>1, <2>1, <3>1 DEF BeatBudget
    <2> QED
      BY <1>5, <2>2, <2>3 DEF Cycle
  <1> QED
    BY <1>2, <1>3, <1>4, <1>5 DEF Begins

LEMMA NextBeat == Inv /\ BeatBudget /\ [Next]_vars => BeatBudget'
  <1> SUFFICES ASSUME Inv, BeatBudget, [Next]_vars PROVE BeatBudget'
    OBVIOUS
  <1>1. ASSUME NEW a \in Actors, Over(a) \/ Begins(a) PROVE BeatBudget'
    BY <1>1, BeatMove
  <1>2. ASSUME NEW a \in Actors, Qualified(a) PROVE BeatBudget'
    <2>1. beat' = beat /\ left' = left
      BY <1>2 DEF Qualified
    <2>2. pc'["loop"] = "pacing" <=> pc["loop"] = "pacing"
      BY <1>2, ActorFacts DEF Qualified, Inv, TypeInv
    <2> QED
      BY <2>1, <2>2 DEF BeatBudget
  <1>3. CASE HostConnects \/ HostDrops \/ HostNoticed \/ UNCHANGED vars
    BY <1>3 DEF HostConnects, HostDrops, HostNoticed, vars, BeatBudget
  <1>4. CASE Tick
    <2>1. ~Urgent("loop")
      BY <1>4, ActorFacts DEF Tick
    <2>2. left["loop"] # 0
      BY <2>1, ActorFacts DEF Urgent, Inv, TypeInv, Core, LoopRuns, Pcs
    <2>3. /\ left["loop"] \in 0 .. TimerMax /\ TimerMax \in Nat
          /\ beat \in Int /\ beat' \in Int
      BY <1>4, TickFacts, TimerFacts, ActorFacts, AgeBounds DEF Inv, TypeInv
    <2>4. left'["loop"] = left["loop"] - 1 /\ beat' <= beat + 1
      BY <1>4, <2>2, <2>3, TickFacts, ActorFacts
    <2>5. pc' = pc
      BY <1>4 DEF Tick
    <2> QED
      BY <2>3, <2>4, <2>5, TimerFacts DEF BeatBudget
  <1> QED
    BY <1>1, <1>2, <1>3, <1>4, NextCases

\* "a stale heartbeat means the task is stuck on an await or has died": as
\* long as the alarm's threshold covers a pause and the longest timer, the
\* health check raises no alarm while the loop runs, whatever TWS, the
\* session and the operator do.
THEOREM HeartbeatHonest == Spec => []HeartbeatIsHonest
  <1>1. Init => BeatBudget
    BY TimerFacts, ActorFacts DEF Init, BeatBudget
  <1>2. Inv /\ BeatBudget => HeartbeatIsHonest
    <2> SUFFICES ASSUME Inv, BeatBudget PROVE ~Alarm
      BY DEF HeartbeatIsHonest
    <2>1. left["loop"] \in Nat /\ beat \in Nat
      BY TimerFacts, ActorFacts, AgeBounds DEF Inv, TypeInv
    <2> QED
      BY <2>1, TimerFacts DEF BeatBudget, Alarm
  <1> QED
    BY <1>1, <1>2, NextBeat, Invariance, PTL DEF Spec

-----------------------------------------------------------------------------
(* The cache.                                                              *)

\* The longest n one-shots of a refresher and the pauses between them take.
Span(n) == n * (Timeout + Pacing)

\* What the loop's pass may take after its running timer.
Ahead ==
    Span(Len(todo["loop"]) - 1) + (IF pc["loop"] = "pacing" THEN Timeout ELSE 0)

\* The age of Tracked's entry and what is left until the loop caches it again:
\* once it has been cached, the rest of the pass; the sleep; the contracts of
\* the next pass that come first, and its own one-shot.
AgeBudget ==
    age # NoAge =>
        IF pc["loop"] = "asleep" THEN age + left["loop"] <= Others + Refresh
        ELSE age + left["loop"] + Ahead <=
               IF Contains(todo["loop"], Tracked) THEN MaxAge ELSE Others

\* Span, the longest time n contracts may take, grows with n.
LEMMA SpanFacts ==
  /\ \A n \in Nat : Span(n) \in Nat /\ Timeout + Pacing + Span(n) = Span(n + 1)
  /\ \A m, n \in Nat : m <= n => Span(m) <= Span(n)
  /\ Others = Span(Cap - 1)
  /\ Others \in Nat /\ MaxAge = Others + Refresh + Others + Timeout
  <1> DEFINE d == Timeout + Pacing
  <1>1. d \in Nat /\ Cap - 1 \in Nat
    BY TimerFacts, CapAssumption
  <1>2. \A n \in Nat : Span(n) = n * d
    BY DEF Span
  <1> HIDE DEF d
  <1>3. \A n \in Nat : n * d \in Nat /\ (n + 1) * d = n * d + d
    BY <1>1
  <1>4. ASSUME NEW m \in Nat, NEW n \in Nat, m <= n
        PROVE  m * d <= n * d
    <2>1. n - m \in Nat /\ n = m + (n - m)
      BY <1>4
    <2>2. n * d = m * d + (n - m) * d
      BY <1>1, <2>1
    <2>3. (n - m) * d \in Nat /\ m * d \in Nat
      BY <1>3, <2>1
    <2> QED
      BY <2>2, <2>3
  <1>5. \A n \in Nat : Span(n) \in Nat /\ d + Span(n) = Span(n + 1)
    BY <1>1, <1>2, <1>3
  <1>6. Others = Span(Cap - 1)
    BY DEF Others, Span
  <1> QED
    BY <1>1, <1>2, <1>4, <1>5, <1>6 DEF MaxAge, d

Bound(contracts) == IF Contains(contracts, Tracked) THEN MaxAge ELSE Others

\* What fits into a part of the budget with more to do fits with less to do.
LEMMA FitsIn ==
  ASSUME NEW a \in Nat, NEW t \in Nat, NEW more \in Nat, NEW less \in Nat,
         NEW low \in Nat, NEW high \in Nat,
         a + t + more <= low, less <= more, low <= high
  PROVE  a + t + less <= high
  OBVIOUS

\* The next contracts fit into what is left if they do without those that are
\* skipped.
LEMMA RefreshRestAge ==
  ASSUME Inv, NEW contracts \in Seq(Keys), RefreshRest("loop", contracts),
         age' \in Nat,
         contracts # <<>> =>
            age' + Timeout + Span(Len(contracts) - 1) <= Bound(contracts),
         ~Contains(contracts, Tracked) => age' <= Others
  PROVE  AgeBudget'
  <1>1. /\ Timeout \in Nat /\ Refresh \in Nat /\ Others \in Nat
        /\ MaxAge = Others + Refresh + Others + Timeout
    BY TimerFacts, SpanFacts
  <1>2. CASE /\ \A i \in 1 .. Len(contracts) : contracts[i] \in Bad
             /\ Rest("loop", Refresh)
    <2>1. ~Contains(contracts, Tracked)
      BY <1>2, KeysAssumption DEF Contains
    <2>2. pc'["loop"] = "asleep" /\ left'["loop"] = Refresh
      BY <1>2, ActorFacts DEF Rest, Inv, TypeInv
    <2> QED
      BY <1>1, <2>1, <2>2 DEF AgeBudget
  <1>3. ASSUME NEW rest \in Seq(Keys), rest # <<>>, Len(rest) <= Len(contracts),
               Contains(contracts, Tracked) => Contains(rest, Tracked),
               Ask("loop", rest)
        PROVE  AgeBudget'
    <2>1. /\ pc'["loop"] = "asking" /\ left'["loop"] = Timeout
          /\ todo'["loop"] = rest
      BY <1>3, ActorFacts DEF Ask, Inv, TypeInv
    <2>2. /\ Len(rest) - 1 \in Nat /\ Len(contracts) - 1 \in Nat
          /\ Len(rest) - 1 <= Len(contracts) - 1
          /\ contracts # <<>>
      BY <1>3, EmptySeq, LenProperties
    <2>3. /\ Span(Len(rest) - 1) \in Nat /\ Span(Len(contracts) - 1) \in Nat
          /\ Span(Len(rest) - 1) <= Span(Len(contracts) - 1)
      BY <2>2, SpanFacts
    <2>4. Bound(contracts) <= Bound(rest) /\ Bound(contracts) \in Nat /\ Bound(rest) \in Nat
      BY <1>1, <1>3 DEF Bound
    <2>5. age' + Timeout + Span(Len(rest) - 1) <= Bound(rest)
      <3>1. age' + Timeout + Span(Len(contracts) - 1) <= Bound(contracts)
        BY <2>2
      <3>2. Timeout \in Nat
        BY <1>1
      <3> QED
        BY <2>3, <2>4, <3>1, <3>2, FitsIn
    <2>6. Ahead' = Span(Len(rest) - 1)
      BY <2>1, <2>3 DEF Ahead
    <2> QED
      BY <2>1, <2>5, <2>6 DEF AgeBudget, Bound
  <1> QED
    BY <1>2, <1>3, RefreshRestCases, ActorFacts

\* A one-shot of the loop that ends has kept to its part of the budget.
LEMMA OverAge ==
  ASSUME Inv, AgeBudget, Over("loop")
  PROVE  AgeBudget'
  <1> DEFINE rest == Tail(todo["loop"])
             n == Len(rest)
  <1>1. /\ IF Pacing > 0 /\ rest # <<>> THEN Pace("loop", rest)
           ELSE RefreshRest("loop", rest)
        /\ IF Head(todo["loop"]) = Tracked THEN age' \in {0, NoAge} ELSE age' = age
        /\ pc["loop"] \in {"asking", "polling"}
    BY DEF Over, Conclude, Account, Refreshers, Commands
  <1>2. /\ rest \in Seq(Keys) /\ n \in Nat /\ n <= Cap - 1
        /\ Len(todo["loop"]) - 1 = n
        /\ Contains(todo["loop"], Tracked) <=>
              Head(todo["loop"]) = Tracked \/ Contains(rest, Tracked)
    <2>1. /\ rest \in Seq(Keys) /\ n = Len(todo["loop"]) - 1
          /\ Len(todo["loop"]) \in Nat \ {0}
          /\ Len(todo["loop"]) <= Cap
          /\ Head(todo["loop"]) = todo["loop"][1]
          /\ \A i \in 1 .. n : rest[i] = todo["loop"][i + 1]
      BY <1>1, TailFacts, ActorFacts DEF Inv, TypeInv, Room
    <2> HIDE DEF rest, n
    <2>2. ASSUME Contains(todo["loop"], Tracked), Head(todo["loop"]) # Tracked
          PROVE  Contains(rest, Tracked)
      <3>1. PICK i \in 1 .. Len(todo["loop"]) : todo["loop"][i] = Tracked
        BY <2>2 DEF Contains
      <3>2. i - 1 \in 1 .. n /\ rest[i - 1] = Tracked
        BY <2>1, <2>2, <3>1
      <3> QED
        BY <3>2 DEF Contains, n
    <2>3. ASSUME Contains(rest, Tracked)
          PROVE  Contains(todo["loop"], Tracked)
      <3>1. PICK i \in 1 .. n : rest[i] = Tracked
        BY <2>3 DEF Contains, n
      <3>2. i + 1 \in 1 .. Len(todo["loop"]) /\ todo["loop"][i + 1] = Tracked
        BY <2>1, <3>1
      <3> QED
        BY <3>2 DEF Contains
    <2>4. Head(todo["loop"]) = Tracked => Contains(todo["loop"], Tracked)
      BY <2>1 DEF Contains
    <2> QED
      BY <2>1, <2>2, <2>3, <2>4, CapAssumption
  <1>3. /\ Span(n) \in Nat /\ Span(n) <= Others
        /\ n # 0 => Timeout + Pacing + Span(n - 1) = Span(n) /\ Span(n - 1) \in Nat
    <2> HIDE DEF n
    <2>1. Cap - 1 \in Nat
      BY CapAssumption
    <2>2. n # 0 => n - 1 \in Nat /\ (n - 1) + 1 = n
      BY <1>2
    <2> QED
      BY <1>2, <2>1, <2>2, SpanFacts
  <1>4. /\ Timeout \in Nat /\ Pacing \in Nat /\ Refresh \in Nat /\ Others \in Nat
        /\ MaxAge = Others + Refresh + Others + Timeout
        /\ left["loop"] \in Nat
    BY TimerFacts, SpanFacts, ActorFacts DEF Inv, TypeInv
  <1>5. SUFFICES ASSUME age' # NoAge PROVE AgeBudget'
    BY DEF AgeBudget
  \* Whether Tracked has just been cached or not, the rest fits in.
  <1>6. age' \in Nat /\ age' + Span(n) <= Bound(rest)
    <2>1. CASE Head(todo["loop"]) = Tracked
      BY <1>1, <1>3, <1>4, <1>5, <2>1 DEF Bound
    <2>2. CASE Head(todo["loop"]) # Tracked
      <3>1. age' = age /\ age \in Nat
        BY <1>1, <1>5, <2>2, AgeBounds DEF Inv, TypeInv, NoAge
      <3>2. Ahead = Span(n)
        BY <1>1, <1>2, <1>3 DEF Ahead
      <3>3. age + left["loop"] + Span(n) <= Bound(rest)
        BY <1>1, <1>2, <1>5, <2>2, <3>1, <3>2 DEF AgeBudget, Bound
      <3>4. Bound(rest) \in Nat
        BY <1>4 DEF Bound
      <3> QED
        BY <1>3, <1>4, <3>1, <3>3, <3>4
    <2> QED
      BY <2>1, <2>2
  <1>7. rest # <<>> => n # 0
    BY <1>2, EmptySeq
  <1> HIDE DEF rest, n
  <1>8. CASE Pace("loop", rest) /\ rest # <<>>
    <2>1. /\ pc'["loop"] = "pacing" /\ left'["loop"] = Pacing
          /\ todo'["loop"] = rest
      BY <1>8, ActorFacts DEF Pace, Inv, TypeInv
    <2>2. Ahead' = Span(n - 1) + Timeout
      BY <2>1 DEF Ahead, n
    <2>3. age' + Pacing + (Span(n - 1) + Timeout) <= Bound(rest)
      BY <1>3, <1>4, <1>6, <1>7, <1>8
    <2> QED
      BY <2>1, <2>2, <2>3 DEF AgeBudget, Bound
  <1>9. CASE RefreshRest("loop", rest)
    <2>1. rest # <<>> => age' + Timeout + Span(n - 1) <= Bound(rest)
      <3>1. Bound(rest) \in Nat
        BY <1>4 DEF Bound
      <3> QED
        BY <1>3, <1>4, <1>6, <1>7, <3>1
    <2>2. ~Contains(rest, Tracked) => age' <= Others
      BY <1>3, <1>4, <1>6 DEF Bound
    <2> QED
      BY <1>2, <1>6, <1>9, <2>1, <2>2, RefreshRestAge DEF n
  <1> QED
    BY <1>1, <1>8, <1>9

\* Beginning a cycle leaves the tracked contract time enough.
LEMMA BeginsAge ==
  ASSUME Inv, AgeBudget, Begins("loop")
  PROVE  AgeBudget'
  <1>1. SUFFICES ASSUME age' # NoAge PROVE AgeBudget'
    BY DEF AgeBudget
  <1>2. /\ Timeout \in Nat /\ Refresh \in Nat /\ Others \in Nat
        /\ MaxAge = Others + Refresh + Others + Timeout
    BY TimerFacts, SpanFacts
  <1>3. age \in NoAge .. MaxAge + 1
    BY DEF Inv, TypeInv
  <1>4. CASE Paced("loop")
    <2> DEFINE contracts == todo["loop"]
    <2>1. /\ pc["loop"] = "pacing" /\ left["loop"] = 0 /\ age' = age
          /\ RefreshRest("loop", contracts)
          /\ contracts \in Seq(Keys) /\ contracts # <<>>
      BY <1>4, ActorFacts DEF Paced, Inv, TypeInv, Core, HasContract
    <2>2. age' \in Nat
      BY <1>1, <1>2, <1>3, <2>1 DEF NoAge
    <2>3. Len(contracts) - 1 \in Nat
      BY <2>1, EmptySeq, LenProperties
    <2>4. Span(Len(contracts) - 1) \in Nat
      BY <2>3, SpanFacts
    <2>5. age + 0 + (Span(Len(contracts) - 1) + Timeout) <= Bound(contracts)
      BY <1>1, <2>1 DEF AgeBudget, Ahead, Bound
    <2>6. Bound(contracts) \in Nat
      BY <1>2 DEF Bound
    <2> HIDE DEF contracts
    <2>7. age' + Timeout + Span(Len(contracts) - 1) <= Bound(contracts)
      BY <1>2, <2>1, <2>2, <2>4, <2>5, <2>6
    <2>8. ~Contains(contracts, Tracked) => age' <= Others
      BY <1>2, <2>2, <2>4, <2>7 DEF Bound
    <2> QED
      BY <2>1, <2>2, <2>7, <2>8, RefreshRestAge
  <1>5. CASE Cycle
    <2>1. PICK fresh \in SUBSET Keys :
            /\ RefreshRest("loop", Listing(fresh))
            /\ age' = IF Contains(Listing(fresh), Tracked) THEN age ELSE NoAge
      BY <1>1, <1>5 DEF Cycle
    <2> DEFINE contracts == Listing(fresh)
    <2>2. contracts \in Seq(Keys) /\ Len(contracts) <= Cap
      BY ListingType
    <2> HIDE DEF contracts
    <2>3. Contains(contracts, Tracked) /\ age' = age
      BY <1>1, <2>1 DEF contracts
    <2>4. age' \in Nat /\ age' <= Others + Refresh
      <3>1. age \in Nat
        BY <1>1, <1>2, <1>3, <2>3 DEF NoAge
      <3>2. age + 0 <= Others + Refresh
        BY <1>1, <1>5, <2>3 DEF Cycle, AgeBudget
      <3> QED
        BY <1>2, <2>3, <3>1, <3>2
    <2>5. contracts # <<>> =>
            Span(Len(contracts) - 1) <= Others /\ Span(Len(contracts) - 1) \in Nat
      <3> SUFFICES ASSUME contracts # <<>>
                   PROVE  /\ Span(Len(contracts) - 1) <= Others
                          /\ Span(Len(contracts) - 1) \in Nat
        OBVIOUS
      <3>1. /\ Len(contracts) - 1 \in Nat /\ Cap - 1 \in Nat
            /\ Len(contracts) - 1 <= Cap - 1
        BY <2>2, EmptySeq, LenProperties, CapAssumption
      <3> QED
        BY <3>1, SpanFacts
    <2>6. contracts # <<>> =>
            age' + Timeout + Span(Len(contracts) - 1) <= Bound(contracts)
      BY <1>2, <2>3, <2>4, <2>5 DEF Bound
    <2> QED
      BY <2>1, <2>2, <2>3, <2>4, <2>6, RefreshRestAge DEF contracts
  <1> QED
    BY <1>4, <1>5 DEF Begins

\* What is still ahead of the tracked contract is a number of ticks.
LEMMA AheadType ==
  ASSUME Inv, pc["loop"] # "asleep"
  PROVE  Ahead \in Nat
  <1>1. todo["loop"] # <<>> /\ todo["loop"] \in Seq(Keys)
    BY ActorFacts DEF Inv, TypeInv, Core, HasContract, LoopRuns, Pcs
  <1>2. Len(todo["loop"]) - 1 \in Nat
    BY <1>1, EmptySeq, LenProperties
  <1>3. Span(Len(todo["loop"]) - 1) \in Nat
    BY <1>2, SpanFacts
  <1> QED
    BY <1>3, TimerFacts DEF Ahead

\* The operator's refresh may cache Tracked too, which only helps.
LEMMA OthersAge ==
  ASSUME Inv, AgeBudget, NEW a \in Actors \ {"loop"}, Over(a) \/ Begins(a)
  PROVE  AgeBudget'
  <1>1. MoveOK(a)
    BY OverMove, BeginsMove
  <1>2. /\ left'["loop"] = left["loop"] /\ pc'["loop"] = pc["loop"]
        /\ todo'["loop"] = todo["loop"]
    BY <1>1, ActorFacts DEF MoveOK, MovesOnly
  <1>3. age' = age \/ (age # NoAge /\ age' = 0)
    BY DEF Over, Begins, Conclude, Account, Paced, RefreshCommand,
           SnapshotCommand, PriceCommand
  <1>4. Ahead' = Ahead
    BY <1>2 DEF Ahead
  <1>5. CASE age' = age
    BY <1>2, <1>4, <1>5 DEF AgeBudget
  <1>6. CASE age # NoAge /\ age' = 0
    <2>1. age \in Nat /\ left["loop"] \in Nat /\ Others \in Nat /\ MaxAge \in Nat
          /\ Refresh \in Nat
      BY <1>6, AgeBounds, SpanFacts, TimerFacts, ActorFacts
      DEF Inv, TypeInv, NoAge
    <2>2. pc["loop"] # "asleep" => Ahead \in Nat
      BY AheadType
    <2> QED
      BY <1>2, <1>4, <1>6, <2>1, <2>2 DEF AgeBudget
  <1> QED
    BY <1>3, <1>5, <1>6

LEMMA NextAge == Inv /\ AgeBudget /\ [Next]_vars => AgeBudget'
  <1> SUFFICES ASSUME Inv, AgeBudget, [Next]_vars PROVE AgeBudget'
    OBVIOUS
  <1>1. ASSUME NEW a \in Actors, Over(a) \/ Begins(a) PROVE AgeBudget'
    BY <1>1, OverAge, BeginsAge, OthersAge
  <1>2. ASSUME NEW a \in Actors, Qualified(a) PROVE AgeBudget'
    <2>1. age' = age /\ left' = left /\ todo' = todo
      BY <1>2 DEF Qualified
    <2>2. /\ pc'["loop"] = "pacing" <=> pc["loop"] = "pacing"
          /\ pc'["loop"] = "asleep" <=> pc["loop"] = "asleep"
      BY <1>2, ActorFacts DEF Qualified, Inv, TypeInv
    <2>3. Ahead' = Ahead
      BY <2>1, <2>2 DEF Ahead
    <2> QED
      BY <2>1, <2>2, <2>3 DEF AgeBudget
  <1>3. CASE HostConnects \/ HostDrops \/ HostNoticed \/ UNCHANGED vars
    BY <1>3 DEF HostConnects, HostDrops, HostNoticed, vars, AgeBudget, Ahead
  <1>4. CASE Tick
    <2>1. left["loop"] # 0 /\ left["loop"] \in Nat
      <3>1. ~Urgent("loop")
        BY <1>4, ActorFacts DEF Tick
      <3> QED
        BY <3>1, ActorFacts, TimerFacts
        DEF Urgent, Inv, TypeInv, Core, LoopRuns, Pcs
    <2>2. left'["loop"] = left["loop"] - 1 /\ pc' = pc /\ todo' = todo
      BY <1>4, <2>1, TickFacts, ActorFacts DEF Tick
    <2>3. Ahead' = Ahead
      BY <2>2 DEF Ahead
    <2>4. CASE age = NoAge
      BY <1>4, <2>4, TickFacts DEF AgeBudget
    <2>5. CASE age # NoAge
      <3>1. age' <= age + 1 /\ age' \in Nat /\ age \in Nat
        BY <1>4, <2>5, TickFacts, AgeBounds DEF Inv, TypeInv, NoAge
      <3>2. age' + left'["loop"] <= age + left["loop"]
        BY <2>1, <2>2, <3>1
      <3>3. age' + left'["loop"] \in Nat /\ age + left["loop"] \in Nat
        BY <2>1, <2>2, <3>1
      <3>4. Others \in Nat /\ MaxAge \in Nat /\ Refresh \in Nat
        BY SpanFacts, AgeBounds, TimerFacts
      <3>5. pc["loop"] # "asleep" => Ahead \in Nat
        BY AheadType
      <3> QED
        BY <2>2, <2>3, <2>5, <3>2, <3>3, <3>4, <3>5 DEF AgeBudget
    <2> QED
      BY <2>4, <2>5
  <1> QED
    BY <1>1, <1>2, <1>3, <1>4, NextCases

\* One contract that hangs does not spoil the others: as long as the loop is
\* bound to cache a contract, its entry gets no older than two passes in which
\* all others run into their timeout, the sleep between them and its own
\* one-shot, however long the list and whatever else goes on.
THEOREM CacheIsFresh == Spec => []CacheKeepsUp
  <1>1. Init => AgeBudget
    BY DEF Init, AgeBudget
  <1>2. Inv /\ AgeBudget => CacheKeepsUp
    <2> SUFFICES ASSUME Inv, AgeBudget PROVE age <= MaxAge
      BY DEF CacheKeepsUp
    <2>1. /\ left["loop"] \in Nat /\ age \in Int /\ Timeout \in Nat /\ Refresh \in Nat
          /\ Others \in Nat /\ MaxAge = Others + Refresh + Others + Timeout
      BY TimerFacts, SpanFacts, ActorFacts, AgeBounds DEF Inv, TypeInv
    <2>2. CASE age = NoAge
      BY <2>1, <2>2 DEF NoAge
    <2>3. CASE age # NoAge /\ pc["loop"] = "asleep"
      BY <2>1, <2>3 DEF AgeBudget
    <2>4. CASE age # NoAge /\ pc["loop"] # "asleep"
      <3>1. Ahead \in Nat
        BY <2>4, AheadType
      <3> QED
        BY <2>1, <2>4, <3>1 DEF AgeBudget
    <2> QED
      BY <2>2, <2>3, <2>4
  <1> QED
    BY <1>1, <1>2, NextAge, Invariance, PTL DEF Spec

-----------------------------------------------------------------------------
(* The length of a refresh.                                                *)

\* What a refresh under way has left is a number of ticks.
LEMMA RemainingIs ==
  ASSUME Inv, NEW a \in Refreshers, Refreshing(a)
  PROVE  /\ todo[a] \in Seq(Keys) /\ todo[a] # <<>>
         /\ Len(todo[a]) - 1 \in Nat /\ Span(Len(todo[a]) - 1) \in Nat
         /\ left[a] \in Nat
         /\ Remaining(a) = left[a] + Span(Len(todo[a]) - 1)
                             + (IF pc[a] = "pacing" THEN Timeout ELSE 0)
  <1>1. todo[a] \in Seq(Keys) /\ todo[a] # <<>>
    BY ActorFacts DEF Refreshing, Inv, TypeInv, Core, HasContract
  <1>2. Len(todo[a]) - 1 \in Nat
    BY <1>1, EmptySeq, LenProperties
  <1>3. Span(Len(todo[a]) - 1) \in Nat
    BY <1>2, SpanFacts
  <1>4. left[a] \in Nat
    BY ActorFacts, TimerFacts DEF Inv, TypeInv
  <1> QED
    BY <1>1, <1>2, <1>3, <1>4 DEF Remaining, Span

\* The rest of a list takes its timeouts and the pauses between them, or less
\* if contracts are skipped.
LEMMA RefreshRestRemaining ==
  ASSUME Inv, NEW a \in Refreshers, NEW contracts \in Seq(Keys),
         RefreshRest(a, contracts)
  PROVE  /\ Remaining(a)' \in Nat
         /\ Remaining(a)' <= IF contracts = <<>> THEN 0
                              ELSE Timeout + Span(Len(contracts) - 1)
  <1>0. Timeout \in Nat
    BY TimerFacts
  <1>1. contracts # <<>> =>
          Len(contracts) - 1 \in Nat /\ Span(Len(contracts) - 1) \in Nat
    <2> SUFFICES ASSUME contracts # <<>>
                 PROVE  Len(contracts) - 1 \in Nat /\ Span(Len(contracts) - 1) \in Nat
      OBVIOUS
    <2>1. Len(contracts) - 1 \in Nat
      BY EmptySeq, LenProperties
    <2> QED
      BY <2>1, SpanFacts
  <1>2. CASE Rest(a, Refresh)
    <2>1. pc'[a] \in {"asleep", "idle"}
      BY <1>2, ActorFacts DEF Rest, Inv, TypeInv
    <2>2. Remaining(a)' = 0
      BY <2>1 DEF Remaining, Refreshing
    <2> QED
      BY <1>0, <1>1, <2>2
  <1>3. ASSUME NEW rest \in Seq(Keys), rest # <<>>, Len(rest) <= Len(contracts),
               Ask(a, rest)
        PROVE  /\ Remaining(a)' \in Nat /\ contracts # <<>>
               /\ Remaining(a)' <= Timeout + Span(Len(contracts) - 1)
    <2>1. /\ pc'[a] = "asking" /\ left'[a] = Timeout /\ todo'[a] = rest
      BY <1>3, ActorFacts DEF Ask, Inv, TypeInv
    <2>2. Len(rest) - 1 \in Nat /\ Len(rest) - 1 <= Len(contracts) - 1 /\ contracts # <<>>
      BY <1>3, EmptySeq, LenProperties
    <2>3. Span(Len(rest) - 1) <= Span(Len(contracts) - 1) /\ Span(Len(rest) - 1) \in Nat
      BY <1>1, <2>2, SpanFacts
    <2>4. Remaining(a)' = Timeout + Span(Len(rest) - 1) + 0
      BY <2>1 DEF Remaining, Refreshing, Span
    <2> QED
      BY <1>0, <1>1, <2>2, <2>3, <2>4
  <1> QED
    BY <1>2, <1>3, RefreshRestCases, ActorFacts

\* A one-shot that ends takes its timer with it.
LEMMA OverRemaining ==
  ASSUME Inv, NEW a \in Refreshers, Over(a)
  PROVE  Remaining(a)' \in Nat /\ Remaining(a)' <= Remaining(a)
  <1> DEFINE rest == Tail(todo[a])
             n == Len(rest)
  <1>1. /\ IF Pacing > 0 /\ rest # <<>> THEN Pace(a, rest) ELSE RefreshRest(a, rest)
        /\ pc[a] \in {"asking", "polling"}
    BY DEF Over, Conclude, Refreshers
  <1>2. rest \in Seq(Keys) /\ n = Len(todo[a]) - 1 /\ n \in Nat
    BY <1>1, ActorFacts, TailFacts
  <1>3. left[a] \in Nat /\ Span(n) \in Nat /\ Remaining(a) = left[a] + Span(n) + 0
    BY <1>1, <1>2, RemainingIs DEF Refreshing
  <1>4. Timeout \in Nat /\ Pacing \in Nat
    BY TimerFacts
  <1>5. rest # <<>> =>
          n - 1 \in Nat /\ Span(n - 1) \in Nat /\ Timeout + Pacing + Span(n - 1) = Span(n)
    <2> SUFFICES ASSUME rest # <<>>
                 PROVE  /\ n - 1 \in Nat /\ Span(n - 1) \in Nat
                        /\ Timeout + Pacing + Span(n - 1) = Span(n)
      OBVIOUS
    <2>1. n - 1 \in Nat /\ (n - 1) + 1 = n
      BY <1>2, EmptySeq, LenProperties
    <2> HIDE DEF n
    <2> QED
      BY <2>1, SpanFacts
  <1> HIDE DEF rest, n
  <1>6. CASE Pace(a, rest) /\ rest # <<>>
    <2>1. pc'[a] = "pacing" /\ left'[a] = Pacing /\ todo'[a] = rest
      BY <1>6, ActorFacts DEF Pace, Inv, TypeInv
    <2>2. Remaining(a)' = Pacing + Span(n - 1) + Timeout
      BY <2>1 DEF Remaining, Refreshing, Span, n
    <2> QED
      BY <1>3, <1>4, <1>5, <1>6, <2>2
  <1>7. CASE RefreshRest(a, rest)
    <2>1. /\ Remaining(a)' \in Nat
          /\ Remaining(a)' <= IF rest = <<>> THEN 0 ELSE Timeout + Span(n - 1)
      BY <1>2, <1>7, RefreshRestRemaining DEF n
    <2> QED
      BY <1>3, <1>4, <1>5, <2>1
  <1> QED
    BY <1>1, <1>6, <1>7

\* A refresh that goes on after a pause gains nothing; one that begins has
\* the time of a full list at most.
LEMMA BeginsRemaining ==
  ASSUME Inv, NEW a \in Refreshers, Begins(a)
  PROVE  /\ Remaining(a)' \in Nat
         /\ Remaining(a)' <= IF Refreshing(a) THEN Remaining(a) ELSE Others + Timeout
  <1>0. Timeout \in Nat /\ Others \in Nat
    BY TimerFacts, SpanFacts
  <1>1. CASE Paced(a)
    <2>1. Refreshing(a) /\ left[a] = 0 /\ pc[a] = "pacing" /\ RefreshRest(a, todo[a])
      BY <1>1 DEF Paced, Refreshing
    <2>2. /\ todo[a] \in Seq(Keys) /\ todo[a] # <<>> /\ Span(Len(todo[a]) - 1) \in Nat
          /\ Remaining(a) = 0 + Span(Len(todo[a]) - 1) + Timeout
      BY <2>1, RemainingIs
    <2>3. Remaining(a)' \in Nat /\ Remaining(a)' <= Timeout + Span(Len(todo[a]) - 1)
      BY <2>1, <2>2, RefreshRestRemaining
    <2> QED
      BY <1>0, <2>1, <2>2, <2>3
  <1>2. ASSUME NEW fresh \in SUBSET Keys, RefreshRest(a, Listing(fresh)), ~Refreshing(a)
        PROVE  Remaining(a)' \in Nat /\ Remaining(a)' <= Others + Timeout
    <2> DEFINE contracts == Listing(fresh)
    <2>1. contracts \in Seq(Keys) /\ Len(contracts) <= Cap
      BY ListingType
    <2>2. /\ Remaining(a)' \in Nat
          /\ Remaining(a)' <= IF contracts = <<>> THEN 0
                              ELSE Timeout + Span(Len(contracts) - 1)
      BY <1>2, <2>1, RefreshRestRemaining
    <2> HIDE DEF contracts
    <2>3. contracts # <<>> =>
            Span(Len(contracts) - 1) \in Nat /\ Span(Len(contracts) - 1) <= Others
      <3> SUFFICES ASSUME contracts # <<>>
                   PROVE  /\ Span(Len(contracts) - 1) \in Nat
                          /\ Span(Len(contracts) - 1) <= Others
        OBVIOUS
      <3>1. /\ Len(contracts) - 1 \in Nat /\ Cap - 1 \in Nat
            /\ Len(contracts) - 1 <= Cap - 1
        BY <2>1, EmptySeq, LenProperties, CapAssumption
      <3> QED
        BY <3>1, SpanFacts
    <2> QED
      BY <1>0, <2>2, <2>3
  <1>3. CASE a = "loop" /\ Cycle
    <2>1. pc["loop"] = "asleep" /\ ~Refreshing(a)
      BY <1>3 DEF Cycle, Refreshing
    <2>2. CASE Rest("loop", Retry)
      <3>1. pc'[a] = "asleep"
        BY <1>3, <2>2, ActorFacts DEF Rest, Inv, TypeInv
      <3>2. Remaining(a)' = 0
        BY <3>1 DEF Remaining, Refreshing
      <3> QED
        BY <1>0, <2>1, <3>2
    <2>3. CASE \E fresh \in SUBSET Keys : RefreshRest("loop", Listing(fresh))
      BY <1>2, <1>3, <2>1, <2>3
    <2> QED
      BY <1>3, <2>2, <2>3 DEF Cycle
  <1>4. CASE a = "refresh" /\ RefreshCommand
    <2>1. ~Refreshing(a)
      BY <1>4 DEF RefreshCommand, OperatorFree, Commands, Refreshing
    <2> QED
      BY <1>2, <1>4, <2>1 DEF RefreshCommand
  <1> QED
    BY <1>1, <1>3, <1>4 DEF Begins, Refreshers

\* The clock does not stand still for a refresh: its timer runs.
LEMMA TickRemaining ==
  ASSUME Inv, Tick, NEW a \in Refreshers
  PROVE  Remaining(a)' = IF Refreshing(a) THEN Remaining(a) - 1 ELSE 0
  <1>1. pc' = pc /\ todo' = todo
    BY DEF Tick
  <1>2. CASE ~Refreshing(a)
    BY <1>1, <1>2 DEF Remaining, Refreshing
  <1>3. CASE Refreshing(a)
    <2>1. left[a] \in Nat /\ left[a] # 0
      <3>1. ~Urgent(a)
        BY ActorFacts DEF Tick
      <3> QED
        BY <1>3, <3>1, ActorFacts, RemainingIs DEF Urgent, Refreshing
    <2>2. left'[a] = left[a] - 1
      BY <2>1, TickFacts, ActorFacts
    <2>3. Remaining(a) = left[a] + Span(Len(todo[a]) - 1)
                           + (IF pc[a] = "pacing" THEN Timeout ELSE 0)
      BY <1>3, RemainingIs
    <2>4. Remaining(a)' = left[a] - 1 + Span(Len(todo[a]) - 1)
                            + (IF pc[a] = "pacing" THEN Timeout ELSE 0)
      BY <1>1, <1>3, <2>2 DEF Remaining, Refreshing, Span
    <2>5. Span(Len(todo[a]) - 1) \in Nat /\ Timeout \in Nat
      BY <1>3, RemainingIs, TimerFacts
    <2> QED
      BY <1>3, <2>1, <2>3, <2>4, <2>5
  <1> QED
    BY <1>2, <1>3

\* No step gives a refresh under way more time, whoever takes it.
LEMMA NextRemaining ==
  ASSUME Inv, [Next]_vars, NEW a \in Refreshers
  PROVE  /\ Remaining(a) \in Int /\ Remaining(a)' \in Int
         /\ Refreshing(a) => Remaining(a)' <= Remaining(a) - (IF Tick THEN 1 ELSE 0)
         /\ ~Refreshing(a) => Remaining(a)' <= Others + Timeout
  <1>0. Timeout \in Nat /\ Others \in Nat
    BY TimerFacts, SpanFacts
  <1>1. Remaining(a) \in Nat /\ (~Refreshing(a) => Remaining(a) = 0)
    BY <1>0, RemainingIs DEF Remaining
  <1>2. CASE Tick
    BY <1>0, <1>1, <1>2, TickRemaining
  <1>3. SUFFICES ASSUME ~Tick
                 PROVE  /\ Remaining(a)' \in Int
                        /\ Refreshing(a) => Remaining(a)' <= Remaining(a)
                        /\ ~Refreshing(a) => Remaining(a)' <= Others + Timeout
    BY <1>1, <1>2
  <1>4. CASE Over(a)
    BY <1>4, OverRemaining DEF Over, Refreshing
  <1>5. CASE Begins(a)
    BY <1>5, BeginsRemaining
  <1>6. ASSUME Remaining(a)' = Remaining(a)
        PROVE  /\ Remaining(a)' \in Int
               /\ Refreshing(a) => Remaining(a)' <= Remaining(a)
               /\ ~Refreshing(a) => Remaining(a)' <= Others + Timeout
    BY <1>0, <1>1, <1>6
  <1>7. CASE Qualified(a)
    <2>1. /\ left' = left /\ todo' = todo /\ pc[a] = "asking" /\ pc'[a] = "polling"
      BY <1>7, ActorFacts DEF Qualified, Inv, TypeInv
    <2>2. Remaining(a)' = Remaining(a)
      BY <2>1 DEF Remaining, Refreshing
    <2> QED
      BY <1>6, <2>2
  <1>8. ASSUME NEW b \in Actors, b # a, Over(b) \/ Begins(b) \/ Qualified(b)
        PROVE  Remaining(a)' = Remaining(a)
    <2>1. pc'[a] = pc[a] /\ todo'[a] = todo[a] /\ left'[a] = left[a]
      <3>1. CASE Over(b) \/ Begins(b)
        BY <1>8, <3>1, OverMove, BeginsMove, ActorFacts DEF MoveOK, MovesOnly
      <3>2. CASE Qualified(b)
        BY <1>8, <3>2, ActorFacts DEF Qualified, Inv, TypeInv
      <3> QED
        BY <1>8, <3>1, <3>2
    <2> QED
      BY <2>1 DEF Remaining, Refreshing
  <1>9. CASE HostConnects \/ HostDrops \/ HostNoticed \/ UNCHANGED vars
    <2>1. Remaining(a)' = Remaining(a)
      BY <1>9
      DEF HostConnects, HostDrops, HostNoticed, vars, Remaining, Refreshing
    <2> QED
      BY <1>6, <2>1
  <1> QED
    BY <1>3, <1>4, <1>5, <1>6, <1>7, <1>8, <1>9, NextCases

\* A refresh, by the loop or on command, lasts no longer than the timeouts and
\* pauses of a full list: it never has more time left than these take, no
\* step gives it more, and every tick takes one away - whether TWS answers,
\* the session breaks, keys do not parse or a second refresh goes on.
THEOREM RefreshesAreTimeBoxed == Spec => RefreshIsTimeBoxed
  <1> DEFINE Bounded == \A a \in Refreshers : Remaining(a) <= Others + Timeout
  <1>1. Init => Bounded
    <2> SUFFICES ASSUME Init, NEW a \in Refreshers PROVE Remaining(a) <= Others + Timeout
      OBVIOUS
    <2>1. ~Refreshing(a)
      BY ActorFacts DEF Init, Refreshing
    <2> QED
      BY <2>1, TimerFacts, SpanFacts DEF Remaining
  <1>2. ASSUME Inv, Bounded, [Next]_vars, NEW a \in Refreshers
        PROVE  /\ Remaining(a)' <= Others + Timeout
               /\ Refreshing(a) => Remaining(a)' <= Remaining(a) - (IF Tick THEN 1 ELSE 0)
    <2>1. Remaining(a) <= Others + Timeout
      BY <1>2
    <2>2. Others \in Nat /\ Timeout \in Nat
      BY TimerFacts, SpanFacts
    <2> HIDE DEF Bounded
    <2>3. /\ Remaining(a) \in Int /\ Remaining(a)' \in Int
          /\ Refreshing(a) => Remaining(a)' <= Remaining(a) - (IF Tick THEN 1 ELSE 0)
          /\ ~Refreshing(a) => Remaining(a)' <= Others + Timeout
      BY <1>2, NextRemaining
    <2> QED
      BY <2>1, <2>2, <2>3
  <1>3. Inv /\ Bounded /\ [Next]_vars => Bounded'
    BY <1>2, ActorFacts DEF Refreshers
  <1>4. Inv /\ Bounded /\ [Next]_vars =>
          [\A a \in Refreshers :
             /\ Remaining(a)' <= Others + Timeout
             /\ Refreshing(a) => Remaining(a)' <= Remaining(a) - (IF Tick THEN 1 ELSE 0)]_vars
    BY <1>2
  <1> HIDE DEF Bounded
  <1> QED
    BY <1>1, <1>3, <1>4, Invariance, PTL DEF Spec, RefreshIsTimeBoxed
=============================================================================
