------------------------------- MODULE OnDemand -------------------------------
(***************************************************************************)
(* on_demand.py, and on_demand_opt.py, which does the same for options: a  *)
(* registry that market-API clients share with the gateway through Redis,  *)
(* a set of keys and a hash of their heartbeats.  The gateway lists it     *)
(* with up to four Redis commands, between which clients go on; the fresh  *)
(* keys then share the streams that the watchlist leaves over.  Heartbeats *)
(* are aged by a clock that is read once, before the first command: time   *)
(* stands still during a listing.                                          *)
(***************************************************************************)
EXTENDS Integers, SequencesExt, FiniteSetsExt

CONSTANTS
    Keys,           \* what clients register, in alphabetical order
    Watchlists,     \* values of settings.watchlist_symbols
    Caps,           \* values of settings.max_stream_stk
    MaxAge,         \* on_demand_max_age_sec
    MaxAdds         \* bound on the registrations

ASSUME KeysAssumption == Keys \subseteq Nat
ASSUME AgeAssumption == MaxAge \in Nat
ASSUME AddsAssumption == MaxAdds \in Nat
ASSUME SettingsAssumption == Watchlists \subseteq Seq(Nat) /\ Caps \subseteq Int

VARIABLES
    members,    \* Redis: the set
    beat,       \* Redis: the age of each heartbeat in the hash, or NoBeat
    half,       \* keys a client has added, their heartbeat still to come
    adds,       \* registrations so far, at most MaxAdds
    pc,         \* the next command of a listing: "idle" for SMEMBERS, "hgetall", "srem", "hdel"
    seen,       \* members
    stale,      \* what is to be pruned
    fresh,      \* the result of the listing
    promised,   \* keys registered and fresh when the listing began (history)
    unread,     \* did HGETALL fail in this listing? (history)
    watch, cap  \* settings

redisVars == <<members, beat>>
clientVars == <<half, adds>>
listVars == <<pc, seen, stale, fresh, promised, unread>>
settings == <<watch, cap>>
vars == <<redisVars, clientVars, listVars, settings>>

NoBeat == -1
Expired == MaxAge + 1

TypeOK ==
    /\ members \subseteq Keys
    /\ beat \in [Keys -> NoBeat .. Expired]
    /\ half \subseteq Keys
    /\ adds \in 0 .. MaxAdds
    /\ pc \in {"idle", "hgetall", "srem", "hdel"}
    /\ seen \subseteq Keys
    /\ stale \subseteq seen
    /\ fresh \subseteq Keys
    /\ promised \subseteq Keys
    /\ unread \in BOOLEAN
    /\ watch \in Watchlists
    /\ cap \in Caps

Init ==
    /\ members = {}
    /\ beat = [k \in Keys |-> NoBeat]
    /\ half = {}
    /\ adds = 0
    /\ pc = "idle"
    /\ seen = {}
    /\ stale = {}
    /\ fresh = {}
    /\ promised = {}
    /\ unread = FALSE
    /\ watch \in Watchlists
    /\ cap \in Caps

-----------------------------------------------------------------------------
(* The clients.                                                            *)

Register(k) ==
    /\ adds < MaxAdds
    /\ adds' = adds + 1
    /\ members' = members \union {k}

\* SADD by a market API (external); HSET follows, or the client is gone.
Add(k) ==
    /\ Register(k)
    /\ half' = half \union {k}
    /\ UNCHANGED <<beat, listVars, settings>>

Heartbeat(k) ==
    /\ k \in half
    /\ half' = half \ {k}
    /\ beat' = [beat EXCEPT ![k] = 0]
    /\ UNCHANGED <<members, adds, listVars, settings>>

ClientGone(k) ==
    /\ k \in half
    /\ half' = half \ {k}
    /\ UNCHANGED <<redisVars, adds, listVars, settings>>

\* _register_on_demand_opt: the gateway itself, never within a listing.
RegisterOwn(k) ==
    /\ pc = "idle"
    /\ Register(k)
    /\ beat' = [beat EXCEPT ![k] = 0]
    /\ UNCHANGED <<half, listVars, settings>>

-----------------------------------------------------------------------------
(* A listing.                                                              *)

\* Mutants of IsFresh: the age limit is excluded; no heartbeat is no reason.
IsFreshStrictly(k) == beat[k] \in 0 .. MaxAge - 1
IsFreshUntilExpired(k) == beat[k] <= MaxAge

IsFresh(k) == beat[k] \in 0 .. MaxAge

\* Mutant of Done: what was to be pruned is left for the next listing.
DoneKeepsStale ==
    /\ pc' = "idle"
    /\ seen' = {}
    /\ UNCHANGED stale

\* The listing is over.
Done ==
    /\ pc' = "idle"
    /\ seen' = {}
    /\ stale' = {}

\* What was read is judged; the stale keys, if any, are to be pruned.
Judge(freshNow) ==
    /\ fresh' = freshNow
    /\ IF seen = freshNow THEN Done
       ELSE pc' = "srem" /\ stale' = seen \ freshNow /\ UNCHANGED seen

ReadSet ==
    /\ pc = "idle"
    /\ unread' = FALSE
    /\ promised' = {k \in members : beat[k] \in 0 .. MaxAge}
    /\ \/ members = {} /\ fresh' = {} /\ UNCHANGED <<pc, seen>>
       \/ members # {} /\ seen' = members /\ pc' = "hgetall" /\ UNCHANGED fresh
    /\ UNCHANGED <<redisVars, clientVars, stale, settings>>

\* SMEMBERS fails: nothing is on demand.
ReadSetFails ==
    /\ pc = "idle"
    /\ fresh' = {}
    /\ UNCHANGED <<redisVars, clientVars, pc, seen, stale, promised, unread, settings>>

ReadHash ==
    /\ pc = "hgetall"
    /\ Judge({k \in seen : IsFresh(k)})
    /\ UNCHANGED <<redisVars, clientVars, promised, unread, settings>>

\* HGETALL fails: no heartbeat is known, everything is stale.
ReadHashFails ==
    /\ pc = "hgetall"
    /\ Judge({})
    /\ unread' = TRUE
    /\ UNCHANGED <<redisVars, clientVars, promised, settings>>

PruneSet ==
    /\ pc = "srem"
    /\ members' = members \ stale
    /\ pc' = "hdel"
    /\ UNCHANGED <<beat, clientVars, seen, stale, fresh, promised, unread, settings>>

PruneHash ==
    /\ pc = "hdel"
    /\ beat' = [k \in Keys |-> IF k \in stale THEN NoBeat ELSE beat[k]]
    /\ Done
    /\ UNCHANGED <<members, clientVars, fresh, promised, unread, settings>>

\* SREM or HDEL fails; HDEL is not tried after SREM.
PruneFails ==
    /\ pc \in {"srem", "hdel"}
    /\ Done
    /\ UNCHANGED <<redisVars, clientVars, fresh, promised, unread, settings>>

Listing == ReadSet \/ ReadHash \/ PruneSet \/ PruneHash

Tick ==
    /\ pc = "idle"
    /\ \E k \in Keys : beat[k] \in 0 .. MaxAge
    /\ beat' = [k \in Keys |-> IF beat[k] \in 0 .. MaxAge THEN beat[k] + 1 ELSE beat[k]]
    /\ UNCHANGED <<members, clientVars, listVars, settings>>

-----------------------------------------------------------------------------
(* build_desired_stk_symbols.  (With no watchlist it is also the           *)
(* truncation of _refresh_opt_cache_once.)                                 *)

Include(list, k) == IF Contains(list, k) THEN list ELSE Append(list, k)

\* Mutant of Offer: the cap is checked before the key is known to be new.
OfferBlindly(acc, k) ==
    IF acc.truncated \/ Len(acc.list) >= acc.cap THEN [acc EXCEPT !.truncated = TRUE]
    ELSE [acc EXCEPT !.list = Include(@, k)]

\* One more key on demand; the first new one over the cap ends the loop.
Offer(acc, k) ==
    IF acc.truncated \/ Contains(acc.list, k) THEN acc
    ELSE IF Len(acc.list) >= acc.cap THEN [acc EXCEPT !.truncated = TRUE]
    ELSE [acc EXCEPT !.list = Append(@, k)]

BuildDesired(watchlist, onDemand, maxStream) ==
    FoldLeft(Offer,
             [list |-> FoldLeft(Include, <<>>, watchlist), truncated |-> FALSE,
              cap |-> IF maxStream < 1 THEN 1 ELSE maxStream],
             onDemand)

\* list_fresh_on_demand's result is sorted.
Sorted(keys) == CHOOSE s \in SetToSeqs(keys) : IsSorted(s, <)

Desired == BuildDesired(watch, Sorted(fresh), cap)

-----------------------------------------------------------------------------
Next ==
    \/ \E k \in Keys : Add(k) \/ Heartbeat(k) \/ ClientGone(k) \/ RegisterOwn(k)
    \/ Listing
    \/ ReadSetFails
    \/ ReadHashFails
    \/ PruneFails
    \/ Tick

Spec == Init /\ [][Next]_vars

\* The registry is listed again and again, time goes on, and Redis does not
\* fail every time.
Fairness ==
    /\ WF_vars(Listing)
    /\ SF_vars(ReadSet /\ members # {})
    /\ SF_vars(PruneSet)
    /\ SF_vars(Tick)

FairSpec == Spec /\ Fairness

-----------------------------------------------------------------------------
(* Properties.                                                             *)

\* "Stale heartbeats (>120s) are pruned", fresh ones are not: a key that was
\* registered and fresh when list_fresh began is in its result and still in
\* the registry at its end, whatever clients did meanwhile and whichever
\* command failed - unless that was HGETALL, which makes every key stale.
FreshAreKept ==
    [][pc # "idle" /\ pc' = "idle" =>
         unread \/ promised \subseteq fresh' \intersect members']_vars

\* And no other key is in it: what a listing returns is registered and has a
\* heartbeat that counts when it returns, three commands after the SMEMBERS it
\* began with; its own prune takes none of it away.
ListedAreAlive ==
    [][pc # "idle" /\ pc' = "idle" =>
         \A k \in fresh' : k \in members' /\ beat'[k] \in 0 .. MaxAge]_vars

\* "prune expired SET/HASH members": once clients are gone for good, nothing
\* stays registered, however their last calls fell between list_fresh's.
ExpiredGo == <>[](members = {})

\* build_desired_stk_symbols against its meaning: "watchlist preferred" - the
\* whole of it is streamed, even where it alone exceeds the cap (see CapIsHard);
\* what the cap leaves over goes to the first of the other fresh keys, and
\* truncated tells exactly whether one of those was left out.
DesiredIsRight ==
    LET watched == ToSet(watch)
        others == fresh \ watched
        list == Desired.list
        chosen == ToSet(list) \ watched
        room == Max({0, Max({1, cap}) - Cardinality(watched)})
    IN  /\ watched \subseteq ToSet(list)
        /\ IsInjective(list)
        /\ chosen \subseteq others
        /\ Cardinality(chosen) = Min({room, Cardinality(others)})
        /\ \A a \in chosen, b \in others \ chosen : a < b
        /\ Desired.truncated <=> chosen # others

\* "hard cap": never more streams than max_stream_stk.
CapIsHard == Len(Desired.list) <= Max({1, cap})
=============================================================================
