----------------------------- MODULE OperatorBus -----------------------------
(***************************************************************************)
(* operator.py and the part of protocol.py and writer.py it calls: the     *)
(* operator task reads three Redis streams through one consumer group and  *)
(* answers every entry, one at a time.  Redis (external) keeps the         *)
(* streams, their group and its pending entries, and nothing across a      *)
(* restart; the gateway process may be killed and started again.           *)
(***************************************************************************)
EXTENDS Integers, Sequences, FiniteSets, SequencesExt

CONSTANTS
    StreamOrder,    \* the streams in the order of operator_loop's dict
    EnvStreams,     \* IB_OPERATOR_ENV_CMD_STREAMS
    ReadCount,      \* XREADGROUP's COUNT, per stream
    MaxCommands,    \* bound on the commands sent
    MaxFailures,    \* bound on crashes, lost replies, Redis restarts, outages
    Outages         \* TRUE: Redis may be out of reach for a while

Streams == ToSet(StreamOrder)
Commands == 1 .. MaxCommands
Ops == {"query", "control", "bad"}   \* READ_ONLY_OPS, PROD_ONLY_OPS, unparsable
NoGroup == -1

\* The keys of a dict: no stream is read twice in one call.
ASSUME StreamOrderAssumption ==
    /\ StreamOrder \in Seq(Streams)
    /\ \A i, j \in 1 .. Len(StreamOrder) : StreamOrder[i] = StreamOrder[j] => i = j
ASSUME EnvStreamsAssumption == EnvStreams \subseteq Streams
ASSUME ReadCountAssumption == ReadCount \in Nat \ {0}
ASSUME BoundsAssumption == MaxCommands \in Nat /\ MaxFailures \in Nat
ASSUME OutagesAssumption == Outages \in BOOLEAN

VARIABLES
    sent,       \* every command ever sent, as a sequence (history)
    log,        \* Redis: the commands on each stream
    last,       \* Redis: the group's last-delivered position, or NoGroup
    pel,        \* Redis: commands delivered and not acknowledged
    answered,   \* commands a result was written for (history)
    redisUp,    \* does Redis answer?
    pc,         \* where the operator task stands
    batch,      \* the entries it read and has not acknowledged yet
    started,    \* commands handed to the handler (history)
    failures    \* failures so far, at most MaxFailures

redisVars == <<log, last, pel>>
vars == <<sent, redisVars, answered, redisUp, pc, batch, started, failures>>

TypeOK ==
    /\ sent \in Seq([stream : Streams, op : Ops])
    /\ log \in [Streams -> Seq(Commands)]
    /\ \A s \in Streams : last[s] \in {NoGroup} \union 0 .. Len(log[s])
    /\ pel \subseteq Commands
    /\ answered \subseteq Commands
    /\ redisUp \in BOOLEAN
    /\ pc \in {"grouping", "reading", "entry", "handling", "acking", "dead"}
    /\ batch \in Seq(Commands)
    /\ started \subseteq Commands
    /\ failures \in 0 .. MaxFailures

Init ==
    /\ sent = <<>>
    /\ log = [s \in Streams |-> <<>>]
    /\ last = [s \in Streams |-> NoGroup]
    /\ pel = {}
    /\ answered = {}
    /\ redisUp = TRUE
    /\ pc = "grouping"
    /\ batch = <<>>
    /\ started = {}
    /\ failures = 0

-----------------------------------------------------------------------------
(* The callers.                                                            *)

\* XADD by a Trade environment (external).
Send(s, o) ==
    /\ redisUp
    /\ Len(sent) < MaxCommands
    /\ sent' = Append(sent, [stream |-> s, op |-> o])
    /\ log' = [log EXCEPT ![s] = Append(@, Len(sent'))]
    /\ UNCHANGED <<last, pel, answered, redisUp, pc, batch, started, failures>>

-----------------------------------------------------------------------------
(* The operator task.                                                      *)

\* op_allowed_on_stream(msg.op, stream)
Allowed(c) == sent[c].stream \notin EnvStreams \/ sent[c].op = "query"

\* A Redis call outside any try: without Redis the exception ends the task,
\* and nobody notices (app.py waits for the stop event only).
Die ==
    /\ pc' = "dead"
    /\ batch' = <<>>

\* Mutant of GroupFrom: "$", the group starts behind what is on the stream.
GroupFromEnd(s) == IF last[s] = NoGroup THEN Len(log[s]) ELSE last[s]
\* Mutant of GroupFrom: the group starts behind the first entry.
GroupFromFirst(s) == IF last[s] = NoGroup THEN 1 ELSE last[s]
\* Mutant of GroupFrom: an existing group is set back to the beginning.
GroupReset(s) == 0

\* XGROUP CREATE id=0 MKSTREAM; BUSYGROUP leaves an existing group alone.
GroupFrom(s) == IF last[s] = NoGroup THEN 0 ELSE last[s]

\* ensure_stream_and_group for every stream, at start and after NOGROUP.
EnsureGroups ==
    /\ pc = "grouping"
    /\ \/ /\ redisUp
          /\ last' = [s \in Streams |-> GroupFrom(s)]
          /\ pc' = "reading"
          /\ UNCHANGED batch
       \/ ~redisUp /\ Die /\ UNCHANGED last
    /\ UNCHANGED <<sent, log, pel, answered, redisUp, started, failures>>

\* The next entries of stream s for the group, at most ReadCount.
NewEntries(s) ==
    SubSeq(log[s], last[s] + 1,
           IF last[s] + ReadCount < Len(log[s]) THEN last[s] + ReadCount
                                                ELSE Len(log[s]))

\* What XREADGROUP ">" delivers from all streams.
Delivery == FlattenSeq([i \in 1 .. Len(StreamOrder) |-> NewEntries(StreamOrder[i])])

Deliver ==
    /\ pc = "reading"
    /\ redisUp
    /\ \A s \in Streams : last[s] # NoGroup
    /\ Delivery # <<>>
    /\ last' = [s \in Streams |-> last[s] + Len(NewEntries(s))]
    /\ pel' = pel \union ToSet(Delivery)

\* A reply with entries.  (An empty reply, and an error other than NOGROUP,
\* lead back to the same read.)
Read ==
    /\ Deliver
    /\ batch' = Delivery
    /\ pc' = "entry"
    /\ UNCHANGED <<sent, log, answered, redisUp, started, failures>>

\* Mutant of ReadNoGroup: retried like any other error.
ReadNoGroupRetries == pc = "reading" /\ UNCHANGED vars

\* Some stream or its group is gone: NOGROUP.
ReadNoGroup ==
    /\ pc = "reading"
    /\ redisUp
    /\ \E s \in Streams : last[s] = NoGroup
    /\ pc' = "grouping"
    /\ UNCHANGED <<sent, redisVars, answered, redisUp, batch, started, failures>>

\* write_operator_result, in no try either.
Answer(c) ==
    \/ redisUp /\ answered' = answered \union {c} /\ pc' = "acking" /\ UNCHANGED batch
    \/ ~redisUp /\ Die /\ UNCHANGED answered

\* Mutant of Entry: a refused command is acknowledged without an answer.
EntryRefusesSilently ==
    /\ pc = "entry"
    /\ LET c == Head(batch) IN
       \/ /\ sent[c].op = "bad" \/ ~Allowed(c)
          /\ pc' = "acking"
          /\ UNCHANGED <<answered, batch, started>>
       \/ /\ sent[c].op # "bad" /\ Allowed(c)
          /\ pc' = "handling"
          /\ started' = started \union {c}
          /\ UNCHANGED <<answered, batch>>
    /\ UNCHANGED <<sent, redisVars, redisUp, failures>>

\* _process_entry up to its first await: a malformed entry, a refusal (any
\* command may have passed its deadline by now), or a call of the handler.
Entry ==
    /\ pc = "entry"
    /\ LET c == Head(batch) IN
       \/ /\ sent[c].op = "bad"
          /\ pc' = "acking"
          /\ UNCHANGED <<answered, batch, started>>
       \/ /\ sent[c].op # "bad"
          /\ Answer(c)
          /\ UNCHANGED started
       \/ /\ sent[c].op # "bad"
          /\ Allowed(c)
          /\ pc' = "handling"
          /\ started' = started \union {c}
          /\ UNCHANGED <<answered, batch>>
    /\ UNCHANGED <<sent, redisVars, redisUp, failures>>

\* The handler returns or raises; either way there is an envelope.
HandlerReturns ==
    /\ pc = "handling"
    /\ Answer(Head(batch))
    /\ UNCHANGED <<sent, redisVars, redisUp, started, failures>>

\* XACK (of an entry that Redis may have lost meanwhile), then the next one.
Ack ==
    /\ pc = "acking"
    /\ \/ /\ redisUp
          /\ pel' = pel \ {Head(batch)}
          /\ batch' = Tail(batch)
          /\ pc' = IF batch' = <<>> THEN "reading" ELSE "entry"
       \/ ~redisUp /\ Die /\ UNCHANGED pel
    /\ UNCHANGED <<sent, log, last, answered, redisUp, started, failures>>

-----------------------------------------------------------------------------
(* Failures.                                                               *)

Fail == failures < MaxFailures /\ failures' = failures + 1

\* The process is killed, or stopped by a signal, and started again.
Crash ==
    /\ Fail
    /\ pc' = "grouping"
    /\ batch' = <<>>
    /\ UNCHANGED <<sent, redisVars, answered, redisUp, started>>

\* Redis delivers, the connection breaks, the reply is lost.
ReadLost ==
    /\ Fail
    /\ Deliver
    /\ UNCHANGED <<sent, log, answered, redisUp, pc, batch, started>>

Wipe ==
    /\ log' = [s \in Streams |-> <<>>]
    /\ last' = [s \in Streams |-> NoGroup]
    /\ pel' = {}

\* Redis restarts between two calls: nothing is persisted.
RedisRestart ==
    /\ Fail
    /\ redisUp
    /\ Wipe
    /\ UNCHANGED <<sent, answered, redisUp, pc, batch, started>>

RedisDown ==
    /\ Outages
    /\ Fail
    /\ redisUp
    /\ redisUp' = FALSE
    /\ UNCHANGED <<sent, redisVars, answered, pc, batch, started>>

RedisBack ==
    /\ ~redisUp
    /\ redisUp' = TRUE
    /\ Wipe \/ UNCHANGED redisVars
    /\ UNCHANGED <<sent, answered, pc, batch, started, failures>>

-----------------------------------------------------------------------------
Next ==
    \/ \E s \in Streams, o \in Ops : Send(s, o)
    \/ EnsureGroups
    \/ Read
    \/ ReadNoGroup
    \/ Entry
    \/ HandlerReturns
    \/ Ack
    \/ Crash
    \/ ReadLost
    \/ RedisRestart
    \/ RedisDown
    \/ RedisBack

Spec == Init /\ [][Next]_vars

\* The handler of a query may await an answer of TWS without a timeout.  (ping
\* and refresh_option_cache do not, but are not told apart from those that do.)
OpenEnded == pc = "handling" /\ sent[Head(batch)].op = "query"

\* The task never stops asking, an outage ends, and a handler returns in the
\* end unless it is open-ended: control commands wait for calls on the slots,
\* which all return (SlotConnection).
Fairness ==
    /\ WF_vars(EnsureGroups)
    /\ WF_vars(Read)
    /\ WF_vars(ReadNoGroup)
    /\ WF_vars(Entry)
    /\ WF_vars(~OpenEnded /\ HandlerReturns)
    /\ WF_vars(Ack)
    /\ WF_vars(RedisBack)

FairSpec == Spec /\ Fairness

-----------------------------------------------------------------------------
(* Properties.                                                             *)

WellFormed(c) == sent[c].op # "bad"

\* On a stream, not delivered yet.
OnStream(c) == \E s \in Streams :
    \E i \in 1 .. Len(log[s]) :
        log[s][i] = c /\ (last[s] = NoGroup \/ last[s] < i)

InBatch(c) == c \in ToSet(batch)

\* Where a command stands for its sender.
Phase(c) ==
    IF c > Len(sent) THEN "new"
    ELSE IF pc = "handling" /\ c = Head(batch) THEN "running"
    ELSE IF c \in answered THEN "done"
    ELSE IF OnStream(c) \/ (InBatch(c) /\ ~(pc = "acking" /\ c = Head(batch)))
         THEN "waiting"
    ELSE "dropped"

\* What XPENDING shows an operator is the truth: a command the group has
\* delivered and that is not pending has its answer, unless unparsable.
AckedMeansAnswered ==
    \A s \in Streams : \A i \in 1 .. last[s] :
        LET c == log[s][i] IN WellFormed(c) => c \in pel \/ c \in answered

\* A command ends without an answer only because of a failure: never by the
\* way groups are made, entries batched and acknowledgements sent.
DropsAreFailures ==
    [][\A c \in Commands :
         Phase(c)' = "dropped" /\ Phase(c) # "dropped" =>
             ~WellFormed(c) \/ failures' > failures \/ ~redisUp]_vars

\* Callers see an at-most-once mailbox, first in first out per stream,
\* whatever crashes, lost replies and Redis restarts do to it.
Bus == INSTANCE CommandBus WITH
    home <- [c \in Commands |-> IF c > Len(sent) THEN "none" ELSE sent[c].stream],
    phase <- [c \in Commands |-> Phase(c)]
BusSpec == Bus!Spec

\* Whatever is sent gets its answer, or went down with the process or with
\* Redis, but for two ways in which all later commands wait for ever: a single
\* Redis error at a result, an acknowledgement or a group ends the task, and
\* nobody starts it again; or one handler never gets its answer from TWS.
Answered ==
    \/ <>[](pc = "dead")
    \/ <>[]OpenEnded
    \/ \A c \in Commands : Phase(c) = "waiting" ~> Phase(c) \in {"done", "dropped"}
=============================================================================
