------------------------------ MODULE CommandBus ------------------------------
(***************************************************************************)
(* What the command streams promise to callers, without Redis, groups and  *)
(* batches: a command runs at most once, one at a time, the commands of a  *)
(* stream in the order they were sent, and what is neither refused nor run *)
(* to its end is dropped for good.  OperatorBus implements this.           *)
(***************************************************************************)
EXTENDS Naturals

CONSTANTS
    Commands,   \* numbered in the order in which they are sent
    Streams     \* where they are sent

VARIABLES
    home,   \* the stream of each command, "none" before it is sent
    phase   \* "new", "waiting", "running", "done" or "dropped"

vars == <<home, phase>>

Init ==
    /\ phase = [c \in Commands |-> "new"]
    /\ home \in [Commands -> {"none"}]

Send(c) ==
    /\ phase[c] = "new"
    /\ \A d \in Commands : d < c => phase[d] # "new"
    /\ phase' = [phase EXCEPT ![c] = "waiting"]
    /\ \E s \in Streams : home' = [home EXCEPT ![c] = s]

\* c is the next one of its stream and nothing else is being run.
Turn(c) ==
    /\ phase[c] = "waiting"
    /\ \A d \in Commands : phase[d] # "running"
    /\ \A d \in Commands : d < c /\ home[d] = home[c] => phase[d] # "waiting"

Start(c) ==
    /\ Turn(c)
    /\ phase' = [phase EXCEPT ![c] = "running"]
    /\ UNCHANGED home

Refuse(c) ==
    /\ Turn(c)
    /\ phase' = [phase EXCEPT ![c] = "done"]
    /\ UNCHANGED home

Finish(c) ==
    /\ phase[c] = "running"
    /\ phase' = [phase EXCEPT ![c] = "done"]
    /\ UNCHANGED home

\* Any number of commands are lost together, in a crash or with the streams.
Drop ==
    /\ \E lost \in SUBSET {c \in Commands : phase[c] \in {"waiting", "running"}} :
         phase' = [c \in Commands |-> IF c \in lost THEN "dropped" ELSE phase[c]]
    /\ UNCHANGED home

Next ==
    \/ \E c \in Commands : Send(c) \/ Start(c) \/ Refuse(c) \/ Finish(c)
    \/ Drop

Spec == Init /\ [][Next]_vars
=============================================================================
