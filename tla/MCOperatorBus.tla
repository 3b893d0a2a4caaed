----------------------------- MODULE MCOperatorBus -----------------------------
(* OperatorBus with the production stream and one of the two of redis_keys.py that are restricted. *)
EXTENDS OperatorBus

MCTwoStreams == <<"cmd", "cmd:dev">>
MCOneEnv == {"cmd:dev"}
================================================================================
