------------------------------ MODULE MCMarketLoop ------------------------------
(* MarketLoop with the slots of a full deployment and of the smallest. *)
EXTENDS MarketLoop

MCOneSlot == <<"host">>
MCSlotOrder == <<"host", "secondary">>
=================================================================================
