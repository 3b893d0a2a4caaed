------------------------------ MODULE MCOnDemand ------------------------------
(* OnDemand with three keys clients register and watchlists that are empty,   *)
(* overlap with them, or fill the smallest cap.                             *)
EXTENDS OnDemand

MCKeys == {1, 3, 4}
MCWatchlists == {<<>>, <<3, 2, 3>>}
MCCaps == {0, 2}
===============================================================================
