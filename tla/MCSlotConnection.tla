--------------------------- MODULE MCSlotConnection ---------------------------
(* SlotConnection with the tasks of the deployed gateway. *)
EXTENDS SlotConnection, TLC

CONSTANTS operator, market, health

MCConnectors == {operator, health}
MCFewConnectors == {operator}
MCDisconnectors == {operator, market, health}
MCFewDisconnectors == {operator, market}
MCProbers == {health}
MCNoProbers == {}
MCSymmetry == Permutations(Sessions)
=============================================================================
