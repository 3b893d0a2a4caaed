------------------------------ MODULE MCOptCache ------------------------------
(* OptCache with room for two of four contracts: Tracked may come first or    *)
(* last on a list, next to one that hangs or one whose key does not parse.    *)
EXTENDS OptCache

MCKeys == {1, 2, 3, 4}
MCBad == {4}
===============================================================================
