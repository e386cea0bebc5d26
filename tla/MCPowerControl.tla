--------------------------- MODULE MCPowerControl ---------------------------
(***************************************************************************)
(* PowerControl with a few limits and virtual clamps.  One tick is 150 s:  *)
(* the lifetimes of last_limit.json (300 s), state.json (450 s) and a lock *)
(* (900 s) are 2, 3 and 6 ticks; the large runs shorten the lock to 4.     *)
(***************************************************************************)
EXTENDS PowerControl

\* No clamp but the one that releases the limit.
Release == {<<0, 100>>}

\* A clamp with a ceiling.
Ceiling == Release \cup {<<0, 50>>}

\* A clamp with a floor and one with a ceiling.
Ordered == Release \cup {<<0, 50>>, <<40, 100>>}
=============================================================================
