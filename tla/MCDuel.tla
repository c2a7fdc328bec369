------------------------------- MODULE MCDuel -------------------------------
(***************************************************************************)
(* Three players in a stage that plays duels, of whom b also watches.      *)
(***************************************************************************)
EXTENDS Duel

CONSTANTS a, b, c    \* players

\* A player who waits comes to fight, whatever the others do (nothing tells a
\* and c apart, and b is as they are until it watches).
WaiterFightsHere == WaiterFights(a)
=============================================================================
