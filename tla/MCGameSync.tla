----------------------------- MODULE MCGameSync -----------------------------
(***************************************************************************)
(* Small instances of GameSync for TLC: one game, or two of which the      *)
(* server refuses every edit of the second.                                *)
(***************************************************************************)
EXTENDS GameSync

CONSTANTS k1, k2

OneGame == {k1}
TwoGames == {k1, k2}
SecondGame == {k2}
NoGame == {}
=============================================================================
