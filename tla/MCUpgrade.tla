------------------------------- MODULE MCUpgrade -------------------------------
(* "1.10" is newer than "1.9", and "rc" is comparable with neither.         *)
EXTENDS Upgrade, TLC

SomeKeys == [v \in {"1.9", "1.10", "rc"} |->
  CASE v = "1.9" -> <<1, 9>> [] v = "1.10" -> <<1, 10>> [] OTHER -> None]
Either == Permutations(Processes)
=============================================================================
