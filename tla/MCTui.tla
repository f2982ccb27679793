-------------------------------- MODULE MCTui --------------------------------
(* Two CLIs, both installed: the first can have models per agent, the second *)
(* was installed before bindings were recorded.                             *)
EXTENDS Tui

TwoClis      == <<"opencode", "claudecode">>
OneServer    == <<"engram">>
TwoKeys      == <<"mine", "other">>
OneAgent     == <<"builder">>
OneEffort    == <<"high">>
SmallCatalog == <<[id |-> "p", models |-> <<[id |-> "m", reasoning |-> TRUE],
                                             [id |-> "n", reasoning |-> FALSE]>>]>>

Record(version, bound) ==
  [version |-> version, mcp |-> {"engram"}, granted |-> {"mine"}, bound |-> bound]
BothInstalled ==
  {[c \in {"opencode", "claudecode"} |->
      IF c = "opencode" THEN Record(1, FALSE) ELSE Record(None, TRUE)]}
=============================================================================
