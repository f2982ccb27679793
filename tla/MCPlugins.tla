------------------------------- MODULE MCPlugins -------------------------------
(* Two values that suggest the same name, the one of which begins with the   *)
(* other and _2; a root session and a sub-agent.                            *)
EXTENDS Plugins, TLC

CONSTANTS a, b
SameName == [v \in Values |-> "TOKEN"]
Spot(v, tail) == [value |-> v, tail |-> tail]
Begins == (a :> None) @@ (b :> Spot(a, 2))
Text(ctx, bare, variables, large, quotes) ==
  [ctx |-> ctx, bare |-> bare, vars |-> variables, large |-> large, quotes |-> quotes]
Plain(ctx, bare) == Text(ctx, bare, {}, FALSE, FALSE)
Variable(i, tail) == [name |-> <<"TOKEN", i>>, tail |-> tail]
SomeTexts ==
  {Plain(Spot(a, 0), {}), Plain(Spot(b, 0), {Spot(b, 0)}), Plain(Spot(a, 1), {}),
   Plain(None, {Spot(a, 2)}), Plain(None, {Spot(b, 0)}),
   Text(Spot(b, 0), {Spot(a, 0)}, {}, TRUE, FALSE),
   Text(None, {}, {Variable(1, 2)}, FALSE, FALSE), Text(None, {}, {Variable(2, 0)}, FALSE, TRUE)}
=============================================================================
