------------------------------- MODULE MCGrants -------------------------------
(* Two releases: the second one drops a server, withholds a tool of the     *)
(* other and has fewer agents reach it. A session starts in orchestrator.   *)
EXTENDS Grants

Orchestrator(mentions) ==
  [primary |-> TRUE, tools |-> {"read", "bash"}, delegates |-> {"builder"},
   configurable |-> TRUE, mentions |-> mentions]
Builder(mentions, configurable) ==
  [primary |-> FALSE, tools |-> {"read", "edit", "write", "bash"}, delegates |-> {},
   configurable |-> configurable, mentions |-> mentions]

First ==
  [mcp |-> <<"engram", "playwright">>,
   servers |-> [s \in {"engram", "playwright"} |->
     IF s = "engram" THEN [reaches |-> {"orchestrator", "builder"}, withheld |-> {}]
     ELSE [reaches |-> {"builder"}, withheld |-> {"run"}]],
   agents |-> [a \in {"orchestrator", "builder"} |->
     IF a = "builder" THEN Builder({"playwright"}, TRUE) ELSE Orchestrator({})],
   shared |-> {"engram"}, overrides |-> {<<"engram", "orchestrator">>}, ambient |-> {"engram"}]

(* The builder is no longer configurable either.                           *)
Second ==
  [mcp |-> <<"engram">>,
   servers |-> [s \in {"engram"} |-> [reaches |-> {"orchestrator"}, withheld |-> {"run"}]],
   agents |-> [a \in {"orchestrator", "builder"} |->
     IF a = "builder" THEN Builder({}, FALSE) ELSE Orchestrator({})],
   shared |-> {"engram"}, overrides |-> {}, ambient |-> {}]

TwoReleases == <<First, Second>>

Administer(S)  == [s \in S |-> None]
OpencodeChoices ==
  {[s \in {} |-> None], Administer({"engram", "playwright"}),
   [s \in {"engram", "playwright"} |-> IF s = "engram" THEN "mine" ELSE None]}
ClaudeChoices ==
  {Administer({"engram"}), [s \in {"playwright"} |-> "mine"]}
ChoicesOf == [c \in {"opencode", "claudecode"} |->
                IF c = "opencode" THEN OpencodeChoices ELSE ClaudeChoices]
DeclarableIn == [c \in {"opencode", "claudecode"} |->
                   IF c = "opencode" THEN {"mine", "engram"} ELSE {}]
ConfigDirs == [c \in {"opencode", "claudecode"} |->
                 IF c = "opencode" THEN <<".config", "opencode">> ELSE <<".claude">>]
Data == <<".local", "darq">>
SomeDirectories == {<<"work">>, <<"work", "secrets">>, <<".config">>}
=============================================================================
