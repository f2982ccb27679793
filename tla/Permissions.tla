------------------------------ MODULE Permissions ------------------------------
(***************************************************************************)
(* What the two CLIs are told an agent may do: adapters/opencode/render.py  *)
(* and adapters/claudecode/render.py over one selected content, the server  *)
(* descriptors and the delegation table of core/catalog.py, and how each    *)
(* CLI decides from them (outside this repository, as the docstrings of     *)
(* _tools, _permission and _tools_field measured it).                       *)
(*                                                                         *)
(* A rule is a set of patterns and an action. OpenCode's last matching rule *)
(* wins; Claude Code's deny beats ask beats allow. "key*" is taken to match *)
(* the tools of that server and of no other: no key begins another one.     *)
(***************************************************************************)
EXTENDS ShippedContent

CONSTANT Tools   \* tools a server may expose

(* What an agent may try: a tool of a server, a tool of the CLI's own with  *)
(* plain, outward or sensitive arguments, or a delegation.                  *)
ServerCall(key, tool)  == [kind |-> "server", on |-> key, with |-> tool]
NativeCall(tool, what) == [kind |-> "native", on |-> tool, with |-> what]
TaskCall(agent)        == [kind |-> "task", on |-> agent, with |-> None]

(* A pattern is a call, or every call of a kind, on one thing or any.       *)
Whatever == "*"

(* No name is read as a wildcard: _SERVER_KEY refuses such a key, an        *)
(* agent's tools are capabilities, and load reads the rest from the release. *)
ASSUME NoWildcards ==
  /\ Whatever \notin (Keys \ Malformed) \cup Tools
  /\ \A r \in DOMAIN Releases :
       /\ \A s \in Servers(Releases[r]) : Releases[r].servers[s].withheld \subseteq Tools
       /\ \A a \in Agents(Releases[r]) : Whatever \notin Releases[r].agents[a].tools

Matches(p, call) ==
  /\ p.kind \in {Whatever, call.kind} /\ p.on \in {Whatever, call.on} /\ p.with \in {Whatever, call.with}
Everything    == [kind |-> Whatever, on |-> Whatever, with |-> Whatever]
WholeServer(key)  == ServerCall(key, Whatever)
WholeNative(tool) == NativeCall(tool, Whatever)

Rule(patterns, action) == [on |-> patterns, act |-> action]
LastWins(rules, call) ==
  rules[SelectLastInSeq(rules, LAMBDA r : \E p \in r.on : Matches(p, call))].act

-----------------------------------------------------------------------------
(* OpenCode.                                                               *)

(* PERMISSION_NAME: write and edit are one permission, ask is "question".   *)
PermissionName(tool) ==
  CASE tool = "write" -> "edit" [] tool = "ask" -> "question" [] OTHER -> tool
PermissionNames(agent) == {PermissionName(t) : t \in agent.tools}

(* SUBAGENT_BASH_PERMISSION and sensitive_file_permission.                  *)
OutwardRule(agent) ==
  Rule({NativeCall("bash", "outward") : t \in {b \in agent.tools : b = "bash" /\ ~agent.primary}}, "ask")
SensitiveRule(agent) ==
  Rule({NativeCall(t, "sensitive") : t \in PermissionNames(agent) \cap {"read", "edit"}},
       IF agent.primary THEN "ask" ELSE "deny")

(* Broken: what is withheld comes before what everybody is granted.         *)
DeniedFirst(agent) ==
  <<Rule({Everything}, "deny"),
    Rule({WholeNative(t) : t \in PermissionNames(agent)}, "allow"),
    OutwardRule(agent), SensitiveRule(agent),
    Rule({ServerCall(d[1], d[2]) : d \in agent.denied}, "deny"),
    Rule({WholeServer(k) : k \in agent.optional \cup agent.granted}, "allow"),
    Rule({TaskCall(b) : b \in agent.delegates}, "allow")>>

(* _permission, the part about tools, servers and delegation. A denied tool *)
(* comes after every grant of its server.                                   *)
Permission(agent) ==
  <<Rule({Everything}, "deny"),
    Rule({WholeNative(t) : t \in PermissionNames(agent)}, "allow"),
    OutwardRule(agent), SensitiveRule(agent),
    Rule({WholeServer(k) : k \in agent.optional}, "allow"),
    Rule({WholeServer(k) : k \in agent.granted}, "allow"),
    Rule({ServerCall(d[1], d[2]) : d \in agent.denied}, "deny"),
    Rule({TaskCall(b) : b \in agent.delegates}, "allow")>>

(* _tools: which tools the agent sees at all.                               *)
ToolSwitches(agent) ==
  <<Rule({Everything}, "hide"),
    Rule({WholeNative(t) : t \in agent.tools}, "show"),
    Rule({WholeServer(k) : k \in agent.optional \cup agent.granted}, "show"),
    Rule({ServerCall(d[1], d[2]) : d \in agent.denied}, "hide")>>

OpencodeAllows(agent, key, tool) == LastWins(Permission(agent), ServerCall(key, tool)) = "allow"
OpencodeShows(agent, key, tool)  == LastWins(ToolSwitches(agent), ServerCall(key, tool)) = "show"

(* EXTERNAL_DIRECTORY_DENY_FLOOR: a path that passes through the floor.     *)
UnderFloor(path) == Shadowed(Front(path))
Under(dir, path) == IsStrictPrefix(dir, path)

(* The external_directory part of _permission: allow everything, the skills *)
(* and what was granted, and the floor last.                                *)
TouchesFiles == {"read", "grep", "glob", "edit", "write", "bash"}
ExternalDirectory(agent, skillsDir, path) ==
  IF agent.tools \cap TouchesFiles = {} /\ agent.directories = {} THEN "deny"
  ELSE LET rules == <<[applies |-> TRUE, act |-> "allow"],
                      [applies |-> \E d \in {skillsDir} \cup agent.directories : Under(d, path),
                       act |-> "allow"],
                      [applies |-> UnderFloor(path), act |-> "deny"]>>
       IN  rules[SelectLastInSeq(rules, LAMBDA r : r.applies)].act

-----------------------------------------------------------------------------
(* Claude Code.                                                            *)

(* _mcp_by_key: one server per key; the later of two bound to one key wins. *)
ByKey(content, key) ==
  SelectLastInSeq(content.mcp,
                  LAMBDA s : s \in DOMAIN content.chosen /\ KeyFor(content.chosen, s) = key)
Shipped(content, key) == ByKey(content, key) # 0
WithheldUnder(content, key) == content.servers[content.mcp[ByKey(content, key)]].withheld

(* _mcp_for_agent: what it reaches of the shipped ones, then the granted;   *)
(* _mcp_servers_field and _disallowed_tools_field of those.                 *)
McpServers(content, agent) == {k \in agent.optional : Shipped(content, k)} \cup agent.granted
DisallowedTools(content, agent) ==
  UNION {{<<k, t>> : t \in WithheldUnder(content, k)} : k \in {j \in agent.optional : Shipped(content, j)}}

(* _tools_field: the agent a session starts in sees the tools of its        *)
(* servers only when they are named; a sub-agent needs no naming.           *)
NamedServers(content, a) ==
  IF a = SessionStart THEN McpServers(content, content.agents[a]) ELSE {}

ClaudeReaches(content, a, key, tool) ==
  LET agent == content.agents[a] IN
  /\ key \in McpServers(content, agent)
  /\ <<key, tool>> \notin DisallowedTools(content, agent)
  /\ a = SessionStart => key \in NamedServers(content, a)

(* PERMISSIONS_DENY_FLOOR, PERMISSIONS_ASK and PERMISSIONS_ALLOW, written   *)
(* once for every agent.                                                    *)
ClaudeFile(path, sensitive) ==
  IF UnderFloor(path) THEN "deny" ELSE IF sensitive THEN "ask" ELSE "allow"
ClaudeNative(agent, tool, what) ==
  IF tool \notin agent.tools THEN "deny"
  ELSE IF (tool = "bash" /\ what = "outward") \/ (tool \in {"read", "edit"} /\ what = "sensitive")
       THEN "ask" ELSE "allow"

-----------------------------------------------------------------------------
(* The delegation table (_delegation_targets, delegation_capabilities): what *)
(* a delegator is told its targets reach.                                    *)
Targets(content) == UNION {content.agents[a].delegates : a \in DOMAIN content.agents}
TableReaches(content, b, key, tool) ==
  LET agent == content.agents[b] IN
  /\ key \in agent.optional \cup agent.granted
  /\ ~ (Shipped(content, key) /\ tool \in WithheldUnder(content, key))
=============================================================================
