--------------------------- MODULE PermissionsProofs ---------------------------
(***************************************************************************)
(* What the rules of Permissions come to: a lemma for each table that a     *)
(* renderer writes, over any release, selection and grant.                 *)
(***************************************************************************)
EXTENDS Permissions, SequenceTheorems, TLAPS

-----------------------------------------------------------------------------
(* The last rule that matches decides.                                     *)
LEMMA LastWinsAt ==
  ASSUME NEW rules, Len(rules) \in Nat, NEW call, NEW i \in 1..Len(rules),
         \E p \in rules[i].on : Matches(p, call),
         \A j \in 1..Len(rules) : j > i => \A p \in rules[j].on : ~ Matches(p, call)
  PROVE  LastWins(rules, call) = rules[i].act
<1> DEFINE I == {j \in 1..Len(rules) : \E p \in rules[j].on : Matches(p, call)}
<1>1. i \in I /\ \A j \in I : j \in Nat /\ i >= j
  OBVIOUS
<1>2. Max(I) = i
  BY <1>1 DEF Max
<1>3. SelectLastInSeq(rules, LAMBDA r : \E p \in r.on : Matches(p, call)) = i
  BY <1>1, <1>2 DEF SelectLastInSeq
<1> QED  BY <1>3 DEF LastWins

(* A rule about one thing never matches a call about another.              *)
LEMMA ServerMatches ==
  ASSUME NEW key, NEW k, NEW t, key # Whatever, NEW tool, tool # Whatever
  PROVE  /\ Matches(WholeServer(key), ServerCall(k, t)) <=> key = k
         /\ Matches(ServerCall(key, tool), ServerCall(k, t)) <=> key = k /\ tool = t
         /\ Matches(Everything, ServerCall(k, t))
BY DEF Matches, WholeServer, ServerCall, Everything, Whatever

LEMMA OthersDoNotMatch ==
  ASSUME NEW x, NEW w, NEW k, NEW t
  PROVE  /\ ~ Matches(NativeCall(x, w), ServerCall(k, t))
         /\ ~ Matches(TaskCall(x), ServerCall(k, t))
         /\ ~ Matches(TaskCall(x), NativeCall(k, t))
         /\ ~ Matches(ServerCall(x, w), NativeCall(k, t))
BY DEF Matches, ServerCall, NativeCall, TaskCall, Whatever

-----------------------------------------------------------------------------
(* What OpenCode's tables come to, for an agent none of whose names is read *)
(* as a wildcard.                                                          *)
Plain(agent) ==
  /\ Whatever \notin agent.optional \cup agent.granted \cup agent.tools
  /\ \A d \in agent.denied : d = <<d[1], d[2]>> /\ d[1] # Whatever /\ d[2] # Whatever
Holds(agent, k, t) == k \in agent.optional \cup agent.granted /\ <<k, t>> \notin agent.denied

LEMMA DeniedMatches ==
  ASSUME NEW agent, Plain(agent), NEW k, NEW t
  PROVE  (\E p \in {ServerCall(d[1], d[2]) : d \in agent.denied} : Matches(p, ServerCall(k, t)))
           <=> <<k, t>> \in agent.denied
<1>1. ASSUME NEW d \in agent.denied
      PROVE  Matches(ServerCall(d[1], d[2]), ServerCall(k, t)) <=> d = <<k, t>>
  <2>1. PICK a, b : a = d[1] /\ b = d[2] /\ d = <<a, b>> /\ a # Whatever /\ b # Whatever
    BY DEF Plain
  <2>2. Matches(ServerCall(a, b), ServerCall(k, t)) <=> a = k /\ b = t
    BY <2>1, ServerMatches
  <2> QED  BY <2>1, <2>2
<1> QED  BY <1>1

LEMMA WholeMatches ==
  ASSUME NEW S, Whatever \notin S, NEW k, NEW t
  PROVE  (\E p \in {WholeServer(key) : key \in S} : Matches(p, ServerCall(k, t))) <=> k \in S
<1>1. ASSUME NEW key \in S PROVE Matches(WholeServer(key), ServerCall(k, t)) <=> key = k
  BY DEF Matches, WholeServer, ServerCall, Whatever
<1> QED  BY <1>1

(* _permission: a grant of a whole server and, after it, what is denied.    *)
LEMMA PermissionIs ==
  ASSUME NEW agent, Plain(agent), NEW k, NEW t
  PROVE  OpencodeAllows(agent, k, t) <=> Holds(agent, k, t)
<1> DEFINE rules == Permission(agent)
           call == ServerCall(k, t)
<1>1. /\ Len(rules) = 8 /\ Len(rules) \in Nat
      /\ rules[1].act = "deny" /\ rules[5].act = "allow" /\ rules[6].act = "allow" /\ rules[7].act = "deny"
  BY DEF Permission, Rule
<1>2. /\ rules[1].on = {Everything}
      /\ rules[2].on = {WholeNative(x) : x \in PermissionNames(agent)}
      /\ rules[3].on = OutwardRule(agent).on /\ rules[4].on = SensitiveRule(agent).on
      /\ rules[5].on = {WholeServer(key) : key \in agent.optional}
      /\ rules[6].on = {WholeServer(key) : key \in agent.granted}
      /\ rules[7].on = {ServerCall(d[1], d[2]) : d \in agent.denied}
      /\ rules[8].on = {TaskCall(b) : b \in agent.delegates}
  BY DEF Permission, Rule
<1>3. /\ \E p \in rules[1].on : Matches(p, call)
      /\ \A j \in 1..8 : j \notin {1, 5, 6, 7} => \A p \in rules[j].on : ~ Matches(p, call)
  <2>1. \E p \in rules[1].on : Matches(p, call)
    BY <1>2, ServerMatches DEF Matches, Everything
  <2>2. \A p \in rules[2].on : ~ Matches(p, call)
    BY <1>2, OthersDoNotMatch DEF WholeNative
  <2>3. \A p \in rules[3].on \cup rules[4].on : ~ Matches(p, call)
    BY <1>2, OthersDoNotMatch DEF OutwardRule, SensitiveRule, Rule
  <2>4. \A p \in rules[8].on : ~ Matches(p, call)
    <3>1. \A b \in agent.delegates : ~ Matches(TaskCall(b), ServerCall(k, t))
      BY OthersDoNotMatch
    <3> QED  BY <1>2, <3>1
  <2> HIDE DEF rules, call
  <2> QED  BY <2>1, <2>2, <2>3, <2>4
<1>4. /\ (\E p \in rules[5].on : Matches(p, call)) <=> k \in agent.optional
      /\ (\E p \in rules[6].on : Matches(p, call)) <=> k \in agent.granted
      /\ (\E p \in rules[7].on : Matches(p, call)) <=> <<k, t>> \in agent.denied
  BY <1>2, WholeMatches, DeniedMatches DEF Plain
<1> HIDE DEF rules, call
<1>5. CASE <<k, t>> \in agent.denied
  <2>1. \A j \in 1..Len(rules) : j > 7 => \A p \in rules[j].on : ~ Matches(p, call)
    BY <1>1, <1>3, <1>4, <1>5
  <2>2. 7 \in 1..Len(rules) /\ \E p \in rules[7].on : Matches(p, call)
    BY <1>1, <1>4, <1>5
  <2>3. LastWins(rules, call) = rules[7].act
    BY <1>1, <2>1, <2>2, LastWinsAt
  <2> QED  BY <1>1, <1>5, <2>3 DEF Holds, OpencodeAllows, rules, call
<1>6. CASE <<k, t>> \notin agent.denied /\ k \in agent.granted
  <2>1. \A j \in 1..Len(rules) : j > 6 => \A p \in rules[j].on : ~ Matches(p, call)
    BY <1>1, <1>3, <1>4, <1>6
  <2>2. 6 \in 1..Len(rules) /\ \E p \in rules[6].on : Matches(p, call)
    BY <1>1, <1>4, <1>6
  <2>3. LastWins(rules, call) = rules[6].act
    BY <1>1, <2>1, <2>2, LastWinsAt
  <2> QED  BY <1>1, <1>6, <2>3 DEF Holds, OpencodeAllows, rules, call
<1>7. CASE <<k, t>> \notin agent.denied /\ k \notin agent.granted /\ k \in agent.optional
  <2>1. \A j \in 1..Len(rules) : j > 5 => \A p \in rules[j].on : ~ Matches(p, call)
    BY <1>1, <1>3, <1>4, <1>7
  <2>2. 5 \in 1..Len(rules) /\ \E p \in rules[5].on : Matches(p, call)
    BY <1>1, <1>4, <1>7
  <2>3. LastWins(rules, call) = rules[5].act
    BY <1>1, <2>1, <2>2, LastWinsAt
  <2> QED  BY <1>1, <1>7, <2>3 DEF Holds, OpencodeAllows, rules, call
<1>8. CASE k \notin agent.granted \cup agent.optional /\ <<k, t>> \notin agent.denied
  <2>1. LastWins(rules, call) = rules[1].act
    BY <1>1, <1>3, <1>4, <1>8, LastWinsAt
  <2> QED  BY <1>1, <1>8, <2>1 DEF Holds, OpencodeAllows, rules, call
<1> QED  BY <1>5, <1>6, <1>7, <1>8

(* _tools: the same, said of what is shown.                                *)
LEMMA SwitchesAre ==
  ASSUME NEW agent, Plain(agent), NEW k, NEW t
  PROVE  OpencodeShows(agent, k, t) <=> Holds(agent, k, t)
<1> DEFINE rules == ToolSwitches(agent)
           call == ServerCall(k, t)
<1>1. /\ Len(rules) = 4 /\ Len(rules) \in Nat
      /\ rules[1].act = "hide" /\ rules[3].act = "show" /\ rules[4].act = "hide"
  BY DEF ToolSwitches, Rule
<1>2. /\ rules[1].on = {Everything}
      /\ rules[2].on = {WholeNative(x) : x \in agent.tools}
      /\ rules[3].on = {WholeServer(key) : key \in agent.optional \cup agent.granted}
      /\ rules[4].on = {ServerCall(d[1], d[2]) : d \in agent.denied}
  BY DEF ToolSwitches, Rule
<1>3. /\ \E p \in rules[1].on : Matches(p, call)
      /\ \A p \in rules[2].on : ~ Matches(p, call)
  BY <1>2, OthersDoNotMatch DEF WholeNative, Matches, Everything
<1>4. /\ (\E p \in rules[3].on : Matches(p, call)) <=> k \in agent.optional \cup agent.granted
      /\ (\E p \in rules[4].on : Matches(p, call)) <=> <<k, t>> \in agent.denied
  BY <1>2, WholeMatches, DeniedMatches DEF Plain
<1> HIDE DEF rules, call
<1>5. CASE <<k, t>> \in agent.denied
  <2>1. LastWins(rules, call) = rules[4].act
    BY <1>1, <1>4, <1>5, LastWinsAt
  <2> QED  BY <1>1, <1>5, <2>1 DEF Holds, OpencodeShows, rules, call
<1>6. CASE Holds(agent, k, t)
  <2>1. LastWins(rules, call) = rules[3].act
    BY <1>1, <1>4, <1>6, LastWinsAt DEF Holds
  <2> QED  BY <1>1, <1>6, <2>1 DEF OpencodeShows, rules, call
<1>7. CASE k \notin agent.granted \cup agent.optional /\ <<k, t>> \notin agent.denied
  <2>1. LastWins(rules, call) = rules[1].act
    BY <1>1, <1>3, <1>4, <1>7, LastWinsAt
  <2> QED  BY <1>1, <1>7, <2>1 DEF Holds, OpencodeShows, rules, call
<1> QED  BY <1>5, <1>6, <1>7 DEF Holds

-----------------------------------------------------------------------------
(* The user's leave: a command that reaches outside, a sensitive file.      *)
LEMMA NativeRules ==
  ASSUME NEW agent, NEW x, NEW w,
         NEW rules, rules = Permission(agent), NEW call, call = NativeCall(x, w)
  PROVE  /\ Len(rules) = 8 /\ Len(rules) \in Nat
         /\ rules[1].act = "deny" /\ rules[3].act = "ask" /\ rules[4].act \in {"ask", "deny"}
         /\ \E p \in rules[1].on : Matches(p, call)
         /\ rules[2].on = {WholeNative(y) : y \in PermissionNames(agent)}
         /\ rules[3].on = OutwardRule(agent).on /\ rules[4].on = SensitiveRule(agent).on
         /\ \A j \in 1..8 : j > 4 => \A p \in rules[j].on : ~ Matches(p, call)
<1>1. /\ Len(rules) = 8 /\ Len(rules) \in Nat
      /\ rules[1].act = "deny" /\ rules[3].act = OutwardRule(agent).act
      /\ rules[4].act = SensitiveRule(agent).act
      /\ rules[1].on = {Everything}
      /\ rules[2].on = {WholeNative(y) : y \in PermissionNames(agent)}
      /\ rules[3].on = OutwardRule(agent).on /\ rules[4].on = SensitiveRule(agent).on
      /\ rules[5].on = {WholeServer(key) : key \in agent.optional}
      /\ rules[6].on = {WholeServer(key) : key \in agent.granted}
      /\ rules[7].on = {ServerCall(d[1], d[2]) : d \in agent.denied}
      /\ rules[8].on = {TaskCall(b) : b \in agent.delegates}
  BY DEF Permission, Rule
<1>2. OutwardRule(agent).act = "ask" /\ SensitiveRule(agent).act \in {"ask", "deny"}
  BY DEF OutwardRule, SensitiveRule, Rule
<1>3. \E p \in rules[1].on : Matches(p, call)
  BY <1>1 DEF Matches, Everything, Whatever
<1>4. \A y, z : ~ Matches(ServerCall(y, z), call) /\ ~ Matches(TaskCall(y), call)
  BY OthersDoNotMatch
<1>5. \A p \in rules[5].on \cup rules[6].on \cup rules[7].on \cup rules[8].on : ~ Matches(p, call)
  BY <1>1, <1>4 DEF WholeServer
<1> QED  BY <1>1, <1>2, <1>3, <1>5

LEMMA NamesAre ==
  ASSUME NEW agent, Whatever \notin agent.tools
  PROVE  Whatever \notin PermissionNames(agent)
         /\ ("bash" \in PermissionNames(agent) => "bash" \in agent.tools)
<1>1. ASSUME NEW t \in agent.tools
      PROVE  PermissionName(t) # Whatever /\ (PermissionName(t) = "bash" => t = "bash")
  BY <1>1 DEF PermissionName, Whatever
<1> QED  BY <1>1 DEF PermissionNames

(* SUBAGENT_BASH_PERMISSION: a sub-agent's outward command is asked about.  *)
LEMMA OutwardAsks ==
  ASSUME NEW agent, Whatever \notin agent.tools, ~agent.primary
  PROVE  LastWins(Permission(agent), NativeCall("bash", "outward")) # "allow"
<1>1. PICK rules, call : rules = Permission(agent) /\ call = NativeCall("bash", "outward")
  OBVIOUS
<1>2. /\ Len(rules) = 8 /\ Len(rules) \in Nat /\ rules[1].act = "deny" /\ rules[3].act = "ask"
      /\ \E p \in rules[1].on : Matches(p, call)
      /\ \A j \in 1..8 : j > 4 => \A p \in rules[j].on : ~ Matches(p, call)
  BY <1>1, NativeRules
<1>3. \A p \in rules[4].on : ~ Matches(p, call)
  <2>1. rules[4].on = {NativeCall(t, "sensitive") : t \in PermissionNames(agent) \cap {"read", "edit"}}
    BY <1>1, NativeRules DEF SensitiveRule, Rule
  <2>2. \A t \in {"read", "edit"} : ~ Matches(NativeCall(t, "sensitive"), call)
    BY <1>1 DEF Matches, NativeCall, Whatever
  <2> QED  BY <2>1, <2>2
<1>4. CASE "bash" \in agent.tools
  <2>1. rules[3].on = {NativeCall("bash", "outward") : t \in {b \in agent.tools : b = "bash" /\ ~agent.primary}}
    BY <1>1, NativeRules DEF OutwardRule, Rule
  <2>2. NativeCall("bash", "outward") \in rules[3].on
    BY <1>4, <2>1
  <2>3. Matches(NativeCall("bash", "outward"), call)
    BY <1>1 DEF Matches, NativeCall
  <2>4. \A j \in 1..Len(rules) : j > 3 => \A p \in rules[j].on : ~ Matches(p, call)
    BY <1>2, <1>3
  <2>5. 3 \in 1..Len(rules) /\ \E p \in rules[3].on : Matches(p, call)
    BY <1>2, <2>2, <2>3
  <2>6. LastWins(rules, call) = rules[3].act
    BY <1>2, <2>4, <2>5, LastWinsAt
  <2> QED  BY <1>1, <1>2, <2>6
<1>5. CASE "bash" \notin agent.tools
  <2>1. \A p \in rules[3].on : ~ Matches(p, call)
    BY <1>1, <1>5, NativeRules DEF OutwardRule, Rule
  <2>2. \A p \in rules[2].on : ~ Matches(p, call)
    <3>1. \A y : y # Whatever /\ y # "bash" => ~ Matches(WholeNative(y), call)
      BY <1>1 DEF WholeNative, NativeCall, Matches
    <3>2. \A y \in PermissionNames(agent) : y # Whatever /\ y # "bash"
      BY <1>5, NamesAre
    <3>3. rules[2].on = {WholeNative(y) : y \in PermissionNames(agent)}
      BY <1>1, NativeRules
    <3> QED  BY <3>1, <3>2, <3>3
  <2>3. \A j \in 1..Len(rules) : j > 1 => \A p \in rules[j].on : ~ Matches(p, call)
    BY <1>2, <1>3, <2>1, <2>2
  <2>4. 1 \in 1..Len(rules)
    BY <1>2
  <2>5. LastWins(rules, call) = rules[1].act
    BY <1>2, <2>3, <2>4, LastWinsAt
  <2> QED  BY <1>1, <1>2, <2>5
<1> QED  BY <1>4, <1>5

(* sensitive_file_permission: a sensitive file is never read or edited      *)
(* unasked.                                                                *)
LEMMA SensitiveAsks ==
  ASSUME NEW agent, Whatever \notin agent.tools, NEW t \in {"read", "edit"}
  PROVE  LastWins(Permission(agent), NativeCall(t, "sensitive")) # "allow"
<1>1. PICK rules, call : rules = Permission(agent) /\ call = NativeCall(t, "sensitive")
  OBVIOUS
<1>2. /\ Len(rules) = 8 /\ Len(rules) \in Nat /\ rules[1].act = "deny" /\ rules[4].act \in {"ask", "deny"}
      /\ \E p \in rules[1].on : Matches(p, call)
      /\ \A j \in 1..8 : j > 4 => \A p \in rules[j].on : ~ Matches(p, call)
  BY <1>1, NativeRules
<1>3. rules[4].on = {NativeCall(x, "sensitive") : x \in PermissionNames(agent) \cap {"read", "edit"}}
  BY <1>1, NativeRules DEF SensitiveRule, Rule
<1>4. CASE t \in PermissionNames(agent)
  <2>1. call \in rules[4].on /\ Matches(call, call)
    BY <1>1, <1>3, <1>4 DEF Matches
  <2>2. \A j \in 1..Len(rules) : j > 4 => \A p \in rules[j].on : ~ Matches(p, call)
    BY <1>2
  <2>3. 4 \in 1..Len(rules) /\ \E p \in rules[4].on : Matches(p, call)
    BY <1>2, <2>1
  <2>4. LastWins(rules, call) = rules[4].act
    BY <1>2, <2>2, <2>3, LastWinsAt
  <2> QED  BY <1>1, <1>2, <2>4
<1>5. CASE t \notin PermissionNames(agent)
  <2>1. \A x : x # Whatever /\ x # t => \A w : ~ Matches(NativeCall(x, w), call)
    BY <1>1 DEF NativeCall, Matches
  <2>2. \A p \in rules[4].on : ~ Matches(p, call)
    BY <1>3, <1>5, <2>1 DEF Whatever
  <2>3. \A p \in rules[3].on : ~ Matches(p, call)
    <3>1. \A p \in rules[3].on : p = NativeCall("bash", "outward")
      BY <1>1, NativeRules DEF OutwardRule, Rule
    <3> QED  BY <2>1, <3>1 DEF Whatever
  <2>4. \A p \in rules[2].on : ~ Matches(p, call)
    <3>1. rules[2].on = {WholeNative(y) : y \in PermissionNames(agent)}
      BY <1>1, NativeRules
    <3> QED  BY <1>5, <2>1, <3>1, NamesAre DEF WholeNative
  <2>5. \A j \in 1..Len(rules) : j > 1 => \A p \in rules[j].on : ~ Matches(p, call)
    BY <1>2, <2>2, <2>3, <2>4
  <2>6. 1 \in 1..Len(rules)
    BY <1>2
  <2>7. LastWins(rules, call) = rules[1].act
    BY <1>2, <2>5, <2>6, LastWinsAt
  <2> QED  BY <1>1, <1>2, <2>7
<1> QED  BY <1>4, <1>5

-----------------------------------------------------------------------------
(* What a selection and its grants give each agent.                        *)

(* What install accepts: a selection of this release, with keys that can be *)
(* read, and grants of keys that are not some agents' only.                 *)
Accepted(rel, chosen, granted) ==
  /\ \E r \in DOMAIN Releases : rel = Releases[r]
  /\ Known(rel, chosen) /\ Readable(chosen)
  /\ \A s \in DOMAIN chosen : chosen[s] \in Keys \cup {None}
  /\ granted \subseteq Keys \ Malformed
  /\ granted \cap PerAgentKeys(Selected(rel, chosen)) = {}

(* No two chosen servers under one key.                                    *)
Single(chosen) == \A s, t \in DOMAIN chosen : KeyFor(chosen, s) = KeyFor(chosen, t) => s = t

(* What was meant: Grants says the same of what it rendered from.           *)
Bearers(chosen, k) == {s \in DOMAIN chosen : KeyFor(chosen, s) = k}
Means(rel, chosen, granted, a, k, t) ==
  IF Bearers(chosen, k) = {} THEN k \in granted
  ELSE \E s \in Bearers(chosen, k) : a \in rel.servers[s].reaches /\ t \notin rel.servers[s].withheld

Widened(agent, granted, dirs) == [agent EXCEPT !.granted = granted, !.directories = dirs]

LEMMA GrantedIs ==
  ASSUME NEW rel, NEW chosen, NEW granted, NEW dirs,
         granted \cap PerAgentKeys(Selected(rel, chosen)) = {},
         NEW content, content = Granted(Selected(rel, chosen), granted, dirs)
  PROVE  /\ content.mcp = rel.mcp /\ content.chosen = chosen /\ DOMAIN content.agents = Agents(rel)
         /\ \A s \in DOMAIN chosen : content.servers[s] = rel.servers[s]
         /\ \A a \in Agents(rel) :
              content.agents[a] = Widened(Selected(rel, chosen).agents[a], granted, dirs)
<1>1. PICK selected : selected = Selected(rel, chosen)
  OBVIOUS
<1>2. Kept(selected, granted) = granted
  BY <1>1 DEF Kept, Collisions
<1>3. /\ selected.mcp = rel.mcp /\ selected.chosen = chosen /\ DOMAIN selected.agents = Agents(rel)
      /\ selected.servers = [s \in DOMAIN chosen |-> rel.servers[s]]
  BY <1>1 DEF Selected
<1>4. content = [selected EXCEPT !.agents = [a \in DOMAIN selected.agents |->
                   [selected.agents[a] EXCEPT !.granted = granted, !.directories = dirs]]]
  BY <1>1, <1>2 DEF Granted
<1>5. DOMAIN selected = {"mcp", "chosen", "servers", "ambient", "agents"}
  BY <1>1 DEF Selected
<1>6. /\ content.mcp = selected.mcp /\ content.chosen = selected.chosen
      /\ content.servers = selected.servers /\ DOMAIN content.agents = DOMAIN selected.agents
      /\ \A a \in DOMAIN selected.agents :
           content.agents[a] = [selected.agents[a] EXCEPT !.granted = granted, !.directories = dirs]
  BY <1>4, <1>5
<1>7. \A a \in Agents(rel) : content.agents[a] = Widened(Selected(rel, chosen).agents[a], granted, dirs)
  BY <1>1, <1>3, <1>6 DEF Widened
<1>8. ASSUME NEW s \in DOMAIN chosen PROVE content.servers[s] = rel.servers[s]
  <2>1. content.servers = [x \in DOMAIN chosen |-> rel.servers[x]]
    BY <1>3, <1>6
  <2> QED  BY <2>1
<1> QED  BY <1>3, <1>6, <1>7, <1>8

LEMMA AgentIs ==
  ASSUME NEW rel, NEW chosen, NEW granted, NEW dirs, Accepted(rel, chosen, granted),
         NEW content, content = Granted(Selected(rel, chosen), granted, dirs),
         NEW a \in Agents(rel), NEW agent, agent = content.agents[a]
  PROVE  /\ agent.primary = rel.agents[a].primary /\ agent.tools = rel.agents[a].tools
         /\ agent.delegates = rel.agents[a].delegates
         /\ agent.optional = {KeyFor(chosen, s) : s \in ReachedBy(rel, a) \cap DOMAIN chosen}
         /\ agent.denied = Denied(rel, chosen, a)
         /\ agent.granted = granted /\ agent.directories = dirs
<1>1. PICK before : before = Selected(rel, chosen).agents[a]
  OBVIOUS
<1>2. before =
        [primary      |-> rel.agents[a].primary,
         tools        |-> rel.agents[a].tools,
         delegates    |-> rel.agents[a].delegates,
         configurable |-> rel.agents[a].configurable,
         optional     |-> {KeyFor(chosen, s) : s \in ReachedBy(rel, a) \cap DOMAIN chosen},
         sections     |-> Sections(rel, a) \cap DOMAIN chosen,
         denied       |-> Denied(rel, chosen, a),
         granted      |-> {},
         directories  |-> {}]
  BY <1>1 DEF Selected
<1>3. agent = [before EXCEPT !.granted = granted, !.directories = dirs]
  <2>1. granted \cap PerAgentKeys(Selected(rel, chosen)) = {}
    BY DEF Accepted
  <2>2. content.agents[a] = Widened(Selected(rel, chosen).agents[a], granted, dirs)
    BY <2>1, GrantedIs
  <2> QED  BY <1>1, <2>2 DEF Widened
<1> QED  BY <1>2, <1>3

LEMMA ChosenKeys ==
  ASSUME NEW rel, NEW chosen, NEW granted, Accepted(rel, chosen, granted), NEW s \in DOMAIN chosen
  PROVE  /\ s \in Servers(rel) /\ KeyFor(chosen, s) \in Keys \ Malformed
         /\ KeyFor(chosen, s) \notin granted
         /\ rel.servers[s].withheld \subseteq Tools
<1>1. PICK r \in DOMAIN Releases : rel = Releases[r]
  BY DEF Accepted
<1>2. s \in Servers(rel) /\ Servers(rel) \subseteq Keys \ Malformed /\ Loadable(rel)
        /\ rel.servers[s].withheld \subseteq Tools
  BY <1>1, ReleasesLoad, NoWildcards DEF Accepted, Known
<1>3. KeyFor(chosen, s) \in Keys \ Malformed
  BY <1>2 DEF KeyFor, Accepted, Readable, Bound
<1>4. PICK selected : selected = Selected(rel, chosen)
  OBVIOUS
<1>5. PICK a \in Agents(rel) : a \in rel.servers[s].reaches
  BY <1>2 DEF Loadable, ReachesAnAgent, ReachesKnownAgents
<1>6. /\ DOMAIN selected.agents = Agents(rel)
      /\ selected.agents[a].optional = {KeyFor(chosen, x) : x \in ReachedBy(rel, a) \cap DOMAIN chosen}
  BY <1>4 DEF Selected
<1>7. s \in ReachedBy(rel, a) \cap DOMAIN chosen
  BY <1>2, <1>5 DEF ReachedBy
<1>8. KeyFor(chosen, s) \in PerAgentKeys(selected)
  BY <1>6, <1>7 DEF PerAgentKeys
<1> QED  BY <1>2, <1>3, <1>4, <1>8 DEF Accepted

(* An agent holds a tool exactly when it was meant to.                     *)
LEMMA HoldsWhatIsMeant ==
  ASSUME NEW rel, NEW chosen, NEW granted, NEW dirs, Accepted(rel, chosen, granted), Single(chosen),
         NEW content, content = Granted(Selected(rel, chosen), granted, dirs),
         NEW a \in Agents(rel), NEW agent, agent = content.agents[a], NEW k, NEW t
  PROVE  Holds(agent, k, t) <=> Means(rel, chosen, granted, a, k, t)
<1>1. /\ agent.optional = {KeyFor(chosen, s) : s \in ReachedBy(rel, a) \cap DOMAIN chosen}
      /\ agent.denied = Denied(rel, chosen, a) /\ agent.granted = granted
  BY AgentIs
<1>2. k \in agent.optional <=> \E s \in Bearers(chosen, k) : s \in ReachedBy(rel, a)
  BY <1>1 DEF Bearers
<1>3. <<k, t>> \in agent.denied
        <=> \E s \in Bearers(chosen, k) : s \in ReachedBy(rel, a) /\ t \in rel.servers[s].withheld
  BY <1>1 DEF Denied, Bearers
<1>4. \A s \in Bearers(chosen, k) : s \in ReachedBy(rel, a) <=> a \in rel.servers[s].reaches
  BY ChosenKeys DEF Bearers, ReachedBy
<1>5. \A s \in Bearers(chosen, k) : k \notin granted
  BY ChosenKeys DEF Bearers
<1>6. \A s, x \in Bearers(chosen, k) : s = x
  BY DEF Bearers, Single
<1> QED  BY <1>1, <1>2, <1>3, <1>4, <1>5, <1>6 DEF Holds, Means

LEMMA AgentsArePlain ==
  ASSUME NEW rel, NEW chosen, NEW granted, NEW dirs, Accepted(rel, chosen, granted),
         NEW content, content = Granted(Selected(rel, chosen), granted, dirs),
         NEW a \in Agents(rel), NEW agent, agent = content.agents[a]
  PROVE  Plain(agent)
<1>1. /\ agent.optional = {KeyFor(chosen, s) : s \in ReachedBy(rel, a) \cap DOMAIN chosen}
      /\ agent.denied = Denied(rel, chosen, a) /\ agent.granted = granted
      /\ agent.tools = rel.agents[a].tools
  BY AgentIs
<1>2. Whatever \notin (Keys \ Malformed) \cup Tools /\ Whatever \notin rel.agents[a].tools
  BY NoWildcards DEF Accepted
<1>3. Whatever \notin agent.optional \cup agent.granted \cup agent.tools
  BY <1>1, <1>2, ChosenKeys DEF Accepted
<1>4. ASSUME NEW d \in agent.denied PROVE d = <<d[1], d[2]>> /\ d[1] # Whatever /\ d[2] # Whatever
  <2>1. PICK s \in DOMAIN chosen : \E t \in rel.servers[s].withheld : d = <<KeyFor(chosen, s), t>>
    BY <1>1 DEF Denied
  <2>2. PICK t \in Tools : d = <<KeyFor(chosen, s), t>>
    BY <2>1, ChosenKeys
  <2> QED  BY <1>2, <2>2, ChosenKeys
<1> QED  BY <1>3, <1>4 DEF Plain

(* _mcp_by_key finds the server a key stands for.                          *)
LEMMA FoundByKey ==
  ASSUME NEW rel, NEW chosen, NEW granted, NEW dirs, Accepted(rel, chosen, granted), Single(chosen),
         NEW content, content = Granted(Selected(rel, chosen), granted, dirs), NEW k
  PROVE  /\ Shipped(content, k) <=> Bearers(chosen, k) # {}
         /\ \A s \in Bearers(chosen, k) : WithheldUnder(content, k) = rel.servers[s].withheld
<1>1. /\ content.mcp = rel.mcp /\ content.chosen = chosen
      /\ \A s \in DOMAIN chosen : content.servers[s] = rel.servers[s]
  <2>1. granted \cap PerAgentKeys(Selected(rel, chosen)) = {}
    BY DEF Accepted
  <2> QED  BY <2>1, GrantedIs
<1>2. rel.mcp \in Seq(Servers(rel)) /\ IsInjective(rel.mcp) /\ Range(rel.mcp) = Servers(rel)
  BY ReleasesLoad DEF Accepted
<1>3. /\ DOMAIN rel.mcp = 1..Len(rel.mcp) /\ Len(rel.mcp) \in Nat
      /\ \A i, j \in 1..Len(rel.mcp) : rel.mcp[i] = rel.mcp[j] => i = j
      /\ \A s \in Servers(rel) : \E i \in 1..Len(rel.mcp) : rel.mcp[i] = s
  BY <1>2 DEF IsInjective, Range
<1> DEFINE I == {i \in 1..Len(rel.mcp) : rel.mcp[i] \in DOMAIN chosen /\ KeyFor(chosen, rel.mcp[i]) = k}
<1>4. ByKey(content, k) = IF I # {} THEN Max(I) ELSE 0
  BY <1>1 DEF ByKey, SelectLastInSeq
<1>5. \A i \in I : rel.mcp[i] \in Bearers(chosen, k)
  BY DEF Bearers
<1>6. \A s \in Bearers(chosen, k) : \E i \in I : rel.mcp[i] = s
  BY <1>3, ChosenKeys DEF Bearers
<1>7. ASSUME NEW s \in Bearers(chosen, k)
      PROVE  Shipped(content, k) /\ WithheldUnder(content, k) = rel.servers[s].withheld
  <2>1. PICK i \in I : rel.mcp[i] = s
    BY <1>6
  <2>2. \A j \in I : j = i
    <3>1. ASSUME NEW j \in I PROVE j = i
      <4>1. rel.mcp[j] = s
        BY <1>5 DEF Bearers, Single
      <4> QED  BY <1>3, <2>1, <4>1
    <3> QED  BY <3>1
  <2>3. i \in Nat /\ i # 0
    BY <1>3
  <2> HIDE DEF I
  <2>4. Max(I) = i
    <3>1. I = {i}
      BY <2>1, <2>2
    <3>2. i >= i
      BY <2>3
    <3>3. Max({i}) = i
      BY <3>2 DEF Max
    <3> QED  BY <3>1, <3>3
  <2>5. ByKey(content, k) = i
    BY <1>4, <2>1, <2>4
  <2>6. content.servers[content.mcp[ByKey(content, k)]] = rel.servers[s]
    BY <1>1, <2>1, <2>5 DEF Bearers
  <2> QED  BY <2>3, <2>5, <2>6 DEF Shipped, WithheldUnder
<1>8. Bearers(chosen, k) = {} => ~ Shipped(content, k)
  BY <1>4, <1>5 DEF Shipped
<1> QED  BY <1>7, <1>8

(* _mcp_servers_field, _disallowed_tools_field: what Claude Code lets an    *)
(* agent reach is what was meant.                                          *)
LEMMA ClaudeReachesMeant ==
  ASSUME NEW rel, NEW chosen, NEW granted, NEW dirs, Accepted(rel, chosen, granted), Single(chosen),
         NEW content, content = Granted(Selected(rel, chosen), granted, dirs),
         NEW a \in Agents(rel), NEW k, NEW t
  PROVE  ClaudeReaches(content, a, k, t) <=> Means(rel, chosen, granted, a, k, t)
<1>1. PICK agent : agent = content.agents[a]
  OBVIOUS
<1>2. /\ agent.optional = {KeyFor(chosen, s) : s \in ReachedBy(rel, a) \cap DOMAIN chosen}
      /\ agent.granted = granted
  BY <1>1, AgentIs
<1>3. /\ Shipped(content, k) <=> Bearers(chosen, k) # {}
      /\ \A s \in Bearers(chosen, k) : WithheldUnder(content, k) = rel.servers[s].withheld
  BY FoundByKey
<1>4. k \in agent.optional <=> \E s \in Bearers(chosen, k) : s \in ReachedBy(rel, a)
  BY <1>2 DEF Bearers
<1>5. k \in McpServers(content, agent) <=> k \in agent.optional \cup granted
  BY <1>2, <1>3, <1>4 DEF McpServers
<1>6. <<k, t>> \in DisallowedTools(content, agent) <=> k \in agent.optional /\ t \in WithheldUnder(content, k)
  <2>1. <<k, t>> \in DisallowedTools(content, agent)
          <=> k \in agent.optional /\ Shipped(content, k) /\ t \in WithheldUnder(content, k)
    BY DEF DisallowedTools
  <2> QED  BY <1>3, <1>4, <2>1
<1>7. ClaudeReaches(content, a, k, t)
        <=> k \in McpServers(content, agent) /\ <<k, t>> \notin DisallowedTools(content, agent)
  BY <1>1 DEF ClaudeReaches, NamedServers
<1>8. /\ \A s \in Bearers(chosen, k) : s \in ReachedBy(rel, a) <=> a \in rel.servers[s].reaches
      /\ \A s \in Bearers(chosen, k) : k \notin granted
      /\ \A s, x \in Bearers(chosen, k) : s = x
  BY ChosenKeys DEF Bearers, ReachedBy, Single
<1> QED  BY <1>3, <1>4, <1>5, <1>6, <1>7, <1>8 DEF Means

(* The delegation table: what a delegator is told is what was meant.        *)
LEMMA TableReachesMeant ==
  ASSUME NEW rel, NEW chosen, NEW granted, NEW dirs, Accepted(rel, chosen, granted), Single(chosen),
         NEW content, content = Granted(Selected(rel, chosen), granted, dirs),
         NEW a \in Agents(rel), NEW k, NEW t
  PROVE  TableReaches(content, a, k, t) <=> Means(rel, chosen, granted, a, k, t)
<1>1. PICK agent : agent = content.agents[a]
  OBVIOUS
<1>2. /\ agent.optional = {KeyFor(chosen, s) : s \in ReachedBy(rel, a) \cap DOMAIN chosen}
      /\ agent.granted = granted
  BY <1>1, AgentIs
<1>3. /\ Shipped(content, k) <=> Bearers(chosen, k) # {}
      /\ \A s \in Bearers(chosen, k) : WithheldUnder(content, k) = rel.servers[s].withheld
  BY FoundByKey
<1>4. k \in agent.optional <=> \E s \in Bearers(chosen, k) : s \in ReachedBy(rel, a)
  BY <1>2 DEF Bearers
<1>5. TableReaches(content, a, k, t)
        <=> k \in agent.optional \cup agent.granted /\ ~ (Shipped(content, k) /\ t \in WithheldUnder(content, k))
  BY <1>1 DEF TableReaches
<1>6. /\ \A s \in Bearers(chosen, k) : s \in ReachedBy(rel, a) <=> a \in rel.servers[s].reaches
      /\ \A s \in Bearers(chosen, k) : k \notin granted
      /\ \A s, x \in Bearers(chosen, k) : s = x
  BY ChosenKeys DEF Bearers, ReachedBy, Single
<1> QED  BY <1>2, <1>3, <1>4, <1>5, <1>6 DEF Means

-----------------------------------------------------------------------------
(* The floor: no grant of a directory opens what lies under it.             *)
LEMMA FloorStands ==
  ASSUME NEW agent, NEW d \in agent.directories, d \in Seq(STRING), NEW skills,
         NEW file, file = Append(d, "file")
  PROVE  /\ ExternalDirectory(agent, skills, file) = "allow" <=> ~ Shadowed(d)
         /\ ClaudeFile(file, FALSE) = "deny" <=> Shadowed(d)
<1>1. Front(file) = d
  <2>1. Len(d) \in Nat /\ Len(file) = Len(d) + 1
    BY AppendProperties
  <2>2. SubSeq(d \o <<"file">>, 1, Len(d)) = SubSeq(d, 1, Len(d)) /\ SubSeq(d, 1, Len(d)) = d
    BY <2>1, SubSeqOfConcat1, SubSeqFull
  <2>3. file = d \o <<"file">>
    BY AppendIsConcat
  <2> QED  BY <2>1, <2>2, <2>3 DEF Front
<1>2. UnderFloor(file) <=> Shadowed(d)
  BY <1>1 DEF UnderFloor
<1> DEFINE opens == \E x \in {skills} \cup agent.directories : Under(x, file)
           rules == <<[applies |-> TRUE, act |-> "allow"], [applies |-> opens, act |-> "allow"],
                      [applies |-> UnderFloor(file), act |-> "deny"]>>
           I == {i \in 1..Len(rules) : rules[i].applies}
<1>3. ExternalDirectory(agent, skills, file) = rules[IF I # {} THEN Max(I) ELSE 0].act
  BY DEF ExternalDirectory, SelectLastInSeq
<1>4. /\ Len(rules) = 3 /\ rules[1].act = "allow" /\ rules[2].act = "allow" /\ rules[3].act = "deny"
      /\ rules[1].applies /\ (rules[3].applies <=> UnderFloor(file))
  OBVIOUS
<1> HIDE DEF rules
<1>5. 1 \in I /\ I \subseteq {1, 2, 3} /\ (3 \in I <=> UnderFloor(file))
  BY <1>4
<1> HIDE DEF I
<1>6. Max(I) \in I /\ \A j \in I : Max(I) >= j
  <2>1. \E i \in I : \A j \in I : i >= j
    BY <1>5
  <2> QED  BY <2>1 DEF Max
<1>7. ExternalDirectory(agent, skills, file) = rules[Max(I)].act
  BY <1>3, <1>5
<1>8. CASE UnderFloor(file)
  <2>1. Max(I) = 3
    <3>1. 3 \in I
      BY <1>5, <1>8
    <3>2. PICK m : m = Max(I)
      OBVIOUS
    <3>3. m \in {1, 2, 3} /\ m >= 3
      BY <1>5, <1>6, <3>1, <3>2
    <3> QED  BY <3>2, <3>3
  <2> QED  BY <1>2, <1>4, <1>7, <1>8, <2>1 DEF ClaudeFile
<1>9. CASE ~ UnderFloor(file)
  <2>1. Max(I) \in {1, 2}
    BY <1>5, <1>6, <1>9
  <2> QED  BY <1>2, <1>4, <1>7, <1>9, <2>1 DEF ClaudeFile
<1> QED  BY <1>8, <1>9
=============================================================================
