---------------------------- MODULE ShippedContent ----------------------------
(***************************************************************************)
(* What a release of darq ships (core/content.py), and how one install      *)
(* narrows it: the MCP servers it selects, the keys the user binds them to, *)
(* the keys and directories granted to every agent.                         *)
(*                                                                         *)
(* A release is a record                                                   *)
(*   mcp:      the servers, in the order load() gives them                 *)
(*   servers:  server -> [reaches: agents, withheld: tools]                *)
(*   agents:   agent -> [primary, tools, delegates, configurable,          *)
(*                       mentions: servers its own body names]             *)
(*   shared:   servers with a section for every agent they reach           *)
(*   overrides: <<server, agent>> with a section of their own              *)
(*   ambient:  servers with a section of the system prompt                 *)
(* Bodies, descriptions and how a server is obtained are left out.         *)
(***************************************************************************)
EXTENDS Naturals, Sequences, FiniteSets, SequencesExt

CONSTANTS
  Releases,      \* a sequence of releases
  Keys,          \* server keys, those of the shipped servers among them
  Malformed,     \* keys _SERVER_KEY does not match
  SessionStart,  \* the agent a session starts in
  None

Servers(rel) == DOMAIN rel.servers
Agents(rel)  == DOMAIN rel.agents

(* _reached_by: which servers an agent reaches is derived from the servers. *)
ReachedBy(rel, a) == {s \in Servers(rel) : a \in rel.servers[s].reaches}
Sections(rel, a)  == {s \in ReachedBy(rel, a) : s \in rel.shared \/ <<s, a>> \in rel.overrides}

(* load refuses a release that breaks any of these.                        *)
ReachesKnownAgents(rel)     == \A s \in Servers(rel) : rel.servers[s].reaches \subseteq Agents(rel)
DelegatesToKnownAgents(rel) == \A a \in Agents(rel) : rel.agents[a].delegates \subseteq Agents(rel)
ReachesAnAgent(rel)         == \A s \in Servers(rel) : rel.servers[s].reaches # {}
ConventionReferenced(rel) ==
  \A a \in Agents(rel) : ReachedBy(rel, a) = rel.agents[a].mentions \cup Sections(rel, a)
OverridesWired(rel) == \A o \in rel.overrides : o[1] \in ReachedBy(rel, o[2])
SectionsKnown(rel)  == rel.shared \cup rel.ambient \subseteq Servers(rel)
SessionStarts(rel)  == SessionStart \in Agents(rel) /\ rel.agents[SessionStart].primary

Loadable(rel) ==
  /\ ReachesKnownAgents(rel) /\ DelegatesToKnownAgents(rel) /\ ReachesAnAgent(rel)
  /\ ConventionReferenced(rel) /\ OverridesWired(rel) /\ SectionsKnown(rel)
  /\ SessionStarts(rel)

ASSUME ReleasesLoad ==
  /\ None \notin Keys /\ Malformed \subseteq Keys
  /\ \A r \in DOMAIN Releases :
       /\ Loadable(Releases[r])
       /\ Releases[r].mcp \in Seq(Servers(Releases[r])) /\ IsInjective(Releases[r].mcp)
       /\ Range(Releases[r].mcp) = Servers(Releases[r])
       /\ Servers(Releases[r]) \subseteq Keys \ Malformed

-----------------------------------------------------------------------------
(* parse_mcp_choice: a selection maps each chosen server to the key it is   *)
(* bound to, None for one darq administers.                                *)
KeyFor(chosen, s) == IF chosen[s] = None THEN s ELSE chosen[s]
Bound(chosen)     == {s \in DOMAIN chosen : chosen[s] # None}
Readable(chosen)  == \A s \in Bound(chosen) : chosen[s] \notin Malformed

(* select_mcp refuses a server the release does not ship, and narrows the   *)
(* rest: an agent reaches a server under the key that server was bound to.  *)
(* (mcp keeps the release's order; chosen says which of it is there.)      *)
Known(rel, chosen) == DOMAIN chosen \subseteq Servers(rel)
Denied(rel, chosen, a) ==
  UNION {{<<KeyFor(chosen, s), t>> : t \in rel.servers[s].withheld} :
           s \in ReachedBy(rel, a) \cap DOMAIN chosen}
Selected(rel, chosen) ==
  [mcp    |-> rel.mcp,
   chosen |-> chosen,
   servers |-> [s \in DOMAIN chosen |-> rel.servers[s]],
   ambient |-> rel.ambient \cap DOMAIN chosen,
   agents |-> [a \in Agents(rel) |->
     [primary      |-> rel.agents[a].primary,
      tools        |-> rel.agents[a].tools,
      delegates    |-> rel.agents[a].delegates,
      configurable |-> rel.agents[a].configurable,
      optional     |-> {KeyFor(chosen, s) : s \in ReachedBy(rel, a) \cap DOMAIN chosen},
      sections     |-> Sections(rel, a) \cap DOMAIN chosen,
      denied       |-> Denied(rel, chosen, a),
      granted      |-> {},
      directories  |-> {}]]]

(* per_agent_mcp_keys: the keys some agents reach and others may not.       *)
PerAgentKeys(content) ==
  DOMAIN content.chosen \cup UNION {content.agents[a].optional : a \in DOMAIN content.agents}

(* grant_mcp: refused for a key that is malformed or already per agent,     *)
(* unless that one may be dropped; what is left goes to every agent.        *)
Collisions(content, keys) == keys \cap PerAgentKeys(content)
GrantRefused(content, keys, droppable) ==
  keys \cap Malformed # {} \/ ~ (Collisions(content, keys) \subseteq droppable)
Kept(content, keys) == keys \ Collisions(content, keys)
Granted(content, keys, dirs) ==
  [content EXCEPT !.agents = [a \in DOMAIN content.agents |->
     [content.agents[a] EXCEPT !.granted = Kept(content, keys), !.directories = dirs]]]

-----------------------------------------------------------------------------
(* Directories are sequences of names from the root.                       *)
DenyFloor == {<<".ssh">>, <<".aws">>, <<".credentials">>, <<"secrets">>, <<".config", "gh">>}

Passes(path, floor) ==
  \E i \in 1..Len(path) :
    i + Len(floor) - 1 <= Len(path) /\ SubSeq(path, i, i + Len(floor) - 1) = floor
(* deny_floor_shadows: the path is, or lies under, a directory of the floor. *)
Shadowed(path) == \E f \in DenyFloor : Passes(path, f)

(* validate_granted_directory: never the root, nor an ancestor of the CLI's *)
(* configuration or of darq's own data. A relative path, one with "..", or  *)
(* one with a wildcard is refused too, and is no sequence of names here.    *)
DirectoryAccepted(path, configDir, dataDir) ==
  path # << >> /\ ~ IsPrefix(path, configDir) /\ ~ IsPrefix(path, dataDir)
=============================================================================
