-------------------------------- MODULE Grants --------------------------------
(***************************************************************************)
(* The commands that change a part of one installation and reapply it       *)
(* whole: install and update, models set / unset / apply, mcp grant /       *)
(* revoke, directory grant / revoke, uninstall and restore (cli.py). Each   *)
(* rebuilds the selection from the journal's records, renders every agent   *)
(* again, records, and only then saves the model assignments, which live in *)
(* a store of their own (infra/model_assignment_store_file.py) that is in   *)
(* no snapshot.                                                            *)
(*                                                                         *)
(* A command that refuses changes nothing and is no step here. Planner and  *)
(* SnapshotStore have the detail of placing and restoring.                  *)
(***************************************************************************)
EXTENDS Permissions

CONSTANTS
  Clis,
  WritesKeys,    \* CLIs with a configuration key per server (writes_mcp_config_key)
  ModelClis,     \* CLIs that declare a model per agent
  ConfigDir,     \* CLI -> its configuration directory
  DataDir,       \* darq's data directory
  Models,        \* models an agent may be assigned
  Asks,       \* CLI -> the selections a user may ask of install
  Directories,   \* directories a user may try to grant
  Declarable,    \* CLI -> keys a user may declare in its settings
  Failures,      \* "place", "record", "assign", "crash"
  MaxCommands, MaxEdits, MaxFaults   \* bounds on the instance TLC explores

Everyone == UNION {Agents(Releases[r]) : r \in DOMAIN Releases}
Shipping == UNION {Servers(Releases[r]) : r \in DOMAIN Releases}

ASSUME Parameters ==
  /\ Releases \in Seq(Range(Releases)) \ {<< >>}
  /\ WritesKeys \subseteq Clis /\ ModelClis \subseteq Clis
  /\ \A c \in Clis : \A chosen \in Asks[c] : chosen \in [DOMAIN chosen -> Keys \cup {None}]
  /\ Declarable \in [Clis -> SUBSET Keys] /\ None \notin Models
  /\ Directories \subseteq Seq(STRING)
  /\ Failures \subseteq {"place", "record", "assign", "crash"}
  /\ {MaxCommands, MaxEdits, MaxFaults} \subseteq Nat

VARIABLES
  release,    \* the release of darq in use
  own,        \* CLI -> the server keys its user declared in its settings
  reachable,  \* models the CLI's providers offer
  journal,    \* CLI -> its record, or None
  config,     \* CLI -> what its agents were last rendered from, or None
  store,      \* CLI -> agent -> the model assigned to it, or None
  snap,       \* the newest generation: what its command found
  run,        \* the command running, and what it has in memory
  asked,      \* ghost: CLI -> the selection its record was made from
  torn,       \* ghost: CLIs whose last command died before the journal
  behind,     \* ghost: CLIs rendered from other assignments than are stored
  commands, edits, faults   \* bounds

disk   == <<journal, config, store>>
ghosts == <<asked, torn, behind>>
bounds == <<commands, edits, faults>>
vars   == <<release, own, reachable, disk, snap, run, ghosts, bounds>>

Idle == [phase |-> "idle"]
Nothing == [s \in {} |-> None]
Rel == Releases[release]

-----------------------------------------------------------------------------
(* What a command works out before it writes anything.                     *)

Installed(c) == journal[c] # None
RecordedGrants(c) == IF Installed(c) THEN journal[c].granted ELSE {}
RecordedDirs(c)   == IF Installed(c) THEN journal[c].directories ELSE {}

(* _mcp_update_selection: a server with a key of its own, one that was      *)
(* bound, and, in a CLI that never writes a key, one known by its           *)
(* convention only. In the others that is a binding nobody recorded.        *)
Unresolved(c, j) ==
  IF c \in WritesKeys THEN j.conventions \ (j.keys \cup DOMAIN j.bindings) ELSE {}

(* Broken: a server with no key of its own and no binding is forgotten.     *)
KeyedOnly(c, j) ==
  [s \in j.keys \cup (j.conventions \cap DOMAIN j.bindings) |->
     IF s \notin j.keys THEN j.bindings[s] ELSE None]

Selection(c, j) ==
  [s \in (j.conventions \cup j.keys) \ Unresolved(c, j) |->
     IF s \notin j.keys /\ s \in DOMAIN j.bindings THEN j.bindings[s] ELSE None]

Reappliable(c) ==
  /\ Installed(c)
  /\ Unresolved(c, journal[c]) = {}
  /\ Known(Rel, Selection(c, journal[c]))

(* Broken: a server is expected in the settings of every CLI.               *)
Anywhere(c, chosen) == DOMAIN chosen \ Bound(chosen)

(* A shipped server's key is written, unless the settings have one by its   *)
(* name that the journal does not claim: the engine leaves that alone.      *)
Administered(c, chosen) == IF c \in WritesKeys THEN DOMAIN chosen \ Bound(chosen) ELSE {}
Clash(c, chosen) == Administered(c, chosen) \cap own[c]
Keyed(c, chosen) == Administered(c, chosen) \ Clash(c, chosen)

(* _resolve_model_overrides: an assignment to an agent this release does    *)
(* not configure, or of a model no provider offers, is set aside.           *)
Overrides(c, assigned) ==
  LET honored == {a \in Everyone :
                    /\ c \in ModelClis /\ assigned[a] \in reachable
                    /\ a \in Agents(Rel) /\ Rel.agents[a].configurable}
  IN  [a \in honored |-> assigned[a]]

(* Broken: the journal is told every key that was asked for.                *)
RecordsAsked(c, chosen, keys, dirs) ==
  [conventions |-> DOMAIN chosen, keys |-> Keyed(c, chosen),
   bindings |-> [s \in Bound(chosen) |-> chosen[s]],
   granted |-> keys, directories |-> dirs]

(* What an install of this selection would record and render.               *)
Recording(c, chosen, keys, dirs) ==
  [conventions |-> DOMAIN chosen, keys |-> Keyed(c, chosen),
   bindings |-> [s \in Bound(chosen) |-> chosen[s]],
   granted |-> Kept(Selected(Rel, chosen), keys), directories |-> dirs]
Rendering(c, chosen, keys, dirs, assigned) ==
  [release |-> release, chosen |-> chosen, keys |-> Keyed(c, chosen),
   granted |-> Kept(Selected(Rel, chosen), keys), directories |-> dirs,
   models |-> Overrides(c, assigned), offered |-> reachable]

(* install refuses a selection it cannot read or does not ship, a grant     *)
(* that collides (one the record already had is dropped instead) and a      *)
(* directory that may not be granted, recorded or not.                      *)
Acceptable(c, chosen, keys, dirs) ==
  /\ Known(Rel, chosen) /\ Readable(chosen)
  /\ ~ GrantRefused(Selected(Rel, chosen), keys, keys \cap RecordedGrants(c))
  /\ \A d \in dirs : DirectoryAccepted(d, ConfigDir[c], DataDir)

-----------------------------------------------------------------------------
(* What a generation holds of this CLI: its files and its record, never the *)
(* assignments.                                                            *)
Captured(c) == [cli |-> c, journal |-> journal[c], config |-> config[c], own |-> own[c],
                asked |-> asked[c], torn |-> c \in torn]

(* cli.install: everything above, then the snapshot.                        *)
Begin(c, op, chosen, keys, dirs, assigned, saves) ==
  /\ run = Idle /\ commands < MaxCommands
  /\ Acceptable(c, chosen, keys, dirs)
  /\ run' = [phase |-> "place", cli |-> c, op |-> op, saves |-> saves, assigned |-> assigned,
             journal |-> Recording(c, chosen, keys, dirs),
             config |-> Rendering(c, chosen, keys, dirs, assigned),
             asked |-> [chosen |-> chosen, clash |-> Clash(c, chosen)]]
  /\ snap' = Captured(c)
  /\ commands' = commands + 1
  /\ UNCHANGED <<release, own, reachable, disk, ghosts, edits, faults>>

(* What every other command than install hands to it.                       *)
Reapply(c, op, keys, dirs, assigned, saves) ==
  Reappliable(c) /\ Begin(c, op, Selection(c, journal[c]), keys, dirs, assigned, saves)

(* Broken: an install starts from no grant at all.                          *)
InstallAfresh(c, chosen) == Begin(c, "install", chosen, {}, {}, store[c], FALSE)

(* install --mcp ...: the grants, directories and assignments are carried   *)
(* over.                                                                   *)
Install(c, chosen) ==
  Begin(c, "install", chosen, RecordedGrants(c), RecordedDirs(c), store[c], FALSE)
(* A bare install is refused when it would drop a recorded selection.       *)
InstallBare(c) ==
  /\ Installed(c) => journal[c].conventions \cup journal[c].keys = {}
  /\ Begin(c, "bare", Nothing, RecordedGrants(c), RecordedDirs(c), store[c], FALSE)
Update(c) == Reapply(c, "update", RecordedGrants(c), RecordedDirs(c), store[c], FALSE)

(* _require_per_agent_model, _require_configurable_agent.                   *)
MayAssign(c, a) == c \in ModelClis /\ a \in Agents(Rel) /\ Rel.agents[a].configurable
ModelsSet(c, a, m) ==
  /\ MayAssign(c, a)
  /\ Reapply(c, "models", RecordedGrants(c), RecordedDirs(c), [store[c] EXCEPT ![a] = m], TRUE)
(* An agent with nothing assigned is already unset: nothing is done.        *)
ModelsUnset(c, a) ==
  /\ c \in ModelClis /\ store[c][a] # None
  /\ Reapply(c, "models", RecordedGrants(c), RecordedDirs(c), [store[c] EXCEPT ![a] = None], TRUE)
(* Assignments first, then removals: an agent named in both ends unset.     *)
(* (A batch without removals is ModelsSet, one without assignments unsets.) *)
ModelsApply(c, a, m, b) ==
  /\ MayAssign(c, a)
  /\ Reapply(c, "models", RecordedGrants(c), RecordedDirs(c),
             [store[c] EXCEPT ![a] = m, ![b] = None], TRUE)

(* _declared_mcp_keys: every key under "mcp" in the settings, darq's too.   *)
Declared(c) == own[c] \cup (IF config[c] = None THEN {} ELSE config[c].keys)
McpGrant(c, k) ==
  /\ k \in Declared(c)
  /\ Reapply(c, "mcp grant", RecordedGrants(c) \cup {k}, RecordedDirs(c), store[c], FALSE)
McpRevoke(c, k) ==
  /\ k \in RecordedGrants(c)
  /\ Reapply(c, "mcp revoke", RecordedGrants(c) \ {k}, RecordedDirs(c), store[c], FALSE)

DirectoryGrant(c, d) ==
  Reapply(c, "directory grant", RecordedGrants(c), RecordedDirs(c) \cup {d}, store[c], FALSE)
DirectoryRevoke(c, d) ==
  /\ d \in RecordedDirs(c) /\ DirectoryAccepted(d, ConfigDir[c], DataDir)
  /\ Reapply(c, "directory revoke", RecordedGrants(c), RecordedDirs(c) \ {d}, store[c], FALSE)

-----------------------------------------------------------------------------
(* install, from the placements on.                                        *)

Place ==
  /\ run.phase = "place"
  /\ config' = [config EXCEPT ![run.cli] = run.config]
  /\ run' = [run EXCEPT !.phase = "record"]
  /\ UNCHANGED <<release, own, reachable, journal, store, snap, ghosts, bounds>>

Record ==
  /\ run.phase = "record"
  /\ journal' = [journal EXCEPT ![run.cli] = run.journal]
  /\ asked' = [asked EXCEPT ![run.cli] = run.asked]
  /\ torn' = torn \ {run.cli}
  /\ IF run.saves
     THEN run' = [run EXCEPT !.phase = "assign"] /\ behind' = behind \cup {run.cli}
     ELSE run' = Idle /\ behind' = behind \ {run.cli}
  /\ UNCHANGED <<release, own, reachable, config, store, snap, bounds>>

(* The assignments are saved last, and only by the commands that name some. *)
Assign ==
  /\ run.phase = "assign"
  /\ store' = [store EXCEPT ![run.cli] = run.assigned]
  /\ behind' = behind \ {run.cli}
  /\ run' = Idle
  /\ UNCHANGED <<release, own, reachable, journal, config, snap, asked, torn, bounds>>

Fault(f) == f \in Failures /\ faults < MaxFaults /\ faults' = faults + 1

(* A placement or the journal fails: what was placed is undone.             *)
PlaceFails ==
  /\ Fault("place") /\ run.phase = "place"
  /\ run' = Idle
  /\ UNCHANGED <<release, own, reachable, disk, snap, ghosts, commands, edits>>
RecordFails ==
  /\ Fault("record") /\ run.phase = "record"
  /\ config' = [config EXCEPT ![run.cli] = snap.config]
  /\ run' = Idle
  /\ UNCHANGED <<release, own, reachable, journal, store, snap, ghosts, commands, edits>>
(* The assignments cannot be saved: the command fails, installed.           *)
AssignFails ==
  /\ Fault("assign") /\ run.phase = "assign"
  /\ run' = Idle
  /\ UNCHANGED <<release, own, reachable, disk, snap, ghosts, commands, edits>>

(* The process dies. Keys placed and not recorded then pass for the user's. *)
Crash ==
  /\ Fault("crash") /\ run # Idle
  /\ run' = Idle
  /\ IF run.phase = "record"
     THEN /\ torn' = torn \cup {run.cli} /\ behind' = behind \cup {run.cli}
          /\ own' = [own EXCEPT ![run.cli] = @ \cup
                       (config[run.cli].keys \ IF Installed(run.cli) THEN journal[run.cli].keys ELSE {})]
     ELSE UNCHANGED <<torn, behind, own>>
  /\ UNCHANGED <<release, reachable, disk, snap, asked, commands, edits>>

-----------------------------------------------------------------------------
(* uninstall and restore keep the assignments: no snapshot has them, and    *)
(* neither command touches their store.                                    *)
Uninstall(c) ==
  /\ run = Idle /\ commands < MaxCommands /\ Installed(c)
  /\ journal' = [journal EXCEPT ![c] = None]
  /\ config' = [config EXCEPT ![c] = None]
  /\ asked' = [asked EXCEPT ![c] = None]
  /\ torn' = torn \ {c}
  /\ snap' = Captured(c)
  /\ commands' = commands + 1
  /\ UNCHANGED <<release, own, reachable, store, run, behind, edits, faults>>

(* restore of the newest generation, which takes one of its own first. The  *)
(* settings go back whole when the command had to write them, and with them *)
(* what the user declared since.                                           *)
Restore ==
  /\ run = Idle /\ commands < MaxCommands /\ snap # None
  /\ LET c == snap.cli IN
     /\ journal' = [journal EXCEPT ![c] = snap.journal]
     /\ config' = [config EXCEPT ![c] = snap.config]
     /\ asked' = [asked EXCEPT ![c] = snap.asked]
     /\ torn' = IF snap.torn THEN torn \cup {c} ELSE torn \ {c}
     /\ behind' = behind \cup {c}
     /\ own' \in {own, [own EXCEPT ![c] = snap.own]}
     /\ snap' = Captured(c)
  /\ commands' = commands + 1
  /\ UNCHANGED <<release, reachable, store, run, edits, faults>>

-----------------------------------------------------------------------------
(* What happens outside darq, or to it.                                    *)
Edit == run = Idle /\ edits < MaxEdits /\ edits' = edits + 1
NewRelease ==
  /\ Edit /\ release < Len(Releases) /\ release' = release + 1
  /\ UNCHANGED <<own, reachable, disk, snap, run, ghosts, commands, faults>>
(* A user's own key, never one darq placed.                                *)
DeclareKey(c, k) ==
  /\ Edit
  /\ config[c] # None => k \notin config[c].keys
  /\ Installed(c) => k \notin journal[c].keys
  /\ own' = [own EXCEPT ![c] = IF k \in @ THEN @ \ {k} ELSE @ \cup {k}]
  /\ UNCHANGED <<release, reachable, disk, snap, run, ghosts, commands, faults>>
(* A credential is revoked, or a provider lists another model.              *)
ProviderChanges(m) ==
  /\ Edit /\ reachable' = IF m \in reachable THEN reachable \ {m} ELSE reachable \cup {m}
  /\ UNCHANGED <<release, own, disk, snap, run, ghosts, commands, faults>>

Init ==
  /\ release = 1 /\ reachable = Models
  /\ own \in {[c \in Clis |-> IF all THEN Declarable[c] ELSE {}] : all \in BOOLEAN}
  /\ journal = [c \in Clis |-> None] /\ config = journal /\ asked = journal
  /\ store = [c \in Clis |-> [a \in Everyone |-> None]]
  /\ snap = None /\ run = Idle
  /\ torn = {} /\ behind = {}
  /\ commands = 0 /\ edits = 0 /\ faults = 0

Command(c) ==
  \/ \E chosen \in Asks[c] : Install(c, chosen)
  \/ InstallBare(c)
  \/ Update(c)
  \/ \E a \in Everyone, m \in Models : ModelsSet(c, a, m)
  \/ \E a \in Everyone : ModelsUnset(c, a)
  \/ \E a, b \in Everyone, m \in Models : ModelsApply(c, a, m, b)
  \/ \E k \in Keys : McpGrant(c, k)
  \/ \E k \in Keys : McpRevoke(c, k)
  \/ \E d \in Directories : DirectoryGrant(c, d)
  \/ \E d \in Directories : DirectoryRevoke(c, d)
  \/ Uninstall(c)

Next ==
  \/ \E c \in Clis : Command(c)
  \/ Place \/ Record \/ Assign
  \/ PlaceFails \/ RecordFails \/ AssignFails \/ Crash
  \/ Restore
  \/ NewRelease
  \/ \E c \in Clis : \E k \in Declarable[c] : DeclareKey(c, k)
  \/ \E m \in Models : ProviderChanges(m)

Spec == Init /\ [][Next]_vars

-----------------------------------------------------------------------------
(* _per_agent_mcp_keys_for: where nothing is installed, none.               *)
AlreadyCovered(c) ==
  IF Installed(c) THEN PerAgentKeys(Selected(Rel, Selection(c, journal[c]))) ELSE {}

(* There is a list unless a binding is unresolved, when it says so and      *)
(* offers nothing, or the release dropped a recorded server, when it fails. *)
Listable(c) == Installed(c) => Reappliable(c)

(* Broken: what every agent has already through the release is offered too. *)
AllDeclared(c) == IF Listable(c) THEN Declared(c) \ RecordedGrants(c) ELSE {}

(* mcp_list: the keys offered for a grant.                                  *)
Available(c) ==
  IF Listable(c) THEN (Declared(c) \ RecordedGrants(c)) \ AlreadyCovered(c) ELSE {}

-----------------------------------------------------------------------------
(* Properties.                                                             *)

Selections == UNION {[S -> Keys \cup {None}] : S \in SUBSET Shipping}
AgentModels == UNION {[A -> Models] : A \in SUBSET Everyone}
RecordType ==
  [conventions: SUBSET Shipping, keys: SUBSET Shipping,
   bindings: UNION {[S -> Keys] : S \in SUBSET Shipping},
   granted: SUBSET Keys, directories: SUBSET Directories]
ConfigType ==
  [release: DOMAIN Releases, chosen: Selections, keys: SUBSET Shipping, granted: SUBSET Keys,
   directories: SUBSET Directories, models: AgentModels, offered: SUBSET Models]

ASSUME NotThere == None \notin RecordType /\ None \notin ConfigType

(* Type invariant: a record names servers a release ships and keys there    *)
(* are; a key of darq's own only in a CLI that has keys.                    *)
TypeOK ==
  /\ release \in DOMAIN Releases /\ own \in [Clis -> SUBSET Keys] /\ reachable \subseteq Models
  /\ journal \in [Clis -> RecordType \cup {None}] /\ config \in [Clis -> ConfigType \cup {None}]
  /\ store \in [Clis -> [Everyone -> Models \cup {None}]]
  /\ run.phase \in {"idle", "place", "record", "assign"}
  /\ torn \cup behind \subseteq Clis
  /\ \A c \in Clis \ WritesKeys : Installed(c) => journal[c].keys = {}

(* What the user's selection and grants mean, said without either CLI's     *)
(* rules: a tool is reached through a chosen server that reaches the agent  *)
(* and does not withhold it, or through a key granted to everyone.          *)
Intended(cfg, a, k, t) ==
  LET rel == Releases[cfg.release]
      bearers == {s \in DOMAIN cfg.chosen : KeyFor(cfg.chosen, s) = k}
  IN  IF bearers = {} THEN k \in cfg.granted
      ELSE \E s \in bearers : a \in rel.servers[s].reaches /\ t \notin rel.servers[s].withheld

Rendered(cfg) ==
  Granted(Selected(Releases[cfg.release], cfg.chosen), cfg.granted, cfg.directories)

(* No agent asks less than the user's leave for an outward command or a     *)
(* sensitive file.                                                         *)
LeaveIsAsked(content) ==
  \A a \in DOMAIN content.agents :
    LET agent == content.agents[a] IN
    /\ ~agent.primary => LastWins(Permission(agent), NativeCall("bash", "outward")) # "allow"
    /\ \A t \in {"read", "edit"} :
         /\ LastWins(Permission(agent), NativeCall(t, "sensitive")) # "allow"
         /\ ClaudeNative(agent, t, "sensitive") # "allow"
    /\ ClaudeNative(agent, "bash", "outward") # "allow"

(* A granted directory is open to the agents that touch files, unless it    *)
(* lies under the floor, which no grant lifts.                              *)
FloorHolds(c, content) ==
  \A a \in DOMAIN content.agents : \A d \in content.agents[a].directories :
    LET file == Append(d, "file")
        opened == ExternalDirectory(content.agents[a], Append(ConfigDir[c], "skills"), file) = "allow"
    IN  (opened <=> ~Shadowed(d)) /\ (ClaudeFile(file, FALSE) = "deny" <=> Shadowed(d))

(* What either CLI lets an agent do -- each of OpenCode's two tables on its *)
(* own -- and what a delegator is told of its targets, is what was selected *)
(* and granted: no rule of one server undoes a rule of another, however     *)
(* they were selected, bound and granted. Asked of what a command has just  *)
(* placed.                                                                 *)
RenderedAsIntended ==
  run.phase = "record" =>
    LET cfg == config[run.cli]
        content == Rendered(cfg)
    IN  /\ \A a \in DOMAIN content.agents, k \in Keys, t \in Tools :
             /\ OpencodeAllows(content.agents[a], k, t) <=> Intended(cfg, a, k, t)
             /\ OpencodeShows(content.agents[a], k, t) <=> Intended(cfg, a, k, t)
             /\ ClaudeReaches(content, a, k, t) <=> Intended(cfg, a, k, t)
             /\ a \in Targets(content) => (TableReaches(content, a, k, t) <=> Intended(cfg, a, k, t))
        /\ LeaveIsAsked(content)
        /\ FloorHolds(run.cli, content)

(* The selection rebuilt from the journal is the one that was asked for; a  *)
(* server whose key was the user's already is the one that cannot be.       *)
SelectionRoundTrip ==
  \A c \in Clis : Installed(c) =>
    LET was == asked[c] IN
    /\ Unresolved(c, journal[c]) = was.clash
    /\ Selection(c, journal[c]) = [s \in DOMAIN was.chosen \ was.clash |-> was.chosen[s]]

(* For a CLI in which something is installed, mcp list never offers a key   *)
(* that mcp grant would refuse: not for a binding nobody recorded, a server *)
(* the release dropped, a key of the release's own or a recorded directory. *)
(* (Where nothing is installed it offers every declared key, and mcp grant  *)
(* refuses them all.)                                                      *)
ListedIsGrantable ==
  \A c \in Clis : (run = Idle /\ Installed(c)) =>
    \A k \in Available(c) :
      /\ k \in Declared(c) /\ Reappliable(c)
      /\ Acceptable(c, Selection(c, journal[c]), RecordedGrants(c) \cup {k}, RecordedDirs(c))

(* Between commands the journal and the rendered agents agree, and so do    *)
(* the models and the assignments in the store, unless a command died       *)
(* before the journal, or failed or was undone about the store.             *)
RenderedIsRecorded ==
  \A c \in Clis : (run = Idle /\ c \notin torn) =>
    /\ Installed(c) <=> config[c] # None
    /\ Installed(c) =>
         /\ config[c].granted = journal[c].granted
         /\ config[c].directories = journal[c].directories
         /\ config[c].keys = journal[c].keys
    /\ (Installed(c) /\ c \notin behind) =>
         config[c].models =
           [a \in {b \in Agents(Releases[config[c].release]) :
                     /\ c \in ModelClis /\ store[c][b] \in config[c].offered
                     /\ Releases[config[c].release].agents[b].configurable} |-> store[c][a]]

(* A command that records keeps the grants and the directories there were,  *)
(* but the one it revokes, and a key that became a server's of the release; *)
(* an assignment goes only by a command about models.                       *)
KeptUntilRevoked ==
  [][\A c \in Clis :
       /\ (run.phase = "record" /\ Installed(c)) =>
            LET keys == journal[c].granted \ journal'[c].granted
                dirs == journal[c].directories \ journal'[c].directories
                covered == PerAgentKeys(Selected(Rel, run.asked.chosen))
            IN  /\ keys \ covered # {} => run.op = "mcp revoke" /\ Cardinality(keys \ covered) = 1
                /\ dirs # {} => run.op = "directory revoke" /\ Cardinality(dirs) = 1
       /\ store'[c] # store[c] => run.op = "models" /\ run.cli = c]_vars
=============================================================================
