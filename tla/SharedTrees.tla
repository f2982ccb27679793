------------------------------ MODULE SharedTrees ------------------------------
(***************************************************************************)
(* The servers darq downloads (core/dependencies.py) live in one folder,   *)
(* <server>/<version>, that every CLI's configuration points into. This    *)
(* module follows one tree per server and version through the commands of  *)
(* cli.py that make and remove them: install and update (snapshot, fetch,  *)
(* apply, retire, journal, prune), uninstall, and restore; with every way  *)
(* they fail half way. One command runs at a time.                         *)
(*                                                                         *)
(* A CLI's configuration is the set of trees its servers run from, one per *)
(* server; Planner has the detail of writing it. A release pins a version  *)
(* of every server, which stands for its digest too. An install that       *)
(* selects no server is, here, no install.                                 *)
(***************************************************************************)
EXTENDS Naturals, Sequences

CONSTANTS
  Clis,        \* the CLIs darq installs into
  Servers,     \* MCP servers darq materializes
  Versions,
  Pins,        \* release -> server -> the version it pins
  Setups,      \* what the user does and what fails, in one behaviour
  MaxRuns      \* a bound on the instance TLC explores

Trees    == [server: Servers, version: Versions]
Releases == DOMAIN Pins

Restorable == {"install", "uninstall", "restore", "older"}
Faults     == {"download", "place", "lockfile", "apply", "retire", "save", "prune", "crash", "rmtree"}

(* selections: per CLI, those of servers a user may make in it; uninstalls: *)
(* the CLIs the user may uninstall from; restores: what a user may restore, *)
(* by the command that made it when it is the newest, "older" otherwise;    *)
(* failures: what fails, at most maxFaults times.                           *)
Setup == [selections: [Clis -> SUBSET (SUBSET Servers \ {{}})], uninstalls: SUBSET Clis,
          restores: SUBSET Restorable, failures: SUBSET Faults, maxFaults: Nat]

ASSUME Parameters ==
  /\ Pins \in Seq([Servers -> Versions]) /\ Pins # << >>
  /\ Setups \subseteq Setup
  /\ MaxRuns \in Nat

VARIABLES
  tree,     \* on disk: "absent", "partial" or "whole"
  config,   \* CLI -> the trees its configuration runs
  journal,  \* CLI -> the dependency-tree and config-key records it holds
  snaps,    \* snapshot generations
  release,  \* the release of darq in use
  setup,    \* one of Setups, all along
  run,      \* the command running, and what it has in memory
  last,     \* ghost: CLI -> the trees its last install replaced
  strays,   \* ghost: servers of which a command left a tree no record knows
  died,     \* ghost: a command died, or its rollback ran
  runs, faults   \* bounds

disk   == <<tree, config, journal>>
ghosts == <<last, strays, died>>
vars   == <<disk, snaps, release, setup, run, ghosts, runs, faults>>

NotInstalled == [trees |-> {}, keys |-> {}]
NoRun == [phase |-> "idle"]

-----------------------------------------------------------------------------
ServersOf(T) == {t.server : t \in T}
Tree(s) == [server |-> s, version |-> Pins[release][s]]
Without(T) == [t \in Trees |-> IF t \in T THEN "absent" ELSE tree[t]]

(* Broken: takes any tree that is there for this CLI's own.                *)
KeepsAnyTree(c, wanted) == {t \in wanted : tree[t] # "absent"}

(* _kept_dependency: this CLI's journal has the very version, and its      *)
(* folder exists.                                                          *)
Kept(c, wanted) == {t \in wanted \cap journal[c].trees : tree[t] # "absent"}

(* A key that is there and not in the journal is the user's: it is left.   *)
Skipped(c, sel) == {s \in sel \ journal[c].keys : s \in ServersOf(config[c])}

(* Broken: the key of an older version stays beside the new one.           *)
PlacedBeside(c, sel) == config[c] \cup {Tree(s) : s \in sel}

(* The configuration once apply, and then retire, have run.                *)
Placed(c, sel) ==
  LET left == Skipped(c, sel) IN
  {t \in config[c] : t.server \notin sel \/ t.server \in left}
    \cup {Tree(s) : s \in sel \ left}
Retired(c, sel) == {t \in Placed(c, sel) : t.server \in sel \/ t.server \notin journal[c].keys}

(* _stale_dependencies: recorded trees of servers no longer selected.      *)
Stale(c, sel) == {t \in journal[c].trees : t.server \notin sel}

(* One generation: the configuration when it is touched, the journal of    *)
(* every CLI, and the trees that were not there; what it was is a ghost.   *)
Snapshot(op, c, touched, fresh) ==
  [op |-> op, cli |-> c,
   config |-> IF touched THEN {config[c]} ELSE {},
   journal |-> journal,
   absent |-> {t \in fresh : tree[t] = "absent"},
   was |-> [config |-> config, journal |-> journal, tree |-> tree, strays |-> strays]]

Init ==
  /\ setup \in Setups
  /\ tree = [t \in Trees |-> "absent"]
  /\ config = [c \in Clis |-> {}]
  /\ journal = [c \in Clis |-> NotInstalled]
  /\ snaps = << >>
  /\ release = 1
  /\ run = NoRun
  /\ last = [c \in Clis |-> {}] /\ strays = {} /\ died = FALSE
  /\ runs = 0 /\ faults = 0

Fails(kind) == kind \in setup.failures /\ faults < setup.maxFaults /\ faults' = faults + 1

(* darq is replaced by a newer release.                                    *)
NewRelease ==
  /\ run = NoRun /\ release + 1 \in Releases
  /\ release' = release + 1
  /\ UNCHANGED <<setup, disk, snaps, run, ghosts, runs, faults>>

-----------------------------------------------------------------------------
(* install and update.                                                     *)

(* Up to the snapshot, which names the trees about to be fetched.          *)
Install(c, sel) ==
  LET wanted == {Tree(s) : s \in sel}
      fresh  == wanted \ Kept(c, wanted)
  IN
  /\ run = NoRun /\ runs < MaxRuns
  /\ snaps' = Append(snaps, Snapshot("install", c, Retired(c, sel) # config[c], fresh))
  /\ run' = [phase |-> "fetch", op |-> "install", cli |-> c, sel |-> sel,
             wanted |-> wanted, todo |-> fresh, created |-> {},
             prev |-> journal[c], conf |-> config[c]]
  /\ runs' = runs + 1
  /\ UNCHANGED <<setup, disk, release, ghosts, faults>>

(* _materialize_dependencies: one server after another.                    *)
Fetch(t) ==
  /\ run.phase = "fetch" /\ t \in run.todo
  /\ tree' = [tree EXCEPT ![t] = "whole"]
  /\ run' = [run EXCEPT !.todo = @ \ {t}, !.created = @ \cup {t}]
  /\ UNCHANGED <<setup, config, journal, snaps, release, ghosts, runs, faults>>

(* _undo_dependencies: a folder that resists its removal stays, and that   *)
(* is not reported.                                                        *)
Resisting(T) == IF "rmtree" \in setup.failures THEN SUBSET T ELSE {{}}

(* A command ends before its record, and may leave these trees, of which   *)
(* nobody knows where its generation had found nothing.                    *)
LeavesBehind(T) ==
  strays' = strays \cup ServersOf({t \in T \cap snaps[Len(snaps)].absent : tree'[t] # "absent"})

(* A fetch fails: before anything is written, with its folder cleaned up   *)
(* (_clean_up), or with a lockfile half written. The trees this run made   *)
(* before it are removed, and the command ends.                            *)
FailedTree(t, kept) ==
  \/ Fails("download") /\ tree' = Without(run.created \ kept)
  \/ Fails("place") /\ tree' = Without((run.created \cup {t}) \ kept)
  \/ /\ Fails("lockfile") /\ tree[t] = "absent"
     /\ tree' = [Without(run.created \ kept) EXCEPT ![t] = "partial"]
FetchFails(t) ==
  /\ run.phase = "fetch" /\ t \in run.todo
  /\ \E kept \in Resisting(run.created \cup {t}) :
       FailedTree(t, kept) /\ LeavesBehind(kept \cup {u \in {t} : tree'[u] = "partial"})
  /\ run' = NoRun
  /\ UNCHANGED <<setup, config, journal, snaps, release, last, died, runs>>

(* planner.apply, for the configuration.                                   *)
Apply ==
  /\ run.phase = "fetch" /\ run.todo = {}
  /\ config' = [config EXCEPT ![run.cli] = Placed(run.cli, run.sel)]
  /\ run' = [run EXCEPT !.phase = "keys", !.todo = Stale(run.cli, run.sel)]
  /\ UNCHANGED <<setup, tree, journal, snaps, release, ghosts, runs, faults>>

(* apply undoes itself and raises; nothing handles that around it.         *)
ApplyFails ==
  /\ run.phase = "fetch" /\ run.todo = {} /\ Fails("apply")
  /\ run' = NoRun
  /\ UNCHANGED <<setup, disk, snaps, release, last, died, runs>>
  /\ LeavesBehind(run.created)

(* planner.retire takes keys out before trees.                             *)
RetireKeys ==
  /\ run.phase = "keys"
  /\ config' = [config EXCEPT ![run.cli] =
       {t \in @ : t.server \in run.sel \/ t.server \notin journal[run.cli].keys}]
  /\ run' = [run EXCEPT !.phase = "trees"]
  /\ UNCHANGED <<setup, tree, journal, snaps, release, ghosts, runs, faults>>

(* A tree waits for the keys that run it.                                  *)
KeysGone == run.phase = "trees"

RetireTree(t) ==
  /\ KeysGone /\ t \in run.todo
  /\ tree' = [tree EXCEPT ![t] = "absent"]
  /\ run' = [run EXCEPT !.todo = @ \ {t}]
  /\ UNCHANGED <<setup, config, journal, snaps, release, ghosts, runs, faults>>

(* _undo_placements and _undo_dependencies, of an install: the document    *)
(* goes back when any of its keys was updated, the keys this run created   *)
(* come out when none was; every tree in placed goes, kept ones included.  *)
Updated == {s \in run.sel \cap run.prev.keys :
              s \in ServersOf(run.conf) /\ Tree(s) \notin run.conf}
(* Broken: what this run fetched is not taken back.                        *)
UndoneKept == run.wanted \ run.created

Undone == run.wanted

RolledBack ==
  /\ \E back \in {b \in BOOLEAN : Updated # {} => b} :
       config' = [config EXCEPT ![run.cli] =
         IF back THEN run.conf ELSE {t \in @ : t.server \in ServersOf(run.conf)}]
  /\ \E kept \in Resisting(Undone) : tree' = Without(Undone \ kept) /\ LeavesBehind(kept)
GivesUp ==
  /\ IF run.op = "install" THEN RolledBack ELSE UNCHANGED <<tree, config, strays>>
  /\ died' = TRUE
  /\ run' = NoRun
  /\ UNCHANGED <<setup, journal, snaps, release, last, runs>>

RetireFails == run.phase \in {"keys", "trees"} /\ Fails("retire") /\ GivesUp
SaveFails == run.phase = "trees" /\ run.todo = {} /\ Fails("save") /\ GivesUp

(* _merged, or without_install, and store.save.                            *)
NewRecord ==
  IF run.op = "uninstall" THEN NotInstalled
  ELSE [trees |-> run.wanted,
        keys  |-> {s \in run.sel : s \in run.prev.keys \/ s \notin ServersOf(run.conf)}]
Save ==
  /\ run.phase = "trees" /\ run.todo = {}
  /\ journal' = [journal EXCEPT ![run.cli] = NewRecord]
  /\ run' = [run EXCEPT !.phase = "prune"]
  /\ last' = [last EXCEPT ![run.cli] =
                IF run.op = "install" THEN run.prev.trees ELSE {}]
  /\ UNCHANGED <<setup, tree, config, snaps, release, strays, died, runs, faults>>

RecordedTrees == UNION {journal[c].trees : c \in Clis}
(* Broken: what this run replaced is not kept.                             *)
ForgetsPrevious == RecordedTrees \cup run.wanted

(* What _prune_dependencies keeps.                                         *)
Keep == RecordedTrees \cup (IF run.op = "install" THEN run.prev.trees \cup run.wanted ELSE {})

(* Broken: looks only at what was asked for now.                           *)
ManagesWanted == ServersOf(run.wanted)

(* The servers it looks at.                                                *)
Managed == ServersOf(RecordedTrees \cup run.prev.trees \cup run.wanted)

Prunable == {t \in Trees : t.server \in Managed /\ t \notin Keep}

(* Of the servers it looks at, what it does not remove is left.            *)
Removes(T) ==
  /\ tree' = Without(T)
  /\ strays' = (strays \ Managed) \cup ServersOf({t \in Prunable \ T : tree[t] # "absent"})
Prune ==
  /\ run.phase = "prune"
  /\ Removes(Prunable)
  /\ run' = NoRun
  /\ UNCHANGED <<setup, config, journal, snaps, release, last, died, runs, faults>>

(* A folder that will not go away is reported, and the command succeeds;   *)
(* or the process dies, with its record saved.                             *)
PruneFails ==
  /\ run.phase = "prune" /\ (Fails("prune") \/ Fails("crash"))
  /\ \E T \in SUBSET Prunable : Removes(T)
  /\ run' = NoRun
  /\ UNCHANGED <<setup, config, journal, snaps, release, last, died, runs>>

-----------------------------------------------------------------------------
(* uninstall: every key and every tree this CLI's journal records.         *)
Uninstall(c) ==
  /\ run = NoRun /\ runs < MaxRuns
  /\ c \in setup.uninstalls /\ journal[c] # NotInstalled
  /\ snaps' = Append(snaps, Snapshot("uninstall", c, TRUE, {}))
  /\ run' = [phase |-> "keys", op |-> "uninstall", cli |-> c, sel |-> {},
             wanted |-> {}, todo |-> journal[c].trees, created |-> {},
             prev |-> journal[c], conf |-> config[c]]
  /\ runs' = runs + 1
  /\ UNCHANGED <<setup, disk, release, ghosts, faults>>

(* restore: what the generation captured goes back, a tree it found absent *)
(* is removed; its own generation first.                                   *)
Kind(g) == IF g = Len(snaps) THEN snaps[g].op ELSE "older"
TreesAfter(s) == Without(s.absent)

(* Broken: puts the configuration back and not the journal.                *)
KeepsJournal(s) == journal

JournalAfter(s) == s.journal

Restore(g) ==
  LET s == snaps[g] IN
  /\ run = NoRun /\ runs < MaxRuns /\ Kind(g) \in setup.restores
  /\ snaps' = Append(snaps, Snapshot("restore", s.cli, s.config # {}, s.absent))
  /\ config' = IF s.config = {} THEN config
               ELSE [config EXCEPT ![s.cli] = CHOOSE held \in s.config : TRUE]
  /\ journal' = JournalAfter(s)
  /\ tree' = TreesAfter(s)
  /\ strays' = strays \cup s.was.strays
  /\ runs' = runs + 1
  /\ UNCHANGED <<setup, release, run, last, died, faults>>

(* The process dies before the journal is saved. A fetch that had begun    *)
(* leaves part of a tree, and so does a removal.                           *)
Torn ==
  IF run.phase = "fetch" THEN {t \in run.todo : tree[t] = "absent" \/ "rmtree" \in setup.failures}
  ELSE IF run.phase = "trees" /\ "rmtree" \in setup.failures THEN {t \in run.todo : tree[t] # "absent"}
  ELSE {}
Crash ==
  /\ run # NoRun /\ run.phase # "prune" /\ Fails("crash")
  /\ \/ UNCHANGED tree
     \/ \E t \in Torn : tree' = [tree EXCEPT ![t] = "partial"]
  /\ run' = NoRun /\ LeavesBehind(run.wanted) /\ died' = TRUE
  /\ UNCHANGED <<setup, config, journal, snaps, release, last, runs>>

Starts ==
  \/ NewRelease
  \/ \E c \in Clis : Uninstall(c) \/ \E sel \in setup.selections[c] : Install(c, sel)
  \/ \E g \in DOMAIN snaps : Restore(g)
Steps ==
  \/ (\E t \in Trees : Fetch(t) \/ RetireTree(t))
  \/ Apply \/ RetireKeys \/ Save \/ Prune
Errs ==
  \/ (\E t \in Trees : FetchFails(t))
  \/ ApplyFails \/ RetireFails \/ SaveFails \/ PruneFails \/ Crash

Next == Starts \/ Steps \/ Errs

Spec == Init /\ [][Next]_vars

-----------------------------------------------------------------------------
(* Properties.                                                             *)

JournalType == [Clis -> [trees: SUBSET Trees, keys: SUBSET Servers]]

(* Every variable holds what the code's types let it hold, and a           *)
(* configuration runs one tree per server.                                 *)
TypeOK ==
  /\ setup \in Setups
  /\ tree \in [Trees -> {"absent", "partial", "whole"}]
  /\ config \in [Clis -> SUBSET Trees]
  /\ \A c \in Clis : \A t, u \in config[c] : t.server = u.server => t = u
  /\ journal \in JournalType
  /\ \A g \in DOMAIN snaps :
       /\ snaps[g].op \in {"install", "uninstall", "restore"} /\ snaps[g].cli \in Clis
       /\ snaps[g].config \subseteq SUBSET Trees
       /\ snaps[g].journal \in JournalType /\ snaps[g].absent \subseteq Trees
  /\ release \in Releases
  /\ run = NoRun \/ run.phase \in {"fetch", "keys", "trees", "prune"}
  /\ last \in [Clis -> SUBSET Trees] /\ strays \subseteq Servers /\ died \in BOOLEAN
  /\ runs \in 0..MaxRuns /\ faults \in 0..setup.maxFaults

(* At every moment of every command that does not die, whatever fails,     *)
(* what a CLI's configuration runs is on disk, whole: it is fetched before *)
(* it is configured, unconfigured before it is removed, and never pruned   *)
(* while any CLI uses it (_prune_dependencies: "decided against the whole  *)
(* journal, never one install"). When one has died, that still holds of    *)
(* the servers whose key and tree the journal records.                     *)
Recorded(j, c, t) == t \in j[c].trees /\ t.server \in j[c].keys
ServersRunnable ==
  \A c \in Clis : \A t \in config[c] :
    ~died \/ Recorded(journal, c, t) => tree[t] = "whole"

(* restore of the newest generation undoes the last command exactly, in    *)
(* the configuration and the journal of every CLI (MANUAL.md:231), even    *)
(* when that command died half way; and it leaves none of the trees that   *)
(* command fetched where there were none.                                  *)
RestoreUndoes ==
  [][\A g \in DOMAIN snaps :
       Restore(g) /\ g = Len(snaps) =>
         /\ config' = snaps[g].was.config /\ journal' = snaps[g].was.journal
         /\ \A t \in Trees : snaps[g].was.tree[t] = "absent" => tree'[t] = "absent"]_vars

(* "one restore back to the previous generation still finds its binary"    *)
(* (_prune_dependencies): undoing the last command leaves runnable what    *)
(* was runnable before it, and recorded.                                   *)
OneStepBack ==
  [][\A g \in DOMAIN snaps :
       Restore(g) /\ g = Len(snaps) =>
         \A c \in Clis : \A t \in snaps[g].was.config[c] :
           Recorded(snaps[g].was.journal, c, t) /\ snaps[g].was.tree[t] = "whole"
             => tree'[t] = "whole"]_vars

(* Between commands every version on disk is one some CLI records, or the  *)
(* one its last install replaced: old versions do not pile up              *)
(* (MANUAL.md:227). A rollback leaves it so. Of a server of which a death, *)
(* a failed apply or a failing removal left a tree, it is so again once a  *)
(* command that looks at that server has pruned.                           *)
TreesAccounted ==
  run = NoRun =>
    \A t \in Trees : tree[t] # "absent" /\ t.server \notin strays =>
      t \in RecordedTrees \/ \E c \in Clis : t \in last[c]

(* The rollback removes only what this run placed (cli.py:962).            *)
RollbackKeepsOthers ==
  [][RetireFails \/ SaveFails =>
       \A t \in Trees \ run.created :
         t.server \in run.sel /\ tree[t] = "whole" => tree'[t] = "whole"]_vars
=============================================================================
