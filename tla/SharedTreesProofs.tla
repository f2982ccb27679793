--------------------------- MODULE SharedTreesProofs ---------------------------
(***************************************************************************)
(* Theorems about SharedTrees, for any CLIs, servers, versions, releases,  *)
(* any number of commands, and whatever fails in them.                     *)
(***************************************************************************)
EXTENDS SharedTrees, TLAPS

Contents == {"absent", "partial", "whole"}
Configs  == {T \in SUBSET Trees : \A t, u \in T : t.server = u.server => t = u}
Record   == [trees: SUBSET Trees, keys: SUBSET Servers]
Was      == [config: [Clis -> Configs], journal: JournalType, tree: [Trees -> Contents],
             strays: SUBSET Servers]
Snap     == [op: {"install", "uninstall", "restore"}, cli: Clis, config: SUBSET Configs,
             journal: JournalType, absent: SUBSET Trees, was: Was]
Command  == [phase: {"fetch", "keys", "trees", "prune"}, op: {"install", "uninstall"}, cli: Clis,
             sel: SUBSET Servers, wanted: SUBSET Trees, todo: SUBSET Trees, created: SUBSET Trees,
             prev: Record, conf: Configs]

Types ==
  /\ setup \in Setups
  /\ tree \in [Trees -> Contents] /\ config \in [Clis -> Configs] /\ journal \in JournalType
  /\ snaps \in Seq(Snap) /\ release \in Releases /\ run \in Command \cup {NoRun}
  /\ last \in [Clis -> SUBSET Trees] /\ strays \in SUBSET Servers /\ died \in BOOLEAN
  /\ runs \in 0..MaxRuns /\ faults \in 0..setup.maxFaults

-----------------------------------------------------------------------------
(* The parts of a state.                                                   *)

LEMMA Running ==
  ASSUME Types, run.phase \in {"fetch", "keys", "trees", "prune"}
  PROVE  run \in Command /\ run # NoRun
BY DEF Types, NoRun

LEMMA Busy ==
  ASSUME Types, run # NoRun
  PROVE  run \in Command
BY DEF Types

LEMMA CommandIs ==
  ASSUME NEW r \in Command
  PROVE  /\ r.phase \in {"fetch", "keys", "trees", "prune"} /\ r.op \in {"install", "uninstall"}
         /\ r.cli \in Clis /\ r.sel \in SUBSET Servers /\ r.wanted \in SUBSET Trees
         /\ r.todo \in SUBSET Trees /\ r.created \in SUBSET Trees
         /\ r.prev \in Record /\ r.conf \in Configs /\ r # NoRun
BY DEF Command, NoRun

LEMMA RecordIs ==
  ASSUME NEW r \in Record
  PROVE  r.trees \in SUBSET Trees /\ r.keys \in SUBSET Servers
BY DEF Record

LEMMA JournalIs == JournalType = [Clis -> Record]
BY DEF JournalType, Record

LEMMA SnapIs ==
  ASSUME NEW s \in Snap
  PROVE  /\ s.op \in {"install", "uninstall", "restore"} /\ s.cli \in Clis
         /\ s.config \in SUBSET Configs /\ s.journal \in JournalType /\ s.absent \in SUBSET Trees
         /\ s.was \in Was
BY DEF Snap

LEMMA WasIs ==
  ASSUME NEW w \in Was
  PROVE  w.config \in [Clis -> Configs] /\ w.journal \in JournalType /\ w.tree \in [Trees -> Contents]
BY DEF Was

LEMMA SetupIs ==
  ASSUME Types
  PROVE  /\ setup.maxFaults \in Nat
         /\ \A c \in Clis : \A sel \in setup.selections[c] : sel \in SUBSET Servers
<1>1. setup \in Setup
  BY Parameters DEF Types
<1>2. setup.maxFaults \in Nat /\ setup.selections \in [Clis -> SUBSET (SUBSET Servers \ {{}})]
  BY <1>1 DEF Setup
<1> QED  BY <1>2

(* The releases are numbered, from the first one on.                       *)
LEMMA ReleasesAre ==
  /\ Releases \subseteq Nat \ {0} /\ 1 \in Releases /\ Pins \in [Releases -> [Servers -> Versions]]
  /\ \A r \in Releases : \A q \in 1..r : q \in Releases
<1>1. Len(Pins) \in Nat /\ DOMAIN Pins = 1..Len(Pins) /\ Len(Pins) # 0
  BY Parameters
<1>2. Pins \in [1..Len(Pins) -> [Servers -> Versions]]
  BY Parameters
<1> QED  BY <1>1, <1>2 DEF Releases

LEMMA TreeIs ==
  ASSUME Types, NEW s \in Servers
  PROVE  Tree(s) \in Trees /\ Tree(s).server = s
BY ReleasesAre DEF Types, Tree, Trees

LEMMA WithoutIs ==
  ASSUME Types, NEW T
  PROVE  /\ Without(T) \in [Trees -> Contents]
         /\ \A t \in Trees : Without(T)[t] = IF t \in T THEN "absent" ELSE tree[t]
BY DEF Types, Without, Contents

LEMMA ServersOfIs ==
  ASSUME NEW T \in SUBSET Trees
  PROVE  ServersOf(T) \in SUBSET Servers /\ \A t \in T : t.server \in ServersOf(T)
BY DEF ServersOf, Trees

LEMMA ResistingIs ==
  ASSUME NEW T
  PROVE  \A kept \in Resisting(T) : kept \subseteq T
BY DEF Resisting

(* What a command leaves, its servers are told of.                         *)
LEMMA LeavesBehindIs ==
  ASSUME Types, NEW T \in SUBSET Trees, LeavesBehind(T)
  PROVE  /\ strays' \in SUBSET Servers /\ strays \subseteq strays'
         /\ \A t \in T \cap snaps[Len(snaps)].absent : tree'[t] # "absent" => t.server \in strays'
<1> DEFINE left == {t \in T \cap snaps[Len(snaps)].absent : tree'[t] # "absent"}
<1>1. left \in SUBSET Trees /\ strays' = strays \cup ServersOf(left)
  BY DEF LeavesBehind
<1>2. \A t \in T \cap snaps[Len(snaps)].absent : tree'[t] # "absent" => t \in left
  OBVIOUS
<1> HIDE DEF left
<1> QED  BY <1>1, <1>2, ServersOfIs DEF Types

LEMMA FailsIs ==
  ASSUME Types, NEW kind, Fails(kind), UNCHANGED setup
  PROVE  faults' \in 0..setup'.maxFaults
BY SetupIs DEF Types, Fails

(* One tree per server, whatever was selected.                             *)
LEMMA PlacedIs ==
  ASSUME Types, NEW c \in Clis, NEW sel \in SUBSET Servers
  PROVE  Placed(c, sel) \in Configs /\ Retired(c, sel) \in Configs
<1> DEFINE left == Skipped(c, sel)
<1>1. config[c] \in SUBSET Trees /\ \A t, u \in config[c] : t.server = u.server => t = u
  BY DEF Types, Configs
<1>2. \A s \in sel : Tree(s) \in Trees /\ Tree(s).server = s
  BY TreeIs
<1>3. Placed(c, sel) = {t \in config[c] : t.server \notin sel \/ t.server \in left}
                         \cup {Tree(s) : s \in sel \ left}
  BY DEF Placed
<1> HIDE DEF left
<1>4. Placed(c, sel) \in SUBSET Trees
  BY <1>1, <1>2, <1>3
<1>5. ASSUME NEW t \in Placed(c, sel), NEW u \in Placed(c, sel), t.server = u.server PROVE t = u
  BY <1>1, <1>2, <1>3, <1>5
<1>6. Retired(c, sel) \subseteq Placed(c, sel)
  BY DEF Retired
<1> QED  BY <1>4, <1>5, <1>6 DEF Configs

LEMMA SnapshotIs ==
  ASSUME Types, NEW op \in {"install", "uninstall", "restore"}, NEW c \in Clis,
         NEW touched \in BOOLEAN, NEW fresh \in SUBSET Trees
  PROVE  Snapshot(op, c, touched, fresh) \in Snap
<1> DEFINE held == IF touched THEN {config[c]} ELSE {}
           gone == {t \in fresh : tree[t] = "absent"}
           was  == [config |-> config, journal |-> journal, tree |-> tree, strays |-> strays]
<1>1. held \in SUBSET Configs /\ gone \in SUBSET Trees /\ was \in Was
  BY DEF Types, Was
<1>2. Snapshot(op, c, touched, fresh) =
        [op |-> op, cli |-> c, config |-> held, journal |-> journal, absent |-> gone, was |-> was]
  BY DEF Snapshot
<1> HIDE DEF held, gone, was
<1> QED  BY <1>1, <1>2 DEF Snap, Types

-----------------------------------------------------------------------------
(* Every step keeps the types.                                             *)

LEMMA TypesInit == Init => Types
<1> SUFFICES ASSUME Init PROVE Types  OBVIOUS
<1>1. setup \in Setups /\ setup.maxFaults \in Nat
  BY Parameters DEF Init, Setup
<1>2. NotInstalled \in Record /\ {} \in Configs
  BY DEF NotInstalled, Record, Configs
<1>3. tree \in [Trees -> Contents] /\ config \in [Clis -> Configs] /\ journal \in [Clis -> Record]
        /\ last \in [Clis -> SUBSET Trees] /\ strays \in SUBSET Servers /\ died \in BOOLEAN
  BY <1>2 DEF Init, Contents
<1>4. 1 \in Releases /\ MaxRuns \in Nat
  BY Parameters, ReleasesAre
<1>5. snaps \in Seq(Snap) /\ release \in Releases /\ run = NoRun /\ runs = 0 /\ faults = 0
  BY <1>4 DEF Init
<1>6. runs \in 0..MaxRuns /\ faults \in 0..setup.maxFaults
  BY <1>1, <1>4, <1>5
<1> QED  BY <1>1, <1>3, <1>5, <1>6, JournalIs DEF Types

LEMMA InstallTypes ==
  ASSUME Types, NEW c \in Clis, NEW sel \in setup.selections[c], Install(c, sel)
  PROVE  Types'
<1> DEFINE wanted == {Tree(s) : s \in sel}
           fresh  == wanted \ Kept(c, wanted)
           held   == journal[c]
           conf   == config[c]
<1>1. sel \in SUBSET Servers
  BY SetupIs
<1>2. wanted \in SUBSET Trees /\ fresh \in SUBSET Trees
  BY <1>1, TreeIs
<1>3. held \in Record /\ conf \in Configs
  BY JournalIs DEF Types
<1>4. Snapshot("install", c, Retired(c, sel) # config[c], fresh) \in Snap
  BY <1>2, SnapshotIs
<1>5. snaps' = Append(snaps, Snapshot("install", c, Retired(c, sel) # config[c], fresh))
  BY DEF Install
<1>6. run' = [phase |-> "fetch", op |-> "install", cli |-> c, sel |-> sel, wanted |-> wanted, todo |-> fresh,
              created |-> {}, prev |-> held, conf |-> conf]
  BY DEF Install
<1>7. runs' \in 0..MaxRuns
  BY Parameters DEF Install, Types
<1>8. UNCHANGED <<setup, tree, config, journal, release, last, strays, died, faults>>
  BY DEF Install, disk, ghosts
<1> HIDE DEF wanted, fresh, held, conf
<1>9. run' \in Command
  BY <1>1, <1>2, <1>3, <1>6 DEF Command
<1>10. snaps' \in Seq(Snap)
  BY <1>4, <1>5 DEF Types
<1> QED  BY <1>7, <1>8, <1>9, <1>10 DEF Types

LEMMA UninstallTypes ==
  ASSUME Types, NEW c \in Clis, Uninstall(c)
  PROVE  Types'
<1> DEFINE held == journal[c]
           conf == config[c]
           new  == Snapshot("uninstall", c, TRUE, {})
<1>1. held \in Record /\ conf \in Configs /\ held.trees \in SUBSET Trees
  BY JournalIs, RecordIs DEF Types
<1>2. new \in Snap
  BY SnapshotIs
<1>3. snaps' = Append(snaps, new)
  BY DEF Uninstall
<1>4. run' = [phase |-> "keys", op |-> "uninstall", cli |-> c, sel |-> {}, wanted |-> {}, todo |-> held.trees,
              created |-> {}, prev |-> held, conf |-> conf]
  BY DEF Uninstall
<1>5. runs' \in 0..MaxRuns
  BY Parameters DEF Uninstall, Types
<1>6. UNCHANGED <<setup, tree, config, journal, release, last, strays, died, faults>>
  BY DEF Uninstall, disk, ghosts
<1> HIDE DEF held, conf, new
<1>7. run' \in Command
  BY <1>1, <1>4 DEF Command
<1>8. snaps' \in Seq(Snap)
  BY <1>2, <1>3 DEF Types
<1> QED  BY <1>5, <1>6, <1>7, <1>8 DEF Types

(* A generation goes back to where it was taken.                           *)
LEMMA RestoredIs ==
  ASSUME Types, NEW g \in DOMAIN snaps, Restore(g)
  PROVE  /\ snaps[g] \in Snap
         /\ config' \in [Clis -> Configs] /\ journal' \in JournalType /\ tree' = Without(snaps[g].absent)
         /\ \A c \in Clis : c # snaps[g].cli \/ snaps[g].config = {} => config'[c] = config[c]
         /\ snaps[g].config # {} => config'[snaps[g].cli] \in snaps[g].config
<1> DEFINE s == snaps[g]
           held == CHOOSE h \in s.config : TRUE
<1>1. s \in Snap /\ config \in [Clis -> Configs]
  BY DEF Types
<1>2. s.config \in SUBSET Configs /\ s.cli \in Clis /\ s.journal \in JournalType
  BY <1>1, SnapIs
<1>3. s.config # {} => held \in s.config
  OBVIOUS
<1>4. config' = (IF s.config = {} THEN config ELSE [config EXCEPT ![s.cli] = held])
        /\ journal' = s.journal /\ tree' = Without(s.absent)
  BY DEF Restore, JournalAfter, TreesAfter
<1> HIDE DEF s, held
<1>5. config' \in [Clis -> Configs] /\ (\A c \in Clis : c # s.cli \/ s.config = {} => config'[c] = config[c])
        /\ (s.config # {} => config'[s.cli] \in s.config)
  BY <1>1, <1>2, <1>3, <1>4
<1> QED  BY <1>1, <1>2, <1>4, <1>5 DEF s

LEMMA RestoreTypes ==
  ASSUME Types, NEW g \in DOMAIN snaps, Restore(g)
  PROVE  Types'
<1> DEFINE s == snaps[g]
           new == Snapshot("restore", s.cli, s.config # {}, s.absent)
<1>1. s \in Snap /\ config' \in [Clis -> Configs] /\ journal' \in JournalType /\ tree' \in [Trees -> Contents]
  BY RestoredIs, WithoutIs
<1>2. s.cli \in Clis /\ s.absent \in SUBSET Trees
  BY <1>1, SnapIs
<1>3. new \in Snap
  BY <1>2, SnapshotIs
<1>4. snaps' = Append(snaps, new)
  BY DEF Restore
<1>5. runs' \in 0..MaxRuns
  BY Parameters DEF Restore, Types
<1>6. UNCHANGED <<setup, release, run, last, died, faults>> /\ strays' = strays \cup s.was.strays /\ s.was.strays \in SUBSET Servers
  BY <1>1, SnapIs DEF Restore, Was
<1> HIDE DEF new, s
<1>7. snaps' \in Seq(Snap)
  BY <1>3, <1>4 DEF Types
<1> QED  BY <1>1, <1>5, <1>6, <1>7 DEF Types

LEMMA FetchTypes ==
  ASSUME Types, NEW t \in Trees, Fetch(t)
  PROVE  Types' /\ run' \in Command
<1>1. run \in Command
  BY Running DEF Fetch
<1>2. run' = [run EXCEPT !.todo = run.todo \ {t}, !.created = run.created \cup {t}]
  BY DEF Fetch
<1>3. run' \in Command
  BY <1>1, <1>2 DEF Command
<1>4. tree' \in [Trees -> Contents]
  BY DEF Fetch, Types, Contents
<1>5. UNCHANGED <<setup, config, journal, snaps, release, last, strays, died, runs, faults>>
  BY DEF Fetch, ghosts
<1> QED  BY <1>3, <1>4, <1>5 DEF Types

LEMMA FetchFailsTypes ==
  ASSUME Types, NEW t \in Trees, FetchFails(t)
  PROVE  Types'
<1>1. UNCHANGED <<setup, config, journal, snaps, release, last, died, runs>> /\ run' = NoRun /\ run \in Command
  BY Running DEF FetchFails
<1>2. PICK kept \in Resisting(run.created \cup {t}) :
        FailedTree(t, kept) /\ LeavesBehind(kept \cup {u \in {t} : tree'[u] = "partial"})
  BY DEF FetchFails
<1>3. tree' \in [Trees -> Contents]
  <2>1. \A T : Without(T) \in [Trees -> Contents]
    BY WithoutIs
  <2> QED  BY <1>2, <2>1 DEF FailedTree, Contents
<1>4. faults' \in 0..setup'.maxFaults
  BY <1>1, <1>2, FailsIs DEF FailedTree
<1>5. strays' \in SUBSET Servers
  <2>1. kept \subseteq Trees
    BY <1>1, <1>2, ResistingIs, CommandIs
  <2> QED  BY <1>2, <2>1, LeavesBehindIs
<1> QED  BY <1>1, <1>3, <1>4, <1>5 DEF Types

LEMMA StaleIs ==
  ASSUME Types, NEW c \in Clis, NEW sel
  PROVE  Stale(c, sel) \in SUBSET Trees
BY JournalIs, RecordIs DEF Types, Stale

LEMMA ApplyTypes ==
  ASSUME Types, Apply
  PROVE  Types' /\ run' \in Command
<1> DEFINE c == run.cli
           placed == Placed(run.cli, run.sel)
           todo == Stale(run.cli, run.sel)
<1>1. run \in Command /\ c \in Clis /\ run.sel \in SUBSET Servers
  BY Running, CommandIs DEF Apply
<1>2. placed \in Configs /\ todo \in SUBSET Trees
  BY <1>1, PlacedIs, StaleIs
<1>3. run' = [run EXCEPT !.phase = "keys", !.todo = todo] /\ config' = [config EXCEPT ![c] = placed]
  BY DEF Apply
<1>4. UNCHANGED <<setup, tree, journal, snaps, release, last, strays, died, runs, faults>>
  BY DEF Apply, ghosts
<1> HIDE DEF c, placed, todo
<1>5. run' \in Command
  BY <1>1, <1>2, <1>3 DEF Command
<1>6. config' \in [Clis -> Configs]
  BY <1>1, <1>2, <1>3 DEF Types
<1> QED  BY <1>4, <1>5, <1>6 DEF Types

LEMMA ApplyFailsTypes ==
  ASSUME Types, ApplyFails
  PROVE  Types'
<1>1. UNCHANGED <<setup, tree, config, journal, snaps, release, last, died, runs>> /\ run' = NoRun
  BY DEF ApplyFails, disk
<1>3. strays' \in SUBSET Servers
  BY Running, CommandIs, LeavesBehindIs DEF ApplyFails
<1>2. faults' \in 0..setup'.maxFaults
  BY <1>1, FailsIs DEF ApplyFails
<1> QED  BY <1>1, <1>2, <1>3 DEF Types

LEMMA RetireKeysTypes ==
  ASSUME Types, RetireKeys
  PROVE  Types' /\ run' \in Command
<1> DEFINE c == run.cli
           left == {t \in config[c] : t.server \in run.sel \/ t.server \notin journal[c].keys}
<1>1. run \in Command /\ c \in Clis
  BY Running, CommandIs DEF RetireKeys
<1>2. left \in Configs
  BY <1>1 DEF Types, Configs
<1>3. run' = [run EXCEPT !.phase = "trees"] /\ config' = [config EXCEPT ![c] = left]
  BY DEF RetireKeys
<1>4. UNCHANGED <<setup, tree, journal, snaps, release, last, strays, died, runs, faults>>
  BY DEF RetireKeys, ghosts
<1> HIDE DEF c, left
<1>5. run' \in Command
  BY <1>1, <1>3 DEF Command
<1>6. config' \in [Clis -> Configs]
  BY <1>1, <1>2, <1>3 DEF Types
<1> QED  BY <1>4, <1>5, <1>6 DEF Types

LEMMA RetireTreeTypes ==
  ASSUME Types, NEW t \in Trees, RetireTree(t)
  PROVE  Types' /\ run' \in Command
<1>1. run \in Command
  BY Running DEF RetireTree, KeysGone
<1>2. run' = [run EXCEPT !.todo = run.todo \ {t}]
  BY DEF RetireTree
<1>3. run' \in Command
  BY <1>1, <1>2 DEF Command
<1>4. tree' \in [Trees -> Contents]
  BY DEF RetireTree, Types, Contents
<1>5. UNCHANGED <<setup, config, journal, snaps, release, last, strays, died, runs, faults>>
  BY DEF RetireTree, ghosts
<1> QED  BY <1>3, <1>4, <1>5 DEF Types

(* What the rollback of an install leaves in its configuration.            *)
LEMMA RolledBackIs ==
  ASSUME Types, run \in Command, RolledBack
  PROVE  /\ \E kept \in Resisting(run.wanted) : tree' = Without(run.wanted \ kept) /\ LeavesBehind(kept)
         /\ config' \in [Clis -> Configs]
         /\ \A c \in Clis \ {run.cli} : config'[c] = config[c]
         /\ \/ config'[run.cli] = run.conf
            \/ Updated = {} /\ config'[run.cli] = {t \in config[run.cli] : t.server \in ServersOf(run.conf)}
<1>1. run.cli \in Clis /\ run.conf \in Configs /\ config \in [Clis -> Configs]
  BY CommandIs DEF Types
<1> DEFINE some == {t \in config[run.cli] : t.server \in ServersOf(run.conf)}
<1>2. some \in Configs
  BY <1>1 DEF Configs
<1>3. PICK back \in BOOLEAN : (Updated # {} => back) /\
        config' = [config EXCEPT ![run.cli] = IF back THEN run.conf ELSE some]
  BY DEF RolledBack
<1> HIDE DEF some
<1>4. config' \in [Clis -> Configs] /\ (\A c \in Clis \ {run.cli} : config'[c] = config[c])
        /\ config'[run.cli] = IF back THEN run.conf ELSE some
  BY <1>1, <1>2, <1>3
<1>5. CASE back
  BY <1>4, <1>5 DEF RolledBack, Undone
<1>6. CASE ~back
  <2>1. Updated = {} /\ config'[run.cli] = some
    BY <1>3, <1>4, <1>6
  <2> QED  BY <1>4, <2>1 DEF RolledBack, Undone, some
<1> QED  BY <1>5, <1>6

LEMMA GivesUpTypes ==
  ASSUME Types, run \in Command, GivesUp, faults' \in 0..setup'.maxFaults
  PROVE  Types'
<1>1. UNCHANGED <<setup, journal, snaps, release, last, runs>> /\ run' = NoRun /\ died' = TRUE
  BY DEF GivesUp
<1>2. tree' \in [Trees -> Contents] /\ config' \in [Clis -> Configs] /\ strays' \in SUBSET Servers
  <2>1. CASE run.op = "install"
    <3>1. RolledBack
      BY <2>1 DEF GivesUp
    <3>2. PICK kept \in Resisting(run.wanted) : tree' = Without(run.wanted \ kept) /\ LeavesBehind(kept)
      BY <3>1, RolledBackIs
    <3>3. kept \in SUBSET Trees
      BY <3>2, ResistingIs, CommandIs
    <3> QED  BY <3>1, <3>2, <3>3, RolledBackIs, WithoutIs, LeavesBehindIs
  <2>2. CASE run.op # "install"
    BY <2>2 DEF GivesUp, Types
  <2> QED  BY <2>1, <2>2
<1> QED  BY <1>1, <1>2 DEF Types

LEMMA UndoneTypes ==
  ASSUME Types, RetireFails \/ SaveFails
  PROVE  Types' /\ run \in Command /\ GivesUp
<1>1. run.phase \in {"keys", "trees"} /\ GivesUp /\ (Fails("retire") \/ Fails("save"))
  BY DEF RetireFails, SaveFails
<1>2. run \in Command
  BY <1>1, Running
<1>3. faults' \in 0..setup'.maxFaults
  BY <1>1, FailsIs DEF GivesUp
<1> QED  BY <1>1, <1>2, <1>3, GivesUpTypes

LEMMA NewRecordIs ==
  ASSUME run \in Command
  PROVE  NewRecord \in Record
<1>1. CASE run.op = "uninstall"
  BY <1>1 DEF NewRecord, NotInstalled, Record
<1>2. CASE run.op # "uninstall"
  <2> DEFINE keys == {s \in run.sel : s \in run.prev.keys \/ s \notin ServersOf(run.conf)}
  <2>1. keys \in SUBSET Servers /\ run.wanted \in SUBSET Trees
    BY CommandIs
  <2>2. NewRecord = [trees |-> run.wanted, keys |-> keys]
    BY <1>2 DEF NewRecord
  <2> HIDE DEF keys
  <2> QED  BY <2>1, <2>2 DEF Record
<1> QED  BY <1>1, <1>2

LEMMA SaveTypes ==
  ASSUME Types, Save
  PROVE  Types' /\ run' \in Command
<1> DEFINE c == run.cli
           new == NewRecord
           old == IF run.op = "install" THEN run.prev.trees ELSE {}
<1>1. run \in Command /\ c \in Clis /\ run.prev \in Record
  BY Running, CommandIs DEF Save
<1>2. new \in Record /\ old \in SUBSET Trees
  BY <1>1, NewRecordIs, RecordIs
<1>3. run' = [run EXCEPT !.phase = "prune"] /\ journal' = [journal EXCEPT ![c] = new]
        /\ last' = [last EXCEPT ![c] = old]
  BY DEF Save
<1>4. UNCHANGED <<setup, tree, config, snaps, release, strays, died, runs, faults>>
  BY DEF Save
<1> HIDE DEF c, new, old
<1>5. run' \in Command
  BY <1>1, <1>3 DEF Command
<1>6. journal' \in [Clis -> Record] /\ last' \in [Clis -> SUBSET Trees]
  BY <1>1, <1>2, <1>3, JournalIs DEF Types
<1> QED  BY <1>4, <1>5, <1>6, JournalIs DEF Types

LEMMA PruneTypes ==
  ASSUME Types, Prune \/ PruneFails
  PROVE  Types'
<1>1. UNCHANGED <<setup, config, journal, snaps, release, last, died, runs>> /\ run' = NoRun
  BY DEF Prune, PruneFails
<1>2. PICK T : Removes(T)
  BY DEF Prune, PruneFails
<1>4. tree' \in [Trees -> Contents] /\ strays' \in SUBSET Servers
  <2>1. {t \in Prunable \ T : tree[t] # "absent"} \in SUBSET Trees
    BY DEF Prunable
  <2> QED  BY <1>2, <2>1, ServersOfIs, WithoutIs DEF Removes, Types
<1>3. faults' \in 0..setup'.maxFaults
  BY <1>1, FailsIs DEF Prune, PruneFails, Types
<1> QED  BY <1>1, <1>3, <1>4 DEF Types

LEMMA CrashTypes ==
  ASSUME Types, Crash
  PROVE  Types'
<1>1. UNCHANGED <<setup, config, journal, snaps, release, last, runs>> /\ run' = NoRun /\ died' = TRUE
  BY DEF Crash
<1>4. strays' \in SUBSET Servers
  BY Busy, CommandIs, LeavesBehindIs DEF Crash
<1>2. tree' \in [Trees -> Contents]
  BY DEF Crash, Types, Contents
<1>3. faults' \in 0..setup'.maxFaults
  BY <1>1, FailsIs DEF Crash
<1> QED  BY <1>1, <1>2, <1>3, <1>4 DEF Types

LEMMA TypesNext == Types /\ [Next]_vars => Types'
<1> SUFFICES ASSUME Types, [Next]_vars PROVE Types'  OBVIOUS
<1>1. CASE NewRelease
  BY <1>1 DEF NewRelease, Types, disk, ghosts
<1>2. CASE UNCHANGED vars
  BY <1>2 DEF Types, vars, disk, ghosts
<1>3. CASE \E c \in Clis : Uninstall(c) \/ \E sel \in setup.selections[c] : Install(c, sel)
  BY <1>3, UninstallTypes, InstallTypes
<1>4. CASE \E g \in DOMAIN snaps : Restore(g)
  BY <1>4, RestoreTypes
<1>5. CASE Steps
  BY <1>5, FetchTypes, RetireTreeTypes, ApplyTypes, RetireKeysTypes, SaveTypes, PruneTypes DEF Steps
<1>6. CASE Errs
  BY <1>6, FetchFailsTypes, ApplyFailsTypes, UndoneTypes, PruneTypes, CrashTypes DEF Errs
<1> QED  BY <1>1, <1>2, <1>3, <1>4, <1>5, <1>6 DEF Next, Starts

(* Every state of the folder, the configurations, the journal and the      *)
(* generations is what the code's types allow, and no configuration ever   *)
(* runs two versions of one server, whatever was selected, undone or        *)
(* restored (planner.apply, _undo_placements, restore_snapshot).           *)
THEOREM TreeTypes == Spec => []TypeOK
<1>1. Types => TypeOK
  <2> SUFFICES ASSUME Types PROVE TypeOK  OBVIOUS
  <2>1. ASSUME NEW g \in DOMAIN snaps
        PROVE  /\ snaps[g].op \in {"install", "uninstall", "restore"} /\ snaps[g].cli \in Clis
               /\ snaps[g].config \subseteq SUBSET Trees
               /\ snaps[g].journal \in JournalType /\ snaps[g].absent \subseteq Trees
    <3>1. snaps[g] \in Snap
      BY DEF Types
    <3> QED  BY <3>1, SnapIs DEF Configs
  <2>2. config \in [Clis -> SUBSET Trees] /\ \A c \in Clis : \A t, u \in config[c] : t.server = u.server => t = u
    BY DEF Types, Configs
  <2>3. run = NoRun \/ run.phase \in {"fetch", "keys", "trees", "prune"}
    BY CommandIs DEF Types
  <2> QED  BY <2>1, <2>2, <2>3 DEF Types, TypeOK, Contents
<1> QED  BY <1>1, TypesInit, TypesNext, PTL DEF Spec

-----------------------------------------------------------------------------
(* Undoing the last command.                                               *)

(* What the newest generation saw is what it holds, or has not changed.    *)
Undoes(s) ==
  /\ s.was.journal = s.journal
  /\ s.config = {} \/ s.config = {s.was.config[s.cli]}
  /\ \A c \in Clis : c # s.cli \/ s.config = {} => config[c] = s.was.config[c]
  /\ \A t \in Trees : s.was.tree[t] = "absent" /\ tree[t] # "absent" => t \in s.absent

(* A command whose generation holds no configuration does not change it:   *)
(* what it was going to be, when the generation was taken, is what it is.  *)
Untouched(s) ==
  /\ run.phase = "fetch" => Retired(run.cli, run.sel) = config[run.cli]
  /\ run.phase = "keys" =>
       \A t \in config[run.cli] : t.server \in run.sel \/ t.server \notin journal[run.cli].keys
During(s) ==
  /\ run.cli = s.cli /\ run.conf = s.was.config[s.cli]
  /\ s.config = {} => Untouched(s)
  /\ run.phase = "fetch" => \A t \in run.todo : s.was.tree[t] = "absent" => t \in s.absent

UndoInv ==
  /\ snaps # << >> => Undoes(snaps[Len(snaps)])
  /\ run # NoRun => snaps # << >> /\ During(snaps[Len(snaps)])

LEMMA UndoInit == Init => UndoInv
BY DEF Init, UndoInv

(* The newest generation, and what a step that takes none leaves of it.    *)
LEMMA NewestIs ==
  ASSUME Types, snaps # << >>
  PROVE  Len(snaps) \in DOMAIN snaps /\ snaps[Len(snaps)] \in Snap
BY DEF Types

LEMMA Taken ==
  ASSUME Types, NEW s \in Snap, snaps' = Append(snaps, s)
  PROVE  snaps' # << >> /\ snaps'[Len(snaps')] = s
<1>1. Len(snaps) \in Nat
  BY DEF Types
<1> QED  BY <1>1 DEF Types

(* A configuration that apply and retire leave alone together, each leaves *)
(* alone.                                                                  *)
LEMMA UntouchedPlaced ==
  ASSUME Types, NEW c \in Clis, NEW sel \in SUBSET Servers, Retired(c, sel) = config[c]
  PROVE  /\ Placed(c, sel) = config[c]
         /\ \A t \in config[c] : t.server \in sel \/ t.server \notin journal[c].keys
<1> DEFINE left == Skipped(c, sel)
<1>1. \A s \in sel : Tree(s).server = s
  BY TreeIs
<1>2. Placed(c, sel) = {t \in config[c] : t.server \notin sel \/ t.server \in left}
                         \cup {Tree(s) : s \in sel \ left}
  BY DEF Placed
<1>3. Retired(c, sel) = {t \in Placed(c, sel) : t.server \in sel \/ t.server \notin journal[c].keys}
  BY DEF Retired
<1> HIDE DEF left
<1>4. ASSUME NEW t \in Placed(c, sel) PROVE t \in config[c]
  BY <1>1, <1>2, <1>3
<1> QED  BY <1>3, <1>4

(* What a new generation is, when nothing has been changed yet.            *)
LEMMA FreshUndoes ==
  ASSUME Types, NEW op \in {"install", "uninstall", "restore"}, NEW c \in Clis,
         NEW held \in {{}, {config[c]}}, NEW gone \in SUBSET Trees, NEW s,
         s = [op |-> op, cli |-> c, config |-> held, journal |-> journal, absent |-> gone,
              was |-> [config |-> config, journal |-> journal, tree |-> tree, strays |-> strays]]
  PROVE  /\ s \in Snap /\ s.cli = c /\ s.was.journal = s.journal /\ s.was.config = config
         /\ s.was.tree = tree /\ s.config = held /\ s.absent = gone
<1>1. held \in SUBSET Configs /\ journal \in JournalType
  BY DEF Types
<1>2. [config |-> config, journal |-> journal, tree |-> tree, strays |-> strays] \in Was
  BY DEF Types, Was
<1>3. s \in Snap
  BY <1>1, <1>2 DEF Snap
<1> QED  BY <1>3

LEMMA InstallUndo ==
  ASSUME Types, UndoInv, NEW c \in Clis, NEW sel \in setup.selections[c], Install(c, sel)
  PROVE  UndoInv'
<1>1. sel \in SUBSET Servers
  BY SetupIs
<1>2. PICK fresh, s :
        /\ fresh \in SUBSET Trees
        /\ s = Snapshot("install", c, Retired(c, sel) # config[c], fresh)
        /\ snaps' = Append(snaps, s)
        /\ run'.phase = "fetch" /\ run'.cli = c /\ run'.sel = sel /\ run'.todo = fresh /\ run'.conf = config[c]
  <2> DEFINE wanted == {Tree(t) : t \in sel}
             fresh  == wanted \ Kept(c, wanted)
  <2>1. fresh \in SUBSET Trees
    BY <1>1, TreeIs
  <2>2. snaps' = Append(snaps, Snapshot("install", c, Retired(c, sel) # config[c], fresh))
          /\ run'.phase = "fetch" /\ run'.cli = c /\ run'.sel = sel /\ run'.todo = fresh /\ run'.conf = config[c]
    BY DEF Install
  <2> HIDE DEF fresh
  <2> QED  BY <2>1, <2>2
<1>3. s \in Snap /\ s.cli = c /\ s.was.journal = s.journal /\ s.was.config = config /\ s.was.tree = tree
        /\ s.config = (IF Retired(c, sel) # config[c] THEN {config[c]} ELSE {})
        /\ s.absent = {t \in fresh : tree[t] = "absent"}
  <2>1. PICK held : held = IF Retired(c, sel) # config[c] THEN {config[c]} ELSE {}
    OBVIOUS
  <2>2. PICK gone : gone = {t \in fresh : tree[t] = "absent"}
    OBVIOUS
  <2>3. s = [op |-> "install", cli |-> c, config |-> held, journal |-> journal, absent |-> gone,
             was |-> [config |-> config, journal |-> journal, tree |-> tree, strays |-> strays]]
    BY <1>2, <2>1, <2>2 DEF Snapshot
  <2>4. held \in {{}, {config[c]}} /\ gone \in SUBSET Trees
    BY <1>2, <2>1, <2>2
  <2>5. s \in Snap /\ s.cli = c /\ s.was.journal = s.journal /\ s.was.config = config
          /\ s.was.tree = tree /\ s.config = held /\ s.absent = gone
    BY <2>3, <2>4, FreshUndoes
  <2> QED  BY <2>1, <2>2, <2>5
<1>4. UNCHANGED <<setup, tree, config, journal, release>>
  BY DEF Install, disk
<1>5. snaps' # << >> /\ snaps'[Len(snaps')] = s
  BY <1>2, <1>3, Taken
<1>6. Undoes(s)'
  BY <1>3, <1>4 DEF Undoes
<1>7. During(s)'
  <2>1. s.config = {} => Untouched(s)'
    <3>1. (Retired(run.cli, run.sel))' = Retired(c, sel)
      BY <1>2, <1>4 DEF Retired, Placed, Skipped, Tree
    <3> QED  BY <1>2, <1>3, <1>4, <3>1 DEF Untouched
  <2> QED  BY <1>2, <1>3, <1>4, <2>1 DEF During
<1> QED  BY <1>5, <1>6, <1>7 DEF UndoInv

LEMMA UninstallUndo ==
  ASSUME Types, UndoInv, NEW c \in Clis, Uninstall(c)
  PROVE  UndoInv'
<1>1. PICK s : s = Snapshot("uninstall", c, TRUE, {})
  OBVIOUS
<1>2. s \in Snap /\ s.cli = c /\ s.was.journal = s.journal /\ s.was.config = config
        /\ s.was.tree = tree /\ s.config = {config[c]} /\ s.absent = {}
  <2>1. s = [op |-> "uninstall", cli |-> c, config |-> {config[c]}, journal |-> journal, absent |-> {},
             was |-> [config |-> config, journal |-> journal, tree |-> tree, strays |-> strays]]
    BY <1>1 DEF Snapshot
  <2> QED  BY <2>1, FreshUndoes
<1>3. snaps' = Append(snaps, s) /\ UNCHANGED <<tree, config, journal>>
        /\ run'.phase = "keys" /\ run'.cli = c /\ run'.conf = config[c]
  BY <1>1 DEF Uninstall, disk
<1>4. snaps' # << >> /\ snaps'[Len(snaps')] = s
  BY <1>2, <1>3, Taken
<1>5. Undoes(s)'
  BY <1>2, <1>3 DEF Undoes
<1>6. During(s)'
  BY <1>2, <1>3 DEF During
<1> QED  BY <1>4, <1>5, <1>6 DEF UndoInv

LEMMA RestoreUndo ==
  ASSUME Types, UndoInv, NEW g \in DOMAIN snaps, Restore(g)
  PROVE  UndoInv'
<1>1. PICK old : old = snaps[g]
  OBVIOUS
<1>2. old \in Snap /\ old.cli \in Clis /\ old.absent \in SUBSET Trees
  BY <1>1, SnapIs DEF Types
<1>3. PICK held : held = IF old.config # {} THEN {config[old.cli]} ELSE {}
  OBVIOUS
<1>4. PICK gone : gone = {t \in old.absent : tree[t] = "absent"}
  OBVIOUS
<1>5. PICK s : s = [op |-> "restore", cli |-> old.cli, config |-> held, journal |-> journal, absent |-> gone,
                    was |-> [config |-> config, journal |-> journal, tree |-> tree, strays |-> strays]]
  OBVIOUS
<1>6. s \in Snap /\ s.cli = old.cli /\ s.was.journal = s.journal /\ s.was.config = config
        /\ s.was.tree = tree /\ s.config = held /\ s.absent = gone
  <2>1. held \in {{}, {config[old.cli]}} /\ gone \in SUBSET Trees
    BY <1>2, <1>3, <1>4
  <2> QED  BY <1>2, <1>5, <2>1, FreshUndoes
<1>7. snaps' # << >> /\ snaps'[Len(snaps')] = s /\ run' = NoRun
  <2>1. snaps' = Append(snaps, s) /\ run = NoRun /\ UNCHANGED run
    BY <1>1, <1>3, <1>4, <1>5 DEF Restore, Snapshot
  <2> QED  BY <1>6, <2>1, Taken
<1>8. \A c \in Clis : c # old.cli \/ held = {} => config'[c] = config[c]
  BY <1>1, <1>3, RestoredIs
<1>9. \A t \in Trees : tree'[t] # "absent" => tree'[t] = tree[t]
  BY <1>1, RestoredIs, WithoutIs
<1>10. Undoes(s)'
  BY <1>3, <1>6, <1>8, <1>9 DEF Undoes
<1> QED  BY <1>7, <1>10 DEF UndoInv

(* A step of a command that takes no generation: the newest is the same.   *)
LEMMA CommandUndo ==
  ASSUME Types, UndoInv, UNCHANGED snaps,
         NEW s, s = snaps[Len(snaps)],
         snaps # << >> => Undoes(s)', run' # NoRun => run # NoRun /\ During(s)'
  PROVE  UndoInv'
BY DEF UndoInv

(* What a running command knows of the newest generation.                  *)
LEMMA NewestWhile ==
  ASSUME Types, UndoInv, run \in Command, NEW s, s = snaps[Len(snaps)]
  PROVE  /\ s \in Snap /\ Undoes(s) /\ During(s) /\ run.cli = s.cli /\ s.cli \in Clis
         /\ run.conf = s.was.config[s.cli]
BY CommandIs, NewestIs, SnapIs DEF UndoInv, During

LEMMA FetchUndo ==
  ASSUME Types, UndoInv, NEW t \in Trees, Fetch(t)
  PROVE  UndoInv'
<1>1. PICK s : s = snaps[Len(snaps)]
  OBVIOUS
<1>2. run \in Command /\ run.phase = "fetch" /\ t \in run.todo
  BY Running DEF Fetch
<1>3. Undoes(s) /\ During(s) /\ run.cli = s.cli
  BY <1>1, <1>2, NewestWhile
<1>4. tree' = [tree EXCEPT ![t] = "whole"] /\ UNCHANGED <<config, journal, snaps, release>>
  BY DEF Fetch
<1>5. run'.phase = "fetch" /\ run'.cli = run.cli /\ run'.sel = run.sel /\ run'.conf = run.conf
        /\ run'.todo = run.todo \ {t}
  <2>1. run' = [run EXCEPT !.todo = run.todo \ {t}, !.created = run.created \cup {t}]
    BY DEF Fetch
  <2> QED  BY <1>2, <2>1 DEF Command
<1>6. s.was.tree[t] = "absent" => t \in s.absent
  BY <1>2, <1>3 DEF During
<1>7. Undoes(s)'
  BY <1>3, <1>4, <1>6 DEF Undoes, Types
<1>8. During(s)'
  <2>1. (Retired(run.cli, run.sel))' = Retired(run.cli, run.sel)
    BY <1>4, <1>5 DEF Retired, Placed, Skipped, Tree
  <2> QED  BY <1>2, <1>3, <1>4, <1>5, <2>1 DEF During, Untouched
<1> QED  BY <1>1, <1>2, <1>4, <1>7, <1>8, CommandUndo, CommandIs

(* A command that ends, however it does, leaves on disk nothing that was   *)
(* not there before it, but what it was to fetch.                          *)
LEMMA EndsUndo ==
  ASSUME Types, UndoInv, run \in Command, run' = NoRun, UNCHANGED <<snaps, config>>,
         \A t \in Trees : tree'[t] # "absent" => tree[t] # "absent" \/ (run.phase = "fetch" /\ t \in run.todo)
  PROVE  UndoInv'
<1>1. PICK s : s = snaps[Len(snaps)]
  OBVIOUS
<1>2. Undoes(s) /\ During(s)
  BY <1>1, NewestWhile
<1>3. Undoes(s)'
  BY <1>2 DEF Undoes, During
<1> QED  BY <1>1, <1>3, CommandUndo

LEMMA FetchFailsUndo ==
  ASSUME Types, UndoInv, NEW t \in Trees, FetchFails(t)
  PROVE  UndoInv'
<1>1. run \in Command /\ run.phase = "fetch" /\ t \in run.todo /\ run' = NoRun /\ UNCHANGED <<snaps, config>>
  BY Running DEF FetchFails
<1>2. \A u \in Trees : tree'[u] # "absent" => tree[u] # "absent" \/ u = t
  <2>1. ASSUME NEW T, tree' = Without(T) PROVE \A u \in Trees : tree'[u] # "absent" => tree[u] # "absent"
    BY <2>1, WithoutIs
  <2>2. ASSUME NEW T, tree' = [Without(T) EXCEPT ![t] = "partial"]
        PROVE  \A u \in Trees : tree'[u] # "absent" => tree[u] # "absent" \/ u = t
    BY <2>2, WithoutIs
  <2> QED  BY <2>1, <2>2 DEF FetchFails, FailedTree
<1> QED  BY <1>1, <1>2, EndsUndo

LEMMA ApplyUndo ==
  ASSUME Types, UndoInv, Apply
  PROVE  UndoInv'
<1>1. PICK s : s = snaps[Len(snaps)]
  OBVIOUS
<1>2. run \in Command /\ run.phase = "fetch"
  BY Running DEF Apply
<1>3. Undoes(s) /\ During(s) /\ run.cli = s.cli /\ s.cli \in Clis
  BY <1>1, <1>2, NewestWhile
<1>4. PICK placed \in Configs : placed = Placed(run.cli, run.sel) /\ config' = [config EXCEPT ![run.cli] = placed]
  BY <1>2, CommandIs, PlacedIs DEF Apply
<1>5. UNCHANGED <<tree, journal, snaps>>
  BY DEF Apply
<1>6. run'.phase = "keys" /\ run'.cli = run.cli /\ run'.sel = run.sel /\ run'.conf = run.conf
  <2> DEFINE todo == Stale(run.cli, run.sel)
  <2>1. run' = [run EXCEPT !.phase = "keys", !.todo = todo]
    BY DEF Apply
  <2> HIDE DEF todo
  <2> QED  BY <1>2, <2>1 DEF Command
<1>7. s.config = {} => placed = config[run.cli]
        /\ \A t \in config[run.cli] : t.server \in run.sel \/ t.server \notin journal[run.cli].keys
  BY <1>2, <1>3, <1>4, CommandIs, UntouchedPlaced DEF During, Untouched
<1>8. Undoes(s)'
  BY <1>3, <1>4, <1>5, <1>7 DEF Undoes, Types
<1>9. During(s)'
  BY <1>3, <1>4, <1>5, <1>6, <1>7 DEF During, Untouched, Types
<1> QED  BY <1>1, <1>2, <1>5, <1>8, <1>9, CommandUndo, CommandIs

LEMMA RetireKeysUndo ==
  ASSUME Types, UndoInv, RetireKeys
  PROVE  UndoInv'
<1>1. PICK s : s = snaps[Len(snaps)]
  OBVIOUS
<1>2. run \in Command /\ run.phase = "keys"
  BY Running DEF RetireKeys
<1>3. Undoes(s) /\ During(s) /\ run.cli = s.cli /\ s.cli \in Clis
  BY <1>1, <1>2, NewestWhile
<1>4. PICK left : left = {t \in config[run.cli] : t.server \in run.sel \/ t.server \notin journal[run.cli].keys}
        /\ config' = [config EXCEPT ![run.cli] = left]
  BY DEF RetireKeys
<1>5. UNCHANGED <<tree, journal, snaps>>
  BY DEF RetireKeys
<1>6. run'.phase = "trees" /\ run'.cli = run.cli /\ run'.conf = run.conf
  BY <1>2 DEF RetireKeys, Command
<1>7. s.config = {} => left = config[run.cli]
  BY <1>2, <1>3, <1>4 DEF During, Untouched
<1>8. Undoes(s)'
  BY <1>3, <1>4, <1>5, <1>7 DEF Undoes, Types
<1>9. During(s)'
  BY <1>3, <1>6 DEF During, Untouched
<1> QED  BY <1>1, <1>2, <1>5, <1>8, <1>9, CommandUndo, CommandIs

(* The last phases only take trees away and write the journal.             *)
LEMMA LateUndo ==
  ASSUME Types, UndoInv, run \in Command, run'.phase \in {"trees", "prune"},
         run'.cli = run.cli, run'.conf = run.conf, UNCHANGED <<snaps, config>>,
         \A t \in Trees : tree'[t] # "absent" => tree[t] # "absent"
  PROVE  UndoInv'
<1>1. PICK s : s = snaps[Len(snaps)]
  OBVIOUS
<1>2. Undoes(s) /\ During(s)
  BY <1>1, NewestWhile
<1>3. Undoes(s)'
  BY <1>2 DEF Undoes
<1>4. During(s)'
  BY <1>2 DEF During, Untouched
<1> QED  BY <1>1, <1>3, <1>4, CommandUndo, CommandIs

LEMMA RetireTreeUndo ==
  ASSUME Types, UndoInv, NEW t \in Trees, RetireTree(t)
  PROVE  UndoInv'
<1>1. run \in Command /\ run.phase = "trees"
  BY Running DEF RetireTree, KeysGone
<1>2. run'.phase = "trees" /\ run'.cli = run.cli /\ run'.conf = run.conf
  BY <1>1 DEF RetireTree, Command
<1>3. \A u \in Trees : tree'[u] # "absent" => tree[u] # "absent"
  BY DEF RetireTree, Types
<1> QED  BY <1>1, <1>2, <1>3, LateUndo DEF RetireTree

LEMMA SaveUndo ==
  ASSUME Types, UndoInv, Save
  PROVE  UndoInv'
<1>1. run \in Command
  BY Running DEF Save
<1>2. run'.phase = "prune" /\ run'.cli = run.cli /\ run'.conf = run.conf
  BY <1>1 DEF Save, Command
<1> QED  BY <1>1, <1>2, LateUndo DEF Save

LEMMA GivesUpUndo ==
  ASSUME Types, UndoInv, RetireFails \/ SaveFails
  PROVE  UndoInv'
<1>1. PICK s : s = snaps[Len(snaps)]
  OBVIOUS
<1>2. run \in Command /\ GivesUp
  BY UndoneTypes
<1>3. Undoes(s) /\ During(s) /\ run.cli = s.cli /\ s.cli \in Clis /\ run.conf = s.was.config[s.cli]
  BY <1>1, <1>2, NewestWhile
<1>4. run' = NoRun /\ UNCHANGED <<snaps, journal>>
  BY <1>2 DEF GivesUp
<1>5. CASE run.op = "install"
  <2>1. RolledBack
    BY <1>2, <1>5 DEF GivesUp
  <2>2. s.config = {} => config'[run.cli] = config[run.cli]
    <3> SUFFICES ASSUME s.config = {} PROVE config'[run.cli] = config[run.cli]  OBVIOUS
    <3>1. config[run.cli] = run.conf
      BY <1>3 DEF Undoes
    <3>2. {t \in config[run.cli] : t.server \in ServersOf(run.conf)} = config[run.cli]
      BY <3>1 DEF ServersOf
    <3> QED  BY <1>2, <2>1, <3>1, <3>2, RolledBackIs
  <2>3. \A c \in Clis : c # s.cli \/ s.config = {} => config'[c] = config[c]
    BY <1>2, <1>3, <2>1, <2>2, RolledBackIs
  <2>4. \A t \in Trees : tree'[t] # "absent" => tree[t] # "absent"
    <3>1. \E T : tree' = Without(T)
      BY <1>2, <2>1, RolledBackIs
    <3> QED  BY <3>1, WithoutIs
  <2>5. Undoes(s)'
    BY <1>3, <1>4, <2>3, <2>4 DEF Undoes
  <2> QED  BY <1>1, <1>4, <2>5, CommandUndo
<1>6. CASE run.op # "install"
  <2>1. UNCHANGED <<tree, config>>
    BY <1>2, <1>6 DEF GivesUp
  <2> QED  BY <1>2, <1>4, <2>1, EndsUndo
<1> QED  BY <1>5, <1>6

LEMMA PruneUndo ==
  ASSUME Types, UndoInv, Prune \/ PruneFails
  PROVE  UndoInv'
<1>1. run \in Command /\ run' = NoRun /\ UNCHANGED <<snaps, config>>
  BY Running DEF Prune, PruneFails
<1>2. \A t \in Trees : tree'[t] # "absent" => tree[t] # "absent"
  BY WithoutIs DEF Prune, PruneFails, Removes
<1> QED  BY <1>1, <1>2, EndsUndo

LEMMA CrashUndo ==
  ASSUME Types, UndoInv, Crash
  PROVE  UndoInv'
<1>1. run \in Command /\ run' = NoRun /\ UNCHANGED <<snaps, config>>
  BY Busy DEF Crash
<1>2. \A t \in Trees : tree'[t] # "absent" => tree[t] # "absent" \/ (run.phase = "fetch" /\ t \in run.todo)
  BY DEF Crash, Torn, Types
<1> QED  BY <1>1, <1>2, EndsUndo

LEMMA UndoNext == Types /\ UndoInv /\ [Next]_vars => UndoInv'
<1> SUFFICES ASSUME Types, UndoInv, [Next]_vars PROVE UndoInv'  OBVIOUS
<1>1. CASE NewRelease
  BY <1>1 DEF NewRelease, UndoInv, Undoes, disk
<1>2. CASE UNCHANGED vars
  <2>1. UNCHANGED <<tree, config, journal, snaps, release, run>>
    BY <1>2 DEF vars, disk
  <2> QED  BY <2>1 DEF UndoInv, Undoes, During, Untouched, Retired, Placed, Skipped, Tree
<1>3. CASE \E c \in Clis : Uninstall(c) \/ \E sel \in setup.selections[c] : Install(c, sel)
  BY <1>3, UninstallUndo, InstallUndo
<1>4. CASE \E g \in DOMAIN snaps : Restore(g)
  BY <1>4, RestoreUndo
<1>5. CASE Steps
  BY <1>5, FetchUndo, RetireTreeUndo, ApplyUndo, RetireKeysUndo, SaveUndo, PruneUndo DEF Steps
<1>6. CASE Errs
  <2>1. CASE ApplyFails
    <3>1. run \in Command /\ run' = NoRun /\ UNCHANGED <<snaps, config, tree>>
      BY <2>1, Running DEF ApplyFails, disk
    <3> QED  BY <3>1, EndsUndo
  <2> QED  BY <1>6, <2>1, FetchFailsUndo, GivesUpUndo, PruneUndo, CrashUndo DEF Errs
<1> QED  BY <1>1, <1>2, <1>3, <1>4, <1>5, <1>6 DEF Next, Starts

LEMMA RestoreExact ==
  ASSUME Types, UndoInv, NEW g \in DOMAIN snaps, Restore(g), g = Len(snaps)
  PROVE  /\ config' = snaps[g].was.config /\ journal' = snaps[g].was.journal
         /\ \A t \in Trees : snaps[g].was.tree[t] = "absent" => tree'[t] = "absent"
<1>1. PICK s : s = snaps[g]
  OBVIOUS
<1>2. s \in Snap /\ s.was \in Was /\ s.cli \in Clis
  <2>1. s \in Snap
    BY <1>1 DEF Types
  <2> QED  BY <2>1, SnapIs
<1>3. snaps # << >>
  BY DEF Types
<1>4. Undoes(s)
  BY <1>1, <1>3 DEF UndoInv
<1>5. config' \in [Clis -> Configs] /\ s.was.config \in [Clis -> Configs] /\ tree' = Without(s.absent)
  BY <1>1, <1>2, RestoredIs, WasIs
<1>6. ASSUME NEW c \in Clis PROVE config'[c] = s.was.config[c]
  <2>1. CASE c # s.cli \/ s.config = {}
    BY <1>1, <1>4, <2>1, RestoredIs DEF Undoes
  <2>2. CASE ~(c # s.cli \/ s.config = {})
    <3>1. config'[s.cli] \in s.config
      BY <1>1, <2>2, RestoredIs
    <3> QED  BY <1>4, <2>2, <3>1 DEF Undoes
  <2> QED  BY <2>1, <2>2
<1>7. config' = s.was.config
  BY <1>5, <1>6
<1>8. journal' = s.was.journal
  BY <1>1, <1>4 DEF Restore, JournalAfter, Undoes
<1>9. ASSUME NEW t \in Trees, s.was.tree[t] = "absent" PROVE tree'[t] = "absent"
  BY <1>4, <1>5, <1>9, WithoutIs DEF Undoes
<1> QED  BY <1>1, <1>7, <1>8, <1>9

(* MANUAL.md:231: restore of the newest generation gives back, exactly, the *)
(* configuration and the journal of every CLI as the last command found     *)
(* them, and leaves none of the trees it fetched where there were none: for *)
(* any selections and any failure, a command that died or was rolled back   *)
(* half way and a restore itself included.                                 *)
THEOREM RestoreIsUndo == Spec => RestoreUndoes
<1>1. Types /\ UndoInv =>
        [\A g \in DOMAIN snaps :
           Restore(g) /\ g = Len(snaps) =>
             /\ config' = snaps[g].was.config /\ journal' = snaps[g].was.journal
             /\ \A t \in Trees : snaps[g].was.tree[t] = "absent" => tree'[t] = "absent"]_vars
  BY RestoreExact
<1> QED  BY <1>1, TypesInit, TypesNext, UndoInit, UndoNext, PTL DEF Spec, RestoreUndoes

-----------------------------------------------------------------------------
(* What CLIs run is on disk.                                               *)

(* Where what a CLI runs stays on disk: nothing is rolled back, only an     *)
(* install is undone, and                                                  *)
(*   - with several CLIs in use, nobody uninstalls or deselects, no folder  *)
(*     is cleaned up or torn, and a fetch fails only if each install makes  *)
(*     one: the rest removes trees that another CLI may run;                *)
(*   - a command may die, if nobody uninstalls or deselects;                *)
(*   - an install may be undone, if nobody deselects.                       *)
OneCli(st) == \A c, d \in Clis : st.selections[c] # {} /\ st.selections[d] # {} => c = d
OneSelection(st) == \A c \in Clis : \A a, b \in st.selections[c] : a = b
OneServer(st) == \A c \in Clis : \A sel \in st.selections[c] : \A x, y \in sel : x = y
Steady(st) == st.uninstalls = {} /\ OneSelection(st)
Fits(st) ==
  /\ st.failures \cap {"retire", "save"} = {} /\ st.restores \subseteq {"install"}
  /\ OneCli(st) \/ (Steady(st) /\ st.failures \cap {"place", "rmtree"} = {})
  /\ OneCli(st) \/ OneServer(st) \/ st.failures \cap {"download", "lockfile"} = {}
  /\ Steady(st) \/ "crash" \notin st.failures
  /\ OneSelection(st) \/ st.restores = {}

(* A CLI between its commands runs what the journal records of it, and the  *)
(* journal records what is there, except what a command is taking away.     *)
Known(c) == \A t \in config[c] : t \in journal[c].trees /\ t.server \in journal[c].keys
TakenAway(c, t) == ~Steady(setup) /\ run.phase = "trees" /\ c = run.cli /\ t.server \notin run.sel
RecordsWhole == \A c \in Clis : \A t \in journal[c].trees : tree[t] = "whole" \/ TakenAway(c, t)

(* A CLI nobody installs into records nothing; without deselection, an      *)
(* install keeps every server the journal records.                          *)
Selects(j) ==
  \A c \in Clis : \A t \in j[c].trees :
    /\ setup.selections[c] # {}
    /\ OneSelection(setup) => \A sel \in setup.selections[c] : t.server \in sel

(* The installation that the newest generation can give back is there.      *)
BackIsWhole(s) ==
  s.op = "install" /\ OneSelection(setup) =>
    /\ \A c \in Clis : \A t \in s.journal[c].trees : tree[t] = "whole" /\ t \notin s.absent
    /\ Selects(s.journal)
    /\ ~died => \A c \in Clis : \A t \in s.was.config[c] :
                  t \in s.journal[c].trees /\ t.server \in s.journal[c].keys

(* What the running command asked for, and what it has done of it.          *)
Asked ==
  \/ run.op = "install" /\ run.sel \in setup.selections[run.cli] /\ run.wanted = {Tree(s) : s \in run.sel}
  \/ run.op = "uninstall" /\ run.sel = {} /\ run.wanted = {} /\ setup.uninstalls # {}
Fetching ==
  /\ run.op = "install" /\ config[run.cli] = run.conf
  /\ run.todo \cup run.created \subseteq run.wanted
  /\ (run.todo \cup run.created) \cap journal[run.cli].trees = {} /\ run.todo \cap run.created = {}
  /\ \A t \in run.wanted \ run.todo : tree[t] = "whole"
  /\ ~died => Known(run.cli)
Retiring ==
  /\ \A t \in run.wanted : tree[t] = "whole"
  /\ \A t \in run.todo : t \in journal[run.cli].trees /\ t.server \notin run.sel
  /\ ~died => \A t \in run.conf : t.server \in run.prev.keys
  /\ ~died => \A t \in config[run.cli] :
       \/ t \in run.wanted
       \/ /\ run.phase = "keys" /\ t \in journal[run.cli].trees
          /\ t.server \in journal[run.cli].keys \ run.sel
Doing(s) ==
  /\ s.op = run.op /\ run.prev = s.journal[run.cli]
  /\ \A c \in Clis : c # run.cli \/ run.phase # "prune" => journal[c] = s.journal[c]
  /\ Asked
  /\ run.phase = "fetch" => Fetching
  /\ run.phase \in {"keys", "trees"} => Retiring
  /\ run.phase = "prune" /\ ~died => Known(run.cli)

RunnableInv ==
  /\ died => Steady(setup)
  /\ ~died => \A c \in Clis : run = NoRun \/ c # run.cli => Known(c)
  /\ RecordsWhole /\ Selects(journal)
  /\ snaps # << >> => BackIsWhole(snaps[Len(snaps)])
  /\ run # NoRun => Doing(snaps[Len(snaps)])

LEMMA RunnableInit == Init => RunnableInv
<1> SUFFICES ASSUME Init PROVE RunnableInv  OBVIOUS
<1>1. \A c \in Clis : journal[c].trees = {} /\ config[c] = {}
  BY DEF Init, NotInstalled
<1> QED  BY <1>1 DEF Init, RunnableInv, Known, RecordsWhole, Selects

(* The parts of the invariant, about the newest generation.                *)
LEMMA RunnableWhile ==
  ASSUME Types, RunnableInv, run \in Command, NEW s, s = snaps[Len(snaps)], snaps # << >>
  PROVE  Doing(s) /\ BackIsWhole(s)
BY CommandIs DEF RunnableInv

LEMMA RecordedAre ==
  ASSUME Types, NEW c \in Clis
  PROVE  journal[c] \in Record /\ journal[c].trees \in SUBSET Trees
BY JournalIs, RecordIs DEF Types

LEMMA HeldAre ==
  ASSUME NEW s \in Snap, NEW c \in Clis
  PROVE  s.journal[c] \in Record /\ s.journal[c].trees \in SUBSET Trees
<1>1. s.journal \in [Clis -> Record]
  BY SnapIs, JournalIs
<1>2. s.journal[c] \in Record
  BY <1>1
<1> QED  BY <1>2, RecordIs

(* A command ends, without touching a configuration or the journal, nor    *)
(* any tree that is recorded or can be given back.                         *)
LEMMA EndsRunnable ==
  ASSUME Types, Fits(setup), RunnableInv, run \in Command, snaps # << >>, run' = NoRun,
         UNCHANGED <<setup, config, journal, snaps>>,
         died' = died \/ (died' /\ Steady(setup)),
         ~died' => Known(run.cli),
         \A c \in Clis : \A t \in journal[c].trees : tree'[t] = "whole",
         NEW s, s = snaps[Len(snaps)],
         s.op = "install" /\ OneSelection(setup) =>
           \A c \in Clis : \A t \in s.journal[c].trees : tree'[t] = "whole"
  PROVE  RunnableInv'
<1>1. Doing(s) /\ BackIsWhole(s)
  BY RunnableWhile
<1>2. ~died' => ~died
  OBVIOUS
<1>3. \A c \in Clis : ~died' => Known(c)'
  BY <1>2, CommandIs DEF RunnableInv, Known
<1>4. RecordsWhole'
  BY DEF RecordsWhole
<1>5. Selects(journal)'
  BY DEF RunnableInv, Selects, OneSelection
<1>6. BackIsWhole(s)'
  BY <1>1, <1>2 DEF BackIsWhole, Selects, OneSelection
<1>7. died' => Steady(setup)'
  BY DEF RunnableInv, Steady, OneSelection
<1> QED  BY <1>3, <1>4, <1>5, <1>6, <1>7 DEF RunnableInv

LEMMA RecordsStand ==
  ASSUME RunnableInv, run = NoRun \/ run.phase # "trees" \/ Steady(setup)
  PROVE  \A c \in Clis : \A t \in journal[c].trees : tree[t] = "whole"
BY DEF RunnableInv, RecordsWhole, TakenAway, NoRun

(* Only a command that takes away servers finds a recorded tree among what *)
(* it is to remove.                                                        *)
LEMMA SteadyRetires ==
  ASSUME Types, RunnableInv, run \in Command, snaps # << >>, run.phase \in {"keys", "trees"},
         run.op = "install", OneSelection(setup)
  PROVE  run.todo = {}
<1>1. PICK s : s = snaps[Len(snaps)]
  OBVIOUS
<1>2. Doing(s)
  BY <1>1, RunnableWhile
<1>3. Retiring /\ Asked
  BY <1>2 DEF Doing
<1>4. run.sel \in setup.selections[run.cli] /\ run.cli \in Clis
  BY <1>3, CommandIs DEF Asked
<1>5. \A t \in run.todo : t \in journal[run.cli].trees /\ t.server \notin run.sel
  BY <1>3 DEF Retiring
<1>6. \A t \in journal[run.cli].trees : t.server \in run.sel
  BY <1>4 DEF RunnableInv, Selects
<1> QED  BY <1>5, <1>6

LEMMA InstallRunnable ==
  ASSUME Types, Fits(setup), RunnableInv, NEW c \in Clis, NEW sel \in setup.selections[c], Install(c, sel)
  PROVE  RunnableInv'
<1>1. PICK wanted : wanted = {Tree(t) : t \in sel}
  OBVIOUS
<1>2. PICK fresh : fresh = wanted \ Kept(c, wanted)
  OBVIOUS
<1>3. PICK held, s : s = [op |-> "install", cli |-> c, config |-> held, journal |-> journal,
                          absent |-> {t \in fresh : tree[t] = "absent"},
                          was |-> [config |-> config, journal |-> journal, tree |-> tree, strays |-> strays]]
                     /\ snaps' = Append(snaps, s)
  BY <1>1, <1>2 DEF Install, Snapshot
<1>4. s.op = "install" /\ s.journal = journal /\ s.absent = {t \in fresh : tree[t] = "absent"} /\ s.was.config = config
  BY <1>3
<1>5. snaps' # << >> /\ snaps'[Len(snaps')] = s
  BY <1>3 DEF Types
<1>6. UNCHANGED <<setup, tree, config, journal, release, died>> /\ run = NoRun
  BY DEF Install, disk, ghosts
<1>7. run'.phase = "fetch" /\ run'.op = "install" /\ run'.cli = c /\ run'.sel = sel /\ run'.wanted = wanted
        /\ run'.todo = fresh /\ run'.created = {} /\ run'.prev = journal[c] /\ run'.conf = config[c]
  BY <1>1, <1>2 DEF Install
<1>8. \A d \in Clis : \A t \in journal[d].trees : tree[t] = "whole"
  BY <1>6, RecordsStand
<1>9. Kept(c, wanted) = wanted \cap journal[c].trees
  BY <1>8 DEF Kept
<1>10. \A d \in Clis : ~died => Known(d)
  BY <1>6 DEF RunnableInv
<1>11. Doing(s)'
  <2>1. Asked'
    <3>1. wanted = {Tree(t)' : t \in sel}
      BY <1>1, <1>6 DEF Tree
    <3> QED  BY <1>6, <1>7, <3>1 DEF Asked
  <2>2. Fetching'
    BY <1>2, <1>6, <1>7, <1>8, <1>9, <1>10 DEF Fetching, Known
  <2> QED  BY <1>4, <1>6, <1>7, <2>1, <2>2 DEF Doing
<1>12. BackIsWhole(s)'
  BY <1>4, <1>6, <1>8, <1>10 DEF BackIsWhole, Selects, RunnableInv, Known, OneSelection
<1>13. RecordsWhole' /\ Selects(journal)' /\ (died' => Steady(setup)')
  BY <1>6, <1>8 DEF RunnableInv, RecordsWhole, Selects, Steady, OneSelection
<1>14. \A d \in Clis : ~died' => Known(d)'
  BY <1>6, <1>10 DEF Known
<1> QED  BY <1>5, <1>11, <1>12, <1>13, <1>14 DEF RunnableInv

LEMMA UninstallRunnable ==
  ASSUME Types, Fits(setup), RunnableInv, NEW c \in Clis, Uninstall(c)
  PROVE  RunnableInv'
<1>1. PICK s : s = [op |-> "uninstall", cli |-> c, config |-> {config[c]}, journal |-> journal, absent |-> {},
                    was |-> [config |-> config, journal |-> journal, tree |-> tree, strays |-> strays]]
  OBVIOUS
<1>2. s.op = "uninstall" /\ s.journal = journal /\ snaps' = Append(snaps, s)
  BY <1>1 DEF Uninstall, Snapshot
<1>3. snaps' # << >> /\ snaps'[Len(snaps')] = s
  BY <1>2 DEF Types
<1>4. UNCHANGED <<setup, tree, config, journal, release, died>> /\ run = NoRun /\ c \in setup.uninstalls
  BY DEF Uninstall, disk, ghosts
<1>5. run'.phase = "keys" /\ run'.op = "uninstall" /\ run'.cli = c /\ run'.sel = {} /\ run'.wanted = {}
        /\ run'.todo = journal[c].trees /\ run'.prev = journal[c] /\ run'.conf = config[c]
  BY DEF Uninstall
<1>6. \A d \in Clis : \A t \in journal[d].trees : tree[t] = "whole"
  BY <1>4, RecordsStand
<1>7. \A d \in Clis : ~died => Known(d)
  BY <1>4 DEF RunnableInv
<1>8. Doing(s)'
  BY <1>2, <1>4, <1>5, <1>7 DEF Doing, Asked, Retiring, Known
<1>9. BackIsWhole(s)'
  BY <1>2 DEF BackIsWhole
<1>10. RecordsWhole' /\ Selects(journal)' /\ (died' => Steady(setup)')
  BY <1>4, <1>6 DEF RunnableInv, RecordsWhole, Selects, Steady, OneSelection
<1>11. \A d \in Clis : ~died' => Known(d)'
  BY <1>4, <1>7 DEF Known
<1> QED  BY <1>3, <1>8, <1>9, <1>10, <1>11 DEF RunnableInv

(* Of the generations only an install that is the newest is given back.    *)
LEMMA RestoresInstall ==
  ASSUME Types, Fits(setup), NEW g \in DOMAIN snaps, Restore(g)
  PROVE  g = Len(snaps) /\ snaps[g].op = "install" /\ OneSelection(setup)
<1>1. Kind(g) \in setup.restores
  BY DEF Restore
<1>2. Kind(g) = "install" /\ OneSelection(setup)
  BY <1>1 DEF Fits
<1> QED  BY <1>2 DEF Kind

LEMMA RestoreRunnable ==
  ASSUME Types, Fits(setup), UndoInv, RunnableInv, NEW g \in DOMAIN snaps, Restore(g)
  PROVE  RunnableInv'
<1>1. PICK old : old = snaps[g]
  OBVIOUS
<1>2. g = Len(snaps) /\ old.op = "install" /\ OneSelection(setup) /\ snaps # << >>
  BY <1>1, RestoresInstall DEF Types
<1>3. old \in Snap
  BY <1>1 DEF Types
<1>4. BackIsWhole(old)
  BY <1>1, <1>2 DEF RunnableInv
<1>5. config' = old.was.config /\ tree' = Without(old.absent)
  BY <1>1, <1>2, RestoreExact, RestoredIs
<1>6. journal' = old.journal /\ run = NoRun /\ run' = NoRun /\ UNCHANGED <<setup, died, release>>
  BY <1>1 DEF Restore, JournalAfter, ghosts
<1>7. ASSUME NEW c \in Clis, NEW t \in journal'[c].trees PROVE tree'[t] = "whole"
  <2>1. t \in Trees
    BY <1>3, <1>6, HeldAre
  <2>2. tree[t] = "whole" /\ t \notin old.absent
    BY <1>2, <1>4, <1>6 DEF BackIsWhole
  <2> QED  BY <1>5, <2>1, <2>2, WithoutIs
<1>8. \A c \in Clis : ~died' => Known(c)'
  BY <1>2, <1>4, <1>5, <1>6 DEF BackIsWhole, Known
<1>9. Selects(journal)'
  BY <1>2, <1>4, <1>6 DEF BackIsWhole, Selects, OneSelection
<1>10. PICK held, gone, new :
         new = [op |-> "restore", cli |-> old.cli, config |-> held, journal |-> journal, absent |-> gone,
                was |-> [config |-> config, journal |-> journal, tree |-> tree, strays |-> strays]]
         /\ snaps' = Append(snaps, new)
  BY <1>1 DEF Restore, Snapshot
<1>11. new.op = "restore" /\ snaps' # << >> /\ snaps'[Len(snaps')] = new
  BY <1>10 DEF Types
<1>12. BackIsWhole(new)'
  BY <1>11 DEF BackIsWhole
<1>13. RecordsWhole' /\ (died' => Steady(setup)')
  BY <1>6, <1>7 DEF RunnableInv, RecordsWhole, Steady, OneSelection
<1> QED  BY <1>6, <1>8, <1>9, <1>11, <1>12, <1>13 DEF RunnableInv

(* A step of a running command: the clauses it has to keep.                *)
LEMMA StepRunnable ==
  ASSUME Types, RunnableInv, run \in Command, snaps # << >>, UNCHANGED <<setup, snaps, died>>,
         run' # NoRun, run'.cli = run.cli,
         \A c \in Clis \ {run.cli} : config'[c] = config[c] /\ journal'[c] = journal[c],
         RecordsWhole', Selects(journal)',
         NEW s, s = snaps[Len(snaps)],
         s.op = "install" /\ OneSelection(setup) =>
           \A c \in Clis : \A t \in s.journal[c].trees : tree'[t] = "whole",
         Doing(s)'
  PROVE  RunnableInv'
<1>1. Doing(s) /\ BackIsWhole(s)
  BY RunnableWhile
<1>2. BackIsWhole(s)'
  BY <1>1 DEF BackIsWhole, Selects, OneSelection
<1>3. ~died' => \A c \in Clis : run' = NoRun \/ c # run'.cli => Known(c)'
  BY CommandIs DEF RunnableInv, Known
<1>4. died' => Steady(setup)'
  BY DEF RunnableInv, Steady, OneSelection
<1> QED  BY <1>2, <1>3, <1>4 DEF RunnableInv

LEMMA NewestThere ==
  ASSUME Types, UndoInv, RunnableInv, run \in Command, NEW s, s = snaps[Len(snaps)]
  PROVE  /\ snaps # << >> /\ s \in Snap /\ Doing(s) /\ BackIsWhole(s) /\ run.cli \in Clis
         /\ \A t \in run.todo \cup run.wanted : t \in Trees
<1>1. snaps # << >>
  BY CommandIs DEF UndoInv
<1> QED  BY <1>1, RunnableWhile, NewestIs, CommandIs

LEMMA FetchRunnable ==
  ASSUME Types, Fits(setup), UndoInv, RunnableInv, NEW t \in Trees, Fetch(t)
  PROVE  RunnableInv'
<1>1. PICK s : s = snaps[Len(snaps)]
  OBVIOUS
<1>2. run \in Command /\ run.phase = "fetch" /\ t \in run.todo
  BY Running DEF Fetch
<1>3. snaps # << >> /\ s \in Snap /\ Doing(s) /\ BackIsWhole(s) /\ run.cli \in Clis
  BY <1>1, <1>2, NewestThere
<1>4. Fetching /\ Asked /\ journal = [c \in Clis |-> s.journal[c]]
  BY <1>2, <1>3, JournalIs DEF Doing, Types
<1>5. UNCHANGED <<setup, config, journal, snaps, release, died>> /\ tree' = [tree EXCEPT ![t] = "whole"]
  BY DEF Fetch, ghosts
<1>6. run'.phase = "fetch" /\ run'.op = run.op /\ run'.cli = run.cli /\ run'.sel = run.sel
        /\ run'.wanted = run.wanted /\ run'.prev = run.prev /\ run'.conf = run.conf
        /\ run'.todo = run.todo \ {t} /\ run'.created = run.created \cup {t}
  BY <1>2 DEF Fetch, Command
<1>7. \A u \in Trees : tree[u] = "whole" \/ u = t => tree'[u] = "whole"
  BY <1>5 DEF Types
<1>8. \A c \in Clis : \A u \in journal[c].trees : tree'[u] = "whole"
  BY <1>2, <1>7, RecordsStand, RecordedAre
<1>9. RecordsWhole' /\ Selects(journal)'
  BY <1>5, <1>8 DEF RunnableInv, RecordsWhole, Selects, OneSelection
<1>10. s.op = "install" /\ OneSelection(setup) => \A c \in Clis : \A u \in s.journal[c].trees : tree'[u] = "whole"
  BY <1>3, <1>7, HeldAre DEF BackIsWhole
<1>11. Doing(s)'
  <2>1. Asked'
    <3>1. \A x : Tree(x)' = Tree(x)
      BY <1>5 DEF Tree
    <3> QED  BY <1>4, <1>5, <1>6, <3>1 DEF Asked
  <2>2. Fetching'
    <3>1. \A u \in run'.wanted \ run'.todo : tree'[u] = "whole"
      BY <1>2, <1>4, <1>6, <1>7, CommandIs DEF Fetching
    <3>2. (~died => Known(run.cli))'
      BY <1>4, <1>5, <1>6 DEF Fetching, Known
    <3>3. (run'.todo \cup run'.created) \subseteq run'.wanted
            /\ (run'.todo \cup run'.created) \cap journal'[run'.cli].trees = {}
            /\ run'.todo \cap run'.created = {}
      BY <1>2, <1>4, <1>5, <1>6 DEF Fetching
    <3>4. run'.op = "install" /\ config'[run'.cli] = run'.conf
      BY <1>4, <1>5, <1>6 DEF Fetching
    <3> QED  BY <3>1, <3>2, <3>3, <3>4 DEF Fetching
  <2> QED  BY <1>2, <1>3, <1>5, <1>6, <2>1, <2>2 DEF Doing
<1>12. run' # NoRun
  BY <1>6 DEF NoRun
<1> QED  BY <1>1, <1>2, <1>3, <1>5, <1>6, <1>9, <1>10, <1>11, <1>12, StepRunnable

(* While a command fetches, the journal is the newest generation's, and    *)
(* nothing recorded is to be fetched: by this CLI, or by any when there are *)
(* no others.                                                              *)
LEMMA WhileFetching ==
  ASSUME Types, UndoInv, RunnableInv, run \in Command, run.phase = "fetch", NEW s, s = snaps[Len(snaps)]
  PROVE  /\ snaps # << >> /\ Fetching /\ run.cli \in Clis /\ (~died => Known(run.cli))
         /\ \A c \in Clis : s.journal[c] = journal[c]
         /\ \A c \in Clis : \A t \in journal[c].trees :
              t \in Trees /\ tree[t] = "whole" /\ (OneCli(setup) => t \notin run.todo \cup run.created)
<1>1. snaps # << >> /\ Doing(s) /\ run.cli \in Clis
  BY NewestThere
<1>2. Fetching /\ \A c \in Clis : s.journal[c] = journal[c]
  BY <1>1 DEF Doing
<1>3. \A c \in Clis : \A t \in journal[c].trees : t \in Trees /\ tree[t] = "whole"
  BY RecordsStand, RecordedAre
<1>4. ASSUME OneCli(setup), NEW c \in Clis, NEW t \in journal[c].trees
      PROVE  t \notin run.todo \cup run.created
  <2>1. setup.selections[c] # {}
    BY DEF RunnableInv, Selects
  <2>2. setup.selections[run.cli] # {}
    BY <1>1, <1>2 DEF Doing, Asked, Fetching
  <2>3. c = run.cli
    BY <1>1, <1>4, <2>1, <2>2 DEF OneCli
  <2> QED  BY <1>2, <2>3 DEF Fetching
<1> QED  BY <1>1, <1>2, <1>3, <1>4 DEF Fetching

(* A fetch that fails, or a death in it, leaves what is recorded.          *)
LEMMA FetchEndsRunnable ==
  ASSUME Types, Fits(setup), UndoInv, RunnableInv, run \in Command, run.phase = "fetch", run' = NoRun,
         UNCHANGED <<setup, config, journal, snaps>>, died' = died \/ (died' /\ Steady(setup)),
         \A t \in Trees : tree[t] = "whole" /\ tree'[t] # "whole" => OneCli(setup) /\ t \in run.todo \cup run.created
  PROVE  RunnableInv'
<1>1. PICK s : s = snaps[Len(snaps)]
  OBVIOUS
<1>2. /\ snaps # << >> /\ (~died => Known(run.cli)) /\ \A c \in Clis : s.journal[c] = journal[c]
      /\ \A c \in Clis : \A t \in journal[c].trees : tree'[t] = "whole"
  BY <1>1, WhileFetching
<1>3. ~died' => ~died
  OBVIOUS
<1> QED  BY <1>1, <1>2, <1>3, EndsRunnable

LEMMA FetchFailsRunnable ==
  ASSUME Types, Fits(setup), UndoInv, RunnableInv, NEW t \in Trees, FetchFails(t)
  PROVE  RunnableInv'
<1>1. run \in Command /\ run.phase = "fetch" /\ t \in run.todo /\ run' = NoRun
        /\ UNCHANGED <<setup, config, journal, snaps, died>>
  BY Running DEF FetchFails
<1>2. \A u \in Trees : tree[u] = "whole" /\ tree'[u] # "whole" => u \in run.todo \cup run.created
  <2>1. ASSUME NEW T, T \subseteq run.created \cup {t}, tree' = Without(T)
        PROVE  \A u \in Trees : tree[u] = "whole" /\ tree'[u] # "whole" => u \in run.todo \cup run.created
    BY <1>1, <2>1, WithoutIs
  <2>2. ASSUME NEW T, T \subseteq run.created, tree' = [Without(T) EXCEPT ![t] = "partial"]
        PROVE  \A u \in Trees : tree[u] = "whole" /\ tree'[u] # "whole" => u \in run.todo \cup run.created
    BY <1>1, <2>2, WithoutIs
  <2> QED  BY <2>1, <2>2 DEF FetchFails, FailedTree
<1>3. CASE OneCli(setup)
  BY <1>1, <1>2, <1>3, FetchEndsRunnable
<1>4. CASE ~OneCli(setup)
  <2>1. ~Fails("place") /\ OneServer(setup)
    BY <1>4 DEF FetchFails, FailedTree, Fails, Fits
  <2>2. run.created = {}
    <3>1. PICK s : s = snaps[Len(snaps)]
      OBVIOUS
    <3>2. Doing(s) /\ run.cli \in Clis
      BY <1>1, <3>1, NewestThere
    <3>3. Fetching /\ Asked
      BY <1>1, <3>2 DEF Doing
    <3>4. run.wanted = {Tree(x) : x \in run.sel} /\ \A x, y \in run.sel : x = y
      BY <2>1, <3>2, <3>3 DEF Asked, OneServer, Fetching
    <3>5. \A u, w \in run.wanted : u = w
      BY <3>4
    <3> QED  BY <1>1, <3>3, <3>5 DEF Fetching
  <2>3. \A kept : Without(run.created \ kept) \in [Trees -> Contents]
                   /\ \A u \in Trees : Without(run.created \ kept)[u] = tree[u]
    BY <2>2, WithoutIs
  <2>4. \A u \in Trees : tree[u] = "whole" => tree'[u] = "whole"
    <3>1. PICK kept : FailedTree(t, kept)
      BY DEF FetchFails
    <3>2. CASE tree' = Without(run.created \ kept)
      BY <2>3, <3>2
    <3>3. CASE tree[t] = "absent" /\ tree' = [Without(run.created \ kept) EXCEPT ![t] = "partial"]
      BY <2>3, <3>3
    <3> QED  BY <2>1, <3>1, <3>2, <3>3 DEF FailedTree
  <2> QED  BY <1>1, <2>4, FetchEndsRunnable
<1> QED  BY <1>3, <1>4

LEMMA ApplyFailsRunnable ==
  ASSUME Types, Fits(setup), UndoInv, RunnableInv, ApplyFails
  PROVE  RunnableInv'
<1>1. run \in Command /\ run.phase = "fetch" /\ run' = NoRun
        /\ UNCHANGED <<setup, tree, config, journal, snaps, died>>
  BY Running DEF ApplyFails, disk
<1> QED  BY <1>1, FetchEndsRunnable

LEMMA ApplyRunnable ==
  ASSUME Types, Fits(setup), UndoInv, RunnableInv, Apply
  PROVE  RunnableInv'
<1>1. PICK s : s = snaps[Len(snaps)]
  OBVIOUS
<1>2. run \in Command /\ run.phase = "fetch" /\ run.todo = {}
  BY Running DEF Apply
<1>3. s \in Snap /\ Doing(s) /\ BackIsWhole(s)
  BY <1>1, <1>2, NewestThere
<1>4. snaps # << >> /\ Fetching /\ run.cli \in Clis /\ (~died => Known(run.cli)) /\ Asked
        /\ \A c \in Clis : s.journal[c] = journal[c]
  BY <1>1, <1>2, <1>3, WhileFetching DEF Doing
<1>5. PICK placed : placed = Placed(run.cli, run.sel) /\ config' = [config EXCEPT ![run.cli] = placed]
  BY DEF Apply
<1>6. UNCHANGED <<setup, tree, journal, snaps, release, died>>
  BY DEF Apply, ghosts
<1>7. PICK stale : stale = Stale(run.cli, run.sel) /\ run' = [run EXCEPT !.phase = "keys", !.todo = stale]
  BY DEF Apply
<1>8. run'.phase = "keys" /\ run'.op = run.op /\ run'.cli = run.cli /\ run'.sel = run.sel
        /\ run'.wanted = run.wanted /\ run'.prev = run.prev /\ run'.conf = run.conf /\ run'.todo = stale
  BY <1>2, <1>7 DEF Command
<1>9. run.wanted = {Tree(x) : x \in run.sel} /\ run.op = "install"
  BY <1>4 DEF Asked, Fetching
<1>10. ~died => \A t \in placed : t \in run.wanted \/ (t \in config[run.cli] /\ t.server \notin run.sel)
  <2> SUFFICES ASSUME ~died PROVE \A t \in placed : t \in run.wanted \/ (t \in config[run.cli] /\ t.server \notin run.sel)
    OBVIOUS
  <2>1. Skipped(run.cli, run.sel) = {}
    BY <1>4 DEF Skipped, Known, ServersOf
  <2> QED  BY <1>5, <1>9, <2>1 DEF Placed
<1>11. config' \in [Clis -> Configs] /\ config'[run.cli] = placed /\ \A c \in Clis \ {run.cli} : config'[c] = config[c]
  BY <1>4, <1>5, ApplyTypes DEF Types
<1>12. Retiring'
  <2>1. ~died' => \A t \in run'.conf : t.server \in run'.prev.keys
    BY <1>3, <1>4, <1>6, <1>8 DEF Known, Doing, Fetching
  <2>2. \A t \in run'.todo : t \in journal'[run'.cli].trees /\ t.server \notin run'.sel
    BY <1>6, <1>7, <1>8 DEF Stale
  <2>3. \A t \in run'.wanted : tree'[t] = "whole"
    BY <1>2, <1>4, <1>6, <1>8 DEF Fetching
  <2>4. ~died' => \A t \in config'[run'.cli] :
          \/ t \in run'.wanted
          \/ /\ run'.phase = "keys" /\ t \in journal'[run'.cli].trees
             /\ t.server \in journal'[run'.cli].keys \ run'.sel
    BY <1>4, <1>6, <1>8, <1>10, <1>11 DEF Known
  <2> QED  BY <2>1, <2>2, <2>3, <2>4 DEF Retiring
<1>13. Doing(s)'
  <2>1. Asked'
    <3>1. \A x : Tree(x)' = Tree(x)
      BY <1>6 DEF Tree
    <3> QED  BY <1>4, <1>6, <1>8, <3>1 DEF Asked
  <2> QED  BY <1>2, <1>3, <1>6, <1>8, <1>12, <2>1 DEF Doing
<1>14. RecordsWhole' /\ Selects(journal)'
  <2>1. \A c \in Clis : \A t \in journal[c].trees : tree[t] = "whole"
    BY <1>2, RecordsStand
  <2> QED  BY <1>6, <2>1 DEF RunnableInv, RecordsWhole, Selects, OneSelection
<1>15. s.op = "install" /\ OneSelection(setup) => \A c \in Clis : \A u \in s.journal[c].trees : tree'[u] = "whole"
  BY <1>3, <1>6 DEF BackIsWhole
<1>16. run' # NoRun
  BY <1>8 DEF NoRun
<1> QED  BY <1>1, <1>2, <1>4, <1>6, <1>8, <1>11, <1>13, <1>14, <1>15, <1>16, StepRunnable

LEMMA RetireKeysRunnable ==
  ASSUME Types, Fits(setup), UndoInv, RunnableInv, RetireKeys
  PROVE  RunnableInv'
<1>1. PICK s : s = snaps[Len(snaps)]
  OBVIOUS
<1>2. run \in Command /\ run.phase = "keys"
  BY Running DEF RetireKeys
<1>3. snaps # << >> /\ s \in Snap /\ Doing(s) /\ BackIsWhole(s) /\ run.cli \in Clis
  BY <1>1, <1>2, NewestThere
<1>4. Retiring /\ Asked
  BY <1>2, <1>3 DEF Doing
<1>5. PICK left : left = {t \in config[run.cli] : t.server \in run.sel \/ t.server \notin journal[run.cli].keys}
        /\ config' = [config EXCEPT ![run.cli] = left]
  BY DEF RetireKeys
<1>6. UNCHANGED <<setup, tree, journal, snaps, release, died>>
  BY DEF RetireKeys, ghosts
<1>7. run'.phase = "trees" /\ run'.op = run.op /\ run'.cli = run.cli /\ run'.sel = run.sel
        /\ run'.wanted = run.wanted /\ run'.prev = run.prev /\ run'.conf = run.conf /\ run'.todo = run.todo
  BY <1>2 DEF RetireKeys, Command
<1>8. config'[run.cli] = left /\ \A c \in Clis \ {run.cli} : config'[c] = config[c]
  BY <1>3, <1>5 DEF Types
<1>9. Retiring'
  <2>1. ~died => \A t \in left : t \in run.wanted
    BY <1>4, <1>5 DEF Retiring
  <2> QED  BY <1>4, <1>6, <1>7, <1>8, <2>1 DEF Retiring
<1>10. Doing(s)'
  <2>1. Asked'
    <3>1. \A x : Tree(x)' = Tree(x)
      BY <1>6 DEF Tree
    <3> QED  BY <1>4, <1>6, <1>7, <3>1 DEF Asked
  <2> QED  BY <1>2, <1>3, <1>6, <1>7, <1>9, <2>1 DEF Doing
<1>11. RecordsWhole' /\ Selects(journal)'
  <2>1. \A c \in Clis : \A t \in journal[c].trees : tree[t] = "whole"
    BY <1>2, RecordsStand
  <2> QED  BY <1>6, <2>1 DEF RunnableInv, RecordsWhole, Selects, OneSelection
<1>12. s.op = "install" /\ OneSelection(setup) => \A c \in Clis : \A u \in s.journal[c].trees : tree'[u] = "whole"
  BY <1>3, <1>6 DEF BackIsWhole
<1>13. run' # NoRun
  BY <1>7 DEF NoRun
<1> QED  BY <1>1, <1>2, <1>3, <1>6, <1>7, <1>8, <1>10, <1>11, <1>12, <1>13, StepRunnable

(* Only an uninstall or a deselection takes a tree away, and only with one  *)
(* CLI: it was its own.                                                    *)
LEMMA RetireTreeRunnable ==
  ASSUME Types, Fits(setup), UndoInv, RunnableInv, NEW t \in Trees, RetireTree(t)
  PROVE  RunnableInv'
<1>1. PICK s : s = snaps[Len(snaps)]
  OBVIOUS
<1>2. run \in Command /\ run.phase = "trees" /\ t \in run.todo
  BY Running DEF RetireTree, KeysGone
<1>3. snaps # << >> /\ s \in Snap /\ Doing(s) /\ BackIsWhole(s) /\ run.cli \in Clis
  BY <1>1, <1>2, NewestThere
<1>4. Retiring /\ Asked
  BY <1>2, <1>3 DEF Doing
<1>5. ~(run.op = "install" /\ OneSelection(setup))
  BY <1>2, <1>3, SteadyRetires
<1>6. ~Steady(setup) /\ OneCli(setup)
  BY <1>4, <1>5 DEF Asked, Steady, Fits
<1>7. UNCHANGED <<setup, config, journal, snaps, release, died>> /\ tree' = [tree EXCEPT ![t] = "absent"]
  BY DEF RetireTree, ghosts
<1>8. run'.phase = "trees" /\ run'.op = run.op /\ run'.cli = run.cli /\ run'.sel = run.sel
        /\ run'.wanted = run.wanted /\ run'.prev = run.prev /\ run'.conf = run.conf /\ run'.todo = run.todo \ {t}
  BY <1>2 DEF RetireTree, Command
<1>9. \A u \in Trees : u # t => tree'[u] = tree[u]
  BY <1>7 DEF Types
<1>10. t.server \notin run.sel
  BY <1>2, <1>4 DEF Retiring
<1>11. t \notin run.wanted
  <2>1. \A x \in run.sel : Tree(x).server = x
    BY <1>2, CommandIs, TreeIs
  <2> QED  BY <1>4, <1>10, <2>1 DEF Asked
<1>12. RecordsWhole'
  <2> SUFFICES ASSUME NEW c \in Clis, NEW u \in journal[c].trees
               PROVE  tree'[u] = "whole" \/ TakenAway(c, u)'
    BY <1>7 DEF RecordsWhole
  <2>1. u \in Trees
    BY RecordedAre
  <2>2. TakenAway(c, u)' <=> c = run.cli /\ u.server \notin run.sel
    BY <1>6, <1>7, <1>8 DEF TakenAway, Steady, OneSelection
  <2>3. CASE u = t
    <3>1. t \in journal[run.cli].trees
      BY <1>2, <1>4 DEF Retiring
    <3>2. c = run.cli
      BY <1>3, <1>6, <2>3, <3>1 DEF OneCli, RunnableInv, Selects
    <3> QED  BY <1>10, <2>2, <2>3, <3>2
  <2>4. CASE u # t
    BY <1>9, <2>1, <2>2, <2>4 DEF RunnableInv, RecordsWhole, TakenAway
  <2> QED  BY <2>3, <2>4
<1>13. Selects(journal)'
  BY <1>7 DEF RunnableInv, Selects, OneSelection
<1>14. Retiring'
  <2>1. \A u \in run.wanted : tree'[u] = "whole"
    BY <1>2, <1>4, <1>9, <1>11, CommandIs DEF Retiring
  <2> QED  BY <1>2, <1>4, <1>7, <1>8, <2>1 DEF Retiring
<1>15. Doing(s)'
  <2>1. Asked'
    <3>1. \A x : Tree(x)' = Tree(x)
      BY <1>7 DEF Tree
    <3> QED  BY <1>4, <1>7, <1>8, <3>1 DEF Asked
  <2> QED  BY <1>2, <1>3, <1>7, <1>8, <1>14, <2>1 DEF Doing
<1>16. run' # NoRun /\ ~(s.op = "install" /\ OneSelection(setup))
  BY <1>3, <1>5, <1>8 DEF NoRun, Doing
<1> QED  BY <1>1, <1>2, <1>3, <1>7, <1>8, <1>12, <1>13, <1>15, <1>16, StepRunnable

LEMMA SaveRunnable ==
  ASSUME Types, Fits(setup), UndoInv, RunnableInv, Save
  PROVE  RunnableInv'
<1>1. PICK s : s = snaps[Len(snaps)]
  OBVIOUS
<1>2. run \in Command /\ run.phase = "trees"
  BY Running DEF Save
<1>3. snaps # << >> /\ s \in Snap /\ Doing(s) /\ BackIsWhole(s) /\ run.cli \in Clis
  BY <1>1, <1>2, NewestThere
<1>4. Retiring /\ Asked
  BY <1>2, <1>3 DEF Doing
<1>5. PICK new : new = NewRecord /\ journal' = [journal EXCEPT ![run.cli] = new]
  BY DEF Save
<1>6. UNCHANGED <<setup, tree, config, snaps, release, died>>
  BY DEF Save
<1>7. run'.phase = "prune" /\ run'.op = run.op /\ run'.cli = run.cli /\ run'.sel = run.sel
        /\ run'.wanted = run.wanted /\ run'.prev = run.prev /\ run'.conf = run.conf
  BY <1>2 DEF Save, Command
<1>8. journal'[run.cli] = new /\ \A c \in Clis \ {run.cli} : journal'[c] = journal[c]
  BY <1>3, <1>5, JournalIs DEF Types
<1>9. /\ new.trees = run.wanted
      /\ \A t \in run.wanted : t.server \in run.sel
      /\ ~died => \A t \in run.wanted : t.server \in new.keys
  <2>1. CASE run.op = "uninstall"
    BY <1>4, <1>5, <2>1 DEF Asked, NewRecord, NotInstalled
  <2>2. CASE run.op = "install"
    <3>1. new.trees = run.wanted
            /\ new.keys = {x \in run.sel : x \in run.prev.keys \/ x \notin ServersOf(run.conf)}
      BY <1>5, <2>2 DEF NewRecord
    <3>2. \A t \in run.wanted : t.server \in run.sel
      <4>1. \A x \in run.sel : Tree(x).server = x
        BY <1>2, CommandIs, TreeIs
      <4> QED  BY <1>4, <2>2, <4>1 DEF Asked
    <3>3. ~died => \A x \in ServersOf(run.conf) : x \in run.prev.keys
      BY <1>4 DEF Retiring, ServersOf
    <3> QED  BY <3>1, <3>2, <3>3
  <2> QED  BY <1>4, <2>1, <2>2 DEF Asked
<1>10. RecordsWhole'
  <2> SUFFICES ASSUME NEW c \in Clis, NEW u \in journal'[c].trees PROVE tree'[u] = "whole"
    BY DEF RecordsWhole
  <2>1. CASE c = run.cli
    BY <1>4, <1>6, <1>8, <1>9, <2>1 DEF Retiring
  <2>2. CASE c # run.cli
    BY <1>6, <1>8, <2>2 DEF RunnableInv, RecordsWhole, TakenAway
  <2> QED  BY <2>1, <2>2
<1>11. Selects(journal)'
  <2> SUFFICES ASSUME NEW c \in Clis, NEW t \in journal'[c].trees
               PROVE  /\ setup.selections[c] # {}
                      /\ OneSelection(setup) => \A sel \in setup.selections[c] : t.server \in sel
    BY <1>6 DEF Selects, OneSelection
  <2>1. CASE c # run.cli
    BY <1>8, <2>1 DEF RunnableInv, Selects
  <2>2. CASE c = run.cli
    <3>1. t \in run.wanted
      BY <1>8, <1>9, <2>2
    <3>2. run.op = "install" /\ run.sel \in setup.selections[run.cli]
      BY <1>4, <3>1 DEF Asked
    <3>3. OneSelection(setup) => \A sel \in setup.selections[c] : sel = run.sel
      BY <1>3, <2>2, <3>2 DEF OneSelection
    <3> QED  BY <1>9, <2>2, <3>1, <3>2, <3>3
  <2> QED  BY <2>1, <2>2
<1>12. Doing(s)'
  <2>1. Asked'
    <3>1. \A x : Tree(x)' = Tree(x)
      BY <1>6 DEF Tree
    <3> QED  BY <1>4, <1>6, <1>7, <3>1 DEF Asked
  <2>2. (~died => Known(run.cli))'
    <3> SUFFICES ASSUME ~died, NEW t \in config[run.cli]
                 PROVE  t \in new.trees /\ t.server \in new.keys
      BY <1>6, <1>7, <1>8 DEF Known
    <3>1. t \in run.wanted
      BY <1>2, <1>4 DEF Retiring
    <3> QED  BY <1>9, <3>1
  <2> QED  BY <1>2, <1>3, <1>6, <1>7, <1>8, <2>1, <2>2 DEF Doing
<1>13. run' # NoRun
  BY <1>7 DEF NoRun
<1>14. s.op = "install" /\ OneSelection(setup) => \A c \in Clis : \A u \in s.journal[c].trees : tree'[u] = "whole"
  BY <1>3, <1>6 DEF BackIsWhole
<1> QED  BY <1>1, <1>2, <1>3, <1>6, <1>7, <1>8, <1>10, <1>11, <1>12, <1>13, <1>14, StepRunnable

(* A prune keeps what any CLI records, and what an install replaced.       *)
LEMMA PruneRunnable ==
  ASSUME Types, Fits(setup), UndoInv, RunnableInv, Prune \/ PruneFails
  PROVE  RunnableInv'
<1>1. PICK s : s = snaps[Len(snaps)]
  OBVIOUS
<1>2. run \in Command /\ run.phase = "prune" /\ run' = NoRun
        /\ UNCHANGED <<setup, config, journal, snaps, died>>
  BY Running DEF Prune, PruneFails
<1>3. snaps # << >> /\ s \in Snap /\ Doing(s) /\ BackIsWhole(s) /\ run.cli \in Clis
  BY <1>1, <1>2, NewestThere
<1>4. \A t \in Trees : t \in Keep => tree'[t] = tree[t]
  <2>1. \A t \in Keep : t \notin Prunable
    BY DEF Prunable
  <2> QED  BY <2>1, WithoutIs DEF Prune, PruneFails, Removes
<1>5. \A c \in Clis : \A t \in journal[c].trees : t \in Trees /\ t \in Keep /\ tree[t] = "whole"
  <2>1. \A c \in Clis : \A t \in journal[c].trees : tree[t] = "whole"
    BY <1>2, RecordsStand
  <2> QED  BY <2>1, RecordedAre DEF Keep, RecordedTrees
<1>6. ASSUME s.op = "install", OneSelection(setup), NEW c \in Clis, NEW t \in s.journal[c].trees
      PROVE  tree'[t] = "whole"
  <2>1. tree[t] = "whole" /\ t \in Trees
    BY <1>3, <1>6, HeldAre DEF BackIsWhole
  <2>2. CASE c # run.cli
    BY <1>3, <1>4, <1>5, <1>6, <2>1, <2>2 DEF Doing
  <2>3. CASE c = run.cli
    <3>1. t \in run.prev.trees /\ run.op = "install"
      BY <1>3, <1>6, <2>3 DEF Doing
    <3> QED  BY <1>4, <2>1, <3>1 DEF Keep
  <2> QED  BY <2>2, <2>3
<1>7. ~died => Known(run.cli)
  BY <1>2, <1>3 DEF Doing
<1> QED  BY <1>1, <1>2, <1>3, <1>4, <1>5, <1>6, <1>7, EndsRunnable

LEMMA CrashRunnable ==
  ASSUME Types, Fits(setup), UndoInv, RunnableInv, Crash
  PROVE  RunnableInv'
<1>1. PICK s : s = snaps[Len(snaps)]
  OBVIOUS
<1>2. run \in Command /\ run' = NoRun /\ UNCHANGED <<setup, config, journal, snaps>> /\ died'
  BY Busy DEF Crash
<1>3. Steady(setup)
  BY DEF Crash, Fails, Fits
<1>4. CASE run.phase = "fetch"
  <2>1. \A t \in Trees : tree[t] = "whole" /\ tree'[t] # "whole" =>
          t \in run.todo /\ "rmtree" \in setup.failures
    BY <1>4 DEF Crash, Torn, Types
  <2>2. "rmtree" \in setup.failures => OneCli(setup)
    BY DEF Fits
  <2> QED  BY <1>2, <1>3, <1>4, <2>1, <2>2, FetchEndsRunnable
<1>5. CASE run.phase # "fetch"
  <2>1. snaps # << >> /\ s \in Snap /\ Doing(s) /\ BackIsWhole(s)
    BY <1>1, <1>2, NewestThere
  <2>2. Torn = {}
    <3>1. run.op = "install" /\ OneSelection(setup)
      BY <1>3, <2>1 DEF Doing, Asked, Steady
    <3>2. run.phase = "trees" => run.todo = {}
      BY <1>2, <2>1, <3>1, SteadyRetires
    <3> QED  BY <1>5, <3>2 DEF Torn
  <2>3. UNCHANGED tree
    BY <2>2 DEF Crash
  <2>4. \A c \in Clis : \A t \in journal[c].trees : tree'[t] = "whole"
    BY <1>3, <2>3, RecordsStand
  <2>5. s.op = "install" /\ OneSelection(setup) => \A c \in Clis : \A t \in s.journal[c].trees : tree'[t] = "whole"
    BY <2>1, <2>3 DEF BackIsWhole
  <2> QED  BY <1>1, <1>2, <1>3, <2>1, <2>4, <2>5, EndsRunnable
<1> QED  BY <1>4, <1>5

LEMMA RunnableNext == Types /\ UndoInv /\ Fits(setup) /\ RunnableInv /\ [Next]_vars => RunnableInv'
<1> SUFFICES ASSUME Types, UndoInv, Fits(setup), RunnableInv, [Next]_vars PROVE RunnableInv'  OBVIOUS
<1>1. CASE NewRelease
  <2>1. UNCHANGED <<setup, tree, config, journal, snaps, run, died>> /\ run = NoRun
    BY <1>1 DEF NewRelease, disk, ghosts
  <2> QED  BY <2>1 DEF RunnableInv, Known, RecordsWhole, TakenAway, Selects, BackIsWhole, Steady, OneSelection
<1>2. CASE UNCHANGED vars
  <2>1. UNCHANGED <<setup, tree, config, journal, snaps, release, run, died>>
    BY <1>2 DEF vars, disk, ghosts
  <2>2. \A x : Tree(x)' = Tree(x)
    BY <2>1 DEF Tree
  <2>3. Asked' <=> Asked
    BY <2>1, <2>2 DEF Asked
  <2> QED  BY <2>1, <2>3 DEF RunnableInv, Known, RecordsWhole, TakenAway, Selects, BackIsWhole, Steady, OneSelection,
                 Doing, Fetching, Retiring
<1>3. CASE \E c \in Clis : Uninstall(c) \/ \E sel \in setup.selections[c] : Install(c, sel)
  BY <1>3, UninstallRunnable, InstallRunnable
<1>4. CASE \E g \in DOMAIN snaps : Restore(g)
  BY <1>4, RestoreRunnable
<1>5. CASE Steps
  BY <1>5, FetchRunnable, RetireTreeRunnable, ApplyRunnable, RetireKeysRunnable, SaveRunnable, PruneRunnable DEF Steps
<1>6. CASE Errs
  <2>1. ~RetireFails /\ ~SaveFails
    BY DEF RetireFails, SaveFails, Fails, Fits
  <2> QED  BY <1>6, <2>1, FetchFailsRunnable, ApplyFailsRunnable, PruneRunnable, CrashRunnable DEF Errs
<1> QED  BY <1>1, <1>2, <1>3, <1>4, <1>5, <1>6 DEF Next, Starts

(* What the invariant promises a CLI that runs a server.                   *)
LEMMA RunsWhole ==
  ASSUME Types, Fits(setup), UndoInv, RunnableInv
  PROVE  ServersRunnable
<1> SUFFICES ASSUME NEW c \in Clis, NEW t \in config[c], ~died \/ Recorded(journal, c, t)
             PROVE  tree[t] = "whole"
  BY DEF ServersRunnable
<1>1. CASE run = NoRun \/ c # run.cli
  <2>1. t \in journal[c].trees
    BY <1>1 DEF RunnableInv, Known, Recorded
  <2>2. ~TakenAway(c, t)
    BY <1>1 DEF TakenAway, NoRun
  <2> QED  BY <2>1, <2>2 DEF RunnableInv, RecordsWhole
<1>2. CASE run # NoRun /\ c = run.cli
  <2>1. run \in Command
    BY <1>2, Busy
  <2>2. PICK s : s = snaps[Len(snaps)]
    OBVIOUS
  <2>3. Doing(s)
    BY <2>1, <2>2, NewestThere
  <2>4. CASE run.phase # "trees"
    <3>1. t \in journal[c].trees => tree[t] = "whole"
      BY <2>4, RecordsStand
    <3>2. t \in journal[c].trees \/ t \in run.wanted
      BY <1>2, <2>1, <2>3, <2>4, CommandIs DEF Doing, Fetching, Retiring, Known, Recorded
    <3>3. run.phase = "keys" /\ t \in run.wanted => tree[t] = "whole"
      BY <2>3 DEF Doing, Retiring
    <3>4. run.phase # "keys" => t \in journal[c].trees
      BY <1>2, <2>1, <2>3, <2>4, CommandIs DEF Doing, Fetching, Known, Recorded
    <3> QED  BY <3>1, <3>2, <3>3, <3>4
  <2>5. CASE run.phase = "trees"
    <3>1. Retiring
      BY <2>3, <2>5 DEF Doing
    <3>2. CASE ~died
      BY <1>2, <2>5, <3>1, <3>2 DEF Retiring
    <3>3. CASE died
      <4>1. Steady(setup)
        BY <3>3 DEF RunnableInv
      <4> QED  BY <3>3, <4>1, RecordsStand DEF Recorded
    <3> QED  BY <3>2, <3>3
  <2> QED  BY <2>4, <2>5
<1> QED  BY <1>1, <1>2

(* At every moment what a CLI's configuration runs is on disk, whole: it is *)
(* fetched before it is configured, unconfigured before it is removed, and  *)
(* never pruned while any CLI records it. Once a command died, that still   *)
(* holds of what the journal records. Fits says of which commands and       *)
(* failures: outside it a tree that is run does go (v_shared and the        *)
(* hazards of core/dependencies.py:378 and cli.py:2075).                    *)
THEOREM ServersRun == ASSUME \A st \in Setups : Fits(st) PROVE Spec => []ServersRunnable
<1>1. Types => Fits(setup)
  BY DEF Types
<1>2. Types /\ UndoInv /\ RunnableInv => ServersRunnable
  BY <1>1, RunsWhole
<1> QED  BY <1>1, <1>2, TypesInit, TypesNext, UndoInit, UndoNext, RunnableInit, RunnableNext, PTL DEF Spec

(* _prune_dependencies: undoing the last install leaves runnable what was   *)
(* runnable before it, and recorded, though darq pruned when it succeeded,  *)
(* or died half way.                                                       *)
THEOREM OneStepBackKept == ASSUME \A st \in Setups : Fits(st) PROVE Spec => OneStepBack
<1>1. Types => Fits(setup)
  BY DEF Types
<1>2. ASSUME Types, UndoInv, RunnableInv, NEW g \in DOMAIN snaps, Restore(g), g = Len(snaps),
             NEW c \in Clis, NEW t \in snaps[g].was.config[c], Recorded(snaps[g].was.journal, c, t)
      PROVE  tree'[t] = "whole"
  <2>1. PICK s : s = snaps[g]
    OBVIOUS
  <2>2. s \in Snap /\ snaps # << >>
    BY <1>2, <2>1 DEF Types
  <2>3. s.op = "install" /\ OneSelection(setup)
    BY <1>1, <1>2, <2>1, RestoresInstall
  <2>4. t \in s.journal[c].trees
    <3>1. Undoes(s)
      BY <1>2, <2>1, <2>2 DEF UndoInv
    <3> QED  BY <1>2, <2>1, <3>1 DEF Recorded, Undoes
  <2>5. tree[t] = "whole" /\ t \notin s.absent /\ t \in Trees
    <3>1. BackIsWhole(s)
      BY <1>2, <2>1, <2>2 DEF RunnableInv
    <3> QED  BY <2>2, <2>3, <2>4, <3>1, HeldAre DEF BackIsWhole
  <2>6. tree' = Without(s.absent)
    BY <1>2, <2>1, RestoredIs
  <2> QED  BY <1>2, <2>5, <2>6, WithoutIs
<1>3. Types /\ UndoInv /\ RunnableInv =>
        [\A g \in DOMAIN snaps :
           Restore(g) /\ g = Len(snaps) =>
             \A c \in Clis : \A t \in snaps[g].was.config[c] :
               Recorded(snaps[g].was.journal, c, t) /\ snaps[g].was.tree[t] = "whole"
                 => tree'[t] = "whole"]_vars
  BY <1>2
<1> QED  BY <1>1, <1>3, TypesInit, TypesNext, UndoInit, UndoNext, RunnableInit, RunnableNext, PTL DEF Spec, OneStepBack

-----------------------------------------------------------------------------
(* Nothing piles up in the folder.                                         *)

(* Where that is so: a release does not take back a version that an earlier *)
(* one gave up, and only the newest generation is restored. Otherwise a     *)
(* tree the journal no longer records may be found on disk again as the one *)
(* a release wants, and is not among those the generation found absent; or  *)
(* the records come back of an older time and not what was on disk then.    *)
Forward ==
  \A r \in Releases : \A q \in 1..r : \A s \in Servers :
    Pins[q][s] = Pins[r][s] => \A p \in q..r : Pins[p][s] = Pins[r][s]
NewestOnly(st) == "older" \notin st.restores

OnDisk(t) == tree[t] # "absent"
HoldsTree(j, t) == \E c \in Clis : t \in j[c].trees
HoldsServer(j, s) == \E c \in Clis : \E u \in j[c].trees : u.server = s

(* A tree these records account for: they hold it; or they hold its server, *)
(* in another version, and it is what some install replaced. Until a        *)
(* command has pruned, it may be what an earlier one did.                   *)
Outdated(j, t) == t # Tree(t.server) /\ HoldsServer(j, t.server)
Accounts(j, t) ==
  HoldsTree(j, t) \/ (Outdated(j, t) /\ (run.phase # "prune" => \E c \in Clis : t \in last[c]))

(* What is on disk some release until now has pinned. It is accounted for,  *)
(* between commands, and would be if the newest generation was given back.  *)
Seen == \A t \in Trees : OnDisk(t) => \E r \in 1..release : Pins[r][t.server] = t.version
Settled == \A t \in Trees : OnDisk(t) /\ t.server \notin strays => Accounts(journal, t)
Behind(s) ==
  \A t \in Trees \ s.absent :
    OnDisk(t) /\ t.server \notin strays \cup s.was.strays => Accounts(s.journal, t)

(* How far the running command is: what it found absent it has fetched or   *)
(* is about to; of what it had recorded, what was deselected is taken away. *)
Working(s) ==
  /\ s.absent \subseteq run.wanted /\ run.wanted = {Tree(x) : x \in run.sel}
  /\ run.op = "uninstall" => run.sel = {}
  /\ s.was.strays = strays
  /\ \A c \in Clis : s.journal[c].trees = IF c = run.cli THEN run.prev.trees ELSE journal[c].trees
  /\ run.phase # "prune" => journal[run.cli].trees = run.prev.trees
FetchingSo(s) ==
  /\ run.op = "install" /\ run.todo \subseteq run.wanted
  /\ \A t \in run.todo : OnDisk(t) \/ t \in s.absent
  /\ \A t \in s.absent : OnDisk(t) => t \in run.created
RetiringSo == \A t \in run.prev.trees : OnDisk(t) => t.server \in run.sel \/ t \in run.todo
PruningSo ==
  /\ journal[run.cli].trees = run.wanted
  /\ run.op = "install" => last[run.cli] = run.prev.trees
  /\ \A t \in run.prev.trees : OnDisk(t) => t.server \in run.sel
WorkingSo(s) ==
  /\ Working(s)
  /\ run.phase = "fetch" => FetchingSo(s)
  /\ run.phase \in {"keys", "trees"} => RetiringSo
  /\ run.phase = "prune" => PruningSo

AccountInv ==
  /\ Seen
  /\ run = NoRun => Settled
  /\ snaps # << >> => Behind(snaps[Len(snaps)])
  /\ run # NoRun => snaps # << >> /\ WorkingSo(snaps[Len(snaps)])

LEMMA AccountInit == Init => AccountInv
<1> SUFFICES ASSUME Init PROVE AccountInv
  OBVIOUS
<1>1. \A t \in Trees : ~OnDisk(t)
  BY DEF Init, OnDisk
<1> QED  BY <1>1 DEF Init, AccountInv, Seen, Settled

(* A tree is the one a release pins, if it is in that version.             *)
LEMMA PinnedIs ==
  ASSUME NEW t \in Trees
  PROVE  t = Tree(t.server) <=> t.version = Pins[release][t.server]
BY DEF Trees, Tree

(* Records that hold the same trees account for the same.                   *)
LEMMA SameHolds ==
  ASSUME NEW j, NEW k, \A c \in Clis : j[c].trees = k[c].trees, NEW t, Accounts(j, t)
  PROVE  Accounts(k, t)
BY DEF Accounts, HoldsTree, Outdated, HoldsServer

(* A step that leaves release and last alone, and is not of the last phase, *)
(* leaves a tree accounted for.                                            *)
LEMMA StaysAccounted ==
  ASSUME NEW j, NEW t, Accounts(j, t), UNCHANGED <<release, last>>,
         run.phase = "prune" => run'.phase = "prune"
  PROVE  Accounts(j, t)'
BY DEF Accounts, HoldsTree, Outdated, HoldsServer, Tree

(* What gave up a tree does not take it back.                              *)
LEMMA NewReleaseAccounts ==
  ASSUME Types, Forward, AccountInv, NewRelease
  PROVE  AccountInv'
<1>1. UNCHANGED <<tree, journal, snaps, run, last, strays>> /\ release' = release + 1 /\ run = NoRun /\ run.phase = "idle"
  BY DEF NewRelease, disk, ghosts, NoRun
<1>2. release \in Nat /\ release + 1 \in Releases /\ release \in Releases
  BY ReleasesAre DEF NewRelease, Types
<1>4. Seen'
  BY <1>1, <1>2 DEF Seen, AccountInv, OnDisk
<1>5. ASSUME NEW j, NEW t \in Trees, OnDisk(t), Accounts(j, t) PROVE Accounts(j, t)'
  <2>1. CASE HoldsTree(j, t)
    BY <2>1 DEF Accounts, HoldsTree
  <2>2. CASE Outdated(j, t) /\ \E c \in Clis : t \in last[c]
    <3>1. PICK r \in 1..release : Pins[r][t.server] = t.version
      BY <1>5 DEF AccountInv, Seen
    <3>2. t.version # Pins[release][t.server] /\ t.server \in Servers
      BY <2>2, PinnedIs DEF Outdated, Trees
    <3>3. Pins[release + 1][t.server] # t.version
      <4>1. SUFFICES ASSUME Pins[release + 1][t.server] = t.version PROVE FALSE
        OBVIOUS
      <4>2. \A p \in r..(release + 1) : Pins[p][t.server] = t.version
        <5>1. r \in 1..(release + 1)
          BY <1>2
        <5> QED  BY <1>2, <3>1, <3>2, <4>1, <5>1 DEF Forward
      <4>3. release \in r..(release + 1)
        BY <1>2
      <4> QED  BY <3>2, <4>2, <4>3
    <3>4. t # [server |-> t.server, version |-> Pins[release + 1][t.server]]
      BY <3>3
    <3> QED  BY <1>1, <2>2, <3>4 DEF Accounts, Outdated, HoldsServer, Tree
  <2> QED  BY <1>1, <1>5, <2>1, <2>2 DEF Accounts
<1>6. \A t \in Trees : OnDisk(t)' <=> OnDisk(t)
  BY <1>1 DEF OnDisk
<1>7. Settled'
  <2>1. ASSUME NEW t \in Trees, OnDisk(t), t.server \notin strays PROVE Accounts(journal, t)'
    <3>1. PICK j : j = journal
      OBVIOUS
    <3>2. Accounts(j, t)
      BY <1>1, <2>1, <3>1 DEF AccountInv, Settled
    <3>3. Accounts(j, t)'
      BY <1>5, <2>1, <3>2
    <3>4. j = journal'
      BY <1>1, <3>1
    <3> QED  BY <3>3, <3>4 DEF Accounts, HoldsTree, Outdated, HoldsServer
  <2> QED  BY <1>1, <1>6, <2>1 DEF Settled
<1>8. ASSUME snaps # << >> PROVE Behind(snaps[Len(snaps)])'
  <2>1. PICK s : s = snaps[Len(snaps)]
    OBVIOUS
  <2>2. Behind(s)
    BY <1>8, <2>1 DEF AccountInv
  <2>3. Behind(s)'
    BY <1>1, <1>5, <1>6, <2>2 DEF Behind
  <2> QED  BY <1>1, <2>1, <2>3 DEF Behind
<1> QED  BY <1>1, <1>4, <1>7, <1>8 DEF AccountInv

(* A command begins: the generation it takes is what there is.              *)
LEMMA BeginsAccounts ==
  ASSUME Types, AccountInv, run = NoRun, NEW s \in Snap, snaps' = Append(snaps, s), s.journal = journal,
         s.was.strays = strays, UNCHANGED <<tree, journal, release, last, strays>>, run' # NoRun, run'.phase # "prune", WorkingSo(s)'
  PROVE  AccountInv'
<1>1. run.phase = "idle"
  BY DEF NoRun
<1>2. Seen'
  BY <1>1 DEF AccountInv, Seen, OnDisk
<1>3. snaps' # << >> /\ snaps'[Len(snaps')] = s
  BY Taken
<1>4. Behind(s)'
  <2>1. ASSUME NEW t \in Trees, OnDisk(t), t.server \notin strays PROVE Accounts(s.journal, t)'
    <3>1. Accounts(s.journal, t)
      BY <1>1, <2>1 DEF AccountInv, Settled
    <3> QED  BY <1>1, <3>1, StaysAccounted
  <2> QED  BY <2>1 DEF Behind, OnDisk
<1> QED  BY <1>2, <1>3, <1>4 DEF AccountInv

LEMMA InstallAccounts ==
  ASSUME Types, AccountInv, NEW c \in Clis, NEW sel \in setup.selections[c], Install(c, sel)
  PROVE  AccountInv'
<1>1. PICK wanted : wanted = {Tree(t) : t \in sel}
  OBVIOUS
<1>2. PICK fresh : fresh = wanted \ Kept(c, wanted)
  OBVIOUS
<1>3. PICK s : s = Snapshot("install", c, Retired(c, sel) # config[c], fresh) /\ snaps' = Append(snaps, s)
  BY <1>1, <1>2 DEF Install
<1>4. sel \subseteq Servers /\ wanted \subseteq Trees /\ fresh \subseteq wanted
  BY <1>1, <1>2, SetupIs, TreeIs
<1>5. s \in Snap
  BY <1>3, <1>4, SnapshotIs
<1>6. s.journal = journal /\ s.absent = {t \in fresh : tree[t] = "absent"} /\ s.was.strays = strays
  BY <1>3 DEF Snapshot
<1>7. UNCHANGED <<tree, journal, release, last, strays>> /\ run = NoRun
  BY DEF Install, disk, ghosts
<1>8. run'.phase = "fetch" /\ run'.op = "install" /\ run'.cli = c /\ run'.sel = sel /\ run'.wanted = wanted
        /\ run'.todo = fresh /\ run'.created = {} /\ run'.prev = journal[c]
  BY <1>1, <1>2 DEF Install
<1>9. Working(s)'
  <2>1. wanted = {Tree(x)' : x \in sel}
    BY <1>1, <1>7 DEF Tree
  <2> QED  BY <1>4, <1>6, <1>7, <1>8, <2>1 DEF Working
<1>10. FetchingSo(s)'
  BY <1>4, <1>6, <1>7, <1>8 DEF FetchingSo, OnDisk
<1>11. WorkingSo(s)' /\ run' # NoRun
  BY <1>8, <1>9, <1>10 DEF WorkingSo, NoRun
<1> QED  BY <1>3, <1>5, <1>6, <1>7, <1>8, <1>11, BeginsAccounts

LEMMA UninstallAccounts ==
  ASSUME Types, AccountInv, NEW c \in Clis, Uninstall(c)
  PROVE  AccountInv'
<1>1. PICK s : s = Snapshot("uninstall", c, TRUE, {}) /\ snaps' = Append(snaps, s)
  BY DEF Uninstall
<1>2. s \in Snap
  BY <1>1, SnapshotIs
<1>3. s.journal = journal /\ s.absent = {} /\ s.was.strays = strays
  BY <1>1 DEF Snapshot
<1>4. UNCHANGED <<tree, journal, release, last, strays>> /\ run = NoRun
  BY DEF Uninstall, disk, ghosts
<1>5. run'.phase = "keys" /\ run'.op = "uninstall" /\ run'.cli = c /\ run'.sel = {} /\ run'.wanted = {}
        /\ run'.todo = journal[c].trees /\ run'.prev = journal[c]
  BY DEF Uninstall
<1>6. Working(s)'
  BY <1>3, <1>4, <1>5 DEF Working
<1>7. RetiringSo'
  BY <1>5 DEF RetiringSo
<1>8. WorkingSo(s)' /\ run' # NoRun
  BY <1>5, <1>6, <1>7 DEF WorkingSo, NoRun
<1> QED  BY <1>1, <1>2, <1>3, <1>4, <1>5, <1>8, BeginsAccounts

(* What the newest generation accounts for, its restore leaves.            *)
LEMMA RestoreAccounts ==
  ASSUME Types, NewestOnly(setup), AccountInv, NEW g \in DOMAIN snaps, Restore(g)
  PROVE  AccountInv'
<1>1. PICK old : old = snaps[g]
  OBVIOUS
<1>2. PICK s : s = Snapshot("restore", old.cli, old.config # {}, old.absent) /\ snaps' = Append(snaps, s)
  BY <1>1 DEF Restore
<1>3. g = Len(snaps) /\ snaps # << >>
  <2>1. Kind(g) # "older"
    BY DEF Restore, NewestOnly
  <2> QED  BY <2>1 DEF Kind, Types
<1>4. old \in Snap /\ tree' = Without(old.absent)
  BY <1>1, RestoredIs
<1>5. journal' = old.journal /\ run = NoRun /\ run.phase = "idle" /\ UNCHANGED <<release, run, last>>
        /\ strays' = strays \cup old.was.strays
  BY <1>1 DEF Restore, JournalAfter, NoRun
<1>6. s \in Snap
  BY <1>2, <1>4, SnapIs, SnapshotIs
<1>7. s.journal = journal /\ s.absent = {t \in old.absent : tree[t] = "absent"} /\ s.was.strays = strays
  BY <1>2 DEF Snapshot
<1>8. snaps' # << >> /\ snaps'[Len(snaps')] = s
  BY <1>2, <1>6, Taken
<1>9. \A t \in Trees : OnDisk(t)' => OnDisk(t) /\ t \notin old.absent
  BY <1>4, WithoutIs DEF OnDisk
<1>11. Seen'
  BY <1>5, <1>9 DEF AccountInv, Seen
<1>12. Settled'
  <2>1. ASSUME NEW t \in Trees, OnDisk(t)', t.server \notin strays' PROVE Accounts(journal, t)'
    <3>1. Accounts(old.journal, t)
      BY <1>1, <1>3, <1>5, <1>9, <2>1 DEF AccountInv, Behind
    <3>2. Accounts(old.journal, t)'
      BY <1>5, <3>1, StaysAccounted
    <3> QED  BY <1>5, <3>2 DEF Accounts, HoldsTree, Outdated, HoldsServer
  <2> QED  BY <2>1 DEF Settled
<1>13. Behind(s)'
  <2>1. ASSUME NEW t \in Trees, OnDisk(t)', t.server \notin strays' PROVE Accounts(s.journal, t)'
    <3>1. Accounts(s.journal, t)
      BY <1>5, <1>7, <1>9, <2>1 DEF AccountInv, Settled
    <3> QED  BY <1>5, <3>1, StaysAccounted
  <2> QED  BY <2>1 DEF Behind
<1> QED  BY <1>5, <1>8, <1>11, <1>12, <1>13 DEF AccountInv

(* A step of the command, up to the pruning: it adds to the disk only what  *)
(* its release pins and its generation found absent.                       *)
LEMMA GoesOnAccounts ==
  ASSUME Types, AccountInv, run # NoRun, run.phase # "prune", run' # NoRun,
         UNCHANGED <<snaps, release, last, strays>>, NEW s, s = snaps[Len(snaps)],
         \A t \in Trees : OnDisk(t)' =>
           OnDisk(t) \/ (t \in s.absent /\ t.version = Pins[release][t.server]),
         WorkingSo(s)'
  PROVE  AccountInv'
<1>2. release \in 1..release
  BY ReleasesAre DEF Types
<1>3. Seen'
  BY <1>2 DEF AccountInv, Seen
<1>4. Behind(s)'
  <2>1. ASSUME NEW t \in Trees \ s.absent, OnDisk(t)', t.server \notin strays \cup s.was.strays PROVE Accounts(s.journal, t)'
    <3>1. Accounts(s.journal, t)
      BY <2>1 DEF AccountInv, Behind
    <3> QED  BY <3>1, StaysAccounted
  <2> QED  BY <2>1 DEF Behind
<1> QED  BY <1>3, <1>4 DEF AccountInv

LEMMA WhileWorking ==
  ASSUME Types, AccountInv, run \in Command
  PROVE  snaps # << >> /\ WorkingSo(snaps[Len(snaps)]) /\ Behind(snaps[Len(snaps)])
BY CommandIs DEF AccountInv

(* What was asked for is in the version the release pins.                  *)
LEMMA WantedIs ==
  ASSUME Types, run \in Command, NEW s, Working(s)
  PROVE  /\ \A t \in run.wanted : t \in Trees /\ t.server \in run.sel /\ t = Tree(t.server)
                                  /\ t.version = Pins[release][t.server]
         /\ \A x \in run.sel : Tree(x) \in run.wanted /\ Tree(x).server = x
<1>1. \A x \in run.sel : Tree(x) \in Trees /\ Tree(x).server = x
  BY CommandIs, TreeIs
<1>2. run.wanted = {Tree(x) : x \in run.sel}
  BY DEF Working
<1> QED  BY <1>1, <1>2, PinnedIs

LEMMA FetchAccounts ==
  ASSUME Types, AccountInv, NEW u \in Trees, Fetch(u)
  PROVE  AccountInv'
<1>1. run \in Command /\ run.phase = "fetch" /\ run # NoRun /\ u \in run.todo
  BY Running DEF Fetch
<1>2. UNCHANGED <<journal, snaps, release, last, strays>> /\ tree' = [tree EXCEPT ![u] = "whole"]
        /\ run' = [run EXCEPT !.todo = run.todo \ {u}, !.created = run.created \cup {u}]
  BY DEF Fetch, ghosts
<1>3. PICK s : s = snaps[Len(snaps)]
  OBVIOUS
<1>4. Working(s) /\ FetchingSo(s)
  BY <1>1, <1>3, WhileWorking DEF WorkingSo
<1>5. u.version = Pins[release][u.server]
  BY <1>1, <1>4, WantedIs DEF FetchingSo
<1>6. run'.phase = "fetch" /\ run'.op = run.op /\ run'.cli = run.cli /\ run'.sel = run.sel /\ run'.wanted = run.wanted
        /\ run'.prev = run.prev /\ run'.todo = run.todo \ {u} /\ run'.created = run.created \cup {u}
  BY <1>1, <1>2 DEF Command
<1>7. \A t \in Trees : OnDisk(t)' <=> OnDisk(t) \/ t = u
  BY <1>2 DEF OnDisk, Types
<1>8. Working(s)'
  BY <1>2, <1>4, <1>6 DEF Working, Tree
<1>9. FetchingSo(s)'
  <2>1. run.todo \subseteq Trees /\ run.wanted \subseteq Trees
    BY <1>1, CommandIs
  <2> QED  BY <1>4, <1>6, <1>7, <2>1 DEF FetchingSo, Working
<1>10. WorkingSo(s)' /\ run' # NoRun
  BY <1>6, <1>8, <1>9 DEF WorkingSo, NoRun
<1>11. \A t \in Trees : OnDisk(t)' => OnDisk(t) \/ (t \in s.absent /\ t.version = Pins[release][t.server])
  BY <1>1, <1>4, <1>5, <1>7 DEF FetchingSo
<1> QED  BY <1>1, <1>2, <1>3, <1>10, <1>11, GoesOnAccounts

(* The command goes on to take away what was deselected.                    *)
LEMMA ApplyAccounts ==
  ASSUME Types, AccountInv, Apply
  PROVE  AccountInv'
<1>1. run \in Command /\ run.phase = "fetch" /\ run # NoRun
  BY Running DEF Apply
<1>2. UNCHANGED <<tree, journal, snaps, release, last, strays>>
        /\ run' = [run EXCEPT !.phase = "keys", !.todo = Stale(run.cli, run.sel)]
  BY DEF Apply, ghosts
<1>3. PICK s : s = snaps[Len(snaps)]
  OBVIOUS
<1>4. Working(s)
  BY <1>1, <1>3, WhileWorking DEF WorkingSo
<1>5. run'.phase = "keys" /\ run'.op = run.op /\ run'.cli = run.cli /\ run'.sel = run.sel /\ run'.wanted = run.wanted
        /\ run'.prev = run.prev /\ run'.todo = {t \in journal[run.cli].trees : t.server \notin run.sel}
  BY <1>1, <1>2 DEF Command, Stale
<1>6. Working(s)'
  BY <1>1, <1>2, <1>4, <1>5 DEF Working, Tree
<1>7. RetiringSo'
  BY <1>1, <1>4, <1>5 DEF RetiringSo, Working
<1>8. WorkingSo(s)' /\ run' # NoRun
  BY <1>5, <1>6, <1>7 DEF WorkingSo, NoRun
<1>9. \A t \in Trees : OnDisk(t)' => OnDisk(t)
  BY <1>2 DEF OnDisk
<1> QED  BY <1>1, <1>2, <1>3, <1>8, <1>9, GoesOnAccounts

LEMMA RetireKeysAccounts ==
  ASSUME Types, AccountInv, RetireKeys
  PROVE  AccountInv'
<1>1. run \in Command /\ run.phase = "keys" /\ run # NoRun
  BY Running DEF RetireKeys
<1>2. UNCHANGED <<tree, journal, snaps, release, last, strays>> /\ run' = [run EXCEPT !.phase = "trees"]
  BY DEF RetireKeys, ghosts
<1>3. PICK s : s = snaps[Len(snaps)]
  OBVIOUS
<1>4. Working(s) /\ RetiringSo
  BY <1>1, <1>3, WhileWorking DEF WorkingSo
<1>5. run'.phase = "trees" /\ run'.op = run.op /\ run'.cli = run.cli /\ run'.sel = run.sel /\ run'.wanted = run.wanted
        /\ run'.prev = run.prev /\ run'.todo = run.todo
  BY <1>1, <1>2 DEF Command
<1>6. Working(s)'
  BY <1>1, <1>2, <1>4, <1>5 DEF Working, Tree
<1>7. RetiringSo'
  BY <1>2, <1>4, <1>5 DEF RetiringSo, OnDisk
<1>8. WorkingSo(s)' /\ run' # NoRun
  BY <1>5, <1>6, <1>7 DEF WorkingSo, NoRun
<1>9. \A t \in Trees : OnDisk(t)' => OnDisk(t)
  BY <1>2 DEF OnDisk
<1> QED  BY <1>1, <1>2, <1>3, <1>8, <1>9, GoesOnAccounts

LEMMA RetireTreeAccounts ==
  ASSUME Types, AccountInv, NEW u \in Trees, RetireTree(u)
  PROVE  AccountInv'
<1>1. run \in Command /\ run.phase = "trees" /\ run # NoRun /\ u \in run.todo
  BY Running DEF RetireTree, KeysGone
<1>2. UNCHANGED <<journal, snaps, release, last, strays>> /\ tree' = [tree EXCEPT ![u] = "absent"]
        /\ run' = [run EXCEPT !.todo = run.todo \ {u}]
  BY DEF RetireTree, ghosts
<1>3. PICK s : s = snaps[Len(snaps)]
  OBVIOUS
<1>4. Working(s) /\ RetiringSo
  BY <1>1, <1>3, WhileWorking DEF WorkingSo
<1>5. run'.phase = "trees" /\ run'.op = run.op /\ run'.cli = run.cli /\ run'.sel = run.sel /\ run'.wanted = run.wanted
        /\ run'.prev = run.prev /\ run'.todo = run.todo \ {u}
  BY <1>1, <1>2 DEF Command
<1>6. \A t \in Trees : OnDisk(t)' => OnDisk(t) /\ t # u
  BY <1>2 DEF OnDisk, Types
<1>7. Working(s)'
  BY <1>1, <1>2, <1>4, <1>5 DEF Working, Tree
<1>8. RetiringSo'
  <2>1. run.prev.trees \subseteq Trees
    BY <1>1, CommandIs, RecordIs
  <2> QED  BY <1>4, <1>5, <1>6, <2>1 DEF RetiringSo
<1>9. WorkingSo(s)' /\ run' # NoRun
  BY <1>5, <1>7, <1>8 DEF WorkingSo, NoRun
<1> QED  BY <1>1, <1>2, <1>3, <1>6, <1>9, GoesOnAccounts

(* It records what it wanted, and what it had.                             *)
LEMMA SaveAccounts ==
  ASSUME Types, AccountInv, Save
  PROVE  AccountInv'
<1>1. run \in Command /\ run.phase = "trees" /\ run # NoRun /\ run.todo = {} /\ run.cli \in Clis
        /\ run.op \in {"install", "uninstall"} /\ journal \in [Clis -> Record]
  BY Running, CommandIs, JournalIs DEF Save, Types
<1>2. UNCHANGED <<tree, snaps, release, strays>> /\ run' = [run EXCEPT !.phase = "prune"]
        /\ journal' = [journal EXCEPT ![run.cli] = NewRecord]
        /\ last' = [last EXCEPT ![run.cli] = IF run.op = "install" THEN run.prev.trees ELSE {}]
  BY DEF Save
<1>3. PICK s : s = snaps[Len(snaps)]
  OBVIOUS
<1>4. Working(s) /\ RetiringSo /\ Behind(s) /\ snaps # << >>
  BY <1>1, <1>3, WhileWorking DEF WorkingSo
<1>5. run'.phase = "prune" /\ run'.op = run.op /\ run'.cli = run.cli /\ run'.sel = run.sel /\ run'.wanted = run.wanted
        /\ run'.prev = run.prev
  BY <1>1, <1>2 DEF Command
<1>6. run.op = "uninstall" => run.wanted = {}
  BY <1>4 DEF Working
<1>7. journal'[run.cli].trees = run.wanted /\ \A c \in Clis : c # run.cli => journal'[c] = journal[c]
  <2>1. NewRecord.trees = run.wanted
    BY <1>1, <1>6 DEF NewRecord, NotInstalled
  <2> QED  BY <1>1, <1>2, <2>1
<1>8. run.op = "install" => last'[run.cli] = run.prev.trees
  BY <1>1, <1>2 DEF Types
<1>9. Working(s)'
  BY <1>2, <1>4, <1>5, <1>7 DEF Working, Tree
<1>10. PruningSo'
  BY <1>1, <1>2, <1>4, <1>5, <1>7, <1>8 DEF PruningSo, RetiringSo, OnDisk
<1>11. Seen'
  BY <1>2, <1>4 DEF AccountInv, Seen, OnDisk
<1>12. Behind(s)'
  <2>1. ASSUME NEW t, Accounts(s.journal, t) PROVE Accounts(s.journal, t)'
    BY <1>2, <1>5, <2>1 DEF Accounts, HoldsTree, Outdated, HoldsServer, Tree
  <2> QED  BY <1>2, <1>4, <2>1 DEF Behind, OnDisk
<1> QED  BY <1>2, <1>3, <1>4, <1>5, <1>9, <1>10, <1>11, <1>12 DEF AccountInv, WorkingSo, NoRun

(* A command that ends before its record leaves what was there before it,   *)
(* and what it had fetched where that is known to be left.                 *)
LEMMA EndsAccounts ==
  ASSUME Types, AccountInv, run \in Command, run.phase # "prune", run' = NoRun,
         UNCHANGED <<journal, snaps, release, last>>, NEW s, s = snaps[Len(snaps)], strays \subseteq strays',
         \A t \in Trees : OnDisk(t)' => OnDisk(t) \/ t \in s.absent,
         \A t \in s.absent : OnDisk(t)' => t.server \in strays'
  PROVE  AccountInv'
<1>1. Working(s) /\ Behind(s) /\ snaps # << >>
  BY WhileWorking DEF WorkingSo
<1>2. ASSUME NEW t \in Trees, OnDisk(t)', t.server \notin strays' PROVE Accounts(s.journal, t)'
  <2>1. t \notin s.absent /\ OnDisk(t) /\ t.server \notin strays \cup s.was.strays
    BY <1>1, <1>2 DEF Working
  <2>2. Accounts(s.journal, t)
    BY <1>1, <2>1 DEF Behind
  <2> QED  BY <2>2, StaysAccounted
<1>3. \A c \in Clis : s.journal[c].trees = journal[c].trees
  BY <1>1 DEF Working
<1>4. Settled'
  <2>1. ASSUME NEW t \in Trees, OnDisk(t)', t.server \notin strays' PROVE Accounts(journal, t)'
    BY <1>2, <1>3, <2>1 DEF Accounts, HoldsTree, Outdated, HoldsServer
  <2> QED  BY <2>1 DEF Settled
<1>5. Seen'
  <2>1. \A t \in s.absent : t \in Trees => t.version = Pins[release][t.server]
    BY <1>1, WantedIs DEF Working
  <2>2. release \in 1..release
    BY ReleasesAre DEF Types
  <2> QED  BY <2>1, <2>2 DEF AccountInv, Seen
<1>6. Behind(s)'
  BY <1>2 DEF Behind
<1> QED  BY <1>1, <1>4, <1>5, <1>6 DEF AccountInv

LEMMA FetchFailsAccounts ==
  ASSUME Types, AccountInv, NEW u \in Trees, FetchFails(u)
  PROVE  AccountInv'
<1>1. run \in Command /\ run.phase = "fetch" /\ run' = NoRun /\ UNCHANGED <<journal, snaps, release, last>> /\ u \in run.todo
  BY Running DEF FetchFails
<1>2. PICK s : s = snaps[Len(snaps)]
  OBVIOUS
<1>3. FetchingSo(s)
  BY <1>1, <1>2, WhileWorking DEF WorkingSo
<1>4. PICK kept \in Resisting(run.created \cup {u}) :
        FailedTree(u, kept) /\ LeavesBehind(kept \cup {t \in {u} : tree'[t] = "partial"})
  BY DEF FetchFails
<1>5. kept \in SUBSET Trees
  BY <1>1, <1>4, ResistingIs, CommandIs
<1> DEFINE told == kept \cup {t \in {u} : tree'[t] = "partial"}
<1>6. strays \subseteq strays' /\ \A t \in told \cap s.absent : tree'[t] # "absent" => t.server \in strays'
  BY <1>2, <1>4, <1>5, LeavesBehindIs
<1>7. \A t \in Trees : OnDisk(t)' => (OnDisk(t) /\ (t \in run.created => t \in told)) \/ (t = u /\ ~OnDisk(t) /\ t \in told)
  <2>1. ASSUME NEW T, run.created \ kept \subseteq T, tree' = Without(T)
        PROVE  \A t \in Trees : OnDisk(t)' => OnDisk(t) /\ (t \in run.created => t \in kept)
    BY <2>1, WithoutIs DEF OnDisk
  <2>2. ASSUME tree[u] = "absent", tree' = [Without(run.created \ kept) EXCEPT ![u] = "partial"]
        PROVE  /\ \A t \in Trees \ {u} : OnDisk(t)' => OnDisk(t) /\ (t \in run.created => t \in kept)
               /\ tree'[u] = "partial" /\ ~OnDisk(u)
    BY <2>2, WithoutIs DEF OnDisk
  <2> QED  BY <1>4, <2>1, <2>2 DEF FailedTree
<1> HIDE DEF told
<1>8. \A t \in Trees : OnDisk(t)' => OnDisk(t) \/ t \in s.absent
  BY <1>1, <1>3, <1>7 DEF FetchingSo
<1>9. \A t \in s.absent : OnDisk(t)' => t.server \in strays'
  <2>1. s.absent \subseteq Trees
    BY <1>1, <1>2, WhileWorking, CommandIs DEF WorkingSo, Working
  <2>2. ASSUME NEW t \in s.absent, OnDisk(t)' PROVE t \in told
    BY <1>3, <1>7, <2>1, <2>2 DEF FetchingSo
  <2> QED  BY <1>6, <2>2 DEF OnDisk
<1> QED  BY <1>1, <1>2, <1>6, <1>8, <1>9, EndsAccounts

LEMMA ApplyFailsAccounts ==
  ASSUME Types, AccountInv, ApplyFails
  PROVE  AccountInv'
<1>1. run \in Command /\ run.phase = "fetch" /\ run' = NoRun /\ UNCHANGED <<tree, journal, snaps, release, last>>
        /\ LeavesBehind(run.created)
  BY Running DEF ApplyFails, disk
<1>2. PICK s : s = snaps[Len(snaps)]
  OBVIOUS
<1>3. FetchingSo(s)
  BY <1>1, <1>2, WhileWorking DEF WorkingSo
<1>4. strays \subseteq strays' /\ \A t \in run.created \cap s.absent : tree'[t] # "absent" => t.server \in strays'
  BY <1>1, <1>2, LeavesBehindIs, CommandIs
<1>5. \A t \in s.absent : OnDisk(t)' => t.server \in strays'
  BY <1>1, <1>3, <1>4 DEF FetchingSo, OnDisk
<1>6. \A t \in Trees : OnDisk(t)' => OnDisk(t)
  BY <1>1 DEF OnDisk
<1> QED  BY <1>1, <1>2, <1>4, <1>5, <1>6, EndsAccounts

(* A rollback leaves of what was wanted only what resists it.              *)
LEMMA GivesUpAccounts ==
  ASSUME Types, AccountInv, RetireFails \/ SaveFails
  PROVE  AccountInv'
<1>1. run \in Command /\ GivesUp /\ run.phase # "prune"
  BY UndoneTypes DEF RetireFails, SaveFails
<1>2. run' = NoRun /\ UNCHANGED <<journal, snaps, release, last>>
  BY <1>1 DEF GivesUp
<1>3. PICK s : s = snaps[Len(snaps)]
  OBVIOUS
<1>4. Working(s)
  BY <1>1, <1>3, WhileWorking DEF WorkingSo
<1>5. s.absent \subseteq run.wanted /\ run.wanted \subseteq Trees
  BY <1>1, <1>4, CommandIs DEF Working
<1>6. CASE run.op = "install"
  <2>1. PICK kept \in Resisting(run.wanted) : tree' = Without(run.wanted \ kept) /\ LeavesBehind(kept)
    BY <1>1, <1>6, RolledBackIs DEF GivesUp
  <2>2. kept \subseteq run.wanted
    BY <2>1, ResistingIs
  <2>3. strays \subseteq strays' /\ \A t \in kept \cap s.absent : tree'[t] # "absent" => t.server \in strays'
    BY <1>3, <1>5, <2>1, <2>2, LeavesBehindIs
  <2>4. \A t \in Trees : OnDisk(t)' => OnDisk(t) /\ (t \in run.wanted => t \in kept)
    BY <2>1, WithoutIs DEF OnDisk
  <2>5. \A t \in s.absent : OnDisk(t)' => t.server \in strays'
    BY <1>5, <2>3, <2>4 DEF OnDisk
  <2> QED  BY <1>1, <1>2, <1>3, <2>3, <2>4, <2>5, EndsAccounts
<1>7. CASE run.op # "install"
  <2>1. UNCHANGED <<tree, strays>>
    BY <1>1, <1>7 DEF GivesUp
  <2>2. s.absent = {}
    BY <1>1, <1>4, <1>7, CommandIs DEF Working
  <2>3. \A t \in Trees : OnDisk(t)' => OnDisk(t)
    BY <2>1 DEF OnDisk
  <2> QED  BY <1>1, <1>2, <1>3, <2>1, <2>2, <2>3, EndsAccounts
<1> QED  BY <1>6, <1>7

LEMMA CrashAccounts ==
  ASSUME Types, AccountInv, Crash
  PROVE  AccountInv'
<1>1. run \in Command /\ run.phase # "prune" /\ run' = NoRun /\ UNCHANGED <<journal, snaps, release, last>>
        /\ LeavesBehind(run.wanted)
  BY Busy DEF Crash
<1>2. PICK s : s = snaps[Len(snaps)]
  OBVIOUS
<1>3. Working(s) /\ (run.phase = "fetch" => FetchingSo(s))
  BY <1>1, <1>2, WhileWorking DEF WorkingSo
<1>4. strays \subseteq strays' /\ \A t \in run.wanted \cap s.absent : tree'[t] # "absent" => t.server \in strays'
  BY <1>1, <1>2, LeavesBehindIs, CommandIs
<1>5. \A t \in s.absent : OnDisk(t)' => t.server \in strays'
  BY <1>3, <1>4 DEF Working, OnDisk
<1>6. \A t \in Trees : OnDisk(t)' => OnDisk(t) \/ (run.phase = "fetch" /\ t \in run.todo)
  BY DEF Crash, Torn, Types, OnDisk
<1>7. \A t \in Trees : OnDisk(t)' => OnDisk(t) \/ t \in s.absent
  BY <1>3, <1>6 DEF FetchingSo
<1> QED  BY <1>1, <1>2, <1>4, <1>5, <1>7, EndsAccounts

(* The prune looks at every server that was recorded before or is now, and  *)
(* of those leaves what is recorded and what the install replaced; and what *)
(* it fails to remove, of which the servers are told.                      *)
LEMMA PruneLeaves ==
  ASSUME Types, AccountInv, run \in Command, run.phase = "prune", NEW T, Removes(T), NEW s, s = snaps[Len(snaps)],
         NEW t \in Trees, OnDisk(t)', t.server \notin strays'
  PROVE  HoldsTree(journal, t) \/ (run.op = "install" /\ t \in run.prev.trees)
<1>1. tree' = Without(T) /\ strays' = (strays \ Managed) \cup ServersOf({u \in Prunable \ T : tree[u] # "absent"})
  BY DEF Removes
<1>2. Working(s) /\ PruningSo /\ Behind(s)
  BY WhileWorking DEF WorkingSo
<1>3. OnDisk(t) /\ t \notin T
  BY <1>1, WithoutIs DEF OnDisk
<1>4. t \notin Prunable
  <2>1. ASSUME t \in Prunable PROVE t.server \in ServersOf({u \in Prunable \ T : tree[u] # "absent"})
    BY <1>3, <2>1 DEF ServersOf, OnDisk
  <2> QED  BY <1>1, <2>1
<1>5. t.server \in Managed
  <2> SUFFICES ASSUME t.server \notin Managed PROVE FALSE
    OBVIOUS
  <2>1. t.server \notin strays \cup s.was.strays
    BY <1>1, <1>2 DEF Working
  <2>2. CASE t \in s.absent
    BY <1>2, <2>2 DEF Working, Managed, ServersOf
  <2>3. CASE t \notin s.absent
    <3>1. PICK c \in Clis : \E u \in s.journal[c].trees : u.server = t.server
      BY <1>2, <1>3, <2>1, <2>3 DEF Behind, Accounts, HoldsTree, Outdated, HoldsServer
    <3>2. PICK u \in s.journal[c].trees : u.server = t.server
      BY <3>1
    <3>3. u \in RecordedTrees \cup run.prev.trees
      BY <1>2, <3>2 DEF Working, RecordedTrees
    <3> QED  BY <3>2, <3>3 DEF Managed, ServersOf
  <2> QED  BY <2>2, <2>3
<1>6. t \in Keep
  BY <1>4, <1>5 DEF Prunable
<1>7. t \in RecordedTrees => HoldsTree(journal, t)
  BY DEF RecordedTrees, HoldsTree
<1>8. t \in run.wanted => HoldsTree(journal, t)
  BY <1>2, CommandIs DEF PruningSo, HoldsTree
<1> QED  BY <1>6, <1>7, <1>8 DEF Keep

LEMMA PruneAccounts ==
  ASSUME Types, AccountInv, Prune \/ PruneFails
  PROVE  AccountInv'
<1>1. run \in Command /\ run.phase = "prune" /\ run' = NoRun /\ run'.phase = "idle" /\ run.cli \in Clis
        /\ UNCHANGED <<journal, snaps, release, last>>
  BY Running, CommandIs DEF Prune, PruneFails, NoRun
<1>2. PICK s : s = snaps[Len(snaps)]
  OBVIOUS
<1>3. Working(s) /\ PruningSo /\ Behind(s) /\ snaps # << >>
  BY <1>1, <1>2, WhileWorking DEF WorkingSo
<1>8. PICK T : Removes(T)
  BY DEF Prune, PruneFails
<1>4. ASSUME NEW t \in Trees, OnDisk(t)', t.server \notin strays'
      PROVE  HoldsTree(journal, t) \/ (run.op = "install" /\ t \in run.prev.trees)
  BY <1>1, <1>2, <1>4, <1>8, PruneLeaves
<1>9. \A t \in Trees : OnDisk(t)' => OnDisk(t)
  BY <1>8, WithoutIs DEF Removes, OnDisk
<1>5. Settled'
  <2>1. ASSUME NEW t \in Trees, OnDisk(t)', t.server \notin strays', ~HoldsTree(journal, t) PROVE Outdated(journal, t) /\ t \in last[run.cli]
    <3>1. t \in run.prev.trees /\ t \in last[run.cli] /\ t.server \in run.sel
      BY <1>3, <1>4, <1>9, <2>1 DEF PruningSo
    <3>2. Tree(t.server) \in journal[run.cli].trees /\ Tree(t.server).server = t.server
      BY <1>1, <1>3, <3>1, WantedIs DEF PruningSo
    <3> QED  BY <1>1, <2>1, <3>1, <3>2 DEF Outdated, HoldsServer, HoldsTree
  <2>2. ASSUME NEW t \in Trees, OnDisk(t)', t.server \notin strays' PROVE Accounts(journal, t)'
    <3>1. HoldsTree(journal, t) => HoldsTree(journal, t)'
      BY <1>1 DEF HoldsTree
    <3>2. Outdated(journal, t) => Outdated(journal, t)'
      BY <1>1 DEF Outdated, HoldsServer, Tree
    <3> QED  BY <1>1, <2>1, <2>2, <3>1, <3>2 DEF Accounts
  <2> QED  BY <2>2 DEF Settled
<1>6. Behind(s)'
  <2>1. ASSUME NEW t \in Trees \ s.absent, OnDisk(t)', t.server \notin strays' \cup s.was.strays PROVE HoldsTree(s.journal, t)
    <3>1. HoldsTree(s.journal, t) \/ t # Tree(t.server)
      BY <1>3, <1>9, <2>1 DEF Working, Behind, Accounts, Outdated
    <3>2. CASE t \in run.prev.trees
      BY <1>1, <1>3, <3>2 DEF Working, HoldsTree
    <3>3. CASE HoldsTree(journal, t) /\ t # Tree(t.server)
      <4>1. PICK c \in Clis : t \in journal[c].trees
        BY <3>3 DEF HoldsTree
      <4>2. c # run.cli
        BY <1>1, <1>3, <3>3, <4>1, WantedIs DEF PruningSo
      <4> QED  BY <1>3, <4>1, <4>2 DEF Working, HoldsTree
    <3> QED  BY <1>4, <2>1, <3>1, <3>2, <3>3
  <2> QED  BY <2>1 DEF Behind, Accounts, HoldsTree
<1>7. Seen'
  BY <1>1, <1>9 DEF AccountInv, Seen
<1> QED  BY <1>1, <1>2, <1>3, <1>5, <1>6, <1>7 DEF AccountInv

LEMMA AccountNext == Types /\ Forward /\ NewestOnly(setup) /\ AccountInv /\ [Next]_vars => AccountInv'
<1> SUFFICES ASSUME Types, Forward, NewestOnly(setup), AccountInv, [Next]_vars PROVE AccountInv'  OBVIOUS
<1>1. CASE NewRelease
  BY <1>1, NewReleaseAccounts
<1>2. CASE UNCHANGED vars
  <2>1. UNCHANGED <<tree, journal, snaps, release, run, last, strays>>
    BY <1>2 DEF vars, disk, ghosts
  <2> QED  BY <2>1 DEF AccountInv, Seen, Settled, Behind, Accounts, OnDisk, HoldsTree, Outdated, HoldsServer,
                 Tree, WorkingSo, Working, FetchingSo, RetiringSo, PruningSo
<1>3. CASE \E c \in Clis : Uninstall(c) \/ \E sel \in setup.selections[c] : Install(c, sel)
  BY <1>3, UninstallAccounts, InstallAccounts
<1>4. CASE \E g \in DOMAIN snaps : Restore(g)
  BY <1>4, RestoreAccounts
<1>5. CASE Steps
  BY <1>5, FetchAccounts, RetireTreeAccounts, ApplyAccounts, RetireKeysAccounts, SaveAccounts, PruneAccounts DEF Steps
<1>6. CASE Errs
  BY <1>6, FetchFailsAccounts, ApplyFailsAccounts, GivesUpAccounts, PruneAccounts, CrashAccounts DEF Errs
<1> QED  BY <1>1, <1>2, <1>3, <1>4, <1>5, <1>6 DEF Next, Starts

(* Old versions do not pile up (MANUAL.md:227): between commands every      *)
(* version on disk is one some CLI records or the one its last install      *)
(* replaced, through any selections, uninstalls, rollbacks and restores of  *)
(* the newest generation; but for the servers of which a death, a failed    *)
(* apply or a failing removal left a tree, until a command that looks at    *)
(* them has pruned.                                                        *)
THEOREM NothingPilesUp ==
  ASSUME Forward, \A st \in Setups : NewestOnly(st)
  PROVE  Spec => []TreesAccounted
<1>1. Types => NewestOnly(setup)
  BY DEF Types
<1>2. AccountInv => TreesAccounted
  <2>1. ASSUME AccountInv, run = NoRun, NEW t \in Trees, OnDisk(t), t.server \notin strays
        PROVE  t \in RecordedTrees \/ \E c \in Clis : t \in last[c]
    <3>1. Accounts(journal, t) /\ run.phase # "prune"
      BY <2>1 DEF AccountInv, Settled, NoRun
    <3> QED  BY <3>1 DEF Accounts, HoldsTree, RecordedTrees
  <2> QED  BY <2>1 DEF TreesAccounted, OnDisk
<1> QED  BY <1>1, <1>2, TypesInit, TypesNext, AccountInit, AccountNext, PTL DEF Spec
=============================================================================
