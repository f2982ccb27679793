----------------------------- MODULE GrantsProofs -----------------------------
(***************************************************************************)
(* Theorems about Grants, for any releases, CLIs, keys, directories and     *)
(* models, and any number of commands, edits and failures.                 *)
(***************************************************************************)
EXTENDS Grants, PermissionsProofs, TLAPS, FiniteSetTheorems

Busy == run.phase \in {"place", "record", "assign"}

(* The fields a command keeps in memory.                                   *)
RunShape ==
  run = [phase |-> run.phase, cli |-> run.cli, op |-> run.op, saves |-> run.saves,
         assigned |-> run.assigned, journal |-> run.journal, config |-> run.config,
         asked |-> run.asked]

(* What a command with those keys and directories in mind gives up of what  *)
(* the record of its CLI grants now.                                       *)
Covered(chosen)          == PerAgentKeys(Selected(Rel, chosen))
LostKeys(c, rec, chosen) == (RecordedGrants(c) \ rec.granted) \ Covered(chosen)
LostDirs(c, rec)         == RecordedDirs(c) \ rec.directories
OnlyRevoked(c, op, rec, chosen) ==
  /\ LostKeys(c, rec, chosen) # {} =>
       op = "mcp revoke" /\ \E k : LostKeys(c, rec, chosen) = {k}
  /\ LostDirs(c, rec) # {} =>
       op = "directory revoke" /\ \E d : LostDirs(c, rec) = {d}

(* Until a command records, it gives up only what it revokes; and only a    *)
(* command about models gets to the assignments.                           *)
RunInv ==
  /\ journal = [c \in Clis |-> journal[c]]
  /\ store = [c \in Clis |-> store[c]]
  /\ run = Idle \/ Busy
  /\ Busy => /\ RunShape /\ run.cli \in Clis
             /\ run.saves => run.op = "models"
  /\ run.phase = "assign" => run.op = "models"
  /\ run.phase \in {"place", "record"} =>
       OnlyRevoked(run.cli, run.op, run.journal, run.asked.chosen)

LEMMA RunInit == Init => RunInv
  BY DEF Init, RunInv, Idle, Busy

(* A command that adds to what is recorded, or takes one thing away, gives  *)
(* up no more than that one thing.                                         *)
LEMMA BeginKeeps ==
  ASSUME NEW c \in Clis, NEW op, NEW chosen, NEW keys, NEW dirs, NEW assigned,
         NEW saves \in BOOLEAN,
         RunInv, Begin(c, op, chosen, keys, dirs, assigned, saves),
         saves => op = "models",
         \/ RecordedGrants(c) \subseteq keys
         \/ op = "mcp revoke" /\ \E k : keys = RecordedGrants(c) \ {k},
         \/ RecordedDirs(c) \subseteq dirs
         \/ op = "directory revoke" /\ \E d : dirs = RecordedDirs(c) \ {d}
  PROVE  RunInv'
<1> DEFINE rec == Recording(c, chosen, keys, dirs)
           r == [phase |-> "place", cli |-> c, op |-> op, saves |-> saves,
                 assigned |-> assigned, journal |-> rec,
                 config |-> Rendering(c, chosen, keys, dirs, assigned),
                 asked |-> [chosen |-> chosen, clash |-> Clash(c, chosen)]]
<1>1. run' = r /\ UNCHANGED <<journal, store, release>>
  BY DEF Begin, disk
<1>2. rec.granted = keys \ (keys \cap Covered(chosen)) /\ rec.directories = dirs
  BY DEF Recording, Kept, Collisions, Covered
<1>3. OnlyRevoked(c, op, rec, chosen)
  <2> HIDE DEF rec
  <2>1. LostKeys(c, rec, chosen) = (RecordedGrants(c) \ keys) \ Covered(chosen)
    BY <1>2 DEF LostKeys
  <2>2. LostDirs(c, rec) = RecordedDirs(c) \ dirs
    BY <1>2 DEF LostDirs
  <2>3. LostKeys(c, rec, chosen) # {} =>
          op = "mcp revoke" /\ \E k : LostKeys(c, rec, chosen) = {k}
    BY <2>1
  <2>4. LostDirs(c, rec) # {} => op = "directory revoke" /\ \E d : LostDirs(c, rec) = {d}
    BY <2>2
  <2> QED  BY <2>3, <2>4 DEF OnlyRevoked
<1>4. /\ run'.phase = "place" /\ run'.cli = c /\ run'.op = op /\ run'.saves = saves
      /\ run'.journal = rec /\ run'.asked.chosen = chosen
  BY <1>1
<1>5. RunShape'
  BY <1>1 DEF RunShape
<1> HIDE DEF rec, r
<1>6. /\ RecordedGrants(c)' = RecordedGrants(c) /\ RecordedDirs(c)' = RecordedDirs(c)
      /\ Rel' = Rel
  BY <1>1 DEF RecordedGrants, RecordedDirs, Installed, Rel
<1>7. /\ LostKeys(run.cli, run.journal, run.asked.chosen)' = LostKeys(c, rec, chosen)
      /\ LostDirs(run.cli, run.journal)' = LostDirs(c, rec)
  BY <1>1, <1>4, <1>6
     DEF LostKeys, LostDirs, RecordedGrants, RecordedDirs, Installed, Covered, Rel
<1>8. OnlyRevoked(run.cli, run.op, run.journal, run.asked.chosen)'
  BY <1>3, <1>4, <1>7 DEF OnlyRevoked
<1> QED  BY <1>1, <1>4, <1>5, <1>8 DEF RunInv, Busy

(* The next phase of a command, with everything else it has in memory.     *)
LEMMA NextPhase ==
  ASSUME RunShape, NEW phase, run' = [run EXCEPT !.phase = phase]
  PROVE  /\ RunShape' /\ run'.phase = phase
         /\ run'.cli = run.cli /\ run'.op = run.op /\ run'.saves = run.saves
         /\ run'.journal = run.journal /\ run'.asked = run.asked
<1>1. run' = [phase |-> phase, cli |-> run.cli, op |-> run.op, saves |-> run.saves,
              assigned |-> run.assigned, journal |-> run.journal, config |-> run.config,
              asked |-> run.asked]
  BY DEF RunShape
<1> QED  BY <1>1 DEF RunShape

LEMMA CommandKeeps ==
  ASSUME RunInv, NEW c \in Clis, Command(c)
  PROVE  RunInv'
<1>1. ASSUME NEW chosen, Install(c, chosen) PROVE RunInv'
  BY <1>1, BeginKeeps DEF Install
<1>2. CASE InstallBare(c)
  BY <1>2, BeginKeeps DEF InstallBare
<1>3. CASE Update(c)
  BY <1>3, BeginKeeps DEF Update, Reapply
<1>4. ASSUME NEW a, NEW m, ModelsSet(c, a, m) PROVE RunInv'
  BY <1>4, BeginKeeps DEF ModelsSet, Reapply
<1>5. ASSUME NEW a, ModelsUnset(c, a) PROVE RunInv'
  BY <1>5, BeginKeeps DEF ModelsUnset, Reapply
<1>6. ASSUME NEW a, NEW b, NEW m, ModelsApply(c, a, m, b) PROVE RunInv'
  BY <1>6, BeginKeeps DEF ModelsApply, Reapply
<1>7. ASSUME NEW k, McpGrant(c, k) PROVE RunInv'
  BY <1>7, BeginKeeps DEF McpGrant, Reapply
<1>8. ASSUME NEW k, McpRevoke(c, k) PROVE RunInv'
  BY <1>8, BeginKeeps DEF McpRevoke, Reapply
<1>9. ASSUME NEW d, DirectoryGrant(c, d) PROVE RunInv'
  BY <1>9, BeginKeeps DEF DirectoryGrant, Reapply
<1>10. ASSUME NEW d, DirectoryRevoke(c, d) PROVE RunInv'
  BY <1>10, BeginKeeps DEF DirectoryRevoke, Reapply
<1>11. CASE Uninstall(c)
  BY <1>11 DEF Uninstall, RunInv, Idle, Busy
<1> QED
  BY <1>1, <1>2, <1>3, <1>4, <1>5, <1>6, <1>7, <1>8, <1>9, <1>10, <1>11 DEF Command

LEMMA RunNext == RunInv /\ [Next]_vars => RunInv'
<1> SUFFICES ASSUME RunInv, [Next]_vars PROVE RunInv'  OBVIOUS
<1>1. ASSUME UNCHANGED <<journal, store, run, release>> PROVE RunInv'
  BY <1>1 DEF RunInv, Busy, RunShape, OnlyRevoked, LostKeys, LostDirs, RecordedGrants,
              RecordedDirs, Installed, Covered, Rel
<1>2. ASSUME run' = Idle,
             \/ journal' = journal
             \/ \E c \in Clis : \E r : journal' = [journal EXCEPT ![c] = r],
             \/ store' = store
             \/ \E c \in Clis : \E r : store' = [store EXCEPT ![c] = r]
      PROVE  RunInv'
  <2>1. run'.phase = "idle"
    BY <1>2 DEF Idle
  <2>2. journal' = [c \in Clis |-> journal'[c]]
    BY <1>2 DEF RunInv
  <2>3. store' = [c \in Clis |-> store'[c]]
    BY <1>2 DEF RunInv
  <2> QED  BY <1>2, <2>1, <2>2, <2>3 DEF RunInv, Busy
<1>3. ASSUME NEW c \in Clis, Command(c) PROVE RunInv'
  BY <1>3, CommandKeeps
<1>4. CASE Place
  <2>1. run.phase = "place" /\ RunShape /\ UNCHANGED <<journal, store, release>>
    BY <1>4 DEF Place, RunInv, Busy, Idle
  <2>2. /\ RunShape' /\ run'.phase = "record" /\ run'.cli = run.cli
        /\ run'.op = run.op /\ run'.saves = run.saves
        /\ run'.journal = run.journal /\ run'.asked = run.asked
    BY <1>4, <2>1, NextPhase DEF Place
  <2>3. OnlyRevoked(run.cli, run.op, run.journal, run.asked.chosen)'
    BY <2>1, <2>2 DEF RunInv, OnlyRevoked, LostKeys, LostDirs, RecordedGrants,
                      RecordedDirs, Installed, Covered, Rel
  <2> QED  BY <2>1, <2>2, <2>3 DEF RunInv, Busy
<1>5. CASE Record
  <2>1. run.phase = "record" /\ RunShape /\ run.cli \in Clis /\ UNCHANGED store
    BY <1>5 DEF Record, RunInv, Busy, Idle
  <2>2. journal' = [journal EXCEPT ![run.cli] = run.journal]
    BY <1>5 DEF Record
  <2>3. CASE run' = Idle
    BY <1>2, <2>1, <2>2, <2>3
  <2>4. CASE run.saves /\ run' = [run EXCEPT !.phase = "assign"]
    <3>1. /\ RunShape' /\ run'.phase = "assign" /\ run'.cli = run.cli
          /\ run'.op = run.op /\ run'.saves = run.saves
      BY <2>1, <2>4, NextPhase
    <3>2. journal' = [c \in Clis |-> journal'[c]]
      BY <2>2 DEF RunInv
    <3>3. run.op = "models"
      BY <2>1, <2>4 DEF RunInv, Busy
    <3> QED  BY <2>1, <3>1, <3>2, <3>3 DEF RunInv, Busy
  <2> QED  BY <1>5, <2>3, <2>4 DEF Record
<1>6. CASE Assign
  <2>1. run.cli \in Clis
    BY <1>6 DEF Assign, RunInv, Busy, Idle
  <2> QED  BY <1>2, <1>6, <2>1 DEF Assign
<1>7. CASE PlaceFails \/ RecordFails \/ AssignFails \/ Crash
  BY <1>2, <1>7 DEF PlaceFails, RecordFails, AssignFails, Crash, disk
<1>8. CASE Restore
  <2>1. run' = Idle /\ UNCHANGED store
    BY <1>8 DEF Restore
  <2>2. journal' = [journal EXCEPT ![snap.cli] = snap.journal]
    BY <1>8 DEF Restore
  <2>3. journal' = [c \in Clis |-> journal'[c]]
    BY <2>2 DEF RunInv
  <2> QED  BY <2>1, <2>3 DEF RunInv, Busy, Idle
<1>9. CASE NewRelease
  BY <1>2, <1>9 DEF NewRelease, Edit, disk
<1>10. ASSUME NEW c \in Clis, NEW k, DeclareKey(c, k) PROVE RunInv'
  BY <1>2, <1>10 DEF DeclareKey, Edit, disk
<1>11. ASSUME NEW m, ProviderChanges(m) PROVE RunInv'
  BY <1>2, <1>11 DEF ProviderChanges, Edit, disk
<1>12. CASE UNCHANGED vars
  BY <1>1, <1>12 DEF vars, disk
<1> QED
  BY <1>3, <1>4, <1>5, <1>6, <1>7, <1>8, <1>9, <1>10, <1>11, <1>12 DEF Next

-----------------------------------------------------------------------------
(* The record of a CLI changes, while a command is about to record, only by *)
(* its recording; and assignments only where they are saved.               *)
LEMMA WhoWrites ==
  ASSUME RunInv, [Next]_vars
  PROVE  /\ run.phase = "record" =>
              journal' = journal \/ journal' = [journal EXCEPT ![run.cli] = run.journal]
         /\ \/ store' = store
            \/ run.phase = "assign" /\ store' = [store EXCEPT ![run.cli] = run.assigned]
<1>1. ASSUME run = Idle PROVE run.phase = "idle"
  BY <1>1 DEF Idle
<1>2. ASSUME NEW c \in Clis, Command(c) PROVE run = Idle /\ UNCHANGED store
  BY <1>2 DEF Command, Install, InstallBare, Update, ModelsSet, ModelsUnset, ModelsApply,
              McpGrant, McpRevoke, DirectoryGrant, DirectoryRevoke, Reapply, Begin,
              Uninstall, disk
<1>3. CASE Place \/ PlaceFails \/ RecordFails \/ AssignFails \/ Crash
  BY <1>3 DEF Place, PlaceFails, RecordFails, AssignFails, Crash, disk
<1>4. CASE Record \/ Assign
  BY <1>4 DEF Record, Assign
<1>5. Restore \/ NewRelease => run = Idle /\ UNCHANGED store
  BY DEF Restore, NewRelease, Edit, disk
<1>6. ASSUME NEW c \in Clis, NEW k, DeclareKey(c, k) PROVE run = Idle /\ UNCHANGED store
  BY <1>6 DEF DeclareKey, Edit, disk
<1>7. ASSUME NEW m, ProviderChanges(m) PROVE run = Idle /\ UNCHANGED store
  BY <1>7 DEF ProviderChanges, Edit, disk
<1>8. CASE UNCHANGED vars
  BY <1>8 DEF vars, disk
<1> QED  BY <1>1, <1>2, <1>3, <1>4, <1>5, <1>6, <1>7, <1>8 DEF Next

LEMMA Keeps ==
  ASSUME RunInv, [Next]_vars, NEW c \in Clis, run.phase = "record", Installed(c)
  PROVE  LET keys == journal[c].granted \ journal'[c].granted
             dirs == journal[c].directories \ journal'[c].directories
             covered == PerAgentKeys(Selected(Rel, run.asked.chosen))
         IN  /\ keys \ covered # {} => run.op = "mcp revoke" /\ Cardinality(keys \ covered) = 1
             /\ dirs # {} => run.op = "directory revoke" /\ Cardinality(dirs) = 1
<1> DEFINE covered == PerAgentKeys(Selected(Rel, run.asked.chosen))
           keys == (journal[c].granted \ journal'[c].granted) \ covered
           dirs == journal[c].directories \ journal'[c].directories
<1>1. CASE journal'[c] = journal[c]
  BY <1>1
<1>2. CASE c = run.cli /\ journal' = [journal EXCEPT ![run.cli] = run.journal]
  <2>1. journal'[c] = run.journal
    BY <1>2 DEF RunInv
  <2>2. keys = LostKeys(run.cli, run.journal, run.asked.chosen)
    BY <1>2, <2>1 DEF LostKeys, RecordedGrants, Covered
  <2>3. dirs = LostDirs(run.cli, run.journal)
    BY <1>2, <2>1 DEF LostDirs, RecordedDirs
  <2>4. OnlyRevoked(run.cli, run.op, run.journal, run.asked.chosen)
    BY DEF RunInv
  <2> HIDE DEF keys, dirs
  <2>5. /\ keys # {} => run.op = "mcp revoke" /\ \E k : keys = {k}
        /\ dirs # {} => run.op = "directory revoke" /\ \E d : dirs = {d}
    BY <2>2, <2>3, <2>4 DEF OnlyRevoked
  <2>6. keys # {} => run.op = "mcp revoke" /\ Cardinality(keys) = 1
    BY <2>5, FS_Singleton
  <2>7. dirs # {} => run.op = "directory revoke" /\ Cardinality(dirs) = 1
    BY <2>5, FS_Singleton
  <2> QED  BY <2>6, <2>7 DEF keys, dirs
<1>3. \/ journal'[c] = journal[c]
      \/ c = run.cli /\ journal' = [journal EXCEPT ![run.cli] = run.journal]
  <2>1. journal' = journal \/ journal' = [journal EXCEPT ![run.cli] = run.journal]
    BY WhoWrites
  <2>2. ASSUME c # run.cli, journal' = [journal EXCEPT ![run.cli] = run.journal]
        PROVE  journal'[c] = journal[c]
    BY <2>2 DEF RunInv
  <2> QED  BY <2>1, <2>2
<1> QED  BY <1>1, <1>2, <1>3

(* Whatever is installed, updated, assigned or granted in between, over any *)
(* releases: a grant stays in the record until it is revoked by name or a   *)
(* server the release ships takes its key, a directory until it is revoked, *)
(* and an assignment changes by a command about models only (_update, the   *)
(* grants and _apply_model_assignments, cli.py).                           *)
THEOREM GrantsKept == Spec => KeptUntilRevoked
<1>1. RunInv /\ [Next]_vars =>
        [\A c \in Clis :
           /\ (run.phase = "record" /\ Installed(c)) =>
                LET keys == journal[c].granted \ journal'[c].granted
                    dirs == journal[c].directories \ journal'[c].directories
                    covered == PerAgentKeys(Selected(Rel, run.asked.chosen))
                IN  /\ keys \ covered # {} =>
                          run.op = "mcp revoke" /\ Cardinality(keys \ covered) = 1
                    /\ dirs # {} => run.op = "directory revoke" /\ Cardinality(dirs) = 1
           /\ store'[c] # store[c] => run.op = "models" /\ run.cli = c]_vars
  <2> SUFFICES ASSUME RunInv, [Next]_vars, NEW c \in Clis
               PROVE  store'[c] # store[c] => run.op = "models" /\ run.cli = c
    BY Keeps
  <2> QED  BY WhoWrites DEF RunInv
<1> QED  BY <1>1, RunInit, RunNext, PTL DEF Spec, KeptUntilRevoked

-----------------------------------------------------------------------------
(* What the variables hold.                                                *)

Assignments == [Everyone -> Models \cup {None}]
Ops    == {"install", "bare", "update", "models", "mcp grant", "mcp revoke",
           "directory grant", "directory revoke"}
Wish   == [chosen: Selections, clash: SUBSET Shipping]
Memory == [phase: {"place", "record", "assign"}, cli: Clis, op: Ops, saves: BOOLEAN,
           assigned: Assignments, journal: RecordType, config: ConfigType, asked: Wish]
Found  == [cli: Clis, journal: RecordType \cup {None}, config: ConfigType \cup {None},
           own: SUBSET Keys, asked: Wish \cup {None}, torn: BOOLEAN]

TypeInv ==
  /\ release \in DOMAIN Releases /\ own \in [Clis -> SUBSET Keys] /\ reachable \in SUBSET Models
  /\ journal \in [Clis -> RecordType \cup {None}] /\ config \in [Clis -> ConfigType \cup {None}]
  /\ asked \in [Clis -> Wish \cup {None}] /\ store \in [Clis -> Assignments]
  /\ run \in Memory \cup {Idle} /\ snap \in Found \cup {None}
  /\ torn \in SUBSET Clis /\ behind \in SUBSET Clis
  /\ run # Idle => snap \in Found
  /\ run.phase = "record" => config[run.cli] = run.config

LEMMA ReleasesAre ==
  /\ 1 \in DOMAIN Releases
  /\ \A r \in DOMAIN Releases :
       /\ Servers(Releases[r]) \subseteq Shipping /\ Agents(Releases[r]) \subseteq Everyone
       /\ Servers(Releases[r]) \subseteq Keys \ Malformed
       /\ r < Len(Releases) => r + 1 \in DOMAIN Releases
  /\ Shipping \subseteq Keys \ Malformed
<1>1. Releases \in Seq(Range(Releases)) /\ Releases # << >>
  BY Parameters
<1>2. DOMAIN Releases = 1..Len(Releases) /\ Len(Releases) \in Nat \ {0}
  BY <1>1
<1>3. \A r \in DOMAIN Releases : Servers(Releases[r]) \subseteq Keys \ Malformed
  BY ReleasesLoad
<1> QED  BY <1>2, <1>3 DEF Shipping, Everyone

LEMMA RecordFields ==
  ASSUME NEW rec \in RecordType
  PROVE  /\ rec # None
         /\ rec.conventions \in SUBSET Shipping /\ rec.keys \in SUBSET Shipping
         /\ rec.granted \in SUBSET Keys /\ rec.directories \in SUBSET Directories
         /\ DOMAIN rec.bindings \subseteq Shipping
         /\ \A s \in DOMAIN rec.bindings : rec.bindings[s] \in Keys
<1>1. rec.conventions \in SUBSET Shipping /\ rec.keys \in SUBSET Shipping
        /\ rec.granted \in SUBSET Keys /\ rec.directories \in SUBSET Directories
        /\ rec.bindings \in UNION {[S -> Keys] : S \in SUBSET Shipping}
  BY DEF RecordType
<1>2. PICK S \in SUBSET Shipping : rec.bindings \in [S -> Keys]
  BY <1>1
<1> QED  BY <1>1, <1>2, NotThere

LEMMA ConfigFields ==
  ASSUME NEW cfg \in ConfigType
  PROVE  /\ cfg # None /\ cfg.release \in DOMAIN Releases /\ cfg.keys \in SUBSET Shipping
         /\ cfg.granted \in SUBSET Keys /\ cfg.directories \in SUBSET Directories
BY NotThere DEF ConfigType

LEMMA SelectionsAre ==
  \A f : f \in Selections <=> /\ f = [s \in DOMAIN f |-> f[s]] /\ DOMAIN f \in SUBSET Shipping
                              /\ \A s \in DOMAIN f : f[s] \in Keys \cup {None}
<1>1. ASSUME NEW f \in Selections
      PROVE  /\ f = [s \in DOMAIN f |-> f[s]] /\ DOMAIN f \in SUBSET Shipping
             /\ \A s \in DOMAIN f : f[s] \in Keys \cup {None}
  <2>1. PICK S \in SUBSET Shipping : f \in [S -> Keys \cup {None}]
    BY DEF Selections
  <2> QED  BY <2>1
<1>2. ASSUME NEW f, f = [s \in DOMAIN f |-> f[s]], DOMAIN f \in SUBSET Shipping,
             \A s \in DOMAIN f : f[s] \in Keys \cup {None}
      PROVE  f \in Selections
  <2>1. f \in [DOMAIN f -> Keys \cup {None}]
    BY <1>2
  <2> QED  BY <1>2, <2>1 DEF Selections
<1> QED  BY <1>1, <1>2

LEMMA RecordedFields ==
  ASSUME TypeInv, NEW c \in Clis
  PROVE  /\ RecordedGrants(c) \in SUBSET Keys /\ RecordedDirs(c) \in SUBSET Directories
         /\ Installed(c) => journal[c] \in RecordType
<1>1. Installed(c) => journal[c] \in RecordType
  BY DEF TypeInv, Installed
<1> QED  BY <1>1, RecordFields DEF RecordedGrants, RecordedDirs

LEMMA SelectionIs ==
  ASSUME NEW c \in Clis, NEW rec \in RecordType
  PROVE  Selection(c, rec) \in Selections
<1> DEFINE f == Selection(c, rec)
<1>1. DOMAIN f \in SUBSET Shipping /\ f = [s \in DOMAIN f |-> f[s]]
  BY RecordFields DEF Selection
<1>2. \A s \in DOMAIN f : f[s] \in Keys \cup {None}
  BY RecordFields DEF Selection
<1> HIDE DEF f
<1>3. f \in Selections
  BY <1>1, <1>2, SelectionsAre
<1> QED  BY <1>3 DEF f

(* What a command is about to record and render.                           *)
LEMMA RecordingIs ==
  ASSUME TypeInv, NEW c \in Clis, NEW chosen \in Selections, NEW keys \in SUBSET Keys,
         NEW dirs \in SUBSET Directories
  PROVE  /\ Recording(c, chosen, keys, dirs) \in RecordType
         /\ Clash(c, chosen) \in SUBSET Shipping /\ Keyed(c, chosen) \in SUBSET Shipping
<1> DEFINE held == Kept(Selected(Rel, chosen), keys)
           bindings == [s \in Bound(chosen) |-> chosen[s]]
<1>1. DOMAIN chosen \in SUBSET Shipping /\ \A s \in DOMAIN chosen : chosen[s] \in Keys \cup {None}
  BY SelectionsAre
<1>2. Bound(chosen) \in SUBSET Shipping
  BY <1>1 DEF Bound
<1>3. Keyed(c, chosen) \in SUBSET Shipping /\ Clash(c, chosen) \in SUBSET Shipping
  BY <1>1 DEF Keyed, Clash, Administered
<1>4. held \in SUBSET Keys
  BY DEF Kept
<1>5. bindings \in [Bound(chosen) -> Keys]
  BY <1>1 DEF Bound
<1>6. bindings \in UNION {[S -> Keys] : S \in SUBSET Shipping}
  BY <1>2, <1>5
<1>7. Recording(c, chosen, keys, dirs) =
        [conventions |-> DOMAIN chosen, keys |-> Keyed(c, chosen), bindings |-> bindings,
         granted |-> held, directories |-> dirs]
  BY DEF Recording
<1> HIDE DEF held, bindings
<1> QED  BY <1>1, <1>3, <1>4, <1>6, <1>7 DEF RecordType

LEMMA RenderingIs ==
  ASSUME TypeInv, NEW c \in Clis, NEW chosen \in Selections, NEW keys \in SUBSET Keys,
         NEW dirs \in SUBSET Directories, NEW assigned \in Assignments
  PROVE  Rendering(c, chosen, keys, dirs, assigned) \in ConfigType
<1> DEFINE held == Kept(Selected(Rel, chosen), keys)
           models == Overrides(c, assigned)
           honored == {a \in Everyone : /\ c \in ModelClis /\ assigned[a] \in reachable
                                        /\ a \in Agents(Rel) /\ Rel.agents[a].configurable}
<1>1. held \in SUBSET Keys
  BY DEF Kept
<1>2. models \in [honored -> Models]
  BY DEF Overrides, TypeInv
<1>3. models \in AgentModels
  BY <1>2 DEF AgentModels
<1>4. Keyed(c, chosen) \in SUBSET Shipping
  BY RecordingIs
<1>5. release \in DOMAIN Releases /\ reachable \in SUBSET Models
  BY DEF TypeInv
<1>6. Rendering(c, chosen, keys, dirs, assigned) =
        [release |-> release, chosen |-> chosen, keys |-> Keyed(c, chosen), granted |-> held,
         directories |-> dirs, models |-> models, offered |-> reachable]
  BY DEF Rendering
<1> HIDE DEF held, models, honored
<1> QED  BY <1>1, <1>3, <1>4, <1>5, <1>6 DEF ConfigType

(* Every command but uninstall is an install with keys, directories and     *)
(* assignments in mind; without saving them, those are the ones stored.     *)
Origin(c, chosen) ==
  \/ chosen \in Asks[c] \cup {Nothing}
  \/ Installed(c) /\ chosen = Selection(c, journal[c])
Starting(c, op, chosen, keys, dirs, assigned, saves) ==
  /\ op \in Ops /\ Origin(c, chosen) /\ chosen \in Selections /\ keys \in SUBSET Keys /\ dirs \in SUBSET Directories
  /\ assigned \in Assignments /\ saves \in BOOLEAN
  /\ ~saves => assigned = store[c]
  /\ Begin(c, op, chosen, keys, dirs, assigned, saves)

LEMMA ReapplyStarts ==
  ASSUME TypeInv, NEW c \in Clis, NEW op \in Ops, NEW keys \in SUBSET Keys,
         NEW dirs \in SUBSET Directories, NEW assigned \in Assignments, NEW saves \in BOOLEAN,
         ~saves => assigned = store[c], Reapply(c, op, keys, dirs, assigned, saves)
  PROVE  Starting(c, op, Selection(c, journal[c]), keys, dirs, assigned, saves)
<1>1. Selection(c, journal[c]) \in Selections
  BY RecordedFields, SelectionIs DEF Reapply, Reappliable
<1>2. Origin(c, Selection(c, journal[c]))
  BY DEF Origin, Reapply, Reappliable
<1> QED  BY <1>1, <1>2 DEF Reapply, Starting

LEMMA CommandStarts ==
  ASSUME TypeInv, NEW c \in Clis, Command(c)
  PROVE  \/ Uninstall(c)
         \/ \E op, chosen, keys, dirs, assigned, saves :
              Starting(c, op, chosen, keys, dirs, assigned, saves)
<1> DEFINE Starts == \E op, chosen, keys, dirs, assigned, saves :
                       Starting(c, op, chosen, keys, dirs, assigned, saves)
<1>1. RecordedGrants(c) \in SUBSET Keys /\ RecordedDirs(c) \in SUBSET Directories
        /\ store[c] \in Assignments
  BY RecordedFields DEF TypeInv
<1>2. ASSUME NEW chosen \in Asks[c], Install(c, chosen) PROVE Starts
  <2>1. chosen \in [DOMAIN chosen -> Keys \cup {None}]
    BY Parameters
  <2>2. DOMAIN chosen \in SUBSET Shipping
    BY <1>2, ReleasesAre DEF Install, Begin, Acceptable, Known, Rel, TypeInv
  <2>3. chosen \in Selections
    BY <2>1, <2>2 DEF Selections
  <2>4. Starting(c, "install", chosen, RecordedGrants(c), RecordedDirs(c), store[c], FALSE)
    BY <1>1, <1>2, <2>3 DEF Install, Starting, Ops, Origin
  <2> QED  BY <2>4
<1>3. ASSUME InstallBare(c) PROVE Starts
  <2>1. Nothing \in Selections
    BY DEF Nothing, Selections
  <2>2. Starting(c, "bare", Nothing, RecordedGrants(c), RecordedDirs(c), store[c], FALSE)
    BY <1>1, <1>3, <2>1 DEF InstallBare, Starting, Ops, Origin
  <2> QED  BY <2>2
<1>4. ASSUME NEW op \in Ops, NEW keys \in SUBSET Keys, NEW dirs \in SUBSET Directories,
             NEW assigned \in Assignments, NEW saves \in BOOLEAN, ~saves => assigned = store[c],
             Reapply(c, op, keys, dirs, assigned, saves)
      PROVE  Starts
  BY <1>4, ReapplyStarts
<1> HIDE DEF Starts
<1>5. ASSUME Update(c) PROVE Starts
  <2>1. Reapply(c, "update", RecordedGrants(c), RecordedDirs(c), store[c], FALSE) /\ "update" \in Ops
    BY <1>5 DEF Update, Ops
  <2> QED  BY <1>1, <1>4, <2>1
<1>6. ASSUME NEW a \in Everyone, NEW m \in Models, ModelsSet(c, a, m) PROVE Starts
  <2>1. [store[c] EXCEPT ![a] = m] \in Assignments
    BY <1>1 DEF Assignments
  <2> QED  BY <1>1, <1>4, <1>6, <2>1 DEF ModelsSet, Ops
<1>7. ASSUME NEW a \in Everyone, ModelsUnset(c, a) PROVE Starts
  <2>1. [store[c] EXCEPT ![a] = None] \in Assignments
    BY <1>1 DEF Assignments
  <2> QED  BY <1>1, <1>4, <1>7, <2>1 DEF ModelsUnset, Ops
<1>8. ASSUME NEW a \in Everyone, NEW b \in Everyone, NEW m \in Models, ModelsApply(c, a, m, b) PROVE Starts
  <2>1. [store[c] EXCEPT ![a] = m, ![b] = None] \in Assignments
    BY <1>1 DEF Assignments
  <2> QED  BY <1>1, <1>4, <1>8, <2>1 DEF ModelsApply, Ops
<1>9. ASSUME NEW k \in Keys, McpGrant(c, k) \/ McpRevoke(c, k) PROVE Starts
  <2>1. RecordedGrants(c) \cup {k} \in SUBSET Keys /\ RecordedGrants(c) \ {k} \in SUBSET Keys
    BY <1>1
  <2> QED  BY <1>1, <1>4, <1>9, <2>1 DEF McpGrant, McpRevoke, Ops
<1>10. ASSUME NEW d \in Directories, DirectoryGrant(c, d) \/ DirectoryRevoke(c, d) PROVE Starts
  <2>1. RecordedDirs(c) \cup {d} \in SUBSET Directories /\ RecordedDirs(c) \ {d} \in SUBSET Directories
    BY <1>1
  <2> QED  BY <1>1, <1>4, <1>10, <2>1 DEF DirectoryGrant, DirectoryRevoke, Ops
<1>11. Uninstall(c) \/ Starts
  <2>1. CASE Uninstall(c)
    BY <2>1
  <2>2. CASE \E chosen \in Asks[c] : Install(c, chosen)
    BY <1>2, <2>2
  <2>3. CASE InstallBare(c) \/ Update(c)
    BY <1>3, <1>5, <2>3
  <2>4. CASE \E a \in Everyone, m \in Models : ModelsSet(c, a, m)
    BY <1>6, <2>4
  <2>5. CASE \E a \in Everyone : ModelsUnset(c, a)
    BY <1>7, <2>5
  <2>6. CASE \E a, b \in Everyone, m \in Models : ModelsApply(c, a, m, b)
    BY <1>8, <2>6
  <2>7. CASE \E k \in Keys : McpGrant(c, k) \/ McpRevoke(c, k)
    BY <1>9, <2>7
  <2>8. CASE \E d \in Directories : DirectoryGrant(c, d) \/ DirectoryRevoke(c, d)
    BY <1>10, <2>8
  <2> QED  BY <2>1, <2>2, <2>3, <2>4, <2>5, <2>6, <2>7, <2>8 DEF Command
<1> QED  BY <1>11 DEF Starts

LEMMA MemoryFields ==
  ASSUME NEW r \in Memory
  PROVE  /\ r # Idle /\ r.phase \in {"place", "record", "assign"} /\ r.cli \in Clis /\ r.op \in Ops
         /\ r.saves \in BOOLEAN /\ r.assigned \in Assignments /\ r.journal \in RecordType
         /\ r.config \in ConfigType /\ r.asked \in Wish
BY DEF Memory, Idle

LEMMA FoundFields ==
  ASSUME NEW f \in Found
  PROVE  /\ f.cli \in Clis /\ f.journal \in RecordType \cup {None}
         /\ f.config \in ConfigType \cup {None} /\ f.own \in SUBSET Keys
         /\ f.asked \in Wish \cup {None} /\ f.torn \in BOOLEAN
BY DEF Found

LEMMA CommandRuns ==
  ASSUME TypeInv, run.phase \in {"place", "record", "assign"}
  PROVE  run \in Memory
BY DEF TypeInv, Idle

LEMMA CapturedIs ==
  ASSUME TypeInv, NEW c \in Clis
  PROVE  Captured(c) \in Found
<1> DEFINE t == c \in torn
<1>1. journal[c] \in RecordType \cup {None} /\ config[c] \in ConfigType \cup {None}
        /\ own[c] \in SUBSET Keys /\ asked[c] \in Wish \cup {None}
  BY DEF TypeInv
<1>2. t \in BOOLEAN
  OBVIOUS
<1>3. Captured(c) = [cli |-> c, journal |-> journal[c], config |-> config[c], own |-> own[c],
                     asked |-> asked[c], torn |-> t]
  BY DEF Captured
<1> HIDE DEF t
<1> QED  BY <1>1, <1>2, <1>3 DEF Found

(* What a command has in memory once it begins.                            *)
LEMMA BeginIs ==
  ASSUME TypeInv, NEW c \in Clis, NEW op, NEW chosen, NEW keys, NEW dirs, NEW assigned, NEW saves,
         Starting(c, op, chosen, keys, dirs, assigned, saves)
  PROVE  /\ run = Idle /\ run' \in Memory /\ snap' = Captured(c)
         /\ run'.phase = "place" /\ run'.cli = c /\ run'.saves = saves /\ run'.assigned = assigned
         /\ run'.journal = Recording(c, chosen, keys, dirs)
         /\ run'.config = Rendering(c, chosen, keys, dirs, assigned)
         /\ run'.asked = [chosen |-> chosen, clash |-> Clash(c, chosen)]
         /\ UNCHANGED <<release, own, reachable, journal, config, store, asked, torn, behind>>
<1> DEFINE rec == Recording(c, chosen, keys, dirs)
           cfg == Rendering(c, chosen, keys, dirs, assigned)
           wish == [chosen |-> chosen, clash |-> Clash(c, chosen)]
<1>1. rec \in RecordType /\ cfg \in ConfigType /\ wish \in Wish
  BY RecordingIs, RenderingIs DEF Starting, Wish
<1>2. run' = [phase |-> "place", cli |-> c, op |-> op, saves |-> saves, assigned |-> assigned,
              journal |-> rec, config |-> cfg, asked |-> wish]
  BY DEF Starting, Begin
<1>3. run = Idle /\ snap' = Captured(c)
        /\ UNCHANGED <<release, own, reachable, journal, config, store, asked, torn, behind>>
  BY DEF Starting, Begin, disk, ghosts
<1> HIDE DEF rec, cfg, wish
<1>4. run' \in Memory
  BY <1>1, <1>2 DEF Starting, Memory
<1>5. run'.phase = "place" /\ run'.cli = c /\ run'.saves = saves /\ run'.assigned = assigned
        /\ run'.journal = rec /\ run'.config = cfg /\ run'.asked = wish
  BY <1>2
<1> QED  BY <1>3, <1>4, <1>5 DEF rec, cfg, wish

(* The next phase of a command, with the rest of its memory as it was.     *)
LEMMA MemoryNext ==
  ASSUME NEW r \in Memory, NEW phase \in {"record", "assign"}, NEW new, new = [r EXCEPT !.phase = phase]
  PROVE  /\ new \in Memory /\ new.phase = phase /\ new.cli = r.cli /\ new.saves = r.saves
         /\ new.assigned = r.assigned /\ new.journal = r.journal /\ new.config = r.config
         /\ new.asked = r.asked
BY DEF Memory

LEMMA TypeInit == Init => TypeInv
<1> SUFFICES ASSUME Init PROVE TypeInv  OBVIOUS
<1>1. own \in [Clis -> SUBSET Keys]
  BY Parameters DEF Init
<1>2. store \in [Clis -> Assignments]
  BY DEF Init, Assignments
<1>3. journal \in [Clis -> RecordType \cup {None}] /\ config \in [Clis -> ConfigType \cup {None}]
        /\ asked \in [Clis -> Wish \cup {None}]
  BY DEF Init
<1> QED  BY <1>1, <1>2, <1>3, ReleasesAre DEF Init, TypeInv, Idle

LEMMA StepTypes ==
  ASSUME TypeInv, Place \/ Record \/ Assign
  PROVE  TypeInv'
<1>1. run \in Memory
  BY CommandRuns DEF Place, Record, Assign
<1>2. CASE Place
  <2>1. run' \in Memory
    BY <1>1, <1>2, MemoryNext DEF Place
  <2>2. config' \in [Clis -> ConfigType \cup {None}]
    BY <1>1, <1>2, MemoryFields DEF Place, TypeInv
  <2>3. config'[run'.cli] = run'.config
    BY <1>1, <1>2, MemoryNext, MemoryFields DEF Place, TypeInv
  <2> QED  BY <1>1, <1>2, <2>1, <2>2, <2>3, MemoryFields DEF Place, TypeInv, ghosts
<1>3. CASE Record
  <2>1. run' \in Memory \cup {Idle} /\ run'.phase # "record" /\ behind' \in SUBSET Clis
    BY <1>1, <1>3, MemoryNext, MemoryFields DEF Record, TypeInv, Idle
  <2>2. journal' \in [Clis -> RecordType \cup {None}] /\ asked' \in [Clis -> Wish \cup {None}]
    BY <1>1, <1>3, MemoryFields DEF Record, TypeInv
  <2> QED  BY <1>1, <1>3, <2>1, <2>2, MemoryFields DEF Record, TypeInv
<1>4. CASE Assign
  <2>1. store' \in [Clis -> Assignments]
    BY <1>1, <1>4, MemoryFields DEF Assign, TypeInv
  <2> QED  BY <1>4, <2>1 DEF Assign, TypeInv, Idle
<1> QED  BY <1>2, <1>3, <1>4

LEMMA FaultTypes ==
  ASSUME TypeInv, PlaceFails \/ RecordFails \/ AssignFails \/ Crash
  PROVE  TypeInv'
<1>1. CASE PlaceFails \/ AssignFails
  BY <1>1 DEF PlaceFails, AssignFails, TypeInv, disk, ghosts, Idle
<1>2. CASE RecordFails
  <2>1. run \in Memory /\ run.cli \in Clis /\ snap.config \in ConfigType \cup {None}
    BY <1>2, CommandRuns, MemoryFields, FoundFields DEF RecordFails, TypeInv
  <2>2. config' \in [Clis -> ConfigType \cup {None}]
    BY <1>2, <2>1 DEF RecordFails, TypeInv
  <2> QED  BY <1>2, <2>2 DEF RecordFails, TypeInv, ghosts, Idle
<1>3. CASE Crash
  <2>1. run \in Memory /\ run.cli \in Clis /\ run' = Idle
    BY <1>3, MemoryFields DEF Crash, TypeInv
  <2>2. own' \in [Clis -> SUBSET Keys] /\ torn' \in SUBSET Clis /\ behind' \in SUBSET Clis
    <3>1. CASE run.phase # "record"
      BY <1>3, <3>1 DEF Crash, TypeInv
    <3>2. CASE run.phase = "record"
      <4> DEFINE more == config[run.cli].keys \ IF Installed(run.cli) THEN journal[run.cli].keys ELSE {}
      <4>1. more \in SUBSET Keys
        BY <2>1, <3>2, MemoryFields, ConfigFields, ReleasesAre DEF TypeInv
      <4>2. own' = [own EXCEPT ![run.cli] = own[run.cli] \cup more]
              /\ torn' = torn \cup {run.cli} /\ behind' = behind \cup {run.cli}
        BY <1>3, <3>2 DEF Crash
      <4> HIDE DEF more
      <4> QED  BY <2>1, <4>1, <4>2 DEF TypeInv
    <3> QED  BY <3>1, <3>2
  <2> QED  BY <1>3, <2>1, <2>2 DEF Crash, TypeInv, disk, Idle
<1> QED  BY <1>1, <1>2, <1>3

LEMMA UserTypes ==
  ASSUME TypeInv, NEW c \in Clis, Uninstall(c)
  PROVE  TypeInv'
<1>1. snap' \in Found
  BY CapturedIs DEF Uninstall
<1>2. journal' \in [Clis -> RecordType \cup {None}] /\ config' \in [Clis -> ConfigType \cup {None}]
        /\ asked' \in [Clis -> Wish \cup {None}] /\ torn' \in SUBSET Clis
  BY DEF Uninstall, TypeInv
<1> QED  BY <1>1, <1>2 DEF Uninstall, TypeInv, Idle

LEMMA RestoreTypes ==
  ASSUME TypeInv, Restore
  PROVE  TypeInv'
<1>1. snap \in Found /\ run = Idle
  BY DEF Restore, TypeInv
<1>2. PICK c \in Clis : c = snap.cli
  BY <1>1, FoundFields
<1>3. snap' \in Found
  BY <1>2, CapturedIs DEF Restore
<1>4. journal' \in [Clis -> RecordType \cup {None}] /\ config' \in [Clis -> ConfigType \cup {None}]
        /\ asked' \in [Clis -> Wish \cup {None}] /\ own' \in [Clis -> SUBSET Keys]
  BY <1>1, <1>2, FoundFields DEF Restore, TypeInv
<1>5. torn' \in SUBSET Clis /\ behind' \in SUBSET Clis
  BY <1>2 DEF Restore, TypeInv
<1> QED  BY <1>1, <1>3, <1>4, <1>5 DEF Restore, TypeInv, Idle

LEMMA WorldTypes ==
  ASSUME TypeInv,
         \/ NewRelease
         \/ \E c \in Clis : \E k \in Declarable[c] : DeclareKey(c, k)
         \/ \E m \in Models : ProviderChanges(m)
  PROVE  TypeInv'
<1>1. CASE NewRelease
  <2>1. release' \in DOMAIN Releases
    BY <1>1, ReleasesAre DEF NewRelease, TypeInv
  <2> QED  BY <1>1, <2>1 DEF NewRelease, TypeInv, disk, ghosts
<1>2. ASSUME NEW c \in Clis, NEW k \in Declarable[c], DeclareKey(c, k) PROVE TypeInv'
  <2>1. k \in Keys
    BY Parameters
  <2>2. own' \in [Clis -> SUBSET Keys]
    BY <1>2, <2>1 DEF DeclareKey, TypeInv
  <2> QED  BY <1>2, <2>2 DEF DeclareKey, TypeInv, disk, ghosts
<1>3. ASSUME NEW m \in Models, ProviderChanges(m) PROVE TypeInv'
  BY <1>3 DEF ProviderChanges, TypeInv, disk, ghosts
<1> QED  BY <1>1, <1>2, <1>3

LEMMA TypeNext == TypeInv /\ [Next]_vars => TypeInv'
<1> SUFFICES ASSUME TypeInv, [Next]_vars PROVE TypeInv'  OBVIOUS
<1>1. ASSUME NEW c \in Clis, NEW op, NEW chosen, NEW keys, NEW dirs, NEW assigned, NEW saves,
             Starting(c, op, chosen, keys, dirs, assigned, saves)
      PROVE  TypeInv'
  <2>1. run' \in Memory /\ snap' \in Found /\ run'.phase = "place"
          /\ UNCHANGED <<release, own, reachable, journal, config, store, asked, torn, behind>>
    BY <1>1, BeginIs, CapturedIs
  <2> QED  BY <2>1 DEF TypeInv
<1>2. ASSUME NEW c \in Clis, Command(c) PROVE TypeInv'
  BY <1>1, <1>2, CommandStarts, UserTypes
<1>3. CASE UNCHANGED vars
  BY <1>3 DEF vars, disk, ghosts, TypeInv
<1> QED  BY <1>2, <1>3, StepTypes, FaultTypes, RestoreTypes, WorldTypes DEF Next

-----------------------------------------------------------------------------
(* What a record is worth.                                                 *)

(* From a record the selection it was made from is rebuilt, and what it     *)
(* names may be asked for again. A user who binds no two servers to one key *)
(* has no record that does.                                                *)
Rebuilds(c, rec, was) ==
  /\ Unresolved(c, rec) = was.clash
  /\ Selection(c, rec) = [s \in DOMAIN was.chosen \ was.clash |-> was.chosen[s]]
AskedAgain(c, rec) ==
  /\ c \notin WritesKeys => rec.keys = {}
  /\ rec.granted \cap Malformed = {}
  /\ \A s \in DOMAIN rec.bindings : rec.bindings[s] \notin Malformed
  /\ \A d \in rec.directories : DirectoryAccepted(d, ConfigDir[c], DataDir)
OneServerPerKey == \A c \in Clis : \A chosen \in Asks[c] : Single(chosen)
Good(c, rec, was) ==
  Rebuilds(c, rec, was) /\ AskedAgain(c, rec) /\ (OneServerPerKey => Single(was.chosen))

RecordInv ==
  /\ \A c \in Clis : Installed(c) => Good(c, journal[c], asked[c])
  /\ snap # None /\ snap.journal # None => Good(snap.cli, snap.journal, snap.asked)
  /\ run.phase \in {"place", "record"} => Good(run.cli, run.journal, run.asked)

(* An install records a selection it can rebuild: all but a server whose    *)
(* key it left to the user.                                                *)
LEMMA RecordsGood ==
  ASSUME TypeInv, RecordInv, NEW c \in Clis, NEW op, NEW chosen, NEW keys, NEW dirs, NEW assigned, NEW saves,
         Starting(c, op, chosen, keys, dirs, assigned, saves),
         NEW rec, rec = Recording(c, chosen, keys, dirs),
         NEW was, was = [chosen |-> chosen, clash |-> Clash(c, chosen)]
  PROVE  Good(c, rec, was)
<1>1. was.chosen = chosen /\ was.clash = Clash(c, chosen) /\ Acceptable(c, chosen, keys, dirs)
  BY DEF Starting, Begin
<1>2. /\ rec.conventions = DOMAIN chosen /\ rec.keys = Keyed(c, chosen) /\ rec.directories = dirs
      /\ DOMAIN rec.bindings = Bound(chosen) /\ \A s \in Bound(chosen) : rec.bindings[s] = chosen[s]
      /\ rec.granted \in SUBSET keys
  BY DEF Recording, Kept
<1>3. /\ Bound(chosen) = {s \in DOMAIN chosen : chosen[s] # None}
      /\ c \notin WritesKeys => Keyed(c, chosen) = {} /\ Clash(c, chosen) = {}
      /\ c \in WritesKeys => /\ Keyed(c, chosen) \cup Clash(c, chosen) = DOMAIN chosen \ Bound(chosen)
                             /\ Keyed(c, chosen) \cap Clash(c, chosen) = {}
  BY DEF Bound, Keyed, Clash, Administered
<1>4. Unresolved(c, rec) = Clash(c, chosen)
  BY <1>2, <1>3 DEF Unresolved
<1>5. (DOMAIN chosen \cup rec.keys) \ Unresolved(c, rec) = DOMAIN chosen \ Clash(c, chosen)
  BY <1>2, <1>3, <1>4
<1>6. \A s \in DOMAIN chosen \ Clash(c, chosen) :
        (IF s \notin rec.keys /\ s \in DOMAIN rec.bindings THEN rec.bindings[s] ELSE None) = chosen[s]
  BY <1>2, <1>3
<1>7. Selection(c, rec) = [s \in DOMAIN chosen \ Clash(c, chosen) |-> chosen[s]]
  BY <1>2, <1>5, <1>6 DEF Selection
<1>8. Rebuilds(c, rec, was)
  BY <1>1, <1>4, <1>7 DEF Rebuilds
<1>9. AskedAgain(c, rec)
  <2>1. keys \cap Malformed = {}
    BY <1>1 DEF Acceptable, GrantRefused
  <2>2. \A s \in Bound(chosen) : chosen[s] \notin Malformed
    BY <1>1 DEF Acceptable, Readable
  <2>3. \A d \in dirs : DirectoryAccepted(d, ConfigDir[c], DataDir)
    BY <1>1 DEF Acceptable
  <2> QED  BY <1>2, <1>3, <2>1, <2>2, <2>3 DEF AskedAgain
<1>10. ASSUME OneServerPerKey PROVE Single(chosen)
  <2>1. CASE chosen \in Asks[c]
    BY <1>10, <2>1 DEF OneServerPerKey
  <2>2. CASE chosen = Nothing
    BY <2>2 DEF Single, Nothing
  <2>3. CASE Installed(c) /\ chosen = Selection(c, journal[c])
    <3>1. PICK old : old = asked[c]
      OBVIOUS
    <3>2. Single(old.chosen) /\ chosen = [s \in DOMAIN old.chosen \ old.clash |-> old.chosen[s]]
      BY <1>10, <2>3, <3>1 DEF RecordInv, Good, Rebuilds
    <3> QED  BY <3>2 DEF Single, KeyFor
  <2> QED  BY <2>1, <2>2, <2>3 DEF Starting, Origin
<1> QED  BY <1>1, <1>8, <1>9, <1>10 DEF Good

(* What a generation captures is worth what it was.                        *)
LEMMA CapturedGood ==
  ASSUME TypeInv, RecordInv, NEW c \in Clis, NEW new, new = Captured(c), new.journal # None
  PROVE  Good(new.cli, new.journal, new.asked)
BY DEF Captured, RecordInv, Installed

LEMMA RecordInit == Init => RecordInv
<1> SUFFICES ASSUME Init PROVE RecordInv  OBVIOUS
<1>1. run.phase = "idle" /\ \A c \in Clis : journal[c] = None
  BY DEF Init, Idle
<1>2. snap = None
  BY DEF Init
<1> QED  BY <1>1, <1>2 DEF RecordInv, Installed

LEMMA RecordNext == TypeInv /\ RecordInv /\ [Next]_vars => RecordInv'
<1> SUFFICES ASSUME TypeInv, RecordInv, [Next]_vars PROVE RecordInv'  OBVIOUS
<1>1. ASSUME UNCHANGED <<journal, asked, snap>>,
             run'.phase \in {"place", "record"} => UNCHANGED run
      PROVE  RecordInv'
  BY <1>1 DEF RecordInv, Installed
<1>2. ASSUME NEW c \in Clis, NEW op, NEW chosen, NEW keys, NEW dirs, NEW assigned, NEW saves,
             Starting(c, op, chosen, keys, dirs, assigned, saves)
      PROVE  RecordInv'
  <2>1. PICK new : new = Captured(c)
    OBVIOUS
  <2>2. PICK rec, was : rec = Recording(c, chosen, keys, dirs) /\ was = [chosen |-> chosen, clash |-> Clash(c, chosen)]
    OBVIOUS
  <2>3. Good(c, rec, was) /\ (new.journal # None => Good(new.cli, new.journal, new.asked))
    BY <1>2, <2>1, <2>2, RecordsGood, CapturedGood
  <2>4. run'.cli = c /\ run'.journal = rec /\ run'.asked = was /\ snap' = new /\ UNCHANGED <<journal, asked>>
    BY <1>2, <2>1, <2>2, BeginIs
  <2> QED  BY <2>3, <2>4 DEF RecordInv, Installed
<1>3. ASSUME NEW c \in Clis, Uninstall(c) PROVE RecordInv'
  <2>1. PICK new : new = Captured(c)
    OBVIOUS
  <2>2. new.journal # None => Good(new.cli, new.journal, new.asked)
    BY <2>1, CapturedGood
  <2>3. snap' = new /\ run' = Idle /\ journal' = [journal EXCEPT ![c] = None] /\ asked' = [asked EXCEPT ![c] = None]
    BY <1>3, <2>1 DEF Uninstall
  <2>4. \A d \in Clis : journal'[d] # None => journal'[d] = journal[d] /\ asked'[d] = asked[d] /\ journal[d] # None
    BY <2>3 DEF TypeInv
  <2> QED  BY <2>2, <2>3, <2>4 DEF RecordInv, Installed, Idle
<1>4. CASE Place
  <2>1. run \in Memory /\ UNCHANGED <<journal, asked, snap>>
    BY <1>4, CommandRuns DEF Place, ghosts
  <2>2. run'.cli = run.cli /\ run'.journal = run.journal /\ run'.asked = run.asked
    BY <1>4, <2>1, MemoryNext DEF Place
  <2>3. Good(run.cli, run.journal, run.asked)
    BY <1>4 DEF Place, RecordInv
  <2> QED  BY <2>1, <2>2, <2>3 DEF RecordInv, Installed
<1>5. CASE Record
  <2>1. run \in Memory /\ run.cli \in Clis
    BY <1>5, CommandRuns, MemoryFields DEF Record
  <2>2. run'.phase \notin {"place", "record"} /\ UNCHANGED snap
    BY <1>5, <2>1, MemoryNext DEF Record, Idle
  <2>3. journal'[run.cli] = run.journal /\ asked'[run.cli] = run.asked
          /\ \A d \in Clis \ {run.cli} : journal'[d] = journal[d] /\ asked'[d] = asked[d]
    BY <1>5, <2>1 DEF Record, TypeInv
  <2>4. Good(run.cli, run.journal, run.asked)
    BY <1>5 DEF Record, RecordInv
  <2> QED  BY <2>1, <2>2, <2>3, <2>4 DEF RecordInv, Installed
<1>6. CASE Assign \/ PlaceFails \/ RecordFails \/ AssignFails \/ Crash
  <2>1. run' = Idle /\ UNCHANGED <<journal, asked, snap>>
    BY <1>6 DEF Assign, PlaceFails, RecordFails, AssignFails, Crash, disk, ghosts
  <2> QED  BY <1>1, <2>1 DEF Idle
<1>7. CASE Restore
  <2>1. PICK old : old = snap
    OBVIOUS
  <2>2. PICK new : new = Captured(old.cli)
    OBVIOUS
  <2>3. old # None /\ old.cli \in Clis /\ run' = run /\ run = Idle /\ snap' = new
    BY <1>7, <2>1, <2>2, FoundFields DEF Restore, TypeInv
  <2>4. journal' = [journal EXCEPT ![old.cli] = old.journal] /\ asked' = [asked EXCEPT ![old.cli] = old.asked]
    BY <1>7, <2>1 DEF Restore
  <2>5. journal'[old.cli] = old.journal /\ asked'[old.cli] = old.asked
          /\ \A d \in Clis \ {old.cli} : journal'[d] = journal[d] /\ asked'[d] = asked[d]
    BY <2>3, <2>4 DEF TypeInv
  <2>6. old.journal # None => Good(old.cli, old.journal, old.asked)
    BY <2>1, <2>3 DEF RecordInv
  <2>7. new.journal # None => Good(new.cli, new.journal, new.asked)
    BY <2>2, <2>3, CapturedGood
  <2>8. \A d \in Clis : Installed(d)' => Good(d, journal'[d], asked'[d])
    BY <2>3, <2>5, <2>6 DEF RecordInv, Installed
  <2> QED  BY <2>3, <2>7, <2>8 DEF RecordInv, Idle
<1>8. CASE \/ NewRelease \/ UNCHANGED vars
           \/ \E c \in Clis : \E k \in Declarable[c] : DeclareKey(c, k)
           \/ \E m \in Models : ProviderChanges(m)
  <2>1. UNCHANGED <<journal, asked, snap, run>>
    BY <1>8 DEF NewRelease, DeclareKey, ProviderChanges, disk, ghosts, vars
  <2> QED  BY <1>1, <2>1
<1>9. ASSUME NEW c \in Clis, Command(c) PROVE RecordInv'
  BY <1>2, <1>3, <1>9, CommandStarts
<1> QED  BY <1>4, <1>5, <1>6, <1>7, <1>8, <1>9 DEF Next

(* A record names servers a release ships and keys there are, and what is   *)
(* rendered, held in a generation or in a running command does too; a key   *)
(* of darq's own is only in a CLI that has keys (install, cli.py).          *)
THEOREM GrantTypes == Spec => []TypeOK
<1>1. TypeInv /\ RecordInv => TypeOK
  <2> SUFFICES ASSUME TypeInv, RecordInv PROVE TypeOK  OBVIOUS
  <2>1. store \in [Clis -> [Everyone -> Models \cup {None}]]
    BY DEF TypeInv, Assignments
  <2>2. run.phase \in {"idle", "place", "record", "assign"}
    BY MemoryFields DEF TypeInv, Idle
  <2>3. \A c \in Clis \ WritesKeys : Installed(c) => journal[c].keys = {}
    BY DEF RecordInv, Good, AskedAgain
  <2> QED  BY <2>1, <2>2, <2>3 DEF TypeInv, TypeOK
<1> QED  BY <1>1, TypeInit, TypeNext, RecordInit, RecordNext, PTL DEF Spec

(* Whatever was installed, bound, granted, restored or left half done, the  *)
(* selection that every later command rebuilds from the journal is the one  *)
(* the user asked for; the servers whose keys were the user's already are   *)
(* exactly those it finds unresolved (_mcp_update_selection, cli.py).       *)
THEOREM SelectionKept == Spec => []SelectionRoundTrip
<1>1. RecordInv => SelectionRoundTrip
  BY DEF RecordInv, Good, Rebuilds, SelectionRoundTrip
<1> QED  BY <1>1, TypeInit, TypeNext, RecordInit, RecordNext, PTL DEF Spec

-----------------------------------------------------------------------------
(* What may be granted.                                                    *)

(* The user declares keys darq can read; those a command that died left in  *)
(* the settings are servers of a release.                                  *)
Readables == \A c \in Clis : Declarable[c] \cap Malformed = {}
OwnInv ==
  /\ \A c \in Clis : own[c] \cap Malformed = {}
  /\ snap # None => snap.own \cap Malformed = {}

LEMMA OwnInit == Readables /\ Init => OwnInv
<1> SUFFICES ASSUME Readables, Init PROVE OwnInv  OBVIOUS
<1>1. \A c \in Clis : own[c] \subseteq Declarable[c]
  BY DEF Init
<1> QED  BY <1>1 DEF Readables, Init, OwnInv

LEMMA OwnNext == Readables /\ TypeInv /\ OwnInv /\ [Next]_vars => OwnInv'
<1> SUFFICES ASSUME Readables, TypeInv, OwnInv, [Next]_vars PROVE OwnInv'  OBVIOUS
<1>1. \A c \in Clis : Captured(c).own = own[c]
  BY DEF Captured
<1>2. ASSUME NEW c \in Clis, UNCHANGED own, snap' = snap \/ snap' = Captured(c) PROVE OwnInv'
  BY <1>1, <1>2 DEF OwnInv
<1>3. ASSUME NEW c \in Clis, Command(c) PROVE OwnInv'
  <2>1. UNCHANGED own /\ snap' = Captured(c)
    BY <1>3, CommandStarts, BeginIs DEF Uninstall
  <2> QED  BY <1>2, <2>1
<1>4. CASE \/ Place \/ Record \/ Assign \/ PlaceFails \/ RecordFails \/ AssignFails \/ NewRelease
           \/ UNCHANGED vars \/ \E m \in Models : ProviderChanges(m)
  <2>1. UNCHANGED <<own, snap>>
    BY <1>4 DEF Place, Record, Assign, PlaceFails, RecordFails, AssignFails, NewRelease, ProviderChanges, vars
  <2> QED  BY <2>1 DEF OwnInv
<1>5. CASE Crash
  <2>1. UNCHANGED snap
    BY <1>5 DEF Crash
  <2>2. \A c \in Clis : own'[c] \subseteq own[c] \cup Shipping
    <3>1. CASE run.phase # "record"
      BY <1>5, <3>1 DEF Crash
    <3>2. CASE run.phase = "record"
      <4>1. run \in Memory /\ run.cli \in Clis /\ config[run.cli].keys \subseteq Shipping
        BY <3>2, CommandRuns, MemoryFields, ConfigFields DEF TypeInv
      <4>2. PICK more : more \subseteq Shipping /\ own' = [own EXCEPT ![run.cli] = own[run.cli] \cup more]
        BY <1>5, <3>2, <4>1 DEF Crash
      <4> QED  BY <4>1, <4>2 DEF TypeInv
    <3> QED  BY <3>1, <3>2
  <2> QED  BY <2>1, <2>2, ReleasesAre DEF OwnInv
<1>6. CASE Restore
  <2>1. PICK old : old = snap
    OBVIOUS
  <2>2. old # None /\ old.cli \in Clis /\ snap' = Captured(old.cli)
    BY <1>6, <2>1, FoundFields DEF Restore, TypeInv
  <2>3. own' = own \/ own' = [own EXCEPT ![old.cli] = old.own]
    BY <1>6, <2>1 DEF Restore
  <2>4. \A c \in Clis : own'[c] = own[c] \/ own'[c] = old.own
    BY <2>3 DEF TypeInv
  <2> QED  BY <1>1, <2>1, <2>2, <2>4 DEF OwnInv
<1>7. ASSUME NEW c \in Clis, NEW k \in Declarable[c], DeclareKey(c, k) PROVE OwnInv'
  <2>1. \A d \in Clis : own'[d] \subseteq own[d] \cup Declarable[d]
    BY <1>7 DEF DeclareKey, TypeInv
  <2>2. UNCHANGED snap
    BY <1>7 DEF DeclareKey
  <2> QED  BY <2>1, <2>2 DEF OwnInv, Readables
<1> QED  BY <1>3, <1>4, <1>5, <1>6, <1>7 DEF Next

(* Where something is installed, mcp list never offers a key that mcp grant *)
(* would refuse (cli.py:2831), at any moment of any history, if the keys    *)
(* the user's settings declare match _SERVER_KEY: one that does not is      *)
(* offered, and refused.                                                   *)
THEOREM OfferedIsGrantable == Readables => (Spec => []ListedIsGrantable)
<1>1. TypeInv /\ RecordInv /\ OwnInv => ListedIsGrantable
  <2> SUFFICES ASSUME TypeInv, RecordInv, OwnInv, NEW c \in Clis, Installed(c), NEW k \in Available(c)
               PROVE  /\ k \in Declared(c) /\ Reappliable(c)
                      /\ Acceptable(c, Selection(c, journal[c]), RecordedGrants(c) \cup {k}, RecordedDirs(c))
    BY DEF ListedIsGrantable
  <2>0. Reappliable(c)
    BY DEF Available, Listable
  <2>1. PICK rec, chosen : rec = journal[c] /\ chosen = Selection(c, journal[c])
    OBVIOUS
  <2>2. rec \in RecordType /\ AskedAgain(c, rec) /\ RecordedGrants(c) = rec.granted
          /\ RecordedDirs(c) = rec.directories /\ Known(Rel, chosen)
    BY <2>0, <2>1, RecordedFields DEF Reappliable, RecordInv, Good, RecordedGrants, RecordedDirs
  <2>3. Readable(chosen)
    <3>1. \A s \in DOMAIN chosen : chosen[s] = None \/ (s \in DOMAIN rec.bindings /\ chosen[s] = rec.bindings[s])
      BY <2>1 DEF Selection
    <3> QED  BY <2>2, <3>1 DEF Readable, Bound, AskedAgain
  <2>4. k \in Declared(c) /\ k \notin PerAgentKeys(Selected(Rel, chosen))
    <3>1. AlreadyCovered(c) = PerAgentKeys(Selected(Rel, chosen))
      BY <2>1 DEF AlreadyCovered
    <3>2. k \in (Declared(c) \ RecordedGrants(c)) \ AlreadyCovered(c)
      <4>1. Listable(c)
        BY <2>0 DEF Listable
      <4> QED  BY <4>1 DEF Available
    <3> QED  BY <3>1, <3>2
  <2>5. k \notin Malformed
    <3>1. config[c] # None => config[c].keys \subseteq Shipping
      BY ConfigFields DEF TypeInv
    <3> QED  BY <2>4, <3>1, ReleasesAre DEF OwnInv, Declared
  <2>6. ~ GrantRefused(Selected(Rel, chosen), RecordedGrants(c) \cup {k},
                       (RecordedGrants(c) \cup {k}) \cap RecordedGrants(c))
    BY <2>2, <2>4, <2>5 DEF GrantRefused, Collisions, AskedAgain
  <2> QED  BY <2>0, <2>1, <2>2, <2>3, <2>4, <2>6 DEF Acceptable, AskedAgain
<1>2. SUFFICES ASSUME Readables PROVE Spec => []ListedIsGrantable
  OBVIOUS
<1>3. Init => OwnInv
  BY <1>2, OwnInit
<1>4. TypeInv /\ OwnInv /\ [Next]_vars => OwnInv'
  BY <1>2, OwnNext
<1> QED  BY <1>1, <1>3, <1>4, TypeInit, TypeNext, RecordInit, RecordNext, PTL DEF Spec

-----------------------------------------------------------------------------
(* What is rendered is what is recorded.                                   *)

Agree(rec, cfg) ==
  /\ rec # None <=> cfg # None
  /\ rec # None => /\ cfg.granted = rec.granted /\ cfg.directories = rec.directories
                   /\ cfg.keys = rec.keys
Follows(c, cfg, assigned) ==
  cfg.models = [a \in {b \in Agents(Releases[cfg.release]) :
                         /\ c \in ModelClis /\ assigned[b] \in cfg.offered
                         /\ Releases[cfg.release].agents[b].configurable} |-> assigned[a]]

(* A command in flight holds a record and a rendering that agree, and the   *)
(* generation it took the rendering that agreed with the record there was:  *)
(* the one to go back to when it fails.                                    *)
Settled(c, cfg) ==
  /\ c \notin torn => Agree(journal[c], cfg)
  /\ Installed(c) /\ c \notin behind => Follows(c, cfg, store[c])
RenderInv ==
  /\ \A c \in Clis : Settled(c, config[c]) \/ (run.phase = "record" /\ run.cli = c)
  /\ run.phase \in {"place", "record"} =>
       /\ Agree(run.journal, run.config) /\ Follows(run.cli, run.config, run.assigned)
       /\ ~run.saves => run.assigned = store[run.cli]
       /\ Settled(run.cli, snap.config)
  /\ run.phase = "assign" => Follows(run.cli, config[run.cli], run.assigned)
  /\ snap # None => snap.torn \/ Agree(snap.journal, snap.config)

LEMMA RenderInit == Init => RenderInv
<1> SUFFICES ASSUME Init PROVE RenderInv  OBVIOUS
<1>1. run.phase = "idle" /\ snap = None /\ \A c \in Clis : journal[c] = None /\ config[c] = None
  BY DEF Init, Idle
<1> QED  BY <1>1 DEF RenderInv, Settled, Agree, Installed

(* A command renders what it records, from the assignments it has in mind.  *)
LEMMA RendersRecorded ==
  ASSUME TypeInv, NEW c \in Clis, NEW chosen \in Selections, NEW keys \in SUBSET Keys,
         NEW dirs \in SUBSET Directories, NEW assigned \in Assignments,
         NEW rec, rec = Recording(c, chosen, keys, dirs),
         NEW cfg, cfg = Rendering(c, chosen, keys, dirs, assigned)
  PROVE  Agree(rec, cfg) /\ Follows(c, cfg, assigned)
<1>1. rec # None /\ cfg # None
  BY RecordingIs, RenderingIs, RecordFields, ConfigFields
<1>2. rec.granted = cfg.granted /\ rec.directories = cfg.directories /\ rec.keys = cfg.keys
  BY DEF Recording, Rendering
<1>3. cfg.release = release /\ cfg.offered = reachable /\ cfg.models = Overrides(c, assigned)
  BY DEF Rendering
<1>4. {a \in Everyone : /\ c \in ModelClis /\ assigned[a] \in reachable
                        /\ a \in Agents(Rel) /\ Rel.agents[a].configurable}
      = {b \in Agents(Releases[release]) : /\ c \in ModelClis /\ assigned[b] \in reachable
                                           /\ Releases[release].agents[b].configurable}
  BY ReleasesAre DEF Rel, TypeInv
<1>5. Follows(c, cfg, assigned)
  BY <1>3, <1>4 DEF Follows, Overrides
<1> QED  BY <1>1, <1>2, <1>5 DEF Agree

LEMMA BeginRenders ==
  ASSUME TypeInv, RenderInv, NEW c \in Clis, NEW op, NEW chosen, NEW keys, NEW dirs, NEW assigned,
         NEW saves, Starting(c, op, chosen, keys, dirs, assigned, saves)
  PROVE  RenderInv'
<1>1. PICK rec, cfg : rec = Recording(c, chosen, keys, dirs) /\ cfg = Rendering(c, chosen, keys, dirs, assigned)
  OBVIOUS
<1>2. Agree(rec, cfg) /\ Follows(c, cfg, assigned)
  BY <1>1, RendersRecorded DEF Starting
<1>3. PICK new : new = Captured(c)
  OBVIOUS
<1>4. new.journal = journal[c] /\ new.config = config[c] /\ new.torn = (c \in torn)
  BY <1>3 DEF Captured
<1>5. /\ run = Idle /\ snap' = new
      /\ run'.phase = "place" /\ run'.cli = c /\ run'.saves = saves /\ run'.assigned = assigned
      /\ run'.journal = rec /\ run'.config = cfg
      /\ UNCHANGED <<journal, config, store, torn, behind>>
  <2>1. PICK wish : wish = [chosen |-> chosen, clash |-> Clash(c, chosen)]
    OBVIOUS
  <2>2. run' = [phase |-> "place", cli |-> c, op |-> op, saves |-> saves, assigned |-> assigned,
                journal |-> rec, config |-> cfg, asked |-> wish]
    BY <1>1, <2>1 DEF Starting, Begin
  <2>3. run = Idle /\ snap' = new /\ UNCHANGED <<journal, config, store, torn, behind>>
    BY <1>3 DEF Starting, Begin, disk, ghosts
  <2> QED  BY <2>2, <2>3
<1>6. \A d \in Clis : Settled(d, config[d]) /\ Settled(d, config[d])'
  BY <1>5 DEF RenderInv, Idle, Settled, Installed
<1>7. saves \/ assigned = store[c]
  BY DEF Starting
<1>8. Settled(c, new.config)'
  BY <1>4, <1>5, <1>6 DEF Settled, Installed
<1>9. new.torn \/ Agree(new.journal, new.config)
  BY <1>4, <1>6 DEF Settled
<1> QED  BY <1>2, <1>5, <1>6, <1>7, <1>8, <1>9 DEF RenderInv

LEMMA RenderNext == TypeInv /\ RenderInv /\ [Next]_vars => RenderInv'
<1> SUFFICES ASSUME TypeInv, RenderInv, [Next]_vars PROVE RenderInv'  OBVIOUS
<1>1. ASSUME UNCHANGED <<journal, config, store, torn, behind, snap>>,
             UNCHANGED run \/ (run.phase # "record" /\ run' = Idle)
      PROVE  RenderInv'
  BY <1>1 DEF RenderInv, Settled, Installed, Idle
<1>2. ASSUME NEW c \in Clis, Uninstall(c) PROVE RenderInv'
  <2>1. PICK new : new = Captured(c)
    OBVIOUS
  <2>2. new.torn \/ Agree(new.journal, new.config)
    BY <1>2, <2>1 DEF Captured, Uninstall, RenderInv, Settled, Idle
  <2>3. /\ run = Idle /\ run' = run /\ snap' = new /\ UNCHANGED <<store, behind>> /\ torn' = torn \ {c}
        /\ journal'[c] = None /\ config'[c] = None
        /\ \A d \in Clis \ {c} : journal'[d] = journal[d] /\ config'[d] = config[d]
    BY <1>2, <2>1 DEF Uninstall, TypeInv
  <2>4. \A d \in Clis : Settled(d, config[d])'
    BY <2>3 DEF RenderInv, Settled, Installed, Agree, Idle
  <2> QED  BY <2>2, <2>3, <2>4 DEF RenderInv, Idle
<1>3. CASE Place
  <2>1. run \in Memory /\ run.cli \in Clis
    BY <1>3, CommandRuns, MemoryFields DEF Place
  <2>2. /\ run'.phase = "record" /\ run'.cli = run.cli /\ run'.journal = run.journal
        /\ run'.config = run.config /\ run'.assigned = run.assigned /\ run'.saves = run.saves
    BY <1>3, <2>1, MemoryNext DEF Place
  <2>3. /\ run.phase = "place" /\ UNCHANGED <<journal, store, snap, torn, behind>>
        /\ \A d \in Clis \ {run.cli} : config'[d] = config[d]
    BY <1>3 DEF Place, ghosts, TypeInv
  <2>4. \A d \in Clis : Settled(d, config[d])' \/ d = run.cli
    BY <2>3 DEF RenderInv, Settled, Installed
  <2> QED  BY <2>2, <2>3, <2>4 DEF RenderInv, Settled, Installed
<1>4. CASE Record
  <2>1. run \in Memory /\ run.cli \in Clis /\ run.phase = "record"
    BY <1>4, CommandRuns, MemoryFields DEF Record
  <2>2. PICK c, rec, cfg : c = run.cli /\ rec = run.journal /\ cfg = config[run.cli]
    OBVIOUS
  <2>3. /\ Agree(rec, cfg) /\ Follows(c, cfg, run.assigned)
        /\ run.saves \/ run.assigned = store[c]
    BY <2>1, <2>2 DEF RenderInv, TypeInv
  <2>4. /\ UNCHANGED <<config, store, snap>> /\ torn' = torn \ {c}
        /\ journal'[c] = rec /\ \A d \in Clis \ {c} : journal'[d] = journal[d]
    BY <1>4, <2>1, <2>2 DEF Record, TypeInv
  <2>5. \A d \in Clis \ {c} : Settled(d, config[d])
    BY <2>2 DEF RenderInv
  <2>6. CASE run.saves
    <3>1. behind' = behind \cup {c} /\ run' = [run EXCEPT !.phase = "assign"]
      BY <1>4, <2>2, <2>6 DEF Record
    <3>2. run'.phase = "assign" /\ run'.cli = c /\ run'.assigned = run.assigned
      BY <2>1, <2>2, <3>1, MemoryNext
    <3>3. \A d \in Clis : Settled(d, config[d])'
      BY <2>2, <2>3, <2>4, <2>5, <3>1 DEF Settled, Installed
    <3> QED  BY <2>2, <2>3, <2>4, <3>2, <3>3 DEF RenderInv
  <2>7. CASE ~run.saves
    <3>1. behind' = behind \ {c} /\ run' = Idle
      BY <1>4, <2>2, <2>7 DEF Record
    <3>2. \A d \in Clis : Settled(d, config[d])'
      BY <2>2, <2>3, <2>4, <2>5, <2>7, <3>1 DEF Settled, Installed
    <3> QED  BY <2>4, <3>1, <3>2 DEF RenderInv, Idle
  <2> QED  BY <2>6, <2>7
<1>5. CASE Assign
  <2>1. run \in Memory /\ run.cli \in Clis /\ run.phase = "assign"
    BY <1>5, CommandRuns, MemoryFields DEF Assign
  <2>2. PICK c, assigned : c = run.cli /\ assigned = run.assigned
    OBVIOUS
  <2>3. /\ run' = Idle /\ behind' = behind \ {c} /\ UNCHANGED <<journal, config, snap, torn>>
        /\ store'[c] = assigned /\ \A d \in Clis \ {c} : store'[d] = store[d]
    BY <1>5, <2>1, <2>2 DEF Assign, TypeInv
  <2>4. Follows(c, config[c], assigned) /\ \A d \in Clis : Settled(d, config[d])
    BY <2>1, <2>2 DEF RenderInv
  <2>5. \A d \in Clis : Settled(d, config[d])'
    BY <2>2, <2>3, <2>4 DEF Settled, Installed
  <2> QED  BY <2>3, <2>5 DEF RenderInv, Idle
<1>6. CASE PlaceFails \/ AssignFails
  BY <1>1, <1>6 DEF PlaceFails, AssignFails, disk, ghosts
<1>7. CASE RecordFails
  <2>1. run \in Memory /\ run.cli \in Clis /\ run.phase = "record"
    BY <1>7, CommandRuns, MemoryFields DEF RecordFails
  <2>2. /\ run' = Idle /\ UNCHANGED <<journal, store, snap, torn, behind>>
        /\ config'[run.cli] = snap.config
        /\ \A d \in Clis \ {run.cli} : config'[d] = config[d]
    BY <1>7, <2>1 DEF RecordFails, TypeInv, ghosts
  <2>3. Settled(run.cli, snap.config) /\ \A d \in Clis \ {run.cli} : Settled(d, config[d])
    BY <2>1 DEF RenderInv
  <2>4. \A d \in Clis : Settled(d, config[d])'
    BY <2>1, <2>2, <2>3 DEF Settled, Installed
  <2> QED  BY <2>2, <2>4 DEF RenderInv, Idle
<1>8. CASE Crash
  <2>1. CASE run.phase # "record"
    BY <1>1, <1>8, <2>1 DEF Crash, disk
  <2>2. CASE run.phase = "record"
    <3>1. /\ run' = Idle /\ UNCHANGED <<journal, config, store, snap>>
          /\ torn' = torn \cup {run.cli} /\ behind' = behind \cup {run.cli}
      BY <1>8, <2>2 DEF Crash, disk
    <3>2. \A d \in Clis : Settled(d, config[d])'
      BY <2>2, <3>1 DEF RenderInv, Settled, Installed
    <3> QED  BY <3>1, <3>2 DEF RenderInv, Idle
  <2> QED  BY <2>1, <2>2
<1>9. CASE Restore
  <2>1. PICK old : old = snap
    OBVIOUS
  <2>2. old # None /\ old.cli \in Clis /\ old.torn \in BOOLEAN
    BY <1>9, <2>1, FoundFields DEF Restore, TypeInv
  <2>3. PICK c, new : c = old.cli /\ new = Captured(c)
    OBVIOUS
  <2>4. /\ run = Idle /\ run' = run /\ snap' = new /\ UNCHANGED store /\ behind' = behind \cup {c}
        /\ torn' = IF old.torn THEN torn \cup {c} ELSE torn \ {c}
        /\ journal'[c] = old.journal /\ config'[c] = old.config
        /\ \A d \in Clis \ {c} : journal'[d] = journal[d] /\ config'[d] = config[d]
    BY <1>9, <2>1, <2>2, <2>3 DEF Restore, TypeInv
  <2>5. \A d \in Clis : Settled(d, config[d])
    BY <2>4 DEF RenderInv, Idle
  <2>6. new.torn \/ Agree(new.journal, new.config)
    BY <2>2, <2>3, <2>5 DEF Captured, Settled
  <2>7. old.torn \/ Agree(old.journal, old.config)
    BY <2>1, <2>2 DEF RenderInv
  <2>8. \A d \in Clis : Settled(d, config[d])'
    BY <2>2, <2>3, <2>4, <2>5, <2>7 DEF Settled, Installed
  <2> QED  BY <2>4, <2>6, <2>8 DEF RenderInv, Idle
<1>10. CASE \/ NewRelease \/ UNCHANGED vars
            \/ \E c \in Clis : \E k \in Declarable[c] : DeclareKey(c, k)
            \/ \E m \in Models : ProviderChanges(m)
  <2>1. UNCHANGED <<journal, config, store, torn, behind, snap, run>>
    BY <1>10 DEF NewRelease, DeclareKey, ProviderChanges, disk, ghosts, vars
  <2> QED  BY <1>1, <2>1
<1>11. ASSUME NEW c \in Clis, Command(c) PROVE RenderInv'
  BY <1>2, <1>11, CommandStarts, BeginRenders
<1> QED  BY <1>3, <1>4, <1>5, <1>6, <1>7, <1>8, <1>9, <1>10, <1>11 DEF Next

(* Between commands the agents of a CLI are rendered from what its journal  *)
(* says and from the models the store says, through every failure that      *)
(* install undoes (cli.py:1002, 1054) and every restore; a death before the *)
(* journal is the exception, and for the models a failed save and a restore *)
(* too.                                                                    *)
THEOREM RenderedIsKept == Spec => []RenderedIsRecorded
<1>1. TypeInv /\ RenderInv => RenderedIsRecorded
  <2> SUFFICES ASSUME TypeInv, RenderInv, NEW c \in Clis, run = Idle, c \notin torn
               PROVE  /\ Agree(journal[c], config[c])
                      /\ Installed(c) /\ c \notin behind => Follows(c, config[c], store[c])
    BY DEF RenderedIsRecorded, Agree, Follows, Installed
  <2> QED  BY DEF RenderInv, Settled, Idle
<1> QED  BY <1>1, TypeInit, TypeNext, RenderInit, RenderNext, PTL DEF Spec

-----------------------------------------------------------------------------
(* What is rendered is what was meant.                                     *)

(* A command renders what install accepted, and in the configuration it     *)
(* places nothing else.                                                    *)
Renderable(cfg) ==
  /\ Accepted(Releases[cfg.release], cfg.chosen, cfg.granted)
  /\ cfg.directories \subseteq Directories
  /\ OneServerPerKey => Single(cfg.chosen)
RenderableInv == run.phase \in {"place", "record"} => Renderable(run.config)

LEMMA RendersAccepted ==
  ASSUME TypeInv, RecordInv, NEW c \in Clis, NEW op, NEW chosen, NEW keys, NEW dirs, NEW assigned,
         NEW saves, Starting(c, op, chosen, keys, dirs, assigned, saves),
         NEW cfg, cfg = Rendering(c, chosen, keys, dirs, assigned)
  PROVE  Renderable(cfg)
<1>1. /\ chosen \in Selections /\ keys \in SUBSET Keys /\ dirs \in SUBSET Directories
      /\ Acceptable(c, chosen, keys, dirs)
  BY DEF Starting, Begin
<1>2. /\ cfg.release = release /\ cfg.chosen = chosen /\ cfg.directories = dirs
      /\ cfg.granted = Kept(Selected(Rel, chosen), keys)
  BY DEF Rendering
<1>3. /\ Known(Rel, chosen) /\ Readable(chosen) /\ \A s \in DOMAIN chosen : chosen[s] \in Keys \cup {None}
      /\ keys \cap Malformed = {} /\ \E r \in DOMAIN Releases : Rel = Releases[r]
  BY <1>1, SelectionsAre DEF Acceptable, GrantRefused, Rel, TypeInv
<1>4. /\ cfg.granted \subseteq Keys \ Malformed
      /\ cfg.granted \cap PerAgentKeys(Selected(Rel, chosen)) = {}
  BY <1>1, <1>2, <1>3 DEF Kept, Collisions
<1>5. Accepted(Releases[cfg.release], cfg.chosen, cfg.granted)
  BY <1>2, <1>3, <1>4 DEF Accepted, Rel
<1>6. OneServerPerKey => Single(cfg.chosen)
  <2>1. PICK rec, was : rec = Recording(c, chosen, keys, dirs) /\ was = [chosen |-> chosen, clash |-> Clash(c, chosen)]
    OBVIOUS
  <2>2. Good(c, rec, was)
    BY <2>1, RecordsGood
  <2>3. was.chosen = chosen
    BY <2>1
  <2> QED  BY <1>2, <2>2, <2>3 DEF Good
<1> QED  BY <1>1, <1>2, <1>5, <1>6 DEF Renderable

LEMMA RenderableInit == Init => RenderableInv
BY DEF Init, Idle, RenderableInv

LEMMA RenderableNext == TypeInv /\ RecordInv /\ RenderableInv /\ [Next]_vars => RenderableInv'
<1> SUFFICES ASSUME TypeInv, RecordInv, RenderableInv, [Next]_vars PROVE RenderableInv'  OBVIOUS
<1>1. ASSUME NEW c \in Clis, NEW op, NEW chosen, NEW keys, NEW dirs, NEW assigned, NEW saves,
             Starting(c, op, chosen, keys, dirs, assigned, saves)
      PROVE  RenderableInv'
  <2>1. PICK cfg : cfg = Rendering(c, chosen, keys, dirs, assigned)
    OBVIOUS
  <2>2. Renderable(cfg)
    BY <1>1, <2>1, RendersAccepted
  <2>3. PICK rec, was : rec = Recording(c, chosen, keys, dirs) /\ was = [chosen |-> chosen, clash |-> Clash(c, chosen)]
    OBVIOUS
  <2>4. run' = [phase |-> "place", cli |-> c, op |-> op, saves |-> saves, assigned |-> assigned,
                journal |-> rec, config |-> cfg, asked |-> was]
    BY <1>1, <2>1, <2>3 DEF Starting, Begin
  <2>5. run'.config = cfg
    BY <2>4
  <2> QED  BY <2>2, <2>5 DEF RenderableInv
<1>2. ASSUME NEW c \in Clis, Command(c) PROVE RenderableInv'
  <2>1. Uninstall(c) => UNCHANGED run
    BY DEF Uninstall
  <2> QED  BY <1>1, <1>2, <2>1, CommandStarts DEF RenderableInv
<1>3. CASE Place
  <2>1. run \in Memory /\ run.phase = "place"
    BY <1>3, CommandRuns DEF Place
  <2>2. run'.config = run.config
    BY <1>3, <2>1, MemoryNext DEF Place
  <2> QED  BY <2>1, <2>2 DEF RenderableInv
<1>4. CASE Record
  <2>1. run \in Memory
    BY <1>4, CommandRuns DEF Record
  <2>2. run'.phase \notin {"place", "record"}
    BY <1>4, <2>1, MemoryNext DEF Record, Idle
  <2> QED  BY <2>2 DEF RenderableInv
<1>5. CASE Assign \/ PlaceFails \/ RecordFails \/ AssignFails \/ Crash
  BY <1>5 DEF Assign, PlaceFails, RecordFails, AssignFails, Crash, RenderableInv, Idle
<1>6. CASE \/ Restore \/ NewRelease \/ UNCHANGED vars
           \/ \E c \in Clis : \E k \in Declarable[c] : DeclareKey(c, k)
           \/ \E m \in Models : ProviderChanges(m)
  BY <1>6 DEF Restore, NewRelease, DeclareKey, ProviderChanges, vars, RenderableInv
<1> QED  BY <1>2, <1>3, <1>4, <1>5, <1>6 DEF Next

(* What every table a command writes comes to, for what install accepted.   *)
LEMMA RendersIntended ==
  ASSUME NEW c \in Clis, NEW cfg, Renderable(cfg), OneServerPerKey,
         NEW content, content = Rendered(cfg)
  PROVE  /\ \A a \in DOMAIN content.agents, k \in Keys, t \in Tools :
              /\ OpencodeAllows(content.agents[a], k, t) <=> Intended(cfg, a, k, t)
              /\ OpencodeShows(content.agents[a], k, t) <=> Intended(cfg, a, k, t)
              /\ ClaudeReaches(content, a, k, t) <=> Intended(cfg, a, k, t)
              /\ a \in Targets(content) => (TableReaches(content, a, k, t) <=> Intended(cfg, a, k, t))
         /\ LeaveIsAsked(content)
         /\ FloorHolds(c, content)
<1>1. PICK rel, chosen, granted, dirs :
        /\ rel = Releases[cfg.release] /\ chosen = cfg.chosen /\ granted = cfg.granted
        /\ dirs = cfg.directories
  OBVIOUS
<1>2. /\ Accepted(rel, chosen, granted) /\ Single(chosen) /\ dirs \subseteq Directories
      /\ content = Granted(Selected(rel, chosen), granted, dirs)
  BY <1>1 DEF Renderable, Rendered
<1>3. DOMAIN content.agents = Agents(rel)
  <2>1. granted \cap PerAgentKeys(Selected(rel, chosen)) = {}
    BY <1>2 DEF Accepted
  <2> QED  BY <1>2, <2>1, GrantedIs
<1>4. ASSUME NEW a \in Agents(rel), NEW k, NEW t
      PROVE  /\ OpencodeAllows(content.agents[a], k, t) <=> Intended(cfg, a, k, t)
             /\ OpencodeShows(content.agents[a], k, t) <=> Intended(cfg, a, k, t)
             /\ ClaudeReaches(content, a, k, t) <=> Intended(cfg, a, k, t)
             /\ TableReaches(content, a, k, t) <=> Intended(cfg, a, k, t)
  <2>1. PICK agent : agent = content.agents[a]
    OBVIOUS
  <2>2. Plain(agent) /\ (Holds(agent, k, t) <=> Means(rel, chosen, granted, a, k, t))
    BY <1>2, <2>1, AgentsArePlain, HoldsWhatIsMeant
  <2>3. /\ OpencodeAllows(agent, k, t) <=> Means(rel, chosen, granted, a, k, t)
        /\ OpencodeShows(agent, k, t) <=> Means(rel, chosen, granted, a, k, t)
    BY <2>2, PermissionIs, SwitchesAre
  <2>4. /\ ClaudeReaches(content, a, k, t) <=> Means(rel, chosen, granted, a, k, t)
        /\ TableReaches(content, a, k, t) <=> Means(rel, chosen, granted, a, k, t)
    BY <1>2, ClaudeReachesMeant, TableReachesMeant
  <2>5. Intended(cfg, a, k, t) <=> Means(rel, chosen, granted, a, k, t)
    BY <1>1 DEF Intended, Means, Bearers
  <2> QED  BY <2>1, <2>3, <2>4, <2>5
<1>5. LeaveIsAsked(content)
  <2>1. ASSUME NEW a \in Agents(rel), NEW agent, agent = content.agents[a]
        PROVE  /\ ~agent.primary => LastWins(Permission(agent), NativeCall("bash", "outward")) # "allow"
               /\ \A t \in {"read", "edit"} :
                    /\ LastWins(Permission(agent), NativeCall(t, "sensitive")) # "allow"
                    /\ ClaudeNative(agent, t, "sensitive") # "allow"
               /\ ClaudeNative(agent, "bash", "outward") # "allow"
    <3>1. Whatever \notin agent.tools
      BY <1>2, <2>1, AgentsArePlain DEF Plain
    <3> QED  BY <3>1, OutwardAsks, SensitiveAsks DEF ClaudeNative
  <2> QED  BY <1>3, <2>1 DEF LeaveIsAsked
<1>6. FloorHolds(c, content)
  <2>1. ASSUME NEW a \in Agents(rel), NEW agent, agent = content.agents[a], NEW d \in agent.directories,
               NEW file, file = Append(d, "file")
        PROVE  /\ ExternalDirectory(agent, Append(ConfigDir[c], "skills"), file) = "allow" <=> ~ Shadowed(d)
               /\ ClaudeFile(file, FALSE) = "deny" <=> Shadowed(d)
    <3>1. d \in Seq(STRING)
      BY <1>2, <2>1, AgentIs, Parameters
    <3> QED  BY <2>1, <3>1, FloorStands
  <2> QED  BY <1>3, <2>1 DEF FloorHolds
<1> QED  BY <1>3, <1>4, <1>5, <1>6

(* What a command has just placed lets every agent do, in either CLI, what  *)
(* was selected and granted and nothing else (select_mcp, grant_mcp and the *)
(* two render.py); an outward command or a sensitive file is never allowed  *)
(* unasked; and a granted directory is open unless it lies under the floor. *)
(* The user binds no two servers to one key: Claude Code would read the     *)
(* later one's withheld tools for both (_mcp_by_key, core/catalog.py).      *)
THEOREM RenderedIsIntended == OneServerPerKey => (Spec => []RenderedAsIntended)
<1>1. OneServerPerKey /\ TypeInv /\ RenderableInv => RenderedAsIntended
  <2> SUFFICES ASSUME OneServerPerKey, TypeInv, RenderableInv, run.phase = "record"
               PROVE  RenderedAsIntended
    BY DEF RenderedAsIntended
  <2>1. PICK c, cfg : c = run.cli /\ cfg = run.config
    OBVIOUS
  <2>2. c \in Clis /\ Renderable(cfg) /\ config[c] = cfg
    BY <2>1, CommandRuns, MemoryFields DEF TypeInv, RenderableInv
  <2>3. PICK content : content = Rendered(cfg)
    OBVIOUS
  <2> QED  BY <2>1, <2>2, <2>3, RendersIntended DEF RenderedAsIntended
<1>2. SUFFICES ASSUME OneServerPerKey PROVE Spec => []RenderedAsIntended
  OBVIOUS
<1>3. TypeInv /\ RenderableInv => RenderedAsIntended
  BY <1>1, <1>2
<1> QED  BY <1>3, TypeInit, TypeNext, RecordInit, RecordNext, RenderableInit, RenderableNext, PTL DEF Spec
=============================================================================
