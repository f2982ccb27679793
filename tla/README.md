# DARQ in TLA+

DARQ installs prompts, agents, skills and MCP servers into OpenCode and Claude
Code. It writes into a home that belongs to somebody else, so its whole worth is
in what it promises about that home: it only adds, it undoes what it could not
finish, it takes back only what it put there, any command can be undone, and
what an agent may do is what its user selected and granted. Nothing locks the
home, the journal or the snapshots; a process can be killed and a write can fail
at every step. These modules say what those promises mean, check them on small
instances with TLC and prove some of them for every instance with TLAPS.

Paths below are relative to `src/darq/` unless they begin with another folder.

## The system

| Part | State it keeps | Operations | Talks to |
|---|---|---|---|
| Placement engine (`core/planner.py`, `pointer.py`, `ownership.py`) | none between runs; in memory the plan, what it created, what it can put back, what it recorded | `plan`, `apply` (with `_undo`), `retire`, `unplace` | called by `cli.install` and `cli.uninstall`; the file system |
| Journal (`core/journal.py`, `infra/journal_store_file.py`) | one file: per CLI, the records of everything placed, bound and granted | `load`, `with_install`, `without_install`, `save` | read at the start of a command, saved almost last |
| Snapshots (`core/snapshot.py`, `infra/snapshot_store_file.py`) | one folder per generation: blobs, then a manifest | `save`, `read`, `read_blob`, `most_recent_readable`, `retain` | before a command writes; `restore`; retention at the end of a command |
| Downloaded servers (`core/dependencies.py`, `cli.py` 1957-2262) | `<server>/<version>` folders shared by every CLI | `materialize`, keep, retire, `prune` | between snapshot and `apply`; after the journal |
| Commands (`cli.py`) | none | `install`/`update`, `uninstall`, `restore`, `upgrade`, `models`, `mcp`, `dir`, `doctor`, `repair` | all of the above, in one order |
| Selections, grants, model assignments (`core/content.py`, `core/model_assignments.py`) | the journal's records of them; an assignment store of its own | `mcp grant`/`revoke`, the directory grants, `models set`/`unset`/`apply`, and what every update rebuilds | narrow what the adapters render; each of them is an update |
| Content and CLI adapters (`core/content.py`, `adapters/*/render.py`) | none | load, select, render permissions, tool switches and the delegation table | feed artifacts to the engine |
| Upgrade and update check (`core/upgrade.py`, `cli.py` 1386-1758) | the binary; a cache file with an answer, a failure and their times | `check_for_update`, `upgrade` | the release server; the TUI's background thread |
| TUI (`tui/`) | a navigator (screens, cursors, selections), two holders shared with threads | a key loop, an install worker, an update-check thread, Ctrl-C | `cli` |
| Plugins shipped to OpenCode (`adapters/opencode/assets/plugins`) | maps in another program's process: variables and their values, sessions known and sub-agents | hooks of messages, tools and commands; session events | OpenCode's event loop; the engram server |

What is hard in it:

* **Partial failure.** An install is a snapshot, downloads, file writes, document
  writes, removals, the journal, the assignments, pruning and retention. Each of
  them can fail, each failure has its own rollback, and the rollbacks know
  different things: `apply` holds earlier contents in memory, `unplace` knows
  which of its records replaced something, `_undo_dependencies` only what was
  fetched.
* **Claims that move.** A record answers to an artifact by id, by address or, for
  list items, by value. Releases rename ids, change contents and drop artifacts.
* **Death.** A command that dies leaves placed files without records, a folder
  without a manifest, or half of a tree.
* **Sharing.** Every CLI has its own records and configuration and runs servers
  from the same folders. Old versions are pruned when nobody uses them, but a
  restore may need them again.
* **Staleness.** The plan is made before servers are downloaded; the user edits
  in between. A screen shows what was so before a command.
* **Rules that overlap.** Each CLI has its own language of permissions, in which
  order or specificity decides; the same selection must mean the same in both.
* **Threads and processes.** The install and the update check run beside the
  interface; two interfaces share one binary and one cache; a release is built
  again between two requests of one upgrade.
* **Events out of order.** A plugin is told of a session after, before or between
  the messages of it, and is forgetful: a restart empties it.

`PROJECT.json` lists these hazards at their lines, with the properties that watch
each of them, and says of the others why nothing does yet.

## Modules

### The home and what is written into it

`Planner` is the engine under `cli.install` and `cli.uninstall`, for one CLI.
`home` is the disk, `journal` the records; `steps`, `todo`, `created`,
`restorable` and `records` are `Plan` and the locals of `apply`; `retiring` and
`gone` those of `retire`. `phase` says how far the command got:

    idle -Plan-> planned -StartApply-> apply -StartRetire-> retire -Save-> idle
                                          |                    |
                                       undone <-ApplyFails  rolledback <-RetireFails, SaveFails

`ApplyFile` and `ApplyDoc` are the two loops of `apply` (one write per file, one
write per document with all of its keys), `RetireDoc` and `RetireFile` those of
`retire`. `UndoFails` is an undo and `RollbackFails` a rollback that cannot put
everything back, `Crash` a process that dies. `UserEdits` is the user at the keyboard between commands,
`UserEditsInWindow` while servers are being downloaded. A list in a document is
the set of its items; content, digest and mode are one value, because the code
always compares and writes them together. `earned` is a ghost: the addresses
where darq itself put what is there. `before` is the home the plan saw.

`SnapshotStore` is the generations on disk and the life of a command around them:
`Begin` captures, `Number`, `MakeFolder`, `WriteBlob` and `WriteManifest` are
`FileSnapshotStore.save`, `WorkOn` is whatever an install or an uninstall does to
the paths it captured, `RestoreEntry` is one iteration of the loop of
`cli.restore`, and `StartRetain`, `RemoveFolder` and `Finish` are `retain`.
`SaveFails`, `WorkFails`, `BlobLost`, `RemoveFails`, `RemoveBreaks` and `Crash`
are every way out of that. `taken` and `last` are ghosts.

`Snapshots` is what the store promises, with no folders in it: an immutable log
of what paths held, one entry written before a command changes anything, and a
command that changes only what its entry could put back. `SnapshotStore`
implements it: its generations that have a manifest and all of their blobs are
the log. Its action `Drop` may never take the newest entry; that is where
retention could go wrong.

`SharedTrees` follows the downloaded servers through the commands. A CLI's
configuration is abstracted to the set of trees its servers run from (`Planner`
has the detail of writing it), a snapshot to what it says about configuration,
journal and absent trees (`SnapshotStore` has the detail of storing it, and
there a restore is entry by entry while here it is one step). `Install` is
`cli.install` up to its snapshot; `Fetch`, `Apply`, `RetireKeys`, `RetireTree`,
`Save` and `Prune` are what follows, in the code's order; `Uninstall` enters at
`RetireKeys`; `NewRelease` is darq itself replaced by a release that pins other
versions. `FetchFails`, `ApplyFails`, `RetireFails`, `SaveFails`, `PruneFails`
and `Crash` are the failures, each with the rollback the code gives it. The
constant `Setups` says which selections, uninstalls, restores and failures come
together in one behaviour; a behaviour picks one of them and keeps it. `was`, in
a snapshot, `last`, `strays` and `died` are ghosts; `strays` are the servers of
which a death, a failed `apply` or a failing removal left a tree.

### What is selected, granted and rendered

`ShippedContent` is a release as `core/content.py` loads it (which servers reach
which agents, what is withheld, who delegates to whom), what `load` refuses, and
how `select_mcp`, `grant_mcp` and the directory grants narrow it for one install.
It is all operators.

`Permissions` is what the adapters make of that. For OpenCode the permission
table and the tool switches, each an ordered list of rules of which the last that
matches wins (`LastWins`); for Claude Code the servers an agent names, the tools
it is denied and the settings shared by every agent; and the table in which a
delegator is told what its targets reach. Patterns and calls are records, not
strings.

`Grants` is the commands over them. `journal` and `store` are what is on disk,
`config` what the agents were last rendered from, `run` what a command has in
memory: `place`, `record` and, for the commands about models, `assign`. `Install`,
`InstallBare`, `Update`, `ModelsSet`, `ModelsUnset`, `ModelsApply`, `McpGrant`,
`McpRevoke`, `DirectoryGrant` and `DirectoryRevoke` all end in `Begin`, which is
`cli.install` up to its snapshot; all but the first two rebuild the selection from
the record first (`Selection`, that is `_mcp_update_selection`). `Place`, `Record`
and `Assign` are the three writes, each of which may fail, with a crash between
any two. `Uninstall` and `Restore` leave the store of assignments alone, as the
code does. `DeclareKey`, `NewRelease` and `ProviderChanges` are the world outside.
`asked`, `torn` and `behind` are ghosts.

### The interface

`Navigator` is `tui/navigator.py`: a stack of screens, a cursor for each, and what
a key does to the top one when no engine is needed. It is all operators; a screen
is a record whose text is left out. `NavigatorAssumption` is what
`core/model_catalog.py` 85-94 makes of the catalogue: no id twice, no provider
without a model.

`Tui` is `tui/session.py` and `tui/app.py`: what `session.step` makes of a key
that needs the engine, and the loop around it. `Key` and `NoKey` are one turn of
`_main_loop`, which folds in the answer of the update check first (`Merged`);
`StartInstall`, `WorkerEnds`, `WorkerBreaks`, `FinishInstall` and `JoinsWorker`
are the install and its thread; `CheckAnswers` is the other thread; `Interrupt` is
Ctrl-C wherever the main thread waits; `LeaveLoop` and `Exit` are the way out of
`run`. The engine is one step here: a command does what it was asked or fails,
with or without the generation it takes first.

### The binary, and what runs in another program

`Upgrade` is `check_for_update` and `upgrade` in several processes over one binary
and one cache, each process with the version and the clock it was started with.
`Launch`, `CheckAnswers` and `CheckFails` are the check; `BeginUpgrade`,
`FetchChecksum`, `FetchBinary`, `Replace` and `GiveUp` are an upgrade, one request
at a time; `Quit` ends a process and whatever it was doing. `Named`, `Uploaded`
and `Corrupted` are the server: the latest release moves in either direction, a
release is built again with checksum and bytes replaced one after the other, and
what is served may be damaged. `vouched`, `answered`, `failed` and `crossed` are
ghosts.

`Plugins` is `secret-transport.ts` and `engram.ts` in one OpenCode process.
`nameOf` is the transport's map of values to variables and when each was registered; `known`,
`subs` and `posting` are engram's sessions. A text is what there is in it to find,
and what follows each find (its tail): a value may have another in it (`Inside`),
of which the one registered first is replaced (`First`), and a variable is read
together with the name characters that follow it (`Reads`). One call
runs its hooks in the order the plugins were loaded (`TransportChat`,
`TransportTool`, `EngramHook`, `Post`), interrupted only where engram waits for
its server; `Registered` and `RegistrationFails` answer, `Created` and `Deleted`
are events, delivered whenever OpenCode does, and `Restart` empties both plugins.

`MCPlanner`, `MCSnapshotStore`, `MCSharedTrees`, `MCGrants`, `MCTui`, `MCUpgrade`
and `MCPlugins` give the constants small values. `PlannerProofs`,
`SnapshotStoreProofs`, `SharedTreesProofs`, `GrantsProofs` (over
`PermissionsProofs`), `TuiProofs`, `UpgradeProofs` and `PluginsProofs` hold the
theorems. A definition commented `Broken` is a plausible bug in the definition
after it, and exists so that a property can be seen to fail.

## Runs

Runs are bounded by `MaxRuns`, `MaxCommands`, `MaxGen` and the like, so a
behaviour may stop anywhere: `CHECK_DEADLOCK FALSE`.

| Run | What it shows | Bounds and why they are enough |
|---|---|---|
| `planner` | `UsersContentKept`: no step removes or changes what darq did not put there. `ApplyAllOrNothing`, `RollbackUndoesThisRun`: a failure before or after `apply` leaves the home as it was. `NoOrphans`: what darq put there is claimed. `JournalClaimsOnlyEarned`, `JournalTrue`: the journal says neither more nor other than the disk. `UnparseableLeftAlone`. | 2 files and 1 document with 1 key and 1 list: a file step before and after the one that fails, and a document after both. 4 releases: contents change, an artifact appears, one disappears, all ids are renamed, a key and an item change value under one id. 3 runs, so that what a run left is changed by a second and retired by a third; 2 edits; 2 faults, because an undo or a rollback that fails is two. |
| `planner_window` | What still holds when the user edits between plan and apply and a write may fail after its rename. | 1 edit and 1 fault, 3 runs. |
| `snapshots` | `Undoable`: a command at work has its own generation, whole. `LastUndoable`: the newest readable generation is the last command's, whatever died or was retained. `RecentWhole`: the generations retention keeps hold their own captures, all of them. `RestoreIsExact`. `ImplementsLog`: the refinement to `Snapshots`. | 2 paths, one of them in every capture like the journal; 4 generation numbers with `Keep` = 2, so that retention removes a folder twice and a restore reads a generation older than the newest; 1 fault of any kind at any step. One value of content besides none: a restore either puts it back or removes it. |
| `trees` | `ServersRunnable`: what is configured is on disk. `TreesAccounted`: nothing else is, except the version last replaced. `RestoreUndoes`, `OneStepBack`: one restore gives back configuration, journal and trees as they were, and the binary they run. | Two setups. One CLI with 2 servers of which every release moves one, uninstalled or not, with 1 failure of any kind but a rollback; two CLIs that share a server, with 2 failures that leave its folder alone. 3 releases and 5 commands: install, update, update, restore, update is the longest path on which a pruned version can be missed. |
| `trees_fails` | `TreesAccounted` with whatever fails: downloads, `apply`, rollbacks after a failed retirement or save, removals and prunes, and deaths, with any selection and restores of restores. Where a failure left a tree (`strays`), it is asked again once a command that manages that server has pruned. | 2 servers, so that one is accounted for while the other is not; 2 releases; 4 commands, so that a failure is followed by a command that prunes and by another; 2 faults. |
| `grants` | `RenderedAsIntended`: what either CLI lets an agent do is what was selected and granted. `SelectionRoundTrip`: what an update rebuilds from the record is what was asked for. `ListedIsGrantable`: where something is installed, what is listed can be granted. `RenderedIsRecorded`, `KeptUntilRevoked`. | A CLI that writes server keys and one that does not; 2 agents, of which one delegates; 2 servers, chosen, bound or not; a key of the user's own, one named like a server, one that is malformed. 2 releases: the second drops a server, withholds a tool, and has fewer agents reach what is left. 3 commands: something is granted, something else changes, it is all rebuilt; 2 edits, 1 failure. |
| `tui` | `ScreensHold`: every screen has its cursor on a row, and one made from the machine when it was opened is true whenever it is on top. `AnswerKept`, `WorkerJoined`. `ShownIsDone`: a plan that runs does what it showed, a report says what did happen, what is staged is what is stored, and nothing is installed where nothing was but by an install's plan or a restore. `EverythingEnds`. | Every screen there is, for 2 CLIs of which one cannot have models per agent and was installed before bindings were recorded. 2 models, of which one has effort levels, and 2 grantable keys, so that one is granted while the other is revoked and either fails. 2 commands, 1 failure, 1 Ctrl-C. |
| `upgrade` | `ReplacedSafely`: only published bytes land, and no process replaces a binary by one provably older than itself. `AsksSparingly`: checks that do not overlap lose nothing and repeat nothing early. | 2 processes (symmetric), 3 versions of which one has no numbers and is unsafe, 2 builds of each, 3 hours or server events, times to live of 2 and 1: one answer and one failure can both be fresh, or either. |
| `plugins` | `VariablesKeepTheirValue`: a variable that no name character follows expands to the one value it replaced, and one without a value is warned about. `EngramHoldsWhatItShould`: no value that was known or given away is posted, no sub-agent it was told of is registered, and a post is refused only while or after a registration is. | 2 values that suggest one name, of which one begins with the other and `_2`; a root session and a sub-agent's; texts with a value in context, a bare one, a letter or `_2` right after a value or a variable, a value over the cap, one that quotes the warning. Both plugin orders. 2 calls, 1 trouble: a restart or a failed registration. |

`tui` is the run with liveness: the answer about a newer release is shown without
a key being pressed, an install is over at some time, and Quit and Ctrl-C end the
program. The fairness it assumes is weak, and of these actions only: the two
threads (a thread runs; every request they make has a time limit, and so does
every command they run), `NoKey` (`getch` returns by itself as long as a time
limit is set, which is what `TimesOut` says), and the main thread's own steps once
they can be taken (`FinishInstall`, `JoinsWorker`, `LeaveLoop`, `Exit`). Nothing
is asked of the user. The other runs are safety: a command is a sequential program
that waits for nobody.

Three runs end in a violation, and each shows that the code and something the
repository says of it disagree (`PROJECT.json`, "findings"):

* `v_unparseable`: a document that stops parsing between plan and apply makes
  `apply` raise past its own undo.
* `v_shared`: uninstalling from one CLI removes the trees of another.
* `v_rollback`: the rollback of an install removes trees it had kept.

The passing runs leave out exactly what those show, through their constants:
`planner` has no edit in the window; where `trees` has two CLIs it has no uninstall
and no clean-up of a folder, and it has no rollback after `apply`.

## Known disagreements

What else the code does that a document, a comment or a neighbouring function says
otherwise. No run stands for them; the properties are stated around them.

* A generation whose removal breaks half way keeps its manifest and loses blobs
  (`infra/fs_posix.py:223`), so it is listed and cannot be read back, against
  `ports/snapshot_store.py:22`. `RecentWhole` is what does hold: the generations
  retention keeps are whole.
* Retention ranks folders that never got a manifest
  (`infra/snapshot_store_file.py:232`), so that with enough commands that died it
  removes generations that could be restored. `docs/arquitectura/arquitectura.md:1076`
  says that retention ignores such a folder.
* `cli.py:2026` says that one `restore` still finds its binary. Deselecting a server
  removes the tree that restore would need: `_stale_dependencies` (`cli.py:2075`)
  retires it before the pruning that would keep it. `OneStepBack` is checked where
  the selection does not shrink.
* `mcp list` says that what it offers and what `mcp grant` accepts can never drift
  apart (`cli.py:2831`). It offers any key the user's settings declare
  (`cli.py:2876`), and a grant also refuses one that `_SERVER_KEY` does not match
  (`core/content.py:790`). `ListedIsGrantable` is checked with keys declared that do
  match; one that does not can still be asked for. And where nothing is installed it
  offers every declared key (`cli.py:2854-2879`), all of which a grant refuses
  (`cli.py:2741`, `tests/test_cli_mcp.py:145`): `ListedIsGrantable` is about CLIs in
  which something is installed.
* The submenus of the main menu are made once, before the loop
  (`tui/navigator.py:1267-1283`, `tui/app.py:490-503`), and are come back to after an
  install or an uninstall: Update, Grant and Uninstall go on naming a CLI that is
  gone, and do not name a new one. Their comments say that a choice that can only
  fail is not offered (`tui/navigator.py:1028-1031`, `1089-1093`). `ScreensHold` is about
  the screens made from the machine when they are opened, which includes whatever
  such an entry leads to; `ShownIsDone` says that none of it brings an installation
  back.
* On the screen of models, a Confirm that fails is said to leave what was staged and
  to show the refusal (`tui/navigator.py:641-645`). The screen is made again with
  neither (`tui/session.py:664-689`). `ShownIsDone` speaks of what was stored.
* A variable is read together with what follows it. `redactKnownValues` replaces a
  value wherever it is, in the middle of a word too (`secret-transport.ts:438-445`;
  case 21 of `tests/fixtures/secret_transport_harness.mjs` glues one to letters):
  with `postgres` known, `postgres_2` becomes `$DARQ_SECRET_PASSWORD_2`, which is the
  variable of another value or of none, and of a longer value that has a known one
  in it the rest stays in the text. The note says that a shell command expands the
  variables (line 448). The warning about unknown variables reads a name up to a
  lower-case letter (line 515), where a shell reads on. `VariablesKeepTheirValue` is
  about variables that no name character follows.
* A second Ctrl-C leaves the join that waits for the install
  (`tui/app.py:308-327`), and the worker dies with the process. `WorkerJoined` is
  about one.
* The notice above the main menu "can never recommend `Update` for an installation
  that would refuse it" (`tui/session.py:154`). It asks for unresolved bindings
  only, and before the first frame: an update is also refused when the release no
  longer ships a recorded server, or once the CLI was uninstalled.

Other behaviours the models contain, and the runs' constants leave out, because the
properties do not hold of them: two processes that save at once share a generation
number (`Commands` with two members: `Undoable`); a file created between plan and
apply is written over (`Window` with `"file"`: `UsersContentKept`); a created file
stays when its directory cannot be synced (`LateErrors`: `ApplyAllOrNothing`); an
artifact that keeps its id and moves to another path leaves its old file
(`NoOrphans`); an item whose new value another item had before leaves its own old
value in the list (`NoOrphans`); a hand-added item that a later release renders as
the new value of an id of darq's is taken over (`HandItems` with such a value:
`UsersContentKept`); and a tree of which a removal left a part is kept (`"rmtree"` in
a setup's failures: `ServersRunnable`; run `trees_fails` has them). The manual itself says that a restore
further back than one update may need an update after it.

Some properties name an exception instead. A key of the user's by the name of a
shipped server leaves a record nothing can be rebuilt from (`SelectionRoundTrip`).
After a command that died, or failed or was undone about the assignments, these and
what is rendered differ (`RenderedIsRecorded`). Two processes of different versions
may leave the older of two releases on disk (`ReplacedSafely` compares with the
process's own). A check that fails writes back what it had read, over what another
learned meanwhile (`AsksSparingly` is about checks that do not overlap). A session
whose registration failed is never registered again (`EngramHoldsWhatItShould`).

## Proofs

Every invariant and every action property a passing run checks is proved, for
every value of the constants; what needs fairness is not. The theorems rest on
the modules' own assumptions about their constants (`Parameters`, `Disjoint` and
the like: kinds of values are different things, tables have the domains they
should, bounds are numbers), which TLC evaluates on every run. Some need more,
and say so in their `ASSUME`; each such hypothesis is a definition with a
comment, and what happens without it is under "Known disagreements" or among the
hazards of `PROJECT.json`. The runs' constants satisfy them, with the two
exceptions named below.

### The home

`PlannerProofs` proves all eight properties of `Planner`. Two arguments carry them.

The first follows the *claims* (an address, or an item of a list). `Agree` says
that two homes hold the same at a claim. `PlacedAgrees` says that applying a plan
changes what its steps claim and what the items it updates claimed before;
`TakenOutAgrees`, that retiring or unplacing takes out what the records claim;
nothing else changes. `RunInv` then says, at every moment of a run, how far the
disk is: in `apply`, each path is as the plan saw it or as the plan wants it; in
`retire`, it is as planned without what was retired so far.

* `JournalHonest` (`JournalClaimsOnlyEarned`). `_merged` records what the run
  placed and what it found already right, so `JournalInv` adds that whatever a run
  is about to record is earned already or answers to a record the journal had
  (`UnchangedIsClaimed`). It asks that an item keeps its value while it keeps its
  id (`StableItems`): an item found in place is ours only if its record is about
  that item. `HonestWhereItemsChange` is the same without that, for undisturbed
  runs and `NotByHand`.
* `Types` (`TypeOK`). The content is in the rollbacks: what `Undone` and `Unplaced`
  write back is real earlier content, never the placeholder for a path nothing
  was held for.
* `AllOrNothing` (`ApplyAllOrNothing`), for undisturbed runs (`Undisturbed`: nobody
  edits between plan and apply, and no write fails after its rename). `UndoInv`:
  at every moment of `apply` the undo would give back the home the plan saw.
* `UnparseableStays` (`UnparseableLeftAlone`), with no hypothesis. `ParsedInv`: what
  a rollback would write back into a document parsed when it was read.
* `RollbackIsExact` (`RollbackUndoesThisRun`), if nobody edits between plan and
  apply. `RolledBack` works out path by path what `unplace` leaves: what was
  there, less what had been retired.
* `JournalIsTrue` (`JournalTrue`). `RecordInv`: the journal never holds two records
  of one id or of one claim. `KeptApart` asks that no item of a release has the
  value another of its items ever has: where one takes over the value another
  gives up, it is found already right and recorded, and the update of the other
  then takes it away.
* `UsersKeepTheirs` (`UsersContentKept`). `ClaimedInv`: all a run has recorded or
  found already right is ours. `NotByHand` asks that nobody adds by hand a value
  that an item changes to, which would be taken for it (`core/planner.py:495`).
* `NothingOrphaned` (`NoOrphans`). `OwnedInv`: until a run dies or fails to undo
  itself, what darq earned is claimed by the journal or about to be recorded;
  `ApartInv`: no item that is recorded and there has a value another such item
  takes in some release, since an item whose new value is found in the list is
  recorded as it is and its old one is forgotten. `StableAddresses` (an id keeps
  its place, `core/planner.py:405`), `NotByHand` and `KeptApart` are each needed.

The releases of run `planner` satisfy all of these but `StableItems`, those of
`planner_window` that one too.

`SnapshotStoreProofs` proves all of `SnapshotStore`: `StoreTypes` for any number
of commands at a time, and `RecentGenerationsWhole`, `WorkUndoable`,
`LastCommandUndoable`, `RestoresExactly` and the refinement `StoreImplementsLog`
for one command at a time (`OneAtATime`; with two, they write into one folder).
`Inv` has three parts. `DiskInv`: a manifest says what its command captured, and
only what retention gave up may have lost a blob. `LastInv`: the last command to
begin its work is the newest generation, and it is whole. `CommandInv`: how far
the command is says what its folder holds, that no generation is above it, and,
in a restore, how much was put back. Each step of the store is then one step of
`Snapshots` (`TakeStep` for the manifest, `ChangeStep`, `CloseStep`, `DropStep`) or
none that can be seen there (`QuietStep`, `FillStep`).

`SharedTreesProofs` proves `TreeTypes` and `RestoreIsUndo` (`RestoreUndoes`) for
every setup: `UndoInv` says that what the newest generation saw is what it holds
or has not changed, also after a command that died or was rolled back. `ServersRun`
(`ServersRunnable`) and `OneStepBackKept` (`OneStepBack`) ask that the setups fit
(`Fits`): nothing is rolled back (finding `v_rollback`), only an install is undone,
two CLIs neither uninstall nor deselect nor clean up a shared folder (finding
`v_shared`, `core/dependencies.py:378`), a command may die only if nobody
uninstalls or deselects, and an install is undone only if nobody deselects
(`cli.py:2075`). `RunnableInv` relates each CLI's configuration to its record, the
record to the trees, and what the newest generation can give back to both. The
second setup of run `trees` fits. The first does not, since it has both an uninstall
and a death: an uninstall that died leaves trees recorded that are gone, a second
death while they are fetched again leaves one of them partial, and
`_kept_dependency` (`cli.py:1983`) would keep it. Its one fault is not enough for
that, so TLC finds no violation, but no invariant without a count of faults shows it.

`NothingPilesUp` (`TreesAccounted`) is for any selections, uninstalls, failures,
deaths and rollbacks, with two hypotheses. `Forward`: no release takes back a version that an
earlier one gave up; with pins v1, v2, v1 a tree the journal no longer records is
found on disk again as the one the release wants. `NewestOnly`: only the newest
generation is restored; an older one brings back records of another time without
the trees of that time being known. The runs satisfy both, and TLC finds
`TreesAccounted` violated without either. `AccountInv` says that a tree on disk of a
server not in `strays` is recorded, or another version of a recorded server that
some install replaced; that the same would hold of the records
the newest generation gives back; and, while a command runs, which trees are still
to be fetched, retired or pruned before it holds again (`FetchingSo`, `RetiringSo`,
`PruningSo`).

### What is selected, granted and rendered

`PermissionsProofs` holds the lemmas: the last rule that matches decides
(`LastWinsAt`), and each table comes to the same, that an agent reaches a tool just
if it holds the key and the tool is not withheld from it (`ClaudeReachesMeant`,
`TableReachesMeant`, `HoldsWhatIsMeant`), with everything outward and sensitive
asked about (`OutwardAsks`, `SensitiveAsks`, `FloorStands`).

`GrantsProofs` proves every property of `Grants`, for any releases, CLIs, keys,
directories and models:

* `GrantTypes` (`TypeOK`).
* `GrantsKept` (`KeptUntilRevoked`). `RunInv`: from the moment a command begins, the
  record it will write gives up no more than what it revokes; `BeginKeeps` is that
  for one command, and every command is an instance of it.
* `SelectionKept` (`SelectionRoundTrip`). `RecordInv`: every record there is, in the
  journal, in the generation and in the command under way, rebuilds the selection
  it was made from, and what it names may be asked for again.
* `OfferedIsGrantable` (`ListedIsGrantable`), for a CLI in which something is
  installed, where the user declares keys darq can read (`Readables`).
* `RenderedIsKept` (`RenderedIsRecorded`). `RenderInv`: a command under way holds a
  record and a rendering that agree, and the generation it took the pair to go
  back to.
* `RenderedIsIntended` (`RenderedAsIntended`), where no two servers are bound to one
  key (`OneServerPerKey`, `core/catalog.py:386`): what is rendered loads, so it is
  one of the selections the lemmas of `PermissionsProofs` are about.

### The interface, the binary and the plugins

`TuiProofs` proves every property of `Tui` but its liveness, for any CLIs, servers,
keys, models and installs, and any number of commands, failures and interrupts.

* `NothingAbandoned` (`WorkerJoined`). `JoinInv` says where the main thread is while
  the worker runs.
* `AnswerStays` (`AnswerKept`). The main menu stays at the bottom of the stack
  through every key, command and return (`OnMain`, with one lemma for each function
  of `Navigator`), and its notice says the answer once the check is over.
* `ScreensTell` (`ScreensHold`) and `TypesHold` (`TypeOK`). That a screen made from
  the machine is true when it is on top is not inductive: a return uncovers the one
  below it. `ScreensInv` says that every screen of the stack is one the code makes of
  the machine as it is now, or a menu made at the start (`Made`), unless a result is
  on top, whose only way on is the main menu. The write
  of models is the one command that goes on to another screen; `Layered` says that
  a screen of that wizard lies on fixed menus only, so nothing it leaves below
  became untrue. There is one lemma for each kind of screen, each move and each
  command (`McpOnScreen`, `GrantOnScreen`, `ModelsWriteOnScreen`, `StepOnScreen`). What
  the screens list is filtered by `Ordered`, of which `OrderedIs` and its like say that
  it selects: that needs an induction on how much was looked at, which is done once,
  by the least counterexample (`WFMin`).
* `WhatIsShownIsDone` (`ShownIsDone`), if the value for "no record" is not a record
  (`NoneIsNoRecord`). The plan on screen is one its builder made of the machine as it
  is, and the worker runs what the builder reads (`RunsAsPlanned`); staged models
  are stored row by row (`LandsAsStaged`); `BusyAsMerged` and `LandsAsShown` follow a
  key through the answer that is folded in first. `InstalledAsAsked`, `StaysUninstalled`
  and `OnlyPlanned` are for `OnlyAskedInstalls`: whatever an old menu leads to, only an
  install's own plan or a restore ends with an installation where there was none.

`UpgradeProofs` proves all three properties of `Upgrade`, for any number of
processes, versions, builds and hours.

* `Types`: with `CheckInv`, that a check holds the cache it read: a failure is
  added to it, so what is written again has an answer just when it has its time.
* `SafelyReplaced` (`ReplacedSafely`). `UpgradeInv` says of every phase what was
  already settled: the version is not older than the process, then it is safe and
  its checksum was vouched for, then so are the bytes. Others' steps keep it
  because what was vouched for stays so (`UpgradeKept`).
* `SparinglyAsked` (`AsksSparingly`). `LearnedInv`: as long as no two checks
  overlapped, the cache is what was last learned and missed, and the one check
  that may be asking read it as it still is.

`PluginsProofs` proves all of `Plugins`, for any finite set of values, any sessions
and texts, and either order of the plugins: `PluginTypes`, `VariablesKept` and
`EngramSafe`. `VariablesKept` is about a variable that no name character follows, and
about the warning where it does read as a variable. `SomeNameIsFree` counts: among one name more than there are values,
one is not taken, so `register` finds one. `Inv` says that what was put into a text is in
the transport's memory, that a message it has seen is explained, and of each
session what engram remembers at each moment of its life (`SessionInv`), its
events being delivered at any time.

### Left to TLC

* `EverythingEnds` of `Tui` is liveness under fairness, which is out of the prover's
  reach.
* The three runs that expect a violation show one behaviour each, which needs no
  proof.
* `ServersRunnable` and `OneStepBack` in setups that do not fit (the first setup of
  run `trees`): they hold there only because faults are counted.

## Not modelled

* `doctor` and `repair --dry-run` only read; the handshake of `doctor` starts one
  process, talks to it and stops it. Parsing of arguments, dry runs and reports.
* Parsing of TOML, Markdown and front matter, placeholders and prose: data handling
  a test reaches. The releases of `Planner` are any sets of artifacts; those of
  `Grants` are any that `load` accepts.
* Directories, and the pruning of those darq created (`core/planner.py` 973-1307);
  links; modes apart from contents; the journal's own format; a second process that
  writes the same journal.
* In the adapters, everything but what an agent may do. A server key that begins
  another key, whose patterns would overlap in OpenCode, and two servers bound to
  one key.
* In the interface, `tui/view.py`, the terminal and download progress. Uninstall,
  restore and grants run on the main thread and are one step there, which a Ctrl-C
  does not cut; what a command that dies leaves is the subject of the other modules.
* In `Upgrade`, a clock that is set back, and a copy of the program that cannot
  replace itself.
* The hooks of Claude Code, which keep nothing between calls; the two plugins that
  only report (`orchestrator-notifier.ts`, where the await at line 54 lets a later
  state be shown before an earlier one, and `zellij-state.ts`, which at 104-110
  clears a session that has another permission pending). In `Plugins`, a text
  written before a restart: its variables may be given to other values after it. Nor
  values that end with or overlap another one, that are in the name of a variable or
  of their own key (the first occurrence in the match is replaced), or whose suggested name ends in a
  number already; and a value that is detected a second time after a part of it was
  replaced.
* `install.sh` and `tools/` run at installation or build time.

## Plan

Done: `Planner`, `Snapshots` and `SnapshotStore`, `SharedTrees`; `Navigator` and
`Tui` with their liveness; `Upgrade`; `ShippedContent`, `Permissions` and `Grants`;
`Plugins`; the proofs above. Left, in order:

1. Proofs: `ServersRun` for an uninstall that may die once.
2. `Directories`: pruning after retire, with the registry of directories darq
   created; never a directory the user made.
3. `Command`: `Planner` on top of `SnapshotStore`, and two commands over one
   journal.
