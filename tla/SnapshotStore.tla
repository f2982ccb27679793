----------------------------- MODULE SnapshotStore -----------------------------
(***************************************************************************)
(* Snapshot generations as folders on disk (infra/snapshot_store_file.py)  *)
(* and the life of a command around them (cli.install, uninstall and       *)
(* restore): capture what is about to be touched, save it blob by blob     *)
(* with the manifest last, do the work, retain the newest generations.     *)
(* There is no lock between processes; a process can die and a write can   *)
(* fail at every step.                                                     *)
(*                                                                         *)
(* What the work writes is left open here: any content at any path the     *)
(* command captured. File modes are part of the content.                   *)
(***************************************************************************)
EXTENDS Naturals, Sequences, FiniteSets

CONSTANTS
  Paths,     \* addresses a command may touch, the journal's among them
  Content,   \* what a file may hold
  Absent,    \* nothing there
  Unwritten, \* a folder with no manifest
  Touches,   \* what a command may be about to touch: sequences of paths
  Commands,  \* processes that may run at the same time
  Keep,      \* RETAIN_GENERATIONS
  Breaks,    \* what may go wrong: "write", "crash", "rmtree"
  MaxGen, MaxFaults   \* bounds on the instance TLC explores

Held == Content \cup {Absent}

Entry == [path: Paths, existed: BOOLEAN]

ASSUME Parameters ==
  /\ Absent \notin Content
  /\ Unwritten \notin Seq(Entry)
  /\ \A t \in Touches :
       /\ t \in Seq(Paths) /\ t # << >>
       /\ \A i, j \in DOMAIN t : t[i] = t[j] => i = j
  /\ Keep \in Nat \ {0}
  /\ Breaks \subseteq {"write", "crash", "rmtree"}
  /\ {MaxGen, MaxFaults} \subseteq Nat

VARIABLES
  file,     \* what every path holds
  folders,  \* claimed generation -> [blobs: index -> content, manifest]
  cmd,      \* what every command has in memory
  taken,    \* ghost: generation -> the captures its manifest finished
  last,     \* ghost: the generation of the last command that got to work
  faults    \* bound

vars == <<file, folders, cmd, taken, last, faults>>

(* pc: how far; gen: its own generation, holding caps; from and back: the  *)
(* generation being restored and its manifest; at: the next index.         *)
Idle == [pc |-> "idle", gen |-> 0, caps |-> << >>, from |-> 0, back |-> << >>,
         at |-> 1, doomed |-> {}]

-----------------------------------------------------------------------------
(* Reading the store.                                                      *)

Claimed  == DOMAIN folders
Readable == {g \in Claimed : folders[g].manifest # Unwritten}
Newest(S) == IF S = {} THEN 0 ELSE CHOOSE g \in S : \A h \in S : h <= g

(* Broken: a folder without a manifest does not hold its number; the first *)
(* free number is taken; or the highest is taken again.                    *)
CountsManifests == Newest(Readable) + 1
FirstFree == CHOOSE g \in 1..(MaxGen + 1) :
               g \notin Claimed /\ \A h \in 1..(g - 1) : h \in Claimed
NotPlusOne == Newest(Claimed)

(* _next_generation: the highest any folder has claimed, plus one.         *)
NextGeneration == Newest(Claimed) + 1

(* read and read_blob: blob i is the i-th capture's, when it existed.      *)
HasBlob(g, i) == g \in Claimed /\ i \in DOMAIN folders[g].blobs
Readback(g) ==
  LET m == folders[g].manifest IN
  [i \in DOMAIN m |->
     [path |-> m[i].path,
      held |-> IF m[i].existed THEN folders[g].blobs[i] ELSE Absent]]
IsWhole(g) ==
  \A i \in DOMAIN folders[g].manifest :
    folders[g].manifest[i].existed => HasBlob(g, i)

(* Broken: takes the newest for the oldest.                                *)
DropsNewest ==
  {g \in Claimed : Cardinality({h \in Claimed : h < g}) >= Keep}

(* retain: every claimed folder beyond the newest Keep.                    *)
Doomed == {g \in Claimed : Cardinality({h \in Claimed : h > g}) >= Keep}

-----------------------------------------------------------------------------
Init ==
  /\ file \in [Paths -> Held]
  /\ folders = << >>
  /\ cmd = [c \in Commands |-> Idle]
  /\ taken = << >> /\ last = 0
  /\ faults = 0

Fails(kind) == kind \in Breaks /\ faults < MaxFaults /\ faults' = faults + 1

(* capture_paths: every path as it stands, absent ones included.           *)
Captured(touched) ==
  [i \in DOMAIN touched |-> [path |-> touched[i], held |-> file[touched[i]]]]

(* An install, an update or an uninstall is about to touch these paths.    *)
Begin(c, touched) ==
  /\ cmd[c].pc = "idle"
  /\ cmd' = [cmd EXCEPT ![c].pc = "number", ![c].caps = Captured(touched)]
  /\ UNCHANGED <<file, folders, taken, last, faults>>

(* restore, of a generation resolved before its own is saved: it touches   *)
(* what that generation holds.                                             *)
BeginRestore(c, g) ==
  LET m == folders[g].manifest IN
  /\ cmd[c].pc = "idle" /\ g \in Readable
  /\ cmd' = [cmd EXCEPT ![c].pc = "number", ![c].from = g, ![c].back = m,
                        ![c].caps = Captured([i \in DOMAIN m |-> m[i].path])]
  /\ UNCHANGED <<file, folders, taken, last, faults>>

(* save, step by step: the number, the folder, a blob at a time.           *)
Number(c) ==
  /\ cmd[c].pc = "number" /\ NextGeneration <= MaxGen
  /\ cmd' = [cmd EXCEPT ![c].pc = "folder", ![c].gen = NextGeneration]
  /\ UNCHANGED <<file, folders, taken, last, faults>>

Folder(g) == IF g \in Claimed THEN folders[g]
             ELSE [blobs |-> << >>, manifest |-> Unwritten]
Placed(g, folder) == [h \in Claimed \cup {g} |-> IF h = g THEN folder ELSE folders[h]]

MakeFolder(c) ==
  LET g == cmd[c].gen IN
  /\ cmd[c].pc = "folder"
  /\ folders' = Placed(g, Folder(g))
  /\ cmd' = [cmd EXCEPT ![c].pc = "blobs"]
  /\ UNCHANGED <<file, taken, last, faults>>

WithBlob(blobs, i, content) ==
  [j \in DOMAIN blobs \cup {i} |-> IF j = i THEN content ELSE blobs[j]]

WriteBlob(c) ==
  LET g == cmd[c].gen
      i == cmd[c].at
      held == cmd[c].caps[i].held
  IN
  /\ cmd[c].pc = "blobs" /\ i \in DOMAIN cmd[c].caps
  /\ folders' = IF held = Absent THEN folders
                ELSE Placed(g, [Folder(g) EXCEPT !.blobs = WithBlob(@, i, held)])
  /\ cmd' = [cmd EXCEPT ![c].at = i + 1]
  /\ UNCHANGED <<file, taken, last, faults>>

ManifestOf(caps) ==
  [i \in DOMAIN caps |-> [path |-> caps[i].path, existed |-> caps[i].held # Absent]]

BlobsWritten(c) == cmd[c].at \notin DOMAIN cmd[c].caps

(* The manifest last: from here on the generation is readable, and the     *)
(* command may touch what it captured.                                     *)
WriteManifest(c) ==
  LET g == cmd[c].gen IN
  /\ cmd[c].pc = "blobs" /\ BlobsWritten(c)
  /\ folders' = Placed(g, [Folder(g) EXCEPT !.manifest = ManifestOf(cmd[c].caps)])
  /\ cmd' = [cmd EXCEPT ![c].pc = IF cmd[c].from = 0 THEN "work" ELSE "restore",
                        ![c].at = 1]
  /\ taken' = [h \in DOMAIN taken \cup {g} |-> IF h = g THEN cmd[c].caps ELSE taken[h]]
  /\ last' = g
  /\ UNCHANGED <<file, faults>>

(* Any write of save may fail: the command stops, having touched nothing,  *)
(* and leaves the folder as it is. A write of the manifest that fails once *)
(* it is in place (_fsync_directory) is what WorkFails leaves before the   *)
(* first change.                                                           *)
SaveFails(c) ==
  /\ cmd[c].pc \in {"number", "folder", "blobs"} /\ Fails("write")
  /\ cmd' = [cmd EXCEPT ![c] = Idle]
  /\ UNCHANGED <<file, folders, taken, last>>

-----------------------------------------------------------------------------
(* The command's own work.                                                 *)

(* An install or an uninstall writes, removes or leaves one path after     *)
(* another.                                                                *)
WorkOn(c) ==
  LET i == cmd[c].at IN
  /\ cmd[c].pc = "work" /\ i \in DOMAIN cmd[c].caps
  /\ \E v \in Held : file' = [file EXCEPT ![cmd[c].caps[i].path] = v]
  /\ cmd' = [cmd EXCEPT ![c].at = i + 1]
  /\ UNCHANGED <<folders, taken, last, faults>>

(* Broken: leaves a file that was not there before.                        *)
OverwritesOnly(e, blob) ==
  file' = IF e.existed THEN [file EXCEPT ![e.path] = blob] ELSE file

(* One entry of a manifest put back: its blob written, or its path         *)
(* removed.                                                                *)
PutBack(e, blob) ==
  file' = [file EXCEPT ![e.path] = IF e.existed THEN blob ELSE Absent]

RestoreEntry(c) ==
  LET g == cmd[c].from
      i == cmd[c].at
      e == cmd[c].back[i]
  IN
  /\ cmd[c].pc = "restore" /\ i \in DOMAIN cmd[c].back
  /\ e.existed => HasBlob(g, i)
  /\ PutBack(e, IF e.existed THEN folders[g].blobs[i] ELSE Absent)
  /\ cmd' = [cmd EXCEPT ![c].at = i + 1]
  /\ UNCHANGED <<folders, taken, last, faults>>

(* A blob that cannot be read stops a restore half way, as a failed write  *)
(* stops any command, with no retention; what was changed stays.           *)
BlobLost(c) ==
  LET i == cmd[c].at IN
  /\ cmd[c].pc = "restore" /\ i \in DOMAIN cmd[c].back
  /\ cmd[c].back[i].existed /\ ~HasBlob(cmd[c].from, i)
  /\ cmd' = [cmd EXCEPT ![c] = Idle]
  /\ UNCHANGED <<file, folders, taken, last, faults>>

WorkFails(c) ==
  /\ cmd[c].pc \in {"work", "restore"} /\ Fails("write")
  /\ cmd' = [cmd EXCEPT ![c] = Idle]
  /\ UNCHANGED <<file, folders, taken, last>>

-----------------------------------------------------------------------------
(* Retention, once the command has succeeded.                              *)

StartRetain(c) ==
  /\ cmd[c].pc \in {"work", "restore"} /\ cmd[c].at \notin DOMAIN cmd[c].caps
  /\ cmd' = [cmd EXCEPT ![c].pc = "retain", ![c].doomed = Doomed]
  /\ UNCHANGED <<file, folders, taken, last, faults>>

Without(g) == [h \in Claimed \ {g} |-> folders[h]]
Oldest(c) == CHOOSE g \in cmd[c].doomed : \A h \in cmd[c].doomed : g <= h

RemoveFolder(c) ==
  /\ cmd[c].pc = "retain" /\ cmd[c].doomed # {}
  /\ folders' = Without(Oldest(c))
  /\ cmd' = [cmd EXCEPT ![c].doomed = @ \ {Oldest(c)}]
  /\ UNCHANGED <<file, taken, last, faults>>

(* A folder that cannot be removed is reported and passed over.            *)
RemoveFails(c) ==
  /\ cmd[c].pc = "retain" /\ cmd[c].doomed # {} /\ Fails("write")
  /\ cmd' = [cmd EXCEPT ![c].doomed = @ \ {Oldest(c)}]
  /\ UNCHANGED <<file, folders, taken, last>>

(* rmtree removes a folder's files in no order it promises, and may fail   *)
(* or die with some of them gone.                                          *)
RemoveBreaks(c) ==
  LET g == Oldest(c) IN
  /\ cmd[c].pc = "retain" /\ cmd[c].doomed # {} /\ Fails("rmtree")
  /\ g \in Claimed
  /\ \E kept \in SUBSET DOMAIN folders[g].blobs, m \in {Unwritten, folders[g].manifest} :
       folders' = [folders EXCEPT ![g] =
         [blobs |-> [i \in kept |-> folders[g].blobs[i]], manifest |-> m]]
  /\ cmd' = [cmd EXCEPT ![c].doomed = @ \ {g}]
  /\ UNCHANGED <<file, taken, last>>

Finish(c) ==
  /\ cmd[c].pc = "retain" /\ cmd[c].doomed = {}
  /\ cmd' = [cmd EXCEPT ![c] = Idle]
  /\ UNCHANGED <<file, folders, taken, last, faults>>

(* The process dies: the disk stays as it is.                              *)
Crash(c) ==
  /\ cmd[c].pc # "idle" /\ Fails("crash")
  /\ cmd' = [cmd EXCEPT ![c] = Idle]
  /\ UNCHANGED <<file, folders, taken, last>>

Saves(c) == Number(c) \/ MakeFolder(c) \/ WriteBlob(c) \/ WriteManifest(c)
Works(c) == WorkOn(c) \/ RestoreEntry(c)
Retains(c) == StartRetain(c) \/ RemoveFolder(c) \/ Finish(c)
Errs(c) ==
  \/ SaveFails(c) \/ WorkFails(c) \/ BlobLost(c)
  \/ RemoveFails(c) \/ RemoveBreaks(c) \/ Crash(c)

Next ==
  \E c \in Commands :
    \/ \E touched \in Touches : Begin(c, touched)
    \/ \E g \in Readable : BeginRestore(c, g)
    \/ Saves(c) \/ Works(c) \/ Retains(c) \/ Errs(c)

Spec == Init /\ [][Next]_vars

-----------------------------------------------------------------------------
(* Properties.                                                             *)

Capture == [path: Paths, held: Held]

(* Every variable holds what the code's types let it hold.                 *)
TypeOK ==
  /\ file \in [Paths -> Held]
  /\ Claimed \subseteq 1..MaxGen
  /\ \A g \in Claimed :
       /\ folders[g].manifest = Unwritten \/ folders[g].manifest \in Seq(Entry)
       /\ \A i \in DOMAIN folders[g].blobs : folders[g].blobs[i] \in Content
  /\ \A c \in Commands :
       /\ cmd[c].pc \in {"idle", "number", "folder", "blobs", "work", "restore", "retain"}
       /\ cmd[c].gen \in 0..MaxGen /\ cmd[c].from \in 0..MaxGen
       /\ cmd[c].caps \in Seq(Capture) /\ cmd[c].back \in Seq(Entry)
       /\ cmd[c].at \in 1..(Len(cmd[c].caps) + 1)
       /\ cmd[c].doomed \subseteq 1..MaxGen
  /\ \A g \in DOMAIN taken : g \in 1..MaxGen /\ taken[g] \in Seq(Capture)
  /\ last \in 0..MaxGen
  /\ faults \in 0..MaxFaults

AtWork(c) == cmd[c].pc \in {"work", "restore", "retain"}
AllIdle == \A c \in Commands : cmd[c].pc = "idle"

(* "asked for by number, a generation is either whole or an error"         *)
(* (ports/snapshot_store.py:22), of every generation retention has no      *)
(* business with, which a removal that broke half way can never have come  *)
(* to: it gives back what its command captured, whatever died or failed.   *)
(* And the one a save fills holds that command's captures and nothing of   *)
(* what an attempt that died left there (_next_generation's docstring).    *)
Exact(g) == IsWhole(g) /\ Readback(g) = taken[g]
RecentWhole ==
  /\ \A g \in Readable \ Doomed : Exact(g)
  /\ \A c \in Commands :
       cmd[c].pc = "blobs" =>
         /\ folders[cmd[c].gen].manifest = Unwritten
         /\ \A i \in DOMAIN folders[cmd[c].gen].blobs :
              i < cmd[c].at /\ folders[cmd[c].gen].blobs[i] = cmd[c].caps[i].held

(* Nothing is touched without a copy taken first, and retention does not   *)
(* take it away from the command that is using it: a command at work can   *)
(* be undone from its own generation.                                      *)
Undoable ==
  \A c \in Commands :
    AtWork(c) => /\ cmd[c].gen \in Readable /\ IsWhole(cmd[c].gen)
                 /\ Readback(cmd[c].gen) = cmd[c].caps

(* restore with no argument undoes the last command that touched anything, *)
(* however many attempts died after it and whatever retention removed.     *)
LastUndoable == AllIdle /\ last # 0 => last = Newest(Readable)

(* A restore that gets to its end has put back exactly what its generation *)
(* captured: contents where there were, nothing where there was nothing.   *)
RestoreIsExact ==
  [][\A c \in Commands :
       cmd[c].pc = "restore" /\ cmd'[c].pc = "retain" =>
         \A i \in DOMAIN taken[cmd[c].from] :
           LET e == taken[cmd[c].from][i] IN file[e.path] = e.held]_vars

(* The store and its commands implement the log, of the generations that   *)
(* are whole: one appears under a higher number before anything it covers  *)
(* changes, never changes, and the newest never goes.                      *)
Whole == {g \in Readable : IsWhole(g)}
PathsOf(caps) == {caps[i].path : i \in DOMAIN caps}
HeldBy(caps, p) == (CHOOSE e \in {caps[i] : i \in DOMAIN caps} : e.path = p).held
LogBar  == [g \in Whole |-> [p \in PathsOf(Readback(g)) |-> HeldBy(Readback(g), p)]]
OpenBar == Newest({0} \cup {cmd[c].gen : c \in {d \in Commands : cmd[d].pc \in {"work", "restore"}}})
Log == INSTANCE Snapshots WITH
  Numbers <- 1..MaxGen,
  Touches <- {{t[i] : i \in DOMAIN t} : t \in Touches},
  log  <- LogBar,
  open <- OpenBar
ImplementsLog == Log!Spec

=============================================================================
