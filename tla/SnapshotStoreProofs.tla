--------------------------- MODULE SnapshotStoreProofs ---------------------------
(***************************************************************************)
(* Theorems about SnapshotStore: for any paths, contents and bounds, any   *)
(* number of generations kept and any number of failures and crashes, when *)
(* one command runs at a time. Nothing in the code enforces that: two      *)
(* processes may claim one folder, and then the invariants do not hold.    *)
(***************************************************************************)
EXTENDS SnapshotStore, TLAPS, FiniteSetTheorems, WellFoundedInduction

OneAtATime == \A c, d \in Commands : c = d

Gens == 1..MaxGen
Phases == {"idle", "number", "folder", "blobs", "work", "restore", "retain"}

Memory == [pc: Phases, gen: 0..MaxGen, caps: Seq(Capture), from: 0..MaxGen,
           back: Seq(Entry), at: Nat \ {0}, doomed: SUBSET Gens]

(* A process's memory; a restore has as many captures as entries.          *)
WellFormed(k) ==
  /\ k.pc = "idle" => k = Idle
  /\ k.at <= Len(k.caps) + 1
  /\ k.from # 0 => Len(k.back) = Len(k.caps)
  /\ k.pc = "restore" => k.from # 0
  /\ k.pc \in {"folder", "blobs", "work", "restore"} => k.gen # 0
CmdType == cmd \in [Commands -> Memory] /\ \A c \in Commands : WellFormed(cmd[c])

Folders ==
  \A g \in Claimed :
    /\ folders[g] = [blobs |-> folders[g].blobs, manifest |-> folders[g].manifest]
    /\ folders[g].manifest \in Seq(Entry) \cup {Unwritten}
    /\ \A i \in DOMAIN folders[g].blobs : folders[g].blobs[i] \in Content

(* TypeOK, made inductive.                                                 *)
Types ==
  /\ CmdType /\ Folders
  /\ file \in [Paths -> Held]
  /\ Claimed \subseteq Gens
  /\ DOMAIN taken \subseteq Gens /\ \A g \in DOMAIN taken : taken[g] \in Seq(Capture)
  /\ last \in 0..MaxGen
  /\ faults \in 0..MaxFaults

-----------------------------------------------------------------------------
(* The captures of one of Touches.                                         *)
PathSeq(caps) == [i \in DOMAIN caps |-> caps[i].path]
Capturing(caps) == PathSeq(caps) \in Touches

Current(caps) == \A i \in DOMAIN caps : file[caps[i].path] = caps[i].held

(* On disk: a manifest says what its command captured, a blob that is      *)
(* there is that capture's, and only a generation retention has given up   *)
(* may have lost one.                                                      *)
Filed(g) ==
  /\ g \in DOMAIN taken /\ Capturing(taken[g])
  /\ folders[g].manifest = ManifestOf(taken[g])
  /\ \A i \in DOMAIN taken[g] :
       taken[g][i].held # Absent /\ HasBlob(g, i) => folders[g].blobs[i] = taken[g][i].held
DiskInv == \A g \in Readable : Filed(g) /\ (g \notin Doomed => IsWhole(g))

(* The last command to get to work is the newest generation.               *)
LastInv ==
  /\ \A g \in Readable : g <= last
  /\ last # 0 => last \in Readable /\ IsWhole(last)

Highest(g) == \A h \in Claimed : h <= g

(* How far the command is says what its own folder holds...                *)
Saving(c) ==
  LET k == cmd[c] IN
  /\ k.pc # "idle" => Capturing(k.caps)
  /\ k.pc \in {"number", "folder", "blobs"} => Current(k.caps) /\ k.doomed = {}
  /\ k.pc \in {"number", "folder"} => k.at = 1
  /\ k.pc = "folder" => k.gen \notin Claimed /\ Highest(k.gen)
  /\ k.pc = "blobs" =>
       /\ k.gen \in Claimed /\ Highest(k.gen) /\ folders[k.gen].manifest = Unwritten
       /\ \A i \in DOMAIN folders[k.gen].blobs :
            i < k.at /\ i \in DOMAIN k.caps /\ folders[k.gen].blobs[i] = k.caps[i].held
       /\ \A i \in DOMAIN k.caps :
            i < k.at /\ k.caps[i].held # Absent => i \in DOMAIN folders[k.gen].blobs
  /\ AtWork(c) => /\ k.gen = last /\ k.gen \in Readable /\ Highest(k.gen)
                  /\ taken[k.gen] = k.caps
  /\ k.pc \in {"work", "restore"} => k.doomed = {}
  /\ k.doomed \subseteq Doomed

(* ... and how much of another generation a restore has put back.          *)
Restoring(c) ==
  LET k == cmd[c] IN
  /\ k.pc \in {"number", "folder", "blobs", "restore"} /\ k.from # 0 =>
       /\ k.from \in Readable /\ k.back = folders[k.from].manifest
       /\ PathSeq(k.caps) = PathSeq(taken[k.from])
  /\ k.pc \in {"folder", "blobs"} => k.from # k.gen
  /\ k.pc = "restore" =>
       \A i \in DOMAIN taken[k.from] :
         i < k.at => file[taken[k.from][i].path] = taken[k.from][i].held

CommandInv == \A c \in Commands : Saving(c) /\ Restoring(c)

Inv == Types /\ DiskInv /\ LastInv /\ CommandInv

-----------------------------------------------------------------------------
(* Numbers and sets of them.                                               *)

LEMMA Bounds == MaxGen \in Nat /\ MaxFaults \in Nat /\ Keep \in Nat \ {0}
  BY Parameters

LEMMA LeastOf ==
  ASSUME NEW S \in SUBSET Nat, S # {}
  PROVE  \E g \in S : \A h \in S : g <= h
<1>1. PICK g \in S : \A h \in S : ~ (<<h, g>> \in OpToRel(<, Nat))
  BY WFMin, NatLessThanWellFounded, Zenon
<1>2. \A h \in S : ~ (h < g)
  BY <1>1, Zenon DEF OpToRel
<1> QED  BY <1>2

LEMMA GreatestOf ==
  ASSUME NEW S \in SUBSET Nat, S # {}, NEW m \in Nat, \A g \in S : g <= m
  PROVE  \E g \in S : \A h \in S : h <= g
<1> DEFINE T == {n \in Nat : m - n \in S}
<1>1. PICK g \in S : TRUE
  OBVIOUS
<1>2. m - g \in T
  BY <1>1
<1>3. PICK n \in T : \A h \in T : n <= h
  BY <1>2, LeastOf
<1>4. \A h \in S : m - h \in T
  OBVIOUS
<1>5. ASSUME NEW h \in S PROVE h <= m - n
  <2>1. n <= m - h /\ n \in Nat /\ h \in Nat
    BY <1>3, <1>4
  <2> QED  BY <2>1
<1> QED  BY <1>3, <1>5

LEMMA NewestIs ==
  ASSUME NEW S \in SUBSET (0..MaxGen), S # {}
  PROVE  Newest(S) \in S /\ \A h \in S : h <= Newest(S)
<1>1. \E g \in S : \A h \in S : h <= g
  <2>1. MaxGen \in Nat /\ \A g \in S : g <= MaxGen
    BY Parameters
  <2>2. S \in SUBSET Nat
    OBVIOUS
  <2> QED  BY <2>1, <2>2, GreatestOf
<1> QED  BY <1>1 DEF Newest

LEMMA NewestUnique ==
  ASSUME NEW S \in SUBSET (0..MaxGen), NEW g \in S, \A h \in S : h <= g
  PROVE  Newest(S) = g
<1>1. Newest(S) \in S /\ \A h \in S : h <= Newest(S)
  BY NewestIs
<1>2. Newest(S) <= g /\ g <= Newest(S)
  BY <1>1
<1>3. Newest(S) \in 0..MaxGen /\ g \in 0..MaxGen
  BY <1>1
<1>4. Newest(S) \in Nat /\ g \in Nat
  BY <1>3, Bounds
<1> QED  BY <1>2, <1>4

LEMMA NextIsAbove ==
  ASSUME Claimed \subseteq Gens
  PROVE  /\ NextGeneration \in Nat \ {0}
         /\ \A g \in Claimed : g < NextGeneration
<1>1. CASE Claimed = {}
  BY <1>1 DEF NextGeneration, Newest
<1>2. CASE Claimed # {}
  <2>1. Claimed \in SUBSET (0..MaxGen)
    BY Parameters DEF Gens
  <2>2. Newest(Claimed) \in Claimed /\ \A h \in Claimed : h <= Newest(Claimed)
    BY <1>2, <2>1, NewestIs
  <2>3. Newest(Claimed) \in 1..MaxGen /\ \A h \in Claimed : h \in 1..MaxGen
    BY <2>2 DEF Gens
  <2> QED  BY <2>2, <2>3, Bounds DEF NextGeneration
<1> QED  BY <1>1, <1>2

LEMMA OldestIs ==
  ASSUME NEW c \in Commands, cmd[c].doomed \subseteq Gens, cmd[c].doomed # {}
  PROVE  /\ Oldest(c) \in cmd[c].doomed
         /\ \A h \in cmd[c].doomed : Oldest(c) <= h
<1>1. cmd[c].doomed \in SUBSET Nat
  BY DEF Gens
<1> QED  BY <1>1, LeastOf DEF Oldest

(* Retention gives up nothing newer than what it has not given up, and a   *)
(* generation above every other never.                                     *)
Above(S, g) == {h \in S : h > g}

LEMMA AboveIsFinite ==
  ASSUME NEW S \in SUBSET Gens, NEW g
  PROVE  IsFiniteSet(Above(S, g)) /\ Cardinality(Above(S, g)) \in Nat
<1>1. IsFiniteSet(Gens)
  BY Parameters, FS_Interval DEF Gens
<1>2. Above(S, g) \in SUBSET Gens
  BY DEF Above
<1>3. IsFiniteSet(Above(S, g))
  BY <1>1, <1>2, FS_Subset
<1> QED  BY <1>3, FS_CardinalityType

LEMMA AboveGrows ==
  ASSUME NEW S \in SUBSET Gens, NEW T \in SUBSET Gens, NEW g, NEW h,
         Above(S, g) \subseteq Above(T, h)
  PROVE  Cardinality(Above(S, g)) <= Cardinality(Above(T, h))
<1>1. IsFiniteSet(Above(T, h)) /\ Above(S, g) \in SUBSET Above(T, h)
  BY AboveIsFinite
<1> QED  BY <1>1, FS_Subset

LEMMA HighestStays ==
  ASSUME Claimed \subseteq Gens, NEW g, Highest(g)
  PROVE  g \notin Doomed
<1> SUFFICES ASSUME g \in Doomed PROVE FALSE  OBVIOUS
<1>1. g \in Claimed /\ \A h \in Claimed : h \in Nat /\ h <= g
  BY DEF Highest, Doomed, Gens
<1>2. {h \in Claimed : h > g} = {}
  BY <1>1
<1>3. Cardinality({}) >= Keep
  BY <1>2 DEF Doomed
<1> QED  BY <1>3, FS_EmptySet, Parameters

-----------------------------------------------------------------------------
(* Types.                                                                  *)

LEMMA GensAre == Gens \subseteq 0..MaxGen /\ Gens \subseteq Nat \ {0} /\ 0 \in 0..MaxGen
  BY Bounds DEF Gens

LEMMA CaptureFields ==
  ASSUME NEW caps \in Seq(Capture), NEW i \in DOMAIN caps
  PROVE  /\ caps[i].path \in Paths /\ caps[i].held \in Held /\ i \in 1..Len(caps)
         /\ caps[i] = [path |-> caps[i].path, held |-> caps[i].held]
<1>1. caps[i] \in Capture /\ i \in 1..Len(caps)
  OBVIOUS
<1> QED  BY <1>1 DEF Capture

LEMMA IdleIsMemory == Idle \in Memory
  BY Bounds DEF Idle, Memory, Phases

LEMMA Remembered ==
  ASSUME CmdType, NEW c \in Commands, NEW k \in Memory, WellFormed(k),
         cmd' = [cmd EXCEPT ![c] = k]
  PROVE  CmdType' /\ cmd'[c] = k /\ \A d \in Commands \ {c} : cmd'[d] = cmd[d]
<1>1. cmd' \in [Commands -> Memory] /\ cmd'[c] = k
  BY DEF CmdType
<1>2. \A d \in Commands \ {c} : cmd'[d] = cmd[d]
  BY DEF CmdType
<1>3. \A d \in Commands : WellFormed(cmd'[d])
  BY <1>1, <1>2 DEF CmdType
<1> QED  BY <1>1, <1>2, <1>3 DEF CmdType, WellFormed

LEMMA IdleFields ==
  /\ Idle \in Memory /\ WellFormed(Idle)
  /\ Idle.pc = "idle" /\ Idle.gen = 0 /\ Idle.from = 0 /\ Idle.at = 1 /\ Idle.doomed = {}
  /\ Idle.caps = << >> /\ Idle.back = << >>
<1>1. /\ Idle.pc = "idle" /\ Idle.gen = 0 /\ Idle.from = 0 /\ Idle.at = 1 /\ Idle.doomed = {}
      /\ Idle.caps = << >> /\ Idle.back = << >>
  BY DEF Idle
<1>2. Len(<< >>) = 0
  OBVIOUS
<1> QED  BY <1>1, <1>2, IdleIsMemory DEF WellFormed

LEMMA TypesInit == Init => Types
<1> SUFFICES ASSUME Init PROVE Types  OBVIOUS
<1>1. CmdType
  BY IdleFields DEF Init, CmdType
<1>2. Claimed = {} /\ DOMAIN taken = {}
  BY DEF Init, Claimed
<1> QED  BY <1>1, <1>2, Bounds DEF Init, Types, Folders

(* A command that stops leaves nothing in memory.                          *)
LEMMA StopKeepsTypes ==
  ASSUME CmdType, NEW c \in Commands, cmd' = [cmd EXCEPT ![c] = Idle]
  PROVE  CmdType' /\ cmd'[c] = Idle /\ \A d \in Commands \ {c} : cmd'[d] = cmd[d]
  BY IdleFields, Remembered

LEMMA CapturedType ==
  ASSUME file \in [Paths -> Held], NEW t \in Seq(Paths)
  PROVE  /\ Captured(t) \in Seq(Capture) /\ Len(Captured(t)) = Len(t)
         /\ DOMAIN Captured(t) = DOMAIN t
<1>1. Len(t) \in Nat /\ DOMAIN t = 1..Len(t) /\ \A i \in DOMAIN t : t[i] \in Paths
  OBVIOUS
<1>2. \A i \in 1..Len(t) : [path |-> t[i], held |-> file[t[i]]] \in Capture
  BY <1>1 DEF Capture
<1>3. Captured(t) = [i \in 1..Len(t) |-> [path |-> t[i], held |-> file[t[i]]]]
  BY <1>1 DEF Captured
<1> QED  BY <1>1, <1>2, <1>3

LEMMA ManifestType ==
  ASSUME NEW caps \in Seq(Capture)
  PROVE  /\ ManifestOf(caps) \in Seq(Entry) /\ Len(ManifestOf(caps)) = Len(caps)
         /\ DOMAIN ManifestOf(caps) = DOMAIN caps /\ ManifestOf(caps) # Unwritten
<1>1. Len(caps) \in Nat /\ DOMAIN caps = 1..Len(caps) /\ \A i \in DOMAIN caps : caps[i] \in Capture
  OBVIOUS
<1>2. \A i \in 1..Len(caps) : [path |-> caps[i].path, existed |-> caps[i].held # Absent] \in Entry
  BY <1>1 DEF Capture, Entry
<1>3. ManifestOf(caps) =
        [i \in 1..Len(caps) |-> [path |-> caps[i].path, existed |-> caps[i].held # Absent]]
  BY <1>1 DEF ManifestOf
<1> QED  BY <1>1, <1>2, <1>3, Parameters

(* What a restore is about to touch.                                       *)
LEMMA PathsOfManifest ==
  ASSUME NEW m \in Seq(Entry)
  PROVE  /\ [i \in DOMAIN m |-> m[i].path] \in Seq(Paths)
         /\ Len([i \in DOMAIN m |-> m[i].path]) = Len(m)
<1>1. Len(m) \in Nat /\ DOMAIN m = 1..Len(m) /\ \A i \in DOMAIN m : m[i] \in Entry
  OBVIOUS
<1>2. \A i \in 1..Len(m) : m[i].path \in Paths
  BY <1>1 DEF Entry
<1>3. [i \in DOMAIN m |-> m[i].path] = [i \in 1..Len(m) |-> m[i].path]
  BY <1>1
<1> QED  BY <1>1, <1>2, <1>3

LEMMA FolderType ==
  ASSUME Folders, NEW g
  PROVE  /\ Folder(g) = [blobs |-> Folder(g).blobs, manifest |-> Folder(g).manifest]
         /\ Folder(g).manifest \in Seq(Entry) \cup {Unwritten}
         /\ \A i \in DOMAIN Folder(g).blobs : Folder(g).blobs[i] \in Content
<1>1. CASE g \in Claimed
  BY <1>1 DEF Folder, Folders
<1>2. CASE g \notin Claimed
  <2>1. Folder(g) = [blobs |-> << >>, manifest |-> Unwritten]
    BY <1>2 DEF Folder
  <2>2. DOMAIN << >> = {}
    OBVIOUS
  <2> QED  BY <2>1, <2>2
<1> QED  BY <1>1, <1>2

LEMMA PlacedType ==
  ASSUME Folders, Claimed \subseteq Gens, NEW g \in Gens, NEW blobs, NEW m,
         m \in Seq(Entry) \cup {Unwritten}, \A i \in DOMAIN blobs : blobs[i] \in Content,
         folders' = Placed(g, [blobs |-> blobs, manifest |-> m])
  PROVE  /\ Folders' /\ Claimed' = Claimed \cup {g}
         /\ folders'[g].blobs = blobs /\ folders'[g].manifest = m
         /\ \A h \in Claimed \ {g} : folders'[h] = folders[h]
<1> DEFINE f == [blobs |-> blobs, manifest |-> m]
<1>1. Claimed' = Claimed \cup {g}
  BY DEF Placed, Claimed
<1>2. \A h \in Claimed' : folders'[h] = IF h = g THEN f ELSE folders[h]
  BY <1>1 DEF Placed
<1>3. f.blobs = blobs /\ f.manifest = m /\ f = [blobs |-> f.blobs, manifest |-> f.manifest]
  OBVIOUS
<1> HIDE DEF f
<1>4. ASSUME NEW h \in Claimed'
      PROVE  /\ folders'[h] = [blobs |-> folders'[h].blobs, manifest |-> folders'[h].manifest]
             /\ folders'[h].manifest \in Seq(Entry) \cup {Unwritten}
             /\ \A i \in DOMAIN folders'[h].blobs : folders'[h].blobs[i] \in Content
  <2>1. CASE h = g
    BY <1>2, <1>3, <2>1
  <2>2. CASE h # g
    BY <1>1, <1>2, <2>2 DEF Folders
  <2> QED  BY <2>1, <2>2
<1> QED  BY <1>1, <1>2, <1>3, <1>4 DEF Folders

(* What a command keeps in memory stays a record of its fields.            *)
LEMMA MemoryIs ==
  ASSUME CmdType, NEW c \in Commands
  PROVE  /\ cmd[c] \in Memory /\ WellFormed(cmd[c])
         /\ cmd[c].pc \in Phases /\ cmd[c].gen \in 0..MaxGen /\ cmd[c].caps \in Seq(Capture)
         /\ cmd[c].from \in 0..MaxGen /\ cmd[c].back \in Seq(Entry) /\ cmd[c].at \in Nat \ {0}
         /\ cmd[c].doomed \in SUBSET Gens
         /\ Len(cmd[c].caps) \in Nat /\ DOMAIN cmd[c].caps = 1..Len(cmd[c].caps)
         /\ Len(cmd[c].back) \in Nat /\ DOMAIN cmd[c].back = 1..Len(cmd[c].back)
  BY DEF CmdType, Memory

LEMMA BeginTypes ==
  ASSUME Types, NEW c \in Commands, NEW t \in Touches, Begin(c, t)
  PROVE  Types' /\ cmd[c] = Idle
         /\ cmd'[c] = [Idle EXCEPT !.pc = "number", !.caps = Captured(t)]
<1> USE DEF Types
<1> DEFINE k == [Idle EXCEPT !.pc = "number", !.caps = Captured(t)]
<1>1. cmd[c] = Idle
  BY DEF CmdType, WellFormed, Begin
<1>2. Captured(t) \in Seq(Capture) /\ Len(Captured(t)) \in Nat
  BY Parameters, CapturedType
<1>3. k \in Memory
  BY <1>2, IdleIsMemory DEF Memory, Phases
<1>4. k.pc = "number" /\ k.caps = Captured(t) /\ k.from = 0 /\ k.at = 1
  BY DEF Idle
<1>5. WellFormed(k)
  BY <1>2, <1>4 DEF WellFormed
<1>6. cmd' = [cmd EXCEPT ![c] = k]
  BY <1>1, MemoryIs DEF Begin, Memory, CmdType
<1> HIDE DEF k
<1>7. CmdType' /\ cmd'[c] = k
  BY <1>3, <1>5, <1>6, Remembered
<1> QED  BY <1>1, <1>7 DEF k, Begin, Folders, Claimed

LEMMA BeginRestoreTypes ==
  ASSUME Types, NEW c \in Commands, NEW g \in Readable, BeginRestore(c, g)
  PROVE  /\ Types' /\ cmd[c] = Idle
         /\ cmd'[c] = [Idle EXCEPT !.pc = "number", !.from = g, !.back = folders[g].manifest,
                        !.caps = Captured([i \in DOMAIN folders[g].manifest |->
                                             folders[g].manifest[i].path])]
<1> USE DEF Types
<1> DEFINE m == folders[g].manifest
           ps == [i \in DOMAIN m |-> m[i].path]
           k == [Idle EXCEPT !.pc = "number", !.from = g, !.back = m, !.caps = Captured(ps)]
<1>1. cmd[c] = Idle
  BY DEF CmdType, WellFormed, BeginRestore
<1>2. m \in Seq(Entry) /\ g \in Gens
  BY DEF Readable, Folders
<1>3. ps \in Seq(Paths) /\ Len(ps) = Len(m)
  BY <1>2, PathsOfManifest
<1>4. Captured(ps) \in Seq(Capture) /\ Len(Captured(ps)) = Len(m) /\ Len(m) \in Nat
  BY <1>2, <1>3, CapturedType
<1>5. cmd' = [cmd EXCEPT ![c] = k]
  BY <1>1, MemoryIs DEF BeginRestore, Memory, CmdType
<1> HIDE DEF m, ps
<1>6. k \in Memory
  BY <1>2, <1>4, IdleIsMemory, GensAre DEF Memory, Phases
<1>7. k.pc = "number" /\ k.caps = Captured(ps) /\ k.back = m /\ k.at = 1
  BY DEF Idle
<1>8. WellFormed(k)
  BY <1>4, <1>7 DEF WellFormed
<1> HIDE DEF k
<1>9. CmdType' /\ cmd'[c] = k
  BY <1>5, <1>6, <1>8, Remembered
<1> QED  BY <1>1, <1>9 DEF k, m, ps, BeginRestore, Folders, Claimed

LEMMA NumberTypes ==
  ASSUME Types, NEW c \in Commands, Number(c)
  PROVE  /\ Types' /\ NextGeneration \in Gens
         /\ cmd'[c] = [cmd[c] EXCEPT !.pc = "folder", !.gen = NextGeneration]
<1> USE DEF Types
<1> DEFINE g == NextGeneration
           k == [cmd[c] EXCEPT !.pc = "folder", !.gen = g]
<1>1. g \in Gens
  BY NextIsAbove, Bounds DEF Number, Gens
<1>2. cmd[c] \in Memory /\ WellFormed(cmd[c])
  BY MemoryIs
<1>3. cmd' = [cmd EXCEPT ![c] = k]
  BY <1>2 DEF Number, CmdType
<1> HIDE DEF g
<1>4. /\ k \in Memory /\ k.pc = "folder" /\ k.gen = g /\ k.caps = cmd[c].caps
      /\ k.at = cmd[c].at /\ k.from = cmd[c].from /\ k.back = cmd[c].back
  BY <1>1, <1>2, GensAre DEF Memory, Phases
<1>5. WellFormed(k)
  BY <1>1, <1>2, <1>4, GensAre DEF WellFormed
<1> HIDE DEF k
<1>6. CmdType' /\ cmd'[c] = k
  BY <1>3, <1>4, <1>5, Remembered
<1> QED  BY <1>1, <1>6 DEF g, k, Number, Folders, Claimed

(* What a command that has a generation does to its folder.                *)
LEMMA GenIs ==
  ASSUME CmdType, NEW c \in Commands, cmd[c].pc \in {"folder", "blobs", "work", "restore"}
  PROVE  cmd[c].gen \in Gens
  BY MemoryIs, Bounds DEF WellFormed, Gens

LEMMA MakeFolderTypes ==
  ASSUME Types, NEW c \in Commands, MakeFolder(c)
  PROVE  /\ Types' /\ cmd[c].gen \in Gens
         /\ cmd'[c] = [cmd[c] EXCEPT !.pc = "blobs"]
<1> USE DEF Types
<1> DEFINE k == [cmd[c] EXCEPT !.pc = "blobs"]
<1>1. cmd[c].gen \in Gens /\ cmd[c].gen # 0
  BY GenIs, Bounds DEF MakeFolder, Gens
<1>2. cmd[c] \in Memory /\ WellFormed(cmd[c])
  BY MemoryIs
<1>3. cmd' = [cmd EXCEPT ![c] = k]
  BY <1>2 DEF MakeFolder, CmdType
<1>4. /\ k \in Memory /\ k.pc = "blobs" /\ k.gen = cmd[c].gen /\ k.caps = cmd[c].caps
      /\ k.at = cmd[c].at /\ k.from = cmd[c].from /\ k.back = cmd[c].back
  BY <1>2 DEF Memory, Phases
<1>5. CmdType' /\ cmd'[c] = k
  <2>1. WellFormed(k)
    BY <1>1, <1>2, <1>4 DEF WellFormed
  <2> QED  BY <1>3, <1>4, <2>1, Remembered
<1>6. Folders' /\ Claimed' = Claimed \cup {cmd[c].gen}
  BY <1>1, FolderType, PlacedType DEF MakeFolder
<1> QED  BY <1>1, <1>5, <1>6 DEF MakeFolder, k

LEMMA WriteBlobTypes ==
  ASSUME Types, NEW c \in Commands, WriteBlob(c)
  PROVE  /\ Types' /\ cmd[c].gen \in Gens
         /\ cmd'[c] = [cmd[c] EXCEPT !.at = cmd[c].at + 1]
<1> USE DEF Types
<1> DEFINE g == cmd[c].gen
           i == cmd[c].at
           held == cmd[c].caps[i].held
           k == [cmd[c] EXCEPT !.at = i + 1]
<1>1. g \in Gens /\ g # 0
  BY GenIs, Bounds DEF WriteBlob, Gens
<1>2. cmd[c] \in Memory /\ WellFormed(cmd[c])
  BY MemoryIs
<1>3. i \in 1..Len(cmd[c].caps) /\ held \in Held
  BY MemoryIs, CaptureFields DEF WriteBlob
<1>4. cmd' = [cmd EXCEPT ![c] = k]
  BY <1>2 DEF WriteBlob, CmdType
<1>5. /\ k \in Memory /\ k.pc = "blobs" /\ k.gen = cmd[c].gen /\ k.caps = cmd[c].caps
      /\ k.at = i + 1 /\ k.from = cmd[c].from /\ k.back = cmd[c].back
  <2> DEFINE j == i + 1
  <2>1. j \in Nat \ {0} /\ cmd[c].pc = "blobs"
    BY MemoryIs DEF WriteBlob
  <2>2. k = [cmd[c] EXCEPT !.at = j]
    OBVIOUS
  <2> HIDE DEF j, k
  <2>3. /\ k \in Memory /\ k.pc = "blobs" /\ k.gen = cmd[c].gen /\ k.caps = cmd[c].caps
        /\ k.at = j /\ k.from = cmd[c].from /\ k.back = cmd[c].back
    BY <1>2, <2>1, <2>2 DEF Memory
  <2> QED  BY <2>3 DEF j
<1>6. CmdType' /\ cmd'[c] = k
  <2>1. WellFormed(k)
    BY <1>1, <1>2, <1>3, <1>5, MemoryIs DEF WellFormed
  <2> QED  BY <1>4, <1>5, <2>1, Remembered
<1>7. Folders' /\ Claimed' \subseteq Gens
  <2>1. CASE held = Absent
    BY <2>1 DEF WriteBlob, Folders, Claimed
  <2>2. CASE held # Absent
    <3> DEFINE b == WithBlob(Folder(g).blobs, i, held)
    <3>1. held \in Content
      BY <1>3, <2>2 DEF Held
    <3>2. \A j \in DOMAIN b : b[j] \in Content
      BY <3>1, FolderType DEF WithBlob
    <3>3. folders' = Placed(g, [Folder(g) EXCEPT !.blobs = b])
      BY <2>2 DEF WriteBlob
    <3>4. [Folder(g) EXCEPT !.blobs = b] = [blobs |-> b, manifest |-> Folder(g).manifest]
      BY FolderType
    <3> HIDE DEF b
    <3>5. Folders' /\ Claimed' = Claimed \cup {g}
      BY <1>1, <3>2, <3>3, <3>4, FolderType, PlacedType
    <3> QED  BY <1>1, <3>5
  <2> QED  BY <2>1, <2>2
<1> QED  BY <1>1, <1>6, <1>7 DEF k, WriteBlob

LEMMA WriteManifestTypes ==
  ASSUME Types, NEW c \in Commands, WriteManifest(c)
  PROVE  /\ Types' /\ cmd[c].gen \in Gens /\ Claimed' = Claimed \cup {cmd[c].gen}
         /\ cmd'[c] = [cmd[c] EXCEPT !.pc = IF cmd[c].from = 0 THEN "work" ELSE "restore",
                                     !.at = 1]
         /\ folders'[cmd[c].gen].blobs = Folder(cmd[c].gen).blobs
         /\ folders'[cmd[c].gen].manifest = ManifestOf(cmd[c].caps)
         /\ \A h \in Claimed \ {cmd[c].gen} : folders'[h] = folders[h]
         /\ taken'[cmd[c].gen] = cmd[c].caps /\ last' = cmd[c].gen
         /\ DOMAIN taken' = DOMAIN taken \cup {cmd[c].gen}
         /\ \A h \in DOMAIN taken \ {cmd[c].gen} : taken'[h] = taken[h]
<1> USE DEF Types
<1> DEFINE g == cmd[c].gen
           pc == IF cmd[c].from = 0 THEN "work" ELSE "restore"
           k == [cmd[c] EXCEPT !.pc = pc, !.at = 1]
           m == ManifestOf(cmd[c].caps)
<1>1. g \in Gens /\ g # 0
  BY GenIs, GensAre DEF WriteManifest
<1>2. cmd[c] \in Memory /\ WellFormed(cmd[c])
  BY MemoryIs
<1>3. cmd' = [cmd EXCEPT ![c] = k]
  BY <1>2 DEF WriteManifest, CmdType
<1>4. pc \in Phases /\ (pc = "restore" => cmd[c].from # 0) /\ pc # "idle"
  BY DEF Phases
<1> HIDE DEF pc
<1>5. /\ k \in Memory /\ k.pc = pc /\ k.gen = cmd[c].gen /\ k.caps = cmd[c].caps
      /\ k.at = 1 /\ k.from = cmd[c].from /\ k.back = cmd[c].back
  <2>1. k = [cmd[c] EXCEPT !.pc = pc, !.at = 1]
    OBVIOUS
  <2>2. 1 \in Nat \ {0} /\ cmd[c] \in Memory /\ pc \in Phases
    BY <1>2, <1>4
  <2> HIDE DEF k
  <2> QED  BY <2>1, <2>2 DEF Memory
<1>6. WellFormed(k)
  BY <1>1, <1>2, <1>4, <1>5, MemoryIs DEF WellFormed
<1>7. CmdType' /\ cmd'[c] = k
  BY <1>3, <1>5, <1>6, Remembered
<1>8. m \in Seq(Entry)
  BY MemoryIs, ManifestType
<1>9. folders' = Placed(g, [blobs |-> Folder(g).blobs, manifest |-> m])
  <2>1. [Folder(g) EXCEPT !.manifest = m] = [blobs |-> Folder(g).blobs, manifest |-> m]
    BY FolderType
  <2> QED  BY <2>1 DEF WriteManifest
<1> HIDE DEF m
<1>10. /\ Folders' /\ Claimed' = Claimed \cup {g}
       /\ folders'[g].blobs = Folder(g).blobs /\ folders'[g].manifest = m
       /\ \A h \in Claimed \ {g} : folders'[h] = folders[h]
  BY <1>1, <1>8, <1>9, FolderType, PlacedType
<1>11. /\ DOMAIN taken' = DOMAIN taken \cup {g} /\ taken'[g] = cmd[c].caps
       /\ \A h \in DOMAIN taken \ {g} : taken'[h] = taken[h]
  BY DEF WriteManifest
<1>12. \A h \in DOMAIN taken' : taken'[h] \in Seq(Capture)
  BY <1>11, MemoryIs
<1>13. UNCHANGED <<file, faults>> /\ last' = g
  BY DEF WriteManifest
<1>14. Types'
  BY <1>1, <1>7, <1>10, <1>11, <1>12, <1>13, GensAre
<1> QED  BY <1>1, <1>7, <1>10, <1>11, <1>13, <1>14 DEF k, m, pc

LEMMA WorkTypes ==
  ASSUME Types, NEW c \in Commands, WorkOn(c) \/ RestoreEntry(c)
  PROVE  /\ Types' /\ cmd[c].at \in 1..Len(cmd[c].caps)
         /\ cmd'[c] = [cmd[c] EXCEPT !.at = cmd[c].at + 1]
<1> USE DEF Types
<1> DEFINE i == cmd[c].at
           k == [cmd[c] EXCEPT !.at = i + 1]
<1>1. cmd[c] \in Memory /\ WellFormed(cmd[c])
  BY MemoryIs
<1>2. i \in 1..Len(cmd[c].caps)
  <2>1. CASE WorkOn(c)
    BY <2>1, MemoryIs DEF WorkOn
  <2>2. CASE RestoreEntry(c)
    BY <1>1, <2>2, MemoryIs DEF RestoreEntry, WellFormed
  <2> QED  BY <2>1, <2>2
<1>3. cmd' = [cmd EXCEPT ![c] = k]
  BY <1>1 DEF WorkOn, RestoreEntry, CmdType
<1>4. /\ k \in Memory /\ k.pc = cmd[c].pc /\ k.gen = cmd[c].gen /\ k.caps = cmd[c].caps
      /\ k.at = i + 1 /\ k.from = cmd[c].from /\ k.back = cmd[c].back
  <2> DEFINE j == i + 1
  <2>1. j \in Nat \ {0} /\ k = [cmd[c] EXCEPT !.at = j]
    BY MemoryIs
  <2> HIDE DEF j, k
  <2>2. /\ k \in Memory /\ k.pc = cmd[c].pc /\ k.gen = cmd[c].gen /\ k.caps = cmd[c].caps
        /\ k.at = j /\ k.from = cmd[c].from /\ k.back = cmd[c].back
    BY <1>1, <2>1 DEF Memory
  <2> QED  BY <2>2 DEF j
<1>5. WellFormed(k)
  <2>1. cmd[c].pc # "idle"
    BY DEF WorkOn, RestoreEntry
  <2> QED  BY <1>1, <1>2, <1>4, <2>1, MemoryIs DEF WellFormed
<1>6. CmdType' /\ cmd'[c] = k
  BY <1>3, <1>4, <1>5, Remembered
<1>7. file' \in [Paths -> Held]
  <2>1. CASE WorkOn(c)
    BY <2>1 DEF WorkOn
  <2>2. CASE RestoreEntry(c)
    <3> DEFINE e == cmd[c].back[i]
               b == folders[cmd[c].from].blobs[i]
    <3>1. e.existed => b \in Content
      BY <2>2 DEF RestoreEntry, HasBlob, Folders
    <3>2. file' = [file EXCEPT ![e.path] = IF e.existed THEN b ELSE Absent]
      BY <2>2 DEF RestoreEntry, PutBack
    <3> HIDE DEF b
    <3>3. (IF e.existed THEN b ELSE Absent) \in Held
      BY <3>1 DEF Held
    <3> QED  BY <3>2, <3>3
  <2> QED  BY <2>1, <2>2
<1> QED  BY <1>2, <1>6, <1>7 DEF k, WorkOn, RestoreEntry, Folders, Claimed

LEMMA DoomedAreClaimed == Doomed \subseteq Claimed
  BY DEF Doomed

LEMMA StartRetainTypes ==
  ASSUME Types, NEW c \in Commands, StartRetain(c)
  PROVE  /\ Types'
         /\ cmd'[c] = [cmd[c] EXCEPT !.pc = "retain", !.doomed = Doomed]
<1> USE DEF Types
<1> DEFINE k == [cmd[c] EXCEPT !.pc = "retain", !.doomed = Doomed]
<1>1. cmd[c] \in Memory /\ WellFormed(cmd[c])
  BY MemoryIs
<1>2. cmd' = [cmd EXCEPT ![c] = k]
  BY <1>1 DEF StartRetain, CmdType
<1>3. Doomed \in SUBSET Gens
  BY DoomedAreClaimed
<1>4. /\ k \in Memory /\ k.pc = "retain" /\ k.gen = cmd[c].gen /\ k.caps = cmd[c].caps
      /\ k.at = cmd[c].at /\ k.from = cmd[c].from /\ k.back = cmd[c].back
  BY <1>1, <1>3 DEF Memory, Phases
<1>5. WellFormed(k)
  <2>1. cmd[c].pc # "idle"
    BY DEF StartRetain
  <2> QED  BY <1>1, <1>4, <2>1 DEF WellFormed
<1>6. CmdType' /\ cmd'[c] = k
  BY <1>2, <1>4, <1>5, Remembered
<1> QED  BY <1>6 DEF k, StartRetain, Folders, Claimed

Removes(c) == RemoveFolder(c) \/ RemoveFails(c) \/ RemoveBreaks(c)

LEMMA RemoveTypes ==
  ASSUME Types, NEW c \in Commands, Removes(c)
  PROVE  /\ Types' /\ Claimed' \subseteq Claimed
         /\ cmd'[c] = [cmd[c] EXCEPT !.doomed = cmd[c].doomed \ {Oldest(c)}]
         /\ Oldest(c) \in cmd[c].doomed /\ Oldest(c) \in Gens
         /\ \A h \in Claimed \ {Oldest(c)} : h \in Claimed' /\ folders'[h] = folders[h]
<1> USE DEF Types
<1> DEFINE g == Oldest(c)
           k == [cmd[c] EXCEPT !.doomed = cmd[c].doomed \ {g}]
<1>1. cmd[c] \in Memory /\ WellFormed(cmd[c]) /\ cmd[c].pc = "retain"
  BY MemoryIs DEF Removes, RemoveFolder, RemoveFails, RemoveBreaks
<1>2. g \in cmd[c].doomed /\ cmd[c].doomed \in SUBSET Gens
  BY MemoryIs, OldestIs DEF Removes, RemoveFolder, RemoveFails, RemoveBreaks
<1>3. cmd' = [cmd EXCEPT ![c] = k]
  BY <1>1 DEF Removes, RemoveFolder, RemoveFails, RemoveBreaks, CmdType
<1> HIDE DEF g
<1>4. /\ k \in Memory /\ k.pc = "retain" /\ k.gen = cmd[c].gen /\ k.caps = cmd[c].caps
      /\ k.at = cmd[c].at /\ k.from = cmd[c].from /\ k.back = cmd[c].back
  BY <1>1, <1>2 DEF Memory
<1>5. WellFormed(k)
  BY <1>1, <1>4 DEF WellFormed
<1>6. CmdType' /\ cmd'[c] = k
  BY <1>3, <1>4, <1>5, Remembered
<1>7. /\ Folders' /\ Claimed' \subseteq Claimed
      /\ \A h \in Claimed \ {g} : h \in Claimed' /\ folders'[h] = folders[h]
  <2>1. CASE RemoveFolder(c)
    <3>1. folders' = [h \in Claimed \ {g} |-> folders[h]]
      BY <2>1 DEF RemoveFolder, Without, g
    <3>2. Claimed' = Claimed \ {g} /\ \A h \in Claimed' : folders'[h] = folders[h]
      BY <3>1 DEF Claimed
    <3> QED  BY <3>2 DEF Folders
  <2>2. CASE RemoveFails(c)
    BY <2>2 DEF RemoveFails, Folders, Claimed
  <2>3. CASE RemoveBreaks(c)
    <3>1. PICK kept \in SUBSET DOMAIN folders[g].blobs, m \in {Unwritten, folders[g].manifest} :
            folders' = [folders EXCEPT ![g] =
              [blobs |-> [i \in kept |-> folders[g].blobs[i]], manifest |-> m]]
      BY <2>3 DEF RemoveBreaks, g
    <3> DEFINE b == [i \in kept |-> folders[g].blobs[i]]
    <3>2. g \in Claimed
      BY <2>3 DEF RemoveBreaks, g
    <3>3. m \in Seq(Entry) \cup {Unwritten} /\ \A i \in DOMAIN b : b[i] \in Content
      BY <3>2 DEF Folders
    <3>4. folders' = Placed(g, [blobs |-> b, manifest |-> m])
      BY <3>1, <3>2 DEF Placed, Claimed
    <3> HIDE DEF b
    <3>5. /\ Folders' /\ Claimed' = Claimed \cup {g}
          /\ \A h \in Claimed \ {g} : folders'[h] = folders[h]
      BY <1>2, <3>3, <3>4, PlacedType
    <3> QED  BY <3>2, <3>5
  <2> QED  BY <2>1, <2>2, <2>3 DEF Removes
<1>8. UNCHANGED <<file, taken, last>> /\ faults' \in 0..MaxFaults
  BY Bounds DEF Removes, RemoveFolder, RemoveFails, RemoveBreaks, Fails
<1> QED  BY <1>2, <1>6, <1>7, <1>8 DEF k, g

(* However a command ends, it leaves the disk as it is.                    *)
Stops(c) == SaveFails(c) \/ WorkFails(c) \/ BlobLost(c) \/ Finish(c) \/ Crash(c)

LEMMA StopTypes ==
  ASSUME Types, NEW c \in Commands, Stops(c)
  PROVE  /\ Types' /\ cmd'[c] = Idle
         /\ UNCHANGED <<file, folders, taken, last>>
<1> USE DEF Types
<1>1. cmd' = [cmd EXCEPT ![c] = Idle] /\ UNCHANGED <<file, folders, taken, last>>
  BY DEF Stops, SaveFails, WorkFails, BlobLost, Finish, Crash
<1>2. faults' \in 0..MaxFaults
  BY Bounds DEF Stops, SaveFails, WorkFails, BlobLost, Finish, Crash, Fails
<1>3. CmdType' /\ cmd'[c] = Idle
  BY <1>1, StopKeepsTypes
<1> QED  BY <1>1, <1>2, <1>3 DEF Folders, Claimed

(* Every step is one of these.                                             *)
LEMMA StepsAre ==
  ASSUME Next
  PROVE  \E c \in Commands :
           \/ \E t \in Touches : Begin(c, t)
           \/ \E g \in Readable : BeginRestore(c, g)
           \/ Number(c) \/ MakeFolder(c) \/ WriteBlob(c) \/ WriteManifest(c)
           \/ WorkOn(c) \/ RestoreEntry(c)
           \/ StartRetain(c) \/ Removes(c) \/ Stops(c)
  BY DEF Next, Saves, Works, Retains, Errs, Removes, Stops

LEMMA TypesNext == Types /\ [Next]_vars => Types'
<1> SUFFICES ASSUME Types, [Next]_vars PROVE Types'  OBVIOUS
<1>1. CASE UNCHANGED vars
  BY <1>1 DEF vars, Types, CmdType, Folders, Claimed
<1>2. CASE Next
  BY <1>2, StepsAre, BeginTypes, BeginRestoreTypes, NumberTypes, MakeFolderTypes,
     WriteBlobTypes, WriteManifestTypes, WorkTypes, StartRetainTypes, RemoveTypes, StopTypes
<1> QED  BY <1>1, <1>2

LEMMA TypesAre == Types => TypeOK
<1> SUFFICES ASSUME Types PROVE TypeOK  OBVIOUS
<1>1. ASSUME NEW c \in Commands
      PROVE  /\ cmd[c].pc \in {"idle", "number", "folder", "blobs", "work", "restore", "retain"}
             /\ cmd[c].gen \in 0..MaxGen /\ cmd[c].from \in 0..MaxGen
             /\ cmd[c].caps \in Seq(Capture) /\ cmd[c].back \in Seq(Entry)
             /\ cmd[c].at \in 1..(Len(cmd[c].caps) + 1)
             /\ cmd[c].doomed \subseteq 1..MaxGen
  BY MemoryIs DEF Types, Phases, Gens, WellFormed
<1>2. \A g \in Claimed :
        /\ folders[g].manifest = Unwritten \/ folders[g].manifest \in Seq(Entry)
        /\ \A i \in DOMAIN folders[g].blobs : folders[g].blobs[i] \in Content
  BY DEF Types, Folders
<1> QED  BY <1>1, <1>2 DEF Types, TypeOK, Gens

(* Every variable holds what the code's types let it hold, however many    *)
(* commands run at the same time.                                          *)
THEOREM StoreTypes == Spec => []TypeOK
  BY TypesInit, TypesNext, TypesAre, PTL DEF Spec

-----------------------------------------------------------------------------
(* The invariant, one command at a time.                                   *)

LEMMA OthersKeep ==
  ASSUME NEW h \in Claimed, h \in Claimed', folders'[h] = folders[h]
  PROVE  /\ h \in Readable' <=> h \in Readable
         /\ IsWhole(h)' <=> IsWhole(h)
         /\ h \in DOMAIN taken' /\ taken'[h] = taken[h] /\ Filed(h) => Filed(h)'
<1>1. h \in Readable' <=> h \in Readable
  BY DEF Readable
<1>2. \A i : HasBlob(h, i)' <=> HasBlob(h, i)
  BY DEF HasBlob
<1>3. IsWhole(h)' <=> IsWhole(h)
  BY <1>2 DEF IsWhole
<1>4. ASSUME h \in DOMAIN taken', taken'[h] = taken[h], Filed(h) PROVE Filed(h)'
  BY <1>2, <1>4 DEF Filed, Capturing
<1> QED  BY <1>1, <1>3, <1>4

LEMMA DoomedGrows ==
  ASSUME Claimed \subseteq Gens, Claimed' \subseteq Gens, Claimed \subseteq Claimed'
  PROVE  Doomed \subseteq Doomed'
<1> SUFFICES ASSUME NEW g \in Doomed PROVE g \in Doomed'  OBVIOUS
<1>1. Above(Claimed, g) \subseteq Above(Claimed', g)
  BY DEF Above
<1>2. Cardinality(Above(Claimed, g)) >= Keep /\ g \in Claimed
  BY DEF Doomed, Above
<1>3. /\ Cardinality(Above(Claimed, g)) <= Cardinality(Above(Claimed', g))
      /\ Cardinality(Above(Claimed, g)) \in Nat /\ Cardinality(Above(Claimed', g)) \in Nat
  BY <1>1, AboveGrows, AboveIsFinite
<1>4. Cardinality(Above(Claimed', g)) >= Keep
  BY <1>2, <1>3, Bounds
<1> QED  BY <1>2, <1>4 DEF Doomed, Above

(* Taking away one that is given up leaves every older one given up.       *)
LEMMA DoomedShrinks ==
  ASSUME Claimed \subseteq Gens, NEW r \in Doomed, Claimed' = Claimed \ {r}
  PROVE  Doomed \ {r} \subseteq Doomed'
<1> SUFFICES ASSUME NEW g \in Doomed, g # r PROVE g \in Doomed'  OBVIOUS
<1>0. Claimed \in SUBSET Gens /\ Claimed' \in SUBSET Gens /\ \A h \in Claimed : h \in Nat
  BY GensAre
<1>1. g \in Claimed /\ r \in Claimed /\ g \in Nat /\ r \in Nat
  BY <1>0 DEF Doomed
<1>2. /\ Cardinality(Above(Claimed, g)) >= Keep /\ Cardinality(Above(Claimed, r)) >= Keep
      /\ Cardinality(Above(Claimed, g)) \in Nat /\ Cardinality(Above(Claimed, r)) \in Nat
      /\ Cardinality(Above(Claimed', g)) \in Nat
  BY AboveIsFinite DEF Doomed, Above
<1>3. Cardinality(Above(Claimed', g)) >= Keep
  <2>1. CASE g > r
    <3>1. Above(Claimed, g) \subseteq Above(Claimed', g)
      BY <1>0, <1>1, <2>1 DEF Above
    <3>2. Cardinality(Above(Claimed, g)) <= Cardinality(Above(Claimed', g))
      BY <1>0, <3>1, AboveGrows
    <3> QED  BY <1>2, <3>2, Bounds
  <2>2. CASE g < r
    <3>1. Above(Claimed, r) \subseteq Above(Claimed', g)
      <4> SUFFICES ASSUME NEW h \in Claimed, h > r PROVE h \in Claimed' /\ h > g
        BY DEF Above
      <4>1. h \in Nat /\ h # r
        BY <1>0, <1>1
      <4> QED  BY <1>1, <2>2, <4>1
    <3>2. Cardinality(Above(Claimed, r)) <= Cardinality(Above(Claimed', g))
      BY <1>0, <3>1, AboveGrows
    <3> QED  BY <1>2, <3>2, Bounds
  <2> QED  BY <1>1, <2>1, <2>2
<1> QED  BY <1>1, <1>3 DEF Doomed, Above

LEMMA DiskStays ==
  ASSUME DiskInv, LastInv, UNCHANGED <<folders, taken, last>>
  PROVE  /\ DiskInv' /\ LastInv'
         /\ Claimed' = Claimed /\ Readable' = Readable /\ Doomed' = Doomed
         /\ \A g \in Claimed : IsWhole(g)' <=> IsWhole(g)
<1>1. Claimed' = Claimed /\ Readable' = Readable /\ Doomed' = Doomed
  BY DEF Claimed, Readable, Doomed
<1>2. \A g \in Claimed : IsWhole(g)' <=> IsWhole(g)
  BY <1>1, OthersKeep
<1>3. \A g \in Claimed : Filed(g) => g \in DOMAIN taken
  BY DEF Filed
<1>4. \A g \in Claimed : Filed(g) => Filed(g)'
  BY <1>1, <1>3, OthersKeep
<1>5. Readable \subseteq Claimed
  BY DEF Readable
<1> QED  BY <1>1, <1>2, <1>4, <1>5 DEF DiskInv, LastInv

LEMMA PathSeqOfCaptured ==
  ASSUME NEW t \in Seq(Paths)
  PROVE  /\ PathSeq(Captured(t)) = t /\ Current(Captured(t))
<1>1. t = [i \in DOMAIN t |-> t[i]]
  OBVIOUS
<1> QED  BY <1>1 DEF PathSeq, Captured, Current

LEMMA PathSeqOfManifest ==
  ASSUME NEW caps \in Seq(Capture)
  PROVE  [i \in DOMAIN ManifestOf(caps) |-> ManifestOf(caps)[i].path] = PathSeq(caps)
  BY DEF PathSeq, ManifestOf

LEMMA TouchesAre ==
  ASSUME NEW t \in Touches
  PROVE  t \in Seq(Paths) /\ \A i, j \in DOMAIN t : t[i] = t[j] => i = j
  BY Parameters

LEMMA BeginInv ==
  ASSUME OneAtATime, Inv, NEW c \in Commands, NEW t \in Touches, Begin(c, t)
  PROVE  Inv'
<1> USE DEF Inv
<1>1. Types' /\ cmd'[c] = [Idle EXCEPT !.pc = "number", !.caps = Captured(t)]
  BY BeginTypes
<1>2. /\ cmd'[c].pc = "number" /\ cmd'[c].caps = Captured(t) /\ cmd'[c].from = 0
      /\ cmd'[c].at = 1 /\ cmd'[c].doomed = {}
  BY <1>1 DEF Idle
<1>3. UNCHANGED <<file, folders, taken, last>>
  BY DEF Begin
<1>4. PathSeq(Captured(t)) = t /\ Current(Captured(t))
  BY TouchesAre, PathSeqOfCaptured
<1>5. Saving(c)'
  BY <1>2, <1>3, <1>4 DEF Saving, Capturing, Current, AtWork
<1>6. Restoring(c)'
  BY <1>2 DEF Restoring
<1> QED  BY <1>1, <1>3, <1>5, <1>6, DiskStays DEF CommandInv, OneAtATime

LEMMA BeginRestoreInv ==
  ASSUME OneAtATime, Inv, NEW c \in Commands, NEW g \in Readable, BeginRestore(c, g)
  PROVE  Inv'
<1> USE DEF Inv
<1> DEFINE m == folders[g].manifest
           ps == [i \in DOMAIN m |-> m[i].path]
<1>1. /\ Types'
      /\ cmd'[c] = [Idle EXCEPT !.pc = "number", !.from = g, !.back = m, !.caps = Captured(ps)]
  BY BeginRestoreTypes
<1> HIDE DEF ps
<1>2. /\ cmd'[c].pc = "number" /\ cmd'[c].caps = Captured(ps) /\ cmd'[c].from = g
      /\ cmd'[c].at = 1 /\ cmd'[c].doomed = {} /\ cmd'[c].back = m
  BY <1>1 DEF Idle
<1>3. UNCHANGED <<file, folders, taken, last>>
  BY DEF BeginRestore
<1>4. Filed(g) /\ taken[g] \in Seq(Capture)
  BY DEF DiskInv, Filed, Types
<1>5. ps = PathSeq(taken[g]) /\ ps \in Touches
  BY <1>4, PathSeqOfManifest DEF Filed, Capturing, ps
<1>6. PathSeq(Captured(ps)) = ps /\ Current(Captured(ps))
  BY <1>5, TouchesAre, PathSeqOfCaptured
<1>7. Saving(c)'
  BY <1>2, <1>3, <1>5, <1>6 DEF Saving, Capturing, Current, AtWork
<1>8. Readable' = Readable
  BY <1>3, DiskStays
<1>9. Restoring(c)'
  BY <1>2, <1>3, <1>5, <1>6, <1>8 DEF Restoring
<1> QED  BY <1>1, <1>3, <1>7, <1>9, DiskStays DEF CommandInv, OneAtATime

LEMMA NumberInv ==
  ASSUME OneAtATime, Inv, NEW c \in Commands, Number(c)
  PROVE  Inv'
<1> USE DEF Inv
<1> DEFINE g == NextGeneration
<1>1. Types' /\ g \in Gens /\ cmd'[c] = [cmd[c] EXCEPT !.pc = "folder", !.gen = g]
  BY NumberTypes
<1>2. Saving(c) /\ Restoring(c) /\ cmd[c].pc = "number" /\ cmd[c] \in Memory
  BY MemoryIs DEF CommandInv, Number, Types
<1>3. g \notin Claimed /\ Highest(g)
  <2>1. \A h \in Claimed : h < g /\ h \in Nat
    BY NextIsAbove, GensAre DEF Types
  <2>2. g \in Nat
    BY <1>1, GensAre
  <2> HIDE DEF g
  <2> QED  BY <2>1, <2>2 DEF Highest
<1> HIDE DEF g
<1>4. /\ cmd'[c].pc = "folder" /\ cmd'[c].caps = cmd[c].caps /\ cmd'[c].from = cmd[c].from
      /\ cmd'[c].at = cmd[c].at /\ cmd'[c].doomed = cmd[c].doomed
      /\ cmd'[c].back = cmd[c].back /\ cmd'[c].gen = g
  BY <1>1, <1>2 DEF Memory
<1>5. UNCHANGED <<file, folders, taken, last>>
  BY DEF Number
<1>6. Claimed' = Claimed /\ Readable' = Readable /\ Doomed' = Doomed
  BY <1>5, DiskStays
<1>7. Saving(c)'
  BY <1>2, <1>3, <1>4, <1>5, <1>6 DEF Saving, Capturing, Current, AtWork, Highest
<1>8. Restoring(c)'
  <2>1. cmd[c].from # 0 => cmd[c].from # g
    BY <1>2, <1>3 DEF Restoring, Readable
  <2>2. g # 0
    BY <1>1, GensAre
  <2> QED  BY <1>2, <1>4, <1>5, <1>6, <2>1, <2>2 DEF Restoring
<1> QED  BY <1>1, <1>5, <1>7, <1>8, DiskStays DEF CommandInv, OneAtATime

(* Until its manifest is written a generation is not read: nothing that    *)
(* was readable is touched.                                                *)
LEMMA UnreadableAdds ==
  ASSUME DiskInv, LastInv, Claimed' \subseteq Gens, Claimed \subseteq Gens, NEW g,
         Claimed' = Claimed \cup {g}, g \notin Readable, g \notin Readable',
         \A h \in Claimed \ {g} : folders'[h] = folders[h],
         UNCHANGED <<taken, last>>
  PROVE  DiskInv' /\ LastInv' /\ Readable' = Readable /\ Doomed \subseteq Doomed'
<1>1. \A h \in Claimed \ {g} : (h \in Readable' <=> h \in Readable) /\ (IsWhole(h)' <=> IsWhole(h))
  BY OthersKeep
<1>2. Readable' = Readable
  BY <1>1 DEF Readable
<1>3. Doomed \subseteq Doomed'
  BY DoomedGrows
<1>4. \A h \in Readable : h \in DOMAIN taken /\ Filed(h) /\ h \in Claimed \ {g}
  BY DEF DiskInv, Filed, Readable
<1>5. \A h \in Readable : Filed(h)'
  BY <1>4, OthersKeep
<1>6. DiskInv'
  BY <1>1, <1>2, <1>3, <1>4, <1>5 DEF DiskInv
<1>7. LastInv'
  BY <1>1, <1>2, <1>4 DEF LastInv
<1> QED  BY <1>2, <1>3, <1>6, <1>7

LEMMA MakeFolderInv ==
  ASSUME OneAtATime, Inv, NEW c \in Commands, MakeFolder(c)
  PROVE  Inv'
<1> USE DEF Inv
<1> DEFINE g == cmd[c].gen
<1>1. Types' /\ g \in Gens /\ cmd'[c] = [cmd[c] EXCEPT !.pc = "blobs"]
  BY MakeFolderTypes
<1>2. Saving(c) /\ Restoring(c) /\ cmd[c].pc = "folder" /\ cmd[c] \in Memory
  BY MemoryIs DEF CommandInv, MakeFolder, Types
<1>3. /\ cmd'[c].pc = "blobs" /\ cmd'[c].caps = cmd[c].caps /\ cmd'[c].from = cmd[c].from
      /\ cmd'[c].at = 1 /\ cmd'[c].doomed = {} /\ cmd'[c].gen = g
      /\ cmd'[c].back = cmd[c].back
  BY <1>1, <1>2 DEF Memory, Saving
<1>4. g \notin Claimed /\ Highest(g)
  BY <1>2 DEF Saving
<1>5. folders' = Placed(g, [blobs |-> << >>, manifest |-> Unwritten])
  BY <1>4 DEF MakeFolder, Folder
<1>6. /\ Claimed' = Claimed \cup {g} /\ \A h \in Claimed : folders'[h] = folders[h]
      /\ folders'[g].blobs = << >> /\ folders'[g].manifest = Unwritten
  BY <1>4, <1>5 DEF Placed, Claimed
<1>7. UNCHANGED <<file, taken, last>>
  BY DEF MakeFolder
<1>8. DiskInv' /\ LastInv' /\ Readable' = Readable /\ Doomed \subseteq Doomed'
  <2>1. g \notin Readable /\ g \notin Readable'
    BY <1>4, <1>6 DEF Readable
  <2> QED  BY <1>1, <1>6, <1>7, <2>1, UnreadableAdds DEF Types
<1>9. Saving(c)'
  <2>1. Highest(g)'
    BY <1>1, <1>4, <1>6, GensAre DEF Highest
  <2>2. DOMAIN << >> = {}
    OBVIOUS
  <2>3. \A i \in DOMAIN cmd[c].caps : ~(i < 1)
    BY MemoryIs DEF Types
  <2> QED  BY <1>2, <1>3, <1>6, <1>7, <2>1, <2>2, <2>3
           DEF Saving, Capturing, Current, AtWork
<1>10. Restoring(c)'
  <2>1. cmd[c].from \in Readable => folders'[cmd[c].from] = folders[cmd[c].from]
    BY <1>6 DEF Readable
  <2> QED  BY <1>2, <1>3, <1>7, <1>8, <2>1 DEF Restoring
<1> QED  BY <1>1, <1>8, <1>9, <1>10 DEF CommandInv, OneAtATime

LEMMA WriteBlobInv ==
  ASSUME OneAtATime, Inv, NEW c \in Commands, WriteBlob(c)
  PROVE  Inv'
<1> USE DEF Inv
<1> DEFINE g == cmd[c].gen
           i == cmd[c].at
           held == cmd[c].caps[i].held
           b == IF held = Absent THEN folders[g].blobs ELSE WithBlob(folders[g].blobs, i, held)
<1>1. Types' /\ g \in Gens /\ cmd'[c] = [cmd[c] EXCEPT !.at = i + 1]
  BY WriteBlobTypes
<1>2. /\ Saving(c) /\ Restoring(c) /\ cmd[c].pc = "blobs" /\ cmd[c] \in Memory
      /\ i \in DOMAIN cmd[c].caps /\ i \in Nat
  BY MemoryIs DEF CommandInv, WriteBlob, Types
<1>3. /\ cmd'[c].pc = "blobs" /\ cmd'[c].caps = cmd[c].caps /\ cmd'[c].from = cmd[c].from
      /\ cmd'[c].at = i + 1 /\ cmd'[c].doomed = {} /\ cmd'[c].gen = g
      /\ cmd'[c].back = cmd[c].back
  BY <1>1, <1>2 DEF Memory, Saving
<1>4. g \in Claimed /\ Highest(g) /\ folders[g].manifest = Unwritten
  BY <1>2 DEF Saving
<1>5. /\ Claimed' = Claimed /\ \A h \in Claimed \ {g} : folders'[h] = folders[h]
      /\ folders'[g].blobs = b /\ folders'[g].manifest = Unwritten
  <2>1. CASE held = Absent
    BY <1>4, <2>1 DEF WriteBlob, Claimed
  <2>2. CASE held # Absent
    <3>1. folders' = Placed(g, [Folder(g) EXCEPT !.blobs = b])
      BY <1>4, <2>2 DEF WriteBlob, Folder
    <3>2. [Folder(g) EXCEPT !.blobs = b] = [blobs |-> b, manifest |-> Unwritten]
      <4>1. folders[g] = [blobs |-> folders[g].blobs, manifest |-> Unwritten] /\ Folder(g) = folders[g]
        BY <1>4 DEF Types, Folders, Folder
      <4> HIDE DEF b
      <4> QED  BY <4>1
    <3> HIDE DEF b
    <3> QED  BY <1>4, <3>1, <3>2 DEF Placed, Claimed
  <2> QED  BY <2>1, <2>2
<1>6. UNCHANGED <<file, taken, last>>
  BY DEF WriteBlob
<1>7. DiskInv' /\ LastInv' /\ Readable' = Readable /\ Doomed \subseteq Doomed'
  <2>1. g \notin Readable /\ g \notin Readable' /\ Claimed' = Claimed \cup {g}
    BY <1>4, <1>5 DEF Readable
  <2> QED  BY <1>1, <1>5, <1>6, <2>1, UnreadableAdds DEF Types
<1>8. Saving(c)'
  <2>1. \A h \in Claimed' : h <= g
    BY <1>4, <1>5 DEF Highest
  <2>2. ASSUME NEW j \in DOMAIN b
        PROVE  j < i + 1 /\ j \in DOMAIN cmd[c].caps /\ b[j] = cmd[c].caps[j].held
    <3>1. CASE j = i /\ held # Absent
      BY <1>2, <3>1 DEF WithBlob
    <3>2. CASE ~(j = i /\ held # Absent)
      <4>1. j \in DOMAIN folders[g].blobs /\ b[j] = folders[g].blobs[j]
        BY <3>2 DEF WithBlob
      <4>2. j < i /\ j \in DOMAIN cmd[c].caps /\ folders[g].blobs[j] = cmd[c].caps[j].held
        BY <1>2, <4>1 DEF Saving
      <4>3. j \in Nat
        BY <4>2, MemoryIs DEF Types
      <4> QED  BY <1>2, <4>1, <4>2, <4>3
    <3> QED  BY <3>1, <3>2
  <2>3. ASSUME NEW j \in DOMAIN cmd[c].caps, j < i + 1, cmd[c].caps[j].held # Absent
        PROVE  j \in DOMAIN b
    <3>1. j \in Nat
      BY MemoryIs DEF Types
    <3>2. CASE j = i
      BY <2>3, <3>2 DEF WithBlob
    <3>3. CASE j < i
      <4>1. j \in DOMAIN folders[g].blobs
        BY <1>2, <2>3, <3>3 DEF Saving
      <4> QED  BY <4>1 DEF WithBlob
    <3> QED  BY <1>2, <2>3, <3>1, <3>2, <3>3
  <2> HIDE DEF b
  <2> QED  BY <1>2, <1>3, <1>4, <1>5, <1>6, <2>1, <2>2, <2>3
           DEF Saving, Capturing, Current, AtWork, Highest
<1>9. Restoring(c)'
  <2>1. cmd[c].from \in Readable => folders'[cmd[c].from] = folders[cmd[c].from]
    BY <1>4, <1>5 DEF Readable
  <2> QED  BY <1>2, <1>3, <1>6, <1>7, <2>1 DEF Restoring
<1> QED  BY <1>1, <1>7, <1>8, <1>9 DEF CommandInv, OneAtATime

LEMMA WriteManifestInv ==
  ASSUME OneAtATime, Inv, NEW c \in Commands, WriteManifest(c)
  PROVE  Inv'
<1> USE DEF Inv
<1>0. PICK g \in Gens : g = cmd[c].gen
  BY WriteManifestTypes
<1>1. /\ Types' /\ Claimed' = Claimed \cup {g}
      /\ cmd'[c] = [cmd[c] EXCEPT !.pc = IF cmd[c].from = 0 THEN "work" ELSE "restore", !.at = 1]
      /\ folders'[g].blobs = Folder(g).blobs /\ folders'[g].manifest = ManifestOf(cmd[c].caps)
      /\ \A h \in Claimed \ {g} : folders'[h] = folders[h]
      /\ taken'[g] = cmd[c].caps /\ last' = g /\ DOMAIN taken' = DOMAIN taken \cup {g}
      /\ \A h \in DOMAIN taken \ {g} : taken'[h] = taken[h]
  BY <1>0, WriteManifestTypes
<1>2. /\ Saving(c) /\ Restoring(c) /\ cmd[c].pc = "blobs" /\ cmd[c] \in Memory
      /\ cmd[c].caps \in Seq(Capture) /\ DOMAIN cmd[c].caps = 1..Len(cmd[c].caps)
      /\ Len(cmd[c].caps) \in Nat /\ cmd[c].at \in Nat \ {0} /\ cmd[c].at > Len(cmd[c].caps)
  BY MemoryIs DEF CommandInv, WriteManifest, BlobsWritten, Types
<1>3. /\ cmd'[c].pc = IF cmd[c].from = 0 THEN "work" ELSE "restore"
      /\ cmd'[c].caps = cmd[c].caps /\ cmd'[c].from = cmd[c].from
      /\ cmd'[c].at = 1 /\ cmd'[c].doomed = {} /\ cmd'[c].gen = g /\ cmd'[c].back = cmd[c].back
  BY <1>0, <1>1, <1>2 DEF Memory, Saving
<1>4. g \in Claimed /\ Highest(g) /\ folders[g].manifest = Unwritten /\ Folder(g) = folders[g]
  BY <1>0, <1>2 DEF Saving, Folder
<1>5. /\ ManifestOf(cmd[c].caps) # Unwritten
      /\ DOMAIN ManifestOf(cmd[c].caps) = DOMAIN cmd[c].caps
      /\ \A i \in DOMAIN cmd[c].caps :
           ManifestOf(cmd[c].caps)[i].existed <=> cmd[c].caps[i].held # Absent
  BY <1>2, ManifestType DEF ManifestOf
<1>6. Claimed' = Claimed /\ Doomed' = Doomed /\ g \in Readable' /\ g \notin Readable
  <2>1. Claimed' = Claimed
    BY <1>1, <1>4
  <2>2. Doomed' = Doomed
    BY <2>1 DEF Doomed
  <2>3. folders'[g].manifest # Unwritten
    BY <1>1, <1>5
  <2> QED  BY <1>4, <2>1, <2>2, <2>3 DEF Readable
<1>7. \A h \in Claimed \ {g} : (h \in Readable' <=> h \in Readable) /\ (IsWhole(h)' <=> IsWhole(h))
  BY <1>1, <1>6, OthersKeep
<1>8. \A i \in DOMAIN cmd[c].caps :
        /\ folders[g].blobs = folders'[g].blobs
        /\ cmd[c].caps[i].held # Absent =>
             i \in DOMAIN folders[g].blobs /\ folders[g].blobs[i] = cmd[c].caps[i].held
  BY <1>0, <1>1, <1>2, <1>4 DEF Saving
<1>9. IsWhole(g)' /\ Filed(g)'
  <2>1. \A i \in DOMAIN cmd[c].caps : cmd[c].caps[i].held # Absent =>
          HasBlob(g, i)' /\ folders'[g].blobs[i] = cmd[c].caps[i].held
    BY <1>4, <1>6, <1>8 DEF HasBlob
  <2>2. Capturing(cmd[c].caps)
    BY <1>2 DEF Saving
  <2>3. IsWhole(g)'
    BY <1>1, <1>5, <2>1 DEF IsWhole
  <2>4. Filed(g)'
    BY <1>1, <2>1, <2>2 DEF Filed, Capturing
  <2> QED  BY <2>3, <2>4
<1>10. \A h \in Readable : h \in Claimed \ {g} /\ Filed(h) /\ h \in DOMAIN taken'
                           /\ taken'[h] = taken[h]
  BY <1>1, <1>6 DEF DiskInv, Filed, Readable
<1>11. \A h \in Readable : Filed(h)'
  BY <1>1, <1>6, <1>10, OthersKeep
<1>12. Readable' = Readable \cup {g}
  BY <1>6, <1>7 DEF Readable
<1>13. DiskInv'
  BY <1>6, <1>7, <1>9, <1>10, <1>11, <1>12 DEF DiskInv
<1>14. \A h \in Claimed' : h <= g
  BY <1>4, <1>6 DEF Highest
<1>15. LastInv'
  BY <1>1, <1>9, <1>12, <1>14 DEF LastInv, Readable
<1>16. UNCHANGED file
  BY DEF WriteManifest
<1>17. Saving(c)'
  BY <1>1, <1>2, <1>3, <1>6, <1>14 DEF Saving, Capturing, AtWork, Highest
<1>18. Restoring(c)'
  <2>1. ASSUME cmd[c].from # 0
        PROVE  /\ cmd[c].from \in Readable /\ cmd[c].back = folders[cmd[c].from].manifest
               /\ PathSeq(cmd[c].caps) = PathSeq(taken[cmd[c].from]) /\ cmd[c].from # g
    BY <1>0, <1>2, <2>1 DEF Restoring
  <2>2. ASSUME cmd[c].from # 0
        PROVE  /\ cmd[c].from \in Readable' /\ cmd[c].back = folders'[cmd[c].from].manifest
               /\ PathSeq(cmd[c].caps) = PathSeq(taken'[cmd[c].from])
    BY <1>1, <1>10, <1>12, <2>1, <2>2
  <2>3. ASSUME cmd[c].from # 0 PROVE DOMAIN taken'[cmd[c].from] \subseteq Nat \ {0}
    <3>1. taken'[cmd[c].from] \in Seq(Capture)
      BY <1>1, <1>10, <2>1, <2>3 DEF Types
    <3> QED  BY <3>1
  <2> QED  BY <1>2, <1>3, <2>2, <2>3 DEF Restoring
<1> QED  BY <1>1, <1>13, <1>15, <1>17, <1>18 DEF CommandInv, OneAtATime

LEMMA WorkOnInv ==
  ASSUME OneAtATime, Inv, NEW c \in Commands, WorkOn(c)
  PROVE  Inv'
<1> USE DEF Inv
<1>1. Types' /\ cmd'[c] = [cmd[c] EXCEPT !.at = cmd[c].at + 1]
  BY WorkTypes
<1>2. Saving(c) /\ cmd[c].pc = "work" /\ cmd[c] \in Memory
  BY MemoryIs DEF CommandInv, WorkOn, Types
<1>3. /\ cmd'[c].pc = "work" /\ cmd'[c].caps = cmd[c].caps
      /\ cmd'[c].doomed = cmd[c].doomed /\ cmd'[c].gen = cmd[c].gen
  BY <1>1, <1>2 DEF Memory
<1>4. UNCHANGED <<folders, taken, last>>
  BY DEF WorkOn
<1>5. Claimed' = Claimed /\ Readable' = Readable /\ Doomed' = Doomed
  BY <1>4, DiskStays
<1>6. Saving(c)'
  BY <1>2, <1>3, <1>4, <1>5 DEF Saving, Capturing, AtWork, Highest
<1>7. Restoring(c)'
  BY <1>3 DEF Restoring
<1> QED  BY <1>1, <1>4, <1>6, <1>7, DiskStays DEF CommandInv, OneAtATime

(* A restore's captures are of the very paths it puts back, each once.     *)
LEMMA SamePaths ==
  ASSUME Types, NEW a \in Seq(Capture), NEW b \in Seq(Capture), PathSeq(a) = PathSeq(b)
  PROVE  DOMAIN a = DOMAIN b /\ \A i \in DOMAIN a : a[i].path = b[i].path
<1>1. DOMAIN PathSeq(a) = DOMAIN a /\ DOMAIN PathSeq(b) = DOMAIN b
  BY DEF PathSeq
<1>2. \A i \in DOMAIN a : PathSeq(a)[i] = a[i].path
  BY DEF PathSeq
<1>3. \A i \in DOMAIN b : PathSeq(b)[i] = b[i].path
  BY DEF PathSeq
<1> QED  BY <1>1, <1>2, <1>3

LEMMA PathsDiffer ==
  ASSUME NEW caps \in Seq(Capture), Capturing(caps), NEW i \in DOMAIN caps, NEW j \in DOMAIN caps,
         caps[i].path = caps[j].path
  PROVE  i = j
<1>1. PathSeq(caps)[i] = PathSeq(caps)[j] /\ DOMAIN PathSeq(caps) = DOMAIN caps
  BY DEF PathSeq
<1> QED  BY <1>1, TouchesAre DEF Capturing

LEMMA RestoreEntryInv ==
  ASSUME OneAtATime, Inv, NEW c \in Commands, RestoreEntry(c)
  PROVE  Inv'
<1> USE DEF Inv
<1> DEFINE g == cmd[c].from
           i == cmd[c].at
           e == cmd[c].back[i]
           v == IF e.existed THEN folders[g].blobs[i] ELSE Absent
           was == taken[g]
<1>1. Types' /\ i \in 1..Len(cmd[c].caps) /\ cmd'[c] = [cmd[c] EXCEPT !.at = i + 1]
  BY WorkTypes
<1>2. /\ Saving(c) /\ Restoring(c) /\ cmd[c].pc = "restore" /\ cmd[c] \in Memory
      /\ g # 0 /\ cmd[c].caps \in Seq(Capture) /\ DOMAIN cmd[c].caps = 1..Len(cmd[c].caps)
      /\ i \in Nat
  BY MemoryIs DEF CommandInv, RestoreEntry, Types, WellFormed
<1>3. /\ cmd'[c].pc = "restore" /\ cmd'[c].caps = cmd[c].caps /\ cmd'[c].from = g
      /\ cmd'[c].doomed = cmd[c].doomed /\ cmd'[c].gen = cmd[c].gen /\ cmd'[c].at = i + 1
      /\ cmd'[c].back = cmd[c].back
  BY <1>1, <1>2 DEF Memory
<1>4. UNCHANGED <<folders, taken, last>>
  BY DEF RestoreEntry
<1>5. Claimed' = Claimed /\ Readable' = Readable /\ Doomed' = Doomed
  BY <1>4, DiskStays
<1>6. Saving(c)'
  BY <1>2, <1>3, <1>4, <1>5 DEF Saving, Capturing, AtWork, Highest
<1>7. /\ g \in Readable /\ cmd[c].back = folders[g].manifest
      /\ PathSeq(cmd[c].caps) = PathSeq(was)
  BY <1>2 DEF Restoring
<1>8. Filed(g) /\ was \in Seq(Capture)
  BY <1>7 DEF DiskInv, Filed, Types
<1>9. DOMAIN was = DOMAIN cmd[c].caps /\ i \in DOMAIN was /\ DOMAIN was \subseteq Nat
  BY <1>1, <1>2, <1>7, <1>8, SamePaths
<1>10. e.path = was[i].path /\ (e.existed <=> was[i].held # Absent)
  <2>1. cmd[c].back = ManifestOf(was)
    BY <1>7, <1>8 DEF Filed
  <2>2. ManifestOf(was)[i] = [path |-> was[i].path, existed |-> was[i].held # Absent]
    BY <1>9 DEF ManifestOf
  <2>3. e = [path |-> was[i].path, existed |-> was[i].held # Absent]
    BY <2>1, <2>2
  <2> HIDE DEF e, was
  <2> QED  BY <2>3
<1>11. v = was[i].held
  <2>1. e.existed => HasBlob(g, i)
    BY DEF RestoreEntry
  <2>2. was[i].held # Absent /\ HasBlob(g, i) => folders[g].blobs[i] = was[i].held
    BY <1>8, <1>9 DEF Filed
  <2> QED  BY <1>10, <2>1, <2>2
<1>12. file' = [file EXCEPT ![was[i].path] = was[i].held]
  <2>1. file' = [file EXCEPT ![e.path] = v]
    BY DEF RestoreEntry, PutBack
  <2> HIDE DEF v, e
  <2> QED  BY <1>10, <1>11, <2>1
<1>13. was[i].path \in DOMAIN file /\ \A j \in DOMAIN was : was[j].path \in DOMAIN file
  BY <1>8, <1>9, CaptureFields DEF Types
<1>14. ASSUME NEW j \in DOMAIN was, j < i + 1
       PROVE  file'[was[j].path] = was[j].held
  <2>1. CASE j = i
    BY <1>12, <1>13, <2>1
  <2>2. CASE j # i
    <3>1. was[j].path # was[i].path
      BY <1>8, <1>9, <2>2, PathsDiffer DEF Filed
    <3>2. j < i
      BY <1>2, <1>9, <1>14, <2>2
    <3>3. file[was[j].path] = was[j].held
      BY <1>2, <3>2 DEF Restoring
    <3> QED  BY <1>12, <1>13, <3>1, <3>3
  <2> QED  BY <2>1, <2>2
<1>15. Restoring(c)'
  BY <1>3, <1>4, <1>5, <1>7, <1>14 DEF Restoring
<1> QED  BY <1>1, <1>4, <1>6, <1>15, DiskStays DEF CommandInv, OneAtATime

LEMMA StartRetainInv ==
  ASSUME OneAtATime, Inv, NEW c \in Commands, StartRetain(c)
  PROVE  Inv'
<1> USE DEF Inv
<1>1. Types' /\ cmd'[c] = [cmd[c] EXCEPT !.pc = "retain", !.doomed = Doomed]
  BY StartRetainTypes
<1>2. Saving(c) /\ cmd[c].pc \in {"work", "restore"} /\ cmd[c] \in Memory
  BY MemoryIs DEF CommandInv, StartRetain, Types
<1>3. /\ cmd'[c].pc = "retain" /\ cmd'[c].caps = cmd[c].caps
      /\ cmd'[c].doomed = Doomed /\ cmd'[c].gen = cmd[c].gen
  BY <1>1, <1>2 DEF Memory
<1>4. UNCHANGED <<file, folders, taken, last>>
  BY DEF StartRetain
<1>5. Claimed' = Claimed /\ Readable' = Readable /\ Doomed' = Doomed
  BY <1>4, DiskStays
<1>6. Saving(c)'
  BY <1>2, <1>3, <1>4, <1>5 DEF Saving, Capturing, AtWork, Highest
<1>7. Restoring(c)'
  BY <1>3 DEF Restoring
<1> QED  BY <1>1, <1>4, <1>6, <1>7, DiskStays DEF CommandInv, OneAtATime

LEMMA StopInv ==
  ASSUME OneAtATime, Inv, NEW c \in Commands, Stops(c)
  PROVE  Inv'
<1> USE DEF Inv
<1>1. Types' /\ cmd'[c] = Idle /\ UNCHANGED <<file, folders, taken, last>>
  BY StopTypes
<1>2. Saving(c)' /\ Restoring(c)'
  BY <1>1 DEF Idle, Saving, Restoring, AtWork
<1> QED  BY <1>1, <1>2, DiskStays DEF CommandInv, OneAtATime

(* What retention leaves of a folder it could not remove is what was there *)
(* or less.                                                                *)
LEMMA RemovedKeeps ==
  ASSUME Types, NEW c \in Commands, Removes(c), NEW r \in Gens, r = Oldest(c), r \in Readable'
  PROVE  /\ folders'[r].manifest = folders[r].manifest
         /\ \A i : HasBlob(r, i)' => HasBlob(r, i) /\ folders'[r].blobs[i] = folders[r].blobs[i]
         /\ r \in Readable
<1>1. r \in Claimed' /\ r \in Claimed /\ folders'[r].manifest # Unwritten
  BY RemoveTypes DEF Readable
<1>2. CASE RemoveFolder(c)
  BY <1>1, <1>2 DEF RemoveFolder, Without, Claimed
<1>3. CASE RemoveFails(c)
  <2>1. UNCHANGED folders /\ Claimed' = Claimed
    BY <1>3 DEF RemoveFails, Claimed
  <2>2. \A i : HasBlob(r, i)' <=> HasBlob(r, i)
    BY <2>1 DEF HasBlob
  <2> QED  BY <1>1, <2>1, <2>2 DEF Readable
<1>4. CASE RemoveBreaks(c)
  <2> DEFINE o == Oldest(c)
  <2>0. \E kept \in SUBSET DOMAIN folders[o].blobs, m \in {Unwritten, folders[o].manifest} :
          folders' = [folders EXCEPT ![o] =
            [blobs |-> [i \in kept |-> folders[o].blobs[i]], manifest |-> m]]
    BY <1>4 DEF RemoveBreaks
  <2> HIDE DEF o
  <2>1. PICK kept \in SUBSET DOMAIN folders[o].blobs, m \in {Unwritten, folders[o].manifest} :
          folders' = [folders EXCEPT ![o] =
            [blobs |-> [i \in kept |-> folders[o].blobs[i]], manifest |-> m]]
    BY <2>0
  <2>2. folders'[r] = [blobs |-> [i \in kept |-> folders[o].blobs[i]], manifest |-> m] /\ o = r
    BY <1>1, <2>1 DEF Claimed, o
  <2>3. m = folders[r].manifest /\ m # Unwritten
    BY <1>1, <2>2
  <2>4. DOMAIN folders'[r].blobs \subseteq DOMAIN folders[r].blobs
    BY <2>2
  <2>5. \A i : HasBlob(r, i)' => HasBlob(r, i) /\ folders'[r].blobs[i] = folders[r].blobs[i]
    BY <1>1, <2>2, <2>4 DEF HasBlob
  <2>6. folders'[r].manifest = folders[r].manifest /\ r \in Readable
    BY <1>1, <2>2, <2>3 DEF Readable
  <2> QED  BY <2>5, <2>6
<1> QED  BY <1>2, <1>3, <1>4 DEF Removes

LEMMA RemoveInv ==
  ASSUME OneAtATime, Inv, NEW c \in Commands, Removes(c)
  PROVE  Inv'
<1> USE DEF Inv
<1>0. PICK r \in Gens : r = Oldest(c)
  BY RemoveTypes
<1>1. /\ Types' /\ Claimed' \subseteq Claimed /\ r \in cmd[c].doomed
      /\ cmd'[c] = [cmd[c] EXCEPT !.doomed = cmd[c].doomed \ {r}]
      /\ \A h \in Claimed \ {r} : h \in Claimed' /\ folders'[h] = folders[h]
  BY <1>0, RemoveTypes
<1>2. Saving(c) /\ cmd[c].pc = "retain" /\ cmd[c] \in Memory
  BY MemoryIs DEF CommandInv, Removes, RemoveFolder, RemoveFails, RemoveBreaks, Types
<1>3. /\ cmd'[c].pc = "retain" /\ cmd'[c].caps = cmd[c].caps /\ cmd'[c].gen = cmd[c].gen
      /\ cmd'[c].doomed = cmd[c].doomed \ {r}
  BY <1>1, <1>2 DEF Memory
<1>4. UNCHANGED <<file, taken, last>>
  BY DEF Removes, RemoveFolder, RemoveFails, RemoveBreaks
<1>5. /\ last \in Readable /\ cmd[c].gen = last /\ Highest(last) /\ r \in Doomed
      /\ cmd[c].doomed \subseteq Doomed
  BY <1>1, <1>2 DEF Saving, AtWork
<1>6. last # r
  BY <1>5, HighestStays DEF Types
<1>7. Claimed' = Claimed \ {r} \/ Claimed' = Claimed
  <2>1. r \in Claimed /\ (r \in Claimed' \/ r \notin Claimed')
    BY <1>5 DEF Doomed
  <2> QED  BY <1>1, <2>1
<1>8. Doomed \ {r} \subseteq Doomed' /\ (Claimed' = Claimed => Doomed' = Doomed)
  <2>1. CASE Claimed' = Claimed
    BY <2>1 DEF Doomed
  <2>2. CASE Claimed' = Claimed \ {r}
    <3>1. r \in Claimed
      BY <1>5 DEF Doomed
    <3> QED  BY <1>5, <2>2, <3>1, DoomedShrinks DEF Types
  <2> QED  BY <1>7, <2>1, <2>2
<1>9. \A h \in Claimed \ {r} : (h \in Readable' <=> h \in Readable) /\ (IsWhole(h)' <=> IsWhole(h))
  BY <1>1, OthersKeep
<1>10. ASSUME NEW h \in Readable', h # r
       PROVE  h \in Readable /\ Filed(h)' /\ (h \notin Doomed' => IsWhole(h)')
  <2>1. h \in Claimed \ {r}
    BY <1>1, <1>10 DEF Readable
  <2>2. h \in Readable
    BY <1>9, <2>1
  <2>3. Filed(h) /\ (h \notin Doomed => IsWhole(h))
    BY <2>2 DEF DiskInv
  <2>4. Filed(h)'
    BY <1>1, <1>4, <2>1, <2>3, OthersKeep DEF Filed
  <2> QED  BY <1>8, <1>9, <1>10, <2>1, <2>2, <2>3, <2>4
<1>11. ASSUME r \in Readable'
       PROVE  r \in Readable /\ Filed(r)' /\ (r \notin Doomed' => IsWhole(r)')
  <2>1. /\ folders'[r].manifest = folders[r].manifest /\ r \in Readable
        /\ \A i : HasBlob(r, i)' => HasBlob(r, i) /\ folders'[r].blobs[i] = folders[r].blobs[i]
    BY <1>0, <1>11, RemovedKeeps
  <2>2. Filed(r)
    BY <2>1 DEF DiskInv
  <2>3. Filed(r)'
    BY <1>4, <2>1, <2>2 DEF Filed, Capturing
  <2>4. Claimed' = Claimed
    BY <1>7, <1>11 DEF Readable
  <2>5. r \in Doomed'
    BY <1>5, <1>8, <2>4
  <2> QED  BY <2>1, <2>3, <2>5
<1>12. DiskInv'
  BY <1>10, <1>11 DEF DiskInv
<1>13. last' \in Readable' /\ (IsWhole(last)' <=> IsWhole(last))
  <2>1. PICK l \in Claimed \ {r} : l = last
    BY <1>5, <1>6 DEF Readable
  <2>2. (l \in Readable' <=> l \in Readable) /\ (IsWhole(l)' <=> IsWhole(l))
    BY <1>9
  <2> QED  BY <1>4, <1>5, <2>1, <2>2
<1>14. LastInv'
  <2>1. \A h \in Readable' : h \in Readable
    BY <1>10, <1>11
  <2> QED  BY <1>4, <1>13, <2>1 DEF LastInv
<1>15. Saving(c)'
  <2>1. \A h \in Claimed' : h <= cmd[c].gen
    BY <1>1, <1>5 DEF Highest
  <2>2. cmd[c].doomed \ {r} \subseteq Doomed'
    BY <1>5, <1>8
  <2> QED  BY <1>2, <1>3, <1>4, <1>5, <1>13, <2>1, <2>2 DEF Saving, Capturing, AtWork, Highest
<1>16. Restoring(c)'
  BY <1>3 DEF Restoring
<1> QED  BY <1>1, <1>12, <1>14, <1>15, <1>16 DEF CommandInv, OneAtATime

LEMMA InvInit == Init => Inv
<1> SUFFICES ASSUME Init PROVE Inv  OBVIOUS
<1>1. Types
  BY TypesInit
<1>2. Claimed = {} /\ Readable = {}
  BY DEF Init, Claimed, Readable
<1>3. \A c \in Commands : cmd[c] = Idle
  BY DEF Init
<1>4. CommandInv
  BY <1>3, IdleFields DEF CommandInv, Saving, Restoring, AtWork
<1> QED  BY <1>1, <1>2, <1>4 DEF Init, Inv, DiskInv, LastInv

LEMMA InvNext ==
  ASSUME OneAtATime
  PROVE  Inv /\ [Next]_vars => Inv'
<1> SUFFICES ASSUME Inv, [Next]_vars PROVE Inv'  OBVIOUS
<1>1. CASE UNCHANGED vars
  <2>1. Types'
    BY <1>1, TypesNext DEF Inv
  <2>2. DiskInv' /\ LastInv' /\ Claimed' = Claimed /\ Readable' = Readable /\ Doomed' = Doomed
    BY <1>1, DiskStays DEF vars, Inv
  <2>3. CommandInv'
    <3> SUFFICES ASSUME NEW c \in Commands PROVE Saving(c)' /\ Restoring(c)'
      BY DEF CommandInv
    <3>1. Saving(c) /\ Restoring(c) /\ UNCHANGED <<cmd, file, folders, taken, last>>
      BY <1>1 DEF Inv, CommandInv, vars
    <3>2. Saving(c)'
      BY <2>2, <3>1 DEF Saving, Capturing, Current, AtWork, Highest
    <3>3. Restoring(c)'
      BY <2>2, <3>1 DEF Restoring
    <3> QED  BY <3>2, <3>3
  <2> QED  BY <2>1, <2>2, <2>3 DEF Inv
<1>2. CASE Next
  BY <1>2, StepsAre, BeginInv, BeginRestoreInv, NumberInv, MakeFolderInv, WriteBlobInv,
     WriteManifestInv, WorkOnInv, RestoreEntryInv, StartRetainInv, RemoveInv, StopInv
<1> QED  BY <1>1, <1>2

-----------------------------------------------------------------------------
(* What the invariant says of the store.                                   *)

LEMMA ReadbackIs ==
  ASSUME Types, NEW g \in Readable, Filed(g), IsWhole(g)
  PROVE  Readback(g) = taken[g]
<1> DEFINE caps == taken[g]
<1>1. caps \in Seq(Capture) /\ folders[g].manifest = ManifestOf(caps)
  BY DEF Filed, Types
<1>2. ASSUME NEW i \in DOMAIN caps
      PROVE  /\ ManifestOf(caps)[i].path = caps[i].path
             /\ caps[i].held =
                  IF ManifestOf(caps)[i].existed THEN folders[g].blobs[i] ELSE Absent
  <2>1. ManifestOf(caps)[i] = [path |-> caps[i].path, existed |-> caps[i].held # Absent]
    BY DEF ManifestOf
  <2>2. i \in DOMAIN folders[g].manifest
    BY <1>1, ManifestType
  <2>3. ManifestOf(caps)[i].existed => HasBlob(g, i)
    BY <1>1, <2>2 DEF IsWhole
  <2>4. caps[i].held # Absent /\ HasBlob(g, i) => folders[g].blobs[i] = caps[i].held
    BY DEF Filed
  <2> DEFINE m == ManifestOf(caps)[i]
  <2>0. m = [path |-> caps[i].path, existed |-> caps[i].held # Absent]
    BY <2>1
  <2> HIDE DEF m, caps
  <2>5. m.path = caps[i].path /\ (m.existed <=> caps[i].held # Absent)
    BY <2>0
  <2>6. caps[i].held = IF m.existed THEN folders[g].blobs[i] ELSE Absent
    <3>1. m.existed => HasBlob(g, i)
      BY <2>3 DEF m
    <3> QED  BY <2>4, <2>5, <3>1 DEF caps
  <2> QED  BY <2>5, <2>6 DEF m
<1>3. DOMAIN ManifestOf(caps) = DOMAIN caps
  BY <1>1, ManifestType
<1> DEFINE back == [i \in DOMAIN caps |-> [path |-> caps[i].path, held |-> caps[i].held]]
<1>4. Readback(g) = back
  BY <1>1, <1>2, <1>3 DEF Readback
<1>5. back = caps
  <2>1. \A i \in DOMAIN caps : caps[i] = [path |-> caps[i].path, held |-> caps[i].held]
    BY <1>1, CaptureFields
  <2>2. caps = [i \in DOMAIN caps |-> caps[i]]
    BY <1>1
  <2> QED  BY <2>1, <2>2
<1> QED  BY <1>4, <1>5

LEMMA RecentAre == Inv => RecentWhole
<1> SUFFICES ASSUME Inv PROVE RecentWhole  OBVIOUS
<1>1. ASSUME NEW g \in Readable \ Doomed PROVE Exact(g)
  <2>1. Filed(g) /\ IsWhole(g)
    BY DEF Inv, DiskInv
  <2> QED  BY <2>1, ReadbackIs DEF Exact, Inv
<1>2. ASSUME NEW c \in Commands, cmd[c].pc = "blobs"
      PROVE  /\ folders[cmd[c].gen].manifest = Unwritten
             /\ \A i \in DOMAIN folders[cmd[c].gen].blobs :
                  i < cmd[c].at /\ folders[cmd[c].gen].blobs[i] = cmd[c].caps[i].held
  BY <1>2 DEF Inv, CommandInv, Saving
<1> QED  BY <1>1, <1>2 DEF RecentWhole

LEMMA UndoableAre == Inv => Undoable
<1> SUFFICES ASSUME Inv, NEW c \in Commands, AtWork(c)
             PROVE  /\ cmd[c].gen \in Readable /\ IsWhole(cmd[c].gen)
                    /\ Readback(cmd[c].gen) = cmd[c].caps
  BY DEF Undoable
<1>1. /\ cmd[c].gen = last /\ cmd[c].gen \in Readable /\ Highest(cmd[c].gen)
      /\ taken[cmd[c].gen] = cmd[c].caps
  BY DEF Inv, CommandInv, Saving
<1>2. Filed(cmd[c].gen) /\ IsWhole(cmd[c].gen)
  BY <1>1, HighestStays DEF Inv, DiskInv, Types
<1> QED  BY <1>1, <1>2, ReadbackIs DEF Inv

LEMMA LastIs == Inv => LastUndoable
<1> SUFFICES ASSUME Inv, last # 0 PROVE last = Newest(Readable)
  BY DEF LastUndoable
<1>1. last \in Readable /\ \A g \in Readable : g <= last
  BY DEF Inv, LastInv
<1>2. Readable \in SUBSET (0..MaxGen)
  BY GensAre DEF Inv, Types, Readable
<1> QED  BY <1>1, <1>2, NewestUnique

LEMMA ExactNext ==
  ASSUME OneAtATime, Inv, Next, NEW c \in Commands,
         cmd[c].pc = "restore", cmd'[c].pc = "retain"
  PROVE  \A i \in DOMAIN taken[cmd[c].from] :
           file[taken[cmd[c].from][i].path] = taken[cmd[c].from][i].held
<1> USE DEF Inv
<1>1. CASE StartRetain(c)
  <2> DEFINE was == taken[cmd[c].from]
  <2>1. /\ cmd[c].from # 0 /\ cmd[c].caps \in Seq(Capture)
        /\ DOMAIN cmd[c].caps = 1..Len(cmd[c].caps) /\ Len(cmd[c].caps) \in Nat
        /\ cmd[c].at \in Nat \ {0}
    BY MemoryIs DEF Types, WellFormed
  <2>2. cmd[c].from \in Readable /\ PathSeq(cmd[c].caps) = PathSeq(was)
    BY <2>1 DEF CommandInv, Restoring
  <2>3. was \in Seq(Capture)
    BY <2>2 DEF DiskInv, Filed, Types
  <2>4. DOMAIN was = DOMAIN cmd[c].caps
    BY <2>1, <2>2, <2>3, SamePaths
  <2>5. cmd[c].at \notin DOMAIN cmd[c].caps
    BY <1>1 DEF StartRetain
  <2>6. \A i \in DOMAIN was : i < cmd[c].at
    BY <2>1, <2>4, <2>5
  <2> QED  BY <2>6 DEF CommandInv, Restoring
<1>2. CASE RestoreEntry(c)
  <2>1. cmd'[c] = [cmd[c] EXCEPT !.at = cmd[c].at + 1] /\ cmd[c] \in Memory
    BY <1>2, WorkTypes, MemoryIs DEF Types
  <2>2. cmd'[c].pc = "restore"
    BY <2>1 DEF Memory
  <2> QED  BY <2>2
<1>3. CASE Stops(c)
  BY <1>3, StopTypes, IdleFields
<1>4. StartRetain(c) \/ RestoreEntry(c) \/ Stops(c)
  <2>1. \A d \in Commands : d = c
    BY DEF OneAtATime
  <2> QED  BY <2>1, StepsAre
           DEF Begin, BeginRestore, Number, MakeFolder, WriteBlob, WriteManifest, WorkOn,
               Removes, RemoveFolder, RemoveFails, RemoveBreaks
<1> QED  BY <1>1, <1>2, <1>3, <1>4

LEMMA InvAlways ==
  ASSUME OneAtATime
  PROVE  Spec => []Inv
  BY InvInit, InvNext, PTL DEF Spec

(* "asked for by number, a generation is either whole or an error", of     *)
(* every generation retention has no business with, and a folder being     *)
(* filled holds that command's captures only: whatever failed before.      *)
THEOREM RecentGenerationsWhole ==
  ASSUME OneAtATime
  PROVE  Spec => []RecentWhole
  BY InvAlways, RecentAre, PTL

(* A command at work can be undone from its own generation.                *)
THEOREM WorkUndoable ==
  ASSUME OneAtATime
  PROVE  Spec => []Undoable
  BY InvAlways, UndoableAre, PTL

(* restore with no argument undoes the last command that touched anything. *)
THEOREM LastCommandUndoable ==
  ASSUME OneAtATime
  PROVE  Spec => []LastUndoable
  BY InvAlways, LastIs, PTL

(* A restore that gets to its end has put back what was captured.          *)
THEOREM RestoresExactly ==
  ASSUME OneAtATime
  PROVE  Spec => RestoreIsExact
<1> DEFINE Back == \A c \in Commands :
             cmd[c].pc = "restore" /\ cmd'[c].pc = "retain" =>
               \A i \in DOMAIN taken[cmd[c].from] :
                 LET e == taken[cmd[c].from][i] IN file[e.path] = e.held
<1>1. Inv /\ [Next]_vars => [Back]_vars
  BY ExactNext
<1> QED  BY <1>1, InvAlways, PTL DEF Spec, RestoreIsExact

-----------------------------------------------------------------------------
(* The store implements the log.                                           *)

EntryOf(caps) == [p \in PathsOf(caps) |-> HeldBy(caps, p)]

(* The log holds what each whole generation captured.                      *)
LEMMA LogIs ==
  ASSUME Inv
  PROVE  LogBar = [g \in Whole |-> EntryOf(taken[g])]
<1>1. \A g \in Whole : Readback(g) = taken[g]
  BY ReadbackIs DEF Inv, DiskInv, Whole
<1> QED  BY <1>1 DEF LogBar, EntryOf

LEMMA LogIsNext ==
  ASSUME Inv'
  PROVE  LogBar' = [g \in Whole' |-> EntryOf(taken'[g])]
<1>1. (Inv => LogBar = [g \in Whole |-> EntryOf(taken[g])])'
  BY LogIs, PTL
<1> QED  BY <1>1

LEMMA LogSame ==
  ASSUME Inv, Inv', Whole' = Whole, UNCHANGED taken
  PROVE  LogBar' = LogBar
  BY LogIs, LogIsNext

AtIt(c) == cmd[c].pc \in {"work", "restore"}

LEMMA OpenIs ==
  ASSUME OneAtATime, Inv, NEW c \in Commands
  PROVE  OpenBar = IF AtIt(c) THEN cmd[c].gen ELSE 0
<1> DEFINE S == {0} \cup {cmd[d].gen : d \in {e \in Commands : cmd[e].pc \in {"work", "restore"}}}
<1>1. S = IF AtIt(c) THEN {0, cmd[c].gen} ELSE {0}
  BY DEF OneAtATime, AtIt
<1>2. cmd[c].gen \in 0..MaxGen /\ 0 \in 0..MaxGen /\ cmd[c].gen \in Nat
  BY MemoryIs, GensAre DEF Inv, Types
<1>3. S \in SUBSET (0..MaxGen)
  BY <1>1, <1>2
<1>4. OpenBar = Newest(S)
  BY DEF OpenBar
<1> HIDE DEF S
<1>5. CASE AtIt(c)
  <2>1. cmd[c].gen \in S /\ \A h \in S : h <= cmd[c].gen
    BY <1>1, <1>2, <1>5
  <2> QED  BY <1>3, <1>4, <1>5, <2>1, NewestUnique
<1>6. CASE ~AtIt(c)
  <2>1. 0 \in S /\ \A h \in S : h <= 0
    BY <1>1, <1>6
  <2> QED  BY <1>3, <1>4, <1>6, <2>1, NewestUnique
<1> QED  BY <1>5, <1>6

LEMMA OpenBefore ==
  ASSUME OneAtATime, Inv, Inv', NEW c \in Commands
  PROVE  /\ OpenBar = IF AtIt(c) THEN cmd[c].gen ELSE 0
         /\ OpenBar' = IF AtIt(c)' THEN cmd'[c].gen ELSE 0
<1>1. OpenBar = IF AtIt(c) THEN cmd[c].gen ELSE 0
  BY OpenIs
<1>2. (OneAtATime /\ Inv => OpenBar = IF AtIt(c) THEN cmd[c].gen ELSE 0)'
  BY OpenIs, PTL
<1> QED  BY <1>1, <1>2 DEF OneAtATime

(* A command at work has its generation in the log, over its own paths.    *)
LEMMA OpenEntry ==
  ASSUME OneAtATime, Inv, NEW c \in Commands, AtIt(c)
  PROVE  /\ OpenBar = cmd[c].gen /\ OpenBar # 0 /\ OpenBar \in Whole
         /\ DOMAIN LogBar[OpenBar] = PathsOf(cmd[c].caps)
<1>1. OpenBar = cmd[c].gen
  BY OpenIs
<1>2. /\ cmd[c].gen \in Readable /\ Highest(cmd[c].gen) /\ taken[cmd[c].gen] = cmd[c].caps
      /\ cmd[c].gen = last
  BY DEF Inv, CommandInv, Saving, AtWork, AtIt
<1>3. IsWhole(cmd[c].gen)
  BY <1>2, HighestStays DEF Inv, DiskInv, Types
<1>4. cmd[c].gen \in Whole /\ cmd[c].gen # 0
  BY <1>2, <1>3, GenIs, GensAre DEF Whole, AtIt, Inv, Types
<1>5. LogBar[cmd[c].gen] = EntryOf(cmd[c].caps)
  BY <1>2, <1>4, LogIs
<1> QED  BY <1>1, <1>4, <1>5 DEF EntryOf

LEMMA LogInit == Init => Log!Init
<1> SUFFICES ASSUME Init PROVE Log!Init  OBVIOUS
<1>1. file \in [Paths -> Content \cup {Absent}]
  BY DEF Init, Held
<1>2. Whole = {}
  BY DEF Init, Whole, Readable, Claimed
<1>3. LogBar = << >>
  BY <1>2 DEF LogBar
<1>4. OpenBar = 0
  <2>1. {cmd[c].gen : c \in {d \in Commands : cmd[d].pc \in {"work", "restore"}}} = {}
    BY DEF Init, Idle
  <2>2. OpenBar = Newest({0})
    BY <2>1 DEF OpenBar
  <2>3. {0} \in SUBSET (0..MaxGen) /\ 0 \in {0} /\ \A h \in {0} : h <= 0
    BY GensAre
  <2> QED  BY <2>2, <2>3, NewestUnique
<1> QED  BY <1>1, <1>3, <1>4 DEF Log!Init

(* A command touches the paths of one of Touches.                          *)
LEMMA PathsAreTouched ==
  ASSUME NEW caps, Capturing(caps)
  PROVE  PathsOf(caps) \in {{t[i] : i \in DOMAIN t} : t \in Touches}
<1>1. PathsOf(caps) = {PathSeq(caps)[i] : i \in DOMAIN PathSeq(caps)}
  BY DEF PathsOf, PathSeq
<1> QED  BY <1>1 DEF Capturing

LEMMA EntryOfCurrent ==
  ASSUME NEW caps \in Seq(Capture), Capturing(caps), Current(caps)
  PROVE  EntryOf(caps) = [p \in PathsOf(caps) |-> file[p]]
<1> SUFFICES ASSUME NEW p \in PathsOf(caps) PROVE HeldBy(caps, p) = file[p]
  BY DEF EntryOf
<1> DEFINE S == {caps[i] : i \in DOMAIN caps}
           e == CHOOSE x \in S : x.path = p
<1>1. PICK i \in DOMAIN caps : caps[i].path = p
  BY DEF PathsOf
<1>2. \E x \in S : x.path = p
  BY <1>1
<1>3. e \in S /\ e.path = p
  BY <1>2
<1>4. PICK j \in DOMAIN caps : e = caps[j]
  BY <1>3
<1>5. e.held = file[p]
  BY <1>3, <1>4 DEF Current
<1> QED  BY <1>5 DEF HeldBy

LEMMA TakeStep ==
  ASSUME OneAtATime, Inv, Inv', NEW c \in Commands, WriteManifest(c)
  PROVE  Log!Take
<1> USE DEF Inv
<1>0. PICK g \in Gens : g = cmd[c].gen
  BY WriteManifestTypes
<1> DEFINE caps == cmd[c].caps
<1>1. /\ Claimed' = Claimed \cup {g} /\ \A h \in Claimed \ {g} : folders'[h] = folders[h]
      /\ cmd'[c] = [cmd[c] EXCEPT !.pc = IF cmd[c].from = 0 THEN "work" ELSE "restore", !.at = 1]
      /\ taken'[g] = caps /\ last' = g
      /\ \A h \in DOMAIN taken \ {g} : taken'[h] = taken[h]
  BY <1>0, WriteManifestTypes
<1>2. /\ Saving(c) /\ cmd[c].pc = "blobs" /\ caps \in Seq(Capture) /\ cmd[c] \in Memory
  BY MemoryIs DEF CommandInv, WriteManifest, Types
<1>3. Capturing(caps) /\ Current(caps) /\ g \in Claimed /\ Highest(g) /\ g \notin Readable
  BY <1>0, <1>2 DEF Saving, Readable
<1>4. OpenBar = 0 /\ OpenBar' = g
  <2>1. cmd'[c].pc \in {"work", "restore"} /\ cmd'[c].gen = g
    BY <1>0, <1>1, <1>2 DEF Memory
  <2> QED  BY <1>2, <2>1, OpenBefore DEF AtIt
<1>5. Whole' = Whole \cup {g}
  <2>1. \A h \in Claimed \ {g} : (h \in Readable' <=> h \in Readable) /\ (IsWhole(h)' <=> IsWhole(h))
    BY <1>1, OthersKeep
  <2>2. last' = g /\ g # 0 => last' \in Readable' /\ IsWhole(last)'
    BY DEF LastInv
  <2>3. g \in Whole'
    BY <1>1, <2>2, GensAre DEF Whole
  <2>4. \A h \in Whole' : h \in Claimed \cup {g}
    BY <1>1 DEF Whole, Readable
  <2>5. \A h \in Whole : h \in Claimed \ {g}
    BY <1>3 DEF Whole, Readable
  <2> QED  BY <2>1, <2>3, <2>4, <2>5 DEF Whole
<1>6. \A h \in Whole : h < g
  <2>1. \A h \in Whole : h \in Claimed /\ h # g
    BY <1>3 DEF Whole, Readable
  <2>2. \A h \in Claimed : h <= g /\ h \in Nat
    BY <1>3, GensAre DEF Highest, Types
  <2>3. g \in Nat
    BY GensAre
  <2> QED  BY <2>1, <2>2, <2>3
<1>7. LogBar = [h \in Whole |-> EntryOf(taken[h])]
  BY LogIs
<1>8. LogBar' = [h \in Whole' |-> EntryOf(taken'[h])]
  BY LogIsNext
<1>9. \A h \in Whole : taken'[h] = taken[h] /\ h # g
  <2>1. \A h \in Whole : h \in DOMAIN taken \ {g}
    BY <1>3 DEF Whole, DiskInv, Filed
  <2> QED  BY <1>1, <2>1
<1> DEFINE t == PathsOf(caps)
           entry == [p \in t |-> file[p]]
<1>10. EntryOf(caps) = entry
  BY <1>2, <1>3, EntryOfCurrent
<1>11. LogBar' = [h \in DOMAIN LogBar \cup {g} |-> IF h = g THEN entry ELSE LogBar[h]]
  <2> HIDE DEF entry, caps
  <2> QED  BY <1>1, <1>5, <1>7, <1>8, <1>9, <1>10
<1>12. t \in {{s[i] : i \in DOMAIN s} : s \in Touches}
  BY <1>3, PathsAreTouched
<1>13. g \in 1..MaxGen /\ g > 0 /\ DOMAIN LogBar = Whole
  BY <1>7, GensAre DEF Gens
<1>14. UNCHANGED file
  BY DEF WriteManifest
<1> HIDE DEF t, caps
<1> QED  BY <1>4, <1>6, <1>11, <1>12, <1>13, <1>14 DEF Log!Take

(* A command at work changes only what its generation covers.              *)
LEMMA WholeStays ==
  ASSUME Inv, UNCHANGED <<folders, taken, last>>
  PROVE  Whole' = Whole
<1>1. /\ Claimed' = Claimed /\ Readable' = Readable
      /\ \A g \in Claimed : IsWhole(g)' <=> IsWhole(g)
  BY DiskStays DEF Inv
<1>2. Readable \subseteq Claimed
  BY DEF Readable
<1> QED  BY <1>1, <1>2 DEF Whole

LEMMA ChangeStep ==
  ASSUME OneAtATime, Inv, Inv', NEW c \in Commands, WorkOn(c) \/ RestoreEntry(c)
  PROVE  Log!Change
<1>1. cmd[c].at \in 1..Len(cmd[c].caps) /\ cmd'[c] = [cmd[c] EXCEPT !.at = cmd[c].at + 1]
  BY WorkTypes DEF Inv
<1>2. cmd[c].pc \in {"work", "restore"} /\ cmd[c] \in Memory
  BY MemoryIs DEF WorkOn, RestoreEntry, Inv, Types
<1>3. cmd'[c].pc = cmd[c].pc /\ cmd'[c].gen = cmd[c].gen
  BY <1>1, <1>2 DEF Memory
<1>4. UNCHANGED <<folders, taken, last>>
  BY DEF WorkOn, RestoreEntry
<1>5. LogBar' = LogBar
  BY <1>4, WholeStays, LogSame
<1>6. /\ OpenBar # 0 /\ DOMAIN LogBar[OpenBar] = PathsOf(cmd[c].caps)
      /\ OpenBar = cmd[c].gen
  BY <1>2, OpenEntry DEF AtIt
<1>7. OpenBar' = OpenBar
  BY <1>2, <1>3, <1>6, OpenBefore DEF AtIt
<1>8. /\ cmd[c].at \in DOMAIN cmd[c].caps
      /\ cmd[c].caps[cmd[c].at].path \in PathsOf(cmd[c].caps)
  BY <1>1, MemoryIs DEF PathsOf, Inv, Types
<1>9. \E p \in PathsOf(cmd[c].caps), v \in Content \cup {Absent} : file' = [file EXCEPT ![p] = v]
  <2>1. CASE WorkOn(c)
    BY <1>8, <2>1 DEF WorkOn, Held
  <2>2. CASE RestoreEntry(c)
    <3> DEFINE i == cmd[c].at
               e == cmd[c].back[i]
               v == IF e.existed THEN folders[cmd[c].from].blobs[i] ELSE Absent
               was == taken[cmd[c].from]
    <3>1. file' = [file EXCEPT ![e.path] = v]
      BY <2>2 DEF RestoreEntry, PutBack
    <3>2. v \in Content \cup {Absent}
      BY <2>2 DEF RestoreEntry, HasBlob, Inv, Types, Folders
    <3>3. cmd[c].from # 0 /\ cmd[c].pc = "restore"
      BY <2>2, MemoryIs DEF RestoreEntry, WellFormed, Inv, Types
    <3>4. /\ cmd[c].from \in Readable /\ cmd[c].back = folders[cmd[c].from].manifest
          /\ PathSeq(cmd[c].caps) = PathSeq(was)
      BY <3>3 DEF Inv, CommandInv, Restoring
    <3>5. cmd[c].back = ManifestOf(was) /\ was \in Seq(Capture)
      BY <3>4 DEF Inv, DiskInv, Filed, Types
    <3>6. cmd[c].caps \in Seq(Capture)
      BY MemoryIs DEF Inv, Types
    <3>7. i \in DOMAIN was /\ was[i].path = cmd[c].caps[i].path
      BY <1>8, <3>4, <3>5, <3>6, SamePaths DEF Inv
    <3>8. e.path = was[i].path
      BY <3>5, <3>7 DEF ManifestOf
    <3> HIDE DEF v
    <3> QED  BY <1>8, <3>1, <3>2, <3>7, <3>8
  <2> QED  BY <2>1, <2>2
<1> QED  BY <1>5, <1>6, <1>7, <1>9 DEF Log!Change

(* Until it gets to work, and once it is done, it leaves the log alone.    *)
LEMMA NothingSeen ==
  ASSUME OneAtATime, Inv, Inv', NEW c \in Commands, UNCHANGED <<file, taken>>,
         Whole' = Whole, ~AtIt(c), ~AtIt(c)'
  PROVE  UNCHANGED Log!vars
<1>1. LogBar' = LogBar
  BY LogSame
<1>2. OpenBar = 0 /\ OpenBar' = 0
  BY OpenBefore
<1> QED  BY <1>1, <1>2 DEF Log!vars

LEMMA QuietStep ==
  ASSUME OneAtATime, Inv, Inv', NEW c \in Commands,
         \/ \E t \in Touches : Begin(c, t)
         \/ \E g \in Readable : BeginRestore(c, g)
         \/ Number(c)
  PROVE  UNCHANGED Log!vars
<1>1. UNCHANGED <<file, folders, taken, last>> /\ ~AtIt(c)
  BY DEF Begin, BeginRestore, Number, AtIt
<1>2. ~AtIt(c)'
  <2>1. CASE \E t \in Touches : Begin(c, t)
    <3>1. PICK t \in Touches : Begin(c, t)
      BY <2>1
    <3>2. cmd'[c].pc = "number"
      BY <3>1, BeginTypes DEF Idle, Inv
    <3> QED  BY <3>2 DEF AtIt
  <2>2. CASE \E g \in Readable : BeginRestore(c, g)
    <3>1. PICK g \in Readable : BeginRestore(c, g)
      BY <2>2
    <3>2. cmd'[c].pc = "number"
      BY <3>1, BeginRestoreTypes DEF Idle, Inv
    <3> QED  BY <3>2 DEF AtIt
  <2>3. CASE Number(c)
    <3>1. cmd'[c].pc = "folder"
      BY <2>3, NumberTypes, MemoryIs DEF Memory, Inv, Types
    <3> QED  BY <3>1 DEF AtIt
  <2> QED  BY <2>1, <2>2, <2>3
<1> QED  BY <1>1, <1>2, WholeStays, NothingSeen

(* Filling a folder shows nothing until its manifest is there.             *)
LEMMA FillStep ==
  ASSUME OneAtATime, Inv, Inv', NEW c \in Commands, MakeFolder(c) \/ WriteBlob(c)
  PROVE  UNCHANGED Log!vars
<1> DEFINE g == cmd[c].gen
<1>1. cmd[c].pc \in {"folder", "blobs"} /\ g \in Gens /\ UNCHANGED <<file, taken>>
  BY GenIs DEF MakeFolder, WriteBlob, Inv, Types
<1>2. cmd'[c].pc = "blobs" /\ cmd'[c].gen = g
  BY MakeFolderTypes, WriteBlobTypes, MemoryIs DEF Memory, Inv, Types, WriteBlob
<1>3. g \notin Readable
  BY <1>1 DEF Inv, CommandInv, Saving, Readable
<1>4. folders'[g].manifest = Unwritten
  BY <1>2 DEF Inv, CommandInv, Saving
<1>5. \A h \in Claimed \ {g} : h \in Claimed' /\ folders'[h] = folders[h]
  BY DEF MakeFolder, WriteBlob, Placed, Claimed
<1>6. Claimed' \subseteq Claimed \cup {g}
  BY DEF MakeFolder, WriteBlob, Placed, Claimed
<1>7. \A h \in Claimed \ {g} : (h \in Readable' <=> h \in Readable) /\ (IsWhole(h)' <=> IsWhole(h))
  BY <1>5, OthersKeep
<1>8. \A h \in Whole : h \in Claimed \ {g}
  BY <1>3 DEF Whole, Readable
<1>9. \A h \in Whole' : h \in Claimed \ {g}
  BY <1>4, <1>6 DEF Whole, Readable
<1>10. Whole' = Whole
  BY <1>7, <1>8, <1>9 DEF Whole
<1> QED  BY <1>1, <1>2, <1>10, NothingSeen DEF AtIt

(* A command that succeeds or stops closes its entry, if it opened one.    *)
LEMMA CloseStep ==
  ASSUME OneAtATime, Inv, Inv', NEW c \in Commands, StartRetain(c) \/ Stops(c)
  PROVE  Log!Close \/ UNCHANGED Log!vars
<1>1. UNCHANGED <<file, folders, taken, last>>
  BY StopTypes DEF StartRetain, Inv
<1>2. Whole' = Whole /\ LogBar' = LogBar
  BY <1>1, WholeStays, LogSame
<1>3. ~AtIt(c)'
  <2>1. CASE StartRetain(c)
    BY <2>1, StartRetainTypes, MemoryIs DEF Memory, Inv, Types, AtIt
  <2>2. CASE Stops(c)
    BY <2>2, StopTypes, IdleFields DEF AtIt, Inv
  <2> QED  BY <2>1, <2>2
<1>4. OpenBar' = 0
  BY <1>3, OpenBefore
<1>5. CASE AtIt(c)
  <2>1. OpenBar # 0
    BY <1>5, OpenEntry
  <2> QED  BY <1>1, <1>2, <1>4, <2>1 DEF Log!Close
<1>6. CASE ~AtIt(c)
  BY <1>1, <1>2, <1>3, <1>6, NothingSeen
<1> QED  BY <1>5, <1>6

LEMMA DropStep ==
  ASSUME OneAtATime, Inv, Inv', NEW c \in Commands, Removes(c)
  PROVE  Log!Drop \/ UNCHANGED Log!vars
<1>0. PICK r \in Gens : r = Oldest(c)
  BY RemoveTypes DEF Inv
<1>1. /\ Claimed' \subseteq Claimed /\ r \in cmd[c].doomed
      /\ cmd'[c] = [cmd[c] EXCEPT !.doomed = cmd[c].doomed \ {r}]
      /\ \A h \in Claimed \ {r} : h \in Claimed' /\ folders'[h] = folders[h]
  BY <1>0, RemoveTypes DEF Inv
<1>2. cmd[c].pc = "retain" /\ cmd[c] \in Memory /\ UNCHANGED <<file, taken, last>>
  BY MemoryIs DEF Removes, RemoveFolder, RemoveFails, RemoveBreaks, Inv, Types
<1>3. ~AtIt(c) /\ ~AtIt(c)'
  BY <1>1, <1>2 DEF Memory, AtIt
<1>4. /\ last \in Readable /\ Highest(last) /\ r \in Doomed
  BY <1>1, <1>2 DEF Saving, AtWork, Inv, CommandInv
<1>5. last # r /\ last \in Whole
  BY <1>4, HighestStays DEF Inv, Types, DiskInv, Whole
<1>6. \A h \in Claimed \ {r} : (h \in Readable' <=> h \in Readable) /\ (IsWhole(h)' <=> IsWhole(h))
  BY <1>1, OthersKeep
<1>7. \A h \in Whole : h \in Claimed
  BY DEF Whole, Readable
<1>8. \A h \in Whole' : h \in Claimed
  BY <1>1 DEF Whole, Readable
<1>9. r \in Whole' => r \in Whole
  <2> SUFFICES ASSUME r \in Whole' PROVE r \in Whole  OBVIOUS
  <2>1. r \in Readable' /\ IsWhole(r)'
    BY DEF Whole
  <2>2. /\ folders'[r].manifest = folders[r].manifest /\ r \in Readable
        /\ \A i : HasBlob(r, i)' => HasBlob(r, i)
    BY <1>0, <2>1, RemovedKeeps DEF Inv
  <2> QED  BY <2>1, <2>2 DEF Whole, IsWhole
<1>10. Whole' = Whole \/ (r \in Whole /\ Whole' = Whole \ {r})
  <2>1. \A h \in Claimed \ {r} : h \in Whole' <=> h \in Whole
    BY <1>6 DEF Whole
  <2> QED  BY <1>7, <1>8, <1>9, <2>1
<1>11. CASE Whole' = Whole
  BY <1>2, <1>3, <1>11, NothingSeen
<1>12. CASE r \in Whole /\ Whole' = Whole \ {r}
  <2>1. LogBar = [h \in Whole |-> EntryOf(taken[h])]
    BY LogIs
  <2>2. LogBar' = [h \in Whole' |-> EntryOf(taken[h])]
    BY <1>2, LogIsNext
  <2>3. LogBar' = [h \in DOMAIN LogBar \ {r} |-> LogBar[h]] /\ DOMAIN LogBar = Whole
    BY <1>12, <2>1, <2>2
  <2>4. r < last
    <3>1. r \in Claimed /\ last \in Claimed
      BY <1>5, <1>7, <1>12
    <3>2. r <= last /\ r \in Nat /\ last \in Nat
      BY <1>4, <3>1, GensAre DEF Highest, Inv, Types
    <3> QED  BY <1>5, <3>2
  <2>5. OpenBar = 0 /\ OpenBar' = 0
    BY <1>3, OpenBefore
  <2> QED  BY <1>2, <1>5, <1>12, <2>3, <2>4, <2>5 DEF Log!Drop
<1> QED  BY <1>10, <1>11, <1>12

LEMMA LogStep ==
  ASSUME OneAtATime
  PROVE  Inv /\ Inv' /\ [Next]_vars => [Log!Next]_(Log!vars)
<1> SUFFICES ASSUME Inv, Inv', [Next]_vars PROVE Log!Next \/ UNCHANGED Log!vars
  OBVIOUS
<1>1. CASE UNCHANGED vars
  <2>1. UNCHANGED <<file, folders, cmd, taken, last>>
    BY <1>1 DEF vars
  <2>2. LogBar' = LogBar
    BY <2>1, WholeStays, LogSame
  <2>3. OpenBar' = OpenBar
    BY <2>1 DEF OpenBar
  <2> QED  BY <2>1, <2>2, <2>3 DEF Log!vars
<1>2. CASE Next
  <2>1. PICK c \in Commands :
          \/ \E t \in Touches : Begin(c, t)
          \/ \E g \in Readable : BeginRestore(c, g)
          \/ Number(c) \/ MakeFolder(c) \/ WriteBlob(c) \/ WriteManifest(c)
          \/ WorkOn(c) \/ RestoreEntry(c)
          \/ StartRetain(c) \/ Removes(c) \/ Stops(c)
    BY <1>2, StepsAre
  <2>2. CASE WriteManifest(c)
    BY <2>2, TakeStep DEF Log!Next
  <2>3. CASE WorkOn(c) \/ RestoreEntry(c)
    BY <2>3, ChangeStep DEF Log!Next
  <2>4. CASE StartRetain(c) \/ Stops(c)
    BY <2>4, CloseStep DEF Log!Next
  <2>5. CASE Removes(c)
    BY <2>5, DropStep DEF Log!Next
  <2> QED  BY <2>1, <2>2, <2>3, <2>4, <2>5, QuietStep, FillStep
<1> QED  BY <1>1, <1>2

(* The store and the commands around it implement the log of Snapshots: a  *)
(* generation appears whole, under a number above every other, before what *)
(* it covers changes; a command changes nothing its generation could not   *)
(* put back; no generation changes and the newest never goes.              *)
THEOREM StoreImplementsLog ==
  ASSUME OneAtATime
  PROVE  Spec => ImplementsLog
<1>1. Spec => []Inv
  BY InvAlways
<1>2. Inv /\ Inv' /\ [Next]_vars => [Log!Next]_(Log!vars)
  BY LogStep
<1> QED  BY <1>1, <1>2, LogInit, PTL DEF Spec, ImplementsLog, Log!Spec
=============================================================================
