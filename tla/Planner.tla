------------------------------- MODULE Planner -------------------------------
(***************************************************************************)
(* One CLI's home and the engine that places artifacts in it and takes     *)
(* them back (src/darq/core/planner.py), driven the way cli.install and    *)
(* cli.uninstall drive it: plan, apply, retire, and only then the journal  *)
(* (_merged, store.save), with the rollback each of those failures calls   *)
(* for. The user edits the home between runs, a process can die anywhere,  *)
(* and a write can fail anywhere.                                          *)
(*                                                                         *)
(* An artifact and the journal record it becomes have one shape,           *)
(* [id, kind, path, pointer, val]: val stands for the content, its digest  *)
(* and its mode, which the code always compares and writes together. A     *)
(* list a pointer "/-" appends to is the set of its items: their order,    *)
(* and how often an item is repeated, are abstracted. Directories,         *)
(* dependency trees and snapshots are left to other modules.               *)
(***************************************************************************)
EXTENDS Naturals, FiniteSets

CONSTANTS
  Files,       \* paths of artifacts that are whole files
  Docs,        \* paths of the configuration documents keys are written in
  Keys,        \* pointers that name one slot of a document
  Lists,       \* pointers that append to a list (they end in "/-")
  Value,       \* contents: of a file, of a key, of a list item
  Ids,         \* artifact ids
  Releases,    \* what a run may be asked to render: each a set of artifacts
  Absent,      \* nothing there
  Garbage,     \* there, but unreadable (a file) or unparseable (a document)
  Unsaved,     \* a path apply holds no earlier content for
  Whole,       \* the "pointer" of a file
  NoEntry,     \* no journal record claims the artifact
  HandItems,   \* the list items the user may add by hand
  Window,      \* what the user may edit between plan and apply
  LateErrors,  \* whether write_atomic may report a failure after its rename
  MaxRuns, MaxEdits, MaxFaults   \* bounds on the instance TLC explores

Paths    == Files \cup Docs
Pointers == Keys \cup Lists

Artifact ==
  [id: Ids, kind: {"file"}, path: Files, pointer: {Whole}, val: Value]
    \cup [id: Ids, kind: {"config-key"}, path: Docs, pointer: Pointers, val: Value]

(* A parsed document: what each slot holds, and the items of each list.    *)
Document ==
  { d \in [Pointers -> (Value \cup {Absent}) \cup SUBSET Value] :
      /\ \A k \in Keys  : d[k] \in Value \cup {Absent}
      /\ \A l \in Lists : d[l] \in SUBSET Value }

EmptyDoc == [p \in Pointers |-> IF p \in Lists THEN {} ELSE Absent]

FileContent == Value \cup {Absent, Garbage}
DocContent  == Document \cup {Absent, Garbage}
Content     == FileContent \cup DocContent

ASSUME Disjoint ==
  /\ Files \cap Docs = {}
  /\ Keys \cap Lists = {}
  /\ Whole \notin Pointers
  /\ {Absent, Garbage} \cap (Value \cup Document) = {}
  /\ Absent # Garbage
  /\ Unsaved \notin Content
  /\ NoEntry \notin Artifact
ASSUME ReleasesAreArtifacts == Releases \subseteq SUBSET Artifact
ASSUME Options ==
  /\ HandItems \subseteq Value
  /\ Window \subseteq {"file", "document"}
  /\ LateErrors \in BOOLEAN
  /\ {MaxRuns, MaxEdits, MaxFaults} \subseteq Nat

VARIABLES
  home,        \* what is on disk at every path
  journal,     \* the records the journal on disk holds for this CLI
  op,          \* the command running: "install", "uninstall" or "none"
  phase,       \* how far it got
  steps,       \* Plan.steps, as {[art, action, entry]}
  todo,        \* the placements apply has not reached
  created,     \* apply's created: files this run made
  restorable,  \* apply's restorable: what a path held before this run
  records,     \* Applied.records so far
  retiring,    \* records still to retire
  gone,        \* Retired.removed so far
  before,      \* ghost: the home when the plan was made
  asked,       \* ghost: the records this run set out to retire
  earned,      \* ghost: the claims darq put on disk and never gave up
  clean,       \* ghost: no run died or failed to undo itself
  runs, edits, faults  \* bounds

plan    == <<steps, before, asked>>
undo    == <<created, restorable, records>>
ghosts  == <<earned, clean>>
bounds  == <<runs, edits, faults>>
vars == <<home, journal, op, phase, plan, todo, undo, retiring, gone, ghosts, bounds>>

-----------------------------------------------------------------------------
(* Addresses and claims.                                                   *)

Appends(r) == r.pointer \in Lists

(* record_address and record_append_identity in one: a file or a key is    *)
(* claimed by where it is, a list item also by what it is.                 *)
Claim(r) == [path |-> r.path, pointer |-> r.pointer,
             item |-> IF Appends(r) THEN r.val ELSE Absent]
Claims(R) == {Claim(r) : r \in R}

Parsed(content) == content \notin {Absent, Garbage}

(* What _index_of and ownership.occupies answer: is the claimed thing      *)
(* there.                                                                  *)
Present(h, c) ==
  IF c.path \in Files THEN h[c.path] # Absent
  ELSE /\ Parsed(h[c.path])
       /\ IF c.pointer \in Lists THEN c.item \in h[c.path][c.pointer]
                                 ELSE h[c.path][c.pointer] # Absent

(* The claimed thing is there and holds what the record says.              *)
Holds(h, r) ==
  IF r.path \in Files THEN h[r.path] = r.val
  ELSE /\ Parsed(h[r.path])
       /\ IF Appends(r) THEN r.val \in h[r.path][r.pointer]
                        ELSE h[r.path][r.pointer] = r.val

-----------------------------------------------------------------------------
(* plan: what happens to each artifact.                                    *)

(* The journal record an artifact answers to: by id, and only when the id  *)
(* is unknown by address, or by item for an append.                        *)
EntryOf(a) ==
  LET owned   == {e \in journal : e.id = a.id}
      claimed == {e \in journal : e.kind = a.kind /\ Claim(e) = Claim(a)}
  IN  IF owned # {}   THEN CHOOSE e \in owned   : TRUE
      ELSE IF claimed # {} THEN CHOOSE e \in claimed : TRUE
      ELSE NoEntry

(* _file_step: a path is only written over when the record claims exactly  *)
(* that file and it can be read.                                           *)
FileAction(a, entry) ==
  LET found == home[a.path] IN
  IF found = Absent THEN "create"
  ELSE IF entry = NoEntry THEN "skip"
  ELSE IF entry.kind # "file" \/ entry.path # a.path \/ found = Garbage THEN "skip"
  ELSE IF found = a.val THEN "unchanged" ELSE "update"

Claimable(a, entry) ==
  /\ entry # NoEntry
  /\ entry.kind = "config-key"
  /\ entry.path = a.path
  /\ entry.pointer = a.pointer

(* Broken: places a key without asking whether the user has one there.     *)
WritesOver(a, entry) == "create"

(* _key_step, with _plain_step for an artifact no record makes ours.       *)
KeyAction(a, entry) ==
  IF ~Claimable(a, entry) THEN IF Present(home, Claim(a)) THEN "skip" ELSE "create"
  ELSE IF Holds(home, a) THEN "unchanged"
  ELSE IF Present(home, Claim(entry)) THEN "update" ELSE "create"

StepOf(a) ==
  LET entry  == EntryOf(a)
      action == IF a.kind = "file" THEN FileAction(a, entry) ELSE KeyAction(a, entry)
  IN  [art |-> a, action |-> action,
       entry |-> IF a.kind = "file" \/ Claimable(a, entry) THEN entry ELSE NoEntry]

Placements == {s \in steps : s.action \in {"create", "update"}}
UpdatedPaths == {s.art.path : s \in {t \in steps : t.action = "update"}}

(* _refuse_duplicates.                                                     *)
Duplicates(arts) ==
  \E a, b \in arts : a # b /\ (a.id = b.id \/ Claim(a) = Claim(b))

(* Broken: tells what is still wanted by id alone.                         *)
RetiredById(arts) == {e \in journal : \A a \in arts : e.id # a.id}

(* retirements: a record goes when neither its id nor what it claims is    *)
(* rendered any more.                                                      *)
Retirements(arts) ==
  {e \in journal : /\ \A a \in arts : e.id # a.id
                   /\ \A a \in arts : e.kind = a.kind => Claim(e) # Claim(a)}

(* Broken: takes what cannot be parsed for an empty document.              *)
ReadAsEmpty(d) == TRUE
(* _read_document: what is there and cannot be parsed raises.              *)
Parses(d) == home[d] # Garbage

(* A document a run would have to read must parse, or plan raises.         *)
Readable(arts) == \A a \in arts : a.kind = "config-key" => Parses(a.path)

-----------------------------------------------------------------------------
(* Writing and unwriting.                                                  *)

(* Broken: appends the new item and leaves the one it replaces.            *)
AppendsOnly(content, S) ==
  LET doc == IF Parsed(content) THEN content ELSE EmptyDoc
      At(p) == {s \in S : s.art.pointer = p}
  IN  [p \in Pointers |->
         IF p \in Lists THEN doc[p] \cup {s.art.val : s \in At(p)}
         ELSE IF At(p) = {} THEN doc[p]
         ELSE (CHOOSE s \in At(p) : TRUE).art.val]

(* pointer.set_at for every step of one document, on {} when it is absent. *)
SetAll(content, S) ==
  LET doc == IF Parsed(content) THEN content ELSE EmptyDoc
      At(p) == {s \in S : s.art.pointer = p}
      replaced(p) == {s.entry.val : s \in {t \in At(p) : t.action = "update"}}
  IN  [p \in Pointers |->
         IF p \in Lists THEN (doc[p] \ replaced(p)) \cup {s.art.val : s \in At(p)}
         ELSE IF At(p) = {} THEN doc[p]
         ELSE (CHOOSE s \in At(p) : TRUE).art.val]

(* _retire_key for every record of one document.                           *)
UnsetAll(doc, R) ==
  [p \in Pointers |->
     IF p \in Lists THEN doc[p] \ {r.val : r \in {q \in R : q.pointer = p}}
     ELSE IF \E r \in R : r.pointer = p THEN Absent ELSE doc[p]]

(* The home once retire has taken R out of h.                              *)
TakenOut(h, R) ==
  [p \in Paths |->
     LET here == {r \in R : r.path = p} IN
     IF here = {} THEN h[p]
     ELSE IF p \in Files THEN Absent
     ELSE IF Parsed(h[p]) THEN UnsetAll(h[p], here) ELSE h[p]]

(* Broken: writes back a path nothing was held for, and leaves what apply  *)
(* created.                                                                *)
WritesAllBack(h) == restorable
LeavesCreated(h) ==
  [p \in Paths |-> IF restorable[p] # Unsaved THEN restorable[p] ELSE h[p]]

(* _undo: what was held is written back, what was created is removed.      *)
Undone(h) ==
  [p \in Paths |->
     IF restorable[p] # Unsaved THEN restorable[p]
     ELSE IF p \in created THEN Absent ELSE h[p]]

(* Applied.replaced.                                                       *)
Replaced == {p \in UpdatedPaths : restorable[p] \notin {Unsaved, Absent}}
(* Broken: retires what was updated too.                                   *)
RetiresUpdated ==
  TakenOut([p \in Paths |-> IF p \in Replaced THEN restorable[p] ELSE home[p]], records)
(* unplace: what was updated is put back first, and only what this run     *)
(* created anywhere else is then retired.                                  *)
Unplaced ==
  LET back == [p \in Paths |-> IF p \in Replaced THEN restorable[p] ELSE home[p]]
  IN  TakenOut(back, {r \in records : r.path \notin Replaced})

-----------------------------------------------------------------------------
Untouched == [p \in Paths |-> Unsaved]

Init ==
  /\ home = [p \in Paths |-> Absent]
  /\ journal = {}
  /\ op = "none" /\ phase = "idle"
  /\ steps = {} /\ before = home /\ asked = {}
  /\ todo = {} /\ created = {} /\ restorable = Untouched /\ records = {}
  /\ retiring = {} /\ gone = {}
  /\ earned = {} /\ clean = TRUE
  /\ runs = 0 /\ edits = 0 /\ faults = 0

(* Everything a run keeps in memory goes with the process.                 *)
Forget ==
  /\ op' = "none" /\ phase' = "idle"
  /\ steps' = {} /\ asked' = {} /\ todo' = {}
  /\ created' = {} /\ restorable' = Untouched /\ records' = {}
  /\ retiring' = {} /\ gone' = {}
  /\ before' = home'

(* A claim is settled away when nothing is there and no record claims it.  *)
Settled(C) == {c \in C : Present(home', c) \/ c \in Claims(journal')}

(* What the user may do to one path by hand.                               *)
EditFile(f) == \E c \in FileContent \ {home[f]} : home' = [home EXCEPT ![f] = c]
EditSlot(d) ==
  /\ Parsed(home[d])
  /\ \/ \E k \in Keys, v \in Value \cup {Absent} :
          v # home[d][k] /\ home' = [home EXCEPT ![d][k] = v]
     \/ \E l \in Lists, v \in Value :
          \/ v \in home[d][l] /\ home' = [home EXCEPT ![d][l] = @ \ {v}]
          \/ v \in HandItems \ home[d][l] /\ home' = [home EXCEPT ![d][l] = @ \cup {v}]
EditDoc(d) ==
  \/ EditSlot(d)
  \/ home[d] # Absent /\ home' = [home EXCEPT ![d] = Absent]
  \/ home[d] = Absent /\ home' = [home EXCEPT ![d] = EmptyDoc]
  \/ home[d] # Garbage /\ home' = [home EXCEPT ![d] = Garbage]

(* The user works on the home while nothing runs.                          *)
UserEdits ==
  /\ phase = "idle" /\ edits < MaxEdits
  /\ (\E f \in Files : EditFile(f)) \/ (\E d \in Docs : EditDoc(d))
  /\ UNCHANGED journal
  /\ earned' = Settled(earned)
  /\ before' = home'
  /\ edits' = edits + 1
  /\ UNCHANGED <<op, phase, steps, asked, todo, undo, retiring, gone,
                 clean, runs, faults>>

(* The user works on the home after the plan and before apply: servers are *)
(* downloaded in between.                                                  *)
UserEditsInWindow ==
  /\ phase = "planned" /\ edits < MaxEdits
  /\ \/ "file" \in Window /\ \E f \in Files : home[f] = Absent /\ EditFile(f)
     \/ "document" \in Window
          /\ \E d \in Docs : home[d] # Garbage /\ home' = [home EXCEPT ![d] = Garbage]
  /\ UNCHANGED journal
  /\ earned' = Settled(earned)
  /\ before' = home'
  /\ edits' = edits + 1
  /\ UNCHANGED <<op, phase, steps, asked, todo, undo, retiring, gone,
                 clean, runs, faults>>

-----------------------------------------------------------------------------
(* The run.                                                                *)

(* cli.install up to its plan: nothing is written before it is complete.   *)
Plan(arts) ==
  /\ phase = "idle" /\ runs < MaxRuns
  /\ ~Duplicates(arts) /\ Readable(arts)
  /\ op' = "install" /\ phase' = "planned"
  /\ steps' = {StepOf(a) : a \in arts}
  /\ asked' = Retirements(arts)
  /\ before' = home
  /\ runs' = runs + 1
  /\ UNCHANGED <<home, journal, todo, undo, retiring, gone, ghosts, edits, faults>>

(* planner.apply is entered.                                               *)
StartApply ==
  /\ phase = "planned"
  /\ phase' = "apply"
  /\ todo' = Placements
  /\ UNCHANGED <<home, journal, op, plan, undo, retiring, gone, ghosts, bounds>>

(* What a placement that landed leaves behind besides the content.         *)
Took(S) ==
  /\ todo' = todo \ S
  /\ records' = records \cup {s.art : s \in S}
  /\ earned' = earned \cup Claims({s.art : s \in S})

(* The first loop of apply: one file, in any order of the catalogue.       *)
FileStep(s) ==
  /\ phase = "apply" /\ s \in todo /\ s.art.kind = "file"
  /\ s.action = "update" => home[s.art.path] \notin {Absent, Garbage}
  /\ restorable' = IF s.action = "update" /\ restorable[s.art.path] = Unsaved
                   THEN [restorable EXCEPT ![s.art.path] = home[s.art.path]]
                   ELSE restorable
  /\ home' = [home EXCEPT ![s.art.path] = s.art.val]
  /\ created' = IF s.action = "create" THEN created \cup {s.art.path} ELSE created
ApplyFile(s) ==
  /\ FileStep(s) /\ Took({s})
  /\ UNCHANGED <<journal, op, phase, plan, retiring, gone, clean, bounds>>

(* The second loop, once the files are done: one document, read, changed   *)
(* at every key and written once.                                          *)
FilesDone == \A s \in todo : s.art.kind # "file"
ApplyDoc(d) ==
  LET S == {s \in todo : s.art.path = d} IN
  /\ phase = "apply" /\ FilesDone
  /\ S # {} /\ Parses(d)
  /\ restorable' = IF restorable[d] = Unsaved
                   THEN [restorable EXCEPT ![d] = home[d]] ELSE restorable
  /\ home' = [home EXCEPT ![d] = SetAll(home[d], S)]
  /\ Took(S)
  /\ UNCHANGED <<created, journal, op, phase, plan, retiring, gone, clean, bounds>>

(* A read, a write, a codec or the caller's on_step fails: everything this *)
(* run wrote is undone.                                                    *)
ApplyFails ==
  /\ phase = "apply" /\ steps # {} /\ Placements # {} /\ faults < MaxFaults
  /\ home' = Undone(home)
  /\ UNCHANGED journal
  /\ earned' = Settled(earned)
  /\ phase' = "undone"
  /\ faults' = faults + 1
  /\ UNCHANGED <<op, plan, todo, undo, retiring, gone, clean, runs, edits>>

(* write_atomic renamed the new content into place and then could not sync *)
(* the directory: apply is told the write failed.                          *)
ApplyFailsLate(s) ==
  /\ LateErrors /\ phase = "apply" /\ faults < MaxFaults
  /\ s \in todo /\ s.art.kind = "file"
  /\ s.action = "update" => home[s.art.path] \notin {Absent, Garbage}
  /\ LET h == [home EXCEPT ![s.art.path] =
                 IF s.action = "update" THEN home[s.art.path] ELSE s.art.val]
     IN  home' = Undone(h)
  /\ UNCHANGED journal
  /\ earned' = Settled(earned \cup {Claim(s.art)})
  /\ phase' = "undone"
  /\ faults' = faults + 1
  /\ UNCHANGED <<op, plan, todo, undo, retiring, gone, clean, runs, edits>>

(* A document stopped parsing since the plan: _read_document raises a      *)
(* PlannerError, which the except clause around the loops does not name.   *)
ApplyUnparseable ==
  /\ phase = "apply" /\ FilesDone
  /\ \E s \in todo : ~Parses(s.art.path)
  /\ phase' = "undone"
  /\ UNCHANGED <<home, journal, op, plan, todo, undo, retiring, gone, ghosts, bounds>>

(* The undo itself fails on some paths and says so.                        *)
UndoFails ==
  /\ phase = "apply" /\ Placements # {} /\ faults + 1 < MaxFaults
  /\ \E S \in SUBSET Paths :
       home' = [p \in Paths |-> IF p \in S THEN Undone(home)[p] ELSE home[p]]
  /\ clean' = FALSE
  /\ faults' = faults + 2
  /\ Forget
  /\ UNCHANGED <<journal, earned, runs, edits>>

-----------------------------------------------------------------------------
(* Taking back: what install no longer renders, or all uninstall claims.   *)

(* apply returns; cli.install hands the retirements to retire.             *)
StartRetire ==
  /\ phase = "apply" /\ todo = {}
  /\ phase' = "retire"
  /\ retiring' = asked
  /\ UNCHANGED <<home, journal, op, plan, todo, undo, gone, ghosts, bounds>>

(* cli.uninstall: every record the journal holds is to be retired.         *)
Uninstall ==
  /\ phase = "idle" /\ runs < MaxRuns
  /\ journal # {}
  /\ op' = "uninstall" /\ phase' = "retire"
  /\ retiring' = journal /\ asked' = journal
  /\ before' = home
  /\ runs' = runs + 1
  /\ UNCHANGED <<home, journal, steps, todo, undo, gone, ghosts, edits, faults>>

(* _retire_key says "unaccounted" only of an item that is not in a list    *)
(* that still has some.                                                    *)
Unaccounted(r) ==
  /\ Parsed(home[r.path]) /\ Appends(r)
  /\ home[r.path][r.pointer] # {} /\ r.val \notin home[r.path][r.pointer]

(* The others of the group, if they come first, leave nothing in its list. *)
Emptied(r, R) ==
  home[r.path][r.pointer] \subseteq {q.val : q \in {s \in R : s.pointer = r.pointer}}

(* _retire_config_keys: every record of one document, one after the other  *)
(* and in one write.                                                       *)
RetireDoc(d) ==
  LET R == {r \in retiring : r.path = d}
      unaccounted == {r \in R : Unaccounted(r)}
  IN
  /\ phase = "retire" /\ R # {} /\ Parses(d)
  /\ home' = TakenOut(home, R)
  /\ \E left \in SUBSET unaccounted :
       /\ \A r \in unaccounted \ left : Emptied(r, R)
       /\ gone' = gone \cup (R \ left)
  /\ retiring' = retiring \ R
  /\ UNCHANGED <<journal, op, phase, plan, todo, undo, ghosts, bounds>>

(* _retire_files, which comes after every config-key.                      *)
RetireFile(r) ==
  /\ phase = "retire" /\ r \in retiring /\ r.kind = "file"
  /\ \A q \in retiring : q.kind = "file"
  /\ home' = [home EXCEPT ![r.path] = Absent]
  /\ gone' = gone \cup {r}
  /\ retiring' = retiring \ {r}
  /\ UNCHANGED <<journal, op, phase, plan, todo, undo, ghosts, bounds>>

(* A failed retirement, or a failed save, takes this run's own placements  *)
(* back out of an install (_undo_placements); uninstall has none.          *)
Abandon ==
  /\ home' = IF op = "install" THEN Unplaced ELSE home
  /\ UNCHANGED journal
  /\ earned' = Settled(earned)
  /\ phase' = "rolledback"
  /\ UNCHANGED <<op, plan, todo, undo, retiring, gone, clean, runs, edits>>

RetireFails ==
  /\ phase = "retire" /\ retiring # {} /\ faults < MaxFaults
  /\ faults' = faults + 1
  /\ Abandon
RetireUnparseable ==
  /\ phase = "retire"
  /\ \E r \in retiring : r.kind = "config-key" /\ ~Parses(r.path)
  /\ faults' = faults
  /\ Abandon

(* The rollback itself fails on some paths, and never raises               *)
(* (_undo_placements).                                                     *)
RollbackFails ==
  /\ phase = "retire" /\ op = "install" /\ faults + 1 < MaxFaults
  /\ \E S \in SUBSET Paths :
       home' = [p \in Paths |-> IF p \in S THEN Unplaced[p] ELSE home[p]]
  /\ clean' = FALSE
  /\ faults' = faults + 2
  /\ Forget
  /\ UNCHANGED <<journal, earned, runs, edits>>

-----------------------------------------------------------------------------
(* The journal, last.                                                      *)

(* Broken: records what was skipped as if it were ours.                    *)
RecordsSkipped ==
  {s.art : s \in {t \in steps : t.action = "skip"}}

(* _reconciled: an artifact already right on disk whose record is not.     *)
Reconciled ==
  {s.art : s \in {t \in steps : /\ t.action = "unchanged"
                                /\ t.entry.val # t.art.val \/ t.entry.id # t.art.id}}

(* _merged: what was placed or reconciled replaces what it answers to, and *)
(* only what retire confirmed is dropped.                                  *)
Merged ==
  LET now == records \cup Reconciled IN
  now \cup {e \in journal : /\ \A r \in now \cup gone : e.id # r.id
                            /\ \A r \in now : e.kind = r.kind => Claim(e) # Claim(r)}

Save ==
  /\ phase = "retire" /\ retiring = {}
  /\ journal' = IF op = "install" THEN Merged ELSE {}
  /\ UNCHANGED home
  /\ earned' = Settled(earned)
  /\ Forget
  /\ UNCHANGED <<clean, bounds>>

SaveFails ==
  /\ phase = "retire" /\ retiring = {} /\ faults < MaxFaults
  /\ faults' = faults + 1
  /\ Abandon

(* The command reports its failure and exits.                              *)
Exit ==
  /\ phase \in {"undone", "rolledback"}
  /\ UNCHANGED <<home, journal, ghosts, bounds>>
  /\ Forget

(* The process dies: what it wrote stays, what it knew is gone.            *)
Crash ==
  /\ phase \notin {"idle", "undone", "rolledback"} /\ faults < MaxFaults
  /\ faults' = faults + 1
  /\ clean' = FALSE
  /\ UNCHANGED <<home, journal, earned, runs, edits>>
  /\ Forget

Starts == Uninstall \/ \E arts \in Releases : Plan(arts)
Applies ==
  \/ StartApply
  \/ \E s \in todo : ApplyFile(s)
  \/ \E d \in Docs : ApplyDoc(d)
Retires ==
  \/ StartRetire
  \/ \E d \in Docs : RetireDoc(d)
  \/ \E r \in retiring : RetireFile(r)
Breaks ==
  \/ ApplyFails \/ (\E s \in todo : ApplyFailsLate(s)) \/ ApplyUnparseable
  \/ UndoFails \/ RollbackFails
  \/ RetireFails \/ RetireUnparseable \/ SaveFails \/ Crash

Darq == Starts \/ Applies \/ Retires \/ Save \/ Exit \/ Breaks
User == UserEdits \/ UserEditsInWindow
Next == Darq \/ User

Spec == Init /\ [][Next]_vars

-----------------------------------------------------------------------------
(* Properties.                                                             *)

AllClaims == [path: Files, pointer: {Whole}, item: {Absent}]
        \cup [path: Docs, pointer: Keys, item: {Absent}]
        \cup [path: Docs, pointer: Lists, item: Value]

PlanStep == [art: Artifact, action: {"create", "update", "unchanged", "skip"},
             entry: Artifact \cup {NoEntry}]
Homes == { h \in [Paths -> Content] :
             /\ \A f \in Files : h[f] \in FileContent
             /\ \A d \in Docs  : h[d] \in DocContent }
Held == { h \in [Paths -> Content \cup {Unsaved}] :
            /\ \A f \in Files : h[f] \in FileContent \cup {Unsaved}
            /\ \A d \in Docs  : h[d] \in DocContent \cup {Unsaved} }

(* Every variable holds what the code's types let it hold; in particular   *)
(* nothing but real content is ever put back on disk by a rollback.        *)
TypeOK ==
  /\ home \in Homes /\ before \in Homes
  /\ journal \subseteq Artifact
  /\ op \in {"none", "install", "uninstall"}
  /\ phase \in {"idle", "planned", "apply", "retire", "undone", "rolledback"}
  /\ steps \subseteq PlanStep /\ todo \subseteq Placements
  /\ asked \subseteq journal
  /\ created \subseteq Files
  /\ restorable \in Held
  /\ records \subseteq {s.art : s \in Placements}
  /\ retiring \subseteq asked /\ gone \subseteq asked
  /\ earned \subseteq AllClaims
  /\ clean \in BOOLEAN
  /\ runs \in 0..MaxRuns /\ edits \in 0..MaxEdits /\ faults \in 0..MaxFaults

(* What the claimed thing holds, when it is there.                         *)
Inside(h, c) ==
  IF c.path \in Files THEN h[c.path]
  ELSE IF c.pointer \in Lists THEN c.item ELSE h[c.path][c.pointer]

(* Additive (planner.py:12): no step of a run, its rollbacks included,     *)
(* removes or changes anything at an address darq did not itself fill.     *)
UsersContentKept ==
  [][Darq =>
       \A c \in AllClaims \ earned :
         Present(home, c) => Present(home', c) /\ Inside(home', c) = Inside(home, c)]_vars

(* A document that cannot be parsed is never written over, whenever it     *)
(* stopped parsing (_read_document).                                       *)
UnparseableLeftAlone ==
  [][Darq => \A d \in Docs : home[d] = Garbage => home'[d] = Garbage]_vars

(* The journal only ever claims what a run put there (arquitectura.md:     *)
(* "what decides is the journal and nothing else"): a record for something *)
(* skipped would let the next uninstall remove the user's own file.        *)
JournalClaimsOnlyEarned == Claims(journal) \subseteq earned

(* Between runs, and as long as no run died or failed to undo itself,      *)
(* everything darq put on disk that is still there is claimed by the       *)
(* journal, so that uninstall can take it back: after any mix of installs  *)
(* of different releases, failed runs and edits (_merged, retirements).    *)
NoOrphans ==
  phase = "idle" /\ clean =>
    \A c \in earned : Present(home, c) => c \in Claims(journal)

(* What a successful install records is on disk with the recorded content: *)
(* retire has not removed what apply wrote, and no record is stale, save   *)
(* one whose list item could not be accounted for or whose artifact was    *)
(* skipped.                                                                *)
JournalTrue ==
  [][Save /\ op = "install" =>
       \A r \in journal' :
         \/ Holds(home', r)
         \/ r \in asked \ gone
         \/ \E s \in steps : s.action = "skip" /\ (s.art.id = r.id \/ Claim(s.art) = Claim(r))
    ]_vars

(* All or nothing (planner.py:15): when apply fails and its undo does not, *)
(* the home is exactly the one the plan was made for.                      *)
ApplyAllOrNothing == phase = "undone" => home = before

(* An empty document and an absent one hold the same things.               *)
Flat(h) == [p \in Paths |-> IF p \in Docs /\ h[p] = Absent THEN EmptyDoc ELSE h[p]]

(* A rollback undoes this run and nothing else (arquitectura.md:697): when *)
(* retiring or saving failed, every path is as the plan found it, or as    *)
(* found less what had already been retired.                               *)
RollbackUndoesThisRun ==
  phase = "rolledback" /\ op = "install" =>
    \A p \in Paths :
      Flat(home)[p] \in {Flat(before)[p], Flat(TakenOut(before, gone))[p]}

=============================================================================
