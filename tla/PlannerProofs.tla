----------------------------- MODULE PlannerProofs -----------------------------
(***************************************************************************)
(* Theorems about Planner, for every home, every sequence of releases and  *)
(* every bound on runs, edits and faults.                                  *)
(***************************************************************************)
EXTENDS Planner, TLAPS

Rendered == UNION Releases

(* A list item keeps its value for as long as it keeps its id. Without     *)
(* this an item the user added by hand, and that a later release renders   *)
(* under an id of ours, is taken for ours (planner.py:495).                *)
StableItems ==
  \A a, e \in Rendered :
    a.id = e.id /\ Appends(a) /\ Appends(e) => a.val = e.val

-----------------------------------------------------------------------------
(* The journal claims only what darq put there.                            *)

StepsKnown ==
  \A s \in steps : /\ s.art \in Rendered
                   /\ s.action = "unchanged" => Claim(s.art) \in Claims(journal)

(* What makes JournalClaimsOnlyEarned inductive: everything a run is about *)
(* to record was rendered, and is either earned already or, for what it    *)
(* found already right, claimed by the journal it started from.            *)
JournalInv ==
  /\ journal \subseteq Rendered
  /\ Claims(journal) \subseteq earned
  /\ StepsKnown
  /\ todo \subseteq steps
  /\ records \subseteq Rendered
  /\ phase \in {"idle", "planned"} => records = {} /\ todo = {}
  /\ phase \in {"apply", "retire"} => Claims(records) \subseteq earned

LEMMA RenderedAreArtifacts == Rendered \subseteq Artifact
  BY ReleasesAreArtifacts DEF Rendered

(* An entry is a record of the journal or nothing, and says about the      *)
(* artifact what the lookup asked of it.                                   *)
LEMMA EntryIsKnown ==
  ASSUME NEW a, EntryOf(a) # NoEntry
  PROVE  /\ EntryOf(a) \in journal
         /\ \/ EntryOf(a).id = a.id
            \/ Claim(EntryOf(a)) = Claim(a)
  BY DEF EntryOf

(* Only what the journal already claims can be found unchanged.            *)
LEMMA UnchangedIsClaimed ==
  ASSUME StableItems, journal \subseteq Rendered,
         NEW a \in Rendered, StepOf(a).action = "unchanged"
  PROVE  Claim(a) \in Claims(journal)
<1> DEFINE e == EntryOf(a)
<1> a \in Artifact  BY RenderedAreArtifacts
<1>1. CASE a.kind = "file"
  <2>1. /\ e # NoEntry /\ e.kind = "file" /\ e.path = a.path
    BY <1>1 DEF StepOf, FileAction
  <2>2. e \in journal /\ e \in Artifact
    BY <2>1, EntryIsKnown, RenderedAreArtifacts
  <2>3. e.pointer = Whole /\ a.pointer = Whole
    BY <1>1, <2>1, <2>2 DEF Artifact
  <2>4. Claim(e) = Claim(a)
    BY <2>1, <2>3, Disjoint DEF Claim, Appends, Pointers
  <2> QED  BY <2>2, <2>4 DEF Claims
<1>2. CASE a.kind # "file"
  <2>1. Claimable(a, e)
    BY <1>2 DEF StepOf, KeyAction
  <2>2. e # NoEntry /\ e.path = a.path /\ e.pointer = a.pointer
    BY <2>1 DEF Claimable
  <2>3. e \in journal /\ e \in Rendered
    BY <2>2, EntryIsKnown
  <2>4. e.id = a.id \/ Claim(e) = Claim(a)
    BY <2>2, EntryIsKnown
  <2>5. Claim(e) = Claim(a)
    <3>1. CASE e.id = a.id
      <4>1. Appends(a) => e.val = a.val
        BY <2>2, <2>3, <3>1 DEF StableItems, Appends
      <4> QED  BY <2>2, <4>1 DEF Claim, Appends
    <3> QED  BY <2>4, <3>1
  <2> QED  BY <2>3, <2>5 DEF Claims
<1> QED  BY <1>1, <1>2

(* What _merged and _reconciled may add is known and earned.               *)
LEMMA SavedIsKnown ==
  ASSUME JournalInv, phase = "retire"
  PROVE  /\ Merged \subseteq Rendered
         /\ Claims(Merged) \subseteq earned
<1>1. Reconciled \subseteq Rendered /\ Claims(Reconciled) \subseteq earned
  BY DEF JournalInv, StepsKnown, Reconciled, Claims
<1>2. Merged \subseteq records \cup Reconciled \cup journal
  BY DEF Merged
<1> QED  BY <1>1, <1>2 DEF JournalInv, Claims

LEMMA JournalInit == Init => JournalInv
  BY DEF Init, JournalInv, StepsKnown, Claims

(* A step that leaves the records and the plan alone and gives up no       *)
(* claim the journal still makes.                                          *)
LEMMA JournalKept ==
  ASSUME JournalInv, UNCHANGED <<journal, steps>>,
         records' = records, todo' \subseteq steps,
         earned' = earned \/ earned' = Settled(earned) \/ earned \subseteq earned',
         phase' \in {"idle", "planned"} => records = {} /\ todo' = {},
         phase' \in {"apply", "retire"} =>
           /\ phase \in {"planned", "apply", "retire"}
           /\ earned \subseteq earned'
  PROVE  JournalInv'
<1>1. Claims(journal)' = Claims(journal)  BY DEF Claims, Claim, Appends
<1>2. Claims(journal) \subseteq earned'
  BY <1>1 DEF JournalInv, Settled
<1>3. StepsKnown'
  BY <1>1 DEF JournalInv, StepsKnown, Claim, Appends
<1>4. phase' \in {"apply", "retire"} => Claims(records)' \subseteq earned'
  BY DEF JournalInv, Claims, Claim, Appends
<1> QED  BY <1>1, <1>2, <1>3, <1>4 DEF JournalInv

LEMMA JournalForgotten ==
  ASSUME JournalInv, Forget, UNCHANGED journal, earned' = earned
  PROVE  JournalInv'
<1>1. Claims(journal)' = Claims(journal)  BY DEF Claims, Claim, Appends
<1> QED  BY <1>1 DEF JournalInv, StepsKnown, Forget

LEMMA JournalNext ==
  ASSUME StableItems, JournalInv, [Next]_vars
  PROVE  JournalInv'
<1> USE DEF plan, undo, ghosts, bounds
<1>1. CASE UNCHANGED vars
  BY <1>1, JournalKept DEF vars, JournalInv
<1>2. CASE UserEdits \/ UserEditsInWindow
  BY <1>2, JournalKept DEF UserEdits, UserEditsInWindow, JournalInv
<1>3. ASSUME NEW arts \in Releases, Plan(arts) PROVE JournalInv'
  <2>1. steps' = {StepOf(a) : a \in arts} /\ journal' = journal
    BY <1>3 DEF Plan
  <2>2. arts \subseteq Rendered  BY DEF Rendered
  <2>3. \A a \in arts : StepOf(a).art = a  BY DEF StepOf
  <2>4. \A a \in arts : StepOf(a).action = "unchanged" => Claim(a) \in Claims(journal)
    BY <2>2, UnchangedIsClaimed DEF JournalInv
  <2>5. StepsKnown'
    BY <2>1, <2>2, <2>3, <2>4 DEF StepsKnown, Claims, Claim, Appends
  <2>6. /\ records' = {} /\ todo' = {}
        /\ earned' = earned /\ phase' = "planned"
    BY <1>3 DEF Plan, JournalInv
  <2> QED  BY <2>1, <2>5, <2>6 DEF JournalInv, Claims, Claim, Appends
<1>4. CASE StartApply
  BY <1>4, JournalKept DEF StartApply, JournalInv, Placements
<1>5. ASSUME NEW S \in SUBSET todo, Took(S), phase = "apply",
             UNCHANGED <<journal, phase, plan>>
      PROVE  JournalInv'
  <2>1. /\ journal' = journal /\ steps' = steps /\ phase' = "apply"
        /\ todo' = todo \ S
        /\ records' = records \cup {s.art : s \in S}
        /\ earned' = earned \cup Claims({s.art : s \in S})
    BY <1>5 DEF Took
  <2>2. StepsKnown'
    BY <2>1 DEF JournalInv, StepsKnown, Claims, Claim, Appends
  <2>3. \A s \in S : s \in steps /\ s.art \in Rendered
    BY DEF JournalInv, StepsKnown
  <2>4. Claims(records)' \subseteq earned'
    BY <2>1, <1>5 DEF JournalInv, Claims, Claim, Appends
  <2> QED  BY <2>1, <2>2, <2>3, <2>4 DEF JournalInv, Claims, Claim, Appends
<1>6. ASSUME NEW s \in todo, ApplyFile(s) PROVE JournalInv'
  BY <1>5, <1>6 DEF ApplyFile, FileStep
<1>7. ASSUME NEW d \in Docs, ApplyDoc(d) PROVE JournalInv'
  <2> DEFINE S == {s \in todo : s.art.path = d}
  <2>1. S \in SUBSET todo  OBVIOUS
  <2>2. Took(S) /\ phase = "apply" /\ UNCHANGED <<journal, phase, plan>>
    BY <1>7 DEF ApplyDoc
  <2> QED  BY <1>5, <2>1, <2>2
<1>8. CASE StartRetire
  BY <1>8, JournalKept DEF StartRetire, JournalInv
<1>9. CASE Uninstall
  BY <1>9 DEF Uninstall, JournalInv, StepsKnown, Claims, Claim, Appends
<1>10. ASSUME NEW d \in Docs, RetireDoc(d) PROVE JournalInv'
  BY <1>10, JournalKept DEF RetireDoc, JournalInv
<1>11. ASSUME NEW r \in retiring, RetireFile(r) PROVE JournalInv'
  BY <1>11, JournalKept DEF RetireFile, JournalInv
<1>12. CASE Save
  <2>1. /\ journal' = Merged \/ journal' = {}
        /\ earned' = Settled(earned) /\ Forget /\ phase = "retire"
    BY <1>12 DEF Save
  <2>2. journal' \subseteq Rendered /\ Claims(journal') \subseteq earned
    BY <2>1, SavedIsKnown DEF Claims
  <2>3. Claims(journal') \subseteq earned'
    BY <2>1, <2>2 DEF Settled
  <2> QED  BY <2>1, <2>2, <2>3 DEF JournalInv, StepsKnown, Forget, Claims, Claim, Appends
<1>13. CASE Exit \/ Crash
  BY <1>13, JournalForgotten DEF Exit, Crash
<1>14. CASE UndoFails \/ RollbackFails
  BY <1>14, JournalForgotten DEF UndoFails, RollbackFails
<1>15. CASE ApplyFails \/ ApplyUnparseable
  BY <1>15, JournalKept DEF ApplyFails, ApplyUnparseable, JournalInv
<1>16. ASSUME NEW s \in todo, ApplyFailsLate(s) PROVE JournalInv'
  <2>1. /\ UNCHANGED <<journal, steps, records, todo>> /\ phase' = "undone"
        /\ earned' = Settled(earned \cup {Claim(s.art)})
    BY <1>16 DEF ApplyFailsLate
  <2>2. Claims(journal)' = Claims(journal)
    BY <2>1 DEF Claims, Claim, Appends
  <2>3. Claims(journal) \subseteq earned'
    BY <2>1, <2>2 DEF JournalInv, Settled
  <2>4. StepsKnown'
    BY <2>1, <2>2 DEF JournalInv, StepsKnown, Claim, Appends
  <2> QED  BY <2>1, <2>2, <2>3, <2>4 DEF JournalInv
<1>17. CASE RetireFails \/ RetireUnparseable \/ SaveFails
  <2>1. Abandon  BY <1>17 DEF RetireFails, RetireUnparseable, SaveFails
  <2> QED  BY <2>1, JournalKept DEF Abandon, JournalInv
<1> QED
  BY <1>1, <1>2, <1>3, <1>4, <1>6, <1>7, <1>8, <1>9, <1>10, <1>11, <1>12,
     <1>13, <1>14, <1>15, <1>16, <1>17
     DEF Next, Darq, User, Starts, Applies, Retires, Breaks

(* The journal only ever claims what a run put there, whatever the user    *)
(* edits and wherever a run fails or dies, provided list items are stable. *)
THEOREM JournalHonest ==
  ASSUME StableItems
  PROVE  Spec => []JournalClaimsOnlyEarned
<1>1. JournalInv => JournalClaimsOnlyEarned
  BY DEF JournalInv, JournalClaimsOnlyEarned
<1> QED  BY <1>1, JournalInit, JournalNext, PTL DEF Spec

-----------------------------------------------------------------------------
(* Types.                                                                  *)

LEMMA ArtifactTypes ==
  ASSUME NEW r \in Artifact
  PROVE  /\ r.id \in Ids /\ r.val \in Value /\ r.path \in Paths
         /\ \/ /\ r.kind = "file" /\ r.path \in Files /\ r.pointer = Whole
               /\ ~Appends(r)
            \/ /\ r.kind = "config-key" /\ r.path \in Docs
               /\ r.pointer \in Pointers
  BY Disjoint DEF Artifact, Paths, Appends, Pointers

LEMMA ClaimTypes == \A r \in Artifact : Claim(r) \in AllClaims
<1> TAKE r \in Artifact
<1>1. CASE r.kind = "file"
  BY <1>1, ArtifactTypes DEF Claim, AllClaims
<1>2. CASE r.kind # "file"
  <2>1. r.path \in Docs /\ r.pointer \in Keys \cup Lists /\ r.val \in Value
    BY <1>2, ArtifactTypes DEF Pointers
  <2> QED  BY <2>1 DEF Claim, AllClaims, Appends
<1> QED  BY <1>1, <1>2

LEMMA EmptyDocType == EmptyDoc \in Document
  BY Disjoint DEF EmptyDoc, Document, Pointers

LEMMA SetAllType ==
  ASSUME NEW content \in DocContent, NEW S,
         \A s \in S : s.art \in Artifact
  PROVE  SetAll(content, S) \in Document
<1> DEFINE doc == IF Parsed(content) THEN content ELSE EmptyDoc
           set == SetAll(content, S)
<1>1. doc \in Document
  BY EmptyDocType DEF Parsed, DocContent
<1>2. set = [p \in Pointers |-> set[p]]
  BY DEF SetAll
<1>3. \A l \in Lists : set[l] \in SUBSET Value
  <2> TAKE l \in Lists
  <2>1. doc[l] \in SUBSET Value  BY <1>1 DEF Document
  <2>2. \A s \in S : s.art.val \in Value  BY ArtifactTypes
  <2> QED  BY <2>1, <2>2 DEF SetAll, Pointers
<1>4. \A k \in Keys : set[k] \in Value \cup {Absent}
  <2> TAKE k \in Keys
  <2> DEFINE At == {s \in S : s.art.pointer = k}
  <2>1. doc[k] \in Value \cup {Absent}  BY <1>1 DEF Document
  <2>2. At # {} => (CHOOSE s \in At : TRUE) \in S  OBVIOUS
  <2>3. At # {} => (CHOOSE s \in At : TRUE).art.val \in Value
    BY <2>2, ArtifactTypes
  <2>4. set[k] = IF At = {} THEN doc[k] ELSE (CHOOSE s \in At : TRUE).art.val
    BY Disjoint DEF SetAll, Pointers
  <2> QED  BY <2>1, <2>3, <2>4
<1> QED  BY <1>2, <1>3, <1>4 DEF Document, Pointers

LEMMA UnsetAllType ==
  ASSUME NEW doc \in Document, NEW R
  PROVE  UnsetAll(doc, R) \in Document
  BY Disjoint DEF Document, UnsetAll, Pointers

LEMMA TakenOutType ==
  ASSUME NEW h \in Homes, NEW R
  PROVE  TakenOut(h, R) \in Homes
<1> DEFINE t == TakenOut(h, R)
<1>1. t = [p \in Paths |-> t[p]]  BY DEF TakenOut
<1>2. \A f \in Files : t[f] \in FileContent
  BY DEF TakenOut, Homes, Paths, FileContent
<1>3. \A d \in Docs : t[d] \in DocContent
  <2> TAKE d \in Docs
  <2>1. h[d] \in DocContent  BY DEF Homes
  <2>2. d \notin Files  BY Disjoint
  <2>3. Parsed(h[d]) => h[d] \in Document  BY <2>1 DEF Parsed, DocContent
  <2>4. \A R1 : Parsed(h[d]) => UnsetAll(h[d], R1) \in DocContent
    BY <2>3, UnsetAllType DEF DocContent
  <2> QED  BY <2>1, <2>2, <2>4 DEF TakenOut, Paths
<1> QED  BY <1>1, <1>2, <1>3 DEF Homes, Content, Paths

LEMMA PutBackType ==
  ASSUME NEW h \in Homes, NEW saved \in Held, NEW back, NEW removed,
         \A p \in back : saved[p] # Unsaved
  PROVE  [p \in Paths |-> IF p \in back THEN saved[p]
                          ELSE IF p \in removed THEN Absent ELSE h[p]] \in Homes
  BY DEF Homes, Held, Content, FileContent, DocContent, Paths

LEMMA SetFileType ==
  ASSUME NEW f \in Files, NEW c \in FileContent
  PROVE  /\ \A h \in Homes : [h EXCEPT ![f] = c] \in Homes
         /\ \A h \in Held : [h EXCEPT ![f] = c] \in Held
  BY Disjoint DEF Homes, Held, Content, Paths

LEMMA SetDocType ==
  ASSUME NEW d \in Docs, NEW c \in DocContent
  PROVE  /\ \A h \in Homes : [h EXCEPT ![d] = c] \in Homes
         /\ \A h \in Held : [h EXCEPT ![d] = c] \in Held
  BY Disjoint DEF Homes, Held, Content, Paths

LEMMA UndoneType ==
  ASSUME NEW h \in Homes, restorable \in Held
  PROVE  Undone(h) \in Homes
<1> DEFINE back == {p \in Paths : restorable[p] # Unsaved}
<1>1. Undone(h) = [p \in Paths |-> IF p \in back THEN restorable[p]
                                   ELSE IF p \in created THEN Absent ELSE h[p]]
  BY DEF Undone
<1>2. \A p \in back : restorable[p] # Unsaved  OBVIOUS
<1> HIDE DEF back
<1> QED  BY <1>1, <1>2, PutBackType

LEMMA UnplacedType ==
  ASSUME home \in Homes, restorable \in Held
  PROVE  Unplaced \in Homes
<1> DEFINE g == [p \in Paths |-> IF p \in Replaced THEN restorable[p]
                                 ELSE IF p \in {} THEN Absent ELSE home[p]]
<1>1. \A p \in Replaced : restorable[p] # Unsaved  BY DEF Replaced
<1>2. g \in Homes  BY <1>1, PutBackType
<1>3. Unplaced = TakenOut(g, {r \in records : r.path \notin Replaced})
  BY DEF Unplaced
<1> HIDE DEF g
<1> QED  BY <1>2, <1>3, TakenOutType

(* What the user does by hand leaves a home a home.                        *)
LEMMA EditType ==
  ASSUME home \in Homes,
         (\E f \in Files : EditFile(f)) \/ (\E d \in Docs : EditDoc(d))
  PROVE  home' \in Homes
<1>1. ASSUME NEW p \in Paths, NEW c, home' = [home EXCEPT ![p] = c],
             \/ p \in Files /\ c \in FileContent
             \/ p \in Docs /\ c \in DocContent
      PROVE  home' \in Homes
  BY <1>1, SetFileType, SetDocType
<1>2. ASSUME NEW f \in Files, EditFile(f) PROVE home' \in Homes
  BY <1>1, <1>2 DEF EditFile, Paths
<1>3. ASSUME NEW d \in Docs, EditSlot(d) PROVE home' \in Homes
  <2>1. home[d] \in Document /\ d \in Paths
    BY <1>3 DEF EditSlot, Parsed, Homes, DocContent, Paths
  <2>2. ASSUME NEW k \in Keys, NEW v \in Value \cup {Absent},
               home' = [home EXCEPT ![d][k] = v]
        PROVE  home' \in Homes
    <3>1. [home[d] EXCEPT ![k] = v] \in Document
      BY <2>1, Disjoint DEF Document, Pointers
    <3>2. home' = [home EXCEPT ![d] = [home[d] EXCEPT ![k] = v]]
      BY <2>2
    <3> QED  BY <1>1, <2>1, <3>1, <3>2 DEF DocContent
  <2>3. ASSUME NEW l \in Lists, NEW items \in SUBSET Value,
               home' = [home EXCEPT ![d][l] = items]
        PROVE  home' \in Homes
    <3>1. [home[d] EXCEPT ![l] = items] \in Document
      BY <2>1, Disjoint DEF Document, Pointers
    <3>2. home' = [home EXCEPT ![d] = [home[d] EXCEPT ![l] = items]]
      BY <2>3
    <3> QED  BY <1>1, <2>1, <3>1, <3>2 DEF DocContent
  <2>4. ASSUME NEW l \in Lists, NEW v \in Value,
               \/ home' = [home EXCEPT ![d][l] = @ \ {v}]
               \/ home' = [home EXCEPT ![d][l] = @ \cup {v}]
        PROVE  home' \in Homes
    <3>1. home[d][l] \ {v} \in SUBSET Value /\ home[d][l] \cup {v} \in SUBSET Value
      BY <2>1 DEF Document
    <3> QED  BY <2>3, <2>4, <3>1
  <2> QED  BY <1>3, <2>2, <2>4, Options DEF EditSlot
<1>4. ASSUME NEW d \in Docs, EditDoc(d) PROVE home' \in Homes
  BY <1>1, <1>3, <1>4, EmptyDocType DEF EditDoc, DocContent, Paths
<1> QED  BY <1>2, <1>4

LEMMA StepType ==
  ASSUME TypeOK, NEW a \in Artifact
  PROVE  StepOf(a) \in PlanStep
<1>1. EntryOf(a) \in Artifact \cup {NoEntry}
  BY EntryIsKnown DEF TypeOK
<1>2. FileAction(a, EntryOf(a)) \in {"create", "update", "unchanged", "skip"}
  BY DEF FileAction
<1>3. KeyAction(a, EntryOf(a)) \in {"create", "update", "unchanged", "skip"}
  BY DEF KeyAction
<1> QED  BY <1>1, <1>2, <1>3 DEF StepOf, PlanStep

(* Between runs nothing of a run is left, which is what lets the next plan *)
(* start from types alone.                                                 *)
TypeInv ==
  /\ TypeOK
  /\ phase = "idle" => todo = {} /\ records = {} /\ retiring = {} /\ gone = {}

LEMMA UntouchedType == Untouched \in Held
  BY DEF Untouched, Held, Paths

LEMMA TypeInit == Init => TypeInv
<1> SUFFICES ASSUME Init PROVE TypeInv  OBVIOUS
<1>1. home \in Homes
  BY DEF Init, Homes, Paths, Content, FileContent, DocContent
<1> QED  BY <1>1, UntouchedType, Options DEF Init, TypeInv, TypeOK, Placements

LEMMA ForgottenType ==
  ASSUME TypeInv, Forget, home' \in Homes, journal' \subseteq Artifact,
         earned' \subseteq AllClaims, clean' \in BOOLEAN,
         runs' \in 0..MaxRuns, edits' \in 0..MaxEdits, faults' \in 0..MaxFaults
  PROVE  TypeInv'
  BY UntouchedType DEF TypeInv, TypeOK, Forget, Placements

(* A step that keeps the run's memory and moves home, earned and the       *)
(* bounds within their types.                                              *)
LEMMA KeptType ==
  ASSUME TypeInv, journal' = journal, op' = op, steps' = steps, asked' = asked,
         todo' = todo, created' = created, restorable' = restorable, records' = records,
         home' \in Homes, before' \in Homes, earned' \subseteq AllClaims,
         clean' = clean, retiring' \subseteq asked, gone' \subseteq asked,
         \/ phase' \in {"planned", "apply", "retire", "undone", "rolledback"}
         \/ phase' = phase /\ retiring' = retiring /\ gone' = gone,
         runs' \in 0..MaxRuns, edits' \in 0..MaxEdits, faults' \in 0..MaxFaults
  PROVE  TypeInv'
  BY DEF TypeInv, TypeOK, Placements, undo

LEMMA SettledType ==
  ASSUME NEW C \in SUBSET AllClaims
  PROVE  Settled(C) \subseteq AllClaims
  BY DEF Settled

LEMMA TypeNext ==
  ASSUME TypeInv, [Next]_vars
  PROVE  TypeInv'
<1> USE DEF plan, undo, ghosts, bounds
<1> USE Options
<1>0. /\ home \in Homes /\ before \in Homes /\ restorable \in Held
      /\ earned \subseteq AllClaims /\ journal \subseteq Artifact
      /\ asked \subseteq journal /\ retiring \subseteq asked /\ gone \subseteq asked
      /\ clean \in BOOLEAN
      /\ runs \in 0..MaxRuns /\ edits \in 0..MaxEdits /\ faults \in 0..MaxFaults
  BY DEF TypeInv, TypeOK
<1>b. /\ runs < MaxRuns => runs + 1 \in 0..MaxRuns
      /\ edits < MaxEdits => edits + 1 \in 0..MaxEdits
      /\ faults < MaxFaults => faults + 1 \in 0..MaxFaults
      /\ faults + 1 < MaxFaults => faults + 2 \in 0..MaxFaults
  BY <1>0
<1>1. CASE UNCHANGED vars
  BY <1>1 DEF vars, TypeInv, TypeOK, Placements
<1>2. CASE UserEdits
  <2>1. home' \in Homes  BY <1>0, <1>2, EditType DEF UserEdits
  <2>2. earned' \subseteq AllClaims  BY <1>0, <1>2, SettledType DEF UserEdits
  <2> QED  BY <1>0, <1>b, <1>2, <2>1, <2>2, KeptType DEF UserEdits
<1>3. CASE UserEditsInWindow
  <2>1. home' \in Homes
    <3>1. CASE \E f \in Files : EditFile(f)
      BY <1>0, <3>1, EditType
    <3>2. ASSUME NEW d \in Docs, home[d] # Garbage, home' = [home EXCEPT ![d] = Garbage]
          PROVE  home' \in Homes
      <4>1. EditDoc(d)  BY <3>2 DEF EditDoc
      <4> QED  BY <1>0, <4>1, EditType
    <3> QED  BY <1>3, <3>1, <3>2 DEF UserEditsInWindow
  <2>2. earned' \subseteq AllClaims  BY <1>0, <1>3, SettledType DEF UserEditsInWindow
  <2> QED  BY <1>0, <1>b, <1>3, <2>1, <2>2, KeptType DEF UserEditsInWindow
<1>4. ASSUME NEW arts \in Releases, Plan(arts) PROVE TypeInv'
  <2>1. arts \subseteq Artifact  BY ReleasesAreArtifacts
  <2>2. steps' \subseteq PlanStep
    BY <1>4, <2>1, StepType DEF Plan, TypeInv
  <2>3. asked' \subseteq journal  BY <1>4 DEF Plan, Retirements
  <2> QED  BY <1>4, <2>2, <2>3 DEF Plan, TypeInv, TypeOK
<1>5. CASE StartApply
  BY <1>5 DEF StartApply, TypeInv, TypeOK, Placements
<1>6. ASSUME NEW s \in todo, ApplyFile(s) PROVE TypeInv'
  <2>1. s \in Placements /\ s.art \in Artifact
    BY DEF TypeInv, TypeOK, Placements, PlanStep
  <2>2. s.art.path \in Files /\ s.art.path \in Paths /\ s.art.val \in Value
    BY <1>6, <2>1, ArtifactTypes DEF ApplyFile, FileStep
  <2>3. home' \in Homes
    BY <1>0, <1>6, <2>2, SetFileType DEF ApplyFile, FileStep, FileContent
  <2>4. restorable' \in Held
    BY <1>0, <1>6, <2>2, SetFileType DEF ApplyFile, FileStep, Homes
  <2>5. created' \subseteq Files
    BY <1>6, <2>2 DEF ApplyFile, FileStep, TypeInv, TypeOK
  <2>6. /\ todo' \subseteq Placements
        /\ records' \subseteq {t.art : t \in Placements}
        /\ earned' \subseteq AllClaims
    BY <1>6, <2>1, ClaimTypes DEF ApplyFile, Took, TypeInv, TypeOK, Claims
  <2>7. Placements' = Placements  BY <1>6 DEF ApplyFile, Placements
  <2> QED  BY <1>6, <2>3, <2>4, <2>5, <2>6, <2>7
           DEF ApplyFile, FileStep, TypeInv, TypeOK
<1>7. ASSUME NEW d \in Docs, ApplyDoc(d) PROVE TypeInv'
  <2> DEFINE S == {s \in todo : s.art.path = d}
  <2>1. S \subseteq Placements /\ \A s \in S : s.art \in Artifact
    BY DEF TypeInv, TypeOK, Placements, PlanStep
  <2>2. d \in Paths /\ home[d] \in DocContent
    BY <1>0 DEF Paths, Homes
  <2>3. SetAll(home[d], S) \in Document
    BY <2>1, <2>2, SetAllType
  <2> HIDE DEF S
  <2>4. home' \in Homes
    BY <1>0, <1>7, <2>2, <2>3, SetDocType DEF ApplyDoc, S, DocContent
  <2>5. restorable' \in Held
    BY <1>0, <1>7, <2>2, SetDocType DEF ApplyDoc
  <2>6. Took(S) /\ UNCHANGED <<created, journal, op, phase, plan, retiring, gone, clean, bounds>>
    BY <1>7 DEF ApplyDoc, S
  <2>7. /\ todo' \subseteq Placements
        /\ records' \subseteq {t.art : t \in Placements}
        /\ earned' \subseteq AllClaims
    BY <2>1, <2>6, ClaimTypes DEF Took, TypeInv, TypeOK, Claims
  <2>8. Placements' = Placements  BY <2>6 DEF Placements
  <2> QED  BY <1>7, <2>4, <2>5, <2>6, <2>7, <2>8 DEF ApplyDoc, TypeInv, TypeOK
<1>8. CASE StartRetire
  <2>1. /\ UNCHANGED <<home, journal, op, steps, asked, todo, undo, before, earned, clean>>
        /\ UNCHANGED <<runs, edits, faults>>
        /\ phase' = "retire" /\ retiring' = asked /\ gone' = gone
    BY <1>8 DEF StartRetire
  <2> QED  BY <1>0, <2>1, KeptType
<1>9. CASE Uninstall
  BY <1>9 DEF Uninstall, TypeInv, TypeOK, Placements
<1>10. ASSUME NEW d \in Docs, RetireDoc(d) PROVE TypeInv'
  <2>1. home' \in Homes  BY <1>0, <1>10, TakenOutType DEF RetireDoc
  <2>2. retiring' \subseteq asked /\ gone' \subseteq asked
    BY <1>10 DEF RetireDoc, TypeInv, TypeOK
  <2>5. /\ UNCHANGED <<journal, op, steps, asked, todo, undo, before, earned, clean>>
        /\ UNCHANGED <<runs, edits, faults>>
        /\ phase' = "retire"
    BY <1>10 DEF RetireDoc
  <2> QED  BY <1>0, <2>1, <2>2, <2>5, KeptType
<1>11. ASSUME NEW r \in retiring, RetireFile(r) PROVE TypeInv'
  <2>1. r \in Artifact /\ r \in asked  BY DEF TypeInv, TypeOK
  <2>2. r.path \in Files  BY <1>11, <2>1, ArtifactTypes DEF RetireFile
  <2>3. home' \in Homes
    BY <1>0, <1>11, <2>2, SetFileType DEF RetireFile, FileContent
  <2>4. retiring' \subseteq asked /\ gone' \subseteq asked
    BY <1>11, <2>1 DEF RetireFile, TypeInv, TypeOK
  <2>5. /\ UNCHANGED <<journal, op, steps, asked, todo, undo, before, earned, clean>>
        /\ UNCHANGED <<runs, edits, faults>>
        /\ phase' = "retire"
    BY <1>11 DEF RetireFile
  <2> QED  BY <1>0, <2>3, <2>4, <2>5, KeptType
<1>12. CASE Save
  <2>1. Merged \subseteq Artifact
    BY DEF TypeInv, TypeOK, Merged, Reconciled, Placements, PlanStep
  <2>2. journal' \subseteq Artifact  BY <1>12, <2>1 DEF Save
  <2>3. earned' \subseteq AllClaims  BY <1>0, <1>12, SettledType DEF Save
  <2> QED  BY <1>0, <1>b, <1>12, <2>2, <2>3, ForgottenType DEF Save
<1>13. CASE Exit
  BY <1>0, <1>b, <1>13, ForgottenType DEF Exit
<1>14. CASE Crash
  BY <1>0, <1>b, <1>14, ForgottenType DEF Crash
<1>15. CASE UndoFails \/ RollbackFails
  <2>1. Undone(home) \in Homes /\ Unplaced \in Homes
    BY <1>0, UndoneType, UnplacedType
  <2>2. home' \in Homes
    <3>1. PICK S \in SUBSET Paths :
             \/ home' = [p \in Paths |-> IF p \in S THEN Undone(home)[p] ELSE home[p]]
             \/ home' = [p \in Paths |-> IF p \in S THEN Unplaced[p] ELSE home[p]]
      BY <1>15 DEF UndoFails, RollbackFails
    <3>2. ASSUME NEW h \in Homes, NEW g \in Homes
          PROVE  [p \in Paths |-> IF p \in S THEN g[p] ELSE h[p]] \in Homes
      BY DEF Homes, Paths
    <3> QED  BY <1>0, <2>1, <3>1, <3>2
  <2> QED  BY <1>0, <1>b, <1>15, <2>2, ForgottenType DEF UndoFails, RollbackFails
<1>16. CASE ApplyFails
  <2>1. home' \in Homes  BY <1>0, <1>16, UndoneType DEF ApplyFails
  <2>2. earned' \subseteq AllClaims  BY <1>0, <1>16, SettledType DEF ApplyFails
  <2> QED  BY <1>0, <1>b, <1>16, <2>1, <2>2, KeptType DEF ApplyFails
<1>17. ASSUME NEW s \in todo, ApplyFailsLate(s) PROVE TypeInv'
  <2> DEFINE h == [home EXCEPT ![s.art.path] =
                     IF s.action = "update" THEN home[s.art.path] ELSE s.art.val]
  <2>1. s.art \in Artifact
    BY DEF TypeInv, TypeOK, Placements, PlanStep
  <2>2. s.art.path \in Files /\ s.art.val \in Value
    BY <1>17, <2>1, ArtifactTypes DEF ApplyFailsLate
  <2>3. h \in Homes
    BY <1>0, <2>2, SetFileType DEF Homes, FileContent
  <2>4. home' = Undone(h)
    BY <1>17 DEF ApplyFailsLate
  <2> HIDE DEF h
  <2>5. home' \in Homes  BY <1>0, <2>3, <2>4, UndoneType
  <2>6. earned' \subseteq AllClaims
    BY <1>0, <1>17, <2>1, ClaimTypes, SettledType DEF ApplyFailsLate
  <2> QED  BY <1>0, <1>b, <1>17, <2>5, <2>6, KeptType DEF ApplyFailsLate
<1>18. CASE ApplyUnparseable
  BY <1>0, <1>b, <1>18, KeptType DEF ApplyUnparseable
<1>19. CASE RetireFails \/ RetireUnparseable \/ SaveFails
  <2>1. home' \in Homes
    BY <1>0, <1>19, UnplacedType DEF RetireFails, RetireUnparseable, SaveFails, Abandon
  <2>2. earned' \subseteq AllClaims
    BY <1>0, <1>19, SettledType DEF RetireFails, RetireUnparseable, SaveFails, Abandon
  <2> QED  BY <1>19, <2>1, <2>2, KeptType, <1>0, <1>b
           DEF RetireFails, RetireUnparseable, SaveFails, Abandon
<1> QED
  BY <1>1, <1>2, <1>3, <1>4, <1>5, <1>6, <1>7, <1>8, <1>9, <1>10, <1>11, <1>12,
     <1>13, <1>14, <1>15, <1>16, <1>17, <1>18, <1>19
     DEF Next, Darq, User, Starts, Applies, Retires, Breaks

(* Every variable keeps its type; in particular a rollback puts nothing on *)
(* disk that was not there.                                                *)
THEOREM Types == Spec => []TypeOK
<1>1. TypeInv => TypeOK  BY DEF TypeInv
<1> QED  BY <1>1, TypeInit, TypeNext, PTL DEF Spec

-----------------------------------------------------------------------------
(* All or nothing.                                                         *)

(* Nobody touches the home between plan and apply, and a write that fails  *)
(* has written nothing. v_unparseable shows that the first is needed.      *)
Undisturbed == Window = {} /\ ~LateErrors

(* The plan still describes the home it was made for.                      *)
PlanFits ==
  /\ \A s \in Placements :
       /\ s.art.kind = "file" /\ s.action = "create" => before[s.art.path] = Absent
       /\ s.art.kind # "file" => before[s.art.path] # Garbage
  /\ \A s, t \in Placements :
       s # t /\ s.art.kind = "file" => s.art.path # t.art.path

(* What makes ApplyAllOrNothing inductive: at every point of apply the     *)
(* undo would give back exactly the home the plan was made for, and what   *)
(* apply has not reached is as the plan saw it.                            *)
UndoInv ==
  /\ TypeInv
  /\ phase \in {"idle", "planned"} => created = {} /\ restorable = Untouched
  /\ phase = "planned" => home = before
  /\ phase \in {"planned", "apply"} => PlanFits
  /\ phase = "apply" =>
       /\ Undone(home) = before
       /\ \A s \in todo : /\ home[s.art.path] = before[s.art.path]
                          /\ restorable[s.art.path] = Unsaved
                          /\ s.art.path \notin created
  /\ phase = "undone" => home = before

LEMMA HomesAreFunctions ==
  ASSUME NEW h \in Homes
  PROVE  /\ h = [p \in Paths |-> h[p]]
         /\ \A p \in Paths : h[p] # Unsaved
<1>1. h \in [Paths -> Content]  BY DEF Homes
<1> QED  BY <1>1, Disjoint

(* Two homes that agree everywhere are the same.                           *)
LEMMA SameHome ==
  ASSUME NEW g \in Homes, NEW h \in Homes, \A p \in Paths : g[p] = h[p]
  PROVE  g = h
  BY DEF Homes

LEMMA PlacementTypes ==
  ASSUME TypeOK, NEW s \in Placements
  PROVE  /\ s.art \in Artifact /\ s.art.path \in Paths
         /\ s.art.kind = "file" => s.art.path \in Files
         /\ s.art.kind # "file" => s.art.path \in Docs
         /\ s.action \in {"create", "update"}
<1>1. s.art \in Artifact  BY DEF TypeOK, Placements, PlanStep
<1> QED  BY <1>1, ArtifactTypes DEF Placements

(* A plan fits the home it is made for.                                    *)
LEMMA PlanFitsAtFirst ==
  ASSUME TypeInv, NEW arts \in Releases, Plan(arts)
  PROVE  PlanFits'
<1>1. steps' = {StepOf(a) : a \in arts} /\ before' = home
  BY DEF Plan
<1>2. arts \subseteq Artifact  BY ReleasesAreArtifacts
<1>3. \A a \in arts : StepOf(a).art = a  BY DEF StepOf
<1>4. ASSUME NEW a \in arts, a.kind = "file", StepOf(a).action = "create"
      PROVE  home[a.path] = Absent
  BY <1>4 DEF StepOf, FileAction
<1>5. ASSUME NEW a \in arts, a.kind # "file"
      PROVE  home[a.path] # Garbage
  <2>1. a.kind = "config-key"  BY <1>2, <1>5, ArtifactTypes
  <2> QED  BY <2>1 DEF Plan, Readable, Parses
<1>6. ASSUME NEW a \in arts, NEW b \in arts, a # b, a.kind = "file"
      PROVE  a.path # b.path
  <2>1. a \in Artifact /\ b \in Artifact /\ Claim(a) # Claim(b)
    BY <1>2, <1>6 DEF Plan, Duplicates
  <2>2. CASE b.kind = "file"
    BY <1>6, <2>1, <2>2, ArtifactTypes DEF Claim
  <2>3. CASE b.kind # "file"
    BY <1>6, <2>1, <2>3, ArtifactTypes, Disjoint
  <2> QED  BY <2>2, <2>3
<1> QED  BY <1>1, <1>3, <1>4, <1>5, <1>6 DEF PlanFits, Placements

LEMMA UndoInit == Init => UndoInv
  BY TypeInit DEF Init, UndoInv

LEMMA UndoForgotten ==
  ASSUME Forget, TypeInv'
  PROVE  UndoInv'
  BY DEF Forget, UndoInv, Untouched

(* One path written, with its earlier content held or its creation noted.  *)
LEMMA UndoWrites ==
  ASSUME UndoInv, TypeInv', phase = "apply", UNCHANGED <<phase, steps, before>>,
         NEW p \in Paths, NEW S \in SUBSET todo, todo' = todo \ S,
         \E s \in S : s.art.path = p,
         \A t \in todo \ S : t.art.path # p,
         \A q \in Paths \ {p} : home'[q] = home[q],
         \A q \in Paths \ {p} : restorable'[q] = restorable[q],
         \A q \in Paths \ {p} : q \in created' <=> q \in created,
         \/ restorable'[p] = home[p]
         \/ restorable'[p] = Unsaved /\ p \in created' /\ before[p] = Absent
  PROVE  UndoInv'
<1>1. /\ home \in Homes /\ before \in Homes /\ home' \in Homes
      /\ restorable' \in Held
  BY DEF UndoInv, TypeInv, TypeOK
<1>2. home[p] = before[p] /\ home[p] # Unsaved
  BY <1>1, HomesAreFunctions DEF UndoInv
<1>3. PlanFits'
  BY DEF UndoInv, PlanFits, Placements
<1>4. \A t \in todo' : t.art.path \in Paths \ {p}
  BY PlacementTypes DEF UndoInv, TypeInv, TypeOK
<1>5. \A t \in todo' : /\ home'[t.art.path] = before[t.art.path]
                       /\ restorable'[t.art.path] = Unsaved
                       /\ t.art.path \notin created'
  <2>1. \A t \in todo : /\ home[t.art.path] = before[t.art.path]
                       /\ restorable[t.art.path] = Unsaved
                       /\ t.art.path \notin created
    BY DEF UndoInv
  <2>2. todo' \subseteq todo  OBVIOUS
  <2>3. ASSUME NEW t \in todo'
        PROVE  /\ home'[t.art.path] = before[t.art.path]
               /\ restorable'[t.art.path] = Unsaved
               /\ t.art.path \notin created'
    <3>1. t \in todo /\ t.art.path \in Paths \ {p}  BY <1>4, <2>2
    <3> QED  BY <2>1, <3>1
  <2> QED  BY <2>3
<1>6. Undone(home)' = before
  <2>1. Undone(home)' = [q \in Paths |->
                           IF restorable'[q] # Unsaved THEN restorable'[q]
                           ELSE IF q \in created' THEN Absent ELSE home'[q]]
    BY DEF Undone
  <2>2. \A q \in Paths :
          before[q] = IF restorable[q] # Unsaved THEN restorable[q]
                      ELSE IF q \in created THEN Absent ELSE home[q]
    BY DEF UndoInv, Undone
  <2>3. ASSUME NEW q \in Paths \ {p} PROVE Undone(home)'[q] = before[q]
    BY <2>1, <2>2, <2>3
  <2>4. Undone(home)'[p] = before[p]
    BY <2>1, <1>2
  <2>5. \A q \in Paths : Undone(home)'[q] = before[q]
    BY <2>3, <2>4
  <2> QED  BY <1>1, <2>1, <2>5 DEF Homes
<1> QED  BY <1>3, <1>5, <1>6 DEF UndoInv

LEMMA UndoNext ==
  ASSUME Undisturbed, UndoInv, [Next]_vars
  PROVE  UndoInv'
<1> USE DEF plan, undo, ghosts, bounds
<1>0. TypeInv /\ TypeInv' /\ TypeOK  BY TypeNext DEF UndoInv, TypeInv
<1>1. CASE UNCHANGED vars
  BY <1>0, <1>1 DEF vars, UndoInv, PlanFits, Placements, Undone
<1>2. CASE UserEdits
  BY <1>0, <1>2 DEF UserEdits, UndoInv, Untouched
<1>3. ASSUME NEW arts \in Releases, Plan(arts) PROVE UndoInv'
  <2>1. PlanFits'  BY <1>0, <1>3, PlanFitsAtFirst
  <2> QED  BY <1>0, <1>3, <2>1 DEF Plan, UndoInv, Untouched
<1>4. CASE StartApply
  <2>1. /\ UNCHANGED <<home, before, steps, created, restorable>> /\ todo' = Placements
        /\ phase = "planned" /\ phase' = "apply"
    BY <1>4 DEF StartApply
  <2>2. created = {} /\ restorable = Untouched /\ home = before /\ PlanFits
    BY <2>1 DEF UndoInv
  <2>3. Undone(home) = home
    <3>1. home = [p \in Paths |-> home[p]]
      BY <1>0, HomesAreFunctions DEF TypeOK
    <3> QED  BY <2>2, <3>1 DEF Undone, Untouched
  <2>4. \A s \in Placements : s.art.path \in Paths
    BY <1>0, PlacementTypes
  <2>5. PlanFits' /\ Undone(home)' = Undone(home)
    BY <2>1, <2>2 DEF PlanFits, Placements, Undone
  <2> QED  BY <1>0, <2>1, <2>2, <2>3, <2>4, <2>5 DEF UndoInv, Untouched
<1>5. ASSUME NEW s \in todo, ApplyFile(s) PROVE UndoInv'
  <2> DEFINE p == s.art.path
  <2>1. s \in Placements /\ todo \subseteq Placements
    BY <1>0 DEF TypeOK
  <2>2. p \in Paths /\ s.action \in {"create", "update"} /\ s.art.kind = "file"
    BY <1>0, <1>5, <2>1, PlacementTypes DEF ApplyFile, FileStep
  <2>3. /\ phase = "apply" /\ UNCHANGED <<phase, steps, before>>
        /\ todo' = todo \ {s}
        /\ home' = [home EXCEPT ![p] = s.art.val]
    BY <1>5 DEF ApplyFile, FileStep, Took
  <2>4. restorable[p] = Unsaved /\ p \notin created
    BY <2>3 DEF UndoInv
  <2>5. \A q \in Paths \ {p} : home'[q] = home[q]
    BY <1>0, <2>2, <2>3 DEF TypeOK, Homes
  <2>6. \E t \in {s} : t.art.path = p  OBVIOUS
  <2>7. \A t \in todo \ {s} : t.art.path # p
    BY <2>1, <2>2, <2>3 DEF UndoInv, PlanFits
  <2>8. {s} \in SUBSET todo  OBVIOUS
  <2>9. CASE s.action = "update"
    <3>1. restorable' = [restorable EXCEPT ![p] = home[p]] /\ created' = created
      BY <1>5, <2>4, <2>9 DEF ApplyFile, FileStep
    <3>2. restorable'[p] = home[p] /\ \A q \in Paths \ {p} : restorable'[q] = restorable[q]
      BY <1>0, <2>2, <3>1 DEF TypeOK, Held
    <3> HIDE DEF p
    <3> QED  BY <1>0, <2>2, <2>3, <2>5, <2>6, <2>7, <2>8, <3>1, <3>2, UndoWrites
  <2>10. CASE s.action = "create"
    <3>1. restorable' = restorable /\ created' = created \cup {p}
      BY <1>5, <2>10 DEF ApplyFile, FileStep
    <3>2. before[p] = Absent
      BY <2>1, <2>2, <2>3, <2>10 DEF UndoInv, PlanFits
    <3>3. restorable'[p] = Unsaved /\ p \in created'
      BY <2>4, <3>1
    <3> HIDE DEF p
    <3> QED  BY <1>0, <2>2, <2>3, <2>5, <2>6, <2>7, <2>8, <3>1, <3>2, <3>3, UndoWrites
  <2> QED  BY <2>2, <2>9, <2>10
<1>6. ASSUME NEW d \in Docs, ApplyDoc(d) PROVE UndoInv'
  <2> DEFINE S == {s \in todo : s.art.path = d}
  <2>1. /\ phase = "apply" /\ UNCHANGED <<phase, steps, before>>
        /\ todo' = todo \ S /\ S # {}
        /\ home' = [home EXCEPT ![d] = SetAll(home[d], S)]
        /\ created' = created
    BY <1>6 DEF ApplyDoc, Took
  <2>2. d \in Paths  BY DEF Paths
  <2>3. restorable[d] = Unsaved
    BY <2>1 DEF UndoInv
  <2>4. restorable' = [restorable EXCEPT ![d] = home[d]]
    BY <1>6, <2>3 DEF ApplyDoc
  <2>5. restorable'[d] = home[d] /\ \A q \in Paths \ {d} : restorable'[q] = restorable[q]
    BY <1>0, <2>2, <2>4 DEF TypeOK, Held
  <2>6. \A q \in Paths \ {d} : home'[q] = home[q]
    BY <1>0, <2>1 DEF TypeOK, Homes
  <2>7. /\ S \in SUBSET todo /\ \E s \in S : s.art.path = d
        /\ \A t \in todo \ S : t.art.path # d
    BY <2>1
  <2> HIDE DEF S
  <2> QED  BY <1>0, <2>1, <2>2, <2>5, <2>6, <2>7, UndoWrites
<1>7. CASE ApplyFails
  BY <1>0, <1>7 DEF ApplyFails, UndoInv
<1>8. CASE ApplyUnparseable
  <2>1. PICK s \in todo : home[s.art.path] = Garbage /\ s.art.kind # "file"
    BY <1>8 DEF ApplyUnparseable, Parses, FilesDone
  <2>2. phase = "apply" /\ s \in Placements
    BY <1>0, <1>8 DEF ApplyUnparseable, TypeOK
  <2>3. home[s.art.path] = before[s.art.path] /\ before[s.art.path] # Garbage
    BY <2>1, <2>2 DEF UndoInv, PlanFits
  <2> QED  BY <2>1, <2>3
<1>9. CASE UserEditsInWindow \/ \E s \in todo : ApplyFailsLate(s)
  BY <1>9 DEF Undisturbed, UserEditsInWindow, ApplyFailsLate
<1>10. CASE UndoFails \/ RollbackFails \/ Exit \/ Crash \/ Save
  BY <1>0, <1>10, UndoForgotten DEF UndoFails, RollbackFails, Exit, Crash, Save
<1>11. CASE StartRetire \/ Uninstall \/ (\E d \in Docs : RetireDoc(d))
              \/ (\E r \in retiring : RetireFile(r))
  BY <1>0, <1>11 DEF StartRetire, Uninstall, RetireDoc, RetireFile, UndoInv
<1>12. CASE RetireFails \/ RetireUnparseable \/ SaveFails
  <2>1. phase' = "rolledback"
    BY <1>12 DEF RetireFails, RetireUnparseable, SaveFails, Abandon
  <2> QED  BY <1>0, <2>1 DEF UndoInv
<1> QED
  BY <1>1, <1>2, <1>3, <1>4, <1>5, <1>6, <1>7, <1>8, <1>9, <1>10, <1>11, <1>12
     DEF Next, Darq, User, Starts, Applies, Retires, Breaks

(* All or nothing (planner.py:15), for any artifacts in any order: when    *)
(* apply fails and its undo does not, the home is the one the plan saw.    *)
THEOREM AllOrNothing ==
  ASSUME Undisturbed
  PROVE  Spec => []ApplyAllOrNothing
<1>1. UndoInv => ApplyAllOrNothing
  BY DEF UndoInv, ApplyAllOrNothing
<1> QED  BY <1>1, UndoInit, UndoNext, PTL DEF Spec

-----------------------------------------------------------------------------
(* What a run does to the home, from the plan to the journal, in terms of   *)
(* what each claim finds there.                                            *)

SameSlot(e, a) == e.kind = a.kind /\ e.path = a.path /\ e.pointer = a.pointer

(* What a step of the plan says of the journal and of the home it was made  *)
(* from.                                                                   *)
StepFits(s) ==
  /\ s.entry # NoEntry => s.entry \in journal
  /\ s.action = "create" =>
       /\ ~ Present(before, Claim(s.art))
       /\ s.entry # NoEntry /\ SameSlot(s.entry, s.art)
          => ~ Present(before, Claim(s.entry))
  /\ s.action = "update" =>
       /\ s.entry \in journal /\ SameSlot(s.entry, s.art)
       /\ Present(before, Claim(s.entry))
       /\ Appends(s.art) => ~ Present(before, Claim(s.art))
  /\ s.action = "unchanged" =>
       /\ s.entry \in journal /\ SameSlot(s.entry, s.art)
       /\ Holds(before, s.art)
  /\ s.action \in {"create", "update"} => before[s.art.path] # Garbage

(* No two artifacts share an id or a claim, and nothing that is rendered    *)
(* shares one with what is to be retired.                                  *)
PlanSound ==
  /\ \A s \in steps : StepFits(s)
  /\ \A s, t \in steps : s # t => s.art.id # t.art.id /\ Claim(s.art) # Claim(t.art)
  /\ \A r \in asked : \A s \in steps : r.id # s.art.id /\ Claim(r) # Claim(s.art)

(* What the plan puts at a path, and the home once it has put all of it.    *)
At(p) == {s \in Placements : s.art.path = p}
Placed(p) ==
  IF At(p) = {} THEN before[p]
  ELSE IF p \in Files THEN (CHOOSE s \in At(p) : TRUE).art.val
  ELSE SetAll(before[p], At(p))
PlacedHome == [p \in Paths |-> Placed(p)]

(* Two homes say the same about a claim.                                   *)
Agree(g, h, c) ==
  /\ Present(g, c) <=> Present(h, c)
  /\ Present(g, c) => Inside(g, c) = Inside(h, c)

LEMMA AgreeIsLocal ==
  ASSUME NEW g, NEW h, NEW c, g[c.path] = h[c.path]
  PROVE  Agree(g, h, c)
BY DEF Agree, Present, Inside

LEMMA ClaimCases ==
  ASSUME NEW c \in AllClaims
  PROVE  \/ c.path \in Files /\ c.path \notin Docs /\ c.pointer = Whole /\ c.item = Absent
         \/ c.path \in Docs /\ c.path \notin Files /\ c.pointer \in Keys
            /\ c.pointer \notin Lists /\ c.item = Absent
         \/ c.path \in Docs /\ c.path \notin Files /\ c.pointer \in Lists
            /\ c.pointer \notin Keys /\ c.item \in Value
BY Disjoint DEF AllClaims

(* A claim is the three things it is made of.                              *)
LEMMA SameClaim ==
  ASSUME NEW c \in AllClaims, NEW r
  PROVE  Claim(r) = c <=> /\ r.path = c.path /\ r.pointer = c.pointer
                          /\ c.item = IF Appends(r) THEN r.val ELSE Absent
<1>1. c = [path |-> c.path, pointer |-> c.pointer, item |-> c.item]
  BY DEF AllClaims
<1> QED  BY <1>1 DEF Claim

(* Homes that agree on every claim at a path hold the same things there.    *)
LEMMA AgreeingHomes ==
  ASSUME NEW g \in Homes, NEW h \in Homes, NEW p \in Paths,
         p \in Docs => g[p] # Garbage /\ h[p] # Garbage,
         \A c \in AllClaims : c.path = p => Agree(g, h, c)
  PROVE  Flat(g)[p] = Flat(h)[p]
<1>1. CASE p \in Files
  <2> DEFINE c == [path |-> p, pointer |-> Whole, item |-> Absent]
  <2>1. c \in AllClaims /\ c.path = p
    BY <1>1 DEF AllClaims
  <2>2. Agree(g, h, c)
    BY <2>1
  <2> HIDE DEF c
  <2>3. g[p] = h[p]
    BY <1>1, <2>1, <2>2 DEF Agree, Present, Inside
  <2> QED  BY <1>1, <2>3, Disjoint DEF Flat
<1>2. CASE p \in Docs
  <2> DEFINE gd == Flat(g)[p]
             hd == Flat(h)[p]
  <2>1. /\ gd = IF g[p] = Absent THEN EmptyDoc ELSE g[p]
        /\ hd = IF h[p] = Absent THEN EmptyDoc ELSE h[p]
    BY <1>2 DEF Flat
  <2>2. gd \in Document /\ hd \in Document
    BY <1>2, <2>1, EmptyDocType DEF Homes, DocContent
  <2> HIDE DEF gd, hd
  <2>3. ASSUME NEW k \in Keys PROVE gd[k] = hd[k]
    <3> DEFINE c == [path |-> p, pointer |-> k, item |-> Absent]
    <3>1. c \in AllClaims /\ c.path = p /\ c.pointer = k
      BY <1>2 DEF AllClaims
    <3>2. Agree(g, h, c)
      BY <3>1
    <3> HIDE DEF c
    <3>3. /\ Present(g, c) <=> gd[k] # Absent
          /\ Present(h, c) <=> hd[k] # Absent
      BY <1>2, <2>1, <3>1, Disjoint DEF Present, Parsed, EmptyDoc, Pointers
    <3>4. Present(g, c) => Inside(g, c) = gd[k] /\ g[p] # Absent
      BY <1>2, <2>1, <3>1, Disjoint DEF Present, Parsed, Inside
    <3>5. Present(h, c) => Inside(h, c) = hd[k] /\ h[p] # Absent
      BY <1>2, <2>1, <3>1, Disjoint DEF Present, Parsed, Inside
    <3> QED  BY <3>2, <3>3, <3>4, <3>5 DEF Agree
  <2>4. ASSUME NEW l \in Lists PROVE gd[l] = hd[l]
    <3>1. gd[l] \in SUBSET Value /\ hd[l] \in SUBSET Value
      BY <2>2 DEF Document
    <3>2. ASSUME NEW v \in Value PROVE v \in gd[l] <=> v \in hd[l]
      <4> DEFINE c == [path |-> p, pointer |-> l, item |-> v]
      <4>1. c \in AllClaims /\ c.path = p /\ c.pointer = l /\ c.item = v
        BY <1>2 DEF AllClaims
      <4>2. Agree(g, h, c)
        BY <4>1
      <4> HIDE DEF c
      <4>3. /\ Present(g, c) <=> v \in gd[l]
            /\ Present(h, c) <=> v \in hd[l]
        BY <1>2, <2>1, <4>1, Disjoint DEF Present, Parsed, EmptyDoc, Pointers
      <4> QED  BY <4>2, <4>3 DEF Agree
    <3> QED  BY <3>1, <3>2
  <2>5. \A q \in Pointers : gd[q] = hd[q]
    BY <2>3, <2>4 DEF Pointers
  <2>6. gd = [q \in Pointers |-> gd[q]] /\ hd = [q \in Pointers |-> hd[q]]
    BY <2>2 DEF Document
  <2>7. gd = hd
    BY <2>5, <2>6
  <2> QED  BY <2>7 DEF gd, hd
<1> QED  BY <1>1, <1>2 DEF Paths

(* Taking records out takes exactly what they claim.                       *)
LEMMA TakenOutAgrees ==
  ASSUME NEW h \in Homes, NEW R, R \subseteq Artifact, NEW c \in AllClaims
  PROVE  /\ c \in Claims(R) => ~ Present(TakenOut(h, R), c)
         /\ c \notin Claims(R) => Agree(TakenOut(h, R), h, c)
<1> DEFINE p == c.path
           t == TakenOut(h, R)
           here == {r \in R : r.path = p}
<1>0. p \in Paths
  BY ClaimCases DEF Paths
<1>1. t[p] = IF here = {} THEN h[p]
             ELSE IF p \in Files THEN Absent
             ELSE IF Parsed(h[p]) THEN UnsetAll(h[p], here) ELSE h[p]
  BY <1>0 DEF TakenOut
<1>2. c \in Claims(R) <=> \E r \in here : /\ r.pointer = c.pointer
                                          /\ c.item = IF Appends(r) THEN r.val ELSE Absent
  <2>1. c \in Claims(R) <=> \E r \in R : Claim(r) = c
    BY DEF Claims
  <2> QED  BY <2>1, SameClaim
<1>3. \A r \in here : r \in Artifact
  OBVIOUS
<1> HIDE DEF t, here
<1>4. CASE p \in Files
  <2>1. \A r \in here : r.pointer = Whole /\ ~ Appends(r)
    <3> TAKE r \in here
    <3>1. r \in Artifact /\ r.path = p
      BY <1>3 DEF here
    <3> QED  BY <1>4, <3>1, ArtifactTypes, Disjoint
  <2>2. c.pointer = Whole /\ c.item = Absent
    BY <1>4, ClaimCases
  <2>3. c \in Claims(R) <=> here # {}
    BY <1>2, <2>1, <2>2
  <2> QED  BY <1>1, <1>4, <2>3 DEF Agree, Present, Inside, t
<1>5. CASE p \notin Files /\ ~ Parsed(h[p])
  <2>1. t[p] = h[p]
    BY <1>1, <1>5
  <2> QED  BY <1>5, <2>1 DEF Agree, Present, Inside, t
<1>6. CASE p \notin Files /\ Parsed(h[p])
  <2>1. h[p] \in Document /\ p \in Docs
    BY <1>0, <1>6 DEF Homes, DocContent, Parsed, Paths
  <2>2. Parsed(UnsetAll(h[p], here))
    BY <2>1, UnsetAllType, Disjoint DEF Parsed
  <2>3. CASE c.pointer \in Lists
    <3>1. \A r \in here : r.pointer = c.pointer => Appends(r)
      BY <2>3 DEF Appends
    <3>2. c \in Claims(R) <=> c.item \in {r.val : r \in {q \in here : q.pointer = c.pointer}}
      BY <1>2, <3>1
    <3>3. here # {} => UnsetAll(h[p], here)[c.pointer] =
                         h[p][c.pointer] \ {r.val : r \in {q \in here : q.pointer = c.pointer}}
      BY <2>3 DEF UnsetAll, Pointers
    <3>4. c.item \in t[p][c.pointer] <=> c.item \in h[p][c.pointer] /\ c \notin Claims(R)
      BY <1>1, <1>6, <3>2, <3>3
    <3>5. Parsed(t[p])
      BY <1>1, <1>6, <2>2
    <3> QED  BY <1>6, <2>3, <3>4, <3>5 DEF Agree, Present, Inside, t
  <2>4. CASE c.pointer \in Keys /\ c.pointer \notin Lists
    <3>1. c.item = Absent
      BY <1>6, <2>4, ClaimCases
    <3>2. \A r \in here : r.pointer = c.pointer => ~ Appends(r)
      BY <2>4 DEF Appends
    <3>3. c \in Claims(R) <=> \E r \in here : r.pointer = c.pointer
      BY <1>2, <3>1, <3>2
    <3>4. here # {} => UnsetAll(h[p], here)[c.pointer] =
                         IF \E r \in here : r.pointer = c.pointer THEN Absent
                         ELSE h[p][c.pointer]
      BY <2>4 DEF UnsetAll, Pointers
    <3>5. t[p][c.pointer] = IF c \in Claims(R) THEN Absent ELSE h[p][c.pointer]
      BY <1>1, <1>6, <3>3, <3>4
    <3>6. Parsed(t[p])
      BY <1>1, <1>6, <2>2
    <3> QED  BY <1>6, <2>4, <3>5, <3>6 DEF Agree, Present, Inside, t
  <2> QED  BY <1>6, <2>3, <2>4, ClaimCases
<1> QED  BY <1>4, <1>5, <1>6

(* What the plan claims, and what it replaces.                             *)
PlacedClaims == Claims({s.art : s \in Placements})
ReplacedClaims == Claims({s.entry : s \in {t \in Placements : t.action = "update"}})

LEMMA PlacedAt ==
  ASSUME TypeOK, PlanSound, NEW s \in Placements
  PROVE  /\ s \in At(s.art.path) /\ s \in steps /\ StepFits(s)
         /\ s.art \in Artifact /\ s.art.path \in Paths
         /\ s.action = "update" => /\ s.entry \in Artifact /\ SameSlot(s.entry, s.art)
                                   /\ Appends(s.entry) = Appends(s.art)
<1>1. s \in steps /\ StepFits(s) /\ s.art \in Artifact /\ s.art.path \in Paths
  BY PlacementTypes DEF Placements, PlanSound
<1>2. s.action = "update" => s.entry \in Artifact /\ SameSlot(s.entry, s.art)
  BY <1>1 DEF StepFits, TypeOK
<1> QED  BY <1>1, <1>2 DEF At, SameSlot, Appends

LEMMA OneFileStep ==
  ASSUME TypeOK, PlanSound, NEW p \in Files, NEW s \in At(p), NEW t \in At(p)
  PROVE  s = t
<1>1. /\ s \in steps /\ t \in steps /\ s.art \in Artifact /\ t.art \in Artifact
      /\ s.art.path = p /\ t.art.path = p
  BY PlacedAt DEF At, Placements
<1>2. s.art.pointer = Whole /\ t.art.pointer = Whole /\ ~ Appends(s.art) /\ ~ Appends(t.art)
  BY <1>1, ArtifactTypes, Disjoint
<1>3. Claim(s.art) = Claim(t.art)
  BY <1>1, <1>2 DEF Claim
<1> QED  BY <1>1, <1>3 DEF PlanSound

LEMMA PlacedHomeType ==
  ASSUME TypeOK, PlanSound
  PROVE  PlacedHome \in Homes
<1>0. before \in Homes
  BY DEF TypeOK
<1>1. ASSUME NEW f \in Files PROVE Placed(f) \in FileContent
  <2>1. CASE At(f) = {}
    BY <1>0, <2>1 DEF Placed, Homes
  <2>2. CASE At(f) # {}
    <3>1. PICK s \in At(f) : s = CHOOSE t \in At(f) : TRUE
      BY <2>2
    <3>2. s.art.val \in Value
      BY <3>1, PlacedAt, ArtifactTypes DEF At
    <3> QED  BY <2>2, <3>1, <3>2 DEF Placed, FileContent
  <2> QED  BY <2>1, <2>2
<1>2. ASSUME NEW d \in Docs PROVE Placed(d) \in DocContent
  <2>1. d \notin Files /\ before[d] \in DocContent
    BY <1>0, Disjoint DEF Homes
  <2>2. \A s \in At(d) : s.art \in Artifact
    BY PlacedAt DEF At
  <2>3. SetAll(before[d], At(d)) \in Document
    BY <2>1, <2>2, SetAllType
  <2> QED  BY <2>1, <2>3 DEF Placed, DocContent
<1>3. PlacedHome = [p \in Paths |-> Placed(p)]
  BY DEF PlacedHome
<1>4. \A p \in Paths : Placed(p) \in Content
  BY <1>1, <1>2 DEF Paths, Content
<1> HIDE DEF PlacedHome
<1>5. \A p \in Paths : PlacedHome[p] = Placed(p)
  BY <1>3
<1>6. PlacedHome \in [Paths -> Content]
  BY <1>3, <1>4
<1> QED  BY <1>1, <1>2, <1>5, <1>6 DEF Homes, Paths

(* The plan fills what it claims, empties what it replaces with something  *)
(* else, and leaves the rest.                                              *)
LEMMA PlacedAgrees ==
  ASSUME TypeOK, PlanSound, NEW c \in AllClaims
  PROVE  /\ c \in PlacedClaims => Present(PlacedHome, c)
         /\ c \in ReplacedClaims \ PlacedClaims => ~ Present(PlacedHome, c)
         /\ c \notin ReplacedClaims \cup PlacedClaims => Agree(PlacedHome, before, c)
<1> DEFINE p == c.path
<1>0. p \in Paths /\ before \in Homes
  BY ClaimCases DEF Paths, TypeOK
<1>1. PlacedHome[p] = Placed(p)
  BY <1>0 DEF PlacedHome
<1>2. c \in PlacedClaims <=> \E s \in At(p) : /\ s.art.pointer = c.pointer
                                              /\ c.item = IF Appends(s.art) THEN s.art.val ELSE Absent
  <2>1. c \in PlacedClaims <=> \E s \in Placements : Claim(s.art) = c
    BY DEF PlacedClaims, Claims
  <2> QED  BY <2>1, SameClaim DEF At
<1>3. c \in ReplacedClaims <=> \E s \in At(p) : /\ s.action = "update"
                                                /\ s.art.pointer = c.pointer
                                                /\ c.item = IF Appends(s.art) THEN s.entry.val ELSE Absent
  <2>1. c \in ReplacedClaims <=> \E s \in Placements : s.action = "update" /\ Claim(s.entry) = c
    BY DEF ReplacedClaims, Claims
  <2>2. \A s \in Placements : s.action = "update" =>
          /\ s.entry.path = s.art.path /\ s.entry.pointer = s.art.pointer
          /\ Appends(s.entry) = Appends(s.art)
    BY PlacedAt DEF SameSlot
  <2> QED  BY <2>1, <2>2, SameClaim DEF At
<1>4. CASE At(p) = {}
  <2>1. PlacedHome[p] = before[p]
    BY <1>1, <1>4 DEF Placed
  <2> QED  BY <1>2, <1>3, <1>4, <2>1, AgreeIsLocal
<1>5. CASE At(p) # {} /\ p \in Files
  <2>1. PICK s \in At(p) : s = CHOOSE t \in At(p) : TRUE
    BY <1>5
  <2>2. PlacedHome[p] = s.art.val
    BY <1>1, <1>5, <2>1 DEF Placed
  <2>3. s.art \in Artifact /\ s.art.path = p
    BY <2>1, PlacedAt DEF At
  <2>4. s.art.pointer = Whole /\ ~ Appends(s.art) /\ s.art.val \in Value
    BY <1>5, <2>3, ArtifactTypes, Disjoint
  <2>5. c \in PlacedClaims
    BY <1>2, <1>5, <2>4, ClaimCases
  <2>6. Present(PlacedHome, c)
    BY <1>5, <2>2, <2>4, Disjoint DEF Present
  <2> QED  BY <2>5, <2>6
<1>6. CASE At(p) # {} /\ p \notin Files
  <2> DEFINE doc == IF Parsed(before[p]) THEN before[p] ELSE EmptyDoc
             set == SetAll(before[p], At(p))
  <2>1. p \in Docs /\ before[p] \in DocContent
    BY <1>0, <1>6 DEF Paths, Homes
  <2>2. \A s \in At(p) : s.art \in Artifact /\ s.art.path = p
    BY PlacedAt DEF At
  <2>3. set \in Document
    BY <2>1, <2>2, SetAllType
  <2>4. PlacedHome[p] = set /\ Parsed(set)
    BY <1>1, <1>6, <2>3, Disjoint DEF Placed, Parsed
  <2>5. CASE c.pointer \in Lists
    <3> DEFINE here == {s \in At(p) : s.art.pointer = c.pointer}
               new  == {s.art.val : s \in here}
               old  == {s.entry.val : s \in {t \in here : t.action = "update"}}
    <3>1. set[c.pointer] = (doc[c.pointer] \ old) \cup new
      BY <2>5 DEF SetAll, Pointers
    <3>2. \A s \in here : Appends(s.art)
      BY <2>5 DEF Appends
    <3>3. c \in PlacedClaims <=> c.item \in new
      BY <1>2, <3>2
    <3>4. c \in ReplacedClaims <=> c.item \in old
      BY <1>3, <3>2
    <3>5. Present(PlacedHome, c) <=> c.item \in set[c.pointer]
      BY <1>6, <2>4, <2>5 DEF Present
    <3>6. Present(before, c) <=> c.item \in doc[c.pointer]
      BY <1>6, <2>5 DEF Present, EmptyDoc, Pointers
    <3>7. Inside(PlacedHome, c) = Inside(before, c)
      BY <1>6, <2>5 DEF Inside
    <3> HIDE DEF set, doc, old, new
    <3> QED  BY <3>1, <3>3, <3>4, <3>5, <3>6, <3>7 DEF Agree
  <2>6. CASE c.pointer \in Keys /\ c.pointer \notin Lists
    <3> DEFINE here == {s \in At(p) : s.art.pointer = c.pointer}
    <3>1. set[c.pointer] = IF here = {} THEN doc[c.pointer]
                           ELSE (CHOOSE s \in here : TRUE).art.val
      BY <2>6 DEF SetAll, Pointers
    <3>2. \A s \in here : ~ Appends(s.art)
      BY <2>6 DEF Appends
    <3>3. c.item = Absent
      BY <1>6, <2>6, ClaimCases
    <3>4. c \in PlacedClaims <=> here # {}
      BY <1>2, <3>2, <3>3
    <3>5. c \in ReplacedClaims => here # {}
      BY <1>3
    <3>6. here # {} => set[c.pointer] # Absent
      <4>1. here # {} => \E s \in here : set[c.pointer] = s.art.val
        BY <3>1
      <4>2. \A s \in here : s.art.val \in Value
        BY <2>2, ArtifactTypes
      <4> QED  BY <4>1, <4>2, Disjoint
    <3>7. Present(PlacedHome, c) <=> set[c.pointer] # Absent
      BY <1>6, <2>4, <2>6 DEF Present
    <3>8. Present(before, c) <=> doc[c.pointer] # Absent
      BY <1>6, <2>6 DEF Present, EmptyDoc, Pointers
    <3>9. Inside(PlacedHome, c) = set[c.pointer]
      BY <1>6, <2>4, <2>6 DEF Inside
    <3>10. Present(before, c) => Inside(before, c) = doc[c.pointer]
      BY <1>6, <2>6 DEF Inside, Present
    <3> HIDE DEF set, doc, here
    <3> QED  BY <3>1, <3>4, <3>5, <3>6, <3>7, <3>8, <3>9, <3>10 DEF Agree
  <2> QED  BY <1>6, <2>5, <2>6, ClaimCases
<1> QED  BY <1>4, <1>5, <1>6

-----------------------------------------------------------------------------
(* What cannot be parsed is never written over.                            *)

(* What apply holds for a document was read from it, so a document that     *)
(* apply or a rollback would write back has been parsed in this run, and    *)
(* nobody else has written to it since.                                    *)
ParsedInv ==
  /\ TypeInv
  /\ phase \in {"idle", "planned"} => restorable = Untouched
  /\ phase \in {"apply", "retire"} =>
       \A d \in Docs : restorable[d] # Unsaved => home[d] # Garbage

LEMMA ParsedInit == Init => ParsedInv
  BY TypeInit DEF Init, ParsedInv

(* What is unreadable is not Parsed, and taking records out leaves it.      *)
LEMMA TakenOutLeaves ==
  ASSUME NEW h \in Homes, NEW R, NEW d \in Docs
  PROVE  TakenOut(h, R)[d] = Garbage <=> h[d] = Garbage
<1>1. d \in Paths /\ d \notin Files /\ h[d] \in DocContent
  BY Disjoint DEF Paths, Homes
<1>2. CASE Parsed(h[d])
  <2>1. h[d] \in Document
    BY <1>1, <1>2 DEF Parsed, DocContent
  <2>2. \A S : UnsetAll(h[d], S) # Garbage
    BY <2>1, UnsetAllType, Disjoint
  <2> QED  BY <1>1, <1>2, <2>2 DEF TakenOut, Parsed
<1>3. CASE ~ Parsed(h[d])
  BY <1>1, <1>3 DEF TakenOut
<1> QED  BY <1>2, <1>3

LEMMA UndoneLeaves ==
  ASSUME NEW h \in Homes, created \subseteq Files, NEW d \in Docs, h[d] = Garbage,
         restorable[d] = Unsaved
  PROVE  Undone(h)[d] = Garbage
BY Disjoint DEF Undone, Paths

LEMMA UnplacedLeaves ==
  ASSUME TypeOK, NEW d \in Docs, home[d] = Garbage, restorable[d] = Unsaved
  PROVE  Unplaced[d] = Garbage
<1> DEFINE back == [p \in Paths |-> IF p \in Replaced THEN restorable[p] ELSE home[p]]
<1>1. d \notin Replaced
  BY DEF Replaced
<1>2. back[d] = Garbage
  BY <1>1 DEF Paths
<1>3. back \in Homes
  <2> DEFINE g == [p \in Paths |-> IF p \in Replaced THEN restorable[p]
                                   ELSE IF p \in {} THEN Absent ELSE home[p]]
  <2>1. home \in Homes /\ restorable \in Held /\ \A p \in Replaced : restorable[p] # Unsaved
    BY DEF TypeOK, Replaced
  <2>2. g \in Homes
    BY <2>1, PutBackType
  <2>3. back = g
    OBVIOUS
  <2> QED  BY <2>2, <2>3
<1>4. Unplaced = TakenOut(back, {r \in records : r.path \notin Replaced})
  BY DEF Unplaced
<1> HIDE DEF back
<1> QED  BY <1>2, <1>3, <1>4, TakenOutLeaves

LEMMA ParsedNext ==
  ASSUME ParsedInv, [Next]_vars
  PROVE  ParsedInv'
<1> USE DEF plan, undo, ghosts, bounds
<1>0. TypeInv /\ TypeInv' /\ TypeOK
  BY TypeNext DEF ParsedInv, TypeInv
<1>1. CASE UNCHANGED vars
  BY <1>0, <1>1 DEF vars, ParsedInv
<1>2. CASE UserEdits \/ UserEditsInWindow
  BY <1>0, <1>2 DEF UserEdits, UserEditsInWindow, ParsedInv
<1>3. ASSUME NEW arts \in Releases, Plan(arts) PROVE ParsedInv'
  BY <1>0, <1>3 DEF Plan, ParsedInv
<1>4. CASE StartApply \/ Uninstall
  BY <1>0, <1>4 DEF StartApply, Uninstall, ParsedInv, Untouched, Paths
<1>5. ASSUME NEW s \in todo, ApplyFile(s) PROVE ParsedInv'
  <2>1. s.art.path \in Files /\ s.art.path \in Paths
    BY <1>0, <1>5, PlacementTypes DEF ApplyFile, FileStep, TypeOK
  <2>2. phase = "apply" /\ phase' = "apply"
    BY <1>5 DEF ApplyFile, FileStep
  <2>3. \A d \in Docs : home'[d] = home[d] /\ restorable'[d] = restorable[d]
    BY <1>0, <1>5, <2>1, Disjoint DEF ApplyFile, FileStep, TypeOK, Homes, Held, Paths
  <2> QED  BY <1>0, <2>2, <2>3 DEF ParsedInv
<1>6. ASSUME NEW d \in Docs, ApplyDoc(d) PROVE ParsedInv'
  <2> DEFINE S == {s \in todo : s.art.path = d}
  <2>1. phase = "apply" /\ phase' = "apply" /\ home' = [home EXCEPT ![d] = SetAll(home[d], S)]
    BY <1>6 DEF ApplyDoc
  <2>2. \A s \in S : s.art \in Artifact
    BY <1>0, PlacementTypes DEF TypeOK
  <2> HIDE DEF S
  <2>3. SetAll(home[d], S) # Garbage
    BY <1>0, <2>2, SetAllType, Disjoint DEF TypeOK, Homes
  <2>4. /\ home'[d] # Garbage
        /\ \A e \in Docs \ {d} : home'[e] = home[e] /\ restorable'[e] = restorable[e]
    BY <1>0, <1>6, <2>1, <2>3 DEF ApplyDoc, TypeOK, Homes, Held, Paths
  <2> QED  BY <1>0, <2>1, <2>4 DEF ParsedInv
<1>7. CASE StartRetire
  BY <1>0, <1>7 DEF StartRetire, ParsedInv
<1>8. ASSUME NEW d \in Docs, RetireDoc(d) PROVE ParsedInv'
  BY <1>0, <1>8, TakenOutLeaves DEF RetireDoc, ParsedInv, TypeOK
<1>9. ASSUME NEW r \in retiring, RetireFile(r) PROVE ParsedInv'
  <2>1. r.path \in Files
    BY <1>0, <1>9, ArtifactTypes DEF RetireFile, TypeOK
  <2>2. phase = "retire" /\ phase' = "retire" /\ restorable' = restorable
    BY <1>9 DEF RetireFile
  <2>3. \A d \in Docs : home'[d] = home[d]
    BY <1>0, <1>9, <2>1, Disjoint DEF RetireFile, TypeOK, Homes, Paths
  <2> QED  BY <1>0, <2>2, <2>3 DEF ParsedInv
<1>10. CASE UndoFails \/ RollbackFails \/ Exit \/ Crash \/ Save
  BY <1>0, <1>10 DEF UndoFails, RollbackFails, Exit, Crash, Save, Forget, ParsedInv
<1>11. CASE \/ ApplyFails \/ ApplyUnparseable \/ (\E s \in todo : ApplyFailsLate(s))
            \/ RetireFails \/ RetireUnparseable \/ SaveFails
  <2>1. phase' \in {"undone", "rolledback"}
    BY <1>11 DEF ApplyFails, ApplyUnparseable, ApplyFailsLate,
                 RetireFails, RetireUnparseable, SaveFails, Abandon
  <2> QED  BY <1>0, <2>1 DEF ParsedInv
<1> QED
  BY <1>1, <1>2, <1>3, <1>4, <1>5, <1>6, <1>7, <1>8, <1>9, <1>10, <1>11
     DEF Next, Darq, User, Starts, Applies, Retires, Breaks

LEMMA GarbageStays ==
  ASSUME ParsedInv, Darq, NEW d \in Docs, home[d] = Garbage
  PROVE  home'[d] = Garbage
<1> USE DEF plan, undo, ghosts, bounds
<1>0. TypeOK /\ d \in Paths /\ d \notin Files /\ created \subseteq Files /\ home \in Homes
  BY Disjoint DEF ParsedInv, TypeInv, TypeOK, Paths
<1>1. CASE Starts \/ StartApply \/ StartRetire \/ Save \/ Exit \/ Crash \/ ApplyUnparseable
  BY <1>1 DEF Starts, Uninstall, Plan, StartApply, StartRetire, Save, Exit, Crash,
              ApplyUnparseable
<1>2. ASSUME NEW s \in todo, ApplyFile(s) PROVE home'[d] = Garbage
  <2>1. s.art.path \in Files
    BY <1>0, <1>2, PlacementTypes DEF ApplyFile, FileStep, TypeOK
  <2> QED  BY <1>0, <1>2, <2>1 DEF ApplyFile, FileStep, Homes
<1>3. ASSUME NEW e \in Docs, ApplyDoc(e) PROVE home'[d] = Garbage
  BY <1>0, <1>3 DEF ApplyDoc, Parses, Homes
<1>4. ASSUME NEW e \in Docs, RetireDoc(e) PROVE home'[d] = Garbage
  BY <1>0, <1>4, TakenOutLeaves DEF RetireDoc
<1>5. ASSUME NEW r \in retiring, RetireFile(r) PROVE home'[d] = Garbage
  <2>1. r.path \in Files
    BY <1>0, <1>5, ArtifactTypes DEF RetireFile, TypeOK
  <2> QED  BY <1>0, <1>5, <2>1 DEF RetireFile, Homes
<1>6. CASE ApplyFails
  <2>1. restorable[d] = Unsaved
    BY <1>6 DEF ApplyFails, ParsedInv
  <2> QED  BY <1>0, <1>6, <2>1, UndoneLeaves DEF ApplyFails
<1>7. ASSUME NEW s \in todo, ApplyFailsLate(s) PROVE home'[d] = Garbage
  <2> DEFINE h == [home EXCEPT ![s.art.path] =
                     IF s.action = "update" THEN home[s.art.path] ELSE s.art.val]
  <2>1. s.art \in Artifact /\ s.art.path \in Files
    BY <1>0, <1>7, PlacementTypes DEF ApplyFailsLate, TypeOK
  <2>2. h \in Homes /\ h[d] = Garbage
    <3>1. s.art.val \in Value
      BY <2>1, ArtifactTypes
    <3>2. (IF s.action = "update" THEN home[s.art.path] ELSE s.art.val) \in FileContent
      BY <1>0, <2>1, <3>1 DEF Homes, FileContent
    <3>3. h \in Homes
      BY <1>0, <2>1, <3>2, SetFileType
    <3> QED  BY <1>0, <2>1, <3>3 DEF Homes
  <2>3. home' = Undone(h) /\ restorable[d] = Unsaved
    BY <1>7 DEF ApplyFailsLate, ParsedInv
  <2> HIDE DEF h
  <2> QED  BY <1>0, <2>2, <2>3, UndoneLeaves
<1>8. CASE UndoFails
  <2>1. PICK S \in SUBSET Paths :
          home' = [p \in Paths |-> IF p \in S THEN Undone(home)[p] ELSE home[p]]
    BY <1>8 DEF UndoFails
  <2>2. restorable[d] = Unsaved
    BY <1>8 DEF UndoFails, ParsedInv
  <2>3. Undone(home)[d] = Garbage
    BY <1>0, <2>2, UndoneLeaves
  <2> QED  BY <1>0, <2>1, <2>3
<1>9. CASE RetireFails \/ RetireUnparseable \/ SaveFails \/ RollbackFails
  <2>1. home'[d] = Unplaced[d] \/ home'[d] = home[d]
    <3>1. d \in Paths
      BY DEF Paths
    <3>2. CASE RollbackFails
      BY <3>1, <3>2 DEF RollbackFails
    <3>3. CASE RetireFails \/ RetireUnparseable \/ SaveFails
      BY <3>3 DEF RetireFails, RetireUnparseable, SaveFails, Abandon
    <3> QED  BY <1>9, <3>2, <3>3
  <2>2. phase = "retire"
    BY <1>9 DEF RetireFails, RetireUnparseable, SaveFails, RollbackFails
  <2>3. restorable[d] = Unsaved
    BY <2>2 DEF ParsedInv
  <2> QED  BY <1>0, <2>1, <2>3, UnplacedLeaves
<1> QED
  BY <1>1, <1>2, <1>3, <1>4, <1>5, <1>6, <1>7, <1>8, <1>9
     DEF Darq, Starts, Applies, Retires, Breaks

(* No command writes over a document that cannot be parsed, nor does any    *)
(* rollback, whenever it stopped parsing (_read_document): with any         *)
(* releases, any edits at any time and any failures.                       *)
THEOREM UnparseableStays == Spec => UnparseableLeftAlone
<1>1. ParsedInv /\ [Next]_vars
        => [Darq => \A d \in Docs : home[d] = Garbage => home'[d] = Garbage]_vars
  BY GarbageStays
<1> QED  BY <1>1, ParsedInit, ParsedNext, PTL DEF Spec, UnparseableLeftAlone

-----------------------------------------------------------------------------
(* The whole of a run.                                                     *)

(* A plan describes the home and the journal it is made from.              *)
LEMMA StepIsRight ==
  ASSUME TypeOK, NEW a \in Artifact, a.kind = "config-key" => home[a.path] # Garbage,
         NEW s, s = StepOf(a)
  PROVE  /\ s.art = a
         /\ s.entry # NoEntry => s.entry \in journal
         /\ s.action = "create" =>
              /\ ~ Present(home, Claim(a))
              /\ s.entry # NoEntry /\ SameSlot(s.entry, a) => ~ Present(home, Claim(s.entry))
         /\ s.action = "update" =>
              /\ s.entry \in journal /\ SameSlot(s.entry, a)
              /\ Present(home, Claim(s.entry))
              /\ Appends(a) => ~ Present(home, Claim(a))
         /\ s.action = "unchanged" =>
              /\ s.entry \in journal /\ SameSlot(s.entry, a)
              /\ Holds(home, a)
         /\ s.action \in {"create", "update"} => home[a.path] # Garbage
<1> DEFINE e == EntryOf(a)
<1>0. e # NoEntry => e \in journal /\ e \in Artifact
  BY EntryIsKnown DEF TypeOK
<1>1. CASE a.kind = "file"
  <2>1. s = [art |-> a, action |-> FileAction(a, e), entry |-> e]
    BY <1>1 DEF StepOf
  <2>2. a.path \in Files /\ a.pointer = Whole /\ ~ Appends(a) /\ a.val \in Value
    BY <1>1, ArtifactTypes
  <2>3. e # NoEntry /\ e.kind = "file" => e.pointer = Whole
    BY <1>0, ArtifactTypes
  <2> HIDE DEF e
  <2>4. CASE home[a.path] = Absent
    <3>1. s.action = "create"
      BY <2>1, <2>4 DEF FileAction
    <3>2. ~ Present(home, Claim(a)) /\ home[a.path] # Garbage
      BY <2>2, <2>4, Disjoint DEF Present, Claim
    <3>3. SameSlot(e, a) => ~ Present(home, Claim(e))
      BY <2>2, <2>4 DEF SameSlot, Present, Claim
    <3> QED  BY <1>0, <2>1, <3>1, <3>2, <3>3
  <2>5. CASE home[a.path] # Absent
    <3>1. s.action # "create"
      BY <2>1, <2>5 DEF FileAction
    <3>2. s.action \in {"update", "unchanged"}
            => /\ e # NoEntry /\ e.kind = "file" /\ e.path = a.path
               /\ home[a.path] # Garbage
      BY <2>1, <2>5 DEF FileAction
    <3>3. s.action = "unchanged" => home[a.path] = a.val
      BY <2>1, <2>5 DEF FileAction
    <3>4. s.action \in {"update", "unchanged"}
            => e \in journal /\ SameSlot(e, a) /\ Present(home, Claim(e))
      BY <1>0, <1>1, <2>2, <2>3, <2>5, <3>2 DEF SameSlot, Present, Claim
    <3>5. s.action = "unchanged" => Holds(home, a)
      BY <2>2, <3>3 DEF Holds
    <3>6. s.entry = e /\ s.art = a
      BY <2>1
    <3> QED  BY <1>0, <2>2, <3>1, <3>2, <3>4, <3>5, <3>6
  <2> QED  BY <2>4, <2>5
<1>2. CASE a.kind # "file"
  <2>1. /\ s.art = a /\ s.action = KeyAction(a, e)
        /\ s.entry = IF Claimable(a, e) THEN e ELSE NoEntry
    BY <1>2 DEF StepOf
  <2>2. /\ a.kind = "config-key" /\ a.path \in Docs /\ a.path \notin Files
        /\ home[a.path] # Garbage
    BY <1>2, ArtifactTypes, Disjoint
  <2> HIDE DEF e
  <2>3. CASE ~ Claimable(a, e)
    BY <2>1, <2>2, <2>3 DEF KeyAction
  <2>4. CASE Claimable(a, e)
    <3>1. e \in journal /\ SameSlot(e, a) /\ e # NoEntry
      BY <1>0, <2>2, <2>4 DEF Claimable, SameSlot
    <3>2. s.action = IF Holds(home, a) THEN "unchanged"
                     ELSE IF Present(home, Claim(e)) THEN "update" ELSE "create"
      BY <2>1, <2>4 DEF KeyAction
    <3>3. Appends(a) /\ ~ Holds(home, a) => ~ Present(home, Claim(a))
      BY <2>2 DEF Holds, Present, Claim, Appends
    <3>4. ~ Appends(a) => Claim(e) = Claim(a)
      BY <3>1 DEF Claim, Appends, SameSlot
    <3> QED  BY <2>1, <2>2, <2>4, <3>1, <3>2, <3>3, <3>4
  <2> QED  BY <2>3, <2>4
<1> QED  BY <1>1, <1>2

LEMMA PlanSoundAtFirst ==
  ASSUME TypeInv, NEW arts \in Releases, Plan(arts)
  PROVE  PlanSound'
<1>1. /\ steps' = {StepOf(a) : a \in arts} /\ asked' = Retirements(arts)
      /\ before' = home /\ journal' = journal /\ ~ Duplicates(arts) /\ Readable(arts)
  BY DEF Plan
<1>2. arts \subseteq Artifact /\ journal \subseteq Artifact /\ TypeOK
  BY ReleasesAreArtifacts DEF TypeInv, TypeOK
<1>3. \A a \in arts : a.kind = "config-key" => home[a.path] # Garbage
  BY <1>1 DEF Readable, Parses
<1>4. ASSUME NEW s \in steps' PROVE StepFits(s)'
  <2>1. PICK a \in arts : s = StepOf(a)
    BY <1>1
  <2>2. s.art = a
    BY <2>1 DEF StepOf
  <2> QED  BY <1>1, <1>2, <1>3, <2>1, <2>2, StepIsRight
           DEF StepFits, Present, Claim, Appends, Holds, Parsed, SameSlot
<1>5. ASSUME NEW s \in steps', NEW t \in steps', s # t
      PROVE  s.art.id # t.art.id /\ Claim(s.art) # Claim(t.art)
  <2>1. PICK a \in arts, b \in arts : s = StepOf(a) /\ t = StepOf(b)
    BY <1>1
  <2>2. s.art = a /\ t.art = b /\ a # b
    BY <1>5, <2>1 DEF StepOf
  <2> QED  BY <1>1, <2>2 DEF Duplicates
<1>6. ASSUME NEW r \in asked', NEW s \in steps'
      PROVE  r.id # s.art.id /\ Claim(r) # Claim(s.art)
  <2>1. PICK a \in arts : s.art = a
    BY <1>1 DEF StepOf
  <2>2. r \in journal /\ r.id # a.id /\ (r.kind = a.kind => Claim(r) # Claim(a))
    BY <1>1, <2>1 DEF Retirements
  <2>3. r.kind # a.kind => r.path # a.path
    BY <1>2, <2>2, ArtifactTypes, Disjoint
  <2> QED  BY <2>1, <2>2, <2>3 DEF Claim
<1> QED  BY <1>4, <1>5, <1>6 DEF PlanSound, Claim, Appends

(* Apply has not reached a path, or is done with it.                       *)
NotReached(p) == At(p) \subseteq todo /\ home[p] = before[p] /\ restorable[p] = Unsaved
Saved(p) ==
  restorable[p] = IF At(p) # {} /\ (p \in Docs \/ p \in UpdatedPaths)
                  THEN before[p] ELSE Unsaved
Reached(p) == At(p) \cap todo = {} /\ home[p] = Placed(p) /\ Saved(p)

Applying ==
  /\ records = {s.art : s \in Placements \ todo}
  /\ \A p \in Paths : NotReached(p) \/ Reached(p)

(* Retire takes out of the home the plan made what it was asked to, one     *)
(* document or one file at a time, and what it does not report as gone was  *)
(* not there.                                                              *)
Retiring ==
  /\ records = {s.art : s \in Placements}
  /\ \A p \in Paths : Saved(p)
  /\ home = TakenOut(PlacedHome, asked \ retiring)
  /\ \A q, r \in asked : q.path = r.path /\ q.path \in Docs
                           => (q \in retiring <=> r \in retiring)
  /\ gone \subseteq asked \ retiring
  /\ \A r \in (asked \ retiring) \ gone : ~ Present(PlacedHome, Claim(r))

(* Where a run is, in terms of the plan it follows and the home it started  *)
(* from.                                                                   *)
RunInv ==
  /\ TypeInv
  /\ phase \in {"idle", "planned"} => records = {} /\ restorable = Untouched
  /\ phase = "idle" => steps = {} /\ asked = {}
  /\ phase \in {"idle", "planned", "apply"} => gone = {}
  /\ phase = "planned" => home = before
  /\ phase \in {"planned", "apply", "retire"} => PlanSound
  /\ phase = "apply" => Applying
  /\ phase = "retire" => Retiring

LEMMA UnsetTwice ==
  ASSUME NEW doc \in Document, NEW X, NEW R
  PROVE  UnsetAll(UnsetAll(doc, X), R) = UnsetAll(doc, X \cup R)
<1> DEFINE once  == UnsetAll(doc, X)
           twice == UnsetAll(once, R)
           both  == UnsetAll(doc, X \cup R)
<1>1. ASSUME NEW p \in Pointers PROVE twice[p] = both[p]
  <2>1. CASE p \in Lists
    <3> DEFINE x == {r.val : r \in {q \in X : q.pointer = p}}
               y == {r.val : r \in {q \in R : q.pointer = p}}
               z == {r.val : r \in {q \in X \cup R : q.pointer = p}}
    <3>1. once[p] = doc[p] \ x /\ both[p] = doc[p] \ z
      BY <2>1 DEF UnsetAll
    <3>2. twice[p] = once[p] \ y
      BY <2>1 DEF UnsetAll
    <3>3. z = x \cup y
      OBVIOUS
    <3> HIDE DEF x, y, z, once, twice, both
    <3> QED  BY <3>1, <3>2, <3>3
  <2>2. CASE p \notin Lists
    <3>1. once[p] = IF \E r \in X : r.pointer = p THEN Absent ELSE doc[p]
      BY <2>2 DEF UnsetAll
    <3>2. both[p] = IF \E r \in X \cup R : r.pointer = p THEN Absent ELSE doc[p]
      BY <2>2 DEF UnsetAll
    <3>3. twice[p] = IF \E r \in R : r.pointer = p THEN Absent ELSE once[p]
      BY <2>2 DEF UnsetAll
    <3> HIDE DEF once, twice, both
    <3> QED  BY <3>1, <3>2, <3>3
  <2> QED  BY <2>1, <2>2
<1>2. twice = [p \in Pointers |-> twice[p]] /\ both = [p \in Pointers |-> both[p]]
  BY DEF UnsetAll
<1> HIDE DEF twice, both
<1>3. twice = both
  BY <1>1, <1>2
<1> QED  BY <1>3 DEF twice, both

(* Taking out some records and then others takes out all of them.          *)
LEMMA TakenOutTwice ==
  ASSUME NEW h \in Homes, NEW X, NEW R
  PROVE  TakenOut(TakenOut(h, X), R) = TakenOut(h, X \cup R)
<1> DEFINE once  == TakenOut(h, X)
           twice == TakenOut(once, R)
           both  == TakenOut(h, X \cup R)
<1>1. ASSUME NEW p \in Paths PROVE twice[p] = both[p]
  <2> DEFINE x == {r \in X : r.path = p}
             y == {r \in R : r.path = p}
             z == {r \in X \cup R : r.path = p}
  <2>1. z = x \cup y
    OBVIOUS
  <2>2. once[p] = IF x = {} THEN h[p] ELSE IF p \in Files THEN Absent
                  ELSE IF Parsed(h[p]) THEN UnsetAll(h[p], x) ELSE h[p]
    BY DEF TakenOut
  <2>3. twice[p] = IF y = {} THEN once[p] ELSE IF p \in Files THEN Absent
                   ELSE IF Parsed(once[p]) THEN UnsetAll(once[p], y) ELSE once[p]
    BY DEF TakenOut
  <2>4. both[p] = IF z = {} THEN h[p] ELSE IF p \in Files THEN Absent
                  ELSE IF Parsed(h[p]) THEN UnsetAll(h[p], z) ELSE h[p]
    BY DEF TakenOut
  <2> HIDE DEF x, y, z, once, twice, both
  <2>5. CASE p \in Files \/ ~ Parsed(h[p])
    BY <2>1, <2>2, <2>3, <2>4, <2>5
  <2>6. CASE p \notin Files /\ Parsed(h[p])
    <3>1. h[p] \in Document
      BY <2>6 DEF Parsed, Homes, DocContent, Paths
    <3>2. Parsed(UnsetAll(h[p], x))
      BY <3>1, UnsetAllType, Disjoint DEF Parsed
    <3>3. UnsetAll(UnsetAll(h[p], x), y) = UnsetAll(h[p], x \cup y)
      BY <3>1, UnsetTwice
    <3>4. CASE x = {}
      BY <2>1, <2>2, <2>3, <2>4, <2>6, <3>4
    <3>5. CASE y = {}
      BY <2>1, <2>2, <2>3, <2>4, <2>6, <3>5
    <3>6. CASE x # {} /\ y # {}
      <4>1. once[p] = UnsetAll(h[p], x) /\ z # {}
        BY <2>1, <2>2, <2>6, <3>6
      <4>2. twice[p] = UnsetAll(UnsetAll(h[p], x), y)
        BY <2>3, <2>6, <3>2, <3>6, <4>1
      <4>3. both[p] = UnsetAll(h[p], x \cup y)
        BY <2>1, <2>4, <2>6, <4>1
      <4> QED  BY <3>3, <4>2, <4>3
    <3> QED  BY <3>4, <3>5, <3>6
  <2> QED  BY <2>5, <2>6
<1>2. twice = [p \in Paths |-> twice[p]] /\ both = [p \in Paths |-> both[p]]
  BY DEF TakenOut
<1> HIDE DEF twice, both
<1>3. twice = both
  BY <1>1, <1>2
<1> QED  BY <1>3 DEF twice, both

LEMMA NothingTakenOut ==
  ASSUME NEW h \in Homes
  PROVE  TakenOut(h, {}) = h
BY HomesAreFunctions DEF TakenOut

LEMMA OneFileTakenOut ==
  ASSUME NEW h \in Homes, NEW r, r.path \in Files
  PROVE  TakenOut(h, {r}) = [h EXCEPT ![r.path] = Absent]
<1>1. h = [p \in Paths |-> h[p]] /\ r.path \in Paths
  BY HomesAreFunctions DEF Paths
<1>2. \A p \in Paths : TakenOut(h, {r})[p] = IF p = r.path THEN Absent ELSE h[p]
  <2> TAKE p \in Paths
  <2>1. CASE p = r.path
    BY <2>1 DEF TakenOut
  <2>2. CASE p # r.path
    BY <2>2 DEF TakenOut
  <2> QED  BY <2>1, <2>2
<1>3. TakenOut(h, {r}) = [p \in Paths |-> TakenOut(h, {r})[p]]
  BY DEF TakenOut
<1> QED  BY <1>1, <1>2, <1>3

LEMMA SamePlan ==
  ASSUME UNCHANGED <<steps, before>>
  PROVE  /\ Placements' = Placements /\ UpdatedPaths' = UpdatedPaths
         /\ \A p \in Paths : At(p)' = At(p) /\ Placed(p)' = Placed(p)
         /\ PlacedHome' = PlacedHome
<1>1. Placements' = Placements /\ UpdatedPaths' = UpdatedPaths
  BY DEF Placements, UpdatedPaths
<1>2. ASSUME NEW p PROVE At(p)' = At(p) /\ Placed(p)' = Placed(p)
  <2>1. At(p)' = At(p)
    BY <1>1 DEF At
  <2> QED  BY <2>1 DEF Placed, SetAll, Parsed, EmptyDoc
<1> QED  BY <1>1, <1>2 DEF PlacedHome

LEMMA SamePlanSound ==
  ASSUME PlanSound, UNCHANGED <<steps, before, asked, journal>>
  PROVE  PlanSound'
BY DEF PlanSound, StepFits, Present, Claim, Appends, Holds, Parsed, SameSlot

(* One path reached, whole.                                                *)
LEMMA PathReached ==
  ASSUME Applying, TypeOK, TypeOK', UNCHANGED <<steps, before>>, NEW p \in Paths,
         At(p) # {}, At(p) \subseteq todo,
         todo' = todo \ At(p), records' = records \cup {s.art : s \in At(p)},
         home' = [home EXCEPT ![p] = Placed(p)],
         restorable' = IF p \in Docs \/ p \in UpdatedPaths
                       THEN [restorable EXCEPT ![p] = home[p]] ELSE restorable
  PROVE  Applying'
<1>1. /\ home \in Homes /\ restorable \in Held /\ todo \subseteq Placements
  BY DEF TypeOK
<1>2. NotReached(p)
  BY DEF Applying, Reached
<1>3. ASSUME NEW q \in Paths PROVE NotReached(q)' \/ Reached(q)'
  <2>1. At(q)' = At(q) /\ Placed(q)' = Placed(q) /\ UpdatedPaths' = UpdatedPaths
    BY SamePlan
  <2>2. CASE q = p
    <3>1. home'[p] = Placed(p)
      BY <1>1 DEF Homes
    <3>2. restorable'[p] = IF p \in Docs \/ p \in UpdatedPaths THEN before[p] ELSE Unsaved
      BY <1>1, <1>2 DEF Held, NotReached
    <3> QED  BY <2>1, <2>2, <3>1, <3>2 DEF Reached, Saved
  <2>3. CASE q # p
    <3>1. home'[q] = home[q] /\ restorable'[q] = restorable[q]
      BY <1>1, <2>3 DEF Homes, Held
    <3>2. At(q) \cap At(p) = {}
      BY <2>3 DEF At
    <3>3. NotReached(q) \/ Reached(q)
      BY DEF Applying
    <3> QED  BY <2>1, <3>1, <3>2, <3>3 DEF NotReached, Reached, Saved
  <2> QED  BY <2>2, <2>3
<1>4. records' = {s.art : s \in Placements' \ todo'}
  <2>1. Placements' \ todo' = (Placements \ todo) \cup At(p)
    BY <1>1, SamePlan
  <2>2. records' = {s.art : s \in Placements \ todo} \cup {s.art : s \in At(p)}
    BY DEF Applying
  <2> QED  BY <2>1, <2>2
<1> QED  BY <1>3, <1>4 DEF Applying

LEMMA RunInit == Init => RunInv
  BY TypeInit DEF Init, RunInv

LEMMA SameRetiring ==
  ASSUME Retiring, UNCHANGED <<steps, before, records, restorable, home, asked, retiring, gone>>
  PROVE  Retiring'
<1>1. \A p \in Paths : At(p)' = At(p)
  BY SamePlan
<1>2. \A p \in Paths : Saved(p) => Saved(p)'
  BY <1>1, SamePlan DEF Saved
<1> QED  BY <1>2, SamePlan DEF Retiring, Present, Claim, Appends, Parsed, TakenOut, UnsetAll

LEMMA TakenOutLater ==
  ASSUME NEW H, NEW N, PlacedHome' = H, asked' \ retiring' = N, home' = TakenOut(H, N)
  PROVE  (home = TakenOut(PlacedHome, asked \ retiring))'
BY DEF TakenOut, UnsetAll, Parsed

(* A step of retire takes out all that is left to retire at a path.         *)
LEMMA MoreRetired ==
  ASSUME Retiring, TypeOK, PlacedHome \in Homes,
         UNCHANGED <<steps, before, records, restorable, asked>>,
         NEW R \in SUBSET retiring, R # {}, NEW G \in SUBSET R,
         home' = TakenOut(home, R), retiring' = retiring \ R, gone' = gone \cup G,
         \A r \in R : r.path \in Docs => \A q \in retiring : q.path = r.path => q \in R,
         \A r \in R \ G : r.path \in Docs /\ r.pointer \in Lists /\ Parsed(home[r.path])
                          /\ r.val \notin home[r.path][r.pointer]
  PROVE  Retiring'
<1>1. retiring \subseteq asked /\ asked \ retiring' = (asked \ retiring) \cup R
  BY DEF TypeOK
<1>2. home' = TakenOut(PlacedHome, asked \ retiring')
  BY <1>1, TakenOutTwice DEF Retiring
<1>3. \A p \in Paths : Saved(p)'
  BY SamePlan DEF Retiring, Saved
<1>4. ASSUME NEW r \in R \ G PROVE ~ Present(PlacedHome, Claim(r))
  <2>1. {q \in asked \ retiring : q.path = r.path} = {}
    BY <1>1 DEF Retiring
  <2>2. home[r.path] = PlacedHome[r.path]
    BY <2>1 DEF Retiring, TakenOut, Paths
  <2> QED  BY <2>2, Disjoint DEF Present, Claim, Appends
<1>5. \A r \in (asked \ retiring') \ gone' : ~ Present(PlacedHome, Claim(r))
  BY <1>1, <1>4 DEF Retiring
<1>6. PICK H, N : H = PlacedHome /\ N = asked \ retiring'
  OBVIOUS
<1>7. PlacedHome' = H /\ asked' \ retiring' = N /\ asked' = asked
  BY <1>6, SamePlan
<1>8. (home = TakenOut(PlacedHome, asked \ retiring))'
  <2>1. home' = TakenOut(H, N)
    BY <1>2, <1>6
  <2> QED  BY <1>7, <2>1, TakenOutLater
<1>9. (\A r \in (asked \ retiring) \ gone : ~ Present(PlacedHome, Claim(r)))'
  <2>1. \A r \in N \ gone' : ~ Present(H, Claim(r))
    BY <1>5, <1>6
  <2> QED  BY <1>7, <2>1 DEF Present, Claim, Appends, Parsed
<1>10. (\A q, r \in asked : q.path = r.path /\ q.path \in Docs
                              => (q \in retiring <=> r \in retiring))'
  BY <1>7 DEF Retiring
<1>11. (gone \subseteq asked \ retiring)'
  BY <1>1, <1>7 DEF Retiring
<1>12. (records = {s.art : s \in Placements})'
  BY SamePlan DEF Retiring
<1> QED  BY <1>3, <1>8, <1>9, <1>10, <1>11, <1>12 DEF Retiring

LEMMA RunForgotten ==
  ASSUME Forget, TypeInv'
  PROVE  RunInv'
BY DEF Forget, RunInv, Untouched

LEMMA RunNext ==
  ASSUME Window = {}, RunInv, [Next]_vars
  PROVE  RunInv'
<1> USE DEF plan, undo, ghosts, bounds
<1>0. TypeInv /\ TypeInv' /\ TypeOK /\ TypeOK'
  BY TypeNext DEF RunInv, TypeInv
<1>1. CASE UNCHANGED vars
  <2>1. /\ UNCHANGED <<home, journal, phase, steps, before, asked, todo>>
        /\ UNCHANGED <<created, restorable, records, retiring, gone>>
    BY <1>1 DEF vars
  <2>2. PlanSound => PlanSound'
    BY <2>1, SamePlanSound
  <2>3. Applying => Applying'
    BY <2>1, SamePlan DEF Applying, NotReached, Reached, Saved
  <2>4. Retiring => Retiring'
    BY <2>1, SameRetiring
  <2> QED  BY <1>0, <2>1, <2>2, <2>3, <2>4 DEF RunInv, Untouched
<1>2. CASE UserEdits
  BY <1>0, <1>2 DEF UserEdits, RunInv, Untouched
<1>3. ASSUME NEW arts \in Releases, Plan(arts) PROVE RunInv'
  BY <1>0, <1>3, PlanSoundAtFirst DEF Plan, RunInv, Untouched
<1>4. CASE StartApply
  <2>1. /\ UNCHANGED <<home, journal, steps, before, asked, restorable, records, gone>>
        /\ todo' = Placements /\ phase = "planned" /\ phase' = "apply"
    BY <1>4 DEF StartApply
  <2>2. home = before /\ restorable = Untouched /\ records = {} /\ gone = {} /\ PlanSound
    BY <2>1 DEF RunInv
  <2>3. \A p \in Paths : NotReached(p)'
    BY <2>1, <2>2, SamePlan DEF NotReached, At, Untouched
  <2>4. Applying'
    BY <2>1, <2>2, <2>3, SamePlan DEF Applying
  <2> QED  BY <1>0, <2>1, <2>2, <2>4, SamePlanSound DEF RunInv
<1>5. ASSUME NEW s \in todo, ApplyFile(s) PROVE RunInv'
  <2> DEFINE p == s.art.path
  <2>1. /\ phase = "apply" /\ phase' = "apply" /\ UNCHANGED <<steps, before, asked, journal, gone>>
        /\ s.art.kind = "file" /\ home' = [home EXCEPT ![p] = s.art.val]
        /\ todo' = todo \ {s} /\ records' = records \cup {s.art}
        /\ restorable' = IF s.action = "update" /\ restorable[p] = Unsaved
                         THEN [restorable EXCEPT ![p] = home[p]] ELSE restorable
    BY <1>5 DEF ApplyFile, FileStep, Took
  <2>2. PlanSound /\ Applying /\ gone = {}
    BY <2>1 DEF RunInv
  <2>3. s \in Placements /\ p \in Files /\ p \in Paths /\ p \notin Docs
    BY <1>0, <2>1, PlacementTypes, Disjoint DEF TypeOK
  <2>4. At(p) = {s}
    BY <1>0, <2>2, <2>3, OneFileStep DEF At
  <2>5. NotReached(p)
    BY <2>2, <2>3, <2>4 DEF Applying, Reached
  <2>6. p \in UpdatedPaths <=> s.action = "update"
    BY <2>3, <2>4 DEF UpdatedPaths, At, Placements
  <2>7. Placed(p) = s.art.val
    BY <2>3, <2>4 DEF Placed
  <2>8. restorable' = IF p \in Docs \/ p \in UpdatedPaths
                      THEN [restorable EXCEPT ![p] = home[p]] ELSE restorable
    BY <2>1, <2>3, <2>5, <2>6 DEF NotReached
  <2>9. {t.art : t \in {s}} = {s.art}
    OBVIOUS
  <2> HIDE DEF p
  <2>10. Applying'
    BY <1>0, <2>1, <2>2, <2>3, <2>4, <2>7, <2>8, <2>9, PathReached
  <2> QED  BY <1>0, <2>1, <2>2, <2>10, SamePlanSound DEF RunInv
<1>6. ASSUME NEW d \in Docs, ApplyDoc(d) PROVE RunInv'
  <2> DEFINE S == {s \in todo : s.art.path = d}
  <2>1. /\ phase = "apply" /\ phase' = "apply" /\ UNCHANGED <<steps, before, asked, journal, gone>>
        /\ S # {} /\ home' = [home EXCEPT ![d] = SetAll(home[d], S)]
        /\ todo' = todo \ S /\ records' = records \cup {s.art : s \in S}
        /\ restorable' = IF restorable[d] = Unsaved
                         THEN [restorable EXCEPT ![d] = home[d]] ELSE restorable
    BY <1>6 DEF ApplyDoc, Took
  <2>2. PlanSound /\ Applying /\ gone = {}
    BY <2>1 DEF RunInv
  <2>3. d \in Paths /\ d \notin Files
    BY Disjoint DEF Paths
  <2>4. S = At(d) \cap todo
    BY <1>0 DEF At, TypeOK
  <2>5. NotReached(d)
    BY <2>1, <2>2, <2>3, <2>4 DEF Applying, Reached
  <2>6. S = At(d)
    BY <2>4, <2>5 DEF NotReached
  <2> HIDE DEF S
  <2>7. Placed(d) = SetAll(home[d], S)
    BY <2>1, <2>3, <2>5, <2>6 DEF Placed, NotReached
  <2>8. restorable' = [restorable EXCEPT ![d] = home[d]]
    BY <2>1, <2>5 DEF NotReached
  <2>9. Applying'
    BY <1>0, <2>1, <2>2, <2>3, <2>4, <2>6, <2>7, <2>8, PathReached
  <2> QED  BY <1>0, <2>1, <2>2, <2>9, SamePlanSound DEF RunInv
<1>7. CASE StartRetire
  <2>1. /\ UNCHANGED <<home, journal, steps, before, asked, restorable, records, gone>>
        /\ todo = {} /\ phase = "apply" /\ phase' = "retire" /\ retiring' = asked
    BY <1>7 DEF StartRetire
  <2>2. PlanSound /\ Applying /\ gone = {}
    BY <2>1 DEF RunInv
  <2>3. \A p \in Paths : home[p] = Placed(p) /\ Saved(p)
    BY <2>1, <2>2 DEF Applying, NotReached, Reached, Saved, Placed
  <2>4. PlacedHome \in Homes /\ home \in Homes
    BY <1>0, <2>2, PlacedHomeType DEF TypeOK
  <2>5. home = PlacedHome
    <3>1. \A p \in Paths : PlacedHome[p] = Placed(p)
      BY DEF PlacedHome
    <3> QED  BY <2>3, <2>4, <3>1, SameHome
  <2>6. asked \ retiring' = {} /\ TakenOut(PlacedHome, {}) = PlacedHome
    BY <2>1, <2>4, NothingTakenOut
  <2>7. (home = TakenOut(PlacedHome, asked \ retiring))'
    BY <2>1, <2>5, <2>6, SamePlan DEF TakenOut, UnsetAll, Parsed
  <2>8. \A p \in Paths : Saved(p)'
    BY <2>1, <2>3, SamePlan DEF Saved
  <2>9. records' = {s.art : s \in Placements'}
    BY <2>1, <2>2, SamePlan DEF Applying
  <2>10. Retiring'
    BY <2>1, <2>2, <2>6, <2>7, <2>8, <2>9 DEF Retiring
  <2> QED  BY <1>0, <2>1, <2>2, <2>10, SamePlanSound DEF RunInv
<1>8. CASE Uninstall
  <2>1. /\ UNCHANGED <<home, journal, steps, restorable, records, gone>>
        /\ phase = "idle" /\ phase' = "retire"
        /\ retiring' = journal /\ asked' = journal /\ before' = home
    BY <1>8 DEF Uninstall
  <2>2. records = {} /\ restorable = Untouched /\ steps = {} /\ gone = {}
    BY <2>1 DEF RunInv
  <2>3. Placements' = {} /\ \A p \in Paths : At(p)' = {}
    BY <2>1, <2>2 DEF Placements, At
  <2>4. PlacedHome' = home
    <3>1. PlacedHome' = [p \in Paths |-> home[p]]
      BY <2>1, <2>3 DEF PlacedHome, Placed
    <3> QED  BY <1>0, <3>1, HomesAreFunctions DEF TypeOK
  <2>5. (home = TakenOut(PlacedHome, asked \ retiring))'
    <3>1. TakenOut(home, {}) = home
      BY <1>0, NothingTakenOut DEF TypeOK
    <3> QED  BY <2>1, <2>4, <3>1 DEF TakenOut, UnsetAll, Parsed
  <2>6. \A p \in Paths : Saved(p)'
    BY <2>1, <2>2, <2>3 DEF Saved, Untouched
  <2>7. Retiring'
    BY <2>1, <2>2, <2>3, <2>5, <2>6 DEF Retiring
  <2>8. PlanSound'
    BY <2>1, <2>2 DEF PlanSound
  <2> QED  BY <1>0, <2>1, <2>7, <2>8 DEF RunInv
<1>9. ASSUME NEW R \in SUBSET retiring, R # {}, NEW G \in SUBSET R, phase = "retire",
             home' = TakenOut(home, R), retiring' = retiring \ R, gone' = gone \cup G,
             UNCHANGED <<journal, phase, plan, undo>>,
             \A r \in R : r.path \in Docs => \A q \in retiring : q.path = r.path => q \in R,
             \A r \in R \ G : r.path \in Docs /\ r.pointer \in Lists /\ Parsed(home[r.path])
                              /\ r.val \notin home[r.path][r.pointer]
      PROVE  RunInv'
  <2>1. PlanSound /\ Retiring /\ PlacedHome \in Homes
    BY <1>0, <1>9, PlacedHomeType DEF RunInv
  <2>2. Retiring'
    BY <1>0, <1>9, <2>1, MoreRetired
  <2> QED  BY <1>0, <1>9, <2>1, <2>2, SamePlanSound DEF RunInv
<1>10. ASSUME NEW d \in Docs, RetireDoc(d) PROVE RunInv'
  <2> DEFINE R == {r \in retiring : r.path = d}
  <2>0. PICK left \in SUBSET {r \in R : Unaccounted(r)} : gone' = gone \cup (R \ left)
    BY <1>10 DEF RetireDoc
  <2> DEFINE G == R \ left
  <2>1. /\ phase = "retire" /\ R # {} /\ home' = TakenOut(home, R)
        /\ gone' = gone \cup G /\ retiring' = retiring \ R
        /\ UNCHANGED <<journal, phase, plan, undo>>
    BY <1>10, <2>0 DEF RetireDoc
  <2>2. \A r \in R \ G : r.path \in Docs /\ r.pointer \in Lists /\ Parsed(home[r.path])
                         /\ r.val \notin home[r.path][r.pointer]
    BY <2>0 DEF Unaccounted, Appends
  <2>3. \A r \in R : r.path \in Docs => \A q \in retiring : q.path = r.path => q \in R
    OBVIOUS
  <2>4. R \in SUBSET retiring /\ G \in SUBSET R
    OBVIOUS
  <2> HIDE DEF R, G
  <2> QED  BY <1>9, <2>1, <2>2, <2>3, <2>4
<1>11. ASSUME NEW r \in retiring, RetireFile(r) PROVE RunInv'
  <2>1. r \in Artifact /\ r.path \in Files /\ r.path \notin Docs
    BY <1>0, <1>11, ArtifactTypes, Disjoint DEF RetireFile, TypeOK
  <2>2. home' = TakenOut(home, {r})
    BY <1>0, <1>11, <2>1, OneFileTakenOut DEF RetireFile, TypeOK
  <2>3. /\ phase = "retire" /\ gone' = gone \cup {r} /\ retiring' = retiring \ {r}
        /\ UNCHANGED <<journal, phase, plan, undo>>
    BY <1>11 DEF RetireFile
  <2>4. {r} \in SUBSET retiring /\ {r} # {} /\ {r} \in SUBSET {r}
    OBVIOUS
  <2>5. \A q \in {r} : q.path \in Docs => \A q2 \in retiring : q2.path = q.path => q2 \in {r}
    BY <2>1
  <2> QED  BY <1>9, <2>2, <2>3, <2>4, <2>5
<1>12. CASE UndoFails \/ RollbackFails \/ Exit \/ Crash \/ Save
  BY <1>0, <1>12, RunForgotten DEF UndoFails, RollbackFails, Exit, Crash, Save
<1>13. CASE \/ ApplyFails \/ ApplyUnparseable \/ (\E s \in todo : ApplyFailsLate(s))
            \/ RetireFails \/ RetireUnparseable \/ SaveFails
  <2>1. phase' \in {"undone", "rolledback"}
    BY <1>13 DEF ApplyFails, ApplyUnparseable, ApplyFailsLate,
                 RetireFails, RetireUnparseable, SaveFails, Abandon
  <2> QED  BY <1>0, <2>1 DEF RunInv
<1>14. CASE UserEditsInWindow
  BY <1>14 DEF UserEditsInWindow
<1> QED
  BY <1>1, <1>2, <1>3, <1>4, <1>5, <1>6, <1>7, <1>8, <1>10, <1>11, <1>12, <1>13, <1>14
     DEF Next, Darq, User, Starts, Applies, Retires, Breaks

-----------------------------------------------------------------------------
(* A rollback.                                                             *)

LEMMA AgreeTwice ==
  ASSUME NEW f, NEW g, NEW h, NEW c, Agree(f, g, c), Agree(g, h, c)
  PROVE  Agree(f, h, c)
BY DEF Agree

LEMMA AgreeBack ==
  ASSUME NEW g, NEW h, NEW c, Agree(g, h, c)
  PROVE  Agree(h, g, c)
BY DEF Agree

(* What a run updated is exactly what unplace writes back, as the plan      *)
(* found it.                                                               *)
LEMMA ReplacedIsUpdated ==
  ASSUME TypeOK, PlanSound, \A p \in Paths : Saved(p)
  PROVE  /\ Replaced = UpdatedPaths
         /\ \A p \in Replaced : p \in Paths /\ restorable[p] = before[p]
<1>1. ASSUME NEW p \in UpdatedPaths
      PROVE  /\ p \in Paths /\ restorable[p] = before[p]
             /\ before[p] # Absent /\ before[p] # Unsaved
  <2>1. PICK s \in Placements : s.action = "update" /\ s.art.path = p
    BY DEF UpdatedPaths, Placements
  <2>2. /\ s \in At(p) /\ s.art \in Artifact /\ p \in Paths
        /\ Present(before, Claim(s.entry)) /\ s.entry.path = p
    BY <2>1, PlacedAt DEF StepFits, SameSlot
  <2>3. restorable[p] = before[p]
    BY <2>2 DEF Saved
  <2>4. before[p] # Absent
    BY <2>2 DEF Present, Claim, Parsed
  <2>5. before[p] # Unsaved
    BY <2>2, HomesAreFunctions DEF TypeOK
  <2> QED  BY <2>2, <2>3, <2>4, <2>5
<1> QED  BY <1>1 DEF Replaced

LEMMA RolledBack ==
  ASSUME TypeOK, PlanSound, Retiring, NEW p \in Paths
  PROVE  Flat(Unplaced)[p] \in {Flat(before)[p], Flat(TakenOut(before, gone))[p]}
<1> DEFINE X    == asked \ retiring
           back == [q \in Paths |-> IF q \in Replaced THEN restorable[q] ELSE home[q]]
           R    == {r \in records : r.path \notin Replaced}
           kept == TakenOut(before, gone)
<1>0. /\ before \in Homes /\ home \in Homes /\ restorable \in Held /\ PlacedHome \in Homes
      /\ X \subseteq Artifact /\ gone \subseteq X /\ gone \subseteq Artifact
      /\ home = TakenOut(PlacedHome, X) /\ records = {s.art : s \in Placements}
      /\ \A r \in X \ gone : ~ Present(PlacedHome, Claim(r))
  BY PlacedHomeType DEF TypeOK, Retiring
<1>1. /\ Replaced = UpdatedPaths
      /\ \A q \in Replaced : restorable[q] = before[q] /\ restorable[q] # Unsaved
  BY ReplacedIsUpdated DEF Retiring, Replaced
<1>2. Unplaced = TakenOut(back, R)
  BY DEF Unplaced
<1>3. back \in Homes
  <2> DEFINE g == [q \in Paths |-> IF q \in Replaced THEN restorable[q]
                                   ELSE IF q \in {} THEN Absent ELSE home[q]]
  <2>1. home \in Homes /\ restorable \in Held /\ \A q \in Replaced : restorable[q] # Unsaved
    BY <1>0, <1>1
  <2>2. g \in Homes
    BY <2>1, PutBackType
  <2>3. back = g
    OBVIOUS
  <2> QED  BY <2>2, <2>3
<1>4. R \subseteq Artifact
  BY <1>0, PlacementTypes
<1>5. Unplaced \in Homes /\ kept \in Homes
  BY <1>0, <1>2, <1>3, TakenOutType
<1>6. back[p] = IF p \in Replaced THEN before[p] ELSE home[p]
  BY <1>1
<1>7. \A g, h : g[p] = h[p] => Flat(g)[p] = Flat(h)[p]
  BY DEF Flat
<1> HIDE DEF back, kept
<1>8. CASE p \in Replaced
  <2>1. {r \in R : r.path = p} = {}
    BY <1>8
  <2>2. Unplaced[p] = back[p]
    BY <1>2, <2>1 DEF TakenOut
  <2>3. Unplaced[p] = before[p]
    BY <1>6, <1>8, <2>2
  <2> QED  BY <1>7, <2>3
<1>9. CASE p \notin Replaced /\ p \in Docs /\ before[p] = Garbage
  <2>1. At(p) = {}
    BY <1>9, PlacedAt DEF At, StepFits, Placements
  <2>2. PlacedHome[p] = Garbage
    BY <1>9, <2>1 DEF PlacedHome, Placed
  <2>3. back[p] = Garbage
    BY <1>0, <1>6, <1>9, <2>2, TakenOutLeaves
  <2>4. Unplaced[p] = Garbage
    BY <1>2, <1>3, <1>9, <2>3, TakenOutLeaves
  <2> QED  BY <1>7, <1>9, <2>4
<1>10. CASE p \notin Replaced /\ (p \in Docs => before[p] # Garbage)
  <2>1. p \in Docs => Unplaced[p] # Garbage /\ kept[p] # Garbage
    <3> SUFFICES ASSUME p \in Docs PROVE Unplaced[p] # Garbage /\ kept[p] # Garbage
      OBVIOUS
    <3>1. PlacedHome[p] # Garbage
      <4>1. CASE At(p) = {}
        BY <1>10, <4>1 DEF PlacedHome, Placed
      <4>2. CASE At(p) # {}
        <5>1. p \notin Files /\ before[p] \in DocContent
          BY <1>0, Disjoint DEF Homes
        <5>2. \A s \in At(p) : s.art \in Artifact
          BY PlacedAt DEF At
        <5>3. SetAll(before[p], At(p)) # Garbage
          BY <5>1, <5>2, SetAllType, Disjoint
        <5> QED  BY <4>2, <5>1, <5>3 DEF PlacedHome, Placed
      <4> QED  BY <4>1, <4>2
    <3>2. home[p] # Garbage
      BY <1>0, <3>1, TakenOutLeaves
    <3>3. Unplaced[p] # Garbage
      BY <1>2, <1>3, <1>6, <1>10, <3>2, TakenOutLeaves
    <3>4. kept[p] # Garbage
      BY <1>0, <1>10, TakenOutLeaves DEF kept
    <3> QED  BY <3>3, <3>4
  <2>2. ASSUME NEW c \in AllClaims, c.path = p PROVE Agree(Unplaced, kept, c)
    <3>1. IF c \in Claims(gone) THEN ~ Present(kept, c) ELSE Agree(kept, before, c)
      BY <1>0, TakenOutAgrees DEF kept
    <3>2. CASE c \in Claims(R)
      <4>1. ~ Present(Unplaced, c)
        BY <1>2, <1>3, <1>4, <3>2, TakenOutAgrees
      <4>2. PICK s \in Placements : Claim(s.art) = c
        BY <1>0, <3>2 DEF Claims
      <4>3. s.art.path = p
        BY <2>2, <4>2 DEF Claim
      <4>4. s.action = "create"
        BY <1>1, <1>10, <4>3 DEF UpdatedPaths, Placements
      <4>5. ~ Present(before, c)
        BY <4>2, <4>4, PlacedAt DEF StepFits
      <4> QED  BY <3>1, <4>1, <4>5 DEF Agree
    <3>3. CASE c \notin Claims(R)
      <4>1. Agree(Unplaced, back, c)
        BY <1>2, <1>3, <1>4, <3>3, TakenOutAgrees
      <4>2. Agree(back, home, c)
        BY <1>6, <1>10, <2>2, AgreeIsLocal
      <4>3. Agree(Unplaced, home, c)
        BY <4>1, <4>2, AgreeTwice
      <4>4. c \notin PlacedClaims
        BY <1>0, <1>10, <2>2, <3>3 DEF PlacedClaims, Claims, Claim
      <4>5. c \notin ReplacedClaims
        <5>1. SUFFICES ASSUME NEW s \in Placements, s.action = "update", Claim(s.entry) = c
                       PROVE  FALSE
          BY DEF ReplacedClaims, Claims
        <5>2. s.entry.path = p /\ s.art.path = s.entry.path
          BY <2>2, <5>1, PlacedAt DEF SameSlot, Claim
        <5> QED  BY <1>1, <1>10, <5>1, <5>2 DEF UpdatedPaths, Placements
      <4>6. Agree(PlacedHome, before, c)
        BY <4>4, <4>5, PlacedAgrees
      <4>7. CASE c \in Claims(X)
        <5>1. ~ Present(home, c)
          BY <1>0, <4>7, TakenOutAgrees
        <5>2. ~ Present(Unplaced, c)
          BY <4>3, <5>1 DEF Agree
        <5>3. c \notin Claims(gone) => ~ Present(before, c)
          <6>1. PICK r \in X : Claim(r) = c
            BY <4>7 DEF Claims
          <6>2. c \notin Claims(gone) => r \in X \ gone
            BY <6>1 DEF Claims
          <6> QED  BY <1>0, <4>6, <6>1, <6>2 DEF Agree
        <5> QED  BY <3>1, <5>2, <5>3 DEF Agree
      <4>8. CASE c \notin Claims(X)
        <5>1. Agree(home, PlacedHome, c)
          BY <1>0, <4>8, TakenOutAgrees
        <5>2. c \notin Claims(gone)
          BY <1>0, <4>8 DEF Claims
        <5>3. Agree(before, kept, c)
          BY <3>1, <5>2, AgreeBack
        <5> QED  BY <4>3, <4>6, <5>1, <5>3, AgreeTwice
      <4> QED  BY <4>7, <4>8
    <3> QED  BY <3>2, <3>3
  <2>3. Flat(Unplaced)[p] = Flat(kept)[p]
    BY <1>5, <2>1, <2>2, AgreeingHomes
  <2> QED  BY <2>3 DEF kept
<1> QED  BY <1>8, <1>9, <1>10

RollInv == RunInv /\ RollbackUndoesThisRun

LEMMA RollNext ==
  ASSUME Window = {}, RollInv, [Next]_vars
  PROVE  RollInv'
<1> USE DEF plan, undo, ghosts, bounds
<1>1. RunInv /\ RunInv'
  BY RunNext DEF RollInv
<1>2. CASE phase' # "rolledback"
  BY <1>1, <1>2 DEF RollInv, RollbackUndoesThisRun
<1>3. CASE UNCHANGED vars
  BY <1>1, <1>3 DEF RollInv, RollbackUndoesThisRun, vars, Flat, TakenOut, UnsetAll, Parsed
<1>4. CASE RetireFails \/ RetireUnparseable \/ SaveFails
  <2>1. /\ phase = "retire" /\ UNCHANGED <<op, before, gone>>
        /\ op = "install" => home' = Unplaced
    BY <1>4 DEF RetireFails, RetireUnparseable, SaveFails, Abandon
  <2>2. TypeOK /\ PlanSound /\ Retiring
    BY <1>1, <2>1 DEF RunInv, TypeInv
  <2>3. ASSUME op = "install", NEW p \in Paths
        PROVE  (Flat(home)[p] \in {Flat(before)[p], Flat(TakenOut(before, gone))[p]})'
    <3>1. PICK h : h = Unplaced
      OBVIOUS
    <3>2. home' = h
      BY <2>1, <2>3, <3>1
    <3>3. Flat(h)[p] \in {Flat(before)[p], Flat(TakenOut(before, gone))[p]}
      BY <2>2, <3>1, RolledBack
    <3> QED  BY <2>1, <3>2, <3>3 DEF Flat, TakenOut, UnsetAll, Parsed
  <2>4. RollbackUndoesThisRun'
    BY <2>1, <2>3 DEF RollbackUndoesThisRun
  <2> QED  BY <1>1, <2>4 DEF RollInv
<1>5. ASSUME phase' = "rolledback", Next
      PROVE  RetireFails \/ RetireUnparseable \/ SaveFails
  <2>1. ~ UserEdits /\ ~ UserEditsInWindow
    BY <1>5 DEF UserEdits, UserEditsInWindow
  <2>2. ~ Starts /\ ~ Applies /\ ~ Save /\ ~ Exit
    BY <1>5 DEF Starts, Uninstall, Plan, Applies, StartApply, ApplyFile, ApplyDoc,
                FileStep, Save, Exit, Forget
  <2>3. ~ Retires
    BY <1>5 DEF Retires, StartRetire, RetireDoc, RetireFile
  <2>4. ~ ApplyFails /\ ~ ApplyUnparseable /\ ~ UndoFails /\ ~ RollbackFails /\ ~ Crash
        /\ \A s \in todo : ~ ApplyFailsLate(s)
    BY <1>5 DEF ApplyFails, ApplyUnparseable, UndoFails, RollbackFails, Crash,
                ApplyFailsLate, Forget
  <2> QED  BY <1>5, <2>1, <2>2, <2>3, <2>4 DEF Next, Darq, User, Breaks
<1> QED  BY <1>2, <1>3, <1>4, <1>5

(* When retiring or saving fails, an install takes back what it placed and  *)
(* nothing else: every path holds what the plan found there, or that less   *)
(* what had already been retired (arquitectura.md:697). For any releases    *)
(* and any journal, as long as nobody edits the home between plan and       *)
(* apply.                                                                  *)
THEOREM RollbackIsExact ==
  ASSUME Window = {}
  PROVE  Spec => []RollbackUndoesThisRun
<1>1. Init => RollInv
  BY RunInit DEF RollInv, RollbackUndoesThisRun, Init
<1>2. RollInv => RollbackUndoesThisRun
  BY DEF RollInv
<1> QED  BY <1>1, <1>2, RollNext, PTL DEF Spec

-----------------------------------------------------------------------------
(* What a successful run leaves in the journal.                            *)

(* No item of a release has the value another item of it used to have: two  *)
(* list items never exchange their values, or pass one on.                 *)
KeptApart ==
  \A A \in Releases : \A a, b \in A : \A e \in Rendered :
    a # b /\ e.id = a.id /\ Appends(e) => Claim(e) # Claim(b)

(* An item no record answers to, or one that is about another slot.         *)
Unanswered(a) ==
  \/ \A e \in journal : e.id # a.id /\ Claim(e) # Claim(a)
  \/ \E e \in journal : e.id = a.id /\ ~ SameSlot(e, a)

(* What the steps of a plan know of the journal.                           *)
PlanRecords ==
  /\ \E A \in Releases : \A s \in steps : s.art \in A
  /\ \A s \in steps : \A e \in journal :
       e.id = s.art.id /\ (s.action = "unchanged" \/ SameSlot(e, s.art)) => s.entry = e
  /\ \A s \in steps : s.action = "update" /\ Appends(s.art) => s.entry.id = s.art.id
  /\ \A e \in journal \ asked :
       \E s \in steps : e.id = s.art.id \/ Claim(e) = Claim(s.art)
  /\ \A s \in steps : s.action = "skip" /\ Appends(s.art) => Unanswered(s.art)

OneRecordEach == \A e, f \in journal : e.id = f.id \/ Claim(e) = Claim(f) => e = f

(* The journal never holds two records of one id or one claim, and a run    *)
(* finds for each artifact the one there is.                               *)
RecordInv ==
  /\ RunInv
  /\ journal \subseteq Rendered
  /\ OneRecordEach
  /\ phase \in {"planned", "apply"} => op = "install"
  /\ phase \in {"planned", "apply", "retire"} /\ op = "install" => PlanRecords
  /\ phase = "retire" /\ op # "install" => steps = {} /\ asked = journal

LEMMA StepKnows ==
  ASSUME TypeOK, OneRecordEach, NEW a \in Artifact, NEW s, s = StepOf(a)
  PROVE  /\ \A e \in journal : e.id = a.id /\ (s.action = "unchanged" \/ SameSlot(e, a))
                                 => s.entry = e
         /\ s.action = "update" /\ Appends(a) => s.entry.id = a.id
         /\ s.action = "skip" /\ Appends(a) => Unanswered(a)
<1>1. ASSUME NEW e \in journal, e.id = a.id, s.action = "unchanged" \/ SameSlot(e, a)
      PROVE  s.entry = e
  <2>1. \A f \in journal : f.id = a.id => f = e
    BY <1>1 DEF OneRecordEach
  <2>2. EntryOf(a) = e
    BY <1>1, <2>1 DEF EntryOf
  <2>3. e \in Artifact /\ e # NoEntry
    BY Disjoint DEF TypeOK
  <2>4. a.kind = "file" \/ a.kind = "config-key"
    BY ArtifactTypes
  <2>5. a.kind # "file" => Claimable(a, e)
    <3>1. CASE s.action = "unchanged"
      BY <2>2, <3>1 DEF StepOf, KeyAction
    <3>2. CASE SameSlot(e, a)
      BY <2>3, <2>4, <3>2 DEF SameSlot, Claimable
    <3> QED  BY <1>1, <3>1, <3>2
  <2> QED  BY <2>2, <2>5 DEF StepOf
<1>2. ASSUME s.action = "update", Appends(a) PROVE s.entry.id = a.id
  <2> DEFINE e == EntryOf(a)
  <2>1. a.kind = "config-key" /\ a.path \in Docs /\ a.path \notin Files
    BY <1>2, ArtifactTypes, Disjoint
  <2>2. Claimable(a, e) /\ ~ Holds(home, a) /\ Present(home, Claim(e)) /\ s.entry = e
    BY <1>2, <2>1 DEF StepOf, KeyAction
  <2>3. Claim(e) # Claim(a)
    BY <1>2, <2>1, <2>2 DEF Holds, Present, Claim, Appends
  <2>4. e # NoEntry
    BY <2>2 DEF Claimable
  <2> QED  BY <2>2, <2>3, <2>4, EntryIsKnown
<1>3. ASSUME s.action = "skip", Appends(a), ~ Unanswered(a) PROVE FALSE
  <2> DEFINE e == EntryOf(a)
  <2>1. a.kind = "config-key" /\ a.path \in Docs /\ a.path \notin Files
    BY <1>3, ArtifactTypes, Disjoint
  <2>2. ~ Claimable(a, e)
    BY <1>3, <2>1 DEF StepOf, KeyAction
  <2>3. PICK f \in journal : f.id = a.id \/ Claim(f) = Claim(a)
    BY <1>3 DEF Unanswered
  <2>4. \A g \in journal : g.id = a.id => SameSlot(g, a)
    BY <1>3 DEF Unanswered
  <2>5. \A g \in journal : g # NoEntry /\ (Claim(g) = Claim(a) => SameSlot(g, a))
    <3> SUFFICES ASSUME NEW g \in journal
                 PROVE  g # NoEntry /\ (Claim(g) = Claim(a) => SameSlot(g, a))
      OBVIOUS
    <3>1. g \in Artifact /\ g # NoEntry
      BY Disjoint DEF TypeOK
    <3>2. g.path \in Docs => g.kind = "config-key"
      BY <3>1, ArtifactTypes, Disjoint
    <3> QED  BY <2>1, <3>1, <3>2 DEF Claim, SameSlot
  <2>6. e \in journal /\ SameSlot(e, a)
    <3>1. CASE \E g \in journal : g.id = a.id
      BY <2>4, <3>1 DEF EntryOf
    <3>2. CASE ~ \E g \in journal : g.id = a.id
      <4>1. f.kind = a.kind /\ Claim(f) = Claim(a)
        BY <2>3, <2>5, <3>2 DEF SameSlot
      <4>2. e \in journal /\ Claim(e) = Claim(a)
        BY <3>2, <4>1 DEF EntryOf
      <4> QED  BY <2>5, <4>2
    <3> QED  BY <3>1, <3>2
  <2> QED  BY <2>1, <2>2, <2>5, <2>6 DEF Claimable, SameSlot
<1> QED  BY <1>1, <1>2, <1>3

LEMMA RecordsAtFirst ==
  ASSUME TypeOK, OneRecordEach, NEW arts \in Releases, Plan(arts)
  PROVE  PlanRecords'
<1>1. /\ steps' = {StepOf(a) : a \in arts} /\ asked' = Retirements(arts)
      /\ journal' = journal
  BY DEF Plan
<1>2. arts \subseteq Artifact
  BY ReleasesAreArtifacts
<1>3. \A s \in steps' : \E a \in arts : s = StepOf(a) /\ s.art = a
  BY <1>1 DEF StepOf
<1>4. ASSUME NEW s \in steps'
      PROVE  /\ \A e \in journal' :
                  e.id = s.art.id /\ (s.action = "unchanged" \/ SameSlot(e, s.art)) => s.entry = e
             /\ s.action = "update" /\ Appends(s.art) => s.entry.id = s.art.id
             /\ s.action = "skip" /\ Appends(s.art) => Unanswered(s.art)
  <2>1. PICK a \in arts : s = StepOf(a) /\ s.art = a
    BY <1>3
  <2>2. a \in Artifact
    BY <1>2
  <2> QED  BY <1>1, <2>1, <2>2, StepKnows
<1>5. ASSUME NEW e \in journal' \ asked'
      PROVE  \E s \in steps' : e.id = s.art.id \/ Claim(e) = Claim(s.art)
  <2>1. PICK a \in arts : e.id = a.id \/ Claim(e) = Claim(a)
    BY <1>1 DEF Retirements
  <2>2. StepOf(a) \in steps' /\ StepOf(a).art = a
    BY <1>1 DEF StepOf
  <2>3. PICK s \in steps' : s.art = a
    BY <2>2
  <2> QED  BY <2>1, <2>3
<1>6. \E A \in Releases : \A s \in steps' : s.art \in A
  BY <1>3
<1> QED  BY <1>1, <1>4, <1>5, <1>6 DEF PlanRecords, Unanswered, Claim, Appends, SameSlot

LEMMA MergedIsUnique ==
  ASSUME RecordInv, phase = "retire", op = "install"
  PROVE  /\ Merged \subseteq Rendered
         /\ \A e, f \in Merged : e.id = f.id \/ Claim(e) = Claim(f) => e = f
<1> DEFINE now == records \cup Reconciled
<1>1. /\ PlanSound /\ PlanRecords /\ journal \subseteq Rendered /\ OneRecordEach
      /\ records = {s.art : s \in Placements}
  BY DEF RecordInv, RunInv, Retiring
<1>2. \A r \in now : \E s \in steps : r = s.art
  BY <1>1 DEF Reconciled, Placements
<1>3. now \subseteq Rendered
  BY <1>1, <1>2 DEF PlanRecords, Rendered
<1>4. /\ Merged \subseteq now \cup journal
      /\ \A e \in Merged \ now : /\ e \in journal
                                 /\ \A r \in now : e.id # r.id
                                 /\ \A r \in now : e.kind = r.kind => Claim(e) # Claim(r)
  BY DEF Merged
<1> HIDE DEF now
<1>5. ASSUME NEW e \in now, NEW f \in now, e.id = f.id \/ Claim(e) = Claim(f)
      PROVE  e = f
  <2>1. PICK s \in steps, t \in steps : e = s.art /\ f = t.art
    BY <1>2
  <2> QED  BY <1>1, <1>5, <2>1 DEF PlanSound
<1>6. ASSUME NEW e \in Merged \ now, NEW f \in now
      PROVE  e.id # f.id /\ Claim(e) # Claim(f)
  <2>1. e \in Artifact /\ f \in Artifact
    BY <1>1, <1>3, <1>4, RenderedAreArtifacts
  <2>2. e.kind # f.kind => e.path # f.path
    BY <2>1, ArtifactTypes, Disjoint
  <2> QED  BY <1>4, <2>2 DEF Claim
<1>7. ASSUME NEW e \in Merged \ now, NEW f \in Merged \ now, e.id = f.id \/ Claim(e) = Claim(f)
      PROVE  e = f
  BY <1>1, <1>4, <1>7 DEF OneRecordEach
<1> QED  BY <1>1, <1>3, <1>4, <1>5, <1>6, <1>7

LEMMA RecordInit == Init => RecordInv
  BY RunInit DEF Init, RecordInv, OneRecordEach

LEMMA RecordNext ==
  ASSUME Window = {}, RecordInv, [Next]_vars
  PROVE  RecordInv'
<1> USE DEF plan, undo, ghosts, bounds
<1>0. RunInv /\ RunInv' /\ TypeOK
  BY RunNext DEF RecordInv, RunInv, TypeInv
<1>1. journal' = journal => OneRecordEach' /\ journal' \subseteq Rendered
  BY DEF RecordInv, OneRecordEach, Claim, Appends
<1>2. UNCHANGED <<journal, steps, asked>> /\ PlanRecords => PlanRecords'
  <2> SUFFICES ASSUME UNCHANGED <<journal, steps, asked>>, PlanRecords PROVE PlanRecords'
    OBVIOUS
  <2>1. ASSUME NEW s \in steps, Unanswered(s.art) PROVE Unanswered(s.art)'
    BY <2>1 DEF Unanswered, SameSlot, Claim, Appends
  <2> QED  BY <2>1 DEF PlanRecords, SameSlot, Claim, Appends
<1>3. ASSUME UNCHANGED <<journal, op, steps, asked>>,
             \/ phase' \in {"idle", "undone", "rolledback"}
             \/ phase' = phase
             \/ phase = "planned" /\ phase' = "apply"
             \/ phase = "apply" /\ phase' = "retire"
      PROVE  RecordInv'
  BY <1>0, <1>1, <1>2, <1>3 DEF RecordInv
<1>4. ASSUME UNCHANGED journal, Forget
      PROVE  RecordInv'
  BY <1>0, <1>1, <1>4 DEF RecordInv, Forget
<1>5. CASE UNCHANGED vars
  BY <1>3, <1>5 DEF vars
<1>6. CASE UserEdits \/ UserEditsInWindow
  BY <1>3, <1>6 DEF UserEdits, UserEditsInWindow
<1>7. ASSUME NEW arts \in Releases, Plan(arts) PROVE RecordInv'
  <2>1. PlanRecords'
    BY <1>0, <1>7, RecordsAtFirst DEF RecordInv
  <2> QED  BY <1>0, <1>1, <1>7, <2>1 DEF Plan, RecordInv
<1>8. CASE Uninstall
  BY <1>0, <1>1, <1>8 DEF Uninstall, RecordInv, RunInv
<1>9. CASE StartApply \/ StartRetire
  BY <1>3, <1>9 DEF StartApply, StartRetire
<1>10. CASE \/ \E s \in todo : ApplyFile(s)
            \/ \E d \in Docs : ApplyDoc(d)
            \/ \E d \in Docs : RetireDoc(d)
            \/ \E r \in retiring : RetireFile(r)
  BY <1>3, <1>10 DEF ApplyFile, ApplyDoc, RetireDoc, RetireFile
<1>11. CASE \/ ApplyFails \/ (\E s \in todo : ApplyFailsLate(s)) \/ ApplyUnparseable
            \/ RetireFails \/ RetireUnparseable \/ SaveFails
  BY <1>3, <1>11 DEF ApplyFails, ApplyFailsLate, ApplyUnparseable,
                     RetireFails, RetireUnparseable, SaveFails, Abandon
<1>12. CASE UndoFails \/ RollbackFails \/ Exit \/ Crash
  BY <1>4, <1>12 DEF UndoFails, RollbackFails, Exit, Crash
<1>13. CASE Save
  <2>1. phase = "retire" /\ phase' = "idle"
    BY <1>13 DEF Save, Forget
  <2>2. CASE op = "install"
    <3>1. PICK M : M = Merged
      OBVIOUS
    <3>2. journal' = M
      BY <1>13, <2>2, <3>1 DEF Save
    <3>3. /\ M \subseteq Rendered
          /\ \A e, f \in M : e.id = f.id \/ Claim(e) = Claim(f) => e = f
      BY <2>1, <2>2, <3>1, MergedIsUnique
    <3>4. OneRecordEach'
      BY <3>2, <3>3 DEF OneRecordEach, Claim, Appends
    <3> QED  BY <1>0, <2>1, <3>2, <3>3, <3>4 DEF RecordInv
  <2>3. CASE op # "install"
    BY <1>0, <1>13, <2>1, <2>3 DEF Save, RecordInv, OneRecordEach
  <2> QED  BY <2>2, <2>3
<1> QED
  BY <1>5, <1>6, <1>7, <1>8, <1>9, <1>10, <1>11, <1>12, <1>13
     DEF Next, Darq, User, Starts, Applies, Retires, Breaks

(* A record holds when its claim is there with its value.                  *)
LEMMA HoldsIs ==
  ASSUME NEW h, NEW r \in Artifact
  PROVE  Holds(h, r) <=> /\ Present(h, Claim(r))
                         /\ ~ Appends(r) => Inside(h, Claim(r)) = r.val
<1>1. CASE r.path \in Files
  <2>1. ~ Appends(r) /\ r.val \in Value
    BY <1>1, ArtifactTypes, Disjoint
  <2> QED  BY <1>1, <2>1, Disjoint DEF Holds, Present, Inside, Claim
<1>2. CASE r.path \notin Files
  <2>1. r.val \in Value
    BY ArtifactTypes
  <2> QED  BY <1>2, <2>1, Disjoint DEF Holds, Present, Inside, Claim, Appends
<1> QED  BY <1>1, <1>2

LEMMA HoldsWhereAgreed ==
  ASSUME NEW g, NEW h, NEW r \in Artifact, Agree(g, h, Claim(r)), Holds(h, r)
  PROVE  Holds(g, r)
BY HoldsIs DEF Agree

LEMMA PlacedHolds ==
  ASSUME TypeOK, PlanSound, NEW s \in Placements
  PROVE  Holds(PlacedHome, s.art)
<1> DEFINE p == s.art.path
           x == s.art.pointer
<1>1. /\ s \in At(p) /\ s \in steps /\ s.art \in Artifact /\ p \in Paths
      /\ s.art.val \in Value
  BY PlacedAt, ArtifactTypes
<1>2. PlacedHome[p] = Placed(p)
  BY <1>1 DEF PlacedHome
<1>3. CASE p \in Files
  <2>1. At(p) = {s}
    BY <1>1, <1>3, OneFileStep
  <2>2. Placed(p) = s.art.val
    BY <1>3, <2>1 DEF Placed
  <2> QED  BY <1>2, <1>3, <2>2 DEF Holds
<1>4. CASE p \notin Files
  <2> DEFINE set  == SetAll(before[p], At(p))
             here == {t \in At(p) : t.art.pointer = x}
  <2>1. p \in Docs /\ x \in Pointers /\ before[p] \in DocContent
    BY <1>1, <1>4, ArtifactTypes DEF TypeOK, Homes
  <2>2. \A t \in At(p) : t.art \in Artifact
    BY PlacedAt DEF At
  <2>3. set \in Document /\ PlacedHome[p] = set
    BY <1>1, <1>2, <1>4, <2>1, <2>2, SetAllType DEF Placed
  <2>4. Parsed(set)
    BY <2>3, Disjoint DEF Parsed
  <2>5. s \in here
    BY <1>1
  <2>6. CASE Appends(s.art)
    <3>1. s.art.val \in set[x]
      BY <2>1, <2>5, <2>6 DEF SetAll, Appends
    <3> HIDE DEF set
    <3> QED  BY <1>4, <2>3, <2>4, <2>6, <3>1 DEF Holds
  <2>7. CASE ~ Appends(s.art)
    <3>1. \A t \in here : t = s
      <4> SUFFICES ASSUME NEW t \in here PROVE t = s
        OBVIOUS
      <4>1. t \in steps /\ t.art.path = p /\ t.art.pointer = x
        BY DEF At, Placements
      <4>2. Claim(t.art) = Claim(s.art)
        BY <2>7, <4>1 DEF Claim, Appends
      <4> QED  BY <1>1, <4>1, <4>2 DEF PlanSound
    <3>2. here = {s}
      BY <2>5, <3>1
    <3>3. set[x] = s.art.val
      BY <2>1, <2>7, <3>2 DEF SetAll, Appends
    <3> HIDE DEF set
    <3> QED  BY <1>4, <2>3, <2>4, <2>7, <3>3 DEF Holds
  <2> QED  BY <2>6, <2>7
<1> QED  BY <1>3, <1>4

(* Nothing a release replaces is what it also finds in place.              *)
LEMMA FoundIsNotReplaced ==
  ASSUME KeptApart, RunInv, PlanSound, PlanRecords, journal \subseteq Rendered,
         NEW s \in steps, s.action = "unchanged"
  PROVE  Claim(s.art) \notin PlacedClaims \cup ReplacedClaims
<1>1. TypeOK
  BY DEF RunInv, TypeInv
<1>2. ASSUME NEW t \in Placements
      PROVE  /\ t \in steps /\ t # s /\ t.art.id # s.art.id
             /\ Claim(t.art) # Claim(s.art) /\ t.art # s.art
  BY <1>2 DEF PlanSound, Placements
<1>3. ASSUME NEW t \in Placements, t.action = "update", Claim(t.entry) = Claim(s.art)
      PROVE  FALSE
  <2>1. /\ t.entry \in journal /\ SameSlot(t.entry, t.art)
        /\ Appends(t.entry) = Appends(t.art)
    BY <1>1, <1>3, PlacedAt DEF StepFits
  <2>2. CASE Appends(t.art)
    <3>1. t.entry.id = t.art.id /\ t.entry \in Rendered /\ Appends(t.entry)
      BY <1>2, <1>3, <2>1, <2>2 DEF PlanRecords
    <3>2. PICK A \in Releases : t.art \in A /\ s.art \in A
      BY <1>2 DEF PlanRecords
    <3> QED  BY <1>2, <1>3, <3>1, <3>2 DEF KeptApart
  <2>3. CASE ~ Appends(t.art)
    <3>1. Claim(t.entry) = Claim(t.art)
      BY <2>1, <2>3 DEF Claim, SameSlot
    <3> QED  BY <1>2, <1>3, <3>1
  <2> QED  BY <2>2, <2>3
<1> QED  BY <1>2, <1>3 DEF PlacedClaims, ReplacedClaims, Claims

(* Once retire is done, what was rendered and not skipped is in place.      *)
LEMMA RenderedIsInPlace ==
  ASSUME KeptApart, RecordInv, phase = "retire", op = "install", retiring = {},
         NEW s \in steps, s.action # "skip"
  PROVE  Holds(home, s.art)
<1>1. /\ RunInv /\ TypeOK /\ PlanSound /\ PlanRecords /\ journal \subseteq Rendered
      /\ home = TakenOut(PlacedHome, asked \ retiring)
  BY DEF RecordInv, RunInv, TypeInv, Retiring
<1>2. /\ s.art \in Artifact /\ asked \ retiring = asked /\ asked \subseteq Artifact
      /\ s.action \in {"create", "update", "unchanged", "skip"} /\ PlacedHome \in Homes
  BY <1>1, PlacedHomeType DEF TypeOK, PlanStep
<1>3. Claim(s.art) \in AllClaims
  BY <1>2, ClaimTypes
<1>4. Holds(PlacedHome, s.art)
  <2>1. CASE s.action = "unchanged"
    <3>1. Agree(PlacedHome, before, Claim(s.art))
      BY <1>1, <1>3, <2>1, FoundIsNotReplaced, PlacedAgrees
    <3>2. Holds(before, s.art)
      BY <1>1, <2>1 DEF PlanSound, StepFits
    <3> QED  BY <1>2, <3>1, <3>2, HoldsWhereAgreed
  <2>2. CASE s.action # "unchanged"
    BY <1>1, <1>2, <2>2, PlacedHolds DEF Placements
  <2> QED  BY <2>1, <2>2
<1>5. Claim(s.art) \notin Claims(asked)
  BY <1>1 DEF PlanSound, Claims
<1>6. Agree(home, PlacedHome, Claim(s.art))
  BY <1>1, <1>2, <1>3, <1>5, TakenOutAgrees
<1> QED  BY <1>2, <1>4, <1>6, HoldsWhereAgreed

LEMMA SavedIsTrue ==
  ASSUME KeptApart, RecordInv, phase = "retire", op = "install", retiring = {},
         NEW r \in Merged
  PROVE  \/ Holds(home, r)
         \/ r \in asked \ gone
         \/ \E s \in steps : s.action = "skip" /\ (s.art.id = r.id \/ Claim(s.art) = Claim(r))
<1> DEFINE now == records \cup Reconciled
<1>1. /\ PlanSound /\ PlanRecords /\ OneRecordEach /\ TypeOK
      /\ records = {s.art : s \in Placements}
  BY DEF RecordInv, RunInv, TypeInv, Retiring
<1>2. CASE r \in now
  <2>1. PICK s \in steps : r = s.art /\ s.action # "skip"
    BY <1>1, <1>2 DEF Reconciled, Placements
  <2> QED  BY <2>1, RenderedIsInPlace
<1>3. CASE r \notin now /\ r \notin asked
  <2>1. /\ r \in journal /\ \A q \in now : r.id # q.id
        /\ \A q \in now : r.kind = q.kind => Claim(r) # Claim(q)
    BY <1>3 DEF Merged
  <2>2. PICK s \in steps : r.id = s.art.id \/ Claim(r) = Claim(s.art)
    BY <1>1, <1>3, <2>1 DEF PlanRecords
  <2>3. r \in Artifact /\ s.art \in Artifact
        /\ s.action \in {"create", "update", "unchanged", "skip"}
    BY <1>1, <2>1, <2>2 DEF TypeOK, PlanStep
  <2>4. Claim(r) = Claim(s.art) => r.kind = s.art.kind
    <3>1. Claim(r) = Claim(s.art) => r.path = s.art.path
      BY DEF Claim
    <3> QED  BY <2>3, <3>1, ArtifactTypes, Disjoint
  <2>5. s.art \notin now
    BY <2>1, <2>2, <2>4
  <2>6. CASE s.action = "unchanged"
    <3>1. s.entry.val = s.art.val /\ s.entry.id = s.art.id
      BY <2>2, <2>5, <2>6 DEF Reconciled
    <3>2. s.entry \in journal /\ SameSlot(s.entry, s.art)
      BY <1>1, <2>2, <2>6 DEF PlanSound, StepFits
    <3>3. Claim(s.entry) = Claim(s.art)
      BY <3>1, <3>2 DEF SameSlot, Claim, Appends
    <3>4. r = s.entry
      BY <1>1, <2>1, <2>2, <3>1, <3>2, <3>3 DEF OneRecordEach
    <3>5. Holds(home, s.art)
      BY <2>2, <2>6, RenderedIsInPlace
    <3> QED  BY <3>1, <3>2, <3>4, <3>5 DEF Holds, SameSlot, Appends
  <2>7. CASE s.action \in {"create", "update"}
    <3>1. s.art \in records
      BY <1>1, <2>2, <2>7 DEF Placements
    <3> QED  BY <2>5, <3>1
  <2>8. CASE s.action = "skip"
    BY <2>2, <2>8
  <2> QED  BY <2>3, <2>6, <2>7, <2>8
<1>4. CASE r \notin now /\ r \in asked
  <2>1. r \notin gone
    BY <1>4 DEF Merged
  <2> QED  BY <1>4, <2>1
<1> QED  BY <1>2, <1>3, <1>4

(* What a successful install records is on disk as recorded, save for an    *)
(* item that could not be accounted for and for what was skipped: for any   *)
(* releases whose items do not take over each other's values, any journal   *)
(* and any number of failed runs before, as long as nobody edits the home   *)
(* between plan and apply.                                                 *)
THEOREM JournalIsTrue ==
  ASSUME Window = {}, KeptApart
  PROVE  Spec => JournalTrue
<1>1. ASSUME RecordInv, Save, op = "install", NEW r \in journal'
      PROVE  \/ Holds(home', r)
             \/ r \in asked \ gone
             \/ \E s \in steps : s.action = "skip" /\ (s.art.id = r.id \/ Claim(s.art) = Claim(r))
  <2>1. phase = "retire" /\ retiring = {} /\ journal' = Merged /\ home' = home
    BY <1>1 DEF Save
  <2>2. r \in Merged
    BY <2>1
  <2> QED  BY <1>1, <2>1, <2>2, SavedIsTrue DEF Holds
<1>2. RecordInv /\ [Next]_vars
        => [Save /\ op = "install" =>
              \A r \in journal' :
                \/ Holds(home', r)
                \/ r \in asked \ gone
                \/ \E s \in steps : s.action = "skip" /\ (s.art.id = r.id \/ Claim(s.art) = Claim(r))
           ]_vars
  BY <1>1
<1> QED  BY <1>2, RecordInit, RecordNext, PTL DEF Spec, JournalTrue

-----------------------------------------------------------------------------
(* What belongs to the user.                                               *)

(* An item whose value changes from one release to the next keeps its id:   *)
(* nobody but darq puts such a value in a list. StableItems is the case in  *)
(* which no value changes.                                                 *)
Changes(a) == \E e \in Rendered : e.id = a.id /\ Appends(e) /\ Appends(a) /\ e.val # a.val
NotByHand  == \A a \in Rendered : Changes(a) => a.val \notin HandItems

(* A list holds nothing but what the user may add and what darq put there.  *)
OnlyOurs(h) ==
  \A c \in AllClaims :
    c.pointer \in Lists /\ c.item \notin HandItems /\ Present(h, c) => c \in earned

(* All the journal claims, all this run has recorded and all it found        *)
(* already right is ours, so that what a step writes, takes out or puts      *)
(* back is never the user's.                                               *)
ClaimedInv ==
  /\ RecordInv /\ UndoInv
  /\ Claims(journal) \subseteq earned
  /\ OnlyOurs(home)
  /\ phase \in {"planned", "apply", "retire"} =>
       /\ OnlyOurs(before)
       /\ Claims(records) \subseteq earned
       /\ \A s \in steps : s.action = "unchanged" => Claim(s.art) \in earned

LEMMA UnchangedIsOurs ==
  ASSUME NotByHand, TypeOK, journal \subseteq Rendered, Claims(journal) \subseteq earned,
         OnlyOurs(home), NEW a \in Rendered, StepOf(a).action = "unchanged"
  PROVE  Claim(a) \in earned
<1> DEFINE e == EntryOf(a)
<1>0. a \in Artifact
  BY RenderedAreArtifacts
<1>1. e \in journal /\ e \in Rendered /\ e \in Artifact /\ (e.id = a.id \/ Claim(e) = Claim(a))
  <2>1. e # NoEntry
    BY DEF StepOf, FileAction, KeyAction, Claimable
  <2> QED  BY <2>1, EntryIsKnown, RenderedAreArtifacts
<1>2. SameSlot(e, a)
  <2>1. CASE a.kind = "file"
    <3>1. e.kind = "file" /\ e.path = a.path
      BY <2>1 DEF StepOf, FileAction
    <3> QED  BY <1>0, <1>1, <2>1, <3>1, ArtifactTypes DEF SameSlot
  <2>2. CASE a.kind # "file"
    <3>1. Claimable(a, e)
      BY <2>2 DEF StepOf, KeyAction
    <3> QED  BY <1>0, <2>2, <3>1, ArtifactTypes DEF SameSlot, Claimable
  <2> QED  BY <2>1, <2>2
<1>3. CASE Claim(e) = Claim(a)
  BY <1>1, <1>3 DEF Claims
<1>4. CASE Claim(e) # Claim(a)
  <2>1. Appends(a) /\ Appends(e) /\ e.val # a.val
    BY <1>2, <1>4 DEF SameSlot, Claim, Appends
  <2>2. Changes(a)
    BY <1>1, <1>4, <2>1 DEF Changes
  <2>3. a.val \notin HandItems
    BY <2>2 DEF NotByHand
  <2>4. a.kind # "file"
    BY <1>0, <2>1, ArtifactTypes
  <2>5. Holds(home, a)
    BY <1>2, <2>4 DEF StepOf, KeyAction
  <2>6. Present(home, Claim(a)) /\ Claim(a) \in AllClaims
    BY <1>0, <2>5, HoldsIs, ClaimTypes
  <2>7. Claim(a).pointer \in Lists /\ Claim(a).item = a.val
    BY <2>1 DEF Claim, Appends
  <2> QED  BY <2>3, <2>6, <2>7 DEF OnlyOurs
<1> QED  BY <1>3, <1>4

LEMMA OursLater ==
  ASSUME NEW H, home' = H, NEW E, earned' = E,
         \A c \in AllClaims :
           c.pointer \in Lists /\ c.item \notin HandItems /\ Present(H, c) => c \in E
  PROVE  OnlyOurs(home)'
BY DEF OnlyOurs, Present, Parsed

(* A step that brings in nothing but the user's items and what it then      *)
(* claims.                                                                 *)
LEMMA OursKept ==
  ASSUME OnlyOurs(home), NEW H, home' = H, NEW E, earned' = E,
         earned \subseteq E \/ E = {c \in earned : Present(H, c) \/ c \in Claims(journal')},
         \A c \in AllClaims :
           c.pointer \in Lists /\ c.item \notin HandItems /\ Present(H, c)
             => Present(home, c) \/ c \in E
  PROVE  OnlyOurs(home)'
<1>1. \A c \in AllClaims :
        c.pointer \in Lists /\ c.item \notin HandItems /\ Present(H, c) => c \in E
  BY DEF OnlyOurs
<1> QED  BY <1>1, OursLater

(* What the user's edits bring in by hand are the items they may add.       *)
LEMMA EditAdds ==
  ASSUME home \in Homes,
         (\E f \in Files : EditFile(f)) \/ (\E d \in Docs : EditDoc(d)),
         NEW H, home' = H,
         NEW c \in AllClaims, c.pointer \in Lists, c.item \notin HandItems, Present(H, c)
  PROVE  Present(home, c)
<1>0. c.path \in Docs /\ c.path \notin Files /\ c.path \in Paths /\ c.pointer \notin Keys
      /\ Parsed(H[c.path]) /\ c.item \in H[c.path][c.pointer]
  BY ClaimCases, Disjoint DEF Present, Paths, Pointers
<1>1. H[c.path] = home[c.path] => Present(home, c)
  BY <1>0 DEF Present
<1>2. ASSUME NEW p \in Paths, NEW x, home' = [home EXCEPT ![p] = x]
      PROVE  H[c.path] = IF p = c.path THEN x ELSE home[c.path]
  BY <1>0, <1>2 DEF Homes
<1>3. ASSUME NEW f \in Files, EditFile(f) PROVE Present(home, c)
  BY <1>0, <1>1, <1>2, <1>3 DEF EditFile, Paths
<1>4. ASSUME NEW d \in Docs, EditSlot(d), d = c.path PROVE Present(home, c)
  <2>1. home[d] \in Document /\ d \in Paths
    BY <1>0, <1>4 DEF EditSlot, Parsed, Homes, DocContent
  <2>2. ASSUME NEW q \in Pointers, NEW x, home' = [home EXCEPT ![d][q] = x]
        PROVE  H[d][c.pointer] = IF q = c.pointer THEN x ELSE home[d][c.pointer]
    <3>1. home' = [home EXCEPT ![d] = [home[d] EXCEPT ![q] = x]]
      BY <2>2
    <3>2. H[d] = [home[d] EXCEPT ![q] = x]
      BY <1>2, <1>4, <2>1, <3>1
    <3> QED  BY <1>0, <2>1, <3>2 DEF Document, Pointers
  <2>3. c.item \in home[d][c.pointer]
    <3>1. ASSUME NEW k \in Keys, NEW v, home' = [home EXCEPT ![d][k] = v]
          PROVE  c.item \in home[d][c.pointer]
      BY <1>0, <1>4, <2>2, <3>1 DEF Pointers
    <3>2. ASSUME NEW l \in Lists, NEW v, home' = [home EXCEPT ![d][l] = @ \ {v}]
          PROVE  c.item \in home[d][c.pointer]
      <4>1. home' = [home EXCEPT ![d][l] = home[d][l] \ {v}]
        BY <3>2
      <4>2. H[d][c.pointer] = IF l = c.pointer THEN home[d][l] \ {v} ELSE home[d][c.pointer]
        BY <2>2, <4>1 DEF Pointers
      <4> QED  BY <1>0, <1>4, <4>2
    <3>3. ASSUME NEW l \in Lists, NEW v \in HandItems, home' = [home EXCEPT ![d][l] = @ \cup {v}]
          PROVE  c.item \in home[d][c.pointer]
      <4>1. home' = [home EXCEPT ![d][l] = home[d][l] \cup {v}]
        BY <3>3
      <4>2. H[d][c.pointer] = IF l = c.pointer THEN home[d][l] \cup {v} ELSE home[d][c.pointer]
        BY <2>2, <4>1 DEF Pointers
      <4> QED  BY <1>0, <1>4, <4>2
    <3> QED  BY <1>4, <3>1, <3>2, <3>3 DEF EditSlot
  <2> QED  BY <1>0, <1>4, <2>3 DEF EditSlot, Present
<1>5. ASSUME NEW d \in Docs, EditDoc(d) PROVE Present(home, c)
  <2>1. d \in Paths
    BY DEF Paths
  <2>2. CASE EditSlot(d) /\ d = c.path
    BY <1>4, <2>2
  <2>3. CASE EditSlot(d) /\ d # c.path
    <3>1. H[c.path] = home[c.path]
      BY <1>0, <2>3 DEF EditSlot, Homes
    <3> QED  BY <1>1, <3>1
  <2>4. CASE \E x \in {Absent, EmptyDoc, Garbage} : home' = [home EXCEPT ![d] = x]
    <3>1. PICK x \in {Absent, EmptyDoc, Garbage} : home' = [home EXCEPT ![d] = x]
      BY <2>4
    <3>2. x = EmptyDoc => c.item \notin x[c.pointer]
      BY <1>0 DEF EmptyDoc, Pointers
    <3> QED  BY <1>0, <1>1, <1>2, <2>1, <3>1, <3>2 DEF Parsed
  <2> QED  BY <1>5, <2>2, <2>3, <2>4 DEF EditDoc
<1> QED  BY <1>3, <1>5

(* What a run has done to the home so far it has done to what is ours.      *)
LEMMA OnlyOursMoved ==
  ASSUME ClaimedInv, phase \in {"apply", "retire"}, NEW c \in AllClaims, c \notin earned
  PROVE  /\ Agree(home, before, c)
         /\ c \notin ReplacedClaims /\ c \notin Claims(asked)
<1> DEFINE p == c.path
<1>1. /\ TypeOK /\ PlanSound /\ RunInv /\ Claims(journal) \subseteq earned
      /\ Claims(records) \subseteq earned /\ asked \subseteq journal
  BY DEF ClaimedInv, RecordInv, RunInv, TypeInv, TypeOK
<1>2. c \notin ReplacedClaims
  <2> SUFFICES ASSUME NEW s \in Placements, s.action = "update", Claim(s.entry) = c PROVE FALSE
    BY DEF ReplacedClaims, Claims
  <2>1. s.entry \in journal
    BY <1>1, PlacedAt DEF StepFits
  <2> QED  BY <1>1, <2>1 DEF Claims
<1>3. c \notin Claims(asked)
  BY <1>1 DEF Claims
<1>4. p \in Paths /\ PlacedHome \in Homes
  BY <1>1, ClaimCases, PlacedHomeType DEF Paths
<1>5. c \notin PlacedClaims => Agree(PlacedHome, before, c)
  BY <1>1, <1>2, PlacedAgrees
<1>6. CASE phase = "apply"
  <2>1. Applying
    BY <1>1, <1>6 DEF RunInv
  <2>2. CASE NotReached(p)
    BY <1>2, <1>3, <2>2, AgreeIsLocal DEF NotReached
  <2>3. CASE Reached(p)
    <3>1. c \notin PlacedClaims
      <4> SUFFICES ASSUME NEW s \in Placements, Claim(s.art) = c PROVE FALSE
        BY DEF PlacedClaims, Claims
      <4>1. s.art.path = p
        BY DEF Claim
      <4>2. s \notin todo
        BY <2>3, <4>1 DEF Reached, At
      <4>3. s.art \in records
        BY <2>1, <4>2 DEF Applying
      <4> QED  BY <1>1, <4>3 DEF Claims
    <3>2. PlacedHome[p] = home[p]
      BY <1>4, <2>3 DEF Reached, PlacedHome
    <3> QED  BY <1>2, <1>3, <1>5, <3>1, <3>2, AgreeIsLocal, AgreeTwice
  <2> QED  BY <1>2, <1>3, <1>4, <2>1, <2>2, <2>3 DEF Applying
<1>7. CASE phase = "retire"
  <2>1. Retiring
    BY <1>1, <1>7 DEF RunInv
  <2>2. c \notin PlacedClaims
    BY <1>1, <2>1 DEF PlacedClaims, Retiring
  <2>3. c \notin Claims(asked \ retiring) /\ asked \ retiring \subseteq Artifact
    BY <1>1, <1>3 DEF Claims, TypeOK
  <2>4. Agree(home, PlacedHome, c)
    BY <1>4, <2>1, <2>3, TakenOutAgrees DEF Retiring
  <2> QED  BY <1>2, <1>3, <1>5, <2>2, <2>4, AgreeTwice
<1> QED  BY <1>6, <1>7

(* What unplace does at a path: writes back what was updated, or takes out  *)
(* what was created.                                                       *)
LEMMA UnplacedAt ==
  ASSUME TypeOK, PlanSound, Retiring, NEW c \in AllClaims
  PROVE  /\ c.path \in Replaced => Unplaced[c.path] = before[c.path]
         /\ c.path \notin Replaced /\ c \in Claims(records) => ~ Present(Unplaced, c)
         /\ c.path \notin Replaced /\ c \notin Claims(records) => Agree(Unplaced, home, c)
<1> DEFINE p    == c.path
           back == [q \in Paths |-> IF q \in Replaced THEN restorable[q] ELSE home[q]]
           R    == {r \in records : r.path \notin Replaced}
<1>0. p \in Paths /\ home \in Homes /\ restorable \in Held
  BY ClaimCases DEF Paths, TypeOK
<1>1. \A q \in Replaced : restorable[q] = before[q] /\ restorable[q] # Unsaved
  BY ReplacedIsUpdated DEF Retiring, Replaced
<1>2. Unplaced = TakenOut(back, R)
  BY DEF Unplaced
<1>3. back \in Homes
  <2> DEFINE g == [q \in Paths |-> IF q \in Replaced THEN restorable[q]
                                   ELSE IF q \in {} THEN Absent ELSE home[q]]
  <2>1. \A q \in Replaced : restorable[q] # Unsaved
    BY <1>1
  <2>2. g \in Homes
    BY <1>0, <2>1, PutBackType
  <2>3. back = g
    OBVIOUS
  <2> QED  BY <2>2, <2>3
<1>4. R \subseteq Artifact
  BY PlacementTypes DEF Retiring
<1>5. back[p] = IF p \in Replaced THEN before[p] ELSE home[p]
  BY <1>0, <1>1
<1> HIDE DEF back
<1>6. ASSUME p \in Replaced PROVE Unplaced[p] = before[p]
  <2>1. {r \in R : r.path = p} = {}
    BY <1>6
  <2>2. Unplaced[p] = back[p]
    BY <1>0, <1>2, <2>1 DEF TakenOut
  <2> QED  BY <1>5, <1>6, <2>2
<1>7. ASSUME p \notin Replaced PROVE c \in Claims(R) <=> c \in Claims(records)
  BY <1>7 DEF Claims, Claim
<1>8. /\ c \in Claims(R) => ~ Present(Unplaced, c)
      /\ c \notin Claims(R) => Agree(Unplaced, back, c)
  BY <1>2, <1>3, <1>4, TakenOutAgrees
<1>9. p \notin Replaced => Agree(back, home, c)
  BY <1>5, AgreeIsLocal
<1> QED  BY <1>6, <1>7, <1>8, <1>9, AgreeTwice

(* A step of a run touches what is ours, or puts something new where there  *)
(* was nothing.                                                            *)
LEMMA StepAgrees ==
  ASSUME Undisturbed, ClaimedInv, Darq, NEW H, home' = H,
         NEW c \in AllClaims, c \notin earned
  PROVE  (c \in earned' /\ ~ Present(home, c)) \/ Agree(H, home, c)
<1> USE DEF plan, undo, ghosts, bounds
<1>0. /\ TypeOK /\ RunInv /\ UndoInv /\ Claims(journal) \subseteq earned
      /\ home \in Homes /\ before \in Homes /\ retiring \subseteq journal
      /\ retiring \subseteq Artifact
  BY DEF ClaimedInv, RecordInv, RunInv, TypeInv, TypeOK
<1>1. c.path \in Paths /\ Agree(home, home, c)
  BY ClaimCases DEF Paths, Agree
<1>2. ASSUME NEW R \in SUBSET retiring, H = TakenOut(home, R) PROVE Agree(H, home, c)
  <2>1. c \notin Claims(R) /\ R \subseteq Artifact
    BY <1>0 DEF Claims
  <2> QED  BY <1>0, <1>2, <2>1, TakenOutAgrees
<1>3. CASE Starts \/ StartApply \/ StartRetire \/ Save \/ Exit \/ Crash \/ ApplyUnparseable
  BY <1>1, <1>3 DEF Starts, Uninstall, Plan, StartApply, StartRetire, Save, Exit, Crash,
                    ApplyUnparseable
<1>4. ASSUME NEW s \in todo, ApplyFile(s)
      PROVE  (c \in earned' /\ ~ Present(home, c)) \/ Agree(H, home, c)
  <2>1. /\ phase = "apply" /\ s.art.kind = "file" /\ home' = [home EXCEPT ![s.art.path] = s.art.val]
        /\ earned' = earned \cup Claims({s.art})
    BY <1>4 DEF ApplyFile, FileStep, Took
  <2>2. PlanSound /\ Applying
    BY <1>0, <2>1 DEF RunInv
  <2>3. s \in Placements /\ s.art \in Artifact /\ s.art.path \in Files /\ s.art.path \in Paths
    BY <1>0, <2>1, PlacementTypes DEF TypeOK
  <2>4. CASE c.path # s.art.path
    BY <1>0, <1>1, <2>1, <2>4, AgreeIsLocal DEF Homes
  <2>5. CASE c.path = s.art.path
    <3>1. Claim(s.art) = c
      <4>1. c.pointer = Whole /\ c.item = Absent
        BY <2>3, <2>5, ClaimCases
      <4>2. s.art.pointer = Whole /\ ~ Appends(s.art)
        BY <2>3, ArtifactTypes, Disjoint
      <4> QED  BY <2>5, <4>1, <4>2, SameClaim
    <3>2. s \in At(c.path)
      BY <2>3, <2>5 DEF At
    <3>3. home[c.path] = before[c.path]
      BY <1>1, <2>2, <3>2 DEF Applying, Reached, NotReached
    <3>4. s.action = "create"
      <4> SUFFICES ASSUME s.action = "update" PROVE FALSE
        BY <2>3 DEF Placements
      <4>1. s.entry \in journal /\ SameSlot(s.entry, s.art)
        BY <1>0, <2>2, <2>3, PlacedAt DEF StepFits
      <4>2. ~ Appends(s.art)
        BY <2>3, ArtifactTypes, Disjoint
      <4>3. Claim(s.entry) = Claim(s.art)
        BY <4>1, <4>2 DEF SameSlot, Claim, Appends
      <4> QED  BY <1>0, <3>1, <4>1, <4>3 DEF Claims
    <3>5. ~ Present(before, c)
      BY <1>0, <2>2, <2>3, <3>1, <3>4, PlacedAt DEF StepFits
    <3>6. ~ Present(home, c)
      BY <3>3, <3>5 DEF Present
    <3>7. c \in earned'
      BY <2>1, <3>1 DEF Claims
    <3> QED  BY <3>6, <3>7
  <2> QED  BY <2>4, <2>5
<1>5. ASSUME NEW d \in Docs, ApplyDoc(d)
      PROVE  (c \in earned' /\ ~ Present(home, c)) \/ Agree(H, home, c)
  <2> DEFINE S == {s \in todo : s.art.path = d}
  <2>1. /\ phase = "apply" /\ S # {} /\ home' = [home EXCEPT ![d] = SetAll(home[d], S)]
        /\ earned' = earned \cup Claims({s.art : s \in S})
    BY <1>5 DEF ApplyDoc, Took
  <2>2. PlanSound /\ Applying /\ d \in Paths /\ d \notin Files
    BY <1>0, <2>1, Disjoint DEF RunInv, Paths
  <2>3. S = At(d) \cap todo
    BY <1>0 DEF At, TypeOK
  <2>4. NotReached(d)
    BY <2>1, <2>2, <2>3 DEF Applying, Reached
  <2>5. S = At(d) /\ home[d] = before[d]
    BY <2>3, <2>4 DEF NotReached
  <2> HIDE DEF S
  <2>6. H[d] = PlacedHome[d]
    <3>1. PlacedHome[d] = SetAll(home[d], S)
      BY <2>1, <2>2, <2>5 DEF PlacedHome, Placed
    <3> QED  BY <1>0, <2>1, <2>2, <3>1 DEF Homes
  <2>7. CASE c.path # d
    BY <1>0, <1>1, <2>1, <2>7, AgreeIsLocal DEF Homes
  <2>8. CASE c.path = d /\ c \in PlacedClaims
    <3>1. PICK s \in Placements : Claim(s.art) = c
      BY <2>8 DEF PlacedClaims, Claims
    <3>2. s \in S
      BY <2>5, <2>8, <3>1 DEF At, Claim
    <3>3. ~ Present(before, c)
      <4>1. CASE s.action = "create"
        BY <1>0, <2>2, <3>1, <4>1, PlacedAt DEF StepFits
      <4>2. CASE s.action = "update"
        <5>1. s.entry \in journal /\ SameSlot(s.entry, s.art)
              /\ (Appends(s.art) => ~ Present(before, Claim(s.art)))
          BY <1>0, <2>2, <3>1, <4>2, PlacedAt DEF StepFits
        <5>2. ~ Appends(s.art) => Claim(s.entry) = Claim(s.art)
          BY <5>1 DEF SameSlot, Claim, Appends
        <5> QED  BY <1>0, <3>1, <5>1, <5>2 DEF Claims
      <4> QED  BY <3>1, <4>1, <4>2 DEF Placements
    <3>4. ~ Present(home, c)
      BY <2>5, <2>8, <3>3 DEF Present
    <3>5. c \in earned'
      BY <2>1, <3>1, <3>2 DEF Claims
    <3> QED  BY <3>4, <3>5
  <2>9. CASE c.path = d /\ c \notin PlacedClaims
    <3>1. c \notin ReplacedClaims
      BY <2>1, OnlyOursMoved
    <3>2. Agree(PlacedHome, before, c)
      BY <1>0, <2>2, <2>9, <3>1, PlacedAgrees
    <3>3. Agree(H, PlacedHome, c) /\ Agree(before, home, c)
      BY <2>5, <2>6, <2>9, AgreeIsLocal
    <3> QED  BY <3>2, <3>3, AgreeTwice
  <2> QED  BY <2>7, <2>8, <2>9
<1>6. ASSUME NEW d \in Docs, RetireDoc(d) PROVE Agree(H, home, c)
  BY <1>2, <1>6 DEF RetireDoc
<1>7. ASSUME NEW r \in retiring, RetireFile(r) PROVE Agree(H, home, c)
  <2>1. r.path \in Files
    BY <1>0, <1>7, ArtifactTypes DEF RetireFile
  <2>2. H = TakenOut(home, {r})
    BY <1>0, <1>7, <2>1, OneFileTakenOut DEF RetireFile
  <2> QED  BY <1>2, <2>2
<1>8. CASE ApplyFails \/ UndoFails
  <2>1. phase = "apply" /\ Undone(home) = before
    BY <1>0, <1>8 DEF ApplyFails, UndoFails, UndoInv
  <2>2. H[c.path] = before[c.path] \/ H[c.path] = home[c.path]
    BY <1>1, <1>8, <2>1 DEF ApplyFails, UndoFails
  <2>3. Agree(before, home, c)
    BY <2>1, OnlyOursMoved, AgreeBack
  <2>4. Agree(H, before, c) \/ Agree(H, home, c)
    BY <2>2, AgreeIsLocal
  <2> QED  BY <2>3, <2>4, AgreeTwice
<1>9. CASE RetireFails \/ RetireUnparseable \/ SaveFails \/ RollbackFails
  <2>1. phase = "retire" /\ (H[c.path] = Unplaced[c.path] \/ H[c.path] = home[c.path])
    <3>1. CASE RollbackFails
      BY <1>1, <3>1 DEF RollbackFails
    <3>2. CASE RetireFails \/ RetireUnparseable \/ SaveFails
      BY <1>1, <3>2 DEF RetireFails, RetireUnparseable, SaveFails, Abandon
    <3> QED  BY <1>9, <3>1, <3>2
  <2>2. PlanSound /\ Retiring /\ Claims(records) \subseteq earned
    BY <1>0, <2>1 DEF RunInv, ClaimedInv
  <2>3. Agree(Unplaced, home, c)
    <3>1. CASE c.path \in Replaced
      <4>1. Agree(Unplaced, before, c)
        BY <1>0, <2>2, <3>1, UnplacedAt, AgreeIsLocal
      <4>2. Agree(before, home, c)
        BY <2>1, OnlyOursMoved, AgreeBack
      <4> QED  BY <4>1, <4>2, AgreeTwice
    <3>2. CASE c.path \notin Replaced
      BY <1>0, <2>2, <3>2, UnplacedAt
    <3> QED  BY <3>1, <3>2
  <2>4. Agree(H, Unplaced, c) \/ Agree(H, home, c)
    BY <2>1, AgreeIsLocal
  <2> QED  BY <2>3, <2>4, AgreeTwice
<1>10. ~ \E s \in todo : ApplyFailsLate(s)
  BY DEF Undisturbed, ApplyFailsLate
<1> QED
  BY <1>3, <1>4, <1>5, <1>6, <1>7, <1>8, <1>9, <1>10
     DEF Darq, Starts, Applies, Retires, Breaks

LEMMA ClaimedInit == Init => ClaimedInv
<1> SUFFICES ASSUME Init PROVE ClaimedInv
  OBVIOUS
<1>1. OnlyOurs(home)
  <2>1. \A p \in Paths : home[p] = Absent
    BY DEF Init
  <2> QED  BY <2>1, ClaimCases DEF OnlyOurs, Present, Parsed, Paths
<1> QED  BY <1>1, RecordInit, UndoInit DEF Init, ClaimedInv, Claims

(* A step that leaves the journal and gives up no claim it makes.           *)
LEMMA ClaimedKept ==
  ASSUME ClaimedInv, RecordInv', UndoInv', OnlyOurs(home)',
         UNCHANGED <<journal, steps>>,
         earned \subseteq earned' \/ earned' = Settled(earned),
         phase' \in {"planned", "apply", "retire"} =>
           /\ phase \in {"planned", "apply", "retire"} /\ before' = before
           /\ earned \subseteq earned' /\ Claims(records') \subseteq earned'
  PROVE  ClaimedInv'
<1>1. Claims(journal') \subseteq earned'
  BY DEF ClaimedInv, Settled
<1>2. phase' \in {"planned", "apply", "retire"} => OnlyOurs(before)'
  BY DEF ClaimedInv, OnlyOurs, Present, Parsed
<1>3. phase' \in {"planned", "apply", "retire"} =>
        \A s \in steps' : s.action = "unchanged" => Claim(s.art) \in earned'
  BY DEF ClaimedInv
<1> QED  BY <1>1, <1>2, <1>3 DEF ClaimedInv, Claims, Claim, Appends

LEMMA SavedIsOurs ==
  ASSUME ClaimedInv, phase = "retire"
  PROVE  Claims(Merged) \subseteq earned
<1>1. Claims(records) \subseteq earned /\ Claims(Reconciled) \subseteq earned
  BY DEF ClaimedInv, Reconciled, Claims
<1>2. Merged \subseteq records \cup Reconciled \cup journal
  BY DEF Merged
<1> QED  BY <1>1, <1>2 DEF ClaimedInv, Claims

LEMMA OursNext ==
  ASSUME Undisturbed, ClaimedInv, [Next]_vars
  PROVE  OnlyOurs(home)'
<1> USE DEF plan, undo, ghosts, bounds
<1>0. OnlyOurs(home) /\ TypeOK
  BY DEF ClaimedInv, RecordInv, RunInv, TypeInv
<1>1. PICK H, E : H = home' /\ E = earned'
  OBVIOUS
<1>2. CASE UNCHANGED vars
  BY <1>0, <1>2 DEF vars, OnlyOurs, Present, Parsed
<1>3. CASE UserEdits
  <2>1. \A c \in AllClaims : c.pointer \in Lists /\ c.item \notin HandItems /\ Present(H, c)
          => Present(home, c)
    BY <1>0, <1>1, <1>3, EditAdds DEF UserEdits, TypeOK
  <2>2. E = {c \in earned : Present(H, c) \/ c \in Claims(journal')}
    BY <1>1, <1>3 DEF UserEdits, Settled
  <2> QED  BY <1>0, <1>1, <2>1, <2>2, OursKept
<1>4. CASE Darq
  <2>1. \A c \in AllClaims : c \notin earned => c \in earned' \/ Agree(H, home, c)
    BY <1>1, <1>4, StepAgrees
  <2>2. \A c \in AllClaims : c \notin earned /\ Present(H, c) => Present(home, c) \/ c \in E
    BY <1>1, <2>1 DEF Agree
  <2>3. earned \subseteq E \/ E = {c \in earned : Present(H, c) \/ c \in Claims(journal')}
    <3>1. earned \subseteq earned' \/ earned' = Settled(earned)
      <4>1. CASE Starts
        BY <4>1 DEF Starts, Uninstall, Plan
      <4>2. CASE Applies \/ Retires
        BY <4>2 DEF Applies, Retires, StartApply, ApplyFile, ApplyDoc, Took,
                    StartRetire, RetireDoc, RetireFile
      <4>3. CASE Save \/ Exit
        BY <4>3 DEF Save, Exit
      <4>4. CASE Breaks
        BY <4>4 DEF Breaks, ApplyFails, ApplyFailsLate, ApplyUnparseable, UndoFails,
                    RollbackFails, RetireFails, RetireUnparseable, SaveFails, Abandon,
                    Crash, Undisturbed
      <4> QED  BY <1>4, <4>1, <4>2, <4>3, <4>4 DEF Darq
    <3> QED  BY <1>1, <3>1 DEF Settled
  <2>4. \A c \in AllClaims : c.pointer \in Lists /\ c.item \notin HandItems /\ Present(H, c)
          => c \in E
    <3> SUFFICES ASSUME NEW c \in AllClaims, c.pointer \in Lists, c.item \notin HandItems,
                        Present(H, c)
                 PROVE  c \in E
      OBVIOUS
    <3>1. c \in earned => c \in E
      BY <2>3
    <3>2. c \notin earned => c \in E
      BY <1>0, <2>2 DEF OnlyOurs
    <3> QED  BY <3>1, <3>2
  <2> QED  BY <1>1, <2>4, OursLater
<1>5. ~ UserEditsInWindow
  BY DEF Undisturbed, UserEditsInWindow
<1> QED  BY <1>2, <1>3, <1>4, <1>5 DEF Next, User

LEMMA ClaimedNext ==
  ASSUME Undisturbed, NotByHand, ClaimedInv, [Next]_vars
  PROVE  ClaimedInv'
<1> USE DEF plan, undo, ghosts, bounds
<1>0. /\ RecordInv /\ RunInv /\ UndoInv /\ TypeOK /\ RecordInv' /\ UndoInv' /\ OnlyOurs(home)'
      /\ Claims(journal) \subseteq earned /\ OnlyOurs(home)
  BY RecordNext, UndoNext, OursNext DEF ClaimedInv, Undisturbed, RecordInv, RunInv, TypeInv
<1>1. CASE UNCHANGED vars
  BY <1>0, <1>1, ClaimedKept DEF vars, ClaimedInv
<1>2. CASE UserEdits
  BY <1>0, <1>2, ClaimedKept DEF UserEdits
<1>3. ASSUME NEW arts \in Releases, Plan(arts) PROVE ClaimedInv'
  <2>1. /\ UNCHANGED <<journal, earned, records, home>> /\ before' = home /\ records = {}
        /\ steps' = {StepOf(a) : a \in arts}
    BY <1>0, <1>3 DEF Plan, RunInv
  <2>2. \A a \in arts : a \in Rendered /\ StepOf(a).art = a
    BY DEF Rendered, StepOf
  <2>3. \A a \in arts : StepOf(a).action = "unchanged" => Claim(a) \in earned
    BY <1>0, <2>2, UnchangedIsOurs DEF RecordInv
  <2>4. \A s \in steps' : s.action = "unchanged" => Claim(s.art) \in earned'
    BY <2>1, <2>2, <2>3
  <2>5. OnlyOurs(before)'
    BY <1>0, <2>1 DEF OnlyOurs, Present, Parsed
  <2>6. Claims(records') \subseteq earned' /\ Claims(journal') \subseteq earned'
    BY <1>0, <2>1 DEF Claims
  <2> QED  BY <1>0, <2>4, <2>5, <2>6 DEF ClaimedInv, Claims, Claim, Appends
<1>4. CASE Uninstall
  <2>1. /\ UNCHANGED <<journal, earned, records, home, steps>> /\ before' = home
        /\ records = {} /\ steps = {}
    BY <1>0, <1>4 DEF Uninstall, RunInv
  <2>2. OnlyOurs(before)'
    BY <1>0, <2>1 DEF OnlyOurs, Present, Parsed
  <2>3. Claims(records') \subseteq earned' /\ Claims(journal') \subseteq earned'
    BY <1>0, <2>1 DEF Claims
  <2> QED  BY <1>0, <2>1, <2>2, <2>3 DEF ClaimedInv, Claims, Claim, Appends
<1>5. CASE StartApply \/ StartRetire
  BY <1>0, <1>5, ClaimedKept DEF StartApply, StartRetire, ClaimedInv
<1>6. ASSUME NEW S, Took(S), phase = "apply", UNCHANGED <<journal, phase, plan>>
      PROVE  ClaimedInv'
  <2>1. /\ earned' = earned \cup Claims({s.art : s \in S})
        /\ records' = records \cup {s.art : s \in S}
    BY <1>6 DEF Took
  <2>2. Claims(records') \subseteq earned'
    BY <1>6, <2>1 DEF ClaimedInv, Claims
  <2> QED  BY <1>0, <1>6, <2>1, <2>2, ClaimedKept
<1>7. CASE (\E s \in todo : ApplyFile(s)) \/ (\E d \in Docs : ApplyDoc(d))
  <2>1. ASSUME NEW s \in todo, ApplyFile(s) PROVE ClaimedInv'
    BY <1>6, <2>1 DEF ApplyFile, FileStep
  <2>2. ASSUME NEW d \in Docs, ApplyDoc(d) PROVE ClaimedInv'
    <3> DEFINE S == {s \in todo : s.art.path = d}
    <3>1. Took(S) /\ phase = "apply" /\ UNCHANGED <<journal, phase, plan>>
      BY <2>2 DEF ApplyDoc
    <3> HIDE DEF S
    <3> QED  BY <1>6, <3>1
  <2> QED  BY <1>7, <2>1, <2>2
<1>8. CASE (\E d \in Docs : RetireDoc(d)) \/ (\E r \in retiring : RetireFile(r))
  BY <1>0, <1>8, ClaimedKept DEF RetireDoc, RetireFile, ClaimedInv
<1>9. CASE Save
  <2>1. phase = "retire" /\ phase' = "idle" /\ steps' = {} /\ earned' = Settled(earned)
        /\ (journal' = Merged \/ journal' = {})
    BY <1>9 DEF Save, Forget
  <2>2. Claims(journal') \subseteq earned
    BY <2>1, SavedIsOurs DEF Claims
  <2>3. Claims(journal') \subseteq earned'
    BY <2>1, <2>2 DEF Settled
  <2> QED  BY <1>0, <2>1, <2>3 DEF ClaimedInv, Claims, Claim, Appends
<1>10. CASE Exit \/ Crash \/ UndoFails \/ RollbackFails
  <2>1. UNCHANGED <<journal, earned>> /\ phase' = "idle"
    BY <1>10 DEF Exit, Crash, UndoFails, RollbackFails, Forget
  <2>2. Claims(journal') \subseteq earned'
    BY <1>0, <2>1
  <2> QED  BY <1>0, <2>1, <2>2 DEF ClaimedInv, Claims, Claim, Appends
<1>11. CASE ApplyFails \/ ApplyUnparseable \/ RetireFails \/ RetireUnparseable \/ SaveFails
  <2>1. /\ UNCHANGED <<journal, steps>> /\ phase' \in {"undone", "rolledback"}
        /\ earned' = earned \/ earned' = Settled(earned)
    BY <1>11 DEF ApplyFails, ApplyUnparseable, RetireFails, RetireUnparseable, SaveFails, Abandon
  <2> QED  BY <1>0, <2>1, ClaimedKept
<1>12. ~ UserEditsInWindow /\ ~ \E s \in todo : ApplyFailsLate(s)
  BY DEF Undisturbed, UserEditsInWindow, ApplyFailsLate
<1> QED
  BY <1>1, <1>2, <1>3, <1>4, <1>5, <1>7, <1>8, <1>9, <1>10, <1>11, <1>12
     DEF Next, Darq, User, Starts, Applies, Retires, Breaks

(* Additive (planner.py:12): no step of a run, its rollbacks included,      *)
(* removes or changes anything at an address darq did not itself fill. For  *)
(* any releases, edits and failures, as long as nobody edits the home       *)
(* between plan and apply and nobody adds by hand an item darq changes.     *)
THEOREM UsersKeepTheirs ==
  ASSUME Undisturbed, NotByHand
  PROVE  Spec => UsersContentKept
<1>1. ASSUME ClaimedInv, Darq, NEW c \in AllClaims \ earned, Present(home, c)
      PROVE  Present(home', c) /\ Inside(home', c) = Inside(home, c)
  <2>1. PICK H : H = home'
    OBVIOUS
  <2>2. Agree(H, home, c)
    BY <1>1, <2>1, StepAgrees
  <2> QED  BY <1>1, <2>1, <2>2 DEF Agree
<1>2. ClaimedInv /\ [Next]_vars
        => [Darq =>
              \A c \in AllClaims \ earned :
                Present(home, c) => Present(home', c) /\ Inside(home', c) = Inside(home, c)]_vars
  BY <1>1
<1> QED  BY <1>2, ClaimedInit, ClaimedNext, PTL DEF Spec, UsersContentKept

(* The journal claims only what darq put there also where the value of an   *)
(* item changes under its id (JournalHonest asks that it does not), if      *)
(* nobody adds such a value by hand nor edits between plan and apply.       *)
THEOREM HonestWhereItemsChange ==
  ASSUME Undisturbed, NotByHand
  PROVE  Spec => []JournalClaimsOnlyEarned
<1>1. ClaimedInv => JournalClaimsOnlyEarned
  BY DEF ClaimedInv, JournalClaimsOnlyEarned
<1> QED  BY <1>1, ClaimedInit, ClaimedNext, PTL DEF Spec

-----------------------------------------------------------------------------
(* Nothing is left behind.                                                 *)

(* An artifact stays where it is for as long as it keeps its id. Without    *)
(* this the old place is neither retired nor recorded (planner.py:405).     *)
StableAddresses == \A a, e \in Rendered : a.id = e.id => SameSlot(a, e)

(* No item that is there and recorded has the value another such item takes *)
(* in some release: that one would be found already right, and the value it *)
(* has now would be in no record.                                          *)
Apart(h) ==
  \A x, y \in journal : \A r \in Rendered :
    x # y /\ r.id = x.id /\ Claim(r) = Claim(y)
      => ~ Present(h, Claim(x)) \/ ~ Present(h, Claim(y))
Working == phase \in {"planned", "apply", "retire"}
ApartInv == clean => IF Working THEN Apart(before) ELSE Apart(home)

(* While every run undid itself, what darq earned the journal claims, or    *)
(* the run under way is about to record.                                   *)
OwnedInv ==
  /\ ClaimedInv /\ ApartInv
  /\ clean => /\ phase \in {"idle", "undone", "rolledback"} => earned \subseteq Claims(journal)
              /\ phase \in {"planned", "apply", "retire"}
                   => earned \subseteq Claims(journal) \cup Claims(records)

(* Where a plan writes there was nothing, or something the journal claims.  *)
LEMMA WrittenWasClaimed ==
  ASSUME TypeOK, PlanSound, NEW s \in Placements, Present(before, Claim(s.art))
  PROVE  Claim(s.art) \in Claims(journal) /\ s.action = "update"
<1>1. s.action = "update"
  BY PlacedAt DEF StepFits, Placements
<1>2. s.entry \in journal /\ SameSlot(s.entry, s.art) /\ ~ Appends(s.art)
  BY <1>1, PlacedAt DEF StepFits
<1>3. Claim(s.entry) = Claim(s.art)
  BY <1>2 DEF SameSlot, Claim, Appends
<1> QED  BY <1>1, <1>2, <1>3 DEF Claims

(* What a rollback leaves of what was recorded, the journal claims.         *)
LEMMA LeftIsClaimed ==
  ASSUME TypeOK, PlanSound, Retiring, NEW c \in Claims(records), c \in AllClaims,
         Present(Unplaced, c)
  PROVE  c \in Claims(journal)
<1>1. PICK s \in Placements : Claim(s.art) = c
  BY DEF Claims, Retiring
<1>2. c.path \in Replaced
  BY UnplacedAt
<1>3. Unplaced[c.path] = before[c.path]
  BY <1>2, UnplacedAt
<1>4. Present(before, c)
  BY <1>3 DEF Present
<1> QED  BY <1>1, <1>4, WrittenWasClaimed

(* Only items are in question, and only items whose value changes.          *)
LEMMA ApartAreItems ==
  ASSUME StableAddresses, NEW x \in Rendered, NEW y \in Rendered, NEW r \in Rendered,
         r.id = x.id, Claim(r) = Claim(y), Claim(x) # Claim(y)
  PROVE  /\ Appends(x) /\ Appends(y) /\ Appends(r)
         /\ Changes(x) /\ Changes(r) /\ y.val = r.val
<1>1. SameSlot(r, x)
  BY DEF StableAddresses
<1>2. Appends(x) /\ Appends(r) /\ x.val # r.val
  BY <1>1 DEF SameSlot, Claim, Appends
<1>3. Appends(y) /\ y.val = r.val
  BY <1>2 DEF Claim, Appends
<1> QED  BY <1>2, <1>3 DEF Changes

(* What the user adds by hand brings none of them in.                       *)
LEMMA ApartIn ==
  ASSUME StableAddresses, NotByHand, OneRecordEach, journal \subseteq Rendered,
         NEW g, NEW h, Apart(g),
         \A c \in AllClaims :
           c.pointer \in Lists /\ c.item \notin HandItems /\ Present(h, c) => Present(g, c)
  PROVE  Apart(h)
<1> SUFFICES ASSUME NEW x \in journal, NEW y \in journal, NEW r \in Rendered,
                    x # y, r.id = x.id, Claim(r) = Claim(y),
                    Present(h, Claim(x)), Present(h, Claim(y))
             PROVE  FALSE
  BY DEF Apart
<1>1. Claim(x) # Claim(y)
  BY DEF OneRecordEach
<1>2. /\ Appends(x) /\ Appends(y) /\ x.val \notin HandItems /\ y.val \notin HandItems
  BY <1>1, ApartAreItems DEF NotByHand
<1>3. Claim(x) \in AllClaims /\ Claim(y) \in AllClaims
  BY RenderedAreArtifacts, ClaimTypes
<1>4. /\ Claim(x).pointer \in Lists /\ Claim(x).item \notin HandItems
      /\ Claim(y).pointer \in Lists /\ Claim(y).item \notin HandItems
  BY <1>2 DEF Claim, Appends
<1>5. Present(g, Claim(x)) /\ Present(g, Claim(y))
  BY <1>3, <1>4
<1> QED  BY <1>5 DEF Apart

(* A run that retires or rolls back leaves nothing that it did not place     *)
(* and that was not there.                                                 *)
LEMMA RestWasThere ==
  ASSUME TypeOK, PlanSound, Retiring, NEW c \in AllClaims, c \notin Claims(records),
         Present(home, c)
  PROVE  Present(before, c)
<1>1. /\ PlacedHome \in Homes /\ asked \ retiring \subseteq Artifact
      /\ home = TakenOut(PlacedHome, asked \ retiring) /\ records = {s.art : s \in Placements}
  BY PlacedHomeType DEF TypeOK, Retiring
<1>2. Agree(home, PlacedHome, c)
  BY <1>1, TakenOutAgrees
<1>3. c \notin PlacedClaims /\ Present(PlacedHome, c)
  BY <1>1, <1>2 DEF PlacedClaims, Claims, Agree
<1> QED  BY <1>3, PlacedAgrees DEF Agree

LEMMA LeftWasThere ==
  ASSUME TypeOK, PlanSound, Retiring, NEW c \in AllClaims, Present(Unplaced, c)
  PROVE  Present(before, c)
<1>1. CASE c.path \in Replaced
  <2>1. Unplaced[c.path] = before[c.path]
    BY <1>1, UnplacedAt
  <2> QED  BY <2>1 DEF Present
<1>2. CASE c.path \notin Replaced
  <2>1. c \notin Claims(records) /\ Agree(Unplaced, home, c)
    BY <1>2, UnplacedAt
  <2> QED  BY <2>1, RestWasThere DEF Agree
<1> QED  BY <1>1, <1>2

(* An item the journal records after a run, and that is there, is one of    *)
(* those the run was about.                                                *)
LEMMA SavedFromPlan ==
  ASSUME StableAddresses, RecordInv, phase = "retire", op = "install", retiring = {},
         NEW z \in Merged, Appends(z), Present(home, Claim(z))
  PROVE  \E s \in steps : z.id = s.art.id /\ Claim(z) = Claim(s.art)
<1> DEFINE now == records \cup Reconciled
<1>1. /\ TypeOK /\ PlanSound /\ PlanRecords /\ OneRecordEach /\ journal \subseteq Rendered
      /\ records = {s.art : s \in Placements} /\ asked \subseteq journal
      /\ home = TakenOut(PlacedHome, asked) /\ PlacedHome \in Homes
  BY PlacedHomeType DEF RecordInv, RunInv, TypeInv, TypeOK, Retiring
<1>2. CASE z \in now
  BY <1>1, <1>2 DEF Reconciled, Placements
<1>3. CASE z \notin now
  <2>1. /\ z \in journal /\ \A r \in now : z.id # r.id
        /\ \A r \in now : z.kind = r.kind => Claim(z) # Claim(r)
    BY <1>3 DEF Merged
  <2>2. z \in Artifact /\ Claim(z) \in AllClaims /\ asked \subseteq Artifact
    BY <1>1, <2>1, RenderedAreArtifacts, ClaimTypes
  <2>3. Claim(z) \notin Claims(asked)
    BY <1>1, <2>2, TakenOutAgrees
  <2>4. PICK s \in steps : z.id = s.art.id \/ Claim(z) = Claim(s.art)
    BY <1>1, <2>1, <2>3 DEF PlanRecords, Claims
  <2>5. s.art \in Rendered /\ s.art \in Artifact /\ z \in Rendered
    BY <1>1, <2>1, RenderedAreArtifacts DEF PlanRecords, Rendered
  <2>6. SameSlot(z, s.art)
    <3>1. CASE z.id = s.art.id
      BY <2>5, <3>1 DEF StableAddresses
    <3>2. CASE Claim(z) = Claim(s.art)
      <4>1. z.path = s.art.path /\ z.pointer = s.art.pointer
        BY <3>2 DEF Claim
      <4>2. z.kind = s.art.kind
        BY <2>2, <2>5, <4>1, ArtifactTypes, Disjoint
      <4> QED  BY <4>1, <4>2 DEF SameSlot
    <3> QED  BY <2>4, <3>1, <3>2
  <2>7. Appends(s.art) /\ s.art \notin now
    BY <2>1, <2>4, <2>6 DEF SameSlot, Appends
  <2>8. s.action \in {"unchanged", "skip"}
    <3>1. s.action \in {"create", "update", "unchanged", "skip"}
      BY <1>1 DEF TypeOK, PlanStep
    <3>2. s \notin Placements
      BY <1>1, <2>7
    <3> QED  BY <3>1, <3>2 DEF Placements
  <2>9. CASE s.action = "unchanged"
    <3>1. s.entry \in journal /\ SameSlot(s.entry, s.art)
      BY <1>1, <2>9 DEF PlanSound, StepFits
    <3>2. s.entry.id = s.art.id /\ s.entry.val = s.art.val
      BY <2>7, <2>9 DEF Reconciled
    <3>3. Claim(s.entry) = Claim(s.art)
      BY <3>1, <3>2 DEF SameSlot, Claim, Appends
    <3>4. z = s.entry
      BY <1>1, <2>1, <2>4, <3>1, <3>2, <3>3 DEF OneRecordEach
    <3> QED  BY <3>2, <3>3, <3>4
  <2>10. CASE s.action = "skip"
    <3>1. PICK e \in journal : e.id = s.art.id /\ ~ SameSlot(e, s.art)
      BY <1>1, <2>1, <2>4, <2>7, <2>10 DEF PlanRecords, Unanswered
    <3> QED  BY <1>1, <2>5, <3>1 DEF StableAddresses
  <2> QED  BY <2>8, <2>9, <2>10
<1> QED  BY <1>2, <1>3

LEMMA SavedApart ==
  ASSUME StableAddresses, KeptApart, RecordInv, phase = "retire", op = "install", retiring = {},
         NEW x \in Merged, NEW y \in Merged, NEW r \in Rendered,
         x # y, r.id = x.id, Claim(r) = Claim(y),
         Present(home, Claim(x)), Present(home, Claim(y))
  PROVE  FALSE
<1>1. /\ Merged \subseteq Rendered
      /\ \A e, f \in Merged : e.id = f.id \/ Claim(e) = Claim(f) => e = f
  BY MergedIsUnique
<1>2. Appends(x) /\ Appends(y) /\ Appends(r)
  BY <1>1, ApartAreItems
<1>3. PICK s \in steps : x.id = s.art.id /\ Claim(x) = Claim(s.art)
  BY <1>2, SavedFromPlan
<1>4. PICK t \in steps : y.id = t.art.id /\ Claim(y) = Claim(t.art)
  BY <1>2, SavedFromPlan
<1>5. s.art # t.art
  BY <1>1, <1>3, <1>4
<1>6. PICK A \in Releases : s.art \in A /\ t.art \in A
  BY DEF RecordInv, PlanRecords
<1> QED  BY <1>2, <1>3, <1>4, <1>5, <1>6 DEF KeptApart

(* Undisturbed, apply never meets a document it cannot parse.               *)
LEMMA StillParses ==
  ASSUME TypeOK, UndoInv
  PROVE  ~ ApplyUnparseable
<1> SUFFICES ASSUME ApplyUnparseable PROVE FALSE
  OBVIOUS
<1> USE DEF plan, undo, ghosts, bounds
<1>1. PICK s \in todo : home[s.art.path] = Garbage /\ s.art.kind # "file"
  BY DEF ApplyUnparseable, Parses, FilesDone
<1>2. phase = "apply" /\ s \in Placements
  BY DEF ApplyUnparseable, TypeOK
<1>3. home[s.art.path] = before[s.art.path] /\ before[s.art.path] # Garbage
  BY <1>1, <1>2 DEF UndoInv, PlanFits
<1> QED  BY <1>1, <1>3

LEMMA ApartInit == Init => ApartInv
  BY DEF Init, ApartInv, Apart, Working

LEMMA ApartNext ==
  ASSUME Undisturbed, StableAddresses, NotByHand, KeptApart, ClaimedInv, ApartInv, [Next]_vars
  PROVE  ApartInv'
<1> USE DEF plan, undo, ghosts, bounds
<1>0. /\ RecordInv /\ RunInv /\ UndoInv /\ TypeOK /\ OneRecordEach /\ journal \subseteq Rendered
      /\ home \in Homes
  BY DEF ClaimedInv, RecordInv, RunInv, TypeInv, TypeOK
<1>1. PICK H : H = home'
  OBVIOUS
<1>2. ASSUME UNCHANGED <<journal, clean>>, Working',
             Working => before' = before, ~ Working => before' = home
      PROVE  ApartInv'
  BY <1>2 DEF ApartInv, Apart, Claim, Appends, Present, Parsed
<1>3. ASSUME UNCHANGED <<journal, clean>>, ~ Working', clean => Apart(H)
      PROVE  ApartInv'
  BY <1>1, <1>3 DEF ApartInv, Apart, Claim, Appends, Present, Parsed
<1>4. CASE UNCHANGED vars
  BY <1>4 DEF vars, ApartInv, Apart, Working, Claim, Appends, Present, Parsed
<1>5. CASE Starts
  BY <1>2, <1>5 DEF Starts, Plan, Uninstall, Working
<1>6. CASE Applies \/ Retires
  <2>1. UNCHANGED <<journal, clean>> /\ before' = before /\ Working /\ Working'
    <3>1. CASE StartApply \/ StartRetire
      BY <3>1 DEF StartApply, StartRetire, Working
    <3>2. CASE (\E s \in todo : ApplyFile(s)) \/ (\E d \in Docs : ApplyDoc(d))
      BY <3>2 DEF ApplyFile, FileStep, ApplyDoc, Working
    <3>3. CASE (\E d \in Docs : RetireDoc(d)) \/ (\E r \in retiring : RetireFile(r))
      BY <3>3 DEF RetireDoc, RetireFile, Working
    <3> QED  BY <1>6, <3>1, <3>2, <3>3 DEF Applies, Retires
  <2> QED  BY <1>2, <2>1
<1>7. CASE UserEdits
  <2>1. /\ UNCHANGED <<journal, clean>> /\ ~ Working /\ ~ Working'
    BY <1>7 DEF UserEdits, Working
  <2>2. \A c \in AllClaims : c.pointer \in Lists /\ c.item \notin HandItems /\ Present(H, c)
          => Present(home, c)
    BY <1>0, <1>1, <1>7, EditAdds DEF UserEdits
  <2>3. clean => Apart(H)
    BY <1>0, <2>1, <2>2, ApartIn DEF ApartInv
  <2> QED  BY <1>3, <2>1, <2>3
<1>8. CASE ApplyFails
  <2>1. /\ UNCHANGED <<journal, clean>> /\ ~ Working' /\ Working /\ H = before
    BY <1>0, <1>1, <1>8 DEF ApplyFails, UndoInv, Working
  <2> QED  BY <1>3, <2>1 DEF ApartInv
<1>9. CASE RetireFails \/ RetireUnparseable \/ SaveFails
  <2>1. /\ UNCHANGED <<journal, clean>> /\ ~ Working' /\ Working
        /\ phase = "retire" /\ H = IF op = "install" THEN Unplaced ELSE home
    BY <1>1, <1>9 DEF RetireFails, RetireUnparseable, SaveFails, Abandon, Working
  <2>2. PlanSound /\ Retiring
    BY <1>0, <2>1 DEF RunInv
  <2>3. \A c \in AllClaims : Present(H, c) => Present(before, c)
    <3>1. CASE op = "install"
      BY <1>0, <2>1, <2>2, <3>1, LeftWasThere
    <3>2. CASE op # "install"
      <4>1. records = {}
        BY <1>0, <2>1, <2>2, <3>2 DEF RecordInv, Retiring, Placements
      <4> QED  BY <1>0, <2>1, <2>2, <3>2, <4>1, RestWasThere DEF Claims
    <3> QED  BY <3>1, <3>2
  <2>4. clean => Apart(H)
    BY <1>0, <2>1, <2>3, ApartIn DEF ApartInv
  <2> QED  BY <1>3, <2>1, <2>4
<1>10. CASE Save
  <2>1. /\ phase = "retire" /\ retiring = {} /\ H = home /\ ~ Working'
        /\ journal' = IF op = "install" THEN Merged ELSE {}
    BY <1>1, <1>10 DEF Save, Forget, Working
  <2>2. PICK M : M = journal'
    OBVIOUS
  <2>3. \A x, y \in M : \A r \in Rendered :
          x # y /\ r.id = x.id /\ Claim(r) = Claim(y)
            => ~ Present(H, Claim(x)) \/ ~ Present(H, Claim(y))
    BY <1>0, <2>1, <2>2, SavedApart
  <2> QED  BY <1>1, <2>1, <2>2, <2>3 DEF ApartInv, Apart, Claim, Appends, Present, Parsed
<1>11. CASE Exit
  <2>1. UNCHANGED <<journal, clean>> /\ ~ Working /\ ~ Working' /\ H = home
    BY <1>1, <1>11 DEF Exit, Forget, Working
  <2> QED  BY <1>3, <2>1 DEF ApartInv
<1>12. CASE Crash \/ UndoFails \/ RollbackFails
  BY <1>12 DEF Crash, UndoFails, RollbackFails, ApartInv
<1>13. ~ ApplyUnparseable /\ ~ UserEditsInWindow /\ ~ \E s \in todo : ApplyFailsLate(s)
  BY <1>0, StillParses DEF Undisturbed, UserEditsInWindow, ApplyFailsLate
<1> QED
  BY <1>4, <1>5, <1>6, <1>7, <1>8, <1>9, <1>10, <1>11, <1>12, <1>13
     DEF Next, Darq, User, Breaks

(* When a run ends well, what it does not carry over in the journal is not  *)
(* there any more.                                                         *)
LEMMA DroppedIsGone ==
  ASSUME StableAddresses, NotByHand, ClaimedInv, Apart(before), phase = "retire",
         op = "install", retiring = {}, earned \subseteq Claims(journal) \cup Claims(records),
         NEW c \in AllClaims, c \in earned, Present(home, c)
  PROVE  c \in Claims(Merged)
<1> DEFINE now == records \cup Reconciled
<1>1. /\ TypeOK /\ PlanSound /\ PlanRecords /\ RunInv /\ OneRecordEach
      /\ journal \subseteq Rendered /\ OnlyOurs(before)
      /\ records = {s.art : s \in Placements} /\ gone \subseteq asked /\ asked \subseteq journal
      /\ home = TakenOut(PlacedHome, asked \ retiring) /\ PlacedHome \in Homes
  BY PlacedHomeType DEF ClaimedInv, RecordInv, RunInv, TypeInv, TypeOK, Retiring
<1>2. asked \ retiring = asked /\ asked \subseteq Artifact
  BY <1>1 DEF TypeOK
<1>3. c \notin Claims(asked) /\ Agree(home, PlacedHome, c)
  BY <1>1, <1>2, TakenOutAgrees
<1>4. now \subseteq Merged
  BY DEF Merged
<1>5. SUFFICES ASSUME c \notin Claims(now) PROVE c \in Claims(Merged)
  BY <1>4 DEF Claims
<1>6. c \notin PlacedClaims /\ c \notin ReplacedClaims /\ Agree(PlacedHome, before, c)
  <2>1. c \notin PlacedClaims
    BY <1>1, <1>5 DEF PlacedClaims, Claims
  <2>2. Present(PlacedHome, c)
    BY <1>3 DEF Agree
  <2> QED  BY <1>1, <2>1, <2>2, PlacedAgrees
<1>7. Present(before, c)
  BY <1>3, <1>6 DEF Agree
<1>8. PICK e \in journal : Claim(e) = c
  BY <1>5 DEF Claims
<1>9. SUFFICES ASSUME e \notin Merged PROVE FALSE
  BY <1>8 DEF Claims
<1>10. \A r \in now : Claim(r) # Claim(e)
  BY <1>5, <1>8 DEF Claims
<1>11. \A r \in gone : e.id # r.id
  <2> SUFFICES ASSUME NEW r \in gone, e.id = r.id PROVE FALSE
    OBVIOUS
  <2>1. e = r /\ r \in asked
    BY <1>1 DEF OneRecordEach
  <2> QED  BY <1>3, <1>8, <2>1 DEF Claims
<1>12. PICK r \in now : e.id = r.id
  BY <1>9, <1>10, <1>11 DEF Merged
<1>13. PICK s \in steps : r = s.art /\ (s \in Placements \/ s.action = "unchanged")
  BY <1>1, <1>12 DEF Reconciled, Placements
<1>14. r \in Rendered /\ e \in Rendered /\ r \in Artifact /\ e \in Artifact
  BY <1>1, <1>13, RenderedAreArtifacts DEF PlanRecords, Rendered
<1>15. SameSlot(e, r)
  BY <1>12, <1>14 DEF StableAddresses
<1>16. s.entry = e
  BY <1>1, <1>12, <1>13, <1>15 DEF PlanRecords
<1>17. Appends(e) /\ Appends(r) /\ e.val # r.val
  BY <1>10, <1>12, <1>15 DEF SameSlot, Claim, Appends
<1>18. CASE s \in Placements /\ s.action = "update"
  BY <1>6, <1>8, <1>16, <1>18 DEF ReplacedClaims, Claims
<1>19. CASE s \in Placements /\ s.action # "update"
  <2>1. s.action = "create" /\ StepFits(s)
    BY <1>1, <1>19, PlacedAt DEF Placements
  <2>2. e # NoEntry
    BY <1>14, Disjoint
  <2>3. ~ Present(before, Claim(e))
    BY <1>13, <1>15, <1>16, <2>1, <2>2 DEF StepFits
  <2> QED  BY <1>7, <1>8, <2>3
<1>20. CASE s.action = "unchanged"
  <2>1. Changes(r) /\ r.val \notin HandItems
    BY <1>12, <1>14, <1>17 DEF Changes, NotByHand
  <2>2. Holds(before, r)
    BY <1>1, <1>13, <1>20 DEF PlanSound, StepFits
  <2>3. Present(before, Claim(r)) /\ Claim(r) \in AllClaims
    BY <1>14, <2>2, HoldsIs, ClaimTypes
  <2>4. Claim(r).pointer \in Lists /\ Claim(r).item = r.val
    BY <1>17 DEF Claim, Appends
  <2>5. Claim(r) \in earned
    BY <1>1, <2>1, <2>3, <2>4 DEF OnlyOurs
  <2>6. Claim(r) \notin Claims(records)
    <3>1. ASSUME NEW t \in Placements, Claim(t.art) = Claim(r) PROVE FALSE
      <4>1. t \in steps /\ t.action # "unchanged"
        BY DEF Placements
      <4> QED  BY <1>1, <1>13, <1>20, <3>1, <4>1 DEF PlanSound
    <3> QED  BY <1>1, <3>1 DEF Claims
  <2>7. PICK f \in journal : Claim(f) = Claim(r)
    BY <2>5, <2>6 DEF Claims
  <2>8. f # e
    BY <1>10, <1>12, <2>7
  <2> QED  BY <1>7, <1>8, <1>12, <1>14, <2>3, <2>7, <2>8 DEF Apart
<1> QED  BY <1>13, <1>18, <1>19, <1>20

LEMMA OwnedInit == Init => OwnedInv
  BY ClaimedInit, ApartInit DEF Init, OwnedInv

LEMMA OwnedNext ==
  ASSUME Undisturbed, StableAddresses, NotByHand, KeptApart, OwnedInv, [Next]_vars
  PROVE  OwnedInv'
<1> USE DEF plan, undo, ghosts, bounds
<1>0. /\ ClaimedInv /\ ClaimedInv' /\ ApartInv' /\ RecordInv /\ RunInv /\ UndoInv /\ TypeOK
      /\ earned \subseteq AllClaims
  BY ClaimedNext, ApartNext DEF OwnedInv, ClaimedInv, RecordInv, RunInv, TypeInv, TypeOK
<1>1. CASE UNCHANGED vars
  BY <1>0, <1>1 DEF vars, OwnedInv, Claims, Claim, Appends
<1>2. ASSUME UNCHANGED <<journal, records, earned, clean>>,
             \/ phase' = phase
             \/ phase = "idle" /\ phase' \in {"planned", "retire"}
             \/ phase = "planned" /\ phase' = "apply"
             \/ phase = "apply" /\ phase' = "retire"
      PROVE  OwnedInv'
  BY <1>0, <1>2 DEF OwnedInv, Claims, Claim, Appends
<1>3. ASSUME UNCHANGED <<journal, clean>>, earned' = Settled(earned),
             phase' \in {"idle", "undone", "rolledback"},
             clean => \A c \in earned : Present(home', c) => c \in Claims(journal)
      PROVE  OwnedInv'
  <2>1. clean => earned' \subseteq Claims(journal')
    BY <1>3 DEF Settled, Claims
  <2> QED  BY <1>0, <1>3, <2>1 DEF OwnedInv, Claims, Claim, Appends
<1>4. CASE UserEdits
  <2>1. phase = "idle" /\ phase' = "idle" /\ UNCHANGED <<journal, clean>> /\ earned' = Settled(earned)
    BY <1>4 DEF UserEdits
  <2> QED  BY <1>3, <2>1 DEF OwnedInv
<1>5. CASE Starts \/ StartApply \/ StartRetire \/ (\E d \in Docs : RetireDoc(d))
           \/ (\E r \in retiring : RetireFile(r))
  BY <1>2, <1>5 DEF Starts, Plan, Uninstall, StartApply, StartRetire, RetireDoc, RetireFile
<1>6. ASSUME NEW S, Took(S), phase = "apply", phase' = "apply", UNCHANGED <<journal, clean>>
      PROVE  OwnedInv'
  <2>1. /\ earned' = earned \cup Claims({s.art : s \in S})
        /\ records' = records \cup {s.art : s \in S}
    BY <1>6 DEF Took
  <2>2. Claims(records') = Claims(records) \cup Claims({s.art : s \in S})
    BY <2>1 DEF Claims
  <2>3. clean => earned' \subseteq Claims(journal') \cup Claims(records')
    BY <1>6, <2>1, <2>2 DEF OwnedInv
  <2> QED  BY <1>0, <1>6, <2>3 DEF OwnedInv, Claims, Claim, Appends
<1>7. CASE (\E s \in todo : ApplyFile(s)) \/ (\E d \in Docs : ApplyDoc(d))
  <2>1. ASSUME NEW s \in todo, ApplyFile(s) PROVE OwnedInv'
    BY <1>6, <2>1 DEF ApplyFile, FileStep
  <2>2. ASSUME NEW d \in Docs, ApplyDoc(d) PROVE OwnedInv'
    <3> DEFINE S == {s \in todo : s.art.path = d}
    <3>1. Took(S) /\ phase = "apply" /\ phase' = "apply" /\ UNCHANGED <<journal, clean>>
      BY <2>2 DEF ApplyDoc
    <3> HIDE DEF S
    <3> QED  BY <1>6, <3>1
  <2> QED  BY <1>7, <2>1, <2>2
<1>8. CASE ApplyFails
  <2>1. /\ UNCHANGED <<journal, clean>> /\ earned' = Settled(earned) /\ phase' = "undone"
        /\ phase = "apply" /\ home' = before
    BY <1>0, <1>8 DEF ApplyFails, UndoInv
  <2>2. PlanSound /\ records = {s.art : s \in Placements \ todo}
    BY <1>0, <2>1 DEF RunInv, Applying
  <2>3. \A c \in Claims(records) : Present(before, c) => c \in Claims(journal)
    <3> SUFFICES ASSUME NEW c \in Claims(records), Present(before, c) PROVE c \in Claims(journal)
      OBVIOUS
    <3>1. PICK s \in Placements : Claim(s.art) = c
      BY <2>2 DEF Claims
    <3> QED  BY <1>0, <2>2, <3>1, WrittenWasClaimed
  <2>4. clean => earned \subseteq Claims(journal) \cup Claims(records)
    BY <2>1 DEF OwnedInv
  <2> QED  BY <1>3, <2>1, <2>3, <2>4
<1>9. CASE ApplyUnparseable
  BY <1>0, <1>9, StillParses
<1>10. CASE RetireFails \/ RetireUnparseable \/ SaveFails
  <2>1. /\ UNCHANGED <<journal, clean>> /\ earned' = Settled(earned) /\ phase' = "rolledback"
        /\ phase = "retire" /\ home' = IF op = "install" THEN Unplaced ELSE home
    BY <1>10 DEF RetireFails, RetireUnparseable, SaveFails, Abandon
  <2>2. PlanSound /\ Retiring /\ (clean => earned \subseteq Claims(journal) \cup Claims(records))
    BY <1>0, <2>1 DEF RunInv, OwnedInv
  <2>3. CASE op = "install"
    <3>1. PICK U : U = Unplaced
      OBVIOUS
    <3>2. \A c \in earned : Present(U, c) /\ c \in Claims(records) => c \in Claims(journal)
      BY <1>0, <2>2, <3>1, LeftIsClaimed
    <3>3. home' = U
      BY <2>1, <2>3, <3>1
    <3> QED  BY <1>3, <2>1, <2>2, <3>2, <3>3
  <2>4. CASE op # "install"
    <3>1. records = {}
      BY <1>0, <2>1, <2>2, <2>4 DEF RecordInv, Retiring, Placements
    <3> QED  BY <1>3, <2>1, <2>2, <3>1 DEF Claims
  <2> QED  BY <2>3, <2>4
<1>11. CASE Save
  <2>1. /\ phase = "retire" /\ retiring = {} /\ phase' = "idle" /\ home' = home
        /\ earned' = Settled(earned) /\ clean' = clean
        /\ journal' = IF op = "install" THEN Merged ELSE {}
    BY <1>11 DEF Save, Forget
  <2>2. PICK J : J = journal'
    OBVIOUS
  <2>3. clean => \A c \in earned : Present(home, c) => c \in Claims(J)
    <3> SUFFICES ASSUME clean, NEW c \in earned, Present(home, c) PROVE c \in Claims(J)
      OBVIOUS
    <3>1. earned \subseteq Claims(journal) \cup Claims(records) /\ c \in AllClaims
      BY <1>0, <2>1 DEF OwnedInv
    <3>2. CASE op = "install"
      <4>1. Apart(before)
        BY <2>1 DEF OwnedInv, ApartInv, Working
      <4> QED  BY <1>0, <2>1, <2>2, <3>1, <3>2, <4>1, DroppedIsGone
    <3>3. CASE op # "install"
      <4>1. /\ steps = {} /\ asked = journal /\ Retiring /\ PlanSound
        BY <1>0, <2>1, <3>3 DEF RecordInv, RunInv
      <4>2. records = {} /\ asked \ retiring = journal
        BY <2>1, <4>1 DEF Retiring, Placements
      <4>3. c \in Claims(journal)
        BY <3>1, <4>2 DEF Claims
      <4>4. PlacedHome \in Homes /\ journal \subseteq Artifact
        BY <1>0, <4>1, PlacedHomeType DEF TypeOK
      <4>5. ~ Present(home, c)
        BY <3>1, <4>1, <4>2, <4>3, <4>4, TakenOutAgrees DEF Retiring
      <4> QED  BY <4>5
    <3> QED  BY <3>2, <3>3
  <2>4. Settled(earned) = {c \in earned : Present(home, c) \/ c \in Claims(J)}
    BY <2>1, <2>2 DEF Settled
  <2>5. clean => earned' \subseteq Claims(J)
    BY <2>1, <2>3, <2>4
  <2>6. clean' => earned' \subseteq Claims(journal')
    BY <2>1, <2>2, <2>5
  <2> QED  BY <1>0, <2>1, <2>6 DEF OwnedInv, Claims, Claim, Appends
<1>12. CASE Exit
  <2>1. /\ phase \in {"undone", "rolledback"} /\ phase' = "idle"
        /\ UNCHANGED <<journal, earned, clean>>
    BY <1>12 DEF Exit, Forget
  <2>2. clean => earned \subseteq Claims(journal)
    BY <2>1 DEF OwnedInv
  <2> QED  BY <1>0, <2>1, <2>2 DEF OwnedInv, Claims, Claim, Appends
<1>13. CASE Crash \/ UndoFails \/ RollbackFails
  <2>1. clean' = FALSE
    BY <1>13 DEF Crash, UndoFails, RollbackFails
  <2> QED  BY <1>0, <2>1 DEF OwnedInv
<1>14. ~ UserEditsInWindow /\ ~ \E s \in todo : ApplyFailsLate(s)
  BY DEF Undisturbed, UserEditsInWindow, ApplyFailsLate
<1> QED
  BY <1>1, <1>4, <1>5, <1>7, <1>8, <1>9, <1>10, <1>11, <1>12, <1>13, <1>14
     DEF Next, Darq, User, Applies, Retires, Breaks

(* Between runs, as long as no run died or failed to undo itself,           *)
(* everything darq put on disk that is still there is claimed by the        *)
(* journal, so that uninstall can take it back: after any number of         *)
(* installs, uninstalls, failures and edits, for releases in which an id    *)
(* keeps its place and no item takes a value another one gives up.          *)
THEOREM NothingOrphaned ==
  ASSUME Undisturbed, StableAddresses, NotByHand, KeptApart
  PROVE  Spec => []NoOrphans
<1>1. OwnedInv => NoOrphans
  BY DEF OwnedInv, NoOrphans
<1> QED  BY <1>1, OwnedInit, OwnedNext, PTL DEF Spec
=============================================================================
