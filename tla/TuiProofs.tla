------------------------------- MODULE TuiProofs -------------------------------
(***************************************************************************)
(* Theorems about Tui, for any CLIs, servers, records and keys, and any     *)
(* number of commands, failures and interrupts: the program waits for its  *)
(* threads, the main menu keeps the answer it was given, a screen made from *)
(* the machine is true of it, and what a screen shows is what is done.     *)
(***************************************************************************)
EXTENDS Tui, TLAPS, SequenceTheorems, WellFoundedInduction

(* While the worker runs the main thread waits for it, in the animation or  *)
(* in the join that a first Ctrl-C leads to; only a second one leaves that. *)
JoinInv ==
  /\ mode \in {"loop", "installing", "joining", "leaving", "exited"}
  /\ interrupts \in Nat
  /\ worker.state = "running" => mode \in {"installing", "joining"} \/ interrupts > 1
  /\ mode = "joining" => interrupts > 0
  /\ mode = "exited" => check = "done" \/ interrupts > 0

LEMMA JoinInit == Init => JoinInv
  BY DEF Init, JoinInv, NoWorker

LEMMA JoinNext == JoinInv /\ [Next]_vars => JoinInv'
<1> SUFFICES ASSUME JoinInv, [Next]_vars PROVE JoinInv'  OBVIOUS
<1>1. ASSUME UNCHANGED <<mode, interrupts, worker, check>> PROVE JoinInv'
  BY <1>1 DEF JoinInv
<1>2. CASE UNCHANGED vars
  BY <1>1, <1>2 DEF vars
<1>3. CASE NoKey \/ \E key \in Keys : Key(key)
  BY <1>1, <1>3 DEF NoKey, Key
<1>4. CASE CheckAnswers
  BY <1>4 DEF CheckAnswers, JoinInv
<1>5. CASE StartInstall
  BY <1>5 DEF StartInstall, Waiting, JoinInv
<1>6. CASE WorkerEnds \/ WorkerBreaks
  <2>1. worker'.state = "ended" /\ UNCHANGED <<mode, check, interrupts>>
    BY <1>6 DEF WorkerEnds, WorkerBreaks
  <2> QED  BY <2>1 DEF JoinInv
<1>7. CASE FinishInstall \/ JoinsWorker
  <2>1. /\ worker'.state = "none" /\ mode' \in {"loop", "leaving"}
        /\ UNCHANGED interrupts
    BY <1>7 DEF FinishInstall, JoinsWorker, NoWorker
  <2> QED  BY <2>1 DEF JoinInv
<1>8. CASE Interrupt
  <2>1. /\ interrupts' = interrupts + 1 /\ mode' = Interrupted /\ mode # "exited"
        /\ UNCHANGED <<worker, check>>
    BY <1>8 DEF Interrupt
  <2>2. CASE mode = "installing"
    BY <2>1, <2>2 DEF Interrupted, JoinInv
  <2>3. CASE mode = "loop"
    BY <2>1, <2>3 DEF Interrupted, JoinInv
  <2>4. CASE mode = "joining"
    BY <2>1, <2>4 DEF Interrupted, JoinInv
  <2>5. CASE mode = "leaving"
    BY <2>1, <2>5 DEF Interrupted, JoinInv
  <2> QED  BY <2>1, <2>2, <2>3, <2>4, <2>5 DEF JoinInv
<1>9. CASE LeaveLoop
  BY <1>9 DEF LeaveLoop, JoinInv
<1>10. CASE Exit
  BY <1>10 DEF Exit, CheckJoined, JoinInv
<1> QED
  BY <1>2, <1>3, <1>4, <1>5, <1>6, <1>7, <1>8, <1>9, <1>10 DEF Next

(* The program never ends while an install is at work, unless Ctrl-C was    *)
(* pressed twice, and without Ctrl-C it waits for the update check too      *)
(* (the two finally clauses of _run_install and run, app.py).              *)
THEOREM NothingAbandoned == Spec => []WorkerJoined
<1>1. JoinInv => WorkerJoined
  BY DEF JoinInv, WorkerJoined
<1> QED  BY <1>1, JoinInit, JoinNext, PTL DEF Spec

-----------------------------------------------------------------------------
(* The main menu at the bottom of the stack. Whatever opens, closes or      *)
(* replaces a screen leaves it there; only with_notice changes it, and only *)
(* what stands above it.                                                   *)

IsSeq(s) == \E S : s \in Seq(S)

(* None of its rows closes it.                                             *)
IsMainMenu(screen) ==
  /\ screen = Menu(screen.entries, screen.preface)
  /\ Len(screen.entries) = 8
  /\ \A i \in 1..8 : screen.entries[i].to # "cancel"

OnMain(n) ==
  /\ n = [stack |-> n.stack, cursors |-> n.cursors, quit |-> n.quit]
  /\ IsSeq(n.stack) /\ IsSeq(n.cursors)
  /\ Len(n.stack) > 0 /\ Len(n.cursors) = Len(n.stack)
  /\ IsMainMenu(n.stack[1])
  /\ n.cursors[1] \in 0..7

KeepsMain(n, m) == OnMain(m) /\ m.stack[1] = n.stack[1]

LEMMA AppendIsSeq ==
  ASSUME NEW s, IsSeq(s), NEW e
  PROVE  /\ IsSeq(Append(s, e))
         /\ Len(Append(s, e)) = Len(s) + 1
         /\ Len(s) > 0 => Append(s, e)[1] = s[1]
         /\ Len(s) = 0 => Append(s, e)[1] = e
         /\ Len(s) \in Nat
<1>1. PICK S : s \in Seq(S)
  BY DEF IsSeq
<1>2. s \in Seq(S \cup {e})
  BY <1>1
<1>3. Append(s, e) \in Seq(S \cup {e})
  BY <1>2
<1> QED  BY <1>1, <1>2, <1>3 DEF IsSeq

LEMMA PrefixIsSeq ==
  ASSUME NEW s, IsSeq(s), NEW k \in Nat, k <= Len(s)
  PROVE  /\ IsSeq(SubSeq(s, 1, k))
         /\ Len(SubSeq(s, 1, k)) = k
         /\ k > 0 => SubSeq(s, 1, k)[1] = s[1]
<1>1. PICK S : s \in Seq(S)
  BY DEF IsSeq
<1>2. SubSeq(s, 1, k) \in Seq(S) /\ Len(SubSeq(s, 1, k)) = k
  BY <1>1
<1>3. k > 0 => SubSeq(s, 1, k)[1] = s[1]
  BY <1>1
<1> QED  BY <1>2, <1>3 DEF IsSeq

LEMMA FrontIsSeq ==
  ASSUME NEW s, IsSeq(s), Len(s) > 0
  PROVE  /\ IsSeq(Front(s))
         /\ Len(Front(s)) = Len(s) - 1
         /\ Len(s) > 1 => Front(s)[1] = s[1]
<1> DEFINE k == Len(s) - 1
<1>1. k \in Nat /\ k <= Len(s) /\ (Len(s) > 1 => k > 0)
  BY DEF IsSeq
<1>2. Front(s) = SubSeq(s, 1, k)
  BY DEF Front
<1> HIDE DEF k
<1>3. /\ IsSeq(Front(s)) /\ Len(Front(s)) = k
      /\ k > 0 => Front(s)[1] = s[1]
  BY <1>1, <1>2, PrefixIsSeq
<1> QED  BY <1>1, <1>3 DEF k

(* A navigator is a record of three fields.                                *)
Moves(n, st, cu) == [n EXCEPT !.stack = st, !.cursors = cu]

LEMMA MoveIs ==
  ASSUME NEW n, OnMain(n), NEW st, NEW cu, NEW q
  PROVE  /\ [n EXCEPT !.stack = st] =
              [stack |-> st, cursors |-> n.cursors, quit |-> n.quit]
         /\ [n EXCEPT !.cursors = cu] =
              [stack |-> n.stack, cursors |-> cu, quit |-> n.quit]
         /\ Moves(n, st, cu) =
              [stack |-> st, cursors |-> cu, quit |-> n.quit]
         /\ [n EXCEPT !.quit = q] =
              [stack |-> n.stack, cursors |-> n.cursors, quit |-> q]
<1>1. PICK a, b, c : n = [stack |-> a, cursors |-> b, quit |-> c]
  BY DEF OnMain
<1>2. n.stack = a /\ n.cursors = b /\ n.quit = c
  BY <1>1
<1>5. [n EXCEPT !.stack = st] = [stack |-> st, cursors |-> b, quit |-> c]
  BY <1>1
<1>3. PICK m : m = [n EXCEPT !.stack = st]
  OBVIOUS
<1>9. m = [stack |-> st, cursors |-> b, quit |-> c]
  BY <1>5, <1>3
<1>8. [m EXCEPT !.cursors = cu] = [stack |-> st, cursors |-> cu, quit |-> c]
  BY <1>9
<1>4. Moves(n, st, cu) = [m EXCEPT !.cursors = cu]
  BY <1>3, Zenon DEF Moves
<1>6. [n EXCEPT !.cursors = cu] = [stack |-> a, cursors |-> cu, quit |-> c]
  BY <1>1
<1>7. [n EXCEPT !.quit = q] = [stack |-> a, cursors |-> b, quit |-> q]
  BY <1>1
<1> QED  BY <1>2, <1>4, <1>5, <1>6, <1>7, <1>8

LEMMA StillOnMain ==
  ASSUME NEW n, OnMain(n), NEW st, NEW cu, NEW q,
         IsSeq(st), IsSeq(cu), Len(st) > 0, Len(cu) = Len(st),
         st[1] = n.stack[1], cu[1] \in 0..7
  PROVE  KeepsMain(n, [stack |-> st, cursors |-> cu, quit |-> q])
<1> DEFINE m == [stack |-> st, cursors |-> cu, quit |-> q]
<1>1. m.stack = st /\ m.cursors = cu
      /\ m = [stack |-> m.stack, cursors |-> m.cursors, quit |-> m.quit]
  OBVIOUS
<1> HIDE DEF m
<1>2. KeepsMain(n, m)
  BY <1>1 DEF OnMain, KeepsMain
<1> QED  BY <1>2 DEF m

LEMMA OpenedKeeps ==
  ASSUME NEW n, OnMain(n), NEW screen
  PROVE  KeepsMain(n, Opened(n, screen))
<1>1. Opened(n, screen) = [stack |-> Append(n.stack, screen),
                           cursors |-> Append(n.cursors, 0), quit |-> n.quit]
  <2>1. Opened(n, screen) = Moves(n, Append(n.stack, screen), Append(n.cursors, 0))
    BY DEF Opened, Moves
  <2> QED  BY <2>1, MoveIs
<1>2. /\ IsSeq(Append(n.stack, screen)) /\ IsSeq(Append(n.cursors, 0))
      /\ Len(Append(n.stack, screen)) > 0
      /\ Len(Append(n.cursors, 0)) = Len(Append(n.stack, screen))
      /\ Append(n.stack, screen)[1] = n.stack[1]
      /\ Append(n.cursors, 0)[1] \in 0..7
  BY AppendIsSeq DEF OnMain
<1> QED  BY <1>1, <1>2, StillOnMain

LEMMA PopKeeps ==
  ASSUME NEW n, OnMain(n), Len(n.stack) > 1
  PROVE  KeepsMain(n, Pop(n))
<1>1. Pop(n) = [stack |-> Front(n.stack), cursors |-> Front(n.cursors),
                quit |-> n.quit]
  <2>1. Pop(n) = Moves(n, Front(n.stack), Front(n.cursors))
    BY DEF Pop, Moves
  <2> QED  BY <2>1, MoveIs
<1>2. /\ IsSeq(Front(n.stack)) /\ IsSeq(Front(n.cursors))
      /\ Len(n.stack) \in Nat
      /\ Len(Front(n.stack)) = Len(n.stack) - 1
      /\ Len(Front(n.cursors)) = Len(Front(n.stack))
      /\ Front(n.stack)[1] = n.stack[1]
      /\ Front(n.cursors)[1] = n.cursors[1]
  BY FrontIsSeq, AppendIsSeq DEF OnMain
<1>3. Len(Front(n.stack)) > 0 /\ Front(n.cursors)[1] \in 0..7
  BY <1>2 DEF OnMain
<1> QED  BY <1>1, <1>2, <1>3, StillOnMain

LEMMA SwappedKeeps ==
  ASSUME NEW n, OnMain(n), Len(n.stack) > 1, NEW screen
  PROVE  KeepsMain(n, Swapped(n, screen)) /\ Len(Swapped(n, screen).stack) > 1
<1> DEFINE st == Append(Front(n.stack), screen)
<1>1. Swapped(n, screen) = [stack |-> st, cursors |-> n.cursors, quit |-> n.quit]
  BY MoveIs DEF Swapped
<1>2. /\ IsSeq(Front(n.stack)) /\ Len(n.stack) \in Nat
      /\ Len(Front(n.stack)) = Len(n.stack) - 1
      /\ Front(n.stack)[1] = n.stack[1]
  BY FrontIsSeq, AppendIsSeq DEF OnMain
<1>3. IsSeq(st) /\ Len(st) = Len(n.stack) /\ st[1] = n.stack[1]
  BY <1>2, AppendIsSeq
<1> HIDE DEF st
<1>4. KeepsMain(n, [stack |-> st, cursors |-> n.cursors, quit |-> n.quit])
  BY <1>3, StillOnMain DEF OnMain
<1> QED  BY <1>1, <1>3, <1>4

LEMMA WithCursorKeeps ==
  ASSUME NEW n, OnMain(n), NEW row, Len(n.stack) = 1 => row \in 0..7
  PROVE  KeepsMain(n, WithCursor(n, row))
<1> DEFINE cu == Append(Front(n.cursors), row)
<1>1. WithCursor(n, row) = [stack |-> n.stack, cursors |-> cu, quit |-> n.quit]
  BY MoveIs DEF WithCursor
<1>2. /\ IsSeq(Front(n.cursors)) /\ Len(n.cursors) \in Nat
      /\ Len(Front(n.cursors)) = Len(n.cursors) - 1
      /\ Len(n.cursors) > 1 => Front(n.cursors)[1] = n.cursors[1]
  BY FrontIsSeq, AppendIsSeq DEF OnMain
<1>3. IsSeq(cu) /\ Len(cu) = Len(n.stack)
  BY <1>2, AppendIsSeq DEF OnMain
<1>4. cu[1] \in 0..7
  <2>1. CASE Len(n.stack) = 1
    BY <2>1, <1>2, AppendIsSeq DEF OnMain
  <2>2. CASE Len(n.stack) > 1
    <3>1. cu[1] = Front(n.cursors)[1]
      BY <2>2, <1>2, AppendIsSeq DEF OnMain
    <3> QED  BY <2>2, <3>1, <1>2 DEF OnMain
  <2>3. Len(n.stack) > 0 /\ Len(n.stack) \in Nat
    BY AppendIsSeq DEF OnMain
  <2>5. \A k \in Nat : k > 0 => k = 1 \/ k > 1
    OBVIOUS
  <2>4. Len(n.stack) = 1 \/ Len(n.stack) > 1
    BY <2>3, <2>5, Zenon
  <2> QED  BY <2>1, <2>2, <2>4, Zenon
<1> HIDE DEF cu
<1>5. KeepsMain(n, [stack |-> n.stack, cursors |-> cu, quit |-> n.quit])
  BY <1>3, <1>4, StillOnMain DEF OnMain
<1> QED  BY <1>1, <1>5

LEMMA ReplacedKeeps ==
  ASSUME NEW n, OnMain(n), Len(n.stack) > 1, NEW screen
  PROVE  KeepsMain(n, Replaced(n, screen))
<1> DEFINE m == Swapped(n, screen)
<1>1. KeepsMain(n, m) /\ Len(m.stack) > 1
  BY SwappedKeeps
<1> HIDE DEF m
<1>2. KeepsMain(m, WithCursor(m, 0))
  BY <1>1, WithCursorKeeps DEF KeepsMain
<1>3. Replaced(n, screen) = WithCursor(m, 0)
  BY DEF Replaced, m
<1> QED  BY <1>1, <1>2, <1>3 DEF KeepsMain

LEMMA SameKeeps ==
  ASSUME NEW n, OnMain(n)
  PROVE  KeepsMain(n, n)
BY DEF KeepsMain

LEMMA QuitKeeps ==
  ASSUME NEW n, OnMain(n)
  PROVE  KeepsMain(n, [n EXCEPT !.quit = TRUE])
<1>1. [n EXCEPT !.quit = TRUE] =
        [stack |-> n.stack, cursors |-> n.cursors, quit |-> TRUE]
  BY MoveIs
<1> QED  BY <1>1, StillOnMain DEF OnMain

LEMMA ToMainKeeps ==
  ASSUME NEW n, OnMain(n)
  PROVE  KeepsMain(n, ToMain(n))
<1> DEFINE st == SubSeq(n.stack, 1, 1)
           cu == SubSeq(n.cursors, 1, 1)
<1>1. ToMain(n) = [stack |-> st, cursors |-> cu, quit |-> n.quit]
  <2>1. ToMain(n) = Moves(n, st, cu)
    BY DEF ToMain, Moves
  <2> QED  BY <2>1, MoveIs
<1>2. Len(n.stack) \in Nat /\ Len(n.stack) > 0 /\ Len(n.cursors) = Len(n.stack)
  BY AppendIsSeq DEF OnMain
<1>3. 1 \in Nat /\ 1 <= Len(n.stack) /\ 1 <= Len(n.cursors)
  BY <1>2
<1>4. IsSeq(st) /\ Len(st) = 1 /\ st[1] = n.stack[1]
  BY <1>3, PrefixIsSeq DEF OnMain
<1>5. IsSeq(cu) /\ Len(cu) = 1 /\ cu[1] = n.cursors[1]
  BY <1>3, PrefixIsSeq DEF OnMain
<1> HIDE DEF st, cu
<1>6. cu[1] \in 0..7
  BY <1>5 DEF OnMain
<1> QED  BY <1>1, <1>4, <1>5, <1>6, StillOnMain

(* What is at the bottom is a menu of eight rows, so that whatever is not   *)
(* one lies on it.                                                         *)
LEMMA AtTheBottom ==
  ASSUME NEW n, OnMain(n)
  PROVE  /\ Len(n.stack) \in Nat
         /\ Len(n.stack) = 1 \/ Len(n.stack) > 1
         /\ ~ (Len(n.stack) = 1 /\ Len(n.stack) > 1)
         /\ Len(n.stack) = 1 => /\ Current(n) = n.stack[1]
                                /\ Cursor(n) = n.cursors[1]
                                /\ Current(n).kind = "menu"
                                /\ Chosen(n).to # "cancel"
<1>1. Len(n.stack) > 0 /\ Len(n.stack) \in Nat
  BY AppendIsSeq DEF OnMain
<1>2. \A k \in Nat : k > 0 => (k = 1 \/ k > 1) /\ ~ (k = 1 /\ k > 1)
  OBVIOUS
<1>3. /\ Len(n.stack) = 1 \/ Len(n.stack) > 1
      /\ ~ (Len(n.stack) = 1 /\ Len(n.stack) > 1)
  BY <1>1, <1>2, Zenon
<1>4. ASSUME Len(n.stack) = 1
      PROVE  Current(n) = n.stack[1] /\ Cursor(n) = n.cursors[1]
  BY <1>4 DEF Current, Cursor, Last, OnMain
<1>5. Menu(n.stack[1].entries, n.stack[1].preface).kind = "menu"
  BY DEF Menu
<1>6. n.stack[1].kind = "menu"
  BY <1>5 DEF OnMain, IsMainMenu
<1>7. ASSUME Len(n.stack) = 1
      PROVE  Chosen(n).to # "cancel"
  <2>1. PICK c \in 0..7 : c = n.cursors[1]
    BY DEF OnMain
  <2>2. c + 1 \in 1..8
    OBVIOUS
  <2>3. n.stack[1].entries[c + 1].to # "cancel"
    BY <2>2 DEF OnMain, IsMainMenu
  <2> QED  BY <1>4, <1>7, <2>1, <2>3 DEF Chosen
<1> QED  BY <1>1, <1>3, <1>4, <1>6, <1>7

LEMMA MovedKeeps ==
  ASSUME NEW n, OnMain(n), NEW key, NEW count, Len(n.stack) = 1 => count = 8
  PROVE  KeepsMain(n, Moved(n, key, count))
<1>1. CASE count = 0
  BY <1>1, SameKeeps DEF Moved
<1>2. CASE count # 0
  <2> DEFINE row == (Cursor(n) + (IF key = "down" THEN 1 ELSE -1)) % count
  <2>1. Moved(n, key, count) = WithCursor(n, row)
    BY <1>2 DEF Moved
  <2>2. Len(n.stack) = 1 => row \in 0..7
    <3>1. ASSUME Len(n.stack) = 1  PROVE Cursor(n) \in 0..7 /\ count = 8
      BY <3>1, AtTheBottom DEF OnMain
    <3>2. \A c \in 0..7 : (c + 1) % 8 \in 0..7 /\ (c + -1) % 8 \in 0..7
      OBVIOUS
    <3> QED  BY <3>1, <3>2
  <2> HIDE DEF row
  <2> QED  BY <2>1, <2>2, WithCursorKeeps
<1> QED  BY <1>1, <1>2

LEMMA HandleOnMenuKeeps ==
  ASSUME NEW n, OnMain(n), NEW key, Current(n).kind = "menu"
  PROVE  KeepsMain(n, HandleOnMenu(n, key))
<1>1. Len(n.stack) = 1 => Len(Current(n).entries) = 8
  BY AtTheBottom DEF OnMain, IsMainMenu
<1>2. KeepsMain(n, Moved(n, key, Len(Current(n).entries)))
  BY <1>1, MovedKeeps
<1>3. KeepsMain(n, [n EXCEPT !.quit = TRUE]) /\ KeepsMain(n, n)
  BY QuitKeeps, SameKeeps
<1>4. KeepsMain(n, Opened(n, Chosen(n).screen))
  BY OpenedKeeps
<1>5. Len(n.stack) > 1 => KeepsMain(n, Pop(n))
  BY PopKeeps
<1>6. Chosen(n).to = "cancel" => Len(n.stack) > 1
  BY AtTheBottom
<1> QED  BY <1>2, <1>3, <1>4, <1>5, <1>6, Zenon DEF HandleOnMenu

LEMMA HandleOnModelsKeeps ==
  ASSUME NEW n, OnMain(n), NEW key, Len(n.stack) > 1
  PROVE  KeepsMain(n, HandleOnModels(n, key))
<1>1. KeepsMain(n, Pop(n)) /\ KeepsMain(n, n)
  BY PopKeeps, SameKeeps
<1>2. \A screen : KeepsMain(n, Swapped(n, screen)) /\ KeepsMain(n, Replaced(n, screen))
  BY SwappedKeeps, ReplacedKeeps
<1>7. ~ (Len(n.stack) = 1)
  BY AtTheBottom
<1>3. \A count : KeepsMain(n, Moved(n, key, count))
  BY <1>7, MovedKeeps, Zenon
<1>4. KeepsMain(n, BackOnModels(n))
  BY <1>1, <1>2, Zenon DEF BackOnModels
<1>5. \A model, effort : KeepsMain(n, StageOnModels(n, model, effort))
  BY <1>2, Zenon DEF StageOnModels
<1>6. KeepsMain(n, ChooseOnModels(n))
  BY <1>1, <1>2, <1>5, Zenon DEF ChooseOnModels
<1> QED  BY <1>1, <1>2, <1>3, <1>4, <1>6, Zenon DEF HandleOnModels

LEMMA HandleKeeps ==
  ASSUME NEW n, OnMain(n), NEW key
  PROVE  KeepsMain(n, Handle(n, key))
<1>1. KeepsMain(n, [n EXCEPT !.quit = TRUE]) /\ KeepsMain(n, n) /\ KeepsMain(n, ToMain(n))
  BY QuitKeeps, SameKeeps, ToMainKeeps
<1>2. Current(n).kind = "menu" => KeepsMain(n, HandleOnMenu(n, key))
  BY HandleOnMenuKeeps
<1>3. ASSUME Current(n).kind # "menu"
      PROVE  /\ KeepsMain(n, HandleOnModels(n, key))
             /\ KeepsMain(n, HandleOnTicks(n, key))
             /\ KeepsMain(n, Pop(n))
  <2>1. Len(n.stack) > 1
    BY <1>3, AtTheBottom
  <2>2. \A screen : KeepsMain(n, Swapped(n, screen))
    BY <2>1, SwappedKeeps
  <2>6. ~ (Len(n.stack) = 1)
    BY <2>1, AtTheBottom
  <2>3. \A count : KeepsMain(n, Moved(n, key, count))
    BY <2>6, MovedKeeps, Zenon
  <2>4. KeepsMain(n, Pop(n))
    BY <2>1, PopKeeps
  <2>5. KeepsMain(n, HandleOnTicks(n, key))
    BY <1>1, <2>2, <2>3, <2>4, Zenon DEF HandleOnTicks
  <2> QED  BY <2>1, <2>4, <2>5, HandleOnModelsKeeps
<1> QED  BY <1>1, <1>2, <1>3, Zenon DEF Handle, Results

LEMMA ShownKeeps ==
  ASSUME NEW n, OnMain(n), NEW w, NEW screen, NEW out, out \in Shows(n, w, screen)
  PROVE  KeepsMain(n, out.nav)
<1>1. out = To(Opened(n, screen), w)
  BY DEF Shows
<1>2. out.nav = Opened(n, screen)
  BY <1>1 DEF To
<1> QED  BY <1>2, OpenedKeeps

(* Whatever a key leads to, through the engine or not.                     *)
LEMMA StepKeeps ==
  ASSUME NEW n, OnMain(n), NEW w, NEW key, key \in Keys,
         NEW out, out \in Step(n, w, key)
  PROVE  KeepsMain(n, out.nav)
<1> DEFINE s == Current(n)
<1> DEFINE OnEngine == s.kind = "menu" /\ key = "choose" /\ Chosen(n).to \in EngineTargets
<1>1. CASE OnEngine
  <2>1. out \in ChooseOnEngine(n, w)
    BY <1>1 DEF Step
  <2>2. Chosen(n).to \in {"install", "status", "uninstall", "uninstallConfirm",
          "restore", "restoreConfirm", "models", "update", "upgrade", "grant"}
    BY <1>1 DEF EngineTargets
  <2>3. \E v, screen : out \in Shows(n, v, screen)
    BY <2>1, <2>2, Zenon DEF ChooseOnEngine
  <2> QED  BY <2>3, ShownKeeps
<1>2. CASE ~ OnEngine /\ s.kind = "models" /\ Continues(n, key)
  <2>1. out \in ModelsWrite(n, w)
    BY <1>2 DEF Step
  <2>2. \E v : out = To(Replaced(n, ModelsScreen(v, s.cli)), v)
    BY <2>1, Zenon DEF ModelsWrite
  <2>3. PICK screen : out.nav = Replaced(n, screen)
    BY <2>2 DEF To
  <2>4. Len(n.stack) > 1
    BY <1>2, AtTheBottom
  <2> QED  BY <2>3, <2>4, ReplacedKeeps
<1>3. CASE ~ OnEngine /\ s.kind = "mcp" /\ Continues(n, key)
  <2>1. out \in McpWrite(n, w)
    BY <1>3 DEF Step
  <2>2. \E v, screen : out \in Shows(n, v, screen)
    BY <2>1, Zenon DEF McpWrite
  <2> QED  BY <2>2, ShownKeeps
<1>4. CASE ~ OnEngine /\ s.kind = "grant" /\ Continues(n, key)
  <2> DEFINE grant  == s.chosen \ s.granted
             revoke == s.granted \ s.chosen
             first  == IF grant = {} THEN {Outcome(TRUE, w)}
                       ELSE McpGrant(w, s.cli, grant)
             next(o) == IF revoke = {} THEN {Outcome(TRUE, o.world)}
                        ELSE McpRevoke(o.world, s.cli, revoke)
             result(o, p) == GrantMcpResult(s.cli, Reported(o, grant),
                               Reported(p, revoke), ~ (o.ok /\ p.ok))
             after(o) == UNION {Shows(n, p.world, result(o, p)) : p \in next(o)}
  <2>1. out \in UNION {after(o) : o \in first}
    BY <1>4 DEF Step, GrantMcpWrite
  <2> HIDE DEF first, next, result
  <2>3. PICK o : out \in after(o)
    BY <2>1
  <2>4. PICK p : out \in Shows(n, p.world, result(o, p))
    BY <2>3
  <2>2. \E v, screen : out \in Shows(n, v, screen)
    BY <2>4, Zenon
  <2> QED  BY <2>2, ShownKeeps
<1>5. CASE ~ OnEngine /\ s.kind = "status" /\ key = "choose"
  <2>1. out \in Shows(n, w, GenerationsMenu(w))
    BY <1>5 DEF Step, Continues
  <2> QED  BY <2>1, ShownKeeps
<1>6. CASE /\ ~ OnEngine
           /\ ~ (s.kind = "models" /\ Continues(n, key))
           /\ ~ (s.kind = "mcp" /\ Continues(n, key))
           /\ ~ (s.kind = "grant" /\ Continues(n, key))
           /\ ~ (s.kind = "status" /\ key = "choose")
  <2>1. out = To(Handle(n, key), w)
    BY <1>6, Zenon DEF Step
  <2> QED  BY <2>1, HandleKeeps DEF To
<1> QED  BY <1>1, <1>2, <1>3, <1>4, <1>5, <1>6

(* The answer is folded in below whatever is on screen.                    *)
LEMMA NoticeKeeps ==
  ASSUME NEW n, OnMain(n), NEW about
  PROVE  /\ OnMain(WithNotice(n, about))
         /\ WithNotice(n, about).stack[1].preface = UpdateNoticeLines(about)
<1> DEFINE lines == UpdateNoticeLines(about)
           menu  == [n.stack[1] EXCEPT !.preface = lines]
           st    == [n.stack EXCEPT ![1] = menu]
<1>1. WithNotice(n, about) = [n EXCEPT !.stack = st]
  BY DEF WithNotice
<1>2. [n EXCEPT !.stack = st] = [stack |-> st, cursors |-> n.cursors, quit |-> n.quit]
  <2> HIDE DEF st
  <2> QED  BY MoveIs
<1>3. IsSeq(st) /\ Len(st) = Len(n.stack) /\ st[1] = menu
  <2>1. PICK S : n.stack \in Seq(S)
    BY DEF OnMain, IsSeq
  <2>2. n.stack \in Seq(S \cup {menu}) /\ 1 \in 1..Len(n.stack)
    BY <2>1 DEF OnMain
  <2> HIDE DEF menu
  <2>3. st \in Seq(S \cup {menu}) /\ Len(st) = Len(n.stack) /\ st[1] = menu
    BY <2>2
  <2> QED  BY <2>3 DEF IsSeq
<1>4. PICK e, p : n.stack[1] = Menu(e, p)
  BY DEF OnMain, IsMainMenu
<1>5. menu = Menu(e, lines)
  <2> HIDE DEF lines
  <2> QED  BY <1>4 DEF Menu
<1>6. n.stack[1].entries = e /\ menu.entries = e /\ menu.preface = lines
  BY <1>4, <1>5 DEF Menu
<1> HIDE DEF menu, lines, st
<1>7. IsMainMenu(menu)
  BY <1>5, <1>6 DEF OnMain, IsMainMenu
<1> DEFINE m == [stack |-> st, cursors |-> n.cursors, quit |-> n.quit]
<1>8. m.stack = st /\ m.cursors = n.cursors
      /\ m = [stack |-> m.stack, cursors |-> m.cursors, quit |-> m.quit]
  OBVIOUS
<1> HIDE DEF m
<1>9. OnMain(m)
  BY <1>3, <1>7, <1>8 DEF OnMain
<1>10. WithNotice(n, about) = m
  BY <1>1, <1>2 DEF m
<1> QED  BY <1>3, <1>6, <1>8, <1>9, <1>10 DEF lines

-----------------------------------------------------------------------------
(* The answer stays: nothing but the loop moves the navigator, and the      *)
(* screens an install leaves were opened on the ones the loop waits with.  *)

SaysTheAnswer(n) ==
  n.stack[1].preface = UpdateNoticeLines([notice EXCEPT !.latest = latest])

AnswerInv ==
  /\ OnMain(nav)
  /\ checking \in BOOLEAN
  /\ ~ checking => check = "done" /\ SaysTheAnswer(nav)
  /\ mode = "loop" => worker = NoWorker
  /\ worker.left # None => KeepsMain(nav, worker.left)

LEMMA StartingOnMain ==
  ASSUME NEW detected, NEW installed, NEW about
  PROVE  OnMain(Starting(detected, installed, about))
<1> DEFINE entries == <<Open(InstallMenu(detected)), Open(UpdateMenu(installed)),
                        Target("upgrade", None), Open(ModelsMenu(detected)),
                        Open(GrantMcpMenu(installed)), Target("status", None),
                        Open(UninstallMenu(installed)), Quit>>
           menu == MainMenu(detected, installed, about)
           n == Starting(detected, installed, about)
<1>1. /\ Len(entries) = 8
      /\ \A i \in 1..8 : entries[i].to # "cancel"
  BY DEF Open, Target, Quit
<1>2. IsSeq(entries)
  <2>1. \A a, b, c, d, e, f, g, h :
          <<a, b, c, d, e, f, g, h>> \in Seq({a, b, c, d, e, f, g, h})
    OBVIOUS
  <2> QED  BY <2>1, Zenon DEF IsSeq
<1>3. PICK e, p : e = entries /\ menu = Menu(e, p)
  BY DEF MainMenu
<1> HIDE DEF entries, menu
<1>4. menu.entries = e /\ menu.preface = p
  BY <1>3 DEF Menu
<1>5. IsMainMenu(menu)
  BY <1>1, <1>2, <1>3, <1>4 DEF IsMainMenu
<1>6. /\ n.stack = <<menu>> /\ n.cursors = <<0>>
      /\ n = [stack |-> n.stack, cursors |-> n.cursors, quit |-> n.quit]
  BY DEF Starting, menu
<1> HIDE DEF n
<1>7. IsSeq(<<menu>>) /\ IsSeq(<<0>>)
  <2>1. <<menu>> \in Seq({menu}) /\ <<0>> \in Seq({0})
    OBVIOUS
  <2> QED  BY <2>1 DEF IsSeq
<1>8. OnMain(n)
  BY <1>5, <1>6, <1>7 DEF OnMain
<1> QED  BY <1>8 DEF n

LEMMA AnswerInit == Init => AnswerInv
<1> SUFFICES ASSUME Init PROVE AnswerInv  OBVIOUS
<1>1. OnMain(nav)
  BY StartingOnMain DEF Init
<1> QED  BY <1>1 DEF Init, AnswerInv, NoWorker

(* Before a key is acted upon, a waiting answer is folded in.              *)
LEMMA MergedOnMain ==
  ASSUME AnswerInv
  PROVE  /\ OnMain(Merged)
         /\ ~ (checking /\ ~ Folds) => check = "done" /\ SaysTheAnswer(Merged)
<1>1. CASE Folds
  BY <1>1, NoticeKeeps DEF AnswerInv, Merged, Folds, SaysTheAnswer
<1>2. CASE ~ Folds
  BY <1>2 DEF AnswerInv, Merged
<1> QED  BY <1>1, <1>2

LEMMA AnswerNext == JoinInv /\ AnswerInv /\ [Next]_vars => AnswerInv'
<1> SUFFICES ASSUME JoinInv, AnswerInv, [Next]_vars PROVE AnswerInv'  OBVIOUS
<1>1. ASSUME UNCHANGED <<nav, check, latest, checking, notice, mode, worker>>
      PROVE  AnswerInv'
  BY <1>1 DEF AnswerInv, SaysTheAnswer, NoWorker
(* A turn of the loop.                                                     *)
<1>2. ASSUME Waiting, KeepsMain(Merged, nav'),
             checking' = (checking /\ ~ Folds),
             UNCHANGED <<mode, check, latest, notice, worker>>
      PROVE  AnswerInv'
  <2>1. OnMain(nav')
    BY <1>2 DEF KeepsMain
  <2>2. checking' \in BOOLEAN
    BY <1>2
  <2>3. ~ checking' => check' = "done" /\ SaysTheAnswer(nav)'
    <3>1. ~ checking' => check = "done" /\ SaysTheAnswer(Merged)
      BY <1>2, MergedOnMain
    <3>2. SaysTheAnswer(Merged) => SaysTheAnswer(nav)'
      BY <1>2 DEF KeepsMain, SaysTheAnswer
    <3> QED  BY <1>2, <3>1, <3>2
  <2>4. worker' = NoWorker /\ worker'.left = None
    BY <1>2 DEF AnswerInv, Waiting, NoWorker
  <2> QED  BY <2>1, <2>2, <2>3, <2>4 DEF AnswerInv, NoWorker
<1>3. CASE UNCHANGED vars
  BY <1>1, <1>3 DEF vars
<1>4. CASE CheckAnswers
  <2>1. checking = TRUE
    BY <1>4 DEF CheckAnswers, AnswerInv
  <2> QED  BY <1>4, <2>1 DEF CheckAnswers, AnswerInv, NoWorker
<1>5. CASE NoKey
  <2>1. KeepsMain(Merged, nav')
    BY <1>5, MergedOnMain, SameKeeps DEF NoKey
  <2> QED  BY <1>2, <1>5, <2>1 DEF NoKey, FoldAnswer
<1>6. CASE \E key \in Keys : Key(key)
  <2>1. PICK key \in Keys : Key(key)
    BY <1>6
  <2>2. PICK out \in Step(Merged, world, key) : nav' = out.nav
    BY <2>1 DEF Key
  <2>3. KeepsMain(Merged, nav')
    BY <2>2, MergedOnMain, StepKeeps
  <2> QED  BY <1>2, <2>1, <2>3 DEF Key, FoldAnswer
<1>7. CASE StartInstall
  <2>1. OnMain(nav') /\ checking' = (checking /\ ~ Folds)
    BY <1>7, MergedOnMain DEF StartInstall
  <2>2. ~ checking' => check' = "done" /\ SaysTheAnswer(nav)'
    BY <1>7, MergedOnMain DEF StartInstall, SaysTheAnswer
  <2>3. mode' # "loop" /\ worker'.left = None
    BY <1>7 DEF StartInstall
  <2> QED  BY <2>1, <2>2, <2>3 DEF AnswerInv
<1>8. CASE WorkerEnds
  <2>1. PICK out \in PlanTask(nav, world) :
          worker' = [state |-> "ended", left |-> out.nav]
    BY <1>8 DEF WorkerEnds
  <2>2. \E screen, w : out = To(Opened(nav, screen), w)
    BY <2>1 DEF PlanTask
  <2>3. KeepsMain(nav, worker'.left)
    BY <2>1, <2>2, OpenedKeeps DEF To, AnswerInv
  <2>4. mode # "loop"
    BY <1>8 DEF WorkerEnds, AnswerInv, NoWorker
  <2> QED  BY <1>8, <2>3, <2>4 DEF WorkerEnds, AnswerInv, SaysTheAnswer, KeepsMain
<1>9. CASE WorkerBreaks
  <2>1. worker'.left = None
    BY <1>9 DEF WorkerBreaks
  <2>2. mode # "loop"
    BY <1>9 DEF WorkerBreaks, AnswerInv, NoWorker
  <2> QED  BY <1>9, <2>1, <2>2 DEF WorkerBreaks, AnswerInv, SaysTheAnswer
<1>10. CASE FinishInstall
  <2>1. KeepsMain(nav, nav')
    BY <1>10, SameKeeps DEF FinishInstall, AnswerInv
  <2>2. worker' = NoWorker /\ worker'.left = None
    BY <1>10 DEF FinishInstall, NoWorker
  <2>3. OnMain(nav') /\ (SaysTheAnswer(nav) => SaysTheAnswer(nav)')
    BY <1>10, <2>1 DEF FinishInstall, KeepsMain, SaysTheAnswer
  <2> QED  BY <1>10, <2>2, <2>3 DEF FinishInstall, AnswerInv, NoWorker
<1>11. CASE Interrupt
  <2>1. mode' # "loop"
    BY <1>11 DEF Interrupt, Interrupted, JoinInv
  <2> QED  BY <1>11, <2>1 DEF Interrupt, AnswerInv, SaysTheAnswer
<1>12. CASE JoinsWorker
  BY <1>12 DEF JoinsWorker, AnswerInv, SaysTheAnswer, NoWorker
<1>13. CASE LeaveLoop \/ Exit
  <2>1. mode' # "loop"
    BY <1>13 DEF LeaveLoop, Exit
  <2> QED  BY <1>13, <2>1 DEF LeaveLoop, Exit, AnswerInv, SaysTheAnswer
<1> QED
  BY <1>3, <1>4, <1>5, <1>6, <1>7, <1>8, <1>9, <1>10, <1>11, <1>12, <1>13 DEF Next

(* Once the answer about a newer release was folded in, the main menu keeps *)
(* showing it, whatever is opened, replaced or left on top of it, an        *)
(* install that ends on its own thread included (_merged_notice,            *)
(* Navigator.with_notice).                                                 *)
THEOREM AnswerStays == Spec => []AnswerKept
<1>1. AnswerInv => AnswerKept
  BY DEF AnswerInv, AnswerKept, SaysTheAnswer
<1> QED  BY <1>1, JoinInit, JoinNext, AnswerInit, AnswerNext, PTL DEF Spec

-----------------------------------------------------------------------------
(* What is on the screens, and what they say of the machine.               *)

OfClis(f) == f = [c \in ToSet(Clis) |-> f[c]]
OfAgents(f) == f = [a \in ToSet(Agents) |-> f[a]]

World(w) ==
  /\ w = [installs |-> w.installs, gens |-> w.gens, binary |-> w.binary,
          assigned |-> w.assigned, tries |-> w.tries, faults |-> w.faults]
  /\ OfClis(w.installs)
  /\ IsSeq(w.gens) /\ \A g \in 1..Len(w.gens) : OfClis(w.gens[g])
  /\ OfClis(w.assigned) /\ \A c \in ToSet(Clis) : OfAgents(w.assigned[c])
  /\ w.tries \in Nat /\ w.faults \in 0..MaxFaults

(* The menus that say nothing of the machine: the main menu and those it    *)
(* opens, one row for each CLI.                                            *)
IsCliMenu(s) ==
  /\ s.kind = "menu"
  /\ IsSeq(s.entries) /\ Len(s.entries) > 0
  /\ \A i \in 1..Len(s.entries) :
       /\ s.entries[i].to \in {"install", "update", "models", "grant", "uninstall"}
       /\ s.entries[i].cli \in ToSet(Clis)
LeadsOn(entry) ==
  /\ entry.to \in {"open", "upgrade", "status", "quit"}
  /\ entry.to = "open" =>
       IsCliMenu(entry.screen) \/ entry.screen.kind = "placeholder"
IsMain(s) ==
  /\ s.kind = "menu" /\ IsSeq(s.entries) /\ Len(s.entries) = 8
  /\ \A i \in 1..8 : LeadsOn(s.entries[i])
Fixed(s) == IsMain(s) \/ IsCliMenu(s)

(* The wizard for models: what was chosen so far, and one change staged for *)
(* an agent at most.                                                       *)
StagedOnce(staged) ==
  /\ IsSeq(staged)
  /\ \A i, j \in 1..Len(staged) : staged[i].agent = staged[j].agent => i = j
IsModels(s, w) ==
  /\ s.kind = "models"
  /\ s = [kind |-> "models", cli |-> s.cli, providers |-> Catalog, rows |-> s.rows,
          agent |-> s.agent, provider |-> s.provider, model |-> s.model,
          staged |-> s.staged]
  /\ s.cli \in ToSet(Clis) /\ ModelsScreen(w, s.cli).kind = "models"
  /\ s.rows = ModelsScreen(w, s.cli).rows
  /\ s.agent = None => s.provider = None
  /\ s.provider = None => s.model = None
  /\ s.provider # None => \E p \in ToSet(Catalog) : p.id = s.provider
  /\ StagedOnce(s.staged)

IsMcp(s) ==
  /\ s.kind = "mcp"
  /\ s = [kind |-> "mcp", cli |-> s.cli, options |-> s.options, chosen |-> s.chosen]
  /\ s.cli \in ToSet(Clis) /\ IsSeq(s.options)
IsGrant(s, w) ==
  /\ s.kind = "grant"
  /\ s = [kind |-> "grant", cli |-> s.cli, options |-> s.options,
          chosen |-> s.chosen, granted |-> s.granted]
  /\ s.cli \in ToSet(Clis) /\ IsSeq(s.options)
  /\ s.granted = Recorded(w, s.cli, "granted")

(* A plan is what would be recorded if it ran now.                         *)
IsPlan(s, w) ==
  /\ s.kind = "plan"
  /\ \/ /\ s.command = "install" /\ s.cli \in ToSet(Clis)
        /\ s \in InstallPreviews(w, s.cli, s.mcp)
     \/ /\ s.command = "update" /\ s.cli \in ToSet(Clis)
        /\ s \in UpdatePreviews(w, s.cli)
     \/ s = InstallPlan(None, "upgrade", {}, Published)

Made(s, w) ==
  \/ Fixed(s) \/ s.kind = "placeholder"
  \/ IsMcp(s) \/ IsGrant(s, w) \/ IsModels(s, w) \/ IsPlan(s, w)
  \/ s = Status(w.installs) \/ s = GenerationsMenu(w)
  \/ \E c \in ToSet(Clis) : s = UninstallPreview(w, c)
  \/ \E g \in 1..Len(w.gens) : s = RestorePreview(w, g)

(* The screens of a navigator. Only a result may be on top of screens the  *)
(* command has made untrue; and the one command that goes on to another     *)
(* screen, of the wizard for models, leaves no such screen below it.        *)
CursorsOn(n) ==
  \A i \in 1..Len(n.stack) : n.cursors[i] \in 0..(RowsOf(n.stack[i]) - 1)
Layered(n) ==
  \A i, j \in 1..Len(n.stack) :
    i < j /\ (Fixed(n.stack[j]) \/ n.stack[j].kind = "models") => Fixed(n.stack[i])
OnScreen(n, w) ==
  /\ OnMain(n) /\ IsMain(n.stack[1])
  /\ CursorsOn(n)
  /\ \/ Current(n).kind \in Results
     \/ Layered(n) /\ \A i \in 1..Len(n.stack) : Made(n.stack[i], w)

ScreensInv ==
  /\ World(world) /\ world.tries <= MaxCommands
  /\ CursorsOn(nav)
  /\ worker.state \in {"none", "running", "ended"}
  /\ mode = "loop" \/ worker.state = "running" => OnScreen(nav, world)
  /\ worker.state = "running" =>
       Current(nav).kind = "plan" /\ world.tries < MaxCommands
  /\ mode = "installing" /\ worker.left # None =>
       OnScreen(worker.left, world) /\ Current(worker.left).kind = "installed"

-----------------------------------------------------------------------------
(* Ordered selects: what it returns is what the sequence has of the set.    *)

LEMMA LeastOf ==
  ASSUME NEW S \in SUBSET Nat, S # {}
  PROVE  \E g \in S : \A h \in S : g <= h
<1>1. PICK g \in S : \A h \in S : ~ (<<h, g>> \in OpToRel(<, Nat))
  BY WFMin, NatLessThanWellFounded, Zenon
<1>2. \A h \in S : ~ (h < g)
  BY <1>1, Zenon DEF OpToRel
<1> QED  BY <1>2

(* kept, the function Ordered is the last value of, is one.                *)
KeptBy(kept, s, S, m) ==
  kept = [n \in 0..m |->
            IF n = 0 THEN << >>
            ELSE IF s[n] \in S THEN Append(kept[n - 1], s[n]) ELSE kept[n - 1]]

LEMMA KeptExists ==
  ASSUME NEW s, NEW S, NEW m \in Nat
  PROVE  \E kept : KeptBy(kept, s, S, m)
<1> DEFINE N == {n \in Nat : ~ \E kept : KeptBy(kept, s, S, n)}
<1> SUFFICES ASSUME N # {} PROVE FALSE  OBVIOUS
<1>1. PICK k \in N : \A h \in N : k <= h
  <2> HIDE DEF N
  <2>1. N \in SUBSET Nat
    BY DEF N
  <2> QED  BY <2>1, LeastOf
<1>2. CASE k = 0
  <2> DEFINE f == [n \in 0..0 |-> << >>]
  <2>1. KeptBy(f, s, S, 0)
    BY DEF KeptBy
  <2> QED  BY <1>2, <2>1
<1>3. CASE k # 0
  <2>1. k - 1 \in Nat /\ k - 1 \notin N /\ k \in Nat
    BY <1>1, <1>3
  <2>2. PICK f : KeptBy(f, s, S, k - 1)
    BY <2>1
  <2> DEFINE g == [n \in 0..k |->
                     IF n = k
                     THEN IF s[k] \in S THEN Append(f[k - 1], s[k]) ELSE f[k - 1]
                     ELSE f[n]]
             next(h, n) == IF n = 0 THEN << >>
                           ELSE IF s[n] \in S THEN Append(h[n - 1], s[n]) ELSE h[n - 1]
  <2>3. ASSUME NEW n \in 0..(k - 1) PROVE f[n] = next(f, n) /\ n # k /\ n \in 0..k
    <3>1. f[n] = next(f, n)
      BY <2>2 DEF KeptBy
    <3>2. n # k /\ n \in 0..k
      BY <2>1
    <3> QED  BY <3>1, <3>2
  <2>4. ASSUME NEW n \in 0..k PROVE g[n] = next(g, n)
    <3>1. CASE n = k
      <4>1. k - 1 \in 0..k /\ k - 1 # k
        BY <1>3, <2>1
      <4>2. g[k - 1] = f[k - 1]
        BY <4>1
      <4> QED  BY <1>3, <3>1, <4>2
    <3>2. CASE n # k
      <4>1. n \in 0..(k - 1) /\ n # k
        BY <2>1, <3>2
      <4>2. g[n] = f[n]
        BY <4>1
      <4>3. n # 0 => n - 1 \in 0..k /\ n - 1 # k
        BY <2>1, <4>1
      <4>4. n # 0 => g[n - 1] = f[n - 1]
        BY <4>3
      <4> HIDE DEF g
      <4> QED  BY <2>3, <4>1, <4>2, <4>4
    <3> QED  BY <3>1, <3>2
  <2>5. g = [n \in 0..k |-> g[n]]
    OBVIOUS
  <2> HIDE DEF g
  <2>6. KeptBy(g, s, S, k)
    BY <2>4, <2>5 DEF KeptBy
  <2> QED  BY <2>6
<1> QED  BY <1>2, <1>3

(* What comes after what was kept keeps it a selection.                    *)
Selects(r, s, S, n) ==
  /\ IsSeq(r)
  /\ \A i \in 1..Len(r) : r[i] \in S /\ \E j \in 1..n : r[i] = s[j]
  /\ \A j \in 1..n : s[j] \in S => \E i \in 1..Len(r) : r[i] = s[j]

(* No two have the same agent.                                             *)
OnePerAgent(s, n) ==
  \A i, j \in 1..n : s[i].agent = s[j].agent => i = j

LEMMA AppendIs ==
  ASSUME NEW s, IsSeq(s), NEW e
  PROVE  /\ IsSeq(Append(s, e)) /\ Len(s) \in Nat
         /\ Len(Append(s, e)) = Len(s) + 1
         /\ \A i \in 1..Len(s) : Append(s, e)[i] = s[i]
         /\ Append(s, e)[Len(s) + 1] = e
<1>1. PICK T : s \in Seq(T)
  BY DEF IsSeq
<1>2. s \in Seq(T \cup {e})
  BY <1>1
<1>3. Append(s, e) \in Seq(T \cup {e})
  BY <1>2
<1> QED  BY <1>1, <1>2, <1>3 DEF IsSeq

LEMMA SelectsNext ==
  ASSUME NEW s, NEW S, NEW n \in Nat, n # 0, NEW r, Selects(r, s, S, n - 1)
  PROVE  LET next == IF s[n] \in S THEN Append(r, s[n]) ELSE r
         IN /\ Selects(next, s, S, n)
            /\ OnePerAgent(s, n) /\ OnePerAgent(r, Len(r)) => OnePerAgent(next, Len(next))
<1>1. /\ \A j : j \in 1..n <=> j \in 1..(n - 1) \/ j = n
      /\ ~ (n \in 1..(n - 1)) /\ n \in 1..n
  OBVIOUS
<1>2. CASE s[n] \in S
  <2> DEFINE next == Append(r, s[n])
  <2>1. /\ IsSeq(next) /\ Len(r) \in Nat /\ Len(next) = Len(r) + 1
        /\ \A i \in 1..Len(r) : next[i] = r[i]
        /\ next[Len(r) + 1] = s[n]
    BY AppendIs DEF Selects
  <2> HIDE DEF next
  <2>2. /\ \A i : i \in 1..Len(next) <=> i \in 1..Len(r) \/ i = Len(r) + 1
        /\ ~ (Len(r) + 1 \in 1..Len(r))
    BY <2>1
  <2>3. Selects(next, s, S, n)
    <3>1. ASSUME NEW i \in 1..Len(next)
          PROVE  next[i] \in S /\ \E j \in 1..n : next[i] = s[j]
      <4>1. CASE i \in 1..Len(r)
        BY <1>1, <2>1, <4>1 DEF Selects
      <4>2. CASE i = Len(r) + 1
        BY <1>1, <1>2, <2>1, <4>2
      <4> QED  BY <2>2, <4>1, <4>2
    <3>2. ASSUME NEW j \in 1..n, s[j] \in S
          PROVE  \E i \in 1..Len(next) : next[i] = s[j]
      <4>1. CASE j = n
        BY <2>1, <2>2, <4>1
      <4>2. CASE j \in 1..(n - 1)
        <5>1. PICK i \in 1..Len(r) : r[i] = s[j]
          BY <3>2, <4>2 DEF Selects
        <5> QED  BY <2>1, <2>2, <5>1
      <4> QED  BY <1>1, <4>1, <4>2
    <3> QED  BY <2>1, <3>1, <3>2 DEF Selects
  <2>4. ASSUME OnePerAgent(s, n), OnePerAgent(r, Len(r))
        PROVE  OnePerAgent(next, Len(next))
    <3>1. ASSUME NEW i \in 1..Len(r) PROVE next[i].agent # s[n].agent
      <4>1. PICK j \in 1..(n - 1) : r[i] = s[j]
        BY DEF Selects
      <4>2. j \in 1..n /\ n \in 1..n /\ j # n
        BY <1>1
      <4>3. s[j].agent # s[n].agent
        BY <2>4, <4>2 DEF OnePerAgent
      <4> QED  BY <2>1, <4>1, <4>3
    <3>2. ASSUME NEW i \in 1..Len(next), NEW j \in 1..Len(next), next[i].agent = next[j].agent
          PROVE  i = j
      <4>1. CASE i \in 1..Len(r) /\ j \in 1..Len(r)
        BY <2>1, <2>4, <3>2, <4>1 DEF OnePerAgent
      <4>2. CASE i = Len(r) + 1 /\ j \in 1..Len(r)
        BY <2>1, <3>1, <3>2, <4>2
      <4>3. CASE j = Len(r) + 1 /\ i \in 1..Len(r)
        BY <2>1, <3>1, <3>2, <4>3
      <4> QED  BY <2>2, <4>1, <4>2, <4>3
    <3> QED  BY <3>2 DEF OnePerAgent
  <2> QED  BY <1>2, <2>3, <2>4 DEF next
<1>3. CASE s[n] \notin S
  <2>1. Selects(r, s, S, n)
    BY <1>1, <1>3 DEF Selects
  <2> QED  BY <1>3, <2>1
<1> QED  BY <1>2, <1>3

LEMMA OrderedIs ==
  ASSUME NEW s, IsSeq(s), NEW S
  PROVE  /\ Selects(Ordered(s, S), s, S, Len(s))
         /\ OnePerAgent(s, Len(s)) => OnePerAgent(Ordered(s, S), Len(Ordered(s, S)))
<1> DEFINE m == Len(s)
           kept == CHOOSE k : KeptBy(k, s, S, m)
           Good(n) == /\ Selects(kept[n], s, S, n)
                      /\ OnePerAgent(s, m) => OnePerAgent(kept[n], Len(kept[n]))
           N == {n \in 0..m : ~ Good(n)}
<1>1. m \in Nat
  BY DEF IsSeq
<1>2. Ordered(s, S) = kept[m]
  BY DEF Ordered, KeptBy
<1>3. KeptBy(kept, s, S, m)
  <2> HIDE DEF m
  <2> QED  BY <1>1, KeptExists
<1> HIDE DEF kept, m
<1>4. \A n \in 0..m :
        kept[n] = IF n = 0 THEN << >>
                  ELSE IF s[n] \in S THEN Append(kept[n - 1], s[n]) ELSE kept[n - 1]
  BY <1>3 DEF KeptBy
<1>5. ASSUME N # {} PROVE FALSE
  <2>1. PICK k \in N : \A h \in N : k <= h
    <3>1. N \in SUBSET Nat
      BY <1>1
    <3> HIDE DEF N
    <3> QED  BY <1>5, <3>1, LeastOf
  <2>2. CASE k = 0
    <3>1. kept[0] = << >>
      BY <1>1, <1>4
    <3>2. << >> \in Seq({}) /\ Len(<< >>) = 0
      OBVIOUS
    <3>3. IsSeq(<< >>)
      BY <3>2 DEF IsSeq
    <3>4. \A i : ~ (i \in 1..0)
      OBVIOUS
    <3>5. Good(0)
      BY <3>1, <3>2, <3>3, <3>4 DEF Selects, OnePerAgent
    <3> QED  BY <2>1, <2>2, <3>5
  <2>3. CASE k # 0
    <3>1. k - 1 \in 0..m /\ k \in 0..m /\ k \in Nat /\ ~ (k <= k - 1)
      BY <1>1, <2>1, <2>3
    <3>2. Good(k - 1)
      BY <2>1, <3>1
    <3>3. kept[k] = IF s[k] \in S THEN Append(kept[k - 1], s[k]) ELSE kept[k - 1]
      BY <1>4, <2>3, <3>1
    <3>4. OnePerAgent(s, m) => OnePerAgent(s, k)
      <4>1. \A i \in 1..k : i \in 1..m
        BY <1>1, <3>1
      <4> QED  BY <4>1 DEF OnePerAgent
    <3>5. Good(k)
      <4>1. Selects(kept[k - 1], s, S, k - 1)
        BY <3>2
      <4>2. /\ Selects(kept[k], s, S, k)
            /\ OnePerAgent(s, k) /\ OnePerAgent(kept[k - 1], Len(kept[k - 1]))
                 => OnePerAgent(kept[k], Len(kept[k]))
        BY <2>3, <3>1, <3>3, <4>1, SelectsNext
      <4> QED  BY <3>2, <3>4, <4>2
    <3> QED  BY <2>1, <3>5
  <2> QED  BY <2>2, <2>3
<1>6. Good(m)
  BY <1>1, <1>5
<1> QED  BY <1>2, <1>6 DEF m

-----------------------------------------------------------------------------
(* What the commands do to the machine.                                    *)

WorldOf(i, g, b, a, t, f) ==
  [installs |-> i, gens |-> g, binary |-> b, assigned |-> a, tries |-> t,
   faults |-> f]

LEMMA WorldOfIs ==
  ASSUME NEW i, NEW g, NEW b, NEW a, NEW t, NEW f
  PROVE  /\ WorldOf(i, g, b, a, t, f).installs = i
         /\ WorldOf(i, g, b, a, t, f).gens = g
         /\ WorldOf(i, g, b, a, t, f).binary = b
         /\ WorldOf(i, g, b, a, t, f).assigned = a
         /\ WorldOf(i, g, b, a, t, f).tries = t
         /\ WorldOf(i, g, b, a, t, f).faults = f
  BY DEF WorldOf

LEMMA WorldIs ==
  ASSUME NEW w, World(w)
  PROVE  w = WorldOf(w.installs, w.gens, w.binary, w.assigned, w.tries, w.faults)
  BY DEF World, WorldOf

LEMMA IsWorld ==
  ASSUME NEW i, NEW g, NEW b, NEW a, NEW t, NEW f,
         OfClis(i), IsSeq(g), \A n \in 1..Len(g) : OfClis(g[n]),
         OfClis(a), \A c \in ToSet(Clis) : OfAgents(a[c]),
         t \in Nat, f \in 0..MaxFaults
  PROVE  World(WorldOf(i, g, b, a, t, f))
  BY WorldOfIs DEF World, WorldOf

(* A command that was tried, and the generation it takes first.            *)
LEMMA TriedIs ==
  ASSUME NEW w, World(w)
  PROVE  /\ World(Tried(w)) /\ World(Captured(w))
         /\ Tried(w) = WorldOf(w.installs, w.gens, w.binary, w.assigned,
                               w.tries + 1, w.faults)
         /\ Captured(w) = WorldOf(w.installs, Append(w.gens, w.installs), w.binary,
                                  w.assigned, w.tries + 1, w.faults)
<1>1. PICK i, g, b, a, t, f : w = WorldOf(i, g, b, a, t, f)
  BY WorldIs
<1>2. /\ w.installs = i /\ w.gens = g /\ w.binary = b
      /\ w.assigned = a /\ w.tries = t /\ w.faults = f
  BY <1>1, WorldOfIs
<1>3. Tried(w) = WorldOf(i, g, b, a, t + 1, f)
  <2>1. Tried(w) = [w EXCEPT !.tries = t + 1]
    BY <1>2 DEF Tried
  <2> QED  BY <1>1, <2>1 DEF WorldOf
<1>4. Captured(w) = WorldOf(i, Append(g, i), b, a, t + 1, f)
  <2> DEFINE v == WorldOf(i, g, b, a, t + 1, f)
  <2>1. v.gens = g
    BY WorldOfIs
  <2>2. Captured(w) = [v EXCEPT !.gens = Append(v.gens, i)]
    BY <1>2, <1>3 DEF Captured
  <2>3. [v EXCEPT !.gens = Append(g, i)] = WorldOf(i, Append(g, i), b, a, t + 1, f)
    BY DEF WorldOf
  <2> HIDE DEF v
  <2> QED  BY <2>1, <2>2, <2>3
<1>5. /\ OfClis(i) /\ IsSeq(g) /\ (\A n \in 1..Len(g) : OfClis(g[n]))
      /\ OfClis(a) /\ (\A c \in ToSet(Clis) : OfAgents(a[c]))
      /\ t + 1 \in Nat /\ f \in 0..MaxFaults
  BY <1>2 DEF World
<1>6. IsSeq(Append(g, i)) /\ \A n \in 1..Len(Append(g, i)) : OfClis(Append(g, i)[n])
  <2>1. /\ IsSeq(Append(g, i)) /\ Len(g) \in Nat /\ Len(Append(g, i)) = Len(g) + 1
        /\ (\A n \in 1..Len(g) : Append(g, i)[n] = g[n])
        /\ Append(g, i)[Len(g) + 1] = i
    BY <1>5, AppendIs
  <2>2. ASSUME NEW n \in 1..Len(Append(g, i)) PROVE n \in 1..Len(g) \/ n = Len(g) + 1
    BY <2>1
  <2> QED  BY <1>5, <2>1, <2>2
<1>7. World(WorldOf(i, g, b, a, t + 1, f))
  BY <1>5, IsWorld
<1>8. World(WorldOf(i, Append(g, i), b, a, t + 1, f))
  BY <1>5, <1>6, IsWorld
<1> QED  BY <1>2, <1>3, <1>4, <1>7, <1>8

(* One try, after which the records are done or as they were.              *)
Same(w, v) ==
  v.installs = w.installs /\ v.binary = w.binary /\ v.assigned = w.assigned
Once(w, v) == World(v) /\ v.tries = w.tries + 1

LEMMA FailingIs ==
  ASSUME NEW w, World(w), NEW o \in Failing(w)
  PROVE  o.ok = FALSE /\ Once(w, o.world) /\ Same(w, o.world)
<1>1. w.faults < MaxFaults
  BY DEF Failing
<1>2. PICK v \in {Tried(w), Captured(w)} : o = Outcome(FALSE, [v EXCEPT !.faults = @ + 1])
  BY DEF Failing
<1>3. World(v) /\ v.installs = w.installs /\ v.binary = w.binary
      /\ v.assigned = w.assigned /\ v.tries = w.tries + 1 /\ v.faults = w.faults
  BY <1>2, TriedIs, WorldOfIs
<1>4. PICK g : v = WorldOf(v.installs, g, v.binary, v.assigned, v.tries, v.faults)
               /\ g = v.gens
  BY <1>3, WorldIs
<1> DEFINE u == WorldOf(v.installs, g, v.binary, v.assigned, v.tries, v.faults + 1)
<1>5. [v EXCEPT !.faults = v.faults + 1] = u
  BY <1>4 DEF WorldOf
<1>6. World(u)
  <2>1. v.faults + 1 \in 0..MaxFaults
    BY <1>1, <1>3, TuiAssumption DEF World
  <2> QED  BY <1>3, <1>4, <2>1, IsWorld DEF World
<1>7. o.ok = FALSE /\ o.world = u
  BY <1>2, <1>5 DEF Outcome
<1>8. u.installs = v.installs /\ u.binary = v.binary /\ u.assigned = v.assigned
      /\ u.tries = v.tries
  BY WorldOfIs
<1> HIDE DEF u
<1> QED  BY <1>3, <1>6, <1>7, <1>8 DEF Once, Same

LEMMA AttemptIs ==
  ASSUME NEW w, World(w), NEW done, Once(w, done), NEW o \in Attempt(w, done)
  PROVE  /\ o.ok \in BOOLEAN /\ Once(w, o.world)
         /\ o.ok => o.world = done
         /\ ~ o.ok => Same(w, o.world)
<1>1. CASE o = Outcome(TRUE, done)
  BY <1>1 DEF Outcome
<1>2. CASE o \in Failing(w)
  BY <1>2, FailingIs
<1> QED  BY <1>1, <1>2 DEF Attempt

(* After an install or an uninstall, one record is another one.            *)
Puts(w, v, cli, record) ==
  /\ v.installs[cli] = record
  /\ \A c \in ToSet(Clis) \ {cli} : v.installs[c] = w.installs[c]
  /\ v.binary = w.binary /\ v.assigned = w.assigned

LEMMA PuttingIs ==
  ASSUME NEW w, World(w), NEW cli \in ToSet(Clis), NEW record
  PROVE  LET v == [Captured(w) EXCEPT !.installs[cli] = record]
         IN Once(w, v) /\ Puts(w, v, cli, record)
<1> DEFINE g == Append(w.gens, w.installs)
           i == [w.installs EXCEPT ![cli] = record]
           u == WorldOf(w.installs, g, w.binary, w.assigned, w.tries + 1, w.faults)
           x == WorldOf(i, g, w.binary, w.assigned, w.tries + 1, w.faults)
<1>1. Captured(w) = u /\ World(u)
  BY TriedIs
<1>2. u.installs = w.installs
  BY WorldOfIs
<1>3. [u EXCEPT !.installs = i] = x
  <2> HIDE DEF i, g
  <2> QED  BY DEF WorldOf
<1>4. [Captured(w) EXCEPT !.installs[cli] = record] = x
  <2> HIDE DEF x
  <2>1. [u EXCEPT !.installs[cli] = record] = [u EXCEPT !.installs = [u.installs EXCEPT ![cli] = record]]
    <3> HIDE DEF u
    <3> QED  OBVIOUS
  <2> HIDE DEF u
  <2> QED  BY <1>1, <1>2, <1>3, <2>1
<1>5. i[cli] = record /\ (\A c \in ToSet(Clis) \ {cli} : i[c] = w.installs[c]) /\ OfClis(i)
  BY DEF World, OfClis
<1>6. World(x)
  <2>1. u.gens = g /\ u.tries = w.tries + 1
    BY DEF WorldOf
  <2>2. IsSeq(g) /\ (\A n \in 1..Len(g) : OfClis(g[n])) /\ w.tries + 1 \in Nat
    <3> HIDE DEF u, g
    <3> QED  BY <1>1, <2>1 DEF World
  <2> HIDE DEF u, i, g
  <2> QED  BY <1>5, <2>2, IsWorld DEF World
<1>7. x.installs = i /\ x.binary = w.binary /\ x.assigned = w.assigned /\ x.tries = w.tries + 1
  BY WorldOfIs
<1> HIDE DEF x, i, u
<1> QED  BY <1>4, <1>5, <1>6, <1>7 DEF Once, Puts

AtMostOnce(w, v) == World(v) /\ (v.tries = w.tries \/ v.tries = w.tries + 1)

LEMMA InstallIs ==
  ASSUME NEW w, World(w), NEW cli \in ToSet(Clis), NEW mcp, NEW granted,
         NEW o \in Install(w, cli, mcp, granted)
  PROVE  /\ o.ok \in BOOLEAN /\ Once(w, o.world)
         /\ o.ok => Puts(w, o.world, cli, Planned(mcp, granted))
         /\ ~ o.ok => Same(w, o.world)
<1> DEFINE record == Planned(mcp, granted)
           done == [Captured(w) EXCEPT !.installs[cli] = record]
<1>1. o \in Attempt(w, done)
  BY DEF Install
<1>2. Once(w, done) /\ Puts(w, done, cli, record)
  <2> HIDE DEF record
  <2> QED  BY PuttingIs
<1> HIDE DEF done
<1> QED  BY <1>1, <1>2, AttemptIs

LEMMA AgainIs ==
  ASSUME NEW w, World(w), NEW cli \in ToSet(Clis), NEW granted,
         NEW o \in Again(w, cli, granted)
  PROVE  /\ o.ok \in BOOLEAN /\ AtMostOnce(w, o.world)
         /\ o.ok => /\ CanUpdate(w, cli)
                    /\ Puts(w, o.world, cli, Planned(w.installs[cli].mcp, granted))
         /\ ~ o.ok => Same(w, o.world)
<1>1. CASE CanUpdate(w, cli)
  <2>1. o \in Install(w, cli, w.installs[cli].mcp, granted)
    BY <1>1 DEF Again
  <2> QED  BY <1>1, <2>1, InstallIs DEF Once, AtMostOnce
<1>2. CASE ~ CanUpdate(w, cli)
  <2>1. o = Outcome(FALSE, w)
    BY <1>2 DEF Again, Refused
  <2> QED  BY <2>1 DEF Outcome, AtMostOnce, Same
<1> QED  BY <1>1, <1>2

(* Where nothing was installed, nothing is.                                *)
StaysUninstalled(w, v) ==
  \A c \in ToSet(Clis) : w.installs[c] = None => v.installs[c] = None

LEMMA AgainStays ==
  ASSUME NEW w, World(w), NEW cli \in ToSet(Clis), NEW granted,
         NEW o \in Again(w, cli, granted)
  PROVE  StaysUninstalled(w, o.world)
<1>1. CASE o.ok
  <2>1. /\ w.installs[cli] # None
        /\ \A c \in ToSet(Clis) \ {cli} : o.world.installs[c] = w.installs[c]
    BY <1>1, AgainIs DEF CanUpdate, Puts
  <2> QED  BY <2>1 DEF StaysUninstalled
<1>2. CASE ~ o.ok
  BY <1>2, AgainIs DEF Same, StaysUninstalled
<1> QED  BY <1>1, <1>2

LEMMA UninstallIs ==
  ASSUME NEW w, World(w), NEW cli \in ToSet(Clis), NEW o \in Uninstall(w, cli)
  PROVE  /\ AtMostOnce(w, o.world) /\ o.world.assigned = w.assigned
         /\ StaysUninstalled(w, o.world)
<1> DEFINE done == [Captured(w) EXCEPT !.installs[cli] = None]
<1>1. CASE w.installs[cli] = None
  <2>1. o = Outcome(FALSE, w)
    BY <1>1 DEF Uninstall, Refused
  <2> QED  BY <2>1 DEF Outcome, AtMostOnce, StaysUninstalled
<1>2. CASE w.installs[cli] # None
  <2>1. o \in Attempt(w, done)
    BY <1>2 DEF Uninstall
  <2>2. Once(w, done) /\ Puts(w, done, cli, None)
    BY PuttingIs
  <2> HIDE DEF done
  <2>3. Puts(w, o.world, cli, None) \/ Same(w, o.world)
    BY <2>1, <2>2, AttemptIs
  <2>4. StaysUninstalled(w, o.world)
    BY <2>3 DEF Puts, Same, StaysUninstalled
  <2>5. AtMostOnce(w, o.world)
    BY <2>1, <2>2, AttemptIs DEF Once, AtMostOnce
  <2> QED  BY <2>3, <2>4, <2>5 DEF Puts, Same
<1> QED  BY <1>1, <1>2

LEMMA RestoreIs ==
  ASSUME NEW w, World(w), NEW g \in 1..Len(w.gens), NEW o \in Restore(w, g)
  PROVE  AtMostOnce(w, o.world) /\ o.world.assigned = w.assigned
<1> DEFINE gens == Append(w.gens, w.installs)
           i == w.gens[g]
           u == WorldOf(w.installs, gens, w.binary, w.assigned, w.tries + 1, w.faults)
           x == WorldOf(i, gens, w.binary, w.assigned, w.tries + 1, w.faults)
           done == [Captured(w) EXCEPT !.installs = i]
<1>1. Captured(w) = u /\ World(u)
  BY TriedIs
<1>2. [u EXCEPT !.installs = i] = x
  <2> HIDE DEF i, gens
  <2> QED  BY DEF WorldOf
<1>3. done = x
  BY <1>1, <1>2
<1>4. World(x)
  <2>1. u.gens = gens /\ u.tries = w.tries + 1
    BY DEF WorldOf
  <2>2. IsSeq(gens) /\ (\A n \in 1..Len(gens) : OfClis(gens[n])) /\ w.tries + 1 \in Nat
    <3> HIDE DEF u, gens
    <3> QED  BY <1>1, <2>1 DEF World
  <2>3. OfClis(i)
    BY DEF World
  <2> HIDE DEF u, i, gens
  <2> QED  BY <2>2, <2>3, IsWorld DEF World
<1>5. x.assigned = w.assigned /\ x.tries = w.tries + 1
  BY DEF WorldOf
<1>6. o \in Attempt(w, done)
  BY DEF Restore
<1> HIDE DEF x, u, done
<1> QED  BY <1>3, <1>4, <1>5, <1>6, AttemptIs DEF Once, AtMostOnce, Same

LEMMA UpgradeIs ==
  ASSUME NEW w, World(w), NEW o \in Upgrade(w)
  PROVE  /\ Once(w, o.world) /\ o.ok \in BOOLEAN
         /\ o.world.installs = w.installs /\ o.world.assigned = w.assigned
         /\ o.ok => o.world.binary = Published
<1> DEFINE u == WorldOf(w.installs, w.gens, w.binary, w.assigned, w.tries + 1, w.faults)
           x == WorldOf(w.installs, w.gens, Published, w.assigned, w.tries + 1, w.faults)
           done == [Tried(w) EXCEPT !.binary = Published]
<1>1. Tried(w) = u
  BY TriedIs
<1>2. [u EXCEPT !.binary = Published] = x
  BY DEF WorldOf
<1>3. done = x
  BY <1>1, <1>2
<1>4. World(x)
  <2>1. w.tries + 1 \in Nat
    BY DEF World
  <2> QED  BY <2>1, IsWorld DEF World
<1>5. x.assigned = w.assigned /\ x.tries = w.tries + 1 /\ x.binary = Published
      /\ x.installs = w.installs
  BY DEF WorldOf
<1>6. o \in Attempt(w, done)
  BY DEF Upgrade
<1> HIDE DEF x, u, done
<1> QED  BY <1>3, <1>4, <1>5, <1>6, AttemptIs DEF Once, Same

(* The store of assignments is written last, and for one CLI.              *)
LEMMA ModelsApplyIs ==
  ASSUME NEW w, World(w), NEW cli \in ToSet(Clis), NEW assignments, NEW removals,
         NEW o \in ModelsApply(w, cli, assignments, removals)
  PROVE  /\ AtMostOnce(w, o.world)
         /\ \/ o.world.assigned = w.assigned
            \/ o.world.assigned = [w.assigned EXCEPT ![cli] =
                                     AssignedAfter(@, assignments, removals)]
         /\ StaysUninstalled(w, o.world)
<1> DEFINE stored(v) == [v EXCEPT !.assigned[cli] =
                           AssignedAfter(@, assignments, removals)]
           unstored(v) == IF v.faults < MaxFaults
                          THEN {Outcome(FALSE, [v EXCEPT !.faults = @ + 1])} ELSE {}
           After(p) == IF p.ok THEN {Outcome(TRUE, stored(p.world))} \cup unstored(p.world)
                       ELSE {p}
<1>1. o = Outcome(FALSE, w) \/ \E p \in Update(w, cli) : o \in After(p)
  BY DEF ModelsApply, Refused
<1>2. CASE o = Outcome(FALSE, w)
  BY <1>2 DEF Outcome, AtMostOnce, StaysUninstalled
<1>3. ASSUME NEW p \in Update(w, cli), o \in After(p)
      PROVE  /\ AtMostOnce(w, o.world)
             /\ \/ o.world.assigned = w.assigned
                \/ o.world.assigned = [w.assigned EXCEPT ![cli] =
                                         AssignedAfter(@, assignments, removals)]
             /\ StaysUninstalled(w, o.world)
  <2>0. StaysUninstalled(w, p.world)
    BY <1>3, AgainStays DEF Update
  <2>1. p.ok \in BOOLEAN /\ AtMostOnce(w, p.world) /\ p.world.assigned = w.assigned
    BY <1>3, AgainIs DEF Update, Puts, Same
  <2>2. CASE o = p
    BY <2>0, <2>1, <2>2
  <2>3. PICK i, g, b, a, t, f :
          /\ p.world = WorldOf(i, g, b, a, t, f)
          /\ i = p.world.installs /\ g = p.world.gens /\ b = p.world.binary
          /\ a = p.world.assigned /\ t = p.world.tries /\ f = p.world.faults
    BY <2>1, WorldIs DEF AtMostOnce
  <2>6. /\ OfClis(i) /\ IsSeq(g) /\ (\A n \in 1..Len(g) : OfClis(g[n]))
        /\ OfClis(a) /\ (\A c \in ToSet(Clis) : OfAgents(a[c]))
        /\ t \in Nat /\ f \in 0..MaxFaults
    BY <2>1, <2>3 DEF World, AtMostOnce
  <2>4. CASE o = Outcome(TRUE, stored(p.world))
    <3> DEFINE given == AssignedAfter(a[cli], assignments, removals)
               after == [a EXCEPT ![cli] = given]
               x == WorldOf(i, g, b, after, t, f)
    <3>1. stored(p.world) = [p.world EXCEPT !.assigned = after]
      BY <2>3 DEF WorldOf
    <3>2. [p.world EXCEPT !.assigned = after] = x
      <4> HIDE DEF after
      <4> QED  BY <2>3 DEF WorldOf
    <3>4. OfAgents(a[cli])
      BY <2>6
    <3>5. OfAgents(given)
      BY <3>4 DEF AssignedAfter, OfAgents
    <3>6. OfClis(after) /\ \A c \in ToSet(Clis) : OfAgents(after[c])
      <4> HIDE DEF given
      <4> QED  BY <2>6, <3>5 DEF OfClis
    <3>7. World(x)
      <4> HIDE DEF after
      <4> QED  BY <2>6, <3>6, IsWorld
    <3>8. x.assigned = after /\ x.tries = t /\ x.installs = i
      BY DEF WorldOf
    <3>9. o.world = x
      BY <2>4, <3>1, <3>2 DEF Outcome
    <3>10. after = [w.assigned EXCEPT ![cli] = AssignedAfter(@, assignments, removals)]
      BY <2>1, <2>3
    <3> HIDE DEF x, after
    <3>11. StaysUninstalled(w, x)
      BY <2>0, <2>3, <3>8 DEF StaysUninstalled
    <3> QED  BY <2>1, <2>3, <3>7, <3>8, <3>9, <3>10, <3>11 DEF AtMostOnce
  <2>5. CASE o \in unstored(p.world)
    <3> DEFINE x == WorldOf(i, g, b, a, t, f + 1)
    <3>1. o = Outcome(FALSE, [p.world EXCEPT !.faults = f + 1]) /\ f < MaxFaults
      BY <2>3, <2>5
    <3>2. [p.world EXCEPT !.faults = f + 1] = x
      BY <2>3 DEF WorldOf
    <3>4. f + 1 \in 0..MaxFaults
      <4>1. f < MaxFaults /\ f \in 0..MaxFaults /\ MaxFaults \in Nat
        BY <2>6, <3>1, TuiAssumption
      <4> QED  BY <4>1
    <3>5. World(x)
      BY <2>6, <3>4, IsWorld
    <3>6. x.assigned = a /\ x.tries = t /\ x.installs = i
      BY DEF WorldOf
    <3>7. o.world = x
      BY <3>1, <3>2 DEF Outcome
    <3> HIDE DEF x
    <3>8. StaysUninstalled(w, x)
      BY <2>0, <2>3, <3>6 DEF StaysUninstalled
    <3> QED  BY <2>1, <2>3, <3>5, <3>6, <3>7, <3>8 DEF AtMostOnce
  <2> QED  BY <1>3, <2>2, <2>4, <2>5
<1> QED  BY <1>1, <1>2, <1>3

-----------------------------------------------------------------------------
(* What each move leaves of the stack and its cursors.                     *)

Below(n, m, k) ==
  \A i \in 1..k : m.stack[i] = n.stack[i] /\ m.cursors[i] = n.cursors[i]

LEMMA FrontIs ==
  ASSUME NEW s, IsSeq(s), Len(s) > 0
  PROVE  /\ IsSeq(Front(s)) /\ Len(s) \in Nat
         /\ Len(Front(s)) = Len(s) - 1
         /\ \A i \in 1..(Len(s) - 1) : Front(s)[i] = s[i]
<1> DEFINE k == Len(s) - 1
<1>1. PICK S : s \in Seq(S)
  BY DEF IsSeq
<1>2. k \in Nat /\ k <= Len(s) /\ Len(s) \in Nat
  BY <1>1
<1>3. Front(s) = SubSeq(s, 1, k)
  BY DEF Front
<1> HIDE DEF k
<1>4. \A i \in 1..k : SubSeq(s, 1, k)[i] = s[i]
  BY <1>1, <1>2
<1> QED  BY <1>2, <1>3, <1>4, FrontIsSeq DEF k

(* The top, where the one before it is.                                    *)
Top(n) == Len(n.stack)

LEMMA TopIs ==
  ASSUME NEW n, OnMain(n)
  PROVE  /\ Top(n) \in Nat /\ Top(n) >= 1 /\ Top(n) \in 1..Top(n)
         /\ Current(n) = n.stack[Top(n)] /\ Cursor(n) = n.cursors[Top(n)]
         /\ Len(n.cursors) = Top(n)
         /\ IsSeq(n.stack) /\ IsSeq(n.cursors)
<1>1. IsSeq(n.stack) /\ IsSeq(n.cursors) /\ Len(n.stack) > 0 /\ Len(n.cursors) = Len(n.stack)
  BY DEF OnMain
<1>2. Len(n.stack) \in Nat
  BY <1>1, AppendIsSeq
<1> QED  BY <1>1, <1>2 DEF Top, Current, Cursor, Last

LEMMA OpenedIs ==
  ASSUME NEW n, OnMain(n), NEW screen
  PROVE  LET m == Opened(n, screen) IN
         /\ KeepsMain(n, m) /\ Top(m) = Top(n) + 1 /\ Below(n, m, Top(n))
         /\ m.stack[Top(m)] = screen /\ m.cursors[Top(m)] = 0
<1> DEFINE m == Opened(n, screen)
<1>1. m = [stack |-> Append(n.stack, screen),
           cursors |-> Append(n.cursors, 0), quit |-> n.quit]
  <2>1. Opened(n, screen) = Moves(n, Append(n.stack, screen), Append(n.cursors, 0))
    BY DEF Opened, Moves
  <2> QED  BY <2>1, MoveIs
<1>2. m.stack = Append(n.stack, screen) /\ m.cursors = Append(n.cursors, 0)
  BY <1>1
<1>3. KeepsMain(n, m)
  BY OpenedKeeps
<1> HIDE DEF m
<1>4. /\ Len(m.stack) = Len(n.stack) + 1
      /\ (\A i \in 1..Len(n.stack) : m.stack[i] = n.stack[i])
      /\ m.stack[Len(n.stack) + 1] = screen
  BY <1>2, TopIs, AppendIs
<1>5. /\ (\A i \in 1..Len(n.stack) : m.cursors[i] = n.cursors[i])
      /\ m.cursors[Len(n.stack) + 1] = 0
  BY <1>2, TopIs, AppendIs DEF Top
<1> QED  BY <1>3, <1>4, <1>5 DEF Top, Below, m

LEMMA PopIs ==
  ASSUME NEW n, OnMain(n), Len(n.stack) > 1
  PROVE  LET m == Pop(n) IN
         KeepsMain(n, m) /\ Top(m) = Top(n) - 1 /\ Below(n, m, Top(m))
<1> DEFINE m == Pop(n)
<1>1. m = [stack |-> Front(n.stack), cursors |-> Front(n.cursors), quit |-> n.quit]
  <2>1. Pop(n) = Moves(n, Front(n.stack), Front(n.cursors))
    BY DEF Pop, Moves
  <2> QED  BY <2>1, MoveIs
<1>2. m.stack = Front(n.stack) /\ m.cursors = Front(n.cursors)
  BY <1>1
<1>3. KeepsMain(n, m)
  BY PopKeeps
<1> HIDE DEF m
<1>4. /\ Len(m.stack) = Len(n.stack) - 1
      /\ (\A i \in 1..(Len(n.stack) - 1) : m.stack[i] = n.stack[i])
      /\ (\A i \in 1..(Len(n.stack) - 1) : m.cursors[i] = n.cursors[i])
  BY <1>2, FrontIs DEF OnMain
<1> QED  BY <1>3, <1>4 DEF Top, Below, m

LEMMA SwappedIs ==
  ASSUME NEW n, OnMain(n), Len(n.stack) > 1, NEW screen
  PROVE  LET m == Swapped(n, screen) IN
         /\ KeepsMain(n, m) /\ Top(m) = Top(n) /\ Below(n, m, Top(n) - 1)
         /\ m.stack[Top(m)] = screen /\ m.cursors = n.cursors
<1> DEFINE m == Swapped(n, screen)
           st == Append(Front(n.stack), screen)
<1>1. m = [stack |-> st, cursors |-> n.cursors, quit |-> n.quit]
  BY MoveIs DEF Swapped
<1>2. m.stack = st /\ m.cursors = n.cursors
  BY <1>1
<1>3. KeepsMain(n, m)
  BY SwappedKeeps
<1> HIDE DEF m
<1>4. /\ IsSeq(Front(n.stack)) /\ Len(n.stack) \in Nat
      /\ Len(Front(n.stack)) = Len(n.stack) - 1
      /\ (\A i \in 1..(Len(n.stack) - 1) : Front(n.stack)[i] = n.stack[i])
  BY FrontIs DEF OnMain
<1>5. /\ Len(st) = Len(n.stack) - 1 + 1
      /\ (\A i \in 1..(Len(n.stack) - 1) : st[i] = Front(n.stack)[i])
      /\ st[Len(n.stack) - 1 + 1] = screen
  BY <1>4, AppendIs
<1>6. Len(n.stack) - 1 + 1 = Len(n.stack)
  BY <1>4
<1> HIDE DEF st
<1> QED  BY <1>2, <1>3, <1>4, <1>5, <1>6 DEF Top, Below, m

LEMMA WithCursorIs ==
  ASSUME NEW n, OnMain(n), NEW row, Len(n.stack) = 1 => row \in 0..7
  PROVE  LET m == WithCursor(n, row) IN
         /\ KeepsMain(n, m) /\ m.stack = n.stack /\ Below(n, m, Top(n) - 1)
         /\ m.cursors[Top(m)] = row
<1> DEFINE m == WithCursor(n, row)
           cu == Append(Front(n.cursors), row)
<1>1. m = [stack |-> n.stack, cursors |-> cu, quit |-> n.quit]
  BY MoveIs DEF WithCursor
<1>2. m.stack = n.stack /\ m.cursors = cu
  BY <1>1
<1>3. KeepsMain(n, m)
  BY WithCursorKeeps
<1> HIDE DEF m
<1>4. /\ IsSeq(Front(n.cursors)) /\ Len(n.stack) \in Nat
      /\ Len(Front(n.cursors)) = Len(n.stack) - 1
      /\ (\A i \in 1..(Len(n.stack) - 1) : Front(n.cursors)[i] = n.cursors[i])
  BY FrontIs DEF OnMain
<1>5. /\ (\A i \in 1..(Len(n.stack) - 1) : cu[i] = Front(n.cursors)[i])
      /\ cu[Len(n.stack) - 1 + 1] = row
  BY <1>4, AppendIs
<1>6. Len(n.stack) - 1 + 1 = Len(n.stack)
  BY <1>4
<1> HIDE DEF cu
<1> QED  BY <1>2, <1>3, <1>4, <1>5, <1>6 DEF Top, Below, m

LEMMA ReplacedIs ==
  ASSUME NEW n, OnMain(n), Len(n.stack) > 1, NEW screen
  PROVE  LET m == Replaced(n, screen) IN
         /\ KeepsMain(n, m) /\ Top(m) = Top(n) /\ Below(n, m, Top(n) - 1)
         /\ m.stack[Top(m)] = screen /\ m.cursors[Top(m)] = 0
<1> DEFINE p == Swapped(n, screen)
           m == Replaced(n, screen)
<1>1. /\ KeepsMain(n, p) /\ Top(p) = Top(n) /\ Below(n, p, Top(n) - 1)
      /\ p.stack[Top(p)] = screen /\ OnMain(p)
  BY SwappedIs DEF KeepsMain
<1>2. m = WithCursor(p, 0)
  BY DEF Replaced
<1>3. KeepsMain(n, m)
  BY ReplacedKeeps
<1> HIDE DEF p, m
<1>4. /\ m.stack = p.stack /\ Below(p, m, Top(p) - 1) /\ m.cursors[Top(m)] = 0
  BY <1>1, <1>2, WithCursorIs
<1> QED  BY <1>1, <1>3, <1>4 DEF Top, Below, m

LEMMA ToMainIs ==
  ASSUME NEW n, OnMain(n)
  PROVE  LET m == ToMain(n) IN KeepsMain(n, m) /\ Top(m) = 1 /\ Below(n, m, 1)
<1> DEFINE m == ToMain(n)
           st == SubSeq(n.stack, 1, 1)
           cu == SubSeq(n.cursors, 1, 1)
<1>1. m = [stack |-> st, cursors |-> cu, quit |-> n.quit]
  <2>1. ToMain(n) = Moves(n, st, cu)
    BY DEF ToMain, Moves
  <2> QED  BY <2>1, MoveIs
<1>2. m.stack = st /\ m.cursors = cu
  BY <1>1
<1>3. KeepsMain(n, m)
  BY ToMainKeeps
<1> HIDE DEF m
<1>4. 1 \in Nat /\ 1 <= Len(n.stack) /\ 1 <= Len(n.cursors)
  BY TopIs DEF Top
<1>5. Len(st) = 1 /\ st[1] = n.stack[1] /\ cu[1] = n.cursors[1]
  BY <1>4, PrefixIsSeq DEF OnMain
<1> HIDE DEF st, cu
<1> QED  BY <1>2, <1>3, <1>5 DEF Top, Below, m

LEMMA QuitIs ==
  ASSUME NEW n, OnMain(n)
  PROVE  LET m == [n EXCEPT !.quit = TRUE] IN
         KeepsMain(n, m) /\ m.stack = n.stack /\ m.cursors = n.cursors
<1>1. [n EXCEPT !.quit = TRUE] =
        [stack |-> n.stack, cursors |-> n.cursors, quit |-> TRUE]
  BY MoveIs
<1> QED  BY <1>1, QuitKeeps

-----------------------------------------------------------------------------
(* What a screen is, by its kind.                                          *)

LEMMA TupleIs ==
  ASSUME NEW k \in Nat, NEW s, DOMAIN s = 1..k, s = [i \in 1..k |-> s[i]]
  PROVE  IsSeq(s) /\ Len(s) = k
<1> DEFINE S == {s[i] : i \in 1..k}
<1>1. s \in [1..k -> S]
  OBVIOUS
<1>2. s \in Seq(S)
  BY <1>1
<1>3. Len(s) = k
  BY <1>2
<1> QED  BY <1>2, <1>3, Zenon DEF IsSeq

LEMMA SequencesAre ==
  /\ IsSeq(Clis) /\ IsSeq(Servers) /\ IsSeq(McpKeys) /\ IsSeq(Agents)
  /\ IsSeq(Catalog) /\ IsSeq(Efforts) /\ Efforts # << >>
  /\ \A p \in ToSet(Catalog) : IsSeq(p.models) /\ p.models # << >>
  BY NavigatorAssumption, TuiAssumption, Zenon DEF IsSeq

LEMMA LengthIs ==
  ASSUME NEW s, IsSeq(s)
  PROVE  Len(s) \in Nat /\ (s # << >> => Len(s) > 0) /\ (Len(s) > 0 => s # << >>)
<1>1. PICK S : s \in Seq(S)
  BY DEF IsSeq
<1>2. Len(s) \in Nat /\ (Len(s) = 0 => s = << >>) /\ Len(<< >>) = 0
  BY <1>1
<1> QED  BY <1>2

LEMMA MembersAre ==
  ASSUME NEW s, IsSeq(s), NEW i \in 1..Len(s)
  PROVE  s[i] \in ToSet(s)
<1>1. PICK S : s \in Seq(S)
  BY DEF IsSeq
<1> QED  BY <1>1 DEF ToSet

LEMMA RestoreMenuIs ==
  ASSUME NEW summaries, IsSeq(summaries), NEW skipped
  PROVE  LET s == RestoreMenu(summaries, skipped) IN
         \/ s.kind = "placeholder"
         \/ /\ s.kind = "menu" /\ IsSeq(s.entries) /\ Len(s.entries) > 0
            /\ Len(s.entries) = Len(summaries)
            /\ \A i \in 1..Len(summaries) : s.entries[i] = Generation("restore", summaries[i])
<1> DEFINE s == RestoreMenu(summaries, skipped)
           entries == [i \in 1..Len(summaries) |-> Generation("restore", summaries[i])]
<1>1. CASE summaries = << >>
  BY <1>1 DEF RestoreMenu, Placeholder
<1>2. CASE summaries # << >>
  <2>1. Len(summaries) \in Nat /\ Len(summaries) > 0
    BY <1>2, LengthIs
  <2>2. DOMAIN entries = 1..Len(summaries)
        /\ entries = [i \in 1..Len(summaries) |-> entries[i]]
    OBVIOUS
  <2>3. PICK p : s = Menu(entries, p)
    BY <1>2 DEF RestoreMenu
  <2>4. \A i \in 1..Len(summaries) : entries[i] = Generation("restore", summaries[i])
    OBVIOUS
  <2> HIDE DEF entries, s
  <2>5. IsSeq(entries) /\ Len(entries) = Len(summaries)
    BY <2>1, <2>2, TupleIs
  <2>6. s.kind = "menu" /\ s.entries = entries
    BY <2>3 DEF Menu
  <2> QED  BY <2>1, <2>4, <2>5, <2>6 DEF s
<1> QED  BY <1>1, <1>2

(* The generations offered are there.                                      *)
LEMMA GenerationsMenuIs ==
  ASSUME NEW w, World(w)
  PROVE  LET s == GenerationsMenu(w) IN
         \/ s.kind = "placeholder"
         \/ /\ s.kind = "menu" /\ IsSeq(s.entries) /\ Len(s.entries) > 0
            /\ \A i \in 1..Len(s.entries) :
                 \E g \in 1..Len(w.gens) : s.entries[i] = Generation("restore", g)
<1> DEFINE newest == [i \in 1..Len(w.gens) |-> Len(w.gens) + 1 - i]
           readable == (1..Len(w.gens)) \ Damaged
           summaries == Ordered(newest, readable)
           skipped == Damaged \cap (1..Len(w.gens))
           s == GenerationsMenu(w)
<1>1. Len(w.gens) \in Nat
  BY LengthIs DEF World
<1>2. IsSeq(newest)
  <2>1. DOMAIN newest = 1..Len(w.gens) /\ newest = [i \in 1..Len(w.gens) |-> newest[i]]
    OBVIOUS
  <2> HIDE DEF newest
  <2> QED  BY <1>1, <2>1, TupleIs
<1>3. s = RestoreMenu(summaries, skipped)
  BY DEF GenerationsMenu
<1> HIDE DEF s, newest, skipped
<1>4. Selects(summaries, newest, readable, Len(newest))
  BY <1>2, OrderedIs
<1> HIDE DEF summaries, readable
<1>5. IsSeq(summaries) /\ \A i \in 1..Len(summaries) : summaries[i] \in readable
  BY <1>4 DEF Selects
<1>6. \/ s.kind = "placeholder"
      \/ /\ s.kind = "menu" /\ IsSeq(s.entries) /\ Len(s.entries) > 0
         /\ Len(s.entries) = Len(summaries)
         /\ \A i \in 1..Len(summaries) : s.entries[i] = Generation("restore", summaries[i])
  BY <1>3, <1>5, RestoreMenuIs
<1>7. \A i \in 1..Len(summaries) : summaries[i] \in 1..Len(w.gens)
  BY <1>5 DEF readable
<1> QED  BY <1>6, <1>7 DEF s

LEMMA PreviewIs ==
  ASSUME NEW e, NEW about
  PROVE  LET s == Menu(<<Cancel, e>>, about) IN
         /\ s.kind = "menu" /\ IsSeq(s.entries) /\ Len(s.entries) = 2
         /\ s.entries[1] = Cancel /\ s.entries[2] = e
<1>1. <<Cancel, e>> \in Seq({Cancel, e})
  OBVIOUS
<1>2. IsSeq(<<Cancel, e>>)
  BY <1>1 DEF IsSeq
<1> QED  BY <1>2 DEF Menu

Machine(s, w) ==
  \/ s = GenerationsMenu(w)
  \/ \E c \in ToSet(Clis) : s = UninstallPreview(w, c)
  \/ \E g \in 1..Len(w.gens) : s = RestorePreview(w, g)

LEMMA KindsAre ==
  ASSUME NEW s, NEW w, World(w), Made(s, w)
  PROVE  /\ s.kind \in {"menu", "placeholder", "mcp", "grant", "models", "plan", "status"}
         /\ s.kind = "menu" => Fixed(s) \/ Machine(s, w)
         /\ s.kind = "mcp" => IsMcp(s)
         /\ s.kind = "grant" => IsGrant(s, w)
         /\ s.kind = "models" => IsModels(s, w)
         /\ s.kind = "plan" => IsPlan(s, w)
         /\ s.kind = "status" => s = Status(w.installs)
<1>1. CASE Fixed(s)
  BY <1>1 DEF Fixed, IsMain, IsCliMenu
<1>2. CASE s.kind = "placeholder"
  BY <1>2
<1>3. CASE IsMcp(s)
  BY <1>3 DEF IsMcp
<1>4. CASE IsGrant(s, w)
  BY <1>4 DEF IsGrant
<1>5. CASE IsModels(s, w)
  BY <1>5 DEF IsModels
<1>6. CASE IsPlan(s, w)
  BY <1>6 DEF IsPlan
<1>7. CASE s = Status(w.installs)
  BY <1>7 DEF Status
<1>8. CASE s = GenerationsMenu(w)
  BY <1>8, GenerationsMenuIs DEF Machine
<1>9. CASE (\E c \in ToSet(Clis) : s = UninstallPreview(w, c))
           \/ \E g \in 1..Len(w.gens) : s = RestorePreview(w, g)
  <2>1. s.kind = "menu"
    BY <1>9 DEF UninstallPreview, RestorePreview, Menu
  <2> QED  BY <1>9, <2>1 DEF Machine
<1> QED  BY <1>1, <1>2, <1>3, <1>4, <1>5, <1>6, <1>7, <1>8, <1>9 DEF Made

(* The rows of a menu, and what each leads to.                             *)
LeadsTo(e, s, w) ==
  /\ e.to \in {"open", "quit", "status", "upgrade", "install", "update", "models",
               "grant", "uninstall", "cancel", "uninstallConfirm", "restore",
               "restoreConfirm"}
  /\ e.to \in {"install", "update", "models", "grant", "uninstall", "uninstallConfirm"}
       => e.cli \in ToSet(Clis)
  /\ e.to \in {"restore", "restoreConfirm"} => e.generation \in 1..Len(w.gens)
  /\ e.to = "open" => IsCliMenu(e.screen) \/ e.screen.kind = "placeholder"
  /\ e.to \in {"open", "models"} => Fixed(s)

LEMMA MenusAre ==
  ASSUME NEW s, NEW w, World(w), Made(s, w), s.kind = "menu"
  PROVE  /\ IsSeq(s.entries) /\ Len(s.entries) \in Nat /\ Len(s.entries) > 0
         /\ \A i \in 1..Len(s.entries) : LeadsTo(s.entries[i], s, w)
<1>1. CASE Fixed(s)
  <2>1. IsSeq(s.entries) /\ Len(s.entries) > 0
    BY <1>1 DEF Fixed, IsMain, IsCliMenu
  <2>2. ASSUME NEW i \in 1..Len(s.entries) PROVE LeadsTo(s.entries[i], s, w)
    <3>1. CASE IsMain(s)
      <4>1. LeadsOn(s.entries[i])
        BY <3>1 DEF IsMain
      <4> QED  BY <1>1, <4>1 DEF LeadsOn, LeadsTo
    <3>2. CASE IsCliMenu(s)
      BY <1>1, <3>2 DEF IsCliMenu, LeadsTo
    <3> QED  BY <1>1, <3>1, <3>2 DEF Fixed
  <2> QED  BY <2>1, <2>2, LengthIs
<1>2. CASE s = GenerationsMenu(w)
  <2>1. /\ IsSeq(s.entries) /\ Len(s.entries) > 0
        /\ \A i \in 1..Len(s.entries) :
             \E g \in 1..Len(w.gens) : s.entries[i] = Generation("restore", g)
    BY <1>2, GenerationsMenuIs
  <2>2. \A g \in 1..Len(w.gens) : LeadsTo(Generation("restore", g), s, w)
    BY DEF Generation, LeadsTo
  <2> QED  BY <2>1, <2>2, LengthIs
<1>3. ASSUME NEW e, NEW about, s = Menu(<<Cancel, e>>, about), LeadsTo(e, s, w)
      PROVE  /\ IsSeq(s.entries) /\ Len(s.entries) > 0
             /\ \A i \in 1..Len(s.entries) : LeadsTo(s.entries[i], s, w)
  <2>1. /\ IsSeq(s.entries) /\ Len(s.entries) = 2
        /\ s.entries[1] = Cancel /\ s.entries[2] = e
    BY <1>3, PreviewIs
  <2>2. LeadsTo(Cancel, s, w)
    BY DEF Cancel, LeadsTo
  <2>3. \A i \in 1..2 : i = 1 \/ i = 2
    OBVIOUS
  <2> QED  BY <1>3, <2>1, <2>2, <2>3
<1>4. CASE \E c \in ToSet(Clis) : s = UninstallPreview(w, c)
  <2>1. PICK c \in ToSet(Clis) : s = UninstallPreview(w, c)
    BY <1>4
  <2>2. LeadsTo(Target("uninstallConfirm", c), s, w)
    BY DEF Target, LeadsTo
  <2> QED  BY <1>3, <2>1, <2>2, LengthIs DEF UninstallPreview
<1>5. CASE \E g \in 1..Len(w.gens) : s = RestorePreview(w, g)
  <2>1. PICK g \in 1..Len(w.gens) : s = RestorePreview(w, g)
    BY <1>5
  <2>2. LeadsTo(Generation("restoreConfirm", g), s, w)
    BY DEF Generation, LeadsTo
  <2> QED  BY <1>3, <2>1, <2>2, LengthIs DEF RestorePreview
<1> QED  BY <1>1, <1>2, <1>4, <1>5, KindsAre DEF Machine

(* What tells of the machine is none of the menus that do not.             *)
LEMMA MachineIsNotFixed ==
  ASSUME NEW s, NEW w, World(w), Machine(s, w)
  PROVE  ~ Fixed(s)
<1> SUFFICES ASSUME Fixed(s) PROVE FALSE  OBVIOUS
<1>1. /\ s.kind = "menu" /\ Len(s.entries) > 0
      /\ s.entries[1].to \in {"open", "upgrade", "status", "quit", "install", "update",
                              "models", "grant", "uninstall"}
  <2>1. CASE IsMain(s)
    BY <2>1 DEF IsMain, LeadsOn
  <2>2. CASE IsCliMenu(s)
    <3>1. 1 \in 1..Len(s.entries)
      BY <2>2, LengthIs DEF IsCliMenu
    <3> QED  BY <2>2, <3>1 DEF IsCliMenu
  <2> QED  BY <2>1, <2>2 DEF Fixed
<1>2. CASE s = GenerationsMenu(w)
  <2>1. 1 \in 1..Len(s.entries)
    BY <1>1, <1>2, GenerationsMenuIs, LengthIs
  <2>2. \E g : s.entries[1] = Generation("restore", g)
    BY <1>1, <1>2, <2>1, GenerationsMenuIs
  <2> QED  BY <1>1, <2>2 DEF Generation
<1>3. CASE \E e, about : s = Menu(<<Cancel, e>>, about)
  <2>1. s.entries[1] = Cancel
    BY <1>3, PreviewIs
  <2> QED  BY <1>1, <2>1 DEF Cancel
<1> QED  BY <1>2, <1>3 DEF Machine, UninstallPreview, RestorePreview

-----------------------------------------------------------------------------
(* The wizard for models.                                                  *)

ModelsOf(c, r, a, p, m, st) ==
  [kind |-> "models", cli |-> c, providers |-> Catalog, rows |-> r, agent |-> a,
   provider |-> p, model |-> m, staged |-> st]

RowsFor(w, cli) ==
  [i \in 1..Len(Agents) |->
     [agent |-> Agents[i], current |-> CurrentAssignment(w, cli, Agents[i])]]

LEMMA ModelsOfIs ==
  ASSUME NEW c, NEW r, NEW a, NEW p, NEW m, NEW st
  PROVE  /\ ModelsOf(c, r, a, p, m, st).kind = "models"
         /\ ModelsOf(c, r, a, p, m, st).cli = c
         /\ ModelsOf(c, r, a, p, m, st).providers = Catalog
         /\ ModelsOf(c, r, a, p, m, st).rows = r
         /\ ModelsOf(c, r, a, p, m, st).agent = a
         /\ ModelsOf(c, r, a, p, m, st).provider = p
         /\ ModelsOf(c, r, a, p, m, st).model = m
         /\ ModelsOf(c, r, a, p, m, st).staged = st
  BY DEF ModelsOf

(* What is the same of the wizard from step to step.                       *)
Wizard(c, r, w) ==
  c \in ToSet(Clis) /\ ModelsScreen(w, c).kind = "models" /\ r = ModelsScreen(w, c).rows
StepsAgree(a, p, m) ==
  /\ a = None => p = None
  /\ p = None => m = None
  /\ p # None => \E q \in ToSet(Catalog) : q.id = p

LEMMA ModelsAre ==
  ASSUME NEW s, NEW w, IsModels(s, w)
  PROVE  \E c, r, a, p, m, st :
           /\ s = ModelsOf(c, r, a, p, m, st)
           /\ Wizard(c, r, w) /\ StepsAgree(a, p, m) /\ StagedOnce(st)
<1>1. s = ModelsOf(s.cli, s.rows, s.agent, s.provider, s.model, s.staged)
  BY DEF IsModels, ModelsOf
<1>2. Wizard(s.cli, s.rows, w) /\ StepsAgree(s.agent, s.provider, s.model)
      /\ StagedOnce(s.staged)
  BY DEF IsModels, Wizard, StepsAgree
<1> QED  BY <1>1, <1>2

LEMMA AreModels ==
  ASSUME NEW c, NEW r, NEW a, NEW p, NEW m, NEW st, NEW w,
         Wizard(c, r, w), StepsAgree(a, p, m), StagedOnce(st)
  PROVE  IsModels(ModelsOf(c, r, a, p, m, st), w)
<1> DEFINE s == ModelsOf(c, r, a, p, m, st)
<1>1. /\ s.kind = "models" /\ s.cli = c /\ s.rows = r /\ s.agent = a /\ s.provider = p
      /\ s.model = m /\ s.staged = st
      /\ s = [kind |-> "models", cli |-> c, providers |-> Catalog, rows |-> r,
              agent |-> a, provider |-> p, model |-> m, staged |-> st]
  BY DEF ModelsOf
<1> HIDE DEF s
<1>2. IsModels(s, w)
  BY <1>1 DEF IsModels, Wizard, StepsAgree
<1> QED  BY <1>2 DEF s

LEMMA NothingStaged == StagedOnce(<< >>)
<1>1. << >> \in Seq({}) /\ Len(<< >>) = 0
  OBVIOUS
<1>2. \A i : ~ (i \in 1..0)
  OBVIOUS
<1> QED  BY <1>1, <1>2 DEF StagedOnce, IsSeq

LEMMA ModelsScreenIs ==
  ASSUME NEW w, NEW cli \in ToSet(Clis)
  PROVE  LET s == ModelsScreen(w, cli) IN
         \/ s.kind = "placeholder"
         \/ IsModels(s, w) /\ s.rows = RowsFor(w, cli)
<1> DEFINE s == ModelsScreen(w, cli)
<1>1. s.kind = "placeholder" \/ s = ModelsOf(cli, RowsFor(w, cli), None, None, None, << >>)
  BY DEF ModelsScreen, Placeholder, Models, ModelsOf, RowsFor
<1>2. ASSUME s = ModelsOf(cli, RowsFor(w, cli), None, None, None, << >>)
      PROVE  IsModels(s, w) /\ s.rows = RowsFor(w, cli)
  <2>1. s.kind = "models" /\ s.rows = RowsFor(w, cli)
    BY <1>2, ModelsOfIs
  <2>2. Wizard(cli, RowsFor(w, cli), w)
    BY <2>1 DEF Wizard
  <2>3. StepsAgree(None, None, None)
    BY DEF StepsAgree
  <2> HIDE DEF s
  <2>4. IsModels(ModelsOf(cli, RowsFor(w, cli), None, None, None, << >>), w)
    BY <2>2, <2>3, NothingStaged, AreModels
  <2> QED  BY <1>2, <2>1, <2>4
<1> QED  BY <1>1, <1>2

LEMMA WizardRows ==
  ASSUME NEW c, NEW r, NEW w, Wizard(c, r, w)
  PROVE  /\ r = RowsFor(w, c) /\ IsSeq(r)
         /\ Len(r) = Len(Agents) /\ Len(r) \in Nat
<1>1. r = RowsFor(w, c)
  <2>1. ~ (ModelsScreen(w, c).kind = "placeholder")
    BY DEF Wizard
  <2> QED  BY <2>1, ModelsScreenIs DEF Wizard
<1>2. Len(Agents) \in Nat
  BY SequencesAre, LengthIs
<1>3. DOMAIN r = 1..Len(Agents) /\ r = [i \in 1..Len(Agents) |-> r[i]]
  BY <1>1 DEF RowsFor
<1> QED  BY <1>1, <1>2, <1>3, TupleIs

(* Every step of it has something to choose.                               *)
LEMMA ModelsSteps ==
  ASSUME NEW s, NEW w, IsModels(s, w)
  PROVE  /\ RowsOf(s) = ModelsStepCount(s)
         /\ ModelsStepCount(s) \in Nat /\ ModelsStepCount(s) > 0
         /\ Len(s.rows) \in Nat
         /\ s.agent = None => ModelsStepCount(s) = Len(s.rows) + 1
         /\ s.agent # None /\ s.provider = None => ModelsStepCount(s) = Len(Catalog)
<1>1. PICK c, r, a, p, m, st :
        /\ s = ModelsOf(c, r, a, p, m, st)
        /\ Wizard(c, r, w) /\ StepsAgree(a, p, m) /\ StagedOnce(st)
  BY ModelsAre
<1>2. /\ s.kind = "models" /\ s.rows = r /\ s.agent = a /\ s.provider = p
      /\ s.model = m /\ s.providers = Catalog
  BY <1>1, ModelsOfIs
<1>3. RowsOf(s) = ModelsStepCount(s)
  BY <1>2 DEF RowsOf
<1>4. Len(r) \in Nat
  BY <1>1, WizardRows
<1>5. Len(Catalog) \in Nat /\ Len(Efforts) \in Nat /\ Len(Efforts) > 0
  BY SequencesAre, LengthIs
<1>6. Len(Catalog) > 0
  <2>1. Catalog # << >>
    BY <1>1 DEF Wizard, ModelsScreen, Placeholder
  <2> QED  BY <2>1, SequencesAre, LengthIs
<1>7. p # None => Len(ModelsProvider(s).models) \in Nat /\ Len(ModelsProvider(s).models) > 0
  <2>1. ASSUME p # None PROVE ModelsProvider(s) \in ToSet(Catalog)
    <3>1. \E q \in ToSet(Catalog) : q.id = p
      BY <1>1, <2>1 DEF StepsAgree
    <3>2. ModelsProvider(s) = CHOOSE q \in ToSet(Catalog) : q.id = p
      BY <1>2 DEF ModelsProvider
    <3> QED  BY <3>1, <3>2
  <2> QED  BY <2>1, SequencesAre, LengthIs
<1>8. /\ m # None => ModelsStepCount(s) = Len(Efforts)
      /\ m = None /\ p # None => ModelsStepCount(s) = Len(ModelsProvider(s).models)
      /\ m = None /\ p = None /\ a # None => ModelsStepCount(s) = Len(Catalog)
      /\ m = None /\ p = None /\ a = None => ModelsStepCount(s) = Len(r) + 1
  BY <1>2, Zenon DEF ModelsStepCount
<1>9. /\ a = None => m = None /\ p = None
      /\ p = None => m = None
  BY <1>1 DEF StepsAgree
<1>10. ModelsStepCount(s) \in Nat /\ ModelsStepCount(s) > 0
  <2>1. CASE m # None
    BY <2>1, <1>5, <1>8
  <2>2. CASE m = None /\ p # None
    BY <2>2, <1>7, <1>8
  <2>3. CASE m = None /\ p = None /\ a # None
    BY <2>3, <1>5, <1>6, <1>8
  <2>4. CASE m = None /\ p = None /\ a = None
    BY <2>4, <1>4, <1>8
  <2> QED  BY <2>1, <2>2, <2>3, <2>4
<1> QED  BY <1>2, <1>3, <1>4, <1>8, <1>9, <1>10

(* Every screen has a row to be on.                                        *)
LEMMA RowsAre ==
  ASSUME NEW s, NEW w, World(w), Made(s, w)
  PROVE  /\ RowsOf(s) \in Nat /\ RowsOf(s) > 0
         /\ s.kind = "menu" => RowsOf(s) = Len(s.entries)
         /\ s.kind \in {"mcp", "grant"} => RowsOf(s) = Len(s.options) + 1 /\ Len(s.options) \in Nat
<1>1. CASE s.kind = "menu"
  BY <1>1, MenusAre DEF RowsOf
<1>2. CASE s.kind \in {"mcp", "grant"}
  <2>1. IsSeq(s.options)
    BY <1>2, KindsAre DEF IsMcp, IsGrant
  <2>2. Len(s.options) \in Nat
    BY <2>1, LengthIs
  <2>3. RowsOf(s) = Len(s.options) + 1
    BY <1>2 DEF RowsOf
  <2> QED  BY <1>2, <2>2, <2>3
<1>3. CASE s.kind = "models"
  BY <1>3, KindsAre, ModelsSteps
<1>4. CASE s.kind \in {"placeholder", "plan", "status"}
  BY <1>4 DEF RowsOf
<1> QED  BY <1>1, <1>2, <1>3, <1>4, KindsAre

-----------------------------------------------------------------------------
(* How a move keeps the screens: part of what was there stays, and at most  *)
(* one screen is put on it.                                                *)

(* What may be put on a screen that is on top, or in its place.            *)
GoesOn(n, k, s) ==
  Fixed(s) \/ s.kind = "models" => \A i \in 1..k : Fixed(n.stack[i])

Untouched(n, w) == OnScreen(n, w) /\ Current(n).kind \notin Results

LEMMA UntouchedIs ==
  ASSUME NEW n, NEW w, Untouched(n, w)
  PROVE  /\ OnMain(n) /\ IsMain(n.stack[1]) /\ CursorsOn(n) /\ Layered(n)
         /\ \A i \in 1..Top(n) : Made(n.stack[i], w)
         /\ Made(Current(n), w) /\ GoesOn(n, Top(n) - 1, Current(n))
         /\ Cursor(n) \in 0..(RowsOf(Current(n)) - 1)
         /\ Top(n) \in Nat /\ Top(n) >= 1 /\ Current(n) = n.stack[Top(n)]
<1>1. /\ OnMain(n) /\ IsMain(n.stack[1]) /\ CursorsOn(n) /\ Layered(n)
      /\ \A i \in 1..Top(n) : Made(n.stack[i], w)
  BY DEF Untouched, OnScreen, Top
<1>2. /\ Top(n) \in Nat /\ Top(n) >= 1 /\ Top(n) \in 1..Top(n)
      /\ Current(n) = n.stack[Top(n)] /\ Cursor(n) = n.cursors[Top(n)]
  BY <1>1, TopIs
<1>3. Made(Current(n), w) /\ Cursor(n) \in 0..(RowsOf(Current(n)) - 1)
  BY <1>1, <1>2 DEF CursorsOn, Top
<1>4. GoesOn(n, Top(n) - 1, Current(n))
  <2>1. \A i \in 1..(Top(n) - 1) : i \in 1..Top(n) /\ i < Top(n)
    BY <1>2
  <2> QED  BY <1>1, <1>2, <2>1 DEF GoesOn, Layered, Top
<1> QED  BY <1>1, <1>2, <1>3, <1>4

(* Screens are taken off the top.                                          *)
LEMMA PrefixOnScreen ==
  ASSUME NEW n, NEW w, OnScreen(n, w), NEW v, NEW m, KeepsMain(n, m),
         Top(m) <= Top(n), Below(n, m, Top(m)),
         \A i \in 1..Top(m) : Made(n.stack[i], v),
         Layered(n) \/ Top(m) = 1
  PROVE  OnScreen(m, v)
<1>1. OnMain(n) /\ OnMain(m) /\ m.stack[1] = n.stack[1] /\ IsMain(n.stack[1]) /\ CursorsOn(n)
  BY DEF OnScreen, KeepsMain
<1>2. Top(n) \in Nat /\ Top(m) \in Nat
  BY <1>1, TopIs
<1>3. \A i \in 1..Top(m) : i \in 1..Top(n) /\ m.stack[i] = n.stack[i] /\ m.cursors[i] = n.cursors[i]
  BY <1>2 DEF Below
<1>4. CursorsOn(m)
  BY <1>1, <1>3 DEF CursorsOn, Top
<1>5. Layered(m)
  <2>1. CASE Layered(n)
    BY <2>1, <1>3 DEF Layered, Top
  <2>2. CASE Top(m) = 1
    <3>1. \A i, j \in 1..1 : ~ (i < j)
      OBVIOUS
    <3> QED  BY <2>2, <3>1 DEF Layered, Top
  <2> QED  BY <2>1, <2>2
<1>6. \A i \in 1..Len(m.stack) : Made(m.stack[i], v)
  BY <1>3 DEF Top
<1> QED  BY <1>1, <1>4, <1>5, <1>6 DEF OnScreen

(* A screen is put on the first k.                                         *)
LEMMA TopOnScreen ==
  ASSUME NEW n, NEW w, Untouched(n, w), NEW v, World(v), NEW m, KeepsMain(n, m), NEW k \in Nat,
         k <= Top(n), Top(m) = k + 1, Below(n, m, k),
         \A i \in 1..k : Made(n.stack[i], v),
         NEW s, m.stack[k + 1] = s, m.cursors[k + 1] \in 0..(RowsOf(s) - 1),
         \/ s.kind \in Results
         \/ Made(s, v) /\ GoesOn(n, k, s)
  PROVE  OnScreen(m, v) /\ Current(m) = s
<1>1. OnMain(n) /\ OnMain(m) /\ m.stack[1] = n.stack[1] /\ IsMain(n.stack[1])
      /\ CursorsOn(n) /\ Layered(n)
  BY UntouchedIs DEF KeepsMain
<1>2. Top(n) \in Nat /\ Current(m) = s
  BY <1>1, TopIs
<1>3. /\ \A i \in 1..k : i \in 1..Top(n) /\ m.stack[i] = n.stack[i] /\ m.cursors[i] = n.cursors[i]
      /\ \A i \in 1..(k + 1) : i \in 1..k \/ i = k + 1
  BY <1>2 DEF Below
<1>4. CursorsOn(m)
  BY <1>1, <1>3 DEF CursorsOn, Top
<1>5. CASE s.kind \in Results
  BY <1>1, <1>2, <1>4, <1>5 DEF OnScreen
<1>6. CASE Made(s, v) /\ GoesOn(n, k, s)
  <2>1. ASSUME NEW i \in 1..Len(m.stack), NEW j \in 1..Len(m.stack), i < j,
               Fixed(m.stack[j]) \/ m.stack[j].kind = "models"
        PROVE  Fixed(m.stack[i])
    <3>1. i \in 1..k /\ (j \in 1..k \/ j = k + 1)
      BY <1>3, <2>1 DEF Top
    <3>2. CASE j \in 1..k
      BY <1>1, <1>3, <2>1, <3>1, <3>2 DEF Layered, Top
    <3>3. CASE j = k + 1
      BY <1>3, <1>6, <2>1, <3>1, <3>3 DEF GoesOn
    <3> QED  BY <3>1, <3>2, <3>3
  <2>2. Layered(m)
    BY <2>1 DEF Layered
  <2>3. \A i \in 1..Len(m.stack) : Made(m.stack[i], v)
    BY <1>3, <1>6 DEF Top
  <2> QED  BY <1>1, <1>2, <1>4, <2>2, <2>3 DEF OnScreen
<1> QED  BY <1>5, <1>6

LEMMA OpenedOnScreen ==
  ASSUME NEW n, NEW w, Untouched(n, w), NEW v, World(v), NEW s,
         \/ s.kind \in Results
         \/ v = w /\ Made(s, w) /\ GoesOn(n, Top(n), s)
  PROVE  OnScreen(Opened(n, s), v) /\ Current(Opened(n, s)) = s
<1> DEFINE m == Opened(n, s)
<1>1. /\ OnMain(n) /\ IsMain(n.stack[1]) /\ CursorsOn(n) /\ Layered(n)
      /\ Top(n) \in Nat /\ \A i \in 1..Top(n) : Made(n.stack[i], w)
  BY UntouchedIs
<1>2. /\ KeepsMain(n, m) /\ Top(m) = Top(n) + 1 /\ Below(n, m, Top(n))
      /\ m.stack[Top(m)] = s /\ m.cursors[Top(m)] = 0
  BY <1>1, OpenedIs
<1> HIDE DEF m
<1>3. CASE v = w /\ Made(s, w) /\ GoesOn(n, Top(n), s)
  <2>1. 0 \in 0..(RowsOf(s) - 1)
    BY <1>3, RowsAre
  <2> QED  BY <1>1, <1>2, <1>3, <2>1, TopOnScreen DEF m
<1>4. CASE s.kind \in Results
  <2>1. RowsOf(s) = 1
    BY <1>4 DEF Results, RowsOf
  <2>2. OnMain(m) /\ m.stack[1] = n.stack[1] /\ Current(m) = s
    BY <1>2, TopIs DEF KeepsMain
  <2>3. CursorsOn(m)
    <3>1. ASSUME NEW i \in 1..Len(m.stack) PROVE m.cursors[i] \in 0..(RowsOf(m.stack[i]) - 1)
      <4>1. i \in 1..Top(n) \/ i = Top(m)
        BY <1>1, <1>2 DEF Top
      <4>2. CASE i \in 1..Top(n)
        BY <1>1, <1>2, <4>2 DEF CursorsOn, Below, Top
      <4>3. CASE i = Top(m)
        BY <1>2, <2>1, <4>3
      <4> QED  BY <4>1, <4>2, <4>3
    <3> QED  BY <3>1 DEF CursorsOn
  <2>4. OnScreen(m, v)
    BY <1>1, <1>4, <2>2, <2>3 DEF OnScreen
  <2> QED  BY <2>2, <2>4 DEF m
<1> QED  BY <1>3, <1>4

LEMMA PopOnScreen ==
  ASSUME NEW n, NEW w, World(w), Untouched(n, w), Len(n.stack) > 1
  PROVE  Untouched(Pop(n), w)
<1> DEFINE m == Pop(n)
<1>1. /\ OnMain(n) /\ Layered(n) /\ Top(n) \in Nat /\ OnScreen(n, w)
      /\ \A i \in 1..Top(n) : Made(n.stack[i], w)
  BY UntouchedIs DEF Untouched
<1>2. KeepsMain(n, m) /\ Top(m) = Top(n) - 1 /\ Below(n, m, Top(m))
  BY <1>1, PopIs
<1> HIDE DEF m
<1>3. Top(m) <= Top(n) /\ \A i \in 1..Top(m) : i \in 1..Top(n)
  BY <1>1, <1>2
<1>4. OnScreen(m, w)
  BY <1>1, <1>2, <1>3, PrefixOnScreen
<1>5. Current(m) = n.stack[Top(m)] /\ Top(m) \in 1..Top(m)
  BY <1>2, TopIs DEF KeepsMain, Below
<1>6. Current(m).kind \notin Results
  BY <1>1, <1>3, <1>5, KindsAre DEF Results
<1> QED  BY <1>4, <1>6 DEF Untouched, m

(* A screen in the place of the one on top.                                *)
LEMMA InPlaceOnScreen ==
  ASSUME NEW n, NEW w, World(w), Untouched(n, w), NEW m, KeepsMain(n, m),
         Top(m) = Top(n), Below(n, m, Top(n) - 1),
         NEW s, m.stack[Top(m)] = s, Made(s, w), GoesOn(n, Top(n) - 1, s),
         m.cursors[Top(m)] \in 0..(RowsOf(s) - 1)
  PROVE  Untouched(m, w)
<1>1. /\ Top(n) \in Nat /\ Top(n) >= 1
      /\ \A i \in 1..Top(n) : Made(n.stack[i], w)
  BY UntouchedIs
<1>2. PICK k \in Nat : k + 1 = Top(n)
  <2>1. Top(n) - 1 \in Nat /\ Top(n) - 1 + 1 = Top(n)
    BY <1>1
  <2> QED  BY <2>1
<1>3. k <= Top(n) /\ Top(n) - 1 = k /\ \A i \in 1..k : i \in 1..Top(n)
  BY <1>2
<1>4. OnScreen(m, w) /\ Current(m) = s
  BY <1>1, <1>2, <1>3, TopOnScreen
<1>5. s.kind \notin Results
  BY KindsAre DEF Results
<1> QED  BY <1>4, <1>5 DEF Untouched

LEMMA MovedOnScreen ==
  ASSUME NEW n, NEW w, World(w), Untouched(n, w), NEW key
  PROVE  Untouched(Moved(n, key, RowsOf(Current(n))), w)
<1> DEFINE s == Current(n)
           count == RowsOf(s)
           row == (Cursor(n) + (IF key = "down" THEN 1 ELSE -1)) % count
           m == WithCursor(n, row)
<1>1. /\ OnMain(n) /\ Made(s, w) /\ GoesOn(n, Top(n) - 1, s)
      /\ Cursor(n) \in 0..(count - 1) /\ s = n.stack[Top(n)]
      /\ IsMain(n.stack[1])
  BY UntouchedIs
<1>2. count \in Nat /\ count > 0
  BY <1>1, RowsAre
<1>3. Moved(n, key, count) = m
  BY <1>2 DEF Moved
<1>4. row \in 0..(count - 1)
  <2>1. Cursor(n) \in Int
    BY <1>1, <1>2
  <2>2. PICK x \in Int : x = Cursor(n) + (IF key = "down" THEN 1 ELSE -1)
    BY <2>1
  <2> HIDE DEF count
  <2>3. x % count \in 0..(count - 1)
    BY <1>2
  <2> QED  BY <2>2, <2>3
<1>5. Len(n.stack) = 1 => row \in 0..7
  <2>1. ASSUME Len(n.stack) = 1 PROVE count = 8
    <3>1. s = n.stack[1]
      BY <1>1, <2>1 DEF Top
    <3> QED  BY <1>1, <3>1 DEF IsMain, RowsOf
  <2> HIDE DEF row, count
  <2> QED  BY <1>4, <2>1
<1> HIDE DEF row, count
<1>6. /\ KeepsMain(n, m) /\ m.stack = n.stack /\ Below(n, m, Top(n) - 1)
      /\ m.cursors[Top(m)] = row
  BY <1>1, <1>5, WithCursorIs
<1>7. Top(m) = Top(n) /\ m.stack[Top(m)] = s
  BY <1>1, <1>6 DEF Top
<1> HIDE DEF m, s
<1>8. Untouched(m, w)
  BY <1>1, <1>4, <1>6, <1>7, InPlaceOnScreen DEF count
<1> QED  BY <1>3, <1>8 DEF count, s

LEMMA SwappedOnScreen ==
  ASSUME NEW n, NEW w, World(w), Untouched(n, w), Len(n.stack) > 1,
         NEW s, Made(s, w), GoesOn(n, Top(n) - 1, s), Cursor(n) \in 0..(RowsOf(s) - 1)
  PROVE  Untouched(Swapped(n, s), w)
<1> DEFINE m == Swapped(n, s)
<1>1. OnMain(n)
  BY UntouchedIs
<1>2. /\ KeepsMain(n, m) /\ Top(m) = Top(n) /\ Below(n, m, Top(n) - 1)
      /\ m.stack[Top(m)] = s /\ m.cursors = n.cursors
  BY <1>1, SwappedIs
<1>3. Cursor(n) = n.cursors[Top(n)]
  BY <1>1, TopIs
<1> HIDE DEF m
<1>4. Untouched(m, w)
  BY <1>2, <1>3, InPlaceOnScreen
<1> QED  BY <1>4 DEF m

LEMMA ReplacedOnScreen ==
  ASSUME NEW n, NEW w, World(w), Untouched(n, w), Len(n.stack) > 1,
         NEW s, Made(s, w), GoesOn(n, Top(n) - 1, s)
  PROVE  Untouched(Replaced(n, s), w)
<1> DEFINE m == Replaced(n, s)
<1>1. OnMain(n)
  BY UntouchedIs
<1>2. /\ KeepsMain(n, m) /\ Top(m) = Top(n) /\ Below(n, m, Top(n) - 1)
      /\ m.stack[Top(m)] = s /\ m.cursors[Top(m)] = 0
  BY <1>1, ReplacedIs
<1>3. 0 \in 0..(RowsOf(s) - 1)
  BY RowsAre
<1> HIDE DEF m
<1>4. Untouched(m, w)
  BY <1>2, <1>3, InPlaceOnScreen
<1> QED  BY <1>4 DEF m

LEMMA QuitOnScreen ==
  ASSUME NEW n, NEW w, OnScreen(n, w)
  PROVE  OnScreen([n EXCEPT !.quit = TRUE], w)
<1>1. PICK m : m = [n EXCEPT !.quit = TRUE]
  OBVIOUS
<1>2. KeepsMain(n, m) /\ m.stack = n.stack /\ m.cursors = n.cursors
  BY <1>1, QuitIs DEF OnScreen
<1>3. OnScreen(m, w)
  BY <1>2 DEF OnScreen, KeepsMain, CursorsOn, Layered, Current
<1> QED  BY <1>1, <1>3

(* Only the main menu is left, which says nothing that could be untrue.     *)
LEMMA ToMainOnScreen ==
  ASSUME NEW n, NEW w, OnScreen(n, w)
  PROVE  OnScreen(ToMain(n), w)
<1> DEFINE m == ToMain(n)
<1>1. OnMain(n) /\ IsMain(n.stack[1]) /\ Top(n) \in Nat /\ Top(n) >= 1
  BY TopIs DEF OnScreen
<1>2. KeepsMain(n, m) /\ Top(m) = 1 /\ Below(n, m, 1)
  BY <1>1, ToMainIs
<1> HIDE DEF m
<1>3. \A i \in 1..1 : Made(n.stack[i], w)
  BY <1>1 DEF Made, Fixed
<1>4. OnScreen(m, w)
  BY <1>1, <1>2, <1>3, PrefixOnScreen
<1> QED  BY <1>4 DEF m

LEMMA ChosenIs ==
  ASSUME NEW n, NEW w, World(w), Untouched(n, w), Current(n).kind = "menu"
  PROVE  /\ LeadsTo(Chosen(n), Current(n), w)
         /\ Fixed(Current(n)) => \A i \in 1..Top(n) : Fixed(n.stack[i])
<1> DEFINE s == Current(n)
<1>1. /\ Made(s, w) /\ Cursor(n) \in 0..(RowsOf(s) - 1) /\ GoesOn(n, Top(n) - 1, s)
      /\ Top(n) \in Nat /\ Top(n) >= 1 /\ s = n.stack[Top(n)]
  BY UntouchedIs
<1>2. RowsOf(s) = Len(s.entries) /\ Len(s.entries) \in Nat
      /\ \A i \in 1..Len(s.entries) : LeadsTo(s.entries[i], s, w)
  BY <1>1, RowsAre, MenusAre
<1>3. Chosen(n) = s.entries[Cursor(n) + 1]
  BY DEF Chosen
<1> HIDE DEF s
<1>4. LeadsTo(Chosen(n), s, w)
  <2>1. Cursor(n) + 1 \in 1..Len(s.entries)
    BY <1>1, <1>2
  <2> QED  BY <1>2, <1>3, <2>1
<1>5. ASSUME Fixed(s), NEW i \in 1..Top(n) PROVE Fixed(n.stack[i])
  <2>1. i \in 1..(Top(n) - 1) \/ i = Top(n)
    BY <1>1
  <2> QED  BY <1>1, <1>5, <2>1 DEF GoesOn
<1> QED  BY <1>4, <1>5 DEF s

LEMMA MenuOnScreen ==
  ASSUME NEW n, NEW w, World(w), Untouched(n, w), NEW key, Current(n).kind = "menu"
  PROVE  OnScreen(HandleOnMenu(n, key), w)
<1>1. OnMain(n) /\ OnScreen(n, w) /\ Made(Current(n), w)
  BY UntouchedIs DEF Untouched
<1>2. OnScreen(Moved(n, key, Len(Current(n).entries)), w)
  <2>1. RowsOf(Current(n)) = Len(Current(n).entries)
    BY <1>1, RowsAre
  <2> QED  BY <2>1, MovedOnScreen DEF Untouched
<1>3. OnScreen([n EXCEPT !.quit = TRUE], w)
  BY <1>1, QuitOnScreen
<1>4. Len(n.stack) > 1 => OnScreen(Pop(n), w)
  BY PopOnScreen DEF Untouched
<1>5. Chosen(n).to = "cancel" => Len(n.stack) > 1
  BY <1>1, AtTheBottom
<1>6. ASSUME Chosen(n).to = "open" PROVE OnScreen(Opened(n, Chosen(n).screen), w)
  <2> DEFINE s == Chosen(n).screen
  <2>1. IsCliMenu(s) \/ s.kind = "placeholder"
    BY <1>6, ChosenIs DEF LeadsTo
  <2>2. \A i \in 1..Top(n) : Fixed(n.stack[i])
    BY <1>6, ChosenIs DEF LeadsTo
  <2>3. Made(s, w) /\ GoesOn(n, Top(n), s)
    BY <2>1, <2>2 DEF Made, Fixed, GoesOn
  <2> HIDE DEF s
  <2>4. OnScreen(Opened(n, s), w)
    BY <2>3, OpenedOnScreen
  <2> QED  BY <2>4 DEF s
<1> QED  BY <1>1, <1>2, <1>3, <1>4, <1>5, <1>6, Zenon DEF HandleOnMenu

(* The screens that tick servers.                                          *)
LEMMA ToggledIs ==
  ASSUME NEW s, NEW w, NEW row, IsMcp(s) \/ IsGrant(s, w)
  PROVE  /\ Made(Toggled(s, row), w)
         /\ Toggled(s, row).kind = s.kind /\ RowsOf(Toggled(s, row)) = RowsOf(s)
<1> DEFINE id == s.options[row + 1]
           ticked == IF id \in s.chosen THEN s.chosen \ {id} ELSE s.chosen \cup {id}
           t == [s EXCEPT !.chosen = ticked]
<1>1. Toggled(s, row) = t
  BY DEF Toggled
<1> HIDE DEF ticked
<1>2. CASE IsMcp(s)
  <2>1. PICK c, o, x : s = [kind |-> "mcp", cli |-> c, options |-> o, chosen |-> x]
    BY <1>2 DEF IsMcp
  <2>2. t = [kind |-> "mcp", cli |-> c, options |-> o, chosen |-> ticked]
    BY <2>1
  <2>3. c \in ToSet(Clis) /\ IsSeq(o) /\ s.options = o /\ s.kind = "mcp"
    BY <1>2, <2>1 DEF IsMcp
  <2> HIDE DEF t
  <2>4. IsMcp(t) /\ t.options = o /\ t.kind = "mcp"
    BY <2>2, <2>3 DEF IsMcp
  <2> QED  BY <1>1, <2>3, <2>4 DEF Made, RowsOf
<1>3. CASE IsGrant(s, w)
  <2>1. PICK c, o, x, g : s = [kind |-> "grant", cli |-> c, options |-> o, chosen |-> x,
                               granted |-> g]
    BY <1>3 DEF IsGrant
  <2>2. t = [kind |-> "grant", cli |-> c, options |-> o, chosen |-> ticked, granted |-> g]
    BY <2>1
  <2>3. /\ c \in ToSet(Clis) /\ IsSeq(o) /\ s.options = o /\ s.kind = "grant"
        /\ g = Recorded(w, c, "granted")
    BY <1>3, <2>1 DEF IsGrant
  <2> HIDE DEF t
  <2>4. IsGrant(t, w) /\ t.options = o /\ t.kind = "grant"
    BY <2>2, <2>3 DEF IsGrant
  <2> QED  BY <1>1, <2>3, <2>4 DEF Made, RowsOf
<1> QED  BY <1>2, <1>3

LEMMA TicksOnScreen ==
  ASSUME NEW n, NEW w, World(w), Untouched(n, w), NEW key,
         Current(n).kind \in {"mcp", "grant"}
  PROVE  Untouched(HandleOnTicks(n, key), w)
<1> DEFINE s == Current(n)
<1>1. /\ OnMain(n) /\ Made(s, w)
      /\ Cursor(n) \in 0..(RowsOf(s) - 1) /\ GoesOn(n, Top(n) - 1, s)
  BY UntouchedIs
<1>2. Len(n.stack) > 1
  BY <1>1, AtTheBottom
<1>3. Untouched(Moved(n, key, Len(s.options) + 1), w)
  <2>1. RowsOf(s) = Len(s.options) + 1
    BY <1>1, RowsAre
  <2> QED  BY <2>1, MovedOnScreen
<1>4. Untouched(Pop(n), w)
  BY <1>2, PopOnScreen
<1>5. Untouched(Swapped(n, Toggled(s, Cursor(n))), w)
  <2> DEFINE t == Toggled(s, Cursor(n))
  <2>1. IsMcp(s) \/ IsGrant(s, w)
    BY <1>1, KindsAre
  <2>2. Made(t, w) /\ t.kind \in {"mcp", "grant"} /\ RowsOf(t) = RowsOf(s)
    BY <2>1, ToggledIs
  <2>3. GoesOn(n, Top(n) - 1, t)
    BY <2>2 DEF GoesOn, Fixed, IsMain, IsCliMenu
  <2> HIDE DEF t
  <2>4. Untouched(Swapped(n, t), w)
    BY <1>1, <1>2, <2>2, <2>3, SwappedOnScreen
  <2> QED  BY <2>4 DEF t
<1> QED  BY <1>1, <1>3, <1>4, <1>5, Zenon DEF HandleOnTicks

(* The latest word about an agent replaces an earlier one.                 *)
LEMMA StagedWithIs ==
  ASSUME NEW s, StagedOnce(s.staged), NEW change
  PROVE  StagedOnce(StagedWith(s, change))
<1> DEFINE st == s.staged
           others == {old \in ToSet(st) : old.agent # change.agent}
           kept == Ordered(st, others)
           after == Append(kept, change)
<1>1. StagedWith(s, change) = after
  BY DEF StagedWith
<1>2. IsSeq(st) /\ OnePerAgent(st, Len(st))
  BY DEF StagedOnce, OnePerAgent
<1>3. Selects(kept, st, others, Len(st)) /\ OnePerAgent(kept, Len(kept))
  <2> HIDE DEF others
  <2> QED  BY <1>2, OrderedIs
<1>4. IsSeq(kept) /\ \A i \in 1..Len(kept) : kept[i].agent # change.agent
  BY <1>3 DEF Selects
<1> HIDE DEF kept
<1>5. /\ IsSeq(after) /\ Len(kept) \in Nat /\ Len(after) = Len(kept) + 1
      /\ (\A i \in 1..Len(kept) : after[i] = kept[i])
      /\ after[Len(kept) + 1] = change
  BY <1>4, AppendIs
<1> HIDE DEF after
<1>6. ASSUME NEW i \in 1..Len(after), NEW j \in 1..Len(after), after[i].agent = after[j].agent
      PROVE  i = j
  <2>1. (i \in 1..Len(kept) \/ i = Len(kept) + 1) /\ (j \in 1..Len(kept) \/ j = Len(kept) + 1)
    BY <1>5
  <2>2. CASE i \in 1..Len(kept) /\ j \in 1..Len(kept)
    BY <1>3, <1>5, <1>6, <2>2 DEF OnePerAgent
  <2>3. CASE i = Len(kept) + 1 /\ j \in 1..Len(kept)
    BY <1>4, <1>5, <1>6, <2>3
  <2>4. CASE j = Len(kept) + 1 /\ i \in 1..Len(kept)
    BY <1>4, <1>5, <1>6, <2>4
  <2> QED  BY <2>1, <2>2, <2>3, <2>4
<1> QED  BY <1>1, <1>5, <1>6 DEF StagedOnce

(* A step of the wizard in the place of another.                           *)
LEMMA WizardOnScreen ==
  ASSUME NEW n, NEW w, World(w), Untouched(n, w), Current(n).kind = "models",
         NEW s, IsModels(s, w)
  PROVE  /\ Untouched(Replaced(n, s), w)
         /\ RowsOf(s) = RowsOf(Current(n)) => Untouched(Swapped(n, s), w)
<1>1. /\ OnMain(n) /\ GoesOn(n, Top(n) - 1, Current(n))
      /\ Cursor(n) \in 0..(RowsOf(Current(n)) - 1)
  BY UntouchedIs
<1>2. Len(n.stack) > 1
  BY <1>1, AtTheBottom
<1>3. Made(s, w) /\ GoesOn(n, Top(n) - 1, s)
  BY <1>1 DEF Made, GoesOn
<1> QED  BY <1>1, <1>2, <1>3, ReplacedOnScreen, SwappedOnScreen

Restarted(s, x) ==
  [s EXCEPT !.agent = None, !.provider = None, !.model = None, !.staged = x]

LEMMA WizardStaged ==
  ASSUME NEW c, NEW r, NEW a, NEW p, NEW m, NEW st, NEW x,
         NEW s, s = ModelsOf(c, r, a, p, m, st)
  PROVE  Restarted(s, x) = ModelsOf(c, r, None, None, None, x)
<1> DEFINE s1 == [s EXCEPT !.agent = None]
           s2 == [s1 EXCEPT !.provider = None]
           s3 == [s2 EXCEPT !.model = None]
<1>1. s1 = ModelsOf(c, r, None, p, m, st)
  BY DEF ModelsOf
<1>2. s2 = ModelsOf(c, r, None, None, m, st)
  <2> HIDE DEF s1
  <2> QED  BY <1>1 DEF ModelsOf
<1>3. s3 = ModelsOf(c, r, None, None, None, st)
  <2> HIDE DEF s1, s2
  <2> QED  BY <1>2 DEF ModelsOf
<1>4. [s3 EXCEPT !.staged = x] = ModelsOf(c, r, None, None, None, x)
  <2> HIDE DEF s3
  <2> QED  BY <1>3 DEF ModelsOf
<1> QED  BY <1>4 DEF Restarted

LEMMA ModelsOnScreen ==
  ASSUME NEW n, NEW w, World(w), Untouched(n, w), NEW key, Current(n).kind = "models"
  PROVE  OnScreen(HandleOnModels(n, key), w)
<1> DEFINE s == Current(n)
<1>1. /\ OnMain(n) /\ OnScreen(n, w) /\ Made(s, w) /\ IsModels(s, w)
      /\ Cursor(n) \in 0..(RowsOf(s) - 1)
  BY UntouchedIs, KindsAre DEF Untouched
<1>2. Len(n.stack) > 1
  BY <1>1, AtTheBottom
<1>3. PICK c, r, a, p, m, st :
        /\ s = ModelsOf(c, r, a, p, m, st)
        /\ Wizard(c, r, w) /\ StepsAgree(a, p, m) /\ StagedOnce(st)
  BY <1>1, ModelsAre
<1>4. /\ s.cli = c /\ s.rows = r /\ s.agent = a /\ s.provider = p /\ s.model = m
      /\ s.staged = st /\ s.providers = Catalog
  BY <1>3, ModelsOfIs
<1>5. ASSUME NEW x, NEW y, NEW z, NEW u, StepsAgree(x, y, z), StagedOnce(u)
      PROVE  OnScreen(Replaced(n, ModelsOf(c, r, x, y, z, u)), w)
  <2>1. IsModels(ModelsOf(c, r, x, y, z, u), w)
    BY <1>3, <1>5, AreModels
  <2> QED  BY <2>1, WizardOnScreen DEF Untouched
<1>6. OnScreen(Moved(n, key, ModelsStepCount(s)), w)
  <2>1. RowsOf(s) = ModelsStepCount(s)
    BY <1>1, ModelsSteps
  <2> QED  BY <2>1, MovedOnScreen DEF Untouched
<1>7. OnScreen(Pop(n), w)
  BY <1>2, PopOnScreen DEF Untouched
<1>8. OnScreen(BackOnModels(n), w)
  <2>1. m # None => OnScreen(Replaced(n, [s EXCEPT !.model = None]), w)
    <3>1. StepsAgree(a, p, None)
      BY <1>3 DEF StepsAgree
    <3>2. [s EXCEPT !.model = None] = ModelsOf(c, r, a, p, None, st)
      BY <1>3 DEF ModelsOf
    <3> QED  BY <1>3, <1>5, <3>1, <3>2
  <2>2. m = None => OnScreen(Replaced(n, [s EXCEPT !.provider = None]), w)
    <3>1. StepsAgree(a, None, None)
      BY <1>3 DEF StepsAgree
    <3>2. m = None => [s EXCEPT !.provider = None] = ModelsOf(c, r, a, None, None, st)
      BY <1>3 DEF ModelsOf
    <3> QED  BY <1>3, <1>5, <3>1, <3>2
  <2>3. m = None /\ p = None => OnScreen(Replaced(n, [s EXCEPT !.agent = None]), w)
    <3>1. StepsAgree(None, None, None)
      BY DEF StepsAgree
    <3>2. m = None /\ p = None
            => [s EXCEPT !.agent = None] = ModelsOf(c, r, None, None, None, st)
      BY <1>3 DEF ModelsOf
    <3> QED  BY <1>3, <1>5, <3>1, <3>2
  <2> QED  BY <1>4, <1>7, <2>1, <2>2, <2>3, Zenon DEF BackOnModels
<1>9. ASSUME NEW model, NEW effort PROVE OnScreen(StageOnModels(n, model, effort), w)
  <2> DEFINE change == StagedChange(s.agent, <<s.provider, model>>, effort)
             staged == StagedWith(s, change)
  <2>1. StagedOnce(staged)
    <3> HIDE DEF change
    <3> QED  BY <1>3, <1>4, StagedWithIs
  <2>2. StepsAgree(None, None, None)
    BY DEF StepsAgree
  <2>3. StageOnModels(n, model, effort) =
          Replaced(n, Restarted(s, staged))
    BY DEF StageOnModels, Restarted
  <2> HIDE DEF staged
  <2>4. Restarted(s, staged) = ModelsOf(c, r, None, None, None, staged)
    BY <1>3, WizardStaged
  <2>5. OnScreen(Replaced(n, ModelsOf(c, r, None, None, None, staged)), w)
    BY <1>5, <2>1, <2>2
  <2> QED  BY <2>3, <2>4, <2>5
<1>10. OnScreen(ChooseOnModels(n), w)
  <2> DEFINE row == Cursor(n) + 1
  <2>1. a = None => OnScreen(Replaced(n, [s EXCEPT !.agent = s.rows[row].agent]), w)
    <3>1. a = None => StepsAgree(r[row].agent, p, m)
      BY <1>3 DEF StepsAgree
    <3>2. [s EXCEPT !.agent = s.rows[row].agent] = ModelsOf(c, r, r[row].agent, p, m, st)
      BY <1>3, <1>4 DEF ModelsOf
    <3> HIDE DEF s, row
    <3> QED  BY <1>3, <1>5, <3>1, <3>2
  <2>2. a # None /\ p = None
          => OnScreen(Replaced(n, [s EXCEPT !.provider = s.providers[row].id]), w)
    <3>1. a # None /\ p = None => StepsAgree(a, Catalog[row].id, m)
      <4>1. ASSUME a # None, p = None PROVE Catalog[row] \in ToSet(Catalog)
        <5>1. RowsOf(s) = Len(Catalog) /\ RowsOf(s) \in Nat
          BY <1>1, <1>4, <4>1, ModelsSteps
        <5>2. row \in 1..Len(Catalog)
          BY <1>1, <5>1
        <5> QED  BY <5>2, SequencesAre, MembersAre
      <4> QED  BY <1>3, <4>1 DEF StepsAgree
    <3>2. [s EXCEPT !.provider = s.providers[row].id]
            = ModelsOf(c, r, a, Catalog[row].id, m, st)
      BY <1>3, <1>4 DEF ModelsOf
    <3> HIDE DEF s, row
    <3> QED  BY <1>3, <1>5, <3>1, <3>2
  <2>3. ASSUME p # None, NEW x PROVE OnScreen(Replaced(n, [s EXCEPT !.model = x]), w)
    <3>1. StepsAgree(a, p, x)
      BY <1>3, <2>3 DEF StepsAgree
    <3>2. [s EXCEPT !.model = x] = ModelsOf(c, r, a, p, x, st)
      BY <1>3 DEF ModelsOf
    <3> QED  BY <1>3, <1>5, <3>1, <3>2
  <2> QED  BY <1>1, <1>4, <1>9, <2>1, <2>2, <2>3, Zenon DEF ChooseOnModels
<1>11. ASSUME a = None, NEW change PROVE OnScreen(Swapped(n, [s EXCEPT !.staged = StagedWith(s, change)]), w)
  <2> DEFINE staged == StagedWith(s, change)
             t == ModelsOf(c, r, a, p, m, staged)
  <2>1. StagedOnce(staged)
    BY <1>3, <1>4, StagedWithIs
  <2> HIDE DEF staged
  <2>2. [s EXCEPT !.staged = staged] = t
    BY <1>3 DEF ModelsOf
  <2>3. IsModels(t, w) /\ t.agent = None /\ t.rows = r
    BY <1>3, <1>11, <2>1, AreModels, ModelsOfIs
  <2> HIDE DEF t, s
  <2>4. RowsOf(t) = RowsOf(s)
    BY <1>1, <1>4, <1>11, <2>3, ModelsSteps
  <2> USE DEF s
  <2>5. OnScreen(Swapped(n, t), w)
    BY <2>3, <2>4, WizardOnScreen DEF Untouched
  <2> QED  BY <2>2, <2>5 DEF staged
<1> QED  BY <1>1, <1>4, <1>6, <1>8, <1>10, <1>11, Zenon DEF HandleOnModels

(* A result leads to the main menu, and nothing else gets past it.         *)
LEMMA HandleOnScreen ==
  ASSUME NEW n, NEW w, World(w), OnScreen(n, w), NEW key
  PROVE  OnScreen(Handle(n, key), w)
<1> DEFINE kind == Current(n).kind
<1>1. OnScreen([n EXCEPT !.quit = TRUE], w) /\ OnScreen(ToMain(n), w)
  BY QuitOnScreen, ToMainOnScreen
<1>2. CASE kind \in Results
  <2>1. /\ kind # "menu" /\ kind # "models" /\ kind \notin {"mcp", "grant"}
    BY <1>2 DEF Results
  <2> QED  BY <1>1, <1>2, <2>1, Zenon DEF Handle
<1>3. CASE kind \notin Results
  <2>1. Untouched(n, w) /\ OnMain(n)
    BY <1>3 DEF Untouched, OnScreen
  <2>2. kind = "menu" => OnScreen(HandleOnMenu(n, key), w)
    BY <2>1, MenuOnScreen
  <2>3. kind = "models" => OnScreen(HandleOnModels(n, key), w)
    BY <2>1, ModelsOnScreen
  <2>4. kind \in {"mcp", "grant"} => OnScreen(HandleOnTicks(n, key), w)
    BY <2>1, TicksOnScreen DEF Untouched
  <2>5. kind # "menu" => OnScreen(Pop(n), w)
    BY <2>1, AtTheBottom, PopOnScreen DEF Untouched
  <2> QED  BY <1>1, <1>3, <2>2, <2>3, <2>4, <2>5, Zenon DEF Handle
<1> QED  BY <1>2, <1>3

-----------------------------------------------------------------------------
(* What a key leads to through the engine.                                 *)

(* What is shown is made of the machine, and lies on anything; or it is a   *)
(* result.                                                                 *)
Shown(s, w) ==
  \/ s.kind \in Results
  \/ Made(s, w) /\ ~ Fixed(s) /\ s.kind # "models"

LEMMA ShownOnScreen ==
  ASSUME NEW n, NEW w, World(w), Untouched(n, w), NEW v, World(v), NEW s,
         s.kind \in Results \/ (v = w /\ Shown(s, w)),
         NEW out \in Shows(n, v, s)
  PROVE  /\ OnScreen(out.nav, out.world) /\ World(out.world)
         /\ Current(out.nav) = s /\ out.world = v
<1>1. out.nav = Opened(n, s) /\ out.world = v
  BY DEF Shows, To
<1>2. s.kind \in Results \/ (v = w /\ Made(s, w) /\ GoesOn(n, Top(n), s))
  <2>1. ~ Fixed(s) /\ s.kind # "models" => GoesOn(n, Top(n), s)
    BY DEF GoesOn
  <2> QED  BY <2>1 DEF Shown
<1>3. OnScreen(Opened(n, s), v) /\ Current(Opened(n, s)) = s
  BY <1>2, OpenedOnScreen
<1> QED  BY <1>1, <1>3

LEMMA KindIsNotFixed ==
  ASSUME NEW s, s.kind # "menu"
  PROVE  ~ Fixed(s)
  BY DEF Fixed, IsMain, IsCliMenu

LEMMA PreviewsAre ==
  ASSUME NEW w, World(w), NEW cli \in ToSet(Clis)
  PROVE  /\ Shown(McpSelectionScreen(w, cli), w)
         /\ Shown(GrantMcpScreen(w, cli), w)
         /\ \A s \in UpdatePreviews(w, cli) : Shown(s, w)
         /\ \A mcp : \A s \in InstallPreviews(w, cli, mcp) : Shown(s, w)
         /\ Shown(UninstallPreview(w, cli), w)
<1>0. \A note : Shown(Placeholder(note), w)
  BY KindIsNotFixed DEF Placeholder, Shown, Made
<1>1. Shown(McpSelectionScreen(w, cli), w)
  <2> DEFINE s == McpSelection(cli, Servers, Recorded(w, cli, "mcp"))
  <2>1. IsMcp(s) /\ s.kind = "mcp"
    BY SequencesAre DEF McpSelection, IsMcp
  <2> HIDE DEF s
  <2>2. Shown(s, w)
    BY <2>1, KindIsNotFixed DEF Shown, Made
  <2> QED  BY <1>0, <2>2 DEF McpSelectionScreen, s
<1>2. Shown(GrantMcpScreen(w, cli), w)
  <2> DEFINE granted == Recorded(w, cli, "granted")
             domain == Ordered(McpKeys, granted \cup Declared)
             s == GrantMcp(cli, domain, granted)
  <2>1. IsSeq(domain)
    BY SequencesAre, OrderedIs DEF Selects
  <2> HIDE DEF domain
  <2>2. IsGrant(s, w) /\ s.kind = "grant"
    BY <2>1 DEF GrantMcp, IsGrant
  <2> HIDE DEF s
  <2>3. Shown(s, w)
    BY <2>2, KindIsNotFixed DEF Shown, Made
  <2> QED  BY <1>0, <2>3, Zenon DEF GrantMcpScreen, s, domain
<1>3. ASSUME NEW s \in UpdatePreviews(w, cli) PROVE Shown(s, w)
  <2>1. \/ s.kind = "installed"
        \/ s.kind = "plan" /\ s.command = "update" /\ s.cli = cli
    BY <1>3 DEF UpdatePreviews, InstallPlan, InstallResult
  <2>2. CASE s.kind = "plan" /\ s.command = "update" /\ s.cli = cli
    <3>1. IsPlan(s, w)
      BY <1>3, <2>2 DEF IsPlan
    <3> QED  BY <2>2, <3>1, KindIsNotFixed DEF Shown, Made
  <2> QED  BY <2>1, <2>2 DEF Shown, Results
<1>4. ASSUME NEW mcp, NEW s \in InstallPreviews(w, cli, mcp) PROVE Shown(s, w)
  <2>1. s.kind = "plan" /\ s.command = "install" /\ s.cli = cli /\ s.mcp = mcp
    BY <1>4 DEF InstallPreviews, InstallPlan
  <2>2. IsPlan(s, w)
    BY <1>4, <2>1 DEF IsPlan
  <2> QED  BY <2>1, <2>2, KindIsNotFixed DEF Shown, Made
<1>5. Shown(UninstallPreview(w, cli), w)
  <2> DEFINE s == UninstallPreview(w, cli)
  <2>1. Machine(s, w) /\ Made(s, w) /\ s.kind = "menu"
    BY DEF Machine, Made, UninstallPreview, Menu
  <2> HIDE DEF s
  <2>2. Shown(s, w)
    BY <2>1, MachineIsNotFixed DEF Shown
  <2> QED  BY <2>2 DEF s
<1> QED  BY <1>1, <1>2, <1>3, <1>4, <1>5

LEMMA OtherPreviewsAre ==
  ASSUME NEW w, World(w)
  PROVE  /\ \A s \in UpgradePreviews(w) : Shown(s, w)
         /\ Shown(Status(w.installs), w)
         /\ Shown(GenerationsMenu(w), w)
         /\ \A g \in 1..Len(w.gens) : Shown(RestorePreview(w, g), w)
<1>1. ASSUME NEW s \in UpgradePreviews(w) PROVE Shown(s, w)
  <2>1. \/ s.kind = "installed"
        \/ s = InstallPlan(None, "upgrade", {}, Published)
    BY DEF UpgradePreviews, InstallResult
  <2>2. CASE s = InstallPlan(None, "upgrade", {}, Published)
    <3>1. s.kind = "plan"
      BY <2>2 DEF InstallPlan
    <3>2. IsPlan(s, w)
      BY <2>2, <3>1 DEF IsPlan
    <3> QED  BY <3>1, <3>2, KindIsNotFixed DEF Shown, Made
  <2> QED  BY <2>1, <2>2 DEF Shown, Results
<1>2. Shown(Status(w.installs), w)
  <2>1. Status(w.installs).kind = "status"
    BY DEF Status
  <2> QED  BY <2>1, KindIsNotFixed DEF Shown, Made
<1>3. ASSUME NEW s, Machine(s, w), Made(s, w) PROVE Shown(s, w)
  <2>1. s.kind # "models"
    <3>1. s = GenerationsMenu(w) => s.kind # "models"
      BY GenerationsMenuIs
    <3>2. ((\E c \in ToSet(Clis) : s = UninstallPreview(w, c))
             \/ \E g \in 1..Len(w.gens) : s = RestorePreview(w, g)) => s.kind = "menu"
      BY DEF UninstallPreview, RestorePreview, Menu
    <3> QED  BY <1>3, <3>1, <3>2 DEF Machine
  <2> QED  BY <1>3, <2>1, MachineIsNotFixed DEF Shown
<1>4. Machine(GenerationsMenu(w), w) /\ Made(GenerationsMenu(w), w)
  BY DEF Machine, Made
<1>5. \A g \in 1..Len(w.gens) : Machine(RestorePreview(w, g), w) /\ Made(RestorePreview(w, g), w)
  BY DEF Machine, Made
<1> QED  BY <1>1, <1>2, <1>3, <1>4, <1>5

(* A row of a menu that needs the engine.                                  *)
LEMMA ChoiceOnScreen ==
  ASSUME NEW n, NEW w, World(w), Untouched(n, w), Current(n).kind = "menu",
         Chosen(n).to \in EngineTargets, NEW out \in ChooseOnEngine(n, w)
  PROVE  /\ OnScreen(out.nav, out.world) /\ World(out.world)
         /\ out.world.assigned = w.assigned
         /\ Current(out.nav).kind # "granted"
         /\ Chosen(n).to = "restoreConfirm" \/ StaysUninstalled(w, out.world)
<1> DEFINE t == Chosen(n)
<1>1. /\ LeadsTo(t, Current(n), w)
      /\ Fixed(Current(n)) => \A i \in 1..Top(n) : Fixed(n.stack[i])
  BY ChosenIs
<1>2. t.to \in {"install", "update", "models", "grant", "uninstall", "uninstallConfirm"}
        => t.cli \in ToSet(Clis)
  BY <1>1 DEF LeadsTo
<1>3. t.to \in {"restore", "restoreConfirm"} => t.generation \in 1..Len(w.gens)
  BY <1>1 DEF LeadsTo
<1>4. ASSUME NEW s, Shown(s, w), s.kind # "granted", out \in Shows(n, w, s)
      PROVE  /\ OnScreen(out.nav, out.world) /\ World(out.world)
             /\ out.world.assigned = w.assigned
             /\ Current(out.nav).kind # "granted"
             /\ StaysUninstalled(w, out.world)
  BY <1>4, ShownOnScreen DEF StaysUninstalled
<1>5. CASE t.to = "install"
  <2>1. Shown(McpSelectionScreen(w, t.cli), w)
    BY <1>2, <1>5, PreviewsAre
  <2>2. McpSelectionScreen(w, t.cli).kind # "granted"
    BY DEF McpSelectionScreen, McpSelection, Placeholder
  <2>3. out \in Shows(n, w, McpSelectionScreen(w, t.cli))
    BY <1>5 DEF ChooseOnEngine
  <2> QED  BY <1>4, <2>1, <2>2, <2>3
<1>6. CASE t.to = "update"
  <2>1. PICK s \in UpdatePreviews(w, t.cli) : out \in Shows(n, w, s)
    BY <1>6 DEF ChooseOnEngine
  <2>2. Shown(s, w)
    BY <1>2, <1>6, PreviewsAre
  <2>3. s.kind # "granted"
    BY DEF UpdatePreviews, InstallPlan, InstallResult
  <2> QED  BY <1>4, <2>1, <2>2, <2>3
<1>7. CASE t.to = "upgrade"
  <2>1. PICK s \in UpgradePreviews(w) : out \in Shows(n, w, s)
    BY <1>7 DEF ChooseOnEngine
  <2>2. Shown(s, w)
    BY OtherPreviewsAre
  <2>3. s.kind # "granted"
    BY DEF UpgradePreviews, InstallPlan, InstallResult
  <2> QED  BY <1>4, <2>1, <2>2, <2>3
<1>8. CASE t.to = "models"
  <2> DEFINE s == ModelsScreen(w, t.cli)
  <2>1. s.kind = "placeholder" \/ (IsModels(s, w) /\ s.kind = "models")
    BY <1>2, <1>8, ModelsScreenIs DEF IsModels
  <2>2. \A i \in 1..Top(n) : Fixed(n.stack[i])
    BY <1>1, <1>8 DEF LeadsTo
  <2>3. out = To(Opened(n, s), w)
    BY <1>8 DEF ChooseOnEngine, Shows
  <2> HIDE DEF s
  <2>4. Made(s, w) /\ GoesOn(n, Top(n), s)
    BY <2>1, <2>2 DEF Made, GoesOn
  <2>5. OnScreen(Opened(n, s), w) /\ Current(Opened(n, s)) = s
    BY <2>4, OpenedOnScreen
  <2> QED  BY <2>1, <2>3, <2>5 DEF To, StaysUninstalled
<1>9. CASE t.to = "grant"
  <2>1. Shown(GrantMcpScreen(w, t.cli), w)
    BY <1>2, <1>9, PreviewsAre
  <2>2. GrantMcpScreen(w, t.cli).kind # "granted"
    BY DEF GrantMcpScreen, GrantMcp, Placeholder
  <2>3. out \in Shows(n, w, GrantMcpScreen(w, t.cli))
    BY <1>9 DEF ChooseOnEngine
  <2> QED  BY <1>4, <2>1, <2>2, <2>3
<1>10. CASE t.to = "status"
  <2>1. Status(w.installs).kind # "granted"
    BY DEF Status
  <2>2. out \in Shows(n, w, Status(w.installs))
    BY <1>10 DEF ChooseOnEngine
  <2> QED  BY <1>4, <2>1, <2>2, OtherPreviewsAre
<1>11. CASE t.to = "uninstall"
  <2>1. Shown(UninstallPreview(w, t.cli), w)
    BY <1>2, <1>11, PreviewsAre
  <2>2. UninstallPreview(w, t.cli).kind # "granted"
    BY DEF UninstallPreview, Menu
  <2>3. out \in Shows(n, w, UninstallPreview(w, t.cli))
    BY <1>11 DEF ChooseOnEngine
  <2> QED  BY <1>4, <2>1, <2>2, <2>3
<1>12. CASE t.to = "restore"
  <2>1. Shown(RestorePreview(w, t.generation), w)
    BY <1>3, <1>12, OtherPreviewsAre
  <2>2. RestorePreview(w, t.generation).kind # "granted"
    BY DEF RestorePreview, Menu
  <2>3. out \in Shows(n, w, RestorePreview(w, t.generation))
    BY <1>12 DEF ChooseOnEngine
  <2> QED  BY <1>4, <2>1, <2>2, <2>3
<1>13. CASE t.to = "uninstallConfirm"
  <2>1. PICK o \in Uninstall(w, t.cli) : out \in Shows(n, o.world, UninstallResult(t.cli, o.ok))
    BY <1>13 DEF ChooseOnEngine
  <2>2. World(o.world) /\ o.world.assigned = w.assigned /\ StaysUninstalled(w, o.world)
    BY <1>2, <1>13, UninstallIs DEF AtMostOnce
  <2>3. UninstallResult(t.cli, o.ok).kind = "uninstalled"
    BY DEF UninstallResult
  <2> QED  BY <2>1, <2>2, <2>3, ShownOnScreen DEF Results
<1>14. CASE t.to = "restoreConfirm"
  <2>1. PICK o \in Restore(w, t.generation) : out \in Shows(n, o.world, RestoreResult(o.ok))
    BY <1>14 DEF ChooseOnEngine
  <2>2. World(o.world) /\ o.world.assigned = w.assigned
    BY <1>3, <1>14, RestoreIs DEF AtMostOnce
  <2>3. RestoreResult(o.ok).kind = "restored"
    BY DEF RestoreResult
  <2> QED  BY <1>14, <2>1, <2>2, <2>3, ShownOnScreen DEF Results
<1> QED  BY <1>5, <1>6, <1>7, <1>8, <1>9, <1>10, <1>11, <1>12, <1>13, <1>14 DEF EngineTargets

(* The plan of an install with the servers that were ticked.               *)
LEMMA McpOnScreen ==
  ASSUME NEW n, NEW w, World(w), Untouched(n, w), Current(n).kind = "mcp",
         NEW out \in McpWrite(n, w)
  PROVE  /\ OnScreen(out.nav, out.world) /\ out.world = w
<1> DEFINE s == Current(n)
<1>1. s.cli \in ToSet(Clis)
  BY UntouchedIs, KindsAre DEF IsMcp
<1>2. PICK plan \in InstallPreviews(w, s.cli, s.chosen) : out \in Shows(n, w, plan)
  BY DEF McpWrite
<1>3. Shown(plan, w)
  BY <1>1, PreviewsAre
<1> QED  BY <1>2, <1>3, ShownOnScreen

(* A value that is no record is not the record of an install.              *)
NoneIsNoRecord == \A mcp, granted : Planned(mcp, granted) # None

(* What is granted after one of the two commands.                          *)
LEMMA GrantedAfter ==
  ASSUME NoneIsNoRecord, NEW w, World(w), NEW cli \in ToSet(Clis), NEW granted,
         NEW o \in Again(w, cli, granted)
  PROVE  /\ World(o.world) /\ o.ok \in BOOLEAN /\ o.world.assigned = w.assigned
         /\ Recorded(o.world, cli, "granted") =
              IF o.ok THEN granted ELSE Recorded(w, cli, "granted")
<1>1. /\ o.ok \in BOOLEAN /\ World(o.world)
      /\ o.ok => Puts(w, o.world, cli, Planned(w.installs[cli].mcp, granted))
      /\ ~ o.ok => Same(w, o.world)
  BY AgainIs DEF AtMostOnce
<1>2. CASE o.ok
  <2>1. PICK record : record = Planned(w.installs[cli].mcp, granted)
    OBVIOUS
  <2>2. record # None /\ record["granted"] = granted
    BY <2>1 DEF NoneIsNoRecord, Planned
  <2>3. o.world.installs[cli] = record /\ o.world.assigned = w.assigned
    BY <1>1, <1>2, <2>1 DEF Puts
  <2> QED  BY <1>1, <1>2, <2>2, <2>3 DEF Recorded
<1>3. CASE ~ o.ok
  BY <1>1, <1>3 DEF Recorded, Same
<1> QED  BY <1>1, <1>2, <1>3

(* First what is granted, then what is revoked; the screen says what came   *)
(* of each.                                                                *)
TellsTheTruth(said, w, v, chosen) ==
  LET had == Recorded(w, said.cli, "granted")
      has == Recorded(v, said.cli, "granted")
  IN /\ has = (had \cup said.granted) \ said.revoked
     /\ said.failed <=> has # chosen

LEMMA GrantOnScreen ==
  ASSUME NEW n, NEW w, World(w), Untouched(n, w), Current(n).kind = "grant",
         NEW out \in GrantMcpWrite(n, w)
  PROVE  /\ OnScreen(out.nav, out.world) /\ World(out.world)
         /\ out.world.assigned = w.assigned
         /\ NoneIsNoRecord =>
              TellsTheTruth(Current(out.nav), w, out.world, Current(n).chosen)
         /\ StaysUninstalled(w, out.world)
<1> DEFINE s == Current(n)
           cli == s.cli
           grant == s.chosen \ s.granted
           revoke == s.granted \ s.chosen
           had == Recorded(w, cli, "granted")
           first  == IF grant = {} THEN {Outcome(TRUE, w)} ELSE McpGrant(w, cli, grant)
           next(o) == IF revoke = {} THEN {Outcome(TRUE, o.world)}
                      ELSE McpRevoke(o.world, cli, revoke)
           result(o, p) == GrantMcpResult(cli, Reported(o, grant),
                             Reported(p, revoke), ~ (o.ok /\ p.ok))
           after(o) == UNION {Shows(n, p.world, result(o, p)) : p \in next(o)}
<1>1. cli \in ToSet(Clis) /\ s.granted = had
  BY UntouchedIs, KindsAre DEF IsGrant
<1>2. out \in UNION {after(o) : o \in first}
  BY DEF GrantMcpWrite
<1>3. PICK o \in first : out \in after(o)
  <2> HIDE DEF first, next, result
  <2> QED  BY <1>2
<1>4. PICK p \in next(o) : out \in Shows(n, p.world, result(o, p))
  <2> HIDE DEF first, next, result
  <2> QED  BY <1>3
<1>5. /\ o.ok \in BOOLEAN /\ World(o.world) /\ o.world.assigned = w.assigned
      /\ StaysUninstalled(w, o.world)
      /\ ~ o.ok => grant # {}
      /\ NoneIsNoRecord =>
           Recorded(o.world, cli, "granted") = had \cup Reported(o, grant)
  <2>1. CASE grant = {}
    <3>1. o.ok = TRUE /\ o.world = w
      BY <2>1 DEF Outcome
    <3> HIDE DEF grant, first
    <3> QED  BY <2>1, <3>1 DEF Reported, StaysUninstalled
  <2>2. CASE grant # {} /\ ~ (grant \subseteq Declared)
    <3>1. o.ok = FALSE /\ o.world = w
      BY <2>2 DEF McpGrant, Refused, Outcome
    <3> HIDE DEF grant, first
    <3> QED  BY <2>2, <3>1 DEF Reported, StaysUninstalled
  <2>3. CASE grant # {} /\ grant \subseteq Declared
    <3>1. o \in Again(w, cli, had \cup grant)
      BY <2>3 DEF McpGrant
    <3>2. o.ok \in BOOLEAN /\ World(o.world) /\ o.world.assigned = w.assigned
      BY <1>1, <3>1, AgainIs DEF AtMostOnce, Puts, Same
    <3>4. StaysUninstalled(w, o.world)
      BY <1>1, <3>1, AgainStays
    <3>3. NoneIsNoRecord => Recorded(o.world, cli, "granted") =
            IF o.ok THEN had \cup grant ELSE had
      BY <1>1, <3>1, GrantedAfter
    <3> QED  BY <2>3, <3>2, <3>3, <3>4 DEF Reported
  <2> QED  BY <2>1, <2>2, <2>3
<1>6. /\ p.ok \in BOOLEAN /\ World(p.world) /\ p.world.assigned = w.assigned
      /\ StaysUninstalled(w, p.world)
      /\ ~ p.ok => revoke # {}
      /\ NoneIsNoRecord =>
           Recorded(p.world, cli, "granted") =
             Recorded(o.world, cli, "granted") \ Reported(p, revoke)
  <2>1. CASE revoke = {}
    <3>1. p.ok = TRUE /\ p.world = o.world
      BY <2>1 DEF Outcome
    <3> HIDE DEF revoke, next
    <3> QED  BY <1>5, <2>1, <3>1 DEF Reported
  <2>2. CASE revoke # {}
    <3>1. p \in Again(o.world, cli, Recorded(o.world, cli, "granted") \ revoke)
      BY <2>2 DEF McpRevoke
    <3>2. p.ok \in BOOLEAN /\ World(p.world) /\ p.world.assigned = w.assigned
      BY <1>1, <1>5, <3>1, AgainIs DEF AtMostOnce, Puts, Same
    <3>4. StaysUninstalled(w, p.world)
      <4>1. StaysUninstalled(o.world, p.world)
        BY <1>1, <1>5, <3>1, AgainStays
      <4> QED  BY <1>5, <4>1 DEF StaysUninstalled
    <3>3. NoneIsNoRecord => Recorded(p.world, cli, "granted") =
            IF p.ok THEN Recorded(o.world, cli, "granted") \ revoke
            ELSE Recorded(o.world, cli, "granted")
      BY <1>1, <1>5, <3>1, GrantedAfter
    <3> QED  BY <2>2, <3>2, <3>3, <3>4 DEF Reported
  <2> QED  BY <2>1, <2>2
<1>7. PICK said : said = result(o, p)
  OBVIOUS
<1>8. /\ said.kind = "granted" /\ said.cli = cli /\ said.granted = Reported(o, grant)
      /\ said.revoked = Reported(p, revoke) /\ said.failed = ~ (o.ok /\ p.ok)
  BY <1>7 DEF GrantMcpResult
<1>9. /\ OnScreen(out.nav, out.world) /\ Current(out.nav) = said /\ out.world = p.world
  <2>1. said.kind \in Results
    BY <1>8 DEF Results
  <2>2. out \in Shows(n, p.world, said)
    BY <1>4, <1>7
  <2> QED  BY <1>6, <2>1, <2>2, ShownOnScreen
<1>10. ASSUME NoneIsNoRecord
       PROVE  TellsTheTruth(said, w, p.world, s.chosen)
  <2> DEFINE has == Recorded(p.world, cli, "granted")
  <2>1. has = (had \cup Reported(o, grant)) \ Reported(p, revoke)
    BY <1>5, <1>6, <1>10
  <2>2. ~ (o.ok /\ p.ok) <=> has # s.chosen
    <3> HIDE DEF had, has, s
    <3>1. CASE o.ok /\ p.ok
      <4>1. has = (had \cup (s.chosen \ had)) \ (had \ s.chosen)
        BY <1>1, <2>1, <3>1 DEF Reported
      <4>2. \A x : x \in has <=> x \in s.chosen
        BY <4>1
      <4> QED  BY <3>1, <4>2
    <3>2. CASE ~ o.ok
      <4>1. PICK x \in s.chosen : x \notin had
        BY <1>1, <1>5, <3>2
      <4>2. x \notin has
        BY <2>1, <3>2, <4>1 DEF Reported
      <4> QED  BY <3>2, <4>1, <4>2
    <3>3. CASE ~ p.ok
      <4>1. PICK x \in had : x \notin s.chosen
        BY <1>1, <1>6, <3>3
      <4>2. x \in has
        BY <2>1, <3>3, <4>1 DEF Reported
      <4> QED  BY <3>3, <4>1, <4>2
    <3> QED  BY <1>5, <1>6, <3>1, <3>2, <3>3
  <2> HIDE DEF s, grant, revoke
  <2> QED  BY <1>8, <2>1, <2>2 DEF TellsTheTruth
<1> QED  BY <1>6, <1>9, <1>10

(* The wizard is made again of what the command left, on the menus alone.   *)
LEMMA ModelsWriteOnScreen ==
  ASSUME NEW n, NEW w, World(w), Untouched(n, w), Current(n).kind = "models",
         NEW out \in ModelsWrite(n, w)
  PROVE  /\ OnScreen(out.nav, out.world) /\ World(out.world)
         /\ Current(out.nav).kind # "granted"
         /\ out.world = w \/ \E o \in ModelsApply(w, Current(n).cli,
              StagedAssignments(Current(n)), StagedRemovals(Current(n))) : out.world = o.world
<1> DEFINE s == Current(n)
<1>1. /\ OnMain(n) /\ s.cli \in ToSet(Clis)
      /\ Top(n) \in Nat /\ Top(n) >= 1
      /\ \A i \in 1..(Top(n) - 1) : Fixed(n.stack[i])
  BY UntouchedIs, KindsAre DEF IsModels, GoesOn
<1>2. PICK v : /\ out = To(Replaced(n, ModelsScreen(v, s.cli)), v)
               /\ v = w \/ \E o \in ModelsApply(w, s.cli, StagedAssignments(s),
                                                StagedRemovals(s)) : v = o.world
  BY Zenon DEF ModelsWrite
<1>3. World(v)
  <2>1. \A o \in ModelsApply(w, s.cli, StagedAssignments(s), StagedRemovals(s)) :
          World(o.world)
    BY <1>1, ModelsApplyIs DEF AtMostOnce
  <2> HIDE DEF s
  <2> QED  BY <1>2, <2>1
<1>4. PICK t : t = ModelsScreen(v, s.cli)
  OBVIOUS
<1>5. t.kind = "placeholder" \/ (IsModels(t, v) /\ t.kind = "models")
  BY <1>1, <1>4, ModelsScreenIs DEF IsModels
<1>6. Len(n.stack) > 1
  BY <1>1, AtTheBottom
<1>7. PICK m : m = Replaced(n, t)
  OBVIOUS
<1>8. /\ KeepsMain(n, m) /\ Top(m) = Top(n) /\ Below(n, m, Top(n) - 1)
      /\ m.stack[Top(m)] = t /\ m.cursors[Top(m)] = 0
  BY <1>1, <1>6, <1>7, ReplacedIs
<1>9. PICK k \in Nat : k + 1 = Top(n) /\ k = Top(n) - 1 /\ k <= Top(n)
  BY <1>1
<1>10. Made(t, v) /\ GoesOn(n, k, t) /\ \A i \in 1..k : Made(n.stack[i], v)
  BY <1>1, <1>5, <1>9 DEF Made, GoesOn
<1>11. 0 \in 0..(RowsOf(t) - 1)
  BY <1>3, <1>10, RowsAre
<1>12. OnScreen(m, v) /\ Current(m) = t
  BY <1>3, <1>8, <1>9, <1>10, <1>11, TopOnScreen
<1>13. out.nav = m /\ out.world = v
  BY <1>2, <1>4, <1>7 DEF To
<1> QED  BY <1>2, <1>3, <1>5, <1>12, <1>13

(* Whatever a key leads to: the screens hold, assignments are what the      *)
(* wizard writes, granting tells the truth, and where the engine was needed *)
(* its busy line had been drawn.                                           *)
Written(n, w, v) ==
  \/ v.assigned = w.assigned
  \/ /\ Current(n).kind = "models"
     /\ \E o \in ModelsApply(w, Current(n).cli, StagedAssignments(Current(n)),
                             StagedRemovals(Current(n))) : v = o.world
Truthful(n, w, m, v) ==
  NoneIsNoRecord /\ Current(n).kind = "grant" /\ Current(m).kind = "granted"
    => TellsTheTruth(Current(m), w, v, Current(n).chosen)

LEMMA HandleTruthful ==
  ASSUME NEW n, NEW w, World(w), OnScreen(n, w), NEW key
  PROVE  Truthful(n, w, Handle(n, key), w)
<1> SUFFICES ASSUME Current(n).kind = "grant"
             PROVE  Current(Handle(n, key)).kind # "granted"
  BY DEF Truthful
<1>1. Untouched(n, w) /\ OnMain(n)
  BY DEF Untouched, OnScreen, Results
<1>2. Current(HandleOnTicks(n, key)).kind # "granted"
  BY <1>1, TicksOnScreen DEF Untouched, Results
<1>3. PICK m : m = [n EXCEPT !.quit = TRUE]
  OBVIOUS
<1>4. Current(m).kind # "granted"
  BY <1>1, <1>3, QuitIs DEF Current
<1> QED  BY <1>2, <1>3, <1>4, Zenon DEF Handle, Results

LEMMA StepOnScreen ==
  ASSUME NEW n, NEW w, World(w), OnScreen(n, w), NEW key \in Keys,
         NEW out \in Step(n, w, key)
  PROVE  /\ OnScreen(out.nav, out.world) /\ World(out.world)
         /\ Written(n, w, out.world) /\ Truthful(n, w, out.nav, out.world)
         /\ out.nav = Handle(n, key) \/ BusyMessageFor(n, "choose")
         /\ \/ StaysUninstalled(w, out.world)
            \/ Current(n).kind = "menu" /\ Chosen(n).to = "restoreConfirm"
<1> DEFINE s == Current(n)
           OnEngine == s.kind = "menu" /\ key = "choose" /\ Chosen(n).to \in EngineTargets
<1>1. s.kind \notin Results => Untouched(n, w)
  BY DEF Untouched
<1>2. CASE OnEngine
  <2>1. out \in ChooseOnEngine(n, w)
    BY <1>2 DEF Step
  <2>2. Untouched(n, w)
    BY <1>1, <1>2 DEF Results
  <2>3. /\ OnScreen(out.nav, out.world) /\ World(out.world)
        /\ out.world.assigned = w.assigned /\ s.kind # "grant"
        /\ Chosen(n).to = "restoreConfirm" \/ StaysUninstalled(w, out.world)
    BY <1>2, <2>1, <2>2, ChoiceOnScreen
  <2>4. BusyMessageFor(n, "choose")
    BY <1>2 DEF BusyMessageFor, BusyOnMenu, EngineTargets
  <2> QED  BY <1>2, <2>3, <2>4 DEF Written, Truthful
<1>3. CASE s.kind = "models" /\ Continues(n, key)
  <2>1. out \in ModelsWrite(n, w)
    BY <1>3 DEF Step
  <2>2. Untouched(n, w)
    BY <1>1, <1>3 DEF Results
  <2>3. /\ OnScreen(out.nav, out.world) /\ World(out.world) /\ s.kind # "grant"
        /\ out.world = w \/ \E o \in ModelsApply(w, s.cli, StagedAssignments(s),
                                                 StagedRemovals(s)) : out.world = o.world
    BY <1>3, <2>1, <2>2, ModelsWriteOnScreen
  <2>4. BusyMessageFor(n, "choose")
    <3>1. IsModels(s, w)
      BY <1>3, <2>2, UntouchedIs, KindsAre
    <3>2. s.agent = None /\ Cursor(n) = RowsOf(s) - 1
      BY <1>3 DEF Continues
    <3>3. Cursor(n) = Len(s.rows)
      BY <3>1, <3>2, ModelsSteps
    <3> QED  BY <1>3, <3>2, <3>3 DEF BusyMessageFor
  <2>5. Written(n, w, out.world)
    BY <1>3, <2>3 DEF Written
  <2>6. StaysUninstalled(w, out.world)
    <3>1. s.cli \in ToSet(Clis)
      BY <1>3, <2>2, UntouchedIs, KindsAre DEF IsModels
    <3>2. \A o \in ModelsApply(w, s.cli, StagedAssignments(s), StagedRemovals(s)) :
            StaysUninstalled(w, o.world)
      BY <3>1, ModelsApplyIs
    <3> HIDE DEF s
    <3> QED  BY <2>3, <3>2 DEF StaysUninstalled
  <2> QED  BY <2>3, <2>4, <2>5, <2>6 DEF Truthful
<1>4. CASE s.kind = "mcp" /\ Continues(n, key)
  <2>1. out \in McpWrite(n, w)
    BY <1>4 DEF Step
  <2>2. Untouched(n, w)
    BY <1>1, <1>4 DEF Results
  <2>3. OnScreen(out.nav, out.world) /\ out.world = w /\ s.kind # "grant"
    BY <1>4, <2>1, <2>2, McpOnScreen
  <2>4. BusyMessageFor(n, "choose")
    <3>1. Cursor(n) = RowsOf(s) - 1 /\ Made(s, w)
      BY <1>4, <2>2, UntouchedIs DEF Continues
    <3>2. Cursor(n) = Len(s.options)
      BY <1>4, <3>1, RowsAre
    <3> QED  BY <1>4, <3>2 DEF BusyMessageFor
  <2> QED  BY <2>3, <2>4 DEF Written, Truthful, StaysUninstalled
<1>5. CASE s.kind = "grant" /\ Continues(n, key)
  <2>1. out \in GrantMcpWrite(n, w)
    BY <1>5 DEF Step
  <2>2. Untouched(n, w)
    BY <1>1, <1>5 DEF Results
  <2>3. /\ OnScreen(out.nav, out.world) /\ World(out.world)
        /\ out.world.assigned = w.assigned
        /\ NoneIsNoRecord => TellsTheTruth(Current(out.nav), w, out.world, s.chosen)
        /\ StaysUninstalled(w, out.world)
    BY <1>5, <2>1, <2>2, GrantOnScreen
  <2>4. BusyMessageFor(n, "choose")
    <3>1. Cursor(n) = RowsOf(s) - 1 /\ Made(s, w)
      BY <1>5, <2>2, UntouchedIs DEF Continues
    <3>2. Cursor(n) = Len(s.options)
      BY <1>5, <3>1, RowsAre
    <3> QED  BY <1>5, <3>2 DEF BusyMessageFor
  <2> QED  BY <2>3, <2>4 DEF Written, Truthful
<1>6. CASE s.kind = "status" /\ key = "choose"
  <2>1. out \in Shows(n, w, GenerationsMenu(w))
    BY <1>6 DEF Step, Continues
  <2>2. Untouched(n, w)
    BY <1>1, <1>6 DEF Results
  <2>3. OnScreen(out.nav, out.world) /\ out.world = w /\ World(w)
    BY <2>1, <2>2, ShownOnScreen, OtherPreviewsAre
  <2>4. BusyMessageFor(n, "choose")
    BY <1>6 DEF BusyMessageFor
  <2> QED  BY <1>6, <2>3, <2>4 DEF Written, Truthful, StaysUninstalled
<1>7. CASE /\ ~ OnEngine
           /\ ~ (s.kind = "models" /\ Continues(n, key))
           /\ ~ (s.kind = "mcp" /\ Continues(n, key))
           /\ ~ (s.kind = "grant" /\ Continues(n, key))
           /\ ~ (s.kind = "status" /\ key = "choose")
  <2>1. out = To(Handle(n, key), w)
    BY <1>7, Zenon DEF Step
  <2>2. out.nav = Handle(n, key) /\ out.world = w
    BY <2>1 DEF To
  <2>3. OnScreen(Handle(n, key), w) /\ Truthful(n, w, Handle(n, key), w)
    BY HandleOnScreen, HandleTruthful
  <2> QED  BY <2>2, <2>3 DEF Written, StaysUninstalled
<1> QED  BY <1>2, <1>3, <1>4, <1>5, <1>6, <1>7

(* The answer is folded in: only the preface of the main menu changes.      *)
LEMMA NoticeOnScreen ==
  ASSUME NEW n, NEW w, OnScreen(n, w), NEW about
  PROVE  LET m == WithNotice(n, about) IN
         /\ OnScreen(m, w)
         /\ Len(m.stack) = Len(n.stack) /\ m.cursors = n.cursors
         /\ Current(m).kind = Current(n).kind
         /\ Current(n).kind = "menu" => Current(m).entries = Current(n).entries
         /\ Current(n).kind # "menu" => Current(m) = Current(n)
<1> DEFINE lines == UpdateNoticeLines(about)
           menu  == [n.stack[1] EXCEPT !.preface = lines]
           st    == [n.stack EXCEPT ![1] = menu]
           m     == WithNotice(n, about)
<1>1. OnMain(n) /\ IsMain(n.stack[1]) /\ CursorsOn(n)
  BY DEF OnScreen
<1>2. m = [n EXCEPT !.stack = st]
  BY DEF WithNotice
<1>3. [n EXCEPT !.stack = st] = [stack |-> st, cursors |-> n.cursors, quit |-> n.quit]
  <2> HIDE DEF st
  <2> QED  BY <1>1, MoveIs
<1>4. m.stack = st /\ m.cursors = n.cursors
  BY <1>2, <1>3
<1>5. PICK e, p : n.stack[1] = Menu(e, p)
  BY <1>1 DEF OnMain, IsMainMenu
<1>6. menu = Menu(e, lines)
  <2> HIDE DEF lines
  <2> QED  BY <1>5 DEF Menu
<1>7. /\ menu.kind = "menu" /\ menu.entries = e
      /\ n.stack[1].kind = "menu" /\ n.stack[1].entries = e
  BY <1>5, <1>6 DEF Menu
<1> HIDE DEF menu, lines
<1>8. /\ Len(st) = Len(n.stack) /\ st[1] = menu
      /\ \A i \in 2..Len(n.stack) : st[i] = n.stack[i]
  <2>1. PICK S : n.stack \in Seq(S)
    BY <1>1 DEF OnMain, IsSeq
  <2> QED  BY <1>1, <2>1 DEF OnMain
<1> HIDE DEF st
<1>9. OnMain(m)
  BY <1>1, NoticeKeeps
<1> HIDE DEF m
<1>10. Top(n) \in Nat /\ Top(n) >= 1 /\ Current(n) = n.stack[Top(n)]
       /\ Top(m) = Top(n) /\ Current(m) = m.stack[Top(n)]
  BY <1>1, <1>4, <1>8, <1>9, TopIs DEF Top
<1>11. \A i \in 1..Top(n) : i = 1 \/ i \in 2..Top(n)
  BY <1>10
<1>12. IsMain(menu) /\ IsMain(n.stack[1])
  <2>1. IsSeq(e) /\ Len(e) = 8 /\ \A i \in 1..8 : LeadsOn(e[i])
    BY <1>1, <1>7 DEF IsMain
  <2> QED  BY <1>1, <1>7, <2>1 DEF IsMain
<1>13. /\ RowsOf(menu) = RowsOf(n.stack[1])
       /\ Fixed(menu) /\ Fixed(n.stack[1])
  <2>1. RowsOf(menu) = Len(e) /\ RowsOf(n.stack[1]) = Len(e)
    BY <1>7 DEF RowsOf
  <2> QED  BY <1>12, <2>1 DEF Fixed
<1>14. CursorsOn(m)
  <2>1. ASSUME NEW i \in 1..Top(n) PROVE RowsOf(m.stack[i]) = RowsOf(n.stack[i])
    BY <1>4, <1>8, <1>11, <1>13 DEF Top
  <2> QED  BY <1>1, <1>4, <1>8, <2>1 DEF CursorsOn, Top
<1>15. /\ Current(m).kind = Current(n).kind
       /\ Current(n).kind = "menu" => Current(m).entries = Current(n).entries
       /\ Current(n).kind # "menu" => Current(m) = Current(n)
  <2>1. CASE Top(n) = 1
    BY <1>4, <1>7, <1>8, <1>10, <2>1
  <2>2. CASE Top(n) # 1
    <3>1. Top(n) \in 2..Top(n)
      BY <1>10, <2>2
    <3> QED  BY <1>4, <1>8, <1>10, <3>1 DEF Top
  <2> QED  BY <2>1, <2>2
<1>16. ASSUME Layered(n), \A i \in 1..Top(n) : Made(n.stack[i], w)
       PROVE  Layered(m) /\ \A i \in 1..Top(m) : Made(m.stack[i], w)
  <2>1. ASSUME NEW i \in 1..Top(n)
        PROVE  /\ Fixed(m.stack[i]) <=> Fixed(n.stack[i])
               /\ m.stack[i].kind = n.stack[i].kind
               /\ Made(m.stack[i], w)
    <3>1. CASE i = 1
      BY <1>4, <1>7, <1>8, <1>13, <3>1 DEF Made
    <3>2. CASE i \in 2..Top(n)
      BY <1>4, <1>8, <1>16, <3>2 DEF Top
    <3> QED  BY <1>11, <3>1, <3>2
  <2>2. Layered(m)
    BY <1>10, <1>16, <2>1 DEF Layered, Top
  <2> QED  BY <1>10, <2>1, <2>2
<1>17. OnScreen(m, w)
  <2>1. m.stack[1] = menu
    BY <1>4, <1>8
  <2> QED  BY <1>9, <1>12, <1>14, <1>15, <1>16, <2>1 DEF OnScreen, Top
<1> QED  BY <1>4, <1>8, <1>15, <1>17 DEF m

-----------------------------------------------------------------------------
(* The screens of the loop, and of the worker.                             *)

LEMMA CliMenuIs ==
  ASSUME NEW clis, IsSeq(clis), \A i \in 1..Len(clis) : clis[i] \in ToSet(Clis),
         NEW to \in {"install", "update", "models", "grant", "uninstall"}
  PROVE  LeadsOn(Open(CliMenu(clis, to)))
<1> DEFINE s == CliMenu(clis, to)
           entries == [i \in 1..Len(clis) |-> Target(to, clis[i])]
<1>1. IsCliMenu(s) \/ s.kind = "placeholder"
  <2>1. CASE clis = << >>
    BY <2>1 DEF CliMenu, Placeholder
  <2>2. CASE clis # << >>
    <3>1. Len(clis) \in Nat /\ Len(clis) > 0
      BY <2>2, LengthIs
    <3>2. DOMAIN entries = 1..Len(clis) /\ entries = [i \in 1..Len(clis) |-> entries[i]]
      OBVIOUS
    <3>3. \A i \in 1..Len(clis) : entries[i].to = to /\ entries[i].cli = clis[i]
      BY DEF Target
    <3>4. s.kind = "menu" /\ s.entries = entries
      BY <2>2 DEF CliMenu, Menu
    <3> HIDE DEF entries, s
    <3>5. IsSeq(entries) /\ Len(entries) = Len(clis)
      BY <3>1, <3>2, TupleIs
    <3>6. IsCliMenu(s)
      BY <3>1, <3>3, <3>4, <3>5 DEF IsCliMenu
    <3> QED  BY <3>6
  <2> QED  BY <2>1, <2>2
<1>2. Open(s).to = "open" /\ Open(s).screen = s
  BY DEF Open
<1> HIDE DEF s
<1>3. LeadsOn(Open(s))
  BY <1>1, <1>2 DEF LeadsOn
<1> QED  BY <1>3 DEF s

LEMMA StartingOnScreen ==
  ASSUME NEW w, NEW about
  PROVE  OnScreen(Starting(Clis, InstalledIn(w), about), w)
<1> DEFINE detected == Clis
           installed == InstalledIn(w)
           n == Starting(detected, installed, about)
           menu == MainMenu(detected, installed, about)
           entries == <<Open(InstallMenu(detected)), Open(UpdateMenu(installed)),
                        Target("upgrade", None), Open(ModelsMenu(detected)),
                        Open(GrantMcpMenu(installed)), Target("status", None),
                        Open(UninstallMenu(installed)), Quit>>
<1>1. IsSeq(detected) /\ \A i \in 1..Len(detected) : detected[i] \in ToSet(Clis)
  BY SequencesAre, MembersAre
<1>2. IsSeq(installed) /\ \A i \in 1..Len(installed) : installed[i] \in ToSet(Clis)
  <2> DEFINE S == {c \in ToSet(Clis) : w.installs[c] # None}
  <2>1. installed = Ordered(Clis, S)
    BY DEF InstalledIn
  <2> HIDE DEF installed
  <2>2. S \subseteq ToSet(Clis)
    OBVIOUS
  <2> HIDE DEF S
  <2>3. Selects(installed, Clis, S, Len(Clis))
    BY <2>1, SequencesAre, OrderedIs
  <2> QED  BY <2>2, <2>3 DEF Selects
<1> HIDE DEF installed
<1>3. /\ LeadsOn(Open(InstallMenu(detected))) /\ LeadsOn(Open(UpdateMenu(installed)))
      /\ LeadsOn(Open(ModelsMenu(detected))) /\ LeadsOn(Open(GrantMcpMenu(installed)))
      /\ LeadsOn(Open(UninstallMenu(installed)))
  BY <1>1, <1>2, CliMenuIs DEF InstallMenu, UpdateMenu, ModelsMenu, GrantMcpMenu, UninstallMenu
<1>4. LeadsOn(Target("upgrade", None)) /\ LeadsOn(Target("status", None)) /\ LeadsOn(Quit)
  BY DEF LeadsOn, Target, Quit
<1>5. menu.kind = "menu" /\ menu.entries = entries
  BY DEF MainMenu, Menu
<1>6. \A a, b, c, d, e, f, g, h :
        /\ Len(<<a, b, c, d, e, f, g, h>>) = 8 /\ IsSeq(<<a, b, c, d, e, f, g, h>>)
        /\ LeadsOn(a) /\ LeadsOn(b) /\ LeadsOn(c) /\ LeadsOn(d) /\ LeadsOn(e)
             /\ LeadsOn(f) /\ LeadsOn(g) /\ LeadsOn(h)
           => \A i \in 1..8 : LeadsOn(<<a, b, c, d, e, f, g, h>>[i])
  <2> TAKE a, b, c, d, e, f, g, h
  <2>1. <<a, b, c, d, e, f, g, h>> \in Seq({a, b, c, d, e, f, g, h})
    OBVIOUS
  <2>2. \A i \in 1..8 : i = 1 \/ i = 2 \/ i = 3 \/ i = 4 \/ i = 5 \/ i = 6 \/ i = 7 \/ i = 8
    OBVIOUS
  <2>3. IsSeq(<<a, b, c, d, e, f, g, h>>)
    BY <2>1, Zenon DEF IsSeq
  <2>4. Len(<<a, b, c, d, e, f, g, h>>) = 8
    OBVIOUS
  <2>5. ASSUME LeadsOn(a), LeadsOn(b), LeadsOn(c), LeadsOn(d), LeadsOn(e), LeadsOn(f),
               LeadsOn(g), LeadsOn(h), NEW i \in 1..8
        PROVE  LeadsOn(<<a, b, c, d, e, f, g, h>>[i])
    BY <2>2, <2>5
  <2> QED  BY <2>3, <2>4, <2>5
<1>7. IsSeq(entries) /\ Len(entries) = 8 /\ \A i \in 1..8 : LeadsOn(entries[i])
  BY <1>3, <1>4, <1>6, Zenon
<1>8. n.stack = <<menu>> /\ n.cursors = <<0>>
  BY DEF Starting
<1>9. OnMain(n)
  BY StartingOnMain
<1> HIDE DEF entries, menu, n
<1>10. IsMain(menu) /\ RowsOf(menu) = 8
  BY <1>5, <1>7 DEF IsMain, RowsOf
<1>11. Len(n.stack) = 1 /\ n.stack[1] = menu /\ n.cursors[1] = 0
  BY <1>8
<1>12. \A i \in 1..1 : i = 1
  OBVIOUS
<1>13. CursorsOn(n)
  BY <1>10, <1>11, <1>12 DEF CursorsOn
<1>14. Layered(n)
  <2>1. \A i, j \in 1..1 : ~ (i < j)
    OBVIOUS
  <2> QED  BY <1>11, <2>1 DEF Layered
<1>15. \A i \in 1..Len(n.stack) : Made(n.stack[i], w)
  BY <1>10, <1>11, <1>12 DEF Made, Fixed
<1>16. OnScreen(n, w)
  BY <1>9, <1>10, <1>11, <1>13, <1>14, <1>15 DEF OnScreen
<1> QED  BY <1>16 DEF n, installed

LEMMA ScreensInit == Init => ScreensInv
<1> SUFFICES ASSUME Init PROVE ScreensInv  OBVIOUS
<1>1. PICK i \in Installs :
        world = WorldOf(i, << >>, Running,
                        [c \in ToSet(Clis) |-> [a \in ToSet(Agents) |-> None]], 0, 0)
  BY DEF Init, WorldOf
<1>2. OfClis(i)
  BY TuiAssumption DEF OfClis
<1>3. IsSeq(<< >>) /\ Len(<< >>) = 0 /\ \A g : ~ (g \in 1..0)
  <2>1. << >> \in Seq({})
    OBVIOUS
  <2> QED  BY <2>1 DEF IsSeq
<1>4. PICK a : a = [c \in ToSet(Clis) |-> [b \in ToSet(Agents) |-> None]]
  OBVIOUS
<1>5. OfClis(a) /\ \A c \in ToSet(Clis) : OfAgents(a[c])
  BY <1>4 DEF OfClis, OfAgents
<1>6. 0 \in 0..MaxFaults /\ 0 \in Nat /\ 0 <= MaxCommands
  BY TuiAssumption
<1>7. World(WorldOf(i, << >>, Running, a, 0, 0))
  BY <1>2, <1>3, <1>5, <1>6, IsWorld
<1>8. World(world) /\ world.tries = 0
  BY <1>1, <1>4, <1>7, WorldOfIs
<1>9. OnScreen(nav, world)
  BY StartingOnScreen DEF Init
<1>10. worker.state = "none" /\ mode = "loop"
  BY DEF Init, NoWorker
<1> QED  BY <1>6, <1>8, <1>9, <1>10 DEF ScreensInv, OnScreen

(* What the worker does with the plan on screen.                           *)
AsPlanned(plan, w, v) ==
  IF plan.command = "upgrade"
  THEN v.binary = plan.report /\ v.installs = w.installs
  ELSE /\ plan.report # None => v.installs[plan.cli] = plan.report
       /\ \A c \in ToSet(Clis) \ {plan.cli} : v.installs[c] = w.installs[c]

(* Nothing is installed where nothing was, but by the plan of an install.   *)
OnlyPlanned(plan, w, v) ==
  \A c \in ToSet(Clis) : w.installs[c] = None /\ v.installs[c] # None =>
    plan.command = "install" /\ plan.cli = c

LEMMA PlanTaskOnScreen ==
  ASSUME NEW n, NEW w, World(w), OnScreen(n, w), Current(n).kind = "plan",
         NEW out \in PlanTask(n, w)
  PROVE  /\ OnScreen(out.nav, out.world) /\ AtMostOnce(w, out.world)
         /\ out.world.assigned = w.assigned
         /\ Current(out.nav).kind = "installed"
         /\ Current(out.nav).report = TRUE => AsPlanned(Current(n), w, out.world)
         /\ OnlyPlanned(Current(n), w, out.world)
<1> DEFINE s == Current(n)
           outcomes == CASE s.command = "install" -> InstallChosen(w, s.cli, s.mcp)
                         [] s.command = "update"  -> Update(w, s.cli)
                         [] s.command = "upgrade" -> Upgrade(w)
<1>1. Untouched(n, w)
  BY DEF Untouched, Results
<1>2. IsPlan(s, w)
  BY <1>1, UntouchedIs, KindsAre
<1>3. PICK o \in outcomes : out = To(Opened(n, InstallResult(s.cli, s.command, o.ok)), o.world)
  <2> HIDE DEF outcomes
  <2>1. out \in {To(Opened(n, InstallResult(s.cli, s.command, o.ok)), o.world) : o \in outcomes}
    BY DEF PlanTask, outcomes
  <2> QED  BY <2>1
<1>4. /\ AtMostOnce(w, o.world) /\ o.world.assigned = w.assigned
      /\ o.ok = TRUE => AsPlanned(s, w, o.world)
      /\ OnlyPlanned(s, w, o.world)
  <2>1. CASE /\ s.command = "install" /\ s.cli \in ToSet(Clis)
             /\ s \in InstallPreviews(w, s.cli, s.mcp)
    <3>1. o \in Install(w, s.cli, s.mcp, Recorded(w, s.cli, "granted"))
      BY <1>3, <2>1 DEF InstallChosen
    <3>2. PICK record : record = Planned(s.mcp, Recorded(w, s.cli, "granted"))
      OBVIOUS
    <3>3. s.report = None \/ s.report = record
      BY <2>1, <3>2 DEF InstallPreviews, InstallPlan
    <3>4. /\ Once(w, o.world)
          /\ o.ok => Puts(w, o.world, s.cli, record)
          /\ ~ o.ok => Same(w, o.world)
          /\ o.ok \in BOOLEAN
      BY <2>1, <3>1, <3>2, InstallIs
    <3> HIDE DEF s, outcomes
    <3>5. OnlyPlanned(s, w, o.world)
      BY <2>1, <3>4 DEF OnlyPlanned, Puts, Same
    <3> QED  BY <2>1, <3>3, <3>4, <3>5 DEF AsPlanned, Puts, Same, Once, AtMostOnce
  <2>2. CASE /\ s.kind = "plan" /\ s.command = "update" /\ s.cli \in ToSet(Clis)
             /\ s \in UpdatePreviews(w, s.cli)
    <3>1. o \in Again(w, s.cli, Recorded(w, s.cli, "granted"))
      BY <1>3, <2>2 DEF Update
    <3>2. /\ CanUpdate(w, s.cli)
          /\ s.report = Planned(w.installs[s.cli].mcp, w.installs[s.cli].granted)
      <4>1. InstallResult(s.cli, "update", FALSE).kind # "plan"
        BY DEF InstallResult
      <4>2. CanUpdate(w, s.cli)
        BY <2>2, <4>1 DEF UpdatePreviews
      <4>3. s = InstallPlan(s.cli, "update", {},
                  Planned(w.installs[s.cli].mcp, w.installs[s.cli].granted))
        BY <2>2, <4>1, <4>2 DEF UpdatePreviews
      <4> HIDE DEF s
      <4> QED  BY <4>2, <4>3 DEF InstallPlan
    <3>3. Recorded(w, s.cli, "granted") = w.installs[s.cli].granted
      BY <3>2 DEF Recorded, CanUpdate
    <3>4. /\ AtMostOnce(w, o.world)
          /\ o.ok => Puts(w, o.world, s.cli, s.report)
          /\ ~ o.ok => Same(w, o.world)
          /\ o.ok \in BOOLEAN
      BY <2>2, <3>1, <3>2, <3>3, AgainIs
    <3> HIDE DEF s, outcomes
    <3>5. OnlyPlanned(s, w, o.world)
      BY <2>2, <3>1, AgainStays DEF StaysUninstalled, OnlyPlanned
    <3> QED  BY <2>2, <3>4, <3>5 DEF AsPlanned, Puts, Same
  <2>3. CASE s = InstallPlan(None, "upgrade", {}, Published)
    <3>1. s.command = "upgrade" /\ s.report = Published
      BY <2>3 DEF InstallPlan
    <3>2. o \in Upgrade(w)
      BY <1>3, <3>1
    <3> HIDE DEF s, outcomes
    <3> QED  BY <3>1, <3>2, UpgradeIs DEF AsPlanned, OnlyPlanned, Once, AtMostOnce
  <2> QED  BY <1>2, <2>1, <2>2, <2>3 DEF IsPlan
<1>5. PICK r : r = InstallResult(s.cli, s.command, o.ok)
  OBVIOUS
<1>6. r.kind = "installed" /\ r.report = o.ok /\ r.kind \in Results
  BY <1>5 DEF InstallResult, Results
<1>7. OnScreen(Opened(n, r), o.world) /\ Current(Opened(n, r)) = r
  BY <1>1, <1>4, <1>6, OpenedOnScreen DEF AtMostOnce
<1>8. out.nav = Opened(n, r) /\ out.world = o.world
  BY <1>3, <1>5 DEF To
<1> QED  BY <1>4, <1>6, <1>7, <1>8

LEMMA MergedOnScreen ==
  ASSUME OnScreen(nav, world)
  PROVE  /\ OnScreen(Merged, world)
         /\ Len(Merged.stack) = Len(nav.stack) /\ Merged.cursors = nav.cursors
         /\ Current(Merged).kind = Current(nav).kind
         /\ Current(nav).kind = "menu" => Current(Merged).entries = Current(nav).entries
         /\ Current(nav).kind # "menu" => Current(Merged) = Current(nav)
  BY NoticeOnScreen DEF Merged

LEMMA ScreensNext == JoinInv /\ AnswerInv /\ ScreensInv /\ [Next]_vars => ScreensInv'
<1> SUFFICES ASSUME JoinInv, AnswerInv, ScreensInv, [Next]_vars PROVE ScreensInv'  OBVIOUS
<1>1. ASSUME UNCHANGED <<nav, world, mode, worker>> PROVE ScreensInv'
  <2>1. OnScreen(nav, world)' <=> OnScreen(nav, world)
    BY <1>1
  <2>2. OnScreen(worker.left, world)' <=> OnScreen(worker.left, world)
    BY <1>1
  <2> QED  BY <1>1, <2>1, <2>2 DEF ScreensInv
(* A turn of the loop.                                                     *)
<1>2. ASSUME NEW m, nav' = m, NEW v, world' = v, OnScreen(m, v), World(v), v.tries <= MaxCommands,
             mode = "loop", UNCHANGED <<mode, worker>>
      PROVE  ScreensInv'
  <2>1. worker' = NoWorker
    BY <1>2 DEF AnswerInv, NoWorker
  <2> QED  BY <1>2, <2>1 DEF ScreensInv, OnScreen, NoWorker
<1>3. mode = "loop" => OnScreen(Merged, world)
  BY MergedOnScreen DEF ScreensInv
<1>4. CASE UNCHANGED vars
  BY <1>1, <1>4 DEF vars
<1>5. CASE CheckAnswers
  BY <1>1, <1>5 DEF CheckAnswers
<1>6. CASE NoKey
  <2>1. OnScreen(Merged, world) /\ World(world) /\ world.tries <= MaxCommands
    BY <1>3, <1>6 DEF NoKey, Waiting, ScreensInv
  <2> QED  BY <1>2, <1>6, <2>1 DEF NoKey, Waiting
<1>7. CASE \E key \in Keys : Key(key)
  <2>1. PICK key \in Keys : Key(key)
    BY <1>7
  <2>2. PICK out \in Step(Merged, world, key) :
          out.world.tries <= MaxCommands /\ nav' = out.nav /\ world' = out.world
    BY <2>1 DEF Key
  <2>3. OnScreen(Merged, world) /\ World(world) /\ mode = "loop" /\ UNCHANGED <<mode, worker>>
    BY <1>3, <2>1 DEF Key, Waiting, ScreensInv
  <2>4. OnScreen(out.nav, out.world) /\ World(out.world)
    BY <2>2, <2>3, StepOnScreen
  <2> QED  BY <1>2, <2>2, <2>3, <2>4
<1>8. CASE StartInstall
  <2>1. OnScreen(Merged, world) /\ OnScreen(nav, world)
    BY <1>3, <1>8 DEF StartInstall, Waiting, ScreensInv
  <2>2. Current(Merged).kind = "plan"
    BY <1>8, <2>1, MergedOnScreen DEF StartInstall, OnPlan
  <2>3. PICK m, v : m = Merged /\ v = world
    OBVIOUS
  <2>4. nav' = m /\ world' = v /\ worker' = [state |-> "running", left |-> None]
    BY <1>8, <2>3 DEF StartInstall
  <2>5. /\ OnScreen(m, v) /\ Current(m).kind = "plan" /\ v.tries < MaxCommands
        /\ World(v) /\ v.tries <= MaxCommands
    BY <1>8, <2>1, <2>2, <2>3 DEF StartInstall, ScreensInv
  <2>6. worker'.state = "running" /\ worker'.left = None
    BY <2>4
  <2> QED  BY <2>4, <2>5, <2>6 DEF ScreensInv, OnScreen
<1>9. CASE WorkerEnds
  <2>1. /\ OnScreen(nav, world) /\ Current(nav).kind = "plan" /\ World(world)
        /\ world.tries < MaxCommands /\ world.tries <= MaxCommands /\ CursorsOn(nav)
    BY <1>9 DEF WorkerEnds, ScreensInv
  <2>2. PICK out \in PlanTask(nav, world) :
          world' = out.world /\ worker' = [state |-> "ended", left |-> out.nav]
    BY <1>9 DEF WorkerEnds
  <2>3. /\ OnScreen(out.nav, out.world) /\ AtMostOnce(world, out.world)
        /\ Current(out.nav).kind = "installed"
    BY <2>1, <2>2, PlanTaskOnScreen
  <2>4. World(out.world) /\ out.world.tries <= MaxCommands
    <3>1. world.tries \in Nat
      BY <2>1 DEF World
    <3>2. \A t \in Nat : t < MaxCommands => t + 1 <= MaxCommands
      BY TuiAssumption
    <3> QED  BY <2>1, <2>3, <3>1, <3>2 DEF AtMostOnce
  <2>5. mode # "loop" /\ UNCHANGED <<nav, mode>>
    BY <1>9 DEF WorkerEnds, AnswerInv, NoWorker
  <2>6. worker'.state = "ended" /\ worker'.left = out.nav
    BY <2>2
  <2>7. CursorsOn(nav)'
    BY <2>1, <2>5 DEF CursorsOn
  <2> QED  BY <2>2, <2>3, <2>4, <2>5, <2>6, <2>7 DEF ScreensInv
<1>10. CASE WorkerBreaks
  <2>1. World(world) /\ world.tries < MaxCommands /\ CursorsOn(nav)
    BY <1>10 DEF WorkerBreaks, ScreensInv
  <2>2. PICK out \in Failing(world) :
          world' = out.world /\ worker' = [state |-> "ended", left |-> None]
    BY <1>10 DEF WorkerBreaks
  <2>3. Once(world, out.world)
    BY <2>1, <2>2, FailingIs
  <2>4. World(out.world) /\ out.world.tries <= MaxCommands
    <3>1. world.tries \in Nat
      BY <2>1 DEF World
    <3>2. \A t \in Nat : t < MaxCommands => t + 1 <= MaxCommands
      BY TuiAssumption
    <3> QED  BY <2>1, <2>3, <3>1, <3>2 DEF Once
  <2>5. mode # "loop" /\ UNCHANGED <<nav, mode>>
    BY <1>10 DEF WorkerBreaks, AnswerInv, NoWorker
  <2>6. worker'.state = "ended" /\ worker'.left = None
    BY <2>2
  <2>7. CursorsOn(nav)'
    BY <2>1, <2>5 DEF CursorsOn
  <2> QED  BY <2>2, <2>4, <2>5, <2>6, <2>7 DEF ScreensInv
<1>11. CASE FinishInstall
  <2>1. PICK n, v : n = worker.left /\ v = world
    OBVIOUS
  <2>2. World(v) /\ v.tries <= MaxCommands /\ world' = v /\ worker'.state = "none"
        /\ worker'.left = None
    BY <1>11, <2>1 DEF FinishInstall, ScreensInv, NoWorker
  <2>3. CASE worker.left = None
    <3>1. mode' = "leaving" /\ nav' = nav
      BY <1>11, <2>3 DEF FinishInstall
    <3>2. CursorsOn(nav)'
      BY <3>1 DEF ScreensInv, CursorsOn
    <3> QED  BY <2>2, <3>1, <3>2 DEF ScreensInv
  <2>4. CASE worker.left # None
    <3>1. nav' = n /\ OnScreen(n, v)
      BY <1>11, <2>1, <2>4 DEF FinishInstall, ScreensInv
    <3> QED  BY <2>2, <3>1 DEF ScreensInv, OnScreen
  <2> QED  BY <2>3, <2>4
<1>12. CASE Interrupt \/ LeaveLoop \/ Exit
  <2>1. mode' # "loop" /\ mode' # "installing" /\ UNCHANGED <<nav, world, worker>>
    BY <1>12 DEF Interrupt, Interrupted, LeaveLoop, Exit, JoinInv
  <2>2. (worker.state = "running" => OnScreen(nav, world))'
    <3>1. worker.state = "running" => OnScreen(nav, world)
      BY DEF ScreensInv
    <3> QED  BY <2>1, <3>1
  <2>3. World(world)' /\ CursorsOn(nav)'
    BY <2>1 DEF ScreensInv, World, CursorsOn
  <2> QED  BY <2>1, <2>2, <2>3 DEF ScreensInv
<1>13. CASE JoinsWorker
  <2>1. mode' = "leaving" /\ UNCHANGED <<nav, world>> /\ worker'.state = "none"
        /\ worker'.left = None
    BY <1>13 DEF JoinsWorker, NoWorker
  <2>2. World(world)' /\ CursorsOn(nav)'
    BY <2>1 DEF ScreensInv, World, CursorsOn
  <2> QED  BY <2>1, <2>2 DEF ScreensInv
<1> QED
  BY <1>4, <1>5, <1>6, <1>7, <1>8, <1>9, <1>10, <1>11, <1>12, <1>13 DEF Next

(* What is known of the answer, of the waiting and of Ctrl-C.              *)
LoopInv ==
  /\ check \in {"running", "done"}
  /\ latest \in {None, Published}
  /\ checking \in BOOLEAN /\ polls \in BOOLEAN
  /\ interrupts \in 0..MaxInterrupts

LEMMA LoopInit == Init => LoopInv
  BY TuiAssumption DEF Init, LoopInv

LEMMA LoopNext == LoopInv /\ [Next]_vars => LoopInv'
<1> SUFFICES ASSUME LoopInv, [Next]_vars PROVE LoopInv'  OBVIOUS
<1>1. CASE UNCHANGED vars
  BY <1>1 DEF vars, LoopInv
<1>2. CASE CheckAnswers
  BY <1>2 DEF CheckAnswers, Answers, LoopInv
<1>3. CASE NoKey \/ StartInstall \/ \E key \in Keys : Key(key)
  <2>1. /\ checking' = (checking /\ ~ Folds) /\ polls' \in {TRUE, checking /\ ~ Folds}
        /\ UNCHANGED <<check, latest, interrupts>>
    BY <1>3 DEF NoKey, StartInstall, Key, FoldAnswer
  <2>2. checking' \in BOOLEAN /\ polls' \in BOOLEAN
    BY <2>1
  <2> QED  BY <2>1, <2>2 DEF LoopInv
<1>4. CASE WorkerEnds \/ WorkerBreaks \/ LeaveLoop \/ Exit
  BY <1>4 DEF WorkerEnds, WorkerBreaks, LeaveLoop, Exit, LoopInv
<1>5. CASE FinishInstall \/ JoinsWorker
  BY <1>5 DEF FinishInstall, JoinsWorker, LoopInv
<1>6. CASE Interrupt
  <2>1. interrupts' = interrupts + 1 /\ interrupts < MaxInterrupts
        /\ UNCHANGED <<check, latest, checking, polls>>
    BY <1>6 DEF Interrupt
  <2>2. interrupts' \in 0..MaxInterrupts
    BY <2>1, TuiAssumption DEF LoopInv
  <2> QED  BY <2>1, <2>2 DEF LoopInv
<1> QED  BY <1>1, <1>2, <1>3, <1>4, <1>5, <1>6 DEF Next

(* The variables of the loop have their values, and the commands tried and  *)
(* failed stay within the bounds of the model.                             *)
THEOREM TypesHold == Spec => []TypeOK
<1>1. JoinInv /\ LoopInv /\ ScreensInv => TypeOK
  <2> SUFFICES ASSUME JoinInv, LoopInv, ScreensInv PROVE TypeOK  OBVIOUS
  <2>1. World(world) /\ world.tries <= MaxCommands /\ worker.state \in {"none", "running", "ended"}
    BY DEF ScreensInv
  <2>2. world.tries \in 0..MaxCommands
    BY <2>1, TuiAssumption DEF World
  <2>3. DOMAIN world.installs = ToSet(Clis)
    BY <2>1 DEF World, OfClis
  <2>4. world.faults \in 0..MaxFaults
    BY <2>1 DEF World
  <2> QED  BY <2>1, <2>2, <2>3, <2>4 DEF TypeOK, JoinInv, LoopInv
<1> QED
  BY <1>1, JoinInit, JoinNext, AnswerInit, AnswerNext, LoopInit, LoopNext,
     ScreensInit, ScreensNext, PTL DEF Spec

LEMMA FreshOnTop ==
  ASSUME ScreensInv
  PROVE  TopFresh
<1> DEFINE s == Current(nav)
<1> SUFFICES ASSUME mode = "loop" PROVE TopFresh
  BY DEF TopFresh
<1>1. World(world) /\ OnScreen(nav, world)
  BY DEF ScreensInv
<1>2. CASE s.kind \in Results
  BY <1>2 DEF TopFresh, Results
<1>3. CASE s.kind \notin Results
  <2>1. Untouched(nav, world)
    BY <1>1, <1>3 DEF Untouched
  <2>2. Made(s, world)
    BY <2>1, UntouchedIs
  <2>3. /\ s.kind = "menu" => Fixed(s) \/ Machine(s, world)
        /\ s.kind = "grant" => IsGrant(s, world)
        /\ s.kind = "models" => IsModels(s, world)
        /\ s.kind = "plan" => IsPlan(s, world)
        /\ s.kind = "status" => s = Status(world.installs)
    BY <1>1, <2>2, KindsAre
  <2>4. CASE s.kind = "plan"
    <3>1. \/ s.command = "install" /\ s \in InstallPreviews(world, s.cli, s.mcp)
          \/ s.command = "update" /\ s \in UpdatePreviews(world, s.cli)
          \/ s.command = "upgrade"
      BY <2>3, <2>4 DEF IsPlan, InstallPlan
    <3> HIDE DEF s
    <3> QED  BY <2>4, <3>1, Zenon DEF TopFresh, s
  <2>5. CASE s.kind = "grant"
    BY <2>3, <2>5 DEF TopFresh, IsGrant
  <2>6. CASE s.kind = "models"
    BY <2>3, <2>6 DEF TopFresh, IsModels
  <2>7. CASE s.kind = "status"
    <3>1. s.report = world.installs
      BY <2>3, <2>7 DEF Status
    <3> QED  BY <2>7, <3>1 DEF TopFresh
  <2>8. CASE s.kind = "menu" /\ Fixed(s)
    <3>1. s.entries[1].to # "restore" /\ s.entries[1] # Cancel
      <4>1. CASE IsMain(s)
        BY <4>1 DEF IsMain, LeadsOn, Cancel
      <4>2. CASE IsCliMenu(s)
        <5>1. 1 \in 1..Len(s.entries)
          BY <4>2, LengthIs DEF IsCliMenu
        <5> QED  BY <4>2, <5>1 DEF IsCliMenu, Cancel
      <4> QED  BY <2>8, <4>1, <4>2 DEF Fixed
    <3> QED  BY <2>8, <3>1 DEF TopFresh
  <2>9. CASE s.kind = "menu" /\ s = GenerationsMenu(world)
    <3>1. s.entries[1].to = "restore"
      <4>1. 1 \in 1..Len(s.entries) /\ \E g : s.entries[1] = Generation("restore", g)
        BY <1>1, <2>9, GenerationsMenuIs, LengthIs
      <4> QED  BY <4>1 DEF Generation
    <3>2. s.entries[1] # Cancel
      BY <3>1 DEF Cancel
    <3> QED  BY <2>9, <3>1, <3>2 DEF TopFresh
  <2>10. CASE /\ s.kind = "menu"
              /\ \/ \E c \in ToSet(Clis) : s = UninstallPreview(world, c)
                 \/ \E g \in 1..Len(world.gens) : s = RestorePreview(world, g)
    <3>0. \E e, about : s = Menu(<<Cancel, e>>, about)
      BY <2>10, Zenon DEF UninstallPreview, RestorePreview
    <3>1. s.entries[1] = Cancel
      BY <3>0, PreviewIs
    <3>2. s.entries[1].to # "restore"
      BY <3>1 DEF Cancel
    <3> QED  BY <2>10, <3>1, <3>2 DEF TopFresh
  <2>11. CASE s.kind \in {"placeholder", "mcp"}
    BY <2>11 DEF TopFresh
  <2> QED
    BY <1>1, <2>2, <2>3, <2>4, <2>5, <2>6, <2>7, <2>8, <2>9, <2>10, <2>11, KindsAre DEF Machine
<1> QED  BY <1>2, <1>3

(* Every screen has its cursor on one of its rows, and one that was made    *)
(* from the machine when it was opened says what is true of it whenever it  *)
(* is on top: a command leaves a result, whose only way on is the main      *)
(* menu, or makes the screen it goes on to again; no such screen made       *)
(* before it is come back to (Navigator.handle, _models_write). The menus   *)
(* made once at the start (Navigator.main_menu) are no such screens.        *)
THEOREM ScreensTell == Spec => []ScreensHold
<1>1. AnswerInv /\ ScreensInv => ScreensHold
  <2> SUFFICES ASSUME AnswerInv, ScreensInv PROVE ScreensHold  OBVIOUS
  <2>1. OnMain(nav)
    BY DEF AnswerInv
  <2>2. nav.stack # << >> /\ Len(nav.cursors) = Len(nav.stack)
    BY <2>1, LengthIs DEF OnMain
  <2>3. CursorsOnRows
    BY <2>2 DEF ScreensInv, CursorsOnRows, CursorsOn
  <2> QED  BY <2>3, FreshOnTop DEF ScreensHold
<1> QED
  BY <1>1, JoinInit, JoinNext, AnswerInit, AnswerNext, ScreensInit, ScreensNext, PTL DEF Spec

-----------------------------------------------------------------------------
(* What lands in the store of assignments is what was staged.              *)

LEMMA OrderedMembers ==
  ASSUME NEW s, IsSeq(s), NEW S \in SUBSET ToSet(s), NEW x
  PROVE  x \in ToSet(Ordered(s, S)) <=> x \in S
<1> DEFINE r == Ordered(s, S)
<1>1. Selects(r, s, S, Len(s))
  BY OrderedIs
<1> HIDE DEF r
<1>2. \A t : IsSeq(t) => \A y : y \in ToSet(t) <=> \E i \in 1..Len(t) : y = t[i]
  <2> SUFFICES ASSUME NEW t, IsSeq(t), NEW y
               PROVE  y \in ToSet(t) <=> \E i \in 1..Len(t) : y = t[i]
    OBVIOUS
  <2>1. PICK T : t \in Seq(T)
    BY DEF IsSeq
  <2>2. DOMAIN t = 1..Len(t)
    BY <2>1
  <2> QED  BY <2>2 DEF ToSet
<1>3. IsSeq(r)
  BY <1>1 DEF Selects
<1>4. x \in ToSet(r) => x \in S
  BY <1>1, <1>2, <1>3 DEF Selects
<1>5. ASSUME x \in S PROVE x \in ToSet(r)
  <2>1. x \in ToSet(s)
    BY <1>5
  <2>2. PICK j \in 1..Len(s) : x = s[j]
    BY <1>2, <2>1
  <2>3. \E i \in 1..Len(r) : r[i] = x
    BY <1>1, <1>5, <2>2 DEF Selects
  <2> QED  BY <1>2, <1>3, <2>3
<1> QED  BY <1>4, <1>5 DEF r

(* Of one agent there is one change staged, the last one.                  *)
LEMMA LandsAsStaged ==
  ASSUME NEW w, World(w), NEW s, IsModels(s, w), NEW i \in 1..Len(s.rows)
  PROVE  LET agent == s.rows[i].agent IN
         /\ agent \in ToSet(Agents)
         /\ AssignedAfter(w.assigned[s.cli], StagedAssignments(s), StagedRemovals(s))[agent]
              = RowShows(s, s.rows[i])
<1> DEFINE st == s.staged
           row == s.rows[i]
           agent == row.agent
           before == w.assigned[s.cli]
           sets == StagedAssignments(s)
           removals == StagedRemovals(s)
           changes == {c \in ToSet(st) : c.agent = agent}
           last == CHOOSE k \in 1..Len(st) :
                     /\ st[k].agent = agent
                     /\ \A j \in (k+1)..Len(st) : st[j].agent # agent
           given == LET a == CHOOSE a \in ToSet(sets) : a.agent = agent
                    IN <<a.model, a.effort>>
<1>1. /\ Wizard(s.cli, s.rows, w) /\ StagedOnce(st) /\ s.cli \in ToSet(Clis)
  BY DEF IsModels, Wizard
<1>2. agent = Agents[i] /\ row.current = before[agent] /\ i \in 1..Len(Agents)
  <2>1. s.rows = RowsFor(w, s.cli) /\ Len(s.rows) = Len(Agents)
    BY <1>1, WizardRows
  <2>2. i \in 1..Len(Agents)
    BY <2>1
  <2>3. row = [agent |-> Agents[i], current |-> CurrentAssignment(w, s.cli, Agents[i])]
    BY <2>1, <2>2 DEF RowsFor
  <2> QED  BY <2>2, <2>3 DEF CurrentAssignment
<1>3. agent \in ToSet(Agents)
  BY <1>2, SequencesAre, MembersAre
<1>4. DOMAIN before = ToSet(Agents)
  BY <1>1 DEF World, OfAgents
<1>5. IsSeq(st) /\ Len(st) \in Nat
      /\ \A j, k \in 1..Len(st) : st[j].agent = st[k].agent => j = k
  BY <1>1, LengthIs DEF StagedOnce
<1>6. \A x : x \in ToSet(st) <=> \E k \in 1..Len(st) : x = st[k]
  <2>1. PICK T : st \in Seq(T)
    BY <1>5 DEF IsSeq
  <2>2. DOMAIN st = 1..Len(st)
    BY <2>1
  <2> QED  BY <2>2 DEF ToSet
<1>7. \A x : x \in ToSet(sets) <=> x \in ToSet(st) /\ x.model # None
  <2> DEFINE S == {c \in ToSet(st) : c.model # None}
  <2>1. sets = Ordered(st, S)
    BY DEF StagedAssignments
  <2>2. S \in SUBSET ToSet(st) /\ \A x : x \in S <=> x \in ToSet(st) /\ x.model # None
    OBVIOUS
  <2> HIDE DEF S, sets, st
  <2> QED  BY <1>5, <2>1, <2>2, OrderedMembers
<1>8. \A x : x \in ToSet(removals) <=> x \in ToSet(st) /\ x.model = None
  <2> DEFINE S == {c \in ToSet(st) : c.model = None}
  <2>1. removals = Ordered(st, S)
    BY DEF StagedRemovals
  <2>2. S \in SUBSET ToSet(st) /\ \A x : x \in S <=> x \in ToSet(st) /\ x.model = None
    OBVIOUS
  <2> HIDE DEF S, removals, st
  <2> QED  BY <1>5, <2>1, <2>2, OrderedMembers
<1>9. AssignedAfter(before, sets, removals)[agent] =
        IF agent \in {r.agent : r \in ToSet(removals)} THEN None
        ELSE IF agent \in {a.agent : a \in ToSet(sets)} THEN given
        ELSE before[agent]
  <2> HIDE DEF sets, removals, row
  <2> QED  BY <1>3, <1>4 DEF AssignedAfter
<1>10. RowShows(s, row) =
         IF changes = {} THEN row.current
         ELSE IF st[last].model = None THEN None
         ELSE <<st[last].model, st[last].effort>>
  BY Zenon DEF RowShows
<1>11. ASSUME changes = {}
       PROVE  AssignedAfter(before, sets, removals)[agent] = RowShows(s, row)
  <2>1. \A x \in ToSet(st) : x.agent # agent
    BY <1>11
  <2>2. /\ agent \notin {r.agent : r \in ToSet(removals)}
        /\ agent \notin {a.agent : a \in ToSet(sets)}
    <3> HIDE DEF sets, removals, st, row
    <3> QED  BY <1>7, <1>8, <2>1
  <2> HIDE DEF sets, removals, given, changes, row
  <2> QED  BY <1>2, <1>3, <1>9, <1>10, <1>11, <2>2
<1>12. ASSUME changes # {}
       PROVE  AssignedAfter(before, sets, removals)[agent] = RowShows(s, row)
  <2>1. PICK k \in 1..Len(st) : st[k].agent = agent
    BY <1>6, <1>12
  <2>2. \A x \in ToSet(st) : x.agent = agent => x = st[k]
    BY <1>5, <1>6, <2>1
  <2>3. last = k
    <3>1. \A j \in (k+1)..Len(st) : j \in 1..Len(st) /\ j # k
      BY <1>5, <2>1
    <3>2. \A j \in (k+1)..Len(st) : st[j].agent # agent
      BY <1>5, <2>1, <3>1
    <3>3. last \in 1..Len(st) /\ st[last].agent = agent
      BY <2>1, <3>2
    <3> HIDE DEF last
    <3> QED  BY <1>5, <2>1, <3>3
  <2> HIDE DEF last
  <2>4. st[k] \in ToSet(st)
    BY <1>6
  <2>5. CASE st[k].model = None
    <3>1. agent \in {r.agent : r \in ToSet(removals)}
      <4>1. st[k] \in ToSet(removals)
        BY <1>8, <2>4, <2>5
      <4> HIDE DEF removals, st, row
      <4> QED  BY <2>1, <4>1
    <3> HIDE DEF sets, removals, given, changes, row
    <3> QED  BY <1>3, <1>9, <1>10, <1>12, <2>3, <2>5, <3>1
  <2>6. CASE st[k].model # None
    <3>1. agent \notin {r.agent : r \in ToSet(removals)}
      <4> HIDE DEF removals, st, row
      <4> QED  BY <1>8, <2>2, <2>6
    <3>2. st[k] \in ToSet(sets)
      BY <1>7, <2>4, <2>6
    <3>3. agent \in {a.agent : a \in ToSet(sets)}
      <4> HIDE DEF sets, st, row
      <4> QED  BY <2>1, <3>2
    <3>4. given = <<st[k].model, st[k].effort>>
      <4> DEFINE a == CHOOSE a \in ToSet(sets) : a.agent = agent
      <4>1. a \in ToSet(sets) /\ a.agent = agent
        <5> HIDE DEF sets, st, row
        <5> QED  BY <2>1, <3>2
      <4>2. given = <<a.model, a.effort>>
        OBVIOUS
      <4> HIDE DEF a, given, sets, st, row
      <4>3. a = st[k]
        BY <1>7, <2>2, <4>1
      <4> QED  BY <4>2, <4>3
    <3> HIDE DEF sets, removals, given, changes, row
    <3> QED  BY <1>3, <1>9, <1>10, <1>12, <2>3, <2>6, <3>1, <3>3, <3>4
  <2> QED  BY <2>5, <2>6
<1> QED  BY <1>3, <1>11, <1>12

-----------------------------------------------------------------------------
(* What the user is shown is what is done.                                 *)

(* A step is a key, or leaves assignments alone and the navigator where it  *)
(* was, or waits with the answer folded in, or takes what the worker left.  *)
KeyDone(key) ==
  /\ mode = "loop" /\ OnScreen(nav, world) /\ OnScreen(Merged, world) /\ World(world)
  /\ worker' = worker
  /\ \E out \in Step(Merged, world, key) : nav' = out.nav /\ world' = out.world
NoKeyDone ==
  /\ world'.assigned = world.assigned
  /\ \/ StaysUninstalled(world, world')
     \/ Current(nav).kind = "plan" /\ OnlyPlanned(Current(nav), world, world')
  /\ \/ nav' = nav /\ (nav = Merged \/ mode # "loop" \/ mode' # "loop")
     \/ nav' = Merged /\ OnScreen(nav, world)
     \/ mode # "loop" /\ Current(nav').kind = "installed"

LEMMA StepsAre ==
  ASSUME AnswerInv, ScreensInv, Next
  PROVE  NoKeyDone \/ \E key \in Keys : KeyDone(key)
<1>1. CASE CheckAnswers
  <2>1. nav = Merged
    BY <1>1 DEF CheckAnswers, Merged, Folds
  <2> QED  BY <1>1, <2>1 DEF CheckAnswers, NoKeyDone, StaysUninstalled
<1>2. CASE NoKey \/ StartInstall
  <2>1. nav' = Merged /\ mode = "loop" /\ world' = world
    BY <1>2 DEF NoKey, StartInstall, Waiting
  <2> QED  BY <2>1 DEF ScreensInv, NoKeyDone, StaysUninstalled
<1>3. CASE WorkerEnds
  <2>1. /\ OnScreen(nav, world) /\ Current(nav).kind = "plan" /\ World(world)
        /\ nav' = nav /\ mode # "loop"
    BY <1>3 DEF WorkerEnds, ScreensInv, AnswerInv, NoWorker
  <2>2. \E out \in PlanTask(nav, world) : world' = out.world
    BY <1>3 DEF WorkerEnds
  <2>3. world'.assigned = world.assigned /\ OnlyPlanned(Current(nav), world, world')
    BY <2>1, <2>2, PlanTaskOnScreen
  <2> QED  BY <2>1, <2>3 DEF NoKeyDone
<1>4. CASE WorkerBreaks
  <2>1. World(world) /\ nav' = nav /\ mode # "loop"
    BY <1>4 DEF WorkerBreaks, ScreensInv, AnswerInv, NoWorker
  <2>2. \E out \in Failing(world) : world' = out.world
    BY <1>4 DEF WorkerBreaks
  <2>3. world'.assigned = world.assigned /\ StaysUninstalled(world, world')
    BY <2>1, <2>2, FailingIs DEF Same, StaysUninstalled
  <2> QED  BY <2>1, <2>3 DEF NoKeyDone
<1>5. CASE FinishInstall
  <2>1. mode = "installing" /\ world' = world /\ mode # "loop"
    BY <1>5 DEF FinishInstall
  <2>2. nav' = nav \/ (worker.left # None /\ nav' = worker.left)
    BY <1>5 DEF FinishInstall
  <2>3. nav' = nav \/ Current(nav').kind = "installed"
    BY <2>1, <2>2 DEF ScreensInv
  <2> QED  BY <2>1, <2>3 DEF NoKeyDone, StaysUninstalled
<1>6. CASE Interrupt \/ LeaveLoop \/ Exit \/ JoinsWorker
  <2>1. nav' = nav /\ world' = world /\ (mode # "loop" \/ mode' # "loop")
    BY <1>6 DEF Interrupt, Interrupted, LeaveLoop, Exit, JoinsWorker
  <2> QED  BY <2>1 DEF NoKeyDone, StaysUninstalled
<1>7. CASE \E key \in Keys : Key(key)
  <2>1. PICK key \in Keys : Key(key)
    BY <1>7
  <2>2. mode = "loop" /\ OnScreen(nav, world) /\ World(world) /\ worker' = worker
    BY <2>1 DEF Key, Waiting, ScreensInv
  <2>3. OnScreen(Merged, world)
    BY <2>2, MergedOnScreen
  <2>4. \E out \in Step(Merged, world, key) : nav' = out.nav /\ world' = out.world
    BY <2>1 DEF Key
  <2> QED  BY <2>2, <2>3, <2>4 DEF KeyDone
<1> QED  BY <1>1, <1>2, <1>3, <1>4, <1>5, <1>6, <1>7 DEF Next

LEMMA KeyIs ==
  ASSUME NEW key \in Keys, KeyDone(key)
  PROVE  /\ Written(Merged, world, world')
         /\ Truthful(Merged, world, nav', world')
         /\ nav' = Handle(Merged, key) \/ BusyMessageFor(Merged, "choose")
         /\ OnScreen(Merged, world) /\ OnScreen(nav, world) /\ World(world)
         /\ \/ StaysUninstalled(world, world')
            \/ Current(Merged).kind = "menu" /\ Chosen(Merged).to = "restoreConfirm"
<1>1. PICK out \in Step(Merged, world, key) : nav' = out.nav /\ world' = out.world
  BY DEF KeyDone
<1>2. OnScreen(Merged, world) /\ OnScreen(nav, world) /\ World(world)
  BY DEF KeyDone
<1>3. /\ Written(Merged, world, out.world) /\ Truthful(Merged, world, out.nav, out.world)
      /\ out.nav = Handle(Merged, key) \/ BusyMessageFor(Merged, "choose")
      /\ \/ StaysUninstalled(world, out.world)
         \/ Current(Merged).kind = "menu" /\ Chosen(Merged).to = "restoreConfirm"
  BY <1>1, <1>2, StepOnScreen
<1> QED  BY <1>1, <1>2, <1>3

(* The busy line is drawn for the screen as it is before the answer is      *)
(* folded in.                                                              *)
LEMMA BusyAsMerged ==
  ASSUME OnScreen(nav, world), BusyMessageFor(Merged, "choose")
  PROVE  BusyMessageFor(nav, "choose")
<1>1. /\ Merged.cursors = nav.cursors
      /\ Current(Merged).kind = Current(nav).kind
      /\ Current(nav).kind = "menu" => Current(Merged).entries = Current(nav).entries
      /\ Current(nav).kind # "menu" => Current(Merged) = Current(nav)
  BY MergedOnScreen
<1>2. Cursor(Merged) = Cursor(nav)
  BY <1>1 DEF Cursor
<1>3. CASE Current(nav).kind = "menu"
  <2>1. Chosen(Merged) = Chosen(nav)
    BY <1>1, <1>2, <1>3 DEF Chosen
  <2>2. BusyOnMenu(Merged)
    BY <1>1, <1>3 DEF BusyMessageFor
  <2> QED  BY <1>3, <2>1, <2>2 DEF BusyMessageFor, BusyOnMenu
<1>4. CASE Current(nav).kind # "menu"
  <2>1. PICK s : s = Current(nav) /\ s = Current(Merged) /\ s.kind # "menu"
    BY <1>1, <1>4
  <2> QED  BY <1>2, <2>1, Zenon DEF BusyMessageFor
<1> QED  BY <1>3, <1>4

(* An install appears by a plan to install it, or by a restore.             *)
LEMMA InstalledAsAsked ==
  ASSUME AnswerInv, ScreensInv, Next, NEW c \in ToSet(Clis),
         world.installs[c] = None, world'.installs[c] # None
  PROVE  \/ /\ Current(nav).kind = "plan" /\ Current(nav).command = "install"
            /\ Current(nav).cli = c
         \/ Current(nav).kind = "menu" /\ Chosen(nav).to = "restoreConfirm"
<1>1. ~ StaysUninstalled(world, world')
  BY DEF StaysUninstalled
<1>2. CASE NoKeyDone
  BY <1>1, <1>2 DEF NoKeyDone, OnlyPlanned
<1>3. ASSUME NEW key \in Keys, KeyDone(key)
      PROVE  Current(nav).kind = "menu" /\ Chosen(nav).to = "restoreConfirm"
  <2>1. /\ Current(Merged).kind = "menu" /\ Chosen(Merged).to = "restoreConfirm"
        /\ OnScreen(nav, world)
    BY <1>1, <1>3, KeyIs
  <2>2. /\ Merged.cursors = nav.cursors /\ Current(nav).kind = "menu"
        /\ Current(Merged).entries = Current(nav).entries
    BY <2>1, MergedOnScreen
  <2>3. Cursor(Merged) = Cursor(nav)
    BY <2>1, MergedOnScreen DEF Cursor
  <2> QED  BY <2>1, <2>2, <2>3 DEF Chosen
<1> QED  BY <1>2, <1>3, StepsAre

LEMMA RunsAsPlanned ==
  ASSUME AnswerInv, ScreensInv, Next,
         worker.state = "running", worker'.state = "ended", worker'.left # None,
         Current(worker'.left).report = TRUE
  PROVE  AsPlanned(Current(nav), world, world')
<1>1. ~ (worker' = worker) /\ ~ (worker' = NoWorker)
  BY DEF NoWorker
<1>2. CASE WorkerEnds
  <2>1. OnScreen(nav, world) /\ Current(nav).kind = "plan" /\ World(world)
    BY DEF ScreensInv
  <2>2. PICK out \in PlanTask(nav, world) :
          world' = out.world /\ worker' = [state |-> "ended", left |-> out.nav]
    BY <1>2 DEF WorkerEnds
  <2>3. worker'.left = out.nav
    BY <2>2
  <2> QED  BY <2>1, <2>2, <2>3, PlanTaskOnScreen
<1>3. CASE WorkerBreaks
  <2>1. worker'.left = None
    BY <1>3 DEF WorkerBreaks
  <2> QED  BY <2>1
<1>4. CASE StartInstall
  BY <1>4 DEF StartInstall, Waiting, AnswerInv, NoWorker
<1>5. CASE CheckAnswers \/ NoKey \/ FinishInstall \/ Interrupt \/ JoinsWorker \/ LeaveLoop \/ Exit
           \/ \E key \in Keys : Key(key)
  BY <1>1, <1>5 DEF CheckAnswers, NoKey, FinishInstall, Interrupt, JoinsWorker, LeaveLoop, Exit, Key
<1> QED  BY <1>2, <1>3, <1>4, <1>5 DEF Next

(* Assignments change only where the wizard writes what it showed.          *)
AsShown(screen, before, after) ==
  /\ screen.kind = "models"
  /\ \A i \in 1..Len(screen.rows) :
       after[screen.cli][screen.rows[i].agent] = RowShows(screen, screen.rows[i])
  /\ \A c \in ToSet(Clis) \ {screen.cli} : after[c] = before[c]

LEMMA LandsAsShown ==
  ASSUME NEW n, NEW w, World(w), OnScreen(n, w), NEW v, Written(n, w, v),
         v.assigned # w.assigned
  PROVE  AsShown(Current(n), w.assigned, v.assigned)
<1> DEFINE s == Current(n)
           given == AssignedAfter(w.assigned[s.cli], StagedAssignments(s), StagedRemovals(s))
<1>1. /\ s.kind = "models"
      /\ \E o \in ModelsApply(w, s.cli, StagedAssignments(s), StagedRemovals(s)) : v = o.world
  BY DEF Written
<1>2. Untouched(n, w)
  BY <1>1 DEF Untouched, Results
<1>3. IsModels(s, w) /\ s.cli \in ToSet(Clis)
  BY <1>1, <1>2, UntouchedIs, KindsAre DEF IsModels
<1>4. v.assigned = [w.assigned EXCEPT ![s.cli] = given]
  BY <1>1, <1>3, ModelsApplyIs
<1>5. \A i \in 1..Len(s.rows) : given[s.rows[i].agent] = RowShows(s, s.rows[i])
  BY <1>3, LandsAsStaged
<1> HIDE DEF given
<1>6. v.assigned[s.cli] = given /\ \A c \in ToSet(Clis) \ {s.cli} : v.assigned[c] = w.assigned[c]
  BY <1>3, <1>4 DEF World, OfClis
<1> QED  BY <1>1, <1>5, <1>6 DEF AsShown

(* What an install does is what its plan said, and to the one CLI; the      *)
(* screen after granting and revoking tells what each of the two commands   *)
(* did; what is stored for each agent is what its row showed; no engine is  *)
(* waited for without its busy line; and nothing is installed that was not  *)
(* asked for (_mcp_write, plan_task, _grant_mcp_write, _models_write,       *)
(* busy_message_for).                                                      *)
THEOREM WhatIsShownIsDone ==
  ASSUME NoneIsNoRecord
  PROVE  Spec => ShownIsDone
<1>1. AnswerInv /\ ScreensInv /\ [Next]_vars =>
        [worker.state = "running" /\ worker'.state = "ended" /\ worker'.left # None
         /\ Current(worker'.left).report = TRUE
         => LET plan == Current(nav) IN
            IF plan.command = "upgrade"
            THEN world'.binary = plan.report /\ world'.installs = world.installs
            ELSE /\ plan.report # None => world'.installs[plan.cli] = plan.report
                 /\ \A c \in ToSet(Clis) \ {plan.cli} :
                      world'.installs[c] = world.installs[c]]_vars
  BY RunsAsPlanned DEF AsPlanned
<1>2. AnswerInv /\ ScreensInv /\ [Next]_vars =>
        [Current(nav').kind = "granted" /\ Current(nav).kind = "grant"
         => LET said == Current(nav')
                had  == Recorded(world, said.cli, "granted")
                has  == Recorded(world', said.cli, "granted")
            IN /\ has = (had \cup said.granted) \ said.revoked
               /\ said.failed <=> has # Current(nav).chosen]_vars
  <2> SUFFICES ASSUME AnswerInv, ScreensInv, Next,
                      Current(nav').kind = "granted", Current(nav).kind = "grant"
               PROVE  TellsTheTruth(Current(nav'), world, world', Current(nav).chosen)
    BY DEF TellsTheTruth
  <2>1. CASE NoKeyDone
    <3>1. OnScreen(nav, world) => Current(Merged).kind = "grant"
      BY MergedOnScreen
    <3>2. nav' = nav \/ (nav' = Merged /\ OnScreen(nav, world)) \/ Current(nav').kind = "installed"
      BY <2>1 DEF NoKeyDone
    <3> QED  BY <3>1, <3>2
  <2>2. ASSUME NEW key \in Keys, KeyDone(key)
        PROVE  TellsTheTruth(Current(nav'), world, world', Current(nav).chosen)
    <3>1. Truthful(Merged, world, nav', world') /\ OnScreen(nav, world)
      BY <2>2, KeyIs
    <3>2. Current(Merged) = Current(nav)
      BY <3>1, MergedOnScreen
    <3> QED  BY <3>1, <3>2 DEF Truthful
  <2> QED  BY <2>1, <2>2, StepsAre
<1>3. AnswerInv /\ ScreensInv /\ [Next]_vars =>
        [world'.assigned # world.assigned
         => LET screen == Current(nav) IN
            /\ screen.kind = "models"
            /\ \A i \in 1..Len(screen.rows) :
                 world'.assigned[screen.cli][screen.rows[i].agent] =
                   RowShows(screen, screen.rows[i])
            /\ \A c \in ToSet(Clis) \ {screen.cli} :
                 world'.assigned[c] = world.assigned[c]]_vars
  <2> SUFFICES ASSUME AnswerInv, ScreensInv, Next, world'.assigned # world.assigned
               PROVE  AsShown(Current(nav), world.assigned, world'.assigned)
    BY DEF AsShown
  <2>1. PICK key \in Keys : KeyDone(key)
    BY StepsAre DEF NoKeyDone
  <2>2. Written(Merged, world, world') /\ OnScreen(Merged, world) /\ OnScreen(nav, world)
        /\ World(world)
    BY <2>1, KeyIs
  <2>3. PICK v : v = world'
    OBVIOUS
  <2>4. AsShown(Current(Merged), world.assigned, v.assigned)
    BY <2>2, <2>3, LandsAsShown
  <2>5. Current(Merged) = Current(nav)
    <3>1. Current(Merged).kind = "models"
      BY <2>4 DEF AsShown
    <3> QED  BY <2>2, <3>1, MergedOnScreen
  <2> QED  BY <2>3, <2>4, <2>5
<1>4. AnswerInv /\ ScreensInv /\ [Next]_vars =>
        [/\ mode = "loop" /\ mode' = "loop"
         /\ nav' \notin {Merged} \cup {Handle(Merged, key) : key \in Keys}
         => BusyMessageFor(nav, "choose")]_vars
  <2> SUFFICES ASSUME AnswerInv, ScreensInv, Next, mode = "loop", mode' = "loop",
                      nav' \notin {Merged} \cup {Handle(Merged, key) : key \in Keys}
               PROVE  BusyMessageFor(nav, "choose")
    OBVIOUS
  <2>1. PICK key \in Keys : KeyDone(key)
    BY StepsAre DEF NoKeyDone
  <2>2. BusyMessageFor(Merged, "choose") /\ OnScreen(nav, world)
    BY <2>1, KeyIs
  <2> QED  BY <2>2, BusyAsMerged
<1>5. AnswerInv /\ ScreensInv /\ [Next]_vars =>
        [\A c \in ToSet(Clis) : world.installs[c] = None /\ world'.installs[c] # None =>
           \/ /\ Current(nav).kind = "plan" /\ Current(nav).command = "install"
              /\ Current(nav).cli = c
           \/ Current(nav).kind = "menu" /\ Chosen(nav).to = "restoreConfirm"]_vars
  BY InstalledAsAsked
<1> QED
  BY <1>1, <1>2, <1>3, <1>4, <1>5, JoinInit, JoinNext, AnswerInit, AnswerNext,
     ScreensInit, ScreensNext, PTL
  DEF Spec, ShownIsDone, PlanIsWhatRuns, GrantTellsTheTruth, StagedIsWhatLands,
      BusyBeforeEngine, OnlyAskedInstalls
=============================================================================
