--------------------------------- MODULE Tui ---------------------------------
(***************************************************************************)
(* The terminal interface at work: src/darq/tui/session.py, which makes    *)
(* screens from what is on the machine and turns keys into engine calls,   *)
(* and the loop and the threads of src/darq/tui/app.py. Navigator has what *)
(* a key does when no engine is needed.                                    *)
(*                                                                         *)
(* The engine is the other modules' subject: here a command either does    *)
(* what it was asked or fails and leaves the records as they were, with or *)
(* without the generation it took first. An install runs on a worker       *)
(* thread, the question of a newer release on another; everything else is  *)
(* one step of the main thread. Ctrl-C may come whenever that thread waits.*)
(***************************************************************************)
EXTENDS Navigator

CONSTANTS
  Clis,          \* the CLIs found on the machine, in order
  Configurable,  \* those in which an agent can have a model of its own
  Servers,       \* the servers one can choose, in order
  McpKeys,       \* keys of the user's own servers, in order
  Declared,      \* those the user's configuration declares now
  Agents,        \* the agents a model can be chosen for, in order
  Running,       \* the version of the running program
  Published,     \* the newest published version, or None
  Damaged,       \* generations whose manifest cannot be read
  Installs,      \* what may be recorded at the start: [Clis -> record or None]
  MaxCommands,   \* bound: engine commands that write
  MaxFaults,     \* bound: those of them that fail
  MaxInterrupts  \* bound: times Ctrl-C is pressed

VARIABLES
  nav,         \* the navigator of the main loop
  world,       \* what the commands read and write
  mode,        \* where the main thread is
  polls,       \* getch returns by itself (window.timeout), or only on a key
  check,       \* the thread that asks for a newer release: its answer's state
  latest,      \* that answer
  checking,    \* the main loop still waits to fold it in
  notice,      \* what was known about versions before the first frame
  worker,      \* the thread that runs an install, and what it leaves
  interrupts

vars == <<nav, world, mode, polls, check, latest, checking, notice, worker,
          interrupts>>

InstalledIn(w) == Ordered(Clis, {c \in ToSet(Clis) : w.installs[c] # None})

ASSUME TuiAssumption ==
  /\ Clis \in Seq(ToSet(Clis)) /\ Servers \in Seq(ToSet(Servers))
  /\ McpKeys \in Seq(ToSet(McpKeys)) /\ Agents \in Seq(ToSet(Agents))
  /\ Configurable \subseteq ToSet(Clis)
  /\ \A installs \in Installs : installs = [c \in ToSet(Clis) |-> installs[c]]
  /\ Running \in Nat
  /\ MaxCommands \in Nat /\ MaxFaults \in Nat /\ MaxInterrupts \in Nat

-----------------------------------------------------------------------------
(* The engine, as a set of outcomes.                                       *)

Outcome(ok, w) == [ok |-> ok, world |-> w]
Refused(w)  == {Outcome(FALSE, w)}
Tried(w)    == [w EXCEPT !.tries = @ + 1]
Captured(w) == [Tried(w) EXCEPT !.gens = Append(@, w.installs)]
Failing(w)  ==
  IF w.faults < MaxFaults
  THEN {Outcome(FALSE, [v EXCEPT !.faults = @ + 1]) : v \in {Tried(w), Captured(w)}}
  ELSE {}
Attempt(w, done) == {Outcome(TRUE, done)} \cup Failing(w)

Unresolved(w, cli) == w.installs[cli] # None /\ w.installs[cli].bound
Recorded(w, cli, field) ==
  IF w.installs[cli] = None THEN {} ELSE w.installs[cli][field]

(* What an install of mcp, with those grants, leaves on record.            *)
Planned(mcp, granted) ==
  [version |-> Running, mcp |-> mcp, granted |-> granted, bound |-> FALSE]

Install(w, cli, mcp, granted) ==
  Attempt(w, [Captured(w) EXCEPT !.installs[cli] = Planned(mcp, granted)])
InstallChosen(w, cli, mcp) == Install(w, cli, mcp, Recorded(w, cli, "granted"))

CanUpdate(w, cli) == w.installs[cli] # None /\ ~ w.installs[cli].bound
Again(w, cli, granted) ==
  IF CanUpdate(w, cli) THEN Install(w, cli, w.installs[cli].mcp, granted)
  ELSE Refused(w)
Update(w, cli) == Again(w, cli, Recorded(w, cli, "granted"))
McpGrant(w, cli, keys) ==
  IF keys \subseteq Declared
  THEN Again(w, cli, Recorded(w, cli, "granted") \cup keys) ELSE Refused(w)
McpRevoke(w, cli, keys) == Again(w, cli, Recorded(w, cli, "granted") \ keys)

(* A CLI's assignments after some were set and others removed.             *)
AssignedAfter(assigned, assignments, removals) ==
  LET gone == {r.agent : r \in ToSet(removals)}
      set  == {a.agent : a \in ToSet(assignments)}
      given(agent) ==
        LET a == CHOOSE a \in ToSet(assignments) : a.agent = agent
        IN <<a.model, a.effort>>
  IN [agent \in DOMAIN assigned |->
        IF agent \in gone THEN None
        ELSE IF agent \in set THEN given(agent) ELSE assigned[agent]]
(* The store of assignments is written last, and can be what fails.        *)
ModelsApply(w, cli, assignments, removals) ==
  LET stored(v) == [v EXCEPT !.assigned[cli] =
                               AssignedAfter(@, assignments, removals)]
      unstored(v) == IF v.faults < MaxFaults
                     THEN {Outcome(FALSE, [v EXCEPT !.faults = @ + 1])} ELSE {}
      twice(changes) == \E i, j \in 1..Len(changes) :
                          i < j /\ changes[i].agent = changes[j].agent
  IN IF twice(assignments) \/ twice(removals) THEN Refused(w)
     ELSE UNION {IF o.ok
                 THEN {Outcome(TRUE, stored(o.world))} \cup unstored(o.world)
                 ELSE {o} : o \in Update(w, cli)}

Uninstall(w, cli) ==
  IF w.installs[cli] = None THEN Refused(w)
  ELSE Attempt(w, [Captured(w) EXCEPT !.installs[cli] = None])
Restore(w, g) == Attempt(w, [Captured(w) EXCEPT !.installs = w.gens[g]])

Upgrade(w) ==
  Attempt(w, [Tried(w) EXCEPT !.binary = Published])

-----------------------------------------------------------------------------
(* Screens made from what is on the machine.                               *)

McpSelectionScreen(w, cli) ==
  IF Unresolved(w, cli) THEN Placeholder("bound servers without a key")
  ELSE McpSelection(cli, Servers, Recorded(w, cli, "mcp"))

GrantMcpScreen(w, cli) ==
  LET granted == Recorded(w, cli, "granted")
      domain  == Ordered(McpKeys, granted \cup Declared)
  IN IF Unresolved(w, cli) THEN Placeholder("bound servers without a key")
     ELSE IF domain = << >> THEN Placeholder("nothing to grant")
     ELSE GrantMcp(cli, domain, granted)

CurrentAssignment(w, cli, agent) == w.assigned[cli][agent]
ModelsScreen(w, cli) ==
  IF cli \notin Configurable THEN Placeholder("no model of its own per agent")
  ELSE IF w.installs[cli] = None THEN Placeholder("not installed")
  ELSE IF Catalog = << >> THEN Placeholder("no catalog")
  ELSE Models(cli, Catalog,
              [i \in 1..Len(Agents) |->
                 [agent   |-> Agents[i],
                  current |-> CurrentAssignment(w, cli, Agents[i])]])

UninstallPreview(w, cli) ==
  Menu(<<Cancel, Target("uninstallConfirm", cli)>>, <<w.installs[cli]>>)
RestorePreview(w, g) ==
  Menu(<<Cancel, Generation("restoreConfirm", g)>>, <<w.gens[g]>>)
GenerationsMenu(w) ==
  LET newestFirst == [i \in 1..Len(w.gens) |-> Len(w.gens) + 1 - i]
  IN RestoreMenu(Ordered(newestFirst, (1..Len(w.gens)) \ Damaged),
                 Damaged \cap (1..Len(w.gens)))

(* The dry run may fail where an update is possible too.                   *)
UpdatePreviews(w, cli) ==
  {InstallResult(cli, "update", FALSE)}
    \cup (IF CanUpdate(w, cli)
          THEN {InstallPlan(cli, "update", {},
                            Planned(w.installs[cli].mcp, w.installs[cli].granted))}
          ELSE {})
(* The newest release is asked for each time, and may not be learned.      *)
UpgradePreviews(w) ==
  {InstallResult(None, "upgrade", FALSE),
   IF IsOlder(Running, Published)
   THEN InstallPlan(None, "upgrade", {}, Published)
   ELSE InstallResult(None, "upgrade", None)}
(* A plan that could not be made is shown all the same, and can be chosen. *)
InstallPreviews(w, cli, mcp) ==
  {InstallPlan(cli, "install", mcp, report) :
     report \in {None, Planned(mcp, Recorded(w, cli, "granted"))}}

-----------------------------------------------------------------------------
(* session.step: the screens and the world a key may lead to.              *)

To(n, w) == [nav |-> n, world |-> w]
Shows(n, w, screen) == {To(Opened(n, screen), w)}
Continues(n, key) ==
  /\ key = "choose"
  /\ Cursor(n) = RowsOf(Current(n)) - 1
  /\ Current(n).kind = "models" => Current(n).agent = None

ChooseOnEngine(n, w) ==
  LET t == Chosen(n) IN
  CASE t.to = "install" -> Shows(n, w, McpSelectionScreen(w, t.cli))
    [] t.to = "update"  -> UNION {Shows(n, w, s) : s \in UpdatePreviews(w, t.cli)}
    [] t.to = "upgrade" -> UNION {Shows(n, w, s) : s \in UpgradePreviews(w)}
    [] t.to = "models"  -> Shows(n, w, ModelsScreen(w, t.cli))
    [] t.to = "grant"   -> Shows(n, w, GrantMcpScreen(w, t.cli))
    [] t.to = "status"  -> Shows(n, w, Status(w.installs))
    [] t.to = "uninstall" -> Shows(n, w, UninstallPreview(w, t.cli))
    [] t.to = "restore"   -> Shows(n, w, RestorePreview(w, t.generation))
    [] t.to = "uninstallConfirm" ->
         UNION {Shows(n, o.world, UninstallResult(t.cli, o.ok)) :
                  o \in Uninstall(w, t.cli)}
    [] t.to = "restoreConfirm" ->
         UNION {Shows(n, o.world, RestoreResult(o.ok)) :
                  o \in Restore(w, t.generation)}

McpWrite(n, w) ==
  LET s == Current(n)
  IN UNION {Shows(n, w, plan) : plan \in InstallPreviews(w, s.cli, s.chosen)}

(* Broken: what was asked for is what is reported.                         *)
ReportedUnseen(o, keys) == keys

Reported(o, keys) == IF o.ok THEN keys ELSE {}

(* First what is granted, then what is revoked; each may fail by itself.   *)
GrantMcpWrite(n, w) ==
  LET s == Current(n)
      grant  == s.chosen \ s.granted
      revoke == s.granted \ s.chosen
      first  == IF grant = {} THEN {Outcome(TRUE, w)}
                ELSE McpGrant(w, s.cli, grant)
      next(o) == IF revoke = {} THEN {Outcome(TRUE, o.world)}
                 ELSE McpRevoke(o.world, s.cli, revoke)
      result(o, p) == GrantMcpResult(s.cli, Reported(o, grant),
                                     Reported(p, revoke), ~ (o.ok /\ p.ok))
  IN UNION {UNION {Shows(n, p.world, result(o, p)) : p \in next(o)} : o \in first}

ModelsWrite(n, w) ==
  LET s == Current(n)
      reread(v) == To(Replaced(n, ModelsScreen(v, s.cli)), v)
  IN IF s.staged = << >> THEN {reread(w)}
     ELSE {reread(o.world) : o \in ModelsApply(w, s.cli, StagedAssignments(s),
                                              StagedRemovals(s))}

Step(n, w, key) ==
  LET s == Current(n) IN
  CASE s.kind = "menu" /\ key = "choose" /\ Chosen(n).to \in EngineTargets ->
         ChooseOnEngine(n, w)
    [] s.kind = "models" /\ Continues(n, key) -> ModelsWrite(n, w)
    [] s.kind = "mcp"    /\ Continues(n, key) -> McpWrite(n, w)
    [] s.kind = "grant"  /\ Continues(n, key) -> GrantMcpWrite(n, w)
    [] s.kind = "status" /\ key = "choose" -> Shows(n, w, GenerationsMenu(w))
    [] OTHER -> {To(Handle(n, key), w)}

(* What the worker does with the plan on screen, and the screen it leaves. *)
PlanTask(n, w) ==
  LET s == Current(n)
      outcomes == CASE s.command = "install" -> InstallChosen(w, s.cli, s.mcp)
                    [] s.command = "update"  -> Update(w, s.cli)
                    [] s.command = "upgrade" -> Upgrade(w)
  IN {To(Opened(n, InstallResult(s.cli, s.command, o.ok)), o.world) :
        o \in outcomes}

-----------------------------------------------------------------------------
(* The loop, the two threads and Ctrl-C (app.py).                          *)

(* What each CLI was installed with, when the program started.             *)
LocalUpdateNotice(w) ==
  LET behind(c) == BehindInstall(c, w.installs[c].version, Unresolved(w, c))
      here      == InstalledIn(w)
  IN UpdateNotice(Running, [i \in 1..Len(here) |-> behind(here[i])], None)

NoWorker == [state |-> "none", left |-> None]

Init ==
  /\ \E installs \in Installs :
       world = [installs |-> installs, gens |-> << >>, binary |-> Running,
                assigned |-> [c \in ToSet(Clis) |->
                                [a \in ToSet(Agents) |-> None]],
                tries |-> 0, faults |-> 0]
  /\ notice = LocalUpdateNotice(world)
  /\ nav = Starting(Clis, InstalledIn(world), notice)
  /\ mode = "loop" /\ polls = TRUE
  /\ check = "running" /\ latest = None /\ checking = TRUE
  /\ worker = NoWorker
  /\ interrupts = 0

(* Broken: the answer is the version that is running.                      *)
AnswersWithItself == {None, Running}

(* The thread that asks for a newer release answers once; failing, it      *)
(* answers that there is none.                                             *)
Answers == {None, Published}
CheckAnswers ==
  /\ check = "running"
  /\ mode # "exited"
  /\ check' = "done"
  /\ latest' \in Answers
  /\ UNCHANGED <<nav, world, mode, polls, checking, notice, worker, interrupts>>

(* Every turn of the loop waits for a key, and then folds in the answer.   *)
Waiting == mode = "loop" /\ ~ nav.quit
Folds   == checking /\ check = "done"

(* Broken: the answer is dropped when the main menu is not on screen.      *)
MergedIfSeen ==
  IF Folds /\ Len(nav.stack) = 1
  THEN WithNotice(nav, [notice EXCEPT !.latest = latest]) ELSE nav

Merged  ==
  IF Folds THEN WithNotice(nav, [notice EXCEPT !.latest = latest]) ELSE nav
FoldAnswer ==
  /\ checking' = (checking /\ ~ Folds)
  /\ polls' = (checking /\ ~ Folds)

(* Broken: it is set once, and an install leaves none.                     *)
TimesOutOnce == polls

(* The time limit is set again at the top of every turn while checking.    *)
TimesOut == polls \/ checking
NoKey ==
  /\ Waiting
  /\ TimesOut
  /\ nav' = Merged
  /\ FoldAnswer
  /\ UNCHANGED <<world, mode, check, latest, notice, worker, interrupts>>

OnPlan(n) == Current(n).kind = "plan"

Key(key) ==
  /\ Waiting
  /\ ~ (key = "choose" /\ OnPlan(nav))
  /\ \E out \in Step(Merged, world, key) :
       /\ out.world.tries <= MaxCommands
       /\ nav' = out.nav
       /\ world' = out.world
  /\ FoldAnswer
  /\ UNCHANGED <<mode, check, latest, notice, worker, interrupts>>

StartInstall ==
  /\ Waiting
  /\ OnPlan(nav)
  /\ world.tries < MaxCommands
  /\ nav' = Merged
  /\ checking' = (checking /\ ~ Folds)
  /\ polls' = TRUE
  /\ mode' = "installing"
  /\ worker' = [state |-> "running", left |-> None]
  /\ UNCHANGED <<world, check, latest, notice, interrupts>>

(* The worker ends with a screen, or with an exception nobody expected.    *)
WorkerEnds ==
  /\ worker.state = "running"
  /\ mode # "exited"
  /\ \E out \in PlanTask(nav, world) :
       /\ world' = out.world
       /\ worker' = [state |-> "ended", left |-> out.nav]
  /\ UNCHANGED <<nav, mode, polls, check, latest, checking, notice, interrupts>>

WorkerBreaks ==
  /\ worker.state = "running"
  /\ mode # "exited"
  /\ \E out \in Failing(world) :
       /\ world' = out.world
       /\ worker' = [state |-> "ended", left |-> None]
  /\ UNCHANGED <<nav, mode, polls, check, latest, checking, notice, interrupts>>

Over == worker.state = "ended"

(* The main thread leaves the animation, joins, and takes what was left.   *)
FinishInstall ==
  /\ mode = "installing"
  /\ Over
  /\ polls' = FALSE
  /\ worker' = NoWorker
  /\ IF worker.left = None THEN mode' = "leaving" /\ nav' = nav
     ELSE mode' = "loop" /\ nav' = worker.left
  /\ UNCHANGED <<world, check, latest, checking, notice, interrupts>>

(* Broken: the installation is left at once.                               *)
InterruptedAtOnce ==
  CASE mode \in {"installing", "loop", "joining"} -> "leaving"
    [] mode = "leaving" -> "exited"

(* Ctrl-C leaves whatever the main thread is waiting in: a getch, or one   *)
(* of the two joins.                                                       *)
Interrupted ==
  CASE mode = "installing"          -> "joining"
    [] mode \in {"loop", "joining"} -> "leaving"
    [] mode = "leaving"             -> "exited"
Interrupt ==
  /\ interrupts < MaxInterrupts
  /\ mode # "exited"
  /\ interrupts' = interrupts + 1
  /\ mode' = Interrupted
  /\ UNCHANGED <<nav, world, polls, check, latest, checking, notice, worker>>

JoinsWorker ==
  /\ mode = "joining"
  /\ Over
  /\ polls' = FALSE
  /\ worker' = NoWorker
  /\ mode' = "leaving"
  /\ UNCHANGED <<nav, world, check, latest, checking, notice, interrupts>>

LeaveLoop ==
  /\ mode = "loop" /\ nav.quit
  /\ mode' = "leaving"
  /\ UNCHANGED <<nav, world, polls, check, latest, checking, notice, worker,
                 interrupts>>

(* run joins the other thread before the terminal is given back.           *)
CheckJoined  == check = "done"
Exit ==
  /\ mode = "leaving"
  /\ CheckJoined
  /\ mode' = "exited"
  /\ UNCHANGED <<nav, world, polls, check, latest, checking, notice, worker,
                 interrupts>>

Next ==
  \/ CheckAnswers \/ NoKey \/ StartInstall \/ WorkerEnds \/ WorkerBreaks
  \/ FinishInstall \/ Interrupt \/ JoinsWorker \/ LeaveLoop \/ Exit
  \/ \E key \in Keys : Key(key)

(* Threads run, a download ends (its requests have a time limit), getch    *)
(* times out. Nothing is asked of the user.                                *)
Fairness ==
  /\ WF_vars(CheckAnswers)
  /\ WF_vars(NoKey)
  /\ WF_vars(WorkerEnds \/ WorkerBreaks)
  /\ WF_vars(FinishInstall)
  /\ WF_vars(JoinsWorker)
  /\ WF_vars(LeaveLoop)
  /\ WF_vars(Exit)

Spec == Init /\ [][Next]_vars /\ Fairness

-----------------------------------------------------------------------------
(* Properties.                                                             *)

TypeOK ==
  /\ mode \in {"loop", "installing", "joining", "leaving", "exited"}
  /\ check \in {"running", "done"}
  /\ latest \in {None, Published}
  /\ checking \in BOOLEAN /\ polls \in BOOLEAN
  /\ worker.state \in {"none", "running", "ended"}
  /\ interrupts \in 0..MaxInterrupts
  /\ world.tries \in 0..MaxCommands /\ world.faults \in 0..MaxFaults
  /\ DOMAIN world.installs = ToSet(Clis)

(* ScreensHold, first part: every screen of the stack has its cursor, on    *)
(* one of its rows: a screen that was replaced by one with fewer rows does  *)
(* not keep the old cursor (Navigator.replaced, _swapped, _with_cursor).    *)
CursorsOnRows ==
  /\ Len(nav.cursors) = Len(nav.stack)
  /\ nav.stack # << >>
  /\ \A i \in 1..Len(nav.stack) : nav.cursors[i] \in 0..(RowsOf(nav.stack[i]) - 1)

(* Second part: a screen that session.py makes from the machine when it is  *)
(* opened (a plan, the grants, the models, a status, the generations, what  *)
(* an uninstall or a restore would undo) is true as long as it can be on    *)
(* top: after a command none made before it is come back to (the result     *)
(* screens of Navigator.handle, the screen _models_write reads again). The  *)
(* menus made once, before the loop, are not among them: they go on naming  *)
(* the CLIs that were installed then.                                       *)
TopFresh ==
  LET s == Current(nav) IN
  mode = "loop" =>
    CASE s.kind = "plan" /\ s.command = "install" ->
           s \in InstallPreviews(world, s.cli, s.mcp)
      [] s.kind = "plan" /\ s.command = "update" ->
           s \in UpdatePreviews(world, s.cli)
      [] s.kind = "grant"  -> s.granted = Recorded(world, s.cli, "granted")
      [] s.kind = "models" -> s.rows = ModelsScreen(world, s.cli).rows
      [] s.kind = "status" -> s.report = world.installs
      [] s.kind = "menu" /\ s.entries[1].to = "restore" -> s = GenerationsMenu(world)
      [] s.kind = "menu" /\ s.entries[1] = Cancel ->
           s \in {UninstallPreview(world, c) : c \in ToSet(Clis)}
                \cup {RestorePreview(world, g) : g \in 1..Len(world.gens)}
      [] OTHER -> TRUE

(* The screens hold together with each other, and those made from the       *)
(* machine hold with it.                                                   *)
ScreensHold == CursorsOnRows /\ TopFresh

(* Once the answer about a newer release was folded in, the main menu      *)
(* keeps showing it, through installs and whatever else is on top          *)
(* (_merged_notice, Navigator.with_notice, the navigator an install takes).*)
AnswerKept ==
  ~ checking =>
    nav.stack[1].preface = UpdateNoticeLines([notice EXCEPT !.latest = latest])

(* The program does not end while an install is still at work, one Ctrl-C  *)
(* included; without one, it waits for the other thread too                *)
(* (the two finally clauses, app.py 316-329 and 515-520).                  *)
WorkerJoined ==
  mode = "exited" => /\ interrupts <= 1 => worker.state # "running"
                     /\ interrupts = 0 => check = "done"

(* ShownIsDone, first part: an install that succeeds leaves what the plan  *)
(* on screen said, and nothing else (_mcp_write, _update_preview,          *)
(* plan_task).                                                             *)
PlanIsWhatRuns ==
  [][worker.state = "running" /\ worker'.state = "ended" /\ worker'.left # None
     /\ Current(worker'.left).report = TRUE
     => LET plan == Current(nav) IN
        IF plan.command = "upgrade"
        THEN world'.binary = plan.report /\ world'.installs = world.installs
        ELSE /\ plan.report # None => world'.installs[plan.cli] = plan.report
             /\ \A c \in ToSet(Clis) \ {plan.cli} :
                  world'.installs[c] = world.installs[c]]_vars

(* Second part: the screen after granting and revoking says what was        *)
(* changed, when one of the two failed as well, and says so when something  *)
(* was not (_grant_mcp_write: two engine calls, one report each).           *)
GrantTellsTheTruth ==
  [][Current(nav').kind = "granted" /\ Current(nav).kind = "grant"
     => LET said == Current(nav')
            had  == Recorded(world, said.cli, "granted")
            has  == Recorded(world', said.cli, "granted")
        IN /\ has = (had \cup said.granted) \ said.revoked
           /\ said.failed <=> has # Current(nav).chosen]_vars

(* Third part: what is stored after Continue is what each row showed: what  *)
(* was staged for it last, or what it had (_staged_with, models_apply).     *)
RowShows(screen, row) ==
  LET staged == {c \in ToSet(screen.staged) : c.agent = row.agent}
      last   == CHOOSE i \in 1..Len(screen.staged) :
                  /\ screen.staged[i].agent = row.agent
                  /\ \A j \in (i+1)..Len(screen.staged) :
                       screen.staged[j].agent # row.agent
  IN IF staged = {} THEN row.current
     ELSE IF screen.staged[last].model = None THEN None
     ELSE <<screen.staged[last].model, screen.staged[last].effort>>
StagedIsWhatLands ==
  [][world'.assigned # world.assigned
     => LET screen == Current(nav) IN
        /\ screen.kind = "models"
        /\ \A i \in 1..Len(screen.rows) :
             world'.assigned[screen.cli][screen.rows[i].agent] =
               RowShows(screen, screen.rows[i])
        /\ \A c \in ToSet(Clis) \ {screen.cli} :
             world'.assigned[c] = world.assigned[c]]_vars

(* Fourth part: a key that needs the engine had its busy line drawn first:  *)
(* what busy_message_for foresees and what session.step does are two lists  *)
(* in two modules.                                                         *)
BusyBeforeEngine ==
  [][/\ mode = "loop" /\ mode' = "loop"
     /\ nav' \notin {Merged} \cup {Handle(Merged, key) : key \in Keys}
     => BusyMessageFor(nav, "choose")]_vars

(* Fifth part: nothing is installed where nothing was, but by the plan of   *)
(* an install or by a restore. The menus of the start go on offering to     *)
(* update, grant or choose models for a CLI that was uninstalled since; none *)
(* of these may bring an installation back.                                *)
OnlyAskedInstalls ==
  [][\A c \in ToSet(Clis) : world.installs[c] = None /\ world'.installs[c] # None =>
       \/ /\ Current(nav).kind = "plan" /\ Current(nav).command = "install"
          /\ Current(nav).cli = c
       \/ Current(nav).kind = "menu" /\ Chosen(nav).to = "restoreConfirm"]_vars

(* What the user was shown is what is done, and what was done is what the   *)
(* user is shown.                                                          *)
ShownIsDone ==
  /\ PlanIsWhatRuns /\ GrantTellsTheTruth /\ StagedIsWhatLands
  /\ BusyBeforeEngine /\ OnlyAskedInstalls

(* EverythingEnds, first part: the answer is shown without a key being      *)
(* pressed, after an install left the terminal waiting for one as well      *)
(* (_main_loop, 413-424).                                                   *)
AnswerShown == (check = "done") ~> (~ checking \/ mode = "exited")

(* Second part: an install is over at some time, whether it fails, breaks   *)
(* or is interrupted.                                                       *)
InstallEnds == (mode \in {"installing", "joining"}) ~> (worker = NoWorker)

(* Third part: Quit and Ctrl-C end the program.                            *)
QuitExits == (nav.quit \/ interrupts > 0) ~> (mode = "exited")

(* Whatever was begun is brought to an end, with no help from the user.    *)
EverythingEnds == AnswerShown /\ InstallEnds /\ QuitExits
=============================================================================
