------------------------------ MODULE Navigator ------------------------------
(***************************************************************************)
(* The terminal interface as a value (src/darq/tui/navigator.py): a stack  *)
(* of screens, a cursor for each of them, and what a key does to the top   *)
(* one. Nothing here reads the machine; the screens that show what is on   *)
(* it are made and acted upon in Tui.                                      *)
(*                                                                         *)
(* A screen is a record whose kind names its class. What it says is kept   *)
(* where a property asks whether it is true, as a value and not as text.   *)
(* Titles, labels and the order in which things are ticked are left out.   *)
(* Rows count from 0, as in the source.                                    *)
(***************************************************************************)
EXTENDS Integers, SequencesExt

CONSTANTS
  None,         \* no value: nothing recorded, nothing chosen, no answer
  Efforts,      \* the effort levels, in order
  Catalog       \* providers in order, each [id, models], a model [id, reasoning]

(* A provider is listed once, and only with models (core/model_catalog.py).*)
ASSUME NavigatorAssumption ==
  /\ Efforts \in Seq(ToSet(Efforts)) /\ Efforts # << >>
  /\ Catalog \in Seq(ToSet(Catalog))
  /\ \A p \in ToSet(Catalog) :
        /\ p.models \in Seq(ToSet(p.models)) /\ p.models # << >>
        /\ \A q \in ToSet(Catalog) : p.id = q.id => p = q

(* What of s is in S, in the order of s: SelectSeq, as a function of how    *)
(* much of s was looked at.                                                *)
Ordered(s, S) ==
  LET kept[n \in 0..Len(s)] ==
        IF n = 0 THEN << >>
        ELSE IF s[n] \in S THEN Append(kept[n - 1], s[n]) ELSE kept[n - 1]
  IN kept[Len(s)]

Keys == {"up", "down", "choose", "back", "quit", "remove", "toggle"}

-----------------------------------------------------------------------------
(* Screens, and what a row of a menu leads to.                             *)

Placeholder(note) == [kind |-> "placeholder", note |-> note]
Menu(entries, preface) ==
  [kind |-> "menu", entries |-> entries, preface |-> preface]
Open(screen)     == [to |-> "open", screen |-> screen]
Target(to, cli)  == [to |-> to, cli |-> cli]
Generation(to, g) == [to |-> to, generation |-> g]
Quit   == [to |-> "quit"]
Cancel == [to |-> "cancel"]

McpSelection(cli, options, chosen) ==
  [kind |-> "mcp", cli |-> cli, options |-> options, chosen |-> chosen]
GrantMcp(cli, options, granted) ==
  [kind |-> "grant", cli |-> cli, options |-> options, chosen |-> granted,
   granted |-> granted]
GrantMcpResult(cli, granted, revoked, failed) ==
  [kind |-> "granted", cli |-> cli, granted |-> granted, revoked |-> revoked,
   failed |-> failed]
InstallPlan(cli, command, mcp, report) ==
  [kind |-> "plan", cli |-> cli, command |-> command, mcp |-> mcp,
   report |-> report]
InstallResult(cli, command, report) ==
  [kind |-> "installed", cli |-> cli, command |-> command, report |-> report]
UninstallResult(cli, report) ==
  [kind |-> "uninstalled", cli |-> cli, report |-> report]
RestoreResult(report) == [kind |-> "restored", report |-> report]
Status(report) == [kind |-> "status", report |-> report]
Models(cli, providers, rows) ==
  [kind |-> "models", cli |-> cli, providers |-> providers, rows |-> rows,
   agent |-> None, provider |-> None, model |-> None, staged |-> << >>]

(* One submenu per thing that is done to a CLI, or a note when there is no *)
(* CLI to do it to.                                                        *)
CliMenu(clis, to) ==
  IF clis = << >> THEN Placeholder("no cli")
  ELSE Menu([i \in 1..Len(clis) |-> Target(to, clis[i])], << >>)
InstallMenu(detected)    == CliMenu(detected, "install")
UpdateMenu(installed)    == CliMenu(installed, "update")
ModelsMenu(detected)     == CliMenu(detected, "models")
GrantMcpMenu(installed)  == CliMenu(installed, "grant")
UninstallMenu(installed) == CliMenu(installed, "uninstall")

(* Newest first; the preface says which are left out, and whether the      *)
(* first one listed may be called the most recent.                         *)
RestoreMenu(summaries, skipped) ==
  IF summaries = << >> THEN Placeholder("no generation")
  ELSE Menu([i \in 1..Len(summaries) |-> Generation("restore", summaries[i])],
            <<skipped, \A g \in skipped : g <= summaries[1]>>)

-----------------------------------------------------------------------------
(* The notice above the main menu. A version is a number; None is one that *)
(* is missing or is not a version, which is never older than anything.     *)

IsOlder(candidate, than) ==
  candidate # None /\ than # None /\ candidate < than

BehindInstall(cli, recorded, remedy) ==
  [cli |-> cli, recorded |-> recorded, remedy |-> remedy]
UpdateNotice(running, behind, latest) ==
  [running |-> running, behind |-> behind, latest |-> latest]

UpdateNoticeLines(notice) ==
  LET old == {b \in ToSet(notice.behind) : IsOlder(b.recorded, notice.running)}
  IN Ordered(notice.behind, old)
     \o IF IsOlder(notice.running, notice.latest)
        THEN <<[published |-> notice.latest]>> ELSE << >>

MainMenu(detected, installed, notice) ==
  Menu(<<Open(InstallMenu(detected)), Open(UpdateMenu(installed)),
         Target("upgrade", None), Open(ModelsMenu(detected)),
         Open(GrantMcpMenu(installed)), Target("status", None),
         Open(UninstallMenu(installed)), Quit>>,
       UpdateNoticeLines(notice))

-----------------------------------------------------------------------------
(* The navigator and the moves it is made of.                              *)

Starting(detected, installed, notice) ==
  [stack |-> <<MainMenu(detected, installed, notice)>>, cursors |-> <<0>>,
   quit |-> FALSE]

Current(nav) == Last(nav.stack)
Cursor(nav)  == Last(nav.cursors)
Chosen(nav)  == Current(nav).entries[Cursor(nav) + 1]

WithCursor(nav, row) ==
  [nav EXCEPT !.cursors = Append(Front(nav.cursors), row)]
Pop(nav) ==
  [nav EXCEPT !.stack = Front(nav.stack), !.cursors = Front(nav.cursors)]
Swapped(nav, screen) ==
  [nav EXCEPT !.stack = Append(Front(nav.stack), screen)]
Replaced(nav, screen) == WithCursor(Swapped(nav, screen), 0)
Opened(nav, screen) ==
  [nav EXCEPT !.stack = Append(nav.stack, screen),
              !.cursors = Append(nav.cursors, 0)]
(* Broken: a result leads back to the screen it came from.                 *)
ToPrevious(nav) == Pop(nav)
ToMain(nav) ==
  [nav EXCEPT !.stack = SubSeq(nav.stack, 1, 1),
              !.cursors = SubSeq(nav.cursors, 1, 1)]
WithNotice(nav, notice) ==
  [nav EXCEPT !.stack[1].preface = UpdateNoticeLines(notice)]

(* Up and down wrap around; a screen with no rows stays where it is.       *)
Moved(nav, key, count) ==
  IF count = 0 THEN nav
  ELSE WithCursor(nav, (Cursor(nav) + (IF key = "down" THEN 1 ELSE -1)) % count)

-----------------------------------------------------------------------------
(* What a key does on each kind of screen.                                 *)

EngineTargets ==
  {"install", "status", "uninstall", "uninstallConfirm", "restore",
   "restoreConfirm", "models", "update", "upgrade", "grant"}

HandleOnMenu(nav, key) ==
  CASE key \in {"up", "down"} -> Moved(nav, key, Len(Current(nav).entries))
    [] key = "choose" /\ Chosen(nav).to = "quit" -> [nav EXCEPT !.quit = TRUE]
    [] key = "choose" /\ Chosen(nav).to = "cancel" -> Pop(nav)
    [] key = "choose" /\ Chosen(nav).to = "open" ->
         Opened(nav, Chosen(nav).screen)
    [] key = "back" /\ Len(nav.stack) > 1 -> Pop(nav)
    [] OTHER -> nav      \* what needs the engine is not decided here

ModelsProvider(screen) ==
  CHOOSE p \in ToSet(screen.providers) : p.id = screen.provider

ModelsStepCount(screen) ==
  CASE screen.model # None    -> Len(Efforts)
    [] screen.model = None /\ screen.provider # None ->
         Len(ModelsProvider(screen).models)
    [] screen.model = None /\ screen.provider = None /\ screen.agent # None ->
         Len(screen.providers)
    [] OTHER -> Len(screen.rows) + 1

StagedChange(agent, model, effort) ==
  [agent |-> agent, model |-> model, effort |-> effort]

(* The latest word about an agent replaces an earlier one.                 *)
StagedWith(screen, change) ==
  LET others == {old \in ToSet(screen.staged) : old.agent # change.agent}
  IN Append(Ordered(screen.staged, others), change)
StagedAssignments(screen) ==
  Ordered(screen.staged, {c \in ToSet(screen.staged) : c.model # None})
StagedRemovals(screen) ==
  Ordered(screen.staged, {c \in ToSet(screen.staged) : c.model = None})

BackOnModels(nav) ==
  LET screen == Current(nav) IN
  CASE screen.model # None -> Replaced(nav, [screen EXCEPT !.model = None])
    [] screen.model = None /\ screen.provider # None ->
         Replaced(nav, [screen EXCEPT !.provider = None])
    [] screen.model = None /\ screen.provider = None /\ screen.agent # None ->
         Replaced(nav, [screen EXCEPT !.agent = None])
    [] OTHER -> Pop(nav)

StageOnModels(nav, model, effort) ==
  LET screen == Current(nav)
      change == StagedChange(screen.agent, <<screen.provider, model>>, effort)
  IN Replaced(nav, [screen EXCEPT !.agent = None, !.provider = None,
                      !.model = None, !.staged = StagedWith(screen, change)])

ChooseOnModels(nav) ==
  LET screen == Current(nav)
      row    == Cursor(nav) + 1
  IN CASE screen.agent = None ->
            IF row > Len(screen.rows) THEN nav
            ELSE Replaced(nav, [screen EXCEPT !.agent = screen.rows[row].agent])
       [] screen.agent # None /\ screen.provider = None ->
            Replaced(nav, [screen EXCEPT !.provider = screen.providers[row].id])
       [] screen.provider # None /\ screen.model = None ->
            LET models == ModelsProvider(screen).models IN
            IF models = << >> THEN nav
            ELSE IF models[row].reasoning
            THEN Replaced(nav, [screen EXCEPT !.model = models[row].id])
            ELSE StageOnModels(nav, models[row].id, None)
       [] OTHER -> StageOnModels(nav, screen.model, Efforts[row])

HandleOnModels(nav, key) ==
  LET screen == Current(nav) IN
  CASE key \in {"up", "down"} -> Moved(nav, key, ModelsStepCount(screen))
    [] key = "back"   -> BackOnModels(nav)
    [] key = "choose" -> ChooseOnModels(nav)
    [] key = "remove" /\ screen.agent = None /\ Cursor(nav) < Len(screen.rows) ->
         LET agent == screen.rows[Cursor(nav) + 1].agent IN
         Swapped(nav, [screen EXCEPT !.staged =
                         StagedWith(screen, StagedChange(agent, None, None))])
    [] OTHER -> nav

(* The two screens that tick servers: the row after the last is Continue.  *)
Toggled(screen, row) ==
  LET id == screen.options[row + 1] IN
  [screen EXCEPT !.chosen = IF id \in @ THEN @ \ {id} ELSE @ \cup {id}]

HandleOnTicks(nav, key) ==
  LET screen == Current(nav) IN
  CASE key \in {"up", "down"} -> Moved(nav, key, Len(screen.options) + 1)
    [] key = "back" -> Pop(nav)
    [] key \in {"choose", "toggle"} /\ Cursor(nav) # Len(screen.options) ->
         Swapped(nav, Toggled(screen, Cursor(nav)))
    [] OTHER -> nav

Results == {"installed", "uninstalled", "restored", "granted"}

Handle(nav, key) ==
  LET kind  == Current(nav).kind
      leave == key \in {"back", "choose"}
  IN IF nav.quit THEN nav
     ELSE IF key = "quit" THEN [nav EXCEPT !.quit = TRUE]
     ELSE CASE kind = "menu"             -> HandleOnMenu(nav, key)
            [] kind = "models"           -> HandleOnModels(nav, key)
            [] kind \in {"mcp", "grant"} -> HandleOnTicks(nav, key)
            [] kind \in Results          -> IF leave THEN ToMain(nav) ELSE nav
            [] OTHER                     -> IF leave THEN Pop(nav) ELSE nav

(* Whether a busy line is drawn before the key is acted upon.              *)
BusyOnMenu(nav) ==
  Chosen(nav).to \in {"install", "status", "uninstall", "uninstallConfirm",
                      "restore", "restoreConfirm", "models", "update",
                      "upgrade", "grant"}
BusyMessageFor(nav, key) ==
  LET screen == Current(nav) IN
  /\ key = "choose"
  /\ CASE screen.kind = "menu"             -> BusyOnMenu(nav)
       [] screen.kind \in {"mcp", "grant"} -> Cursor(nav) = Len(screen.options)
       [] screen.kind \in {"plan", "status"} -> TRUE
       [] screen.kind = "models" -> screen.agent = None
                                    /\ Cursor(nav) = Len(screen.rows)
       [] OTHER -> FALSE

(* A cursor is always on a row of its screen.                              *)
RowsOf(screen) ==
  CASE screen.kind = "menu" -> Len(screen.entries)
    [] screen.kind \in {"mcp", "grant"} -> Len(screen.options) + 1
    [] screen.kind = "models" -> ModelsStepCount(screen)
    [] OTHER -> 1
=============================================================================
