------------------------------- MODULE Snapshots -------------------------------
(***************************************************************************)
(* What darq promises about undoing a command, without folders, blobs or   *)
(* manifests: an immutable log of what paths held, written before a        *)
(* command changes anything, and a command that changes only what its own  *)
(* entry holds (ports/snapshot_store.py, cli.restore).                     *)
(***************************************************************************)
EXTENDS Naturals

CONSTANTS Paths, Content, Absent, Touches, Numbers

VARIABLES
  file,   \* what every path holds
  log,    \* generation -> what each path it covers held
  open    \* the generation of the command at work; 0 when there is none

vars == <<file, log, open>>

Init == file \in [Paths -> Content \cup {Absent}] /\ log = << >> /\ open = 0

(* A command begins: the log gains, whole, what its paths hold now, under  *)
(* a number above every other.                                             *)
Take ==
  \E t \in Touches, g \in Numbers :
    /\ open = 0 /\ g > 0
    /\ \A h \in DOMAIN log : h < g
    /\ log' = [h \in DOMAIN log \cup {g} |->
                 IF h = g THEN [p \in t |-> file[p]] ELSE log[h]]
    /\ open' = g
    /\ UNCHANGED file

(* It changes only what its own entry could put back.                      *)
Change ==
  /\ open # 0
  /\ \E p \in DOMAIN log[open], c \in Content \cup {Absent} :
       file' = [file EXCEPT ![p] = c]
  /\ open' \in {open, 0}
  /\ UNCHANGED log

Close == open # 0 /\ open' = 0 /\ UNCHANGED <<file, log>>

(* An entry goes, never the newest: that one undoes the last command.      *)
Drop ==
  /\ open = 0
  /\ \E g \in DOMAIN log :
       /\ \E h \in DOMAIN log : g < h
       /\ log' = [h \in DOMAIN log \ {g} |-> log[h]]
  /\ UNCHANGED <<file, open>>

Next == Take \/ Change \/ Close \/ Drop

Spec == Init /\ [][Next]_vars
=============================================================================
