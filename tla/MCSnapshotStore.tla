---------------------------- MODULE MCSnapshotStore ----------------------------
(* Two addresses, one of them the journal every command touches.            *)
EXTENDS SnapshotStore

CONSTANTS journal, doc, old, new, install, update

SmallAndLarge == {<<journal>>, <<doc, journal>>}
=============================================================================
