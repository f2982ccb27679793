----------------------------- MODULE MCSharedTrees -----------------------------
(* Two servers; every release pins a new version of the first of them.      *)
EXTENDS SharedTrees

Pinning(version) == [s \in Servers |-> IF s = "engram" THEN version ELSE "v1"]
TwoReleases   == <<Pinning("v1"), Pinning("v2")>>
ThreeReleases == Append(TwoReleases, Pinning("v3"))

Both == [c \in Clis |-> {{"engram"}}]
Only(selections) == [c \in Clis |-> IF c = "opencode" THEN selections ELSE {}]
Case(selections, uninstalls, restores, failures, maxFaults) ==
  [selections |-> selections, uninstalls |-> uninstalls, restores |-> restores,
   failures |-> failures, maxFaults |-> maxFaults]

(* One CLI that always runs both servers and may be uninstalled, with one   *)
(* failure of any kind but a rollback; or two CLIs that share a server, and *)
(* two failures that leave its folder alone.                                *)
Careful ==
  {Case(Only({Servers}), {"opencode"}, {"install"},
        {"download", "place", "lockfile", "apply", "prune", "crash"}, 1),
   Case(Both, {}, {"install"}, {"download", "crash"}, 2)}

(* One CLI that selects any server, and whatever fails, removals included.  *)
Failing == {Case(Only(SUBSET Servers \ {{}}), {"opencode"}, {"install", "uninstall", "restore"},
                 {"lockfile", "apply", "retire", "save", "prune", "crash", "rmtree"}, 2)}

Sharing  == {Case(Both, Clis, {}, {}, 0)}
Rollback == {Case(Only({{"engram"}}), {}, {}, {"save"}, 1)}
=============================================================================
