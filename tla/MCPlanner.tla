------------------------------ MODULE MCPlanner ------------------------------
(* Small homes and releases for TLC.                                        *)
EXTENDS Planner

CONSTANTS f1, f2, d1, k1, l1, v1, v2, v3, a, b, k, l, a2, k2, l2

File(id, path, val)   == [id |-> id, kind |-> "file", path |-> path, pointer |-> Whole, val |-> val]
Key(id, pointer, val) == [id |-> id, kind |-> "config-key", path |-> d1, pointer |-> pointer, val |-> val]

(* A first release, one that changes a file and the item, adds a file and  *)
(* drops the key, one that renames every id and keeps every address, and   *)
(* one that changes the value of the key and of the item under their ids.  *)
First    == {File(a, f1, v1), Key(k, k1, v1), Key(l, l1, v1)}
Second   == {File(a, f1, v2), File(b, f2, v1), Key(l, l1, v1)}
Renamed  == {File(a2, f1, v2), Key(k2, k1, v1), Key(l2, l1, v1)}
Changed  == {File(a, f1, v1), Key(k, k1, v2), Key(l, l1, v2)}
ThreeReleases == {First, Second, Renamed}
FourReleases  == ThreeReleases \cup {Changed}
=============================================================================
