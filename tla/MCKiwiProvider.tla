---------------------------- MODULE MCKiwiProvider ----------------------------
(***************************************************************************)
(* Instances of KiwiProvider for TLC: two runs of two recipes, whose keys  *)
(* differ in punctuation only and share a path.                            *)
(***************************************************************************)
EXTENDS KiwiProvider, TLC

CONSTANTS r1, r2, k1, k2, p1, p2

MCRuns == {r1, r2}
MCKeys == {k1, k2}
MCPaths == {p1, p2}

MCKeyOf == (r1 :> k1) @@ (r2 :> k2)
SharedPath == (k1 :> p1) @@ (k2 :> p1)

(* With SharedPath the two runs may be swapped together with their keys.   *)
MCSymmetry == {(r1 :> r2) @@ (r2 :> r1) @@ (k1 :> k2) @@ (k2 :> k1)}
=============================================================================
