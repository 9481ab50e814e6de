-------------------------- MODULE MC_PoolRegistry --------------------------
(***************************************************************************)
(* Small instances of PoolRegistry for TLC.                                *)
(***************************************************************************)
EXTENDS PoolRegistry, TLC

CONSTANTS s1, s2, p1, p2, p3, k1, k2, k3, f1, f2, b1, b2, w1

OneSession == {s1}
TwoSessions == {s1, s2}
OnePool == {p1}
TwoPools == {p1, p2}
ThreePools == {p1, p2, p3}
TwoKeys == {k1, k2}
ThreeKeys == {k1, k2, k3}
OnePath == {f1}
TwoPaths == {f1, f2}
OneBucket == {b1}
TwoBuckets == {b1, b2}
NoBuckets == {}
NoWriter == {}
OneWriter == {w1}

\* Sessions, names and directories are interchangeable.
Symmetry == Permutations(Session) \cup Permutations(Pool) \cup Permutations(Key)
            \cup Permutations(Path) \cup Permutations(Bucket)
=============================================================================
