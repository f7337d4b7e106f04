----------------------------- MODULE MCModelStore -----------------------------
(***************************************************************************)
(* Two models of one name in two directories, one of them public, and one  *)
(* to import.                                                              *)
(***************************************************************************)
EXTENDS ModelStore, TLC

CONSTANTS home, ext, pub, n1, n2, m1, m2, m3, w1, w2

ThreeDirs == {home, ext, pub}
TwoApp == {home, ext}
TwoNames == {n1, n2}
OneImport == {<<m3, n1>>}
\* One that fits at first, and one of another directory.
TwoBackups ==
    {[dir |-> home, path |-> <<home, n1>>, local |-> TRUE], [dir |-> pub, path |-> None, local |-> TRUE]}
TwoInstalled == << [path |-> <<home, n1>>, model |-> m1], [path |-> <<ext, n1>>, model |-> m2] >>
Variants == Permutations({w1, w2})

UntilCollision == accident # "collided"
OverlapEarly == Threads \subseteq DOMAIN task => begun = 2

\* What an inode nobody can reach holds makes no difference.
Canonical == <<names, [i \in Inodes |-> IF Free(i) THEN 0 ELSE content[i]],
               task, set, disk, owed, accident = "none", accident = "collided", begun>>
===============================================================================
