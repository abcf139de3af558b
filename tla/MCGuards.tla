---------------------------- MODULE MCGuards ----------------------------
(* Instances of Guards: two dirs with a file in each, of a module cache,   *)
(* of a store, of the cargo home or of a scratch dir.                      *)
EXTENDS Guards, TLC

CONSTANTS m1, m2, f1, f2

Two == f1 :> m1 @@ f2 :> m2
\* Which dir is which makes no difference to the code: a renaming that keeps each file
\* in its dir.
Symmetry ==
    {p \in Permutations(Dirs \cup Files) :
        \A f \in Files : p[f] \in Files /\ p[DirOf[f]] = DirOf[p[f]]}
=============================================================================
