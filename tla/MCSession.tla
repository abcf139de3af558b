----------------------------- MODULE MCSession -----------------------------
(* Small instances of Session for TLC. *)
EXTENDS Session, FiniteSetsExt, TLC

CONSTANTS t, s, b1, b2

\* One build dir; two, of one family each.
OneTarget == [n \in Unit |-> t]
TwoTargets == [n \in Unit |-> IF n = Max(Unit) THEN s ELSE t]
OneFamily == [d \in Target |-> 1]
TwoFamilies == (t :> 1) @@ (s :> 2)
\* What a session may be asked for.
EachLossy == {{"evict"}, {"orphans"}, {"incremental"}, {"doc"}}
NothingOrEvict == {{}, {"evict"}}
OnlyEvict == {{"evict"}}
OnlyOrphans == {{"orphans"}}
Symmetry == Permutations(Build)
=============================================================================
