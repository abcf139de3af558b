------------------------------ MODULE MCDaemon ------------------------------
(* Small instances of Daemon for TLC. *)
EXTENDS Daemon, TLC

CONSTANTS one, two

\* A unit for each group.
UnitGroup == [u \in Unit |-> u]
\* The groups are of a family each, or of one family and two build systems.
OwnFamily == (1 :> one) @@ (2 :> two)
OneFamily == (1 :> one) @@ (2 :> one)
\* A list that holds no longer than min-age, where users clean; and one that
\* holds longer, where they do not, with the first family left alone.
ShortOrKept ==
  {[every |-> 1, cleans |-> TRUE, skips |-> {}], [every |-> 2, cleans |-> FALSE, skips |-> {1}]}
LongAndKept == {[every |-> 2, cleans |-> FALSE, skips |-> {}]}
=============================================================================
