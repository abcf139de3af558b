------------------------------ MODULE BuildDirs ------------------------------
(***************************************************************************)
(* What the tool promises the owner of a build dir, with no word on how    *)
(* (DESIGN.md, "Safety invariants" 3 and 4): only a build changes what a   *)
(* path holds or which mode it has, and a path never reads older than the  *)
(* build left it.                                                          *)
(*                                                                         *)
(* builds counts the steps of builds.  It is what tells a build's step     *)
(* from the tool's: the tool never moves it, so content and mode must hold *)
(* still whenever it does.                                                 *)
(***************************************************************************)
EXTENDS Naturals

CONSTANTS
  Path,        \* the names of files in build dirs
  Data,        \* what a file may hold
  Mode,        \* permission bits
  Absent       \* what a path without a file holds

VARIABLES
  mayAge,      \* whether the tool may move an mtime forward (hardlink fallback)
  builds,      \* steps builds have taken
  content,     \* what each path holds
  mode,        \* its permission bits
  mtime        \* its modification time

vars == <<mayAge, builds, content, mode, mtime>>

Init ==
  /\ mayAge \in BOOLEAN
  /\ builds = 0
  /\ content \in [Path -> Data \cup {Absent}]
  /\ mode \in [Path -> Mode]
  /\ mtime \in [Path -> Nat]

\* A build writes, links or deletes whatever it likes.
Build ==
  /\ mayAge' = mayAge
  /\ builds' = builds + 1
  /\ content' \in [Path -> Data \cup {Absent}]
  /\ mode' \in [Path -> Mode]
  /\ mtime' \in [Path -> Nat]

\* The tool shares or compresses: nothing a reader or a build could notice,
\* but for an mtime that moved forward where two names now share an inode.
Tend ==
  /\ mayAge
  /\ UNCHANGED <<mayAge, builds, content, mode>>
  /\ mtime' \in [Path -> Nat]
  /\ \A p \in Path : mtime'[p] >= mtime[p]

Next == Build \/ Tend

Spec == Init /\ [][Next]_vars
=============================================================================
