------------------------------ MODULE MCEngine ------------------------------
(* Small instances of Engine for TLC: three files in two build dirs, and four *)
(* files in one. *)
EXTENDS Engine, TLC

CONSTANTS u, v, rw, rx, x, y

TwoUnits == {u, v}

\* Builds lock their units, and link some of their files, within a unit or not.
Device(h, c, i, r, l) ==
  [how |-> h, compresses |-> c, reuses |-> i, rewrites |-> r, links |-> l,
   lockless |-> {}, ticks |-> 2]
\* APFS or Btrfs: clones, and inode numbers that are not seen again.
Apfs == Device("Clone", TRUE, FALSE, TRUE, "unit")
\* The same, with builds that lock nothing and link nothing, for runs of one tick.
Quiet == [Apfs EXCEPT !.links = "none", !.lockless = TwoUnits, !.ticks = 1]
\* HFS+, asked to hardlink: no clones, and numbers that are not seen again.
Hfs == Device("Link", TRUE, FALSE, FALSE, "any")
\* XFS: clones, no compression, and inode numbers that come back.
Xfs == Device("Clone", FALSE, TRUE, TRUE, "any")
\* ext4, where dedupe was asked to hardlink: sound only where the build tools
\* never write into a file that is there (README.md, "Sharing without copy-on-write").
Ext4 == Device("Link", FALSE, TRUE, FALSE, "any")

ForOneTick(d) == [d EXCEPT !.ticks = 1]
OnlyApfs == {ForOneTick(Apfs)}
OnlyXfs == {ForOneTick(Xfs)}
OnlyQuiet == {[Quiet EXCEPT !.ticks = 2]}
AllDevices == {ForOneTick(Apfs), ForOneTick(Hfs), Xfs, Ext4, Quiet}

ThreePaths == 1 .. 3
\* Two files in one unit, which may be one inode, and one in another.
ThreeUnitOf == (1 :> u) @@ (2 :> u) @@ (3 :> v)
SameMode == (1 :> rw) @@ (2 :> rw) @@ (3 :> rw)
MixedMode == (1 :> rw) @@ (2 :> rw) @@ (3 :> rx)
\* Four files in one unit.
OneUnit == {u}
FourPaths == 1 .. 4
FourUnitOf == [p \in FourPaths |-> u]
FourMode == [p \in FourPaths |-> rw]
AnyContents == [Path -> Data]
\* Up to a renaming of the contents: all there is where TLC may use no symmetry.
XFirst == {c \in AnyContents : c[1] = x}
\* Which content is which makes no difference to the code.
Symmetry == Permutations(Data)
=============================================================================
