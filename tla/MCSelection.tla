---------------------------- MODULE MCSelection ----------------------------
(***************************************************************************)
(* A small instance of Selection, beside that of Session: the checkout of  *)
(* a repository at 2 and a worktree at 6, each with a target, one more out *)
(* of tree, and a build dir inside a build dir.                            *)
(*                                                                         *)
(*   1 /   2 /a   3 /a/.git   4 /a/target   5 /a/target/x                  *)
(*   6 /b  7 /b/target        8 /out                                       *)
(***************************************************************************)
EXTENDS MCSession, Front

CONSTANTS R, S

Tree == 1 .. 8
Ancestors == << {1}, {1, 2}, {1, 2, 3}, {1, 2, 4}, {1, 2, 4, 5}, {1, 6}, {1, 6, 7}, {1, 8} >>
PathNames == << "/", "a", ".git", "target", "x", "b", "target", "out" >>
Adapters == <<"cargo", "swiftpm", "dotnet", "cmake">>

Git(kind, repo, worktree, record, common) ==
  [kind |-> kind, repo |-> repo, worktree |-> worktree, record |-> record, common |-> common]
NotGit == Git("none", Nothing, FALSE, "there", "there")
Torn == Git("torn", Nothing, FALSE, "there", "there")
DotGit(repo) == Git("dir", repo, FALSE, "there", "there")
Worktrees == {Git("link", R, TRUE, "there", c) : c \in {"there", "barred"}}
             \cup {Git("link", R, TRUE, record, "there") : record \in {"gone", "barred"}}
Submodules == {Git("link", S, FALSE, record, "there") : record \in {"there", "gone"}}

\* What a look at a checkout may find.
Checkout(gits) ==
  [lstat : {"there"}, git : gits, manifest : {"there", "gone"}]
  \cup [lstat : {"gone", "barred"}, git : {NotGit}, manifest : {"gone"}]

Made(a, b, top, named) ==
  [lstat |-> [d \in Tree |-> CASE 2 \in Ancestors[d] -> a.lstat
                               [] 6 \in Ancestors[d] -> b.lstat
                               [] OTHER -> "there"],
   git |-> [d \in Tree |-> CASE d = 1 -> top [] d = 2 -> a.git [] d = 6 -> b.git
                             [] OTHER -> NotGit],
   manifest |-> [d \in Tree |-> CASE d = 2 -> a.manifest [] d = 6 -> b.manifest
                                  [] OTHER -> "gone"],
   claims |-> [d \in Tree |-> CASE d \in {3, 4, 7, 8} -> {"cargo"} [] d = 5 -> {"cmake"}
                                [] OTHER -> {}],
   named |-> [d \in Tree |-> CASE d = 8 -> named [] d = 5 -> {6} [] OTHER -> {}]]

GitWorlds == {Made(a, b, top, named) :
                a \in Checkout({NotGit, DotGit(R), Git("link", R, TRUE, "gone", "there")}),
                b \in Checkout({NotGit, Torn, DotGit(S)} \cup Worktrees \cup Submodules),
                top \in {NotGit, DotGit(S)},
                named \in SUBSET {2, 6}}

Plain == Made([lstat |-> "there", git |-> DotGit(R), manifest |-> "there"],
              [lstat |-> "there", git |-> CHOOSE g \in Worktrees : g.common = "there" /\ g.record = "there",
               manifest |-> "there"], NotGit, {2})
ClaimWorlds == {[Plain EXCEPT !.claims = c] :
                  c \in {f \in [Tree -> {{}, {"cargo"}, {"dotnet", "cmake"}}] :
                           /\ \A d \in {1, 2, 6} : f[d] = {}
                           /\ \A d \in {3, 4, 7, 8} : f[d] # {"dotnet", "cmake"}}}
Worlds == GitWorlds \cup ClaimWorlds
RootSets == {{1, 2}, {4, 5, 8}}

ArgsOf(lossy, passes, idle, project) ==
  [NoArguments EXCEPT !.lossy = lossy, !.passes = passes, !.evictIdle = idle,
                      !.projectIdle = project]
CommandLines == {ArgsOf(l, p, i, o) : l \in SUBSET {"orphans", "evict", "incremental"},
                                       p \in {{}, {"evict", "dedupe"}},
                                       i \in {Nothing, 1}, o \in {Nothing, 1}}
Family(skip, paths) == [skip |-> skip, skipPaths |-> paths, ecosystems |-> Nothing]
Families == {<< >>, R :> Family(TRUE, {}), R :> Family(FALSE, {{<<1, "target">>}}),
             4 :> Family(TRUE, {}),
             R :> [skip |-> FALSE, skipPaths |-> {}, ecosystems |-> {"cmake"}]}
ConfigFiles ==
  {[NoConfigFile EXCEPT !.lossy = l, !.evictIdle = i, !.incrementalIdle = n] :
     l \in SUBSET {"orphans", "evict", "incremental"}, i \in {Nothing, 1}, n \in {Nothing, 1}}
  \cup {[NoConfigFile EXCEPT !.family = f] : f \in Families}
=============================================================================
