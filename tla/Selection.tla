----------------------------- MODULE Selection -----------------------------
(***************************************************************************)
(* What a session is asked for and what it finds, before it takes any      *)
(* lock: the command line over the config file (src/main.rs, request), the *)
(* check of a request (src/session.rs, Request), the walk for build dirs   *)
(* (src/eco/mod.rs, discover), whose they are (src/eco/cargo/mod.rs,       *)
(* owner; src/inventory.rs, git_link), which are left alone, which have no *)
(* owner any more, and the groups (src/session.rs, run).  All of it is     *)
(* decided from one reading of the directories; what changes between that  *)
(* and the locks is module Session's.                                      *)
(***************************************************************************)
EXTENDS Naturals, FiniteSets, Sequences

CONSTANTS
  Dir,           \* dirs, numbered in the order of their paths
  Above,         \* [Dir -> SUBSET Dir]: a dir and all it is in
  Name,          \* [Dir -> names]: the last component of a path
  GitDir,        \* dirs called .git
  Registry,      \* the adapters, in the order they are asked
  Repository,    \* git common dirs
  Nothing,       \* no number, no dir, no repository
  World,         \* what the directories may hold
  Roots,         \* sets of roots that may be asked for
  CommandLine,   \* arguments of run
  ConfigFile     \* config files

LossyPasses == {"orphans", "evict", "incremental", "doc"}
AllPasses == LossyPasses \cup {"compress", "dedupe"}
Kinds == {"none", "dir", "torn", "link"}
Lstat == {"there", "gone", "barred"}  \* what a look at a path may say

ASSUME TreeAssumption ==
  /\ Dir \subseteq Nat
  /\ Above \in [Dir -> SUBSET Dir]
  /\ \A d \in Dir : /\ d \in Above[d]
                    /\ \A a \in Above[d] : a <= d /\ Above[a] = {b \in Above[d] : b <= a}
  /\ GitDir \subseteq Dir
  /\ Nothing \notin Dir \cup Repository \cup Nat
  /\ \A roots \in Roots : roots \subseteq Dir

ASSUME RegistryAssumption == Registry \in Seq(STRING)

\* A world: what a look at each dir says; what .git in it is, the repository it
\* leads to, and of a .git that is a file, whether the record it names and the
\* commondir in that can be read, and whether it is a worktree's; what a look at
\* the manifest in it says, "there" where an adapter knows of none; which adapters
\* say it is theirs; and the workspaces its dep-info, or CMake's cache, names.
\* What can be looked at is in dirs that can.
ASSUME WorldAssumption ==
  \A w \in World :
    /\ w.lstat \in [Dir -> Lstat]
    /\ \A d \in Dir : w.lstat[d] = "there" => \A a \in Above[d] : w.lstat[a] = "there"
    /\ w.manifest \in [Dir -> Lstat]
    /\ w.claims \in [Dir -> SUBSET {Registry[i] : i \in DOMAIN Registry}]
    /\ w.named \in [Dir -> SUBSET Dir]
    /\ \A d \in Dir : "cmake" \in w.claims[d] => Cardinality(w.named[d]) = 1
    /\ w.git \in [Dir -> [kind : Kinds, repo : Repository \cup {Nothing}, worktree : BOOLEAN,
                          record : Lstat, common : Lstat]]
    /\ \A d \in Dir : w.git[d].kind \in {"dir", "link"} => w.git[d].repo \in Repository

----------------------------------------------------------------------------
(* Finding build dirs *)

Nearest(dirs) == CHOOSE d \in dirs : \A e \in dirs : e <= d
Least(dirs) == CHOOSE d \in dirs : \A e \in dirs : d <= e

\* The first claim in registry order wins.
Claims(w, d) == {i \in DOMAIN Registry : Registry[i] \in w.claims[d]}
IsBuildDir(w, d) == Claims(w, d) # {}
Adapter(w, d) == Registry[Least(Claims(w, d))]

Between(root, d) == {a \in Above[d] : root \in Above[a]}

\* Mutant of Walked: a build dir is entered.
WalkedInto(w, root, d) ==
  /\ root \in Above[d]
  /\ \A a \in Between(root, d) : a \notin GitDir /\ w.lstat[a] = "there"

\* The walk from a root gets to d: no .git on the way, no build dir above it,
\* and nothing that cannot be read.
Walked(w, root, d) ==
  /\ root \in Above[d]
  /\ \A a \in Between(root, d) : a \notin GitDir /\ w.lstat[a] = "there"
  /\ \A a \in Between(root, d) \ {d} : ~IsBuildDir(w, a)

Discover(w, roots) == {d \in Dir : IsBuildDir(w, d) /\ \E root \in roots : Walked(w, root, d)}

----------------------------------------------------------------------------
(* Whose they are, from git's files *)

HasGit(w, d) == w.lstat[d] = "there" /\ w.git[d].kind # "none"
Checkouts(w, d) == {a \in Above[d] : HasGit(w, a)}
CheckoutRoot(w, d) == IF Checkouts(w, d) = {} THEN Nothing ELSE Nearest(Checkouts(w, d))

\* The project is gone, and what is left above it is in no checkout.
GoneWithCheckout(w, project) ==
  LET left == {a \in Above[project] : w.lstat[a] # "gone"}
  IN  /\ left # {} /\ Nearest(left) # project
      /\ w.lstat[Nearest(left)] = "there"
      /\ Checkouts(w, Nearest(left)) = {}

\* A family is a repository, or the record of a worktree whose commondir cannot
\* be read, which goes by the worktree's dir here.
OwnRecord(d) == <<"record", d>>

\* Mutant of LinkFamily: a record that is gone names no repository.
LinkFamilyOfLive(d, git) ==
  IF git.record # "there" THEN Nothing
  ELSE IF git.worktree /\ git.common # "there" THEN OwnRecord(d) ELSE git.repo
LinkFamily(d, git) ==
  IF git.record # "there" THEN IF git.worktree THEN git.repo ELSE Nothing
  ELSE IF git.worktree /\ git.common # "there" THEN OwnRecord(d) ELSE git.repo

\* git_link: the family, and whether the project is an orphan.
GitLink(w, project) ==
  LET d == CheckoutRoot(w, project)
      git == w.git[d]
  IN  IF GoneWithCheckout(w, project) THEN [family |-> Nothing, orphaned |-> TRUE]
      ELSE IF d = Nothing \/ git.kind = "torn" THEN [family |-> Nothing, orphaned |-> FALSE]
      ELSE IF git.kind = "dir" THEN [family |-> git.repo, orphaned |-> FALSE]
      ELSE [family |-> LinkFamily(d, git), orphaned |-> git.record # "there"]

\* Mutant of NamedOwner: any workspace the dep-info names, there or not.
NamedOwnerOfAny(w, d) == Least(w.named[d])
NamedOwner(w, d) ==
  LET there == {p \in w.named[d] : w.lstat[p] = "there"}
  IN  Least(IF there # {} THEN there ELSE w.named[d])

\* Cargo's owner: the dir above with a manifest, else what the dep-info names,
\* unless those that are there are of several families; else the dir above.
\* CMake's is what its cache names, SwiftPM's and .NET's the dir above.
Owner(w, d) ==
  LET above == Nearest(Above[d] \ {d})
      there == {p \in w.named[d] : w.lstat[p] = "there"}
      families == {GitLink(w, p).family : p \in there}
  IN  IF Adapter(w, d) = "cmake" THEN NamedOwner(w, d)
      ELSE IF Above[d] = {d} THEN Nothing
      ELSE IF Adapter(w, d) # "cargo" \/ w.manifest[above] = "there" THEN above
      ELSE IF \E f, g \in families : f # g THEN Nothing
      ELSE IF w.named[d] # {} THEN NamedOwner(w, d)
      ELSE above

\* The components of a path inside a checkout, each with its depth.
Components(checkout, d) ==
  {<<Cardinality(Above[a] \ Above[checkout]), Name[a]>> : a \in Above[d] \ Above[checkout]}

\* inventory::inspect, as far as anything below asks.
BuildDir(w, d) ==
  LET project == Owner(w, d)
      checkout == CheckoutRoot(w, IF project = Nothing THEN d ELSE project)
      link == IF project = Nothing THEN [family |-> Nothing, orphaned |-> FALSE]
                                   ELSE GitLink(w, project)
  IN  [root |-> d,
       ecosystem |-> Adapter(w, d),
       project |-> project,
       position |-> IF checkout # Nothing /\ checkout \in Above[d]
                    THEN Components(checkout, d) ELSE Nothing,
       family |-> link.family,
       orphaned |-> link.orphaned,
       projectGone |-> project # Nothing /\ w.manifest[project] # "there"]

Inventoried(w, roots) == {BuildDir(w, d) : d \in Discover(w, roots)}

----------------------------------------------------------------------------
(* What is asked for *)

Or(flag, file) == IF flag # Nothing THEN flag ELSE file

\* Mutant of LossyAsked: the config file adds to the command line.
LossyAskedByEither(args, config) == args.lossy \cup config.lossy
LossyAsked(args, config) == IF args.lossy # {} THEN args.lossy ELSE config.lossy

\* A command line, and a config file, that say nothing.
NoArguments ==
  [passes |-> {}, lossy |-> {}, evictIdle |-> Nothing, evictTotal |-> Nothing,
   wholeTarget |-> FALSE, incrementalIdle |-> Nothing, projectIdle |-> Nothing,
   acrossFamilies |-> FALSE]
NoConfigFile ==
  [lossy |-> {}, evictIdle |-> Nothing, evictTotal |-> Nothing, wholeTarget |-> FALSE,
   incrementalIdle |-> Nothing, projectIdle |-> Nothing, acrossFamilies |-> FALSE,
   family |-> << >>]

\* What the config file asks for when no flag says otherwise: the daemon's request.
FromConfig(config) ==
  [passes |-> {},
   lossy |-> config.lossy,
   evictIdle |-> config.evictIdle, evictTotal |-> config.evictTotal,
   wholeTarget |-> config.wholeTarget,
   incrementalIdle |-> config.incrementalIdle,
   projectIdle |-> config.projectIdle,
   acrossFamilies |-> config.acrossFamilies,
   skipFamilies |-> {f \in DOMAIN config.family : config.family[f].skip},
   skipPaths |-> [f \in DOMAIN config.family |-> config.family[f].skipPaths],
   ecosystems |-> [f \in {g \in DOMAIN config.family : config.family[g].ecosystems # Nothing} |->
                     config.family[f].ecosystems]]
FromFiles == {FromConfig(config) : config \in ConfigFile}

\* Flags over the config file.
Request(args, config) ==
  [FromConfig(config) EXCEPT
     !.passes = args.passes,
     !.lossy = LossyAsked(args, config),
     !.evictIdle = Or(args.evictIdle, @), !.evictTotal = Or(args.evictTotal, @),
     !.wholeTarget = @ \/ args.wholeTarget,
     !.incrementalIdle = Or(args.incrementalIdle, @),
     !.projectIdle = Or(args.projectIdle, @),
     !.acrossFamilies = @ \/ args.acrossFamilies]

\* Request::check.
Accepted(r) ==
  /\ r.lossy \subseteq LossyPasses
  /\ r.passes \subseteq AllPasses
  /\ \A f \in DOMAIN r.ecosystems :
       r.ecosystems[f] \subseteq {Registry[i] : i \in DOMAIN Registry}
  /\ "evict" \in r.lossy <=> r.evictIdle # Nothing \/ r.evictTotal # Nothing
  /\ "incremental" \in r.lossy <=> r.incrementalIdle # Nothing
  /\ r.projectIdle # Nothing => "orphans" \in r.lossy

\* The passes that may remove anything: of the pipeline, and enabled.
Removing(r) == {p \in r.lossy : r.passes = {} \/ p \in r.passes}

----------------------------------------------------------------------------
(* What the session works on *)

FamilyOf(t) == IF t.family # Nothing THEN t.family ELSE t.root

\* Mutant of Keeps: an orphan is nobody's to skip.
KeepsOrphans(r, t) ==
  LET f == FamilyOf(t)
  IN  \/ t.orphaned
      \/ /\ f \notin r.skipFamilies
         /\ ~(/\ f \in DOMAIN r.skipPaths /\ t.position # Nothing
              /\ \E prefix \in r.skipPaths[f] : prefix \subseteq t.position)
         /\ f \in DOMAIN r.ecosystems => t.ecosystem \in r.ecosystems[f]

\* Request::keeps.
Keeps(r, t) ==
  LET f == FamilyOf(t)
  IN  /\ f \notin r.skipFamilies
      /\ ~(/\ f \in DOMAIN r.skipPaths /\ t.position # Nothing
           /\ \E prefix \in r.skipPaths[f] : prefix \subseteq t.position)
      /\ f \in DOMAIN r.ecosystems => t.ecosystem \in r.ecosystems[f]

\* One group per family and adapter, or per adapter.
GroupKey(r, t) == <<IF r.acrossFamilies THEN "across" ELSE FamilyOf(t), t.ecosystem>>

----------------------------------------------------------------------------
(* What should hold of it *)

\* git's files tell the repository a project is in: a worktree's, even where its
\* record is gone; and else what the record that is there says.
Told(w, project) ==
  /\ project # Nothing
  /\ Checkouts(w, project) # {}
  /\ LET git == w.git[CheckoutRoot(w, project)]
     IN  \/ git.kind = "dir"
         \/ git.kind = "link" /\ IF git.record = "there" THEN git.worktree => git.common = "there"
                                                         ELSE git.worktree
RepositoryOf(w, project) == w.git[CheckoutRoot(w, project)].repo

\* git has forgotten the worktree a project is in.
Forgotten(w, project) ==
  /\ Checkouts(w, project) # {}
  /\ LET git == w.git[CheckoutRoot(w, project)] IN git.kind = "link" /\ git.record = "gone"

\* The workspaces a build dir was built from, as far as it is known.
Workspaces(w, t) ==
  IF w.named[t.root] # {} /\ t.project \in w.named[t.root] THEN w.named[t.root] ELSE {t.project}

\* However the roots lie in each other, no build dir is found inside another one,
\* where the build's own lock would not be asked for, unless a root was named
\* inside it; and none the walk can get to is missed, but those in another.
FindsEachOnce ==
  \A w \in World, roots \in Roots :
    /\ \A d, e \in Discover(w, roots) :
         e \in Above[d] \ {d} => \E root \in roots : root \in Above[d] /\ e \in Above[root] \ {root}
    /\ \A d \in Dir, root \in roots :
         /\ root \in Above[d] /\ IsBuildDir(w, d)
         /\ \A a \in Between(root, d) : a \notin GitDir /\ w.lstat[a] = "there"
         => \E e \in Discover(w, roots) : e \in Above[d]

\* Where git's files tell it, a group is the build dirs of one adapter in one
\* repository, a checkout git has forgotten included: locks are taken, and bytes
\* shared, inside it, and with all of it.
OneRepositoryPerGroup ==
  \A w \in World, roots \in Roots :
    LET found == {t \in Inventoried(w, roots) : Told(w, t.project)}
    IN  \A r \in FromFiles : ~r.acrossFamilies =>
          \A t, u \in found :
            GroupKey(r, t) = GroupKey(r, u) <=>
              /\ RepositoryOf(w, t.project) = RepositoryOf(w, u.project)
              /\ t.ecosystem = u.ecosystem

\* Unreadable is not gone: a build dir is given up for its checkout only if git
\* has forgotten the checkout of the one workspace of it that is still there, or of
\* the one that cannot be told to be gone.  That the record of a worktree can be
\* read is taken for granted; the code does not tell.
OnlyForgottenAreOrphans ==
  \A w \in World, roots \in Roots :
    (\A d \in Dir : w.git[d].record # "barred") =>
      \A t \in Inventoried(w, roots) : t.orphaned =>
        LET there == {p \in Workspaces(w, t) : w.lstat[p] = "there"}
        IN  /\ (\A p, q \in there : p = q) => \A p \in there : Forgotten(w, p)
            /\ w.lstat[t.project] = "barred" => Forgotten(w, t.project)

\* A family the config file skips is left alone in every checkout, also in one
\* git has forgotten, and what is left alone in one checkout is in all of them.
SkippedAreLeftAlone ==
  \A w \in World, roots \in Roots :
    LET found == {t \in Inventoried(w, roots) : Told(w, t.project)}
    IN  \A r \in FromFiles : \A t \in found :
          /\ RepositoryOf(w, t.project) \in r.skipFamilies => ~Keeps(r, t)
          /\ \A u \in found :
               /\ RepositoryOf(w, u.project) = RepositoryOf(w, t.project)
               /\ u.position = t.position /\ u.ecosystem = t.ecosystem
               => (Keeps(r, t) <=> Keeps(r, u))

\* A limit that is set for a pass that does not run.
LimitLeftOver(config, lossy) ==
  \/ "evict" \notin lossy /\ (config.evictIdle # Nothing \/ config.evictTotal # Nothing)
  \/ "incremental" \notin lossy /\ config.incrementalIdle # Nothing
  \/ "orphans" \notin lossy /\ config.projectIdle # Nothing

\* Passes that remove are named in one place: where the command line names some,
\* the config file adds none, and where a command line and a config file that are
\* good by themselves are not together, it is for a limit of a pass left out.
FlagsWin ==
  \A args \in CommandLine, config \in ConfigFile :
    LET r == Request(args, config)
        alone == Request(args, NoConfigFile)
    IN  /\ args.lossy # {} => Removing(r) = Removing(alone)
        /\ args.lossy = {} => Removing(r) \subseteq config.lossy
        /\ Accepted(alone) /\ Accepted(FromConfig(config)) =>
             (Accepted(r) <=> args.lossy = {} \/ ~LimitLeftOver(config, args.lossy))

----------------------------------------------------------------------------
(* What the repository says of it, and the code does not do *)

\* A dir shared by checkouts is an orphan only once all of them are gone, says
\* src/eco/cargo/mod.rs:50; the code asks the first that is there.
SharedOutlivesAll ==
  \A w \in World, roots \in Roots : \A t \in Inventoried(w, roots) : t.orphaned =>
    \A p \in Workspaces(w, t) : w.lstat[p] = "there" => Forgotten(w, p)

\* Unreadable is not gone, says src/inventory.rs:308 of a project; of the record
\* of its worktree the code, a few lines below, does not ask which it is.
UnreadableIsNotGone ==
  \A w \in World, roots \in Roots : \A t \in Inventoried(w, roots) :
    t.orphaned => Forgotten(w, t.project) \/ w.lstat[t.project] = "gone"

\* A flag always wins, says src/config.rs:3; a command line that is good by itself
\* is refused for a limit in the config file.
FlagsAlwaysWin ==
  \A args \in CommandLine, config \in ConfigFile :
    args.lossy # {} /\ Accepted(Request(args, NoConfigFile))
                    /\ Accepted(FromConfig(config)) =>
      Accepted(Request(args, config))
=============================================================================
