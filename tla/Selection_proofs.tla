-------------------------- MODULE Selection_proofs --------------------------
(***************************************************************************)
(* What a session decides before it takes a lock, for every tree of dirs,  *)
(* every world, every command line and every config file.                  *)
(***************************************************************************)
EXTENDS Front, FiniteSetTheorems, WellFoundedInduction, TLAPS

----------------------------------------------------------------------------
(* Least and greatest *)

\* A set of numbers that is not empty has a least one.
LEMMA LeastExists ==
  ASSUME NEW D \in SUBSET Nat, D # {}
  PROVE  Least(D) \in D /\ \A e \in D : Least(D) <= e
<1>1. PICK d \in D : \A e \in D : ~(<<e, d>> \in OpToRel(<, Nat))
  BY NatLessThanWellFounded, WFMin, Zenon
<1>2. \A e \in D : ~(e < d)
  BY <1>1 DEF OpToRel
<1>3. \A e \in D : d <= e
  BY <1>2
<1> QED BY <1>3 DEF Least

\* A set of numbers that is not empty, and bounded, has a greatest one.
LEMMA GreatestExists ==
  ASSUME NEW D, NEW n \in Nat, D \subseteq 0 .. n, D # {}
  PROVE  Nearest(D) \in D /\ \A e \in D : e <= Nearest(D)
<1> DEFINE C == {n - x : x \in D}
<1>1. C \in SUBSET Nat /\ C # {}
  <2>1. \A x \in D : n - x \in Nat
    OBVIOUS
  <2>2. C \subseteq Nat
    BY <2>1
  <2>3. PICK x \in D : TRUE
    OBVIOUS
  <2>4. n - x \in C
    BY <2>3
  <2> QED BY <2>2, <2>4
<1>2. PICK c \in C : \A e \in C : c <= e
  <2> HIDE DEF C
  <2> QED BY <1>1, LeastExists
<1>3. PICK d \in D : c = n - d
  BY <1>2
<1>4. \A e \in D : n - d <= n - e
  BY <1>2, <1>3
<1>5. \A e \in D : e <= d
  BY <1>4
<1> QED BY <1>5 DEF Nearest

----------------------------------------------------------------------------
(* What is asked for *)

\* Passes that remove are named in one place, and a request that is refused is
\* refused for a limit of a pass left out.
LEMMA FlagsWinHolds == FlagsWin
<1> SUFFICES ASSUME NEW args \in CommandLine, NEW config \in ConfigFile
             PROVE  LET r == Request(args, config)
                        alone == Request(args, NoConfigFile)
                    IN  /\ args.lossy # {} => Removing(r) = Removing(alone)
                        /\ args.lossy = {} => Removing(r) \subseteq config.lossy
                        /\ Accepted(alone) /\ Accepted(FromConfig(config)) =>
                             (Accepted(r) <=> args.lossy = {} \/ ~LimitLeftOver(config, args.lossy))
  BY DEF FlagsWin
<1> DEFINE r == Request(args, config)
           alone == Request(args, NoConfigFile)
           file == FromConfig(config)
<1>1. /\ r.passes = args.passes /\ alone.passes = args.passes /\ file.passes = {}
      /\ r.lossy = LossyAsked(args, config)
      /\ alone.lossy = args.lossy /\ file.lossy = config.lossy
  BY DEF Request, FromConfig, LossyAsked, NoConfigFile
<1>2. /\ r.evictIdle = Or(args.evictIdle, config.evictIdle)
      /\ r.evictTotal = Or(args.evictTotal, config.evictTotal)
      /\ r.incrementalIdle = Or(args.incrementalIdle, config.incrementalIdle)
      /\ r.projectIdle = Or(args.projectIdle, config.projectIdle)
  BY DEF Request, FromConfig
<1>3. /\ alone.evictIdle = args.evictIdle /\ alone.evictTotal = args.evictTotal
      /\ alone.incrementalIdle = args.incrementalIdle /\ alone.projectIdle = args.projectIdle
  BY DEF Request, FromConfig, NoConfigFile, Or
<1>4. /\ file.evictIdle = config.evictIdle /\ file.evictTotal = config.evictTotal
      /\ file.incrementalIdle = config.incrementalIdle /\ file.projectIdle = config.projectIdle
  BY DEF FromConfig
<1>5. r.ecosystems = file.ecosystems
  BY DEF Request, FromConfig
<1> HIDE DEF r, alone, file
<1>6. args.lossy # {} => Removing(r) = Removing(alone)
  BY <1>1 DEF Removing, LossyAsked
<1>7. args.lossy = {} => Removing(r) \subseteq config.lossy
  BY <1>1 DEF Removing, LossyAsked
<1>8. ASSUME Accepted(alone), Accepted(file)
      PROVE  Accepted(r) <=> args.lossy = {} \/ ~LimitLeftOver(config, args.lossy)
  <2>1. r.passes \subseteq AllPasses /\ r.lossy \subseteq LossyPasses
    BY <1>1, <1>8 DEF Accepted, LossyAsked
  <2>2. \A f \in DOMAIN r.ecosystems :
          r.ecosystems[f] \subseteq {Registry[i] : i \in DOMAIN Registry}
    BY <1>5, <1>8 DEF Accepted
  <2>3. CASE args.lossy = {}
    <3>1. /\ r.lossy = config.lossy
          /\ r.evictIdle = config.evictIdle /\ r.evictTotal = config.evictTotal
          /\ r.incrementalIdle = config.incrementalIdle /\ r.projectIdle = config.projectIdle
      BY <1>1, <1>2, <1>3, <1>8, <2>3 DEF Accepted, LossyAsked, Or
    <3> QED BY <3>1, <1>1, <1>4, <1>8, <2>1, <2>2, <2>3 DEF Accepted
  <2>4. CASE args.lossy # {}
    <3>1. r.lossy = args.lossy
      BY <1>1, <2>4 DEF LossyAsked
    <3>2. ("evict" \in r.lossy <=> r.evictIdle # Nothing \/ r.evictTotal # Nothing)
            <=> ~("evict" \notin args.lossy
                  /\ (config.evictIdle # Nothing \/ config.evictTotal # Nothing))
      BY <1>1, <1>2, <1>3, <1>8, <3>1 DEF Accepted, Or
    <3>3. ("incremental" \in r.lossy <=> r.incrementalIdle # Nothing)
            <=> ~("incremental" \notin args.lossy /\ config.incrementalIdle # Nothing)
      BY <1>1, <1>2, <1>3, <1>8, <3>1 DEF Accepted, Or
    <3>4. (r.projectIdle # Nothing => "orphans" \in r.lossy)
            <=> ~("orphans" \notin args.lossy /\ config.projectIdle # Nothing)
      BY <1>1, <1>2, <1>3, <1>8, <3>1 DEF Accepted, Or
    <3> QED BY <2>1, <2>2, <2>4, <3>2, <3>3, <3>4 DEF Accepted, LimitLeftOver
  <2> QED BY <2>3, <2>4
<1> QED BY <1>6, <1>7, <1>8 DEF r, alone, file

----------------------------------------------------------------------------
(* Finding build dirs *)

\* A build dir inside one that was found is found only below a root inside that.
LEMMA NestedUnderRoot ==
  ASSUME NEW w \in World, NEW roots \in Roots,
         NEW d \in Discover(w, roots), NEW e \in Discover(w, roots), e \in Above[d] \ {d}
  PROVE  \E root \in roots : root \in Above[d] /\ e \in Above[root] \ {root}
<1>1. d \in Dir /\ e \in Dir /\ IsBuildDir(w, e)
  BY DEF Discover
<1>2. PICK root \in roots : Walked(w, root, d)
  BY DEF Discover
<1>3. root \in Above[d] /\ root \in Dir
  BY <1>2, TreeAssumption DEF Walked
<1>4. root \notin Above[e]
  BY <1>1, <1>2 DEF Walked, Between
<1>5. Above[e] = {b \in Above[d] : b <= e} /\ Above[root] = {b \in Above[d] : b <= root}
  BY <1>1, <1>3, TreeAssumption
<1>6. ~(root <= e)
  BY <1>3, <1>4, <1>5
<1>7. e <= root /\ e # root
  BY <1>1, <1>3, <1>6, TreeAssumption
<1> QED BY <1>3, <1>5, <1>7

\* The topmost build dir on the way to one the walk could get to is found.
LEMMA TopmostIsFound ==
  ASSUME NEW w \in World, NEW roots \in Roots, NEW d \in Dir, NEW root \in roots,
         root \in Above[d], IsBuildDir(w, d),
         \A a \in Between(root, d) : a \notin GitDir /\ w.lstat[a] = "there"
  PROVE  \E e \in Discover(w, roots) : e \in Above[d]
<1> DEFINE B == {a \in Between(root, d) : IsBuildDir(w, a)}
           e == Least(B)
<1>1. B \in SUBSET Nat /\ d \in B
  BY TreeAssumption DEF Between
<1>2. e \in B /\ \A a \in B : e <= a
  <2> HIDE DEF B
  <2> QED BY <1>1, LeastExists
<1> HIDE DEF e
<1>3. e \in Dir /\ e \in Above[d] /\ root \in Above[e] /\ IsBuildDir(w, e)
  BY <1>2, TreeAssumption DEF Between
<1>4. Above[e] = {b \in Above[d] : b <= e}
  BY <1>3, TreeAssumption
<1>5. Between(root, e) \subseteq Between(root, d)
  BY <1>4 DEF Between
<1>6. \A a \in Between(root, e) \ {e} : ~IsBuildDir(w, a)
  <2> SUFFICES ASSUME NEW a \in Between(root, e) \ {e}, IsBuildDir(w, a)
               PROVE  FALSE
    OBVIOUS
  <2>1. a \in B
    BY <1>5
  <2>2. a <= e /\ a \in Nat /\ e \in Nat
    BY <1>3, <1>4, TreeAssumption DEF Between
  <2> QED BY <1>2, <2>1, <2>2
<1>7. Walked(w, root, e)
  BY <1>3, <1>5, <1>6 DEF Walked
<1> QED BY <1>3, <1>7 DEF Discover

LEMMA FindsEachOnceHolds == FindsEachOnce
BY NestedUnderRoot, TopmostIsFound DEF FindsEachOnce

----------------------------------------------------------------------------
(* Whose they are *)

\* The nearest of some dirs above one is one of them.
LEMMA NearestAbove ==
  ASSUME NEW d \in Dir, NEW D \in SUBSET Above[d], D # {}
  PROVE  Nearest(D) \in D /\ \A e \in D : e <= Nearest(D)
<1>1. d \in Nat /\ D \subseteq 0 .. d
  BY TreeAssumption
<1> QED BY <1>1, GreatestExists

\* Where there is a checkout above a project, its .git is one of the world's.
LEMMA CheckoutIsThere ==
  ASSUME NEW w \in World, NEW d \in Dir, Checkouts(w, d) # {}
  PROVE  /\ CheckoutRoot(w, d) \in Above[d] \cap Dir /\ CheckoutRoot(w, d) # Nothing
         /\ HasGit(w, CheckoutRoot(w, d))
<1>1. Nearest(Checkouts(w, d)) \in Checkouts(w, d)
  <2>1. Checkouts(w, d) \in SUBSET Above[d]
    BY DEF Checkouts
  <2> QED BY <2>1, NearestAbove
<1>2. CheckoutRoot(w, d) \in Checkouts(w, d)
  BY <1>1 DEF CheckoutRoot
<1> QED BY <1>2, TreeAssumption DEF Checkouts

\* A project that is gone with its checkout is gone, and has no checkout above it.
LEMMA GoneIsGone ==
  ASSUME NEW w \in World, NEW project \in Dir, GoneWithCheckout(w, project)
  PROVE  w.lstat[project] = "gone" /\ Checkouts(w, project) = {}
<1> DEFINE left == {a \in Above[project] : w.lstat[a] # "gone"}
           near == Nearest(left)
<1>1. left # {} /\ near # project /\ Checkouts(w, near) = {}
  BY DEF GoneWithCheckout
<1>2. near \in left /\ \A e \in left : e <= near
  <2>1. left \in SUBSET Above[project]
    OBVIOUS
  <2> HIDE DEF left
  <2> QED BY <1>1, <2>1, NearestAbove
<1> HIDE DEF near
<1>3. /\ near \in Dir /\ near \in Nat /\ project \in Nat /\ near <= project
      /\ Above[near] = {b \in Above[project] : b <= near}
  BY <1>2, TreeAssumption
<1>4. w.lstat[project] = "gone"
  <2>1. SUFFICES ASSUME project \in left PROVE FALSE
    BY TreeAssumption
  <2>2. project <= near
    BY <1>2, <2>1
  <2> QED BY <1>1, <1>3, <2>2
<1>5. Checkouts(w, project) = {}
  <2> SUFFICES ASSUME NEW a \in Checkouts(w, project) PROVE FALSE
    OBVIOUS
  <2>1. a \in left
    BY DEF Checkouts, HasGit
  <2>2. a \in Checkouts(w, near)
    BY <1>2, <1>3, <2>1 DEF Checkouts
  <2> QED BY <1>1, <2>2
<1> QED BY <1>4, <1>5

\* The adapter of a build dir is one that claims it.
LEMMA AdapterClaims ==
  ASSUME NEW w \in World, NEW d \in Dir, IsBuildDir(w, d)
  PROVE  Adapter(w, d) \in w.claims[d]
<1>1. Claims(w, d) \in SUBSET Nat /\ Claims(w, d) # {}
  BY RegistryAssumption DEF Claims, IsBuildDir
<1>2. Least(Claims(w, d)) \in Claims(w, d)
  BY <1>1, LeastExists
<1> QED BY <1>2 DEF Claims, Adapter

\* Of the workspaces a build dir names the owner is one, one that is there if any is.
LEMMA NamedOwnerIsNamed ==
  ASSUME NEW w \in World, NEW d \in Dir, w.named[d] # {}
  PROVE  /\ NamedOwner(w, d) \in w.named[d]
         /\ (\E p \in w.named[d] : w.lstat[p] = "there") => w.lstat[NamedOwner(w, d)] = "there"
<1> DEFINE there == {p \in w.named[d] : w.lstat[p] = "there"}
<1>1. w.named[d] \in SUBSET Dir
  BY WorldAssumption
<1>2. w.named[d] \in SUBSET Nat /\ there \in SUBSET Nat
  BY <1>1, TreeAssumption
<1>3. CASE there # {}
  <2>1. Least(there) \in there
    <3> HIDE DEF there
    <3> QED BY <1>2, <1>3, LeastExists
  <2> QED BY <1>3, <2>1 DEF NamedOwner
<1>4. CASE there = {}
  <2>1. Least(w.named[d]) \in w.named[d]
    BY <1>2, LeastExists
  <2> QED BY <1>4, <2>1 DEF NamedOwner
<1> QED BY <1>3, <1>4

\* The owner of a build dir is the dir above it or a workspace it names.
LEMMA OwnerIs ==
  ASSUME NEW w \in World, NEW d \in Dir, IsBuildDir(w, d)
  PROVE  \/ Owner(w, d) = Nothing
         \/ Owner(w, d) \in Above[d]
         \/ w.named[d] # {} /\ Owner(w, d) = NamedOwner(w, d)
<1> DEFINE above == Nearest(Above[d] \ {d})
<1>1. Above[d] # {d} => above \in Above[d]
  <2>1. Above[d] \ {d} \in SUBSET Above[d]
    OBVIOUS
  <2>2. Above[d] # {d} => Above[d] \ {d} # {}
    BY TreeAssumption
  <2> QED BY <2>1, <2>2, NearestAbove
<1>2. Adapter(w, d) = "cmake" => w.named[d] # {}
  <2>1. SUFFICES ASSUME Adapter(w, d) = "cmake" PROVE Cardinality(w.named[d]) = 1
    BY FS_EmptySet
  <2> QED BY <2>1, AdapterClaims, WorldAssumption
<1> QED BY <1>1, <1>2 DEF Owner

LEMMA OwnerType ==
  ASSUME NEW w \in World, NEW d \in Dir, IsBuildDir(w, d)
  PROVE  Owner(w, d) \in Dir \cup {Nothing}
<1>1. Above[d] \subseteq Dir /\ w.named[d] \subseteq Dir
  BY TreeAssumption, WorldAssumption
<1> QED BY <1>1, OwnerIs, NamedOwnerIsNamed

\* Where git's files tell it, the family of a build dir is its owner's repository.
LEMMA ToldFamily ==
  ASSUME NEW w \in World, NEW roots \in Roots, NEW t \in Inventoried(w, roots),
         Told(w, t.project)
  PROVE  FamilyOf(t) = RepositoryOf(w, t.project)
<1> DEFINE project == t.project
           d == CheckoutRoot(w, project)
           git == w.git[d]
<1>1. PICK b \in Discover(w, roots) : t = BuildDir(w, b)
  BY DEF Inventoried
<1>2. project = Owner(w, b) /\ project # Nothing /\ project \in Dir
  BY <1>1, OwnerType DEF BuildDir, Discover, Told
<1>3. Checkouts(w, project) # {}
  BY DEF Told
<1>4. d \in Dir /\ d # Nothing /\ HasGit(w, d)
  BY <1>2, <1>3, CheckoutIsThere
<1>5. ~GoneWithCheckout(w, project)
  BY <1>2, <1>3, GoneIsGone
<1>6. t.family = GitLink(w, project).family
  BY <1>1, <1>2 DEF BuildDir
<1>7. \/ git.kind = "dir"
      \/ git.kind = "link" /\ IF git.record = "there" THEN git.worktree => git.common = "there"
                                                      ELSE git.worktree
  BY DEF Told
<1>8. GitLink(w, project).family = git.repo
  <2>1. CASE git.kind = "dir"
    BY <1>4, <1>5, <2>1 DEF GitLink
  <2>2. CASE git.kind = "link"
    <3>1. LinkFamily(d, git) = git.repo
      BY <1>7, <2>2 DEF LinkFamily
    <3> QED BY <1>4, <1>5, <2>2, <3>1 DEF GitLink
  <2> QED BY <1>7, <2>1, <2>2
<1>9. git.repo # Nothing
  <2>1. git.kind \in {"dir", "link"}
    BY <1>7
  <2>2. git.repo \in Repository
    BY <1>4, <2>1, WorldAssumption
  <2> QED BY <2>2, TreeAssumption
<1> QED BY <1>6, <1>8, <1>9 DEF FamilyOf, RepositoryOf

LEMMA OneRepositoryPerGroupHolds == OneRepositoryPerGroup
<1> SUFFICES ASSUME NEW w \in World, NEW roots \in Roots, NEW r \in FromFiles,
                    ~r.acrossFamilies,
                    NEW t \in Inventoried(w, roots), Told(w, t.project),
                    NEW u \in Inventoried(w, roots), Told(w, u.project)
             PROVE  GroupKey(r, t) = GroupKey(r, u) <=>
                      /\ RepositoryOf(w, t.project) = RepositoryOf(w, u.project)
                      /\ t.ecosystem = u.ecosystem
  BY DEF OneRepositoryPerGroup
<1>1. /\ FamilyOf(t) = RepositoryOf(w, t.project)
      /\ FamilyOf(u) = RepositoryOf(w, u.project)
  BY ToldFamily
<1> QED BY <1>1 DEF GroupKey

LEMMA SkippedAreLeftAloneHolds == SkippedAreLeftAlone
<1>1. ASSUME NEW w \in World, NEW roots \in Roots, NEW r \in FromFiles,
             NEW t \in Inventoried(w, roots), Told(w, t.project),
             RepositoryOf(w, t.project) \in r.skipFamilies
      PROVE  ~Keeps(r, t)
  BY <1>1, ToldFamily DEF Keeps
<1>2. ASSUME NEW w \in World, NEW roots \in Roots, NEW r \in FromFiles,
             NEW t \in Inventoried(w, roots), Told(w, t.project),
             NEW u \in Inventoried(w, roots), Told(w, u.project),
             RepositoryOf(w, u.project) = RepositoryOf(w, t.project),
             u.position = t.position, u.ecosystem = t.ecosystem
      PROVE  Keeps(r, t) <=> Keeps(r, u)
  <2>1. FamilyOf(t) = FamilyOf(u)
    BY <1>2, ToldFamily
  <2> QED BY <1>2, <2>1 DEF Keeps
<1> QED BY <1>1, <1>2 DEF SkippedAreLeftAlone

\* What git_link calls orphaned is in a checkout git has forgotten, or gone.
LEMMA OrphanIsForgottenOrGone ==
  ASSUME NEW w \in World, \A d \in Dir : w.git[d].record # "barred",
         NEW project \in Dir, GitLink(w, project).orphaned
  PROVE  Forgotten(w, project) \/ w.lstat[project] = "gone"
<1> DEFINE d == CheckoutRoot(w, project)
           git == w.git[d]
<1>1. CASE GoneWithCheckout(w, project)
  BY <1>1, GoneIsGone
<1>2. CASE ~GoneWithCheckout(w, project)
  <2>1. d # Nothing /\ git.kind # "torn" /\ git.kind # "dir" /\ git.record # "there"
    BY <1>2 DEF GitLink
  <2>2. Checkouts(w, project) # {}
    BY <2>1 DEF CheckoutRoot
  <2>3. d \in Dir /\ HasGit(w, d)
    BY <2>2, CheckoutIsThere
  <2>4. git.kind = "link" /\ git.record = "gone"
    BY <2>1, <2>3, WorldAssumption DEF HasGit, Kinds, Lstat
  <2> QED BY <2>2, <2>4 DEF Forgotten
<1> QED BY <1>1, <1>2

LEMMA OnlyForgottenAreOrphansHolds == OnlyForgottenAreOrphans
<1> SUFFICES ASSUME NEW w \in World, NEW roots \in Roots,
                    \A d \in Dir : w.git[d].record # "barred",
                    NEW t \in Inventoried(w, roots), t.orphaned
             PROVE  LET there == {p \in Workspaces(w, t) : w.lstat[p] = "there"}
                    IN  /\ (\A p, q \in there : p = q) => \A p \in there : Forgotten(w, p)
                        /\ w.lstat[t.project] = "barred" => Forgotten(w, t.project)
  BY DEF OnlyForgottenAreOrphans
<1> DEFINE there == {p \in Workspaces(w, t) : w.lstat[p] = "there"}
<1>1. PICK b \in Discover(w, roots) : t = BuildDir(w, b)
  BY DEF Inventoried
<1>2. /\ b \in Dir /\ IsBuildDir(w, b) /\ t.root = b /\ t.project = Owner(w, b)
      /\ t.project # Nothing /\ GitLink(w, t.project).orphaned
  BY <1>1 DEF BuildDir, Discover
<1>3. t.project \in Dir
  BY <1>2, OwnerType
<1>4. Forgotten(w, t.project) \/ w.lstat[t.project] = "gone"
  BY <1>2, <1>3, OrphanIsForgottenOrGone
<1>5. \A a \in Above[b] : w.lstat[a] = "there"
  <2>1. PICK root \in roots : Walked(w, root, b)
    BY DEF Discover
  <2>2. w.lstat[b] = "there"
    BY <1>2, <2>1, TreeAssumption DEF Walked, Between
  <2> QED BY <1>2, <2>2, WorldAssumption
<1>6. ASSUME \A p, q \in there : p = q, NEW p \in there
      PROVE  Forgotten(w, p)
  <2>1. CASE p = t.project
    BY <1>4, <2>1
  <2>2. CASE p # t.project
    <3>1. p \in w.named[b] /\ t.project \in w.named[b] /\ w.lstat[p] = "there"
      BY <1>2, <1>6, <2>2 DEF Workspaces
    <3>2. w.lstat[t.project] = "there"
      BY <1>2, <1>5, <3>1, OwnerIs, NamedOwnerIsNamed
    <3>3. t.project \in there
      BY <1>2, <3>1, <3>2 DEF Workspaces
    <3> QED BY <1>6, <2>2, <3>3
  <2> QED BY <2>1, <2>2
<1> QED BY <1>4, <1>6

----------------------------------------------------------------------------
(* Of a session *)

\* However the roots lie in each other, a session works on no build dir inside
\* another, unless a root was named there (src/eco/mod.rs, discover).
THEOREM FoundOnceHolds == Spec => []FoundOnce
<1>1. FoundOnce
  BY FindsEachOnceHolds DEF FoundOnce, Before
<1> QED BY <1>1, PTL

\* A group is one adapter's build dirs in one repository, as far as git's files
\* tell it (src/session.rs, run; src/inventory.rs, git_link).
THEOREM GroupsApartHold == Spec => []GroupsApart
<1>1. GroupsApart
  BY OneRepositoryPerGroupHolds DEF GroupsApart, Before
<1> QED BY <1>1, PTL

\* A build dir is given up for its checkout only if git has forgotten that
\* (src/inventory.rs, git_link; src/eco/cargo/mod.rs, owner).
THEOREM OrphansAreForgotten == Spec => []OrphansForgotten
<1>1. OrphansForgotten
  BY OnlyForgottenAreOrphansHolds DEF OrphansForgotten, Before
<1> QED BY <1>1, PTL

\* A family that is skipped is skipped in all its checkouts (src/session.rs, keeps).
THEOREM SkippedAreSpared == Spec => []SkippedLeftAlone
<1>1. SkippedLeftAlone
  BY SkippedAreLeftAloneHolds DEF SkippedLeftAlone, Before
<1> QED BY <1>1, PTL

\* The config file adds no pass that removes to those the command line names
\* (src/main.rs, request; src/session.rs, check).
THEOREM FlagsWinOverFile == Spec => []FlagsOverFile
<1>1. FlagsOverFile
  BY FlagsWinHolds DEF FlagsOverFile, Before
<1> QED BY <1>1, PTL
=============================================================================
