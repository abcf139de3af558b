------------------------------- MODULE Front -------------------------------
(***************************************************************************)
(* The session of module Session with what it decides before it takes a    *)
(* lock.  SessionRun::run (src/session.rs) first checks the request, finds *)
(* the build dirs, keeps those it may work on and puts them in groups, and *)
(* only then does what Session models; nothing of the first half is looked *)
(* at again.  So what Selection says of every world, request and set of    *)
(* roots is asked where a session starts.                                  *)
(***************************************************************************)
EXTENDS Session, Selection

Before(holds) == pc = "idle" => holds

\* However the roots lie in each other, a session works on a build dir once, and
\* on none inside another, whose lock it would not ask for (src/eco/mod.rs,
\* discover).
FoundOnce == Before(FindsEachOnce)

\* One group per repository and adapter (src/session.rs, run): a worktree git has
\* forgotten stays with the repository it was of.
GroupsApart == Before(OneRepositoryPerGroup)

\* What the orphans pass is given for a checkout that is gone is a build dir no
\* live workspace is known to use (src/inventory.rs, git_link; owner).
OrphansForgotten == Before(OnlyForgottenAreOrphans)

\* What the config file says to skip is in no session (src/session.rs, keeps).
SkippedLeftAlone == Before(SkippedAreLeftAlone)

\* Which passes may remove is said by the command line or by the config file,
\* never by both (src/main.rs, request; src/session.rs, from_config, check).
FlagsOverFile == Before(FlagsWin)

\* What does not hold, each in a configuration of its own.
SharedKept == Before(SharedOutlivesAll)
UnreadableKept == Before(UnreadableIsNotGone)
FlagTaken == Before(FlagsAlwaysWin)
=============================================================================
