-------------------------------- MODULE Seed --------------------------------
(***************************************************************************)
(* `dunnage seed` (src/seed.rs, and seed and seed_positions of             *)
(* src/session.rs): the build dirs of a checkout copied from a sibling's,  *)
(* beside builds in both and beside other sessions of the tool.            *)
(*                                                                         *)
(* A position is a place of the checkout with the sibling's build dir for  *)
(* it; its units are those of the source.  A file outside any unit is as   *)
(* one in a unit that is never listed.  An inode goes by its path: what    *)
(* the index has of an inode that left its path, nothing here looks up.    *)
(***************************************************************************)
EXTENDS Naturals

CONSTANTS
  Pos,         \* numbers, in the order of the projects' paths
  Unit,        \* numbers, in the order of their paths
  File,        \* the same names in source and copy
  PosOf,       \* [Unit -> Pos]
  UnitOf,      \* [File -> Unit]
  Unlisted,    \* units with no lock file as yet: seeded themselves, or new
  Data, Torn,  \* contents, and a file that is not whole
  Gone,        \* no file at all
  None,
  MaxWrites,   \* bounds of the model: files that builds begin to write,
  MaxSeeds,    \* seeds asked for
  MaxRuns      \* and runs of other sessions

ASSUME SeedAssumption ==
  /\ Pos \subseteq Nat /\ Unit \subseteq Nat
  /\ PosOf \in [Unit -> Pos] /\ UnitOf \in [File -> Unit]
  /\ Unlisted \subseteq Unit
  /\ Torn \notin Data /\ Gone \notin Data \cup {Torn}
  /\ None \notin File
  /\ {MaxWrites, MaxSeeds, MaxRuns} \subseteq Nat

VARIABLES
  clones,      \* whether the destination's file system shares blocks
  file,        \* [Side -> [File -> a file]]
  made,        \* positions whose build dir is in the destination
  lockFiles,   \* units of the source with a lock file
  building,    \* units of the source a build is at work in
  disk,        \* the index saved
  runLock,     \* who has the run lock
  pc,          \* where the seed is
  queue,       \* positions it has before it
  index,       \* the index it works on
  units,       \* eco.units(source) of the position under way
  held, busy,  \* those of them that are locked, and the others
  left,        \* files the walk has before it
  at, meta,    \* the file under way, and its stamp as read
  copied,      \* files of listed units the last seed copied, builds not having written since
  met,         \* files a build wrote while they were under way
  unread,      \* files of the seed whose stamp could not be read for the index
  told,        \* [File -> the version another session has told the index]
  writes, seeds, runs

world == <<clones, file, made, lockFiles, building>>
tool == <<disk, runLock>>
walk == <<units, held, busy, left, at, meta>>
job == <<pc, queue, index, walk>>
ghosts == <<copied, met, unread, told>>
counters == <<writes, seeds, runs>>
vars == <<world, tool, job, ghosts, counters>>

Side == {"source", "copy"}
FileType == [ver : Nat, data : Data \cup {Torn, Gone}]
NoEntry == [ver |-> 0, hash |-> Torn, shared |-> FALSE]
EntryType == [ver : Nat, hash : Data \cup {Torn}, shared : BOOLEAN]
NoIndex == [s \in Side |-> [f \in File |-> NoEntry]]

Place(f) == PosOf[UnitOf[f]]
UnitsAt(p) == {u \in Unit : PosOf[u] = p}
First(p, S) == p \in S /\ \A q \in S : p <= q

\* The file after a write: its mtime is another.
Written(s, f, d) ==
  file' = [file EXCEPT ![s][f] = [ver |-> @.ver + 1, data |-> d]]

\* What the index holds of a file as stamped; the entry of another version is none.
Hit(ix, s, f, ver) == ix[s][f].ver = ver /\ ver # 0

-----------------------------------------------------------------------------
(* The seed *)

\* Places of the checkout with no build dir, of those a sibling has one for.
Positions == Pos \ made

\* A checkout root gets every position; a named source, or a dir inside the
\* checkout, only the one, whether or not something is there.
Begin ==
  /\ pc = "idle" /\ seeds < MaxSeeds
  /\ \E q \in {Positions} \cup {{p} : p \in Pos} :
       q # {} /\ queue' = q
  /\ pc' = "chosen" /\ seeds' = seeds + 1
  /\ UNCHANGED <<world, tool, index, walk, ghosts, writes, runs>>

\* Mutant: the index is loaded while another session has the lock.
LockBesides ==
  /\ pc = "chosen"
  /\ UNCHANGED runLock /\ index' = disk
  /\ pc' = "next" /\ copied' = {}
  /\ UNCHANGED <<world, disk, queue, walk, met, unread, told, counters>>

\* The run lock, and only then the index.
Lock ==
  /\ pc = "chosen" /\ runLock = "free"
  /\ runLock' = "seed" /\ index' = disk
  /\ pc' = "next" /\ copied' = {}
  /\ UNCHANGED <<world, disk, queue, walk, met, unread, told, counters>>

\* The check for a build dir in the destination, and the units of the source.
Enter(p) ==
  /\ pc = "next" /\ First(p, queue) /\ p \notin made
  /\ units' = lockFiles \cap UnitsAt(p)
  /\ pc' = "locking"
  /\ UNCHANGED <<world, tool, queue, index, held, busy, left, at, meta, ghosts, counters>>

TryLock(u) ==
  /\ pc = "locking" /\ First(u, units \ (held \cup busy))
  /\ IF u \in building THEN busy' = busy \cup {u} /\ held' = held
                       ELSE held' = held \cup {u} /\ busy' = busy
  /\ UNCHANGED <<world, tool, pc, queue, index, units, left, at, meta, ghosts, counters>>

\* Mutant: only the dirs of the units are left out, not what is under them.
SkippedDirs(f) == FALSE

Skipped(f) == UnitOf[f] \in busy

\* The root comes first in the walk: the destination is there from now on.
MakeDir(p) ==
  /\ pc = "locking" /\ units = held \cup busy /\ First(p, queue)
  /\ made' = made \cup {p}
  /\ left' = {f \in File : Place(f) = p /\ ~Skipped(f)}
  /\ pc' = "walk"
  /\ UNCHANGED <<clones, file, lockFiles, building, tool, queue, index,
                 units, held, busy, at, meta, ghosts, counters>>

\* In the order of the dirs' listings, which is any.
Stat(f) ==
  /\ pc = "walk" /\ f \in left
  /\ left' = left \ {f}
  /\ IF file["source"][f].data = Gone
     THEN UNCHANGED <<pc, at, meta>>
     ELSE at' = f /\ meta' = file["source"][f].ver /\ pc' = "create"
  /\ UNCHANGED <<world, tool, queue, index, units, held, busy, ghosts, counters>>

\* clone_file and fs::copy open the destination first, and truncate what is there.
Create ==
  /\ pc = "create"
  /\ Written("copy", at, Torn)
  /\ pc' = "fill"
  /\ UNCHANGED <<clones, made, lockFiles, building, tool, queue, index, walk, ghosts, counters>>

Fill ==
  /\ pc = "fill"
  /\ Written("copy", at, file["source"][at].data)
  /\ copied' = copied \cup {f \in {at} : UnitOf[f] \in units}
  /\ pc' = "register"
  /\ UNCHANGED <<clones, made, lockFiles, building, tool, queue, index, walk, met, unread, told, counters>>

\* Mutant: whatever version of the source the index has.
KnownInode == clones /\ index["source"][at].ver # 0

\* The index is asked for the source as read before the copy.
Known == clones /\ Hit(index, "source", at, meta)

\* Mutant: only the copy is marked.
RegisteredCopy(ix) ==
  [ix EXCEPT !["copy"][at] = [ver |-> file["copy"][at].ver,
                              hash |-> ix["source"][at].hash, shared |-> TRUE]]

\* Its hash goes to the copy as it is now.
Registered(ix) ==
  [ix EXCEPT !["source"][at].shared = TRUE,
             !["copy"][at] = [ver |-> file["copy"][at].ver,
                              hash |-> ix["source"][at].hash, shared |-> TRUE]]

\* The source is marked before the copy is read.
SourceMarked(ix) == [ix EXCEPT !["source"][at].shared = TRUE]

\* A stamp that cannot be read is passed over, and the seed goes on: without that
\* of the source nothing is told, without that of the copy the source is marked.
Register ==
  /\ pc = "register"
  /\ \/ /\ index' = IF Known THEN Registered(index) ELSE index
        /\ unread' = unread \ {at}
     \/ /\ index' \in {index} \cup (IF Known THEN {SourceMarked(index)} ELSE {})
        /\ unread' = unread \cup {at}
  /\ at' = None /\ meta' = 0 /\ pc' = "walk"
  /\ UNCHANGED <<world, tool, queue, units, held, busy, left, copied, met, told, counters>>

\* Mutant: the units held stay on the list.
LeavePositionHeld ==
  /\ units' = {} /\ UNCHANGED held /\ busy' = {} /\ left' = {} /\ at' = None /\ meta' = 0

\* The locks go with the end of the position.
LeavePosition ==
  /\ units' = {} /\ held' = {} /\ busy' = {} /\ left' = {} /\ at' = None /\ meta' = 0

Leave(p) ==
  /\ pc = "walk" /\ left = {} /\ First(p, queue)
  /\ LeavePosition
  /\ queue' = queue \ {p}
  /\ pc' = IF queue = {p} THEN "save" ELSE "next"
  /\ UNCHANGED <<world, tool, index, ghosts, counters>>

End ==
  /\ LeavePosition
  /\ queue' = {} /\ index' = NoIndex /\ unread' = {} /\ pc' = "idle"
  /\ runLock' = IF runLock = "seed" THEN "free" ELSE runLock

Save ==
  /\ pc = "save"
  /\ disk' = index
  /\ End
  /\ UNCHANGED <<world, copied, met, told, counters>>

\* The run lock is taken, the destination is there, a call fails, or a kill:
\* all is let go and nothing saved, wherever the seed was.
GiveUp ==
  /\ pc # "idle"
  /\ End
  /\ UNCHANGED <<world, disk, copied, met, told, counters>>

SeedStep ==
  \/ Begin \/ Lock
  \/ \E p \in Pos : Enter(p) \/ MakeDir(p) \/ Leave(p)
  \/ \E u \in Unit : TryLock(u)
  \/ \E f \in File : Stat(f)
  \/ Create \/ Fill \/ Register \/ Save \/ GiveUp

-----------------------------------------------------------------------------
(* Builds, users, and other sessions *)

\* A build makes the lock file where there is none.
StartBuild(u) ==
  /\ u \notin building \cup held
  /\ building' = building \cup {u}
  /\ lockFiles' = lockFiles \cup {u}
  /\ UNCHANGED <<clones, file, made, tool, job, ghosts, counters>>

\* What the seed has read of the file, and has not used yet, is out of date.
Meets(f, when) == met' = IF f = at /\ pc \in when THEN met \cup {f} ELSE met

Open(f) ==
  /\ UnitOf[f] \in building /\ writes < MaxWrites
  /\ file["source"][f].data # Torn
  /\ Written("source", f, Torn)
  /\ writes' = writes + 1
  /\ Meets(f, {"create", "fill"})
  /\ UNCHANGED <<clones, made, lockFiles, building, tool, job, copied, unread, told, seeds, runs>>

Close(f) ==
  /\ UnitOf[f] \in building /\ file["source"][f].data = Torn
  /\ \E d \in Data : Written("source", f, d)
  /\ Meets(f, {"create", "fill"})
  /\ UNCHANGED <<clones, made, lockFiles, building, tool, job, copied, unread, told, counters>>

EndBuild(u) ==
  /\ u \in building
  /\ \A f \in File : UnitOf[f] = u => file["source"][f].data # Torn
  /\ building' = building \ {u}
  /\ UNCHANGED <<clones, file, made, lockFiles, tool, job, ghosts, counters>>

\* A build in the new checkout: nothing the seed holds keeps it out.
BuildCopy(f) ==
  /\ writes < MaxWrites
  /\ \E d \in Data : Written("copy", f, d)
  /\ made' = made \cup {Place(f)}
  /\ writes' = writes + 1
  /\ copied' = copied \ {f}
  /\ Meets(f, {"register"})
  /\ UNCHANGED <<clones, lockFiles, building, tool, job, unread, told, seeds, runs>>

\* The user gets rid of what is in the new checkout, to seed it again.
RemoveCopy(p) ==
  /\ p \in made /\ pc = "idle"
  /\ made' = made \ {p}
  /\ file' = [file EXCEPT !["copy"] =
       [f \in File |-> [file["copy"][f] EXCEPT !.data = IF Place(f) = p THEN Gone ELSE @]]]
  /\ copied' = {f \in copied : Place(f) # p}
  /\ UNCHANGED <<clones, lockFiles, building, tool, job, met, unread, told, counters>>

\* Another session: under the run lock, and the lock of the unit, it shares a
\* file of the source and tells the index.
RunBegins ==
  /\ runLock = "free" /\ runs < MaxRuns
  /\ runLock' = "run" /\ runs' = runs + 1
  /\ UNCHANGED <<world, disk, job, ghosts, writes, seeds>>

RunEnds(f) ==
  /\ runLock = "run"
  /\ UnitOf[f] \in lockFiles \ building /\ file["source"][f].data \in Data
  /\ Written("source", f, file["source"][f].data)
  /\ LET ver == file["source"][f].ver + 1 IN
     /\ disk' = [disk EXCEPT !["source"][f] =
                   [ver |-> ver, hash |-> file["source"][f].data, shared |-> TRUE]]
     /\ told' = [told EXCEPT ![f] = ver]
  /\ runLock' = "free"
  /\ UNCHANGED <<clones, made, lockFiles, building, job, copied, met, unread, counters>>

RunGivesUp ==
  /\ runLock = "run" /\ runLock' = "free"
  /\ UNCHANGED <<world, disk, job, ghosts, counters>>

Others ==
  \/ \E u \in Unit : StartBuild(u) \/ EndBuild(u)
  \/ \E f \in File : Open(f) \/ Close(f) \/ BuildCopy(f) \/ RunEnds(f)
  \/ \E p \in Pos : RemoveCopy(p)
  \/ RunBegins \/ RunGivesUp

\* What the index knows at first it has right.  A unit with no lock file holds
\* what was seeded there, or nothing yet.
Init ==
  /\ clones \in BOOLEAN
  /\ \E d \in Data, new \in SUBSET {f \in File : UnitOf[f] \in Unlisted} :
     \E known \in SUBSET (File \ new) :
       /\ file = [s \in Side |-> [f \in File |->
            IF s = "source" /\ f \notin new THEN [ver |-> 1, data |-> d]
                                           ELSE [ver |-> 0, data |-> Gone]]]
       /\ disk = [NoIndex EXCEPT !["source"] = [f \in File |->
            IF f \in known THEN [ver |-> 1, hash |-> d, shared |-> FALSE] ELSE NoEntry]]
  /\ made = {} /\ lockFiles = Unit \ Unlisted /\ building = {}
  /\ runLock = "free" /\ pc = "idle" /\ queue = {} /\ index = NoIndex
  /\ units = {} /\ held = {} /\ busy = {} /\ left = {} /\ at = None /\ meta = 0
  /\ copied = {} /\ met = {} /\ unread = {} /\ told = [f \in File |-> 0]
  /\ writes = 0 /\ seeds = 0 /\ runs = 0

Next == SeedStep \/ Others

Spec == Init /\ [][Next]_vars

-----------------------------------------------------------------------------
(* What the code promises *)

\* The state has its shape.
TypeOK ==
  /\ clones \in BOOLEAN
  /\ file \in [Side -> [File -> FileType]]
  /\ made \subseteq Pos /\ lockFiles \subseteq Unit /\ building \subseteq Unit
  /\ disk \in [Side -> [File -> EntryType]] /\ index \in [Side -> [File -> EntryType]]
  /\ runLock \in {"free", "seed", "run"}
  /\ pc \in {"idle", "chosen", "next", "locking", "walk", "create", "fill", "register", "save"}
  /\ queue \subseteq Pos
  /\ units \subseteq Unit /\ held \subseteq units /\ busy \subseteq units
  /\ left \subseteq File /\ meta \in Nat
  /\ at \in File \cup {None}
  /\ copied \subseteq File /\ met \subseteq File /\ unread \subseteq File /\ told \in [File -> Nat]
  /\ writes \in Nat /\ seeds \in Nat /\ runs \in Nat

Walking == pc \in {"walk", "create", "fill", "register"}

\* A build has the lock of a unit, or the seed; only a build leaves a file torn.
BuildInv ==
  /\ held \cap building = {}
  /\ \A f \in File : file["source"][f].data = Torn => UnitOf[f] \in building

\* The walk is of the first position, with every unit of it tried, and leaves
\* busy ones out.
WalkInv ==
  /\ at \in File <=> pc \in {"create", "fill", "register"}
  /\ Walking => units = held \cup busy
  /\ ~Walking => left = {}
  /\ ~Walking /\ pc # "locking" => units = {}
  /\ \A u \in units : First(PosOf[u], queue)
  /\ \A f \in File : f \in left \/ f = at => First(Place(f), queue) /\ ~Skipped(f)
  /\ at \notin left

\* What the seed has copied it does not come to again.
OnceInv ==
  pc \notin {"idle", "chosen"} =>
    \A f \in copied : Place(f) \in queue =>
      /\ Walking /\ First(Place(f), queue) /\ f \notin left
      /\ f = at => pc = "register"

\* What was copied of a unit the seed found is whole, and as long as the locks
\* are held it is what the unit holds, every file at one moment; nothing of a
\* unit that a build held is among it (seed.rs, "a build writing into the
\* source would otherwise be copied half way").
CopiesAgree ==
  \A f \in copied :
    /\ file["copy"][f].data # Torn
    /\ UnitOf[f] \notin busy
    /\ UnitOf[f] \in held => file["copy"][f].data = file["source"][f].data

\* The inductive invariant of the proofs: CopiesAgree, and what it rests on,
\* that the locks are held from the listing of the units to the end of the walk.
Inv == TypeOK /\ BuildInv /\ WalkInv /\ OnceInv /\ CopiesAgree

SoundIn(ix) ==
  \A s \in Side, f \in File :
    LET now == file[s][f] IN
      now.data # Gone /\ ix[s][f].ver = now.ver /\ f \notin met => ix[s][f].hash = now.data

\* No entry of the index, saved or not, lies about a file it is hit by: a copy
\* that inherits a hash holds those bytes.  A file a build wrote in the middle
\* of its copy is the exception, and a listed unit has none on the source's side.
IndexSound == SoundIn(index) /\ SoundIn(disk)

KeptIn(ix) ==
  \A f \in File :
    told[f] # 0 /\ told[f] = file["source"][f].ver =>
      ix["source"][f] = [ver |-> told[f], hash |-> file["source"][f].data, shared |-> TRUE]

\* What another session has told the index of a file as it is now, is in the
\* saved index: no two sessions write it over each other (session.rs, lock).
IndexKept == KeptIn(disk)

\* Whoever has the run lock works on the index last saved: what a seed has
\* loaded, no other session goes beyond before it saves.
LockInv ==
  /\ runLock = "seed" <=> pc \notin {"idle", "chosen"}
  /\ runLock = "seed" => KeptIn(index)
  /\ \A f \in File : told[f] <= file["source"][f].ver

\* Both sides of a copy are marked, where the index knows the source as it is.  A
\* copy that could not be read is unknown to it, under whatever it had there.
PairTold(f) ==
  IF f \in unread
  THEN index["copy"][f].ver # file["copy"][f].ver
  ELSE Hit(index, "source", f, file["source"][f].ver) =>
         /\ index["source"][f].shared
         /\ index["copy"][f] = [index["source"][f] EXCEPT !.ver = file["copy"][f].ver]

\* When a seed comes to save, a copy whose source the index knows is in it too,
\* with its hash, and both are marked: the next dedupe leaves the pair alone
\* (seed.rs, seed and register).  A copy whose stamp could not be read has no
\* entry it would hit, and at most its source is marked.
MarkedTogether ==
  pc = "save" /\ clones => \A f \in copied \ met : PairTold(f)

\* Nothing is known of a file beyond what it is.
BoundIn(ix) == \A s \in Side, f \in File : ix[s][f].ver <= file[s][f].ver

\* What IndexSound rests on: a write moves a file past all that is known of it, and
\* a file no build met is, while it is copied, the one that was read.
IndexInv ==
  /\ \A s \in Side, f \in File : file[s][f].ver = 0 => file[s][f].data = Gone
  /\ BoundIn(index) /\ BoundIn(disk)
  /\ pc \in {"create", "fill"} =>
       /\ file["source"][at].data # Gone
       /\ at \notin met => file["source"][at].ver = meta
  /\ pc = "register" /\ at \notin met =>
       /\ index["source"][at].ver <= meta /\ meta <= file["source"][at].ver
       /\ Hit(index, "source", at, meta) => index["source"][at].hash = file["copy"][at].data

\* What MarkedTogether rests on: a copied file is marked once it is registered, and
\* not copied again; the index knows nothing of a copy just made.
MarkInv ==
  pc \notin {"idle", "chosen"} /\ clones =>
    /\ \A f \in copied \ met : f # at => PairTold(f)
    /\ pc \in {"fill", "register"} => index["copy"][at].ver < file["copy"][at].ver
=============================================================================
