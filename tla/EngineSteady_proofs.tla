------------------------- MODULE EngineSteady_proofs -------------------------
(***************************************************************************)
(* What holds of a run of the engine on a steady device: one where inode   *)
(* numbers do not come back, builds lock their units, and none writes      *)
(* through a name into another unit.  There the hash index tells the truth *)
(* and a run is invisible to builds; and one that nothing disturbs shares  *)
(* all there is to share.                                                  *)
(***************************************************************************)
EXTENDS Engine_proofs

----------------------------------------------------------------------------
(* Steps that a build, or the index, could notice, and those they cannot *)

\* What each path reads stays, but for an mtime that linking moves forward.
Unseen ==
  \A p \in Path :
    /\ name'[p] = None <=> name[p] = None
    /\ name[p] # None =>
         /\ file'[name'[p]].data = file[name[p]].data
         /\ file'[name'[p]].mode = file[name[p]].mode
         /\ file[name[p]].mtime <= file'[name'[p]].mtime
         /\ device.how # "Link" => file'[name'[p]].mtime = file[name[p]].mtime

\* An inode that is known of gets no older, and other bytes only with the time of now.
Aged ==
  \A i \in Ino : Known(i) /\ file'[i] # None =>
    /\ file[i] # None
    /\ file[i].mtime <= file'[i].mtime
    /\ file'[i].mode = file[i].mode
    /\ file'[i].data = file[i].data \/ file'[i].mtime = clock

\* The paths of the scan read what they did.
ReadsOn ==
  \A m \in scan : \A p \in m.paths :
    name'[p] # None => name[p] # None /\ file'[name'[p]].data = file[name[p]].data

LEMMA FileFacts ==
  ASSUME TypeOK, NEW i \in Ino, file[i] # None
  PROVE  /\ file[i] \in FileType /\ file[i].mtime \in Nat /\ file[i].mtime <= clock
         /\ file[i].data \in Data /\ file[i].mode \in Mode
BY DEF TypeOK, FileType

LEMMA NameFacts ==
  ASSUME TypeOK, LiveInv, NEW p \in Path
  PROVE  /\ name[p] # None => /\ name[p] \in Ino /\ file[name[p]] # None /\ file[name[p]] \in FileType
                              /\ Stamp(p) = [ino |-> name[p], mtime |-> file[name[p]].mtime]
                              /\ Bytes(p) = file[name[p]].data
         /\ temp[p] # None => temp[p] \in Ino /\ file[temp[p]] # None /\ file[temp[p]] \in FileType
BY DEF TypeOK, LiveInv, Stamp, Bytes

\* A path that reads a stamp has its inode, as it was then.
LEMMA StampReads ==
  ASSUME TypeOK, LiveInv, NEW p \in Path, NEW s \in StampType, Stamp(p) = s
  PROVE  /\ name[p] = s.ino /\ name[p] # None /\ s.ino \in Ino
         /\ file[s.ino] # None /\ file[s.ino].mtime = s.mtime /\ Is(s)
<1>1. s.ino \in Ino /\ s.ino # None
  BY NoneIsNone DEF StampType
<1>2. name[p] # None
  BY <1>1 DEF Stamp, NoStamp
<1>3. s.ino = name[p] /\ s.mtime = file[name[p]].mtime
  BY <1>2 DEF Stamp
<1> QED BY <1>1, <1>2, <1>3, NameFacts DEF Is

LEMMA NewInoUnknown ==
  ASSUME ~device.reuses, NEW i \in NewIno
  PROVE  ~Known(i)
BY DEF NewIno, Remembered, Known

\* The invariant, in its parts.
SteadyParts ==
  /\ UnitInv
  /\ EntryInv(disk) /\ EntryInv(index) /\ StampInv
  /\ ReadInv /\ PairInv /\ StagedInv /\ JobInv
  /\ NoForeignBytes

LEMMA PartsAreSteadyInv == SteadyInv <=> (Steady => SteadyParts)
BY DEF SteadyInv, SteadyParts

\* What reads as an old stamp has not changed in the step.
LEMMA StillIs ==
  ASSUME IInv, StampInv, Aged, NEW m \in scan, m.stamp.mtime < clock, Is(m.stamp)'
  PROVE  Is(m.stamp) /\ file'[m.stamp.ino].data = file[m.stamp.ino].data
<1> DEFINE i == m.stamp.ino
<1>1. i \in Ino /\ m.stamp.mtime \in Nat
  BY MemberFacts DEF IInv
<1>2. file'[i] # None /\ file'[i].mtime = m.stamp.mtime
  BY DEF Is
<1>3. Known(i)
  BY DEF Known
<1>4. /\ file[i] # None /\ file[i].mtime <= file'[i].mtime
      /\ file'[i].data = file[i].data \/ file'[i].mtime = clock
  BY <1>1, <1>2, <1>3 DEF Aged
<1>5. m.stamp.mtime <= file[i].mtime
  BY <1>4 DEF StampInv
<1>6. file[i].mtime \in Nat /\ clock \in Nat
  BY <1>1, <1>4, FileFacts DEF IInv, TypeOK
<1>7. file[i].mtime = m.stamp.mtime
  BY <1>1, <1>2, <1>4, <1>5, <1>6
<1>8. file'[i].data = file[i].data
  BY <1>1, <1>2, <1>4, <1>6
<1> QED BY <1>4, <1>7, <1>8 DEF Is

\* An index true before is true after.
LEMMA EntriesAge ==
  ASSUME IInv, TypeOK', Aged, clock' = clock,
         NEW ix \in [Ino -> EntryType \cup {None}], EntryInv(ix),
         \A i \in Ino : ix[i] # None => Known(i)
  PROVE  \A i \in Ino : ix[i] # None =>
           /\ ix[i].mtime < clock'
           /\ file'[i] # None =>
                /\ ix[i].mtime <= file'[i].mtime
                /\ ix[i].mtime = file'[i].mtime => ix[i].hash = file'[i].data
<1> SUFFICES ASSUME NEW i \in Ino, ix[i] # None
             PROVE  /\ ix[i].mtime < clock
                    /\ file'[i] # None =>
                         /\ ix[i].mtime <= file'[i].mtime
                         /\ ix[i].mtime = file'[i].mtime => ix[i].hash = file'[i].data
  OBVIOUS
<1>1. ix[i].mtime < clock /\ ix[i].mtime \in Nat /\ clock \in Nat
  BY DEF EntryInv, EntryType, IInv, TypeOK
<1>2. ASSUME file'[i] # None
      PROVE  /\ ix[i].mtime <= file'[i].mtime
             /\ ix[i].mtime = file'[i].mtime => ix[i].hash = file'[i].data
  <2>1. /\ file[i] # None /\ file[i].mtime <= file'[i].mtime
        /\ file'[i].data = file[i].data \/ file'[i].mtime = clock
    BY <1>2 DEF Aged
  <2>2. /\ ix[i].mtime <= file[i].mtime
        /\ ix[i].mtime = file[i].mtime => ix[i].hash = file[i].data
    BY <2>1 DEF EntryInv
  <2>3. file[i].mtime \in Nat
    BY <2>1, FileFacts DEF IInv
  <2>4. file'[i].mtime \in Nat
    <3>1. file'[i] \in FileType
      BY <1>2 DEF TypeOK
    <3> QED BY <3>1 DEF FileType
  <2> QED BY <1>1, <2>1, <2>2, <2>3, <2>4
<1> QED BY <1>1, <1>2

\* What is known stays true, as long as no step takes the known back in time and the
\* paths of the scan read on.
LEMMA KnownStaysTrue ==
  ASSUME IInv, TypeOK', SteadyParts, Aged, ReadsOn,
         UNCHANGED <<device, clock, disk, index, scan, pass>>,
         pass = "dedupe" => Acting' \subseteq Acting
  PROVE  EntryInv(disk)' /\ EntryInv(index)' /\ StampInv' /\ ReadInv' /\ PairInv'
<1>1. TypeOK /\ ScanInv
  BY DEF IInv
<1>2. EntryInv(disk)'
  <2>1. disk \in [Ino -> EntryType \cup {None}] /\ EntryInv(disk) /\ \A i \in Ino : disk[i] # None => Known(i)
    BY <1>1 DEF TypeOK, SteadyParts, Known
  <2>2. \A i \in Ino : disk[i] # None =>
          /\ disk[i].mtime < clock'
          /\ file'[i] # None => /\ disk[i].mtime <= file'[i].mtime
                                /\ disk[i].mtime = file'[i].mtime => disk[i].hash = file'[i].data
    BY <2>1, EntriesAge
  <2> QED BY <2>2 DEF EntryInv
<1>3. EntryInv(index)'
  <2>1. index \in [Ino -> EntryType \cup {None}] /\ EntryInv(index) /\ \A i \in Ino : index[i] # None => Known(i)
    BY <1>1 DEF TypeOK, SteadyParts, Known
  <2>2. \A i \in Ino : index[i] # None =>
          /\ index[i].mtime < clock'
          /\ file'[i] # None => /\ index[i].mtime <= file'[i].mtime
                                /\ index[i].mtime = file'[i].mtime => index[i].hash = file'[i].data
    BY <2>1, EntriesAge
  <2> QED BY <2>2 DEF EntryInv
<1>4. StampInv'
  <2> SUFFICES ASSUME NEW m \in scan, file'[m.stamp.ino] # None
               PROVE  m.stamp.mtime <= file'[m.stamp.ino].mtime /\ file'[m.stamp.ino].mode = m.mode
    BY DEF StampInv
  <2> DEFINE i == m.stamp.ino
  <2>1. i \in Ino /\ m.stamp.mtime \in Nat
    BY <1>1, MemberFacts
  <2>2. file[i] # None /\ file[i].mtime <= file'[i].mtime /\ file'[i].mode = file[i].mode
    BY <2>1 DEF Aged, Known
  <2>3. m.stamp.mtime <= file[i].mtime /\ file[i].mode = m.mode
    BY <2>2 DEF SteadyParts, StampInv
  <2>4. file[i].mtime \in Nat
    BY <1>1, <2>1, <2>2, FileFacts
  <2>5. file'[i].mtime \in Nat
    <3>1. file'[i] \in FileType
      BY <2>1 DEF TypeOK
    <3> QED BY <3>1 DEF FileType
  <2> QED BY <2>1, <2>2, <2>3, <2>4, <2>5
<1>5. ReadInv'
  <2> SUFFICES ASSUME NEW m \in scan, NEW p \in m.paths,
                      m.stamp.mtime < clock, Is(m.stamp)', name'[p] # None
               PROVE  file'[name'[p]].data = file'[m.stamp.ino].data
    BY DEF ReadInv, Bytes
  <2>1. Is(m.stamp) /\ file'[m.stamp.ino].data = file[m.stamp.ino].data
    BY StillIs DEF SteadyParts
  <2>2. name[p] # None /\ file'[name'[p]].data = file[name[p]].data
    BY DEF ReadsOn
  <2>3. Bytes(p) = file[m.stamp.ino].data
    BY <2>1, <2>2 DEF SteadyParts, ReadInv
  <2> QED BY <2>1, <2>2, <2>3 DEF Bytes
<1>6. PairInv'
  <2> SUFFICES ASSUME pass = "dedupe", NEW a \in Acting', Is(a.source_stamp)', Is(a.member.stamp)'
               PROVE  file'[a.source_stamp.ino].data = file'[a.member.stamp.ino].data
    BY DEF PairInv
  <2>1. PICK c \in scan : c.stamp.mtime < clock /\ a.source_stamp = c.stamp
    BY <1>1 DEF ScanInv
  <2>2. a.member \in scan /\ a.member.stamp.mtime < clock
    BY <1>1 DEF ScanInv
  <2>3. Is(c.stamp)'
    BY <2>1 DEF Is
  <2>4. Is(c.stamp) /\ file'[c.stamp.ino].data = file[c.stamp.ino].data
    BY <2>1, <2>3, StillIs DEF SteadyParts
  <2>5. Is(a.member.stamp) /\ file'[a.member.stamp.ino].data = file[a.member.stamp.ino].data
    BY <2>2, StillIs DEF SteadyParts
  <2>6. file[c.stamp.ino].data = file[a.member.stamp.ino].data
    BY <2>1, <2>4, <2>5 DEF SteadyParts, PairInv
  <2> QED BY <2>1, <2>4, <2>5, <2>6
<1> QED BY <1>2, <1>3, <1>4, <1>5, <1>6

\* A step of the run that no reader sees keeps every path's bytes its own.
LEMMA UnseenReads ==
  ASSUME IInv, SteadyParts, Unseen
  PROVE  ReadsOn /\ (written' = written => NoForeignBytes')
<1>1. ReadsOn
  <2>1. \A m \in scan : m.paths \subseteq Path
    BY MemberFacts DEF IInv
  <2> QED BY <2>1 DEF ReadsOn, Unseen
<1>2. ASSUME written' = written
      PROVE  NoForeignBytes'
  BY <1>2 DEF Unseen, SteadyParts, NoForeignBytes, Bytes
<1> QED BY <1>1, <1>2

\* Files that stay, or go with their last name.
LEMMA StayingAges ==
  ASSUME IInv, \A i \in Ino : Known(i) => file'[i] \in {file[i], None}
  PROVE  Aged
<1> SUFFICES ASSUME NEW i \in Ino, Known(i), file'[i] # None
             PROVE  /\ file[i] # None /\ file[i].mtime <= file'[i].mtime
                    /\ file'[i].mode = file[i].mode
                    /\ file'[i].data = file[i].data \/ file'[i].mtime = clock
  BY DEF Aged
<1>1. file'[i] = file[i]
  OBVIOUS
<1>2. file[i].mtime \in Nat
  BY <1>1, FileFacts DEF IInv
<1> QED BY <1>1, <1>2

LEMMA SameFilesUnseen ==
  ASSUME IInv, name' = name,
         \A q \in Path : name[q] # None => file'[name[q]] = file[name[q]]
  PROVE  Unseen
<1> SUFFICES ASSUME NEW p \in Path, name[p] # None
             PROVE  file[name[p]].mtime <= file[name[p]].mtime
  BY DEF Unseen
<1>1. file[name[p]].mtime \in Nat
  BY NameFacts DEF IInv, FileType
<1> QED BY <1>1

----------------------------------------------------------------------------
(* Steps that touch no file *)

LEMMA StillFiles ==
  ASSUME IInv, UNCHANGED fsVars
  PROVE  Aged /\ Unseen
<1>1. name' = name /\ file' = file
  BY DEF fsVars
<1>2. Aged
  BY <1>1, StayingAges
<1>3. Unseen
  BY <1>1, SameFilesUnseen
<1> QED BY <1>2, <1>3

\* The steps between the work of two groups: what is staged may become less, what is
\* planned too, and no group is at work after.
LEMMA QuietStep ==
  ASSUME IInv, IInv', SteadyParts, UNCHANGED fsVars,
         UNCHANGED <<device, clock, written, disk, index, scan, pass>>,
         Acting' \subseteq Acting, Staged' \subseteq Staged, job' = None
  PROVE  SteadyParts' /\ Unseen
<1>1. Aged /\ Unseen
  BY StillFiles
<1>2. EntryInv(disk)' /\ EntryInv(index)' /\ StampInv' /\ ReadInv' /\ PairInv'
  BY <1>1, UnseenReads, KnownStaysTrue DEF IInv
<1>3. NoForeignBytes'
  BY <1>1, UnseenReads
<1>4. UnitInv'
  BY DEF SteadyParts, UnitInv, fsVars
<1>5. StagedInv'
  <2>1. \A i \in Ino : Known(i)' = Known(i)
    BY DEF Known
  <2> SUFFICES ASSUME NEW m \in Staged
               PROVE  LET i == temp[Min(m.paths)] IN
                      ~Known(i)' /\ (Is(m.stamp)' => file'[i].data = file'[m.stamp.ino].data)
    BY DEF StagedInv, fsVars
  <2> QED BY DEF SteadyParts, StagedInv, Known, Is, fsVars
<1>6. JobInv'
  BY DEF JobInv
<1> QED BY <1>1, <1>2, <1>3, <1>4, <1>5, <1>6 DEF SteadyParts

\* The steps that begin and end a run, or a pass: nothing is planned, staged or swapped
\* in after.
LEMMA RestingStep ==
  ASSUME IInv, SteadyParts, UNCHANGED fsVars, UNCHANGED <<device, written>>,
         EntryInv(disk)', EntryInv(index)', StampInv', ReadInv',
         plan' = {}, batch' = {}, job' = None
  PROVE  SteadyParts' /\ Unseen
<1>1. Acting' = {} /\ Staged' = {}
  BY DEF Acting, Staged
<1>2. NoForeignBytes'
  BY StillFiles, UnseenReads
<1>3. UnitInv'
  BY DEF SteadyParts, UnitInv, fsVars
<1>4. PairInv' /\ StagedInv' /\ JobInv'
  BY <1>1 DEF PairInv, StagedInv, JobInv
<1> QED BY StillFiles, <1>2, <1>3, <1>4 DEF SteadyParts

LEMMA BeginSteady ==
  ASSUME IInv, SteadyParts, NEW units \in SUBSET Unit, Begin(units)
  PROVE  SteadyParts' /\ Unseen
<1>1. /\ pc = "idle" /\ scan' = Scan(units) /\ index' = disk
      /\ UNCHANGED fsVars /\ UNCHANGED <<device, written, clock, disk, plan, batch, job>>
  BY DEF Begin, outside
<1>2. plan' = {} /\ batch' = {} /\ job' = None
  BY <1>1 DEF IInv, PcInv
<1>3. name' = name /\ file' = file
  BY <1>1 DEF fsVars
<1>4. EntryInv(disk)' /\ EntryInv(index)'
  BY <1>1, <1>3 DEF SteadyParts, EntryInv
<1>5. \A m \in Scan(units) :
        /\ m \in MemberType
        /\ file[m.stamp.ino] # None /\ m.stamp.mtime = file[m.stamp.ino].mtime
        /\ m.mode = file[m.stamp.ino].mode
        /\ \A p \in m.paths : name[p] = m.stamp.ino
  BY ScanHolds DEF IInv
<1>6. \A m \in Scan(units) : m.stamp.mtime \in Nat
  BY <1>5 DEF MemberType, StampType
<1>7. StampInv'
  BY <1>1, <1>3, <1>5, <1>6 DEF StampInv
<1>8. ReadInv'
  BY <1>1, <1>3, <1>5 DEF ReadInv, Bytes
<1> QED BY <1>1, <1>2, <1>4, <1>7, <1>8, RestingStep

LEMMA EndPassSteady == ASSUME IInv, SteadyParts, EndPass PROVE SteadyParts' /\ Unseen
<1>1. /\ pc = "act" /\ plan' = {} /\ batch' = {} /\ scan' \in {scan, Scan(locked)}
      /\ UNCHANGED fsVars /\ UNCHANGED <<device, written, clock, disk, index, job>>
  BY DEF EndPass, outside
<1>2. job' = None
  BY <1>1 DEF IInv, PcInv
<1>3. name' = name /\ file' = file
  BY <1>1 DEF fsVars
<1>4. EntryInv(disk)' /\ EntryInv(index)'
  BY <1>1, <1>3 DEF SteadyParts, EntryInv
<1>5. \A m \in Scan(locked) :
        /\ m \in MemberType
        /\ file[m.stamp.ino] # None /\ m.stamp.mtime = file[m.stamp.ino].mtime
        /\ m.mode = file[m.stamp.ino].mode
        /\ \A p \in m.paths : name[p] = m.stamp.ino
  BY ScanHolds DEF IInv, TypeOK
<1>6. \A m \in Scan(locked) : m.stamp.mtime \in Nat
  BY <1>5 DEF MemberType, StampType
<1>7. StampInv'
  BY <1>1, <1>3, <1>5, <1>6 DEF SteadyParts, StampInv
<1>8. ReadInv'
  <2>1. CASE scan' = scan
    BY <1>1, <1>3, <2>1 DEF SteadyParts, ReadInv, Bytes, Is
  <2>2. CASE scan' = Scan(locked)
    BY <1>1, <1>3, <1>5, <2>2 DEF ReadInv, Bytes
  <2> QED BY <1>1, <2>1, <2>2
<1> QED BY <1>1, <1>2, <1>4, <1>7, <1>8, RestingStep

\* A scan that is let go of has nothing to be wrong about.
LEMMA NoScanHolds == ASSUME scan' = {} PROVE StampInv' /\ ReadInv'
BY DEF StampInv, ReadInv

LEMMA ReleaseSteady == ASSUME IInv, SteadyParts, Release PROVE SteadyParts' /\ Unseen
<1>1. /\ pc = "release" /\ scan' = {}
      /\ UNCHANGED fsVars /\ UNCHANGED <<device, written, clock, disk, index, plan, batch, job>>
  BY DEF Release, outside
<1>2. plan' = {} /\ batch' = {} /\ job' = None
  BY <1>1 DEF IInv, PcInv, Staged
<1>3. EntryInv(disk)' /\ EntryInv(index)'
  BY <1>1 DEF SteadyParts, EntryInv, fsVars
<1> QED BY <1>1, <1>2, <1>3, NoScanHolds, RestingStep

LEMMA SaveSteady == ASSUME IInv, Steady, SteadyParts, Save PROVE SteadyParts' /\ Unseen
<1>1. /\ pc = "save" /\ disk' = Live(index) /\ index' = NoIndex
      /\ UNCHANGED fsVars /\ UNCHANGED <<device, written, clock, scan, plan, batch, job>>
  BY DEF Save, outside, Steady
<1>2. plan' = {} /\ batch' = {} /\ job' = None /\ scan' = {}
  BY <1>1 DEF IInv, PcInv, Staged
<1>3. \A i \in Ino : Live(index)[i] \in {index[i], None}
  BY DEF Live
<1>4. EntryInv(disk)'
  BY <1>1, <1>3 DEF SteadyParts, EntryInv, fsVars
<1>5. EntryInv(index)'
  BY <1>1 DEF EntryInv, NoIndex
<1> QED BY <1>1, <1>2, <1>4, <1>5, NoScanHolds, RestingStep

LEMMA LostSteady ==
  ASSUME IInv, SteadyParts, Lost, UNCHANGED fsVars, UNCHANGED <<device, written, clock>>
  PROVE  SteadyParts' /\ Unseen
<1>1. plan' = {} /\ batch' = {} /\ job' = None /\ scan' = {} /\ index' = NoIndex /\ disk' = disk
  BY DEF Lost
<1>2. EntryInv(disk)'
  BY <1>1 DEF SteadyParts, EntryInv, fsVars
<1>3. EntryInv(index)'
  BY <1>1 DEF EntryInv, NoIndex
<1> QED BY <1>1, <1>2, <1>3, NoScanHolds, RestingStep

LEMMA TickSteady == ASSUME IInv, SteadyParts, Tick PROVE SteadyParts' /\ Unseen
<1>1. /\ pc = "idle" /\ clock' = clock + 1
      /\ UNCHANGED fsVars /\ UNCHANGED <<device, written, disk, index, scan, plan, batch, job>>
  BY DEF Tick, runVars
<1>2. plan' = {} /\ batch' = {} /\ job' = None /\ scan' = {}
  BY <1>1 DEF IInv, PcInv, Staged
<1>3. \A i \in Ino : /\ disk[i] # None => disk[i].mtime \in Nat
                     /\ index[i] # None => index[i].mtime \in Nat
  BY DEF IInv, TypeOK, EntryType
<1>4. clock \in Nat
  BY DEF IInv, TypeOK
<1>5. EntryInv(disk)'
  BY <1>1, <1>3, <1>4 DEF SteadyParts, EntryInv, fsVars
<1>6. EntryInv(index)'
  BY <1>1, <1>3, <1>4 DEF SteadyParts, EntryInv, fsVars
<1> QED BY <1>1, <1>2, <1>5, <1>6, NoScanHolds, RestingStep

\* Hashes are read from the paths of the scan: what they say is so.
LEMMA PlanSteady == ASSUME IInv, IInv', SteadyParts, Plan PROVE SteadyParts' /\ Unseen
<1>1. /\ pc = "plan" /\ UNCHANGED fsVars
      /\ UNCHANGED <<device, clock, written, disk, scan, pass, batch, job>>
      /\ \/ pass = "compress" /\ plan' = CompressPlan /\ index' = index
         \/ pass = "dedupe" /\ index' = HashedIndex /\ plan' = DedupePlan(index')
  BY DEF Plan, outside
<1>2. batch = {} /\ batch' = {} /\ job = None /\ job' = None /\ plan = {}
  BY <1>1 DEF IInv, PcInv
<1>3. name' = name /\ file' = file
  BY <1>1 DEF fsVars
<1>4. EntryInv(index)'
  <2>1. CASE index' = index
    BY <1>1, <1>3, <2>1 DEF SteadyParts, EntryInv
  <2>2. CASE index' = HashedIndex
    <3> SUFFICES ASSUME NEW i \in Ino, HashedIndex[i] # None
                 PROVE  /\ HashedIndex[i].mtime < clock
                        /\ file[i] # None =>
                             /\ HashedIndex[i].mtime <= file[i].mtime
                             /\ HashedIndex[i].mtime = file[i].mtime =>
                                  HashedIndex[i].hash = file[i].data
      BY <1>1, <1>3, <2>2 DEF EntryInv
    <3>1. CASE HashedIndex[i] = index[i]
      BY <3>1 DEF SteadyParts, EntryInv
    <3>2. CASE \E m \in Candidates :
                 /\ m.stamp.ino = i /\ ~Hit(index, m.stamp)
                 /\ name[Min(m.paths)] # None
                 /\ HashedIndex[i] = Entry(m.stamp, Bytes(Min(m.paths)), FALSE)
      <4>1. PICK m \in Candidates :
              /\ m.stamp.ino = i /\ name[Min(m.paths)] # None
              /\ HashedIndex[i] = Entry(m.stamp, Bytes(Min(m.paths)), FALSE)
        BY <3>2
      <4>2. m \in scan /\ m.stamp.mtime < clock
        BY <4>1 DEF Candidates, Eligible
      <4>3. Min(m.paths) \in m.paths
        BY <4>2, MemberFacts DEF IInv
      <4>4. file[i] # None => m.stamp.mtime <= file[i].mtime
        BY <4>1, <4>2 DEF SteadyParts, StampInv
      <4>5. file[i] # None /\ m.stamp.mtime = file[i].mtime => Bytes(Min(m.paths)) = file[i].data
        BY <4>1, <4>2, <4>3 DEF SteadyParts, ReadInv, Is
      <4>6. HashedIndex[i].mtime = m.stamp.mtime /\ HashedIndex[i].hash = Bytes(Min(m.paths))
        BY <4>1 DEF Entry
      <4> QED BY <4>2, <4>4, <4>5, <4>6
    <3> QED BY <3>1, <3>2, HashedHolds
  <2> QED BY <1>1, <2>1, <2>2
<1>5. EntryInv(disk)' /\ StampInv'
  BY <1>1, <1>3 DEF SteadyParts, EntryInv, StampInv
<1>6. ReadInv'
  BY <1>1, <1>3 DEF SteadyParts, ReadInv, Bytes, Is
<1>7. PairInv'
  <2> SUFFICES ASSUME pass = "dedupe", NEW a \in plan', Is(a.source_stamp), Is(a.member.stamp)
               PROVE  file[a.source_stamp.ino].data = file[a.member.stamp.ino].data
    BY <1>1, <1>2, <1>3 DEF PairInv, Acting, Is
  <2>1. index' \in [Ino -> EntryType \cup {None}] /\ a \in DedupePlan(index')
    BY <1>1 DEF IInv, TypeOK
  <2>2. /\ scan \in SUBSET MemberType /\ \A m \in scan : m.paths # {}
        /\ \A m, n \in scan : m # n => m.paths \cap n.paths = {}
    BY DEF IInv, TypeOK, ScanInv
  <2>3. PICK c \in scan :
          /\ a.source_stamp = c.stamp /\ a.member \in scan
          /\ Hit(index', c.stamp) /\ Hit(index', a.member.stamp)
          /\ index'[c.stamp.ino].hash = index'[a.member.stamp.ino].hash
    BY <2>1, <2>2, DedupePlanHolds
  <2>4. \A m \in scan : Hit(index', m.stamp) /\ Is(m.stamp) =>
          index'[m.stamp.ino].hash = file[m.stamp.ino].data
    <3>1. \A m \in scan : m.stamp.ino \in Ino
      BY MemberFacts DEF IInv
    <3> QED BY <1>3, <1>4, <3>1 DEF EntryInv, Hit, Is
  <2> QED BY <2>3, <2>4
<1>8. StagedInv' /\ JobInv'
  BY <1>2 DEF StagedInv, Staged, JobInv
<1>9. UnitInv'
  BY <1>1, <1>3 DEF SteadyParts, UnitInv
<1>10. NoForeignBytes' /\ Unseen
  BY <1>1, StillFiles, UnseenReads
<1> QED BY <1>4, <1>5, <1>6, <1>7, <1>8, <1>9, <1>10 DEF SteadyParts

\* The stamp of an old group is none of the stamps of others.
LEMMA StartReplaceSteady == ASSUME IInv, IInv', SteadyParts, StartReplace PROVE SteadyParts' /\ Unseen
<1>0. PICK a : a = FirstAction(plan)
  OBVIOUS
<1>1. /\ pc = "act" /\ pass = "dedupe" /\ plan # {} /\ plan' = plan \ {a}
      /\ UNCHANGED fsVars
      /\ UNCHANGED <<device, clock, written, disk, scan, index, pass, batch>>
      /\ \/ /\ CheckReplace(a)
            /\ job' = [action |-> a, todo |-> a.member.paths]
            /\ pc' = "copy"
         \/ job' = job
  BY <1>0 DEF StartReplace, outside
<1>2. batch = {} /\ job = None
  BY <1>1 DEF IInv, PcInv, Staged
<1>3. a \in plan
  <2>1. \A b \in plan : b.member.paths # {}
    BY ActionFacts, MemberFacts DEF IInv
  <2>2. plan \in SUBSET ActionType
    BY DEF IInv, TypeOK
  <2> QED BY <1>0, <1>1, <2>1, <2>2, FirstActionIn
<1>4. Staged' = {} /\ Staged = {}
  BY <1>1, <1>2 DEF Staged
<1>5. Acting' \subseteq Acting
  BY <1>1, <1>2, <1>3 DEF Acting
<1>6. CASE job' = job
  BY <1>1, <1>2, <1>4, <1>5, <1>6, QuietStep
<1>7. CASE /\ CheckReplace(a)
           /\ job' = [action |-> a, todo |-> a.member.paths]
           /\ pc' = "copy"
  <2>1. Aged /\ Unseen /\ name' = name /\ file' = file
    BY <1>1, StillFiles DEF fsVars
  <2>2. EntryInv(disk)' /\ EntryInv(index)' /\ StampInv' /\ ReadInv' /\ PairInv' /\ NoForeignBytes'
    BY <1>1, <1>5, <2>1, UnseenReads, KnownStaysTrue DEF IInv
  <2>3. UnitInv' /\ StagedInv'
    BY <1>1, <1>4, <2>1 DEF SteadyParts, UnitInv, StagedInv
  <2>4. JobInv'
    <3>1. job'.action = a /\ job'.todo = a.member.paths
      BY <1>7
    <3>2. \A p : Stamp(p)' = Stamp(p)
      BY <2>1 DEF Stamp
    <3>3. /\ \A p \in a.member.paths : Stamp(p) = a.member.stamp
          /\ a.source_stamp.ino # a.member.stamp.ino
          /\ Stamp(a.source) = a.source_stamp
          /\ device.how = "Link" => file[name[a.source]].mode = a.member.mode
      BY <1>7 DEF CheckReplace, CheckGroup
    <3> QED BY <1>1, <1>7, <2>1, <3>1, <3>2, <3>3 DEF JobInv
  <2> QED BY <2>1, <2>2, <2>3, <2>4 DEF SteadyParts
<1> QED BY <1>1, <1>6, <1>7

\* The hash goes with the bytes: what the index is told is so.
LEMMA TellSteady == ASSUME IInv, IInv', SteadyParts, Tell PROVE SteadyParts' /\ Unseen
<1>0. PICK a, new : a = job.action /\ new = Stamp(Min(job.action.member.paths))
  OBVIOUS
<1> DEFINE m == a.member
           first == Min(m.paths)
           i == name[first]
<1>1. /\ pc = "tell" /\ new # NoStamp
      /\ index' = IF pass = "compress" THEN ToldRewritten(m, new) ELSE ToldReplaced(a, new)
      /\ job' = None
      /\ UNCHANGED fsVars
      /\ UNCHANGED <<device, clock, written, disk, scan, pass, plan, batch>>
  BY <1>0 DEF Tell, outside
<1>2. job # None /\ m \in scan /\ m \in MemberType /\ first \in Path /\ m.stamp.ino \in Ino
  BY <1>0, <1>1, JobFacts, MemberFacts DEF IInv, PcInv
<1>3. name' = name /\ file' = file /\ temp' = temp
  BY <1>1 DEF fsVars
<1>4. /\ i # None /\ i \in Ino /\ file[i] # None
      /\ new.ino = i /\ new.mtime = file[i].mtime
  BY <1>0, <1>1, <1>2, NameFacts DEF IInv, Stamp
<1>5. StandsIn(i)
  BY <1>0, <1>1, <1>2 DEF SteadyParts, JobInv
<1>6. pass \in {"compress", "dedupe"}
  BY DEF IInv, TypeOK
<1>7. file[i].mtime < clock
  BY <1>5 DEF StandsIn
<1>8. /\ \A j \in Ino : index'[j] # None =>
           \/ /\ index[j] # None /\ index'[j].mtime = index[j].mtime /\ index'[j].hash = index[j].hash
           \/ j = i /\ index'[j].mtime = file[i].mtime /\ index'[j].hash = file[i].data
      /\ \A j \in Ino : index'[j] # None => index[j] # None \/ j = i
  <2>0. index \in [Ino -> EntryType \cup {None}]
    BY DEF IInv, TypeOK
  <2>1. CASE pass = "compress" /\ Hit(index, m.stamp)
    <3> DEFINE e == Entry(new, index[m.stamp.ino].hash, FALSE)
    <3>1. index' = [index EXCEPT ![m.stamp.ino] = None, ![i] = e]
      BY <1>1, <1>4, <2>1 DEF ToldRewritten
    <3>2. e.mtime = file[i].mtime /\ e.hash = file[i].data
      BY <1>0, <1>4, <1>5, <2>1 DEF StandsIn, Entry
    <3> HIDE DEF e, m
    <3>3. \A j \in Ino : index'[j] = IF j = i THEN e ELSE IF j = m.stamp.ino THEN None ELSE index[j]
      BY <1>2, <1>4, <2>0, <3>1
    <3> QED BY <3>2, <3>3
  <2>2. CASE pass = "dedupe" /\ Hit(index, a.source_stamp)
    <3> DEFINE s == a.source_stamp.ino
               e == Entry(new, index[s].hash, TRUE)
               g == [index[s] EXCEPT !.shared = TRUE]
    <3>1. s \in Ino /\ index[s] \in EntryType
      <4>1. a.source_stamp \in StampType
        BY <1>0, <1>2, <2>2, SourceFacts
      <4> QED BY <2>0, <2>2, <4>1 DEF StampType, Hit
    <3>2. e.mtime = file[i].mtime /\ e.hash = file[i].data
      BY <1>0, <1>4, <1>5, <2>2 DEF StandsIn, Entry
    <3>3. g.mtime = index[s].mtime /\ g.hash = index[s].hash
      BY <3>1 DEF EntryType
    <3>4. index' = [[index EXCEPT ![s].shared = TRUE, ![m.stamp.ino] = None] EXCEPT ![i] = e]
      BY <1>1, <1>4, <2>2 DEF ToldReplaced
    <3>5. index' = [[[index EXCEPT ![s] = g] EXCEPT ![m.stamp.ino] = None] EXCEPT ![i] = e]
      BY <3>4
    <3>6. index[s] # None
      BY <3>1, NoneIsNone
    <3> HIDE DEF e, g, m, s
    <3>7. \A j \in Ino : index'[j] = IF j = i THEN e ELSE IF j = m.stamp.ino THEN None
                                     ELSE IF j = s THEN g ELSE index[j]
      BY <1>2, <1>4, <2>0, <3>1, <3>5
    <3> QED BY <3>2, <3>3, <3>6, <3>7
  <2>3. CASE index' = index
    BY <2>3
  <2> QED BY <1>1, <1>6, <2>1, <2>2, <2>3 DEF ToldRewritten, ToldReplaced
<1>9. EntryInv(index)'
  <2> SUFFICES ASSUME NEW j \in Ino, index'[j] # None
               PROVE  /\ index'[j].mtime < clock
                      /\ file[j] # None =>
                           /\ index'[j].mtime <= file[j].mtime
                           /\ index'[j].mtime = file[j].mtime => index'[j].hash = file[j].data
    BY <1>1, <1>3 DEF EntryInv
  <2>1. CASE index[j] # None /\ index'[j].mtime = index[j].mtime /\ index'[j].hash = index[j].hash
    BY <2>1 DEF SteadyParts, EntryInv
  <2>2. CASE j = i /\ index'[j].mtime = file[i].mtime /\ index'[j].hash = file[i].data
    <3>1. file[i].mtime \in Nat
      BY <1>4, FileFacts DEF IInv
    <3> QED BY <1>7, <2>2, <3>1
  <2> QED BY <1>8, <2>1, <2>2
<1>10. EntryInv(disk)' /\ StampInv' /\ ReadInv'
  <2>1. EntryInv(disk)'
    BY <1>1, <1>3 DEF SteadyParts, EntryInv
  <2>2. StampInv'
    BY <1>1, <1>3 DEF SteadyParts, StampInv
  <2>3. ReadInv'
    BY <1>1, <1>3 DEF SteadyParts, ReadInv, Bytes, Is
  <2> QED BY <2>1, <2>2, <2>3
<1>11. PairInv'
  <2>1. Acting' \subseteq Acting
    BY <1>1 DEF Acting
  <2> QED BY <1>1, <1>3, <2>1 DEF SteadyParts, PairInv, Is
<1>12. StagedInv'
  <2>1. Staged' = Staged
    BY <1>1 DEF Staged
  <2> SUFFICES ASSUME NEW n \in Staged
               PROVE  /\ ~Known(temp[Min(n.paths)])'
                      /\ Is(n.stamp) => file[temp[Min(n.paths)]].data = file[n.stamp.ino].data
    BY <1>3, <2>1 DEF StagedInv, Known, Is
  <2> DEFINE t == temp[Min(n.paths)]
  <2>2. ~Known(t) /\ (Is(n.stamp) => file[t].data = file[n.stamp.ino].data)
    BY DEF SteadyParts, StagedInv
  <2>3. t \in Ino /\ t # i
    <3>1. Private(Min(n.paths)) /\ Min(n.paths) \in Path
      BY <1>2, JobAside
    <3> QED BY <1>2, <3>1, NameFacts DEF IInv, Private
  <2>4. index'[t] = None
    BY <1>8, <2>2, <2>3 DEF Known
  <2>5. ~Known(t)'
    BY <1>1, <1>3, <2>2, <2>4 DEF Known
  <2> QED BY <1>3, <2>2, <2>5 DEF Known
<1>13. JobInv' /\ UnitInv' /\ NoForeignBytes' /\ Unseen
  <2>1. NoForeignBytes' /\ Unseen
    BY <1>1, StillFiles, UnseenReads
  <2> QED BY <1>1, <1>3, <2>1 DEF SteadyParts, JobInv, UnitInv
<1> QED BY <1>9, <1>10, <1>11, <1>12, <1>13 DEF SteadyParts

----------------------------------------------------------------------------
(* Temp files that go *)

\* A temp file goes from next to p, or a left one; no other step away from its name.
Loses(p) == name' = name /\ file' = Reaped(file) /\ temp' \in {temp, [temp EXCEPT ![p] = None]}

LEMMA DropLoses == ASSUME NEW m, NEW p, DropTemp(m, p) \/ Sweep(p) PROVE Loses(p)
BY DEF DropTemp, Sweep, Loses

LEMMA LossUnseen ==
  ASSUME IInv, NEW p \in Path, Loses(p)
  PROVE  /\ Unseen /\ Aged
         /\ name' = name
         /\ \A i \in Ino : file'[i] \in {file[i], None}
         /\ \A q \in Path : q # p => temp'[q] = temp[q] /\ (temp[q] # None => file'[temp[q]] = file[temp[q]])
         /\ \A q \in Path : name[q] # None => file'[name[q]] = file[name[q]]
<1>1. /\ name' = name /\ file' = Reaped(file)
      /\ name' \in [Path -> Ino \cup {None}] /\ temp' \in [Path -> Ino \cup {None}]
      /\ \A q \in Path : q # p => temp'[q] = temp[q]
  BY DEF Loses, IInv, TypeOK
<1>2. /\ \A i \in Ino : file'[i] \in {file[i], None}
      /\ \A q \in Path : name'[q] # None => file'[name'[q]] = file[name'[q]]
      /\ \A q \in Path : temp'[q] # None => file'[temp'[q]] = file[temp'[q]]
  BY <1>1, ReapedHolds DEF IInv
<1>3. Aged
  BY <1>2, StayingAges
<1>4. Unseen
  BY <1>1, <1>2, SameFilesUnseen
<1> QED BY <1>1, <1>2, <1>3, <1>4

\* No staged copy but the one that goes has its temp name there.
LEMMA DropStep ==
  ASSUME IInv, IInv', SteadyParts, NEW p \in Path, Loses(p),
         UNCHANGED <<device, clock, written, disk, scan, index, pass>>,
         Acting' \subseteq Acting, Staged' \subseteq Staged, \A n \in Staged' : Min(n.paths) # p,
         job' = None
  PROVE  SteadyParts' /\ Unseen
<1>1. /\ Unseen /\ Aged /\ name' = name
      /\ \A i \in Ino : file'[i] \in {file[i], None}
      /\ \A q \in Path : q # p => temp'[q] = temp[q] /\ (temp[q] # None => file'[temp[q]] = file[temp[q]])
  BY LossUnseen
<1>2. EntryInv(disk)' /\ EntryInv(index)' /\ StampInv' /\ ReadInv' /\ PairInv' /\ NoForeignBytes'
  BY <1>1, UnseenReads, KnownStaysTrue DEF IInv
<1>3. StagedInv'
  <2> SUFFICES ASSUME NEW n \in Staged'
               PROVE  /\ ~Known(temp'[Min(n.paths)])
                      /\ Is(n.stamp)' => file'[temp'[Min(n.paths)]].data = file'[n.stamp.ino].data
    BY DEF StagedInv, Known
  <2>1. n \in Staged /\ n \in scan /\ n.stamp.mtime < clock /\ Min(n.paths) \in Path /\ Private(Min(n.paths))
    BY BatchFacts, MemberFacts DEF IInv, ScanInv, TempInv
  <2>2. temp'[Min(n.paths)] = temp[Min(n.paths)] /\ temp[Min(n.paths)] # None
        /\ file'[temp[Min(n.paths)]] = file[temp[Min(n.paths)]]
    BY <1>1, <2>1 DEF Private
  <2>3. /\ ~Known(temp[Min(n.paths)])
        /\ Is(n.stamp) => file[temp[Min(n.paths)]].data = file[n.stamp.ino].data
    BY <2>1 DEF SteadyParts, StagedInv
  <2>4. Is(n.stamp)' => Is(n.stamp) /\ file'[n.stamp.ino].data = file[n.stamp.ino].data
    BY <1>1, <2>1, StillIs DEF SteadyParts
  <2> QED BY <2>2, <2>3, <2>4
<1>4. UnitInv' /\ JobInv'
  BY <1>1 DEF SteadyParts, UnitInv, JobInv
<1> QED BY <1>1, <1>2, <1>3, <1>4 DEF SteadyParts

LEMMA SweepSteady ==
  ASSUME IInv, IInv', SteadyParts, NEW p \in Path, Sweep(p)
  PROVE  SteadyParts' /\ Unseen
<1>1. /\ pc = "sweep" /\ Loses(p)
      /\ UNCHANGED <<device, clock, written, disk, scan, index, pass, plan, batch, job>>
  BY DropLoses DEF Sweep, outside, runVars
<1>2. batch = {} /\ job' = None
  BY <1>1 DEF IInv, PcInv
<1>3. Staged' = {} /\ Acting' = Acting
  BY <1>1, <1>2 DEF Staged, Acting
<1> QED BY <1>1, <1>2, <1>3, DropStep

LEMMA DropTurnSteady ==
  ASSUME IInv, IInv', SteadyParts, pc \in {"held", "rename"}, Loses(NextPath), Turn,
         UNCHANGED <<device, clock, written, disk, scan, index, pass, plan, batch>>
  PROVE  SteadyParts' /\ Unseen
<1>0. PICK p : p = NextPath
  OBVIOUS
<1>1. job # None /\ job.todo # {}
  BY MemberFacts, JobFacts DEF IInv, PcInv, SwapInv
<1>2. p \in Path /\ p \in job.action.member.paths
  BY <1>0, <1>1, JobFacts DEF IInv
<1>3. job' = None /\ Loses(p)
  BY <1>0 DEF Turn
<1>4. Staged' = Staged /\ Acting' \subseteq Acting
  BY <1>3 DEF Staged, Acting
<1>5. \A n \in Staged' : Min(n.paths) # p
  BY <1>1, <1>2, <1>4, JobAside
<1> QED BY <1>2, <1>3, <1>4, <1>5, DropStep
----------------------------------------------------------------------------
(* Steps that only let go, or take up *)

LEMMA SweptSteady == ASSUME IInv, IInv', SteadyParts, Swept PROVE SteadyParts' /\ Unseen
<1>1. /\ pc = "sweep" /\ UNCHANGED fsVars
      /\ UNCHANGED <<device, clock, written, disk, scan, index, pass, plan, batch, job>>
  BY DEF Swept, outside
<1>2. job' = None
  BY <1>1 DEF IInv, PcInv
<1>3. Acting' = Acting /\ Staged' = Staged
  BY <1>1 DEF Acting, Staged
<1> QED BY <1>1, <1>2, <1>3, QuietStep

LEMMA LetGoSteady == ASSUME IInv, IInv', SteadyParts, LetGo PROVE SteadyParts' /\ Unseen
<1>1. /\ pc = "act" /\ plan' = {} /\ UNCHANGED fsVars
      /\ UNCHANGED <<device, clock, written, disk, scan, index, pass, batch, job>>
  BY DEF LetGo, outside
<1>2. job' = None /\ batch = Staged
  BY <1>1 DEF IInv, PcInv
<1>3. Acting' \subseteq Acting /\ Staged' \subseteq Staged
  BY <1>1, <1>2 DEF Acting, Staged
<1> QED BY <1>1, <1>2, <1>3, QuietStep

LEMMA StageBatchSteady == ASSUME IInv, IInv', SteadyParts, StageBatch PROVE SteadyParts' /\ Unseen
<1>1. /\ pc = "act" /\ batch' = {a.member : a \in FirstActions(Batch)} /\ UNCHANGED fsVars
      /\ UNCHANGED <<device, clock, written, disk, scan, index, pass, plan, job>>
  BY DEF StageBatch, outside
<1>2. job' = None
  BY <1>1 DEF IInv, PcInv
<1>3. Acting' = Acting
  BY <1>1 DEF Acting
<1>4. Staged' = {}
  <2>1. FirstActions(Batch) \subseteq plan
    BY DEF FirstActions
  <2> QED BY <1>1, <2>1 DEF Staged
<1> QED BY <1>1, <1>2, <1>3, <1>4, QuietStep

LEMMA BatchDoneSteady == ASSUME IInv, IInv', SteadyParts, BatchDone PROVE SteadyParts' /\ Unseen
<1>1. /\ pc = "finish" /\ UNCHANGED fsVars
      /\ UNCHANGED <<device, clock, written, disk, scan, index, pass, plan, batch, job>>
  BY DEF BatchDone, outside
<1>2. job' = None
  BY <1>1 DEF IInv, PcInv
<1>3. Acting' = Acting /\ Staged' = Staged
  BY <1>1 DEF Acting, Staged
<1> QED BY <1>1, <1>2, <1>3, QuietStep

\* A group given up with no temp file of its own at hand.
LEMMA GiveUpSteady ==
  ASSUME IInv, IInv', SteadyParts, GiveUp, UNCHANGED fsVars,
         UNCHANGED <<device, clock, written, disk, scan, index, pass, plan, batch>>
  PROVE  SteadyParts' /\ Unseen
<1>1. job' = None
  BY DEF GiveUp, Turn
<1>2. Acting' \subseteq Acting /\ Staged' = Staged
  BY <1>1 DEF Acting, Staged
<1> QED BY <1>1, <1>2, QuietStep

LEMMA RewrittenGoneSteady == ASSUME IInv, IInv', SteadyParts, RewrittenGone PROVE SteadyParts' /\ Unseen
BY GiveUpSteady DEF RewrittenGone, outside

LEMMA TellFailsSteady == ASSUME IInv, SteadyParts, TellFails PROVE SteadyParts' /\ Unseen
BY LostSteady DEF TellFails, outside

LEMMA SweepFailsSteady == ASSUME IInv, SteadyParts, SweepFails PROVE SteadyParts' /\ Unseen
BY LostSteady DEF SweepFails, outside

LEMMA CrashSteady == ASSUME IInv, SteadyParts, Crash PROVE SteadyParts' /\ Unseen
BY LostSteady DEF Crash
----------------------------------------------------------------------------
(* Copies: staged, compressed, and put at hand *)

\* A step of the run that ages what is known and that no reader sees.
LEMMA RunStep ==
  ASSUME IInv, IInv', SteadyParts, Aged, Unseen,
         UNCHANGED <<device, clock, written, disk, index, scan, pass>>,
         pass = "dedupe" => Acting' \subseteq Acting,
         UnitInv', StagedInv', JobInv'
  PROVE  SteadyParts' /\ Unseen
<1>1. EntryInv(disk)' /\ EntryInv(index)' /\ StampInv' /\ ReadInv' /\ PairInv' /\ NoForeignBytes'
  BY UnseenReads, KnownStaysTrue DEF IInv
<1> QED BY <1>1 DEF SteadyParts

\* A copy that stays where it is stays a copy.
LEMMA StagedOn ==
  ASSUME IInv, SteadyParts, Aged, NEW n \in Staged,
         temp'[Min(n.paths)] = temp[Min(n.paths)],
         file'[temp[Min(n.paths)]].data = file[temp[Min(n.paths)]].data
  PROVE  LET i == temp'[Min(n.paths)] IN
         ~Known(i) /\ (Is(n.stamp)' => file'[i].data = file'[n.stamp.ino].data)
<1>1. n \in scan /\ n.stamp.mtime < clock
  BY BatchFacts DEF IInv, ScanInv
<1>2. /\ ~Known(temp[Min(n.paths)])
      /\ Is(n.stamp) => file[temp[Min(n.paths)]].data = file[n.stamp.ino].data
  BY DEF SteadyParts, StagedInv
<1>3. Is(n.stamp)' => Is(n.stamp) /\ file'[n.stamp.ino].data = file[n.stamp.ino].data
  BY <1>1, StillIs DEF SteadyParts
<1> QED BY <1>2, <1>3

LEMMA BackendSteady == ASSUME IInv, IInv', SteadyParts, Backend PROVE SteadyParts' /\ Unseen
<1>1. /\ pc = "stage" /\ name' = name /\ temp' = temp
      /\ UNCHANGED <<device, clock, written, disk, scan, index, pass, plan, batch, job>>
  BY DEF Backend, outside
<1>2. \A i \in Ino :
        \/ file'[i] = file[i]
        \/ /\ \E m \in Staged : temp[Min(m.paths)] = i
           /\ file'[i].data = file[i].data
  BY BackendEffect
<1>3. \A m \in Staged : ~Known(temp[Min(m.paths)]) /\ Private(Min(m.paths)) /\ Min(m.paths) \in Path
  BY BatchFacts, MemberFacts DEF IInv, TempInv, SteadyParts, StagedInv
<1>4. Aged
  <2>1. \A i \in Ino : Known(i) => file'[i] \in {file[i], None}
    BY <1>2, <1>3
  <2> QED BY <2>1, StayingAges
<1>5. Unseen
  <2>1. \A q \in Path : name[q] # None => file'[name[q]] = file[name[q]]
    BY <1>2, <1>3, NameFacts DEF Private, IInv
  <2> QED BY <1>1, <2>1, SameFilesUnseen
<1>6. StagedInv'
  <2> SUFFICES ASSUME NEW n \in Staged
               PROVE  /\ ~Known(temp'[Min(n.paths)])
                      /\ Is(n.stamp)' => file'[temp'[Min(n.paths)]].data = file'[n.stamp.ino].data
    BY <1>1 DEF StagedInv, Staged, Known
  <2>1. temp[Min(n.paths)] \in Ino
    BY <1>3, NameFacts DEF IInv, Private
  <2>2. file'[temp[Min(n.paths)]].data = file[temp[Min(n.paths)]].data
    BY <1>2, <2>1
  <2> QED BY <1>1, <1>4, <2>2, StagedOn
<1>7. job' = None /\ Acting' = Acting
  BY <1>1 DEF IInv, PcInv, Acting
<1>8. JobInv' /\ UnitInv'
  BY <1>1, <1>7 DEF JobInv, SteadyParts, UnitInv
<1> QED BY <1>1, <1>4, <1>5, <1>6, <1>7, <1>8, RunStep

\* A private copy takes a number nothing knows.
LEMMA CopyAges ==
  ASSUME IInv, Steady, NEW m \in scan, NEW p \in Path, CopyTo(m, p)
  PROVE  /\ Aged /\ Unseen /\ name' = name
         /\ \A q \in Path : name[q] # None => file'[name[q]] = file[name[q]]
         /\ \A q \in Path : q # Min(m.paths) =>
              temp'[q] = temp[q] /\ (temp[q] # None => file'[temp[q]] = file[temp[q]])
         /\ name[p] # None
         /\ temp'[Min(m.paths)] \in Ino /\ ~Known(temp'[Min(m.paths)])
         /\ file'[temp'[Min(m.paths)]].data = file[name[p]].data
         /\ file'[temp'[Min(m.paths)]].mtime = m.stamp.mtime
         /\ file'[temp'[Min(m.paths)]].mode = m.mode
<1>1. m \in MemberType /\ m.paths # {} /\ Min(m.paths) \in Path
  BY MemberFacts DEF IInv
<1>2. name' = name /\ name[p] # None
  BY <1>1, CopyEffect DEF IInv
<1>3. PICK i \in NewIno :
        /\ i \in Ino
        /\ temp' = [temp EXCEPT ![Min(m.paths)] = i]
        /\ file'[i].data = file[name[p]].data
        /\ file'[i].mtime = m.stamp.mtime /\ file'[i].mode = m.mode
        /\ \A j \in Ino : j # i => file'[j] \in {file[j], None}
        /\ \A q \in Path : name[q] # None => file'[name[q]] = file[name[q]]
        /\ \A q \in Path : temp[q] # None /\ q # Min(m.paths) => file'[temp[q]] = file[temp[q]]
  BY <1>1, CopyEffect DEF IInv
<1>4. ~Known(i)
  BY NewInoUnknown DEF Steady
<1>5. Aged
  BY <1>3, <1>4, StayingAges
<1>6. Unseen
  BY <1>2, <1>3, SameFilesUnseen
<1>7. temp'[Min(m.paths)] = i /\ \A q \in Path : q # Min(m.paths) => temp'[q] = temp[q]
  BY <1>1, <1>3 DEF IInv, TypeOK
<1> QED BY <1>2, <1>3, <1>4, <1>5, <1>6, <1>7

\* So does one that nobody knows of.
LEMMA CopyLeftAges ==
  ASSUME IInv, Steady, NEW m \in scan, NEW p \in Path, CopyLeft(m, p)
  PROVE  /\ Aged /\ Unseen /\ name' = name /\ temp' = temp
         /\ \A q \in Path : temp[q] # None => file'[temp[q]] = file[temp[q]]
<1>1. m \in MemberType /\ m.paths # {}
  BY MemberFacts DEF IInv
<1>2. /\ name' = name /\ temp' = temp
      /\ \E i \in NewIno : \A j \in Ino : j # i => file'[j] \in {file[j], None}
      /\ \A q \in Path : name[q] # None => file'[name[q]] = file[name[q]]
      /\ \A q \in Path : temp[q] # None => file'[temp[q]] = file[temp[q]]
  BY <1>1, CopyLeftHolds DEF IInv
<1>3. \A i \in NewIno : ~Known(i)
  BY NewInoUnknown DEF Steady
<1>4. Aged
  BY <1>2, <1>3, StayingAges
<1>5. Unseen
  BY <1>2, SameFilesUnseen
<1> QED BY <1>2, <1>4, <1>5

\* A member that leaves the plan and the batch takes no staged copy with it.
LEMMA UnstageSteady ==
  ASSUME IInv, IInv', SteadyParts, Aged, Unseen, NEW a, plan' = plan \ {a}, batch' = batch \ {a.member},
         job' = None, name' = name, temp' = temp,
         \A q \in Path : temp[q] # None => file'[temp[q]] = file[temp[q]],
         UNCHANGED <<device, clock, written, disk, scan, index, pass>>
  PROVE  SteadyParts' /\ Unseen
<1>1. Acting' \subseteq Acting /\ Staged' \subseteq Staged
  BY DEF Acting, Staged
<1>2. StagedInv'
  <2> SUFFICES ASSUME NEW n \in Staged'
               PROVE  /\ ~Known(temp'[Min(n.paths)])
                      /\ Is(n.stamp)' => file'[temp'[Min(n.paths)]].data = file'[n.stamp.ino].data
    BY DEF StagedInv, Known
  <2>1. n \in Staged /\ Min(n.paths) \in Path /\ Private(Min(n.paths))
    BY <1>1, BatchFacts, MemberFacts DEF IInv, TempInv
  <2> QED BY <2>1, StagedOn DEF Private
<1>3. UnitInv' /\ JobInv'
  BY DEF SteadyParts, UnitInv, JobInv
<1> QED BY <1>1, <1>2, <1>3, RunStep

LEMMA StageSteady == ASSUME IInv, IInv', SteadyParts, Stage PROVE SteadyParts' /\ Unseen
<1>0. PICK a : a = FirstAction(Unstaged)
  OBVIOUS
<1>1. /\ pc = "stage" /\ UNCHANGED fsVars
      /\ UNCHANGED <<device, clock, written, disk, scan, index, pass, job>>
      /\ \/ plan' = plan /\ batch' = batch
         \/ plan' = plan \ {a} /\ batch' = batch \ {a.member}
  BY <1>0 DEF Stage, outside
<1>2. job' = None
  BY <1>1 DEF IInv, PcInv
<1>3. Acting' \subseteq Acting /\ Staged' \subseteq Staged
  BY <1>1 DEF Acting, Staged
<1> QED BY <1>1, <1>2, <1>3, QuietStep

\* Whatever came to the group since it was looked at: a copy of it holds the bytes of its
\* inode, as long as that is as it was.
LEMMA CloneSteady == ASSUME IInv, IInv', Steady, SteadyParts, Clone PROVE SteadyParts' /\ Unseen
<1>0. PICK a, m, first : a = FirstAction(Unstaged) /\ m = a.member /\ first = Min(m.paths)
  OBVIOUS
<1>1. /\ pc = "clone" /\ plan' = plan \ {a}
      /\ UNCHANGED <<device, clock, written, disk, scan, index, pass, job>>
      /\ \/ CopyTo(m, first) /\ batch' = batch
         \/ batch' = batch \ {m} /\ UNCHANGED fsVars
         \/ batch' = batch \ {m} /\ CopyLeft(m, first)
  BY <1>0 DEF Clone, outside
<1>2. job' = None /\ pass = "compress" /\ Unstaged # {}
  BY <1>1 DEF IInv, PcInv
<1>3. /\ a \in plan /\ m \in batch /\ m \in scan /\ m.stamp.mtime < clock
      /\ first \in m.paths /\ first \in Path
  BY <1>0, <1>2, UnstagedFacts, MemberFacts DEF IInv
<1>4. CASE batch' = batch \ {m} /\ UNCHANGED fsVars
  <2>1. Aged /\ Unseen /\ name' = name /\ temp' = temp /\ file' = file
    BY <1>4, StillFiles DEF fsVars
  <2> QED BY <1>0, <1>1, <1>2, <1>4, <2>1, UnstageSteady
<1>5. CASE batch' = batch \ {m} /\ CopyLeft(m, first)
  BY <1>0, <1>1, <1>2, <1>3, <1>5, CopyLeftAges, UnstageSteady
<1>6. CASE CopyTo(m, first) /\ batch' = batch
  <2>1. /\ Aged /\ Unseen /\ name' = name
        /\ \A q \in Path : q # first =>
             temp'[q] = temp[q] /\ (temp[q] # None => file'[temp[q]] = file[temp[q]])
        /\ name[first] # None
        /\ ~Known(temp'[first])
        /\ file'[temp'[first]].data = file[name[first]].data
    BY <1>0, <1>3, <1>6, CopyAges
  <2>2. Is(m.stamp)' => file'[temp'[first]].data = file'[m.stamp.ino].data
    <3>1. Is(m.stamp)' => Is(m.stamp) /\ file'[m.stamp.ino].data = file[m.stamp.ino].data
      BY <1>3, <2>1, StillIs DEF SteadyParts
    <3>2. Is(m.stamp) => file[name[first]].data = file[m.stamp.ino].data
      BY <1>3, <2>1 DEF SteadyParts, ReadInv, Bytes
    <3> QED BY <2>1, <3>1, <3>2
  <2>3. StagedInv'
    <3> SUFFICES ASSUME NEW n \in Staged'
                 PROVE  /\ ~Known(temp'[Min(n.paths)])
                        /\ Is(n.stamp)' => file'[temp'[Min(n.paths)]].data = file'[n.stamp.ino].data
      BY <1>1 DEF StagedInv, Known
    <3>1. CASE n = m
      BY <1>0, <2>1, <2>2, <3>1
    <3>2. CASE n # m
      <4>1. n \in Staged
        BY <1>0, <1>1, <1>6, <3>2 DEF Staged
      <4>2. n \in scan
        BY <4>1, BatchFacts DEF IInv
      <4>3. Min(n.paths) # first /\ Min(n.paths) \in Path
        BY <1>0, <1>3, <3>2, <4>2, Apart, MemberFacts DEF IInv
      <4>4. temp[Min(n.paths)] # None
        BY <4>1 DEF IInv, TempInv, Private
      <4> QED BY <2>1, <4>1, <4>3, <4>4, StagedOn
    <3> QED BY <3>1, <3>2
  <2>4. UnitInv' /\ JobInv' /\ Acting' \subseteq Acting
    BY <1>1, <1>2, <2>1 DEF SteadyParts, UnitInv, JobInv, Acting
  <2> QED BY <1>1, <2>1, <2>3, <2>4, RunStep
<1> QED BY <1>1, <1>4, <1>5, <1>6
----------------------------------------------------------------------------
(* Groups swapped in *)

\* An entry that reads as the file of its number holds its hash.
LEMMA TrueEntry ==
  ASSUME EntryInv(index), NEW s, s.ino \in Ino, Is(s), Hit(index, s)
  PROVE  index[s.ino].hash = file[s.ino].data
BY DEF EntryInv, Is, Hit

LEMMA FinishSteady == ASSUME IInv, IInv', SteadyParts, Finish PROVE SteadyParts' /\ Unseen
<1>0. PICK m : m = FirstStaged
  OBVIOUS
<1> DEFINE p == Min(m.paths)
<1>1. /\ pc = "finish" /\ batch # {} /\ batch' = batch \ {m}
      /\ UNCHANGED <<device, clock, written, disk, scan, index, pass, plan>>
      /\ \/ /\ CheckGroup(m)
            /\ file' = [file EXCEPT ![temp[p]] = RestoreMeta(@, m)]
            /\ job' = [action |-> Rewrite(m), todo |-> m.paths]
            /\ pc' = "rename" /\ name' = name /\ temp' = temp
         \/ Loses(p) /\ job' = job
  BY <1>0, DropLoses DEF Finish, outside
<1>2. /\ pass = "compress" /\ job = None /\ batch = Staged
      /\ m \in batch /\ m \in scan /\ m \in MemberType
      /\ m.stamp.mtime < clock /\ m.stamp \in StampType
      /\ p \in m.paths /\ p \in Path /\ Private(p)
      /\ temp[p] \in Ino /\ file[temp[p]] \in FileType
      /\ m.paths \in SUBSET Path
  BY <1>0, <1>1, FinishFacts, MemberFacts DEF IInv
<1>3. Staged' = Staged \ {m}
  BY <1>1, <1>2 DEF Staged
<1>4. \A n \in Staged' : Min(n.paths) # p /\ Min(n.paths) \in Path
  BY <1>2, <1>3, BatchFacts, MemberFacts, Apart DEF IInv
<1>5. CASE Loses(p) /\ job' = job
  <2>1. Acting' \subseteq Acting
    BY <1>1, <1>5 DEF Acting
  <2> QED BY <1>1, <1>2, <1>3, <1>4, <1>5, <2>1, DropStep
<1>6. CASE /\ CheckGroup(m)
           /\ file' = [file EXCEPT ![temp[p]] = RestoreMeta(@, m)]
           /\ job' = [action |-> Rewrite(m), todo |-> m.paths]
           /\ pc' = "rename" /\ name' = name /\ temp' = temp
  <2> DEFINE i == temp[p]
  <2>1. /\ file'[i].data = file[i].data /\ file'[i].mtime = m.stamp.mtime /\ file'[i].mode = m.mode
        /\ \A j \in Ino : j # i => file'[j] = file[j]
    <3>1. file'[i] = RestoreMeta(file[i], m) /\ \A j \in Ino : j # i => file'[j] = file[j]
      BY <1>2, <1>6 DEF IInv, TypeOK
    <3> QED BY <1>2, <3>1, Restored
  <2>2. ~Known(i) /\ (Is(m.stamp) => file[i].data = file[m.stamp.ino].data)
    BY <1>2 DEF SteadyParts, StagedInv
  <2>3. Aged
    BY <2>1, <2>2, StayingAges
  <2>4. \A q \in Path : name[q] # None => file'[name[q]] = file[name[q]]
    BY <1>2, <2>1, NameFacts DEF Private, IInv
  <2>5. Unseen
    BY <1>6, <2>4, SameFilesUnseen
  <2>6. StagedInv'
    <3> SUFFICES ASSUME NEW n \in Staged'
                 PROVE  /\ ~Known(temp'[Min(n.paths)])
                        /\ Is(n.stamp)' => file'[temp'[Min(n.paths)]].data = file'[n.stamp.ino].data
      BY <1>1 DEF StagedInv, Known
    <3>1. n \in Staged
      BY <1>3
    <3>2. temp[Min(n.paths)] # i /\ temp[Min(n.paths)] \in Ino
      BY <1>2, <1>4, <3>1, NameFacts DEF IInv, TempInv, Private
    <3> QED BY <1>6, <2>1, <2>3, <3>1, <3>2, StagedOn
  <2>8. JobInv'
    <3>1. job'.action = Rewrite(m) /\ job'.todo = m.paths /\ job'.action.member = m
      BY <1>6 DEF Rewrite
    <3>2. \A q \in m.paths : Stamp(q)' = m.stamp
      <4>1. \A q \in m.paths : Stamp(q) = m.stamp
        BY <1>6 DEF CheckGroup
      <4> QED BY <1>2, <1>6, <2>4, <4>1 DEF Stamp
    <3>3. Rewrite(m).source_stamp.ino # m.stamp.ino
      BY <1>2, NoneIsNone DEF Rewrite, NoStamp, StampType
    <3>4. Is(m.stamp) /\ name[p] = m.stamp.ino /\ m.stamp.ino \in Ino
      <4>1. Stamp(p) = m.stamp
        BY <1>2, <1>6 DEF CheckGroup
      <4> QED BY <1>2, <4>1, StampReads DEF IInv
    <3>5. file'[m.stamp.ino] = file[m.stamp.ino]
      BY <1>2, <2>4, <3>4, NoneIsNone
    <3>6. file'[i].data = file'[m.stamp.ino].data
      BY <2>1, <2>2, <3>4, <3>5
    <3>7. Hit(index, m.stamp) => index[m.stamp.ino].hash = file[m.stamp.ino].data
      BY <3>4, TrueEntry DEF SteadyParts
    <3>8. m.stamp.mtime <= file'[i].mtime /\ file'[i].mtime < clock
      BY <1>2, <2>1, MemberFacts DEF IInv
    <3>9. StandsIn(i)'
      <4>1. temp'[p] = temp[p]
        BY <1>6
      <4>2. Hit(index, m.stamp)' = Hit(index, m.stamp) /\ index' = index /\ pass' = "compress" /\ clock' = clock
        BY <1>1, <1>2 DEF Hit
      <4> HIDE DEF p
      <4> QED BY <2>1, <3>1, <3>5, <3>6, <3>7, <3>8, <4>1, <4>2 DEF StandsIn
    <3>10. NextPath' = p /\ p \in job'.todo /\ temp'[p] = i
      BY <1>2, <1>6, <3>1 DEF NextPath
    <3>11. StandsIn(temp[p])' /\ Min(job'.action.member.paths) \in job'.todo
      BY <1>6, <3>1, <3>9, <3>10
    <3> HIDE DEF i
    <3> QED BY <1>6, <3>1, <3>2, <3>3, <3>10, <3>11 DEF JobInv
  <2>9. UnitInv'
    BY <1>1, <1>6 DEF SteadyParts, UnitInv
  <2> QED BY <1>1, <1>2, <2>3, <2>5, <2>6, <2>8, <2>9, RunStep
<1> QED BY <1>1, <1>5, <1>6
\* The files of a pair that has been looked at are those it was planned from.
LEMMA PairFacts ==
  ASSUME IInv, SteadyParts, pc = "copy"
  PROVE  LET a == job.action
             m == a.member
             first == Min(m.paths)
         IN
         /\ job # None /\ pass = "dedupe" /\ Staged = {} /\ batch = {} /\ job.todo = m.paths
         /\ m \in scan /\ m \in MemberType /\ m.paths \in SUBSET Path
         /\ m.stamp.mtime < clock /\ m.stamp.mtime \in Nat
         /\ first \in m.paths /\ first \in Path
         /\ \A p \in m.paths : Stamp(p) = m.stamp /\ name[p] = m.stamp.ino
         /\ m.stamp.ino \in Ino /\ m.stamp.ino # None /\ Is(m.stamp)
         /\ a.source \in Path /\ name[a.source] = a.source_stamp.ino /\ name[a.source] # None
         /\ a.source_stamp.ino \in Ino /\ a.source_stamp.ino # m.stamp.ino
         /\ Is(a.source_stamp) /\ a.source_stamp.mtime < clock /\ a.source_stamp.mtime \in Nat
         /\ Stamp(a.source) = a.source_stamp
         /\ file[a.source_stamp.ino].data = file[m.stamp.ino].data
         /\ Hit(index, a.source_stamp) => index[a.source_stamp.ino].hash = file[a.source_stamp.ino].data
         /\ device.how = "Link" => file[a.source_stamp.ino].mode = m.mode
<1>0. PICK a, m : a = job.action /\ m = job.action.member
  OBVIOUS
<1>1. /\ job # None /\ pass = "dedupe" /\ batch = {} /\ job.todo = m.paths
  BY <1>0 DEF IInv, PcInv, SwapInv
<1>2. Staged = {}
  BY <1>1 DEF Staged
<1>3. /\ m \in scan /\ m.stamp.mtime < clock
  BY <1>0, <1>1, JobFacts DEF IInv
<1>4. /\ m \in MemberType /\ m.paths \in SUBSET Path /\ m.stamp \in StampType /\ m.stamp.mtime \in Nat
      /\ Min(m.paths) \in m.paths /\ Min(m.paths) \in Path
  BY <1>3, MemberFacts DEF IInv
<1>5. a.source \in Path /\ a.source_stamp \in StampType /\ a.source_stamp.mtime < clock
  BY <1>0, <1>1, SourceFacts
<1>6. /\ \A p \in m.paths : Stamp(p) = m.stamp
      /\ a.source_stamp.ino # m.stamp.ino
      /\ Stamp(a.source) = a.source_stamp
      /\ device.how = "Link" => file[name[a.source]].mode = m.mode
  BY <1>0, <1>1 DEF SteadyParts, JobInv
<1>7. \A p \in m.paths : name[p] = m.stamp.ino /\ m.stamp.ino # None /\ m.stamp.ino \in Ino /\ Is(m.stamp)
  BY <1>4, <1>6, StampReads DEF IInv
<1>8. /\ name[a.source] = a.source_stamp.ino /\ name[a.source] # None
      /\ a.source_stamp.ino \in Ino /\ Is(a.source_stamp)
  BY <1>5, <1>6, StampReads DEF IInv
<1>9. file[a.source_stamp.ino].data = file[m.stamp.ino].data
  BY <1>0, <1>1, <1>4, <1>7, <1>8 DEF SteadyParts, PairInv, Acting
<1>10. Hit(index, a.source_stamp) => index[a.source_stamp.ino].hash = file[a.source_stamp.ino].data
  BY <1>8, TrueEntry DEF SteadyParts
<1>11. a.source_stamp.mtime \in Nat
  BY <1>5 DEF StampType
<1> QED BY <1>0, <1>1, <1>2, <1>3, <1>4, <1>5, <1>6, <1>7, <1>8, <1>9, <1>10, <1>11

LEMMA CopyGivesUp ==
  ASSUME IInv, Copy
  PROVE  \/ /\ device.how = "Clone" /\ CopyTo(job.action.member, job.action.source)
            /\ pc' = "held" /\ job' = job
         \/ /\ device.how = "Link"
            /\ temp' = [temp EXCEPT ![Min(job.action.member.paths)] = name[job.action.source]]
            /\ file' = [file EXCEPT ![name[job.action.source]].mtime = Max({@, job.action.member.stamp.mtime})]
            /\ name' = name /\ left' = left /\ pc' = "rename" /\ job' = job
         \/ GiveUp /\ UNCHANGED fsVars
BY DEF Copy

\* What is shared stands in, where it reads as what it replaces.
LEMMA SharedStandsIn ==
  ASSUME NEW a, NEW m, NEW i, job'.action = a, a.member = m, pass' = "dedupe",
         file'[i].data = file'[m.stamp.ino].data, file'[i].mode = m.mode,
         m.stamp.mtime <= file'[i].mtime, file'[i].mtime < clock',
         device'.how # "Link" => file'[i].mtime = m.stamp.mtime,
         Hit(index, a.source_stamp)' => index'[a.source_stamp.ino].hash = file'[i].data
  PROVE  StandsIn(i)'
BY DEF StandsIn

LEMMA CopySteady == ASSUME IInv, IInv', Steady, SteadyParts, Copy PROVE SteadyParts' /\ Unseen
<1>0. PICK a, m, first, i, s : /\ a = job.action /\ m = job.action.member /\ first = Min(m.paths)
                               /\ s = a.source_stamp /\ i = s.ino
  OBVIOUS
<1>1. /\ pc = "copy"
      /\ UNCHANGED <<device, clock, written, disk, scan, index, pass, plan, batch>>
  BY DEF Copy, outside
<1>2. /\ job # None /\ pass = "dedupe" /\ Staged = {} /\ batch = {} /\ job.todo = m.paths
      /\ m \in scan /\ m \in MemberType /\ m.paths \in SUBSET Path
      /\ m.stamp.mtime < clock /\ m.stamp.mtime \in Nat
      /\ first \in m.paths /\ first \in Path
      /\ \A p \in m.paths : Stamp(p) = m.stamp /\ name[p] = m.stamp.ino
      /\ m.stamp.ino \in Ino /\ m.stamp.ino # None /\ Is(m.stamp)
  BY <1>0, <1>1, PairFacts
<1>3. /\ a.source \in Path /\ name[a.source] = i /\ name[a.source] # None
      /\ i \in Ino /\ i # m.stamp.ino /\ Stamp(a.source) = s
      /\ Is(s) /\ s.mtime < clock /\ s.mtime \in Nat
      /\ file[i].data = file[m.stamp.ino].data
      /\ Hit(index, s) => index[i].hash = file[i].data
      /\ device.how = "Link" => file[i].mode = m.mode
  BY <1>0, <1>1, PairFacts
<1>4. ASSUME GiveUp, UNCHANGED fsVars
      PROVE  SteadyParts' /\ Unseen
  BY <1>1, <1>4, GiveUpSteady
<1>5. ASSUME job' = job, UnitInv', Aged, Unseen, JobInv'
      PROVE  SteadyParts' /\ Unseen
  <2>1. Acting' = Acting /\ Staged' = {}
    BY <1>1, <1>2, <1>5 DEF Acting, Staged
  <2>2. StagedInv'
    BY <2>1 DEF StagedInv
  <2> QED BY <1>1, <1>5, <2>1, <2>2, RunStep
<1>6. ASSUME device.how = "Clone", CopyTo(m, a.source), pc' = "held", job' = job
      PROVE  SteadyParts' /\ Unseen
  <2>1. /\ Aged /\ Unseen /\ name' = name
        /\ \A q \in Path : name[q] # None => file'[name[q]] = file[name[q]]
        /\ temp'[first] \in Ino
        /\ file'[temp'[first]].data = file[i].data
        /\ file'[temp'[first]].mtime = m.stamp.mtime
        /\ file'[temp'[first]].mode = m.mode
    <3>1. PICK q \in Path : name[q] = i /\ CopyTo(m, q)
      BY <1>3, <1>6
    <3>2. m \in scan /\ first = Min(m.paths)
      BY <1>0, <1>2
    <3> QED BY <3>1, <3>2, CopyAges
  <2>2. \A q \in Path : Stamp(q)' = Stamp(q)
    BY <2>1 DEF Stamp
  <2>3. file'[m.stamp.ino] = file[m.stamp.ino] /\ file'[i] = file[i]
    BY <1>2, <1>3, <2>1
  <2>4. PICK t : t = temp'[first]
    OBVIOUS
  <2>5. /\ job'.action = a /\ job'.todo = m.paths /\ Min(job'.action.member.paths) = first
        /\ Hit(index, s)' = Hit(index, s) /\ job'.action.member = m
    BY <1>0, <1>1, <1>2, <1>6 DEF Hit
  <2>6. (StandsIn(t))'
    <3>1. /\ pass' = "dedupe" /\ clock' = clock /\ index' = index /\ a.member = m
          /\ a.source_stamp = s /\ s.ino = i /\ m.stamp.mtime < clock /\ m.stamp.mtime \in Nat
      BY <1>0, <1>1, <1>2
    <3>2. /\ file'[t].data = file'[m.stamp.ino].data /\ file'[t].mode = m.mode
          /\ file'[t].mtime = m.stamp.mtime
      BY <1>3, <2>1, <2>3, <2>4
    <3>3. Hit(index, s)' => index'[i].hash = file'[t].data
      BY <1>3, <2>1, <2>4, <2>5, <3>1
    <3> QED BY <2>5, <3>1, <3>2, <3>3, SharedStandsIn
  <2>7. \A p \in m.paths : Stamp(p)' = m.stamp
    BY <1>2, <2>2
  <2>8. Stamp(a.source)' = s
    BY <1>3, <2>2
  <2>9. (StandsIn(temp[first]))'
    BY <2>4, <2>6
  <2>10. JobInv'
    <3>1. /\ a.source_stamp = s /\ s.ino # m.stamp.ino /\ a.member = m
          /\ pc' = "held" /\ device' = device /\ device.how = "Clone"
      BY <1>0, <1>1, <1>3, <1>6
    <3> QED BY <2>5, <2>7, <2>8, <2>9, <3>1 DEF JobInv
  <2>11. UnitInv'
    BY <1>1, <2>1 DEF SteadyParts, UnitInv
  <2> QED BY <1>5, <1>6, <2>1, <2>10, <2>11
<1>7. ASSUME device.how = "Link", temp' = [temp EXCEPT ![first] = i],
             file' = [file EXCEPT ![i].mtime = Max({@, m.stamp.mtime})],
             name' = name, pc' = "rename", job' = job
      PROVE  SteadyParts' /\ Unseen
  <2>1. /\ \A j \in Ino : j # i => file'[j] = file[j]
        /\ file[i] # None
        /\ file'[i].data = file[i].data /\ file'[i].mode = file[i].mode
        /\ file'[i].mtime \in {file[i].mtime, m.stamp.mtime}
        /\ file[i].mtime <= file'[i].mtime /\ m.stamp.mtime <= file'[i].mtime
    <3>1. PICK q \in Path : /\ name[q] = i /\ name[q] # None
                           /\ file' = [file EXCEPT ![name[q]].mtime = Max({@, m.stamp.mtime})]
      BY <1>3, <1>7
    <3> DEFINE t == m.stamp.mtime
    <3>2. TypeOK /\ LiveInv
      BY <1>2 DEF IInv
    <3>3. t \in Nat /\ t < clock
      BY <1>2
    <3>4. file' = [file EXCEPT ![name[q]].mtime = Max({@, t})]
      BY <3>1
    <3> HIDE DEF t
    <3>5. /\ \A j \in Ino : j # name[q] => file'[j] = file[j]
          /\ file[name[q]] # None /\ file[name[q]].mtime <= file'[name[q]].mtime
          /\ file'[name[q]].data = file[name[q]].data /\ file'[name[q]].mode = file[name[q]].mode
          /\ file'[name[q]].mtime \in {file[name[q]].mtime, t} /\ t <= file'[name[q]].mtime
      BY <3>1, <3>2, <3>3, <3>4, LinkedEffect
    <3> QED BY <3>1, <3>5 DEF t
  <2>2. Aged
    <3> SUFFICES ASSUME NEW j \in Ino, file'[j] # None
                 PROVE  /\ file[j] # None
                        /\ file[j].mtime <= file'[j].mtime
                        /\ file'[j].mode = file[j].mode
                        /\ file'[j].data = file[j].data
      BY DEF Aged
    <3>1. CASE j = i
      BY <2>1, <3>1
    <3>2. CASE j # i
      <4>1. file'[j] = file[j]
        BY <2>1, <3>2
      <4>2. file[j].mtime \in Nat
        BY <4>1, FileFacts DEF IInv
      <4> QED BY <4>1, <4>2
    <3> QED BY <3>1, <3>2
  <2>3. Unseen
    <3> SUFFICES ASSUME NEW q \in Path, name[q] # None
                 PROVE  /\ file'[name[q]].data = file[name[q]].data
                        /\ file'[name[q]].mode = file[name[q]].mode
                        /\ file[name[q]].mtime <= file'[name[q]].mtime
      BY <1>7 DEF Unseen
    <3>1. CASE name[q] = i
      BY <2>1, <3>1
    <3>2. CASE name[q] # i
      <4>1. name[q] \in Ino /\ file'[name[q]] = file[name[q]] /\ file[name[q]] \in FileType
        BY <2>1, <3>2, NameFacts DEF IInv
      <4>2. file[name[q]].mtime \in Nat
        BY <4>1 DEF FileType
      <4> QED BY <4>1, <4>2
    <3> QED BY <3>1, <3>2
  <2>4. \A p \in m.paths : Stamp(p)' = m.stamp
    <3>1. file'[m.stamp.ino] = file[m.stamp.ino]
      BY <1>2, <1>3, <2>1
    <3> QED BY <1>2, <1>7, <3>1 DEF Stamp
  <2>5. /\ job'.action = a /\ job'.todo = m.paths /\ Min(job'.action.member.paths) = first
        /\ Hit(index, s)' = Hit(index, s) /\ NextPath' = first /\ job'.action.member = m
    BY <1>0, <1>1, <1>2, <1>7 DEF Hit, NextPath
  <2>6. temp'[first] = i
    BY <1>2, <1>7 DEF IInv, TypeOK
  <2>7. file'[m.stamp.ino] = file[m.stamp.ino]
    BY <1>2, <1>3, <2>1
  <2>8. file'[i].mtime < clock
    <3>1. file[i].mtime = s.mtime /\ s.mtime < clock /\ m.stamp.mtime < clock
      BY <1>0, <1>2, <1>3 DEF Is
    <3> QED BY <2>1, <3>1
  <2>9. (StandsIn(i))'
    <3>1. /\ pass' = "dedupe" /\ clock' = clock /\ index' = index /\ a.member = m
          /\ a.source_stamp = s /\ s.ino = i /\ device' = device
      BY <1>0, <1>1, <1>2
    <3>2. /\ file'[i].data = file'[m.stamp.ino].data /\ file'[i].mode = m.mode
      BY <1>3, <1>7, <2>1, <2>7
    <3>3. Hit(index, s)' => index'[i].hash = file'[i].data
      BY <1>3, <2>1, <2>5, <3>1
    <3>4. device'.how = "Link" /\ m.stamp.mtime <= file'[i].mtime /\ file'[i].mtime < clock'
      BY <1>7, <2>1, <2>8, <3>1
    <3> QED BY <2>5, <3>1, <3>2, <3>3, <3>4, SharedStandsIn
  <2>10. JobInv'
    <3>1. (StandsIn(temp[NextPath]))'
      BY <2>5, <2>6, <2>9
    <3>2. /\ a.source_stamp = s /\ s.ino # m.stamp.ino /\ a.member = m /\ first \in m.paths
          /\ pc' = "rename"
      BY <1>0, <1>2, <1>3, <1>7
    <3> QED BY <2>4, <2>5, <3>1, <3>2 DEF JobInv
  <2>11. UnitInv'
    BY <1>1, <1>7 DEF SteadyParts, UnitInv
  <2> QED BY <1>5, <1>7, <2>2, <2>3, <2>10, <2>11
<1> QED BY <1>0, <1>3, <1>4, <1>6, <1>7, CopyGivesUp
LEMMA HeldStillSteady == ASSUME IInv, IInv', SteadyParts, HeldStill PROVE SteadyParts' /\ Unseen
<1>0. PICK a, first : a = job.action /\ first = Min(job.action.member.paths)
  OBVIOUS
<1>1. /\ pc = "held"
      /\ UNCHANGED <<device, clock, written, disk, scan, index, pass, plan, batch>>
      /\ \/ pc' = "rename" /\ UNCHANGED <<fsVars, job>>
         \/ Loses(first) /\ Turn
  BY <1>0, DropLoses DEF HeldStill, outside
<1>2. job # None /\ job.todo = a.member.paths /\ batch = {} /\ first = NextPath
  BY <1>0, <1>1 DEF IInv, PcInv, SwapInv, NextPath
<1>3. first \in a.member.paths
  BY <1>0, <1>2, JobFacts, MemberFacts DEF IInv
<1>4. CASE Loses(first) /\ Turn
  <2>1. Loses(NextPath)
    BY <1>2, <1>4
  <2> QED BY <1>1, <1>4, <2>1, DropTurnSteady
<1>5. CASE pc' = "rename" /\ UNCHANGED <<fsVars, job>>
  <2>1. Aged /\ Unseen /\ name' = name /\ temp' = temp /\ file' = file
    BY <1>5, StillFiles DEF fsVars
  <2>2. Staged' = {} /\ Acting' = Acting
    BY <1>1, <1>2, <1>5 DEF Staged, Acting
  <2>3. StagedInv' /\ UnitInv'
    BY <1>1, <2>1, <2>2 DEF StagedInv, SteadyParts, UnitInv
  <2>4. JobInv'
    <3>1. /\ \A p \in job.todo : Stamp(p) = a.member.stamp
          /\ a.source_stamp.ino # a.member.stamp.ino
          /\ StandsIn(temp[first])
      BY <1>0, <1>1, <1>2 DEF SteadyParts, JobInv
    <3>2. \A p : Stamp(p)' = Stamp(p)
      BY <2>1 DEF Stamp
    <3>3. (StandsIn(temp[first]))'
      BY <1>1, <1>5, <2>1, <3>1 DEF StandsIn, Is, Hit
    <3>4. NextPath' = first /\ first \in job'.todo /\ job'.action = a /\ job' = job
      BY <1>0, <1>2, <1>3, <1>5 DEF NextPath
    <3>5. (StandsIn(temp[NextPath]))'
      BY <3>3, <3>4
    <3> QED BY <1>0, <1>5, <3>1, <3>2, <3>4, <3>5 DEF JobInv
  <2> QED BY <1>1, <2>1, <2>2, <2>3, <2>4, RunStep
<1> QED BY <1>1, <1>4, <1>5

\* What goes in reads as what was there.
LEMMA RenameUnseen ==
  ASSUME IInv, SteadyParts, pc = "rename",
         name' = [name EXCEPT ![NextPath] = temp[NextPath]],
         temp' = [temp EXCEPT ![NextPath] = None],
         file' = Reaped(file)
  PROVE  Unseen /\ Aged
<1>0. PICK p, m, i : p = NextPath /\ m = job.action.member /\ i = temp[p]
  OBVIOUS
<1>1. /\ p \in Path /\ p \in job.todo /\ i \in Ino /\ file[i] \in FileType
      /\ name'[p] = i
      /\ \A q \in Path : q # p => name'[q] = name[q]
      /\ \A j \in Ino : file'[j] \in {file[j], None}
      /\ \A q \in Path : name'[q] # None => file'[name'[q]] = file[name'[q]]
  BY <1>0, RenameEffect
<1>2. Aged
  BY <1>1, StayingAges
<1>3. job # None /\ m \in scan /\ m.stamp \in StampType /\ m.stamp.mtime \in Nat
  BY <1>0, JobFacts, MemberFacts DEF IInv, PcInv
<1>4. Stamp(p) = m.stamp /\ StandsIn(i)
  BY <1>0, <1>1, <1>3 DEF SteadyParts, JobInv
<1>5. name[p] = m.stamp.ino /\ name[p] # None /\ Is(m.stamp) /\ file[name[p]].mtime = m.stamp.mtime
  BY <1>1, <1>3, <1>4, StampReads DEF IInv
<1>6. file[name[p]].mode = m.mode
  BY <1>3, <1>5 DEF SteadyParts, StampInv, Is
<1>7. /\ file[i].data = file[name[p]].data /\ file[i].mode = file[name[p]].mode
      /\ file[name[p]].mtime <= file[i].mtime
      /\ device.how # "Link" => file[i].mtime = file[name[p]].mtime
  BY <1>0, <1>4, <1>5, <1>6 DEF StandsIn
<1>8. ASSUME NEW q \in Path
      PROVE  /\ name'[q] = None <=> name[q] = None
             /\ name[q] # None =>
                  /\ file'[name'[q]].data = file[name[q]].data
                  /\ file'[name'[q]].mode = file[name[q]].mode
                  /\ file[name[q]].mtime <= file'[name'[q]].mtime
                  /\ device.how # "Link" => file'[name'[q]].mtime = file[name[q]].mtime
  <2>1. CASE q = p
    BY <1>1, <1>5, <1>7, <2>1, NoneIsNone
  <2>2. CASE q # p
    <3>1. name'[q] = name[q] /\ (name[q] # None => file'[name'[q]] = file[name[q]])
      BY <1>1, <2>2
    <3>2. name[q] # None => file[name[q]].mtime \in Nat
      BY NameFacts DEF IInv, FileType
    <3> QED BY <3>1, <3>2
  <2> QED BY <2>1, <2>2
<1> QED BY <1>2, <1>8 DEF Unseen

LEMMA RenameSteady == ASSUME IInv, IInv', Steady, SteadyParts, Rename PROVE SteadyParts' /\ Unseen
<1>0. PICK a, p, m, i, first : /\ a = job.action /\ p = NextPath /\ m = a.member /\ i = temp[p]
                               /\ first = Min(m.paths)
  OBVIOUS
<1>1. /\ pc = "rename"
      /\ UNCHANGED <<device, clock, written, disk, scan, index, pass, plan, batch>>
      /\ \/ /\ name' = [name EXCEPT ![NextPath] = temp[NextPath]]
            /\ temp' = [temp EXCEPT ![NextPath] = None]
            /\ file' = Reaped(file)
            /\ job' = [job EXCEPT !.todo = @ \ {NextPath}]
            /\ pc' \in {"tell", "link"}
         \/ Loses(NextPath) /\ Turn
  BY DropLoses DEF Rename, outside
<1>2. CASE Loses(NextPath) /\ Turn
  BY <1>1, <1>2, DropTurnSteady
<1>3. CASE /\ name' = [name EXCEPT ![NextPath] = temp[NextPath]]
           /\ temp' = [temp EXCEPT ![NextPath] = None]
           /\ file' = Reaped(file)
           /\ job' = [job EXCEPT !.todo = @ \ {NextPath}]
           /\ pc' \in {"tell", "link"}
  <2>1. /\ p \in Path /\ p \in job.todo /\ p \in m.paths /\ i \in Ino /\ file[i] \in FileType
        /\ name'[p] = i
        /\ \A q \in Path : q # p => name'[q] = name[q] /\ temp'[q] = temp[q]
        /\ \A j \in Ino : file'[j] \in {file[j], None}
        /\ \A q \in Path : name'[q] # None => file'[name'[q]] = file[name'[q]]
        /\ \A q \in Path : temp'[q] # None => file'[temp'[q]] = file[temp'[q]]
    BY <1>0, <1>1, <1>3, RenameEffect
  <2>2. Unseen /\ Aged
    BY <1>1, <1>3, RenameUnseen
  <2>3. /\ job # None /\ job \in JobType /\ m \in scan /\ m.stamp \in StampType /\ m.stamp.mtime < clock
        /\ job.todo \subseteq m.paths
        /\ m.paths \in SUBSET Path /\ first \in m.paths /\ first \in Path
    BY <1>0, <1>1, JobFacts, MemberFacts DEF IInv, PcInv
  <2>4. job'.action = a /\ job'.todo = job.todo \ {p} /\ job' # None
    BY <1>0, <1>3, <2>3, NoneIsNone DEF JobType
  <2>5. /\ \A q \in job.todo : Stamp(q) = m.stamp
        /\ a.source_stamp.ino # m.stamp.ino
        /\ StandsIn(i) /\ (first \notin job.todo => name[first] = i)
    BY <1>0, <1>1, <2>3 DEF SteadyParts, JobInv
  <2>6. first \in job.todo => first = p /\ job.todo = m.paths
    BY <1>0, <1>1, <2>3 DEF IInv, SwapInv, NextPath
  <2>7. name'[first] = i
    BY <2>1, <2>3, <2>5, <2>6
  <2>8. file'[i] = file[i] /\ i # None
    BY <2>1, NoneIsNone
  <2>9. (StandsIn(i))'
    <3>1. Is(m.stamp)' => Is(m.stamp) /\ file'[m.stamp.ino].data = file[m.stamp.ino].data
      BY <2>2, <2>3, StillIs DEF SteadyParts
    <3>2. /\ UNCHANGED <<device, clock, index, pass>> /\ job'.action = job.action
          /\ job.action.member = m
      BY <1>0, <1>1, <2>4
    <3> QED BY <2>5, <2>8, <3>1, <3>2 DEF StandsIn, Hit
  <2>10. JobInv'
    <3>1. \A q \in job'.todo : Stamp(q)' = m.stamp
      <4> SUFFICES ASSUME NEW q \in job.todo, q # p
                   PROVE  Stamp(q)' = Stamp(q)
        BY <2>4, <2>5
      <4>1. q \in Path
        BY <2>3
      <4>2. name'[q] = name[q] /\ (name[q] # None => file'[name[q]] = file[name[q]])
        BY <2>1, <4>1
      <4> QED BY <4>2 DEF Stamp
    <3>2. (name[first] # None /\ StandsIn(name[first]))'
      BY <2>7, <2>8, <2>9
    <3> QED BY <1>0, <1>3, <2>4, <2>5, <3>1, <3>2 DEF JobInv
  <2>11. StagedInv'
    <3>1. Staged' = Staged
      BY <1>1 DEF Staged
    <3> SUFFICES ASSUME NEW n \in Staged
                 PROVE  /\ ~Known(temp'[Min(n.paths)])
                        /\ Is(n.stamp)' => file'[temp'[Min(n.paths)]].data = file'[n.stamp.ino].data
      BY <1>1, <3>1 DEF StagedInv, Known
    <3>2. Min(n.paths) \in Path /\ Min(n.paths) # p /\ temp[Min(n.paths)] # None
      BY <1>0, <2>1, <2>3, JobAside DEF Private
    <3>3. temp'[Min(n.paths)] = temp[Min(n.paths)] /\ file'[temp[Min(n.paths)]] = file[temp[Min(n.paths)]]
      BY <2>1, <3>2
    <3> QED BY <2>2, <3>3, StagedOn
  <2>12. UnitInv'
    <3> SUFFICES ASSUME device.rewrites, NEW q \in Path, NEW r \in Path,
                        name'[q] # None, name'[q] = name'[r]
                 PROVE  UnitOf[q] = UnitOf[r]
      BY <1>1 DEF UnitInv
    <3>1. ASSUME NEW x \in Path, x # p, name[x] = i
          PROVE  UnitOf[x] = UnitOf[p]
      <4>1. first \notin job.todo
        <5> SUFFICES ASSUME first \in job.todo
                     PROVE  FALSE
          OBVIOUS
        <5>1. CopyAtHand
          BY <1>0, <1>1, <2>6 DEF CopyAtHand, Steady
        <5>2. Private(p)
          BY <1>0, <2>6, <5>1 DEF IInv, TempInv
        <5> QED BY <1>0, <3>1, <5>2 DEF Private
      <4>2. name[x] = name[first]
        BY <2>5, <3>1, <4>1
      <4>3. UnitOf[x] = UnitOf[first]
        BY <2>3, <2>8, <3>1, <4>2 DEF SteadyParts, UnitInv
      <4>4. UnitOf[first] = UnitOf[p]
        BY <2>1, <2>3 DEF IInv, ScanInv
      <4> QED BY <4>3, <4>4
    <3>2. CASE q # p /\ r # p
      BY <2>1, <3>2 DEF SteadyParts, UnitInv
    <3>3. CASE q = p \/ r = p
      BY <2>1, <3>1, <3>3
    <3> QED BY <3>2, <3>3
  <2>13. Acting' = Acting
    BY <1>0, <1>1, <2>3, <2>4 DEF Acting
  <2> QED BY <1>1, <2>2, <2>10, <2>11, <2>12, <2>13, RunStep
<1> QED BY <1>1, <1>2, <1>3

LEMMA LinkRestSteady == ASSUME IInv, IInv', SteadyParts, LinkRest PROVE SteadyParts' /\ Unseen
<1>0. PICK a, p, m, first : a = job.action /\ p = NextPath /\ m = a.member /\ first = Min(m.paths)
  OBVIOUS
<1>1. /\ pc = "link"
      /\ UNCHANGED <<device, clock, written, disk, scan, index, pass, plan, batch>>
      /\ \/ /\ name[first] # None
            /\ temp' = [temp EXCEPT ![p] = name[first]]
            /\ pc' = "rename" /\ name' = name /\ file' = file /\ job' = job
         \/ GiveUp /\ UNCHANGED fsVars
  BY <1>0 DEF LinkRest, outside
<1>2. CASE GiveUp /\ UNCHANGED fsVars
  BY <1>1, <1>2, GiveUpSteady
<1>3. CASE /\ name[first] # None
           /\ temp' = [temp EXCEPT ![p] = name[first]]
           /\ pc' = "rename" /\ name' = name /\ file' = file /\ job' = job
  <2>1. /\ job # None /\ m \in scan /\ job.todo # {} /\ p \in job.todo /\ p \in Path /\ p \in m.paths
        /\ first \notin job.todo
    BY <1>0, <1>1, JobFacts DEF IInv, PcInv, SwapInv
  <2>2. Unseen /\ Aged
    BY <1>3, SameFilesUnseen, StayingAges
  <2>3. temp'[p] = name[first] /\ \A q \in Path : q # p => temp'[q] = temp[q]
    BY <1>3, <2>1 DEF IInv, TypeOK
  <2>4. Staged' = Staged /\ Acting' = Acting /\ NextPath' = p
    BY <1>0, <1>1, <1>3 DEF Staged, Acting, NextPath
  <2>5. StagedInv'
    <3> SUFFICES ASSUME NEW n \in Staged
                 PROVE  /\ ~Known(temp'[Min(n.paths)])
                        /\ Is(n.stamp)' => file'[temp'[Min(n.paths)]].data = file'[n.stamp.ino].data
      BY <1>1, <2>4 DEF StagedInv, Known
    <3>1. Min(n.paths) \in Path /\ Min(n.paths) # p
      BY <1>0, <2>1, JobAside
    <3> QED BY <1>3, <2>2, <2>3, <3>1, StagedOn
  <2>6. JobInv'
    <3>1. /\ \A q \in job.todo : Stamp(q) = m.stamp
          /\ a.source_stamp.ino # m.stamp.ino
          /\ StandsIn(name[first])
      BY <1>0, <1>1, <2>1 DEF SteadyParts, JobInv
    <3>2. \A q : Stamp(q)' = Stamp(q)
      BY <1>3 DEF Stamp
    <3>3. PICK i : i = name[first]
      OBVIOUS
    <3>4. (StandsIn(i))'
      BY <1>1, <1>3, <3>1, <3>3 DEF StandsIn, Is, Hit
    <3>5. (StandsIn(temp[NextPath]))' /\ name'[first] = temp'[NextPath']
      BY <1>3, <2>3, <2>4, <3>3, <3>4
    <3> QED BY <1>0, <1>3, <2>1, <3>1, <3>2, <3>5 DEF JobInv
  <2>7. UnitInv'
    BY <1>1, <1>3 DEF SteadyParts, UnitInv
  <2> QED BY <1>1, <2>2, <2>4, <2>5, <2>6, <2>7, RunStep
<1> QED BY <1>1, <1>2, <1>3
----------------------------------------------------------------------------
(* Builds *)

\* A file that stands in for the group goes on doing so.
LEMMA StandsOn ==
  ASSUME IInv, SteadyParts, Aged, job # None, NEW i, StandsIn(i), file'[i] = file[i],
         UNCHANGED <<device, clock, scan, index, pass, job>>
  PROVE  StandsIn(i)'
<1>1. PICK m : m = job.action.member
  OBVIOUS
<1>2. m \in scan /\ m.stamp.mtime < clock
  BY <1>1, JobFacts DEF IInv
<1>3. Is(m.stamp)' => Is(m.stamp) /\ file'[m.stamp.ino].data = file[m.stamp.ino].data
  BY <1>2, StillIs DEF SteadyParts
<1> QED BY <1>1, <1>3 DEF StandsIn, Hit

\* A build takes the lock of the unit it writes in: what it does there, a run that has
\* locked other units does not notice.
LEMMA BuildStep ==
  ASSUME IInv, IInv', Steady, SteadyParts, Aged, temp' = temp,
         UNCHANGED <<device, clock, disk, runVars>>,
         \A q \in Path : UnitOf[q] \in locked =>
           name'[q] = name[q] /\ (name[q] # None => file'[name[q]] = file[name[q]]),
         \A r \in Path : temp[r] # None =>
           \/ file'[temp[r]] = file[temp[r]]
           \/ device.rewrites /\ \E x \in Path : temp[r] = name[x],
         UnitInv', NoForeignBytes'
  PROVE  SteadyParts'
<1>1. UNCHANGED <<pc, locked, scan, index, pass, plan, batch, job>>
  BY DEF runVars
<1>2. ReadsOn
  <2>1. \A m \in scan : \A q \in m.paths : q \in Path /\ UnitOf[q] \in locked
    BY MemberFacts DEF IInv
  <2> QED BY <2>1 DEF ReadsOn
<1>3. Acting' = Acting /\ Staged' = Staged
  BY <1>1 DEF Acting, Staged
<1>4. EntryInv(disk)' /\ EntryInv(index)' /\ StampInv' /\ ReadInv' /\ PairInv'
  BY <1>1, <1>2, <1>3, KnownStaysTrue DEF IInv
<1>5. \A r \in Path : Private(r) => file'[temp[r]] = file[temp[r]]
  BY DEF Private
<1>6. StagedInv'
  <2> SUFFICES ASSUME NEW n \in Staged
               PROVE  /\ ~Known(temp'[Min(n.paths)])
                      /\ Is(n.stamp)' => file'[temp'[Min(n.paths)]].data = file'[n.stamp.ino].data
    BY <1>1, <1>3 DEF StagedInv, Known
  <2>1. Private(Min(n.paths)) /\ Min(n.paths) \in Path
    BY BatchFacts, MemberFacts DEF IInv, TempInv
  <2> QED BY <1>5, <2>1, StagedOn
<1>7. JobInv'
  <2> SUFFICES ASSUME job # None
               PROVE  JobInv'
    BY <1>1 DEF JobInv
  <2>1. PICK a, m, first, next : /\ a = job.action /\ m = a.member /\ first = Min(m.paths)
                                 /\ next = NextPath
    OBVIOUS
  <2>2. m \in scan /\ first \in m.paths /\ \A q \in m.paths : q \in Path /\ UnitOf[q] \in locked
    BY <2>1, JobFacts, MemberFacts DEF IInv
  <2>3. \A q \in Path : UnitOf[q] \in locked => Stamp(q)' = Stamp(q)
    BY DEF Stamp
  <2>4. job.todo \subseteq m.paths /\ (job.todo # {} => next \in job.todo)
    BY <2>1, JobFacts DEF IInv
  <2>5. \A i : StandsIn(i) /\ file'[i] = file[i] => StandsIn(i)'
    BY <1>1, StandsOn
  <2>6. /\ \A q \in job.todo : Stamp(q) = m.stamp
        /\ a.source_stamp.ino # m.stamp.ino
        /\ pc \in {"copy", "held"} =>
             /\ Stamp(a.source) = a.source_stamp
             /\ device.how = "Link" => file[name[a.source]].mode = m.mode
        /\ pc = "held" => device.how = "Clone" /\ StandsIn(temp[first])
        /\ pc = "rename" => StandsIn(temp[next]) /\ (first \notin job.todo => name[first] = temp[next])
        /\ pc \in {"link", "tell"} => name[first] # None /\ StandsIn(name[first])
    BY <2>1 DEF SteadyParts, JobInv
  <2>7. pc \in {"copy", "held"} =>
          /\ Stamp(a.source)' = a.source_stamp
          /\ device.how = "Link" => file'[name'[a.source]].mode = m.mode
    <3> SUFFICES ASSUME pc \in {"copy", "held"}
                 PROVE  /\ Stamp(a.source)' = a.source_stamp
                        /\ device.how = "Link" => file'[name'[a.source]].mode = m.mode
      OBVIOUS
    <3>1. pass = "dedupe"
      BY DEF IInv, PcInv
    <3>2. PICK c \in scan : a.source \in Path /\ a.source \in c.paths /\ a.source_stamp \in StampType
      BY <2>1, <3>1, SourceFacts
    <3>3. UnitOf[a.source] \in locked
      BY <3>2, MemberFacts DEF IInv
    <3>4. name[a.source] # None
      BY <2>6, <3>2, StampReads DEF IInv
    <3> QED BY <2>3, <2>6, <3>2, <3>3, <3>4
  <2>8. pc = "held" => (StandsIn(temp[first]))'
    <3> SUFFICES ASSUME pc = "held"
                 PROVE  (StandsIn(temp[first]))'
      OBVIOUS
    <3>1. Private(first)
      BY <2>1 DEF IInv, TempInv, CopyAtHand
    <3>2. PICK t : t = temp[first]
      OBVIOUS
    <3>3. StandsIn(t) /\ file'[t] = file[t]
      BY <1>5, <2>2, <2>6, <3>1, <3>2
    <3> QED BY <2>5, <3>2, <3>3
  <2>9. pc \in {"link", "tell"} => (name[first] # None /\ StandsIn(name[first]))'
    <3> SUFFICES ASSUME pc \in {"link", "tell"}
                 PROVE  (name[first] # None /\ StandsIn(name[first]))'
      OBVIOUS
    <3>1. PICK t : t = name[first]
      OBVIOUS
    <3>2. name'[first] = t /\ t # None /\ file'[t] = file[t] /\ StandsIn(t)
      BY <2>2, <2>6, <3>1
    <3>3. StandsIn(t)'
      BY <2>5, <3>2
    <3> QED BY <3>2, <3>3
  <2>10. pc = "rename" =>
           (StandsIn(temp[NextPath]))' /\ (first \notin job'.todo => name'[first] = temp'[NextPath'])
    <3> SUFFICES ASSUME pc = "rename"
                 PROVE  /\ (StandsIn(temp[NextPath]))'
                        /\ first \notin job.todo => name'[first] = temp[next]
      BY <1>1, <2>1 DEF NextPath
    <3>1. next \in Path /\ NextPath' = next /\ next \in job.todo
      BY <1>1, <2>1, <2>2, <2>4 DEF IInv, SwapInv, NextPath
    <3>2. temp[next] # None
      BY <2>1 DEF IInv, TempInv
    <3>3. PICK t : t = temp[next]
      OBVIOUS
    <3>4. first \notin job.todo => name'[first] = t /\ file'[t] = file[t]
      BY <2>2, <2>6, <3>2, <3>3
    <3>5. first \in job.todo => file'[t] = file[t]
      <4> SUFFICES ASSUME first \in job.todo
                   PROVE  file'[t] = file[t]
        OBVIOUS
      <4>1. job.todo = m.paths /\ first = next
        BY <2>1 DEF IInv, SwapInv, NextPath
      <4>2. CASE device.how = "Link"
        <5>1. ~device.rewrites
          BY <4>2 DEF Steady
        <5> QED BY <3>1, <3>2, <3>3, <5>1
      <4>3. CASE device.how # "Link"
        <5>1. CopyAtHand
          BY <2>1, <4>1, <4>3 DEF CopyAtHand
        <5>2. Private(first)
          BY <2>1, <5>1 DEF IInv, TempInv
        <5> QED BY <1>5, <3>1, <3>3, <4>1, <5>2
      <4> QED BY <4>2, <4>3
    <3>6. StandsIn(t)'
      BY <2>5, <2>6, <3>3, <3>4, <3>5
    <3> QED BY <3>1, <3>3, <3>4, <3>6
  <2>11. \A q \in job.todo : Stamp(q)' = m.stamp
    BY <2>2, <2>3, <2>4, <2>6
  <2> QED BY <1>1, <2>1, <2>6, <2>7, <2>8, <2>9, <2>10, <2>11 DEF JobInv
<1> QED BY <1>4, <1>6, <1>7 DEF SteadyParts
\* A build holds the lock of the unit it writes in, so no run has it.
LEMMA BuildsApart ==
  ASSUME Steady, NEW p \in Path, MayBuild(p)
  PROVE  UnitOf[p] \notin locked
BY DEF Steady, MayBuild

\* What is written at a path counts for it.
LEMMA Writes ==
  ASSUME IInv, NEW S, NEW d \in Data, Wrote(S, d)
  PROVE  /\ \A q \in Path : written[q] \subseteq written'[q]
         /\ \A q \in Path : q \in S => d \in written'[q]
BY DEF Wrote

LEMMA BuildCreateSteady ==
  ASSUME IInv, IInv', Steady, SteadyParts, NEW p \in Path, NEW d \in Data, BuildCreate(p, d)
  PROVE  SteadyParts'
<1>1. PICK i \in NewIno :
        /\ i \in Ino /\ file[i] = None
        /\ name'[p] = i /\ \A q \in Path : q # p => name'[q] = name[q]
        /\ temp' = temp
        /\ file'[i] = New(d, clock, p)
        /\ \A j \in Ino : j # i => file'[j] \in {file[j], None}
        /\ \A q \in Path : name[q] # None => name[q] # i
        /\ \A q \in Path : q # p /\ name[q] # None => file'[name[q]] = file[name[q]]
        /\ \A q \in Path : temp[q] # None => temp[q] # i /\ file'[temp[q]] = file[temp[q]]
  BY CreateEffect
<1>2. UNCHANGED <<device, clock, disk, runVars>> /\ MayBuild(p) /\ Wrote(Aliases(p), d)
  BY DEF BuildCreate
<1>3. Aged
  <2>1. ~Known(i)
    BY NewInoUnknown DEF Steady
  <2> QED BY <1>1, <2>1, StayingAges
<1>4. \A q \in Path : UnitOf[q] \in locked =>
        name'[q] = name[q] /\ (name[q] # None => file'[name[q]] = file[name[q]])
  BY <1>1, <1>2, BuildsApart
<1>5. UnitInv'
  BY <1>1, <1>2 DEF SteadyParts, UnitInv
<1>6. NoForeignBytes'
  <2>1. p \in Aliases(p)
    BY DEF Aliases
  <2>2. /\ \A q \in Path : written[q] \subseteq written'[q]
        /\ d \in written'[p]
    BY <1>2, <2>1, Writes
  <2>3. file'[i].data = d
    BY <1>1 DEF New
  <2> SUFFICES ASSUME NEW q \in Path, name'[q] # None
               PROVE  file'[name'[q]].data \in written'[q]
    BY DEF NoForeignBytes, Bytes
  <2>4. CASE q = p
    BY <1>1, <2>2, <2>3, <2>4
  <2>5. CASE q # p
    <3>1. name[q] # None /\ file'[name'[q]].data = Bytes(q)
      BY <1>1, <2>5 DEF Bytes
    <3> QED BY <2>2, <3>1 DEF SteadyParts, NoForeignBytes
  <2> QED BY <2>4, <2>5
<1> QED BY <1>1, <1>2, <1>3, <1>4, <1>5, <1>6, BuildStep

LEMMA BuildRewriteSteady ==
  ASSUME IInv, IInv', Steady, SteadyParts, NEW p \in Path, NEW d \in Data, BuildRewrite(p, d)
  PROVE  SteadyParts'
<1>0. PICK i : i = name[p]
  OBVIOUS
<1>1. /\ name' = name /\ temp' = temp /\ i \in Ino /\ i # None /\ file[i] \in FileType
      /\ file'[i].data = d /\ file'[i].mtime = clock /\ file'[i].mode = file[i].mode
      /\ \A j \in Ino : j # i => file'[j] = file[j]
  BY <1>0, RewriteEffect, NoneIsNone
<1>2. /\ UNCHANGED <<device, clock, disk, runVars>> /\ MayBuild(p) /\ device.rewrites
      /\ Wrote(UNION {Aliases(q) : q \in Links(name, i)}, d)
  BY <1>0 DEF BuildRewrite
<1>3. Aged
  <2> SUFFICES ASSUME NEW j \in Ino, file'[j] # None
               PROVE  /\ file[j] # None /\ file[j].mtime <= file'[j].mtime
                      /\ file'[j].mode = file[j].mode
                      /\ file'[j].data = file[j].data \/ file'[j].mtime = clock
    BY DEF Aged
  <2>1. CASE j = i
    <3>1. file[i] # None /\ file[i].mtime <= clock
      BY <1>1, NoneIsNone, FileFacts DEF IInv
    <3> QED BY <1>1, <2>1, <3>1
  <2>2. CASE j # i
    <3>1. file'[j] = file[j]
      BY <1>1, <2>2
    <3>2. file[j].mtime \in Nat
      BY <3>1, FileFacts DEF IInv
    <3> QED BY <3>1, <3>2
  <2> QED BY <2>1, <2>2
<1>4. \A q \in Path : UnitOf[q] \in locked =>
        name'[q] = name[q] /\ (name[q] # None => file'[name[q]] = file[name[q]])
  <2> SUFFICES ASSUME NEW q \in Path, UnitOf[q] \in locked, name[q] # None
               PROVE  file'[name[q]] = file[name[q]]
    BY <1>1
  <2>1. name[q] # i
    BY <1>0, <1>1, <1>2, BuildsApart DEF SteadyParts, UnitInv
  <2> QED BY <1>1, <2>1, NameFacts DEF IInv
<1>5. \A r \in Path : temp[r] # None =>
        \/ file'[temp[r]] = file[temp[r]]
        \/ device.rewrites /\ \E x \in Path : temp[r] = name[x]
  BY <1>0, <1>1, <1>2, NameFacts DEF IInv
<1>6. UnitInv'
  BY <1>1, <1>2 DEF SteadyParts, UnitInv
<1>7. NoForeignBytes'
  <2>1. \A q \in Links(name, i) : q \in UNION {Aliases(r) : r \in Links(name, i)}
    <3>1. \A q \in Links(name, i) : q \in Aliases(q)
      BY DEF Aliases
    <3> QED BY <3>1
  <2>2. /\ \A q \in Path : written[q] \subseteq written'[q]
        /\ \A q \in Links(name, i) : d \in written'[q]
    BY <1>2, <2>1, Writes DEF Links
  <2> SUFFICES ASSUME NEW q \in Path, name[q] # None
               PROVE  file'[name[q]].data \in written'[q]
    BY <1>1 DEF NoForeignBytes, Bytes
  <2>3. CASE name[q] = i
    BY <1>1, <2>2, <2>3 DEF Links
  <2>4. CASE name[q] # i
    <3>1. file'[name[q]].data = Bytes(q)
      BY <1>1, <2>4, NameFacts DEF IInv
    <3> QED BY <2>2, <3>1 DEF SteadyParts, NoForeignBytes
  <2> QED BY <2>3, <2>4
<1> QED BY <1>1, <1>2, <1>3, <1>4, <1>5, <1>6, <1>7, BuildStep

\* A name that goes, and maybe comes back for another file: no file is written.
LEMMA RenamingBuild ==
  ASSUME IInv, IInv', Steady, SteadyParts, NEW p \in Path, MayBuild(p),
         \A q \in Path : q # p => name'[q] = name[q],
         temp' = temp, file' = Reaped(file),
         UNCHANGED <<device, clock, disk, runVars>>,
         UnitInv',
         \A q \in Path : written[q] \subseteq written'[q],
         name'[p] # None => file[name'[p]].data \in written'[p]
  PROVE  SteadyParts'
<1>1. name' \in [Path -> Ino \cup {None}] /\ temp' \in [Path -> Ino \cup {None}]
  BY DEF IInv, TypeOK
<1>2. /\ \A i \in Ino : file'[i] \in {file[i], None}
      /\ \A q \in Path : name'[q] # None => file'[name'[q]] = file[name'[q]]
      /\ \A q \in Path : temp[q] # None => file'[temp[q]] = file[temp[q]]
  BY <1>1, ReapedHolds DEF IInv
<1>3. Aged
  BY <1>2, StayingAges
<1>4. \A q \in Path : UnitOf[q] \in locked =>
        name'[q] = name[q] /\ (name[q] # None => file'[name[q]] = file[name[q]])
  BY <1>2, BuildsApart
<1>5. NoForeignBytes'
  <2> SUFFICES ASSUME NEW q \in Path, name'[q] # None
               PROVE  file[name'[q]].data \in written'[q]
    BY <1>2 DEF NoForeignBytes, Bytes
  <2>1. CASE q = p
    BY <2>1
  <2>2. CASE q # p
    BY <2>2 DEF SteadyParts, NoForeignBytes, Bytes
  <2> QED BY <2>1, <2>2
<1> QED BY <1>2, <1>3, <1>4, <1>5, BuildStep

LEMMA BuildLinkSteady ==
  ASSUME IInv, IInv', Steady, SteadyParts, NEW p \in Path, NEW q \in Path, BuildLink(p, q)
  PROVE  SteadyParts'
<1>1. /\ device.links = "any" \/ UnitOf[p] = UnitOf[q]
      /\ name[q] # None /\ MayBuild(p)
      /\ name' = [name EXCEPT ![p] = name[q]] /\ temp' = temp /\ file' = Reaped(file)
      /\ Wrote(Aliases(p), Bytes(q))
      /\ UNCHANGED <<device, clock, disk, runVars>>
  BY DEF BuildLink
<1>2. name'[p] = name[q] /\ \A r \in Path : r # p => name'[r] = name[r]
  BY <1>1 DEF IInv, TypeOK
<1>3. UnitInv'
  <2> SUFFICES ASSUME device.rewrites, NEW x \in Path, NEW y \in Path, name'[x] # None, name'[x] = name'[y]
               PROVE  UnitOf[x] = UnitOf[y]
    BY <1>1 DEF UnitInv
  <2>1. UnitOf[p] = UnitOf[q]
    BY <1>1 DEF Steady
  <2>2. \A r, s \in Path : name[r] # None /\ name[r] = name[s] => UnitOf[r] = UnitOf[s]
    BY DEF SteadyParts, UnitInv
  <2> QED BY <1>2, <2>1, <2>2
<1>4. Bytes(q) \in Data /\ Bytes(q) = file[name'[p]].data
  BY <1>1, <1>2, NameFacts DEF IInv, FileType
<1>5. p \in Aliases(p)
  BY DEF Aliases
<1>6. (\A r \in Path : written[r] \subseteq written'[r]) /\ Bytes(q) \in written'[p]
  BY <1>1, <1>4, <1>5, Writes
<1> QED BY <1>1, <1>2, <1>3, <1>4, <1>6, RenamingBuild

LEMMA BuildDeleteSteady ==
  ASSUME IInv, IInv', Steady, SteadyParts, NEW p \in Path, BuildDelete(p)
  PROVE  SteadyParts'
<1>1. /\ MayBuild(p)
      /\ name' = [name EXCEPT ![p] = None] /\ temp' = temp /\ file' = Reaped(file)
      /\ written' = written
      /\ UNCHANGED <<device, clock, disk, runVars>>
  BY DEF BuildDelete
<1>2. name'[p] = None /\ \A r \in Path : r # p => name'[r] = name[r]
  BY <1>1 DEF IInv, TypeOK
<1>3. UnitInv'
  BY <1>1, <1>2 DEF SteadyParts, UnitInv
<1> QED BY <1>1, <1>2, <1>3, RenamingBuild
----------------------------------------------------------------------------
(* The invariant, and what follows *)

\* The first files are as nobody knew them: the index is empty, and nothing runs.
LEMMA InitSteady == ASSUME Init PROVE SteadyParts
<1>1. /\ job = None /\ plan = {} /\ batch = {} /\ scan = {} /\ disk = NoIndex /\ index = NoIndex
  BY DEF Init
<1>2. PICK leader \in Leaders, bytes \in Contents :
        /\ name = leader
        /\ \A p \in Path : bytes[p] = bytes[leader[p]]
        /\ file = [i \in Ino |-> IF \E p \in Path : leader[p] = i THEN New(bytes[i], 0, i) ELSE None]
        /\ written = [p \in Path |-> {bytes[p]}]
  BY DEF Init
<1>3. UnitInv
  BY <1>2 DEF UnitInv, Leaders
<1>4. NoForeignBytes
  <2> SUFFICES ASSUME NEW p \in Path
               PROVE  Bytes(p) \in written[p]
    BY DEF NoForeignBytes
  <2>1. leader[p] \in Path /\ leader[p] \in Ino /\ leader[p] # None
    BY PathsAreNumbers, NoneIsNone DEF Leaders
  <2>2. file[name[p]] = New(bytes[leader[p]], 0, leader[p])
    BY <1>2, <2>1
  <2>3. Bytes(p) = bytes[leader[p]]
    BY <1>2, <2>1, <2>2 DEF Bytes, New
  <2> QED BY <1>2, <2>3
<1>5. EntryInv(disk) /\ EntryInv(index)
  BY <1>1 DEF EntryInv, NoIndex
<1>6. StampInv /\ ReadInv /\ PairInv /\ StagedInv /\ JobInv
  BY <1>1 DEF StampInv, ReadInv, PairInv, Acting, StagedInv, Staged, JobInv
<1> QED BY <1>3, <1>4, <1>5, <1>6 DEF SteadyParts

LEMMA DeviceStays == ASSUME [Next]_vars PROVE device' = device /\ Steady' = Steady
<1>1. device' = device
  BY DEF Next, vars, outside, Begin, Run, Sweep, Swept, SweepFails, Plan, LetGo, StageBatch, Stage, Clone, Backend,
         Finish, BatchDone, StartReplace, Copy, HeldStill, Rename, LinkRest, Tell, TellFails,
         RewrittenGone, EndPass, Release, Save, Crash, Build, BuildCreate, BuildRewrite, BuildLink,
         BuildDelete, Tick
<1> QED BY <1>1 DEF Steady

\* Whatever is not a build keeps the parts, and goes unseen.
LEMMA OwnStepSteady ==
  ASSUME IInv, IInv', Steady, SteadyParts,
         (\E units \in SUBSET Unit : Begin(units)) \/ Run \/ Crash \/ Tick
  PROVE  SteadyParts' /\ Unseen
<1>1. CASE \E units \in SUBSET Unit : Begin(units)
  BY <1>1, BeginSteady
<1>2. CASE \E p \in Path : Sweep(p)
  BY <1>2, SweepSteady
<1>3. CASE Swept \/ Plan \/ LetGo \/ StageBatch
  BY <1>3, SweptSteady, PlanSteady, LetGoSteady, StageBatchSteady
<1>4. CASE Stage \/ Clone \/ Backend \/ Finish \/ BatchDone
  BY <1>4, StageSteady, CloneSteady, BackendSteady, FinishSteady, BatchDoneSteady
<1>5. CASE StartReplace \/ Copy \/ HeldStill
  BY <1>5, StartReplaceSteady, CopySteady, HeldStillSteady
<1>6. CASE Rename \/ LinkRest \/ Tell
  BY <1>6, RenameSteady, LinkRestSteady, TellSteady
<1>7. CASE SweepFails \/ TellFails \/ RewrittenGone \/ EndPass
  BY <1>7, SweepFailsSteady, TellFailsSteady, RewrittenGoneSteady, EndPassSteady
<1>8. CASE Release \/ Save \/ Crash \/ Tick
  BY <1>8, ReleaseSteady, SaveSteady, CrashSteady, TickSteady
<1> QED BY <1>1, <1>2, <1>3, <1>4, <1>5, <1>6, <1>7, <1>8 DEF Run

LEMMA BuildSteady == ASSUME IInv, IInv', Steady, SteadyParts, Build PROVE SteadyParts'
BY BuildCreateSteady, BuildRewriteSteady, BuildLinkSteady, BuildDeleteSteady DEF Build

LEMMA StutterSteady == ASSUME SteadyParts, UNCHANGED vars PROVE SteadyParts'
<1>1. UNCHANGED <<name, temp, file, device, clock, written, disk, scan, index, pass, plan, batch, job, pc>>
  BY DEF vars, fsVars, outside, runVars
<1>2. (UnitInv /\ EntryInv(disk) /\ EntryInv(index) /\ StampInv /\ ReadInv /\ NoForeignBytes)'
  BY <1>1 DEF SteadyParts, UnitInv, EntryInv, StampInv, ReadInv, Is, NoForeignBytes, Bytes
<1>3. (PairInv /\ StagedInv)'
  BY <1>1 DEF SteadyParts, PairInv, Acting, Is, StagedInv, Staged, Known
<1>4. JobInv'
  BY <1>1 DEF SteadyParts, JobInv, Stamp, NextPath, StandsIn, Is, Hit
<1> QED BY <1>2, <1>3, <1>4 DEF SteadyParts

LEMMA SteadyHolds == ASSUME IInv, IInv', Steady, SteadyParts, [Next]_vars PROVE SteadyParts'
<1>1. CASE UNCHANGED vars
  BY <1>1, StutterSteady
<1>2. CASE Build
  BY <1>2, BuildSteady
<1>3. CASE (\E units \in SUBSET Unit : Begin(units)) \/ Run \/ Crash \/ Tick
  BY <1>3, OwnStepSteady
<1> QED BY <1>1, <1>2, <1>3 DEF Next

\* On a steady device every part of SteadyInv holds through every run, crash and build:
\* what the index and the scan say of an inode is so if it still reads as then, and what
\* goes in for a group is what was there (replace_inode and rewrite in engine.rs).
THEOREM SteadyInductive == Spec => []SteadyInv
<1>1. Init => SteadyInv
  BY InitSteady, PartsAreSteadyInv
<1>2. IInv /\ IInv' /\ SteadyInv /\ [Next]_vars => SteadyInv'
  <2> SUFFICES ASSUME IInv, IInv', SteadyInv, [Next]_vars, Steady'
               PROVE  SteadyParts'
    BY PartsAreSteadyInv DEF SteadyInv, SteadyParts
  <2> QED BY DeviceStays, SteadyHolds, PartsAreSteadyInv
<1> QED BY <1>1, <1>2, EngineInductive, PTL DEF Spec

\* No reader of a path of a steady device ever finds bytes there that no build put
\* there, however the hashes of other files are shared and whenever a run dies.
THEOREM BytesAreOwn == Spec => [](Steady => NoForeignBytes)
<1>1. SteadyInv => (Steady => NoForeignBytes)
  BY DEF SteadyInv
<1> QED BY <1>1, SteadyInductive, PTL

\* What an entry of the hash index is hit by has the bytes of its hash: dedupe may group
\* by the index without reading a file (dedupe.rs groups by HashIndex::get).
THEOREM IndexTellsTruth == Spec => [](Steady => IndexSound)
<1>1. ASSUME IInv, SteadyInv, Steady
      PROVE  IndexSound
  <2>1. ASSUME NEW ix, EntryInv(ix)
        PROVE  Sound(ix)
    <3> SUFFICES ASSUME NEW p \in Path, Stamp(p) # NoStamp,
                        ix[Stamp(p).ino] # None, ix[Stamp(p).ino].mtime = Stamp(p).mtime
                 PROVE  ix[Stamp(p).ino].hash = Bytes(p)
      BY DEF Sound
    <3>1. name[p] # None
      BY DEF Stamp
    <3>2. /\ name[p] \in Ino /\ file[name[p]] # None
          /\ Stamp(p).ino = name[p] /\ Stamp(p).mtime = file[name[p]].mtime
          /\ Bytes(p) = file[name[p]].data
      BY <1>1, <3>1, NameFacts DEF IInv
    <3> QED BY <2>1, <3>2 DEF EntryInv
  <2>2. EntryInv(disk) /\ EntryInv(index)
    BY <1>1 DEF SteadyInv
  <2> QED BY <2>1, <2>2 DEF IndexSound
<1>2. IInv /\ SteadyInv => (Steady => IndexSound)
  BY <1>1
<1> QED BY <1>2, EngineInductive, SteadyInductive, PTL

----------------------------------------------------------------------------
(* What is promised to builds *)

PromiseTypes ==
  \A p \in Path : /\ Bytes(p) \in Data \cup {None}
                  /\ name[p] # None => file[name[p]].mode \in Mode
                  /\ Stamp(p).mtime \in Nat

LEMMA PromiseTyped == IInv => PromiseTypes
<1> SUFFICES ASSUME IInv, NEW p \in Path
             PROVE  /\ Bytes(p) \in Data \cup {None}
                    /\ name[p] # None => file[name[p]].mode \in Mode
                    /\ Stamp(p).mtime \in Nat
  BY DEF PromiseTypes
<1>1. CASE name[p] = None
  BY <1>1 DEF Bytes, Stamp, NoStamp
<1>2. CASE name[p] # None
  <2>1. /\ file[name[p]] \in FileType
        /\ Stamp(p).mtime = file[name[p]].mtime
        /\ Bytes(p) = file[name[p]].data
    BY <1>2, NameFacts DEF IInv
  <2> QED BY <2>1 DEF FileType
<1> QED BY <1>1, <1>2

\* What no reader sees is a Tend of BuildDirs, or no step of it.
LEMMA UnseenTends ==
  ASSUME Unseen, UNCHANGED <<builds, device>>, PromiseTypes'
  PROVE  [Promise!Next]_(Promise!vars)
<1> DEFINE content == [p \in Path |-> IF Locked(p) THEN Bytes(p) ELSE None]
           mode == [p \in Path |-> IF Locked(p) /\ name[p] # None THEN file[name[p]].mode ELSE ModeOf[p]]
           mtime == [p \in Path |-> IF Locked(p) THEN Stamp(p).mtime ELSE 0]
<1>1. \A p \in Path : Locked(p)' = Locked(p)
  BY DEF Locked
<1>2. content' = content
  BY <1>1 DEF Unseen, Bytes
<1>3. mode' = mode
  BY <1>1 DEF Unseen
<1>4. CASE device.how = "Link"
  <2>1. mtime' \in [Path -> Nat]
    BY DEF PromiseTypes
  <2>2. \A p \in Path : mtime'[p] >= mtime[p]
    BY <1>1 DEF Unseen, Stamp, NoStamp
  <2> QED BY <1>2, <1>3, <1>4, <2>1, <2>2 DEF Promise!Next, Promise!Tend
<1>5. CASE device.how # "Link"
  <2>1. mtime' = mtime
    BY <1>1, <1>5 DEF Unseen, Stamp, NoStamp
  <2> QED BY <1>2, <1>3, <1>5, <2>1 DEF Promise!vars
<1> QED BY <1>4, <1>5

\* To builds and readers a run is invisible, but for an mtime that moves forward where two
\* names come to share an inode: every step of builds is theirs, and every step of the
\* tool, crashes included, is BuildDirs' Tend or none at all (DESIGN.md, invariants 3 and 4).
THEOREM RunsAreInvisible == Spec => (Steady => KeepsPromise)
<1>1. Init => Promise!Init
  <2> SUFFICES ASSUME Init
               PROVE  Promise!Init
    OBVIOUS
  <2>1. PromiseTypes /\ builds = 0
    BY InitHolds, PromiseTyped DEF Init
  <2> QED BY <2>1, EngineAssumption DEF Promise!Init, PromiseTypes
<1>2. IInv => PromiseTypes
  BY PromiseTyped
<1>3. IInv /\ PromiseTypes' /\ IInv' /\ SteadyInv /\ Steady /\ [Next]_vars => [Promise!Next]_(Promise!vars)
  <2> SUFFICES ASSUME IInv, PromiseTypes', IInv', SteadyInv, Steady, [Next]_vars
               PROVE  [Promise!Next]_(Promise!vars)
    OBVIOUS
  <2>1. CASE Build
    <3>1. builds' = builds + 1 /\ device' = device
      BY <2>1 DEF Build, BuildCreate, BuildRewrite, BuildLink, BuildDelete, MayBuild
    <3>2. Promise!Build
      BY <3>1, EngineAssumption DEF Promise!Build, PromiseTypes
    <3> QED BY <3>2 DEF Promise!Next
  <2>2. CASE (\E units \in SUBSET Unit : Begin(units)) \/ Run \/ Crash \/ Tick \/ UNCHANGED vars
    <3>1. Unseen
      <4>1. CASE UNCHANGED vars
        BY <4>1, StillFiles DEF vars
      <4> QED BY <2>2, <4>1, OwnStepSteady, PartsAreSteadyInv
    <3>2. builds' = builds /\ device' = device
      BY <2>2 DEF vars, outside, Begin, Run, Sweep, Swept, SweepFails, Plan, LetGo, StageBatch, Stage, Clone, Backend,
         Finish, BatchDone, StartReplace, Copy, HeldStill, Rename, LinkRest, Tell, TellFails,
         RewrittenGone, EndPass, Release, Save, Crash, Tick
    <3> QED BY <3>1, <3>2, UnseenTends
  <2> QED BY <2>1, <2>2 DEF Next
<1>4. Steady /\ [Next]_vars => Steady'
  BY DeviceStays
<1> QED BY <1>1, <1>2, <1>3, <1>4, EngineInductive, SteadyInductive, PTL DEF Spec, KeepsPromise, Promise!Spec

----------------------------------------------------------------------------
(* What a run that nothing disturbed has done *)

\* Names and their files as they were are scanned as they were.
LEMMA ScanStays ==
  ASSUME name' = name, left' = left, locked' = locked,
         \A q \in Path : name[q] # None =>
           file'[name[q]] = file[name[q]] /\ Links(temp', name[q]) = Links(temp, name[q])
  PROVE  Scan(locked)' = Scan(locked)
<1> DEFINE Scanned == {q \in Path : UnitOf[q] \in locked /\ name[q] # None}
<1>1. \A p \in Scanned : Group(UnitOf[p], name[p])' = Group(UnitOf[p], name[p])
  <2> SUFFICES ASSUME NEW p \in Scanned
               PROVE  Group(UnitOf[p], name[p])' = Group(UnitOf[p], name[p])
    OBVIOUS
  <2>1. file'[name[p]] = file[name[p]] /\ Links(temp', name[p]) = Links(temp, name[p])
    OBVIOUS
  <2>2. Links(name', name[p]) = Links(name, name[p]) /\ Beside(left', name[p]) = Beside(left, name[p])
    OBVIOUS
  <2> QED BY <2>1, <2>2 DEF Group, Nlink
<1>2. Scan(locked)' = {Group(UnitOf[p], name[p])' : p \in Scanned}
  BY DEF Scan, Group, Nlink
<1>3. Scan(locked) = {Group(UnitOf[p], name[p]) : p \in Scanned}
  BY DEF Scan
<1> HIDE DEF Scanned
<1> QED BY <1>1, <1>2, <1>3

\* A temp name that comes is next to a locked path, and only while a group is swapped in.
LEMMA TempsCome ==
  ASSUME IInv, [Next]_vars, NEW p \in Path, temp'[p] # None
  PROVE  \/ temp[p] # None
         \/ UnitOf[p] \in locked /\ locked' = locked /\ pc' \in {"stage", "held", "rename"}
<1> USE DEF IInv
<1>0. ASSUME NEW q \in Path, temp' = [temp EXCEPT ![q] = None]
      PROVE  temp[p] # None
  BY <1>0 DEF TypeOK
<1>1. ASSUME NEW m \in scan, NEW i, temp' = [temp EXCEPT ![Min(m.paths)] = i]
      PROVE  temp[p] # None \/ UnitOf[p] \in locked
  BY <1>1, MemberFacts DEF TypeOK
<1>2. CASE Clone
  <2>0. PICK a : a = FirstAction(Unstaged)
    OBVIOUS
  <2>1. /\ pc = "clone" /\ pc' = "stage" /\ locked' = locked
        /\ CopyTo(a.member, Min(a.member.paths)) \/ temp' = temp
    BY <1>2, <2>0 DEF Clone, CopyLeft, fsVars
  <2>3. a.member \in scan
    BY <2>0, <2>1, UnstagedFacts DEF PcInv
  <2>4. CASE CopyTo(a.member, Min(a.member.paths))
    <3>1. PICK i : temp' = [temp EXCEPT ![Min(a.member.paths)] = i]
      BY <2>4 DEF CopyTo
    <3> QED BY <1>1, <2>1, <2>3, <3>1
  <2> QED BY <2>1, <2>4
<1>3. CASE Copy
  <2>1. /\ pc = "copy" /\ locked' = locked /\ job # None
    BY <1>3 DEF Copy, PcInv
  <2>2. job.action.member \in scan
    BY <2>1, JobFacts
  <2>3. \/ temp' = temp
        \/ pc' \in {"held", "rename"} /\ \E i : temp' = [temp EXCEPT ![Min(job.action.member.paths)] = i]
    BY <1>3, CopyGivesUp DEF CopyTo, fsVars
  <2> QED BY <1>1, <2>1, <2>2, <2>3
<1>4. CASE LinkRest
  <2>1. /\ pc = "link" /\ locked' = locked /\ job # None /\ job.todo # {}
    BY <1>4 DEF LinkRest, PcInv, SwapInv
  <2>2. \/ temp' = temp
        \/ pc' = "rename" /\ \E i : temp' = [temp EXCEPT ![NextPath] = i]
    BY <1>4 DEF LinkRest, fsVars
  <2>3. NextPath \in Path /\ UnitOf[NextPath] \in locked
    BY <2>1, JobFacts, MemberFacts
  <2> QED BY <2>1, <2>2, <2>3 DEF TypeOK
<1>5. CASE \/ \E q \in Path : Sweep(q)
           \/ Finish \/ HeldStill \/ Rename
  <2>1. \/ \E q : temp' = [temp EXCEPT ![q] = None]
        \/ temp' = temp
    BY <1>5 DEF Sweep, Finish, HeldStill, Rename, DropTemp, fsVars
  <2> QED BY <2>1 DEF TypeOK
<1>6. CASE \/ \E units \in SUBSET Unit : Begin(units)
           \/ Swept \/ SweepFails \/ Plan \/ LetGo \/ StageBatch \/ Stage \/ Backend \/ BatchDone
           \/ StartReplace \/ Tell \/ TellFails \/ RewrittenGone \/ EndPass \/ Release \/ Save
           \/ Crash \/ Tick \/ Build \/ UNCHANGED vars
  <2>1. temp' = temp
    BY <1>6 DEF Begin, Swept, SweepFails, Plan, LetGo, StageBatch, Stage, Backend, BatchDone, StartReplace, Tell,
                TellFails, RewrittenGone, EndPass, Release, Save, Crash, Tick, Build, BuildCreate,
                BuildRewrite, BuildLink, BuildDelete, fsVars, vars
  <2> QED BY <2>1
<1> QED BY <1>2, <1>3, <1>4, <1>5, <1>6 DEF Next, Run

\* Where no run is between its end and its sweep, one is cut short or lets go.
LEMMA StillAtIt ==
  ASSUME [Next]_vars, pc \notin {"idle", "sweep", "save"}, ~Release, ~TellFails, ~Crash
  PROVE  locked' = locked /\ pc' \notin {"idle", "sweep", "save"}
<1>1. CASE \/ \E p \in Path : Sweep(p)
           \/ \E units \in SUBSET Unit : Begin(units)
           \/ Swept \/ SweepFails \/ Save \/ Tick
  BY <1>1 DEF Sweep, Begin, Swept, SweepFails, Save, Tick
<1>2. CASE Build
  BY <1>2 DEF Build, BuildCreate, BuildRewrite, BuildLink, BuildDelete, runVars
<1>3. CASE UNCHANGED vars
  BY <1>3 DEF vars, runVars
<1>4. CASE Plan \/ LetGo \/ StageBatch \/ Stage \/ Clone \/ Backend \/ Finish \/ BatchDone \/ StartReplace
  BY <1>4 DEF Plan, LetGo, StageBatch, Stage, Clone, Backend, Finish, BatchDone, StartReplace
<1>5. CASE Copy \/ HeldStill \/ Rename \/ LinkRest \/ Tell \/ RewrittenGone \/ EndPass
  BY <1>5 DEF Copy, HeldStill, Rename, LinkRest, Tell, RewrittenGone, EndPass, GiveUp, Turn
<1> QED BY <1>1, <1>2, <1>3, <1>4, <1>5 DEF Next, Run

\* A run counts what builds do when it begins, and builds only add to it.
LEMMA BegunBefore ==
  ASSUME IInv, [Next]_vars
  PROVE  \/ builds' = builds /\ report'.begun \in {report.begun, builds, 0}
         \/ Build /\ builds' = builds + 1 /\ report' = report
<1>1. report \in ReportType
  BY DEF IInv, TypeOK
<1>2. /\ [report EXCEPT !.applied = FALSE, !.skipped = {}].begun = report.begun
      /\ [report EXCEPT !.interrupted = TRUE].begun = report.begun
      /\ [report EXCEPT !.applied = TRUE, !.progressed = TRUE].begun = report.begun
      /\ [report EXCEPT !.rounds = @ + 1, !.progressed = FALSE].begun = report.begun
  BY <1>1 DEF ReportType
<1> DEFINE Counted == report'.begun = report.begun
<1>3. ASSUME NEW m, Skip(m) PROVE Counted
  BY <1>1, <1>3 DEF Skip, ReportType
<1>4. ASSUME NEW m, NEW p, DropTemp(m, p) PROVE Counted
  <2>1. \/ Skip(m)
        \/ report' = [report EXCEPT !.skipped = @ \cup {m}, !.kept = @ \cup {p}]
    BY <1>4 DEF DropTemp
  <2> QED BY <1>1, <1>3, <2>1 DEF ReportType
<1>5. ASSUME NEW m, NEW p, CopyLeft(m, p) PROVE Counted
  <2>1. report' = [report EXCEPT !.skipped = @ \cup {m}, !.kept = @ \cup {Min(m.paths)}]
    BY <1>5 DEF CopyLeft
  <2> QED BY <1>1, <2>1 DEF ReportType
<1>6. CASE \/ \E units \in SUBSET Unit : Begin(units)
           \/ Save \/ SweepFails \/ TellFails \/ Crash
  BY <1>6 DEF Begin, Save, SweepFails, TellFails, Crash, Lost, Report, outside
<1>7. CASE Build
  BY <1>7 DEF Build, BuildCreate, BuildRewrite, BuildLink, BuildDelete, MayBuild, runVars
<1>8. CASE UNCHANGED vars \/ Tick \/ \E p \in Path : Sweep(p)
  BY <1>8 DEF vars, runVars, outside, Tick, Sweep
<1>9. CASE Swept \/ Plan \/ LetGo \/ StageBatch \/ Backend \/ BatchDone
  BY <1>2, <1>9 DEF Swept, SweepFails, Plan, LetGo, StageBatch, Backend, BatchDone, outside
<1>10. CASE Stage \/ Clone \/ Finish \/ StartReplace
  <2>1. CASE Stage \/ StartReplace
    BY <1>3, <2>1 DEF Stage, StartReplace, outside
  <2>2. CASE Clone
    <3>1. UNCHANGED outside
      BY <2>2 DEF Clone
    <3>2. \/ report' = report
          \/ \E m : Skip(m)
          \/ \E m, p : CopyLeft(m, p)
      BY <2>2 DEF Clone
    <3>3. Counted
      BY <1>3, <1>5, <3>2
    <3> QED BY <3>1, <3>3 DEF outside
  <2>3. CASE Finish
    <3>1. UNCHANGED outside
      BY <2>3 DEF Finish
    <3>2. report' = report \/ \E m, p : DropTemp(m, p)
      BY <2>3 DEF Finish
    <3>3. Counted
      BY <1>4, <3>2
    <3> QED BY <3>1, <3>3 DEF outside
  <2> QED BY <1>10, <2>1, <2>2, <2>3
<1>11. CASE Copy \/ HeldStill \/ Rename \/ LinkRest \/ RewrittenGone
  <2>1. UNCHANGED outside
    BY <1>11 DEF Copy, HeldStill, Rename, LinkRest, RewrittenGone
  <2>2. \/ report' = report
        \/ \E m : Skip(m)
        \/ \E m, p : DropTemp(m, p)
    BY <1>11 DEF Copy, HeldStill, Rename, LinkRest, RewrittenGone, GiveUp
  <2>3. Counted
    BY <1>3, <1>4, <2>2
  <2> QED BY <2>1, <2>3 DEF outside
<1>12. CASE Tell \/ EndPass \/ Release
  BY <1>2, <1>12 DEF Tell, EndPass, Release, outside
<1> QED BY <1>6, <1>7, <1>8, <1>9, <1>10, <1>11, <1>12 DEF Next, Run

\* A run comes to its end after the dedupe pass, or because it is to let go.
LEMMA ReleaseAfter ==
  ASSUME IInv, CleanInv, [Next]_vars, pc' = "release"
  PROVE  pass' = "dedupe" \/ report'.interrupted
<1>1. CASE LetGo
  BY <1>1 DEF LetGo, IInv, TypeOK, ReportType
<1>2. CASE EndPass
  BY <1>2 DEF EndPass, IInv, TypeOK
<1>3. CASE Build
  BY <1>3 DEF Build, BuildCreate, BuildRewrite, BuildLink, BuildDelete, runVars, CleanInv
<1>4. CASE UNCHANGED vars
  BY <1>4 DEF vars, runVars, CleanInv
<1>5. CASE \/ \E p \in Path : Sweep(p)
           \/ \E units \in SUBSET Unit : Begin(units)
           \/ Swept \/ Plan \/ StageBatch \/ Stage \/ Clone \/ Backend \/ Finish \/ BatchDone
  BY <1>5 DEF Sweep, Begin, Swept, SweepFails, Plan, StageBatch, Stage, Clone, Backend, Finish, BatchDone, runVars
<1>6. CASE \/ StartReplace \/ Copy \/ HeldStill \/ Rename \/ LinkRest \/ Tell \/ TellFails
           \/ SweepFails \/ RewrittenGone \/ Release \/ Save \/ Crash \/ Tick
  BY <1>6 DEF StartReplace, Copy, HeldStill, Rename, LinkRest, Tell, TellFails, SweepFails,
              RewrittenGone, Release, Save, Crash, Tick, GiveUp, Turn, Lost, runVars
<1> QED BY <1>1, <1>2, <1>3, <1>4, <1>5, <1>6 DEF Next, Run

\* Outside compress and between its groups a dedupe pass has no temp file.
LEMMA NoTemps ==
  ASSUME IInv, CleanInv, pc \notin {"stage", "clone", "finish", "held", "rename"},
         pass = "dedupe" \/ pc \notin {"link", "tell"}
  PROVE  \A p \in Path : temp[p] = None
<1>1. batch = {}
  BY DEF IInv, PcInv
<1> QED BY <1>1 DEF IInv, TempInv, Staged, CleanInv

\* Where no call fails, no temp file is left beside a path.
LEMMA NothingGetsLeft ==
  ASSUME IInv, ~MayFail, CleanInv, [Next]_vars
  PROVE  left' = left
<1>1. ~Refused
  BY DEF Refused
<1>2. CASE \E p \in Path : Sweep(p)
  BY <1>2 DEF Sweep, CleanInv
<1>3. CASE Clone \/ Finish \/ Copy \/ HeldStill \/ Rename \/ LinkRest
  BY <1>1, <1>3 DEF Clone, Finish, Copy, CopyTo, CopyLeft, DropTemp, HeldStill, Rename, LinkRest, fsVars
<1>4. CASE \/ \E units \in SUBSET Unit : Begin(units)
           \/ Swept \/ SweepFails \/ Plan \/ LetGo \/ StageBatch \/ Stage \/ Backend \/ BatchDone
           \/ StartReplace \/ Tell \/ TellFails \/ RewrittenGone \/ EndPass \/ Release \/ Save
           \/ Crash \/ Tick \/ Build \/ UNCHANGED vars
  BY <1>4 DEF Begin, Swept, SweepFails, Plan, LetGo, StageBatch, Stage, Backend, BatchDone,
              StartReplace, Tell, TellFails, RewrittenGone, EndPass, Release, Save, Crash, Tick,
              Build, BuildCreate, BuildRewrite, BuildLink, BuildDelete, fsVars, vars
<1> QED BY <1>2, <1>3, <1>4 DEF Next, Run

LEMMA CleanHolds ==
  ASSUME IInv, ~MayFail, SteadyParts, CleanInv, [Next]_vars, crashes' = 0
  PROVE  CleanInv'
<1>1. ~Crash
  BY DEF Crash, IInv, TypeOK
<1>2. ~TellFails
  BY DEF TellFails, SteadyParts, JobInv, IInv, PcInv
<1>3. report'.begun <= builds'
  <2>1. builds \in Nat /\ report.begun \in Nat /\ report.begun <= builds
    BY EngineAssumption DEF IInv, TypeOK, ReportType, CleanInv
  <2> QED BY <2>1, BegunBefore
<1>4. ASSUME NEW p \in Path, temp'[p] # None
      PROVE  pc' \notin {"idle", "sweep", "save"} /\ UnitOf[p] \in locked'
  <2>1. CASE temp[p] # None
    <3>1. pc \notin {"idle", "sweep", "save"} /\ UnitOf[p] \in locked
      BY <2>1 DEF CleanInv
    <3>2. ~Release
      BY <2>1, NoTemps DEF Release
    <3> QED BY <1>1, <1>2, <3>1, <3>2, StillAtIt
  <2>2. CASE temp[p] = None
    BY <1>4, <2>2, TempsCome
  <2> QED BY <2>1, <2>2
<1>5. \A p \in Path : left'[p] = {}
  BY NothingGetsLeft DEF CleanInv
<1> QED BY <1>3, <1>4, <1>5, ReleaseAfter DEF CleanInv

\* What of a file a scan reads: where the copies of a run are its own, its steps before
\* a group is swapped in change none of it.
SameFiles ==
  /\ name' = name /\ left' = left /\ locked' = locked
  /\ \A q \in Path : name[q] # None =>
       file'[name[q]] = file[name[q]] /\ Links(temp', name[q]) = Links(temp, name[q])

LEMMA UnchangedFiles == ASSUME UNCHANGED fsVars, locked' = locked PROVE SameFiles
BY DEF SameFiles, fsVars

LEMMA CopiedFiles ==
  ASSUME IInv, NEW m \in scan, NEW p \in Path, CopyTo(m, p), locked' = locked, temp[Min(m.paths)] = None
  PROVE  SameFiles
<1>1. m \in MemberType /\ m.paths # {} /\ Min(m.paths) \in Path
  BY MemberFacts DEF IInv
<1>2. name' = name /\ left' = left
  BY DEF CopyTo
<1>3. PICK i \in NewIno :
        /\ temp' = [temp EXCEPT ![Min(m.paths)] = i]
        /\ \A q \in Path : name[q] # None => name[q] # i /\ file'[name[q]] = file[name[q]]
  BY <1>1, CopyEffect DEF IInv
<1>4. ASSUME NEW q \in Path, name[q] # None
      PROVE  Links(temp', name[q]) = Links(temp, name[q])
  <2>1. name[q] # i
    BY <1>3, <1>4
  <2> QED BY <1>1, <1>3, <1>4, <2>1 DEF Links, IInv, TypeOK
<1> QED BY <1>2, <1>3, <1>4 DEF SameFiles

LEMMA DroppedFiles ==
  ASSUME IInv, ~MayFail, NEW m, NEW p \in Path, Private(p), DropTemp(m, p), locked' = locked
  PROVE  SameFiles
<1>1. /\ name' = name /\ left' = left /\ temp' = [temp EXCEPT ![p] = None]
      /\ \A q \in Path : name[q] # None => file'[name[q]] = file[name[q]]
  BY DropEffect DEF IInv, DropTemp, Refused
<1>2. ASSUME NEW q \in Path, name[q] # None
      PROVE  Links(temp', name[q]) = Links(temp, name[q])
  <2>1. name[q] # temp[p]
    BY <1>2 DEF Private
  <2> QED BY <1>1, <1>2, <2>1 DEF Links, IInv, TypeOK
<1> QED BY <1>1, <1>2 DEF SameFiles

LEMMA BackendFiles == ASSUME IInv, Backend PROVE SameFiles
<1>1. name' = name /\ temp' = temp /\ left' = left /\ locked' = locked
  BY DEF Backend
<1>2. ASSUME NEW q \in Path, name[q] # None
      PROVE  file'[name[q]] = file[name[q]]
  <2>1. name[q] \in Ino
    BY <1>2 DEF IInv, TypeOK
  <2>2. ~\E m \in Staged : temp[Min(m.paths)] = name[q]
    BY DEF IInv, TempInv, Private
  <2> QED BY <2>1, <2>2, BackendEffect
<1> QED BY <1>1, <1>2 DEF SameFiles

\* No step but a rename, the link before it and a build disturbs what a scan reads.
LEMMA CloneFiles == ASSUME IInv, ~MayFail, CleanInv, Clone PROVE SameFiles
<1>0. PICK a : a = FirstAction(Unstaged)
  OBVIOUS
<1>1. /\ pc = "clone" /\ locked' = locked
      /\ CopyTo(a.member, Min(a.member.paths)) \/ UNCHANGED fsVars
  BY <1>0 DEF Clone, CopyLeft, Refused
<1>2. a \in plan /\ a.member \in scan
  BY <1>0, <1>1, UnstagedFacts DEF IInv, PcInv
<1>3. Min(a.member.paths) \in Path /\ UnitOf[Min(a.member.paths)] \in locked
  BY <1>2, MemberFacts DEF IInv
<1>4. temp[Min(a.member.paths)] = None
  <2> SUFFICES ASSUME NEW m \in Staged, Min(a.member.paths) = Min(m.paths)
               PROVE  FALSE
    BY <1>1, <1>3 DEF IInv, TempInv
  <2>1. m \in scan /\ m # a.member
    BY <1>2, BatchFacts DEF IInv, Staged
  <2> QED BY <1>2, <2>1, Apart DEF IInv
<1> QED BY <1>1, <1>2, <1>3, <1>4, CopiedFiles, UnchangedFiles

\* Where the files are as the scan of a run that met no build has them.
FreshAt ==
  \/ pc \in {"sweep", "plan"}
  \/ pc \in {"act", "stage", "clone", "finish", "copy", "held"} /\ ~report.applied

LEMMA FreshStays ==
  ASSUME FreshInv, FreshAt, report.begun = builds, SameFiles, scan' = scan
  PROVE  scan' = Scan(locked)'
<1>1. scan = Scan(locked)
  BY DEF FreshInv, FreshAt
<1>2. Scan(locked)' = Scan(locked)
  BY ScanStays DEF SameFiles
<1> QED BY <1>1, <1>2

LEMMA FreshHolds ==
  ASSUME IInv, ~MayFail, SteadyParts, CleanInv, FreshInv, [Next]_vars, crashes' = 0
  PROVE  FreshInv'
<1> SUFFICES ASSUME report'.begun = builds', FreshAt'
             PROVE  scan' = Scan(locked)'
  BY DEF FreshInv, FreshAt
<1>0. report \in ReportType /\ builds \in Nat
  BY EngineAssumption DEF IInv, TypeOK
<1>1. /\ \A m : [report EXCEPT !.skipped = @ \cup {m}].begun = report.begun
      /\ \A m : [report EXCEPT !.skipped = @ \cup {m}].applied = report.applied
      /\ [report EXCEPT !.applied = FALSE, !.skipped = {}].begun = report.begun
      /\ [report EXCEPT !.applied = TRUE, !.progressed = TRUE].applied
      /\ [report EXCEPT !.rounds = @ + 1, !.progressed = FALSE].begun = report.begun
  BY <1>0 DEF ReportType
<1>2. ~Build
  <2>1. report.begun <= builds /\ report.begun \in Nat
    BY <1>0 DEF CleanInv, ReportType
  <2>2. Build => builds' = builds + 1 /\ report' = report
    BY DEF Build, BuildCreate, BuildRewrite, BuildLink, BuildDelete, MayBuild, runVars
  <2> QED BY <1>0, <2>1, <2>2
<1>3. ~SweepFails /\ ~TellFails /\ ~Crash /\ ~Release /\ ~Save /\ ~Tick /\ ~LetGo
  BY DEF FreshAt, SweepFails, TellFails, Crash, Lost, Release, Save, Tick, LetGo, runVars
<1>4. ~RewrittenGone
  BY DEF RewrittenGone, SteadyParts, JobInv, IInv, PcInv
<1>5. ~\E p \in Path : Sweep(p)
  BY NoTemps DEF Sweep, CleanInv
<1>6. ~Tell /\ ~Rename /\ ~LinkRest
  <2>1. ~Tell
    BY <1>1 DEF Tell, FreshAt
  <2>2. ~Rename
    BY DEF Rename, FreshAt
  <2>3. ~LinkRest
    BY DEF LinkRest, FreshAt, SteadyParts, JobInv, IInv, PcInv
  <2> QED BY <2>1, <2>2, <2>3
<1>7. CASE \E units \in SUBSET Unit : Begin(units)
  <2>1. PICK units \in SUBSET Unit : Begin(units)
    BY <1>7
  <2>2. locked' = units /\ scan' = Scan(units) /\ UNCHANGED fsVars
    BY <2>1 DEF Begin
  <2> QED BY <2>2 DEF Scan, Group, Nlink, Links, Beside, fsVars
<1>8. CASE Swept \/ Plan \/ StageBatch \/ BatchDone
  <2>1. /\ FreshAt /\ report.begun = builds
        /\ UNCHANGED fsVars /\ locked' = locked /\ scan' = scan
    BY <1>1, <1>8 DEF FreshAt, Swept, SweepFails, Plan, StageBatch, BatchDone, outside
  <2> QED BY <2>1, UnchangedFiles, FreshStays
<1>9. CASE StartReplace
  <2>1. /\ FreshAt /\ report.begun = builds
        /\ UNCHANGED fsVars /\ locked' = locked /\ scan' = scan
    BY <1>1, <1>9 DEF FreshAt, StartReplace, Skip, outside
  <2> QED BY <2>1, UnchangedFiles, FreshStays
<1>10. CASE Stage \/ Clone \/ Backend
  <2>1. FreshAt /\ report.begun = builds /\ scan' = scan
    BY <1>1, <1>10 DEF FreshAt, Stage, Clone, CopyLeft, Refused, Backend, Skip, outside
  <2>2. Stage => SameFiles
    BY UnchangedFiles DEF Stage
  <2> QED BY <1>10, <2>1, <2>2, CloneFiles, BackendFiles, FreshStays
<1>11. CASE Finish
  <2>0. PICK m : m = FirstStaged
    OBVIOUS
  <2>1. /\ FreshAt /\ report.begun = builds /\ scan' = scan /\ locked' = locked
        /\ pc = "finish" /\ batch # {} /\ DropTemp(m, Min(m.paths))
    <3>1. /\ pc = "finish" /\ batch # {}
          /\ scan' = scan /\ locked' = locked /\ builds' = builds
      BY <1>11 DEF Finish, outside
    <3>2. DropTemp(m, Min(m.paths)) /\ pc' = pc
      BY <1>11, <2>0 DEF FreshAt, Finish
    <3>3. report'.begun = report.begun /\ report'.applied = report.applied
      BY <1>1, <3>2 DEF DropTemp, Refused, Skip
    <3> QED BY <3>1, <3>2, <3>3 DEF FreshAt
  <2>2. Private(Min(m.paths)) /\ Min(m.paths) \in Path
    BY <2>0, <2>1, FinishFacts
  <2> QED BY <2>1, <2>2, DroppedFiles, FreshStays
<1>12. CASE Copy
  <2>1. /\ pc = "copy" /\ job # None /\ pass = "dedupe" /\ scan' = scan /\ locked' = locked
        /\ builds' = builds
    BY <1>12 DEF Copy, outside, IInv, PcInv
  <2>2. /\ CopyTo(job.action.member, job.action.source) \/ UNCHANGED fsVars
        /\ report.begun = builds /\ ~report.applied
    <3>1. \/ CopyTo(job.action.member, job.action.source) /\ report' = report
          \/ UNCHANGED fsVars /\ Skip(job.action.member)
      BY <1>12 DEF Copy, FreshAt, GiveUp, Turn
    <3>2. pc' \notin {"sweep", "plan"}
      BY <1>12, <2>1 DEF Copy, GiveUp, Turn
    <3> QED BY <1>1, <2>1, <3>1, <3>2 DEF FreshAt, Skip
  <2>3. FreshAt
    BY <2>1, <2>2 DEF FreshAt
  <2>4. job.action.member \in scan /\ job.action.source \in Path
    BY <2>1, JobFacts, SourceFacts DEF IInv
  <2>5. Min(job.action.member.paths) \in Path
    BY <2>4, MemberFacts DEF IInv
  <2>6. temp[Min(job.action.member.paths)] = None
    BY <2>1, <2>5, NoTemps
  <2>7. SameFiles
    BY <2>1, <2>2, <2>4, <2>6, CopiedFiles, UnchangedFiles
  <2> QED BY <2>1, <2>2, <2>3, <2>7, FreshStays
<1>13. CASE HeldStill
  <2>1. /\ pc = "held" /\ job # None /\ pass = "dedupe" /\ scan' = scan /\ locked' = locked
        /\ builds' = builds
    BY <1>13 DEF HeldStill, outside, IInv, PcInv
  <2>2. /\ DropTemp(job.action.member, Min(job.action.member.paths))
        /\ Skip(job.action.member) /\ pc' = "act"
    BY <1>13, <2>1 DEF HeldStill, FreshAt, DropTemp, Refused, Turn
  <2>3. FreshAt /\ report.begun = builds
    BY <1>1, <2>1, <2>2 DEF FreshAt, Skip
  <2>4. Private(Min(job.action.member.paths))
    BY <2>1 DEF IInv, TempInv, CopyAtHand
  <2>5. Min(job.action.member.paths) \in Path
    BY <2>1, JobFacts, MemberFacts DEF IInv
  <2> QED BY <2>1, <2>2, <2>3, <2>4, <2>5, DroppedFiles, FreshStays
<1>14. CASE EndPass
  <2>1. /\ pc = "act" /\ UNCHANGED fsVars /\ locked' = locked
        /\ scan' = IF report.applied THEN Scan(locked) ELSE scan
        /\ report.begun = builds
    BY <1>1, <1>14 DEF EndPass, outside
  <2>2. Scan(locked)' = Scan(locked)
    BY <2>1, UnchangedFiles, ScanStays DEF SameFiles
  <2> QED BY <2>1, <2>2 DEF FreshInv
<1>15. CASE UNCHANGED vars
  <2>1. /\ FreshAt /\ report.begun = builds
        /\ UNCHANGED fsVars /\ locked' = locked /\ scan' = scan
    BY <1>15 DEF FreshAt, vars, runVars, outside
  <2> QED BY <2>1, UnchangedFiles, FreshStays
<1> QED
  BY <1>2, <1>3, <1>4, <1>5, <1>6, <1>7, <1>8, <1>9, <1>10, <1>11, <1>12, <1>13, <1>14, <1>15
  DEF Next, Run

\* The candidates whose hash an index knows.
Hashed(ix) == {m \in Candidates : Hit(ix, m.stamp)}

\* Of what a dedupe pass plans: there is one canonical member to each hash, it is not
\* planned, and every other is but for those already shared.
LEMMA DedupePlanIs ==
  ASSUME scan \in SUBSET MemberType, NEW ix \in [Ino -> EntryType \cup {None}],
         \A m \in scan : m.paths # {},
         \A m, n \in scan : m # n => m.paths \cap n.paths = {}
  PROVE  \E canonical :
           /\ \A m \in Hashed(ix) : canonical[m] \in Hashed(ix)
           /\ \A m \in Hashed(ix) : ix[canonical[m].stamp.ino].hash = ix[m.stamp.ino].hash
           /\ \A m, n \in Hashed(ix) :
                ix[m.stamp.ino].hash = ix[n.stamp.ino].hash => canonical[m] = canonical[n]
           /\ DedupePlan(ix) =
                {[source |-> Min(canonical[m].paths), source_stamp |-> canonical[m].stamp, member |-> m] :
                   m \in {g \in Hashed(ix) : g # canonical[g] /\ ~ix[g.stamp.ino].shared}}
<1> DEFINE twins(m) == {g \in Hashed(ix) : ix[g.stamp.ino].hash = ix[m.stamp.ino].hash}
           chosen(T) == CHOOSE c \in T : \A g \in T \ {c} : Before(c, g, ix)
           canonical == [m \in Hashed(ix) |-> chosen(twins(m))]
<1>1. Hashed(ix) \subseteq scan /\ \A g \in Hashed(ix) : ix[g.stamp.ino] # None
  BY DEF Hashed, Candidates, Hit
<1>2. ASSUME NEW m \in Hashed(ix)
      PROVE  chosen(twins(m)) \in twins(m)
  <2> DEFINE T == twins(m)
  <2>1. m \in T /\ T \subseteq Hashed(ix)
    OBVIOUS
  <2>2. T \in SUBSET MemberType /\ T # {}
    BY <1>1, <2>1
  <2>3. /\ \A g \in T : g.paths # {} /\ ix[g.stamp.ino] # None
        /\ \A g, n \in T : g # n => g.paths \cap n.paths = {}
    BY <1>1, <2>1
  <2> HIDE DEF T
  <2>4. \E e \in T : \A g \in T \ {e} : Before(e, g, ix)
    BY <2>2, <2>3, CanonicalExists
  <2>5. chosen(T) \in T
    BY <2>4
  <2> QED BY <2>5 DEF T
<1>3. \A m \in Hashed(ix) :
        canonical[m] \in Hashed(ix) /\ ix[canonical[m].stamp.ino].hash = ix[m.stamp.ino].hash
  <2> SUFFICES ASSUME NEW m \in Hashed(ix)
               PROVE  canonical[m] \in Hashed(ix) /\ ix[canonical[m].stamp.ino].hash = ix[m.stamp.ino].hash
    OBVIOUS
  <2>1. canonical[m] = chosen(twins(m))
    OBVIOUS
  <2> HIDE DEF canonical, chosen
  <2> QED BY <1>2, <2>1
<1>4. ASSUME NEW m \in Hashed(ix), NEW n \in Hashed(ix), ix[m.stamp.ino].hash = ix[n.stamp.ino].hash
      PROVE  canonical[m] = canonical[n]
  <2>1. twins(m) = twins(n)
    BY <1>4
  <2>2. canonical[m] = chosen(twins(m)) /\ canonical[n] = chosen(twins(n))
    OBVIOUS
  <2> HIDE DEF canonical, chosen, twins
  <2> QED BY <2>1, <2>2
<1>5. DedupePlan(ix) =
        {[source |-> Min(canonical[m].paths), source_stamp |-> canonical[m].stamp, member |-> m] :
           m \in {g \in Hashed(ix) : g # canonical[g] /\ ~ix[g.stamp.ino].shared}}
  <2>1. DedupePlan(ix) =
          {[source |-> Min(chosen(twins(m)).paths), source_stamp |-> chosen(twins(m)).stamp, member |-> m] :
             m \in {g \in Hashed(ix) : g # chosen(twins(g)) /\ ~ix[g.stamp.ino].shared}}
    BY DEF DedupePlan, Hashed
  <2>2. \A m \in Hashed(ix) : canonical[m] = chosen(twins(m))
    OBVIOUS
  <2> HIDE DEF canonical, chosen, twins
  <2> QED BY <2>1, <2>2
<1> HIDE DEF canonical
<1> QED BY <1>3, <1>4, <1>5

\* A group without links from elsewhere, in a scan of the files as they are, has every
\* name of its inode.
LEMMA OwnsItsNames ==
  ASSUME IInv, scan = Scan(locked), \A p \in Path : temp[p] = None /\ left[p] = {},
         NEW m \in scan, Eligible(m)
  PROVE  \A p \in Path : name[p] = m.stamp.ino <=> p \in m.paths
<1>1. PICK p \in Path : name[p] # None /\ m = Group(UnitOf[p], name[p])
  BY DEF Scan
<1> DEFINE S == Links(name, name[p])
<1>2. /\ m.stamp.ino = name[p] /\ m.paths = {q \in S : UnitOf[q] = UnitOf[p]}
      /\ m.nlink = Cardinality(S) + Cardinality(Links(temp, name[p])) + Cardinality(Beside(left, name[p]))
  BY <1>1 DEF Group, Nlink
<1>3. IsFiniteSet(S)
  BY FS_Subset, EngineAssumption DEF Links
<1>4. Links(temp, name[p]) = {} /\ Beside(left, name[p]) = {}
  BY <1>1 DEF Links, Beside
<1>5. /\ Cardinality(S) \in Nat /\ Cardinality(Links(temp, name[p])) = 0
      /\ Cardinality(Beside(left, name[p])) = 0
  BY <1>3, <1>4, FS_CardinalityType, FS_EmptySet
<1>6. Cardinality(m.paths) = Cardinality(S)
  BY <1>2, <1>5 DEF Eligible
<1>7. m.paths = S
  BY <1>2, <1>3, <1>6, FS_Subset
<1> QED BY <1>2, <1>7 DEF Links

\* A file in scope is of a group of the scan, that of its stamp.
LEMMA InScopeGroup ==
  ASSUME scan = Scan(locked), NEW p \in Path, InScope(p)
  PROVE  \E g \in scan : g.stamp = Stamp(p) /\ p \in g.paths /\ Eligible(g)
<1> DEFINE g == Group(UnitOf[p], name[p])
<1>1. g \in scan
  BY DEF InScope, Scan
<1>2. g.stamp = Stamp(p) /\ p \in g.paths
  BY DEF InScope, Group, Stamp, Links
<1>3. Eligible(g)
  BY DEF InScope, Group, Eligible
<1> QED BY <1>1, <1>2, <1>3

\* Every candidate is hashed, by the index or now.
LEMMA CandidatesAreHashed ==
  ASSUME IInv, scan = Scan(locked), NEW g \in Candidates, Is(g.stamp), name[Min(g.paths)] # None
  PROVE  Hit(HashedIndex, g.stamp)
<1> DEFINE unknown == {m \in Candidates : ~Hit(index, m.stamp) /\ name[Min(m.paths)] # None}
           i == g.stamp.ino
           m == CHOOSE n \in unknown : n.stamp.ino = i
<1>1. g \in scan /\ i \in Ino
  BY MemberFacts DEF Candidates, IInv
<1>2. HashedIndex[i] = IF \E n \in unknown : n.stamp.ino = i
                       THEN Entry(m.stamp, Bytes(Min(m.paths)), FALSE)
                       ELSE index[i]
  BY <1>1 DEF HashedIndex
<1>3. CASE \E n \in unknown : n.stamp.ino = i
  <2>1. m \in unknown /\ m.stamp.ino = i
    <3> HIDE DEF unknown
    <3> QED BY <1>3
  <2>2. HashedIndex[i] = Entry(m.stamp, Bytes(Min(m.paths)), FALSE)
    BY <1>2, <1>3
  <2> HIDE DEF m
  <2>3. m \in scan /\ name[Min(m.paths)] # None
    BY <2>1 DEF Candidates
  <2>4. m.stamp.mtime = g.stamp.mtime
    <3>1. locked \in SUBSET Unit
      BY DEF IInv, TypeOK
    <3> QED BY <1>1, <2>1, <2>3, <3>1, ScanHolds DEF IInv
  <2>5. Min(m.paths) \in Path /\ m.stamp.mtime \in Nat
    BY <2>3, MemberFacts DEF IInv
  <2>6. Bytes(Min(m.paths)) \in Data
    BY <2>3, <2>5, NameFacts DEF IInv, FileType
  <2>7. Entry(m.stamp, Bytes(Min(m.paths)), FALSE) \in EntryType
    BY <2>5, <2>6 DEF Entry, EntryType
  <2>8. HashedIndex[i] # None
    BY <2>2, <2>7, NoneIsNone
  <2>9. HashedIndex[i].mtime = g.stamp.mtime
    BY <2>2, <2>4 DEF Entry
  <2> QED BY <2>8, <2>9 DEF Hit
<1>4. CASE ~\E n \in unknown : n.stamp.ino = i
  BY <1>2, <1>4 DEF Hit
<1> QED BY <1>3, <1>4

LEMMA PlanDone ==
  ASSUME IInv, IInv', SteadyParts', CleanInv, FreshInv, Plan, pass = "dedupe",
         report.begun = builds, device.how # "none"
  PROVE  (OwnInv /\ MidInv /\ PairsInv)'
<1>0. PICK ix : ix = index'
  OBVIOUS
<1>1. /\ pc = "plan" /\ pc' = "act" /\ UNCHANGED fsVars
      /\ UNCHANGED <<device, clock, locked, scan, pass, job>>
      /\ ix = HashedIndex /\ plan' = DedupePlan(ix)
  BY <1>0 DEF Plan, outside
<1>2. /\ job' = None /\ Acting' = plan' /\ Incoming' = None
      /\ \A p \in Path : temp[p] = None /\ left[p] = {}
  BY <1>1, NoTemps DEF IInv, PcInv, Acting, Incoming, CleanInv
<1>3. scan = Scan(locked) /\ scan \in SUBSET MemberType
  BY <1>1 DEF FreshInv, IInv, TypeOK
<1>4. ix \in [Ino -> EntryType \cup {None}]
  BY <1>1, HashedHolds
<1>5. \A m \in Candidates : m \in scan /\ Eligible(m)
  BY DEF Candidates
<1>6. \A m \in Candidates : /\ m \in scan /\ m.stamp.ino \in Ino /\ m.paths # {} /\ m.paths \in SUBSET Path
                            /\ \A p \in Path : name[p] = m.stamp.ino <=> p \in m.paths
  BY <1>2, <1>3, <1>5, OwnsItsNames, MemberFacts DEF IInv
<1>7. \A m, n \in Candidates : m.stamp.ino = n.stamp.ino => m = n
  <2> SUFFICES ASSUME NEW m \in Candidates, NEW n \in Candidates, m.stamp.ino = n.stamp.ino, m # n
               PROVE  FALSE
    OBVIOUS
  <2>1. m.paths = n.paths /\ m.paths # {}
    BY <1>6
  <2>2. m.paths \cap n.paths = {}
    BY <1>6 DEF IInv, ScanInv
  <2> QED BY <2>1, <2>2
<1>8. PICK canonical :
        /\ \A m \in Hashed(ix) : canonical[m] \in Hashed(ix)
        /\ \A m \in Hashed(ix) : ix[canonical[m].stamp.ino].hash = ix[m.stamp.ino].hash
        /\ \A m, n \in Hashed(ix) :
             ix[m.stamp.ino].hash = ix[n.stamp.ino].hash => canonical[m] = canonical[n]
        /\ DedupePlan(ix) =
             {[source |-> Min(canonical[m].paths), source_stamp |-> canonical[m].stamp, member |-> m] :
                m \in {g \in Hashed(ix) : g # canonical[g] /\ ~ix[g.stamp.ino].shared}}
  <2>1. /\ \A m \in scan : m.paths # {}
        /\ \A m, n \in scan : m # n => m.paths \cap n.paths = {}
    BY DEF IInv, ScanInv
  <2> QED BY <1>3, <1>4, <2>1, DedupePlanIs
<1>9. Hashed(ix) \subseteq Candidates /\ \A m \in Hashed(ix) : Hit(ix, m.stamp)
  BY DEF Hashed
<1>10. \A a \in plan' : \E m \in Hashed(ix) :
         a.member = m /\ m # canonical[m] /\ a.source_stamp = canonical[m].stamp
  BY <1>1, <1>8
<1>11. OwnInv'
  <2> SUFFICES ASSUME NEW a \in plan'
               PROVE  /\ None # a.member.stamp.ino
                      /\ \A p \in Path : temp'[p] # a.member.stamp.ino
                      /\ \A p \in Path : name'[p] = a.member.stamp.ino => p \in a.member.paths
                      /\ \A b \in plan' : a.source_stamp.ino # b.member.stamp.ino
                      /\ Hit(index', a.source_stamp)
    BY <1>2 DEF OwnInv
  <2>1. PICK m \in Hashed(ix) : a.member = m /\ m # canonical[m] /\ a.source_stamp = canonical[m].stamp
    BY <1>10
  <2>2. m \in Candidates /\ canonical[m] \in Hashed(ix) /\ canonical[m] \in Candidates
    BY <1>8, <1>9
  <2>3. None # m.stamp.ino /\ \A p \in Path : name[p] = m.stamp.ino => p \in m.paths
    BY <1>6, <2>2, NoneIsNone
  <2>4. ASSUME NEW b \in plan', a.source_stamp.ino = b.member.stamp.ino
        PROVE  FALSE
    <3>1. PICK n \in Hashed(ix) : b.member = n /\ n # canonical[n]
      BY <1>10
    <3>2. n = canonical[m]
      BY <1>7, <1>9, <2>1, <2>2, <2>4, <3>1
    <3>3. ix[n.stamp.ino].hash = ix[m.stamp.ino].hash
      BY <1>8, <3>2
    <3>4. canonical[n] = canonical[m]
      BY <1>8, <3>3
    <3> QED BY <3>1, <3>2, <3>4
  <2>5. Hit(index', a.source_stamp)
    BY <1>0, <1>9, <2>1, <2>2
  <2> QED BY <1>1, <1>2, <2>1, <2>3, <2>4, <2>5 DEF fsVars
<1>12. MidInv'
  BY <1>2 DEF MidInv
<1>13. ASSUME NEW p \in Path, NEW q \in Path, InScope(p), InScope(q),
              Bytes(p) = Bytes(q), name[p] # name[q]
       PROVE  \/ Shared(Stamp(p))' \/ Shared(Stamp(q))'
              \/ \E a \in plan' : p \in a.member.paths \/ q \in a.member.paths
  <2>1. PICK g \in scan : g.stamp = Stamp(p) /\ p \in g.paths /\ Eligible(g)
    BY <1>3, <1>13, InScopeGroup
  <2>2. PICK h \in scan : h.stamp = Stamp(q) /\ q \in h.paths /\ Eligible(h)
    BY <1>3, <1>13, InScopeGroup
  <2>3. /\ g.stamp = [ino |-> name[p], mtime |-> file[name[p]].mtime] /\ name[p] # None
        /\ h.stamp = [ino |-> name[q], mtime |-> file[name[q]].mtime] /\ name[q] # None
    BY <1>13, <2>1, <2>2 DEF InScope, Stamp
  <2>4. g # h
    BY <1>13, <2>3
  <2>5. g \in Candidates /\ h \in Candidates
    <3> DEFINE fit == {m \in scan : device.how # "none" /\ Eligible(m)}
    <3>1. g \in fit /\ h \in fit
      BY <2>1, <2>2
    <3>2. IsFiniteSet(fit)
      <4> DEFINE Scanned == {r \in Path : UnitOf[r] \in locked /\ name[r] # None}
      <4>1. IsFiniteSet(Scanned)
        BY EngineAssumption, FS_Subset
      <4>2. scan = {Group(UnitOf[r], name[r]) : r \in Scanned}
        BY <1>3 DEF Scan
      <4> HIDE DEF Scanned
      <4>3. IsFiniteSet({Group(UnitOf[r], name[r]) : r \in Scanned})
        <5> DEFINE images == {Group(UnitOf[r], name[r]) : r \in Scanned}
                   f == [r \in Scanned |-> Group(UnitOf[r], name[r])]
        <5>1. f \in Surjection(Scanned, images)
          BY DEF Surjection
        <5> HIDE DEF f
        <5> QED BY <4>1, <5>1, FS_Surjection
      <4> QED BY <4>2, <4>3, FS_Subset
    <3>3. Cardinality(fit) > 1
      <4>1. {g, h} \in SUBSET fit
        BY <3>1
      <4>2. IsFiniteSet({g}) /\ Cardinality({g}) = 1
        BY FS_Singleton
      <4>3. Cardinality({g} \cup {h}) = 2
        <5>1. h \notin {g}
          BY <2>4
        <5>2. Cardinality({g} \cup {h}) = IF h \in {g} THEN Cardinality({g}) ELSE Cardinality({g}) + 1
          BY <4>2, FS_AddElement, Zenon
        <5> QED BY <4>2, <5>1, <5>2
      <4>4. {g} \cup {h} = {g, h}
        OBVIOUS
      <4>5. Cardinality({g, h}) <= Cardinality(fit) /\ Cardinality(fit) \in Nat
        BY <3>2, <4>1, FS_Subset, FS_CardinalityType
      <4> QED BY <4>3, <4>4, <4>5
    <3> QED BY <3>1, <3>3 DEF Candidates
  <2>6. ASSUME NEW r \in Path, NEW m \in Candidates, m.stamp = Stamp(r), r \in m.paths, name[r] # None
        PROVE  m \in Hashed(ix) /\ ix[m.stamp.ino] # None /\ ix[m.stamp.ino].hash = Bytes(r)
    <3>1. /\ name[r] \in Ino /\ file[name[r]] # None /\ Bytes(r) = file[name[r]].data
          /\ m.stamp = [ino |-> name[r], mtime |-> file[name[r]].mtime]
      BY <2>6, NameFacts DEF IInv
    <3>2. Is(m.stamp)
      BY <3>1 DEF Is
    <3>3. name[Min(m.paths)] # None
      <4>1. Min(m.paths) \in m.paths /\ Min(m.paths) \in Path
        BY <1>6, MemberFacts DEF IInv
      <4>2. name[Min(m.paths)] = m.stamp.ino
        BY <1>6, <4>1
      <4> QED BY <3>1, <4>2, NoneIsNone
    <3>4. Hit(ix, m.stamp)
      BY <1>1, <1>3, <3>2, <3>3, CandidatesAreHashed
    <3>5. ix[name[r]] # None /\ ix[name[r]].mtime = file[name[r]].mtime
      BY <3>1, <3>4 DEF Hit
    <3>6. ix[name[r]].hash = file[name[r]].data
      <4>1. EntryInv(ix)'
        BY <1>0 DEF SteadyParts
      <4> QED BY <1>0, <1>1, <3>1, <3>5 DEF SteadyParts, EntryInv, fsVars
    <3> QED BY <3>1, <3>4, <3>5, <3>6 DEF Hashed
  <2>7. /\ g \in Hashed(ix) /\ ix[g.stamp.ino] # None /\ ix[g.stamp.ino].hash = Bytes(p)
        /\ h \in Hashed(ix) /\ ix[h.stamp.ino] # None /\ ix[h.stamp.ino].hash = Bytes(q)
    BY <2>1, <2>2, <2>3, <2>5, <2>6
  <2>8. canonical[g] = canonical[h]
    BY <1>8, <1>13, <2>7
  <2>9. ASSUME NEW m \in Hashed(ix), m # canonical[m]
        PROVE  ix[m.stamp.ino].shared \/ \E a \in plan' : a.member = m
    <3> SUFFICES ASSUME ~ix[m.stamp.ino].shared
                 PROVE  \E a \in plan' : a.member = m
      OBVIOUS
    <3> DEFINE a == [source |-> Min(canonical[m].paths), source_stamp |-> canonical[m].stamp, member |-> m]
    <3>1. m \in {n \in Hashed(ix) : n # canonical[n] /\ ~ix[n.stamp.ino].shared}
      BY <2>9
    <3>2. a \in plan'
      BY <1>1, <1>8, <3>1
    <3>3. a.member = m
      OBVIOUS
    <3> QED BY <3>2, <3>3
  <2>10. ASSUME NEW r \in Path, NEW m \in Hashed(ix), m.stamp = Stamp(r), ix[m.stamp.ino].shared
         PROVE  Shared(Stamp(r))'
    BY <1>0, <1>1, <1>9, <2>10 DEF Shared, Hit, Stamp, fsVars
  <2>11. g # canonical[g] \/ h # canonical[h]
    BY <2>4, <2>8
  <2> QED BY <2>1, <2>2, <2>7, <2>9, <2>10, <2>11
<1>14. PairsInv'
  <2>1. \A p \in Path : /\ InScope(p)' <=> InScope(p)
                        /\ Bytes(p)' = Bytes(p) /\ name'[p] = name[p]
    BY <1>1 DEF InScope, Bytes, Nlink, Links, Beside, fsVars
  <2>2. \A p \in Path : (\E a \in plan' : p \in a.member.paths) => Underway(p)'
    BY <1>2 DEF Underway
  <2> QED BY <1>13, <2>1, <2>2 DEF PairsInv
<1> QED BY <1>11, <1>12, <1>14

----------------------------------------------------------------------------
(* A dedupe pass that skips nothing *)

\* A path whose file, and the names of it, are as they were.
SameFile(p) ==
  /\ name'[p] = name[p] /\ left' = left /\ file'[name[p]] = file[name[p]]
  /\ Links(name', name[p]) = Links(name, name[p]) /\ Links(temp', name[p]) = Links(temp, name[p])

LEMMA SameFileReads ==
  ASSUME NEW p \in Path, SameFile(p), clock' = clock, locked' = locked, name[p] # None
  PROVE  InScope(p)' = InScope(p) /\ Stamp(p)' = Stamp(p) /\ Bytes(p)' = Bytes(p)
<1>1. /\ name'[p] = name[p] /\ file'[name[p]] = file[name[p]] /\ left' = left
      /\ Links(name', name[p]) = Links(name, name[p]) /\ Links(temp', name[p]) = Links(temp, name[p])
  BY DEF SameFile
<1>2. Stamp(p)' = Stamp(p) /\ Bytes(p)' = Bytes(p)
  BY <1>1 DEF Stamp, Bytes
<1>3. InScope(p)' = InScope(p)
  BY <1>1 DEF InScope, Nlink, Beside
<1> QED BY <1>2, <1>3

\* A step that leaves every file as it was, but those on their way in or to be replaced,
\* leaves the pairs.
LEMMA PairsStay ==
  ASSUME PairsInv, index' = index, clock' = clock, locked' = locked,
         \A p \in Path : name'[p] # None /\ ~Underway(p)' => SameFile(p) /\ ~Underway(p)
  PROVE  PairsInv'
<1> SUFFICES ASSUME NEW p \in Path, NEW q \in Path, InScope(p)', InScope(q)', Bytes(p)' = Bytes(q)',
                    name'[p] # name'[q], ~Underway(p)', ~Underway(q)'
             PROVE  Shared(Stamp(p))' \/ Shared(Stamp(q))'
  BY DEF PairsInv
<1>1. name'[p] # None /\ name'[q] # None
  BY DEF InScope
<1>2. SameFile(p) /\ SameFile(q) /\ ~Underway(p) /\ ~Underway(q)
  BY <1>1
<1>3. name[p] = name'[p] /\ name[q] = name'[q]
  BY <1>2 DEF SameFile
<1>4. /\ InScope(p) /\ Stamp(p)' = Stamp(p) /\ Bytes(p)' = Bytes(p)
      /\ InScope(q) /\ Stamp(q)' = Stamp(q) /\ Bytes(q)' = Bytes(q)
  BY <1>1, <1>2, <1>3, SameFileReads
<1>5. Shared(Stamp(p)) \/ Shared(Stamp(q))
  BY <1>2, <1>3, <1>4 DEF PairsInv
<1> QED BY <1>4, <1>5 DEF Shared, Hit

\* What reads as a source does now did so before.
LEMMA SourcesStay ==
  ASSUME IInv, SteadyParts, Aged, pass = "dedupe", NEW a \in Acting, Is(a.source_stamp)'
  PROVE  Is(a.source_stamp)
<1>1. PICK c \in scan : c.stamp.mtime < clock /\ a.source_stamp = c.stamp
  BY DEF IInv, ScanInv
<1> QED BY <1>1, StillIs DEF SteadyParts

LEMMA SkipShows == ASSUME IInv, NEW m, Skip(m) PROVE report'.skipped # {}
BY DEF Skip, IInv, TypeOK, ReportType

LEMMA DropShows == ASSUME IInv, NEW m, NEW p, DropTemp(m, p) PROVE report'.skipped # {}
BY DEF DropTemp, Skip, IInv, TypeOK, ReportType

LEMMA StartReplaceDone ==
  ASSUME IInv, OwnInv, PairsInv, StartReplace, report'.skipped = {}
  PROVE  (OwnInv /\ MidInv /\ PairsInv)'
<1>0. PICK a : a = FirstAction(plan)
  OBVIOUS
<1>1. /\ pc = "act" /\ pass = "dedupe" /\ plan # {} /\ plan' = plan \ {a}
      /\ UNCHANGED fsVars
      /\ UNCHANGED <<clock, locked, index>>
      /\ \/ /\ CheckReplace(a)
            /\ job' = [action |-> a, todo |-> a.member.paths]
            /\ pc' = "copy"
         \/ Skip(a.member)
  BY <1>0 DEF StartReplace, outside
<1>2. /\ CheckReplace(a) /\ job' = [action |-> a, todo |-> a.member.paths] /\ pc' = "copy"
      /\ job = None
  BY <1>1, SkipShows DEF IInv, PcInv
<1>3. a \in plan
  <2>1. \A b \in plan : b.member.paths # {}
    BY ActionFacts, MemberFacts DEF IInv
  <2>2. plan \in SUBSET ActionType
    BY DEF IInv, TypeOK
  <2> QED BY <1>0, <1>1, <2>1, <2>2, FirstActionIn
<1>4. job'.action = a /\ job'.todo = a.member.paths /\ job' # None
  <2>1. job' \in JobType
    <3>1. a \in ActionType /\ a.member.paths \in SUBSET Path
      BY <1>3, ActionFacts, MemberFacts DEF IInv
    <3> QED BY <1>2, <3>1 DEF JobType
  <2> QED BY <1>2, <2>1, NoneIsNone
<1>5. Acting' = Acting /\ Incoming' = None /\ Incoming = None
  BY <1>1, <1>2, <1>3, <1>4 DEF Acting, Incoming
<1>6. OwnInv'
  BY <1>1, <1>2, <1>4, <1>5 DEF OwnInv, Is, Hit, fsVars
<1>7. Hit(index, a.source_stamp)
  <2>1. a \in Acting
    BY <1>3 DEF Acting
  <2>2. PICK c \in scan : a.source = Min(c.paths) /\ a.source_stamp = c.stamp
    BY <1>1, <2>1 DEF IInv, ScanInv
  <2>3. a.source \in Path /\ a.source_stamp \in StampType /\ Stamp(a.source) = a.source_stamp
    BY <1>2, <2>2, MemberFacts DEF IInv, CheckReplace
  <2>4. Is(a.source_stamp)
    BY <2>3, StampReads DEF IInv
  <2> QED BY <2>1, <2>4 DEF OwnInv
<1>8. MidInv'
  BY <1>1, <1>4, <1>7 DEF MidInv, Hit
<1>9. PairsInv'
  <2>1. \A p \in Path : SameFile(p)
    BY <1>1 DEF SameFile, fsVars
  <2>2. \A p \in Path : Underway(p) => Underway(p)'
    BY <1>1, <1>5 DEF Underway
  <2> QED BY <1>1, <2>1, <2>2, PairsStay
<1> QED BY <1>6, <1>8, <1>9

LEMMA HeldStillDone ==
  ASSUME IInv, OwnInv, MidInv, PairsInv, HeldStill, report'.skipped = {}
  PROVE  (OwnInv /\ MidInv /\ PairsInv)'
<1>1. /\ pc = "held" /\ pc' = "rename" /\ UNCHANGED fsVars /\ job' = job
      /\ UNCHANGED <<clock, locked, index, plan>>
  BY DropShows DEF HeldStill, outside
<1>2. job # None /\ job.todo = job.action.member.paths
  BY <1>1 DEF IInv, PcInv, SwapInv
<1>3. Acting' = Acting /\ Incoming' = Incoming
  BY <1>1, <1>2 DEF Acting, Incoming, NextPath, fsVars
<1>4. OwnInv' /\ MidInv'
  BY <1>1, <1>3 DEF OwnInv, MidInv, Is, Hit, fsVars
<1>5. PairsInv'
  <2>1. \A p \in Path : SameFile(p)
    BY <1>1 DEF SameFile, fsVars
  <2>2. \A p \in Path : Underway(p) => Underway(p)'
    BY <1>1, <1>3 DEF Underway
  <2> QED BY <1>1, <2>1, <2>2, PairsStay
<1> QED BY <1>4, <1>5

LEMMA LinkRestDone ==
  ASSUME IInv, SteadyParts, OwnInv, MidInv, PairsInv, LinkRest, report'.skipped = {}, pass = "dedupe"
  PROVE  (OwnInv /\ MidInv /\ PairsInv)'
<1>0. PICK i : i = name[Min(job.action.member.paths)]
  OBVIOUS
<1>1. /\ pc = "link" /\ pc' = "rename" /\ name' = name /\ left' = left /\ file' = file /\ job' = job
      /\ temp' = [temp EXCEPT ![NextPath] = i]
      /\ UNCHANGED <<clock, locked, index, plan>>
  BY <1>0, SkipShows DEF LinkRest, GiveUp, outside
<1>2. job # None /\ job.todo # {} /\ NextPath \in Path
  BY <1>1, JobFacts DEF IInv, PcInv, SwapInv
<1>3. temp'[NextPath] = i /\ \A q \in Path : q # NextPath => temp'[q] = temp[q]
  BY <1>1, <1>2 DEF IInv, TypeOK
<1>4. Acting' = Acting /\ Incoming' = i /\ Incoming = i
  BY <1>0, <1>1, <1>3 DEF Acting, Incoming, NextPath
<1>5. OwnInv'
  BY <1>1, <1>3, <1>4 DEF OwnInv, Is, Hit
<1>6. MidInv'
  BY <1>1, <1>4 DEF MidInv, Hit
<1>7. PairsInv'
  <2>1. ASSUME NEW p \in Path, name'[p] # None, ~Underway(p)'
        PROVE  SameFile(p) /\ ~Underway(p)
    <3>1. name[p] # i /\ ~Underway(p)
      BY <1>1, <1>4, <2>1 DEF Underway
    <3>2. Links(temp', name[p]) = Links(temp, name[p])
      <4>1. temp[NextPath] # name[p] \/ temp[NextPath] = None
        <5>1. batch = {} /\ UnitOf[NextPath] \in locked
          BY <1>1, <1>2, JobFacts, MemberFacts DEF IInv, PcInv
        <5> QED BY <1>1, <1>2, <5>1 DEF IInv, TempInv, Staged
      <4> QED BY <1>1, <1>3, <2>1, <3>1, <4>1 DEF Links
    <3> QED BY <1>1, <3>1, <3>2 DEF SameFile
  <2> QED BY <1>1, <2>1, PairsStay
<1> QED BY <1>5, <1>6, <1>7

LEMMA EndPassDone ==
  ASSUME IInv, OwnInv, PairsInv, EndPass, pc' = "release"
  PROVE  (OwnInv /\ MidInv /\ PairsInv)'
<1>1. /\ pc = "act" /\ UNCHANGED fsVars /\ plan = {} /\ plan' = {} /\ job' = job
      /\ UNCHANGED <<clock, locked, index>> /\ job = None
  BY DEF EndPass, outside, IInv, PcInv
<1>2. Acting = {} /\ Acting' = {}
  BY <1>1 DEF Acting
<1>3. OwnInv' /\ MidInv'
  BY <1>1, <1>2 DEF OwnInv, MidInv
<1>4. PairsInv'
  <2>1. \A p \in Path : SameFile(p) /\ ~Underway(p)
    BY <1>1, <1>2 DEF SameFile, Underway, fsVars
  <2> QED BY <1>1, <2>1, PairsStay
<1> QED BY <1>3, <1>4

\* The copy of a clone is of an inode nothing knows, the one of a link that of the source,
\* which is not replaced.
LEMMA CopyDone ==
  ASSUME IInv, Steady, SteadyParts, CleanInv, OwnInv, MidInv, PairsInv, Copy, report'.skipped = {}
  PROVE  (OwnInv /\ MidInv /\ PairsInv)'
<1>0. PICK m, first, s : m = job.action.member /\ first = Min(m.paths) /\ s = job.action.source_stamp
  OBVIOUS
<1>1. /\ pc = "copy" /\ UNCHANGED <<clock, locked, scan, index, plan, pass>>
  BY DEF Copy, outside
<1>2. /\ job # None /\ pass = "dedupe" /\ job.todo = m.paths
      /\ m \in scan /\ m \in MemberType /\ m.stamp.mtime < clock /\ m.stamp.mtime \in Nat
      /\ first \in m.paths /\ first \in Path
      /\ job.action.source \in Path /\ name[job.action.source] = s.ino /\ name[job.action.source] # None
      /\ s.ino \in Ino
  BY <1>0, <1>1, PairFacts
<1>3. \A q \in Path : temp[q] = None
  BY <1>1, <1>2, NoTemps
<1>4. job.action \in Acting /\ \A a \in Acting : s.ino # a.member.stamp.ino
  BY <1>0, <1>2 DEF Acting, OwnInv
<1>5. \A a \in Acting : a.member.stamp.ino \in Ino /\ Known(a.member.stamp.ino)
  BY MemberFacts DEF IInv, ScanInv, Known
<1>6. ASSUME NEW i, name' = name, temp'[first] = i, \A q \in Path : q # first => temp'[q] = temp[q],
             Aged, \A a \in Acting : i # a.member.stamp.ino,
             job' = job, Incoming' = i
      PROVE  OwnInv' /\ MidInv'
  <2>1. Acting' = Acting
    BY <1>1, <1>6 DEF Acting
  <2>2. \A a \in Acting : Is(a.source_stamp)' => Is(a.source_stamp)
    BY <1>2, <1>6, SourcesStay
  <2>3. \A a \in Acting : \A q \in Path : temp'[q] # a.member.stamp.ino
    BY <1>6 DEF OwnInv
  <2>4. OwnInv'
    BY <1>1, <1>6, <2>1, <2>2, <2>3 DEF OwnInv, Hit
  <2>5. MidInv'
    BY <1>0, <1>1, <1>2, <1>6 DEF MidInv, Hit
  <2> QED BY <2>4, <2>5
<1>7. CASE device.how = "Clone" /\ CopyTo(m, job.action.source) /\ pc' = "held" /\ job' = job
  <2>1. PICK i : i = temp'[first]
    OBVIOUS
  <2>2. /\ Aged /\ name' = name
        /\ \A q \in Path : q # first => temp'[q] = temp[q]
        /\ i \in Ino /\ ~Known(i)
    BY <1>0, <1>2, <1>7, <2>1, CopyAges
  <2>3. Incoming' = i
    BY <1>0, <1>7, <2>1 DEF Incoming
  <2>4. OwnInv' /\ MidInv'
    BY <1>5, <1>6, <1>7, <2>1, <2>2, <2>3
  <2>5. SameFiles
    BY <1>0, <1>1, <1>2, <1>3, <1>7, CopiedFiles
  <2>6. \A p \in Path : name'[p] # None => SameFile(p)
    BY <2>5 DEF SameFiles, SameFile
  <2>7. \A p \in Path : Underway(p) => Underway(p)'
    BY <1>1, <1>7 DEF Underway, Acting
  <2>8. PairsInv'
    BY <1>1, <2>6, <2>7, PairsStay
  <2> QED BY <2>4, <2>8
<1>8. CASE /\ device.how = "Link"
           /\ temp' = [temp EXCEPT ![first] = s.ino]
           /\ file' = [file EXCEPT ![s.ino].mtime = Max({@, m.stamp.mtime})]
           /\ name' = name /\ left' = left /\ pc' = "rename" /\ job' = job
  <2>1. /\ \A j \in Ino : j # s.ino => file'[j] = file[j]
        /\ file[s.ino] # None /\ file[s.ino].mtime <= file'[s.ino].mtime
        /\ file'[s.ino].data = file[s.ino].data /\ file'[s.ino].mode = file[s.ino].mode
    <3>1. PICK q \in Path : /\ name[q] = s.ino /\ name[q] # None
                           /\ file' = [file EXCEPT ![name[q]].mtime = Max({@, m.stamp.mtime})]
      BY <1>2, <1>8
    <3> DEFINE t == m.stamp.mtime
    <3>2. TypeOK /\ LiveInv
      BY <1>2 DEF IInv
    <3>3. t \in Nat /\ t < clock
      BY <1>2
    <3>4. file' = [file EXCEPT ![name[q]].mtime = Max({@, t})]
      BY <3>1
    <3> HIDE DEF t
    <3>5. /\ \A j \in Ino : j # name[q] => file'[j] = file[j]
          /\ file[name[q]] # None /\ file[name[q]].mtime <= file'[name[q]].mtime
          /\ file'[name[q]].data = file[name[q]].data /\ file'[name[q]].mode = file[name[q]].mode
      BY <3>1, <3>2, <3>3, <3>4, LinkedEffect
    <3> QED BY <3>1, <3>5
  <2>2. Aged
    <3> SUFFICES ASSUME NEW j \in Ino, file'[j] # None
                 PROVE  /\ file[j] # None /\ file[j].mtime <= file'[j].mtime
                        /\ file'[j].mode = file[j].mode /\ file'[j].data = file[j].data
      BY DEF Aged
    <3>1. CASE j = s.ino
      BY <2>1, <3>1
    <3>2. CASE j # s.ino
      <4>1. file'[j] = file[j]
        BY <2>1, <3>2
      <4>2. file[j].mtime \in Nat
        BY <4>1, FileFacts DEF IInv
      <4> QED BY <4>1, <4>2
    <3> QED BY <3>1, <3>2
  <2>3. temp'[first] = s.ino /\ \A q \in Path : q # first => temp'[q] = temp[q]
    BY <1>2, <1>8 DEF IInv, TypeOK
  <2>4. Incoming' = s.ino
    BY <1>0, <1>2, <1>8, <2>3 DEF Incoming, NextPath
  <2>5. OwnInv' /\ MidInv'
    BY <1>4, <1>6, <1>8, <2>2, <2>3, <2>4
  <2>6. ASSUME NEW p \in Path, name'[p] # None, ~Underway(p)'
        PROVE  SameFile(p) /\ ~Underway(p)
    <3>1. name[p] # s.ino /\ ~Underway(p)
      BY <1>1, <1>8, <2>4, <2>6 DEF Underway, Acting
    <3>2. file'[name[p]] = file[name[p]]
      <4>1. name[p] \in Ino
        BY <1>8, <2>6 DEF IInv, TypeOK
      <4> QED BY <2>1, <3>1, <4>1
    <3>3. Links(temp', name[p]) = Links(temp, name[p])
      BY <1>3, <1>8, <2>3, <2>6, <3>1 DEF Links
    <3> QED BY <1>8, <3>1, <3>2, <3>3 DEF SameFile
  <2>7. PairsInv'
    BY <1>1, <2>6, PairsStay
  <2> QED BY <2>5, <2>7
<1>9. CASE GiveUp
  BY <1>9, SkipShows DEF GiveUp
<1> QED BY <1>0, <1>2, <1>7, <1>8, <1>9, CopyGivesUp

\* What a path takes is what comes in; what it had is of paths that are to take it too.
LEMMA RenameDone ==
  ASSUME IInv, SteadyParts, OwnInv, MidInv, PairsInv, Rename, report'.skipped = {}, pass = "dedupe"
  PROVE  (OwnInv /\ MidInv /\ PairsInv)'
<1>0. PICK m, n, i, first : /\ m = job.action.member /\ n = NextPath /\ i = temp[n]
                            /\ first = Min(m.paths)
  OBVIOUS
<1>1. /\ pc = "rename" /\ UNCHANGED <<clock, locked, scan, index, plan, pass>>
      /\ name' = [name EXCEPT ![NextPath] = temp[NextPath]]
      /\ temp' = [temp EXCEPT ![NextPath] = None] /\ left' = left
      /\ file' = Reaped(file)
      /\ job' = [job EXCEPT !.todo = @ \ {NextPath}]
      /\ pc' \in {"link", "tell"}
  BY DropShows DEF Rename, outside
<1>2. /\ n \in Path /\ n \in job.todo /\ n \in m.paths
      /\ i \in Ino /\ name'[n] = i /\ temp'[n] = None
      /\ \A q \in Path : q # n => name'[q] = name[q] /\ temp'[q] = temp[q]
      /\ \A q \in Path : name'[q] # None => file'[name'[q]] = file[name'[q]]
  BY <1>0, <1>1, RenameEffect
<1>3. Aged
  BY <1>1, RenameUnseen
<1>4. /\ job # None /\ m \in scan /\ m.stamp \in StampType /\ job \in JobType
      /\ first \in m.paths /\ first \in Path /\ m.paths \in SUBSET Path
  BY <1>0, <1>1, JobFacts, MemberFacts DEF IInv, PcInv
<1>5. job'.action = job.action /\ job'.todo = job.todo \ {n} /\ job' # None
  <2>1. job' \in JobType
    BY <1>1, <1>4 DEF JobType
  <2> QED BY <1>0, <1>1, <1>4, <2>1, NoneIsNone DEF JobType
<1>6. Acting' = Acting /\ job.action \in Acting
  BY <1>1, <1>4, <1>5 DEF Acting
<1>7. Incoming = i /\ Incoming' = i
  <2>1. Incoming = i
    BY <1>0, <1>1 DEF Incoming
  <2>2. name'[first] = i
    <3>1. CASE first \in job.todo
      <4>1. job.todo = m.paths
        BY <1>0, <1>1, <1>4, <3>1 DEF IInv, SwapInv
      <4>2. n = first
        BY <1>0, <4>1 DEF NextPath
      <4> QED BY <1>2, <4>2
    <3>2. CASE first \notin job.todo
      <4>1. name[first] = i
        BY <1>0, <1>1, <1>4, <3>2 DEF SteadyParts, JobInv
      <4> QED BY <1>2, <1>4, <3>2, <4>1
    <3> QED BY <3>1, <3>2
  <2>3. Incoming' = name'[first]
    BY <1>0, <1>1, <1>5 DEF Incoming
  <2> QED BY <2>1, <2>2, <2>3
<1>8. name[n] = m.stamp.ino /\ i # m.stamp.ino
  <2>1. Stamp(n) = m.stamp
    BY <1>0, <1>2, <1>4 DEF SteadyParts, JobInv
  <2> QED BY <1>0, <1>2, <1>4, <1>6, <1>7, <2>1, StampReads DEF IInv, OwnInv
<1>9. OwnInv'
  <2> SUFFICES ASSUME NEW a \in Acting
               PROVE  /\ i # a.member.stamp.ino
                      /\ \A p \in Path : temp'[p] # a.member.stamp.ino
                      /\ \A p \in Path : name'[p] = a.member.stamp.ino =>
                           IF a = job.action THEN p \in job.todo \ {n} ELSE p \in a.member.paths
                      /\ \A b \in Acting : a.source_stamp.ino # b.member.stamp.ino
                      /\ Is(a.source_stamp)' => Hit(index, a.source_stamp)
    BY <1>1, <1>5, <1>6, <1>7 DEF OwnInv, Hit
  <2>1. i # a.member.stamp.ino /\ \A b \in Acting : a.source_stamp.ino # b.member.stamp.ino
    BY <1>7 DEF OwnInv
  <2>2. a.member.stamp.ino \in Ino /\ a.member.stamp.ino # None
    BY MemberFacts, NoneIsNone DEF IInv, ScanInv
  <2>3. \A p \in Path : temp'[p] # a.member.stamp.ino
    BY <1>2, <2>2 DEF OwnInv
  <2>4. ASSUME NEW p \in Path, name'[p] = a.member.stamp.ino
        PROVE  IF a = job.action THEN p \in job.todo \ {n} ELSE p \in a.member.paths
    <3>1. p # n /\ name[p] = a.member.stamp.ino
      BY <1>2, <2>1, <2>4
    <3> QED BY <1>4, <3>1 DEF OwnInv
  <2>5. Is(a.source_stamp)' => Hit(index, a.source_stamp)
    BY <1>3, SourcesStay DEF OwnInv
  <2> QED BY <2>1, <2>3, <2>4, <2>5
<1>10. MidInv'
  <2>1. ASSUME NEW p \in m.paths \ (job.todo \ {n})
        PROVE  name'[p] = i
    <3>1. p \in Path
      BY <1>4
    <3> QED BY <1>0, <1>2, <1>4, <1>7, <3>1 DEF MidInv
  <2> QED BY <1>0, <1>1, <1>4, <1>5, <1>7, <2>1 DEF MidInv, Hit
<1>11. PairsInv'
  <2>1. ASSUME NEW p \in Path, name'[p] # None, ~Underway(p)'
        PROVE  SameFile(p) /\ ~Underway(p)
    <3>1. name'[p] # i /\ \A a \in Acting : p \notin a.member.paths
      BY <1>1, <1>6, <1>7, <2>1 DEF Underway
    <3>2. p # n /\ name'[p] = name[p] /\ name[p] # i
      BY <1>2, <3>1
    <3>3. name[p] # m.stamp.ino
      <4>1. job.todo \subseteq m.paths
        BY <1>0, <1>4 DEF IInv, SwapInv
      <4> QED BY <1>0, <1>4, <1>6, <3>1, <4>1 DEF OwnInv
    <3>4. file'[name[p]] = file[name[p]]
      BY <1>2, <2>1, <3>2
    <3>5. Links(name', name[p]) = Links(name, name[p])
      BY <1>2, <1>8, <3>2, <3>3 DEF Links
    <3>6. Links(temp', name[p]) = Links(temp, name[p])
      BY <1>0, <1>2, <2>1, <3>2 DEF Links
    <3>7. ~Underway(p)
      BY <1>7, <3>1, <3>2 DEF Underway
    <3> QED BY <1>1, <3>2, <3>4, <3>5, <3>6, <3>7 DEF SameFile
  <2> QED BY <1>1, <2>1, PairsStay
<1> QED BY <1>9, <1>10, <1>11

\* The index knows what came in as shared, and no path is left of what it came in for.
LEMMA TellDone ==
  ASSUME IInv, OwnInv, MidInv, PairsInv, Tell, pass = "dedupe"
  PROVE  (OwnInv /\ MidInv /\ PairsInv)'
<1>0. PICK m, i, s, k : /\ m = job.action.member /\ i = name[Min(m.paths)]
                        /\ s = job.action.source_stamp /\ k = s.ino
  OBVIOUS
<1>1. /\ pc = "tell" /\ pc' = "act" /\ job' = None
      /\ Stamp(Min(m.paths)) # NoStamp
      /\ index' = ToldReplaced(job.action, Stamp(Min(m.paths)))
      /\ UNCHANGED fsVars /\ UNCHANGED <<clock, locked, plan>>
  BY <1>0 DEF Tell, outside
<1>2. /\ job # None /\ m \in scan /\ m.stamp.ino \in Ino /\ m.paths \in SUBSET Path
      /\ Min(m.paths) \in Path /\ job.todo = {} /\ job.action \in Acting
      /\ s \in StampType /\ k \in Ino
  BY <1>0, <1>1, JobFacts, MemberFacts, SourceFacts DEF IInv, PcInv, SwapInv, Acting, StampType
<1>3. /\ i \in Ino /\ file[i] \in FileType /\ file[i] # None
      /\ Stamp(Min(m.paths)) = [ino |-> i, mtime |-> file[i].mtime]
  <2>1. i # None
    BY <1>0, <1>1 DEF Stamp
  <2> QED BY <1>0, <1>2, <2>1, NameFacts DEF IInv
<1>4. Incoming = i /\ Incoming' = None
  BY <1>0, <1>1 DEF Incoming
<1>5. Acting' = plan /\ plan \subseteq Acting
  BY <1>1 DEF Acting
<1>6. i # m.stamp.ino /\ k # m.stamp.ino
  BY <1>0, <1>2, <1>4 DEF OwnInv
<1>7. Hit(index, s)
  BY <1>0, <1>2 DEF MidInv
<1>8. index \in [Ino -> EntryType \cup {None}] /\ index[k] \in EntryType /\ index[k].mtime = s.mtime
  BY <1>0, <1>2, <1>7 DEF IInv, TypeOK, Hit
<1>9. PICK e, g :
        /\ e # None /\ e.mtime = file[i].mtime /\ e.shared
        /\ g # None /\ g.mtime = index[k].mtime /\ g.shared
        /\ \A j \in Ino : index'[j] = IF j = i THEN e ELSE IF j = m.stamp.ino THEN None
                                      ELSE IF j = k THEN g ELSE index[j]
  <2> DEFINE new == [ino |-> i, mtime |-> file[i].mtime]
             e == Entry(new, index[k].hash, TRUE)
             g == [index[k] EXCEPT !.shared = TRUE]
  <2>1. e \in EntryType /\ e.mtime = file[i].mtime /\ e.shared
    BY <1>3, <1>8 DEF Entry, EntryType, FileType
  <2>2. g \in EntryType /\ g.mtime = index[k].mtime /\ g.shared
    BY <1>8 DEF EntryType
  <2>3. index' = [[index EXCEPT ![k].shared = TRUE, ![m.stamp.ino] = None] EXCEPT ![i] = e]
    <3> DEFINE a == job.action
    <3>1. index' = ToldReplaced(a, new) /\ m = a.member /\ s = a.source_stamp
      BY <1>0, <1>1, <1>3
    <3> HIDE DEF a
    <3>2. new.ino = i /\ Hit(index, a.source_stamp) /\ k = a.source_stamp.ino
      BY <1>0, <1>7, <3>1
    <3> QED BY <3>1, <3>2 DEF ToldReplaced
  <2>4. index' = [[[index EXCEPT ![k] = g] EXCEPT ![m.stamp.ino] = None] EXCEPT ![i] = e]
    BY <2>3
  <2> HIDE DEF e, g
  <2>5. \A j \in Ino : index'[j] = IF j = i THEN e ELSE IF j = m.stamp.ino THEN None
                                   ELSE IF j = k THEN g ELSE index[j]
    BY <1>2, <1>3, <1>8, <2>4
  <2>6. e # None /\ g # None
    BY <2>1, <2>2, NoneIsNone
  <2> QED BY <2>1, <2>2, <2>5, <2>6
<1>10. OwnInv'
  <2> SUFFICES ASSUME NEW a \in plan
               PROVE  /\ None # a.member.stamp.ino
                      /\ \A p \in Path : temp[p] # a.member.stamp.ino
                      /\ \A p \in Path : name[p] = a.member.stamp.ino => p \in a.member.paths
                      /\ \A b \in plan : a.source_stamp.ino # b.member.stamp.ino
                      /\ Is(a.source_stamp) => Hit(index', a.source_stamp)
    BY <1>1, <1>4, <1>5 DEF OwnInv, Is, fsVars
  <2>1. a \in Acting /\ None # a.member.stamp.ino
    BY <1>5, ActionFacts, MemberFacts, NoneIsNone DEF IInv
  <2>2. \A p \in Path : temp[p] # a.member.stamp.ino
    BY <2>1 DEF OwnInv
  <2>3. \A p \in Path : name[p] = a.member.stamp.ino => p \in a.member.paths
    BY <1>2, <2>1 DEF OwnInv
  <2>4. \A b \in plan : a.source_stamp.ino # b.member.stamp.ino
    BY <1>5, <2>1 DEF OwnInv
  <2>5. ASSUME Is(a.source_stamp)
        PROVE  Hit(index', a.source_stamp)
    <3>1. a.source_stamp.ino \in Ino
      <4>1. pass = "dedupe"
        OBVIOUS
      <4>2. PICK c \in scan : a.source_stamp = c.stamp
        BY <2>1, <4>1 DEF IInv, ScanInv
      <4> QED BY <4>2, MemberFacts DEF IInv
    <3>2. Hit(index, a.source_stamp) /\ a.source_stamp.ino # m.stamp.ino
      BY <1>0, <1>2, <2>1, <2>5 DEF OwnInv
    <3>3. a.source_stamp.ino = i => a.source_stamp.mtime = file[i].mtime
      BY <2>5 DEF Is
    <3> QED BY <1>9, <3>1, <3>2, <3>3 DEF Hit
  <2> QED BY <2>1, <2>2, <2>3, <2>4, <2>5
<1>11. MidInv'
  BY <1>1 DEF MidInv
<1>12. ASSUME NEW p \in Path, name[p] # None, Shared(Stamp(p)) \/ Underway(p)
       PROVE  Shared(Stamp(p))' \/ Underway(p)'
  <2>1. /\ name[p] \in Ino /\ Stamp(p) = [ino |-> name[p], mtime |-> file[name[p]].mtime]
        /\ Stamp(p)' = Stamp(p)
    BY <1>1, <1>12, NameFacts DEF IInv, Stamp, fsVars
  <2>2. CASE name[p] = i
    BY <1>9, <2>1, <2>2 DEF Shared, Hit
  <2>3. CASE name[p] # i /\ Underway(p)
    <3>1. PICK b \in Acting : p \in b.member.paths
      BY <1>4, <2>3 DEF Underway
    <3>2. b # job.action
      BY <1>0, <1>2, <1>4, <2>3, <3>1 DEF MidInv
    <3>3. b \in plan
      BY <1>2, <3>2 DEF Acting
    <3> QED BY <1>5, <3>1, <3>3 DEF Underway
  <2>4. CASE name[p] # i /\ Shared(Stamp(p))
    <3>1. name[p] # m.stamp.ino
      BY <1>0, <1>2 DEF OwnInv
    <3> QED BY <1>9, <2>1, <2>4, <3>1 DEF Shared, Hit
  <2> QED BY <1>12, <2>2, <2>3, <2>4
<1>13. PairsInv'
  <2>1. \A p \in Path : SameFile(p)
    BY <1>1 DEF SameFile, fsVars
  <2> SUFFICES ASSUME NEW p \in Path, NEW q \in Path, InScope(p)', InScope(q)', Bytes(p)' = Bytes(q)',
                      name'[p] # name'[q]
               PROVE  Shared(Stamp(p))' \/ Shared(Stamp(q))' \/ Underway(p)' \/ Underway(q)'
    BY DEF PairsInv
  <2>2. name[p] # None /\ name[q] # None /\ name[p] # name[q]
    BY <1>1 DEF InScope, fsVars
  <2>3. InScope(p) /\ InScope(q) /\ Bytes(p) = Bytes(q)
    BY <1>1, <2>1, <2>2, SameFileReads
  <2>4. Shared(Stamp(p)) \/ Shared(Stamp(q)) \/ Underway(p) \/ Underway(q)
    BY <2>2, <2>3 DEF PairsInv
  <2> QED BY <1>12, <2>2, <2>4
<1> QED BY <1>10, <1>11, <1>13

\* A step of a run that is still calm after it, and is or was at its groups in a dedupe pass.
LEMMA PassHolds ==
  ASSUME IInv, IInv', Steady, SteadyParts, SteadyParts', ~MayFail, CleanInv, FreshInv,
         Deduping /\ Calm /\ device.how # "none" => OwnInv /\ MidInv /\ PairsInv,
         [Next]_vars, crashes' = 0, (Deduping /\ Calm)', device.how # "none"
  PROVE  (OwnInv /\ MidInv /\ PairsInv)'
<1>1. /\ pass' = "dedupe" /\ pc' \in {"act", "copy", "held", "rename", "link", "tell", "release"}
      /\ report'.begun = builds' /\ report'.skipped = {} /\ ~report'.interrupted
  BY DEF Deduping, Calm
<1>2. report \in ReportType /\ builds \in Nat
  BY EngineAssumption DEF IInv, TypeOK
<1>3. ~Build
  <2>1. report.begun <= builds /\ report.begun \in Nat
    BY <1>2 DEF CleanInv, ReportType
  <2>2. Build => builds' = builds + 1 /\ report' = report
    BY DEF Build, BuildCreate, BuildRewrite, BuildLink, BuildDelete, MayBuild, runVars
  <2> QED BY <1>1, <1>2, <2>1, <2>2
<1>4. ASSUME StartReplace \/ Copy \/ HeldStill \/ Rename \/ LinkRest \/ Tell \/ EndPass, ~Plan
      PROVE  OwnInv /\ MidInv /\ PairsInv /\ pass = "dedupe"
  <2>1. pass = "dedupe"
    BY <1>1, <1>4 DEF StartReplace, Copy, HeldStill, Rename, LinkRest, Tell, EndPass
  <2>2. pc \in {"act", "copy", "held", "rename", "link", "tell"}
    BY <1>4 DEF StartReplace, Copy, HeldStill, Rename, LinkRest, Tell, EndPass
  <2>3. report.begun = builds /\ report.skipped = {} /\ ~report.interrupted
    <3>1. \/ report' = report \/ (\E n : Skip(n)) \/ (\E n, p : DropTemp(n, p))
          \/ report' = [report EXCEPT !.applied = TRUE, !.progressed = TRUE]
          \/ report' = [report EXCEPT !.rounds = @ + 1, !.progressed = FALSE]
      BY <1>4 DEF StartReplace, Copy, HeldStill, Rename, LinkRest, GiveUp, Tell, EndPass
    <3>2. builds' = builds
      BY <1>4 DEF StartReplace, Copy, HeldStill, Rename, LinkRest, Tell, EndPass, outside
    <3>3. (~\E n : Skip(n)) /\ (~\E n, p : DropTemp(n, p))
      BY <1>1, SkipShows, DropShows
    <3> QED BY <1>1, <1>2, <3>1, <3>2, <3>3 DEF ReportType
  <2> QED BY <2>1, <2>2, <2>3 DEF Deduping, Calm
<1>5. CASE Plan
  <2>1. pass = "dedupe" /\ report.begun = builds
    BY <1>1, <1>2, <1>5 DEF Plan, outside, ReportType
  <2> QED BY <1>5, <2>1, PlanDone
<1>6. CASE StartReplace /\ ~Plan
  BY <1>1, <1>4, <1>6, StartReplaceDone
<1>7. CASE (Copy \/ HeldStill) /\ ~Plan
  BY <1>1, <1>4, <1>7, CopyDone, HeldStillDone
<1>8. CASE (Rename \/ LinkRest) /\ ~Plan
  BY <1>1, <1>4, <1>8, RenameDone, LinkRestDone
<1>9. CASE Tell /\ ~Plan
  BY <1>4, <1>9, TellDone
<1>10. CASE EndPass /\ ~Plan
  BY <1>1, <1>4, <1>10, EndPassDone DEF EndPass
<1>11. CASE UNCHANGED vars
  <2>1. Deduping /\ Calm
    BY <1>11 DEF Deduping, Calm, vars, runVars, outside
  <2>2. OwnInv /\ MidInv /\ PairsInv
    BY <2>1
  <2>3. Acting' = Acting /\ Incoming' = Incoming
    BY <1>11 DEF Acting, Incoming, NextPath, vars, runVars, fsVars
  <2>4. OwnInv' /\ MidInv'
    BY <1>11, <2>2, <2>3 DEF OwnInv, MidInv, Is, Hit, vars, runVars, fsVars
  <2>5. \A p \in Path : SameFile(p) /\ (Underway(p) => Underway(p)')
    BY <1>11, <2>3 DEF SameFile, Underway, vars, runVars, fsVars
  <2>6. PairsInv'
    BY <1>11, <2>2, <2>5, PairsStay DEF vars, runVars, outside
  <2> QED BY <2>4, <2>6
<1>12. CASE \/ \E p \in Path : Sweep(p)
            \/ \E units \in SUBSET Unit : Begin(units)
            \/ Swept \/ SweepFails \/ LetGo \/ TellFails \/ Release \/ Save \/ Crash \/ Tick
  BY <1>1, <1>2, <1>12
  DEF Sweep, Begin, Swept, SweepFails, LetGo, TellFails, Lost, Release, Save, Crash, Tick, runVars,
      ReportType, IInv, PcInv
<1>13. CASE StageBatch \/ Stage \/ Clone \/ Backend \/ Finish \/ BatchDone \/ RewrittenGone
  BY <1>1, <1>13 DEF StageBatch, Stage, Clone, Backend, Finish, BatchDone, RewrittenGone, IInv, PcInv
<1> QED
  BY <1>3, <1>5, <1>6, <1>7, <1>8, <1>9, <1>10, <1>11, <1>12, <1>13 DEF Next, Run

LEMMA CrashesCount == ASSUME IInv, [Next]_vars, crashes' = 0 PROVE crashes = 0
<1>1. crashes \in Nat
  BY EngineAssumption DEF IInv, TypeOK
<1>2. crashes' = crashes \/ crashes' = crashes + 1
  BY DEF Next, vars, outside, Begin, Run, Sweep, Swept, SweepFails, Plan, LetGo, StageBatch, Stage, Clone, Backend,
         Finish, BatchDone, StartReplace, Copy, HeldStill, Rename, LinkRest, Tell, TellFails,
         RewrittenGone, EndPass, Release, Save, Crash, Build, BuildCreate, BuildRewrite, BuildLink,
         BuildDelete, Tick
<1> QED BY <1>1, <1>2

LEMMA InitDone == ASSUME Init PROVE DoneInv
BY EngineAssumption DEF Init, DoneInv, CleanInv, FreshInv, Deduping, Report

\* On a steady device where no call fails and no run was killed yet, every part of DoneInv
\* holds through every run and build: while nothing disturbs a dedupe pass, of two equal
\* files one is shared, on its way in or still planned (dedupe.rs and replace_inode).
THEOREM DoneInductive == Spec => []DoneInv
<1>1. Init => DoneInv
  BY InitDone
<1>2. IInv /\ IInv' /\ SteadyInv /\ SteadyInv' /\ DoneInv /\ [Next]_vars => DoneInv'
  <2> SUFFICES ASSUME IInv, IInv', SteadyInv, SteadyInv', DoneInv, [Next]_vars,
                      Steady', ~MayFail, crashes' = 0
               PROVE  /\ CleanInv' /\ FreshInv'
                      /\ (Deduping /\ Calm)' /\ device'.how # "none" => OwnInv' /\ MidInv' /\ PairsInv'
    BY DEF DoneInv
  <2>1. device' = device /\ Steady /\ crashes = 0
    BY DeviceStays, CrashesCount
  <2>2. SteadyParts /\ SteadyParts'
    BY <2>1 DEF SteadyInv, SteadyParts
  <2>3. /\ CleanInv /\ FreshInv
        /\ Deduping /\ Calm /\ device.how # "none" => OwnInv /\ MidInv /\ PairsInv
    BY <2>1 DEF DoneInv
  <2> QED BY <2>1, <2>2, <2>3, CleanHolds, FreshHolds, PassHolds
<1> QED BY <1>1, <1>2, EngineInductive, SteadyInductive, PTL DEF Spec

\* Every invariant holds in every state of every run, on every device, the last two for
\* what they take.
THEOREM InductiveHolds == Spec => []InductiveInv
<1>1. IInv /\ LeftInv /\ SteadyInv /\ DoneInv => InductiveInv
  BY DEF InductiveInv
<1> QED BY <1>1, EngineInductive, LeftInductive, SteadyInductive, DoneInductive, PTL

\* A run that met no build, skipped nothing and was not told to let go has shared every
\* pair of equal files in its units (run and plan_groups in dedupe.rs), where no call
\* fails and no run before it was killed half way.
THEOREM DedupeIsDone == Spec => [](Steady /\ ~MayFail /\ crashes = 0 => Deduped)
<1>1. ASSUME IInv, DoneInv, Steady, ~MayFail, crashes = 0
      PROVE  Deduped
  <2> SUFFICES ASSUME pc = "release", device.how # "none", ~report.interrupted,
                      report.skipped = {}, report.begun = builds,
                      NEW p \in Path, NEW q \in Path, InScope(p), InScope(q),
                      Bytes(p) = Bytes(q), name[p] # name[q]
               PROVE  Shared(Stamp(p)) \/ Shared(Stamp(q))
    BY DEF Deduped
  <2>1. CleanInv /\ (Deduping /\ Calm /\ device.how # "none" => PairsInv)
    BY <1>1 DEF DoneInv
  <2>2. pass = "dedupe"
    BY <2>1 DEF CleanInv
  <2>3. PairsInv
    BY <2>1, <2>2 DEF Deduping, Calm
  <2>4. ~Underway(p) /\ ~Underway(q)
    BY <1>1 DEF Underway, Acting, IInv, PcInv
  <2> QED BY <2>3, <2>4 DEF PairsInv
<1>2. IInv /\ DoneInv => (Steady /\ ~MayFail /\ crashes = 0 => Deduped)
  BY <1>1
<1> QED BY <1>2, EngineInductive, DoneInductive, PTL
=============================================================================
