-------------------------- MODULE LogReaders_proofs --------------------------
(***************************************************************************)
(* What a reader may believe.                                              *)
(*                                                                         *)
(* A verify takes no lock, and yet what it answers is true of a moment of  *)
(* its own call, if no rotation and no death of the daemon comes in        *)
(* between: for any readers and handlers, and under the faults from which  *)
(* the code recovers (Harmless).                                           *)
(*                                                                         *)
(* Then the pages of a query, for any filter and any page size: types      *)
(* under every fault; pages that ascend and repeat nothing; a query that   *)
(* no rotation met, complete.  The argument goes from what a filter picks  *)
(* from one file, over the files one after the other as the history of the *)
(* log, to how far a query has come.                                       *)
(***************************************************************************)
EXTENDS LogReaders, ChainHonest_proofs

\* A rotation that changes files, or a place in one.
Moving == InRotate \ {"prepare"}

\* Nothing but emits met the call so far.
Undisturbed(r) == rpc[r] # "idle" /\ overlap[r] \subseteq {"emit"}

JobShape ==
  /\ DOMAIN rpc = Reader /\ DOMAIN job = Reader
  /\ \A r \in Reader : DOMAIN job[r] = DOMAIN NoJob

\* Who is at work now is among those that met the call.
MetIsNoted ==
  \A r \in Reader : rpc[r] # "idle" =>
    /\ "rotate" \notin overlap[r] => \A h \in Handler : pc[h] \notin Moving
    /\ "emit" \notin overlap[r] => \A h \in Handler : pc[h] \notin InEmit
    /\ "crash" \notin overlap[r] => up

\* Memory has moved on from the head at the call, and only if an emit met it.
SinceCall(r) ==
  Undisturbed(r) =>
    /\ job[r].since \in Hash /\ IsPrefix(job[r].since, prevHash)
    /\ "emit" \notin overlap[r] => job[r].since = prevHash

\* The manifest in hand is the present one, and the open file the active segment.
SeesPresent(r) ==
  Undisturbed(r) =>
    /\ rpc[r] \in {"scan", "open", "read"} =>
         job[r].known = hasManifest /\ job[r].listed = manifest
    /\ rpc[r] = "read" => job[r].fd = NextSegment

\* The verdict of a walk is one of the log after the call, which n records follow.
IsCurrent(v, since, n, met) ==
  /\ v.at \in Int /\ v.tree_size \in Nat
  /\ IF v.valid
       THEN /\ IsPrefix(since, v.root_hash)
            /\ v.tree_size = Len(v.root_hash)
            /\ v.tree_size <= n + IF met THEN 1 ELSE 0
       ELSE met /\ Len(since) <= v.at /\ v.at <= n

Answers(r) ==
  Undisturbed(r) /\ rpc[r] = "done" =>
    IsCurrent(job[r].state, job[r].since, seq, "emit" \in overlap[r])

WalkInv ==
  /\ JobShape /\ MetIsNoted
  /\ \A r \in Reader : SinceCall(r) /\ SeesPresent(r) /\ Answers(r)

-----------------------------------------------------------------------------
(* The daemon next to the readers *)

LEMMA ReadersNextIsNext == [ReadersNext]_<<vars, readers>> => [Next]_vars
BY DEF ReadersNext

\* The readers change nothing of the daemon's: what its steps keep, they keep next to them.
LEMMA ReadersSpecIsSpec == ReadersSpec => Spec
<1>1. ReadersInit => Init
  BY DEF ReadersInit
<1> QED BY <1>1, ReadersNextIsNext, PTL DEF ReadersSpec, Spec

\* Between rotations and deaths the files only grow by what emits write, and memory
\* follows.
LEMMA UndisturbedStep ==
  ASSUME Inv, [Next]_vars, up' = up, up,
         \A h \in Handler : pc[h] \notin Moving /\ pc'[h] \notin Moving
  PROVE  /\ UNCHANGED <<segs, hasManifest, manifest>>
         /\ IsPrefix(prevHash, prevHash') /\ seq' \in {seq, seq + 1}
         /\ (\A h \in Handler : pc[h] \notin InEmit) => UNCHANGED <<seq, prevHash>>
<1>1. TypeOK /\ prevHash \in Hash /\ seq \in Nat
  BY DEF Inv, TypeOK
<1>2. IsPrefix(prevHash, prevHash)
  BY <1>1, PrefixReflexive DEF Hash
<1>3. CASE UNCHANGED <<segs, hasManifest, manifest, memory>>
  BY <1>2, <1>3 DEF memory
<1>4. ASSUME NEW h \in Handler, EmitReturn(h)
      PROVE  /\ UNCHANGED <<segs, hasManifest, manifest>>
             /\ IsPrefix(prevHash, prevHash') /\ seq' = seq + 1
             /\ pc[h] \in InEmit
  <2>1. pc[h] = "sync" /\ arg[h] \in Event
    BY <1>1, <1>4 DEF EmitReturn, TypeOK, ThreadsTypeOK, InEmit
  <2>2. prevHash' = Append(prevHash, [seq |-> seq, event |-> arg[h]])
    BY <1>4 DEF EmitReturn, EmittedRecord, NewRecord, hashRecord
  <2>3. [seq |-> seq, event |-> arg[h]] \in Body
    BY <1>1, <2>1 DEF Body
  <2> QED BY <1>1, <1>4, <2>1, <2>2, <2>3, PrefixAppend DEF Hash, EmitReturn, disk, InEmit
<1>5. ASSUME NEW h \in Handler, Call(h) \/ Step(h), ~EmitReturn(h)
      PROVE  UNCHANGED <<segs, hasManifest, manifest, memory>>
  <2>1. CASE Call(h) \/ Lock(h) \/ CreateCheckpoint(h)
    BY <2>1 DEF Call, EmitCall, RotateCall, CreateCall, Lock, CreateCheckpoint, disk
  <2>2. CASE Emit(h)
    BY <1>5, <2>2 DEF Emit, EmitRefused, EmitWrite, EmitWriteFails, EmitSyncFails, disk
  <2>3. CASE Rotate(h)
    <3>1. CASE RotateRefused(h)
      BY <3>1 DEF RotateRefused, disk
    <3>2. CASE RotatePrepare(h)
      BY <1>1, <3>2 DEF RotatePrepare, Advance, StepAfter, Moving, InRotate, TypeOK,
                        ThreadsTypeOK
    <3>3. CASE ~RotateRefused(h) /\ ~RotatePrepare(h)
      BY <2>3, <3>3
         DEF Rotate, RotateRename, RotateCheckpoint, RotateManifest, RotateFresh,
             RotateFails, RotateFaults, Advance, Moving, InRotate
    <3> QED BY <3>1, <3>2, <3>3
  <2> QED BY <1>5, <2>1, <2>2, <2>3 DEF Step
<1>6. ~Crash /\ ~Restart
  BY DEF Crash, Die, Restart
<1>7. CASE UNCHANGED vars
  BY <1>3, <1>7 DEF vars, disk
<1>8. CASE \E h \in Handler : Call(h) \/ Step(h)
  <2>1. PICK h \in Handler : Call(h) \/ Step(h)
    BY <1>8
  <2>2. CASE EmitReturn(h)
    BY <1>1, <1>4, <2>2
  <2>3. CASE ~EmitReturn(h)
    BY <1>3, <1>5, <2>1, <2>3
  <2> QED BY <2>2, <2>3
<1> QED BY <1>6, <1>7, <1>8 DEF Next

-----------------------------------------------------------------------------
(* What a step of a walk finds *)

\* No rotation is at work and the daemon is up.
Still == up /\ \A h \in Handler : pc[h] \notin Moving

LEMMA StillIsOutside ==
  ASSUME Still
  PROVE  ~InWindow /\ \A h \in Handler : pc[h] \notin {"fresh", "rename"} \cup InTheWindow
BY DEF Still, Moving, InRotate, InWindow, InTheWindow

LEMMA SameValue ==
  ASSUME NEW f, f = [x \in DOMAIN f |-> f[x]], NEW a, NEW b, b = f[a]
  PROVE  [f EXCEPT ![a] = b] = f
OBVIOUS

LEMMA ViewIsDisk ==
  ASSUME NEW r, job[r].known = hasManifest, job[r].listed = manifest
  PROVE  View(r) = Disk
<1>1. /\ Disk = [x \in DOMAIN Disk |-> Disk[x]]
      /\ job[r].known = Disk["hasManifest"] /\ job[r].listed = Disk["manifest"]
  BY DEF Disk
<1>2. [Disk EXCEPT !["hasManifest"] = job[r].known] = Disk
  BY <1>1, SameValue
<1>3. [Disk EXCEPT !["manifest"] = job[r].listed] = Disk
  BY <1>1, SameValue
<1> QED BY <1>2, <1>3 DEF View

\* The listed segments verify, all segments are listed, and there is an active one.
LEMMA ScanPasses ==
  ASSUME Inv, ManifestInv, HonestInv, Still
  PROVE  /\ \A i \in DOMAIN manifest : listedSegment(Disk, i).valid
         /\ ~uncoveredSegment(Disk)
         /\ hasActive
<1>1. highestSegmentOnDisk(segs) = Len(manifest) /\ Len(manifest) \in Nat
  BY StillIsOutside, StateTypes, HighestIsLen DEF HonestInv, AllListed
<1>2. ~uncoveredSegment(Disk)
  BY <1>1 DEF uncoveredSegment, Disk
<1>3. hasActive
  BY StillIsOutside DEF HonestInv, ActiveThere, Still
<1> QED BY <1>2, <1>3 DEF ManifestInv, ManifestIsAChain

\* The active segment as it stands has the head in memory, or the record after it.
LEMMA ActiveIsCurrent ==
  ASSUME Inv, HonestInv, Still
  PROVE  LET head == HeadAfter(active, SealedTo)
             writing == \E h \in Handler : pc[h] = "sync"
         IN /\ IsPrefix(prevHash, head) /\ head \in Hash
            /\ Len(head) = Len(SealedTo) + Len(active)
            /\ Len(head) = seq + IF writing THEN 1 ELSE 0
            /\ ~writing => head = prevHash
<1> DEFINE head == HeadAfter(active, SealedTo)
           writing == \E h \in Handler : pc[h] = "sync"
<1>1. /\ active \in Seq(Line) /\ head \in Hash /\ prevHash \in Hash /\ seq \in Nat
      /\ Len(head) = Len(SealedTo) + Len(active)
  BY StateTypes, HeadLength DEF Inv, TypeOK, HonestInv
<1>2. head = DiskHead /\ seq = Len(prevHash)
  BY StillIsOutside, HeadOutside DEF HonestInv, MemoryIsHead, Still
<1>3. CASE ~writing
  BY <1>1, <1>2, <1>3, PrefixReflexive DEF HonestInv, MemoryIsHead, Still, Hash
<1>4. CASE writing
  <2>1. PICK h \in Handler : pc[h] = "sync"
    BY <1>4
  <2>2. active # << >> /\ Last(active).rec = EmittedRecord(h) /\ arg[h] \in Event
    BY <2>1 DEF HonestInv, MemoryIsHead, Still, Inv, InFlight, TypeOK, ThreadsTypeOK, InEmit
  <2>3. head = Append(prevHash, [seq |-> seq, event |-> arg[h]])
    BY <2>2 DEF HeadAfter, EmittedRecord, NewRecord, hashRecord
  <2>4. [seq |-> seq, event |-> arg[h]] \in Body
    BY <1>1, <2>2 DEF Body
  <2>5. IsPrefix(prevHash, head) /\ Len(head) = Len(prevHash) + 1
    BY <1>1, <2>3, <2>4, PrefixAppend DEF Hash
  <2> QED BY <1>1, <1>2, <1>4, <2>5
<1> QED BY <1>1, <1>3, <1>4

\* A line of which only the front is there stands for nothing, or for its record.
LEMMA FrontOfLine ==
  ASSUME Harmless, Inv, HonestInv, Still, NEW h \in Handler, pc[h] = "write",
         arg[h] \notin Refused,
         NEW front \in {CutInside(EmittedRecord(h)), CutBeforeNewline(EmittedRecord(h))}
  PROVE  LET lines == AppendLine(active, front)
             state == verifyChainStateFrom(lines, SealedTo, manifestState(Disk).offset)
         IN IF state.valid
              THEN /\ IsPrefix(prevHash, state.root_hash) /\ state.root_hash \in Hash
                   /\ state.tree_size = Len(state.root_hash) /\ state.tree_size = seq + 1
                   /\ state.at = NoAt
              ELSE state.at = seq /\ state.tree_size = 0
<1> DEFINE rec == EmittedRecord(h)
           lines == AppendLine(active, front)
           n == Len(active)
           head == HeadAfter(active, SealedTo)
           state == verifyChainStateFrom(lines, SealedTo, manifestState(Disk).offset)
<1>1. /\ active \in Seq(Line) /\ SealedTo \in Hash /\ prevHash \in Hash /\ seq \in Nat
      /\ arg[h] \in Event /\ n \in Nat /\ DOMAIN active = 1..n
  BY StateTypes, LenProperties DEF Inv, TypeOK, ThreadsTypeOK, InEmit
<1>2. rec \in Record /\ rec.event = arg[h] /\ rec.seq = seq
  BY <1>1, NewRecordType DEF EmittedRecord, NewRecord
<1>3. front \in Line /\ front.rec = rec
  <2>1. front \in {CutInside(rec), CutBeforeNewline(rec)}
    OBVIOUS
  <2> HIDE DEF rec
  <2>2. CutInside(rec).rec = rec /\ CutBeforeNewline(rec).rec = rec
    BY DEF CutInside, CutBeforeNewline
  <2> QED BY <1>2, <2>1, <2>2, LineTypes
<1>4. \A g \in Handler : pc[g] # "sync"
  BY OnlyOneInside DEF Inv, Inside, InEmit
<1>5. head = prevHash /\ seq = Len(SealedTo) + n /\ Len(prevHash) = seq
  BY <1>1, <1>4, ActiveIsCurrent
<1>6. manifestState(Disk).offset = Len(SealedTo) /\ Len(SealedTo) \in Nat
  BY <1>1, LenProperties DEF HonestInv, ActiveLinks, Hash
<1>7. lines = Append(active, front)
  <2>1. CASE active # << >>
    <3>1. n \in DOMAIN active
      BY <1>1, <2>1, EmptySeq
    <3>2. Last(active).nl
      BY <3>1 DEF HonestInv, ActiveLinks, Last
    <3> QED BY <3>2 DEF AppendLine
  <2>2. CASE active = << >>
    BY <2>2 DEF AppendLine
  <2> QED BY <2>1, <2>2
<1>8. /\ lines \in Seq(Line) /\ Len(lines) = n + 1 /\ DOMAIN lines = 1..(n + 1)
      /\ lines[n + 1] = front /\ \A i \in 1..n : lines[i] = active[i]
  BY <1>1, <1>3, <1>7
<1>9. CASE SoundFile(lines, SealedTo)
  <2>1. HeadAfter(lines, SealedTo) = Append(prevHash, BodyOf(rec))
    BY <1>1, <1>3, <1>5, <1>9, SoundWrite
  <2>2. /\ state.valid /\ state.at = NoAt /\ state.tree_size = Len(SealedTo) + (n + 1)
        /\ state.root_hash = HeadAfter(lines, SealedTo)
    <3>1. lines # << >>
      BY <1>8, EmptySeq
    <3> QED BY <1>6, <1>8, <1>9, <3>1 DEF verifyChainStateFrom, HeadAfter
  <2>3. BodyOf(rec) \in Body
    BY <1>2 DEF BodyOf, Body, Record
  <2>4. /\ IsPrefix(prevHash, state.root_hash) /\ state.root_hash \in Hash
        /\ Len(state.root_hash) = Len(prevHash) + 1
    BY <1>1, <2>1, <2>2, <2>3, PrefixAppend DEF Hash
  <2> QED BY <1>1, <1>5, <1>6, <2>2, <2>4
<1>10. CASE ~SoundFile(lines, SealedTo)
  <2>1. \A i \in 1..n : SoundLine(lines, i, SealedTo)
    <3> SUFFICES ASSUME NEW i \in 1..n
                 PROVE  SoundLine(lines, i, SealedTo)
      OBVIOUS
    <3>1. SoundLine(active, i, SealedTo)
      BY <1>1 DEF HonestInv, ActiveLinks, SoundFile
    <3>2. /\ lines[i] = active[i]
          /\ ExpectedPrev(lines, i, SealedTo) = ExpectedPrev(active, i, SealedTo)
      BY <1>1, <1>8 DEF ExpectedPrev
    <3> QED BY <3>1, <3>2 DEF SoundLine
  <2>2. ~SoundLine(lines, n + 1, SealedTo)
    BY <1>1, <1>8, <1>10, <2>1 DEF SoundFile
  <2>3. FirstUnsound(lines, SealedTo) = n + 1
    <3> DEFINE First(i) == /\ ~SoundLine(lines, i, SealedTo)
                           /\ \A j \in 1..(i-1) : SoundLine(lines, j, SealedTo)
    <3>1. n + 1 \in DOMAIN lines /\ First(n + 1)
      BY <1>1, <1>8, <2>1, <2>2
    <3>2. \A i \in DOMAIN lines : First(i) => i = n + 1
      BY <1>1, <1>8, <2>1
    <3> HIDE DEF First
    <3>3. (CHOOSE i \in DOMAIN lines : First(i)) = n + 1
      BY <3>1, <3>2
    <3> QED BY <3>3 DEF First, FirstUnsound
  <2>4. Scannable(front)
    BY <1>2, <1>3 DEF Scannable, Harmless
  <2>5. FaultAt(lines, n + 1, manifestState(Disk).offset) = seq
    <3>1. (Len(SealedTo) + (n + 1)) - 1 = seq
      BY <1>1, <1>5, <1>6
    <3> QED BY <1>1, <1>2, <1>3, <1>5, <1>6, <1>8, <2>4, <3>1 DEF FaultAt
  <2> QED BY <1>10, <2>3, <2>5 DEF verifyChainStateFrom, Broken
<1> QED BY <1>9, <1>10

\* What a read of the open file makes of the walk.
LEMMA WalkIsCurrent ==
  ASSUME Harmless, Inv, ManifestInv, HonestInv, Still, NEW r,
         job[r].known = hasManifest, job[r].listed = manifest, job[r].fd = NextSegment,
         NEW lines \in ReadsOf(job[r].fd),
         NEW since \in Hash, IsPrefix(since, prevHash)
  PROVE  IsCurrent(verifyChainStateFrom(lines, CarriedPrev(View(r), AfterListed(r)),
                                        CarriedOffset(View(r), AfterListed(r))),
                   since, seq, \E h \in Handler : pc[h] \in InEmit)
<1> DEFINE offset == manifestState(Disk).offset
           state == verifyChainStateFrom(lines, SealedTo, offset)
           met == \E h \in Handler : pc[h] \in InEmit
<1>1. /\ CarriedPrev(View(r), AfterListed(r)) = SealedTo
      /\ CarriedOffset(View(r), AfterListed(r)) = offset
  BY ViewIsDisk, ResumePoint DEF AfterListed, ManifestInv, SealedTo
<1>2. prevHash \in Hash /\ seq \in Nat /\ Len(since) \in Nat /\ Len(SealedTo) \in Nat
      /\ active \in Seq(Line) /\ Len(active) \in Nat
  BY StateTypes, LenProperties DEF Inv, TypeOK, Hash
<1>3. Len(since) <= Len(prevHash)
  BY DEF IsPrefix
<1>4. CASE lines = active
  <2>1. SoundFile(active, SealedTo) /\ offset = Len(SealedTo)
    BY DEF HonestInv, ActiveLinks
  <2>2. state.valid /\ state.at = NoAt
    BY <1>4, <2>1 DEF verifyChainStateFrom
  <2>3. /\ state.root_hash = HeadAfter(active, SealedTo)
        /\ state.tree_size = Len(SealedTo) + Len(active)
    BY <1>4, <2>1, <2>2, WalkReports
  <2>4. /\ IsPrefix(prevHash, state.root_hash) /\ state.root_hash \in Hash
        /\ state.tree_size = Len(state.root_hash)
        /\ state.tree_size = seq + IF \E h \in Handler : pc[h] = "sync" THEN 1 ELSE 0
    BY <2>3, ActiveIsCurrent
  <2>5. IsPrefix(since, state.root_hash)
    BY <1>2, <2>4, PrefixTransitive DEF Hash
  <2>6. state.tree_size <= seq + IF met THEN 1 ELSE 0
    BY <1>2, <2>4 DEF InEmit
  <2>7. state.tree_size \in Nat /\ state.at \in Int
    BY <1>2, <2>2, <2>3 DEF NoAt
  <2> QED BY <1>1, <2>2, <2>4, <2>5, <2>6, <2>7 DEF IsCurrent
<1>5. CASE lines # active
  <2>1. job[r].fd \notin DOMAIN segs
    <3>1. segs \in Seq(Seq(Line)) /\ highestSegmentOnDisk(segs) = Len(segs)
      BY StateTypes, HighestIsLen
    <3> QED BY <3>1, LenProperties DEF NextSegment
  <2>2. PICK h \in Handler :
          /\ pc[h] = "write" /\ arg[h] \notin Refused
          /\ \E front \in {CutInside(EmittedRecord(h)), CutBeforeNewline(EmittedRecord(h))} :
               lines = AppendLine(active, front)
    BY <1>5, <2>1 DEF ReadsOf, Inode
  <2>3. PICK front \in {CutInside(EmittedRecord(h)), CutBeforeNewline(EmittedRecord(h))} :
          lines = AppendLine(active, front)
    BY <2>2
  <2>4. IF state.valid
          THEN /\ IsPrefix(prevHash, state.root_hash) /\ state.root_hash \in Hash
               /\ state.tree_size = Len(state.root_hash) /\ state.tree_size = seq + 1
               /\ state.at = NoAt
          ELSE state.at = seq /\ state.tree_size = 0
    BY <2>2, <2>3, FrontOfLine
  <2>5. met
    BY <2>2 DEF InEmit
  <2>6. Len(since) <= seq
    BY <1>3 DEF HonestInv, MemoryIsHead, Still
  <2>7. state.valid => IsPrefix(since, state.root_hash)
    BY <1>2, <2>4, PrefixTransitive DEF Hash
  <2>8. IsCurrent(state, since, seq, met)
    <3> HIDE DEF state, met
    <3> QED BY <1>2, <2>4, <2>5, <2>6, <2>7 DEF IsCurrent, NoAt
  <2> QED BY <1>1, <2>8
<1> QED BY <1>4, <1>5

-----------------------------------------------------------------------------
(* Steps *)

LEMMA StaysCurrent ==
  ASSUME NEW v, NEW since \in Hash, NEW n \in Nat, NEW m \in Nat, n <= m,
         NEW met, NEW metNow, met => metNow, IsCurrent(v, since, n, met)
  PROVE  IsCurrent(v, since, m, metNow)
<1>1. Len(since) \in Nat
  BY DEF Hash
<1>2. CASE v.valid
  BY <1>2 DEF IsCurrent
<1>3. CASE ~v.valid
  BY <1>1, <1>3 DEF IsCurrent
<1> QED BY <1>2, <1>3

LEMMA Noted ==
  ASSUME Observe, NEW r \in Reader, rpc'[r] # "idle"
  PROVE  /\ overlap[r] \subseteq overlap'[r]
         /\ "rotate" \notin overlap'[r] =>
              \A h \in Handler : pc[h] \notin Moving /\ pc'[h] \notin Moving
         /\ "emit" \notin overlap'[r] =>
              \A h \in Handler : pc[h] \notin InEmit /\ pc'[h] \notin InEmit
         /\ "crash" \notin overlap'[r] => up' = up
<1>1. overlap'[r] = overlap[r] \cup AtWork
  BY DEF Observe
<1>2. "rotate" \notin AtWork =>
        \A h \in Handler : pc[h] \notin Moving /\ pc'[h] \notin Moving
  BY DEF AtWork, Moving
<1>3. "emit" \notin AtWork =>
        \A h \in Handler : pc[h] \notin InEmit /\ pc'[h] \notin InEmit
  BY DEF AtWork
<1>4. "crash" \notin AtWork => up' = up
  BY DEF AtWork
<1> QED BY <1>1, <1>2, <1>3, <1>4

LEMMA MetStaysNoted ==
  ASSUME MetIsNoted, Observe, \A r \in Reader : rpc[r] = "idle" /\ rpc'[r] # "idle" => up
  PROVE  MetIsNoted'
<1> SUFFICES ASSUME NEW r \in Reader, rpc'[r] # "idle"
             PROVE  /\ "rotate" \notin overlap'[r] => \A h \in Handler : pc'[h] \notin Moving
                    /\ "emit" \notin overlap'[r] => \A h \in Handler : pc'[h] \notin InEmit
                    /\ "crash" \notin overlap'[r] => up'
  BY DEF MetIsNoted
<1> QED BY Noted DEF MetIsNoted

\* A step of the daemon: what the reader has in hand stays, and stays true.
LEMMA DaemonStep ==
  ASSUME Inv, WalkInv, Next, UNCHANGED <<rpc, job, reads>>, Observe
  PROVE  WalkInv'
<1>1. JobShape' /\ MetIsNoted'
  BY MetStaysNoted DEF WalkInv, JobShape
<1>2. ASSUME NEW r \in Reader, Undisturbed(r)'
      PROVE  SinceCall(r)' /\ SeesPresent(r)' /\ Answers(r)'
  <2>1. /\ Undisturbed(r) /\ overlap[r] \subseteq overlap'[r]
        /\ \A h \in Handler : pc[h] \notin Moving /\ pc'[h] \notin Moving
        /\ "emit" \notin overlap'[r] => \A h \in Handler : pc[h] \notin InEmit
        /\ up' = up /\ up
    BY <1>2, Noted DEF Undisturbed, WalkInv, MetIsNoted
  <2>2. /\ UNCHANGED <<segs, hasManifest, manifest>>
        /\ IsPrefix(prevHash, prevHash') /\ seq' \in {seq, seq + 1}
        /\ (\A h \in Handler : pc[h] \notin InEmit) => UNCHANGED <<seq, prevHash>>
    BY <2>1, UndisturbedStep
  <2>3. SinceCall(r) /\ SeesPresent(r) /\ Answers(r)
    BY DEF WalkInv
  <2>4. prevHash \in Hash /\ seq \in Nat /\ prevHash' \in Hash
    <3>1. Inv'
      BY InvStep
    <3> QED BY <3>1 DEF Inv, TypeOK
  <2>5. SinceCall(r)'
    <3>1. job[r].since \in Hash /\ IsPrefix(job[r].since, prevHash')
      BY <2>1, <2>2, <2>3, <2>4, PrefixTransitive DEF SinceCall, Hash
    <3> QED BY <2>1, <2>2, <2>3, <3>1 DEF SinceCall
  <2>6. SeesPresent(r)'
    BY <2>1, <2>2, <2>3 DEF SeesPresent, NextSegment
  <2>7. Answers(r)'
    <3>1. seq <= seq' /\ seq' \in Nat
      BY <2>2, <2>4
    <3>2. rpc[r] = "done" => IsCurrent(job[r].state, job[r].since, seq', "emit" \in overlap'[r])
      <4> SUFFICES ASSUME rpc[r] = "done"
                   PROVE  IsCurrent(job[r].state, job[r].since, seq', "emit" \in overlap'[r])
        OBVIOUS
      <4>1. /\ IsCurrent(job[r].state, job[r].since, seq, "emit" \in overlap[r])
            /\ job[r].since \in Hash /\ ("emit" \in overlap[r] => "emit" \in overlap'[r])
        BY <2>1, <2>3 DEF Answers, SinceCall
      <4> QED BY <2>4, <3>1, <4>1, StaysCurrent
    <3> QED BY <2>1, <3>2 DEF Answers
  <2> QED BY <2>5, <2>6, <2>7
<1> QED BY <1>1, <1>2 DEF WalkInv, SinceCall, SeesPresent, Answers

\* A step of one reader leaves the others as they are, if it does not forget fields.
LEMMA OneReaderSteps ==
  ASSUME Inv, WalkInv, UNCHANGED vars, Observe, NEW r \in Reader,
         rpc' = [rpc EXCEPT ![r] = rpc'[r]], job' = [job EXCEPT ![r] = job'[r]],
         DOMAIN job'[r] = DOMAIN NoJob, rpc[r] = "idle" => up,
         Undisturbed(r)' => SinceCall(r)' /\ SeesPresent(r)' /\ Answers(r)'
  PROVE  WalkInv'
<1>1. JobShape'
  BY DEF WalkInv, JobShape
<1>2. /\ \A g \in Reader \ {r} : rpc'[g] = rpc[g] /\ job'[g] = job[g]
      /\ UNCHANGED <<prevHash, seq, manifest, hasManifest, segs, up, pc>>
  BY DEF WalkInv, JobShape, vars, disk, memory, threads
<1>3. MetIsNoted'
  BY <1>2, MetStaysNoted DEF WalkInv
<1>4. ASSUME NEW g \in Reader \ {r}, Undisturbed(g)'
      PROVE  SinceCall(g)' /\ SeesPresent(g)' /\ Answers(g)'
  <2>1. Undisturbed(g) /\ overlap[g] \subseteq overlap'[g]
    BY <1>2, <1>4, Noted DEF Undisturbed
  <2>2. SinceCall(g) /\ SeesPresent(g) /\ Answers(g)
    BY DEF WalkInv
  <2>3. SinceCall(g)' /\ SeesPresent(g)'
    BY <1>2, <2>1, <2>2 DEF SinceCall, SeesPresent, NextSegment
  <2>4. Answers(g)'
    <3>1. seq \in Nat /\ seq <= seq
      BY DEF Inv, TypeOK
    <3>2. rpc[g] = "done" => IsCurrent(job[g].state, job[g].since, seq, "emit" \in overlap'[g])
      <4> SUFFICES ASSUME rpc[g] = "done"
                   PROVE  IsCurrent(job[g].state, job[g].since, seq, "emit" \in overlap'[g])
        OBVIOUS
      <4>1. /\ IsCurrent(job[g].state, job[g].since, seq, "emit" \in overlap[g])
            /\ job[g].since \in Hash /\ ("emit" \in overlap[g] => "emit" \in overlap'[g])
        BY <2>1, <2>2 DEF Answers, SinceCall
      <4> QED BY <3>1, <4>1 DEF IsCurrent
    <3> QED BY <1>2, <2>1, <3>2 DEF Answers
  <2> QED BY <2>3, <2>4
<1> QED BY <1>1, <1>3, <1>4 DEF WalkInv, SinceCall, SeesPresent, Answers

-----------------------------------------------------------------------------
(* Steps of a reader *)

LEMMA CallsBegin ==
  ASSUME Inv, WalkInv, UNCHANGED vars, Observe, NEW r \in Reader, ReaderCall(r)
  PROVE  WalkInv'
<1>1. \/ \E cp \in signed : CompareCall(r, cp)
      \/ \E f \in SUBSET Event \ {{}} : QueryCall(r, f)
  BY DEF ReaderCall
<1>2. /\ rpc[r] = "idle" /\ rpc'[r] \in {"load", "paths"} /\ job'[r].since = prevHash
      /\ DOMAIN job'[r] = DOMAIN NoJob
      /\ rpc' = [rpc EXCEPT ![r] = rpc'[r]] /\ job' = [job EXCEPT ![r] = job'[r]]
  BY <1>1 DEF CompareCall, QueryCall, ReaderGoes, NoJob, WalkInv, JobShape
<1>3. up /\ prevHash' = prevHash /\ prevHash \in Hash
  BY DEF ReaderCall, vars, memory, Inv, TypeOK
<1>4. SinceCall(r)' /\ SeesPresent(r)' /\ Answers(r)'
  BY <1>2, <1>3, PrefixReflexive DEF SinceCall, SeesPresent, Answers, Hash
<1> QED BY <1>2, <1>3, <1>4, OneReaderSteps

\* A step inside a call keeps the head at the call.
LEMMA CallGoesOn ==
  ASSUME Inv, WalkInv, UNCHANGED vars, Observe, NEW r \in Reader, rpc[r] # "idle",
         rpc' = [rpc EXCEPT ![r] = rpc'[r]], job' = [job EXCEPT ![r] = job'[r]],
         DOMAIN job'[r] = DOMAIN NoJob, job'[r].since = job[r].since,
         Undisturbed(r)' => SeesPresent(r)' /\ Answers(r)'
  PROVE  WalkInv'
<1>1. ASSUME Undisturbed(r)'
      PROVE  SinceCall(r)'
  <2>1. Undisturbed(r) /\ overlap[r] \subseteq overlap'[r]
    BY <1>1, Noted DEF Undisturbed
  <2>2. prevHash' = prevHash
    BY DEF vars, memory
  <2> QED BY <2>1, <2>2 DEF WalkInv, SinceCall
<1> QED BY <1>1, OneReaderSteps

\* What holds at a step of a call that only emits have met.
LEMMA AtStep ==
  ASSUME WalkInv, Observe, NEW r \in Reader, rpc[r] # "idle", Undisturbed(r)'
  PROVE  /\ Undisturbed(r) /\ Still /\ SinceCall(r) /\ SeesPresent(r)
         /\ (\E h \in Handler : pc[h] \in InEmit) => "emit" \in overlap'[r]
<1>1. Undisturbed(r) /\ overlap[r] \subseteq overlap'[r]
  BY Noted DEF Undisturbed
<1>2. /\ "rotate" \notin overlap[r] /\ "crash" \notin overlap[r]
      /\ (\E h \in Handler : pc[h] \in InEmit) => "emit" \in overlap[r]
  BY <1>1 DEF Undisturbed, WalkInv, MetIsNoted
<1> QED BY <1>1, <1>2 DEF WalkInv, MetIsNoted, Undisturbed, Still

LEMMA LoadStep ==
  ASSUME Inv, WalkInv, UNCHANGED vars, Observe, NEW r \in Reader, LoadManifest(r)
  PROVE  WalkInv'
<1>1. /\ rpc[r] = "load" /\ rpc'[r] = "scan"
      /\ rpc' = [rpc EXCEPT ![r] = rpc'[r]] /\ job' = [job EXCEPT ![r] = job'[r]]
      /\ job'[r] = [job[r] EXCEPT !.known = hasManifest, !.listed = manifest]
  BY DEF LoadManifest, ReaderGoes, WalkInv, JobShape
<1>2. DOMAIN job[r] = DOMAIN NoJob /\ {"known", "listed", "since"} \subseteq DOMAIN job[r]
  BY DEF WalkInv, JobShape, NoJob
<1>3. /\ DOMAIN job'[r] = DOMAIN NoJob /\ job'[r].since = job[r].since
      /\ job'[r].known = hasManifest /\ job'[r].listed = manifest
  BY <1>1, <1>2
<1>4. SeesPresent(r)' /\ Answers(r)'
  BY <1>1, <1>3 DEF SeesPresent, Answers, vars, disk
<1> QED BY <1>1, <1>3, <1>4, CallGoesOn

\* The end of a walk.
LEMMA WalkEnds ==
  ASSUME Inv, WalkInv, UNCHANGED vars, Observe, NEW r \in Reader, NEW STATE state,
         NEW from \in {"scan", "open", "read"}, Walked(r, from, state),
         Undisturbed(r)' => IsCurrent(state, job[r].since, seq, "emit" \in overlap'[r])
  PROVE  WalkInv'
<1>1. /\ rpc[r] = from /\ rpc'[r] = "done"
      /\ rpc' = [rpc EXCEPT ![r] = rpc'[r]] /\ job' = [job EXCEPT ![r] = job'[r]]
      /\ job'[r] = [job[r] EXCEPT !.state = state, !.known = FALSE, !.listed = << >>, !.fd = 0]
  BY DEF Walked, ReaderGoes, WalkInv, JobShape
<1>2. /\ DOMAIN job[r] = DOMAIN NoJob
      /\ {"known", "listed", "since", "state", "fd"} \subseteq DOMAIN job[r]
  BY DEF WalkInv, JobShape, NoJob
<1>3. DOMAIN job'[r] = DOMAIN NoJob /\ job'[r].since = job[r].since /\ job'[r].state = state
  BY <1>1, <1>2
<1>4. seq' = seq
  BY DEF vars, memory
<1>5. Undisturbed(r)' => SeesPresent(r)' /\ Answers(r)'
  BY <1>1, <1>3, <1>4 DEF SeesPresent, Answers
<1> QED BY <1>1, <1>3, <1>5, CallGoesOn

LEMMA ScanStep ==
  ASSUME Inv, ManifestInv, HonestInv, WalkInv, UNCHANGED vars, Observe, NEW r \in Reader,
         ScanSegments(r)
  PROVE  WalkInv'
<1>1. rpc[r] = "scan"
  BY DEF ScanSegments, Walked, ReaderGoes
<1>2. Undisturbed(r)' =>
        /\ \A i \in DOMAIN job[r].listed : listedSegment(View(r), i).valid
        /\ ~uncoveredSegment(View(r))
  <2> SUFFICES ASSUME Undisturbed(r)'
               PROVE  /\ \A i \in DOMAIN job[r].listed : listedSegment(View(r), i).valid
                      /\ ~uncoveredSegment(View(r))
    OBVIOUS
  <2>1. Still /\ job[r].known = hasManifest /\ job[r].listed = manifest
    BY <1>1, AtStep DEF SeesPresent
  <2> QED BY <2>1, ViewIsDisk, ScanPasses
<1>3. CASE ReaderGoes(r, "scan", "open", job[r])
  <2>1. /\ rpc'[r] = "open" /\ job'[r] = job[r]
        /\ rpc' = [rpc EXCEPT ![r] = rpc'[r]] /\ job' = [job EXCEPT ![r] = job'[r]]
        /\ DOMAIN job'[r] = DOMAIN NoJob
    BY <1>3 DEF ReaderGoes, WalkInv, JobShape
  <2>2. Undisturbed(r)' => SeesPresent(r)' /\ Answers(r)'
    BY <1>1, <2>1, AtStep DEF SeesPresent, Answers, vars, disk
  <2> QED BY <1>1, <2>1, <2>2, CallGoesOn
<1>4. CASE \E i \in DOMAIN job[r].listed : ~listedSegment(View(r), i).valid
  BY <1>2, <1>4, WalkEnds DEF ScanSegments
<1>5. CASE ~\E i \in DOMAIN job[r].listed : ~listedSegment(View(r), i).valid
  BY <1>2, <1>3, <1>5, WalkEnds DEF ScanSegments
<1> QED BY <1>4, <1>5

LEMMA OpenStep ==
  ASSUME Inv, ManifestInv, HonestInv, WalkInv, UNCHANGED vars, Observe, NEW r \in Reader,
         OpenActive(r)
  PROVE  WalkInv'
<1>1. rpc[r] = "open"
  BY DEF OpenActive, Walked, ReaderGoes
<1>2. CASE ~hasActive
  <2>1. ~Undisturbed(r)'
    BY <1>1, <1>2, AtStep, ScanPasses
  <2> QED BY <1>2, <2>1, WalkEnds DEF OpenActive
<1>3. CASE hasActive
  <2>1. /\ rpc'[r] = "read" /\ job'[r] = [job[r] EXCEPT !.fd = OpenedActive]
        /\ rpc' = [rpc EXCEPT ![r] = rpc'[r]] /\ job' = [job EXCEPT ![r] = job'[r]]
    BY <1>3 DEF OpenActive, ReaderGoes, WalkInv, JobShape
  <2>2. DOMAIN job[r] = DOMAIN NoJob /\ {"known", "listed", "since", "fd"} \subseteq DOMAIN job[r]
    BY DEF WalkInv, JobShape, NoJob
  <2>3. /\ DOMAIN job'[r] = DOMAIN NoJob /\ job'[r].since = job[r].since
        /\ job'[r].known = job[r].known /\ job'[r].listed = job[r].listed
        /\ job'[r].fd = NextSegment
    BY <2>1, <2>2 DEF OpenedActive
  <2>4. Undisturbed(r)' => SeesPresent(r)' /\ Answers(r)'
    <3>1. hasManifest' = hasManifest /\ manifest' = manifest /\ NextSegment' = NextSegment
      BY DEF vars, disk, NextSegment
    <3> QED BY <1>1, <2>1, <2>3, <3>1, AtStep DEF SeesPresent, Answers
  <2> QED BY <1>1, <2>1, <2>3, <2>4, CallGoesOn
<1> QED BY <1>2, <1>3

LEMMA ReadStep ==
  ASSUME Harmless, Inv, ManifestInv, HonestInv, WalkInv, UNCHANGED vars, Observe,
         NEW r \in Reader, ReadActive(r)
  PROVE  WalkInv'
<1> DEFINE state(lines) == verifyChainStateFrom(lines, CarriedPrev(View(r), AfterListed(r)),
                                                CarriedOffset(View(r), AfterListed(r)))
<1>1. PICK lines \in ReadsOf(job[r].fd) : Walked(r, "read", state(lines))
  BY DEF ReadActive
<1>2. rpc[r] = "read"
  BY <1>1 DEF Walked, ReaderGoes
<1>3. ASSUME Undisturbed(r)'
      PROVE  IsCurrent(state(lines), job[r].since, seq, "emit" \in overlap'[r])
  <2>1. /\ Still /\ Undisturbed(r) /\ SinceCall(r) /\ SeesPresent(r)
        /\ (\E h \in Handler : pc[h] \in InEmit) => "emit" \in overlap'[r]
    BY <1>2, <1>3, AtStep
  <2>2. /\ job[r].known = hasManifest /\ job[r].listed = manifest /\ job[r].fd = NextSegment
        /\ job[r].since \in Hash /\ IsPrefix(job[r].since, prevHash)
    BY <1>2, <2>1 DEF SinceCall, SeesPresent
  <2>3. IsCurrent(state(lines), job[r].since, seq, \E h \in Handler : pc[h] \in InEmit)
    BY <2>1, <2>2, WalkIsCurrent
  <2>4. seq \in Nat /\ seq <= seq
    BY DEF Inv, TypeOK
  <2> HIDE DEF state
  <2> QED BY <2>1, <2>3, <2>4 DEF IsCurrent
<1> HIDE DEF state
<1> QED BY <1>1, <1>3, WalkEnds

\* A query on its way to its walk, from page to page, or at its end.
LEMMA QueryStep ==
  ASSUME Inv, WalkInv, UNCHANGED vars, Observe, NEW r \in Reader,
         \/ QueryPaths(r) \/ QueryListed(r) \/ QueryOpenActive(r) \/ QueryActive(r)
         \/ NextPage(r) \/ Leave(r)
  PROVE  WalkInv'
<1>1. /\ DOMAIN job[r] = DOMAIN NoJob
      /\ {"known", "listed", "since", "fd", "got", "room", "next", "resume"} \subseteq DOMAIN job[r]
  BY DEF WalkInv, JobShape, NoJob
<1>2. ASSUME NEW STATE lines, NEW from, NEW to, ScanFile(r, from, to, lines),
             from # "idle", to \in {"openLast", "load"}
      PROVE  /\ rpc[r] = from /\ rpc'[r] \in {"failed", "openLast", "load"}
             /\ rpc' = [rpc EXCEPT ![r] = rpc'[r]] /\ job' = [job EXCEPT ![r] = job'[r]]
             /\ DOMAIN job'[r] = DOMAIN NoJob /\ job'[r].since = job[r].since
  <2> DEFINE page == Collect(job[r], lines)
  <2>1. DOMAIN page = DOMAIN job[r] /\ page.since = job[r].since
    BY <1>1 DEF Collect
  <2>2. \/ ReaderGoes(r, from, "failed", job[r])
        \/ ReaderGoes(r, from, IF page.next # NoToken THEN "load" ELSE to, page)
    BY <1>2 DEF ScanFile
  <2> HIDE DEF page
  <2> QED BY <1>1, <1>2, <2>1, <2>2 DEF ReaderGoes, WalkInv, JobShape
<1>3. CASE Leave(r)
  <2>1. /\ rpc[r] \in {"done", "failed"} /\ rpc'[r] = "idle" /\ job'[r] = NoJob
        /\ rpc' = [rpc EXCEPT ![r] = rpc'[r]] /\ job' = [job EXCEPT ![r] = job'[r]]
    BY <1>3 DEF Leave, ReaderGoes, WalkInv, JobShape
  <2> QED BY <2>1, OneReaderSteps DEF Undisturbed
<1>4. CASE ~Leave(r)
  <2>1. /\ rpc[r] # "idle" /\ rpc'[r] \notin {"scan", "open", "read", "done"}
        /\ rpc' = [rpc EXCEPT ![r] = rpc'[r]] /\ job' = [job EXCEPT ![r] = job'[r]]
        /\ DOMAIN job'[r] = DOMAIN NoJob /\ job'[r].since = job[r].since
    <3>1. CASE QueryPaths(r) \/ QueryOpenActive(r) \/ NextPage(r)
      BY <1>1, <3>1 DEF QueryPaths, QueryOpenActive, NextPage, ReaderGoes, WalkInv, JobShape
    <3>2. CASE QueryListed(r)
      <4>1. CASE ScanFile(r, "listed", "openLast", Listed(r))
        BY <1>2, <4>1
      <4>2. CASE ReaderGoes(r, "listed", "failed", job[r])
        BY <1>1, <4>2 DEF ReaderGoes, WalkInv, JobShape
      <4> QED BY <3>2, <4>1, <4>2 DEF QueryListed
    <3>3. CASE QueryActive(r)
      <4>1. PICK lines \in ReadsOf(job[r].fd) : ScanFile(r, "readLast", "load", lines)
        BY <3>3 DEF QueryActive
      <4> QED BY <1>2, <4>1
    <3> QED BY <1>4, <3>1, <3>2, <3>3
  <2>2. SeesPresent(r)' /\ Answers(r)'
    BY <2>1 DEF SeesPresent, Answers
  <2> QED BY <2>1, <2>2, CallGoesOn
<1> QED BY <1>3, <1>4

LEMMA WalkNext ==
  ASSUME Harmless, Inv, ManifestInv, HonestInv, WalkInv, [ReadersNext]_<<vars, readers>>
  PROVE  WalkInv'
<1>1. CASE UNCHANGED <<vars, readers>>
  <2>1. UNCHANGED <<rpc, job, overlap, pc, up, prevHash, seq, manifest, hasManifest, segs>>
    BY <1>1 DEF readers, vars, disk, memory, threads
  <2>2. JobShape' /\ MetIsNoted'
    BY <2>1 DEF WalkInv, JobShape, MetIsNoted
  <2>3. ASSUME NEW r \in Reader
        PROVE  SinceCall(r)' /\ SeesPresent(r)' /\ Answers(r)'
    BY <2>1 DEF WalkInv, SinceCall, SeesPresent, Answers, Undisturbed, NextSegment
  <2> QED BY <2>2, <2>3 DEF WalkInv
<1>2. CASE ReadersNext
  <2>1. CASE Next /\ UNCHANGED <<rpc, job, reads>> /\ Observe
    BY <2>1, DaemonStep
  <2>2. ASSUME NEW r \in Reader, ReaderCall(r) \/ ReaderStep(r), UNCHANGED vars, Observe
        PROVE  WalkInv'
    BY <2>2, CallsBegin, LoadStep, ScanStep, OpenStep, ReadStep, QueryStep DEF ReaderStep
  <2> QED BY <1>2, <2>1, <2>2 DEF ReadersNext
<1> QED BY <1>1, <1>2

-----------------------------------------------------------------------------
(* The theorems *)

\* What a walk has read is the present as long as only emits met its call, and the head at
\* the call is part of what memory has come to.
THEOREM WalkInvHolds ==
  ASSUME Harmless
  PROVE  ReadersSpec => []WalkInv
<1>1. ReadersInit => WalkInv
  BY DEF ReadersInit, WalkInv, JobShape, MetIsNoted, SinceCall, SeesPresent, Answers,
         Undisturbed
<1>2. Inv /\ ManifestInv /\ HonestInv /\ WalkInv /\ [ReadersNext]_<<vars, readers>> => WalkInv'
  BY WalkNext
<1> QED BY <1>1, <1>2, ReadersSpecIsSpec, InvHolds, ManifestInvHolds, HonestInvHolds, PTL
        DEF ReadersSpec

\* A verify takes no lock; if no rotation and no death met its call, it answers for a
\* moment of the call, or reports the line that an emit was writing.
THEOREM QuietWalksAreCurrent ==
  ASSUME Harmless
  PROVE  ReadersSpec => []QuietWalkIsCurrent
<1>1. WalkInv => QuietWalkIsCurrent
  BY DEF WalkInv, Answers, IsCurrent, Undisturbed, QuietWalkIsCurrent
<1> QED BY <1>1, WalkInvHolds, PTL

-----------------------------------------------------------------------------
(* Sequences put one after the other *)

Sorted(s, R) == \A i, j \in DOMAIN s : i < j => <<s[i], s[j]>> \in R

\* Each of the sequences is sorted, and all of one comes before all of the next.
SortedApart(seqs, R) ==
  /\ \A i \in DOMAIN seqs : Sorted(seqs[i], R)
  /\ \A i, j \in DOMAIN seqs : i < j =>
       \A x \in Range(seqs[i]), y \in Range(seqs[j]) : <<x, y>> \in R

LEMMA SeqRange ==
  ASSUME NEW S, NEW s \in Seq(S)
  PROVE  /\ Range(s) \subseteq S
         /\ \A x : x \in Range(s) <=> \E i \in 1..Len(s) : s[i] = x
BY LenProperties, ElementOfSeq DEF Range

LEMMA ConcatSorted ==
  ASSUME NEW S, NEW R, NEW s \in Seq(S), NEW t \in Seq(S)
  PROVE  /\ s \o t \in Seq(S) /\ Range(s \o t) = Range(s) \cup Range(t)
         /\ Sorted(s, R) /\ Sorted(t, R)
            /\ (\A x \in Range(s), y \in Range(t) : <<x, y>> \in R) => Sorted(s \o t, R)
<1> DEFINE u == s \o t
           m == Len(s)
           n == Len(t)
<1>1. /\ u \in Seq(S) /\ Len(u) = m + n /\ m \in Nat /\ n \in Nat
      /\ DOMAIN u = 1..(m + n) /\ DOMAIN s = 1..m /\ DOMAIN t = 1..n
      /\ \A i \in 1..(m + n) : u[i] = IF i <= m THEN s[i] ELSE t[i - m]
  BY ConcatProperties, LenProperties
<1>2. \A i \in 1..m : i \in 1..(m + n) /\ u[i] = s[i]
  BY <1>1
<1>3. \A i \in 1..n : m + i \in 1..(m + n) /\ u[m + i] = t[i]
  <2> SUFFICES ASSUME NEW i \in 1..n
               PROVE  m + i \in 1..(m + n) /\ u[m + i] = t[i]
    OBVIOUS
  <2>1. m + i \in 1..(m + n) /\ ~(m + i <= m) /\ (m + i) - m = i
    BY <1>1
  <2> HIDE DEF u, m, n
  <2> QED BY <1>1, <2>1
<1>4. \A k \in 1..(m + n) : \/ k \in 1..m /\ u[k] = s[k]
                            \/ k > m /\ k - m \in 1..n /\ u[k] = t[k - m]
  <2> HIDE DEF u, m, n
  <2> QED BY <1>1
<1> HIDE DEF u, m, n
<1>5. Range(u) = Range(s) \cup Range(t)
  <2>1. ASSUME NEW x \in Range(u) PROVE x \in Range(s) \cup Range(t)
    <3>1. PICK k \in 1..(m + n) : u[k] = x
      BY <1>1, <2>1 DEF Range
    <3>2. (k \in 1..m /\ u[k] = s[k]) \/ (k - m \in 1..n /\ u[k] = t[k - m])
      BY <1>4
    <3> QED BY <1>1, <3>1, <3>2 DEF Range
  <2>2. ASSUME NEW x \in Range(s) PROVE x \in Range(u)
    BY <1>1, <1>2 DEF Range
  <2>3. ASSUME NEW x \in Range(t) PROVE x \in Range(u)
    <3>1. PICK k \in 1..n : t[k] = x
      BY <1>1, <2>3 DEF Range
    <3>2. m + k \in DOMAIN u /\ u[m + k] = x
      BY <1>1, <1>3, <3>1
    <3> QED BY <3>2 DEF Range
  <2> QED BY <2>1, <2>2, <2>3
<1>6. ASSUME Sorted(s, R), Sorted(t, R), \A x \in Range(s), y \in Range(t) : <<x, y>> \in R
      PROVE  Sorted(u, R)
  <2> SUFFICES ASSUME NEW i \in 1..(m + n), NEW j \in 1..(m + n), i < j
               PROVE  <<u[i], u[j]>> \in R
    BY <1>1 DEF Sorted
  <2>1. CASE j \in 1..m
    <3>1. i \in 1..m
      BY <1>1, <2>1
    <3> QED BY <1>1, <1>2, <1>6, <2>1, <3>1 DEF Sorted
  <2>2. CASE j > m /\ j - m \in 1..n /\ u[j] = t[j - m]
    <3>1. CASE i \in 1..m /\ u[i] = s[i]
      BY <1>1, <1>6, <2>2, <3>1 DEF Range
    <3>2. CASE i > m /\ i - m \in 1..n /\ u[i] = t[i - m]
      <4>1. i - m < j - m
        BY <1>1
      <4> QED BY <1>1, <1>6, <2>2, <3>2, <4>1 DEF Sorted
    <3> QED BY <1>4, <3>1, <3>2
  <2> QED BY <1>4, <2>1, <2>2
<1> QED BY <1>1, <1>5, <1>6 DEF u

\* What FlattenSeq puts together is what is in the parts, in their order.
LEMMA FlattenSorts ==
  ASSUME NEW S, NEW R, NEW seqs \in Seq(Seq(S)), SortedApart(seqs, R)
  PROVE  /\ FlattenSeq(seqs) \in Seq(S)
         /\ Range(FlattenSeq(seqs)) = UNION {Range(seqs[i]) : i \in 1..Len(seqs)}
         /\ Sorted(FlattenSeq(seqs), R)
<1>1. PICK n \in Nat : /\ n = Len(seqs) /\ DOMAIN seqs = 1..n
                       /\ \A i \in 1..n : seqs[i] \in Seq(S)
  BY LenProperties, ElementOfSeq
<1>2. CASE n = 0
  <2>1. FlattenSeq(seqs) = << >>
    BY <1>1, <1>2, EmptySeq DEF FlattenSeq
  <2>2. Range(<< >>) = {} /\ Sorted(<< >>, R) /\ << >> \in Seq(S)
    BY EmptySeq DEF Range, Sorted
  <2>3. UNION {Range(seqs[i]) : i \in 1..n} = {}
    BY <1>2
  <2> QED BY <1>1, <2>1, <2>2, <2>3
<1>3. CASE n # 0
  <2> DEFINE round(g, i) == IF i = 1 THEN seqs[i] ELSE g[i-1] \o seqs[i]
             Eq(g) == g = [i \in 1..n |-> round(g, i)]
             next == [i \in 1..n |-> [s \in Seq(S) |-> s \o seqs[i]]]
  <2>1. next \in [1..n -> [Seq(S) -> Seq(S)]]
    BY <1>1, ConcatProperties
  <2>2. << >> \in Seq(S)
    BY EmptySeq
  <2>3. PICK f \in Orbits(n, Seq(S), << >>, next) : TRUE
    <3> DEFINE W == Seq(S)
               e == << >>
    <3>1. n \in Nat /\ e \in W /\ next \in [1..n -> [W -> W]]
      BY <1>1, <2>1, <2>2
    <3> HIDE DEF next, W, e
    <3>2. Orbits(n, W, e, next) # {}
      BY <3>1, RecursionExists
    <3> QED BY <3>2 DEF W, e
  <2>4. /\ f \in [0..n -> Seq(S)] /\ f[0] = << >>
        /\ \A i \in 1..n : f[i] = next[i][f[i-1]]
    <3> HIDE DEF next
    <3> QED BY <2>3 DEF Orbits
  <2>5. \A i \in 1..n : f[i] = f[i-1] \o seqs[i]
    <3> SUFFICES ASSUME NEW i \in 1..n
                 PROVE  f[i] = f[i-1] \o seqs[i]
      OBVIOUS
    <3>1. i - 1 \in 0..n
      BY <1>1
    <3>2. f[i-1] \in Seq(S)
      BY <2>4, <3>1
    <3> QED BY <2>4, <3>2
  <2> HIDE DEF next
  <2> DEFINE g == [i \in 1..n |-> f[i]]
  <2>6. Eq(g)
    <3>1. \A i \in 1..n : f[i] = round(g, i)
      <4> SUFFICES ASSUME NEW i \in 1..n
                   PROVE  f[i] = round(g, i)
        OBVIOUS
      <4>1. CASE i = 1
        <5>1. i - 1 = 0
          BY <4>1
        <5>2. seqs[i] \in Seq(S)
          BY <1>1
        <5>3. f[i] = f[i-1] \o seqs[i]
          BY <2>5
        <5>4. f[i-1] = << >>
          BY <2>4, <5>1
        <5>5. << >> \o seqs[i] = seqs[i]
          BY <5>2, ConcatEmptySeq
        <5> QED BY <4>1, <5>3, <5>4, <5>5
      <4>2. CASE i # 1
        <5>1. i - 1 \in 1..n
          BY <1>1, <4>2
        <5> QED BY <2>5, <4>2, <5>1
      <4> QED BY <4>1, <4>2
    <3> QED BY <3>1
  <2>7. FlattenSeq(seqs) = (CHOOSE h : Eq(h))[n]
    BY <1>1, <1>3 DEF FlattenSeq
  <2> HIDE DEF Eq
  <2> DEFINE flat == CHOOSE h : Eq(h)
  <2>8. Eq(flat)
    BY <2>6
  <2> HIDE DEF flat
  <2> USE DEF Eq
  <2>9. \A i \in 1..n : flat[i] = round(flat, i)
    <3> HIDE DEF round
    <3> QED BY <2>8
  <2> HIDE DEF Eq
  <2> DEFINE Good(i) == /\ flat[i] \in Seq(S)
                        /\ Range(flat[i]) = UNION {Range(seqs[k]) : k \in 1..i}
                        /\ Sorted(flat[i], R)
             T == {i \in 0..n : i = 0 \/ Good(i)}
  <2>10. ASSUME NEW i \in 1..n, i - 1 \in T
         PROVE  i \in T
    <3>1. CASE i = 1
      <4>1. flat[1] = seqs[1] /\ 1..1 = {1} /\ seqs[1] \in Seq(S) /\ Sorted(seqs[1], R)
        BY <1>1, <2>9, <3>1 DEF SortedApart
      <4>2. UNION {Range(seqs[k]) : k \in 1..1} = Range(seqs[1])
        BY <4>1
      <4> QED BY <3>1, <4>1, <4>2
    <3>2. CASE i # 1
      <4>1. i - 1 \in 1..n /\ Good(i - 1)
        BY <1>1, <2>10, <3>2
      <4>2. flat[i] = flat[i-1] \o seqs[i] /\ seqs[i] \in Seq(S) /\ Sorted(seqs[i], R)
        BY <1>1, <2>9, <3>2 DEF SortedApart
      <4>3. \A x \in Range(flat[i-1]), y \in Range(seqs[i]) : <<x, y>> \in R
        <5> SUFFICES ASSUME NEW x \in Range(flat[i-1]), NEW y \in Range(seqs[i])
                     PROVE  <<x, y>> \in R
          OBVIOUS
        <5>1. PICK k \in 1..(i-1) : x \in Range(seqs[k])
          BY <4>1
        <5>2. k \in DOMAIN seqs /\ i \in DOMAIN seqs /\ k < i
          BY <1>1
        <5> QED BY <5>1, <5>2 DEF SortedApart
      <4>4. /\ flat[i] \in Seq(S) /\ Range(flat[i]) = Range(flat[i-1]) \cup Range(seqs[i])
            /\ Sorted(flat[i], R)
        <5> DEFINE a == flat[i-1]
                   b == seqs[i]
        <5>1. /\ a \in Seq(S) /\ b \in Seq(S) /\ Sorted(a, R) /\ Sorted(b, R)
              /\ \A x \in Range(a), y \in Range(b) : <<x, y>> \in R
          BY <4>1, <4>2, <4>3
        <5> HIDE DEF a, b
        <5>2. /\ a \o b \in Seq(S) /\ Range(a \o b) = Range(a) \cup Range(b)
              /\ Sorted(a \o b, R)
          BY <5>1, ConcatSorted
        <5> QED BY <4>2, <5>2 DEF a, b
      <4>5. 1..i = (1..(i-1)) \cup {i}
        BY <1>1
      <4>6. Range(flat[i]) = UNION {Range(seqs[k]) : k \in 1..i}
        BY <4>1, <4>4, <4>5
      <4> QED BY <4>4, <4>6
    <3> QED BY <3>1, <3>2
  <2>11. 0 \in T
    BY <1>1
  <2> HIDE DEF T
  <2>12. 0..n \subseteq T
    BY <1>1, <2>10, <2>11, BoundedInduction
  <2>13. n \in T
    BY <1>1, <2>12
  <2> QED BY <1>1, <1>3, <2>7, <2>13 DEF T, flat
<1> QED BY <1>2, <1>3

-----------------------------------------------------------------------------
(* What a page takes *)

Earlier == {p \in Record \X Record : p[1].seq < p[2].seq}
EarlierLine == {p \in Line \X Line : p[1].rec.seq < p[2].rec.seq}

LEMMA EarlierMeans ==
  /\ \A x, y \in Record : <<x, y>> \in Earlier <=> x.seq < y.seq
  /\ \A x, y \in Line : <<x, y>> \in EarlierLine <=> x.rec.seq < y.rec.seq
BY DEF Earlier, EarlierLine

LEMMA FoundIs ==
  ASSUME NEW q, NEW lines \in Seq(Line)
  PROVE  LET hits == Found(q, lines) IN
         /\ hits \in Seq(Record)
         /\ Range(hits) = {lines[i].rec : i \in {k \in 1..Len(lines) : Matches(q, lines[k])}}
         /\ Sorted(lines, EarlierLine) => Sorted(hits, Earlier)
<1> DEFINE one(i) == IF Matches(q, lines[i]) THEN << lines[i].rec >> ELSE << >>
           seqs == [i \in DOMAIN lines |-> one(i)]
           all == Record \X Record
<1>1. PICK n \in Nat : n = Len(lines) /\ DOMAIN lines = 1..n /\ \A i \in 1..n : lines[i] \in Line
  BY LenProperties, ElementOfSeq
<1>2. \A i \in 1..n : lines[i].rec \in Record
  BY <1>1 DEF Line
<1>3. ASSUME NEW i \in 1..n
      PROVE  /\ one(i) \in Seq(Record)
             /\ Range(one(i)) = IF Matches(q, lines[i]) THEN {lines[i].rec} ELSE {}
             /\ \A R : Sorted(one(i), R)
  <2> DEFINE x == lines[i].rec
  <2>1. x \in Record
    BY <1>2
  <2> HIDE DEF x
  <2>2. /\ << x >> \in Seq(Record) /\ DOMAIN << x >> = {1} /\ << x >>[1] = x
        /\ << >> \in Seq(Record) /\ DOMAIN << >> = {}
    BY <2>1
  <2>3. Range(<< x >>) = {x} /\ Range(<< >>) = {}
    BY <2>2 DEF Range
  <2>4. \A R : Sorted(<< x >>, R) /\ Sorted(<< >>, R)
    BY <2>2 DEF Sorted
  <2> QED BY <2>2, <2>3, <2>4 DEF x
<1> HIDE DEF one
<1>4. /\ seqs \in Seq(Seq(Record)) /\ Len(seqs) = n /\ DOMAIN seqs = 1..n
      /\ \A i \in 1..n : seqs[i] = one(i)
  BY <1>1, <1>3
<1> HIDE DEF seqs
<1>5. Found(q, lines) = FlattenSeq(seqs)
  BY DEF Found, seqs, one
<1>6. SortedApart(seqs, all)
  <2>1. ASSUME NEW i \in 1..n, NEW j \in 1..n, NEW x \in Range(seqs[i]), NEW y \in Range(seqs[j])
        PROVE  <<x, y>> \in all
    BY <1>2, <1>3, <1>4, <2>1
  <2> HIDE DEF all
  <2> QED BY <1>3, <1>4, <2>1 DEF SortedApart
<1>7. /\ FlattenSeq(seqs) \in Seq(Record)
      /\ Range(FlattenSeq(seqs)) = UNION {Range(seqs[i]) : i \in 1..n}
  <2> HIDE DEF all
  <2> QED BY <1>4, <1>6, FlattenSorts
<1>8. UNION {Range(seqs[i]) : i \in 1..n}
        = {lines[i].rec : i \in {k \in 1..n : Matches(q, lines[k])}}
  <2> HIDE DEF all
  <2>1. ASSUME NEW x, NEW i \in 1..n, x \in Range(seqs[i])
        PROVE  Matches(q, lines[i]) /\ x = lines[i].rec
    BY <1>3, <1>4, <2>1
  <2>2. ASSUME NEW i \in 1..n, Matches(q, lines[i])
        PROVE  lines[i].rec \in Range(seqs[i])
    BY <1>3, <1>4, <2>2
  <2> DEFINE those == {lines[i].rec : i \in {k \in 1..n : Matches(q, lines[k])}}
  <2>3. ASSUME NEW i \in 1..n, NEW x \in Range(seqs[i])
        PROVE  x \in those
    BY <2>1
  <2>4. ASSUME NEW x \in those
        PROVE  \E i \in 1..n : x \in Range(seqs[i])
    <3>1. PICK i \in 1..n : Matches(q, lines[i]) /\ x = lines[i].rec
      OBVIOUS
    <3> QED BY <2>2, <3>1
  <2> HIDE DEF those
  <2> QED BY <2>3, <2>4 DEF those
<1>9. ASSUME Sorted(lines, EarlierLine)
      PROVE  Sorted(FlattenSeq(seqs), Earlier)
  <2>1. ASSUME NEW i \in 1..n, NEW j \in 1..n, i < j,
               NEW x \in Range(seqs[i]), NEW y \in Range(seqs[j])
        PROVE  <<x, y>> \in Earlier
    <3>1. x = lines[i].rec /\ y = lines[j].rec
      BY <1>3, <1>4, <2>1
    <3>2. <<lines[i], lines[j]>> \in EarlierLine
      BY <1>1, <1>9, <2>1 DEF Sorted
    <3> QED BY <1>1, <1>2, <3>1, <3>2, EarlierMeans
  <2>2. SortedApart(seqs, Earlier)
    BY <1>3, <1>4, <2>1 DEF SortedApart
  <2> QED BY <1>4, <2>2, FlattenSorts
<1> QED BY <1>1, <1>5, <1>7, <1>8, <1>9

\* A page of a query that has room left, or has something already.
HasRoom(q) == q.room = 0 => q.got # << >>

\* How a page takes what one file has: the first of the hits, as far as there is room.
LEMMA CollectTakes ==
  ASSUME NEW q \in Job, NEW lines \in Seq(Line)
  PROVE  LET hits == Found(q, lines)
             page == Collect(q, lines)
             m    == IF Len(hits) <= q.room THEN Len(hits) ELSE q.room
         IN /\ hits \in Seq(Record) /\ Len(hits) \in Nat /\ m \in 0..Len(hits) /\ m <= q.room
            /\ SubSeq(hits, 1, m) \in Seq(Record) /\ Len(SubSeq(hits, 1, m)) = m
            /\ \A i \in 1..m : SubSeq(hits, 1, m)[i] = hits[i]
            /\ page.got = q.got \o SubSeq(hits, 1, m) /\ page.got \in Seq(Record)
            /\ Len(page.got) = Len(q.got) + m /\ page.room = q.room - m
            /\ page.next = IF m = Len(hits) THEN NoToken ELSE Last(page.got).seq + 1
            /\ page = [q EXCEPT !.got = page.got, !.room = page.room, !.next = page.next]
            /\ m < Len(hits) => m = q.room
<1> DEFINE hits == Found(q, lines)
           m == IF Len(hits) <= q.room THEN Len(hits) ELSE q.room
           s == SubSeq(hits, 1, m)
           page == Collect(q, lines)
<1>1. hits \in Seq(Record) /\ Len(hits) \in Nat
  BY FoundIs, LenProperties
<1>2. q.room \in Nat /\ q.got \in Seq(Record) /\ DOMAIN q = DOMAIN NoJob
  BY DEF Job, NoJob
<1>3. m \in 0..Len(hits) /\ m <= q.room /\ (m < Len(hits) => m = q.room)
  <2> HIDE DEF hits
  <2> QED BY <1>1, <1>2
<1>4. s \in Seq(Record) /\ Len(s) = m /\ \A i \in 1..m : s[i] = hits[i]
  <2> HIDE DEF hits, m
  <2> QED BY <1>1, <1>3, SubSeqAt
<1>5. q.got \o s \in Seq(Record) /\ Len(q.got \o s) = Len(q.got) + m /\ Len(q.got) \in Nat
  <2> HIDE DEF s, m
  <2> QED BY <1>2, <1>4, ConcatProperties, LenProperties
<1>6. page = [q EXCEPT !.got = q.got \o s, !.room = q.room - (Len(q.got \o s) - Len(q.got)),
                       !.next = IF Len(hits) > q.room THEN Last(q.got \o s).seq + 1 ELSE NoToken]
  BY DEF Collect
<1>7. q.room - (Len(q.got \o s) - Len(q.got)) = q.room - m
  <2> HIDE DEF s, m
  <2> QED BY <1>2, <1>3, <1>5
<1>8. Len(hits) > q.room <=> m # Len(hits)
  <2> HIDE DEF hits
  <2> QED BY <1>1, <1>2
<1> HIDE DEF hits, m, s, page
<1>9. /\ page.got = q.got \o s /\ page.room = q.room - m
      /\ page.next = IF m = Len(hits) THEN NoToken ELSE Last(page.got).seq + 1
  BY <1>2, <1>6, <1>7, <1>8 DEF NoJob
<1>10. page = [q EXCEPT !.got = page.got, !.room = page.room, !.next = page.next]
  BY <1>6, <1>7, <1>8, <1>9
<1> QED BY <1>1, <1>3, <1>4, <1>5, <1>9, <1>10 DEF hits, m, s, page

LEMMA CollectType ==
  ASSUME NEW q \in Job, HasRoom(q), NEW lines \in Seq(Line)
  PROVE  Collect(q, lines) \in Job /\ HasRoom(Collect(q, lines))
<1> DEFINE hits == Found(q, lines)
           m == IF Len(hits) <= q.room THEN Len(hits) ELSE q.room
           page == Collect(q, lines)
<1>1. /\ Len(hits) \in Nat /\ m \in 0..Len(hits) /\ m <= q.room
      /\ page.got \in Seq(Record) /\ Len(page.got) = Len(q.got) + m /\ page.room = q.room - m
      /\ page.next = IF m = Len(hits) THEN NoToken ELSE Last(page.got).seq + 1
      /\ page = [q EXCEPT !.got = page.got, !.room = page.room, !.next = page.next]
      /\ m < Len(hits) => m = q.room
  BY CollectTakes
<1>2. /\ q.room \in Nat /\ q.got \in Seq(Record) /\ Len(q.got) \in Nat
      /\ Len(q.got) = 0 <=> q.got = << >>
  <2>1. q.room \in Nat /\ q.got \in Seq(Record)
    BY DEF Job
  <2> QED BY <2>1, EmptySeq, LenProperties
<1> HIDE DEF hits, m, page
<1>3. page.room \in Nat
  BY <1>1, <1>2
<1>4. page.room = 0 \/ m < Len(hits) => page.got # << >>
  <2>1. page.room = 0 \/ m < Len(hits) => m = q.room
    BY <1>1, <1>2
  <2>2. m = q.room => Len(page.got) # 0
    BY <1>1, <1>2 DEF HasRoom
  <2> QED BY <1>1, <2>1, <2>2, EmptySeq
<1>5. page.next \in Nat \cup {NoToken}
  <2>1. CASE m = Len(hits)
    BY <1>1, <2>1
  <2>2. CASE m # Len(hits)
    <3>1. page.got # << >>
      BY <1>1, <1>4, <2>2
    <3>2. Last(page.got) \in Record
      BY <1>1, <3>1, ElementOfSeq, LenProperties, EmptySeq DEF Last
    <3> QED BY <1>1, <2>2, <3>2 DEF Record
  <2> QED BY <2>1, <2>2
<1>6. page \in Job
  BY <1>1, <1>3, <1>5 DEF Job
<1> QED BY <1>4, <1>6 DEF HasRoom, page

-----------------------------------------------------------------------------
(* Types of the readers *)

PageSteps == {"paths", "listed", "openLast", "readLast"}

ReadersInv ==
  /\ ReadersTypeOK
  /\ \A r \in Reader : rpc[r] \in PageSteps => HasRoom(job[r])

LEMMA NoJobType == NoJob \in Job
<1>1. Genesis \in Hash /\ NoLocals.cp \in Checkpoint /\ NoAt \in Int
  BY DEF Genesis, Hash, NoLocals, Checkpoint, NoAt
<1>2. Broken(NoAt) \in VerdictSet
  BY <1>1, BrokenVerdict
<1>3. << >> \in Seq(Record) /\ << >> \in Seq(Entry)
  BY EmptySeq
<1> QED BY <1>1, <1>2, <1>3 DEF NoJob, Job, VerdictSet

\* The assignments to a reader's locals, with values of the types of the fields.
LEMMA JobFields ==
  ASSUME NEW q \in Job
  PROVE  /\ \A known \in BOOLEAN, listed \in Seq(Entry) :
              [q EXCEPT !.known = known, !.listed = listed] \in Job
         /\ \A n \in Nat : [q EXCEPT !.fd = n] \in Job
         /\ \A v \in VerdictSet :
              [q EXCEPT !.state = v, !.known = FALSE, !.listed = << >>, !.fd = 0] \in Job
         /\ \A n \in Nat, room \in Nat :
              [q EXCEPT !.resume = n, !.next = NoToken, !.room = room] \in Job
<1>1. << >> \in Seq(Entry)
  BY EmptySeq
<1>2. /\ \A known \in BOOLEAN, listed \in Seq(Entry) :
           [q EXCEPT !.known = known, !.listed = listed] \in Job
      /\ \A n \in Nat : [q EXCEPT !.fd = n] \in Job
  BY DEF Job
<1>3. \A v \in VerdictSet :
        [q EXCEPT !.state = v, !.known = FALSE, !.listed = << >>, !.fd = 0] \in Job
  BY <1>1 DEF Job, VerdictSet
<1>4. \A n \in Nat, room \in Nat :
        [q EXCEPT !.resume = n, !.next = NoToken, !.room = room] \in Job
  BY DEF Job
<1> QED BY <1>2, <1>3, <1>4

LEMMA CallTypes ==
  ASSUME NEW since \in Hash
  PROVE  /\ \A cp \in Checkpoint :
              [NoJob EXCEPT !.op = "compare", !.cp = cp, !.since = since] \in Job
         /\ \A f \in SUBSET Event :
              [NoJob EXCEPT !.op = "query", !.filter = f, !.room = PageLimit,
                            !.since = since] \in Job
<1>1. PageLimit \in Nat
  BY ReaderAssumption
<1> QED BY <1>1, NoJobType DEF Job

LEMMA GoesTyped ==
  ASSUME ReadersInv, Observe, reads' \in 0..MaxReads, NEW r \in Reader,
         NEW from, NEW to \in Locations, NEW STATE locals, locals \in Job,
         ReaderGoes(r, from, to, locals), to \in PageSteps => HasRoom(locals)
  PROVE  ReadersInv'
<1>1. /\ rpc' = [rpc EXCEPT ![r] = to] /\ job' = [job EXCEPT ![r] = locals]
      /\ rpc \in [Reader -> Locations] /\ job \in [Reader -> Job]
      /\ overlap \in [Reader -> SUBSET {"emit", "rotate", "crash"}]
  BY DEF ReaderGoes, ReadersInv, ReadersTypeOK
<1>2. rpc' \in [Reader -> Locations] /\ job' \in [Reader -> Job]
  BY <1>1
<1>3. overlap' \in [Reader -> SUBSET {"emit", "rotate", "crash"}]
  BY <1>1 DEF Observe, AtWork
<1>4. \A g \in Reader : rpc'[g] \in PageSteps => HasRoom(job'[g])
  <2>1. rpc'[r] = to /\ job'[r] = locals
    BY <1>1
  <2>2. \A g \in Reader \ {r} : rpc'[g] = rpc[g] /\ job'[g] = job[g]
    BY <1>1
  <2> QED BY <2>1, <2>2 DEF ReadersInv
<1> QED BY <1>2, <1>3, <1>4 DEF ReadersInv, ReadersTypeOK

LEMMA WhatIsRead ==
  ASSUME Inv
  PROVE  /\ \A r \in Reader : job[r].listed \in Seq(Entry) => FilesType(View(r))
         /\ \A n \in Nat : ReadsOf(n) \subseteq Seq(Line)
         /\ NextSegment = Len(segs) + 1 /\ DOMAIN segs = 1..Len(segs)
         /\ \A n \in DOMAIN segs : segs[n] \in Seq(Line)
<1>1. /\ active \in Seq(Line) /\ segs \in Seq(Seq(Line)) /\ Len(segs) \in Nat
      /\ DOMAIN segs = 1..Len(segs)
  BY StateTypes, LenProperties
<1>2. \A n \in DOMAIN segs : segs[n] \in Seq(Line)
  BY <1>1, ElementOfSeq
<1>3. \A r \in Reader : View(r).manifest = job[r].listed /\ View(r).segs = segs
  BY DEF View, Disk
<1>4. \A n \in Nat : ReadsOf(n) \subseteq Seq(Line)
  <2> SUFFICES ASSUME NEW n \in Nat, NEW lines \in ReadsOf(n)
               PROVE  lines \in Seq(Line)
    OBVIOUS
  <2>1. CASE lines = Inode(n)
    BY <1>1, <1>2, <2>1 DEF Inode
  <2>2. CASE lines # Inode(n)
    <3>1. PICK h \in Handler :
            /\ pc[h] = "write"
            /\ \E front \in {CutInside(EmittedRecord(h)), CutBeforeNewline(EmittedRecord(h))} :
                 lines = AppendLine(active, front)
      BY <2>2 DEF ReadsOf
    <3>2. EmittedRecord(h) \in Record
      BY <3>1, EmittedRecordType DEF Inv, InEmit
    <3> QED BY <1>1, <3>1, <3>2, LineTypes, AppendLineType
  <2> QED BY <2>1, <2>2
<1>5. NextSegment = Len(segs) + 1
  BY <1>1, HighestIsLen DEF NextSegment
<1> QED BY <1>1, <1>2, <1>3, <1>4, <1>5 DEF FilesType

\* The records of the listed segments, one after the other.
LEMMA ListedType ==
  ASSUME Inv, ReadersTypeOK, NEW r \in Reader,
         \A i \in DOMAIN job[r].listed : job[r].listed[i].segment \in DOMAIN segs
  PROVE  Listed(r) \in Seq(Line)
<1> DEFINE n == Len(job[r].listed)
           seqs == [i \in DOMAIN job[r].listed |-> segs[job[r].listed[i].segment]]
           all == Line \X Line
<1>1. job[r].listed \in Seq(Entry)
  BY DEF ReadersTypeOK, Job
<1>2. n \in Nat /\ DOMAIN job[r].listed = 1..n
  BY <1>1, LenProperties
<1>3. \A i \in 1..n : segs[job[r].listed[i].segment] \in Seq(Line)
  BY <1>2, WhatIsRead
<1>4. seqs \in Seq(Seq(Line))
  <2> HIDE DEF n
  <2>1. seqs \in [1..n -> Seq(Line)]
    BY <1>2, <1>3
  <2> QED BY <1>2, <2>1
<1>5. SortedApart(seqs, all)
  <2>1. \A i \in DOMAIN seqs : seqs[i] \in Seq(Line)
    BY <1>2, <1>3
  <2> HIDE DEF seqs
  <2>2. \A i \in DOMAIN seqs : Range(seqs[i]) \subseteq Line /\ Sorted(seqs[i], all)
    <3> SUFFICES ASSUME NEW i \in DOMAIN seqs
                 PROVE  Range(seqs[i]) \subseteq Line /\ Sorted(seqs[i], all)
      OBVIOUS
    <3>1. Range(seqs[i]) \subseteq Line
      BY <2>1, SeqRange
    <3> QED BY <3>1 DEF Range, Sorted
  <2> QED BY <2>2 DEF SortedApart
<1> HIDE DEF seqs, all
<1>6. FlattenSeq(seqs) \in Seq(Line)
  BY <1>4, <1>5, FlattenSorts
<1> QED BY <1>6 DEF Listed, seqs

\* What the verifier leaves as it is.
SamePage(p, q) ==
  /\ p.op = q.op /\ p.filter = q.filter /\ p.since = q.since
  /\ p.got = q.got /\ p.next = q.next

\* Where a step of the verifier leads, whatever it reads.
LEMMA WalkGoes ==
  ASSUME Inv, ReadersTypeOK, NEW r \in Reader,
         LoadManifest(r) \/ ScanSegments(r) \/ OpenActive(r) \/ ReadActive(r)
  PROVE  \E from \in {"load", "scan", "open", "read"}, to \in {"scan", "open", "read", "done"},
            locals \in Job : ReaderGoes(r, from, to, locals) /\ SamePage(locals, job[r])
<1>1. /\ job[r] \in Job /\ job[r].listed \in Seq(Entry) /\ SamePage(job[r], job[r])
      /\ FilesType(View(r)) /\ View(r).manifest = job[r].listed
      /\ Len(job[r].listed) \in Nat /\ DOMAIN job[r].listed = 1..Len(job[r].listed)
  BY WhatIsRead, LenProperties DEF ReadersTypeOK, Job, View, Disk, SamePage
<1>2. ASSUME NEW from \in {"scan", "open", "read"}, NEW STATE state, state \in VerdictSet,
             Walked(r, from, state)
      PROVE  \E locals \in Job : ReaderGoes(r, from, "done", locals) /\ SamePage(locals, job[r])
  <2> DEFINE locals == [job[r] EXCEPT !.state = state, !.known = FALSE, !.listed = << >>, !.fd = 0]
  <2>1. locals \in Job
    BY <1>1, <1>2, JobFields
  <2>2. SamePage(locals, job[r])
    BY <1>1 DEF SamePage, Job
  <2>3. ReaderGoes(r, from, "done", locals)
    BY <1>2 DEF Walked
  <2> HIDE DEF locals
  <2> QED BY <2>1, <2>2, <2>3
<1>3. CASE LoadManifest(r)
  <2> DEFINE locals == [job[r] EXCEPT !.known = hasManifest, !.listed = manifest]
  <2>1. locals \in Job
    BY <1>1, JobFields DEF Inv, TypeOK, DiskTypeOK
  <2>2. SamePage(locals, job[r])
    BY <1>1 DEF SamePage, Job
  <2>3. ReaderGoes(r, "load", "scan", locals)
    BY <1>3 DEF LoadManifest
  <2> HIDE DEF locals
  <2> QED BY <2>1, <2>2, <2>3
<1>4. CASE ScanSegments(r)
  <2>1. CASE \E i \in DOMAIN job[r].listed : ~listedSegment(View(r), i).valid
    <3>1. FirstFailing(View(r)) \in 1..Len(View(r).manifest)
      BY <1>1, <2>1, FirstFailingIs
    <3>2. listedSegment(View(r), FirstFailing(View(r))).at \in Int
      BY <1>1, <3>1, ListedVerdict DEF VerdictSet
    <3>3. Broken(listedSegment(View(r), FirstFailing(View(r))).at) \in VerdictSet
      BY <3>2, BrokenVerdict
    <3>4. Walked(r, "scan", Broken(listedSegment(View(r), FirstFailing(View(r))).at))
      BY <1>4, <2>1 DEF ScanSegments
    <3> QED BY <1>2, <3>3, <3>4
  <2>2. CASE ReaderGoes(r, "scan", "open", job[r])
    BY <1>1, <2>2
  <2>3. CASE Walked(r, "scan", Broken(NoAt))
    BY <1>2, <2>3, BrokenVerdict DEF NoAt
  <2> QED BY <1>4, <2>1, <2>2, <2>3 DEF ScanSegments
<1>5. CASE OpenActive(r)
  <2>1. CASE Walked(r, "open", Broken(NoAt))
    BY <1>2, <2>1, BrokenVerdict DEF NoAt
  <2>2. CASE ReaderGoes(r, "open", "read", [job[r] EXCEPT !.fd = OpenedActive])
    <3> DEFINE locals == [job[r] EXCEPT !.fd = OpenedActive]
    <3>1. OpenedActive \in Nat
      BY WhatIsRead, StateTypes DEF OpenedActive
    <3>2. locals \in Job
      BY <1>1, <3>1, JobFields
    <3>3. SamePage(locals, job[r])
      BY <1>1 DEF SamePage, Job
    <3>4. ReaderGoes(r, "open", "read", locals)
      BY <2>2
    <3> HIDE DEF locals
    <3> QED BY <3>2, <3>3, <3>4
  <2> QED BY <1>5, <2>1, <2>2 DEF OpenActive
<1>6. CASE ReadActive(r)
  <2> DEFINE start == CarriedPrev(View(r), AfterListed(r))
             offset == CarriedOffset(View(r), AfterListed(r))
  <2>1. PICK lines \in ReadsOf(job[r].fd) :
          Walked(r, "read", verifyChainStateFrom(lines, start, offset))
    BY <1>6 DEF ReadActive
  <2>2. lines \in Seq(Line)
    BY <1>1, WhatIsRead DEF Job
  <2>3. start \in Hash /\ offset \in Nat
    BY <1>1, CarriedOfFiles DEF AfterListed
  <2> HIDE DEF start, offset
  <2>4. verifyChainStateFrom(lines, start, offset) \in VerdictSet
    BY <2>2, <2>3, WalkVerdict
  <2> QED BY <1>2, <2>1, <2>4
<1> QED BY <1>3, <1>4, <1>5, <1>6

LEMMA WalkTypes ==
  ASSUME Inv, ReadersInv, Observe, UNCHANGED reads, NEW r \in Reader,
         LoadManifest(r) \/ ScanSegments(r) \/ OpenActive(r) \/ ReadActive(r)
  PROVE  ReadersInv'
<1>1. PICK from \in {"load", "scan", "open", "read"}, to \in {"scan", "open", "read", "done"},
           locals \in Job : ReaderGoes(r, from, to, locals)
  BY WalkGoes DEF ReadersInv
<1>2. to \in Locations /\ to \notin PageSteps /\ reads' \in 0..MaxReads
  BY DEF Locations, PageSteps, ReadersInv, ReadersTypeOK
<1> QED BY <1>1, <1>2, GoesTyped

LEMMA ScanFileType ==
  ASSUME ReadersInv, Observe, UNCHANGED reads, NEW r \in Reader, NEW STATE lines,
         lines \in Seq(Line), NEW from \in PageSteps, NEW to \in Locations,
         ScanFile(r, from, to, lines)
  PROVE  ReadersInv'
<1> DEFINE page == Collect(job[r], lines)
<1>1. rpc[r] = from
  BY DEF ScanFile, ReaderGoes
<1>2. job[r] \in Job /\ HasRoom(job[r]) /\ reads' \in 0..MaxReads
  BY <1>1 DEF ReadersInv, ReadersTypeOK
<1>3. page \in Job /\ HasRoom(page)
  BY <1>2, CollectType
<1>4. \/ ReaderGoes(r, from, "failed", job[r])
      \/ ReaderGoes(r, from, "load", page)
      \/ ReaderGoes(r, from, to, page)
  BY DEF ScanFile
<1> HIDE DEF page
<1> QED BY <1>2, <1>3, <1>4, GoesTyped DEF Locations

LEMMA QueryTypes ==
  ASSUME Inv, ReadersInv, Observe, UNCHANGED reads, NEW r \in Reader,
         \/ QueryPaths(r) \/ QueryListed(r) \/ QueryOpenActive(r) \/ QueryActive(r)
         \/ NextPage(r) \/ Leave(r)
  PROVE  ReadersInv'
<1>1. job[r] \in Job /\ reads' \in 0..MaxReads
  BY DEF ReadersInv, ReadersTypeOK
<1>2. CASE QueryPaths(r)
  <2>1. rpc[r] \in PageSteps
    BY <1>2 DEF QueryPaths, ReaderGoes, PageSteps
  <2> DEFINE q == [job[r] EXCEPT !.known = hasManifest, !.listed = manifest]
  <2>2. q \in Job
    BY <1>1, JobFields DEF Inv, TypeOK, DiskTypeOK
  <2>3. q.room = job[r].room /\ q.got = job[r].got
    BY <1>1 DEF Job
  <2>4. HasRoom(q)
    BY <2>1, <2>3 DEF ReadersInv, HasRoom
  <2>5. ReaderGoes(r, "paths", "listed", q)
    BY <1>2 DEF QueryPaths
  <2> HIDE DEF q
  <2> QED BY <1>1, <2>2, <2>4, <2>5, GoesTyped DEF Locations
<1>3. CASE QueryListed(r)
  <2>1. CASE ReaderGoes(r, "listed", "failed", job[r])
    BY <1>1, <2>1, GoesTyped DEF Locations, PageSteps
  <2>2. CASE ~ReaderGoes(r, "listed", "failed", job[r])
    <3>1. /\ \A i \in DOMAIN job[r].listed : job[r].listed[i].segment \in DOMAIN segs
          /\ ScanFile(r, "listed", "openLast", Listed(r))
      BY <1>3, <2>2 DEF QueryListed
    <3>2. Listed(r) \in Seq(Line)
      BY <3>1, ListedType DEF ReadersInv
    <3> QED BY <3>1, <3>2, ScanFileType DEF PageSteps, Locations
  <2> QED BY <2>1, <2>2
<1>4. CASE QueryOpenActive(r)
  <2>1. CASE ReaderGoes(r, "openLast", "failed", job[r])
    BY <1>1, <2>1, GoesTyped DEF Locations, PageSteps
  <2>2. CASE ReaderGoes(r, "openLast", "readLast", [job[r] EXCEPT !.fd = OpenedActive])
    <3> DEFINE q == [job[r] EXCEPT !.fd = OpenedActive]
    <3>1. OpenedActive \in Nat
      BY WhatIsRead, StateTypes DEF OpenedActive
    <3>2. q \in Job
      BY <1>1, <3>1, JobFields
    <3>3. q.room = job[r].room /\ q.got = job[r].got
      BY <1>1 DEF Job
    <3>4. HasRoom(q)
      BY <2>2, <3>3 DEF ReadersInv, HasRoom, ReaderGoes, PageSteps
    <3>5. ReaderGoes(r, "openLast", "readLast", q)
      BY <2>2
    <3> HIDE DEF q
    <3> QED BY <1>1, <3>2, <3>4, <3>5, GoesTyped DEF Locations
  <2> QED BY <1>4, <2>1, <2>2 DEF QueryOpenActive
<1>5. CASE QueryActive(r)
  <2>1. PICK lines \in ReadsOf(job[r].fd) : ScanFile(r, "readLast", "load", lines)
    BY <1>5 DEF QueryActive
  <2>2. lines \in Seq(Line)
    BY <1>1, WhatIsRead DEF Job
  <2> QED BY <2>1, <2>2, ScanFileType DEF PageSteps, Locations
<1>6. CASE NextPage(r)
  <2> DEFINE q == [job[r] EXCEPT !.resume = job[r].next, !.next = NoToken, !.room = PageLimit]
  <2>1. job[r].next \in Nat /\ PageLimit \in Nat \ {0}
    BY <1>1, <1>6, ReaderAssumption DEF NextPage, Job
  <2>2. q \in Job
    BY <1>1, <2>1, JobFields
  <2>3. q.room # 0
    BY <1>1, <2>1 DEF Job
  <2>4. ReaderGoes(r, "done", "paths", q)
    BY <1>6 DEF NextPage
  <2> HIDE DEF q
  <2> QED BY <1>1, <2>2, <2>3, <2>4, GoesTyped DEF Locations, HasRoom
<1>7. CASE Leave(r)
  BY <1>1, <1>7, NoJobType, GoesTyped DEF Leave, Locations, PageSteps
<1> QED BY <1>2, <1>3, <1>4, <1>5, <1>6, <1>7

LEMMA CallsTyped ==
  ASSUME Inv, ReadersInv, Observe, NEW r \in Reader, ReaderCall(r)
  PROVE  ReadersInv'
<1>1. reads' \in 0..MaxReads
  BY ReaderAssumption DEF ReaderCall, ReadersInv, ReadersTypeOK
<1>2. prevHash \in Hash /\ signed \subseteq Checkpoint
  BY DEF Inv, TypeOK
<1>3. CASE \E cp \in signed : CompareCall(r, cp)
  <2>1. PICK cp \in signed : CompareCall(r, cp)
    BY <1>3
  <2>2. [NoJob EXCEPT !.op = "compare", !.cp = cp, !.since = prevHash] \in Job
    BY <1>2, CallTypes
  <2> QED BY <1>1, <2>1, <2>2, GoesTyped DEF CompareCall, Locations, PageSteps
<1>4. CASE \E f \in SUBSET Event \ {{}} : QueryCall(r, f)
  <2>1. PICK f \in SUBSET Event : QueryCall(r, f)
    BY <1>4
  <2> DEFINE q == [NoJob EXCEPT !.op = "query", !.filter = f, !.room = PageLimit,
                                !.since = prevHash]
  <2>2. q \in Job
    BY <1>2, CallTypes
  <2>3. q.room # 0
    BY ReaderAssumption DEF NoJob
  <2>4. ReaderGoes(r, "idle", "paths", q)
    BY <2>1 DEF QueryCall
  <2> HIDE DEF q
  <2> QED BY <1>1, <2>2, <2>3, <2>4, GoesTyped DEF Locations, HasRoom
<1> QED BY <1>3, <1>4 DEF ReaderCall

LEMMA ReadersInvStep ==
  ASSUME Inv, ReadersInv, [ReadersNext]_<<vars, readers>>
  PROVE  ReadersInv'
<1>1. CASE UNCHANGED readers
  BY <1>1 DEF readers, ReadersInv, ReadersTypeOK
<1>2. CASE Next /\ UNCHANGED <<rpc, job, reads>> /\ Observe
  <2>1. overlap' \in [Reader -> SUBSET {"emit", "rotate", "crash"}]
    BY <1>2 DEF Observe, AtWork, ReadersInv, ReadersTypeOK
  <2> QED BY <1>2, <2>1 DEF ReadersInv, ReadersTypeOK
<1>3. ASSUME NEW r \in Reader, ReaderCall(r) \/ ReaderStep(r), Observe
      PROVE  ReadersInv'
  BY <1>3, CallsTyped, WalkTypes, QueryTypes DEF ReaderStep
<1> QED BY <1>1, <1>2, <1>3 DEF ReadersNext

\* What a reader holds has its type, and a page that has no room left is not empty.
THEOREM ReadersInvHolds == ReadersSpec => []ReadersInv
<1>1. ReadersInit => ReadersInv
  BY NoJobType, ReaderAssumption
     DEF ReadersInit, ReadersInv, ReadersTypeOK, Locations, PageSteps
<1>2. Inv /\ ReadersInv /\ [ReadersNext]_<<vars, readers>> => ReadersInv'
  BY ReadersInvStep
<1> QED BY <1>1, <1>2, ReadersSpecIsSpec, InvHolds, PTL DEF ReadersSpec

\* A reader's locals keep their types, whatever fails and whatever it reads, and a page
\* that has no room left has a record in it, so next_token is a sequence number.
THEOREM ReadersTypeCorrect == ReadersSpec => []ReadersTypeOK
<1>1. ReadersInv => ReadersTypeOK
  BY DEF ReadersInv
<1> QED BY <1>1, ReadersInvHolds, PTL

-----------------------------------------------------------------------------
(* The order of the pages *)

LEMMA EmptyRange ==
  ASSUME NEW S, NEW s \in Seq(S)
  PROVE  Range(s) = {} <=> s = << >>
<1>1. Len(s) \in Nat /\ DOMAIN s = 1..Len(s) /\ (Len(s) = 0 <=> s = << >>)
  BY EmptySeq, LenProperties
<1>2. CASE Len(s) # 0
  <2>1. 1 \in DOMAIN s
    BY <1>1, <1>2
  <2> QED BY <1>1, <1>2, <2>1 DEF Range
<1>3. CASE Len(s) = 0
  <2>1. DOMAIN s = {}
    BY <1>1, <1>3
  <2> QED BY <1>1, <1>3, <2>1 DEF Range
<1> QED BY <1>2, <1>3

\* The last record of an ascending sequence is the highest.
LEMMA LastIsHighest ==
  ASSUME NEW s \in Seq(Record), s # << >>, Sorted(s, Earlier)
  PROVE  /\ Last(s) \in Range(s) /\ Last(s) \in Record
         /\ \A x \in Range(s) : x.seq <= Last(s).seq
<1>1. PICK n \in Nat : n = Len(s) /\ n # 0 /\ DOMAIN s = 1..n
  BY EmptySeq, LenProperties
<1>2. Last(s) = s[n]
  BY <1>1 DEF Last
<1>3. n \in 1..n /\ \A i \in 1..n : s[i] \in Record /\ s[i].seq \in Nat
  <2>1. \A i \in 1..n : s[i] \in Record
    BY <1>1, ElementOfSeq
  <2> QED BY <1>1, <2>1 DEF Record
<1>4. ASSUME NEW i \in 1..n
      PROVE  s[i].seq <= s[n].seq
  <2>1. CASE i = n
    BY <1>3, <2>1
  <2>2. CASE i < n
    <3>1. <<s[i], s[n]>> \in Earlier
      BY <1>1, <1>3, <2>2 DEF Sorted
    <3>2. s[i].seq < s[n].seq
      BY <1>3, <3>1, EarlierMeans
    <3> QED BY <1>3, <3>2
  <2> QED BY <1>1, <2>1, <2>2
<1>5. s[n] \in Range(s)
  BY <1>1, <1>3 DEF Range
<1>6. ASSUME NEW x \in Range(s)
      PROVE  x.seq <= s[n].seq
  <2>1. PICK i \in 1..n : x = s[i]
    BY <1>1 DEF Range
  <2> QED BY <1>4, <2>1
<1> QED BY <1>2, <1>3, <1>5, <1>6

LEMMA CollectOrder ==
  ASSUME NEW q \in Job, HasRoom(q), NEW lines \in Seq(Line), Sorted(lines, EarlierLine),
         Sorted(q.got, Earlier),
         \A x \in Range(q.got), y \in Range(Found(q, lines)) : x.seq < y.seq
  PROVE  LET hits == Found(q, lines)
             page == Collect(q, lines)
         IN /\ Sorted(page.got, Earlier)
            /\ Range(q.got) \subseteq Range(page.got)
            /\ Range(page.got) \subseteq Range(q.got) \cup Range(hits)
            /\ page.next = NoToken => Range(hits) \subseteq Range(page.got)
            /\ page.next # NoToken =>
                 /\ \A x \in Range(page.got) : x.seq < page.next
                 /\ \E x \in Range(hits) : x.seq >= page.next
                 /\ \A x \in Range(hits) : x.seq < page.next => x \in Range(page.got)
<1> DEFINE hits == Found(q, lines)
           m == IF Len(hits) <= q.room THEN Len(hits) ELSE q.room
           s == SubSeq(hits, 1, m)
           page == Collect(q, lines)
<1>1. /\ hits \in Seq(Record) /\ Len(hits) \in Nat /\ m \in 0..Len(hits)
      /\ s \in Seq(Record) /\ Len(s) = m /\ \A i \in 1..m : s[i] = hits[i]
      /\ page.got = q.got \o s
      /\ page.next = IF m = Len(hits) THEN NoToken ELSE Last(page.got).seq + 1
      /\ m < Len(hits) => m = q.room
  BY CollectTakes
<1>2. page.got \in Seq(Record) /\ page.next \in Nat \cup {NoToken}
  <2>1. page \in Job
    BY CollectType
  <2> HIDE DEF page
  <2> QED BY <2>1 DEF Job
<1>3. q.got \in Seq(Record) /\ q.room \in Nat
  BY DEF Job
<1>4. Sorted(hits, Earlier)
  BY FoundIs
<1>5. \A x \in Range(q.got), y \in Range(hits) : x.seq < y.seq
  OBVIOUS
<1> HIDE DEF hits, m, s, page
<1>6. /\ DOMAIN hits = 1..Len(hits) /\ DOMAIN s = 1..m
      /\ \A i \in 1..Len(hits) : hits[i] \in Record /\ hits[i] \in Range(hits)
      /\ \A i \in 1..m : s[i] \in Range(s)
  BY <1>1, LenProperties, ElementOfSeq DEF Range
<1>7. Sorted(s, Earlier) /\ Range(s) \subseteq Range(hits)
  <2>1. \A i \in 1..m : i \in 1..Len(hits)
    BY <1>1
  <2>2. Range(s) \subseteq Range(hits)
    <3> SUFFICES ASSUME NEW x \in Range(s) PROVE x \in Range(hits)
      OBVIOUS
    <3>1. PICK i \in 1..m : x = s[i]
      BY <1>6 DEF Range
    <3> QED BY <1>1, <1>6, <2>1, <3>1
  <2>3. Sorted(s, Earlier)
    <3> SUFFICES ASSUME NEW i \in 1..m, NEW j \in 1..m, i < j
                 PROVE  <<s[i], s[j]>> \in Earlier
      BY <1>6 DEF Sorted
    <3>1. <<hits[i], hits[j]>> \in Earlier
      BY <1>4, <1>6, <2>1 DEF Sorted
    <3> QED BY <1>1, <3>1
  <2> QED BY <2>2, <2>3
<1>8. Range(q.got) \subseteq Record /\ Range(hits) \subseteq Record
  BY <1>1, <1>3, SeqRange
<1>9. \A x \in Range(q.got), y \in Range(s) : <<x, y>> \in Earlier
  BY <1>5, <1>7, <1>8, EarlierMeans
<1>10. Sorted(page.got, Earlier) /\ Range(page.got) = Range(q.got) \cup Range(s)
  <2>1. Sorted(q.got \o s, Earlier) /\ Range(q.got \o s) = Range(q.got) \cup Range(s)
    BY <1>1, <1>3, <1>7, <1>9, ConcatSorted
  <2> QED BY <1>1, <2>1
<1>11. CASE m = Len(hits)
  <2>1. page.next = NoToken
    BY <1>1, <1>11
  <2>2. Range(hits) \subseteq Range(s)
    BY <1>1, <1>6, <1>11 DEF Range
  <2> QED BY <1>7, <1>10, <2>1, <2>2 DEF hits, page
<1>12. CASE m # Len(hits)
  <2>1. m + 1 \in 1..Len(hits) /\ m = q.room /\ m \in Nat
    BY <1>1, <1>12
  <2>2. page.next = Last(page.got).seq + 1
    BY <1>1, <1>12
  <2> DEFINE last == Last(page.got)
  <2>3. page.got # << >>
    <3>1. CASE m = 0
      BY <1>3, <1>10, <2>1, <3>1, EmptyRange, <1>2 DEF HasRoom
    <3>2. CASE m # 0
      <4>1. s[m] \in Range(page.got)
        BY <1>6, <1>10, <2>1, <3>2
      <4> QED BY <1>2, <4>1, EmptyRange
    <3> QED BY <3>1, <3>2
  <2>4. /\ last \in Range(page.got) /\ last \in Record
        /\ \A x \in Range(page.got) : x \in Record /\ x.seq <= last.seq
    <3>1. Range(page.got) \subseteq Record
      BY <1>2, SeqRange
    <3> QED BY <1>2, <1>10, <2>3, <3>1, LastIsHighest
  <2>5. \A j \in (m+1)..Len(hits) : last.seq < hits[j].seq
    <3> SUFFICES ASSUME NEW j \in (m+1)..Len(hits)
                 PROVE  last.seq < hits[j].seq
      OBVIOUS
    <3>1. j \in 1..Len(hits) /\ \A i \in 1..m : i < j /\ i \in 1..Len(hits)
      BY <1>1, <2>1
    <3>2. CASE last \in Range(q.got)
      BY <1>5, <1>6, <3>1, <3>2
    <3>3. CASE last \in Range(s)
      <4>1. PICK i \in 1..m : last = hits[i]
        BY <1>1, <1>6, <3>3 DEF Range
      <4>2. <<hits[i], hits[j]>> \in Earlier
        BY <1>4, <1>6, <3>1 DEF Sorted
      <4> QED BY <1>6, <3>1, <4>1, <4>2, EarlierMeans
    <3> QED BY <1>10, <2>4, <3>2, <3>3
  <2> HIDE DEF last
  <2>6. page.next = last.seq + 1 /\ last.seq \in Nat /\ page.next # NoToken
    <3>1. last.seq \in Nat
      BY <2>4 DEF Record
    <3> QED BY <2>2, <3>1 DEF last, NoToken
  <2>7. \A j \in 1..Len(hits) : hits[j].seq \in Nat
    BY <1>6 DEF Record
  <2>8. \A x \in Range(page.got) : x.seq < page.next
    <3>1. \A x \in Range(page.got) : x.seq \in Nat
      BY <2>4 DEF Record
    <3> QED BY <2>4, <2>6, <3>1
  <2>9. hits[m+1].seq >= page.next /\ hits[m+1] \in Range(hits)
    BY <1>6, <2>1, <2>5, <2>6, <2>7
  <2>10. ASSUME NEW x \in Range(hits), x.seq < page.next
         PROVE  x \in Range(page.got)
    <3>1. PICK j \in 1..Len(hits) : x = hits[j]
      BY <1>6 DEF Range
    <3>2. j \in 1..m
      BY <2>1, <2>5, <2>6, <2>7, <2>10, <3>1
    <3>3. x \in Range(s)
      BY <1>1, <1>6, <3>1, <3>2
    <3> QED BY <1>10, <3>3
  <2> QED BY <1>7, <1>10, <2>6, <2>8, <2>9, <2>10 DEF hits, page
<1> QED BY <1>11, <1>12

-----------------------------------------------------------------------------
(* What the files hold, record by record *)

LEMMA SoundLines ==
  ASSUME NEW lines \in Seq(Line), NEW start \in Hash, SoundFile(lines, start)
  PROVE  LET head == HeadAfter(lines, start) IN
         /\ head \in Hash /\ Len(head) = Len(start) + Len(lines) /\ IsPrefix(start, head)
         /\ \A i \in 1..Len(lines) :
              LET rec == lines[i].rec IN
              /\ rec \in Record /\ lines[i].kind = "rec" /\ Scannable(lines[i])
              /\ rec.hash = hashRecord(rec.prev_hash, BodyOf(rec))
              /\ Len(rec.prev_hash) = Len(start) + (i - 1)
              /\ IsPrefix(rec.hash, head)
<1> DEFINE end(i) == IF i = 0 THEN start ELSE lines[i].rec.hash
<1>1. PICK n \in Nat : n = Len(lines) /\ DOMAIN lines = 1..n /\ \A i \in 1..n : lines[i] \in Line
  BY LenProperties, ElementOfSeq
<1>2. HeadAfter(lines, start) = end(n)
  BY <1>1, EmptySeq DEF HeadAfter, Last
<1>3. Len(start) \in Nat
  BY LenProperties DEF Hash
<1>4. \A i \in 1..n : ExpectedPrev(lines, i, start) = end(i - 1)
  BY <1>1 DEF ExpectedPrev
<1>5. \A i \in 0..n : end(i) \in Hash
  BY <1>1 DEF Line, Record
<1>6. ASSUME NEW i \in 1..n
      PROVE  /\ lines[i].rec \in Record /\ lines[i].kind = "rec" /\ Scannable(lines[i])
             /\ lines[i].rec.prev_hash = end(i - 1)
             /\ lines[i].rec.hash = hashRecord(lines[i].rec.prev_hash, BodyOf(lines[i].rec))
             /\ BodyOf(lines[i].rec) \in Body
             /\ end(i) = Append(end(i - 1), BodyOf(lines[i].rec))
  <2>1. SoundLine(lines, i, start)
    BY <1>1 DEF SoundFile
  <2>2. lines[i].rec \in Record
    BY <1>1 DEF Line
  <2>3. BodyOf(lines[i].rec) \in Body
    BY <2>2 DEF Record, BodyOf, Body
  <2>4. lines[i].rec.prev_hash = end(i - 1)
    BY <1>4, <2>1 DEF SoundLine
  <2>5. lines[i].rec.hash = hashRecord(lines[i].rec.prev_hash, BodyOf(lines[i].rec))
    BY <2>1 DEF SoundLine
  <2>6. end(i) = lines[i].rec.hash
    OBVIOUS
  <2> HIDE DEF end
  <2> QED BY <2>1, <2>2, <2>3, <2>4, <2>5, <2>6 DEF SoundLine, Decodable, hashRecord
<1> DEFINE T == {i \in 0..n : /\ Len(end(i)) = Len(start) + i
                              /\ \A j \in 0..i : IsPrefix(end(j), end(i))}
<1>7. 0 \in T
  <2>1. IsPrefix(start, start)
    BY PrefixReflexive DEF Hash
  <2> QED BY <1>1, <1>3, <2>1
<1> HIDE DEF end
<1>8. ASSUME NEW i \in 1..n, i - 1 \in T
      PROVE  i \in T
  <2>1. /\ end(i - 1) \in Seq(Body) /\ end(i) \in Seq(Body) /\ BodyOf(lines[i].rec) \in Body
        /\ i - 1 \in 0..n
    BY <1>5, <1>6, <1>8 DEF Hash
  <2>2. IsPrefix(end(i - 1), end(i)) /\ Len(end(i)) = Len(end(i - 1)) + 1
    <3> DEFINE a == end(i - 1)
               b == BodyOf(lines[i].rec)
    <3>1. a \in Seq(Body) /\ b \in Body /\ end(i) = Append(a, b)
      BY <1>6, <2>1
    <3> HIDE DEF a, b
    <3>2. IsPrefix(a, Append(a, b)) /\ Len(Append(a, b)) = Len(a) + 1
      BY <3>1, PrefixAppend, AppendProperties
    <3> QED BY <3>1, <3>2 DEF a
  <2>3. Len(end(i)) = Len(start) + i
    BY <1>3, <1>8, <2>2
  <2>4. ASSUME NEW j \in 0..i
        PROVE  IsPrefix(end(j), end(i))
    <3>1. CASE j = i
      BY <2>1, <3>1, PrefixReflexive
    <3>2. CASE j # i
      <4>1. j \in 0..(i-1) /\ j \in 0..n
        BY <3>2
      <4>2. end(j) \in Seq(Body) /\ IsPrefix(end(j), end(i - 1))
        BY <1>5, <1>8, <4>1 DEF Hash
      <4> QED BY <2>1, <2>2, <4>2, PrefixTransitive
    <3> QED BY <3>1, <3>2
  <2> QED BY <2>3, <2>4
<1> HIDE DEF T
<1>9. 0..n \subseteq T
  BY <1>7, <1>8, BoundedInduction
<1>10. /\ \A i \in 0..n : Len(end(i)) = Len(start) + i
       /\ \A j \in 0..n : IsPrefix(end(j), end(n))
  BY <1>1, <1>9 DEF T
<1>11. end(n) \in Hash /\ Len(end(n)) = Len(start) + n /\ IsPrefix(end(0), end(n)) /\ end(0) = start
  BY <1>1, <1>5, <1>10 DEF end
<1>12. ASSUME NEW i \in 1..n
       PROVE  /\ Len(lines[i].rec.prev_hash) = Len(start) + (i - 1)
              /\ IsPrefix(lines[i].rec.hash, end(n))
  <2>1. i \in 0..n /\ i - 1 \in 0..n /\ end(i) = lines[i].rec.hash
    BY DEF end
  <2> QED BY <1>6, <1>10, <2>1
<1> QED BY <1>1, <1>2, <1>6, <1>11, <1>12

-----------------------------------------------------------------------------
(* Sequence numbers are positions, segment numbers are places in the manifest *)

HistoryInv ==
  /\ \A i \in 1..Len(DiskHead) : DiskHead[i].seq = i - 1
  /\ \A i \in 1..Len(manifest) : manifest[i].segment = i

\* The history on disk grows by a record, or stays.
LEMMA HistoryGrows ==
  ASSUME Harmless, Inv, ManifestInv, DownIsIdle, HeadsInv, HonestInv, [Next]_vars
  PROVE  /\ DiskHead \in Hash /\ Len(DiskHead) \in Nat
         /\ \/ DiskHead' = DiskHead
            \/ \E e \in Event : DiskHead' = Append(DiskHead, [seq |-> Len(DiskHead), event |-> e])
         /\ IsPrefix(DiskHead, DiskHead') /\ Len(DiskHead) <= Len(DiskHead')
         /\ DiskHead' \in Hash
<1>1. DiskHead \in Hash /\ Len(DiskHead) \in Nat
  BY HeadsOnDisk, LenProperties DEF Hash
<1>2. [Log!Next]_<<DiskHead, Heads>>
  BY StepRefines
<1>3. \/ DiskHead' = DiskHead
      \/ \E e \in Event : DiskHead' = Append(DiskHead, [seq |-> Len(DiskHead), event |-> e])
  BY <1>2 DEF Log!Next, Log!Write, Log!Vouch
<1>4. CASE DiskHead' = DiskHead
  BY <1>1, <1>3, <1>4, PrefixReflexive DEF Hash
<1>5. CASE \E e \in Event : DiskHead' = Append(DiskHead, [seq |-> Len(DiskHead), event |-> e])
  <2>1. PICK e \in Event : DiskHead' = Append(DiskHead, [seq |-> Len(DiskHead), event |-> e])
    BY <1>5
  <2>2. [seq |-> Len(DiskHead), event |-> e] \in Body
    BY <1>1 DEF Body
  <2>3. /\ IsPrefix(DiskHead, DiskHead') /\ Len(DiskHead') = Len(DiskHead) + 1
        /\ DiskHead' \in Hash
    BY <1>1, <2>1, <2>2, PrefixAppend, AppendProperties DEF Hash
  <2>4. Len(DiskHead) <= Len(DiskHead')
    BY <1>1, <2>3
  <2> QED BY <1>1, <1>3, <2>3, <2>4
<1> QED BY <1>3, <1>4, <1>5

LEMMA HistoryStep ==
  ASSUME Harmless, Inv, ManifestInv, DownIsIdle, HeadsInv, HonestInv, HistoryInv, [Next]_vars
  PROVE  HistoryInv'
<1>1. \A i \in 1..Len(DiskHead') : DiskHead'[i].seq = i - 1
  <2>1. DiskHead \in Hash /\ Len(DiskHead) \in Nat
    BY HistoryGrows
  <2>2. CASE DiskHead' = DiskHead
    BY <2>2 DEF HistoryInv
  <2>3. CASE \E e \in Event : DiskHead' = Append(DiskHead, [seq |-> Len(DiskHead), event |-> e])
    <3>1. PICK e \in Event : DiskHead' = Append(DiskHead, [seq |-> Len(DiskHead), event |-> e])
      BY <2>3
    <3> DEFINE b == [seq |-> Len(DiskHead), event |-> e]
    <3>2. b \in Body /\ b.seq = Len(DiskHead)
      BY <2>1 DEF Body
    <3> HIDE DEF b
    <3>3. /\ Len(Append(DiskHead, b)) = Len(DiskHead) + 1
          /\ Append(DiskHead, b)[Len(DiskHead) + 1] = b
          /\ \A i \in 1..Len(DiskHead) : Append(DiskHead, b)[i] = DiskHead[i]
      BY <2>1, <3>2, AppendProperties DEF Hash
    <3>4. DiskHead' = Append(DiskHead, b)
      BY <3>1 DEF b
    <3>5. \A i \in 1..Len(DiskHead) : DiskHead[i].seq = i - 1
      BY DEF HistoryInv
    <3> HIDE DEF DiskHead
    <3>6. \A i \in 1..(Len(DiskHead) + 1) : i \in 1..Len(DiskHead) \/ i = Len(DiskHead) + 1
      BY <2>1
    <3> QED BY <2>1, <3>2, <3>3, <3>4, <3>5, <3>6
  <2> QED BY <2>2, <2>3, HistoryGrows
<1>2. \A i \in 1..Len(manifest') : manifest'[i].segment = i
  <2>1. manifest \in Seq(Entry) /\ Len(manifest) \in Nat
    BY StateTypes
  <2>2. CASE manifest' = manifest
    BY <2>2 DEF HistoryInv
  <2>3. CASE \E h \in Handler : RotateManifest(h)
    <3>1. PICK h \in Handler : RotateManifest(h)
      BY <2>3
    <3>2. pc[h] = "manifest" /\ InWindow /\ manifest' = Append(manifest, RotateEntry)
      BY <3>1 DEF RotateManifest, Advance, InWindow
    <3>3. rot.segNum = Len(manifest) + 1
      BY <2>1, <3>2 DEF Inv, InFlight, HonestInv, AllListed
    <3>4. RotateEntry \in Entry /\ RotateEntry.segment = Len(manifest) + 1
      <4>1. rot \in Locals
        BY StateTypes
      <4> QED BY <3>3, <4>1 DEF RotateEntry, Entry, Locals, Checkpoint
    <3>5. /\ Len(manifest') = Len(manifest) + 1 /\ manifest'[Len(manifest) + 1] = RotateEntry
          /\ \A i \in 1..Len(manifest) : manifest'[i] = manifest[i]
      BY <2>1, <3>2, <3>4, AppendProperties
    <3>6. \A i \in 1..(Len(manifest) + 1) : i \in 1..Len(manifest) \/ i = Len(manifest) + 1
      BY <2>1
    <3> QED BY <2>1, <3>4, <3>5, <3>6 DEF HistoryInv
  <2> QED BY <2>2, <2>3, SegmentSteps
<1> QED BY <1>1, <1>2 DEF HistoryInv

\* The n-th record of the log has sequence number n - 1 and the n-th entry of the
\* manifest is segment n (Emit, Rotate).
THEOREM HistoryInvHolds ==
  ASSUME Harmless
  PROVE  Spec => []HistoryInv
<1>1. Init => HistoryInv
  <2>1. Init => DiskHead = << >> /\ manifest = << >>
    BY DEF Init, DiskHead, Genesis
  <2>2. Len(<< >>) = 0
    BY EmptySeq
  <2> QED BY <2>1, <2>2 DEF HistoryInv
<1>2. Inv /\ ManifestInv /\ DownIsIdle /\ HeadsInv /\ HonestInv /\ HistoryInv /\ [Next]_vars
        => HistoryInv'
  BY HistoryStep
<1> QED BY <1>1, <1>2, InvHolds, ManifestInvHolds, HeadsStayHeld, HonestInvHolds, PTL DEF Spec

-----------------------------------------------------------------------------
(* The files, one after the other, are the history *)

\* The head at which file n starts: what the manifest carries there, the end after that.
Base(n) == IF n \in 1..(Len(manifest) + 1) THEN CarriedPrev(Disk, n) ELSE DiskHead

FilesInOrder ==
  Inv /\ ManifestInv /\ DownIsIdle /\ HeadsInv /\ HonestInv /\ HistoryInv

\* A file that the manifest lists, or the one after that: it goes from base to base.
LEMMA Layout ==
  ASSUME FilesInOrder
  PROVE  /\ Len(manifest) \in Nat /\ NextSegment \in {Len(manifest) + 1, Len(manifest) + 2}
         /\ NextSegment = Len(manifest) + 2 => active = << >>
         /\ \A n \in 1..Len(manifest) : n \in DOMAIN segs
         /\ \A n \in 1..(Len(manifest) + 1) :
              /\ Inode(n) \in Seq(Line) /\ Base(n) \in Hash
              /\ SoundFile(Inode(n), Base(n)) /\ HeadAfter(Inode(n), Base(n)) = Base(n + 1)
<1> USE DEF FilesInOrder
<1> DEFINE M == Len(manifest)
<1>1. /\ M \in Nat /\ manifest \in Seq(Entry) /\ DOMAIN manifest = 1..M /\ active \in Seq(Line)
      /\ NextSegment = Len(segs) + 1 /\ DOMAIN segs = 1..Len(segs) /\ Len(segs) \in Nat
      /\ \A n \in DOMAIN segs : segs[n] \in Seq(Line)
  BY StateTypes, WhatIsRead, LenProperties
<1>2. Len(segs) = M + (IF InWindow THEN 1 ELSE 0)
  BY DEF HonestInv, AllListed
<1>3. InWindow => active = << >>
  BY HeadInside DEF HeadsInv, FilesInv, HonestInv
<1>4. NextSegment \in {M + 1, M + 2} /\ (NextSegment = M + 2 => active = << >>)
  BY <1>1, <1>2, <1>3
<1>5. \A n \in 1..M : n \in DOMAIN segs
  BY <1>1, <1>2
<1>6. \A n \in 1..(M + 1) : Base(n) = CarriedPrev(Disk, n) /\ Base(n) \in Hash
  <2>1. Disk.manifest = manifest
    BY DEF Disk
  <2>2. \A n \in 1..(M + 1) : CarriedPrev(Disk, n) \in Hash
    BY <2>1, DiskHasType, CarriedType DEF Inv
  <2> QED BY <2>2 DEF Base
<1>7. Base(M + 2) = DiskHead /\ Base(M + 1) = SealedTo
  <2>1. M + 2 \notin 1..(M + 1) /\ M + 1 \in 1..(M + 1)
    BY <1>1
  <2> QED BY <1>6, <2>1, ResumePoint DEF Base, SealedTo, ManifestInv
<1>8. ASSUME NEW n \in 1..M
      PROVE  /\ SoundFile(Inode(n), Base(n))
             /\ HeadAfter(Inode(n), Base(n)) = Base(n + 1)
  <2>1. /\ n \in 1..(M + 1) /\ n + 1 \in 1..(M + 1) /\ n + 1 # 1 /\ (n + 1) - 1 = n
    BY <1>1
  <2>2. EntryWalks(Disk, n) /\ manifest[n].segment = n
    BY <1>1, ChainOfWalks DEF ManifestInv, HistoryInv
  <2>3. Inode(n) = segs[n]
    BY <1>5 DEF Inode
  <2>4. Disk.manifest[n] = manifest[n] /\ Disk.segs = segs
    BY DEF Disk
  <2>5. Base(n) = CarriedPrev(Disk, n) /\ Base(n + 1) = CarriedPrev(Disk, n + 1)
    BY <1>6, <2>1
  <2>6. CarriedPrev(Disk, n + 1) = manifest[n].end_hash
    BY <2>1, <2>4 DEF CarriedPrev
  <2>7. LET state == verifyChainStateFrom(segs[n], CarriedPrev(Disk, n), CarriedOffset(Disk, n))
        IN state.valid /\ manifest[n].end_hash = state.root_hash
    BY <2>2, <2>4 DEF EntryWalks
  <2>8. /\ SoundFile(segs[n], CarriedPrev(Disk, n))
        /\ manifest[n].end_hash = HeadAfter(segs[n], CarriedPrev(Disk, n))
    BY <2>7, WalkReports
  <2> QED BY <2>3, <2>5, <2>6, <2>8
<1>9. SoundFile(Inode(M + 1), Base(M + 1)) /\ HeadAfter(Inode(M + 1), Base(M + 1)) = DiskHead
  <2>1. CASE ~InWindow
    <3>1. Inode(M + 1) = active
      BY <1>1, <1>2, <2>1 DEF Inode
    <3>2. SoundFile(active, SealedTo) /\ DiskHead = HeadAfter(active, SealedTo)
      BY <2>1, HeadOutside DEF HonestInv, ActiveLinks
    <3> QED BY <1>7, <3>1, <3>2
  <2>2. CASE InWindow
    <3>1. PICK h \in Handler : pc[h] \in InTheWindow
      BY <2>2, WindowNames
    <3>2. rot.segNum = M + 1 /\ M + 1 \in DOMAIN segs
      BY <1>1, <1>2, <2>2, <3>1 DEF Inv, InFlight, InTheWindow
    <3>3. Inode(M + 1) = segs[M + 1]
      BY <3>2 DEF Inode
    <3>4. WalkStands(pc[h]) /\ WalkedLines(pc[h]) = segs[M + 1]
      BY <3>1, <3>2 DEF ManifestInv, ManifestInFlight, InTheWindow, WalkedLines
    <3>5. rot.startPrev = SealedTo
      BY <3>4 DEF WalkStands, SealedTo
    <3>6. LET state == verifyChainStateFrom(segs[M + 1], SealedTo, rot.startOffset)
          IN state.valid /\ rot.cp = payload(state)
      BY <3>4, <3>5 DEF WalkStands
    <3>7. /\ SoundFile(segs[M + 1], SealedTo)
          /\ rot.cp.root_hash = HeadAfter(segs[M + 1], SealedTo)
      BY <3>6, WalkReports DEF payload
    <3>8. DiskHead = rot.cp.root_hash
      BY <2>2, HeadInside DEF HeadsInv, FilesInv, HonestInv
    <3> QED BY <1>7, <3>3, <3>7, <3>8
  <2> QED BY <2>1, <2>2
<1>10. \A n \in 1..(M + 1) : Inode(n) \in Seq(Line)
  BY <1>1 DEF Inode
<1>11. \A n \in 1..(M + 1) : n \in 1..M \/ n = M + 1
  BY <1>1
<1>12. ASSUME NEW n \in 1..(M + 1)
       PROVE  SoundFile(Inode(n), Base(n)) /\ HeadAfter(Inode(n), Base(n)) = Base(n + 1)
  <2>1. CASE n \in 1..M
    BY <1>8, <2>1
  <2>2. CASE n = M + 1
    <3>1. n + 1 = M + 2
      BY <1>1, <2>2
    <3> QED BY <1>7, <1>9, <2>2, <3>1
  <2> QED BY <1>11, <2>1, <2>2
<1> HIDE DEF FilesInOrder
<1> QED BY <1>1, <1>4, <1>5, <1>6, <1>10, <1>12

\* The bases are ever longer parts of the history.
LEMMA BasesGrow ==
  ASSUME FilesInOrder
  PROVE  /\ DiskHead \in Hash /\ Len(DiskHead) \in Nat /\ Len(Base(1)) = 0
         /\ \A n \in 1..(Len(manifest) + 2) :
              /\ Base(n) \in Hash /\ Len(Base(n)) \in Nat /\ IsPrefix(Base(n), DiskHead)
              /\ \A k \in 1..n : Len(Base(k)) <= Len(Base(n))
         /\ Base(Len(manifest) + 2) = DiskHead
<1> DEFINE M == Len(manifest)
<1>1. M \in Nat
  BY Layout
<1>2. DiskHead \in Hash /\ Len(DiskHead) \in Nat
  BY HeadsOnDisk, LenProperties DEF FilesInOrder, Hash
<1>3. Base(M + 2) = DiskHead
  <2>1. M + 2 \notin 1..(M + 1)
    BY <1>1
  <2> QED BY <2>1 DEF Base
<1>4. \A n \in 1..(M + 2) : Base(n) \in Hash
  <2>1. \A n \in 1..(M + 2) : n \in 1..(M + 1) \/ n = M + 2
    BY <1>1
  <2> QED BY <1>2, <1>3, <2>1, Layout
<1>5. ASSUME NEW n \in 1..(M + 1)
      PROVE  IsPrefix(Base(n), Base(n + 1)) /\ n + 1 \in 1..(M + 2) /\ n \in 1..(M + 2)
  <2>1. IsPrefix(Base(n), HeadAfter(Inode(n), Base(n)))
    BY Layout, SoundLines
  <2> QED BY <1>1, <2>1, Layout
<1> DEFINE T == {i \in 0..(M + 1) : \A k \in 1..(i + 1) : IsPrefix(Base(k), Base(i + 1))}
<1>6. 0 \in T
  <2>1. IsPrefix(Base(1), Base(1))
    BY <1>1, <1>4, PrefixReflexive DEF Hash
  <2> QED BY <1>1, <2>1
<1>7. ASSUME NEW i \in 1..(M + 1), i - 1 \in T
      PROVE  i \in T
  <2>1. Base(i) \in Seq(Body) /\ Base(i + 1) \in Seq(Body) /\ IsPrefix(Base(i), Base(i + 1))
    BY <1>4, <1>5 DEF Hash
  <2>2. ASSUME NEW k \in 1..(i + 1)
        PROVE  IsPrefix(Base(k), Base(i + 1))
    <3>1. CASE k = i + 1
      BY <2>1, <3>1, PrefixReflexive
    <3>2. CASE k # i + 1
      <4>1. k \in 1..((i - 1) + 1) /\ (i - 1) + 1 = i /\ k \in 1..(M + 2)
        BY <1>1, <3>2
      <4>2. IsPrefix(Base(k), Base(i)) /\ Base(k) \in Seq(Body)
        BY <1>4, <1>7, <4>1 DEF Hash
      <4> QED BY <2>1, <4>2, PrefixTransitive
    <3> QED BY <3>1, <3>2
  <2> QED BY <2>2
<1> HIDE DEF T
<1>8. 0..(M + 1) \subseteq T
  <2>1. M + 1 \in Nat
    BY <1>1
  <2> HIDE DEF M
  <2> QED BY <1>6, <1>7, <2>1, BoundedInduction
<1>9. \A n \in 1..(M + 2), k \in 1..(M + 2) : k <= n => IsPrefix(Base(k), Base(n))
  <2> SUFFICES ASSUME NEW n \in 1..(M + 2), NEW k \in 1..(M + 2), k <= n
               PROVE  IsPrefix(Base(k), Base(n))
    OBVIOUS
  <2>1. n - 1 \in 0..(M + 1) /\ (n - 1) + 1 = n /\ k \in 1..((n - 1) + 1)
    BY <1>1
  <2> QED BY <1>8, <2>1 DEF T
<1>10. \A n \in 1..(M + 2) : Len(Base(n)) \in Nat
  BY <1>4, LenProperties DEF Hash
<1>11. ASSUME NEW n \in 1..(M + 2), NEW k \in 1..n
       PROVE  Len(Base(k)) <= Len(Base(n))
  <2>1. k \in 1..(M + 2) /\ k <= n
    BY <1>1
  <2>2. IsPrefix(Base(k), Base(n)) /\ Base(k) \in Seq(Body) /\ Base(n) \in Seq(Body)
    BY <1>4, <1>9, <2>1 DEF Hash
  <2> QED BY <2>2, PrefixAt
<1>12. ASSUME NEW n \in 1..(M + 2)
       PROVE  IsPrefix(Base(n), DiskHead)
  BY <1>1, <1>3, <1>9
<1>13. Len(Base(1)) = 0
  <2>1. Base(1) = Genesis
    BY <1>1 DEF Base, CarriedPrev
  <2> QED BY <2>1, EmptySeq DEF Genesis
<1> QED BY <1>2, <1>3, <1>4, <1>10, <1>11, <1>12, <1>13

-----------------------------------------------------------------------------
(* What a reader finds in the files *)

\* A line that an emit is about to write, of which a reader may see the front.
OnTheWay(rec) ==
  \E h \in Handler : pc[h] = "write" /\ arg[h] \notin Refused /\ rec = EmittedRecord(h)

\* A record of the log: it is where its number says, in the history or next after it.
InLog(rec) ==
  /\ rec.hash = hashRecord(rec.prev_hash, BodyOf(rec)) /\ rec.seq = Len(rec.prev_hash)
  /\ IsPrefix(rec.hash, DiskHead) \/ OnTheWay(rec)

LEMMA AtItsPlace ==
  ASSUME FilesInOrder, NEW rec \in Record, IsPrefix(rec.hash, DiskHead),
         rec.hash = hashRecord(rec.prev_hash, BodyOf(rec))
  PROVE  /\ Len(rec.prev_hash) + 1 \in 1..Len(DiskHead)
         /\ DiskHead[Len(rec.prev_hash) + 1] = BodyOf(rec)
         /\ rec.seq = Len(rec.prev_hash) /\ InLog(rec)
         /\ Len(rec.hash) = rec.seq + 1
<1> DEFINE p == rec.prev_hash
           b == BodyOf(rec)
           head == DiskHead
<1>1. p \in Seq(Body) /\ b \in Body /\ rec.hash = Append(p, b)
  BY DEF Record, Hash, Body, BodyOf, hashRecord
<1>2. head \in Seq(Body) /\ Len(head) \in Nat
  BY BasesGrow DEF Hash
<1>3. IsPrefix(Append(p, b), head)
  BY <1>1
<1>4. \A i \in 1..Len(head) : head[i].seq = i - 1
  BY DEF FilesInOrder, HistoryInv
<1>5. b.seq = rec.seq
  BY DEF BodyOf
<1> HIDE DEF p, b, head
<1>6. /\ Append(p, b) \in Seq(Body) /\ Len(Append(p, b)) = Len(p) + 1
      /\ Append(p, b)[Len(p) + 1] = b /\ Len(p) \in Nat
  BY <1>1, AppendProperties, LenProperties
<1>7. /\ Len(p) + 1 <= Len(head)
      /\ \A i \in 1..(Len(p) + 1) : Append(p, b)[i] = head[i]
  <2> DEFINE a == Append(p, b)
  <2>1. a \in Seq(Body) /\ IsPrefix(a, head) /\ Len(a) = Len(p) + 1
    BY <1>3, <1>6
  <2> HIDE DEF a
  <2>2. Len(a) <= Len(head) /\ \A i \in 1..Len(a) : a[i] = head[i]
    BY <1>2, <2>1, PrefixAt
  <2> QED BY <2>1, <2>2 DEF a
<1>8. Len(p) + 1 \in 1..Len(head) /\ head[Len(p) + 1] = b
  <2>1. Len(p) + 1 \in 1..(Len(p) + 1)
    BY <1>6
  <2> QED BY <1>2, <1>6, <1>7, <2>1
<1>9. rec.seq = Len(p)
  BY <1>4, <1>5, <1>6, <1>8
<1> QED BY <1>1, <1>6, <1>8, <1>9 DEF p, b, head, InLog

LEMMA SoundIsInLog ==
  ASSUME FilesInOrder, NEW lines \in Seq(Line), NEW start \in Hash, SoundFile(lines, start),
         IsPrefix(HeadAfter(lines, start), DiskHead), NEW i \in 1..Len(lines)
  PROVE  /\ lines[i].kind = "rec" /\ Scannable(lines[i])
         /\ InLog(lines[i].rec) /\ lines[i].rec.seq = Len(start) + (i - 1)
<1> DEFINE rec == lines[i].rec
           head == HeadAfter(lines, start)
<1>1. /\ rec \in Record /\ lines[i].kind = "rec" /\ Scannable(lines[i])
      /\ rec.hash = hashRecord(rec.prev_hash, BodyOf(rec))
      /\ Len(rec.prev_hash) = Len(start) + (i - 1)
      /\ IsPrefix(rec.hash, head) /\ head \in Hash
  BY SoundLines
<1>2. IsPrefix(rec.hash, DiskHead)
  <2>1. rec.hash \in Seq(Body) /\ head \in Seq(Body) /\ DiskHead \in Seq(Body)
    BY <1>1, BasesGrow DEF Record, Hash
  <2> QED BY <1>1, <2>1, PrefixTransitive
<1> HIDE DEF rec, head
<1>3. rec.seq = Len(rec.prev_hash) /\ InLog(rec)
  BY <1>1, <1>2, AtItsPlace
<1> QED BY <1>1, <1>3 DEF rec

\* Lines in ascending order, with numbers from p and below z, that miss none of p to q-1.
Spans(lines, p, q, z) ==
  /\ lines \in Seq(Line) /\ Sorted(lines, EarlierLine)
  /\ \A line \in Range(lines) :
       Scannable(line) /\ InLog(line.rec) /\ line.rec.seq \in p..(z - 1)
  /\ \A k \in p..(q - 1) :
       \E line \in Range(lines) : StartsWithRecord(line) /\ line.rec.seq = k

LEMMA SoundHolds ==
  ASSUME FilesInOrder, NEW lines \in Seq(Line), NEW start \in Hash, SoundFile(lines, start),
         IsPrefix(HeadAfter(lines, start), DiskHead)
  PROVE  LET head == HeadAfter(lines, start) IN
         Spans(lines, Len(start), Len(head), Len(head))
<1> DEFINE head == HeadAfter(lines, start)
<1>1. PICK n \in Nat : n = Len(lines) /\ DOMAIN lines = 1..n /\ \A i \in 1..n : lines[i] \in Line
  BY LenProperties, ElementOfSeq
<1>2. PICK p \in Nat : p = Len(start)
  BY LenProperties DEF Hash
<1>3. Len(head) = p + n
  BY <1>1, <1>2, SoundLines
<1> HIDE DEF head
<1>4. \A i \in 1..n : /\ lines[i].kind = "rec" /\ Scannable(lines[i]) /\ InLog(lines[i].rec)
                      /\ lines[i].rec.seq = p + (i - 1)
  BY <1>1, <1>2, SoundIsInLog
<1>5. Sorted(lines, EarlierLine)
  <2> SUFFICES ASSUME NEW i \in 1..n, NEW j \in 1..n, i < j
               PROVE  <<lines[i], lines[j]>> \in EarlierLine
    BY <1>1 DEF Sorted
  <2>1. lines[i].rec.seq < lines[j].rec.seq
    BY <1>4
  <2> QED BY <1>1, <2>1, EarlierMeans
<1>6. ASSUME NEW line \in Range(lines)
      PROVE  Scannable(line) /\ InLog(line.rec) /\ line.rec.seq \in p..(Len(head) - 1)
  <2>1. PICK i \in 1..n : line = lines[i]
    BY <1>1 DEF Range
  <2>2. p + (i - 1) \in p..((p + n) - 1)
    OBVIOUS
  <2> QED BY <1>3, <1>4, <2>1, <2>2
<1>7. ASSUME NEW k \in p..(Len(head) - 1)
      PROVE  \E line \in Range(lines) : StartsWithRecord(line) /\ line.rec.seq = k
  <2> DEFINE i == (k - p) + 1
  <2>1. i \in 1..n /\ p + (i - 1) = k
    BY <1>3
  <2> HIDE DEF i
  <2>2. lines[i] \in Range(lines) /\ lines[i].kind = "rec" /\ lines[i].rec.seq = k
    BY <1>1, <1>4, <2>1 DEF Range
  <2> QED BY <2>2 DEF StartsWithRecord
<1> QED BY <1>2, <1>5, <1>6, <1>7 DEF Spans, head

LEMMA FileHolds ==
  ASSUME FilesInOrder, NEW n \in 1..(Len(manifest) + 1)
  PROVE  Spans(Inode(n), Len(Base(n)), Len(Base(n + 1)), Len(Base(n + 1)))
<1>1. n + 1 \in 1..(Len(manifest) + 2)
  BY Layout
<1>2. /\ Inode(n) \in Seq(Line) /\ Base(n) \in Hash /\ SoundFile(Inode(n), Base(n))
      /\ HeadAfter(Inode(n), Base(n)) = Base(n + 1) /\ IsPrefix(Base(n + 1), DiskHead)
  BY <1>1, Layout, BasesGrow
<1> QED BY <1>2, SoundHolds

\* No number of the history is missing in the files before base m.
LEMMA NoneIsMissing ==
  ASSUME FilesInOrder, NEW m \in 0..(Len(manifest) + 1), NEW k \in 0..(Len(Base(m + 1)) - 1)
  PROVE  \E n \in 1..m : \E line \in Range(Inode(n)) :
           StartsWithRecord(line) /\ line.rec.seq = k
<1> DEFINE M == Len(manifest)
           There(i, x) == \E n \in 1..i : \E line \in Range(Inode(n)) :
                            StartsWithRecord(line) /\ line.rec.seq = x
           T == {i \in 0..(M + 1) : \A x \in 0..(Len(Base(i + 1)) - 1) : There(i, x)}
<1>1. M \in Nat
  BY Layout
<1>2. \A n \in 1..(M + 2) : Len(Base(n)) \in Nat
  BY BasesGrow
<1>3. 0 \in T
  <2>1. Len(Base(0 + 1)) = 0
    BY BasesGrow
  <2> HIDE DEF There
  <2> QED BY <1>1, <2>1
<1>4. ASSUME NEW i \in 1..(M + 1), i - 1 \in T
      PROVE  i \in T
  <2> SUFFICES ASSUME NEW x \in 0..(Len(Base(i + 1)) - 1)
               PROVE  There(i, x)
    <3>1. i \in 0..(M + 1)
      BY <1>1
    <3> HIDE DEF There, M
    <3> QED BY <3>1
  <2>1. (i - 1) + 1 = i /\ i \in 1..(M + 2) /\ i + 1 \in 1..(M + 2)
    BY <1>1
  <2>2. CASE x < Len(Base(i))
    <3>1. x \in 0..(Len(Base((i - 1) + 1)) - 1)
      BY <1>2, <2>1, <2>2
    <3>2. There(i - 1, x)
      BY <1>4, <3>1
    <3> QED BY <3>2
  <2>3. CASE ~(x < Len(Base(i)))
    <3>1. x \in Len(Base(i))..(Len(Base(i + 1)) - 1)
      BY <1>2, <2>1, <2>3
    <3>2. \E line \in Range(Inode(i)) : StartsWithRecord(line) /\ line.rec.seq = x
      BY <3>1, FileHolds DEF Spans
    <3> QED BY <3>2
  <2> QED BY <2>2, <2>3
<1> HIDE DEF T
<1>5. 0..(M + 1) \subseteq T
  <2>1. M + 1 \in Nat
    BY <1>1
  <2> HIDE DEF M
  <2> QED BY <1>3, <1>4, <2>1, BoundedInduction
<1> QED BY <1>5 DEF T

\* What a query makes of the segments that it found listed.
Stands(listed) ==
  Len(listed) <= Len(manifest) /\ \A i \in 1..Len(listed) : listed[i] = manifest[i]

LEMMA ListedHolds ==
  ASSUME FilesInOrder, NEW r \in Reader, job[r].listed \in Seq(Entry), Stands(job[r].listed)
  PROVE  LET B == Len(Base(AfterListed(r))) IN
         /\ \A i \in DOMAIN job[r].listed : job[r].listed[i].segment \in DOMAIN segs
         /\ AfterListed(r) \in 1..(Len(manifest) + 1)
         /\ Spans(Listed(r), 0, B, B)
<1> DEFINE M == Len(manifest)
           seqs == [i \in DOMAIN job[r].listed |-> segs[job[r].listed[i].segment]]
<1>1. PICK m \in Nat : /\ m = Len(job[r].listed) /\ DOMAIN job[r].listed = 1..m
                       /\ m <= M /\ AfterListed(r) = m + 1
  BY LenProperties DEF Stands, AfterListed
<1>2. M \in Nat
  BY Layout
<1>3. \A i \in 1..m : /\ job[r].listed[i].segment = i /\ i \in DOMAIN segs
                      /\ Inode(i) = segs[i] /\ i \in 1..(M + 1)
  <2>1. \A i \in 1..m : i \in 1..M /\ i \in 1..(M + 1)
    BY <1>1, <1>2
  <2>2. \A i \in 1..m : job[r].listed[i].segment = i
    BY <1>1, <2>1 DEF Stands, FilesInOrder, HistoryInv
  <2>3. \A i \in 1..m : i \in DOMAIN segs
    BY <2>1, Layout
  <2> QED BY <2>1, <2>2, <2>3 DEF Inode
<1>4. DOMAIN seqs = 1..m /\ \A i \in 1..m : seqs[i] = Inode(i)
  BY <1>1, <1>3
<1>5. seqs \in Seq(Seq(Line)) /\ Len(seqs) = m
  <2>1. \A i \in 1..m : Inode(i) \in Seq(Line)
    BY <1>3, Layout
  <2>2. seqs = [i \in 1..m |-> Inode(i)]
    BY <1>1, <1>3
  <2> HIDE DEF seqs
  <2> QED BY <1>1, <2>1, <2>2
<1>6. Listed(r) = FlattenSeq(seqs)
  BY DEF Listed
<1> HIDE DEF seqs, M
<1>7. ASSUME NEW i \in 1..m
      PROVE  Spans(Inode(i), Len(Base(i)), Len(Base(i + 1)), Len(Base(i + 1)))
  BY <1>3, FileHolds DEF M
<1>8. \A i \in 1..(M + 2) : Len(Base(i)) \in Nat /\ \A k \in 1..i : Len(Base(k)) <= Len(Base(i))
  BY BasesGrow DEF M
<1>9. ASSUME NEW i \in 1..m, NEW j \in 1..m, i < j,
             NEW x \in Range(Inode(i)), NEW y \in Range(Inode(j))
      PROVE  <<x, y>> \in EarlierLine
  <2>1. /\ x.rec.seq \in Len(Base(i))..(Len(Base(i + 1)) - 1)
        /\ y.rec.seq \in Len(Base(j))..(Len(Base(j + 1)) - 1)
    BY <1>7 DEF Spans
  <2>2. i + 1 \in 1..j /\ i \in 1..(M + 2) /\ i + 1 \in 1..(M + 2)
        /\ j \in 1..(M + 2) /\ j + 1 \in 1..(M + 2)
    BY <1>1, <1>2, <1>9 DEF M
  <2>3. Len(Base(i + 1)) <= Len(Base(j)) /\ Len(Base(i)) \in Nat /\ Len(Base(j)) \in Nat
        /\ Len(Base(i + 1)) \in Nat /\ Len(Base(j + 1)) \in Nat
    BY <1>8, <2>2
  <2>4. x \in Line /\ y \in Line
    BY <1>7, SeqRange DEF Spans
  <2>5. x.rec.seq < y.rec.seq
    BY <2>1, <2>3
  <2> QED BY <2>4, <2>5, EarlierMeans
<1>10. SortedApart(seqs, EarlierLine)
  BY <1>4, <1>7, <1>9 DEF SortedApart, Spans
<1>11. /\ FlattenSeq(seqs) \in Seq(Line) /\ Sorted(FlattenSeq(seqs), EarlierLine)
       /\ Range(FlattenSeq(seqs)) = UNION {Range(seqs[i]) : i \in 1..m}
  BY <1>5, <1>10, FlattenSorts
<1> DEFINE B == Len(Base(m + 1))
<1>12. ASSUME NEW line \in Range(FlattenSeq(seqs))
       PROVE  Scannable(line) /\ InLog(line.rec) /\ line.rec.seq \in 0..(B - 1)
  <2>1. PICK i \in 1..m : line \in Range(Inode(i))
    BY <1>4, <1>11
  <2>2. /\ Scannable(line) /\ InLog(line.rec)
        /\ line.rec.seq \in Len(Base(i))..(Len(Base(i + 1)) - 1)
    BY <1>7, <2>1 DEF Spans
  <2>3. i + 1 \in 1..(m + 1) /\ m + 1 \in 1..(M + 2) /\ i \in 1..(M + 2) /\ i + 1 \in 1..(M + 2)
    BY <1>1, <1>2 DEF M
  <2>4. Len(Base(i + 1)) <= B /\ Len(Base(i)) \in Nat /\ Len(Base(i + 1)) \in Nat /\ B \in Nat
    BY <1>8, <2>3
  <2> HIDE DEF B
  <2> QED BY <2>2, <2>4
<1>13. ASSUME NEW k \in 0..(B - 1)
       PROVE  \E line \in Range(FlattenSeq(seqs)) : StartsWithRecord(line) /\ line.rec.seq = k
  <2>1. m \in 0..(Len(manifest) + 1)
    BY <1>1, <1>2 DEF M
  <2>2. PICK n \in 1..m : \E line \in Range(Inode(n)) : StartsWithRecord(line) /\ line.rec.seq = k
    BY <2>1, NoneIsMissing
  <2> QED BY <1>4, <1>11, <2>2
<1>14. m + 1 \in 1..(Len(manifest) + 1)
  BY <1>1, <1>2 DEF M
<1> HIDE DEF B
<1>15. Spans(FlattenSeq(seqs), 0, B, B)
  BY <1>11, <1>12, <1>13 DEF Spans
<1> QED BY <1>1, <1>3, <1>6, <1>14, <1>15 DEF B

\* The line that an emit is about to write is the next record of the history.
LEMMA OnTheWayIsNext ==
  ASSUME FilesInOrder, NEW h \in Handler, pc[h] = "write"
  PROVE  /\ EmittedRecord(h) \in Record /\ EmittedRecord(h).seq = Len(DiskHead)
         /\ EmittedRecord(h).event = arg[h]
         /\ EmittedRecord(h).prev_hash = DiskHead
         /\ EmittedRecord(h).hash = hashRecord(DiskHead, BodyOf(EmittedRecord(h)))
         /\ up /\ ~InWindow
<1>1. /\ EmittedRecord(h) \in Record /\ EmittedRecord(h).seq = seq
      /\ EmittedRecord(h).event = arg[h] /\ EmittedRecord(h).prev_hash = prevHash
      /\ EmittedRecord(h).hash = hashRecord(prevHash, BodyOf(EmittedRecord(h)))
  BY EmittedRecordType DEF FilesInOrder, Inv, InEmit, EmittedRecord, NewRecord, BodyOf
<1>2. up
  BY DEF FilesInOrder, DownIsIdle
<1>3. \A g \in Handler : pc[g] \notin {"sync"} \cup InTheWindow
  BY OnlyOneInside DEF FilesInOrder, Inv, Inside, InEmit, InRotate, InTheWindow
<1>4. seq = Len(prevHash) /\ prevHash = DiskHead
  BY <1>2, <1>3 DEF FilesInOrder, HonestInv, MemoryIsHead
<1> QED BY <1>1, <1>2, <1>3, <1>4, WindowNames

LEMMA InodeHolds ==
  ASSUME FilesInOrder, NEW n \in 1..NextSegment
  PROVE  /\ Spans(Inode(n), Len(Base(n)), Len(Base(n + 1)), Len(Base(n + 1)))
         /\ Len(Base(n)) \in Nat /\ Len(Base(n + 1)) \in Nat
         /\ Len(Base(n)) <= Len(Base(n + 1)) /\ Len(Base(n + 1)) <= Len(DiskHead)
<1>1. Len(manifest) \in Nat /\ NextSegment \in {Len(manifest) + 1, Len(manifest) + 2}
  BY Layout
<1>2. CASE n \in 1..(Len(manifest) + 1)
  <2>1. n \in 1..(n + 1) /\ n \in 1..(Len(manifest) + 2) /\ n + 1 \in 1..(Len(manifest) + 2)
        /\ Len(manifest) + 2 \in 1..(Len(manifest) + 2)
        /\ n + 1 \in 1..(Len(manifest) + 2)
    BY <1>1, <1>2
  <2>2. Len(Base(n + 1)) <= Len(Base(Len(manifest) + 2))
    BY <2>1, BasesGrow
  <2> QED BY <1>2, <2>1, <2>2, BasesGrow, FileHolds
<1>3. CASE n \notin 1..(Len(manifest) + 1)
  <2>1. n = NextSegment /\ n = Len(manifest) + 2
    BY <1>1, <1>3
  <2>2. active = << >> /\ Base(n) = DiskHead /\ Base(n + 1) = DiskHead
    <3>1. n + 1 \notin 1..(Len(manifest) + 1)
      BY <1>1, <2>1
    <3> QED BY <1>3, <2>1, <3>1, Layout DEF Base
  <2>3. Inode(n) = << >>
    <3>1. n \notin DOMAIN segs
      <4>1. NextSegment = Len(segs) + 1 /\ DOMAIN segs = 1..Len(segs) /\ Len(segs) \in Nat
        BY WhatIsRead, StateTypes DEF FilesInOrder
      <4>2. Len(segs) + 1 \notin 1..Len(segs)
        BY <4>1
      <4> QED BY <2>1, <4>1, <4>2
    <3> QED BY <2>2, <3>1 DEF Inode
  <2>4. Len(DiskHead) \in Nat
    BY BasesGrow
  <2>5. Len(DiskHead)..(Len(DiskHead) - 1) = {}
    BY <2>4
  <2>6. << >> \in Seq(Line) /\ Range(<< >>) = {} /\ Sorted(<< >>, EarlierLine)
    BY EmptySeq DEF Range, Sorted
  <2>7. Spans(<< >>, Len(DiskHead), Len(DiskHead), Len(DiskHead))
    BY <2>5, <2>6 DEF Spans
  <2> QED BY <2>2, <2>3, <2>4, <2>7
<1> QED BY <1>2, <1>3

LEMMA AppendHolds ==
  ASSUME NEW lines, NEW p \in Nat, NEW q \in Nat, p <= q, Spans(lines, p, q, q),
         NEW line \in Line, Scannable(line), InLog(line.rec), line.rec.seq = q
  PROVE  Spans(Append(lines, line), p, q, q + 1)
<1> DEFINE more == Append(lines, line)
<1>1. PICK n \in Nat : n = Len(lines) /\ DOMAIN lines = 1..n
  BY LenProperties DEF Spans
<1>2. /\ more \in Seq(Line) /\ DOMAIN more = 1..(n + 1)
      /\ \A i \in 1..n : more[i] = lines[i]
      /\ more[n + 1] = line
  <2>1. lines \in Seq(Line)
    BY DEF Spans
  <2>2. /\ more \in Seq(Line) /\ Len(more) = n + 1 /\ more[n + 1] = line
        /\ \A i \in 1..n : more[i] = lines[i]
    BY <1>1, <2>1, AppendProperties
  <2> HIDE DEF more
  <2> QED BY <2>2, LenProperties
<1> HIDE DEF more
<1>3. \A i \in 1..(n + 1) : i \in 1..n \/ i = n + 1
  OBVIOUS
<1>4. Range(more) = Range(lines) \cup {line}
  <2>1. \A x \in Range(more) : x \in Range(lines) \cup {line}
    BY <1>1, <1>2, <1>3 DEF Range
  <2>2. \A i \in 1..n : i \in 1..(n + 1)
    OBVIOUS
  <2>3. \A x \in Range(lines) : x \in Range(more)
    BY <1>1, <1>2, <2>2 DEF Range
  <2>4. n + 1 \in 1..(n + 1)
    OBVIOUS
  <2>5. line \in Range(more)
    BY <1>2, <2>4 DEF Range
  <2> QED BY <2>1, <2>3, <2>5
<1>5. Sorted(more, EarlierLine)
  <2> SUFFICES ASSUME NEW i \in 1..(n + 1), NEW j \in 1..(n + 1), i < j
               PROVE  <<more[i], more[j]>> \in EarlierLine
    BY <1>2 DEF Sorted
  <2>1. i \in 1..n
    OBVIOUS
  <2>2. CASE j \in 1..n
    BY <1>1, <1>2, <2>1, <2>2 DEF Spans, Sorted
  <2>3. CASE j = n + 1
    <3>1. lines[i] \in Range(lines)
      BY <1>1, <2>1 DEF Range
    <3>2. lines[i].rec.seq \in p..(q - 1) /\ lines[i] \in Line
      BY <3>1, SeqRange DEF Spans
    <3>3. lines[i].rec.seq < line.rec.seq
      BY <3>2
    <3> QED BY <1>2, <2>1, <2>3, <3>2, <3>3, EarlierMeans
  <2> QED BY <1>3, <2>2, <2>3
<1>6. ASSUME NEW x \in Range(more)
      PROVE  Scannable(x) /\ InLog(x.rec) /\ x.rec.seq \in p..((q + 1) - 1)
  <2>1. CASE x = line
    BY <2>1
  <2>2. CASE x \in Range(lines)
    <3>1. Scannable(x) /\ InLog(x.rec) /\ x.rec.seq \in p..(q - 1)
      BY <2>2 DEF Spans
    <3> QED BY <3>1
  <2> QED BY <1>4, <2>1, <2>2
<1>7. \A k \in p..(q - 1) : \E x \in Range(more) : StartsWithRecord(x) /\ x.rec.seq = k
  BY <1>4 DEF Spans
<1> QED BY <1>2, <1>5, <1>6, <1>7 DEF Spans, more

\* What a read of an open file gives: all of the file, and perhaps the next line's front.
LEMMA ReadHolds ==
  ASSUME Harmless, FilesInOrder, NEW n \in 1..NextSegment, NEW lines \in ReadsOf(n)
  PROVE  Spans(lines, Len(Base(n)), Len(Base(n + 1)), Len(DiskHead) + 1)
<1>1. /\ Spans(Inode(n), Len(Base(n)), Len(Base(n + 1)), Len(Base(n + 1)))
      /\ Len(Base(n)) \in Nat /\ Len(Base(n + 1)) \in Nat /\ Len(DiskHead) \in Nat
      /\ Len(Base(n)) <= Len(Base(n + 1)) /\ Len(Base(n + 1)) <= Len(DiskHead)
  BY InodeHolds, BasesGrow
<1>2. CASE lines = Inode(n)
  <2>1. Len(Base(n))..(Len(Base(n + 1)) - 1) \subseteq Len(Base(n))..((Len(DiskHead) + 1) - 1)
    BY <1>1
  <2> QED BY <1>1, <1>2, <2>1 DEF Spans
<1>3. CASE lines # Inode(n)
  <2>1. PICK h \in Handler :
          /\ pc[h] = "write" /\ arg[h] \notin Refused /\ n \notin DOMAIN segs
          /\ \E front \in {CutInside(EmittedRecord(h)), CutBeforeNewline(EmittedRecord(h))} :
               lines = AppendLine(active, front)
    BY <1>3 DEF ReadsOf
  <2>2. PICK front \in {CutInside(EmittedRecord(h)), CutBeforeNewline(EmittedRecord(h))} :
          lines = AppendLine(active, front)
    BY <2>1
  <2>3. /\ EmittedRecord(h) \in Record /\ EmittedRecord(h).seq = Len(DiskHead)
        /\ EmittedRecord(h).event = arg[h] /\ EmittedRecord(h).prev_hash = DiskHead
        /\ EmittedRecord(h).hash = hashRecord(DiskHead, BodyOf(EmittedRecord(h))) /\ ~InWindow
    BY <2>1, OnTheWayIsNext
  <2>4. front \in Line /\ front.rec = EmittedRecord(h)
    <3> DEFINE rec == EmittedRecord(h)
    <3>1. rec \in Record /\ front \in {CutInside(rec), CutBeforeNewline(rec)}
      BY <2>3
    <3> HIDE DEF rec
    <3>2. CutInside(rec).rec = rec /\ CutBeforeNewline(rec).rec = rec
      BY DEF CutInside, CutBeforeNewline
    <3>3. front \in Line /\ front.rec = rec
      BY <3>1, <3>2, LineTypes
    <3> QED BY <3>3 DEF rec
  <2>5. /\ Inode(n) = active /\ n = Len(manifest) + 1
    <3>1. /\ NextSegment = Len(segs) + 1 /\ DOMAIN segs = 1..Len(segs) /\ Len(segs) \in Nat
          /\ Len(segs) = Len(manifest)
      BY <2>3, WhatIsRead, StateTypes DEF FilesInOrder, HonestInv, AllListed
    <3> QED BY <2>1, <3>1 DEF Inode
  <2>6. Base(n + 1) = DiskHead
    <3>1. n + 1 = Len(manifest) + 2
      BY <2>5, Layout
    <3> QED BY <3>1, BasesGrow
  <2>7. lines = Append(active, front)
    <3>1. CASE active # << >>
      <4>1. active \in Seq(Line)
        BY StateTypes DEF FilesInOrder
      <4>2. Len(active) \in DOMAIN active
        BY <3>1, <4>1, EmptySeq, LenProperties
      <4>3. Last(active).nl
        BY <4>2 DEF FilesInOrder, HonestInv, ActiveLinks, Last
      <4> QED BY <2>2, <4>3 DEF AppendLine
    <3>2. CASE active = << >>
      BY <2>2, <3>2 DEF AppendLine
    <3> QED BY <3>1, <3>2
  <2>8. Scannable(front)
    BY <2>1, <2>3, <2>4 DEF Scannable, Harmless
  <2>9. InLog(front.rec)
    BY <2>1, <2>3, <2>4 DEF InLog, OnTheWay
  <2>10. Spans(active, Len(Base(n)), Len(DiskHead), Len(DiskHead)) /\ Len(Base(n)) <= Len(DiskHead)
    BY <1>1, <2>5, <2>6
  <2>11. Spans(Append(active, front), Len(Base(n)), Len(DiskHead), Len(DiskHead) + 1)
    BY <1>1, <2>3, <2>4, <2>8, <2>9, <2>10, AppendHolds
  <2> QED BY <2>6, <2>7, <2>11
<1> QED BY <1>2, <1>3

-----------------------------------------------------------------------------
(* How far the pages of a query have come *)

\* The numbers that the pages have gone by.
GoneBy(at, q, n) ==
  IF at \in PageSteps
    THEN \/ n < q.resume
         \/ at \in {"openLast", "readLast"} /\ n < Len(Base(Len(q.listed) + 1))
    ELSE q.next = NoToken \/ n < q.next

\* What a query has is in order and matches, and it has gone by all of that; what it
\* lists is a part of the manifest, and the file it opened comes after that part.
PageOK(at, q) ==
  /\ Sorted(q.got, Earlier)
  /\ \A x \in Range(q.got) : x.event \in q.filter /\ GoneBy(at, q, x.seq)
  /\ at \in PageSteps => q.next = NoToken
  /\ at \in {"listed", "openLast", "readLast"} => Stands(q.listed)
  /\ at = "readLast" => q.fd \in (Len(q.listed) + 1)..NextSegment

PagesInv == \A r \in Reader : PageOK(rpc[r], job[r])

\* The files only grow: what stood in the manifest stands, and starts where it did.
LEMMA FilesGrow ==
  ASSUME FilesInOrder, [Next]_vars
  PROVE  /\ \A listed \in Seq(Entry) : Stands(listed) =>
              Stands(listed)' /\ Base(Len(listed) + 1)' = Base(Len(listed) + 1)
         /\ NextSegment \in Nat /\ NextSegment' \in Nat /\ NextSegment <= NextSegment'
<1>1. /\ segs \in Seq(Seq(Line)) /\ active \in Seq(Line) /\ manifest \in Seq(Entry)
      /\ Len(segs) \in Nat /\ Len(manifest) \in Nat
  BY StateTypes DEF FilesInOrder
<1>2. Inv'
  BY InvStep DEF FilesInOrder
<1>3. /\ manifest' \in Seq(Entry) /\ segs' \in Seq(Seq(Line))
      /\ Len(manifest') \in Nat /\ Len(segs') \in Nat
  BY <1>2, LenProperties DEF Inv, TypeOK, DiskTypeOK
<1>4. Len(segs) <= Len(segs')
  <2>1. segs' = segs \/ segs' = Append(segs, active)
    BY SegmentSteps DEF FilesInOrder
  <2>2. Len(Append(segs, active)) = Len(segs) + 1
    BY <1>1, AppendProperties
  <2> QED BY <1>1, <2>1, <2>2
<1>5. NextSegment = Len(segs) + 1 /\ NextSegment' = Len(segs') + 1
  BY <1>1, <1>3, HighestIsLen DEF NextSegment
<1>6. Len(manifest) <= Len(manifest') /\ \A i \in 1..Len(manifest) : manifest[i] = manifest'[i]
  <2>1. IsPrefix(manifest, manifest')
    BY SealedStep DEF FilesInOrder
  <2> QED BY <1>1, <1>3, <2>1, PrefixAt
<1>7. ASSUME NEW listed \in Seq(Entry), Stands(listed)
      PROVE  Stands(listed)' /\ Base(Len(listed) + 1)' = Base(Len(listed) + 1)
  <2>1. PICK m \in Nat : m = Len(listed)
    BY LenProperties
  <2>2. m <= Len(manifest) /\ m <= Len(manifest') /\ \A i \in 1..m : i \in 1..Len(manifest)
    BY <1>1, <1>3, <1>6, <1>7, <2>1 DEF Stands
  <2>3. Stands(listed)'
    BY <1>6, <1>7, <2>1, <2>2 DEF Stands
  <2>4. m + 1 \in 1..(Len(manifest) + 1) /\ m + 1 \in 1..(Len(manifest') + 1)
    BY <1>1, <1>3, <2>2
  <2>5. CASE m = 0
    <3>1. Len(listed) + 1 = 1
      BY <2>1, <2>5
    <3>2. 1 \in 1..(Len(manifest) + 1) /\ 1 \in 1..(Len(manifest') + 1)
      BY <1>1, <1>3
    <3> QED BY <2>3, <3>1, <3>2 DEF Base, CarriedPrev
  <2>6. CASE m # 0
    <3>1. m \in 1..m /\ (m + 1) - 1 = m /\ m + 1 # 1
      BY <2>6
    <3>2. manifest[m] = manifest'[m] /\ Disk.manifest = manifest /\ Disk'.manifest = manifest'
      BY <1>6, <2>2, <3>1 DEF Disk
    <3> QED BY <2>1, <2>3, <2>4, <3>1, <3>2 DEF Base, CarriedPrev
  <2> QED BY <2>3, <2>5, <2>6
<1> QED BY <1>1, <1>3, <1>4, <1>5, <1>7

LEMMA PageStays ==
  ASSUME FilesInOrder, [Next]_vars, NEW at, NEW q \in Job, PageOK(at, q)
  PROVE  PageOK(at, q)'
<1>1. q.listed \in Seq(Entry) /\ Len(q.listed) \in Nat /\ q.fd \in Nat
  BY LenProperties DEF Job
<1>2. at \in {"listed", "openLast", "readLast"} =>
        Stands(q.listed)' /\ Base(Len(q.listed) + 1)' = Base(Len(q.listed) + 1)
  BY <1>1, FilesGrow DEF PageOK
<1>3. \A n : GoneBy(at, q, n)' <=> GoneBy(at, q, n)
  BY <1>2 DEF GoneBy
<1>4. at = "readLast" => q.fd \in (Len(q.listed) + 1)..NextSegment'
  <2>1. NextSegment \in Nat /\ NextSegment' \in Nat /\ NextSegment <= NextSegment'
    BY FilesGrow
  <2> QED BY <1>1, <2>1 DEF PageOK
<1> QED BY <1>2, <1>3, <1>4 DEF PageOK

\* What a page takes of a file: the matches up to the token, and a token for a match.
Takes(q, lines, page) ==
  /\ page.op = q.op /\ page.filter = q.filter /\ page.since = q.since
  /\ page.resume = q.resume /\ page.listed = q.listed
  /\ Range(q.got) \subseteq Range(page.got)
  /\ \A x \in Range(page.got) :
       /\ x.event \in q.filter /\ (page.next = NoToken \/ x.seq < page.next)
       /\ \/ x \in Range(q.got)
          \/ \E line \in Range(lines) : StartsWithRecord(line) /\ x = line.rec
  /\ \A line \in Range(lines) :
       Matches(q, line) /\ (page.next = NoToken \/ line.rec.seq < page.next) =>
         line.rec \in Range(page.got)
  /\ page.next # NoToken =>
       \E line \in Range(lines) : Matches(q, line) /\ line.rec.seq >= page.next

\* A page that takes what the next file has, when it has gone by all that comes before.
LEMMA PageTaken ==
  ASSUME NEW q \in Job, HasRoom(q), Sorted(q.got, Earlier),
         NEW p \in Nat, NEW u, NEW z, NEW lines, Spans(lines, p, u, z),
         \A x \in Range(q.got) : x.event \in q.filter /\ (x.seq < q.resume \/ x.seq < p)
  PROVE  LET page == Collect(q, lines) IN
         page \in Job /\ Sorted(page.got, Earlier) /\ Takes(q, lines, page)
<1> DEFINE hits == Found(q, lines)
           page == Collect(q, lines)
<1>1. lines \in Seq(Line) /\ Sorted(lines, EarlierLine)
  BY DEF Spans
<1>2. Range(hits) = {lines[i].rec : i \in {k \in 1..Len(lines) : Matches(q, lines[k])}}
  BY <1>1, FoundIs
<1>3. DOMAIN lines = 1..Len(lines)
  BY <1>1, LenProperties
<1>4. \A x \in Range(hits) : \E line \in Range(lines) : Matches(q, line) /\ x = line.rec
  BY <1>2, <1>3 DEF Range
<1>5. \A line \in Range(lines) : Matches(q, line) => line.rec \in Range(hits)
  BY <1>2, <1>3 DEF Range
<1>6. \A x \in Range(q.got), y \in Range(hits) : x.seq < y.seq
  <2> SUFFICES ASSUME NEW x \in Range(q.got), NEW y \in Range(hits)
               PROVE  x.seq < y.seq
    OBVIOUS
  <2>1. PICK line \in Range(lines) : Matches(q, line) /\ y = line.rec
    BY <1>4
  <2>2. y.seq >= q.resume /\ y.seq \in p..(z - 1)
    BY <2>1 DEF Matches, Spans
  <2>3. x \in Record
    BY SeqRange DEF Job
  <2>4. x.seq \in Nat /\ q.resume \in Nat /\ y.seq \in Nat /\ y.seq >= p
    <3>1. line \in Line
      BY <1>1, SeqRange
    <3>2. y \in Record
      BY <2>1, <3>1 DEF Line
    <3> QED BY <2>2, <2>3, <3>2 DEF Record, Job
  <2>5. x.seq < q.resume \/ x.seq < p
    OBVIOUS
  <2> QED BY <2>2, <2>4, <2>5
<1>7. /\ Sorted(page.got, Earlier)
      /\ Range(q.got) \subseteq Range(page.got)
      /\ Range(page.got) \subseteq Range(q.got) \cup Range(hits)
      /\ page.next = NoToken => Range(hits) \subseteq Range(page.got)
      /\ page.next # NoToken =>
           /\ \A x \in Range(page.got) : x.seq < page.next
           /\ \E x \in Range(hits) : x.seq >= page.next
           /\ \A x \in Range(hits) : x.seq < page.next => x \in Range(page.got)
  BY <1>1, <1>6, CollectOrder
<1>8. /\ page \in Job
      /\ page = [q EXCEPT !.got = page.got, !.room = page.room, !.next = page.next]
  BY <1>1, CollectType, CollectTakes
<1> HIDE DEF hits, page
<1>9. /\ page.op = q.op /\ page.filter = q.filter /\ page.since = q.since
      /\ page.resume = q.resume /\ page.listed = q.listed
  BY <1>8 DEF Job
<1>10. ASSUME NEW x \in Range(page.got)
       PROVE  /\ x.event \in q.filter /\ (page.next = NoToken \/ x.seq < page.next)
              /\ \/ x \in Range(q.got)
                 \/ \E line \in Range(lines) : StartsWithRecord(line) /\ x = line.rec
  <2>1. CASE x \in Range(q.got)
    BY <1>7, <2>1
  <2>2. CASE x \in Range(hits)
    BY <1>4, <1>7, <2>2 DEF Matches
  <2> QED BY <1>7, <2>1, <2>2
<1>11. ASSUME NEW line \in Range(lines), Matches(q, line),
              page.next = NoToken \/ line.rec.seq < page.next
       PROVE  line.rec \in Range(page.got)
  BY <1>5, <1>7, <1>11
<1>12. ASSUME page.next # NoToken
       PROVE  \E line \in Range(lines) : Matches(q, line) /\ line.rec.seq >= page.next
  BY <1>4, <1>7, <1>12
<1>13. Takes(q, lines, page)
  BY <1>7, <1>9, <1>10, <1>11, <1>12 DEF Takes
<1> QED BY <1>7, <1>8, <1>13 DEF page

\* It is enough to look at a reader as the step leaves it.
LEMMA PagesAt ==
  ASSUME NEW r \in Reader, NEW at, NEW q, rpc'[r] = at, job'[r] = q, PageOK(at, q)'
  PROVE  PageOK(rpc[r], job[r])'
BY DEF PageOK, GoneBy, Stands, Base, CarriedPrev, Disk

\* A step of one reader: what it has, it has of the files as they are.
LEMMA PagesGoOn ==
  ASSUME FilesInOrder, ReadersInv, PagesInv, UNCHANGED vars, NEW r \in Reader,
         NEW from, NEW to, NEW STATE locals, locals \in Job,
         ReaderGoes(r, from, to, locals), PageOK(to, locals)
  PROVE  PagesInv'
<1>1. PICK q \in Job : q = locals
  OBVIOUS
<1>2. rpc'[r] = to /\ job'[r] = q
  BY <1>1 DEF ReaderGoes, ReadersInv, ReadersTypeOK
<1>3. PageOK(to, q)'
  <2>1. PageOK(to, q)
    BY <1>1
  <2> QED BY <2>1, PageStays
<1>4. ASSUME NEW o \in Reader, o # r
      PROVE  PageOK(rpc[o], job[o])'
  <2>1. PICK at \in Locations : at = rpc[o]
    BY DEF ReadersInv, ReadersTypeOK
  <2>2. PICK p \in Job : p = job[o]
    BY DEF ReadersInv, ReadersTypeOK
  <2>3. rpc'[o] = at /\ job'[o] = p
    BY <1>4, <2>1, <2>2 DEF ReaderGoes, ReadersInv, ReadersTypeOK
  <2>4. PageOK(at, p)
    BY <2>1, <2>2 DEF PagesInv
  <2>5. PageOK(at, p)'
    BY <2>4, PageStays
  <2> QED BY <2>3, <2>5, PagesAt
<1>5. PageOK(rpc[r], job[r])'
  BY <1>2, <1>3, PagesAt
<1> QED BY <1>4, <1>5 DEF PagesInv

\* The daemon moves, or nobody does.
LEMMA PagesRest ==
  ASSUME FilesInOrder, ReadersInv, PagesInv, [Next]_vars, UNCHANGED <<rpc, job>>
  PROVE  PagesInv'
<1> SUFFICES ASSUME NEW o \in Reader
             PROVE  PageOK(rpc[o], job[o])'
  BY DEF PagesInv
<1>1. PICK at \in Locations : at = rpc[o]
  BY DEF ReadersInv, ReadersTypeOK
<1>2. PICK p \in Job : p = job[o]
  BY DEF ReadersInv, ReadersTypeOK
<1>3. PageOK(at, p)'
  <2>1. PageOK(at, p)
    BY <1>1, <1>2 DEF PagesInv
  <2> QED BY <2>1, PageStays
<1> QED BY <1>1, <1>2, <1>3, PagesAt

\* Outside a page nothing but what was returned counts.
LEMMA PageKept ==
  ASSUME NEW q \in Job, NEW p \in Job, NEW at, NEW to, PageOK(at, q), at \notin PageSteps,
         to \notin PageSteps, p.got = q.got, p.filter = q.filter, p.next = q.next
  PROVE  PageOK(to, p)
<1>1. to \notin {"listed", "openLast", "readLast"} /\ to # "readLast"
  BY DEF PageSteps
<1>2. \A n : GoneBy(at, q, n) => GoneBy(to, p, n)
  BY DEF GoneBy
<1> QED BY <1>1, <1>2 DEF PageOK

LEMMA NothingYet ==
  ASSUME NEW q \in Job, q.got = << >>, q.next = NoToken,
         NEW to, to \notin {"listed", "openLast", "readLast"}
  PROVE  PageOK(to, q)
<1>1. Range(q.got) = {} /\ DOMAIN q.got = {}
  <2>1. << >> \in Seq(Record) /\ DOMAIN << >> = {}
    BY EmptySeq
  <2> QED BY <2>1, EmptyRange
<1>2. Sorted(q.got, Earlier)
  BY <1>1 DEF Sorted
<1>3. to # "readLast"
  OBVIOUS
<1> QED BY <1>1, <1>2, <1>3 DEF PageOK

\* What a query finds in the listed segments: all of them, from the first record on.
LEMMA ListedScanned ==
  ASSUME FilesInOrder, ReadersInv, PagesInv, NEW r \in Reader, rpc[r] = "listed"
  PROVE  LET B == Len(Base(AfterListed(r))) IN
         /\ \A i \in DOMAIN job[r].listed : job[r].listed[i].segment \in DOMAIN segs
         /\ B \in Nat /\ Spans(Listed(r), 0, B, B)
         /\ \A x \in Range(job[r].got) : x.event \in job[r].filter /\ x.seq < job[r].resume
<1>1. PageOK("listed", job[r]) /\ job[r].listed \in Seq(Entry)
  BY DEF PagesInv, ReadersInv, ReadersTypeOK, Job
<1>2. Stands(job[r].listed)
  BY <1>1 DEF PageOK
<1>3. AfterListed(r) \in 1..(Len(manifest) + 1)
  BY <1>1, <1>2, ListedHolds
<1>4. Len(Base(AfterListed(r))) \in Nat
  <2>1. Len(manifest) \in Nat
    BY Layout
  <2>2. AfterListed(r) \in 1..(Len(manifest) + 2)
    BY <1>3, <2>1
  <2> QED BY <2>2, BasesGrow
<1>5. \A x \in Range(job[r].got) : x.event \in job[r].filter /\ x.seq < job[r].resume
  BY <1>1 DEF PageOK, GoneBy, PageSteps
<1> QED BY <1>1, <1>2, <1>4, <1>5, ListedHolds

\* What a query finds in the file it opened last, the line being written included.
LEMMA ActiveScanned ==
  ASSUME Harmless, FilesInOrder, ReadersInv, PagesInv, NEW r \in Reader, rpc[r] = "readLast",
         NEW lines \in ReadsOf(job[r].fd)
  PROVE  LET n == job[r].fd
             p == Len(Base(n))
         IN /\ n \in AfterListed(r)..NextSegment /\ n \in 1..NextSegment
            /\ p \in Nat /\ Len(Base(n + 1)) \in Nat /\ Len(DiskHead) \in Nat
            /\ Len(Base(AfterListed(r))) \in Nat /\ Len(Base(AfterListed(r))) <= p
            /\ Len(Base(n + 1)) <= Len(DiskHead)
            /\ Spans(lines, p, Len(Base(n + 1)), Len(DiskHead) + 1)
            /\ \A x \in Range(job[r].got) :
                 x.event \in job[r].filter /\ (x.seq < job[r].resume \/ x.seq < p)
<1>1. PICK n \in Nat : n = job[r].fd
  BY DEF ReadersInv, ReadersTypeOK, Job
<1>2. PICK m \in Nat : m = AfterListed(r) /\ m >= 1
  <2>1. Len(job[r].listed) \in Nat
    BY LenProperties DEF ReadersInv, ReadersTypeOK, Job
  <2> QED BY <2>1 DEF AfterListed
<1>3. PageOK("readLast", job[r])
  BY DEF PagesInv
<1>4. n \in m..NextSegment /\ NextSegment \in Nat
  <2>1. n \in m..NextSegment
    BY <1>1, <1>2, <1>3 DEF PageOK, AfterListed
  <2> QED BY <2>1, Layout
<1>5. n \in 1..NextSegment /\ n \in 1..(Len(manifest) + 2) /\ m \in 1..n
  BY <1>2, <1>4, Layout
<1>6. /\ Len(Base(n)) \in Nat /\ Len(Base(m)) <= Len(Base(n)) /\ Len(DiskHead) \in Nat
      /\ Base(m) \in Hash
  <2>1. m \in 1..(Len(manifest) + 2)
    BY <1>5, Layout
  <2> QED BY <1>5, <2>1, BasesGrow
<1>7. Len(Base(m)) \in Nat
  BY <1>6, LenProperties DEF Hash
<1>8. Len(Base(n + 1)) \in Nat /\ Len(Base(n + 1)) <= Len(DiskHead)
  BY <1>5, InodeHolds
<1>9. Spans(lines, Len(Base(n)), Len(Base(n + 1)), Len(DiskHead) + 1)
  BY <1>1, <1>5, ReadHolds
<1>10. ASSUME NEW x \in Range(job[r].got)
       PROVE  x.event \in job[r].filter /\ (x.seq < job[r].resume \/ x.seq < Len(Base(n)))
  <2>1. x.event \in job[r].filter /\ (x.seq < job[r].resume \/ x.seq < Len(Base(m)))
    BY <1>2, <1>3 DEF PageOK, GoneBy, PageSteps, AfterListed
  <2>2. x.seq \in Nat
    <3>1. x \in Record
      BY SeqRange DEF ReadersInv, ReadersTypeOK, Job
    <3> QED BY <3>1 DEF Record
  <2> QED BY <1>6, <1>7, <2>1, <2>2
<1> QED BY <1>1, <1>2, <1>4, <1>5, <1>6, <1>7, <1>8, <1>9, <1>10

\* One file of the scan, whichever it is.
LEMMA FileScanned ==
  ASSUME FilesInOrder, ReadersInv, PagesInv, NEW r \in Reader,
         NEW from, from \in {"listed", "readLast"}, NEW to, NEW lines,
         ScanFile(r, from, to, lines), NEW p \in Nat, NEW u, NEW z \in Nat, Spans(lines, p, u, z),
         to = "load" \/ (from = "listed" /\ to = "openLast" /\ z = Len(Base(AfterListed(r)))),
         \A x \in Range(job[r].got) :
           x.event \in job[r].filter /\ (x.seq < job[r].resume \/ x.seq < p)
  PROVE  \E page \in Job :
           LET dest == IF page.next # NoToken THEN "load" ELSE to IN
           ReaderGoes(r, from, dest, page) /\ Takes(job[r], lines, page) /\ PageOK(dest, page)
<1>1. PICK q \in Job : q = job[r]
  BY DEF ReadersInv, ReadersTypeOK
<1>2. from \in PageSteps /\ rpc[r] = from /\ PageOK(from, q) /\ HasRoom(q)
  BY <1>1 DEF ScanFile, ReaderGoes, PagesInv, ReadersInv, PageSteps
<1> DEFINE page == Collect(q, lines)
<1>3. page \in Job /\ Sorted(page.got, Earlier) /\ Takes(q, lines, page)
  <2>1. Sorted(q.got, Earlier)
    BY <1>2 DEF PageOK
  <2>2. \A x \in Range(q.got) : x.event \in q.filter /\ (x.seq < q.resume \/ x.seq < p)
    BY <1>1
  <2> QED BY <1>2, <2>1, <2>2, PageTaken
<1> HIDE DEF page
<1>4. /\ page.filter = q.filter /\ page.resume = q.resume /\ page.listed = q.listed
      /\ \A x \in Range(page.got) :
           /\ x.event \in q.filter /\ (page.next = NoToken \/ x.seq < page.next)
           /\ x \in Range(q.got) \/ \E line \in Range(lines) : x = line.rec
  BY <1>3 DEF Takes
<1>5. ~ScanFails(q, lines)
  <2>1. lines \in Seq(Line) /\ \A line \in Range(lines) : Scannable(line)
    BY DEF Spans
  <2> QED BY <2>1 DEF ScanFails, Range
<1>6. ReaderGoes(r, from, IF page.next # NoToken THEN "load" ELSE to, page)
  BY <1>1, <1>5 DEF ScanFile, page
<1>7. PageOK("load", page)
  <2>1. \A x \in Range(page.got) : GoneBy("load", page, x.seq)
    BY <1>4 DEF GoneBy, PageSteps
  <2> QED BY <1>3, <1>4, <2>1 DEF PageOK, PageSteps
<1>8. ASSUME from = "listed", to = "openLast", z = Len(Base(AfterListed(r))),
             page.next = NoToken
      PROVE  PageOK("openLast", page)
  <2>1. z = Len(Base(Len(page.listed) + 1))
    BY <1>1, <1>4, <1>8 DEF AfterListed
  <2>2. ASSUME NEW x \in Range(page.got)
        PROVE  GoneBy("openLast", page, x.seq)
    <3>1. CASE x \in Range(q.got)
      <4>1. x.seq < q.resume
        BY <1>2, <1>8, <3>1 DEF PageOK, GoneBy, PageSteps
      <4> QED BY <1>4, <4>1 DEF GoneBy, PageSteps
    <3>2. ASSUME NEW line \in Range(lines), x = line.rec
          PROVE  GoneBy("openLast", page, x.seq)
      <4>1. x.seq < z
        BY <3>2 DEF Spans
      <4> QED BY <2>1, <4>1 DEF GoneBy, PageSteps
    <3> QED BY <1>4, <3>1, <3>2
  <2>3. Stands(page.listed)
    BY <1>2, <1>4, <1>8 DEF PageOK
  <2> QED BY <1>3, <1>4, <1>8, <2>2, <2>3 DEF PageOK
<1>9. Takes(job[r], lines, page)
  BY <1>1, <1>3
<1> QED BY <1>3, <1>6, <1>7, <1>8, <1>9

\* A step of the verifier.
LEMMA WalkKeepsPages ==
  ASSUME FilesInOrder, ReadersInv, PagesInv, UNCHANGED vars, NEW r \in Reader,
         LoadManifest(r) \/ ScanSegments(r) \/ OpenActive(r) \/ ReadActive(r)
  PROVE  PagesInv'
<1>1. PICK from \in {"load", "scan", "open", "read"}, to \in {"scan", "open", "read", "done"},
           p \in Job : ReaderGoes(r, from, to, p) /\ SamePage(p, job[r])
  BY WalkGoes DEF FilesInOrder, ReadersInv
<1>2. PICK q \in Job : q = job[r]
  BY DEF ReadersInv, ReadersTypeOK
<1>3. PageOK(from, q) /\ from \notin PageSteps /\ to \notin PageSteps
  BY <1>1, <1>2 DEF ReaderGoes, PagesInv, PageSteps
<1>4. PageOK(to, p)
  BY <1>1, <1>2, <1>3, PageKept DEF SamePage
<1> QED BY <1>1, <1>4, PagesGoOn

\* A step of a query, or the end of a call.
LEMMA QueryKeepsPages ==
  ASSUME Harmless, FilesInOrder, ReadersInv, PagesInv, UNCHANGED vars, NEW r \in Reader,
         \/ QueryPaths(r) \/ QueryListed(r) \/ QueryOpenActive(r) \/ QueryActive(r)
         \/ NextPage(r) \/ Leave(r)
  PROVE  PagesInv'
<1>1. PICK q \in Job : q = job[r]
  BY DEF ReadersInv, ReadersTypeOK
<1>2. PageOK(rpc[r], q)
  BY <1>1 DEF PagesInv
<1>3. /\ manifest \in Seq(Entry) /\ hasManifest \in BOOLEAN
      /\ Stands(manifest) /\ Len(manifest) \in Nat
  BY LenProperties DEF FilesInOrder, Inv, TypeOK, DiskTypeOK, Stands
<1>4. CASE QueryPaths(r)
  <2> DEFINE p == [q EXCEPT !.known = hasManifest, !.listed = manifest]
  <2>1. p \in Job
    BY <1>3, JobFields
  <2>2. /\ p.listed = manifest /\ p.got = q.got /\ p.filter = q.filter /\ p.next = q.next
        /\ p.resume = q.resume
    BY DEF Job
  <2>3. rpc[r] = "paths" /\ ReaderGoes(r, "paths", "listed", p)
    BY <1>1, <1>4 DEF QueryPaths, ReaderGoes
  <2> HIDE DEF p
  <2>4. \A n : GoneBy("paths", q, n) => GoneBy("listed", p, n)
    BY <2>2 DEF GoneBy, PageSteps
  <2>5. PageOK("listed", p)
    BY <1>2, <1>3, <2>2, <2>3, <2>4 DEF PageOK, PageSteps
  <2> QED BY <2>1, <2>3, <2>5, PagesGoOn
<1>5. CASE QueryListed(r)
  <2> DEFINE B == Len(Base(AfterListed(r)))
  <2>1. rpc[r] = "listed"
    BY <1>5 DEF QueryListed, ScanFile, ReaderGoes
  <2>2. /\ B \in Nat /\ Spans(Listed(r), 0, B, B) /\ ScanFile(r, "listed", "openLast", Listed(r))
        /\ \A x \in Range(job[r].got) : x.event \in job[r].filter /\ x.seq < job[r].resume
    BY <1>5, <2>1, ListedScanned DEF QueryListed
  <2>3. PICK lines : lines = Listed(r)
    OBVIOUS
  <2>4. PICK page \in Job :
          LET dest == IF page.next # NoToken THEN "load" ELSE "openLast" IN
          ReaderGoes(r, "listed", dest, page) /\ PageOK(dest, page)
    BY <2>2, <2>3, FileScanned
  <2> QED BY <2>4, PagesGoOn
<1>6. CASE QueryOpenActive(r)
  <2>1. rpc[r] = "openLast" /\ PageOK("openLast", q)
    BY <1>2, <1>6 DEF QueryOpenActive, ReaderGoes
  <2>2. CASE ReaderGoes(r, "openLast", "readLast", [q EXCEPT !.fd = OpenedActive])
    <3> DEFINE p == [q EXCEPT !.fd = OpenedActive]
    <3>1. NextSegment \in Nat /\ Len(q.listed) \in Nat /\ Len(q.listed) + 1 <= NextSegment
      BY <2>1, Layout, LenProperties DEF PageOK, Stands, Job
    <3>2. p \in Job
      BY <3>1, JobFields DEF OpenedActive
    <3>3. /\ p.listed = q.listed /\ p.got = q.got /\ p.filter = q.filter /\ p.next = q.next
          /\ p.resume = q.resume /\ p.fd = NextSegment
      BY DEF Job, OpenedActive
    <3>4. ReaderGoes(r, "openLast", "readLast", p)
      BY <2>2
    <3> HIDE DEF p
    <3>5. \A n : GoneBy("openLast", q, n) => GoneBy("readLast", p, n)
      BY <3>3 DEF GoneBy, PageSteps
    <3>6. PageOK("readLast", p)
      BY <2>1, <3>1, <3>3, <3>5 DEF PageOK, PageSteps
    <3> QED BY <3>2, <3>4, <3>6, PagesGoOn
  <2>3. CASE ReaderGoes(r, "openLast", "failed", q)
    <3>1. q.next = NoToken
      BY <2>1 DEF PageOK, PageSteps
    <3>2. \A n : GoneBy("failed", q, n)
      BY <3>1 DEF GoneBy, PageSteps
    <3>3. PageOK("failed", q)
      BY <2>1, <3>2 DEF PageOK, PageSteps
    <3> QED BY <2>3, <3>3, PagesGoOn
  <2> QED BY <1>1, <1>6, <2>2, <2>3 DEF QueryOpenActive
<1>7. CASE QueryActive(r)
  <2>1. rpc[r] = "readLast"
    BY <1>7 DEF QueryActive, ScanFile, ReaderGoes
  <2>2. PICK lines \in ReadsOf(job[r].fd) : ScanFile(r, "readLast", "load", lines)
    BY <1>7 DEF QueryActive
  <2> DEFINE p == Len(Base(job[r].fd))
             z == Len(DiskHead) + 1
  <2>3. /\ p \in Nat /\ z \in Nat /\ Spans(lines, p, Len(Base(job[r].fd + 1)), z)
        /\ \A x \in Range(job[r].got) :
             x.event \in job[r].filter /\ (x.seq < job[r].resume \/ x.seq < p)
    <3>1. Len(DiskHead) \in Nat /\ p \in Nat /\ Spans(lines, p, Len(Base(job[r].fd + 1)), z)
      BY <2>1, ActiveScanned
    <3>2. \A x \in Range(job[r].got) :
            x.event \in job[r].filter /\ (x.seq < job[r].resume \/ x.seq < p)
      BY <2>1, ActiveScanned
    <3> QED BY <3>1, <3>2
  <2> HIDE DEF p, z
  <2>4. PICK page \in Job : ReaderGoes(r, "readLast", "load", page) /\ PageOK("load", page)
    BY <2>2, <2>3, FileScanned
  <2> QED BY <2>4, PagesGoOn
<1>8. CASE NextPage(r)
  <2> DEFINE p == [q EXCEPT !.resume = q.next, !.next = NoToken, !.room = PageLimit]
  <2>1. rpc[r] = "done" /\ q.next # NoToken /\ ReaderGoes(r, "done", "paths", p)
    BY <1>1, <1>8 DEF NextPage, ReaderGoes
  <2>2. p \in Job
    BY <2>1, JobFields, ReaderAssumption DEF Job
  <2>3. p.got = q.got /\ p.filter = q.filter /\ p.next = NoToken /\ p.resume = q.next
    BY DEF Job
  <2> HIDE DEF p
  <2>4. \A n : GoneBy("done", q, n) => GoneBy("paths", p, n)
    BY <2>1, <2>3 DEF GoneBy, PageSteps
  <2>5. PageOK("paths", p)
    BY <1>2, <2>1, <2>3, <2>4 DEF PageOK, PageSteps
  <2> QED BY <2>1, <2>2, <2>5, PagesGoOn
<1>9. CASE Leave(r)
  <2>1. PICK from \in {"done", "failed"} : ReaderGoes(r, from, "idle", NoJob)
    BY <1>9 DEF Leave
  <2>2. PageOK("idle", NoJob)
    <3>1. PICK p \in Job : p = NoJob
      BY NoJobType
    <3>2. p.got = << >> /\ p.next = NoToken
      BY <3>1 DEF NoJob
    <3> QED BY <3>1, <3>2, NothingYet
  <2> QED BY <2>1, <2>2, NoJobType, PagesGoOn
<1> QED BY <1>4, <1>5, <1>6, <1>7, <1>8, <1>9

LEMMA CallKeepsPages ==
  ASSUME FilesInOrder, ReadersInv, PagesInv, UNCHANGED vars, NEW r \in Reader, ReaderCall(r)
  PROVE  PagesInv'
<1>1. prevHash \in Hash /\ signed \subseteq Checkpoint
  BY DEF FilesInOrder, Inv, TypeOK
<1>2. ASSUME NEW cp \in signed, CompareCall(r, cp)
      PROVE  PagesInv'
  <2>1. PICK p \in Job : p = [NoJob EXCEPT !.op = "compare", !.cp = cp, !.since = prevHash]
    BY <1>1, CallTypes
  <2>2. p.got = << >> /\ p.next = NoToken
    BY <2>1 DEF NoJob
  <2> QED BY <1>2, <2>1, <2>2, NothingYet, PagesGoOn DEF CompareCall
<1>3. ASSUME NEW f \in SUBSET Event, QueryCall(r, f)
      PROVE  PagesInv'
  <2>1. PICK p \in Job : p = [NoJob EXCEPT !.op = "query", !.filter = f, !.room = PageLimit,
                                           !.since = prevHash]
    BY <1>1, CallTypes
  <2>2. p.got = << >> /\ p.next = NoToken
    BY <2>1 DEF NoJob
  <2> QED BY <1>3, <2>1, <2>2, NothingYet, PagesGoOn DEF QueryCall
<1> QED BY <1>2, <1>3 DEF ReaderCall

LEMMA PagesInvStep ==
  ASSUME Harmless, FilesInOrder, ReadersInv, PagesInv, [ReadersNext]_<<vars, readers>>
  PROVE  PagesInv'
<1>1. CASE UNCHANGED <<rpc, job>>
  BY <1>1, ReadersNextIsNext, PagesRest
<1>2. ASSUME NEW r \in Reader, ReaderCall(r) \/ ReaderStep(r), UNCHANGED vars
      PROVE  PagesInv'
  BY <1>2, CallKeepsPages, WalkKeepsPages, QueryKeepsPages DEF ReaderStep
<1> QED BY <1>1, <1>2 DEF ReadersNext, readers

\* What a reader has after its next step, it had before or finds in a file.
LEMMA GotFromFiles ==
  ASSUME Harmless, FilesInOrder, ReadersInv, PagesInv, NEW r \in Reader,
         ReaderCall(r) \/ ReaderStep(r)
  PROVE  \A o \in Reader : \A x \in Range(job'[o].got) : x \in Range(job[o].got) \/ InLog(x)
<1>1. PICK q \in Job : q = job[r]
  BY DEF ReadersInv, ReadersTypeOK
<1>2. ASSUME NEW from, NEW to, NEW p \in Job, ReaderGoes(r, from, to, p),
             \A x \in Range(p.got) : x \in Range(q.got) \/ InLog(x)
      PROVE  \A o \in Reader : \A x \in Range(job'[o].got) : x \in Range(job[o].got) \/ InLog(x)
  BY <1>1, <1>2 DEF ReaderGoes, ReadersInv, ReadersTypeOK
<1>3. ASSUME NEW from, NEW to, NEW p \in Job, ReaderGoes(r, from, to, p),
             p.got = q.got \/ p.got = << >>
      PROVE  \A o \in Reader : \A x \in Range(job'[o].got) : x \in Range(job[o].got) \/ InLog(x)
  <2>1. << >> \in Seq(Record)
    BY EmptySeq
  <2>2. Range(<< >>) = {}
    BY <2>1, EmptyRange
  <2> QED BY <1>2, <1>3, <2>2
<1>4. CASE ReaderCall(r)
  <2>1. prevHash \in Hash /\ signed \subseteq Checkpoint
    BY DEF FilesInOrder, Inv, TypeOK
  <2>2. ASSUME NEW cp \in signed, CompareCall(r, cp)
        PROVE  \E p \in Job : ReaderGoes(r, "idle", "load", p) /\ p.got = << >>
    BY <2>1, <2>2, CallTypes DEF CompareCall, NoJob
  <2>3. ASSUME NEW f \in SUBSET Event, QueryCall(r, f)
        PROVE  \E p \in Job : ReaderGoes(r, "idle", "paths", p) /\ p.got = << >>
    BY <2>1, <2>3, CallTypes DEF QueryCall, NoJob
  <2> QED BY <1>3, <1>4, <2>2, <2>3 DEF ReaderCall
<1>5. CASE LoadManifest(r) \/ ScanSegments(r) \/ OpenActive(r) \/ ReadActive(r)
  <2>1. PICK from \in {"load", "scan", "open", "read"}, to \in {"scan", "open", "read", "done"},
             p \in Job : ReaderGoes(r, from, to, p) /\ SamePage(p, job[r])
    BY <1>5, WalkGoes DEF FilesInOrder, ReadersInv
  <2> QED BY <1>1, <1>3, <2>1 DEF SamePage
<1>6. CASE QueryListed(r)
  <2>1. rpc[r] = "listed"
    BY <1>6 DEF QueryListed, ScanFile, ReaderGoes
  <2>2. PICK lines : lines = Listed(r)
    OBVIOUS
  <2>3. PICK B \in Nat : B = Len(Base(AfterListed(r)))
    BY <2>1, ListedScanned
  <2>4. /\ Spans(lines, 0, B, B) /\ ScanFile(r, "listed", "openLast", lines)
        /\ \A x \in Range(job[r].got) : x.event \in job[r].filter /\ x.seq < job[r].resume
    BY <1>6, <2>1, <2>2, <2>3, ListedScanned DEF QueryListed
  <2>5. PICK page \in Job, dest \in {"load", "openLast"} :
          ReaderGoes(r, "listed", dest, page) /\ Takes(q, lines, page)
    BY <1>1, <2>3, <2>4, FileScanned
  <2>6. \A x \in Range(page.got) : x \in Range(q.got) \/ InLog(x)
    BY <2>4, <2>5 DEF Takes, Spans
  <2> QED BY <1>2, <2>5, <2>6
<1>7. CASE QueryActive(r)
  <2>1. rpc[r] = "readLast"
    BY <1>7 DEF QueryActive, ScanFile, ReaderGoes
  <2>2. PICK lines \in ReadsOf(job[r].fd) : ScanFile(r, "readLast", "load", lines)
    BY <1>7 DEF QueryActive
  <2>3. Len(DiskHead) \in Nat /\ Len(Base(job[r].fd)) \in Nat
    BY <2>1, <2>2, ActiveScanned
  <2>4. PICK p \in Nat, z \in Nat : p = Len(Base(job[r].fd)) /\ z = Len(DiskHead) + 1
    BY <2>3
  <2>5. Spans(lines, p, Len(Base(job[r].fd + 1)), z)
    BY <2>1, <2>2, <2>4, ActiveScanned
  <2>6. \A x \in Range(job[r].got) :
          x.event \in job[r].filter /\ (x.seq < job[r].resume \/ x.seq < p)
    BY <2>1, <2>2, <2>4, ActiveScanned
  <2>7. PICK page \in Job : ReaderGoes(r, "readLast", "load", page) /\ Takes(q, lines, page)
    BY <1>1, <2>2, <2>5, <2>6, FileScanned
  <2>8. \A x \in Range(page.got) : x \in Range(q.got) \/ InLog(x)
    BY <2>5, <2>7 DEF Takes, Spans
  <2> QED BY <1>2, <2>7, <2>8
<1>8. CASE QueryPaths(r)
  <2>1. PICK p \in Job : p = [q EXCEPT !.known = hasManifest, !.listed = manifest]
    BY JobFields DEF FilesInOrder, Inv, TypeOK, DiskTypeOK
  <2>2. p.got = q.got
    BY <2>1 DEF Job
  <2>3. ReaderGoes(r, "paths", "listed", p)
    BY <1>1, <1>8, <2>1 DEF QueryPaths
  <2> QED BY <1>3, <2>2, <2>3
<1>9. CASE QueryOpenActive(r)
  <2>1. PICK p \in Job : p = [q EXCEPT !.fd = OpenedActive]
    <3>1. OpenedActive \in Nat
      BY Layout DEF OpenedActive
    <3> QED BY <3>1, JobFields
  <2>2. p.got = q.got
    BY <2>1 DEF Job
  <2>3. ReaderGoes(r, "openLast", "readLast", p) \/ ReaderGoes(r, "openLast", "failed", q)
    BY <1>1, <1>9, <2>1 DEF QueryOpenActive
  <2> QED BY <1>3, <2>2, <2>3
<1>10. CASE NextPage(r)
  <2>1. q.next \in Nat
    BY <1>1, <1>10 DEF NextPage, Job
  <2>2. PICK p \in Job : p = [q EXCEPT !.resume = q.next, !.next = NoToken, !.room = PageLimit]
    BY <2>1, JobFields, ReaderAssumption
  <2>3. p.got = q.got
    BY <2>2 DEF Job
  <2>4. ReaderGoes(r, "done", "paths", p)
    BY <1>1, <1>10, <2>2 DEF NextPage
  <2> QED BY <1>3, <2>3, <2>4
<1>11. CASE Leave(r)
  <2>1. PICK p \in Job : p = NoJob
    BY NoJobType
  <2> QED BY <1>3, <1>11, <2>1 DEF Leave, NoJob
<1> QED BY <1>4, <1>5, <1>6, <1>7, <1>8, <1>9, <1>10, <1>11 DEF ReaderStep

\* Nothing keeps a record that a reader saw from being the next one of the log: no write
\* fails and the process does not die.
Steadfast == Faults \subseteq {"rename"} /\ TooLong \subseteq Refused

LogInv == \A r \in Reader : \A x \in Range(job[r].got) : InLog(x)

\* A record of the log stays one; the record on its way becomes one.
LEMMA InLogStays ==
  ASSUME Steadfast, FilesInOrder, [Next]_vars, NEW x \in Record, InLog(x)
  PROVE  InLog(x)'
<1>1. Harmless
  BY DEF Steadfast, Harmless
<1>2. DiskHead \in Hash /\ DiskHead' \in Hash /\ IsPrefix(DiskHead, DiskHead')
  BY <1>1, HistoryGrows DEF FilesInOrder
<1>3. CASE IsPrefix(x.hash, DiskHead)
  <2>1. IsPrefix(x.hash, DiskHead')
    BY <1>2, <1>3, PrefixTransitive DEF Record, Hash
  <2> QED BY <2>1 DEF InLog
<1>4. ASSUME NEW h \in Handler, pc[h] = "write", arg[h] \notin Refused, x = EmittedRecord(h)
      PROVE  IsPrefix(x.hash, DiskHead') \/ OnTheWay(x)'
  <2>1. ASSUME pc'[h] = pc[h], arg'[h] = arg[h], UNCHANGED memory
        PROVE  OnTheWay(x)'
    BY <1>4, <2>1, SameRecord DEF OnTheWay
  <2>2. CASE UNCHANGED vars
    BY <2>1, <2>2 DEF vars, threads
  <2>3. CASE Restart \/ Crash
    <3>1. up /\ "crash" \notin Faults /\ "crashWindow" \notin Faults
      BY <1>4, OnTheWayIsNext DEF Steadfast
    <3> QED BY <2>3, <3>1 DEF Restart, Crash, Die
  <2>4. ASSUME NEW g \in Handler, Call(g) \/ Lock(g)
        PROVE  OnTheWay(x)'
    <3>1. g # h /\ UNCHANGED memory
      BY <1>4, <2>4 DEF Call, EmitCall, RotateCall, CreateCall, Lock, Waiting
    <3>2. pc'[h] = pc[h] /\ arg'[h] = arg[h]
      BY <2>4, <3>1 DEF Call, EmitCall, RotateCall, CreateCall, Lock,
                        FilesInOrder, Inv, TypeOK, ThreadsTypeOK
    <3> QED BY <2>1, <3>1, <3>2
  <2>5. ASSUME NEW g \in Handler, Emit(g) \/ Rotate(g) \/ CreateCheckpoint(g)
        PROVE  IsPrefix(x.hash, DiskHead')
    <3>1. g = h
      BY <1>4, <2>5, InsideSteps, OnlyOneInside DEF FilesInOrder, Inv, Inside, InEmit
    <3>2. EmitWrite(h)
      <4>1. Emit(h)
        BY <1>4, <2>5, <3>1 DEF Rotate, RotateRefused, RotatePrepare, RotateRename,
              RotateCheckpoint, RotateManifest, RotateFresh, RotateFails, CreateCheckpoint,
              Advance, RotateFaults
      <4> QED BY <1>4, <4>1 DEF Emit, EmitRefused, EmitWriteFails, WritesInPart, EmitSyncFails,
                                EmitReturn, Steadfast
    <3>3. DiskHead' = x.hash
      BY <1>1, <1>4, <3>2, HonestWrite DEF FilesInOrder
    <3> QED BY <1>2, <3>3, PrefixReflexive DEF Hash
  <2> QED BY <2>2, <2>3, <2>4, <2>5 DEF Next, Step
<1> QED BY <1>3, <1>4 DEF InLog, OnTheWay

LEMMA LogInvStep ==
  ASSUME Steadfast, FilesInOrder, ReadersInv, PagesInv, LogInv, [ReadersNext]_<<vars, readers>>
  PROVE  LogInv'
<1>1. Harmless /\ [Next]_vars
  BY ReadersNextIsNext DEF Steadfast, Harmless
<1>2. ReadersInv'
  BY ReadersInvStep DEF FilesInOrder
<1> SUFFICES ASSUME NEW o \in Reader, NEW x \in Range(job'[o].got)
             PROVE  InLog(x)'
  BY DEF LogInv
<1>3. x \in Record
  BY <1>2, SeqRange DEF ReadersInv, ReadersTypeOK, Job
<1>4. InLog(x)
  <2>1. CASE UNCHANGED job
    BY <2>1 DEF LogInv
  <2>2. ASSUME NEW r \in Reader, ReaderCall(r) \/ ReaderStep(r)
        PROVE  InLog(x)
    BY <1>1, <2>2, GotFromFiles DEF LogInv
  <2> QED BY <2>1, <2>2 DEF ReadersNext, readers
<1> QED BY <1>1, <1>3, <1>4, InLogStays

LEMMA FilesStayInOrder ==
  ASSUME Harmless
  PROVE  ReadersSpec => []FilesInOrder
<1>1. Inv /\ ManifestInv /\ DownIsIdle /\ HeadsInv /\ HonestInv /\ HistoryInv => FilesInOrder
  BY DEF FilesInOrder
<1> QED BY <1>1, ReadersSpecIsSpec, InvHolds, ManifestInvHolds, HeadsStayHeld,
           HonestInvHolds, HistoryInvHolds, PTL

\* The pages of a query stay in order, and the page in progress is past all that was
\* returned, whatever is written, renamed and listed meanwhile.
THEOREM PagesInvHolds ==
  ASSUME Harmless
  PROVE  ReadersSpec => []PagesInv
<1>1. ReadersInit => PagesInv
  BY NoJobType, NothingYet DEF ReadersInit, PagesInv, NoJob
<1>2. FilesInOrder /\ ReadersInv /\ PagesInv /\ [ReadersNext]_<<vars, readers>> => PagesInv'
  BY PagesInvStep
<1> QED BY <1>1, <1>2, FilesStayInOrder, ReadersInvHolds, PTL DEF ReadersSpec

\* What a query has is on every history the log ever vouched for.
LEMMA HeadsCompare ==
  ASSUME FilesInOrder, NEW x \in Record, InLog(x), NEW g \in Heads
  PROVE  IsPrefix(x.hash, g) \/ IsPrefix(g, x.hash)
<1>1. DiskHead \in Hash /\ IsPrefix(g, DiskHead) /\ g \in Hash /\ x.hash \in Hash
  BY HeadsOnDisk, HeadsType DEF FilesInOrder, Record
<1>2. CASE IsPrefix(x.hash, DiskHead)
  BY <1>1, <1>2, PrefixesCompare DEF Hash
<1>3. CASE OnTheWay(x)
  <2>1. PICK h \in Handler : pc[h] = "write" /\ x = EmittedRecord(h)
    BY <1>3 DEF OnTheWay
  <2>2. x.hash = Append(DiskHead, BodyOf(x)) /\ BodyOf(x) \in Body
    BY <2>1, OnTheWayIsNext DEF hashRecord, BodyOf, Record, Body
  <2>3. IsPrefix(DiskHead, x.hash)
    BY <1>1, <2>2, PrefixAppend DEF Hash
  <2> QED BY <1>1, <2>3, PrefixTransitive DEF Hash
<1> QED BY <1>2, <1>3 DEF InLog

\* The pages of a query are records of the log that match, in ascending order and none
\* twice, whatever is emitted or rotated between and during the pages, and however a
\* rename fails (runQuery, next_token).
THEOREM PagesAlwaysAscend ==
  ASSUME Steadfast
  PROVE  ReadersSpec => []PagesAscend
<1>1. Harmless
  BY DEF Steadfast, Harmless
<1>2. ReadersInit => LogInv
  <2>1. << >> \in Seq(Record)
    BY EmptySeq
  <2>2. Range(<< >>) = {}
    BY <2>1, EmptyRange
  <2> QED BY <2>2 DEF ReadersInit, LogInv, NoJob
<1>3. FilesInOrder /\ ReadersInv /\ PagesInv /\ LogInv /\ [ReadersNext]_<<vars, readers>> => LogInv'
  BY LogInvStep
<1>4. FilesInOrder /\ ReadersInv /\ PagesInv /\ LogInv => PagesAscend
  <2> SUFFICES ASSUME FilesInOrder, ReadersInv, PagesInv, LogInv, NEW r \in Reader
               PROVE  LET got == job[r].got IN
                      /\ \A i \in DOMAIN got :
                           /\ got[i].event \in job[r].filter
                           /\ got[i].seq = Len(got[i].prev_hash)
                           /\ \A h \in Heads : IsPrefix(got[i].hash, h) \/ IsPrefix(h, got[i].hash)
                      /\ \A i \in 2..Len(got) : got[i-1].seq < got[i].seq
    BY DEF PagesAscend
  <2>1. PICK got \in Seq(Record) : got = job[r].got
    BY DEF ReadersInv, ReadersTypeOK, Job
  <2>2. DOMAIN got = 1..Len(got) /\ Len(got) \in Nat /\ \A i \in DOMAIN got : got[i] \in Range(got)
    BY LenProperties DEF Range
  <2>3. /\ Sorted(got, Earlier)
        /\ \A x \in Range(got) : x \in Record /\ x.event \in job[r].filter /\ InLog(x)
    BY <2>1, SeqRange DEF PagesInv, PageOK, LogInv
  <2>4. \A i \in DOMAIN got :
           /\ got[i].event \in job[r].filter
           /\ got[i].seq = Len(got[i].prev_hash)
           /\ \A h \in Heads : IsPrefix(got[i].hash, h) \/ IsPrefix(h, got[i].hash)
    BY <2>2, <2>3, HeadsCompare DEF InLog
  <2>5. ASSUME NEW i \in 2..Len(got)
        PROVE  got[i-1].seq < got[i].seq
    <3>1. i - 1 \in DOMAIN got /\ i \in DOMAIN got /\ i - 1 < i
      BY <2>2
    <3> QED BY <2>2, <2>3, <3>1, EarlierMeans DEF Sorted
  <2> QED BY <2>1, <2>4, <2>5
<1> QED BY <1>1, <1>2, <1>3, <1>4, FilesStayInOrder, ReadersInvHolds, PagesInvHolds, PTL
        DEF ReadersSpec

-----------------------------------------------------------------------------
(* What a quiet query returns *)

\* What the log held at the call, matches, and the page is past, was returned.
Covers(at, q) ==
  \A k \in 1..Len(q.since) :
    q.since[k].event \in q.filter /\ GoneBy(at, q, k - 1) => \E x \in Range(q.got) : x.seq = k - 1

\* A query that met no rotation has seen the manifest and the active segment that are
\* there; a token stands for a match in the files, unless it met an emit.
CoverOK(at, q, met) ==
  /\ IsPrefix(q.since, DiskHead) /\ (at = "idle" => q.op = "none")
  /\ q.op = "query" /\ "rotate" \notin met =>
       /\ at \in {"listed", "openLast", "readLast"} => q.listed = manifest
       /\ at = "readLast" => q.fd = NextSegment
       /\ at # "failed" => Covers(at, q)
  /\ q.op = "query" /\ q.next # NoToken /\ "emit" \notin met =>
       \E k \in 1..Len(DiskHead) : k > q.next /\ DiskHead[k].event \in q.filter

CoverInv == \A r \in Reader : CoverOK(rpc[r], job[r], overlap[r])

\* It is enough to look at a reader as the step leaves it.
LEMMA CoverAt ==
  ASSUME NEW r \in Reader, NEW at, NEW q, NEW met,
         rpc'[r] = at, job'[r] = q, overlap'[r] = met, CoverOK(at, q, met)'
  PROVE  CoverOK(rpc[r], job[r], overlap[r])'
BY DEF CoverOK, Covers, GoneBy, Base, CarriedPrev, Disk

\* The daemon moves: nothing that the reader has counts less.
LEMMA CoverStays ==
  ASSUME Harmless, FilesInOrder, [Next]_vars, NEW at, NEW q \in Job, NEW met, NEW metNow,
         PageOK(at, q), CoverOK(at, q, met),
         q.op # "none" =>
           /\ met \subseteq metNow
           /\ "rotate" \notin metNow => \A h \in Handler : pc[h] \notin Moving
  PROVE  CoverOK(at, q, metNow)'
<1>1. /\ DiskHead \in Hash /\ DiskHead' \in Hash /\ IsPrefix(DiskHead, DiskHead')
      /\ Len(DiskHead) \in Nat
  BY HistoryGrows DEF FilesInOrder
<1>2. q.since \in Hash /\ q.listed \in Seq(Entry)
  BY DEF Job
<1>3. IsPrefix(q.since, DiskHead') /\ (at = "idle" => q.op = "none")
  BY <1>1, <1>2, PrefixTransitive DEF CoverOK, Hash
<1>4. Len(DiskHead) <= Len(DiskHead') /\ \A k \in 1..Len(DiskHead) : DiskHead'[k] = DiskHead[k]
  BY <1>1, PrefixAt DEF Hash
<1>5. ASSUME q.op = "query", q.next # NoToken, "emit" \notin metNow
      PROVE  \E k \in 1..Len(DiskHead') : k > q.next /\ DiskHead'[k].event \in q.filter
  <2>1. PICK k \in 1..Len(DiskHead) : k > q.next /\ DiskHead[k].event \in q.filter
    BY <1>5 DEF CoverOK
  <2>2. k \in 1..Len(DiskHead') /\ DiskHead'[k] = DiskHead[k]
    BY <1>1, <1>4, <2>1, LenProperties DEF Hash
  <2> QED BY <2>1, <2>2
<1>6. ASSUME q.op = "query", "rotate" \notin metNow
      PROVE  manifest' = manifest /\ NextSegment' = NextSegment
  <2>1. \A h \in Handler : ~RotateRename(h) /\ ~RotateManifest(h)
    BY <1>6 DEF RotateRename, RotateManifest, Advance, Moving, InRotate
  <2>2. segs' = segs /\ manifest' = manifest
    BY <2>1, SegmentSteps DEF FilesInOrder
  <2> QED BY <2>2 DEF NextSegment
<1>7. at \in {"openLast", "readLast"} => Base(Len(q.listed) + 1)' = Base(Len(q.listed) + 1)
  BY <1>2, FilesGrow DEF PageOK
<1>8. \A n : GoneBy(at, q, n)' <=> GoneBy(at, q, n)
  BY <1>7 DEF GoneBy
<1>9. Covers(at, q)' <=> Covers(at, q)
  BY <1>8 DEF Covers
<1> QED BY <1>3, <1>5, <1>6, <1>9 DEF CoverOK

\* A step of one reader: it is about the files as they are.
LEMMA CoverGoesOn ==
  ASSUME Harmless, FilesInOrder, ReadersInv, PagesInv, CoverInv, UNCHANGED vars, Observe,
         NEW r \in Reader, NEW from, NEW to, NEW p \in Job, ReaderGoes(r, from, to, p),
         CoverOK(to, p, overlap'[r])
  PROVE  CoverInv'
<1> SUFFICES ASSUME NEW o \in Reader
             PROVE  CoverOK(rpc[o], job[o], overlap[o])'
  BY DEF CoverInv
<1>1. PICK met : met = overlap'[o]
  OBVIOUS
<1>2. CASE o = r
  <2>1. rpc'[o] = to /\ job'[o] = p
    BY <1>2 DEF ReaderGoes, ReadersInv, ReadersTypeOK
  <2>2. UNCHANGED <<DiskHead, NextSegment, manifest>> /\ \A n : Base(n)' = Base(n)
    BY DEF vars, disk, threads, DiskHead, InWindow, NextSegment, Base, CarriedPrev, Disk, SealedTo
  <2>3. CoverOK(to, p, met)
    BY <1>1, <1>2
  <2>4. CoverOK(to, p, met)'
    BY <2>2, <2>3 DEF CoverOK, Covers, GoneBy
  <2> QED BY <1>1, <2>1, <2>4, CoverAt
<1>3. CASE o # r
  <2>1. PICK at : at = rpc[o]
    OBVIOUS
  <2>2. PICK q \in Job : q = job[o]
    BY DEF ReadersInv, ReadersTypeOK
  <2>3. PICK old : old = overlap[o]
    OBVIOUS
  <2>4. rpc'[o] = at /\ job'[o] = q
    BY <1>3, <2>1, <2>2 DEF ReaderGoes, ReadersInv, ReadersTypeOK
  <2>5. PageOK(at, q) /\ CoverOK(at, q, old)
    BY <2>1, <2>2, <2>3 DEF PagesInv, CoverInv
  <2>6. q.op # "none" =>
           /\ old \subseteq met
           /\ "rotate" \notin met => \A h \in Handler : pc[h] \notin Moving
    BY <1>1, <2>3, <2>4, <2>5, Noted DEF CoverOK
  <2>7. CoverOK(at, q, met)'
    BY <2>5, <2>6, CoverStays
  <2> QED BY <1>1, <2>4, <2>7, CoverAt
<1> QED BY <1>2, <1>3

LEMMA CoverRests ==
  ASSUME Harmless, FilesInOrder, ReadersInv, PagesInv, CoverInv, [Next]_vars, Observe,
         UNCHANGED <<rpc, job>>
  PROVE  CoverInv'
<1> SUFFICES ASSUME NEW o \in Reader
             PROVE  CoverOK(rpc[o], job[o], overlap[o])'
  BY DEF CoverInv
<1>1. PICK met, old, at : met = overlap'[o] /\ old = overlap[o] /\ at = rpc[o]
  OBVIOUS
<1>2. PICK q \in Job : q = job[o]
  BY DEF ReadersInv, ReadersTypeOK
<1>3. PageOK(at, q) /\ CoverOK(at, q, old)
  BY <1>1, <1>2 DEF PagesInv, CoverInv
<1>4. q.op # "none" =>
         /\ old \subseteq met
         /\ "rotate" \notin met => \A h \in Handler : pc[h] \notin Moving
  BY <1>1, <1>2, <1>3, Noted DEF CoverOK
<1>5. CoverOK(at, q, met)'
  BY <1>3, <1>4, CoverStays
<1> QED BY <1>1, <1>2, <1>5, CoverAt

\* A record of the log has the event that the history has at its place.
LEMMA EventAt ==
  ASSUME FilesInOrder, NEW x \in Record, InLog(x), x.seq < Len(DiskHead)
  PROVE  x.seq + 1 \in 1..Len(DiskHead) /\ DiskHead[x.seq + 1].event = x.event
<1>1. Len(DiskHead) \in Nat /\ x.seq \in Nat
  BY BasesGrow DEF Record
<1>2. ~OnTheWay(x)
  BY <1>1, OnTheWayIsNext DEF OnTheWay
<1>3. IsPrefix(x.hash, DiskHead) /\ x.hash = hashRecord(x.prev_hash, BodyOf(x))
  BY <1>2 DEF InLog
<1>4. /\ Len(x.prev_hash) + 1 \in 1..Len(DiskHead) /\ x.seq = Len(x.prev_hash)
      /\ DiskHead[Len(x.prev_hash) + 1] = BodyOf(x)
  BY <1>3, AtItsPlace
<1>5. BodyOf(x).event = x.event
  BY DEF BodyOf
<1> QED BY <1>4, <1>5

LEMMA PageCovers ==
  ASSUME FilesInOrder, NEW q \in Job, NEW page, NEW lines, NEW p \in Nat, NEW u \in Nat, NEW z,
         Spans(lines, p, u, z), Takes(q, lines, page), IsPrefix(q.since, DiskHead),
         NEW k \in 1..Len(q.since), q.since[k].event \in q.filter, k - 1 < u,
         page.next = NoToken \/ k - 1 < page.next,
         k - 1 < q.resume \/ k - 1 < p => \E x \in Range(q.got) : x.seq = k - 1
  PROVE  \E x \in Range(page.got) : x.seq = k - 1
<1>1. q.resume \in Nat /\ q.since \in Hash /\ Len(q.since) \in Nat /\ DiskHead \in Hash
      /\ Len(DiskHead) \in Nat /\ k \in Nat
  BY BasesGrow, LenProperties DEF Job, Hash
<1>2. CASE k - 1 < q.resume \/ k - 1 < p
  BY <1>2 DEF Takes
<1>3. CASE ~(k - 1 < q.resume \/ k - 1 < p)
  <2>1. k - 1 \in p..(u - 1)
    BY <1>1, <1>3
  <2>2. PICK line \in Range(lines) : StartsWithRecord(line) /\ line.rec.seq = k - 1
    BY <2>1 DEF Spans
  <2>3. line.rec \in Record /\ InLog(line.rec)
    <3>1. line \in Line /\ InLog(line.rec)
      BY SeqRange DEF Spans
    <3> QED BY <3>1 DEF Line
  <2>4. k <= Len(DiskHead) /\ DiskHead[k] = q.since[k]
    BY <1>1, PrefixAt DEF Hash
  <2>5. line.rec.event = q.since[k].event
    <3>1. line.rec.seq < Len(DiskHead) /\ line.rec.seq + 1 = k
      BY <1>1, <2>2, <2>4
    <3> QED BY <2>3, <2>4, <3>1, EventAt
  <2>6. Matches(q, line)
    BY <1>1, <1>3, <2>2, <2>5 DEF Matches
  <2> QED BY <2>2, <2>6 DEF Takes
<1> QED BY <1>2, <1>3

\* A token stands for a match, if no line is on its way.
LEMMA TokenStands ==
  ASSUME FilesInOrder, NEW q \in Job, NEW page \in Job, NEW lines, NEW p, NEW u, NEW z,
         Spans(lines, p, u, z), Takes(q, lines, page), page.next # NoToken,
         \A h \in Handler : pc[h] \notin InEmit
  PROVE  \E k \in 1..Len(DiskHead) : k > page.next /\ DiskHead[k].event \in page.filter
<1>1. PICK line \in Range(lines) : Matches(q, line) /\ line.rec.seq >= page.next
  BY DEF Takes
<1>2. line.rec \in Record /\ InLog(line.rec) /\ line.rec.seq \in Nat /\ page.next \in Nat
  <2>1. line \in Line /\ InLog(line.rec)
    BY SeqRange DEF Spans
  <2>2. line.rec \in Record
    BY <2>1 DEF Line
  <2> QED BY <2>1, <2>2 DEF Record, Job
<1>3. ~OnTheWay(line.rec)
  BY DEF OnTheWay, InEmit
<1>4. line.rec.seq < Len(DiskHead)
  <2>1. Len(line.rec.prev_hash) + 1 \in 1..Len(DiskHead) /\ line.rec.seq = Len(line.rec.prev_hash)
    BY <1>2, <1>3, AtItsPlace DEF InLog
  <2> QED BY <1>2, <2>1, BasesGrow
<1>5. line.rec.seq + 1 \in 1..Len(DiskHead) /\ DiskHead[line.rec.seq + 1].event = line.rec.event
  BY <1>2, <1>4, EventAt
<1>6. line.rec.seq + 1 > page.next /\ line.rec.event \in page.filter
  BY <1>1, <1>2 DEF Matches, Takes
<1> QED BY <1>5, <1>6

\* What a reader brings to its next step: what met it until now, this step included.
LEMMA AtCover ==
  ASSUME ReadersInv, PagesInv, CoverInv, Observe, NEW r \in Reader, rpc'[r] # "idle"
  PROVE  /\ job[r] \in Job /\ PageOK(rpc[r], job[r])
         /\ CoverOK(rpc[r], job[r], overlap'[r])
         /\ "rotate" \notin overlap'[r] => \A h \in Handler : pc[h] \notin Moving
         /\ "emit" \notin overlap'[r] => \A h \in Handler : pc[h] \notin InEmit
<1>1. job[r] \in Job /\ PageOK(rpc[r], job[r]) /\ CoverOK(rpc[r], job[r], overlap[r])
  BY DEF ReadersInv, ReadersTypeOK, PagesInv, CoverInv
<1>2. /\ overlap[r] \subseteq overlap'[r]
      /\ "rotate" \notin overlap'[r] => \A h \in Handler : pc[h] \notin Moving
      /\ "emit" \notin overlap'[r] => \A h \in Handler : pc[h] \notin InEmit
  BY Noted
<1>3. CoverOK(rpc[r], job[r], overlap'[r])
  BY <1>1, <1>2 DEF CoverOK
<1> QED BY <1>1, <1>2, <1>3

LEMMA WalkKeepsCover ==
  ASSUME Harmless, FilesInOrder, ReadersInv, PagesInv, CoverInv, UNCHANGED vars, Observe,
         NEW r \in Reader, LoadManifest(r) \/ ScanSegments(r) \/ OpenActive(r) \/ ReadActive(r)
  PROVE  CoverInv'
<1>1. PICK from \in {"load", "scan", "open", "read"}, to \in {"scan", "open", "read", "done"},
           p \in Job : ReaderGoes(r, from, to, p) /\ SamePage(p, job[r])
  BY WalkGoes DEF FilesInOrder, ReadersInv
<1>2. PICK q \in Job : q = job[r]
  BY DEF ReadersInv, ReadersTypeOK
<1>3. PICK met : met = overlap'[r]
  OBVIOUS
<1>4. rpc[r] = from /\ rpc'[r] # "idle"
  BY <1>1 DEF ReaderGoes, ReadersInv, ReadersTypeOK
<1>5. CoverOK(from, q, met)
  BY <1>2, <1>3, <1>4, AtCover
<1>6. SamePage(p, q) /\ from \notin PageSteps /\ to \notin PageSteps /\ from # "failed"
  BY <1>1, <1>2 DEF PageSteps
<1>7. Covers(from, q) => Covers(to, p)
  BY <1>6 DEF Covers, GoneBy, SamePage
<1>8. CoverOK(to, p, met)
  BY <1>4, <1>5, <1>6, <1>7 DEF CoverOK, SamePage, PageSteps
<1> QED BY <1>1, <1>3, <1>8, CoverGoesOn

\* The head in memory is on the history, also while a record waits for its fsync.
LEMMA MemoryOnHistory ==
  ASSUME FilesInOrder, up
  PROVE  IsPrefix(prevHash, DiskHead)
<1>1. DiskHead \in Hash /\ prevHash \in Hash
  BY HeadsOnDisk DEF FilesInOrder, Inv, TypeOK
<1>2. CASE \A h \in Handler : pc[h] # "sync"
  BY <1>1, <1>2, PrefixReflexive DEF FilesInOrder, HonestInv, MemoryIsHead, Hash
<1>3. ASSUME NEW h \in Handler, pc[h] = "sync"
      PROVE  IsPrefix(prevHash, DiskHead)
  <2>1. ASSUME NEW g \in Handler
        PROVE  pc[g] \notin Moving
    BY <1>3, OnlyOneInside DEF FilesInOrder, Inv, Inside, InEmit, InRotate, Moving
  <2>2. Still
    BY <2>1 DEF Still
  <2>3. ~InWindow
    BY <2>2, StillIsOutside
  <2> QED BY <2>2, <2>3, ActiveIsCurrent, HeadOutside DEF FilesInOrder, HonestInv
<1> QED BY <1>2, <1>3

LEMMA CallKeepsCover ==
  ASSUME Harmless, FilesInOrder, ReadersInv, PagesInv, CoverInv, UNCHANGED vars, Observe,
         NEW r \in Reader, ReaderCall(r)
  PROVE  CoverInv'
<1>1. prevHash \in Hash /\ signed \subseteq Checkpoint /\ IsPrefix(prevHash, DiskHead)
  BY MemoryOnHistory DEF FilesInOrder, Inv, TypeOK, ReaderCall
<1>2. PICK met : met = overlap'[r]
  OBVIOUS
<1>3. ASSUME NEW cp \in signed, CompareCall(r, cp)
      PROVE  CoverInv'
  <2>1. PICK p \in Job : p = [NoJob EXCEPT !.op = "compare", !.cp = cp, !.since = prevHash]
    BY <1>1, CallTypes
  <2>2. p.op = "compare" /\ p.since = prevHash
    BY <2>1 DEF NoJob
  <2>3. CoverOK("load", p, met)
    BY <1>1, <2>2 DEF CoverOK
  <2> QED BY <1>2, <1>3, <2>1, <2>3, CoverGoesOn DEF CompareCall
<1>4. ASSUME NEW f \in SUBSET Event, QueryCall(r, f)
      PROVE  CoverInv'
  <2>1. PICK p \in Job : p = [NoJob EXCEPT !.op = "query", !.filter = f, !.room = PageLimit,
                                           !.since = prevHash]
    BY <1>1, CallTypes
  <2>2. p.op = "query" /\ p.since = prevHash /\ p.resume = 0 /\ p.next = NoToken
    BY <2>1 DEF NoJob
  <2>3. Covers("paths", p)
    <3>1. Len(p.since) \in Nat
      BY <1>1, <2>2, LenProperties DEF Hash
    <3>2. \A k \in 1..Len(p.since) : ~GoneBy("paths", p, k - 1)
      BY <2>2, <3>1 DEF GoneBy, PageSteps
    <3> QED BY <3>2 DEF Covers
  <2>4. CoverOK("paths", p, met)
    BY <1>1, <2>2, <2>3 DEF CoverOK
  <2> QED BY <1>2, <1>4, <2>1, <2>4, CoverGoesOn DEF QueryCall
<1> QED BY <1>3, <1>4 DEF ReaderCall

\* The listed segments, read to the end of the last of them or to a full page.
LEMMA ListedKeepsCover ==
  ASSUME Harmless, FilesInOrder, ReadersInv, PagesInv, CoverInv, UNCHANGED vars, Observe,
         NEW r \in Reader, QueryListed(r)
  PROVE  CoverInv'
<1>1. PICK q \in Job : q = job[r]
  BY DEF ReadersInv, ReadersTypeOK
<1>2. PICK met : met = overlap'[r]
  OBVIOUS
<1>3. rpc[r] = "listed"
  BY DEF QueryListed, ScanFile, ReaderGoes
<1>4. PICK lines : lines = Listed(r)
  OBVIOUS
<1>5. PICK B \in Nat : B = Len(Base(AfterListed(r)))
  BY <1>3, ListedScanned
<1>6. Spans(lines, 0, B, B) /\ ScanFile(r, "listed", "openLast", lines)
  BY <1>3, <1>4, <1>5, ListedScanned DEF QueryListed
<1>7. PICK page \in Job :
        LET dest == IF page.next # NoToken THEN "load" ELSE "openLast" IN
        ReaderGoes(r, "listed", dest, page) /\ Takes(q, lines, page) /\ PageOK(dest, page)
  <2>1. \A x \in Range(job[r].got) : x.event \in job[r].filter /\ x.seq < job[r].resume
    BY <1>3, ListedScanned
  <2> QED BY <1>1, <1>5, <1>6, <2>1, FileScanned
<1>8. PICK dest \in {"load", "openLast"} :
        /\ ReaderGoes(r, "listed", dest, page)
        /\ dest = IF page.next # NoToken THEN "load" ELSE "openLast"
  BY <1>7
<1>9. rpc'[r] # "idle"
  BY <1>8 DEF ReaderGoes, ReadersInv, ReadersTypeOK
<1>10. /\ CoverOK("listed", q, met) /\ PageOK("listed", q)
       /\ "emit" \notin met => \A h \in Handler : pc[h] \notin InEmit
  BY <1>1, <1>2, <1>3, <1>9, AtCover
<1>11. /\ page.op = q.op /\ page.filter = q.filter /\ page.since = q.since
       /\ page.resume = q.resume /\ page.listed = q.listed
       /\ Len(Base(Len(page.listed) + 1)) = B
  BY <1>1, <1>5, <1>7 DEF Takes, AfterListed
<1>12. ASSUME q.op = "query", "rotate" \notin met
       PROVE  Covers(dest, page)
  <2> SUFFICES ASSUME NEW k \in 1..Len(q.since), q.since[k].event \in q.filter,
                      GoneBy(dest, page, k - 1)
               PROVE  \E x \in Range(page.got) : x.seq = k - 1
    BY <1>11 DEF Covers
  <2>1. k - 1 \in Nat /\ q.resume \in Nat /\ page.next \in Nat \cup {NoToken}
    BY LenProperties DEF Job, Hash
  <2>2. k - 1 < q.resume => \E x \in Range(q.got) : x.seq = k - 1
    BY <1>10, <1>12 DEF CoverOK, Covers, GoneBy, PageSteps
  <2>3. CASE k - 1 < q.resume
    BY <1>7, <2>2, <2>3 DEF Takes
  <2>4. CASE ~(k - 1 < q.resume)
    <3>1. CASE page.next = NoToken
      <4>1. k - 1 < B
        BY <1>8, <1>11, <2>4, <3>1 DEF GoneBy, PageSteps
      <4> QED BY <1>5, <1>6, <1>7, <1>10, <2>1, <2>2, <3>1, <4>1, PageCovers DEF CoverOK
    <3>2. CASE page.next # NoToken
      <4>1. k - 1 < page.next
        BY <1>8, <3>2 DEF GoneBy, PageSteps
      <4>2. page.next < B
        <5>1. PICK line \in Range(lines) : line.rec.seq >= page.next
          BY <1>7, <3>2 DEF Takes
        <5>2. line.rec.seq \in 0..(B - 1)
          BY <1>6, <5>1 DEF Spans
        <5> QED BY <2>1, <3>2, <5>1, <5>2
      <4>3. k - 1 < B
        BY <2>1, <3>2, <4>1, <4>2
      <4>4. k - 1 < q.resume \/ k - 1 < 0 => \E x \in Range(q.got) : x.seq = k - 1
        BY <2>1, <2>2
      <4>5. Takes(q, lines, page) /\ IsPrefix(q.since, DiskHead) /\ Spans(lines, 0, B, B)
        BY <1>6, <1>7, <1>10 DEF CoverOK
      <4> QED BY <1>5, <4>1, <4>3, <4>4, <4>5, PageCovers
    <3> QED BY <3>1, <3>2
  <2> QED BY <2>3, <2>4
<1>13. ASSUME page.next # NoToken, "emit" \notin met
       PROVE  \E k \in 1..Len(DiskHead) : k > page.next /\ DiskHead[k].event \in page.filter
  BY <1>6, <1>7, <1>10, <1>13, TokenStands
<1>14. CoverOK(dest, page, met)
  BY <1>8, <1>10, <1>11, <1>12, <1>13 DEF CoverOK
<1> QED BY <1>2, <1>8, <1>14, CoverGoesOn

\* Without a rotation in progress there is no file between the manifest and the active one.
LEMMA NextIsAfterListed ==
  ASSUME FilesInOrder, \A h \in Handler : pc[h] \notin Moving
  PROVE  NextSegment = Len(manifest) + 1
<1>1. ~InWindow
  BY WindowNames DEF InTheWindow, Moving, InRotate
<1>2. Len(segs) = Len(manifest)
  BY <1>1, StateTypes DEF FilesInOrder, HonestInv, AllListed
<1> QED BY <1>2, WhatIsRead DEF FilesInOrder

\* The active segment: with what came before, a page has all up to its end or its token.
LEMMA ActiveKeepsCover ==
  ASSUME Harmless, FilesInOrder, ReadersInv, PagesInv, CoverInv, UNCHANGED vars, Observe,
         NEW r \in Reader, QueryActive(r)
  PROVE  CoverInv'
<1>1. PICK q \in Job : q = job[r]
  BY DEF ReadersInv, ReadersTypeOK
<1>2. PICK met : met = overlap'[r]
  OBVIOUS
<1>3. rpc[r] = "readLast"
  BY DEF QueryActive, ScanFile, ReaderGoes
<1>4. PICK lines \in ReadsOf(job[r].fd) : ScanFile(r, "readLast", "load", lines)
  BY DEF QueryActive
<1>5. PICK p \in Nat, u \in Nat, z \in Nat :
        p = Len(Base(job[r].fd)) /\ u = Len(Base(job[r].fd + 1)) /\ z = Len(DiskHead) + 1
  <2>1. Len(Base(job[r].fd)) \in Nat /\ Len(Base(job[r].fd + 1)) \in Nat /\ Len(DiskHead) \in Nat
    BY <1>3, <1>4, ActiveScanned
  <2> QED BY <2>1
<1>6. Spans(lines, p, u, z)
  BY <1>3, <1>4, <1>5, ActiveScanned
<1>7. PICK page \in Job :
        /\ ReaderGoes(r, "readLast", "load", page) /\ Takes(q, lines, page)
        /\ PageOK("load", page)
  <2>1. \A x \in Range(job[r].got) :
          x.event \in job[r].filter /\ (x.seq < job[r].resume \/ x.seq < p)
    BY <1>3, <1>4, <1>5, ActiveScanned
  <2> QED BY <1>1, <1>4, <1>6, <2>1, FileScanned
<1>8. rpc'[r] # "idle"
  BY <1>7 DEF ReaderGoes, ReadersInv, ReadersTypeOK
<1>9. /\ CoverOK("readLast", q, met) /\ PageOK("readLast", q)
      /\ "rotate" \notin met => \A h \in Handler : pc[h] \notin Moving
      /\ "emit" \notin met => \A h \in Handler : pc[h] \notin InEmit
  BY <1>1, <1>2, <1>3, <1>8, AtCover
<1>10. /\ page.op = q.op /\ page.filter = q.filter /\ page.since = q.since
       /\ page.resume = q.resume
  BY <1>7 DEF Takes
<1>11. ASSUME q.op = "query", "rotate" \notin met
       PROVE  Covers("load", page)
  <2>1. q.listed = manifest /\ q.fd = NextSegment /\ NextSegment = Len(manifest) + 1
    BY <1>9, <1>11, NextIsAfterListed DEF CoverOK
  <2>2. p = Len(Base(Len(q.listed) + 1)) /\ u = Len(DiskHead)
    <3>1. (Len(manifest) + 1) + 1 = Len(manifest) + 2
      BY Layout
    <3> QED BY <1>1, <1>5, <2>1, <3>1, BasesGrow
  <2> SUFFICES ASSUME NEW k \in 1..Len(q.since), q.since[k].event \in q.filter,
                      GoneBy("load", page, k - 1)
               PROVE  \E x \in Range(page.got) : x.seq = k - 1
    BY <1>10 DEF Covers
  <2>3. page.next = NoToken \/ k - 1 < page.next
    BY DEF GoneBy, PageSteps
  <2>4. k - 1 < q.resume \/ k - 1 < p => \E x \in Range(q.got) : x.seq = k - 1
    BY <1>9, <1>11, <2>2 DEF CoverOK, Covers, GoneBy, PageSteps
  <2>5. k - 1 < u
    <3>1. Len(q.since) \in Nat /\ Len(q.since) <= Len(DiskHead) /\ Len(DiskHead) \in Nat
      <4>1. q.since \in Hash /\ DiskHead \in Hash /\ IsPrefix(q.since, DiskHead)
        BY <1>9, BasesGrow DEF CoverOK, Job
      <4> QED BY <4>1, PrefixAt, LenProperties DEF Hash
    <3> QED BY <2>2, <3>1
  <2> QED BY <1>6, <1>7, <1>9, <2>3, <2>4, <2>5, PageCovers DEF CoverOK
<1>12. ASSUME page.next # NoToken, "emit" \notin met
       PROVE  \E k \in 1..Len(DiskHead) : k > page.next /\ DiskHead[k].event \in page.filter
  BY <1>6, <1>7, <1>9, <1>12, TokenStands
<1>13. CoverOK("load", page, met)
  BY <1>9, <1>10, <1>11, <1>12 DEF CoverOK
<1> QED BY <1>2, <1>7, <1>13, CoverGoesOn

LEMMA GenesisFirst ==
  ASSUME NEW head \in Hash
  PROVE  IsPrefix(Genesis, head)
<1>1. PICK start \in Seq(Body) : start = Genesis /\ Len(start) = 0
  BY EmptySeq DEF Genesis
<1>2. head \in Seq(Body) /\ Len(head) \in Nat
  BY LenProperties DEF Hash
<1>3. Len(start) <= Len(head) /\ \A i \in 1..Len(start) : start[i] = head[i]
  BY <1>1, <1>2
<1>4. IsPrefix(start, head)
  BY <1>2, <1>3, PrefixAt
<1> QED BY <1>1, <1>4

LEMMA QueryKeepsCover ==
  ASSUME Harmless, FilesInOrder, ReadersInv, PagesInv, CoverInv, UNCHANGED vars, Observe,
         NEW r \in Reader, QueryPaths(r) \/ QueryOpenActive(r) \/ NextPage(r) \/ Leave(r)
  PROVE  CoverInv'
<1>1. PICK q \in Job : q = job[r]
  BY DEF ReadersInv, ReadersTypeOK
<1>2. PICK met : met = overlap'[r]
  OBVIOUS
<1>3. ASSUME NEW from, NEW to, to # "idle", NEW p \in Job, ReaderGoes(r, from, to, p)
      PROVE  CoverOK(from, q, met) /\ PageOK(from, q)
  <2>1. rpc[r] = from /\ rpc'[r] # "idle"
    BY <1>3 DEF ReaderGoes, ReadersInv, ReadersTypeOK
  <2> QED BY <1>1, <1>2, <2>1, AtCover
<1>4. CASE QueryPaths(r)
  <2>1. PICK p \in Job : p = [q EXCEPT !.known = hasManifest, !.listed = manifest]
    BY JobFields DEF FilesInOrder, Inv, TypeOK, DiskTypeOK
  <2>2. /\ p.op = q.op /\ p.filter = q.filter /\ p.since = q.since /\ p.got = q.got
        /\ p.next = q.next /\ p.resume = q.resume /\ p.listed = manifest
    BY <2>1 DEF Job
  <2>3. ReaderGoes(r, "paths", "listed", p)
    BY <1>1, <1>4, <2>1 DEF QueryPaths
  <2>4. Covers("paths", q) => Covers("listed", p)
    BY <2>2 DEF Covers, GoneBy, PageSteps
  <2>5. CoverOK("listed", p, met)
    BY <1>3, <2>2, <2>3, <2>4 DEF CoverOK
  <2> QED BY <1>2, <2>3, <2>5, CoverGoesOn
<1>5. CASE QueryOpenActive(r)
  <2>1. PICK p \in Job : p = [q EXCEPT !.fd = OpenedActive]
    <3>1. OpenedActive \in Nat
      BY Layout DEF OpenedActive
    <3> QED BY <3>1, JobFields
  <2>2. /\ p.op = q.op /\ p.filter = q.filter /\ p.since = q.since /\ p.got = q.got
        /\ p.next = q.next /\ p.resume = q.resume /\ p.listed = q.listed /\ p.fd = NextSegment
    BY <2>1 DEF Job, OpenedActive
  <2>3. CASE ReaderGoes(r, "openLast", "readLast", p)
    <3>1. Covers("openLast", q) => Covers("readLast", p)
      BY <2>2 DEF Covers, GoneBy, PageSteps
    <3>2. CoverOK("readLast", p, met)
      BY <1>3, <2>2, <2>3, <3>1 DEF CoverOK
    <3> QED BY <1>2, <2>3, <3>2, CoverGoesOn
  <2>4. CASE ReaderGoes(r, "openLast", "failed", q)
    <3>1. CoverOK("failed", q, met)
      BY <1>3, <2>4 DEF CoverOK
    <3> QED BY <1>2, <2>4, <3>1, CoverGoesOn
  <2> QED BY <1>1, <1>5, <2>1, <2>3, <2>4 DEF QueryOpenActive
<1>6. CASE NextPage(r)
  <2>1. q.next \in Nat /\ q.next # NoToken
    BY <1>1, <1>6 DEF NextPage, Job
  <2>2. PICK p \in Job : p = [q EXCEPT !.resume = q.next, !.next = NoToken, !.room = PageLimit]
    BY <2>1, JobFields, ReaderAssumption
  <2>3. /\ p.op = q.op /\ p.filter = q.filter /\ p.since = q.since /\ p.got = q.got
        /\ p.next = NoToken /\ p.resume = q.next
    BY <2>2 DEF Job
  <2>4. ReaderGoes(r, "done", "paths", p)
    BY <1>1, <1>6, <2>2 DEF NextPage
  <2>5. Covers("done", q) => Covers("paths", p)
    BY <2>3 DEF Covers, GoneBy, PageSteps
  <2>6. CoverOK("paths", p, met)
    BY <1>3, <2>3, <2>4, <2>5 DEF CoverOK
  <2> QED BY <1>2, <2>4, <2>6, CoverGoesOn
<1>7. CASE Leave(r)
  <2>1. PICK from \in {"done", "failed"} : ReaderGoes(r, from, "idle", NoJob)
    BY <1>7 DEF Leave
  <2>2. PICK p \in Job : p = NoJob
    BY NoJobType
  <2>3. p.op = "none" /\ p.since = Genesis
    BY <2>2 DEF NoJob
  <2>4. IsPrefix(Genesis, DiskHead)
    BY GenesisFirst, BasesGrow
  <2>5. CoverOK("idle", p, met)
    BY <2>3, <2>4 DEF CoverOK
  <2> QED BY <1>2, <2>1, <2>2, <2>5, CoverGoesOn
<1> QED BY <1>4, <1>5, <1>6, <1>7

LEMMA CoverInvStep ==
  ASSUME Harmless, FilesInOrder, ReadersInv, PagesInv, CoverInv, [ReadersNext]_<<vars, readers>>
  PROVE  CoverInv'
<1>1. CASE UNCHANGED <<vars, readers>>
  <2>1. UNCHANGED <<DiskHead, NextSegment, manifest>> /\ \A n : Base(n)' = Base(n)
    BY <1>1 DEF vars, disk, DiskHead, NextSegment, Base, CarriedPrev, Disk
  <2>2. UNCHANGED <<rpc, job, overlap>>
    BY <1>1 DEF readers
  <2> QED BY <2>1, <2>2 DEF CoverInv, CoverOK, Covers, GoneBy
<1>2. CASE Next /\ UNCHANGED <<rpc, job, reads>> /\ Observe
  BY <1>2, CoverRests
<1>3. ASSUME NEW r \in Reader, ReaderCall(r) \/ ReaderStep(r), UNCHANGED vars, Observe
      PROVE  CoverInv'
  BY <1>3, CallKeepsCover, WalkKeepsCover, ListedKeepsCover, ActiveKeepsCover, QueryKeepsCover
     DEF ReaderStep
<1> QED BY <1>1, <1>2, <1>3 DEF ReadersNext

\* A quiet query has returned, at every step, what the log held at its call as far as its
\* page has gone, and a token stands for a match.
THEOREM CoverInvHolds ==
  ASSUME Harmless
  PROVE  ReadersSpec => []CoverInv
<1>1. ASSUME ReadersInit
      PROVE  CoverInv
  <2>1. DiskHead = Genesis /\ Genesis \in Hash
    BY <1>1, EmptySeq DEF ReadersInit, Init, DiskHead, Genesis, Hash
  <2> QED BY <1>1, <2>1, GenesisFirst DEF ReadersInit, CoverInv, CoverOK, NoJob
<1>2. /\ FilesInOrder /\ ReadersInv /\ PagesInv /\ CoverInv /\ [ReadersNext]_<<vars, readers>>
      => CoverInv'
  BY CoverInvStep
<1> QED BY <1>1, <1>2, FilesStayInOrder, ReadersInvHolds, PagesInvHolds, PTL DEF ReadersSpec

\* What was acknowledged before the call lies on the history at the call.
LEMMA AckedAtCall ==
  ASSUME FilesInOrder, NEW since \in Hash, IsPrefix(since, DiskHead),
         NEW a \in acked, Len(a.hash) <= Len(since)
  PROVE  a.seq + 1 \in 1..Len(since) /\ since[a.seq + 1] = Last(a.hash) /\ a.seq \in Nat
<1>1. a \in Ack /\ Len(a.hash) = a.seq + 1 /\ a.hash \in Heads
  BY DEF FilesInOrder, Inv, TypeOK, HonestInv, AcksCount, Heads
<1>2. a.hash \in Hash /\ a.seq \in Nat
  BY <1>1 DEF Ack
<1>3. DiskHead \in Hash /\ IsPrefix(a.hash, DiskHead)
  BY <1>1, HeadsOnDisk DEF FilesInOrder
<1>4. Len(since) \in Nat /\ a.seq + 1 \in 1..Len(a.hash) /\ a.seq + 1 \in 1..Len(since)
  BY <1>1, <1>2, LenProperties DEF Hash
<1>5. a.hash[a.seq + 1] = DiskHead[a.seq + 1] /\ since[a.seq + 1] = DiskHead[a.seq + 1]
  BY <1>2, <1>3, <1>4, PrefixAt DEF Hash
<1>6. Last(a.hash) = a.hash[a.seq + 1]
  BY <1>1 DEF Last
<1> QED BY <1>2, <1>4, <1>5, <1>6

\* A match on the history is a match in a file.
LEMMA MatchIsInAFile ==
  ASSUME FilesInOrder, NEW q \in Job, NEW k \in 1..Len(DiskHead), q.next \in Nat, k > q.next,
         DiskHead[k].event \in q.filter
  PROVE  \E f \in {active} \cup Range(segs) : \E i \in DOMAIN f :
           Matches([q EXCEPT !.resume = q.next], f[i])
<1>1. PICK m \in Nat : m = Len(manifest) + 1 /\ m + 1 = Len(manifest) + 2
  BY Layout
<1>2. m \in 0..(Len(manifest) + 1) /\ k - 1 \in 0..(Len(Base(m + 1)) - 1) /\ k - 1 >= q.next
  BY <1>1, BasesGrow
<1>3. PICK n \in 1..m : \E line \in Range(Inode(n)) : StartsWithRecord(line) /\ line.rec.seq = k - 1
  BY <1>2, NoneIsMissing
<1>4. PICK line \in Range(Inode(n)) : StartsWithRecord(line) /\ line.rec.seq = k - 1
  BY <1>3
<1>5. line.rec \in Record /\ InLog(line.rec) /\ Inode(n) \in Seq(Line)
  <2>1. Inode(n) \in Seq(Line) /\ InLog(line.rec)
    BY <1>1, <1>3, <1>4, FileHolds DEF Spans
  <2>2. line \in Line
    BY <1>4, <2>1, SeqRange
  <2> QED BY <2>1, <2>2 DEF Line
<1>6. line.rec.event \in q.filter
  <2>1. k - 1 < Len(DiskHead) /\ (k - 1) + 1 = k
    BY BasesGrow
  <2> QED BY <1>4, <1>5, <2>1, EventAt
<1> DEFINE next == [q EXCEPT !.resume = q.next]
<1>7. next.resume = q.next /\ next.filter = q.filter
  BY DEF Job
<1> HIDE DEF next
<1>8. Matches(next, line)
  BY <1>2, <1>4, <1>6, <1>7 DEF Matches
<1>9. PICK i \in DOMAIN Inode(n) : line = Inode(n)[i]
  BY <1>4 DEF Range
<1>10. Inode(n) \in {active} \cup Range(segs)
  BY DEF Inode, Range
<1> QED BY <1>8, <1>9, <1>10 DEF next

\* A query that no rotation met returns, once its pages are followed to the end, every
\* match acknowledged before the call, and a next_token is no phantom (runQuery, B-015).
THEOREM QuietQueriesAreComplete ==
  ASSUME Harmless
  PROVE  ReadersSpec => []QuietQueryIsComplete
<1>1. FilesInOrder /\ ReadersInv /\ CoverInv => QuietQueryIsComplete
  <2> SUFFICES ASSUME FilesInOrder, ReadersInv, CoverInv, NEW r \in Reader, Replied(r, "query")
               PROVE  /\ job[r].next = NoToken /\ "rotate" \notin overlap[r] => Missing(r) = {}
                      /\ job[r].next # NoToken /\ "emit" \notin overlap[r] =>
                           \E f \in {active} \cup Range(segs) : \E i \in DOMAIN f :
                             Matches([job[r] EXCEPT !.resume = job[r].next], f[i])
    BY DEF QuietQueryIsComplete
  <2>1. PICK q \in Job : q = job[r]
    BY DEF ReadersInv, ReadersTypeOK
  <2>2. CoverOK("done", q, overlap[r]) /\ q.op = "query"
    BY <2>1 DEF CoverInv, Replied
  <2>3. ASSUME q.next = NoToken, "rotate" \notin overlap[r], NEW a \in acked,
               Len(a.hash) <= Len(q.since), Last(a.hash).event \in q.filter
        PROVE  \E i \in DOMAIN q.got : q.got[i].seq = a.seq
    <3>1. /\ a.seq + 1 \in 1..Len(q.since) /\ q.since[a.seq + 1] = Last(a.hash)
          /\ a.seq \in Nat /\ (a.seq + 1) - 1 = a.seq
      BY <2>2, <2>3, AckedAtCall DEF CoverOK, Job
    <3>2. GoneBy("done", q, (a.seq + 1) - 1)
      BY <2>3 DEF GoneBy, PageSteps
    <3>3. \E x \in Range(q.got) : x.seq = a.seq
      BY <2>2, <2>3, <3>1, <3>2 DEF CoverOK, Covers
    <3> QED BY <3>3 DEF Range
  <2>4. ASSUME q.next # NoToken, "emit" \notin overlap[r]
        PROVE  \E f \in {active} \cup Range(segs) : \E i \in DOMAIN f :
                 Matches([q EXCEPT !.resume = q.next], f[i])
    <3>1. q.next \in Nat
      BY <2>4 DEF Job
    <3>2. PICK k \in 1..Len(DiskHead) : k > q.next /\ DiskHead[k].event \in q.filter
      BY <2>2, <2>4 DEF CoverOK
    <3> QED BY <3>1, <3>2, MatchIsInAFile
  <2> QED BY <2>1, <2>3, <2>4 DEF Missing
<1> QED BY <1>1, FilesStayInOrder, ReadersInvHolds, CoverInvHolds, PTL
=============================================================================
