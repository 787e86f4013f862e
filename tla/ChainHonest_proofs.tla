-------------------------- MODULE ChainHonest_proofs --------------------------
(***************************************************************************)
(* What audit-trail promises when nothing goes wrong that it does not      *)
(* claim to survive: Emit's write or Rotate's rename fails with nothing    *)
(* done, or the process dies outside the window between Rotate's rename    *)
(* and its manifest, any number of times and in any order with emits,      *)
(* rotations and checkpoints.  Then one history is all there is: the files *)
(* hold it, memory is at its head, every head vouched for is part of it,   *)
(* and the whole is an append-only log.                                    *)
(***************************************************************************)
EXTENDS ChainRefinesLog, Chain_proofs

\* The faults of which the code recovers, and readers that can read what Emit accepts.
Harmless ==
  /\ Faults \subseteq {"write", "rename", "crash"}
  /\ TooLong \subseteq Refused

\* The head that the rotated-out segments end in.
SealedHead == IF segs = << >> THEN Genesis ELSE Last(Last(segs)).rec.hash

AllListed == Len(segs) = Len(manifest) + (IF InWindow THEN 1 ELSE 0)

SealedLinks == SealedHead = IF InWindow THEN rot.cp.root_hash ELSE SealedTo

\* The active segment links from where the manifest stops, and hash lengths count records.
ActiveLinks ==
  /\ SoundFile(active, SealedTo)
  /\ Len(SealedTo) = manifestState(Disk).offset
  /\ \A i \in DOMAIN active :
       active[i].nl /\ Len(active[i].rec.hash) = Len(SealedTo) + i

RotationSound ==
  \A h \in Handler :
    /\ pc[h] = "rename" => active # << >>
    /\ pc[h] = "fresh" => active = << >>
    /\ pc[h] \in Flying => rot.cp.tree_size = Len(rot.cp.root_hash)

ActiveThere ==
  /\ hasActive \/ active = << >>
  /\ up /\ ~hasActive => \E h \in Handler : pc[h] \in InTheWindow \cup {"fresh"}

\* Memory is at the head of the files, or one record behind an emit that has written.
MemoryIsHead ==
  up => /\ seq = Len(prevHash)
        /\ \A h \in Handler : pc[h] = "sync" => Last(active).rec = EmittedRecord(h)
        /\ (\A h \in Handler : pc[h] # "sync") => prevHash = DiskHead

AcksCount == \A a \in acked : Len(a.hash) = a.seq + 1

HonestInv ==
  /\ AllListed /\ SealedLinks /\ ActiveLinks /\ RotationSound
  /\ ActiveThere /\ MemoryIsHead /\ AcksCount

-----------------------------------------------------------------------------
(* What the invariant says of the head *)

LEMMA WindowNames == InWindow <=> \E h \in Handler : pc[h] \in InTheWindow
BY DEF InWindow, InTheWindow

\* Outside the window the head of the files is that of the active segment.
LEMMA HeadOutside ==
  ASSUME SealedLinks, ~InWindow
  PROVE  DiskHead = HeadAfter(active, SealedTo)
BY DEF SealedLinks, SealedHead, DiskHead, HeadAfter

LEMMA HeadInside ==
  ASSUME SealedLinks, EmptyInWindow, InWindow
  PROVE  active = << >> /\ DiskHead = rot.cp.root_hash
<1>1. active = << >>
  BY WindowNames DEF EmptyInWindow
<1> QED BY <1>1 DEF SealedLinks, SealedHead, DiskHead

LEMMA HeadLength ==
  ASSUME Inv, ActiveLinks
  PROVE  Len(HeadAfter(active, SealedTo)) = Len(SealedTo) + Len(active)
<1>1. /\ active \in Seq(Line) /\ Len(active) \in Nat /\ DOMAIN active = 1..Len(active)
      /\ Len(SealedTo) \in Nat
  BY StateTypes, LenProperties DEF Hash
<1>2. CASE active = << >>
  BY <1>1, <1>2 DEF HeadAfter
<1>3. CASE active # << >>
  <2>1. Len(active) \in DOMAIN active
    BY <1>1, <1>3, EmptySeq
  <2> QED BY <1>3, <2>1 DEF ActiveLinks, HeadAfter, Last
<1> QED BY <1>2, <1>3

\* Every head vouched for is part of the one history that the files hold.
LEMMA HeadsOnDisk ==
  ASSUME Inv, HeadsInv, HonestInv
  PROVE  DiskHead \in Hash /\ \A g \in Heads : IsPrefix(g, DiskHead)
<1>1. Len(segs) \in Nat /\ Len(manifest) \in Nat
  BY StateTypes
<1>2. CASE InWindow
  <2>1. DiskHead = rot.cp.root_hash /\ Len(segs) = Len(manifest) + 1
    BY <1>2, HeadInside DEF HonestInv, HeadsInv, FilesInv, AllListed
  <2>2. PICK h \in Handler : pc[h] \in InTheWindow
    BY <1>2, WindowNames
  <2>3. Len(segs) <= Len(manifest) + 1
    BY <1>1, <2>1
  <2>4. \A g \in Heads : IsPrefix(g, rot.cp.root_hash)
    BY <2>2, <2>3 DEF HeadsInv, RotatedHoldsHeads
  <2>5. rot.cp.root_hash \in Hash
    BY StateTypes DEF Locals, Checkpoint
  <2> QED BY <2>1, <2>4, <2>5
<1>3. CASE ~InWindow
  <2>1. DiskHead = HeadAfter(active, SealedTo)
    BY <1>3, HeadOutside DEF HonestInv
  <2>2. Len(segs) <= Len(manifest)
    BY <1>1, <1>3 DEF HonestInv, AllListed
  <2>3. \A g \in Heads : IsPrefix(g, HeadAfter(active, SealedTo))
    BY <2>2 DEF HeadsInv, ActiveHoldsHeads, Holds, HonestInv, ActiveLinks
  <2> QED BY <2>1, <2>3, StateTypes
<1> QED BY <1>2, <1>3

-----------------------------------------------------------------------------
(* Steps *)

\* Files and memory stay, nobody enters or leaves the window or the place between an
\* emit's write and its return, and a rotation comes to its rename with its walk done.
LEMMA HonestQuiet ==
  ASSUME HonestInv, UNCHANGED <<active, segs, hasManifest, manifest, acked, memory, up>>,
         \A g \in Handler : pc'[g] = "sync" <=> pc[g] = "sync",
         \A g \in Handler : pc'[g] = "sync" => arg'[g] = arg[g],
         \A g \in Handler : pc'[g] \in InTheWindow <=> pc[g] \in InTheWindow,
         \A g \in Handler : pc'[g] \in InTheWindow => rot' = rot,
         \A g \in Handler : pc'[g] = "fresh" => pc[g] = "fresh",
         \A g \in Handler : pc'[g] = "rename" =>
           \/ pc[g] = "rename" /\ rot' = rot
           \/ active # << >> /\ rot'.cp.tree_size = Len(rot'.cp.root_hash),
         \/ hasActive' = TRUE
         \/ /\ hasActive' = hasActive
            /\ \A g \in Handler : pc[g] = "fresh" => pc'[g] = "fresh"
  PROVE  HonestInv'
<1> USE DEF HonestInv
<1>1. /\ SealedTo' = SealedTo /\ manifestState(Disk)' = manifestState(Disk)
      /\ SealedHead' = SealedHead /\ DiskHead' = DiskHead
  BY DEF SealedTo, manifestState, Disk, SealedHead, DiskHead
<1>2. InWindow' = InWindow /\ (InWindow => rot' = rot)
  BY DEF InWindow, InTheWindow
<1>3. AllListed' /\ SealedLinks'
  BY <1>1, <1>2 DEF AllListed, SealedLinks
<1>4. ActiveLinks'
  BY <1>1 DEF ActiveLinks
<1>5. RotationSound'
  BY DEF RotationSound, Flying, InTheWindow
<1>6. ActiveThere'
  BY DEF ActiveThere
<1>7. MemoryIsHead'
  <2>1. \A g \in Handler : pc'[g] = "sync" => EmittedRecord(g)' = EmittedRecord(g)
    BY SameRecord
  <2> QED BY <1>1, <2>1 DEF MemoryIsHead, memory
<1>8. AcksCount'
  BY DEF AcksCount
<1> QED BY <1>3, <1>4, <1>5, <1>6, <1>7, <1>8

\* A return of the only handler inside, from a place where it had written nothing.
LEMMA HonestReturn ==
  ASSUME Inv, HonestInv, NEW h \in Handler,
         Emit(h) \/ Rotate(h) \/ CreateCheckpoint(h),
         pc[h] \notin {"sync"} \cup InTheWindow, pc'[h] = "idle",
         UNCHANGED <<active, segs, hasManifest, manifest, acked, memory, up>>,
         hasActive' = TRUE \/ (hasActive' = hasActive /\ pc[h] # "fresh")
  PROVE  HonestInv'
<1>1. TypeOK /\ pc[h] \in Inside
  BY InsideSteps DEF Inv
<1>2. \A g \in Handler \ {h} : pc'[g] = pc[g] /\ pc'[g] \notin Inside
  BY <1>1, OthersOutside
<1>3. \A g \in Handler : /\ pc'[g] \notin {"sync", "fresh", "rename"} \cup InTheWindow
                         /\ pc[g] \notin {"sync"} \cup InTheWindow
  BY <1>2 DEF InTheWindow, Inside, InEmit, InRotate
<1>4. \/ hasActive' = TRUE
      \/ /\ hasActive' = hasActive
         /\ \A g \in Handler : pc[g] = "fresh" => pc'[g] = "fresh"
  BY <1>2
<1> QED BY <1>3, <1>4, HonestQuiet

LEMMA HonestCall ==
  ASSUME Inv, HonestInv, NEW h \in Handler, Call(h) \/ Lock(h)
  PROVE  HonestInv'
<1>1. UNCHANGED <<hasActive, active, segs, hasManifest, manifest, acked, memory, up, rot>>
  BY DEF Call, EmitCall, RotateCall, CreateCall, Lock, disk, told
<1>2. \A g \in Handler : \/ pc'[g] = pc[g] /\ arg'[g] = arg[g]
                         \/ /\ pc[g] \in {"idle"} \cup Waiting
                            /\ pc'[g] \in Waiting \cup {"write", "prepare", "build"}
  BY DEF Call, EmitCall, RotateCall, CreateCall, Lock, FirstStep, Waiting, Inv, TypeOK,
         ThreadsTypeOK
<1> QED BY <1>1, <1>2, HonestQuiet DEF InTheWindow, Waiting

LEMMA HonestWrite ==
  ASSUME Harmless, Inv, DownIsIdle, HonestInv, NEW h \in Handler, EmitWrite(h)
  PROVE  /\ HonestInv'
         /\ EmittedRecord(h).prev_hash = DiskHead /\ DiskHead' = EmittedRecord(h).hash
         /\ seq = Len(DiskHead)
<1> DEFINE rec == EmittedRecord(h)
<1>1. /\ pc[h] = "write" /\ pc'[h] = "sync" /\ hasActive'
      /\ active' = AppendLine(active, Whole(rec)) /\ arg[h] \notin Refused
      /\ UNCHANGED <<segs, hasManifest, manifest, acked, memory, up, arg, rot>>
      /\ TypeOK
  BY DEF EmitWrite, Advance, StepAfter, Inv, TypeOK, ThreadsTypeOK, told
<1>2. pc[h] \in Inside /\ Emit(h)
  BY <1>1 DEF Inside, InEmit, Emit
<1>3. \A g \in Handler \ {h} : pc'[g] = pc[g] /\ pc'[g] \notin Inside
  BY <1>1, <1>2, OthersOutside
<1>4. ~InWindow /\ ~InWindow'
  BY <1>1, <1>3 DEF InWindow, Inside, InRotate
<1>5. up
  BY <1>1 DEF DownIsIdle
<1>6. /\ rec \in Record /\ rec.hash \in Hash /\ rec.event = arg[h] /\ rec.seq = seq
      /\ rec.prev_hash = prevHash
      /\ rec.hash = hashRecord(prevHash, BodyOf(rec))
  <2>1. rec \in Record /\ rec.hash \in Hash
    BY <1>1, EmittedRecordType DEF InEmit
  <2> QED BY <2>1 DEF EmittedRecord, NewRecord, BodyOf
<1>7. /\ active \in Seq(Line) /\ SealedTo \in Hash /\ Len(active) \in Nat
      /\ DOMAIN active = 1..Len(active) /\ Len(SealedTo) \in Nat
  BY StateTypes, LenProperties DEF Hash
<1>8. DiskHead = HeadAfter(active, SealedTo)
  BY <1>4, HeadOutside DEF HonestInv
<1>9. prevHash = DiskHead /\ seq = Len(prevHash)
  <2>1. \A g \in Handler : pc[g] # "sync"
    BY <1>1, <1>3 DEF Inside, InEmit
  <2> QED BY <1>5, <2>1 DEF HonestInv, MemoryIsHead
<1>10. /\ active' = Append(active, Whole(rec))
       /\ SoundFile(active', SealedTo)
  <2>1. rec.event \notin TooLong
    BY <1>1, <1>6 DEF Harmless
  <2>2. SoundFile(active, SealedTo) /\ \A i \in DOMAIN active : active[i].nl
    BY DEF HonestInv, ActiveLinks
  <2> HIDE DEF rec
  <2> QED BY <1>1, <1>6, <1>7, <1>8, <1>9, <2>1, <2>2, SoundAppend
<1> HIDE DEF rec
<1>11. /\ active' \in Seq(Line) /\ Len(active') = Len(active) + 1 /\ active' # << >>
       /\ DOMAIN active' = 1..(Len(active) + 1) /\ Last(active').rec = rec
       /\ active'[Len(active) + 1] = Whole(rec)
       /\ \A i \in DOMAIN active : active'[i] = active[i]
  <2>1. Whole(rec) \in Line /\ Whole(rec).rec = rec
    BY <1>6, LineTypes DEF Whole
  <2>2. Last(active') = Whole(rec)
    BY <1>7, <1>10, <2>1, FrontOfAppend
  <2> QED BY <1>7, <1>10, <2>1, <2>2, EmptySeq, LenProperties
<1>12. SealedTo' = SealedTo /\ manifestState(Disk)' = manifestState(Disk)
       /\ SealedHead' = SealedHead
  BY <1>1 DEF SealedTo, manifestState, Disk, SealedHead
<1>13. AllListed' /\ SealedLinks'
  BY <1>1, <1>4, <1>12 DEF HonestInv, AllListed, SealedLinks
<1>14. Len(rec.hash) = Len(SealedTo) + (Len(active) + 1)
  <2>1. Len(prevHash) = Len(SealedTo) + Len(active)
    BY <1>8, <1>9, HeadLength DEF HonestInv
  <2>2. prevHash \in Hash /\ BodyOf(rec) \in Body
    BY <1>1, <1>6 DEF TypeOK, BodyOf, Body, Record
  <2>3. Len(rec.hash) = Len(prevHash) + 1
    BY <1>6, <2>2 DEF hashRecord, Hash
  <2> QED BY <1>7, <2>1, <2>3
<1>15. ActiveLinks'
  <2>1. ASSUME NEW i \in DOMAIN active'
        PROVE  active'[i].nl /\ Len(active'[i].rec.hash) = Len(SealedTo) + i
    <3>1. CASE i = Len(active) + 1
      BY <1>11, <1>14, <3>1 DEF Whole
    <3>2. CASE i # Len(active) + 1
      <4>1. i \in DOMAIN active
        BY <1>7, <1>11, <3>2
      <4> QED BY <1>11, <4>1 DEF HonestInv, ActiveLinks
    <3> QED BY <3>1, <3>2
  <2> QED BY <1>10, <1>12, <2>1 DEF HonestInv, ActiveLinks
<1>16. RotationSound' /\ ActiveThere'
  BY <1>1, <1>3 DEF RotationSound, ActiveThere, Flying, Inside, InRotate
<1>17. rec' = rec
  BY <1>1, SameRecord DEF rec
<1>18. MemoryIsHead'
  <2>1. \A g \in Handler : pc'[g] = "sync" => g = h
    BY <1>3 DEF Inside, InEmit
  <2>2. Last(active').rec = EmittedRecord(h)'
    BY <1>11, <1>17 DEF rec
  <2> QED BY <1>1, <1>9, <2>1, <2>2 DEF MemoryIsHead, memory
<1>19. AcksCount'
  BY <1>1 DEF HonestInv, AcksCount
<1>20. DiskHead' = rec.hash
  BY <1>11 DEF DiskHead
<1> QED BY <1>6, <1>9, <1>13, <1>15, <1>16, <1>18, <1>19, <1>20 DEF HonestInv, rec

LEMMA HonestEmitReturn ==
  ASSUME Inv, HonestInv, NEW h \in Handler, EmitReturn(h), DownIsIdle
  PROVE  HonestInv' /\ EmittedRecord(h).hash = DiskHead
<1> DEFINE rec == EmittedRecord(h)
<1>1. /\ pc[h] = "sync" /\ pc'[h] = "idle" /\ TypeOK
      /\ UNCHANGED <<hasActive, active, segs, hasManifest, manifest, up>>
      /\ seq' = seq + 1 /\ prevHash' = rec.hash
      /\ acked' = acked \cup {[seq |-> seq, hash |-> rec.hash]}
  BY ReturnLeaves DEF EmitReturn, Inv, disk
<1>2. pc[h] \in Inside /\ Emit(h)
  BY <1>1 DEF Inside, InEmit, Emit
<1>3. \A g \in Handler \ {h} : pc'[g] = pc[g] /\ pc'[g] \notin Inside
  BY <1>1, <1>2, OthersOutside
<1>4. \A g \in Handler : pc'[g] \notin Inside
  BY <1>1, <1>3 DEF Inside, InEmit, InRotate
<1>5. ~InWindow /\ ~InWindow'
  BY <1>1, <1>3 DEF InWindow, Inside, InRotate
<1>6. /\ SealedTo' = SealedTo /\ manifestState(Disk)' = manifestState(Disk)
      /\ SealedHead' = SealedHead /\ DiskHead' = DiskHead
  BY <1>1 DEF SealedTo, manifestState, Disk, SealedHead, DiskHead
<1>7. rec.hash = DiskHead
  <2>1. up /\ active # << >>
    BY <1>1 DEF DownIsIdle, Inv, InFlight
  <2> QED BY <1>1, <2>1 DEF HonestInv, MemoryIsHead, DiskHead
<1>8. Len(rec.hash) = seq + 1 /\ seq \in Nat
  <2>1. prevHash \in Hash /\ seq \in Nat /\ seq = Len(prevHash)
    BY <1>1 DEF TypeOK, HonestInv, MemoryIsHead, DownIsIdle
  <2>2. [seq |-> seq, event |-> arg[h]] \in Body
    BY <1>1, <2>1 DEF TypeOK, ThreadsTypeOK, InEmit, Body
  <2>3. rec.hash = Append(prevHash, [seq |-> seq, event |-> arg[h]])
    BY DEF EmittedRecord, NewRecord, hashRecord
  <2> QED BY <2>1, <2>2, <2>3 DEF Hash
<1> HIDE DEF rec
<1>9. AllListed' /\ SealedLinks' /\ ActiveLinks'
  BY <1>1, <1>5, <1>6 DEF HonestInv, AllListed, SealedLinks, ActiveLinks
<1>10. RotationSound'
  BY <1>4 DEF RotationSound, Flying, Inside, InRotate
<1>11. ActiveThere'
  <2>1. \A g \in Handler : pc[g] \notin InTheWindow \cup {"fresh"}
    BY <1>1, <1>3 DEF InTheWindow, Inside, InRotate
  <2> QED BY <1>1, <2>1 DEF HonestInv, ActiveThere
<1>12. MemoryIsHead'
  BY <1>1, <1>4, <1>6, <1>7, <1>8 DEF MemoryIsHead, Inside, InEmit
<1>13. AcksCount'
  BY <1>1, <1>8 DEF HonestInv, AcksCount
<1> QED BY <1>7, <1>9, <1>10, <1>11, <1>12, <1>13 DEF HonestInv, rec

LEMMA HonestEmit ==
  ASSUME Harmless, Inv, DownIsIdle, HonestInv, NEW h \in Handler, Emit(h)
  PROVE  HonestInv'
<1>1. CASE EmitRefused(h)
  <2>1. pc[h] = "write" /\ pc'[h] = "idle"
    BY <1>1, ReturnLeaves DEF EmitRefused, Inv
  <2>2. UNCHANGED <<hasActive, active, segs, hasManifest, manifest, acked, memory, up>>
    BY <1>1 DEF EmitRefused, disk, told
  <2> QED BY <2>1, <2>2, HonestReturn DEF InTheWindow
<1>2. CASE EmitWriteFails(h)
  <2>1. pc[h] = "write" /\ pc'[h] = "idle"
    BY <1>2, ReturnLeaves DEF EmitWriteFails, Inv
  <2>2. /\ UNCHANGED <<active, segs, hasManifest, manifest, acked, memory, up>>
        /\ hasActive' = TRUE \/ hasActive' = hasActive
    BY <1>2 DEF EmitWriteFails, WritesInPart, Harmless, told
  <2> QED BY <2>1, <2>2, HonestReturn DEF InTheWindow
<1>3. CASE EmitSyncFails(h)
  BY <1>3 DEF EmitSyncFails, Harmless
<1> QED BY <1>1, <1>2, <1>3, HonestWrite, HonestEmitReturn DEF Emit

LEMMA HonestRename ==
  ASSUME Inv, ManifestInv, HonestInv, NEW h \in Handler, RotateRename(h)
  PROVE  HonestInv' /\ DiskHead' = DiskHead
<1>1. /\ pc[h] = "rename" /\ pc'[h] = "checkpoint" /\ active' = << >> /\ TypeOK
      /\ UNCHANGED <<hasManifest, manifest, rot, acked, memory, up>>
  BY DEF RotateRename, Advance, StepAfter, Inv, TypeOK, ThreadsTypeOK, told
<1>2. pc[h] \in Inside /\ Rotate(h)
  BY <1>1 DEF Inside, InRotate, Rotate
<1>3. \A g \in Handler \ {h} : pc'[g] = pc[g] /\ pc'[g] \notin Inside
  BY <1>1, <1>2, OthersOutside
<1>4. ~InWindow /\ InWindow'
  BY <1>1, <1>3 DEF InWindow, Inside, InRotate
<1>5. active # << >> /\ active \in Seq(Line) /\ segs \in Seq(Seq(Line)) /\ Len(manifest) \in Nat
  BY <1>1, StateTypes DEF HonestInv, RotationSound
<1>6. segs' = Append(segs, active)
  <2>1. rot.segNum = Len(segs) + 1
    BY <1>1 DEF Inv, InFlight
  <2> QED BY <1>5, <2>1, RenameAppends DEF RotateRename
<1>7. Len(segs') = Len(segs) + 1 /\ segs' # << >> /\ Last(segs') = active
  BY <1>5, <1>6, FrontOfAppend, EmptySeq
<1>8. rot.cp.root_hash = HeadAfter(active, SealedTo)
  <2>1. WalkStands("rename")
    BY <1>1 DEF ManifestInv, ManifestInFlight
  <2> QED BY <2>1, WalkReports DEF WalkStands, WalkedLines, SealedTo, payload
<1>9. SealedHead' = rot.cp.root_hash /\ DiskHead' = DiskHead
  BY <1>1, <1>5, <1>7, <1>8 DEF SealedHead, DiskHead, HeadAfter
<1>10. SealedTo' = SealedTo /\ manifestState(Disk)' = manifestState(Disk)
  BY <1>1 DEF SealedTo, manifestState, Disk
<1>11. AllListed' /\ SealedLinks'
  BY <1>1, <1>4, <1>5, <1>7, <1>9 DEF HonestInv, AllListed, SealedLinks
<1>12. ActiveLinks'
  BY <1>1, <1>10 DEF HonestInv, ActiveLinks, SoundFile
<1>13. RotationSound'
  BY <1>1, <1>3 DEF HonestInv, RotationSound, Flying, Inside, InRotate
<1>14. ActiveThere'
  BY <1>1 DEF ActiveThere, InTheWindow
<1>15. MemoryIsHead'
  <2>1. \A g \in Handler : pc[g] # "sync" /\ pc'[g] # "sync"
    BY <1>1, <1>3 DEF Inside, InEmit
  <2> QED BY <1>1, <1>9, <2>1 DEF HonestInv, MemoryIsHead, memory
<1>16. AcksCount'
  BY <1>1 DEF HonestInv, AcksCount
<1> QED BY <1>9, <1>11, <1>12, <1>13, <1>14, <1>15, <1>16 DEF HonestInv

LEMMA HonestManifest ==
  ASSUME Inv, HeadsInv, HonestInv, NEW h \in Handler, RotateManifest(h)
  PROVE  HonestInv' /\ DiskHead' = DiskHead
<1>1. /\ pc[h] = "manifest" /\ pc'[h] = "fresh" /\ hasManifest' = TRUE /\ TypeOK
      /\ manifest' = Append(manifest, RotateEntry)
      /\ UNCHANGED <<hasActive, active, segs, rot, acked, memory, up>>
  BY DEF RotateManifest, Advance, StepAfter, Inv, TypeOK, ThreadsTypeOK, told
<1>2. pc[h] \in Inside /\ Rotate(h)
  BY <1>1 DEF Inside, InRotate, Rotate
<1>3. \A g \in Handler \ {h} : pc'[g] = pc[g] /\ pc'[g] \notin Inside
  BY <1>1, <1>2, OthersOutside
<1>4. InWindow /\ ~InWindow'
  BY <1>1, <1>3 DEF InWindow, Inside, InRotate
<1>5. active = << >>
  BY <1>4, HeadInside DEF HonestInv, HeadsInv, FilesInv
<1>6. RotateEntry \in Entry
  BY <1>1 DEF RotateEntry, Entry, TypeOK, ThreadsTypeOK, Locals, Checkpoint
<1>7. Len(manifest') = Len(manifest) + 1 /\ manifest' # << >> /\ Last(manifest') = RotateEntry
  BY <1>1, <1>6, StateTypes, FrontOfAppend, EmptySeq
<1>8. SealedTo' = rot.cp.root_hash /\ manifestState(Disk)'.offset = rot.cp.last_seq + 1
  BY <1>1, <1>7 DEF SealedTo, manifestState, Disk, RotateEntry
<1>9. Len(rot.cp.root_hash) = rot.cp.last_seq + 1
  <2>1. rot.cp.last_seq = rot.cp.tree_size - 1
    BY <1>1 DEF Inv, InFlight, signable
  <2>2. rot.cp.tree_size = Len(rot.cp.root_hash)
    BY <1>1 DEF HonestInv, RotationSound, Flying
  <2>3. rot.cp.tree_size \in Nat
    BY StateTypes DEF Locals, Checkpoint
  <2> QED BY <2>1, <2>2, <2>3
<1>10. SealedHead' = SealedHead /\ DiskHead' = DiskHead
  BY <1>1 DEF SealedHead, DiskHead
<1>11. AllListed' /\ SealedLinks'
  BY <1>1, <1>4, <1>7, <1>8, <1>10, StateTypes DEF HonestInv, AllListed, SealedLinks
<1>12. ActiveLinks'
  BY <1>1, <1>5, <1>8, <1>9 DEF ActiveLinks, SoundFile
<1>13. RotationSound'
  BY <1>1, <1>3, <1>5 DEF HonestInv, RotationSound, Flying, Inside, InRotate
<1>14. ActiveThere'
  BY <1>1, <1>5 DEF ActiveThere
<1>15. MemoryIsHead'
  <2>1. \A g \in Handler : pc[g] # "sync" /\ pc'[g] # "sync"
    BY <1>1, <1>3 DEF Inside, InEmit
  <2> QED BY <1>1, <1>10, <2>1 DEF HonestInv, MemoryIsHead, memory
<1>16. AcksCount'
  BY <1>1 DEF HonestInv, AcksCount
<1> QED BY <1>10, <1>11, <1>12, <1>13, <1>14, <1>15, <1>16 DEF HonestInv

\* The checkpoint of the walk counts the records of its history.
LEMMA WalkCounts ==
  ASSUME Inv, HonestInv, ActiveState.valid, countRecords(Disk) >= RotateAfter
  PROVE  active # << >> /\ payload(ActiveState).tree_size = Len(payload(ActiveState).root_hash)
<1>1. ActiveState = verifyChainStateFrom(active, SealedTo, manifestState(Disk).offset)
  BY BrokenType DEF ActiveState, walkActive, Disk, SealedTo
<1>2. /\ ActiveState.root_hash = HeadAfter(active, SealedTo)
      /\ ActiveState.tree_size = manifestState(Disk).offset + Len(active)
  BY <1>1, WalkReports
<1>3. ActiveState.tree_size = Len(ActiveState.root_hash)
  BY <1>2, HeadLength DEF HonestInv, ActiveLinks
<1>4. active # << >>
  BY ConstantsAssumption DEF countRecords, Disk
<1> QED BY <1>3, <1>4 DEF payload

LEMMA HonestRotate ==
  ASSUME Harmless, Inv, ManifestInv, HeadsInv, HonestInv, NEW h \in Handler, Rotate(h)
  PROVE  HonestInv'
<1>1. TypeOK /\ pc[h] \in Inside
  BY InsideSteps DEF Inv
<1>2. \A g \in Handler \ {h} : pc'[g] = pc[g] /\ pc'[g] \notin Inside
  BY <1>1, OthersOutside
<1>3. CASE RotateRefused(h)
  <2>1. pc[h] = "prepare" /\ pc'[h] = "idle"
    BY <1>1, <1>3, ReturnLeaves DEF RotateRefused
  <2>2. UNCHANGED <<hasActive, active, segs, hasManifest, manifest, acked, memory, up>>
    BY <1>3 DEF RotateRefused, disk, told
  <2> QED BY <2>1, <2>2, HonestReturn DEF InTheWindow
<1>4. CASE RotateFresh(h)
  <2>1. pc[h] = "fresh" /\ pc'[h] = "idle"
    BY <1>1, <1>4, ReturnLeaves DEF RotateFresh
  <2>2. /\ UNCHANGED <<active, segs, hasManifest, manifest, acked, memory, up>>
        /\ hasActive' = TRUE
    BY <1>4 DEF RotateFresh, told
  <2> QED BY <2>1, <2>2, HonestReturn DEF InTheWindow
<1>5. CASE RotateFails(h)
  <2>1. pc[h] = "rename" /\ pc'[h] = "idle"
    BY <1>1, <1>5, ReturnLeaves DEF RotateFails, RotateFaults, Harmless
  <2>2. UNCHANGED <<hasActive, active, segs, hasManifest, manifest, acked, memory, up>>
    BY <1>5, <2>1 DEF RotateFails, told
  <2> QED BY <2>1, <2>2, HonestReturn DEF InTheWindow
<1>6. CASE RotatePrepare(h)
  <2>1. pc[h] = "prepare" /\ pc'[h] = "rename"
    BY <1>1, <1>6 DEF RotatePrepare, Advance, StepAfter, TypeOK, ThreadsTypeOK
  <2>2. /\ UNCHANGED <<hasActive, active, segs, hasManifest, manifest, acked, memory, up>>
        /\ rot'.cp = payload(ActiveState)
    BY <1>6 DEF RotatePrepare, disk, told
  <2>3. active # << >> /\ rot'.cp.tree_size = Len(rot'.cp.root_hash)
    BY <1>6, <2>2, WalkCounts DEF RotatePrepare, Rotatable
  <2>4. \A g \in Handler : /\ pc'[g] \notin {"sync", "fresh"} \cup InTheWindow
                           /\ pc[g] \notin {"sync", "fresh"} \cup InTheWindow
    BY <1>2, <2>1 DEF InTheWindow, Inside, InEmit, InRotate
  <2> QED BY <2>2, <2>3, <2>4, HonestQuiet
<1>7. CASE RotateCheckpoint(h)
  <2>1. pc[h] = "checkpoint" /\ pc'[h] = "manifest"
    BY <1>1, <1>7 DEF RotateCheckpoint, Advance, StepAfter, TypeOK, ThreadsTypeOK
  <2>2. UNCHANGED <<hasActive, active, segs, hasManifest, manifest, acked, memory, up, rot>>
    BY <1>7 DEF RotateCheckpoint
  <2>3. \A g \in Handler : /\ pc'[g] \notin {"sync", "fresh", "rename"}
                           /\ pc[g] \notin {"sync", "fresh", "rename"}
                           /\ pc'[g] \in InTheWindow <=> pc[g] \in InTheWindow
    BY <1>2, <2>1 DEF InTheWindow, Inside, InEmit, InRotate
  <2> QED BY <2>2, <2>3, HonestQuiet
<1> QED BY <1>3, <1>4, <1>5, <1>6, <1>7, HonestRename, HonestManifest DEF Rotate

LEMMA HonestCreate ==
  ASSUME Inv, HonestInv, NEW h \in Handler, CreateCheckpoint(h)
  PROVE  HonestInv'
<1>1. pc[h] = "build" /\ pc'[h] = "idle"
  BY ReturnLeaves DEF CreateCheckpoint, Inv
<1>2. UNCHANGED <<hasActive, active, segs, hasManifest, manifest, acked, memory, up>>
  BY DEF CreateCheckpoint, disk
<1> QED BY <1>1, <1>2, HonestReturn DEF InTheWindow

LEMMA HonestCrash ==
  ASSUME Harmless, HonestInv, Crash
  PROVE  HonestInv'
<1>1. /\ ~InWindow /\ up' = FALSE /\ \A g \in Handler : pc'[g] = "idle"
      /\ UNCHANGED <<hasActive, active, segs, hasManifest, manifest, acked>>
  BY DEF Crash, Die, WritesInPart, Harmless, told
<1>2. ~InWindow'
  BY <1>1 DEF InWindow
<1>3. /\ SealedTo' = SealedTo /\ manifestState(Disk)' = manifestState(Disk)
      /\ SealedHead' = SealedHead
  BY <1>1 DEF SealedTo, manifestState, Disk, SealedHead
<1>4. AllListed' /\ SealedLinks' /\ ActiveLinks'
  BY <1>1, <1>2, <1>3 DEF HonestInv, AllListed, SealedLinks, ActiveLinks
<1>5. RotationSound' /\ ActiveThere' /\ MemoryIsHead' /\ AcksCount'
  BY <1>1 DEF HonestInv, RotationSound, ActiveThere, MemoryIsHead, AcksCount, Flying
<1> QED BY <1>4, <1>5 DEF HonestInv

LEMMA HonestRestart ==
  ASSUME Inv, DownIsIdle, HonestInv, Restart
  PROVE  HonestInv'
<1>1. /\ \A g \in Handler : pc[g] = "idle"
      /\ UNCHANGED <<active, segs, hasManifest, manifest, acked, pc, rot>>
      /\ hasActive' = TRUE
      /\ seq' = loadState(Disk).seq /\ prevHash' = loadState(Disk).prevHash
  BY DEF Restart, DownIsIdle, threads, told
<1>2. ~InWindow /\ ~InWindow'
  BY <1>1 DEF InWindow
<1>3. /\ SealedTo' = SealedTo /\ manifestState(Disk)' = manifestState(Disk)
      /\ SealedHead' = SealedHead /\ DiskHead' = DiskHead
  BY <1>1 DEF SealedTo, manifestState, Disk, SealedHead, DiskHead
<1>4. countRecords(Disk) = Len(active)
  BY DEF HonestInv, ActiveThere, countRecords, Disk
<1>5. Len(active) = 0 <=> active = << >>
  BY StateTypes, EmptySeq
<1>6. loadState(Disk).prevHash = HeadAfter(active, SealedTo)
  BY <1>4, <1>5 DEF loadState, HeadAfter, SealedTo, Disk
<1>7. loadState(Disk).seq = Len(HeadAfter(active, SealedTo))
  BY <1>4, HeadLength DEF loadState, HonestInv, ActiveLinks
<1>8. DiskHead = HeadAfter(active, SealedTo)
  BY <1>2, HeadOutside DEF HonestInv
<1>9. AllListed' /\ SealedLinks' /\ ActiveLinks'
  BY <1>1, <1>2, <1>3 DEF HonestInv, AllListed, SealedLinks, ActiveLinks
<1>10. MemoryIsHead'
  BY <1>1, <1>3, <1>6, <1>7, <1>8 DEF MemoryIsHead
<1>11. RotationSound' /\ ActiveThere' /\ AcksCount'
  BY <1>1 DEF HonestInv, RotationSound, ActiveThere, AcksCount, Flying
<1> QED BY <1>9, <1>10, <1>11 DEF HonestInv

LEMMA HonestStutter ==
  ASSUME HonestInv, UNCHANGED vars
  PROVE  HonestInv'
<1>1. UNCHANGED <<hasActive, active, segs, hasManifest, manifest, acked, memory, up, pc, rot, arg>>
  BY DEF vars, disk, memory, threads, told
<1> QED BY <1>1, HonestQuiet

LEMMA HonestStep ==
  ASSUME Harmless, Inv, ManifestInv, DownIsIdle, HeadsInv, HonestInv, [Next]_vars
  PROVE  HonestInv'
BY HonestCall, HonestEmit, HonestRotate, HonestCreate, HonestCrash, HonestRestart,
   HonestStutter DEF Next, Step

LEMMA HonestInit == Init => HonestInv
<1> SUFFICES ASSUME Init
             PROVE  HonestInv
  OBVIOUS
<1>1. ~InWindow /\ manifestState(Disk).head = << >> /\ manifestState(Disk).offset = 0
  BY DEF Init, InWindow, manifestState, Disk, Genesis
<1>2. AllListed /\ SealedLinks
  BY <1>1 DEF Init, AllListed, SealedLinks, SealedHead, SealedTo, Genesis
<1>3. ActiveLinks
  BY <1>1 DEF Init, ActiveLinks, SealedTo, SoundFile
<1>4. MemoryIsHead
  BY DEF Init, MemoryIsHead, DiskHead, Genesis
<1>5. RotationSound /\ ActiveThere /\ AcksCount
  BY DEF Init, RotationSound, ActiveThere, AcksCount, Flying
<1> QED BY <1>2, <1>3, <1>4, <1>5 DEF HonestInv

-----------------------------------------------------------------------------
(* The theorems *)

\* With no fault but those the code recovers from, memory, files and manifest agree on one
\* history, in and between operations.
THEOREM HonestInvHolds ==
  ASSUME Harmless
  PROVE  Spec => []HonestInv
<1>1. Inv /\ ManifestInv /\ (DownIsIdle /\ HeadsInv) /\ HonestInv /\ [Next]_vars => HonestInv'
  BY HonestStep
<1> QED BY <1>1, HonestInit, InvHolds, ManifestInvHolds, HeadsStayHeld, PTL DEF Spec

\* No two heads that the log ever vouched for contradict each other.
THEOREM NeverEquivocates ==
  ASSUME Harmless
  PROVE  Spec => []NoEquivocation
<1>1. ASSUME Inv, HeadsInv, HonestInv
      PROVE  NoEquivocation
  <2> SUFFICES ASSUME NEW g \in Heads, NEW h \in Heads
               PROVE  IsPrefix(g, h) \/ IsPrefix(h, g)
    BY DEF NoEquivocation
  <2>1. DiskHead \in Hash /\ IsPrefix(g, DiskHead) /\ IsPrefix(h, DiskHead)
    BY <1>1, HeadsOnDisk
  <2> QED BY <1>1, <2>1, HeadsType, PrefixesCompare DEF Hash
<1>2. Inv /\ (DownIsIdle /\ HeadsInv) /\ HonestInv => NoEquivocation
  BY <1>1
<1> QED BY <1>2, HonestInvHolds, InvHolds, HeadsStayHeld, PTL

\* Whenever no operation is in progress the files verify, and verify reports the head that
\* the daemon will extend and every head it vouched for is part of.
THEOREM HonestLogStaysVerified ==
  ASSUME Harmless
  PROVE  Spec => []HonestLogVerifies
<1>1. ASSUME Inv, ManifestInv, HeadsInv, HonestInv
      PROVE  HonestLogVerifies
  <2> SUFFICES ASSUME up, mu = NoHandler
               PROVE  /\ Verdict.valid
                      /\ Verdict.root_hash = prevHash /\ Verdict.tree_size = seq
                      /\ \A a \in acked : a.seq < seq
                      /\ \A g \in Heads : IsPrefix(g, prevHash)
    BY DEF HonestLogVerifies
  <2>1. \A h \in Handler : pc[h] \notin Inside
    BY <1>1, ConstantsAssumption DEF Inv, TypeOK, ThreadsTypeOK
  <2>2. ~InWindow /\ \A h \in Handler : pc[h] \notin {"sync", "fresh"} \cup InTheWindow
    BY <2>1 DEF InWindow, InTheWindow, Inside, InEmit, InRotate
  <2>3. prevHash = DiskHead /\ seq = Len(prevHash) /\ hasActive
    BY <1>1, <2>2 DEF HonestInv, MemoryIsHead, ActiveThere
  <2>4. DiskHead = HeadAfter(active, SealedTo)
    BY <1>1, <2>2, HeadOutside DEF HonestInv
  <2>5. \A g \in Heads : IsPrefix(g, prevHash)
    BY <1>1, <2>3, HeadsOnDisk
  <2>6. ~uncoveredSegment(Disk)
    <3>1. highestSegmentOnDisk(segs) = Len(manifest) /\ Len(manifest) \in Nat
      BY <1>1, <2>2, StateTypes, HighestIsLen DEF HonestInv, AllListed
    <3> QED BY <3>1 DEF uncoveredSegment, Disk
  <2>7. Verdict = verifyChainStateFrom(active, SealedTo, manifestState(Disk).offset)
    <3>1. Verdict = walkActive(Disk, CarriedPrev(Disk, Len(manifest) + 1),
                                     CarriedOffset(Disk, Len(manifest) + 1))
      BY <1>1, <2>6 DEF ManifestInv, ManifestIsAChain, Verdict, verifyAllSegments, Disk
    <3>2. Verdict = walkActive(Disk, SealedTo, manifestState(Disk).offset)
      BY <1>1, <3>1, ResumePoint DEF ManifestInv, SealedTo
    <3> QED BY <2>3, <3>2 DEF walkActive, Disk
  <2>8. Verdict.valid
    BY <1>1, <2>7 DEF HonestInv, ActiveLinks, verifyChainStateFrom
  <2>9. /\ Verdict.root_hash = HeadAfter(active, SealedTo)
        /\ Verdict.tree_size = Len(SealedTo) + Len(active)
    BY <1>1, <2>7, <2>8, WalkReports DEF HonestInv, ActiveLinks
  <2>10. Verdict.tree_size = seq
    BY <1>1, <2>3, <2>4, <2>9, HeadLength DEF HonestInv
  <2>11. ASSUME NEW a \in acked
         PROVE  a.seq < seq
    <3>1. a.hash \in Heads /\ a.seq \in Nat /\ a.hash \in Hash
      BY <1>1 DEF Heads, Inv, TypeOK, Ack
    <3>2. prevHash \in Hash /\ seq \in Nat
      BY <1>1 DEF Inv, TypeOK
    <3>3. Len(a.hash) <= Len(prevHash)
      BY <2>5, <3>1 DEF IsPrefix
    <3>4. Len(a.hash) = a.seq + 1
      BY <1>1 DEF HonestInv, AcksCount
    <3> QED BY <2>3, <3>1, <3>2, <3>3, <3>4
  <2> QED BY <2>3, <2>4, <2>5, <2>8, <2>9, <2>10, <2>11
<1>2. Inv /\ ManifestInv /\ (DownIsIdle /\ HeadsInv) /\ HonestInv => HonestLogVerifies
  BY <1>1
<1> QED BY <1>2, HonestInvHolds, InvHolds, ManifestInvHolds, HeadsStayHeld, PTL

-----------------------------------------------------------------------------
(* The refinement of AppendOnlyLog *)

\* A step that leaves the lines of the files, and what was vouched for, alone.
LEMMA StutterOfLog ==
  ASSUME UNCHANGED <<active, segs, acked, signed>>
  PROVE  UNCHANGED <<DiskHead, Heads>>
BY DEF DiskHead, Heads

\* A step that vouches for the head of the files, or for none.
LEMMA VouchOfLog ==
  ASSUME UNCHANGED DiskHead, Heads' = Heads \/ Heads' = Heads \cup {DiskHead}
  PROVE  [Log!Next]_<<DiskHead, Heads>>
BY DEF Log!Next, Log!Vouch

LEMMA EmitRefines ==
  ASSUME Harmless, Inv, DownIsIdle, HonestInv, NEW h \in Handler, Emit(h)
  PROVE  [Log!Next]_<<DiskHead, Heads>>
<1>1. CASE EmitRefused(h) \/ EmitWriteFails(h) \/ EmitSyncFails(h)
  <2>1. UNCHANGED <<active, segs, acked, signed>>
    BY <1>1 DEF EmitRefused, EmitWriteFails, WritesInPart, EmitSyncFails, Harmless, disk,
                  told
  <2> QED BY <2>1, StutterOfLog
<1>2. CASE EmitWrite(h)
  <2>1. /\ EmittedRecord(h).prev_hash = DiskHead /\ DiskHead' = EmittedRecord(h).hash
        /\ seq = Len(DiskHead)
    BY <1>2, HonestWrite
  <2>2. arg[h] \in Event
    BY <1>2 DEF EmitWrite, Advance, InEmit, Inv, TypeOK, ThreadsTypeOK
  <2>3. DiskHead' = Append(DiskHead, [seq |-> Len(DiskHead), event |-> arg[h]])
    BY <2>1 DEF EmittedRecord, NewRecord, hashRecord
  <2>4. Heads' = Heads
    BY <1>2 DEF EmitWrite, told, Heads
  <2>5. Log!Write(arg[h])
    BY <2>3, <2>4 DEF Log!Write
  <2> QED BY <2>2, <2>5 DEF Log!Next
<1>3. CASE EmitReturn(h)
  <2>1. EmittedRecord(h).hash = DiskHead
    BY <1>3, HonestEmitReturn
  <2>2. /\ acked' = acked \cup {[seq |-> seq, hash |-> EmittedRecord(h).hash]}
        /\ UNCHANGED <<active, segs, signed>>
    BY <1>3 DEF EmitReturn, disk
  <2>3. DiskHead' = DiskHead
    BY <2>2 DEF DiskHead
  <2>4. Heads' = Heads \cup {DiskHead}
    <3> DEFINE reply == [seq |-> seq, hash |-> EmittedRecord(h).hash]
    <3>1. reply.hash = DiskHead /\ acked' = acked \cup {reply}
      BY <2>1, <2>2
    <3> HIDE DEF reply
    <3>2. {a.hash : a \in acked'} = {a.hash : a \in acked} \cup {reply.hash}
      BY <3>1
    <3> QED BY <2>2, <3>1, <3>2 DEF Heads
  <2> QED BY <2>3, <2>4, VouchOfLog
<1> QED BY <1>1, <1>2, <1>3 DEF Emit

LEMMA RotateRefines ==
  ASSUME Inv, ManifestInv, HeadsInv, HonestInv, NEW h \in Handler, Rotate(h)
  PROVE  [Log!Next]_<<DiskHead, Heads>>
<1>1. CASE RotateRefused(h) \/ RotatePrepare(h) \/ RotateFresh(h) \/ RotateFails(h)
  <2>1. UNCHANGED <<active, segs, acked, signed>>
    BY <1>1 DEF RotateRefused, RotatePrepare, RotateFresh, RotateFails, disk, told
  <2> QED BY <2>1, StutterOfLog
<1>2. CASE RotateRename(h)
  <2>1. DiskHead' = DiskHead
    BY <1>2, HonestRename
  <2>2. Heads' = Heads
    BY <1>2 DEF RotateRename, told, Heads
  <2> QED BY <2>1, <2>2
<1>3. CASE RotateManifest(h)
  <2>1. DiskHead' = DiskHead
    BY <1>3, HonestManifest
  <2>2. Heads' = Heads
    BY <1>3 DEF RotateManifest, told, Heads
  <2> QED BY <2>1, <2>2
<1>4. CASE RotateCheckpoint(h)
  <2>1. InWindow
    BY <1>4 DEF RotateCheckpoint, Advance, InWindow
  <2>2. DiskHead = rot.cp.root_hash
    BY <2>1, HeadInside DEF HonestInv, HeadsInv, FilesInv
  <2>3. UNCHANGED <<active, segs, acked>> /\ signed' = signed \cup {rot.cp}
    BY <1>4 DEF RotateCheckpoint
  <2>4. DiskHead' = DiskHead /\ Heads' = Heads \cup {DiskHead}
    BY <2>2, <2>3 DEF DiskHead, Heads
  <2> QED BY <2>4, VouchOfLog
<1> QED BY <1>1, <1>2, <1>3, <1>4 DEF Rotate

LEMMA CreateRefines ==
  ASSUME Inv, ManifestInv, HonestInv, NEW h \in Handler, CreateCheckpoint(h)
  PROVE  [Log!Next]_<<DiskHead, Heads>>
<1>1. UNCHANGED <<active, segs, acked>> /\ pc[h] = "build"
  BY DEF CreateCheckpoint, disk
<1>2. DiskHead' = DiskHead
  BY <1>1 DEF DiskHead
<1>3. CASE signed' = signed
  BY <1>1, <1>3, StutterOfLog
<1>4. CASE Verdict.valid /\ signed' = signed \cup {payload(Verdict)}
  <2>1. ~InWindow
    BY <1>1, OnlyOneInside DEF InWindow, Inside, InRotate, Inv
  <2>2. Verdict.root_hash = DiskHead
    BY <1>4, <2>1, VerdictReports, HeadOutside DEF HonestInv, ManifestInv, ManifestInFlight
  <2>3. payload(Verdict).root_hash = DiskHead
    BY <2>2 DEF payload
  <2>4. Heads' = Heads \cup {DiskHead}
    BY <1>1, <1>4, <2>3 DEF Heads
  <2> QED BY <1>2, <2>4, VouchOfLog
<1> QED BY <1>3, <1>4 DEF CreateCheckpoint, Verdict

LEMMA StepRefines ==
  ASSUME Harmless, Inv, ManifestInv, DownIsIdle, HeadsInv, HonestInv, [Next]_vars
  PROVE  [Log!Next]_<<DiskHead, Heads>>
<1>1. ASSUME NEW h \in Handler, Call(h) \/ Lock(h)
      PROVE  UNCHANGED <<active, segs, acked, signed>>
  BY <1>1 DEF Call, EmitCall, RotateCall, CreateCall, Lock, disk, told
<1>2. ASSUME Crash \/ Restart \/ UNCHANGED vars
      PROVE  UNCHANGED <<active, segs, acked, signed>>
  BY <1>2 DEF Crash, Die, WritesInPart, Restart, Harmless, vars, disk, told
<1> QED BY <1>1, <1>2, StutterOfLog, EmitRefines, RotateRefines, CreateRefines DEF Next, Step

\* The daemon with its files, segments, mutex, refusals, failing writes and renames,
\* crashes and restarts implements the log of AppendOnlyLog: every emit appends one record
\* with the next number at its write, and every head given out is the head of the ledger
\* at that moment.
THEOREM ChainImplementsLog ==
  ASSUME Harmless
  PROVE  Spec => ImplementsLog
<1>1. Init => Log!Init
  BY DEF Init, Log!Init, DiskHead, Heads, Genesis
<1>2. Inv /\ ManifestInv /\ (DownIsIdle /\ HeadsInv) /\ HonestInv /\ [Next]_vars
        => [Log!Next]_<<DiskHead, Heads>>
  BY StepRefines
<1> QED BY <1>1, <1>2, InvHolds, ManifestInvHolds, HeadsStayHeld, HonestInvHolds, PTL
        DEF Spec, ImplementsLog, Log!Spec
===============================================================================
