-------------------------- MODULE PowerLoss_proofs --------------------------
(***************************************************************************)
(* What the log keeps when the machine fails, for any handlers, events and *)
(* faults: no head that was made durable before it was vouched for is      *)
(* hidden by a valid verdict.                                              *)
(*                                                                         *)
(* The argument of HeadsStayHeld (Chain_proofs), for every content that a  *)
(* power loss can leave of the active segment instead of the one it has.   *)
(***************************************************************************)
EXTENDS PowerLoss, Chain_proofs

LeftTypeOK ==
  /\ left \in SUBSET Seq(Line) /\ active \in left
  /\ leftSegs \in Seq(SUBSET Seq(Line)) /\ Len(leftSegs) = Len(segs)
  /\ settled \subseteq Checkpoint

\* Whatever is left of the active segment holds every head that is kept.
LeftHoldsKept ==
  Len(segs) <= Len(manifest) => \A f \in left : Holds(f, SealedTo, Kept)

\* What Rotate is about to list holds every one, and nothing is in the air behind it.
RotatedHoldsKept ==
  \A h \in Handler : pc[h] \in InTheWindow =>
    /\ left = {<< >>}
    /\ Len(segs) <= Len(manifest) + 1 => \A g \in Kept : IsPrefix(g, rot.cp.root_hash)

PowerInv ==
  /\ Inv /\ WalksStand /\ DownIsIdle /\ FilesInv
  /\ LeftTypeOK /\ LeftHoldsKept /\ RotatedHoldsKept

LEMMA KeptType ==
  ASSUME Inv, LeftTypeOK
  PROVE  Kept \in SUBSET Hash
BY DEF Kept, LeftTypeOK, Inv, TypeOK, Ack, Checkpoint

-----------------------------------------------------------------------------
(* Steps of the daemon *)

\* One handler is at work.
LEMMA OneAtWork ==
  ASSUME Inv, NEW h \in Handler, NEW g \in Handler,
         Emit(h) \/ Rotate(h) \/ CreateCheckpoint(h),
         Emit(g) \/ Rotate(g) \/ CreateCheckpoint(g)
  PROVE  g = h
BY InsideSteps, OnlyOneInside DEF Inv

\* Whatever is left of a write is the file with a line at its end.
LEMMA PassedAppends ==
  ASSUME Inv, NEW h \in Handler, pc[h] = "write", NEW line \in Line,
         active' = AppendLine(active, line), NEW f \in Passed
  PROVE  \E l \in Line : f = AppendLine(active, l)
<1>1. mu = h
  BY DEF Inv, TypeOK, ThreadsTypeOK, Inside, InEmit
<1>2. CutInside(EmittedRecord(h)) \in Line /\ CutBeforeNewline(EmittedRecord(h)) \in Line
  BY EmittedRecordType, LineTypes DEF InEmit, Inv
<1>3. f \in {AppendLine(active, CutInside(EmittedRecord(h))), active',
             AppendLine(active, CutBeforeNewline(EmittedRecord(h)))}
  BY <1>1 DEF Passed
<1> QED BY <1>2, <1>3

\* A line more, whole or in part, at the end of what is left already.
LEMMA LeftWrite ==
  ASSUME Inv, LeftTypeOK, NEW h \in Handler, pc[h] = "write", NEW line \in Line,
         active' = AppendLine(active, line), left' = left \/ left' = left \cup Passed,
         active' # active => left' = left \cup Passed
  PROVE  /\ left' \in SUBSET Seq(Line) /\ active' \in left'
         /\ \A f \in left' : f \in left \/ \E l \in Line : f = AppendLine(active, l)
<1>1. \A f \in Passed : \E l \in Line : f = AppendLine(active, l)
  BY PassedAppends
<1>2. \A l \in Line : AppendLine(active, l) \in Seq(Line)
  BY StateTypes, AppendLineType
<1>3. active' \in Passed
  BY DEF Passed
<1> QED BY <1>1, <1>2, <1>3 DEF LeftTypeOK

\* The steps in which no operation goes on: calls, the mutex, a death, a restart.
LEMMA OutsideLeaves ==
  ASSUME Inv, Operate, \A h \in Handler : ~(Emit(h) \/ Rotate(h) \/ CreateCheckpoint(h))
  PROVE  /\ UNCHANGED <<segs, hasManifest, manifest, told, leftSegs, settled>>
         /\ left' = IF active' = active THEN left ELSE left \cup Passed
         /\ \/ UNCHANGED active
            \/ \E h \in Handler : /\ pc[h] = "write"
                                  /\ \E line \in Line : active' = AppendLine(active, line)
         /\ \A h \in Handler : pc'[h] \in InTheWindow => pc'[h] = pc[h] /\ rot' = rot
<1>1. \A h \in Handler : ~EmitReturn(h) /\ ~RotateRename(h) /\ ~CreateCheckpoint(h)
                         /\ ~RotateCheckpoint(h)
  BY DEF Emit, Rotate
<1>2. GivenOut = {}
  BY <1>1 DEF GivenOut
<1>3. /\ leftSegs' = leftSegs /\ settled' = settled
      /\ left' = IF active' = active THEN left ELSE left \cup Passed
  BY <1>1, <1>2 DEF Operate, Unsynced, Sealing, Settling
<1>4. CASE \E h \in Handler : Call(h) \/ Lock(h)
  BY <1>3, <1>4, CallSteps
<1>5. CASE Crash
  <2>1. UNCHANGED <<segs, hasManifest, manifest, told>> /\ \A h \in Handler : pc'[h] = "idle"
    BY <1>5 DEF Crash, Die
  <2>2. \/ UNCHANGED active
        \/ \E h \in Handler : /\ pc[h] = "write"
                              /\ \E line \in Line : active' = AppendLine(active, line)
    BY <1>5, PartialWrite DEF Crash, Inv
  <2> QED BY <1>3, <2>1, <2>2 DEF InTheWindow
<1>6. CASE Restart
  BY <1>3, <1>6 DEF Restart, threads
<1> QED BY <1>4, <1>5, <1>6 DEF Operate, Next, Step

\* The heads that become kept in a step of an operation.
LEMMA NewKept ==
  ASSUME Inv, Operate, NEW h \in Handler, Emit(h) \/ Rotate(h) \/ CreateCheckpoint(h)
  PROVE  \/ Kept' = Kept
         \/ EmitReturn(h) /\ Kept' = Kept \cup {EmittedRecord(h).hash}
         \/ RotateCheckpoint(h) /\ Kept' \subseteq Kept \cup {rot.cp.root_hash}
         \/ /\ CreateCheckpoint(h) /\ Verdict.valid /\ left = {active}
            /\ Kept' \subseteq Kept \cup {Verdict.root_hash}
<1>1. \A g \in Handler : /\ EmitReturn(g) => Emit(g)
                         /\ RotateCheckpoint(g) => Rotate(g)
  BY DEF Emit, Rotate
<1>2. \A c \in GivenOut : \/ CreateCheckpoint(h) /\ Verdict.valid /\ c = payload(Verdict)
                          \/ RotateCheckpoint(h) /\ c = rot.cp
  BY <1>1, OneAtWork DEF GivenOut
<1>3. settled' = settled \/ (left = {active} /\ settled' = settled \cup GivenOut)
  BY DEF Operate, Settling
<1>4. CASE EmitReturn(h)
  <2> DEFINE reply == [seq |-> seq, hash |-> EmittedRecord(h).hash]
  <2>1. acked' = acked \cup {reply} /\ reply.hash = EmittedRecord(h).hash
    BY <1>4 DEF EmitReturn
  <2>2. ~CreateCheckpoint(h) /\ ~RotateCheckpoint(h)
    BY <1>4 DEF EmitReturn, CreateCheckpoint, RotateCheckpoint, Advance
  <2>3. settled' = settled
    BY <1>2, <1>3, <2>2
  <2> HIDE DEF reply
  <2>4. {a.hash : a \in acked'} = {a.hash : a \in acked} \cup {reply.hash}
    BY <2>1
  <2> QED BY <1>4, <2>1, <2>3, <2>4 DEF Kept
<1>5. CASE ~EmitReturn(h)
  <2>1. acked' = acked
    BY <1>5
       DEF Emit, EmitRefused, EmitWrite, EmitWriteFails, EmitSyncFails, Rotate, RotateRefused,
           RotatePrepare, RotateRename, RotateCheckpoint, RotateManifest, RotateFresh,
           RotateFails, CreateCheckpoint, told
  <2>2. payload(Verdict).root_hash = Verdict.root_hash
    BY DEF payload
  <2>3. ~(CreateCheckpoint(h) /\ RotateCheckpoint(h))
    BY DEF CreateCheckpoint, RotateCheckpoint, Advance
  <2>4. CASE settled' = settled
    BY <2>1, <2>4 DEF Kept
  <2>5. CASE left = {active} /\ settled' = settled \cup GivenOut
    <3>1. CASE GivenOut = {}
      BY <2>1, <2>5, <3>1 DEF Kept
    <3>2. CASE RotateCheckpoint(h)
      BY <1>2, <2>1, <2>3, <2>5, <3>2 DEF Kept
    <3>3. CASE GivenOut # {} /\ ~RotateCheckpoint(h)
      BY <1>2, <2>1, <2>2, <2>5, <3>3 DEF Kept
    <3> QED BY <3>1, <3>2, <3>3
  <2> QED BY <1>3, <2>4, <2>5
<1> QED BY <1>4, <1>5

\* The files that the daemon leaves alone while it vouches for a head of the active segment.
LEMMA VouchedLeft ==
  ASSUME LeftTypeOK, SealedTo \in Hash, LeftHoldsKept, NEW head,
         SoundFile(active, SealedTo) => head = HeadAfter(active, SealedTo),
         UNCHANGED <<active, segs, hasManifest, manifest>>, left' = {active},
         Kept' \subseteq Kept \cup {head}
  PROVE  LeftHoldsKept'
<1>1. SealedTo' = SealedTo
  BY DEF SealedTo, manifestState, Disk
<1>2. active \in Seq(Line)
  BY DEF LeftTypeOK
<1>3. SUFFICES ASSUME Len(segs) <= Len(manifest), SoundFile(active, SealedTo),
                      NEW g \in Kept'
               PROVE  IsPrefix(g, HeadAfter(active, SealedTo))
  BY <1>1 DEF LeftHoldsKept, Holds
<1>4. Holds(active, SealedTo, Kept)
  BY <1>3 DEF LeftHoldsKept, LeftTypeOK
<1>5. Holds(active, SealedTo, Kept \cup {HeadAfter(active, SealedTo)})
  BY <1>2, <1>4, HoldsItsHead
<1> QED BY <1>3, <1>5 DEF Holds

\* A line more at the end of whatever is left, and nobody vouches for anything.
LEMMA WrittenLeft ==
  ASSUME Inv, LeftTypeOK, LeftHoldsKept, UNCHANGED <<segs, hasManifest, manifest>>,
         Kept' = Kept,
         \A f \in left' : f \in left \/ \E l \in Line : f = AppendLine(active, l)
  PROVE  LeftHoldsKept'
<1>1. SealedTo' = SealedTo
  BY DEF SealedTo, manifestState, Disk
<1>2. active \in Seq(Line) /\ SealedTo \in Hash /\ Kept \in SUBSET Hash
  BY StateTypes, KeptType
<1>3. SUFFICES ASSUME \A f \in left : Holds(f, SealedTo, Kept), NEW f \in left'
               PROVE  Holds(f, SealedTo, Kept)
  BY <1>1 DEF LeftHoldsKept
<1>4. CASE f \in left
  BY <1>3, <1>4
<1>5. ASSUME NEW l \in Line, f = AppendLine(active, l)
      PROVE  Holds(f, SealedTo, Kept)
  <2>1. Holds(active, SealedTo, Kept)
    BY <1>3 DEF LeftTypeOK
  <2> QED BY <1>2, <1>5, <2>1, HoldsWrite
<1> QED BY <1>4, <1>5

\* What a step of an operation does to what is left.
LEMMA OperationLeaves ==
  ASSUME Inv, Operate, NEW h \in Handler, Emit(h) \/ Rotate(h) \/ CreateCheckpoint(h)
  PROVE  /\ left' = IF EmitReturn(h) THEN {active}
                    ELSE IF RotateRename(h) THEN {<< >>}
                    ELSE IF active' = active THEN left ELSE left \cup Passed
         /\ leftSegs' = IF RotateRename(h) THEN Append(leftSegs, left) ELSE leftSegs
<1>1. \A g \in Handler : (EmitReturn(g) => Emit(g)) /\ (RotateRename(g) => Rotate(g))
  BY DEF Emit, Rotate
<1>2. /\ (\E g \in Handler : EmitReturn(g)) <=> EmitReturn(h)
      /\ (\E g \in Handler : RotateRename(g)) <=> RotateRename(h)
  BY <1>1, OneAtWork
<1> QED BY <1>2 DEF Operate, Unsynced, Sealing, AfterSync

LEMMA OperationKeeps ==
  ASSUME Inv, WalksStand, FilesInv, LeftTypeOK, LeftHoldsKept, RotatedHoldsKept, Operate,
         NEW h \in Handler, Emit(h) \/ Rotate(h) \/ CreateCheckpoint(h)
  PROVE  LeftTypeOK' /\ LeftHoldsKept' /\ RotatedHoldsKept'
<1>1. \A g \in Handler \ {h} : pc'[g] \notin {"sync"} \cup InTheWindow
  BY OperationSteps
<1>2. /\ active \in Seq(Line) /\ SealedTo \in Hash /\ Kept \in SUBSET Hash /\ rot \in Locals
      /\ Len(segs) \in Nat /\ Len(manifest) \in Nat
  BY StateTypes, KeptType
<1>3. settled' \subseteq Checkpoint
  <2>1. signed' \subseteq Checkpoint
    BY InvStep DEF Operate, Inv, TypeOK
  <2> QED BY <2>1 DEF Operate, Settling, GivenOut, LeftTypeOK
<1>4. CASE /\ UNCHANGED <<active, segs, hasManifest, manifest>> /\ pc'[h] # "sync"
           /\ pc'[h] \in InTheWindow => RotateCheckpoint(h)
  <2>1. SealedTo' = SealedTo
    BY <1>4 DEF SealedTo, manifestState, Disk
  <2>2. ~RotateRename(h)
    BY <1>2, <1>4, RenameStep
  <2>3. /\ left' = IF EmitReturn(h) THEN {active} ELSE left
        /\ leftSegs' = leftSegs
    BY <1>4, <2>2, OperationLeaves
  <2>4. LeftTypeOK'
    BY <1>2, <1>3, <1>4, <2>3 DEF LeftTypeOK
  <2>5. RotateCheckpoint(h) => pc[h] \in InTheWindow /\ rot' = rot /\ ~EmitReturn(h)
    BY DEF RotateCheckpoint, Advance, InTheWindow, EmitReturn
  <2>6. ~RotateCheckpoint(h) => RotatedHoldsKept'
    BY <1>1, <1>4 DEF RotatedHoldsKept
  <2>7. CASE Kept' = Kept
    <3>1. LeftHoldsKept'
      BY <1>4, <2>1, <2>3, <2>7 DEF LeftHoldsKept, LeftTypeOK
    <3>2. RotatedHoldsKept'
      BY <1>1, <1>4, <2>3, <2>5, <2>6, <2>7 DEF RotatedHoldsKept
    <3> QED BY <2>4, <3>1, <3>2
  <2>8. CASE EmitReturn(h) /\ Kept' = Kept \cup {EmittedRecord(h).hash}
    <3>1. pc[h] = "sync" /\ ~RotateCheckpoint(h)
      BY <2>8 DEF EmitReturn, RotateCheckpoint, Advance
    <3>2. SoundFile(active, SealedTo) => EmittedRecord(h).hash = HeadAfter(active, SealedTo)
      BY <3>1, ReplyIsHead DEF FilesInv
    <3>3. LeftHoldsKept'
      BY <1>2, <1>4, <2>3, <2>8, <3>2, VouchedLeft
    <3> QED BY <2>4, <2>6, <3>1, <3>3
  <2>9. CASE /\ CreateCheckpoint(h) /\ Verdict.valid /\ left = {active}
             /\ Kept' \subseteq Kept \cup {Verdict.root_hash}
    <3>1. ~RotateCheckpoint(h) /\ left' = {active}
      BY <2>3, <2>9 DEF CreateCheckpoint, RotateCheckpoint, Advance
    <3>2. Verdict.root_hash = HeadAfter(active, SealedTo)
      BY <2>9, VerdictReports DEF FilesInv
    <3>3. LeftHoldsKept'
      BY <1>2, <1>4, <2>9, <3>1, <3>2, VouchedLeft
    <3> QED BY <2>4, <2>6, <3>1, <3>3
  <2>10. CASE RotateCheckpoint(h) /\ Kept' \subseteq Kept \cup {rot.cp.root_hash}
    <3>1. Len(manifest) < Len(segs)
      BY <2>5, <2>10 DEF FilesInv, Counted
    <3>2. IsPrefix(rot.cp.root_hash, rot.cp.root_hash)
      BY <1>2, PrefixReflexive DEF Locals, Checkpoint, Hash
    <3>3. RotatedHoldsKept'
      BY <1>1, <1>4, <2>3, <2>5, <2>10, <3>2 DEF RotatedHoldsKept
    <3> QED BY <1>2, <1>4, <2>4, <3>1, <3>3 DEF LeftHoldsKept
  <2> QED BY <2>7, <2>8, <2>9, <2>10, NewKept
<1>5. ASSUME NEW line \in Line, active' = AppendLine(active, line), pc[h] = "write",
             pc'[h] \notin InTheWindow, UNCHANGED <<segs, hasManifest, manifest>>
      PROVE  LeftTypeOK' /\ LeftHoldsKept' /\ RotatedHoldsKept'
  <2>1. ~EmitReturn(h) /\ ~RotateRename(h) /\ ~RotateCheckpoint(h) /\ ~CreateCheckpoint(h)
    BY <1>5 DEF EmitReturn, RotateRename, RotateCheckpoint, CreateCheckpoint, Advance
  <2>2. /\ left' = IF active' = active THEN left ELSE left \cup Passed
        /\ leftSegs' = leftSegs
    BY <2>1, OperationLeaves
  <2>3. Kept' = Kept
    BY <2>1, NewKept
  <2>4. /\ left' \in SUBSET Seq(Line) /\ active' \in left'
        /\ \A f \in left' : f \in left \/ \E l \in Line : f = AppendLine(active, l)
    BY <1>5, <2>2, LeftWrite
  <2>5. LeftTypeOK'
    BY <1>3, <1>5, <2>2, <2>4 DEF LeftTypeOK
  <2>6. LeftHoldsKept'
    BY <1>5, <2>3, <2>4, WrittenLeft
  <2> QED BY <1>1, <1>5, <2>5, <2>6 DEF RotatedHoldsKept
<1>6. CASE EmitWrite(h)
  BY <1>5, <1>6, WriteStep DEF InTheWindow
<1>7. CASE /\ EmitWriteFails(h) /\ pc'[h] = "idle" /\ UNCHANGED <<segs, hasManifest, manifest>>
           /\ \E line \in Line : active' = AppendLine(active, line)
  BY <1>5, <1>7 DEF EmitWriteFails, InTheWindow
<1>8. CASE RotateRename(h)
  <2>1. /\ pc[h] = "rename" /\ active' = << >> /\ segs' = Append(segs, active)
        /\ Len(segs') = Len(segs) + 1 /\ UNCHANGED <<hasManifest, manifest, rot>>
    BY <1>8, RenameStep
  <2>2. ~EmitReturn(h) /\ ~RotateCheckpoint(h) /\ ~CreateCheckpoint(h)
    BY <1>8 DEF RotateRename, EmitReturn, RotateCheckpoint, CreateCheckpoint, Advance
  <2>3. left' = {<< >>} /\ leftSegs' = Append(leftSegs, left) /\ Kept' = Kept
    BY <1>8, <2>2, OperationLeaves, NewKept
  <2>4. leftSegs' \in Seq(SUBSET Seq(Line)) /\ Len(leftSegs') = Len(leftSegs) + 1
    BY <2>3, AppendProperties DEF LeftTypeOK
  <2>5. << >> \in Seq(Line)
    BY EmptySeq
  <2>6. LeftTypeOK'
    BY <1>3, <2>1, <2>3, <2>4, <2>5 DEF LeftTypeOK
  <2>7. Len(manifest) <= Len(segs)
    BY DEF FilesInv, Counted
  <2>8. SoundFile(active, SealedTo) /\ rot.cp.root_hash = HeadAfter(active, SealedTo)
    BY <2>1, WalkedHead
  <2>9. Len(segs') <= Len(manifest) + 1 => Holds(active, SealedTo, Kept)
    BY <1>2, <2>1, <2>7 DEF LeftHoldsKept, LeftTypeOK
  <2>10. RotatedHoldsKept'
    BY <1>1, <2>1, <2>3, <2>8, <2>9 DEF RotatedHoldsKept, Holds
  <2>11. LeftHoldsKept'
    BY <1>2, <2>1, <2>7 DEF LeftHoldsKept
  <2> QED BY <2>6, <2>10, <2>11
<1>9. CASE RotateManifest(h)
  <2>1. /\ pc[h] = "manifest" /\ pc'[h] = "fresh" /\ UNCHANGED <<active, segs>>
        /\ Len(manifest') = Len(manifest) + 1 /\ SealedTo' = rot.cp.root_hash
    BY <1>9, ListingStep
  <2>2. ~EmitReturn(h) /\ ~RotateRename(h) /\ ~RotateCheckpoint(h) /\ ~CreateCheckpoint(h)
    BY <1>9 DEF RotateManifest, EmitReturn, RotateRename, RotateCheckpoint, CreateCheckpoint,
                Advance
  <2>3. left' = left /\ leftSegs' = leftSegs /\ Kept' = Kept
    BY <2>1, <2>2, OperationLeaves, NewKept
  <2>4. LeftTypeOK'
    BY <1>3, <2>1, <2>3 DEF LeftTypeOK
  <2>5. /\ left = {<< >>}
        /\ Len(segs) <= Len(manifest) + 1 => \A g \in Kept : IsPrefix(g, rot.cp.root_hash)
    BY <2>1 DEF RotatedHoldsKept, InTheWindow
  <2>6. LeftHoldsKept'
    BY <2>1, <2>3, <2>5 DEF LeftHoldsKept, Holds, HeadAfter
  <2> QED BY <1>1, <2>1, <2>4, <2>6 DEF RotatedHoldsKept, InTheWindow
<1> QED BY <1>4, <1>6, <1>7, <1>8, <1>9, OperationSteps

LEMMA OutsideKeeps ==
  ASSUME Inv, LeftTypeOK, LeftHoldsKept, RotatedHoldsKept, Operate,
         \A h \in Handler : ~(Emit(h) \/ Rotate(h) \/ CreateCheckpoint(h))
  PROVE  LeftTypeOK' /\ LeftHoldsKept' /\ RotatedHoldsKept'
<1>1. /\ UNCHANGED <<segs, hasManifest, manifest, told, leftSegs, settled>>
      /\ left' = IF active' = active THEN left ELSE left \cup Passed
      /\ \A h \in Handler : pc'[h] \in InTheWindow => pc'[h] = pc[h] /\ rot' = rot
  BY OutsideLeaves
<1>2. Kept' = Kept
  BY <1>1 DEF Kept, told
<1>3. CASE UNCHANGED active
  <2>1. SealedTo' = SealedTo /\ left' = left
    BY <1>1, <1>3 DEF SealedTo, manifestState, Disk
  <2> QED BY <1>1, <1>2, <1>3, <2>1 DEF LeftTypeOK, LeftHoldsKept, RotatedHoldsKept
<1>4. ASSUME NEW h \in Handler, pc[h] = "write", NEW line \in Line,
             active' = AppendLine(active, line)
      PROVE  LeftTypeOK' /\ LeftHoldsKept' /\ RotatedHoldsKept'
  <2>1. /\ left' \in SUBSET Seq(Line) /\ active' \in left'
        /\ \A f \in left' : f \in left \/ \E l \in Line : f = AppendLine(active, l)
    BY <1>1, <1>4, LeftWrite
  <2>2. LeftTypeOK'
    BY <1>1, <2>1 DEF LeftTypeOK
  <2>3. LeftHoldsKept'
    BY <1>1, <1>2, <2>1, WrittenLeft
  <2>4. \A g \in Handler : pc'[g] \notin InTheWindow
    <3>1. \A g \in Handler : pc[g] \notin InTheWindow
      BY <1>4, OnlyOneInside DEF InTheWindow, Inside, InEmit, InRotate, Inv
    <3> QED BY <1>1, <3>1
  <2> QED BY <2>2, <2>3, <2>4 DEF RotatedHoldsKept
<1> QED BY <1>3, <1>4, OutsideLeaves

-----------------------------------------------------------------------------
(* A failure of the machine *)

LEMMA FunctionIsSeq ==
  ASSUME NEW S, NEW n \in Nat, NEW s \in [1..n -> S]
  PROVE  s \in Seq(S)
BY SeqDef

LEMMA PowerLossFiles ==
  ASSUME LeftTypeOK, PowerLoss, Inv
  PROVE  /\ active' \in left /\ left' = {active'}
         /\ segs' \in Seq(Seq(Line)) /\ Len(segs') = Len(segs)
         /\ leftSegs' \in Seq(SUBSET Seq(Line)) /\ Len(leftSegs') = Len(segs)
         /\ UNCHANGED <<hasManifest, manifest, told, settled>>
<1>1. /\ active' \in left /\ left' = {active'} /\ leftSegs' = [n \in DOMAIN segs' |-> {segs'[n]}]
      /\ DOMAIN segs' = DOMAIN segs /\ segs' = [n \in DOMAIN segs |-> segs'[n]]
      /\ \A n \in DOMAIN segs : segs'[n] \in leftSegs[n]
      /\ UNCHANGED <<hasManifest, manifest, told, settled>>
  BY DEF PowerLoss, Die
<1>2. /\ Len(segs) \in Nat /\ DOMAIN segs = 1..Len(segs) /\ DOMAIN leftSegs = 1..Len(segs)
  BY StateTypes, LenProperties DEF LeftTypeOK
<1>3. \A n \in 1..Len(segs) : segs'[n] \in Seq(Line)
  <2>1. \A n \in 1..Len(segs) : leftSegs[n] \in SUBSET Seq(Line)
    BY <1>2, ElementOfSeq DEF LeftTypeOK
  <2> QED BY <1>1, <1>2, <2>1
<1>4. segs' \in [1..Len(segs) -> Seq(Line)] /\ leftSegs' \in [1..Len(segs) -> SUBSET Seq(Line)]
  BY <1>1, <1>2, <1>3
<1>5. segs' \in Seq(Seq(Line)) /\ leftSegs' \in Seq(SUBSET Seq(Line))
  BY <1>2, <1>4, FunctionIsSeq
<1>6. Len(segs') = Len(segs) /\ Len(leftSegs') = Len(segs)
  BY <1>2, <1>4, <1>5, LenProperties
<1> QED BY <1>1, <1>5, <1>6

LEMMA PowerLossKeeps ==
  ASSUME PowerInv, PowerLoss
  PROVE  PowerInv'
<1>1. /\ active' \in left /\ left' = {active'}
      /\ segs' \in Seq(Seq(Line)) /\ Len(segs') = Len(segs)
      /\ leftSegs' \in Seq(SUBSET Seq(Line)) /\ Len(leftSegs') = Len(segs)
      /\ UNCHANGED <<hasManifest, manifest, told, settled>>
  BY PowerLossFiles DEF PowerInv
<1>2. active' \in Seq(Line) /\ SealedTo' = SealedTo /\ Kept' = Kept
  BY <1>1 DEF PowerInv, LeftTypeOK, SealedTo, manifestState, Disk, Kept, told
<1>3. Die /\ hasActive' = hasActive /\ cps' \subseteq cps
  BY DEF PowerLoss
<1>4. \A h \in Handler : pc'[h] = "idle"
  BY <1>3 DEF Die
<1>5. Inv'
  <2>1. DiskTypeOK'
    BY <1>1, <1>2, <1>3 DEF PowerInv, Inv, TypeOK, DiskTypeOK
  <2> QED BY <1>3, <2>1, DieType, DieInFlight DEF PowerInv, Inv
<1>6. WalksStand' /\ DownIsIdle'
  BY <1>4 DEF WalksStand, Flying, DownIsIdle
<1>7. FilesInv'
  BY <1>1, <1>4 DEF PowerInv, FilesInv, Counted, WrittenIsLast, EmptyInWindow, InTheWindow
<1>8. LeftTypeOK'
  BY <1>1, <1>2 DEF PowerInv, LeftTypeOK
<1>9. LeftHoldsKept'
  BY <1>1, <1>2 DEF PowerInv, LeftHoldsKept
<1>10. RotatedHoldsKept'
  BY <1>4 DEF RotatedHoldsKept, InTheWindow
<1> QED BY <1>5, <1>6, <1>7, <1>8, <1>9, <1>10 DEF PowerInv

-----------------------------------------------------------------------------

LEMMA PowerStep ==
  ASSUME PowerInv, [PowerNext]_powerVars
  PROVE  PowerInv'
<1>1. CASE Operate
  <2>1. [Next]_vars
    BY <1>1 DEF Operate
  <2>2. Inv' /\ FilesInv' /\ DownIsIdle'
    BY <2>1, InvStep, FilesStep, DownStep DEF PowerInv, Inv
  <2>3. WalksStand'
    <3> SUFFICES ASSUME NEW g \in Handler, pc'[g] \in Flying
                 PROVE  WalkStands(pc[g])'
      BY DEF WalksStand
    <3> QED BY <2>1, FlightStep DEF PowerInv
  <2>4. LeftTypeOK' /\ LeftHoldsKept' /\ RotatedHoldsKept'
    BY <1>1, OperationKeeps, OutsideKeeps DEF PowerInv
  <2> QED BY <2>2, <2>3, <2>4 DEF PowerInv
<1>2. CASE PowerLoss
  BY <1>2, PowerLossKeeps
<1>3. CASE UNCHANGED powerVars
  <2>1. UNCHANGED <<vars, left, leftSegs, settled>>
    BY <1>3 DEF powerVars, onDisk
  <2>2. Inv' /\ FilesInv' /\ DownIsIdle'
    BY <2>1, InvStep, FilesStep, DownStep DEF PowerInv, Inv
  <2>3. UNCHANGED <<active, segs, hasManifest, manifest, acked, pc, rot>>
    BY <2>1 DEF vars, disk, threads, told
  <2>4. WalksStand'
    BY <2>3 DEF PowerInv, WalksStand, WalkStands, WalkedLines, manifestState, Disk
  <2>5. SealedTo' = SealedTo /\ Kept' = Kept
    BY <2>1, <2>3 DEF SealedTo, manifestState, Disk, Kept
  <2>6. LeftTypeOK' /\ LeftHoldsKept' /\ RotatedHoldsKept'
    BY <2>1, <2>3, <2>5 DEF PowerInv, LeftTypeOK, LeftHoldsKept, RotatedHoldsKept
  <2> QED BY <2>2, <2>4, <2>6 DEF PowerInv
<1> QED BY <1>1, <1>2, <1>3 DEF PowerNext

\* The log through any power losses and every other fault: whatever the disk kept of what was
\* not fsynced, an active segment that links holds the heads of every reply of Emit and of
\* every checkpoint signed while nothing was in the air.
THEOREM PowerInvHolds == PowerSpec => []PowerInv
<1>1. PowerInit => PowerInv
  <2> SUFFICES ASSUME PowerInit
               PROVE  PowerInv
    OBVIOUS
  <2>1. Inv
    BY InvInit DEF PowerInit
  <2>2. WalksStand /\ DownIsIdle /\ FilesInv
    BY DEF PowerInit, Init, WalksStand, Flying, DownIsIdle, FilesInv, Counted, WrittenIsLast,
           EmptyInWindow, InTheWindow
  <2>3. LeftTypeOK
    BY StateTypes, <2>1, EmptySeq DEF PowerInit, Init, LeftTypeOK
  <2>4. Kept = {}
    BY DEF PowerInit, Init, Kept
  <2>5. LeftHoldsKept /\ RotatedHoldsKept
    BY <2>4 DEF PowerInit, Init, LeftHoldsKept, Holds, RotatedHoldsKept, InTheWindow
  <2> QED BY <2>1, <2>2, <2>3, <2>5 DEF PowerInv
<1>2. PowerInv /\ [PowerNext]_powerVars => PowerInv'
  BY PowerStep
<1> QED BY <1>1, <1>2, PTL DEF PowerSpec

\* No power loss hides, under a valid verdict, a head that was made durable before it was
\* vouched for, whatever else fails and whatever the rotated-out segments lost.
THEOREM KeptStaysVisible == PowerSpec => []KeptIsNeverHidden
<1>1. ASSUME PowerInv
      PROVE  KeptIsNeverHidden
  <2> SUFFICES ASSUME Verdict.valid, hasManifest \/ segs = << >>, NEW g \in Kept
               PROVE  IsPrefix(g, Verdict.root_hash)
    BY DEF KeptIsNeverHidden
  <2>1. /\ SoundFile(active, SealedTo) /\ Verdict.root_hash = HeadAfter(active, SealedTo)
        /\ hasManifest => Len(segs) <= Len(manifest)
    BY <1>1, VerdictReports DEF PowerInv, FilesInv
  <2>2. Len(segs) <= Len(manifest)
    BY <1>1, <2>1, StateTypes, EmptySeq DEF PowerInv
  <2>3. Holds(active, SealedTo, Kept)
    BY <1>1, <2>2 DEF PowerInv, LeftHoldsKept, LeftTypeOK
  <2> QED BY <2>1, <2>3 DEF Holds
<1> QED BY <1>1, PowerInvHolds, PTL
===============================================================================
