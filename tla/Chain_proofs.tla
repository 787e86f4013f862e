----------------------------- MODULE Chain_proofs -----------------------------
(***************************************************************************)
(* Type correctness of Chain and its mutex discipline, and what Rotate     *)
(* keeps true of the files whatever fails: sealed segments are never       *)
(* touched again, every listed segment has its signed sidecar, and the     *)
(* manifest lists a verified chain.  Last, that a valid verdict never      *)
(* hides a record, whatever fails: as long as the manifest covers every    *)
(* rotated-out segment, an active segment that still links contains every  *)
(* head the log ever vouched for, and one that does not link never links   *)
(* again.  For any number of handlers and events, any threshold and any    *)
(* set of faults.                                                          *)
(***************************************************************************)
EXTENDS Chain, SegmentStore_proofs

-----------------------------------------------------------------------------
(* Type correctness *)

LEMMA DiskHasType ==
  ASSUME TypeOK
  PROVE  DiskType(Disk)
BY DEF TypeOK, DiskTypeOK, DiskType, Disk

LEMMA NoLocalsType == NoLocals \in Locals
BY DEF NoLocals, Locals, Checkpoint, Genesis, Hash

LEMMA InitTypeOK == Init => TypeOK
<1> SUFFICES ASSUME Init PROVE TypeOK
  OBVIOUS
<1>1. Genesis \in Hash
  BY DEF Genesis, Hash
<1>2. DiskTypeOK
  BY EmptySeq DEF Init, DiskTypeOK
<1>3. ThreadsTypeOK
  BY ConstantsAssumption, NoLocalsType DEF Init, ThreadsTypeOK, Inside, InEmit, InRotate
<1>4. emits \in 0..MaxEmits /\ rotates \in 0..MaxRotates /\ crashes \in 0..MaxCrashes
  BY ConstantsAssumption DEF Init
<1> QED BY <1>1, <1>2, <1>3, <1>4 DEF Init, TypeOK

\* A return, whichever operation it ends.
LEMMA ReturnType ==
  ASSUME ThreadsTypeOK, NEW h \in Handler, pc[h] \in Inside, Return(h)
  PROVE  ThreadsTypeOK'
<1>1. pc' = [pc EXCEPT ![h] = "idle"] /\ arg' = [arg EXCEPT ![h] = NoEvent] /\ mu = h
  BY DEF ThreadsTypeOK, Return
<1>2. \A g \in Handler : pc'[g] = IF g = h THEN "idle" ELSE pc[g]
  BY <1>1 DEF ThreadsTypeOK
<1>3. \A g \in Handler : arg'[g] = IF g = h THEN NoEvent ELSE arg[g]
  BY <1>1 DEF ThreadsTypeOK
<1>4. "idle" \notin Inside /\ "idle" \notin {"emit"} \cup InEmit
  BY DEF Inside, InEmit, InRotate
<1>5. \A g \in Handler : mu' = g <=> pc'[g] \in Inside
  BY <1>1, <1>2, <1>4, ConstantsAssumption DEF ThreadsTypeOK, Return
<1> QED BY <1>1, <1>2, <1>3, <1>4, <1>5, NoLocalsType DEF ThreadsTypeOK, Return

\* A step inside an operation, to the next one of the same operation.
LEMMA AdvanceType ==
  ASSUME ThreadsTypeOK, NEW h \in Handler,
         NEW from \in {"write", "prepare", "rename", "checkpoint", "manifest"},
         Advance(h, from), UNCHANGED <<mu, arg>>, rot' \in Locals
  PROVE  ThreadsTypeOK'
<1>1. StepAfter[from] \in Inside /\ (StepAfter[from] \in InEmit => from \in InEmit)
      /\ from \in Inside /\ StepAfter[from] # "emit"
  BY DEF StepAfter, Inside, InEmit, InRotate
<1>2. \A g \in Handler : pc'[g] = IF g = h THEN StepAfter[from] ELSE pc[g]
  BY DEF Advance, ThreadsTypeOK
<1>3. pc' \in [Handler -> {"idle"} \cup Waiting \cup Inside]
  BY <1>1 DEF Advance, ThreadsTypeOK
<1>4. \A g \in Handler : mu' = g <=> pc'[g] \in Inside
  BY <1>1, <1>2 DEF Advance, ThreadsTypeOK
<1>5. \A g \in Handler : pc'[g] \in {"emit"} \cup InEmit => arg'[g] \in Event
  BY <1>1, <1>2 DEF Advance, ThreadsTypeOK
<1> QED BY <1>3, <1>4, <1>5 DEF ThreadsTypeOK

LEMMA EmittedRecordType ==
  ASSUME TypeOK, NEW h \in Handler, pc[h] \in InEmit
  PROVE  EmittedRecord(h) \in Record /\ EmittedRecord(h).hash \in Hash
BY NewRecordType DEF TypeOK, ThreadsTypeOK, EmittedRecord

-----------------------------------------------------------------------------
(* One lemma per group of actions *)

LEMMA CallType ==
  ASSUME TypeOK, NEW h \in Handler, Call(h) \/ Lock(h)
  PROVE  TypeOK'
<1> USE DEF TypeOK, ThreadsTypeOK, Waiting, Inside, InEmit, InRotate, disk, memory, told, bounds
<1>1. ASSUME NEW e \in Event, EmitCall(h, e) PROVE TypeOK'
  <2>1. DiskTypeOK'
    BY <1>1 DEF EmitCall, DiskTypeOK
  <2>2. emits' \in 0..MaxEmits
    BY <1>1, ConstantsAssumption DEF EmitCall
  <2> QED BY <1>1, <2>1, <2>2 DEF EmitCall
<1>2. CASE RotateCall(h)
  <2>1. DiskTypeOK'
    BY <1>2 DEF RotateCall, DiskTypeOK
  <2>2. rotates' \in 0..MaxRotates
    BY <1>2, ConstantsAssumption DEF RotateCall
  <2> QED BY <1>2, <2>1, <2>2 DEF RotateCall
<1>3. CASE CreateCall(h)
  <2>1. DiskTypeOK'
    BY <1>3 DEF CreateCall, DiskTypeOK
  <2> QED BY <1>3, <2>1 DEF CreateCall
<1>4. CASE Lock(h)
  <2>1. DiskTypeOK'
    BY <1>4 DEF Lock, DiskTypeOK
  <2>2. FirstStep[pc[h]] \in Inside /\ (FirstStep[pc[h]] \in InEmit => pc[h] = "emit")
        /\ FirstStep[pc[h]] # "emit"
    BY <1>4 DEF Lock, FirstStep
  <2>3. \A g \in Handler : pc'[g] = IF g = h THEN FirstStep[pc[h]] ELSE pc[g]
    BY <1>4 DEF Lock
  <2>4. \A g \in Handler : mu' = g <=> pc'[g] \in Inside
    BY <1>4, <2>2, <2>3, ConstantsAssumption DEF Lock
  <2>5. \A g \in Handler : pc'[g] \in {"emit"} \cup InEmit => arg'[g] \in Event
    BY <1>4, <2>2, <2>3 DEF Lock
  <2>6. pc' \in [Handler -> {"idle"} \cup Waiting \cup Inside]
    BY <1>4, <2>2 DEF Lock
  <2> QED BY <1>4, <2>1, <2>4, <2>5, <2>6 DEF Lock
<1> QED BY <1>1, <1>2, <1>3, <1>4 DEF Call

\* What a write that stops half-way leaves is a line at the end of the file.
LEMMA PartialWrite ==
  ASSUME TypeOK, NEW h \in Handler, pc[h] = "write", WritesInPart(h)
  PROVE  /\ hasActive' = TRUE
         /\ \E line \in Line : active' = AppendLine(active, line)
         /\ active' \in Seq(Line)
<1>1. PICK line \in {CutInside(EmittedRecord(h)), CutBeforeNewline(EmittedRecord(h))} :
        active' = AppendLine(active, line)
  BY DEF WritesInPart
<1>2. line \in Line
  BY EmittedRecordType, LineTypes DEF InEmit
<1>3. active' \in Seq(Line)
  BY <1>1, <1>2, AppendLineType DEF TypeOK, DiskTypeOK
<1> QED BY <1>1, <1>2, <1>3 DEF WritesInPart

LEMMA EmitType ==
  ASSUME TypeOK, NEW h \in Handler, Emit(h)
  PROVE  TypeOK'
<1> USE DEF disk, memory, told, bounds
<1>1. pc[h] \in InEmit
  BY DEF Emit, EmitRefused, EmitWrite, EmitWriteFails, EmitSyncFails, EmitReturn, Advance, InEmit
<1>2. pc[h] \in Inside
  BY <1>1 DEF Inside
<1>3. EmittedRecord(h) \in Record /\ EmittedRecord(h).hash \in Hash
  BY <1>1, EmittedRecordType
<1>4. CASE EmitRefused(h) \/ EmitSyncFails(h)
  <2>1. ThreadsTypeOK'
    BY <1>2, <1>4, ReturnType DEF EmitRefused, EmitSyncFails, TypeOK
  <2> QED BY <1>4, <2>1 DEF EmitRefused, EmitSyncFails, TypeOK, DiskTypeOK
<1>5. CASE EmitWrite(h)
  <2>1. ThreadsTypeOK'
    BY <1>5, AdvanceType DEF EmitWrite, TypeOK, ThreadsTypeOK
  <2>2. active' \in Seq(Line)
    BY <1>3, <1>5, AppendLineType, LineTypes DEF EmitWrite, TypeOK, DiskTypeOK
  <2> QED BY <1>5, <2>1, <2>2 DEF EmitWrite, TypeOK, DiskTypeOK
<1>6. CASE EmitWriteFails(h)
  <2>1. ThreadsTypeOK'
    BY <1>2, <1>6, ReturnType DEF EmitWriteFails, TypeOK
  <2>2. active' \in Seq(Line) /\ hasActive' \in BOOLEAN
    BY <1>6, PartialWrite DEF EmitWriteFails, TypeOK, DiskTypeOK
  <2> QED BY <1>6, <2>1, <2>2 DEF EmitWriteFails, TypeOK, DiskTypeOK
<1>7. CASE EmitReturn(h)
  <2>1. ThreadsTypeOK'
    BY <1>2, <1>7, ReturnType DEF EmitReturn, TypeOK
  <2>2. acked' \subseteq Ack
    BY <1>3, <1>7 DEF EmitReturn, TypeOK, Ack
  <2> QED BY <1>3, <1>7, <2>1, <2>2 DEF EmitReturn, TypeOK, DiskTypeOK
<1> QED BY <1>4, <1>5, <1>6, <1>7 DEF Emit

LEMMA RotateType ==
  ASSUME TypeOK, InFlight, NEW h \in Handler, Rotate(h)
  PROVE  TypeOK'
<1> USE DEF disk, memory, told, bounds
<1>1. pc[h] \in InRotate
  BY DEF Rotate, RotateRefused, RotatePrepare, RotateRename, RotateCheckpoint,
         RotateManifest, RotateFresh, RotateFails, RotateFaults, Advance, InRotate
<1>2. pc[h] \in Inside
  BY <1>1 DEF Inside
<1>3. CASE RotateRefused(h) \/ RotateFresh(h) \/ RotateFails(h)
  <2>1. ThreadsTypeOK'
    BY <1>2, <1>3, ReturnType DEF RotateRefused, RotateFresh, RotateFails, TypeOK
  <2> QED BY <1>3, <2>1 DEF RotateRefused, RotateFresh, RotateFails, TypeOK, DiskTypeOK
<1>4. CASE RotatePrepare(h)
  <2>1. manifestState(Disk).offset \in Nat /\ manifestState(Disk).head \in Hash
    BY DiskHasType, ManifestStateType
  <2>2. payload(ActiveState) \in Checkpoint
    BY <2>1, DiskHasType, WalkActiveType, PayloadType DEF ActiveState
  <2>3. NextSegment \in Nat
    BY HighestIsLen, LenProperties DEF NextSegment, TypeOK, DiskTypeOK
  <2>4. rot' \in Locals
    BY <1>4, <2>1, <2>2, <2>3 DEF RotatePrepare, Locals
  <2>5. ThreadsTypeOK'
    BY <1>4, <2>4, AdvanceType DEF RotatePrepare, TypeOK
  <2> QED BY <1>4, <2>5 DEF RotatePrepare, TypeOK, DiskTypeOK
<1>5. CASE RotateRename(h)
  <2>1. ThreadsTypeOK'
    BY <1>5, AdvanceType DEF RotateRename, TypeOK, ThreadsTypeOK
  <2>2. rot.segNum = Len(segs) + 1
    BY <1>5 DEF InFlight, RotateRename, Advance
  <2>3. segs' = Append(segs, active)
    BY <1>5, <2>2, RenameAppends DEF RotateRename, TypeOK, DiskTypeOK
  <2>4. segs' \in Seq(Seq(Line))
    BY <2>3 DEF TypeOK, DiskTypeOK
  <2> QED BY <1>5, <2>1, <2>4, EmptySeq DEF RotateRename, TypeOK, DiskTypeOK
<1>6. CASE RotateCheckpoint(h)
  <2>1. ThreadsTypeOK'
    BY <1>6, AdvanceType DEF RotateCheckpoint, TypeOK, ThreadsTypeOK
  <2>2. cps' \subseteq Sidecar /\ signed' \subseteq Checkpoint
    BY <1>6 DEF RotateCheckpoint, TypeOK, DiskTypeOK, ThreadsTypeOK, Locals, Sidecar
  <2> QED BY <1>6, <2>1, <2>2 DEF RotateCheckpoint, TypeOK, DiskTypeOK
<1>7. CASE RotateManifest(h)
  <2>1. ThreadsTypeOK'
    BY <1>7, AdvanceType DEF RotateManifest, TypeOK, ThreadsTypeOK
  <2>2. RotateEntry \in Entry
    BY DEF RotateEntry, Entry, TypeOK, ThreadsTypeOK, Locals, Checkpoint
  <2> QED BY <1>7, <2>1, <2>2 DEF RotateManifest, TypeOK, DiskTypeOK
<1> QED BY <1>3, <1>4, <1>5, <1>6, <1>7 DEF Rotate

LEMMA CreateType ==
  ASSUME TypeOK, NEW h \in Handler, CreateCheckpoint(h)
  PROVE  TypeOK'
<1> USE DEF disk, memory, bounds
<1>1. ThreadsTypeOK'
  BY ReturnType DEF CreateCheckpoint, TypeOK, Inside
<1>2. signed' \subseteq Checkpoint
  BY DiskHasType, VerifyType, PayloadType DEF CreateCheckpoint, TypeOK
<1> QED BY <1>1, <1>2 DEF CreateCheckpoint, TypeOK, DiskTypeOK

LEMMA RestartType ==
  ASSUME TypeOK, Restart
  PROVE  TypeOK'
<1>1. seq' \in Nat /\ prevHash' \in Hash
  BY DiskHasType, LoadStateType DEF Restart
<1> QED BY <1>1 DEF Restart, TypeOK, DiskTypeOK, ThreadsTypeOK, threads, told, bounds

\* Whatever kills the process: only what is on the disk is left to look at.
LEMMA DieType ==
  ASSUME TypeOK, Die, DiskTypeOK'
  PROVE  TypeOK'
<1>1. ThreadsTypeOK'
  BY ConstantsAssumption, NoLocalsType DEF Die, TypeOK, ThreadsTypeOK, Inside, InEmit, InRotate
<1>2. crashes' \in 0..MaxCrashes
  BY ConstantsAssumption DEF Die, TypeOK
<1>3. up' \in BOOLEAN /\ seq' \in Nat /\ prevHash' \in Hash
  <2>1. up' = FALSE /\ seq' = 0 /\ prevHash' = Genesis
    BY DEF Die
  <2>2. Genesis \in Hash
    BY DEF Genesis, Hash
  <2> QED BY <2>1, <2>2
<1>4. acked' \subseteq Ack /\ signed' \subseteq Checkpoint
  BY DEF Die, told, TypeOK
<1>5. emits' \in 0..MaxEmits /\ rotates' \in 0..MaxRotates
  BY DEF Die, TypeOK
<1> QED BY <1>1, <1>2, <1>3, <1>4, <1>5 DEF TypeOK

LEMMA CrashType ==
  ASSUME TypeOK, Crash
  PROVE  TypeOK'
<1>1. active' \in Seq(Line) /\ hasActive' \in BOOLEAN
  BY PartialWrite DEF Crash, TypeOK, DiskTypeOK
<1>2. DiskTypeOK'
  BY <1>1 DEF Crash, TypeOK, DiskTypeOK
<1> QED BY <1>2, DieType DEF Crash

\* Nobody is in an operation of a process that died.
LEMMA DieInFlight ==
  ASSUME Die
  PROVE  InFlight'
BY DEF Die, InFlight

-----------------------------------------------------------------------------
(* The files and the operation in progress *)

\* Only the holder of the mutex is inside an operation.
LEMMA OnlyOneInside ==
  ASSUME TypeOK, NEW h \in Handler, NEW g \in Handler, pc[h] \in Inside, pc[g] \in Inside
  PROVE  g = h
BY DEF TypeOK, ThreadsTypeOK

\* A return of h takes it out of its operation and moves nobody else.
LEMMA ReturnLeaves ==
  ASSUME TypeOK, NEW h \in Handler, Return(h)
  PROVE  pc'[h] = "idle" /\ \A g \in Handler \ {h} : pc'[g] = pc[g]
BY DEF TypeOK, ThreadsTypeOK, Return

LEMMA InFlightInit == Init => InFlight
BY DEF Init, InFlight

LEMMA InFlightCall ==
  ASSUME TypeOK, InFlight, NEW h \in Handler, Call(h) \/ Lock(h)
  PROVE  InFlight'
<1>1. UNCHANGED <<active, segs, cps, rot>>
  BY DEF Call, EmitCall, RotateCall, CreateCall, Lock, disk
<1>2. \A g \in Handler : \/ pc'[g] = pc[g]
                         \/ pc'[g] \in Waiting \cup {"write", "prepare", "build"}
  BY DEF Call, EmitCall, RotateCall, CreateCall, Lock, FirstStep, Waiting, TypeOK,
         ThreadsTypeOK
<1> QED BY <1>1, <1>2 DEF InFlight, Waiting

LEMMA InFlightEmit ==
  ASSUME TypeOK, InFlight, NEW h \in Handler, Emit(h)
  PROVE  InFlight'
<1>1. pc[h] \in InEmit /\ pc[h] \in Inside
  BY DEF Emit, EmitRefused, EmitWrite, EmitWriteFails, EmitSyncFails, EmitReturn, Advance,
         InEmit, Inside
<1>2. \A g \in Handler \ {h} : pc[g] \notin Inside
  BY <1>1, OnlyOneInside
<1>3. \A g \in Handler \ {h} : pc'[g] \notin Inside
  BY <1>2, ReturnLeaves
     DEF Emit, EmitRefused, EmitWrite, EmitWriteFails, EmitSyncFails, EmitReturn, Advance,
         TypeOK, ThreadsTypeOK
<1>4. CASE EmitWrite(h)
  <2>1. active' # << >>
    BY <1>1, <1>4, EmittedRecordType, LineTypes, AppendLineNonempty
       DEF EmitWrite, TypeOK, DiskTypeOK
  <2>2. pc'[h] = "sync"
    BY <1>4 DEF EmitWrite, Advance, StepAfter, TypeOK, ThreadsTypeOK
  <2> QED BY <1>3, <2>1, <2>2 DEF InFlight, Inside, InEmit, InRotate
<1>5. CASE EmitRefused(h) \/ EmitWriteFails(h) \/ EmitSyncFails(h) \/ EmitReturn(h)
  <2>1. pc'[h] = "idle"
    BY <1>5, ReturnLeaves DEF EmitRefused, EmitWriteFails, EmitSyncFails, EmitReturn
  <2> QED BY <1>3, <2>1 DEF InFlight, Inside, InEmit, InRotate
<1> QED BY <1>4, <1>5 DEF Emit

LEMMA InFlightRotate ==
  ASSUME TypeOK, InFlight, NEW h \in Handler, Rotate(h) \/ CreateCheckpoint(h)
  PROVE  InFlight'
<1>1. pc[h] \in Inside
  BY DEF Rotate, RotateRefused, RotatePrepare, RotateRename, RotateCheckpoint,
         RotateManifest, RotateFresh, RotateFails, RotateFaults, Advance, InRotate, Inside,
         CreateCheckpoint
<1>2. \A g \in Handler \ {h} : pc[g] \notin Inside
  BY <1>1, OnlyOneInside
<1>3. \A g \in Handler \ {h} : pc'[g] \notin Inside
  BY <1>2, ReturnLeaves
     DEF Rotate, RotateRefused, RotatePrepare, RotateRename, RotateCheckpoint,
         RotateManifest, RotateFresh, RotateFails, CreateCheckpoint, Advance, TypeOK,
         ThreadsTypeOK
<1>4. CASE RotateRefused(h) \/ RotateFresh(h) \/ RotateFails(h) \/ CreateCheckpoint(h)
  <2>1. pc'[h] = "idle"
    BY <1>4, ReturnLeaves DEF RotateRefused, RotateFresh, RotateFails, CreateCheckpoint
  <2> QED BY <1>3, <2>1 DEF InFlight, Inside, InEmit, InRotate
<1>5. CASE RotatePrepare(h)
  <2>1. pc'[h] = "rename"
    BY <1>5 DEF RotatePrepare, Advance, StepAfter, TypeOK, ThreadsTypeOK
  <2>2. rot'.segNum = Len(segs) + 1 /\ signable(rot'.cp) /\ segs' = segs
    BY <1>5, HighestIsLen DEF RotatePrepare, Rotatable, NextSegment, TypeOK, DiskTypeOK, disk
  <2> QED BY <1>3, <2>1, <2>2 DEF InFlight, Inside, InEmit, InRotate
<1>6. CASE RotateRename(h)
  <2>1. pc[h] = "rename" /\ pc'[h] = "checkpoint" /\ rot' = rot
    BY <1>6 DEF RotateRename, Advance, StepAfter, TypeOK, ThreadsTypeOK
  <2>2. rot.segNum = Len(segs) + 1 /\ signable(rot.cp)
    BY <2>1 DEF InFlight
  <2>3. segs' = Append(segs, active)
    BY <1>6, <2>2, RenameAppends DEF RotateRename, TypeOK, DiskTypeOK
  <2>4. Len(segs') = Len(segs) + 1
    BY <2>3 DEF TypeOK, DiskTypeOK
  <2> QED BY <1>3, <2>1, <2>2, <2>4 DEF InFlight, Inside, InEmit, InRotate
<1>7. CASE RotateCheckpoint(h)
  <2>1. pc[h] = "checkpoint" /\ pc'[h] = "manifest" /\ rot' = rot /\ segs' = segs
    BY <1>7 DEF RotateCheckpoint, Advance, StepAfter, TypeOK, ThreadsTypeOK
  <2>2. [segment |-> rot.segNum, cp |-> rot.cp] \in cps'
    BY <1>7 DEF RotateCheckpoint
  <2> QED BY <1>3, <2>1, <2>2 DEF InFlight, Inside, InEmit, InRotate
<1>8. CASE RotateManifest(h)
  <2>1. pc'[h] = "fresh"
    BY <1>8 DEF RotateManifest, Advance, StepAfter, TypeOK, ThreadsTypeOK
  <2> QED BY <1>3, <2>1 DEF InFlight, Inside, InEmit, InRotate
<1> QED BY <1>4, <1>5, <1>6, <1>7, <1>8 DEF Rotate

-----------------------------------------------------------------------------
(* The theorem *)

Inv == TypeOK /\ InFlight

LEMMA InvInit == Init => Inv
BY InitTypeOK, InFlightInit DEF Inv

LEMMA InvStep == Inv /\ [Next]_vars => Inv'
<1> SUFFICES ASSUME TypeOK, InFlight, [Next]_vars PROVE TypeOK' /\ InFlight'
  BY DEF Inv
<1>1. ASSUME NEW h \in Handler, Call(h) \/ Step(h) PROVE TypeOK' /\ InFlight'
  BY <1>1, CallType, EmitType, RotateType, CreateType,
     InFlightCall, InFlightEmit, InFlightRotate DEF Step
<1>2. CASE Crash
  BY <1>2, CrashType, DieInFlight DEF Crash
<1>3. CASE Restart
  <2>1. InFlight'
    BY <1>3 DEF Restart, InFlight, threads
  <2> QED BY <1>3, <2>1, RestartType
<1>4. CASE UNCHANGED vars
  <2> USE DEF vars, disk, memory, threads, told, bounds
  <2>1. TypeOK'
    BY <1>4 DEF TypeOK, DiskTypeOK, ThreadsTypeOK
  <2> QED BY <1>4, <2>1 DEF InFlight
<1> QED BY <1>1, <1>2, <1>3, <1>4 DEF Next

\* In every behaviour, whatever fails: TypeOK, which includes that exactly the holder of
\* Chain.mu is inside an operation, and the agreement of an operation in progress with
\* the files.
THEOREM TypeCorrect == Spec => []TypeOK
<1>1. Init => Inv
  BY InvInit
<1>2. Inv /\ [Next]_vars => Inv'
  BY InvStep
<1>3. Inv => TypeOK
  BY DEF Inv
<1> QED BY <1>1, <1>2, <1>3, PTL DEF Spec

\* The same for the strengthened invariant, for the theorems of other modules.
THEOREM InvHolds == Spec => []Inv
BY InvInit, InvStep, PTL DEF Spec

-----------------------------------------------------------------------------
(* Sealed segments *)

\* The three ways a step treats segments and manifest.
LEMMA SegmentSteps ==
  ASSUME Inv, [Next]_vars
  PROVE  \/ segs' = segs /\ UNCHANGED <<manifest, hasManifest>>
         \/ \E h \in Handler : /\ RotateRename(h) /\ segs' = Append(segs, active)
                               /\ UNCHANGED <<manifest, hasManifest>>
         \/ \E h \in Handler : RotateManifest(h) /\ segs' = segs
<1> USE DEF vars, disk, memory, threads, told, bounds
<1>1. ASSUME NEW h \in Handler, RotateRename(h)
      PROVE  segs' = Append(segs, active) /\ UNCHANGED <<manifest, hasManifest>>
  <2>1. rot.segNum = Len(segs) + 1
    BY <1>1 DEF Inv, InFlight, RotateRename, Advance
  <2> QED BY <1>1, <2>1, RenameAppends DEF RotateRename, Inv, TypeOK, DiskTypeOK
<1>2. ASSUME NEW h \in Handler, RotateManifest(h)
      PROVE  segs' = segs
  BY <1>2 DEF RotateManifest
<1>3. ASSUME NEW h \in Handler, Call(h) \/ Lock(h) \/ Emit(h) \/ CreateCheckpoint(h)
      PROVE  segs' = segs /\ UNCHANGED <<manifest, hasManifest>>
  BY <1>3 DEF Call, EmitCall, RotateCall, CreateCall, Lock, Emit, EmitRefused, EmitWrite,
              EmitWriteFails, EmitSyncFails, EmitReturn, CreateCheckpoint
<1>4. ASSUME NEW h \in Handler,
             \/ RotateRefused(h) \/ RotatePrepare(h) \/ RotateCheckpoint(h)
             \/ RotateFresh(h) \/ RotateFails(h)
      PROVE  segs' = segs /\ UNCHANGED <<manifest, hasManifest>>
  BY <1>4 DEF RotateRefused, RotatePrepare, RotateCheckpoint, RotateFresh, RotateFails
<1>5. ASSUME Crash \/ Restart \/ UNCHANGED vars
      PROVE  segs' = segs /\ UNCHANGED <<manifest, hasManifest>>
  BY <1>5 DEF Crash, Restart
<1> QED BY <1>1, <1>2, <1>3, <1>4, <1>5 DEF Next, Step, Rotate

LEMMA SealedStep ==
  ASSUME Inv, [Next]_vars
  PROVE  /\ \A n \in DOMAIN segs : n \in DOMAIN segs' /\ segs'[n] = segs[n]
         /\ IsPrefix(manifest, manifest')
<1>1. segs \in Seq(Seq(Line)) /\ active \in Seq(Line) /\ manifest \in Seq(Entry)
  BY DEF Inv, TypeOK, DiskTypeOK
<1>2. CASE segs' = segs /\ UNCHANGED <<manifest, hasManifest>>
  BY <1>1, <1>2, PrefixReflexive
<1>3. ASSUME NEW h \in Handler, segs' = Append(segs, active),
             UNCHANGED <<manifest, hasManifest>>
      PROVE  /\ \A n \in DOMAIN segs : n \in DOMAIN segs' /\ segs'[n] = segs[n]
             /\ IsPrefix(manifest, manifest')
  <2>1. \A n \in 1..Len(segs) : n \in 1..(Len(segs) + 1) /\ segs'[n] = segs[n]
    BY <1>1, <1>3, LenProperties
  <2>2. DOMAIN segs = 1..Len(segs) /\ DOMAIN segs' = 1..(Len(segs) + 1)
    BY <1>1, <1>3, LenProperties
  <2> QED BY <1>1, <1>3, <2>1, <2>2, PrefixReflexive
<1>4. ASSUME NEW h \in Handler, RotateManifest(h), segs' = segs
      PROVE  /\ \A n \in DOMAIN segs : n \in DOMAIN segs' /\ segs'[n] = segs[n]
             /\ IsPrefix(manifest, manifest')
  <2>1. RotateEntry \in Entry
    BY DEF RotateEntry, Entry, Inv, TypeOK, ThreadsTypeOK, Locals, Checkpoint
  <2>2. manifest' = Append(manifest, RotateEntry)
    BY <1>4 DEF RotateManifest
  <2> QED BY <1>1, <1>4, <2>1, <2>2, PrefixAppend
<1> QED BY <1>2, <1>3, <1>4, SegmentSteps

\* A rotated-out segment never changes again and the manifest only grows, whatever fails.
THEOREM SegmentsStaySealed == Spec => SealedForever
<1>1. Inv /\ [Next]_vars =>
        [/\ \A n \in DOMAIN segs : n \in DOMAIN segs' /\ segs'[n] = segs[n]
         /\ IsPrefix(manifest, manifest')]_vars
  BY SealedStep
<1> QED BY <1>1, InvHolds, PTL DEF Spec, SealedForever

-----------------------------------------------------------------------------
(* Sidecars *)

\* No step removes a sidecar.
LEMMA SidecarsGrow ==
  ASSUME [Next]_vars
  PROVE  cps \subseteq cps'
<1> USE DEF vars, disk, memory, threads, told, bounds
<1>1. ASSUME NEW h \in Handler, Call(h) \/ Lock(h) \/ Emit(h) \/ CreateCheckpoint(h)
      PROVE  cps \subseteq cps'
  BY <1>1 DEF Call, EmitCall, RotateCall, CreateCall, Lock, Emit, EmitRefused, EmitWrite,
              EmitWriteFails, EmitSyncFails, EmitReturn, CreateCheckpoint
<1>2. ASSUME NEW h \in Handler, Rotate(h)
      PROVE  cps \subseteq cps'
  BY <1>2 DEF Rotate, RotateRefused, RotatePrepare, RotateRename, RotateCheckpoint,
              RotateManifest, RotateFresh, RotateFails
<1>3. ASSUME Crash \/ Restart \/ UNCHANGED vars
      PROVE  cps \subseteq cps'
  BY <1>3 DEF Crash, Restart
<1> QED BY <1>1, <1>2, <1>3 DEF Next, Step

LEMMA SignedStep ==
  ASSUME Inv, ListedSegmentsAreSigned, [Next]_vars
  PROVE  ListedSegmentsAreSigned'
<1>1. cps \subseteq cps'
  BY SidecarsGrow
<1>2. ASSUME UNCHANGED manifest
      PROVE  ListedSegmentsAreSigned'
  BY <1>1, <1>2 DEF ListedSegmentsAreSigned
<1>3. ASSUME NEW h \in Handler, RotateManifest(h)
      PROVE  ListedSegmentsAreSigned'
  <2>1. /\ manifest \in Seq(Entry) /\ manifest' = Append(manifest, RotateEntry)
        /\ Len(manifest) \in Nat
    BY <1>3, LenProperties DEF RotateManifest, Inv, TypeOK, DiskTypeOK
  <2>2. [segment |-> rot.segNum, cp |-> rot.cp] \in cps' /\ signable(rot.cp)
    BY <1>1, <1>3 DEF Inv, InFlight, RotateManifest, Advance
  <2>3. rot.cp.tree_size = rot.cp.last_seq + 1
    BY <2>2 DEF signable, Inv, TypeOK, ThreadsTypeOK, Locals, Checkpoint
  <2>4. \E c \in cps' : /\ c.segment = RotateEntry.segment
                        /\ c.cp.root_hash = RotateEntry.end_hash
                        /\ c.cp.tree_size = RotateEntry.last_seq + 1
    BY <2>2, <2>3 DEF RotateEntry
  <2>5. DOMAIN manifest' = 1..(Len(manifest) + 1) /\ DOMAIN manifest = 1..Len(manifest)
    BY <2>1, LenProperties
  <2>6. ASSUME NEW i \in DOMAIN manifest'
        PROVE  \E c \in cps' : /\ c.segment = manifest'[i].segment
                              /\ c.cp.root_hash = manifest'[i].end_hash
                              /\ c.cp.tree_size = manifest'[i].last_seq + 1
    <3>1. CASE i = Len(manifest) + 1
      BY <2>1, <2>4, <3>1
    <3>2. CASE i # Len(manifest) + 1
      <4>1. i \in DOMAIN manifest /\ manifest'[i] = manifest[i]
        BY <2>1, <2>5, <3>2
      <4> QED BY <1>1, <4>1 DEF ListedSegmentsAreSigned
    <3> QED BY <3>1, <3>2
  <2> QED BY <2>6 DEF ListedSegmentsAreSigned
<1> QED BY <1>2, <1>3, SegmentSteps

\* Every segment the manifest lists has its signed sidecar, whatever fails.
THEOREM ListedSegmentsSigned == Spec => []ListedSegmentsAreSigned
<1>1. Init => ListedSegmentsAreSigned
  BY DEF Init, ListedSegmentsAreSigned
<1>2. Inv /\ ListedSegmentsAreSigned /\ [Next]_vars => ListedSegmentsAreSigned'
  BY SignedStep
<1> QED BY <1>1, <1>2, InvHolds, PTL DEF Spec

-----------------------------------------------------------------------------
(* The manifest lists a verified chain *)

\* The manifest's resume point, which Rotate and loadState start from, is where
\* verifyAllSegments arrives after the last listed segment.
LEMMA ResumePoint ==
  ASSUME Inv, ManifestInFlight
  PROVE  /\ manifestState(Disk).head = CarriedPrev(Disk, Len(manifest) + 1)
         /\ manifestState(Disk).offset = CarriedOffset(Disk, Len(manifest) + 1)
<1>1. manifest \in Seq(Entry) /\ Len(manifest) \in Nat /\ DOMAIN manifest = 1..Len(manifest)
  BY LenProperties DEF Inv, TypeOK, DiskTypeOK
<1>2. CASE manifest = << >>
  BY <1>1, <1>2 DEF manifestState, CarriedPrev, CarriedOffset, Disk
<1>3. CASE manifest # << >>
  <2>1. Len(manifest) \in DOMAIN manifest /\ Len(manifest) + 1 # 1
    BY <1>1, <1>3, EmptySeq
  <2>2. hasManifest
    BY <1>3 DEF ManifestInFlight
  <2>3. /\ Last(manifest).segment \in DOMAIN segs
        /\ Last(manifest).first_seq + Len(segs[Last(manifest).segment])
             = Last(manifest).last_seq + 1
    BY <2>1 DEF ManifestInFlight, Last
  <2>4. manifest[Len(manifest) + 1 - 1] = Last(manifest)
    BY <1>1 DEF Last
  <2> QED BY <1>3, <2>1, <2>2, <2>3, <2>4 DEF manifestState, CarriedPrev, CarriedOffset, Disk
<1> QED BY <1>2, <1>3

\* The entry that the manifest step appends passes.
LEMMA NewEntryWalks ==
  ASSUME Inv, ManifestInFlight, NEW h \in Handler, RotateManifest(h),
         NEW n, n = Len(manifest) + 1
  PROVE  /\ EntryWalks(Disk', n)
         /\ RotateEntry.segment \in DOMAIN segs
         /\ RotateEntry.first_seq + Len(segs[RotateEntry.segment]) = RotateEntry.last_seq + 1
<1> DEFINE state == verifyChainStateFrom(segs[rot.segNum], rot.startPrev, rot.startOffset)
<1>1. /\ manifest \in Seq(Entry) /\ Len(manifest) \in Nat /\ DOMAIN manifest = 1..Len(manifest)
      /\ segs \in Seq(Seq(Line)) /\ rot \in Locals
  BY LenProperties DEF Inv, TypeOK, DiskTypeOK, ThreadsTypeOK
<1>2. pc[h] = "manifest" /\ manifest' = Append(manifest, RotateEntry) /\ segs' = segs
  BY DEF RotateManifest, Advance
<1>3. /\ rot.segNum \in DOMAIN segs /\ state.valid /\ rot.cp = payload(state)
      /\ rot.startPrev = CarriedPrev(Disk, n) /\ rot.startOffset = CarriedOffset(Disk, n)
  BY <1>2, ResumePoint DEF ManifestInFlight, WalkStands, WalkedLines
<1>4. \A k \in 1..Len(manifest) : manifest'[k] = manifest[k]
  BY <1>1, <1>2
<1>5. manifest'[n] = RotateEntry
  BY <1>1, <1>2
<1>6. /\ CarriedPrev(Disk', n) = CarriedPrev(Disk, n)
      /\ CarriedOffset(Disk', n) = CarriedOffset(Disk, n)
  <2>1. CASE n = 1
    BY <2>1 DEF CarriedPrev, CarriedOffset
  <2>2. CASE n # 1
    <3>1. n - 1 \in 1..Len(manifest)
      BY <1>1, <2>2
    <3>2. manifest'[n-1] = manifest[n-1]
      BY <1>4, <3>1
    <3> QED BY <1>2, <2>2, <3>2 DEF CarriedPrev, CarriedOffset, Disk
  <2> QED BY <2>1, <2>2
<1>7. RotateEntry.last_seq = state.last_seq /\ RotateEntry.end_hash = state.root_hash
  BY <1>3 DEF RotateEntry, payload
<1>8. EntryWalks(Disk', n)
  BY <1>2, <1>3, <1>5, <1>6, <1>7 DEF EntryWalks, RotateEntry, Disk
<1>9. Len(segs[rot.segNum]) \in Nat
  BY <1>1, <1>3, ElementOfSeq, LenProperties
<1>10. rot.cp.last_seq = rot.cp.tree_size - 1
  BY <1>2 DEF Inv, InFlight, signable
<1>11. state.tree_size = rot.startOffset + Len(segs[rot.segNum])
  BY <1>3, BrokenType DEF verifyChainStateFrom
<1>12. rot.cp.tree_size = rot.startOffset + Len(segs[rot.segNum])
  BY <1>3, <1>11 DEF payload
<1> HIDE DEF state
<1> QED BY <1>1, <1>3, <1>8, <1>9, <1>10, <1>12 DEF RotateEntry, Locals, Checkpoint

LEMMA ChainOfWalks ==
  ManifestIsAChain <=> \A i \in DOMAIN manifest : EntryWalks(Disk, i)
BY ValidMeansWalks DEF ManifestIsAChain

LEMMA ManifestStep ==
  ASSUME Inv, ManifestIsAChain, ManifestInFlight, [Next]_vars
  PROVE  /\ ManifestIsAChain'
         /\ (hasManifest <=> manifest # << >>)'
         /\ (\A i \in DOMAIN manifest :
               manifest[i].segment \in DOMAIN segs /\
               manifest[i].first_seq + Len(segs[manifest[i].segment])
                 = manifest[i].last_seq + 1)'
<1> DEFINE Adds(i) == manifest[i].segment \in DOMAIN segs /\
                      manifest[i].first_seq + Len(segs[manifest[i].segment])
                        = manifest[i].last_seq + 1
<1>1. /\ manifest \in Seq(Entry) /\ Len(manifest) \in Nat /\ DOMAIN manifest = 1..Len(manifest)
      /\ manifest' \in Seq(Entry)
  <2>1. Inv'
    BY InvStep
  <2> QED BY <2>1, LenProperties DEF Inv, TypeOK, DiskTypeOK
<1>2. /\ \A i \in DOMAIN manifest : EntryWalks(Disk, i)
      /\ \A i \in DOMAIN manifest : Adds(i)
  BY ChainOfWalks DEF ManifestInFlight
<1>3. \A n \in DOMAIN segs : n \in DOMAIN segs' /\ segs'[n] = segs[n]
  BY SealedStep
<1>4. ASSUME \A k \in DOMAIN manifest : manifest'[k] = manifest[k],
             NEW i \in DOMAIN manifest
      PROVE  EntryWalks(Disk', i) /\ Adds(i)'
  <2>1. /\ Disk.manifest = manifest /\ Disk'.manifest = manifest'
        /\ Disk.segs = segs /\ Disk'.segs = segs'
    BY DEF Disk
  <2>2. EntryWalks(Disk', i)
    <3> DEFINE d == Disk
               e == Disk'
    <3>1. i \in DOMAIN d.manifest /\ d.manifest \in Seq(Entry) /\ e.manifest \in Seq(Entry)
      BY <1>1, <2>1
    <3>2. \A k \in DOMAIN d.manifest : e.manifest[k] = d.manifest[k]
      BY <1>4, <2>1
    <3>3. \A n \in DOMAIN d.segs : n \in DOMAIN e.segs /\ e.segs[n] = d.segs[n]
      BY <1>3, <2>1
    <3>4. \A k \in DOMAIN d.manifest : EntryWalks(d, k)
      BY <1>2, <2>1
    <3> HIDE DEF d, e
    <3>5. EntryWalks(e, i)
      BY <3>1, <3>2, <3>3, <3>4, WalksStay
    <3> QED BY <3>5 DEF e
  <2>3. Adds(i)'
    BY <1>2, <1>3, <1>4
  <2> QED BY <2>2, <2>3
<1>5. ASSUME UNCHANGED <<manifest, hasManifest>>
      PROVE  /\ \A i \in DOMAIN manifest' : EntryWalks(Disk', i) /\ Adds(i)'
             /\ (hasManifest <=> manifest # << >>)'
  BY <1>4, <1>5 DEF ManifestInFlight
<1>6. ASSUME NEW h \in Handler, RotateManifest(h), segs' = segs
      PROVE  /\ \A i \in DOMAIN manifest' : EntryWalks(Disk', i) /\ Adds(i)'
             /\ (hasManifest <=> manifest # << >>)'
  <2>1. manifest' = Append(manifest, RotateEntry) /\ hasManifest' = TRUE
    BY <1>6 DEF RotateManifest
  <2>2. RotateEntry \in Entry
    BY DEF RotateEntry, Entry, Inv, TypeOK, ThreadsTypeOK, Locals, Checkpoint
  <2>3. /\ DOMAIN manifest' = 1..(Len(manifest) + 1) /\ Len(manifest') = Len(manifest) + 1
        /\ \A k \in DOMAIN manifest : manifest'[k] = manifest[k]
        /\ manifest'[Len(manifest) + 1] = RotateEntry
    BY <1>1, <2>1, <2>2, LenProperties
  <2>4. ASSUME NEW n, n = Len(manifest) + 1
        PROVE  EntryWalks(Disk', n) /\ Adds(n)'
    BY <1>6, <2>3, <2>4, NewEntryWalks
  <2>5. manifest' # << >>
    BY <1>1, <2>3
  <2>6. ASSUME NEW i \in DOMAIN manifest'
        PROVE  EntryWalks(Disk', i) /\ Adds(i)'
    <3>1. CASE i = Len(manifest) + 1
      BY <2>4, <3>1
    <3>2. CASE i # Len(manifest) + 1
      BY <1>1, <1>4, <2>3, <3>2
    <3> QED BY <3>1, <3>2
  <2> QED BY <2>1, <2>5, <2>6
<1>7. /\ \A i \in DOMAIN manifest' : EntryWalks(Disk', i) /\ Adds(i)'
      /\ (hasManifest <=> manifest # << >>)'
  BY <1>5, <1>6, SegmentSteps
<1>8. ManifestIsAChain'
  <2>1. \A i \in DOMAIN manifest' : listedSegment(Disk', i).valid
    BY <1>7, ValidMeansWalks
  <2> QED BY <2>1 DEF ManifestIsAChain
<1> QED BY <1>7, <1>8

\* The three steps of Rotate between its walk and the manifest.
Flying == {"rename", "checkpoint", "manifest"}

\* What a Rotate has walked still stands.
WalksStand == \A h \in Handler : pc[h] \in Flying => WalkStands(pc[h])

LEMMA FlightStep ==
  ASSUME Inv, WalksStand, [Next]_vars, NEW g \in Handler, pc'[g] \in Flying
  PROVE  WalkStands(pc[g])'
<1> USE DEF vars, disk, memory, threads, told, bounds
<1>1. /\ pc \in [Handler -> {"idle"} \cup Waiting \cup Inside] /\ TypeOK
      /\ Flying \subseteq Inside
  BY DEF Inv, TypeOK, ThreadsTypeOK, Flying, Inside, InRotate
<1>2. ASSUME UNCHANGED <<active, segs, manifest, hasManifest, rot>>, pc'[g] = pc[g]
      PROVE  WalkStands(pc[g])'
  BY <1>2 DEF WalksStand, WalkStands, WalkedLines, manifestState, Disk, Flying
\* A step of another handler from inside its own operation.
<1>3. ASSUME NEW h \in Handler, pc[h] \in Inside, h # g, pc'[g] = pc[g]
      PROVE  FALSE
  BY <1>1, <1>3, OnlyOneInside
<1>4. ASSUME NEW h \in Handler, Call(h) \/ Lock(h)
      PROVE  WalkStands(pc[g])'
  <2>1. UNCHANGED <<active, segs, manifest, hasManifest, rot>>
    BY <1>4 DEF Call, EmitCall, RotateCall, CreateCall, Lock
  <2>2. pc'[g] = pc[g]
    BY <1>1, <1>4
       DEF Call, EmitCall, RotateCall, CreateCall, Lock, FirstStep, Flying, Waiting
  <2> QED BY <1>2, <2>1, <2>2
<1>5. ASSUME NEW h \in Handler, Return(h), pc[h] \in Inside
      PROVE  FALSE
  <2>1. CASE g = h
    BY <1>1, <1>5, <2>1, ReturnLeaves DEF Flying
  <2>2. CASE g # h
    BY <1>1, <1>3, <1>5, <2>2, ReturnLeaves
  <2> QED BY <2>1, <2>2
<1>6. ASSUME NEW h \in Handler,
             \/ Emit(h) \/ CreateCheckpoint(h)
             \/ RotateRefused(h) \/ RotateFresh(h) \/ RotateFails(h)
      PROVE  FALSE
  <2>1. CASE EmitWrite(h)
    <3>1. pc[h] \in Inside /\ pc'[h] = "sync"
      BY <1>1, <2>1 DEF EmitWrite, Advance, StepAfter, Inside, InEmit
    <3>2. g # h => pc'[g] = pc[g]
      BY <1>1, <2>1 DEF EmitWrite, Advance
    <3> QED BY <1>3, <3>1, <3>2 DEF Flying
  <2>2. CASE ~EmitWrite(h)
    <3>1. Return(h) /\ pc[h] \in Inside
      BY <1>6, <2>2
         DEF Emit, EmitRefused, EmitWriteFails, EmitSyncFails, EmitReturn, CreateCheckpoint,
             RotateRefused, RotateFresh, RotateFails, RotateFaults, Inside, InEmit, InRotate
    <3> QED BY <1>5, <3>1
  <2> QED BY <2>1, <2>2
<1>7. ASSUME NEW h \in Handler, NEW from \in {"prepare", "rename", "checkpoint", "manifest"},
             Advance(h, from)
      PROVE  g = h /\ pc[h] = from /\ pc'[h] = StepAfter[from]
  <2>1. pc[h] = from /\ pc'[h] = StepAfter[from] /\ (g # h => pc'[g] = pc[g])
    BY <1>1, <1>7 DEF Advance
  <2>2. pc[h] \in Inside
    BY <2>1 DEF Inside, InRotate
  <2> QED BY <1>3, <2>1, <2>2
<1>8. ASSUME NEW h \in Handler, RotatePrepare(h)
      PROVE  WalkStands(pc[g])'
  <2>1. pc'[g] = "rename"
    BY <1>7, <1>8 DEF RotatePrepare, StepAfter
  <2>2. UNCHANGED <<active, segs, manifest, hasManifest>> /\ ActiveState.valid
    BY <1>8 DEF RotatePrepare, Rotatable
  <2>3. /\ rot'.startOffset = manifestState(Disk).offset
        /\ rot'.startPrev = manifestState(Disk).head /\ rot'.cp = payload(ActiveState)
    BY <1>8 DEF RotatePrepare
  <2>4. ActiveState = verifyChainStateFrom(active, rot'.startPrev, rot'.startOffset)
    BY <2>2, <2>3, BrokenType DEF ActiveState, walkActive, Disk
  <2>5. manifestState(Disk)' = manifestState(Disk)
    BY <2>2 DEF manifestState, Disk
  <2>6. WalkedLines("rename")' = active
    BY <2>2 DEF WalkedLines
  <2> QED BY <2>1, <2>2, <2>3, <2>4, <2>5, <2>6 DEF WalkStands
<1>9. ASSUME NEW h \in Handler, RotateRename(h)
      PROVE  WalkStands(pc[g])'
  <2>1. g = h /\ pc[h] = "rename" /\ pc'[g] = "checkpoint"
    BY <1>7, <1>9 DEF RotateRename, StepAfter
  <2>2. UNCHANGED <<manifest, hasManifest, rot>>
    BY <1>9 DEF RotateRename
  <2>3. rot.segNum \in DOMAIN segs' /\ segs'[rot.segNum] = active
    BY <1>9 DEF RotateRename
  <2>4. WalkStands("rename")
    BY <2>1 DEF WalksStand, Flying
  <2>5. manifestState(Disk)' = manifestState(Disk)
    BY <2>2 DEF manifestState, Disk
  <2>6. WalkedLines("checkpoint")' = WalkedLines("rename")
    BY <2>2, <2>3 DEF WalkedLines
  <2> QED BY <2>1, <2>2, <2>3, <2>4, <2>5, <2>6 DEF WalkStands
<1>10. ASSUME NEW h \in Handler, RotateCheckpoint(h)
       PROVE  WalkStands(pc[g])'
  <2>1. g = h /\ pc[h] = "checkpoint" /\ pc'[g] = "manifest"
    BY <1>7, <1>10 DEF RotateCheckpoint, StepAfter
  <2>2. UNCHANGED <<segs, manifest, hasManifest, rot>>
    BY <1>10 DEF RotateCheckpoint
  <2>3. WalkStands("checkpoint")
    BY <2>1 DEF WalksStand, Flying
  <2>4. manifestState(Disk)' = manifestState(Disk)
    BY <2>2 DEF manifestState, Disk
  <2>5. WalkedLines("manifest")' = WalkedLines("checkpoint")
    BY <2>2 DEF WalkedLines
  <2> QED BY <2>1, <2>2, <2>3, <2>4, <2>5 DEF WalkStands
<1>11. ASSUME NEW h \in Handler, RotateManifest(h)
       PROVE  FALSE
  <2>1. pc'[g] = "fresh"
    BY <1>7, <1>11 DEF RotateManifest, StepAfter
  <2> QED BY <2>1 DEF Flying
<1>12. ASSUME Crash
       PROVE  FALSE
  BY <1>12 DEF Crash, Die, Flying
<1>13. ASSUME Restart \/ UNCHANGED vars
       PROVE  WalkStands(pc[g])'
  <2>1. UNCHANGED <<active, segs, manifest, hasManifest, rot>> /\ pc'[g] = pc[g]
    BY <1>13 DEF Restart
  <2> QED BY <1>2, <2>1
<1> QED BY <1>4, <1>6, <1>8, <1>9, <1>10, <1>11, <1>12, <1>13 DEF Next, Step, Rotate

ManifestInv == ManifestIsAChain /\ ManifestInFlight

LEMMA ManifestInvStep ==
  ASSUME Inv, ManifestInv, [Next]_vars
  PROVE  ManifestInv'
<1>1. ManifestIsAChain'
  BY ManifestStep DEF ManifestInv
<1>2. ManifestInFlight'
  BY ManifestStep, FlightStep DEF ManifestInFlight, ManifestInv, WalksStand, Flying
<1> QED BY <1>1, <1>2 DEF ManifestInv

\* The listed chain, with what a Rotate in progress still has of the lines it walked.
THEOREM ManifestInvHolds == Spec => []ManifestInv
<1>1. Init => ManifestInv
  BY DEF Init, ManifestInv, ManifestIsAChain, ManifestInFlight
<1>2. Inv /\ ManifestInv /\ [Next]_vars => ManifestInv'
  BY ManifestInvStep
<1> QED BY <1>1, <1>2, InvHolds, PTL DEF Spec

\* The manifest lists a verified chain, whatever step fails and wherever the process dies: an
\* entry is written only for lines that were walked from the manifest's resume point, and
\* nothing touches them between the walk and the entry.
THEOREM ManifestListsAChain == Spec => []ManifestIsAChain
<1>1. ManifestInv => ManifestIsAChain
  BY DEF ManifestInv
<1> QED BY <1>1, ManifestInvHolds, PTL

-----------------------------------------------------------------------------
(* The files between the steps of an operation *)

\* The head at which the manifest says the active segment starts.
SealedTo == manifestState(Disk).head

InTheWindow == {"checkpoint", "manifest"}

\* No segment is listed before it is renamed.
Counted ==
  /\ Len(manifest) <= Len(segs)
  /\ \A h \in Handler : pc[h] \in InTheWindow => Len(manifest) < Len(segs)

\* If the last line is a record of its own, an Emit in front of its fsync wrote it.
WrittenIsLast ==
  \A h \in Handler : pc[h] = "sync" /\ Last(active).kind = "rec" =>
    Last(active).rec = EmittedRecord(h)

\* Nothing is written between the rename and the manifest.
EmptyInWindow == \A h \in Handler : pc[h] \in InTheWindow => active = << >>

FilesInv == (hasManifest <=> manifest # << >>) /\ Counted /\ WrittenIsLast /\ EmptyInWindow

\* While the process is down nobody is in a call.
DownIsIdle == ~up => \A h \in Handler : pc[h] = "idle"

LEMMA StateTypes ==
  ASSUME Inv
  PROVE  /\ active \in Seq(Line) /\ segs \in Seq(Seq(Line)) /\ manifest \in Seq(Entry)
         /\ Len(segs) \in Nat /\ Len(manifest) \in Nat /\ rot \in Locals
         /\ SealedTo \in Hash /\ HeadAfter(active, SealedTo) \in Hash
<1>1. /\ active \in Seq(Line) /\ segs \in Seq(Seq(Line)) /\ manifest \in Seq(Entry)
      /\ Len(segs) \in Nat /\ Len(manifest) \in Nat /\ rot \in Locals
  BY LenProperties DEF Inv, TypeOK, DiskTypeOK, ThreadsTypeOK
<1>2. SealedTo \in Hash
  BY DiskHasType, ManifestStateType DEF Inv, SealedTo
<1> QED BY <1>1, <1>2, HeadAfterType

\* What a valid verdict says, with or without a manifest, whatever the segments hold.
LEMMA VerdictReports ==
  ASSUME Inv, hasManifest <=> manifest # << >>, Verdict.valid
  PROVE  /\ SoundFile(active, SealedTo)
         /\ Verdict.root_hash = HeadAfter(active, SealedTo)
         /\ hasManifest => Len(segs) <= Len(manifest)
<1>1. /\ Len(segs) \in Nat /\ Len(manifest) \in Nat /\ manifest \in Seq(Entry)
      /\ highestSegmentOnDisk(segs) = Len(segs)
  BY StateTypes, HighestIsLen
<1> DEFINE offset == CarriedOffset(Disk, Len(manifest) + 1)
<1>2. /\ ~uncoveredSegment(Disk)
      /\ Verdict = walkActive(Disk, CarriedPrev(Disk, Len(manifest) + 1), offset)
  BY BrokenType DEF Verdict, verifyAllSegments, Disk
<1>3. hasManifest => Len(segs) <= Len(manifest)
  BY <1>1, <1>2 DEF uncoveredSegment, Disk
<1>4. SealedTo = CarriedPrev(Disk, Len(manifest) + 1)
  <2>1. CASE manifest = << >>
    BY <2>1 DEF SealedTo, manifestState, CarriedPrev, Disk
  <2>2. CASE manifest # << >>
    <3>1. Len(manifest) + 1 # 1 /\ (Len(manifest) + 1) - 1 = Len(manifest)
      BY <1>1, <2>2, EmptySeq
    <3> QED BY <2>2, <3>1 DEF SealedTo, manifestState, CarriedPrev, Disk, Last
  <2> QED BY <2>1, <2>2
<1> HIDE DEF offset
<1>5. Verdict = verifyChainStateFrom(active, SealedTo, offset)
  BY <1>2, <1>4, BrokenType DEF walkActive, Disk
<1> QED BY <1>3, <1>5, WalkReports

\* A step of the handler inside an operation: the others are outside, and stay there.
LEMMA OthersOutside ==
  ASSUME TypeOK, NEW h \in Handler, pc[h] \in Inside, Emit(h) \/ Rotate(h) \/ CreateCheckpoint(h)
  PROVE  \A g \in Handler \ {h} : pc'[g] = pc[g] /\ pc'[g] \notin Inside
<1>1. \A g \in Handler \ {h} : pc[g] \notin Inside
  BY OnlyOneInside
<1>2. \A g \in Handler \ {h} : pc'[g] = pc[g]
  BY ReturnLeaves
     DEF Emit, EmitRefused, EmitWrite, EmitWriteFails, EmitSyncFails, EmitReturn, Rotate,
         RotateRefused, RotatePrepare, RotateRename, RotateCheckpoint, RotateManifest,
         RotateFresh, RotateFails, CreateCheckpoint, Advance, TypeOK, ThreadsTypeOK
<1> QED BY <1>1, <1>2

LEMMA InsideSteps ==
  ASSUME TypeOK, NEW h \in Handler, Emit(h) \/ Rotate(h) \/ CreateCheckpoint(h)
  PROVE  pc[h] \in Inside
BY DEF Emit, EmitRefused, EmitWrite, EmitWriteFails, EmitSyncFails, EmitReturn, Rotate,
       RotateRefused, RotatePrepare, RotateRename, RotateCheckpoint, RotateManifest,
       RotateFresh, RotateFails, CreateCheckpoint, RotateFaults, Advance, Inside, InEmit,
       InRotate

\* The record of an emit whose handler, and the memory it reads, are left alone.
LEMMA SameRecord ==
  ASSUME NEW g, UNCHANGED memory, arg'[g] = arg[g]
  PROVE  EmittedRecord(g)' = EmittedRecord(g)
BY DEF memory, EmittedRecord

\* What the steps of an operation do to the files: they leave them, or Emit adds a line, or
\* Rotate renames the active segment, or Rotate lists the segment it renamed.
LEMMA OperationSteps ==
  ASSUME Inv, NEW h \in Handler, Emit(h) \/ Rotate(h) \/ CreateCheckpoint(h)
  PROVE  /\ \A g \in Handler \ {h} : pc'[g] \notin {"sync"} \cup InTheWindow
         /\ \/ /\ UNCHANGED <<active, segs, hasManifest, manifest>>
               /\ pc'[h] = "sync" => FALSE
               /\ pc'[h] \in InTheWindow => RotateCheckpoint(h)
            \/ EmitWrite(h)
            \/ /\ EmitWriteFails(h) /\ pc'[h] = "idle" /\ UNCHANGED <<segs, hasManifest, manifest>>
               /\ \E line \in Line : active' = AppendLine(active, line)
            \/ RotateRename(h)
            \/ RotateManifest(h)
<1>1. TypeOK /\ pc[h] \in Inside
  BY InsideSteps DEF Inv
<1>2. \A g \in Handler \ {h} : pc'[g] \notin {"sync"} \cup InTheWindow
  BY <1>1, OthersOutside DEF InTheWindow, Inside, InEmit, InRotate
<1>3. CASE EmitRefused(h) \/ EmitSyncFails(h) \/ EmitReturn(h) \/ CreateCheckpoint(h)
  <2>1. pc'[h] = "idle"
    BY <1>1, <1>3, ReturnLeaves DEF EmitRefused, EmitSyncFails, EmitReturn, CreateCheckpoint
  <2>2. UNCHANGED <<active, segs, hasManifest, manifest>>
    BY <1>3 DEF EmitRefused, EmitSyncFails, EmitReturn, CreateCheckpoint, disk
  <2> QED BY <1>2, <2>1, <2>2 DEF InTheWindow
<1>4. CASE EmitWriteFails(h)
  <2>1. pc'[h] = "idle" /\ UNCHANGED <<segs, hasManifest, manifest>>
    BY <1>1, <1>4, ReturnLeaves DEF EmitWriteFails
  <2>2. UNCHANGED active \/ \E line \in Line : active' = AppendLine(active, line)
    BY <1>1, <1>4, PartialWrite DEF EmitWriteFails
  <2> QED BY <1>2, <1>4, <2>1, <2>2 DEF InTheWindow
<1>5. CASE RotateRefused(h) \/ RotateFresh(h) \/ RotateFails(h)
  <2>1. pc'[h] = "idle"
    BY <1>1, <1>5, ReturnLeaves DEF RotateRefused, RotateFresh, RotateFails
  <2>2. UNCHANGED <<active, segs, hasManifest, manifest>>
    BY <1>5 DEF RotateRefused, RotateFresh, RotateFails, disk
  <2> QED BY <1>2, <2>1, <2>2 DEF InTheWindow
<1>6. CASE RotatePrepare(h) \/ RotateCheckpoint(h)
  <2>1. (RotatePrepare(h) => pc'[h] = "rename") /\ (RotateCheckpoint(h) => pc'[h] = "manifest")
    BY <1>1 DEF RotatePrepare, RotateCheckpoint, Advance, StepAfter, TypeOK, ThreadsTypeOK
  <2>2. UNCHANGED <<active, segs, hasManifest, manifest>>
    BY <1>6 DEF RotatePrepare, RotateCheckpoint, disk
  <2> QED BY <1>2, <1>6, <2>1, <2>2 DEF InTheWindow
<1>7. CASE EmitWrite(h) \/ RotateRename(h) \/ RotateManifest(h)
  BY <1>2, <1>7
<1> QED BY <1>3, <1>4, <1>5, <1>6, <1>7 DEF Emit, Rotate

LEMMA WriteStep ==
  ASSUME Inv, NEW h \in Handler, EmitWrite(h)
  PROVE  /\ pc[h] = "write" /\ pc'[h] = "sync" /\ UNCHANGED <<segs, hasManifest, manifest, told>>
         /\ Whole(EmittedRecord(h)) \in Line
         /\ active' = AppendLine(active, Whole(EmittedRecord(h)))
         /\ Last(active').kind = "rec" => Last(active').rec = EmittedRecord(h)'
<1> DEFINE line == Whole(EmittedRecord(h))
<1>1. /\ pc'[h] = "sync" /\ pc[h] = "write" /\ active' = AppendLine(active, line)
      /\ UNCHANGED <<segs, hasManifest, manifest, told, memory, arg>>
  BY DEF EmitWrite, Advance, StepAfter, Inv, TypeOK, ThreadsTypeOK
<1>2. line \in Line
  BY <1>1, EmittedRecordType, LineTypes DEF InEmit, Inv
<1>3. EmittedRecord(h)' = EmittedRecord(h)
  BY <1>1, SameRecord
<1>4. CASE active = << >> \/ Last(active).nl
  <2>1. Last(active') = line
    BY <1>1, <1>2, <1>4, StateTypes, FrontOfAppend DEF AppendLine
  <2> QED BY <1>1, <1>2, <1>3, <2>1 DEF Whole
<1>5. CASE ~(active = << >> \/ Last(active).nl)
  <2> DEFINE kind == IF active[Len(active)].kind = "junk" THEN "junk" ELSE "two"
             glued == [kind |-> kind, rec |-> active[Len(active)].rec, nl |-> line.nl]
  <2>1. active \in Seq(Line) /\ Len(active) \in 1..Len(active)
    BY <1>5, StateTypes, EmptySeq
  <2>2. active' = [active EXCEPT ![Len(active)] = glued]
    BY <1>1, <1>5 DEF AppendLine
  <2>3. DOMAIN active = 1..Len(active)
    BY <2>1, LenProperties
  <2>4. active' \in Seq(Line)
    BY <1>1, <1>2, <2>1, AppendLineType
  <2>5. Len(active') = Len(active)
    BY <2>1, <2>2, <2>3, <2>4, LenProperties
  <2>6. Last(active').kind # "rec"
    BY <2>1, <2>2, <2>3, <2>5 DEF Last
  <2> QED BY <1>1, <1>2, <2>6
<1> QED BY <1>4, <1>5

LEMMA RenameStep ==
  ASSUME Inv, NEW h \in Handler, RotateRename(h)
  PROVE  /\ pc[h] = "rename" /\ pc'[h] = "checkpoint" /\ active' = << >>
         /\ segs' = Append(segs, active) /\ Len(segs') = Len(segs) + 1
         /\ UNCHANGED <<hasManifest, manifest, rot, told>>
<1>1. /\ pc[h] = "rename" /\ pc'[h] = "checkpoint" /\ active' = << >>
      /\ UNCHANGED <<hasManifest, manifest, rot, told>>
  BY DEF RotateRename, Advance, StepAfter, Inv, TypeOK, ThreadsTypeOK
<1>2. rot.segNum = Len(segs) + 1
  BY <1>1 DEF Inv, InFlight
<1>3. segs' = Append(segs, active)
  BY <1>2, RenameAppends, StateTypes DEF RotateRename
<1> QED BY <1>1, <1>3, StateTypes

LEMMA ListingStep ==
  ASSUME Inv, NEW h \in Handler, RotateManifest(h)
  PROVE  /\ pc[h] = "manifest" /\ pc'[h] = "fresh" /\ UNCHANGED <<active, segs, told>>
         /\ hasManifest' = TRUE /\ manifest' # << >> /\ Len(manifest') = Len(manifest) + 1
         /\ SealedTo' = rot.cp.root_hash
<1>1. /\ pc[h] = "manifest" /\ pc'[h] = "fresh" /\ hasManifest' = TRUE
      /\ manifest' = Append(manifest, RotateEntry) /\ UNCHANGED <<active, segs, told>>
  BY DEF RotateManifest, Advance, StepAfter, Inv, TypeOK, ThreadsTypeOK
<1>2. RotateEntry \in Entry
  BY DEF RotateEntry, Entry, Inv, TypeOK, ThreadsTypeOK, Locals, Checkpoint
<1>3. Len(manifest') = Len(manifest) + 1 /\ manifest' # << >> /\ Last(manifest') = RotateEntry
  BY <1>1, <1>2, StateTypes, FrontOfAppend
<1>4. SealedTo' = rot.cp.root_hash
  BY <1>1, <1>3 DEF SealedTo, manifestState, Disk, RotateEntry
<1> QED BY <1>1, <1>3, <1>4

\* A step that leaves alone the files and everybody who has written or renamed something.
LEMMA FilesQuiet ==
  ASSUME FilesInv, UNCHANGED <<active, segs, hasManifest, manifest>>,
         \A g \in Handler : pc'[g] = "sync" =>
           pc[g] = "sync" /\ EmittedRecord(g)' = EmittedRecord(g),
         \A g \in Handler : pc'[g] \in InTheWindow => pc[g] \in InTheWindow
  PROVE  FilesInv'
BY DEF FilesInv, Counted, WrittenIsLast, EmptyInWindow

\* Calls, and taking the mutex: nobody gets to where a file has been changed.
LEMMA CallSteps ==
  ASSUME Inv, NEW h \in Handler, Call(h) \/ Lock(h)
  PROVE  /\ UNCHANGED <<active, segs, hasManifest, manifest, told, rot, memory>>
         /\ \A g \in Handler : pc'[g] \in {"sync"} \cup InTheWindow =>
              pc'[g] = pc[g] /\ EmittedRecord(g)' = EmittedRecord(g)
<1>1. UNCHANGED <<active, segs, hasManifest, manifest, told, rot, memory>>
  BY DEF Call, EmitCall, RotateCall, CreateCall, Lock, disk, bounds
<1>2. \A g \in Handler : pc'[g] \in {"sync"} \cup InTheWindow => pc'[g] = pc[g] /\ arg'[g] = arg[g]
  BY DEF Call, EmitCall, RotateCall, CreateCall, Lock, FirstStep, Waiting, InTheWindow, Inv,
         TypeOK, ThreadsTypeOK
<1> QED BY <1>1, <1>2, SameRecord

LEMMA FilesOperation ==
  ASSUME Inv, FilesInv, NEW h \in Handler, Emit(h) \/ Rotate(h) \/ CreateCheckpoint(h)
  PROVE  FilesInv'
<1>1. \A g \in Handler \ {h} : pc'[g] \notin {"sync"} \cup InTheWindow
  BY OperationSteps
<1>2. Len(segs) \in Nat /\ Len(manifest) \in Nat
  BY StateTypes
<1>3. CASE /\ UNCHANGED <<active, segs, hasManifest, manifest>> /\ pc'[h] # "sync"
           /\ pc'[h] \in InTheWindow => RotateCheckpoint(h)
  <2>1. pc'[h] \in InTheWindow => pc[h] \in InTheWindow
    BY <1>3 DEF RotateCheckpoint, Advance, InTheWindow
  <2> QED BY <1>1, <1>3, <2>1, FilesQuiet
<1>4. CASE EmitWrite(h)
  <2>1. /\ pc'[h] = "sync" /\ UNCHANGED <<segs, hasManifest, manifest>>
        /\ Last(active').kind = "rec" => Last(active').rec = EmittedRecord(h)'
    BY <1>4, WriteStep
  <2> QED BY <1>1, <2>1 DEF FilesInv, Counted, WrittenIsLast, EmptyInWindow, InTheWindow
<1>5. CASE EmitWriteFails(h) /\ pc'[h] = "idle" /\ UNCHANGED <<segs, hasManifest, manifest>>
  BY <1>1, <1>5 DEF FilesInv, Counted, WrittenIsLast, EmptyInWindow, InTheWindow
<1>6. CASE RotateRename(h)
  <2>1. /\ pc'[h] = "checkpoint" /\ active' = << >> /\ Len(segs') = Len(segs) + 1
        /\ UNCHANGED <<hasManifest, manifest>>
    BY <1>6, RenameStep
  <2> QED BY <1>1, <1>2, <2>1 DEF FilesInv, Counted, WrittenIsLast, EmptyInWindow, InTheWindow
<1>7. CASE RotateManifest(h)
  <2>1. /\ pc[h] = "manifest" /\ pc'[h] = "fresh" /\ UNCHANGED <<active, segs>>
        /\ hasManifest' = TRUE /\ manifest' # << >> /\ Len(manifest') = Len(manifest) + 1
    BY <1>7, ListingStep
  <2> QED BY <1>1, <1>2, <2>1 DEF FilesInv, Counted, WrittenIsLast, EmptyInWindow, InTheWindow
<1> QED BY <1>3, <1>4, <1>5, <1>6, <1>7, OperationSteps

LEMMA FilesStep ==
  ASSUME Inv, FilesInv, DownIsIdle, [Next]_vars
  PROVE  FilesInv'
<1>1. ASSUME NEW h \in Handler, Call(h) \/ Lock(h)
      PROVE  FilesInv'
  BY <1>1, CallSteps, FilesQuiet
<1>2. CASE Crash
  <2>1. (\A g \in Handler : pc'[g] = "idle") /\ UNCHANGED <<segs, hasManifest, manifest>>
    BY <1>2 DEF Crash, Die
  <2> QED BY <2>1 DEF FilesInv, Counted, WrittenIsLast, EmptyInWindow, InTheWindow
<1>3. CASE Restart
  <2>1. UNCHANGED <<active, segs, hasManifest, manifest, pc>> /\ \A g \in Handler : pc[g] # "sync"
    BY <1>3 DEF Restart, threads, DownIsIdle
  <2> QED BY <2>1, FilesQuiet
<1>4. CASE UNCHANGED vars
  <2>1. UNCHANGED <<active, segs, hasManifest, manifest, pc, memory, arg>>
    BY <1>4 DEF vars, disk, threads, memory
  <2> QED BY <2>1, SameRecord, FilesQuiet
<1> QED BY <1>1, <1>2, <1>3, <1>4, FilesOperation DEF Next, Step

LEMMA DownStep ==
  ASSUME TypeOK, DownIsIdle, [Next]_vars
  PROVE  DownIsIdle'
<1>1. ASSUME NEW h \in Handler, Call(h) \/ Step(h)
      PROVE  up /\ up'
  <2>1. pc[h] # "idle" \/ up
    BY <1>1, InsideSteps
       DEF Call, Step, EmitCall, RotateCall, CreateCall, Lock, Waiting, Inside, InEmit, InRotate
  <2>2. up' = up
    BY <1>1
       DEF Call, EmitCall, RotateCall, CreateCall, Step, Lock, Emit, EmitRefused, EmitWrite,
           EmitWriteFails, EmitSyncFails, EmitReturn, Rotate, RotateRefused, RotatePrepare,
           RotateRename, RotateCheckpoint, RotateManifest, RotateFresh, RotateFails,
           CreateCheckpoint
  <2> QED BY <2>1, <2>2 DEF DownIsIdle, TypeOK
<1>2. CASE Crash
  BY <1>2 DEF Crash, Die, DownIsIdle
<1>3. CASE Restart
  BY <1>3 DEF Restart, DownIsIdle
<1>4. CASE UNCHANGED vars
  BY <1>4 DEF vars, threads, DownIsIdle
<1> QED BY <1>1, <1>2, <1>3, <1>4 DEF Next, DownIsIdle

-----------------------------------------------------------------------------
(* The heads that were vouched for *)

\* Every head of a set is part of what the lines hold, if the lines are sound.
Holds(lines, start, heads) ==
  SoundFile(lines, start) => \A g \in heads : IsPrefix(g, HeadAfter(lines, start))

ActiveHoldsHeads == Len(segs) <= Len(manifest) => Holds(active, SealedTo, Heads)

\* What Rotate is about to list holds every head.
RotatedHoldsHeads ==
  \A h \in Handler : pc[h] \in InTheWindow /\ Len(segs) <= Len(manifest) + 1 =>
    \A g \in Heads : IsPrefix(g, rot.cp.root_hash)

HeadsInv == FilesInv /\ ActiveHoldsHeads /\ RotatedHoldsHeads

LEMMA HeadsType ==
  ASSUME Inv
  PROVE  Heads \subseteq Hash
BY DEF Heads, Inv, TypeOK, Ack, Checkpoint

\* No line that is added hides a head: it extends a sound file, or leaves an unsound one.
LEMMA HoldsWrite ==
  ASSUME NEW lines \in Seq(Line), NEW line \in Line, NEW start \in Hash,
         NEW heads \in SUBSET Hash, Holds(lines, start, heads)
  PROVE  Holds(AppendLine(lines, line), start, heads)
<1> SUFFICES ASSUME SoundFile(AppendLine(lines, line), start), NEW g \in heads
             PROVE  IsPrefix(g, HeadAfter(AppendLine(lines, line), start))
  BY DEF Holds
<1>1. /\ SoundFile(lines, start)
      /\ HeadAfter(AppendLine(lines, line), start)
           = Append(HeadAfter(lines, start), BodyOf(line.rec))
  BY SoundWrite
<1>2. IsPrefix(g, HeadAfter(lines, start))
  BY <1>1 DEF Holds
<1>3. BodyOf(line.rec) \in Body /\ HeadAfter(lines, start) \in Hash
  BY HeadAfterType DEF BodyOf, Body, Line, Record
<1>4. /\ IsPrefix(HeadAfter(lines, start), HeadAfter(AppendLine(lines, line), start))
      /\ HeadAfter(AppendLine(lines, line), start) \in Hash
  BY <1>1, <1>3, PrefixAppend DEF Hash
<1> QED BY <1>2, <1>3, <1>4, PrefixTransitive DEF Hash

\* The head of a sound file can be vouched for.
LEMMA HoldsItsHead ==
  ASSUME NEW lines \in Seq(Line), NEW start \in Hash, NEW heads, Holds(lines, start, heads)
  PROVE  Holds(lines, start, heads \cup {HeadAfter(lines, start)})
BY HeadAfterType, PrefixReflexive DEF Holds, Hash

\* The hash that Emit replies is the head of the file, if the file is sound.
LEMMA ReplyIsHead ==
  ASSUME Inv, WrittenIsLast, NEW h \in Handler, pc[h] = "sync", SoundFile(active, SealedTo)
  PROVE  HeadAfter(active, SealedTo) = EmittedRecord(h).hash
<1>1. active # << >> /\ active \in Seq(Line)
  BY StateTypes DEF Inv, InFlight
<1>2. Len(active) \in DOMAIN active
  BY <1>1, EmptySeq, LenProperties
<1>3. Last(active).kind = "rec"
  BY <1>2 DEF SoundFile, SoundLine, Decodable, Last
<1> QED BY <1>1, <1>3 DEF WrittenIsLast, HeadAfter

\* The checkpoint that Rotate signs has the head of the file that it renames.
LEMMA WalkedHead ==
  ASSUME WalksStand, NEW h \in Handler, pc[h] = "rename"
  PROVE  SoundFile(active, SealedTo) /\ rot.cp.root_hash = HeadAfter(active, SealedTo)
<1>1. WalkStands("rename")
  BY DEF WalksStand, Flying
<1> QED BY <1>1, WalkReports DEF WalkStands, WalkedLines, SealedTo, payload

\* The heads that a step vouches for anew.
LEMMA NewHeads ==
  ASSUME Inv, NEW h \in Handler, Emit(h) \/ Rotate(h) \/ CreateCheckpoint(h)
  PROVE  \/ Heads' = Heads
         \/ EmitReturn(h) /\ Heads' = Heads \cup {EmittedRecord(h).hash}
         \/ RotateCheckpoint(h) /\ Heads' = Heads \cup {rot.cp.root_hash}
         \/ CreateCheckpoint(h) /\ Verdict.valid /\ Heads' = Heads \cup {Verdict.root_hash}
<1>1. CASE EmitReturn(h)
  <2> DEFINE reply == [seq |-> seq, hash |-> EmittedRecord(h).hash]
  <2>1. reply.hash = EmittedRecord(h).hash /\ acked' = acked \cup {reply} /\ signed' = signed
    BY <1>1 DEF EmitReturn
  <2> HIDE DEF reply
  <2>2. {a.hash : a \in acked'} = {a.hash : a \in acked} \cup {reply.hash}
    BY <2>1
  <2> QED BY <1>1, <2>1, <2>2 DEF Heads
<1>2. CASE RotateCheckpoint(h)
  <2>1. signed' = signed \cup {rot.cp} /\ acked' = acked
    BY <1>2 DEF RotateCheckpoint
  <2> QED BY <1>2, <2>1 DEF Heads
<1>3. CASE CreateCheckpoint(h)
  <2>1. acked' = acked
    BY <1>3 DEF CreateCheckpoint
  <2>2. signed' = signed \/ (Verdict.valid /\ signed' = signed \cup {payload(Verdict)})
    BY <1>3 DEF CreateCheckpoint, Verdict
  <2>3. payload(Verdict).root_hash = Verdict.root_hash
    BY DEF payload
  <2> QED BY <1>3, <2>1, <2>2, <2>3 DEF Heads
<1>4. CASE ~EmitReturn(h) /\ ~RotateCheckpoint(h) /\ ~CreateCheckpoint(h)
  <2>1. UNCHANGED told
    BY <1>4
       DEF Emit, EmitRefused, EmitWrite, EmitWriteFails, EmitSyncFails, Rotate, RotateRefused,
           RotatePrepare, RotateRename, RotateManifest, RotateFresh, RotateFails
  <2> QED BY <2>1 DEF Heads, told
<1> QED BY <1>1, <1>2, <1>3, <1>4

LEMMA HeadsOperation ==
  ASSUME Inv, WalksStand, HeadsInv, NEW h \in Handler, Emit(h) \/ Rotate(h) \/ CreateCheckpoint(h)
  PROVE  ActiveHoldsHeads' /\ RotatedHoldsHeads'
<1>1. \A g \in Handler \ {h} : pc'[g] \notin {"sync"} \cup InTheWindow
  BY OperationSteps
<1>2. /\ active \in Seq(Line) /\ SealedTo \in Hash /\ Heads \in SUBSET Hash /\ rot \in Locals
      /\ Len(segs) \in Nat /\ Len(manifest) \in Nat
  BY StateTypes, HeadsType
<1>3. CASE /\ UNCHANGED <<active, segs, hasManifest, manifest>> /\ pc'[h] # "sync"
           /\ pc'[h] \in InTheWindow => RotateCheckpoint(h)
  <2>1. SealedTo' = SealedTo
    BY <1>3 DEF SealedTo, manifestState, Disk
  <2>2. RotateCheckpoint(h) => pc[h] \in InTheWindow /\ rot' = rot
    BY DEF RotateCheckpoint, Advance, InTheWindow
  <2>3. CASE Heads' = Heads
    BY <1>1, <1>3, <2>1, <2>2, <2>3 DEF HeadsInv, ActiveHoldsHeads, RotatedHoldsHeads
  <2>4. ASSUME ~RotateCheckpoint(h), NEW head, Heads' = Heads \cup {head},
               SoundFile(active, SealedTo) => head = HeadAfter(active, SealedTo)
        PROVE  ActiveHoldsHeads' /\ RotatedHoldsHeads'
    <3>1. RotatedHoldsHeads'
      BY <1>1, <1>3, <2>4 DEF RotatedHoldsHeads
    <3>2. Holds(active, SealedTo, Heads) => Holds(active, SealedTo, Heads)'
      <4> SUFFICES ASSUME Holds(active, SealedTo, Heads), SoundFile(active, SealedTo)
                   PROVE  Holds(active, SealedTo, Heads \cup {HeadAfter(active, SealedTo)})
        BY <1>3, <2>1, <2>4 DEF Holds
      <4> QED BY <1>2, HoldsItsHead
    <3> QED BY <1>3, <3>1, <3>2 DEF HeadsInv, ActiveHoldsHeads
  <2>5. CASE EmitReturn(h) /\ Heads' = Heads \cup {EmittedRecord(h).hash}
    <3>1. pc[h] = "sync" /\ ~RotateCheckpoint(h)
      BY <2>5 DEF EmitReturn, RotateCheckpoint, Advance
    <3>2. SoundFile(active, SealedTo) => EmittedRecord(h).hash = HeadAfter(active, SealedTo)
      BY <3>1, ReplyIsHead DEF HeadsInv, FilesInv
    <3> QED BY <2>4, <2>5, <3>1, <3>2
  <2>6. CASE CreateCheckpoint(h) /\ Verdict.valid /\ Heads' = Heads \cup {Verdict.root_hash}
    <3>1. ~RotateCheckpoint(h)
      BY <2>6 DEF CreateCheckpoint, RotateCheckpoint, Advance
    <3>2. Verdict.root_hash = HeadAfter(active, SealedTo)
      BY <2>6, VerdictReports DEF HeadsInv, FilesInv
    <3> QED BY <2>4, <2>6, <3>1, <3>2
  <2>7. CASE RotateCheckpoint(h) /\ Heads' = Heads \cup {rot.cp.root_hash}
    <3>1. Len(manifest) < Len(segs)
      BY <2>2, <2>7 DEF HeadsInv, FilesInv, Counted
    <3>2. IsPrefix(rot.cp.root_hash, rot.cp.root_hash)
      BY <1>2, PrefixReflexive DEF Locals, Checkpoint, Hash
    <3>3. RotatedHoldsHeads'
      BY <1>1, <1>3, <2>2, <2>7, <3>2 DEF HeadsInv, RotatedHoldsHeads
    <3> QED BY <1>2, <1>3, <3>1, <3>3 DEF ActiveHoldsHeads
  <2> QED BY <2>3, <2>5, <2>6, <2>7, NewHeads
<1>4. ASSUME NEW line \in Line, active' = AppendLine(active, line), pc'[h] \notin InTheWindow,
             UNCHANGED <<segs, hasManifest, manifest, told>>
      PROVE  ActiveHoldsHeads' /\ RotatedHoldsHeads'
  <2>1. SealedTo' = SealedTo /\ Heads' = Heads
    BY <1>4 DEF SealedTo, manifestState, Disk, Heads, told
  <2>2. Holds(active, SealedTo, Heads) => Holds(active, SealedTo, Heads)'
    BY <1>2, <1>4, <2>1, HoldsWrite
  <2> QED BY <1>1, <1>4, <2>1, <2>2 DEF HeadsInv, ActiveHoldsHeads, RotatedHoldsHeads
<1>5. CASE EmitWrite(h)
  BY <1>4, <1>5, WriteStep DEF InTheWindow
<1>6. CASE /\ EmitWriteFails(h) /\ pc'[h] = "idle" /\ UNCHANGED <<segs, hasManifest, manifest>>
           /\ \E line \in Line : active' = AppendLine(active, line)
  BY <1>4, <1>6 DEF EmitWriteFails, InTheWindow
<1>7. CASE RotateRename(h)
  <2>1. /\ pc[h] = "rename" /\ Len(segs') = Len(segs) + 1 /\ UNCHANGED <<manifest, rot, told>>
    BY <1>7, RenameStep
  <2>2. Len(manifest) <= Len(segs) /\ Heads' = Heads
    BY <2>1 DEF HeadsInv, FilesInv, Counted, Heads, told
  <2>3. SoundFile(active, SealedTo) /\ rot.cp.root_hash = HeadAfter(active, SealedTo)
    BY <2>1, WalkedHead
  <2>4. Len(segs') <= Len(manifest) + 1 => Holds(active, SealedTo, Heads)
    BY <1>2, <2>1, <2>2 DEF HeadsInv, ActiveHoldsHeads
  <2>5. RotatedHoldsHeads'
    BY <1>1, <2>1, <2>2, <2>3, <2>4 DEF RotatedHoldsHeads, Holds
  <2> QED BY <1>2, <2>1, <2>2, <2>5 DEF ActiveHoldsHeads
<1>8. CASE RotateManifest(h)
  <2>1. /\ pc[h] = "manifest" /\ pc'[h] = "fresh" /\ UNCHANGED <<active, segs, told>>
        /\ Len(manifest') = Len(manifest) + 1 /\ SealedTo' = rot.cp.root_hash
    BY <1>8, ListingStep
  <2>2. active = << >> /\ Heads' = Heads
    BY <2>1 DEF HeadsInv, FilesInv, EmptyInWindow, InTheWindow, Heads, told
  <2>3. Len(segs) <= Len(manifest) + 1 => \A g \in Heads : IsPrefix(g, rot.cp.root_hash)
    BY <2>1 DEF HeadsInv, RotatedHoldsHeads, InTheWindow
  <2>4. ActiveHoldsHeads'
    BY <2>1, <2>2, <2>3 DEF ActiveHoldsHeads, Holds, HeadAfter
  <2> QED BY <1>1, <2>1, <2>4 DEF RotatedHoldsHeads, InTheWindow
<1> QED BY <1>3, <1>5, <1>6, <1>7, <1>8, OperationSteps

\* A step outside the operations: it tells nobody anything, and at most adds a line.
LEMMA HeadsQuiet ==
  ASSUME Inv, HeadsInv, UNCHANGED <<segs, hasManifest, manifest, told>>,
         UNCHANGED active \/ \E line \in Line : active' = AppendLine(active, line),
         \A g \in Handler : pc'[g] \in InTheWindow => pc'[g] = pc[g] /\ rot' = rot
  PROVE  ActiveHoldsHeads' /\ RotatedHoldsHeads'
<1>1. Heads' = Heads /\ SealedTo' = SealedTo
  BY DEF Heads, told, SealedTo, manifestState, Disk
<1>2. active \in Seq(Line) /\ SealedTo \in Hash /\ Heads \in SUBSET Hash
  BY StateTypes, HeadsType
<1>3. Holds(active, SealedTo, Heads) => Holds(active, SealedTo, Heads)'
  BY <1>1, <1>2, HoldsWrite
<1> QED BY <1>1, <1>3 DEF HeadsInv, ActiveHoldsHeads, RotatedHoldsHeads

LEMMA HeadsStep ==
  ASSUME Inv, WalksStand, DownIsIdle, HeadsInv, [Next]_vars
  PROVE  HeadsInv'
<1>1. ASSUME NEW h \in Handler, Call(h) \/ Lock(h)
      PROVE  ActiveHoldsHeads' /\ RotatedHoldsHeads'
  BY <1>1, CallSteps, HeadsQuiet
<1>2. ASSUME Crash
      PROVE  ActiveHoldsHeads' /\ RotatedHoldsHeads'
  <2>1. /\ \A g \in Handler : pc'[g] = "idle"
        /\ UNCHANGED <<segs, hasManifest, manifest, told>>
    BY <1>2 DEF Crash, Die
  <2>2. UNCHANGED active \/ \E line \in Line : active' = AppendLine(active, line)
    BY <1>2, PartialWrite DEF Crash, Inv
  <2> QED BY <2>1, <2>2, HeadsQuiet DEF InTheWindow
<1>3. ASSUME Restart \/ UNCHANGED vars
      PROVE  ActiveHoldsHeads' /\ RotatedHoldsHeads'
  <2>1. UNCHANGED <<active, segs, hasManifest, manifest, told, pc, rot>>
    BY <1>3 DEF Restart, threads, vars, disk
  <2> QED BY <2>1, HeadsQuiet
<1>4. FilesInv'
  BY FilesStep DEF HeadsInv
<1> QED BY <1>1, <1>2, <1>3, <1>4, HeadsOperation DEF Next, Step, HeadsInv

\* Whenever the manifest covers the segments, an active segment that links holds every
\* head vouched for, through every failing step, every death of the process and every
\* restart.
THEOREM HeadsStayHeld == Spec => [](DownIsIdle /\ HeadsInv)
<1>1. Init => DownIsIdle /\ HeadsInv
  <2> SUFFICES ASSUME Init
               PROVE  DownIsIdle /\ HeadsInv
    OBVIOUS
  <2>1. Heads = {}
    BY DEF Init, Heads
  <2>2. FilesInv
    BY DEF Init, FilesInv, Counted, WrittenIsLast, EmptyInWindow, InTheWindow
  <2> QED BY <2>1, <2>2
          DEF Init, DownIsIdle, HeadsInv, ActiveHoldsHeads, Holds, RotatedHoldsHeads, InTheWindow
<1>2. ManifestInv => WalksStand
  BY DEF ManifestInv, ManifestInFlight, WalksStand, Flying
<1>3. Inv /\ ManifestInv /\ (DownIsIdle /\ HeadsInv) /\ [Next]_vars => (DownIsIdle /\ HeadsInv)'
  BY <1>2, DownStep, HeadsStep DEF Inv
<1> QED BY <1>1, <1>3, InvHolds, ManifestInvHolds, PTL DEF Spec

\* A valid verdict of verifyAllSegments hides no head that the log ever vouched for,
\* whatever step failed and wherever the process died, where verify has a manifest to check
\* the directory against or there is no rotated-out segment.
THEOREM ValidNeverHides == Spec => []ValidHidesNothing
<1>1. ASSUME Inv, HeadsInv
      PROVE  ValidHidesNothing
  <2> SUFFICES ASSUME Verdict.valid, hasManifest \/ segs = << >>, NEW g \in Heads
               PROVE  IsPrefix(g, Verdict.root_hash)
    BY DEF ValidHidesNothing
  <2>1. /\ SoundFile(active, SealedTo) /\ Verdict.root_hash = HeadAfter(active, SealedTo)
        /\ hasManifest => Len(segs) <= Len(manifest)
    BY <1>1, VerdictReports DEF HeadsInv, FilesInv
  <2>2. Len(segs) <= Len(manifest)
    BY <1>1, <2>1, StateTypes, EmptySeq
  <2> QED BY <1>1, <2>1, <2>2 DEF HeadsInv, ActiveHoldsHeads, Holds
<1>2. Inv /\ (DownIsIdle /\ HeadsInv) => ValidHidesNothing
  BY <1>1
<1> QED BY <1>2, InvHolds, HeadsStayHeld, PTL
===============================================================================
