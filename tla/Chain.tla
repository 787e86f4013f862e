-------------------------------- MODULE Chain --------------------------------
(***************************************************************************)
(* The daemon of audit-trail around one log: connection handlers (ipc.go)  *)
(* that run Emit, Rotate and checkpoint_create under Chain.mu, step by     *)
(* step against the files of the log, with I/O errors, the death of the    *)
(* process at any point and its restart (chain.go, segment.go,             *)
(* checkpoint.go).  One step is one file operation, so what a failure or a *)
(* crash leaves behind between two of them is a state of the model.  The   *)
(* machine stays up: what was written outlives the process, synced or not. *)
(* Module PowerLoss adds what the disk can lose when the machine fails.    *)
(***************************************************************************)
EXTENDS SegmentStore

CONSTANTS
  Handler,      \* goroutines that can serve a connection at the same time
  NoHandler,    \* nobody holds Chain.mu
  NoEvent,      \* the argument of a handler that is not emitting
  Refused,      \* events that the float check or the canonicaliser refuses
  RotateAfter,  \* the --rotate-after threshold
  Faults,       \* what may go wrong in this instance, a subset of FaultNames
  MaxEmits,     \* bound: emit calls in a behaviour
  MaxRotates,   \* bound: rotate calls in a behaviour
  MaxCrashes    \* bound: deaths of the process in a behaviour

(***************************************************************************)
(* write       Emit's open or write fails with no byte written             *)
(* torn        Emit's write fails, or the process dies in it, half done    *)
(* sync        fsync or close fails after Emit's write                     *)
(* rename, checkpoint, manifest, fresh   that step of Rotate fails         *)
(* crash       the process dies, outside the window of the next one        *)
(* crashWindow the process dies between Rotate's rename and its manifest   *)
(***************************************************************************)
RotateFaults == {"rename", "checkpoint", "manifest", "fresh"}
FaultNames == RotateFaults \cup {"write", "torn", "sync", "crash", "crashWindow"}

ASSUME ConstantsAssumption ==
  /\ NoHandler \notin Handler
  /\ NoEvent \notin Event
  /\ Refused \subseteq Event
  /\ RotateAfter \in Nat \ {0}
  /\ Faults \subseteq FaultNames
  /\ MaxEmits \in Nat /\ MaxRotates \in Nat /\ MaxCrashes \in Nat

VARIABLES
  \* the disk
  hasActive, active, segs, hasManifest, manifest,
  cps,          \* the sidecars <base>.NNN.checkpoint
  \* the process
  up,
  seq, prevHash,  \* Chain.seq, Chain.prevHash
  mu,           \* the holder of Chain.mu
  pc, arg,      \* per handler: where it is, and the event it emits
  rot,          \* the locals of the Rotate in progress
  \* what the callers were told
  acked,        \* the {seq, hash} replies of Emit
  signed,       \* the checkpoints signed and given out
  \* bounds
  emits, rotates, crashes

disk == <<hasActive, active, segs, hasManifest, manifest, cps>>
memory == <<seq, prevHash>>
threads == <<mu, pc, arg, rot>>
told == <<acked, signed>>
bounds == <<emits, rotates, crashes>>
vars == <<disk, up, memory, threads, told, bounds>>

Disk == [hasActive |-> hasActive, active |-> active, segs |-> segs,
         hasManifest |-> hasManifest, manifest |-> manifest]

Sidecar == [segment : Nat, cp : Checkpoint]
Ack == [seq : Nat, hash : Hash]
Locals == [segNum : Nat, startOffset : Nat, startPrev : Hash, cp : Checkpoint]
NoLocals == [segNum |-> 0, startOffset |-> 0, startPrev |-> Genesis,
             cp |-> [tree_size |-> 0, last_seq |-> -1, root_hash |-> Genesis]]

\* Waiting for the mutex, and inside it; a call enters at its first step inside.
Waiting == {"emit", "rotate", "create"}
InEmit == {"write", "sync"}
InRotate == {"prepare", "rename", "checkpoint", "manifest", "fresh"}
Inside == InEmit \cup InRotate \cup {"build"}
FirstStep == [p \in Waiting |->
  CASE p = "emit" -> "write" [] p = "rotate" -> "prepare" [] OTHER -> "build"]

Init ==
  /\ hasActive = TRUE /\ active = << >> /\ segs = << >> /\ cps = {}
  /\ hasManifest = FALSE /\ manifest = << >>
  /\ up = TRUE /\ seq = 0 /\ prevHash = Genesis
  /\ mu = NoHandler /\ pc = [h \in Handler |-> "idle"]
  /\ arg = [h \in Handler |-> NoEvent] /\ rot = NoLocals
  /\ acked = {} /\ signed = {}
  /\ emits = 0 /\ rotates = 0 /\ crashes = 0

-----------------------------------------------------------------------------
(* Calls and the mutex *)

EmitCall(h, e) ==
  /\ up /\ pc[h] = "idle" /\ emits < MaxEmits
  /\ pc' = [pc EXCEPT ![h] = "emit"]
  /\ arg' = [arg EXCEPT ![h] = e]
  /\ emits' = emits + 1
  /\ UNCHANGED <<disk, up, memory, mu, rot, told, rotates, crashes>>

RotateCall(h) ==
  /\ up /\ pc[h] = "idle" /\ rotates < MaxRotates
  /\ pc' = [pc EXCEPT ![h] = "rotate"]
  /\ rotates' = rotates + 1
  /\ UNCHANGED <<disk, up, memory, mu, arg, rot, told, emits, crashes>>

CreateCall(h) ==
  /\ up /\ pc[h] = "idle"
  /\ pc' = [pc EXCEPT ![h] = "create"]
  /\ UNCHANGED <<disk, up, memory, mu, arg, rot, told, bounds>>

Lock(h) ==
  /\ pc[h] \in Waiting /\ mu = NoHandler
  /\ mu' = h
  /\ pc' = [pc EXCEPT ![h] = FirstStep[@]]
  /\ UNCHANGED <<disk, up, memory, arg, rot, told, bounds>>

\* The deferred Unlock: every return of the three operations, with or without an error.
Return(h) ==
  /\ mu' = NoHandler
  /\ pc' = [pc EXCEPT ![h] = "idle"]
  /\ arg' = [arg EXCEPT ![h] = NoEvent]
  /\ rot' = NoLocals

\* Mutant of StepAfter: Rotate writes the manifest before the sidecar.
StepAfterManifestFirst ==
  [write |-> "sync", prepare |-> "rename", rename |-> "manifest",
   manifest |-> "checkpoint", checkpoint |-> "fresh"]

\* The order of the file operations inside Emit and Rotate.
StepAfter ==
  [write |-> "sync", prepare |-> "rename", rename |-> "checkpoint",
   checkpoint |-> "manifest", manifest |-> "fresh"]

Advance(h, from) == pc[h] = from /\ pc' = [pc EXCEPT ![h] = StepAfter[from]]

-----------------------------------------------------------------------------
(* Emit *)

EmittedRecord(h) == NewRecord(seq, prevHash, arg[h])

\* A float in the event, or a body that has no canonical form.
EmitRefused(h) ==
  /\ pc[h] = "write" /\ arg[h] \in Refused
  /\ Return(h)
  /\ UNCHANGED <<disk, up, memory, told, bounds>>

\* Mutant of EmitWrite: the file is opened without O_APPEND and truncated.
EmitWriteTruncates(h) ==
  /\ Advance(h, "write") /\ arg[h] \notin Refused
  /\ hasActive' = TRUE
  /\ active' = << Whole(EmittedRecord(h)) >>
  /\ UNCHANGED <<segs, hasManifest, manifest, cps, up, memory, mu, arg, rot, told, bounds>>

EmitWrite(h) ==
  /\ Advance(h, "write") /\ arg[h] \notin Refused
  /\ hasActive' = TRUE
  /\ active' = AppendLine(active, Whole(EmittedRecord(h)))
  /\ UNCHANGED <<segs, hasManifest, manifest, cps, up, memory, mu, arg, rot, told, bounds>>

\* A write that stops after some of its bytes: nothing takes them back.
WritesInPart(h) ==
  /\ "torn" \in Faults
  /\ hasActive' = TRUE
  /\ \E cut \in {CutInside(EmittedRecord(h)), CutBeforeNewline(EmittedRecord(h))} :
       active' = AppendLine(active, cut)

\* open or write failed; the open may have created the file.
EmitWriteFails(h) ==
  /\ pc[h] = "write" /\ arg[h] \notin Refused
  /\ \/ "write" \in Faults /\ UNCHANGED active /\ hasActive' \in {hasActive, TRUE}
     \/ WritesInPart(h)
  /\ Return(h)
  /\ UNCHANGED <<segs, hasManifest, manifest, cps, up, memory, told, bounds>>

\* Mutant of EmitSyncFails: the error return forgets the mutex.
EmitSyncFailsKeepsLock(h) ==
  /\ pc[h] = "sync" /\ "sync" \in Faults
  /\ pc' = [pc EXCEPT ![h] = "idle"]
  /\ arg' = [arg EXCEPT ![h] = NoEvent]
  /\ UNCHANGED <<disk, up, memory, mu, rot, told, bounds>>

\* fsync or close failed: the record stays in the file, memory does not advance.
EmitSyncFails(h) ==
  /\ pc[h] = "sync" /\ "sync" \in Faults
  /\ Return(h)
  /\ UNCHANGED <<disk, up, memory, told, bounds>>

\* fsync and close succeeded: memory advances and the reply is the record's seq and hash.
EmitReturn(h) ==
  /\ pc[h] = "sync"
  /\ seq' = seq + 1
  /\ prevHash' = EmittedRecord(h).hash
  /\ acked' = acked \cup {[seq |-> seq, hash |-> EmittedRecord(h).hash]}
  /\ Return(h)
  /\ UNCHANGED <<disk, up, signed, bounds>>

-----------------------------------------------------------------------------
(* Rotate *)

\* The walk of the active segment from the manifest's resume point.
ActiveState ==
  walkActive(Disk, manifestState(Disk).head, manifestState(Disk).offset)

\* Taken from the files, never from the length of the manifest.
NextSegment == highestSegmentOnDisk(segs) + 1

\* The conditions under which Rotate goes on to touch files.
Rotatable ==
  /\ countRecords(Disk) >= RotateAfter
  /\ ActiveState.valid
  /\ signable(payload(ActiveState))
  /\ NextSegment \notin DOMAIN segs

\* Below the threshold ({rotated: false}), or an active segment that does not verify.
RotateRefused(h) ==
  /\ pc[h] = "prepare" /\ ~Rotatable
  /\ Return(h)
  /\ UNCHANGED <<disk, up, memory, told, bounds>>

\* Everything up to the rename: count, resume point, walk, signature, segment number.
RotatePrepare(h) ==
  /\ Advance(h, "prepare") /\ Rotatable
  /\ rot' = [segNum |-> NextSegment, startOffset |-> manifestState(Disk).offset,
             startPrev |-> manifestState(Disk).head, cp |-> payload(ActiveState)]
  /\ UNCHANGED <<disk, up, memory, mu, arg, told, bounds>>

\* (b) os.Rename of the active segment.
RotateRename(h) ==
  /\ Advance(h, "rename")
  /\ segs' = [n \in DOMAIN segs \cup {rot.segNum} |->
                IF n = rot.segNum THEN active ELSE segs[n]]
  /\ hasActive' = FALSE /\ active' = << >>
  /\ UNCHANGED <<hasManifest, manifest, cps, up, memory, mu, arg, rot, told, bounds>>

\* (c) the sidecar with the checkpoint signed before the rename.
RotateCheckpoint(h) ==
  /\ Advance(h, "checkpoint")
  /\ cps' = cps \cup {[segment |-> rot.segNum, cp |-> rot.cp]}
  /\ signed' = signed \cup {rot.cp}
  /\ UNCHANGED <<hasActive, active, segs, hasManifest, manifest,
                 up, memory, mu, arg, rot, acked, bounds>>

\* Mutant of RotateEntry: trusts memory instead of the walk of the file.
RotateEntryOfMemory ==
  [segment |-> rot.segNum, first_seq |-> rot.startOffset, last_seq |-> seq - 1,
   start_prev_hash |-> rot.startPrev, end_hash |-> prevHash]

RotateEntry ==
  [segment |-> rot.segNum, first_seq |-> rot.startOffset, last_seq |-> rot.cp.last_seq,
   start_prev_hash |-> rot.startPrev, end_hash |-> rot.cp.root_hash]

\* Mutant of RotateManifest: the entries that were there are not carried over.
RotateManifestAnew(h) ==
  /\ Advance(h, "manifest")
  /\ hasManifest' = TRUE
  /\ manifest' = << RotateEntry >>
  /\ UNCHANGED <<hasActive, active, segs, cps, up, memory, mu, arg, rot, told, bounds>>

\* (d) writeManifestAtomic: a reader sees the old manifest or the new one.
RotateManifest(h) ==
  /\ Advance(h, "manifest")
  /\ hasManifest' = TRUE
  /\ manifest' = Append(manifest, RotateEntry)
  /\ UNCHANGED <<hasActive, active, segs, cps, up, memory, mu, arg, rot, told, bounds>>

\* (e) a fresh active segment; Chain.seq and Chain.prevHash carry over.
RotateFresh(h) ==
  /\ pc[h] = "fresh"
  /\ hasActive' = TRUE
  /\ Return(h)
  /\ UNCHANGED <<active, segs, hasManifest, manifest, cps, up, memory, told, bounds>>

\* Mutant of RotateFails: the error return forgets the mutex.
RotateFailsKeepsLock(h) ==
  /\ pc[h] \in RotateFaults \cap Faults
  /\ pc' = [pc EXCEPT ![h] = "idle"]
  /\ UNCHANGED <<disk, up, memory, mu, arg, rot, told, bounds>>

\* A step fails: Rotate returns the error and undoes nothing.  The open of the fresh
\* segment may have created it before the close failed; a sidecar whose write failed
\* counts as none.
RotateFails(h) ==
  /\ pc[h] \in RotateFaults \cap Faults
  /\ IF pc[h] = "fresh" THEN hasActive' \in {hasActive, TRUE} ELSE UNCHANGED hasActive
  /\ Return(h)
  /\ UNCHANGED <<active, segs, hasManifest, manifest, cps, up, memory, told, bounds>>

-----------------------------------------------------------------------------
(* checkpoint_create *)

\* BuildCheckpointPayload under the lock, then the signature: a checkpoint of exactly
\* the head that verifyAllSegments reports, or a refusal.
CreateCheckpoint(h) ==
  LET state == verifyAllSegments(Disk) IN
  /\ pc[h] = "build"
  /\ signed' = IF state.valid /\ signable(payload(state))
                 THEN signed \cup {payload(state)} ELSE signed
  /\ Return(h)
  /\ UNCHANGED <<disk, up, memory, acked, bounds>>

-----------------------------------------------------------------------------
(* Death and restart of the process *)

InWindow == \E h \in Handler : pc[h] \in {"checkpoint", "manifest"}

\* Memory is lost, with every call in it; the next process starts idle.
Die ==
  /\ crashes < MaxCrashes
  /\ up' = FALSE /\ seq' = 0 /\ prevHash' = Genesis
  /\ mu' = NoHandler /\ pc' = [h \in Handler |-> "idle"]
  /\ arg' = [h \in Handler |-> NoEvent] /\ rot' = NoLocals
  /\ crashes' = crashes + 1
  /\ UNCHANGED <<told, emits, rotates>>

\* The process dies, perhaps in the middle of a write; the files keep what it wrote.
Crash ==
  /\ up /\ (IF InWindow THEN "crashWindow" ELSE "crash") \in Faults
  /\ \/ UNCHANGED <<hasActive, active>>
     \/ \E h \in Handler : pc[h] = "write" /\ arg[h] \notin Refused /\ WritesInPart(h)
  /\ Die
  /\ UNCHANGED <<segs, hasManifest, manifest, cps>>

\* NewChain on the files that are there; it refuses a log it cannot read.
Restart ==
  /\ ~up /\ loadable(Disk)
  /\ up' = TRUE
  /\ seq' = loadState(Disk).seq
  /\ prevHash' = loadState(Disk).prevHash
  /\ hasActive' = TRUE
  /\ UNCHANGED <<active, segs, hasManifest, manifest, cps, threads, told, bounds>>

-----------------------------------------------------------------------------
Emit(h) ==
  EmitRefused(h) \/ EmitWrite(h) \/ EmitWriteFails(h) \/ EmitSyncFails(h) \/ EmitReturn(h)

Rotate(h) ==
  \/ RotateRefused(h) \/ RotatePrepare(h) \/ RotateRename(h) \/ RotateCheckpoint(h)
  \/ RotateManifest(h) \/ RotateFresh(h) \/ RotateFails(h)

Call(h) == (\E e \in Event : EmitCall(h, e)) \/ RotateCall(h) \/ CreateCall(h)

Step(h) == Lock(h) \/ Emit(h) \/ Rotate(h) \/ CreateCheckpoint(h)

Next == (\E h \in Handler : Call(h) \/ Step(h)) \/ Crash \/ Restart

Spec == Init /\ [][Next]_vars

(***************************************************************************)
(* Every operation under the mutex goes on once it is scheduled: none of   *)
(* them waits for the network or for another handler.  sync.Mutex hands    *)
(* the lock to a waiter that starves, hence strong fairness of Lock.       *)
(***************************************************************************)
Fairness ==
  \A h \in Handler :
    /\ SF_vars(Lock(h))
    /\ WF_vars(Emit(h) \/ Rotate(h) \/ CreateCheckpoint(h))

-----------------------------------------------------------------------------
(***************************************************************************)
(* Types, and who holds the mutex: the handler inside an operation, and    *)
(* nobody once every operation has returned, whichever way it returned.    *)
(***************************************************************************)
DiskTypeOK ==
  /\ hasActive \in BOOLEAN /\ active \in Seq(Line)
  /\ segs \in Seq(Seq(Line))
  /\ hasManifest \in BOOLEAN /\ manifest \in Seq(Entry)
  /\ cps \subseteq Sidecar

ThreadsTypeOK ==
  /\ mu \in Handler \cup {NoHandler}
  /\ pc \in [Handler -> {"idle"} \cup Waiting \cup Inside]
  /\ arg \in [Handler -> Event \cup {NoEvent}]
  /\ rot \in Locals
  /\ \A h \in Handler : pc[h] \in {"emit"} \cup InEmit => arg[h] \in Event
  /\ \A h \in Handler : mu = h <=> pc[h] \in Inside

TypeOK ==
  /\ DiskTypeOK /\ ThreadsTypeOK
  /\ up \in BOOLEAN /\ seq \in Nat /\ prevHash \in Hash
  /\ acked \subseteq Ack /\ signed \subseteq Checkpoint
  /\ emits \in 0..MaxEmits /\ rotates \in 0..MaxRotates /\ crashes \in 0..MaxCrashes

\* What the files owe to an operation in progress.  An Emit that has written finds a
\* line; a Rotate has the next free segment number until the rename takes it, and a
\* checkpoint that can be signed; its manifest step finds the sidecar written.
InFlight ==
  \A h \in Handler :
    /\ pc[h] = "sync" => active # << >>
    /\ pc[h] = "rename" => rot.segNum = Len(segs) + 1
    /\ pc[h] \in {"checkpoint", "manifest"} => rot.segNum = Len(segs)
    /\ pc[h] \in {"rename", "checkpoint", "manifest"} => signable(rot.cp)
    /\ pc[h] = "manifest" => [segment |-> rot.segNum, cp |-> rot.cp] \in cps

Verdict == verifyAllSegments(Disk)

\* The heads the system has vouched for, to its callers or to auditors.
Heads == {a.hash : a \in acked} \cup {c.root_hash : c \in signed}

(***************************************************************************)
(* Any two heads the log ever vouched for, in the reply of an emit or in a *)
(* signed checkpoint, lie on one history: no auditor can hold two that     *)
(* contradict each other, whatever rotations, errors and restarts came     *)
(* between (Emit's carry of seq and prev_hash, loadState, Rotate).         *)
(***************************************************************************)
NoEquivocation == \A g, h \in Heads : IsPrefix(g, h) \/ IsPrefix(h, g)

(***************************************************************************)
(* Whenever no operation is in progress the files verify, and the head     *)
(* that verify reports is the one the daemon will extend: its sequence     *)
(* number counts the records of all segments and every head it vouched for *)
(* is part of that history (Emit, Rotate, loadState, verifyAllSegments).   *)
(***************************************************************************)
HonestLogVerifies ==
  up /\ mu = NoHandler =>
    /\ Verdict.valid
    /\ Verdict.root_hash = prevHash /\ Verdict.tree_size = seq
    /\ \A a \in acked : a.seq < seq
    /\ \A g \in Heads : IsPrefix(g, prevHash)

(***************************************************************************)
(* A valid verdict never hides a record: if verify accepts the files, then *)
(* every head the log vouched for is part of the history it accepted.      *)
(* Under every fault of the model, but only where verify has a manifest to *)
(* check the directory against, or there is no rotated-out segment (the    *)
(* orphan scan of verifyAllSegments).                                      *)
(***************************************************************************)
ValidHidesNothing ==
  Verdict.valid /\ (hasManifest \/ segs = << >>) =>
    \A g \in Heads : IsPrefix(g, Verdict.root_hash)

(***************************************************************************)
(* What the manifest lists is a verified chain of its own, under every     *)
(* fault: each listed segment is on disk, links from the head the entry    *)
(* before it ends in, and holds exactly the range and head recorded for it *)
(* (Rotate verifies the active segment before it renames it).              *)
(***************************************************************************)
ManifestIsAChain ==
  \A i \in DOMAIN manifest : listedSegment(Disk, i).valid

\* Why ManifestIsAChain is kept: an entry's range has as many numbers as its segment
\* has lines, and a Rotate in progress still has, in the active segment or in the one it
\* was renamed to, the lines that it walked from the manifest's resume point.
WalkedLines(p) == IF p = "rename" THEN active ELSE segs[rot.segNum]

WalkStands(p) ==
  LET state == verifyChainStateFrom(WalkedLines(p), rot.startPrev, rot.startOffset) IN
  /\ p \in {"checkpoint", "manifest"} => rot.segNum \in DOMAIN segs
  /\ rot.startPrev = manifestState(Disk).head
  /\ rot.startOffset = manifestState(Disk).offset
  /\ state.valid /\ rot.cp = payload(state)

ManifestInFlight ==
  /\ hasManifest <=> manifest # << >>
  /\ \A i \in DOMAIN manifest :
       manifest[i].segment \in DOMAIN segs /\
       manifest[i].first_seq + Len(segs[manifest[i].segment]) = manifest[i].last_seq + 1
  /\ \A h \in Handler :
       pc[h] \in {"rename", "checkpoint", "manifest"} => WalkStands(pc[h])

(***************************************************************************)
(* Every segment in the manifest has its sidecar, with a checkpoint of the *)
(* cumulative head at its end: Rotate writes (c) before (d).               *)
(***************************************************************************)
ListedSegmentsAreSigned ==
  \A i \in DOMAIN manifest :
    \E c \in cps : /\ c.segment = manifest[i].segment
                   /\ c.cp.root_hash = manifest[i].end_hash
                   /\ c.cp.tree_size = manifest[i].last_seq + 1

(***************************************************************************)
(* A rotated-out segment is never written, replaced or removed again, and  *)
(* the manifest only grows at its end, under every fault (the segment      *)
(* number comes from the directory, and the rename refuses a taken name).  *)
(***************************************************************************)
SealedForever ==
  [][/\ \A n \in DOMAIN segs : n \in DOMAIN segs' /\ segs'[n] = segs[n]
     /\ IsPrefix(manifest, manifest')]_vars

-----------------------------------------------------------------------------
(* What the documents of the repository say, which some faults falsify.   *)

(***************************************************************************)
(* behaviors.md, B-003: a rotated-out segment that no manifest entry       *)
(* covers is not treated as a clean shorter log; verify rejects the files. *)
(***************************************************************************)
UncoveredIsRejected ==
  /\ up /\ mu = NoHandler
  /\ \E n \in DOMAIN segs : \A i \in DOMAIN manifest : manifest[i].segment # n
  => ~Verdict.valid

(***************************************************************************)
(* ADR-005, section 5: when Rotate fails, the disk is left in a            *)
(* consistent, verifiable state.                                           *)
(***************************************************************************)
FailedRotateIsVerifiable == up /\ mu = NoHandler => Verdict.valid

(***************************************************************************)
(* data-model.md, invariants enforced in code: record n's prev_hash equals *)
(* the hash of record n-1.                                                 *)
(***************************************************************************)
Linkage ==
  \A i \in 2..Len(active) : active[i].rec.prev_hash = active[i-1].rec.hash

-----------------------------------------------------------------------------
(***************************************************************************)
(* Every call is answered, or dies with the process: whatever step of it   *)
(* fails, its handler returns and gives up the mutex.                      *)
(***************************************************************************)
EveryCallReturns == \A h \in Handler : pc[h] # "idle" ~> pc[h] = "idle"
===============================================================================
