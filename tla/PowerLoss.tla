------------------------------ MODULE PowerLoss ------------------------------
(***************************************************************************)
(* The files of module Chain under a failure of the machine: what Emit and *)
(* Rotate wrote but did not fsync may be gone afterwards.  Emit fsyncs the *)
(* active segment before it replies (chain.go) and writeManifestAtomic the *)
(* manifest before it renames it; nothing else is fsynced: not a line      *)
(* whose Emit failed or died in front of its fsync, not the segment that   *)
(* Rotate renames, not the sidecar that os.WriteFile writes (segment.go).  *)
(*                                                                         *)
(* The disk keeps, of what was written to a file since its last fsync, any *)
(* part from the start on.  It is assumed to keep names: creations and     *)
(* renames are never undone, though the code fsyncs no directory.  A       *)
(* successful fsync makes the whole file durable, also what an earlier,    *)
(* failed one left.                                                        *)
(***************************************************************************)
EXTENDS Chain

VARIABLES
  left,      \* the contents that a power loss can leave of the active segment
  leftSegs,  \* the same for each rotated-out segment
  cpsSafe,   \* the sidecars that are on the disk for sure
  settled    \* the checkpoints given out while no line of the active segment was in the
             \* air; a Rotate gives its own out when the active segment is the empty next one

onDisk == <<left, leftSegs, cpsSafe>>
powerVars == <<vars, onDisk, settled>>

PowerInit ==
  /\ Init
  /\ left = {active} /\ leftSegs = << >> /\ cpsSafe = cps /\ settled = {}

-----------------------------------------------------------------------------
(* What a step of the daemon makes durable, and what it leaves in the air *)

\* Mutant of AfterSync: the file is closed without the fsync.
AfterSyncSkipped == left

\* The fsync in front of Emit's reply.
AfterSync == {active}

\* Of the line that the holder of the mutex wrote, any part from its start on.
Passed ==
  LET rec == EmittedRecord(mu) IN
  {AppendLine(active, CutInside(rec)), active'} \cup
    (IF Last(active').nl THEN {AppendLine(active, CutBeforeNewline(rec))} ELSE {})

Unsynced ==
  left' = IF \E h \in Handler : EmitReturn(h) THEN AfterSync
          ELSE IF \E h \in Handler : RotateRename(h) THEN {<< >>}
          ELSE IF active' = active THEN left ELSE left \cup Passed

\* The rename takes the segment along as it is, synced or not.
Sealing ==
  leftSegs' = IF \E h \in Handler : RotateRename(h) THEN Append(leftSegs, left) ELSE leftSegs

\* The checkpoints that this step gives out.
GivenOut ==
  {c \in signed' :
     \E h \in Handler : \/ CreateCheckpoint(h) /\ Verdict.valid /\ c = payload(Verdict)
                        \/ RotateCheckpoint(h) /\ c = rot.cp}

Settling == settled' = IF left = {active} THEN settled \cup GivenOut ELSE settled

\* Nothing makes a sidecar durable: cpsSafe grows in a power loss only.
Operate == Next /\ Unsynced /\ Sealing /\ Settling /\ UNCHANGED cpsSafe

-----------------------------------------------------------------------------
\* The machine fails, with the daemon up or down, and what is on the disk is the log.
PowerLoss ==
  /\ Die
  /\ active' \in left
  /\ segs' \in {s \in [DOMAIN segs -> UNION {leftSegs[n] : n \in DOMAIN segs}] :
                 \A n \in DOMAIN segs : s[n] \in leftSegs[n]}
  /\ cps' \in {s \in SUBSET cps : cpsSafe \subseteq s}
  /\ left' = {active'} /\ leftSegs' = [n \in DOMAIN segs' |-> {segs'[n]}] /\ cpsSafe' = cps'
  /\ UNCHANGED <<hasActive, hasManifest, manifest, settled>>

PowerNext == Operate \/ PowerLoss

PowerSpec == PowerInit /\ [][PowerNext]_powerVars

-----------------------------------------------------------------------------
\* The heads that the code made durable before it vouched for them.
Kept == {a.hash : a \in acked} \cup {c.root_hash : c \in settled}

(***************************************************************************)
(* A log that verify accepts after power losses, next to every other       *)
(* fault, holds every record that Emit acknowledged and every head that    *)
(* was signed while no line of the active segment was in the air, where    *)
(* verify has a manifest to check the directory against or there is no     *)
(* rotated-out segment.  A rotated segment that lost lines is noticed.     *)
(***************************************************************************)
KeptIsNeverHidden ==
  Verdict.valid /\ (hasManifest \/ segs = << >>) =>
    \A g \in Kept : IsPrefix(g, Verdict.root_hash)
===============================================================================
