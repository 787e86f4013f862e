--------------------------- MODULE ChainRefinesLog ---------------------------
(***************************************************************************)
(* Chain implements AppendOnlyLog, whatever rotations, harmless errors and *)
(* restarts happen.  Since a hash is the history it commits to, the ledger *)
(* that the files of a log stand for is the hash of the last record in     *)
(* them, be that in the active segment or, right after a rotation or in    *)
(* the middle of one, in the newest rotated-out segment.                   *)
(***************************************************************************)
EXTENDS Chain

\* The history that the files of the log hold.
DiskHead ==
  IF active # << >> THEN Last(active).rec.hash
  ELSE IF segs # << >> THEN Last(Last(segs)).rec.hash
  ELSE Genesis

Log == INSTANCE AppendOnlyLog WITH ledger <- DiskHead, heads <- Heads

(***************************************************************************)
(* Emit extends the ledger at its write; the replies of Emit, and the      *)
(* checkpoints of Rotate and checkpoint_create, vouch for the ledger as it *)
(* is at that moment; every other step leaves the ledger and the heads     *)
(* alone, a crash and a restart included.                                  *)
(***************************************************************************)
ImplementsLog == Log!Spec
==============================================================================
