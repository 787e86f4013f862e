------------------------------ MODULE Processes ------------------------------
(***************************************************************************)
(* Several processes on one log: the daemon, and the emit and rotate       *)
(* commands of main.go, each with a Chain of its own.  Chain.mu does not   *)
(* reach across processes and no file lock does, so operations are cut     *)
(* here where they go back to the files, and a process may act on what     *)
(* another has changed since it looked.  Two pairs are one step: Rotate's  *)
(* count with its first look at the manifest, and its sidecar with the     *)
(* manifest.  A file is an inode: a process that has opened the active     *)
(* segment writes to it under whatever name it has by then, or none.       *)
(* Nothing fails and nothing dies here.                                    *)
(***************************************************************************)
EXTENDS SegmentStore

CONSTANTS
  Proc,         \* processes
  Rotators,     \* those that rotate
  RotateAfter,  \* the --rotate-after threshold
  MaxStarts,    \* bound: starts of a process
  MaxEmits,     \* bound: emits
  MaxRotates    \* bound: rotations

ASSUME ProcessesAssumption ==
  Rotators \subseteq Proc /\ RotateAfter \in Nat \ {0} /\ {MaxStarts, MaxEmits, MaxRotates} \subseteq Nat

VARIABLES
  lines,        \* the inodes so far, each with its lines
  activeFile,   \* the inode at the path of the log, 0 when there is none
  segFile,      \* the inodes at <base>.NNN
  manifest,     \* the entries of the manifest; it exists once it has one
  at,           \* per process: off, ready between operations, or the next step
  mem,          \* per process: Chain.seq and Chain.prevHash
  loc,          \* per process: the locals of its operation
  vouched,      \* the heads that emits returned and rotations signed
  alone,        \* no process was ever started next to another one (history)
  starts, emits, rotates

processVars == <<lines, activeFile, segFile, manifest, at, mem, loc, vouched, alone,
          starts, emits, rotates>>

files == <<lines, activeFile, segFile, manifest>>
counts == <<starts, emits, rotates>>

Disk == [hasActive   |-> activeFile # 0,
         active      |-> IF activeFile = 0 THEN << >> ELSE lines[activeFile],
         segs        |-> [n \in DOMAIN segFile |-> lines[segFile[n]]],
         hasManifest |-> manifest # << >>,
         manifest    |-> manifest]

NoLocals == [file |-> 0, event |-> CHOOSE e \in Event : TRUE,
             offset |-> 0, head |-> Genesis, last_seq |-> -1, root |-> Genesis,
             segments |-> << >>, segNum |-> 0]

ProcessesInit ==
  /\ lines = << >> /\ activeFile = 0 /\ segFile = << >> /\ manifest = << >>
  /\ at = [p \in Proc |-> "off"]
  /\ mem = [p \in Proc |-> [seq |-> 0, prevHash |-> Genesis]]
  /\ loc = [p \in Proc |-> NoLocals]
  /\ vouched = {} /\ alone = TRUE
  /\ starts = 0 /\ emits = 0 /\ rotates = 0

Go(p, from, to) == at[p] = from /\ at' = [at EXCEPT ![p] = to]

\* The operation returns and its locals are gone.
Done(p, from) == Go(p, from, "ready") /\ loc' = [loc EXCEPT ![p] = NoLocals]

\* open with O_CREATE: the inode at the path, or a new and empty one.
OpenActive ==
  IF activeFile = 0
    THEN lines' = Append(lines, << >>) /\ activeFile' = Len(lines) + 1
    ELSE UNCHANGED <<lines, activeFile>>

-----------------------------------------------------------------------------
(* NewChain: the manifest, then the active segment *)

Start(p) ==
  /\ starts < MaxStarts
  /\ Go(p, "off", "resume")
  /\ alone' = (alone /\ \A q \in Proc: at[q] = "off")
  /\ starts' = starts + 1
  /\ mem' = [mem EXCEPT ![p] = [seq |-> manifestState(Disk).offset,
                                prevHash |-> manifestState(Disk).head]]
  /\ UNCHANGED <<files, loc, vouched, emits, rotates>>

Resume(p) ==
  /\ Go(p, "resume", "ready")
  /\ OpenActive
  /\ mem' = [mem EXCEPT ![p] =
               [seq |-> @.seq + Len(Disk.active),
                prevHash |-> IF Disk.active = << >> THEN @.prevHash
                             ELSE Last(Disk.active).rec.hash]]
  /\ UNCHANGED <<segFile, manifest, loc, vouched, alone, counts>>

Exit(p) ==
  /\ Go(p, "ready", "off")
  /\ mem' = [mem EXCEPT ![p] = [seq |-> 0, prevHash |-> Genesis]]
  /\ UNCHANGED <<files, loc, vouched, alone, counts>>

-----------------------------------------------------------------------------
(* Emit: open, then write; memory advances with the write *)

EmitOpen(p) ==
  /\ emits < MaxEmits
  /\ Go(p, "ready", "write")
  /\ OpenActive
  /\ \E e \in Event:
       loc' = [loc EXCEPT ![p] = [NoLocals EXCEPT !.file = activeFile', !.event = e]]
  /\ emits' = emits + 1
  /\ UNCHANGED <<segFile, manifest, mem, vouched, alone, starts, rotates>>

EmitWrite(p) ==
  LET rec == NewRecord(mem[p].seq, mem[p].prevHash, loc[p].event) IN
  /\ Done(p, "write")
  /\ lines' = [lines EXCEPT ![loc[p].file] = AppendLine(@, Whole(rec))]
  /\ mem' = [mem EXCEPT ![p] = [seq |-> @.seq + 1, prevHash |-> rec.hash]]
  /\ vouched' = vouched \union {rec.hash}
  /\ UNCHANGED <<activeFile, segFile, manifest, alone, counts>>

-----------------------------------------------------------------------------
(* Rotate *)

\* The count and the resume point.
RotateStart(p) ==
  /\ p \in Rotators /\ rotates < MaxRotates
  /\ rotates' = rotates + 1
  /\ IF countRecords(Disk) >= RotateAfter
       THEN /\ Go(p, "ready", "walk")
            /\ loc' = [loc EXCEPT ![p].offset = manifestState(Disk).offset,
                                  ![p].head = manifestState(Disk).head]
       ELSE Done(p, "ready")
  /\ UNCHANGED <<files, mem, vouched, alone, starts, emits>>

RotateWalk(p) ==
  LET state == walkActive(Disk, loc[p].head, loc[p].offset) IN
  /\ IF state.valid /\ signable(payload(state))
       THEN /\ Go(p, "walk", "index")
            /\ loc' = [loc EXCEPT ![p].last_seq = state.last_seq,
                                  ![p].root = state.root_hash]
       ELSE Done(p, "walk")
  /\ UNCHANGED <<files, mem, vouched, alone, counts>>

\* The manifest is read a second time, to be appended to.
RotateIndex(p) ==
  /\ Go(p, "index", "number")
  /\ loc' = [loc EXCEPT ![p].segments = manifest]
  /\ UNCHANGED <<files, mem, vouched, alone, counts>>

\* The number of the next segment, which nobody has taken yet.
RotateNumber(p) ==
  /\ Go(p, "number", "rename")
  /\ loc' = [loc EXCEPT ![p].segNum = highestSegmentOnDisk(segFile) + 1]
  /\ UNCHANGED <<files, mem, vouched, alone, counts>>

\* rename(2) replaces what has the name by now, and fails when there is nothing to rename.
RotateRename(p) ==
  /\ IF activeFile = 0
       THEN Done(p, "rename") /\ UNCHANGED <<activeFile, segFile>>
       ELSE /\ Go(p, "rename", "manifest")
            /\ segFile' = [n \in DOMAIN segFile \union {loc[p].segNum} |->
                             IF n = loc[p].segNum THEN activeFile ELSE segFile[n]]
            /\ activeFile' = 0
            /\ UNCHANGED loc
  /\ UNCHANGED <<lines, manifest, mem, vouched, alone, counts>>

\* The sidecar with the signed head, then the manifest.
RotateManifest(p) ==
  /\ Go(p, "manifest", "fresh")
  /\ manifest' = Append(loc[p].segments,
       [segment |-> loc[p].segNum, first_seq |-> loc[p].offset,
        last_seq |-> loc[p].last_seq, start_prev_hash |-> loc[p].head,
        end_hash |-> loc[p].root])
  /\ vouched' = vouched \union {loc[p].root}
  /\ UNCHANGED <<lines, activeFile, segFile, mem, loc, alone, counts>>

RotateFresh(p) ==
  /\ Done(p, "fresh")
  /\ OpenActive
  /\ UNCHANGED <<segFile, manifest, mem, vouched, alone, counts>>

-----------------------------------------------------------------------------

Operate(p) ==
  \/ EmitOpen(p) \/ EmitWrite(p)
  \/ RotateStart(p) \/ RotateWalk(p) \/ RotateIndex(p) \/ RotateNumber(p)
  \/ RotateRename(p) \/ RotateManifest(p) \/ RotateFresh(p)

ProcessesNext == \E p \in Proc: Start(p) \/ Resume(p) \/ Exit(p) \/ Operate(p)

ProcessesSpec == ProcessesInit /\ [][ProcessesNext]_processVars

-----------------------------------------------------------------------------
(* Properties *)

Quiet == \A p \in Proc: at[p] \in {"off", "ready"}

Verdict == verifyAllSegments(Disk)

Hides == \E h \in vouched: ~IsPrefix(h, Verdict.root_hash)

(***************************************************************************)
(* Commands that follow one another are as good as one process: as long as *)
(* no process was started while another one had the log open, the files    *)
(* verify and hold every record that was vouched for (NewChain resumes     *)
(* what the process before it left).                                       *)
(***************************************************************************)
AloneIsHonest == alone /\ Quiet /\ starts > 0 => Verdict.valid /\ ~Hides

(***************************************************************************)
(* Processes that do run next to one another can fork the chain, write to  *)
(* a segment that is already sealed or resume from half a rotation.  As    *)
(* long as only one of them rotates, damage never goes unnoticed: once     *)
(* they are quiet, either verify rejects the files or every head that was  *)
(* vouched for is part of the history that it accepts (chain.go, 232-361). *)
(***************************************************************************)
DamageIsSeen == Quiet /\ Verdict.valid => ~Hides
=============================================================================
