----------------------------- MODULE SegmentStore -----------------------------
(***************************************************************************)
(* The files of one log and the functions of segment.go and chain.go that  *)
(* only read them: the manifest, the numbering of rotated-out segments,    *)
(* the walker over all segments (verifyAllSegments) and the two resume     *)
(* points, of a rotation (manifestState) and of a start (loadState).       *)
(*                                                                         *)
(* A disk is a record of                                                   *)
(*   hasActive, active     the active segment <base> and its lines         *)
(*   segs                  the files <base>.NNN: a function from numbers   *)
(*   hasManifest, manifest the entries of <base>.manifest, oldest first    *)
(* A manifest entry names its segment by number; issued_at, which no       *)
(* reader looks at, is left out, and so are names that are not base names, *)
(* which both readers of the manifest reject before they open them.        *)
(***************************************************************************)
EXTENDS HashChain

Entry == [segment : Nat, first_seq : Nat, last_seq : Nat \cup {-1},
          start_prev_hash : Hash, end_hash : Hash]

\* The number of the highest <base>.NNN present, 0 when there is none.
highestSegmentOnDisk(segs) ==
  IF DOMAIN segs = {} THEN 0
  ELSE CHOOSE n \in DOMAIN segs : \A k \in DOMAIN segs : k <= n

\* A missing file counts as zero records; a junk line is counted like any other.
countRecords(d) == IF d.hasActive THEN Len(d.active) ELSE 0

\* Mutant of manifestState: resumes at the first sequence number of the last segment.
manifestStateFirstSeq(d) ==
  IF ~d.hasManifest \/ d.manifest = << >>
    THEN [offset |-> 0, head |-> Genesis]
    ELSE [offset |-> Last(d.manifest).first_seq, head |-> Last(d.manifest).end_hash]

\* The count and the head at which the active segment starts.
manifestState(d) ==
  IF ~d.hasManifest \/ d.manifest = << >>
    THEN [offset |-> 0, head |-> Genesis]
    ELSE [offset |-> Last(d.manifest).last_seq + 1, head |-> Last(d.manifest).end_hash]

walkActive(d, start, offset) ==
  IF d.hasActive THEN verifyChainStateFrom(d.active, start, offset) ELSE Broken(NoAt)

-----------------------------------------------------------------------------
(***************************************************************************)
(* verifyAllSegments.  The loop carries (prev, offset) from the walk of    *)
(* one segment to the next.  A segment passes only if the manifest records *)
(* what its walk found, so up to the first segment that fails, the carried *)
(* values are those of the manifest entry before it, and the loop's answer *)
(* is that of the least failing segment.  Module VerifyLoop holds the loop *)
(* itself; the two are compared there.                                     *)
(***************************************************************************)
CarriedPrev(d, i) == IF i = 1 THEN Genesis ELSE d.manifest[i-1].end_hash

CarriedOffset(d, i) ==
  IF i = 1 THEN 0
  ELSE LET before == d.manifest[i-1] IN
       IF before.segment \in DOMAIN d.segs
         THEN before.first_seq + Len(d.segs[before.segment]) ELSE 0

\* Mutant of listedSegment: the walk is not compared with the end the manifest records.
listedSegmentOpenEnded(d, i) ==
  LET seg    == d.manifest[i]
      prev   == CarriedPrev(d, i)
      offset == CarriedOffset(d, i)
  IN IF seg.segment \notin DOMAIN d.segs THEN Broken(offset)
     ELSE IF seg.start_prev_hash # prev \/ seg.first_seq # offset THEN Broken(offset)
     ELSE verifyChainStateFrom(d.segs[seg.segment], prev, offset)

\* The verdict on the i-th listed segment, given the carried values.
listedSegment(d, i) ==
  LET seg    == d.manifest[i]
      prev   == CarriedPrev(d, i)
      offset == CarriedOffset(d, i)
      state  == verifyChainStateFrom(d.segs[seg.segment], prev, offset)
  IN IF seg.segment \notin DOMAIN d.segs THEN Broken(offset)
     ELSE IF ~state.valid THEN state
     ELSE IF seg.start_prev_hash # prev \/ seg.first_seq # offset THEN Broken(offset)
     ELSE IF seg.last_seq # state.last_seq \/ seg.end_hash # state.root_hash
            THEN Broken(state.last_seq)
     ELSE state

FirstFailing(d) ==
  CHOOSE i \in DOMAIN d.manifest :
    /\ ~listedSegment(d, i).valid
    /\ \A j \in 1..(i-1) : listedSegment(d, j).valid

\* Mutant of uncoveredSegment: the orphan scan is gone.
uncoveredSegmentUnseen(d) == FALSE

\* A segment file beyond the manifest's coverage.  Without a manifest file the log
\* counts as never rotated and the directory is not scanned at all.
uncoveredSegment(d) ==
  d.hasManifest /\ highestSegmentOnDisk(d.segs) > Len(d.manifest)

verifyAllSegments(d) ==
  IF \E i \in DOMAIN d.manifest : ~listedSegment(d, i).valid
    THEN Broken(listedSegment(d, FirstFailing(d)).at)
  ELSE IF uncoveredSegment(d) THEN Broken(NoAt)
  ELSE walkActive(d, CarriedPrev(d, Len(d.manifest) + 1),
                     CarriedOffset(d, Len(d.manifest) + 1))

-----------------------------------------------------------------------------
\* loadState: a start succeeds only if every line of the active segment can be read.
\* It creates the file when it is missing, counts lines and takes over the last
\* stored hash; it checks no link.
loadable(d) == \A i \in 1..countRecords(d) : Scannable(d.active[i]) /\ Decodable(d.active[i])

\* Mutant of loadState: resumes from the active segment alone.
loadStateOfActive(d) ==
  [seq      |-> countRecords(d),
   prevHash |-> IF countRecords(d) = 0 THEN Genesis ELSE Last(d.active).rec.hash]

loadState(d) ==
  [seq      |-> manifestState(d).offset + countRecords(d),
   prevHash |-> IF countRecords(d) = 0 THEN manifestState(d).head
                ELSE Last(d.active).rec.hash]

\* The checkpoint fields that depend on the log, and the part of
\* validateCheckpointPayload that SignCheckpointPayload can refuse them for.
Checkpoint == [tree_size : Nat, last_seq : Nat \cup {-1}, root_hash : Hash]

payload(state) == [tree_size |-> state.tree_size, last_seq |-> state.last_seq,
                   root_hash |-> state.root_hash]

signable(p) == p.last_seq = p.tree_size - 1
===============================================================================
