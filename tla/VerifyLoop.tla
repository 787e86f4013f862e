------------------------------ MODULE VerifyLoop ------------------------------
(***************************************************************************)
(* verifyAllSegments on files that were changed behind the daemon's back.  *)
(* The module holds the two loops of chain.go as they run, line by line    *)
(* and segment by segment, and compares them with the closed forms of      *)
(* HashChain and SegmentStore; and it lets the files of an honest log be   *)
(* damaged, one edit at a time, to see what a valid verdict still means.   *)
(* Nobody recomputes a hash here: a rewrite of the tail of the log with    *)
(* fresh hashes is what signed checkpoints are for, not verify.            *)
(***************************************************************************)
EXTENDS SegmentStore

CONSTANTS
  MaxRecords,  \* bound: records in the honest log
  MaxEdits     \* bound: edits

ASSUME BoundsAssumption == MaxRecords \in Nat /\ MaxEdits \in Nat

VARIABLES
  d,       \* the files
  honest,  \* the head of the log before any edit
  edits

editsVars == <<d, honest, edits>>

-----------------------------------------------------------------------------
(***************************************************************************)
(* The loops of the source, as functions from the number of rounds done to *)
(* what the loop carries; a round after an early return changes nothing.   *)
(***************************************************************************)

\* A round of verifyChainStateFrom; its prev is always the root_hash of the state.
readLine(state, line, at) ==
  LET rec == line.rec IN
  IF ~state.valid THEN state
  ELSE IF ~Scannable(line) THEN Broken(NoAt)
  ELSE IF ~Decodable(line) THEN Broken(at)
  ELSE IF rec.prev_hash # state.root_hash THEN Broken(rec.seq)
  ELSE IF hashRecord(rec.prev_hash, BodyOf(rec)) # rec.hash THEN Broken(rec.seq)
  ELSE [valid |-> TRUE, at |-> NoAt, tree_size |-> state.tree_size + 1,
        last_seq |-> rec.seq, root_hash |-> rec.hash]

StartAt(start, offset) ==
  [valid |-> TRUE, at |-> NoAt, tree_size |-> offset, last_seq |-> offset - 1,
   root_hash |-> start]

fileLoop(lines, start, offset) ==
  LET after[i \in 0..Len(lines)] ==
        IF i = 0 THEN StartAt(start, offset)
        ELSE readLine(after[i-1], lines[i], offset + i - 1)
  IN after

walkFile(lines, start, offset) == fileLoop(lines, start, offset)[Len(lines)]

\* Mutant of walkLog: the active segment is trusted to start where its first record says.
walkLogUnlinked(dd, start, offset) ==
  IF ~dd.hasActive THEN Broken(NoAt)
  ELSE walkFile(dd.active, IF dd.active = << >> THEN start ELSE Head(dd.active).rec.prev_hash,
                offset)

walkLog(dd, start, offset) ==
  IF dd.hasActive THEN walkFile(dd.active, start, offset) ELSE Broken(NoAt)

\* A round of verifyAllSegments at entry k of the manifest; prev and offset are the
\* root_hash and tree_size it carries.
readSegment(dd, k, carried) ==
  LET seg    == dd.manifest[k]
      offset == carried.tree_size
      state  == walkFile(dd.segs[seg.segment], carried.root_hash, offset)
  IN IF ~carried.valid THEN carried
     ELSE IF seg.segment \notin DOMAIN dd.segs THEN Broken(offset)
     ELSE IF ~state.valid THEN state
     ELSE IF seg.start_prev_hash # carried.root_hash THEN Broken(offset)
     ELSE IF seg.first_seq # offset THEN Broken(offset)
     ELSE IF seg.last_seq # state.last_seq THEN Broken(state.last_seq)
     ELSE IF seg.end_hash # state.root_hash THEN Broken(state.last_seq)
     ELSE state

segmentLoop(dd) ==
  LET after[k \in 0..Len(dd.manifest)] ==
        IF k = 0 THEN StartAt(Genesis, 0) ELSE readSegment(dd, k, after[k-1])
  IN after

\* Past the last entry come the orphan scan and the active segment.
walkAll(dd) ==
  LET state == segmentLoop(dd)[Len(dd.manifest)] IN
  IF ~dd.hasManifest THEN walkLog(dd, Genesis, 0)
  ELSE IF ~state.valid THEN state
  ELSE IF highestSegmentOnDisk(dd.segs) > Len(dd.manifest) THEN Broken(NoAt)
  ELSE walkLog(dd, state.root_hash, state.tree_size)

-----------------------------------------------------------------------------
(* An honest log of n records, cut into files *)

HeadOf(events, n) == [i \in 1..n |-> [seq |-> i - 1, event |-> events[i]]]

HonestLine(events, i) == Whole(NewRecord(i - 1, HeadOf(events, i - 1), events[i]))

\* cuts are the positions after which the log was rotated, in increasing order.
HonestDisk(events, cuts) ==
  LET from(k) == IF k = 1 THEN 0 ELSE cuts[k-1]
      piece(a, b) == [j \in 1..(b - a) |-> HonestLine(events, a + j)]
      last == IF cuts = << >> THEN 0 ELSE Last(cuts)
  IN [hasActive   |-> TRUE,
      active      |-> piece(last, Len(events)),
      segs        |-> [k \in DOMAIN cuts |-> piece(from(k), cuts[k])],
      hasManifest |-> cuts # << >>,
      manifest    |-> [k \in DOMAIN cuts |->
        [segment |-> k, first_seq |-> from(k), last_seq |-> cuts[k] - 1,
         start_prev_hash |-> HeadOf(events, from(k)),
         end_hash |-> HeadOf(events, cuts[k])]]]

Increasing(n) == {c \in UNION {[1..k -> 1..n] : k \in 0..n} :
                    \A i \in 1..(Len(c) - 1) : c[i] < c[i+1]}

EditsInit ==
  \E n \in 0..MaxRecords : \E events \in [1..n -> Event] : \E cuts \in Increasing(n) :
    /\ d = HonestDisk(events, cuts)
    /\ honest = HeadOf(events, n)
    /\ edits = 0

-----------------------------------------------------------------------------
(* Edits *)

Edit(new) == /\ edits < MaxEdits /\ edits' = edits + 1 /\ d' = new /\ UNCHANGED honest

\* Every file with lines: 0 stands for the active segment.
Files == {0} \cup DOMAIN d.segs
LinesOf(f) == IF f = 0 THEN d.active ELSE d.segs[f]
WithLines(f, lines) ==
  IF f = 0 THEN [d EXCEPT !.active = lines] ELSE [d EXCEPT !.segs[f] = lines]

\* The hashes an edit can put in: those of the log itself.
SomeHash == {HeadOf([i \in DOMAIN honest |-> honest[i].event], n) : n \in 0..Len(honest)}

ChangeRecord ==
  \E f \in Files : \E i \in DOMAIN LinesOf(f) :
    LET lines == LinesOf(f) IN
    \/ \E e \in Event : Edit(WithLines(f, [lines EXCEPT ![i].rec.event = e]))
    \/ \E n \in 0..MaxRecords : Edit(WithLines(f, [lines EXCEPT ![i].rec.seq = n]))
    \/ \E g \in SomeHash : Edit(WithLines(f, [lines EXCEPT ![i].rec.prev_hash = g]))
    \/ \E g \in SomeHash : Edit(WithLines(f, [lines EXCEPT ![i].rec.hash = g]))
    \/ Edit(WithLines(f, [lines EXCEPT ![i].kind = "junk"]))

DropLine ==
  \E f \in Files : \E i \in DOMAIN LinesOf(f) : Edit(WithLines(f, RemoveAt(LinesOf(f), i)))

\* A line moved or copied to any place in any file.
CopyLine ==
  \E f, g \in Files : \E i \in DOMAIN LinesOf(f) : \E j \in 1..(Len(LinesOf(g)) + 1) :
    Edit(WithLines(g, InsertAt(LinesOf(g), j, LinesOf(f)[i])))

DropFile ==
  \/ \E n \in DOMAIN d.segs :
       Edit([d EXCEPT !.segs = [k \in DOMAIN d.segs \ {n} |-> d.segs[k]]])
  \/ Edit([d EXCEPT !.hasActive = FALSE, !.active = << >>])
  \/ Edit([d EXCEPT !.hasManifest = FALSE, !.manifest = << >>])

\* A segment replaced by another one, under any number up to one past the last.
CopySegment ==
  \E n \in DOMAIN d.segs : \E k \in 1..(Len(honest) + 1) :
    Edit([d EXCEPT !.segs =
      [x \in DOMAIN d.segs \cup {k} |-> IF x = k THEN d.segs[n] ELSE d.segs[x]]])

ChangeEntry ==
  \E i \in DOMAIN d.manifest :
    \/ \E n \in 0..MaxRecords : Edit([d EXCEPT !.manifest[i].first_seq = n])
    \/ \E n \in 0..MaxRecords : Edit([d EXCEPT !.manifest[i].last_seq = n])
    \/ \E g \in SomeHash : Edit([d EXCEPT !.manifest[i].start_prev_hash = g])
    \/ \E g \in SomeHash : Edit([d EXCEPT !.manifest[i].end_hash = g])
    \/ \E k \in DOMAIN d.segs : Edit([d EXCEPT !.manifest[i].segment = k])

DropEntry == \E i \in DOMAIN d.manifest : Edit([d EXCEPT !.manifest = RemoveAt(d.manifest, i)])

EditsNext ==
  \/ ChangeRecord \/ DropLine \/ CopyLine \/ DropFile \/ CopySegment
  \/ ChangeEntry \/ DropEntry

EditsSpec == EditsInit /\ [][EditsNext]_editsVars

-----------------------------------------------------------------------------
(***************************************************************************)
(* The closed form that the other modules use, and that the proofs are     *)
(* about, gives the verdict of the loops on every damaged log, the place   *)
(* it reports included.                                                    *)
(***************************************************************************)
ClosedFormIsTheLoop == verifyAllSegments(d) = walkAll(d)

(***************************************************************************)
(* If verify accepts files that were changed without recomputing hashes,   *)
(* the history it accepts is the honest one up to some record: nothing is  *)
(* altered, inserted, reordered or missing in the middle, in any segment   *)
(* or at any seam; only the tail can be gone (behaviors.md B-003,          *)
(* verifyAllSegments).                                                     *)
(***************************************************************************)
OnlyTheTailCanGo ==
  LET v == walkAll(d) IN
  v.valid => /\ IsPrefix(v.root_hash, honest)
             /\ v.tree_size = Len(v.root_hash) /\ v.last_seq = v.tree_size - 1

===============================================================================
