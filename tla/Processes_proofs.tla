--------------------------- MODULE Processes_proofs ---------------------------
(***************************************************************************)
(* Several processes on one log: what they cannot hide as long as no two   *)
(* of them rotate, and what they keep true one after the other.  For any   *)
(* processes and events, any threshold and any number of operations.       *)
(***************************************************************************)
EXTENDS Processes, SegmentStore_proofs

Rotating == {"walk", "index", "number", "rename", "manifest", "fresh"}

Steps == {"off", "resume", "ready", "write"} \cup Rotating

\* No write is cut short here.
WholeLine == {line \in Line : line.kind = "rec" /\ line.nl}

Locals ==
  [file : Nat, event : Event \cup {NoLocals.event}, offset : Nat, head : Hash,
   last_seq : Nat \cup {-1}, root : Hash, segments : Seq(Entry), segNum : Nat]

Memory == [seq : Nat, prevHash : Hash]

ThreadTypes ==
  /\ mem \in [Proc -> Memory] /\ loc \in [Proc -> Locals]
  /\ \A p \in Proc : at[p] = "write" => loc[p].file \in DOMAIN lines /\ loc[p].event \in Event

FileTypes ==
  /\ lines \in Seq(Seq(WholeLine))
  /\ activeFile \in 0..Len(lines)
  /\ segFile \in Seq(Nat) /\ \A n \in DOMAIN segFile : segFile[n] \in DOMAIN lines
  /\ manifest \in Seq(Entry)
  /\ vouched \subseteq Hash

-----------------------------------------------------------------------------
(* Rotations one at a time *)

OneRotator == \A p, q \in Rotators : p = q

\* No two rotations overlap, be it that there is one process at a time or one that rotates.
Ordered == alone \/ OneRotator

OnlyRotatorsRotate == \A p \in Proc : at[p] \in Rotating => p \in Rotators

AloneIsOne == alone => \A p, q \in Proc : at[p] # "off" /\ at[q] # "off" => p = q

\* The manifest lists the segments in order, and the rotation in progress has the next
\* number and the whole manifest to append to.
Numbered ==
  /\ \A i \in DOMAIN manifest : manifest[i].segment = i
  /\ Len(segFile) = Len(manifest) + IF \E p \in Proc : at[p] = "manifest" THEN 1 ELSE 0
  /\ \A p \in Proc : at[p] \in {"number", "rename", "manifest"} => loc[p].segments = manifest
  /\ \A p \in Proc : at[p] \in {"rename", "manifest"} => loc[p].segNum = Len(manifest) + 1

-----------------------------------------------------------------------------
(* What the files hold *)

\* Every file that was ever made has a name.
Reachable ==
  \A f \in DOMAIN lines : f = activeFile \/ \E n \in DOMAIN segFile : segFile[n] = f

InFiles(h) == \E f \in DOMAIN lines : \E k \in DOMAIN lines[f] : lines[f][k].rec.hash = h

InManifest(h) == \E i \in DOMAIN manifest : manifest[i].end_hash = h

VouchedAreHeld == \A h \in vouched : InFiles(h) \/ InManifest(h)

\* A file that is sound from some head extends it, and each of its lines, to its last.
Extends(file, start) ==
  SoundFile(file, start) =>
    /\ IsPrefix(start, HeadAfter(file, start))
    /\ \A k \in DOMAIN file : IsPrefix(file[k].rec.hash, HeadAfter(file, start))

FilesLink == \A f \in DOMAIN lines : \A start \in Hash : Extends(lines[f], start)

\* Entries that each extend the one before extend all that came before.
LinkedUp(entries) == \A i \in DOMAIN entries : IsPrefix(IF i = 1 THEN Genesis ELSE entries[i-1].end_hash, entries[i].end_hash)

ManifestLinks ==
  LinkedUp(manifest) =>
    \A i \in DOMAIN manifest : IsPrefix(manifest[i].end_hash, manifest[Len(manifest)].end_hash)

HeldInv == Reachable /\ VouchedAreHeld /\ FilesLink /\ ManifestLinks

-----------------------------------------------------------------------------
(* One process after the other *)

Sealed == manifestState(Disk).head
SealedOffset == manifestState(Disk).offset

ChainHead == HeadAfter(Disk.active, Sealed)

ThereIsALog ==
  activeFile = 0 => starts = 0 \/ \E p \in Proc : at[p] \in {"resume", "manifest", "fresh"}

SegmentsApart == \A n \in DOMAIN segFile : segFile[n] # activeFile

\* Each segment is what the manifest says, and as long.
ListedWalks ==
  \A i \in DOMAIN manifest :
    /\ EntryWalks(Disk, i)
    /\ manifest[i].first_seq + Len(Disk.segs[manifest[i].segment]) = manifest[i].last_seq + 1

\* What a rotation found in the active segment is still true of the file.
WalkStands(p, file) ==
  LET state == verifyChainStateFrom(file, loc[p].head, loc[p].offset) IN
  /\ state.valid /\ signable(payload(state))
  /\ loc[p].last_seq = state.last_seq /\ loc[p].root = state.root_hash

Remembers(p) ==
  /\ at[p] \in {"ready", "write", "walk", "index", "number", "rename", "fresh"} =>
       mem[p].prevHash = ChainHead
  /\ at[p] = "resume" => mem[p].prevHash = Sealed
  /\ at[p] = "manifest" => mem[p].prevHash = loc[p].root

Foresees(p) ==
  /\ at[p] = "write" => loc[p].file = activeFile
  /\ at[p] \in {"walk", "index", "number", "rename", "manifest"} =>
       loc[p].head = Sealed /\ loc[p].offset = SealedOffset
  /\ at[p] \in {"index", "number", "rename"} => activeFile # 0 /\ WalkStands(p, Disk.active)
  /\ at[p] = "manifest" => WalkStands(p, Disk.segs[loc[p].segNum])
  /\ at[p] \in {"manifest", "fresh"} => activeFile = 0

AloneInv ==
  alone => /\ ThereIsALog /\ SegmentsApart /\ ListedWalks
           /\ SoundFile(Disk.active, Sealed)
           /\ \A p \in Proc : Remembers(p) /\ Foresees(p)

Control == alone \in BOOLEAN /\ at \in [Proc -> Steps] /\ OnlyRotatorsRotate /\ AloneIsOne

Kept == ThreadTypes /\ FileTypes /\ Numbered /\ HeldInv

ProcInv == Control /\ (Ordered => Kept)

-----------------------------------------------------------------------------
(* Operators *)

LEMMA SeqSubset ==
  ASSUME NEW S, NEW T, S \subseteq T
  PROVE  Seq(S) \subseteq Seq(T)
<1> SUFFICES ASSUME NEW s \in Seq(S)
             PROVE  s \in Seq(T)
  OBVIOUS
<1>1. Len(s) \in Nat /\ DOMAIN s = 1..Len(s) /\ \A i \in 1..Len(s) : s[i] \in S
  BY LenProperties, ElementOfSeq
<1>2. s = [i \in 1..Len(s) |-> s[i]]
  BY <1>1
<1>3. s \in [1..Len(s) -> T]
  BY <1>1, <1>2
<1>4. s \in UNION {[1..n -> T] : n \in Nat}
  BY <1>1, <1>3
<1> QED BY <1>4, SeqDef

LEMMA WholeFiles ==
  /\ WholeLine \subseteq Line /\ Seq(WholeLine) \subseteq Seq(Line)
  /\ << >> \in Seq(WholeLine)
  /\ \A rec \in Record : Whole(rec) \in WholeLine /\ Whole(rec).rec = rec
<1>1. WholeLine \subseteq Line
  BY DEF WholeLine
<1>2. \A rec \in Record : Whole(rec) \in WholeLine /\ Whole(rec).rec = rec
  BY LineTypes DEF WholeLine, Whole
<1> QED BY <1>1, <1>2, SeqSubset

\* A whole line after whole lines is a line of its own.
LEMMA WholeAppends ==
  ASSUME NEW file \in Seq(WholeLine), NEW rec \in Record
  PROVE  /\ AppendLine(file, Whole(rec)) = Append(file, Whole(rec))
         /\ Append(file, Whole(rec)) \in Seq(WholeLine)
         /\ Append(file, Whole(rec)) # << >>
         /\ Last(Append(file, Whole(rec))) = Whole(rec)
<1>1. Whole(rec) \in WholeLine
  BY WholeFiles
<1>2. file = << >> \/ Last(file).nl
  <2> SUFFICES ASSUME file # << >>
               PROVE  Last(file).nl
    OBVIOUS
  <2>1. Len(file) \in 1..Len(file)
    BY EmptySeq, LenProperties
  <2>2. file[Len(file)] \in WholeLine
    BY <2>1, ElementOfSeq
  <2> QED BY <2>2 DEF Last, WholeLine
<1>3. AppendLine(file, Whole(rec)) = Append(file, Whole(rec))
  BY <1>2 DEF AppendLine
<1>4. /\ Append(file, Whole(rec)) \in Seq(WholeLine) /\ Append(file, Whole(rec)) # << >>
  BY <1>1, AppendProperties
<1>5. Last(Append(file, Whole(rec))) = Whole(rec)
  BY <1>1, FrontOfAppend
<1> QED BY <1>3, <1>4, <1>5

LEMMA EmptyExtends ==
  ASSUME NEW start \in Hash
  PROVE  Extends(<< >>, start)
BY PrefixReflexive DEF Extends, HeadAfter, Hash

LEMMA GrownExtends ==
  ASSUME NEW file \in Seq(WholeLine), NEW rec \in Record, NEW start \in Hash,
         Extends(file, start)
  PROVE  Extends(Append(file, Whole(rec)), start)
<1> DEFINE grown == Append(file, Whole(rec))
           head == HeadAfter(file, start)
<1> SUFFICES ASSUME SoundFile(grown, start)
             PROVE  /\ IsPrefix(start, HeadAfter(grown, start))
                    /\ \A k \in DOMAIN grown : IsPrefix(grown[k].rec.hash, HeadAfter(grown, start))
  BY DEF Extends
<1>1. file \in Seq(Line) /\ Whole(rec) \in Line /\ Whole(rec).rec = rec
  BY WholeFiles
<1>2. grown = AppendLine(file, Whole(rec))
  BY WholeAppends
<1>3. SoundFile(file, start) /\ HeadAfter(grown, start) = Append(head, BodyOf(rec))
  BY <1>1, <1>2, SoundWrite
<1>4. head \in Hash /\ BodyOf(rec) \in Body
  BY <1>1, HeadAfterType DEF BodyOf, Record, Body
<1>5. IsPrefix(head, Append(head, BodyOf(rec))) /\ Append(head, BodyOf(rec)) \in Hash
  BY <1>4, PrefixAppend DEF Hash
<1>6. HeadAfter(grown, start) = rec.hash
  BY <1>1, WholeAppends DEF HeadAfter
<1>7. IsPrefix(start, HeadAfter(grown, start))
  BY <1>3, <1>4, <1>5, PrefixTransitive DEF Extends, Hash
<1>8. ASSUME NEW k \in DOMAIN grown
      PROVE  IsPrefix(grown[k].rec.hash, HeadAfter(grown, start))
  <2>1. /\ Len(file) \in Nat /\ DOMAIN file = 1..Len(file) /\ DOMAIN grown = 1..(Len(file) + 1)
        /\ grown[Len(file) + 1] = Whole(rec) /\ \A i \in 1..Len(file) : grown[i] = file[i]
    BY <1>1, AppendProperties, LenProperties
  <2>2. CASE k \in 1..Len(file)
    <3>1. file[k] \in Line
      BY <1>1, <2>2, ElementOfSeq
    <3>2. file[k].rec.hash \in Hash /\ IsPrefix(file[k].rec.hash, head)
      BY <1>3, <2>1, <2>2, <3>1 DEF Extends, Line, Record
    <3> QED BY <1>3, <1>4, <1>5, <2>1, <2>2, <3>2, PrefixTransitive DEF Hash
  <2>3. CASE k = Len(file) + 1
    <3>1. grown[k].rec.hash = HeadAfter(grown, start)
      BY <1>1, <1>6, <2>1, <2>3
    <3>2. HeadAfter(grown, start) \in Hash
      BY <1>3, <1>5
    <3> QED BY <3>1, <3>2, PrefixReflexive DEF Hash
  <2> QED BY <2>1, <2>2, <2>3
<1> QED BY <1>7, <1>8

LEMMA GrownManifest ==
  ASSUME NEW entries \in Seq(Entry), NEW entry \in Entry,
         LinkedUp(entries) =>
           \A i \in DOMAIN entries : IsPrefix(entries[i].end_hash, entries[Len(entries)].end_hash),
         NEW grown, grown = Append(entries, entry),
         LinkedUp(grown)
  PROVE  \A i \in DOMAIN grown : IsPrefix(grown[i].end_hash, grown[Len(grown)].end_hash)
<1> DEFINE n == Len(entries)
<1>1. /\ n \in Nat /\ DOMAIN entries = 1..n
      /\ Len(grown) = n + 1 /\ DOMAIN grown = 1..(n + 1) /\ grown \in Seq(Entry)
      /\ grown[n + 1] = entry /\ \A i \in 1..n : grown[i] = entries[i]
  <2>1. n \in Nat /\ DOMAIN entries = 1..n
    BY LenProperties
  <2>2. /\ grown \in Seq(Entry) /\ Len(grown) = n + 1
        /\ grown[n + 1] = entry /\ \A i \in 1..n : grown[i] = entries[i]
    BY AppendProperties
  <2>3. DOMAIN grown = 1..(n + 1)
    BY <2>2, LenProperties
  <2> QED BY <2>1, <2>2, <2>3
<1> HIDE DEF n
<1>2. \A i \in 1..(n + 1) : grown[i].end_hash \in Hash
  <2>1. \A i \in 1..(n + 1) : grown[i] \in Entry
    BY <1>1, ElementOfSeq
  <2> QED BY <2>1 DEF Entry
<1>3. LinkedUp(entries)
  <2> SUFFICES ASSUME NEW i \in 1..n
               PROVE  IsPrefix(IF i = 1 THEN Genesis ELSE entries[i-1].end_hash, entries[i].end_hash)
    BY <1>1 DEF LinkedUp
  <2>1. i \in 1..(n + 1) /\ grown[i] = entries[i] /\ (i # 1 => grown[i-1] = entries[i-1])
    BY <1>1
  <2> QED BY <1>1, <2>1 DEF LinkedUp
<1>4. ASSUME NEW i \in 1..n
      PROVE  IsPrefix(grown[i].end_hash, grown[n + 1].end_hash)
  <2>1. n \in 1..n /\ n + 1 \in 1..(n + 1) /\ n + 1 # 1 /\ n + 1 - 1 = n /\ i \in 1..(n + 1)
    BY <1>1
  <2>2. IsPrefix(grown[i].end_hash, grown[n].end_hash)
    BY <1>1, <1>3, <2>1 DEF n
  <2>3. IsPrefix(grown[n].end_hash, grown[n + 1].end_hash)
    BY <1>1, <2>1 DEF LinkedUp
  <2>4. n \in 1..(n + 1)
    BY <2>1
  <2> QED BY <1>2, <2>1, <2>2, <2>3, <2>4, PrefixTransitive DEF Hash
<1>5. IsPrefix(grown[n + 1].end_hash, grown[n + 1].end_hash)
  BY <1>1, <1>2, PrefixReflexive DEF Hash
<1> QED BY <1>1, <1>4, <1>5

-----------------------------------------------------------------------------
(* Control *)

LEMMA ControlStep ==
  ASSUME Control, NEW p \in Proc, NEW from \in Steps, NEW to \in Steps, Go(p, from, to),
         to \in Rotating => from \in Rotating \/ p \in Rotators,
         \/ from # "off" /\ alone' = alone
         \/ alone' = (alone /\ \A q \in Proc : at[q] = "off")
  PROVE  /\ Control' /\ (Ordered' => Ordered)
         /\ at[p] = from /\ at'[p] = to /\ \A q \in Proc : q # p => at'[q] = at[q]
<1>1. at[p] = from /\ at'[p] = to /\ \A q \in Proc : q # p => at'[q] = at[q]
  BY DEF Go, Control
<1>2. at' \in [Proc -> Steps] /\ alone' \in BOOLEAN
  BY DEF Go, Control
<1>3. alone' => alone
  OBVIOUS
<1>4. OnlyRotatorsRotate'
  BY <1>1 DEF Control, OnlyRotatorsRotate
<1>5. AloneIsOne'
  BY <1>1, <1>3 DEF Control, AloneIsOne
<1> QED BY <1>1, <1>2, <1>3, <1>4, <1>5 DEF Control, Ordered, OneRotator

\* At most one process is inside a rotation.
LEMMA RotationsApart ==
  ASSUME Control, Ordered, NEW p \in Proc, NEW q \in Proc,
         at[p] \in Rotating, at[q] \in Rotating
  PROVE  p = q
BY DEF Control, Ordered, OneRotator, OnlyRotatorsRotate, AloneIsOne, Rotating

LEMMA NumberedStays ==
  ASSUME Numbered, UNCHANGED <<segFile, manifest>>,
         \A q \in Proc : at'[q] = "manifest" <=> at[q] = "manifest",
         \A q \in Proc : at'[q] \in {"number", "rename", "manifest"} =>
           \/ at[q] \in {"number", "rename", "manifest"} /\ loc'[q].segments = loc[q].segments
           \/ loc'[q].segments = manifest,
         \A q \in Proc : at'[q] \in {"rename", "manifest"} =>
           \/ at[q] \in {"rename", "manifest"} /\ loc'[q].segNum = loc[q].segNum
           \/ loc'[q].segNum = Len(manifest) + 1
  PROVE  Numbered'
<1>1. \A i \in DOMAIN manifest' : manifest'[i].segment = i
  BY DEF Numbered
<1>2. (\E q \in Proc : at'[q] = "manifest") <=> (\E q \in Proc : at[q] = "manifest")
  OBVIOUS
<1>3. Len(segFile') = Len(manifest') + IF \E q \in Proc : at'[q] = "manifest" THEN 1 ELSE 0
  BY <1>2 DEF Numbered
<1>4. \A q \in Proc : at'[q] \in {"number", "rename", "manifest"} => loc'[q].segments = manifest'
  BY DEF Numbered
<1>5. \A q \in Proc : at'[q] \in {"rename", "manifest"} => loc'[q].segNum = Len(manifest') + 1
  BY DEF Numbered
<1> QED BY <1>1, <1>3, <1>4, <1>5 DEF Numbered

LEMMA DiskTypes ==
  ASSUME FileTypes
  PROVE  /\ DiskType(Disk) /\ Disk.active \in Seq(WholeLine)
         /\ Disk.segs \in Seq(Seq(WholeLine)) /\ Len(Disk.segs) = Len(segFile)
         /\ \A f \in DOMAIN lines : lines[f] \in Seq(WholeLine)
<1>1. \A f \in DOMAIN lines : lines[f] \in Seq(WholeLine)
  BY ElementOfSeq, LenProperties DEF FileTypes
<1>2. Disk.active \in Seq(WholeLine)
  <2>1. CASE activeFile = 0
    BY <2>1, WholeFiles DEF Disk
  <2>2. CASE activeFile # 0
    <3>1. activeFile \in DOMAIN lines
      BY <2>2, LenProperties DEF FileTypes
    <3> QED BY <1>1, <2>2, <3>1 DEF Disk
  <2> QED BY <2>1, <2>2
<1>3. Disk.segs \in Seq(Seq(WholeLine)) /\ Len(Disk.segs) = Len(segFile)
  <2> DEFINE t == [n \in DOMAIN segFile |-> lines[segFile[n]]]
  <2>1. DOMAIN segFile = 1..Len(segFile) /\ Len(segFile) \in Nat
    BY LenProperties DEF FileTypes
  <2>2. t \in [1..Len(segFile) -> Seq(WholeLine)]
    BY <1>1, <2>1 DEF FileTypes
  <2>3. Disk.segs = t
    BY DEF Disk
  <2> HIDE DEF t
  <2>4. t \in UNION {[1..m -> Seq(WholeLine)] : m \in Nat}
    BY <2>1, <2>2
  <2>5. t \in Seq(Seq(WholeLine))
    BY <2>4, SeqDef
  <2>6. Len(t) = Len(segFile)
    <3>1. DOMAIN t = 1..Len(segFile)
      BY <2>2
    <3>2. DOMAIN t = 1..Len(t) /\ Len(t) \in Nat
      BY <2>5, LenProperties
    <3> QED BY <2>1, <3>1, <3>2
  <2> QED BY <2>3, <2>5, <2>6
<1>4. Seq(WholeLine) \subseteq Seq(Line) /\ Seq(Seq(WholeLine)) \subseteq Seq(Seq(Line))
  BY WholeFiles, SeqSubset
<1>5. Disk.hasActive \in BOOLEAN /\ Disk.hasManifest \in BOOLEAN /\ Disk.manifest = manifest
  BY DEF Disk
<1>6. Disk.active \in Seq(Line) /\ Disk.segs \in Seq(Seq(Line)) /\ Disk.manifest \in Seq(Entry)
  BY <1>2, <1>3, <1>4, <1>5 DEF FileTypes
<1>7. DiskType(Disk)
  BY <1>5, <1>6 DEF DiskType
<1> QED BY <1>1, <1>2, <1>3, <1>7

-----------------------------------------------------------------------------
(* Files *)

LEMMA HeldStays ==
  ASSUME FileTypes, HeldInv, UNCHANGED <<files, vouched>>
  PROVE  FileTypes' /\ HeldInv'
<1>1. FileTypes'
  BY DEF FileTypes, files
<1>2. HeldInv'
  BY DEF files, HeldInv, Reachable, VouchedAreHeld, InFiles, InManifest, FilesLink,
         ManifestLinks, LinkedUp
<1> QED BY <1>1, <1>2

\* A file that is made when the active segment is opened is empty.
LEMMA HeldOpens ==
  ASSUME FileTypes, HeldInv, OpenActive, UNCHANGED <<segFile, manifest, vouched>>
  PROVE  /\ FileTypes' /\ HeldInv'
         /\ DOMAIN lines \subseteq DOMAIN lines' /\ activeFile' \in DOMAIN lines'
<1>1. CASE activeFile # 0
  <2>1. UNCHANGED <<files, vouched>>
    BY <1>1 DEF OpenActive, files
  <2>2. activeFile' \in DOMAIN lines'
    BY <1>1, <2>1, LenProperties DEF FileTypes, files
  <2> QED BY <2>1, <2>2, HeldStays DEF files
<1>2. CASE activeFile = 0
  <2> DEFINE made == Append(lines, << >>)
             n == Len(lines)
  <2>1. lines' = made /\ activeFile' = n + 1
    BY <1>2 DEF OpenActive
  <2>2. n \in Nat /\ DOMAIN lines = 1..n /\ lines \in Seq(Seq(WholeLine))
        /\ << >> \in Seq(WholeLine)
    BY WholeFiles, LenProperties DEF FileTypes
  <2>3. /\ made \in Seq(Seq(WholeLine)) /\ Len(made) = n + 1
        /\ made[n + 1] = << >> /\ \A f \in 1..n : made[f] = lines[f]
    BY <2>2, AppendProperties
  <2>4. DOMAIN made = 1..(n + 1)
    BY <2>3, LenProperties
  <2> HIDE DEF made, n
  <2>5. DOMAIN lines \subseteq DOMAIN lines' /\ activeFile' \in DOMAIN lines'
    BY <2>1, <2>2, <2>4
  <2>6. FileTypes'
    <3>1. activeFile' \in 0..Len(lines')
      BY <2>1, <2>2, <2>3
    <3> QED BY <2>1, <2>3, <2>5, <3>1 DEF FileTypes
  <2>7. Reachable'
    <3> SUFFICES ASSUME NEW f \in DOMAIN lines'
                 PROVE  f = activeFile' \/ \E k \in DOMAIN segFile : segFile[k] = f
      BY DEF Reachable
    <3>1. CASE f = n + 1
      BY <2>1, <3>1
    <3>2. CASE f \in DOMAIN lines
      <4>1. f # 0
        BY <2>2, <3>2
      <4> QED BY <1>2, <3>2, <4>1 DEF HeldInv, Reachable
    <3> QED BY <2>1, <2>2, <2>4, <3>1, <3>2
  <2>8. VouchedAreHeld'
    <3>1. \A h : InFiles(h) => InFiles(h)'
      BY <2>1, <2>2, <2>3, <2>5 DEF InFiles
    <3>2. \A h : InManifest(h) => InManifest(h)'
      BY DEF InManifest
    <3> QED BY <3>1, <3>2 DEF HeldInv, VouchedAreHeld
  <2>9. FilesLink'
    <3> SUFFICES ASSUME NEW f \in 1..(n + 1), NEW start \in Hash
                 PROVE  Extends(made[f], start)
      BY <2>1, <2>4 DEF FilesLink
    <3>1. CASE f = n + 1
      BY <2>3, <3>1, EmptyExtends
    <3>2. CASE f \in 1..n
      BY <2>2, <2>3, <3>2 DEF HeldInv, FilesLink
    <3> QED BY <2>2, <3>1, <3>2
  <2>10. ManifestLinks'
    BY DEF HeldInv, ManifestLinks, LinkedUp
  <2> QED BY <2>5, <2>6, <2>7, <2>8, <2>9, <2>10 DEF HeldInv
<1> QED BY <1>1, <1>2

LEMMA HeldWrites ==
  ASSUME FileTypes, HeldInv, NEW f \in DOMAIN lines, NEW rec \in Record,
         lines' = [lines EXCEPT ![f] = AppendLine(@, Whole(rec))],
         vouched' = vouched \cup {rec.hash}, UNCHANGED <<activeFile, segFile, manifest>>
  PROVE  FileTypes' /\ HeldInv' /\ DOMAIN lines' = DOMAIN lines
<1> DEFINE grown == Append(lines[f], Whole(rec))
<1>1. lines[f] \in Seq(WholeLine) /\ lines \in Seq(Seq(WholeLine))
  BY DiskTypes DEF FileTypes
<1>2. AppendLine(lines[f], Whole(rec)) = grown /\ grown \in Seq(WholeLine)
  BY <1>1, WholeAppends
<1>3. /\ DOMAIN lines' = DOMAIN lines /\ lines'[f] = grown
      /\ \A g \in DOMAIN lines : g # f => lines'[g] = lines[g]
  BY <1>2
<1>4. lines' \in Seq(Seq(WholeLine)) /\ Len(lines') = Len(lines)
  <2>1. lines' = [lines EXCEPT ![f] = grown]
    BY <1>2
  <2> HIDE DEF grown
  <2> QED BY <1>1, <1>2, <2>1, ExceptSeq
<1>5. rec.hash \in Hash
  BY DEF Record
<1>6. /\ Len(lines[f]) \in Nat /\ DOMAIN lines[f] = 1..Len(lines[f])
      /\ DOMAIN grown = 1..(Len(lines[f]) + 1) /\ grown[Len(lines[f]) + 1] = Whole(rec)
      /\ \A k \in 1..Len(lines[f]) : grown[k] = lines[f][k]
  <2> DEFINE file == lines[f]
  <2> HIDE DEF file
  <2>1. file \in Seq(WholeLine) /\ Whole(rec) \in WholeLine /\ grown = Append(file, Whole(rec))
    BY <1>1, WholeFiles DEF file
  <2> HIDE DEF grown
  <2>2. Len(file) \in Nat /\ DOMAIN file = 1..Len(file)
    BY <2>1, LenProperties
  <2>3. /\ grown \in Seq(WholeLine) /\ Len(grown) = Len(file) + 1
        /\ grown[Len(file) + 1] = Whole(rec) /\ \A k \in 1..Len(file) : grown[k] = file[k]
    BY <2>1, AppendProperties
  <2>4. DOMAIN grown = 1..(Len(file) + 1)
    BY <2>3, LenProperties
  <2> QED BY <2>2, <2>3, <2>4 DEF file
<1> HIDE DEF grown
<1>7. FileTypes'
  BY <1>3, <1>4, <1>5 DEF FileTypes
<1>8. Reachable'
  BY <1>3 DEF HeldInv, Reachable
<1>9. VouchedAreHeld'
  <2>1. InFiles(rec.hash)'
    <3>1. Len(lines[f]) + 1 \in DOMAIN lines'[f] /\ lines'[f][Len(lines[f]) + 1].rec = rec
      BY <1>3, <1>6, WholeFiles
    <3> QED BY <1>3, <3>1 DEF InFiles
  <2>2. ASSUME NEW h, InFiles(h)
        PROVE  InFiles(h)'
    <3>1. PICK g \in DOMAIN lines : \E k \in DOMAIN lines[g] : lines[g][k].rec.hash = h
      BY <2>2 DEF InFiles
    <3>2. PICK k \in DOMAIN lines[g] : lines[g][k].rec.hash = h
      BY <3>1
    <3>3. k \in DOMAIN lines'[g] /\ lines'[g][k] = lines[g][k]
      BY <1>3, <1>6, <3>1, <3>2
    <3> QED BY <1>3, <3>1, <3>2, <3>3 DEF InFiles
  <2>3. \A h : InManifest(h) => InManifest(h)'
    BY DEF InManifest
  <2> QED BY <2>1, <2>2, <2>3 DEF HeldInv, VouchedAreHeld
<1>10. FilesLink'
  <2> SUFFICES ASSUME NEW g \in DOMAIN lines, NEW start \in Hash
               PROVE  Extends(lines'[g], start)
    BY <1>3 DEF FilesLink
  <2>1. Extends(lines[g], start)
    BY DEF HeldInv, FilesLink
  <2>2. CASE g # f
    BY <1>3, <2>1, <2>2
  <2>3. CASE g = f
    <3>1. Extends(grown, start)
      BY <1>1, <2>1, <2>3, GrownExtends DEF grown
    <3> QED BY <1>3, <2>3, <3>1
  <2> QED BY <2>2, <2>3
<1>11. ManifestLinks'
  BY DEF HeldInv, ManifestLinks, LinkedUp
<1> QED BY <1>3, <1>7, <1>8, <1>9, <1>10, <1>11 DEF HeldInv

-----------------------------------------------------------------------------
(* Steps *)

LEMMA NoLocalsType == NoLocals \in Locals
BY DEF NoLocals, Locals, Genesis, Hash

\* A step of p that renames nothing and leaves the manifest alone.
LEMMA KeptStep ==
  ASSUME Kept, NEW p \in Proc,
         \A q \in Proc : q # p => at'[q] = at[q] /\ loc'[q] = loc[q],
         mem' \in [Proc -> Memory], loc' \in [Proc -> Locals],
         FileTypes', HeldInv', DOMAIN lines \subseteq DOMAIN lines',
         UNCHANGED <<segFile, manifest>>,
         at'[p] = "write" => loc'[p].file \in DOMAIN lines' /\ loc'[p].event \in Event,
         at[p] # "manifest", at'[p] # "manifest",
         at'[p] \in {"number", "rename"} => loc'[p].segments = manifest,
         at'[p] = "rename" => loc'[p].segNum = Len(manifest) + 1
  PROVE  Kept'
<1>1. ThreadTypes'
  <2> SUFFICES ASSUME NEW q \in Proc, at'[q] = "write"
               PROVE  loc'[q].file \in DOMAIN lines' /\ loc'[q].event \in Event
    BY DEF ThreadTypes
  <2>1. CASE q = p
    BY <2>1
  <2>2. CASE q # p
    <3>1. at[q] = "write" /\ loc'[q] = loc[q]
      BY <2>2
    <3> QED BY <3>1 DEF Kept, ThreadTypes
  <2> QED BY <2>1, <2>2
<1>2. Numbered'
  <2>1. \A q \in Proc : at'[q] = "manifest" <=> at[q] = "manifest"
    OBVIOUS
  <2>2. \A q \in Proc : at'[q] \in {"number", "rename", "manifest"} =>
          \/ at[q] \in {"number", "rename", "manifest"} /\ loc'[q].segments = loc[q].segments
          \/ loc'[q].segments = manifest
    OBVIOUS
  <2>3. \A q \in Proc : at'[q] \in {"rename", "manifest"} =>
          \/ at[q] \in {"rename", "manifest"} /\ loc'[q].segNum = loc[q].segNum
          \/ loc'[q].segNum = Len(manifest) + 1
    OBVIOUS
  <2> QED BY <2>1, <2>2, <2>3, NumberedStays DEF Kept
<1> QED BY <1>1, <1>2 DEF Kept

LEMMA StartStep ==
  ASSUME ProcInv, NEW p \in Proc, Start(p)
  PROVE  ProcInv'
<1> DEFINE m == [seq |-> manifestState(Disk).offset, prevHash |-> manifestState(Disk).head]
<1>1. /\ Go(p, "off", "resume") /\ alone' = (alone /\ \A q \in Proc : at[q] = "off")
      /\ mem' = [mem EXCEPT ![p] = m] /\ UNCHANGED <<files, loc, vouched>>
  BY DEF Start
<1>2. /\ Control' /\ (Ordered' => Ordered)
      /\ at[p] = "off" /\ at'[p] = "resume" /\ \A q \in Proc : q # p => at'[q] = at[q]
  BY <1>1, ControlStep DEF ProcInv, Steps, Rotating
<1> SUFFICES ASSUME Kept
             PROVE  Kept'
  BY <1>2 DEF ProcInv
<1>3. m \in Memory
  BY DiskTypes, ManifestStateType DEF Kept, Memory
<1> HIDE DEF m
<1>4. mem' \in [Proc -> Memory] /\ loc' \in [Proc -> Locals]
  BY <1>1, <1>3 DEF Kept, ThreadTypes
<1>5. FileTypes' /\ HeldInv' /\ lines' = lines /\ UNCHANGED <<segFile, manifest>>
  BY <1>1, HeldStays DEF Kept, files
<1> QED BY <1>1, <1>2, <1>4, <1>5, KeptStep

LEMMA ResumeStep ==
  ASSUME ProcInv, NEW p \in Proc, Resume(p)
  PROVE  ProcInv'
<1> DEFINE m == [seq |-> mem[p].seq + Len(Disk.active),
                 prevHash |-> IF Disk.active = << >> THEN mem[p].prevHash
                              ELSE Last(Disk.active).rec.hash]
<1>1. /\ Go(p, "resume", "ready") /\ OpenActive /\ mem' = [mem EXCEPT ![p] = m]
      /\ UNCHANGED <<segFile, manifest, loc, vouched, alone>>
  BY DEF Resume
<1>2. /\ Control' /\ (Ordered' => Ordered)
      /\ at[p] = "resume" /\ at'[p] = "ready" /\ \A q \in Proc : q # p => at'[q] = at[q]
  BY <1>1, ControlStep DEF ProcInv, Steps, Rotating
<1> SUFFICES ASSUME Kept
             PROVE  Kept'
  BY <1>2 DEF ProcInv
<1>3. m \in Memory
  <2>1. Disk.active \in Seq(Line) /\ Len(Disk.active) \in Nat
    BY DiskTypes, LenProperties DEF Kept, DiskType
  <2>2. mem[p] \in Memory
    BY DEF Kept, ThreadTypes
  <2>3. Disk.active # << >> => Last(Disk.active).rec.hash \in Hash
    <3>1. Disk.active # << >> => Last(Disk.active) \in Line
      BY <2>1, EmptySeq, ElementOfSeq DEF Last
    <3> QED BY <3>1 DEF Line, Record
  <2> QED BY <2>1, <2>2, <2>3 DEF Memory
<1> HIDE DEF m
<1>4. mem' \in [Proc -> Memory] /\ loc' \in [Proc -> Locals]
  BY <1>1, <1>3 DEF Kept, ThreadTypes
<1>5. FileTypes' /\ HeldInv' /\ DOMAIN lines \subseteq DOMAIN lines'
  BY <1>1, HeldOpens DEF Kept
<1> QED BY <1>1, <1>2, <1>4, <1>5, KeptStep

LEMMA ExitStep ==
  ASSUME ProcInv, NEW p \in Proc, Exit(p)
  PROVE  ProcInv'
<1> DEFINE m == [seq |-> 0, prevHash |-> Genesis]
<1>1. /\ Go(p, "ready", "off") /\ mem' = [mem EXCEPT ![p] = m]
      /\ UNCHANGED <<files, loc, vouched, alone>>
  BY DEF Exit
<1>2. /\ Control' /\ (Ordered' => Ordered)
      /\ at[p] = "ready" /\ at'[p] = "off" /\ \A q \in Proc : q # p => at'[q] = at[q]
  BY <1>1, ControlStep DEF ProcInv, Steps, Rotating
<1> SUFFICES ASSUME Kept
             PROVE  Kept'
  BY <1>2 DEF ProcInv
<1>3. m \in Memory
  BY DEF Memory, Genesis, Hash
<1> HIDE DEF m
<1>4. mem' \in [Proc -> Memory] /\ loc' \in [Proc -> Locals]
  BY <1>1, <1>3 DEF Kept, ThreadTypes
<1>5. FileTypes' /\ HeldInv' /\ lines' = lines /\ UNCHANGED <<segFile, manifest>>
  BY <1>1, HeldStays DEF Kept, files
<1> QED BY <1>1, <1>2, <1>4, <1>5, KeptStep

LEMMA EmitOpenStep ==
  ASSUME ProcInv, NEW p \in Proc, EmitOpen(p)
  PROVE  ProcInv'
<1>1. /\ Go(p, "ready", "write") /\ OpenActive
      /\ UNCHANGED <<segFile, manifest, mem, vouched, alone>>
  BY DEF EmitOpen
<1>2. /\ Control' /\ (Ordered' => Ordered)
      /\ at[p] = "ready" /\ at'[p] = "write" /\ \A q \in Proc : q # p => at'[q] = at[q]
  BY <1>1, ControlStep DEF ProcInv, Steps, Rotating
<1> SUFFICES ASSUME Kept
             PROVE  Kept'
  BY <1>2 DEF ProcInv
<1>3. PICK e \in Event :
        loc' = [loc EXCEPT ![p] = [NoLocals EXCEPT !.file = activeFile', !.event = e]]
  BY DEF EmitOpen
<1>4. /\ FileTypes' /\ HeldInv' /\ DOMAIN lines \subseteq DOMAIN lines'
      /\ activeFile' \in DOMAIN lines'
  BY <1>1, HeldOpens DEF Kept
<1> DEFINE l == [NoLocals EXCEPT !.file = activeFile', !.event = e]
<1>5. l \in Locals /\ l.file = activeFile' /\ l.event = e
  <2>1. activeFile' \in Nat
    BY <1>4, LenProperties DEF FileTypes
  <2> DEFINE f == activeFile'
  <2> HIDE DEF f
  <2>2. /\ [NoLocals EXCEPT !.file = f, !.event = e] \in Locals
        /\ [NoLocals EXCEPT !.file = f, !.event = e].file = f
        /\ [NoLocals EXCEPT !.file = f, !.event = e].event = e
    <3>1. f \in Nat
      BY <2>1 DEF f
    <3> QED BY <3>1, NoLocalsType DEF Locals
  <2> QED BY <2>2 DEF f
<1> HIDE DEF l
<1>6. loc' = [loc EXCEPT ![p] = l]
  BY <1>3 DEF l
<1>7. /\ loc' \in [Proc -> Locals] /\ loc'[p] = l /\ mem' \in [Proc -> Memory]
      /\ \A q \in Proc : q # p => loc'[q] = loc[q]
  BY <1>1, <1>5, <1>6 DEF Kept, ThreadTypes
<1> QED BY <1>1, <1>2, <1>4, <1>5, <1>7, KeptStep

LEMMA EmitWriteStep ==
  ASSUME ProcInv, NEW p \in Proc, EmitWrite(p)
  PROVE  ProcInv'
<1> DEFINE rec == NewRecord(mem[p].seq, mem[p].prevHash, loc[p].event)
           m == [seq |-> mem[p].seq + 1, prevHash |-> rec.hash]
<1>1. /\ Go(p, "write", "ready") /\ loc' = [loc EXCEPT ![p] = NoLocals]
      /\ lines' = [lines EXCEPT ![loc[p].file] = AppendLine(@, Whole(rec))]
      /\ mem' = [mem EXCEPT ![p] = m] /\ vouched' = vouched \cup {rec.hash}
      /\ UNCHANGED <<activeFile, segFile, manifest, alone>>
  BY DEF EmitWrite, Done
<1>2. /\ Control' /\ (Ordered' => Ordered)
      /\ at[p] = "write" /\ at'[p] = "ready" /\ \A q \in Proc : q # p => at'[q] = at[q]
  BY <1>1, ControlStep DEF ProcInv, Steps, Rotating
<1> SUFFICES ASSUME Kept
             PROVE  Kept'
  BY <1>2 DEF ProcInv
<1>3. /\ mem[p].seq \in Nat /\ mem[p].prevHash \in Hash
      /\ loc[p].event \in Event /\ loc[p].file \in DOMAIN lines
  BY <1>2 DEF Kept, ThreadTypes, Memory
<1>4. rec \in Record /\ rec.hash \in Hash
  BY <1>3, NewRecordType
<1> HIDE DEF rec
<1>5. m \in Memory
  BY <1>3, <1>4 DEF Memory
<1> HIDE DEF m
<1>6. /\ loc' \in [Proc -> Locals] /\ mem' \in [Proc -> Memory]
      /\ \A q \in Proc : q # p => loc'[q] = loc[q]
  BY <1>1, <1>5, NoLocalsType DEF Kept, ThreadTypes
<1>7. FileTypes' /\ HeldInv' /\ DOMAIN lines' = DOMAIN lines
  BY <1>1, <1>3, <1>4, HeldWrites DEF Kept
<1> QED BY <1>1, <1>2, <1>6, <1>7, KeptStep

LEMMA RotateStartStep ==
  ASSUME ProcInv, NEW p \in Proc, RotateStart(p)
  PROVE  ProcInv'
<1>1. UNCHANGED <<files, mem, vouched, alone>> /\ p \in Rotators
  BY DEF RotateStart
<1>2. PICK to \in {"walk", "ready"} :
        /\ Go(p, "ready", to)
        /\ \/ loc' = [loc EXCEPT ![p].offset = manifestState(Disk).offset,
                                 ![p].head = manifestState(Disk).head]
           \/ loc' = [loc EXCEPT ![p] = NoLocals]
  BY DEF RotateStart, Done
<1>3. /\ Control' /\ (Ordered' => Ordered)
      /\ at[p] = "ready" /\ at'[p] = to /\ \A q \in Proc : q # p => at'[q] = at[q]
  BY <1>1, <1>2, ControlStep DEF ProcInv, Steps, Rotating
<1> SUFFICES ASSUME Kept
             PROVE  Kept'
  BY <1>3 DEF ProcInv
<1>4. manifestState(Disk).offset \in Nat /\ manifestState(Disk).head \in Hash
  BY DiskTypes, ManifestStateType DEF Kept
<1>5. loc' \in [Proc -> Locals] /\ \A q \in Proc : q # p => loc'[q] = loc[q]
  <2>1. CASE loc' = [loc EXCEPT ![p] = NoLocals]
    BY <2>1, NoLocalsType DEF Kept, ThreadTypes
  <2>2. CASE loc' = [loc EXCEPT ![p].offset = manifestState(Disk).offset,
                                ![p].head = manifestState(Disk).head]
    <3> DEFINE v == manifestState(Disk).offset
               w == manifestState(Disk).head
    <3>1. loc' = [loc EXCEPT ![p].offset = v, ![p].head = w] /\ v \in Nat /\ w \in Hash
      BY <1>4, <2>2
    <3>2. loc \in [Proc -> Locals] /\ loc[p] \in Locals
      BY DEF Kept, ThreadTypes
    <3> HIDE DEF v, w
    <3>3. [loc[p] EXCEPT !.offset = v, !.head = w] \in Locals
      BY <3>1, <3>2 DEF Locals
    <3>4. loc' = [loc EXCEPT ![p] = [loc[p] EXCEPT !.offset = v, !.head = w]]
      BY <3>1, <3>2
    <3> QED BY <3>2, <3>3, <3>4
  <2> QED BY <1>2, <2>1, <2>2
<1>6. FileTypes' /\ HeldInv' /\ lines' = lines /\ UNCHANGED <<segFile, manifest>>
  BY <1>1, HeldStays DEF Kept, files
<1>7. mem' \in [Proc -> Memory]
  BY <1>1 DEF Kept, ThreadTypes
<1> QED BY <1>2, <1>3, <1>5, <1>6, <1>7, KeptStep

LEMMA RotateWalkStep ==
  ASSUME ProcInv, NEW p \in Proc, RotateWalk(p)
  PROVE  ProcInv'
<1> DEFINE state == walkActive(Disk, loc[p].head, loc[p].offset)
<1>1. UNCHANGED <<files, mem, vouched, alone>>
  BY DEF RotateWalk
<1>2. PICK to \in {"index", "ready"} :
        /\ Go(p, "walk", to)
        /\ \/ loc' = [loc EXCEPT ![p].last_seq = state.last_seq, ![p].root = state.root_hash]
           \/ loc' = [loc EXCEPT ![p] = NoLocals]
  BY DEF RotateWalk, Done
<1> HIDE DEF state
<1>3. /\ Control' /\ (Ordered' => Ordered)
      /\ at[p] = "walk" /\ at'[p] = to /\ \A q \in Proc : q # p => at'[q] = at[q]
  BY <1>1, <1>2, ControlStep DEF ProcInv, Steps, Rotating
<1> SUFFICES ASSUME Kept
             PROVE  Kept'
  BY <1>3 DEF ProcInv
<1>4. state.last_seq \in Nat \cup {-1} /\ state.root_hash \in Hash
  <2>1. loc[p].head \in Hash /\ loc[p].offset \in Nat
    BY DEF Kept, ThreadTypes, Locals
  <2>2. StateType(state)
    BY <2>1, DiskTypes, WalkActiveType DEF Kept, state
  <2> QED BY <2>2 DEF StateType
<1>5. loc' \in [Proc -> Locals] /\ \A q \in Proc : q # p => loc'[q] = loc[q]
  <2>1. CASE loc' = [loc EXCEPT ![p] = NoLocals]
    BY <2>1, NoLocalsType DEF Kept, ThreadTypes
  <2>2. CASE loc' = [loc EXCEPT ![p].last_seq = state.last_seq, ![p].root = state.root_hash]
    <3> DEFINE v == state.last_seq
               w == state.root_hash
    <3>1. loc' = [loc EXCEPT ![p].last_seq = v, ![p].root = w] /\ v \in Nat \cup {-1} /\ w \in Hash
      BY <1>4, <2>2
    <3>2. loc \in [Proc -> Locals] /\ loc[p] \in Locals
      BY DEF Kept, ThreadTypes
    <3> HIDE DEF v, w
    <3>3. [loc[p] EXCEPT !.last_seq = v, !.root = w] \in Locals
      BY <3>1, <3>2 DEF Locals
    <3>4. loc' = [loc EXCEPT ![p] = [loc[p] EXCEPT !.last_seq = v, !.root = w]]
      BY <3>1, <3>2
    <3> QED BY <3>2, <3>3, <3>4
  <2> QED BY <1>2, <2>1, <2>2
<1>6. FileTypes' /\ HeldInv' /\ lines' = lines /\ UNCHANGED <<segFile, manifest>>
  BY <1>1, HeldStays DEF Kept, files
<1>7. mem' \in [Proc -> Memory]
  BY <1>1 DEF Kept, ThreadTypes
<1> QED BY <1>2, <1>3, <1>5, <1>6, <1>7, KeptStep

LEMMA RotateIndexStep ==
  ASSUME ProcInv, NEW p \in Proc, RotateIndex(p)
  PROVE  ProcInv'
<1>1. /\ Go(p, "index", "number") /\ loc' = [loc EXCEPT ![p].segments = manifest]
      /\ UNCHANGED <<files, mem, vouched, alone>>
  BY DEF RotateIndex
<1>2. /\ Control' /\ (Ordered' => Ordered)
      /\ at[p] = "index" /\ at'[p] = "number" /\ \A q \in Proc : q # p => at'[q] = at[q]
  BY <1>1, ControlStep DEF ProcInv, Steps, Rotating
<1> SUFFICES ASSUME Kept
             PROVE  Kept'
  BY <1>2 DEF ProcInv
<1>3. manifest \in Seq(Entry) /\ loc \in [Proc -> Locals]
  BY DEF Kept, ThreadTypes, FileTypes
<1>4. /\ loc' \in [Proc -> Locals] /\ \A q \in Proc : q # p => loc'[q] = loc[q]
      /\ loc'[p].segments = manifest
  BY <1>1, <1>3 DEF Locals
<1>5. FileTypes' /\ HeldInv' /\ lines' = lines /\ UNCHANGED <<segFile, manifest>>
  BY <1>1, HeldStays DEF Kept, files
<1>6. mem' \in [Proc -> Memory]
  BY <1>1 DEF Kept, ThreadTypes
<1> QED BY <1>1, <1>2, <1>4, <1>5, <1>6, KeptStep

\* Nobody is between a rename and its manifest, so the next number is the manifest's.
LEMMA RotateNumberStep ==
  ASSUME ProcInv, NEW p \in Proc, RotateNumber(p)
  PROVE  ProcInv'
<1> DEFINE n == highestSegmentOnDisk(segFile) + 1
<1>1. /\ Go(p, "number", "rename") /\ loc' = [loc EXCEPT ![p].segNum = n]
      /\ UNCHANGED <<files, mem, vouched, alone>>
  BY DEF RotateNumber
<1>2. /\ Control' /\ (Ordered' => Ordered)
      /\ at[p] = "number" /\ at'[p] = "rename" /\ \A q \in Proc : q # p => at'[q] = at[q]
  BY <1>1, ControlStep DEF ProcInv, Steps, Rotating
<1> SUFFICES ASSUME Kept, Ordered
             PROVE  Kept'
  BY <1>2 DEF ProcInv
<1>3. \A q \in Proc : at[q] # "manifest"
  <2> SUFFICES ASSUME NEW q \in Proc, at[q] = "manifest"
               PROVE  FALSE
    OBVIOUS
  <2>1. p = q
    BY <1>2, RotationsApart DEF ProcInv, Rotating
  <2> QED BY <1>2, <2>1
<1>4. Len(segFile) = Len(manifest) /\ Len(manifest) \in Nat
  <2>1. Len(segFile) = Len(manifest) + 0
    BY <1>3 DEF Kept, Numbered
  <2>2. Len(manifest) \in Nat
    BY LenProperties DEF Kept, FileTypes
  <2> QED BY <2>1, <2>2
<1>5. n = Len(manifest) + 1 /\ n \in Nat
  BY <1>4, HighestIsLen DEF Kept, FileTypes
<1> HIDE DEF n
<1>6. /\ loc' \in [Proc -> Locals] /\ \A q \in Proc : q # p => loc'[q] = loc[q]
      /\ loc'[p].segments = loc[p].segments /\ loc'[p].segNum = n
  <2> DEFINE l == [loc[p] EXCEPT !.segNum = n]
  <2>1. loc \in [Proc -> Locals] /\ loc[p] \in Locals
    BY DEF Kept, ThreadTypes
  <2>2. l \in Locals /\ l.segments = loc[p].segments /\ l.segNum = n
    BY <1>5, <2>1 DEF Locals
  <2>3. loc' = [loc EXCEPT ![p] = l]
    BY <1>1, <2>1
  <2> HIDE DEF l
  <2> QED BY <2>1, <2>2, <2>3
<1>7. loc[p].segments = manifest
  BY <1>2 DEF Kept, Numbered
<1>8. FileTypes' /\ HeldInv' /\ lines' = lines /\ UNCHANGED <<segFile, manifest>>
  BY <1>1, HeldStays DEF Kept, files
<1>9. mem' \in [Proc -> Memory]
  BY <1>1 DEF Kept, ThreadTypes
<1> QED BY <1>1, <1>2, <1>5, <1>6, <1>7, <1>8, <1>9, KeptStep

LEMMA RotateFreshStep ==
  ASSUME ProcInv, NEW p \in Proc, RotateFresh(p)
  PROVE  ProcInv'
<1>1. /\ Go(p, "fresh", "ready") /\ OpenActive /\ loc' = [loc EXCEPT ![p] = NoLocals]
      /\ UNCHANGED <<segFile, manifest, mem, vouched, alone>>
  BY DEF RotateFresh, Done
<1>2. /\ Control' /\ (Ordered' => Ordered)
      /\ at[p] = "fresh" /\ at'[p] = "ready" /\ \A q \in Proc : q # p => at'[q] = at[q]
  BY <1>1, ControlStep DEF ProcInv, Steps, Rotating
<1> SUFFICES ASSUME Kept
             PROVE  Kept'
  BY <1>2 DEF ProcInv
<1>3. /\ loc' \in [Proc -> Locals] /\ mem' \in [Proc -> Memory]
      /\ \A q \in Proc : q # p => loc'[q] = loc[q]
  BY <1>1, NoLocalsType DEF Kept, ThreadTypes
<1>4. FileTypes' /\ HeldInv' /\ DOMAIN lines \subseteq DOMAIN lines'
  BY <1>1, HeldOpens DEF Kept
<1> QED BY <1>1, <1>2, <1>3, <1>4, KeptStep

\* What the rename finds under the number it has looked up.
LEMMA Renames ==
  ASSUME Kept, NEW p \in Proc, RotateRename(p), at[p] = "rename", activeFile # 0
  PROVE  /\ Go(p, "rename", "manifest") /\ activeFile' = 0
         /\ loc[p].segNum = Len(manifest) + 1 /\ loc[p].segments = manifest
         /\ UNCHANGED <<lines, manifest, mem, loc, vouched, alone>>
         /\ activeFile \in DOMAIN lines
         /\ segFile' = [n \in DOMAIN segFile \cup {loc[p].segNum} |->
                          IF n = loc[p].segNum THEN activeFile ELSE segFile[n]]
<1>1. activeFile \in DOMAIN lines
  BY LenProperties DEF Kept, FileTypes
<1> QED BY <1>1 DEF RotateRename, Kept, Numbered

LEMMA RotateRenameStep ==
  ASSUME ProcInv, NEW p \in Proc, RotateRename(p)
  PROVE  ProcInv'
<1>1. UNCHANGED <<lines, manifest, mem, vouched, alone>> /\ at[p] = "rename"
  BY DEF RotateRename, Done, Go
<1>2. PICK to \in {"manifest", "ready"} : Go(p, "rename", to)
  BY DEF RotateRename, Done
<1>3. /\ Control' /\ (Ordered' => Ordered)
      /\ at'[p] = to /\ \A q \in Proc : q # p => at'[q] = at[q]
  BY <1>1, <1>2, ControlStep DEF ProcInv, Steps, Rotating
<1> SUFFICES ASSUME Kept, Ordered
             PROVE  Kept'
  BY <1>3 DEF ProcInv
<1>4. CASE activeFile = 0
  <2>1. /\ Go(p, "rename", "ready") /\ loc' = [loc EXCEPT ![p] = NoLocals]
        /\ UNCHANGED <<files, vouched>>
    BY <1>1, <1>4 DEF RotateRename, Done, files
  <2>2. at'[p] = "ready"
    BY <2>1 DEF Go, ProcInv, Control
  <2>3. /\ loc' \in [Proc -> Locals] /\ mem' \in [Proc -> Memory]
        /\ \A q \in Proc : q # p => loc'[q] = loc[q]
    BY <1>1, <2>1, NoLocalsType DEF Kept, ThreadTypes
  <2>4. FileTypes' /\ HeldInv' /\ lines' = lines /\ UNCHANGED <<segFile, manifest>>
    BY <2>1, HeldStays DEF Kept, files
  <2> QED BY <1>1, <1>3, <2>2, <2>3, <2>4, KeptStep
<1>5. CASE activeFile # 0
  <2>1. /\ Go(p, "rename", "manifest") /\ activeFile' = 0
        /\ loc[p].segNum = Len(manifest) + 1 /\ loc[p].segments = manifest
        /\ loc' = loc /\ activeFile \in DOMAIN lines
        /\ segFile' = [n \in DOMAIN segFile \cup {loc[p].segNum} |->
                         IF n = loc[p].segNum THEN activeFile ELSE segFile[n]]
    BY <1>1, <1>5, Renames
  <2>2. at'[p] = "manifest"
    BY <2>1 DEF Go, ProcInv, Control
  <2>3. \A q \in Proc : at[q] # "manifest"
    <3> SUFFICES ASSUME NEW q \in Proc, at[q] = "manifest"
                 PROVE  FALSE
      OBVIOUS
    <3>1. p = q
      BY <1>1, RotationsApart DEF ProcInv, Rotating
    <3> QED BY <1>1, <3>1
  <2>4. Len(segFile) = Len(manifest) /\ Len(manifest) \in Nat /\ segFile \in Seq(Nat)
    <3>1. Len(segFile) = Len(manifest) + 0
      BY <2>3 DEF Kept, Numbered
    <3>2. Len(manifest) \in Nat /\ segFile \in Seq(Nat)
      BY LenProperties DEF Kept, FileTypes
    <3> QED BY <3>1, <3>2
  <2>5. activeFile \in Nat
    BY <2>1, LenProperties DEF Kept, FileTypes
  <2>6. segFile' = Append(segFile, activeFile)
    <3> DEFINE n == loc[p].segNum
    <3>1. n = Len(segFile) + 1 /\ segFile' = [k \in DOMAIN segFile \cup {n} |-> IF k = n THEN activeFile ELSE segFile[k]]
      BY <2>1, <2>4
    <3> HIDE DEF n
    <3> QED BY <2>4, <2>5, <3>1, RenameAppends
  <2>7. /\ segFile' \in Seq(Nat) /\ Len(segFile') = Len(segFile) + 1
        /\ segFile'[Len(segFile) + 1] = activeFile
        /\ \A k \in 1..Len(segFile) : segFile'[k] = segFile[k]
    BY <2>4, <2>5, <2>6, AppendProperties
  <2>8. DOMAIN segFile = 1..Len(segFile) /\ DOMAIN segFile' = 1..(Len(segFile) + 1)
    BY <2>4, <2>7, LenProperties
  <2>9. FileTypes'
    <3>1. \A k \in DOMAIN segFile' : segFile'[k] \in DOMAIN lines
      BY <2>1, <2>4, <2>7, <2>8 DEF Kept, FileTypes
    <3>2. activeFile' \in 0..Len(lines')
      BY <1>1, <2>1, LenProperties DEF Kept, FileTypes
    <3> QED BY <1>1, <2>7, <3>1, <3>2 DEF Kept, FileTypes
  <2>10. HeldInv'
    <3>1. Reachable'
      <4> SUFFICES ASSUME NEW f \in DOMAIN lines
                   PROVE  \E k \in DOMAIN segFile' : segFile'[k] = f
        BY <1>1 DEF Reachable
      <4>1. CASE f = activeFile
        BY <2>4, <2>7, <2>8, <4>1
      <4>2. CASE \E k \in DOMAIN segFile : segFile[k] = f
        BY <2>4, <2>7, <2>8, <4>2
      <4> QED BY <4>1, <4>2 DEF Kept, HeldInv, Reachable
    <3>2. VouchedAreHeld' /\ FilesLink' /\ ManifestLinks'
      BY <1>1 DEF Kept, HeldInv, VouchedAreHeld, InFiles, InManifest, FilesLink,
                  ManifestLinks, LinkedUp
    <3> QED BY <3>1, <3>2 DEF HeldInv
  <2>11. ThreadTypes'
    <3>1. \A q \in Proc : at'[q] = "write" => at[q] = "write"
      BY <1>3, <2>2
    <3> QED BY <1>1, <2>1, <3>1 DEF Kept, ThreadTypes
  <2>12. Numbered'
    <3>1. \A i \in DOMAIN manifest' : manifest'[i].segment = i
      BY <1>1 DEF Kept, Numbered
    <3>2. Len(segFile') = Len(manifest') + IF \E q \in Proc : at'[q] = "manifest" THEN 1 ELSE 0
      BY <1>1, <2>2, <2>4, <2>7
    <3>3. \A q \in Proc : at'[q] \in {"number", "rename", "manifest"} =>
            at[q] \in {"number", "rename", "manifest"}
      BY <1>1, <1>3
    <3>4. \A q \in Proc : at'[q] \in {"rename", "manifest"} => at[q] \in {"rename", "manifest"}
      BY <1>1, <1>3
    <3>5. \A q \in Proc : at'[q] \in {"number", "rename", "manifest"} => loc'[q].segments = manifest'
      BY <1>1, <2>1, <3>3 DEF Kept, Numbered
    <3>6. \A q \in Proc : at'[q] \in {"rename", "manifest"} => loc'[q].segNum = Len(manifest') + 1
      BY <1>1, <2>1, <3>4 DEF Kept, Numbered
    <3> QED BY <3>1, <3>2, <3>5, <3>6 DEF Numbered
  <2> QED BY <2>9, <2>10, <2>11, <2>12 DEF Kept
<1> QED BY <1>4, <1>5

\* The entry that RotateManifest appends.
NewEntry(p) ==
  [segment |-> loc[p].segNum, first_seq |-> loc[p].offset, last_seq |-> loc[p].last_seq,
   start_prev_hash |-> loc[p].head, end_hash |-> loc[p].root]

LEMMA Lists ==
  ASSUME ProcInv, Kept, Ordered, NEW p \in Proc, RotateManifest(p)
  PROVE  /\ Go(p, "manifest", "fresh") /\ at[p] = "manifest"
         /\ UNCHANGED <<lines, activeFile, segFile, mem, loc, alone>>
         /\ manifest' = Append(manifest, NewEntry(p)) /\ vouched' = vouched \cup {loc[p].root}
         /\ NewEntry(p) \in Entry /\ NewEntry(p).segment = Len(manifest) + 1
         /\ manifest \in Seq(Entry) /\ manifest' \in Seq(Entry)
         /\ Len(manifest) \in Nat /\ DOMAIN manifest = 1..Len(manifest)
         /\ Len(manifest') = Len(manifest) + 1 /\ DOMAIN manifest' = 1..(Len(manifest) + 1)
         /\ manifest'[Len(manifest) + 1] = NewEntry(p)
         /\ \A i \in 1..Len(manifest) : manifest'[i] = manifest[i]
         /\ Len(segFile) = Len(manifest) + 1
<1>1. /\ Go(p, "manifest", "fresh") /\ vouched' = vouched \cup {loc[p].root}
      /\ manifest' = Append(loc[p].segments, NewEntry(p))
      /\ UNCHANGED <<lines, activeFile, segFile, mem, loc, alone>>
  BY DEF RotateManifest, NewEntry
<1>2. at[p] = "manifest"
  BY <1>1 DEF Go
<1>3. /\ loc[p].segments = manifest /\ loc[p].segNum = Len(manifest) + 1
      /\ Len(segFile) = Len(manifest) + 1
  BY <1>2 DEF Kept, Numbered
<1>4. /\ manifest \in Seq(Entry) /\ Len(manifest) \in Nat /\ DOMAIN manifest = 1..Len(manifest)
  BY LenProperties DEF Kept, FileTypes
<1>5. NewEntry(p) \in Entry /\ NewEntry(p).segment = Len(manifest) + 1
  BY <1>3, <1>4 DEF NewEntry, Entry, Kept, ThreadTypes, Locals
<1>6. manifest' = Append(manifest, NewEntry(p))
  BY <1>1, <1>3
<1>7. /\ manifest' \in Seq(Entry) /\ Len(manifest') = Len(manifest) + 1
      /\ manifest'[Len(manifest) + 1] = NewEntry(p)
      /\ \A i \in 1..Len(manifest) : manifest'[i] = manifest[i]
  BY <1>4, <1>5, <1>6, AppendProperties
<1>8. DOMAIN manifest' = 1..(Len(manifest) + 1)
  BY <1>7, LenProperties
<1> QED BY <1>1, <1>2, <1>3, <1>4, <1>5, <1>6, <1>7, <1>8

LEMMA RotateManifestStep ==
  ASSUME ProcInv, NEW p \in Proc, RotateManifest(p)
  PROVE  ProcInv'
<1>1. Go(p, "manifest", "fresh") /\ alone' = alone
  BY DEF RotateManifest
<1>2. /\ Control' /\ (Ordered' => Ordered) /\ at[p] = "manifest"
      /\ at'[p] = "fresh" /\ \A q \in Proc : q # p => at'[q] = at[q]
  BY <1>1, ControlStep DEF ProcInv, Steps, Rotating
<1> SUFFICES ASSUME Kept, Ordered
             PROVE  Kept'
  BY <1>2 DEF ProcInv
<1> DEFINE n == Len(manifest)
<1>3. /\ UNCHANGED <<lines, activeFile, segFile, mem, loc>>
      /\ manifest' = Append(manifest, NewEntry(p)) /\ vouched' = vouched \cup {loc[p].root}
      /\ NewEntry(p) \in Entry /\ NewEntry(p).segment = n + 1
      /\ manifest \in Seq(Entry) /\ manifest' \in Seq(Entry)
      /\ n \in Nat /\ DOMAIN manifest = 1..n
      /\ Len(manifest') = n + 1 /\ DOMAIN manifest' = 1..(n + 1)
      /\ manifest'[n + 1] = NewEntry(p) /\ \A i \in 1..n : manifest'[i] = manifest[i]
      /\ Len(segFile) = n + 1
  BY Lists
<1> HIDE DEF n
<1>4. NewEntry(p).end_hash = loc[p].root /\ loc[p].root \in Hash
  BY DEF NewEntry, Kept, ThreadTypes, Locals
<1>5. \A q \in Proc : at'[q] \notin {"number", "rename", "manifest"}
  <2> SUFFICES ASSUME NEW q \in Proc, at'[q] \in {"number", "rename", "manifest"}
               PROVE  FALSE
    OBVIOUS
  <2>1. q # p /\ at[q] \in {"number", "rename", "manifest"}
    BY <1>2
  <2>2. p = q
    BY <1>2, <2>1, RotationsApart DEF ProcInv, Rotating
  <2> QED BY <2>1, <2>2
<1>6. FileTypes'
  BY <1>3, <1>4 DEF Kept, FileTypes
<1>7. ThreadTypes'
  <2>1. \A q \in Proc : at'[q] = "write" => at[q] = "write"
    BY <1>2
  <2> QED BY <1>3, <2>1 DEF Kept, ThreadTypes
<1>8. Numbered'
  <2>1. \A i \in 1..(n + 1) : manifest'[i].segment = i
    <3>1. \A i \in 1..n : manifest[i].segment = i
      BY <1>3 DEF Kept, Numbered
    <3> QED BY <1>3, <3>1
  <2>2. Len(segFile') = Len(manifest') + IF \E q \in Proc : at'[q] = "manifest" THEN 1 ELSE 0
    BY <1>3, <1>5
  <2> QED BY <1>3, <1>5, <2>1, <2>2 DEF Numbered
<1>9. VouchedAreHeld'
  <2>1. \A h : InFiles(h) => InFiles(h)'
    BY <1>3 DEF InFiles
  <2>2. \A h : InManifest(h) => InManifest(h)'
    BY <1>3 DEF InManifest
  <2>3. InManifest(loc[p].root)'
    BY <1>3, <1>4 DEF InManifest
  <2> QED BY <1>3, <2>1, <2>2, <2>3 DEF Kept, HeldInv, VouchedAreHeld
<1>10. ManifestLinks'
  <2> SUFFICES ASSUME LinkedUp(manifest')
               PROVE  \A i \in DOMAIN manifest' :
                        IsPrefix(manifest'[i].end_hash, manifest'[Len(manifest')].end_hash)
    BY DEF ManifestLinks, LinkedUp
  <2>1. LinkedUp(manifest) =>
          \A i \in DOMAIN manifest : IsPrefix(manifest[i].end_hash, manifest[Len(manifest)].end_hash)
    BY DEF Kept, HeldInv, ManifestLinks
  <2> QED BY <1>3, <2>1, GrownManifest
<1>11. Reachable' /\ FilesLink'
  BY <1>3 DEF Kept, HeldInv, Reachable, FilesLink
<1> QED BY <1>6, <1>7, <1>8, <1>9, <1>10, <1>11 DEF Kept, HeldInv

LEMMA ProcStutter ==
  ASSUME ProcInv, UNCHANGED processVars
  PROVE  ProcInv'
<1> USE DEF processVars
<1>1. Control' /\ (Ordered' <=> Ordered)
  BY DEF ProcInv, Control, OnlyRotatorsRotate, AloneIsOne, Ordered, OneRotator
<1> SUFFICES ASSUME Kept
             PROVE  Kept'
  BY <1>1 DEF ProcInv
<1>2. FileTypes' /\ HeldInv'
  BY HeldStays DEF Kept, files
<1>3. ThreadTypes' /\ Numbered'
  BY DEF Kept, ThreadTypes, Numbered
<1> QED BY <1>2, <1>3 DEF Kept

LEMMA ProcNext ==
  ASSUME ProcInv, [ProcessesNext]_processVars
  PROVE  ProcInv'
<1>1. CASE UNCHANGED processVars
  BY <1>1, ProcStutter
<1>2. ASSUME NEW p \in Proc, Start(p) \/ Resume(p) \/ Exit(p) \/ Operate(p)
      PROVE  ProcInv'
  <2>1. CASE Start(p) \/ Resume(p) \/ Exit(p)
    BY <2>1, StartStep, ResumeStep, ExitStep
  <2>2. CASE EmitOpen(p) \/ EmitWrite(p)
    BY <2>2, EmitOpenStep, EmitWriteStep
  <2>3. CASE RotateStart(p) \/ RotateWalk(p) \/ RotateIndex(p)
    BY <2>3, RotateStartStep, RotateWalkStep, RotateIndexStep
  <2>4. CASE RotateNumber(p) \/ RotateRename(p) \/ RotateManifest(p) \/ RotateFresh(p)
    BY <2>4, RotateNumberStep, RotateRenameStep, RotateManifestStep, RotateFreshStep
  <2> QED BY <1>2, <2>1, <2>2, <2>3, <2>4 DEF Operate
<1> QED BY <1>1, <1>2 DEF ProcessesNext

LEMMA ProcInit ==
  ASSUME ProcessesInit
  PROVE  ProcInv
<1>1. /\ lines = << >> /\ activeFile = 0 /\ segFile = << >> /\ manifest = << >>
      /\ at = [p \in Proc |-> "off"]
      /\ mem = [p \in Proc |-> [seq |-> 0, prevHash |-> Genesis]]
      /\ loc = [p \in Proc |-> NoLocals] /\ vouched = {} /\ alone = TRUE
  BY DEF ProcessesInit
<1>2. Len(<< >>) = 0 /\ DOMAIN << >> = {} /\ << >> \in Seq(Seq(WholeLine))
      /\ << >> \in Seq(Nat) /\ << >> \in Seq(Entry)
  OBVIOUS
<1>3. Control
  BY <1>1 DEF Control, Steps, Rotating, OnlyRotatorsRotate, AloneIsOne
<1>4. ThreadTypes
  <2>1. [seq |-> 0, prevHash |-> Genesis] \in Memory
    BY DEF Memory, Genesis, Hash
  <2>2. mem \in [Proc -> Memory] /\ loc \in [Proc -> Locals]
    BY <1>1, <2>1, NoLocalsType
  <2> QED BY <1>1, <2>2 DEF ThreadTypes
<1>5. FileTypes
  BY <1>1, <1>2 DEF FileTypes
<1>6. Numbered
  BY <1>1, <1>2 DEF Numbered
<1>7. HeldInv
  BY <1>1, <1>2 DEF HeldInv, Reachable, VouchedAreHeld, FilesLink, ManifestLinks
<1> QED BY <1>3, <1>4, <1>5, <1>6, <1>7 DEF ProcInv, Kept

\* As long as rotations do not overlap, segments are numbered as the manifest lists them,
\* no file is replaced, every head vouched for is in a file or in the manifest, and files
\* that link at all link everything they hold.
THEOREM ProcInvHolds == ProcessesSpec => []ProcInv
<1>1. ProcInv /\ [ProcessesNext]_processVars => ProcInv'
  BY ProcNext
<1>2. ProcessesInit => ProcInv
  BY ProcInit
<1> QED BY <1>1, <1>2, PTL DEF ProcessesSpec

-----------------------------------------------------------------------------
(* What a passing verify says *)

LEMMA QuietIsListed ==
  ASSUME ProcInv, Kept, Quiet
  PROVE  /\ Len(segFile) = Len(manifest) /\ Len(manifest) \in Nat
         /\ DOMAIN manifest = 1..Len(manifest) /\ DOMAIN segFile = 1..Len(manifest)
         /\ manifest \in Seq(Entry)
<1>1. Len(segFile) = Len(manifest) + 0
  BY DEF Quiet, Kept, Numbered
<1> QED BY <1>1, LenProperties DEF Kept, FileTypes

LEMMA ValidHoldsAll ==
  ASSUME ProcInv, Ordered, Quiet, Verdict.valid
  PROVE  ~Hides
<1> DEFINE n == Len(manifest)
           start == CarriedPrev(Disk, n + 1)
           offset == CarriedOffset(Disk, n + 1)
           root == Verdict.root_hash
<1>1. Kept
  BY DEF ProcInv
<1>2. /\ Len(segFile) = n /\ n \in Nat /\ DOMAIN manifest = 1..n /\ DOMAIN segFile = 1..n
      /\ manifest \in Seq(Entry) /\ Disk.manifest = manifest
      /\ \A i \in 1..n : manifest[i].segment = i
      /\ \A i \in 1..n : Disk.segs[i] = lines[segFile[i]] /\ segFile[i] \in DOMAIN lines
  <2>1. /\ Len(segFile) = n /\ n \in Nat /\ DOMAIN manifest = 1..n /\ DOMAIN segFile = 1..n
        /\ manifest \in Seq(Entry)
    BY <1>1, QuietIsListed
  <2>2. Disk.manifest = manifest /\ \A i \in DOMAIN segFile : Disk.segs[i] = lines[segFile[i]]
    BY DEF Disk
  <2>3. \A i \in DOMAIN manifest : manifest[i].segment = i
    BY <1>1 DEF Kept, Numbered
  <2>4. \A i \in DOMAIN segFile : segFile[i] \in DOMAIN lines
    BY <1>1 DEF Kept, FileTypes
  <2> QED BY <2>1, <2>2, <2>3, <2>4
<1>3. /\ \A i \in 1..n : EntryWalks(Disk, i)
      /\ Verdict = walkActive(Disk, start, offset)
  <2>1. \A i \in 1..n : listedSegment(Disk, i).valid
    BY <1>2, BrokenType DEF Verdict, verifyAllSegments
  <2>2. ~uncoveredSegment(Disk)
    BY <1>2, <2>1, BrokenType DEF Verdict, verifyAllSegments
  <2>3. Verdict = walkActive(Disk, start, offset)
    BY <1>2, <2>1, <2>2 DEF Verdict, verifyAllSegments
  <2> QED BY <2>1, <2>3, ValidMeansWalks
<1>4. /\ activeFile # 0 /\ activeFile \in DOMAIN lines /\ Disk.active = lines[activeFile]
      /\ Verdict = verifyChainStateFrom(lines[activeFile], start, offset)
  <2>1. Disk.hasActive /\ Verdict = verifyChainStateFrom(Disk.active, start, offset)
    BY <1>3, BrokenType DEF walkActive
  <2>2. activeFile # 0 /\ Disk.active = lines[activeFile]
    BY <2>1 DEF Disk
  <2>3. activeFile \in DOMAIN lines
    BY <1>1, <2>2, LenProperties DEF Kept, FileTypes
  <2> QED BY <2>1, <2>2, <2>3
<1>5. SoundFile(lines[activeFile], start) /\ root = HeadAfter(lines[activeFile], start)
  BY <1>4, WalkReports
<1>6. \A i \in 1..(n + 1) : CarriedPrev(Disk, i) \in Hash
  BY <1>1, <1>2, DiskTypes, CarriedType DEF Kept
<1>7. start \in Hash
  BY <1>2, <1>6
<1>8. root \in Hash
  <2>1. lines[activeFile] \in Seq(Line)
    BY <1>1, <1>4, DiskTypes, WholeFiles DEF Kept
  <2> QED BY <1>5, <1>7, <2>1, HeadAfterType
<1> HIDE DEF start, offset, root, n
<1>9. /\ IsPrefix(start, root)
      /\ \A k \in DOMAIN lines[activeFile] : IsPrefix(lines[activeFile][k].rec.hash, root)
  BY <1>1, <1>4, <1>5, <1>7 DEF Kept, HeldInv, FilesLink, Extends
<1>10. ASSUME NEW i \in 1..n
       PROVE  /\ manifest[i].end_hash \in Hash
              /\ IsPrefix(CarriedPrev(Disk, i), manifest[i].end_hash)
              /\ \A k \in DOMAIN lines[segFile[i]] :
                   IsPrefix(lines[segFile[i]][k].rec.hash, manifest[i].end_hash)
  <2>1. /\ verifyChainStateFrom(lines[segFile[i]], CarriedPrev(Disk, i), CarriedOffset(Disk, i)).valid
        /\ manifest[i].end_hash =
             verifyChainStateFrom(lines[segFile[i]], CarriedPrev(Disk, i), CarriedOffset(Disk, i)).root_hash
    BY <1>2, <1>3 DEF EntryWalks
  <2>2. /\ SoundFile(lines[segFile[i]], CarriedPrev(Disk, i))
        /\ manifest[i].end_hash = HeadAfter(lines[segFile[i]], CarriedPrev(Disk, i))
    BY <2>1, WalkReports
  <2>3. CarriedPrev(Disk, i) \in Hash /\ segFile[i] \in DOMAIN lines
    BY <1>2, <1>6
  <2>4. Extends(lines[segFile[i]], CarriedPrev(Disk, i))
    BY <1>1, <2>3 DEF Kept, HeldInv, FilesLink
  <2>5. manifest[i] \in Entry
    BY <1>2, ElementOfSeq
  <2> QED BY <2>2, <2>4, <2>5 DEF Extends, Entry
<1>11. LinkedUp(manifest)
  <2> SUFFICES ASSUME NEW i \in 1..n
               PROVE  IsPrefix(IF i = 1 THEN Genesis ELSE manifest[i-1].end_hash, manifest[i].end_hash)
    BY <1>2 DEF LinkedUp
  <2> QED BY <1>2, <1>10 DEF CarriedPrev
<1>12. ASSUME NEW i \in 1..n
       PROVE  IsPrefix(manifest[i].end_hash, root)
  <2>1. start = manifest[n].end_hash
    BY <1>2 DEF CarriedPrev, start
  <2>2. IsPrefix(manifest[i].end_hash, start)
    BY <1>1, <1>2, <1>11, <2>1 DEF Kept, HeldInv, ManifestLinks, n
  <2> QED BY <1>7, <1>8, <1>9, <1>10, <2>2, PrefixTransitive DEF Hash
<1>13. ASSUME NEW h \in vouched
       PROVE  IsPrefix(h, root)
  <2>1. CASE InManifest(h)
    BY <1>2, <1>12, <2>1 DEF InManifest
  <2>2. CASE InFiles(h)
    <3>1. PICK f \in DOMAIN lines : \E k \in DOMAIN lines[f] : lines[f][k].rec.hash = h
      BY <2>2 DEF InFiles
    <3>2. CASE f = activeFile
      BY <1>9, <3>1, <3>2
    <3>3. ASSUME NEW i \in 1..n, segFile[i] = f
          PROVE  IsPrefix(h, root)
      <4>1. IsPrefix(h, manifest[i].end_hash)
        BY <1>10, <3>1, <3>3
      <4>2. h \in Hash
        BY <1>1 DEF Kept, FileTypes
      <4> QED BY <1>8, <1>10, <1>12, <4>1, <4>2, PrefixTransitive DEF Hash
    <3> QED BY <1>1, <1>2, <3>2, <3>3 DEF Kept, HeldInv, Reachable
  <2> QED BY <1>1, <2>1, <2>2 DEF Kept, HeldInv, VouchedAreHeld
<1> QED BY <1>13 DEF Hides, root

\* With one process that rotates next to any number that write: once they are quiet, verify
\* either rejects the files or accepts a history that has every head vouched for.
THEOREM DamageNeverHides ==
  ASSUME OneRotator
  PROVE  ProcessesSpec => []DamageIsSeen
<1>1. ProcInv => DamageIsSeen
  BY ValidHoldsAll DEF DamageIsSeen, Ordered
<1> QED BY <1>1, ProcInvHolds, PTL

-----------------------------------------------------------------------------
(* Steps of a process that is alone *)

\* What a step of p has to show when nobody else has the log open.
LEMMA AloneStep ==
  ASSUME NEW p \in Proc, \A q \in Proc : q # p => at'[q] = "off",
         (ThereIsALog /\ SegmentsApart /\ ListedWalks /\ SoundFile(Disk.active, Sealed))',
         (Remembers(p) /\ Foresees(p))'
  PROVE  AloneInv'
<1>1. ASSUME NEW q \in Proc
      PROVE  (Remembers(q) /\ Foresees(q))'
  <2>1. CASE q = p
    BY <2>1
  <2>2. CASE q # p
    <3>1. at'[q] = "off"
      BY <2>2
    <3> QED BY <3>1 DEF Remembers, Foresees
  <2> QED BY <2>1, <2>2
<1> QED BY <1>1 DEF AloneInv

LEMMA OthersAreOff ==
  ASSUME Control, alone, NEW p \in Proc, at[p] # "off",
         \A q \in Proc : q # p => at'[q] = at[q]
  PROVE  \A q \in Proc : q # p => at[q] = "off" /\ at'[q] = "off"
BY DEF Control, AloneIsOne

\* The same records, under the same names.
SameRecords ==
  /\ Disk'.manifest = Disk.manifest /\ Disk'.hasManifest = Disk.hasManifest
  /\ Disk'.segs = Disk.segs /\ Disk'.active = Disk.active

LEMMA ListStays ==
  ASSUME ListedWalks, Disk'.manifest = Disk.manifest, Disk'.segs = Disk.segs,
         manifest' = manifest
  PROVE  ListedWalks'
<1> DEFINE d == Disk
           e == Disk'
<1>1. e.manifest = d.manifest /\ e.segs = d.segs
  OBVIOUS
<1> HIDE DEF d, e
<1>2. ASSUME NEW i \in DOMAIN manifest
      PROVE  /\ EntryWalks(e, i)
             /\ manifest[i].first_seq + Len(e.segs[manifest[i].segment]) = manifest[i].last_seq + 1
  <2>1. /\ EntryWalks(d, i)
        /\ manifest[i].first_seq + Len(d.segs[manifest[i].segment]) = manifest[i].last_seq + 1
    BY DEF ListedWalks, d
  <2>2. CarriedPrev(e, i) = CarriedPrev(d, i) /\ CarriedOffset(e, i) = CarriedOffset(d, i)
    BY <1>1 DEF CarriedPrev, CarriedOffset
  <2> QED BY <1>1, <2>1, <2>2 DEF EntryWalks
<1>3. ASSUME NEW i \in DOMAIN manifest
      PROVE  EntryWalks(Disk, i)'
  <2>1. EntryWalks(e, i)
    BY <1>2
  <2> QED BY ONLY <2>1 DEF e, EntryWalks, CarriedPrev, CarriedOffset
<1>4. \A i \in DOMAIN manifest :
        manifest'[i].first_seq + Len(Disk'.segs[manifest'[i].segment]) = manifest'[i].last_seq + 1
  BY <1>2 DEF e
<1> QED BY <1>3, <1>4 DEF ListedWalks

LEMMA HistoryStays ==
  ASSUME ListedWalks, SoundFile(Disk.active, Sealed), SameRecords
  PROVE  /\ ListedWalks' /\ SoundFile(Disk.active, Sealed)'
         /\ Sealed' = Sealed /\ SealedOffset' = SealedOffset /\ ChainHead' = ChainHead
<1>1. Sealed' = Sealed /\ SealedOffset' = SealedOffset
  BY DEF SameRecords, Sealed, SealedOffset, manifestState
<1>2. ChainHead' = ChainHead /\ SoundFile(Disk.active, Sealed)'
  BY <1>1 DEF SameRecords, ChainHead, HeadAfter, SoundFile, SoundLine, ExpectedPrev
<1>3. manifest' = manifest
  BY DEF SameRecords, Disk
<1>4. ListedWalks'
  BY <1>3, ListStays DEF SameRecords
<1> QED BY <1>1, <1>2, <1>4

LEMMA RecordsStay ==
  ASSUME UNCHANGED files
  PROVE  SameRecords
BY DEF files, SameRecords, Disk

LEMMA OpenStays ==
  ASSUME FileTypes, SegmentsApart, OpenActive, UNCHANGED <<segFile, manifest>>
  PROVE  SameRecords /\ SegmentsApart' /\ activeFile' # 0
<1>1. CASE activeFile # 0
  <2>1. UNCHANGED files /\ activeFile' = activeFile
    BY <1>1 DEF OpenActive, files
  <2> QED BY <1>1, <2>1, RecordsStay DEF SegmentsApart
<1>2. CASE activeFile = 0
  <2> DEFINE made == Append(lines, << >>)
             n == Len(lines)
  <2>1. lines' = made /\ activeFile' = n + 1
    BY <1>2 DEF OpenActive
  <2>2. n \in Nat /\ DOMAIN lines = 1..n /\ lines \in Seq(Seq(WholeLine))
        /\ << >> \in Seq(WholeLine)
    BY WholeFiles, LenProperties DEF FileTypes
  <2>3. made[n + 1] = << >> /\ \A f \in 1..n : made[f] = lines[f]
    BY <2>2, AppendProperties
  <2> HIDE DEF made, n
  <2>4. activeFile' # 0 /\ Disk'.active = << >> /\ Disk.active = << >>
    BY <1>2, <2>1, <2>2, <2>3 DEF Disk
  <2>5. Disk'.segs = Disk.segs
    <3>1. \A k \in DOMAIN segFile : lines'[segFile[k]] = lines[segFile[k]]
      BY <2>1, <2>2, <2>3 DEF FileTypes
    <3> QED BY <3>1 DEF Disk
  <2>6. SegmentsApart'
    BY <2>1, <2>2 DEF FileTypes, SegmentsApart
  <2>7. Disk'.manifest = Disk.manifest /\ Disk'.hasManifest = Disk.hasManifest
    BY DEF Disk
  <2> QED BY <2>4, <2>5, <2>6, <2>7 DEF SameRecords
<1> QED BY <1>1, <1>2

\* Where the manifest stops is where the walk of the segments stops.
LEMMA SealedIsCarried ==
  ASSUME FileTypes, ListedWalks
  PROVE  /\ Sealed = CarriedPrev(Disk, Len(manifest) + 1)
         /\ SealedOffset = CarriedOffset(Disk, Len(manifest) + 1)
         /\ Sealed \in Hash /\ SealedOffset \in Nat
<1>1. manifest \in Seq(Entry) /\ Len(manifest) \in Nat /\ DOMAIN manifest = 1..Len(manifest)
  BY LenProperties DEF FileTypes
<1>2. Sealed \in Hash /\ SealedOffset \in Nat
  BY DiskTypes, ManifestStateType DEF Sealed, SealedOffset
<1>3. Disk.manifest = manifest /\ (Disk.hasManifest <=> manifest # << >>)
  BY DEF Disk
<1>4. CASE manifest = << >>
  <2>1. Len(manifest) + 1 = 1
    BY <1>4
  <2> QED BY <1>2, <1>3, <1>4, <2>1 DEF Sealed, SealedOffset, manifestState, CarriedPrev, CarriedOffset
<1>5. CASE manifest # << >>
  <2>1. Len(manifest) \in DOMAIN manifest /\ Len(manifest) + 1 # 1
        /\ Len(manifest) + 1 - 1 = Len(manifest)
    BY <1>1, <1>5, EmptySeq
  <2>2. /\ manifest[Len(manifest)].segment \in DOMAIN Disk.segs
        /\ manifest[Len(manifest)].first_seq + Len(Disk.segs[manifest[Len(manifest)].segment])
             = manifest[Len(manifest)].last_seq + 1
    BY <1>3, <2>1 DEF ListedWalks, EntryWalks
  <2> QED BY <1>2, <1>3, <1>5, <2>1, <2>2
          DEF Sealed, SealedOffset, manifestState, CarriedPrev, CarriedOffset, Last
<1> QED BY <1>4, <1>5

LEMMA AloneStart ==
  ASSUME ProcInv, AloneInv, alone', NEW p \in Proc, Start(p)
  PROVE  AloneInv'
<1>1. /\ Go(p, "off", "resume") /\ alone /\ (\A q \in Proc : at[q] = "off")
      /\ UNCHANGED <<files, loc>>
      /\ mem' = [mem EXCEPT ![p] = [seq |-> SealedOffset, prevHash |-> Sealed]]
  BY DEF Start, Sealed, SealedOffset
<1>2. Kept /\ Control
  BY <1>1 DEF ProcInv, Ordered
<1>3. at'[p] = "resume" /\ \A q \in Proc : q # p => at'[q] = "off"
  BY <1>1, <1>2 DEF Go, Control
<1>4. SameRecords
  BY <1>1, RecordsStay
<1>5. /\ (ListedWalks /\ SoundFile(Disk.active, Sealed))' /\ Sealed' = Sealed
  BY <1>1, <1>4, HistoryStays DEF AloneInv
<1>6. mem'[p].prevHash = Sealed
  BY <1>1, <1>2 DEF Kept, ThreadTypes
<1>7. (ThereIsALog /\ SegmentsApart)'
  BY <1>1, <1>3 DEF ThereIsALog, SegmentsApart, AloneInv, files
<1>8. (Remembers(p) /\ Foresees(p))'
  BY <1>3, <1>5, <1>6 DEF Remembers, Foresees
<1> QED BY <1>3, <1>5, <1>7, <1>8, AloneStep

LEMMA AloneResume ==
  ASSUME ProcInv, AloneInv, alone', NEW p \in Proc, Resume(p)
  PROVE  AloneInv'
<1>1. /\ Go(p, "resume", "ready") /\ OpenActive /\ alone
      /\ UNCHANGED <<segFile, manifest, loc>>
      /\ mem' = [mem EXCEPT ![p] =
                   [seq |-> @.seq + Len(Disk.active),
                    prevHash |-> IF Disk.active = << >> THEN @.prevHash
                                 ELSE Last(Disk.active).rec.hash]]
  BY DEF Resume
<1>2. Kept /\ Control
  BY <1>1 DEF ProcInv, Ordered
<1>3. at[p] = "resume" /\ at'[p] = "ready" /\ \A q \in Proc : q # p => at'[q] = at[q]
  BY <1>1, <1>2 DEF Go, Control
<1>4. \A q \in Proc : q # p => at'[q] = "off"
  BY <1>1, <1>2, <1>3, OthersAreOff
<1>5. SameRecords /\ SegmentsApart' /\ activeFile' # 0
  BY <1>1, <1>2, OpenStays DEF AloneInv, Kept
<1>6. (ListedWalks /\ SoundFile(Disk.active, Sealed))' /\ ChainHead' = ChainHead
  BY <1>1, <1>5, HistoryStays DEF AloneInv
<1>7. mem'[p].prevHash = ChainHead
  <2>1. mem[p].prevHash = Sealed
    BY <1>1, <1>3 DEF AloneInv, Remembers
  <2> QED BY <1>1, <1>2, <2>1 DEF Kept, ThreadTypes, ChainHead, HeadAfter
<1>8. ThereIsALog'
  BY <1>5 DEF ThereIsALog
<1>9. (Remembers(p) /\ Foresees(p))'
  BY <1>3, <1>6, <1>7 DEF Remembers, Foresees
<1> QED BY <1>4, <1>5, <1>6, <1>8, <1>9, AloneStep

\* Steps that leave the files, the memory and the number of starts alone: out of the log,
\* back to ready, or on to a place of the rotation that has been prepared.
LEMMA AloneIdle ==
  ASSUME ProcInv, AloneInv, alone, NEW p \in Proc, NEW from \in Steps, NEW to \in Steps,
         Go(p, from, to), UNCHANGED <<files, starts>>,
         to \in {"off"} \/ mem' = mem,
         from \in {"ready", "walk", "index", "number"},
         to \in {"off", "ready", "walk", "index", "number", "rename"},
         Foresees(p)'
  PROVE  AloneInv'
<1>1. Kept /\ Control
  BY DEF ProcInv, Ordered
<1>2. at[p] = from /\ at'[p] = to /\ \A q \in Proc : q # p => at'[q] = at[q]
  BY <1>1 DEF Go, Control
<1>3. \A q \in Proc : q # p => at'[q] = "off" /\ at[q] = "off"
  BY <1>1, <1>2, OthersAreOff
<1>4. SameRecords
  BY RecordsStay
<1>5. (ListedWalks /\ SoundFile(Disk.active, Sealed))' /\ ChainHead' = ChainHead
  BY <1>4, HistoryStays DEF AloneInv
<1>6. ThereIsALog'
  <2>1. \A q \in Proc : at[q] \notin {"resume", "manifest", "fresh"}
    BY <1>2, <1>3
  <2>2. activeFile = 0 => starts = 0
    BY <2>1 DEF AloneInv, ThereIsALog
  <2> QED BY <2>2 DEF ThereIsALog, files
<1>7. SegmentsApart'
  BY DEF SegmentsApart, AloneInv, files
<1>8. Remembers(p)'
  <2>1. mem[p].prevHash = ChainHead
    BY <1>2 DEF AloneInv, Remembers
  <2>2. CASE to = "off"
    BY <1>2, <2>2 DEF Remembers
  <2>3. CASE mem' = mem
    BY <1>2, <1>5, <2>1, <2>3 DEF Remembers
  <2> QED BY <2>2, <2>3
<1> QED BY <1>3, <1>5, <1>6, <1>7, <1>8, AloneStep

LEMMA AloneExit ==
  ASSUME ProcInv, AloneInv, alone', NEW p \in Proc, Exit(p)
  PROVE  AloneInv'
<1>1. Go(p, "ready", "off") /\ UNCHANGED <<files, alone, starts>>
  BY DEF Exit, counts
<1>2. at'[p] = "off"
  BY <1>1 DEF Go, ProcInv, Control
<1>3. Foresees(p)'
  BY <1>2 DEF Foresees
<1> QED BY <1>1, <1>3, AloneIdle DEF Steps

LEMMA AloneRotateStart ==
  ASSUME ProcInv, AloneInv, alone', NEW p \in Proc, RotateStart(p)
  PROVE  AloneInv'
<1>1. UNCHANGED <<files, mem, alone, starts>>
  BY DEF RotateStart
<1>2. Kept /\ Control
  BY <1>1 DEF ProcInv, Ordered
<1>3. PICK to \in {"walk", "ready"} :
        /\ Go(p, "ready", to)
        /\ to = "walk" => loc' = [loc EXCEPT ![p].offset = manifestState(Disk).offset,
                                             ![p].head = manifestState(Disk).head]
  BY DEF RotateStart, Done
<1>4. at'[p] = to
  BY <1>2, <1>3 DEF Go, Control
<1>5. Sealed' = Sealed /\ SealedOffset' = SealedOffset
  BY <1>1, RecordsStay, HistoryStays DEF AloneInv
<1>6. to = "walk" => loc'[p].head = Sealed /\ loc'[p].offset = SealedOffset
  BY <1>2, <1>3 DEF Kept, ThreadTypes, Locals, Sealed, SealedOffset
<1>7. Foresees(p)'
  BY <1>4, <1>5, <1>6 DEF Foresees
<1> QED BY <1>1, <1>3, <1>7, AloneIdle DEF Steps, Rotating

LEMMA AloneRotateWalk ==
  ASSUME ProcInv, AloneInv, alone', NEW p \in Proc, RotateWalk(p)
  PROVE  AloneInv'
<1> DEFINE state == walkActive(Disk, loc[p].head, loc[p].offset)
<1>1. UNCHANGED <<files, mem, alone, starts>>
  BY DEF RotateWalk, counts
<1>2. Kept /\ Control
  BY <1>1 DEF ProcInv, Ordered
<1>3. PICK to \in {"index", "ready"} :
        /\ Go(p, "walk", to)
        /\ to = "index" =>
             /\ state.valid /\ signable(payload(state))
             /\ loc' = [loc EXCEPT ![p].last_seq = state.last_seq, ![p].root = state.root_hash]
  BY DEF RotateWalk, Done
<1>4. at[p] = "walk" /\ at'[p] = to
  BY <1>2, <1>3 DEF Go, Control
<1>5. Disk' = Disk /\ Sealed' = Sealed /\ SealedOffset' = SealedOffset
  BY <1>1 DEF files, Disk, Sealed, SealedOffset, manifestState
<1>6. loc[p].head = Sealed /\ loc[p].offset = SealedOffset
  BY <1>1, <1>4 DEF AloneInv, Foresees
<1>7. ASSUME to = "index"
      PROVE  Foresees(p)'
  <2>1. /\ Disk.hasActive
        /\ state = verifyChainStateFrom(Disk.active, loc[p].head, loc[p].offset)
    BY <1>3, <1>7, BrokenType DEF walkActive
  <2>2. activeFile # 0
    BY <2>1 DEF Disk
  <2> HIDE DEF state
  <2>3. /\ loc'[p].head = loc[p].head /\ loc'[p].offset = loc[p].offset
        /\ loc'[p].last_seq = state.last_seq /\ loc'[p].root = state.root_hash
    BY <1>2, <1>3, <1>7 DEF Kept, ThreadTypes, Locals
  <2>4. WalkStands(p, Disk.active)'
    BY <1>3, <1>5, <1>7, <2>1, <2>3 DEF WalkStands
  <2> QED BY <1>1, <1>4, <1>5, <1>6, <1>7, <2>2, <2>3, <2>4 DEF Foresees, files
<1>8. ASSUME to = "ready"
      PROVE  Foresees(p)'
  BY <1>4, <1>8 DEF Foresees
<1> QED BY <1>1, <1>3, <1>7, <1>8, AloneIdle DEF Steps, Rotating

\* What the rotation has found stays true while it reads the manifest and numbers again.
LEMMA AloneLooks ==
  ASSUME ProcInv, AloneInv, alone', NEW p \in Proc, RotateIndex(p) \/ RotateNumber(p)
  PROVE  AloneInv'
<1>1. UNCHANGED <<files, mem, alone, starts>>
  BY DEF RotateIndex, RotateNumber, counts
<1>2. Kept /\ Control
  BY <1>1 DEF ProcInv, Ordered
<1>3. PICK from \in {"index", "number"}, to \in {"number", "rename"} : Go(p, from, to)
  BY DEF RotateIndex, RotateNumber
<1>4. at[p] = from /\ at'[p] = to
  BY <1>2, <1>3 DEF Go, Control
<1>5. /\ loc'[p].head = loc[p].head /\ loc'[p].offset = loc[p].offset
      /\ loc'[p].last_seq = loc[p].last_seq /\ loc'[p].root = loc[p].root
  <2>1. loc \in [Proc -> Locals]
    BY <1>2 DEF Kept, ThreadTypes
  <2>2. CASE loc' = [loc EXCEPT ![p].segments = manifest]
    BY <2>1, <2>2 DEF Locals
  <2>3. CASE loc' = [loc EXCEPT ![p].segNum = highestSegmentOnDisk(segFile) + 1]
    BY <2>1, <2>3 DEF Locals
  <2> QED BY <2>2, <2>3 DEF RotateIndex, RotateNumber
<1>6. Disk' = Disk /\ Sealed' = Sealed /\ SealedOffset' = SealedOffset
  BY <1>1 DEF files, Disk, Sealed, SealedOffset, manifestState
<1>7. /\ loc[p].head = Sealed /\ loc[p].offset = SealedOffset
      /\ activeFile # 0 /\ WalkStands(p, Disk.active)
  BY <1>1, <1>4 DEF AloneInv, Foresees
<1>8. WalkStands(p, Disk.active)'
  BY <1>5, <1>6, <1>7 DEF WalkStands
<1>9. Foresees(p)'
  BY <1>1, <1>4, <1>5, <1>6, <1>7, <1>8 DEF Foresees, files
<1> QED BY <1>1, <1>3, <1>9, AloneIdle DEF Steps, Rotating

LEMMA AloneEmitOpen ==
  ASSUME ProcInv, AloneInv, alone', NEW p \in Proc, EmitOpen(p)
  PROVE  AloneInv'
<1>1. /\ Go(p, "ready", "write") /\ OpenActive
      /\ UNCHANGED <<segFile, manifest, mem, alone>>
  BY DEF EmitOpen
<1>2. Kept /\ Control
  BY <1>1 DEF ProcInv, Ordered
<1>3. at[p] = "ready" /\ at'[p] = "write" /\ \A q \in Proc : q # p => at'[q] = at[q]
  BY <1>1, <1>2 DEF Go, Control
<1>4. \A q \in Proc : q # p => at'[q] = "off"
  BY <1>1, <1>2, <1>3, OthersAreOff
<1>5. SameRecords /\ SegmentsApart' /\ activeFile' # 0
  BY <1>1, <1>2, OpenStays DEF AloneInv, Kept
<1>6. (ListedWalks /\ SoundFile(Disk.active, Sealed))' /\ ChainHead' = ChainHead
  BY <1>1, <1>5, HistoryStays DEF AloneInv
<1>7. loc'[p].file = activeFile'
  <2>1. PICK e \in Event :
          loc' = [loc EXCEPT ![p] = [NoLocals EXCEPT !.file = activeFile', !.event = e]]
    BY DEF EmitOpen
  <2> DEFINE f == activeFile'
  <2>2. loc' = [loc EXCEPT ![p] = [NoLocals EXCEPT !.file = f, !.event = e]]
    BY <2>1
  <2> HIDE DEF f
  <2>3. [NoLocals EXCEPT !.file = f, !.event = e].file = f
    BY DEF NoLocals
  <2>4. loc'[p].file = f
    BY <1>2, <2>2, <2>3 DEF Kept, ThreadTypes
  <2> QED BY <2>4 DEF f
<1>8. mem'[p].prevHash = ChainHead
  BY <1>1, <1>3 DEF AloneInv, Remembers
<1>9. ThereIsALog'
  BY <1>5 DEF ThereIsALog
<1>10. (Remembers(p) /\ Foresees(p))'
  BY <1>3, <1>6, <1>7, <1>8 DEF Remembers, Foresees
<1> QED BY <1>4, <1>5, <1>6, <1>9, <1>10, AloneStep

LEMMA AloneEmitWrite ==
  ASSUME TooLong = {}, ProcInv, AloneInv, alone', NEW p \in Proc, EmitWrite(p)
  PROVE  AloneInv'
<1> DEFINE rec == NewRecord(mem[p].seq, mem[p].prevHash, loc[p].event)
           grown == Append(Disk.active, Whole(rec))
<1>1. /\ Go(p, "write", "ready") /\ alone
      /\ lines' = [lines EXCEPT ![loc[p].file] = AppendLine(@, Whole(rec))]
      /\ mem' = [mem EXCEPT ![p] = [seq |-> @.seq + 1, prevHash |-> rec.hash]]
      /\ UNCHANGED <<activeFile, segFile, manifest>>
  BY DEF EmitWrite, Done
<1>2. Kept /\ Control
  BY <1>1 DEF ProcInv, Ordered
<1>3. at[p] = "write" /\ at'[p] = "ready" /\ \A q \in Proc : q # p => at'[q] = at[q]
  BY <1>1, <1>2 DEF Go, Control
<1>4. \A q \in Proc : q # p => at'[q] = "off"
  BY <1>1, <1>2, <1>3, OthersAreOff
<1>5. /\ mem[p].seq \in Nat /\ mem[p].prevHash \in Hash
      /\ loc[p].event \in Event /\ loc[p].file \in DOMAIN lines
  BY <1>2, <1>3 DEF Kept, ThreadTypes, Memory
<1>6. loc[p].file = activeFile /\ mem[p].prevHash = ChainHead
  BY <1>1, <1>3 DEF AloneInv, Foresees, Remembers
<1>7. activeFile # 0 /\ Disk.active = lines[activeFile] /\ Disk.active \in Seq(WholeLine)
  <2>1. activeFile # 0
    BY <1>2, <1>5, <1>6, LenProperties DEF Kept, FileTypes
  <2> QED BY <1>2, <2>1, DiskTypes DEF Kept, Disk
<1>8. /\ rec \in Record /\ rec.hash \in Hash /\ rec.event = loc[p].event
      /\ rec.prev_hash = ChainHead /\ rec.hash = hashRecord(rec.prev_hash, BodyOf(rec))
  <2>1. rec \in Record /\ rec.hash \in Hash
    BY <1>5, NewRecordType
  <2> QED BY <1>6, <2>1 DEF NewRecord, BodyOf
<1> HIDE DEF rec
<1>9. AppendLine(Disk.active, Whole(rec)) = grown /\ grown # << >> /\ Last(grown) = Whole(rec)
  BY <1>7, <1>8, WholeAppends
<1>10. Disk'.active = grown
  BY <1>1, <1>5, <1>6, <1>7, <1>9 DEF Disk
<1>11. /\ Disk'.segs = Disk.segs /\ Disk'.manifest = Disk.manifest
       /\ Disk'.hasManifest = Disk.hasManifest
  <2>1. \A k \in DOMAIN segFile : lines'[segFile[k]] = lines[segFile[k]]
    BY <1>1, <1>2, <1>6 DEF AloneInv, SegmentsApart, Kept, FileTypes
  <2> QED BY <1>1, <2>1 DEF Disk
<1>12. Sealed' = Sealed /\ Sealed \in Hash
  BY <1>1, <1>2, <1>11, SealedIsCarried DEF AloneInv, Kept, Sealed, manifestState
<1>13. ListedWalks'
  BY <1>1, <1>11, ListStays DEF AloneInv
<1>14. SoundFile(grown, Sealed)
  <2>1. Disk.active \in Seq(Line) /\ \A k \in DOMAIN Disk.active : Disk.active[k].nl
    <3>1. \A k \in DOMAIN Disk.active : Disk.active[k] \in WholeLine
      BY <1>7, ElementOfSeq, LenProperties
    <3> QED BY <1>7, <3>1, WholeFiles DEF WholeLine
  <2>2. SoundFile(Disk.active, Sealed) /\ rec.prev_hash = HeadAfter(Disk.active, Sealed)
    BY <1>1, <1>8 DEF AloneInv, ChainHead
  <2>3. rec.event \notin TooLong
    OBVIOUS
  <2> QED BY <1>8, <1>12, <2>1, <2>2, <2>3, SoundAppend
<1>15. ChainHead' = rec.hash
  <2>1. Last(grown).rec = rec
    BY <1>8, <1>9, WholeFiles
  <2> QED BY <1>9, <1>10, <2>1 DEF ChainHead, HeadAfter
<1>16. mem'[p].prevHash = rec.hash
  BY <1>1, <1>2 DEF Kept, ThreadTypes
<1>17. (ThereIsALog /\ SegmentsApart)'
  BY <1>1, <1>7 DEF ThereIsALog, SegmentsApart, AloneInv
<1>18. (Remembers(p) /\ Foresees(p))'
  BY <1>3, <1>15, <1>16 DEF Remembers, Foresees
<1>19. SoundFile(Disk.active, Sealed)'
  BY <1>10, <1>12, <1>14 DEF SoundFile, SoundLine, ExpectedPrev
<1> QED BY <1>4, <1>13, <1>17, <1>18, <1>19, AloneStep

LEMMA AloneRotateFresh ==
  ASSUME ProcInv, AloneInv, alone', NEW p \in Proc, RotateFresh(p)
  PROVE  AloneInv'
<1>1. /\ Go(p, "fresh", "ready") /\ OpenActive /\ alone
      /\ UNCHANGED <<segFile, manifest, mem>>
  BY DEF RotateFresh, Done
<1>2. Kept /\ Control
  BY <1>1 DEF ProcInv, Ordered
<1>3. at[p] = "fresh" /\ at'[p] = "ready" /\ \A q \in Proc : q # p => at'[q] = at[q]
  BY <1>1, <1>2 DEF Go, Control
<1>4. \A q \in Proc : q # p => at'[q] = "off"
  BY <1>1, <1>2, <1>3, OthersAreOff
<1>5. SameRecords /\ SegmentsApart' /\ activeFile' # 0
  BY <1>1, <1>2, OpenStays DEF AloneInv, Kept
<1>6. (ListedWalks /\ SoundFile(Disk.active, Sealed))' /\ ChainHead' = ChainHead
  BY <1>1, <1>5, HistoryStays DEF AloneInv
<1>7. mem'[p].prevHash = ChainHead
  BY <1>1, <1>3 DEF AloneInv, Remembers
<1>8. ThereIsALog'
  BY <1>5 DEF ThereIsALog
<1>9. (Remembers(p) /\ Foresees(p))'
  BY <1>3, <1>6, <1>7 DEF Remembers, Foresees
<1> QED BY <1>4, <1>5, <1>6, <1>8, <1>9, AloneStep

LEMMA AloneRotateRename ==
  ASSUME ProcInv, ProcInv', AloneInv, alone', NEW p \in Proc, RotateRename(p)
  PROVE  AloneInv'
<1>1. alone /\ at[p] = "rename"
  BY DEF RotateRename, Done, Go
<1>2. Kept /\ Control /\ Kept'
  BY <1>1 DEF ProcInv, Ordered
<1>3. activeFile # 0 /\ WalkStands(p, Disk.active)
      /\ loc[p].head = Sealed /\ loc[p].offset = SealedOffset /\ mem[p].prevHash = ChainHead
  BY <1>1 DEF AloneInv, Foresees, Remembers
<1>4. /\ Go(p, "rename", "manifest") /\ activeFile' = 0
      /\ loc[p].segNum = Len(manifest) + 1
      /\ UNCHANGED <<lines, manifest, mem, loc, vouched, alone>>
      /\ segFile' = [n \in DOMAIN segFile \cup {loc[p].segNum} |->
                       IF n = loc[p].segNum THEN activeFile ELSE segFile[n]]
  BY <1>1, <1>2, <1>3, Renames
<1>5. at'[p] = "manifest" /\ \A q \in Proc : q # p => at'[q] = at[q]
  BY <1>2, <1>4 DEF Go, Control
<1>6. \A q \in Proc : q # p => at'[q] = "off" /\ at[q] = "off"
  BY <1>1, <1>2, <1>5, OthersAreOff
<1>7. loc[p].segNum \notin DOMAIN segFile
  <2>1. \A q \in Proc : at[q] # "manifest"
    BY <1>1, <1>6
  <2>2. Len(segFile) = Len(manifest) + 0
    BY <1>2, <2>1 DEF Kept, Numbered
  <2>3. Len(manifest) \in Nat /\ DOMAIN segFile = 1..Len(segFile)
    BY <1>2, LenProperties DEF Kept, FileTypes
  <2> QED BY <1>4, <2>2, <2>3
<1>8. /\ Disk'.manifest = Disk.manifest /\ Disk'.hasManifest = Disk.hasManifest
      /\ Disk'.active = << >> /\ Disk.manifest = manifest
      /\ Disk'.segs[loc[p].segNum] = Disk.active
      /\ \A n \in DOMAIN Disk.segs : n \in DOMAIN Disk'.segs /\ Disk'.segs[n] = Disk.segs[n]
  BY <1>3, <1>4, <1>7 DEF Disk
<1>9. Sealed' = Sealed /\ SealedOffset' = SealedOffset
  BY <1>8 DEF Sealed, SealedOffset, manifestState
<1>10. (SoundFile(Disk.active, Sealed))'
  BY <1>8 DEF SoundFile
<1>11. ListedWalks'
  <2>1. \A i \in DOMAIN manifest : EntryWalks(Disk, i)
    BY <1>1 DEF AloneInv, ListedWalks
  <2>2. manifest \in Seq(Entry)
    BY <1>2 DEF Kept, FileTypes
  <2>3. ASSUME NEW i \in DOMAIN manifest
        PROVE  EntryWalks(Disk, i)'
    <3> DEFINE e == Disk'
    <3>1. /\ e.manifest = Disk.manifest
          /\ \A n \in DOMAIN Disk.segs : n \in DOMAIN e.segs /\ e.segs[n] = Disk.segs[n]
      BY <1>8
    <3> HIDE DEF e
    <3>2. EntryWalks(e, i)
      BY <1>8, <2>1, <2>2, <3>1, WalksStay
    <3> QED BY <3>2 DEF e, EntryWalks, CarriedPrev, CarriedOffset
  <2>4. \A i \in DOMAIN manifest : manifest[i].segment \in DOMAIN Disk.segs
    BY <1>8, <2>1 DEF EntryWalks
  <2> QED BY <1>1, <1>4, <1>8, <2>3, <2>4 DEF AloneInv, ListedWalks
<1>12. SegmentsApart'
  <2>1. \A n \in DOMAIN segFile' : segFile'[n] # 0
    <3>1. \A n \in DOMAIN segFile' : segFile'[n] \in DOMAIN lines'
      BY <1>2 DEF Kept, FileTypes
    <3> QED BY <1>2, <3>1, LenProperties DEF Kept, FileTypes
  <2> QED BY <1>4, <2>1 DEF SegmentsApart
<1>13. WalkStands(p, Disk.segs[loc[p].segNum])'
  BY <1>3, <1>4, <1>8 DEF WalkStands
<1>14. mem[p].prevHash = loc[p].root
  BY <1>3, WalkReports DEF WalkStands, ChainHead
<1>15. ThereIsALog'
  BY <1>5 DEF ThereIsALog
<1>16. (Remembers(p) /\ Foresees(p))'
  BY <1>3, <1>4, <1>5, <1>9, <1>13, <1>14 DEF Remembers, Foresees
<1> QED BY <1>6, <1>10, <1>11, <1>12, <1>15, <1>16, AloneStep

LEMMA AloneRotateManifest ==
  ASSUME ProcInv, ProcInv', AloneInv, alone', NEW p \in Proc, RotateManifest(p)
  PROVE  AloneInv'
<1> DEFINE n == Len(manifest)
           file == Disk.segs[n + 1]
           state == verifyChainStateFrom(file, loc[p].head, loc[p].offset)
<1>1. alone /\ Ordered
  BY DEF RotateManifest, Ordered
<1>2. Kept /\ Control
  BY <1>1 DEF ProcInv
<1>3. /\ Go(p, "manifest", "fresh") /\ at[p] = "manifest"
      /\ UNCHANGED <<lines, activeFile, segFile, mem, loc>>
      /\ manifest \in Seq(Entry) /\ manifest' \in Seq(Entry)
      /\ n \in Nat /\ DOMAIN manifest = 1..n
      /\ Len(manifest') = n + 1 /\ DOMAIN manifest' = 1..(n + 1)
      /\ manifest'[n + 1] = NewEntry(p) /\ \A i \in 1..n : manifest'[i] = manifest[i]
      /\ NewEntry(p).segment = n + 1 /\ Len(segFile) = n + 1
  BY <1>1, <1>2, Lists
<1> HIDE DEF n
<1>4. at'[p] = "fresh" /\ \A q \in Proc : q # p => at'[q] = at[q]
  BY <1>2, <1>3 DEF Go, Control
<1>5. \A q \in Proc : q # p => at'[q] = "off"
  BY <1>1, <1>2, <1>3, <1>4, OthersAreOff
<1>6. loc[p].segNum = n + 1
  BY <1>2, <1>3 DEF Kept, Numbered, n
<1>7. /\ loc[p].head = Sealed /\ loc[p].offset = SealedOffset /\ activeFile = 0
      /\ WalkStands(p, file) /\ mem[p].prevHash = loc[p].root
  BY <1>1, <1>3, <1>6 DEF AloneInv, Foresees, Remembers
<1>8. loc[p].offset \in Nat /\ Len(file) \in Nat
  <2>1. loc[p].offset \in Nat
    BY <1>2 DEF Kept, ThreadTypes, Locals
  <2>2. Disk.segs \in Seq(Seq(WholeLine)) /\ Len(Disk.segs) = n + 1
    BY <1>2, <1>3, DiskTypes DEF Kept
  <2>3. n + 1 \in 1..Len(Disk.segs)
    BY <1>3, <2>2
  <2>4. file \in Seq(WholeLine)
    BY <2>2, <2>3, ElementOfSeq
  <2> QED BY <2>1, <2>4, LenProperties
<1>9. /\ state.valid /\ loc[p].last_seq = state.last_seq /\ loc[p].root = state.root_hash
      /\ loc[p].last_seq = loc[p].offset + Len(file) - 1
  <2>1. /\ state.valid /\ signable(payload(state))
        /\ loc[p].last_seq = state.last_seq /\ loc[p].root = state.root_hash
    BY <1>7 DEF WalkStands
  <2>2. state.tree_size = loc[p].offset + Len(file)
    BY <2>1, WalkReports
  <2> HIDE DEF state, file
  <2>3. state.last_seq = state.tree_size - 1
    BY <2>1 DEF signable, payload
  <2> QED BY <1>8, <2>1, <2>2, <2>3
<1>10. /\ Disk'.manifest = manifest' /\ Disk.manifest = manifest
       /\ Disk'.segs = Disk.segs /\ Disk'.active = << >> /\ Disk'.hasManifest
       /\ DOMAIN Disk.segs = 1..(n + 1)
  <2>1. manifest' # << >>
    BY <1>3
  <2>2. DOMAIN segFile = 1..(n + 1)
    BY <1>2, <1>3, LenProperties DEF Kept, FileTypes
  <2> QED BY <1>3, <1>7, <2>1, <2>2 DEF Disk
<1>11. /\ NewEntry(p).first_seq = loc[p].offset /\ NewEntry(p).last_seq = loc[p].last_seq
       /\ NewEntry(p).start_prev_hash = loc[p].head /\ NewEntry(p).end_hash = loc[p].root
  BY DEF NewEntry
<1>12. Sealed' = loc[p].root
  <2>1. Last(manifest') = NewEntry(p) /\ manifest' # << >>
    BY <1>3 DEF Last
  <2> QED BY <1>10, <1>11, <2>1 DEF Sealed, manifestState
<1>13. SealedOffset' = loc[p].last_seq + 1
  <2>1. Last(manifest') = NewEntry(p) /\ manifest' # << >>
    BY <1>3 DEF Last
  <2> QED BY <1>10, <1>11, <2>1 DEF SealedOffset, manifestState
<1>14. ListedWalks'
  <2> DEFINE e == Disk'
  <2>1. e.manifest = manifest' /\ e.segs = Disk.segs
    BY <1>10
  <2> HIDE DEF e
  <2>2. \A i \in 1..n :
          /\ EntryWalks(Disk, i)
          /\ manifest[i].first_seq + Len(Disk.segs[manifest[i].segment]) = manifest[i].last_seq + 1
    BY <1>1, <1>3 DEF AloneInv, ListedWalks
  <2>3. \A i \in 1..n : EntryWalks(e, i)
    <3>1. /\ Disk.manifest \in Seq(Entry) /\ e.manifest \in Seq(Entry)
          /\ DOMAIN Disk.manifest = 1..n
      BY <1>3, <1>10, <2>1
    <3>2. /\ \A k \in DOMAIN Disk.manifest : e.manifest[k] = Disk.manifest[k]
          /\ \A k \in DOMAIN Disk.manifest : EntryWalks(Disk, k)
      BY <1>3, <1>10, <2>1, <2>2
    <3>3. \A k \in DOMAIN Disk.segs : k \in DOMAIN e.segs /\ e.segs[k] = Disk.segs[k]
      BY <2>1
    <3> QED BY <3>1, <3>2, <3>3, WalksStay
  <2>4. CarriedPrev(e, n + 1) = loc[p].head /\ CarriedOffset(e, n + 1) = loc[p].offset
    <3>1. /\ Sealed = CarriedPrev(Disk, n + 1) /\ SealedOffset = CarriedOffset(Disk, n + 1)
      BY <1>1, <1>2, SealedIsCarried DEF AloneInv, Kept, n
    <3>2. CASE n = 0
      BY <1>7, <3>1, <3>2 DEF CarriedPrev, CarriedOffset
    <3>3. CASE n # 0
      <4>1. n + 1 # 1 /\ (n + 1) - 1 = n /\ e.manifest[n] = Disk.manifest[n]
        BY <1>3, <1>10, <2>1, <3>3
      <4>2. CarriedPrev(e, n + 1) = CarriedPrev(Disk, n + 1)
        BY <1>3, <4>1 DEF CarriedPrev
      <4>3. CarriedOffset(e, n + 1) = CarriedOffset(Disk, n + 1)
        BY <1>3, <2>1, <4>1 DEF CarriedOffset
      <4> QED BY <1>7, <3>1, <4>2, <4>3
    <3> QED BY <3>2, <3>3
  <2>5. EntryWalks(e, n + 1)
    <3> DEFINE entry == NewEntry(p)
               m == n + 1
    <3>1. e.manifest[m] = entry /\ e.segs[m] = file /\ m \in DOMAIN e.segs /\ entry.segment = m
      BY <1>3, <1>10, <2>1
    <3>2. /\ state = verifyChainStateFrom(e.segs[m], CarriedPrev(e, m), CarriedOffset(e, m))
          /\ state.valid
      BY <1>9, <2>4, <3>1
    <3>3. /\ entry.start_prev_hash = CarriedPrev(e, m) /\ entry.first_seq = CarriedOffset(e, m)
          /\ entry.last_seq = state.last_seq /\ entry.end_hash = state.root_hash
      BY <1>9, <1>11, <2>4
    <3> HIDE DEF m, entry, state
    <3>4. EntryWalks(e, m)
      BY <3>1, <3>2, <3>3 DEF EntryWalks
    <3> QED BY <3>4 DEF m
  <2>6. NewEntry(p).first_seq + Len(e.segs[NewEntry(p).segment]) = NewEntry(p).last_seq + 1
    BY <1>3, <1>8, <1>9, <1>11, <2>1
  <2>7. \A i \in 1..(n + 1) :
          /\ EntryWalks(e, i)
          /\ manifest'[i].first_seq + Len(e.segs[manifest'[i].segment]) = manifest'[i].last_seq + 1
    <3> SUFFICES ASSUME NEW i \in 1..(n + 1)
                 PROVE  /\ EntryWalks(e, i)
                        /\ manifest'[i].first_seq + Len(e.segs[manifest'[i].segment])
                             = manifest'[i].last_seq + 1
      OBVIOUS
    <3>1. CASE i = n + 1
      BY <1>3, <2>5, <2>6, <3>1
    <3>2. CASE i \in 1..n
      BY <1>3, <2>1, <2>2, <2>3, <3>2
    <3> QED BY <1>3, <3>1, <3>2
  <2>8. ASSUME NEW i \in DOMAIN manifest'
        PROVE  EntryWalks(Disk, i)'
    <3>1. EntryWalks(e, i)
      BY <1>3, <2>7
    <3> QED BY ONLY <3>1 DEF e, EntryWalks, CarriedPrev, CarriedOffset
  <2>9. \A i \in DOMAIN manifest' :
          manifest'[i].first_seq + Len(Disk'.segs[manifest'[i].segment]) = manifest'[i].last_seq + 1
    BY <1>3, <2>7 DEF e
  <2> QED BY <2>8, <2>9 DEF ListedWalks
<1>15. (SoundFile(Disk.active, Sealed))'
  BY <1>10 DEF SoundFile
<1>16. ChainHead' = loc[p].root
  BY <1>10, <1>12 DEF ChainHead, HeadAfter
<1>17. (ThereIsALog /\ SegmentsApart)'
  BY <1>1, <1>3, <1>4 DEF ThereIsALog, SegmentsApart, AloneInv
<1>18. (Remembers(p) /\ Foresees(p))'
  BY <1>3, <1>4, <1>7, <1>16 DEF Remembers, Foresees
<1> QED BY <1>5, <1>14, <1>15, <1>17, <1>18, AloneStep

LEMMA AloneStutter ==
  ASSUME ProcInv, AloneInv, alone', UNCHANGED processVars
  PROVE  AloneInv'
<1> USE DEF processVars
<1>1. alone /\ Disk' = Disk /\ Sealed' = Sealed /\ SealedOffset' = SealedOffset
  BY DEF Disk, Sealed, SealedOffset, manifestState
<1>2. SameRecords
  BY <1>1 DEF SameRecords
<1>3. (ListedWalks /\ SoundFile(Disk.active, Sealed))' /\ ChainHead' = ChainHead
  BY <1>1, <1>2, HistoryStays DEF AloneInv
<1>4. (ThereIsALog /\ SegmentsApart)'
  BY <1>1 DEF AloneInv, ThereIsALog, SegmentsApart
<1>5. \A p \in Proc : (Remembers(p) /\ Foresees(p))'
  BY <1>1, <1>3 DEF AloneInv, Remembers, Foresees, WalkStands
<1> QED BY <1>3, <1>4, <1>5 DEF AloneInv

LEMMA AloneNext ==
  ASSUME TooLong = {}, ProcInv, AloneInv, [ProcessesNext]_processVars
  PROVE  AloneInv'
<1>1. ProcInv'
  BY ProcNext
<1> SUFFICES ASSUME alone'
             PROVE  AloneInv'
  BY DEF AloneInv
<1>2. CASE UNCHANGED processVars
  BY <1>2, AloneStutter
<1>3. ASSUME NEW p \in Proc, Start(p) \/ Resume(p) \/ Exit(p) \/ Operate(p)
      PROVE  AloneInv'
  <2>1. CASE Start(p) \/ Resume(p) \/ Exit(p)
    BY <2>1, AloneStart, AloneResume, AloneExit
  <2>2. CASE EmitOpen(p) \/ EmitWrite(p)
    BY <2>2, AloneEmitOpen, AloneEmitWrite
  <2>3. CASE RotateStart(p) \/ RotateWalk(p)
    BY <2>3, AloneRotateStart, AloneRotateWalk
  <2>4. CASE RotateIndex(p) \/ RotateNumber(p)
    BY <2>4, AloneLooks
  <2>5. CASE RotateRename(p) \/ RotateManifest(p) \/ RotateFresh(p)
    BY <1>1, <2>5, AloneRotateRename, AloneRotateManifest, AloneRotateFresh
  <2> QED BY <1>3, <2>1, <2>2, <2>3, <2>4, <2>5 DEF Operate
<1> QED BY <1>2, <1>3 DEF ProcessesNext

LEMMA AloneInit ==
  ASSUME ProcessesInit
  PROVE  AloneInv
<1>1. /\ lines = << >> /\ activeFile = 0 /\ segFile = << >> /\ manifest = << >>
      /\ at = [p \in Proc |-> "off"] /\ starts = 0
  BY DEF ProcessesInit
<1>2. DOMAIN << >> = {}
  OBVIOUS
<1>3. ThereIsALog /\ SegmentsApart /\ ListedWalks
  BY <1>1, <1>2 DEF ThereIsALog, SegmentsApart, ListedWalks
<1>4. SoundFile(Disk.active, Sealed)
  BY <1>1, <1>2 DEF Disk, SoundFile
<1>5. \A p \in Proc : Remembers(p) /\ Foresees(p)
  BY <1>1 DEF Remembers, Foresees
<1> QED BY <1>3, <1>4, <1>5 DEF AloneInv

\* One process after the other: memory is at the head of the files, the files verify
\* throughout, and what a rotation has found is still so when it acts on it.
THEOREM AloneInvHolds ==
  ASSUME TooLong = {}
  PROVE  ProcessesSpec => []AloneInv
<1>1. ProcInv /\ AloneInv /\ [ProcessesNext]_processVars => AloneInv'
  BY AloneNext
<1>2. ProcessesInit => AloneInv
  BY AloneInit
<1> QED BY <1>1, <1>2, ProcInvHolds, PTL DEF ProcessesSpec

\* Commands that follow one another are as good as one process: the files verify and every
\* head vouched for is part of the history they hold.
THEOREM AloneStaysHonest ==
  ASSUME TooLong = {}
  PROVE  ProcessesSpec => []AloneIsHonest
<1>1. ASSUME ProcInv, AloneInv
      PROVE  AloneIsHonest
  <2> SUFFICES ASSUME alone, Quiet, starts > 0
               PROVE  Verdict.valid /\ ~Hides
    BY DEF AloneIsHonest
  <2> DEFINE n == Len(manifest)
  <2>1. Ordered /\ Kept
    BY <1>1 DEF ProcInv, Ordered
  <2>2. activeFile # 0
    BY <1>1 DEF AloneInv, ThereIsALog, Quiet
  <2>3. /\ Len(segFile) = n /\ n \in Nat /\ DOMAIN manifest = 1..n
        /\ Disk.manifest = manifest
    BY <1>1, <2>1, QuietIsListed DEF Disk
  <2>4. \A i \in DOMAIN manifest : listedSegment(Disk, i).valid
    BY <1>1, ValidMeansWalks DEF AloneInv, ListedWalks
  <2>5. ~uncoveredSegment(Disk)
    <3>1. Disk.segs \in Seq(Seq(WholeLine)) /\ Len(Disk.segs) = n
      BY <2>1, <2>3, DiskTypes DEF Kept
    <3>2. highestSegmentOnDisk(Disk.segs) = n
      BY <3>1, HighestIsLen
    <3> QED BY <2>3, <3>2 DEF uncoveredSegment
  <2>6. Verdict = walkActive(Disk, Sealed, SealedOffset)
    <3>1. Sealed = CarriedPrev(Disk, n + 1) /\ SealedOffset = CarriedOffset(Disk, n + 1)
      BY <1>1, <2>1, SealedIsCarried DEF AloneInv, Kept
    <3> QED BY <2>3, <2>4, <2>5, <3>1 DEF Verdict, verifyAllSegments
  <2>7. Verdict.valid
    <3>1. Disk.hasActive
      BY <2>2 DEF Disk
    <3>2. SoundFile(Disk.active, Sealed)
      BY <1>1 DEF AloneInv
    <3> QED BY <2>6, <3>1, <3>2 DEF walkActive, verifyChainStateFrom
  <2> QED BY <1>1, <2>1, <2>7, ValidHoldsAll
<1>2. ProcInv /\ AloneInv => AloneIsHonest
  BY <1>1
<1> QED BY <1>2, ProcInvHolds, AloneInvHolds, PTL
=============================================================================
