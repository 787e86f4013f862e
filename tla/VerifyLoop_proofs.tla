-------------------------- MODULE VerifyLoop_proofs --------------------------
(***************************************************************************)
(* verifyAllSegments on damaged files: the closed forms of HashChain and   *)
(* SegmentStore, which every other proof is about, are what the loops of   *)
(* the source compute, and what a valid verdict then says of the history.  *)
(***************************************************************************)
EXTENDS VerifyLoop, SegmentStore_proofs

-----------------------------------------------------------------------------
(* The loop over the lines of a file *)

LEMMA ReadLineType ==
  ASSUME NEW state \in VerdictSet, NEW line \in Line, NEW at \in Int
  PROVE  readLine(state, line, at) \in VerdictSet
<1> DEFINE next == [valid |-> TRUE, at |-> NoAt, tree_size |-> state.tree_size + 1,
                    last_seq |-> line.rec.seq, root_hash |-> line.rec.hash]
<1>1. line.rec.seq \in Int /\ line.rec.hash \in Hash
  BY DEF Line, Record
<1>2. next \in VerdictSet
  BY <1>1 DEF VerdictSet, NoAt
<1>3. /\ Broken(NoAt) \in VerdictSet /\ Broken(at) \in VerdictSet
      /\ Broken(line.rec.seq) \in VerdictSet
  BY <1>1, BrokenVerdict DEF NoAt
<1>4. readLine(state, line, at) \in {state, Broken(NoAt), Broken(at), Broken(line.rec.seq), next}
  BY DEF readLine
<1> QED BY <1>2, <1>3, <1>4

LEMMA StartAtType ==
  ASSUME NEW start \in Hash, NEW offset \in Nat
  PROVE  StartAt(start, offset) \in VerdictSet
BY DEF StartAt, VerdictSet, NoAt

\* The recursion has a solution, so fileLoop is one.
LEMMA FileLoopRounds ==
  ASSUME NEW lines \in Seq(Line), NEW start \in Hash, NEW offset \in Nat
  PROVE  LET after == fileLoop(lines, start, offset) IN
         /\ after[0] = StartAt(start, offset)
         /\ \A i \in 1..Len(lines) : after[i] = readLine(after[i-1], lines[i], offset + i - 1)
<1> DEFINE n == Len(lines)
           base == StartAt(start, offset)
           round(f, i) == IF i = 0 THEN base ELSE readLine(f[i-1], lines[i], offset + i - 1)
           next == [i \in 1..n |-> [s \in VerdictSet |-> readLine(s, lines[i], offset + i - 1)]]
           Eq(f) == f = [i \in 0..n |-> round(f, i)]
<1>1. n \in Nat /\ base \in VerdictSet
  BY LenProperties, StartAtType
<1>2. next \in [1..n -> [VerdictSet -> VerdictSet]]
  <2>1. ASSUME NEW i \in 1..n, NEW s \in VerdictSet
        PROVE  readLine(s, lines[i], offset + i - 1) \in VerdictSet
    <3>1. lines[i] \in Line /\ offset + i - 1 \in Int
      BY <1>1, ElementOfSeq
    <3> QED BY <3>1, ReadLineType
  <2> QED BY <2>1
<1> HIDE DEF base
<1>3. PICK f \in Orbits(n, VerdictSet, base, next) : TRUE
  <2> HIDE DEF n, next
  <2> QED BY <1>1, <1>2, RecursionExists
<1>4. /\ f \in [0..n -> VerdictSet] /\ f[0] = base
      /\ \A i \in 1..n : f[i] = next[i][f[i-1]]
  <2> HIDE DEF n, next
  <2> QED BY <1>3 DEF Orbits
<1>5. Eq(f)
  <2>1. \A i \in 0..n : f[i] = round(f, i)
    <3> SUFFICES ASSUME NEW i \in 0..n
                 PROVE  f[i] = round(f, i)
      OBVIOUS
    <3>1. CASE i = 0
      BY <1>4, <3>1
    <3>2. CASE i # 0
      <4>1. i \in 1..n /\ i - 1 \in 0..n
        BY <1>1, <3>2
      <4>2. f[i-1] \in VerdictSet
        BY <1>4, <4>1
      <4>3. next[i][f[i-1]] = readLine(f[i-1], lines[i], offset + i - 1)
        BY <4>1, <4>2
      <4> QED BY <1>4, <3>2, <4>1, <4>3
    <3> QED BY <3>1, <3>2
  <2> HIDE DEF round
  <2>2. f = [i \in 0..n |-> f[i]]
    BY <1>4
  <2> QED BY <2>1, <2>2
<1>6. fileLoop(lines, start, offset) = CHOOSE g : Eq(g)
  BY DEF fileLoop, base
<1> HIDE DEF Eq
<1>7. Eq(fileLoop(lines, start, offset))
  BY <1>5, <1>6
<1> USE DEF Eq
<1>8. \A i \in 0..n : fileLoop(lines, start, offset)[i] = round(fileLoop(lines, start, offset), i)
  <2> HIDE DEF round
  <2> QED BY <1>7
<1>9. 0 \in 0..n /\ \A i \in 1..n : i \in 0..n /\ i # 0
  BY <1>1
<1> QED BY <1>8, <1>9 DEF base

\* After i lines: the state of i sound lines, or the verdict on the first unsound one.
Carried(lines, i, start, offset) ==
  IF \A j \in 1..i : SoundLine(lines, j, start)
    THEN [valid |-> TRUE, at |-> NoAt, tree_size |-> offset + i,
          last_seq |-> IF i = 0 THEN offset - 1 ELSE lines[i].rec.seq,
          root_hash |-> ExpectedPrev(lines, i + 1, start)]
    ELSE Broken(FaultAt(lines, FirstUnsound(lines, start), offset))

LEMMA SoundRound ==
  ASSUME NEW lines \in Seq(Line), NEW start \in Hash, NEW offset \in Nat,
         NEW i \in 1..Len(lines), \A j \in 1..(i-1) : SoundLine(lines, j, start)
  PROVE  readLine(Carried(lines, i - 1, start, offset), lines[i], offset + i - 1)
           = Carried(lines, i, start, offset)
<1> DEFINE state == Carried(lines, i - 1, start, offset)
<1>1. Len(lines) \in Nat /\ DOMAIN lines = 1..Len(lines) /\ (i - 1) + 1 = i
  BY LenProperties
<1>2. /\ state.valid /\ state.tree_size = offset + (i - 1)
      /\ state.root_hash = ExpectedPrev(lines, i, start)
  BY <1>1 DEF Carried
<1> HIDE DEF state
<1>3. CASE SoundLine(lines, i, start)
  <2>1. readLine(state, lines[i], offset + i - 1)
          = [valid |-> TRUE, at |-> NoAt, tree_size |-> state.tree_size + 1,
             last_seq |-> lines[i].rec.seq, root_hash |-> lines[i].rec.hash]
    BY <1>2, <1>3 DEF readLine, SoundLine
  <2>2. \A j \in 1..i : SoundLine(lines, j, start)
    BY <1>3
  <2>3. /\ i # 0 /\ i + 1 # 1 /\ (i + 1) - 1 = i
        /\ state.tree_size + 1 = offset + i
    BY <1>2
  <2>4. ExpectedPrev(lines, i + 1, start) = lines[i].rec.hash
    BY <2>3 DEF ExpectedPrev
  <2> QED BY <2>1, <2>2, <2>3, <2>4 DEF Carried, state
<1>4. CASE ~SoundLine(lines, i, start)
  <2>1. ~SoundFile(lines, start)
    BY <1>1, <1>4 DEF SoundFile
  <2>2. FirstUnsound(lines, start) = i
    <3>1. /\ FirstUnsound(lines, start) \in 1..Len(lines)
          /\ ~SoundLine(lines, FirstUnsound(lines, start), start)
          /\ \A j \in 1..(FirstUnsound(lines, start) - 1) : SoundLine(lines, j, start)
      BY <2>1, FirstUnsoundIs
    <3> QED BY <1>1, <1>4, <3>1
  <2>3. readLine(state, lines[i], offset + i - 1) = Broken(FaultAt(lines, i, offset))
    BY <1>2, <1>4 DEF readLine, SoundLine, FaultAt
  <2>4. ~\A j \in 1..i : SoundLine(lines, j, start)
    BY <1>4
  <2> QED BY <2>2, <2>3, <2>4 DEF Carried, state
<1> QED BY <1>3, <1>4

LEMMA LoopCarries ==
  ASSUME NEW lines \in Seq(Line), NEW start \in Hash, NEW offset \in Nat
  PROVE  \A i \in 0..Len(lines) :
           fileLoop(lines, start, offset)[i] = Carried(lines, i, start, offset)
<1> DEFINE n == Len(lines)
           after == fileLoop(lines, start, offset)
           T == {i \in 0..n : after[i] = Carried(lines, i, start, offset)}
<1>1. n \in Nat
  BY LenProperties
<1>2. /\ after[0] = StartAt(start, offset)
      /\ \A i \in 1..n : after[i] = readLine(after[i-1], lines[i], offset + i - 1)
  BY FileLoopRounds
<1> HIDE DEF after
<1>3. 0 \in T
  <2>1. 1..0 = {} /\ offset + 0 = offset /\ 0 + 1 = 1
    OBVIOUS
  <2>2. Carried(lines, 0, start, offset) = StartAt(start, offset)
    BY <2>1 DEF Carried, StartAt, ExpectedPrev
  <2> QED BY <1>1, <1>2, <2>2
<1>4. ASSUME NEW i \in 1..n, i - 1 \in T
      PROVE  i \in T
  <2>1. after[i] = readLine(Carried(lines, i - 1, start, offset), lines[i], offset + i - 1)
    BY <1>2, <1>4
  <2>2. CASE \A j \in 1..(i-1) : SoundLine(lines, j, start)
    <3>1. readLine(Carried(lines, i - 1, start, offset), lines[i], offset + i - 1)
            = Carried(lines, i, start, offset)
      BY <2>2, SoundRound
    <3> QED BY <1>1, <2>1, <3>1
  <2>3. CASE ~\A j \in 1..(i-1) : SoundLine(lines, j, start)
    <3> DEFINE broken == Broken(FaultAt(lines, FirstUnsound(lines, start), offset))
    <3>1. Carried(lines, i - 1, start, offset) = broken
      BY <2>3 DEF Carried
    <3>2. ~\A j \in 1..i : SoundLine(lines, j, start)
      BY <2>3
    <3>3. Carried(lines, i, start, offset) = broken
      BY <3>2 DEF Carried
    <3>4. ~broken.valid
      BY BrokenType
    <3>5. readLine(broken, lines[i], offset + i - 1) = broken
      BY <3>4 DEF readLine
    <3> HIDE DEF broken
    <3> QED BY <2>1, <3>1, <3>3, <3>5
  <2> QED BY <2>2, <2>3
<1> HIDE DEF T
<1>5. 0..n \subseteq T
  BY <1>1, <1>3, <1>4, BoundedInduction
<1> QED BY <1>5 DEF T, after

\* The walker of HashChain is the loop of verifyChainStateFrom.
LEMMA WalkIsTheLoop ==
  ASSUME NEW lines \in Seq(Line), NEW start \in Hash, NEW offset \in Nat
  PROVE  walkFile(lines, start, offset) = verifyChainStateFrom(lines, start, offset)
<1> DEFINE n == Len(lines)
<1>1. n \in Nat /\ DOMAIN lines = 1..n /\ n \in 0..n /\ (n + 1) - 1 = n
  BY LenProperties
<1>2. walkFile(lines, start, offset) = Carried(lines, n, start, offset)
  BY <1>1, LoopCarries DEF walkFile
<1>3. SoundFile(lines, start) <=> \A j \in 1..n : SoundLine(lines, j, start)
  BY <1>1 DEF SoundFile
<1>4. n = 0 <=> lines = << >>
  BY <1>1, EmptySeq
<1>5. ExpectedPrev(lines, n + 1, start) = IF lines = << >> THEN start ELSE Last(lines).rec.hash
  BY <1>1, <1>4 DEF ExpectedPrev, Last
<1>6. CASE SoundFile(lines, start)
  BY <1>2, <1>3, <1>4, <1>5, <1>6 DEF Carried, verifyChainStateFrom, Last
<1>7. CASE ~SoundFile(lines, start)
  BY <1>2, <1>3, <1>7 DEF Carried, verifyChainStateFrom
<1> QED BY <1>6, <1>7
-----------------------------------------------------------------------------
(* The loop over the manifest *)

LEMMA ReadSegmentType ==
  ASSUME NEW dd, FilesType(dd), NEW k \in 1..Len(dd.manifest), NEW carried \in VerdictSet
  PROVE  readSegment(dd, k, carried) \in VerdictSet
<1> DEFINE seg == dd.manifest[k]
           state == walkFile(dd.segs[seg.segment], carried.root_hash, carried.tree_size)
<1>1. carried.tree_size \in Nat /\ carried.root_hash \in Hash
  BY DEF VerdictSet
<1>2. Broken(carried.tree_size) \in VerdictSet
  BY <1>1, BrokenVerdict
<1>3. CASE seg.segment \notin DOMAIN dd.segs
  BY <1>2, <1>3 DEF readSegment
<1>4. CASE seg.segment \in DOMAIN dd.segs
  <2>1. dd.segs[seg.segment] \in Seq(Line)
    BY <1>4 DEF FilesType
  <2>2. state \in VerdictSet
    BY <1>1, <2>1, WalkIsTheLoop, WalkVerdict
  <2> HIDE DEF state
  <2>3. Broken(state.last_seq) \in VerdictSet
    <3>1. state.last_seq \in Int
      BY <2>2 DEF VerdictSet
    <3> QED BY <3>1, BrokenVerdict
  <2>4. readSegment(dd, k, carried)
          \in {carried, Broken(carried.tree_size), state, Broken(state.last_seq)}
    BY <1>4 DEF readSegment, state
  <2> QED BY <1>2, <2>2, <2>3, <2>4
<1> QED BY <1>3, <1>4

LEMMA SegmentLoopRounds ==
  ASSUME NEW dd, FilesType(dd)
  PROVE  LET after == segmentLoop(dd) IN
         /\ after[0] = StartAt(Genesis, 0)
         /\ \A k \in 1..Len(dd.manifest) : after[k] = readSegment(dd, k, after[k-1])
<1> DEFINE n == Len(dd.manifest)
           base == StartAt(Genesis, 0)
           round(f, k) == IF k = 0 THEN base ELSE readSegment(dd, k, f[k-1])
           next == [k \in 1..n |-> [s \in VerdictSet |-> readSegment(dd, k, s)]]
           Eq(f) == f = [k \in 0..n |-> round(f, k)]
<1>1. n \in Nat /\ base \in VerdictSet
  <2>1. Genesis \in Hash
    BY DEF Genesis, Hash
  <2> QED BY <2>1, LenProperties, StartAtType DEF FilesType
<1>2. next \in [1..n -> [VerdictSet -> VerdictSet]]
  <2>1. ASSUME NEW k \in 1..n, NEW s \in VerdictSet
        PROVE  readSegment(dd, k, s) \in VerdictSet
    BY ReadSegmentType
  <2> QED BY <2>1
<1> HIDE DEF base
<1>3. PICK f \in Orbits(n, VerdictSet, base, next) : TRUE
  <2> HIDE DEF n, next
  <2> QED BY <1>1, <1>2, RecursionExists
<1>4. /\ f \in [0..n -> VerdictSet] /\ f[0] = base
      /\ \A k \in 1..n : f[k] = next[k][f[k-1]]
  <2> HIDE DEF n, next
  <2> QED BY <1>3 DEF Orbits
<1>5. Eq(f)
  <2>1. \A k \in 0..n : f[k] = round(f, k)
    <3> SUFFICES ASSUME NEW k \in 0..n
                 PROVE  f[k] = round(f, k)
      OBVIOUS
    <3>1. CASE k = 0
      BY <1>4, <3>1
    <3>2. CASE k # 0
      <4>1. k \in 1..n /\ k - 1 \in 0..n
        BY <1>1, <3>2
      <4>2. f[k-1] \in VerdictSet
        BY <1>4, <4>1
      <4>3. next[k][f[k-1]] = readSegment(dd, k, f[k-1])
        BY <4>1, <4>2
      <4> QED BY <1>4, <3>2, <4>1, <4>3
    <3> QED BY <3>1, <3>2
  <2> HIDE DEF round
  <2>2. f = [k \in 0..n |-> f[k]]
    BY <1>4
  <2> QED BY <2>1, <2>2
<1>6. segmentLoop(dd) = CHOOSE g : Eq(g)
  BY DEF segmentLoop, base
<1> HIDE DEF Eq
<1>7. Eq(segmentLoop(dd))
  BY <1>5, <1>6
<1> USE DEF Eq
<1>8. \A k \in 0..n : segmentLoop(dd)[k] = round(segmentLoop(dd), k)
  <2> HIDE DEF round
  <2> QED BY <1>7
<1>9. 0 \in 0..n /\ \A k \in 1..n : k \in 0..n /\ k # 0
  BY <1>1
<1> QED BY <1>8, <1>9 DEF base

\* A round that starts from what the closed form carries gives the closed form's verdict.
LEMMA RoundIsListed ==
  ASSUME NEW dd, FilesType(dd), NEW k \in 1..Len(dd.manifest), NEW carried,
         carried.valid, carried.root_hash = CarriedPrev(dd, k),
         carried.tree_size = CarriedOffset(dd, k)
  PROVE  readSegment(dd, k, carried) = listedSegment(dd, k)
<1> DEFINE seg == dd.manifest[k]
           prev == CarriedPrev(dd, k)
           offset == CarriedOffset(dd, k)
<1>1. prev \in Hash /\ offset \in Nat
  BY CarriedOfFiles, LenProperties DEF FilesType
<1>2. CASE seg.segment \notin DOMAIN dd.segs
  BY <1>2 DEF readSegment, listedSegment
<1>3. CASE seg.segment \in DOMAIN dd.segs
  <2>1. walkFile(dd.segs[seg.segment], prev, offset)
          = verifyChainStateFrom(dd.segs[seg.segment], prev, offset)
    <3>1. dd.segs[seg.segment] \in Seq(Line)
      BY <1>3 DEF FilesType
    <3> QED BY <1>1, <3>1, WalkIsTheLoop
  <2> QED BY <1>3, <2>1 DEF readSegment, listedSegment
<1> QED BY <1>2, <1>3

LEMMA FailedIsBroken ==
  ASSUME NEW dd, NEW i, ~listedSegment(dd, i).valid
  PROVE  listedSegment(dd, i) = Broken(listedSegment(dd, i).at)
<1>1. \A at : Broken(at) = Broken(Broken(at).at)
  BY DEF Broken
<1>2. \A lines, start, offset : ~verifyChainStateFrom(lines, start, offset).valid =>
        \E at : verifyChainStateFrom(lines, start, offset) = Broken(at)
  BY DEF verifyChainStateFrom
<1>3. \E at : listedSegment(dd, i) = Broken(at)
  BY <1>2 DEF listedSegment
<1> QED BY <1>1, <1>3

\* After k entries: the verdict on the last of k that pass, or on the first that fails.
Walked(dd, k) ==
  IF \A j \in 1..k : listedSegment(dd, j).valid
    THEN IF k = 0 THEN StartAt(Genesis, 0) ELSE listedSegment(dd, k)
    ELSE Broken(listedSegment(dd, FirstFailing(dd)).at)

LEMMA WalkedCarries ==
  ASSUME NEW dd, FilesType(dd), NEW k \in 0..Len(dd.manifest),
         \A j \in 1..k : listedSegment(dd, j).valid
  PROVE  /\ Walked(dd, k).valid
         /\ Walked(dd, k).root_hash = CarriedPrev(dd, k + 1)
         /\ Walked(dd, k).tree_size = CarriedOffset(dd, k + 1)
<1>1. CASE k = 0
  BY <1>1 DEF Walked, StartAt, CarriedPrev, CarriedOffset
<1>2. CASE k # 0
  <2>1. k \in 1..Len(dd.manifest) /\ k \in 1..k
    BY <1>2, LenProperties DEF FilesType
  <2>2. Walked(dd, k) = listedSegment(dd, k) /\ listedSegment(dd, k).valid
    BY <1>2, <2>1 DEF Walked
  <2> QED BY <2>1, <2>2, ListedHandsOn
<1> QED BY <1>1, <1>2

LEMMA SegmentsCarry ==
  ASSUME NEW dd, FilesType(dd)
  PROVE  \A k \in 0..Len(dd.manifest) : segmentLoop(dd)[k] = Walked(dd, k)
<1> DEFINE n == Len(dd.manifest)
           after == segmentLoop(dd)
           T == {k \in 0..n : after[k] = Walked(dd, k)}
<1>1. n \in Nat
  BY LenProperties DEF FilesType
<1>2. /\ after[0] = StartAt(Genesis, 0)
      /\ \A k \in 1..n : after[k] = readSegment(dd, k, after[k-1])
  BY SegmentLoopRounds
<1> HIDE DEF after
<1>3. 0 \in T
  <2>1. 1..0 = {}
    OBVIOUS
  <2>2. Walked(dd, 0) = StartAt(Genesis, 0)
    BY <2>1 DEF Walked
  <2> QED BY <1>1, <1>2, <2>2
<1>4. ASSUME NEW k \in 1..n, k - 1 \in T
      PROVE  k \in T
  <2>1. after[k] = readSegment(dd, k, Walked(dd, k - 1)) /\ k \in 0..n
    BY <1>1, <1>2, <1>4
  <2>2. CASE \A j \in 1..(k-1) : listedSegment(dd, j).valid
    <3>1. k - 1 \in 0..n /\ (k - 1) + 1 = k
      BY <1>1
    <3>2. /\ Walked(dd, k - 1).valid
          /\ Walked(dd, k - 1).root_hash = CarriedPrev(dd, k)
          /\ Walked(dd, k - 1).tree_size = CarriedOffset(dd, k)
      BY <2>2, <3>1, WalkedCarries
    <3>3. after[k] = listedSegment(dd, k)
      BY <2>1, <3>2, RoundIsListed
    <3>4. CASE listedSegment(dd, k).valid
      <4>1. (\A j \in 1..k : listedSegment(dd, j).valid) /\ k # 0
        BY <2>2, <3>4
      <4> QED BY <2>1, <3>3, <4>1 DEF Walked
    <3>5. CASE ~listedSegment(dd, k).valid
      <4>1. ~\A j \in 1..k : listedSegment(dd, j).valid
        BY <3>5
      <4>2. FirstFailing(dd) = k
        <5>1. ~\A i \in 1..n : listedSegment(dd, i).valid
          BY <3>5
        <5>2. /\ FirstFailing(dd) \in 1..n
              /\ ~listedSegment(dd, FirstFailing(dd)).valid
              /\ \A j \in 1..(FirstFailing(dd) - 1) : listedSegment(dd, j).valid
          BY <5>1, FirstFailingIs DEF FilesType
        <5> QED BY <1>1, <2>2, <3>5, <5>2
      <4> QED BY <2>1, <3>3, <3>5, <4>1, <4>2, FailedIsBroken DEF Walked
    <3> QED BY <3>4, <3>5
  <2>3. CASE ~\A j \in 1..(k-1) : listedSegment(dd, j).valid
    <3> DEFINE broken == Broken(listedSegment(dd, FirstFailing(dd)).at)
    <3>1. ~\A j \in 1..k : listedSegment(dd, j).valid
      BY <2>3
    <3>2. Walked(dd, k - 1) = broken /\ Walked(dd, k) = broken
      BY <2>3, <3>1 DEF Walked
    <3>3. ~broken.valid
      BY BrokenType
    <3>4. readSegment(dd, k, broken) = broken
      BY <3>3 DEF readSegment
    <3> HIDE DEF broken
    <3> QED BY <2>1, <3>2, <3>4
  <2> QED BY <2>2, <2>3
<1> HIDE DEF T
<1>5. 0..n \subseteq T
  BY <1>1, <1>3, <1>4, BoundedInduction
<1> QED BY <1>5 DEF T, after

\* What the loops need of the files: any types will do, gaps and forged fields included.
DamagedType(dd) ==
  /\ FilesType(dd) /\ DOMAIN dd.segs \subseteq Nat
  /\ dd.active \in Seq(Line) /\ dd.hasActive \in BOOLEAN /\ dd.hasManifest \in BOOLEAN
  /\ ~dd.hasManifest => dd.manifest = << >>

LEMMA WalkAllIsVerify ==
  ASSUME NEW dd, DamagedType(dd)
  PROVE  verifyAllSegments(dd) = walkAll(dd)
<1> DEFINE n == Len(dd.manifest)
           passes == \A i \in 1..n : listedSegment(dd, i).valid
           state == segmentLoop(dd)[n]
<1>1. n \in Nat /\ DOMAIN dd.manifest = 1..n /\ n \in 0..n /\ n + 1 \in 1..(n + 1)
  BY LenProperties DEF DamagedType, FilesType
<1>2. \A start \in Hash, offset \in Nat :
        walkLog(dd, start, offset) = walkActive(dd, start, offset)
  BY WalkIsTheLoop DEF walkLog, walkActive, DamagedType
<1>3. state = Walked(dd, n)
  BY <1>1, SegmentsCarry DEF DamagedType
<1>4. CarriedPrev(dd, n + 1) \in Hash /\ CarriedOffset(dd, n + 1) \in Nat
  BY <1>1, CarriedOfFiles DEF DamagedType
<1>5. CASE ~passes
  <2>1. \E i \in DOMAIN dd.manifest : ~listedSegment(dd, i).valid
    BY <1>1, <1>5
  <2>2. verifyAllSegments(dd) = Broken(listedSegment(dd, FirstFailing(dd)).at)
    BY <2>1 DEF verifyAllSegments
  <2>3. state = Broken(listedSegment(dd, FirstFailing(dd)).at) /\ ~state.valid
    BY <1>3, <1>5, BrokenType DEF Walked
  <2>4. dd.hasManifest
    <3>1. ~dd.hasManifest => 1..n = {}
      BY <1>1, EmptySeq DEF DamagedType
    <3> QED BY <1>5, <3>1
  <2> QED BY <2>2, <2>3, <2>4 DEF walkAll
<1>6. CASE passes
  <2>1. ~\E i \in DOMAIN dd.manifest : ~listedSegment(dd, i).valid
    BY <1>1, <1>6
  <2>2. /\ state.valid /\ state.root_hash = CarriedPrev(dd, n + 1)
        /\ state.tree_size = CarriedOffset(dd, n + 1)
    BY <1>1, <1>3, <1>6, WalkedCarries DEF DamagedType
  <2>3. CASE ~dd.hasManifest
    <3>1. n = 0 /\ n + 1 = 1
      BY <2>3, EmptySeq DEF DamagedType
    <3>2. CarriedPrev(dd, n + 1) = Genesis /\ CarriedOffset(dd, n + 1) = 0
      BY <3>1 DEF CarriedPrev, CarriedOffset
    <3> QED BY <1>2, <1>4, <2>1, <2>3, <3>2 DEF walkAll, verifyAllSegments, uncoveredSegment
  <2>4. CASE dd.hasManifest
    <3> HIDE DEF state
    <3>1. walkAll(dd) = IF highestSegmentOnDisk(dd.segs) > n THEN Broken(NoAt)
                        ELSE walkLog(dd, state.root_hash, state.tree_size)
      BY <2>2, <2>4 DEF walkAll, state
    <3> QED BY <1>2, <1>4, <2>1, <2>2, <2>4, <3>1 DEF verifyAllSegments, uncoveredSegment
  <2> QED BY <2>3, <2>4
<1> QED BY <1>5, <1>6
-----------------------------------------------------------------------------
(* What edits can put in the files: the hashes of one honest log *)

Parts(log) == {g \in Hash : IsPrefix(g, log)}

PartLine(log) == {l \in Line : l.rec.prev_hash \in Parts(log) /\ l.rec.hash \in Parts(log)}

PartEntry(log) ==
  {e \in Entry : e.start_prev_hash \in Parts(log) /\ e.end_hash \in Parts(log)}

Fields == {"hasActive", "active", "segs", "hasManifest", "manifest"}

\* Damaged files, in which nobody has recomputed a hash.
Salvage(dd, log) ==
  /\ Fields \subseteq DOMAIN dd
  /\ dd.hasActive \in BOOLEAN /\ dd.active \in Seq(PartLine(log))
  /\ DOMAIN dd.segs \subseteq Nat
  /\ \A n \in DOMAIN dd.segs : dd.segs[n] \in Seq(PartLine(log))
  /\ dd.hasManifest \in BOOLEAN /\ dd.manifest \in Seq(PartEntry(log))
  /\ ~dd.hasManifest => dd.manifest = << >>

Numbered(log) == log \in Hash /\ \A i \in 1..Len(log) : log[i].seq = i - 1

FilesInv == Numbered(honest) /\ Salvage(d, honest)

LEMMA SalvageType ==
  ASSUME NEW dd, NEW log, Salvage(dd, log)
  PROVE  DamagedType(dd)
<1>1. Seq(PartLine(log)) \subseteq Seq(Line) /\ Seq(PartEntry(log)) \subseteq Seq(Entry)
  <2>1. PartLine(log) \subseteq Line /\ PartEntry(log) \subseteq Entry
    BY DEF PartLine, PartEntry
  <2> QED BY <2>1
<1> QED BY <1>1 DEF Salvage, DamagedType, FilesType

\* A sound file of such lines ends in a part of the honest log, at the place it says.
LEMMA SoundIsPart ==
  ASSUME NEW log, Numbered(log), NEW lines \in Seq(PartLine(log)), NEW start \in Parts(log),
         verifyChainStateFrom(lines, start, Len(start)).valid
  PROVE  LET state == verifyChainStateFrom(lines, start, Len(start)) IN
         /\ state.root_hash \in Parts(log)
         /\ state.tree_size = Len(state.root_hash)
         /\ state.last_seq = state.tree_size - 1
<1> DEFINE state == verifyChainStateFrom(lines, start, Len(start))
<1>1. /\ lines \in Seq(Line) /\ Len(lines) \in Nat /\ DOMAIN lines = 1..Len(lines)
      /\ start \in Hash /\ Len(start) \in Nat /\ log \in Hash /\ Len(log) \in Nat
  <2>1. PartLine(log) \subseteq Line
    BY DEF PartLine
  <2> QED BY <2>1, LenProperties DEF Parts, Hash, Numbered
<1>2. /\ SoundFile(lines, start) /\ state.root_hash = HeadAfter(lines, start)
      /\ state.tree_size = Len(start) + Len(lines)
  BY WalkReports
<1>3. CASE lines = << >>
  <2>1. Len(lines) = 0 /\ state.last_seq = Len(start) - 1
    BY <1>2, <1>3, EmptySeq DEF verifyChainStateFrom
  <2> QED BY <1>1, <1>2, <1>3, <2>1 DEF HeadAfter
<1>4. CASE lines # << >>
  <2> DEFINE n == Len(lines)
             rec == lines[n].rec
             prev == ExpectedPrev(lines, n, start)
  <2>1. n \in 1..n
    BY <1>1, <1>4, EmptySeq
  <2>2. /\ lines[n] \in PartLine(log) /\ rec \in Record
        /\ rec.hash \in Hash /\ IsPrefix(rec.hash, log)
    <3>1. lines[n] \in PartLine(log)
      BY <2>1, ElementOfSeq
    <3> QED BY <3>1 DEF PartLine, Parts, Line
  <2>3. SoundLine(lines, n, start)
    BY <1>1, <1>2, <2>1 DEF SoundFile
  <2>4. state.root_hash = rec.hash /\ state.last_seq = rec.seq
    BY <1>2, <1>4 DEF verifyChainStateFrom, HeadAfter, Last
  <2>5. Len(prev) = Len(start) + (n - 1) /\ prev \in Hash
    BY <1>1, <1>2, <2>1, PrevLength
  <2>6. rec.hash = Append(prev, BodyOf(rec))
    BY <2>3 DEF SoundLine, hashRecord
  <2>7. BodyOf(rec) \in Body
    BY <2>2 DEF BodyOf, Body, Record
  <2> HIDE DEF rec, prev, n
  <2>8. Len(rec.hash) = Len(start) + n /\ rec.hash[Len(rec.hash)] = BodyOf(rec)
    <3>1. prev \in Seq(Body) /\ Len(prev) \in Nat
      BY <2>5, LenProperties DEF Hash
    <3>2. Len(Append(prev, BodyOf(rec))) = Len(prev) + 1
          /\ Append(prev, BodyOf(rec))[Len(prev) + 1] = BodyOf(rec)
      BY <2>7, <3>1, AppendProperties
    <3> QED BY <1>1, <2>1, <2>5, <2>6, <3>1, <3>2 DEF n
  <2>9. /\ Len(rec.hash) <= Len(log) /\ Len(rec.hash) \in 1..Len(rec.hash)
        /\ \A i \in 1..Len(rec.hash) : rec.hash[i] = log[i]
    <3>1. Len(rec.hash) \in 1..Len(rec.hash)
      BY <1>1, <2>1, <2>8 DEF n
    <3> QED BY <1>1, <2>2, <3>1, PrefixAt DEF Hash
  <2>10. rec.seq = Len(rec.hash) - 1
    <3>1. BodyOf(rec) = log[Len(rec.hash)] /\ Len(rec.hash) \in 1..Len(log)
      BY <1>1, <2>8, <2>9
    <3>2. BodyOf(rec).seq = Len(rec.hash) - 1
      BY <3>1 DEF Numbered
    <3> QED BY <3>2 DEF BodyOf
  <2> QED BY <1>1, <1>2, <2>2, <2>4, <2>8, <2>10 DEF Parts, n
<1> QED BY <1>3, <1>4

\* The segments that pass end in a part of the honest log, whose length they count.
LEMMA ListedIsPart ==
  ASSUME NEW dd, NEW log, Numbered(log), Salvage(dd, log),
         \A j \in 1..Len(dd.manifest) : listedSegment(dd, j).valid
  PROVE  \A k \in 0..Len(dd.manifest) :
           /\ CarriedPrev(dd, k + 1) \in Parts(log)
           /\ CarriedOffset(dd, k + 1) = Len(CarriedPrev(dd, k + 1))
<1> DEFINE n == Len(dd.manifest)
           T == {k \in 0..n : /\ CarriedPrev(dd, k + 1) \in Parts(log)
                              /\ CarriedOffset(dd, k + 1) = Len(CarriedPrev(dd, k + 1))}
<1>1. n \in Nat /\ FilesType(dd)
  BY SalvageType, LenProperties DEF DamagedType, FilesType
<1>2. 0 \in T
  <2>1. CarriedPrev(dd, 1) = << >> /\ CarriedOffset(dd, 1) = 0
    BY DEF CarriedPrev, CarriedOffset, Genesis
  <2>2. << >> \in Seq(Body) /\ Len(<< >>) = 0 /\ 0 + 1 = 1
    OBVIOUS
  <2>3. << >> \in Parts(log)
    <3>1. log \in Seq(Body)
      BY DEF Numbered, Hash
    <3>2. 1..0 = {} /\ 0 <= Len(log)
      BY <3>1, LenProperties
    <3> QED BY <2>2, <3>1, <3>2, PrefixAt DEF Parts, Hash
  <2> QED BY <1>1, <2>1, <2>2, <2>3
<1>3. ASSUME NEW k \in 1..n, k - 1 \in T
      PROVE  k \in T
  <2> DEFINE prev == CarriedPrev(dd, k)
             offset == CarriedOffset(dd, k)
             seg == dd.manifest[k]
             state == verifyChainStateFrom(dd.segs[seg.segment], prev, offset)
  <2>1. prev \in Parts(log) /\ offset = Len(prev)
    <3>1. (k - 1) + 1 = k
      BY <1>1
    <3> QED BY <1>3, <3>1
  <2>2. listedSegment(dd, k).valid
    BY <1>1
  <2>3. /\ seg.segment \in DOMAIN dd.segs /\ state.valid /\ listedSegment(dd, k) = state
    <3>1. EntryWalks(dd, k)
      BY <2>2, ValidMeansWalks
    <3> QED BY <3>1 DEF EntryWalks, listedSegment
  <2>4. dd.segs[seg.segment] \in Seq(PartLine(log))
    BY <2>3 DEF Salvage
  <2>5. state.root_hash \in Parts(log) /\ state.tree_size = Len(state.root_hash)
    <3> HIDE DEF prev, offset, seg
    <3> QED BY <2>1, <2>3, <2>4, SoundIsPart
  <2>6. /\ state.root_hash = CarriedPrev(dd, k + 1)
        /\ state.tree_size = CarriedOffset(dd, k + 1)
    BY <1>1, <2>2, <2>3, ListedHandsOn
  <2> QED BY <1>1, <2>5, <2>6
<1> HIDE DEF T
<1>4. 0..n \subseteq T
  BY <1>1, <1>2, <1>3, BoundedInduction
<1> QED BY <1>4 DEF T

LEMMA FilesInvMeansTail == FilesInv => OnlyTheTailCanGo
<1> SUFFICES ASSUME FilesInv, walkAll(d).valid
             PROVE  /\ IsPrefix(walkAll(d).root_hash, honest)
                    /\ walkAll(d).tree_size = Len(walkAll(d).root_hash)
                    /\ walkAll(d).last_seq = walkAll(d).tree_size - 1
  BY DEF OnlyTheTailCanGo
<1> DEFINE v == verifyAllSegments(d)
           n == Len(d.manifest)
           prev == CarriedPrev(d, n + 1)
           offset == CarriedOffset(d, n + 1)
<1>1. DamagedType(d) /\ v = walkAll(d) /\ v.valid
  BY SalvageType, WalkAllIsVerify DEF FilesInv
<1>2. n \in Nat /\ DOMAIN d.manifest = 1..n /\ n \in 0..n
  BY <1>1, LenProperties DEF DamagedType, FilesType
<1>3. /\ \A i \in 1..n : listedSegment(d, i).valid
      /\ v = walkActive(d, prev, offset)
  BY <1>1, <1>2, BrokenType DEF verifyAllSegments
<1>4. prev \in Parts(honest) /\ offset = Len(prev)
  BY <1>2, <1>3, ListedIsPart DEF FilesInv
<1>5. d.hasActive /\ v = verifyChainStateFrom(d.active, prev, offset)
  BY <1>1, <1>3, BrokenType DEF walkActive
<1>6. d.active \in Seq(PartLine(honest)) /\ Numbered(honest)
  BY DEF FilesInv, Salvage
<1>7. /\ v.root_hash \in Parts(honest) /\ v.tree_size = Len(v.root_hash)
      /\ v.last_seq = v.tree_size - 1
  <2> HIDE DEF prev, offset
  <2> QED BY <1>1, <1>4, <1>5, <1>6, SoundIsPart
<1> QED BY <1>1, <1>7 DEF Parts

-----------------------------------------------------------------------------
(* Edits *)

LEMMA PartsOfHonest ==
  ASSUME Numbered(honest)
  PROVE  SomeHash \subseteq Parts(honest)
<1> SUFFICES ASSUME NEW n \in 0..Len(honest)
             PROVE  HeadOf([i \in DOMAIN honest |-> honest[i].event], n) \in Parts(honest)
  BY DEF SomeHash
<1> DEFINE events == [i \in DOMAIN honest |-> honest[i].event]
           head == HeadOf(events, n)
<1>1. honest \in Seq(Body) /\ Len(honest) \in Nat /\ DOMAIN honest = 1..Len(honest)
  BY LenProperties DEF Numbered, Hash
<1>2. ASSUME NEW i \in 1..n
      PROVE  [seq |-> i - 1, event |-> events[i]] = honest[i] /\ honest[i] \in Body
  <2>1. i \in DOMAIN honest
    BY <1>1
  <2>2. honest[i] \in Body /\ honest[i].seq = i - 1 /\ events[i] = honest[i].event
    BY <1>1, <2>1, ElementOfSeq DEF Numbered
  <2>3. \A b \in Body : b = [seq |-> b.seq, event |-> b.event]
    BY DEF Body
  <2> HIDE DEF events
  <2> QED BY <2>2, <2>3
<1>3. head = [i \in 1..n |-> [seq |-> i - 1, event |-> events[i]]]
  BY DEF HeadOf
<1>4. head = [i \in 1..n |-> honest[i]]
  <2> HIDE DEF events
  <2> QED BY <1>2, <1>3
<1> HIDE DEF head
<1>5. head \in Seq(Body) /\ Len(head) = n
  <2>1. n \in Nat /\ \A i \in 1..n : honest[i] \in Body
    BY <1>1, <1>2
  <2> QED BY <1>4, <2>1
<1>6. Len(head) <= Len(honest) /\ \A i \in 1..Len(head) : head[i] = honest[i]
  BY <1>1, <1>4, <1>5
<1>7. IsPrefix(head, honest)
  BY <1>1, <1>5, <1>6, PrefixAt
<1> QED BY <1>5, <1>7 DEF Parts, Hash, head

LEMMA ExceptAt ==
  ASSUME NEW f, NEW a \in DOMAIN f, NEW v
  PROVE  /\ DOMAIN [f EXCEPT ![a] = v] = DOMAIN f
         /\ [f EXCEPT ![a] = v][a] = v
         /\ \A x \in DOMAIN f : x # a => [f EXCEPT ![a] = v][x] = f[x]
OBVIOUS

\* One field of the files replaced by something of its type.
LEMMA SalvageFields ==
  ASSUME NEW dd, NEW log, Salvage(dd, log)
  PROVE  /\ \A lines \in Seq(PartLine(log)) : Salvage([dd EXCEPT !.active = lines], log)
         /\ \A files : DOMAIN files \subseteq Nat /\ (\A n \in DOMAIN files :
                         files[n] \in Seq(PartLine(log)))
                       => Salvage([dd EXCEPT !.segs = files], log)
         /\ \A entries \in Seq(PartEntry(log)) :
              dd.manifest # << >> => Salvage([dd EXCEPT !.manifest = entries], log)
<1>1. ASSUME NEW lines \in Seq(PartLine(log))
      PROVE  Salvage([dd EXCEPT !.active = lines], log)
  <2> DEFINE e == [dd EXCEPT !.active = lines]
  <2>1. /\ DOMAIN e = DOMAIN dd /\ e.active = lines
        /\ e.hasActive = dd.hasActive /\ e.segs = dd.segs
        /\ e.hasManifest = dd.hasManifest /\ e.manifest = dd.manifest
    BY DEF Salvage, Fields
  <2> HIDE DEF e
  <2>2. Salvage(e, log)
    BY <2>1 DEF Salvage
  <2> QED BY <2>2 DEF e
<1>2. ASSUME NEW files, DOMAIN files \subseteq Nat,
             \A n \in DOMAIN files : files[n] \in Seq(PartLine(log))
      PROVE  Salvage([dd EXCEPT !.segs = files], log)
  <2> DEFINE e == [dd EXCEPT !.segs = files]
  <2>1. /\ DOMAIN e = DOMAIN dd /\ e.segs = files
        /\ e.hasActive = dd.hasActive /\ e.active = dd.active
        /\ e.hasManifest = dd.hasManifest /\ e.manifest = dd.manifest
    BY DEF Salvage, Fields
  <2> HIDE DEF e
  <2>2. Salvage(e, log)
    BY <1>2, <2>1 DEF Salvage
  <2> QED BY <2>2 DEF e
<1>3. ASSUME NEW entries \in Seq(PartEntry(log)), dd.manifest # << >>
      PROVE  Salvage([dd EXCEPT !.manifest = entries], log)
  <2> DEFINE e == [dd EXCEPT !.manifest = entries]
  <2>1. /\ DOMAIN e = DOMAIN dd /\ e.manifest = entries
        /\ e.hasActive = dd.hasActive /\ e.active = dd.active
        /\ e.hasManifest = dd.hasManifest /\ e.segs = dd.segs
    BY DEF Salvage, Fields
  <2> HIDE DEF e
  <2>2. Salvage(e, log)
    BY <1>3, <2>1 DEF Salvage
  <2> QED BY <2>2 DEF e
<1> QED BY <1>1, <1>2, <1>3

LEMMA LinesOfType ==
  ASSUME FilesInv, NEW f \in Files
  PROVE  LinesOf(f) \in Seq(PartLine(honest))
BY DEF FilesInv, Salvage, Files, LinesOf

LEMMA WithLinesKeeps ==
  ASSUME FilesInv, NEW f \in Files, NEW lines \in Seq(PartLine(honest))
  PROVE  Salvage(WithLines(f, lines), honest)
<1>1. CASE f = 0
  BY <1>1, SalvageFields DEF FilesInv, WithLines
<1>2. CASE f # 0
  <2> DEFINE files == [d.segs EXCEPT ![f] = lines]
  <2>1. f \in DOMAIN d.segs
    BY <1>2 DEF Files
  <2>2. DOMAIN files \subseteq Nat /\ \A n \in DOMAIN files : files[n] \in Seq(PartLine(honest))
    BY <2>1, ExceptAt DEF FilesInv, Salvage
  <2>3. WithLines(f, lines) = [d EXCEPT !.segs = files]
    BY <1>2, <2>1 DEF WithLines
  <2> HIDE DEF files
  <2>4. Salvage(d, honest)
    BY DEF FilesInv
  <2>5. Salvage([d EXCEPT !.segs = files], honest)
    BY <2>2, <2>4, SalvageFields
  <2> QED BY <2>3, <2>5
<1> QED BY <1>1, <1>2

LEMMA RemoveAtType ==
  ASSUME NEW S, NEW s \in Seq(S), NEW i \in DOMAIN s
  PROVE  RemoveAt(s, i) \in Seq(S)
<1>1. i \in 1..Len(s) /\ Len(s) \in Nat
  BY LenProperties
<1>2. SubSeq(s, 1, i - 1) \in Seq(S) /\ SubSeq(s, i + 1, Len(s)) \in Seq(S)
  <2>1. \A j \in 1..(i-1) : s[j] \in S
    BY <1>1, ElementOfSeq
  <2>2. \A j \in (i+1)..Len(s) : s[j] \in S
    BY <1>1, ElementOfSeq
  <2> QED BY <1>1, <2>1, <2>2, SubSeqProperties
<1> QED BY <1>2, ConcatProperties DEF RemoveAt

LEMMA InsertAtType ==
  ASSUME NEW S, NEW s \in Seq(S), NEW i \in 1..(Len(s) + 1), NEW e \in S
  PROVE  InsertAt(s, i, e) \in Seq(S)
<1>1. Len(s) \in Nat
  BY LenProperties
<1>2. SubSeq(s, 1, i - 1) \in Seq(S) /\ SubSeq(s, i, Len(s)) \in Seq(S)
  <2>1. \A j \in 1..(i-1) : s[j] \in S
    BY <1>1, ElementOfSeq
  <2>2. \A j \in i..Len(s) : s[j] \in S
    BY <1>1, ElementOfSeq
  <2> QED BY <1>1, <2>1, <2>2, SubSeqProperties
<1>3. <<e>> \in Seq(S)
  OBVIOUS
<1> QED BY <1>2, <1>3, ConcatProperties DEF InsertAt

LEMMA EditKeeps ==
  ASSUME NEW new, FilesInv, Salvage(new, honest), Edit(new)
  PROVE  FilesInv'
BY DEF Edit, FilesInv

LEMMA DropLineKeeps == FilesInv /\ DropLine => FilesInv'
<1> SUFFICES ASSUME FilesInv, NEW f \in Files, NEW i \in DOMAIN LinesOf(f),
                    Edit(WithLines(f, RemoveAt(LinesOf(f), i)))
             PROVE  FilesInv'
  BY DEF DropLine
<1>1. RemoveAt(LinesOf(f), i) \in Seq(PartLine(honest))
  BY LinesOfType, RemoveAtType
<1>2. Salvage(WithLines(f, RemoveAt(LinesOf(f), i)), honest)
  BY <1>1, WithLinesKeeps
<1> QED BY <1>2, EditKeeps

LEMMA CopyLineKeeps == FilesInv /\ CopyLine => FilesInv'
<1> SUFFICES ASSUME FilesInv, NEW f \in Files, NEW g \in Files, NEW i \in DOMAIN LinesOf(f),
                    NEW j \in 1..(Len(LinesOf(g)) + 1),
                    Edit(WithLines(g, InsertAt(LinesOf(g), j, LinesOf(f)[i])))
             PROVE  FilesInv'
  BY DEF CopyLine
<1>1. LinesOf(f)[i] \in PartLine(honest)
  BY LinesOfType, LenProperties, ElementOfSeq
<1>2. InsertAt(LinesOf(g), j, LinesOf(f)[i]) \in Seq(PartLine(honest))
  BY <1>1, LinesOfType, InsertAtType
<1>3. Salvage(WithLines(g, InsertAt(LinesOf(g), j, LinesOf(f)[i])), honest)
  BY <1>2, WithLinesKeeps
<1> QED BY <1>3, EditKeeps

LEMMA CopySegmentKeeps == FilesInv /\ CopySegment => FilesInv'
<1> SUFFICES ASSUME FilesInv, NEW n \in DOMAIN d.segs, NEW k \in 1..(Len(honest) + 1),
                    Edit([d EXCEPT !.segs = [x \in DOMAIN d.segs \cup {k} |->
                                               IF x = k THEN d.segs[n] ELSE d.segs[x]]])
             PROVE  FilesInv'
  BY DEF CopySegment
<1> DEFINE files == [x \in DOMAIN d.segs \cup {k} |-> IF x = k THEN d.segs[n] ELSE d.segs[x]]
<1>1. Len(honest) \in Nat
  BY LenProperties DEF FilesInv, Numbered, Hash
<1>2. DOMAIN files \subseteq Nat /\ \A x \in DOMAIN files : files[x] \in Seq(PartLine(honest))
  BY <1>1 DEF FilesInv, Salvage
<1> HIDE DEF files
<1>3. Salvage([d EXCEPT !.segs = files], honest)
  BY <1>2, SalvageFields DEF FilesInv
<1>4. Edit([d EXCEPT !.segs = files])
  BY DEF files
<1> QED BY <1>3, <1>4, EditKeeps

LEMMA DropFileKeeps == FilesInv /\ DropFile => FilesInv'
<1> SUFFICES ASSUME FilesInv, DropFile
             PROVE  FilesInv'
  OBVIOUS
<1>1. ASSUME NEW n \in DOMAIN d.segs,
             Edit([d EXCEPT !.segs = [k \in DOMAIN d.segs \ {n} |-> d.segs[k]]])
      PROVE  FilesInv'
  <2> DEFINE files == [k \in DOMAIN d.segs \ {n} |-> d.segs[k]]
  <2>1. DOMAIN files \subseteq Nat /\ \A x \in DOMAIN files : files[x] \in Seq(PartLine(honest))
    BY DEF FilesInv, Salvage
  <2> HIDE DEF files
  <2>2. Salvage([d EXCEPT !.segs = files], honest)
    BY <2>1, SalvageFields DEF FilesInv
  <2>3. Edit([d EXCEPT !.segs = files])
    BY <1>1 DEF files
  <2> QED BY <2>2, <2>3, EditKeeps
<1>2. CASE Edit([d EXCEPT !.hasActive = FALSE, !.active = << >>])
  <2> DEFINE e == [d EXCEPT !.hasActive = FALSE, !.active = << >>]
  <2>1. /\ DOMAIN e = DOMAIN d /\ e.hasActive = FALSE /\ e.active = << >>
        /\ e.segs = d.segs /\ e.hasManifest = d.hasManifest /\ e.manifest = d.manifest
    BY DEF FilesInv, Salvage, Fields
  <2> HIDE DEF e
  <2>2. << >> \in Seq(PartLine(honest)) /\ << >> \in Seq(PartEntry(honest))
    OBVIOUS
  <2>3. Salvage(e, honest)
    BY <2>1, <2>2 DEF FilesInv, Salvage
  <2> QED BY <1>2, <2>3, EditKeeps DEF e
<1>3. CASE Edit([d EXCEPT !.hasManifest = FALSE, !.manifest = << >>])
  <2> DEFINE e == [d EXCEPT !.hasManifest = FALSE, !.manifest = << >>]
  <2>1. /\ DOMAIN e = DOMAIN d /\ e.hasActive = d.hasActive /\ e.active = d.active
        /\ e.segs = d.segs /\ e.hasManifest = FALSE /\ e.manifest = << >>
    BY DEF FilesInv, Salvage, Fields
  <2> HIDE DEF e
  <2>2. << >> \in Seq(PartLine(honest)) /\ << >> \in Seq(PartEntry(honest))
    OBVIOUS
  <2>3. Salvage(e, honest)
    BY <2>1, <2>2 DEF FilesInv, Salvage
  <2> QED BY <1>3, <2>3, EditKeeps DEF e
<1> QED BY <1>1, <1>2, <1>3 DEF DropFile

LEMMA DropEntryKeeps == FilesInv /\ DropEntry => FilesInv'
<1> SUFFICES ASSUME FilesInv, NEW i \in DOMAIN d.manifest,
                    Edit([d EXCEPT !.manifest = RemoveAt(d.manifest, i)])
             PROVE  FilesInv'
  BY DEF DropEntry
<1>1. d.manifest \in Seq(PartEntry(honest)) /\ d.manifest # << >>
  BY EmptySeq, LenProperties DEF FilesInv, Salvage
<1>2. RemoveAt(d.manifest, i) \in Seq(PartEntry(honest))
  BY <1>1, RemoveAtType
<1>3. Salvage([d EXCEPT !.manifest = RemoveAt(d.manifest, i)], honest)
  BY <1>1, <1>2, SalvageFields DEF FilesInv
<1> QED BY <1>3, EditKeeps
LEMMA ChangedLineType ==
  ASSUME NEW log, NEW line \in PartLine(log)
  PROVE  /\ \A e \in Event : [line EXCEPT !.rec.event = e] \in PartLine(log)
         /\ \A n \in Nat : [line EXCEPT !.rec.seq = n] \in PartLine(log)
         /\ \A g \in Parts(log) : [line EXCEPT !.rec.prev_hash = g] \in PartLine(log)
         /\ \A g \in Parts(log) : [line EXCEPT !.rec.hash = g] \in PartLine(log)
         /\ [line EXCEPT !.kind = "junk"] \in PartLine(log)
<1>1. line \in Line /\ line.rec \in Record /\ Parts(log) \subseteq Hash
  BY DEF PartLine, Line, Parts
<1>2. ASSUME NEW e \in Event
      PROVE  [line EXCEPT !.rec.event = e] \in PartLine(log)
  BY <1>1 DEF PartLine, Line, Record
<1>3. ASSUME NEW n \in Nat
      PROVE  [line EXCEPT !.rec.seq = n] \in PartLine(log)
  BY <1>1 DEF PartLine, Line, Record
<1>4. ASSUME NEW g \in Parts(log)
      PROVE  [line EXCEPT !.rec.prev_hash = g] \in PartLine(log)
  BY <1>1 DEF PartLine, Line, Record
<1>5. ASSUME NEW g \in Parts(log)
      PROVE  [line EXCEPT !.rec.hash = g] \in PartLine(log)
  BY <1>1 DEF PartLine, Line, Record
<1>6. [line EXCEPT !.kind = "junk"] \in PartLine(log)
  BY <1>1 DEF PartLine, Line
<1> QED BY <1>2, <1>3, <1>4, <1>5, <1>6

LEMMA ChangedEntryType ==
  ASSUME NEW log, NEW entry \in PartEntry(log)
  PROVE  /\ \A n \in Nat : [entry EXCEPT !.first_seq = n] \in PartEntry(log)
         /\ \A n \in Nat : [entry EXCEPT !.last_seq = n] \in PartEntry(log)
         /\ \A g \in Parts(log) : [entry EXCEPT !.start_prev_hash = g] \in PartEntry(log)
         /\ \A g \in Parts(log) : [entry EXCEPT !.end_hash = g] \in PartEntry(log)
         /\ \A k \in Nat : [entry EXCEPT !.segment = k] \in PartEntry(log)
<1>1. entry \in Entry /\ Parts(log) \subseteq Hash
  BY DEF PartEntry, Parts
<1>2. ASSUME NEW n \in Nat
      PROVE  /\ [entry EXCEPT !.first_seq = n] \in PartEntry(log)
             /\ [entry EXCEPT !.last_seq = n] \in PartEntry(log)
             /\ [entry EXCEPT !.segment = n] \in PartEntry(log)
  BY <1>1 DEF PartEntry, Entry
<1>3. ASSUME NEW g \in Parts(log)
      PROVE  /\ [entry EXCEPT !.start_prev_hash = g] \in PartEntry(log)
             /\ [entry EXCEPT !.end_hash = g] \in PartEntry(log)
  BY <1>1 DEF PartEntry, Entry
<1> QED BY <1>2, <1>3
\* A line replaced in its file, or an entry in the manifest.
LEMMA ReplaceLineKeeps ==
  ASSUME FilesInv, NEW f \in Files, NEW i \in DOMAIN LinesOf(f),
         NEW line \in PartLine(honest), Edit(WithLines(f, [LinesOf(f) EXCEPT ![i] = line]))
  PROVE  FilesInv'
<1>1. LinesOf(f) \in Seq(PartLine(honest)) /\ i \in 1..Len(LinesOf(f))
  BY LinesOfType, LenProperties
<1>2. [LinesOf(f) EXCEPT ![i] = line] \in Seq(PartLine(honest))
  BY <1>1, ExceptSeq
<1>3. Salvage(WithLines(f, [LinesOf(f) EXCEPT ![i] = line]), honest)
  BY <1>2, WithLinesKeeps
<1> QED BY <1>3, EditKeeps

LEMMA ReplaceEntryKeeps ==
  ASSUME FilesInv, NEW i \in DOMAIN d.manifest, NEW entry \in PartEntry(honest),
         Edit([d EXCEPT !.manifest = [d.manifest EXCEPT ![i] = entry]])
  PROVE  FilesInv'
<1>1. d.manifest \in Seq(PartEntry(honest)) /\ i \in 1..Len(d.manifest) /\ d.manifest # << >>
  BY EmptySeq, LenProperties DEF FilesInv, Salvage
<1>2. [d.manifest EXCEPT ![i] = entry] \in Seq(PartEntry(honest))
  BY <1>1, ExceptSeq
<1>3. Salvage(d, honest)
  BY DEF FilesInv
<1>4. Salvage([d EXCEPT !.manifest = [d.manifest EXCEPT ![i] = entry]], honest)
  BY <1>1, <1>2, <1>3, SalvageFields
<1> QED BY <1>4, EditKeeps

LEMMA ChangeRecordKeeps == FilesInv /\ ChangeRecord => FilesInv'
<1> SUFFICES ASSUME FilesInv, ChangeRecord
             PROVE  FilesInv'
  OBVIOUS
<1>0. PICK f \in Files : \E i \in DOMAIN LinesOf(f) : LET lines == LinesOf(f) IN
        \/ \E e \in Event : Edit(WithLines(f, [lines EXCEPT ![i].rec.event = e]))
        \/ \E n \in 0..MaxRecords : Edit(WithLines(f, [lines EXCEPT ![i].rec.seq = n]))
        \/ \E g \in SomeHash : Edit(WithLines(f, [lines EXCEPT ![i].rec.prev_hash = g]))
        \/ \E g \in SomeHash : Edit(WithLines(f, [lines EXCEPT ![i].rec.hash = g]))
        \/ Edit(WithLines(f, [lines EXCEPT ![i].kind = "junk"]))
  BY DEF ChangeRecord
<1> DEFINE lines == LinesOf(f)
<1>1. PICK i \in DOMAIN lines :
        \/ \E e \in Event : Edit(WithLines(f, [lines EXCEPT ![i].rec.event = e]))
        \/ \E n \in 0..MaxRecords : Edit(WithLines(f, [lines EXCEPT ![i].rec.seq = n]))
        \/ \E g \in SomeHash : Edit(WithLines(f, [lines EXCEPT ![i].rec.prev_hash = g]))
        \/ \E g \in SomeHash : Edit(WithLines(f, [lines EXCEPT ![i].rec.hash = g]))
        \/ Edit(WithLines(f, [lines EXCEPT ![i].kind = "junk"]))
  BY <1>0
<1> DEFINE line == lines[i]
<1>2. line \in PartLine(honest)
  BY LinesOfType, LenProperties, ElementOfSeq
<1>3. SomeHash \subseteq Parts(honest) /\ 0..MaxRecords \subseteq Nat
  BY PartsOfHonest DEF FilesInv
<1>4. ASSUME NEW e \in Event, Edit(WithLines(f, [lines EXCEPT ![i].rec.event = e]))
      PROVE  FilesInv'
  <2>1. [line EXCEPT !.rec.event = e] \in PartLine(honest)
    BY <1>2, ChangedLineType
  <2> QED BY <1>4, <2>1, ReplaceLineKeeps
<1>5. ASSUME NEW n \in 0..MaxRecords, Edit(WithLines(f, [lines EXCEPT ![i].rec.seq = n]))
      PROVE  FilesInv'
  <2>1. [line EXCEPT !.rec.seq = n] \in PartLine(honest)
    BY <1>2, <1>3, ChangedLineType
  <2> QED BY <1>5, <2>1, ReplaceLineKeeps
<1>6. ASSUME NEW g \in SomeHash, Edit(WithLines(f, [lines EXCEPT ![i].rec.prev_hash = g]))
      PROVE  FilesInv'
  <2>1. [line EXCEPT !.rec.prev_hash = g] \in PartLine(honest)
    BY <1>2, <1>3, ChangedLineType
  <2> QED BY <1>6, <2>1, ReplaceLineKeeps
<1>7. ASSUME NEW g \in SomeHash, Edit(WithLines(f, [lines EXCEPT ![i].rec.hash = g]))
      PROVE  FilesInv'
  <2>1. [line EXCEPT !.rec.hash = g] \in PartLine(honest)
    BY <1>2, <1>3, ChangedLineType
  <2> QED BY <1>7, <2>1, ReplaceLineKeeps
<1>8. ASSUME Edit(WithLines(f, [lines EXCEPT ![i].kind = "junk"]))
      PROVE  FilesInv'
  <2>1. [line EXCEPT !.kind = "junk"] \in PartLine(honest)
    BY <1>2, ChangedLineType
  <2> QED BY <1>8, <2>1, ReplaceLineKeeps
<1> QED BY <1>1, <1>4, <1>5, <1>6, <1>7, <1>8

LEMMA ChangeEntryKeeps == FilesInv /\ ChangeEntry => FilesInv'
<1> SUFFICES ASSUME FilesInv, ChangeEntry
             PROVE  FilesInv'
  OBVIOUS
<1>1. PICK i \in DOMAIN d.manifest :
        \/ \E n \in 0..MaxRecords : Edit([d EXCEPT !.manifest[i].first_seq = n])
        \/ \E n \in 0..MaxRecords : Edit([d EXCEPT !.manifest[i].last_seq = n])
        \/ \E g \in SomeHash : Edit([d EXCEPT !.manifest[i].start_prev_hash = g])
        \/ \E g \in SomeHash : Edit([d EXCEPT !.manifest[i].end_hash = g])
        \/ \E k \in DOMAIN d.segs : Edit([d EXCEPT !.manifest[i].segment = k])
  BY DEF ChangeEntry
<1> DEFINE entry == d.manifest[i]
<1>2. entry \in PartEntry(honest)
  BY LenProperties, ElementOfSeq DEF FilesInv, Salvage
<1>3. /\ SomeHash \subseteq Parts(honest) /\ 0..MaxRecords \subseteq Nat
      /\ DOMAIN d.segs \subseteq Nat
  BY PartsOfHonest DEF FilesInv, Salvage
<1>4. ASSUME NEW n \in 0..MaxRecords, Edit([d EXCEPT !.manifest[i].first_seq = n])
      PROVE  FilesInv'
  <2>1. [entry EXCEPT !.first_seq = n] \in PartEntry(honest)
    BY <1>2, <1>3, ChangedEntryType
  <2> QED BY <1>4, <2>1, ReplaceEntryKeeps
<1>5. ASSUME NEW n \in 0..MaxRecords, Edit([d EXCEPT !.manifest[i].last_seq = n])
      PROVE  FilesInv'
  <2>1. [entry EXCEPT !.last_seq = n] \in PartEntry(honest)
    BY <1>2, <1>3, ChangedEntryType
  <2> QED BY <1>5, <2>1, ReplaceEntryKeeps
<1>6. ASSUME NEW g \in SomeHash, Edit([d EXCEPT !.manifest[i].start_prev_hash = g])
      PROVE  FilesInv'
  <2>1. [entry EXCEPT !.start_prev_hash = g] \in PartEntry(honest)
    BY <1>2, <1>3, ChangedEntryType
  <2> QED BY <1>6, <2>1, ReplaceEntryKeeps
<1>7. ASSUME NEW g \in SomeHash, Edit([d EXCEPT !.manifest[i].end_hash = g])
      PROVE  FilesInv'
  <2>1. [entry EXCEPT !.end_hash = g] \in PartEntry(honest)
    BY <1>2, <1>3, ChangedEntryType
  <2> QED BY <1>7, <2>1, ReplaceEntryKeeps
<1>8. ASSUME NEW k \in DOMAIN d.segs, Edit([d EXCEPT !.manifest[i].segment = k])
      PROVE  FilesInv'
  <2>1. [entry EXCEPT !.segment = k] \in PartEntry(honest)
    BY <1>2, <1>3, ChangedEntryType
  <2> QED BY <1>8, <2>1, ReplaceEntryKeeps
<1> QED BY <1>1, <1>4, <1>5, <1>6, <1>7, <1>8

-----------------------------------------------------------------------------
(* The honest log before any edit *)

LEMMA HeadOfType ==
  ASSUME NEW n \in Nat, NEW events \in [1..n -> Event], NEW m \in 0..n
  PROVE  /\ HeadOf(events, m) \in Hash /\ Len(HeadOf(events, m)) = m
         /\ \A i \in 1..m : HeadOf(events, m)[i] = [seq |-> i - 1, event |-> events[i]]
<1>1. HeadOf(events, m) = [i \in 1..m |-> [seq |-> i - 1, event |-> events[i]]]
  BY DEF HeadOf
<1>2. \A i \in 1..m : [seq |-> i - 1, event |-> events[i]] \in Body
  BY DEF Body
<1> QED BY <1>1, <1>2 DEF Hash

LEMMA HeadOfIsPart ==
  ASSUME NEW n \in Nat, NEW events \in [1..n -> Event], NEW m \in 0..n
  PROVE  HeadOf(events, m) \in Parts(HeadOf(events, n))
<1>1. /\ HeadOf(events, m) \in Hash /\ Len(HeadOf(events, m)) = m
      /\ \A i \in 1..m : HeadOf(events, m)[i] = [seq |-> i - 1, event |-> events[i]]
  BY HeadOfType
<1>2. /\ HeadOf(events, n) \in Hash /\ Len(HeadOf(events, n)) = n
      /\ \A i \in 1..n : HeadOf(events, n)[i] = [seq |-> i - 1, event |-> events[i]]
  BY HeadOfType
<1>3. \A i \in 1..m : HeadOf(events, m)[i] = HeadOf(events, n)[i]
  BY <1>1, <1>2
<1>4. IsPrefix(HeadOf(events, m), HeadOf(events, n))
  <2> DEFINE s == HeadOf(events, m)
             t == HeadOf(events, n)
  <2>1. /\ s \in Seq(Body) /\ t \in Seq(Body) /\ Len(s) = m /\ Len(t) = n
        /\ \A i \in 1..m : s[i] = t[i]
    BY <1>1, <1>2, <1>3 DEF Hash
  <2> HIDE DEF s, t
  <2>2. IsPrefix(s, t)
    BY <2>1, PrefixAt
  <2> QED BY <2>2 DEF s, t
<1> QED BY <1>1, <1>4 DEF Parts

LEMMA HonestLineIsPart ==
  ASSUME NEW n \in Nat, NEW events \in [1..n -> Event], NEW i \in 1..n
  PROVE  HonestLine(events, i) \in PartLine(HeadOf(events, n))
<1> DEFINE body == [seq |-> i - 1, event |-> events[i]]
           rec == NewRecord(i - 1, HeadOf(events, i - 1), events[i])
<1>1. i - 1 \in 0..n /\ i \in 0..n /\ i - 1 \in Nat /\ events[i] \in Event
  OBVIOUS
<1>2. HeadOf(events, i - 1) \in Hash
  BY <1>1, HeadOfType
<1>3. HeadOf(events, i) = Append(HeadOf(events, i - 1), body)
  <2> DEFINE s == HeadOf(events, i)
             t == HeadOf(events, i - 1)
             u == Append(t, body)
  <2>1. /\ s \in Hash /\ Len(s) = i
        /\ \A k \in 1..i : s[k] = [seq |-> k - 1, event |-> events[k]]
    BY <1>1, HeadOfType
  <2>2. /\ t \in Hash /\ Len(t) = i - 1
        /\ \A k \in 1..(i-1) : t[k] = [seq |-> k - 1, event |-> events[k]]
    BY <1>1, HeadOfType
  <2>3. body \in Body
    BY <1>1 DEF Body
  <2> HIDE DEF s, t
  <2>4. /\ u \in Seq(Body) /\ Len(u) = i /\ u[i] = body /\ \A k \in 1..(i-1) : u[k] = t[k]
    BY <2>2, <2>3, AppendProperties DEF Hash
  <2>5. \A k \in 1..i : s[k] = u[k]
    <3> SUFFICES ASSUME NEW k \in 1..i
                 PROVE  s[k] = u[k]
      OBVIOUS
    <3>1. CASE k = i
      BY <2>1, <2>4, <3>1
    <3>2. CASE k # i
      <4>1. k \in 1..(i-1)
        BY <3>2
      <4> QED BY <2>1, <2>2, <2>4, <4>1
    <3> QED BY <3>1, <3>2
  <2> HIDE DEF u
  <2>6. s = u
    BY <2>1, <2>4, <2>5, SeqEqual DEF Hash
  <2> QED BY <2>6 DEF s, u, t
<1>4. rec \in Record
  BY <1>1, <1>2, NewRecordType
<1>5. /\ rec.prev_hash = HeadOf(events, i - 1) /\ rec.hash = HeadOf(events, i)
      /\ rec.prev_hash \in Parts(HeadOf(events, n)) /\ rec.hash \in Parts(HeadOf(events, n))
  <2>1. rec.prev_hash = HeadOf(events, i - 1) /\ rec.hash = HeadOf(events, i)
    BY <1>3 DEF NewRecord, hashRecord
  <2> QED BY <1>1, <2>1, HeadOfIsPart
<1> HIDE DEF rec
<1>6. Whole(rec) \in PartLine(HeadOf(events, n))
  BY <1>4, <1>5, LineTypes DEF PartLine, Whole
<1> QED BY <1>6 DEF HonestLine, rec

LEMMA PieceType ==
  ASSUME NEW n \in Nat, NEW events \in [1..n -> Event], NEW a \in 0..n, NEW b \in 0..n, a <= b
  PROVE  [j \in 1..(b - a) |-> HonestLine(events, a + j)] \in Seq(PartLine(HeadOf(events, n)))
<1>1. b - a \in Nat
  OBVIOUS
<1>2. ASSUME NEW j \in 1..(b - a)
      PROVE  HonestLine(events, a + j) \in PartLine(HeadOf(events, n))
  <2>1. a + j \in 1..n
    OBVIOUS
  <2> QED BY <2>1, HonestLineIsPart
<1> QED BY <1>1, <1>2

LEMMA InitInv == EditsInit => FilesInv
<1> SUFFICES ASSUME NEW n \in 0..MaxRecords, NEW events \in [1..n -> Event],
                    NEW cuts \in Increasing(n),
                    d = HonestDisk(events, cuts), honest = HeadOf(events, n)
             PROVE  FilesInv
  BY DEF EditsInit
<1> DEFINE from(k) == IF k = 1 THEN 0 ELSE cuts[k-1]
           piece(a, b) == [j \in 1..(b - a) |-> HonestLine(events, a + j)]
           last == IF cuts = << >> THEN 0 ELSE Last(cuts)
           files == [k \in DOMAIN cuts |-> piece(from(k), cuts[k])]
           entries == [k \in DOMAIN cuts |->
             [segment |-> k, first_seq |-> from(k), last_seq |-> cuts[k] - 1,
              start_prev_hash |-> HeadOf(events, from(k)),
              end_hash |-> HeadOf(events, cuts[k])]]
<1>1. n \in Nat /\ Len(events) = n
  <2>1. n \in Nat
    BY BoundsAssumption
  <2>2. events \in Seq(Event)
    BY <2>1
  <2> QED BY <2>1, <2>2, LenProperties
<1>2. PICK k \in 0..n : cuts \in [1..k -> 1..n]
  BY DEF Increasing
<1>3. /\ DOMAIN cuts = 1..k /\ cuts \in Seq(1..n) /\ Len(cuts) = k /\ k \in Nat
      /\ \A i \in 1..(k-1) : cuts[i] < cuts[i+1]
  <2>1. k \in Nat /\ cuts \in Seq(1..n)
    BY <1>1, <1>2
  <2>2. Len(cuts) = k /\ DOMAIN cuts = 1..k
    BY <1>2, <2>1, LenProperties
  <2> QED BY <2>1, <2>2 DEF Increasing
<1>4. ASSUME NEW i \in 1..k
      PROVE  cuts[i] \in 1..n /\ from(i) \in 0..n /\ from(i) <= cuts[i]
  <2>1. cuts[i] \in 1..n
    BY <1>2
  <2>2. CASE i = 1
    BY <1>1, <2>1, <2>2
  <2>3. CASE i # 1
    <3>1. i - 1 \in 1..(k-1) /\ i - 1 \in 1..k /\ (i - 1) + 1 = i
      BY <1>3, <2>3
    <3>2. cuts[i-1] \in 1..n /\ cuts[i-1] < cuts[i]
      BY <1>2, <1>3, <3>1
    <3> QED BY <1>1, <2>1, <2>3, <3>2
  <2> QED BY <2>2, <2>3
<1>5. last \in 0..n
  <2>1. CASE cuts = << >>
    BY <1>1, <2>1
  <2>2. CASE cuts # << >>
    <3>1. k \in 1..k
      BY <1>3, <2>2, EmptySeq
    <3>2. Last(cuts) = cuts[k]
      BY <1>3 DEF Last
    <3> QED BY <1>4, <2>2, <3>1, <3>2
  <2> QED BY <2>1, <2>2
<1>6. piece(last, n) \in Seq(PartLine(honest))
  <2> HIDE DEF last
  <2>1. last <= n /\ n \in 0..n
    BY <1>1, <1>5
  <2> QED BY <1>1, <1>5, <2>1, PieceType
<1>7. ASSUME NEW i \in 1..k
      PROVE  /\ piece(from(i), cuts[i]) \in Seq(PartLine(honest))
             /\ entries[i] \in PartEntry(honest)
  <2>1. cuts[i] \in 0..n /\ from(i) \in 0..n /\ from(i) <= cuts[i] /\ cuts[i] - 1 \in Nat
    BY <1>1, <1>4
  <2>2. HeadOf(events, from(i)) \in Parts(honest) /\ HeadOf(events, cuts[i]) \in Parts(honest)
    <3> HIDE DEF from
    <3> QED BY <1>1, <2>1, HeadOfIsPart
  <2>3. piece(from(i), cuts[i]) \in Seq(PartLine(honest))
    <3> HIDE DEF from
    <3> QED BY <1>1, <2>1, PieceType
  <2>4. entries[i] = [segment |-> i, first_seq |-> from(i), last_seq |-> cuts[i] - 1,
                      start_prev_hash |-> HeadOf(events, from(i)),
                      end_hash |-> HeadOf(events, cuts[i])]
    BY <1>3
  <2> HIDE DEF from, entries
  <2>5. entries[i] \in PartEntry(honest)
    BY <2>1, <2>2, <2>4 DEF PartEntry, Entry, Parts
  <2> QED BY <2>3, <2>5
<1>8. entries \in Seq(PartEntry(honest))
  <2>1. DOMAIN entries = 1..k /\ entries = [i \in 1..k |-> entries[i]]
    BY <1>3
  <2>2. \A i \in 1..k : entries[i] \in PartEntry(honest)
    BY <1>7
  <2> HIDE DEF entries
  <2>3. [i \in 1..k |-> entries[i]] \in Seq(PartEntry(honest))
    BY <1>3, <2>2
  <2> QED BY <2>1, <2>3
<1>9. d = [hasActive |-> TRUE, active |-> piece(last, n), segs |-> files,
           hasManifest |-> cuts # << >>, manifest |-> entries]
  BY <1>1 DEF HonestDisk
<1>10. /\ DOMAIN files \subseteq Nat /\ DOMAIN files = 1..k
       /\ \A i \in DOMAIN files : files[i] = piece(from(i), cuts[i])
  BY <1>3
<1>11. cuts = << >> => entries = << >>
  <2>1. cuts = << >> => k = 0
    BY <1>3, EmptySeq
  <2>2. Len(entries) = k
    <3>1. DOMAIN entries = 1..k
      BY <1>3
    <3> HIDE DEF entries
    <3> QED BY <1>3, <1>8, <3>1, LenProperties
  <2> HIDE DEF entries
  <2> QED BY <1>8, <2>1, <2>2, EmptySeq
<1>12. Salvage(d, honest)
  <2>1. /\ DOMAIN files \subseteq Nat
        /\ \A i \in DOMAIN files : files[i] \in Seq(PartLine(honest))
    <3> HIDE DEF files, piece, from
    <3> QED BY <1>7, <1>10
  <2> DEFINE lines == piece(last, n)
  <2>2. lines \in Seq(PartLine(honest))
    BY <1>6
  <2> HIDE DEF files, entries, lines
  <2>3. /\ DOMAIN d = Fields /\ d.hasActive = TRUE /\ d.active = lines /\ d.segs = files
        /\ d.hasManifest = (cuts # << >>) /\ d.manifest = entries
    BY <1>9 DEF Fields, lines
  <2> QED BY <1>8, <1>11, <2>1, <2>2, <2>3 DEF Salvage
<1>13. Numbered(honest)
  <2>1. n \in 0..n
    BY <1>1
  <2>2. /\ honest \in Hash /\ Len(honest) = n
        /\ \A i \in 1..n : honest[i] = [seq |-> i - 1, event |-> events[i]]
    BY <1>1, <2>1, HeadOfType
  <2> QED BY <2>2 DEF Numbered
<1> QED BY <1>12, <1>13 DEF FilesInv

LEMMA FilesInvStep == FilesInv /\ [EditsNext]_editsVars => FilesInv'
<1> SUFFICES ASSUME FilesInv, [EditsNext]_editsVars
             PROVE  FilesInv'
  OBVIOUS
<1>1. CASE UNCHANGED editsVars
  BY <1>1 DEF editsVars, FilesInv
<1>2. CASE EditsNext
  BY <1>2, ChangeRecordKeeps, DropLineKeeps, CopyLineKeeps, DropFileKeeps,
     CopySegmentKeeps, ChangeEntryKeeps, DropEntryKeeps DEF EditsNext
<1> QED BY <1>1, <1>2

-----------------------------------------------------------------------------
(***************************************************************************)
(* Whatever the edits, the hashes in the files are those of the honest     *)
(* log, and the files have the shape that the walkers of the code expect.  *)
(***************************************************************************)
THEOREM FilesInvHolds == EditsSpec => []FilesInv
BY InitInv, FilesInvStep, PTL DEF EditsSpec

(***************************************************************************)
(* The closed forms of the verdict, which the models and the other proofs  *)
(* use, are what the loops of verifyChainStateFrom and verifyAllSegments   *)
(* compute: on logs of any length, cut anyhow, after any number of edits.  *)
(***************************************************************************)
THEOREM LoopsAreClosedForms == EditsSpec => []ClosedFormIsTheLoop
<1>1. FilesInv => ClosedFormIsTheLoop
  BY SalvageType, WalkAllIsVerify DEF FilesInv, ClosedFormIsTheLoop
<1> QED BY <1>1, FilesInvHolds, PTL

(***************************************************************************)
(* What verify accepts, of files that were edited in any way without       *)
(* computing hashes anew, is the honest history up to some record.         *)
(***************************************************************************)
THEOREM AcceptedIsHonest == EditsSpec => []OnlyTheTailCanGo
BY FilesInvMeansTail, FilesInvHolds, PTL
=============================================================================
