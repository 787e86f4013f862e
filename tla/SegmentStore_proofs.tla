------------------------- MODULE SegmentStore_proofs --------------------------
(***************************************************************************)
(* Lemmas on records, files and the verdict on them, for whatever writes   *)
(* them: what the operators of HashChain and SegmentStore return, which    *)
(* files stay sound and which stay damaged, and what a passing entry of    *)
(* the manifest says.                                                      *)
(***************************************************************************)
EXTENDS SegmentStore, SequenceTheorems, WellFoundedInduction, TLAPS

\* The head of a sound file that starts at a given head.
HeadAfter(lines, start) == IF lines = << >> THEN start ELSE Last(lines).rec.hash

-----------------------------------------------------------------------------
(* Numbers, and functions that are defined by recursion on them *)

LEMMA LeastElement ==
  ASSUME NEW T, T \subseteq Nat, T # {}
  PROVE  \E n \in T : \A m \in T : n <= m
<1>1. PICK n \in T : \A m \in T : ~(<<m, n>> \in OpToRel(<, Nat))
  BY NatLessThanWellFounded, WFMin
<1>2. \A m \in T : <<m, n>> \in OpToRel(<, Nat) <=> m < n
  BY DEF OpToRel
<1>3. \A m \in T : ~(m < n)
  BY <1>1, <1>2
<1>4. \A m \in T : m \in Nat /\ n \in Nat
  OBVIOUS
<1> QED BY <1>3, <1>4

LEMMA SetInduction ==
  ASSUME NEW T, 0 \in T, \A n \in Nat : n \in T => n + 1 \in T
  PROVE  Nat \subseteq T
<1> SUFFICES ASSUME Nat \ T # {}
             PROVE  FALSE
  OBVIOUS
<1>1. PICK n \in Nat \ T : \A m \in Nat \ T : n <= m
  BY LeastElement
<1>2. n # 0 /\ n - 1 \in Nat /\ ~(n <= n - 1)
  BY <1>1
<1>3. n - 1 \in T
  BY <1>1, <1>2
<1> QED BY <1>1, <1>2, <1>3

\* Induction up to a bound.
LEMMA BoundedInduction ==
  ASSUME NEW n \in Nat, NEW T, 0 \in T,
         \A i \in 1..n : i - 1 \in T => i \in T
  PROVE  0..n \subseteq T
<1> DEFINE U == {i \in Nat : i <= n => i \in T}
<1>1. 0 \in U
  OBVIOUS
<1>2. ASSUME NEW i \in Nat, i \in U
      PROVE  i + 1 \in U
  <2>1. i + 1 <= n => i + 1 \in 1..n /\ (i + 1) - 1 = i /\ i \in T
    BY <1>2
  <2> QED BY <2>1
<1> HIDE DEF U
<1>3. Nat \subseteq U
  BY <1>1, <1>2, SetInduction
<1> USE DEF U
<1> QED BY <1>3

\* What rounds 1..n make of a base, when round i is the function next[i].
Orbits(n, S, base, next) ==
  {f \in [0..n -> S] : f[0] = base /\ \A i \in 1..n : f[i] = next[i][f[i-1]]}

LEMMA RecursionExists ==
  ASSUME NEW n \in Nat, NEW S, NEW base \in S, NEW next \in [1..n -> [S -> S]]
  PROVE  Orbits(n, S, base, next) # {}
<1> DEFINE Upto(k) == \E f \in [0..k -> S] :
                        f[0] = base /\ \A i \in 1..k : f[i] = next[i][f[i-1]]
           T == {k \in 0..n : Upto(k)}
<1>1. 0 \in T
  <2> DEFINE f == [i \in 0..0 |-> base]
  <2>1. f \in [0..0 -> S] /\ f[0] = base /\ 1..0 = {}
    OBVIOUS
  <2> HIDE DEF f
  <2>2. Upto(0)
    BY <2>1
  <2> QED BY <2>2
<1>2. ASSUME NEW k \in 1..n, k - 1 \in T
      PROVE  k \in T
  <2>1. PICK f \in [0..(k-1) -> S] : /\ f[0] = base
                                     /\ \A i \in 1..(k-1) : f[i] = next[i][f[i-1]]
    BY <1>2
  <2> DEFINE g == [i \in 0..k |-> IF i = k THEN next[k][f[k-1]] ELSE f[i]]
  <2>2. next[k][f[k-1]] \in S
    BY <2>1
  <2>3. g \in [0..k -> S] /\ g[0] = base
    BY <2>1, <2>2
  <2>4. \A i \in 1..k : g[i] = next[i][g[i-1]]
    <3> SUFFICES ASSUME NEW i \in 1..k
                 PROVE  g[i] = next[i][g[i-1]]
      OBVIOUS
    <3>1. g[i-1] = f[i-1]
      OBVIOUS
    <3>2. CASE i = k
      <4>1. g[i] = next[k][f[k-1]]
        BY <3>2
      <4> QED BY <3>1, <3>2, <4>1
    <3>3. CASE i # k
      <4>1. i \in 1..(k-1) /\ g[i] = f[i]
        BY <3>3
      <4> QED BY <2>1, <3>1, <4>1
    <3> QED BY <3>2, <3>3
  <2> HIDE DEF g
  <2>5. Upto(k)
    BY <2>3, <2>4
  <2>6. k \in 0..n
    OBVIOUS
  <2> HIDE DEF Upto
  <2> QED BY <2>5, <2>6
<1> HIDE DEF T
<1>3. 0..n \subseteq T
  BY <1>1, <1>2, BoundedInduction
<1>4. n \in T
  BY <1>3
<1> USE DEF T
<1> QED BY <1>4 DEF Orbits

-----------------------------------------------------------------------------
(* What the operators of HashChain and SegmentStore return *)

LEMMA NewRecordType ==
  ASSUME NEW n \in Nat, NEW prev \in Hash, NEW e \in Event
  PROVE  /\ NewRecord(n, prev, e) \in Record
         /\ NewRecord(n, prev, e).hash \in Hash
BY DEF NewRecord, Record, Hash, Body, hashRecord

LEMMA LineTypes ==
  ASSUME NEW rec \in Record
  PROVE  Whole(rec) \in Line /\ CutBeforeNewline(rec) \in Line /\ CutInside(rec) \in Line
BY DEF Whole, CutBeforeNewline, CutInside, Line

LEMMA AppendLineType ==
  ASSUME NEW lines \in Seq(Line), NEW line \in Line
  PROVE  AppendLine(lines, line) \in Seq(Line)
<1>1. CASE lines = << >> \/ Last(lines).nl
  BY <1>1 DEF AppendLine
<1>2. CASE ~(lines = << >> \/ Last(lines).nl)
  <2> DEFINE kind == IF lines[Len(lines)].kind = "junk" THEN "junk" ELSE "two"
             glued == [kind |-> kind, rec |-> lines[Len(lines)].rec, nl |-> line.nl]
  <2>1. Len(lines) \in 1..Len(lines)
    BY <1>2, EmptySeq
  <2>2. glued \in Line
    BY <2>1, ElementOfSeq DEF Line
  <2>3. AppendLine(lines, line) = [lines EXCEPT ![Len(lines)] = glued]
    BY <1>2 DEF AppendLine
  <2> QED BY <2>1, <2>2, <2>3, ExceptSeq
<1> QED BY <1>1, <1>2

\* The fields of a walker's answer that anything is computed from.
StateType(state) ==
  /\ state.valid \in BOOLEAN /\ state.tree_size \in Nat
  /\ state.last_seq \in Nat \cup {-1} /\ state.root_hash \in Hash

LEMMA BrokenType ==
  ASSUME NEW at
  PROVE  StateType(Broken(at)) /\ ~Broken(at).valid
BY DEF StateType, Broken, Genesis, Hash

LEMMA WalkType ==
  ASSUME NEW lines \in Seq(Line), NEW start \in Hash, NEW offset \in Nat
  PROVE  StateType(verifyChainStateFrom(lines, start, offset))
<1>1. CASE SoundFile(lines, start)
  <2>1. CASE lines = << >>
    BY <1>1, <2>1 DEF verifyChainStateFrom, StateType
  <2>2. CASE lines # << >>
    <3>1. Last(lines) \in Line
      BY <2>2, EmptySeq, ElementOfSeq DEF Last
    <3> QED BY <1>1, <2>2, <3>1 DEF verifyChainStateFrom, StateType, Line, Record
  <2> QED BY <2>1, <2>2
<1>2. CASE ~SoundFile(lines, start)
  BY <1>2, BrokenType DEF verifyChainStateFrom
<1> QED BY <1>1, <1>2

\* The types of a disk whose segments are numbered without gaps.
DiskType(d) ==
  /\ d.hasActive \in BOOLEAN /\ d.active \in Seq(Line)
  /\ d.segs \in Seq(Seq(Line))
  /\ d.hasManifest \in BOOLEAN /\ d.manifest \in Seq(Entry)

LEMMA CountRecordsType ==
  ASSUME NEW d, DiskType(d)
  PROVE  countRecords(d) \in Nat
BY DEF DiskType, countRecords

LEMMA ManifestStateType ==
  ASSUME NEW d, DiskType(d)
  PROVE  manifestState(d).offset \in Nat /\ manifestState(d).head \in Hash
<1>1. CASE ~d.hasManifest \/ d.manifest = << >>
  BY <1>1 DEF manifestState, Genesis, Hash
<1>2. CASE ~(~d.hasManifest \/ d.manifest = << >>)
  <2>1. Last(d.manifest) \in Entry
    BY <1>2, EmptySeq, ElementOfSeq DEF DiskType, Last
  <2> QED BY <1>2, <2>1 DEF manifestState, Entry
<1> QED BY <1>1, <1>2

LEMMA WalkActiveType ==
  ASSUME NEW d, DiskType(d), NEW start \in Hash, NEW offset \in Nat
  PROVE  StateType(walkActive(d, start, offset))
BY WalkType, BrokenType DEF DiskType, walkActive

\* With segments numbered without gaps, the highest number is how many there are.
LEMMA HighestIsLen ==
  ASSUME NEW S, NEW numbered \in Seq(S)
  PROVE  highestSegmentOnDisk(numbered) = Len(numbered)
<1>1. DOMAIN numbered = 1..Len(numbered) /\ Len(numbered) \in Nat
  BY LenProperties
<1>2. CASE Len(numbered) = 0
  BY <1>1, <1>2 DEF highestSegmentOnDisk
<1>3. CASE Len(numbered) # 0
  <2>1. Len(numbered) \in DOMAIN numbered /\ \A k \in DOMAIN numbered : k <= Len(numbered)
    BY <1>1, <1>3
  <2>2. \A n \in DOMAIN numbered :
          (\A k \in DOMAIN numbered : k <= n) => n = Len(numbered)
    BY <1>1, <2>1
  <2> QED BY <2>1, <2>2 DEF highestSegmentOnDisk
<1> QED BY <1>2, <1>3

\* As much of a disk as the listed segments need: any numbers, with or without gaps.
FilesType(d) ==
  /\ d.manifest \in Seq(Entry)
  /\ \A n \in DOMAIN d.segs : d.segs[n] \in Seq(Line)

LEMMA CarriedOfFiles ==
  ASSUME NEW d, FilesType(d), NEW i \in 1..(Len(d.manifest) + 1)
  PROVE  CarriedPrev(d, i) \in Hash /\ CarriedOffset(d, i) \in Nat
<1>1. CASE i = 1
  BY <1>1 DEF CarriedPrev, CarriedOffset, Genesis, Hash
<1>2. CASE i # 1
  <2> DEFINE before == d.manifest[i-1]
  <2>1. before \in Entry
    BY <1>2, ElementOfSeq, LenProperties DEF FilesType
  <2>2. ASSUME before.segment \in DOMAIN d.segs
        PROVE  Len(d.segs[before.segment]) \in Nat
    BY <2>2, LenProperties DEF FilesType
  <2> QED BY <1>2, <2>1, <2>2 DEF CarriedPrev, CarriedOffset, Entry
<1> QED BY <1>1, <1>2

LEMMA DiskIsFiles ==
  ASSUME NEW d, DiskType(d)
  PROVE  FilesType(d)
<1>1. ASSUME NEW n \in DOMAIN d.segs
      PROVE  d.segs[n] \in Seq(Line)
  <2>1. d.segs \in Seq(Seq(Line)) /\ n \in 1..Len(d.segs)
    BY LenProperties DEF DiskType
  <2> QED BY ONLY <2>1, ElementOfSeq
<1> QED BY <1>1 DEF FilesType, DiskType

LEMMA CarriedType ==
  ASSUME NEW d, DiskType(d), NEW i \in 1..(Len(d.manifest) + 1)
  PROVE  CarriedPrev(d, i) \in Hash /\ CarriedOffset(d, i) \in Nat
BY DiskIsFiles, CarriedOfFiles

LEMMA VerifyType ==
  ASSUME NEW d, DiskType(d)
  PROVE  StateType(verifyAllSegments(d))
<1>1. Len(d.manifest) + 1 \in 1..(Len(d.manifest) + 1)
  BY LenProperties DEF DiskType
<1> QED BY <1>1, BrokenType, CarriedType, WalkActiveType DEF verifyAllSegments

LEMMA LoadStateType ==
  ASSUME NEW d, DiskType(d)
  PROVE  loadState(d).seq \in Nat /\ loadState(d).prevHash \in Hash
<1>1. loadState(d).seq \in Nat
  BY CountRecordsType, ManifestStateType DEF loadState
<1>2. ASSUME countRecords(d) = 0
      PROVE  loadState(d).prevHash \in Hash
  BY <1>2, ManifestStateType DEF loadState
<1>3. ASSUME countRecords(d) # 0
      PROVE  loadState(d).prevHash \in Hash
  <2>1. Last(d.active) \in Line
    BY <1>3, EmptySeq, ElementOfSeq DEF DiskType, countRecords, Last
  <2> QED BY <1>3, <2>1 DEF loadState, Line, Record
<1> QED BY <1>1, <1>2, <1>3

LEMMA PayloadType ==
  ASSUME NEW state, StateType(state)
  PROVE  payload(state) \in Checkpoint
BY DEF payload, Checkpoint, StateType

\* The rename to the next free number, seen as a sequence of segments.
LEMMA RenameAppends ==
  ASSUME NEW S, NEW s \in Seq(S), NEW e \in S, NEW n, n = Len(s) + 1
  PROVE  [k \in DOMAIN s \cup {n} |-> IF k = n THEN e ELSE s[k]] = Append(s, e)
<1> DEFINE t == [k \in DOMAIN s \cup {n} |-> IF k = n THEN e ELSE s[k]]
<1>1. DOMAIN s = 1..Len(s) /\ Len(s) \in Nat /\ n \in Nat
  BY LenProperties
<1>2. DOMAIN s \cup {n} = 1..n
  BY <1>1
<1>3. \A k \in 1..n : t[k] = IF k = n THEN e ELSE s[k]
  BY <1>2
<1>4. t \in [1..n -> S]
  <2>1. \A k \in 1..n : (IF k = n THEN e ELSE s[k]) \in S
    BY <1>1, ElementOfSeq
  <2> QED BY <1>2, <2>1
<1> HIDE DEF t
<1>5. t \in Seq(S) /\ Len(t) = n
  <2>1. [1..n -> S] \in {[1..m -> S] : m \in Nat}
    BY <1>1
  <2>2. t \in UNION {[1..m -> S] : m \in Nat}
    BY <1>4, <2>1
  <2>3. t \in Seq(S)
    BY <2>2, SeqDef
  <2>4. DOMAIN t = 1..n /\ DOMAIN t = 1..Len(t) /\ Len(t) \in Nat
    BY <1>4, <2>3, LenProperties
  <2> QED BY <1>1, <2>3, <2>4
<1>6. /\ Append(s, e) \in Seq(S) /\ Len(Append(s, e)) = n
      /\ Append(s, e)[n] = e /\ \A k \in 1..Len(s) : Append(s, e)[k] = s[k]
  BY AppendProperties
<1>7. \A k \in 1..n : t[k] = Append(s, e)[k]
  BY <1>1, <1>3, <1>6
<1>8. t = Append(s, e)
  BY <1>5, <1>6, <1>7, SeqEqual
<1> QED BY <1>8 DEF t

LEMMA AppendLineNonempty ==
  ASSUME NEW lines \in Seq(Line), NEW line \in Line
  PROVE  AppendLine(lines, line) # << >>
<1>1. CASE lines = << >> \/ Last(lines).nl
  <2>1. Append(lines, line) \in Seq(Line) /\ Len(Append(lines, line)) = Len(lines) + 1
    OBVIOUS
  <2> QED BY <1>1, <2>1, EmptySeq DEF AppendLine
<1>2. CASE ~(lines = << >> \/ Last(lines).nl)
  BY <1>2, AppendLineType, ExceptSeq, EmptySeq DEF AppendLine
<1> QED BY <1>1, <1>2

-----------------------------------------------------------------------------
(* Prefixes and lines *)

LEMMA PrefixReflexive ==
  ASSUME NEW S, NEW s \in Seq(S)
  PROVE  IsPrefix(s, s)
BY LenProperties DEF IsPrefix

LEMMA PrefixAppend ==
  ASSUME NEW S, NEW s \in Seq(S), NEW e \in S
  PROVE  IsPrefix(s, Append(s, e))
<1> DEFINE t == Append(s, e)
<1>1. Len(s) \in Nat /\ t \in Seq(S) /\ Len(t) = Len(s) + 1
  BY LenProperties
<1>2. \A i \in 1..Len(s) : t[i] = s[i] /\ s[i] \in S
  BY <1>1, ElementOfSeq
<1>3. /\ SubSeq(s, 1, Len(s)) \in Seq(S) /\ Len(SubSeq(s, 1, Len(s))) = Len(s)
      /\ \A i \in 1..Len(s) : SubSeq(s, 1, Len(s))[i] = s[i]
  BY <1>1, <1>2, SubSeqProperties
<1>4. /\ SubSeq(t, 1, Len(s)) \in Seq(S) /\ Len(SubSeq(t, 1, Len(s))) = Len(s)
      /\ \A i \in 1..Len(s) : SubSeq(t, 1, Len(s))[i] = t[i]
  <2> HIDE DEF t
  <2> QED BY <1>1, <1>2, SubSeqProperties
<1>5. SubSeq(s, 1, Len(s)) = SubSeq(t, 1, Len(s))
  <2> HIDE DEF t
  <2> QED BY <1>2, <1>3, <1>4, SeqEqual
<1> QED BY <1>1, <1>5 DEF IsPrefix

LEMMA SubSeqAt ==
  ASSUME NEW S, NEW s \in Seq(S), NEW n \in 0..Len(s)
  PROVE  /\ SubSeq(s, 1, n) \in Seq(S) /\ Len(SubSeq(s, 1, n)) = n
         /\ \A i \in 1..n : SubSeq(s, 1, n)[i] = s[i]
<1>1. Len(s) \in Nat /\ \A i \in 1..n : s[i] \in S
  BY LenProperties, ElementOfSeq
<1> QED BY <1>1, SubSeqProperties

\* IsPrefix, element by element.
LEMMA PrefixAt ==
  ASSUME NEW S, NEW s \in Seq(S), NEW t \in Seq(S)
  PROVE  IsPrefix(s, t) <=> Len(s) <= Len(t) /\ \A i \in 1..Len(s) : s[i] = t[i]
<1>1. Len(s) \in Nat /\ Len(t) \in Nat
  BY LenProperties
<1>2. ASSUME Len(s) <= Len(t)
      PROVE  SubSeq(s, 1, Len(s)) = SubSeq(t, 1, Len(s)) <=> \A i \in 1..Len(s) : s[i] = t[i]
  <2>1. Len(s) \in 0..Len(s) /\ Len(s) \in 0..Len(t)
    BY <1>1, <1>2
  <2>2. /\ SubSeq(s, 1, Len(s)) \in Seq(S) /\ Len(SubSeq(s, 1, Len(s))) = Len(s)
        /\ \A i \in 1..Len(s) : SubSeq(s, 1, Len(s))[i] = s[i]
    BY <2>1, SubSeqAt
  <2>3. /\ SubSeq(t, 1, Len(s)) \in Seq(S) /\ Len(SubSeq(t, 1, Len(s))) = Len(s)
        /\ \A i \in 1..Len(s) : SubSeq(t, 1, Len(s))[i] = t[i]
    BY <2>1, SubSeqAt
  <2> QED BY <2>2, <2>3, SeqEqual
<1> QED BY <1>2 DEF IsPrefix

LEMMA PrefixTransitive ==
  ASSUME NEW S, NEW r \in Seq(S), NEW s \in Seq(S), NEW t \in Seq(S),
         IsPrefix(r, s), IsPrefix(s, t)
  PROVE  IsPrefix(r, t)
<1>1. /\ Len(r) <= Len(s) /\ \A i \in 1..Len(r) : r[i] = s[i]
      /\ Len(s) <= Len(t) /\ \A i \in 1..Len(s) : s[i] = t[i]
  BY PrefixAt
<1>2. Len(r) \in Nat /\ Len(s) \in Nat /\ Len(t) \in Nat
  BY LenProperties
<1>3. Len(r) <= Len(t) /\ \A i \in 1..Len(r) : r[i] = t[i]
  BY <1>1, <1>2
<1> QED BY <1>3, PrefixAt

\* Two histories that are part of a third are part of one another.
LEMMA PrefixesCompare ==
  ASSUME NEW S, NEW r \in Seq(S), NEW s \in Seq(S), NEW t \in Seq(S),
         IsPrefix(r, t), IsPrefix(s, t)
  PROVE  IsPrefix(r, s) \/ IsPrefix(s, r)
<1>1. /\ \A i \in 1..Len(r) : r[i] = t[i]
      /\ \A i \in 1..Len(s) : s[i] = t[i]
  BY PrefixAt
<1>2. Len(r) \in Nat /\ Len(s) \in Nat
  BY LenProperties
<1>3. CASE Len(r) <= Len(s)
  <2>1. \A i \in 1..Len(r) : r[i] = s[i]
    BY <1>1, <1>2, <1>3
  <2> QED BY <1>3, <2>1, PrefixAt
<1>4. CASE Len(s) <= Len(r)
  <2>1. \A i \in 1..Len(s) : s[i] = r[i]
    BY <1>1, <1>2, <1>4
  <2> QED BY <1>4, <2>1, PrefixAt
<1> QED BY <1>2, <1>3, <1>4

LEMMA FrontOfAppend ==
  ASSUME NEW S, NEW s \in Seq(S), NEW e \in S
  PROVE  Front(Append(s, e)) = s /\ Last(Append(s, e)) = e
<1> DEFINE t == Append(s, e)
<1>1. /\ t \in Seq(S) /\ Len(s) \in Nat /\ Len(t) = Len(s) + 1 /\ t[Len(s) + 1] = e
      /\ \A i \in 1..Len(s) : t[i] = s[i]
  BY LenProperties
<1>2. Len(s) \in 0..Len(t) /\ Len(t) - 1 = Len(s)
  BY <1>1
<1> HIDE DEF t
<1>3. /\ SubSeq(t, 1, Len(s)) \in Seq(S) /\ Len(SubSeq(t, 1, Len(s))) = Len(s)
      /\ \A i \in 1..Len(s) : SubSeq(t, 1, Len(s))[i] = t[i]
  BY <1>1, <1>2, SubSeqAt
<1>4. SubSeq(t, 1, Len(s)) = s
  BY <1>1, <1>3, SeqEqual
<1>5. Front(t) = s /\ Last(t) = e
  BY <1>1, <1>2, <1>4 DEF Front, Last
<1> QED BY <1>5 DEF t

LEMMA HeadAfterType ==
  ASSUME NEW lines \in Seq(Line), NEW start \in Hash
  PROVE  HeadAfter(lines, start) \in Hash
<1>1. CASE lines = << >>
  BY <1>1 DEF HeadAfter
<1>2. CASE lines # << >>
  <2>1. Last(lines) \in Line
    BY <1>2, EmptySeq, ElementOfSeq DEF Last
  <2> QED BY <1>2, <2>1 DEF HeadAfter, Line, Record
<1> QED BY <1>1, <1>2

\* A written line leaves a sound file only if it is a record that extends the head of a
\* file that was sound before: a damaged file stays damaged.
LEMMA SoundWrite ==
  ASSUME NEW lines \in Seq(Line), NEW line \in Line, NEW start \in Hash,
         SoundFile(AppendLine(lines, line), start)
  PROVE  /\ SoundFile(lines, start)
         /\ HeadAfter(AppendLine(lines, line), start)
              = Append(HeadAfter(lines, start), BodyOf(line.rec))
<1>1. Len(lines) \in Nat /\ DOMAIN lines = 1..Len(lines)
  BY LenProperties
<1>2. CASE lines = << >> \/ Last(lines).nl
  <2> DEFINE t == Append(lines, line)
  <2>1. t = AppendLine(lines, line)
    BY <1>2 DEF AppendLine
  <2>2. /\ t \in Seq(Line) /\ Len(t) = Len(lines) + 1 /\ t[Len(lines) + 1] = line
        /\ DOMAIN t = 1..(Len(lines) + 1) /\ \A i \in 1..Len(lines) : t[i] = lines[i]
    BY <1>1, LenProperties
  <2>3. \A i \in 1..(Len(lines) + 1) : SoundLine(t, i, start)
    BY <2>1, <2>2 DEF SoundFile
  <2> HIDE DEF t
  <2>4. SoundFile(lines, start)
    <3> SUFFICES ASSUME NEW i \in 1..Len(lines)
                 PROVE  SoundLine(lines, i, start)
      BY <1>1 DEF SoundFile
    <3>1. SoundLine(t, i, start) /\ t[i] = lines[i]
      BY <1>1, <2>2, <2>3
    <3>2. i # 1 => t[i-1] = lines[i-1]
      BY <1>1, <2>2
    <3> QED BY <3>1, <3>2 DEF SoundLine, ExpectedPrev
  <2>5. Len(lines) + 1 = 1 <=> lines = << >>
    BY <1>1, EmptySeq
  <2>6. ExpectedPrev(t, Len(lines) + 1, start) = HeadAfter(lines, start)
    <3>1. CASE lines = << >>
      BY <2>5, <3>1 DEF ExpectedPrev, HeadAfter
    <3>2. CASE lines # << >>
      <4>1. Len(lines) + 1 - 1 = Len(lines) /\ Len(lines) \in 1..Len(lines)
        BY <1>1, <2>5, <3>2
      <4>2. t[Len(lines)] = lines[Len(lines)]
        BY <2>2, <4>1
      <4> QED BY <2>5, <3>2, <4>1, <4>2 DEF ExpectedPrev, HeadAfter, Last
    <3> QED BY <3>1, <3>2
  <2>7. SoundLine(t, Len(lines) + 1, start)
    BY <1>1, <2>3
  <2>8. line.rec.hash = Append(HeadAfter(lines, start), BodyOf(line.rec))
    BY <2>2, <2>6, <2>7 DEF SoundLine, hashRecord
  <2>9. Last(t) = line /\ t # << >>
    BY <1>1, <2>2, EmptySeq DEF Last
  <2> QED BY <2>1, <2>4, <2>8, <2>9 DEF HeadAfter
<1>3. CASE ~(lines = << >> \/ Last(lines).nl)
  <2> DEFINE kind == IF lines[Len(lines)].kind = "junk" THEN "junk" ELSE "two"
             glued == [kind |-> kind, rec |-> lines[Len(lines)].rec, nl |-> line.nl]
  <2>1. Len(lines) \in 1..Len(lines)
    BY <1>1, <1>3, EmptySeq
  <2>2. AppendLine(lines, line) = [lines EXCEPT ![Len(lines)] = glued]
    BY <1>3 DEF AppendLine
  <2>3. AppendLine(lines, line)[Len(lines)].kind # "rec"
    BY <1>1, <2>1, <2>2
  <2>4. Len(lines) \in DOMAIN AppendLine(lines, line)
    BY <1>1, <2>1, <2>2
  <2> QED BY <2>3, <2>4 DEF SoundFile, SoundLine, Decodable
<1> QED BY <1>2, <1>3

\* A whole record that extends the head of a sound file of whole lines.
LEMMA SoundAppend ==
  ASSUME NEW lines \in Seq(Line), NEW start \in Hash, NEW rec \in Record,
         SoundFile(lines, start), \A i \in DOMAIN lines : lines[i].nl,
         rec.event \notin TooLong, rec.prev_hash = HeadAfter(lines, start),
         rec.hash = hashRecord(rec.prev_hash, BodyOf(rec))
  PROVE  /\ AppendLine(lines, Whole(rec)) = Append(lines, Whole(rec))
         /\ SoundFile(Append(lines, Whole(rec)), start)
<1> DEFINE line == Whole(rec)
           t == Append(lines, line)
<1>1. line \in Line /\ line.rec = rec /\ line.kind = "rec"
  BY LineTypes DEF Whole
<1>2. Len(lines) \in Nat /\ DOMAIN lines = 1..Len(lines)
  BY LenProperties
<1> HIDE DEF line
<1>3. /\ t \in Seq(Line) /\ Len(t) = Len(lines) + 1 /\ t[Len(lines) + 1] = line
      /\ DOMAIN t = 1..(Len(lines) + 1) /\ \A i \in 1..Len(lines) : t[i] = lines[i]
  BY <1>1, <1>2, LenProperties
<1>4. lines # << >> => Last(lines).nl
  <2>1. lines # << >> => Len(lines) \in DOMAIN lines
    BY <1>2, EmptySeq
  <2> QED BY <2>1 DEF Last
<1>5. AppendLine(lines, line) = t
  BY <1>4 DEF AppendLine
<1> HIDE DEF t
<1>6. ASSUME NEW i \in 1..Len(lines)
      PROVE  SoundLine(t, i, start)
  <2>1. SoundLine(lines, i, start) /\ t[i] = lines[i] /\ (i # 1 => t[i-1] = lines[i-1])
    BY <1>2, <1>3 DEF SoundFile
  <2> QED BY <2>1 DEF SoundLine, ExpectedPrev
<1>7. ExpectedPrev(t, Len(lines) + 1, start) = HeadAfter(lines, start)
  <2>1. CASE lines = << >>
    <3>1. Len(lines) + 1 = 1
      BY <2>1
    <3> QED BY <2>1, <3>1 DEF ExpectedPrev, HeadAfter
  <2>2. CASE lines # << >>
    <3>1. Len(lines) + 1 # 1 /\ Len(lines) + 1 - 1 = Len(lines) /\ Len(lines) \in 1..Len(lines)
      BY <1>2, <2>2, EmptySeq
    <3>2. t[Len(lines)] = lines[Len(lines)]
      BY <1>3, <3>1
    <3> QED BY <2>2, <3>1, <3>2 DEF ExpectedPrev, HeadAfter, Last
  <2> QED BY <2>1, <2>2
<1>8. SoundLine(t, Len(lines) + 1, start)
  BY <1>1, <1>3, <1>7 DEF SoundLine, Scannable, Decodable
<1>9. SoundFile(t, start)
  BY <1>2, <1>3, <1>6, <1>8 DEF SoundFile
<1> QED BY <1>5, <1>9 DEF t, line

\* What a valid walk of one file reports.
LEMMA WalkReports ==
  ASSUME NEW lines, NEW start, NEW offset,
         verifyChainStateFrom(lines, start, offset).valid
  PROVE  /\ SoundFile(lines, start)
         /\ verifyChainStateFrom(lines, start, offset).root_hash = HeadAfter(lines, start)
         /\ verifyChainStateFrom(lines, start, offset).tree_size = offset + Len(lines)
<1>1. SoundFile(lines, start)
  BY BrokenType DEF verifyChainStateFrom
<1> QED BY <1>1 DEF verifyChainStateFrom, HeadAfter

\* Along a sound file, what a line must carry grows by one record a line.
LEMMA PrevLength ==
  ASSUME NEW lines \in Seq(Line), NEW start \in Hash, SoundFile(lines, start),
         NEW i \in 1..Len(lines)
  PROVE  /\ ExpectedPrev(lines, i, start) \in Hash
         /\ Len(ExpectedPrev(lines, i, start)) = Len(start) + (i - 1)
<1> DEFINE n == Len(lines)
           prev(k) == ExpectedPrev(lines, k, start)
           T == {k \in 0..n : k > 0 => prev(k) \in Hash /\ Len(prev(k)) = Len(start) + (k - 1)}
<1>1. n \in Nat /\ DOMAIN lines = 1..n /\ Len(start) \in Nat
  BY LenProperties DEF Hash
<1>2. 0 \in T
  BY <1>1
<1>3. ASSUME NEW k \in 1..n, k - 1 \in T
      PROVE  k \in T
  <2>1. CASE k = 1
    <3>1. prev(k) = start
      BY <2>1 DEF ExpectedPrev
    <3> QED BY <1>1, <2>1, <3>1
  <2>2. CASE k # 1
    <3> DEFINE rec == lines[k-1].rec
    <3>1. k - 1 \in 1..n /\ k - 1 > 0
      BY <1>1, <2>2
    <3>2. prev(k-1) \in Hash /\ Len(prev(k-1)) = Len(start) + (k - 2)
      BY <1>1, <1>3, <3>1
    <3>3. SoundLine(lines, k - 1, start)
      BY <1>1, <3>1 DEF SoundFile
    <3>4. prev(k) = rec.hash /\ rec.hash = Append(prev(k-1), BodyOf(rec))
      BY <2>2, <3>3 DEF ExpectedPrev, SoundLine, hashRecord
    <3>5. BodyOf(rec) \in Body
      <4>1. lines[k-1] \in Line
        BY <3>1, ElementOfSeq
      <4> QED BY <4>1 DEF Line, Record, BodyOf, Body
    <3> HIDE DEF prev, rec
    <3>6. prev(k) \in Hash /\ Len(prev(k)) = Len(prev(k-1)) + 1
      BY <3>2, <3>4, <3>5, AppendProperties DEF Hash
    <3>7. Len(prev(k)) = Len(start) + (k - 1)
      BY <1>1, <3>2, <3>6
    <3> QED BY <1>1, <3>6, <3>7
  <2> QED BY <2>1, <2>2
<1> HIDE DEF T
<1>4. 0..n \subseteq T
  BY <1>1, <1>2, <1>3, BoundedInduction
<1>5. i \in T /\ i > 0
  BY <1>1, <1>4
<1> QED BY <1>5 DEF T

-----------------------------------------------------------------------------
(* Entries of the manifest *)

\* What the proof needs of a passing entry, with the walk written out.
EntryWalks(d, i) ==
  LET seg   == d.manifest[i]
      state == verifyChainStateFrom(d.segs[seg.segment], CarriedPrev(d, i), CarriedOffset(d, i))
  IN /\ seg.segment \in DOMAIN d.segs /\ state.valid
     /\ seg.start_prev_hash = CarriedPrev(d, i) /\ seg.first_seq = CarriedOffset(d, i)
     /\ seg.last_seq = state.last_seq /\ seg.end_hash = state.root_hash

LEMMA ValidMeansWalks ==
  ASSUME NEW d, NEW i
  PROVE  listedSegment(d, i).valid <=> EntryWalks(d, i)
<1>1. \A at : ~Broken(at).valid
  BY BrokenType
<1>2. \A l, p, o : verifyChainStateFrom(l, p, o).valid \in BOOLEAN
  BY <1>1 DEF verifyChainStateFrom, Broken
<1> QED BY <1>1, <1>2 DEF listedSegment, EntryWalks

\* A passing entry keeps passing when files are only added and the manifest only grows.
LEMMA WalksStay ==
  ASSUME NEW d, NEW e, NEW i \in DOMAIN d.manifest,
         d.manifest \in Seq(Entry), e.manifest \in Seq(Entry),
         \A k \in DOMAIN d.manifest : e.manifest[k] = d.manifest[k],
         \A n \in DOMAIN d.segs : n \in DOMAIN e.segs /\ e.segs[n] = d.segs[n],
         \A k \in DOMAIN d.manifest : EntryWalks(d, k)
  PROVE  EntryWalks(e, i)
<1>1. i \in 1..Len(d.manifest) /\ DOMAIN d.manifest = 1..Len(d.manifest)
  BY LenProperties
<1>2. d.manifest[i].segment \in DOMAIN d.segs /\ e.manifest[i] = d.manifest[i]
  BY DEF EntryWalks
<1>3. CarriedPrev(e, i) = CarriedPrev(d, i) /\ CarriedOffset(e, i) = CarriedOffset(d, i)
  <2>1. CASE i = 1
    BY <2>1 DEF CarriedPrev, CarriedOffset
  <2>2. CASE i # 1
    <3>1. i - 1 \in DOMAIN d.manifest
      BY <1>1, <2>2, LenProperties
    <3>2. d.manifest[i-1].segment \in DOMAIN d.segs /\ e.manifest[i-1] = d.manifest[i-1]
      BY <3>1 DEF EntryWalks
    <3> QED BY <2>2, <3>2 DEF CarriedPrev, CarriedOffset
  <2> QED BY <2>1, <2>2
<1> QED BY <1>2, <1>3 DEF EntryWalks
-----------------------------------------------------------------------------
(* The first line and the first segment that fail *)

\* The first place up to n, from 1, that is not in a set.
LEMMA FirstOutside ==
  ASSUME NEW n \in Nat, NEW T, ~(1..n \subseteq T)
  PROVE  \E i \in (1..n) \ T : 1..(i-1) \subseteq T
<1>1. PICK i \in (1..n) \ T : \A j \in (1..n) \ T : i <= j
  <2>1. (1..n) \ T \subseteq Nat /\ (1..n) \ T # {}
    OBVIOUS
  <2> QED BY <2>1, LeastElement
<1>2. \A j \in 1..(i-1) : j \in 1..n /\ ~(i <= j)
  OBVIOUS
<1> QED BY <1>1, <1>2

LEMMA FirstUnsoundIs ==
  ASSUME NEW lines \in Seq(Line), NEW start, ~SoundFile(lines, start)
  PROVE  /\ FirstUnsound(lines, start) \in 1..Len(lines)
         /\ ~SoundLine(lines, FirstUnsound(lines, start), start)
         /\ \A j \in 1..(FirstUnsound(lines, start) - 1) : SoundLine(lines, j, start)
<1> DEFINE First(i) == /\ ~SoundLine(lines, i, start)
                       /\ \A j \in 1..(i-1) : SoundLine(lines, j, start)
           T == {i \in 1..Len(lines) : SoundLine(lines, i, start)}
<1>1. Len(lines) \in Nat /\ DOMAIN lines = 1..Len(lines)
  BY LenProperties
<1>2. ~(1..Len(lines) \subseteq T)
  BY <1>1 DEF SoundFile
<1> HIDE DEF T
<1>3. PICK i \in (1..Len(lines)) \ T : 1..(i-1) \subseteq T
  BY <1>1, <1>2, FirstOutside
<1> USE DEF T
<1>4. i \in DOMAIN lines /\ First(i)
  BY <1>1, <1>3
<1> HIDE DEF First
<1>5. FirstUnsound(lines, start) = CHOOSE k \in DOMAIN lines : First(k)
  BY DEF FirstUnsound, First
<1>6. FirstUnsound(lines, start) \in DOMAIN lines /\ First(FirstUnsound(lines, start))
  BY <1>4, <1>5
<1> QED BY <1>1, <1>6 DEF First

LEMMA FirstFailingIs ==
  ASSUME NEW d, d.manifest \in Seq(Entry),
         ~\A i \in 1..Len(d.manifest) : listedSegment(d, i).valid
  PROVE  /\ FirstFailing(d) \in 1..Len(d.manifest)
         /\ ~listedSegment(d, FirstFailing(d)).valid
         /\ \A j \in 1..(FirstFailing(d) - 1) : listedSegment(d, j).valid
<1> DEFINE First(i) == /\ ~listedSegment(d, i).valid
                       /\ \A j \in 1..(i-1) : listedSegment(d, j).valid
           n == Len(d.manifest)
           T == {i \in 1..n : listedSegment(d, i).valid}
<1>1. n \in Nat /\ DOMAIN d.manifest = 1..n
  BY LenProperties
<1>2. ~(1..n \subseteq T)
  OBVIOUS
<1> HIDE DEF T, n
<1>3. PICK i \in (1..n) \ T : 1..(i-1) \subseteq T
  BY <1>1, <1>2, FirstOutside
<1> USE DEF T
<1>4. i \in DOMAIN d.manifest /\ First(i)
  BY <1>1, <1>3
<1> HIDE DEF First
<1>5. FirstFailing(d) = CHOOSE k \in DOMAIN d.manifest : First(k)
  BY DEF FirstFailing, First
<1>6. FirstFailing(d) \in DOMAIN d.manifest /\ First(FirstFailing(d))
  BY <1>4, <1>5
<1> QED BY <1>1, <1>6 DEF First, n
\* Everything a walk answers, the place it reports included.
VerdictSet == [valid : BOOLEAN, at : Int, tree_size : Nat, last_seq : Int, root_hash : Hash]

LEMMA BrokenVerdict ==
  ASSUME NEW at \in Int
  PROVE  Broken(at) \in VerdictSet
BY DEF Broken, VerdictSet, Genesis, Hash

LEMMA WalkVerdict ==
  ASSUME NEW lines \in Seq(Line), NEW start \in Hash, NEW offset \in Nat
  PROVE  verifyChainStateFrom(lines, start, offset) \in VerdictSet
<1>1. CASE SoundFile(lines, start)
  <2> DEFINE state == verifyChainStateFrom(lines, start, offset)
             n == IF lines = << >> THEN offset - 1 ELSE Last(lines).rec.seq
             head == IF lines = << >> THEN start ELSE Last(lines).rec.hash
  <2>1. n \in Int /\ head \in Hash
    <3>1. CASE lines = << >>
      BY <3>1
    <3>2. CASE lines # << >>
      <4>1. Last(lines) \in Line
        BY <3>2, EmptySeq, ElementOfSeq DEF Last
      <4> QED BY <3>2, <4>1 DEF Line, Record
    <3> QED BY <3>1, <3>2
  <2>2. state = [valid |-> TRUE, at |-> NoAt, tree_size |-> offset + Len(lines),
                 last_seq |-> n, root_hash |-> head]
    BY <1>1 DEF verifyChainStateFrom
  <2>3. offset + Len(lines) \in Nat
    BY LenProperties
  <2> HIDE DEF state, n, head
  <2>4. state \in VerdictSet
    BY <2>1, <2>2, <2>3 DEF VerdictSet, NoAt
  <2> QED BY <2>4 DEF state
<1>2. CASE ~SoundFile(lines, start)
  <2> DEFINE i == FirstUnsound(lines, start)
  <2>1. i \in 1..Len(lines)
    BY <1>2, FirstUnsoundIs
  <2> HIDE DEF i
  <2>2. lines[i] \in Line
    BY <2>1, ElementOfSeq
  <2>3. FaultAt(lines, i, offset) \in Int
    BY <2>1, <2>2, LenProperties DEF FaultAt, NoAt, Line, Record
  <2>4. verifyChainStateFrom(lines, start, offset) = Broken(FaultAt(lines, i, offset))
    BY <1>2 DEF verifyChainStateFrom, i
  <2> QED BY <2>3, <2>4, BrokenVerdict
<1> QED BY <1>1, <1>2

LEMMA ListedVerdict ==
  ASSUME NEW d, FilesType(d), NEW i \in 1..Len(d.manifest)
  PROVE  listedSegment(d, i) \in VerdictSet
<1> DEFINE seg == d.manifest[i]
           prev == CarriedPrev(d, i)
           offset == CarriedOffset(d, i)
           state == verifyChainStateFrom(d.segs[seg.segment], prev, offset)
<1>1. prev \in Hash /\ offset \in Nat
  BY CarriedOfFiles, LenProperties DEF FilesType
<1>2. CASE seg.segment \notin DOMAIN d.segs
  BY <1>1, <1>2, BrokenVerdict DEF listedSegment
<1>3. CASE seg.segment \in DOMAIN d.segs
  <2>1. d.segs[seg.segment] \in Seq(Line)
    BY <1>3 DEF FilesType
  <2> HIDE DEF seg, prev, offset
  <2>2. state \in VerdictSet
    BY <1>1, <2>1, WalkVerdict
  <2> HIDE DEF state
  <2>3. Broken(offset) \in VerdictSet /\ Broken(state.last_seq) \in VerdictSet
    <3>1. offset \in Int /\ state.last_seq \in Int
      BY <1>1, <2>2 DEF VerdictSet
    <3> QED BY <3>1, BrokenVerdict
  <2>4. listedSegment(d, i) \in {state, Broken(offset), Broken(state.last_seq)}
    BY <1>3 DEF listedSegment, state, seg, prev, offset
  <2> QED BY <2>2, <2>3, <2>4
<1> QED BY <1>2, <1>3

\* A listed segment that passes hands on what the next one is walked from.
LEMMA ListedHandsOn ==
  ASSUME NEW d, FilesType(d), NEW i \in 1..Len(d.manifest), listedSegment(d, i).valid
  PROVE  /\ listedSegment(d, i).root_hash = CarriedPrev(d, i + 1)
         /\ listedSegment(d, i).tree_size = CarriedOffset(d, i + 1)
<1> DEFINE seg == d.manifest[i]
           state == verifyChainStateFrom(d.segs[seg.segment], CarriedPrev(d, i),
                                         CarriedOffset(d, i))
<1>1. /\ seg.segment \in DOMAIN d.segs /\ state.valid
      /\ seg.first_seq = CarriedOffset(d, i) /\ seg.end_hash = state.root_hash
      /\ listedSegment(d, i) = state
  <2>1. EntryWalks(d, i)
    BY ValidMeansWalks
  <2> QED BY <2>1 DEF EntryWalks, listedSegment
<1>2. state.tree_size = CarriedOffset(d, i) + Len(d.segs[seg.segment])
  BY <1>1, WalkReports
<1>3. i + 1 # 1 /\ (i + 1) - 1 = i
  BY LenProperties DEF FilesType
<1>4. CarriedPrev(d, i + 1) = seg.end_hash
  BY <1>3 DEF CarriedPrev
<1>5. CarriedOffset(d, i + 1) = seg.first_seq + Len(d.segs[seg.segment])
  BY <1>1, <1>3 DEF CarriedOffset
<1> QED BY <1>1, <1>2, <1>4, <1>5
=============================================================================
