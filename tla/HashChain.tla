------------------------------ MODULE HashChain ------------------------------
(***************************************************************************)
(* The pure part of chain.go: records, the hash that links them, the lines *)
(* of a log file and the walker that decides whether one file carries an   *)
(* unbroken piece of the chain (verifyChainStateFrom).                     *)
(*                                                                         *)
(* Data abstraction.  SHA-256 is assumed free of collisions, so a hash is  *)
(* the sequence of the record bodies it was computed over: equal hashes    *)
(* have equal histories, and "the head h1 was extended to h2" is           *)
(* IsPrefix(h1, h2).  A body keeps the sequence number and the event; the  *)
(* prev_hash that the code hashes twice (as the prefix of the input and as *)
(* a field of the record) is already the prefix of the sequence.  Blank    *)
(* lines, which every reader of the code skips, are left out.              *)
(***************************************************************************)
EXTENDS Integers, SequencesExt

CONSTANTS
  Event,     \* the events a caller may hand to Emit, as opaque values
  TooLong    \* those whose record exceeds the 16 MiB line buffer of every reader

ASSUME TooLongAssumption == TooLong \subseteq Event

-----------------------------------------------------------------------------
(* Records and hashes *)

Body == [seq : Nat, event : Event]
Hash == Seq(Body)
Record == [seq : Nat, event : Event, prev_hash : Hash, hash : Hash]

Genesis == << >>

BodyOf(rec) == [seq |-> rec.seq, event |-> rec.event]

hashRecord(prev, body) == Append(prev, body)

\* The record Emit builds for event e out of the in-memory sequence number and head.
NewRecord(n, prev, e) ==
  [seq |-> n, event |-> e, prev_hash |-> prev,
   hash |-> hashRecord(prev, [seq |-> n, event |-> e])]

-----------------------------------------------------------------------------
(***************************************************************************)
(* Lines of a file.  "junk" is a line that no JSON decoder accepts, a      *)
(* record cut short; "two" is a whole record with more behind it on the    *)
(* same line.  nl is FALSE when the newline is missing, which only the     *)
(* last line of a file can lack: O_APPEND then glues the next write to it. *)
(* A line that is no record keeps the one whose write began it.            *)
(***************************************************************************)
Line == [kind : {"rec", "two", "junk"}, rec : Record, nl : BOOLEAN]

Whole(rec) == [kind |-> "rec", rec |-> rec, nl |-> TRUE]
CutBeforeNewline(rec) == [kind |-> "rec", rec |-> rec, nl |-> FALSE]
CutInside(rec) == [kind |-> "junk", rec |-> rec, nl |-> FALSE]

\* One write(2) in append mode.
AppendLine(lines, line) ==
  IF lines = << >> \/ Last(lines).nl
    THEN Append(lines, line)
    ELSE [lines EXCEPT ![Len(lines)] =
            [kind |-> IF @.kind = "junk" THEN "junk" ELSE "two", rec |-> @.rec, nl |-> line.nl]]

\* What a bufio.Scanner and a JSON decoder make of a line.  The query decodes its first
\* value only; everybody else refuses a line that holds more than one.
Scannable(line) == line.rec.event \notin TooLong
Decodable(line) == line.kind = "rec"
StartsWithRecord(line) == line.kind # "junk"

-----------------------------------------------------------------------------
(***************************************************************************)
(* verifyChainStateFrom.  The loop threads prev from line to line and      *)
(* stops at the first line that fails; up to that line prev is the stored  *)
(* hash of the line before, so "line i is sound" needs no recursion and    *)
(* the loop's answer is that of the least unsound line.                    *)
(***************************************************************************)
NoAt == -1

Broken(at) ==
  [valid |-> FALSE, at |-> at, tree_size |-> 0, last_seq |-> 0, root_hash |-> Genesis]

\* prev at line i of a file whose first record must carry start.
ExpectedPrev(lines, i, start) == IF i = 1 THEN start ELSE lines[i-1].rec.hash

SoundLine(lines, i, start) ==
  LET rec == lines[i].rec IN
  /\ Scannable(lines[i])
  /\ Decodable(lines[i])
  /\ rec.prev_hash = ExpectedPrev(lines, i, start)
  /\ rec.hash = hashRecord(rec.prev_hash, BodyOf(rec))

SoundFile(lines, start) == \A i \in DOMAIN lines : SoundLine(lines, i, start)

\* Mutant of FaultAt: a broken link is reported by the index of its line.
FaultAtLine(lines, i, offset) ==
  IF ~Scannable(lines[i]) THEN NoAt ELSE offset + i - 1

\* Where a walk that meets its first unsound line at i reports the damage.
FaultAt(lines, i, offset) ==
  IF ~Scannable(lines[i]) THEN NoAt
  ELSE IF ~Decodable(lines[i]) THEN offset + i - 1
  ELSE lines[i].rec.seq

FirstUnsound(lines, start) ==
  CHOOSE i \in DOMAIN lines :
    /\ ~SoundLine(lines, i, start)
    /\ \A j \in 1..(i-1) : SoundLine(lines, j, start)

verifyChainStateFrom(lines, start, offset) ==
  IF SoundFile(lines, start)
    THEN [valid     |-> TRUE,
          at        |-> NoAt,
          tree_size |-> offset + Len(lines),
          last_seq  |-> IF lines = << >> THEN offset - 1 ELSE Last(lines).rec.seq,
          root_hash |-> IF lines = << >> THEN start ELSE Last(lines).rec.hash]
    ELSE Broken(FaultAt(lines, FirstUnsound(lines, start), offset))
==============================================================================
