------------------------------ MODULE LogReaders ------------------------------
(***************************************************************************)
(* Readers next to the daemon: verify, checkpoint_verify with compare_log  *)
(* and query, in a connection handler or in a command line process.  None  *)
(* of them takes Chain.mu, so a reader opens the files one after the other *)
(* while Emit and Rotate change them.  A reader that is killed is one that *)
(* takes no further step.  The verify command alone opens the log with     *)
(* NewChain first; that start is left out here.                            *)
(*                                                                         *)
(* A step of a reader is one system call on something that changes: the    *)
(* manifest, the directory, the name and the contents of the active        *)
(* segment.  The listed segments never change again (SealedForever), so    *)
(* they are read in one step, the orphan scan included: a segment that     *)
(* appears between the two is as good as one that appeared before.         *)
(***************************************************************************)
EXTENDS Chain

CONSTANTS
  Reader,
  PageLimit,   \* the limit of a query
  MaxReads     \* bound: calls of readers in a behaviour

ASSUME ReaderAssumption == PageLimit \in Nat \ {0} /\ MaxReads \in Nat

VARIABLES
  rpc,      \* per reader: the step it is at
  job,      \* per reader: its locals and, once it is done, its reply
  overlap,  \* per reader: what changed the files since it was called
  reads

readers == <<rpc, job, overlap, reads>>

NoToken == -1

Job == [op : {"none", "compare", "query"},
        cp : Checkpoint,                       \* compare: the checkpoint, known to be signed
        filter : SUBSET Event, resume : Nat,   \* query: the request
        got : Seq(Record), room : Nat,         \* query: all pages so far, room in this one
        next : Nat \cup {NoToken},             \* query: next_token
        known : BOOLEAN, listed : Seq(Entry),  \* the manifest as it was read
        fd : Nat,                              \* which file is open, see Inode
        state : [valid : BOOLEAN, at : Int, tree_size : Nat, last_seq : Int, root_hash : Hash],
        since : Hash]                          \* the head of the log at the call

NoJob == [op |-> "none", cp |-> NoLocals.cp, filter |-> {}, resume |-> 0, got |-> << >>,
          room |-> 0, next |-> NoToken, known |-> FALSE, listed |-> << >>, fd |-> 0,
          state |-> Broken(NoAt), since |-> Genesis]

Locations == {"idle", "load", "scan", "open", "read", "paths", "listed", "openLast",
              "readLast", "done", "failed"}

ReadersInit ==
  /\ Init
  /\ rpc = [r \in Reader |-> "idle"] /\ job = [r \in Reader |-> NoJob]
  /\ overlap = [r \in Reader |-> {}] /\ reads = 0

-----------------------------------------------------------------------------
(* What a reader sees *)

\* The files, with the manifest as the reader read it.
View(r) == [Disk EXCEPT !.hasManifest = job[r].known, !.manifest = job[r].listed]

AfterListed(r) == Len(job[r].listed) + 1

\* An open file stays open across the rename that makes it a segment: it is known by
\* the number that the next rename gives it.
OpenedActive == NextSegment
Inode(n) == IF n \in DOMAIN segs THEN segs[n] ELSE active

\* Reading to the end of the open file.  A read does not wait for a write in progress
\* and can see the front of the line being appended.
ReadsOf(n) ==
  {Inode(n)} \cup
  IF n \in DOMAIN segs THEN {}
  ELSE {AppendLine(active, front) : front \in
          UNION {{CutInside(EmittedRecord(h)), CutBeforeNewline(EmittedRecord(h))} :
                   h \in {g \in Handler : pc[g] = "write" /\ arg[g] \notin Refused}}}

ReaderGoes(r, from, to, locals) ==
  /\ rpc[r] = from
  /\ rpc' = [rpc EXCEPT ![r] = to]
  /\ job' = [job EXCEPT ![r] = locals]

-----------------------------------------------------------------------------
(* verifyAllSegments, as Verify, VerifySignedCheckpointForLog and runQuery call it *)

\* The walk is over: its locals go, its verdict stays.
Walked(r, from, state) ==
  ReaderGoes(r, from, "done",
    [job[r] EXCEPT !.state = state, !.known = FALSE, !.listed = << >>, !.fd = 0])

LoadManifest(r) ==
  ReaderGoes(r, "load", "scan", [job[r] EXCEPT !.known = hasManifest, !.listed = manifest])

\* The listed segments, then the orphan scan.
ScanSegments(r) ==
  IF \E i \in DOMAIN job[r].listed : ~listedSegment(View(r), i).valid
    THEN Walked(r, "scan", Broken(listedSegment(View(r), FirstFailing(View(r))).at))
  ELSE IF uncoveredSegment(View(r)) THEN Walked(r, "scan", Broken(NoAt))
  ELSE ReaderGoes(r, "scan", "open", job[r])

OpenActive(r) ==
  IF hasActive THEN ReaderGoes(r, "open", "read", [job[r] EXCEPT !.fd = OpenedActive])
  ELSE Walked(r, "open", Broken(NoAt))

\* Mutant of ReadActive: the active segment is walked as if the log had no segments.
ReadActiveFromGenesis(r) ==
  \E lines \in ReadsOf(job[r].fd) :
    Walked(r, "read", verifyChainStateFrom(lines, Genesis, 0))

ReadActive(r) ==
  \E lines \in ReadsOf(job[r].fd) :
    Walked(r, "read", verifyChainStateFrom(lines, CarriedPrev(View(r), AfterListed(r)),
                                           CarriedOffset(View(r), AfterListed(r))))

-----------------------------------------------------------------------------
(* runQuery *)

Matches(q, line) ==
  StartsWithRecord(line) /\ line.rec.seq >= q.resume /\ line.rec.event \in q.filter

\* The matching records in the order of the file; lines that do not decode are skipped.
Found(q, lines) ==
  FlattenSeq([i \in DOMAIN lines |-> IF Matches(q, lines[i]) THEN << lines[i].rec >> ELSE << >>])

\* A line longer than the buffer stops the scanner, unless the page was full before it.
ScanFails(q, lines) ==
  \E i \in DOMAIN lines : /\ ~Scannable(lines[i])
                          /\ Len(Found(q, SubSeq(lines, 1, i - 1))) <= q.room

\* Mutant of Collect: the token is the last record returned, not the one after it.
CollectTokenAtLast(q, lines) ==
  LET hits == Found(q, lines)
      got  == q.got \o SubSeq(hits, 1, IF Len(hits) <= q.room THEN Len(hits) ELSE q.room)
  IN [q EXCEPT !.got = got, !.room = q.room - (Len(got) - Len(q.got)),
               !.next = IF Len(hits) > q.room THEN Last(got).seq ELSE NoToken]

\* Mutant of Collect: a page takes every match.
CollectUnlimited(q, lines) ==
  LET hits == Found(q, lines)
  IN [q EXCEPT !.got = @ \o hits, !.room = @ - Len(hits), !.next = NoToken]

\* A page takes what it has room for; the match after that only proves there is more.
Collect(q, lines) ==
  LET hits == Found(q, lines)
      got  == q.got \o SubSeq(hits, 1, IF Len(hits) <= q.room THEN Len(hits) ELSE q.room)
  IN [q EXCEPT !.got = got, !.room = q.room - (Len(got) - Len(q.got)),
               !.next = IF Len(hits) > q.room THEN Last(got).seq + 1 ELSE NoToken]

\* Mutant of QueryPaths: the active segment only.
QueryPathsActiveOnly(r) == ReaderGoes(r, "paths", "listed", job[r])

\* queryableSegmentPaths.
QueryPaths(r) ==
  ReaderGoes(r, "paths", "listed", [job[r] EXCEPT !.known = hasManifest, !.listed = manifest])

Listed(r) == FlattenSeq([i \in DOMAIN job[r].listed |-> segs[job[r].listed[i].segment]])

\* One file of the scan: an error of the scanner, a full page, or on to the next file.
ScanFile(r, from, to, lines) ==
  LET page == Collect(job[r], lines) IN
  IF ScanFails(job[r], lines) THEN ReaderGoes(r, from, "failed", job[r])
  ELSE ReaderGoes(r, from, IF page.next # NoToken THEN "load" ELSE to, page)

QueryListed(r) ==
  IF \A i \in DOMAIN job[r].listed : job[r].listed[i].segment \in DOMAIN segs
    THEN ScanFile(r, "listed", "openLast", Listed(r))
    ELSE ReaderGoes(r, "listed", "failed", job[r])

QueryOpenActive(r) ==
  IF hasActive THEN ReaderGoes(r, "openLast", "readLast", [job[r] EXCEPT !.fd = OpenedActive])
  ELSE ReaderGoes(r, "openLast", "failed", job[r])

QueryActive(r) ==
  \E lines \in ReadsOf(job[r].fd) : ScanFile(r, "readLast", "load", lines)

-----------------------------------------------------------------------------
(* Calls *)

CompareCall(r, cp) ==
  ReaderGoes(r, "idle", "load", [NoJob EXCEPT !.op = "compare", !.cp = cp, !.since = prevHash])

QueryCall(r, filter) ==
  ReaderGoes(r, "idle", "paths",
         [NoJob EXCEPT !.op = "query", !.filter = filter, !.room = PageLimit,
                       !.since = prevHash])

\* The caller follows next_token with the same filter.
NextPage(r) ==
  /\ job[r].op = "query" /\ job[r].next # NoToken
  /\ ReaderGoes(r, "done", "paths",
            [job[r] EXCEPT !.resume = job[r].next, !.next = NoToken, !.room = PageLimit])

Leave(r) == \E from \in {"done", "failed"} : ReaderGoes(r, from, "idle", NoJob)

ReaderCall(r) ==
  /\ up /\ reads < MaxReads /\ reads' = reads + 1
  /\ (\E cp \in signed : CompareCall(r, cp)) \/ (\E f \in SUBSET Event \ {{}} : QueryCall(r, f))

ReaderStep(r) ==
  /\ \/ LoadManifest(r) \/ ScanSegments(r) \/ OpenActive(r) \/ ReadActive(r)
     \/ QueryPaths(r) \/ QueryListed(r) \/ QueryOpenActive(r) \/ QueryActive(r)
     \/ NextPage(r) \/ Leave(r)
  /\ UNCHANGED reads

\* The writers that are at work on the files, before or after this step.
AtWork ==
  {w \in {"emit", "rotate"} :
    LET at == IF w = "emit" THEN InEmit ELSE InRotate \ {"prepare"} IN
    \E h \in Handler : pc[h] \in at \/ pc'[h] \in at}
  \cup (IF up # up' THEN {"crash"} ELSE {})

Observe ==
  overlap' = [r \in Reader |-> IF rpc'[r] = "idle" THEN {}
                               ELSE overlap[r] \cup AtWork]

ReadersNext ==
  /\ \/ Next /\ UNCHANGED <<rpc, job, reads>>
     \/ (\E r \in Reader : ReaderCall(r) \/ ReaderStep(r)) /\ UNCHANGED vars
  /\ Observe

ReadersSpec == ReadersInit /\ [][ReadersNext]_<<vars, readers>>

-----------------------------------------------------------------------------
ReadersTypeOK ==
  /\ rpc \in [Reader -> Locations] /\ job \in [Reader -> Job]
  /\ overlap \in [Reader -> SUBSET {"emit", "rotate", "crash"}]
  /\ reads \in 0..MaxReads

Replied(r, op) == rpc[r] = "done" /\ job[r].op = op

LogMatch(r) == job[r].state.valid /\ payload(job[r].state) = job[r].cp

(***************************************************************************)
(* A verify that overlaps emits but no rotation answers for a moment of    *)
(* its own call: it accepts, and its head has everything acknowledged      *)
(* before the call and nothing beyond the emit in progress.  The one       *)
(* exception is a line caught half written, which it reports as damage at  *)
(* the record after the last complete one (Verify takes no lock).          *)
(***************************************************************************)
QuietWalkIsCurrent ==
  \A r \in Reader : rpc[r] = "done" /\ overlap[r] \subseteq {"emit"} =>
    LET v == job[r].state IN
    IF v.valid
      THEN /\ IsPrefix(job[r].since, v.root_hash)
           /\ v.tree_size = Len(v.root_hash)
           /\ v.tree_size <= seq + IF "emit" \in overlap[r] THEN 1 ELSE 0
      ELSE "emit" \in overlap[r] /\ Len(job[r].since) <= v.at /\ v.at <= seq

(***************************************************************************)
(* The pages of a query, put one after the other, are records of the log   *)
(* that match, in ascending order and none twice, whatever is emitted or   *)
(* rotated between and during the pages (runQuery, next_token).            *)
(***************************************************************************)
PagesAscend ==
  \A r \in Reader :
    LET got == job[r].got IN
    /\ \A i \in DOMAIN got :
         /\ got[i].event \in job[r].filter
         /\ got[i].seq = Len(got[i].prev_hash)
         /\ \A h \in Heads : IsPrefix(got[i].hash, h) \/ IsPrefix(h, got[i].hash)
    /\ \A i \in 2..Len(got) : got[i-1].seq < got[i].seq

(***************************************************************************)
(* A query that no rotation overlaps returns, once its pages are followed  *)
(* to the end, every matching record acknowledged before the call; and a   *)
(* next_token is no phantom: a further match exists, if only in the line   *)
(* that an emit is about to write (behaviors.md B-015).                    *)
(***************************************************************************)
Missing(r) ==
  {a \in acked : /\ Len(a.hash) <= Len(job[r].since)
                 /\ Last(a.hash).event \in job[r].filter
                 /\ \A i \in DOMAIN job[r].got : job[r].got[i].seq # a.seq}

QuietQueryIsComplete ==
  \A r \in Reader : Replied(r, "query") =>
    /\ job[r].next = NoToken /\ "rotate" \notin overlap[r] => Missing(r) = {}
    /\ job[r].next # NoToken /\ "emit" \notin overlap[r] =>
         \E f \in {active} \cup Range(segs) : \E i \in DOMAIN f :
           Matches([job[r] EXCEPT !.resume = job[r].next], f[i])

-----------------------------------------------------------------------------
(* What the documents of the repository say, which a rotation falsifies.   *)

(***************************************************************************)
(* behaviors.md B-015 and ADR-006: a query walks every rotated-out segment *)
(* and the active one, and may run next to a rotation without any          *)
(* coordination: followed to the end, and verified, it has every match.    *)
(***************************************************************************)
QueryIsComplete ==
  \A r \in Reader :
    Replied(r, "query") /\ job[r].next = NoToken /\ job[r].state.valid => Missing(r) = {}

(***************************************************************************)
(* behaviors.md B-010: a freshly created checkpoint always matches its own *)
(* log, whether or not a rotation has occurred.                            *)
(***************************************************************************)
FreshCheckpointMatches ==
  \A r \in Reader :
    Replied(r, "compare") /\ job[r].cp.root_hash = job[r].since
      /\ overlap[r] \cap {"emit", "crash"} = {} => LogMatch(r)
===============================================================================
