# A formal model of audit-trail

audit-trail keeps an append-only, hash-chained log of audit events in JSONL files. A daemon
(or a single command) appends events, cuts the log into sealed segments, signs checkpoints of
its head, anchors them in Rekor, and lets anybody verify and query the files. The repository's
own scripts install Git hooks and lint diagrams. This directory holds TLA+ models of that
program, the TLC runs that check them on small instances, and theorems that TLAPS proves for
every instance. `PROJECT.json` maps each definition to the lines it models and lists the runs,
the mutants that show each property can fail, the findings, the hazards and the theorems.

Paths below are relative to the repository root.

## 1. Inventory

### Components

| Component | State | Operations | Talks to |
|---|---|---|---|
| **Hash chain** `chain.go` | in memory: `Chain.seq`, `Chain.prevHash`, `Chain.mu`; on disk: the active segment | `NewChain`/`loadState`, `Emit`, `Verify` | segments (resume point), the file system |
| **Segments and rotation** `segment.go` | `<base>.NNN`, `<base>.manifest`, `<base>.NNN.checkpoint` | `Rotate`, `manifestState`, `highestSegmentOnDisk`, `writeManifestAtomic` | the chain's lock and memory, signing |
| **Verifier** `chain.go` | none, reads the files | `verifyChainStateFrom` (one file), `verifyAllSegments` (all) | called by Verify, Rotate, checkpoints, query |
| **Checkpoints** `checkpoint.go`, `checkpoint_signature.go` | none; envelopes are given out | `CreateSignedCheckpoint` (under `mu`), `VerifySignedCheckpoint`, `VerifySignedCheckpointForLog` (no lock) | verifier, keys |
| **Query** `query.go` | none; the caller holds the token | `runQuery` (no lock) | manifest, segments, verifier |
| **IPC daemon** `ipc.go` | one goroutine per connection, startup configuration | emit, verify, ping, checkpoint_create, checkpoint_anchor, checkpoint_verify, rotate, query | everything above |
| **Rekor anchoring** `rekor.go` | receipts, given out | submit, offline and online verification | an external HTTPS service |
| **Command line** `main.go` | none | one operation per process, on the same files | everything above |
| **Canonical form** `canonical.go`, number checks in `chain.go`, `ipc.go` | none | `canonical`, `rejectFloats`, `normalizeJSONNumbers` | Emit and the verifier |
| **Keys and signatures** `checkpoint_signature.go` | key files | load, sign, verify | checkpoints, Rekor |
| **Git hooks** `scripts/setup-hooks.py` | `.git/hooks/pre-commit`, `post-merge` | install; run the guards of a commit or merge | Git, guard scripts outside the repository |
| **Mermaid linter** `scripts/check-mermaid.py` | none | `find_blocks`, `lint_block`, `main` | Markdown files |
| **Task scripts** `scripts/*.sh`, tests, fixtures, documents | none | | |

The components of the program share state in two places only: `Chain` in memory, behind
`Chain.mu`, and the files. `Chain.mu` is one process's: a command next to the daemon shares the
files and no lock. The two Python scripts share nothing with it or with each other. Writers take
`mu`; readers (verify, compare_log, query) do not, and see the files change under them.

### What is hard here, and what makes each component correct

- **Several file operations, one promise.** `Emit` opens, writes, syncs, closes and then advances
  memory; `Rotate` walks, signs, renames, writes a sidecar, writes the manifest and opens a fresh
  file. Every one of them can fail or be the last thing the process did. Correct: no two heads
  that were ever vouched for contradict each other; the files verify whenever nothing is in
  progress; sealed segments stay as they are; a valid verdict never hides a record.
- **Data that is not on the disk yet.** Only Emit's own success and the manifest are behind an
  fsync. A power loss can take back a line whose fsync failed, a renamed segment's lines, a
  sidecar. Correct: what was made durable before it was vouched for is never hidden. (More is not
  promised: section 4.)
- **Resume.** A start rebuilds `seq` and `prevHash` from the manifest and the active segment
  together, after any history of rotations and deaths.
- **The verifier's seams.** `prev` and `offset` are carried from file to file and compared with an
  untrusted manifest. Correct: what passes is a prefix of the honest history.
- **Readers without a lock.** A manifest read before a rotation is used after it. Correct: what
  such a reader says is true of some moment of its call. (It is not always: section 4.)
- **Liveness.** Every call returns and gives up the mutex, whichever step failed, and no emit
  waits for Rekor.
- **Several processes.** Each has its own idea of the head. Correct: one after another they are as
  good as one; next to one another they may spoil the log, but not unnoticed.
- **Anchoring.** A submission can time out and still arrive. Correct: a receipt that is given out
  is one for what was submitted, and auditors who compare indexes see one checkpoint.
- **Content.** A record is hashed in one encoding, written in another and decoded again. Correct:
  what was accepted recomputes, and numbers are what the caller sent.
- **Hooks.** The installer can die between a truncation and a write, guards can vanish while a
  hook runs, and return codes wrap. Correct: a reported install is whole, and a commit under it
  has passed the guards.

The hazards are listed one by one, at their lines, in `PROJECT.json`.

## 2. Modules

| Module | Models |
|---|---|
| `HashChain` | records, hashes, lines of a file and what a failed or interrupted write makes of them, `verifyChainStateFrom` |
| `SegmentStore` | the files of a log as one record; `highestSegmentOnDisk`, `countRecords`, `manifestState`, `verifyAllSegments`, `loadState`, the checkpoint payload and what signing refuses |
| `Chain` | the daemon: handlers, `Chain.mu`, `Emit`, `Rotate` and `checkpoint_create` one file operation at a time, I/O errors, death and restart |
| `PowerLoss` | extends `Chain` with what is not fsynced, and with a failure of the machine at any step |
| `AppendOnlyLog` | the abstract promise: a growing ledger and the heads vouched for |
| `ChainRefinesLog` | `Chain` implements `AppendOnlyLog` (INSTANCE with a refinement mapping) |
| `LogReaders` | extends `Chain` with verify, compare_log and paged queries that take no lock, one system call at a time |
| `VerifyLoop` | the verifier's loops as the source runs them, and every small edit of an honest log |
| `Processes` | daemon and commands as processes on one log, each with a Chain of its own (uses `SegmentStore`) |
| `RekorAnchor` | submissions to an external Rekor over a bad network, and every way to verify a receipt |
| `RecordEncoding` | the content of a record from request or arguments to hash, line and verifier |
| `GitHooks` | the hook installer and the hooks it writes, next to commits, merges and checkouts |
| `MermaidLint` | the linter over texts and lists of files |
| `SegmentStore_proofs` | lemmas about induction and recursion, and about the operators of `HashChain` and `SegmentStore`, for the proofs below |
| `Chain_proofs` | theorems about `Chain` under every I/O error and every death of the process: types, sealed segments, the manifest, the heads that were vouched for |
| `PowerLoss_proofs` | theorems about `PowerLoss`: what no power loss hides |
| `ChainHonest_proofs` | theorems about `Chain` under the faults it recovers from, and the refinement of `AppendOnlyLog` |
| `LogReaders_proofs`, `Processes_proofs`, `VerifyLoop_proofs` | theorems about the module of that name |
| `Programs_proofs` | theorems about `RekorAnchor`, `RecordEncoding`, `GitHooks` and `MermaidLint` |
| `MCChain`, `MCPowerLoss`, `MCCalls`, `MCReading`, `MCLogReaders`, `MCPrograms` | model values, symmetry and fault sets for TLC; `MCCalls`, `MCReading` and `MCPrograms` put models that share no state side by side |

### How the model corresponds to the code

*Hashes.* SHA-256 is taken to be free of collisions. A hash is the sequence of record bodies it
was computed over, so equal hashes mean equal histories and "the log was extended" is `IsPrefix`.
A body keeps `seq` and the event; the other fields of an event are one opaque value. Blank lines
are left out; every reader skips them.

*Lines.* A line is a record, or a record with more behind it on the same line (`"two"`), or junk
(cut short), with or without its newline. `AppendLine` is one write in append mode: after a line
without newline it glues. `TooLong` are the events whose record exceeds the 16 MiB buffer of every
reader. A glued line keeps the first record only; if it is the second one that is too long, the
line is unreadable either way, and every reader and a start refuse it at the same place.

*Files.* `active`/`hasActive` is `<base>`; `segs` maps numbers to `<base>.NNN`; `manifest` and
`hasManifest`; `cps` are the sidecars. `manifest` entries keep everything but `issued_at`. Entries
whose name is not a base name are left out: both readers of the manifest refuse them first.

*The verifier as a closed form.* Up to the first line that fails, the loop's `prev` is the stored
hash of the line before; up to the first segment that fails, the carried values are those of the
manifest entry before. `verifyChainStateFrom` and `verifyAllSegments` are therefore "all are
sound, or the least that is not", which needs no recursion and can be proved about. The run
`reading` compares them, the reported position included, with the recursive loops.

*Steps of `Chain`.* `pc` is the place of a handler: waiting for `mu` (`emit`, `rotate`, `create`)
or at the operation it does next:

| pc | next operation | source |
|---|---|---|
| `write` | float check, record, open and write | chain.go:96-128 |
| `sync` | Sync, Close, advance memory, reply | chain.go:129-140 |
| `prepare` | count, resume point, walk, sign, number | segment.go:242-311 |
| `rename` | os.Rename | segment.go:314 |
| `checkpoint` | the sidecar | segment.go:319-322 |
| `manifest` | temporary file and rename | segment.go:325-338 |
| `fresh` | new active segment, reply | segment.go:341-356 |
| `build` | walk all files, sign, reply | checkpoint.go:40-69 |

`prepare` is one step because it changes nothing and the lock keeps other writers out. The
manifest is one step because its rename is atomic; a failure before it leaves the old one. `acked`
and `signed` are history: what callers and auditors were told. A crash resets what the process
knew and keeps the files; in a write it may, with `torn`, leave a part of the line. This is the
death of the process: the machine stays up, and all that was written stays written. `Restart` is
`NewChain`: it refuses a file with an unreadable line (then the model stops, as the daemon does),
counts lines and takes over the last stored hash.

*Faults* are a constant: `write`, `torn`, `sync`, one per step of Rotate, `crash` and
`crashWindow`. Each run names those it allows.

*Steps of `PowerLoss`.* `Operate` is a step of `Chain` together with what it makes durable, and
`PowerLoss` a failure of the machine. `left` are the contents that a failure can leave of the
active segment, `leftSegs` those of each rotated-out segment: everything written since the last
fsync of that file may survive from its start up to any place. An Emit's fsync leaves the active
segment as the only possibility (chain.go:129); a failed one, a short write and a death in front
of it leave the line in the air; the rename takes the segment along as it is, for Rotate does not
fsync it (segment.go:314). `cpsSafe` are the sidecars that must survive: none that was written
since the last failure, for `os.WriteFile` does not fsync (segment.go:320). A sidecar that
survives in part counts as gone. The manifest is fsynced before its rename (segment.go:158) and
survives. After a failure the disk is the log. `settled` is history: the checkpoints that were
given out while nothing in the active segment was in the air.

*Steps of `LogReaders`.* One step per system call on something that changes: the manifest, the
directory, the name of the active segment, its contents. An open file is known by the number the
next rename gives it, so it stays open across the rename. The contents may end in the front of a
line being written. `overlap` remembers which writers were at work during the call. `Walk` steps
(`load`, `scan`, `open`, `read`) are `verifyAllSegments`; a query does `paths`, `listed`,
`openLast`, `readLast` and then a walk, and its caller may follow `next_token`.

*Steps of `Processes`.* An operation is cut where it goes back to the files and another process
can have come between: a start reads the manifest, then the active segment; `Emit` opens, then
writes; `Rotate` counts, walks, reads the manifest for its index, takes a number, renames, writes
sidecar and manifest, opens a fresh file. Files are inodes (`lines`), because a process that
opened the active segment writes to it wherever a rename has put it. Two pairs are one step:
Rotate's count with its first look at the manifest, and the sidecar, which nobody reads, with the
manifest. `SegmentStore`'s operators are applied to `Disk`, the files as they stand. Faults are
left out here; `Chain` has them.

*Steps of `RekorAnchor`.* A client's `stage` goes from `idle` over the wait for `Chain.mu`
(`emit`, `anchor`) to `append` or `build`, and for an anchor to `post`; the command `checkpoint
anchor` goes to `post` at once, with a checkpoint from a file, and may submit it again. `sent` are
the requests under way. Rekor adds an entry, finds an equal one (200 or 409) or refuses, and its
answer reaches the client or not; `Timeout` gives up and leaves the request on its way.
Verification is pure: `VerifyRekorReceiptOffline`, `VerifyRekorReceiptOnline` and `VerifyAnchor`
(the command, which can take the key from the entry) are operators over a receipt and `rekor`.
A signature is the thing signed, so only its maker can make it. The body of an entry holds the
*text* of a key, not the key, as in the code.

*Steps of `RecordEncoding`.* One per accepted record. A request has one value of interest, in `ts`
(where a value that is no number becomes 0), in a field or inside `context`. `Reread` and
`Recomputes` are the verifier's parse and hash of a line. `canonical` and `marshal` differ in one
thing, HTML escapes, as `SetEscapeHTML(false)` and `json.Marshal` do.

*Steps of `GitHooks`.* `installer` goes through open (which truncates), write and chmod for one
file and then the other, or fails; `git` through Git's look for the hook (`GitStart`), the
interpreter's load of it (`GitLoad`), and then `exists()` (`look`) and `subprocess.run` (`run`)
for each guard. The history `steady` holds the guards that stayed in place for the whole
operation, `promised` says that the installer had reported success both when Git looked and when
the text was loaded.

*Steps of `MermaidLint`.* `queue` is main's list, `text`, `i` and `cur` are find_blocks' loop.
Blocks are linted as they are yielded. `Offending` says the same of a whole text, without a loop.

## 3. Runs

| Run | Checks | Instance | Distinct states |
|---|---|---|---|
| `chain_safe` | `NoEquivocation`, `HonestLogVerifies`, `ImplementsLog` | 2 handlers, 3 events, one of them refused, 4 emits, 2 rotations, 2 deaths; faults write, rename, crash | 769,896 |
| `chain_faults` | `TypeOK`, `ValidHidesNothing`, `ManifestIsAChain`, `ListedSegmentsAreSigned`, `SealedForever` | 2 handlers, 3 events, one of them too long for a reader, 3 emits, 2 rotations, 1 death; every I/O error and death | 932,336 |
| `power_loss` | `KeptIsNeverHidden` | 2 handlers, 2 events, 3 emits, 1 rotation, 2 deaths or power losses; every I/O error | 1,172,154 |
| `calls` | `EveryCallReturns`; `EmitNeverWaitsForRekor`, `AnchorReturns`, `AuditorsAgree`, `ReceiptsVerify` | the daemon: 2 handlers, 2 emits, 1 rotation, 1 death, every fault, one refused event; and next to it the anchoring: bounds below | 42,885 |
| `reading` | `ReadersTypeOK`, `QuietWalkIsCurrent`, `PagesAscend`, `QuietQueryIsComplete`; `ClosedFormIsTheLoop`, `OnlyTheTailCanGo` | the readers: 1 handler, 1 reader, 2 emits, 2 rotations, pages of 1; and next to them the edited logs: up to 3 records, all cuts into segments, up to 2 edits; one event too long for a reader | 1,041,573 |
| `programs` | `AloneIsHonest`, `DamageIsSeen`; `SocketRecordsRecompute`, `RecordsSayWhatWasSent`; `HooksTypeOK`, `ReportedInstallIsComplete`, `PromisedGuards`; `ReportIsExact`, `ExitIsTheVerdict` | four models that share no state, side by side; bounds below | 230,965 |
| `first_rotation_crash` | violates `UncoveredIsRejected` | 1 crash in the window | |
| `rotate_failure` | violates `FailedRotateIsVerifiable` | failing sidecar or manifest | |
| `sync_failure` | violates `Linkage` | failing fsync | |
| `query_during_rotate` | violates `QueryIsComplete` | no fault | |
| `compare_during_rotate` | violates `FreshCheckpointMatches` | no fault | |
| `command_bytes` | violates `ContentBinding` | 2 records | |

*What the passing runs show.* Without torn writes, fsync errors and failures inside Rotate's
window, the system is an append-only ledger: `Emit` extends it at its write, replies and
checkpoints vouch for it as it is, everything else is invisible (`ImplementsLog`), and whenever
nobody holds the mutex the files verify with exactly the daemon's head (`HonestLogVerifies`). With
every I/O error and every death of the process, less remains, and that is the point of
`chain_faults`: sealed segments are untouched, listed segments are signed and chained, and a valid
verdict contains every head ever vouched for, provided verify has a manifest to hold against the
directory (`ValidHidesNothing`; without that condition `first_rotation_crash` refutes it). With
power losses none of that is left as it stands: lines that were never fsynced can go, from under a
signature or from a listed segment, and so can sidecars. What is left is `KeptIsNeverHidden`: a
valid verdict contains every head that Emit acknowledged and every head that was signed while
nothing was in the air, whatever the rotated-out segments lost. If one of them did lose lines,
verify says so.

*Why the bounds are enough to meet the interesting cases.* Two handlers give every order of the
lock. Two rotations give a seam between two sealed segments, a rotation of an empty remainder, a
failed rotation followed by a good one, and a manifest read with one segment and used with two.
Three or four emits put records on both sides of each. One crash at any step, with its restart,
meets every intermediate state of the files; two in `chain_safe` give a crash after a restart, and
two in `power_loss` a death that leaves a line in the air and then a failure of the machine that
takes it. One rotation is enough there to seal a file with lines in the air; what follows from a
second one is left to the theorem.
`RotateAfter` is 1: a higher threshold only disables rotations. Two edits of a log let a change of
lines be covered by a change of the manifest. Handlers and events are symmetric, and
symmetry is used except under liveness and where a run has one of each.

*Models side by side.* `Processes`, `RecordEncoding`, `GitHooks` and `MermaidLint` have no
variable in common, and each has a small state space of its own. `MCPrograms` puts them side by
side: `subject` names the one that a behaviour is about, the others stay as they began. Nothing is
multiplied, since no behaviour moves two of them. `MCCalls` does the same with `Chain` and
`RekorAnchor`, for the properties that need fairness, and `MCReading` with `LogReaders` and
`VerifyLoop`.

- *Processes*: two processes, three starts, three emits, two rotations, one of the two rotates.
  That is a command that starts, acts and ends inside any operation of another, and again; a
  resume between a rename and its manifest; a write through an inode that has become a segment.
  `AloneIsHonest` has the processes follow one another. `DamageIsSeen` needs the one rotator:
  section 4.
- *Rekor*: two clients, two anchor calls, one record, two texts of the operator's key and one of
  another key. A submission can time out, arrive later and meet its own retry, from the same or
  another client; two heads give two checkpoints of one key, the third text a stranger's. The
  properties about receipts range over everything that can be put together from the entries.
- *Encoding*: two records, int64 narrowed to -4..3 with requests from -5 to 5, so that both ends
  are exceeded; a record follows one of another source.
- *Hooks*: two installs, one operation. An operation leaves nothing behind but its outcome, so a
  second one meets nothing new; the second install meets what the first left.
- *Linter*: texts of up to five lines out of five kinds, one argument and up to two default files:
  two blocks in one text, a block whose kind a comment hides, one that never closes, a clean file
  after a bad one.

*Deadlock* is checked in `chain_safe`, `reading` and the violation runs but `command_bytes`. It is
off in `chain_faults`, `power_loss` and `calls`, where a start may be refused for good, and in
`programs` and `command_bytes`, where calls and files run out.

*Fairness* (`Fairness` for `EveryCallReturns`, `AnchorFairness` for the two properties of
`RekorAnchor`). Weak fairness of a handler's next step
inside an operation: it waits for nothing but the disk. Strong fairness of taking the mutex:
`sync.Mutex` hands itself to a waiter that has starved for a millisecond. Nothing is assumed of
calls, crashes and restarts; a handler that dies with the process counts as returned. Nothing is
assumed of Rekor or the network: `EmitNeverWaitsForRekor` holds even if no request ever times out,
and `AnchorReturns` names what it needs, that the client's five seconds pass.

*Mutants.* Every property of a passing run has a mutated definition (marked `Mutant of` where it
stands) with which TLC finds the property violated: a resume that ignores the manifest, a
truncating open, error returns that keep the lock, a manifest written before the sidecar, an
orphan scan left out, an Emit that replies without its fsync, a token off by one, and so on.

## 4. Where the code and its documents disagree

1. **Crash in the first rotation** (`first_rotation_crash`). Before the first manifest exists,
   `verifyAllSegments` does not scan the directory. A death between the rename and the manifest
   of the first rotation leaves a segment that nothing covers, and after the restart verify
   accepts an empty log. `docs/spec/behaviors.md:76-79` says such a segment is reported.
2. **Rotate's errors undo nothing** (`rotate_failure`). ADR-005 section 5 says a failed rotation
   leaves a consistent, verifiable disk; after a failing sidecar or manifest the log is neither.
3. **A failing fsync forks the chain** (`sync_failure`). The line stays, memory does not advance,
   and the next record has the same `seq` and `prev_hash`: `data-model.md`'s Linkage is broken by
   the daemon itself.
4. **A query misses a segment** (`query_during_rotate`). The list of files is older than a
   rotation, the closing walk is newer: acknowledged records are missing, `verified` is true.
   ADR-006 says a query needs no coordination with Rotate.
5. **A false alarm** (`compare_during_rotate`). compare_log during a rotation answers
   `log_match:false` for the checkpoint of the current head; B-010 says a fresh checkpoint always
   matches.
6. **Bytes from the command line** (`command_bytes`). An argument of `emit` that is not UTF-8 is
   hashed as the escape `\ufffd`, which the encoder writes for it, and read back as the character
   U+FFFD, which is written as itself: the record never recomputes, although
   `docs/spec/data-model.md:34` says each does. Over the socket, decoding comes first and this
   cannot happen (`SocketRecordsRecompute`).

Met while modelling, without a run of their own:

- *Rotate signs what verify rejects.* ADR-005 (130-131) has the checkpoint of a segment made by
  the machinery of `BuildCheckpointPayload`, which fails closed on "any chain state Verify() would
  reject" (`checkpoint.go:34-36`). Rotate does not call it: it walks the active segment alone,
  from the manifest's resume point (segment.go:250-261). In `Chain`, after a death in the window
  of a second rotation, the restarted daemon resumes before the uncovered segment, acknowledges
  emits, and its next rotation signs and lists a head that contradicts the uncovered records.
  Verify rejects the files all the while, and goes on doing so (`ValidHidesNothing`).
- *A power loss takes more than it should.* In `PowerLoss`: (a) Rotate returns success, a power
  loss keeps the fsynced manifest and loses the sidecar, which was not fsynced; ADR-005 (249-250)
  counts on it. (b) An emit whose fsync fails leaves its line, `checkpoint_create` signs it from
  the page cache (checkpoint.go:44), and a power loss drops it: the log verifies, shorter than
  what was signed, although `checkpoint.go:32-33` calls it the on-disk head. An emit after that
  makes a second head, which contradicts the signed one. (c) A line as in (b) that Rotate renames
  with its segment can go as well; verify then reports the segment. So `ValidHidesNothing`,
  `ManifestIsAChain` and `ListedSegmentsAreSigned` are claims about I/O errors and deaths of the
  process only.
- Emit accepts a record of any length, and no reader one of more than 16 MiB:
  `docs/spec/configuration.md:74-77` documents the limit of the readers. After such a record
  verify rejects and a start refuses the log; that verify never passes over one is in
  `chain_faults`.
- *Two rotators.* `segment.go:303-306` says the single-writer mutex closes the window between the
  stat of a segment name and the rename. It does in one process. With `Rotators = Proc` in
  `programs` TLC finds two processes that both find `.001` free; the second renames the first
  one's fresh, empty file over the sealed segment. With three rotations even `DamageIsSeen` fails.
- A resubmission after a timeout meets Rekor's 409, which `SubmitCheckpoint` reports as an error
  (rekor.go:124-127): the entry exists, and no receipt for it can be had that way.
- `checkpoint_anchor` over the socket answers with the receipt only. The checkpoint it is for
  holds a time stamp and is given to nobody; a receipt cannot be verified without it.
- A receipt verifies only with the very text of the key that was submitted, not with another text
  of the same key (`ReceiptsVerify` says "the text").
- `entry_id` is not under the signature, and offline verification does not look at it.
- `rejectFloats` cannot be reached from the program: the socket refuses fractions before Emit, the
  command makes none.
- `git commit --no-verify` does not run the pre-commit hook, so `block-no-verify.py` is never
  asked from it. In a linked worktree `.git` is a file and the installer refuses. A hook of
  somebody else is overwritten, and a run that dies after the truncation leaves an empty
  executable hook there, which lets everything pass until the next run.
- A guard that never ends holds the commit: `subprocess.run` has no timeout.
- The linter's docstring lists `class` and `state` among the reserved participants; line 37 leaves
  them out. A named file that is missing is reported and does not change the exit status.

## 5. Proofs

TLAPS checks the theorems below for every value of the constants that the named assumptions of
the modules allow: any number of handlers, processes and clients, any events, bounds and
thresholds. What those assumptions say is that names are distinct, sets are subsets of what they
are taken from, bounds are natural numbers and return codes are ones a process can have. The last
column is what a theorem needs beyond that.

| Theorem | States | Needs |
|---|---|---|
| `TypeCorrect` | `Spec => []TypeOK` | |
| `InvHolds`, `ManifestInvHolds`, `HeadsStayHeld` | the inductive invariants of `Chain` | |
| `SegmentsStaySealed` | `Spec => SealedForever` | |
| `ListedSegmentsSigned` | `Spec => []ListedSegmentsAreSigned` | |
| `ManifestListsAChain` | `Spec => []ManifestIsAChain` | |
| `ValidNeverHides` | `Spec => []ValidHidesNothing` | |
| `PowerInvHolds` | the inductive invariant of `PowerLoss` | |
| `KeptStaysVisible` | `PowerSpec => []KeptIsNeverHidden` | |
| `HonestInvHolds` | the inductive invariant of an honest log | `Harmless` |
| `NeverEquivocates` | `Spec => []NoEquivocation` | `Harmless` |
| `HonestLogStaysVerified` | `Spec => []HonestLogVerifies` | `Harmless` |
| `ChainImplementsLog` | `Spec => ImplementsLog` | `Harmless` |
| `WalkInvHolds` | the inductive invariant of a verify that takes no lock | `Harmless` |
| `QuietWalksAreCurrent` | `ReadersSpec => []QuietWalkIsCurrent` | `Harmless` |
| `ReadersTypeCorrect` | `ReadersSpec => []ReadersTypeOK` | |
| `HistoryInvHolds` | records and segments are numbered by their places | `Harmless` |
| `PagesInvHolds`, `CoverInvHolds` | the inductive invariants of the pages of a query | `Harmless` |
| `PagesAlwaysAscend` | `ReadersSpec => []PagesAscend` | `Steadfast` |
| `QuietQueriesAreComplete` | `ReadersSpec => []QuietQueryIsComplete` | `Harmless` |
| `ProcInvHolds` | the inductive invariant of `Processes` | |
| `DamageNeverHides` | `ProcessesSpec => []DamageIsSeen` | `OneRotator` |
| `AloneInvHolds` | the inductive invariant of processes one at a time | `TooLong = {}` |
| `AloneStaysHonest` | `ProcessesSpec => []AloneIsHonest` | `TooLong = {}` |
| `LoopsAreClosedForms` | `EditsSpec => []ClosedFormIsTheLoop` | |
| `FilesInvHolds` | the inductive invariant of edited files | |
| `AcceptedIsHonest` | `EditsSpec => []OnlyTheTailCanGo` | |
| `AnswersAreOnesOwn` | the inductive invariant of `RekorAnchor` | |
| `ReceiptsStayGood` | `AnchorSpec => []ReceiptsVerify` | |
| `OneCheckpointPerIndex` | `AnchorSpec => []AuditorsAgree` | |
| `LinesAreOfRecords` | the inductive invariant of `RecordEncoding` | |
| `SocketRecordsVerify` | `EncodingSpec => []SocketRecordsRecompute` | |
| `NumbersSurvive` | `EncodingSpec => []RecordsSayWhatWasSent` | |
| `HooksTypeCorrect` | `HooksSpec => []HooksTypeOK` | |
| `ReportedInstalls` | `HooksSpec => []ReportedInstallIsComplete` | |
| `GuardsArePromised` | `HooksSpec => []PromisedGuards` | |
| `LintInvHolds` | the inductive invariant of `MermaidLint` | |
| `ReportsExactly` | `LintSpec => []ReportIsExact` | |
| `ExitsTruly` | `LintSpec => []ExitIsTheVerdict` | |

*The hypotheses.*

- `Harmless` is `Faults \subseteq {"write", "rename", "crash"}` and `TooLong \subseteq Refused`:
  writes and renames that fail with nothing done, and deaths outside Rotate's window, any number
  of them; no event that Emit accepts is longer than the readers' buffer. These are the constants
  of `chain_safe`. Each other fault refutes the promise: a torn line or a record no reader can
  read stops every later verify, a failing fsync forks the chain, and a rotation that fails or
  dies between its rename and its fresh file leaves a log that does not verify (section 4).
- `Steadfast` is `Faults \subseteq {"rename"}` and `TooLong \subseteq Refused`: no write fails and
  no process dies. A reader can see a whole record of which the newline is still missing. If
  that write then fails, or the process dies before it, another record takes the place, and what
  the reader returned contradicts the log: TLC refutes `PagesAscend` with either fault.
  The order of the pages does not depend on it: `PagesInvHolds` has it under `Harmless`, and it
  is only that the records are the log's which needs `Steadfast`.
- `OneRotator` says that any two processes that rotate are the same one; any number of others
  may start, emit and exit next to it. With two, TLC refutes `DamageIsSeen` (section 4).
- `TooLong = {}` for `AloneStaysHonest` is the second half of `Harmless` again: `Processes` has
  no refused events. It puts no condition on who rotates.

*Types, numbering, manifest* (`Chain_proofs`). `TypeOK` includes that `segs` is a sequence:
segments are numbered without gaps. It is not inductive alone, for `RotateRename` could skip a
number; `Inv == TypeOK /\ InFlight` adds what the files owe to the operation in progress (the
number Rotate took is still the next one until its rename, the sidecar exists before the manifest
step). There is one lemma per operator for its type, one per operation for `TypeOK'`, and one per
operation for `InFlight'`; the mutex (`mu = h <=> pc[h] \in Inside`) excludes a second operation
in progress. From `Inv`, `SealedForever` follows since the only step that touches `segs` adds the
next number. `ManifestIsAChain` needs `ManifestInFlight`: the number of lines of each listed
segment agrees with its range, and a rotation between its walk and its manifest still has the
lines it walked, in the active segment or under their new name, and the manifest's resume point
has not moved.

*A valid verdict hides nothing* (`Chain_proofs`). What is invariant under every I/O error and
every death is not that the files are sound, for they may not be, but `HeadsInv`: *if* the active
segment is sound from where the manifest stops, its last hash extends every head ever vouched for.
Damage stays: an emit that appends behind a broken line leaves a file that is still not sound, and
one that appends to a sound file but from another memory makes it unsound (`HoldsWrite`). It needs
to know of the files that an emit in front of its reply has its record at the end, or glued into a
line that no reader accepts (`WrittenIsLast`), and that nothing is written inside the window
(`EmptyInWindow`). A rotation in its window carries the heads in the root it signed
(`RotatedHoldsHeads`). And a segment more than the manifest lists suspends the claim, which is
sound because `verifyAllSegments` then rejects: `uncoveredSegment` is the guard that makes the
theorem true, and without a manifest, where the code has no such guard, the property says nothing.

*Power loss* (`PowerLoss_proofs`). `PowerInv` makes the same argument for every content that a
failure can leave of the active segment instead of the one it has (`LeftHoldsKept`), and for the
heads that are kept: those that were acknowledged, when an fsync has just made the present content
the only one, and those signed while it was the only one (`NewKept`). A write adds to the possible
contents only such as are one of the old ones with a line, whole or cut, at its end
(`PassedAppends`), and damage stays there too. The rename leaves an empty active segment with
nothing in the air (`RotatedHoldsKept`); the heads of the renamed segment are then in the root
that the manifest gets, and the manifest survives. What the segment's file loses does not matter,
since verify compares it with its entry. It needs neither `ManifestIsAChain` nor
`ListedSegmentsAreSigned`, and no hypothesis on the faults.

*An honest log* (`ChainHonest_proofs`). `HonestInv` says that under `Harmless` the sealed
segments, the active one and memory are one chain: the active segment is sound from the head of
the manifest (`ActiveLinks`), the last sealed segment ends in that head or, in the window, in the
root the rotation signed (`SealedLinks`), and memory is the head of the files except between an
emit's write and its reply (`MemoryIsHead`). The lengths of hashes count records, which gives
`offset` and `seq`. All heads are then prefixes of one head, which is `NoEquivocation`, and the
verifier's walk succeeds segment by segment.

*The refinement* (`ChainHonest_proofs`). Under the mapping of `ChainRefinesLog` the ledger is the
head of the files. `EmitWrite` appends one event to it and is the abstract append; a reply and a
signature vouch for a head that the ledger extends; each of Rotate's renames and writes, a crash
and a restart leave the ledger as it is and are stutters. `RotateRefines` is the step with
content: rename and manifest move the head from the active segment to the sealed part, and
`HonestInv` on both sides says that it is the same head.

*Readers* (`LogReaders_proofs`). Readers change nothing of the daemon's, so `ReadersSpec` implies
`Spec` and the invariants above hold next to them. `WalkInv` ties a call to what met it: as long
as `overlap` has no rotation and no death, nobody is past `prepare` in a rotation, the manifest
that was read is the present one and the open file is the active segment; as long as it has no
emit, memory is at the head of the call (`SinceCall`), and otherwise it has only moved on
(`UndisturbedStep`). Then the scan cannot fail, and the last read sees the active segment, whose
head is the one in memory or one record further, or the front of a line, which fails at exactly
the sequence number in memory (`FrontOfLine`). The run has one handler and no fault; the theorem
has any number of handlers and readers and the harmless faults.

*Pages of a query* (`LogReaders_proofs`). `ReadersTypeOK` needs one thing with it, that a page
with no room left is not empty (`ReadersInv`), for `next_token` is then the number of its last
record plus one. The rest is about what the files hold. Records and segments are numbered by their
places (`HistoryInv`), and the files, one after the other, are the history: with `Base(n)` for the
head that file n starts from, each file is sound from its base and ends at the next one
(`Layout`). So what a reader reads of a file holds every record from one number up to another, in
order (`Spans`), even if a rename has moved it since or the last line is still being written. What
a filter picks from such lines, and where it stops for want of room, is stated once, for any lines
(`FoundIs`, `PageTaken`). A page is then told by how far it has come: `GoneBy` is the set of
numbers that a query will not look at again, below its token or below the base of the file it
opened. `PageOK` says that what it has lies there, in order, so that what it picks next comes
after; a rotation may add files behind the list the query took, but never in it. For `LogInv`,
that what was returned is of the log, a record on its way has to become the next one (`OnTheWay`).
`QuietQueryIsComplete` is the converse: `CoverOK` says that every match of the head at the call
that the query has gone by is among what it has. It holds while no rotation met the call, since
only then is the list of files the manifest's and the file opened last the active one; the
violation `query_during_rotate` shows the other case.

*Processes* (`Processes_proofs`). `Ordered` (one process at a time, or `OneRotator`) means that
no two rotations overlap. Then the number a rotation takes is the one after the manifest's last
and its copy of the manifest is current (`Numbered`), so no rename lands on a file that has a
name, and every file ever made keeps one (`Reachable`). Every head vouched for is a hash in some
file or an end in the manifest (`VouchedAreHeld`). A process with a stale memory can still append
what does not link; `FilesLink` is the answer: from whatever head a file is sound, its last hash
extends that head and each of its lines. Together with the same fact about the manifest
(`ManifestLinks`), a verify that passes has a root that extends every hash in every file, so it
extends every head: `ValidHoldsAll`, from which `DamageIsSeen` follows. For `AloneIsHonest`,
`AloneInv` carries that the memory of the one process is the head of the files (`Remembers`), and
that what a rotation counted, walked and read is still so when it renames and lists (`Foresees`);
the cut between those steps is what the theorem is about.

*The verifier's loops* (`VerifyLoop_proofs`). The proofs above are about the closed form of the
verifier: which line or segment is the first that is not sound, and what is reported there. That
the loops of the source compute it is `WalkIsTheLoop` for the lines of a file and
`WalkAllIsVerify` for the segments of a log, both for any files and not only reachable ones. Each
loop is a recursive function from the number of rounds to the verdict carried so far, and what it
carries is stated in closed form (`Carried`, `Walked`) and kept by each round. Two facts about
numbers come first (`SegmentStore_proofs`): an induction over `0..n`, in the form that a set of
numbers which holds 0 and is closed under successor holds them all, derived from the least element
of its complement; and that such a recursion has a solution (`RecursionExists`, by the same
induction), without which a recursive definition says nothing. `AcceptedIsHonest` then needs
`FilesInv`: each line, of whichever file, has as `prev_hash` and `hash` some prefix of the honest
log, since edits put in no other hashes. A sound line's hash is its `prev_hash` and its own body,
so a sound file that starts at a prefix of the honest log ends at one, and its last record has the
number of that place.

*Anchoring* (`Programs_proofs`). `AuditorsAgree` follows from what is under a signature: the
index is, so a receipt accepted at index n, put together from whatever entries, verifies only for
entry n (`AcceptedIsTheEntry`). `ReceiptsVerify` needs `AnchorInv`. A client that has given up
and asks again has two requests on their way; that it takes the right answer is
`CallsAreTold` with `AnswersMatch`: nothing sent earlier has the number of the call in progress.
`ReceiptsName` then stays true because entries never change.

*Encoding* (`Programs_proofs`). `EncodingInv` says of each line from the socket that it and its
hash are two forms of one record, the one that was sent. `SocketRecordsRecompute` then rests on
the lemma that what is decoded from a socket comes back from a line as it was, byte for byte,
which fails for bytes from the command line exactly as finding 6 shows. An attempt at
`RecordsSayWhatWasSent` showed that the CASE of `normalizeJSONNumberValue` had two arms that
overlap, of which TLA+ may take either while the code takes the first; it is an IF now.

*Hooks* (`Programs_proofs`). `ReportedInstallIsComplete` alone is not inductive: that pre-commit
is whole has to be carried through the steps on post-merge, and that a file was written through
its chmod (`InstallerInv`; it also needs that `.git/hooks` exists, for what was there before must
not appear later). `PromisedGuards` needs `BehindIt`: a running commit at guard k has the pass of
every steady guard before k, because a guard that is missing when the hook looks is not steady,
and one that ran with another code than 0 ended the commit with a status that the wrap to a byte
cannot turn into 0 (`RefusalIsSeen`).

*Linter* (`Programs_proofs`). `LintInv` says that the block in hand (`cur`) is the one that
the first i lines of the text leave open, and that what was found is what is offending in the
blocks closed so far. `Offending` is a definition over positions of the text, without a loop, so
that no induction is needed to compare the two.

*The inductive invariants were checked by TLC first*, as invariants of instances like those of the
runs: `HeadsInv` on 636,328 states (`chain_faults` with two events), with `HonestInv` on 706,898
(`chain_safe` with two events); `PowerInv` on 84,424 (`power_loss` with two emits); `WalkInv` on
257,436 (`reading` with two events) and, with crashes and failing writes and renames, on 834,600;
the invariants of the pages on 257,436, with two handlers and failing renames on 1,196,697, and
with failing writes and renames and a crash on 1,889,803; `ProcInv` and `AloneInv` on 59,370 and,
with every process a rotator, on 274,014; `FilesInv` on 465,002 (`VerifyLoop`), `AnchorInv` on
21,297, `EncodingInv` on 1,981 and `LintInv` on 11,124 (texts of up to four lines).

*Only model-checked.*

- Liveness (`EveryCallReturns`, `EmitNeverWaitsForRekor`, `AnchorReturns`): fairness and ENABLED
  are out of the prover's reach.
- The properties of the violation runs, which are false.

Every invariant and action property of a passing run is thus stated by a theorem; what TLC adds
to them is that the mutants violate them and that the interesting states occur.

## 6. What is not modelled

- **Keys, PEM, Ed25519**: library code; a signature is by a key or it is not.
- **What `encoding/json` does beyond numbers and characters**, and the order of keys; the refusal
  of floats inside Emit, which only a Go caller could meet.
- **The regular expressions of the linter** and the **guard scripts** of the hooks, which are not
  in the repository; the command line the hooks hand to them.
- **The shell scripts under `scripts/`**: they move task files and worktrees about by hand.
- **Setting up the socket**: `listenUnix` before the first call.
- **Parsing of requests and flags, error shapes, rendering**: no state; refusals appear as refused
  events or as calls that change nothing.
- **Directory fsync**: names are durable in the model. A power loss that undoes a creation or a
  rename but keeps the manifest after it is not covered.
- **Other losses of unsynced data**: what a power loss leaves of a file is everything up to some
  place in what was written since its last fsync; holes and reordered blocks are not covered. A
  successful fsync is taken to make the whole file durable, also what an earlier, failed one left;
  a kernel that drops dirty pages after a failed fsync without any power loss is not covered. Nor
  are power losses for the readers, for several processes and under the refinement: `LogReaders`,
  `Processes` and `ChainRefinesLog` stand on `Chain`'s files.
- **The `verify` command's own start**: it calls `NewChain` before it walks, which can create an
  empty active segment; the readers of the model begin with the walk.
- **A sidecar that was written completely and then failed to close** counts as not written.

## 7. What could follow

Every property the runs check that the prover can reach is proved. Further work would be on the
model: a directory fsync as a step of its own, with a power loss that undoes renames (section 6),
an fsync of segment and sidecar in Rotate, under which `ManifestIsAChain` and
`ListedSegmentsAreSigned` should extend to power losses, and handlers that rotate in two
processes, where the code has no guard and the properties fail (section 4).
