----------------------------- MODULE MermaidLint -----------------------------
(***************************************************************************)
(* scripts/check-mermaid.py: find the closed ```mermaid blocks of Markdown *)
(* files, and report the lines in them that GitHub would not render.       *)
(*                                                                         *)
(* A line is what the linter tells apart: its form, and the offenders on   *)
(* it with those that stand inside double quotes.  The regular expressions *)
(* that find an offender on a line are left out; which line they are       *)
(* given, whether quotes are stripped first, and what is done with their   *)
(* answer is not.                                                          *)
(***************************************************************************)
EXTENDS Integers, Sequences

CONSTANTS
  Lines,      \* the lines that files are made of
  Docs,       \* the Markdown files under docs/ as sorted, a sequence
  Arguments,  \* the argument lists, sequences of paths
  MaxLines    \* bound: lines of a file

\* An inline %%, an HTML entity, a `;` with text after it, a reserved participant id,
\* a parenthesis in an edge label, a square bracket in a message or note.
Offenders == {"inline", "entity", "semicolon", "reserved", "parenthesis", "bracket"}

\* ```mermaid; a fence without a language; a blank line or a comment of its own; the
\* sequenceDiagram line; any other.
Forms == {"mermaid", "fence", "comment", "sequence", "text"}

ASSUME LintAssumption ==
  /\ Lines \subseteq [form : Forms, on : SUBSET Offenders, quoted : SUBSET Offenders]
  /\ MaxLines \in Nat

VARIABLES
  queue,    \* the paths still to read
  text,     \* the lines of the file in hand
  i,        \* how many of them find_blocks has passed
  cur,      \* the block of find_blocks: open or not, its first body line, its body
  found,    \* the issues printed for the file in hand
  total,    \* whether total_issues is above 0
  owed,     \* whether a file that was read holds an offending line (history)
  status    \* "idle", "files" or "lines" (the loop that runs), or the exit status

lintVars == <<queue, text, i, cur, found, total, owed, status>>

NoBlock == [open |-> FALSE, start |-> 0, body |-> << >>]

LintInit ==
  /\ queue = << >> /\ text = << >> /\ i = 0 /\ cur = NoBlock /\ found = {}
  /\ total = FALSE /\ owed = FALSE /\ status = "idle"

-----------------------------------------------------------------------------
(* lint_block *)

\* Offenders are harmless inside quotes, but for the ones that are looked for on the
\* line as it is.
Reported(line, sequence) ==
  LET unq == line.on \ line.quoted IN
    (unq \cap {"inline", "entity"})
    \union (IF "entity" \in unq THEN {} ELSE unq \cap {"semicolon"})
    \union (line.on \cap {"reserved", IF sequence THEN "bracket" ELSE "parenthesis"})

\* Mutant of block_kind: the first line names the kind, be it a comment.
block_kind_first(body) == body # << >> /\ Head(body).form = "sequence"

\* Whether the first line that is neither blank nor a comment says sequenceDiagram.
block_kind(body) ==
  \E n \in 1..Len(body):
    body[n].form = "sequence" /\ \A m \in 1..(n - 1): body[m].form = "comment"

lint_block(start_line, body) ==
  {issue \in [line : start_line..(start_line + Len(body) - 1), what : Offenders] :
    LET line == body[issue.line - start_line + 1] IN
      line.form # "comment" /\ issue.what \in Reported(line, block_kind(body))}

-----------------------------------------------------------------------------
(* What the linter is for, said of a text as a whole *)

Fenced(t, a, b) == \E n \in a..b: t[n].form = "fence"

\* Line s opens a block and line e closes it.
IsBlock(t, s, e) ==
  /\ s < e /\ t[s].form = "mermaid" /\ t[e].form = "fence"
  /\ ~Fenced(t, s + 1, e - 1)
  /\ \A o \in 1..(s - 1): t[o].form = "mermaid" => Fenced(t, o + 1, s - 1)

SequenceBlock(t, s, e) ==
  \E n \in (s + 1)..(e - 1):
    t[n].form = "sequence" /\ \A m \in (s + 1)..(n - 1): t[m].form = "comment"

\* The offending lines in the blocks that close on the first k lines.
Offending(t, k) ==
  {issue \in [line : 1..Len(t), what : Offenders] :
    \E s, e \in 1..k:
      /\ IsBlock(t, s, e) /\ s < issue.line /\ issue.line < e
      /\ t[issue.line].form # "comment"
      /\ issue.what \in Reported(t[issue.line], SequenceBlock(t, s, e))}

-----------------------------------------------------------------------------
(* main *)

\* README.md if it is a file, then docs/.
default_targets(readme) == (IF readme THEN <<"README.md">> ELSE << >>) \o Docs

LintStart ==
  /\ status = "idle"
  /\ status' = "files"
  /\ \E argv \in Arguments \union {<< >>}, readme \in BOOLEAN:
       queue' = IF argv = << >> THEN default_targets(readme) ELSE argv
  /\ UNCHANGED <<text, i, cur, found, total, owed>>

ReadFile ==
  /\ status = "files" /\ queue # << >>
  /\ status' = "lines" /\ queue' = Tail(queue)
  /\ \E n \in 0..MaxLines: text' \in [1..n -> Lines]
  /\ owed' = (owed \/ Offending(text', Len(text')) # {})
  /\ UNCHANGED <<i, cur, found, total>>

\* Missing, a directory, or not ours to read: the next one.
SkipFile ==
  /\ status = "files" /\ queue # << >>
  /\ queue' = Tail(queue)
  /\ UNCHANGED <<text, i, cur, found, total, owed, status>>

\* Text that is not UTF-8 is no OSError: the run ends with a traceback.
Undecodable ==
  /\ status = "files" /\ queue # << >>
  /\ status' = "traceback"
  /\ UNCHANGED <<queue, text, i, cur, found, total, owed>>

NextLine == status = "lines" /\ i < Len(text) /\ i' = i + 1

OpensBlock ==
  /\ NextLine /\ ~cur.open /\ text[i + 1].form = "mermaid"
  /\ cur' = [open |-> TRUE, start |-> i + 2, body |-> << >>]
  /\ UNCHANGED <<queue, text, found, total, owed, status>>

\* Mutant of Count: the count starts anew with each block.
CountAnew(issues) == found' = found \union issues /\ total' = (issues # {})

\* main takes the issues of a block that find_blocks has yielded.
Count(issues) == found' = found \union issues /\ total' = (total \/ issues # {})

ClosesBlock ==
  /\ NextLine /\ cur.open /\ text[i + 1].form = "fence"
  /\ Count(lint_block(cur.start, cur.body))
  /\ cur' = NoBlock
  /\ UNCHANGED <<queue, text, owed, status>>

BodyLine ==
  /\ NextLine /\ cur.open /\ text[i + 1].form # "fence"
  /\ cur' = [cur EXCEPT !.body = Append(@, text[i + 1])]
  /\ UNCHANGED <<queue, text, found, total, owed, status>>

Prose ==
  /\ NextLine /\ ~cur.open /\ text[i + 1].form # "mermaid"
  /\ UNCHANGED <<queue, text, cur, found, total, owed, status>>

\* A block that is still open at the end of a file is ignored.
FileDone ==
  /\ status = "lines" /\ i = Len(text)
  /\ status' = "files"
  /\ text' = << >> /\ i' = 0 /\ cur' = NoBlock /\ found' = {}
  /\ UNCHANGED <<queue, total, owed>>

LintEnd ==
  /\ status = "files" /\ queue = << >>
  /\ status' = IF total THEN "1" ELSE "0"
  /\ UNCHANGED <<queue, text, i, cur, found, total, owed>>

LintNext ==
  \/ LintStart \/ ReadFile \/ SkipFile \/ Undecodable
  \/ OpensBlock \/ ClosesBlock \/ BodyLine \/ Prose
  \/ FileDone \/ LintEnd

LintSpec == LintInit /\ [][LintNext]_lintVars

-----------------------------------------------------------------------------
(* Properties *)

(***************************************************************************)
(* The issues printed for a file are the offending lines of its closed     *)
(* blocks, each under its own line number: none is missed, none is made    *)
(* up in prose, in comments or in a block that never closes, and a block   *)
(* is judged by its own kind (find_blocks and lint_block, 58-138).         *)
(***************************************************************************)
ReportIsExact == found = Offending(text, i)

(***************************************************************************)
(* The exit status can gate a check (docstring, line 13): a run that ends  *)
(* without a traceback ends with 1 exactly when some file it could read    *)
(* holds an offending line, wherever that file stands among the others.    *)
(***************************************************************************)
ExitIsTheVerdict == /\ status = "1" => owed
                    /\ status = "0" => ~owed
=============================================================================
