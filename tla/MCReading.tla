------------------------------- MODULE MCReading -------------------------------
(* Reading a log for TLC: readers next to a daemon (LogReaders), and the verifier on  *)
(* the files of an honest log that somebody has edited (VerifyLoop).  The two share   *)
(* no state; each behaviour is one of the one or of the other.                        *)
EXTENDS LogReaders, VerifyLoop

CONSTANTS h1, e1, e2, r1

VARIABLE subject

Symmetry == Permutations({e1, e2})

readersVars == <<vars, readers>>

ReadingInit ==
  /\ ReadersInit /\ EditsInit
  /\ subject \in {"readers", "edits"} /\ (subject = "readers" => honest = << >>)

\* When the edits are used up the files stay as they are.
Finished == edits = MaxEdits /\ UNCHANGED editsVars

ReadingNext ==
  /\ UNCHANGED subject
  /\ \/ subject = "readers" /\ ReadersNext /\ UNCHANGED editsVars
     \/ subject = "edits" /\ (EditsNext \/ Finished) /\ UNCHANGED readersVars

ReadingSpec == ReadingInit /\ [][ReadingNext]_<<subject, readersVars, editsVars>>
===============================================================================
