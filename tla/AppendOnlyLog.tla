---------------------------- MODULE AppendOnlyLog ----------------------------
(***************************************************************************)
(* What audit-trail promises its callers: one ledger that only grows, with *)
(* gapless sequence numbers, and heads that are handed out only while they *)
(* are the head of that ledger.  Files, segments, locks, errors and        *)
(* restarts do not show.                                                   *)
(***************************************************************************)
EXTENDS Integers, Sequences

CONSTANT Event

VARIABLES
  ledger,  \* every record ever written, as [seq, event]
  heads    \* the histories vouched for, in a reply or in a signed checkpoint

Init == ledger = << >> /\ heads = {}

Write(e) ==
  /\ ledger' = Append(ledger, [seq |-> Len(ledger), event |-> e])
  /\ UNCHANGED heads

Vouch ==
  /\ heads' = heads \cup {ledger}
  /\ UNCHANGED ledger

Next == (\E e \in Event : Write(e)) \/ Vouch

Spec == Init /\ [][Next]_<<ledger, heads>>
==============================================================================
