------------------------------- MODULE MCCalls -------------------------------
(* The calls of Chain and of RekorAnchor for TLC, and whether they return.  The two models *)
(* share no state; each behaviour is one of one of them, while the other stays as it began. *)
EXTENDS Chain, RekorAnchor

CONSTANTS h1, h2, c1, c2, e1, e2

VARIABLE subject

CallsInit == subject \in {"daemon", "anchor"} /\ Init /\ AnchorInit

CallsNext ==
  /\ UNCHANGED subject
  /\ \/ subject = "daemon" /\ Next /\ UNCHANGED anchorVars
     \/ subject = "anchor" /\ AnchorNext /\ UNCHANGED vars

CallsSpec ==
  CallsInit /\ [][CallsNext]_<<subject, vars, anchorVars>> /\ Fairness /\ AnchorFairness

AllFaults == FaultNames

\* Two texts of the operator's key, and the key of somebody else.
Keys == [pem \in {"operator.pem", "reformatted.pem", "foreign.pem"} |->
           IF pem = "foreign.pem" THEN "foreign" ELSE "operator"]
Pems == DOMAIN Keys
===============================================================================
