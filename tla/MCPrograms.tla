------------------------------ MODULE MCPrograms ------------------------------
(* An instance of the models that share no state for TLC.  They stand side by side: *)
(* each behaviour is one of one of them, while the others stay as they began.       *)
EXTENDS Processes, RecordEncoding, GitHooks, MermaidLint

CONSTANTS p1, p2, e1, e2

VARIABLE subject

Of(name, next, others) == subject = name /\ next /\ UNCHANGED <<subject, others>>

Init ==
  /\ subject \in {"processes", "encoding", "hooks", "lint"}
  /\ ProcessesInit /\ EncodingInit /\ HooksInit /\ LintInit

Next ==
  \/ Of("processes", ProcessesNext, <<encodingVars, hooksVars, lintVars>>)
  \/ Of("encoding", EncodingNext, <<processVars, hooksVars, lintVars>>)
  \/ Of("hooks", HooksNext, <<processVars, encodingVars, lintVars>>)
  \/ Of("lint", LintNext, <<processVars, encodingVars, hooksVars>>)

Spec == Init /\ [][Next]_<<subject, processVars, encodingVars, hooksVars, lintVars>>

-----------------------------------------------------------------------------
(* Values of constants *)

\* Success, and death by SIGKILL; NoSuchFile is a refusal above zero.
ReturnCodes == {0, -9}

OneDocument == <<"docs/overview.md">>
OneArgument == {<<"README.md">>}

Plain(form) == [form |-> form, on |-> {}, quoted |-> {}]
FiveLines ==
  {Plain("mermaid"), Plain("fence"), Plain("sequence"),
   [form |-> "comment", on |-> {"semicolon"}, quoted |-> {}],
   [form |-> "text", on |-> {"bracket", "parenthesis", "semicolon", "inline"},
    quoted |-> {"semicolon"}]}
===============================================================================
