------------------------------- MODULE GitHooks -------------------------------
(***************************************************************************)
(* scripts/setup-hooks.py: the installer, which writes two Git hooks, and  *)
(* the two hooks it writes, which hand each commit and each merge to the   *)
(* guard scripts under .claude/scripts.  The installer may die or fail at  *)
(* any step and be run again; commits, merges and changes of the checkout  *)
(* fall between its steps and between those of a hook.                     *)
(*                                                                         *)
(* The guard scripts are not in the repository: each is there or not, and  *)
(* exits with any code.  Git is external too: it ignores a hook that is    *)
(* not executable, and gives up a commit whose pre-commit hook exits with  *)
(* another status than 0.  With --no-verify it never looks for the hook,   *)
(* and nothing of this module runs.                                        *)
(***************************************************************************)
EXTENDS Integers, Sequences

CONSTANTS
  Codes,          \* the return codes of a guard script, negative ones for signals
  MaxInstalls,    \* bound: runs of the installer
  MaxOperations   \* bound: commits and merges

ASSUME CodesAssumption == Codes \subseteq (-255)..255

HookFiles == {"pre-commit", "post-merge"}
Kinds == {"commit", "merge"}

\* The scripts a hook hands its operation to, in order.
CommitGuards == <<"block-no-verify.py", "no-commit-on-main.py", "spec-coverage-check.py">>
MergeGuards == <<"auto-cleanup-merge.py">>

Guards(kind) == IF kind = "commit" THEN CommitGuards ELSE MergeGuards

GuardSet(kind) == {Guards(kind)[k] : k \in 1..Len(Guards(kind))}

HookOf(kind) == IF kind = "commit" THEN "pre-commit" ELSE "post-merge"

Scripts == GuardSet("commit") \union GuardSet("merge")

\* What a hook file holds: nothing yet, the hook of somebody else, an open file that is
\* not written yet, a part of the text, or the whole text.
Contents == {"absent", "foreign", "empty", "cut", "installed"}

\* python cannot open its script; an exception that nobody catches.
NoSuchFile == 2
Raised == 1

\* Mutant of Status: the code as it is.
StatusAsIs(code) == code

\* What the parent sees of sys.exit(code).
Status(code) == code % 256

VARIABLES
  hooksDir,    \* .git/hooks is a directory
  hook,        \* the two hook files
  installer,   \* the running or last run of the installer
  installs,    \* runs so far
  scripts,     \* the guard scripts in the main checkout
  git,         \* the running or last commit or merge
  operations   \* commits and merges so far

hooksVars == <<hooksDir, hook, installer, installs, scripts, git, operations>>

NoOperation ==
  [kind |-> "commit", at |-> "over", k |-> 1, loaded |-> "absent", ran |-> << >>,
   exit |-> 0, steady |-> {}, promised |-> FALSE]

HooksInit ==
  /\ hooksDir = FALSE
  /\ hook = [f \in HookFiles |-> [content |-> "absent", exec |-> FALSE]]
  /\ installer = [at |-> "never", file |-> "pre-commit"]
  /\ installs = 0
  /\ scripts = {}
  /\ git = NoOperation
  /\ operations = 0

-----------------------------------------------------------------------------
(* What surrounds the scripts *)

\* Until then .git/hooks is missing, as it is in a linked worktree.  The hooks of
\* somebody else may be there.
Repository ==
  /\ ~hooksDir
  /\ hooksDir' = TRUE
  /\ hook' \in [HookFiles -> {[content |-> "absent", exec |-> FALSE],
                          [content |-> "foreign", exec |-> TRUE]}]
  /\ UNCHANGED <<installer, installs, scripts, git, operations>>

\* A checkout adds or removes a script while a hook runs.  The ones that stay for a
\* whole operation are steady.  What checkouts did before it, GitStart chooses.
Checkout ==
  \E s \in GuardSet(git.kind):
    /\ git.at # "over"
    /\ scripts' = IF s \in scripts THEN scripts \ {s} ELSE scripts \union {s}
    /\ git' = [git EXCEPT !.steady = @ \ {s}]
    /\ UNCHANGED <<hooksDir, hook, installer, installs, operations>>

-----------------------------------------------------------------------------
(* The installer: for each file open (which truncates), write, chmod *)

Installing == installer.at \in {"open", "write", "chmod"}

InstallStart ==
  /\ ~Installing /\ installs < MaxInstalls
  /\ installs' = installs + 1
  /\ installer' = [at |-> IF hooksDir THEN "open" ELSE "failed", file |-> "pre-commit"]
  /\ UNCHANGED <<hooksDir, hook, scripts, git, operations>>

\* Mutant of InstallOpen: a hook that is there already is not written again.
InstallOpenAbsentOnly ==
  /\ installer.at = "open"
  /\ LET absent == hook[installer.file].content = "absent" IN
       /\ hook' = IF absent THEN [hook EXCEPT ![installer.file].content = "empty"] ELSE hook
       /\ installer' = [installer EXCEPT !.at = IF absent THEN "write" ELSE "chmod"]
  /\ UNCHANGED <<hooksDir, installs, scripts, git, operations>>

InstallOpen ==
  /\ installer.at = "open"
  /\ hook' = [hook EXCEPT ![installer.file].content = "empty"]
  /\ installer' = [installer EXCEPT !.at = "write"]
  /\ UNCHANGED <<hooksDir, installs, scripts, git, operations>>

InstallWrite ==
  /\ installer.at = "write"
  /\ hook' = [hook EXCEPT ![installer.file].content = "installed"]
  /\ installer' = [installer EXCEPT !.at = "chmod"]
  /\ UNCHANGED <<hooksDir, installs, scripts, git, operations>>

InstallChmod ==
  /\ installer.at = "chmod"
  /\ hook' = [hook EXCEPT ![installer.file].exec = TRUE]
  /\ installer' = IF installer.file = "pre-commit"
                    THEN [at |-> "open", file |-> "post-merge"]
                    ELSE [installer EXCEPT !.at = "done"]
  /\ UNCHANGED <<hooksDir, installs, scripts, git, operations>>

\* An exception or a death at any step; a write may leave a part of the text.
InstallFails ==
  /\ Installing
  /\ installer' = [installer EXCEPT !.at = "failed"]
  /\ \/ UNCHANGED hook
     \/ /\ installer.at = "write"
        /\ hook' = [hook EXCEPT ![installer.file].content = "cut"]
  /\ UNCHANGED <<hooksDir, installs, scripts, git, operations>>

-----------------------------------------------------------------------------
(* A commit or a merge: Git looks for the hook, then loads and runs it *)

GitStart ==
  \E kind \in Kinds:
    /\ git.at = "over" /\ operations < MaxOperations
    /\ scripts' \in SUBSET GuardSet(kind)
    /\ operations' = operations + 1
    /\ git' = [NoOperation EXCEPT
                 !.kind = kind,
                 !.at = IF hook[HookOf(kind)].exec THEN "load" ELSE "over",
                 !.steady = scripts',
                 !.promised = installer.at = "done"]
    /\ UNCHANGED <<hooksDir, hook, installer, installs>>

\* An empty file is a program that succeeds; what another text does is anybody's guess.
\* Ours first looks up the command that started it, which cannot fail: get_git_command
\* catches everything and falls back.
GitLoad ==
  LET content == hook[HookOf(git.kind)].content IN
    /\ git.at = "load"
    /\ \E exit \in IF content = "empty" THEN {0} ELSE {0, 1}:
         git' = [git EXCEPT
                   !.at = IF content = "installed" THEN "look" ELSE "over",
                   !.loaded = content,
                   !.exit = IF content = "installed" THEN 0 ELSE exit,
                   !.promised = @ /\ installer.at = "done"]
    /\ UNCHANGED <<hooksDir, hook, installer, installs, scripts, operations>>

\* hook_path.exists(): a missing script is passed over.
HookLook ==
  /\ git.at = "look"
  /\ IF git.k > Len(Guards(git.kind))
       THEN git' = [git EXCEPT !.at = "over"]
       ELSE IF Guards(git.kind)[git.k] \in scripts
         THEN git' = [git EXCEPT !.at = "run"]
         ELSE git' = [git EXCEPT !.k = @ + 1]
  /\ UNCHANGED <<hooksDir, hook, installer, installs, scripts, operations>>

\* What subprocess.run returns for a script that was there when the hook looked.
CodesOf(script) == IF script \in scripts THEN Codes ELSE {NoSuchFile}

Ran(g, script, code) == Append(g.ran, [script |-> script, code |-> code])

\* Mutant of CommitVerdict: only codes above 0 are refusals.
CommitVerdictPositive(g, script, code) ==
  [g EXCEPT !.ran = Ran(g, script, code), !.k = @ + 1,
            !.at = IF code > 0 THEN "over" ELSE "look",
            !.exit = IF code > 0 THEN Status(code) ELSE 0]

\* pre-commit gives up at the first code other than 0.
CommitVerdict(g, script, code) ==
  [g EXCEPT !.ran = Ran(g, script, code), !.k = @ + 1,
            !.at = IF code # 0 THEN "over" ELSE "look",
            !.exit = Status(code)]

\* post-merge is best effort.
MergeVerdict(g, script, code) ==
  [g EXCEPT !.ran = Ran(g, script, code), !.k = @ + 1, !.at = "look", !.exit = 0]

HookRun ==
  /\ git.at = "run"
  /\ LET script == Guards(git.kind)[git.k] IN
       \E code \in CodesOf(script):
         git' = IF git.kind = "commit" THEN CommitVerdict(git, script, code)
                                       ELSE MergeVerdict(git, script, code)
  /\ UNCHANGED <<hooksDir, hook, installer, installs, scripts, operations>>

\* The script cannot be started, or its output cannot be decoded.
HookRaises ==
  /\ git.at \in {"look", "run"} /\ git.k <= Len(Guards(git.kind))
  /\ git' = [git EXCEPT !.at = "over", !.exit = Raised]
  /\ UNCHANGED <<hooksDir, hook, installer, installs, scripts, operations>>

-----------------------------------------------------------------------------

Install == InstallStart \/ InstallOpen \/ InstallWrite \/ InstallChmod \/ InstallFails
GitOperation == GitStart \/ GitLoad \/ HookLook \/ HookRun \/ HookRaises

HooksNext == Repository \/ Checkout \/ Install \/ GitOperation

HooksSpec == HooksInit /\ [][HooksNext]_hooksVars

-----------------------------------------------------------------------------
(* Properties *)

HooksTypeOK ==
  /\ hooksDir \in BOOLEAN
  /\ hook \in [HookFiles -> [content : Contents, exec : BOOLEAN]]
  /\ installer \in [at : {"never", "open", "write", "chmod", "done", "failed"},
                    file : HookFiles]
  /\ installs \in Nat
  /\ scripts \subseteq Scripts
  /\ git \in [kind : Kinds, at : {"load", "look", "run", "over"}, k : 1..4,
              loaded : Contents, ran : Seq([script : Scripts, code : Int]),
              exit : 0..255, steady : SUBSET Scripts, promised : BOOLEAN]
  /\ operations \in Nat

(***************************************************************************)
(* When the last run of the installer ended with "Git hooks successfully   *)
(* installed!", both hooks are whole and executable, whatever the runs     *)
(* before it left behind and whatever was there at first (main, 168-187).  *)
(***************************************************************************)
ReportedInstallIsComplete ==
  installer.at = "done" =>
    \A f \in HookFiles: hook[f] = [content |-> "installed", exec |-> TRUE]

\* Script s ran in operation g and exited with 0.
Passed(g, s) == \E n \in 1..Len(g.ran): g.ran[n] = [script |-> s, code |-> 0]

(***************************************************************************)
(* A commit is made only past every guard.  If the installer had reported  *)
(* success when Git looked for the hook and when it loaded it, a commit    *)
(* that was made has the pass of every guard script that stayed in place   *)
(* while the commit ran; scripts that came or went are nobody's promise.   *)
(***************************************************************************)
PromisedGuards ==
  git.at = "over" /\ git.kind = "commit" /\ git.promised /\ git.exit = 0 =>
    \A s \in GuardSet("commit"): s \in git.steady => Passed(git, s)
=============================================================================
