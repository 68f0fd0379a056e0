------------------------------ MODULE Behavior ------------------------------
(***************************************************************************)
(* The behavioral stage: run_behavior of behavior/compare.py.              *)
(*                                                                         *)
(* The stage checks the merge base and the head out into two git worktrees *)
(* below one temporary directory, calls every configured target in both    *)
(* with the same input, calls the head again where they differ, and        *)
(* removes the trees in a finally clause.  SIGTERM runs the registered     *)
(* clean-up of cleanup.py and raises SystemExit where the stage is; Ctrl-C *)
(* raises KeyboardInterrupt there.  A clean-up that is interrupted by      *)
(* another SIGTERM starts over (BoundedChild), so it is one step here.     *)
(*                                                                         *)
(* A worktree has a directory and an entry in the repository's list of     *)
(* worktrees; git commands may fail, or never end: run_git has no timeout, *)
(* and neither has the wait for the output of a worker that was killed.    *)
(* Only a signal ends a wait that is held.  rmtree is assumed to succeed.  *)
(***************************************************************************)
EXTENDS Deadline, FiniteSets, Sequences

CONSTANTS
  NumInputs,   \* inputs of all targets, in order
  Linked,      \* inputs whose target names an extracted requirement
  Ok,          \* worker results with "ok": true
  Failed,      \* "ok": false: exceptions, the timeout, unreadable output
  Odd,         \* answers without "ok", such as the empty object
  Budget,      \* optional_timeout_seconds
  StageLimit,  \* behavior.timeout_seconds
  AddTime,     \* longest time git takes to add a worktree, if it ends
  KillTime,    \* time run_bounded takes to end a child that timed out, if it does
  MaxSigterm,  \* bound on the SIGTERMs that arrive
  MaxInterrupt \* bound on the Ctrl-Cs that arrive

Results == Ok \cup Failed \cup Odd
Timeout == "timeout"

ASSUME BehaviorAssumption ==
  /\ NumInputs \in Nat /\ Linked \subseteq 1 .. NumInputs
  /\ Timeout \in Failed /\ Ok \cap Failed = {} /\ Odd \cap (Ok \cup Failed) = {}
  /\ Budget \in Nat /\ StageLimit \in Nat \ {0}
  /\ AddTime \in Nat /\ KillTime \in Nat
  /\ MaxSigterm \in Nat /\ MaxInterrupt \in Nat

Trees == {"base", "head"}

VARIABLES
  pc,         \* where run_behavior is
  tree,       \* the worktree the step at pc is about
  now,        \* time since the shared deadline was started
  limit,      \* the timeout of every worker, fixed before the loop
  enabled,    \* config.behavior.enabled
  targets,    \* what validate_targets makes of the manifest
  status,     \* stage.status
  runs,       \* results of the workers for the current input
  items,      \* result.items
  leaving,    \* SystemExit or KeyboardInterrupt is propagating
  work,       \* the temporary directory exists
  dirs,       \* worktrees whose directory exists
  entries,    \* worktrees git lists
  tempKnown,  \* the temporary directory is in _TEMP_DIRS
  treesKnown, \* worktrees in _WORKTREES
  sigterms,   \* SIGTERMs received
  interrupts, \* Ctrl-Cs received
  exposed,    \* what a signal hit while it was not registered
  gitFailed,  \* git failed to remove and to prune a worktree
  held        \* a git, or a killed worker's output, is waited for without end

config == <<enabled, targets>>
outcome == <<status, runs, items>>
trees == <<work, dirs, entries>>
known == <<tempKnown, treesKnown>>
faults == <<sigterms, interrupts, exposed, gitFailed, held>>
vars == <<pc, tree, now, limit, config, outcome, leaving, trees, known, faults>>

Init ==
  /\ pc = "entry" /\ tree = "base"
  /\ now \in 0 .. Budget /\ limit = 0
  /\ enabled \in BOOLEAN /\ targets \in {"invalid", "none", "some"}
  /\ status = "not_requested" /\ runs = <<>> /\ items = <<>>
  /\ leaving = FALSE
  /\ work = FALSE /\ dirs = {} /\ entries = {}
  /\ tempKnown = FALSE /\ treesKnown = {}
  /\ sigterms = 0 /\ interrupts = 0 /\ exposed = {} /\ gitFailed = FALSE
  /\ held = FALSE
-----------------------------------------------------------------------------
(* Guards and set-up.                                                      *)

EarlyReturn ==
  /\ pc = "entry"
  /\ \/ ~enabled /\ status' = "not_requested"
     \/ enabled /\ Expired(Budget, now) /\ status' = "skipped"
     \/ enabled /\ ~Expired(Budget, now) /\ targets = "invalid" /\ status' = "error"
     \/ enabled /\ ~Expired(Budget, now) /\ targets = "none" /\ status' = "skipped"
  /\ pc' = "returned"
  /\ UNCHANGED <<tree, now, limit, config, runs, items, leaving, trees, known, faults>>

MakeTemp ==
  /\ pc = "entry" /\ enabled /\ ~Expired(Budget, now) /\ targets = "some"
  /\ pc' = "made" /\ work' = TRUE
  /\ UNCHANGED <<tree, now, limit, config, outcome, leaving, dirs, entries, known, faults>>

RegisterTemp ==
  /\ pc = "made"
  /\ pc' = "add" /\ tempKnown' = TRUE
  /\ UNCHANGED <<tree, now, limit, config, outcome, leaving, trees, treesKnown, faults>>

\* git worktree add; a failure leaves nothing behind.
AddWorktree(d) ==
  /\ pc = "add"
  /\ now' = now + d
  /\ pc' = "register"
  /\ dirs' = dirs \cup {tree} /\ entries' = entries \cup {tree}
  /\ UNCHANGED <<tree, limit, config, outcome, leaving, work, known, faults>>

\* The finally clause begins with the merge base's tree.
Finally == pc' = "unregister" /\ tree' = "base"

\* Mutant: an exception in the loop leaves the stage complete.
ErrorIsComplete ==
  /\ status' = "complete"
  /\ Finally
  /\ UNCHANGED <<limit, config, runs, items, leaving, trees, known, faults>>

\* except Exception.
StageError ==
  /\ status' = "error"
  /\ Finally
  /\ UNCHANGED <<limit, config, runs, items, leaving, trees, known, faults>>

AddFails(d) ==
  /\ pc = "add"
  /\ now' = now + d
  /\ StageError

\* Mutant: the stage's timeout, whatever is left of the budget.
RegisterWithoutBudget ==
  /\ pc = "register"
  /\ treesKnown' = treesKnown \cup {tree}
  /\ IF tree = "base"
     THEN pc' = "add" /\ tree' = "head" /\ UNCHANGED limit
     ELSE pc' = "loop" /\ limit' = StageLimit /\ UNCHANGED tree
  /\ UNCHANGED <<now, config, outcome, leaving, trees, tempKnown, faults>>

\* The head's tree is next, or the loop, with one timeout for all its workers.
RegisterWorktree ==
  /\ pc = "register"
  /\ treesKnown' = treesKnown \cup {tree}
  /\ IF tree = "base"
     THEN pc' = "add" /\ tree' = "head" /\ UNCHANGED limit
     ELSE pc' = "loop" /\ limit' = Clamp(Budget, now, StageLimit) /\ UNCHANGED tree
  /\ UNCHANGED <<now, config, outcome, leaving, trees, tempKnown, faults>>
-----------------------------------------------------------------------------
(* The loop over the inputs.                                               *)

Input == Len(items) + 1

\* Mutant: the replay is not looked at.
TrustFirstRun(input, base, head, replay) ==
  IF base = head THEN "unchanged"
  ELSE IF input \notin Linked THEN "unknown"
  ELSE IF head \in Failed /\ base \in Ok THEN "potential_regression"
  ELSE "expected"

Classify(input, base, head, replay) ==
  IF base = head THEN "unchanged"
  ELSE IF replay # head THEN "nondeterministic"
  ELSE IF input \notin Linked THEN "unknown"
  ELSE IF head \in Failed /\ base \in Ok THEN "potential_regression"
  ELSE "expected"

Classes ==
  {"unchanged", "nondeterministic", "unknown", "potential_regression", "expected"}

\* The base worker, the head worker, and the replay unless the two agree.
NeedsRun == Len(runs) < 2 \/ (Len(runs) = 2 /\ runs[1] # runs[2])

Worker(d) ==
  /\ pc = "loop" /\ Input <= NumInputs /\ NeedsRun
  /\ limit > 0
  /\ now' = now + d

RunWorker(r, d) ==
  /\ Worker(d)
  /\ d \in IF r = Timeout THEN {limit + KillTime} ELSE 0 .. limit
  /\ runs' = Append(runs, r)
  /\ UNCHANGED <<pc, tree, limit, config, status, items, leaving, trees, known, faults>>

\* The child printed what is not text, or JSON that is not an object.
WorkerRaises(d) == Worker(d) /\ StageError

\* run_bounded refuses a timeout of zero.
NoTimeLeft ==
  /\ pc = "loop" /\ Input <= NumInputs /\ NeedsRun
  /\ limit = 0
  /\ UNCHANGED now
  /\ StageError

Compare ==
  /\ pc = "loop" /\ Len(runs) >= 2 /\ ~NeedsRun
  /\ items' = Append(items,
       [runs |-> runs, class |-> Classify(Input, runs[1], runs[2], runs[Len(runs)])])
  /\ runs' = <<>>
  /\ UNCHANGED <<pc, tree, now, limit, config, status, leaving, trees, known, faults>>

Complete ==
  /\ pc = "loop" /\ Input > NumInputs
  /\ status' = "complete"
  /\ Finally
  /\ UNCHANGED <<now, limit, config, runs, items, leaving, trees, known, faults>>
-----------------------------------------------------------------------------
(* Removing the trees.                                                     *)

\* What git may list after remove_worktree of some trees: a tree without a
\* directory is left alone; for the others git removes the entry, or the
\* directory is deleted and git prunes the list, which may fail.
Removed(which) ==
  IF which \cap dirs = {} THEN {entries}
  ELSE {entries \ gone : gone \in SUBSET ((which \cap dirs) \cup (entries \ dirs))}

RemoveWorktrees(which) ==
  /\ entries' \in Removed(which)
  /\ dirs' = dirs \ which
  /\ gitFailed' = (gitFailed \/ entries' \cap which \cap dirs # {})

\* Both trees are unregistered before the first is removed.
UnregisterWorktree ==
  /\ pc = "unregister"
  /\ treesKnown' = treesKnown \ {tree}
  /\ IF tree = "base" THEN tree' = "head" /\ UNCHANGED pc
                      ELSE pc' = "remove" /\ tree' = "base"
  /\ UNCHANGED <<now, limit, config, outcome, leaving, trees, tempKnown, faults>>

\* Mutant: the tree is removed again until git no longer lists it.
RemoveUntilGone ==
  /\ pc = "remove"
  /\ RemoveWorktrees({tree})
  /\ IF tree \in entries' THEN UNCHANGED <<pc, tree>>
     ELSE IF tree = "base" THEN tree' = "head" /\ UNCHANGED pc
                           ELSE pc' = "rmtree" /\ UNCHANGED tree
  /\ UNCHANGED <<now, limit, config, outcome, leaving, work, known,
                 sigterms, interrupts, exposed, held>>

RemoveWorktree ==
  /\ pc = "remove"
  /\ RemoveWorktrees({tree})
  /\ IF tree = "base" THEN tree' = "head" /\ UNCHANGED pc
                      ELSE pc' = "rmtree" /\ UNCHANGED tree
  /\ UNCHANGED <<now, limit, config, outcome, leaving, work, known,
                 sigterms, interrupts, exposed, held>>

RemoveTemp ==
  /\ pc = "rmtree"
  /\ work' = FALSE /\ dirs' = {}
  /\ pc' = "forget"
  /\ UNCHANGED <<tree, now, limit, config, outcome, leaving, entries, known, faults>>

\* Mutant: the last step of the finally clause is missing.
UnregisterTempForgotten ==
  /\ pc = "forget"
  /\ pc' = IF leaving THEN "exiting" ELSE "returned"
  /\ UNCHANGED <<tree, now, limit, config, outcome, leaving, trees, known, faults>>

UnregisterTemp ==
  /\ pc = "forget"
  /\ tempKnown' = FALSE
  /\ pc' = IF leaving THEN "exiting" ELSE "returned"
  /\ UNCHANGED <<tree, now, limit, config, outcome, leaving, trees, treesKnown, faults>>
-----------------------------------------------------------------------------
(* Waits that never end.                                                   *)

\* The git that adds or removes a worktree, here or in the exit handler, or the
\* second communicate() of run_bounded: a process that left the group of the
\* killed worker keeps its pipes open.
Hold ==
  /\ ~held
  /\ \/ pc = "add"
     \/ pc = "loop" /\ Input <= NumInputs /\ NeedsRun /\ limit > 0
     \/ pc = "remove" /\ tree \in dirs
     \/ pc = "exiting" /\ treesKnown \cap dirs # {}
  /\ held' = TRUE
  /\ UNCHANGED <<pc, tree, now, limit, config, outcome, leaving, trees, known,
                 sigterms, interrupts, exposed, gitFailed>>

-----------------------------------------------------------------------------
(* Signals.  They end a wait that is held, as any other.                   *)

\* The program is in the stage, between making the directory and returning.
Running == pc \notin {"entry", "returned", "exiting", "exited"}

\* Where an exception that ends the program continues.
Unwind ==
  IF pc \in {"add", "register", "loop"}
  THEN Finally /\ leaving' = TRUE
  ELSE pc' = "exiting" /\ UNCHANGED <<tree, leaving>>

Hit(listed) ==
  /\ Running
  /\ held' = FALSE
  /\ exposed' = exposed \cup (listed \ treesKnown)
                        \cup (IF pc = "made" THEN {"temp"} ELSE {})
  /\ Unwind
  /\ UNCHANGED <<now, limit, config, outcome>>

\* The git that adds or removes a tree is killed by subprocess.run as the
\* exception passes: whether the tree is listed is then anyone's guess.
Listed ==
  IF pc = "add" THEN {entries, entries \cup {tree}}
  ELSE IF pc = "remove" THEN {entries, entries \ {tree}}
  ELSE {entries}

\* Mutant: the handler deletes directories but leaves the worktrees to git.
CleanupTempOnly(listed) ==
  /\ entries' = listed
  /\ UNCHANGED gitFailed
  /\ IF tempKnown THEN work' = FALSE /\ dirs' = {} ELSE UNCHANGED <<work, dirs>>
  /\ tempKnown' = FALSE /\ treesKnown' = {}

\* cleanup_registered: registered worktrees, then temporary directories.
CleanupRegistered(listed) ==
  /\ \E after \in Removed(treesKnown) :
       /\ entries' = (after \cap listed) \cup (listed \ entries)
       /\ gitFailed' = (gitFailed \/ after \cap treesKnown \cap dirs # {})
  /\ IF tempKnown THEN work' = FALSE /\ dirs' = {}
                  ELSE dirs' = dirs \ treesKnown /\ UNCHANGED work
  /\ tempKnown' = FALSE /\ treesKnown' = {}

Sigterm ==
  /\ sigterms < MaxSigterm /\ sigterms' = sigterms + 1
  /\ \E listed \in Listed : Hit(listed) /\ CleanupRegistered(listed)
  /\ UNCHANGED interrupts

\* A git of the handler never ends: it has removed the trees before the one at
\* hand, the registries are as they were, and the stage does not go on.
HandlerHolds ==
  /\ Running
  /\ sigterms < MaxSigterm /\ sigterms' = sigterms + 1
  /\ \E before \in {{}, {"base"}} :
       /\ before \subseteq treesKnown /\ (treesKnown \ before) \cap dirs # {}
       /\ RemoveWorktrees(before)
  /\ held' = TRUE
  /\ UNCHANGED <<pc, tree, now, limit, config, outcome, leaving, work, known,
                 interrupts, exposed>>

\* Without the handler the directory of a tree that was being added or removed
\* may or may not be there.
Interrupt ==
  /\ interrupts < MaxInterrupt /\ interrupts' = interrupts + 1
  /\ \E listed \in Listed : Hit(listed) /\ entries' = listed
  /\ dirs' \in IF pc = "add" THEN {dirs, dirs \cup {tree}}
               ELSE IF pc = "remove" THEN {dirs, dirs \ {tree}}
               ELSE {dirs}
  /\ UNCHANGED <<work, known, gitFailed, sigterms>>

\* The exit handler of the interpreter.
AtExit ==
  /\ pc = "exiting"
  /\ CleanupRegistered(entries)
  /\ pc' = "exited"
  /\ UNCHANGED <<tree, now, limit, config, outcome, leaving,
                 sigterms, interrupts, exposed, held>>

Stage ==
  /\ ~held
  /\ \/ EarlyReturn \/ MakeTemp \/ RegisterTemp \/ RegisterWorktree
     \/ \E d \in 0 .. AddTime : AddWorktree(d) \/ AddFails(d)
     \/ \E d \in 0 .. limit + KillTime :
          WorkerRaises(d) \/ \E r \in Results : RunWorker(r, d)
     \/ NoTimeLeft \/ Compare \/ Complete
     \/ UnregisterWorktree \/ RemoveWorktree \/ RemoveTemp \/ UnregisterTemp
     \/ AtExit

Next ==
  \/ Stage \/ Hold \/ Sigterm \/ HandlerHolds \/ Interrupt
  \/ (held \/ pc \in {"returned", "exited"}) /\ UNCHANGED vars

Spec == Init /\ [][Next]_vars

\* run_behavior is straight-line code: it goes on unless a wait is held.  Nothing
\* is assumed of git, the workers or the signals.
FairSpec == Spec /\ WF_vars(Stage)
-----------------------------------------------------------------------------
TypeOK ==
  /\ pc \in {"entry", "made", "add", "register", "loop", "unregister", "remove",
             "rmtree", "forget", "returned", "exiting", "exited"}
  /\ tree \in Trees
  /\ now \in Nat /\ limit \in 0 .. StageLimit
  /\ enabled \in BOOLEAN /\ targets \in {"invalid", "none", "some"}
  /\ status \in {"not_requested", "skipped", "error", "complete"}
  /\ runs \in Seq(Results) /\ Len(runs) <= 3
  /\ items \in Seq([runs : Seq(Results), class : Classes]) /\ Len(items) <= NumInputs
  /\ leaving \in BOOLEAN
  /\ work \in BOOLEAN /\ dirs \subseteq Trees /\ entries \subseteq Trees
  /\ dirs # {} => work
  /\ tempKnown \in BOOLEAN /\ treesKnown \subseteq Trees
  /\ exposed \subseteq Trees \cup {"temp"}
  /\ gitFailed \in BOOLEAN /\ held \in BOOLEAN

\* When the stage returns, complete or in error, nothing of it is left on the
\* disk, in the registries, or in the list of worktrees of the repository under
\* test, unless git can neither remove nor prune a worktree.
CleanOnReturn ==
  pc = "returned" =>
    /\ ~work /\ dirs = {}
    /\ ~tempKnown /\ treesKnown = {}
    /\ gitFailed \/ entries = {}

\* When a signal ended the program, a directory is left only if the signal hit
\* before it was registered, and a worktree stays listed only if a signal hit
\* while it was not registered, while being added or after the finally clause
\* had unregistered it.
LeftoversAreExposed ==
  pc = "exited" =>
    /\ work => "temp" \in exposed
    /\ gitFailed \/ entries \subseteq exposed

\* A potential regression is a linked input that the merge base handled and the
\* head failed twice in the same way; a difference that a second run of the
\* head does not reproduce is claimed to be nothing but nondeterministic.
RegressionsReproduced ==
  \A i \in DOMAIN items :
    LET r == items[i].runs
        class == items[i].class
    IN  /\ class = "potential_regression" =>
             i \in Linked /\ r[1] \in Ok /\ r[2] \in Failed /\ r[3] = r[2]
        /\ class \in {"expected", "unknown"} => r[1] # r[2] /\ r[3] = r[2]
        /\ Len(r) = 3 /\ r[3] # r[2] => class = "nondeterministic"

\* A complete stage compared every input; one that compared every input is
\* complete, so no worker, git command or timeout that ends the loop early goes
\* unnoticed.
CompleteComparesAll ==
  pc = "returned" /\ enabled /\ targets = "some" /\ status # "skipped" =>
    /\ status = "complete" => Len(items) = NumInputs
    /\ NumInputs > 0 /\ Len(items) = NumInputs => status = "complete"

\* The timeout of the workers is what was left when the loop began, and it is
\* never computed again: the stage overruns the budget by the two git commands,
\* or by as many timeouts as there are workers, less one.  AddTime and KillTime
\* bound the waits that end; a held wait is not on this clock (StageEnds).
OverrunBound ==
  \/ now <= Budget + 2 * AddTime
  \/ now <= Budget + (3 * NumInputs - 1) * limit + 3 * NumInputs * KillTime

\* The stage returns or the program ends, whatever fails and whatever is
\* signalled, unless a git that never ends, or a process that left the group of
\* a killed worker and keeps its pipes open, is waited for and no signal comes.
StageEnds == <>(pc \in {"returned", "exited"}) \/ <>[]held
=============================================================================
