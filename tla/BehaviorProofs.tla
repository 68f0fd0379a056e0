--------------------------- MODULE BehaviorProofs ---------------------------
(***************************************************************************)
(* Proofs about Behavior for all inputs, results, budgets and numbers of   *)
(* signals.  The invariant follows the worktrees through the stage: what   *)
(* is registered is on the disk, what git lists is on the disk until the   *)
(* finally clause removes it, and what a signal leaves behind was hit      *)
(* while no registry knew it.                                              *)
(***************************************************************************)
EXTENDS Behavior, Integers, TLAPS

Starting == {"entry", "made", "add", "register", "loop"}
Ending == {"unregister", "remove", "rmtree", "forget"}

\* What the registries know.
Registries ==
  /\ pc \in {"entry", "made", "remove", "rmtree", "forget", "returned", "exited"} => treesKnown = {}
  /\ pc \in {"add", "register"} => treesKnown \subseteq {"base"} \ {tree}
  /\ pc = "unregister" /\ tree = "head" => treesKnown \subseteq {"head"}
  /\ pc \in {"entry", "returned", "exited"} => ~tempKnown

\* What is on the disk.
Disk ==
  /\ pc \in {"entry", "forget", "returned"} => ~work
  /\ pc \in Starting \ {"entry"} => work
  /\ work => tempKnown \/ "temp" \in exposed \/ pc = "made"
  /\ pc = "register" => tree \in dirs
  /\ pc = "remove" /\ tree = "head" => dirs \subseteq {"head"}

\* What git lists.
Listing ==
  /\ pc \in {"entry", "made"} => entries = {}
  /\ pc \in {"add", "register", "loop"} => gitFailed \/ entries \subseteq dirs
  /\ pc \in {"unregister", "remove"} => gitFailed \/ entries \subseteq exposed \cup dirs
  /\ pc \in {"rmtree", "forget", "returned", "exited"} => gitFailed \/ entries \subseteq exposed
  /\ pc = "exiting" => gitFailed \/ entries \subseteq exposed \cup (treesKnown \cap dirs)

\* Where an exception that ends the program can be.
Signals ==
  /\ leaving => pc \in Ending \cup {"exiting", "exited"}
  /\ ~leaving /\ pc \notin {"exiting", "exited"} => exposed = {}

\* The comparisons made so far.
Comparisons ==
  /\ Len(runs) = 3 => runs[1] # runs[2]
  /\ Len(runs) > 0 => Len(items) < NumInputs
  /\ \A i \in DOMAIN items :
       LET r == items[i].runs IN
       /\ Len(r) \in {2, 3} /\ (Len(r) = 2 <=> r[1] = r[2])
       /\ items[i].class = Classify(i, r[1], r[2], r[Len(r)])

\* What the status says of them.
Statuses ==
  /\ pc \in Starting => status = "not_requested"
  /\ pc \in Starting \ {"loop"} => items = <<>>
  /\ pc \in Ending /\ ~leaving => status \in {"complete", "error"}
  /\ pc = "returned" => ~enabled \/ status # "not_requested"
  /\ status = "complete" => Len(items) = NumInputs
  /\ status = "error" => Len(items) < NumInputs \/ Len(items) = 0

Inv == TypeOK /\ Registries /\ Disk /\ Listing /\ Signals /\ Comparisons /\ Statuses

\* The lengths of the two sequences that grow, as numbers.
LEMMA Lengths ==
  TypeOK => /\ Len(runs) \in Nat /\ Len(runs) <= 3
            /\ Len(items) \in Nat /\ Len(items) <= NumInputs
BY DEF TypeOK

\* An input has at most two runs before a worker and two or three after it.
LEMMA RunCount ==
  ASSUME TypeOK
  PROVE  /\ NeedsRun => Len(runs) \in {0, 1, 2}
         /\ Len(runs) >= 2 => Len(runs) \in {2, 3}
<1>1. PICK n \in Nat : n = Len(runs)
  BY Lengths
<1>2. n <= 3
  BY <1>1, Lengths
<1> QED BY <1>1, <1>2 DEF NeedsRun

\* What was compared stays so while no worker runs.
LEMMA ComparisonsFrame == Comparisons /\ UNCHANGED <<runs, items>> => Comparisons'
BY DEF Comparisons, Classify

-----------------------------------------------------------------------------
\* One lemma for each action, and in it one step for each part of Inv.

LEMMA EarlyReturnStep == ASSUME Inv, EarlyReturn PROVE Inv'
<1>1. TypeOK'
  BY DEF Inv, TypeOK, EarlyReturn, config, outcome, trees, known, faults
<1>2. Registries'
  BY DEF Inv, Registries, EarlyReturn, trees, known
<1>3. Disk'
  BY DEF Inv, Disk, EarlyReturn, Starting, trees
<1>4. Listing'
  BY DEF Inv, Listing, EarlyReturn, trees
<1>5. Signals'
  BY DEF Inv, Signals, EarlyReturn, Ending, faults
<1>6. Statuses'
  BY DEF Inv, Statuses, EarlyReturn, Starting, Ending, config, outcome
<1>7. Comparisons'
  BY ComparisonsFrame DEF Inv, EarlyReturn, outcome
<1> QED BY <1>1, <1>2, <1>3, <1>4, <1>5, <1>6, <1>7 DEF Inv

LEMMA MakeTempStep == ASSUME Inv, MakeTemp PROVE Inv'
<1>1. TypeOK'
  BY DEF Inv, TypeOK, MakeTemp, config, outcome, trees, known, faults
<1>2. Registries'
  BY DEF Inv, Registries, MakeTemp, trees, known
<1>3. Disk'
  BY DEF Inv, Disk, MakeTemp, trees
<1>4. Listing'
  BY DEF Inv, Listing, MakeTemp, trees
<1>5. Signals'
  BY DEF Inv, Signals, MakeTemp, Ending, faults
<1>6. Statuses'
  BY DEF Inv, Statuses, MakeTemp, Starting, Ending, outcome
<1>7. Comparisons'
  BY ComparisonsFrame DEF Inv, MakeTemp, outcome
<1> QED BY <1>1, <1>2, <1>3, <1>4, <1>5, <1>6, <1>7 DEF Inv

LEMMA RegisterTempStep == ASSUME Inv, RegisterTemp PROVE Inv'
<1>1. TypeOK'
  BY DEF Inv, TypeOK, RegisterTemp, config, outcome, trees, faults
<1>2. Registries'
  BY DEF Inv, Registries, RegisterTemp, trees
<1>3. Disk'
  BY DEF Inv, Disk, RegisterTemp, Starting, trees
<1>4. Listing'
  BY DEF Inv, Listing, RegisterTemp, trees
<1>5. Signals'
  BY DEF Inv, Signals, RegisterTemp, Ending, faults
<1>6. Statuses'
  BY DEF Inv, Statuses, RegisterTemp, Starting, Ending, outcome
<1>7. Comparisons'
  BY ComparisonsFrame DEF Inv, RegisterTemp, outcome
<1> QED BY <1>1, <1>2, <1>3, <1>4, <1>5, <1>6, <1>7 DEF Inv

LEMMA AddWorktreeStep == ASSUME Inv, NEW d \in Nat, AddWorktree(d) PROVE Inv'
<1>1. TypeOK'
  BY DEF Inv, TypeOK, Disk, AddWorktree, Starting, config, outcome, trees, known, faults
<1>2. Registries'
  BY DEF Inv, Registries, AddWorktree, trees, known
<1>3. Disk'
  BY DEF Inv, Disk, AddWorktree, Starting, trees, known, faults
<1>4. Listing'
  BY DEF Inv, Listing, AddWorktree, trees, faults
<1>5. Signals'
  BY DEF Inv, Signals, AddWorktree, Ending, faults
<1>6. Statuses'
  BY DEF Inv, Statuses, AddWorktree, Starting, Ending, outcome
<1>7. Comparisons'
  BY ComparisonsFrame DEF Inv, AddWorktree, outcome
<1> QED BY <1>1, <1>2, <1>3, <1>4, <1>5, <1>6, <1>7 DEF Inv

LEMMA AddFailsStep == ASSUME Inv, NEW d \in Nat, AddFails(d) PROVE Inv'
<1>1. TypeOK'
  BY DEF Inv, TypeOK, AddFails, StageError, Finally, Trees, config, outcome, trees,
         known, faults
<1>2. Registries'
  BY DEF Inv, Registries, AddFails, StageError, Finally, trees, known
<1>3. Disk'
  BY DEF Inv, Disk, AddFails, StageError, Finally, Starting, trees, known, faults
<1>4. Listing'
  BY DEF Inv, Listing, AddFails, StageError, Finally, trees, faults
<1>5. Signals'
  BY DEF Inv, Signals, AddFails, StageError, Ending, faults
<1>6. Statuses'
  BY DEF Inv, Statuses, AddFails, StageError, Finally, Starting, outcome
<1>7. Comparisons'
  BY ComparisonsFrame DEF Inv, AddFails, StageError, outcome
<1> QED BY <1>1, <1>2, <1>3, <1>4, <1>5, <1>6, <1>7 DEF Inv

LEMMA RegisterWorktreeStep == ASSUME Inv, RegisterWorktree PROVE Inv'
<1>1. TypeOK'
  BY BehaviorAssumption DEF Inv, TypeOK, Clamp, Remaining, RegisterWorktree, Trees,
         config, outcome, trees, faults
<1>2. Registries'
  BY DEF Inv, Registries, Disk, RegisterWorktree, trees
<1>3. Disk'
  BY DEF Inv, TypeOK, Disk, RegisterWorktree, trees, faults
<1>4. Listing'
  BY DEF Inv, Listing, RegisterWorktree, trees, faults
<1>5. Signals'
  BY DEF Inv, Signals, RegisterWorktree, Ending, faults
<1>6. Statuses'
  BY DEF Inv, Statuses, RegisterWorktree, Starting, Ending, outcome
<1>7. Comparisons'
  BY ComparisonsFrame DEF Inv, RegisterWorktree, outcome
<1> QED BY <1>1, <1>2, <1>3, <1>4, <1>5, <1>6, <1>7 DEF Inv

LEMMA WorkerRaisesStep == ASSUME Inv, NEW d \in Nat, WorkerRaises(d) PROVE Inv'
<1>1. TypeOK'
  BY DEF Inv, TypeOK, WorkerRaises, Worker, StageError, Finally, Trees, config,
         outcome, trees, known, faults
<1>2. Registries'
  BY DEF Inv, Registries, WorkerRaises, Worker, StageError, Finally, trees, known
<1>3. Disk'
  BY DEF Inv, Disk, WorkerRaises, Worker, StageError, Finally, Starting, trees, known,
         faults
<1>4. Listing'
  BY DEF Inv, Listing, WorkerRaises, Worker, StageError, Finally, trees, faults
<1>5. Signals'
  BY DEF Inv, Signals, WorkerRaises, Worker, StageError, Ending, faults
<1>6. Statuses'
  BY BehaviorAssumption DEF Inv, Statuses, Input, WorkerRaises, Worker, StageError,
         Finally, Starting, outcome
<1>7. Comparisons'
  BY ComparisonsFrame DEF Inv, WorkerRaises, Worker, StageError, outcome
<1> QED BY <1>1, <1>2, <1>3, <1>4, <1>5, <1>6, <1>7 DEF Inv

LEMMA RunWorkerStep == ASSUME Inv, NEW d \in Nat, NEW r \in Results, RunWorker(r, d) PROVE Inv'
<1>1. TypeOK'
  <2>1. runs' \in Seq(Results) /\ Len(runs') = Len(runs) + 1 /\ Len(runs) \in {0, 1, 2}
    <3>1. Len(runs) \in {0, 1, 2}
      BY RunCount DEF Inv, RunWorker, Worker
    <3>2. runs' = Append(runs, r) /\ runs \in Seq(Results)
      BY DEF Inv, TypeOK, RunWorker
    <3> QED BY <3>1, <3>2
  <2>2. now' \in Nat
    BY DEF Inv, TypeOK, RunWorker, Worker
  <2>3. Len(runs') <= 3
    <3>1. PICK n \in {0, 1, 2} : Len(runs') = n + 1
      BY <2>1
    <3> QED BY <3>1
  <2> QED
    BY <2>1, <2>2, <2>3 DEF Inv, TypeOK, RunWorker, config, trees, known, faults
<1>2. Registries'
  BY DEF Inv, Registries, RunWorker, Worker, trees, known
<1>3. Disk'
  BY DEF Inv, Disk, RunWorker, Worker, trees, known, faults
<1>4. Listing'
  BY DEF Inv, Listing, RunWorker, Worker, trees, faults
<1>5. Signals'
  BY DEF Inv, Signals, RunWorker, Worker, faults
<1>6. Statuses'
  BY DEF Inv, Statuses, RunWorker, Worker, outcome
<1>7. Comparisons'
  <2>1. Len(runs') = Len(runs) + 1 /\ \A k \in 1 .. Len(runs) : runs'[k] = runs[k]
    BY DEF Inv, TypeOK, RunWorker
  <2>2. Len(runs') = 3 => runs'[1] # runs'[2]
    BY <2>1 DEF Inv, RunWorker, Worker, NeedsRun
  <2>3. Len(items) < NumInputs
    BY Lengths, BehaviorAssumption DEF Inv, RunWorker, Worker, Input
  <2> QED
    BY <2>2, <2>3 DEF Inv, Comparisons, RunWorker, Classify
<1> QED BY <1>1, <1>2, <1>3, <1>4, <1>5, <1>6, <1>7 DEF Inv

LEMMA NoTimeLeftStep == ASSUME Inv, NoTimeLeft PROVE Inv'
<1>1. TypeOK'
  BY DEF Inv, TypeOK, NoTimeLeft, StageError, Finally, Trees, config, outcome, trees,
         known, faults
<1>2. Registries'
  BY DEF Inv, Registries, NoTimeLeft, StageError, Finally, trees, known
<1>3. Disk'
  BY DEF Inv, Disk, NoTimeLeft, StageError, Finally, Starting, trees, known, faults
<1>4. Listing'
  BY DEF Inv, Listing, NoTimeLeft, StageError, Finally, trees, faults
<1>5. Signals'
  BY DEF Inv, Signals, NoTimeLeft, StageError, Ending, faults
<1>6. Statuses'
  BY BehaviorAssumption DEF Inv, Statuses, Input, NoTimeLeft, StageError, Finally,
         Starting, outcome
<1>7. Comparisons'
  BY ComparisonsFrame DEF Inv, NoTimeLeft, StageError, outcome
<1> QED BY <1>1, <1>2, <1>3, <1>4, <1>5, <1>6, <1>7 DEF Inv

LEMMA CompareStep == ASSUME Inv, Compare PROVE Inv'
<1> DEFINE item == [runs |-> runs, class |-> Classify(Input, runs[1], runs[2], runs[Len(runs)])]
<1>a. items' = Append(items, item) /\ runs' = <<>>
  BY DEF Compare
<1>b. Classify(Input, runs[1], runs[2], runs[Len(runs)]) \in Classes
  BY DEF Classify, Classes
<1>c. item \in [runs : Seq(Results), class : Classes]
  BY <1>b DEF Inv, TypeOK
<1>1. TypeOK'
  <2>1. items' \in Seq([runs : Seq(Results), class : Classes]) /\ Len(items') = Len(items) + 1
    <3> HIDE DEF item
    <3> QED BY <1>a, <1>c DEF Inv, TypeOK
  <2>2. runs' \in Seq(Results) /\ Len(runs') = 0
    BY <1>a
  <2>3. Len(items) + 1 <= NumInputs
    BY Lengths, BehaviorAssumption DEF Inv, Comparisons, Compare
  <2> QED
    BY <2>1, <2>2, <2>3 DEF Inv, TypeOK, Compare, config, trees, known, faults
<1>2. Registries'
  BY DEF Inv, Registries, Compare, trees, known
<1>3. Disk'
  BY DEF Inv, Disk, Compare, trees, known, faults
<1>4. Listing'
  BY DEF Inv, Listing, Compare, trees, faults
<1>5. Signals'
  BY DEF Inv, Signals, Compare, faults
<1>6. Statuses'
  BY DEF Inv, Statuses, Compare, Starting, outcome
<1>7. Comparisons'
  <2>1. Len(runs) \in {2, 3} /\ (Len(runs) = 2 <=> runs[1] = runs[2])
    <3>1. Len(runs) \in {2, 3}
      BY RunCount DEF Inv, Compare
    <3> QED BY <3>1 DEF Inv, Comparisons, Compare, NeedsRun
  <2>2. \A i \in DOMAIN items' :
          LET r == items'[i].runs IN
          /\ Len(r) \in {2, 3} /\ (Len(r) = 2 <=> r[1] = r[2])
          /\ items'[i].class = Classify(i, r[1], r[2], r[Len(r)])
    <3> SUFFICES ASSUME NEW i \in DOMAIN items'
                 PROVE  LET r == items'[i].runs IN
                        /\ Len(r) \in {2, 3} /\ (Len(r) = 2 <=> r[1] = r[2])
                        /\ items'[i].class = Classify(i, r[1], r[2], r[Len(r)])
      OBVIOUS
    <3>1. CASE i \in DOMAIN items
      <4>1. items'[i] = items[i]
        BY <1>a, <3>1 DEF Inv, TypeOK
      <4> QED BY <4>1, <3>1 DEF Inv, Comparisons
    <3>2. CASE i \notin DOMAIN items
      <4>1. i = Input /\ items'[i] = item
        BY <1>a, <3>2 DEF Inv, TypeOK, Input
      <4> QED BY <4>1, <2>1
    <3> QED BY <3>1, <3>2
  <2> QED
    BY <1>a, <2>2 DEF Comparisons, Classify
<1> QED BY <1>1, <1>2, <1>3, <1>4, <1>5, <1>6, <1>7 DEF Inv

LEMMA CompleteStep == ASSUME Inv, Complete PROVE Inv'
<1>1. TypeOK'
  BY DEF Inv, TypeOK, Complete, Finally, Trees, config, outcome, trees, known, faults
<1>2. Registries'
  BY DEF Inv, Registries, Complete, Finally, trees, known
<1>3. Disk'
  BY DEF Inv, Disk, Complete, Finally, Starting, trees, known, faults
<1>4. Listing'
  BY DEF Inv, Listing, Complete, Finally, trees, faults
<1>5. Signals'
  BY DEF Inv, Signals, Complete, Ending, faults
<1>6. Statuses'
  BY BehaviorAssumption DEF Inv, TypeOK, Statuses, Complete, Finally, Input, Starting,
         outcome
<1>7. Comparisons'
  BY ComparisonsFrame DEF Inv, Complete, outcome
<1> QED BY <1>1, <1>2, <1>3, <1>4, <1>5, <1>6, <1>7 DEF Inv

LEMMA UnregisterWorktreeStep == ASSUME Inv, UnregisterWorktree PROVE Inv'
<1>1. TypeOK'
  BY DEF Inv, TypeOK, UnregisterWorktree, Trees, config, outcome, trees, faults
<1>2. Registries'
  BY DEF Inv, TypeOK, Registries, UnregisterWorktree, Trees, trees
<1>3. Disk'
  BY DEF Inv, Disk, UnregisterWorktree, Starting, trees, faults
<1>4. Listing'
  BY DEF Inv, Listing, UnregisterWorktree, trees, faults
<1>5. Signals'
  BY DEF Inv, Signals, UnregisterWorktree, Ending, faults
<1>6. Statuses'
  BY DEF Inv, Statuses, UnregisterWorktree, Starting, Ending, outcome
<1>7. Comparisons'
  BY ComparisonsFrame DEF Inv, UnregisterWorktree, outcome
<1> QED BY <1>1, <1>2, <1>3, <1>4, <1>5, <1>6, <1>7 DEF Inv

LEMMA RemoveWorktreeStep == ASSUME Inv, RemoveWorktree PROVE Inv'
<1>1. TypeOK'
  BY DEF Inv, TypeOK, RemoveWorktree, RemoveWorktrees, Removed, Trees, config, outcome,
         trees, known
<1>2. Registries'
  BY DEF Inv, Registries, RemoveWorktree, trees, known
<1>3. Disk'
  BY DEF Inv, TypeOK, Disk, Trees, RemoveWorktree, RemoveWorktrees, Starting, trees, known
<1>4. Listing'
  BY DEF Inv, TypeOK, Disk, Listing, RemoveWorktree, RemoveWorktrees, Removed, Trees, trees
<1>5. Signals'
  BY DEF Inv, Signals, RemoveWorktree, Ending
<1>6. Statuses'
  BY DEF Inv, Statuses, RemoveWorktree, Starting, Ending, outcome
<1>7. Comparisons'
  BY ComparisonsFrame DEF Inv, RemoveWorktree, outcome
<1> QED BY <1>1, <1>2, <1>3, <1>4, <1>5, <1>6, <1>7 DEF Inv

LEMMA RemoveTempStep == ASSUME Inv, RemoveTemp PROVE Inv'
<1>1. TypeOK'
  BY DEF Inv, TypeOK, RemoveTemp, config, outcome, trees, known, faults
<1>2. Registries'
  BY DEF Inv, Registries, RemoveTemp, trees, known
<1>3. Disk'
  BY DEF Inv, Disk, RemoveTemp, Starting, trees
<1>4. Listing'
  BY DEF Inv, Listing, RemoveTemp, trees, faults
<1>5. Signals'
  BY DEF Inv, Signals, RemoveTemp, Ending, faults
<1>6. Statuses'
  BY DEF Inv, Statuses, RemoveTemp, Starting, Ending, outcome
<1>7. Comparisons'
  BY ComparisonsFrame DEF Inv, RemoveTemp, outcome
<1> QED BY <1>1, <1>2, <1>3, <1>4, <1>5, <1>6, <1>7 DEF Inv

LEMMA UnregisterTempStep == ASSUME Inv, UnregisterTemp PROVE Inv'
<1>1. TypeOK'
  BY DEF Inv, TypeOK, UnregisterTemp, config, outcome, trees, faults
<1>2. Registries'
  BY DEF Inv, Registries, UnregisterTemp, trees
<1>3. Disk'
  BY DEF Inv, Disk, UnregisterTemp, Starting, trees
<1>4. Listing'
  BY DEF Inv, Listing, UnregisterTemp, trees, faults
<1>5. Signals'
  BY DEF Inv, Signals, UnregisterTemp, faults
<1>6. Statuses'
  BY DEF Inv, Statuses, UnregisterTemp, Starting, Ending, outcome
<1>7. Comparisons'
  BY ComparisonsFrame DEF Inv, UnregisterTemp, outcome
<1> QED BY <1>1, <1>2, <1>3, <1>4, <1>5, <1>6, <1>7 DEF Inv

LEMMA SigtermStep == ASSUME Inv, Sigterm PROVE Inv'
<1>1. TypeOK'
  <2>1. UNCHANGED <<now, limit, config, outcome>>
    BY DEF Sigterm, Hit
  <2>2. pc' \in {"unregister", "exiting"} /\ tree' \in Trees /\ leaving' \in BOOLEAN
    BY DEF Inv, TypeOK, Trees, Sigterm, Hit, Unwind, Finally
  <2>3. /\ work' \in BOOLEAN /\ dirs' \subseteq Trees /\ entries' \subseteq Trees
        /\ dirs' # {} => work'
    <3>1. PICK listed \in Listed : CleanupRegistered(listed)
      BY DEF Sigterm
    <3>2. listed \subseteq Trees
      BY DEF Inv, TypeOK, Listed
    <3>3. entries' \subseteq listed \cup entries
      BY <3>1 DEF CleanupRegistered
    <3> QED
      BY <3>1, <3>2, <3>3 DEF Inv, TypeOK, CleanupRegistered
  <2>4. /\ tempKnown' \in BOOLEAN /\ treesKnown' \subseteq Trees
        /\ gitFailed' \in BOOLEAN
    BY DEF Inv, Sigterm, CleanupRegistered
  <2>5. exposed' \subseteq Trees \cup {"temp"}
    BY DEF Inv, TypeOK, Sigterm, Hit, Listed
  <2>6. held' \in BOOLEAN
    BY DEF Sigterm, Hit
  <2> QED
    BY <2>1, <2>2, <2>3, <2>4, <2>5, <2>6 DEF Inv, TypeOK, config, outcome
<1>2. Registries'
  BY DEF Inv, Registries, Sigterm, CleanupRegistered, trees
<1>3. Disk'
  BY DEF Inv, Disk, Sigterm, Hit, CleanupRegistered, Unwind, Finally, Starting, trees
<1>4. Listing'
  BY DEF Inv, TypeOK, Registries, Listing, Sigterm, Hit, Listed, CleanupRegistered,
         Unwind, Finally, trees
<1>5. Signals'
  BY DEF Inv, Signals, Sigterm, Hit, Unwind, Finally, Ending
<1>6. Statuses'
  BY DEF Inv, Statuses, Sigterm, Hit, Unwind, Finally, Starting, Ending, outcome
<1>7. Comparisons'
  BY ComparisonsFrame DEF Inv, Sigterm, Hit, outcome
<1> QED BY <1>1, <1>2, <1>3, <1>4, <1>5, <1>6, <1>7 DEF Inv

LEMMA InterruptStep == ASSUME Inv, Interrupt PROVE Inv'
<1>1. TypeOK'
  <2>1. UNCHANGED <<now, limit, config, outcome>>
    BY DEF Interrupt, Hit
  <2>2. pc' \in {"unregister", "exiting"} /\ tree' \in Trees /\ leaving' \in BOOLEAN
    BY DEF Inv, TypeOK, Trees, Interrupt, Hit, Unwind, Finally
  <2>3. /\ work' \in BOOLEAN /\ dirs' \subseteq Trees /\ entries' \subseteq Trees
        /\ dirs' # {} => work'
    BY DEF Inv, TypeOK, Disk, Starting, Interrupt, Listed
  <2>4. /\ tempKnown' \in BOOLEAN /\ treesKnown' \subseteq Trees
        /\ gitFailed' \in BOOLEAN
    BY DEF Inv, TypeOK, Interrupt, known
  <2>5. exposed' \subseteq Trees \cup {"temp"}
    BY DEF Inv, TypeOK, Interrupt, Hit, Listed
  <2>6. held' \in BOOLEAN
    BY DEF Interrupt, Hit
  <2> QED
    BY <2>1, <2>2, <2>3, <2>4, <2>5, <2>6 DEF Inv, TypeOK, config, outcome
<1>2. Registries'
  BY DEF Inv, Registries, Interrupt, Hit, Unwind, Finally, trees, known
<1>3. Disk'
  BY DEF Inv, Disk, Interrupt, Hit, Unwind, Finally, Starting, trees, known
<1>4. Listing'
  BY DEF Inv, TypeOK, Listed, Running, Registries, Listing, Interrupt, Hit, Unwind, Finally, trees, known
<1>5. Signals'
  BY DEF Inv, Signals, Interrupt, Hit, Unwind, Finally, Ending
<1>6. Statuses'
  BY DEF Inv, Statuses, Interrupt, Hit, Unwind, Finally, Starting, Ending, outcome
<1>7. Comparisons'
  BY ComparisonsFrame DEF Inv, Interrupt, Hit, outcome
<1> QED BY <1>1, <1>2, <1>3, <1>4, <1>5, <1>6, <1>7 DEF Inv

LEMMA HoldStep == ASSUME Inv, Hold PROVE Inv'
<1>1. TypeOK'
  BY DEF Inv, TypeOK, Hold, config, outcome, trees, known
<1>2. Registries' /\ Disk' /\ Listing' /\ Signals' /\ Statuses'
  BY DEF Inv, Registries, Disk, Listing, Signals, Statuses, Hold, config, outcome, trees, known
<1>3. Comparisons'
  BY ComparisonsFrame DEF Inv, Hold, outcome
<1> QED BY <1>1, <1>2, <1>3 DEF Inv

LEMMA HandlerHoldsStep == ASSUME Inv, HandlerHolds PROVE Inv'
<1>0. PICK before \in SUBSET Trees :
        before \subseteq treesKnown /\ RemoveWorktrees(before)
  BY DEF Inv, TypeOK, HandlerHolds
<1>1. TypeOK'
  BY <1>0 DEF Inv, TypeOK, HandlerHolds, RemoveWorktrees, Removed, config, outcome, known
<1>2. Registries'
  BY DEF Inv, Registries, HandlerHolds, known
<1>3. Disk'
  BY <1>0 DEF Inv, TypeOK, Registries, Disk, HandlerHolds, Running, RemoveWorktrees,
         Starting, known
<1>4. Listing'
  BY <1>0 DEF Inv, TypeOK, Registries, Listing, HandlerHolds, Running, RemoveWorktrees,
         Removed, known
<1>5. Signals' /\ Statuses'
  BY DEF Inv, Signals, Statuses, HandlerHolds, config, outcome
<1>6. Comparisons'
  BY ComparisonsFrame DEF Inv, HandlerHolds, outcome
<1> QED BY <1>1, <1>2, <1>3, <1>4, <1>5, <1>6 DEF Inv

LEMMA AtExitStep == ASSUME Inv, AtExit PROVE Inv'
<1>1. TypeOK'
  BY DEF Inv, TypeOK, AtExit, CleanupRegistered, config, outcome, trees
<1>2. Registries'
  BY DEF Inv, Registries, AtExit, CleanupRegistered, trees
<1>3. Disk'
  BY DEF Inv, Disk, AtExit, CleanupRegistered, Starting, trees
<1>4. Listing'
  BY DEF Inv, Registries, Listing, AtExit, CleanupRegistered, trees
<1>5. Signals'
  BY DEF Inv, Signals, AtExit
<1>6. Statuses'
  BY DEF Inv, Statuses, AtExit, Starting, Ending, outcome
<1>7. Comparisons'
  BY ComparisonsFrame DEF Inv, AtExit, outcome
<1> QED BY <1>1, <1>2, <1>3, <1>4, <1>5, <1>6, <1>7 DEF Inv
-----------------------------------------------------------------------------
LEMMA InitInv == Init => Inv
<1> SUFFICES ASSUME Init PROVE Inv
  OBVIOUS
<1>1. runs = <<>> /\ items = <<>>
  BY DEF Init
<1>2. TypeOK
  <2>1. runs \in Seq(Results) /\ Len(runs) = 0
    BY <1>1
  <2>2. items \in Seq([runs : Seq(Results), class : Classes]) /\ Len(items) = 0
    BY <1>1
  <2>3. now \in Nat /\ limit \in 0 .. StageLimit
    BY BehaviorAssumption DEF Init
  <2>4. Len(runs) <= 3 /\ Len(items) <= NumInputs
    BY <2>1, <2>2, BehaviorAssumption
  <2>5. treesKnown \subseteq Trees /\ exposed \subseteq Trees \cup {"temp"}
    BY DEF Init
  <2> QED
    BY <2>1, <2>2, <2>3, <2>4, <2>5 DEF Init, TypeOK, Trees
<1>3. Registries /\ Disk /\ Listing /\ Signals
  BY DEF Init, Registries, Disk, Listing, Signals
<1>4. Comparisons
  BY <1>1 DEF Comparisons
<1>5. Statuses
  BY <1>1 DEF Init, Statuses, Ending
<1> QED BY <1>2, <1>3, <1>4, <1>5 DEF Inv

LEMMA Stutter == Inv /\ UNCHANGED vars => Inv'
<1> SUFFICES ASSUME Inv, UNCHANGED vars PROVE Inv'
  OBVIOUS
<1> USE DEF vars, config, outcome, trees, known, faults
<1>1. TypeOK'
  BY DEF Inv, TypeOK, outcome, trees
<1>2. Registries' /\ Disk' /\ Listing' /\ Signals' /\ Statuses'
  BY DEF Inv, Registries, Disk, Listing, Signals, Statuses
<1>3. Comparisons'
  BY ComparisonsFrame DEF Inv, outcome
<1> QED BY <1>1, <1>2, <1>3 DEF Inv

LEMMA NextInv == Inv /\ [Next]_vars => Inv'
<1> SUFFICES ASSUME Inv, [Next]_vars PROVE Inv'
  OBVIOUS
<1>1. CASE EarlyReturn
  BY <1>1, EarlyReturnStep
<1>2. CASE MakeTemp
  BY <1>2, MakeTempStep
<1>3. CASE RegisterTemp
  BY <1>3, RegisterTempStep
<1>4. CASE RegisterWorktree
  BY <1>4, RegisterWorktreeStep
<1>5. CASE NoTimeLeft
  BY <1>5, NoTimeLeftStep
<1>6. CASE Compare
  BY <1>6, CompareStep
<1>7. CASE Complete
  BY <1>7, CompleteStep
<1>8. CASE UnregisterWorktree
  BY <1>8, UnregisterWorktreeStep
<1>9. CASE RemoveWorktree
  BY <1>9, RemoveWorktreeStep
<1>10. CASE RemoveTemp
  BY <1>10, RemoveTempStep
<1>11. CASE UnregisterTemp
  BY <1>11, UnregisterTempStep
<1>12. CASE AtExit
  BY <1>12, AtExitStep
<1>13. ASSUME NEW d \in 0 .. AddTime, AddWorktree(d) \/ AddFails(d) PROVE Inv'
  BY <1>13, AddWorktreeStep, AddFailsStep
<1>14. ASSUME NEW d \in 0 .. limit + KillTime,
              WorkerRaises(d) \/ \E r \in Results : RunWorker(r, d)
       PROVE  Inv'
  <2>1. d \in Nat
    BY DEF Inv, TypeOK
  <2> QED BY <1>14, <2>1, WorkerRaisesStep, RunWorkerStep
<1>15. CASE Sigterm
  BY <1>15, SigtermStep
<1>16. CASE Interrupt
  BY <1>16, InterruptStep
<1>17. CASE Hold
  BY <1>17, HoldStep
<1>18. CASE HandlerHolds
  BY <1>18, HandlerHoldsStep
<1>19. CASE UNCHANGED vars
  BY <1>19, Stutter
<1> QED
  BY <1>1, <1>2, <1>3, <1>4, <1>5, <1>6, <1>7, <1>8, <1>9, <1>10,
     <1>11, <1>12, <1>13, <1>14, <1>15, <1>16, <1>17, <1>18, <1>19
  DEF Next, Stage

LEMMA Invariance == Spec => []Inv
BY InitInv, NextInv, PTL DEF Spec

\* Every variable of the stage keeps its type, for all inputs, results and
\* budgets: run_behavior of compare.py.
THEOREM TypeCorrect == Spec => []TypeOK
<1>1. Inv => TypeOK
  BY DEF Inv
<1> QED BY <1>1, Invariance, PTL

\* run_behavior returns with empty registries, without its directory, and with
\* no worktree left in git's list unless git failed to remove and prune one.
THEOREM ReturnsClean == Spec => []CleanOnReturn
<1>1. Inv => CleanOnReturn
  <2> SUFFICES ASSUME Inv, pc = "returned" PROVE CleanOnReturn
    BY DEF CleanOnReturn
  <2>1. ~work /\ dirs = {} /\ ~tempKnown /\ treesKnown = {}
    BY DEF Inv, TypeOK, Registries, Disk
  <2>2. gitFailed \/ entries = {}
    BY DEF Inv, Listing, Signals, Ending
  <2> QED BY <2>1, <2>2 DEF CleanOnReturn
<1> QED BY <1>1, Invariance, PTL

\* When a signal ended the program, cleanup.py left only what the signal hit
\* while it was in no registry.
THEOREM OnlyExposedIsLeft == Spec => []LeftoversAreExposed
<1>1. Inv => LeftoversAreExposed
  <2> SUFFICES ASSUME Inv, pc = "exited" PROVE LeftoversAreExposed
    BY DEF LeftoversAreExposed
  <2>1. work => "temp" \in exposed
    BY DEF Inv, Disk, Registries
  <2>2. gitFailed \/ entries \subseteq exposed
    BY DEF Inv, Listing
  <2> QED BY <2>1, <2>2 DEF LeftoversAreExposed
<1> QED BY <1>1, Invariance, PTL

\* What _classify and the replay of compare.py claim of a difference is borne
\* out by the results it was made from.
THEOREM RegressionsAreReproduced == Spec => []RegressionsReproduced
<1>1. Inv => RegressionsReproduced
  <2> SUFFICES ASSUME Inv, NEW i \in DOMAIN items
               PROVE  LET r == items[i].runs
                          class == items[i].class
                      IN  /\ class = "potential_regression" =>
                               i \in Linked /\ r[1] \in Ok /\ r[2] \in Failed /\ r[3] = r[2]
                          /\ class \in {"expected", "unknown"} => r[1] # r[2] /\ r[3] = r[2]
                          /\ Len(r) = 3 /\ r[3] # r[2] => class = "nondeterministic"
    BY DEF RegressionsReproduced
  <2> DEFINE r == items[i].runs
  <2>1. /\ Len(r) \in {2, 3} /\ (Len(r) = 2 <=> r[1] = r[2])
        /\ items[i].class = Classify(i, r[1], r[2], r[Len(r)])
    BY DEF Inv, Comparisons
  <2> HIDE DEF r
  <2>2. CASE r[1] = r[2]
    BY <2>1, <2>2 DEF Classify, r
  <2>3. CASE r[1] # r[2]
    <3>1. items[i].class = Classify(i, r[1], r[2], r[3])
      BY <2>1, <2>3
    <3> QED BY <2>3, <3>1 DEF Classify, r
  <2> QED BY <2>2, <2>3
<1> QED BY <1>1, Invariance, PTL

\* The stage is complete exactly if every input was compared.
THEOREM CompleteMeansAllCompared == Spec => []CompleteComparesAll
<1>1. Inv => CompleteComparesAll
  BY Lengths
  DEF Inv, TypeOK, Statuses, Signals, Ending, CompleteComparesAll
<1> QED BY <1>1, Invariance, PTL
-----------------------------------------------------------------------------
(* Strengthening of OverrunBound: the time each phase may have taken.  In   *)
(* the loop, the first worker fits into what was left of the budget and     *)
(* every worker after it may take its timeout and the time to kill it.      *)

\* An upper bound on the workers called so far; there are at most three an input.
Calls == 3 * Len(items) + Len(runs)

Clock ==
  /\ pc \in {"entry", "made"} => now <= Budget /\ tree = "base"
  /\ pc = "add" => now <= Budget + (IF tree = "base" THEN 0 ELSE AddTime)
  /\ pc = "register" => now <= Budget + (IF tree = "base" THEN AddTime ELSE 2 * AddTime)
  /\ pc = "loop" =>
       \/ limit = 0 /\ now <= Budget + 2 * AddTime
       \/ now + limit <= Budget + Calls * (limit + KillTime)
  /\ OverrunBound

\* A product grows with its first factor, and by the second at each step.
LEMMA Multiples ==
  ASSUME NEW n \in Nat, NEW m \in Nat, n <= m, NEW w \in Nat
  PROVE  /\ n * w \in Nat /\ m * w \in Nat
         /\ n * w <= m * w
         /\ (n + 1) * w = n * w + w
<1>1. n * w \in Nat /\ m * w \in Nat /\ (m - n) * w \in Nat
  <2>1. \A a, b \in Nat : a * b \in Nat
    OBVIOUS
  <2>2. m - n \in Nat
    OBVIOUS
  <2> QED BY <2>1, <2>2
<1>2. m * w = n * w + (m - n) * w
  OBVIOUS
<1>3. (n + 1) * w = n * w + w
  OBVIOUS
<1> QED BY <1>1, <1>2, <1>3

\* The bound of the loop, once no more workers can be called than it counts.
LEMMA CallsBound ==
  ASSUME TypeOK, NEW c \in Nat, c <= 3 * NumInputs, NEW t \in Nat,
         t + limit <= Budget + c * (limit + KillTime)
  PROVE  t <= Budget + (3 * NumInputs - 1) * limit + 3 * NumInputs * KillTime
<1> DEFINE w == limit + KillTime
           all == 3 * NumInputs
<1>1. w \in Nat /\ all \in Nat /\ limit \in Nat /\ KillTime \in Nat /\ Budget \in Nat
  BY BehaviorAssumption DEF TypeOK
<1>2. c * w <= all * w /\ all * w \in Nat /\ c * w \in Nat
  <2> HIDE DEF w, all
  <2> QED BY <1>1, Multiples DEF all
<1>3. all * w = (3 * NumInputs - 1) * limit + limit + 3 * NumInputs * KillTime
  BY <1>1, BehaviorAssumption
<1>4. /\ (3 * NumInputs - 1) * limit \in Int /\ 3 * NumInputs * KillTime \in Int
  <2>1. \A a, b \in Int : a * b \in Int
    OBVIOUS
  <2>2. 3 * NumInputs \in Int /\ 3 * NumInputs - 1 \in Int /\ limit \in Int /\ KillTime \in Int
    BY <1>1, BehaviorAssumption
  <2> QED BY <2>1, <2>2
<1>5. t + limit <= Budget + c * w
  OBVIOUS
<1> HIDE DEF w, all
<1> DEFINE u == (3 * NumInputs - 1) * limit
           v == 3 * NumInputs * KillTime
<1>6. all * w = u + limit + v /\ u \in Int /\ v \in Int
  BY <1>3, <1>4
<1> HIDE DEF u, v
<1>7. t <= Budget + u + v
  BY <1>1, <1>2, <1>5, <1>6
<1> QED BY <1>7 DEF u, v

\* The workers called so far are a number, and at most three for each input.
LEMMA CallsCount ==
  ASSUME Inv
  PROVE  /\ Calls \in Nat
         /\ pc = "loop" /\ Input <= NumInputs /\ NeedsRun => Calls + 1 <= 3 * NumInputs
         /\ pc = "loop" => Calls <= 3 * NumInputs
<1>1. PICK n \in Nat : n = Len(runs)
  BY Lengths DEF Inv
<1>2. PICK m \in Nat : m = Len(items)
  BY Lengths DEF Inv
<1>3. n <= 3 /\ m <= NumInputs /\ (n > 0 => m < NumInputs) /\ NumInputs \in Nat
  BY <1>1, <1>2, Lengths, BehaviorAssumption DEF Inv, Comparisons
<1>4. Calls = 3 * m + n
  BY <1>1, <1>2 DEF Calls
<1>5. Input = m + 1 /\ (NeedsRun => n \in {0, 1, 2})
  BY <1>1, <1>2, RunCount DEF Inv, Input
<1> QED BY <1>3, <1>4, <1>5

\* A worker, whatever it returns, takes at most its timeout and the time to kill
\* it; the stage is then still within the bound.
LEMMA WorkerClock ==
  ASSUME Inv, Clock, NEW d \in 0 .. limit + KillTime, Worker(d)
  PROVE  /\ now' + limit <= Budget + (Calls + 1) * (limit + KillTime)
         /\ now' <= Budget + (3 * NumInputs - 1) * limit + 3 * NumInputs * KillTime
<1> DEFINE w == limit + KillTime
           p == Calls * w
           q == (Calls + 1) * w
<1>1. Calls \in Nat /\ Calls + 1 <= 3 * NumInputs
  BY CallsCount DEF Worker
<1>2. w \in Nat /\ limit \in Nat /\ now \in Nat /\ now' \in Nat /\ Budget \in Nat /\ d \in Nat
  BY BehaviorAssumption DEF Inv, TypeOK, Worker
<1>3. p \in Nat /\ q = p + w
  <2> HIDE DEF w
  <2> QED BY <1>1, <1>2, Multiples
<1>4. now + limit <= Budget + p
  BY <1>2 DEF Clock, Worker
<1>5. now' = now + d /\ d <= w
  BY DEF Worker
<1>6. now' + limit <= Budget + q
  <2> HIDE DEF w, p, q
  <2> QED BY <1>2, <1>3, <1>4, <1>5
<1>7. now' + limit <= Budget + (Calls + 1) * (limit + KillTime)
  BY <1>6
<1>8. TypeOK /\ Calls + 1 \in Nat
  BY <1>1 DEF Inv
<1> HIDE DEF w, p, q
<1> QED BY <1>1, <1>2, <1>7, <1>8, CallsBound

\* The two runs that agree, or the three of an input, become one item.
LEMMA CompareCalls ==
  ASSUME Inv, Compare
  PROVE  Calls' \in Nat /\ Calls <= Calls'
<1>1. PICK n \in Nat : n = Len(runs)
  BY Lengths DEF Inv
<1>2. PICK m \in Nat : m = Len(items)
  BY Lengths DEF Inv
<1>3. n <= 3
  BY <1>1, Lengths DEF Inv
<1>4. Calls = 3 * m + n
  BY <1>1, <1>2 DEF Calls
<1>5. Len(items') = m + 1 /\ Len(runs') = 0
  BY <1>2 DEF Compare, Inv, TypeOK
<1>6. Calls' = 3 * (m + 1)
  BY <1>5 DEF Calls
<1> QED BY <1>3, <1>4, <1>6

LEMMA ClockStep == ASSUME Inv, Clock, [Next]_vars PROVE Clock'
<1> USE BehaviorAssumption
<1>0. now \in Nat /\ limit \in Nat /\ tree \in Trees /\ TypeOK
  BY DEF Inv, TypeOK
<1>1. ASSUME now' = now, limit' = limit,
             pc' \notin {"entry", "made", "add", "register", "loop"}
      PROVE  Clock'
  BY <1>1 DEF Clock, OverrunBound
<1>2. CASE UNCHANGED vars
  BY <1>2 DEF vars, outcome, Clock, OverrunBound, Calls
<1>3. CASE \/ EarlyReturn \/ NoTimeLeft \/ Complete \/ UnregisterWorktree \/ RemoveWorktree
           \/ RemoveTemp \/ UnregisterTemp \/ AtExit
  <2>1. now' = now /\ limit' = limit
    BY <1>3 DEF EarlyReturn, NoTimeLeft, Complete, UnregisterWorktree, RemoveWorktree,
       RemoveTemp, UnregisterTemp, AtExit, StageError
  <2>2. pc' \notin {"entry", "made", "add", "register", "loop"}
    BY <1>3 DEF EarlyReturn, NoTimeLeft, Complete, UnregisterWorktree, RemoveWorktree,
       RemoveTemp, UnregisterTemp, AtExit, StageError, Finally
  <2> QED BY <1>1, <2>1, <2>2
<1>4. CASE Sigterm \/ Interrupt
  <2>1. now' = now /\ limit' = limit /\ pc' \in {"unregister", "exiting"}
    BY <1>4 DEF Sigterm, Interrupt, Hit, Unwind, Finally
  <2> QED BY <1>1, <2>1
<1>5. CASE MakeTemp \/ RegisterTemp
  BY <1>5 DEF MakeTemp, RegisterTemp, Clock, OverrunBound
<1>11. CASE Hold \/ HandlerHolds
  BY <1>11 DEF Hold, HandlerHolds, Clock, OverrunBound, Calls, outcome
<1>6. ASSUME NEW d \in 0 .. AddTime, AddWorktree(d) \/ AddFails(d)
      PROVE  Clock'
  <2>1. now' = now + d /\ pc' \in {"register", "unregister"} /\ limit' = limit
        /\ (pc' = "register" => tree' = tree)
        /\ now <= Budget + (IF tree = "base" THEN 0 ELSE AddTime)
    BY <1>6 DEF AddWorktree, AddFails, StageError, Finally, Clock
  <2>2. d \in Nat /\ d <= AddTime /\ AddTime \in Nat /\ Budget \in Nat
    OBVIOUS
  <2>3. now' <= Budget + (IF tree = "base" THEN AddTime ELSE 2 * AddTime)
    BY <1>0, <2>1, <2>2
  <2>4. now' <= Budget + 2 * AddTime
    BY <2>2, <2>3, <1>0, <2>1
  <2> QED BY <2>1, <2>3, <2>4 DEF Clock, OverrunBound
<1>7. CASE RegisterWorktree
  <2>1. now' = now /\ now <= Budget + 2 * AddTime
    BY <1>7, <1>0 DEF RegisterWorktree, Clock
  <2>2. CASE tree = "base"
    BY <1>7, <1>0, <2>1, <2>2 DEF RegisterWorktree, Clock, OverrunBound
  <2>3. CASE tree # "base"
    <3>1. pc' = "loop" /\ limit' = Clamp(Budget, now, StageLimit)
      BY <1>7, <2>3 DEF RegisterWorktree
    <3>2. Clamp(Budget, now, StageLimit) \in Nat
          /\ (Clamp(Budget, now, StageLimit) = 0
                \/ now + Clamp(Budget, now, StageLimit) <= Budget)
      BY <1>0 DEF Clamp, Remaining
    <3>3. PICK l \in Nat : l = limit' /\ (l = 0 \/ now + l <= Budget)
      BY <3>1, <3>2
    <3>4. PICK c \in Nat : c = Calls'
      BY CallsCount, <1>7 DEF RegisterWorktree, Calls, outcome
    <3>5. l = 0 \/ now + l <= Budget + c * (l + KillTime)
      <4> DEFINE p == c * (l + KillTime)
      <4>1. p \in Nat
        <5>1. \A a, b \in Nat : a * b \in Nat
          OBVIOUS
        <5>2. l + KillTime \in Nat
          OBVIOUS
        <5> QED BY <5>1, <5>2
      <4> HIDE DEF p
      <4>2. l = 0 \/ now + l <= Budget
        BY <3>3
      <4>3. l = 0 \/ now + l <= Budget + p
        BY <1>0, <4>1, <4>2
      <4> QED BY <4>3 DEF p
    <3>6. limit' = 0 \/ now' + limit' <= Budget + Calls' * (limit' + KillTime)
      BY <2>1, <3>3, <3>4, <3>5
    <3> QED BY <2>1, <3>1, <3>6 DEF Clock, OverrunBound
  <2> QED BY <2>2, <2>3
<1>8. ASSUME NEW d \in 0 .. limit + KillTime, WorkerRaises(d)
      PROVE  Clock'
  <2>1. Worker(d) /\ limit' = limit /\ pc' = "unregister"
    BY <1>8 DEF WorkerRaises, StageError, Finally
  <2>2. now' <= Budget + (3 * NumInputs - 1) * limit + 3 * NumInputs * KillTime
    BY <2>1, WorkerClock
  <2> QED BY <2>1, <2>2 DEF Clock, OverrunBound
<1>9. ASSUME NEW d \in 0 .. limit + KillTime, NEW r \in Results, RunWorker(r, d)
      PROVE  Clock'
  <2>1. Worker(d) /\ limit' = limit /\ pc' = "loop"
    BY <1>9 DEF RunWorker, Worker
  <2>2. Calls' = Calls + 1
    <3>1. items' = items /\ Len(runs') = Len(runs) + 1
      BY <1>9 DEF RunWorker, Inv, TypeOK
    <3>2. PICK n \in Nat : n = Len(runs)
      BY <1>0, Lengths
    <3>3. PICK m \in Nat : m = Len(items)
      BY <1>0, Lengths
    <3>4. Calls = 3 * m + n /\ Calls' = 3 * m + (n + 1)
      BY <3>1, <3>2, <3>3 DEF Calls
    <3> QED BY <3>4
  <2>3. /\ now' + limit <= Budget + (Calls + 1) * (limit + KillTime)
        /\ now' <= Budget + (3 * NumInputs - 1) * limit + 3 * NumInputs * KillTime
    BY <2>1, WorkerClock
  <2> QED BY <2>1, <2>2, <2>3 DEF Clock, OverrunBound
<1>10. CASE Compare
  <2>1. now' = now /\ limit' = limit /\ pc = "loop" /\ pc' = "loop"
    BY <1>10 DEF Compare
  <2>2. Calls \in Nat /\ Calls' \in Nat /\ Calls <= Calls'
    BY <1>10, CompareCalls, CallsCount
  <2> DEFINE p == Calls * (limit + KillTime)
             q == Calls' * (limit + KillTime)
  <2>3. p \in Nat /\ q \in Nat /\ p <= q
    <3>1. limit + KillTime \in Nat
      BY <1>0
    <3> QED BY <2>2, <3>1, Multiples
  <2>4. now + limit <= Budget + p => now + limit <= Budget + q
    <3> HIDE DEF p, q
    <3> QED BY <1>0, <2>3
  <2> QED BY <2>1, <2>4 DEF Clock, OverrunBound
<1> QED
  BY <1>2, <1>3, <1>4, <1>5, <1>6, <1>7, <1>8, <1>9, <1>10, <1>11
  DEF Next, Stage

\* The behavioral stage looks at the budget once, before its loop: it overruns the
\* budget by the two git commands that add the worktrees, or by one timeout less
\* than there are workers (run_behavior of compare.py).
THEOREM OverrunIsBounded == Spec => []OverrunBound
<1>1. Init => Clock
  BY BehaviorAssumption DEF Init, Clock, OverrunBound
<1>2. Inv /\ Clock /\ [Next]_vars => Clock'
  BY ClockStep
<1>3. Clock => OverrunBound
  BY DEF Clock
<1> QED BY <1>1, <1>2, <1>3, Invariance, PTL DEF Spec
=============================================================================
