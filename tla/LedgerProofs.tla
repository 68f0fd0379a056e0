---------------------------- MODULE LedgerProofs ----------------------------
(***************************************************************************)
(* What the mutation stage reports: which mutants the list of records      *)
(* holds, how the scores follow from it, and that the stage implements the *)
(* ledger of verdicts, for every listing, identity map, cap and budget.    *)
(***************************************************************************)
EXTENDS MutationProofs

Done == {s \in Specs : Recorded(s)}
Current == IF cur = 0 THEN {} ELSE {cur}

\* Nothing is selected twice or forgotten: until the result is published each
\* selected mutant is recorded, in execution, or still to be reached.
SelectionInv ==
  /\ pc \in {"entry", "list"} => listed = {} /\ todo = {}
  /\ pc \in {"loop", "setup", "tests", "held"} => Selected(listed) = todo \cup Current \cup Done
  /\ pc = "done" => todo = {} /\ Done = Selected(listed)
  /\ pc = "raised" => Done \subseteq Selected(listed)

\* The steps of run_mutation itself: the listing is stored once, the scores
\* are computed once, and every other end of the stage comes before the loop.
LEMMA StageStep ==
  ASSUME TypeOK, [Next]_vars
  PROVE  \/ \E specs \in SUBSET Specs, d \in 0 .. ListTime : ListMutations(specs, d)
         \/ CloseStage
         \/ /\ UNCHANGED <<listed, scores>>
            /\ pc \in {"entry", "list"} =>
                 todo' = todo /\ cur' = cur /\ pc' \in {"entry", "list", "done"}
            /\ pc \notin {"entry", "list"} => (pc' = "done" <=> pc = "done")
            /\ pc = "done" => todo' = todo /\ cur' = cur
            /\ pc \in {"raised", "held"} => todo' = todo /\ cur' = cur /\ pc' = pc
            /\ pc' \in {"entry", "list"} => pc \in {"entry", "list"}
<1> USE DEF outputs, TypeOK
<1>1. CASE UNCHANGED vars \/ Terminated
  BY <1>1 DEF vars, mutantVars, Terminated
<1>2. CASE NotRequested \/ SkipBaseline \/ SkipDeadline \/ SkipBackend \/ ListFails
           \/ LoadBackend \/ HeldOpen
  BY <1>2 DEF HeldOpen, NotRequested, SkipBaseline, SkipDeadline, SkipBackend, ListFails, Stop,
     LoadBackend, mutantVars
<1>3. CASE \E s \in Specs : TakeExcluded(s) \/ TakeNotRun(s) \/ TakeMutant(s)
  BY <1>3 DEF TakeExcluded, TakeNotRun, TakeMutant, mutantVars
<1>4. CASE \E d \in 0 .. SetupTime : SetupInvalid(d) \/ SetupReady(d) \/ SetupRaises(d)
  BY <1>4 DEF SetupInvalid, SetupReady, SetupRaises, Unwind, Return, mutantVars
<1>5. CASE SkipPartition \/ FinishMutant
  BY <1>5 DEF SkipPartition, FinishMutant, Return
<1>6. CASE \E timedOut \in BOOLEAN : \E d \in Durations(timedOut) :
             \/ \E code \in ExitStatus : RunPartition(timedOut, code, d)
             \/ RunRaises(d)
  BY <1>6 DEF RunPartition, RunRaises, Child, Unwind, Return
<1>7. QED
  BY <1>1, <1>2, <1>3, <1>4, <1>5, <1>6 DEF Next

\* Only the records of a step change, and a record makes its mutant done.
LEMMA DoneStep ==
  ASSUME TypeOK, [Next]_vars
  PROVE  /\ Quiet => Done' = Done
         /\ \A s \in Specs, rec \in Record : Records(s, rec) => Done' = Done \cup {s}
<1>1. Quiet => Done' = Done
  BY DEF Quiet, Done, Recorded
<1>2. ASSUME NEW s \in Specs, NEW rec \in Record, Records(s, rec)
      PROVE  Done' = Done \cup {s}
  BY <1>2, RecordIsRecorded DEF Records, Done, Recorded, TypeOK
<1>3. QED
  BY <1>1, <1>2

\* Every step keeps the selection accounted for.
LEMMA SelectionInductive ==
  ASSUME TypeOK, Unreached, SelectionInv, [Next]_vars
  PROVE  SelectionInv'
<1> USE Facts
<1>0. Selected({}) = {}
  BY DEF Selected, Unique
<1>1. CASE \E specs \in SUBSET Specs, d \in 0 .. ListTime : ListMutations(specs, d)
  <2>1. PICK specs \in SUBSET Specs : \E d \in 0 .. ListTime : ListMutations(specs, d)
    BY <1>1
  <2>2. Done = {} /\ Done' = {} /\ cur = 0 /\ cur' = 0 /\ todo = {}
    BY <2>1 DEF ListMutations, mutantVars, ledger, TypeOK, Unreached, SelectionInv, Done,
       Recorded
  <2>3. listed' = specs
    BY <2>1 DEF ListMutations
  <2>4. Selected(listed)' = Selected(specs)
    BY <2>3
  <2>5. QED
    BY <2>1, <2>2, <2>4 DEF ListMutations, SelectionInv, Current
<1>2. CASE CloseStage
  <2>1. Done' = Done /\ listed' = listed /\ todo' = {} /\ cur = 0 /\ pc' = "done"
    BY <1>2 DEF CloseStage, ledger, mutantVars, Done, Recorded, TypeOK
  <2>2. Selected(listed)' = Selected(listed)
    BY <2>1
  <2>3. QED
    BY <1>2, <2>1, <2>2 DEF CloseStage, SelectionInv, Current
<1>3. CASE /\ UNCHANGED <<listed, scores>>
           /\ pc \in {"entry", "list"} =>
                todo' = todo /\ cur' = cur /\ pc' \in {"entry", "list", "done"}
           /\ pc \notin {"entry", "list"} => (pc' = "done" <=> pc = "done")
           /\ pc = "done" => todo' = todo /\ cur' = cur
           /\ pc \in {"raised", "held"} => todo' = todo /\ cur' = cur /\ pc' = pc
           /\ pc' \in {"entry", "list"} => pc \in {"entry", "list"}
  <2>0. Selected(listed)' = Selected(listed)
    BY <1>3
  <2>1. CASE Quiet
    <3>1. Done' = Done
      BY <2>1, DoneStep
    <3>2. CASE pc \in {"entry", "list"}
      <4>1. Done = {} /\ listed = {} /\ todo = {}
        BY <3>2 DEF Unreached, SelectionInv, Done
      <4>2. QED
        BY <1>0, <1>3, <2>0, <3>1, <3>2, <4>1 DEF SelectionInv
    <3>3. CASE pc \in {"loop", "setup", "tests"}
      <4>1. Selected(listed) = todo \cup Current \cup Done
        BY <3>3 DEF SelectionInv
      <4>2. pc' # "raised" => todo' \cup Current' = todo \cup Current /\ pc' # "done"
        BY <1>3, <2>1, <3>3 DEF Quiet, CleanRun, Current, TypeOK
      <4>3. pc' # "raised" => pc' \in {"loop", "setup", "tests", "held"}
        BY <1>3, <2>1, <3>3 DEF Quiet, CleanRun
      <4>4. QED
        BY <2>0, <3>1, <4>1, <4>2, <4>3 DEF SelectionInv
    <3>4. CASE pc \in {"done", "raised", "held"}
      BY <1>3, <2>0, <3>1, <3>4 DEF SelectionInv, Current
    <3>5. QED
      BY <3>2, <3>3, <3>4 DEF TypeOK
  <2>2. ASSUME NEW s \in Specs, NEW rec \in Record, Records(s, rec)
        PROVE  SelectionInv'
    <3>1. Done' = Done \cup {s}
      BY <2>2, DoneStep
    <3>2. /\ pc \in {"loop", "setup", "tests"} /\ pc' = "loop" /\ cur' = 0
          /\ todo' \cup {s} = todo \cup Current
      BY <2>2 DEF Records, Current, TypeOK
    <3>3. QED
      BY <2>0, <3>1, <3>2 DEF SelectionInv, Current
  <2>3. QED
    BY <2>1, <2>2, StepShape
<1>4. QED
  BY <1>1, <1>2, <1>3, StageStep

\* The selection is accounted for in every state of the stage.
LEMMA SelectionAccounted == Spec => [](TypeOK /\ Unreached /\ SelectionInv)
<1>1. Init => SelectionInv
  BY DEF Init, SelectionInv
<1>2. QED
  BY <1>1, SelectionInductive, UnreachedInvariant, PTL DEF Spec
-----------------------------------------------------------------------------
(* The refinement: the phase, the pending items and the verdicts of a state *)
(* of the stage are those of a ledger, and every step maps to a step of it. *)

\* The pending items are the selected mutants without a record.
LEMMA PendingMeans ==
  ASSUME TypeOK, Unreached, SelectionInv
  PROVE  /\ pc # "raised" => Pending = todo \cup Current
         /\ pc \in {"loop", "setup", "tests", "held", "raised"} => Pending = Selected(listed) \ Done
         /\ pc \in {"entry", "list", "done"} => Pending = {}
<1>1. pc # "raised" => Pending = todo \cup Current
  BY DEF Pending, Current
<1>2. pc = "raised" => Pending = Selected(listed) \ Done
  BY DEF Pending, Done, Recorded
<1>3. pc \in {"loop", "setup", "tests", "held"} => Pending = Selected(listed) \ Done
  BY <1>1 DEF SelectionInv, Unreached, Current, Done
<1>4. pc \in {"entry", "list", "done"} => Pending = {}
  BY <1>1 DEF SelectionInv, Current, TypeOK
<1>5. QED
  BY <1>1, <1>2, <1>3, <1>4

\* What the ledger sees of the records.
Verdicts == [s \in Specs |-> record[s].result]

\* An undecided step of the stage opens, publishes, abandons or stalls the ledger,
\* or is none of its business.
LEMMA QuietMaps ==
  ASSUME TypeOK, Unreached, SelectionInv, [Next]_vars, Quiet
  PROVE  [Ledger!Next]_(Ledger!vars)
<1> USE DEF Phase
<1>1. Verdicts' = Verdicts /\ Done' = Done
  BY DoneStep DEF Verdicts, Quiet
<1>2. CASE \E specs \in SUBSET Specs, d \in 0 .. ListTime : ListMutations(specs, d)
  <2>1. PICK specs \in SUBSET Specs : \E d \in 0 .. ListTime : ListMutations(specs, d)
    BY <1>2
  <2>2. Pending = {} /\ pc = "list" /\ cur = 0 /\ cur' = 0 /\ todo = {}
    BY <2>1, PendingMeans DEF ListMutations, mutantVars, TypeOK, SelectionInv
  <2>3. CASE Selected(specs) = {}
    <3>1. pc' = "done"
      BY <2>1, <2>3 DEF ListMutations
    <3>2. Pending' = {}
      BY <2>1, <2>2, <2>3, <3>1 DEF ListMutations, Pending
    <3>3. QED
      BY <1>1, <2>2, <3>1, <3>2 DEF Ledger!Next, Ledger!Publish, Verdicts
  <2>4. CASE Selected(specs) # {}
    <3>1. pc' = "loop" /\ todo' = Selected(specs)
      BY <2>1, <2>4 DEF ListMutations
    <3>2. Pending' = Selected(specs) /\ Selected(specs) \in SUBSET Specs
      BY <2>2, <3>1, SelectedType DEF Pending
    <3>3. Ledger!Open(Selected(specs))
      BY <1>1, <2>2, <3>1, <3>2 DEF Ledger!Open, Verdicts
    <3>4. QED
      BY <3>2, <3>3 DEF Ledger!Next
  <2>5. QED
    BY <2>3, <2>4
<1>3. CASE CloseStage
  <2>1. pc = "loop" /\ pc' = "done" /\ todo = {} /\ cur = 0
    BY <1>3 DEF CloseStage, TypeOK
  <2>2. Pending = {} /\ Pending' = {}
    <3>1. Pending = {}
      BY <2>1, PendingMeans DEF Current
    <3>2. Pending' = todo' \cup Current' /\ todo' = {} /\ cur' = 0
      BY <1>3, <2>1 DEF CloseStage, mutantVars, Pending, Current
    <3>3. QED
      BY <3>1, <3>2 DEF Current
  <2>3. QED
    BY <1>1, <2>1, <2>2 DEF Ledger!Next, Ledger!Publish, Verdicts
<1>4. CASE /\ UNCHANGED <<listed, scores>>
           /\ pc \in {"entry", "list"} =>
                todo' = todo /\ cur' = cur /\ pc' \in {"entry", "list", "done"}
           /\ pc \notin {"entry", "list"} => (pc' = "done" <=> pc = "done")
           /\ pc = "done" => todo' = todo /\ cur' = cur
           /\ pc \in {"raised", "held"} => todo' = todo /\ cur' = cur /\ pc' = pc
           /\ pc' \in {"entry", "list"} => pc \in {"entry", "list"}
  <2>0. Selected(listed)' = Selected(listed)
    BY <1>4
  <2>1. CASE pc \in {"entry", "list"}
    <3>1. Pending = {} /\ Pending' = {}
      BY <1>4, <2>1 DEF Pending, SelectionInv, TypeOK
    <3>2. CASE pc' = "done"
      BY <1>1, <2>1, <3>1, <3>2 DEF Ledger!Next, Ledger!Publish, Verdicts
    <3>3. CASE pc' \in {"entry", "list"}
      BY <1>1, <2>1, <3>1, <3>3 DEF Ledger!vars, Verdicts
    <3>4. QED
      BY <1>4, <2>1, <3>2, <3>3
  <2>2. CASE pc \in {"loop", "setup", "tests"} /\ pc' = "raised"
    <3>1. Pending = Selected(listed) \ Done
      BY <2>2, PendingMeans
    <3>2. Pending' = Selected(listed) \ Done
      BY <1>1, <2>0, <2>2 DEF Pending, Done, Recorded
    <3>3. QED
      BY <1>1, <2>2, <3>1, <3>2 DEF Ledger!Next, Ledger!Abandon, Verdicts
  <2>3. CASE pc \in {"loop", "setup", "tests"} /\ pc' # "raised"
    <3>1. pc' \in {"loop", "setup", "tests", "held"}
      BY <1>4, <2>3 DEF Quiet, CleanRun
    <3>2. todo' \cup Current' = todo \cup Current
      BY <2>3, <3>1, Facts DEF Quiet, CleanRun, Current, TypeOK
    <3>3. Pending' = Pending
      BY <2>3, <3>1, <3>2 DEF Pending, Current
    <3>4. CASE pc' = "held"
      <4>1. pc = "tests" /\ cur # 0
        BY <2>3, <3>4 DEF Quiet, CleanRun, TypeOK
      <4>2. Pending # {}
        BY <4>1 DEF Pending
      <4>3. QED
        BY <1>1, <2>3, <3>3, <3>4, <4>2 DEF Ledger!Next, Ledger!Stall, Verdicts
    <3>5. CASE pc' # "held"
      BY <1>1, <2>3, <3>1, <3>3, <3>5 DEF Ledger!vars, Verdicts
    <3>6. QED
      BY <3>4, <3>5
  <2>4. CASE pc \in {"done", "raised", "held"}
    <3>1. pc' = pc /\ todo' = todo /\ cur' = cur
      BY <1>4, <2>4
    <3>2. Pending' = Pending
      BY <1>1, <2>0, <3>1 DEF Pending, Done, Recorded
    <3>3. QED
      BY <1>1, <2>4, <3>1, <3>2 DEF Ledger!vars, Verdicts
  <2>5. QED
    BY <2>1, <2>2, <2>3, <2>4 DEF TypeOK
<1>5. QED
  BY <1>2, <1>3, <1>4, StageStep

\* A record settles one pending item, and no item is examined once one was
\* given up.
LEMMA RecordMaps ==
  ASSUME TypeOK, Unreached, CutOffInv, NEW s \in Specs, NEW rec \in Record,
         Records(s, rec)
  PROVE  Ledger!Next
<1>1. /\ pc \in {"loop", "setup", "tests"} /\ pc' = "loop" /\ cur' = 0
      /\ s \in todo \cup Current /\ todo' \cup Current' = (todo \cup Current) \ {s}
  BY DEF Records, Unreached, Current, TypeOK
<1>2. Pending = todo \cup Current /\ Pending' = todo' \cup Current'
  BY <1>1 DEF Pending, Current
<1>3. Verdicts' = [Verdicts EXCEPT ![s] = rec.result]
  BY DEF Records, Verdicts, TypeOK
<1>4. Ledger!Settle(s, rec.result)
  BY <1>1, <1>2, <1>3 DEF Ledger!Settle, Phase, Verdicts
<1>5. CASE rec.result \in {"excluded", "not_run"}
  BY <1>4, <1>5 DEF Ledger!Next, Ledger!Exclude, Ledger!GiveUp
<1>6. CASE rec.result \notin {"excluded", "not_run"}
  <2>1. pc \in {"setup", "tests"}
    BY <1>1, <1>6 DEF Records
  <2>2. ~Ledger!GivenUp
    BY <2>1 DEF CutOffInv, Ledger!GivenUp
  <2>3. rec.result \in {"killed", "survived", "timeout", "invalid", "error"}
    BY <1>6 DEF Record, Results
  <2>4. QED
    BY <1>4, <2>2, <2>3 DEF Ledger!Next, Ledger!Examine
<1>7. QED
  BY <1>5, <1>6

\* The stage implements the ledger of verdicts: each selected mutant gets exactly
\* one final verdict, none is executed once one was given up, and the result is
\* published only with all of them decided (run_mutation, _execute_mutant).
THEOREM StageImplementsLedger == Spec => Ledger!Safe
<1>1. Init => Ledger!Init
  BY DEF Init, Ledger!Init, Phase, Pending, NoRecord
<1>2. TypeOK /\ Unreached /\ CutOffInv /\ SelectionInv /\ [Next]_vars
        => [Ledger!Next]_(Ledger!vars)
  <2> SUFFICES ASSUME TypeOK, Unreached, CutOffInv, SelectionInv, [Next]_vars
               PROVE  [Ledger!Next]_(Ledger!vars)
    OBVIOUS
  <2>1. CASE Quiet
    BY <2>1, QuietMaps
  <2>2. CASE \E s \in Specs, rec \in Record : Records(s, rec)
    BY <2>2, RecordMaps
  <2>3. QED
    BY <2>1, <2>2, StepShape
<1>3. QED
  BY <1>1, <1>2, CutOffInvariant, SelectionAccounted, PTL DEF Spec, Ledger!Safe
-----------------------------------------------------------------------------
(* The selection as sets: what dedupe and the cap leave of any listing.    *)

\* A set of numbers that is not empty has a least one.
LEMMA LeastNat ==
  ASSUME NEW T \in SUBSET Nat, T # {}
  PROVE  \E x \in T : \A y \in T : x <= y
<1> DEFINE Upto == {0 .. t : t \in T}
           R == StrictSubsetOrdering(Nat)
<1>1. IsWellFoundedOn(R, FiniteSubsetsOf(Nat))
  BY FS_StrictSubsetOrderingWellFounded
<1>2. Upto \subseteq FiniteSubsetsOf(Nat) /\ Upto # {}
  <2>1. ASSUME NEW t \in T
        PROVE  IsFiniteSet(0 .. t) /\ 0 .. t \in SUBSET Nat
    <3>1. t \in Int /\ 0 \in Int
      OBVIOUS
    <3>2. QED
      BY <3>1, FS_Interval
  <2>2. QED
    BY <2>1 DEF FiniteSubsetsOf
<1>3. \E A \in Upto : \A B \in Upto : <<B, A>> \notin R
  <2> HIDE DEF Upto, R
  <2>1. QED
    BY <1>1, <1>2, WFMin
<1>4. PICK x \in T : \A y \in T : <<0 .. y, 0 .. x>> \notin R
  BY <1>3
<1>5. ASSUME NEW y \in T
      PROVE  x <= y
  <2>1. SUFFICES ASSUME y < x PROVE FALSE
    OBVIOUS
  <2>2. 0 .. y \in SUBSET Nat /\ 0 .. x \in SUBSET Nat /\ 0 .. y \subseteq 0 .. x
    BY <2>1
  <2>3. x \in 0 .. x /\ x \notin 0 .. y
    BY <2>1
  <2>4. <<0 .. y, 0 .. x>> \in R
    BY <2>2, <2>3 DEF StrictSubsetOrdering
  <2>5. QED
    BY <1>4, <2>4
<1>6. QED
  BY <1>5

\* The identities of a set of specs.
Ids(S) == {IdOf[s] : s \in S}

\* dedupe keeps one spec for each identity on the changed lines.
LEMMA UniqueMeans ==
  ASSUME NEW specs \in SUBSET Specs
  PROVE  /\ Unique(specs) \subseteq specs \cap ChangedLine
         /\ \A s, t \in Unique(specs) : IdOf[s] = IdOf[t] => s = t
         /\ Ids(Unique(specs)) = Ids(specs \cap ChangedLine)
<1>1. Unique(specs) \subseteq specs \cap ChangedLine
  BY DEF Unique
<1>2. ASSUME NEW s \in Unique(specs), NEW t \in Unique(specs), IdOf[s] = IdOf[t]
      PROVE  s = t
  <2>1. s <= t /\ t <= s /\ s \in Nat /\ t \in Nat
    BY <1>2, Facts DEF Unique
  <2>2. QED
    BY <2>1
<1>3. ASSUME NEW s \in specs \cap ChangedLine
      PROVE  \E u \in Unique(specs) : IdOf[u] = IdOf[s]
  <2> DEFINE Same == {t \in specs \cap ChangedLine : IdOf[t] = IdOf[s]}
  <2>1. Same \in SUBSET Nat /\ Same # {}
    BY Facts
  <2>2. PICK u \in Same : \A t \in Same : u <= t
    BY <2>1, LeastNat
  <2>3. u \in Unique(specs)
    BY <2>2 DEF Unique
  <2>4. QED
    BY <2>2, <2>3
<1>4. Ids(Unique(specs)) = Ids(specs \cap ChangedLine)
  BY <1>1, <1>3 DEF Ids
<1>5. QED
  BY <1>1, <1>2, <1>4

\* Specs without a shared identity are as many as their identities.
LEMMA IdsCount ==
  ASSUME NEW S \in SUBSET Specs, \A s, t \in S : IdOf[s] = IdOf[t] => s = t
  PROVE  IsFiniteSet(Ids(S)) /\ Cardinality(Ids(S)) = Cardinality(S)
<1> DEFINE f == [s \in S |-> IdOf[s]]
<1>1. f \in Bijection(S, Ids(S))
  BY DEF Bijection, Injection, Surjection, IsInjective, Ids
<1>2. ExistsBijection(S, Ids(S))
  BY <1>1 DEF ExistsBijection
<1>3. QED
  BY <1>2, SpecsFinite, FS_Bijection

\* The order of the loop is a strict total order, with the cap or without it.
LEMMA BeforeOrders ==
  ASSUME NEW specs, NEW s \in Specs, NEW t \in Specs
  PROVE  /\ ~Before(specs, s, s)
         /\ s # t => Before(specs, s, t) \/ Before(specs, t, s)
         /\ Before(specs, s, t) =>
              \A u \in Specs : Before(specs, u, s) => Before(specs, u, t)
BY Facts, MutationAssumption DEF Before

\* The specs the loop would visit before s, and how many they are.
Ahead(specs, s) == {t \in Unique(specs) : Before(specs, t, s)}
Position(specs) == [s \in Unique(specs) |-> Cardinality(Ahead(specs, s))]

\* The positions of the deduplicated specs are 0, 1, ... without gaps.
LEMMA PositionBijection ==
  ASSUME NEW specs \in SUBSET Specs
  PROVE  LET n == Cardinality(Unique(specs))
         IN  n \in Nat /\ Position(specs) \in Bijection(Unique(specs), 0 .. (n - 1))
<1> DEFINE U == Unique(specs)
           n == Cardinality(U)
           P == Position(specs)
<1>0. U \subseteq Specs
  BY UniqueMeans
<1>1. IsFiniteSet(U) /\ n \in Nat
  BY <1>0, SpecsFinite
<1>2. ASSUME NEW s \in U
      PROVE  /\ IsFiniteSet(Ahead(specs, s)) /\ Cardinality(Ahead(specs, s)) \in Nat
             /\ s \notin Ahead(specs, s) /\ Ahead(specs, s) \subseteq U
  BY <1>0, SpecsFinite, BeforeOrders DEF Ahead
<1>3. ASSUME NEW s \in U, NEW t \in SUBSET U, s \notin Ahead(specs, s),
             Ahead(specs, s) \cup {s} \subseteq t
      PROVE  Cardinality(Ahead(specs, s)) + 1 <= Cardinality(t)
  <2>1. Cardinality(Ahead(specs, s) \cup {s}) = Cardinality(Ahead(specs, s)) + 1
    BY <1>2, <1>3, FS_AddElement
  <2>2. IsFiniteSet(t)
    BY <1>0, SpecsFinite
  <2>3. Cardinality(Ahead(specs, s) \cup {s}) <= Cardinality(t)
    BY <1>3, <2>2, FS_Subset
  <2>4. QED
    BY <2>1, <2>3
<1>4. \A s \in U : Cardinality(Ahead(specs, s)) \in 0 .. (n - 1)
  <2> SUFFICES ASSUME NEW s \in U
               PROVE  Cardinality(Ahead(specs, s)) \in 0 .. (n - 1)
    OBVIOUS
  <2>1. Cardinality(Ahead(specs, s)) + 1 <= n
    BY <1>2, <1>3
  <2>2. QED
    BY <1>1, <1>2, <2>1
<1>5. ASSUME NEW s \in U, NEW t \in U, Before(specs, s, t)
      PROVE  Cardinality(Ahead(specs, s)) # Cardinality(Ahead(specs, t))
  <2>1. Ahead(specs, s) \cup {s} \subseteq Ahead(specs, t)
    BY <1>0, <1>5, BeforeOrders DEF Ahead
  <2>2. Cardinality(Ahead(specs, s)) + 1 <= Cardinality(Ahead(specs, t))
    BY <1>2, <1>3, <2>1
  <2>3. QED
    BY <1>2, <2>2
<1>6. \A s, t \in U : s # t => Before(specs, s, t) \/ Before(specs, t, s)
  BY <1>0, BeforeOrders
<1>7. P \in Injection(U, 0 .. (n - 1))
  <2>1. P \in [U -> 0 .. (n - 1)]
    BY <1>4 DEF Position
  <2>2. \A s, t \in U : P[s] = P[t] => s = t
    BY <1>5, <1>6 DEF Position
  <2>3. DOMAIN P = U
    BY DEF Position
  <2>4. QED
    BY <2>1, <2>2, <2>3 DEF Injection, IsInjective
<1>8. IsFiniteSet(0 .. (n - 1)) /\ Cardinality(0 .. (n - 1)) = n
  <2>1. 0 \in Int /\ n - 1 \in Int
    BY <1>1
  <2>2. QED
    BY <1>1, <2>1, FS_Interval
<1>9. P \in Surjection(U, 0 .. (n - 1))
  <2> HIDE DEF P, U, n
  <2>1. Cardinality(U) = Cardinality(0 .. (n - 1))
    BY <1>8 DEF n
  <2>2. QED
    BY <1>7, <1>8, <2>1, FS_Injection
<1>10. QED
  BY <1>1, <1>7, <1>9 DEF Bijection

\* The loop runs all deduplicated mutants, or exactly as many as the cap allows.
LEMMA SelectedCount ==
  ASSUME NEW specs \in SUBSET Specs
  PROVE  LET n == Cardinality(Unique(specs))
         IN  Cardinality(Selected(specs)) = IF n <= MaxMutants THEN n ELSE MaxMutants
<1> DEFINE U == Unique(specs)
           n == Cardinality(U)
           P == Position(specs)
           S == Selected(specs)
<1>0. n \in Nat /\ MaxMutants \in Nat \ {0}
  BY PositionBijection, MutationAssumption
<1>1. CASE n <= MaxMutants
  <2>1. S = U
    BY <1>0, <1>1 DEF Selected, CapBites
  <2>2. QED
    BY <1>1, <2>1
<1>2. CASE ~(n <= MaxMutants)
  <2>1. S = {s \in U : P[s] < MaxMutants}
    BY <1>0, <1>2 DEF Selected, CapBites, Position, Ahead
  <2> DEFINE f == [s \in S |-> P[s]]
  <2>2. P \in [U -> 0 .. (n - 1)] /\ \A k \in 0 .. (n - 1) : \E s \in U : P[s] = k
    BY PositionBijection DEF Bijection, Surjection
  <2>3. \A s, t \in U : P[s] = P[t] => s = t
    <3>1. P \in Injection(U, 0 .. (n - 1))
      BY PositionBijection DEF Bijection
    <3>2. DOMAIN P = U
      BY DEF Position
    <3>3. QED
      BY <3>1, <3>2 DEF Injection, IsInjective
  <2> HIDE DEF P, U, n, S
  <2>4. f \in [S -> 0 .. (MaxMutants - 1)]
    BY <1>0, <2>1, <2>2
  <2>5. \A k \in 0 .. (MaxMutants - 1) : \E s \in S : f[s] = k
    BY <1>0, <1>2, <2>1, <2>2
  <2>6. \A s, t \in S : f[s] = f[t] => s = t
    BY <2>1, <2>3
  <2>7. f \in Bijection(S, 0 .. (MaxMutants - 1))
    BY <2>4, <2>5, <2>6 DEF Bijection, Injection, Surjection, IsInjective
  <2>8. ExistsBijection(S, 0 .. (MaxMutants - 1))
    BY <2>7 DEF ExistsBijection
  <2>9. IsFiniteSet(S)
    BY SelectedType, SpecsFinite DEF S
  <2>10. Cardinality(0 .. (MaxMutants - 1)) = MaxMutants
    <3>1. 0 \in Int /\ MaxMutants - 1 \in Int
      BY <1>0
    <3>2. QED
      BY <1>0, <3>1, FS_Interval
  <2>11. Cardinality(S) = MaxMutants
    BY <2>8, <2>9, <2>10, FS_Bijection
  <2>12. QED
    BY <1>2, <2>11 DEF S, n, U
<1>3. QED
  BY <1>1, <1>2

\* A completed stage has exactly one record for each selected identity on the
\* changed lines: all of them, or as many as the cap allows (filter_changed_lines,
\* dedupe, cap_specs and the loop of run_mutation).
THEOREM SelectionIsRecorded == Spec => []SelectionRecorded
<1>1. TypeOK /\ SelectionInv => SelectionRecorded
  <2> SUFFICES ASSUME TypeOK, SelectionInv, pc = "done"
               PROVE  /\ Done \subseteq listed \cap ChangedLine
                      /\ \A s, t \in Done : IdOf[s] = IdOf[t] => s = t
                      /\ Cardinality(Done) =
                           IF Cardinality(Ids(listed \cap ChangedLine)) <= MaxMutants
                           THEN Cardinality(Ids(listed \cap ChangedLine)) ELSE MaxMutants
    BY DEF SelectionRecorded, Done, Ids
  <2>1. listed \in SUBSET Specs /\ Done = Selected(listed)
    BY DEF TypeOK, SelectionInv
  <2>2. Done \subseteq Unique(listed)
    BY <2>1 DEF Selected
  <2>3. Cardinality(Ids(listed \cap ChangedLine)) = Cardinality(Unique(listed))
    BY <2>1, UniqueMeans, IdsCount
  <2>4. QED
    BY <2>1, <2>2, <2>3, UniqueMeans, SelectedCount
<1>2. QED
  BY <1>1, SelectionAccounted, PTL
-----------------------------------------------------------------------------
\* SHA-256 gives two identities two hashes.
RankSeparates == \A s, t \in Specs : Rank[IdOf[s]] = Rank[IdOf[t]] => IdOf[s] = IdOf[t]

\* Once the cap bites, the identities ahead of a mutant are those of lower rank.
LEMMA AheadIds ==
  ASSUME RankSeparates, NEW specs \in SUBSET Specs, CapBites(specs),
         NEW s \in Unique(specs)
  PROVE  Ids(Ahead(specs, s)) = {i \in Ids(Unique(specs)) : Rank[i] < Rank[IdOf[s]]}
<1>1. Unique(specs) \subseteq Specs
  BY UniqueMeans
<1>2. ASSUME NEW t \in Unique(specs)
      PROVE  Before(specs, t, s) <=> Rank[IdOf[t]] < Rank[IdOf[s]]
  <2>1. Rank[IdOf[t]] \in Nat /\ Rank[IdOf[s]] \in Nat /\ s \in Nat
    BY <1>1, MutationAssumption, Facts
  <2>2. CASE Rank[IdOf[t]] = Rank[IdOf[s]]
    <3>1. t = s
      BY <1>1, <2>2, UniqueMeans DEF RankSeparates
    <3>2. QED
      BY <2>1, <3>1 DEF Before
  <2>3. CASE Rank[IdOf[t]] # Rank[IdOf[s]]
    BY <2>3 DEF Before
  <2>4. QED
    BY <2>2, <2>3
<1>3. QED
  BY <1>2 DEF Ahead, Ids

\* Two listings of the same identities select the same identities.
LEMMA SelectionByIdentity ==
  ASSUME RankSeparates, NEW one \in SUBSET Specs, NEW two \in SUBSET Specs,
         Ids(Unique(one)) = Ids(Unique(two))
  PROVE  Ids(Selected(one)) \subseteq Ids(Selected(two))
<1>1. CapBites(one) <=> CapBites(two)
  <2>1. Unique(one) \subseteq Specs /\ Unique(two) \subseteq Specs
    BY UniqueMeans
  <2>2. Cardinality(Unique(one)) = Cardinality(Unique(two))
    BY <2>1, UniqueMeans, IdsCount
  <2>3. QED
    BY <2>2 DEF CapBites
<1>2. CASE ~CapBites(one)
  BY <1>1, <1>2 DEF Selected, Ids
<1>3. CASE CapBites(one)
  <2>1. ASSUME NEW s \in Selected(one)
        PROVE  \E t \in Selected(two) : IdOf[t] = IdOf[s]
    <3>1. s \in Unique(one) /\ Cardinality(Ahead(one, s)) < MaxMutants
      BY <1>3 DEF Selected, Ahead
    <3>2. PICK t \in Unique(two) : IdOf[t] = IdOf[s]
      BY <3>1 DEF Ids
    <3>3. Ids(Ahead(one, s)) = Ids(Ahead(two, t))
      BY <1>1, <1>3, <3>1, <3>2, AheadIds
    <3>4. Cardinality(Ids(Ahead(one, s))) = Cardinality(Ahead(one, s))
      BY UniqueMeans, IdsCount DEF Ahead
    <3>5. Cardinality(Ids(Ahead(two, t))) = Cardinality(Ahead(two, t))
      BY UniqueMeans, IdsCount DEF Ahead
    <3>6. Cardinality(Ahead(two, t)) < MaxMutants
      BY <3>1, <3>3, <3>4, <3>5
    <3>7. QED
      BY <3>2, <3>6 DEF Selected, Ahead
  <2>2. QED
    BY <2>1 DEF Ids
<1>4. QED
  BY <1>2, <1>3

\* As long as no two identities share a hash, which mutants survive the cap
\* depends on their identities alone, not on the order of the listing (cap_specs).
THEOREM CapIgnoresOrder ==
  ASSUME RankSeparates
  PROVE  Spec => []CapIgnoresListingOrder
<1>1. TypeOK => CapIgnoresListingOrder
  <2> SUFFICES ASSUME TypeOK, NEW other \in SUBSET Specs,
                      Ids(Unique(other)) = Ids(Unique(listed))
               PROVE  Ids(Selected(other)) = Ids(Selected(listed))
    BY DEF CapIgnoresListingOrder, Ids
  <2>1. listed \in SUBSET Specs
    BY DEF TypeOK
  <2>2. QED
    BY <2>1, SelectionByIdentity
<1>2. QED
  BY <1>1, TypeCorrect, PTL
-----------------------------------------------------------------------------
(* The scores: fractions of the counters, which count the records.         *)

Valid == {s \in Specs : record[s].result \in {"killed", "survived"}}
Kills == {s \in Specs : record[s].result = "killed"}
Own == {s \in Specs : record[s].result = "killed" /\ record[s].origin = "pr_untouched"}

\* What the report's scores should be, from its records alone.
RecordedScores ==
  IF Valid = {} THEN <<NoScore, NoScore>>
  ELSE <<<<Cardinality(Own), Cardinality(Valid)>>, <<Cardinality(Kills), Cardinality(Valid)>>>>

\* Strengthening of ScoresFromRecords: no score is there before the stage ends.
ScoresInv ==
  scores = IF pc = "done" THEN RecordedScores ELSE <<NoScore, NoScore>>

\* Two sets without a common element.
LEMMA DisjointCount ==
  ASSUME NEW S \in SUBSET Specs, NEW T \in SUBSET Specs, S \cap T = {}
  PROVE  Cardinality(S \cup T) = Cardinality(S) + Cardinality(T)
<1>1. IsFiniteSet(S) /\ IsFiniteSet(T) /\ Cardinality(S) \in Nat /\ Cardinality(T) \in Nat
  BY SpecsFinite
<1>2. Cardinality(S \cap T) = 0
  BY FS_EmptySet
<1>3. Cardinality(S \cup T) = Cardinality(S) + Cardinality(T) - Cardinality(S \cap T)
  BY <1>1, FS_Union
<1>4. QED
  BY <1>1, <1>2, <1>3

\* Killed and valid mutants, as the sums of counters that the stage computes.
LEMMA CountersSum ==
  ASSUME TypeOK, Accounting, KillEvidence
  PROVE  /\ Cardinality(Own) = summary["killed_by_pr_untouched"]
         /\ Cardinality(Kills) = Killed(summary)
         /\ Cardinality(Valid) = Killed(summary) + summary["survived"]
<1> DEFINE A == KillsBy("pr_untouched")
           B == KillsBy("pr_touched")
           C == KillsBy("generated")
           D == WithResult("survived")
<1>1. \A s \in Specs, o \in Origins :
        record[s] = KilledBy(o) <=> record[s].result = "killed" /\ record[s].origin = o
  <2> SUFFICES ASSUME NEW s \in Specs, NEW o \in Origins
               PROVE  record[s] = KilledBy(o) <=>
                        record[s].result = "killed" /\ record[s].origin = o
    OBVIOUS
  <2>1. record[s] \in Record \/ record[s] = NoRecord
    BY DEF TypeOK
  <2>2. QED
    BY <2>1 DEF Record, NoRecord, KilledBy
<1>2. \A s \in Specs : record[s].result = "killed" => record[s].origin \in Origins
  BY Facts DEF KillEvidence
<1>3. /\ Own = A /\ Kills = (A \cup B) \cup C /\ Valid = Kills \cup D
      /\ A \cap B = {} /\ (A \cup B) \cap C = {} /\ Kills \cap D = {}
  <2>1. A = Own
    BY <1>1 DEF KillsBy, Own, Origins
  <2>2. B = {s \in Specs : record[s].result = "killed" /\ record[s].origin = "pr_touched"}
    BY <1>1 DEF KillsBy, Origins
  <2>3. C = {s \in Specs : record[s].result = "killed" /\ record[s].origin = "generated"}
    BY <1>1 DEF KillsBy, Origins
  <2> HIDE DEF A, B, C
  <2>4. Kills = (A \cup B) \cup C /\ A \cap B = {} /\ (A \cup B) \cap C = {}
    BY <1>2, <2>1, <2>2, <2>3 DEF Kills, Own, Origins
  <2>5. Valid = Kills \cup D /\ Kills \cap D = {}
    BY DEF Valid, Kills, WithResult
  <2>6. QED
    BY <2>1, <2>4, <2>5
<1>4. /\ summary["killed_by_pr_untouched"] = Cardinality(A)
      /\ summary["killed_by_pr_touched"] = Cardinality(B)
      /\ summary["killed_by_generated"] = Cardinality(C)
      /\ summary["survived"] = Cardinality(D)
  <2>1. \A o \in Origins : summary[KillCounter[o]] = Cardinality(KillsBy(o))
    BY DEF Accounting, KillsBy
  <2>2. /\ KillCounter["pr_untouched"] = "killed_by_pr_untouched"
        /\ KillCounter["pr_touched"] = "killed_by_pr_touched"
        /\ KillCounter["generated"] = "killed_by_generated"
    BY DEF KillCounter
  <2>3. summary["survived"] = Cardinality(D)
    BY DEF Accounting, WithResult, Results
  <2>4. QED
    BY <2>1, <2>2, <2>3 DEF Origins
<1>5. A \subseteq Specs /\ B \subseteq Specs /\ C \subseteq Specs /\ D \subseteq Specs
      /\ Kills \subseteq Specs
  BY DEF KillsBy, WithResult, Kills
<1> HIDE DEF A, B, C, D
<1>6. Cardinality(A \cup B) = Cardinality(A) + Cardinality(B)
  BY <1>3, <1>5, DisjointCount
<1>7. Cardinality(Kills) = Cardinality(A \cup B) + Cardinality(C)
  BY <1>3, <1>5, DisjointCount
<1>8. Cardinality(Valid) = Cardinality(Kills) + Cardinality(D)
  BY <1>3, <1>5, DisjointCount
<1>9. QED
  BY <1>3, <1>4, <1>6, <1>7, <1>8 DEF Killed

\* The scores are published with the result and follow from its records: no score
\* when nothing was killed or survived, one denominator for both, and only kills by
\* untouched tests in the independent one (the end of run_mutation).
THEOREM ScoresFollow == Spec => []ScoresFromRecords
<1>1. Init => ScoresInv
  BY DEF Init, ScoresInv
<1>2. TypeOK /\ Unreached /\ Accounting /\ KillEvidence /\ ScoresInv /\ [Next]_vars
        => ScoresInv'
  <2> SUFFICES ASSUME TypeOK, Unreached, Accounting, KillEvidence, ScoresInv, [Next]_vars
               PROVE  ScoresInv'
    OBVIOUS
  <2>1. record' = record => RecordedScores' = RecordedScores
    BY DEF RecordedScores, Valid, Kills, Own
  <2>2. pc \in {"entry", "list"} => RecordedScores = <<NoScore, NoScore>>
    BY DEF Unreached, Recorded, RecordedScores, Valid, NoRecord
  <2>3. CASE \E specs \in SUBSET Specs, d \in 0 .. ListTime : ListMutations(specs, d)
    BY <2>1, <2>2, <2>3 DEF ListMutations, ledger, ScoresInv
  <2>4. CASE CloseStage
    <3> DEFINE valid == Killed(summary) + summary["survived"]
    <3>1. /\ record' = record /\ pc' = "done"
          /\ scores' = <<Score(summary["killed_by_pr_untouched"], valid),
                         Score(Killed(summary), valid)>>
      BY <2>4 DEF CloseStage, ledger
    <3>2. valid = 0 <=> Valid = {}
      <4>1. IsFiniteSet(Valid)
        BY SpecsFinite DEF Valid
      <4>2. Cardinality(Valid) = 0 <=> Valid = {}
        BY <4>1, FS_EmptySet
      <4>3. QED
        BY <4>2, CountersSum
    <3>3. scores' = RecordedScores
      BY <3>1, <3>2, CountersSum DEF Score, RecordedScores
    <3>4. QED
      BY <2>1, <3>1, <3>3 DEF ScoresInv
  <2>5. CASE /\ UNCHANGED <<listed, scores>>
             /\ pc \in {"entry", "list"} =>
                  todo' = todo /\ cur' = cur /\ pc' \in {"entry", "list", "done"}
             /\ pc \notin {"entry", "list"} => (pc' = "done" <=> pc = "done")
             /\ pc = "done" => todo' = todo /\ cur' = cur
             /\ pc \in {"raised", "held"} => todo' = todo /\ cur' = cur /\ pc' = pc
             /\ pc' \in {"entry", "list"} => pc \in {"entry", "list"}
    <3>1. pc \in {"entry", "list", "done"} => record' = record
      BY StepShape DEF Quiet, Records
    <3>2. QED
      BY <2>1, <2>2, <2>5, <3>1 DEF ScoresInv
  <2>6. QED
    BY <2>3, <2>4, <2>5, StageStep
<1>3. ScoresInv => ScoresFromRecords
  <2> SUFFICES ASSUME ScoresInv, pc = "done" PROVE ScoresFromRecords
    BY DEF ScoresFromRecords
  <2>1. scores = RecordedScores
    BY DEF ScoresInv
  <2>2. /\ Kills = {s \in Valid : record[s].result = "killed"}
        /\ Own = {s \in Kills : record[s].origin = "pr_untouched"}
    BY DEF Valid, Kills, Own
  <2>3. QED
    BY <2>1, <2>2 DEF ScoresFromRecords, RecordedScores, Valid
<1>4. QED
  BY <1>1, <1>2, <1>3, UnreachedInvariant, CountersMatchRecords, VerdictsHaveEvidence,
     PTL DEF Spec, VerdictEvidence
=============================================================================
