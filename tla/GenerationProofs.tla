-------------------------- MODULE GenerationProofs --------------------------
(***************************************************************************)
(* Proofs about Generation for any number of requirements, any sharing of  *)
(* file names, any budget and any timeouts.                                *)
(***************************************************************************)
EXTENDS Generation, TLAPS

\* The types, with the children and the outcomes as sequences.
Typed ==
  /\ pc \in {"entry", "write", "collect", "first", "replay", "done", "raised", "held"}
  /\ now \in Nat /\ timeout \in 0 .. StageTimeout
  /\ executable \in 0 .. MaxRequirements /\ written \in {0, executable}
  /\ cur \in 0 .. written
  /\ status \in {"not_requested", "skipped", "complete", "error"}
  /\ disk \in [Files -> Positions \cup {NoSource}]
  /\ ran \in [Positions -> Seq(Run)]
  /\ items \in Seq(GeneratedOutcomes)
  /\ artifacts \subseteq Positions

\* Where the loop is: what was run, and how often, and what has a result.
Placed ==
  /\ pc = "entry" => cur = 0 /\ written = 0 /\ items = <<>> /\ artifacts = {}
  /\ pc \in {"write", "collect", "first", "replay"} =>
       cur \in 1 .. written /\ written = executable /\ Len(items) = cur - 1
  /\ Len(items) <= cur
  /\ \A i \in Positions : i > cur => ran[i] = <<>>
  /\ \A i \in Positions : Len(ran[i]) <= 2
  /\ pc \in {"write", "collect", "first"} => ran[cur] = <<>>
  /\ pc = "replay" => Len(ran[cur]) = 1 /\ ran[cur][1].code = PytestTestsFailed

\* The file of the requirement whose test is run holds its source.
Sourced == pc \in {"collect", "first", "replay"} => disk[FileOf[cur]] = cur

\* The artifacts are those of the tests that were written.
Filed ==
  /\ pc = "write" => artifacts = 1 .. (cur - 1)
  /\ pc \in {"collect", "first", "replay"} => artifacts = 1 .. cur
  /\ status = "complete" => pc = "done"

IInv ==
  /\ Typed /\ Placed /\ Sourced /\ RunsItsOwnSource /\ OutcomeEvidence
  /\ Filed /\ CompleteUnlessSpent
-----------------------------------------------------------------------------
\* The status of a child and the ways it may end are numbers that differ.
LEMMA CodeTypes ==
  /\ ExitStatus \subseteq Int /\ TimedOut \notin ExitStatus
  /\ {PytestOk, PytestTestsFailed, PytestInterrupted, PytestNoTests} \subseteq ExitStatus
BY DEF ExitStatus, TimedOut, PytestOk, PytestTestsFailed, PytestInterrupted, PytestNoTests

\* FileOf is a function to the test files.
LEMMA FileTypes ==
  /\ Positions \subseteq Nat /\ 0 \notin Positions
  /\ \A i \in Positions : FileOf[i] \in Files
  /\ \A n \in 0 .. MaxRequirements : 1 .. n \subseteq Positions
BY GenerationAssumption DEF Positions, Files

\* What compile_all leaves in a file is nothing or the source of a requirement.
LEMMA CompiledType ==
  ASSUME NEW n \in 0 .. MaxRequirements
  PROVE  Compiled(n) \in [Files -> Positions \cup {NoSource}]
<1>1. ASSUME NEW f \in Files PROVE Compiled(n)[f] \in Positions \cup {NoSource}
  <2> DEFINE last == {i \in 1 .. n : FileOf[i] = f /\ \A j \in (i + 1) .. n : FileOf[j] # f}
  <2>1. last \subseteq Positions
    BY FileTypes
  <2>2. Compiled(n)[f] = IF last = {} THEN NoSource ELSE CHOOSE i \in last : TRUE
    BY DEF Compiled
  <2>3. last # {} => (CHOOSE i \in last : TRUE) \in last
    OBVIOUS
  <2> QED
    BY <2>1, <2>2, <2>3
<1> QED
  BY <1>1 DEF Compiled

\* The stage starts with the invariant.
LEMMA InitInv == Init => IInv
<1> SUFFICES ASSUME Init PROVE IInv
  OBVIOUS
<1> USE GenerationAssumption, FileTypes
<1>1. Typed
  BY DEF Init, Typed, NoSource
<1>2. Placed
  BY DEF Init, Placed, Positions
<1>3. Sourced /\ Filed /\ CompleteUnlessSpent
  BY DEF Init, Sourced, Filed, CompleteUnlessSpent
<1>4. RunsItsOwnSource
  BY DEF Init, RunsItsOwnSource
<1>5. OutcomeEvidence
  BY DEF Init, OutcomeEvidence
<1> QED
  BY <1>1, <1>2, <1>3, <1>4, <1>5 DEF IInv
-----------------------------------------------------------------------------
\* Leaving ran, the outcomes and the current test alone keeps the evidence.
LEMMA EvidenceFrame ==
  ASSUME RunsItsOwnSource, OutcomeEvidence, UNCHANGED <<ran, items>>
  PROVE  RunsItsOwnSource' /\ OutcomeEvidence'
<1>1. RunsItsOwnSource'
  BY DEF RunsItsOwnSource
<1>2. \A i : Codes(i)' = Codes(i)
  BY DEF Codes
<1>3. OutcomeEvidence'
  BY <1>2 DEF OutcomeEvidence, Justified
<1> QED
  BY <1>1, <1>3

\* An early return, which is none of a complete stage.
LEMMA StopInv ==
  ASSUME IInv, NEW st \in {"not_requested", "skipped"}, NEW reason,
         pc = "entry", Stop(st, reason)
  PROVE  IInv'
<1> USE GenerationAssumption, FileTypes DEF Stop, inputs, outputs
<1>1. Typed'
  BY DEF IInv, Typed
<1>2. Placed'
  BY DEF IInv, Placed, Typed
<1>3. Sourced' /\ Filed'
  BY DEF Sourced, Filed
<1>4. CompleteUnlessSpent'
  <2>1. status' # "complete"
    OBVIOUS
  <2> QED
    BY <2>1 DEF CompleteUnlessSpent
<1>5. RunsItsOwnSource' /\ OutcomeEvidence'
  BY EvidenceFrame DEF IInv
<1> QED
  BY <1>1, <1>2, <1>3, <1>4, <1>5 DEF IInv

\* Compiling writes every file, so each holds the source of its last requirement.
LEMMA CompileInv ==
  ASSUME IInv, NEW n \in 0 .. MaxRequirements, NEW d \in 0 .. CompileTime, Compile(n, d)
  PROVE  IInv'
<1> USE GenerationAssumption, FileTypes DEF Compile, inputs, outputs
<1>1. Typed'
  <2>1. disk' \in [Files -> Positions \cup {NoSource}] /\ now' \in Nat
    BY CompiledType DEF IInv, Typed
  <2> QED
    BY <2>1 DEF IInv, Typed
<1>2. Placed'
  BY DEF IInv, Placed, Typed
<1>3. Sourced' /\ CompleteUnlessSpent'
  BY DEF Sourced, CompleteUnlessSpent
<1>4. Filed'
  <2>1. artifacts' = {} /\ 1 .. 0 = {}
    BY DEF IInv, Placed
  <2>2. pc' = "write" => cur' - 1 = 0
    OBVIOUS
  <2>3. status' = "complete" => pc' = "done"
    BY DEF IInv, Filed
  <2> QED
    BY <2>1, <2>2, <2>3 DEF Filed
<1>5. RunsItsOwnSource' /\ OutcomeEvidence'
  BY EvidenceFrame DEF IInv
<1> QED
  BY <1>1, <1>2, <1>3, <1>4, <1>5 DEF IInv

\* The timeout of a test is at most that of the stage.
LEMMA TestTimeoutType ==
  ASSUME NEW t \in Nat
  PROVE  TestTimeout(t) \in 0 .. StageTimeout
BY GenerationAssumption DEF TestTimeout, Clamp, Expired, Remaining

\* A test is written again before it is run, and no outcome is touched.
LEMMA WriteTestInv ==
  ASSUME IInv, WriteTest
  PROVE  IInv'
<1> USE GenerationAssumption, FileTypes DEF WriteTest, inputs, outputs
<1>1. cur \in Positions
  BY DEF IInv, Typed, Placed
<1>2. Typed'
  <2>1. timeout' \in 0 .. StageTimeout
    BY TestTimeoutType DEF IInv, Typed
  <2>2. disk' \in [Files -> Positions \cup {NoSource}] /\ artifacts' \subseteq Positions
    BY <1>1 DEF IInv, Typed, Rewritten
  <2> QED
    BY <2>1, <2>2 DEF IInv, Typed
<1>3. Placed'
  BY DEF IInv, Placed, Typed
<1>4. Sourced'
  BY <1>1 DEF IInv, Typed, Sourced, Rewritten
<1>5. Filed' /\ CompleteUnlessSpent'
  BY DEF IInv, Typed, Placed, Filed, CompleteUnlessSpent
<1>6. RunsItsOwnSource' /\ OutcomeEvidence'
  BY EvidenceFrame DEF IInv
<1> QED
  BY <1>2, <1>3, <1>4, <1>5, <1>6 DEF IInv

\* The collection is a child of the current test and decides whether it runs.
LEMMA CollectInv ==
  ASSUME IInv, NEW timedOut \in BOOLEAN, NEW d \in Nat, Collect(timedOut, d)
  PROVE  IInv'
<1> USE GenerationAssumption, FileTypes DEF Collect, inputs, outputs
<1>1. Typed'
  BY DEF IInv, Typed
<1>2. Placed'
  BY DEF IInv, Placed, Typed
<1>3. Sourced' /\ Filed' /\ CompleteUnlessSpent'
  BY DEF IInv, Sourced, Filed, CompleteUnlessSpent
<1>4. RunsItsOwnSource' /\ OutcomeEvidence'
  BY EvidenceFrame DEF IInv
<1> QED
  BY <1>1, <1>2, <1>3, <1>4 DEF IInv

\* An exception of a child ends the stage without an outcome.
LEMMA RunRaisesInv ==
  ASSUME IInv, NEW d \in Nat, RunRaises(d)
  PROVE  IInv'
<1> USE GenerationAssumption, FileTypes DEF RunRaises, inputs, outputs
<1>1. Typed'
  BY DEF IInv, Typed
<1>2. Placed'
  BY DEF IInv, Placed, Typed
<1>3. Sourced' /\ Filed' /\ CompleteUnlessSpent'
  BY DEF IInv, Sourced, Filed, CompleteUnlessSpent
<1>4. RunsItsOwnSource' /\ OutcomeEvidence'
  BY EvidenceFrame DEF IInv
<1> QED
  BY <1>1, <1>2, <1>3, <1>4 DEF IInv

\* A wait that is held changes nothing but the place of the stage.
LEMMA HeldOpenInv == IInv /\ HeldOpen => IInv'
<1> SUFFICES ASSUME IInv, HeldOpen PROVE IInv'
  OBVIOUS
<1> USE DEF HeldOpen, inputs, outputs
<1>1. Typed' /\ Placed'
  BY DEF IInv, Typed, Placed
<1>2. Sourced' /\ Filed' /\ CompleteUnlessSpent'
  BY DEF IInv, Sourced, Filed, CompleteUnlessSpent
<1>3. RunsItsOwnSource' /\ OutcomeEvidence'
  BY EvidenceFrame DEF IInv
<1> QED
  BY <1>1, <1>2, <1>3 DEF IInv
-----------------------------------------------------------------------------
(* The children of a test.                                                 *)

\* A child adds one entry to those of the current test: of its own source.
Added(at, timedOut, code) ==
  /\ now' \in Nat /\ pc = at
  /\ cur \in Positions
  /\ ran' \in [Positions -> Seq(Run)]
  /\ \A i \in Positions \ {cur} : ran'[i] = ran[i]
  /\ Len(ran[cur]) = IF at = "first" THEN 0 ELSE 1
  /\ Len(ran'[cur]) = Len(ran[cur]) + 1
  /\ \A k \in 1 .. Len(ran[cur]) : ran'[cur][k] = ran[cur][k]
  /\ ran'[cur][Len(ran'[cur])].source = cur
  /\ ran'[cur][Len(ran'[cur])].code = IF timedOut THEN TimedOut ELSE code

\* A child adds one run to those of the test it belongs to.
LEMMA ChildAdds ==
  ASSUME IInv, NEW at \in {"first", "replay"}, NEW limit, NEW timedOut \in BOOLEAN,
         NEW code \in ExitStatus, NEW d \in Nat, Child(at, limit, timedOut, code, d)
  PROVE  Added(at, timedOut, code)
<1> DEFINE child == [source |-> disk[FileOf[cur]], code |-> IF timedOut THEN TimedOut ELSE code]
<1>1. now' \in Nat /\ pc = at /\ cur \in Positions
  BY FileTypes DEF Child, IInv, Typed, Placed
<1>2. ran' = [ran EXCEPT ![cur] = Append(@, child)]
  BY DEF Child
<1>3. child.source = cur /\ child.code = IF timedOut THEN TimedOut ELSE code
  BY <1>1 DEF IInv, Sourced
<1>4. child \in Run
  BY <1>1, <1>3 DEF Run
<1> HIDE DEF child
<1>5. ran \in [Positions -> Seq(Run)]
  BY DEF IInv, Typed
<1>6. ran'[cur] = Append(ran[cur], child) /\ ran[cur] \in Seq(Run)
  BY <1>1, <1>2, <1>5
<1>7. ran' \in [Positions -> Seq(Run)] /\ \A i \in Positions \ {cur} : ran'[i] = ran[i]
  BY <1>1, <1>2, <1>4, <1>5, <1>6
<1>8. Len(ran[cur]) = IF at = "first" THEN 0 ELSE 1
  BY <1>1 DEF IInv, Placed
<1>9. /\ Len(ran'[cur]) = Len(ran[cur]) + 1
      /\ ran'[cur][Len(ran[cur]) + 1] = child
      /\ \A k \in 1 .. Len(ran[cur]) : ran'[cur][k] = ran[cur][k]
  BY <1>4, <1>6
<1> QED
  BY <1>1, <1>3, <1>7, <1>8, <1>9 DEF Added

\* The children of every test go on to run its own source.
LEMMA OwnSourceStep ==
  ASSUME IInv, NEW at \in {"first", "replay"}, NEW limit, NEW timedOut \in BOOLEAN,
         NEW code \in ExitStatus, NEW d \in Nat, Child(at, limit, timedOut, code, d)
  PROVE  RunsItsOwnSource'
<1>1. Added(at, timedOut, code)
  BY ChildAdds
<1>2. ASSUME NEW i \in Positions, NEW k \in 1 .. Len(ran'[i]) PROVE ran'[i][k].source = i
  <2>1. CASE i # cur
    BY <1>1, <1>2, <2>1 DEF IInv, RunsItsOwnSource, Added
  <2>2. CASE i = cur
    <3>1. \A j \in 1 .. Len(ran[cur]) : ran[cur][j].source = cur
      BY <1>1 DEF IInv, RunsItsOwnSource, Added
    <3>2. Len(ran[cur]) \in Nat /\ Len(ran'[cur]) = Len(ran[cur]) + 1
      BY <1>1 DEF Added
    <3>3. k \in 1 .. (Len(ran[cur]) + 1)
      BY <1>2, <2>2, <3>2
    <3>4. k = Len(ran'[cur]) \/ k \in 1 .. Len(ran[cur])
      BY <3>2, <3>3
    <3> QED
      BY <1>1, <2>2, <3>1, <3>4 DEF Added
  <2> QED
    BY <2>1, <2>2
<1> QED
  BY <1>2 DEF RunsItsOwnSource

\* _run_one returns an outcome that the children of the test justify.
LEMMA ReturnInv ==
  ASSUME IInv, NEW at \in {"first", "replay"}, NEW limit, NEW timedOut \in BOOLEAN,
         NEW code \in ExitStatus, NEW d \in Nat, Child(at, limit, timedOut, code, d),
         NEW outcome \in GeneratedOutcomes, Return(outcome),
         Justified(outcome, [k \in 1 .. Len(ran'[cur]) |-> ran'[cur][k].code])
  PROVE  IInv'
<1>0. Added(at, timedOut, code)
  BY ChildAdds
<1>1. /\ cur \in 1 .. written /\ written = executable /\ cur \in Positions
      /\ Len(items) = cur - 1 /\ artifacts = 1 .. cur /\ pc = at
      /\ written \in 0 .. MaxRequirements /\ MaxRequirements \in Nat
  BY <1>0, GenerationAssumption DEF IInv, Typed, Placed, Filed, Added
<1>2. items' = Append(items, outcome) /\ items \in Seq(GeneratedOutcomes)
  BY DEF Return, IInv, Typed
<1>3. /\ Len(items') = cur /\ items'[cur] = outcome
      /\ items' \in Seq(GeneratedOutcomes)
      /\ \A i \in 1 .. (cur - 1) : items'[i] = items[i]
  BY <1>1, <1>2
<1>4. UNCHANGED <<executable, skip, disk, written, timeout, artifacts>>
  BY DEF Return, inputs
<1>5. \/ pc' = "done" /\ status' = "complete" /\ cur' = cur /\ LoopEnds(now')
      \/ pc' = "write" /\ cur' = cur + 1 /\ status' = status /\ cur # written
  BY DEF Return, LoopEnds
<1>6. Typed'
  <2>1. cur' \in 0 .. written
    BY <1>1, <1>5
  <2>2. now' \in Nat /\ ran' \in [Positions -> Seq(Run)]
    BY <1>0 DEF Added
  <2> QED
    BY <1>3, <1>4, <1>5, <2>1, <2>2 DEF IInv, Typed
<1>7. Placed'
  <2>1. ASSUME NEW i \in Positions, i > cur PROVE ran'[i] = <<>>
    <3>1. i # cur
      BY <1>1, <2>1, FileTypes
    <3> QED
      BY <1>0, <2>1, <3>1 DEF IInv, Placed, Added
  <2>2. ASSUME NEW i \in Positions PROVE Len(ran'[i]) <= 2
    <3>1. CASE i # cur
      BY <1>0, <3>1 DEF IInv, Placed, Added
    <3>2. CASE i = cur
      BY <1>0, <3>2 DEF Added
    <3> QED
      BY <3>1, <3>2
  <2>3. pc' = "write" => cur' \in 1 .. written' /\ written' = executable'
    BY <1>1, <1>4, <1>5
  <2>4. Len(items') <= cur' /\ (pc' = "write" => Len(items') = cur' - 1)
    BY <1>1, <1>3, <1>5
  <2>5. cur' >= cur /\ cur' \in Nat
    BY <1>1, <1>5
  <2>6. \A i \in Positions : i > cur' => ran'[i] = <<>>
    BY <1>0, <1>1, <2>1, <2>5 DEF Added, Positions
  <2>7. pc' = "write" => ran'[cur'] = <<>>
    BY <1>1, <1>4, <1>5, <2>1, <2>3 DEF Positions
  <2> QED
    BY <1>5, <2>2, <2>3, <2>4, <2>6, <2>7 DEF Placed
<1>8. Sourced'
  BY <1>5 DEF Sourced
<1>9. Filed'
  BY <1>1, <1>4, <1>5 DEF IInv, Filed
<1>10. RunsItsOwnSource'
  BY OwnSourceStep
<1>11. OutcomeEvidence'
  <2>1. ASSUME NEW i \in 1 .. (cur - 1) PROVE Codes(i)' = Codes(i)
    <3>1. i \in Positions \ {cur}
      BY <1>1, <2>1 DEF Positions
    <3>2. ran'[i] = ran[i]
      BY <1>0, <3>1 DEF Added
    <3> QED
      BY <3>2 DEF Codes
  <2>2. \A i \in 1 .. (cur - 1) : Justified(items[i], Codes(i))
    BY <1>1 DEF IInv, OutcomeEvidence
  <2>3. \A i \in 1 .. (cur - 1) : Justified(items'[i], Codes(i)')
    BY <1>3, <2>1, <2>2
  <2>4. Justified(items'[cur], [k \in 1 .. Len(ran'[cur]) |-> ran'[cur][k].code])
    BY <1>3
  <2>5. \A i \in 1 .. cur : i = cur \/ i \in 1 .. (cur - 1)
    BY <1>1
  <2> QED
    BY <1>3, <2>3, <2>4, <2>5 DEF OutcomeEvidence, Codes, Justified
<1>12. CompleteUnlessSpent'
  <2>1. status' = "complete" /\ pc' = "done" => LoopEnds(now') /\ cur' = cur
    BY <1>5
  <2>2. LoopEnds(now') => (cur < executable' => Expired(Budget, now'))
    BY <1>1, <1>4 DEF LoopEnds
  <2>3. items' # <<>> /\ artifacts' = 1 .. Len(items')
    BY <1>1, <1>3, <1>4
  <2> QED
    BY <1>3, <2>1, <2>2, <2>3 DEF CompleteUnlessSpent
<1> QED
  BY <1>6, <1>7, <1>8, <1>9, <1>10, <1>11, <1>12 DEF IInv

\* What the classification of a child says about how it ended.
LEMMA ClassifyMeans ==
  ASSUME NEW timedOut \in BOOLEAN, NEW code \in ExitStatus, NEW ended,
         ended = IF timedOut THEN TimedOut ELSE code,
         NEW outcome, outcome = ClassifyPytestExit(code, timedOut)
  PROVE  /\ outcome \in {"survived", "killed", "error", "no_tests", "timeout", "interrupted"}
         /\ outcome = "survived" => ended = PytestOk
         /\ outcome = "killed"   => ended = PytestTestsFailed
         /\ outcome = "no_tests" => ended = PytestNoTests
         /\ outcome = "timeout"  => ended = TimedOut
         /\ outcome \in {"error", "interrupted"} =>
              ended \notin {PytestOk, PytestTestsFailed, TimedOut}
<1>1. CASE timedOut
  BY <1>1 DEF ClassifyPytestExit
<1>2. CASE ~timedOut
  BY <1>2 DEF ClassifyPytestExit, ExitStatus, TimedOut, PytestOk, PytestTestsFailed,
              PytestInterrupted, PytestNoTests
<1> QED
  BY <1>1, <1>2

\* The first run either decides the outcome or asks for a replay.
LEMMA RunFirstInv ==
  ASSUME IInv, NEW timedOut \in BOOLEAN, NEW code \in ExitStatus, NEW d \in Nat,
         RunFirst(timedOut, code, d)
  PROVE  IInv'
<1> DEFINE ended == IF timedOut THEN TimedOut ELSE code
           outcome == ClassifyPytestExit(code, timedOut)
           codes == [k \in 1 .. Len(ran'[cur]) |-> ran'[cur][k].code]
<1>1. Child("first", timeout, timedOut, code, d)
  BY DEF RunFirst
<1>2. Added("first", timedOut, code)
  BY <1>1, ChildAdds
<1>3. Len(ran'[cur]) = 1 /\ ran'[cur][1].code = ended
  BY <1>2 DEF Added
<1>4. CASE outcome \in DOMAIN Decided
  <2>1. Return(Decided[outcome])
    BY <1>4 DEF RunFirst
  <2>2. codes = <<ended>>
    BY <1>3
  <2> HIDE DEF codes, ended
  <2>3. Justified(Decided[outcome], codes) /\ Decided[outcome] \in GeneratedOutcomes
    <3>1. outcome \in {"timeout", "survived", "error", "interrupted", "no_tests"}
      BY <1>4 DEF Decided
    <3>2. /\ outcome = "survived" => ended = PytestOk
          /\ outcome = "no_tests" => ended = PytestNoTests
          /\ outcome = "timeout"  => ended = TimedOut
          /\ outcome \in {"error", "interrupted"} =>
               ended \notin {PytestOk, PytestTestsFailed, TimedOut}
      BY ClassifyMeans DEF ended
    <3> HIDE DEF outcome
    <3>3. Len(codes) = 1 /\ codes[1] = ended
      BY <2>2
    <3> QED
      BY <2>2, <3>1, <3>2, <3>3 DEF Justified, Decided, GeneratedOutcomes
  <2> QED
    BY <1>1, <2>1, <2>3, ReturnInv DEF codes
<1>5. CASE outcome \notin DOMAIN Decided
  <2>1. /\ pc' = "replay"
        /\ UNCHANGED <<executable, status, disk, written, cur, timeout, items, artifacts>>
    BY <1>5 DEF RunFirst, inputs, outputs
  <2>2. ended = PytestTestsFailed
    BY <1>5, ClassifyMeans DEF Decided
  <2> HIDE DEF ended, codes, outcome
  <2>3. pc = "first" /\ Len(ran[cur]) = 0
    BY <1>2 DEF Added
  <2>4. Typed'
    BY <1>2, <2>1 DEF IInv, Typed, Added
  <2>5. Placed'
    <3>1. cur \in Nat
      BY <1>2, FileTypes DEF Added
    <3>2. ASSUME NEW i \in Positions, i > cur PROVE ran'[i] = <<>>
      <4>1. i # cur
        BY <3>1, <3>2, FileTypes
      <4> QED
        BY <1>2, <3>2, <4>1 DEF IInv, Placed, Added
    <3>3. ASSUME NEW i \in Positions PROVE Len(ran'[i]) <= 2
      <4>1. CASE i # cur
        BY <1>2, <4>1 DEF IInv, Placed, Added
      <4>2. Len(ran'[cur]) <= 2
        BY <1>3
      <4>3. CASE i = cur
        BY <4>2, <4>3
      <4> QED
        BY <4>1, <4>3
    <3> QED
      BY <1>3, <2>1, <2>2, <2>3, <3>2, <3>3 DEF IInv, Placed
  <2>6. Sourced' /\ Filed' /\ CompleteUnlessSpent'
    BY <2>1, <2>3 DEF IInv, Sourced, Filed, CompleteUnlessSpent
  <2>7. RunsItsOwnSource'
    BY <1>1, OwnSourceStep
  <2>8. OutcomeEvidence'
    <3>1. ASSUME NEW i \in 1 .. Len(items) PROVE Codes(i)' = Codes(i)
      <4>1. i \in Positions \ {cur}
        BY <2>3, FileTypes DEF IInv, Typed, Placed
      <4>2. ran'[i] = ran[i]
        BY <1>2, <4>1 DEF Added
      <4> QED
        BY <4>2 DEF Codes
    <3> QED
      BY <2>1, <3>1 DEF IInv, OutcomeEvidence, Justified
  <2> QED
    BY <2>4, <2>5, <2>6, <2>7, <2>8 DEF IInv
<1> QED
  BY <1>4, <1>5

\* The replay decides between a reproduced failure and a flaky test.
LEMMA RunReplayInv ==
  ASSUME IInv, NEW timedOut \in BOOLEAN, NEW code \in ExitStatus, NEW d \in Nat,
         RunReplay(timedOut, code, d)
  PROVE  IInv'
<1> DEFINE ended == IF timedOut THEN TimedOut ELSE code
           outcome == ClassifyPytestExit(code, timedOut)
           codes == [k \in 1 .. Len(ran'[cur]) |-> ran'[cur][k].code]
<1>1. Child("replay", ReplayTimeout, timedOut, code, d) /\ Return(Replayed(outcome))
  BY DEF RunReplay
<1>2. Added("replay", timedOut, code)
  BY <1>1, ChildAdds
<1>3. Len(ran'[cur]) = 2 /\ ran'[cur][1].code = PytestTestsFailed /\ ran'[cur][2].code = ended
  BY <1>2 DEF Added, IInv, Placed
<1>4. codes = <<PytestTestsFailed, ended>>
  BY <1>3
<1> HIDE DEF codes, ended
<1>5. /\ outcome \in {"survived", "killed", "error", "no_tests", "timeout", "interrupted"}
      /\ outcome = "survived" => ended = PytestOk
      /\ outcome = "killed"   => ended = PytestTestsFailed
      /\ outcome = "no_tests" => ended = PytestNoTests
      /\ outcome = "timeout"  => ended = TimedOut
      /\ outcome \in {"error", "interrupted"} =>
           ended \notin {PytestOk, PytestTestsFailed, TimedOut}
  BY ClassifyMeans DEF ended
<1> HIDE DEF outcome
<1>6. Len(codes) = 2 /\ codes[2] = ended
  BY <1>4
<1>7. PytestNoTests \notin {PytestOk, PytestTestsFailed, TimedOut}
  BY DEF PytestNoTests, PytestOk, PytestTestsFailed, TimedOut
<1>8. Justified(Replayed(outcome), codes) /\ Replayed(outcome) \in GeneratedOutcomes
  <2>1. CASE outcome \in {"survived", "timeout"}
    BY <1>4, <1>5, <2>1 DEF Justified, Replayed, GeneratedOutcomes
  <2>2. CASE outcome = "killed"
    BY <1>4, <1>5, <2>2 DEF Justified, Replayed, GeneratedOutcomes
  <2>3. CASE outcome \in {"error", "interrupted", "no_tests"}
    <3>1. Replayed(outcome) = "error"
      BY <2>3 DEF Replayed
    <3> QED
      BY <1>5, <1>6, <1>7, <2>3, <3>1 DEF Justified, GeneratedOutcomes
  <2> QED
    BY <1>5, <2>1, <2>2, <2>3
<1> QED
  BY <1>1, <1>8, ReturnInv DEF codes
-----------------------------------------------------------------------------
\* Every step of the stage keeps the invariant.
LEMMA StepInv == IInv /\ [Next]_vars => IInv'
<1> SUFFICES ASSUME IInv, [Next]_vars PROVE IInv'
  OBVIOUS
<1>1. CASE NotRequested
  BY <1>1, StopInv DEF NotRequested
<1>2. CASE SkipUnwanted \/ SkipDeadline \/ SkipNothing \/ SkipDependency
  BY <1>2, StopInv DEF SkipUnwanted, SkipDeadline, SkipNothing, SkipDependency
<1>3. CASE \E n \in 0 .. MaxRequirements, d \in 0 .. CompileTime : Compile(n, d)
  BY <1>3, CompileInv
<1>4. CASE WriteTest
  BY <1>4, WriteTestInv
<1>5. ASSUME NEW timedOut \in BOOLEAN, NEW d \in 0 .. StageTimeout + LeastTimeout + KillTime,
             Collect(timedOut, d)
      PROVE  IInv'
  BY <1>5, CollectInv
<1>6. ASSUME NEW timedOut \in BOOLEAN, NEW d \in 0 .. StageTimeout + LeastTimeout + KillTime,
             NEW code \in ExitStatus, RunFirst(timedOut, code, d) \/ RunReplay(timedOut, code, d)
      PROVE  IInv'
  BY <1>6, RunFirstInv, RunReplayInv
<1>7. CASE \E d \in 0 .. timeout + KillTime : RunRaises(d)
  BY <1>7, RunRaisesInv
<1>9. CASE HeldOpen
  BY <1>9, HeldOpenInv
<1>8. CASE UNCHANGED vars
  <2> USE <1>8 DEF vars, inputs, outputs
  <2>1. Typed' /\ Placed' /\ Sourced' /\ Filed' /\ CompleteUnlessSpent'
    BY DEF IInv, Typed, Placed, Sourced, Filed, CompleteUnlessSpent
  <2>2. RunsItsOwnSource' /\ OutcomeEvidence'
    BY EvidenceFrame DEF IInv
  <2> QED
    BY <2>1, <2>2 DEF IInv
<1> QED
  BY <1>1, <1>2, <1>3, <1>4, <1>5, <1>6, <1>7, <1>8, <1>9 DEF Next, Terminated

\* The inductive invariant holds throughout.
LEMMA Invariant == Spec => []IInv
<1>1. Init => IInv
  BY InitInv
<1>2. IInv /\ [Next]_vars => IInv'
  BY StepInv
<1> QED
  BY <1>1, <1>2, PTL DEF Spec

\* The variables keep their types for every number of requirements and every
\* sharing of files.
THEOREM TypeCorrect == Spec => []TypeOK
<1>1. IInv => TypeOK
  <2> SUFFICES ASSUME IInv PROVE TypeOK
    OBVIOUS
  <2>1. \A i \in Positions : Len(ran[i]) <= 2 /\ \A k \in 1 .. Len(ran[i]) : ran[i][k] \in Run
    BY DEF IInv, Typed, Placed
  <2>2. \A i \in 1 .. Len(items) : items[i] \in GeneratedOutcomes
    BY DEF IInv, Typed
  <2> QED
    BY <2>1, <2>2 DEF IInv, Typed, TypeOK
<1> QED
  BY <1>1, Invariant, PTL

\* Whatever files the requirements share and whatever compile_all left in
\* them, every pytest child runs the source its result is filed under.
THEOREM RunsOwnSource == Spec => []RunsItsOwnSource
<1>1. IInv => RunsItsOwnSource
  BY DEF IInv
<1> QED
  BY <1>1, Invariant, PTL

\* Every outcome is justified by what the children of the test returned; a
\* "failed" test failed twice.
THEOREM OutcomesHaveEvidence == Spec => []OutcomeEvidence
<1>1. IInv => OutcomeEvidence
  BY DEF IInv
<1> QED
  BY <1>1, Invariant, PTL

\* A complete stage left tests out only because the budget was spent.
THEOREM CompleteMeans == Spec => []CompleteUnlessSpent
<1>1. IInv => CompleteUnlessSpent
  BY DEF IInv
<1> QED
  BY <1>1, Invariant, PTL
-----------------------------------------------------------------------------
(* The budget.                                                             *)

\* How late each step of the loop can begin.  The first disjunct is a test that
\* began within the budget, the second one that began after a slow compile_all.
Timed ==
  /\ pc = "entry" => now <= Budget
  /\ pc = "write" => now <= Budget + CompileTime
  /\ pc = "collect" =>
       \/ now + timeout <= Budget
       \/ now <= Budget + CompileTime /\ timeout <= LeastTimeout
  /\ pc = "first" =>
       \/ now + timeout <= Budget + CollectTimeout + KillTime
       \/ /\ now <= Budget + CompileTime + CollectTimeout + KillTime
          /\ timeout <= LeastTimeout
  /\ pc = "replay" =>
       \/ now <= Budget + CollectTimeout + KillTime + KillTime
       \/ /\ now <= Budget + CompileTime + CollectTimeout + LeastTimeout + KillTime + KillTime
          /\ timeout <= LeastTimeout
  /\ OverrunBound

\* The timeout of a test ends within the budget, or is the least one.
LEMMA TestTimeoutBound ==
  ASSUME NEW t \in Nat
  PROVE  t + TestTimeout(t) <= Budget \/ TestTimeout(t) <= LeastTimeout
BY GenerationAssumption DEF TestTimeout, Clamp, Expired, Remaining

\* The timeout of the second run is at most that of the first.
LEMMA ReplayTimeoutBound ==
  ASSUME Typed
  PROVE  ReplayTimeout \in 0 .. timeout
BY GenerationAssumption DEF Typed, ReplayTimeout, RemainingOr, Clamp, Expired, Remaining

\* A child is over once its timeout and the time to kill it have passed.
LEMMA DurationBound ==
  ASSUME NEW limit \in Nat, NEW timedOut \in BOOLEAN, NEW d \in Durations(limit, timedOut)
  PROVE  d \in 0 .. limit + KillTime
BY GenerationAssumption DEF Durations

\* After a test the loop goes on only within the budget.
LEMMA ReturnTimed ==
  ASSUME NEW outcome, Return(outcome), now' \in Nat, OverrunBound'
  PROVE  Timed'
<1>1. pc' \in {"write", "done"} /\ (pc' = "write" => ~Expired(Budget, now'))
  BY DEF Return, LoopEnds
<1>2. pc' = "write" => now' < Budget
  BY <1>1, GenerationAssumption DEF Expired, Remaining
<1> QED
  BY <1>1, <1>2, GenerationAssumption DEF Timed

\* Every step keeps the time of its control point within its bound.
LEMMA TimedStep == Typed /\ Typed' /\ Timed /\ [Next]_vars => Timed'
<1> SUFFICES ASSUME Typed, Typed', Timed, [Next]_vars PROVE Timed'
  OBVIOUS
<1> USE GenerationAssumption
<1>1. now \in Nat /\ now' \in Nat /\ timeout \in 0 .. StageTimeout
  BY DEF Typed
<1>2. CASE NotRequested \/ SkipUnwanted \/ SkipDeadline \/ SkipNothing \/ SkipDependency
  BY <1>2 DEF NotRequested, SkipUnwanted, SkipDeadline, SkipNothing, SkipDependency, Stop,
              Timed, OverrunBound
<1>3. ASSUME NEW n \in 0 .. MaxRequirements, NEW d \in 0 .. CompileTime, Compile(n, d)
      PROVE  Timed'
  <2>1. now' = now + d /\ now <= Budget /\ pc' \in {"done", "write"}
    BY <1>3 DEF Compile, Timed
  <2> QED
    BY <1>1, <2>1 DEF Timed, OverrunBound
<1>4. CASE WriteTest
  <2>1. /\ pc' = "collect" /\ now' = now /\ timeout' = TestTimeout(now)
        /\ now <= Budget + CompileTime
    BY <1>4 DEF WriteTest, Timed
  <2>2. now + TestTimeout(now) <= Budget \/ TestTimeout(now) <= LeastTimeout
    BY <1>1, TestTimeoutBound
  <2>3. OverrunBound'
    BY <2>1 DEF Timed, OverrunBound
  <2> QED
    BY <2>1, <2>2, <2>3 DEF Timed
<1>5. ASSUME NEW timedOut \in BOOLEAN, NEW d \in Nat, Collect(timedOut, d)
      PROVE  Timed'
  <2> DEFINE limit == IF CollectTimeout < timeout THEN CollectTimeout ELSE timeout
  <2>1. /\ pc = "collect" /\ pc' = "first" /\ now' = now + d /\ timeout' = timeout
        /\ d \in Durations(limit, timedOut)
    BY <1>5 DEF Collect
  <2>2. limit \in Nat /\ limit <= CollectTimeout
    BY <1>1
  <2> HIDE DEF limit
  <2>3. d <= CollectTimeout + KillTime
    BY <2>1, <2>2, DurationBound
  <2> QED
    BY <1>1, <2>1, <2>3 DEF Timed, OverrunBound
<1>6. ASSUME NEW timedOut \in BOOLEAN, NEW code \in ExitStatus, NEW d \in Nat,
             RunFirst(timedOut, code, d)
      PROVE  Timed'
  <2>1. pc = "first" /\ now' = now + d /\ d \in Durations(timeout, timedOut)
    BY <1>6 DEF RunFirst, Child
  <2>2. d <= timeout + KillTime
    BY <1>1, <2>1, DurationBound
  <2>3. \/ now' <= Budget + CollectTimeout + KillTime + KillTime
        \/ /\ now' <= Budget + CompileTime + CollectTimeout + LeastTimeout + KillTime + KillTime
           /\ timeout <= LeastTimeout
    BY <1>1, <2>1, <2>2 DEF Timed
  <2>4. OverrunBound'
    BY <1>1, <2>3 DEF OverrunBound
  <2>5. \/ \E outcome : Return(outcome)
        \/ pc' = "replay" /\ timeout' = timeout
    BY <1>6 DEF RunFirst
  <2> QED
    BY <1>1, <2>3, <2>4, <2>5, ReturnTimed DEF Timed
<1>7. ASSUME NEW timedOut \in BOOLEAN, NEW code \in ExitStatus, NEW d \in Nat,
             RunReplay(timedOut, code, d)
      PROVE  Timed'
  <2>1. /\ pc = "replay" /\ now' = now + d /\ d \in Durations(ReplayTimeout, timedOut)
        /\ \E outcome : Return(outcome)
    BY <1>7 DEF RunReplay, Child
  <2>2. d <= timeout + KillTime
    BY <1>1, <2>1, ReplayTimeoutBound, DurationBound
  <2>3. OverrunBound'
    BY <1>1, <2>1, <2>2 DEF Timed, OverrunBound
  <2> QED
    BY <1>1, <2>1, <2>3, ReturnTimed
<1>8. ASSUME NEW d \in 0 .. timeout + KillTime, RunRaises(d)
      PROVE  Timed'
  <2>1. pc \in {"collect", "first", "replay"} /\ now' = now + d /\ pc' = "raised"
    BY <1>8 DEF RunRaises
  <2>2. OverrunBound'
    BY <1>1, <2>1 DEF Timed, OverrunBound
  <2> QED
    BY <2>1, <2>2 DEF Timed
<1>9. CASE UNCHANGED vars
  BY <1>9 DEF vars, Timed, OverrunBound
<1>11. CASE HeldOpen
  BY <1>11 DEF HeldOpen, Timed, OverrunBound
<1>10. 0 .. StageTimeout + LeastTimeout + KillTime \subseteq Nat
  OBVIOUS
<1> QED
  BY <1>2, <1>3, <1>4, <1>5, <1>6, <1>7, <1>8, <1>9, <1>10, <1>11
  DEF Next, Terminated

\* The stage overruns the shared budget by at most a slow compilation, one
\* collection and two runs of a test, for every budget and timeout.
THEOREM OverrunIsBounded == Spec => []OverrunBound
<1>1. Init => Timed
  BY GenerationAssumption DEF Init, Timed, OverrunBound
<1>2. IInv => Typed
  BY DEF IInv
<1>3. Timed => OverrunBound
  BY DEF Timed
<1> QED
  BY <1>1, <1>2, <1>3, Invariant, TimedStep, PTL DEF Spec

\* Only the first test can start after the budget is spent.
THEOREM LaterTestsInTime == Spec => NoLaterTestStartsLate
<1>1. Typed /\ [Next]_vars => [cur' > 1 /\ cur' # cur => ~Expired(Budget, now')]_vars
  <2> SUFFICES ASSUME Typed, Next, cur' > 1, cur' # cur PROVE ~Expired(Budget, now')
    BY DEF NoLaterTestStartsLate
  <2>1. CASE \E n \in 0 .. MaxRequirements, d \in 0 .. CompileTime : Compile(n, d)
    BY <2>1 DEF Compile
  <2>2. CASE \E outcome : Return(outcome)
    BY <2>2 DEF Return, LoopEnds
  <2>3. CASE cur' = cur
    BY <2>3
  <2> QED
    BY <2>1, <2>2, <2>3 DEF Next, NotRequested, SkipUnwanted, SkipDeadline, SkipNothing,
       SkipDependency, Stop, WriteTest, Collect, RunFirst, RunReplay, RunRaises, HeldOpen, Terminated, vars
<1>2. IInv => Typed
  BY DEF IInv
<1> QED
  BY <1>1, <1>2, Invariant, PTL DEF Spec, NoLaterTestStartsLate
=============================================================================
