------------------------- MODULE BoundedChildProofs -------------------------
(***************************************************************************)
(* Proofs about BoundedChild: for any number of calls, descendants and     *)
(* signals, which process groups can be alive when VerifyPatch is gone.    *)
(***************************************************************************)
EXTENDS BoundedChild, TLAPS

\* A call is over when run_bounded returned or raised by itself.
Over == {"returned", "timed_out", "raised"}

\* The main thread is between the registration and the end of run_bounded.
Within == {"registered", "wait", "grace", "drain", "finally"}

\* The calls made so far, and no others, left traces.
Calling ==
  /\ pc \notin {"idle", "exiting", "gone"} => call # 0
  /\ \A p \in born : p[1] <= call
  /\ \A c \in Calls : c > call => result[c] = "none"
  /\ pc \in {"spawned"} \cup Within => result[call] = "none"

\* Every call but the last is over, and so is the last one between calls.
Past ==
  /\ \A c \in Calls : c < call => result[c] \in Over
  /\ pc = "idle" /\ call # 0 => result[call] \in Over
  /\ \A c \in Calls : result[c] = "timed_out" => Group(c) = {}

\* What the registry knows: at most the current call, and nothing before the
\* registration.  A clean-up has killed what it has passed in its list.
Registered ==
  /\ registry \subseteq {call}
  /\ pc \in {"idle", "spawned"} => registry = {}
  /\ handler # "off" => \A c \in registry \ snapshot : Group(c) = {}
  /\ pc = "gone" => handler = "off"

\* While run_bounded runs, the group is registered or already dead, unless a
\* signal found it unprotected.
Tracked ==
  /\ pc = "spawned" /\ handler # "off" => call \in exposed
  /\ pc \in Within => call \in registry \/ Group(call) = {}
  /\ pc \in {"registered", "wait"} => call \in registry
  /\ pc = "drain" => Group(call) = {}
  /\ pc = "finally" /\ timedOut /\ raising = "no" => Group(call) = {}
  /\ pc = "finally" /\ raising = "exit" => Group(call) = {} \/ call \in exposed
  /\ pc \in {"spawned", "registered", "wait", "drain"} => raising = "no"
  /\ pc \in {"spawned", "registered", "wait"} => ~timedOut
  /\ pc = "grace" => raising = "exit" \/ (raising = "no" /\ timedOut)
  /\ pc \in {"exiting", "gone"} /\ call # 0 =>
       \/ Group(call) = {} \/ call \in exposed
       \/ result[call] \in {"returned", "raised"}
       \/ pc = "exiting" /\ call \in registry

IInv == TypeOK /\ Calling /\ Past /\ Registered /\ Tracked
-----------------------------------------------------------------------------
\* What the processes of the repository do touches nothing of VerifyPatch,
\* starts only members of calls that have members, and never puts a process
\* into a group that has none.
LEMMA DescendantsSteps ==
  ASSUME TypeOK, Descendants
  PROVE  /\ UNCHANGED <<mainVars, registry, handlerVars, signalVars>>
         /\ born' \subseteq Procs /\ alive' \subseteq born'
         /\ escaped' \subseteq born' /\ holds' \subseteq born'
         /\ \A q \in born' : \E p \in born : p[1] = q[1]
         /\ \A c \in Calls : Group(c) = {} => Group(c)' = {}
<1> USE DEF TypeOK, Group
<1>1. ASSUME NEW p \in Procs, End(p) \/ Escape(p) \/ CloseOutput(p)
      PROVE  /\ UNCHANGED <<mainVars, registry, handlerVars, signalVars, born>>
             /\ alive' \subseteq alive /\ escaped \subseteq escaped'
             /\ escaped' \subseteq born /\ holds' \subseteq holds
  BY <1>1 DEF End, Escape, CloseOutput
<1>2. ASSUME NEW p \in Procs, NEW k \in 1 .. NumDescendants, NEW inherit \in BOOLEAN,
             Fork(p, k, inherit)
      PROVE  /\ UNCHANGED <<mainVars, registry, handlerVars, signalVars>>
             /\ born' = born \cup {<<p[1], k>>} /\ alive' = alive \cup {<<p[1], k>>}
             /\ p \in alive /\ <<p[1], k>> \in Procs
             /\ escaped \subseteq escaped' /\ escaped' \subseteq born'
             /\ p \in escaped => <<p[1], k>> \in escaped'
             /\ holds' \subseteq born'
  BY <1>2, BoundedChildAssumption DEF Fork, Procs
<1>3. ASSUME NEW p \in Procs, End(p) \/ Escape(p) \/ CloseOutput(p)
      PROVE  /\ \A c \in Calls : Group(c)' \subseteq Group(c)
             /\ \A q \in born' : \E r \in born : r[1] = q[1]
  BY <1>1, <1>3
<1>4. ASSUME NEW p \in Procs, NEW k \in 1 .. NumDescendants, NEW inherit \in BOOLEAN,
             Fork(p, k, inherit)
      PROVE  /\ \A c \in Calls : Group(c) = {} => Group(c)' = {}
             /\ \A q \in born' : \E r \in born : r[1] = q[1]
  <2>1. /\ p \in born /\ <<p[1], k>>[1] = p[1]
        /\ born' = born \cup {<<p[1], k>>} /\ alive' = alive \cup {<<p[1], k>>}
        /\ p \in alive
        /\ p \in escaped => <<p[1], k>> \in escaped'
        /\ escaped \subseteq escaped'
    BY <1>2, <1>4
  <2>2. \A q \in born' : \E r \in born : r[1] = q[1]
    BY <2>1
  <2>3. ASSUME NEW c \in Calls, NEW q \in Group(c)'
        PROVE  Group(c) # {}
    <3>1. CASE q = <<p[1], k>>
      BY <2>1, <2>3, <3>1
    <3>2. CASE q # <<p[1], k>>
      BY <2>1, <2>3, <3>2
    <3>3. QED
      BY <3>1, <3>2
  <2>4. QED
    BY <2>2, <2>3
<1>5. QED
  <2>1. CASE \E p \in Procs : End(p) \/ Escape(p) \/ CloseOutput(p)
    BY <1>1, <1>3, <2>1
  <2>2. CASE \E p \in Procs, k \in 1 .. NumDescendants, inherit \in BOOLEAN :
               Fork(p, k, inherit)
    <3>1. PICK p \in Procs, k \in 1 .. NumDescendants, inherit \in BOOLEAN :
                 Fork(p, k, inherit)
      BY <2>2
    <3>2. /\ UNCHANGED <<mainVars, registry, handlerVars, signalVars>>
          /\ born' = born \cup {<<p[1], k>>} /\ alive' = alive \cup {<<p[1], k>>}
          /\ <<p[1], k>> \in Procs
          /\ escaped' \subseteq born' /\ holds' \subseteq born'
      BY <1>2, <3>1
    <3>3. /\ \A c \in Calls : Group(c) = {} => Group(c)' = {}
          /\ \A q \in born' : \E r \in born : r[1] = q[1]
      BY <1>4, <3>1
    <3>4. QED
      BY <3>2, <3>3
  <2>3. QED
    BY <2>1, <2>2 DEF Descendants

\* Every step preserves the types.
LEMMA TypeStep ==
  ASSUME TypeOK, Calling, [Next]_vars
  PROVE  TypeOK'
<1>0. pc \notin {"idle", "exiting", "gone"} => call \in Calls
  BY BoundedChildAssumption DEF TypeOK, Calling, Calls
<1> USE BoundedChildAssumption DEF TypeOK, Calls, Procs, Leader
<1>1. CASE Start
  <2>1. call' = call + 1 /\ call' \in Calls /\ Leader(call') \in Procs
    BY <1>1 DEF Start, Main
  <2>2. /\ born' \subseteq Procs /\ alive' \subseteq born'
        /\ escaped' \subseteq born' /\ holds' \subseteq born'
    <3> HIDE DEF Procs, Leader
    <3>1. QED
      BY <1>1, <2>1 DEF Start
  <2>3. /\ pc' = "spawned" /\ call' \in 0 .. NumCalls /\ raising' = "no"
        /\ timedOut' = FALSE
        /\ UNCHANGED <<result, registry, handler, snapshot, exposed, sigterms, interrupts>>
    <3> HIDE DEF Procs, Leader
    <3>1. QED
      BY <1>1, <2>1 DEF Start, Main, handlerVars, signalVars
  <2>4. QED
    <3> HIDE DEF Procs, Leader
    <3>1. QED
      BY <2>2, <2>3
<1>2. CASE Register
  BY <1>0, <1>2 DEF Register, Main, mainVars, handlerVars, procVars, signalVars
<1>3. CASE EnterTry
  BY <1>3 DEF EnterTry, Main, mainVars, handlerVars, procVars, signalVars
<1>4. CASE Collect
  BY <1>4 DEF Collect, Main, Collected, mainVars, handlerVars, procVars, signalVars
<1>5. CASE Expire
  BY <1>5 DEF Expire, Main, mainVars, handlerVars, procVars, signalVars
<1>6. CASE Escalate
  BY <1>6 DEF Escalate, Main, KillGroup, mainVars, handlerVars, procVars, signalVars
<1>7. CASE Unregister
  BY <1>7 DEF Unregister, Main, Outcome, mainVars, handlerVars, procVars, signalVars
<1>8. CASE Finish
  BY <1>8 DEF Finish, Main, mainVars, handlerVars, procVars, signalVars
<1>9. CASE AtExit
  BY <1>9 DEF AtExit, Main, mainVars, handlerVars, procVars, signalVars
<1>10. CASE CleanDone
  BY <1>10 DEF CleanDone, Raise, mainVars, handlerVars, procVars, signalVars
<1>11. CASE Sigterm
  BY <1>0, <1>11 DEF Sigterm, mainVars, handlerVars, procVars, signalVars
<1>12. CASE Interrupt
  BY <1>0, <1>12 DEF Interrupt, Raise, mainVars, handlerVars, procVars, signalVars
<1>13. ASSUME NEW c \in Calls, CleanNext(c) PROVE TypeOK'
  BY <1>13 DEF CleanNext, mainVars, handlerVars, procVars, signalVars
<1>14. ASSUME NEW c \in Calls, CleanKill(c) PROVE TypeOK'
  BY <1>14 DEF CleanKill, KillGroup, mainVars, handlerVars, procVars, signalVars
<1>15. CASE Descendants
  BY <1>15, DescendantsSteps DEF mainVars, handlerVars, procVars, signalVars
<1>16. CASE UNCHANGED vars
  BY <1>16 DEF vars, mainVars, handlerVars, procVars, signalVars
<1>17. QED
  BY <1>1, <1>2, <1>3, <1>4, <1>5, <1>6, <1>7, <1>8, <1>9, <1>10, <1>11, <1>12, <1>13, <1>14, <1>15, <1>16 DEF Next, Program

\* Every step leaves the calls that were not made yet untouched.
LEMMA CallingStep ==
  ASSUME TypeOK, Calling, [Next]_vars
  PROVE  Calling'
<1>0. pc \notin {"idle", "exiting", "gone"} => call \in Calls
  BY BoundedChildAssumption DEF TypeOK, Calling, Calls
<1> USE DEF TypeOK, Calling, Calls, Procs, Leader, Within
<1>1. CASE Start
  <2>1. /\ call' = call + 1 /\ Leader(call')[1] = call'
        /\ born' = born \cup {Leader(call')} /\ pc' = "spawned"
        /\ result' = result /\ call \in Nat
    BY <1>1 DEF Start, Main
  <2>2. \A p \in born' : p[1] <= call'
    <3> HIDE DEF Procs, Leader
    <3>1. \A p \in born : p[1] \in Nat
      BY DEF Procs
    <3>2. \A p \in born : p[1] <= call + 1
      BY <2>1, <3>1
    <3>3. QED
      BY <2>1, <3>2
  <2>3. \A c \in Calls : c > call' => result'[c] = "none"
    BY <2>1
  <2>4. result'[call'] = "none"
    BY <1>1, <2>1, BoundedChildAssumption DEF Start
  <2>5. QED
    BY <2>1, <2>2, <2>3, <2>4
<1>2. CASE Register
  BY <1>2, <1>0 DEF Register, Main, mainVars, handlerVars, procVars, signalVars
<1>3. CASE EnterTry
  BY <1>3, <1>0 DEF EnterTry, Main, mainVars, handlerVars, procVars, signalVars
<1>4. CASE Collect
  BY <1>4, <1>0 DEF Collect, Main, Collected, mainVars, handlerVars, procVars, signalVars
<1>5. CASE Expire
  BY <1>5, <1>0 DEF Expire, Main, mainVars, handlerVars, procVars, signalVars
<1>6. CASE Escalate
  BY <1>6, <1>0 DEF Escalate, Main, KillGroup, mainVars, handlerVars, procVars, signalVars
<1>7. CASE Unregister
  BY <1>7, <1>0 DEF Unregister, Main, Outcome, mainVars, handlerVars, procVars, signalVars
<1>8. CASE Finish
  BY <1>8, <1>0 DEF Finish, Main, mainVars, handlerVars, procVars, signalVars
<1>9. CASE AtExit
  BY <1>9, <1>0 DEF AtExit, Main, mainVars, handlerVars, procVars, signalVars
<1>10. CASE CleanDone
  BY <1>10, <1>0 DEF CleanDone, Raise, mainVars, handlerVars, procVars, signalVars
<1>11. CASE Sigterm
  BY <1>11, <1>0 DEF Sigterm, mainVars, handlerVars, procVars, signalVars
<1>12. CASE Interrupt
  BY <1>12, <1>0 DEF Interrupt, Raise, mainVars, handlerVars, procVars, signalVars
<1>13. ASSUME NEW c \in Calls, CleanNext(c) PROVE Calling'
  BY <1>13, <1>0 DEF CleanNext, mainVars, handlerVars, procVars, signalVars
<1>14. ASSUME NEW c \in Calls, CleanKill(c) PROVE Calling'
  BY <1>14, <1>0 DEF CleanKill, KillGroup, mainVars, handlerVars, procVars, signalVars
<1>15. CASE Descendants
  BY <1>15, DescendantsSteps, <1>0 DEF mainVars, handlerVars, procVars, signalVars
<1>16. CASE UNCHANGED vars
  BY <1>16, <1>0 DEF vars, mainVars, handlerVars, procVars, signalVars
<1>17. QED
  BY <1>1, <1>2, <1>3, <1>4, <1>5, <1>6, <1>7, <1>8, <1>9, <1>10, <1>11, <1>12, <1>13, <1>14, <1>15, <1>16 DEF Next, Program

\* No step puts a process into the group of a call already made once it is empty.
LEMMA GroupStaysEmpty ==
  ASSUME TypeOK, Calling, NEW d \in Calls, d <= call, Group(d) = {}, [Next]_vars
  PROVE  (Group(d) = {})'
<1>0. pc \notin {"idle", "exiting", "gone"} => call \in Calls
  BY BoundedChildAssumption DEF TypeOK, Calling, Calls
<1> USE DEF Group
<1>1. CASE Start
  <2>1. /\ alive' = alive \cup {Leader(call')} /\ escaped' = escaped
        /\ Leader(call')[1] # d
    BY <1>1 DEF Start, Leader, TypeOK, Calls
  <2>2. QED
    BY <2>1
<1>2. CASE Register
  BY <1>2, <1>0 DEF Register, Main, mainVars, handlerVars, procVars, signalVars
<1>3. CASE EnterTry
  BY <1>3, <1>0 DEF EnterTry, Main, mainVars, handlerVars, procVars, signalVars
<1>4. CASE Collect
  BY <1>4, <1>0 DEF Collect, Main, Collected, mainVars, handlerVars, procVars, signalVars
<1>5. CASE Expire
  BY <1>5, <1>0 DEF Expire, Main, mainVars, handlerVars, procVars, signalVars
<1>6. CASE Escalate
  BY <1>6, <1>0 DEF Escalate, Main, KillGroup, mainVars, handlerVars, procVars, signalVars
<1>7. CASE Unregister
  BY <1>7, <1>0 DEF Unregister, Main, Outcome, mainVars, handlerVars, procVars, signalVars
<1>8. CASE Finish
  BY <1>8, <1>0 DEF Finish, Main, mainVars, handlerVars, procVars, signalVars
<1>9. CASE AtExit
  BY <1>9, <1>0 DEF AtExit, Main, mainVars, handlerVars, procVars, signalVars
<1>10. CASE CleanDone
  BY <1>10, <1>0 DEF CleanDone, Raise, mainVars, handlerVars, procVars, signalVars
<1>11. CASE Sigterm
  BY <1>11, <1>0 DEF Sigterm, mainVars, handlerVars, procVars, signalVars
<1>12. CASE Interrupt
  BY <1>12, <1>0 DEF Interrupt, Raise, mainVars, handlerVars, procVars, signalVars
<1>13. ASSUME NEW c \in Calls, CleanNext(c) PROVE (Group(d) = {})'
  BY <1>13, <1>0 DEF CleanNext, mainVars, handlerVars, procVars, signalVars
<1>14. ASSUME NEW c \in Calls, CleanKill(c) PROVE (Group(d) = {})'
  BY <1>14, <1>0 DEF CleanKill, KillGroup, mainVars, handlerVars, procVars, signalVars
<1>15. CASE Descendants
  BY <1>15, DescendantsSteps, <1>0 DEF mainVars, handlerVars, procVars, signalVars
<1>16. CASE UNCHANGED vars
  BY <1>16, <1>0 DEF vars, mainVars, handlerVars, procVars, signalVars
<1>17. QED
  BY <1>1, <1>2, <1>3, <1>4, <1>5, <1>6, <1>7, <1>8, <1>9, <1>10, <1>11, <1>12, <1>13, <1>14, <1>15, <1>16 DEF Next, Program

\* Every step preserves what is known about the registry.
LEMMA RegisteredStep ==
  ASSUME TypeOK, Calling, Registered, [Next]_vars
  PROVE  Registered'
<1>0. pc \notin {"idle", "exiting", "gone"} => call \in Calls
  BY BoundedChildAssumption DEF TypeOK, Calling, Calls
<1> USE DEF TypeOK, Registered, Group
<1>1. CASE Start
  BY <1>1, <1>0 DEF Start, Main, mainVars, handlerVars, procVars, signalVars
<1>2. CASE Register
  BY <1>2, <1>0 DEF Register, Main, mainVars, handlerVars, procVars, signalVars
<1>3. CASE EnterTry
  BY <1>3, <1>0 DEF EnterTry, Main, mainVars, handlerVars, procVars, signalVars
<1>4. CASE Collect
  BY <1>4, <1>0 DEF Collect, Main, Collected, mainVars, handlerVars, procVars, signalVars
<1>5. CASE Expire
  BY <1>5, <1>0 DEF Expire, Main, mainVars, handlerVars, procVars, signalVars
<1>6. CASE Escalate
  BY <1>6, <1>0 DEF Escalate, Main, KillGroup, mainVars, handlerVars, procVars, signalVars
<1>7. CASE Unregister
  BY <1>7, <1>0 DEF Unregister, Main, Outcome, mainVars, handlerVars, procVars, signalVars
<1>8. CASE Finish
  BY <1>8, <1>0 DEF Finish, Main, mainVars, handlerVars, procVars, signalVars
<1>9. CASE AtExit
  BY <1>9, <1>0 DEF AtExit, Main, mainVars, handlerVars, procVars, signalVars
<1>10. CASE CleanDone
  BY <1>10, <1>0 DEF CleanDone, Raise, mainVars, handlerVars, procVars, signalVars
<1>11. CASE Sigterm
  BY <1>11, <1>0 DEF Sigterm, mainVars, handlerVars, procVars, signalVars
<1>12. CASE Interrupt
  BY <1>12, <1>0 DEF Interrupt, Raise, mainVars, handlerVars, procVars, signalVars
<1>13. ASSUME NEW c \in Calls, CleanNext(c) PROVE Registered'
  BY <1>13, <1>0 DEF CleanNext, mainVars, handlerVars, procVars, signalVars
<1>14. ASSUME NEW c \in Calls, CleanKill(c) PROVE Registered'
  BY <1>14, <1>0 DEF CleanKill, KillGroup, mainVars, handlerVars, procVars, signalVars
<1>15. CASE Descendants
  BY <1>15, DescendantsSteps, <1>0 DEF mainVars, handlerVars, procVars, signalVars
<1>16. CASE UNCHANGED vars
  BY <1>16, <1>0 DEF vars, mainVars, handlerVars, procVars, signalVars
<1>17. QED
  BY <1>1, <1>2, <1>3, <1>4, <1>5, <1>6, <1>7, <1>8, <1>9, <1>10, <1>11, <1>12, <1>13, <1>14, <1>15, <1>16 DEF Next, Program

\* Every step leaves the calls that are over as they ended.
LEMMA PastStep ==
  ASSUME TypeOK, Calling, Registered, Tracked, Past, [Next]_vars
  PROVE  Past'
<1>0. /\ pc \notin {"idle", "exiting", "gone"} => call \in Calls
      /\ call \in 0 .. NumCalls
      /\ call # 0 => call \in Calls
  BY BoundedChildAssumption DEF TypeOK, Calling, Calls
<1>100. \A c \in Calls : c <= call /\ Group(c) = {} => Group(c)' = {}
  BY GroupStaysEmpty
<1> USE DEF TypeOK, Calling, Past, Tracked, Calls, Over, Within
<1>1. CASE Start
  BY <1>1, <1>0, <1>100 DEF Start, Main, mainVars, handlerVars, procVars, signalVars
<1>2. CASE Register
  BY <1>2, <1>0, <1>100 DEF Register, Main, mainVars, handlerVars, procVars, signalVars
<1>3. CASE EnterTry
  BY <1>3, <1>0, <1>100 DEF EnterTry, Main, mainVars, handlerVars, procVars, signalVars
<1>4. CASE Collect
  BY <1>4, <1>0, <1>100 DEF Collect, Main, Collected, mainVars, handlerVars, procVars, signalVars
<1>5. CASE Expire
  BY <1>5, <1>0, <1>100 DEF Expire, Main, mainVars, handlerVars, procVars, signalVars
<1>6. CASE Escalate
  BY <1>6, <1>0, <1>100 DEF Escalate, Main, KillGroup, mainVars, handlerVars, procVars, signalVars
<1>7. CASE Unregister
  BY <1>7, <1>0, <1>100 DEF Unregister, Main, Outcome, mainVars, handlerVars, procVars, signalVars
<1>8. CASE Finish
  BY <1>8, <1>0, <1>100 DEF Finish, Main, mainVars, handlerVars, procVars, signalVars
<1>9. CASE AtExit
  BY <1>9, <1>0, <1>100 DEF AtExit, Main, mainVars, handlerVars, procVars, signalVars
<1>10. CASE CleanDone
  BY <1>10, <1>0, <1>100 DEF CleanDone, Raise, mainVars, handlerVars, procVars, signalVars
<1>11. CASE Sigterm
  BY <1>11, <1>0, <1>100 DEF Sigterm, mainVars, handlerVars, procVars, signalVars
<1>12. CASE Interrupt
  BY <1>12, <1>0, <1>100 DEF Interrupt, Raise, mainVars, handlerVars, procVars, signalVars
<1>13. ASSUME NEW c \in Calls, CleanNext(c) PROVE Past'
  BY <1>13, <1>0, <1>100 DEF CleanNext, mainVars, handlerVars, procVars, signalVars
<1>14. ASSUME NEW c \in Calls, CleanKill(c) PROVE Past'
  BY <1>14, <1>0, <1>100 DEF CleanKill, KillGroup, mainVars, handlerVars, procVars, signalVars
<1>15. CASE Descendants
  BY <1>15, DescendantsSteps, <1>0, <1>100 DEF mainVars, handlerVars, procVars, signalVars
<1>16. CASE UNCHANGED vars
  BY <1>16, <1>0, <1>100 DEF vars, mainVars, handlerVars, procVars, signalVars
<1>17. QED
  BY <1>1, <1>2, <1>3, <1>4, <1>5, <1>6, <1>7, <1>8, <1>9, <1>10, <1>11, <1>12, <1>13, <1>14, <1>15, <1>16 DEF Next, Program

\* Every step keeps the current group within reach, or exposes the call.
LEMMA TrackedStep ==
  ASSUME TypeOK, Calling, Registered, Past, Tracked, [Next]_vars
  PROVE  Tracked'
<1>0. /\ pc \notin {"idle", "exiting", "gone"} => call \in Calls
      /\ call \in 0 .. NumCalls
      /\ call # 0 => call \in Calls
  BY BoundedChildAssumption DEF TypeOK, Calling, Calls
<1>100. \A c \in Calls : c <= call /\ Group(c) = {} => Group(c)' = {}
  BY GroupStaysEmpty
<1> USE DEF TypeOK, Calling, Registered, Past, Tracked, Calls, Over, Within
<1>1. CASE Start
  BY <1>1, <1>0, <1>100 DEF Start, Main, mainVars, handlerVars, procVars, signalVars
<1>2. CASE Register
  BY <1>2, <1>0, <1>100 DEF Register, Main, mainVars, handlerVars, procVars, signalVars
<1>3. CASE EnterTry
  BY <1>3, <1>0, <1>100 DEF EnterTry, Main, mainVars, handlerVars, procVars, signalVars
<1>4. CASE Collect
  BY <1>4, <1>0, <1>100 DEF Collect, Main, Collected, mainVars, handlerVars, procVars, signalVars
<1>5. CASE Expire
  BY <1>5, <1>0, <1>100 DEF Expire, Main, mainVars, handlerVars, procVars, signalVars
<1>6. CASE Escalate
  <2>1. Group(call)' = {}
    BY <1>6 DEF Escalate, KillGroup, Group
  <2>2. QED
    BY <1>6, <1>0, <2>1 DEF Escalate, Main, handlerVars, signalVars
<1>7. CASE Unregister
  BY <1>7, <1>0, <1>100 DEF Unregister, Main, Outcome, mainVars, handlerVars, procVars, signalVars
<1>8. CASE Finish
  BY <1>8, <1>0, <1>100 DEF Finish, Main, mainVars, handlerVars, procVars, signalVars
<1>9. CASE AtExit
  BY <1>9, <1>0, <1>100 DEF AtExit, Main, mainVars, handlerVars, procVars, signalVars
<1>10. CASE CleanDone
  BY <1>10, <1>0, <1>100 DEF CleanDone, Raise, mainVars, handlerVars, procVars, signalVars
<1>11. CASE Sigterm
  BY <1>11, <1>0, <1>100 DEF Sigterm, mainVars, handlerVars, procVars, signalVars
<1>12. CASE Interrupt
  BY <1>12, <1>0, <1>100 DEF Interrupt, Raise, mainVars, handlerVars, procVars, signalVars
<1>13. ASSUME NEW c \in Calls, CleanNext(c) PROVE Tracked'
  BY <1>13, <1>0, <1>100 DEF CleanNext, mainVars, handlerVars, procVars, signalVars
<1>14. ASSUME NEW c \in Calls, CleanKill(c) PROVE Tracked'
  BY <1>14, <1>0, <1>100 DEF CleanKill, KillGroup, mainVars, handlerVars, procVars, signalVars
<1>15. CASE Descendants
  <2>1. UNCHANGED <<mainVars, registry, handlerVars, signalVars>>
    BY <1>15, DescendantsSteps
  <2>2. call \in Calls /\ Group(call) = {} => Group(call)' = {}
    BY <1>100, <2>1, <1>0 DEF mainVars
  <2>3. QED
    BY <1>0, <2>1, <2>2 DEF mainVars, handlerVars, signalVars
<1>16. CASE UNCHANGED vars
  BY <1>16, <1>0, <1>100 DEF vars, mainVars, handlerVars, procVars, signalVars
<1>17. QED
  BY <1>1, <1>2, <1>3, <1>4, <1>5, <1>6, <1>7, <1>8, <1>9, <1>10, <1>11, <1>12, <1>13, <1>14, <1>15, <1>16 DEF Next, Program

\* The strengthened invariant is inductive.
LEMMA Inductive == IInv /\ [Next]_vars => IInv'
  BY TypeStep, CallingStep, RegisteredStep, PastStep, TrackedStep DEF IInv

\* It holds when the program starts.
LEMMA Initial == Init => IInv
<1> SUFFICES ASSUME Init PROVE IInv
  OBVIOUS
<1> USE BoundedChildAssumption DEF Init
<1>1. TypeOK
  <2>1. result \in [Calls -> {"none", "returned", "timed_out", "raised", "cut"}]
    OBVIOUS
  <2>2. /\ call \in 0 .. NumCalls /\ sigterms \in 0 .. MaxSigterm
        /\ interrupts \in 0 .. MaxInterrupt
    BY DEF BoundedChildAssumption
  <2>3. QED
    BY <2>1, <2>2 DEF TypeOK
<1>2. Calling
  BY DEF Calling, Within
<1>3. Past
  BY DEF Past, Calls
<1>4. Registered
  BY DEF Registered
<1>5. Tracked
  BY DEF Tracked, Within
<1>6. QED
  BY <1>1, <1>2, <1>3, <1>4, <1>5 DEF IInv

\* So it always holds.
LEMMA Invariant == Spec => []IInv
  BY Initial, Inductive, PTL DEF Spec

\* Type correctness.
THEOREM TypeCorrect == Spec => []TypeOK
  BY Invariant, PTL DEF IInv

\* A call that reports a timeout left no member of its group alive, for any
\* number of calls, descendants and signals.
THEOREM TimeoutKills == Spec => []TimeoutKillsGroup
<1>1. IInv => TimeoutKillsGroup
  BY DEF IInv, Past, TimeoutKillsGroup
<1>2. QED
  BY <1>1, Invariant, PTL

\* The registry is empty between calls and holds the group while its output
\* is collected.
THEOREM RegistryIsExact == Spec => []RegistryExact
<1>1. IInv => RegistryExact
  BY DEF IInv, Registered, Tracked, RegistryExact
<1>2. QED
  BY <1>1, Invariant, PTL

\* What outlives VerifyPatch, whatever signals it received: only what a
\* finished call left behind, and what a signal hit unprotected.
THEOREM SurvivorsExposed == Spec => []SurvivorsAreExposed
<1>1. IInv => SurvivorsAreExposed
  <2> SUFFICES ASSUME IInv, pc = "gone", NEW c \in Calls, Group(c) # {}
               PROVE  result[c] \in {"returned", "raised"} \/ c \in exposed
    BY DEF SurvivorsAreExposed
  <2> USE DEF IInv, TypeOK, Calls
  <2>1. c <= call
    <3>1. PICK p \in Group(c) : TRUE
      OBVIOUS
    <3>2. p \in born /\ p[1] = c
      BY DEF Group
    <3>3. QED
      BY <3>2 DEF Calling
  <2>2. CASE c = call
    BY <2>2, BoundedChildAssumption DEF Tracked
  <2>3. CASE c < call
    BY <2>3 DEF Past, Over
  <2>4. QED
    BY <2>1, <2>2, <2>3, BoundedChildAssumption
<1>2. QED
  BY <1>1, Invariant, PTL
=============================================================================
