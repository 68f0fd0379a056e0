---------------------------- MODULE BoundedChild ----------------------------
(***************************************************************************)
(* Child processes with a time limit: run_bounded of deadlines.py, the     *)
(* registry of process groups and the SIGTERM and exit handlers of         *)
(* cleanup.py.                                                             *)
(*                                                                         *)
(* Everything in VerifyPatch that runs code of the repository under test   *)
(* goes through run_bounded: it starts a child in a session of its own,    *)
(* registers the process group, and collects the output until the pipes    *)
(* close and the child ends, or the timeout expires.  Python runs signal   *)
(* handlers in the main thread between any two of its steps: SIGTERM runs  *)
(* the registered clean-up and raises SystemExit where the main thread     *)
(* was; Ctrl-C raises KeyboardInterrupt there.                             *)
(*                                                                         *)
(* A process is <<c, k>>: a descendant of call c, whose child is <<c, 0>>. *)
(* Any process may end, fork, leave the group with setsid or close its     *)
(* output at any time; SIGTERM to a group is therefore a step without a    *)
(* certain effect (members may ignore it), and SIGKILL ends every member.  *)
(* Calls are sequential: VerifyPatch has one thread.  Process ids are not  *)
(* reused.                                                                 *)
(***************************************************************************)
EXTENDS Naturals, FiniteSets

CONSTANTS
  NumCalls,       \* bound on the calls of run_bounded in one execution
  NumDescendants, \* bound on the processes a child starts
  MaxSigterm,     \* bound on the SIGTERMs VerifyPatch receives
  MaxInterrupt    \* bound on the Ctrl-Cs it receives

ASSUME BoundedChildAssumption ==
  /\ NumCalls \in Nat /\ NumDescendants \in Nat
  /\ MaxSigterm \in Nat /\ MaxInterrupt \in Nat

Calls == 1 .. NumCalls
Procs == Calls \X (0 .. NumDescendants)
Leader(c) == <<c, 0>>

VARIABLES
  pc,         \* where the main thread is, below any handler
  call,       \* the current or last call, 0 before the first
  raising,    \* what run_bounded is about to raise: "no", "error", "exit"
  timedOut,   \* the timed_out of the current call
  registry,   \* _PROCESS_GROUPS
  handler,    \* where cleanup_registered is: "off", "next", "kill"
  snapshot,   \* list(_PROCESS_GROUPS) it iterates over, still to do
  born,       \* processes that were started
  alive,      \* processes that have not ended
  escaped,    \* processes that left the group of their call
  holds,      \* processes that hold the output pipes of their call
  result,     \* how each call ended
  exposed,    \* calls a signal hit while nothing could kill their group
  sigterms,   \* SIGTERMs received
  interrupts  \* Ctrl-Cs received

mainVars == <<pc, call, raising, timedOut, result>>
handlerVars == <<handler, snapshot>>
procVars == <<born, alive, escaped, holds>>
signalVars == <<exposed, sigterms, interrupts>>
vars == <<mainVars, registry, handlerVars, procVars, signalVars>>

\* The members of the process group that run_bounded made for call c.
Group(c) == {p \in alive \ escaped : p[1] = c}

\* communicate() returns when both pipes are at their end and the child is dead.
Collected(c) == Leader(c) \notin alive /\ \A p \in alive \cap holds : p[1] # c

\* Mutant: SIGKILL is sent only while the session leader lives.
KillIfLeaderLives(c) ==
  alive' = IF Leader(c) \in alive THEN alive \ Group(c) ELSE alive

\* The end of terminate_process_group: the grace period is over, SIGKILL.
KillGroup(c) == alive' = alive \ Group(c)
-----------------------------------------------------------------------------
Init ==
  /\ pc = "idle" /\ call = 0 /\ raising = "no" /\ timedOut = FALSE
  /\ result = [c \in Calls |-> "none"]
  /\ registry = {}
  /\ handler = "off" /\ snapshot = {}
  /\ born = {} /\ alive = {} /\ escaped = {} /\ holds = {}
  /\ exposed = {} /\ sigterms = 0 /\ interrupts = 0

\* The main thread runs only when no handler is above it.
Main(at) == handler = "off" /\ pc = at

\* subprocess.Popen(..., start_new_session=True): the child runs.
Start ==
  /\ Main("idle") /\ call < NumCalls
  /\ call' = call + 1 /\ pc' = "spawned"
  /\ raising' = "no" /\ timedOut' = FALSE
  /\ born' = born \cup {Leader(call')}
  /\ alive' = alive \cup {Leader(call')}
  /\ holds' = holds \cup {Leader(call')}
  /\ UNCHANGED <<result, registry, handlerVars, escaped, signalVars>>

Register ==
  /\ Main("spawned")
  /\ registry' = registry \cup {call}
  /\ pc' = "registered"
  /\ UNCHANGED <<call, raising, timedOut, result, handlerVars, procVars, signalVars>>

EnterTry ==
  /\ Main("registered")
  /\ pc' = "wait"
  /\ UNCHANGED <<call, raising, timedOut, result, registry, handlerVars, procVars, signalVars>>

\* communicate() has everything; decoding the output may raise.
Collect ==
  /\ Main("wait") \/ Main("drain")
  /\ Collected(call)
  /\ pc' = "finally"
  /\ raising' \in {"no", "error"}
  /\ UNCHANGED <<call, timedOut, result, registry, handlerVars, procVars, signalVars>>

\* TimeoutExpired: SIGTERM to the group, and the grace period begins.
Expire ==
  /\ Main("wait")
  /\ timedOut' = TRUE
  /\ pc' = "grace"
  /\ UNCHANGED <<call, raising, result, registry, handlerVars, procVars, signalVars>>

\* The grace period ends.  After a timeout the rest of the output is read,
\* without a timeout; in the except clause the exception is raised again.
Escalate ==
  /\ Main("grace")
  /\ KillGroup(call)
  /\ pc' = IF raising = "exit" THEN "finally" ELSE "drain"
  /\ UNCHANGED <<call, raising, timedOut, result, registry, handlerVars,
                 born, escaped, holds, signalVars>>

Outcome == CASE raising = "exit"  -> "cut"
             [] raising = "error" -> "raised"
             [] OTHER -> IF timedOut THEN "timed_out" ELSE "returned"

\* Mutant: the group is unregistered only when nothing was raised.
UnregisterOnSuccess ==
  /\ Main("finally")
  /\ registry' = IF raising = "no" THEN registry \ {call} ELSE registry
  /\ pc' = IF raising = "exit" THEN "exiting" ELSE "idle"
  /\ result' = [result EXCEPT ![call] = Outcome]
  /\ UNCHANGED <<call, raising, timedOut, handlerVars, procVars, signalVars>>

\* The finally clause, and the return or the exception that follows it.
Unregister ==
  /\ Main("finally")
  /\ registry' = registry \ {call}
  /\ pc' = IF raising = "exit" THEN "exiting" ELSE "idle"
  /\ result' = [result EXCEPT ![call] = Outcome]
  /\ UNCHANGED <<call, raising, timedOut, handlerVars, procVars, signalVars>>

\* The program has nothing left to run and exits.
Finish ==
  /\ Main("idle")
  /\ pc' = "exiting"
  /\ UNCHANGED <<call, raising, timedOut, result, registry, handlerVars, procVars, signalVars>>
-----------------------------------------------------------------------------
(* Signals and the exit handler.                                           *)

\* An exception that ends the program is raised where the main thread is.
Raise ==
  /\ handler' = "off" /\ snapshot' = {}
  /\ pc' = CASE pc = "wait"                -> "grace"
             [] pc \in {"grace", "drain"} -> "finally"
             [] pc = "exiting"             -> "gone"
             [] OTHER                      -> "exiting"
  /\ raising' = IF pc \in {"wait", "grace", "drain"} THEN "exit" ELSE raising
  /\ UNCHANGED <<call, timedOut, result>>

\* SIGTERM: _handle starts cleanup_registered from its beginning, on top of
\* the main thread or of a clean-up that is running.  That one never resumes:
\* _handle ends by raising.
Sigterm ==
  /\ pc # "gone" /\ sigterms < MaxSigterm
  /\ sigterms' = sigterms + 1
  /\ exposed' = IF pc = "spawned" THEN exposed \cup {call} ELSE exposed
  /\ handler' = "next" /\ snapshot' = registry
  /\ UNCHANGED <<mainVars, registry, procVars, interrupts>>

\* Ctrl-C: KeyboardInterrupt is raised in the main thread, or in the handler
\* above it, whose exception then continues in the main thread.
Interrupt ==
  /\ pc # "gone" /\ interrupts < MaxInterrupt
  /\ interrupts' = interrupts + 1
  /\ exposed' = exposed \cup (IF pc \in {"spawned", "grace"} THEN {call}
                              ELSE IF pc = "exiting" THEN registry ELSE {})
  /\ Raise
  /\ UNCHANGED <<registry, procVars, sigterms>>

\* atexit.register(cleanup_registered).
AtExit ==
  /\ Main("exiting")
  /\ handler' = "next" /\ snapshot' = registry
  /\ UNCHANGED <<mainVars, registry, procVars, signalVars>>

\* SIGTERM to the next group of the list, and its grace period.
CleanNext(c) ==
  /\ handler = "next" /\ c \in snapshot
  /\ handler' = "kill"
  /\ UNCHANGED <<mainVars, registry, snapshot, procVars, signalVars>>

CleanKill(c) ==
  /\ handler = "kill" /\ c \in snapshot
  /\ KillGroup(c)
  /\ handler' = "next" /\ snapshot' = snapshot \ {c}
  /\ UNCHANGED <<mainVars, registry, born, escaped, holds, signalVars>>

\* The registry is cleared and, if this was the handler of a signal,
\* SystemExit is raised; at exit the interpreter ends either way.
CleanDone ==
  /\ handler = "next" /\ snapshot = {}
  /\ registry' = {}
  /\ Raise
  /\ UNCHANGED <<procVars, signalVars>>
-----------------------------------------------------------------------------
(* The processes of the repository under test.                             *)

End(p) ==
  /\ p \in alive
  /\ alive' = alive \ {p}
  /\ UNCHANGED <<mainVars, registry, handlerVars, born, escaped, holds, signalVars>>

\* A child is in the group of its parent and may inherit the output pipes.
Fork(p, k, inherit) ==
  LET q == <<p[1], k>>
  IN  /\ p \in alive /\ q \notin born
      /\ inherit => p \in holds
      /\ born' = born \cup {q} /\ alive' = alive \cup {q}
      /\ escaped' = IF p \in escaped THEN escaped \cup {q} ELSE escaped
      /\ holds' = IF inherit THEN holds \cup {q} ELSE holds
      /\ UNCHANGED <<mainVars, registry, handlerVars, signalVars>>

\* setsid, which the leader of a session cannot do.
Escape(p) ==
  /\ p \in alive /\ p \notin escaped /\ p # Leader(p[1])
  /\ escaped' = escaped \cup {p}
  /\ UNCHANGED <<mainVars, registry, handlerVars, born, alive, holds, signalVars>>

CloseOutput(p) ==
  /\ p \in alive \cap holds
  /\ holds' = holds \ {p}
  /\ UNCHANGED <<mainVars, registry, handlerVars, born, alive, escaped, signalVars>>

Descendants ==
  \E p \in Procs :
    \/ End(p) \/ Escape(p) \/ CloseOutput(p)
    \/ \E k \in 1 .. NumDescendants, inherit \in BOOLEAN : Fork(p, k, inherit)

Program ==
  \/ Start \/ Register \/ EnterTry \/ Collect \/ Expire \/ Escalate
  \/ Unregister \/ Finish \/ AtExit
  \/ \E c \in Calls : CleanNext(c) \/ CleanKill(c)
  \/ CleanDone

Next ==
  Program \/ Sigterm \/ Interrupt \/ Descendants \/ (pc = "gone" /\ UNCHANGED vars)

Spec == Init /\ [][Next]_vars

\* The one thread of the program keeps running and its clock keeps ticking, so
\* timeouts and grace periods end.  Nothing is assumed of the other processes.
FairSpec == Spec /\ WF_vars(Program)
-----------------------------------------------------------------------------
TypeOK ==
  /\ pc \in {"idle", "spawned", "registered", "wait", "grace", "drain",
             "finally", "exiting", "gone"}
  /\ call \in 0 .. NumCalls
  /\ raising \in {"no", "error", "exit"}
  /\ timedOut \in BOOLEAN
  /\ result \in [Calls -> {"none", "returned", "timed_out", "raised", "cut"}]
  /\ registry \subseteq Calls /\ snapshot \subseteq registry
  /\ handler \in {"off", "next", "kill"}
  /\ handler = "off" => snapshot = {}
  /\ born \subseteq Procs /\ alive \subseteq born
  /\ escaped \subseteq born /\ holds \subseteq born
  /\ exposed \subseteq Calls
  /\ sigterms \in 0 .. MaxSigterm /\ interrupts \in 0 .. MaxInterrupt

\* A call that reports a timeout has killed its whole group: no member is
\* alive from then on, not even one that ignores SIGTERM, was forked by a
\* member that is dead, or outlived the leader (_kill_process_group).
TimeoutKillsGroup ==
  \A c \in Calls : result[c] = "timed_out" => Group(c) = {}

\* When VerifyPatch is gone, a process of a group that run_bounded made is
\* alive only if its call was over by itself, or a signal hit the call between
\* Popen and the registration, or Ctrl-C cut a clean-up short.  Nested
\* SIGTERMs, and SIGTERMs during a kill, lose no group.
SurvivorsAreExposed ==
  pc = "gone" =>
    \A c \in Calls : Group(c) # {} => result[c] \in {"returned", "raised"} \/ c \in exposed

\* The registry holds nothing when no call is running and the program goes on,
\* so the clean-up never signals a process id that a finished call gave back;
\* and while output is collected the group is registered, so a SIGTERM
\* finds it.
RegistryExact ==
  /\ pc \in {"idle", "spawned"} => registry = {}
  /\ pc \in {"registered", "wait"} => registry = {call}
  /\ registry \subseteq {call}

\* The program ends, unless a process that left its group keeps the output of
\* a timed-out call open for ever (the known limitation of benchmarks.md).
CallsEnd ==
  LET held == \E p \in alive \cap escaped \cap holds : p[1] = call
  IN  <>(pc = "gone") \/ <>[]held
=============================================================================
