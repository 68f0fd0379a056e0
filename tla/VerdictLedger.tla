---------------------------- MODULE VerdictLedger ----------------------------
(***************************************************************************)
(* What the mutation stage promises to its caller, without tests, copies   *)
(* or a clock: a set of items is opened, each gets one final verdict, and  *)
(* once an item is given up for lack of time no later item is examined.    *)
(* The ledger is published with every item decided, or abandoned whole, or *)
(* stuck for good at an item that is being examined.                       *)
(***************************************************************************)
CONSTANTS Items, Examined, Undecided

VARIABLES phase, pending, verdict

vars == <<phase, pending, verdict>>

GivenUp == \E i \in Items : verdict[i] = "not_run"

Init ==
  /\ phase = "idle"
  /\ pending = {}
  /\ verdict = [i \in Items |-> Undecided]

Open(items) ==
  /\ phase = "idle"
  /\ phase' = "open" /\ pending' = items
  /\ UNCHANGED verdict

Settle(i, v) ==
  /\ phase = "open" /\ i \in pending
  /\ pending' = pending \ {i}
  /\ verdict' = [verdict EXCEPT ![i] = v]
  /\ UNCHANGED phase

Examine(i, v) == v \in Examined /\ ~GivenUp /\ Settle(i, v)
Exclude(i) == Settle(i, "excluded")
GiveUp(i) == Settle(i, "not_run")

Publish ==
  /\ phase \in {"idle", "open"} /\ pending = {}
  /\ phase' = "published"
  /\ UNCHANGED <<pending, verdict>>

Abandon ==
  /\ phase = "open"
  /\ phase' = "abandoned"
  /\ UNCHANGED <<pending, verdict>>

Stall ==
  /\ phase = "open" /\ pending # {}
  /\ phase' = "stuck"
  /\ UNCHANGED <<pending, verdict>>

Next ==
  \/ \E items \in SUBSET Items : Open(items)
  \/ \E i \in Items :
       (\E v \in Examined : Examine(i, v)) \/ Exclude(i) \/ GiveUp(i)
  \/ Publish \/ Abandon \/ Stall

\* What the ledger never does, without the promise that it ends.
Safe == Init /\ [][Next]_vars

Spec == Safe /\ <>(phase \in {"published", "abandoned", "stuck"})
=============================================================================
