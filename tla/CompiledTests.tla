--------------------------- MODULE CompiledTests ---------------------------
(***************************************************************************)
(* The property tests generated from requirements (generation/compiler.py):*)
(* which functions fail them, against which functions violate the          *)
(* requirement.                                                            *)
(*                                                                         *)
(* A function is [result, slow, loads]: what it returns or Raises for an   *)
(* input, the inputs for which it takes longer than the deadline of        *)
(* Hypothesis, and whether the test can load it.  Results are integers;    *)
(* inputs are integers, texts or dictionaries.                             *)
(*                                                                         *)
(* A requirement is [kind, inputs, min, max, texts, invalid, examples]:    *)
(* inputs are those its statement is about, which the parameters do not    *)
(* say; the other fields are parameters.  A bound may be Absent or Null,   *)
(* texts are those over the alphabet, Absent without one, and an example   *)
(* is [call, positional, expected]: the call it gives, the same without    *)
(* its keyword arguments, and the result, Absent if it gives none.         *)
(***************************************************************************)
EXTENDS Integers, Sequences

CONSTANTS
  Hundred, Thousand,  \* 100 and 1000, the largest integers that are drawn
  PlainTexts,         \* texts over a to z
  Dicts,              \* dictionaries from texts to integers
  Raises, Absent, NullValue

ASSUME CompiledTestsAssumption ==
  Hundred \in Nat /\ Thousand \in Nat /\ {Raises, Absent, NullValue} \cap Int = {}

Kinds == {"bounds", "charset", "round_trip", "idempotent", "monotonic", "non_negative",
          "schema_valid", "rejects_invalid", "examples"}

\* A call of the function; what it does not expect makes it raise.
Call(fn, value) == IF value \in DOMAIN fn.result THEN fn.result[value] ELSE Raises
-----------------------------------------------------------------------------
(* The compiled test.                                                      *)

\* An absent bound is invented, for what is drawn and for what is asserted.
Low(req)  == IF req.min = Absent THEN 0 ELSE req.min
High(req) == IF req.max = Absent THEN Hundred ELSE req.max

\* st.integers rejects an empty range, and a comparison with None raises.
NeverRuns(req) ==
  req.kind = "bounds" /\ (NullValue \in {req.min, req.max} \/ Low(req) > High(req))

\* What the strategy can draw: one value, but two for monotonic.  The bounds of
\* a result are those of the input, too.
Draws(req) ==
  CASE req.kind = "bounds"          -> {<<v>> : v \in Low(req)..High(req)}
    [] req.kind = "charset"         -> {<<t>> : t \in IF req.texts = Absent THEN PlainTexts ELSE req.texts}
    [] req.kind \in {"round_trip", "idempotent"} -> {<<v>> : v \in 0..Hundred}
    [] req.kind = "monotonic"       -> (0..Hundred) \X (0..Hundred)
    [] req.kind = "non_negative"    -> {<<v>> : v \in 0..Thousand}
    [] req.kind = "schema_valid"    -> {<<d>> : d \in Dicts}
    [] req.kind = "rejects_invalid" -> {<<v>> : v \in IF req.invalid = {} THEN {NullValue} ELSE req.invalid}
    [] req.kind = "examples"        -> {<<IF req.examples = <<>> THEN 0 ELSE req.examples[1].positional>>}

\* The inputs the test calls the function with.
Called(req, fn, draw) ==
  CASE req.kind = "monotonic" -> IF draw[1] > draw[2] THEN {} ELSE {draw[1], draw[2]}
    [] req.kind \in {"round_trip", "idempotent"} -> {draw[1], Call(fn, draw[1])}
    [] req.kind \notin {"monotonic", "round_trip", "idempotent"} -> {draw[1]}

\* Mutant: zero counts as negative.
RefutesStrictly(req, fn, draw) ==
  LET result == Call(fn, draw[1]) IN
  CASE req.kind = "bounds" -> result < Low(req) \/ result > High(req)
    [] req.kind \in {"round_trip", "idempotent"} -> Call(fn, result) # result
    [] req.kind = "monotonic" -> draw[1] <= draw[2] /\ result > Call(fn, draw[2])
    [] req.kind = "non_negative" -> result <= 0
    [] req.kind = "examples" ->
         req.examples # <<>> /\ req.examples[1].expected \notin {Absent, result}
    [] req.kind \in {"charset", "schema_valid"} -> FALSE

\* The assertion of _test_fn, when every call returns: round_trip has the one of
\* idempotent, and what charset and schema_valid return is not looked at.
Refutes(req, fn, draw) ==
  LET result == Call(fn, draw[1]) IN
  CASE req.kind = "bounds" -> result < Low(req) \/ result > High(req)
    [] req.kind \in {"round_trip", "idempotent"} -> Call(fn, result) # result
    [] req.kind = "monotonic" -> draw[1] <= draw[2] /\ result > Call(fn, draw[2])
    [] req.kind = "non_negative" -> result < 0
    [] req.kind = "examples" ->
         req.examples # <<>> /\ req.examples[1].expected \notin {Absent, result}
    [] req.kind \in {"charset", "schema_valid"} -> FALSE

\* An exception fails the test, but for rejects_invalid, whose handler catches
\* every one, the AssertionError for a value that is accepted included.
BodyFails(req, fn, draw) ==
  /\ req.kind # "rejects_invalid"
  /\ (\E v \in Called(req, fn, draw) : Call(fn, v) = Raises) \/ Refutes(req, fn, draw)

\* The deadline is for one draw, whatever the test finds.
TakesTooLong(req, fn, draw) == Called(req, fn, draw) \cap fn.slow # {}

\* import_module and getattr stand in front, outside of any try.
CanFail(req, fn) ==
  \/ ~fn.loads \/ NeverRuns(req)
  \/ \E draw \in Draws(req) : BodyFails(req, fn, draw) \/ TakesTooLong(req, fn, draw)
-----------------------------------------------------------------------------
(* The requirement.                                                        *)

Gives(bound) == bound \notin {Absent, NullValue}

\* What a requirement says, for the inputs it is about and with the parameters it
\* gives.  A round trip leads back to where it began.
Meets(req, fn) ==
  /\ req.kind \notin {"rejects_invalid", "examples"} => \A v \in req.inputs : Call(fn, v) # Raises
  /\ req.kind = "bounds" => \A v \in req.inputs :
       (Gives(req.min) => Call(fn, v) >= req.min) /\ (Gives(req.max) => Call(fn, v) <= req.max)
  /\ req.kind = "round_trip" => \A v \in req.inputs : Call(fn, Call(fn, v)) = v
  /\ req.kind = "idempotent" => \A v \in req.inputs : Call(fn, Call(fn, v)) = Call(fn, v)
  /\ req.kind = "monotonic" => \A v, w \in req.inputs : v <= w => Call(fn, v) <= Call(fn, w)
  /\ req.kind = "non_negative" => \A v \in req.inputs : Call(fn, v) >= 0
  /\ req.kind = "rejects_invalid" => \A v \in req.invalid : Call(fn, v) = Raises
  /\ req.kind = "examples" => \A i \in DOMAIN req.examples :
       LET result == Call(fn, req.examples[i].call)
       IN  result # Raises /\ req.examples[i].expected \in {Absent, result}

\* The test tries what the requirement does not speak of: inputs it is not
\* about, bounds or an example it does not give, a call without its keywords.
Strays(req) ==
  \/ req.kind \notin {"rejects_invalid", "examples"} /\
       \E draw \in Draws(req) : \E i \in DOMAIN draw : draw[i] \notin req.inputs
  \/ req.kind = "bounds" /\ ~(Gives(req.min) /\ Gives(req.max))
  \/ req.kind = "examples" /\
       (req.examples = <<>> \/ req.examples[1].positional # req.examples[1].call)
=============================================================================
