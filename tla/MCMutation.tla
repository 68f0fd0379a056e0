---------------------------- MODULE MCMutation ----------------------------
(* A small instance of Mutation: five specs, of which 1 and 4 share an     *)
(* identity and 5 is not on a changed line; a cap of two, so that it bites *)
(* when a, b and c are all listed; and a budget one mutant can overrun.    *)
EXTENDS Mutation

MCIdOf == <<"b", "a", "c", "b", "d">>
MCIdOf4 == <<"b", "a", "c", "b">>
MCRank == [a |-> 3, b |-> 1, c |-> 2, d |-> 4]
MCExclude == {"c"}
MCChanged == 1 .. 4
=============================================================================
