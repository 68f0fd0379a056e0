--------------------------- MODULE MCGeneration ---------------------------
(* Three requirements, the first and the last of which share a file (their *)
(* ids are "a-b" and "a_b"), and a budget that one test can use up.        *)
EXTENDS Generation

MCFileOf == <<"a_b", "c", "a_b">>
=============================================================================
