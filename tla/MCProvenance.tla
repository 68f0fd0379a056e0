--------------------------- MODULE MCProvenance ---------------------------
(* Instances of Provenance: a package with a test directory that has two   *)
(* sub-directories, nested conftest.py files, a helper, and a helper in    *)
(* the root that is configured as a test path.                             *)
EXTENDS Provenance

Mod      == <<"mod.py">>
TestA    == <<"tests", "a", "test_a.py">>
TestB    == <<"tests", "b", "test_b.py">>
ConfRoot == <<"conftest.py">>
ConfA    == <<"tests", "a", "conftest.py">>
ConfB    == <<"tests", "b", "conftest.py">>
HelpA    == <<"tests", "a", "help.py">>
HelpRoot == <<"help.py">>

MCTestNames == {"test_a.py", "test_b.py"}
MCTestRoots == {<<"tests">>, <<"help.py">>}
MCCollected == {TestA, TestB}
MCFiles == {Mod, TestA, TestB, ConfRoot, ConfA, HelpA, HelpRoot}
Same == {<<f, f>> : f \in MCFiles}

\* A move of a conftest.py from one directory to another.
RenameFiles == {Mod, TestA, ConfA, ConfB}
RenameSame == {<<f, f>> : f \in RenameFiles}
RenameCollected == {TestA}
=============================================================================
