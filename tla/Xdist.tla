------------------------------- MODULE Xdist -------------------------------
(***************************************************************************)
(* The refusal to run under pytest-xdist (xdist.py): tests in worker       *)
(* processes would lose the contexts that provenance rests on.  The        *)
(* options come from the environment, the files of pytest's configuration  *)
(* and the command line, and are scanned before anything is run.           *)
(*                                                                         *)
(* A token is an option with the value that is attached to it ("-n4",      *)
(* "--dist=no"), an option without one, or a word.  Of a value, only       *)
(* whether it is one of "0", "no", "false" and "off" matters.              *)
(***************************************************************************)
EXTENDS Naturals, Sequences, FiniteSets

Options == {"-n", "--numprocesses", "--dist", "--maxprocesses", "--max-worker-restart", "other"}

\* A token is [option, value]; option "word" is no option, and value "none" no
\* value.  Words are "off" or "on", and "xdist" and "no:xdist", the values of
\* "-p" that load and block the plugin.
Token == [option : Options \cup {"word"}, value : {"none", "off", "on", "xdist", "no:xdist"}]
IsWord(token) == token.option = "word"
-----------------------------------------------------------------------------
\* collect_pytest_addopts: PYTEST_ADDOPTS, pyproject.toml, then pytest.ini,
\* tox.ini and setup.cfg (here one file), then the command line.
CollectedOptions(config) == config.env \o config.pyproject \o config.ini \o config.args

\* The value of the option at i: attached, or the next word; "none" without.
ValueAt(tokens, i) ==
  IF tokens[i].value # "none" THEN tokens[i].value
  ELSE IF i + 1 \in DOMAIN tokens /\ IsWord(tokens[i + 1]) THEN tokens[i + 1].value
  ELSE "none"

\* The plugin is named as a word after "-p" or attached to it.
LoadsPlugin(token) == token.option \in {"word", "other"} /\ token.value = "xdist"

\* Mutant: "return False" for "-n 0" as well, where the code goes on.
AnswerFirst(tokens, i) ==
  LET option == tokens[i].option IN
  IF option \in {"-n", "--numprocesses", "--dist"}
  THEN IF ValueAt(tokens, i) = "off" THEN "false" ELSE "true"
  ELSE IF option \in {"--maxprocesses", "--max-worker-restart"} \/ LoadsPlugin(tokens[i])
       THEN "true" ELSE "on"

\* What _tokens_indicate_xdist does at token i: return True, return False, or
\* go on to the next one.  "--dist" is the one option that answers no.
Answer(tokens, i) ==
  LET option == tokens[i].option IN
  IF option \in {"-n", "--numprocesses"} THEN IF ValueAt(tokens, i) = "off" THEN "on" ELSE "true"
  ELSE IF option = "--dist" THEN IF ValueAt(tokens, i) = "off" THEN "false" ELSE "true"
  ELSE IF option \in {"--maxprocesses", "--max-worker-restart"} \/ LoadsPlugin(tokens[i])
       THEN "true" ELSE "on"

\* _tokens_indicate_xdist: the first answer counts.
IndicatesXdist(tokens) ==
  \E i \in DOMAIN tokens :
    /\ Answer(tokens, i) = "true"
    /\ \A j \in 1..(i - 1) : Answer(tokens, j) = "on"
-----------------------------------------------------------------------------
(* What pytest and its plugin do with the options.                         *)

\* pytest puts the configured options before those of the environment, and
\* those before the command line; of the two files it reads pytest.ini.
EffectiveOptions(config) ==
  (IF config.ini # <<>> THEN config.ini ELSE config.pyproject) \o config.env \o config.args

\* The plugin starts workers if the last number of processes is not 0.
Numbers(tokens) == {i \in DOMAIN tokens : tokens[i].option \in {"-n", "--numprocesses"}}
StartsWorkers(tokens) ==
  \E i \in Numbers(tokens) : (\A j \in Numbers(tokens) : j <= i) /\ ValueAt(tokens, i) = "on"

\* Nothing in the options has to do with workers, or all of it says "off".
AsksForNone(tokens) ==
  \A i \in DOMAIN tokens :
    \/ tokens[i].option \in {"other", "word"} /\ tokens[i].value # "xdist"
    \/ tokens[i].option \in {"-n", "--numprocesses", "--dist"} /\ ValueAt(tokens, i) = "off"

\* No number of processes stands in another place than its option.
SelfContained(place) == \A i \in Numbers(place) : ValueAt(place, i) # "none"
ValuesInPlace(config) ==
  \A place \in {config.env, config.pyproject, config.ini, config.args} : SelfContained(place)

\* "--dist no" comes before the number of processes.
HiddenByDist(tokens) ==
  \E i \in DOMAIN tokens :
    /\ tokens[i].option = "--dist" /\ ValueAt(tokens, i) = "off"
    /\ \A j \in Numbers(tokens) : ValueAt(tokens, j) = "on" => i < j
=============================================================================
