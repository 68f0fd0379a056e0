---------------------------- MODULE Requirements ----------------------------
(***************************************************************************)
(* Requirements quoted from the merge base (requirements/firewall.py,      *)
(* extract.py, artifact.py): what a provider may read, which of its        *)
(* answers are kept, and what a later run accepts of the file they are     *)
(* saved in.                                                               *)
(*                                                                         *)
(* A repository gives every commit its files, a file is a sequence of      *)
(* lines.  A digest is the text it is the SHA-256 of.                      *)
(***************************************************************************)
EXTENDS Naturals, Sequences, FiniteSets

CONSTANTS
  Repo,        \* [commit -> [path -> sequence of lines]], absent ones left out
  UnsafePaths, \* absolute paths, paths with ".." and paths in .git/
  Signals,     \* lines with one of the words of has_specification_signal
  DataPaths,   \* .json and .yaml files
  MaxLines,    \* MAX_SOURCE_FILE_BYTES, in lines
  MaxFiles     \* MAX_SOURCE_FILES

ASSUME RequirementsAssumption == MaxFiles \in Nat \ {0}

\* The last line of a text that was cut off at MaxLines is not a whole one.
Cut(line) == <<line, "cut">>
Whole(line) == <<line, "whole">>
-----------------------------------------------------------------------------
(* firewall.py.                                                            *)

\* The paths of the configuration in their order, task files before base
\* sources, whose patterns are taken as expanded; and the positions of those
\* that are safe and not a repetition.
Listed(config) == config.tasks \o config.sources
Wanted(config) ==
  LET all == Listed(config)
  IN {i \in DOMAIN all : all[i] \notin UnsafePaths /\ \A j \in 1..(i - 1) : all[j] # all[i]}
WantedPaths(config) == {Listed(config)[i] : i \in Wanted(config)}

\* The text of a snapshot, which is never without a line.
SnapshotLines(file) ==
  IF file = <<>> THEN <<Whole("")>>
  ELSE IF Len(file) <= MaxLines THEN [i \in DOMAIN file |-> Whole(file[i])]
  ELSE [i \in 1..MaxLines |-> IF i = MaxLines THEN Cut(file[i]) ELSE Whole(file[i])]

\* load_merge_base_sources: nothing, if git does not know the commit.  The
\* pipeline leaves out no test file (its set of touched ones is always empty).
Sources(ref, config) ==
  LET all      == Listed(config)
      readable == {i \in Wanted(config) :
                     ref \in DOMAIN Repo /\ all[i] \in DOMAIN Repo[ref]}
      kept     == {i \in readable : Cardinality({j \in readable : j < i}) < MaxFiles}
  IN {[ref |-> ref, path |-> all[i], lines |-> SnapshotLines(Repo[ref][all[i]])] : i \in kept}

\* has_specification_signal: a word in a line, or a data file that is not blank.
HasSignal(sources) ==
  \E s \in sources :
    \/ \E i \in DOMAIN s.lines : s.lines[i][1] \in Signals
    \/ s.path \in DataPaths /\ s.lines # <<Whole("")>>

\* citation_matches: the commit, the path, a range within the snapshot and
\* the digest of exactly these lines.
CitationMatches(source, cite) ==
  /\ source.ref = cite.ref /\ source.path = cite.path
  /\ 1 <= cite.first /\ cite.first <= cite.last /\ cite.last <= Len(source.lines)
  /\ cite.digest = SubSeq(source.lines, cite.first, cite.last)

\* Mutant: any citation that matches is enough.
SomeCitationMatches(sources, citations) ==
  \E cite \in citations : \E source \in sources : CitationMatches(source, cite)

\* citations_match_sources: there is a citation, and every one is of a source.
CitationsMatch(sources, citations) ==
  /\ citations # {}
  /\ \A cite \in citations : \E source \in sources : CitationMatches(source, cite)
-----------------------------------------------------------------------------
(* extract.py.  An answer is what a provider returned: problem is one of    *)
(* "missing" (no client), "error", "truncated", "refused", "refusal" (in    *)
(* the right format) and "none"; items are the requirements in it.         *)

Rank == [low |-> 0, medium |-> 1, high |-> 2]

\* The requirements-v1 schema, as far as anything depends on it; a number like
\* 1.0 is an integer for it.
Conforms(items) ==
  \A item \in items :
    /\ item.confidence \in DOMAIN Rank
    /\ \A cite \in item.citations : cite.first >= 1 /\ cite.last >= 1

\* _citations_from_raw: 1.0 is no line number here, and one citation that is not
\* understood takes the others with it.
Parsed(item) ==
  [item EXCEPT !.citations = IF \E cite \in @ : cite.float THEN {} ELSE @]

\* minimum_confidence may be any string; an unknown one asks for the most.
LeastRank(config) == IF config.minimum \in DOMAIN Rank THEN Rank[config.minimum] ELSE 2

\* What is kept of an item: its claim to be executable is checked.
Trusted(item, config) ==
  [item EXCEPT !.executable = @ /\ item.executableKind /\ Rank[item.confidence] >= LeastRank(config)]

KeptItems(sources, config, answer) ==
  {Trusted(item, config) :
     item \in {i \in {Parsed(j) : j \in answer.items} : CitationsMatch(sources, i.citations)}}

\* extract_requirements: the status of the stage and the requirements.
Extraction(ref, config, spent, answer) ==
  LET sources == Sources(ref, config)
      Ends(status) == [status |-> status, items |-> {}]
  IN IF ~config.enabled THEN Ends("not_requested")
     ELSE IF spent \/ ~HasSignal(sources) \/ answer.problem = "missing" THEN Ends("skipped")
     ELSE IF answer.problem = "error" THEN Ends("error")
     ELSE IF answer.problem = "truncated" THEN Ends("incomplete")
     ELSE IF answer.problem = "refused" THEN Ends("skipped")
     ELSE IF ~Conforms(answer.items) THEN Ends("error")
     ELSE IF answer.problem = "refusal" /\ answer.items = {} THEN Ends("skipped")
     ELSE [status |-> "complete", items |-> KeptItems(sources, config, answer)]
-----------------------------------------------------------------------------
(* artifact.py.  A file is "report" (of schema 2, or one with a requirements *)
(* block), "payload" (the requirements-v1 format itself), "other" (another  *)
(* object) or "none" (missing, no JSON, no object).                        *)

NoBase == ""   \* the merge base of a run that did not get to know one

ReportOf(items) == [form |-> "report", items |-> items]

\* Not accepted by the schema, after _as_requirements_payload took the items out
\* of a report.
InvalidFile(file) == file.form \in {"none", "other"} \/ ~Conforms(file.items)

\* load_requirements_artifact, the status verify gives to the stage, and the
\* requirements: one citation that does not match rejects every item, and
\* without a merge base nothing is compared.  An item is as executable as the
\* file says.
Loaded(ref, config, file) ==
  LET items   == {Parsed(item) : item \in file.items}
      matches == \A item \in items : CitationsMatch(Sources(ref, config), item.citations)
  IN IF InvalidFile(file) THEN [status |-> "error", items |-> {}]
     ELSE IF ref = NoBase \/ matches THEN [status |-> "complete", items |-> items]
     ELSE [status |-> "incomplete", items |-> {}]
-----------------------------------------------------------------------------
(* What a requirement rests on.                                            *)

\* The text of the cited lines at the commit, whatever was read.
QuotesCommit(cite, ref) ==
  /\ cite.ref = ref /\ ref \in DOMAIN Repo /\ cite.path \in DOMAIN Repo[ref]
  /\ LET lines == SnapshotLines(Repo[ref][cite.path])
     IN 1 <= cite.first /\ cite.last <= Len(lines) /\ cite.digest = SubSeq(lines, cite.first, cite.last)

Quoted(items, ref, config) ==
  \A item \in items :
    /\ item.citations # {}
    /\ \A cite \in item.citations : QuotesCommit(cite, ref) /\ cite.path \in WantedPaths(config)
=============================================================================
