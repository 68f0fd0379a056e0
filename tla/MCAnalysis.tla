----------------------------- MODULE MCAnalysis -----------------------------
(* Inputs for Analysis: all that are small, of every kind the functions    *)
(* tell apart.                                                             *)
EXTENDS Analysis

HunkOf(start, old, new, oldCut, newCut) ==
  [start |-> start, old |-> old, new |-> new, oldCut |-> oldCut, newCut |-> newCut]
Last2(old, new) == IF old = <<>> THEN {<<FALSE, c>> : c \in BOOLEAN}
                   ELSE IF new = <<>> THEN {<<c, FALSE>> : c \in BOOLEAN}
                   ELSE BOOLEAN \X BOOLEAN

\* A hunk of up to two old and two new lines, possibly after
\* another one; a second file, which may be new, deleted, or renamed with
\* or without a change.
FirstHunks ==
  UNION {UNION {{HunkOf(3, old, new, c[1], c[2]) : c \in Last2(old, new)}
     : new \in BoundedSeq({"text", "pluses", "parted"}, 2)}
     : old \in BoundedSeq({"text", "minuses", "dashes", "parted"}, 2)}
Early == HunkOf(1, <<"text", "text">>, <<"text">>, FALSE, FALSE)
FirstFiles ==
  {[path |-> "a", old |-> "a", spelled |-> s, hunks |-> hs] :
     s \in {"plain", "odd"}, hs \in UNION {{<<h>>, <<Early, h>>} : h \in FirstHunks}}
SecondFiles ==
  {[path |-> "b", old |-> NoPath, spelled |-> "plain", hunks |-> <<HunkOf(1, <<>>, <<"text">>, FALSE, TRUE)>>],
   [path |-> NoPath, old |-> "b", spelled |-> "plain", hunks |-> <<HunkOf(0, <<"text">>, <<>>, FALSE, FALSE)>>],
   [path |-> "c", old |-> "b", spelled |-> "plain", hunks |-> <<Early>>],
   [path |-> "c", old |-> "b", spelled |-> "plain", hunks |-> <<>>]}
\* Beside a second file the first has one hunk, and a path git quotes only after
\* it, where its lines could be taken for those of the file before.
ShortFiles == {f \in FirstFiles : Len(f.hunks) = 1}
MCDiffs == {<<f>> : f \in FirstFiles}
  \cup {<<f, g>> : f \in {s \in ShortFiles : s.spelled = "plain"}, g \in SecondFiles}
  \cup {<<g, f>> : f \in ShortFiles, g \in SecondFiles}

\* Every attempt, and every sequence of attempts in which all but the last
\* failed.
Attempts == {a \in Attempt : a.cut => a.setup = "returns"}
Failed(a) == ~a.cut /\ \E p \in DOMAIN AttemptReports(a) : AttemptReports(a)[p].outcome = "failed"
MCSessions == {<<a>> : a \in Attempts}
  \cup {p \in {a \in Attempts : Failed(a)} \X Attempts : p[1].mark = p[2].mark}

\* Tests that differ in one respect or two, under three names.
Plain == [name |-> "a", skipMark |-> 0, skipCall |-> 0, xfailMark |-> 0, xfailCall |-> 0,
          broad |-> 0, equal |-> 1, bare |-> 0, other |-> 0]
Bodies == {Plain, [Plain EXCEPT !.skipMark = 1], [Plain EXCEPT !.skipCall = 1],
           [Plain EXCEPT !.xfailMark = 1], [Plain EXCEPT !.xfailCall = 1],
           [Plain EXCEPT !.broad = 1], [Plain EXCEPT !.equal = 0],
           [Plain EXCEPT !.equal = 0, !.bare = 1], [Plain EXCEPT !.other = 1]}
Named(body, name) == [body EXCEPT !.name = name]
Source(tests) == [parses |-> TRUE, above |-> FALSE, tests |-> tests]
BaseFiles == {Source(<<Named(b, "a")>>) : b \in Bodies}
  \cup {Source(<<Named(b, "a"), Named(Plain, n)>>) : b \in Bodies, n \in {"a", "b"}}
HeadFiles == {Source(<<>>)} \cup {Source(<<Named(b, n)>>) : b \in Bodies, n \in {"a", "c"}}
  \cup {Source(<<Named(b, n), Named(Plain, m)>>) : b \in Bodies, n \in {"a", "c"}, m \in {"a", "b", "d"}}
Entry(status, base, head, wasTest, isTest) ==
  [status |-> status, base |-> base, head |-> head, wasTest |-> wasTest, isTest |-> isTest]
MCEntries ==
  {Entry("modified", b, h, TRUE, TRUE) : b \in BaseFiles, h \in HeadFiles}
  \cup {Entry("renamed", b, h, w, i) : b \in BaseFiles, h \in {Source(<<Plain>>)}, w \in BOOLEAN, i \in BOOLEAN}
  \cup {Entry("deleted", b, NoSource, TRUE, TRUE) : b \in BaseFiles}
  \cup {Entry("added", NoSource, h, TRUE, TRUE) : h \in HeadFiles}
  \cup {Entry("modified", b, [h EXCEPT !.parses = p, !.above = ~p], TRUE, TRUE)
          : b \in BaseFiles, h \in {Source(<<Plain>>)}, p \in BOOLEAN}

\* Up to two settings in up to two of the four places, one in up to three, and
\* an option in one place with its value in another.
Settings1 == {[option |-> o, value |-> v] : o \in {"-n", "--numprocesses", "--dist"}, v \in {"off", "on"}}
Option == {<<s>> : s \in Settings1}
  \cup {<<[option |-> o, value |-> "none"], [option |-> "word", value |-> v]>>
          : o \in {"-n", "--dist"}, v \in {"off", "on"}}
  \cup {<<[option |-> "--maxprocesses", value |-> "on"]>>,
        <<[option |-> "other", value |-> "none"], [option |-> "word", value |-> "no:xdist"]>>,
        <<[option |-> "other", value |-> "none"], [option |-> "word", value |-> "xdist"]>>}
Parted == {<<[option |-> "-n", value |-> "none"]>>} \cup {<<[option |-> "word", value |-> v]>> : v \in {"off", "on"}}
Place == {<<>>} \cup Option \cup Parted
MCOptionSets ==
  {c \in [env : Place, pyproject : Place, ini : Place, args : Place \cup {o \o p : o \in Option, p \in Option}] :
     \/ Cardinality({f \in DOMAIN c : c[f] = <<>>}) >= 2
     \/ c.args \in Place /\ \E f \in DOMAIN c : c[f] = <<>>}

\* Chains of up to three operands, with blanks, line breaks and comments; some
\* do not parse.
Gaps == {<<"<">>, <<" ", "<">>, <<"nl", "<", " ">>, <<"#", "<", "nl", "<">>, <<"<", "#", "1", "nl">>, <<"#", "w", "nl", "<">>,
         <<"<", "#">>, <<"<=">>, <<"#", "<=", "nl", "<">>, <<"#", "<", "nl", "<=">>, <<"#", "<=", "nl", "<=">>}
Names == {"x", "w", "1"}
MCSourceTexts == {<<a>> \o g \o <<b>> : a \in Names, b \in Names, g \in Gaps}
  \cup {<<a>> \o g \o <<b>> \o h \o <<c>> : a \in Names, b \in Names, c \in Names, g \in Gaps, h \in Gaps}

\* 100 and 1000 are 1 and 2.  Every requirement on the integers up to that, on
\* some of them, or on others, and every function on these; then functions that
\* are slow or cannot be loaded, texts and dictionaries, and examples.
Req(kind, inputs) ==
  [kind |-> kind, inputs |-> inputs, min |-> Absent, max |-> Absent, texts |-> Absent,
   invalid |-> {}, examples |-> <<>>]
Fn(result) == [result |-> result, slow |-> {}, loads |-> TRUE]
OnIntegers == {Fn(g) : g \in [0..2 -> {-1, 0, 1, 2, Raises}]}
Inputs == {0..2, 0..1, {1}, {5}}
BoundReqs ==
  {[Req("bounds", i) EXCEPT !.min = lo, !.max = hi] :
     i \in Inputs, lo \in {Absent, NullValue, 0, 1}, hi \in {Absent, NullValue, 0, 1, 2}}
IntegerReqs == BoundReqs
  \cup {Req(k, i) : k \in {"round_trip", "idempotent", "monotonic", "non_negative"}, i \in Inputs}
  \cup {[Req("rejects_invalid", {}) EXCEPT !.invalid = v] : v \in {{}, {2}, {0, 1}}}
Example(call, positional, expected) ==
  [call |-> call, positional |-> positional, expected |-> expected]
ExampleReqs == {[Req("examples", {}) EXCEPT !.examples = e] :
  e \in {<<>>} \cup {<<Example(c, p, x), Example(2, 2, 0)>> : c \in {0, 1}, p \in {0, 1}, x \in {Absent, 0, 1}}}
OtherReqs ==
  {[Req("charset", i) EXCEPT !.texts = t] : i \in {{"ab"}, {"ab", "AB"}}, t \in {Absent, {"AB"}}}
  \cup {Req("schema_valid", i) : i \in {{"{}"}, {"{}", "{k}"}}}
OnOthers == {Fn(g) : g \in [{"ab", "AB", "{}", "{k}"} -> {0, Raises}]}
Burdened(fns) == fns \cup {[f EXCEPT !.slow = {1}] : f \in fns} \cup {[f EXCEPT !.loads = FALSE] : f \in fns}
MCTestCases ==
  {[req |-> r, fn |-> f] : r \in IntegerReqs \cup ExampleReqs, f \in Burdened(OnIntegers)}
  \cup {[req |-> r, fn |-> f] : r \in OtherReqs, f \in OnOthers}

\* Two merge bases and a head in which one line differs; a file that is too
\* long, and limits that bite.
Readme == <<"must", "text">>
MCRepo == [b1   |-> [readme |-> Readme, test |-> <<"must">>, long |-> <<"text", "must", "text">>],
           b2   |-> [readme |-> <<"must", "other">>, test |-> <<"must">>],
           head |-> [readme |-> <<"text", "must">>, test |-> <<"text">>, new |-> <<"must">>]]
MCSettings ==
  {[enabled |-> TRUE, tasks |-> t, sources |-> s, minimum |-> m] :
     t \in {<<>>, <<"test", "../up">>}, s \in {<<"readme">>, <<"long", "readme", "test">>}, m \in {"medium", "any"}}
  \cup {[enabled |-> FALSE, tasks |-> <<>>, sources |-> <<"readme">>, minimum |-> "high"]}
Cites(ref, path, first, digest) ==
  [ref |-> ref, path |-> path, first |-> first, last |-> first + Len(digest) - 1, digest |-> digest, float |-> FALSE]
Citations == {Cites(r, "readme", 1, <<Whole("must")>>) : r \in {"b1", "b2"}}
  \cup {Cites("b1", "readme", 2, <<Whole("text")>>), Cites("b1", "readme", 1, <<Whole("text")>>),
        Cites("b1", "test", 1, <<Whole("must")>>), Cites("b1", "long", 2, <<Cut("must")>>),
        Cites("b1", "long", 3, <<Whole("text")>>), Cites("b1", "new", 1, <<Whole("must")>>),
        Cites("b1", "readme", 0, <<Whole("must")>>),
        [Cites("b1", "readme", 1, <<Whole("must")>>) EXCEPT !.float = TRUE]}
Items == {[citations |-> c, executable |-> TRUE, executableKind |-> k, confidence |-> q] :
            c \in {{}} \cup {{x} : x \in Citations} \cup {{Cites("b1", "readme", 1, <<Whole("must")>>), x} : x \in Citations},
            k \in BOOLEAN, q \in {"low", "high"}}
MCAnswers == {[problem |-> p, items |-> {}] : p \in {"missing", "error", "truncated", "refused", "refusal"}}
  \cup {[problem |-> "none", items |-> {i}] : i \in Items}
  \cup {[problem |-> "none", items |-> {i, j}] :
          i \in {k \in Items : Cardinality(k.citations) = 1 /\ k.confidence = "high" /\ k.executableKind},
          j \in {k \in Items : Cardinality(k.citations) < 2 /\ k.confidence = "high" /\ ~k.executableKind}}
MCFiles == [form : {"none", "other"}, items : {{}}]
  \cup [form : {"report", "payload"}, items : {{}} \cup {{i} : i \in Items} \cup {{[i EXCEPT !.confidence = "sure"]} : i \in Items}]
=============================================================================
