----------------------------- MODULE DiffLines -----------------------------
(***************************************************************************)
(* Which lines a pull request adds to each file, and how many it deletes:  *)
(* the scanner of "git diff -U0" in gitops.py.                             *)
(*                                                                         *)
(* A diff is a sequence of file changes, a file change a sequence of       *)
(* hunks.  Git prints it as text, str.splitlines() cuts the text up, and   *)
(* two loops recover the lines from the first characters of the pieces.    *)
(* The content of a line is one of a few kinds, told apart by what it      *)
(* makes those loops do.                                                   *)
(***************************************************************************)
EXTENDS Naturals, Sequences, FiniteSets, SequencesExt

\* "text" is any content without peculiarities; "pluses" begins with "++ ",
\* "minuses" with "-- ", in both cases with no path of the diff behind it,
\* "dashes" with "--" and no blank; "parted" contains a form feed or another
\* character at which splitlines() cuts and git does not, and what follows it
\* begins with none of the characters the loops look for.
Contents == {"text", "pluses", "minuses", "dashes", "parted"}

NoPath == "/dev/null"  \* also what a path is that names no file of the diff
NoFile == "None"       \* current is None

\* A hunk replaces the lines old by the lines new, the first of which is line
\* start of the new file (the line before it, if new is empty).  oldCut and
\* newCut: the last of them is the last of its file and no newline follows.
\* A change of a file has the path from before and after, NoPath if there is
\* none, and how git writes the path in the lines that begin with "---" and
\* "+++": "plain", or "odd" with a tab behind it, if it has a blank, or in
\* quotes and escapes, if it is not ASCII.
Hunk == [start : Nat, old : Seq(Contents), new : Seq(Contents), oldCut : BOOLEAN, newCut : BOOLEAN]
File == [path : STRING, old : STRING, spelled : {"plain", "odd"}, hunks : Seq(Hunk)]

\* The keys of the dictionary parse_numstat_and_diff builds from the names
\* and statuses; a deleted file is known under the path it had.
KeyOf(file) == IF file.path = NoPath THEN file.old ELSE file.path
KeysOf(diff) == {KeyOf(diff[i]) : i \in DOMAIN diff}

\* What git finds between two trees: a path is changed once, a file is renamed
\* once and only if its path is gone, nothing is added to a deleted file and
\* nothing deleted from a new one.
IsDiff(diff) ==
  /\ diff \in Seq(File)
  /\ \A i \in DOMAIN diff :
       /\ KeyOf(diff[i]) \notin {NoPath, NoFile}
       /\ diff[i].old \in KeysOf(diff) => diff[i].old = KeyOf(diff[i])
       /\ \A j \in DOMAIN diff \ {i} :
            /\ KeyOf(diff[i]) # KeyOf(diff[j])
            /\ diff[i].old # NoPath => diff[i].old # diff[j].old
       /\ \A h \in ToSet(diff[i].hunks) :
            /\ diff[i].path = NoPath => h.new = <<>>
            /\ diff[i].old = NoPath => h.old = <<>>
            /\ h.new # <<>> => h.start > 0
-----------------------------------------------------------------------------
(* What git prints.                                                        *)

\* FlattenSeq, as a recursive function.
Joined(texts) ==
  LET upto[i \in 0..Len(texts)] == IF i = 0 THEN <<>> ELSE upto[i - 1] \o texts[i]
  IN upto[Len(texts)]

Piece(kind) == [is |-> kind, path |-> NoPath, at |-> 0]
NoNewline(cut) == IF cut THEN <<Piece("other")>> ELSE <<>>

PrintedLine(sign, content) ==
  IF content = "parted" THEN <<Piece(sign), Piece("other")>>
  ELSE IF sign = "+" /\ content = "pluses" THEN <<Piece("+++ ")>>
  ELSE IF sign = "-" /\ content = "minuses" THEN <<Piece("--- ")>>
  ELSE IF sign = "-" /\ content = "dashes" THEN <<Piece("---")>>
  ELSE <<Piece(sign)>>

PrintedLines(sign, contents) ==
  Joined([i \in DOMAIN contents |-> PrintedLine(sign, contents[i])])

PrintedHunk(hunk) ==
  <<[is |-> "@@", path |-> NoPath, at |-> hunk.start]>>
    \o PrintedLines("-", hunk.old) \o NoNewline(hunk.oldCut)
    \o PrintedLines("+", hunk.new) \o NoNewline(hunk.newCut)

PrintedPath(kind, file, path) ==
  [is |-> kind, path |-> IF file.spelled = "plain" THEN path ELSE NoPath, at |-> 0]

\* A file that was only moved, or is empty, has no lines "---" and "+++".
PrintedFile(file) ==
  IF file.hunks = <<>> THEN <<Piece("other")>>
  ELSE <<Piece("other"), PrintedPath("--- ", file, file.old), PrintedPath("+++ ", file, file.path)>>
         \o Joined([i \in DOMAIN file.hunks |-> PrintedHunk(file.hunks[i])])

Printed(diff) == Joined([i \in DOMAIN diff |-> PrintedFile(diff[i])])
-----------------------------------------------------------------------------
(* What the scanner makes of it.                                           *)

\* Mutant: deleted lines are counted as well.
ScanAddedByOldLines(keys, s, piece) ==
  IF piece.is = "+++ " THEN
       [s EXCEPT !.file = IF piece.path \in keys THEN piece.path ELSE NoFile]
  ELSE IF s.file = NoFile THEN s
  ELSE IF piece.is = "@@" THEN [s EXCEPT !.next = IF piece.at = 0 THEN 1 ELSE piece.at]
  ELSE IF piece.is = "+" THEN [s EXCEPT !.added = @ \cup {<<s.file, s.next>>}, !.next = @ + 1]
  ELSE [s EXCEPT !.next = @ + 1]

\* _apply_added_line_numbers, one piece of the text.
ScanAdded(keys, s, piece) ==
  IF piece.is = "+++ " THEN
       [s EXCEPT !.file = IF piece.path \in keys THEN piece.path ELSE NoFile]
  ELSE IF s.file = NoFile THEN s
  ELSE IF piece.is = "@@" THEN [s EXCEPT !.next = IF piece.at = 0 THEN 1 ELSE piece.at]
  ELSE IF piece.is = "+" THEN [s EXCEPT !.added = @ \cup {<<s.file, s.next>>}, !.next = @ + 1]
  ELSE IF piece.is \in {"-", "---", "--- "} THEN s
  ELSE [s EXCEPT !.next = @ + 1]

\* The file a "---" line names: by its path, or by the path it had.
Former(diff, path) ==
  IF path \in KeysOf(diff) THEN path
  ELSE LET from == {i \in DOMAIN diff : diff[i].old = path /\ path # NoPath}
       IN IF from = {} THEN NoFile ELSE KeyOf(diff[CHOOSE i \in from : \A j \in from : i <= j])

\* _apply_deleted_counts, one piece of the text.
ScanDeleted(diff, s, piece) ==
  IF piece.is = "--- " THEN [s EXCEPT !.file = Former(diff, piece.path)]
  ELSE IF piece.is = "-" /\ s.file # NoFile THEN [s EXCEPT !.count[s.file] = @ + 1]
  ELSE s

\* The state a loop has after the text, from state s: the loop of added lines,
\* or the one of deleted lines.
Scan(loop, diff, s, piece) ==
  IF loop = "added" THEN ScanAdded(KeysOf(diff), s, piece) ELSE ScanDeleted(diff, s, piece)
Scanned(loop, diff, s, text) ==
  LET after[i \in 0..Len(text)] == IF i = 0 THEN s ELSE Scan(loop, diff, after[i - 1], text[i])
  IN after[Len(text)]

AddedLines(diff) ==
  Scanned("added", diff, [file |-> NoFile, next |-> 0, added |-> {}], Printed(diff)).added
DeletedCounts(diff) ==
  Scanned("deleted", diff, [file |-> NoFile, count |-> [key \in KeysOf(diff) |-> 0]],
          Printed(diff)).count
-----------------------------------------------------------------------------
(* What the diff says.                                                     *)

TrulyAdded(diff) ==
  UNION {UNION {{<<KeyOf(diff[i]), h.start + n - 1>> : n \in DOMAIN h.new}
                  : h \in ToSet(diff[i].hunks)} : i \in DOMAIN diff}

OldLines(file) == UNION {{<<j, n>> : n \in DOMAIN file.hunks[j].old} : j \in DOMAIN file.hunks}
TrulyDeleted(diff) ==
  [key \in KeysOf(diff) |->
     Cardinality(OldLines(diff[CHOOSE i \in DOMAIN diff : KeyOf(diff[i]) = key]))]

\* Where the scanner cannot be misled by how git and Python print and cut.
PlainFile(file) ==
  /\ file.spelled = "plain"
  /\ \A h \in ToSet(file.hunks) : ToSet(h.old) \cup ToSet(h.new) \subseteq {"text"}
PlainDiff(diff) == \A i \in DOMAIN diff : PlainFile(diff[i])

\* A hunk that puts something in the place of a last line without a newline.
ReplacesCut(hunk) == hunk.oldCut /\ hunk.new # <<>>
=============================================================================
