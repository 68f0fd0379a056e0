---------------------------- MODULE AstPositions ----------------------------
(***************************************************************************)
(* Where the built-in mutation backend finds an operator or a constant in  *)
(* a source file and what it replaces (mutation/semantic.py,               *)
(* mutation/ast_backend.py).                                               *)
(*                                                                         *)
(* A source is a sequence of characters, here one chain of comparisons in  *)
(* parentheses, which may go over several lines and have comments.  The    *)
(* parser gives lines and columns in bytes of UTF-8; offset_at takes the   *)
(* columns for characters.  Offsets count from 0, positions from 1.        *)
(***************************************************************************)
EXTENDS Naturals, Sequences, FiniteSets, FiniteSetsExt

\* Operands are one character: a name "x", a name "w" of two bytes, and the
\* constants "1" and "2".  "<=" is one character, too, in which "<" is found.
Operands == {"x", "w", "1", "2"}
Operators == {"<", "<="}
Swapped == [token \in Operators |-> IF token = "<" THEN "<=" ELSE "<"]
Blank == " "
Newline == "nl"
Comment == "#"
Chars == Operands \cup Operators \cup {Blank, Newline, Comment}
Wide == "w"

Invalid == <<"InvalidMutation">>
-----------------------------------------------------------------------------
(* The parser.                                                             *)

NewlinesBefore(source, offset) == Cardinality({i \in 1..offset : source[i] = Newline})
LineAt(source, offset) == NewlinesBefore(source, offset) + 1
LineStart(source, line) ==
  LET at == {o \in 0..Len(source) : LineAt(source, o) = line}
  IN IF at = {} THEN Len(source) ELSE Min(at)

InComment(source, i) ==
  \E j \in 1..i : source[j] = Comment /\ \A k \in j..i : source[k] # Newline

\* Positions of the characters that are no blank, newline or comment, and
\* these positions in their order.
Code(source) ==
  {i \in DOMAIN source : source[i] \in Operands \cup Operators /\ ~InComment(source, i)}
CodeRank(source, i) == Cardinality({j \in Code(source) : j <= i})
CodeAt(source) ==
  [k \in 1..Cardinality(Code(source)) |-> CHOOSE i \in Code(source) : CodeRank(source, i) = k]

\* ast.dump: blanks, newlines and comments leave no trace.
Dump(source) == LET at == CodeAt(source) IN [k \in DOMAIN at |-> source[at[k]]]

\* Operand, operator, operand, and so on.
Parses(source) ==
  LET code == Dump(source)
  IN /\ Cardinality(DOMAIN code) % 2 = 1
     /\ \A k \in DOMAIN code : code[k] \in (IF k % 2 = 1 THEN Operands ELSE Operators)

\* The bytes from one offset to another.
Bytes(source, from, to) ==
  (to - from) + Cardinality({i \in (from + 1)..to : source[i] = Wide})

\* Line and column of an offset in the parser's sense; the column is the
\* number of bytes before it, to which ast_span and _sites add 1.
AstPosition(source, offset) ==
  LET line == LineAt(source, offset)
  IN <<line, 1 + Bytes(source, LineStart(source, line), offset)>>
-----------------------------------------------------------------------------
(* mutation/semantic.py.                                                   *)

\* offset_at: the start of the line and as many characters as the column says,
\* possibly behind the end of the line.
OffsetAt(source, position) ==
  Min({Len(source), LineStart(source, position[1]) + position[2] - 1})

\* linecol_at.
LineColAt(source, offset) ==
  <<LineAt(source, offset), offset - LineStart(source, LineAt(source, offset)) + 1>>

\* Mutant: the last character of the span stays.
ReplaceSpanShort(source, start, end, new) ==
  LET begin == OffsetAt(source, start)  stop == OffsetAt(source, end)
  IN IF begin > stop THEN Invalid
     ELSE SubSeq(source, 1, begin) \o new \o SubSeq(source, stop, Len(source))

\* replace_span.
ReplaceSpan(source, start, end, new) ==
  LET begin == OffsetAt(source, start)  stop == OffsetAt(source, end)
  IN IF begin > stop THEN Invalid
     ELSE SubSeq(source, 1, begin) \o new \o SubSeq(source, stop + 1, Len(source))

\* mutation_is_semantic.
IsSemantic(original, mutated) ==
  mutated # Invalid /\ Parses(mutated) /\ Dump(original) # Dump(mutated)
-----------------------------------------------------------------------------
(* mutation/ast_backend.py.  A site has the position it really is at, and   *)
(* the span and replacement the backend gives it.                          *)

\* What str.find takes for the token.  Where it finds "<" in "<=", the mutant has
\* "<==" in the program and "<=" here; a comment has no meaning with either, and
\* code has none with the first and the old one with the second: both are invalid.
Holding(token) == IF token = "<" THEN Operators ELSE {token}

\* _token_span: where the token is first found, be it in a comment.
TokenAt(source, begin, end, token) == {o \in begin..(end - 1) : source[o + 1] \in Holding(token)}

\* The comparison whose operator is at position CodeAt(source)[k].
ComparisonSites(source, k) ==
  LET at    == CodeAt(source)
      token == source[at[k]]
      begin == OffsetAt(source, AstPosition(source, at[k - 1]))
      end   == OffsetAt(source, AstPosition(source, at[k + 1] - 1))
      found == TokenAt(source, begin, end, token)
  IN IF found = {} THEN {}
     ELSE {[at |-> at[k], new |-> Swapped[token], start |-> LineColAt(source, Min(found)),
            end |-> LineColAt(source, Min(found) + 1)]}

ConstantSites(source, k) ==
  LET i == CodeAt(source)[k]
  IN IF source[i] # "1" THEN {}
     ELSE {[at |-> i, new |-> "2", start |-> AstPosition(source, i - 1), end |-> AstPosition(source, i)]}

\* _sites.
Sites(source) ==
  UNION {IF k % 2 = 0 THEN ComparisonSites(source, k) ELSE ConstantSites(source, k)
           : k \in DOMAIN CodeAt(source)}

\* list_mutations: a file that does not parse has no sites.
ListMutations(source) == IF Parses(source) THEN Sites(source) ELSE {}

\* apply: the site is found again by its identity.
Applied(source, site) ==
  LET mutated == ReplaceSpan(source, site.start, site.end, <<site.new>>)
  IN IF IsSemantic(source, mutated) THEN mutated ELSE Invalid
-----------------------------------------------------------------------------
(* What should come of it.                                                 *)

Intended(source, site) == [source EXCEPT ![site.at] = site.new]

\* A character of several bytes stands on a line the span is computed from: it
\* reaches from the operand before the site to the one behind it.
WideNear(source, i) ==
  LET code == CodeAt(source)
      k    == CHOOSE n \in DOMAIN code : code[n] = i
      from == code[IF k - 1 \in DOMAIN code THEN k - 1 ELSE k]
      to   == code[IF k + 1 \in DOMAIN code THEN k + 1 ELSE k]
  IN \E j \in 1..(to - 1) : source[j] = Wide /\ LineAt(source, j) >= LineAt(source, from)

\* A comment between the operands holds the operator before the site does,
\* perhaps as a part of another one.
InCommentFirst(source, site) ==
  /\ source[site.at] \in Operators
  /\ \E j \in 1..(site.at - 1) :
       /\ source[j] \in Holding(source[site.at]) /\ InComment(source, j)
       /\ \A k \in j..(site.at - 1) : source[k] \in Operands => InComment(source, k)
=============================================================================
