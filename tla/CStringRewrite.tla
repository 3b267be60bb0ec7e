--------------------------- MODULE CStringRewrite ---------------------------
(***************************************************************************)
(* replace_in_c_strings as operators: the string-literal pattern, the     *)
(* callback replace_in_string_literal, and the whole re.sub scan.          *)
(***************************************************************************)
EXTENDS SymbolTable, PyStr

ASSUME {"\"", "\\", "\n", "?", "|", "if", "abs"} \subseteq AsciiChars

\* Mutant: the pattern "[^"]*", which ends a literal at an escaped quote.
RECURSIVE SpanEndNoEscape(_, _)
SpanEndNoEscape(t, j) ==
    IF j > Len(t) THEN 0 ELSE IF t[j] = "\"" THEN j ELSE SpanEndNoEscape(t, j + 1)

(* The literal pattern "(?:[^"\\]|\\.)*" after an opening quote.  Every    *)
(* repetition is forced by its first character, so backtracking cannot     *)
(* help: the match ends at the first quote not taken by "\\.", and fails   *)
(* at the end of the text or at a backslash followed by a newline, which   *)
(* "." does not match.  SpanEnd is the closing quote's position, or 0.     *)
RECURSIVE SpanEnd(_, _)
SpanEnd(t, j) ==
    IF j > Len(t) THEN 0
    ELSE IF t[j] = "\"" THEN j
    ELSE IF t[j] = "\\"
         THEN IF j + 1 <= Len(t) /\ t[j + 1] # "\n" THEN SpanEnd(t, j + 2) ELSE 0
    ELSE SpanEnd(t, j + 1)

LiteralAt(t, i) == t[i] = "\"" /\ SpanEnd(t, i + 1) # 0

\* One entry of the loop of replace_in_string_literal.
ReplaceInInner(inner, e) ==
    IF Len(e[1]) = 1 /\ IsAllAscii(e[1])
    THEN IF inner = e[1] THEN e[2] ELSE inner
    ELSE StrReplace(inner, e[1], e[2])

\* The exact-match rules applied after the loop.
ExactMatchRewrite(inner) ==
    CASE inner = <<"?">> -> <<"if">>
      [] inner = <<"|">> -> <<"abs">>
      [] OTHER           -> inner

\* replace_in_string_literal, given the matched text including its quotes.
ReplaceInStringLiteral(s) ==
    LET inner == SubSeq(s, 2, Len(s) - 1)
    IN  Quote \o ExactMatchRewrite(FoldLeft(ReplaceInInner, inner, BuildSortedMapping))
              \o Quote

\* re.sub(r'"(?:[^"\\]|\\.)*"', replace_in_string_literal, content): a
\* failed match at i copies t[i] and the scan resumes at i + 1.
RECURSIVE ScanHostText(_, _, _)
ScanHostText(t, i, acc) ==
    IF i > Len(t) THEN acc
    ELSE IF LiteralAt(t, i)
         THEN LET e == SpanEnd(t, i + 1)
              IN  ScanHostText(t, e + 1, acc \o ReplaceInStringLiteral(SubSeq(t, i, e)))
         ELSE ScanHostText(t, i + 1, Append(acc, t[i]))

ReplaceInCStrings(t) == ScanHostText(t, 1, <<>>)

=============================================================================
