------------------------- MODULE GuageSourceRewrite -------------------------
(***************************************************************************)
(* replace_in_guage_source as operators: one loop iteration over a        *)
(* mapping entry, the two fixed rewrites that close the function, and the *)
(* whole function.                                                         *)
(***************************************************************************)
EXTENDS SymbolTable, PyStr

CONSTANT Whitespace      \* the characters regex \s matches

ASSUME Whitespace \subseteq AsciiChars
ASSUME {"(", ")", ":", "?", "|", "if", "abs"} \subseteq AsciiChars

\* (?<=[(\s]) : the characters a token may follow.
TokenStart == {"("} \cup Whitespace
\* (?=[)\s]|$) : the characters a token may precede.
TokenEnd == {")"} \cup Whitespace

\* len(old) == 1 and is_all_ascii(old) and old in '|?'
IsAsciiConflict(old) ==
    Len(old) = 1 /\ IsAllAscii(old) /\ old[1] \in {"|", "?"}

\* Mutant: the "|$" alternative dropped from the lookahead.
AtStartPatternNoEnd(old) ==
    [atStart |-> TRUE, before |-> {}, lit |-> old, after |-> TokenEnd, atEnd |-> FALSE]

\* r'^' + escaped_old + r'(?=[)\s]|$)'
AtStartPattern(old) ==
    [atStart |-> TRUE, before |-> {}, lit |-> old,
     after |-> TokenEnd, atEnd |-> TRUE]

\* r'(?<=[(\s])' + escaped_old + r'(?=[)\s]|$)'
TokenPattern(old) ==
    [atStart |-> FALSE, before |-> TokenStart, lit |-> old,
     after |-> TokenEnd, atEnd |-> TRUE]

\* One iteration of the for loop over the mapping.
ReplaceEntry(text, e) ==
    LET old == e[1]
        new == e[2]
        bare == ReSub(TokenPattern(old), new, ReSub(AtStartPattern(old), new, text))
    IN  IF IsAsciiConflict(old) THEN text
        ELSE IF old[1] # ":"
             THEN ReSub(TokenPattern(<<":">> \o old), <<":">> \o new, bare)
             ELSE bare

\* r'\(\?(\s)' -> r'(if\1' and r'\(\|(\s)' -> r'(abs\1'
OpenParenRewrite(sym) ==
    [atStart |-> TRUE, before |-> Char, lit |-> <<"(", sym>>,
     after |-> Whitespace, atEnd |-> FALSE]

SpecialTokenRewrites(text) ==
    ReSub(OpenParenRewrite("|"), <<"(", "abs">>,
          ReSub(OpenParenRewrite("?"), <<"(", "if">>, text))

\* The whole function, as one operator.
ReplaceInGuageSource(text) ==
    SpecialTokenRewrites(FoldLeft(ReplaceEntry, text, BuildSortedMapping))

=============================================================================
