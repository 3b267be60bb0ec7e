-------------------------- MODULE MCLiteralReplacer --------------------------
(***************************************************************************)
(* The table slice of MCGlyphTable, and C texts of up to MaxFrags        *)
(* fragments.  A string literal holds one piece, or two pieces separated   *)
(* by a space; a piece is a glyph, "?", "|", a letter, an escaped quote or *)
(* an escaped backslash.  Host code between literals is single characters, *)
(* among them the C operators "?" and "|".                                 *)
(***************************************************************************)
EXTENDS LiteralReplacer, MCGlyphTable, TLC

EscapedQuote == <<"\\", "\"">>
EscapedBackslash == <<"\\", "\\">>

Pieces == Glyphs \cup {<<"?">>, <<"|">>, <<"x">>, EscapedQuote, EscapedBackslash}
\* Pairs: the pieces where a neighbour could go wrong.
PairPieces == {<<"ELEMENT", "?">>, <<":", "?">>, <<"?">>, EscapedQuote, EscapedBackslash}

StringLiterals ==
    {[lit |-> TRUE, pieces |-> ps] :
        ps \in {<<>>} \cup {<<p>> : p \in Pieces}
                      \cup {<<p, <<" ">>, q>> : p, q \in PairPieces}}

Code(cs) == {[lit |-> FALSE, text |-> <<c>>] : c \in cs}

MaxFrags == 3
MCInputs == BoundedSeq(StringLiterals \cup Code({"?", "|", "x", "\n"}), MaxFrags)

\* The C character literal '"', as a lexer or a printer of strings has it,
\* among literals that hold no glyph and the host operator ?: the literals
\* must come out as they are, so any change is made to host code.  Four
\* fragments put a host ? between two literals after the character literal.
CharLiteralQuote == [lit |-> FALSE, text |-> <<"'", "\"", "'">>]
MaxFragsCharLiteral == 4
MCInputsCharLiteral ==
    BoundedSeq({CharLiteralQuote, [lit |-> TRUE, pieces |-> <<<<"x">>>>]} \cup Code({"?"}),
               MaxFragsCharLiteral)

=============================================================================
