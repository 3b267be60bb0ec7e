--------------------------- MODULE MCTokenReplacer ---------------------------
(***************************************************************************)
(* Every Guage text of up to MaxLen characters, rewritten with the table   *)
(* slice of MCGlyphTable.                                                  *)
(***************************************************************************)
EXTENDS TokenReplacer, MCGlyphTable, TLC

\* Every Guage text up to MaxLen characters over the characters below:
\* the token boundaries (both kinds of whitespace), the keyword colon, both
\* conflict characters, an identifier letter, glyph characters that combine
\* into longer glyphs, the glyph of two categories and a one-glyph primitive.
InputChars == {"(", ")", " ", "\n", ":", "?", "|", "x", "ELEMENT", "EMPTYSET", "NOT",
               "MACRO_BOX", "OPLUS"}
MaxLen == 5
MCInputs == BoundedSeq(InputChars, MaxLen)

\* The same texts, except those that open with a ":" keyword.
MCInputsNoLeadingKeyword == {t \in MCInputs : t = <<>> \/ t[1] # ":"}
=============================================================================
