------------------------ MODULE MCByteEscapeTranslator ------------------------
(***************************************************************************)
(* Texts of intern.c of up to MaxFrags fragments: preload strings that     *)
(* spell a glyph of the table slice in escapes, an ordinary string, and    *)
(* the separators of the preload array.                                    *)
(***************************************************************************)
EXTENDS ByteEscapeTranslator, MCGlyphTable, TLC

PreloadStrings == {[lit |-> TRUE, text |-> WrittenForm(g)] : g \in PreloadGlyphs}
                  \cup {[lit |-> TRUE, text |-> <<"x">>]}

Separators == {[lit |-> FALSE, text |-> <<c>>] : c \in {",", " "}}

MaxFrags == 3
MCInputs == BoundedSeq(PreloadStrings \cup Separators, MaxFrags)
=============================================================================
