---------------------------- MODULE MCGlyphTable ----------------------------
(***************************************************************************)
(* The slice of the real table of rename_symbols.py the models check.      *)
(* A glyph character is named after the Unicode symbol it stands for and   *)
(* carries its real UTF-8 bytes; a name is one ASCII word, with its        *)
(* trailing "?" kept where the real name has one.                          *)
(*   SPECIAL_FORMS  "⧉" macro, "∈" type-decl, "∈?" type-check              *)
(*   STDLIB_MACROS  "?¬" unless                                            *)
(*   PRIMITIVES     "⊕" +, "⧉" arity, ":?" symbol?, "∅?" null?             *)
(*   NIL_MAPPING    "∅" nil                                                *)
(*   ASCII_TOKEN_REPLACEMENTS  "|" abs, "?" if                             *)
(* The slice keeps what the rewrites have to get right: glyphs that are    *)
(* prefixes of others ("∈" of "∈?", "∅" of "∅?"), an all-ASCII glyph that  *)
(* starts with ":" (":?"), a glyph that starts with the conflict character *)
(* "?" ("?¬"), a two-byte character ("¬"), and the glyph that two          *)
(* categories define with different names ("⧉").                           *)
(***************************************************************************)
EXTENDS Sequences

\* The bytes of the glyph characters: U+29C9, U+2208, U+00AC, U+2295, U+2205.
GlyphBytes ==
    [MACRO_BOX |-> <<"xe2", "xa7", "x89">>,
     ELEMENT   |-> <<"xe2", "x88", "x88">>,
     NOT       |-> <<"xc2", "xac">>,
     OPLUS     |-> <<"xe2", "x8a", "x95">>,
     EMPTYSET  |-> <<"xe2", "x88", "x85">>]

GlyphChars == DOMAIN GlyphBytes

NameChars == {"macro", "arity", "type_decl", "type_check", "unless", "plus",
              "symbol", "null", "nil", "if", "abs"}

\* The \xHH escape of every byte that intern.c writes as one.
MCHexEscape ==
    [b \in UNION {{GlyphBytes[g][i] : i \in DOMAIN GlyphBytes[g]} : g \in GlyphChars}
            \cup {"\n", "\"", "\\"} |->
        CASE b = "\n"  -> "\\x0a"
          [] b = "\""  -> "\\x22"
          [] b = "\\"  -> "\\x5c"
          [] OTHER     -> "\\" \o b]

MCNonPrintable == {"\n"}

\* Host and Guage syntax, the characters of the names, and the escapes.
MCAscii == {"(", ")", " ", ":", "?", "|", "x", "\"", "\\", "\n", "'", ","}
           \cup NameChars \cup {MCHexEscape[b] : b \in DOMAIN MCHexEscape}

MCChar == GlyphChars \cup MCAscii

MCUtf8 == [c \in MCChar |-> IF c \in GlyphChars THEN GlyphBytes[c] ELSE <<c>>]

MCSpecialForms == << <<<<"MACRO_BOX">>, <<"macro">>>>,
                     <<<<"ELEMENT">>, <<"type_decl">>>>,
                     <<<<"ELEMENT", "?">>, <<"type_check">>>> >>
MCStdlibMacros == << <<<<"?", "NOT">>, <<"unless">>>> >>
MCPrimitives == << <<<<"OPLUS">>, <<"plus">>>>,
                   <<<<"MACRO_BOX">>, <<"arity">>>>,
                   <<<<":", "?">>, <<"symbol", "?">>>>,
                   <<<<"EMPTYSET", "?">>, <<"null", "?">>>> >>
MCNilMapping == << <<<<"EMPTYSET">>, <<"nil">>>> >>
MCAsciiTokenReplacements == << <<<<"|">>, <<"abs">>>>, <<<<"?">>, <<"if">>>> >>

MCWhitespace == {" ", "\n"}
=============================================================================
