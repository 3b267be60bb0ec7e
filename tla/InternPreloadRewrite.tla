------------------------ MODULE InternPreloadRewrite ------------------------
(***************************************************************************)
(* replace_intern_preload as operators.  In intern.c a glyph is written as *)
(* a C string whose bytes are either the printable ASCII character itself  *)
(* or a \xHH escape.  A \xHH escape is one character of the model (four    *)
(* characters of the real text), given by HexEscape for every byte that    *)
(* needs one.                                                              *)
(***************************************************************************)
EXTENDS SymbolTable, PyStr

CONSTANTS
    NonPrintable,    \* the ASCII characters for which isprintable() is FALSE
    HexEscape        \* HexEscape[b]: the text "\xHH" of byte b

ASSUME NonPrintable \subseteq AsciiChars
ASSUME \A b \in DOMAIN HexEscape : HexEscape[b] \in AsciiChars

\* The escape characters count four characters each in len().
EscapeChars == {HexEscape[b] : b \in DOMAIN HexEscape}
TextLen(s) == FoldLeft(LAMBDA n, c : n + (IF c \in EscapeChars THEN 4 ELSE 1), 0, s)

\* all_dict: the four categories and then ASCII_TOKEN_REPLACEMENTS.
AllDict == DictUpdate(AllMappings, AsciiTokenReplacements)

\* b < 128 and chr(b).isprintable() and chr(b) != '"' and chr(b) != '\\'
EscapeByte(b) ==
    IF b \in AsciiChars \ (NonPrintable \cup {"\"", "\\"})
    THEN <<b>>
    ELSE <<HexEscape[b]>>

\* unicode_sym.encode('utf-8'), then c_escape built byte by byte.
CEscape(sym) ==
    LET bytes == FlattenSeq([i \in DOMAIN sym |-> Utf8[sym[i]]])
    IN  FlattenSeq([i \in DOMAIN bytes |-> EscapeByte(bytes[i])])

\* byte_map[c_escape] = english_name, in all_dict's order.
ByteMap == FoldLeft(LAMBDA d, p : DictSet(d, CEscape(p[1]), p[2]), <<>>, AllDict)

\* sorted(byte_map.items(), key=len(c_escape), reverse=True): stable.
InsertByTextLen(sorted, p) ==
    LET k == Len(SelectSeq(sorted, LAMBDA q : TextLen(q[1]) >= TextLen(p[1])))
    IN  SubSeq(sorted, 1, k) \o <<p>> \o SubSeq(sorted, k + 1, Len(sorted))

SortedByteMap == FoldLeft(InsertByTextLen, <<>>, ByteMap)

\* Mutant: content.replace(c_escape, english), without the quotes.
ReplaceUnquotedEscape(text, p) == StrReplace(text, p[1], p[2])

\* content.replace(f'"{c_escape}"', f'"{english}"')
ReplaceQuotedEscape(text, p) ==
    StrReplace(text, Quote \o p[1] \o Quote, Quote \o p[2] \o Quote)

ReplaceInternPreload(text) == FoldLeft(ReplaceQuotedEscape, text, SortedByteMap)

=============================================================================
