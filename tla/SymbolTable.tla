---------------------------- MODULE SymbolTable ----------------------------
(***************************************************************************)
(* The glyph -> name table of rename_symbols.py and its match order.       *)
(*                                                                         *)
(* A character of text is an element of Char; a glyph and a name are      *)
(* sequences of characters.  A Python dict is modelled by what the code    *)
(* relies on: an insertion-ordered sequence of <<key, value>> pairs, in    *)
(* which assigning to a present key keeps the key's position.             *)
(***************************************************************************)
EXTENDS Naturals, Sequences, SequencesExt

CONSTANTS
    Char,                    \* the characters the modelled texts are made of
    AsciiChars,              \* the characters with ord(c) < 128
    Utf8,                    \* Utf8[c]: the bytes of c in UTF-8; an ASCII
                             \* character's one byte is written as itself
    SpecialForms,            \* SPECIAL_FORMS,   as a sequence of pairs
    StdlibMacros,            \* STDLIB_MACROS
    Primitives,              \* PRIMITIVES
    NilMapping,              \* NIL_MAPPING
    AsciiTokenReplacements   \* ASCII_TOKEN_REPLACEMENTS ("|" and "?")

Text == Seq(Char)
Entry == Text \X Text

\* A double quote, as a text.
Quote == <<"\"">>

ASSUME AsciiChars \subseteq Char
ASSUME \A c \in Char : Utf8[c] \in Seq(STRING) /\ Len(Utf8[c]) \in 1..4
ASSUME \A c \in AsciiChars : Utf8[c] = <<c>>
ASSUME \A d \in {SpecialForms, StdlibMacros, Primitives, NilMapping,
                 AsciiTokenReplacements} : d \in Seq(Entry)

-----------------------------------------------------------------------------
(* Python dict operations used by the code.                                *)

DictKeys(d) == {d[i][1] : i \in DOMAIN d}

\* d[k] = v: overwrite in place when k is present, append otherwise.
DictSet(d, k, v) ==
    IF k \in DictKeys(d)
    THEN [i \in DOMAIN d |-> IF d[i][1] = k THEN <<k, v>> ELSE d[i]]
    ELSE Append(d, <<k, v>>)

\* d.update(e): the entries of e assigned in e's order.
DictUpdate(d, e) == FoldLeft(LAMBDA acc, p : DictSet(acc, p[1], p[2]), d, e)

-----------------------------------------------------------------------------
(* build_sorted_mapping                                                    *)

\* len(x.encode('utf-8'))
ByteLen(s) == FoldLeft(LAMBDA n, c : n + Len(Utf8[c]), 0, s)

\* The four categories merged in the code's precedence order.
AllMappings ==
    DictUpdate(DictUpdate(DictUpdate(DictUpdate(<<>>, SpecialForms),
                                     StdlibMacros),
                          Primitives),
               NilMapping)

\* Insert p into a sequence sorted by descending byte length, after every
\* entry of equal length: sorted(..., reverse=True) is stable.
InsertByByteLen(sorted, p) ==
    LET k == Len(SelectSeq(sorted, LAMBDA q : ByteLen(q[1]) >= ByteLen(p[1])))
    IN  SubSeq(sorted, 1, k) \o <<p>> \o SubSeq(sorted, k + 1, Len(sorted))

SortByByteLenDesc(s) == FoldLeft(InsertByByteLen, <<>>, s)

BuildSortedMapping == SortByByteLenDesc(AllMappings)

\* is_all_ascii
IsAllAscii(s) == \A i \in DOMAIN s : s[i] \in AsciiChars

-----------------------------------------------------------------------------
(* What the spec says the table is (section 3): a glyph is mapped to the   *)
(* name given by the category merged last among those that contain it.    *)

Categories == <<SpecialForms, StdlibMacros, Primitives, NilMapping>>

Glyphs == UNION {DictKeys(Categories[i]) : i \in 1..4}

DictGet(d, k) == d[CHOOSE i \in DOMAIN d : d[i][1] = k][2]

RefName(g) ==
    LET last == CHOOSE i \in 1..4 :
                    /\ g \in DictKeys(Categories[i])
                    /\ \A j \in i + 1..4 : g \notin DictKeys(Categories[j])
    IN  DictGet(Categories[last], g)

=============================================================================
