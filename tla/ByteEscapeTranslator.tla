------------------------ MODULE ByteEscapeTranslator ------------------------
(***************************************************************************)
(* replace_intern_preload run on the text of intern.c.  The state is the   *)
(* text it was given (original), the text being rewritten (content), the  *)
(* entries of the sorted byte map the loop has still to visit (todo) and   *)
(* whether it has returned (pc).  One ReplaceEscape step is one iteration  *)
(* of the final loop.                                                      *)
(*                                                                         *)
(* The input is a sequence of fragments, as in LiteralReplacer: a C string *)
(* literal (its content given as text) or other C text.                    *)
(***************************************************************************)
EXTENDS InternPreloadRewrite

CONSTANT Inputs

Fragment == [lit : BOOLEAN, text : Text]

ASSUME Inputs \subseteq Seq(Fragment)

FragmentText(f) == IF f.lit THEN Quote \o f.text \o Quote ELSE f.text

PreloadText(fs) == FlattenSeq([i \in DOMAIN fs |-> FragmentText(fs[i])])

VARIABLES frags, content, todo, pc
vars == <<frags, content, todo, pc>>

Init ==
    /\ frags \in Inputs
    /\ content = PreloadText(frags)
    /\ todo = SortedByteMap
    /\ pc = "loop"

ReplaceEscape ==
    /\ pc = "loop"
    /\ todo # <<>>
    /\ content' = ReplaceQuotedEscape(content, Head(todo))
    /\ todo' = Tail(todo)
    /\ UNCHANGED <<frags, pc>>

Return ==
    /\ pc = "loop"
    /\ todo = <<>>
    /\ pc' = "done"
    /\ UNCHANGED <<frags, content, todo>>

Next == ReplaceEscape \/ Return

Spec == Init /\ [][Next]_vars /\ WF_vars(Next)

-----------------------------------------------------------------------------
TypeOK ==
    /\ frags \in Inputs
    /\ content \in Text
    /\ todo \in Seq(Entry)
    /\ pc \in {"loop", "done"}

(***************************************************************************)
(* What the spec (section 4.4) says the pass does: a string literal whose  *)
(* content is exactly the escaped form of a glyph of any of the five       *)
(* tables becomes the quoted name of that glyph; nothing else changes.     *)
(* The escaped form is derived character by character: an ASCII character *)
(* other than a quote, a backslash or a non-printable one is written as    *)
(* itself, any other character as the escapes of its UTF-8 bytes.          *)
(***************************************************************************)
PreloadGlyphs == Glyphs \cup DictKeys(AsciiTokenReplacements)

PreloadName(g) ==
    IF g \in DictKeys(AsciiTokenReplacements)
    THEN DictGet(AsciiTokenReplacements, g)
    ELSE RefName(g)

Written(c) ==
    IF c \in AsciiChars \ (NonPrintable \cup {"\"", "\\"})
    THEN <<c>>
    ELSE [i \in DOMAIN Utf8[c] |-> HexEscape[Utf8[c][i]]]

WrittenForm(g) == FlattenSeq([i \in DOMAIN g |-> Written(g[i])])

RefFragment(f) ==
    LET named == {g \in PreloadGlyphs : WrittenForm(g) = f.text}
    IN  IF f.lit /\ named # {}
        THEN Quote \o PreloadName(CHOOSE g \in named : TRUE) \o Quote
        ELSE FragmentText(f)

RefPreloadRewrite(fs) == FlattenSeq([i \in DOMAIN fs |-> RefFragment(fs[i])])

\* When replace_intern_preload returns, every preload string that spells a
\* glyph in escapes has become its name, whatever literals stand next to
\* it, and no other text of intern.c has changed.
PreloadRewrite == pc = "done" => content = RefPreloadRewrite(frags)

=============================================================================
