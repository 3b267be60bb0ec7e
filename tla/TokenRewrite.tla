---------------------------- MODULE TokenRewrite ----------------------------
(***************************************************************************)
(* What the spec (section 4.2) promises of the token-mode rewrite, stated  *)
(* over tokens instead of regular expressions.  The text is cut into       *)
(* segments: every "(", ")" or whitespace character is a segment of its   *)
(* own, and every maximal run of other characters is a word.  A word is    *)
(* rewritten when it follows the start of the text, whitespace or "(" and  *)
(* precedes the end of the text, whitespace or ")":                        *)
(*   a glyph of the table becomes its name;                                *)
(*   ":" followed by a glyph that does not itself start with ":" becomes   *)
(*   ":" followed by the name;                                             *)
(*   "?" and "|" become "if" and "abs" only right after "(" and before     *)
(*   whitespace.                                                           *)
(* Everything else is left as it is.  The rewrite happens in one step,    *)
(* after which rewritten is TRUE.                                          *)
(*                                                                         *)
(* The boundaries are the spec's and the regular expressions' ("(" before, *)
(* ")" after), not the docstring's (lines 870 and 883), which calls every  *)
(* parenthesis a boundary: a glyph right after ")" or right before "(" is  *)
(* a token to the docstring and is left as it is by the code and the spec. *)
(***************************************************************************)
EXTENDS SymbolTable

CONSTANT Whitespace

VARIABLES source, result, rewritten
vars == <<source, result, rewritten>>

Boundary == {"(", ")"} \cup Whitespace

\* Length of the word at the head of t (0 when t starts with a boundary).
WordLen(t) ==
    LET i == SelectInSeq(t, LAMBDA c : c \in Boundary)
    IN  IF i = 0 THEN Len(t) ELSE i - 1

RECURSIVE Segments(_)
Segments(t) ==
    IF t = <<>> THEN <<>>
    ELSE LET n == IF WordLen(t) = 0 THEN 1 ELSE WordLen(t)
         IN  <<SubSeq(t, 1, n)>> \o Segments(SubSeq(t, n + 1, Len(t)))

MappedGlyphs == {g \in Glyphs : ~(Len(g) = 1 /\ g[1] \in {"?", "|"})}

OneOf(S) == {<<c>> : c \in S}

RewriteSegment(seg, k) ==
    LET w     == seg[k]
        left  == k = 1 \/ seg[k - 1] \in OneOf({"("} \cup Whitespace)
        right == k = Len(seg) \/ seg[k + 1] \in OneOf({")"} \cup Whitespace)
        keyed == {g \in MappedGlyphs : g[1] # ":" /\ w = <<":">> \o g}
        opener == /\ k > 1 /\ seg[k - 1] = <<"(">>
                  /\ k < Len(seg) /\ seg[k + 1] \in OneOf(Whitespace)
    IN  CASE left /\ right /\ w \in MappedGlyphs -> RefName(w)
          [] left /\ right /\ keyed # {} ->
                 <<":">> \o RefName(CHOOSE g \in keyed : TRUE)
          [] opener /\ w = <<"?">> -> <<"if">>
          [] opener /\ w = <<"|">> -> <<"abs">>
          [] OTHER -> w

TokenRef(t) ==
    LET seg == Segments(t)
    IN  FlattenSeq([k \in DOMAIN seg |-> RewriteSegment(seg, k)])

-----------------------------------------------------------------------------
Init == result = source /\ ~rewritten

Rewrite ==
    /\ ~rewritten
    /\ result' = TokenRef(source)
    /\ rewritten'
    /\ UNCHANGED source

SafetySpec == Init /\ [][Rewrite]_vars

Spec == SafetySpec /\ WF_vars(Rewrite)

=============================================================================
