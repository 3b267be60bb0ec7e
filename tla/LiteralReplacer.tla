--------------------------- MODULE LiteralReplacer ---------------------------
(***************************************************************************)
(* replace_in_c_strings: the literal-mode rewrite of a C source text.      *)
(*                                                                         *)
(* The code runs re.sub with the pattern "(?:[^"\\]|\\.)*" and the         *)
(* callback replace_in_string_literal.  The state follows re.sub's scan:   *)
(* the output built so far (out), the position reached (pos), and whether  *)
(* the function has returned (pc).  One MatchLiteral step is one match and *)
(* one call of the callback; one NoMatch step copies one character.        *)
(*                                                                         *)
(* The input is given as a sequence of fragments so that the reference     *)
(* rewrite can say where the C string literals really are: a fragment is   *)
(* either a string literal, whose content is a sequence of pieces, or a    *)
(* piece of other C text.  The code sees only the flattened text.          *)
(***************************************************************************)
EXTENDS CStringRewrite

CONSTANT Inputs    \* the C texts the function is given, as fragment sequences

Fragment == [lit : {TRUE}, pieces : Seq(Text)] \cup [lit : {FALSE}, text : Text]

ASSUME Inputs \subseteq Seq(Fragment)

FragmentText(f) ==
    IF f.lit THEN Quote \o FlattenSeq(f.pieces) \o Quote ELSE f.text

HostText(fs) == FlattenSeq([i \in DOMAIN fs |-> FragmentText(fs[i])])

VARIABLES frags, out, pos, pc
vars == <<frags, out, pos, pc>>

content == HostText(frags)

-----------------------------------------------------------------------------
Init ==
    /\ frags \in Inputs
    /\ out = <<>>
    /\ pos = 1
    /\ pc = "scan"

MatchLiteral ==
    /\ pc = "scan"
    /\ pos <= Len(content)
    /\ LiteralAt(content, pos)
    /\ LET e == SpanEnd(content, pos + 1)
       IN  /\ out' = out \o ReplaceInStringLiteral(SubSeq(content, pos, e))
           /\ pos' = e + 1
    /\ UNCHANGED <<frags, pc>>

NoMatch ==
    /\ pc = "scan"
    /\ pos <= Len(content)
    /\ ~LiteralAt(content, pos)
    /\ out' = Append(out, content[pos])
    /\ pos' = pos + 1
    /\ UNCHANGED <<frags, pc>>

Return ==
    /\ pc = "scan"
    /\ pos > Len(content)
    /\ pc' = "done"
    /\ UNCHANGED <<frags, out, pos>>

Next == MatchLiteral \/ NoMatch \/ Return

Spec == Init /\ [][Next]_vars /\ WF_vars(Next)

-----------------------------------------------------------------------------
TypeOK ==
    /\ frags \in Inputs
    /\ out \in Text
    /\ pos \in 1..Len(content) + 1
    /\ pc \in {"scan", "done"}

(***************************************************************************)
(* The rewrite the spec (section 4.3) describes: text outside the string   *)
(* literals is left alone; inside one, a piece that is a glyph becomes its *)
(* name, whole, however it begins (longest match first); and a literal     *)
(* whose whole content is "?" or "|" becomes "if" or "abs".  The pieces of *)
(* a literal are separated so that no glyph spans two of them.             *)
(***************************************************************************)
RefPiece(p) == IF p \in Glyphs THEN RefName(p) ELSE p

RefWhole(inner) ==
    IF inner \in DictKeys(AsciiTokenReplacements)
    THEN DictGet(AsciiTokenReplacements, inner)
    ELSE inner

RefFragment(f) ==
    IF f.lit
    THEN Quote \o RefWhole(FlattenSeq([i \in DOMAIN f.pieces |->
                                         RefPiece(f.pieces[i])]))
               \o Quote
    ELSE f.text

RefHostRewrite(fs) == FlattenSeq([i \in DOMAIN fs |-> RefFragment(fs[i])])

\* When replace_in_c_strings returns, its output is the spec's rewrite:
\* re.sub found exactly the C string literals, the host code around them
\* is unchanged, and each literal's content was rewritten glyph by glyph.
LiteralIsolation == pc = "done" => out = RefHostRewrite(frags)

=============================================================================
