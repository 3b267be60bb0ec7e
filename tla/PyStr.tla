------------------------------- MODULE PyStr -------------------------------
(***************************************************************************)
(* The semantics of the two Python text primitives rename_symbols.py is    *)
(* built on, over texts that are sequences of characters:                  *)
(*   str.replace(old, new)    leftmost, non-overlapping, left to right;    *)
(*   re.sub(pattern, repl, s) for the pattern shape the code uses: an      *)
(*       optional one-character lookbehind or "^", a literal, and a        *)
(*       one-character lookahead or "$".                                   *)
(* SequencesExt!ReplaceAllSubSeqs is not used for str.replace: it picks    *)
(* the split with the most matches, which is not what Python does.        *)
(***************************************************************************)
EXTENDS Naturals, Sequences

\* s occurs in t at position i.
OccursAt(t, i, s) ==
    /\ i + Len(s) - 1 <= Len(t)
    /\ SubSeq(t, i, i + Len(s) - 1) = s

RECURSIVE ReplaceFrom(_, _, _, _, _)
ReplaceFrom(t, i, old, new, acc) ==
    IF i > Len(t) THEN acc
    ELSE IF OccursAt(t, i, old)
         THEN ReplaceFrom(t, i + Len(old), old, new, acc \o new)
         ELSE ReplaceFrom(t, i + 1, old, new, Append(acc, t[i]))

\* t.replace(old, new), for a non-empty old.
StrReplace(t, old, new) == ReplaceFrom(t, 1, old, new, <<>>)

(***************************************************************************)
(* A pattern is a record:                                                  *)
(*   atStart  the literal may match at the start of the text;             *)
(*   before   the characters allowed just before it elsewhere;            *)
(*   lit      the literal (re.escape'd glyph, or fixed characters);       *)
(*   after    the characters the lookahead accepts just after it;         *)
(*   atEnd    whether the lookahead also accepts the end of the text.     *)
(* Lookbehind and lookahead read the text re.sub was given, not its        *)
(* output, and scanning resumes after the matched literal.                 *)
(***************************************************************************)
MatchesAt(t, i, p) ==
    /\ OccursAt(t, i, p.lit)
    /\ IF i = 1 THEN p.atStart ELSE t[i - 1] \in p.before
    /\ LET j == i + Len(p.lit)
       IN  IF j > Len(t) THEN p.atEnd ELSE t[j] \in p.after

RECURSIVE SubFrom(_, _, _, _, _)
SubFrom(t, i, p, r, acc) ==
    IF i > Len(t) THEN acc
    ELSE IF MatchesAt(t, i, p)
         THEN SubFrom(t, i + Len(p.lit), p, r, acc \o r)
         ELSE SubFrom(t, i + 1, p, r, Append(acc, t[i]))

ReSub(p, r, t) == SubFrom(t, 1, p, r, <<>>)

=============================================================================
