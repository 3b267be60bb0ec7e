---------------------------- MODULE TokenReplacer ----------------------------
(***************************************************************************)
(* replace_in_guage_source: the token-mode rewrite of a Guage source text. *)
(*                                                                         *)
(* The state is the function's: the text it was given (original), the     *)
(* text being rewritten (content), the entries of the sorted mapping the   *)
(* for loop has still to visit (todo) and whether it has returned (pc).    *)
(* One ApplyEntry step is one iteration of the loop, all of its re.sub     *)
(* calls included; Finish is the two fixed rewrites and the return.        *)
(***************************************************************************)
EXTENDS GuageSourceRewrite

CONSTANT Inputs      \* the source texts the function is given

ASSUME Inputs \subseteq Text

VARIABLES original, content, todo, pc
vars == <<original, content, todo, pc>>

-----------------------------------------------------------------------------
Init ==
    /\ original \in Inputs
    /\ content = original
    /\ todo = BuildSortedMapping
    /\ pc = "loop"

ApplyEntry ==
    /\ pc = "loop"
    /\ todo # <<>>
    /\ content' = ReplaceEntry(content, Head(todo))
    /\ todo' = Tail(todo)
    /\ UNCHANGED <<original, pc>>

Finish ==
    /\ pc = "loop"
    /\ todo = <<>>
    /\ content' = SpecialTokenRewrites(content)
    /\ pc' = "done"
    /\ UNCHANGED <<original, todo>>

Next == ApplyEntry \/ Finish

\* The function runs to completion once called: nothing in it blocks.
Spec == Init /\ [][Next]_vars /\ WF_vars(Next)

-----------------------------------------------------------------------------
TypeOK ==
    /\ original \in Inputs
    /\ content \in Text
    /\ todo \in Seq(Entry)
    /\ pc \in {"loop", "done"}

\* The text as the caller sees it: the input until the function returns.
Returned == IF pc = "done" THEN content ELSE original

Abstract == INSTANCE TokenRewrite
                WITH source <- original, result <- Returned, rewritten <- pc = "done"

\* The regular-expression passes of replace_in_guage_source, run entry by
\* entry in byte-length order, implement the token rewrite the spec
\* describes: every token rewritten at the right boundaries, and nothing
\* else touched.
ImplementsTokenRewrite == Abstract!SafetySpec

=============================================================================
