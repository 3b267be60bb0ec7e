-------------------------- MODULE MCFileProcessor --------------------------
(***************************************************************************)
(* A directory of four files: intern.c, a header, a test file and a       *)
(* stdlib file, each with a few contents that exercise its rewrites.  A  *)
(* file may also be missing, not UTF-8, or unreadable.  Three            *)
(* invocations let a real run follow a dry run and a rerun see the        *)
(* output of both.                                                         *)
(***************************************************************************)
EXTENDS FileProcessor, MCGlyphTable, TLC

CONSTANTS Intern, Header, TestFile, Stdlib, NoFile, NotUtf8, NoRead

MCFiles == {Intern, Header, TestFile, Stdlib}
MCExt == Intern :> "c" @@ Header :> "h" @@ TestFile :> "test" @@ Stdlib :> "scm"
MCFileOrder == <<Intern, Header, TestFile, Stdlib>>

Q == "\""
\* "\xe2\x88\x88": the preload form of the glyph ELEMENT.
EscapedElement == <<Q, MCHexEscape["xe2"], MCHexEscape["x88"], MCHexEscape["x88"], Q>>

MCContents ==
    Intern :> {NoFile, NotUtf8, EscapedElement, <<Q, "?", Q>>, <<Q, "ELEMENT", Q>>}
    @@ Header :> {NotUtf8, NoRead, <<"?">>, <<Q, "OPLUS", Q>>, <<"NOT", Q, "OPLUS", Q>>}
    @@ TestFile :> {NotUtf8, <<"(", "?", " ", "x", ")">>, <<"(", "OPLUS", ")">>,
                    <<"ELEMENT", "x">>}
    @@ Stdlib :> {NoFile, <<"(", "|", " ", "x", ")">>, <<":", "OPLUS">>}

Modes == {{"c"}, {"guage"}, {"intern"}, {"all"}, {"c", "guage"},
          {"intern", "guage"}, {"intern", "c"}}
WithDryRun(ms) == ms \cup {m \cup {"dry_run"} : m \in ms} \cup {{}}

\* Invocations that do not select the intern.c block.
MCInvocationsNoIntern == WithDryRun({m \in Modes : "intern" \notin m /\ "all" \notin m})
\* Invocations that never send intern.c through two rewrites.
MCInvocationsOnePass == WithDryRun({m \in Modes : "all" \notin m /\ ~({"intern", "c"} \subseteq m)})
MCInvocations == WithDryRun(Modes)
=============================================================================
