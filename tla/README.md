# TLA+ models of `src/bootstrap/rename_symbols.py`

`rename_symbols.py` moves the Guage runtime from Unicode glyph identifiers
(`⊕`, `∈`, `⧉`, ...) to English names. It rewrites three kinds of text:

* **Guage source** (`tests/*.test`, `stdlib/*.scm`, `../examples/*.scm`):
  token mode, `replace_in_guage_source`. A glyph is replaced only as a whole
  token, bounded by `(`, `)`, whitespace or the ends of the text. `:glyph`
  keywords are also replaced, and so are `(?` and `(|` followed by whitespace.
* **C source** (`*.c`, `*.h`): literal mode, `replace_in_c_strings`. Glyphs are
  replaced only inside string literals. `"?"` and `"|"` are replaced only when
  they are the whole literal, because elsewhere they are C operators.
* **`intern.c`'s preload table**: byte-escape mode, `replace_intern_preload`. Each
  glyph is written there as a C string of `\xHH` escapes. The code derives
  that form for every glyph and replaces each whole quoted occurrence with the
  quoted name.

All three read one table. `build_sorted_mapping` merges `SPECIAL_FORMS`,
`STDLIB_MACROS`, `PRIMITIVES` and `NIL_MAPPING` with `dict.update`, so a later
category wins. It then sorts the entries by descending UTF-8 byte length, so a
glyph is tried before any shorter glyph inside it. `main` chooses the blocks
from the flags (`--intern`, `--c`, `--guage`, `--all`, `--dry-run`). It runs the
intern.c block, then the C glob, then the three Guage globs. `process_file`
picks a replacer by extension, writes the file if the text changed, and
returns 1 for the count.

The program is sequential: no threads, no callbacks beyond `re.sub`'s, no
waiting. So the hard behaviour is not concurrency. It is:

* the order in which entries and rules are applied;
* which characters the regular expressions' boundaries see at that moment;
* how quotes pair up in C text;
* how `main`'s blocks interact across flags, dry runs, reruns and I/O errors.

## Modules

| module | models | state / actions |
|---|---|---|
| `SymbolTable` | the category tables as constants; `build_sorted_mapping` (lines 847-858); `is_all_ascii` | operators. A Python dict is an insertion-ordered sequence of pairs (`DictSet` overwrites in place). `SortByByteLenDesc` is a stable insertion sort keyed by `ByteLen` over each character's UTF-8 bytes. Also the spec's reference `RefName`: the name of the last category that has the glyph. |
| `PyStr` | `str.replace` and `re.sub` | `StrReplace` scans leftmost and non-overlapping. `ReSub` takes a pattern record: start-of-text, one-character lookbehind, a literal, one-character lookahead, end-of-text. Lookarounds read `re.sub`'s input, and the scan resumes after a match. |
| `GuageSourceRewrite` | `replace_in_guage_source` as operators (864-902) | `ReplaceEntry` is one loop iteration: the ASCII-conflict skip, the `^` pattern, the lookbehind pattern, and the `:keyword` pattern when `old` does not start with `:`. `SpecialTokenRewrites` is the `(?` / `(\|` rules. |
| `TokenReplacer` | the function as a state machine | `original, content, todo, pc`. `ApplyEntry` is one whole iteration. `Finish` is the two fixed rewrites plus the return. |
| `TokenRewrite` | the abstract token rewrite of spec section 4.2 | `source, result, rewritten`. It splits the text at token boundaries and maps each segment: a glyph goes to `RefName`, `:glyph` to `:name`, and `(?`/`(\|` before whitespace to `if`/`abs`. `TokenReplacer` implements it through `INSTANCE ... WITH source <- original, result <- Returned, rewritten <- pc = "done"`. |
| `CStringRewrite` | `replace_in_c_strings` and `replace_in_string_literal` as operators (904-939) | `SpanEnd` is the pattern `"(?:[^"\\]|\\.)*"`. The pattern is deterministic: it fails at the end of the text or at backslash-newline. `ReplaceInInner` is one loop iteration (exact match for single ASCII keys). `ExactMatchRewrite` holds the `"?"`/`"\|"` rules. |
| `LiteralReplacer` | `re.sub`'s scan as a state machine | `frags, out, pos, pc`. `MatchLiteral` is one match plus the whole callback. `NoMatch` copies one character. `Return` ends the scan. The input is a sequence of fragments (string literal with pieces, or host code), so the reference rewrite `RefHostRewrite` knows where the real literals are. |
| `InternPreloadRewrite` | `replace_intern_preload` as operators (941-968) | `AllDict`, which also holds `ASCII_TOKEN_REPLACEMENTS`. `EscapeByte`/`CEscape` encode byte by byte. `ByteMap`, then `SortedByteMap` sorted by `len()`, where an escape counts 4. `ReplaceQuotedEscape`. A `\xHH` escape is one model character (`HexEscape[b]`). |
| `ByteEscapeTranslator` | the final loop as a state machine | `frags, content, todo, pc`. `ReplaceEscape` is one `str.replace`, and `Return` ends the loop. The reference `RefPreloadRewrite` derives each glyph's written form character by character, following spec section 4.4. |
| `FileProcessor` | `process_file` (970-991) and `main` (993-1050) | `disk, before, flags, phase, queue, total, runs`, plus the history variable `preview`. Actions: `Invoke` (a new command line, including the usage exit), `InternBlock`, `InternWriteFails`, `ProcessFile`, `ProcessFileReadFails`, `ProcessFileWriteFails`, `EndBlock`. A file's content is a text, or `Absent`, `Undecodable` (not UTF-8) or `Unreadable` (`open` or `read` raises another `OSError`, such as a permission error or a directory named `*.c`). The three rewrites are the operators above, applied whole. |
| `MCGlyphTable` | a slice of the real table | `⧉` is both `macro` (special form) and `arity` (primitive). `∈` is a prefix of `∈?`. `?¬` starts with `?`. `:?` and `∅?` are ASCII-led or ASCII-ended. `∅` is `nil`. `\|` and `?` are the ASCII entries. Glyph bytes are the real UTF-8 bytes. |
| `MC*` | model-checking instances | input sets and bounds, below |

Each action is a whole call of the code. `ApplyEntry` runs all three `re.sub`
calls of an iteration. `MatchLiteral` runs the whole callback. `ProcessFile`
reads, rewrites, compares, writes and counts. Abstracted data: glyphs are
model characters with their real UTF-8 bytes, and each name is one character
(`"type_decl"`, `"plus"` for `+`). Only the token boundaries and the glyph bytes
matter to the properties. Printing, argparse help and path joining are left
out.

## Runs

| run | cfg | expect | shows |
|---|---|---|---|
| `token_rewrite` | `MCTokenReplacer.cfg` | pass | `replace_in_guage_source` refines the spec's token rewrite on every text of ≤ 5 characters over `( ) space newline : ? \| x ∈ ∅ ¬ ⧉ ⊕` not starting with `:` (3.7 M states, about 80 s). The boundaries are the spec's and the code's: `(` or whitespace before a glyph, `)` or whitespace after it. On `)∈` and `∈(` both leave the glyph, while the docstring (lines 870, 883) would call it a token; see below. |
| `token_keyword_at_start` | `MCTokenReplacerKeyword.cfg` | violation | `:∈` at the very start of a file stays: line 891 has no `^` alternative, unlike line 885. |
| `literal_isolation` | `MCLiteralReplacer.cfg` | pass | For ≤ 3 fragments, literals holding glyphs, pairs of pieces, `\"`, `\\`, and host code `? \| x \n`: only the literals change, each glyph whole (longest first). |
| `literal_char_quote` | `MCLiteralReplacerCharLiteral.cfg` | violation | The C character literal `'"'` shifts the pairing of quotes. Over ≤ 4 fragments of `'"'`, `"x"` and host `?`, the text `'"'"x"?"x"` comes out as `'"'"x"if"x"`: the host ternary `?` between two real literals is rewritten. |
| `preload_rewrite` | `MCByteEscapeTranslator.cfg` | pass | For ≤ 3 fragments of escaped glyph strings, `"x"` and separators: every preload string becomes its name, and nothing else changes. |
| `files_count` | `MCFileProcessor.cfg` | pass | Without the intern.c block, over three runs of four files with missing and undecodable files and failed writes (1.3 M states): the printed total equals the number of files changed (`ReportedCount`). Every file other than intern.c ends as its mode's rewrite of its starting text, or unchanged in a dry run or when its mode is off (`EveryFileRewritten`). |
| `files_count_intern` | `MCFileProcessorRerunCount.cfg` | violation | intern.c is counted even when unchanged, so a rerun reports 1. This contradicts spec scenario 4. |
| `files_dry_run` | `MCFileProcessorDryRun.cfg` | pass | When intern.c goes through one pass per run, a dry run's total equals the following real run's total, over three runs of four files (3.2 M states). |
| `files_dry_run_all` | `MCFileProcessorDryRunAll.cfg` | violation | With `--intern --c` or `--all`, the dry run's C block reads intern.c unrewritten. Its total then differs from the real run's. |
| `files_partial_write` | `MCFileProcessorPartialWrite.cfg` | violation | `open(...,'w')` truncates before writing, so a failed write leaves a cut file, or a file that is not UTF-8 when the cut falls inside a multi-byte character. This contradicts spec section 7. |
| `files_decode_error` | `MCFileProcessorDecodeError.cfg` | violation | A non-UTF-8 intern.c raises out of `main`, because only `FileNotFoundError` is caught. `process_file` also catches `UnicodeDecodeError`, but any other read error (modelled as `Unreadable`) ends `main` midway through a block. |
| `files_preload_only` | `MCFileProcessorPreloadOnly.cfg` | violation | `glob('*.c')` includes intern.c, so `--c` sends it through the literal pass. |

Each passing property has a mutant in `PROJECT.json`, written as an operator
just before the definition it replaces:

* a lookahead without `$`;
* a literal pattern that ignores escapes;
* a preload replace without the quotes;
* `process_file` counting unchanged files;
* `process_file` dispatching on `.c` only, so headers get the token pass;
* `total += 1` moved under `if not args.dry_run`.

Under the run's own cfg, each mutant makes TLC report a violation.

A second divergence at line 938 was also seen while modelling: a backslash-newline
inside a literal makes the pattern fail, because `.` excludes newline. It is
recorded as a hazard. It is not a separate run, because it is the same pattern
as `literal_char_quote`.

## Bounds and why they suffice

* The table slice keeps every kind of collision the real table has. Among its
  594 entries, no single-ASCII key is in the four categories, so the skip at
  line 876 is dead code. The only ASCII keys are `:?` and `#?`.
* Token texts of length 5 over 13 characters are enough to reach: every glyph between each kind of
  boundary, a glyph fused with a letter, `:glyph` after `(`, space or text
  start, `(? ` / `(| `, `(?` before `)` or at the end, and `⧉`, the glyph of two categories, next to each kind of boundary.
* Three fragments put a literal between two others, or host code between two
  literals, which is what quote pairing needs. The character-literal run needs
  four (`'"'`, a literal, host `?`, a literal) for host code to be paired as a
  literal. So it uses only those three fragments, and four of them at most.
* In the two passing file runs, three invocations let a real run follow a dry run,
  and then let a rerun see the output of both (scenario 4). It also lets a rerun
  start from a file that a failed write cut short. The violation runs keep two
  invocations, which is enough for their counterexamples.
* Four files cover the globs: intern.c, a `.h` header, a `.test` file and a
  stdlib `.scm` file, so the Guage block handles two files in a row. Each file
  has contents that change under its pass, stay fixed, or are not UTF-8.
  intern.c and the stdlib file may also be missing, and the header may be unreadable. One header content keeps a `¬` outside
  its literal, so a failed write of its rewrite can cut a multi-byte character. The stdlib file may start
  with `:⊕`, the keyword case that line 891 misses.

## Fairness

Every `Spec` has `WF_vars(Next)`. The code is one sequential process that
never waits, so a step that can be taken is taken. No run checks a liveness
property. For `FileProcessor`, TLC's liveness checking re-evaluates the
rewrites in every `ENABLED` test and does not finish. Termination of loops
over finite globs is not in doubt.

## Not modelled

* `QUESTION_TO_IF` (lines 831-833) is never read.
* Idempotency (spec sections 4.2 and 8) is not a run. A second pass could
  only change something if a name contained a glyph key. No name in the real
  table contains any of the 594 keys (`:?` and `#?` included), so
  idempotency holds because of the table's data, not because of any step
  order. No plausible mutant of the code breaks it.
* `⚠→` (line 200) and `⚡⊙` (line 104) are both mapped to `error-data`. This
  is listed as a hazard: the rename merges two constructs and cannot be
  undone. It is a fact of the data, for a table review or a uniqueness test,
  not for the model checker.
* The docstring of `replace_in_guage_source` (line 870) and the comment at
  line 883 call every parenthesis a token boundary. Spec section 4.2 and the
  patterns at lines 884-885 accept only `(` before a glyph and `)` after it.
  `TokenRewrite` follows the spec, so `token_rewrite` checks the code against
  the spec. A glyph right after `)` or right before `(` is left by both, which
  disagrees with the docstring's wording only. No run checks against the docstring:
  the spec, not the comment, is the contract here.
* Guage string literals and `;` comments are not modelled. Neither the code
  nor the spec's token rewrite knows about them. A glyph inside a Guage string
  is renamed when spaces bound it and kept when it touches a quote, and `(? `
  inside a comment becomes `(if `. This is listed as a hazard (line 886). No
  reference exists to check it against.
* Output formatting (`MODIFIED:`/`WOULD MODIFY:` lines) is not modelled.
* Other processes changing files between glob, read and write are not
  modelled: the tool is run by hand on a working tree.
* The real 594-entry table is not modelled: its regex passes are beyond TLC.
  It is represented by the slice above.
* Every function and every state change of `rename_symbols.py` is an action or
  operator above. What the map leaves out is the module header, the imports,
  the comments, the unused `QUESTION_TO_IF`, and the table entries beyond the
  slice. These are data, not control, so more of them would add nothing the
  slice does not already check.
