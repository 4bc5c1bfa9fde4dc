# A TLA+ verification project for L4YAML

L4YAML is a YAML 1.2.2 scanner, parser and dumper written in Lean 4, with a C
shim and bindings for Python and Rust.  The Lean sources carry proofs about
single functions; what they say little about is how the scanner's *mutable
stacks evolve over a sequence of lexemes*, and nothing at all about the C shim,
the bindings, the Python layer that writes YAML on top of them and the script
that generates the proofs' test guards.  That is what the modules here are for.

## 1. The system

| part | sources | state | operations |
|---|---|---|---|
| scanner (legacy pipeline: `scan`, `parseYaml`) | `L4YAML/Scanner/{State,Whitespace,Indent,SimpleKey,Document,NodeProperties,Scalar,Scanner}.lean` | position, indentation stack, flow stack, pending simple key and its stack, explicit-key line, document flags, anchors, token array | one step of `scanNextToken` per lexeme |
| scanner (indexed pipeline: `parseYamlSafe`, FFI) | `L4YAML/Scanner/Indexed*.lean` | the same, over a position-indexed state type | the same steps, ported by hand |
| token parser, twice | `L4YAML/Parser/{State,TokenParser}.lean`, `{ParseStateIx,TokenParserIx}.lean` | position in the token array, anchors, tag handles | recursive descent: nodes, collections, documents, stream |
| composition | `L4YAML/Parser/{Composition,IndexedComposition}.lean` | none | scan, parse, assign comments, resolve aliases |
| limits | `L4YAML/Config/Limits.lean` | node and expansion counts while expanding | alias expansion, structural and tag limits, `parseYamlSafe` |
| configuration | `L4YAML/Config/{Config,LoadConfig}.lean` | none | configuration records from YAML |
| handles | `L4YAML/FFI/FFI.lean`, `ffi/l4yaml_shim.c` | reference counts, one thread-local string per thread, runtime on or off | accessors, string accessors, free, initialize, finalize |
| Python binding | `python/l4yaml/{_ffi,__init__,types}.py` | the cached library, the initialised flag, exit hooks, wrappers that own one reference each | find, open and declare the library, initialise, parse, navigate, dump, free, finalise |
| Python compatibility layer | `python/l4yaml/compat.py` | none between calls | `safe_load`, `safe_load_all`, `safe_dump`, `safe_dump_all` |
| Rust binding | `rust/l4yaml/src/*.rs` | wrappers, borrows | load, navigate, drop |
| dumper | `L4YAML/Output` | none | style and layout of a value under a configuration |
| schema, values, grammar | `L4YAML/{Schema,Spec}` | none | pure functions |
| suite guard generator | `gen-suite-guards.py`, `Tests/SuiteRunner/Meta.lean` | the state of a line parser, stages, observed answers, generated files | read tests, sort, probe the parser, write guards |
| repository scripts | `scripts/*.py` | none | text in, text or report out |

`PROJECT.json` lists every part with its status.  The parts are layered: text
-> scanner -> tokens -> token parser -> documents -> limits and alias
expansion -> a value tree, which the shim hands out as reference-counted
handles.  Within one pipeline the parts are called in sequence and share
nothing but the values they return; concurrency appears only in the bindings,
where foreign threads share one runtime and hold references into one tree.

What is hard, and what must hold:

- **Scanner.**  A `:` turns text that was read long ago into a key, by writing
  into slots of the token array reserved for it.  Correct means: the slots are
  still there, nothing else is overwritten, the brackets still nest, entries
  stand at the column of their collection, positions stay in order, and what
  belongs to a document (anchors, directives, a pending `?`) ends with it.
- **Token parser.**  It trusts the nesting and reads past what is missing;
  correct means that it consumes every token exactly once, in order, or says so.
- **Limits.**  Counters threaded through a recursion over shared subtrees:
  boundaries, cycles, and what one limit bounds when another is passed.
- **Handles.**  Reference counts are conserved by every call and every early
  return, a string stays valid as long as its caller may look at it, nothing is
  used after it was freed, and no thread breaks another's counts.
- **Python binding.**  One library, one runtime and one flag for all threads,
  without a lock, over calls that release the interpreter lock; handles owned
  by local variables on paths that raise.  Correct means: nothing is called
  before its signature is set and the runtime is up, each handle is given up
  once, initialisations and finalisations balance, and a failed start can be
  repeated.
- **Compatibility layer and dumper.**  A value goes through two writers and two
  parsers.  Correct means that types and structure survive, for every
  configuration that is accepted, and that a stream is written whole or not.
- **Suite guard generator.**  A second parser of the test files that must agree
  with the suite runner's, and guards that claim to state observed behaviour.
- **Schema.**  Pure functions on characters.

## 2. Plan

Done:

1. `Scanner` with `ScannerProperties`, `ScannerProofs`, `ScannerTokenProofs`,
   `ScannerNestProofs`: every safety property the runs check of it is proved.
2. `Handles` with `HandlesProperties`, `Ownership`, `HandlesProofs` and
   `HandlesStepProofs`: the shim's calls as sequences of reads and writes of
   reference counts, with the callers as a parameter, and the abstract ownership
   specification that they implement when no wrapper is used by two threads.
3. `Binding` with `BindingProofs`: the life cycle of library and runtime under the
   Python binding, above the calls whose inside is the subject of `Handles`.
4. `Scalars`, `Layout`, `Compat` with `CompatProofs`: the two writers, from single
   scalars to collections, and the calls, for which the writers are parameters;
   `CompatText` gives `Compat` those of `Layout`, which extends `Scalars`.
5. `SuiteGuards` with `SuiteProperties`, which implements `SuiteMeta`, and
   `SuiteProofs`.

Left, in this order:

6. `Limits`: alias expansion and the structural limits over small trees, with
   an unlimited reference expansion; a bound on the size of what is returned.
7. `ScannerIx`: the indexed scanner's guards over the same state, against the
   properties of `ScannerProperties`.
8. `TokenStream`: the abstract nested token stream; `Scanner` refines it, and
   the token parser takes it as its input.
9. `Parser`: the document loop and the collection loops over a token stream.
10. The Rust binding's initialisation and its limits handles.

## 3. The scanner

`Scanner.tla` models `scan` (`Scanner.lean:544`): `Init` is the state it starts
in, `Next` one half of `scanNextToken` (`Scanner.lean:452`).

| module | code |
|---|---|
| `Preprocess`, `BadDedent`, `TabInIndentation` | `scanNextToken_preprocess`: `skipToContent`, `unwindIndents`, the dedent check, `saveSimpleKey` |
| `EndOfStream`, `EndOfStreamFails` | `scanLoop` when there is no more content |
| `UnderIndentedFlowContent` ... `OrphanDirectives` | `scanNextToken_dispatchStructural`, the directive and marker handlers of `Document.lean`, `checkNoPendingDirectives`, `checkBlockFlowIndent` |
| `FlowStart`, `FlowEnd`, `FlowEntry`, `FlowFails` | the five flow indicators |
| `BlockEntry`, `Key`, `Value`, `ValueFails` | `scanBlockEntry`, `scanKey`, and `scanValue` with its four parts `ClearedKey`, `ValueFaults`, `PreparedTokens`/`PreparedIndents`, `Value` |
| `Anchor`, `Alias`, `Tag`, `BlockScalar`, `QuotedScalar`, `PlainScalar` | `scanNextToken_dispatchContent` |
| `Malformed` | every error that depends on text the model abstracts |

State variables have the names of the fields of `ScannerState`.  `phase` is the
program counter (between the two halves, or how the scan ended); `follow` is the
text's side: the lexemes that may still come on the current line.

The text is not a parameter: it is chosen lexeme by lexeme as it is read, each
lexeme at any later position, so a behaviour is a text together with its scan.
Abstractions, all of data:

- A lexeme is one column wide, since columns are only ever compared.  A
  multi-line scalar ends at a chosen line and column.
- Scalars, tags and comments have no text.  `comments` is a side channel that
  nothing reads during the scan; `documentEverStarted` is written and never
  read; both are left out.
- Where the code tells the next lexeme from a look-ahead (after a closing quote
  or bracket, inside a plain scalar), `follow` is restricted to what passes.
- The byte offset, the fuel of the loops and the end-of-input position are left
  out: `simpleKey.pos.offset = s.offset` becomes equality of line and column.

Bounds: `MaxLine` and `MaxCol` bound the positions, `MaxTokens` the array at the
time a lexeme is read.  A text that would exceed them is not read further; it
may still end.

### Runs

| run | what it shows | bounds |
|---|---|---|
| `ScannerBlocks` | block structure, keys and multi-line scalars keep the tokens nested, aligned and ordered | three lines, three columns, six lexemes: two levels of nesting with a dedent below each, the smallest that lets a key be confirmed one line late or at the wrong level |
| `ScannerFlow` | the stacked keys of nested flow collections, inside blocks too | two lines, four columns: `[{` with a key inside and one around it |
| `ScannerDocuments` | anchors and directives end with their document | five lines and ten tokens: two documents with directives and `...` between them |
| `ScannerExplicitEntry`, `ScannerExplicitDocument`, `ScannerMarker`, `ScannerQuoted` | statements of the source's comments that the code does not keep (section 9) | the smallest text that shows each |

Deadlock is checked in every run: a text may end in any state between lexemes,
so a state without a successor would be a lexeme without a handler.  An error or
the end of the stream stutters (`Terminating`).  No fairness is assumed and no
liveness is stated: a scan is a loop over a finite text whose progress (the
offset grows) is exactly what the model abstracts.

What the properties say:

- `SlotsReserved`: each pending key owns two placeholders at its own position
  and no two keys share one.
- `TokensPreserved`: no step changes a token, but for a placeholder that becomes
  the key or mapping start of its position.
- `OpenCollections`: folding the tokens gives the brackets the two stacks say
  are open, blocks outside flows, each block at its entry's column; an accepted
  text leaves none open.
- `KeySpan`: what a `:` would take as its key is complete, and what stays on the
  key stack leaves open exactly the collections it waits for.
- `Aligned`: an entry of a block collection is at the collection's column.
- `TokensInOrder`: positions never go back, although keys are inserted later.
- `AliasScope`, `DirectiveBlock`: anchors, directives and documents.

Each has a mutant: a definition of `Scanner` with a plausible slip, kept next to
the definition it replaces, under which the run fails.

## 4. The handles

`Handles.tla` models `l4yaml_shim.c`, the exported functions of `FFI.lean` as
the shim uses them, and the two bindings that call it.

- An object is a model value with its fields (`Fields`) and its count (`rc`, 0
  once freed).  Objects are immutable, as Lean's are, so only counts change.
  Results lead to a value or a document array, those to values and strings.
- A call is the sequence of its effects, kept in `todo`: `Inc` and `Dec` for
  `lean_inc` and `lean_dec`, `Format` for a function that makes a string,
  `Capture` and `Hold` for the two halves of `capture_string`, `Wrap` when the
  caller stores the handle.  `Inspect`, `Access` and `Unpacked` are the three
  patterns the shim is written in.
- A count is read (`ReadCount`) and written (`Increment`, `Decrement`) in two
  steps, since the counts of single-threaded Lean objects are not atomic; every
  thread may run between them.  The last `Dec` frees the object and gives up
  its fields.  Objects of the library itself (`Static`) are not counted.
- `Shared` selects the binding.  Python: any thread uses any wrapper (the
  interpreter lock is released around each call) and strings are copied before
  the call returns; a wrapper is freed when no method of it runs.  Rust:
  wrappers are neither `Send` nor `Sync`, so a wrapper is used by its maker
  (`owner`), and `as_str`, `tag` and `anchor` return a borrow (`lent`) that
  must end before the wrapper is dropped.

The Lean runtime is not in the repository: `lean_inc`, `lean_dec` and the
convention that exported functions consume their arguments are modelled as the
shim uses and documents them (`l4yaml_shim.c:11`).

`Ownership.tla` is what `l4yaml.h` promises, without counts: handles, last
strings and borrows lead to objects in memory, and only what none of them leads
to is released.

| run | what it shows | bounds |
|---|---|---|
| `HandlesConfined` | with Rust's callers, every property below, and that `Handles` implements `Ownership` | two threads, two wrappers (a parent and a child, or one each), three results: a sequence that refers to one anchored scalar twice, a stream of two documents, an error; three strings for formatting, so that one is free whenever a thread needs it |
| `HandlesShared` | with Python's callers, two calls on one value lose an update of its count | the same |

- `Counted`: a count is the number of references in wrappers, string holders,
  objects in memory and running calls, at every step of every call.
- `NoUseAfterFree`, `BorrowsAlive`: no call touches a freed object, and a
  borrowed string outlives the holder that first kept it alive.
- `NothingLeaks`: between calls, memory holds what wrappers and holders lead to;
  error results, absent options and half-read arrays included.
- `KeepsPromise`: the refinement.

The second run is a statement about callers as much as about the shim: the
header asks for calls from one thread "unless the Lean task manager is
initialized for multi-threaded use", and `l4yaml_initialize` always does that.
`Counted` fails under sharing as soon as two updates overlap; `HandlesAlive` is
the consequence a caller sees.

Threads and wrappers are interchangeable, so both runs use symmetry.  Deadlock
is checked.  No fairness is assumed: every call is a finite sequence, and what a
caller does next is its own choice.  Left out: initialisation and finalisation,
which are in `Binding`; the strings of threads that end; the memory pools; the
configuration handles, which are counted like results; the empty string of the
library in the runs (the null value stands for the objects that are not counted).

## 5. The Python binding

`Binding.tla` models `_ffi.py` and the paths through `__init__.py`, `compat.py`
and `types.py` that take and give up handles.

| part of the module | code |
|---|---|
| `LoadCached` ... `Publish` | `_find_library` and `_load_lib`: the cache is read, a place is found, its file is opened, signatures are set, the library is cached |
| `TestFlag` ... `SetFlag` | `ensure_initialized`, one step per line; `l4yaml_initialize` begins in one step and returns in another |
| `Parse`, `Dump`, `InitPool`, `Go` | the functions that begin with `ensure_initialized` or `_load_lib`, and the choice of a path once the library is ready |
| `Load` ... `ParseLimitsFails`, `Inspect` ... `Root` | the calls into C of each path of each function and method, errors included, as sequences of `Take`, `Use`, `Free`, `Wrap` and `Return` |
| `CallTakes` ... `CallReturns` | running such a sequence |
| `Collect`, `Exit`, `RunHook`, `TearDown` | `__del__`, the end of the interpreter, the `atexit` hooks, and what is freed after them |
| `Build` | cmake writes the library (external) |

A thread may be interrupted between any two steps: `ctypes` releases the
interpreter lock around each call, and the lock may be lost between two
bytecodes.  A call into C is one step here, since `Handles` has its inside.  A
library object is named by the thread that opened it: a library that was cached
is never opened again, so a thread has at most one that is alive.  `files` is
the file system: a place is found in one step and opened in a later one, and
may have been rebuilt in between.

Run `Binding`: two threads, two places in the search order, three situations at
the start (nothing installed; a library that is too old; `L4YAML_LIB` names a
file that cannot be opened and hides a good one), at most one document, element
or pair per call (`MaxItems`, which bounds loops whose passes are alike).  Two
threads suffice for a lost test of the flag; the proofs of section 8 are about
any number.

- `DeclaredWhenUsed`: a library object is used only with all its signatures
  set, whether it was opened by this thread, another, or before a rebuild.
- `ReadyWhenUsed`: no call but that for a pool is made before an initialisation
  has returned, whoever began it.
- `HandlesGivenUp`: on every path a handle is alive when it is passed to C, and
  none is left when the function returns or raises.
- `Balanced`: the runtime is finalised as often as it was initialised, in the
  behaviours in which two threads initialise it too.
- `InitialisesAtFirst` (action property): a second initialisation can only
  overlap with the first; it never happens under calls or live wrappers.
- `Recovers` (liveness): once the first library found is a good one, a call
  leads to an initialised runtime and returns, whatever failed before: a failed
  attempt leaves nothing behind that makes later ones fail.

Fairness is weak fairness of each thread's own steps while it is in a call
(`Step`): the operating system schedules threads, the interpreter hands its lock
on, and the exported functions are total.  Nobody has to call, build, collect or
exit.  `CHECK_DEADLOCK FALSE`: the process ends.

Left out: interrupts and failures of Python itself in the middle of a function,
memory running out, and what a pool does.

## 6. Writing and reading Python values

`Scalars.tla` has the pure rules: `_coerce_scalar` and `_quote_scalar` of
`compat.py`, `chooseScalarStyle` and its tests in `Dump.lean`.  A text is opaque;
what the code asks of its characters (does `int()` accept it, does it hold a
line break, how does it begin) is given by constant operators, and the words are
those of the code.  `Layout.tla` has the two writers of collections as lines
with columns.  `Compat.tla` has the calls: one action per stage that may raise.
`safe_dump_all` serialises, parses, merges the configuration, dumps each
document (`Serialize`, `Parse`, `Configure`, `DumpConfigured` and their
failures), then writes the stream (`Write`); the `SafeLoad...` actions are
what the two loaders return or raise for it, with limits and without.  What is
written for one document and read back of it are parameters there (`Serialized`,
`Parsed`, `Dumped`, `Loaded`), so that theorems can be stated about the calls;
`CompatText.tla` gives them the writers of `Layout`.  A stream is `Joined` from
chunks and `Split` again at the separators.

The parser is `CompatText`'s parameter `Read`, since what it does with lines is the
scanner's and the token parser's subject; `MCCompat` gives it YAML's rule that
what belongs to a collection is right of it, except a sequence in the column of
its key.  So the run shows that the writers agree with *YAML*, whether or not
the scanner does.

Run `Compat`: 26 texts, one or more for each combination of answers that the
code tells apart, alone and in lists and mappings; values of three levels with
empty collections, under all combinations of indent 0, 1, 2, 4, compact
mappings, `omitEmpty` and block or flow; fifteen configurations, some of them
rejected, partial, of the wrong type or too large; streams of up to three
documents of which any may fail.

- `RoundTrips`: what is written loads back as the same values of the same types,
  through two writers, two parses and two choices of style, and no parse fails.
  It is stated for the texts and configurations of `FaithfulText` and `Keeps`; those
  that these exclude are disagreements of section 9, and are reached by the run.
- `ConfigEffective`: a configuration accepted by `_fidelity_config` is the one
  the dumper uses, with the settings that keep types where it is silent: two
  readers in two languages agree on every field.
- `AllOrNothing`: a stream has all documents or nothing, and splitting it gives back
  what was dumped for each.  Left out are configurations that put the lines of a
  literal scalar in the first column (`Contained`): there a text may hold what looks
  like a separator.  The model gives every scalar one line.

`CHECK_DEADLOCK FALSE`: a call ends.  Left out: keys that are equal in Python and
different in YAML (`1`, `True`), tags, anchors and comments, which Python values
do not have, the string `...` at the start of a line, and reading the input.

## 7. The suite guard generator

`SuiteGuards.tla` models `gen-suite-guards.py`: `BlockLine`, `SeparatorLine`,
`ItemLine`, `FieldLine` and `EndOfFile` are `parse_test_file`, `Classify` the
loop over tests, `Probe`, `ProbeTimesOut` and `ProbingDone` the questions to the
built parser, `Generate` and `DryRun` the writing.  A file is chosen line by
line as it is read.  A test is named by its place in `all_tests`: a stage of
`by_stage` is the set of its places, since the script only ever appends to it and
goes through it in order, and `probed` is the place of the last test asked.
`SuiteMeta.tla` is the parser of the same files in the suite runner (`Meta.lean`),
translated from its own source as a fold over lines.

Run `Suite`: two files, of five lines and of two, from eleven kinds of line
(blank with and without spaces, separators inside and outside of block scalars,
items, fields, headers, content that looks like each); four parsers (missing,
strict, lenient, one that does not answer in time).  Five lines are an item,
a header, two lines of content and what follows it; the second file shows that
nothing stays open between files.

- `KeepsMeta`: the script's parser implements the suite runner's, state by state
  (`Meta!Spec` under a mapping of the variables).
- `CasesAsWritten`: both read what the file says, defined without a state
  machine: the items outside of block scalars, each with the text of its last
  `yaml` field and its own verdict.
- `GuardsHold`: each test that is not skipped has one guard, and one that is to
  fail expects what the parser answered to that text.

`BareAssumption` excludes the lines of the model on which the two parsers differ
(section 9).  White space is ASCII in the model: Python's `strip` and `lstrip`
also remove Unicode spaces, which Lean's trimming keeps, so lines with such
spaces are outside of it.  `CHECK_DEADLOCK FALSE`: the script ends or is aborted.  Left out:
names, comments, the text of a guard (`lean_escape_string`), how test files are
unescaped beyond whether anything visible is left, and a crash between two
output files.

## 8. Proofs

Every theorem below holds for all values of the constants under the named
assumptions of the module it is about; TLC evaluates those in the module's runs.

### The scanner

Assumptions: `Lexemes` is a set of known lexemes, `NoName` is no name, the
bounds are natural numbers.

`ScannerProofs.tla`:

- `ShapeInvariant`: `Spec => [](TypeOK /\ WellFormed)`, and `TypeInvariant`;
- `SlotsInvariant`: `Spec => []SlotsReserved`;
- `TokensNeverShift`: `Spec => TokensPreserved`.

`TypeOK /\ WellFormed` is inductive as it stands: `WellFormed` is the code's own
`ScannerState.WellFormed`, with the strict order of indentation columns that
`pushSequenceIndent` and `unwindIndents` need from each other.
`SlotsReserved` is inductive relative to it.  It is stronger than what one `:`
needs (its own slots): keys saved on the stack have to keep theirs while inner
keys are confirmed, so the slots of all keys, stacked or current, must be
disjoint and in order.  A step either appends tokens, which leaves all slots
alone (`OwnsGrows`), or confirms the current key, whose slots lie above all
stacked ones.  `TokensNeverShift` then follows step by step: the two positions
`scanValuePrepare` writes are the slots of the key it confirms.

`ScannerTokenProofs.tla` is about the contents of the array.  Its first half says
for each action which tokens it adds, at which position, and which slots it may
fill (`Adds`, `Reads`, `FillsPending`); the rest needs nothing else of an action.

- `OrderInvariant`: `Spec => []TokensInOrder`.  Inductive with `LastInOrder`: the
  last token is not right of the scanner's position.  A key filled in later
  keeps the position of its slot, so order never depends on what is filled.
- `AliasInvariant`: `Spec => []AliasScope`.  `AnchorsInScope` ties the set
  `definedAnchors`, which an alias is tested against, to the array: each name in
  it is the name of an anchor token that no document mark has followed.
- `DirectiveInvariant`: `Spec => []DirectiveBlock`.  `DirectivesInv` relates three
  flags to the array.  While directives are allowed, the last token that counts
  is one a directive may follow and nothing is open (`MayDirect`); once no
  directive is pending, every one has its document start, and all slots that may
  still be filled lie behind it (`Answered`), without which a `:` could put a key
  between a directive and its document; a `%YAML` the scanner has forgotten is of
  an earlier document (`Forgotten`).

`ScannerNestProofs.tla` is about the array as a nesting of brackets, in which a
`:` inserts the start of a mapping far in front of the end.

- `OpenInvariant`: `Spec => []OpenCollections`, and `SpanInvariant`: `Spec =>
  []KeySpan`.  Their invariant is `NestInv`, with three parts of its own:
  - `KeysPlaced` says where keys are.  Which keys a `:` may still confirm
    (`Live`) depends on flags; a key of an earlier line is left only where
    nothing but a `:` or plain text can follow (`Confined`), and where a check of
    the indentation is still due, so that blocks may close, no key waits in them
    (`Due`).
  - `Matches`: the open collections are the entries of the indentation stack,
    each at its column, and then those of the flow stack.
  - `Spanned`: for every key that may still come, the depth at its slots is that
    of the key's collection, and nothing under it was closed since.  Keys saved
    for an enclosing flow collection need the same at their own depth.
- `AlignedInvariant`: `Spec => []Aligned`.  `EntriesAligned` adds to `NestInv`
  that no entry behind the slots of a key belongs to the key's own collection
  (`Quiet`): such an entry would end up in the mapping the key opens, which may
  stand at another column.

Three groups of lemmas carry this.  `Opened` is a recursive function on the
array: it is shown to follow its recursion, and to be the only function that
does, by the least counterexample (`OpenedRun`, `OpenedIs`).  `Above` says what
appending tokens does to it.  `Wrapped` says what inserting does: with a start
in front of tokens that close nothing under it, all that is open later is open
around that start (`StartFills`).  TLC checked the invariants before they were
proved.

### The Python binding

Assumptions: `None` is not a thread (`NoneAssumption`); there are finitely many
threads (`ThreadsAssumption`), as there are in a process; the installed files are
files (`InstalledAssumption`); `MaxItems` is a natural number.

`BindingProofs.tla`:

- `RuntimeReady`: `Spec => []ReadyWhenUsed`, and `InitialisedAtFirst`: `Spec =>
  InitialisesAtFirst`.  Neither is inductive: that the runtime is up is known to
  a thread from the flag it read, or from its own call.  `RuntimeInv` ties
  places in the code to the state: a thread that is about to set the flag has
  seen its initialisation return, a thread past `ensure_initialized` implies the
  flag, and so does a wrapper that is alive; a call for a pool makes no wrapper.
- `LibraryDeclared`: `Spec => []DeclaredWhenUsed`.  `LibraryInv` adds that the
  cached object is declared, and that as long as a thread works on the object it
  opened nobody else calls through it: it has published none before, so taking
  its signatures back while it is opened disturbs no other thread.

- `CallsGiveUp`: `Spec => []HandlesGivenUp`, for any `MaxItems`, where the run
  has one pass per loop.  Each path of each function is shown to be `Clean`: there
  is a certificate, the sets of handles in hand before, between and after its
  calls, that begins and ends with none and in which every call finds the handle
  it is passed (`Certifies`).  Certificates of parts are put together
  (`RunsConcat`) and repeated for loops (`RunsRepeat`, by the least counterexample).
  The invariant `CallsInv` says that what a thread has in hand is what the rest
  of its path gives up.
- `FinalisedAsOften`: `Spec => []Balanced`.  `CountsInv` counts: the
  initialisations begun are those under way and those that returned, and of these
  the hook is about to be registered, is registered, or has run.
- `TypeInvariant`: `Spec => []TypeOK`, among it the bound of one handle of a kind.

### The handles

Assumptions: finitely many objects, threads and wrappers, and at least one thread
(`ObjectsAssumption`, `CallersAssumption`: a process has no more at any time; the
model names each object once and uses it again after it was freed); a result has
at most one field and a string none; what the library's static objects refer to
is static (`StaticAssumption`: the null value has no fields); an object refers
only to objects made before it (`AcyclicAssumption`: values are immutable).

Every theorem has the hypothesis `Confined`: no wrapper is used by two threads.
It holds of Rust's wrappers, which are neither `Send` nor `Sync`, for any number
of threads, and of a Python process with one thread.  Without it the theorems are
false: `HandlesShared` shows two Python threads that lose an update of a count.
So the theorems and that run together say exactly when the counts can be trusted.

- `CountsRight`: `Spec => []Counted`, and from the same invariant `NoFreedObject`
  (`NoUseAfterFree`), `HandlesLast` (`HandlesAlive`), `BorrowsLast`
  (`BorrowsAlive`), `NoLeak` (`NothingLeaks`) and `HandlesTyped` (`TypeOK`).
- `PromiseKept`: `Spec => KeepsPromise`, the refinement of `Ownership`.

`HandlesProofs.tla` has the invariant, `HandlesInv`.  `Counted` is not inductive: it
says what a count is, not that the call about to change it may.

- `Books` relates the callers' state to the calls under way: a method runs on a
  wrapper that is there, a handle goes to a wrapper that waits for it and for no
  other, a call returns at most one string, and what is borrowed belongs to the
  lender or to the library.
- `Homes(home)`: there is an assignment of objects to threads such that what a
  thread's call mentions, its wrappers and its last string lead to only objects
  of that thread.  This is what `Confined` gives, and why the two halves of an
  update need no lock: the number in `reg` is still the count when it is written
  (`Updating`).
- `Even(home)`: the count of an object is the net of what its thread's call will
  still take and give up, plus wrappers, last strings and references from memory.
- `CallsLegal`: no call gives up a reference it does not have, at any point of
  what is left of it; `MentionsLive`: what it mentions is in memory.  Without
  these the count could be right and reach zero in the middle of a call.

`HandlesStepProofs.tla` has one lemma per kind of step.  A call that begins is a
program with a net effect of zero (`Modest`), or, for a parse, of the one
reference to its result (`Rooted`); the programs are put together from their ends
(`Draft...`), that of `load_all` for any number of documents by the least
counterexample.  A parse brings a tree into memory whose counts are those of
`Allocated`.  The last `Dec` of an object hands its fields' references to the
call (`Released`).  `NothingLeaks` needs that what has a positive count but no
reference from outside would have an infinite chain of referrers, which
`AcyclicAssumption` excludes.

For the refinement, each step is mapped to one of `Ownership`, or to none
(`StepsPromised`): a parse to `Allocate`, the last `Dec` to `Release`, which needs
that nothing held leads to the object (`LastReference`, `LastUnreachable`);
giving up and setting the last string to `GiveUp` and `Give`; `WrapHandle`, `Free`
and `EndBorrow` to `Wrap`, `Unwrap` and `Return`.  Counting is invisible.

### The writers

`CompatProofs.tla` assumes of the parameters that a call has a finite list of
documents (`CallsAssumption`) and that the dumper writes at least one line for a
document and no separator, under the configurations of `Contained`
(`ChunksAssumption`; TLC evaluates both for the writers of `Layout`).  The writers,
the parser and the configurations are otherwise arbitrary.

The invariant is `CompatInv`: the chunks made are those of the first documents, in
order, each of a document that could be parsed (`PartsInv`); text, node and settings
are those of the next document at the stages that use them (`StageInv`); the stream
is empty until it is all of them (`StreamInv`); and a parse error without a stream is
about a document of the call (`RaisedInv`).  None of the properties is inductive
without it: `node` and `settings` are read two steps after they are set.

- `ConfigUsed`: `Spec => []ConfigEffective`, from `UsedIs`, which says for every
  accepted configuration what `ParseConfig` makes of the merged one: whatever
  Python's `Valid` lets pass, Lean's `FromYaml` reads (`ReadersAgree`).
- `StreamWhole`: `Spec => []AllOrNothing`.  It rests on `JoinedSplits`: chunks that
  are not empty and hold no separator are what the stream of them is split into.
  `Joined` is a recursive function; `JoinedHolds` shows by least counterexample that
  its k-th value holds the first k chunks and k - 1 separators at known places, and
  `InOrderIs` that these places in their order are unique.
- `StreamsRoundTrip`: `EachRoundTrips => (Spec => []RoundTrips)`: when each document
  of the calls comes back on its own, streams do, and nothing is raised before
  something is written.  `EachRoundTrips` is about the two writers, which recurse
  over values; that it holds of those of `Layout` is what run `Compat` shows of its
  calls (it is part of what `RoundTrips` says of a call with one document).
- `TypeInvariant`: `Spec => []TypeOK`.

And about single scalars, for every text and whatever `int()`, `float()` and the
tests of characters answer:

- `PlainStaysString`: what `_quote_scalar` leaves plain resolves to that string;
- `StringsStayStrings`: a string that can be read back at all is a string again
  after the dumper chose its style a second time, in a block or in a flow
  collection, with reserved words allowed or not.

### The suite guard generator

Assumptions: files have names, all different (`IdsAssumption`, from `glob`); a
line has an indentation and is an item or not (`LinesAssumption`);
`BareAssumption` of section 7.

`SuiteProofs.tla`, for files of any length and in any number:

- `ReadsAsRunner`: `Spec => KeepsMeta`, the refinement: initial states map to
  initial states, and each line makes both parsers take the same step, as the end
  of a file, a separator and an item do.  The mapping is by `ParseInv`, which adds
  to the types that the number given to the next case is that of the cases so far
  and the open one.
- `GuardsAsObserved`: `Spec => []GuardsHold`.  `GuardsInv` is what each stage of
  the script leaves for the next: tests are told apart by file and number
  (`KeysInv`), every test that is not skipped is in the one stage that is its own
  (`StageInv`), the answers kept are those of the tests asked about so far
  (`ProbeInv`), and the output is the earlier one or what `Written` says
  (`OutputInv`).  Without `KeysInv` the answer to one test would decide another's
  guard.
- `TypeInvariant`: `Spec => []TypeOK`.
- `CasesAreWritten`: `Spec => []CasesAsWritten`.  The property takes a file as a
  whole: which lines are inside of block scalars is a recursive function of the
  line, an item's lines go from its own to the next item or separator outside of
  them, and its text is what the last setting of `yaml` among these says.
  `CasesInv` says what the parser knows of the lines read so far: a block scalar
  is open for it exactly if one reaches the last line, `block_indent` is the
  column of its first line that is not blank (`BlockIs`); items that have ended are
  the cases, in their order, and the one that has not is `current` (`ItemsAre`).
  The lemmas before it say what one more line changes of each of these notions
  (`InsideNew`, `LinesOfNew`, `BodyGrown` and their kind), each for any text.
  The step that needs care is a line of content (`BlockLineCases`): it has to grow
  the text of one item only, the one whose last setting is the open block scalar
  (`OpenIsSetting`), and the column may become known with this very line
  (`WidthNew`).  `NoRaggedStart` is where the column kept differs from the one the
  content has (section 9); it holds of the lines before if it holds of the file.

### Only model-checked

- What happens to counts when two Python threads use one wrapper: there the
  statements above are false (`HandlesShared`).
- That a document on its own comes back (`EachRoundTrips`, the part of `RoundTrips`
  about `Layout`): the writers and the reader recurse over values, which no theorem
  may reach, and the statement is itself an induction over values.
- `Recovers`: a liveness property under fairness.

## 9. Where the code and its comments disagree

These have a run that TLC finds violated; `PROJECT.json` quotes the lines.

- `[? a, b: c]`: the comma does not end the pending `?`, so `b` is not recorded
  as a key (`ScannerExplicitEntry`).
- `? a`, `---`, `: x`: a pending `?` survives document markers
  (`ScannerExplicitDocument`).
- ` - a`, `---`: a marker below an indented collection is rejected as badly
  indented content (`ScannerMarker`).
- An escaped line break in a double-quoted scalar switches the indentation check
  of the next line off (`ScannerQuoted`).
- The counts of values used by several threads are not atomic, although the
  header's condition for such use is met (`HandlesShared`).

These are part of a model whose run passes because the property is stated
beside them, or are about code that has no state to check; `PROJECT.json` quotes
the lines.

- Two threads whose first calls overlap both initialise the runtime, where the
  header asks for exactly once (`_ffi.py:239`; `Binding` has these behaviours).
- At exit the runtime is finalised before the wrappers that are alive are freed
  (`_ffi.py:241`; `TearDown`).
- `safe_load` with limits and an input without documents raises
  `UnboundLocalError` (`compat.py:192`; `SafeLoadLimitedFails`), and returns the
  first of several documents where the call without limits fails
  (`SafeLoadLimited`).
- A configuration the Lean side cannot parse is replaced by the default one, for
  limits (`FFI.lean:331`) and for dumping; the documented errors do not come.
- `_quote_scalar` does not double apostrophes and leaves a leading `%`, `@` or
  backquote plain (`compat.py:495`; `FaithfulText`).
- A compact mapping in a sequence has its first key two columns behind the dash,
  whatever the indent, and an indent of 0 is accepted (`Dump.lean:525`; `Keeps`).
- The lines of a literal scalar are to be indented by at least one space, and are
  not with an indent of 0 (`Dump.lean:393`; `Contained`).
- `int(s, 0)` and `float(s)` are not the core schema's rules (`compat.py:69`).
- A line that is only a field's name, and `- key:value`, are read differently by
  the script and the suite runner (`gen-suite-guards.py:166`; `BareAssumption`).
- A blank line with spaces sets the column of a block scalar in both
  (`gen-suite-guards.py:82`; `NoRaggedStart`).
- The guards "covering all passing tests" are written for tests that were not
  run, and the file of a stage without tests stays (`gen-suite-guards.py:416`).
- The handle of `parse_limits_yaml` has no use and no way to free it
  (`__init__.py:185`), and the README's example uses names the package does not
  export.

Met while modelling the scanner and not checked by a run: `["a<newline> b": c]` is accepted,
since only the end line of a flow key is compared (`SimpleKey.lean:154`), while
`Whitespace.lean:263` restricts such keys to one line; and a tab at or left of
the current indentation fails in a flow collection too (`Whitespace.lean:168`),
where `Whitespace.lean:284` calls tabs always legal.

## 10. Not modelled

- The indexed pipeline, the token parsers, composition and limits: planned
  (section 2).  They are what is missing most: the Python layer's parser is a
  parameter until then.
- The reader of `ParserLimits` and `LoadConfig`: of the same form as the reader
  of the dump configuration, which is in `Compat`.
- Anchors, tags, comments and the characters of quoted text in the dumper, and
  the schema: functions on characters with no order of events.
- The Rust binding's `initialize`, `finalize` and limits handles, and the values
  its `Index` leaks: planned.
- The scripts in `scripts/`: each makes one pass over text with regular
  expressions and keeps nothing; no step can come between two others.
- `L4YAML/{Surface,Algebra,Indexed,Proofs}`: Lean statements and proofs, which
  the program does not execute.
