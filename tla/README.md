# Specifications of aptos-move-analyzer

TLA+ models of the language server in `src/` and of its Visual Studio Code
extension in `editors/code/src/`, the TLC runs that check them, and TLAPS proofs
of the safety properties of all models but `Signatures`. Paths are relative to the
repository; `bin` is `src/bin/aptos-move-analyzer.rs`.

## 1. The system

The extension starts the server and sends it what the user opens, types and
saves. The server is one thread with one loop (`bin` 148-170): receive a message,
run `try_reload_projects`, handle the message. A Move package is loaded as a
*project*: the walk over its `Move.toml` and those of its dependencies decides
which packages belong to it, and the Move compiler, a library, builds one
environment for all of them. Every feature answers from the environment of a
project that contains the file in question.

| Part | State | Operations | Where |
|---|---|---|---|
| Project table | `MultiProject.projects`: set of manifests -> project | `load_projects`, `insert_project`, `get_project(s)`, `update_defs`, `try_reload_projects` | `multiproject.rs`, `project_manager.rs` |
| Manifest walk | `manifest_paths`, `manifest_not_exists`, `manifest_load_failures`, `manifest_mod_time` | `load_project` (recursive) | `project_manager.rs` 213-308 |
| Paths | none | `path_concat`, `normal_path`, `discover_manifest_and_kind` | `utils.rs` 184-313 |
| Diagnostics | `err_diags` per project; what the editor shows | `clear_ui_diag`, `report_diag`, `send_not_project_file_error` | `bin` 310-518, 604-641 |
| Source locations | `PathBufHashMap`, `FileLineMapping` | `update`, `get_path`, `translate` | `utils.rs` 37-137 |
| Session | `AnalyzerConfig`; registered capabilities | `on_request`, `on_response`, `reload_cfg` | `bin` 176-308, `main.ts` 72-99 |
| Editor middleware | one timer, two times, a flag | `didChange`, `provideInlayHints`, `provideCompletionItem` | `context.ts` 152-217 |
| Completion | the text of the file changed last, per project | `update_defs`, `on_completion_request` | `completion.rs`, `project_manager.rs` 185-212 |
| Formatting on save | the user's file | `format_on_did_save` | `bin` 643-683 |
| Navigation | captures, while a request is answered | go to definition, references, hover, hints, symbols | `goto_definition.rs`, `references.rs`, ... |
| Specification generator | the items collected from a body | `collect_spec_exp_`, `handle_unused_pattern`, `try_emit_exp_zx` | `move_generate_spec.rs`, `_utils.rs` |
| Specification requests | the user's module and its specification file | `on_generate_spec_file`, `on_generate_spec_sel`, the commands that send them | `move_generate_spec_file.rs`, `_sel.rs`, `reg.ts` 373-437 |
| Server life | the I/O threads and their channels | initialize, receive loop, exit, join | `bin` 60-174 |
| Extension start | the assets, the version file and the binary in `~/.cargo/bin` | version check, download, copy, start | `main.ts` 191-263, `download.ts`, `utils/download.ts` |

They interact through messages (extension and server, two ordered channels),
through the disk (manifests and Move files that the user, a checkout and the
server itself write while others read them) and through the table (every
handler looks its project up again).

What is hard: the server never locks anything on disk, so that each load races
the user's edits; `try_reload_projects` works with keys it copied out of the table
and may stop half-way; a project may be found under several keys, in hash order;
diagnostics are withdrawn from what a project has *now*; the extension delays
changes with one timer for all documents; settings and registrations cross on
the wire; formatting writes the user's file while the user goes on saving;
downloads break, and several windows share what they install; navigation and the
specification generator rebuild scoping and evaluation order from a syntax tree. The
list of hazards, each with its line and the properties that would show it, is in
`PROJECT.json`.

## 2. Modules

| Module | Models | Composition |
|---|---|---|
| `ProjectRegistry` | the table, the reload pass, open/change/close/request | one step per project loaded or swapped, interleaved with edits |
| `ProjectTable` | what the table promises: per package no project or one, replaced by newer ones only | `ProjectRegistry` implements it (`ImplementsTable`) |
| `ManifestLoad` | the walk of `load_project`, one step per question asked of the disk | instantiates `ProjectRegistry` for the specification of what a load yields |
| `ManifestPaths` | under which name a directory is recorded, which package a file is taken to belong to | extends `ManifestLoad`, whose packages it places in a tree of directories |
| `ServerDiagnostics` | what the editor shows against what projects have | takes the table with fixed keys, so that a project is named by its root |
| `SourceLocations` | both maps and the conversion of ranges, with real offsets | |
| `LspSession` | settings, registrations and answers over two channels, and the life of the server | |
| `EditorSync` | the middleware's timer, and what the server knows | |
| `Completion` | which text completion works on, and what it offers | extends `EditorSync`, whose changes and saves it receives |
| `FormatOnSave` | `format_on_did_save` against a typing and saving user | |
| `SpecRequests` | the commands that generate specifications | extends `FormatOnSave`, whose steps interleave with its own |
| `SpecGenerator` | which lets and `aborts_if` lines are generated for a body | defines what a body does and what a specification says, and compares the two |
| `Navigation` | go to definition, references, hover and hints in functions | |
| `Signatures` | go to definition, references and hover on headers, structs and use declarations | extends `Navigation`; a file has a body or a declaration |
| `ServerDownload` | the activation of the extension, from the version query to the start | |
| `ProjectRegistryProofs`, `ManifestLoadProofs`, `ServerDiagnosticsProofs`, `LspSessionProofs`, `FormatOnSaveProofs`, `NavigationProofs` | theorems | each extends the module it is named after, or the one that extends it, and TLAPS |
| `ExtensionProofs` | theorems about the extension, `EditorSync` and `ServerDownload`, and about `Completion`, which depends on it | extends `Completion` and `ServerDownload` |
| `ComputationProofs` | theorems about `SourceLocations` and `SpecGenerator` | extends both, whose proofs share the lemmas about loops |

Each `MCx` gives names to the constants its configurations use. It extends `x`, or
the module that extends `x`: `MCManifestLoad` extends `ManifestPaths`,
`MCEditorSync` `Completion`, `MCFormatOnSave` `SpecRequests` and `MCNavigation`
`Signatures`, so that one run checks both.

### ProjectRegistry

A package stands for its directory, its `Move.toml` and its Move files. `disk` gives each
package a layout (no directory, no manifest, one that does not parse, a good
one), the packages its manifest names and the time of its last edit. `projects`
is the hash map, a function from sets of packages; `Load(p)` is what
`Project::new` returns, and `Builds(p)` says whether it returns anything:
the package resolver may refuse for what manifests show (a missing package, a
cycle) and for other reasons (`broken`). Dev-dependencies count for
`load_project` everywhere and for the resolver at the root only, as in the code,
so that a project can build and still miss packages.

`Receive` starts a pass: it copies `NotFounds` and `Modifies` (`toMissing`,
`toModified`). `ReloadMissing` and `ReloadModified` load one project each, in any
order, as the hash map gives them, the first with the early return that drops
the batch; `Swap` is one round of the last loop. Then `DidOpen`, `DidChange` with
one `UpdateDefs` per project, or `OtherMessage`. Edits of the disk fall between any
two of these steps.

| Property | Says |
|---|---|
| `KeyIsManifests` | a project is filed under exactly the manifests it was loaded from, its root among them (proved only, section 3) |
| `OneProjectPerRoot` | no package is the root of two projects |
| `BatchRootsDistinct` | no pass loads a project twice (proved only, section 3) |
| `PendingKeysLive` | copied keys still name the projects they were copied from when they are used |
| `StaleIsNoticed` | a project whose manifests reach other packages than its key is one that the next pass picks |
| `ImplementsTable` | the table is one of `ProjectTable` (`Loaded` is the mapping): a step touches the project of one package, drops none, and swaps in none that read a manifest earlier than the one it replaces |
| `ReloadConverges` | once manifests rest, each buildable project is filed under what its manifests reach, unless some project goes on missing a package while some package goes on not building |
| `EnvKnowsFile` | what the extension's README promises for opened files |

Runs:

| Run | Instance | Result |
|---|---|---|
| `registry` | 3 packages in layers, the lowest a dev-dependency that is fetched and removed by a checkout, directories that are absent, broken or good, 2 edits | every invariant, `ImplementsTable` and `ReloadConverges` hold |
| `registry_env` | a change in a library | `EnvKnowsFile` fails: the application's project gets the library's environment (`project_manager.rs` 208) |

Three packages in layers are enough for a project with a missing and a modified
dependency at once, for a batch of several projects, for a dependency of a
dependency, and for keys that grow and shrink; two edits are enough to change a
manifest while a pass is under way and once more before the next. Documents of the
two upper packages are opened (`Visited`). One project with a missing package that
fails to load ends every pass before it reaches the others (`multiproject.rs`
178-181): that is the exception of `ReloadConverges`.

Known limits, outside these instances. Packages that may use each other come to
have the same key, and the second insert drops the first, in an order decided by a
hash map (`multiproject.rs` 208). The run does not reach this, for its packages are
in layers, where no two packages get the same key: `ImplementsTable`, which is false
otherwise, and `OneProjectPerRoot` are promised for layers only (section 3), while
`StaleIsNoticed`, and that a project is filed under its manifests, are proved for any
packages. A project whose manifest stops naming a package is filed
under the smaller key, and an opened file of that package is served by no
project until it is opened again. An open whose project fails to load is not
tried again when the package becomes buildable (`bin` 574). A project that misses
a package is taken out of the modified ones (`multiproject.rs` 155), so that an
edit that drops the missing package is noticed at every message and never loaded.

Fairness: the loop takes its next step whenever it has one (`Server`), for it is a
thread that waits for nothing but messages, and the editor keeps sending
(`Arrival`): `try_reload_projects` runs with messages only, so that without them the
server may rest with a stale table. The user's edits are not fair.

### ManifestLoad

The stack of calls of `load_project` with the place each call has reached: does the
directory exist, when was the manifest modified, what does it say, which
dependencies are left. `manifest_walk` has every dependency graph on three packages,
cycles included, every layout of them, and one edit at any point of the walk or
after it. The walk ends and enters each package once. When nothing was edited it
yields exactly `Load(Root)` of `ProjectRegistry` (`LoadsTheClosure`): that is why
`ProjectRegistry` may take a load for one step and a fixed point for the recursion.
When something was, the result may mix two states of the disk, but then some
recorded time or missing package shows it (`RacyLoadIsNoticed`), because the code
reads the time before the contents; its mutant swaps the two. One edit is enough for
a walk that mixes two states.

Fairness: the recursion goes on (`Load`).

### ManifestPaths

A path is the sequence of its components. `Normalized`, `PathConcat` and `Discover`
are the functions of `utils.rs`; beside them stands what the operating system makes
of a path (`Reached`). `FilesFindTheirPackage` is checked wherever a walk of
`manifest_walk` ends, with the packages in any directories of up to two names out of
a plain one and the three layout directories, nested ones included: every spelling
of a dependency, up to three components with `.` and `..`, is recorded under the
name the directory has, and a document below a layout directory is taken to belong
to its package. Two levels give a package inside of a layout directory of another
one; one directory between the layout directory and the file gives a layout
directory that means nothing.

Known limits. Links are not resolved. A dependency that is spelled as the empty text
unwraps nothing and ends the server (`utils.rs` 188). A document that lies in the
layout directory of a nested package belongs to that one, even if the outer package
compiles it, too. A relative path that begins with `..` loses it; the server has
absolute ones only. `path_concat_move_toml` is dead.

### ServerDiagnostics

`bad` is the set of files with an error on disk, `errs[r]` the files that the
`err_diags` of the project of root `r` name, `ui` what the editor shows. The
handlers are those of the document notifications; `Reload` is the silent
replacement of a project in `try_reload_projects`. `picked` keeps the choice of
`get_project`: iterating an unchanged hash map twice gives the same first match.

`diagnostics` has two packages without common dependencies. Errors come and go in
all files; the manifest of the first package comes, goes and breaks; the file of
the second lies below a directory `aptos-move`, which `report_diag` skips.

| Property | Says |
|---|---|
| `OnlyReloadOrphans` | no handler but the silent replacement in `try_reload_projects` leaves an error in the editor that no project has |
| `FixedIsCleared` | once no project is stale, an error that was fixed for good goes for good |
| `BadIsShown` | an error that stays in a package that builds is in the end on display |
| `ForeignErrorsKept` | work on one package withdraws no error of the other |

Known limits, which explain the form of the properties. A reload replaces
`err_diags` without publishing, so that errors published before it may have no
project any more: `OnlyReloadOrphans` excepts reloads, and `FixedIsCleared`
assumes that manifests rest. With overlapping packages, a library with a project
of its own and an application that uses it, a file lies in two projects, either
of which may be picked and publish for it, and a change in the library leaves the
application's project with the library's errors only; `BadIsShown` is false
there, and the checked instance has no overlap.

Fairness: the loop goes on, and every document is changed again and again (strong
fairness of the change notifications, for a document may wait while another is
handled): without work on a document the server has no occasion to publish for
it. Opens, closes and edits of the disk are not fair.

### SourceLocations

The two maps with byte offsets, texts being all sequences of a character and a
newline up to four bytes. `TranslatesExactly` compares `translate`, its fast path
for a single line and its binary search with a definition that counts newlines;
a range that reaches the end of the text is translated to nothing, as the code
has it. `ConvertsInOwnText` joins both maps. The run is `locations`, with two files:
a hash belongs to one path at a time, and a third file adds no case. SHA-256 is
taken to be injective. Known limit: two files with the same text lose each
other's entry (`utils.rs` 54 removes the old hash whichever path it leads to), so
that a location in the other one does not convert until it is changed.

At this commit nobody uses what the maps tell. `update_defs` fills them (`bin` 507
and 513), but `get_path`, `translate` and `convert_loc_range` are called by each other
only, through a macro whose methods have no caller. The run and its theorems
(`NeverStale`, `TranslatesExactly`, `ConvertsInOwnText`) are about what a caller would
get.

### LspSession

The client's settings (which features are enabled), the two channels and the
server's configuration. Handlers are the sets of answers they may give: most drop
the answer they make up when there is no project, which is why `Unanswered` is among
them; the properties that need an answer are about formatting, whose handler the
code keeps for that reason (`bin` 197), and about never answering twice. The client
side (dynamic registration, answers, cancellation) is the language client's,
external. One request of any kind and two changes of the settings are enough for a
request to cross a registration and an unregistration; requests do not interact,
since the server handles them one after the other and keeps nothing of them.

The server initializes, runs its loop, leaves it at an exit message and joins its
I/O threads; the client may leave, close its ends or die at any moment (`Leave`,
`Close`), after which the writing thread fails at its next message. A server without
its writing thread ends with the next answer, for the handlers unwrap a failed send,
except those of completion and symbols, which log it (`LogsFailedSend`); so does a
registration. `Made` names the kinds of requests an instance has: hover, references,
symbols and the generation behind an item are handled like definitions, completion
and files, and a kind of each sort is enough.

| Property | Says |
|---|---|
| `NeverRegisteredTwice` | however settings flap, a registered feature is not registered again |
| `OneAnswer` | a request has one answer at most |
| `FormattingAnswered` | a formatting request is answered, whatever the settings and the table are by then |
| `FeaturesFollow` | once the settings rest, what is on is what is registered |
| `ExitEnds` | after exit the process ends |

The run is `session`. `session_exit` shows that `ExitEnds` is false: the context of
`main` holds the sending end of the channel that the writing thread reads, so that
after exit the join waits for ever unless a write to the client fails (`bin` 172).
Known limits. After the client has closed its end without exit, `recv` fails at once
and is tried again without a pause (`RecvFails`). The configuration handler returns
when formatting was enabled and stays so, before it takes over a new line width
(`bin` 259); widths are not in the model.

Fairness: either side takes what it is sent.

### EditorSync

One tick is 200 ms: the window of 1000 ms is 5 ticks, the delay of 800 ms is 4.
A text is the number of the edit that made it. `lastInlayHintsTime` is never
assigned, so that `provideInlayHints` always takes its last branch, which makes a
request for hints count as a change. `willSave` is never sent, because the server
does not register for it. Three edits give a first, a re-armed and a late one.

`editor` has two documents: the server never goes back to an older text
(`NeverOlder`), and a document that holds the timer is forwarded unless another
takes the timer over (`TimedIsForwarded`), which one timer for all documents
allows (`context.ts` 157). Known limit: a change that follows no other within a
second only notes its time and is not forwarded at all (`context.ts` 168).

Fairness: time passes, a due timer fires, the client sends what it was given.

### Completion

`modified` is the project's one text: that of the document whose change or save was
handled last while the project built (`builds` comes and goes with its manifest). A
line is a sequence of words and punctuation. `OnCompletion` finds the line of the
cursor in that text, takes its last word apart as the lexer does, and offers what
`Items` says; the middleware lets requests through once a change was forwarded.
`CompletionFits` is stated for the moment a document's change or save is handled:
completion at the end of each of its lines offers the members of the module named
before `::`, those that contain the word begun, the document's own fields behind a
dot, and words of the document. It is checked in `editor`, whose two documents are
typed through each of these shapes, one of them with fewer lines than the other, so
that a text of the wrong document shows.

Known limits. A later change of another document of the project makes completion
work in that document's lines (`completion.rs` 346). The last word of the whole line
counts, wherever in it the cursor is. A blank line, or one that ends with a space,
gets no answer, and nothing is asked for before the first forwarded change
(`context.ts` 177). Behind a dot all fields and functions are offered, whatever
stands before it.

### FormatOnSave

A text is the set of the user's edits it contains and whether it is formatted.
`std::fs::write` is two steps, `Truncate` and `Write`; it may fail in between, or
the client may kill the server (`cutOff`). The editor reloads an unmodified
document whose file changed and asks before it overwrites a newer file. The user
waits for the server after each save or does not (`patient`, either from the start).
`format` has three edits and three saves: one under way, one behind it and one
that meets what came of both. At rest the server analyses the last text it was
sent, whatever happened (`KnowsLastSave`); for a patient user and a write that
was not cut off it analyses the file (`KnowsTheFile`), and nothing saved is lost
(`SavedStays`). Known limits, which those conditions name: the formatted text of
one save is written over the file of a later one, whose own formatting may then
fail, and a write that is cut off leaves an empty file.

### SpecRequests

The two commands next to saving and formatting. A place in a text is abstracted to
the text it was computed in, for it means the intended place there and nowhere else.
A save is handled before the requests behind it (`ahead`); its `update_defs` follows
the formatting (`due`). The request for a file is three steps: the check that there
is none, the creation, and the contents; the user may write a specification file
himself. `InsertedWhereAsked`: for a user who waits and has saved, the specification
is inserted in the document it was asked for, and its place was computed in the text
the document has. `OwnSpecStays`: such a user's own specification file is not
written over, and a file is never opened half-written. Both are checked in `format`,
with the bounds above.

Known limits. A user who goes on typing gets the insertion in another place, and one
who changes to another editor in another document (`reg.ts` 432). A specification
file that is created during the generation is overwritten, and an empty one that a
crash or a full disk leaves makes every later request fail. No project, no answer.
The place is one column behind the item; if the item does not end its line, the
insertion is in the middle of it.

### SpecGenerator

The user writes a body statement by statement; `Generate` walks it as
`collect_spec_exp_` does (`Collect`, and `Walk` for the expressions), drops the lets
nothing needs (`UsedByLast` and `Needed`, the one backward pass of
`handle_unused_pattern`) and prints the rest (`Emit`, with the negation of
assertions by `InverseOp`). Items and lines are kept by statement, the let of one
before its others, which is as much of their order as the pass and a reader of the
lines can tell. Texts of expressions are the expressions themselves,
except where the code replaces an operator inside of a text: there `garbled` lines
arise. A division's line shows its divisor only. Beside the generator stand two
definitions that are not the code's: what a
body does when it runs (`Aborts`) and what a specification says (`SaysAbort`). Each
property compares them over every argument, in a type of two bits, which has
overflow, underflow, zero divisors and shifts beyond the width. Expressions are the
elements of the constant `Expr`, with their operands, so that the definitions over
them are functions on it; `MaxHeight` bounds how deep they nest, 2 in the run.

| Property | Says |
|---|---|
| `Sound` | a line never claims an abort that does not happen |
| `Complete` | straight-line bodies in which arithmetic and assertions abort have a line for every abort |
| `WellScoped` | lines show parameters and names declared by lines above them |
| `NoIdleLet` | a let is there for a later line that shows its name, or for a dividend, which the pruning counts as used although no line shows it |

The run is `spec_generator`: twenty-eight statements, at least one for every case
of the walk, in bodies of up to four, which is a let, a let that uses it and two
uses. The known limits are the conditions of the properties: a variable
that is assigned or declared again (a line shows the name, not the value), an early
return, `<<` taken for an operation that overflows, a `for` that suppresses the whole
specification, names bound by tuple patterns or by bindings that are not printed
(they dangle), casts, calls, `>>` and other conditionals (no line), and `<` replaced
inside of `<<` (a garbled line).

### Navigation

The user writes the body of a function, statement by statement; the model compiles
it. What the compiler makes of a statement is a constant (`Statements`): lines, each
with the blocks around it and its nodes, and a node with its span and the names in
it. `WellFormed` says which trees a compiler yields: the names of a node are where
the grammar puts them, nodes are nested or apart, and two names never touch.
`MCNavigation` computes the trees of its statements from their text (`Pieces`,
`NodesOf`), and TLC confirms that they are well formed. `FunctionAt` and `Extended`
lay lines out in the file, `DeclOf` resolves names by Move's scoping, `Compiles` asks
that every name is declared. Spans are byte offsets, for the handlers decide by them.

`Captured`, `RemoveNotInLoc` and `ToLocations` are go to definition, `Walk` and `Uses`
references, `HoverCaptured` and `HoverText` hover. A second function of the module
uses the same declarations. Text searches by name are modelled as searches for the
names, and no name contains another. `HintsIn` is the hints of a range of lines:
those of the functions that lie wholly in it. A hint has the span of the node that
led to it (`whole`), which no other node has, so that two hints at one place are two
elements of the set. The two lists that go to definition
keeps are one set of pairs here and are lists in `Signatures` (`RetainInLoc`,
`Located`), where captures of the same length occur.

| Property | Says |
|---|---|
| `GotoFindsDeclaration` | go to definition on a name finds what scoping makes of it, and no answer is about something that the cursor is not at |
| `ReferencesAreUses` | references on a function, constant, struct or field are all its uses in all functions, and nothing else |
| `TypesAreShown` | hover shows what the innermost name at the cursor stands for; hints stand right behind the names that have a value, one behind each |

The run is `navigation`: seventeen statements with every kind of node, in bodies of
up to three (a declaration, one that hides or assigns it, and a use), with a
parameter and without, and each request at every place. The known limits are the
conditions of the properties. Go to definition: the last pattern of a name in the
text counts, so that a name declared again by its own binding (`let a = a + 1`), or
in a block that has ended, leads to the wrong declaration, and after an assignment
to the assignment; names inside of unpacking patterns and labels of packs lead to
the struct; a cursor in front of the first letter of a call finds the call around it
or nothing. References: inside of the arguments of a function with a shorter name,
and anywhere in a function without parameters, the answer is about that function; on
a variable it is about whatever encloses it; a field is known by its name, whichever
struct it is of. Hover: nothing at the ends of a constant's name, nothing or the
enclosing call in front of a call, nothing on the struct of an unpacking pattern.
Hints: none for a function that is partly outside of the range, and the hint for a
field of an expression with a field in it stands behind the inner one, where there
are two then (`inlay_hints.rs` 386). Generics of calls, match and specification files are not
modelled.

### Signatures

A declaration is laid out as text: a header on a line, a struct's fields on lines of
their own, a use declaration on a line; tokens have spans, types are trees without.
`ProcessType` searches the token at the cursor for the names of a type, its
arguments first; `ProcessHeader`, `ProcessStruct` and `UseDefinitions` say which
types are searched for. `ParameterTypeUses`, `ResultTypeUses` and `FieldTypeUses`
are references, `StructTypes` and `UseTexts` hover. Names may begin with one another
(`Prefix`).

`DeclarationsAreFound` joins the three: go to definition on a type finds that type,
in a header and in a struct, as an argument and alone, and on what is used its
declaration; hover on a field shows its type and on what is used what it is;
references on a type are its uses in all functions. `navigation` has some five
hundred declarations with zero to two parameters, results, acquired types, two
fields, and members of three modules, at every place.

The known limits are the conditions of the property. Names that begin with one
another in the same place are mistaken for each other (in `fun f(): Coin acquires
CoinStore` the token `CoinStore` leads to `Coin`), and references on a name include
those of longer names. A cursor between two tokens belongs to the first one, so that
right behind `<`, `&` or a colon without a space nothing is found. A use
declaration's member is known by a name that contains its name, in the order of a
table (`goto_definition.rs` 351). Hover and references on fields look for the first
place of the field's name in the text of the struct, and need 128 bytes of file
behind it (`hover.rs` 411, `references.rs` 634); hover does not look at headers.
References do not look at arguments of types and tuples, nor at use declarations,
and in a function without parameters every cursor in the header counts as on its
name. Enums and declarations over several lines are not modelled.

### ServerDownload

Each window is a process with a program counter (`pc`); they share the directory:
the version file (`meta`), an asset per version and the destination the server is
started from. `Activate`, `LatestAnswered` and `Decide` are
`ensureServerDownloaded`, `Refused` to `EndsInBackground` the callbacks of
`downloadFromUrl_v2`, `Finish` the rest of `downloadLsp`, `Copied`, `CopyThrew`,
`CopyBroke` and `Start` what follows it. A window may be closed at any moment. The
metadata file is truncated before it is written (`util.ts` 74): a write that fails or
whose window is closed (`QuitWriting`) may leave nothing that can be parsed, which
counts as no version, so that the next activation downloads the release again.

`download` has two windows and two releases: an update of an installed version, two
activations of the same version and of different ones. `MetaIsWhole`: the version
the metadata names is there in full. `OnlyUpgrades`: the destination only changes to
a complete newer release. `Converges`: a user who opens one window again and again
ends with the latest. `disturbed` marks what these are not promised for, which are
the known limits: overlapping activations, of which one truncates what the other
downloads; an asset that is removed while the metadata names it, so that a new
download that breaks is taken for installed for good; a copy that is cut off, or
breaks on a full disk, and leaves a part of a binary or none.
Further: the query for the release and a body that breaks off leave an activation
hanging, a copy onto a server that another window runs ends it, and the idle
time-out of a request that was redirected rejects a download that goes on.

Fairness: the server is started when its turn comes. Of the network, a user who
tries again and again gets an answer, a connection and a complete download again and
again (strong fairness), and can write the metadata and copy; a window need never be
opened again.

## 3. Proofs

All proofs are for every value of the constants, within the assumptions that the
modules name. Types: `TypeOK` is proved of every module that has theorems
(`TypeCorrect`), except `SpecGenerator`, which states none: the types are in the
invariant of its proofs. `EditorSync` has `SyncTypeCorrect`.

`ProjectRegistryProofs`:

* `TypeCorrect`: `Spec => []TypeOK`. `TypeOK` alone is not inductive: the keys that
  are still to be handled must be keys of the table (`PendingInKeys`), or a reload
  would look up a project that is not there; `TypeInv` is the conjunction.
* `KeysCorrect`: `Spec => []KeyIsManifests`. The strengthening `KeyInv` says of
  each project of the batch, too, that its manifests contain its root
  (`BatchRooted`), since `Swap` files it under them.
* `LayeredPass` and `LayeredKeysLive`: if the dependencies that manifests may declare
  can be ranked (`Ranks`), then `OneProjectPerRoot`, `BatchRootsDistinct` and
  `PendingKeysLive` are invariants. The argument: in a set of packages closed under
  dependencies from one root, the root is the only package of highest rank (`DominatesUnique`,
  `ClosureDominated`), so that a key determines its project's root
  (`DominatedKeys`), projects of different roots never have the same key, and a
  swap touches no key but those of its own root. `PendingDistinct` adds that what
  is still to load and what is loaded have different roots.
* `LayeredImplementsTable`: `Spec => ImplementsTable` under the same assumption, step by
  step. A swap or an open files one project and moves none of another root
  (`SwapMoves`, `OpenAdds`), so that it changes `Loaded` at one package
  (`LoadedReplaced`); every other step leaves `Loaded` as it is, `update_defs`
  included, which touches environments only (`LoadedFrame`). That what is swapped
  in is not older takes two invariants more: no manifest on disk has a time
  before the one a project recorded (`DatedInv`), and what waits in `all` is newer than
  what it was read to replace (`WaitsNewer`), for the pass holds no second load of
  that root and opens wait for its end. Two packages that use each other show that
  the assumption is needed: both have the same key.
* `StaleIsNoticedAlways`: `Spec => []StaleIsNoticed`, without that assumption. For
  every project there are dependencies it was read by (`ReadAs`): they led to its
  packages; a manifest whose time is still the recorded one declares them still; a
  time of 0, and a missing package, stand for none. An edit gives a manifest a time
  that nobody has recorded yet (`TimesTell`), and where no time differs and nothing
  missing is back, what is reached is what was read (`ReachLocal`).

`ComputationProofs`, about `SourceLocations`:

* `LocationsNeverStale`: `Spec => []NeverStale`. The strengthening says that the
  forward map is what was sent, so that the entry `update` drops is the only one
  that can lead to the path (`ForgetDropsPath`).
* `RangesTranslateExactly` and `LocationsConvertInOwnText`: `Spec => []TranslatesExactly`
  and `Spec => []ConvertsInOwnText`, for texts of any length. The invariant
  (`MapsInv`) adds that the lines kept for a file are those of the text that was sent.
  What is left is about one text: the loop of `FileLineMapping::update` has, after
  each character, the start of the text and the byte behind every newline read so
  far, in order (`LoopFindsStarts`); what it finds later lies behind
  (`LaterStartsLieBehind`); so the bisection lands on the last start that is not
  after the byte, and that is its line (`SearchFindsPlace`). The shortcut for an end
  on the line of the start gives what the second search would
  (`TranslatesToPlaces`). Induction over the rounds of a loop is by the first round
  that goes wrong (`RangeInduction`); that the recursive function which models the
  loop has values at all is proved with it (`Loop`, `FollowsLoop`).

`ComputationProofs`, about `SpecGenerator`, for statements over any expressions,
bodies of any length and integers of any width:

* `GeneratedLinesAreSound`, `GeneratedLinesAreComplete`, `GeneratedLinesAreWellScoped`
  and `NoLetIsIdle`: `GeneratorSpec => []Sound`, and so on. The inductive invariant is
  small (`GeneratorInv`: the body compiles statement by statement, and a specification
  that is current is that of the body); the argument is about one body.
* Expressions are trees. Induction over them is by height (`TreeInduction`), and that
  the recursive functions `Inside`, `Walk`, `Values` and `SpecValues` have the values
  their definitions give them is shown once, by building such functions height by
  height (`TreeRecursion`).
* Where names have the same values, an expression without `<<` that does not abort has
  the same value in the integers of a specification (`SameValue`), so that the line
  of an operation whose operands do not abort says exactly whether it does
  (`BinopLine`), and that of an assertion exactly whether it fails (`ComparisonLine`,
  `CallLine`). An operation that aborts makes the expression abort
  (`CollectedAborts`), and where only arithmetic aborts the walk has met the first
  one that does (`AbortIsCollected`).
* While the body runs, the names that a reader of the lines knows have the values
  that the body has given them (`ReadingAgrees`): this needs that no name is declared
  twice or assigned, and is the reason for these conditions of `Sound` and `Complete`.
* The backward pass only adds names (`UsedGrows`), so that what a line shows is needed
  at every statement above it and its let is kept (`NeededBefore`, `DeclaredBefore`);
  and what it has added is used by something that is kept (`UsedIsUsed`).

`ManifestLoadProofs`:

* `EachPackageOnceAlways`: `Spec => []EachPackageOnce`, cycles of manifests included.
  The strengthening (`StackOK`) says that the packages on the stack are distinct,
  recorded, and neither missing nor failed, and that the time of one that is still
  to be looked for has not been read. `PopKeeps`, `ReplaceKeeps` and `PushKeeps` say so
  for the three things a call does to the stack.
* `LoadsTheClosureAlways` and `RacyLoadIsNoticedAlways`: `Spec => []LoadsTheClosure` and
  `Spec => []RacyLoadIsNoticed`. The strengthening (`FoundInv`) gives the dependencies
  read so far a name: what is recorded is reached by them, and all that they name is
  recorded, or still to do for a call on the stack (`Followed`). Because the time of
  a manifest is read before the manifest, one whose time is still the recorded one
  declares what was read (`Timed`); the mutant that asks the other way round breaks
  this. Without edits everything recorded is what is on disk (`Fresh`). Of the stack
  only the set of calls matters (`Calls`), which spares an induction over it.
* `FilesFindTheirPackageAlways`: `Spec => []FilesFindTheirPackage`, of `ManifestPaths`,
  for any tree of packages. The normal form of a joined path and the directory that
  the operating system is in, component by component, stay the same once the path
  starts at the root (`StayTogether`, `ConcatenationReaches`), and a normal path is
  its own normal form (`AbsoluteIsNormal`). A source file of a package passes one
  place more at least of the layout; the loop stops at the last place above which
  there is a manifest, which is that package's or one inside of it (`FoundPackage`).

`ServerDiagnosticsProofs`:

* `ForeignErrorsKeptAlways`: `Spec => ForeignErrorsKept` for any dependencies that
  are closed (what a dependency uses is used), overlapping ones included, which the
  run does not have. The errors of a project lie in packages it is loaded from
  (`ErrsInside`); this survives `update_defs`, which installs the errors of the
  document's own package, because the projects that wait for it contain that package
  even if its manifest is gone by then (`WaitingContain`).
* `ApartOnlyReloadOrphans`: `Apart => (Spec => OnlyReloadOrphans)`. Where a project
  waits for `update_defs`, its errors are off display (`ClearedFirst`); this needs
  that the project which `clear_ui_diag` picks is the document's only one.

`LspSessionProofs`:

* `OneAnswerAlways`: `Spec => []OneAnswer`, for any number of requests under way. A
  request is in one place, on its way to the server or answered, and among those the
  client waits for (`OnePlace`).
* `NeverRegisteredTwiceAlways`: `Spec => []NeverRegisteredTwice`. The registrations and
  cancellations of one feature alternate in the channel, the first is news to the
  client and the last agrees with the configuration (`Alternate`).

`FormatOnSaveProofs`:

* `KnowsLastSaveAlways`: `Spec => []KnowsLastSave`. The last save is in the channel, in
  `file_content` or in the text the server keeps (`Latest`), and each of its steps
  passes it on.
* `KnowsTheFileAlways` and `SavedStaysAlways`: with a user who waits, unsaved edits
  exist only while the server rests (`EditorHalf`), and the server works on the file
  as it was saved (`ServerHalf`).
* `RequestsImplementFormat`: every behaviour of `SpecRequests` is one of
  `FormatOnSave`, an insertion being an edit of the user's; the three properties
  above hold there, too.
* `InsertedWhereAskedAlways`: the text that `global_env` was built from is the one
  on disk whenever the server rests, and for a user who waits that is the one in the
  editor. `OwnSpecStaysAlways`: while a request for a file is worked on, such a user
  has no specification file of his own.

`ExtensionProofs`:

* `DelayedNeverOlder`: `Spec => NeverOlder`. What the server knows of a document was
  its text once (`Behind`), and what is sent is its text now.
* `CompletionImplementsSync`: a step of `Completion` is a step of `EditorSync` or
  leaves it alone, so that `NeverOlder` holds there, too. `CompletionBehindSync`:
  the text that completion works on is a text of one of the documents, not newer
  than what the server was sent of it (`KeptIsKnown`).
* `MetaIsWholeAlways` and `OnlyUpgradesAlways`, of `ServerDownload`. As long as
  nothing is `disturbed`, one activation at most is under way, downloads of earlier windows that still run
  included (`OneAtATime`); it writes another asset than the one the metadata names
  (`OtherAsset`), as new as the destination or newer (`Newer`). `Lone` restates
  these for the one window, so that each action is looked at once.

`NavigationProofs`, for any statements whose trees are well formed, names of any
length, any number of statements and any place of the cursor:

* `GotoIsRight`, `TypesAreRight` and `ReferencesAreRight`: `Spec => []GotoFindsDeclaration`,
  `Spec => []TypesAreShown`, `Spec => []ReferencesAreUses`. The three handlers read
  `env` and change nothing, so that the inductive invariant (`IInv`) is about what is
  written: it compiles, its lines are well formed and lie in their order in the body,
  and `h` is behind it. That a statement keeps it is `ExtendedOK`. The rest says of
  one request in such a file that its answer is right.
* All three rest on why the smallest capture is the right one: of two areas that both
  touch the cursor and belong to different nodes, one node is inside of the other and
  its area is shorter (`Nesting`), and if the cursor is at a name, it is that name's
  node (`NameWins`). This is where it matters that names do not touch each other, and
  that a capture's area is all of its node or apart from what is inside of it
  (`Covers`). With it goes that `get_mouse_loc`, which is one too far in the first
  column, does not take a cursor off a name or onto another one (`MouseAtName`).
* Go to definition: a walk has the pattern last met (`LastPatternIs`); if no other
  declaration of the name came after the variable's own, that one binds it or assigns
  it (`LastIsOwn`, by descent along assignments), which is what `Stale` excepts. The
  captures are those of the names that the cursor is in the area of (`CapturedIs`),
  and all the smallest ones stand for one thing (`OneInnermost`, `OneDefinition`).
* Hover: what may be shown is one capture per name, the name itself or its whole
  expression (`TypesAre`), of which one is smallest (`OneSmallest`), whichever of the
  three comparisons its kind goes by. Hints: the character behind a name is a dot
  exactly if the name's field is taken (`FieldTaken`); no two names end at the same
  place (`OneToken`, `OtherFunction`), so that two hints there are of one field, one of
  them made for an expression around it (`Doubled`).
* References: the smallest capture is the name's own node unless a call around it has
  a shorter name (`OwnNodeWins`), which is what `Eclipsed` excepts, and a cursor at
  another name is on no constant (`NotOnConst`); so the answer is the list made for
  that node, which holds every use in both functions and nothing else (`FieldUsesAre`,
  `StructUsesAre`, `FunctionUsesAre`, `ConstUsesAre`).
* `TypeCorrect`: among others that a definition and a hovered type are never two, however
  many captures there were.
* The assumptions are that names have a length (`NameLenAssumption`), that the struct
  has one (`StructAssumption`), and `TextAssumption`, that statements are laid out as
  the compiler's trees are. The last is about the compiler, not about the handlers:
  it says nothing of scopes, nor of which names are used where.

Only model-checked: everything about liveness (`ReloadConverges`, `Terminates`,
`FixedIsCleared`, `BadIsShown`, `TimedIsForwarded`, `FormattingAnswered`,
`FeaturesFollow`, `Converges`), which needs fairness and ENABLED; `CompletionFits`,
which holds of the texts of the run and not of all; and `DeclarationsAreFound` of
`Signatures`: types are trees, their search a RECURSIVE operator that hands on what
it has found, and its exceptions are about names that begin with one another, which
the run enumerates.

## 4. Not modelled

The Move compiler, the package resolver, movefmt, the LSP transport library and the
language client are libraries; they appear as the outcomes the code distinguishes.
Document symbols list what the compiler has; whether they are answered is in
`LspSession`. Specification files (`.spec.move`) are walked like functions by go to
definition, references and hover; what the compiler makes of conditions would need a
model of their text of its own. `diagnostics.rs`, `path_concat_move_toml`, the fetch
of dependencies in `load_projects` (`LOAD_DEPS` is false) and the lists of source
files that `load_project` collects are dead. The extension's commands open
terminals.

## 5. Plan

1. `ProjectRegistry`, `ManifestLoad`, `ServerDiagnostics`, `SourceLocations`,
   `LspSession`, `EditorSync`, `FormatOnSave`, `SpecGenerator`, `ServerDownload`,
   `Navigation`: done.
2. The life of the server, in `LspSession`: done.
3. `Completion`, `SpecRequests`, `ManifestPaths`, `Signatures` and hints, each with
   the module it extends: done.
4. Proofs of `StaleIsNoticed`, `RacyLoadIsNoticed`, `LoadsTheClosure`,
   `NeverRegisteredTwice`, `TranslatesExactly`, `ConvertsInOwnText`,
   `FilesFindTheirPackage`, `Sound`, `Complete`, `WellScoped` and `NoIdleLet`: done.
   The refinement of `ProjectTable`: done.
   `GotoFindsDeclaration`, `ReferencesAreUses` and `TypesAreShown`, for which
   `Navigation` takes trees as a constant: done. Left: `DeclarationsAreFound`.
5. Specification files in navigation, with a model of conditions.
