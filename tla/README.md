# Scriggo in TLA+

Scriggo compiles Go programs and templates to the instructions of a register
machine and runs them. This directory holds TLA+ modules of the parts of it
whose behaviour is hard to see from the code and to reach with tests, the TLC
configurations that check them, and theorems about them that TLAPS checks.
Paths below are relative to `src/`.

## The system

A program goes through the parts in this order.

| part | state | operations | what makes it correct |
|---|---|---|---|
| lexer (`internal/compiler/lexer.go`) | context of the text, of the tag and of the blocks; a goroutine and its channel | emit a token, open and close a tag, an attribute, a string, a block | every value shown in the context that the text around it has; the goroutine ends |
| parser (`parser.go`, `parser_*.go`) | stack of open nodes | open, add and close a node; expressions, types, headers | the trees of the grammar, and an error for every other text |
| syntax trees (`ast/`, `ast/astutil/`) | none | print, walk, dump, clone | the text is that of the tree, the copy is the tree |
| packages of a program (`parser_program.go`) | stack of import declarations, trees parsed | parse a package, bind a declaration | all the packages, and no cycle |
| template expansion (`parser_template.go`) | cache of trees, stack of paths | `extends`, `import`, `render` | refuses every cycle, uses a file in one way, parses a file once |
| type checker (`checker*.go`, `constant.go`, `types/`) | scopes, dependencies, type infos | check a node, resolve a name, order the variables | accepts what Go accepts, initializes in dependency order |
| emitter (`emitter*.go`) | current function, loops (`breakable`, `inForRange`, `rangeLabels`), functions of the packages | emit a statement, an expression, a call, a package | the instructions do what the source says |
| builder (`builder*.go`) | registers in use, scopes, labels and pending gotos, tables of constants | allocate, label, patch | no register used twice, no jump to a wrong place, limits reported |
| disassembler (`disassembler.go`) | none | the text of an instruction | the text names what the instruction uses |
| machine: instructions (`internal/runtime/run.go`, `registers.go`) | registers, memory | one for each instruction | Go's values, sharing and panics |
| machine: calls (`vm.go`, `run.go`) | `vm.calls`, `vm.fn`, `vm.panic`, `vm.renderer` | call, macro, defer, panic, recover, return, nextCall | Go's rules for defer, panic and recover |
| machine: registers (`vm.go`, `registers.go`) | `vm.regs`, `vm.fp`, `vm.st` | call, defer, swapStack, grow, finalize | every function finds its registers and its results |
| machine: range loops (`run.go`) | the Go stack of nested `vm.run` | OpRange, OpContinue, OpBreak | a loop goes on in the function it belongs to |
| machine: goroutines (`vm.go`, `run.go`, `env.go`) | `env.done`, `vm.cases`, one watcher for each `runFunc` | go, send, receive, select, cancel, stop | a cancelled program ends and says so |
| renderer, escapers (`renderer.go`, `escapers.go`) | state of the URL being written | Text, Show, Out | every value escaped for where it is written |
| development server (`cmd/scriggo/serve.go`, `templatefs.go`) | cache of templates, dependencies, watched files, open reloads | serve, build, invalidate, reload | never serves a template older than its files for ever |
| command, API, builtins | none, or local | | |

They interact by calls, in this order, with these exceptions: the lexer is a
goroutine that the parser reads from and has to end; native functions call
Scriggo functions back (`callable.Value`, a second machine with the same `env`)
and stop the machine by panicking through it (`env.Stop`, `env.Fatal`); a panic
leaves `vm.run` as a Go panic and comes back in `runFunc` as a frame; goroutines
of the program share `env`; and the development server shares its cache among
requests and the watcher of the files.

The hard behaviours are listed one by one, at their lines, under `hazards` in
`PROJECT.json`.

## Modules

    GoDefer              what Go promises about calls, defer, panic, recover
      ^ implements (VMCallsRefines)                   <- VMCalls_proofs
    VMCalls              vm.calls, nextCall, runFunc      <- VMCalls_proofs
      ^ extends            ^ extends
    VMStack              VMRange
    registers            range loops on the Go stack
      ^ VMStack_proofs     ^ VMRange_proofs

    VMExec               machines that share an env, channels, cancellation
      ^ VMExec_proofs

    Lexer <- Parser      the goroutine of the lexer and the parser of statements
    SyntaxTree <- TreeTools, SyntaxParser, Grammar <- Syntax
                         expressions, types, headers; printing, clone, dump
    Packages, Expansion, Initialization, Emitter   <- MCBuild
      ^ Build_proofs                       ^ Emitter_proofs
                         what a build reads, what is initialized when, and the
                         statements: jumps, labels, scopes, registers

    Values <- Instructions                      the machine
      ^ FunctionBuilder <- Expressions <- Assignments   the emitter
      ^ GoSemantics                             what Go says
           Disassembler                         what the text names
             all of them <- Evaluation

    DevServer            requests, events of the files, reloads
      ^ DevServer_proofs

**GoDefer** is the abstract specification, written from the language rules that
the tests of `test/compare/testdata/misc/recover.go` and of the Go suite
exercise: a stack of activations, each with its deferred calls. It has no code
of its own.

**VMCalls** is the machine. `calls` is `vm.calls`, `cur` is `vm.fn`, `chain` is
the list that starts at `vm.panic` (here the newest is last), `rend` is
`vm.renderer`, `i` is the index of the loop of `nextCall`, `phase` says where
the goroutine is. There is one action for each instruction that touches these
(`OpCallFunc`, `OpCallMacro`, `OpDefer`, `OpPanic`, `OpRecover`, `OpReturn`
split by the status of the frame on top) and one for each case of the loop of
`nextCall`. `ContinueWith` is the code after its switch. Programs are not
represented: the running function may execute any instruction of `Ops`, so a
behaviour of any program is a behaviour of the module. A panic is linked to the chain
and pushes a frame (`LinksPanic`, `PushesPanicked`) whether the program panics (`OpPanic`)
or `nextCall` has to call a native function that is nil (`NativeNil`): its error is one
that `convertPanic` makes a panic of the program, if there is a running function; every
other failure of a native function that `nextCall` calls ends the machine
(`NativeFails`). `recover()` returns the newest panic of the chain, as `OpRecover` does in
the code; `why`, a history of the frames, is the panic that a frame panics with, `mixed` says
that the last cut of the chain (`CutChain`) left a panic that is of no panicked frame. `got`,
`made`, `thrown` and `home` are histories too. A frame's function, frame pointers and
program counter are one number, the activation. `tailed`, a status that no code sets, is
left out.

**VMCallsRefines** maps the flat array to the stack of GoDefer: every frame that
is not a deferred call is an activation, and owns the deferred calls directly
below it. The n-th activation is chosen by how many come before it (`Owner`), which
is how the proof can speak of it. `GoSpec` lets `recover()` do what it does in Go, or, while
`mixed` is true, end the same panic and return another (`RecoversAnother`): that it can do so
is what `calls_recover` shows.

**VMStack** adds the registers: each of its actions is an action of VMCalls
together with what happens to `vm.fp`, to the frame pointers in the frames and
to the registers. The four stacks of the machine share their code; the module
is one of them. A register holds the activation that wrote it. `Swapped` is
`swapStack` with its two copies made one function, `Grown` is `moreIntStack`
under its condition, and `overrun` becomes true when Go would fail with an index
out of range of `vm.regs`.

**VMRange** adds the nested calls of `vm.run`: `ranges` is the Go stack, one
entry for each OpRange that waits for its body; `loops` says, for each
activation, which loops its code is in. `Found` is the way an address travels
down the Go stack until an OpRange takes it.

**VMExec** is about several machines and not about what each of them computes: a
machine of `VMExec` executes at any time any instruction, and what `VMCalls` says
of its frames is not repeated. `at` says where its goroutine is: at the head of
the loop of `vm.run`, in `reflect.Select`, in a native function that calls back,
or in one of the steps of the end of `runFunc`, which closes `stop` first and
reads `env.done` later. `watcher` is the goroutine that `runFunc` starts, `cases`
is `vm.cases`, with what a panic leaves in it. `own`, `stopped`, `unsent`, `under`
and `exits` are histories. Channels have a buffer, and their values are not told
apart; a case of a select on a nil channel is not represented. A panic of the
program, inside a machine, is its recovery or its end.

**Lexer** is the goroutine of the lexer. A text is any sequence of *symbols*,
the chunks that the lexer tells apart (a tag, an attribute, a quote, `//`, a
statement); `at` holds its fields about the context, `contexts` the stack of
`l.contexts`, `scan` where the goroutine is and `out` the tokens it has still to
send. `blocks` is the history that the properties compare `contexts` with; `odd` and
`torn` tell when a block has been nested in a macro whose context the code does not
keep, and when a block has started or ended in a tag and not in its content.

**Parser** reads those tokens. `ancestors` is `p.ancestors`, `tokens` the channel,
`parser` where its goroutine is, `result` how it ended. A statement is one symbol:
its header is what Syntax is about. `Parse` is one turn of the loop of
`ParseTemplateSource` or `parseSource` with everything that it calls, `Drain` and
`Return` are the deferred call of `lexer.Stop`. `open` and, for
what goes wrong, `secondElse`, `crossed` and `escaped` are histories.

**SyntaxTree** has the nodes of `ast.go`, their constructors and `String`;
**TreeTools** has Walk, Dump and Clone, as the fields of each node that they go
into; **SyntaxParser** has the parser of expressions, types, function literals,
simple statements, groups of constants and headers of switch, function by function,
with the index of the token that each stops at. **Grammar** is the reference: the
text and the positions of a tree, and the rules of Go and of the templates; nothing
of it comes from the parser. **Syntax** types texts token by token, or writes those
of the trees of the grammar, and says what parsing, printing, cloning and dumping
promise; parser, `String`, Clone and Dump are its constants. The definitions before
each property name the deviations of the code that it leaves out. Three are worth
knowing when reading the code: the parser takes the token after a `not` that no `contains`
follows, and does not give it back, so that `a default b not X contains c` and
`{a: b not X}` are accepted and X is lost; the blocks of a template `if`, `else` and
`using` have a nil position, that CloneNode dereferences; Dump and Walk take the body that
a `using` has not, and the label that a `break` has not, for nodes. `ClonesAreEqual`
says exactly at which trees CloneNode panics.

**Packages** is the loop of `ParseProgram`: `imports` is its stack of declarations,
`trees` its map, `bound` the declarations that have a tree; the declarations of a
package go on the stack `Backwards`, so that the first is taken first. **Expansion** is
`ParseTemplate`: each frame of `paths` is a call of `parseSource`, the nodes of a
file are chosen when they are reached. **Initialization** is `emitPackage` and
`emitImport`: `emitting` is the stack of the packages that are being emitted, `calls`
what the main function calls before its body.

**Emitter** is `emitNodes` with the builder of a function. A program is written
statement by statement: a statement with a body is opened (what `emitNodes` does
before the body) and closed (what it does after); `nest` has the local variables in
between, `breakable`, `breakLabel`, `inForRange` and `rangeLabels` are the fields of
the emitter, `fbs` the builders. `resolved` and `sources` are what the source means:
where a jump should go, and the register of each variable of each scope. `WhyBreak`
and `WhyContinue` name the reasons for which the code goes elsewhere. **MCBuild** has the
last four side by side: a behaviour is of one of them.

**Values** and **Instructions** are the registers, the memory and the instructions
of the machine; **FunctionBuilder**, **Expressions** and **Assignments** are the
emitter of expressions, assignments and declarations, function by function, down to
the operands of each instruction; **GoSemantics** is the reference, the Go
specification on the same statements, with variables in place of registers.
**Disassembler** is the registers that the text of an instruction names.
**Evaluation** compiles a statement, executes its instructions one by one, runs the
same statement in Go, and compares the two; the emitter, the machine, the
disassembler and Go are its constants `Emitted`, `Execution`, `Named` and `InGo`, that
MCEvaluation gives it. Registers that the emitter has not set start with junk. The definitions before its properties (`UnaryPlus`,
`CapturedInterface` and so on) are the statements that are known not to run as in
Go, each with its line. One of them is not a form of statement: a shift by a negative
count, which panics in Go and shifts by a large count here (`NegativeCount`).

**DevServer** is the development server with its browsers and files. The version of
a file is a number, a template is what its build read of each file; `templates` and
`deps` are `srv.templates` and `srv.templatesDependencies`, `pump` is the goroutine
of `newTemplateFS`, `client` has a request for each browser, with the URL that it asked for
and the file its build is reading. A URL resolves to a file (`PageOf`), but a connection is
registered in `live` by a name made from the URL, without extension or with `/index` after
it (`RegisteredName`), which is compared with the paths of files without their extension
(`Stem`): two files may have one name. `reloads` counts, for each connection, the goroutines
that are about to write a reload to it. A write arrives (`Reload`) or is lost
(`LosesReload`: the error is ignored, and after the write timeout every write fails); the
handler may return before a goroutine has written (`stray`), and what it then writes to may
end the program (`StrayWrite`, `crashed`). `excused`, `late` and `missed` are histories: a
template that a change crossed; a browser that was taken to show what is in the cache, and
shows an older page or that of another file of the same name; a browser that a reload did
not reach.

**MCCalls**, **MCStack**, **MCRange**, **MCExec**,
**MCParser**, **MCSyntax**, **MCBuild**, **MCEvaluation**, **MCServer** give
the instructions, sizes, texts, programs and files of the runs.

## Runs

| run | question | answer |
|---|---|---|
| `calls_go` | do the frames implement Go's defer, panic, recover? | yes, but for the value that recover() returns once the wrong panics were cut: `GoSpec` (refinement), `ChainCoversPanics`, `NeverWithoutFunction` |
| `calls_recover` | does recover return the current panic? | no: `RecoversCurrentPanic` |
| `calls_all` | with native functions, nil ones too, macros, stop and fatal, do the frames stay well formed, does nextCall end? | yes: `TypeOK`, `PanickedHasPanic`, `NoForeignRenderer`, `NextCallEnds` |
| `stack` | does every function find its registers and results, across swaps and growth? | yes, for functions that return: `RegistersKept`, `FramesInOrder`, `ReturnedResult` |
| `range` | does the Go stack have the loops that the functions are in? | yes, until a panic or two open loops with one address: `LoopsKept`; and never those of a call that panicked: `NoLoopOfPanicked` |
| `exec` | do cancelled programs end, and does Run say how its program ended? | yes: `StoppedSaysSo`, `OnlyIfCancelled`, `ExitReachesRun`, `CancelledEnds`, `WatchersEnd`; and an operation waits in its own cases, unless a send has panicked before: `WaitsInItsCases` |
| `parse` | do contexts and nodes follow the blocks of the text, does the parser always return? | yes: `ContextsFollowBlocks`, `BlocksMatch`, `TagReturns`, `ParserReturns`; it panics for three reasons: `PanicHasAReason` |
| `syntax` | are the trees those of the grammar, and printed, cloned and dumped as they are? | yes, but for the deviations named in Syntax: `ParsesLikeTheGrammar`, `StringRoundTrips`, `ClonesAreEqual`, `DumpShowsTheTree` |
| `build` | does a build read all that it needs, in one way, and refuse cycles; is everything initialized after its imports; do break and continue go where the source says, do variables keep their registers? | yes: `ProgramIsComplete`, `UsedInOneWay`, `TreesAreFinite`, `ImportsAreInitializedFirst`; and but for the reasons named in Emitter: `JumpsFollowSource`, `VariablesKeepRegisters` |
| `evaluation` | do compiled statements leave the values, the sharing and the panics of Go? | yes, but for the statements named in Evaluation: `RunsLikeGo`, `SharesLikeGo`; and the disassembler names the registers that they use: `NamesWhatItUses` |
| `serve` | is a cached or shown template ever older than its files without a reason, through lost reloads, connections that end, and names that are those of an index or of two files? | no: `StaleHasAReason`, `ConnectedFollows`, `PagesFollow` |
| `calls_native` | does a panic reach the callers when a native function is deferred? | no: `PanicReachesCallers` |

`calls_native` and `calls_recover` are findings, with the lines that disagree. `calls_recover` needs three panics: of three, one recovered and one replaced,
`nextCall` keeps as many as there are panicked frames, counted from the oldest, and
these are not the panics of those frames (`vm.go:561`). Other statements of the
documentation and of comments do not hold either. Each is a definition that no run
checks; TLC finds the counterexample when it takes the place of the properties of
a configuration.

| statement | in the place of the properties of | what happens |
|---|---|---|
| `ReportsUnrecovered` (VMCalls) | `calls_go.cfg` | for the reason of `calls_recover`, the panic that Run returns is one that was recovered (`vm.go:561`) |
| `KeepsRenderer` (VMCalls) | `calls_all.cfg` | OpCallFunc does not save `vm.renderer`, and nextCall restores a nil one after deferred calls (`run.go:243`, `vm.go:599`) |
| `ResultReachesCaller` (VMStack) | `stack.cfg` | the deferred calls of a function that panics use its registers, and if one recovers the caller reads its result elsewhere (`vm.go:577`) |
| `InsideStack` (VMStack) | `stack.cfg` | the stack grows only if `fp+NumReg > st`, while register NumReg is at `fp+NumReg` (`run.go:248`) |
| `LoopContinues` (VMRange) | `range.cfg` | a panic unwinds the OpRange of the callers; if it is recovered the end of an iteration ends the program, with no error (`run.go:75`) |
| `LoopOfItsFunction` (VMRange) | `range.cfg` | a return leaves its OpRange on the Go stack, and its address does not name the function (`run.go:1205`) |
| `OnlySyntaxErrors` (Parser) | `parse.cfg` | a second `else` panics with a string, against `parser.go:471` (`parser.go:1859`); in `{%% L: } } %%}` the braces close the statements and the tree, which ends in an index out of range (`parser.go:812`) |
| `CycleIsReal` (Packages) | `build.cfg` | a declaration that waits for its turn is taken for a package that is being parsed (`parser_program.go:79`) |
| `RebuiltWhenModified` (DevServer) | `serve.cfg` | a change during a build, or of a page that is a part of another, leaves an old template, against `help.go:293` (`serve.go:84`, `serve.go:322`) |
| `AssignmentsAreCloned` (Syntax) | `syntax.cfg` | the clone of an assignment has the copies of its values in the place of its variables, and no values, against `clone.go:19` (`clone.go:30`) |
| `InitsAreCalledOnce` (Initialization) | `build.cfg` | in a diamond of imports init functions run twice, against `emitter.go:66` (`emitter.go:142`) |

### Bounds

`MaxActs` counts calls and deferred calls, `MaxPanics` panics of one execution.
Five activations allow a caller, a function with two deferred calls of which one
defers again, and a panic inside it: every case of `nextCall` next to every
other. Three panics are one that is replaced, one that replaces it and is recovered, and
one more: what `nextCall` takes from a chain may then be neither its first nor its last. `StackSize` is 16 and functions have 2 or 4
registers, in the place of 512 and of 127 at most: the ratio is the same (at least
four functions fit before the stack grows), and with five activations the stack both
grows and is left as it is. `MaxNested` of `range` allows a loop of the caller, one
left behind by a return, and one more. `exec` has two machines, which are a program
and its goroutine or a program and the function that was called back, and one channel
of one value: it is full, empty, or closed, so that every case of a select is ready
in some state and not in others. `MaxCases` is four: the two cases that a panicked
send leaves in `vm.cases`, and those of one more operation.

`parse`: the text has no bound but that of what is open or not yet read:
`MaxAncestors` nodes and tokens, five, are the tree, two statements, one inside the
other with the block of a chain, and a token; blocks nest `MaxNested` deep, two where
all the statements are (text files) and one with the symbols of HTML and Markdown and
with the code of JavaScript files. A macro has a body in another format where that can be
told (`MCBodies`: HTML in a Markdown file, Markdown in a JavaScript file). The theorems
about contexts and nodes have none of these bounds. The channel has one place (20 in the code): with one the lexer is
ahead, behind or blocked. After an error what is left of the text is shows.

`syntax`: texts of up to ten tokens from alphabets of eight to ten (all of them, but
those that no continuation can make right), and the trees of one form in another with
and without parentheses, which are all the pairs of operators, postfixes and types.

`build`: three packages besides main with two import declarations each are enough for a
diamond, for a cycle that does not go through main, and for a declaration that waits
behind one with a cycle or without a file; three files with two nodes each for a file
that is extended and imported, and for cycles of every kind of use (the theorems about
both have no bound on the packages, the files and their contents). In the order of
initialization main has one init function, the package that imports nothing up to two
and the others one at most; a package imports only those after it, as cycles have been
refused.

The programs of Emitter have up to four statements nested three deep, over the statements about
jumps, and over those about variables with two names and three registers: a loop in a
loop in another kind of statement, and a variable more than the registers (the theorem about
the registers has no bound on any of these).

`evaluation`: words of 5 bits and bytes of 3 in the place of 64 and 8, so that all the
extremes of every type are operands and wrap around; the immediate operands have the
width of a byte, as in the code. A program is one or two statements on variables of
every type and place (local, captured, package-level, element, field, pointed); the
statements are all the pairs of a kind of target and a kind of value. 22 registers are
more than any of them needs.

`serve`: `index.html` and `index.md` of a directory, the first of which renders the second,
and both are pages. One browser visits both, with the URL of the directory and with that of
the second file, another the first; each file changes once (`MaxWrites`) and the watcher
fails at most once. The change can come at every point of two concurrent builds; a
connection may have to be registered with `/index`, and its name is always that of both
files.

`build`, `parse`, `evaluation` and `syntax` end: the program has been written,
the text read, the build done; deadlock is not checked there.

### Fairness

Liveness properties are those of `calls_all`, `exec`, `parse` and `serve`. In
`calls_all` the fairness is that of the goroutine that runs the loop of `nextCall`,
and of a native function that is called by it and returns. In `exec` it is weak
fairness of each goroutine that the Go scheduler has to run: the watchers, and for each
machine (`Progress`) the steps it takes without executing an instruction of the
program: the head of the loop that finds `env.done` set, a `reflect.Select` with a case
that is ready, a native function that goes on when the function that it called back
has ended, and the end of `runFunc`. The instructions of the program have none: a
program may loop for ever, and the context may never be cancelled. A native
function that never returns is left out, and would keep its program from ending.

In `parse` the two goroutines are scheduled: weak fairness of sending a token, of a
turn of the parser, of the drain and of the return. The text is finite, so its end is
reached: this is strong fairness of `LexEnd`, which waits while there are tokens to
send. In `serve` the fairness is weak for the goroutine that takes the events, the one
that invalidates, each request (`Serves(c)`) and the goroutine that writes a reload, whether it
arrives or is lost; strong for a reload that arrives, as of reloads that are written again and again to
browsers that connect again not all are lost; and weak for the end of a connection
to which a write was lost (`c \in missed /\ Drop(c)`), which net/http closes. No file has to
change, no page to be opened or left, no goroutine has to write to a connection that is
over, and the watcher need not fail.

## Proofs

The theorems hold for every value of the constants that the assumptions named in
the modules allow: `VMCalls_proofs`, `VMStack_proofs` and `VMRange_proofs` for every
set of instructions, number of activations, panics and loops, and stack size;
`VMExec_proofs` for every number of machines, set of channels and capacity;
`DevServer_proofs` for any files, whatever they include, any browsers and number of
changes; `Build_proofs` for any files, any packages and any imports of them; `Parser_proofs`
for any text in any of the formats; `Emitter_proofs` for any statements, however nested, any
names and number of registers. `ImplementsGo` is for every program that defers no native
function and is not stopped. Each is an invariant, an action property or a
refinement, which follows from an invariant that is inductive.

Calls.

- `TypeCorrect`: `Spec => []TypeOK`. The index of the loop of `nextCall` stays
  inside `vm.calls` in every phase; this is the part of `TypeOK` that needs all
  the actions.
- `PanicBehindEveryPanickedFrame`: `Spec => []PanickedHasPanic`, whatever the program
  executes: the chain is not empty while a frame is panicked. (That it is as long as the
  panicked frames are many is `ChainAlwaysCoversPanics`.) The two are one
  inductive invariant (`SafeInv`): `NextFinalized` cuts the chain to the number of
  panicked frames, which is not zero if there is one. The lemmas count the frames of
  an array that changes in one place, is cut, or swaps two neighbours.
- `NeverNilFunction`: without native functions among the deferred calls,
  `vm.fn` is never nil when it runs or is saved in a frame. `FunctionInv` says
  where nil may be: in `nextCall` after a panic, with a panicked frame on top of
  what the loop has still to see.
- `ChainAlwaysCoversPanics`: again without deferred native functions, the chain has
  as many panics as there are panicked frames, or more. It is inductive with
  `FunctionInv`: a native function that fails leaves a panicked frame where it was.
  That they are the panics *of* these frames is false; the attempt to prove it ends
  at `NextFinalized`, and the three panics of `calls_recover` are its counterexample.
- `NeverForeignRenderer`: a function may be left without a renderer, but never writes to
  that of another. `RendererInv` reads in the frames who called whom: between a caller and
  the function that it called there are only calls that this one deferred.

- `ImplementsGo`: `Spec => GoSpec`, the machine of VMCalls implements GoDefer, whatever
  calls, panics and recovers it makes: the same functions run, recover() ends the panic of
  the same function, and returns it unless the last cut of the chain left a panic that is of no
  panicked frame. `GoAssumption` leaves out the programs that
  defer native functions, for which it is false (a failure of one leaves the machine
  without a function), and `env.Stop` and `env.Fatal`, which Go has not. `GoInv` adds to
  `FunctionInv` what the steps need: only functions and macros call (`Callers`), the
  wrapper of `defer recover()` runs right above the function that deferred it
  (`EndsDeferrer`), `nextCall` has left no panicked frame behind, and while the chain has
  a panic there is, among the frames that count, one that panics or has recovered
  (`HasTrace`): this is why Run returns no error when Go would not. Then each action of
  VMCalls is taken to an action of GoDefer: calls and panics push an activation, a turn
  of `nextCall` that goes on with a deferred call is `RunDefer` or `Unwind`, one that
  finalizes a frame is `LeaveAfterDefers`, the OpReturn of a function with nothing
  deferred is `Return`, and going on with a caller is no step of Go at all. For what
  recover() returns, `ChainInv` says that panics and panicked frames are both in the order in
  which they were raised (`Sorted`, `Ordered`), and that while no cut has gone wrong every
  panicked frame has its panic in the chain (`Represented`) and the newest is that of the
  frame that recover() can stop (`NewestOnTop`). A cut that leaves only panics of
  frames leaves exactly theirs, because they are as many.

Registers.

- `StackImplementsCalls`: `StackSpec => Spec`, so what is proved of the calls holds
  for the machine with registers.
- `FramesStayInOrder`: `StackSpec => []FramesInOrder`: the unsigned subtractions of
  `swapStack` do not wrap. `OrderInv` adds that the frame pointers are as
  many as the frames, and what is known of their order while the loop of
  `nextCall` is below the top of the array.
- `RegistersAlwaysKept`, `ResultAlwaysReturned`: a function that runs has its registers,
  and the caller finds the result where it reads it, however many times the stacks of
  deferred calls are swapped and the stack grows in between. `KeptInv` says it of every
  frame that the loop of `nextCall` has still to see, with the frames one above the
  other (`Layout`), and what `nextCall` has just left (`LoopSees`); what it needs of
  `swapStack` is that the two stretches that change places are whole frames. Both are,
  as the properties themselves, up to a register out of the stack (`overrun`).

Range loops.

- `NeverLoopOfPanicked`: no OpRange of the Go stack is of an activation that panicked.
  That no two frames are of one activation would be enough, and is false: a nil native
  function that was deferred by a caller panics in `nextCall`, and makes a second frame of the
  function that had returned. `LoopInv` therefore says less, and only of the frames up to the
  one that `nextCall` looks at: an activation that will run again, because it waits for a
  call or is deferred, has no frame below (`Newer`, `Fresh`), nor has the function that
  runs (`Others`), and no frame under a panicked or recovered one has an open loop
  (`Quiet`). A frame that `nextCall` sees only to find that no call is left (`Halted`)
  will not run.
- `LoopsAlwaysKept`: before a panic, and while no two functions have open loops with one
  address, what the Go stack has of the functions that run or wait is their loops, in the
  order of the calls. `KeptInv` says it of the first k functions that wait, for every k
  (`Agree`), because a return, or `nextCall` when it goes on with a caller, leaves the last of
  them and what the Go stack has of it, and says that a deferred call has opened none yet
  (`Unbegun`). The OpRange that an OpContinue finds is then the last of them on the Go stack
  (`FoundIsLast`), so what is cut above it is of functions that returned. The lists are
  joined by `FlattenSeq` of the community modules, a recursive function that is chosen: that
  it exists, and what it has of a prefix, is by a least counterexample (`Flattening`,
  `FlattenedAlike`), and with `FlatAppend` the loops are followed one at a time.

Machines.

- `StoppedAlwaysSaysSo`, `ContextErrorOnlyIfCancelled`: `Spec => []StoppedSaysSo` and
  `Spec => []OnlyIfCancelled`. `EndInv` follows a machine from the moment that it is
  stopped (`Honest`), and needs `DoneThere`: the index that `OpSend`, `OpReceive`
  and `OpSelect` take for the done case is that of a done case, also when
  `vm.cases` begins with what a send that panicked has left. It is so only because
  that is two cases, of which the second is a done case.
- `ExitAlwaysReachesRun`: an `env.Stop` or `env.Fatal`, through any number of native
  functions that called back, is what Run returns. `ExitInv`: the machines that Run
  waits for are a list, each waiting for the next, of which only the last is not in a
  call (`OneLast`), and an exit is always the error of one that is ending (`Carries`).
- `AlwaysWaitsInItsCases`: `vm.cases` is empty between the operations of a machine that
  never panicked sending (`CleanInv`).

Server.

- `StaleAlwaysHasAReason`, `ConnectedAlwaysFollows`: whatever is cached, and whatever a
  connected browser shows, is as new as the files whose changes have been told to the
  server, but for the templates that a change crossed and the browsers that a reload did
  not reach or that were taken for up to date. `ServerInv` follows a request: what its build
  has read is watched and is of its page (`BrowserOK`), a cached template is among the dependents
  of each file that it was built from (`CacheOK`), and a connected browser is registered by
  the name of its page, which is cached, or has a reload on its way, or is one of those
  (`Informed`). The files of a page are the least set that has it and what its files
  include; of the names only `NamesAssumption` is used, that the index of a directory is
  taken if no file has the name.

What a build reads.

- `ProgramAlwaysComplete`: a program that is compiled has a tree for every import
  declaration, and no cycle, though a cycle is looked for only among the declarations
  of the stack. `PackagesInv` says that some of them, which nothing in the stack
  marks, are open (`DepthFirst`): what lies above an open declaration is what
  its package imports or what that imports, no declaration above it is of
  its package, and the packages that are neither open nor waiting import one another
  without cycles.
- `AlwaysUsedInOneWay`, `TreesAlwaysFinite`: no file is used both as a page to extend, an
  imported file and a rendered one; no tree contains itself, and the files that extend are
  a chain, with one change of format at most. In `ExpansionInv` the frames
  are of different files, none of them parsed, so that a reference always goes to a file
  that is complete (`Acyclic`); the files that are extended come first in the stack
  (`ExtendedFirst`), which is why `canExtend`, one flag for all the files, is enough.
- `ImportsAlwaysInitializedFirst`: what main calls has every init function and every `$initvars`,
  each after what the imports of its package have to initialize, however many imports lead to
  a package. `InitializationInv` takes the lists of the packages that are being emitted, one
  after the other from that of main, as one list: there every function comes after what it
  needs (`Ordered`), and the imports that have been emitted have all that they need
  (`ImportsListed`), maybe in the list of another package. That is why a package that
  is emitted again may be added again, or not. That the first call of a function in the list
  of main comes after the first calls of what it needs is by a least index (`FirstCall`).

What the emitter gives to a variable.

- `VariablesAlwaysKeepRegisters`: a name is the register of its variable, and the variables that
  are alive have registers of their own, out of reach of temporary values. The property relates
  three stacks that do not grow together: the scopes of the source, those of the builder, and the
  registers to go back to (`shifts`). A `for` and the `else` of an `if` have two scopes in the
  source and one in the builder; a `select` has a stack and no scope, a function literal a builder
  of its own. `VariablesInv` therefore says that there are functions that place every scope of the
  source: in which function it is, in which scope of that builder, and how many stacks were
  entered before it (`Laid`, `Placed`, `Mapped`). A variable is then in the scope of the
  builder where it is placed, and its register is below what any stack entered later will give
  back (`Held`), which is what a later `exitStack` needs; no two share a register (`NotShared`);
  and the builder has no name that the source has not (`FromSource`), so the last scope of
  the one with a name is that of the other (`LookupFinds`). The lemmas follow one builder
  through a scope that is entered or left or a name that is declared (`MappedEnters`,
  `MappedStays`, `MappedExits`, `MappedDeclares`), then all of them through a statement that is
  opened, closed or followed by its next part (`OpenedOne`, `OpenedTwo`, `Closed`, `Followed`). In
  a function in which a declaration took a name of the scope around (`merged`) only the shape is
  kept, and the property is not said.

What the lexer keeps.

- `ContextsAreThoseOfTheBlocks`: the stack of contexts is that of the open blocks from the
  outermost macro or using on. `Keeps` says it with that block given, which is easier to
  carry through a step than the property, where it is chosen; that there is one only is
  `OutermostIsUnique`.
- `TagsReturnToTheFile`: after a tag that is not of a script or style the text is in the
  context of the file. `LexerInv` adds that the lexer knows the context of the content of
  the next tag (`KnowsContent`), through every state of `scan` (`StepFollows`), and that a
  file that is not HTML has no tags out of its macros (`PlainOutOfMacros`). The attempt to
  prove it without `torn` fails at `lexMacro` and `lexEnd`, which restore the context but
  not the tag: in a Markdown file, after `{% macro M html %}<script {% end %}` the content
  of the next `<a>` is JavaScript (`lexer.go:383`, `lexer.go:1347`). TLC finds this as well.

What the parser builds.

- `PanicsHaveAReason`, `BlocksMatchTheText`: the parser has a place in the tree for every
  node that it adds, but for the three reasons of `PanicHasAReason`, and what is open in the
  tree is what is open in the text. Both follow from `TreeInv`, which relates the two
  goroutines. The text is read in one of three modes (`Modes`): between statements, in a raw
  statement, and as code. The lexer is in a mode, `scan`; the parser has none, and is in the
  mode that its open nodes tell (`TreeOf`). `Agrees` says that the tokens that are on their
  way, sent or still to send, lead from the second mode to the first (`Runs`, one token after
  the other by `Passes`), so a token is never read in a mode that it was not meant for. Of the
  nodes, `Shape` says which may be right under which, as `addNode` and the statements that
  open two nodes leave them; `InText` and `InCode` where those of the text end and those of
  the code begin; `Match` that those of the text are the open statements, counting a chain of
  `else if` once. Each lemma about a token shows that it keeps the first nodes and puts those
  that it adds in their place (`Edit`, `Placed`). The attempt found that two alternatives of the
  CASE of `CloseBrace` could both be true, in states that are never reached, where TLA+ leaves
  the choice open and TLC takes the first: they are now told apart.

The inductive invariants of what a build reads were checked by TLC on the templates and
programs of `build`, as `VariablesInv` on its statements, and `TreeInv` on the texts of `parse`,
before they were proved. Where an
argument is by induction (the last OpRange with an address, the outermost `If` of a chain), it is
on a minimal counterexample, from `WellFoundedInduction`.

Checked by TLC only: liveness; `JumpsFollowSource` of Emitter; the properties of Syntax and
Evaluation. SyntaxTree, TreeTools, SyntaxParser, Grammar, Expressions, Assignments, GoSemantics
and Evaluation are recursive over trees, which is out of the prover's reach. `JumpsFollowSource`
is not recursive, and is not proved yet: its invariant has to follow every label from the
statement that makes it to the one that places it, with the fields of the emitter that are saved
and restored, and with the ways in which they go wrong.

## Plan

1. Done: calls, registers, range loops, goroutines and cancellation.
2. Done: development server; lexer and parser; syntax trees; packages, templates and
   initialization; emitter of statements; expressions, assignments and instructions,
   against Go.
3. Proofs. Done: that the calls of the machine are those of Go, its safety properties, those of the server, of Packages, of Expansion, of Initialization, of the lexer,
   of the parser, and the registers of Emitter. Left: of Emitter `JumpsFollowSource`.
4. Left to model: the order of the declarations of a package
   (`checker_package.go`), the URL state of the renderer, channels without a buffer
   and range over a channel, goto and type switches.

## Not modelled

The type checker (scopes, expressions, types, constants): it is a function of the
tree, over Go's reflect types and big numbers, with no state that outlives a node but
the scopes; the modules of the emitter take its results as right. The renderer and the
escapers. Builtins, native declarations and the command, which are sequential functions
of their input. Of the machine: complex numbers, arrays, method values, the kinds of
values ranged over, the text written by macros, the wait of a range over a channel. Of
the emitter: goto, type switches, go and defer statements, method calls, and the limits
of the tables of functions, types and constants. Lines and columns of the tokens.
