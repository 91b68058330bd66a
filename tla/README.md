# DiffKemp in TLA+

DiffKemp compares two versions of the Linux kernel, function by function, and
says which functions of a list keep their semantics. This directory holds TLA+
models of its core, the TLC configurations that check them, and proofs checked
by TLAPS. Paths below are relative to the repository; everything is read from
its source, and `PROJECT.json` gives for every definition the lines it models.

## 1. The system

| Component | State | Operations | Interacts with |
|---|---|---|---|
| Session (`diffkemp/diffkemp.py`, `compare`) | the group's graph of results, the cache directory, the results | for each function of a group: skip, report unknown, compare, report | calls `functions_diff`, reads snapshots |
| Function comparison (`semdiff/function_diff.py`) | graph of the run, flag "simplify again", linked modules | reuse a known result; run SimpLL; link missing definitions; merge; update the cache; report | SimpLL (a library or a process), source look-up, `llvm-link`, llreve and Z3 |
| Comparison graph (`semdiff/caching.py`) | vertices (verdict, files, edges, cachable mark, list of vertices it keeps out of the cache) | normalise, mark uncachable, absorb, search | built from SimpLL's output, shared from one comparison to the next |
| SimpLL cache (`semdiff/caching.py`, `simpll/ResultsCache.cpp`) | one file per pair of source files, one line per pair of functions | append (Python), look up (C++) | the only channel from the graph back to SimpLL |
| Module comparator (`simpll/ModuleComparator.cpp`, `ModuleAnalysis.cpp`) | compared pairs with their results, missing definitions, the calls to try to inline | compare a pair, inline and compare again, record calls and missing definitions | recursion with the function comparator, which writes its state |
| Function comparator (`simpll/DifferentialFunctionComparator.cpp`, on top of `simpll/llvm-lib/*/FunctionComparator.cpp`) | serial numbers of values, blocks to compare, inverse conditions, PHI nodes to compare, the last call | compare blocks, instructions, operands, types, constants, accesses, called functions | the module comparator, whose state it writes |
| SimpLL passes (`simpll/passes/`) | the modules being rewritten, the compared functions, sets of a slice | slice by a variable or for the control flow, merge numbered functions, make void variants, abstract inline assembly, indirect calls and field accesses, … | run before the comparison |
| Macros and source text (`simpll/SourceCodeUtils.cpp`) | definitions by compilation unit, uses by debug location | macros of a line, differences in macros, arguments of calls and of inline assembly in the C source | asked by the function comparator; one object for a run of SimpLL |
| Linking (`llvm_ir/kernel_module.py`) | module object, files on disk | link, unlink, restore, clean | `llvm-link`, `opt` |
| Look-up of sources (`llvm_ir/kernel_source.py`) | map of modules, cscope database | find the file that defines a symbol, build its module | kernel builder |
| Kernel builder (`llvm_ir/build_llvm.py`) | rewritten compiler headers in the kernel tree | configure, build a file into LLVM IR, restore headers | GCC, clang, make |
| Sysctl tables and module parameters (`llvm_ir/llvm_sysctl_module.py`, `semdiff/module_diff.py`) | none | find the data variable and the handler of an option | LLVM IR |
| Semantic comparison (`_run_llreve_z3`) | two processes, a timer | start, wait, time out, kill | pipes |
| Snapshots (`snapshot.py`), results (`semdiff/result.py`), syntax differences (`syndiff/`) | lists on disk; verdicts; texts | make, copy, read, write, count, print | the session, source look-up |

A comparison runs as follows. `compare` takes the functions of a group in the
order of their names. For each, `functions_diff` first looks the function up
in the graph left by the previous ones: a result other than *assumed equal* is
reused. Otherwise it runs SimpLL on the two modules that hold the function.
SimpLL compares the function and, recursively, every pair of functions called
from it, and returns a graph of verdicts and the definitions that are missing
on one side. `functions_diff` looks for a file with each missing definition and
links it; as long as something was linked it runs SimpLL again. The graph of
the last run is then merged into that of the session. Verdicts that are final
go into the cache, and SimpLL does not compare a cached pair again: it answers
*unknown*, and the merge has to put the known verdict back.

### What is hard

* The state carried between comparisons. A graph, a cache on disk and marks on
  objects have to agree for any sequence of calls, while vertices for one
  function come from runs that saw different files. Unit tests build one or two
  small graphs by hand; the models take every call graph of a size.
* Failures in the middle of the loop of `functions_diff`.
* Weak dependencies (a callee that was inlined, or a void variant), whose
  meaning depends on the order in which vertices are met and merged.
* Termination of the two loops: linking, and inlining inside SimpLL.
* Serial numbers. Two values are equal when they were given the same number;
  numbers are given on the way and taken back when something is skipped.
* Passes that clone, merge, rename and erase functions under the pointers and
  analyses that other passes hold.
* Slices: a phase decides by sets that earlier phases filled in one order.
* What is found out about a place in the source stays for later questions, with
  what a search of another line found (macros); the parents of a use are pointers
  into a map that grows.
* The race of Z3, llreve and the timer, with pipes that fill up.
* Files that outlive a run: headers that are rewritten and restored, LLVM IR
  that is reused, a snapshot that is made in steps.

`PROJECT.json` lists these as hazards, each with its line and with the
properties that would be violated if it went wrong, or with the reason why no
property covers it.

## 2. The modules

| Module | Models | Kind |
|---|---|---|
| `ComparisonGraph` | `semdiff/caching.py`: vertices, `normalize`, `mark_uncachable_from_assumed_equal`, `absorb_graph`, `reachable_from`, `graph_to_fun_pair_list`; `semdiff/result.py` | operators on graphs |
| `SimpLLRun` | the output of one run of SimpLL for a program: graph, missing definitions, what linking adds; the result of a function on its own | operators, parameter `Programs` |
| `CompareSession` | `compare()` for one group and `functions_diff()`, with graph and cache | state machine |
| `IndependentCompare` | what a user expects: each function has the result of a comparison on its own | abstract specification |
| `ModuleCompare` | `compareFunctions` of `ModuleComparator.cpp` and what the function comparator does about calls | state machine with a stack |
| `FunctionCompare` | the comparison of two functions: `compare`, `cmpBasicBlocks`, `cmpOperations`, `cmpValues` and what `DifferentialFunctionComparator.cpp` overrides, and the loop that inlines | state machine |
| `FunctionMeaning` | what a function does, by symbolic execution | reference for `FunctionCompare` |
| `DebugInfo` | `DebugInfo.cpp`: names of the members of structs by type and index, values of macros and enumerators | operators, parameters `Members`, `Macros` |
| `ValueCompare` | `cmpTypes`, `cmpConstants`, `cmpInlineAsm`, `cmpGEPs`, `cmpFieldAccess`, `cmpOperations` without operands, `cmpValues` for constants: the data of instructions | operators, and a state per triple of items |
| `MacroDiffs` | `SourceCodeUtils.cpp`: macros of lines, what differs in them, arguments in the C source; `findDifference`, `findMacroFunctionDifference` | state machine, questions in any order |
| `Slicer` | `VarDependencySlicer.cpp` and `ControlFlowSlicer.cpp` | state machine, and executions of functions |
| `Preprocess` | `preprocessModule` and `simplifyModulesDiff` with their passes | state machine |
| `SemanticDiff` | `_run_llreve_z3` and the end of `functions_diff` | concurrent processes |
| `KernelSnapshot` | `generate` and `compare` on a kernel directory: headers, builds, look-up, snapshot | state machine over several runs |
| `MC…` | families of programs, functions, modules for TLC | instances |
| `…_proofs` | | theorems |

How they fit together: `CompareSession` sees a run of SimpLL as one step whose
output `SimpLLRun` describes; `ModuleCompare` opens that step, and its property
`ContractKept` says that the output is what `SimpLLRun` takes for granted.
`ModuleCompare` takes from the comparison of two bodies only calls and casts;
`FunctionCompare` opens that comparison, with types and constants as data that
`ValueCompare` opens in turn, with what `DebugInfo` has found. `MacroDiffs` answers its questions about macros and
arguments in the C source. `Slicer` and `Preprocess` are what happens to the
modules before. `SemanticDiff` is what `functions_diff` does after the graph is
merged, and `KernelSnapshot` is where modules and missing definitions come from.
`IndependentCompare` is the abstract specification of the session.

### Session: data

A *program* is a pair of snapshots: for each function its home file on each
side (or none), and for each pair of functions the outcome of comparing the
bodies and the pairs of callees met on the way. These outcomes are data for the
session: SimpLL is deterministic in them, and TLC takes all of them. A pair is
`(f, f)` or, for `RemoveUnusedReturnValuesPass`, the variant `(f.void, f)`.

A graph is a function from the names of its vertices to vertex records. Python
shares vertex *objects* between graphs, and `prevents_caching_of` holds
references to objects; a vertex record therefore carries the number of the run
that made it, and `Absorb` resets a mark only if the object in the graph is the
one in the list. `normalize`'s fold of `f.void` into `f` is `Normalize`;
edges that led to `f.void` and to `f` stay two elements of the set, since the
number of edges decides `compare_vertex_priority`.

### Session: actions

| Action | Code |
|---|---|
| `SkipAbsent` | the new snapshot's list has no such function: `continue` |
| `ReportUnknown` | a module is missing: result unknown |
| `StartDiff` | call of `functions_diff` |
| `ReuseGraph` | the function is in the graph and not assumed equal |
| `RunSimpLL` | `run_simpll`: the run, `normalize`, `mark_uncachable…` |
| `SimpLLFails` | the exception handler, at the first or at a later iteration |
| `LinkDef`, `LinkDefFails` | one element of `missing_defs` |
| `Rerun` | `while simplify` goes round |
| `MergeGraph` | `absorb_graph`, then `function_cache.update` |
| `ReportResult` | construction of the result, `restore_unlinked_mod`, `compare`'s use of it |
| `Done` | the group is finished |

`SimpLLFails` covers two cases that behave differently: when the first run fails
the graph of the session stays, and when a later one fails `result.graph` is the
partial graph of this function. The constant `MayFail` says which failures a run
explores.

### Comparison of modules

`compareFunctions` and the function comparator call each other, so the state
has a stack of the comparisons in progress, besides `ComparedFuns`,
`MissingDefs`, `tryInline` and the bodies, which inlining rewrites. A body is a
sequence of instructions; what matters of one is whether it is a call, a cast
that may be ignored, or something else, its operands, and the function-like
macro it comes from.

| Action | Code |
|---|---|
| `EnterCached`, `EnterDeclaration`, `EnterBodies` | the start of `compareFunctions` |
| `Compare` | `compare()`: signatures |
| `ScanEqual`, `ScanCalls` | `cmpBasicBlocks` on equal instructions; `cmpGlobalValues` records a call and compares the callees if they are new |
| `ScanSkip` | `mayIgnore`: a cast without a counterpart |
| `ScanDiffers`, `ScanCallsDiffer`, `TryCalls` | `findDifference`: callees of the same name are compared all the same, and `tryInline` is set |
| `SetEqual`, `SetUnequal` | the verdict, and the weak calls after an inlining |
| `Inline`, `Return` | the loop: inline, report a missing definition, compare again, or stop |

`tryInline` holds a pointer to a call; here it is the function and the place of
the call in its body. `findCallInst` is what keeps a nested comparison from
inlining the call of another: `Found`. Two differences from the contract in
`SimpLLRun` remain: `MissingDefs` may hold more than the contract names, since a
declaration that was to be inlined is reported even if it is one on both sides;
and void variants are in the contract only.

### Comparison of functions

The state is that of a `DifferentialFunctionComparator`: the place in both
functions, the serial numbers `sn` of both sides, the blocks `todo` and
`visited`, the pairs of `inverse` comparisons, the PHI nodes to compare at the
end, the call to inline. `CompareSignature` numbers the arguments;
`CompareBlocks`, `InstructionsEqual`, `CompareOperands` and `NextInstructions`
walk through a pair of blocks; `ComparisonsInverse` and `BranchesInverse` are
the conditions that mean the opposite with the ways swapped; `Skip` leaves out
a cast or an unused allocation on one side, takes back the number and compares
the other instruction again; `NextSuccessors` and `EndBlocks` put blocks in
line; `ComparePhis` comes last. `Differ` ends the comparison, with a call to
`Inline` or `NothingToInline`. `sn` is a function to numbers as in the code,
where taking back a number means erasing an element of a map, so a number is
the size of the map at that time.

`FunctionMeaning` executes a function on symbolic values. Its effects are the
instructions that are not pure, the conditions and the returned value, as terms
over arguments, for each sequence of decisions at branches; two functions mean
the same if what one does is the beginning of what the other does, for all
decisions up to a length.

### Types, constants and instructions

Each comparison of the code is an operator with the result -1, 0 or 1, in the
order of the stages of the code (`a ?? b`: the first difference counts). A state
of `ValueCompare` is a triple of items of one sort with the results of comparing
them in pairs, in both values of `ControlFlowOnly`; a property looks at all
triples. There are no further steps, since the comparison keeps no state.

What it reads is `debugInfo`, which `DebugInfo` computes from the same items before:
an item of the sort "access" is a place of both functions with the access of either,
and three of them are a function of both versions. `calculateGEPIndexAlignments` goes
through the places and, index by index, through each access: the member's name in the
old version, its index in the new one, and the name for either. The steps are those
of the code, with its early `continue`s and with the type in front of an index as the
code finds it. `calculateMacroAlignments` gives the constants that have the old value
of a macro or an enumerator the text of the new one.

### Macros and source text

`MacroDiffs` has the two maps of `MacroDiffAnalysis`: `known`, `defs` are
`MacroDefMaps`, `cached`, `uses` are `MacroUsesAtLocation`. A `StringMap` of uses
is a sequence in the order in which they are inserted; `parent` is the number of
the use that `MacroUse::parent` points to, 0 for none. Texts are sequences of
identifiers with what the code reads around them: arguments in brackets, `##`
behind them, the text of an `asm`. `Statements` cuts them out of files as
`extractLineFromLocation` does. The code replaces `param##` wherever it finds these
characters, so the model has two tables of what it needs to know of the characters:
`Paste` gives the identifier that two make, `Place` where the end of an identifier is
a given parameter. `Join` replaces one parameter in place, one after the other:
several in a row become one identifier. Where the parameter is only the end of an
identifier, the code finds it at the same place for ever; `Join` has `Stuck` there.

| Action | Code |
|---|---|
| `FindDifference`, `FindArguments` | a question of the function comparator: `findDifference`, `cmpCallArgumentUsingCSource` |
| `StartCollecting`, `CollectFile`, `FilesCollected` | `collectMacroDefs`, one macro file per step |
| `GetWithoutSearch`, `StartSearch` | `getAllMacroUsesAtLocation`: kept, or searched |
| `LookUp`, `ExpandNext`, `EndSearch`, `GoOnForEver` | `collectMacroUsesAtLocation`: an identifier, the next body, the end; the loop in `expandCompositeMacroNames` that does not end |
| `TryLineBefore`, `Report` | the end of `findMacroDifferences` |
| `GiveCallArguments`, `GiveAsmArguments` | the end of `findFunctionCallSourceArguments` and `findInlineAssemblySourceArguments` |

### Slicers

A function is a graph of blocks with instructions. The actions are the loops of
`runOnFunction` in their order: `Scan` (one instruction), `AddOperands`,
`VisitBranch`, `AddPhiInputs`, `AddDebugInfo`, `Clear`, `DeleteDeadBlocks`,
`EraseBlocks`, `EraseEntry`, `DeleteUnreachableBlocks`, `ChangeToVoid`; for the
other slicer, whose only loop has no order to speak of, `SliceControlFlow`.
Blocks are deleted or bypassed one per step, in the order of the layout; a phi
that is left with one value becomes that value, as LLVM does it when a block loses
a predecessor (`LosePredecessor`, `FoldPhi`). `Reach` is the least set of blocks
closed under successors, which is what the recursive functions of the code gather.
`source` keeps the function as read. `Execute` runs a function for a value of
the variable and of the parameter and gives what every instruction was
executed on: the reference to which slices are compared.

### Passes

A module is a list of functions with their numbers (LLVM's pointers), names,
signatures and bodies; a name is a sequence, so `f.1.void` has two suffixes.
`RunFunctionPasses` is `preprocessModule` on one side; `RunMergeNumberedFunctions`,
`RunSimplifyKernelGlobals`, `RunRemoveLifetimeCalls`, `refreshFunctions`,
`RunFunctionAbstractions`, `RunRemoveUnusedReturnValues` and
`RunFieldAccessFunctions` are the rest in the order of the code.
The reference is `Events`: what a function does when everything with a body that
was made by a pass is expanded.

### Semantic comparison

The threads and processes are DiffKemp's own (`Main`), the timer's, llreve and
Z3. llreve writes into a pipe of bounded size and blocks when it is full; Z3
reads, answers into a pipe that nobody reads before it has ended, and may fail,
hang, or be killed by the timer. `LastVerdict` has the loop over the lines of
the answer, of which only the first is one.

### Kernel directory and snapshots

`Edit` changes a C file between runs, and `EditHeaders` the headers that the files
include, which are taken as one; a run is `generate` or `compare` with one or two
snapshots of the same kernel. `RewriteHeader` and `RestoreHeader` are a compiler header
each, and `CutOff` may come between any two steps: a crash, an exception, or the exit
of `compare` when the output directory exists.

| Action | Code |
|---|---|
| `Generate`, `RemovePiece`, `Emptied` | `create_from_source`: `shutil.rmtree` of the old snapshot, a file at a time in any order, then a new directory |
| `TakeSymbol`, `FoundInSnapshot`, `NotInSnapshot` | the list of `generate`; `_link_symbol_def` of `compare`, which asks the snapshot, then the kernel directory |
| `SkipTooNew` | `get_module_from_source`: the time constraint |
| `Compile`, `Optimise` | `build_source_to_llvm`: clang writes the IR, `opt` rewrites the same file; each may fail, which the caller swallows |
| `LookInto`, `NotFound` | `get_module_for_symbol`: is the symbol in the module |
| `AllLookedUp`, `CopyModule`, `WriteYaml` | `generate_snapshot_dir` |

IR has a `form`: as clang left it, as `opt` did, or a part, when `opt` was cut off (or
failed) while it wrote; it may then also be as before, or removed (`Interrupted`). What
is in a part, or in a snapshot of which something was removed, may be overlooked. The
cscope database is built where there is none, and is never built again.

## 3. The runs

| Run | Instance | Properties | Shows |
|---|---|---|---|
| `session` | three functions in two C files and a header: every call graph without self-calls, every outcome; definitions that move between files or vanish; the first run of SimpLL may fail | `CacheCoherent`, `ResultsKept`, `CachingIsTransparent` | what is in the cache has its verdict in the graph; verdicts stay; each result is the independent one |
| `session_hard` | void variants; header functions that depend on at most one function defined elsewhere; every failure | `VerdictsSound`, `CachedHeadersSettled`, `SessionProgresses` | no failure produces a wrong verdict, none keeps the session from its end; what may change stays out of the cache |
| `module_compare` | four families of pairs of modules | `AllEqualSound`, `CalleesCompared`, `ContractKept`, `Terminates` | the comparator inside SimpLL gives what the session relies on, and ends |
| `function_compare` | six families of pairs of functions | `TypeOK`, `SerialsUnique`, `OncePerBlock`, `EqualUpToJoins`, `Terminates` | the walk gives no number twice, meets no block twice, ends, and equal functions behave alike up to joins |
| `value_compare` | triples of types, constants, operands, accesses, field accesses, operations, with debug information | `TotalOrder`, `ControlFlowCoarser`, `SidesAlike`, `EqualSameContents`, `EqualSameElement` | the comparison is an order, and what is equal has the same bits, comes from one macro, or is the same member |
| `slicer` | functions of three to seven blocks | `DirectDifferenceFound`, `ValidSlice`, `DependentsStay`, `SlicePaths`, `SameControlFlow` | a slice keeps what depends on the variable, goes the ways of the original, and without loops it is a valid function |
| `preprocess` | pairs of modules, two or three instructions in the compared function | `MeaningKept`, `ModulesValid` | passes change what functions are called and how they are cut, not what they do |
| `semantic_diff` | up to two objects, a formula of two parts, pipes for one | `VerdictsSound`, `TimeoutsLate`, `Terminates` | no interleaving gives a wrong verdict or keeps DiffKemp waiting |
| `kernel_snapshot` | two files and what they include in two versions, two edits, a compiler header, three runs | `HeadersRestored`, `SnapshotWhole`, `SnapshotCurrent`, `LinkedAsOfSnapshot` | in what runs cut off anywhere leave, no later run finds code of another time, up to what no time of modification tells; a run that ends leaves the compiler headers as they were |
| `macro_diffs` | twenty-three programs with two locations on each side, any order of questions | `TypeOK`, `StacksLeadToTheLine`, `NoMacroMissed`, `ReportedDifferences`, `RightAssembly`, `SearchesEnd` | what earlier questions left for a location leaves no macro out and leads no stack astray; differences are those of the statements |
| `argument_pollution` | the same | `ArgumentsOfTheLine` | *violated*: after a retry with the line before, arguments come from a macro that the line does not use |
| `joined_blocks` | functions whose branches meet | `EqualIsSound` | *violated*: functions that go to different blocks are found equal |

The properties, in words:

* `CacheCoherent`: every pair SimpLL is told to skip has a definitive verdict
  in the graph, computed for the same files. Without it an *unknown* would
  reach the user.
* `CachedHeadersSettled`: a header function is not cached while something it
  depends on is only assumed equal.
* `ResultsKept`: a definitive verdict is neither dropped nor changed.
* `CachingIsTransparent`: the session implements `IndependentCompare`, where a
  function's result is computed with an empty graph and an empty cache. The
  refinement maps `todo` to the functions not reported yet and hides the rest.
* `VerdictsSound` (session): a verdict in the graph is that of comparing the
  bodies (of the function or of its variant), with the files that define it.
* `SessionProgresses`: every step but the final stutter lowers a measure.
* `AllEqualSound`: when all pairs SimpLL met are equal (or assumed equal with
  nothing missing), executing the main function does the same in both versions.
  `Behaviour` is the reference: the effects left when all calls are replaced by
  what they do. The property is about the verdicts *together*: in a recursion a
  pair counts as equal while it is being compared, and a function may have been
  inlined in some callers and not in others.
* `CalleesCompared`: what an equal function still calls was compared, and the
  call is an edge of the graph.
* `ContractKept`: the output of SimpLL is what `SimpLLRun` takes for granted.
* `SerialsUnique`, `OncePerBlock`: numbers that were taken back are not given
  to two values, and the walk ends because a block is compared once.
* `EqualUpToJoins`: functions found equal have the same effects for all
  decisions, as far as control does not enter a block that has several
  predecessors. `EqualIsSound` is the same without that condition.
* `TotalOrder`: what `FunctionComparator.h` promises for types, constants and operands.
  `ControlFlowCoarser`: comparing the control flow only never finds more.
  `SidesAlike`: it does not matter which version is the old one.
  `EqualSameContents`: equal constants have the same bits, or a macro that has
  one value in the old version and the other in the new one. `EqualSameElement`:
  equal accesses are to the same place, or to members that share a name by the
  layout of their structs, whatever was found at other places of the functions
  before; equal field accesses have the same offset.
* `DirectDifferenceFound`: if the variable makes a difference to what an
  instruction is executed on, the instruction is in the slice.
  `ValidSlice`: without loops, a slice begins where the function does and has its
  return block; whenever that is so, no operand, target or input of a phi is
  missing, nothing leads to the entry, and only the return block has no successor.
  `DependentsStay`: as long as the entry stays, what was found to depend on the
  variable does, but for phis that are left with one value, a return block that is
  gone, and what could never be reached. `SlicePaths`: from a block the slice goes
  only to blocks that are there, and only if the function can go there through
  nothing but blocks that are gone.
  `SameControlFlow`: the other slicer leaves branches, calls and the return on
  the same operands.
* `MeaningKept`: each function with a body after the passes does what one of
  its name did before, and the compared function what it did. `ModulesValid`:
  operands exist, calls fit the functions they are of, names are unique.
* `VerdictsSound` (semantic): an answer counts only from a Z3 that had the
  whole formula and ended by itself. `TimeoutsLate`: a timeout is only
  reported when the timer is over, and a Z3 that was killed gives no verdict.
* `StacksLeadToTheLine`: the parents of each use lead, without a circle, to a macro
  of the statement or of the one before, and each is in the body of the next.
  `NoMacroMissed`: when a location is done, all macros of its statement and of the
  bodies found are there. `ReportedDifferences`: macros used on both sides whose
  bodies differ are reported, whatever was asked before, and those of the
  statements before only when these use them. `RightAssembly`: a text with the very
  assembly that is looked for gives its arguments. `SearchesEnd`: a question is
  answered, unless a body has `JoinsParts`: an identifier before `##` ends in a
  parameter, or a parameter that is not the last one is joined with two more
  identifiers, so that its argument may come to stand before another parameter.
* `HeadersRestored`: a run that ends leaves the compiler headers as they were before
  all runs, whatever was cut off before.
* `SnapshotWhole`: a snapshot that can be loaded has the IR of each function it lists,
  unless a `generate` was cut off while it removed just that IR. Nothing of one snapshot
  is ever found in another.
* `SnapshotCurrent`: that IR was built from the text that the file had when the
  snapshot was made, and with the headers of that time if they were not edited
  since it was built; unless its build failed in that run.
* `LinkedAsOfSnapshot`: so was what compare links to it from the snapshot or from
  the kernel, the latter if the headers were not edited since the snapshot was made or
  the IR is older than the snapshot.
* `Terminates`: the recursion, the walk, the inlining loops, and the
  comparison with llreve come to an end.

Each violated property is quoted in `PROJECT.json` ("findings") with the comment
that states it.

### Bounds

*Sessions.* Three functions are enough for the cases that matter here: a caller,
a callee whose definition is elsewhere, and a third function through which the
result of the first is reached again; a chain, a fork, a cycle and a shared
callee all occur. Two C files and a header give every combination of "same
file", "other file" and "header" that the code distinguishes. Header functions
take a fourth. Nothing else is bounded: the cache is a bag that a finite session
fills with finitely many lines, and `runs` counts the runs of a session that
ends.

*Modules.* A main function of up to two instructions, a function with a
parameter, a third function and one that stands for inline assembly.
`CallPrograms` has all mains over a plain instruction and three calls, with
callees that are equal, differ, differ only by a cast, call further functions,
or miss their definition; `OddPrograms` has casts, a macro, inline assembly and
cached pairs; `ChangedPrograms` a callee that gains a parameter;
`RecursivePrograms` direct and mutual recursion. Two instructions allow an
inlined call beside one that remains, and a difference before, at or behind a
call; bodies grow by inlining, without a bound. In `RecursivePrograms` both
versions of the main function make the same calls: where the calls of a
recursive function differ, the code inlines for ever (each inlining leaves such
a call), and `Terminates` is stated for the rest.

*Functions.* Up to four instructions in one block (every skip, number taken back
and inlined call beside each other), a branch on a comparison with all ways and
predicates, joins and loops over five blocks (`MaxBlocks`), PHI nodes whose
result is stored and branched on, `__LINE__` arguments, changed signatures.
Effects are compared for up to three decisions (`MaxDecisions`), which is more
than a loop of these functions needs to be entered, left and entered again.

*Items.* Each family has items that differ at every stage of its comparison, so
that in triples each stage decides, and each exception of
`DifferentialFunctionComparator` occurs on either side. Types nest twice. Structs
gain a member in front, have their members in another order, have bit-fields, share
names of members, have members without names or with an alignment. Constants that
are cast occur on one side, on both, and twice. Three places are
enough for a name that is found at one place to meet an access at another.
`OffsetRange` stands for 2^32: no struct of the instance is half as long, as none of
a program is, but offsets may be negative.

*Slices.* `Flow(4)` has all graphs of four blocks, ways back included, with the
variable or the parameter in each branch; the other families have a fixed graph
with all choices of operands: data through PHI nodes, loops, memory, addresses
of functions, calls without side effects. `DirectDifferenceFound` and
`ValidSlice` state their conditions (no nested branches, no memory, no loops for
the former; no loops for entry and return block to be kept): outside them the code
does not do it, as section 5 says. `Entered` has the smallest functions, of seven
blocks, in which an entry is erased while what follows it stays.

*Passes.* All pairs of instructions out of about twenty, with the second one on
the result of the first: that a result is used or not, and by what, is what the
passes look at.

*Macros.* The questions are not bounded in number: what is kept for four
locations is finite. Macros use each other in circles and through several paths,
are defined in a header and again, differ or not, stand where a function is called
on the other side; statements have several lines, blank lines before them, no
end; identifiers are made by `##`, from one parameter, from two in the order of the
list or the other way round, from the same one twice, behind a name that ends in a
parameter after one or two characters, and in a macro without parameters; texts with
assembly agree in a part, in all, or have none. Two locations a side are enough for a
line that is the one before another, which is how questions meet.

*Processes.* A formula longer than the pipe, so that llreve blocks and a killed
writer leaves a part; two objects, so that what is left of the first meets the
second; of the same name or not.

*Kernel.* A function that moves from one file to another when both are edited,
so that stale IR and a stale database can mislead, and headers that are edited;
`MaxEdits` = 2, so that any two of the three are. `MaxRuns` = 3 gives a run that is cut
off, one on top of it, and one that ends; or a snapshot, its removal cut off half way,
and a comparison with the rest. Compiler headers are rewritten and restored one by one
and alike: one is enough for it to be rewritten several times and restored once. The
theorems below are about all bounds.

### Fairness and termination

`ModuleCompare` and `FunctionCompare` assume weak fairness of their next-state
relations: SimpLL is one thread, which keeps running. Bodies may grow by
inlining, so that there is no obvious measure, and `Terminates` is a liveness
property.

`SemanticDiff` assumes weak fairness of DiffKemp's thread and of the timer's:
both run until they wait for something, and a timer ends. Nothing is assumed of
llreve and Z3, which may stop anywhere; that the comparison ends all the same is
what the timer is for.

`MacroDiffs` assumes weak fairness of `Work`, the steps that answer a question:
one thread does them without waiting. Nothing is assumed of questions.

`CompareSession` states no fairness. The program is sequential, and what has to
happen eventually is shown by `SessionProgresses` and by the absence of
deadlock: every state but the last has a step, and each step brings the measure
`StepsLeft` down. The measure's main part is the number of files that can still
be linked, which is why the loop over `simplify` ends. The slicers and passes
are sequences of phases, and `KernelSnapshot` may be cut off anywhere: nothing
has to happen there. Deadlock is not checked for `Preprocess`, which stops behind
its last pass, and `ValueCompare`, which has no steps.

## 4. Proofs

TLAPS checks the following for every set of functions, files, programs and
objects, and every size.

* `TypeCorrect`: `Spec => []TypeOK`. The lemmas show that each operator of
  `ComparisonGraph` and `SimpLLRun` returns a graph; `ReportType` rests on the
  filter of `graph_to_fun_pair_list`, which leaves out *assumed equal*, the one
  verdict that is no kind of an inner result.
* `VerdictsAreSound`: `Spec => []VerdictsSound`. The inductive invariant says
  it of `curr` as well as of `graph`, since any of the two may become the graph
  of the session. `RunGraphType` shows it of a run; `AbsorbSound` that a merge
  takes each vertex from one of two sound graphs. No assumption on failures.
* `CacheIsCoherent` and `ResultsAreKept`: `Spec => []CacheCoherent` and
  `Spec => ResultsKept`, for programs without void variants and sessions in which
  no repeated run fails (section 5 says what happens without these
  conditions). The invariant `ResultsInv` strengthens them: both
  graphs are *firm* (a vertex with a verdict has exactly the edges its bodies
  give, one that has none has no edges), and outside the comparison of a
  function `graph` and `curr` agree. From it follows `KeepsDefinite`: for a
  definitive vertex `compare_vertex_priority` never gives way, because the run
  that could replace it knows no more edges.
* `SessionAlwaysProgresses`: `Spec => SessionProgresses`, for any programs and
  failures. With `l` files not linked, an iteration of the loop counts for as
  many steps as there can be missing definitions, and four; a file that is linked
  pays for the iteration it causes. `RoomForOneMore` is the arithmetic of it, and
  the rest is one step per action.
* `CachedAreSettled`: `Spec => []CachedHeadersSettled`. The programs have no void
  variants, no repeated run fails, functions in headers of the old version are not
  moved to C files, and each depends on at most one function outside of headers
  (`HeadersSimple`; section 5 says what happens with two). The programs of
  `session_hard` are such. The cache is asked in one iteration what was marked in
  another, over a graph that was merged in between; so `HeadersInv` says of both
  graphs that their header functions have the files and calls of the program and
  that what a vertex prevents from being cached depends on it (`HeadersExact`), that
  a header function marked cachable depends on verdicts that one of the graphs has
  (`MarkedRight`), and that what is *unknown* in `curr` has a verdict in `graph`.
* `CachingMakesNoDifference`: `Spec => CachingIsTransparent`, the refinement of
  `IndependentCompare`, where `todo` is mapped to the functions not reported yet.
  The programs have neither void variants nor inlined calls, and no functions in
  headers; neither a repeated run nor a link fails; and missing definitions are
  looked for, that is, not `ControlFlowOnly`. Each condition excludes something
  that shows in the result: section 5. First runs may fail.
  A graph is `Complete` when its definitive vertices have exactly the calls of
  their functions, and those of their callees that are in the same file and have
  a home in the other snapshot are definitive too. Three facts make the proof.
  (1) A run with nothing left to link gives such a graph, but for the vertices it
  found in the cache (`RunGraphSettles`), and absorbing it into a complete graph
  that has these gives a complete one (`AbsorbComplete`); `RefInv` carries this
  through the loop of `functions_diff`. (2) Two complete graphs say the same of a
  function that is definitive in both (`SameReport`): the search does not leave
  the file, and within it both graphs have the same vertices and edges
  (`FoundInBoth`). (3) The graph of a function compared on its own is complete
  (`AloneMeaning`), which needs that linking again and again arrives at files with
  nothing left to link (`LinkedAloneLinks`). `ReachableMeaning` says what the
  breadth-first search finds: without weak edges, the least set closed under the
  edges it follows, in whatever order it goes.

* `ComparisonTyped` and `CalleesAreCompared`: `Spec => []TypeOK` and
  `Spec => []CalleesCompared` for `ModuleCompare`, from one inductive invariant,
  `RecordedInv`. The calls of a function are recorded one after the other, while
  other comparisons run in between; so the invariant says for each comparison in
  progress that the calls its scan has passed are recorded, with callees that
  are compared or about to be (`Known`), and that all are once it is found equal.
  It also says that a pair is in progress at most once and that all but the last
  wait at a call: this is why an inner comparison inlines into no body whose scan
  is under way. `CalleesCompared` needs `MacroValues = {}` (section 5
  says why); the types need no condition. That `tryInline` is a call of the
  current body although nested comparisons share it rests on `findCallInst`
  and on each inlining clearing it (`InlineKeeps`).
* `ContractIsKept`: `Spec => []ContractKept`, what `SimpLLRun` takes for granted
  when SimpLL ends. On the way a comparison that was entered has recorded some of
  its calls and has no verdict yet. `ContractInv` says what is true all the time:
  the pairs compared, and the one about to be, are reached from the main one
  through the calls recorded so far; the callees recorded are among them; both
  sides record the same calls; a pair that is not in progress any more has its
  verdict, and definitions missing on one side have been reported (`ResultOK`).
  Inlining changes bodies and starts the comparison again, but takes no recorded
  call back: this is why a pair met before an inlining is still reached after it.
* `EqualFunctionsMatch`: `Spec => []EqualBodiesMatch`, for any pairs of modules. What
  the comparator calls equal has as many parameters and, as inlining has left the
  bodies, instructions that it takes for the same, one by one and in their order,
  but for casts. Verdicts are given while other comparisons wait, some are taken
  back by inlining, and a function may be *equal* while a recursion compares it;
  `MatchInv` says what each comparison in progress has matched so far, and that it
  is of the bodies as they are now. This is what a verdict means for the text of
  functions; what it means for what they do is `AllEqualSound`, which only TLC
  checks.

* `SemanticTyped`, `VerdictsOfZ3Sound`, `TimeoutsAreLate`: `[]TypeOK`,
  `[]VerdictsSound` and `[]TimeoutsLate` for `SemanticDiff`. The invariant `IInv`
  relates the four processes: what is in the pipe is what llreve has written and
  Z3 has not read (`PipeInv`); where DiffKemp's thread is says in which states
  the others can be (`PhaseInv`); an answer is only there when Z3 has read the
  whole formula, and it is true (`AnswerInv`); and the verdict so far is the one
  of that answer (`KindInv`). The interleavings are covered by one step per
  process and part of the invariant.
* `HeadersAreRestored`: `[]HeadersRestored` for `KernelSnapshot`, for any headers,
  files and number of runs. The property speaks of the end of a run only, and a run
  begins with whatever headers the cut-off ones left. The invariant adds that the
  run in progress is going to restore every header (`WillRestore`): before it
  finalizes, all of them are in its list; from then on, those that are not in the
  list any more are the original ones. The list is that of this run alone: it is
  complete because every run rewrites all headers, also those that an earlier run
  has rewritten and left so.
* `SnapshotIsWhole`, `SnapshotIsCurrent`, `LinkedIsAsOfSnapshot`: `[]SnapshotWhole`,
  `[]SnapshotCurrent` and `[]LinkedAsOfSnapshot` for `KernelSnapshot`. The code
  decides by times of modification whether IR is built again, and it trusts what
  it has built or loaded in the run. The invariant `SnapInv` therefore relates
  times to versions: IR that is not older than its source was built from it, or
  a build of that source failed (`BuiltRight`, `Times`); the modules of a run are
  up to date unless their build failed, since sources change only between runs
  (`ModulesBuilt`); a build in progress is of the candidate at hand, between clang and
  `opt` as well as behind them; a function is put on the list with a file whose IR defines it
  (`FunsDefined`), and `generate` copies that IR before it writes the list
  (`CopiesOfModules`, `Copying`). For `compare`, sources that were not modified
  after the snapshot was made are as they were then (`SourcesThen`). The headers need a
  history of their own, as no time of the IR tells their version: IR built after their
  last edit has them. For a snapshot whose removal was cut off, each copy is either
  as it was or gone. The conditions in the statements (a failed build, edited
  headers, a removal that was cut off) are each needed: without it TLC finds a
  counterexample.
* `FunctionsTyped`, `BlocksComparedOnce`: `[]TypeOK` and `[]OncePerBlock` for
  `FunctionCompare`, for any pairs of functions and any bodies of callees.
  `TypeOK` is not about types only: the place of the comparison is in a block of
  each function, and what is to be inlined is a call. It is not inductive, since
  operands are taken at the same places of two instructions, successors of two
  branches, and incoming values of two PHI instructions that were put aside long
  before. The invariant `IInv` adds that the functions stay well-formed while
  branches are swapped and calls are inlined (`FunctionsInv`); that instructions
  whose operands or successors are being compared have the same shape, and
  blocks that wait exist (`WalkInv`); and that the next incoming value of the PHI
  instruction at the head of the list is one that it has (`PhisInv`), which is
  about quotients: the code has two loops, the model one counter.
* `EqualBlocksAreMatched`: `Spec => []EqualBlocksMatch`, the same with control flow. When
  two functions are found equal, there is a counterpart for each block that the left
  one can reach: entries belong to each other, and each other block follows one that
  has a counterpart as its own counterpart follows that. A block and its
  counterpart match instruction by instruction, in order, but for allocas and
  casts. Instructions that match do the same and have the same constants and called
  functions at the same places, at least up to an argument that is the same in the C
  source; comparisons and branches may be inverse; the constants that come to a PHI
  instruction come to its counterpart. The comparator only keeps the blocks it has
  met, on the left; so the invariant `EqualInv` says that there is a partner for each
  of them, which is compared, being compared, or on the list with it
  (`PartnersInv`); how much of the blocks at hand is matched (`BlockInv`); that PHI
  instructions, which match as long as they wait, are compared to the last of their
  values before they are taken from the list (`IncomingInv`). Exchanging the successors
  of a branch changes the right function under way: what was matched stays matched,
  since successors are compared as sets (`MatchedOrder`). The property has no run of
  its own. What it leaves out, which values of the functions are the same, is in
  `SerialsUnique` and `EqualUpToJoins`.

* `MacroAnalysisTyped`, `StacksLead`, `NothingMissed`: `[]TypeOK`,
  `[]StacksLeadToTheLine` and `[]NoMacroMissed` for `MacroDiffs`, for any programs
  and any questions. Uses of a location are only ever added, but under way the
  search has looked at a part of a text, and the texts still to be searched are in
  `toExpand`. The invariant says how far it is: the text being searched is the
  statement or the body of a use that is there, as it reads with its arguments
  (`ScannedText`); of the text its macros up to `scan.at` are among the uses, and
  the body of every use has been searched, is being searched or is in `toExpand`
  (`SearchedSoFar`); the statement itself is searched before the one before it is
  ever tried (`OwnLineFirst`). That definitions of a unit do not change once a use
  refers to them (`CachedIsKnown`, `StayEffect`) is why what was found stays found
  under the steps of other questions.
* `DifferencesAreReported`, `AssemblyIsRight`: `[]ReportedDifferences` and
  `[]RightAssembly` for `MacroDiffs`. The first compares what was gathered use by use
  with the least set of macros that contains those of the statement and, with each
  macro, those of its body. None of it is missing, because the uses of a location
  that is done are such a set (`NothingMissed`); nothing is too much, because the
  first use that is not in such a set would have a parent that is not in it either
  (`StacksLead`). The invariant adds that lines before are tried when both statements
  have been searched, and that each of them has been searched as well or is still to
  be (`LineBefore`), and what the answer is made of (`ReportIs`). For the second, when the assembly of one
  candidate only is the one that is looked for, the loop over the characters
  comes to an end with this one left (`OneIsLeft`).

* `DependentsStayThere`, `SlicePathsAreOfFunction`: `[]DependentsStay` and
  `[]SlicePaths` for `Slicer`, for any functions, with loops, memory and whatever
  layout. Both are about what is left after five loops that each change the blocks
  under the others' feet. `SliceInv` says in which order that happens
  (`PhasesInOrder`), that the entry goes last (`EntryFirst`), that blocks of what was
  found are included and keep it (`DependentsIncluded`), that they are reached as
  long as the entry is there (`WantedReached`), and that an edge stands for a way
  through blocks that are gone and never leads to one (`PathsKept`): a block is
  deleted when nothing leads to it, or bypassed, or not reached. Only the last of
  these is sure to sweep up what the others have left.

The assumptions are those of the modules: functions are finitely many numbers,
C files are finitely many, and no headers; programs, modules and objects are
typed, a function that stands for inline assembly has no body, formula and pipe
have a size, headers and files of the kernel are sequences; functions to be
compared are well-formed LLVM IR (one terminator, at the end of a block;
successors that exist; names of their own), with finitely many names; functions
to be sliced have each block once, with a terminator, nothing that leads to the
entry, and operands that exist (`FunctionsAssumption`); programs whose lines and
macros are typed, a table of places that are numbers, a name that is none, and
characters that are not 0, which ends a text.

Recursion and induction: the theorems on induction and recursive functions in the
library take operators as parameters, which the provers cannot instantiate. Where
a proof needs them, the set of the numbers for which a statement holds takes the
place of the operator (`LeastExists`, `AllNumbers`), and the function is put
together from its finite beginnings (`IterationExists`). This is how
`ReachableMeaning` and `LinkedAloneLinks` are proved. `Join` and
`expandCompositeMacroNames` are recursive functions as well; that they give texts is
proved in the same way (`RestsExist`, `JoinStagesExist`).

Only model-checked:

* `CachingIsTransparent` and `CachedHeadersSettled` outside the conditions above:
  neither holds of all programs (section 5).
* `SerialsUnique`: it is not inductive. `Skip` takes the numbers of two instructions
  back without looking whether they are the last ones, and a block of the right
  function may be compared with two of the left. Whether such a value has been
  given its number just before, and is not met again, depends on definitions
  dominating their uses, which `WellFormed` does not say and on which inlining and
  the order of the blocks bear.
* `EqualUpToJoins`, `AllEqualSound`, `DirectDifferenceFound`, `SameControlFlow`: their
  references are executions of functions, defined by recursion over terms, bodies
  and ways; what such a recursion gives for every input would need an induction
  over data. What has been proved about equal functions and slices is about their
  text (`EqualFunctionsMatch`, `EqualBlocksAreMatched`, `SlicePathsAreOfFunction`).
* `ValidSlice`: that operands are there rests on the closure that `WithOperands` and
  `AddOperands` compute by a fold, on dominance, and on the number of times that
  the entries of a phi name a block.
* `MeaningKept`, `ModulesValid`: the passes are folds over sequences of functions,
  of which the provers know nothing.
* `ValueCompare` and `DebugInfo`: types and constants are nested, and are compared by
  RECURSIVE operators, which the prover does not admit.
* Liveness (`Terminates`, `SearchesEnd`), which needs fairness and `ENABLED`.

## 5. Not modelled, and what is known not to hold

### Departures

Behaviour found while modelling that a property's condition or an instance
leaves out. Each can be seen by widening what is named.

* A repeated run of SimpLL that fails replaces the graph of the session by the
  one of this function; results of earlier functions are gone while the cache
  lists them (`"rerun"` in `MayFail` of `session`).
* A header function that depends on two unsettled ones is cached when the first
  of them is settled (`HardPrograms` has at most one).
* The void variant of a function can demote its verdict to *assumed equal*; an
  edge that is met first as a weak one hides the strong one from the report;
  cache files repeat lines; calls that remain beside an inlined one of the same
  name become weak as well (`ModuleComparator.cpp:209`).
* One argument that is equal in the C source ends the comparison of a call, so
  the called functions are not compared (`MacroValues` of `module_compare`).
* Recursive functions whose recursive calls differ are inlined for ever.
* The first index of an access is also looked up by name
  (`DifferentialFunctionComparator.cpp:90`): when both are constants, elements of an
  array whose numbers are indices of one member count as the same. The opcode of a
  constant expression is not compared (`FunctionComparator.cpp:342`), and a macro
  that is empty in the new version makes the constants with its old value equal to
  everything that is no integer. `TotalOrder` leaves out pointers that compare as
  integers and unions; `SidesAlike` macros, which are looked for on one side only.
* Names of members (`DebugInfo.cpp`) may be wrong: where the functions look into
  different structs at the same place, a member of the new one gets the name of one
  of the old one (line 179); members without a name all have the same one (line
  141); padding that is asked for is counted by one of the two functions that look
  for members, and so are members without a size (lines 287, 313). Different members
  then count as equal: `SameStructs` and `PlainStructs` are the conditions of
  `EqualSameElement`, and TLC finds such members without either. The type in front of
  a third index is looked up with that index itself (line 91), which may be a null
  pointer (`ReadsNull`): functions for which it is are left out. A member that moves
  to the index 0 is not recorded (line 154), and the new index that is put on an
  access is read by nobody (`idx_align`).
* The loop for joined parameters in the body of a macro does not end when `param##`
  is the tail of a longer identifier, as in `data##a` with the parameter `a`: the place
  is skipped with `continue`, and the next search begins at that very place
  (`SourceCodeUtils.cpp:150-154`, `GoOnForEver`). It is so for parameters of a macro
  that was used with arguments, and with none for a macro with an empty list, whose
  one parameter is the empty text. `SearchesEnd` leaves these bodies out
  (`JoinsParts`); without that TLC finds them. And an
  `#undef` is kept as a definition with an empty body that hides those after it
  (`SourceCodeUtils.cpp:398`).
* A function that stands for inline assembly and is cloned by
  `RemoveUnusedReturnValues` loses its number, and with it the dot that tells it is
  an abstraction (`FunctionAbstractionsGenerator.cpp:162`). Where the result of
  `__memcpy` is used, `UnifyMemcpyPass` gives the source instead of the destination
  (line 51); in the instance only its uses without result occur.
* The variable slicer passes over blocks that a branch affects, together with
  the branches inside, and reads operands once in order; with nested branches or
  memory it loses what the variable decides. In a loop it may keep the way that
  only loops, and the return block is gone. An entry that is not included is erased
  although its successor, not included either, could not be removed before it
  (`canRemoveFirstBlock`, `VarDependencySlicer.cpp:442`): the block that comes next in
  the layout becomes the entry, and what is not reached from it is deleted, with
  instructions that depend on the variable. `DependentsStay` leaves this out;
  `Entered` in `MCSlicer` has it.
* A bitcast call with a void type of a function that returns something, variadic
  indirect calls, a compared function that is merged into a numbered namesake
  before it, and names such as `f.void.N` are left out of `Preprocess`; the
  passes do not handle them.
* In `MacroDiffs`: the first line of a file that is not blank is never read; an
  argument takes the place of the parameter on the left of `##` only; when two texts
  have the same assembly, what is read behind their ends decides; an identifier of
  one character that ends a body is not looked up; for the called function of the
  right side the name of the left one is looked for
  (`DifferentialFunctionComparator.cpp:608`).
* A `generate` that is cut off while it removes the old snapshot leaves one that may
  still be loaded with IR missing (`snapshot.py:69`): `SnapshotWhole` says so. Headers
  that are edited make no IR stale, neither for `generate` (`build_llvm.py:310`) nor
  for `compare` (`kernel_source.py:268`); nor is it known later that the build of a
  file failed. A run that is cut off between clang and `opt` leaves IR that is newer than its
  source: it is never simplified (`build_llvm.py:310`, 330), although `opt_llvm` is said
  to do that for compiled files (line 167), and comes into later snapshots. To see it,
  check that copies have the form `"opt"`.
* llreve is never waited for, and runs on if there is no `z3`; when the graph is
  reused, names of simplified modules are empty and the comparison ends in an
  exception (`crashed`).

### Not modelled

* Options, serialisation of graphs, the FFI and the text of results: formats
  without decisions.
* Sysctl tables and module parameters: reading of constants from LLVM IR.
* Syntax differences, and the map of local variables that is made from debug
  information: it serves the text of reports. In
  `MacroDiffs` texts are identifiers, with tables for what `##` makes of their
  characters; files and lines of call stacks are left out, and so are digits right before
  an identifier and arguments that are no identifiers. A parameter that is listed twice is
  not in the instances.
* The passes that gather or reduce debug information, hash structure names and
  remove kernel symbols: they do not change functions or calls.
* The comparators for LLVM 5 to 9, which are the one for LLVM 10 with small
  changes of interfaces; attributes, which SimpLL takes as equal.
* The commands given to kbuild, clang, `llvm-link` and `opt`: steps that succeed
  or fail. In `KernelSnapshot` each step has a time of its own, where two files may have
  the same one; a `snapshot.yaml` that was cut off counts as none, since
  `source_kernel_dir`, without which it is not loaded, comes last in it; and the index
  of a snapshot (cscope) is that of the sources it was made from.
  The files of `llvm-link` (its second link writes over the first).
* Static functions that share a name: a program of the models gives each name
  one home per side, as the graph has one vertex.

### Further work

The files and module objects of `kernel_module.py` with failing tools;
`CachingIsTransparent` with header functions, under a condition on what they
depend on; `ValueCompare` with recursive functions; a walk of `FunctionCompare`
that uses names of members; the sides of the passes
together with `ModuleCompare`, so that `simpll__` functions made by passes are
compared in one model; the look-up of option tables.
