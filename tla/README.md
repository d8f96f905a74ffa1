# Verification of the skrif interpreter

skrif is a small dynamically typed language (integers, doubles, strings,
booleans, arrays, objects, first-class functions with closures) with one parser
and two interpreters that share it: a tree walker and a compiler to bytecode
with a virtual machine. This directory holds TLA+ models of the program, the
TLC configurations that check them on small instances, and theorems about them
with proofs for TLAPS.

The models cover the way of a program from its text to its result: the lexer,
the parser with all its grammars, the bytecode interpreter (compiler, virtual
machine, scopes, values, and the cycle breaker that lets reference counting
reclaim closures), the tree walker with its control flow graph, and the
consoles in front of both. All paths below are relative to `src/project/`; `BC`
stands for `interpreters/bytecode-based-vm-interpreter`, `TW` for
`interpreters/tree-walking-interpreter`.

## 1. The system

The program is sequential. A run is

    text --lexer--> tokens --parser--> syntax tree
         --compiler--> chunks --virtual machine--> output, result     (BC)
         --control flow graph--> stack machine --> output, result     (TW)

so what is hard about it is neither threads nor messages but long sequences of
steps over shared, mutable, reference-counted structure: closures that keep
scopes alive, scopes that keep closures alive, containers that every copy of a
value shares, two stacks that have to agree, a compiler whose code the machine
trusts without checking, a parser that is a list of grammars tried in order, and
a walk over a graph whose loops are gotos out of nested scopes. The one thing
that outlives a process is the history of the consoles.

### Components

| component | state it keeps | operations | talks to | what is hard | what makes it correct |
|---|---|---|---|---|---|
| Bytecode VM (`BC/src/vm.cpp`) | `stack_`, `frames_` (chunk, ip, base, env, locals) | one handler per opcode; `run`, `pop`, `peek` | calls scopes, values, the cycle breaker; reads chunks | operands and frames are two stacks that must be cut in step; `pop` does not check; the exception of `CALL` skips all cleaning | a callee never touches its callers' operands; code from the compiler finds its operands; values never dangle |
| Cycle breaker (`BC/src/vm.cpp:12-50`) | none of its own; edits scopes and functions | `breakCycles`, `breakCyclesInJson`, `severParentChainCycle` | called by `RETURN` and by the loop after the code | it must cut every cycle through the dying scope, and nothing a live function still needs | a dying scope is released; the chain of a running frame is never cut; escaping functions still work |
| Scopes (`BC/src/EnvScope.cpp`) | variables, parent, `has_closures` | `write` (Local, Global), `operator[]` | VM | the flag is a cache of "some variable may hold a function"; reading an unknown name may bind it | the flag is sound; parent links lead to older scopes, so walks end |
| Values (`BC/include/json.h`) | a variant; arrays and objects behind a `shared_ptr` | copy, arithmetic, comparison, truth, output | everything | copies share containers | operators mean what the language says |
| Compiler (`BC/src/compiler.cpp`) | chunk being written, slot table | one `visit` per node | parser's tree, chunks | slots or scope variables, decided in text order; jumps patched afterwards | compiled programs mean what their source means; they never pop what they did not push |
| Lexer (`parser/src/lexical_tokens/lexical_tokens.cpp`) | place in the text, line and column, "in a comment", the token being collected | one scan; an inner loop each for numbers, strings, words | parser; the messages of the consoles | it reads one character past a word and past a slash without looking whether there is one; lines and columns are counted in four places | every character is in one token or in a comment; tokens stand where they say; writing and reading give the same tokens |
| Parser driver (`parser/src/abstract_syntax_tree/abstract_syntax_tree.cpp`) | stack of nodes, current token, best progress | shift, reduce by the first grammar that is ready, error | grammars | restarts at the first grammar after every reduction; one token of lookahead; priorities are list order | it ends; an accepted program leaves one node |
| Grammars (`parser/src/grammars/*.cpp`) | none | productions: readiness and plan | driver | productions overlap; their order decides | precedence, no production feeds itself |
| Tree walker (`TW/src/stack_machine.cpp`, `control_flow_graph.cpp`, `VariableStore.cpp`, `Function.cpp`) | stack of the walk, stack of scopes, stack of calls, stack of operands (copies or references) | `exec` of each node on the way down and back; goto and return, which cut the walk short | parser's tree | three stacks that are unwound by different code when a loop or a function is left; references into arrays that grow; values nobody takes | same meaning as the bytecode interpreter; the stacks stay in step; nothing leaks, nothing dangles |
| Consoles (`BC/repl`, `TW/repl`) | readline's history, place in it and undo list, the history file, the gathered lines, the lines of a recalled text and the one that is edited | keys: enter, arrows, editing, undo; commit, save, load | both interpreters; the file system | lines of a recalled text are put back only when the cursor leaves them; readline puts the edited line in the place of the history entry it stands at; the file is truncated before it is written; braces are counted without the lexer | the history survives however the process ends; Enter runs what is shown; a first line is complete when the lexer says so |
| Disassembler, benchmarks, expression generator | none | formatting, timing | - | - | - |

`PROJECT.json` lists the same components with their modules, and the hazards of
the code line by line with the properties that would catch each of them.

## 2. The modules

| module | models | lines of code it stands for |
|---|---|---|
| `JsonValues` | values and operators on them | `BC/include/json.h` |
| `EnvScope` | scopes: read, write, the flag, the parent chain | `BC/src/EnvScope.cpp` |
| `CycleBreaker` | what a dying scope has cut | `BC/src/vm.cpp:12-50` |
| `BytecodeVM` | the virtual machine: one action per opcode handler | `BC/src/vm.cpp` |
| `Bytecode` | chunks, instructions, what an instruction pops and pushes and where control goes on; well-formed images, slots and depth certificates, which the machine relies on | `BC/include/{opcode,instruction,chunk}.h`, `BC/src/vm.cpp` |
| `VMProperties` | type invariant, safety and action properties | (properties) |
| `CallStack` | abstract: activations with private operands | (specification) |
| `VMStack` | the operand discipline; refinement of `CallStack` | (properties) |
| `SyntaxTree` | nodes the parser hands to the compiler; the trees of programs, level by level | `parser/include/syntax_nodes` |
| `Compiler` | every visit method, code emission, slots, jump patching | `BC/src/compiler.cpp`, `BC/src/chunk.cpp` |
| `LanguageSemantics` | abstract: a reference evaluator, written from what the documents promise | (specification) |
| `CompilerCorrectness` | a halted run printed and returned what the source means | (properties) |
| `Grammars` | the 38 productions of the 15 grammars, and how they are matched | `parser/src/grammars/*.cpp`, `parser/include/{utils,i_grammar,progress_counter,syntax_node_progress_visitor}.h` |
| `Parser` | the shift-reduce loop: `Reduce`, `Shift`, `GiveUp`, `Finish` | `parser/src/abstract_syntax_tree/abstract_syntax_tree.cpp` |
| `SourceText`, `Chains` | abstract: the text a tree is written as; the tree a chain of operators stands for | (specification) |
| `ParserWork`, `ParserCorrectness` | the parser's types and a count of its plans; what it promises of a text | (properties) |
| `Lexer` | the scan: one action per branch of the loop and per character of its inner loops | `parser/src/lexical_tokens/lexical_tokens.cpp` |
| `LexerProperties` | places, order, extents of the tokens; the end of the scan | (properties) |
| `ControlFlow` | the graph the walker executes: conditions moved, loops made gotos, functions given scopes | `TW/src/control_flow_graph.cpp` |
| `TreeWalker` | one action per handler of the walk, down and back | `TW/src/{stack_machine,VariableStore,Function}.cpp`, `TW/include/{json,copy_or_ref,EnvScope}.h` |
| `WalkerProperties` | the stacks against the walk, sharing, reclaiming, the meaning | (properties) |
| `InputComplete`, `Console` | whether a line is complete; the loop, the keys, the history and its file, the end of the process | `BC/repl/src/main.cpp`, `TW/repl/src/main.cpp` |
| `VMProofs`, `CompilerProofs`, `ParserProofs`, `WalkerProofs`, `LexerProofs`, `ConsoleProofs` | theorems about the module they are named for | (proofs) |
| `NatSets`, `HeapProofs` | the lemmas these share: about numbers, scopes, heaps and what the breaker cuts | (proofs) |
| `MCFunctions`, `MCLanguage`, `MCParsing`, `MCWalker`, `MCLexing`, `MCConsole` | instances for TLC, one per passing run | (instances) |
| `MCPrograms`, `MCHandAssembled`, `MCRunOff`, `MCForms`, `MCChains`, `MCEdits`, `MCDepths` | what the instances start from: families of programs, of images and of texts; certificates | (instances) |

`BytecodeVM` EXTENDS `CycleBreaker` EXTENDS `EnvScope` EXTENDS `JsonValues`;
it and `Compiler` both EXTEND `Bytecode`, the code one emits and the other runs;
`VMStack` composes `VMProperties` with `CallStack` (INSTANCE with the
refinement mapping `Activations`); `CompilerCorrectness` composes the virtual
machine with the images of `Compiler` and the meanings of `LanguageSemantics`.
`Parser` EXTENDS `Grammars` EXTENDS `SyntaxTree`, the trees the compiler takes;
`ParserWork` EXTENDS it, and `ParserCorrectness` composes it with `SourceText`. `TreeWalker` EXTENDS
`CycleBreaker`, since the walker's own breaker is the same code
(`TW/src/stack_machine.cpp:41-80`), and `MCWalker` composes it with the graphs of
`ControlFlow` and the meanings of `LanguageSemantics`, so both interpreters are
compared with one meaning. `MCLexing` composes the lexer with the consoles' test
of the braces (`InputComplete`), which decides the same question without it.

### How state and actions correspond to the code

- `stack` is `stack_`, `frames` is `frames_`; a frame has the fields of
  `CallFrame`. `ip` and all operands count from 0 as in the code.
- `heap.scopes[i]`, `heap.arrays[i]`, `heap.objects[i]` are the `EnvScope`s and
  the `shared_ptr` cells in the order of their allocation; a value of type
  Array, Object or Function refers to a cell by its number, which is what makes
  copies share. `ref = 0` of a function is a closure that was reset. Cells are
  never removed from the model's heap: whether reference counting frees one is a
  property (`HeapReclaimed`), not a step. What no count ever frees are the cells
  that hold themselves, directly or through others (`HeldForever`: scopes, arrays
  and objects), and what these hold.
- An action is a whole handler: fetching the instruction, `++ip`, the pops, the
  effect and the pushes. `Defined` holds the conditions outside of which C++
  says nothing (a pop from an empty vector, a division by zero, an argument that
  is not there, a recursion over a container that contains itself); there the
  only step is `Undefined`, after which the model claims nothing.
- `Return` calls `DropScope`, as `RETURN` calls `breakCycles` when the flag is
  set. `RunOffEnd` is the loop after the dispatch loop, a frame a step.
- `CallThrows` is the exception of `CALL`, which leaves `run` with every frame
  and operand gone and no scope cleaned.
- `Compile(depth, tree)` is an operator: it returns the chunks of a tree of at most
  `depth` levels. Each visit method is an operator on the compiler's state (code,
  constants, slots), with the order of emissions and the patching of jumps as in
  the code. Where the code calls `compile_node` on a child, a visitor takes what
  was made of it, `below[child]`: `Compiled[depth]` is a recursive function over
  levels, which the provers can reason about where they cannot about a recursive
  operator. The runs set `Levels` to 14; no program of theirs is deeper, and
  `ProgramsAreTrees` in `MCFunctions` and `MCLanguage` checks that.
- In the parser, `stack` is `mStack`, `position` counts the tokens pushed, and
  `progress` says whether `best_progress_opt` is more than zero: the readiness is
  a ratio in the code, and is compared with nothing but zero. A pass over the
  grammars (`Pass`) is deterministic and changes nothing, so it is an operator;
  applying its plan is the action `Reduce`. `Shift` is the end of the loop body
  and the start of the next: clear the progress, look ahead, push.
- A production is a record. Its `moves` are the branches of its handlers: from a
  state, on a kind of node, before some tokens, to a state. A handler that exists
  and has no branch for the state leaves the state and may reset the progress
  (`rest`); a node without a handler breaks the match off. `needed_nodes_size`
  is the widest window a production looks at, and all windows up to it are
  tried, the widest first. A production "counts steps" unless its divisor is
  zero, which the code uses to say that its bracket is closed already.
- What a production adds is `to_add`. The plan removes as many nodes as it
  names, from the top, whichever they are; that they are the ones it matched
  is the property `HandleOnTop`.
- In the tree walker an entry of `dfs` is a node on the stack of the walk, `pre`
  until it was visited on the way down. `envs` is `mEnvScopeStack`, `calls` is
  `function_scope_stack`, `args` is `argument_stack`, whose operands are values
  or references to a variable, an element or a field (class `CopyOrRef`). Values
  are held by value: storing an array or an object makes cells of its own. A
  reference to what is gone, or into an array that grew since, is dangling; to
  use it is `Undefined`, as is a failed `assert` and an operand that is not there.
  Which scopes are freed is computed from who holds them (`Freed`), as the
  reference counts do, since the walker's references do not hold what they point to.
- The graph is the sequence of its nodes, children first; a child two nodes
  share (the condition of a loop) is one node, as in the code.
- A token of the lexer holds where its text begins and ends instead of a copy of
  it. `failed` is `std::bad_optional_access`, thrown for a text that ends in a
  word (`CutOff`) or in a slash (`LoneSlash`).
- A text of the consoles is the sequence of its lines. `opened` is the state
  between opening the history file, which truncates it, and writing it; `Die` is
  possible there as anywhere. `ran`, `torn`, `recalled` and `edited` record for
  the properties what the code does not: what was committed, whether the process
  died in `opened`, the recalled text as the user sees it, and the texts of
  several lines that were edited while readline stood at them.
- readline's own part is modelled from how the consoles use it, and was compared
  with GNU readline 8.2 (the consoles' `main.cpp` at the end of a pseudo-terminal):
  an edit begins an undo list, `rl_replace_line` drops it, and when `readline()`
  returns with one, it takes the edits back in the history entry it stands at -
  which replaces the entry by the line the edit began from (`Returned`). It does
  so on Enter and on Ctrl-D, not on Ctrl-C.
- Data are abstract where no property looks: strings are names from a small
  set, output is the sequence of values printed, doubles are left out.

## 3. What the runs check

All families are closed under choices made independently at several positions
of a program (or image, or text), so a run covers combinations nobody wrote a
test for. While the models were written their results were compared with the
program itself: all 1168 programs of `functions` and all 7829 of `language` with
the real virtual machine (8 of them, which the model calls undefined, fail an
assertion there); all 3147 of `walking` with the real tree walker (2484 return
and 8 throw as in the model, and each of the 655 the model calls undefined ends
the process in an assertion, a segmentation fault or a stack overflow); the
parser on some 9000 well- and ill-formed texts, tree by tree; the lexer on 3000
random texts, token by token.

| run | instance | shows |
|---|---|---|
| `functions` (55,588 states) | 1168 programs: a function declared in another one, kept in a variable, an array, an object or a global, or called, then returned in four ways and used in four ways; functions handed to functions, closures made two levels down. 1764 images assembled by hand: every chunk pair of up to three instructions chosen from lists that hold the opcodes the compiler never emits | type invariant (nothing dangles), `ParentsOlder`, `FlagSound`, `HeapReclaimed`, `EnoughOperands`, `OwnOperandsOnly`; the action properties `RunningChainsIntact`, `DyingScopeReleased`, `CallersOperandsKept`; the refinement `ImplementsCallStack`; and `EscapingFunctionsWork`: the program means what the semantics says unless the function names itself, escapes in a container, or was kept by its maker |
| `language` (266,962) | 7829 programs: every pair of 39 statements (assignments, branches, loops, early returns) in a function, with and without a nested function that makes the compiler give up slots; names declared in a branch or a loop that one call takes and another does not, then read, assigned or declared again; loops and calls left in the middle; three of 12 statements over arrays and objects with several names; every operator on every pair of types. 1728 images whose code ends without `RETURN` in the top chunk, one call down or two | `CompiledAgrees`, `Terminates`, and `OnlyLetGoLeaks`: the programs leave nothing behind, and where code runs out the loop after the dispatch loop breaks the cycles of every frame. What is left there are arrays that were put into themselves and that no variable names any more: the breaker starts from variables. If a variable still names one, the breaker recurses without end, and the model is `Undefined` |
| `parsing` (205,097) | 3734 texts: an expression of each form in each place, followed by a statement of one of three kinds; chains of up to four operators without brackets, in six places, with a negative operand anywhere; every 7th to 59th program of the families above. 2771 texts with one token deleted, doubled, exchanged, replaced or inserted at every place of four programs | the parser's type invariant; `ReadsBack`: a text written from a tree is accepted and read as that tree, so the runs above start from trees the parser delivers; `NestingKept`; the action property `HandleOnTop`; `AcceptedAsWritten` and `LinearWork`, also of texts with an error |
| `walking` (291,562) | 3147 programs: those of `functions`, loops and calls left in the middle, arrays and objects put into themselves, and every third or fifth of the others, through the tree walker | its type invariant; `EnvsMatchWalk`: the stacks of scopes and calls stay in step with the walk; `ScopesReclaimed`, `NothingAliased`, `NothingHoldsItself`, `OpenChainsIntact`; `WalkedAsMeant`: it prints and returns what the semantics says, with the exceptions below; `WalkEnds` |
| `lexing` (363,369) | every text of up to five characters from seven that cover the lexer's branches; every text of up to five from seven that the consoles treat specially; every text of up to three of 18 pieces whose tokens are known | the lexer's type invariant, `TokensPlaced`, `TokensInOrder`, `OnlyCommentsLeftOut`, `TokensWhole`, `ReadsBack`, `Terminates`; `CompleteAsLexed`: the consoles' test of the braces agrees with the tokens |
| `console` (640,868) | one console over three starts, up to two programs of up to two lines, each line empty, a brace or a name; every order of keys, undo among them, and the process ending at any moment | the consoles' type invariant, `RecalledLineExists`, the action property `RunsWhatIsShown`; `HistoryKept`: the history of this start and the next is the programs committed, in order, where only a program of several lines that was edited while readline stood at it may have become a single line |

`ReadsBack`, `NestingKept` and `HandleOnTop` are claimed of well-formed texts
only: on ill-formed ones a production may remove nodes it did not match (as in
`function f ( ...` without its end). `CompleteAsLexed` is claimed of lines in
which no brace comes after an apostrophe, a backslash before a quote or two
slashes, for which the consoles have rules of their own; where one does the two
may disagree (below).

The bounds: nesting of declarations up to two levels, one or two parameters,
three statements in the varied positions, loops of at most two or three turns.
They are enough in this sense: every opcode, every branch of a handler and every
branch of a visit method is taken; scope chains reach length four; a scope is
dying while frames above, below and unrelated to it exist; a slot is declared
before, after, inside and outside of a branch that is or is not taken. Integers
stay far below 2^31 in the runs; where the code overflows, the model's step is
`Undefined`. In the parser's runs every production makes a plan in some text,
and every look-ahead list is decisive in some; the families stay small because
a production sees at most one level of brackets: what is inside has been reduced
to a node. Five characters are enough for two tokens and what is between them in
every state of the lexer, and the pieces put longer ones next to each other.
Three starts and two programs are enough for a text that was recalled, edited and
cut down by readline, saved, loaded, recalled and edited again, and for a
neighbour of it that must stay; lines matter only by being empty, complete or
not. The largest text of the consoles has two lines, which is both a first and a
last one; `ConsoleProofs` covers the others.

Deadlock is checked in all runs but two: `Finished` is the stuttering step of a
machine that returned, threw, or is undefined. A lexer that has read its text
stops (`lexing`), and a console that ended for good is not started again
(`console`).

Fairness: the virtual machine's `Spec` has `WF_vars(Execute)`, the walker's
`WF_vars(Walk)`, the lexer's `WF_vars(Next)`. Each of the three is a loop that
does nothing but take its next step, so weak fairness of the whole disjunction is
what the processor gives a running thread. No action is favoured over another: in
every state at most one is enabled. The parser's specification has no fairness,
since no property of it needs any: that it ends is the safety property
`LinearWork`, which bounds the number of plans by twice the number of tokens
read, together with the check for deadlock. Nobody has to press a key, so the
consoles' has none either.

What `WalkedAsMeant` leaves out, each by the name of its exception in
`MCWalker`:

- `Erroneous`: a program whose meaning is an error; the walker does not look for
  errors (most of them are assertions).
- `CutShort`: the walker's cycle breaker is the virtual machine's, and does the
  same to functions that name themselves or were kept by their maker.
- `CopiedOrGrown`: the walker copies arrays and objects where the language shares
  them, grows an array that is read past its end, and keeps the last of two pairs
  with the same key, where the virtual machine keeps the first. Where sharing
  would make a container hold itself, the language's meaning has no end to be
  shown (`WithoutEnd`); what the walker makes of these is up to `NothingHoldsItself`.
- `LeftOver`: what a statement computes stays on the operand stack (see
  `leftover_operands`).
- `MinusIgnored`: a minus before an expression does nothing.
- `Endless`: comparing a function with a function recurses without end.

### What the code does otherwise than documented

Six runs end in a violation, each of one property, and each was reproduced in
the real program:

- `self_reference` - a returned function that calls itself by name finds its
  name unbound: the cycle breaker resets the closure of the variable's value in
  the scope (`BC/src/vm.cpp:32`), so recursion after an escape fails.
- `held_by_maker` - a function which its maker kept in a variable before
  returning it loses the variables of the maker: its chain is cut although the
  returned copy uses it (`BC/src/vm.cpp:18`).
- `bare_conditions` - `if (x)` compiles to a `JUMP_IF_FALSE` without operand,
  since a bare name arrives as a Name node for which the compiler emits nothing.
- `name_before_bracket` - `1 == f(2)`, `1 < a[0]`, `-f(2)` and `-a[0]` are
  refused, since a name is taken as an operand before the bracket after it is
  seen. The comments of the productions list calls and members.
- `divided_sum` - `8/2*2-1` is `8/((2*2)-1)`: one of the look-ahead lists that
  are repeated for every kind of operand lacks two tokens.
- `leftover_operands` - in the tree walker the value of a call that stands as a
  statement stays on the operand stack, and a later handler, which counts from
  the top, takes it for a name, an operand or a result.

The first two are the price of breaking cycles when a frame goes away rather
than when a scope does. `RunningChainsIntact`, which holds, says how far the
damage goes: only functions that outlive the frame are hit, never one that runs.

The families leave out more of what the code does unexpectedly, so that what is
left can be checked; these were found the same way, reproduced in the real
program, and have no run:

- A function returned inside an array or an object has lost its variables: the
  breaker resets the closure in the container, and the container is shared with
  the value being returned (`BC/src/vm.cpp:36`; `Contained` in `MCPrograms`).
- `1+2 != 3` is `1+(2!=3)`, while `1+2 == 3` is as expected: `!` is in no
  look-ahead list of the arithmetic (`UnequalAfterArithmetic` in `Chains`).
- `-1 - y - 2` is refused: after a negative operand a minus is taken for a sign
  (`MinusAfterNegative` in `Chains`).
- `"s" != 1` is refused: the look-ahead list of a string lacks a token that the
  comment above it names (`Unequal` in `MCForms` is not filled with strings).
- `{ 1+y; -1; }` is the one statement `(1+y)-1`: an expression drops its
  semicolon as soon as it is read.
- `print((x y)));` is accepted, and `y` is lost.
- `var x` on a path that is not taken hides the outer `x` in a function that uses
  slots, and does not when a nested function makes it use a scope: in
  `{ var x = 3; function f(n) { if (n > 1) { var x = 5; } return x; } ... }`, `f(2)`
  is 5 and `f(0)` null, or 3 with a nested function. In the tree walker the inner
  `x` ends with its block, and both are 3. `LanguageSemantics` follows the scopes
  of functions.
- Slots are given out in the order of the text, scope variables come to be in the
  order of execution, and a nested function decides which of the two a function
  has. A name that a loop reads before its declaration further down,
  `function f(n) { while (n > 0) { print(z); var z = n; n = n - 1; } return z; }`,
  prints null, null for `f(2)` with slots and null, 2 with a nested function. One
  that is assigned before a declaration on a path not taken,
  `function f(n) { z = n; if (n > 1) { var z = 5; } return z; }`, makes `f(0)` null
  with slots and 0 with a nested function. The programs of `language` that declare
  on untaken paths keep apart from these two and from the one above.
- An array that is put into itself and let go of, `a[0] = a; a = 1;`, is freed by
  nobody: the breaker visits what variables hold (`OnlyLetGoLeaks` shows it of the
  images of `MCRunOff`).
- A condition that is a bare name makes the tree walker walk both branches; in
  the bytecode interpreter see `bare_conditions`.
- A text that ends in a word or in a slash makes the lexer read a character that
  is not there. The exception is `std::bad_optional_access`, and the tree
  walker's console, which catches `SyntaxException` only (`TW/repl/src/main.cpp:115`), ends.
- The consoles' help says that Enter continues "if braces are unbalanced"
  (`BC/repl/src/main.cpp:233`). After the first line braces are not counted any
  more (`:302`): only an empty line, or a recalled text, runs what was gathered.
- Up on the first line of the oldest text forgets the text but leaves its first
  line in the editor; Enter then runs that line alone. Running a recalled text
  of several lines drops the lines that were gathered before (`:288`). A Ctrl-C between truncating
  the history file and writing it loses the history; `HistoryKept` claims nothing then.
- Editing a line of a recalled program of several lines and pressing Enter there
  runs the edited program and adds it to the history, but the program that was
  recalled is lost from the history and with the next save from the file: in its
  place is the one line the edit began from. readline does this when it returns
  (`BC/repl/src/main.cpp:271`), because the consoles put single lines of an entry
  into its editor. Going to another line or program with an arrow before Enter, or
  undoing the edit, keeps it. `HistoryKept` names this loss and allows no other.
- To the consoles an apostrophe begins a string, a backslash keeps a quote from
  ending one, and comments are read like the rest (`BC/repl/src/main.cpp:53`); to
  the lexer the first begins nothing, a backslash means nothing in a string, and a
  comment ends with its line. So `{ print("\"); }` and `{ } // {` wait for more
  lines though their braces are closed, and `' {` runs at once though one is open.

`Chains` names the kinds of chain that are left out, and `MCForms` the places a
form is not put in. That operators of one
level nest to the right (`1-2-3` is `1-(2-3)`) is what the tests of the parser
expect, so it is part of the specification and not a finding.

## 4. What is proved

The theorems hold for every set of programs and every image, under assumptions
which TLC evaluates in the runs:

- `ImageAssumption` (`VMProperties`): operands of instructions index the pools
  they are meant to index, and function prototypes are chunks other than the
  top one. It says nothing about jumps, stack depths or slots: an image may be
  as ill-behaved otherwise as it likes, since a handler outside its definedness
  condition goes to `Undefined`.
- `DepthAssumption` (`VMStack`, used by the last part of `VMProofs`): every chunk
  has a depth certificate, a number for each address control can
  come to such that an instruction finds the operands it pops and leaves its
  successors theirs, and a function returns before its code runs out.
  `MCDepths` computes certificates for compiled code, and the runs check that
  they are certificates.

  Of compiled code these two are theorems, not assumptions (`CompiledProgramsRun`).
  They are stated as assumptions so that the theorems about the machine also
  cover code that was assembled by hand.
- `GraphAssumption` (`WalkerProperties`): nodes of a graph come after their
  children, a member expression has two, conditionals and function declarations
  have some, and conditions and targets of gotos are nodes. It does not say that
  the target of a goto is a loop the walk is inside of, nor which operands a
  handler finds: where they are missing the walk goes to `Undefined`.
- `TextsAssumption` (`Lexer`): texts are sequences of characters. The parser's
  assumption of the same name (`Parser`) says that its texts are sequences of
  tokens, from `BOL` to `EOL`, as the lexer makes them.
- `ConsoleAssumption` (`Console`): the empty line can be typed, and the bounds on
  lines and starts are positive.

| theorem | says |
|---|---|
| `TypeCorrectness` | `Spec => []TypeOK`: nothing dangles |
| `ParentsAreOlder` | `Spec => []ParentsOlder`: the walks along the scopes end |
| `FlagIsSound` | `Spec => []FlagSound`: `RETURN` skips the breaker only where it has nothing to do |
| `ScopesAreNested` | frames' scopes are ordered by age |
| `ChainsOfRunningFramesIntact` | `Spec => RunningChainsIntact`: breaking cycles never changes a running frame's scope chain |
| `DyingScopesAreReleased` | `Spec => DyingScopeReleased`: the variables of a scope that dies do not lead back to it |
| `OperandsAreThere`, `OnlyOwnOperands` | certified code finds its operands, and they are its own |
| `FramesAreNested` | frames' scopes and operand bases are ordered |
| `CallersOperandsAreKept` | a callee never changes its callers' operands |
| `StacksImplementCallStack` | `Spec => ImplementsCallStack`: refinement of `CallStack` |
| `CompiledImagesAreOK` | whatever program is compiled, of whatever depth, operands index the pools and prototypes they are meant to index |
| `CompiledCodeIsCertified` | every chunk of a compiled program has a depth certificate: code finds its operands on every path, jumps stay in their chunk, functions return before their code runs out |
| `CompiledSlotsAreThere` | slots that compiled code names are there; a function with slots makes no closure and declares nothing in its scope |
| `CompiledProgramsRun` | compiled programs satisfy `ImageAssumption`, and `DepthAssumption` for some certificates: the theorems about the machine hold of them without assumption |
| `LexerTypeCorrect` | `Spec => []TypeOK`: the lexer stays in its text and makes tokens |
| `TokensArePlaced`, `TokensAreInOrder` | every token carries the line and column of its first character; tokens do not overlap |
| `OnlyCommentsAreLeftOut` | a significant character is in no token exactly when it is in a comment |
| `TokensAreWhole` | `Spec => []TokensWhole`: numbers, strings and words are what they say, and as long as they can be |
| `ConsolesAgreeWithLexer` | `Spec => []CompleteAsLexed`: the consoles' test of the braces, which has its own rules for strings, agrees with the lexer's tokens on every text in which no brace comes after `'`, `\"` or `//` |
| `ParserTypeCorrect` | `CountedSpec => []TypeOK`: no plan removes more nodes than there are, whatever the text |
| `WorkIsLinear` | `CountedSpec => []LinearWork`: at most two plans for each token, whatever the text, so the loop over the grammars always comes to the next token |
| `WalkerTypeCorrect` | `Spec => []TypeOK`: in the tree walker nothing dangles |
| `ScopesMatchTheWalk` | `Spec => []EnvsMatchWalk`: its stacks of scopes and calls are those of the nodes the walk is inside of |
| `NothingIsAliased` | `Spec => []NothingAliased`: an array or object is held in one place, whatever is assigned, passed, returned and stored |
| `NoValueHoldsItself` | `Spec => []NothingHoldsItself`: no array or object is inside of itself |
| `OpenChainsStay` | `Spec => OpenChainsIntact`: leaving a scope changes no chain of a scope that stays open |
| `ConsoleTypeCorrect`, `RecalledLinesExist` | the consoles' types; the index of the recalled line is inside the text |
| `HistoryIsKept` | `Spec => []HistoryKept`: every committed program is in the history and in that of the next start, in order, over any number of ends and starts, whatever was recalled, edited, left and undone; only one of several lines that was edited while readline stood at it may be a single line |
| `WhatIsShownRuns` | `Spec => RunsWhatIsShown` |

The argument. `VMProofs!Inv` is the inductive invariant: the heap is well
formed (types of cells, references in range, parents older, flags sound), every
frame names an existing chunk and scope and scopes are ordered by age, and every
operand refers to something allocated. `TypeOK` alone is not inductive: that a
walk in `Read` or `WriteGlobal` finds a scope needs older parents, that the
breaker leaves well-formed scopes needs the types of what it clears, and a frame
pushed by `Call` is younger than all others only because frames' scopes were
ordered. `HeapProofs` proves what the operators of `EnvScope` return and
preserve (the owner of a name is on the chain, chains only lead down), and
that a store, a new cell and the breaker keep a well-formed heap,
`VMProofs` has one lemma per action.

`RunningChainsIntact` follows because the breaker cuts only links to the dying
scope; a scope whose parent is the dying scope is younger than it; and chains
lead to older scopes only, so a chain that contained such a scope would belong
to a frame above the dying one. The dying frame is the top one.

`DyingScopeReleased` has two halves. If the flag is set the breaker ran: a
function reached from the dying scope's variables either was reset, so it has no
chain, or closes over a scope from which the link to the dying one was cut
(`HeapProofs!BrokenReleases`; `HeapProofs!ChainSevered` says that a chain
whose links to a scope are all cut cannot contain it). If the flag is not set
there is no function to be reached, which is `FlagSound`, part of `Inv`.

For the operand stack, `StackInv` strengthens `EnoughOperands`: frames' operand
bases are ordered and lie within the stack, only the outermost frame runs the
top chunk (so that code that runs out ends the run), and a suspended frame is
one operand short of what its next instruction counts on. The steps are first
shown to be of five kinds by what they do to the two stacks (`Local`, `Calling`,
`Returning`, `Ending`, nothing), one lemma per action; invariance and
refinement are then proved per kind. The refinement maps a frame to the slice of
the operand stack between its base and the next frame's.

For the compiler, the programs are `ProgramTrees[depth].statment`: the trees the
parser hands over, by the grammar of expressions, statements and their parts, with
one restriction, that a bare name is no expression. It has to be: of `if (x)` the
compiler makes a branch without operand, which is the finding `bare_conditions`;
such code has no certificate. What is proved is about code, which grows and is patched later, so a certificate cannot be given
address by address as it is emitted. `Segment(code, from, to, out)` says that the
code between two addresses has a certificate of its own, starts with nothing,
leaves at its end only, and then has at least `out` operands more. Segments that follow
each other are a segment (`SegmentsJoined`), a patch before or after one leaves it
as it is (`SegmentCopied`), and an `if` or a loop is a segment once its jumps are
patched (`SegmentOfIf`, `SegmentOfIfElse`, `SegmentOfWhile`). `Sound`
says of all trees of a level that the compiler, in any state it can be in
(`CompilerInv`), appends to the current chunk one segment, with one operand more
for an expression and none for a statement, changes no chunk but the current one
and new ones, and makes no closures and declares nothing in a scope where it uses
slots. There is one lemma per visitor from `Sound` of its children to what it
emits; `SoundOneLevelUp` gathers them, and the induction over depth is one over
numbers (`NatSets!EveryNatural`). That the recursive functions `NodeTrees`,
`ProgramTrees` and `Compiled` exist and unfold is proved first. The case that
needs the strongest invariant is `FunctionEmits`: the body is compiled while the
chunk of the function around it waits half-written, and it is on whether the body
`nested`, asked before it is compiled, that its slots depend.

For the lexer, `PlacesInv` adds to the types where the reader is: its line and
column are those of the next character, and those remembered of a token being
collected are those of the character it began with, which lies behind all tokens
so far. `TokensPlaced` alone is not inductive, since a token gets its place from
what was remembered many characters ago. For `OnlyCommentsLeftOut` the invariant
says in addition that the reader is in a comment exactly when
`is_comment_state` says so.

For `TokensWhole` the invariant adds what the token being collected is already
(`CollectedWhole`): all of its characters are of its kind, a number has as many
dots as the code has counted, a string begins after a quote. That a token goes on
as long as it can is known only in the step that ends it, since it is about the
character after it.

`CompleteAsLexed` relates two programs that read the same text by rules of
their own. `BracesInv` reads them together: after as many characters as the lexer
has read, the balance of the scan (`Scanned`, a recursive function, so that its
existence and its step are lemmas) is the number of opening less the number of
closing tokens, and the scan is inside of a string exactly when the lexer
collects one. `BracesStep` is one case per action of the lexer; what each token
weighs is `Weights`, and `Balance` counts a token sequence by its types, since
the property is about cardinalities.

For the parser, `LinearWork` alone is not inductive: reading a literal is a plan
that leaves the stack as long as it was. `WorkInv` therefore counts the literals
on the stack that are not read yet (`Unread`): each may still cost one plan. All
other productions take more nodes than they give. That is a fact about the state
machines of 38 productions, which `ParserProofs` reduces to one: `Level` gives
every state a number, the same for all productions, no move goes up by more than
one, and by none if it only looks at a node (`GrammarsOK`), so a match has taken
at least as many nodes as the level of its state says (`WindowOK`). The finish
is at level two, but for literals (one) and the whole text (three). The latter
is the one production that could put a literal back on the stack, and takes
enough to pay for it.

For the tree walker, `WalkInv` says that the heap is well formed, that every
operand is a value of that heap or names a variable, an element or a field whose
parts have the right types (whether it still exists is asked when it is used),
that the calls are those gathered from the walk, and that the stack of scopes is
what the walk's entries ask for, place by place: a scope of a node was allocated
after all scopes below it on the stack, and its parent is the one below. `TypeOK`
and `EnvsMatchWalk` are not inductive without the ages: leaving a scope runs the
breaker, and that it does not cut the parent link of another scope on the stack
holds because it only cuts links to the scope that is left, which is younger
than all that stay (`ChainKept`). The same fact gives `OpenChainsIntact`. What a
stack is gathered from is the function `Gathered`, a left-to-right concatenation;
its lemmas (over a prefix, an appended entry, a concatenation, a suffix that
yields nothing) are what the proofs about goto and return rest on, since those
two cut entries out of the middle of the walk. `WalkerProofs` has one lemma per
action.

`NothingAliased` is not inductive, and needs a second invariant on top of
`WalkInv`: `ShareInv` adds `Nested`, that there is a rank of the cells which
goes down from every container to those inside of it. What copies hang on is
`CopyMade`: the cells that are new stand one to one for those the value reaches,
and hold what these hold, new cells in place of old. So two places that share a
cell after a copy shared one before, unless the value copied is inside of
itself: then its copy would be held by the operand and inside of the copy at
once, which is what `Nested` rules out. That assignment keeps the order is a
fact about copies again: `CopySeparate` ranks all new cells below all old ones
(`NestedBelow`), so a copy may be written into any older cell. Where a value is
held is named by its spot (`Spots`: the room, the key, the value), and the
handlers are of three kinds: those that drop spots (`Dropped`), those that put
one copy in a place (`OperandPlaced`), and the literals, which take several
copies over (`CellFilled`; the last of two equal keys wins, so each copy is
taken at most once). `NothingHoldsItself` follows from the ranks: what a
container reaches ranks below it (`NestedApart`).

For the consoles, `ConsoleInv` says what the editor and the recalled lines have to
do with what is shown (`Shown`): put together, they are the recalled text as
edited; and its part `Standing` says where the editor's line comes from: an undo
list at an entry of one line holds that line, one at an entry of several lines
means that the entry is among the edited. `RunsWhatIsShown` is about one step and
follows from it. For `HistoryKept`, which has to survive a restart, `Kept` says of
list and file both, the file but for the moment in which it is written, that they
load as the programs committed so far, each of them itself or a line of it that
readline left (`KeptAs`). A replacement (`ReturnedKeeps`) either puts back the
line an entry already was, or a line in the place of an edited text; since an
entry of the list corresponds to one of the programs only up to the empty texts
that loading drops, `Counterpart` finds the program of an entry and
`LoadedReplaced` replaces both. That needs what loading does to every history:
`Loaded` is a recursive function, so its existence, its uniqueness, `LoadedAppend`
and `LoadedAgain` (loading twice is loading once) are proved first, by induction
over a set of numbers (`NatSets!EveryNatural`).

### Only model-checked

- `HeapReclaimed`, `OnlyLetGoLeaks`, `ScopesReclaimed`: that nothing is left when a run is over
  depends on which closures a program makes and who holds them, and is false of
  some programs (section 3). For every program the theorem is
  `DyingScopesAreReleased`.
- `Agrees` and its restrictions `CompiledAgrees` and `EscapingFunctionsWork`, and
  `WalkedAsMeant`: the reference evaluator is a recursive operator, which the
  prover cannot reason about. What of the compiler does not depend on meanings is
  proved (`CompiledCodeIsCertified` and the theorems beside it).
- `Terminates`, `WalkEnds`: liveness under fairness.
- The lexer's `ReadsBack`: its texts are flattened from pieces by a recursive
  operator.
- That the parser reads what was written (`ReadsBack`, `NestingKept`,
  `AcceptedAsWritten`, `HandleOnTop`): texts are written from trees by a
  recursive operator.

## 5. Not modelled, and why

- Doubles: their arithmetic adds a type to every table of the operators and no
  control; TLA+ tools have no floating point.
- The `switch` of the fallback build: the same handlers once more, compiled only
  without GCC's computed goto.
- Formatting of output: what the runs compare is the sequence of printed values.
  The text a function prints as is part of it.
- Of the consoles: the terminal (prompts, redrawing, the cursor in a line), the
  command line, files that are run without a console, and readline's own keys for
  the history (Ctrl-P, Ctrl-N, its searches), which the consoles do not rebind.
- Positions of tokens in the parser and after it: they are for messages. The lexer
  has them.
- `VaribleStore` of the tree walker: a class nothing uses.
- The disassembler, the benchmarks, the expression generator: formatting and timing.

The constants of `MCFunctions`, `MCLanguage` and `MCWalker` are wrapped in a LET
each: TLC's coverage statistics otherwise unfold the compiler wherever a constant
is mentioned.

## 6. Plan

1. *(done)* The bytecode interpreter: values, scopes, cycle breaker, virtual
   machine; type correctness, the safety invariants and the refinement of
   `CallStack` proved.
2. *(done)* The compiler against the reference semantics.
3. *(done)* The parser: driver and grammars, checked by reading texts back, by
   editing them, and by counting its work.
4. *(done)* The tree walker: control flow graph, the walk and its stacks, copies and
   references; compared with the same meanings as the bytecode interpreter.
5. *(done)* The lexer, with places and extents of tokens proved.
6. *(done)* The consoles: history, recalled texts, the end and the start of the
   process; proved for any number of lines, programs and starts.
7. *(done)* Type correctness of the tree walker, and that its stacks match the
   walk; whole tokens; released scopes; linear work of the parser: proved.
8. *(done)* That the tree walker shares no array or object, and none is inside of
   itself: proved.
9. *(done)* What the machine relies on and never checks is true of all compiled
   code: proved for trees of any depth.
10. Left: that only the exception of `CALL` leaves scopes unbroken; the meaning of
   compiled code, which would need the reference evaluator as a recursive function
   too.
