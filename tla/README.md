# A formal model of Vaportalk

Vaportalk (`vt`) is a single-threaded pager and MUD client: it multiplexes
network connections over windows of one terminal, and runs programs in a
language of its own, VTC. There are no threads, yet there is concurrency
everywhere: every C function that may run a VTC program (a hook, a key binding,
a reader) can be re-entered, find its windows and remotes destroyed, its stacks
moved, and its input taken by somebody else. These modules say what must
survive that, TLC checks it on small instances, and TLAPS proves most of it for
all sizes: what concerns the interpreter's stacks, the nodes and references to
them, the bytes and options of a connection, the scans and timers of the main
loop, the keyboard, the screen and the input line.

Line numbers are those of the sources in this repository.

## 1. Inventory

| Component (files) | State | Operations | What is hard | What makes it correct |
|---|---|---|---|---|
| Interpreter (`interp.c`, `struct.h`) | data stack, call stack (both grow by doubling and move), queues of suspended programs, `break_pending` | instructions, calls, `suspend`, `resume`, `abort_interp`, `break_pipe`, `run_prog` | programs nest through C, are cut out of both stacks and pasted elsewhere; pointers into a stack that moves | no overrun; frames stay apart; each program behaves as if it had stacks of its own; breaks unwind everything |
| Nesting primitives (`prmt1.c`, `prmt2.c`, `prmt4.c`) | the C stack | `callv`, `detach`, `abort`, `pass`, `read`, `getch`, `sleep` | a primitive goes on after another program ran | as above |
| User nodes (`unode.c`) | structures, recycle ring, ids, `frefs` lists | `unalloc`, `discard_unode`, `destroy_pointers` | recycled structures | a reference names one object for ever |
| Remotes (`remote.c`) | ring, buffers, flags, socket | `new_rmt`, `disconnect`, `receive_input`, `process_remote_text`, `give_remote`, `transmit` | a program runs for each line, inside the scan of the buffer | every byte once and in order, to the right connection |
| Telnet (`telnet.c`) | `Riac`, `Rintent`, `Recho`, `Reor` | state machine, three kinds of options | commands cut by reads and by programs; loops of answers | commands are taken out; options converge |
| Main loop and timers (`main.c`, `pr_sleep`) | `events`, `kin`, the places of the scans | `main_loop`, `io_check`, `io_cycle`, `pr_sleep` | flags tested before `select`; two loops over a ring that programs change; a queue sorted by time | the scans stay on the ring and skip nothing; sleepers wake in turn, and always |
| Signals (`signal.c`) | pending flags | handlers, `stop`, `winresize` | a signal while one is served | a resize is noticed in the end |
| Windows and screen (`window.c`, `prmt1.c`) | ring, rows, terminal, `curs_loc`; the input line, prompt, `icol`, `echo_mode` | split, close, resize, output; typing, editing, prompts, modes | the terminal is never read back: every function draws the difference it believes in | the screen shows the layout, the input window shows the line |
| Keys (`key.c`) | ring in clumps, `klookup` | `add_key_cmd`, `add_key_efunc`, `del_key`, `find_key` | removal of the key a clump begins with | clumps stay together, `klookup` finds them |
| Keyboard (`keyboard.c`) | `kbuf`, `kpos`, `kkey`, `kout` | `process_incoming`, editing functions, `give_window` | entered again through programs, with all four half used | each key goes to one taker and in order |
| Console (`console.c`) | nested read loop | `console`, `del_estate`, `get_num` | runs inside the main loop | a number chooses what it says |
| Arrays and collector (`array.c`) | reference counts, free list | `alloc`, store, `acopy`, `garbage` | counts that live in what is freed; programs that wait where the collector does not look | counts are exact; a collection frees nothing that is in use; counting misses cycles only |
| Strings (`string.c`, `prmt3.c`, `sconst.c`, `oper.c`) | `Istr`s that share `Rstr`s, constants, two static buffers | copy on write, text primitives | aliasing; a write through one of several owners | a write is seen by its owner only; counts are exact |
| Compiler (`vtc.y`) | code buffer | parse, generate | back-patching, operand counts | `want` in Interp |
| Name tables (`func.c`, `var.c`, `const.c`, `bobj.c`, `prmtab.c`) | hash tables | find, add | redefinition of a running function | |
| Operators (`oper.c`) | none | assignment, arithmetic | | |
| Allocator, utilities (`tmalloc.c`, `util.c`) | free lists | alloc, free, formatting | boundaries | |
| Regular expressions (`regexp.c`) | | | vendored, left aside | |

Interaction: `main_loop()` calls `io_check()` (input into remotes' buffers and
`kin`), then `io_cycle()` and `process_incoming()`, which give text away by
`resume()` or `run_prog()`; programs call primitives, which change windows and
remotes, and these run hooks and resume waiting programs in turn.

A key counts as soon as it is complete: one that is the beginning of another
hides it. Characters in `kkey` are not counted by `keyboard_input_waiting`, and
`getch(0)` gets ahead of what waits there.

`PROJECT.json` lists under `hazards` what can go wrong in this code and is hard
to test, at its line, with the properties that look for it.

## 2. Modules

| Module | Models | Core of the state |
|---|---|---|
| `Interp` | `interp.c`, nesting primitives | `dstack`, `cstack`, their sizes, `queue`, `pipes`, `brk` |
| `Coroutines` | the promise of `Interp`: programs with stacks of their own | `running`, `waiting`, `doomed` |
| `InterpProofs` | theorems about `Interp` | |
| `Nodes` | `unode.c`; creation and destruction of windows, remotes and keys; saved contexts | rings, ids, links, references, waiting programs, C functions in progress |
| `Handles` | the promise of `Nodes`: references that never change their object | |
| `RemoteInput` | socket to program for one remote structure: `main.c`, `remote.c`, `telnet.c` | buffers, telnet state, position of the scan, history |
| `Screen` | `window.c`: layout, terminal, cursor | rows of each window, what the terminal shows, `curs_loc` |
| `MainLoop` | a cycle of `main.c` with `signal.c`, `console.c` and the scans of `remote.c`; `sleep()` | pending flags, `events`, the ring, the place in the cycle, what `select` found |
| `Keyboard` | `keyboard.c`, `key.c`: from characters to takers | `ring`, `klookup`, `kkey`, `kout`, the line, the calls of `process_incoming()` in progress |
| `LineEdit` | the promise of `Keyboard` about the line: one line and one cursor | `line`, `cursor` |
| `InputLine` | the input window of `window.c`, the editing functions, `bobj.c` | `kbuf`, `kpos`, prompt, modes, `icol`, what the terminal shows |
| `Arrays` | `array.c`, the primitives on arrays | counts, elements, free list |
| `Text` | functions on text, with what they are for | none |
| `Strings` | `string.c`, `sconst.c`, `prmt3.c`, the string operators | frames, `Istr`s, `Rstr`s, counts, constants |
| `NodesProofs`, `RemoteInputProofs`, `MainLoopProofs`, `KeyboardProofs`, `ScreenProofs`, `InputLineProofs` | theorems about these modules | |
| `SeqLemmas` | lemmas about sequences that several of them need: one element more or less, counting, cutting, permutations | |
| `MCInterp`, `MCNodes`, `MCRemoteInput`, `MCScreen`, `MCMainLoop`, `MCKeyboard`, `MCInputLine`, `MCArrays`, `MCStrings` | small instances for TLC | |

Definitions keep the names of the C functions. Definitions marked "Mutant" are
deliberate bugs in a function; `PROJECT.json` says which property finds each.
They belong to no specification.

**Interp.** A cell of the data stack is a member of `Value` or `Null`: what it
holds is abstract, how many there are and whose they are is exact. A call frame
records where its cells start, how many variables it has, where its variable
pointers point and whether that stack still exists (`vals`, `live`), and the
primitive it is in (`prim`). `want` is a ghost: the operands that compiled code
counts on. An instruction may pop only what it, or the function it is compiled
in, pushed; the generator in `vtc.y` guarantees that and `want` assumes it.
`pipes` are `break_pipe()` loops, whose lists are in no queue any more.
Sizes, doubling and the moment of each test (`Dextend`, `cpush`, `resume`) are
those of the code. The size of a stack where frames are moved (`Left`, `Placed`,
`Forget`) follows `double_dstack()` including what it forgets.

**Nodes.** A structure (`Addr`) is in a ring, in the recycle ring, or on its way
between them while `break_pipe()` resumes the programs that wait for it
(`calls`). `interp_context()` and `disconnect()` save and restore `cur_win` and
`cur_rmt` by pointer and id (`calls` again). Files are nodes like keys.
No window primitive asks whether its window is in the ring, so a program that
`close_window()` resumes can close, split, activate or display a remote in the
window it waited for, which is its `cur_win`; `SeeDying` allows that. `links`
keeps the `prev` and `next` such a window still has: a second `close_window()`
or a `split_window()` sets the ring from there (`Joined`), and loses what came
between. That is modelled up to the first such step: where the old neighbours
are no longer in the ring in their order (`Linked`), nothing is relinked.

**RemoteInput.** `fn` says where the single thread is: a step of the main loop,
or the place in the scan that waits for a program (`Sites`). A program is the
changes it makes to the remote: busy, raw, hidden, disconnected, connected anew
in the same structure. `wanted` stands for `(Rwin || Rback) && !Rbusy`.
`Reor` and `Rinbuf` start with any value, as `create_rmt()` does not set them.
`s_cpy()` on overlapping text (`remote.c:334`) is a move of the text. The five
history variables (`sent`, `eaten`, `given`, `words`, `replies`) only record.

**Screen.** The terminal is what each row shows, its scroll area and the row of
its cursor; `\n` at the bottom of the scroll area scrolls it, elsewhere it moves
the cursor, and a row below the last one is taken for the last one. Texts are shorter than a row: columns, tabs and wrapping are left
out (columns of the input line are `InputLine`'s), and so is the redraw hook of
users. Direct drawing by programs (`cmove`,
`scroll` and the like as primitives) is left out; `curs_reset` is there, the
primitive that such programs have to call.

**MainLoop.** `fn` is the step of the cycle, or `program` while one runs; a
program may sleep, connect, disconnect, and change whether a remote is listened
to, and goes on at `back`. The ring of remotes and the discarded structures are
exact: `After` of a discarded one leads nowhere, as `recycle_ring` has no dummy.
`disconnect()` has three parts: the hook runs, the structure leaves the ring and
is in `dying` while `break_pipe()` runs the programs that wait for the remote,
then it is discarded. The one that `io_check()` calls goes through the places
`hooked` and `broken`; in those that programs call, the programs of all three
parts are the program itself. `stop()` and `winresize()` end in a program too,
the `redraw_hook`.
What is received or typed is a flag here; `RemoteInput` and `Keyboard` follow it
byte by byte. `outdated` says whether the size vt believes in is the
terminal's. Signals come between any two steps, but are served at `top` only.

**Keyboard.** `calls` is the C stack of `process_incoming()`: each call has the
rest of its text and the place where it waits for a program (`high`, `key`,
`low`) or for an inner call (`rest`). Characters carry their number, and `done`
records who took them. Two editing functions and `K_PROCESS` stand for all:
what each of them does is `InputLine`'s, and the readers that take a line are
`Interp`'s (`Resume`). Waiting programs are counted, not told apart.

**InputLine.** A row of the terminal has `Margin` columns and one more. `Here` is
`curs_input()`; the drawing functions take the terminal and the column and
return both, each drawing what the C function draws from where it believes the
cursor to be. `stray` records that something was written into a window. Moves
of less than `Few` columns are backspaces (7 in the code, 2 in the run, so that
both kinds happen).

**Arrays.** A frame refers to an array by a pointer or by its property list; the
list and its array share one count, since a pointer into the array of a list
counts for the list. The count of a freed array is overwritten by the list of
free ones; `wild` records that a count was changed after that. `Roots` stand
for every cell that holds a frame: variables, the stack, nodes and saved
programs. `broken` are those of the programs that a `break_pipe()` still has to
resume, and of the node that was unlinked for it: `garbage()` finds neither
(`MarkFrom`). Positions of pointers are parameters of the operations:
`Acopy(s, i, t, j, n)` copies from and to any two, also of one array.

**Strings.** A cell is a pointer into an `Istr`; an `Istr` has an `Rstr`; the
table of constants, `freader` and `wrapbuf` hold `Rstr`s as well. A primitive
takes its operands from cells and leaves its result in the first, counted
before the operands are dropped, as `pcall()` does. A text is a sequence of
characters without NUL. **Text** has the functions that compute: `Memory` is
what lies at an address, with `Wild` for what does not belong to the text.

## 3. Runs

TLC explores each run completely. Deadlock is checked for Interp, RemoteInput,
MainLoop, InputLine, Arrays and Strings. It is off for Nodes, whose bounds on ids
stop everything in the end, for Keyboard, which bounds what is typed, and for
Screen, where a state in which nothing happens is a state of rest. The type
invariant of a module is the first part of one of its other invariants
(`OnePlace`, `NothingLost`, `Tiled`, `ScanKnown`, `Lookup`, InputLine's
`CursorKnown`, `CountsExact`, `CountsRight`); all but those of Arrays and Strings
are proved.

| Run | Shows | Bounds |
|---|---|---|
| `interp` | `Layout`, `ImagesLaid`, `Nesting`, `OwnStacks` (Interp implements Coroutines), `BelowUntouched` | one value and null, so that a moved or overwritten cell shows; the read list of a remote and the queue of timers, two frames, three cells: a program on top of another one, suspended above and resumed below. The stacks have room to spare: what doubling does is the matter of the next run and of the proofs |
| `interp_break` | `Capacity`, and `BreakUnwinds` under fairness | stacks start at one cell and hold two: both double, by a push and by a resumption; two frames, two programs suspended in the key list of a window or the queue of timers for `break_pipe()` to start after the break. No values: they do not matter here |
| `interp_stale` | violation of `VarsLive`: finding 1 | |
| `nodes` | `OnePlace`, `NoDangling`, `Shown`, `NoneLost`, `AreHandles` (Nodes implements Handles): destroying nodes while programs destroy nodes | three structures, so that one is recycled while two are in rings; two C functions in progress, a hook or a pipe inside a program; three ids; two lists of a window, so that one is left while the other is read |
| `nodes_dying` | violation of `NoDangling`: finding 2 | |
| `remote_input` | `NothingLost`, `InOrder`, `Negotiated`, `Announced` | two words of up to three bytes, cut by reads at every place; two connections in one structure. Words hold a line end in the middle, CR LF, prompts, and offers and refusals of options: a second word can end, repeat or contradict what the first began |
| `screen_paint` | `Tiled`, `Painted`, `CursorKnown` | two windows, terminals of 5, 8 and 10 rows: every way to split, close in both directions, move dividers, and lose a window to a smaller terminal |
| `main_loop` | `ScanKnown`, `NoneSkipped`, `WakesInTurn`, and `AllWake` and `SizeFollows` under fairness | two structures and two connections: a remote before and one after the one that is looked at; two sleeps of no time or a second, so that two sleep for the same second or one longer than the other |
| `keyboard` | `Lookup`, `OnceInOrder`, `LineSeen`, `WaitingKnown`, `OneLine` (Keyboard implements LineEdit) | four characters typed or inserted, one waiting program; three bindings of two or three characters over two first characters, one in the case that is not typed, to a program, a function, and the line given away: keys that are what is typed, that fail at the last character, and that fail with a rest that is a key. Programs of keys, readers and the main loop insert |
| `input_line` | `CursorKnown`, `LineShown`, `NotInWindows` | three columns and one or two rows, lines of four characters and prompts of two: lines wrap with and without a prompt, and scroll out of the window |
| `arrays` | `CountsExact`, `OnlyCyclesStay` | three arrays of two used positions and two roots: an array in an array in an array, the same one in two places, one that refers to itself, and copies inside one array that overlap. Arrays are allocated with one element, so that the second comes with an extension |
| `strings` | `CountsRight`, `ConstantsUnique`, `WrittenAlone`; `FindRight`, `WrapRight`, `NumberRight` | two cells and the line that is given away, two `Istr`s, four `Rstr`s (the buffers' and two more, one of which may be a constant), two programs with constants; texts of two characters, three in all. The functions of `Text`: all texts of up to six characters of two kinds, widths up to five, patterns of three, all numbers of eight bits |

The three properties about `Text` speak of no state; they are looked at in the
initial state.

### What a passing run leaves out

Some properties hold only where the code is not asked for something it gets
wrong. Each such limit is a constant or a definition with a name; the run has it
at the value of the middle column, and TLC refutes the property with the other.

| Limit | In the run | Otherwise |
|---|---|---|
| `SeeDying` (Nodes) | `FALSE`: programs resumed by `break_pipe()` leave the dying node alone: they take no new reference to it, and do not close, split, activate or show it | `nodes_dying` for `NoDangling`. `OnePlace` fails as well: the window is closed again, unlinked again and discarded twice (`prmt1.c:88`, seven steps); so do `Shown`, when a remote is displayed in it (`prmt1.c:165`, six steps), and `NoneLost` |
| `IdMod` (Nodes) | 64: ids do not repeat | they are counted in an `int` and kept in a `short` (`unode.c:29`): with 4, and `MaxId = 6`, `AreHandles` fails |
| `Words` (RemoteInput) | no NUL bytes | the rest of a block after one is lost (`remote.c:231`): `NothingLost` fails |
| `StartAny` (Screen) | `FALSE`: vt starts on six rows or more | `init_screen()` gives the window all but four rows, without the test of `resize_screen()` (`window.c:503`, `window.c:632`): `Tiled` fails at once with 4 or 5 |
| `Texts` (Screen) | no form feeds | `clear_space()` has set the scroll area to the screen while `curs_loc` and `curs_win` still claim the window's, so that `curs_window()` returns at once (`window.c:944-947`): `CursorKnown` fails |
| `Speak` (Screen) | `FALSE`: programs that `close_window()` resumes do not write | they run after rows have moved and before `curs_loc` is reset (`window.c:584-588`): `Painted` fails in four steps |
| `ClosingDoes` (MainLoop) | empty: the programs that `disconnect()` runs for `io_check()`, the `disconnect_hook` and those that wait for the remote (`remote.c:183`, `remote.c:209`), neither disconnect nor connect other remotes | `io_check()` goes on at the remote it saved, or reads from a socket that is new (`remote.c:269`): `ScanKnown` fails with `{"disconnect"}`, and with `{"connect"}` and three structures |
| `FlushAny` (MainLoop) | `FALSE`: the program that takes the last prompt does not disconnect its remote | `process_remote_text()` returns 1 and `io_cycle()` goes on from the discarded structure (`remote.c:343`, `main.c:138`): `ScanKnown` fails |
| `SignalAtWork` (MainLoop) | `FALSE`: the size does not change while `winresize()` works | the flag is reset after the work (`signal.c:104`): with `MaxPending = 2`, `SizeFollows` fails |
| `InsertAny` (Keyboard) | `FALSE`: a program in `getch(1)` does not go on to `insert()` | the character it got is still in `kkey` (`keyboard.c:223`): `OnceInOrder` fails in five steps |
| `DrawAny` (InputLine) | `FALSE`: text is drawn after a prompt only if it ends in the first row, with the cursor | `input_draw()` advances by whole rows from a first row that is shorter, and does not wrap the column (`window.c:829-837`): `CursorKnown` fails |
| `FromAny` (InputLine) | `FALSE`: `kpos` is assigned with the cursor in the input window | `assign_bobj()` does not call `curs_input()` (`bobj.c:118`): `NotInWindows` fails |
| `GrowAny` (InputLine) | `FALSE`: rows are added to a line of one row | nothing draws them (`window.c:591`): `LineShown` fails |
| `CloseAny` (InputLine) | `FALSE` | the active window changes without `update_echo_mode()` (`window.c:575`): `EchoFollows` fails. No run has it, as it then says no more than `UpdateEcho` |
| `AnyCycle` (Arrays) | `FALSE`: elements refer to later arrays, or arrays to themselves | `garbage()` frees a property list before it drops its elements, and drops those of arrays that are deleted already (`array.c:207`, `array.c:124`): `CountsExact` fails in six steps |
| `AnyTime` (Arrays) | `FALSE`: no program collects while a `break_pipe()` has others to resume | those are in its local list (`interp.c:507-514`), the node in no ring (`window.c:581`, `remote.c:209`), and `garbage()` marks from neither: `CountsExact` fails in four steps, with an array that is freed while it is in use |
| `AnyArgs` (Strings, Text) | `FALSE`: `strcat()` is not given its own text, `strcpy()` and the searches no position beyond what they count, a character is less than 256, `wrap()` has room after its indentation, `itoa()` a number with an opposite | `CountsRight`, `FindRight`, `WrapRight` and `NumberRight` fail (`prmt3.c:42`, `prmt3.c:64`, `prmt3.c:98`, `prmt3.c:208`, `oper.c:191`, `util.c:142`) |

One more statement is refuted in the module as it is, and stays there as a
definition, `Delayed` (RemoteInput): text that was read just before a break
waits for other input, though a comment promises a quarter of a second
(`main.c:116-118`).

`InputShown` (Screen) holds with the sizes of the run and on every terminal that keeps its size
(section 5), but not for all pairs of sizes: with three windows, on a terminal
that goes from 16 to 10 rows, `resize_screen()` leaves the input window none
(`window.c:672-681`).

### Fairness

`interp_break` assumes what a single thread guarantees as long as C
code terminates: a primitive that can return does (`SF` on `PrimEnd`, since the
programs it may start make it wait again and again), the list of a
`break_pipe()` is finite (`PipeNext`, `PipeEnd`), `interp()` tests
`break_pending` before each instruction (`BreakAbort`), and the main loop comes
round (`MainTop`). No instruction is assumed to happen: a VTC loop may be
endless, which is what breaks are for.

`main_loop` assumes that the loop takes its next step when it has one (`WF` on
`Loop`: programs end, the console's menu ends) and that time passes (`WF` on
`Tick`). Nothing is assumed about input and signals, so that `AllWake` has to
come from the limit that `main_loop()` gives `select()`. It excludes a user who
breaks again and again, since each break sends the loop back before its timer.
`SizeFollows` has a condition of its own: `select()` may wait without a limit
after the size has changed, as the signal interrupts it only if it is there
already; so it says that the wait keeps ending.

## 4. Findings

1. `interp_stale`. `resume()` takes the program out of its queue before it
   doubles the data stack (`interp.c:453-455`), and `double_dstack()` corrects
   pointers of queued programs only: the variables of the resumed program stay
   in memory just freed. `break_pipe()` does the same to the lists it holds.
2. `nodes_dying`. References are reset before the last programs run that can
   take one (`remote.c:208-210`, `window.c:583-587`).

The other places where the code does not do what its callers may expect are in
the table of section 3.

## 5. Proofs

The theorems hold for every value of the constants that the assumptions in the
modules allow, so for any number of programs, structures, remotes, keys,
windows, rows, columns and characters. A hypothesis in the third column is one
of the limits of section 3; without it TLC refutes the property, except for those
of Screen marked with a star, which the text below the table is about.

| Theorem | States | Where |
|---|---|---|
| `InterpProofs` `Typed` | `TypeOK` | |
| `NeverOverrun` | `Capacity` | |
| `FramesApart` | `Layout` | |
| `Resumable` | `ImagesLaid` | |
| `WellNested` | `Nesting` | |
| `LeavesBelow` | `BelowUntouched` | |
| `StacksImplemented` | `OwnStacks`: Interp implements Coroutines | |
| `NodesProofs` `InOnePlace` | `OnePlace` | `SeeDying = FALSE` |
| `ShownTogether` | `Shown` | `SeeDying = FALSE` |
| `NeverDangling` | `NoDangling` | `SeeDying = FALSE` |
| `NobodyLost` | `NoneLost` | `SeeDying = FALSE` |
| `HandlesImplemented` | `AreHandles`: Nodes implements Handles | `SeeDying = FALSE`, `MaxId <= IdMod \div 2` |
| `RemoteInputProofs` `TypesKept` | `TypeOK` | |
| `BytesKept` | `NothingLost` | `"NUL" \notin Bytes` |
| `WaitingKnown` | `Announced` | |
| `AnswersAlternate` | `Negotiated` | |
| `TextInOrder` | `InOrder` | |
| `MainLoopProofs` `WokenInTurn` | `WakesInTurn` | |
| `ScansStayOnRing` | `ScansOnRing`, the first half of `ScanKnown` | `"disconnect" \notin ClosingDoes`, `FlushAny = FALSE` |
| `ScansKnown` | `ScanKnown` | `ClosingDoes = {}`, `FlushAny = FALSE` |
| `NobodySkipped` | `NoneSkipped` | `"disconnect" \notin ClosingDoes`, `FlushAny = FALSE` |
| `KeyboardProofs` `KeysFound` | `Lookup` | |
| `TakenOnceInOrder` | `OnceInOrder` | `InsertAny = FALSE` |
| `SeesLine` | `LineSeen` | |
| `InputCounted` | `WaitingKnown` | |
| `LineImplemented` | `OneLine`: Keyboard implements LineEdit | |
| `InputLineProofs` `CursorKnownAlways` | `CursorKnown` | `DrawAny = FALSE`, `FromAny = FALSE` |
| `NeverInWindows` | `NotInWindows` | `DrawAny = FALSE`, `FromAny = FALSE` |
| `LineShownAlways` | `LineShown` | these two, and `GrowAny = FALSE` |
| `ScreenProofs` `RowsShared` | `Tiled` | `StartAny = FALSE`, as in the next four |
| `CursorKnownAlways` | `CursorKnown` | no form feeds in `Texts`, always `InputShown`* |
| `PaintedAlways` | `Painted` | no form feeds, `Speak = FALSE`, always `InputShown`* |
| `InputShownAlways` | `InputShown` | `OneSize`: the terminal keeps its size |
| `PaintedOneSize` | `Painted` | `OneSize`*, no form feeds, `Speak = FALSE` |

`ScansStayOnRing` says more than the run: the programs that `disconnect()` runs
may connect, and only the second half of `ScanKnown`, which asks what `select()`
said about a socket number that was given away again, needs programs that leave
the other remotes alone.

`CursorKnownAlways` and `PaintedAlways` (Screen) are about behaviours in which the
input window always has a row. The code makes sure of that when it splits and
resizes windows (`pr_split()`, `pr_resize()`), which is `InputShownAlways`, and
`PaintedOneSize` follows; but when the terminal gets smaller it does so only for some
pairs of sizes (section 3), and with two windows already a terminal of 60 rows
that becomes one of 7 can lose it in two steps. What such a screen shows is not specified by
anything in the code. The run has two windows and sizes for which it is kept.

Assumptions on constants, which the code justifies:

- Interp: `SizesAssumption` (a call has no more arguments than the initial stack
  has cells, so that the one doubling of `Fit` stands for the loops of
  `Dextendn` and `pr_callv`), `ProgsAssumption` (the same for the variables of a
  program, from `MAX_TAGS` in `vtc.y` and `INIT_SIZE`), `NodesAssumption` (the
  lists of a node are queues).
- Screen: `ScreenAssumption` has four rows or more, the least that
  `resize_screen()` accepts (`window.c:632`), and texts that are not empty. InputLine: `InputLineAssumption` has a column and a row at least.
- The others only give constants their types, and say that what is typed or sent
  is not empty, that a set of structures is finite or not empty, and that windows
  and remotes keep their programs in lists of their own.

### Why each invariant is inductive

**Interp.** None of the five invariants is inductive alone. That `resume()` need
not loop (`Capacity`) holds because no suspended program is larger than the
stacks, which holds because it was cut out of them and stacks never shrink; that
it fits together again (`Layout`) needs to know how it was cut (`ImagesLaid`),
which depends on where programs begin (`Nesting`). `IInv` is `State` of the
whole state: typed stacks within their allocation, `Stack` (frames in order, each
with its variables and promised operands below the next, detached exactly after a
frame that is in C), every queue and every `break_pipe()` list holding whole
programs that fit, and the loops at growing depths. Since it is a formula of the
parts, the same lemmas serve all actions: `PushStack`, `CutStack`, `RetopStack`
and `PasteStack` for one stack, `ImageOfStack` and `ImageStack` for the way into
a queue and back, `GoodForgetAll` and `GoodLeft` for what a move of the data
stack does to the queues. `NextInv` has one lemma per action. `BelowUntouched`
follows per action from `Base`: the innermost detached frame is where every cut
stops.

The refinement of Coroutines needs no invariant but `IInv`. The mapping counts
the detached frames from the bottom of the stack, and gives program `k` the cells
and frames from the `k`-th of them up to the next one. Two lemmas about any two
stacks say what that means where programs come and go: frames of which only the
first is detached, put on top, are one program more (`PartsAppend`), and the
innermost program and those below it are the two halves of the stacks at `Base`
(`PartsSplit`). That the halves below are the same programs before and after a
step is `BelowUntouched` and `BottomSame`. An instruction then changes the upper
half only (`ComputeStep`), `detach()` and `run_prog()` add a program
(`StartStep`), a return or an abort of a detached frame takes one away
(`AbortFinish`, `StopSteps`), and `suspend()` and `resume()` move one between the
upper half and a queue (`SuspendStep`, `ResumeStep`), where it is the same
because only positions relative to its first frame are compared
(`RelativeSame`). A doubled data stack is not seen (`AsleepForget`, `DoomsLeft`).

**Nodes.** `Structure` is inductive for `OnePlace` and `Shown` together: that no
structure is discarded twice needs `Hooks` (a remote whose hook runs is still in
its ring and cannot be disconnected again) and `Once` (no two C functions close
the same node), and both depend on who points at whom. Windows that programs
name are in the ring when `SeeDying` is `FALSE` (`NamedNodes`), and there setting
`next` and `prev` of the neighbours is inserting and removing (`SplitAbove`,
`CloseBetween`). `NoDangling` is inductive
over it. `Waits` says of every list of programs either that its node is in its
ring, or that the C function that closes the node has yet to come to this list.
For the refinement three invariants are added: `Identified` (exactly the nodes
in use have ids, each its own, all given before `nextid`), `Contexts` (a saved
id belongs to the saved node, or to nobody any more: this is what makes the
comparison in the code enough), and `Aside` (while the programs of a node are
resumed, the current window and remote are not that node, since
`destroy_pointers()` reset them and a program's context is put back). With these,
every step is one of Handles or leaves its variables alone; `Born`, `Gone` and
`Same` sort the actions by what they do to the nodes in use.

**RemoteInput.** `Positions` (the scan stands in the buffer of the connection it
scans, or that connection is gone) goes with `TypeOK`. `Whole` is an equation:
what was processed, then what is still to be processed, then what is on the wire
is what was sent; each action moves one byte over one of the borders.
`InOrder` needs the bytes themselves. `Cutting` says where in a command the
stream ends so far (`Parsed`: between two commands, after IAC, or after IAC and
a verb, as `Riac` and `Rintent` have it) and that what stands before this place
is `Complete`: the text of such a stream, continued by anything, is its own text
followed by that of the rest. So the text of a longer stream is known from that
of the shorter one, a byte at a time (`MoreText`, `MoreIac`, `MoreVerb`,
`MoreCommand`, `MoreOption`). `Plain` itself is a recursive function over the
positions of a stream: that it exists and has the value its equation gives
(`Parsable`), and that it does not look at what comes before a position
(`Shifted`), is shown by induction up to the length of the stream (`Upward`).
`Told` is `Announced` at every step instead of where programs can ask. For
`Negotiated`, `Remembered` ties `Recho` and `Reor` to the last answer that was
given about the option: `Reor` is not set by `create_rmt()`, so the two kinds of
options are remembered differently.

**MainLoop.** `Queue` (the sleepers are in order of time and then of age, and all
are older than the next) makes the first one the one whose time has come. For the
scans: `Rings` (the ring, the structures that are being disconnected and the
discarded ones are a partition without repetition), `Aside` (between two steps
of the loop nothing is being disconnected, but for the one that `io_check()`
closes), `Connections` (sockets and ids belong to one remote each) and
`Scanned`, which says for each step between two programs what the C function
still knows of the remote it stands on. `Readable` ties what `select()` returned to
the connection it was said of. `Served` says of every remote before the place of
the scan that it has no wanted text, except those in `late`, which a program
gave text or a listener after the scan had passed: a place moves when a
remote before it goes, so the argument is about what is before what, not about
numbers.

**Keyboard.** `Clumps` is about any ring of keys: those with one first letter are
adjacent, no sequence is there twice, `klookup` leads to the first of each
clump. Adding and deleting keep it wherever the key is. `Typed` has with the
types what each place in `process_incoming()` knows (`Editing`: `kpos` is in the
line that `kout` waits to be spliced into). `Waits` counts the calls that have a
rest; the C variable is adjusted twice in a call, so the count has to be known at
each place. `Ordered` compares all pairs of characters, whether taken (`done`),
held in `kkey`, or in the rest of one of the calls: outer calls hold later
characters than inner ones unless a program inserted, and together they are all
that was typed. For the refinement, what is in `kout` and what is in `kbuf` are
one line, which only the last step of a call may change.

**InputLine.** `Fits` is inductive with the types (`Shape`): nothing is written
outside the input window (the terminal is in `Anywhere`, where `stray` is
`FALSE`), `icol` is the column of the cursor of the line, `Cur(Line) % Margin`,
the terminal's cursor is there when `curs_loc` says so, and the rows are
`Full`: row `r` shows the characters of the line that are `(Isize - r) * Margin`
before those of the last row, and what was never reached is blank. `Glyph(e, j)`
is the character of prompt and line that belongs at place `j`, hidden or not, so
that `Full` needs no case for modes. Every drawing function keeps `Keeps(d, e, r,
f)`: it takes a terminal and a column that fit line `e` to ones that fit line
`f`. The functions that draw row by row are folds; `Upward` and `Iterate`
(`SeqLemmas`) carry a fact over the rounds of a fold as an
induction over a bounded set of numbers, for which the prover needs only that a
set of naturals that is not empty has a least element.

**Screen.** `LayoutInv` is the inductive layout: `Placed(s, top, bot)` is a
formula of a ring and its rows, so that the same lemmas (`Above`, `Apart`,
`OnScreen`) serve before a step, after it, and in the middle of
`resize_screen()`, which gives the windows it keeps their rows one by one. `Tiled` follows.
For `CursorKnown`, `Writes(t, w)` says of the terminal after `output()` that cursor
and scroll area are in the window and nothing else was touched; it is kept by each
character written. For `Painted`, `WindowShows` is about one window's rows: an
operation that moves rows is sorted by window into those it leaves alone, those
it moves with a scroll and those it gives or takes rows, and the rows of the
input window are those below all windows, which needs no last window to be
singled out. `Outside`, `Grown` and `Shrunk` are these three cases.

### Only model-checked

- `InputShown` (Screen) where the terminal changes its size: it is false for some
  sizes (section 3).
- Arrays, Text and Strings are built on recursive operators over data (deletion
  that deletes, marking, wrapping, matching), which the prover cannot reason
  about.
- All liveness (`BreakUnwinds`, `AllWake`, `SizeFollows`).

## 6. Not modelled, and the plan

Proofs that are left, in order of importance: `Strings` (`CountsRight`, for which
the functions of `Text` have to be kept out of the module's reach), `Arrays`
(`CountsExact`, for which deletion has to be a step of its own instead of a
recursive operator).

Not modelled:

- The compiler (`vtc.y`): the operand counts that the generated code keeps are an
  assumption of Interp (`want`). It parses and generates in one go; a
  model of it would be a second grammar.
- Pointers to variables of programs (`F_APTR` to `lvars`, `argv` in primitives)
  across a suspension or a move of the stack, beyond `VarsLive`.
- The names that `lookup()` gives to positions of property lists, function,
  variable and constant tables: they find or add.
- Reference counts of regular expressions, and of programs, which are dropped
  nowhere (`prog_pcall()`, `prmt4.c:26`).
- Columns, tabs and wrapping of `output()`; terminal descriptions; primitives
  that draw directly.
- Sending: `transmit()` and `flush` only for the disconnection they may end in.
- What `sigint_handler()` does at the moment of the interrupt: it writes to the
  screen, asks with a `getch()` of its own, and may quit or switch debugging. The models
  have the flags it leaves.
- The fixed arrays of variables in `acopy()`, which stops at their end
  (`prmt4.c:204`), and negative positions, which it does not test.
- File and time primitives: calls of the C library; path expansion.
- The allocator's trays (`tmalloc.c`), Henry Spencer's regular expressions,
  packaging.
