# WinuxCmd in TLA+

WinuxCmd is one executable for Windows that holds nearly 150 Unix commands and a
bash-like shell. This project models the places where several parties act, where
globals are saved and restored by hand around nested calls, where files are
replaced in steps, and the computations whose corner cases are many. It covers

- the batch builder and process pool of **xargs**,
- the **shell's interpreter**: lists, compound commands, functions, traps,
- the shell's **variables**, environment, arguments and directories,
- the shell's **streams**: pipelines, redirections, command substitution,
- the shell's **text**: how a line is taken apart and what is expanded in it,
- **tail -f**, which polls files that other processes write and replace,
- **file replacement** by sed -i, mv, cp, install, patch and ln,
- small machines with a state of their own: **SmallVector**, **timeout**, **tee**, the
  **captured calls** of the library, the **completion cache**, the **line editor**, **wpm**,
- pure computations: the **option parser**, **sort**, **uniq**, **comm**, **join**, **split**,
  **csplit**, **cut**, **diff** and **patch**, **grep**, **find**, file name patterns.

All source paths below are relative to `src/src/` unless they begin with
`src/`. `PROJECT.json` gives for every definition that stands for code the lines it
was translated from.

To run everything, in this directory:

    tlc -workers 2 -config shell_lines.cfg MCShellLine      # and so on, see "Runs"
    tlapm XargsPoolProofs.tla                               # and the other *Proofs

## 1. The system and its parts

| part | source | state it keeps | operations | interacts with |
|---|---|---|---|---|
| xargs pool | `commands/xargs.cpp` | batch, list of running children, free slots, exit status | read items, flush a batch, launch, wait, drain | child processes |
| shell interpreter | `Main/main.cpp` 3080-3260 and what it calls | C++ stack of `executeShellLine`, `g_last_exit_code`, traps, `g_set_e`, functions and their frames | one branch per kind of part | commands, itself |
| shell variables | `Main/main.cpp` 1672-2744 | `g_shell_vars`, environment, `g_positional_args`, working directory, `g_dir_stack` | assign, export, local, set, shift, cd, pushd, popd, scopes | the process's environment and directory |
| shell streams | `Main/main.cpp` 835-1149, 2750-3070, `utils/console.h` | descriptors 0 to 2, standard handles, capture handles, temporary files | pipeline, redirection, `$( )` | commands, the file system |
| shell text | `Main/main.cpp` | none: functions of a text | parts, pipes, words, redirections, here-documents, keywords, braces, arithmetic, `${ }`, patterns | the interpreter |
| tail -f | `commands/tail.cpp` | per file: identity, stream, read position, unchanged counter | stat, reopen, read, sleep | writers, log rotation, a watched process |
| file replacement | `commands/sed.cpp`, `mv.cpp`, `cp.cpp`, `install.cpp`, `patch.cpp`, `ln.cpp` | temporary and backup files | back up, write, remove, rename | other processes, being stopped |
| wpm | `tools/wpm.cpp` | download cache, installed files, alias file | install, uninstall | the network, the file system, other runs |
| start and line editor | `Main/main.cpp` 3579-3937, `Main/readline.h`, `native_completion.h` | edit buffer, history, completion cache | keys, history, completion | the console, other shells' caches |
| registry and options | `core/*.h` | table of commands, parsed options | dispatch, `parse_command` | every command |
| containers | `container/*.h` | `SmallVector`: inline or heap storage | push, insert, erase, move | every command |
| FFI | `ffi/ffi.cpp` | two pipes, the capture handles | `winux_execute` | foreign callers and their threads |
| tee | `commands/tee.cpp` | open outputs | open all, copy | the file system |
| timeout | `commands/timeout.cpp` | one child | start, wait, terminate | the child |
| find | `commands/find.cpp` | expression tree, batches of `-exec +` | parse, walk, evaluate | the file system, commands |
| filters | `commands/sort.cpp`, `uniq.cpp`, `grep.cpp`, ... | locals of one call | one pass | their input |
| lsof | `commands/lsof.cpp` | a worker thread and its context | query with a time limit | the kernel |
| queries, listings, other filters | the other `commands/*.cpp` | locals of one call | one pass | the platform |

How they interact. `Main/main.cpp` reads a line and gives it to
`executeShellLine`, which splits it into parts, runs them in order and calls
itself for everything that is a line again. A part that is a pipeline goes
through `executePipeline` and `runWithRedirects`, which switch descriptors and
the capture handles and run the segments **one after the other**, through temporary
files, in the shell's own thread. A simple command is a builtin, a function, a
command of the registry called in the same process, or a child process that is waited
for. Nothing in the shell runs concurrently; what makes it hard is nesting, with
all state in globals. Real concurrency is in xargs (children that end in any
order), in tail (other processes change the files between any two calls), in
timeout and lsof (an answer that races with a time limit), in calls of the library
from several threads, and between separate shells or runs of wpm that share files.

### What is hard, and what makes each part correct

- **xargs.** Children end in any order, the pool waits for the oldest; launches
  fail while others run; an item that overflows a batch is held over a flush;
  each group of lines is a new call with new locals. Correct: every item is given
  to one command, in order; the limits hold; slots are a partition; the exit
  status says what happened; it ends.
- **Interpreter.** `return` is a flag that every caller has to look at; the EXIT trap
  is one global that every nested call saves and puts back; the ERR trap
  must not call itself; `set -e` leaves lines half-way. Correct: a return ends
  its function and nothing else, an EXIT trap belongs to the line that set it and
  has run when that line ends, frames and guards are balanced, every program ends.
- **Variables.** Four kinds of scopes, nested in any order, each saves and
  restores its own part of the globals. Correct: they behave as lexically nested
  scopes do.
- **Streams.** Descriptor 1 is saved and restored by each redirection, the
  capture handle is switched off instead, and both decide where output goes; the
  pipeline's two temporary files take turns and have the same names in every
  nested pipeline; any open can fail half-way. Correct: output goes to the
  innermost redirection, a command reads what its predecessor wrote, nothing is left behind.
- **Text.** Quotes, parentheses, keywords and blanks protect each other by rules that
  are written anew in each splitter. Correct: what was put together comes apart at
  the same places, and an expansion is what precedence and products make of it.
- **tail -f.** Between the look at a file's identity, the look at its size and
  the reading, it may be appended to, truncated, replaced or removed. Correct: what is
  appended is printed once and in order, truncation and replacement are noticed,
  `--pid` is obeyed.
- **File replacement.** `sed -i` removes the original before it renames the new file
  over it, mv across volumes copies and deletes, a backup is made by a rename or
  a copy, and each of these calls can fail or be the last one. Correct: what was
  promised to be kept is complete under some name, and status 0 means done.
- **wpm and the completion cache.** Several runs share files that are written in
  steps; any of them may be killed. Correct: what was said to be installed is, and a shell
  never takes half a cache for a whole one.
- **timeout and the captured calls.** A late answer races with a time limit; pipes are
  read only after the command has ended, through handles that are global.
  Correct: a status tells whose end it is, a call returns its own output.
- **Option parser, SmallVector, line editor, filters, find.** Sequential code with many corner
  cases (an empty `--opt=`, a vector that was moved from, the draft of an edited
  history line, a batch that runs after the walk). Correct: it does what a
  definition that does not follow the code's steps says.

### Smaller hazards

Hazards with their lines are in `PROJECT.json`. Smaller ones, met while reading, that no
property is about and that a plain test would show:

- *Interpreter.* `exit` only makes a status, the rest of the line still runs; a
  condition that ends in a semicolon is always true; a `for` loop swallows `set -e`; a
  subshell's variables, functions and options stay; the ERR trap changes `$?`; `if
  ... fi | cat` drops the pipe; `$?` after `[[ ]]` is that of an earlier command.
- *Variables and streams.* `pwd` prints `$PWD`, which pushd, popd and subshells leave stale;
  `VAR=1 VAR=2 cmd` leaves `VAR=1` in the environment; unset leaves an exported name there;
  nested pipelines share the names of their temporary files; files of `<( )` are never removed;
  here-strings and here-documents may share a file name; commands that write to `std::cout`
  bypass the capture; the cached handles of `console.h` are one copy per translation unit.
- *Text.* A keyword that is an argument (`echo if; x`) opens a statement and keeps the
  line whole; `splitPipes` ignores parentheses; `for x in a b; do` gives `b;` as last item;
  a `for` inside a `while` ends at the inner `done`; there is no `elif`; case patterns are not split at
  `|`, a case in a clause ends the clause at its first `;;`, and `case $string in` is cut
  at the `in` of `string`; leading empty lines of a here-document and what follows it are lost; `2>&1` makes a file
  `&1`; `${v%*}` removes a character, `${v//}` with an empty pattern never ends; `?(a)` and `*(a)`
  match everything; all comparisons are of one precedence, and an unknown character ends an
  expression silently; a brace group without a comma keeps later ones in the word as they are.
- *xargs.* A group that ends on `-x` leaves its children behind and the next one starts a pool of its own.
- *tail.* What is appended between the end of the initial output and the seek to the end is
  never printed; several files with `--max-unchanged-stats` print an unchanged file again.
- *Processes.* timeout cuts a duration to 32 bits of milliseconds and parses `-k`, `-s` and
  `--preserve-status` without using them; lsof's worker may be killed while it holds the heap's lock.
- *tee.* Nobody looks whether standard output took a line: `--output-error=exit` goes on and the status is 0.
- *Files.* `patch -b` never makes a backup; `cp -r` exits with 0 though a file failed; cp of an empty file
  returns 1; `ln -f` removes the target first; `q` in `sed -i` drops the rest of the file.
- *wpm.* A truncated download installs as a success; uninstall reports success though a
  removal failed; an alias file that cannot be parsed or opened loses the other packages'
  entries; adding or removing a source is never saved.
- *Filters.* `sort -m` reads its files twice, `-c` ignores `-r`, `-h` orders negative numbers wrongly, `-rn` as
  a cluster is not recognised; `join -v 2` prints joined lines; a `{N}` of csplit matches the same line again;
  `split -b 1K` means one byte; a diff line that begins with `-- ` is taken for a header by patch;
  `grep -m 0` prints a line; tsort's output is not topological; `--help` is honoured after `--`.
- *find.* Two `-exec cmd ... +` with the same command and arity share a batch, the results of
  batches are ignored, `-quit` still finishes its expression.
- *SmallVector.* The destructor does not destroy its elements.

## 2. The modules

| module | what it is |
|---|---|
| `XargsPool` | `execute_command`, `run_batch`, `wait_one`, the slot allocator and the loop over groups |
| `XargsDelivery` | abstract: what xargs promises about its input |
| `XargsPoolProofs` | `TypeCorrect`, `SlotsAreSound`, `CommandLinesFit`, `DeliversInput`, `StatusIsTrue` |
| `ShellLine` | `executeShellLine` as a machine with an explicit stack |
| `ShellLineProofs` | `TypeCorrect`, `TrapsAreLexical`, `NestedCallsUnwind`, `ExitTrapsRun` |
| `ShellVars` | the globals of variables, environment, arguments, directories, and who saves them |
| `ShellScopes` | abstract: nested scopes |
| `ShellVarsProofs` | `TypeCorrect`, `ScopesImplemented` |
| `ShellIO` | pipelines, redirections, captures and the files under them |
| `ShellIOProofs` | `TypeCorrect`, `SinkIsInnermost`, `FilesHoldWhatWasSent` |
| `TailFollow` | `follow_single_file`, the loop over several files, `read_file_data_win32`, and the others who use the files |
| `FileReplace` | the commands that put new contents in the place of a file, call by call |
| `FilterFacts` | what the functions of `Pieces`, `LineTools`, `GrepScan` and `Wildcard` return for any input |
| `CommandProofs` | `TypeCorrect`, `NothingIsLost`, `StatusIsTrue` of file replacement; `PatchUndoesDiffAlways`; `SortIsSoundAlways`; `PiecesCoverInputAlways`; `LinesAccountedForAlways`; `GlobMatchesAlways`; `ArgumentsAsWrittenAlways` |
| `SmallVector` | `container/small_vector.h`: storage, ownership, capacity, elements |
| `Vectors` | abstract: variables that hold sequences |
| `TimeoutRun`, `TeeCopy` | the commands timeout and tee |
| `OutputCapture` | `winux_execute` and the handles it captures with |
| `CompletionCache` | the cache file the shells of a user share |
| `LineEdit` | the line editor's buffer, cursor and history |
| `WpmPackages` | installing and removing packages and the alias file |
| `Parts` | the seven machines above, one per behaviour, and what is asked of several of them |
| `PartsProofs` | an invariant for each of the seven, and the theorems about `Parts`; `PrintsOnceInOrder` and `TailTypeCorrect` of `TailFollow` |
| `Options` | the dispatcher's rewriting and `parse_command` |
| `LineTools` | comm, uniq, join |
| `SortLines` | the comparisons of sort, sorting, merging, checking |
| `Pieces` | split, csplit, cut |
| `DiffPatch` | the edit script, its hunk, and its application |
| `Selections` | what the loops that keep some elements of a sequence have in common |
| `Wildcard` | `wildcard_match` |
| `FindTree` | the expression of find, its walk and its batches |
| `GrepScan` | which lines grep selects and prints |
| `ShellText` | parts, pipes, words, redirections, statements |
| `ShellExpand` | braces, arithmetic, `${ }`, patterns with groups |
| `LineFilters` | one action per command that reads lines (comm to diff and patch, and grep), and for the option parser, the dispatcher and wildcards; what their results are held to |
| `Filters` | `LineFilters` with find and the shell's text, and what their results are held to |
| `SeqFacts` | lemmas the proofs share: stacks, subsequences, flattening, what a loop keeps of a sequence, smallest and largest numbers |
| `MC...` | instances for TLC: the programs, inputs and settings of the runs |

Definitions that begin with `Mut_` are wrong versions of the definition below
them, as a slip in that code would make it. They are used by no specification; they serve to
confirm that each property can be violated.

**XargsPool.** The input has been read: it is a sequence of groups of items (one
group, or with `-L` one per so many lines). Command lines are lengths, an item
adds a weight. `pc` is the place in `execute_command`; the lambda `run_batch` has three
call sites, kept in `site`, because what happens after it differs. `running`,
`freeSlots`, `nextSlot`, `stop` and `exitCode` are the locals of one call, reset by
`FreshLocals` at each group; `result` is the exit status of the command. A child
(`children`, a history of all of them) ends at any moment with any of the given
statuses; `wait_one` takes the oldest. `LaunchFails` may happen at any launch,
`Decline` is the user's no under `-p`. `Consistent` states which settings the
option normaliser can arrive at. `-P 0` (all at once) is the
same as a `maxProcs` larger than the number of batches.

**ShellLine.** A program is a function from line names to sequences of parts, as
`splitShellParts` returns them: a line that ends in a semicolon ends with an empty
part. `stack` is the C++ stack of `executeShellLine`; a frame has the locals of a
call (`j`, `rc`, `op`, the saved trap) and in `phase` the place where it waits for
a nested line. Each branch of the part's if-chain is an action that either
finishes the part or calls a line, and one that goes on when the line returns. After
a part come the ERR trap, `set -e`, the return flag and the next part, in the code's order;
`RunExitTrap` and `Pop` are the destructor of `ExitTrapScope`. A simple command
is any status of `Statuses`.

**ShellVars** and **ShellScopes.** `calls` is the stack of those who save
something: a function (locals, arguments), `VAR=value` before a command
(environment), `bash -c` (arguments), a subshell (directory). What runs inside them
is any sequence of builtins. `ScopeAt(k)` reconstructs from the globals and from
what is put aside what scope k binds; with it the globals implement
`ShellScopes`, where a name is looked up in the innermost scope that binds it and
a scope disappears with what it binds. The environment drops a variable that is set
to the empty string, as `_putenv` does.

**ShellIO.** A frame is a call of `executeShellLine` at a part and a segment.
`StartSegment` and `SegmentFails` are `runWithRedirects` up to the command: the
files are opened in the code's order, and when one cannot be, those before it have
been truncated, and descriptors are put back. `EndSegment` is its end,
`Substitute`/`CaptureEnds` are `captureCommandOutput`. Files are opened as the code
does (`FILE_SHARE_READ`): one that is being written cannot be opened again, one
that is open cannot be removed. A command prints a value, copies its input, prints
what was substituted, or calls a function. `entry`, `said`, `piped` in a frame and the
variable `mixed` are history.

**TailFollow.** A file is a sequence of chunks, one per write; a name leads to a file or to
none. The three ways to follow are kept apart as in the code: one file by
name (identity and size from one open, the data from another open of the name), one by
descriptor (a stream that stays open), several files in turns. Every call tail makes
into the system is a step of its own, so that `Write`, `CutShort`, `Create`,
`Replace`, `Unlink` and `Die` can come in between; `Read` is one `read` and
happens until the end of the file. `timesOut` is history: how often a chunk
was printed.

**FileReplace.** A job is a command with its settings; `pc` is the place in its straight sequence
of calls, and every call into the file system is a step that may fail (`faults`). `dir` says what
each of the four names holds: old, new, another's contents, a part of it, or nothing. A write
that fails when the file is closed, which sed, cp and patch do not look at, sets `silent`. `Stop` ends the
command between any two calls, `Appear` is another process that creates the target while there is none.

**Parts.** The machines share no state, so a behaviour runs one of them (`part`) and
`PartsSpec` is their sum.
`SmallVector` keeps elements per place (a block or an object's inline
storage), so that two vectors at one block would see each other's changes; after a move the source has no
capacity (`resetToSmall`), and `OperationsRefine` names for each operation the one of `Vectors` it implements.
An argument that is an element of the vector, and the elements the destructor does not destroy, are
left out. In `TimeoutRun` the command ends when it likes, also between the end of the wait and `TerminateProcess`. In
`TeeCopy` a stream buffers lines, stays failed after a failed write, and writes from its own position on, or with `-a`
at the end; standard output may lose a line, which tee does not look at. An early return leaves buffers unwritten, since
the vector that holds the streams does not destroy them.
In `OutputCapture` the handles are global as in `console.h`, pipes hold `PipeSize`
pieces, and `alone` marks the calls no other one overlapped: those of two threads that do overlap print into each other's
pipes, so nothing is promised about them. In `CompletionCache` a file is read and written in two pieces, shells are
killed and started again, `mixed` marks that two shells wrote different data into the one temporary file, which
the code does not exclude, and `refused` the keys under which some shell could not open or read the source: what it
got instead is cached like the rest. A version stands for content, time and size of the source together: an edit that keeps
time and size is not noticed, and left out, as is one between the reading of the size and of the time. In `LineEdit` every key is an action on bytes; `typed` is history. In `WpmPackages` downloading
and copying leave partial files behind when they fail or the run is killed; `told` is what the last run that nothing disturbed
said of a package, `alone` and `clean` mark runs and writes that nothing disturbed.

**LineFilters, Filters.** These commands are functions of their arguments and input; a task is one command
line with its input, and one step computes the output by the operators of the modules named
above, each translated from the code that computes it. `Filters` extends `LineFilters` by find and the functions that read the shell's text, which are written with
RECURSIVE operators. The promises are written without the code's steps:
partitions, relations, orders, minimal edits, sets of tuples, and for the shell's text the tree a text was written from:
a list of commands is written down and has to come apart into the same commands.
Where the code keeps a promise only in part, the comment of the promise says what is excepted, and the smaller hazards above list it.

## 3. Runs

Passing runs:

| run | module | distinct states | what it shows |
|---|---|---|---|
| `xargs_pool` | `MCXargsPool` | 169 thousand | types; no command line over `-n`/`-s` (`LimitsRespected`); a status of 0 means that all was done and succeeded, another names something that happened (`StatusTellsTruth`); slots (`SlotsSound`); `ImplementsDelivery`; `Terminates` |
| `shell_lines` | `MCShellLine` | 124 thousand | types; frames and the ERR guard are balanced and a return ends its function (`CallsUnwind`); `TrapIsLexical`; `EveryExitTrapRuns`; `Terminates` |
| `shell_vars` | `MCShellVars` | 26 thousand | types; `ImplementsScopes` |
| `io_streams` | `MCShellIO` | 31 thousand | types; output goes to the innermost redirection (`SinkFollowsRedirects`); files and pipes hold what was sent to them and none is left (`FilesHold`) |
| `tail_follow` | `MCTailFollow` | 176 thousand | types; `OnceInOrder`; `Delivers`; `TruncationNoticed`; `EndsWithProcess` |
| `file_replace` | `MCFileReplace` | 7 thousand | types; a backup that was asked for, what mv moves and what sed edits are complete under some name at every moment (`NothingLost`); status 0 means done, one failure leaves no temporary file (`EndsAsSaid`) |
| `parts` | `MCParts` | 1.2 million | no block is leaked, freed twice or shared (`StorageSound`) and a vector is its sequence (`ImplementsVectors`); statuses of timeout and tee (`StatusesAreTrue`); a captured call returns its own output (`CapturedIsOwn`); no shell takes completions from before the source it found, or half of them unless the source could not be read (`CompletionsCurrent`); keys tear no character and lose no draft (`LineIntact`); what wpm says is so (`PackagesAsTold`); timeout and captured calls return (`EveryCallReturns`) |
| `filters` | `MCFilters` | 672 thousand | `ArgumentsAsWritten` (options); `LinesAccountedFor` (comm, uniq, join, grep); `SortIsSound`; `PiecesCoverInput` (split, csplit, cut); `PatchUndoesDiff`; `GlobMatches`; `FindIsExact`; `ShellReadsAsWritten` |

Runs in which the code disagrees with a statement of the repository; each ends
with a trace:

| run | property | the disagreement |
|---|---|---|
| `xargs_255_launches` | `Child255StopsLaunches` | "child `255` stops further launches": the request to stop is local to one group, and a younger child's failure overwrites the status |
| `io_substitution` | `SubstitutionCaptures` | in `$(a \| b)` the pipe switches the capture off |
| `tail_twice` | `PrintedOnce` | by descriptor, what is appended between the look at the end and the end of the read is printed twice |
| `mv_no_clobber` | `NoClobber` | "do not overwrite an existing file": `-n` looks first and renames with `MOVEFILE_REPLACE_EXISTING` later |

### Bounds, and why they are enough

- **xargs.** Inputs of up to four items in up to three groups, pools of one to
  three. A batch that overflows needs two items, one that is too long by itself a
  third; a pool of two with four batches fills, waits, reuses a slot and
  fills again; a group whose status is overwritten needs another after it. All settings in which options
  interact are in `MCXargsPool`; statuses are one of each class of
  `map_child_exit_status`.
- **shell_lines.** Some 630 programs: functions around every compound part with
  conditions, returns and traps inside, and lists with `&&`, `||`, negation, `set -e`
  and both traps. `MAX_ITERATIONS` is 2 instead of 10000: one round that goes on and one
  that is cut off. No function calls itself: recursion that never
  ends is the program's own, and the code has no limit for it.
- **shell_vars.** One name, `PWD`, which is the only one with two writers (cd and
  scripts); names do not interact otherwise. Two scopes open at a time
  (`MaxDepth`), of any two kinds; one entry on pushd's stack (`MaxDirs`);
  two directories, which may be removed while nobody stands in them. The
  same name is never twice in one list of `VAR=value` (see the smaller hazards).
- **io_streams.** `f` around `g`, each in every position of a pipeline and in every
  redirection, a file that cannot be opened among them, with substitutions nested at
  most three deep (one capture file per depth).
- **tail_follow.** Two writes, three files ever, two truncations,
  replacements or removals with one operand and one with two. Two writes give
  one before and one after any call; two replacements give a file that is replaced
  while its replacement is being noticed. A chunk's prints are counted to two. The
  counter of unchanged stats is kept only with `--max-unchanged-stats`, where the code
  looks at it. Left out: the initial output is one step; a name that is renamed
  away does not come back as the same file; a removed file's name is free at once; the same
  file is not given twice.
- **file_replace.** All settings of the six commands that change the order of calls; two failing
  calls (`MaxFaults`), because a failure in the handling of a failure is what leaves
  files behind.
- **parts.** Two vectors with one inline element and three blocks: a vector that is inline, full, grown,
  moved from and cleared again, next to one it can share with. `DwordMod` = 4 stands for
  2^32, with durations below it, above it, at a multiple of it and at the value that means for ever.
  A pipe of two pieces and commands that print up to three. tee: two files, one of them also
  twice, and two lines, one that is buffered while another is written. Two shells, each started any number of times, and
  two versions of the source: one that the cache or a half-written temporary was made from, and one that is there now. Two characters of one and two bytes in a line of at most three bytes, which has a
  boundary inside, before and after each; a package of two files and one that is renamed, two runs of wpm at
  a time and three in all (`MaxStarts`): one that fails, one that repairs, one that overlaps.
- **filters.** Inputs are all sequences up to a length over small alphabets. Options: up to three
  arguments, among them every form of each type. Lines: up to three or four per file.
  `Letters` = 2 stands for 26, so that suffixes wrap within the inputs, and `IntMax` = 9
  for `INT_MAX`. sort: eight lines as the conversions read them, chosen so that
  each mode disagrees with another on some pair. find: a tree of six paths, expressions of
  all short token sequences. Text: lists of up to three commands out of a set in which each holds something that
  must not take a line apart; up to three words or redirections in any order; statements and
  braces nested in each other, words of case with an `in` inside, items of for in quotes; expressions of up to three operators; patterns of up to four characters.

Deadlock is checked in the runs of xargs, the shell's machines and file replacement: a program that has ended
stutters by an action of its own (`Terminated`, `Done`, `Ended`), so a call that waits for ever would be
found. In `tail_follow`, `tail_twice`, `parts` and `filters` (`CHECK_DEADLOCK FALSE`) commands
really end and the bounds on the others' steps may be used up; there `EndsWithProcess`,
`Delivers` and `EveryCallReturns` take the place of the deadlock check.

### Fairness

- xargs: its one thread is scheduled (`WF_vars(Xargs)`), and every child ends
  (`WF` of `ChildExits(c)`). The second is an assumption about the commands: the code has
  no timeout, one that never ends keeps xargs waiting, as it does any xargs.
- shell: one thread that is scheduled; a simple command is one step, so it ends.
- tail: one thread that is scheduled (`WF_vars(Poller)`). Nobody else is fair: writers may
  stop and the process of `--pid` may live for ever.
- timeout: the clock goes on, the system ends a wait that is over, and timeout's own thread is
  scheduled. Its command may run for ever: that is what it is for.
- captured calls: each call that can go on does. New calls are made when somebody likes.
- All other machines state safety only, without fairness.

## 4. Proofs

`tlapm` checks the following for every value of the constants that satisfies the
named assumptions, which TLC evaluates in the passing runs. Every safety invariant and every
refinement of the state machines is a theorem; `PROJECT.json` lists them with the run
that shows each on a small instance. Most of the assumptions (`ItemsAssumption`,
`OptionsAssumption`, `ProgramAssumption`, `ScopeAssumption`, `IOAssumption`, `JobsAssumption`, `TailAssumption`,
`SmallVectorAssumption`, `TimeoutAssumption`, `CaptureAssumption`, `LineEditAssumption`, `NotNumbers`, `PiecesAssumption`, `DiffReadsFiles`,
`SortReadsLines`, `SplitReadsLines`, `CsplitReadsLines`, `CutReadsRecords`, `CommReadsFiles`, `UniqReadsRecords`, `JoinReadsFiles`,
`GrepReadsFiles`, `OptionsReadArguments`, `GlobReadsNames`) only say what the constants
are, `TeeAssumption` among them. One says more:
`WpmAssumption`, that packages have files and share neither a file nor the name it takes (two packages that do
overwrite each other's files, and nothing in wpm looks). `ScopesImplemented` has a hypothesis
of its own, `OncePerList`: `VAR=1 VAR=2 cmd` is a smaller hazard of section 1.

- **`XargsPoolProofs!TypeCorrect`.** `TInv` is `TypeOK` and `Control`, which
  relates the place in the program to the position in the input and to the batch;
  without it the held item might not exist.
- **`XargsPoolProofs!SlotsAreSound`.** `SInv` adds to `TInv` that slots in use and free
  slots partition the numbers below `nextSlot`, and `PoolBound`: how many children run at each place, which
  is why `nextSlot` stays within `-P`. Three lemmas say that releasing, reusing and
  making a slot keep a partition; a launch that fails is an allocation and a
  release.
- **`XargsPoolProofs!CommandLinesFit`.** `LInv`: what is in the batch has passed `fits_limits`, or is a single
  item kept without `-x`; an empty batch that was not looked at is never run. How lengths add up is not used.
- **`XargsPoolProofs!StatusIsTrue`** (with **`ZeroMeansSuccess`** and **`NonzeroIsJustified`**). `EInv` relates the
  codes to the history of the children: `stop_launching` is never set while `exit_code` is 0, neither code returns to
  0, each code is `Justified` by a child that was waited for, and while they are 0 every child was waited for or is in
  the pool (`NobodyLost`) and none that was waited for has failed (`NobodyFailed`). An early return leaves children
  behind, but only with a failure. The part about the items is `Accounted`: while the run has not failed, what was
  handled and what is pending make up the input.
- **`XargsPoolProofs!DeliversInput`.** xargs implements `XargsDelivery`. `PInv` adds `Places` to `EInv`: nothing is held
  back while the program waits, and the group is used up when its last batch is run. What is pending is
  the batch, the rest of the group and the later groups, flattened; the lemmas about flattening are by induction
  over the number of groups.
- **`ShellLineProofs!TypeCorrect`** and **`TrapsAreLexical`.** A frame that waits
  is looked at again later: `Fits` says that its phase agrees with the kind of part it
  stands at. `Linked` says that every call saved the trap its caller has in force. Every
  action is one of three moves of the stack (change the top, push a call, pop it), shown by
  one lemma per group of actions; that moves keep the invariant is shown once
  (`MovesKeep`).
- **`ShellLineProofs!NestedCallsUnwind`** and **`ExitTrapsRun`.** `CInv` adds what the globals owe to the
  stack: a function frame for each call in progress and the ERR guard for each ERR trap (`Balanced`), what the frames
  below the top may be waiting for (`Shaped`), where a return may be pending (`Requests`), and where the traps that must
  still run are kept: in force, or saved by a call that puts them back (`OwedInv`). A step is summed up
  as what it does to the phases of the stack (`Deed`), so that the three are shown against few cases. That a return
  ends its function holds where conditions, sourced lines and trap lines are simple
  (`SimpleConditions`): the code looks for a return after a part, not after a condition or a sourced line, and a trap
  line that runs while one is pending begins before anybody looks.
- **`ShellVarsProofs!TypeCorrect`** and **`ScopesImplemented`.** What a scope binds is computed from
  the globals and from what the calls above it put aside (`At`); the innermost scope that binds a name is the last call that has
  not put `Through` aside (`BindingIs`). The lemmas say how that changes when a call is opened, closed or a global set, for one
  name; the four stores (locals, environment, arguments, directory) are instances. A list of assignments is applied
  forward and undone in the same order, which only restores what was there if no name comes
  twice (`OncePerList`).
- **`ShellIOProofs!TypeCorrect`** and **`SinkIsInnermost`.** The invariant says that
  each call was given what its caller's output goes to (`Linked`), that descriptor 1
  leads where the stack says, that the capture handle is off, or the target of the top, or
  descriptor 1, and that what is open exists (`Present`). It would not be
  inductive without `Rooted`: a place somebody may write to is the console or the
  file of a redirection or capture further down the stack, so the files that are
  removed at the end of a pipeline or a capture are nobody's target.
- **`ShellIOProofs!FilesHoldWhatWasSent`.** `HInv`: nobody else has the file of a redirection open (`Exclusive`,
  since a file that is being written cannot be opened again), so only what is printed under the redirection gets
  there, and the file ends in all that was said since it was opened. The capture handle is on in a `$( ... )` where nothing
  is redirected directly (`CaptureOn`). Every temporary file belongs to a pipeline or to a `$( ... )` that is still on
  the stack (`TempsOwned`), so when the stack is empty none is left. Between two commands of a pipeline the file
  holds what the first one printed, and then the second one's input is that (`HandedOn`).
- **`PartsProofs!PrintsOnceInOrder`.** One operand followed by name, nothing truncated, replaced or removed:
  `FInv` says that there is one file at most and that it holds the chunks in the order of their numbers
  (`OneFile`), that `tail` is at one of eight places (`FollowPlace`), and that nothing beyond the read position was
  printed (`Position`). A stat may find a size the next read does not find; the position stays right because it is
  what was read. A file that was not found has the position 0, so reading it from its start repeats nothing.
- **`PartsProofs!TailTypeCorrect`.** For all ways to follow and whatever the other processes do. `WInv` says whose turn it is
  (`Turn`), that every file followed with others has an open stream but for the one that is being reopened (`FollowStreams`), that a
  stream is read only while it is open (`OneRead`), and that names lead to files that exist (`Disk`).
- **`CommandProofs!TypeCorrect`**, **`NothingIsLost`** and **`StatusIsTrue`.** A command goes through
  three stages: the target is as it was, a copy is under way, the backup that was asked for is complete.
  `Stages` says what the target or the backup holds in each; without it a call that replaces the target could
  start from a state in which nothing else holds the old contents. `Copies` says which copy is under way,
  `LeftAlone` that a target `-n` has found is out of reach, `Moving` and `Temporary` what the source and sed's
  temporary file hold at each call. The invariant `ReplaceInv` is their conjunction with `TypeOK` and the two
  properties; it is kept by every call, by stopping, and by another process that
  creates the target. The jobs and the number of failing calls are arbitrary.
- **`CommandProofs!PatchUndoesDiffAlways`.** Any two files, any number of lines of context. A run of diff prints what
  `output_unified_diff` makes of its task (`DiffRun`); the rest is about the functions. `lcs` and `backtrack_lcs` recur over pairs
  of beginnings of the two files (`Ends`), so the induction is over the lines both have together (`EndsInduction`), and that
  such a recursion has a solution is shown first (`EndsRecursion`). The table bounds what two choices of equal lines can share
  (`TableBounds`, for which neighbours in it must differ by one at most: `TableGrows`) and reaches it
  (`TableReached`); the script found in it makes the one file of the other and keeps that many lines (`BacktrackMakes`). The
  hunk therefore holds both files whole, its counts fit, and patch finds it where it stands. `DiffReadsFiles` says that
  the tasks of diff are two sequences of lines.
- **`CommandProofs!SortIsSoundAlways`.** Any files, options and keys; `SortReadsLines` says that the tasks of sort are sequences
  of lines. A run of sort prints what `sort` makes of its task (`SortRun`). In every mode comparing two lines gives -1, 0 or 1, the
  opposite when they are swapped, and what it says of x and y and of y and z decides what it says of x and z (`Composes`); first differences
  of keys and of a version's parts inherit this (`RecordsOrder`), so the comparison is a strict weak order on lines that `strtod`
  does not read as NaN (`BeforeOrders`). An insertion puts a line after all that are up to it (`InsertIs`), so `stable_sort`
  sorts and keeps lines that compare equal in their order (`StableSorts`), `Unique` keeps the first of each such group
  (`UniqueKeepsFirst`), and `merge_sorted` has, after any number of lines, those lines in order, files that are still sorted and hold
  nothing that should have come earlier, and lost none (`MergedSoFar`). `-c` accepts what these functions leave as it is (`CheckIs`).
- **`CommandProofs!PiecesCoverInputAlways`.** Any input, sizes, patterns and lists of ranges; a run prints what the functions make of its
  task (`PiecesRun`), and the lemmas about the functions are in `FilterFacts`. *split:* after any number of steps the files hold the input up to where the next one begins, and each file
  its share (`SplitSoFar`). Two parts get one name only when the suffixes have run out (`SuffixesDiffer`), so every
  file is on the disk in the end (`AllOnDisk`). *csplit:* whatever order the patterns ask for, the cuts are lines and what is hidden
  is a line that a pattern matched (`CutsRight`, by two inductions, over the patterns and over the times each is asked for);
  the pieces up to any line make up the input to there (`Covers`). What is hidden is a whole piece, since a cut is made before
  and behind it. *cut:* that a list can be sorted has to be shown (`InsertRange`), as `Ordered` chooses an order;
  merged ranges are sorted, do not touch, and name the same positions as the list (`MergedApart`); `--complement`, after any number of
  ranges, has named what lies before its position and in none of them (`LeftSoFar`); ranges that are apart print their
  positions in order and once (`BytesShown`).
- **`CommandProofs!LinesAccountedForAlways`.** Any files and options; a run prints what the functions make of its task (`LinesRun`; the
  lemmas about them are in `FilterFacts`).
  *comm:* after any number of turns of the merge loop columns 1 and 3 hold the first file up to where it was read, 2 and 3 the second, and
  of sorted files column 3 has each line as often as both have it, in what was read and in what is left to read (`MergeHolds`): what is
  left cannot hold a line below one that was printed. *uniq:* the turns follow the runs of equal records, and every set of options
  that keeps some records of each run makes of the input those records (`UniqIs`); the four outputs the property speaks of are instances of it.
  *join:* the two functions that take a line apart differ in what they do with empty fields; without these they agree on every
  field (`FieldsMeet`). The rows are then pairs counted line by line (`RowsGrow`), and the second file's other lines are those no line
  of the first matched. *grep:* `-m` takes the first of the lines that match (`FirstOfIs`); the merged ranges do not touch
  and hold the lines near one (`GroupsAre`), so printing them in turn prints each once and in order, and a separator stands exactly
  where lines are left out (`GroupsPrinted`). A file adds to the output what is about it, nothing about another
  (`GrepNext`), and to the status whether it had a line or could not be read.
- **`CommandProofs!GlobMatchesAlways`.** Any pattern and any name. `wildcard_match` and its reference are both recursions over the
  pattern, so they are compared from its end (`SeqFacts!BackwardInduction`): the places of the text from which the
  rest of the pattern matches are those from which the text can be cut for its remaining elements (`MatchesFromHere`).
  The code skips a run of stars at once, and that is the same as one star after the other (`StarsAreOne`); a class accepts
  a character when one of its ranges or characters is it (`ClassIs`).
- **`CommandProofs!ArgumentsAsWrittenAlways`.** Any table of options and any arguments, as sequences of sequences of symbols
  (`OptionsReadArguments`). The parser is a recursion over the arguments and, in `-abc`, over the characters; both go on
  behind what they read (`GoesOn`), so they are defined for every command line (`ClusterIs`, `ParseIs`). One option takes the
  next argument exactly when it needs one and is refused only for one of the three reasons (`OptionReads`); then what is
  read from a place on agrees with the roles from there on (`ReadFrom`), provided that the parser comes there to no value and
  has met no `--` (`Reached`), which is shown from the last argument to the first (`ReadsOn`). For head and
  tail, what replaces `-NUM` asks for no help (`LegacyRewrites`) and its `-n` is the first option (`CountComesFirst`).
- **`PartsProofs!PartsInvariant`.** The conjunction of the seven machines' invariants; a step of one leaves the
  others' variables alone. From it follow the properties of the run `parts`:
  - *`StorageAlwaysSound`, `VectorsImplemented`.* `VecInv` is the types, `BlocksOwned` (each allocated block belongs
    to one living vector), `InBounds` (no more elements than capacity, and the capacity is that of the place) and `Tidy`
    (an object outside its lifetime is as its constructor finds it, and a place no living vector points at has no
    elements). `Tidy` is what makes growth and moves correct: the elements are put at a place that was empty. From
    it every operation is the one of `Vectors` it stands for.
  - *`StatusesTrue`.* `TimeoutInv`: the command runs while it is waited for, and when the wait has expired the duration was
    over, for any `DwordMod`. `TeeInv`: each operand that was looked at has a stream, and only one if it is named once
    (`StreamsOfNames`); a stream that has not failed still holds what it was given and has not written, and the file has the
    lines below its position, whichever other stream writes it too; once closed it holds nothing (`LinesKept`).
  - *`CapturesOwnOutput`.* `CaptureInv`: a call that is alone is the only one in progress, has its pipes published, and they
    hold the pieces printed so far, counted for each stream (`Undisturbed`); what it returned stays what it printed
    (`Delivered`), so the calls that overlapped before or later do not matter.
  - *`CompletionsAlwaysCurrent`.* `CacheInv`: unless two shells wrote different data together, what is whole in the cache and
    in the temporary file, and what a shell holds, is `UpToDate` for the key it stands under, and a shell that is writing
    goes on with what the temporary file holds (`SameInTmp`). Each piece a shell has read is of a version between its key
    and the source (`ReadSoFar`), or is missing under a key that was refused; edits and refusals only add to that.
  - *`LineAlwaysIntact`.* `LineInv`: the buffer, the draft, what was typed and every line of the history are whole characters,
    the cursor stands between two, and the draft is kept. One case per key, on lemmas about pasting,
    taking out and moving over text.
  - *`PackagesAlwaysAsTold`.* `WpmInv`: a run that is alone has its package for itself, and of a package a run is at work on nothing
    is told (`NoRivals`); what such a run has done so far is in the download and bin directories (`DoneSoFar`); what was told of
    a package is so (`ToldIsSo`), in the alias file too while its writes did not overlap (`AliasesAgree`). That packages share no name
    is what keeps the files of one from those of another.

Induction: the library's induction theorems take a predicate as a parameter and cannot be instantiated
here, but its theorem on smallest elements speaks of a set. `SeqFacts!SetInduction`, induction for a given set of numbers,
follows from it; with it the facts about recursive functions that the proofs need are shown (`FlattenSeq`, `Iteration`, `Recursion`, `BackwardRecursion`).

Only model-checked:

- what is liveness (`Terminates`, `Delivers`, `TruncationNoticed`, `EndsWithProcess`, `EveryCallReturns`),
  which is beyond the prover;
- two invariants of the run `filters` (`FindIsExact`, `ShellReadsAsWritten`), which are stated in
  `Filters`: `FindTree`, `ShellText` and `ShellExpand`, which it extends, use RECURSIVE operators, which no module with a theorem reaches;
- the statements of the repository that the code violates, which are no theorems.

## 5. Not modelled

- The interactive loop and the script reader call `executeShellLine` line by line, which `ShellLine` models as
  `source`. `runNativeFallback` is disabled in the code, although the README describes it.
- Process substitution, `read`, and a background `&` (it only separates parts, as `;` does). Arrays,
  aliases and shell options are single globals set in place.
- Conversions: numbers, dates, units, regular expressions, encodings, locales. The modules take their
  results as given: sort's lines are what the conversions make of them, a line of grep is
  whether it matches.
- Commands with one system call per operand, queries and listings of the platform, and filters of one pass
  (head, cat, tr, wc, ...): no state to relate, and the repository's tests compare their output.
- lsof's query thread: what is left when it is terminated is the state of the kernel and the heap, not the program's.
- Third-party and generated code: the vendored JSON library alone is more than a quarter of the lines under `src/src`.

`PROJECT.json` lists every component with its status.

## 6. What could come next

1. `FindTree` without RECURSIVE operators, so that `FindIsExact` could be proved.
2. More of the program: the file-system commands that walk trees (`cp -r`, `rm -r`), and sed's and awk-like filters that keep state over lines.
