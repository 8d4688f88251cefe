# A verification project for fastfetch

fastfetch detects facts about a machine and prints them beside a logo. Most of
its code is detection: reading files, registries and ioctls, one platform at a
time, without a state that anything else sees. What is left is a small program
with real state: passes that must line up, a cache that must be dropped, threads
and children that must end, responses that arrive in pieces, files that outlive
the run that wrote them, a terminal that answers when it likes, and a
configuration that one piece of code writes and another reads. This project
models that part in TLA+, checks it with TLC, and proves properties of each
component it models with TLAPS.

The Linux build is what the models are of. Paths below are relative to `src/`
of the repository.

## The system

`main()` (`fastfetch.c`) reads the command line twice, with the configuration in
between. With `--gen-config` it then writes a configuration, after asking the
user if there is a terminal. Otherwise `run()`

1. goes over the modules once to *prepare* them: what takes long is started,
2. touches the terminal (`ffStart`) and prints the logo,
3. goes over the modules again to *print* them, each beside the logo and by the
   format of its options,
4. and with `--watch` (`--dynamic-interval`) drops what was cached and repeats.

| component | code | state | operations | interacts with |
|---|---|---|---|---|
| Result cache | `common/impl/FFcache.c` | the list of entries, the mark and the value of each | get, begin init, invalidate one or all | inits of detections, which request other entries; the loop of `run()` |
| Passes and the refresh loop | `common/impl/jsonconfig.c`, `commandoption.c`, `fastfetch.c`, `init.c` | the module a pass is at, the last module's success, the terminal | prepare, print, start, next round, finish, signal | every module; `command`, `weather` and `publicip` keep something between the passes |
| HTTP request | `common/impl/networking_linux.c`, `common/thread.h`, `detection/weather`, `detection/publicip` | socket, addrinfo, command buffer, thread, latch | prepare, connect and send (in a thread), join, receive, reset | passes, which call it; all other modules, which share the descriptors |
| HTTP response | `common/impl/networking_linux.c` | buffer, what the header said, the socket | receive, grow, frame, judge | the request; chunked coding |
| Chunked coding | `common/impl/networking_common.c` | none: functions of a buffer | complete?, decode in place, rebuild the header | the response |
| Child processes | `common/impl/processing_linux.c`, `detection/command` | the pipe and pid of each child | spawn, poll, read, kill, wait | passes: the queue of commands |
| Sampled rates | `detection/netio`, `detection/diskio`, `detection/top` | a baseline for each type of module | prepare, detect, compare | passes; the counters of the kernel |
| Image logo cache | `logo/image/image.c` | files on disk, shared by runs | look up, remove, render, write | the image, which is edited; signals |
| Terminal queries | `common/impl/io_unix.c` | the tty and its old attributes | request, receive, scan, restore | logo lines, modules that ask for the size; what the user types |
| Logo lines | `logo/logo.c`, `logo/spin/spin.c` | the cached lines, the next one, width and height of the logo | print the logo, a line, a key, what remains; drop the cache | the screen; the rounds; terminal queries |
| Image logos | `logo/image/image.c`, `logo/logo.c` | the position that was found, the size in cells | print by a protocol, ask where it ended, measure a cell, give way to another type | the screen; terminal queries; the image cache |
| Interactive configuration | `common/impl/genconfig.c` | list of modules, cursor, view, question | one per key; resize | the bytes of the keyboard; the file |
| Arguments and configuration | `fastfetch.c`, `options/`, `common/impl/option.c`, `commandoption.c`, `modules/` | the arguments, the options, the loaded configuration | read a command, load a config, read an option, generate, write, parse | the interactive configuration, which comes between generating and writing |
| Format strings | `common/impl/format.c` | position, argument counter, open conditionals | one per piece of a format | every module that is printed |
| the rest | detections, printers, containers, logos, D-Bus, Lua, other platforms | none that a later step sees, or foreign | | see "What is not modelled" |

What is hard in them, and what makes them correct:

- *Result cache*: inits request each other, possibly themselves; one entry that
  the sweep misses is stale for the rest of a `--watch` run. Correct: at most one
  build per entry and round, answers of the current round only, a partial value
  never leaves its own init.
- *Passes*: nothing but the order of the modules ties the two passes together,
  and conditions, disabled modules and errors change what each pass visits.
  Correct: each result is printed by the module it was prepared for, nothing
  outlives its round, the terminal is restored.
- *HTTP request*: a thread and the main thread share a struct without a lock; any
  of five calls may fail in either; descriptor numbers are reused. Correct: own
  socket only, nothing left, no access by both at a time.
- *HTTP response and chunked coding*: segments of any size, cuts, timeouts, wrong
  lengths. Correct: only what is whole is accepted, segments make no difference,
  what is framed ends without the server closing.
- *Child processes*: several children on full pipes, orphans that keep a pipe
  open, a timeout that races the end. Correct: a good result is whole, each child
  is reaped once, all are read in the end.
- *Sampled rates*: one baseline for all modules of a type and all rounds, while
  what is counted changes; CPU usage is retried against its own. Correct: a rate
  is of one thing over the time it had, and compares with what was read for it.
- *Image logo cache*: a run may be interrupted between any two writes, the image
  may be edited at any time, and several renderings share a directory. Correct:
  what is shown is whole and what was asked for, and nothing is made twice.
- *Terminal queries*: a reply comes in parts, late, or never, and what the user
  types comes through the same tty, which has lost its echo meanwhile. Correct:
  an answer is of the question that was asked, the tty is restored on every way
  out.
- *Logo lines*: half of what moves the cursor waits in the buffer of stdio while
  the other half is written past it; under `--watch` nothing is cached but two
  numbers. Correct: neither the logo nor a key is drawn over the other, and the
  shell's prompt comes below both.
- *Image logos*: where an image ends is known by its size, by the size of a cell, or
  by asking, each of which may be wrong or missing; one that fails has already
  decided where the next type is put. Correct: as for lines.
- *Interactive configuration*: keys are read as bytes that may be cut or run
  together, the layout is that of the last frame, the terminal is resized.
  Correct: the cursor is on an item that is seen, no key loses a module, no file
  is overwritten without the question.
- *Arguments and configuration*: positions tie the two readings together, and
  some 400 options are written, read and initialised by code that is apart.
  Correct: an option has the value it was given, what is shown is written, and
  what is written is read as it was.
- *Format strings*: what is skipped is scanned by other code than what is
  printed. Correct: both agree on where a conditional ends; a value has as many
  bytes as asked.

## The modules

| module | what it is |
|---|---|
| `ResultCache` | `FFcache.c` and the sweep of `run()` |
| `OncePerRound` | what `FFcache.h` promises, abstractly: the specification that `ResultCache` implements |
| `Passes` | the two passes, the command queue, the pending requests, the loop, the terminal |
| `NetRequest` | the life of a request, from the prepare pass to the reset |
| `HttpResponse` | the receive loop and the verdict |
| `Chunked` | the chunked parser, decoder and header |
| `ProcessOutput` | spawning, reading and reaping children |
| `AnsweredOnce` | what `processing.h` promises, abstractly: the specification that `ProcessOutput` implements |
| `Sampling` | the shared baselines of `netio`, `diskio`, `top` and `cpuusage` |
| `ImageCache` | the files of an image logo |
| `TerminalQuery` | questions to the terminal, and its replies |
| `LogoScreen` | the screen of a terminal, and the lines of a logo on it; extends `TerminalQuery` |
| `LogoImages` | images of every protocol, and what is printed when one fails; extends `LogoScreen` |
| `LogoLines` | the logo and the keys on the screen, over the rounds; extends `LogoImages` |
| `Arguments` | the command line, read twice, and the configs that it loads |
| `GenConfig` | the user interface of `--gen-config` |
| `Options`, `ModuleOptions` | the options: initial values, how they are generated, how they are parsed |
| `ConfigFile` | a run with `--gen-config`, from its arguments to what the next run reads; extends the four above |
| `FormatString` | the format parser, its conditionals, cutting and padding |
| `MC...` | the constants TLC gets, one module per model |
| `RoundsProofs` | the theorems of `ResultCache` and of `Sampling`: what is kept from one round to the next |
| `ProcessOutputProofs` | the theorems of `ProcessOutput` |
| `PassesProofs` | the theorems of `Passes`, and of `FormatString`, which the modules print with |
| `NetworkingProofs` | the theorems of `NetRequest`, `HttpResponse` and `Chunked` |
| `TerminalProofs` | the theorems of `LogoLines` on the questions to the terminal (`TerminalQuery`, which it extends) |
| `LogoProofs` | the theorems of `LogoLines` on the screen, and those of `ImageCache`; extends `TerminalProofs` |
| `ConfigFileProofs` | the theorems of `ConfigFile` (with `GenConfig` and `Arguments`, which it extends) |
| `NumberInduction` | induction over numbers, and functions that are defined by recursion over a range: the lemmas that the proofs of loops cite |

Most modules are composed by abstraction. A request is a single step *receive* in
`NetRequest`, whose inside is `HttpResponse`; there a body of chunks is known by
the unit that completes it, whose inside is `Chunked`; in `Passes` a request is a
status, whose inside is `NetRequest`; a command of the queue of `Passes` is a
job of `AnsweredOnce`, which `ProcessOutput` implements. Two are composed by
extension, as their parts share state: `LogoImages` and `LogoLines` ask the
terminal by the steps of `TerminalQuery`, with the logo and the modules as the
caller; and
`ConfigFile` hands the state of `Arguments` to `GenConfig`, and that to the
generators and parsers of `Options` and `ModuleOptions`.

### How they correspond to the code

`PROJECT.json` maps each definition to its lines. In general a handler is an
action; where other actors may interleave (a thread, a child, the network, a
signal, another write) it is divided at exactly those points.

- **ResultCache.** `entries` is the linked list, `initialized` the marks,
  `storage` what a value is made of: nothing, a partial or a whole value, and the
  round it was built in. An init is a frame of `stack` with the entries it may
  still ask for. `ffCacheGet` and `ffCacheBeginInit` are `Hit`, `ffCacheBeginInit`
  and `FinishInit`; `ffCacheInvalidateAll` is stepwise, so that a wrong order of
  its steps would show.
- **Passes.** A module is its type, its condition, whether it runs in parallel,
  and whether its options end the program when parsed. A result is the number of
  the module it was started for, and the round. `exit()` goes to "exited" and
  leaves the terminal as it is; `exitSignalHandler` restores it.
- **NetRequest.** `at` and `who` are where the main thread is; `tpc` where the
  thread of a request is; both may be in `connectAndSend`. `opened` is the table
  of descriptors, which `Others` also uses. `addrs` and `commands` count what is
  allocated, so that a double free is -1 and a leak is 1. `onWire` says what the
  kernel did with the request: took it, or refused it in a way that the code takes
  for success (`networking_linux.c:111`).
- **HttpResponse.** Lengths are in units. What a response says is given with it;
  the model has the growth of the buffer by powers of two, the unsigned
  arithmetic of the remaining length (modulo `Width`), the cast that truncates the
  announced one (`Counted`), `MSG_WAITALL` once a length is known, and the order of
  the tests.
- **Chunked.** Characters are kept, because the parser looks at characters:
  three digits, `x`, CR and LF. The memory that is decoded is moved as the code
  moves it. Of the header only the kind of each line is kept. The parser's
  loops are functions of the place they are at (`Chunks`, `Lines`), the decoder's
  is one of the number of its rounds (`Rounds`).
- **ProcessOutput.** A child follows a script (how much it writes, whether it
  closes its output, ignores SIGTERM, leaves an orphan, how it ends); a pipe
  holds `Capacity` units, and a reader takes what is there. `ignored` is whether
  fastfetch was started with SIGCHLD ignored: `waitpid()` has no status to give then.
- **Sampling.** A counter is known by the name, the incarnation of what it
  counts, and the time it was read; a rate by the two counters that it compares
  and the time it divides by. Errors of reading are nondeterministic, and so is
  whether the counters of the CPU stand still, which is what `cpuusage` retries
  for.
- **ImageCache.** A file holds a version of the image and the frame it is of, or
  is torn. `Truncate` and `Fill` are the two halves of `ffWriteFileData`; a run
  may be interrupted before, between and after. `made` and `astray` are no variables of
  the code: the first is what the cache has to have, for `MissesJustified`; the
  second the payloads that what is recorded beside them is not true of, so that
  `ShownRight` can name its exceptions.
- **TerminalQuery.** A reply is a sequence of tokens: what it begins with, digits
  of a number, the separator, the end. `wire` is what the terminal has sent,
  `queue` what the tty has and nobody has read; the parts are whatever a `read()`
  finds there. Numbers have one digit or two (`Base`), so that a part may end
  within one. `Numbers` is `sscanf()`, which is content with less. A key is a token
  that no number has, or one of `NumberKeys`: digits, or an arrow key with its
  modifiers. `numbers` remembers that one of those was typed.
- **LogoScreen, LogoLines.** The screen is a matrix of cells, each blank, of a line
  of the logo, of what the shell had written, or of a key, with the round it was drawn in. What the code prints by stdio
  goes through `buffered` (cursor moves that are not flushed yet), what it writes
  by `write(2)` goes to the screen. Attributes and colours are left out; a key
  has one of two widths.
- **LogoImages.** An image is drawn cell by cell where the cursor is; that it has the
  size that was given is up to the terminal. `PrintSent` is what `image-raw`, iTerm
  and kitty direct have in common, `ImagePlaced` their rest after the terminal has
  told where the image ended. Sixel and kitty are one type, "pixels": their size is
  counted in cells (`CharacterSizes`), whose size is asked (`Measure`), and a wrong
  answer or an entry of the cache that was counted in another font gives another one
  (`mistaken`). `ImageFails` is every way out without an image: `next` has the types
  that are tried then, and "auto" may have been replaced by then.
- **Arguments.** `argv` is the vector that is cleared in place, `arg` the index of
  the loop; `reading` says which of the two loops runs. `genConfig` is that
  `genConfigPath` is not empty, which is what the program goes by. `NotAnOption` and
  `SkipHandled` are the branches before an option is looked at. `world` is what
  the program cannot choose: whether there is a terminal, and the configs there
  are. An option is known by the kind of its value.
- **GenConfig.** A frame is drawn, then a key is read: `screen` is what the frame
  showed, so that a key is judged by what the user saw. Bytes wait in `typed`;
  `readKey` takes up to `ReadSize` of them and uses the first key. A module is its
  name, and its width decides the columns.
- **Options, ModuleOptions.** An option is a member of a record; `Init...` has its
  value at first, `Generate...` the JSON that a full config gets, and `Parse...`
  the set of records that reading a key may give (none: the program exits). The
  options of a module are fields of a kind (`Flag`, `Count`, `OneOf`, ...), each
  kind with the writer and the reader of the code.
- **FormatString.** A format is read byte by byte, because what it means
  depends on the bytes; each step is a piece: a literal, a placeholder, the
  begin or the end of a conditional. `ConditionalEnd` is the scanner of what a conditional
  leaves out. An escape is any control sequence of the bytes that the code tests
  for, which are constants. A character has a first byte and those of
  `ContinuationBytes`; the ellipsis has three. The reference for `BlocksRight` is a parser of blocks
  that knows nothing of the code's two counters; the one for `WidthRight` finds
  the escapes by where they end, not by skipping from the first.

## The runs

Each run takes from a few seconds to about three minutes (`terminal`). Unless said otherwise the
bounds are the values in the `.cfg`, and the sets in the `MC` module.

| run | what it shows | distinct states |
|---|---|---|
| `cache` | four entries, re-entrant in pairs, three rounds: `FreshAnswers`, `RegistryOK`, `PartialStaysInside`, `NoRecursion`, and that it implements `OncePerRound` (`KeepsPromise`) | 61 thousand |
| `passes_sound` | all lists of up to three of eleven kinds of modules, once, as JSON or in three rounds: `ResultsArePaired`, `Drained`, `OnceOnly`, `ConsoleRestored` | 210 thousand |
| `request` | two requests, one with TCP Fast Open, three descriptors, any number of rounds: `OwnSocket`, `NothingLeft`, `Exclusive`, `SentBeforeReceived`, `CallsEnd` | 21 thousand |
| `http_single` | responses of up to nine units, or far too many, with at most one framing and any announced length, to a buffer of five to eight: `AcceptsOnlyWhole`, `AcceptsWellformed`, `Bounded` (the buffer and the socket), `Ends` | 52 thousand |
| `chunked` | bodies of up to six pieces and all encodings of up to two chunks, in all divisions: `SegmentsDontMatter`, `EncodedAccepted`, `DecodedRight` (the body and the header) | 176 thousand |
| `process` | two children of any script, pipes of one unit, SIGCHLD ignored or not: `OkIsComplete`, `Reaped`, `AllRead`, and that it implements `AnsweredOnce` (`KeepsPromise`) | 519 thousand |
| `sampling` | one or two modules, two rounds, three names, two changes: `RatesRight`, `ComparesRight` | 10 million |
| `image` | four runs, two edits, interrupts, two protocols and two frames at once: `ShownRight`, `MissesJustified` | 5.2 million |
| `terminal` | logos and images of every type and position, two rounds with and without `--watch`, images that fail or are measured wrongly, replies in any parts, one key typed (Ctrl+Up or one without numbers), a signal: `Restored`, `AnswersRight`, `KeysBesideLogo`, `EndsBelow` | 3.2 million |
| `config` | command lines of up to four arguments in four worlds; three keys on a list of up to 45 modules; every value of every option: `ArgumentsRight`, `CursorSeen`, `ModulesKept`, `NoSilentOverwrite`, `LoadsBack` | 346 thousand |
| `format` | formats of up to four pieces, and of five that open and close conditionals; values with colours and with characters of two bytes: `BlocksRight`, `WidthRight` | 417 thousand |
| `process_timeout` | violation, see Findings | |

Each property of a passing run has a mutant: a definition of the model changed as
a plausible bug would (marked "mutant:" in the module), under which the run finds
the property violated. The modules with a `TypeOK` use it in the proofs, where
`TypeCorrect` or the invariant states it.

### Why the bounds are enough

- `cache`: a stale value needs an entry that is linked, built and missed, and a
  second round that asks; three rounds let a value also survive one sweep and be
  found by the next. Two entries that request each other and a third and fourth
  outside that cycle are what nesting can tell apart. The theorems have no bound.
- `passes_sound`: a result that is taken by the wrong module needs two modules, and
  one between them that is skipped by one pass only: three. The second round
  meets what the first left, the third what was prepared in a later round. The
  theorems have no bound.
- `request`: two requests are needed for one to use the other's descriptor, and
  three descriptors for one to be closed, taken and closed again. The rounds are
  not bounded.
- `http_single`: a buffer of five units is grown once, or twice, before the cap of
  eight; lengths lie below, at, and one beyond each of these, and one (30) beyond
  what any response holds; three are at and beyond `Width`, so that the cast makes
  of them none, a short one, and one that is too large. Segments may end at any unit. The theorems have no
  bound on the segments, the lengths or the buffer.
- `chunked`: the parser keeps no state between lines but the position, so that
  two chunks and a trailer are the transitions there are; six pieces make
  everything malformed that has a first error of that depth. One of the chunks has
  a leading zero and an extension. The theorems on segments, on decoding and on
  what is encoded have no bound.
- `process`: with one unit per pipe the second child is blocked while the first is
  read; a third would be blocked just so. The theorems have no bound.
- `sampling`: the baseline is shared by two modules of a round or by two rounds;
  three names let one go before, between or after two that stay.
- `image`: one run fills, an edit or another request intervenes, one run shows;
  with an interrupt and a second edit these are four runs. Frames are told apart
  as first, other and animated. Any two protocols share what is recorded in the
  same way; all three are run together without interrupts. The theorems have no
  bound.
- `terminal`: the screen has 13 rows of 9 columns, and a logo with its keys fits
  (`FitsAssumption`); longer output would scroll, wider output wrap. Some options
  are without padding on the right (`Unpadded`), where images behave differently. Numbers of base 4 are of one or two digits up to
  the last column. One key is typed: any, or Ctrl+Up, which is scanned as row 1,
  column 2 (there is no digit 5 in that base). A logo is at most a few lines, above or below the number of
  keys. The second round is the first without the cache of lines, and every later
  one is like it.
- `config`: a terminal of 13 rows holds less than the list of 42 modules, one of
  24 by 80 holds all; three keys are enough to move into another column, change
  the list there and act on it, or to ask, answer and save. Reads are of four
  bytes where the code has sixteen: fewer and more than one arrow key. Options are
  set one at a time, as no writer looks at another's option but `logo`, whose
  values are set together. Command lines: all of one or two arguments in all
  worlds, of three and four from fewer arguments of each kind; four are enough for
  a command with its value and an option with its own, in either order.
- `format`: four pieces are a block within a block or two in a row; five are one
  that is left open within another. A value with two characters of two bytes is cut
  beside them, within one, and not at all. Integers are bounded by `IntMax`, so that
  clamping happens.

`CHECK_DEADLOCK FALSE` is given where the program ends, or a bound (`MaxRuns`,
`MaxChanges`, `MaxRound`, `MaxRounds`, `Rounds`, `MaxKeys`) does; `cache` is checked for
deadlock.

### Fairness

- `HttpResponse`: weak fairness of the client's steps (a `recv()` that may return
  does, and its timeout strikes), and of delivery by the network. The server need
  not close the connection, and `ResetByPeer` is never required. `Ends` claims nothing
  of a server that neither frames its response nor closes.
- `NetRequest`: weak fairness of what was begun for a request: `getaddrinfo()`,
  `connect()` and `send()` return, at the latest with an error when the kernel
  gives up. Calls of `ffPrepare` and `ffDetect` are not fair: nobody has to ask.
- `ProcessOutput`: weak fairness of the parent, and of each child as long as it
  writes, ends or was asked to end. A child may close its output when it likes,
  or never. What a child may do for ever ("hang") is in its script.
- The others state no liveness: their steps are calls that return, questions to
  the terminal have a timeout in the model as in the code, the user need not
  press a key, and with `--watch` the program does not end.

## What is proved

TLAPS checks these for all values of the constants, with no bound on rounds,
entries, modules, requests, descriptors, children, segments, files, replies or
keys. What is assumed of the constants is the `ASSUME`s of the modules, which TLC
evaluates: mostly that numbers are numbers. Some say more, each what the code
gives. `SizeAssumption` (`HttpResponse`): the buffer's sizes are powers of two and
the arithmetic is wide enough for eight times the cap; of the lengths that are
announced it says nothing. `KeysAssumption` (`TerminalQuery`): keys send tokens. `OrderAssumption` (`LogoImages`): types of
logos are tried in the order of `ffLogoPrint` (`logo.c:650-744`), an image that
the terminal decodes before one that fastfetch decodes, and lines at last.
`FitsAssumption` (`LogoImages`): each logo, with what may be printed instead of it, its
padding and the keys, fits on the screen, which therefore never scrolls, and fits
across it with a key beside it; an image is a rectangle of at least one row, no
wider than the width that was given, and one that the terminal is told to draw in
so many rows has them. `LogoAssumption` (`LogoScreen`): widths and counts are numbers.
`GenConfigAssumption`: there are modules, none of which is in the default order
twice, and each name has a length. `ArgumentsAssumption`: a number has a value,
which of an empty argument is not negative (`strtoul`), no option is also a
command or empty, and stdin is a file. `StartsAssumption` (`ConfigFile`): the
arguments are texts, and every file has a name. `EncodingsAssumption` (`Chunked`) is
the grammar of RFC 9112: the digits of a chunk give the length of its data, its
extension has no line end, and no line of a trailer section is empty.

The prover has no induction over data, and its library's theorems on induction
take operators, which the backends cannot be given. `NumberInduction` states
induction for *sets* of numbers instead (`Upward`, `Downward`, from the
well-foundedness of `<`), and from it that functions exist whose values follow
from the one before (`FromTheFront`) or from one that comes later
(`FromTheEnd`). With these a loop that is written as a recursive function can be
reasoned about like any invariant.

**RoundsProofs**, results. `TypeCorrect`, `AnswersAreFresh`, `PartialIsPrivate`,
`RegistrySound`, `InitsDoNotRecur`, `NothingOverwritten` (which no run checks: it
is part of `OncePerRound`), and `Implements`: the cache implements
`OncePerRound`. The inductive invariant `IInv` adds to these that what the sweep
has passed is not marked (`SweepBehind`), that a mark is the same as a value
(`MarkedIsStored`), that outside a sweep a marked value is of this round
(`MarkedIsCurrent`), and that a value is partial exactly while its init runs
(`PartialIsBuilding`). Freshness needs all of them: the sweep starts with an empty
stack and visits the list, which holds all marked entries (`RegistryOK`), so that
nothing is marked when it ends. From the entries' requests only that they are
entries is assumed.

**PassesProofs.** `TypeCorrect` holds without a condition. `PairedTheorem`,
`DrainedTheorem`, `OnceOnlyTheorem` and `RestoredTheorem` are for configurations
that are `Sound`: no module is refused in the print pass only (a conditional
`command` that runs in parallel, or a conditional module without a type). The
core is `QueueIsPending`: the queue holds exactly the commands whose preparation
was reached and whose printing was not, in the order of the modules. As both
passes go in this order the head of the queue is the module that asks. What can
be prepared in the first round can be in each (`PreparedBefore`), which is why an
error of the prepare pass shows before the terminal is touched.

**PassesProofs**, formats. `WidthIsRight`: a value that its colours enclose, and
that a placeholder cuts or pads, has the bytes that were asked for, two more with
an ellipsis; and the characters, if each of the value has one byte. The scanner
skips escapes from the left, `Escapes` collects those that end at a place, from
the right; `EscapeLength` depends on what follows only up to its final byte, so
that both find the same ones (`EscapesOf`). A value is then a lead of escapes, a
body without any, and a trail of escapes; `Fit` makes of the body blanks, a part
of it, or it with blanks or an ellipsis beside, which hold no escape, as none of
these ends one. So the hidden bytes of what is printed are those of the lead
and the trail, and the visible ones are counted by `Fit`; if each of the value is a
character of its own, the characters are counted with them, of which the ellipsis is
one. The inductive invariant
`FormatInv` adds that the scanner stays within the format, for which the place
that `ConditionalEnd` returns has to be found (`ConditionalEndIs`, by induction
from the end of the format). What it assumes of the constants is that formats and
values are bytes, and values no longer than an `int32_t` counts
(`FormatAssumption`), that the classes of bytes that the code tells apart are
disjoint and no escape ends in a blank or a byte of the ellipsis
(`EscapeAssumption`), and which bytes of the ellipsis continue a character
(`CharacterAssumption`).

`BlocksAreRight`: what is printed is the format read as blocks, each in the other,
unless conditionals of the two kinds cross. It is a simulation. `Reading` is where
a reader is at the end that knows the blocks around it and writes when all of them
hold; `After[k]` is where it is after k pieces. The invariant `Follows` says that
the reader has met a crossing, or has ended with the text that was printed, or is in
step with the printer (`InStep`): at the same place, with the same text, and in
blocks that all hold and of which the two counters of the code count those of their
kind (`OpenAre`). A piece that is printed keeps them in step. A block that does not
hold is passed over by the printer at once, by the reader piece by piece: while
the scanner is at a place with a depth, the reader is there in blocks of which the
skipped one is below as many of its kind (`Beyond`, `ReadsPast`), so by induction
from the end of the format they come out together (`Skips`). A crossing is never
forgotten and a text that is complete never changed (`AfterKeeps`), so that `Reading`
says what the reader had said. That `set` of an argument is a Boolean is assumed too.

**NetworkingProofs**, requests. `OwnSocketTheorem`, `NothingLeftTheorem`,
`ExclusiveTheorem` and `SentTheorem`, for kernels and libraries in which a failed
`pthread_create()` leaves the handle as it was (`FailedHandles = {FALSE}`; see
below). The invariant relates the counters of the heap to the pointers, the
table of descriptors to the sockets, the handle to the thread, and each step to
what it has yet to release. A request that TCP Fast Open was used for may be received
although nothing of it was sent (`refused`); `SentTheorem` says that no other is.

**NetworkingProofs**, responses. `BoundedTheorem`, `OnlyWholeTheorem` and
`WellformedTheorem`, for responses of any length, also those with both framings,
which the run leaves out. The length that is announced may be any, too: the code
keeps it modulo `Width` (`Counted`), and what the invariant says of it, it says of
that. Only where the two differ (`Truncated`) nothing is promised of the verdict; the
buffer stays within its bounds all the same. The invariant: what is received is a beginning of the
response, the header's facts are read once it is there (`HeaderRead`), a response
without a framing that was read is not taken for complete (`NotFramedYet`), and a
verdict is of what is whole (`JudgedWhenWhole`). `Bounded` needs that the
remaining length fits the buffer (`WantFits`): it is unsigned, and never wraps
unless the response has two framings; and that doubling stays below the cap,
which rests on lemmas about rounding up to a power of two.

**NetworkingProofs**, chunks. `VerdictOfTheWhole` (`SegmentsDontMatter`): what is
said of a part of a body that has arrived, once it is anything but "more", is
what is said of all of it. A part agrees with the whole up to its end; the end of
a line, a size, the trailer (`LinesAgree`) and the chunks (`ChunksAgree`) that are
found in it are found in the whole, by induction from the end of the part.
`InPlaceIsRight` (`DecodedRight`): the decoder, which moves each chunk over the size
lines in front of it, gives the data of the chunks. The invariant of its loop
(`Moved`): what lies in front of `outLen`, and the data of the chunks from `pos` on,
are together the data of the body; what lies from `pos` on is as it was received,
and `outLen` stays behind `pos`, so that nothing is overwritten that is still to
be read. `EncodedIsAccepted` (`EncodedAccepted`): any list of chunks of any length,
with any extensions and any trailer section, is complete at its end and not
before, and gives the data that were encoded. What is joined lies where its parts
do (`LiesJoined`, `PartsLie`); so the parser finds each size line, its data and the
CRLF behind them (`ChunkRead`), whatever the data look like, and behind the last
chunk the first empty line (`TrailerRead`, from the end). By induction over the
chunks the whole is complete with the data that were given (`EncodedRead`); a part
is not complete, because its verdict would be that of the whole, which is
consumed only beyond the part (`WithinArrived`).

**ProcessOutputProofs.** `TypeCorrect`, `OkIsCompleteTheorem`, `ReapedTheorem`
and `Implements`: the children and pipes implement `AnsweredOnce`, whose `blind`
jobs are those of a fastfetch that ignores SIGCHLD: an answer is then good however the
process ended, but still whole, and of a process that has ended. The invariant
says what a child that has ended leaves, that an end of file means that the child
has closed its output after all it had to write (`ClosedOK`), and in which of the
parent's steps a child is handled (`ParentOK`).

**RoundsProofs**, baselines. `ComparesWithItsOwn`, for programs whose modules of one type
ask for the same if they are `netio`'s or `cpuusage`'s (`Alike`; `top` looks
itself). The invariant: a baseline is what was read for the module that took it
(`TakenFor`), at one moment that is no later than now, and a wait has passed
since (`Slow`). `RatesAreRight` (`RatesRight`), with no assumption on the modules, has
an invariant of its own: until a name has changed, all that `netio`, `diskio` and
`top` compare with was read at `baseTime` (`OfOneMoment`). `cpuusage` compares cores by
their place, and only the length of the lists is checked. Until the second change, those
of the baseline are those there are, or one more, or one less (`CoresKnown`); and of two sets,
one within the other, the lists have different lengths or are the same
(`ListingsAlike`, by induction over the names).

**TerminalProofs**, the end. `RestoredTheorem`: the terminal gets its attributes back on
every way out, but for a signal between two steps of the first question, and what
the tty had received by then is discarded. What is still on the wire then is read by
the shell; the theorem does not say otherwise. The invariant is of two parts: without line mode a handler is registered except
between these steps (`Modes`), and no question is open while anything but a
question is done (`Answered`), so that these steps are the only exception.

**TerminalProofs**, answers. `AnswersAreRight` (`AnswersRight`): an answer that is taken
is that of the reply to the very request, or, if the exchange was troubled by a
timeout or a key, that of another reply of the same kind, the last number of which may be
short of a digit, until a key is typed that sends what numbers are made of
(`numbers`); for every base, any numbers, and replies that arrive in any
parts, late or never. The invariant `HeardInv` is about the `Stream`: what was
read for this question, what can be read, and what is on its way, one behind the
other. Wherever the head of a reply is in it, a reply of the terminal follows,
complete but for where a key breaks it off (`Genuine`); that stays so whatever is
read, discarded or typed. A scan that finds two numbers therefore finds those of
a reply, of this kind because it begins with the head of this kind
(`ScanRight`). The question where the cursor is has no head that only it has: its
scan skips to the first digit, whatever that belongs to (`logo.c:259`). So it
needs more: the terminal has replied to nothing before it (`First`), which is where
`OrderAssumption` is needed, and the first digit in the stream begins the reply
to it (`Answering`). Without trouble there is nothing in the stream but the
reply to this question (`Untroubled`). What `sscanf()` reads of a reply is proved
from its digits (`TwoNumbers`, `WholeReply`).

**LogoProofs**, images. `ShownIsRight` (`ShownRight`) and `OnlyJustifiedMisses`
(`MissesJustified`), for any requests, any number of runs and edits, and
interrupts anywhere. The inductive invariant `CacheInv` says where a run is with
what it writes (`Progress`: each file once, the mtime last, which rests on
`WriteOrder`), that the payloads beside a valid mtime are of its version
(`VersionsRight`) and beside a valid frame of that frame (`FramesRight`), with
what was led astray excepted, and that what was made is still there
(`MadeThere`). While files are written the mtime is not yet valid, or it is that
of an earlier rendering of the same version: the second is why payloads of
interrupted runs go astray.

**LogoProofs**, the screen. `NothingIsBelow` (`EndsBelow`): for any logo, image or
frame that fits on the screen, any position, any widths, any number of keys and
rounds, and whatever the terminal answers, what is written next is below the logo
and the keys, and a round leaves nothing there. The inductive invariant `EndsInv`
says by where `run()` is where the cursor is: when a logo is printed, below the line of
the shell or, of one that turns, about to move to the top (`AtLogo`); when the
terminal is asked where an image ends, in its last row (`AtCursor`), so that an
answer that is the truth is that row; while keys are printed, so many rows below
where they began as there are keys, with room for what remains of the logo, whose
end `logoHeight` is (`Printing`, `Standing`); between rounds, that another round fits
from the top on (`AtSleep`). That an answer is the truth or excused is
`HeardInv`'s. Moves of the cursor are cut at the edges of the screen; that none of
those downwards ever is, is what `FitsAssumption` gives, through the height of each
type of logo (`Height`, `ImageSized`, `PixelsDrawn`). All of this is about rows,
and of the cells it needs only that `ClearBelow` leaves blank ones behind.

`LogoAndKeysStand` (`KeysBesideLogo`) is about every cell: at the end of a round and
of the program, but for the named cases, the logo is there as a whole, the keys of
the round stand one below the other beside or below it, and nothing was written
over either or over part of the shell's line. To `EndsInv` the invariant adds
`CellsInv`. While keys are printed (`KeysCells`), they begin at `logoWidth`, where
each still fits (`KeysStart`), which is behind every line of the logo, or the logo
begins behind the longest key (`Aside`), or ends above (`Above`); those of
this round are where they were written, with nothing behind them (`KeysOn`); the
logo is there, or as many lines of the cache as were printed (`LogoOn`,
`CachedOn`); the shell's line is whole or gone (`ShellOn`); and what stdio still
holds is a move that does no harm or iTerm's space, which goes behind the image
(`Place`, `Spaced`). Each type of logo is shown to leave this behind, and each key, with the
line of the cache beside it, to keep it.

**ConfigFileProofs.** `NeverSilently`: a file that was there when the program
started is replaced only when the question was on the screen, and without a
terminal, where nobody can be asked, it is not replaced at all; for any keys,
sizes of the terminal and command lines. The invariant: what was found at the
start is still known (`KnownToExist`, `FoundNone`), a key is handled in the mode
that the frame shows (`FrameIsCurrent`), and nothing is written while arguments
are read.
`CursorIsSeen` (`CursorSeen`): whatever the list, the size of the terminal and the
scrolling, the item that the next key acts on is on the screen, and no item is
there twice. `ModulesStay` (`ModulesKept`): the keys move modules and add and
delete what is special, but every module stays in the list, once. Both follow
from `ListInv`: the list is `Arranged` (all modules, each once) wherever there is
one, and a key is read only when the frame that was drawn fits the list
(`Shown`). That a frame does is arithmetic of the grid (`LayoutHolds`,
`DrawShows`, `OneColumnOnly`).

**ConfigFileProofs**, arguments. `ArgumentsAreRight` (`ArgumentsRight`): command
lines of any length, of any options and commands in any order, in any world of
configs: the program goes on just when the line is acceptable, and then with the
config, the options, the interval and the document that reading the line once
means. A config is generated, and none is loaded by default, just when the last
`--gen-config` has a path (`GeneratesIs`). The proof has three parts. The *pairs* (`IsLine` to `NextPair`): at an
argument that begins a pair, as many pairs are complete as have begun
(`Begun`), they are the first of `Pairs`, and the argument begins the next
(`PairHere`); an argument that begins none is the value of the one before
(`ValueFollows`). The *steps* (`CommandStep`, `LoadConfigStep`, `OptionStep`):
if `FFdata` is what the first m pairs say, then after the next pair it is what
m + 1 pairs say, or the program ends and nothing is acceptable. And the
*invariant*: `ReadingCommands` says that the first reading stands where a pair
begins and has cleared the commands before, with their values;
`ReadingOptions`, that the second stands where a pair begins or at what is left
of a command, and that all commands are cleared. It takes all of it that an
option before a cleared command (`BehindOption`) is the only way in which the
readings differ.

Only model-checked:

- all liveness (`Ends`, `CallsEnd`, `AllRead`), which is beyond this prover;
- `LoadsBack`, which is about tables of options, where the proof would be the
  table, and about lists that `SelectSeq` picks from, an operator of which this
  prover knows nothing (`Listing` of `Sampling` is a recursive function for that
  reason).

## Findings

Shown by a run that TLC finds violated:

- `process_timeout` (`processing_linux.c:209`): `processingTimeout` is that of the
  output only; a child that closes its output and works on is waited for without
  a timeout.

Seen while modelling. A property that would be violated names the case, or the
run leaves it out, so that the properties say what holds in all others.

*Passes and requests*

- A conditional `command` that runs in parallel is refused only when it is printed
  (`jsonconfig.c:369`): the pass ends, what was prepared for the modules after it
  stays in the queue, and under `--watch` later commands are paired with the
  wrong process; a pending request makes the next prepare pass exit with "can
  only be used once". The proofs' `Sound` is this exclusion.
- Of two `weather` (or `publicip`) modules of which one is conditional, the first
  that is printed takes the request, whichever prepared it. `ResultsArePaired`
  excepts this case.
- `--json` ends without `ffFinish` (`fastfetch.c:845`); `ConsoleRestored` is not
  about it.
- A response with both `Content-Length` and chunked coding, which `networking.h:55`
  says is framed by its chunks, is also received by its length: it may be waited
  for beyond its last chunk. `http_single` has one framing at most.
- Unless the framing is the last line of the header, the new `Content-Length` is
  appended to the last line without a line end between them
  (`networking_common.c:162`; `networking.h:60` promises a header that is
  consistent with the body). `DecodedRight` is about headers that end with it.
- A failed `pthread_create()` may leave a value in the handle, as POSIX permits:
  the code takes it for a thread. TLC and the proofs assume that it does not.
- `thread.h:96` tests `HAVE_TIMEDJOIN_NP` while `CMakeLists.txt` defines
  `FF_HAVE_TIMEDJOIN_NP`: the join has no timeout in any build.
- `Content-Length` is cast to `uint32_t` (`networking_linux.c:499`) before it is
  compared with the cap: of 2^32 + k, k is left, and a part of k units is accepted as
  the whole body. `AcceptsOnlyWhole` and `AcceptsWellformed` name it (`Truncated`).
- With TCP Fast Open a `sendto()` that fails with `EAGAIN` or `EWOULDBLOCK` counts as
  success (`networking_linux.c:111`): the command is released unsent, and the response
  to it is waited for until the timeout. `SentBeforeReceived` names it.
- Where SIGCHLD is ignored, as fastfetch may inherit it, `waitpid()` fails with
  `ECHILD`, and a child that crashed, or could not be executed, is answered for as one
  that ended well (`processing_linux.c:208`, `:219`). `OkIsComplete` and `AnsweredOnce`
  name it.
- A `read()` that fails leaves the child unreaped (`processing_linux.c:221`):
  `Reaped` and `AnsweredOnce` except it.

*Sampled rates*

- Two `netio` or `diskio` modules with a different `namePrefix` share a baseline that
  was taken for one of them; the comment at `netio.c:19` says that the baseline
  always matches. `top` refuses the same for `showTypes`. The run's modules of
  `netio` ask for the same interfaces.
- An interface that takes another's place leaves part of the new counters next to
  the old time, and one that comes or goes makes `netio` fail in all later rounds
  of `--watch`, as the baseline is kept. `RatesRight` holds until a name changed.
- `cpuusage` compares cores by index and looks at their number only
  (`cpuusage.c:48`); when that changes it fails in every later round.

*Image logo cache*

- The mtime is "written last" only for the first rendering of a directory. A
  second protocol that is interrupted while its payload is written leaves a torn
  file under an mtime that is valid (`image.c:1794`). `ShownRight` names it.
- `image.c:477` documents that a change of both protocol and frame may pair the
  payload of one with the frame of the other. `ShownRight` names it.
- For an image of one frame, `image.c:1414` says that a still selector reads what
  an animation wrote; the frame that was recorded then is the animation's, so it
  does not, and is rendered again (`image.c:1588`).

*Terminal and logo*

- `io_unix.c:215` says that a reply may come in several chunks. One that is split
  within its last number is accepted with a part of that number, one whose first
  part is only the prefix is an error, and one that is late is read as that of
  the next question. `AnswersRight` names the first and the last.
- Ctrl+Up, hit while the terminal is asked where the cursor is, sends `ESC[1;5A`, and
  `%*[^0-9]%hu;%huR` takes that for row 1, column 5, as `sscanf()` need not find the
  `R` to have two numbers (`logo.c:259`, `image.c:81`, `:324`, `:403`). `AnswersRight`
  is about what is read before such a key.
- A reply that is on its way when the program ends is not discarded with what the
  tty has received (`io_unix.c:148`): the shell reads it.
- A signal between `tcsetattr()` and `atexit()` leaves the terminal without echo
  (`io_unix.c:197`); a set-up that fails half way is not tried again.
- Under `--watch`, a still logo at the top is overwritten from the second round on
  (`fastfetch.c:825`); stale keys stay beside a logo that is taller than they are
  when a round has fewer (`fastfetch.c:822` says otherwise); the file of a turning
  logo that vanishes, or an image whose end the terminal did not tell, makes the
  width 0 and the next keys are drawn over it. `KeysBesideLogo` names these.
- An image of known size at the right leaves the logo's height 0 (`logo.c:298`,
  `image.c:601`), so that what is printed after the keys may begin beside it.
- After a sixel or kitty image at the top nothing is printed (`image.c:595`), where
  other images get a line feed for each row of padding: the cursor is "on the last
  row of the image rather than past it" (`image.c:1641`), and so is the first key.
- Of a sixel or kitty image of one row without padding above it, the height is 0, and
  `\e[0A` goes up by one: the keys begin on the line above, over what the shell wrote.
- The columns and rows of an image are kept as if they "describe the source, not one
  particular rendering of it" (`image.c:560`), but they are counted in cells: after
  the font has changed, the cached ones are wrong, and the keys may begin within the
  image. `KeysBesideLogo` names these three.
- An image at the top whose size is not given is followed by as many line feeds as
  there is padding on the right, and by nothing that ends its last row
  (`logo.c:276`, `image.c:98`, `:339`, `:420`), where one of known size has a line
  feed of its own (`logo.c:289`). Without padding the first key is written in the
  last row of the image. `KeysBesideLogo` names this too (`InLastRow`).
- With nothing to the left, `\e[0D` still moves the cursor by one.

*Arguments and configuration*

- An option without a value before a command takes the cleared argument for its
  value: it is empty, a number is 0, and there is no usage error
  (`fastfetch.c:708`). `ArgumentsRight` names it (`Fused`).
- `fastfetch.c:777` has an exception for the values of `--separator-string`, which
  is no option any more; a separator that begins with "-" cannot be given.
- `--gen-config ""` generates nothing: the program goes by the length of the path
  (`fastfetch.c:737`, `:929`), so it loads the default config and prints, without a
  terminal as a document of type "config". `ArgumentsRight` says so (`Generates`).
- `-w` in seconds is multiplied by 1000 in 32 bits. With `--gen-config` outside a
  terminal, `-w` is refused with a message about `--json`, and `-j` with
  "duplicated".
- Whether the file exists is looked up before the first frame (`genconfig.c:1064`):
  one that appears later is overwritten without the question. A write that took
  only a part of the data counts as success (`io_unix.c:54`).
- A SIGWINCH between the test of `gWindowResized` and `poll()` (`genconfig.c:725-733`)
  does not end the poll: one key may act on a frame of the old size. In the model
  the frame is always drawn first.
- In the user interface: a small logo at the left is saved as `"logo": "small"`,
  which the next run takes for a source (`genconfig.c:563`); a module of
  `--structure-disabled` that is ticked is left out (`commandoption.c:322`); an
  arrow key that is read in parts acts as `B` or `D`; an escape key alone quits; a
  standard input that ends is read in a busy loop; other types of logo become
  "auto".
- Of a full config: `ndigits` of the command line are not checked, and such a value
  is refused or changed by the next run (`options/display.c:736`); `colors` lacks
  a symbol (`colors.c:274`) and its format; of the disabled package managers the
  first is written (`packages.c:386`); an empty key or icon, `green` and `yellow`
  of a temperature that is off, the paddings of no logo, `spin` of another type,
  `preload.lua` and `debugMode` are lost; `pipe` is frozen; `top` writes its type
  twice. `LoadsBack` names those that are in the model (`Unreadable`,
  `SmallAsSource`, `LostKey`, `Nameable`).

*Format strings*

- Conditionals of the two kinds that cross each other: the end of one that was
  skipped is printed literally. `BlocksRight` is about those that nest.
- A placeholder with invalid numbers prints the escapes of its value before it is
  printed as it stands (`format.c:592`); an invalid `{}` uses up an argument, one
  that is skipped does not; a value that `:` cuts with an ellipsis is one wider than
  asked; colours within a value, or at its end only, count as characters.
  `WidthRight` is about values that are enclosed by their colours.
- Widths are counted in bytes (`format.c:653-681`): a value with characters of several
  bytes is narrower than asked for, and may be cut within one of them; an ellipsis
  takes one byte of the width and has three. `WidthRight` promises bytes of any value,
  and characters only if each has one byte.

## What is not modelled, and why

The mapped definitions stand for some 10 200 lines of some 120 000. Most of the
rest is detection code and its printers: one-shot calls of a platform's
interface and parsing of what it returns, for Linux and for seven other
platforms, tables of hardware and of logos, and generated headers of protocols.
None of it keeps a state that a later step sees, and a model of it would be a
model of the library that is called. What of the detections does have a state is
in `ResultCache`, `Passes`, `NetRequest`, `ProcessOutput`, `Sampling` and
`ImageCache`.

- *Detections and printers*: see above. Their options are in `ModuleOptions`.
- *Strings and lists, versions, percentages*: pure functions with unit tests
  (`tests/strbuf.c`, `tests/list.c`, `tests/parsing.c`, `tests/percent.c`); what of
  the growth of a buffer matters is in `HttpResponse`.
- *Libraries, D-Bus, display servers, Lua, image libraries*: the behaviour that
  matters is the library's.
- *Windows, macOS, BSD, Haiku*: other files of the same shape, not in this build.
- *The text of a logo*: which one is found (`logo.c:327-650`), how an image is decoded and encoded, its colours, and
  output that is longer than the terminal and scrolls.
- *Two fastfetch at a time* on one image cache: they write without a lock; what
  the other reads between two writes is what an interrupt there leaves.
- *Failed or short writes* of the image cache, and an mtime that is set back.
- *A clock that moves in less than a millisecond* (`top.c:149`), and counters that
  start over in `netio.c:72`: the models' counters have no values.
- *Of the command line*: aliases of options, and the texts of `--help` and
  `--list-...`; *of a configuration*: conditions and errors in one that somebody
  wrote by hand; *of formats*: colours on a terminal, and how a value that is no
  text becomes one.

## The plan

Done, in this order: the result cache and its abstract specification; the
passes, which are the program's spine; the request, the response and the chunks
that the passes wait for; the children and what they promise; the baselines; the
image cache; the terminal, the logo and its images; the configuration, from the arguments to
what is read again; the format strings. What could follow:

1. An abstract *Latch* ("pending at most once, received or given up once") that
   `NetRequest` and the status of `Passes` both implement.
2. A screen that scrolls, for logos taller than the terminal.
