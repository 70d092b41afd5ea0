# Verification of cruby-on-sel4

The repository runs CRuby as one single-threaded CAmkES component on seL4. Its C
files replace what CRuby expects of an operating system: memory, descriptors, a
console with timeouts, a read-only file system, and stubs for the rest. This
directory holds TLA+ models of those replacements, the TLC configurations that
check them on small instances, and TLAPS proofs for all instances.

Paths below are relative to `src/apps/ruby/components/Ruby/src/`; `poll.c` is
`stub/ruby_syscall_poll.c`, `tty.c` is `stub/ruby_syscall_tty.c` and `fs.c` is
`ruby_syscall_fs.c`.

## Inventory

| Component | State | Operations | Interacts with | What is hard | What makes it correct |
|---|---|---|---|---|---|
| Allocator, `ruby_alloc.c` | arena offset, block headers, free list | malloc, free, calloc, realloc, posix_memalign, aligned_alloc, mmap, munmap, mremap | every other part allocates from it; mmap reads CPIO descriptors | long sequences of legal and stray calls, trims of mappings, size arithmetic modulo 2^64, reuse of dirty memory | blocks disjoint, free list exact, owners exclusive, contents as promised |
| Console input, `poll.c` 315-420, 587-735 | a ring shared with SerialServer, one notification shared with TimeServer, locals of poll and readv | poll, ppoll, readv of stdin | SerialServer, TimeServer (other components, other address spaces) | two other writers at any moment, merged badges, timer against input, signals only after consumption | no lost wakeup, order kept, timeouts end and recheck |
| Fake descriptors, `poll.c` 63-313, 422-585 | 4 eventfds, 2 epolls with 8 watches each | eventfd, epoll_create, epoll_ctl, epoll_wait, read, readv, write, close, fcntl | CRuby's communication pipe; poll asks an eventfd's counter | holes in tables, numbers used again, partial readv | tables behave as counters and interests |
| CPIO file system, `ruby_syscall_fs.c` | descriptor table of libsel4muslcsys, the archive (constant) | open, openat, stat, fstat | malloc for descriptor state, mmap | path rules, partial failure of open | open and stat agree on what exists; no half-made descriptor is served |
| Console size, `stub/ruby_syscall_tty.c` | rows, cols, "known" flag, termios | ioctl, tcgetattr, tcsetattr, isatty | poll and read of the console | a late, partial or interleaved answer of the terminal | size is the answered one or the default; one query only; the cursor comes back |
| Entry point, `ruby.c` | a script buffer | read_script, run | file system, malloc | short reads, errors midway | the whole script or nothing, no leak |
| Pthread stubs, `stub/ruby_pthread.c` | 16 key values, next key | keys; the rest answers constants | CRuby | keys are not recycled | values belong to their key |
| Clock, random, process stubs, libc start-up | a counter, a 64-bit state, nothing, nothing | readings | CRuby | nothing | monotone clock |
| shell.rb, build files, ruby.camkes | none in this code | | | | |

## Modules

| Module | Stands for | Runs | Proofs |
|---|---|---|---|
| `RubyAlloc` | the allocator | `RubyAlloc.cfg`, `RubyAllocTrims.cfg`, `RubyAllocHeadTrim.cfg`, `RubyAllocHuge.cfg` through `MCRubyAlloc` | all safety properties, in `RubyAllocProofs` |
| `HeapContract` | what callers of the allocator rely on | refined by `RubyAlloc` (`KeepsContract`) | proved, in `RubyAllocContractProofs` |
| `ConsoleWait` | poll and readv of the console with SerialServer and TimeServer | `ConsoleWait.cfg`, `ConsoleEarly.cfg` | all safety properties and `FinitePollReturns`, in `ConsoleWaitProofs` |
| `CharDevice` | a character device | refined by `ConsoleWait` (`IsCharDevice`) | safety half proved |
| `FakeFds` | eventfd, epoll and the calls on them | `FakeFds.cfg`, `FakeFdsStale.cfg` | all properties, in `FakeFdsProofs` |
| `EventSpace` | counters and interests, without tables | refined by `FakeFds` (`IsEventSpace`) | proved, in `FakeFdsSpaceProofs` |
| `ConsoleSize` | `tty.c`: the size query with a terminal and a user, the attributes | `ConsoleSize.cfg`, `ConsoleSizeKey.cfg` through `MCConsoleSize` | all safety properties, in `ConsoleSizeProofs` |
| `CpioFs` | `fs.c`: paths, open, stat, fstat | part of `ScriptLoader` | with `ScriptLoader` |
| `ScriptLoader` | `ruby.c`: read_script and run, composed with `CpioFs` and with Ruby's own calls on files | `ScriptLoader.cfg`, `ScriptLoaderRoot.cfg` through `MCScriptLoader` | all safety properties, in `ScriptLoaderProofs` |
| `FileTable` | open files with a name and a position | refined by `ScriptLoader` (`IsFileTable`) | proved |
| `FoldLemmas` | nothing of the code: what the proofs need to know of folds | | proved |

### RubyAlloc

`heap.offset` is `ruby_alloc_offset`, `heap.header` maps the address of every
header ever written to its size, capacity and `is_free`, and `heap.free_list` is
the chain of `next_free`. A header is recognised by its address: in the code by
`ALLOC_MAGIC`, which is written once and never erased. That a caller's data
happens to contain the magic right below an address it then frees is left out.
`bytes` is the memory, reduced to which bytes are not zero. `live` is history:
the ranges that callers own. Arithmetic on addresses and sizes is modulo
`WordSize`, so the overflow checks of the code mean what they mean there.

One action is one call, because the component has one thread. `FreeHeap` also
stands for `realloc(p, 0)`. `FreeStray` is a free of anything that is not owned,
a second free included. `UnmapTail` and `UnmapHead` are the collector's trims,
which reach `munmap` with part of a mapping. The bytes of a file that `mmap` copies
are told from zeros and not from each other, so a copy from a wrong offset within
the file would go unseen; how many there are is seen. `mremap` always fails and has no
action. A failed call that changes nothing is not always an action of its own
(a step that changes nothing is allowed by the specification anyway).

### ConsoleWait

One action is what the Ruby thread does between two places where another
component can matter: a look at the ring, the load of a character, the move of
`head`, a request to TimeServer, a wait. `SerialPublish` is SerialServer, from
the rule that `poll.c` 335-343 states: a signal is sent only if the client has
moved `head` since the last one. `TimerFires` is TimeServer. Both are outside
`src` and marked external in the map; they are modelled as
- one step for the store of a character with the decision to signal. If the
  server read `head` before it stored `tail` and was interrupted in between, a
  wakeup could be lost; the repository's text does not say in which order it
  works, so this is an assumption about SerialServer;
- a stop of a timer that is atomic, and that does not take back a signal already
  sent, which is what a notification object means.

`seL4_Wait` returns every pending badge at once. Characters are numbered in the
order of their arrival, so order and loss are visible. Descriptors other than
stdin count as ready or not for a whole poll (`others`): only this thread
changes them. A poll that does not watch stdin returns at once, a negative
timeout or not, although `poll.c` 614-615 says "Negative waits forever": its
caller has to go round. No run is about this guard of line 664. The one failure
inside a wait is a timer request that is refused (`PollArmFails`).

### FakeFds

A table is a function on the descriptors its entries stand for (base + index).
`watched` is history: what an epoll was told to watch since the descriptor was
made. `EventSpace`'s close leaves the interests in its descriptor as the code does,
which `descriptors_stale` shows to differ from what the comments say. Of the flags only `EFD_SEMAPHORE` changes what a call does and only it is
kept. A descriptor that is not open is passed to a system call outside `src`,
which changes nothing here. `readv` folds `read` over its buffers as the code
does, `epoll_wait` reports the first `maxevents` entries in table order.

### ConsoleSize

One action is what the Ruby thread does in `measure_console` between two places
where the terminal or the user can matter: the query, each poll, each read, the
restore with the parse behind it. poll and read are those of `ConsoleWait`,
reduced to what that module shows of them: a poll finds a character or ends
without one, and a read hands over the oldest. `coming` is what travels to
stdin; which part of it has arrived is not recorded, so `PollTimesOut` is
possible at any poll, which covers late and broken replies and a badge left by
an earlier timer (`ConsoleEarly.cfg`). The terminal (`screen`, `cursor`,
`saved`) and the user are outside `src`. The terminal obeys the three sequences
the code sends, in order, at any later time, or is `Deaf`; between the calls
nothing else moves its cursor. Each character carries its sender, which the
code cannot see and the properties need. `parse_step` is the loop body of
`parse_cursor_report`, with its arithmetic modulo `IntModulus` (2^32 in the
code, `ShortModulus` is 2^16), folded over the characters behind the first
introducer; `ParsesReport` states the grammar without the loop, and like the code
asks for nothing behind the first introducer: after a cursor key typed ahead the
report is missed. The terminal is assumed to send its report in one piece, so
that keys come before or behind it and never inside. `isatty`, `TIOCSWINSZ` and
the refusals change nothing and have no action; a `read` that returns nothing or
fails cannot happen on stdin, and what the code would do then is what
`PollTimesOut` does.

### CpioFs and ScriptLoader

A path is a sequence of one-character strings, because `normalize_path` and
`is_archive_directory` are about characters. The archive is a function from the
names of its entries to their sizes; byte i of a file is represented by i.
`PathAssumption` is what `make-archive.sh` makes of the names: no component of one
is empty or a dot. The
descriptor table with its free list, `read` and `close` are libsel4muslcsys',
which is outside `src`: `free_fds` counts how often a descriptor is on the free
list, a read hands over at least one byte or fails, and a close clears the entry
or leaves it (`left`), since `fs.c` relies on neither. `fstat` of a descriptor
that Ruby has closed and the library left is not called. Of memory only the
promise of `HeapContract` is used: malloc gives a block nobody has, or none, at
any time. `open` normalises its path twice, as the code does, which shows: of
`.//x`, `open` finds the file and `stat` does not. No statement of the repository
is about such paths, and `PathsResolve` asks for completeness only of paths
without empty or dot components. Null arguments are refused with EFAULT and left
out; sizes of newc entries fit the 32 bits they are cast to.

`ScriptLoader` has one action per call in `read_script`, a read being one turn of
its loop, so that every call can fail; `Boot`, `RubyCalls` and `ScriptEnds` are
`run`, in which Ruby opens, reads and closes files of its own before the loader
and while the script runs. `ruby_fds` is history: the descriptors Ruby holds.

## Runs

| Run | What it shows |
|---|---|
| `allocator` | types, `BlocksDisjoint`, `FreeListExact`, `LiveExclusive`, `AllocatesWhenItFits` and the refinement `KeepsContract`, for callers that unmap whole mappings or their tails |
| `allocator_trims` | what head trims damage is only the rest of the mappings they trim (`TrimHarmsOnlyTheRest`): every other range keeps a block of its own, while trimmed blocks are given out again and rests are unmapped |
| `allocator_head_trim` | a head trim frees the whole mapping: the comment at `ruby_alloc.c` 411-412 does not hold of it |
| `allocator_huge` | a size within a header of 2^64 is granted: the header comment at 16-17 does not hold |
| `console` | order, wakeups, expiry and liveness of polls and reads; a poll with a timeout never waits without a timer (`TimedWaitEnds`); each step of a call leaves it fewer (`CallsAreShort`); `IsCharDevice` with its fairness |
| `console_early` | a badge left by a stopped timer ends the next poll early: `poll.c` 614-615 does not hold |
| `descriptors` | tables sound, readv takes what it hands over, watched eventfds are reported, and the refinement `IsEventSpace` |
| `descriptors_stale` | a watch outlives its eventfd and reports the next one with its number |
| `console_size` | the size becomes the answer or stays the default, whatever is typed around the reply and whenever it comes; one measurement; cursor and attributes kept; the parser against the grammar of a report behind the first introducer; a measurement ends, each step bringing it nearer (`MeasureIsShort`) |
| `console_size_key` | shift-F3 pressed while a terminal does not answer becomes its size: `tty.c` 30 does not hold |
| `files` | the loader runs the whole script or nothing and ends, each step bringing it nearer (`LoadIsShort`); one owner for every descriptor and block; fstat and mmap serve what is open, and of the closed descriptors only those whose entry the library's close left; open and stat agree with the tree of the archive; the refinement `IsFileTable` |
| `files_root` | `stat(".")` fails: `fs.c` 126 does not hold |

The six failing runs each check one sentence of a comment. The first two
are out of reach of the callers of `allocator`, which keeps sizes below the header
margin and does not trim heads. `console` and `descriptors` do reach the states
of the next two, and claim nothing about how long a poll waits or whose watch
an entry is. `console_size` and `files` reach those of the last two:
`NoThirdSize` is about measurements during which nobody typed, and
`PathsResolve` asks nothing of the path `.`.

### Bounds, and why they are enough

- Allocator: an arena of 16 bytes at address 8 in a 6-bit address space, headers
  of 2 bytes, pages of 4. Three to five blocks fit, so the free list can have
  several entries, blocks of different alignments, and holes; the sizes 0, 1, 5
  and 61 give the rounding of 0, two size classes, and one that overflows both
  the page rounding and the product in calloc; the file of 3 bytes is shorter
  than a page and the offsets -1, 0, 1, 4 are before, at, inside and past its end.
  The arena is never coalesced, so what matters is the order of blocks, not
  their number.
- Console: a ring of 3 (two characters fit) wraps twice with 6 characters, and
  is full, empty and in between at each wait; buffers of 1 and 2 characters end
  a read by capacity and by an empty ring. `MaxTyped` bounds the characters.
- Descriptors: 2 eventfds with 2-bit counters and one epoll of 2 watches. Every
  table can be full, have a hole before a used entry, and be used again; a
  counter wraps within two writes. Two buffers are enough for a readv whose
  second buffer fails.
- Console size: screens of 3 by 5 and 11 by 20, of which the second is wider than
  the far corner (12) and so clamped by it; a buffer of 10, which a report of one
  or two digits in each field fits, but not with a longer key before it, so the
  exchange also ends by a full buffer; 5-bit and 4-bit words for the 32 and 16
  bits, which a pasted 48 wraps in both, as 65536 does in 16 and 2^32 in 32. Two
  keys (`MaxKeys`) out of a, Escape, R, cursor up, shift-F3 and the paste come
  before and behind the reply; a third would only lengthen the buffer.
- Files: two descriptors and three blocks, so the descriptors run out with the
  loader and Ruby holding one each, and the buffer is the third block. The script
  of 2 bytes is read in one or two turns, with an error or an early end between
  them; the archive has a file in a directory and a file whose name begins like a
  directory. The paths cover the roots, prefixes that are directories and that
  are not, doubled slashes, dots, and a file taken for a directory.

### Fairness

`ConsoleWait!Spec` assumes weak fairness of the Ruby thread inside a call (the
kernel runs a runnable thread) and of `TimerFires` (a running timer of TimeServer
fires). Nothing is assumed of the user at the keyboard nor of Ruby making calls;
so the system may stop with a thread waiting for input, and the runs on it do
not check for deadlock. `ConsoleSize!Spec` assumes weak fairness of the thread
inside `measure_console`, polls that time out included (`FinitePollReturns` of
`ConsoleWait`), and nothing of the terminal or the user. `ScriptLoader!Spec`
assumes that the thread runs while it is in `read_script`; the boot and the
script may stop, and the system does when `run` has returned. The allocator and
the descriptors have no liveness: each call is one step.

## Proofs

Each proof module extends its component and assumes only the named assumptions
on its constants.

- `HeapSound` (`RubyAllocProofs`): for every arena, alignment and word size,
  `BlocksDisjoint` and `FreeListExact`. Its extra assumption is `SizesFit`: no
  request is within a header of the largest word, which is the case that
  `allocator_huge` shows to fail. Inductive invariant `HeapOK`: the two
  properties with the types of the heap. Each of `reuse`, `carve` and `free`
  keeps it (lemmas `ReuseOK`, `CarveOK`, `FreeOK`), `realloc` in place keeps it
  (`InPlaceOK`), and `HeapStep` shows that every action changes the heap by
  these. It holds with head trims too.
- `MemoryOwned`: with `SizesFit` and without head trims, `TypeOK` and
  `LiveExclusive`. The invariant `OwnershipInv` adds to `HeapOK` that every owned
  range starts at the payload of a block of its own that is not free, and ends
  inside it (`Backed`). From it and the disjoint blocks, an address inside an
  owned range is no block's payload, so a tail trim changes nothing
  (`TailIsForeign`).
- `TrimsHarmOnlyTheRest`: with `SizesFit` alone, `TypeOK` and
  `TrimHarmsOnlyTheRest`. `TrimInv` says that the owned ranges are of two sorts
  (`SplitOK`): those backed as above, and rests of mappings, each inside the
  payload of one block and not at its start. A rest stays one because no block
  ever moves, shrinks or goes away (`Extents`), and an address in it is no block's
  payload (`RestIsForeign`), so unmapping it or trimming it again changes nothing.
  A head trim moves one range from the first sort to the second, with the block
  it frees; stray frees are of pointers at which no range starts.
- `ConsoleSound` (`ConsoleWaitProofs`): for every ring size, `TypeOK`,
  `NoLostWakeup`, `LoadsOnlyWhatArrived` and `InOrder`. They are not inductive
  alone. `ConsoleInv` adds `NextIsAnnounced` (the head that the server last
  remembered lies behind the current head by no more than the free part of the
  ring, so the two are never equal when the ring is empty and the next character
  is announced), `DrainsAfterOne` and `RingHoldsTheRest` (the slots from head to
  tail hold exactly the characters not yet delivered, in order).
- `ConsoleImplementsDevice`: every step is a step of `CharDevice` or leaves it
  alone, from the same invariant.
- `OneEntryEach` and `ReportsWhatIsWatched` (`FakeFdsProofs`): for every number
  of descriptors and watches, `WatchesUnique` and `WatchedIsReported`, from
  `DescriptorAssumption`. The invariant adds `Backed`: what an epoll was told to
  watch is open at both ends and has an entry. The least free entry exists
  because the numbers are well-founded (`LeastOf`), and setting one entry keeps
  the others (`EntrySet`), holes in the table or not.
- `ScriptLoaderProofs`: for every archive, table, amount of memory and script,
  `TypeOK`, `NothingLeaks`, `ServedIsOpen`, `RunsWholeScript` and the refinement
  `IsFileTable` (which has no fairness). The invariant has a part for the files
  (each open descriptor has a block of its own that holds the state of its file,
  and is not on the free list), a part for where the loader is and what it holds
  there, and `ReadInv`: while it reads, the buffer holds the first `used` bytes
  of the file, `used` is the file's position, and the buffer has one byte more
  than the file. The last is what makes an early end impossible: a read that
  returns nothing with bytes asked for is at the end of the file.
  `TreeOfTheArchive` adds `PathsResolve`, which every step keeps because each
  answer is right when it is given. It needs what `PathAssumption` says of the
  names in the archive (a name with an empty component would never be found by
  its canonical path). `Split` is taken character by character: a slash ends a
  component (`SplitConcat`), no two paths split alike (`SplitInjective`), and a
  path whose components are the first ones of a name is where the name begins
  (`HeadsUnder`). `normalize_path` keeps the components (`NormalizeMeans`), and
  has nothing to drop from a canonical path but one slash (`CanonicalIs`).
- `AllocationComplete` (`RubyAllocProofs`): `arena_alloc` grants a request exactly
  when a free block or the rest of the arena has an aligned place for it. The
  first fit is the least index with a fitting block, and rounding an address up
  gives the least aligned one, so no other place would do.
- `ImplementsContract` (`RubyAllocContractProofs`): `KeepsContract`, under the two
  conditions of `MemoryOwned`. `ContractInv` adds to `OwnershipInv` that a block's
  header has at least the size of the range owned in it (`Sized`), which is what
  `realloc` copies by.
- `ExpiryLooksAgain` (`ConsoleWaitProofs`): `ExpiryRechecks`, from `TimerInv`: a
  timer that has fired is not armed, and nothing waits or arms again after it.
- `TimerWakesThePoll` (`ConsoleWaitProofs`): `TimedWaitEnds`, from `WaitInv`: a
  poll with a timeout waits only when it has armed its own timer, and the timer of
  a poll that has armed runs or has left its badge. The invariant also bounds what
  a read has taken by what it asked for, which the next theorem needs.
- `NoCallTurnsForEver` (`ConsoleWaitProofs`): `CallsAreShort`, for every ring and
  buffer. `StepsLeft` counts the steps that the call can still take, with the
  wakeups that bring it nothing (`IdleWakeups`, at most two: a badge with nothing
  behind it, and a running timer that is not this call's). Every step of the thread makes it smaller, and
  neither the server nor a timer makes it larger: a poll takes at most 12 steps,
  a read of n characters at most 3n + 7. What could break it is a wakeup that
  finds nothing and leaves its cause in place.
- `TimedPollsEnd` (`ConsoleWaitProofs`): `FinitePollReturns`, the liveness
  property, for every ring. The hypothesis `GuardsEnable` says when the two fair
  actions are enabled, which no prover here can derive; it is about the form of
  the actions, and TLC finds it true, as an invariant of a module that extends
  `ConsoleWaitProofs`, with `ConsoleWait.cfg`'s constants. `FairSpec` is `Spec`
  with these guards written out. By `NoCallTurnsForEver` a poll has at most 12
  steps left; the thread can take the next one or waits for a timer that runs
  (`TimerWakesThePoll`), and what the others do keeps it so (`OthersWait`). Twelve
  is a number of the code, so the chain is one propositional temporal step.
- `MeasurementIsShort` (`ConsoleSizeProofs`): `MeasureIsShort`. Each poll and each
  read leaves fewer before the buffer is full.
- `LoaderGoesOn` (`ScriptLoaderProofs`): `LoadIsShort`. Each turn of the reading
  loop adds to `used`, which the size of the file bounds, or leaves the loop.
- `TypesKept` and `NothingIsLost` (`FakeFdsProofs`): `TypeOK` and
  `TakesWhatItHands`. `readv` is a fold of `read` over its buffers; the invariant of
  the fold says that the counter and the bytes handed over so far are those of a
  call that has not failed, or that it has failed at a buffer.
- `TablesAreEventSpace` (`FakeFdsSpaceProofs`): `IsEventSpace`, one lemma for each
  call. What `epoll_wait` reports is the first entries in table order, and there
  are as many as the abstract specification wants because no descriptor has two
  (`WatchesUnique`).
- `ConsoleSizeProofs`: `CursorComesBack` and `AttributesKept` from an invariant
  that names the four stages of the exchange (`Exchange`: not asked; query out;
  answered; restore out or taken) and what the attributes are; `MeasuresOnce`
  from the guards of all actions. None depends on what the reply parses to.
  - `ReportsAreFound` (`ParsesReport`): `Sofar` says of each turn of the parser's
    loop that it is in the first number, in the second, done, or lost, and what
    it has read; a numeral longer than the word is read modulo the word at every
    digit as at the end.
  - `OneOfTwoSizes` and `ReplyIsTaken` (`NoThirdSize`, `AnswerIsTaken`), from
    `MeasurementInvariant`. `Stream`: during the measurement, what was read and
    what is on its way are the user's, or hold the reply whole and the user's
    characters around it. `Outcome`: the size is the default until the restore,
    which is reached by a poll that gave up, a full buffer or the letter R; and
    only the last character of a reply is an R. `decimal` is shown to write the
    numeral of its argument, so that the parser reads it back.
  - `TypesKept`: `TypeOK`.

Folds and recursive functions are within reach although the library's induction
theorems are not: `FoldLemmas` has induction for sets instead of predicates (the
set of numbers for which something holds has, or its complement has a least
element), and shows that a fold is what a chain of single steps comes to. The
loops of the code (`parse_cursor_report`, `readv`, the path functions of the
properties) are reasoned about as such chains, with a loop invariant each.

Only model-checked: the liveness properties `InputEndsWait`, `MeasureEnds` and
`LoadEnds`, the fairness half of `IsCharDevice`, and `GuardsEnable`. That each step
brings a read, a measurement and the loader nearer to its end is proved for all
constants; that it therefore ends under fairness needs induction on a bound that
is a constant of the model (the buffer, the file), and a temporal formula can be
put neither into a set nor into the library's induction theorems. Every invariant and
every action property of the passing runs is proved, with these limits: `SizesFit`
for the allocator, and no head trims for `LiveExclusive` and `KeepsContract`, which
are the two cases that `allocator_huge` and `allocator_head_trim` show to fail.

## Not modelled, and why

- Pthread stubs: one thread, and every function but the keys answers a constant.
  The keys are a counter and an array that one thread uses without a call that
  could come between; that a deleted key is not used again is visible in a line.
- Clock stub: a counter, advanced at each reading.
- Random stub: xorshift over 64 bits, sequential; that its state is never zero is a
  fact about 2^64 states.
- Process and libc stubs: constants.
- shell.rb, CRuby, SerialServer, TimeServer, libsel4muslcsys: programs outside
  these files; the last three are modelled as far as the code here uses them.
- Build files and ruby.camkes: configuration.

## Plan

1. `ConsoleSize`: a terminal that sends its report in pieces as an abstract
   specification, of which the measurement is an implementation.
2. `CpioFs` with `fstat` and mmap of descriptors that Ruby has closed, once the
   library's `close` is part of the sources.
3. The keys of the pthread stubs, if a use of them beyond creation appears.
