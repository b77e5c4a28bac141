# TLA+ models of UnixOperatingSystemAndCProgramming

The repository is a collection of C, C++ and CUDA programs: shared data
structures, a peer-to-peer chat, a small TCP server, a copy-on-write memory
library, a threaded letter counter, a GPU Sudoku solver and several small
exercises.  They share no process, so each gets modules of its own.  The ones
whose correctness depends on the order of steps of several threads or processes
come first.  Of the files counted as source, about nine tenths of the lines are a
vendored copy of gtest; the repository's own code is some 4,300 lines.

## 1. Inventory

| component | source | state | operations | who interacts, and what is hard | what makes it correct |
|---|---|---|---|---|---|
| parallel stack | `parallel-data-structures/stack.cc` | `head`, one mutex, nodes on the heap | push, pop, empty, destroy | threads; `stack_empty` reads `head` without the mutex, also for `stack_pop` | linearizable LIFO, no dangling pointer, no leak, pop of an empty stack returns -1 |
| parallel queue | `parallel-data-structures/queue.cc` | `head`, `tail`, one mutex, nodes | put, take, empty, destroy | threads; two pointers that must agree, `queue_empty` reads `tail` without the mutex | linearizable FIFO, `head` and `tail` agree, never used when they dangle |
| parallel dictionary | `parallel-data-structures/dict.cc` | a list and a mutex per first character | set, get, contains, remove, destroy | threads; a node is used after the mutex of its list was given back, a set searches and adds in separate critical sections | one mapping; added keys are found, removed keys are not |
| chat peer | `p2pchat/p2pchat.c` | list of connections, one thread per connection, an accepting thread, the UI thread | add, remove, forward, receive, quit | the list is walked without its mutex, three writes per message, connections that end | every message reaches every other peer of the tree once, whole |
| chat UI | `p2pchat/ui.c` | a recursive mutex, `ui_running`, forms | init, run, display, exit | the callback runs under the mutex and may end the UI | no form is used after `ui_exit` freed it |
| echo server and client | `networking/server.c`, `networking/client.c` | one thread per client, the descriptor of the latest client | accept, read, write, quit | the thread is given the address of a loop variable | every client gets its own words back |
| copy-on-write memory | `virtual-memory/lazycopy.c` | mappings and a tree of chunks | chunk_startup, chunk_alloc, chunk_copy_eager, chunk_copy_lazy, fault handler | a write fault in the middle of an ordinary store | a lazy copy reads and writes like an eager copy |
| letter counter | `lettercount/lettercount.c` | global counts and a mutex, a file split between threads | count_letters, print | threads; the arithmetic of the split | each byte of the file is counted once |
| Sudoku solver | `sudoku/sudoku.cu` | boards on the GPU, one thread per cell | kernel, read, check | threads of a block read cells others write; a barrier per round | no value of a solution is ever eliminated, the kernel stops |
| Sudoku host program | `sudoku/sudoku.cu` | one batch of boards and solutions, four counters | read_board, solve_boards, check_solutions, main | the file's lines and the GPU's calls; lines that do not parse shift the slots, the last batch is incomplete, calls of the GPU fail | each line with a board is counted once, for what it is |
| sequential queue | `queue/queue.c` | `head`, `tail`, nodes | put, take, empty, destroy, the command loop | a client's sequence of calls; `tail` dangles after the last take | FIFO, no freed node is used, no leak |
| unique list | `uniquelist/uniquelist.c` | a linked list whose first node is the caller's | init, insert, print, destroy, main | a client's sequence of calls; fields that the first insert sets | every value once, in order of first appearance |
| archive printer | `print-archive/print-archive.c` | the offset of a member | find, next, print, main | members of odd size are padded | every member is printed once |
| pipe exercise | `exercises/simple_pipe.c` | two processes, two pipes, the ends each holds | main and the child's loop | a reader sees the end only when all copies of the write end are closed | nobody waits for a process that has gone |
| signal exercises | `exercises/send_signals.c`, `wait_sigint.c`, `wait_signals.c` | a pending flag per signal, loop counters | send, wait | signals that coalesce, or kill before they are blocked | enough signals end the receiver |
| n-grams | `ngram/ngram.c` | a window of characters | main | none | not modelled: text processing without a choice |
| socket helpers | `p2pchat/socket.h`, `networking/socket.h` | none | connect, open, accept | the kernel | wrappers; their failures are steps of their callers |
| reversal exercise | `exercises/reverse.c` | | | | not modelled: unfinished, does not compile |
| late assignment | `lateAssign/code-for-concurrency-assignment.c` | a list | peek | | not modelled: a fragment |
| security exercises | `security/` | stack frames and strings | deliberately flawed programs | none | not modelled: exercises about memory layout |
| fault demonstrations | `virtual-memory/segfault-test.c`, `libetsbefriends.c` | a signal handler | print a message at a fault | none | not modelled: no state |
| gtest | `parallel-data-structures/gtest/` | vendored | | | not modelled: third-party |

## 2. Modules

Nothing composes across programs.  Within one, an abstract module says what is
promised and the detailed module is checked to implement it:

| program | promise | detailed module | proofs |
|---|---|---|---|
| `stack.cc` | `AbstractStack` | `ParallelStack` | `ParallelStackProofs` |
| `queue.cc` | `AbstractQueue` | `ParallelQueue` | `ParallelQueueProofs` |
| `dict.cc` | `AbstractDict` | `ParallelDict` | `ParallelDictProofs` |
| `p2pchat.c` | `MessageNetwork` | `ChatNetwork` (processes) | `ChatNetworkProofs` |
| | | `ChatPeer` (threads of one process), `ChatStream` (bytes of one connection) | `ChatPeerProofs`, `ProgramProofs` |
| `ui.c` | | `ChatUI` | `ProgramProofs` |
| `server.c`, `client.c` | | `EchoServer` | `ProgramProofs` |
| `lazycopy.c` | `AbstractChunks` | `LazyCopy` | `LazyCopyProofs` |
| `lettercount.c` | | `LetterCount` | `ProgramProofs` |
| `sudoku.cu` | | `SudokuKernel` (one block), `SudokuHost` (main) | `ProgramProofs` |
| `queue.c` | `AbstractFifo` | `SeqQueue` | `ProgramProofs` |
| `uniquelist.c` | | `UniqueList` | `ProgramProofs` |
| `print-archive.c` | | `PrintArchive` | `ProgramProofs` |
| `simple_pipe.c` | | `SimplePipe` | `ProgramProofs` |
| `send_signals.c`, `wait_sigint.c` | | `Signals` | `ProgramProofs` |

The chat is in four modules because its hazards live at four levels, and each
level would hide the others' in its number of states.  None of them rests on a
property of another one; what each leaves out is left out on these grounds:
`ChatNetwork` reads exactly the part that was written, as `ChatStream` does while
reads are complete (after a short one neither says anything of the program); it
serves every peer on the list, which `ListedWhileServed` says of `ChatPeer`; and
it displays under the mutex, as in `ChatUI`.  That a connection carries whole
messages is not assumed: `ChatNetwork` writes and reads part by part, and
implements `MessageNetwork`, a network of whole messages, only until two threads
mix their parts on a connection or a walk follows a freed node.

`LinkedList` holds the operators on singly linked lists (`Hop`, `Chain`,
`Reachable`) that the stack, both queues and the unique list use to state what
their heap holds; `LinkedListProofs` has the lemmas about them.
Each `MC...` module extends a module of the same name with what TLC needs: the
values of constants that are not plain sets, and symmetry for safety runs.
`MCPrograms` extends the ten programs that have few states.  They share nothing,
so a behaviour picks one of them at the start (`program`), runs that one alone
under its own fairness, and leaves the others' variables as they are.

**`ParallelStack`** is `stack.cc`.  `head` and `lock` are the `my_stack_t`,
`value`, `next` and `alloc` the heap, `pc`, `temp` and `ret` each thread's
program counter, local `temp` and result.  Each action is one thread going from
one access of shared memory to the next, so that `PushLock`, `PushNext`,
`PushHead` are lines 38, 39 and 40-41.  `PopCheck`/`PopEmpty` are the unlocked
test at line 55, `PopFault` is the null dereference at line 61, after which the
process is gone.  Threads call what they like; `balanced` records whether each
has so far popped only what it pushed, as the threads of `stack-tests.cc` do.
`AbstractStack` is a sequence on which each call takes effect at one instant
between its invocation and its return.

**`ParallelQueue`** is `queue.cc` in the same style.  `queue_take` never frees
its node, and neither does the model.  While a thread destroys the queue,
`queue_empty` may still say "not empty" of an empty one, because `tail` is reset
last; `AbstractQueue!Empty` says so.

**`ParallelDict`** is `dict.cc`.  A bucket is the sequence of its nodes and a
critical section is one step, because every access to a list is under its mutex;
what is not under the mutex is a step of its own: between `SetFind` and
`SetWrite`, between `GetFind` and `GetRead`.  The node used there may be stale
(`NodeCurrent`); using it then is undefined and the thread goes no further.
`Bucket` is the first character of each key, one of `CHARS` (256 in the code).
`Writers` says which threads may set a key and `Removable` which keys may be
removed; any thread may read any key and remove any removable one, so that a
found node can be freed before it is used.

**`ChatNetwork`** is `p2pchat.c` seen from outside a process.  A connection is
two streams of messages, each sent in `Parts` writes and read part by part
(`link`, `got`), and holds `Capacity` parts, after which a write waits.
`peers[p]` is `p_list`; `task[p][q]` is the walk of p's thread for q along it: the
message, the node it stands at, the parts written there, the nodes to come.
`shown` is what was displayed.  `Leave` is `:quit` or a crash at any moment, which
may lose what its connections still carry, also in the middle of a message;
`BrokenPipe` is the SIGPIPE of a write to such a connection.  The mutex of `ui.c`
is `UILocked`: nothing is displayed while the UI thread forwards, its waiting
writes included.  Two things have no defined continuation and set `broken`: `Mix`,
a write to a connection on which another thread is amid its message, and `Dangle`,
the removal of a node at which a walk stands.  `Jammed` says that threads wait for
one another in a ring, for room in connections and for the UI's mutex.

**`ChatPeer`** is the same file seen from inside: the list, the threads that walk
it in `forward_message` without its mutex, the three writes of a message, the
descriptors that the kernel hands out again, and the failing `accept` whose -1 is
added like a connection.  A walk that stands on a removed node reads freed
memory: it goes no further, and the properties speak of what happened before.
A write may wait for ever, so no fairness is assumed of it.

**`LazyCopy`** is `lazycopy.c`.  `frame` and `writable` are the mappings,
`data` the memory behind them, `chunkList` the tree.  A store to an unwritable
chunk raises a fault (`Execute`); `Save`, `Map`, `Restore` are lines 77-81, 82
and 83 of the handler and `Retry` is the instruction made again.  `AbstractChunks`
knows no frames: a copy is a copy.  The refinement mapping reads each chunk
through its mapping, except between `Map` and `Restore`, when the chunk holds
what the handler saved.

**`LetterCount`** is `lettercount.c`, from the split of the file in
`count_letters` (with `int` and `size_t` of a small width, `IntRange`) to the
addition of each letter under the mutex, whose read and write are two steps.
The scan of a batch reads only the file and local variables, so it is one step.

**`SudokuKernel`** is the kernel of `sudoku.cu` for one block, with a thread per
cell of `Window`, the other cells being blank.  A blank cell outside strikes
nothing and changes nobody, and each thread makes its reads in the code's order
(`Source`); reads that can have no effect are skipped (`After`).  `Vote` is
`__syncthreads_count`.  Reads race with the other threads' writes of the same
round, so a read may return the current value or the one the round began with.

**`ChatUI`** is `ui.c` with the threads that call it.  `ui_lock` and `ui_depth`
are the recursive mutex, `ui_pc` says where a thread is in `ui_run`, `ui_display`
or `ui_exit`, and `freed` which forms `ui_exit` has freed.  `Key` is `getch`, outside the
mutex; the callback is `in_callback`.  The tests of `ui_running` in `ui_run`'s
loop and the return of main are outside the mutex as well, so a receiver may be
anywhere in `ui_display` when the process ends.

**`ChatStream`** is one direction of a connection as bytes: the three writes of
`forward_message`, what arrives in pieces of any length, and the three reads of
`handle_messages`, which take whatever has arrived for the whole (`short`).  A
length that was only partly read is any of those the array may hold.

**`EchoServer`** is `server.c`, `client.c` and the calls of `socket.h` they make.
`client_socket_fd` is main's one variable, whose address every worker gets;
`ReadArg` is the moment a worker reads it, `sock` says what each descriptor is
connected to now.  `EndRead` is the `exit(2)` of a worker that sees the end of a
stream: it ends the server for all.  `timely` records whether every worker has
read its argument before the next accept.

**`SeqQueue`** is `queue.c` with its command loop, which `AbstractFifo` describes as
a sequence that uses as many nodes as it holds values.  **`UniqueList`** is
`uniquelist.c`; cell 0 is the node of main, whose `next` is not set until the first
insert, and cell k is what the k-th insert allocates.  Its walks are those of
`LinkedList` over these cells.

**`SimplePipe`** is `simple_pipe.c`: `ends` holds which ends of which pipe each
process has open, and an end of a stream is what nobody can write any more.
`Kill` is a signal from outside.  **`Signals`** is `send_signals.c` against
`wait_sigint.c`; `pending` is a set because a pending signal is a flag.

**`SudokuHost`** is main, `read_board`, `solve_boards` and `check_solutions`.  A
board is the number of its line and a slot holds the lines its board and its
solution came from; a line that does not parse may overwrite one, the other, or
both (`Leftovers`).  Each call of the GPU may fail, and all but the
allocations are ignored.  `contents` is what a slot holds then: the board as it
was read, as the kernel leaves it, or any bytes, as when the kernel ran on memory
into which no board was copied (`OnGpu`) or the copy back failed in the middle
(`CopiedBack`).  `Outcomes` says what `check_solutions` may find in each.

**`PrintArchive`** is `print-archive.c`: `Offset` is where the members of the file
begin, `currentSize` where the program believes the next one does.  The latter is
an int that wraps around behind `MaxInt`; sizes that have ten digits or that the
stack has no room for overrun an array (`HasRoom`), after which nothing is said
of the program.

## 3. Runs

| run | what it asks | bounds |
|---|---|---|
| `stack_safety` | any calls: no dangling pointer (`MemorySafe`), no leak (`NoLeak`), linearizable; no fault and no -1 as long as calls are balanced (`BalancedPopsSucceed`); no deadlock | 2 threads, 3 calls each, 3 nodes, 2 values |
| `stack_pop_race` | violation: two pops race for the last node | the same |
| `queue_safety` | any calls: no dangling pointer used (`NeverFaults`), head and tail agree (`TailIsLast`), linearizable, every call returns (`CallsReturn`); no deadlock | 2 threads, 2 calls each, 4 nodes, 2 values |
| `dict_safety` | each key is set by one thread, read by both, and removed by both if it is alone in its bucket: every list is well formed and each node in one place (`WellFormed`), a call that found a node loses it before it used it only to a removal of the same key (`LostOnlyByRemoval`), linearizable against `AbstractDict` up to the use of such a node (which includes that added keys are found and removed ones are not) | 2 threads, 3 calls each, 3 keys in 2 buckets, 2 values, 3 nodes |
| `dict_lost_keys` | violation: removing the first node of a bucket loses the others (`AddedKeysFound`) | 2 calls each |
| `chat_order` | until messages are mixed or a freed node is followed: the processes implement a network of whole messages (`PassesWholeMessages`), messages of one origin are shown once, in order, without a gap (`ShownInOrder`), and were typed, and none comes back to its origin (`ShownWasTyped`); unless threads are jammed as well: everyone shows a message if nobody leaves (`Delivered`), and who leaves is forgotten (`LeaversForgotten`) | 3 processes around one that may leave; it and another one type 2 messages each, of 2 parts for 3; room for 1 part on a connection |
| `chat_sigpipe` | violation: a process is ended by another one's leaving (`OthersSurvive`) | 1 message each |
| `peer_forward` | one node per served connection (`ListedWhileServed`), parts in order (`PartsInOrder`), no walk is over before everyone in the list was sent its message, and each walk whose writes return gets there (`Forwarded`) | 3 connections, 2 descriptors, 2 speakers |
| `peer_framing` | violation: two threads mix their parts on one connection (`WholeMessages`) | 2 connections, 1 message each |
| `sudoku_kernel` | no digit of a solution struck, nothing left to strike, one result for all schedules; every round but the last strikes a digit, and the kernel ends (`Terminates`) | 4 connected cells, 3 digits, at most 2 given |
| `lazy_copy` | lazy copies read like eager ones (`CopiesLikeEager`), shared memory is read-only (`SharedIsReadOnly`), every write that faults is made in the end (`WritesComplete`) | 3 chunks, 4 frames, 2 offsets, 2 values |
| `programs` | ten programs, one at a time, deadlock checked in each: | |
| | letter counter: the parts split the file, no letter is lost or counted twice at any moment and what is printed is right (`EveryByteOnce`); the counts are printed in the end (`CountsPrinted`) | 2 threads, all files of up to 5 bytes over 2 letters and another byte, one of 7 and one of 8, batches of 2, ints of 4 bits |
| | chat UI: no freed form is used (`FormsLive`); `:quit` ends the program (`QuitEnds`) | 2 receivers |
| | chat stream: with complete reads, whole messages in order, wherever the connection breaks (`ShownWhole`) | 2 messages, users of 1 byte, texts of 1 or 2 |
| | echo: with timely workers, each client gets its own lines in order (`OwnLinesBack`) and everyone is answered (`LinesAnswered`) | 2 clients, 2 descriptors, 2 lines each |
| | sequential queue: implements `AbstractFifo` (`IsFifo`) | 3 nodes, 2 values |
| | unique list: each number printed once, the right nodes freed (`EachNumberOnce`) | 5 inputs of 3 numbers |
| | pipe: unless a process is killed every coordinate gets its magnitude, and the child ends when the parent has, however it ended; a parent whose child was killed does wait for ever (`NobodyWaits`) | 3 rounds for 10 |
| | signals: enough signals end the receiver (`EnoughSignalsEnd`) | 2 senders of up to 3 signals, 2 waits for 10 |
| | Sudoku host: the printed counts agree with the file, as far as the GPU's calls did not fail (`CountsRight`) | batches of 2 for 128, 4 lines, room for 3 boards on the GPU |
| | archive: if every member is within the limits, each is printed, once and in order (`MembersPrinted`) | 3 members of 1, 2, 70 or 100 bytes, ints up to 194, room for 99 bytes on the stack |

Types are theorems of their own for the stack, the queue and the programs; elsewhere they are
part of an invariant of the run (`WellFormed`, `ShownWasTyped`,
`ListedWhileServed`, `AllTypesOK`), or of the invariant a theorem rests on.

Why these bounds suffice.  Two threads already give every pair of critical
sections and unlocked reads a chance to interleave, and the code compares threads
with nothing.  In the dictionary each of the two also removes the key the other one has
just found.  Three nodes let a list have a first, a middle and a last node.
Three calls per thread let one thread build a state, another break it and a third
call observe it.  malloc hands out any free address, a freed one included; one
that fails is not modelled, as the code does not test for it.  Three chat
processes around one have a process that forwards what others type while it
types itself, so that its threads meet on a connection; two messages of one
origin can overtake each other, two parts have a place between them for another
thread's, and connections that hold one part fill up, whereupon threads wait for
one another; two descriptors for three connections force reuse and a
failing accept.  Three chunks allow a copy of a copy; each can fault while the
others share, and one spare frame is all a fault needs.  The four Sudoku cells
have a pair in a region, a pair in a column and three in a row, so a digit can
settle one cell after the other, and boards without a solution occur.  Two parts
of three bytes make each thread add twice; 7 is the largest 4-bit int, and at 8
the program faults, as the real one does from 2 GiB on.

In the small programs: two receivers are one that holds the UI's mutex and one
that waits.  Two clients are enough for the second to overwrite the first one's
argument, and two descriptors make the second reuse a closed one.  Three nodes let
a queue be emptied and used again.  Three rounds of the pipe, two
waits and batches of two leave room for a first, a middle and a last one, and
those loops treat all rounds alike.  Four lines fill one batch and leave another
incomplete with a bad line in either; a GPU with room for three boards fails with the
second full batch but not for a last one that is not.  Three members put an odd one before, between
and after even ones; those of 70 bytes take the offset past `MaxInt` before the last member
or at it, those of 100 do not fit the stack.

Fairness is weak fairness of each thread's or process's steps, and of the fault
handler.  It is justified by the scheduler of the kernel or the GPU (all threads
of a block meet at a barrier): a thread that can run eventually does.  Users and
the environment are not fair: nobody has to type, quit, call, connect, leave or
kill.  No mutex is assumed to be fair.  Where critical sections are finite and the
calls bounded (the stack, the queue, the letter counter, `ui.c` with callbacks that
return) a mutex is given back in the end, so no thread that is scheduled waits for one for ever.  The chat
is different: `input_callback` writes to sockets while it holds the UI's mutex, a
write waits while the other side does not read, and the threads of two processes
may wait for one another for ever (`p2pchat.c:222`).  `ChatPeer` therefore assumes
no fairness of writes: `Forwarded` promises the end of a walk on the condition
that its own writes return (`WritesReturn`).  `ChatNetwork` is fair to each thread
of a running process, a write without room is not enabled, and the liveness
properties except the rings of waiting threads (`Jammed`), which the run reaches.
`UIFairSpec` is fair to `ui_run` and to a display that has
begun, not to keys; `EchoFairSpec` to main, to the workers and to a client that
waits for its reply; `PipeFairSpec` to both processes; `SignalFairSpec` to the
receiver and to senders, which stop by themselves.  `SeqQueue`, `UniqueList`,
`SudokuHost`, `PrintArchive` and `ChatStream` have no liveness property.

Deadlock is checked in `stack_safety`, `queue_safety`, `sudoku_kernel`,
`lazy_copy` and `programs`; their modules stutter only in final states, and where
the code itself waits for the outside (a server without clients, a receiver that
was sent too few signals, a parent whose child was killed).  The other systems may
really stop: a chat where nobody types any more, a dictionary whose client has
made its calls, a process gone after a fault.

## 4. What is proved

All theorems hold for every value of the constants, under the named assumptions
of the modules (`...Assumption`), which TLC evaluates in every run.  `Spec => []Inv`
is proved with an inductive invariant that holds initially, that every action
keeps, and that implies `Inv`; what follows says which one, and why `Inv` alone is
not inductive.  Every INVARIANT of the passing runs is proved, and so is every refinement.

**Lists.**  `LinkedListProofs` is about one heap: `ListFrom(c, first, next)` says
that the sequence c is the null-terminated list that begins at `first`, without
repetition.  Then `Chain` and `Reachable` are c and its nodes (`ChainIsList`,
`ReachableIsList`), and taking the first node, putting one in front, putting one
behind and writing elsewhere do to c what one expects (`ListTail`, `ListCons`,
`ListAppend`, `ListFrame`).  `Chain` is defined by a recursive function; that it
computes c for a list of any length is an induction, made here with sets: the
least place at which the claim would fail does not exist (`Least`, `Induction`).
The same device serves for the recursive functions of the other proofs.

**`ParallelStackProofs`.**  `StackTypes` and `StackMemorySafe` rest on `Inv`, which
adds: `Exclusion` (the mutex is held exactly by the thread whose program counter is
between lock and unlock), `Fresh` (what a thread read under the mutex is still so),
`ListShape` (no two nodes of the list share a successor and none precedes `head`;
otherwise unlinking the first node could leave a pointer to it behind).
`StackNeverLeaks` adds `Listed`: some sequence is the list from `head`, and its nodes
are exactly the allocated ones that no thread owns.  `StackLinearizable` reads that
sequence as the abstract stack and shows that each step is a call, a return, the one
step at which a call takes effect (`PushHead`, `PopEmpty`, `PopTake`, `EmptyCheck`,
`DestroyEnd`), or a stutter.  `StackBalanced` counts: as long as `balanced`, and until the final destroy, the
list has as many nodes as there are pops that threads may still make or have begun, less
the pushes they have begun (`Tokens`, `Balance`).  It
assumes that nobody pushes -1, the value by which `stack_pop` says "empty"
(`stack.cc:56`); the values of `stack-tests.cc` are not negative.

**`ParallelQueueProofs`.**  `QueueTypes` and `QueueNeverFaults`: neither `queue_take`
nor `queue_put` uses a null or dangling pointer, although both test nothing but
`tail`.  The invariant says that some set S of allocated nodes is closed under
`next`, entered at `head` and left at `tail` (`List`, `TailInv`), and each step shows
how S changes.  `QueueTailIsLast` and `QueueLinearizable` use that S is the set
of nodes of a list (`Listed`), and follow that list through each step.  The
abstract `Empty` may say "not empty" while a destroy is between its two resets,
as in section 2.

**`ParallelDictProofs`.**  `DictWellFormed`, `DictLostOnlyByRemoval` and
`DictAddedKeysFound` assume `RemovedAlone`: a key that is removed is set by at most one
thread and has its bucket to itself; any thread may remove it and read it.  `DictLinearizable` assumes `OneWriterEach` as well: every key
has at most one writer.  Both are what the threads of `dict-tests.cc` do (each sets
"AS" or "AT", which share a bucket and stay, and removes "S" or "T", which are
alone), and both hold of `dict_safety`'s constants.  They are needed: without the
first, `dict_lost_keys` is the counterexample; without the second, two writers may
add a key twice.  `DictInv` says that a node is in the list of its key's bucket just
when it is allocated, once (`Kept`), that a key which should be in the table has a
node (`Found`), and that a key with one writer has at most one node, none while the writer
is about to add it (`Once`).

**`ChatPeerProofs`.**  `PeersListed`, `PeerPartsInOrder` and `PeerNobodyLeftOut` share `PeerInv`.
The list has as many nodes as threads serve connections, but not the same ones:
a failed `accept` adds descriptor -1, and `remove_peer` strikes the first node with
the thread's descriptor, so that the thread of one failed connection may strike another's
(`Listing`).  A descriptor is open in one connection at most, the one whose node holds it
(`Descriptors`).  A walk stands on a node whose thread has begun, and writes to the
descriptor it read there (`Walks`).  `Sent` remembers what a thread last sent on a
connection: while it writes there, the part before the next one; otherwise the end of a
message, and not of the one it is forwarding if the connection is still ahead of it
in the list.  That last clause is why no part is sent twice: nodes are only
put in front of the list, so a walk meets each connection once.  A
connection's `wire` is judged only if its descriptor served no other one (`Sole`).
`PeerNobodyLeftOut` is `NobodyLeftOut`, the half of `Forwarded` that needs no fairness: a walk
is not over before everyone who was in the list when it began was sent its message.
From its beginning on, each such connection is ahead of the walk, or the walk stands on it and
has sent the parts before the next one, or it has had all three (`Due`, `Pending`).  The list
only grows in front until a connection ends, which is when the promise ends too.

**`ChatNetworkProofs`.**  For any number of processes, messages, parts and crashes and
any capacity.  `NetworkPassesWholeMessages` is the refinement of `MessageNetwork`: a
message is on a connection when its last part is written (`Mail`), and until then its
receiver is still to come (`Duty`), so the other parts, the reads and the walk's
moves are stutters.  `PartInv` says that only the last message on a connection may be
unfinished (`InTurn`), that what was read of the first is a part of it (`ReadSoFar`), and
that an unfinished one is the message of exactly the thread that is amid it there
(`UnderWay`, `SomebodyAt`).  `NetworkShownWasTyped` and `NetworkShownInOrder` follow from
what is proved of `MessageNetwork`.  Both end with `broken`, as the promise does.
That a message does not come back depends on the connections
being a tree, which cannot be recognized link by link.  `Net` therefore says that
*some* function `side` tells, for every connection, which processes lie on either side
of it (`Tree`), and that all a connection carries in one direction comes from its near
side (`Directed`).  The tree grows only by leaves, because a process connects when it
starts, so each `Connect` adds the new process to the sides it belongs to; leaving
removes connections and needs no change of `side`.  `NetworkShownInOrder` adds `Order`:
what a connection carries of one origin continues what its reader has shown
(`InOrder`); what a process is about to write is the latest it showed of that origin and
fits behind what it wrote before (`Passing`); and an origin of which it is about to write
nothing is up to date on the connection (`Ready`).  The two sides of a connection have
nothing in common (`Apart`), so the messages of one origin reach a process through one
connection only, whose one thread shows and forwards each before it reads the next.

**`LazyCopyProofs`.**  `LazyImplementsEager`, the refinement of `AbstractChunks`, and
the invariants it rests on, `SharedMemoryIsReadOnly` and `EveryFaultIsFound`: the
handler never ends the program because it does not find a chunk (`FaultsAreFound`).
The inductive invariant adds `Recorded` (a mapped chunk that cannot be written is
in the tree) and `Handling` (what the handler knows between its steps: the chunk
is still unwritable before line 82, what was saved is what the chunk held, and
the chunk is alone in its frame afterwards).  A successful write changes one
chunk only because no other one shares a writable frame; that is where
`SharedIsReadOnly` is needed, and `Recorded` is what keeps a fault from being fatal.

**`ProgramProofs`** has a section for each program of `MCPrograms` and one for the Sudoku
kernel.

- `EveryLetterCounted` (`EveryByteOnce`), for 1, 2, 4 or 8 threads and every file whose
  size is an int.  `Assigned` says what main has handed out so far; `PartsSplit` shows
  that no intermediate int overflows, and `AssignedSplits` that the parts are disjoint
  and cover the file.  The letters are counted with `Conserved`: for each letter, what is
  in `letter_counts` and what the threads hold in their own counts is what they have read.
  It is inductive because only the thread that holds the mutex adds, its `sum` is still
  the count it read plus its own (`AddsAlone`, `LocalCounts`), and each thread has read its
  part up to its position (`Positions`).  `InHand` and `Seen` are finite sets of pairs and of
  positions, so that a step that moves n letters adds or removes n elements
  (`Adds`); when all threads have ended, everything has been read and nothing is in hand.
- `UIFormsLive`, for any number of receivers.  A thread inside `ui_run`'s or
  `ui_display`'s critical section owns the mutex to the depth its place implies
  (`Exclusion`, `Places`), and `ui_running` is true as long as a form may be used
  (`Running`).  The UI thread frees the forms while it holds the mutex twice, and only its
  own test after the callback keeps it off them.
- `StreamShownWhole`, for any lengths and any number of messages: unless a read was short,
  each displayed message is one that was sent, with its own user, in order.  Every byte of
  the stream has a place: message n begins behind place `start[n]` (`Layout`).  `Taken` is
  how far the reader has got, `Written` how far the writer has, both from their program
  counters, and what has arrived followed by what is in flight are the bytes between the
  two (`Tracking`).  A complete read then takes exactly one field.  Once a read was short
  nothing is known, and the property asks nothing.
- `EchoOwnLinesBack` (`OwnLinesBack`), for any number of clients and descriptors.  As
  long as `timely` holds, the argument of a worker that has not read it is the
  descriptor of its own client (`Argument`), each open descriptor belongs to one
  worker (`OwnDescriptor`) and each client to one (`OneClient`); then every line a
  client waits for is in exactly one place between it and its worker.
- `SudokuSolutionsKept`.  A board is *closed* if no settled digit can be struck
  anywhere; a solution is a closed board of settled cells (`SolutionsClosed`).
  `ClosedKept` says that every closed board below the given one stays below what the
  threads hold and below what they may still read of the round's beginning.  It is
  inductive because a digit a thread finds settled is also settled, in the closed board, in
  that cell (`StrikesForced`), and the cell it reads is one that must differ
  (`SourcesRelated`, the geometry of the three loops).
- `SudokuNothingLeft` and `SudokuResultIsUnique`.  Threads read cells while others
  write them, so a thread may miss a digit that settles in the same round.  `Passes`
  says that then somebody changed something: a thread that has changed nothing has its
  cell as at the beginning, and each digit it has read either cannot be struck or comes
  from a cell that changed in this round (`Checked`).  The kernel ends only after a
  round in which nobody changed anything, so everyone has seen the round's own board.
  That board is closed, and by `ClosedKept` above every other closed board: it is the
  greatest one, whatever the schedule.
- `SudokuRoundsStrike` is `RoundsStrike`, the half of `Terminates` that needs no fairness: the loop is
  repeated only after a round that struck a digit and brought none back.  A thread that counts as
  having changed something has a cell unlike the round's beginning (`Struck`), and no cell
  has a digit it did not begin with.
- `HostCountsRight`, for any number of lines and any batch size.  `Tally` says that
  what was counted and what is still in the batch is what was read; `Aligned`, that a slot in use
  holds a board with its own solution although lines that do not parse overwrite
  one without the other.  When a call of the GPU fails, any verdict is possible on any board of
  its batch: `BatchCounted` bounds by its size what such a batch adds to the error of a
  count, `StaysNear` adds the batches up, and the number of boards stays exact.
- `ArchiveMembersPrinted`, for any number of members and any limits (`MaxInt`, `StackRoom`,
  `TenDigits`) that all of them keep (`Printable`).  The walk stands on the header
  behind the last printed member; where that is, is a recursive equation over the
  sizes rounded up to even, solved by set-based induction (`OffsetsExist`).
- `SequentialQueueIsFifo`, the refinement of `AbstractFifo`.  The allocated nodes are those of the
  list from `head`, and `tail` is its last node as long as there is one; when there is none, `tail`
  dangles and `queue_put` does not look at it.
- `UniqueNumbersPrinted`, for any input that is not empty.  The list from main's node rises
  through the cells, consists of main's cell and the cells of the other first occurrences,
  each holds its number, and the `last` of main's node is its end (`Gathered`).
  It uses a second instance of `LinkedListProofs`, over the cells of this program.
- `PipeRoundsAnswered`, for any number of rounds and however either process is killed
  (`RoundsAnswered`, the safety part of `NobodyWaits`).  `Turns` says where the coordinate of
  the round is: with the parent, in one of the pipes, with the child, or lost with it;
  `EndsHeld` which ends each process has open.  The child finds its input at its end only
  when nobody holds the end it is written to, so only when the parent is over.
- `SignalsCounted`, for any number of senders and signals (`EachWaitedOnce`, the safety part
  of `EnoughSignalsEnd`): the rounds of `wait_sigint` and the signals still pending
  make up those that became pending; it ends after its last round, not before, and at once
  (`EndsAtOnce`, which no run checks).  That `accepted` stays within its type needs the
  signals that are still to be sent (`ToSend`).
- `ProgramTypes` (`AllTypesOK`) and `ProgramsCorrect` put the programs together.  They share
  no variable, and each step of the composition is a step of one and leaves the others
  alone (`ProgramSteps`), so every behaviour of `MCSpec` is one of each program
  (`EachProgram`), and what was proved of each holds in the run.

Only model-checked:

- every liveness property, as the proof system has no rule for fairness: `CallsReturn`,
  `Delivered`, `LeaversForgotten`, `CountsPrinted`, `QuitEnds`, `LinesAnswered`, and what
  `WritesComplete`, `Forwarded`, `Terminates`, `NobodyWaits` and `EnoughSignalsEnd` say
  beyond the safety proved of them: that the handler, a walk, the kernel and the
  exercises do end;
- the freedom from deadlock that TLC checks, which is about `ENABLED`.

## 5. What the runs found

1. `stack_pop` dereferences a null head when two pops race for the last node
   (`stack_pop_race`).
2. `dict_remove` of the first node of a bucket drops the rest of the bucket
   (`dict_lost_keys`).
3. A chat process that forwards to one that has just quit may be ended by SIGPIPE
   (`chat_sigpipe`).
4. Two chat threads that forward at once mix the parts of their messages on one
   connection (`peer_framing`).

Seen while modelling, outside the listed runs.  Where a property speaks of "as
long as" or "unless", this is why:

- dictionary: two `dict_set` of one new key add it twice, so that it is found again
  after a removal; `dict_get` and `dict_set` use a node after giving up the mutex
  that protects it;
- queue: `queue_take` never frees the node it takes (`queue.cc:69`);
- chat: a walk in `forward_message` may stand on a node that was removed; a failing
  `accept` adds the descriptor -1; a read that returns part of a field shifts all that follows;
  two processes that type at once into full connections wait for each other for ever, each
  with its UI's mutex, for which the threads that would read the connections wait;
- letter counter: from 2 GiB on the positions overflow and it faults;
- lazy copies: failing `mmap`, `mremap` and `mprotect` go unnoticed;
- Sudoku: the memory of the GPU is never freed; after a copy to it that failed, boards are
  replaced by whatever the kernel makes of the memory's old bytes, and counted; a file that ends right behind a
  board compares it with what `getline`'s buffer still holds of the line before;
- echo: a second client may take the place of the first (`server.c:92`); a client
  that ends without "quit" ends the server; a last line without a newline is never
  answered; a line that fills the worker's buffer comes back with one character as it was;
- unique list: the node of a repeated number is never freed; printing or
  destroying a list without numbers follows a pointer that was never set;
- pipe: the parent keeps its own copy of `to_parent`, so it hangs when the child is killed;
- archive: a name of 16 bytes without "/" has no null byte; a size of ten digits and a content
  larger than the stack overrun an array, and from 2 GiB on the offset turns negative and the
  loop ends without the rest;
- `wait_signals.c` and `reverse.c` do not compile.

## 6. What is not modelled

Written in this order: the shared structures, the chat's processes and threads, the
lazily copied chunks, the Sudoku kernel and the letter counter, whose interleavings
are the repository's hardest behaviour; then the UI and the bytes of the chat, the
echo server, and the small programs; theorems after each.

Not modelled, and why:

- n-grams: a window over the characters of stdin, with no choice of order, no
  failure and no state beyond the window; a few inputs test all there is.
- socket helpers: they keep no state.  Their failures are steps of their
  callers (`MainFails`, the failing accept of `ChatPeer`).
- `wait_signals.c` and the reversal exercise do not compile; the first differs from
  `wait_sigint.c` in the set it waits for, the second uses variables that are
  declared nowhere.
- late assignment: a fragment that calls functions the repository does not hold.
- security exercises: flawed on purpose; their subject is the layout of memory.
- fault demonstrations: print a message at a fault, and keep no state.
- gtest: third-party.  It is the bulk of the repository's lines.

Below the level of these models are the characters of a key, a line or a board,
malloc and mapping calls that fail, and the layout of what is printed.
