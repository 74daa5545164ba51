# ckcore in TLA+

ckcore is a portability library in C++: threads, a thread pool, child processes,
files, streams, paths and small text formats, most of them in a unix and in a
windows build.  This directory models what keeps state or takes part in a
protocol, checks it with TLC and proves the central safety properties with TLAPS.

    ThreadPool  --  task_ready_ (a WaitCondition), start/join of workers (Thread)
        |                   |
        |             Thread  --  thread_done_ (a WaitCondition)
        |                   |
        +-------------- Monitor   (what a WaitCondition promises)
                            ^
                            |  implemented by
                      WaitCondition (unix)          WinThread (windows: Thread with
                                                     its WaitCondition taken apart)

    Process (unix):   client -- fork --> child -- SIGCHLD --> ProcessMonitor's handler
                        |  mutex_exec_, started_event_                |
                        +--------- listen thread  <----  state_  -----+

    WinProcess:       clients -- handles --> child;  listen thread -- close() -- clients

    Streams:   source -> [BufferedInStream] -> copy function -> [BufferedOutStream] -> sink

    Files:     File objects of several processes on one file system

    Directories:  a Directory owns the handles its iterators read

    Texts:     Paths, Crc, LineReader, output blocks, command lines, Directory::create

    Messages:  throw -- Exception2 -- catch -- rethrow_with_pfx;   Values: numbers, times, text, caches

## Inventory

| component | state | operations | hard behaviour | what makes it correct |
|---|---|---|---|---|
| `thread::WaitCondition` (unix/thread.cc) | `waiters_`, `wakeups_`, a pthread condition and its mutex | `wait` (with time out), `signal_one`, `signal_all` | spurious wakeups, time outs racing signals, two mutexes | unlock-and-wait is atomic for signallers; no wakeup is lost; a wakeup is taken once |
| `Thread` (unix/thread.cc) | `thread_`, `running_`, `thread_done_` | `start`, `wait`, `kill`, `running`; `native_thread`, `cleanup` | restarts, cancellation, several clients, calls that give the mutex up | `running()` is accurate; `run()` is not executed twice at a time; `wait`/`kill` return, and not before the thread is gone |
| `Thread`, `WaitCondition` (windows/thread.cc) | semaphore, event, `waiters_`, `broadcast_`, `running_` | the same | a time out during a broadcast, `signal_all` that waits for its waiters | the same, and nothing is left in the semaphore and the event |
| `ThreadPool` (threadpool.cc) | `all_threads_`, `ret_threads_`, `queue_`, `idl_threads_`, `res_threads_`, `exiting_`, `task_ready_` | `start`, `start_now`, `reserve`, `wait`; `run` of the workers | retiring, restarting, reservations, tasks started while `wait` joins, unsigned counters | the limit is kept; no task is executed twice or lost; no thread is forgotten or used after its delete; `wait` returns and shuts all threads down |
| `Process`, `ProcessMonitor` (unix/process.cc) | `state_`, `pid_`, pipes, `exit_code_`, `pid_map_` | `create`, `wait`, `kill`, `write`; listen thread; SIGCHLD handler | child exit racing registration, coalesced signals, stale listen threads | `wait` returns when the child has ended; `exit_code` is its code; output arrives |
| `Process` (windows/process.cc) | handles, events, `state_`, `exit_code_` | the same | `close` called by the client and by the listen thread, handles used after they were copied | the object follows its child; all output is read; `wait` is true only after the end |
| `stream::copy`, `canexstream::copy`, `Progresser` | a block, counters | six copy functions | short reads and writes, failures, cancelling, padding | what arrives is what was sent, all of it on success; progress does not fall |
| `BufferedInStream`, `BufferedOutStream` | buffer, position, fill | `read`, `seek`, `end`; `write`, `flush` | blocks and buffers that break at different offsets | a stream that is not buffered |
| `MemoryInStream`, `MemoryOutStream`, `FileInStream`, `FileOutStream` | position, size, grown buffer | `read`, `seek`, `size`; `write` | a size taken before the file changes, or that cannot be taken | the contents, within the buffers |
| `File` (unix/file.cc, windows/file.cc) | descriptor, path | `open2`, `close`, `seek2`, `tell2`, `size2`, `read`, `write`, `remove`, `rename`, `temp` | locks of processes, check-then-act on names, offsets narrowed to `int` | writers exclude others; asking for the size leaves the position alone |
| `Path` (path.cc) | a name | components, `+`, `+=`, `==`, `dir_name`, ... | empty and short names, delimiters at either end | operations on components |
| `Directory` (unix/directory.cc, windows/directory.cc) | handles by iterator address | `begin`, `++`, `*`, `==`; `create`, `exist` | entries that come and go, iterators that are copied, dropped and made where others were | an iteration shows what is there; handles are closed once, and late enough; `create` is true when the directories exist |
| `LineReader` (linereader.hh) | `next_str_` | `read_line`, `end`, `encoding` | CR, LF and CR LF mixed | the lines of the text |
| `CrcStream` (crcstream.cc) | table, checksum | `write`, `reset`, `checksum` | reflection, table generation | the remainder of polynomial division |
| output blocks, `parse_cmd_line` (unix/process.cc) | a partial block | - | output that arrives in any pieces | the blocks between the delimiters; the words of the line |
| `Locker`, `Task` | a flag | scope of a lock; `start` | - | they decide the extent of the actions above |
| `exception`, formatting (exception.cc, string.cc) | a message | `throw_*`, `what`, `message`, `rethrow_with_pfx` | terminators inside strings, buffers that are too small, failures while failing | the message says all that was said, in order |
| `convert`, `string`, `system`, windows `util` | none | numbers to digits, DOS times and dates, UTF-16, cache sizes | the least number, fields that share a word, full buffers | the inverse conversion gives the value back |
| `log`, `assert`, `dynlib`, `cast`, `memory`, `types`, `NullStream` | none | wrappers | - | - |

`PROJECT.json` lists each of them with what is modelled, and the hazards of the
code at the lines where they bite.

## Modules

Operators called variants in the comments are slips the code could contain (a
dropped test, a missing signal, an off-by-one); each stands before the definition
it would replace and takes no part in `Next`.  Variables called histories are read
by properties only.

**Monitor** is the abstract specification of a condition variable: the set of
threads waiting on it and the number of wakeups granted and not taken yet.  `Enter`
releases the caller's mutex and waits in one step; a wakeup goes to any waiter; a
waiter whose time runs out leaves the wakeups alone.

**WaitCondition** is the unix implementation, step by step: locking the internal
`mutex_`, unlocking the caller's mutex, counting itself into `waiters_` and
blocking, being taken off the condition by a signal, a spurious return or the
time out, and what `wait(timeout)` does with `wakeups_` on the way out.
`pthread_cond_signal` and `pthread_cond_broadcast` are modelled from POSIX.  Steps
that another thread can tell apart are separate actions; steps inside one critical
section of `mutex_` are one.  `res` is what `wait()` returns.  The clock is
abstracted: a thread with a time out may time out whenever it is blocked.

**Thread** is one Thread object with the clients that call it and the native
threads it creates.  Each method is one action under the object's `mutex_`, split
where `thread_done_.wait` gives that mutex up (`Wait`/`TakeWakeup` or
`TimeOut`/`WaitReturns`, `Kill`/`TakeWakeup`/`KillReturns`).  `thread_done_` is an
INSTANCE of Monitor.  Exceptions that leave `run()` are swallowed, and a cancelled
thread goes through `cleanup()` too.  The history `stale` records a `start()` that
overtook the wakeups of an earlier native thread.

**WinThread** is the same object in the windows build, with its WaitCondition taken
apart into semaphore, event, `waiters_` and `broadcast_`, since there `signal_all()`
itself waits, with the object's `mutex_` held, until the last waiter it has counted
leaves.  The history `miscounted` records a `signal_all()` that counted a waiter
whose time was already up.

**ThreadPool** is the pool.  What the code does between taking `mutex_` and giving
it up is one action: `EndTask`, `Resume` and `Retire` are the paths of
`InternalThread::run()` from one release of the mutex to the next; `Start`,
`StartNow` and `Reserve` contain the whole of `try_start()`; and `wait()` is
`Wait`, then `Join` and `Delete` for each thread of its copy of `all_threads_`
without the mutex, then `WaitAgain`.  Counters are unsigned words (`Wrap`).
Tasks are their addresses, because `queue_` orders its pairs by address first.
`Cleanup` is `Thread::cleanup`, which is not atomic with the end of `run()`: a
worker on `ret_threads_` may still be running.  `undefined` records that an
InternalThread was used after its delete or deleted while running.  The quick check
of `start_now()` is a data race on the containers; the model lets it have any
outcome (`NotStarted` changes nothing).

**Process** is one Process object of unix/process.cc with the ProcessMonitor, the
client that calls it, the children it forks, one listen thread per child and the
signal handler.  `create()` is a chain of steps (`CallCreate`, `ClosePrevious`,
`OpenPipes`, `MarkRunning`, `Fork`, `Register`, `Spawn`, `Started`, with `OpenFails`,
`ForkFails` and `SpawnFails` as its early returns), since a child, the handler or an
old listener may act between any two of them.  `listen()` takes `mutex_exec_` and
sets `started_event_` (`Listen`), tests `state_` and polls (`TestRunning`,
`PollTimesOut`, `Read`, `ReadFails`), and ends with `event_finished()` (`Finish`) and
`close()` (`End`).  The handler may run on the client, on a listener or on another
thread, which is held up until it returns; it is two steps, because `state_` is
stored before `exit_code_` and without a mutex (`Handle`, `StoreCode`).  It reaps one
child per signal, whichever ended, also one that is not the object's (`ReapOther`);
pending signals coalesce, and those sent before the handler is installed are
ignored.  Child k stands for its process identifier (identifiers are not recycled)
and `Nobody` for -1, which `kill()` takes for everybody.  Two histories name the
situations in which the code promises less: `early`, the children that ended before
`create()` returned, and `stale`, a `create()` made while the listener or the handler
of an earlier child was not through.

**WinProcess** is one Process object of windows/process.cc with several clients.
`close()` is entered from `create()`, from a `create()` that fails, from the destructor
and from the listen thread (`Close`), waits for the child with `mutex_` held, and for
the listen thread before that when it is not called by it (`Join`, `Reaped`).
`wait()` and `kill()` copy a handle under `mutex_` and use it afterwards.  A
`create()` that fails (`OpenFails`) may leave one handle that is not valid, `Garbage`: the
`hProcess` of a PROCESS_INFORMATION that a failed CreateProcess has not filled in, or a
`pipe_output_` that is closed when `pipe_stdin_` cannot be created but not set to NULL.
The next `close()` takes it for a handle.  The
history `early` is a listen thread that closed the object inside its own `create()`.

**Streams** composes a source, an optional BufferedInStream, one of the six copy
functions, an optional BufferedOutStream and a sink.  Bytes are numbers, so that each
one that arrives can be told from every other; buffers are functions from offsets.
Reads and writes may be short or fail where the class underneath may, a FileInStream
may hold a stale size or -1, and a canexstream may be cancelled (`Cancel`) at any test.
`percent` is what the Progresser reports.

**Files** is any number of File objects of several processes, in either build
(`windows`, chosen at the start).  `open2()` opens (`Open`) and then locks (`Lock`);
`size2()` is three system calls (`Tell`, `SeekEnd`, `SeekBack`); `remove()` and `rename()`
test and then act (`TestRemove`/`Unlink`, `TestRename`/`Rename`).  Names are directory
entries, files are inodes that live as long as a name or an object holds them, and a
`close()` gives up every lock of its process on the file, as fcntl() does.  An int is
as narrow as `IntHalf` says.

**Directories** is a Directory object with the iterators over it, in either build.  A slot
is an address at which iterators are made: `dir_handles_` is a function of slots, since
the code uses `this` as the key, and an iterator is copied to another slot, dropped, or
made again at its slot (`BeginNew`, `BeginFails`, `BeginAgain`).  A handle gives each entry
that is there throughout once, in any order; one that comes or goes meanwhile may be
given or not (`AddEntry`, `RemoveEntry`).  The history `owed` is what the iterators
that read a handle have still to show.

**Messages** is an exception on its way up: thrown with a message that was formatted, or
by somebody else, caught, and thrown again with a prefix, in the unix build and in the
windows build with and without `_UNICODE`.  A text is a sequence of characters of which
NUL may be one, because the conversions count terminators into the std::string.

**Values** is what convert.cc, string.cc, system.cc and windows/util.cc compute, a loop of
the code being an action: the digits of a number, a DOS time and date, text between characters of different width, and the size of a cache from the
registers cpuid gives.

**Paths** and **Crc** are the operators of Path and of CrcStream; **Texts** applies them,
LineReader, the splitting of output into blocks, `parse_cmd_line()` and
`Directory::create` of both builds to every text within its bounds, step by step where the code
keeps state between calls, and compares each with a definition that looks at the
whole text: the lines between line ends, the blocks between delimiters, the
remainder of a polynomial division, the names a path leads through.

**MCThreadPool** and **MCFiles** add the symmetry of their sets.  **MCLibrary** is the
instance in which Directories, Texts, Values and Messages are checked: they share
nothing, so one of them runs (`part`) and the others stay as they are, and the states of
the run are the sum of theirs.

**WaitConditionProofs**, **ThreadProofs**, **ThreadPoolProofs**, **ProcessProofs**,
**WinThreadProofs**, **WinProcessProofs**, **FilesProofs** and **InputOutputProofs** hold the
theorems; the last those of Streams and, in a second part, those of Directories, whose
specification is called `DirectoriesSpec` for that.

## Runs

Every run checks deadlock except where clients stop when tasks, native threads or
children (bounds of the model) are used up, or the copy is over, or the text has been
read, computed or said: Thread, ThreadPool, Process, WinThread, WinProcess, Streams,
Library.

* `WaitCondition` (38 thousand states): four waiters, two of which pass a time out, a
  signaller, spurious wakeups.  `ImplementsMonitor`; `WakeupsTaken`, Monitor's fairness, as
  long as nobody's time runs out; `WaitReturns`.  A wakeup granted to one thread can be
  taken by a second while a third times out and a fourth enters.
* `Thread` (355 thousand): a client that starts, waits and kills, a second one that waits
  and kills, a third one that waits, time outs, three native threads in a row, so that a
  wakeup of the first can be left for the second and a restart follows a restart.
  `RunningIsAccurate`, `WokenAfterExit`, `CallsReturn`.
* `ThreadPool_full` (661 thousand): one client making any sequence of calls, two threads,
  three tasks, all reservations, retire time outs, thread creation that fails; four workers
  leave room for a whole pool after `wait()` has deleted the first.  `ThreadLimit`,
  `TaskInOnePlace`, `NoOrphan`, `NoUseAfterDelete`.
* `ThreadPool_concurrent` (119 thousand): one client starts tasks while another one is
  inside `wait()`; retire time outs, no reservations.  `NoUseAfterDelete`,
  `WaitShutsDown`, `WaitEnds`.
* `ThreadPool_steady` (77 thousand): no time outs, no reservations, four tasks:
  `IdleAccounted`, `AllTasksFinish`, `WaitFinishesAll`.
* `ThreadPool_deleted` ends in a violation of `NoUseAfterDelete`: with reservations, a
  task started while `wait()` joins takes a deleted worker from `ret_threads_`
  (threadpool.cc:254), although the comment at threadpool.cc:238 expects such calls.
* `Process` (648 thousand): one client that creates up to two children, one after the
  other, and waits for, kills and destroys in any order; a child of somebody else that
  ends too, exit codes 0 and 42 beside the end by a signal, one pipe that holds one
  block.  Two children are what a stale listener, a stale handler and coalesced signals
  need; a second pipe only repeats the first; one block fills the pipe, so that output
  is lost and read.  `FinishedMeansReaped`, `AliveIsRunning`, `ExitCodeKept`, `WaitEnds`.
* `WinThread` (13 thousand): three clients, two of them with time outs, three native
  threads.  `NothingLeftBehind`, `WokenAfterExit`, `CallsReturn`.
* `WinProcess` (124 thousand): the creator and one other caller, two children, one block
  of output each, exit codes 0 and 42.  `ObjectFollowsChild` (which is `AliveIsRunning`,
  `StoppedIsClosed` and `DestroyedIsClosed`), `OutputRead`, `WaitedForEnd`, `CallsReturn`.
* `Streams` (752 thousand): four bytes, a block of two, buffers of three on either side
  (so that blocks and buffers break at different offsets), sized copies of three bytes
  and of six (less and more than there is), seeks up to one byte behind the end, a first
  memory buffer of two that grows, stale sizes of three and five, and each kind of fault
  once.  `Delivered`, `Complete`, `WithinBuffers`, `CopyReturns`, `ProgressRises`.
* `Files`: two objects in one or two processes, two names, two files of up to three
  bytes, an int that holds -3 to 2, so that size and position reach the first value it
  cannot hold; both builds.  `WritersExclude`, `SizeKeepsPosition`.
* `Library` (1.9 million, up to symmetry) is four instances in one, whose states are added up:
  - Directories: two slots, two handles, three entries that come and go, both builds,
    addresses that are used again.  `EntriesShown`, `HandlesOwned`.
    Two slots are what a copy needs, three entries a first, a last and one that comes or
    goes between.
  - Texts: names and other texts of up to seven characters over three that matter
    each, every byte order mark and near miss of up to four bytes, output read in pieces
    of up to three bytes, two interventions of another process in `Directory::create`,
    which may be refused at any name, and up to four bytes, one bit each, all or none, for the three checksums at their
    full width.  `CreatesDirectories` and `TextsAgree`, which is `PathsAgree`,
    `LinesAgree`, `SplitsAgree` and `ChecksumAgrees`.  The checksum is linear in the bits of its input, so single bits at
    every place are what can go wrong in it.
  - Values: every number of a word of ten bits, signed and unsigned; every day of nine
    years, of which some are leap years and some outside the DOS range, and times; texts
    and buffers of up to four characters of three bits; one or two caches of every type
    and level, with numbers at the width of their fields.  `ValuesAgree`, which is
    `DigitsAgree`, `TimesAgree`, `TextsKept` and `CachesAgree`.
  - Messages: three builds, an exception that is thrown up to three times, messages and
    prefixes of up to two characters, one of which takes two bytes, and a buffer of two
    characters, which texts of a length of one, two and more fit into or not.
    `MessageKept`.

`WordSize` is 16 in the runs of the pool: larger than every sum of the counters, so that
a counter below zero is a large number, as it is with 2^32.

### Fairness

* `WaitCondition`: weak fairness for a thread that can run, and strong fairness for
  getting a mutex that others take and free again and again; the first is the operating
  system's scheduler, the second what a program on a fair scheduler relies on when it
  uses a mutex at all.  Nobody has to signal, wait or lock.
* `Thread`, `WinThread`: `run()` ends and a native thread gets through its end; on unix a
  wakeup of `thread_done_` is taken, which is Monitor's fairness as `WakeupsTaken` derives
  it, on windows a permit of the semaphore is.  A wait that uses its time out needs none.
* `ThreadPool`: the same, tasks end, and a retire time out happens in the end.  No client
  has to call anything.
* `Process`: the listen threads run, a pending signal is delivered to some thread and the
  handler ends, a call of the client goes on when it can; `wait()` gets `mutex_exec_`
  because nobody takes it after the listener.  Children need not end.
* `WinProcess`: each thread in a call goes on, mutexes included; children end, as the
  comment at windows/process.cc:139 expects ("We expect all our child processes to
  properly terminate and don't freeze on exit").
* `Streams`: the copy that has begun goes on.

### What the bounds of the properties say

Several properties are stated up to a situation in which the code does less than its
comments say.  What it does there was found by dropping that condition, by changing the
constants of the runs above, or on the way to the model.

Condition variables and threads, unix:

* A waiter that times out leaves the wakeup it was granted behind; a later `wait()` of a
  Thread returns true, or a `kill()` returns, although nobody signalled it (`stale`).
  A thread that starts to wait after `signal_all()`, or one woken spuriously, may take the
  wakeup of another.  Monitor has both behaviours.
* `start()` may come between the wakeup of a `kill()` and the `running_ = false` after it
  (unix/thread.cc:105), which then marks the new native thread as not running.
* `kill()` from within `run()` waits for its own `cleanup()`; `wait()` guards against that.
* With glibc the forced unwinding of a cancelled thread enters `catch (...)` in
  `native_thread`, which swallows it, and the C library ends the program.  A thread
  cancelled while it waits on another WaitCondition leaves the latter's mutex locked.

ThreadPool:

* `WaitFinishesAll` and `AllTasksFinish` fail with retire time outs: a worker that retires
  does not look at the queue (threadpool.cc:81), so a task stays in it although `wait()`
  "Waits for all tasks to finish" (threadpool.hh:188).
* `queue_` compares its pairs by the address of the task first: priorities decide only
  between equal tasks, other than the comment at threadpool.cc:148 says.
* `WaitShutsDown` fails with two clients in `wait()`: the second finds `all_threads_` empty
  and returns while the first joins.  More than `max_threads_` native threads exist while
  tasks are started during a `wait()`: new ones come on top of those being joined
  (`ThreadLimit` is about `all_threads_`).
* A task started while all threads are reserved is executed if a worker happens to wait
  for work, which tests/threadpool.hh:315 does not expect.  A worker restarted before it
  is through `cleanup()`, or for which no native thread can be created, loses its task.

Process, unix:

* `create()` waits for ever if the child and its listen thread end before the client,
  already signalled, looks at `started_event_` again: `close()` has reset it
  (unix/process.cc:189, 486).
* A child that ends before it is registered, or whose signal coalesces with another, is
  never noticed: `state_` stays RUNNING and `wait()` does not return, which is why
  `WaitEnds` starts where `state_` tells of the end.
* `running()` is false as soon as the handler has run.  A `create()` at that moment has its
  pipes, identifier and state reset by the listener of the earlier child (`stale`).
* `exit_code_` is set to 0 by a `create()` that returns after the handler has stored the
  code.  After a `fork()` that fails `state_` stays RUNNING.  If no listen thread can be
  created and the handler was there first, `kill()` is sent to -1, everybody.
* Blocks in the pipes when `state_` becomes STOPPED are lost, and a last block without a
  delimiter is never delivered.

Thread and Process, windows:

* `signal_all()` waits for ever, with the object's `mutex_` held, for a waiter that times
  out after it has been counted (windows/thread.cc:323; `miscounted`).  `signal_one()` has
  no cap.  The guard against waiting for oneself compares with the pseudo handle of
  GetCurrentThread() and never holds.
* `create()` waits for ever if the listen thread has closed the object, and with it reset
  `start_event_`, before `create()` looks (`early`).  The listen thread calls `event_finished()` after
  it has released `mutex_exec_`, so the object may be destroyed under it.  Its `close()`
  holds `mutex_` until the child has ended: a child that closes its output early cannot
  be killed any more.
* A `create()` that fails leaves handles that are none to the next `close()`, that of the
  next `create()` or of the destructor: a failed CreateProcess leaves `pi` uninitialised
  (windows/process.cc:355, 371), whose handle is then waited for and closed; and when the
  second DuplicateHandle fails `pipe_output_` is closed and not set to NULL (345), so that
  it is closed twice.  `StoppedIsClosed` therefore allows one such handle (`Garbage`).  What
  waiting for it and closing it do if its value is that of another handle is not modelled.

Streams and files:

* BufferedOutStream turns a failed write into a short one, and `stream::copy` does not
  look at short writes, so a copy that returned true may have lost bytes (`Clean`).
  `canexstream::copy` throws unless a BufferedOutStream is between.  A FileInStream whose
  size could not be taken (-1) is at its end at once, and copying it succeeds with nothing.
  With a size that is larger than the file the copy does not return.
* `tell2()` throws at position 1, which it takes for a failure (unix/file.cc:150), and
  positions are narrowed to `int`: at 2^31 `size2()` leaves the file pointer at the end, or
  throws.  Locks are those of a process: two File objects of one process do not exclude
  each other, and closing one gives up the lock of the other; an `open2()` whose lock fails
  for another reason than a refusal goes on without.  On unix a file made between the
  test and the rename is overwritten.

Texts:

* The character after a carriage return is kept for the next line even if it is a
  carriage return (linereader.hh:127): "\r\r" gives a line that begins with one.
* A name of one character has no components (path.cc:35), so `Directory::create("a")`
  returns true and creates nothing; a component named "NULL" ends the iteration; `p + q`
  is empty for an empty `p` (path.cc:249); `+=` on an empty name reads in front of it; `==`
  ignores the root.
* `Directory::create` is false when another process makes the directory first, or where
  it may not look at a directory that exists, and on
  windows loses the root of its path: create() of /b makes b where the program is and
  returns true (windows/directory.cc:177).
* Directory iterators are kept by their address: one made where another one was goes on
  with its handle (unix/directory.cc:37), and not from the first entry, on windows with an entry that was never written.
  `readdir()` may write over what a copy of the iterator shows.  `closedir` may get NULL,
  and a Directory that is copied closes its handles twice.

Messages and values:

* SysTimeToTm() computes a wrong day of the year: it adds the days of January for every
  month that has passed (windows/util.cc:43, 50) and counts from 1 (53), where the `tm_yday`
  of `struct tm` counts from 0; and it asks the year less 1900 whether it is a leap year
  (37).  Nothing in the library reads `tm_yday`; it is not modelled, and `TimesAgree` says
  nothing of it.
* `ansi_to_utf16()` of the unix build assigns a char to a wchar_t (string.cc:185): a
  character that is not ASCII, negative as a char, becomes a negative number, and not the
  UTF-16 that string.hh:132 promises.  `TextsKept` claims UTF-16 of ASCII only; that
  `utf16_to_ansi()` gives the same text back it claims of every text.
* With `_UNICODE` a message that does not fit into the buffer of `ansi_to_auto()` is left
  without a terminator (string.cc:178), since MultiByteToWideChar() returns 0 for it and
  the test for truncation expects another number.
* A format that fails (`vsnprintf()` or `_vsctprintf_p()` returning -1) makes `resize()`
  throw in place of the exception that was to be thrown or rethrown (string.cc:152, and
  133 on windows), and the `strerror_r()` of
  the GNU library may leave its buffer unwritten (exception.cc:229): `lost` records these.
* `ansi_to_utf16()` and `utf16_to_ansi()` with a buffer of length 0 write at -1.

## Theorems

TLC checks the instances above; the following is proved with TLAPS for every value of
the constants that satisfies the assumptions in the modules.

* `WaitConditionProofs`: `CountersCorrect` (types and `WaitersCounted`), `Refinement` (`Spec
  => ImplementsMonitor`, time outs and spurious wakeups included) and, without time outs,
  `NoLostWakeup`.  The counters are related to the program counters by the inductive
  invariant `TypeOK /\ WaitersCounted`; the refinement maps every action to a Monitor
  step or a stutter under it.
* `ThreadProofs`: `RunningAccurate` (also without the condition when nobody calls `kill()`)
  and `NotWokenEarly`.  The invariant is that the native thread alive is the one `thread_`
  names (`OnlyLatest`): counting the threads alone is not inductive, since `cleanup()` does
  not know whose `running_` it clears.  `CallsKnown` says that a call that waits was made
  for a thread that had been created, and `Calm` that no wakeup is left, and no `kill()` is
  yet to write `running_`, while the object runs and no restart was stale.
* `ThreadPoolProofs`: `TypeCorrect`, `KeepsToLimit`, `NoThreadForgotten` and, with one
  client in `wait()`, `ShutsDown`.  The inductive invariant is
  `TypeOK /\ ThreadLimit /\ WorkersListed`.  The limit rests on `RoomToSpawn`: a thread is
  spawned only when `idl_threads_` is 0 and `ret_threads_` is empty, and then the unsigned
  sum of `active_threads()` does not wrap, so it is exact although `idl_threads_` may have
  wrapped before.  No thread is forgotten because a `wait()` copies `all_threads_` only when
  its previous copy is empty, which `WorkersListed` records.  On this invariant rest:
  * `ExecutedOnce` (`TaskInOnePlace`), without any condition.  `OnePlace` says that a task is
    queued at one place (`QueuedOnce`), held by one worker (`HeldOnce`), not in two of queue,
    worker and `finished` (`Apart`), and none of them unless it was accepted.
    `RetiredRest` is what makes it inductive: a worker in `ret_threads_` has no task, so
    that starting it again with one loses none.
  * `AloneNoUseAfterDelete` and `UnreservedNoUseAfterDelete` (`NoUseAfterDelete`): for a pool
    with one client, and for one client in `wait()` with any number of others in `start()`
    if nobody reserves threads.  `DeleteSafe` says that no worker in `ret_threads_` is a
    deleted one while the client is in no call, and that it deletes only what has ended.
    In the second case `Closing` says why nothing is restarted during `wait()`: as long as a worker that
    is joined is among the retired, `active_threads()` or `idl_threads_` is below zero, as a
    word a huge number, and `start()` leaves `ret_threads_` alone.  With reservations the
    statement is false, as the run `ThreadPool_deleted` shows.
  * `IdleCounted` (`IdleAccounted`), if nobody retires or reserves: by `Steady`, a worker
    leaves the count when it is signalled and `wait()` sets it to 0 when none waits.
  * `WaitsForAllTasks` (`WaitFinishesAll`), for an only client, if besides threads can be
    created.  `NoneLost` says that what was accepted is queued, held or finished, and
    `Attended` that a queue that is not empty has a worker awake, or a wakeup on its way,
    for each task as long as `idl_threads_` is above 0.
* `ProcessProofs`: `LockedThroughout`, `FinishedAfterExit`, `NotForgotten` and
  `ExitCodeStays`.  The invariant has four parts.  `Typed` adds to the types that the
  handler only stores the exit code of a child it has reaped and that ended by itself.
  `Locked` is about `mutex_exec_` and `started_event_`: the event is false from
  `ClosePrevious` to `Listen` and only the new listener sets it, so `create()` cannot
  return, nor the client call `wait()`, before that listener holds the mutex.  `Followed`
  holds while `stale` is false: one listener at most, that of the last child, whose pipes
  and identifier the object has until it is reaped, and `state_` is STOPPED only when
  every child has been.  `Recorded`, also while `stale` is false, follows the exit code:
  the handler has at most the last child in its hands, and none while `create()` resets
  the code; a child that was reaped after it had been registered has its code stored, or
  a handler about to store it.
* `WinThreadProofs`: `RunningAccurate`, `CleanSignals` and `NotWokenEarly`.  The invariant
  says who holds `mutex_` between two steps and what `broadcast_` tells of it (`Owned`), that
  `running_` lags behind only while it is held (`Accurate`), that `waiters_` is the number of
  waiters (`Counted`), and counts permits (`Permits`): during a broadcast the semaphore and
  the clients it has woken make up `waiters_`, and `waiters_done_` is set when that is 0.
* `WinProcessProofs`: `ReadToTheEnd`, `FollowsChild` and `WaitAwaitsEnd`, for any number
  of clients and children.  `Emptied` says that a listener closes the pipe only when the
  child can write no more and all it has written is read; `Guarded` which client or
  listener holds `mutex_` and `mutex_exec_` at which step.  `Accounted` needs both: there
  is one listener at most and it is that of the last child (`InOrder`), the handles are
  that child's until its listener closes them (`Follows`), a child that runs has a
  listener or a `create()` about to start one (`Attended`), without either the object is
  stopped (`Idle`) and has one invalid handle at most, and `create()` (`Created`) and the
  exit code (`Coded`) refer to the last child.  `Created` also follows the handles through
  `close()`, from which `create()` begins, and the destructor ends, with none.  For `WaitAwaitsEnd`, `Waited` adds that a client which has joined a listen
  thread finds it ended, and `EndedStays` that nothing comes after the end.
* `FilesProofs`: `OneWriter` and `SizeRestores` (`SizeKeepsPosition`), for any number of
  objects, processes, names and files.  The invariant is that the locks fcntl() has
  granted do not conflict (`Compatible`), that an object alone in its process still has
  the lock it set (`LocksKept`), that on windows only readers share a file
  (`SharingKept`), and that `size2()` works on an open file.  For `SizeRestores` it is
  joined by `Positions`: between the steps of `size2()` what it has saved is the position
  it was called at, as an `int`; if that is below 2^31, scaled to the model's word, the
  conversion loses nothing (`AsIntSmall`).
* `InputOutputProofs`, Streams: `BuffersKept` (`WithinBuffers`), `BytesDelivered`
  (`Delivered`), `CopiesComplete` (`Complete`) and `ProgressNeverFalls` (`ProgressRises`),
  for sources, blocks, internal buffers and sizes without a bound and all six copy
  functions, with short and failed reads and writes.  The invariants grow in three layers.
  * `Base` is `Typed`, `Bounded` and `Reading`.  `WithinBuffers` says nothing of what a call
    in progress has still to do; `Bounded` does: a `read()` or `seek()` does not ask for more
    than the size or the distance that is left, a `write()` has no more to give than was
    read.  `Reading` relates what is read ahead to the source: the internal buffer holds
    just the bytes from the client's position (`Ahead`) on, and only a client that reads
    the source itself may seek beyond its end.
  * `Sent` is `Settled`, `Placed`, `Arranged` and `Concluded`.  `Delivered` speaks of the sink
    and the buffer before it only, and a step that moves bytes there from the caller's block
    keeps it only if the block is known: `Arranged` says that the block holds what is next to
    be sent, and `Placed` where in the source that is, and that `size_` and what was accepted
    make up the size.  `Settled` limits what a failure spoils: a failure that leaves the copy
    clean ends it with another outcome than true.  `Concluded` is `Complete` before the
    buffer is flushed.
  * `Counted` and `Percented` are for the progress: what was counted is not ahead of what was
    read, and the percentage is that of the count.  That it does not fall is then the
    monotony of the quotient, and that it stays within 100, that no more is counted than the
    source or the size has.

  A `read()` is a sequence of the steps `Refill`, `Serve` and `ReadSource`, a `write()` one of
  `Keep`, `Spill` and `WriteSink`.  The lemmas `ReadStep` and `WriteStep` show once that each of
  them reads or writes some number of bytes (`ReadsSome`, `WritesSome`), whatever the buffers
  are, and the invariants are proved from that.
* `InputOutputProofs`, Directories: `HandlesFreed` and `NothingPassedOver` (`EntriesShown`), for any
  number of iterators, handles and entries, in either build and with addresses that are
  used again.  `HandlesOwned` alone says nothing of handles no iterator has any more; the
  invariant is that the open handles are just those stored in `dir_handles_`, none after
  the object, and that each iterator of a live object reads a stored one.  For
  `NothingPassedOver`, `Due` says that what is owed (in the directory since a handle was
  opened, and not shown yet) can still be read from it, that nothing is owed when an
  iterator of that handle is at the end, and that no iterator shows a dot.

Assumed are the named assumptions on the constants, which every run evaluates;
`ThreadProofs` assumes besides that the clients are finitely many.  A theorem that holds
only for some uses of a class says so as an assumption on the constants:

| theorem | who calls | what does not happen |
|---|---|---|
| `NoLostWakeup` | anybody | a `wait()` with a time out |
| `ShutsDown` | one client calls `wait()`, others `start()` | |
| `AloneNoUseAfterDelete` | one client | |
| `UnreservedNoUseAfterDelete` | one client calls `wait()`, others `start()` | `reserve()` |
| `IdleCounted` | one client calls `wait()`, others `start()` | `reserve()`, time outs of workers |
| `WaitsForAllTasks` | one client | `reserve()`, time outs of workers, a thread that cannot be created |

None of these is for the proof's sake.  With reservations `NoUseAfterDelete` fails
(`ThreadPool_deleted`).  `IdleAccounted` fails with a time out, since a worker that times
out after it was signalled is subtracted from `idl_threads_` a second time
(threadpool.cc:85), and with reservations.  `WaitFinishesAll` fails with a time out, with
reservations, with a thread that cannot be created and with a second client that starts
tasks while `wait()` joins: TLC finds a counterexample in the instance of
`ThreadPool_steady` when any one of the four is admitted.  A pool is free of time outs as
long as no worker is idle for `ret_timeout_`, 20 seconds unless set otherwise.

Only model-checked: everything under fairness (`WakeupsTaken`, `WaitReturns`, the
`CallsReturn`s, the `WaitEnds`s, `AllTasksFinish`, `CopyReturns`), since liveness and `ENABLED`
are beyond the prover; and `CreatesDirectories`, `TextsAgree`, `ValuesAgree` and
`MessageKept`, which compare what a loop computes with a definition over all its input, by
induction over data.  Every other property of the passing runs is stated by a theorem.

## Not modelled

* Logging, `dlopen`, clocks, `be_to_le16` and `be_to_le32`, `sprintf`, and the wrappers
  around single system calls (`time`, `access`, `hidden`, `sleep`, `identifier`), which keep
  no state and take part in no protocol.
* A copied Directory object, whose handles are closed twice.
* `write()` to a child, which keeps no state; several Process objects with one
  ProcessMonitor; recycled process identifiers.
* `Mutex::try_lock()` and windows' `signal_one()`, which nothing in the modelled code calls.
* The day of the week, the day of the year and the daylight saving of SysTimeToTm().
* Windows' `Path` with two delimiters and drives, wide characters in LineReader, and
  positions near 2^32 in the memory streams.

## Left to do

1. Several Process objects with one ProcessMonitor and recycled identifiers.
2. Proofs: `CreatesDirectories`, which needs the names of a path by induction over its
   length, when the provers can instantiate the induction theorems.
