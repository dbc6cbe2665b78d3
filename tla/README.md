# DinterR: a TLA+ model of the DDT protocol server

DinterR reports who reads which bytes of a file. A patched kernel adds data to
inotify access events; `ddtp-serve` watches a file for a client, turns the
events into records and sends them over TCP; `ddtp-cli` asks for a file and
appends the records it gets to a csv file.

This directory models both programs, from their command lines to the csv file:
the server's threads and locks and what its clients get, `ddtp-cli` connected
to it, how either reads its options and opens its socket, and what becomes of
the fields of one access on their way to a line. TLC checks small instances,
TLAPS proves the safety properties for every instance. Paths below are relative
to `src/src/user/dinterrd/common/` unless they start with `src/`.

## 1. The system

| Component | State it keeps | Operations |
|---|---|---|
| flags and reference count (`lock.cpp`) | three mutex/condition/short triples `data_ready`, `data_pend`, `state_pend`; `ddtp_ref_count`; plain mutexes `sm_lock`, `dedup_lock` | `ddtp_block_until_*`, `ddtp_signal_*`, increment, decrement, get, lock, unlock |
| accept loop (`server.cpp`) | listening socket, and on its stack the thread data, locks and state machine of the current session | accept, start and join the entry thread, close |
| entry thread (`thread.cpp:255`) | `readin_buffer`, the "tellers" | reads LOAD_REQUEST, sets up the watch, answers, starts the two other threads, handles inotify events, sends records, ends the session |
| watcher thread (`thread.cpp:440`) | the inotify descriptor | waits for `state_pend`, polls, raises `data_ready`, leaves in state X |
| async request thread (`thread.cpp:397`) | a read buffer | reads requests while data is served, until UNLOAD_REQUEST |
| state machine (`netproto.h`) | the state of `sml::sm<ddtp_server>` | `process_event`, `is` |
| queue and dedup map (`queue.h`, `thread.h:23,30`) | `gq`, `gdm`, global to the process | push, pop, find, insert, clear |
| client (`client.cpp`) | its own state machine, an iteration count | LOAD_REQUEST, read records, UNLOAD_REQUEST |
| sockets (`sockio.cpp`) | descriptors | read, write, readwait |
| event record (`dataproto.cpp`, `protenc.h`) | a record under construction and its typestate | the nine modifiers, `calc_crc`, `get_crc`, `get_serdes` |
| payload, serialisation, csv (`payload.cpp`, `serdes.cpp`, `util.cpp`) | none | conversions |
| command lines (`ddtp_serve.cpp`, `ddtp_cli.cpp`, `cxxopts.hpp`) | options, their values and how often they were given | parse, look up, defaults |
| error codes (`maps.h`) | none | from the call that fails to the client's message |
| kernel patches (`src/src/kern/patches`) | the kernel's event queue | queue an access event with its extra data, unmerged |

How they interact. The accept loop runs one session at a time: it makes the
state machine and the locks, starts the entry thread and joins it. A
LOAD_REQUEST makes the entry thread open an inotify descriptor, take the one
reference, start the watcher (detached), answer, move the machine to
`data_ready` and start the async thread (detached). From then on:

    entry thread                     watcher                  async thread
    read the state
    signal state_pend  ----------->  block state_pend
                                     leave if X               read a request
                                     poll(-1)                 validate it
    block data_ready  <------------  signal data_ready        on UNLOAD_REQUEST:
    read the descriptor dry                                     unload_pend
    send gq, signal data_pend                                   signal data_ready

and in state `unload_pend` the entry thread blocks on `data_pend` (a round has
ended), moves to X, signals `state_pend`, blocks on `data_pend` again (the
watcher has left) and clears the dedup map.

What is hard here:

- the three flags are flags and not counters, and two of them are raised by
  two threads: signals merge, and a block may be released by the wrong one;
- `sm_lock` does not exclude: the watcher unlocks it where it should lock it
  (`thread.cpp:460`), and validation reads the machine without it (112-118);
- the watcher and the async thread are detached and use the accept loop's
  stack; `gq`, `gdm`, the flags and the count are global, so what a session
  leaves behind the next one finds;
- every library call on the way may fail after some of the work is done;
- a client may send anything at any time, and leave;
- `ddtp-cli` never tells its state machine that it has unloaded, so it repeats
  its UNLOAD_REQUEST until a write kills it; and a write to a client that has
  left kills the server;
- TCP is a stream of bytes, and a read takes whatever has arrived for one whole
  payload, while a write may take any part of what it is offered;
- an event is laid out three times, by the kernel, by the server's copy of the
  kernel's header and by the record, and only an access fills in its extra data;
- numbers change width on the way: a port from text to 16 bits, an error code
  through two signed chars, a crc that stands for a whole record.

What makes each part correct. *Flags*: mutual exclusion, no lost wakeup, they
behave as atomic binary flags. *Records*: the client gets the first report of
each crc, in order, once, and nothing of an earlier client. *Answers*: at most
one per session, and no data before LOAD_SUCCEED. *Threads*: entry thread and
watcher never wait for each other; a session ends and takes its watcher with
it. *State machine*: no transition is written over another, and every turn of
the entry loop finds a branch. *Client and server*: they agree on the protocol,
the csv file follows the kernel queue, neither end takes the other down, and a
client whose server has closed ends. *Start*: an option has the value given, a
number is refused rather than bent if it fits, the client asks where it was
told for the file it was told, and the error it prints is the one the server
met. *Record*: told apart by what is checksummed, whole on the stream, and a
line tells one event.

## 2. Modules

| Module | Models |
|---|---|
| `BinaryFlag` | abstract specification: what a block/signal pair promises |
| `DdtpLocks` | one flag of `lock.cpp`, one step per pthread call |
| `DdtpDelivery` | abstract specification: what becomes of the events of a watched file |
| `DdtpSession` | abstract specification: what the server promises its clients; extends `DdtpDelivery` |
| `DdtpProtocol` | payload types, both transition tables of `netproto.h`, and how `sml.hpp` looks a row up |
| `DdtpServer` | accept loop, entry, watcher and async threads, kernel queue and client |
| `DdtpStateAtomic` | abstract specification: the three threads that serve data, one step per visit to the machine |
| `DdtpStateLock` | `sm_lock` and the machine, one step per `sm->is` and per half of `process_event` |
| `DdtpSystem` | composition: `ddtp-cli` (`client.cpp`) in the place of the server's arbitrary client |
| `Cxxopts` | `cxxopts.hpp` as used: arguments, options, the parser of integers |
| `DdtpPayload` | `payload.cpp`, `serdes.cpp`: names and numbers in a payload |
| `DdtpStartup` | both programs up to the answer of the LOAD_REQUEST |
| `ProtEnc` | `protenc.h`: transitions and queries of a typestate |
| `DdtpRecord` | layouts of an event, attributes, the record builder, its checksum, the csv line |
| `DdtpRecordPath` | one record from the access to the line: handler, dedup, write and read loops |
| `DdtpPrograms` | composition: `DdtpStartup`, and once the client reads, `DdtpRecordPath` |
| `MCDdtpServer`, `MCDdtpSystem`, `MCDdtpPrograms` | records, crcs, command lines and accesses for TLC |
| `DdtpLocksProofs`, `DdtpServerProofs`, `DdtpDeliveryProofs`, `DdtpStateLockProofs`, `DdtpSystemProofs`, `DdtpStartupProofs`, `DdtpRecordProofs`, `DdtpProgramsProofs` | theorems and proofs |

`DdtpLocks` implements `BinaryFlag` with `raised` the flag and `blocked` the
threads inside a block. That is why `DdtpServer` and `DdtpStateLock` take a
block or a signal as one step.

`DdtpServer` implements `DdtpSession` with `client` the number of sessions,
`answer` the answer written, `reported` the events read from the descriptor and
`delivered` the records written. `DdtpSession` has no thread, flag, queue or
failure: clients come one after the other, each gets one answer, and after a
good one the first report of each crc as soon as it has been looked at. What it
adds to the invariants is that they hold step by step: no answer and no record is
taken back, none is given to a client after the next has come, and none tells
of a reference that was taken. What it says of records is `DdtpDelivery`.

`DdtpRecordPath` implements `DdtpDelivery` too, with `reported` the records
that were built (`built`) and `delivered` those handed to the socket. The
server with its threads and the handler with its fields keep one promise about
records; in the first a record is an atom, in the second it is what
`calc_crc` was given.

`DdtpStateLock` implements `DdtpStateAtomic`: `is`, validation and
`process_event` with their locks, and with the stray unlock, do nothing that
the three threads could not do with each visit to the machine in one step.
`DdtpServer` takes those steps.

There are two compositions because the questions are of two kinds.
`DdtpSystem` has every thread, and a record is an atom with a crc.
`DdtpPrograms` has one handler and no other thread, and a record is its
fields, a payload its bytes, an option its digits. `DdtpSystem` takes three
things for granted that `DdtpPrograms` shows: that a crc stands for a record
(`OnlyCopiesDropped`), that payloads follow each other on the connection
(`StreamIsWhole`), and that the two programs have found each other
(`ConnectsWhereTold`).

### DdtpServer and the code

One program counter per thread: `mainPc` for `dinterrd_accept`, `entryPc` for
`_ddtp_inotify_entry_point`, `watchPc[s]` and `asyncPc[s]` for the watcher and
the async thread of session `s`. Only one entry thread exists, because it is
joined; the other two may outlive their session, so they and their inotify
queue (`kq[s]`) are indexed by it. The remaining variables carry the names of
the code or are explained where they are declared. `taken` is a history
variable.

An action is what a thread does between two points where another one can
notice: a lock/unlock pair around one `is` or `process_event`, one call of the
flag API, one library call with its error branch, one record. Within such a
step:

- the accesses to `gdm` and `ddtp_ref_count` under their own mutexes are
  atomic. `_ddtp_data_dedup_update` is two critical sections, but only the
  entry thread touches `gdm`;
- validation together with the `terminate` that follows a refusal is one step.
  `DdtpStateLock` splits it, and `sm_lock` with it, and shows that nothing is
  lost by joining them (`ImplementsAtomic`);
- a payload arrives whole (`DdtpRecordPath` has it in parts), and one inotify event fits the 130 byte buffer at a
  time. An event with a name may not fit (`Oversize`): `read` fails with
  EINVAL and the event stays.

Faults are parameters: `Faults` lists the library calls that may fail in an
instance. `poll_eintr` is there because the code has a branch for it; the
program installs no signal handler today. `calloc` and `malloc` failures are
the code's own error branches.

What is undefined in the code is a choice in the model. Between two sessions
the state machine a left over watcher looks at is a dead stack object, and
`WatchLook` may read any state there. During the next session it is that
session's machine, since the frame is the same. A read after the client has
left returns no bytes, which the code takes for a payload of type 0
(`Receive`). A write then is lost or raises SIGPIPE, which ends the process
(`BrokenPipe`).

Bounds: `MaxSessions`, `MaxRequests` per client, `MaxEvents` in the run. They
appear only in guards of the environment and of accept. Threads are never cut
off.

The definitions marked `Bug:` are not part of any specification. Each is a
plausible mistake in the definition that follows it, and is there to show that
a property notices the mistake.

### DdtpStateLock and the code

It starts where the entry thread has just created the async thread. `tellers`
is the set of states for which the entry thread's `is` said yes. Validation
(`Receive`) is a step without the lock; `process_event` is a step that reads
the state and a step that writes the next one. `Unlock` frees the mutex
whoever holds it, which is what glibc does with a normal mutex. The kernel
always has an event for `Poll`, and a round of data is one step: more events
give more interleavings of the machine, not fewer.

### DdtpSystem and the code

`DdtpSystem` extends `DdtpServer`. The server's steps are taken as they are;
its environment is replaced by the loop of `dinterrd_connect`. `cPc` is the
client's place: `load` (connected), `answer` (LOAD_REQUEST written), `close`,
`read` (inside the do-while), `round` (after it), and the three ways to end.
`csm` is its state machine, `iter` is `iter_count` (cut at the value of `-i`,
where its effect ends), `csv` the file. The connection is `inbox` one way and
`reply` followed by `sent` the other; `nRead` counts the records read.

- `poll` sees what has arrived, which may be any part of what was sent
  (`AfterRecord`).
- `ddtp_client_process_response` takes a record whose crc is 0 for the zeroed
  buffer of a read that got nothing, and `dinterrd_connect` then stops
  iterating (`ReadZeroCrc`). The record does not get to the file.
- A write after the server has closed is lost, and TCP answers it with a reset
  (`reset`); so it does when the server closes with requests unread
  (`Aborted`), and such a reset may overtake records. A write after the reset
  raises SIGPIPE (`Killed`).
- The user may stop the client at any time (`Interrupts`).

The client of the running session is followed from `connect` to its end.

### DdtpStartup and the code

`pc[p]` is where program `p` is: in `parse` (at an argument), in `number` (at a
digit), after it in `main` (`parsed`), in `dinterr_sock_create` (`create`), and
on. `status` is its exit status, 1 for an exception that `main` catches.

- A command line is a sequence of arguments as `option_matcher` sees them: the
  regular expression itself is not modelled, its groups are. `current` and
  `letter` are the loop variables of `OptionParser::parse`; one option or one
  letter of a bundle is a step, one digit is a step. `values` and `given` are
  what `ParseResult` keeps.
- `NextResult` is `result * base + digit` at the width of the type, `Overflows`
  the comparison the code makes with it. `written` is a history variable: the
  number without a width.
- The address a word stands for is the word itself if it is dotted
  (`Dotted`). `inet_addr` makes the broadcast address of any other word, and
  Linux binds to that; `inet_aton` leaves what `dinterr_sock_init` wrote. A
  connection to 0.0.0.0 goes to the machine itself. Both programs run on one
  machine, whose addresses are `Local`.
- A server that is told port 0 is bound to a port the kernel picks (`BindPorts`,
  from `Ephemeral`). Nothing tells the user which, but a client may be given it.
- `ServerLoad(code)` is `_ddtp_load_file_inotify` and what `load_wait` does with
  its result: the calls before `inotify_add_watch` may fail (1, 2), it fails
  for a name that is no file (3), and what comes after may fail (8, 9).
- `SetupFaults` lists the other calls that may fail.

### DdtpRecordPath and the code

A record is a function of the fields that have been assigned; each modifier adds
its own (`Assign`), so a checksum over uninitialised memory would show as one
over a field that is not there. `Chain` is the order of the calls in
`__handle_inotify_events`, and each is a step through `CallTransition` of
`ProtEnc`. That the typestates admit this order is settled by the C++ compiler
(`dataproto.cpp:163-191`): no step asks for it, and `ChainCompiles` in
`DdtpRecordProofs` is what the compiler finds. `KernelLayout` and `UserLayout` are the two orders of the same eight
fields; `Event` reads with one what `CopyToUser` wrote with the other.

`Crc32` is a constant operator on what `calc_crc` feeds it. `gdm` has the crcs,
`gq` the records. `copies` counts the heap objects `calc_crc` returns and
nobody deleted. `handled` and `built` are history variables: the events that
`__handle_inotify_events` has looked at, and the records it has built.

A payload of 130 bytes is three units (the crc, the rest of the 72 bytes, what
lies behind them); a unit is its place in the stream. `WriteUnits(k)` is one
`write` that takes `k` of what it is offered, `ReadResponse(k)` one `read` that
returns `k`: three units are enough to split a payload before, inside and
behind the record.

The events are those of the session's file. An event other than an access has
anything for its extra data (`OtherEvent`), since the server watches
IN_ALL_EVENTS and the kernel patch sets extra data for accesses only.

## 3. Runs

Every run sets `CHECK_DEADLOCK FALSE`: calls, requests, events and sessions are
bounded, so runs end, a program may exit, and a session whose file stays idle
really stops (see `unload`).

| Run | Shows | Size |
|---|---|---|
| `locks` | mutual exclusion, no lost wakeup, refinement of the fair flag, with three threads of two calls each | 7.7k states |
| `sessions` | two sessions, any client, failing threads and calls, an async thread that may not be made: what each client gets, step by step as in `DdtpSession`, nothing is left over, also beside a watcher left behind, what was read is sent before the session ends, and a session whose client left without an unload stays | 2.5M |
| `live` | one session, fair threads, failures before the watcher is made: no mutual wait, queued events are read, an event ends a terminating session | 0.3M |
| `state_lock` | three requests: a branch in every turn, no transition lost, and nothing that `DdtpStateAtomic` does not do | 11k |
| `system` | `ddtp-cli` and the server with failures, also of the read of the descriptor, four records with three crcs, one of them 0, and a user who may stop the client: the csv file lists the first reports of each crc but 0, no request is refused, the watcher is gone when a session ends, only a stopped client can end the server | 1.2M |
| `system_live` | `ddtp-cli` and the server with fair threads, two records of which one has crc 0: a client whose server has closed ends, a queued record gets to the file | 75k |
| `programs` | every pair of 9 and 13 command lines, failing calls, three events, writes and reads of any size: options, addresses, errors, each record from access to line, and step by step `DdtpDelivery` | 0.84M |
| `unload`, `early_unload`, `watchers`, `state_lock_excludes`, `readahead` | violated, see below | |

Why the bounds are enough. Two sessions show what one leaves to the next; a
third finds the same globals. Two requests are the shortest client that
unloads, and every shorter or wrong order of requests is among them. Three
events let a crc repeat between two different ones. In `system` `r2` and `r3`
are different records with one crc, which nothing else tells apart (they are
the symmetry set), and the crc of `r0` is 0, so that a record that cannot be
filed comes before, between or behind others; `sessions`, whose question is what
one session leaves to the next, has two events and two records of different
crcs. Three
threads on a flag are as many as a
session has; two calls each let a signal overtake a waiter that comes back.
With `Iterations = 0` the client of `system` unloads after every record, so
that it repeats the request while the server still serves data;
`system_live` uses 1, where a round passes without a request. `MaxRequests = 4`
stops neither: each UNLOAD_REQUEST to an open connection needs one more record,
and two crcs give two.

In `programs` the command lines have each option in each form, bundled
letters, a value that looks like an option, the same option twice, both bases,
a number with a leading zero, one that is refused, one that wraps unnoticed,
port 0 (for which the kernel picks 9000, which a client may ask for), both
sides of the smallest and the largest int, and each way to be refused.
`MaxInt = 32767` is the smallest int C++ allows; the boundary is the same at
any other. Of the accesses two differ in a read-ahead field only, one has none
and reads to the end of the file, one comes from process 0. One tick of the
clock makes two times. Three events give a record, its copy and another one.
The theorems below do not depend on the bounds.

Fairness. `FairSpec` asks that a thread that can run does run: weak fairness of
the entry thread, of every watcher and async thread, and of the join; in
`DdtpLocks`, of every thread inside `lock.cpp`. That is what a preemptive
scheduler gives threads of equal priority, and mutexes here are held for a few
instructions. Nothing is assumed of clients, of the file's users or of
spurious wakeups. `SystemFairSpec` adds the process `ddtp-cli`, which the same
scheduler runs, and the arrival of a reset. Nobody has to touch the file, and
the user need not stop anything. `DdtpStartup` and `DdtpRecordPath` state no
liveness: that threads and client go on is what the other runs are about.

The model also shows what a client loses at its end. A record that arrives
between the client's last `poll` and a repeated UNLOAD_REQUEST is not read if
that write raises SIGPIPE, and a server that closes with such a request unread
resets the connection. That the csv file holds all that was sent is therefore
not a property here; that it holds nothing else, and no gap, is
(`CsvListsFirstReports`). The one record missing before the end is the one
whose crc is 0, which looks like a read that got nothing; those behind it are
not lost. `LinesTellEvents` speaks of runs in which every read returned a whole
payload: one that does not shifts all later ones, and its line is `Garbled`.

### Where code and comments disagree

- `unload`: an UNLOAD_REQUEST is meant to disconnect the client
  (`thread.cpp:347`). On an idle file the watcher stays in `poll(-1)`, the entry
  thread waits for it at 359, and the server takes no other client.
  `EventEndsSession` in the run `live` is what does hold: one more event frees
  it.
- `early_unload`: the same comment has the server "process any remaining
  records" and then end the session. If the async thread accepts the request
  before the entry thread has served data once, no round raises `data_pend`: the
  entry thread sleeps at 353, the watcher waits for its token, and now even an
  event on the file frees nobody. `RoundBeforeUnload` is what does hold: once a
  record was sent the block at 353 does not wait.
- `watchers`: `lock.h:16` wants one watcher per client. If the async thread
  cannot be made the watcher stays, and `ddtp_locks_init` forgets its
  reference.
- `state_lock_excludes`: `thread.cpp:460` unlocks `sm_lock` where it should
  lock it, and two threads get inside. `state_lock` shows that the flags and
  the transition table still keep the machine right.
- `readahead`: the csv header names two read-ahead columns (`util.cpp:38`).
  `dinterr_inotify.h:44` has the two fields in the other order than the kernel
  patch, so each column holds the other one's number. `LinesTellEvents` is what
  holds of the rest of the line.

Four more have no run of their own. The models behave as the code does; what
the comments say is not stated as a property.

- A request the state does not allow is meant to end the session (comment
  `thread.cpp:126`, test script `netcat_test_server_protocol1.sh:14`).
  `terminate` has a row in `unload_pend` only, so the server reads on
  (`Reject`).
- `ddtp_cli.cpp:31` offers `hostname/ip` for the server. `inet_aton` returns 0
  for a host name where `sockio.cpp:86` looks for -1, so the client asks the
  server of its own machine. `ConnectsWhereTold` says so.
- Records are made of "modified inotify fsnotify_access events"
  (`dataproto.cpp:46`). The server watches IN_ALL_EVENTS (`thread.cpp:33`) and
  skips those with pid 0 only, so an open or a close becomes a record of what
  memory held (`OtherEvent`). `LinesTellEvents` still holds: the line tells
  what the kernel copied out.
- For `dinterr_sock_read` any read of at most `bsize` bytes is done
  (`sockio.cpp:130`), which every read is. If TCP delivers a payload in two, the
  lines from there on tell no event (`Garbled`), so `LinesTellEvents` stops
  there.

## 4. Proofs

All theorems hold for every value of the constants under the named
assumptions. Of the server: `CrcOf` maps records to crcs, the two special
events are not records, bounds and `Iterations` are naturals, `NoThread` is not
a thread; no assumption says that crcs differ or that calls succeed. Of the
programs: `ProgramsAssumption` and `OptionsAssumption` (the two programs and
their options, as in their sources), `CommandLinesAssumption` (arguments are
well-formed records, any number of them, with any digits),
`MaxIntAssumption`, `LocalAssumption` (addresses of the machine are dotted, and
not 0.0.0.0 or the broadcast address), `EphemeralAssumption` (the kernel picks a
port that is not 0), `PathsAssumption` (the empty name is no
file), and that accesses and leftovers of memory are records of numbers. TLC
evaluates each of them in the runs.

`DdtpLocksProofs`: `TypeCorrect`, `MutualExclusion`, `WakeupsAreNotLost`,
`LocksImplementFlag`. Types and `OwnerInside` are inductive. `NoLostWakeup` is
inductive with the types because its set of threads "on the way" includes
those that have yet to test the flag: whoever leaves the set by sleeping found
the flag down, and whoever leaves it by signalling put a sleeper into it.

`DdtpServerProofs` proves one inductive invariant in layers. For each group of
variables a frame lemma names the only actions that change it, so a conjunct
looks at few actions.

- `TypeInv`: `TypeOK`, and no thread or watch belongs to a session that was
  not accepted.
- `EntryControl`: the state of the machine wherever the entry thread is. It is
  needed because the entry thread branches on an older state than the current
  one: it says which changes can have happened since.
- `AsyncControl`: an async thread that reads belongs to the running session,
  and the machine is in `data_ready`. Without it a refusal could end another
  session, or two readers could share a connection.
- `GlobalsControl`: where `gq` and `gdm` may hold something. This gives
  `SessionsStartEmpty`.
- `ReplyControl`: no answer and no record before the machine leaves
  `load_wait`. This gives `OneAnswerBeforeData`.
- `RoundControl`: after a record was sent `data_pend` is up until the first
  block. This gives `UnloadFindsRound`.
- `WatcherControl`: a live watcher belongs to the running session, and once the
  first block has passed `data_pend` is down until that watcher raises it.
  This is why the second block joins the watcher although every round raises
  the same flag; it gives `WatchersJoined`.
- `TokenControl`: while data is served the watcher is alive and has a token or
  is past needing one. This gives `HandshakeStaysAlive`.

`AbandonedSessionsStay` needs no more than these: `EntryControl` says which
branches are left to an entry thread in `load_wait`, `AsyncControl` that the
one reader in `data_ready` is the session's own.

`DdtpDeliveryProofs` has no variables. Its lemmas are about a sequence of
events: which crcs are among them (`Seen`), which are the first of theirs
(`FirstIn`), what it is for another sequence to list those in order (`Lists`),
and what one more event changes (`SeenAppend`, `ListsOld`, `ListsNew`; they use
the cardinality theorems of the library). `EveryRank` and `NextInRank`, by
counting, find the report that comes next, and `ListedOnce` and `WithoutOne`
are for the records a client files.

- The server's last layer (`DeliveryInv`, in `DdtpServerProofs`) says that
  `gdm` is the set of crcs among the events taken (`SeenControl`), that a queued
  record still has its key when it is popped (`QueueControl`), and that
  `sent \o gq` lists the first reports of `taken`. This gives
  `FirstReportsDelivered`. With `GlobalsControl` and `EntryControl`, by which
  the queue is empty wherever the session can turn terminal, it gives
  `RemainingRecordsAreSent`, and with `NextInRank` `ServerImplementsSession`:
  the record popped has the next rank among the first reports. `RefControl` is
  what this needs besides: a session whose file is not loaded holds no
  reference, so no answer is LOAD_ERROR5.
- `FirstsInv` (in `DdtpRecordProofs`) is the same of `built`, without an end of
  session. It gives `RecordPathDelivers`.

`DdtpStateLockProofs` proves `BranchIsChosen` and `UpdatesAreNotLost`. The
invariant does not mention `locked`: the machine moves to `unload_pend` once,
by the async thread, and to X once, by the entry thread, and the second can
only follow the first. Tellers are asked in the order data_ready, load_wait,
unload_pend, so a change between the questions is seen by a later one.
`VisitsAreAtomic` needs the same invariant. The three questions of the entry
thread count as one, at the first of them; a request counts where it is
validated, a transition where it is written; every other step of the lock or
of a visit is a stutter. If the machine moves after the first question, the
first has been answered with yes, and the state told is the one of that moment.

`DdtpSystemProofs` starts with `SystemIsServer`: every behaviour of client and
server is one of the server with its arbitrary client, so all theorems above
hold for the composition (`SystemImplementsSession` says so of the refinement),
and the proofs below use `ServerInv` for free.

- `ReadInv`: the file is the prefix of `sent` that was read, without the one
  record whose crc is 0, if it is among them (`Filing`). That there is at most
  one follows from `FirstReportsDelivered`: a list of first reports has no crc
  twice (`ListedOnce`, `NoneSentTwice`). Together they give `CsvFollowsKernel`;
  `WithoutOne` counts the ranks of the reports around the one that is left out.
- `InboxControl`, `LoadControl`, `DataControl`: until the server has read it,
  the connection holds at most the one LOAD_REQUEST; whatever comes later are
  UNLOAD_REQUESTs, after LOAD_SUCCEED. With `EntryControl` and `AsyncControl`
  of the server this gives `ClientIsAllowed`.
- `LeaveControl`: while a session runs, its connection is closed only by a
  client that was refused, to which nothing is written any more, or by one the
  user stopped. This gives `ServerOutlivesClient`.

`DdtpStartupProofs` has the start of the programs.

- `NumberInv`: while an integer is read, its text is one of the command line,
  the digit at hand is one of its digits, and the result is the number written
  so far modulo the width. That a remainder may be taken after every digit
  instead of at the end is `ModStep`. This gives `NumbersAreRead`: a number
  that fits is never refused, since adding a digit then cannot make the result
  smaller.
- `OptionTypes`: the value of an integer option lies in its type. Needed are
  that options are told apart by their names (`OptionsApart`) and the range
  check after the last digit, on both sides of zero. With `NumberInv` this
  gives `StartTypes`.
- `GivenInv`: each option whose last text has been read has the value that text
  says, modulo its width and exactly if it fits (`ValueKept`); the text being
  read is the last one given for its option, and `written` is what its digits
  say so far (`NumberKept`). What the digits say is given by any function with
  the recursion of `Reads`, so that `SaysAt` goes on by one digit at a time
  and no induction over the text is needed. Defaults come last and fill only
  options without a text (`Settled`). This gives `ValuesAreAsGiven`.
- `StartInv`: the phases of the talk. `TalkInv` says what is on its way,
  watched, met and told in each (`Silent`, `Asked`, `Answered`, `Reading`,
  `Ended`), `SockInv` what each socket was made of. A short that is filled in
  comes out again (`ShortRoundTrips`), so the code that arrives is the one that
  was sent. This gives `ErrorIsTheServers`, `NamedFileIsWatched` and
  `ClientsConnectWhereTold`.
- `ULongSignExtended` says of the one conversion no program uses what it does:
  a value of 2^31 or more comes back with its upper 32 bits set.

`DdtpRecordProofs` has the path of a record.

- `ChecksumCoversRecord`: two complete records that give crc32 the same chunks
  agree in every field. The read-ahead fields are fed only if an attribute is
  set, but the attributes are fed too, and they say whether those fields are 0.
- `RecordInv`: before the `n`-th call of the chain the builder is in the state
  this call starts from and has exactly the fields of the calls before, from
  the event at hand. So every record that is checksummed is complete
  (`KeptInv`); with a count of the copies it gives `LostCopiesCounted`. The
  state of the builder comes from `ChainCompiles`: whatever it wraps, each call
  finds a transition and ends where the next one starts.
- `TypesInv` adds the bounds of the counters, and gives `RecordTypes`.
- `StreamInv`: the `n`-th unit of `stream \o out` comes `n` places after those
  read so far (`ReadSoFar`), and these are whole payloads as long as every read
  was whole. This gives `StreamStaysWhole`.
- `KeptInv`, `LinesInv`: every record queued or sent is the complete record of a
  handled event, every crc in `gdm` has such a record, and every line is that of
  one. With `StreamInv`, which says what a whole read returns, this gives
  `EveryLineTells`.
- `DroppedInv`: a record that was built has one in `sent \o gq` with the same
  fields. It is kept under `NoCollision`: crc32 differs for different chunks,
  among the records of what the kernel can report; `ChecksumCoversRecord` then
  gives `DropsOnlyCopies`, the only theorem with an
  assumption of its own. In the run, crc32 is the identity on its chunks, so
  that only the chunks are put to the test.

`DdtpProgramsProofs` shows that the composition is a behaviour of both parts
(each step of one leaves the other's variables alone), and so that all these
theorems hold of the specification the run checks (`ProgramTypes`,
`ProgramsTellTheirFile`, which has the values of the options too).

Only model-checked: the liveness properties `EventsAreRead`,
`EventEndsSession`, `ClientEnds`, `EventsReachCsv` and the fair half of
`ImplementsFairFlag`, since the prover has no rule for fairness and ENABLED.
Every other property of a passing run is a theorem.

## 5. Not modelled

- The rest of `cxxopts.hpp`, `sml.hpp` and `protenc.h`. The three libraries make
  up most of the lines here. `cxxopts.hpp` also has positional arguments,
  vectors, implicit values other than a bool's, and the layout of the help
  text; `sml.hpp` guards, actions, sub-machines, deferral and thread policies;
  `protenc.h` final transitions (`serialize` of `dataproto.cpp` is declared as
  one and never called). Neither program uses these.
- The regular expressions of `cxxopts.hpp`: how characters make a long option, a
  bundle or a number.
- Error code LOAD_ERROR4 (a payload without data) cannot occur, since the data
  is an array. LOAD_ERROR5 is in the model (`TakeReference`), and no reachable
  state takes that branch (`RefControl` proves it).
- `last_error`, verbose output, the texts of `ddtpError`, how a number is
  printed in the csv file, crc32 itself.
- The descriptors a session leaves open (`thread.cpp:19,33`): a count of them
  would grow by construction.
- A failing `malloc` in the async thread, and failing mutex calls (they fail
  on misuse only, and their results are not looked at). The client's address. A
  failing `accept`, after which the server ends.
- Several clients in the listening socket's backlog: they wait for `accept`.
- Who calls `fsnotify_access` in Linux, the limits of the kernel's event queue,
  and its allocation failures. The patches show the changed lines only.
- The test programs, the traffic scripts and the kernel build scripts.

## 6. Plan

What is left, in this order:

1. In `DdtpSystem`: a client that starts while the one before is still dying,
   and what becomes of events that are in the kernel queue when the client
   unloads (`thread.cpp:347`; `RemainingRecordsSent` speaks of those that were
   read).
2. The byte stream of `DdtpRecordPath` under the requests of `DdtpSystem`: a
   request split over two reads is refused by validation.
3. The limit of the kernel's event queue: an overflow event has no watch and
   its extra data is as uninitialised as any other's.
