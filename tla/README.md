# A formal model of distcc in toolwhip

toolwhip packages the Mac OS X tool chain (cctools, ld64, headers) for Linux and a
version of distcc that distributes Xcode builds. The tool chain is batch programs
ported by build changes; the concurrent, failure-prone program of the repository
is **distcc** (`src/distcc/src`). This project models it in TLA+, checks the models
with TLC on small instances and proves theorems about the core with TLAPS.

All file names below are in `src/distcc/src` unless said otherwise.

## 1. Inventory

| Component | State | Operations | Interacts through |
|---|---|---|---|
| Client job: `compile.c`, `where.c`, `lock.c`, `cpp.c` | two lock descriptors, chosen host, preprocessor and compiler children, status and return code | `dcc_build_somewhere`: pick and lock a host, lock a local slot, preprocess, compile remotely, fall back, clean up | slot files in the lock directory, shared by all clients of a user; `backoff.c` marks; the discrepancy counter file |
| Backoff: `backoff.c`, `timefile.c` | one time file per disliked host | mark, clear, filter the host list | files shared by all clients |
| Remote job, client: `remote.c`, `clirpc.c` | socket, output and dependency files | send header, files or `.i`; retrieve status, messages, object, dependencies | TCP stream to the server |
| Remote job, server: `serve.c`, `srvrpc.c` | request, temporary files, compiler child, job result | receive, compile, answer, classify | TCP stream; statistics pipe |
| Transport: `io.c`, `rpc.c`, `bulk.c`, `pump.c` | none but the streams | read and write tokens and bodies, time out | sockets |
| Compiler children: `exec.c` | child process | spawn, collect, kill on disconnection or lifetime | `fork`, `waitpid`, `select` |
| Daemon: `dparent.c`, `prefork.c`, `dsignal.c` | pid file, `dcc_nkids`, `dcc_master_pid`, children | detach, fork, reap, terminate; accept, serve, wear out | signals, process group, `atexit`, listening socket |
| Statistics: `stats.c` | pipe, counters, ring of totals, longest job | report, process, serve over HTTP | pipe from the children |
| Temporary files: `cleanup.c`, `tempfile.c` | growing list of names | create, register, remove all, also from a signal handler and from `exit()` of a child that could not exec | signals, `fork` |
| State files and monitors: `state.c`, `mon*.c` | one binary file per client | note state, remove; scan, age out, validate, sort | files, process ids |
| Zeroconf: `zeroconf.c` | lock file, host file, one background daemon per user | probe, fork, browse, rewrite the host file, leave when idle; read | files with locks, Avahi |
| Host list: `hosts.c` | parsed list | parse | environment, files |
| Include server: `../include_server/*.py` | caches of nodes, support records, symbol table, stat caches, kept over all requests of a build | compute the include closure of one compilation; reset | unix socket, `SIGALRM`, the source files |
| Its interface and start: `include_server_if.c`, `../pump.in` | none | one request per compilation | unix socket |
| Arguments: `arg.c`, `strip.c`, ... | none | pure functions over `argv` | |
| Other programs and code | | `lsdistcc.c`, GNOME monitor, `popt`, `lzo`, cctools, ld64, `usr_include`, `distcc_apple`, gcc patches | |

What is hard here:

* **Concurrency without a server for it.** `make -j` starts many clients that share
  nothing but a directory of lock files, taken by polling. A client may hold a
  server slot and a local slot at once.
* **Ownership of a lock handed to a callee.** `dcc_compile_remote` releases the
  caller's local lock at one of two places; the caller keeps a copy of the number.
* **Some twenty failure points** between choosing a host and the result, all of
  which jump to the same fallback code with different locks held and values stored.
* **A stream protocol in which both sides may stop anywhere**: resets in the middle
  of a file, bodies shorter than announced, vanished hosts, timeouts on one side only.
* **Signals, `fork` and `atexit`** in the daemon, and wake-ups that can be missed;
  in the client a handler that walks the list of temporary files at any instruction.
* **A memoizing analysis** that reuses results of one translation unit for another
  under other macros, and may be left in the middle by a timer or an exception.
* **Files as shared memory**: state files and the zeroconf host file are truncated and
  rewritten in place while others read them.

What makes each part correct: the locks agree with the descriptors and are never
leaked, the load limits hold, every job ends and exit code 0 means "compiled"
(client); success means the complete object of this source, a partial file is
left only by a client that dies or cannot remove it, both sides end, statistics tell the truth (remote job); the pool is exact and
recovers, every connection is accepted, no child outlives a killed master, a pid
file that was written names the running master (daemon); the closure has every file the compiler
reads and none it could not read (include server); one daemon, no torn reads, nobody
waits for ever (zeroconf); a signal finds a list it can walk and the end of a process
leaves nothing behind but what could not be removed (temporary files); every working client is shown and leftovers
go (monitor); the totals are those of the jobs (statistics).
`PROJECT.json` lists the hazards with their lines and the properties aimed at them.

## 2. Modules

| Module | Models | Runs |
|---|---|---|
| `Client` (instances in `MCClient`) | many `dcc_build_somewhere` at once over the slot files | `client_locks`, `client_faults`, `client_live` |
| `ClientProofs` | theorems about `Client` | proved by TLAPS |
| `SessionProofs` | theorems about `Session`, and that it implements `RemoteJob` | proved by TLAPS |
| `RemoteJob` | what a remote compilation promises, without a protocol | implemented by `Session` |
| `Session` | one remote job, both sides, over one connection | `session`, `session_email` |
| `Daemon` | launcher, master, children, statistics pipe | `daemon` |
| `DaemonProofs` | theorems about `Daemon` | proved by TLAPS |
| `StatsRing` | the ring of running totals | `stats` |
| `StatsRingProofs` | theorems about `StatsRing` | proved by TLAPS |
| `IncludeAnalyzer` (`MCInclude`: source trees) | the include server's closure algorithm and caches | `include_closure`, `include_partial` |
| `IncludeProofs` | theorems about `IncludeAnalyzer` | proved by TLAPS |
| `Zeroconf` | clients and the daemon that keeps the host file | `zeroconf` |
| `ZeroconfProofs` | theorems about `Zeroconf` | proved by TLAPS |
| `Cleanup` (`MCCleanup`) | the list of temporary files under signals and failures | `cleanup` |
| `CleanupProofs` | theorems about `Cleanup` | proved by TLAPS |
| `Monitor` (`MCMonitor`) | state files and a polling monitor | `monitor` |
| `MonitorProofs` | theorems about `Monitor` | proved by TLAPS |

The modules meet at a few interfaces. `Client` takes a remote job as the steps
connect, send, wait for cpp, send `.i`, retrieve, each of which may fail
(`RemoteFails`) or return a status; `Session` opens up exactly that span of
`remote.c`. `Daemon` takes a job as "ends, is refused, or hangs"; `Session` shows when
each of these happens (`BothEnd`). `RemoteJob` is the promise on which `Client` relies
between connecting and the result. The totals of `StatsRing` are updated by the records
that `Daemon` counts. `IncludeAnalyzer` is behind the step `ScanIncludes` of `Client`,
`Cleanup` behind the end of every process, and `Zeroconf` yields the host list that
`Client` has as a constant.

### Client

State per client: `pc` (labels named after the code's calls and goto labels),
`cpu_lock` and `local_lock` (`cpu_lock_fd`, `local_cpu_lock_fd`, given as the lock
file they are open on, or `NoLock` for -1), the position of the scan of `dcc_lock_one`
(`want`, `list`, `i_cpu`, `i_h`), the chosen `host`, the children `cpp` and `cc`, and
`status`, `remote_ret`, `ret`. Shared: `locked`, the kernel's lock table; `backoff`, the
marked hosts; `discrepancies`, the length of the counter file. One action per call
or jump of the code; each attempt on one slot file is one step, so scans of several
clients interleave at every file. `dcc_remove_disliked` is one step per host.

Abstractions. A lock is an `fcntl` lock: it belongs to the process, is dropped when
the process ends and is not inherited. After a failed `dcc_lock_host` the number of
a closed descriptor may stay in the variable; nothing uses it and it is `NoLock`.
Wait statuses are four classes (ok, two codes below 128, codes from 128 up), which is
what the fallback code tells apart. A recursive client (`sg_level > 0`) compiles at
once without locks. Arguments, file names and the discrepancy mail are left out; the
discrepancy counter is kept up to `MaxDiscrepancies`. The age of a backoff mark is
a nondeterministic expiry. `wait4()` may fail for a child that has ended (it does when
the client was started with SIGCHLD ignored), and its result is then lost.

### Session

A stream is a sequence of items, one per token with its string or body. An item's
value is "whole", "none" for length 0 or "short" for a body of fewer bytes than
announced; reading a short body swallows the following item, or part of it, which
leaves "JUNK". The client walks through `dcc_compile_remote` (`cpc`), the server through
`dcc_run_job` (`spc`), one token at a time. `cc` is the compiler process, `input` what
the server has received, `object` and `deps` the client's files: "old", "absent", "new",
"kept" for a part that could not be unlinked after a failed transfer, "partial" for one
left by a client that died, "wrong" for a complete file that is not of this compilation.

Faults, chosen per run by the constant `Faults`: a reset that cuts either stream at
any item or inside a body; a vanished client or server (no end of file); a client that is
killed, whose socket the system closes; the client's timeout; an unlink that fails
(`bulk.c:293` logs it and goes on); a file that cannot be opened (`open`) or read to its end (`xfile`); local write
errors; failures of cpp, compiler, spawn and of the server's internal calls; the job
lifetime; a failure to store the mail; a server answering with another version.

A body is received in one step. What it is made of in between, the unlink of the old file,
the new one and its growth, only shows when the client dies then: `MidTransfer` has the files
that may be found.

Only the client's socket is non-blocking (`clinet.c:104`), so only its reads time out.
A protocol error on the server reads "a bit more context" from a blocking socket;
every mismatched item has more bytes, so this does not block and is not a step.
`--host-info` requests and ssh are left out.

### Daemon

The launcher and the master run concurrently after `dcc_detach`. The master's `mpc`
follows `dcc_standalone_server`, `dcc_create_kids` (fork and count are two steps),
`dcc_reap_kids` and `dcc_stats_server`; SIGCHLD only has an effect while the master is
in `select()` (`woken`). A fatal signal may reach it between any two steps. A child
accepts, reports to the pipe, serves, reports again; it ends worn out, by a failed
accept, by its alarm, or by the master's signal. The alarm is set before the first report
(`prefork.c:177`) and runs until the next request, so that it may end a child that waits for
room in the pipe; `unreported` counts the connections lost that way. The pid file may fail
to be written, which is only logged (`dparent.c:301-313`): the launcher is then "unsaved". `exit()` runs what was registered with
`atexit` in an ancestor (`PidRemovedAtExit`).

Statistics records are written and read whole, as `PIPE_BUF` guarantees on Linux.
The set `Kid` has one more process than `dcc_max_kids`, so that a master that forks too
many can be seen. `--no-fork` and inetd modes are left out.

### RemoteJob

Four variables: what the server has of the source, the compiler's life, the client's
output file and the outcome. The object is replaced once, only by a compiler that
succeeded on a whole source; success is announced only with the object in place; a
failure may be announced at any time. A part of the object may stay where it could not be
removed, which excludes success, or when the client dies in the middle of it. `Session!ImplementsRemoteJob` maps `input`, `cc`,
`object` and the client's final state onto them, and each step of either side to a
step of the abstract job or to none.

### StatsRing

`dcc_stats_update_running_total` and `dcc_stats_get_compile_totals` with a ring of `N`
slots of `L` seconds (300 and 3 in the code), including the reset after one turn.
`ended` is the reference: for each job the absolute number of the slot in which it was
processed. `lapped` records that two updates were exactly one turn apart, the case
in which the code cannot see that time has passed.

### IncludeAnalyzer

`FindNode` is recursive; `stack` holds its activations and `call` the call or return in
progress, so that a timeout can leave it between any two steps. The `NotCoveredTimeOutError`
that the timer raises clears the caches (`TimeOut`), unless it is raised while a file is
parsed: `parse_file.py:249` catches it there and raises a plain `NotCoveredError`
(`ParseTimeOut`), which `include_server.py:402` does not take for a timeout. The same holds of
an absolute include (`FindNodeNotCovered`) and of a macro whose value is an absolute path
(`ComputedNotCovered`). After these `partial` is true, until the caches are cleared: they may
have nodes that lack children. A file is a directory
and a name, with its quoted, angle, computed and next includes and its definitions.
`node_cache` maps keys (mode, name, current directory, or the real name) to nodes; a node
has its children and a support record, the set of symbols on which it depends.
A new definition of a symbol makes every record that has it invalid (`InvalidateRecords`).
Requests come one after the other, as the server handles them. `StatReset` stands for
a stat-reset trigger, upon which sources may have changed.

Lexing, comments, conditionals (the code ignores them too), mirroring and compression
are left out. A symbol's values are file names; a macro with arguments is not modelled.
`Needed` and `Possible` are the reference: the files the compiler surely reads and those
that some definition of the build could make it read. Both are `Closure`s of graphs of files,
as the answer is one of the graph of nodes. For each file of the command line the compiler
has the `-D` options and the definitions of the files given with `-include` before it and of
the file itself (`Defined`).

The memoization is not sound for every program, and `Tame` says for which it is. A file that has computed includes, or leads to one, (1) is looked for
under one key only, (2) is not below itself and (3) is not the target of an `#include_next`;
and (4) no file of the command line that has or leads to computed includes has before it, with
`-include`, a file that it includes as well: in an earlier request without the `-include` that
file may have been parsed below it, too late for a computed include in front, and without making
a node still being built invalid; the node is then reused although the definitions now come first.
Each of the conditions answers to a counterexample.

### Zeroconf

Clients run `dcc_zeroconf_add_hosts`: probe the lock file, fork a daemon, wait, open,
lock and read the host file. The daemon forked by client `c` is also called `c`; its
steps are those of `daemon_proc`, of the Avahi callbacks (`Event`) and of `write_hosts`
(lock, truncate, write, unlock are separate steps). An abandoned host file is one that
a failed or killed daemon left truncated; `unwritten` says that the last `write_hosts` of a
daemon has failed, for want of the lock or because of the disk.

A resolver that fails frees its host, which stays in the linked list (`zeroconf.c:270`).
`list` has what becomes of the list: "freed" while it leads through a freed block, whose
contents are anything (the walk may stop there, print the block, or crash), and "circular"
once `malloc` has handed the block out for a new host, whose `next` then leads back to it
(`zeroconf.c:325`). `write_hosts` and `remove_service` do not end on a circular list.

### Cleanup

`cleanup.c` assignment by assignment: `cells` are the arrays allocated so far, `live`
those not freed, `names` the indices whose strings are allocated. A handler may start
between any two steps of the program or of another handler (a different signal); it
ends with `raise()`, so it never returns to what it interrupted. A child forked to run
a compiler that cannot be executed leaves through `exit()` and runs the clean-up it
inherited on its copy of the list. A failed `unlink` or `rmdir` is logged and its entry
forgotten (`cleanup.c:103-111`); a `close` that fails leaves a file that was made and is not
registered (`tempfile.c:456`). `lost` has the paths given up in these ways. `dcc_r_file`
removes a registered file when its transfer fails (`ReceiveFails`).

### Monitor

A client truncates, writes, removes or abandons its file; a process id may be used again
by a client or another program. The monitor's `open`, `fstat`, `unlink`, `read` and
`kill(pid, 0)` are separate steps. Host names are numbers in the order of `strcmp`.

## 3. Runs

Runs that pass. Deadlock is checked in `monitor` only: elsewhere clients, sessions and
requests end, and a daemon without clients waits.

| Run | Instance | States | Shows |
|---|---|---|---|
| `client_locks` | two clients and a recursive one, host list "h1 localhost", 1 slot each, 2 cpp slots, network failures and kills, symmetric clients | 377,000 | `HeldExactly`, `SlotExclusive`, `LocalLimit`, `RemoteAcquiredFirst` |
| `client_faults` | two pump-mode clients, one server, every fault | 3.5 million | `TypeOK`, `NoLockAtCleanUp`, `ExitZeroMeansCompiled` |
| `client_live` | two clients, "h1 localhost", network failures and kills | 56,000 | `JobsFinish` |
| `session` | versions 1 to 3, every fault but the mail's | 219,000 | `TypeOK`, `SuccessMeansObject`, `NoPartialObject`, `NoStrayInput`, `StatsTruthful`, `BothEnd`, `ImplementsRemoteJob` |
| `daemon` | 3 processes for 2 children, one request each, pipe of 1, 2 connections, both detach modes, with and without statistics, every fault | 203,000 | `TypeOK`, `NkidsExact`, `StatsExact`, `PidFileNamesMaster`, `Served`, `GroupDies` |
| `include_closure` | 2 directories, 7 names (one absolute), one symbol, 82 source trees, 4 commands, one with an `-include` file, 3 requests with timeouts and stat resets | 179,000 | `TypeOK`, `ClosureComplete`, `ClosureTight`, `EveryRequestAnswered` |
| `zeroconf` | 2 clients, 1 service that appears or goes 3 times, every fault | 433,000 | `TypeOK`, `OneDaemon`, `NoTornRead`, `FileMatchesHosts`, `ClientsFinish`, `HostsAppear` |
| `cleanup` | a file in two nested directories, an array that grows twice, 2 signals, every fault | 261,000 | `SignalSafe`, `NothingLeft` |
| `monitor` | 2 process ids, 2 places, 2 notes and 2 starts each | 655,000 | `NobodyMissed`, `ListSorted`, `OrphansRemoved` |
| `stats` | 5 slots of 2 seconds, totals of 2 and 4 slots, waits up to 12 seconds, 34 seconds | 306,000 | `TotalsTrue` |

Why the bounds are enough. Two clients on one slot produce every conflict over a lock
file, and a second slot every scan that goes past a busy one; the theorems below
remove the bound for the lock properties. `MaxCpu` stands for the 50 of the code
and only needs to exceed the number of slots. A session is finite; nothing is bounded but
the number of jobs. In the daemon 2 connections wear out both children and fill the
pipe; the counters are bounded by the connections made. Of three requests to the include
server the first builds nodes, the second changes what they depend on, and the third
meets both; the trees include aliases, cycles, computed and next includes, and a header that
is given with `-include` and included too. Two clients
are enough for probes that drive out each other's daemons, and three changes for a service
whose resolver fails, that appears again in the same block, is resolved and goes; lists of several
services are covered by `ZeroconfProofs`. The clean-up's array starts
with 1 cell instead of 10 and so grows for the second name; `CleanupProofs` removes the
bounds. The totals pass over the end of the ring three times, and the longest wait exceeds one
turn by a slot, so that the reset and its boundary happen.

Runs that show a disagreement between the code and what it says of itself. In each
the property states the comment or document, and the finding in `PROJECT.json` quotes it:

| Run | What happens |
|---|---|
| `session_email` | a failure to store the mail ends a retrieval with success and no object |
| `include_partial` | a request that fails on an absolute include leaves unfinished nodes in the cache; a later request is answered from them |

Some further statements of comments and documents do not hold of the models. They are
at the end of their modules and no further run is spent on them; the instance in the last column
shows the counterexample:

| Statement | What happens | Instance |
|---|---|---|
| `Client!CppLimit` | a failed connection frees the local slot while the preprocessor still runs (`remote.c:347`; `man/distcc.1:452`) | two slots on one host, `Faults = {"net"}` |
| `Client!StderrShownOrFailed` | with `DISTCC_FALLBACK=0` a job whose messages could not be shown exits with 0 (`compile.c:690`, against `compile.c:692`) | `Faults = {"stderr", "no_fallback"}` |
| `Client!DownHostsFallBack` | a list of hosts that are all down is polled for ever (`where.c:152`, against `compile.c:534`) | `Down = Remote`, `FairSpec` |
| `Session!DepsAlwaysRetrieved` | `clirpc.c:201` stores the truth value of a comparison in `ret`: a lost DOTD token counts as success | `VER_3`, `Faults = {"server"}` |
| `IncludeAnalyzer!ClosureTrusted` | a request that the timer ends while a file is parsed leaves its nodes in the cache too, because the exception is raised anew as one that does not clear them (`parse_file.py:249`, against `include_server.py:404` and `446`) | that of `include_partial` with `Programs <- SharedTrees`, `Faults = {"timeout"}` |
| `Zeroconf!UnusedDaemonLeaves` | a host whose resolver failed is freed and stays in the list; a new host gets the block, the list is circular, and the daemon never leaves, with the host file locked (`zeroconf.c:270`, against `zeroconf.c:50`) | `IdleSpec`, `Faults = {"resolver"}` |
| `Cleanup!FilesStay` | a child that cannot exec leaves through `exit()` and removes the temporary files of its parent, who is at work (`exec.c:269`, against `tempfile.c:395`) | that of `cleanup` with `Faults = {"exec_fails"}` |
| `Daemon!PidFileStays` | under `--no-detach` a worn-out child removes the pid file of the running master (`dparent.c:315`) | one child, `NoDetach = {TRUE}` |
| `Monitor!OnlyLeftoversRemoved` | the files of long compilations are removed with the leftovers (`mon.c:68-72`) | that of `monitor` |

Smaller disagreements that the models contain:

* `compile.c:681-688` and `735-743` release the server's lock before the local one;
  `lock.c:88` asks for the opposite order. Harmless, since locks are polled.
* `remote.c:109` says a failed preprocessor is final; `compile.c:656-673` retries locally
  and dislikes the server.
* `clirpc.c:117` lacks braces, so the version check of the response is dead code.
* `io.c:65` calls `dcc_io_timeout` the timeout for all I/O; on the server's blocking
  socket it never applies.
* A detached master that leaves through `dcc_exit` keeps its pid file, because `atexit`
  was called in the launcher; so does one that gets a signal between `dparent.c:142` and
  `dparent.c:161`.
* `dparent.c:212` says a blocking `dcc_reap_kids` waits for all children; it waits for one.
* `FindNode` tests the validity of the record it has just made, so that an invalid node
  found under its real name is used again; a node that is rebuilt shares its record, so
  that another key of the same file keeps the old children; cycles and the dummy nodes of
  `#include_next` get supports that are too small. `ClosureComplete` therefore speaks of the
  programs of `Tame` only: files that lead to computed includes have one key, are on no
  cycle, are no target of `#include_next` and include no file that is given before them with
  `-include`. And it speaks of caches that no request has left with unfinished nodes
  (`partial`); `include_partial` shows what is wrong with those.
* `-DFOO` without a value is never entered in the symbol table
  (`include_analyzer_memoizing_node.py:311-316`).
* A stat-reset trigger whose path has vanished stays in the trigger map.
* `zeroconf.c:147` and `152` return with the host file locked, so that clients wait
  until the daemon is idle.
* A signal between the creation of a file and its registration leaves the file and its
  directories (`Window` in `NothingLeft`), and so do the failures of `lost`.
* A child that the alarm ends while it waits for room in the pipe never reports its connection
  (`unreported` in `StatsExact`).
* The monitor checks the age of the file it has open and then removes whatever has its name,
  which may be the new file of a client with the same process id; such a client is not quiet in
  the sense of `NobodyMissed`.
* Two updates of the statistics exactly 300 slots apart, without the reset, make jobs of
  15 minutes ago count as recent (`lapped` in `TotalsTrue`).

Each property of a passing run has a mutant: a definition suffixed with what went
wrong (`dcc_unlock_local_Forgotten`, `SelectTimeout_None`, ...), the way a plausible bug
would change the code, under which TLC finds the property violated.

### Fairness

* `Client!FairSpec`: weak fairness for each client's own steps (the operating system
  schedules it, and its connections are bounded by timeouts) and for the end of its
  children (cpp and the local compiler terminate). No fairness for kills or faults.
* `Session!FairSpec`: weak fairness for the steps of the two sides. That the compiler
  ends is *not* assumed, nor a job lifetime, a kill or any failure (`ServerFault`): the client's
  timeout and the server's watch on the socket are what ends both sides. `BothEnd` excepts the
  server of a client that vanished without closing its socket.
* `Daemon!FairSpec`: weak fairness for master, launcher and each child, and for the
  delivery of signals. That `select()` returns after 60 seconds is part of the master's
  steps; without it `Served` fails, because a SIGCHLD just before `select()` is lost.
  Strong fairness for `accept()` says that it does not fail for ever, one failure in
  between included. Failures (of fork, accept, clients) are never assumed to happen.
* `IncludeAnalyzer!FairSpec`: weak fairness for the analysis. That the timer expires is not
  assumed, so `EveryRequestAnswered` shows that the recursion itself ends.
* `Zeroconf!FairSpec`: weak fairness for the steps of clients and daemons, and for a daemon
  that keeps the host file locked to become idle: while it is locked nobody reads it, and the
  daemon leaves when it has not been read for `MAX_IDLE_TIME`. Nothing is assumed of Avahi, nor
  that a daemon crashes: `ClientsFinish` excepts clients behind a daemon that goes round a circular
  list. `IdleSpec`, which is for `UnusedDaemonLeaves` only, adds that every daemon becomes idle, since
  each of the clients reads once.
* `Monitor!FairSpec`: the monitor keeps polling and files grow old.
* `Cleanup` and `StatsRing` have no liveness properties and no fairness.

## 4. Proofs

Eight modules hold theorems. Each has an inductive invariant, which TLC checked on the
module's run before it was proved (except where it says "there is a function such that", in
`IncludeProofs`), one lemma or one step per action that it is preserved,
and the theorems that follow from it. All hold for every value of the constants that
satisfies the named assumption of the module; what else a theorem assumes is said here.

| Module | Theorem | Establishes |
|---|---|---|
| `ClientProofs` | `TypeCorrect` | `[]TypeOK` |
| | `LockTableAgrees` | `[]HeldExactly` |
| | `Exclusion` | `[]SlotExclusive` |
| | `NothingLeaked` | `[]NoLockAtCleanUp` |
| | `LockOrder` | `RemoteAcquiredFirst` |
| | `ZeroMeansCompiled` | `[]ExitZeroMeansCompiled` |
| | `LocalLimitHolds` | `[]LocalLimit`, if `"lock" \notin Faults` |
| `SessionProofs` | `TypeCorrect` | `[]TypeOK` |
| | `NothingStray` | `[]NoStrayInput` |
| | `ObjectIsComplete` | `[]NoPartialObject` |
| | `SuccessIsReal` | `[]SuccessMeansObject`, if `"email" \notin Faults` |
| | `StatsAreTruthful` | `[]StatsTruthful`, if `"email" \notin Faults` |
| | `SessionImplementsJob` | `ImplementsRemoteJob`, if `"email" \notin Faults` |
| `DaemonProofs` | `TypeCorrect` | `[]TypeOK` |
| | `NkidsAreExact` | `[]NkidsExact` |
| | `StatsAreExact` | `[]StatsExact` |
| | `PidFileStaysWithMaster` | `[]PidFileNamesMaster` |
| `ZeroconfProofs` | `TypeCorrect` | `[]TypeOK` |
| | `SingleDaemon` | `[]OneDaemon` |
| | `ReadsWhole` | `[]NoTornRead` |
| | `FileFollowsHosts` | `[]FileMatchesHosts` |
| `CleanupProofs` | `SignalSafety` | `[]SignalSafe` |
| | `NothingIsLeft` | `[]NothingLeft` |
| `MonitorProofs` | `ListIsSorted` | `[]ListSorted` |
| | `NobodyIsMissed` | `[]NobodyMissed` |
| `StatsRingProofs` | `RingInvariant` | `[]IInv`: what each slot of the ring holds |
| | `TotalsCorrect` | `[]TotalsTrue` |
| `IncludeProofs` | `TypesInvariant` | `[]Types`: everything refers to what exists |
| | `TypeCorrect` | `[]TypeOK` |
| | `GraphInvariant` | `[](Types /\ Standing)`: every node stands for what its key looks up |
| | `TightCorrect` | `[]ClosureTight` |
| | `CompleteCorrect` | `[]ClosureComplete` |

### Client

For any set of clients, any host list and any numbers of slots, under
`ConstantsAssumption` (the null values are distinct from the real ones, slot counts are
positive, pump and down hosts are servers). None of the properties is inductive.
`HeldExactly` needs to know that a client that unlocks one descriptor does not drop the
file behind the other, so that the two are never open on the same file: `FdOK` says at
which labels each descriptor may be open and that, while both are, one is a local and
the other a server's file. That in turn depends on the path: pump-mode jobs hold no
local lock when they connect, localhost jobs never reach the remote code (`FlowOK`). The
scan of `dcc_lock_one` always points at a host (`CursorOK`). The inductive invariant is
`IInv == TypeOK /\ CursorOK /\ FlowOK /\ FdOK /\ HeldExactly`. Lemmas state what
locking and unlocking do to `HeldExactly` (`HeldAfterUnlockCpu` and its companions);
the main lemma has one case per action. `Exclusion` and `NothingLeaked` follow from the
invariant, `LockOrder` from it and the two actions that set `cpu_lock`.

A second invariant, `OInv == OutcomeOK /\ SlotOK`, rests on the first. `OutcomeOK`
follows the exit code: a `ret` of 0 in the fallback code comes from a server's success
whose messages could not be shown, one behind `dcc_compile_local` from the local
compiler, and the compiler child lives exactly while the client waits for it. `SlotOK`
says that a client at `dcc_compile_local` has a local file with a number below the larger
of the two slot counts behind `cpu_lock_fd`, unless it is recursive or could not lock.
With `HeldExactly` the files of two such clients differ, so that the map from clients to
slot numbers is an injection into `0..LocalMax-1`, which bounds their number. The
hypothesis `"lock" \notin Faults` is needed: `dcc_build_somewhere` ignores the result of
`dcc_lock_local`, and a client whose lock file cannot be opened compiles all the same.

### Session

For any protocol version and any faults. The properties relate what one side has done to
what the other has, and between the two are the items in flight. `ToServer` and
`ToClient` describe the streams: items come in the order of their tokens (`Rank`), all
below the one that is sent next, and the values a cut or a short body may have. `ServerAt`
and `ClientAt` say what each side knows at each label, e.g. that the server's input stream
is empty and the client is done sending once the compiler starts, and that the status the
client has read is the server's. The inductive invariant is
`IInv == TypeOK /\ ToServer /\ ServerAt /\ ToClient /\ ClientAt`. Frame lemmas say what
appending, consuming and cutting do to an ordered stream; the actions are grouped by the
stream they touch. For the refinement each step of either side is shown to be one of
`RemoteJob` or to leave `input`, `JobCompiler`, `object` and `JobOutcome` as they are, and
the initial states to be initial states. `NoPartialObject` names the two ways to a partial file,
a failed unlink and the death of the client while it receives; both map to steps of `RemoteJob`
that exclude success.

The hypothesis `"email" \notin Faults` says that `dcc_add_file_to_log_email` does not fail.
Without it the three theorems are false: run `session_email` has the counterexample.

### Daemon

For any pool size, length of the pipe, lifetime and number of connections, and any finite
set of process ids (`DaemonAssumption`; cardinalities mean nothing otherwise). `NkidsExact`
counts, so `KidsCounted` is kept by lemmas on how many children are at a set of labels
(`NumberAtStep`), with the child between fork and count apart. For `StatsExact` it is not
enough that no more results than connections are counted now: a result in the pipe would
overtake. `EventsCounted` says it of every beginning of the pipe, and of all records
together with the children that still owe a result; connections that were never reported are
`unreported` and owe none. `PoolOK` bounds forks and requests; `StartOK` has what the launcher
has left behind, which is no pid file if it could not be written. The inductive invariant is
`IInv == TypeOK /\ StartOK /\ PoolOK /\ KidsCounted /\ JobsOK /\ EventsCounted`.

### Zeroconf

For any clients, services, events and faults. `LockOK` gives the lock file to the daemon that
browses or the client that probes, `FileOK` ties each place in reading and writing the
host file to its lock, `WrittenOK` says that what has been written so far is of the daemon's
list, as long as that is sound. The inductive invariant has these, the types and
`FileMatchesHosts`. `OneDaemon` and `NoTornRead` hold with freed entries and circular
lists too: the locks do not depend on the list.

### Cleanup

For any set of paths, any size of the first array, any number of allocations and signals,
under `ConstantsAssumption`. Part of it is a bound of the model: a path has at most two
directories above it. `dcc_mk_tmp_ancestor_dirs` makes any number, from the top down;
`Chain` stops at two, which suffices for a directory to be registered between its own
directory and the file in it, and only these theorems depend on it.

`SignalSafe` is not inductive: it says nothing of the new array before it is installed, of
the name before it is stored, or of the loop indices that decide which cell is cleared
next. `Inv == Types /\ ListOK /\ (handlers = <<>> => MainOK) /\ HandlerOK`. `MainOK` follows
the main program: a grown array has copied every entry in use, the size is raised only
after the new array is in place, a name is stored before it is counted, and is uncounted
before it is freed. It is needed only while no handler runs, because a handler never
returns. `HandlerOK` ties the index of the innermost handler to `n_cleanups`.

`NothingLeft` adds the file system: `TreeOK` (what exists has its directory) and `RecordsOK`
(every path, except the one being registered, those given up and the directories above these,
is on the list, and its directory is not behind it, so that removal from the end finds
directories empty). The exception is larger once a handler runs (`Unlisted`), since the path it
has interrupted will never be registered. `IInv == Inv /\ TreeOK /\ RecordsOK`.

### Monitor

For any process ids, hosts, slots and bounds, under `MonitorAssumption`. The lemmas
`PrefixCount`, `InsertAt` and `InsertKeeps` show what `dcc_mon_insert_sorted` does to any
list: the new entry is put behind the last one in front that does not come after it, order
and entries are kept. `ListOK` has every file listed, open or shown, and never two of these,
without which the same process could be inserted twice. `FilesOK` says whose record a file
has and that it is the last one noted once the client is quiet; `CurrentOK` what the monitor
holds of the file it has open, also after its name has gone. `SteadyOK` follows a quiet client
through the poll: its file is unchanged, and listed, open or already shown.
`IInv == Types /\ FilesOK /\ CurrentOK /\ ListOK /\ SteadyOK`.

### StatsRing

For any ring of at least one slot, any length of the slots, any spans below the size of the
ring and any times, under `RingAssumption`. `TotalsTrue` says nothing of the slots that no
reader has asked for, and a later report is computed from them. The invariant says what every
slot holds: the slot `Age` places after `prev_slot` stands for the absolute slot as many places
after the oldest one that the ring still knows, and holds the number of jobs that ended up to
it (`RingTrue`). It is kept by an update because the slots that are filled are those that the
time since the last update has gone past, and at a reset because no job has ended since the
last update. The reset comes before a whole turn has passed in all cases but one, an update
exactly one turn after the one before; `lapped` marks it, and the invariant is that of
`~lapped`. The lemmas `DivMod`, `DivUnique` and `SlotLater` carry the arithmetic of the ring.

### IncludeAnalyzer

For any directories, names, symbols, source trees and commands, any number of requests and
both faults, under `IncludeAssumption` (source trees are finite and made of files; command
lines have a file). `ClosureComplete` is proved for all caches without the nodes of a request
that was left unfinished, `ClosureTight` for all caches.

*Reachability.* The closures are recursive functions over numbers. That they are the least
sets closed under the edges (`ClosureLeast`, `ClosureClosed`) is an induction, which is made
with a set in place of a predicate: `LeastNat` says that a set of numbers has a least
element, `Induction` that a set which has 0 and successors has all numbers up to a bound.
`ReachExists` has the recursive function itself. Nothing else in the proof is an induction over
data: all else follows from what is closed and what is least.

*What the nodes stand for.* A node is not inspected when it is found in the cache, so that the
proofs need to know of it what the program does not store. The invariants say that there is a
function `h` on the nodes with `h[n].real`, the file, `h[n].nx`, the name whose dummy of
`#include_next` the node is, `h[n].syms`, symbols used in or below it, and `h[n].good`, the
definitions it accounts for. `Graph(h)` says that a node kept under a key stands for what the
key looks up (`KeysOK`), a child for something its parent may include (`EdgesOK`), and the same
of the activations and the call being made (`FramesOK`, `CallsOK`). From this and
`ClosureLeast` follows `ClosureTight`.

*What the nodes account for.* For a tame program `Full(h)` adds that every file with a node has
been parsed and its definitions entered (`ParsedOK`); the files of the activations above another
are below its file (`ChainOK`); a child has used no symbol that its parent has not, accounts for
all the definitions that its parent does, and is not itself being built if it depends on
computed includes (`GhostOK`); everything due for a node, by the definitions it accounts for, is
a child of it, or about to be found by its activation (`PaidOK`); one key alone leads to a file
that depends on computed includes, and no other shares its support record (`UniqueOK`). What
matters most is `FreshOK`: a node in the cache whose record is valid accounts for the `-D` options
of the request and the definitions of all the files parsed so far, except those below it. A new
definition keeps this in one of two ways. Either its symbol is not in the support of a node;
then the node has used no such symbol, nothing more is due, and the definition may be added to
`good`. Or it is, and the record is invalid. The node being built is above the file that makes
the definition, which the exception covers. Here all the conditions of `Tame` are used: with two
keys for a file or a shared record a node could be valid again without having been rebuilt, on a
cycle it could be found before it has its children, and a dummy does not hand up its support.

*The answer.* At the end of a run the stack is empty, so that everything due has been found; the
root accounts for what is `Defined` for it, by `FreshOK` and the condition on the command line, and
with it every node that can be reached. Hence the files of these nodes are closed under includes, and
`NeededFor` is the least such set (`RootComplete`). `CompleteOK` keeps this for the files of the
command line that are done.

### Only model-checked

* All liveness properties (`JobsFinish`, `BothEnd`, `Served`, `GroupDies`, `ClientsFinish` and
  the like, `OrphansRemoved`): fairness and `ENABLED` are out of the prover's reach.

## 5. Not modelled

* Argument scanning, stripping and rewriting, file names, compression, dependency and debug
  information fix-ups: pure transformations of data, without state or concurrency.
* `hosts.c`: `Client` takes the parsed list as a constant. `timefile.c`: `Client` takes the marks
  as a set.
* `lsdistcc`, the GNOME and text front ends, the registration of services, the Xcode
  integration: separate from the compilation, or wrappers of platform services.
* Starting and stopping the include server (`pump.in`), its lexer, mirroring and compression.
  A source that changes without a trigger is outside what the include server promises.
* cctools, ld64, `usr_include`, `distcc_apple` and the gcc patches make up nearly all lines of the
  repository. They are batch programs by others, ported by changes to their build: no
  concurrency, no state that outlives a run, and no logic of this repository.
* SIGKILL in `Cleanup` (nothing can be promised then); `DCC_PHASE_DONE` in `Monitor`, a phase that
  no client notes; and statistics records larger than
  `PIPE_BUF` (Mac OS X) in `Daemon`.

## 6. Plan

Done: all modules of section 2, with the proofs of section 4; every invariant that a passing
run checks is a theorem too.

What could follow, in this order:

1. `Timefile`: `timefile.c` and the operations of `backoff.c`, shown to implement the set
   `backoff` of `Client`.
2. `StatePipe`: statistics records larger than `PIPE_BUF`.
3. `Hosts`: the parser of host definitions and the mapping of features to protocol
   versions as operators.
4. `IncludeServer`: the life of the include server around `IncludeAnalyzer`.
