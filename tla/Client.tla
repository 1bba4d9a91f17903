------------------------------- MODULE Client -------------------------------
(***************************************************************************)
(* The distcc client: dcc_build_somewhere (compile.c) run by many client   *)
(* processes at once (make -j), with the slot locks of lock.c and where.c, *)
(* the local-lock hand-over to dcc_compile_remote (remote.c), the backoff  *)
(* marks of backoff.c and the discrepancy counter of compile.c.            *)
(*                                                                         *)
(* The clients share nothing but the lock directory.  A slot lock is an    *)
(* fcntl lock on the file cpu_<host>_<slot>: it belongs to a process, it   *)
(* is not inherited by the children the process spawns, and the kernel     *)
(* drops it when the process ends, however it ends.                        *)
(***************************************************************************)
EXTENDS Integers, Sequences, FiniteSets

CONSTANTS
    Client,        \* the client processes
    Remote,        \* the compile servers a host list may name
    Local,         \* the hostname "localhost" in lock file names
    NoHost,        \* host == NULL
    NoLock,        \* a lock file descriptor equal to -1
    NoClient,      \* a lock file nobody has locked
    HostList,      \* the parsed DISTCC_HOSTS
    NSlots,        \* n_slots of each host in the list
    LocalSlots,    \* dcc_hostdef_local->n_slots
    LocalCppSlots, \* dcc_hostdef_local_cpp->n_slots
    MaxCpu,        \* the scan of dcc_lock_one stops here (50 in the code)
    Down,          \* hosts with the ",down" option (is_up == 0)
    Pump,          \* hosts with the ",cpp" option (DCC_CPP_ON_SERVER)
    Recursive,     \* clients started by another distcc (sg_level > 0)
    MaxDiscrepancies, \* bound on the length of the discrepancy file
    Faults         \* the failures and unusual settings that may occur

FaultKind == {"tmpfile", "lock", "kill", "include_server", "spawn", "wait", "net",
              "cpp", "compiler", "stderr", "no_fallback"}

Hosts == Remote \cup {Local}
LockFile == Hosts \X (0..MaxCpu-1)

ASSUME ConstantsAssumption ==
    /\ Local \notin Remote /\ NoHost \notin Hosts
    /\ NoLock \notin LockFile /\ NoClient \notin Client
    /\ HostList \in Seq(Hosts)
    /\ NSlots \in [Hosts -> Nat \ {0}]
    /\ LocalSlots \in Nat \ {0} /\ LocalCppSlots \in Nat \ {0}
    /\ MaxCpu \in Nat \ {0}
    /\ Down \subseteq Remote /\ Pump \subseteq Remote
    /\ Recursive \subseteq Client
    /\ MaxDiscrepancies \in Nat
    /\ Faults \subseteq FaultKind

VARIABLES
    pc,        \* where in dcc_build_somewhere each client is
    locked,    \* the kernel's table: lock file -> process
    cpu_lock,  \* cpu_lock_fd, as the file it is open on
    local_lock,\* local_cpu_lock_fd
    want,      \* which call of dcc_lock_one is running
    list,      \* the host list left by dcc_remove_disliked
    i_cpu, i_h,\* the two loop counters of dcc_lock_one
    host,      \* the chosen host
    cpp_where, \* host->cpp_where of this process's copy of the host
    cpp, cc,   \* the preprocessor and the local compiler child
    status,    \* wait status of cpp or of the remote compiler
    remote_ret, ret,
    shown,     \* server-side stderr has been copied to the user
    backoff,   \* hosts whose backoff file is younger than the period
    discrepancies \* length of the discrepancy_counter file

locks == <<locked, cpu_lock, local_lock>>
search == <<want, list, i_cpu, i_h>>
kids == <<cpp, cc>>
result == <<status, remote_ret, ret, shown>>
vars == <<pc, locks, search, host, cpp_where, kids, result, backoff,
          discrepancies>>

Label == {"start", "remove_disliked", "lock_one", "adjust", "include_server",
          "spawn_cpp", "strip_args", "connect", "send", "wait_cpp", "send_i",
          "retrieve", "enjoyed", "unlock_host", "critique", "fallback",
          "unlock_remote", "unlock_local", "give_up", "run_local",
          "compile_local", "unlock_and_clean_up", "clean_up", "done", "killed"}
ChildState == {"none", "running", "ok", "error", "fatal", "crash"}
\* Exit codes: "error" and "fatal" are two codes below 128, "crash" any code
\* from 128 up, "internal" one of distcc's own codes of exitcode.h, and
\* "scanned" the 0 of a --scan-includes run.  status is "unset" until a wait
\* status has been stored in it.
Status == {"unset", "ok", "error", "fatal", "crash"}
Ret == {"ok", "error", "fatal", "crash", "internal", "scanned"}
Live == {c \in Client : pc[c] \notin {"done", "killed"}}

TypeOK ==
    /\ pc \in [Client -> Label]
    /\ locked \in [LockFile -> Client \cup {NoClient}]
    /\ cpu_lock \in [Client -> LockFile \cup {NoLock}]
    /\ local_lock \in [Client -> LockFile \cup {NoLock}]
    /\ want \in [Client -> {"host", "cpp", "local"}]
    /\ list \in [Client -> Seq(Hosts)]
    /\ i_cpu \in [Client -> 0..MaxCpu-1]
    /\ i_h \in [Client -> Nat \ {0}]
    /\ host \in [Client -> Hosts \cup {NoHost}]
    /\ cpp_where \in [Client -> {"client", "server"}]
    /\ cpp \in [Client -> ChildState]
    /\ cc \in [Client -> ChildState]
    /\ status \in [Client -> Status]
    /\ remote_ret \in [Client -> Ret]
    /\ ret \in [Client -> Ret]
    /\ shown \in [Client -> BOOLEAN]
    /\ backoff \in SUBSET Remote
    /\ discrepancies \in 0..MaxDiscrepancies

Init ==
    /\ pc = [c \in Client |-> "start"]
    /\ locked = [f \in LockFile |-> NoClient]
    /\ cpu_lock = [c \in Client |-> NoLock]
    /\ local_lock = [c \in Client |-> NoLock]
    /\ want = [c \in Client |-> "host"]
    /\ list = [c \in Client |-> <<>>]
    /\ i_cpu = [c \in Client |-> 0]
    /\ i_h = [c \in Client |-> 1]
    /\ host = [c \in Client |-> NoHost]
    /\ cpp_where = [c \in Client |-> "client"]
    /\ cpp = [c \in Client |-> "none"]
    /\ cc = [c \in Client |-> "none"]
    /\ status = [c \in Client |-> "unset"]
    /\ remote_ret = [c \in Client |-> "ok"]
    /\ ret = [c \in Client |-> "ok"]
    /\ shown = [c \in Client |-> FALSE]
    /\ backoff = {}
    /\ discrepancies = 0

-----------------------------------------------------------------------------
(* Helpers *)

Goto(c, l) == pc' = [pc EXCEPT ![c] = l]

\* dcc_unlock: F_UNLCK drops this process's lock on the file, then close.
Unlocked(c, f) ==
    [g \in LockFile |-> IF g = f /\ locked[g] = c THEN NoClient ELSE locked[g]]

dcc_unlock_cpu(c) ==
    /\ locked' = Unlocked(c, cpu_lock[c])
    /\ cpu_lock' = [cpu_lock EXCEPT ![c] = NoLock]
    /\ UNCHANGED local_lock

dcc_unlock_local_Forgotten(c) == \* fault model: -1 stored, lock kept
    /\ local_lock' = [local_lock EXCEPT ![c] = NoLock]
    /\ UNCHANGED <<locked, cpu_lock>>

dcc_unlock_local(c) ==
    /\ locked' = Unlocked(c, local_lock[c])
    /\ local_lock' = [local_lock EXCEPT ![c] = NoLock]
    /\ UNCHANGED cpu_lock

\* The list dcc_lock_one scans and the number of slots it may use there.
HostsFor(c) == IF want[c] = "host" THEN list[c] ELSE <<Local>>
Candidate(c) == HostsFor(c)[i_h[c]]
SlotsFor_WrongHostdef(c) == \* fault model: dcc_lock_local given the cpp hostdef
    IF want[c] = "host" THEN NSlots[Candidate(c)] ELSE LocalCppSlots
SlotsFor(c) == CASE want[c] = "cpp"   -> LocalCppSlots
                 [] want[c] = "local" -> LocalSlots
                 [] OTHER             -> NSlots[Candidate(c)]

\* sys_lock: an exclusive lock conflicts with other processes' locks only.
sys_lock_ReadLock(c, f) == TRUE \* fault model: F_RDLCK instead of F_WRLCK
sys_lock(c, f) == locked[f] \in {NoClient, c}

\* The slot after i; after the last one dcc_lock_pause and the scan restarts.
NextCpu_NoRestart(i) == IF i + 1 < MaxCpu THEN i + 1 ELSE i
NextCpu(i) == IF i + 1 < MaxCpu THEN i + 1 ELSE 0

\* Enter dcc_lock_one.
BeginLock(c, w) ==
    /\ Goto(c, "lock_one")
    /\ want' = [want EXCEPT ![c] = w]
    /\ i_cpu' = [i_cpu EXCEPT ![c] = 0]
    /\ i_h' = [i_h EXCEPT ![c] = 1]

-----------------------------------------------------------------------------
(* The start of dcc_build_somewhere *)

\* Recursive distcc: run locally and skip all locking.
StartRecursive(c) ==
    /\ pc[c] = "start" /\ c \in Recursive
    /\ Goto(c, "run_local")
    /\ UNCHANGED <<locks, search, host, cpp_where, kids, result, backoff, discrepancies>>

\* dcc_scan_args says the job must be local (linking, -E, assembling ...).
StartLocalOnly(c) ==
    /\ pc[c] = "start" /\ c \notin Recursive
    /\ BeginLock(c, "local")
    /\ UNCHANGED <<locks, list, host, cpp_where, kids, result, backoff, discrepancies>>

\* dcc_make_tmpnam for the server's stderr fails.
StartTmpnamFails(c) ==
    /\ pc[c] = "start" /\ c \notin Recursive
    /\ "tmpfile" \in Faults
    /\ Goto(c, "fallback")
    /\ ret' = [ret EXCEPT ![c] = "internal"]
    /\ UNCHANGED <<locks, search, host, cpp_where, kids, status, remote_ret, shown, backoff, discrepancies>>

\* dcc_pick_host_from_list_and_lock_it begins; i_h walks the parsed list.
StartPick(c) ==
    /\ pc[c] = "start" /\ c \notin Recursive
    /\ Goto(c, "remove_disliked")
    /\ UNCHANGED <<locks, search, host, cpp_where, kids, result, backoff, discrepancies>>

\* One iteration of dcc_remove_disliked: each backoff file is examined in a
\* step of its own, so other clients may mark hosts in between.
dcc_remove_disliked(c) ==
    /\ pc[c] = "remove_disliked" /\ i_h[c] <= Len(HostList)
    /\ list' = [list EXCEPT ![c] = IF HostList[i_h[c]] \in backoff
                                     THEN @ ELSE Append(@, HostList[i_h[c]])]
    /\ i_h' = [i_h EXCEPT ![c] = @ + 1]
    /\ UNCHANGED <<pc, locks, want, i_cpu, host, cpp_where, kids, result, backoff, discrepancies>>

\* All hosts examined: EXIT_NO_HOSTS when none is left, else dcc_lock_one.
NoHostsLeft(c) ==
    /\ pc[c] = "remove_disliked" /\ i_h[c] > Len(HostList) /\ list[c] = <<>>
    /\ Goto(c, "fallback")
    /\ ret' = [ret EXCEPT ![c] = "internal"]
    /\ UNCHANGED <<locks, search, host, cpp_where, kids, status, remote_ret, shown, backoff, discrepancies>>

HostListReady(c) ==
    /\ pc[c] = "remove_disliked" /\ i_h[c] > Len(HostList) /\ list[c] # <<>>
    /\ BeginLock(c, "host")
    /\ UNCHANGED <<locks, list, host, cpp_where, kids, result, backoff, discrepancies>>

-----------------------------------------------------------------------------
(* dcc_lock_one: slot-major, non-blocking, polling for ever *)

\* dcc_lock_host gets the next slot of the scan.
File(c) == <<Candidate(c), i_cpu[c]>>
dcc_lock_host(c) ==
    /\ pc[c] = "lock_one"
    /\ Candidate(c) \notin Down /\ i_cpu[c] < SlotsFor(c)
    /\ sys_lock(c, File(c))
    /\ locked' = [locked EXCEPT ![File(c)] = c]

\* The call from dcc_pick_host_from_list_and_lock_it.
LockHost(c) ==
    /\ want[c] = "host" /\ dcc_lock_host(c)
    /\ cpu_lock' = [cpu_lock EXCEPT ![c] = File(c)]
    /\ host' = [host EXCEPT ![c] = Candidate(c)]
    /\ cpp_where' = [cpp_where EXCEPT ![c] =
                        IF Candidate(c) \in Pump THEN "server" ELSE "client"]

\* localhost is used at once, a server needs a local slot for the
\* preprocessing too.
LockLocalhost(c) ==
    /\ LockHost(c) /\ Candidate(c) = Local
    /\ Goto(c, "run_local")
    /\ UNCHANGED <<local_lock, search, kids, result, backoff, discrepancies>>

LockServer(c) ==
    /\ LockHost(c) /\ Candidate(c) # Local
    /\ BeginLock(c, "cpp")
    /\ UNCHANGED <<local_lock, list, kids, result, backoff, discrepancies>>

dcc_lock_local_cpp(c) ==
    /\ want[c] = "cpp" /\ dcc_lock_host(c)
    /\ local_lock' = [local_lock EXCEPT ![c] = File(c)]
    /\ Goto(c, "adjust")
    /\ UNCHANGED <<cpu_lock, search, host, cpp_where, kids, result, backoff, discrepancies>>

dcc_lock_local(c) ==
    /\ want[c] = "local" /\ dcc_lock_host(c)
    /\ cpu_lock' = [cpu_lock EXCEPT ![c] = File(c)]
    /\ Goto(c, "run_local")
    /\ UNCHANGED <<local_lock, search, host, cpp_where, kids, result, backoff, discrepancies>>

\* Slot not offered, host down or slot busy ...
SlotUnavailable(c) ==
    /\ pc[c] = "lock_one"
    /\ \/ Candidate(c) \in Down
       \/ i_cpu[c] >= SlotsFor(c)
       \/ ~sys_lock(c, File(c))

\* ... on to the next host, and after the last host to the next slot.
TryNextHost(c) ==
    /\ SlotUnavailable(c) /\ i_h[c] < Len(HostsFor(c))
    /\ i_h' = [i_h EXCEPT ![c] = @ + 1]
    /\ UNCHANGED <<pc, locks, want, list, i_cpu, host, cpp_where, kids, result, backoff, discrepancies>>

TryNextSlot(c) ==
    /\ SlotUnavailable(c) /\ i_h[c] >= Len(HostsFor(c))
    /\ i_h' = [i_h EXCEPT ![c] = 1]
    /\ i_cpu' = [i_cpu EXCEPT ![c] = NextCpu(@)]
    /\ UNCHANGED <<pc, locks, want, list, host, cpp_where, kids, result, backoff, discrepancies>>

\* Opening or locking the file fails for another reason than EAGAIN.
LockFails(c) ==
    /\ pc[c] = "lock_one" /\ "lock" \in Faults
    /\ Candidate(c) \notin Down /\ i_cpu[c] < SlotsFor(c)

LockError(c) ==
    /\ want[c] \in {"host", "cpp"} /\ LockFails(c)
    /\ Goto(c, "fallback")
    /\ ret' = [ret EXCEPT ![c] = "internal"]
    /\ UNCHANGED <<locks, search, host, cpp_where, kids, status, remote_ret, shown, backoff, discrepancies>>

\* The result of dcc_lock_local is ignored: the compiler runs unlocked.
LockLocalErrorIgnored(c) ==
    /\ want[c] = "local" /\ LockFails(c)
    /\ Goto(c, "run_local")
    /\ UNCHANGED <<locks, search, host, cpp_where, kids, result, backoff, discrepancies>>

\* dcc_lock_local_cpp reads chosen->hostname although chosen was never set:
\* it may return the error (LockError) or crash.
LockCppErrorCrashes(c) ==
    /\ want[c] = "cpp" /\ LockFails(c)
    /\ Goto(c, "killed")
    /\ dcc_unlock_cpu(c)
    /\ UNCHANGED <<search, host, cpp_where, kids, result, backoff, discrepancies>>

-----------------------------------------------------------------------------
(* Between the two locks and dcc_compile_remote *)

\* dcc_perhaps_adjust_cpp_where_and_protover, then --scan-includes: plain
\* mode once a discrepancy was recorded, or when the input is already
\* preprocessed or CPATH and friends are set (unsuitable).
AdjustCppWhere(c, unsuitable) ==
    /\ pc[c] = "adjust"
    /\ LET where == IF discrepancies >= 1 \/ unsuitable THEN "client" ELSE cpp_where[c]
       IN /\ cpp_where' = [cpp_where EXCEPT ![c] = where]
          /\ Goto(c, IF where = "server" THEN "include_server" ELSE "spawn_cpp")
    /\ UNCHANGED <<locks, search, host, kids, result, backoff, discrepancies>>

ScanIncludes(c, r) ==
    /\ pc[c] = "adjust"
    /\ Goto(c, "unlock_and_clean_up")
    /\ ret' = [ret EXCEPT ![c] = r]
    /\ UNCHANGED <<locks, search, host, cpp_where, kids, status, remote_ret, shown, backoff, discrepancies>>

\* dcc_talk_to_include_server succeeds: include scanning was the local work.
IncludeServerAnswers(c) ==
    /\ pc[c] = "include_server"
    /\ dcc_unlock_local(c)
    /\ Goto(c, "connect")
    /\ UNCHANGED <<search, host, cpp_where, kids, result, backoff, discrepancies>>

IncludeServerFails(c) ==
    /\ pc[c] = "include_server" /\ "include_server" \in Faults
    /\ cpp_where' = [cpp_where EXCEPT ![c] = "client"]
    /\ Goto(c, "spawn_cpp")
    /\ UNCHANGED <<locks, search, host, kids, result, backoff, discrepancies>>

\* dcc_cpp_maybe: no child for an input that is already preprocessed.
dcc_cpp_maybe(c, preprocessed) ==
    /\ pc[c] = "spawn_cpp"
    /\ cpp' = [cpp EXCEPT ![c] = IF preprocessed THEN "none" ELSE "running"]
    /\ Goto(c, "strip_args")
    /\ UNCHANGED <<locks, search, host, cpp_where, cc, result, backoff, discrepancies>>

\* The .i file or the child cannot be created, or (with cpp running)
\* dcc_strip_local_args runs out of memory.
CppSetupFails(c) ==
    /\ pc[c] \in {"spawn_cpp", "strip_args"} /\ "spawn" \in Faults
    /\ Goto(c, "fallback")
    /\ ret' = [ret EXCEPT ![c] = "internal"]
    /\ UNCHANGED <<locks, search, host, cpp_where, kids, status, remote_ret, shown, backoff, discrepancies>>

dcc_strip_local_args(c) ==
    /\ pc[c] = "strip_args"
    /\ Goto(c, "connect")
    /\ UNCHANGED <<locks, search, host, cpp_where, kids, result, backoff, discrepancies>>

-----------------------------------------------------------------------------
(* dcc_compile_remote *)

dcc_remote_connect(c) ==
    /\ pc[c] = "connect"
    /\ Goto(c, "send")
    /\ UNCHANGED <<locks, search, host, cpp_where, kids, result, backoff, discrepancies>>

\* dcc_send_header; in pump mode dcc_x_many_files as well.
dcc_send_header(c) ==
    /\ pc[c] = "send"
    /\ Goto(c, IF cpp_where[c] = "server" THEN "retrieve" ELSE "wait_cpp")
    /\ UNCHANGED <<locks, search, host, cpp_where, kids, result, backoff, discrepancies>>

\* dcc_wait_for_cpp blocks until the child has ended, then the local lock is
\* released; after a cpp failure nothing is sent and the call returns 0.
dcc_wait_for_cpp(c) ==
    /\ pc[c] = "wait_cpp" /\ cpp[c] # "running"
    /\ dcc_unlock_local(c)
    /\ status' = [status EXCEPT ![c] = IF cpp[c] = "none" THEN "ok" ELSE cpp[c]]
    /\ Goto(c, IF cpp[c] \in {"none", "ok"} THEN "send_i" ELSE "enjoyed")
    /\ UNCHANGED <<search, host, cpp_where, kids, remote_ret, ret, shown, backoff, discrepancies>>

dcc_x_file(c) ==
    /\ pc[c] = "send_i"
    /\ Goto(c, "retrieve")
    /\ UNCHANGED <<locks, search, host, cpp_where, kids, result, backoff, discrepancies>>

\* dcc_retrieve_results brings a compiler status s.
dcc_retrieve_results(c, s) ==
    /\ pc[c] = "retrieve"
    /\ s = "ok" \/ "compiler" \in Faults
    /\ status' = [status EXCEPT ![c] = s]
    /\ Goto(c, "enjoyed")
    /\ UNCHANGED <<locks, search, host, cpp_where, kids, remote_ret, ret, shown, backoff, discrepancies>>

\* Any of its steps fails, or the result of cpp is not to be had: "out:" releases
\* the local lock if it is still held (cpp may still be running) and the caller
\* falls back.
RemoteFails(c) ==
    /\ \/ pc[c] \in {"connect", "send", "send_i", "retrieve"} /\ "net" \in Faults
       \/ pc[c] = "wait_cpp" /\ cpp[c] \notin {"none", "running"} /\ "wait" \in Faults
    /\ dcc_unlock_local(c)
    /\ ret' = [ret EXCEPT ![c] = "internal"]
    /\ Goto(c, "fallback")
    /\ UNCHANGED <<search, host, cpp_where, kids, status, remote_ret, shown, backoff, discrepancies>>

-----------------------------------------------------------------------------
(* After the remote compilation *)

dcc_enjoyed_host(c) ==
    /\ pc[c] = "enjoyed"
    /\ backoff' = backoff \ {host[c]}
    /\ Goto(c, "unlock_host")
    /\ UNCHANGED <<locks, search, host, cpp_where, kids, result, discrepancies>>

UnlockHost(c) ==
    /\ pc[c] = "unlock_host"
    /\ dcc_unlock_cpu(c)
    /\ Goto(c, "critique")
    /\ UNCHANGED <<search, host, cpp_where, kids, result, backoff, discrepancies>>

\* dcc_critique_status: success needs the server's stderr to be shown too;
\* only a code below 128 is kept in remote_ret for the later comparison.
Critique(c, copied) ==
    /\ pc[c] = "critique"
    /\ copied \/ "stderr" \in Faults
    /\ ret' = [ret EXCEPT ![c] = status[c]]
    /\ remote_ret' = [remote_ret EXCEPT ![c] =
                         IF status[c] \in {"error", "fatal"} THEN status[c] ELSE @]
    /\ shown' = [shown EXCEPT ![c] = status[c] = "ok" /\ copied]
    /\ Goto(c, IF status[c] = "ok" /\ copied THEN "clean_up" ELSE "fallback")
    /\ UNCHANGED <<locks, search, host, cpp_where, kids, status, backoff, discrepancies>>

\* fallback: dcc_disliked_host if a host had been chosen.
dcc_disliked_host_NoCheck(c) == \* fault model: "if (host)" missing
    /\ pc[c] = "fallback"
    /\ backoff' = backoff \cup {host[c]}
    /\ Goto(c, "unlock_remote")
    /\ UNCHANGED <<locks, search, host, cpp_where, kids, result, discrepancies>>

dcc_disliked_host(c) ==
    /\ pc[c] = "fallback"
    /\ backoff' = backoff \cup ({host[c]} \ {NoHost})
    /\ Goto(c, "unlock_remote")
    /\ UNCHANGED <<locks, search, host, cpp_where, kids, result, discrepancies>>

FallbackUnlockRemote_Skipped(c) == \* fault model: the host's lock is kept
    /\ pc[c] = "unlock_remote"
    /\ Goto(c, "unlock_local")
    /\ UNCHANGED <<locks, search, host, cpp_where, kids, result, backoff, discrepancies>>

\* The host's lock goes first, the local one second.
FallbackUnlockRemote(c) ==
    /\ pc[c] = "unlock_remote"
    /\ dcc_unlock_cpu(c)
    /\ Goto(c, "unlock_local")
    /\ UNCHANGED <<search, host, cpp_where, kids, result, backoff, discrepancies>>

FallbackUnlockLocal(c) ==
    /\ pc[c] = "unlock_local"
    /\ dcc_unlock_local(c)
    /\ Goto(c, "give_up")
    /\ UNCHANGED <<search, host, cpp_where, kids, result, backoff, discrepancies>>

\* DISTCC_FALLBACK=0 ends the job with the current ret; otherwise
\* dcc_lock_local and a local compilation follow.
FallbackDisabled(c, copied) ==
    /\ pc[c] = "give_up" /\ "no_fallback" \in Faults
    /\ copied \/ "stderr" \in Faults
    /\ shown' = [shown EXCEPT ![c] = copied]
    /\ Goto(c, "clean_up")
    /\ UNCHANGED <<locks, search, host, cpp_where, kids, status, remote_ret, ret, backoff, discrepancies>>

FallbackLocal(c) ==
    /\ pc[c] = "give_up"
    /\ BeginLock(c, "local")
    /\ UNCHANGED <<locks, list, host, cpp_where, kids, result, backoff, discrepancies>>

-----------------------------------------------------------------------------
(* dcc_compile_local and the end of the job *)

\* dcc_spawn_child starts the compiler.
SpawnCompiler(c) ==
    /\ pc[c] = "run_local"
    /\ cc' = [cc EXCEPT ![c] = "running"]
    /\ Goto(c, "compile_local")
    /\ UNCHANGED <<locks, search, host, cpp_where, cpp, result, backoff, discrepancies>>

\* Local result r; a remote failure with another code is a discrepancy and
\* lengthens the counter file (saturating at the model's bound).
LocalResult_NotCritiqued(c, r) == \* fault model: dcc_collect_child's 0 is returned
    /\ ret' = [ret EXCEPT ![c] = "ok"]
    /\ Goto(c, "unlock_and_clean_up")
    /\ UNCHANGED <<locks, search, host, cpp_where, kids, status, remote_ret, shown, backoff, discrepancies>>

LocalResult(c, r) ==
    /\ ret' = [ret EXCEPT ![c] = r]
    /\ discrepancies' =
         IF remote_ret[c] \notin {"ok", r} /\ discrepancies < MaxDiscrepancies
           THEN discrepancies + 1 ELSE discrepancies
    /\ Goto(c, "unlock_and_clean_up")
    /\ UNCHANGED <<locks, search, host, cpp_where, kids, status, remote_ret, shown, backoff>>

SpawnCompilerFails(c) ==
    /\ pc[c] = "run_local" /\ "spawn" \in Faults
    /\ LocalResult(c, "internal")

\* dcc_collect_child returns once the compiler has ended.  Its result is lost if
\* wait4() fails, e.g. because SIGCHLD was ignored when the client was started.
CollectCompiler(c) ==
    /\ pc[c] = "compile_local" /\ cc[c] # "running"
    /\ \E r \in {cc[c]} \cup (IF "wait" \in Faults THEN {"internal"} ELSE {}) : LocalResult(c, r)

\* unlock_and_clean_up: again the host's lock first.
FinalUnlockRemote(c) ==
    /\ pc[c] = "unlock_and_clean_up" /\ cpu_lock[c] # NoLock
    /\ dcc_unlock_cpu(c)
    /\ UNCHANGED <<pc, search, host, cpp_where, kids, result, backoff, discrepancies>>

FinalUnlockLocal(c) ==
    /\ pc[c] = "unlock_and_clean_up"
    /\ cpu_lock[c] = NoLock /\ local_lock[c] # NoLock
    /\ dcc_unlock_local(c)
    /\ UNCHANGED <<pc, search, host, cpp_where, kids, result, backoff, discrepancies>>

CleanUp_OneLock(c) == \* fault model: only cpu_lock_fd is considered
    /\ pc[c] = "unlock_and_clean_up" /\ cpu_lock[c] = NoLock
    /\ Goto(c, "clean_up")
    /\ UNCHANGED <<locks, search, host, cpp_where, kids, result, backoff, discrepancies>>

CleanUp(c) ==
    /\ pc[c] = "unlock_and_clean_up"
    /\ cpu_lock[c] = NoLock /\ local_lock[c] = NoLock
    /\ Goto(c, "clean_up")
    /\ UNCHANGED <<locks, search, host, cpp_where, kids, result, backoff, discrepancies>>

\* dcc_exit: the process ends and the kernel drops whatever it still locks.
Exit(c) ==
    /\ pc[c] = "clean_up"
    /\ Goto(c, "done")
    /\ locked' = [f \in LockFile |-> IF locked[f] = c THEN NoClient ELSE locked[f]]
    /\ cpu_lock' = [cpu_lock EXCEPT ![c] = NoLock]
    /\ local_lock' = [local_lock EXCEPT ![c] = NoLock]
    /\ UNCHANGED <<search, host, cpp_where, kids, result, backoff, discrepancies>>

-----------------------------------------------------------------------------
(* The environment *)

\* A signal ends a client wherever it is; its children run on.
Kill(c) ==
    /\ "kill" \in Faults /\ c \in Live
    /\ Goto(c, "killed")
    /\ locked' = [f \in LockFile |-> IF locked[f] = c THEN NoClient ELSE locked[f]]
    /\ cpu_lock' = [cpu_lock EXCEPT ![c] = NoLock]
    /\ local_lock' = [local_lock EXCEPT ![c] = NoLock]
    /\ UNCHANGED <<search, host, cpp_where, kids, result, backoff, discrepancies>>

CppEnds(c, s) ==
    /\ cpp[c] = "running"
    /\ s = "ok" \/ "cpp" \in Faults
    /\ cpp' = [cpp EXCEPT ![c] = s]
    /\ UNCHANGED <<pc, locks, search, host, cpp_where, cc, result, backoff, discrepancies>>

CompilerEnds(c, s) ==
    /\ cc[c] = "running"
    /\ s = "ok" \/ "compiler" \in Faults
    /\ cc' = [cc EXCEPT ![c] = s]
    /\ UNCHANGED <<pc, locks, search, host, cpp_where, cpp, result, backoff, discrepancies>>

\* dcc_backoff_period passes since the last mark of h.
BackoffExpires(h) ==
    /\ h \in backoff
    /\ backoff' = backoff \ {h}
    /\ UNCHANGED <<pc, locks, search, host, cpp_where, kids, result, discrepancies>>

ExitStatus == {"ok", "error", "fatal", "crash"}

\* The steps dcc_build_somewhere itself takes.
Step(c) ==
    \/ StartRecursive(c) \/ StartLocalOnly(c) \/ StartTmpnamFails(c)
    \/ StartPick(c) \/ dcc_remove_disliked(c) \/ NoHostsLeft(c) \/ HostListReady(c)
    \/ LockLocalhost(c) \/ LockServer(c)
    \/ dcc_lock_local_cpp(c) \/ dcc_lock_local(c)
    \/ TryNextHost(c) \/ TryNextSlot(c)
    \/ LockError(c) \/ LockLocalErrorIgnored(c) \/ LockCppErrorCrashes(c)
    \/ \E u \in BOOLEAN : AdjustCppWhere(c, u)
    \/ \E r \in {"scanned", "internal"} : ScanIncludes(c, r)
    \/ IncludeServerAnswers(c) \/ IncludeServerFails(c)
    \/ \E p \in BOOLEAN : dcc_cpp_maybe(c, p)
    \/ CppSetupFails(c) \/ dcc_strip_local_args(c)
    \/ dcc_remote_connect(c) \/ dcc_send_header(c) \/ dcc_wait_for_cpp(c)
    \/ dcc_x_file(c) \/ \E s \in ExitStatus : dcc_retrieve_results(c, s)
    \/ RemoteFails(c)
    \/ dcc_enjoyed_host(c) \/ UnlockHost(c)
    \/ \E b \in BOOLEAN : Critique(c, b)
    \/ dcc_disliked_host(c) \/ FallbackUnlockRemote(c) \/ FallbackUnlockLocal(c)
    \/ \E b \in BOOLEAN : FallbackDisabled(c, b)
    \/ FallbackLocal(c)
    \/ SpawnCompiler(c) \/ SpawnCompilerFails(c) \/ CollectCompiler(c)
    \/ FinalUnlockRemote(c) \/ FinalUnlockLocal(c) \/ CleanUp(c) \/ Exit(c)

ChildEnds(c) == \E s \in ExitStatus : CppEnds(c, s) \/ CompilerEnds(c, s)

Next ==
    \/ \E c \in Client : Step(c) \/ Kill(c) \/ ChildEnds(c)
    \/ \E h \in Remote : BackoffExpires(h)

Spec == Init /\ [][Next]_vars

\* Every client process is scheduled, compilers and preprocessors end, and
\* connections are bounded by timeouts; nothing else is assumed.
FairSpec ==
    /\ Spec
    /\ \A c \in Client : WF_vars(Step(c)) /\ WF_vars(ChildEnds(c))

-----------------------------------------------------------------------------
(* Properties *)

\* The kernel's lock table and the descriptors the clients believe they hold
\* agree: a running client has locked exactly the files behind cpu_lock_fd
\* and local_cpu_lock_fd, and a finished one has locked none.  A path that
\* resets a descriptor to -1 without dcc_unlock, or unlocks one it goes on
\* using, breaks it.
HeldExactly ==
    \A f \in LockFile, c \in Client :
        (locked[f] = c) <=> (c \in Live /\ f \in {cpu_lock[c], local_lock[c]})

\* lock.c: "Each distcc process should hold no more than two locks at a time;
\* one local lock, and one remote lock", and two processes never work on the
\* same slot.  While both descriptors are open the first is a server's.
SlotExclusive ==
    /\ \A c, d \in Client : c # d =>
          /\ cpu_lock[c] # NoLock => cpu_lock[c] \notin {cpu_lock[d], local_lock[d]}
          /\ local_lock[c] # NoLock => local_lock[c] # local_lock[d]
    /\ \A c \in Client : local_lock[c] # NoLock =>
          /\ local_lock[c][1] = Local
          /\ cpu_lock[c] # NoLock => cpu_lock[c][1] \in Remote

\* No more local compilers run under a live client than the larger of
\* localslots and the slots of a "localhost" entry, although the preprocessor
\* jobs compete for the same lock files (recursive clients take no lock).
LocalLimit ==
    LET limit == IF NSlots[Local] > LocalSlots THEN NSlots[Local] ELSE LocalSlots
    IN Cardinality({c \in Live \ Recursive : cc[c] = "running"}) <= limit

\* Every path through dcc_build_somewhere has closed both descriptors when it
\* reaches clean_up; the kernel's release at exit is never needed.
NoLockAtCleanUp ==
    \A c \in Client : pc[c] = "clean_up" =>
        cpu_lock[c] = NoLock /\ local_lock[c] = NoLock

\* Exit code 0 is only given to a job whose compiler succeeded, remotely with
\* no later local failure, or locally, whatever was recorded on the way.
ExitZeroMeansCompiled ==
    \A c \in Client : (pc[c] = "done" /\ ret[c] = "ok") =>
        \/ cc[c] = "ok"
        \/ cc[c] = "none" /\ status[c] = "ok"

\* Lock order: no client waits for or takes a server slot while it holds a
\* local one ("the remote lock must be acquired first, before the local").
RemoteAcquiredFirst ==
    [][\A c \in Client :
          (cpu_lock'[c] # cpu_lock[c] /\ cpu_lock'[c] # NoLock) =>
              local_lock[c] = NoLock /\ cpu_lock[c] = NoLock]_vars

\* Every job ends, whatever fails on the way: no client polls for ever for a
\* slot that the others will not give back.
JobsFinish == \A c \in Client : <>(c \notin Live)

-----------------------------------------------------------------------------
(* What comments and documents say that the code does not do *)

\* distcc.1: --localslots_cpp "controls how many preprocessors will run in
\* parallel on the local machine".
CppLimit == Cardinality({c \in Live : cpp[c] = "running"}) <= LocalCppSlots

\* compile.c:692: when the server's messages cannot be shown "we pretend we
\* failed remotely".
StderrShownOrFailed ==
    \A c \in Client : (pc[c] = "done" /\ host[c] \in Remote /\ ret[c] = "ok") =>
        shown[c] \/ cc[c] # "none"

\* compile.c:534: picking a host cannot fail, "all failures are masked by
\* returning localhost"; so a list of hosts that are all down ends locally.
DownHostsFallBack ==
    \A c \in Client :
        (pc[c] = "lock_one" /\ want[c] = "host") ~> (pc[c] # "lock_one")

=============================================================================
