------------------------------ MODULE Zeroconf ------------------------------
(***************************************************************************)
(* How clients share one list of hosts found by zeroconf (zeroconf.c): a   *)
(* client that finds no background daemon forks one, the daemon browses    *)
(* for services and rewrites the host file at every change, and clients    *)
(* read it.  They meet only through two files: the lock file, locked       *)
(* without blocking, says that a daemon runs, and the host file is locked  *)
(* for each read and write.                                                *)
(*                                                                         *)
(* The daemon that client c may fork is also called c.                     *)
(***************************************************************************)
EXTENDS Integers, FiniteSets

CONSTANTS
    Client,
    Service,
    MaxEvents, \* bound: services that appear or go
    Faults,    \* what may go wrong
    Nobody     \* the holder of a lock that is free

ASSUME ZeroconfAssumption ==
    /\ Nobody \notin Client /\ MaxEvents \in Nat
    /\ Faults \subseteq {"kill", "fork", "lock", "disk", "avahi", "resolver"}

VARIABLES
    lock_file,  \* the process that has locked the lock file
    host_file,  \* "absent", "whole", or "partial" while it is written, and
                \* "abandoned" when that was not finished
    content,    \* the hosts it has
    writer,     \* the daemon that has locked the host file
    readers,    \* clients that have locked it
    cpc,        \* where each client is; "done" when it has returned, with a list or
                \* with an error, or was killed
    dpc,        \* where the daemon it forked is
    hosts,      \* d->hosts of that daemon: the state of each service
    list,       \* the linked list behind it: "sound", "freed" if it has an entry
                \* that was freed, "circular" if it leads back to such a block
    unwritten,  \* the last write_hosts of that daemon has failed
    events,     \* services that have appeared or gone so far
    broken      \* a fork or an open has failed, or a process was killed

files == <<lock_file, host_file, content, writer, readers>>
daemon == <<dpc, hosts, list, unwritten>>
vars == <<files, cpc, daemon, events, broken>>

ClientLabel == {"probe", "unlock", "fork", "wait", "open", "lock", "read", "done"}
DaemonLabel == {"none", "lock", "open", "write_lock", "truncate", "write", "loop", "spin",
                "unlock", "close", "dead"}
ClientProc == {"client"} \X Client
DaemonProc == {"daemon"} \X Client

Unlocked == <<"nobody", Nobody>>

\* The variables keep their types, and a client has only opened a host file that
\* exists.
TypeOK ==
    /\ lock_file \in ClientProc \cup DaemonProc \cup {Unlocked}
    /\ host_file \in {"absent", "whole", "partial", "abandoned"} /\ content \subseteq Service
    /\ writer \in Client \cup {Nobody} /\ readers \subseteq Client
    /\ cpc \in [Client -> ClientLabel]
    /\ \A c \in Client : cpc[c] \in {"lock", "read"} => host_file # "absent"
    /\ dpc \in [Client -> DaemonLabel]
    /\ hosts \in [Client -> [Service -> {"none", "resolving", "resolved", "freed"}]]
    /\ list \in [Client -> {"sound", "freed", "circular"}] /\ unwritten \in [Client -> BOOLEAN]
    /\ events \in 0..MaxEvents /\ broken \in BOOLEAN

\* The host file may have been left by an earlier daemon.
Init ==
    /\ lock_file = Unlocked
    /\ host_file \in {"absent", "whole", "abandoned"} /\ content = {}
    /\ writer = Nobody /\ readers = {}
    /\ cpc = [c \in Client |-> "probe"]
    /\ dpc = [c \in Client |-> "none"]
    /\ hosts = [c \in Client |-> [s \in Service |-> "none"]]
    /\ list = [c \in Client |-> "sound"] /\ unwritten = [c \in Client |-> FALSE]
    /\ events = 0 /\ broken = FALSE

-----------------------------------------------------------------------------
(* The client: dcc_zeroconf_add_hosts *)

ClientGoto(c, from, to) == cpc[c] = from /\ cpc' = [cpc EXCEPT ![c] = to]

\* generic_lock(lock_fd, 1, 1, 0): "there's no daemon running yet" if it
\* succeeds, otherwise the client goes on to read the host file.
Probe(c) ==
    /\ \/ /\ lock_file = Unlocked /\ ClientGoto(c, "probe", "unlock")
          /\ lock_file' = <<"client", c>>
       \/ /\ lock_file # Unlocked /\ ClientGoto(c, "probe", "open")
          /\ UNCHANGED lock_file
    /\ UNCHANGED <<host_file, content, writer, readers, daemon, events, broken>>

\* A lock that fails for another reason looks like a daemon that runs; without
\* the lock file there is no list.
ProbeFails(c) ==
    /\ \/ "lock" \in Faults /\ ClientGoto(c, "probe", "open")
       \/ "disk" \in Faults /\ ClientGoto(c, "probe", "done")
    /\ broken' = TRUE
    /\ UNCHANGED <<files, daemon, events>>

\* The probe's lock is dropped again before the daemon is forked.
UnlockProbe_AfterFork(c) == \* fault model: the child finds its parent's lock
    /\ ClientGoto(c, "unlock", "wait")
    /\ lock_file' = Unlocked
    /\ dpc' = [dpc EXCEPT ![c] = "dead"]
    /\ UNCHANGED <<host_file, content, writer, readers, hosts, list, unwritten, events, broken>>
UnlockProbe(c) ==
    /\ ClientGoto(c, "unlock", "fork")
    /\ lock_file' = Unlocked
    /\ UNCHANGED <<host_file, content, writer, readers, daemon, events, broken>>

ForkDaemon(c) ==
    /\ ClientGoto(c, "fork", "wait")
    /\ dpc' = [dpc EXCEPT ![c] = "lock"]
    /\ UNCHANGED <<files, hosts, list, unwritten, events, broken>>

ForkFails(c) ==
    /\ "fork" \in Faults /\ ClientGoto(c, "fork", "done")
    /\ broken' = TRUE
    /\ UNCHANGED <<files, daemon, events>>

\* One second, in which the daemon may or may not have got anywhere.
Wait(c) ==
    /\ ClientGoto(c, "wait", "open")
    /\ UNCHANGED <<files, daemon, events, broken>>

OpenHostFile_Unchecked(c) == \* fault model: the result of open is not checked
    /\ ClientGoto(c, "open", "lock")
    /\ UNCHANGED <<files, daemon, events, broken>>
OpenHostFile(c) ==
    /\ ClientGoto(c, "open", IF host_file = "absent" THEN "done" ELSE "lock")
    /\ UNCHANGED <<files, daemon, events, broken>>

\* A read lock, for which the client waits.
ReadLock_None(c) == \* fault model: the file is read without a lock
    /\ ClientGoto(c, "lock", "read")
    /\ UNCHANGED <<files, daemon, events, broken>>
ReadLock(c) ==
    /\ writer = Nobody /\ ClientGoto(c, "lock", "read")
    /\ readers' = readers \cup {c}
    /\ UNCHANGED <<lock_file, host_file, content, writer, daemon, events, broken>>

ReadLockFails(c) ==
    /\ "lock" \in Faults /\ ClientGoto(c, "lock", "done")
    /\ UNCHANGED <<files, daemon, events, broken>>

\* fstat, dcc_readx and dcc_parse_hosts, each of which may fail, then unlock
\* and close.
ReadHosts(c) ==
    /\ ClientGoto(c, "read", "done")
    /\ readers' = readers \ {c}
    /\ UNCHANGED <<lock_file, host_file, content, writer, daemon, events, broken>>

ClientStep(c) ==
    \/ Probe(c) \/ UnlockProbe(c) \/ ForkDaemon(c) \/ Wait(c)
    \/ OpenHostFile(c) \/ ReadLock(c) \/ ReadHosts(c)

ClientFault(c) == ProbeFails(c) \/ ForkFails(c) \/ ReadLockFails(c)

-----------------------------------------------------------------------------
(* The daemon: daemon_proc *)

DaemonGoto(d, from, to) == dpc[d] = from /\ dpc' = [dpc EXCEPT ![d] = to]

\* The daemon leaves unless it gets the lock: another daemon has it, or a
\* client that is just probing.
DaemonLock_Blind(d) == \* fault model: the result of the lock is not looked at
    /\ DaemonGoto(d, "lock", "open")
    /\ lock_file' = IF lock_file = Unlocked THEN <<"daemon", d>> ELSE lock_file
    /\ UNCHANGED <<host_file, content, writer, readers, cpc, hosts, list, unwritten, events, broken>>
DaemonLock(d) ==
    /\ DaemonGoto(d, "lock", IF lock_file = Unlocked THEN "open" ELSE "close")
    /\ lock_file' = IF lock_file = Unlocked THEN <<"daemon", d>> ELSE lock_file
    /\ UNCHANGED <<host_file, content, writer, readers, cpc, hosts, list, unwritten, events, broken>>

\* The lock file cannot be opened, or not locked for another reason.
DaemonLockFails(d) ==
    /\ Faults \cap {"lock", "disk"} # {} /\ DaemonGoto(d, "lock", "close")
    /\ broken' = TRUE
    /\ UNCHANGED <<files, cpc, hosts, list, unwritten, events>>

\* O_CREAT, and then write_hosts with no hosts yet clears the file.
DaemonOpen(d) ==
    /\ DaemonGoto(d, "open", "write_lock")
    /\ host_file' = IF host_file = "absent" THEN "whole" ELSE host_file
    /\ UNCHANGED <<lock_file, content, writer, readers, cpc, hosts, list, unwritten, events, broken>>

DaemonOpenFails(d) ==
    /\ "disk" \in Faults /\ DaemonGoto(d, "open", "unlock")
    /\ broken' = TRUE
    /\ UNCHANGED <<files, cpc, hosts, list, unwritten, events>>

\* write_hosts: wait for the lock; it may still be held after a failure.
WriteLock(d) ==
    /\ DaemonGoto(d, "write_lock", "truncate")
    /\ writer \in {Nobody, d} /\ readers = {}
    /\ writer' = d
    /\ UNCHANGED <<lock_file, host_file, content, readers, cpc, hosts, list, unwritten, events, broken>>

\* write_hosts fails.  The daemon does not look at its result.
NotWritten(d) == DaemonGoto(d, dpc[d], "loop") /\ unwritten' = [unwritten EXCEPT ![d] = TRUE]

\* The lock is not to be had: nothing is locked or written.
WriteLockFails(d) ==
    /\ "lock" \in Faults /\ dpc[d] = "write_lock" /\ NotWritten(d)
    /\ UNCHANGED <<files, cpc, hosts, list, events, broken>>

Truncate(d) ==
    /\ DaemonGoto(d, "truncate", "write")
    /\ host_file' = "partial" /\ content' = {}
    /\ UNCHANGED <<lock_file, writer, readers, cpc, hosts, list, unwritten, events, broken>>

\* lseek or ftruncate fails: write_hosts returns and keeps the lock.
TruncateFails(d) ==
    /\ "disk" \in Faults /\ dpc[d] = "truncate" /\ NotWritten(d)
    /\ UNCHANGED <<files, cpc, hosts, list, events, broken>>

Resolved(d) == {s \in Service : hosts[d][s] = "resolved"}

\* One line for each host whose resolver is NULL, which that of a freed entry
\* may seem to be.
Printable(d) == Resolved(d) \cup {s \in Service : hosts[d][s] = "freed"}
WriteHost(d, s) ==
    /\ dpc[d] = "write" /\ s \in Printable(d) \ content
    /\ content' = content \cup {s}
    /\ UNCHANGED <<lock_file, host_file, writer, readers, cpc, daemon, events, broken>>

\* Around a circle the lines are written again and again, until the disk is full.
WriteFails(d) ==
    /\ "disk" \in Faults /\ dpc[d] = "write" /\ NotWritten(d)
    /\ IF list[d] = "circular" THEN Printable(d) # {} ELSE Printable(d) \ content # {}
    /\ host_file' = "abandoned" /\ writer' = Nobody
    /\ UNCHANGED <<lock_file, content, readers, cpc, hosts, list, events, broken>>

\* The end of the list.  A circle has none, and a freed entry may hide what
\* comes behind it.
AtEnd(d) == list[d] = "freed" \/ (list[d] = "sound" /\ Resolved(d) \subseteq content)
WriteUnlock(d) ==
    /\ AtEnd(d) /\ DaemonGoto(d, "write", "loop")
    /\ host_file' = "whole" /\ writer' = Nobody
    /\ unwritten' = [unwritten EXCEPT ![d] = FALSE]
    /\ UNCHANGED <<lock_file, content, readers, cpc, hosts, list, events, broken>>

\* The loop ends when the host file has not been read for MAX_IDLE_TIME, ...
Idle_Never(d) == FALSE \* fault model: while (1)
Idle(d) ==
    /\ DaemonGoto(d, "loop", "unlock")
    /\ UNCHANGED <<files, cpc, hosts, list, unwritten, events, broken>>

\* ... or when the avahi cpc, its browser or its set-up fails.
AvahiFailure(d) == "avahi" \in Faults /\ Idle(d)

\* finish: the lock file first, then the host file.
UnlockLockFile(d) ==
    /\ DaemonGoto(d, "unlock", "close")
    /\ lock_file' = Unlocked
    /\ UNCHANGED <<host_file, content, writer, readers, cpc, hosts, list, unwritten, events, broken>>

\* With the process go its locks and its list.
DaemonEnds(d) ==
    /\ dpc' = [dpc EXCEPT ![d] = "dead"]
    /\ writer' = IF writer = d THEN Nobody ELSE writer
    /\ host_file' = IF writer = d /\ host_file = "partial" THEN "abandoned" ELSE host_file
    /\ lock_file' = IF lock_file = <<"daemon", d>> THEN Unlocked ELSE lock_file
    /\ hosts' = [hosts EXCEPT ![d] = [s \in Service |-> "none"]]
    /\ list' = [list EXCEPT ![d] = "sound"] /\ unwritten' = [unwritten EXCEPT ![d] = FALSE]
    /\ UNCHANGED <<content, readers, cpc, events>>

DaemonCloses(d) == dpc[d] = "close" /\ DaemonEnds(d) /\ UNCHANGED broken

\* Walking a list with a freed entry: the daemon may crash.
Crash(d) ==
    /\ list[d] # "sound" /\ dpc[d] \in {"write", "loop", "spin", "close"}
    /\ DaemonEnds(d) /\ UNCHANGED broken

-----------------------------------------------------------------------------
(* Callbacks of the browser and of the resolvers, run by the loop *)

Callback(d, s, to, label) ==
    /\ dpc[d] = "loop"
    /\ hosts' = [hosts EXCEPT ![d][s] = to]
    /\ dpc' = [dpc EXCEPT ![d] = label]
    /\ UNCHANGED <<files, cpc, unwritten, broken>>

BrowserEvent == events < MaxEvents /\ events' = events + 1

ListBecomes(d, states) == \E x \in states : list' = [list EXCEPT ![d] = x]

\* AVAHI_BROWSER_NEW: the new entry is put in front.  If malloc gives it the
\* block of an entry that was freed and is still on the list, the list leads
\* from there back to the front.
BrowserNew(d, s) ==
    /\ hosts[d][s] \in {"none", "freed"} /\ Callback(d, s, "resolving", "loop") /\ BrowserEvent
    /\ ListBecomes(d, {list[d]} \cup IF list[d] = "freed" THEN {"circular"} ELSE {})

\* AVAHI_BROWSER_REMOVE: remove_service and write_hosts.  A freed entry may hide
\* the one looked for, or be taken for it.  The front of a circle is still
\* referred to by its last entry when it has been removed.
AfterRemove_NotWritten == "loop" \* fault model: no write_hosts
AfterRemove == "write_lock"
BrowserRemove(d, s) ==
    /\ hosts[d][s] # "none"
    /\ \E to \in {"none"} \cup IF list[d] = "sound" THEN {} ELSE {hosts[d][s]} :
           Callback(d, s, to, AfterRemove)
    /\ BrowserEvent
    /\ ListBecomes(d, {list[d]} \cup IF list[d] = "circular" THEN {"freed"} ELSE {})

\* remove_service goes round and round for an entry that is not on the circle.
RemoveSpins(d, s) ==
    /\ list[d] = "circular" /\ hosts[d][s] # "none"
    /\ Callback(d, s, hosts[d][s], "spin") /\ BrowserEvent /\ UNCHANGED list

\* AVAHI_RESOLVER_FOUND
ResolverFound(d, s) ==
    /\ hosts[d][s] = "resolving" /\ Callback(d, s, "resolved", "write_lock")
    /\ UNCHANGED <<list, events>>

\* AVAHI_RESOLVER_FAILURE: free_host, and the entry stays on the list.
ResolverFailure(d, s) ==
    /\ "resolver" \in Faults
    /\ hosts[d][s] = "resolving" /\ Callback(d, s, "freed", "loop") /\ UNCHANGED events
    /\ ListBecomes(d, {IF list[d] = "circular" THEN "circular" ELSE "freed"})

Event(d, s) ==
    \/ BrowserNew(d, s) \/ BrowserRemove(d, s) \/ RemoveSpins(d, s)
    \/ ResolverFound(d, s) \/ ResolverFailure(d, s)

DaemonStep(d) ==
    \/ DaemonLock(d) \/ DaemonOpen(d) \/ WriteLock(d) \/ Truncate(d)
    \/ \E s \in Service : WriteHost(d, s)
    \/ WriteUnlock(d) \/ UnlockLockFile(d) \/ DaemonCloses(d)

DaemonFault(d) ==
    \/ DaemonLockFails(d) \/ DaemonOpenFails(d) \/ AvahiFailure(d)
    \/ WriteLockFails(d) \/ TruncateFails(d) \/ WriteFails(d) \/ Crash(d)

\* The kernel drops the locks of a process that is killed.
KillDaemon(d) ==
    /\ "kill" \in Faults /\ dpc[d] \notin {"none", "dead"}
    /\ DaemonEnds(d) /\ broken' = TRUE

KillClient(c) ==
    /\ "kill" \in Faults /\ cpc[c] # "done"
    /\ cpc' = [cpc EXCEPT ![c] = "done"]
    /\ lock_file' = IF lock_file = <<"client", c>> THEN Unlocked ELSE lock_file
    /\ readers' = readers \ {c}
    /\ broken' = TRUE
    /\ UNCHANGED <<host_file, content, writer, daemon, events>>

Next ==
    \/ \E c \in Client : ClientStep(c) \/ ClientFault(c) \/ KillClient(c)
    \/ \E d \in Client : DaemonStep(d) \/ DaemonFault(d) \/ Idle(d) \/ KillDaemon(d)
    \/ \E d \in Client, s \in Service : Event(d, s)

Spec == Init /\ [][Next]_vars

\* While a daemon keeps the host file locked nobody reads it, and so the
\* daemon is idle after MAX_IDLE_TIME.
IdleLocked(d) == writer = d /\ Idle(d)

FairSpec ==
    /\ Spec
    /\ \A c \in Client : WF_vars(ClientStep(c)) /\ WF_vars(DaemonStep(c)) /\ WF_vars(IdleLocked(c))

-----------------------------------------------------------------------------
(* Properties *)

\* At any time at most one daemon has passed the lock file, although clients
\* fork daemons whenever their probe succeeds: only that one writes the host
\* file.  (daemon_proc's generic_lock against the probe of other clients.)
Browsing(d) == dpc[d] \in {"open", "write_lock", "truncate", "write", "loop", "spin", "unlock"}
OneDaemon ==
    \A d, e \in Client : (Browsing(d) /\ Browsing(e)) => d = e

\* A client never reads a list that is being written: the file it reads is what
\* some daemon finished writing, or what a daemon that failed has left.
NoTornRead == \A c \in Client : cpc[c] = "read" => host_file # "partial"

\* Whenever the daemon waits for events the file is whole and has exactly the
\* hosts that it has resolved, unless its last write_hosts failed or a resolver
\* has failed and left a freed entry on the list: no callback forgets to write,
\* and a failure is made good by the next write.
FileMatchesHosts ==
    \A d \in Client : dpc[d] = "loop" /\ ~unwritten[d] /\ list[d] = "sound"
                        => host_file = "whole" /\ content = Resolved(d)

\* No client waits for ever, not even for a host file that a daemon has locked
\* and, after an error, does not unlock; only for a daemon that goes round a
\* circular list and is not killed.
ClientsFinish ==
    \A c \in Client : \/ <>(cpc[c] = "done")
                      \/ <>[](\E d \in Client : list[d] = "circular")

\* The probes of several clients make each other's daemons leave, but not all
\* of them: in the end some daemon has made the host file, unless a fork or an
\* open failed or a process was killed.
HostsAppear == <>(host_file # "absent" \/ broken)

-----------------------------------------------------------------------------
(* What the code says and does not do *)

\* Every client reads once, so that no daemon is used for ever.
IdleSpec == FairSpec /\ \A d \in Client : WF_vars(Idle(d))

\* "How long shall the background daemon be idle before i terminates itself?"
\* (zeroconf.c:50): a daemon that nobody uses terminates.  It does not when
\* write_hosts or remove_service goes round a circular list.
UnusedDaemonLeaves == \A d \in Client : (dpc[d] # "none") ~> (dpc[d] = "dead")

=============================================================================
