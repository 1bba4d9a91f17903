------------------------------- MODULE Monitor -------------------------------
(***************************************************************************)
(* The state files through which clients tell monitors what they do        *)
(* (state.c), and a monitor that polls the directory (mon.c) while clients *)
(* rewrite, remove or abandon their files and process ids are used again.  *)
(***************************************************************************)
EXTENDS Integers, Sequences, FiniteSets

CONSTANTS
    Pid,        \* process ids
    Place,      \* [host, slot]: numbers stand for host names, in the order of strcmp
    MaxNotes,   \* bound: dcc_note_state calls of one client
    MaxStarts   \* bound: clients that get the same process id

ASSUME MonitorAssumption ==
    Place \subseteq [host : Nat, slot : Nat] /\ Pid \subseteq Nat \ {0} /\ MaxNotes \in Nat /\ MaxStarts \in Nat

VARIABLES
    process,    \* who has the process id: "none", "client" or "other"
    notes,      \* calls of dcc_note_state so far
    starts,
    my_state,   \* the client's record
    fd,         \* the client's descriptor: "closed", "linked" or "unlinked"
    file,       \* the state files
    pc,         \* the monitor
    listing,    \* directory entries still to be read
    current,    \* the file it has open
    content,    \* what it has read, or holds although the name is gone
    list,       \* the sorted list
    steady      \* clients that have done nothing since the poll began

clients == <<process, notes, starts, my_state, fd>>
vars == <<clients, file, pc, listing, current, content, list, steady>>

NoFile   == [state |-> "absent", old |-> FALSE]
Truncated == [state |-> "empty", old |-> FALSE]
Written(r) == [state |-> "full", old |-> FALSE, record |-> r]
Linked   == [state |-> "linked"]
NoPid == 0

Unset == [host |-> 0, slot |-> 0]
\* struct dcc_task_state of the client p that works at r.
Task(p, r) == [pid |-> p, host |-> r.host, slot |-> r.slot]
Record == {Task(p, r) : p \in Pid, r \in Place}
FileState == {NoFile} \cup [state : {"empty"}, old : BOOLEAN]
                \cup [state : {"full"}, old : BOOLEAN, record : Record]

Init ==
    /\ process = [p \in Pid |-> "none"]
    /\ notes = [p \in Pid |-> 0] /\ starts = [p \in Pid |-> 0]
    /\ my_state = [p \in Pid |-> Unset]
    /\ fd = [p \in Pid |-> "closed"]
    /\ file = [p \in Pid |-> NoFile]
    /\ pc = "idle" /\ listing = {} /\ current = NoPid
    /\ content = Linked /\ list = <<>> /\ steady = {}

Exists(p) == file[p].state # "absent"

\* Removing a name: descriptors of the file keep what it held.
Detach(p) ==
    /\ file' = [file EXCEPT ![p] = NoFile]
    /\ content' = IF current = p /\ content = Linked /\ Exists(p) THEN file[p] ELSE content

-----------------------------------------------------------------------------
(* Clients *)

Moves(p) == steady' = steady \ {p}

Start(p) ==
    /\ process[p] = "none" /\ starts[p] < MaxStarts
    /\ process' = [process EXCEPT ![p] = "client"]
    /\ starts' = [starts EXCEPT ![p] = @ + 1]
    /\ Moves(p)
    /\ UNCHANGED <<notes, my_state, fd, file, pc, listing, current, content, list>>

\* dcc_note_state: the file is made, or truncated, and then written.
\* The host and slot may be left as they were.
OpenState(p) ==
    /\ process[p] = "client" /\ fd[p] = "closed" /\ notes[p] < MaxNotes
    /\ notes' = [notes EXCEPT ![p] = @ + 1]
    /\ \E r \in Place : my_state' = [my_state EXCEPT ![p] = r]
    /\ fd' = [fd EXCEPT ![p] = "linked"]
    /\ file' = [file EXCEPT ![p] = Truncated]
    /\ Moves(p)
    /\ UNCHANGED <<process, starts, pc, listing, current, content, list>>

WriteState(p) ==
    /\ process[p] = "client" /\ fd[p] # "closed"
    /\ fd' = [fd EXCEPT ![p] = "closed"]
    /\ file' = IF fd[p] = "linked"
               THEN [file EXCEPT ![p] = Written(Task(p, my_state[p]))]
               ELSE file
    /\ Moves(p)
    /\ UNCHANGED <<process, notes, starts, my_state, pc, listing, current, content, list>>

Ends(p) ==
    /\ process[p] = "client"
    /\ process' = [process EXCEPT ![p] = "none"]
    /\ my_state' = [my_state EXCEPT ![p] = Unset] /\ notes' = [notes EXCEPT ![p] = 0]
    /\ fd' = [fd EXCEPT ![p] = "closed"]
    /\ Moves(p)

\* exit(): dcc_remove_state_file
Exit(p) ==
    /\ fd[p] = "closed"
    /\ Ends(p) /\ Detach(p)
    /\ UNCHANGED <<starts, pc, listing, current, list>>

\* A signal: dcc_client_signalled leaves the state file.
Killed(p) ==
    /\ Ends(p)
    /\ UNCHANGED <<starts, file, pc, listing, current, content, list>>

\* Another program gets the process id, and ends.
OtherProcess(p) ==
    /\ \/ process[p] = "none" /\ process' = [process EXCEPT ![p] = "other"]
       \/ process[p] = "other" /\ process' = [process EXCEPT ![p] = "none"]
    /\ Moves(p)
    /\ UNCHANGED <<notes, starts, my_state, fd, file, pc, listing, current, content, list>>

\* dcc_phase_max_age seconds have gone by since the last write.
Age(p) ==
    /\ Exists(p) /\ ~file[p].old
    /\ file' = [file EXCEPT ![p].old = TRUE]
    /\ Moves(p)
    /\ UNCHANGED <<clients, pc, listing, current, content, list>>

-----------------------------------------------------------------------------
(* The monitor *)

\* dcc_mon_poll
Opendir ==
    /\ pc = "idle"
    /\ pc' = "scan" /\ listing' = {p \in Pid : Exists(p)}
    /\ steady' = {p \in Pid : process[p] = "client" /\ notes[p] > 0 /\ fd[p] = "closed"
                               /\ file[p].state = "full" /\ ~file[p].old}
    /\ UNCHANGED <<clients, file, current, content, list>>

\* dcc_mon_do_file: the file may have gone since.
OpenFile(p) ==
    /\ pc = "scan" /\ p \in listing
    /\ listing' = listing \ {p}
    /\ IF Exists(p) THEN pc' = "opened" /\ current' = p ELSE UNCHANGED <<pc, current>>
    /\ UNCHANGED <<clients, file, content, list, steady>>

CloseFile == pc' = "scan" /\ current' = NoPid /\ content' = Linked

Held == IF content = Linked THEN file[current] ELSE content

\* dcc_mon_kill_old: fstat on the descriptor, unlink by name.
TooOld_Not == ~Held.old \* fault model: the comparison the wrong way round
TooOld == Held.old

Fstat ==
    /\ pc = "opened"
    /\ pc' = IF TooOld THEN "kill" ELSE "read"
    /\ UNCHANGED <<clients, file, listing, current, content, list, steady>>

\* Whatever now has the name goes, and with it what a client is writing.
UnlinkOld ==
    /\ pc = "kill"
    /\ file' = [file EXCEPT ![current] = NoFile]
    /\ fd' = [fd EXCEPT ![current] = IF @ = "linked" THEN "unlinked" ELSE @]
    /\ steady' = steady \ {current}
    /\ CloseFile
    /\ UNCHANGED <<process, notes, starts, my_state, listing, list>>

ReadEmpty_Stops == \* fault model: the poll ends at the first bad file
    /\ pc = "read" /\ Held.state = "empty"
    /\ pc' = "scan" /\ current' = NoPid /\ content' = Linked /\ listing' = {}
    /\ UNCHANGED <<clients, file, list, steady>>

\* dcc_mon_read_state: a file that was truncated and not yet written is skipped.
ReadEmpty ==
    /\ pc = "read" /\ Held.state = "empty"
    /\ CloseFile
    /\ UNCHANGED <<clients, file, listing, list, steady>>

ReadState ==
    /\ pc = "read" /\ Held.state = "full"
    /\ content' = Held /\ pc' = "check"
    /\ UNCHANGED <<clients, file, listing, current, list, steady>>

\* dcc_mon_insert_sorted: before the first entry that comes after the new one.
Before(new, old) == old.host > new.host \/ (old.host = new.host /\ new.slot < old.slot)

InsertSorted_Slots(l, new) == \* fault model: hosts not compared
    LET k == Cardinality({j \in DOMAIN l : \A m \in 1..j : l[m].slot <= new.slot})
    IN  SubSeq(l, 1, k) \o <<new>> \o SubSeq(l, k + 1, Len(l))

InsertSorted(l, new) ==
    LET k == Cardinality({j \in DOMAIN l : \A m \in 1..j : ~Before(new, l[m])})
    IN  SubSeq(l, 1, k) \o <<new>> \o SubSeq(l, k + 1, Len(l))

\* dcc_mon_check_orphans: kill(pid, 0).  It is not asked for DCC_PHASE_DONE, a phase
\* that no client notes.
CheckOrphans ==
    /\ pc = "check"
    /\ list' = IF process[content.record.pid] # "none" THEN InsertSorted(list, content.record)
               ELSE list
    /\ CloseFile
    /\ UNCHANGED <<clients, file, listing, steady>>

Closedir ==
    /\ pc = "scan" /\ listing = {}
    /\ pc' = "show"
    /\ UNCHANGED <<clients, file, listing, current, content, list, steady>>

\* The list is printed; the monitor sleeps and starts again.
Show ==
    /\ pc = "show"
    /\ pc' = "idle" /\ list' = <<>> /\ steady' = {}
    /\ UNCHANGED <<clients, file, listing, current, content>>

-----------------------------------------------------------------------------
Client(p) ==
    \/ Start(p) \/ OpenState(p) \/ WriteState(p) \/ Exit(p) \/ Killed(p)
    \/ OtherProcess(p) \/ Age(p)

Poll ==
    \/ Opendir \/ (\E p \in Pid : OpenFile(p)) \/ Fstat \/ UnlinkOld \/ ReadEmpty
    \/ ReadState \/ CheckOrphans \/ Closedir \/ Show

Next == Poll \/ \E p \in Pid : Client(p)

Spec == Init /\ [][Next]_vars

\* The monitor keeps polling, and time passes.
FairSpec == Spec /\ WF_vars(Poll) /\ \A p \in Pid : WF_vars(Age(p))

-----------------------------------------------------------------------------
Shown == {list[k].pid : k \in DOMAIN list}

\* The variables keep their types.
TypeOK ==
    /\ process \in [Pid -> {"none", "client", "other"}]
    /\ fd \in [Pid -> {"closed", "linked", "unlinked"}]
    /\ file \in [Pid -> FileState]
    /\ listing \subseteq Pid /\ current \in Pid \cup {NoPid} /\ steady \subseteq Pid
    /\ list \in Seq(Record)

\* A client that worked quietly during a whole poll, with a state file that was
\* complete and recent, is in the list, with what it last noted: the files that
\* other clients truncate, remove and leave behind meanwhile do not hide it.
\* (dcc_mon_poll: "has to handle any files in there that happen to be corrupt")
NobodyMissed ==
    pc = "show" => \A p \in steady : \E k \in DOMAIN list : list[k] = Task(p, my_state[p])

\* The list is in the order of hosts and slots, and nobody is in it twice,
\* in whatever order readdir gives the files.
ListSorted ==
    \A j, k \in DOMAIN list : j < k => ~Before(list[k], list[j]) /\ list[j].pid # list[k].pid

\* A file that a client left behind, killed by a signal, is removed in the end
\* although no client does it (dcc_mon_kill_old), unless its process id is used
\* by a new client.
OrphansRemoved ==
    \A p \in Pid : (Exists(p) /\ process[p] # "client") ~> (~Exists(p) \/ process[p] = "client")

-----------------------------------------------------------------------------
(* What a comment says that the code does not do *)

\* mon.c:68-72: old files are "leftovers from compilers that died off", and a
\* long compilation is told from these by "the check that the process exists".
\* dcc_mon_kill_old makes no such check.
OnlyLeftoversRemoved == pc = "kill" => process[current] # "client"
=============================================================================
