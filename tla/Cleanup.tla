------------------------------- MODULE Cleanup -------------------------------
(***************************************************************************)
(* The temporary files of one process, client or server child: the growing *)
(* list of names in cleanup.c, the functions of tempfile.c and srvrpc.c    *)
(* that make a file and then register it, dcc_r_file, which takes files    *)
(* away, the removal at the end of a job or at exit, the same removal run  *)
(* from a signal handler between any two assignments of the former, and a  *)
(* forked child that fails to exec and runs the exit handlers it inherited.*)
(*                                                                         *)
(* A step is one assignment to a variable that the handler reads, or one   *)
(* system call.  Arrays are numbered in the order they are allocated (0 is *)
(* the null pointer); the name strdup'ed for slot j is known by j, since a *)
(* slot gets a new name only after its old one was freed.                  *)
(***************************************************************************)
EXTENDS Integers, Sequences, FiniteSets

CONSTANTS
    Paths,        \* the files and directories this process may make
    Parent,       \* the directory each of them is in; NULL: the temporary directory
                  \* (bound: at most two directories above a path)
    NULL,
    InitialSize,  \* the length of the first array (10 in cleanup.c)
    MaxArrays,    \* bound: arrays allocated
    MaxSignals,   \* bound: handlers nested (three signals are caught)
    Faults        \* the failures that may happen: a malloc, a system call on a
                  \* file, an exec, a transfer into a file

ASSUME ConstantsAssumption ==
    /\ NULL \notin Paths
    /\ Parent \in [Paths -> Paths \cup {NULL}]
    /\ \A p, q, r \in Paths : Parent[p] = q /\ Parent[q] = r => Parent[r] = NULL
    /\ InitialSize \in Nat \ {0}
    /\ MaxArrays \in Nat
    /\ MaxSignals \in Nat
    /\ Faults \subseteq {"no_memory", "io_error", "exec_fails", "transfer"}

VARIABLES
    fs,             \* the paths that exist
    lost,           \* those that the process has given up after a failed call
    cleanups,       \* the array in use
    cleanups_size,
    n_cleanups,
    live,           \* the arrays that are allocated
    cells,          \* what each array holds
    names,          \* the slots whose name is allocated
    pc,             \* where the main program is
    todo,           \* the paths it still has to make, ancestors first
    i,              \* the loop variable of dcc_cleanup_tempfiles
    handlers,       \* the handlers running, the innermost last
    alive,          \* the process exists
    save,           \* $DISTCC_SAVE_TEMPS
    child,          \* the child forked to run the compiler
    childList       \* its copy of the list

arrays   == <<cleanups, cleanups_size, n_cleanups, live, cells, names>>
children == <<child, childList>>
files    == <<fs, lost>>
vars == <<files, arrays, pc, todo, i, handlers, alive, save, children>>

-----------------------------------------------------------------------------
Arrays == 0 .. MaxArrays

Init ==
    /\ fs = {} /\ lost = {}
    /\ cleanups = 0 /\ cleanups_size = 0 /\ n_cleanups = 0
    /\ live = {} /\ cells = [a \in Arrays |-> <<>>] /\ names = {}
    /\ pc = "run" /\ todo = <<>> /\ i = -1
    /\ handlers = <<>> /\ alive = TRUE
    /\ save \in BOOLEAN
    /\ child = "none" /\ childList = <<>>

\* The main program runs when no handler does.
Running(at) == alive /\ handlers = <<>> /\ pc = at

Goto(next) == pc' = next /\ UNCHANGED <<handlers, alive, save>>

\* rmdir() || unlink(): a directory that is not empty stays.
Removed(p) == IF \E q \in fs : Parent[q] = p THEN fs ELSE fs \ {p}

\* A removal that fails is logged, and the path is not tried again.
Remove(p) ==
    \/ fs' = Removed(p) /\ UNCHANGED lost
    \/ "io_error" \in Faults /\ p \in fs /\ lost' = lost \cup {p} /\ UNCHANGED fs

Path == Head(todo)

-----------------------------------------------------------------------------
(* Making a file: dcc_make_tmpnam, dcc_get_new_tmpdir, dcc_mk_tmpdir, and  *)
(* the files and links of dcc_r_many_files.                                *)

\* dcc_mk_tmp_ancestor_dirs makes what is missing from the top down.
Chain(p) ==
    LET parent == Parent[p]
    IN  IF parent = NULL THEN <<p>>
        ELSE IF Parent[parent] = NULL THEN <<parent, p>>
        ELSE <<Parent[parent], parent, p>>

Make(p) ==
    /\ Running("run") /\ p \notin fs
    /\ todo' = Chain(p) /\ Goto("make")
    /\ UNCHANGED <<files, arrays, i, children>>

\* A directory that exists already is not ours to register.
MakeExisting ==
    /\ Running("make") /\ todo # <<>> /\ Path \in fs
    /\ todo' = Tail(todo) /\ Goto("make")
    /\ UNCHANGED <<files, arrays, i, children>>

Create ==
    /\ Running("make") /\ todo # <<>> /\ Path \notin fs
    /\ Parent[Path] = NULL \/ Parent[Path] \in fs
    /\ fs' = fs \cup {Path} /\ Goto("add")
    /\ UNCHANGED <<lost, arrays, todo, i, children>>

CreateFails ==
    /\ Running("make") /\ todo # <<>> /\ Path \notin fs
    /\ \/ "io_error" \in Faults
       \/ Parent[Path] # NULL /\ Parent[Path] \notin fs
    /\ todo' = <<>> /\ Goto("run")
    /\ UNCHANGED <<files, arrays, i, children>>

IsFile(p) == \A q \in Paths : Parent[q] # p

\* The file is there, but close() fails and the caller gives up; or its body
\* does not arrive and dcc_r_file cannot take it away.
CloseFails ==
    /\ Running("make") /\ todo # <<>> /\ Path \notin fs /\ IsFile(Path)
    /\ "io_error" \in Faults
    /\ Parent[Path] = NULL \/ Parent[Path] \in fs
    /\ fs' = fs \cup {Path} /\ lost' = lost \cup {Path}
    /\ todo' = <<>> /\ Goto("run")
    /\ UNCHANGED <<arrays, i, children>>

Made ==
    /\ Running("make") /\ todo = <<>>
    /\ Goto("run")
    /\ UNCHANGED <<files, arrays, todo, i, children>>

-----------------------------------------------------------------------------
(* dcc_add_cleanup                                                         *)

NeedGrow == n_cleanups + 1 > cleanups_size

NewSize == IF cleanups_size = 0 THEN InitialSize ELSE cleanups_size * 3

AddRoom ==
    /\ Running("add") /\ ~NeedGrow
    /\ Goto("dup")
    /\ UNCHANGED <<files, arrays, todo, i, children>>

\* malloc() and memcpy(): nothing the handler looks at.
AddGrow ==
    /\ Running("add") /\ NeedGrow /\ cleanups < MaxArrays
    /\ live' = live \cup {cleanups + 1}
    /\ cells' = [cells EXCEPT ![cleanups + 1] =
                    [j \in 0 .. NewSize - 1 |->
                        IF j < cleanups_size THEN cells[cleanups][j] ELSE NULL]]
    /\ Goto("grown")
    /\ UNCHANGED <<files, cleanups, cleanups_size, n_cleanups, names, todo, i, children>>

\* fault model: realloc()
SwapArray_Realloc ==
    /\ Running("grown")
    /\ live' = live \ {cleanups}
    /\ Goto("swapped")
    /\ UNCHANGED <<files, cleanups, cleanups_size, n_cleanups, cells, names, todo, i, children>>

SwapArray ==
    /\ Running("grown")
    /\ cleanups' = cleanups + 1
    /\ Goto("swapped")
    /\ UNCHANGED <<files, cleanups_size, n_cleanups, live, cells, names, todo, i, children>>

SetSize ==
    /\ Running("swapped")
    /\ cleanups_size' = NewSize
    /\ Goto("resized")
    /\ UNCHANGED <<files, cleanups, n_cleanups, live, cells, names, todo, i, children>>

FreeOld ==
    /\ Running("resized")
    /\ live' = live \ {cleanups - 1}
    /\ cells' = [cells EXCEPT ![cleanups - 1] = <<>>]
    /\ Goto("dup")
    /\ UNCHANGED <<files, cleanups, cleanups_size, n_cleanups, names, todo, i, children>>

DupName ==
    /\ Running("dup")
    /\ names' = names \cup {n_cleanups}
    /\ Goto("store")
    /\ UNCHANGED <<files, cleanups, cleanups_size, n_cleanups, live, cells, todo, i, children>>

StoreName ==
    /\ Running("store")
    /\ cells' = [cells EXCEPT ![cleanups][n_cleanups] = Path]
    /\ Goto("count")
    /\ UNCHANGED <<files, cleanups, cleanups_size, n_cleanups, live, names, todo, i, children>>

CountName ==
    /\ Running("count")
    /\ n_cleanups' = n_cleanups + 1
    /\ todo' = Tail(todo) /\ Goto("make")
    /\ UNCHANGED <<files, cleanups, cleanups_size, live, cells, names, i, children>>

NoMemory ==
    /\ "no_memory" \in Faults
    /\ \/ Running("add") /\ NeedGrow
       \/ Running("dup")
    /\ Goto("bail")
    /\ UNCHANGED <<files, arrays, todo, i, children>>

\* The caller takes the file away again.  dcc_mk_tmp_ancestor_dirs makes a
\* second attempt at a directory that its first pass could not make.
BailOut ==
    /\ Running("bail")
    /\ Remove(Path)
    /\ \/ todo' = <<>> /\ Goto("run")
       \/ Len(todo) > 1 /\ todo' = todo /\ Goto("make")
    /\ UNCHANGED <<arrays, i, children>>

-----------------------------------------------------------------------------
Registered == {cells[cleanups][j] : j \in 0 .. n_cleanups - 1}

\* dcc_r_file takes the file away before it opens it anew, and again when the
\* transfer fails; the name stays on the list.
ReceiveFails(p) ==
    /\ Running("run") /\ "transfer" \in Faults
    /\ p \in Registered \cap fs /\ IsFile(p)
    /\ fs' = fs \ {p} /\ Goto("run")
    /\ UNCHANGED <<lost, arrays, todo, i, children>>

-----------------------------------------------------------------------------
(* dcc_cleanup_tempfiles, at the end of a server's job and at exit         *)

FinishJob ==
    /\ Running("run")
    /\ i' = n_cleanups - 1 /\ Goto("clean")
    /\ UNCHANGED <<files, arrays, todo, children>>

Unlink ==
    /\ Running("clean") /\ i >= 0
    /\ IF save THEN UNCHANGED files ELSE Remove(cells[cleanups][i])
    /\ Goto("unlinked")
    /\ UNCHANGED <<arrays, todo, i, children>>

CountDown ==
    /\ Running("unlinked")
    /\ n_cleanups' = i
    /\ Goto("counted")
    /\ UNCHANGED <<files, cleanups, cleanups_size, live, cells, names, todo, i, children>>

FreeName ==
    /\ Running("counted")
    /\ names' = names \ {i}
    /\ Goto("freed")
    /\ UNCHANGED <<files, cleanups, cleanups_size, n_cleanups, live, cells, todo, i, children>>

ClearCell ==
    /\ Running("freed")
    /\ cells' = [cells EXCEPT ![cleanups][i] = NULL]
    /\ i' = i - 1 /\ Goto("clean")
    /\ UNCHANGED <<files, cleanups, cleanups_size, n_cleanups, live, names, todo, children>>

\* The server goes on to its next job, or the process ends.
CleanedUp ==
    /\ Running("clean") /\ i < 0
    /\ pc' = "run" /\ alive' \in BOOLEAN
    /\ UNCHANGED <<files, arrays, todo, i, handlers, save, children>>

-----------------------------------------------------------------------------
(* dcc_client_signalled and dcc_daemon_terminate                           *)

Top == handlers[Len(handlers)]

InHandler(at) == alive /\ handlers # <<>> /\ Top.pc = at

SetTop(at, k) == handlers' = [handlers EXCEPT ![Len(handlers)] = [pc |-> at, i |-> k]]

\* A handler for one signal may itself be interrupted by another.
Signal ==
    /\ alive /\ Len(handlers) < MaxSignals
    /\ handlers' = Append(handlers, [pc |-> "clean", i |-> n_cleanups - 1])
    /\ UNCHANGED <<files, arrays, pc, todo, i, alive, save, children>>

\* fault model: directories before what they hold
HandlerUnlink_FirstToLast ==
    /\ InHandler("clean") /\ Top.i >= 0
    /\ IF save THEN UNCHANGED files ELSE Remove(cells[cleanups][n_cleanups - 1 - Top.i])
    /\ SetTop("clean", Top.i - 1)
    /\ UNCHANGED <<arrays, pc, todo, i, alive, save, children>>

HandlerUnlink ==
    /\ InHandler("clean") /\ Top.i >= 0
    /\ IF save THEN UNCHANGED files ELSE Remove(cells[cleanups][Top.i])
    /\ SetTop("unlinked", Top.i)
    /\ UNCHANGED <<arrays, pc, todo, i, alive, save, children>>

HandlerCountDown ==
    /\ InHandler("unlinked")
    /\ n_cleanups' = Top.i
    /\ SetTop("counted", Top.i)
    /\ UNCHANGED <<files, cleanups, cleanups_size, live, cells, names, pc, todo, i, alive, save, children>>

HandlerClearCell ==
    /\ InHandler("counted")
    /\ cells' = [cells EXCEPT ![cleanups][Top.i] = NULL]
    /\ SetTop("clean", Top.i - 1)
    /\ UNCHANGED <<files, cleanups, cleanups_size, n_cleanups, live, names, pc, todo, i, alive, save, children>>

\* raise(): the default action, as soon as the handler returns.
Raise ==
    /\ InHandler("clean") /\ Top.i < 0
    /\ alive' = FALSE
    /\ UNCHANGED <<files, arrays, pc, todo, i, handlers, save, children>>

-----------------------------------------------------------------------------
(* dcc_spawn_child: the child has a copy of the list and the exit handlers *)

Fork ==
    /\ Running("run")
    /\ child' = "forked"
    /\ childList' = [j \in 1 .. n_cleanups |-> cells[cleanups][j - 1]]
    /\ Goto("wait")
    /\ UNCHANGED <<files, arrays, todo, i>>

Exec ==
    /\ child = "forked"
    /\ child' = "exited" /\ childList' = <<>>
    /\ UNCHANGED <<files, arrays, pc, todo, i, handlers, alive, save>>

\* dcc_redirect_fds() or execvp() fails: dcc_exit() runs the exit handlers.
ExecFails ==
    /\ child = "forked" /\ "exec_fails" \in Faults
    /\ child' = "exiting"
    /\ UNCHANGED <<files, arrays, pc, todo, i, handlers, alive, save, childList>>

ChildUnlink ==
    /\ child = "exiting" /\ childList # <<>>
    /\ \/ ~save /\ fs' = Removed(childList[Len(childList)])
       \/ (save \/ "io_error" \in Faults) /\ UNCHANGED fs
    /\ childList' = SubSeq(childList, 1, Len(childList) - 1)
    /\ UNCHANGED <<lost, arrays, pc, todo, i, handlers, alive, save, child>>

ChildGone ==
    /\ child = "exiting" /\ childList = <<>>
    /\ child' = "exited"
    /\ UNCHANGED <<files, arrays, pc, todo, i, handlers, alive, save, childList>>

Collect ==
    /\ Running("wait") /\ child = "exited"
    /\ child' = "none" /\ Goto("run")
    /\ UNCHANGED <<files, arrays, todo, i, childList>>

-----------------------------------------------------------------------------
MainStep ==
    \/ \E p \in Paths : Make(p)
    \/ MakeExisting \/ Create \/ CreateFails \/ CloseFails \/ Made
    \/ AddRoom \/ AddGrow \/ SwapArray \/ SetSize \/ FreeOld
    \/ DupName \/ StoreName \/ CountName \/ NoMemory \/ BailOut
    \/ \E p \in Paths : ReceiveFails(p)
    \/ FinishJob \/ Unlink \/ CountDown \/ FreeName \/ ClearCell \/ CleanedUp

HandlerStep ==
    \/ Signal \/ HandlerUnlink \/ HandlerCountDown \/ HandlerClearCell \/ Raise

ChildStep == Fork \/ Exec \/ ExecFails \/ ChildUnlink \/ ChildGone \/ Collect

Next == MainStep \/ HandlerStep \/ ChildStep

Spec == Init /\ [][Next]_vars

-----------------------------------------------------------------------------
AddSteps == {"add", "grown", "swapped", "resized", "dup", "store", "count", "bail"}

\* The variables keep their types, and the loops stay within the array.
TypeOK ==
    /\ fs \subseteq Paths /\ lost \subseteq Paths /\ todo \in Seq(Paths)
    /\ cleanups \in Arrays /\ live \subseteq Arrays
    /\ cleanups_size \in Nat /\ n_cleanups \in Nat
    /\ names \subseteq Nat /\ i \in Int
    /\ DOMAIN cells = Arrays
    /\ pc \in AddSteps \cup {"run", "make", "clean", "unlinked", "counted", "freed", "wait"}
    /\ \A k \in DOMAIN handlers :
           handlers[k].pc \in {"clean", "unlinked", "counted"} /\ handlers[k].i \in Int
    /\ alive \in BOOLEAN /\ save \in BOOLEAN
    /\ child \in {"none", "forked", "exiting", "exited"}

\* Whenever a signal arrives, the list can be walked: the array in use is
\* allocated, it has a cell for every index below n_cleanups, and each of
\* these cells points to a name that was not freed.  The "atomic assignments"
\* of dcc_add_cleanup and dcc_cleanup_tempfiles_inner are ordered for this.
SignalSafe ==
    alive => \A j \in 0 .. n_cleanups - 1 :
                /\ cleanups \in live /\ j \in DOMAIN cells[cleanups]
                /\ cells[cleanups][j] \in Paths /\ j \in names

\* A set of paths with the directories above them.
WithAncestors(S) ==
    {q \in Paths : \E p \in S :
        q = p \/ q = Parent[p] \/ (Parent[p] # NULL /\ q = Parent[Parent[p]])}

\* The path being made, from its creation to the increment of n_cleanups.
Window == IF pc \in AddSteps THEN {Path} ELSE {}

\* A process that has ended, by exit or by a signal it catches, leaves nothing
\* behind, except the one file that it had made and not yet registered when
\* the signal came, the files whose close() or removal failed, and the
\* directories that one of these keeps from being empty.
NothingLeft == ~alive /\ ~save => fs \subseteq WithAncestors(lost \cup Window)

-----------------------------------------------------------------------------
(* What a comment says that the code does not do *)

\* tempfile.c:395: "The file will be reopened later, possibly in a child.  But we
\* know that it exists".  A child that cannot exec removes it (exec.c:269).
FilesStay ==
    alive /\ handlers = <<>> /\ pc \notin {"clean", "unlinked", "counted", "freed"}
        => Registered \subseteq fs
=============================================================================
