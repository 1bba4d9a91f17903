------------------------------- MODULE Daemon -------------------------------
(***************************************************************************)
(* The standalone daemon: the process that starts it and leaves (dcc_detach *)
(* in dparent.c), the master that keeps a pool of preforked children        *)
(* (prefork.c), collects their statistics over a pipe (stats.c) and ends    *)
(* them all on a signal (dsignal.c), and the children, each of which        *)
(* accepts and serves a limited number of connections.                      *)
(*                                                                          *)
(* What a child does for one connection is module Session; here it ends,    *)
(* fails, or never ends because its client is gone.                         *)
(***************************************************************************)
EXTENDS Integers, Sequences, FiniteSets

CONSTANTS
    Kid,            \* process ids of children
    dcc_max_kids,
    child_lifetime, \* 50 requests in the code
    PipeSize,       \* records that fit into the statistics pipe
    MaxJobs,        \* bound: connections clients make
    NoDetach,       \* values of opt_no_detach to consider
    Stats,          \* values of arg_stats to consider
    JobLifetime,    \* whether dcc_job_lifetime is set
    Faults          \* what may go wrong

FaultKind == {"term", "vanish", "fork", "accept", "refuse", "pid_file"}

ASSUME DaemonAssumption ==
    /\ IsFiniteSet(Kid)
    /\ dcc_max_kids \in Nat \ {0} /\ child_lifetime \in Nat \ {0}
    /\ PipeSize \in Nat \ {0} /\ MaxJobs \in Nat
    /\ NoDetach \subseteq BOOLEAN /\ Stats \subseteq BOOLEAN
    /\ JobLifetime \in BOOLEAN /\ Faults \subseteq FaultKind

VARIABLES
    opt_no_detach, arg_stats,
    launcher,   \* the process the user started, when the daemon detaches; "unsaved"
                \* when it has left without a pid file
    pid_file,   \* whether there is a pid file that names the master
    mpc,        \* where the master is
    dcc_nkids,
    must_reap,  \* argument of the dcc_reap_kids being executed
    woken,      \* SIGCHLD arrived during select()
    kid,        \* where each child is
    ireq,       \* its requests so far
    signalled,  \* children with a fatal signal pending
    backlog,    \* connections waiting on listen_fd
    made,       \* connections made so far
    pipe,       \* dcc_statspipe
    counters,   \* dcc_stats.counters
    unreported  \* connections whose child ended before it reported them

startup == <<opt_no_detach, arg_stats, launcher>>
master == <<mpc, dcc_nkids, must_reap, woken>>
kids == <<kid, ireq, signalled>>
jobs == <<backlog, made>>
stats == <<pipe, counters, unreported>>
vars == <<startup, pid_file, master, kids, jobs, stats>>

Event == {"accept", "result"}
KidLabel == {"none", "loop", "accepting", "accepted", "job", "hung", "result", "zombie"}
MasterLabel == {"detach", "save_pid", "catch_signals", "set_master_pid", "create",
                "forked", "reap", "select", "exited", "dead"}
MasterGone == mpc \in {"exited", "dead"}

TypeOK ==
    /\ opt_no_detach \in BOOLEAN /\ arg_stats \in BOOLEAN
    /\ launcher \in {"none", "save_pid", "exited", "unsaved"}
    /\ pid_file \in BOOLEAN
    /\ mpc \in MasterLabel /\ must_reap \in BOOLEAN /\ woken \in BOOLEAN
    /\ dcc_nkids \in 0..dcc_max_kids
    /\ kid \in [Kid -> KidLabel] /\ ireq \in [Kid -> 0..child_lifetime]
    /\ signalled \subseteq Kid
    /\ backlog \in 0..MaxJobs /\ made \in 0..MaxJobs
    /\ pipe \in Seq(Event) /\ Len(pipe) <= PipeSize
    /\ counters \in [Event -> 0..MaxJobs] /\ unreported \in Nat

Init ==
    /\ opt_no_detach \in NoDetach /\ arg_stats \in Stats
    /\ launcher = "none" /\ pid_file = FALSE
    /\ mpc = IF opt_no_detach THEN "save_pid" ELSE "detach"
    /\ dcc_nkids = 0 /\ must_reap = FALSE /\ woken = FALSE
    /\ kid = [k \in Kid |-> "none"] /\ ireq = [k \in Kid |-> 0]
    /\ signalled = {}
    /\ backlog = 0 /\ made = 0
    /\ pipe = <<>> /\ counters = [e \in Event |-> 0] /\ unreported = 0

-----------------------------------------------------------------------------
(* Starting *)

MasterGoto(from, to) ==
    mpc = from /\ mpc' = to /\ UNCHANGED <<dcc_nkids, must_reap, woken>>

\* dcc_detach forks: the child goes on as the master, the launcher saves its
\* pid and leaves with _exit.
dcc_detach ==
    /\ MasterGoto("detach", "catch_signals")
    /\ launcher' = "save_pid"
    /\ UNCHANGED <<opt_no_detach, arg_stats, pid_file, kids, jobs, stats>>

\* A pid file that cannot be opened or closed is logged, no more.
LauncherSavesPid ==
    /\ launcher = "save_pid"
    /\ \/ launcher' = "exited" /\ pid_file' = TRUE
       \/ "pid_file" \in Faults /\ launcher' = "unsaved" /\ UNCHANGED pid_file
    /\ UNCHANGED <<opt_no_detach, arg_stats, master, kids, jobs, stats>>

\* Without detaching the master saves its own pid and, if it could, registers
\* dcc_remove_pid with atexit, which its children inherit.
dcc_save_pid ==
    /\ MasterGoto("save_pid", "catch_signals")
    /\ pid_file' = TRUE \/ ("pid_file" \in Faults /\ UNCHANGED pid_file)
    /\ UNCHANGED <<startup, kids, jobs, stats>>

dcc_daemon_catch_signals ==
    /\ MasterGoto("catch_signals", "set_master_pid")
    /\ UNCHANGED <<startup, pid_file, kids, jobs, stats>>

SetMasterPid ==
    /\ MasterGoto("set_master_pid", "create")
    /\ UNCHANGED <<startup, pid_file, kids, jobs, stats>>

-----------------------------------------------------------------------------
(* The master's pool of children *)

\* Whether exit() in the master or in a child runs dcc_remove_pid: when the
\* daemon detaches, atexit was called in the launcher, which has left.
PidRemovedAtExit_Always == TRUE \* fault model: registered after dcc_detach
PidRemovedAtExit == opt_no_detach

\* After dcc_create_kids: a blocking dcc_reap_kids, or select().
MainLoop ==
    /\ mpc' = IF arg_stats THEN "select" ELSE "reap"
    /\ must_reap' = ~arg_stats /\ woken' = FALSE

MoreKidsNeeded_OneTooMany == dcc_nkids <= dcc_max_kids \* fault model: off by one
MoreKidsNeeded == dcc_nkids < dcc_max_kids

\* dcc_create_kids: fork until there are dcc_max_kids, ...
Fork(k) ==
    /\ mpc = "create" /\ MoreKidsNeeded
    /\ kid[k] = "none"
    /\ kid' = [kid EXCEPT ![k] = "loop"] /\ ireq' = [ireq EXCEPT ![k] = 0]
    /\ mpc' = "forked"
    /\ UNCHANGED <<startup, pid_file, dcc_nkids, must_reap, woken, signalled, jobs, stats>>

CountKid ==
    /\ mpc = "forked" /\ mpc' = "create"
    /\ dcc_nkids' = dcc_nkids + 1
    /\ UNCHANGED <<startup, pid_file, must_reap, woken, kids, jobs, stats>>

\* ... leave with dcc_exit when that fails, ...
ForkFails ==
    /\ mpc = "create" /\ MoreKidsNeeded /\ "fork" \in Faults
    /\ mpc' = "exited"
    /\ pid_file' = (pid_file /\ ~PidRemovedAtExit)
    /\ UNCHANGED <<startup, dcc_nkids, must_reap, woken, kids, jobs, stats>>

\* ... and go on when there are enough.
EnoughKids ==
    /\ mpc = "create" /\ ~MoreKidsNeeded
    /\ MainLoop
    /\ UNCHANGED <<startup, pid_file, dcc_nkids, kids, jobs, stats>>

\* dcc_reap_kids collects every child that has exited.  It blocks for the
\* first one if must_reap, and returns to dcc_create_kids when there are no
\* more.
ReapedCount_Forgotten == dcc_nkids \* fault model: no --dcc_nkids
ReapedCount == dcc_nkids - 1
ReapKid(k) ==
    /\ mpc = "reap" /\ kid[k] = "zombie"
    /\ kid' = [kid EXCEPT ![k] = "none"]
    /\ dcc_nkids' = ReapedCount
    /\ must_reap' = FALSE
    /\ UNCHANGED <<startup, pid_file, mpc, woken, ireq, signalled, jobs, stats>>

NoMoreZombies ==
    /\ mpc = "reap" /\ ~\E k \in Kid : kid[k] = "zombie"
    /\ must_reap => \A k \in Kid : kid[k] = "none"
    /\ mpc' = "create"
    /\ UNCHANGED <<startup, pid_file, dcc_nkids, must_reap, woken, kids, jobs, stats>>

-----------------------------------------------------------------------------
(* dcc_stats_server: after each return of select() the pool is looked after *)

ManageKids == mpc = "select" /\ mpc' = "reap" /\ must_reap' = FALSE /\ woken' = FALSE

\* dcc_stats_process for one record of the pipe.
StatsReport ==
    /\ ManageKids /\ pipe # <<>>
    /\ pipe' = Tail(pipe)
    /\ counters' = [counters EXCEPT ![Head(pipe)] = @ + 1]
    /\ UNCHANGED <<startup, pid_file, dcc_nkids, kids, jobs, unreported>>

SelectInterrupted ==
    /\ ManageKids /\ woken
    /\ UNCHANGED <<startup, pid_file, dcc_nkids, kids, jobs, stats>>

\* A request on the HTTP port, or 60 seconds without any event.
SelectTimeout_None == FALSE \* fault model: select() without a timeout
SelectTimeout ==
    /\ ManageKids /\ pipe = <<>>
    /\ UNCHANGED <<startup, pid_file, dcc_nkids, kids, jobs, stats>>

-----------------------------------------------------------------------------
(* The children *)

KidGoto(k, from, to) ==
    kid[k] = from /\ kid' = [kid EXCEPT ![k] = to] /\ UNCHANGED signalled

\* A child ends: its master gets SIGCHLD, which only counts during select().
KidEnds(k) ==
    /\ kid' = [kid EXCEPT ![k] = IF MasterGone THEN "none" ELSE "zombie"]
    /\ signalled' = signalled \ {k}
    /\ woken' = (woken \/ mpc = "select")
    /\ UNCHANGED <<mpc, dcc_nkids, must_reap>>

\* ... through dcc_exit: what the master registered with atexit runs too.
KidExits(k) == KidEnds(k) /\ pid_file' = (pid_file /\ ~PidRemovedAtExit)

\* dcc_preforked_child: alarm(0), then accept, or leave after the last request.
NextRequest(k) ==
    /\ KidGoto(k, "loop", "accepting") /\ ireq[k] < child_lifetime
    /\ UNCHANGED <<startup, pid_file, master, ireq, jobs, stats>>

WornOut(k) ==
    /\ kid[k] = "loop" /\ ireq[k] >= child_lifetime
    /\ KidExits(k)
    /\ UNCHANGED <<startup, ireq, jobs, stats>>

Accept(k) ==
    /\ KidGoto(k, "accepting", "accepted") /\ backlog > 0
    /\ backlog' = backlog - 1
    /\ ireq' = [ireq EXCEPT ![k] = @ + 1]
    /\ UNCHANGED <<startup, pid_file, master, made, stats>>

AcceptFails(k) ==
    /\ kid[k] = "accepting" /\ "accept" \in Faults
    /\ KidExits(k)
    /\ UNCHANGED <<startup, ireq, jobs, stats>>

dcc_stats_event_Dropped(e) == \* fault model: write() to a non-blocking pipe
    /\ pipe' = IF arg_stats /\ Len(pipe) < PipeSize THEN Append(pipe, e) ELSE pipe
    /\ UNCHANGED <<counters, unreported>>

\* dcc_stats_event: the write blocks while the pipe is full, and fails
\* unnoticed when the master is gone.
dcc_stats_event(e) ==
    \/ /\ arg_stats /\ Len(pipe) < PipeSize
       /\ pipe' = Append(pipe, e) /\ UNCHANGED <<counters, unreported>>
    \/ (~arg_stats \/ MasterGone) /\ UNCHANGED stats

ReportAccept(k) ==
    /\ KidGoto(k, "accepted", "job")
    /\ dcc_stats_event("accept")
    /\ UNCHANGED <<startup, pid_file, master, ireq, jobs>>

\* dcc_service_job: refused by dcc_check_client, ended (module Session), or
\* waiting for a client that will never answer.
JobRefused(k) ==
    /\ "refuse" \in Faults /\ KidGoto(k, "job", "loop")
    /\ UNCHANGED <<startup, pid_file, master, ireq, jobs, stats>>
JobEnds(k) ==
    /\ KidGoto(k, "job", "result")
    /\ UNCHANGED <<startup, pid_file, master, ireq, jobs, stats>>
ClientVanishes(k) ==
    /\ "vanish" \in Faults /\ KidGoto(k, "job", "hung")
    /\ UNCHANGED <<startup, pid_file, master, ireq, jobs, stats>>

ReportResult(k) ==
    /\ KidGoto(k, "result", "loop")
    /\ dcc_stats_event("result")
    /\ UNCHANGED <<startup, pid_file, master, ireq, jobs>>

\* The alarm of dcc_job_lifetime + 30 seconds, which runs from accept() to the
\* alarm(0) of the next request, also while a report waits for room in the
\* pipe: dcc_daemon_terminate in the child, which only ends the child.
Alarm(k) ==
    /\ JobLifetime
    /\ \/ kid[k] \in {"accepted", "job", "hung", "result"}
       \/ kid[k] = "loop" /\ ireq[k] > 0
    /\ KidEnds(k)
    /\ unreported' = IF kid[k] = "accepted" THEN unreported + 1 ELSE unreported
    /\ UNCHANGED <<startup, pid_file, ireq, jobs, pipe, counters>>

\* A fatal signal from the master, which has left.
KidSignalled(k) ==
    /\ k \in signalled
    /\ KidEnds(k)
    /\ UNCHANGED <<startup, pid_file, ireq, jobs, stats>>

-----------------------------------------------------------------------------
(* Signals and clients *)

\* The group of the master: every child that has not exited.
ProcessGroup == {k \in Kid : kid[k] \notin {"none", "zombie"}}
KillGroup_Forgotten == {} \* fault model: kill(0, sig) left out
KillGroup == ProcessGroup

\* SIGTERM, SIGINT, ... in the master.  Before dcc_master_pid is set it does
\* not know that it is the parent, before that it has no handler at all.
dcc_daemon_terminate ==
    /\ "term" \in Faults /\ mpc \notin {"detach", "save_pid", "exited", "dead"}
    /\ LET am_parent == mpc \notin {"catch_signals", "set_master_pid"}
       IN  /\ pid_file' = (pid_file /\ ~am_parent)
           /\ signalled' = IF am_parent THEN signalled \cup KillGroup ELSE signalled
    /\ mpc' = "dead"
    /\ kid' = [k \in Kid |-> IF kid[k] = "zombie" THEN "none" ELSE kid[k]]
    /\ UNCHANGED <<startup, dcc_nkids, must_reap, woken, ireq, jobs, stats>>

Connect ==
    /\ made < MaxJobs /\ made' = made + 1 /\ backlog' = backlog + 1
    /\ UNCHANGED <<startup, pid_file, master, kids, stats>>

MasterStep ==
    \/ dcc_detach \/ dcc_save_pid \/ dcc_daemon_catch_signals \/ SetMasterPid
    \/ \E k \in Kid : Fork(k) \/ ReapKid(k)
    \/ CountKid \/ EnoughKids \/ NoMoreZombies
    \/ StatsReport \/ SelectInterrupted \/ SelectTimeout

KidStep(k) ==
    \/ NextRequest(k) \/ WornOut(k) \/ Accept(k) \/ ReportAccept(k)
    \/ JobRefused(k) \/ JobEnds(k) \/ ReportResult(k)
    \/ Alarm(k) \/ KidSignalled(k)

Failure == ForkFails \/ \E k \in Kid : AcceptFails(k) \/ ClientVanishes(k)

Next ==
    \/ MasterStep \/ LauncherSavesPid \/ dcc_daemon_terminate \/ Connect \/ Failure
    \/ \E k \in Kid : KidStep(k)

Spec == Init /\ [][Next]_vars

\* Every process is scheduled: each step of a process is taken if it stays
\* possible.  The master is not killed by fairness, and neither clients nor
\* failures are promised; accept() does not fail for ever.
FairSpec ==
    /\ Spec
    /\ WF_vars(MasterStep) /\ WF_vars(LauncherSavesPid)
    /\ \A k \in Kid : /\ WF_vars(KidStep(k)) /\ WF_vars(KidSignalled(k))
                      /\ SF_vars(Accept(k))

-----------------------------------------------------------------------------
(* Properties *)

\* dcc_nkids is exact whenever it is looked at: it counts the children that
\* have not been collected, the one just forked excepted, although children
\* exit, are killed and are collected in any order.
NkidsExact ==
    ~MasterGone =>
        Cardinality({k \in Kid : kid[k] # "none"}) =
            dcc_nkids + (IF mpc = "forked" THEN 1 ELSE 0)

\* No event is lost or counted twice between the children and the master but
\* the connections whose child the alarm has ended before it could report them,
\* and at no time does the statistics page show more results than connections.
Pending(e) == Cardinality({n \in DOMAIN pipe : pipe[n] = e})
StatsExact ==
    (arg_stats /\ ~MasterGone) =>
        /\ made - backlog = counters["accept"] + Pending("accept")
                            + Cardinality({k \in Kid : kid[k] = "accepted"}) + unreported
        /\ counters["result"] <= counters["accept"]

\* dcc_save_pid: once the process the user started is gone the pid file
\* exists, unless it could not be written, and it stays as long as the master
\* does.
PidFileNamesMaster == (launcher = "exited" /\ ~MasterGone) => pid_file

\* Every connection is accepted in the end although children wear out, hang
\* on clients that vanished, and exit just before the master waits.
Served == []<>(backlog = 0 \/ MasterGone)

\* After a fatal signal to the master no child is left behind, wherever the
\* master and the children were.
GroupDies == (mpc = "dead") ~> (\A k \in Kid : kid[k] = "none")

-----------------------------------------------------------------------------
(* What comments say that the code does not do *)

\* dparent.c:320: the pid file is removed "on exit" of the daemon, and so not
\* before: a child that wears out under --no-detach removes it.
PidFileStays == (opt_no_detach /\ mpc # "save_pid" /\ ~MasterGone) => pid_file

=============================================================================
