---------------------------- MODULE DaemonProofs ----------------------------
(***************************************************************************)
(* The safety properties of Daemon for any finite set of process ids, any  *)
(* size of the pool and of the pipe, any number of connections and any     *)
(* faults.                                                                 *)
(***************************************************************************)
EXTENDS Daemon, FiniteSetTheorems, FunctionTheorems, TLAPS

-----------------------------------------------------------------------------
(* Counting *)

\* The children at one of the labels L.
At(f, L) == {j \in Kid : f[j] \in L}
NumberAt(f, L) == Cardinality(At(f, L))

\* The records e among the first n of the pipe.
Places(q, n, e) == {m \in 1..n : q[m] = e}
Among(q, n, e) == Cardinality(Places(q, n, e))

One(b) == IF b THEN 1 ELSE 0

LEMMA AddOne ==
    ASSUME NEW S, IsFiniteSet(S), NEW x, x \notin S
    PROVE  IsFiniteSet(S \cup {x}) /\ Cardinality(S \cup {x}) = Cardinality(S) + 1
  BY FS_AddElement

LEMMA RemoveOne ==
    ASSUME NEW S, IsFiniteSet(S), NEW x
    PROVE  IsFiniteSet(S \ {x}) /\ Cardinality(S \ {x}) = Cardinality(S) - One(x \in S)
<1>1. CASE x \in S
  BY <1>1, FS_RemoveElement DEF One
<1>2. CASE x \notin S
  <2>1. Cardinality(S) \in Nat /\ One(x \in S) = 0
    BY <1>2, FS_CardinalityType DEF One
  <2>. QED  BY <1>2, <2>1, FS_RemoveElement
<1>. QED  BY <1>1, <1>2

LEMMA NumberAtType ==
    ASSUME NEW f, NEW L
    PROVE  IsFiniteSet(At(f, L)) /\ NumberAt(f, L) \in Nat
  BY DaemonAssumption, FS_Subset, FS_CardinalityType DEF At, NumberAt

\* A child that is somewhere makes the number positive.
LEMMA NumberAtPositive ==
    ASSUME NEW f, NEW L, NEW k \in Kid, f[k] \in L
    PROVE  NumberAt(f, L) >= 1
<1>1. At(f, L) # {} /\ IsFiniteSet(At(f, L)) /\ NumberAt(f, L) \in Nat
  BY NumberAtType DEF At
<1>. QED  BY <1>1, FS_EmptySet DEF NumberAt

\* What a step of one child does to these numbers.
LEMMA NumberAtStep ==
    ASSUME NEW f \in [Kid -> KidLabel], NEW k \in Kid, NEW to \in KidLabel, NEW L
    PROVE  /\ (f[k] \in L <=> to \in L) =>
                  NumberAt([f EXCEPT ![k] = to], L) = NumberAt(f, L)
           /\ (f[k] \notin L /\ to \in L) =>
                  NumberAt([f EXCEPT ![k] = to], L) = NumberAt(f, L) + 1
           /\ (f[k] \in L /\ to \notin L) =>
                  NumberAt([f EXCEPT ![k] = to], L) = NumberAt(f, L) - 1
<1>1. IsFiniteSet(At(f, L)) /\ NumberAt(f, L) \in Nat
  BY NumberAtType
<1> DEFINE R == At(f, L) \ {k}
           g == [f EXCEPT ![k] = to]
<1>2. IsFiniteSet(R) /\ Cardinality(R) = NumberAt(f, L) - One(f[k] \in L)
  <2>1. k \in At(f, L) <=> f[k] \in L
    BY DEF At
  <2>. QED  BY <1>1, <2>1, RemoveOne DEF NumberAt, One
<1>3. CASE to \in L
  <2>1. At(g, L) = R \cup {k}
    BY <1>3 DEF At
  <2>2. Cardinality(At(g, L)) = Cardinality(R) + 1
    BY <1>2, <2>1, AddOne
  <2>3. One(f[k] \in L) \in Int
    BY DEF One
  <2>. QED  BY <1>1, <1>2, <1>3, <2>2, <2>3 DEF NumberAt, One
<1>4. CASE to \notin L
  <2>1. At(g, L) = R
    BY <1>4 DEF At
  <2>2. Cardinality(At(g, L)) = Cardinality(R)
    BY <2>1, Zenon
  <2>3. One(f[k] \in L) \in Int
    BY DEF One
  <2>. QED  BY <1>1, <1>2, <1>4, <2>2, <2>3 DEF NumberAt, One
<1>. QED  BY <1>3, <1>4

LEMMA AmongType ==
    ASSUME NEW q, NEW n \in Nat, NEW e
    PROVE  IsFiniteSet(Places(q, n, e)) /\ Among(q, n, e) \in Nat
<1>1. IsFiniteSet(1..n)
  BY FS_Interval
<1>2. Places(q, n, e) \subseteq 1..n
  BY DEF Places
<1>. QED  BY <1>1, <1>2, FS_Subset, FS_CardinalityType DEF Among

\* A record that is put into the pipe comes after all others.
LEMMA AmongAppend ==
    ASSUME NEW q \in Seq(Event), NEW x \in Event, NEW e
    PROVE  /\ \A n \in 0..Len(q) : Among(Append(q, x), n, e) = Among(q, n, e)
           /\ Among(Append(q, x), Len(q) + 1, e) = Among(q, Len(q), e) + One(x = e)
<1> DEFINE p == Append(q, x)
<1>1. p \in Seq(Event) /\ p[Len(q) + 1] = x /\ \A m \in 1..Len(q) : p[m] = q[m]
  OBVIOUS
<1>2. \A n \in 0..Len(q) : Places(p, n, e) = Places(q, n, e)
  BY <1>1 DEF Places
<1>3. Places(p, Len(q) + 1, e) =
          IF x = e THEN Places(q, Len(q), e) \cup {Len(q) + 1} ELSE Places(q, Len(q), e)
  BY <1>1 DEF Places
<1>4. Len(q) + 1 \notin Places(q, Len(q), e)
  BY DEF Places
<1>5. IsFiniteSet(Places(q, Len(q), e)) /\ Among(q, Len(q), e) \in Nat
  BY AmongType
<1>6. Among(p, Len(q) + 1, e) = Among(q, Len(q), e) + One(x = e)
  <2>1. CASE x = e
    BY <1>3, <1>4, <1>5, <2>1, AddOne DEF Among, One
  <2>2. CASE x # e
    BY <1>3, <1>5, <2>2 DEF Among, One
  <2>. QED  BY <2>1, <2>2
<1>. QED  BY <1>2, <1>6 DEF Among

\* Taking out the first record moves the others up by one place.
LEMMA AmongTail ==
    ASSUME NEW q \in Seq(Event), q # <<>>, NEW n \in 0 .. Len(q) - 1, NEW e
    PROVE  Among(Tail(q), n, e) = Among(q, n + 1, e) - One(Head(q) = e)
<1> DEFINE S == Places(q, n + 1, e) \ {1}
           T == Places(Tail(q), n, e)
           F == [m \in S |-> m - 1]
<1>1. Len(q) \in Nat \ {0} /\ \A m \in 1 .. Len(q) - 1 : Tail(q)[m] = q[m + 1]
  OBVIOUS
<1>2. F \in [S -> T]
  BY <1>1 DEF Places
<1>3. \A a, b \in S : F[a] = F[b] => a = b
  BY DEF Places
<1>4. \A t \in T : \E s \in S : F[s] = t
  <2> SUFFICES ASSUME NEW t \in T PROVE \E s \in S : F[s] = t
    OBVIOUS
  <2>1. t + 1 \in S /\ F[t + 1] = t
    BY <1>1 DEF Places
  <2>. QED  BY <2>1
<1>5. ExistsBijection(S, T)
  BY <1>2, <1>3, <1>4, Fun_IsBij DEF ExistsBijection
<1>6. IsFiniteSet(Places(q, n + 1, e)) /\ Among(q, n + 1, e) \in Nat
  BY AmongType
<1>7. IsFiniteSet(S) /\ Cardinality(S) = Among(q, n + 1, e) - One(1 \in Places(q, n + 1, e))
  BY <1>6, RemoveOne DEF Among
<1>8. 1 \in Places(q, n + 1, e) <=> Head(q) = e
  BY DEF Places
<1>9. Cardinality(T) = Cardinality(S)
  BY <1>5, <1>7, FS_Bijection
<1>. QED  BY <1>7, <1>8, <1>9 DEF Among
-----------------------------------------------------------------------------
(* The inductive invariant *)

AliveAt == KidLabel \ {"none"}
AcceptedAt == {"accepted"}
BusyAt == {"job", "hung", "result"}
Alive(f) == NumberAt(f, AliveAt)
Accepted(f) == NumberAt(f, AcceptedAt)
Busy(f) == NumberAt(f, BusyAt)

\* The records e that are counted or among the first n of the pipe.
Told(c, q, n, e) == c[e] + Among(q, n, e)

StartOK ==
    /\ (launcher # "none" \/ mpc = "detach") => ~opt_no_detach
    /\ PidFileNamesMaster

\* The master forks only below its limit, children accept only within their
\* lifetime, and nobody is signalled before the master goes.
PoolOK ==
    /\ mpc = "forked" => dcc_nkids < dcc_max_kids
    /\ ~MasterGone => signalled = {}
    /\ \A k \in Kid : kid[k] = "accepting" => ireq[k] < child_lifetime

KidsCounted == ~MasterGone => Alive(kid) = dcc_nkids + One(mpc = "forked")

\* A result is told by a child that has told of its connection before, and
\* the pipe keeps the order: any beginning of it has no more results than
\* connections.
EventsCounted ==
    (arg_stats /\ ~MasterGone) =>
        /\ made - backlog = Told(counters, pipe, Len(pipe), "accept") + Accepted(kid) + unreported
        /\ \A n \in 0 .. Len(pipe) :
               Told(counters, pipe, n, "result") <= Told(counters, pipe, n, "accept")
        /\ Told(counters, pipe, Len(pipe), "result") + Busy(kid)
               <= Told(counters, pipe, Len(pipe), "accept")

JobsOK ==
    /\ backlog <= made
    /\ mpc = "select" => arg_stats

IInv == TypeOK /\ StartOK /\ PoolOK /\ KidsCounted /\ JobsOK /\ EventsCounted
-----------------------------------------------------------------------------
(* Single steps *)

\* What a step of the child k to another place does to the number of children
\* at the labels L.
LEMMA Stays ==
    ASSUME kid \in [Kid -> KidLabel], NEW k \in Kid, NEW to \in KidLabel,
           kid' = [kid EXCEPT ![k] = to], NEW L, kid[k] \in L <=> to \in L
    PROVE  NumberAt(kid', L) = NumberAt(kid, L)
  BY NumberAtStep

LEMMA Joins ==
    ASSUME kid \in [Kid -> KidLabel], NEW k \in Kid, NEW to \in KidLabel,
           kid' = [kid EXCEPT ![k] = to], NEW L, kid[k] \notin L, to \in L
    PROVE  NumberAt(kid', L) = NumberAt(kid, L) + 1
  BY NumberAtStep

LEMMA Leaves ==
    ASSUME kid \in [Kid -> KidLabel], NEW k \in Kid, NEW to \in KidLabel,
           kid' = [kid EXCEPT ![k] = to], NEW L, kid[k] \in L, to \notin L
    PROVE  NumberAt(kid', L) = NumberAt(kid, L) - 1
  BY NumberAtStep

\* The numbers are natural.
LEMMA CountTypes ==
    ASSUME TypeOK
    PROVE  /\ Alive(kid) \in Nat /\ Accepted(kid) \in Nat /\ Busy(kid) \in Nat
           /\ \A n \in Nat, e \in Event : Told(counters, pipe, n, e) \in Nat
<1>1. \A n \in Nat, e \in Event : Among(pipe, n, e) \in Nat /\ counters[e] \in Nat
  BY AmongType, DaemonAssumption DEF TypeOK
<1>. QED  BY <1>1, NumberAtType DEF Alive, Accepted, Busy, Told

\* A record is told once it is in the pipe ...
LEMMA ToldAppend ==
    ASSUME TypeOK, NEW x \in Event, pipe' = Append(pipe, x), counters' = counters,
           NEW e \in Event
    PROVE  /\ Len(pipe') = Len(pipe) + 1
           /\ \A n \in 0..Len(pipe) :
                  Told(counters', pipe', n, e) = Told(counters, pipe, n, e)
           /\ Told(counters', pipe', Len(pipe'), e) =
                  Told(counters, pipe, Len(pipe), e) + One(x = e)
<1>1. pipe \in Seq(Event) /\ counters[e] \in Nat /\ Among(pipe, Len(pipe), e) \in Nat
  BY AmongType, DaemonAssumption DEF TypeOK
<1>2. Len(pipe') = Len(pipe) + 1
  BY <1>1
<1>3. \A n \in 0..Len(pipe) : Among(pipe', n, e) = Among(pipe, n, e)
  BY <1>1, AmongAppend
<1>4. Among(pipe', Len(pipe) + 1, e) = Among(pipe, Len(pipe), e) + One(x = e)
  BY <1>1, AmongAppend
<1>5. One(x = e) \in Nat
  BY DEF One
<1>. QED  BY <1>1, <1>2, <1>3, <1>4, <1>5 DEF Told

\* ... and stays so when the master takes it out and counts it.
LEMMA ToldTail ==
    ASSUME TypeOK, pipe # <<>>, pipe' = Tail(pipe), NEW e \in Event,
           counters' = [counters EXCEPT ![Head(pipe)] = @ + 1]
    PROVE  /\ Len(pipe') = Len(pipe) - 1 /\ Len(pipe') \in Nat
           /\ \A n \in 0..Len(pipe') :
                  Told(counters', pipe', n, e) = Told(counters, pipe, n + 1, e)
<1>1. pipe \in Seq(Event) /\ Head(pipe) \in Event /\ Len(pipe) \in Nat \ {0}
  BY DEF TypeOK
<1>2. Len(pipe') = Len(pipe) - 1 /\ Len(pipe') \in Nat
  BY <1>1
<1>3. counters[e] \in Nat /\ counters'[e] = counters[e] + One(Head(pipe) = e)
  BY <1>1, DaemonAssumption DEF TypeOK, One
<1>4. ASSUME NEW n \in 0..Len(pipe')
      PROVE  Told(counters', pipe', n, e) = Told(counters, pipe, n + 1, e)
  <2>1. Among(pipe', n, e) = Among(pipe, n + 1, e) - One(Head(pipe) = e)
    BY <1>1, <1>2, AmongTail
  <2>2. Among(pipe, n + 1, e) \in Nat
    BY <1>2, AmongType
  <2>. QED  BY <1>3, <2>1, <2>2 DEF Told, One
<1>. QED  BY <1>2, <1>4
-----------------------------------------------------------------------------
(* Every step keeps the invariant *)

\* The steps of the master that leave children, jobs and events alone.
Quiet ==
    \/ dcc_detach \/ dcc_save_pid \/ dcc_daemon_catch_signals \/ SetMasterPid
    \/ EnoughKids \/ NoMoreZombies \/ SelectInterrupted \/ SelectTimeout
    \/ LauncherSavesPid \/ ForkFails

\* The steps of the child k that only move it on.
Moves(k) ==
    NextRequest(k) \/ JobRefused(k) \/ JobEnds(k) \/ ClientVanishes(k)

\* The ends of the child k.
Ends(k) == WornOut(k) \/ AcceptFails(k) \/ Alarm(k) \/ KidSignalled(k)

LEMMA NextCases ==
    ASSUME Next
    PROVE  \/ Quiet \/ CountKid \/ StatsReport \/ dcc_daemon_terminate \/ Connect
           \/ \E k \in Kid : \/ Fork(k) \/ ReapKid(k) \/ Accept(k)
                             \/ ReportAccept(k) \/ ReportResult(k)
                             \/ Moves(k) \/ Ends(k)
  BY Zenon DEF Next, MasterStep, KidStep, Failure, Quiet, Moves, Ends

\* One equation for each kind of variable that a step leaves alone.
LEMMA QuietChanges ==
    ASSUME Quiet
    PROVE  UNCHANGED <<kid, ireq, signalled, backlog, made, pipe, counters, unreported, dcc_nkids>>
  BY DEF Quiet, dcc_detach, dcc_save_pid, dcc_daemon_catch_signals, SetMasterPid,
         EnoughKids, NoMoreZombies, SelectInterrupted, SelectTimeout, LauncherSavesPid,
         ForkFails, MasterGoto, MainLoop, ManageKids, kids, jobs, stats, master

LEMMA QuietType ==
    ASSUME TypeOK, Quiet
    PROVE  TypeOK' /\ arg_stats' = arg_stats /\ opt_no_detach' = opt_no_detach
<1>1. /\ opt_no_detach' = opt_no_detach /\ arg_stats' = arg_stats
      /\ launcher' \in {"none", "save_pid", "exited", "unsaved"} /\ pid_file' \in BOOLEAN
      /\ mpc' \in MasterLabel /\ must_reap' \in BOOLEAN /\ woken' \in BOOLEAN
  BY DEF TypeOK, MasterLabel, Quiet, dcc_detach, dcc_save_pid, dcc_daemon_catch_signals,
         SetMasterPid, EnoughKids, NoMoreZombies, SelectInterrupted, SelectTimeout,
         LauncherSavesPid, ForkFails, MasterGoto, MainLoop, ManageKids, master, startup,
         PidRemovedAtExit
<1>. QED  BY <1>1, QuietChanges DEF TypeOK

\* Where a child may be that ends with no signal from the master.
Ending == {"loop", "accepting", "accepted", "job", "hung", "result"}

\* The places of a child that ends, and of one that moves on.
LEMMA EndsMove ==
    ASSUME TypeOK, NEW k \in Kid, Ends(k)
    PROVE  /\ \E to \in {"none", "zombie"} :
                  /\ to = (IF MasterGone THEN "none" ELSE "zombie")
                  /\ kid' = [kid EXCEPT ![k] = to]
           /\ signalled' = signalled \ {k} /\ woken' = (woken \/ mpc = "select")
           /\ UNCHANGED <<mpc, dcc_nkids, must_reap, startup, ireq, jobs, pipe, counters>>
           /\ pid_file' \in {pid_file, pid_file /\ ~opt_no_detach}
           /\ \/ kid[k] \in Ending \/ k \in signalled
           /\ \/ kid[k] # "accepted" /\ unreported' = unreported
              \/ kid[k] = "accepted" /\ unreported' = unreported + 1
              \/ k \in signalled /\ unreported' = unreported
  BY DEF Ends, WornOut, AcceptFails, Alarm, KidSignalled, KidExits, KidEnds,
         PidRemovedAtExit, Ending, stats

LEMMA MovesMove ==
    ASSUME TypeOK, NEW k \in Kid, Moves(k)
    PROVE  /\ \E to \in {"loop", "accepting", "result", "hung"} :
                  kid' = [kid EXCEPT ![k] = to]
           /\ UNCHANGED <<startup, pid_file, master, ireq, signalled, jobs, stats>>
           /\ \/ kid[k] = "loop" /\ kid'[k] = "accepting" /\ ireq[k] < child_lifetime
              \/ kid[k] = "job" /\ kid'[k] \in {"loop", "result", "hung"}
  BY DEF Moves, NextRequest, JobRefused, JobEnds, ClientVanishes, KidGoto, TypeOK
LEMMA QuietMaster ==
    ASSUME TypeOK, Quiet
    PROVE  /\ mpc' # mpc => mpc # "forked" /\ mpc' # "forked" /\ mpc' # "detach" /\ ~MasterGone
           /\ mpc' = "select" /\ mpc # "select" => arg_stats
  BY DEF Quiet, dcc_detach, dcc_save_pid, dcc_daemon_catch_signals, SetMasterPid,
         EnoughKids, NoMoreZombies, SelectInterrupted, SelectTimeout, LauncherSavesPid,
         ForkFails, MasterGoto, MainLoop, ManageKids, master, MasterGone

\* Nothing of what the invariant is about changes but the master's place.
LEMMA QuietStep ==
    ASSUME IInv, Quiet
    PROVE  IInv'
<1>1. TypeOK' /\ arg_stats' = arg_stats /\ opt_no_detach' = opt_no_detach
  BY QuietType DEF IInv
<1>2. UNCHANGED <<kid, ireq, signalled, backlog, made, pipe, counters, unreported, dcc_nkids>>
  BY QuietChanges
<1>3. /\ mpc' # mpc => mpc # "forked" /\ mpc' # "forked" /\ mpc' # "detach" /\ ~MasterGone
      /\ mpc' = "select" /\ mpc # "select" => arg_stats
  BY QuietMaster DEF IInv
<1>4. StartOK'
  BY <1>1, <1>3 DEF IInv, TypeOK, StartOK, PidFileNamesMaster, MasterGone, Quiet, dcc_detach,
     dcc_save_pid, dcc_daemon_catch_signals, SetMasterPid, EnoughKids, NoMoreZombies,
     SelectInterrupted, SelectTimeout, LauncherSavesPid, ForkFails, MasterGoto, MainLoop,
     ManageKids, master, startup, PidRemovedAtExit
<1>5. PoolOK' /\ JobsOK'
  BY <1>1, <1>2, <1>3 DEF IInv, PoolOK, JobsOK, MasterGone
<1>6. KidsCounted'
  BY <1>2, <1>3 DEF IInv, KidsCounted, MasterGone, One
<1>7. EventsCounted'
  BY <1>1, <1>2, <1>3 DEF IInv, EventsCounted, MasterGone
<1>. QED  BY <1>1, <1>4, <1>5, <1>6, <1>7 DEF IInv

LEMMA ConnectStep ==
    ASSUME IInv, Connect
    PROVE  IInv'
<1>1. TypeOK' /\ StartOK' /\ PoolOK' /\ JobsOK' /\ KidsCounted'
  BY DaemonAssumption
     DEF IInv, Connect, TypeOK, StartOK, PidFileNamesMaster, PoolOK, JobsOK, KidsCounted,
         MasterGone, startup, master, kids, stats
<1>2. EventsCounted'
  BY DEF IInv, Connect, TypeOK, EventsCounted, MasterGone, startup, master, kids, stats
<1>. QED  BY <1>1, <1>2 DEF IInv

LEMMA CountKidStep ==
    ASSUME IInv, CountKid
    PROVE  IInv'
<1> USE DaemonAssumption DEF IInv, CountKid, startup, kids, jobs, stats, MasterGone
<1>1. TypeOK' /\ StartOK' /\ PoolOK' /\ JobsOK'
  BY DEF TypeOK, MasterLabel, StartOK, PidFileNamesMaster, PoolOK, JobsOK
<1>2. KidsCounted'
  BY DEF TypeOK, KidsCounted, One
<1>3. EventsCounted'
  BY DEF EventsCounted
<1>. QED  BY <1>1, <1>2, <1>3

\* When the master goes nothing is left to keep but the types.
LEMMA TerminateStep ==
    ASSUME IInv, dcc_daemon_terminate
    PROVE  IInv'
<1>1. /\ mpc' = "dead" /\ pid_file' \in BOOLEAN /\ kid' \in [Kid -> KidLabel]
      /\ signalled' \subseteq Kid
      /\ \A k \in Kid : kid'[k] = "accepting" => kid[k] = "accepting"
      /\ UNCHANGED <<startup, dcc_nkids, must_reap, woken, ireq, jobs, stats>>
  BY DEF IInv, TypeOK, dcc_daemon_terminate, KillGroup, ProcessGroup, KidLabel
<1>2. TypeOK'
  BY <1>1 DEF IInv, TypeOK, MasterLabel, startup, jobs, stats
<1>3. StartOK' /\ PoolOK' /\ JobsOK'
  BY <1>1 DEF IInv, StartOK, PidFileNamesMaster, PoolOK, JobsOK, MasterGone, startup, jobs
<1>4. KidsCounted' /\ EventsCounted'
  BY <1>1 DEF KidsCounted, EventsCounted, MasterGone
<1>. QED  BY <1>2, <1>3, <1>4 DEF IInv

\* The master counts a record: the beginnings of the pipe are what they were
\* with this record in front.
LEMMA StatsReportStep ==
    ASSUME IInv, StatsReport
    PROVE  IInv'
<1>1. /\ mpc = "select" /\ mpc' = "reap" /\ must_reap' = FALSE /\ woken' = FALSE
      /\ pipe # <<>> /\ pipe' = Tail(pipe)
      /\ counters' = [counters EXCEPT ![Head(pipe)] = @ + 1]
      /\ UNCHANGED <<opt_no_detach, arg_stats, launcher, pid_file, dcc_nkids, kid, ireq,
                     signalled, backlog, made, unreported>>
  BY DEF StatsReport, ManageKids, startup, kids, jobs
<1>2. arg_stats /\ ~MasterGone /\ TypeOK
  BY <1>1 DEF IInv, JobsOK, MasterGone
<1>3. \A e \in Event : /\ Len(pipe') = Len(pipe) - 1 /\ Len(pipe') \in Nat
                       /\ \A n \in 0..Len(pipe') :
                              Told(counters', pipe', n, e) = Told(counters, pipe, n + 1, e)
  BY <1>1, <1>2, ToldTail
<1>4. EventsCounted'
  <2>1. /\ made - backlog = Told(counters, pipe, Len(pipe), "accept") + Accepted(kid) + unreported
        /\ \A n \in 0 .. Len(pipe) :
               Told(counters, pipe, n, "result") <= Told(counters, pipe, n, "accept")
        /\ Told(counters, pipe, Len(pipe), "result") + Busy(kid)
               <= Told(counters, pipe, Len(pipe), "accept")
    BY <1>2 DEF IInv, EventsCounted
  <2>2. /\ Told(counters', pipe', Len(pipe'), "accept") = Told(counters, pipe, Len(pipe), "accept")
        /\ Told(counters', pipe', Len(pipe'), "result") = Told(counters, pipe, Len(pipe), "result")
    BY <1>2, <1>3 DEF Event, TypeOK
  <2>3. ASSUME NEW n \in 0..Len(pipe')
        PROVE  Told(counters', pipe', n, "result") <= Told(counters', pipe', n, "accept")
    BY <1>2, <1>3, <2>1 DEF Event, TypeOK
  <2>. QED  BY <1>1, <2>1, <2>2, <2>3 DEF EventsCounted
<1>5. TypeOK'
  <2>1. counters' \in [Event -> Nat] /\ pipe' \in Seq(Event)
    BY <1>1, <1>2, DaemonAssumption DEF TypeOK
  <2>2. \A e \in Event : counters'[e] <= Told(counters', pipe', Len(pipe'), e)
    BY <1>3, <2>1, AmongType DEF Told
  <2>3. /\ Accepted(kid) \in Nat /\ Busy(kid) \in Nat
        /\ \A e \in Event : Told(counters', pipe', Len(pipe'), e) \in Nat
    BY <1>2, <1>3, <2>1, CountTypes, AmongType DEF Told
  <2>4. Told(counters', pipe', Len(pipe'), "accept") <= MaxJobs
    BY <1>1, <1>2, <1>4, <2>3, DaemonAssumption DEF TypeOK, EventsCounted, MasterGone, Event
  <2>5. Told(counters', pipe', Len(pipe'), "result") <= MaxJobs
    BY <1>1, <1>2, <1>4, <2>3, <2>4, DaemonAssumption
       DEF TypeOK, EventsCounted, MasterGone, Event
  <2>6. counters' \in [Event -> 0..MaxJobs]
    BY <2>1, <2>2, <2>3, <2>4, <2>5, DaemonAssumption DEF Event
  <2>7. Len(pipe') <= PipeSize
    BY <1>2, <1>3, DaemonAssumption DEF TypeOK, Event
  <2>. QED  BY <1>1, <1>2, <2>1, <2>6, <2>7 DEF TypeOK, MasterLabel
<1>6. StartOK' /\ PoolOK' /\ JobsOK'
  BY <1>1 DEF IInv, StartOK, PidFileNamesMaster, PoolOK, JobsOK, MasterGone
<1>7. KidsCounted'
  BY <1>1 DEF IInv, KidsCounted, MasterGone, One
<1>. QED  BY <1>4, <1>5, <1>6, <1>7 DEF IInv

LEMMA ForkStep ==
    ASSUME IInv, NEW k \in Kid, Fork(k)
    PROVE  IInv'
<1>1. /\ mpc = "create" /\ mpc' = "forked" /\ dcc_nkids < dcc_max_kids
      /\ kid[k] = "none" /\ kid' = [kid EXCEPT ![k] = "loop"]
      /\ ireq' = [ireq EXCEPT ![k] = 0]
      /\ UNCHANGED <<opt_no_detach, arg_stats, launcher, pid_file, dcc_nkids, must_reap,
                     woken, signalled, backlog, made, pipe, counters, unreported>>
  BY DEF Fork, MoreKidsNeeded, startup, jobs, stats
<1>2. /\ kid' \in [Kid -> KidLabel]
      /\ Alive(kid') = Alive(kid) + 1 /\ Accepted(kid') = Accepted(kid) /\ Busy(kid') = Busy(kid)
  <2>1. /\ kid \in [Kid -> KidLabel] /\ "loop" \in KidLabel
        /\ kid' = [kid EXCEPT ![k] = "loop"] /\ kid' \in [Kid -> KidLabel]
    BY <1>1 DEF IInv, TypeOK, KidLabel
  <2>2. kid[k] \notin AliveAt /\ "loop" \in AliveAt
    BY <1>1, <2>1 DEF AliveAt, KidLabel
  <2>3. Alive(kid') = Alive(kid) + 1
    BY <2>1, <2>2, Joins, Zenon DEF Alive
  <2>4. (kid[k] \in AcceptedAt <=> "loop" \in AcceptedAt)
    BY <1>1 DEF AcceptedAt
  <2>5. Accepted(kid') = Accepted(kid)
    BY <2>1, <2>4, Stays, Zenon DEF Accepted
  <2>6. (kid[k] \in BusyAt <=> "loop" \in BusyAt)
    BY <1>1 DEF BusyAt
  <2>7. Busy(kid') = Busy(kid)
    BY <2>1, <2>6, Stays, Zenon DEF Busy
  <2>. QED  BY <2>1, <2>3, <2>5, <2>7
<1>3. TypeOK'
  BY <1>1, <1>2, DaemonAssumption DEF IInv, TypeOK, MasterLabel
<1>4. StartOK' /\ PoolOK' /\ JobsOK'
  BY <1>1 DEF IInv, TypeOK, StartOK, PidFileNamesMaster, PoolOK, JobsOK, MasterGone
<1>5. KidsCounted'
  BY <1>1, <1>2 DEF IInv, TypeOK, KidsCounted, MasterGone, One
<1>6. EventsCounted'
  BY <1>1, <1>2 DEF IInv, EventsCounted, MasterGone
<1>. QED  BY <1>3, <1>4, <1>5, <1>6 DEF IInv

\* The child that is collected was counted, so the count does not go below
\* zero.
LEMMA ReapStep ==
    ASSUME IInv, NEW k \in Kid, ReapKid(k)
    PROVE  IInv'
<1>1. /\ mpc = "reap" /\ kid[k] = "zombie" /\ kid' = [kid EXCEPT ![k] = "none"]
      /\ dcc_nkids' = dcc_nkids - 1 /\ must_reap' = FALSE
      /\ UNCHANGED <<opt_no_detach, arg_stats, launcher, pid_file, mpc, woken, ireq,
                     signalled, backlog, made, pipe, counters, unreported>>
  BY DEF ReapKid, ReapedCount, startup, jobs, stats
<1>2. /\ kid' \in [Kid -> KidLabel]
      /\ Alive(kid') = Alive(kid) - 1 /\ Accepted(kid') = Accepted(kid) /\ Busy(kid') = Busy(kid)
  <2>1. /\ kid \in [Kid -> KidLabel] /\ "none" \in KidLabel
        /\ kid' = [kid EXCEPT ![k] = "none"] /\ kid' \in [Kid -> KidLabel]
    BY <1>1 DEF IInv, TypeOK, KidLabel
  <2>2. kid[k] \in AliveAt /\ "none" \notin AliveAt
    BY <1>1, <2>1 DEF AliveAt, KidLabel
  <2>3. Alive(kid') = Alive(kid) - 1
    BY <2>1, <2>2, Leaves, Zenon DEF Alive
  <2>4. (kid[k] \in AcceptedAt <=> "none" \in AcceptedAt)
    BY <1>1 DEF AcceptedAt
  <2>5. Accepted(kid') = Accepted(kid)
    BY <2>1, <2>4, Stays, Zenon DEF Accepted
  <2>6. (kid[k] \in BusyAt <=> "none" \in BusyAt)
    BY <1>1 DEF BusyAt
  <2>7. Busy(kid') = Busy(kid)
    BY <2>1, <2>6, Stays, Zenon DEF Busy
  <2>. QED  BY <2>1, <2>3, <2>5, <2>7
<1>3. Alive(kid) >= 1 /\ dcc_nkids = Alive(kid)
  <2>1. kid[k] \in AliveAt
    BY <1>1 DEF AliveAt, KidLabel
  <2>2. Alive(kid) >= 1
    BY <2>1, NumberAtPositive, Zenon DEF Alive
  <2>3. Alive(kid) = dcc_nkids + 0
    BY <1>1 DEF IInv, KidsCounted, MasterGone, One
  <2>. QED  BY <2>2, <2>3, DaemonAssumption DEF IInv, TypeOK
<1>4. TypeOK'
  <2>1. dcc_nkids' \in 0..dcc_max_kids
    BY <1>1, <1>3, DaemonAssumption DEF IInv, TypeOK
  <2>. QED  BY <1>1, <1>2, <2>1 DEF IInv, TypeOK
<1>5. StartOK' /\ PoolOK' /\ JobsOK'
  BY <1>1 DEF IInv, TypeOK, StartOK, PidFileNamesMaster, PoolOK, JobsOK, MasterGone
<1>6. KidsCounted'
  BY <1>1, <1>2, <1>3 DEF IInv, TypeOK, KidsCounted, MasterGone, One
<1>7. EventsCounted'
  BY <1>1, <1>2 DEF IInv, EventsCounted, MasterGone
<1>. QED  BY <1>4, <1>5, <1>6, <1>7 DEF IInv

LEMMA AcceptStep ==
    ASSUME IInv, NEW k \in Kid, Accept(k)
    PROVE  IInv'
<1>1. /\ kid[k] = "accepting" /\ kid' = [kid EXCEPT ![k] = "accepted"]
      /\ backlog > 0 /\ backlog' = backlog - 1
      /\ ireq' = [ireq EXCEPT ![k] = @ + 1]
      /\ UNCHANGED <<opt_no_detach, arg_stats, launcher, pid_file, mpc, dcc_nkids, must_reap,
                     woken, signalled, made, pipe, counters, unreported>>
  BY DEF Accept, KidGoto, startup, master, stats
<1>2. /\ kid' \in [Kid -> KidLabel]
      /\ Alive(kid') = Alive(kid) /\ Accepted(kid') = Accepted(kid) + 1 /\ Busy(kid') = Busy(kid)
  <2>1. /\ kid \in [Kid -> KidLabel] /\ "accepted" \in KidLabel
        /\ kid' = [kid EXCEPT ![k] = "accepted"] /\ kid' \in [Kid -> KidLabel]
    BY <1>1 DEF IInv, TypeOK, KidLabel
  <2>2. (kid[k] \in AliveAt <=> "accepted" \in AliveAt)
    BY <1>1, <2>1 DEF AliveAt, KidLabel
  <2>3. Alive(kid') = Alive(kid)
    BY <2>1, <2>2, Stays, Zenon DEF Alive
  <2>4. kid[k] \notin AcceptedAt /\ "accepted" \in AcceptedAt
    BY <1>1 DEF AcceptedAt
  <2>5. Accepted(kid') = Accepted(kid) + 1
    BY <2>1, <2>4, Joins, Zenon DEF Accepted
  <2>6. (kid[k] \in BusyAt <=> "accepted" \in BusyAt)
    BY <1>1 DEF BusyAt
  <2>7. Busy(kid') = Busy(kid)
    BY <2>1, <2>6, Stays, Zenon DEF Busy
  <2>. QED  BY <2>1, <2>3, <2>5, <2>7
<1>3. TypeOK'
  BY <1>1, <1>2, DaemonAssumption DEF IInv, TypeOK, PoolOK
<1>4. StartOK' /\ PoolOK' /\ JobsOK'
  BY <1>1, DaemonAssumption
     DEF IInv, TypeOK, StartOK, PidFileNamesMaster, PoolOK, JobsOK, MasterGone
<1>5. KidsCounted'
  BY <1>1, <1>2 DEF IInv, KidsCounted, MasterGone
<1>6. EventsCounted'
  <2> SUFFICES ASSUME arg_stats, ~MasterGone PROVE EventsCounted'
    BY <1>1 DEF EventsCounted, MasterGone
  <2>1. /\ Accepted(kid) \in Nat /\ unreported \in Nat
        /\ Told(counters, pipe, Len(pipe), "accept") \in Nat
        /\ made - backlog = Told(counters, pipe, Len(pipe), "accept") + Accepted(kid) + unreported
    BY CountTypes DEF IInv, EventsCounted, TypeOK, Event
  <2>2. made - (backlog - 1) =
            Told(counters, pipe, Len(pipe), "accept") + (Accepted(kid) + 1) + unreported
    <3>1. made \in Int /\ backlog \in Int
      BY DaemonAssumption DEF IInv, TypeOK
    <3>. QED  BY <2>1, <3>1
  <2>. QED  BY <1>1, <1>2, <2>2 DEF IInv, EventsCounted
<1>. QED  BY <1>3, <1>4, <1>5, <1>6 DEF IInv

LEMMA MovesStep ==
    ASSUME IInv, NEW k \in Kid, Moves(k)
    PROVE  IInv'
<1>1. PICK to \in {"loop", "accepting", "result", "hung"} : kid' = [kid EXCEPT ![k] = to]
  BY MovesMove DEF IInv
<1>2. /\ UNCHANGED <<opt_no_detach, arg_stats, launcher, pid_file, mpc, dcc_nkids, must_reap,
                     woken, ireq, signalled, backlog, made, pipe, counters, unreported>>
      /\ \/ kid[k] = "loop" /\ to = "accepting" /\ ireq[k] < child_lifetime
         \/ kid[k] = "job" /\ to \in {"loop", "result", "hung"}
  BY <1>1, MovesMove DEF IInv, TypeOK, startup, master, jobs, stats
<1>3. /\ kid' \in [Kid -> KidLabel]
      /\ Alive(kid') = Alive(kid) /\ Accepted(kid') = Accepted(kid)
      /\ Busy(kid') <= Busy(kid) /\ Busy(kid') \in Int
  <2>1. /\ kid \in [Kid -> KidLabel] /\ to \in KidLabel
        /\ kid' = [kid EXCEPT ![k] = to] /\ kid' \in [Kid -> KidLabel]
    BY <1>1, <1>2 DEF IInv, TypeOK, KidLabel
  <2>2. (kid[k] \in AliveAt <=> to \in AliveAt)
    BY <1>1, <1>2, <2>1 DEF AliveAt, KidLabel
  <2>3. Alive(kid') = Alive(kid)
    BY <2>1, <2>2, Stays, Zenon DEF Alive
  <2>4. (kid[k] \in AcceptedAt <=> to \in AcceptedAt)
    BY <1>1, <1>2 DEF AcceptedAt
  <2>5. Accepted(kid') = Accepted(kid)
    BY <2>1, <2>4, Stays, Zenon DEF Accepted
  <2>6. Busy(kid) \in Nat
    BY CountTypes DEF IInv
  <2>7. Busy(kid') <= Busy(kid) /\ Busy(kid') \in Int
    <3>1. CASE kid[k] \in BusyAt <=> to \in BusyAt
      <4>1. Busy(kid') = Busy(kid)
        BY <2>1, <3>1, Stays, Zenon DEF Busy
      <4>. QED  BY <2>6, <4>1
    <3>2. CASE kid[k] \in BusyAt /\ to \notin BusyAt
      <4>1. Busy(kid') = Busy(kid) - 1
        BY <2>1, <3>2, Leaves, Zenon DEF Busy
      <4>. QED  BY <2>6, <4>1
    <3>. QED  BY <1>1, <1>2, <3>1, <3>2 DEF BusyAt
  <2>. QED  BY <2>1, <2>3, <2>5, <2>7
<1>4. TypeOK'
  BY <1>2, <1>3 DEF IInv, TypeOK
<1>5. StartOK' /\ PoolOK' /\ JobsOK'
  BY <1>1, <1>2 DEF IInv, TypeOK, StartOK, PidFileNamesMaster, PoolOK, JobsOK, MasterGone
<1>6. KidsCounted'
  BY <1>2, <1>3 DEF IInv, KidsCounted, MasterGone
<1>7. EventsCounted'
  <2>1. /\ Busy(kid) \in Nat /\ Told(counters, pipe, Len(pipe), "accept") \in Nat
        /\ Told(counters, pipe, Len(pipe), "result") \in Nat
    BY CountTypes DEF IInv, TypeOK, Event
  <2>. QED  BY <1>2, <1>3, <2>1 DEF IInv, EventsCounted, MasterGone
<1>. QED  BY <1>4, <1>5, <1>6, <1>7 DEF IInv

\* No one is signalled while the master lives, so a child that ends has told
\* of its connection or the alarm has struck it, and it is unreported.
LEMMA EndsStep ==
    ASSUME IInv, NEW k \in Kid, Ends(k)
    PROVE  IInv'
<1>1. PICK to \in {"none", "zombie"} : /\ to = (IF MasterGone THEN "none" ELSE "zombie")
                                       /\ kid' = [kid EXCEPT ![k] = to]
  BY EndsMove DEF IInv
<1>2. /\ signalled' = signalled \ {k} /\ woken' = (woken \/ mpc = "select")
      /\ UNCHANGED <<opt_no_detach, arg_stats, launcher, mpc, dcc_nkids, must_reap, ireq,
                     backlog, made, pipe, counters>>
      /\ pid_file' \in {pid_file, pid_file /\ ~opt_no_detach}
      /\ kid[k] \in Ending \/ k \in signalled
      /\ \/ kid[k] # "accepted" /\ unreported' = unreported
         \/ kid[k] = "accepted" /\ unreported' = unreported + 1
         \/ k \in signalled /\ unreported' = unreported
  BY EndsMove DEF IInv, startup, jobs
<1>3. kid' \in [Kid -> KidLabel]
  BY <1>1 DEF IInv, TypeOK, KidLabel
<1>4. TypeOK'
  <2>1. unreported' \in Nat
    BY <1>2 DEF IInv, TypeOK
  <2>2. signalled' \subseteq Kid /\ woken' \in BOOLEAN /\ pid_file' \in BOOLEAN
    BY <1>2 DEF IInv, TypeOK
  <2>. QED  BY <1>2, <1>3, <2>1, <2>2 DEF IInv, TypeOK
<1>5. StartOK' /\ PoolOK' /\ JobsOK'
  BY <1>1, <1>2 DEF IInv, TypeOK, StartOK, PidFileNamesMaster, PoolOK, JobsOK, MasterGone
<1>6. ASSUME ~MasterGone
      PROVE  /\ Alive(kid') = Alive(kid)
             /\ Accepted(kid') + unreported' = Accepted(kid) + unreported
             /\ Accepted(kid') \in Int /\ unreported' \in Int
             /\ Busy(kid') <= Busy(kid) /\ Busy(kid') \in Int
  <2>1. kid[k] \in Ending /\ to = "zombie" /\ k \notin signalled
    BY <1>1, <1>2, <1>6 DEF IInv, PoolOK
  <2>2. /\ kid \in [Kid -> KidLabel] /\ to \in KidLabel
        /\ kid' = [kid EXCEPT ![k] = to] /\ kid' \in [Kid -> KidLabel]
    BY <1>1, <2>1 DEF IInv, TypeOK, KidLabel
  <2>3. (kid[k] \in AliveAt <=> to \in AliveAt)
    BY <1>1, <2>1, <2>2 DEF AliveAt, KidLabel, Ending
  <2>4. Alive(kid') = Alive(kid)
    BY <2>2, <2>3, Stays, Zenon DEF Alive
  <2>5. Accepted(kid) \in Nat /\ unreported \in Nat
    BY CountTypes DEF IInv, TypeOK
  <2>6. /\ Accepted(kid') + unreported' = Accepted(kid) + unreported
        /\ Accepted(kid') \in Int /\ unreported' \in Int
    <3>1. CASE kid[k] = "accepted"
      <4>1. kid[k] \in AcceptedAt /\ to \notin AcceptedAt
        BY <2>1, <3>1 DEF AcceptedAt
      <4>2. Accepted(kid') = Accepted(kid) - 1
        BY <2>2, <4>1, Leaves, Zenon DEF Accepted
      <4>3. unreported' = unreported + 1
        BY <1>2, <2>1, <3>1
      <4>. QED  BY <2>5, <4>2, <4>3
    <3>2. CASE kid[k] # "accepted"
      <4>1. kid[k] \in AcceptedAt <=> to \in AcceptedAt
        BY <2>1, <3>2 DEF AcceptedAt
      <4>2. Accepted(kid') = Accepted(kid)
        BY <2>2, <4>1, Stays, Zenon DEF Accepted
      <4>3. unreported' = unreported
        BY <1>2, <2>1, <3>2
      <4>. QED  BY <2>5, <4>2, <4>3
    <3>. QED  BY <3>1, <3>2
  <2>7. Busy(kid) \in Nat
    BY CountTypes DEF IInv
  <2>8. Busy(kid') <= Busy(kid) /\ Busy(kid') \in Int
    <3>1. CASE kid[k] \in BusyAt <=> to \in BusyAt
      <4>1. Busy(kid') = Busy(kid)
        BY <2>2, <3>1, Stays, Zenon DEF Busy
      <4>. QED  BY <2>7, <4>1
    <3>2. CASE kid[k] \in BusyAt /\ to \notin BusyAt
      <4>1. Busy(kid') = Busy(kid) - 1
        BY <2>2, <3>2, Leaves, Zenon DEF Busy
      <4>. QED  BY <2>7, <4>1
    <3>. QED  BY <1>1, <2>1, <3>1, <3>2 DEF BusyAt, Ending
  <2>. QED  BY <2>2, <2>4, <2>6, <2>8
<1>7. KidsCounted'
  BY <1>2, <1>6 DEF IInv, KidsCounted, MasterGone
<1>8. EventsCounted'
  <2> SUFFICES ASSUME arg_stats, ~MasterGone PROVE EventsCounted'
    BY <1>2 DEF EventsCounted, MasterGone
  <2>1. /\ Busy(kid) \in Nat /\ Accepted(kid) \in Nat /\ unreported \in Nat
        /\ Told(counters, pipe, Len(pipe), "accept") \in Nat
        /\ Told(counters, pipe, Len(pipe), "result") \in Nat
    BY CountTypes DEF IInv, TypeOK, Event
  <2>2. Told(counters, pipe, Len(pipe), "accept") + Accepted(kid') + unreported' =
            Told(counters, pipe, Len(pipe), "accept") + Accepted(kid) + unreported
    BY <1>6, <2>1
  <2>3. Told(counters, pipe, Len(pipe), "result") + Busy(kid')
            <= Told(counters, pipe, Len(pipe), "accept")
    BY <1>6, <2>1 DEF IInv, EventsCounted
  <2>. QED  BY <1>2, <2>2, <2>3 DEF IInv, EventsCounted
<1>. QED  BY <1>4, <1>5, <1>7, <1>8 DEF IInv

\* A child that writes its record waits for room in the pipe.
LEMMA ReportAcceptStep ==
    ASSUME IInv, NEW k \in Kid, ReportAccept(k)
    PROVE  IInv'
<1>1. /\ kid[k] = "accepted" /\ kid' = [kid EXCEPT ![k] = "job"]
      /\ dcc_stats_event("accept")
      /\ UNCHANGED <<opt_no_detach, arg_stats, launcher, pid_file, mpc, dcc_nkids, must_reap,
                     woken, ireq, signalled, backlog, made>>
  BY DEF ReportAccept, KidGoto, startup, master, jobs
<1>2. /\ kid' \in [Kid -> KidLabel]
      /\ Alive(kid') = Alive(kid) /\ Accepted(kid') = Accepted(kid) - 1
      /\ Busy(kid') = Busy(kid) + 1
  <2>1. /\ kid \in [Kid -> KidLabel] /\ "job" \in KidLabel
        /\ kid' = [kid EXCEPT ![k] = "job"] /\ kid' \in [Kid -> KidLabel]
    BY <1>1 DEF IInv, TypeOK, KidLabel
  <2>2. kid[k] \in AliveAt <=> "job" \in AliveAt
    BY <1>1 DEF AliveAt, KidLabel
  <2>3. Alive(kid') = Alive(kid)
    BY <2>1, <2>2, Stays, Zenon DEF Alive
  <2>4. kid[k] \in AcceptedAt /\ "job" \notin AcceptedAt
    BY <1>1 DEF AcceptedAt
  <2>5. Accepted(kid') = Accepted(kid) - 1
    BY <2>1, <2>4, Leaves, Zenon DEF Accepted
  <2>6. kid[k] \notin BusyAt /\ "job" \in BusyAt
    BY <1>1 DEF BusyAt
  <2>7. Busy(kid') = Busy(kid) + 1
    BY <2>1, <2>6, Joins, Zenon DEF Busy
  <2>. QED  BY <2>1, <2>3, <2>5, <2>7
<1>3. TypeOK'
  <2>1. pipe \in Seq(Event) /\ Len(pipe) <= PipeSize /\ Len(pipe) \in Nat
    BY DEF IInv, TypeOK
  <2>2. pipe' \in Seq(Event) /\ Len(pipe') <= PipeSize /\ counters' = counters /\ unreported' = unreported
    BY <1>1, <2>1, DaemonAssumption DEF dcc_stats_event, stats, Event
  <2>. QED  BY <1>1, <1>2, <2>2 DEF IInv, TypeOK
<1>4. StartOK' /\ PoolOK' /\ JobsOK'
  BY <1>1 DEF IInv, TypeOK, StartOK, PidFileNamesMaster, PoolOK, JobsOK, MasterGone
<1>5. KidsCounted'
  BY <1>1, <1>2 DEF IInv, KidsCounted, MasterGone
<1>6. EventsCounted'
  <2> SUFFICES ASSUME arg_stats, ~MasterGone PROVE EventsCounted'
    BY <1>1 DEF EventsCounted, MasterGone
  <2>1. /\ pipe' = Append(pipe, "accept") /\ counters' = counters /\ unreported' = unreported
        /\ "accept" \in Event
    BY <1>1 DEF dcc_stats_event, Event
  <2>2. \A e \in Event :
            /\ Len(pipe') = Len(pipe) + 1
            /\ \A n \in 0..Len(pipe) :
                   Told(counters', pipe', n, e) = Told(counters, pipe, n, e)
            /\ Told(counters', pipe', Len(pipe'), e) =
                   Told(counters, pipe, Len(pipe), e) + One("accept" = e)
    BY <2>1, ToldAppend DEF IInv
  <2>3. /\ made - backlog = Told(counters, pipe, Len(pipe), "accept") + Accepted(kid) + unreported
        /\ \A n \in 0 .. Len(pipe) :
               Told(counters, pipe, n, "result") <= Told(counters, pipe, n, "accept")
        /\ Told(counters, pipe, Len(pipe), "result") + Busy(kid)
               <= Told(counters, pipe, Len(pipe), "accept")
    BY DEF IInv, EventsCounted
  <2>4. /\ Accepted(kid) \in Nat /\ Busy(kid) \in Nat /\ Len(pipe) \in Nat
        /\ unreported \in Nat
        /\ Told(counters, pipe, Len(pipe), "accept") \in Nat
        /\ Told(counters, pipe, Len(pipe), "result") \in Nat
    BY CountTypes DEF IInv, TypeOK, Event
  <2>5. /\ Told(counters', pipe', Len(pipe'), "accept") = Told(counters, pipe, Len(pipe), "accept") + 1
        /\ Told(counters', pipe', Len(pipe'), "result") = Told(counters, pipe, Len(pipe), "result")
    BY <2>2, <2>4 DEF Event, One
  <2>6. \A n \in 0..Len(pipe') :
            Told(counters', pipe', n, "result") <= Told(counters', pipe', n, "accept")
    <3>1. \A n \in 0..Len(pipe) :
              Told(counters', pipe', n, "result") <= Told(counters', pipe', n, "accept")
      BY <2>2, <2>3 DEF Event
    <3>2. Told(counters', pipe', Len(pipe'), "result") <= Told(counters', pipe', Len(pipe'), "accept")
      BY <2>3, <2>4, <2>5
    <3>3. Len(pipe') = Len(pipe) + 1
      BY <2>2 DEF Event
    <3>. QED  BY <2>4, <3>1, <3>2, <3>3
  <2>7. made' - backlog' = Told(counters', pipe', Len(pipe'), "accept") + Accepted(kid') + unreported'
    BY <1>1, <1>2, <2>1, <2>3, <2>4, <2>5
  <2>8. Told(counters', pipe', Len(pipe'), "result") + Busy(kid')
            <= Told(counters', pipe', Len(pipe'), "accept")
    BY <1>2, <2>3, <2>4, <2>5
  <2>. QED  BY <2>6, <2>7, <2>8 DEF EventsCounted
<1>. QED  BY <1>3, <1>4, <1>5, <1>6 DEF IInv

LEMMA ReportResultStep ==
    ASSUME IInv, NEW k \in Kid, ReportResult(k)
    PROVE  IInv'
<1>1. /\ kid[k] = "result" /\ kid' = [kid EXCEPT ![k] = "loop"]
      /\ dcc_stats_event("result")
      /\ UNCHANGED <<opt_no_detach, arg_stats, launcher, pid_file, mpc, dcc_nkids, must_reap,
                     woken, ireq, signalled, backlog, made>>
  BY DEF ReportResult, KidGoto, startup, master, jobs
<1>2. /\ kid' \in [Kid -> KidLabel]
      /\ Alive(kid') = Alive(kid) /\ Accepted(kid') = Accepted(kid)
      /\ Busy(kid') = Busy(kid) - 1 /\ Busy(kid) >= 1
  <2>1. /\ kid \in [Kid -> KidLabel] /\ "loop" \in KidLabel
        /\ kid' = [kid EXCEPT ![k] = "loop"] /\ kid' \in [Kid -> KidLabel]
    BY <1>1 DEF IInv, TypeOK, KidLabel
  <2>2. kid[k] \in AliveAt <=> "loop" \in AliveAt
    BY <1>1 DEF AliveAt, KidLabel
  <2>3. Alive(kid') = Alive(kid)
    BY <2>1, <2>2, Stays, Zenon DEF Alive
  <2>4. kid[k] \in AcceptedAt <=> "loop" \in AcceptedAt
    BY <1>1 DEF AcceptedAt
  <2>5. Accepted(kid') = Accepted(kid)
    BY <2>1, <2>4, Stays, Zenon DEF Accepted
  <2>6. kid[k] \in BusyAt /\ "loop" \notin BusyAt
    BY <1>1 DEF BusyAt
  <2>7. Busy(kid') = Busy(kid) - 1
    BY <2>1, <2>6, Leaves, Zenon DEF Busy
  <2>8. Busy(kid) >= 1
    BY <2>6, NumberAtPositive, Zenon DEF Busy
  <2>. QED  BY <2>1, <2>3, <2>5, <2>7, <2>8
<1>3. TypeOK'
  <2>1. pipe \in Seq(Event) /\ Len(pipe) <= PipeSize /\ Len(pipe) \in Nat
    BY DEF IInv, TypeOK
  <2>2. pipe' \in Seq(Event) /\ Len(pipe') <= PipeSize /\ counters' = counters /\ unreported' = unreported
    BY <1>1, <2>1, DaemonAssumption DEF dcc_stats_event, stats, Event
  <2>. QED  BY <1>1, <1>2, <2>2 DEF IInv, TypeOK
<1>4. StartOK' /\ PoolOK' /\ JobsOK'
  BY <1>1 DEF IInv, TypeOK, StartOK, PidFileNamesMaster, PoolOK, JobsOK, MasterGone
<1>5. KidsCounted'
  BY <1>1, <1>2 DEF IInv, KidsCounted, MasterGone
<1>6. EventsCounted'
  <2> SUFFICES ASSUME arg_stats, ~MasterGone PROVE EventsCounted'
    BY <1>1 DEF EventsCounted, MasterGone
  <2>1. /\ pipe' = Append(pipe, "result") /\ counters' = counters /\ unreported' = unreported
        /\ "result" \in Event
    BY <1>1 DEF dcc_stats_event, Event
  <2>2. \A e \in Event :
            /\ Len(pipe') = Len(pipe) + 1
            /\ \A n \in 0..Len(pipe) :
                   Told(counters', pipe', n, e) = Told(counters, pipe, n, e)
            /\ Told(counters', pipe', Len(pipe'), e) =
                   Told(counters, pipe, Len(pipe), e) + One("result" = e)
    BY <2>1, ToldAppend DEF IInv
  <2>3. /\ made - backlog = Told(counters, pipe, Len(pipe), "accept") + Accepted(kid) + unreported
        /\ \A n \in 0 .. Len(pipe) :
               Told(counters, pipe, n, "result") <= Told(counters, pipe, n, "accept")
        /\ Told(counters, pipe, Len(pipe), "result") + Busy(kid)
               <= Told(counters, pipe, Len(pipe), "accept")
    BY DEF IInv, EventsCounted
  <2>4. /\ Accepted(kid) \in Nat /\ Busy(kid) \in Nat /\ Len(pipe) \in Nat
        /\ unreported \in Nat
        /\ Told(counters, pipe, Len(pipe), "accept") \in Nat
        /\ Told(counters, pipe, Len(pipe), "result") \in Nat
    BY CountTypes DEF IInv, TypeOK, Event
  <2>5. /\ Told(counters', pipe', Len(pipe'), "accept") = Told(counters, pipe, Len(pipe), "accept")
        /\ Told(counters', pipe', Len(pipe'), "result") = Told(counters, pipe, Len(pipe), "result") + 1
    BY <2>2, <2>4 DEF Event, One
  <2>6. \A n \in 0..Len(pipe') :
            Told(counters', pipe', n, "result") <= Told(counters', pipe', n, "accept")
    <3>1. \A n \in 0..Len(pipe) :
              Told(counters', pipe', n, "result") <= Told(counters', pipe', n, "accept")
      BY <2>2, <2>3 DEF Event
    <3>2. Told(counters', pipe', Len(pipe'), "result") <= Told(counters', pipe', Len(pipe'), "accept")
      BY <1>2, <2>3, <2>4, <2>5
    <3>3. Len(pipe') = Len(pipe) + 1
      BY <2>2 DEF Event
    <3>. QED  BY <2>4, <3>1, <3>2, <3>3
  <2>7. made' - backlog' = Told(counters', pipe', Len(pipe'), "accept") + Accepted(kid') + unreported'
    BY <1>1, <1>2, <2>1, <2>3, <2>4, <2>5
  <2>8. Told(counters', pipe', Len(pipe'), "result") + Busy(kid')
            <= Told(counters', pipe', Len(pipe'), "accept")
    BY <1>2, <2>3, <2>4, <2>5
  <2>. QED  BY <2>6, <2>7, <2>8 DEF EventsCounted
<1>. QED  BY <1>3, <1>4, <1>5, <1>6 DEF IInv

-----------------------------------------------------------------------------
(* Theorems *)

LEMMA InitInv == Init => IInv
<1> SUFFICES ASSUME Init PROVE IInv
  OBVIOUS
<1> USE DaemonAssumption DEF Init
<1>1. TypeOK /\ StartOK /\ PoolOK /\ JobsOK
  <2>1. pipe \in Seq(Event) /\ Len(pipe) <= PipeSize /\ counters \in [Event -> 0..MaxJobs]
    OBVIOUS
  <2>2. /\ opt_no_detach \in BOOLEAN /\ arg_stats \in BOOLEAN
        /\ mpc \in {"save_pid", "detach"} /\ (mpc = "detach" => ~opt_no_detach)
    OBVIOUS
  <2>3. kid \in [Kid -> KidLabel] /\ ireq \in [Kid -> 0..child_lifetime]
    BY DEF KidLabel
  <2>4. /\ dcc_nkids \in 0..dcc_max_kids /\ backlog \in 0..MaxJobs /\ made \in 0..MaxJobs
        /\ unreported \in Nat
    OBVIOUS
  <2>5. /\ launcher \in {"none", "save_pid", "exited", "unsaved"} /\ pid_file \in BOOLEAN
        /\ must_reap \in BOOLEAN /\ woken \in BOOLEAN /\ signalled \subseteq Kid
    OBVIOUS
  <2>6. TypeOK
    <3> HIDE DEF Init
    <3>. QED  BY <2>1, <2>2, <2>3, <2>4, <2>5 DEF TypeOK, MasterLabel
  <2>. QED  BY <2>2, <2>6 DEF StartOK, PidFileNamesMaster, PoolOK, JobsOK, MasterGone
<1>2. At(kid, AliveAt) = {} /\ At(kid, AcceptedAt) = {} /\ At(kid, BusyAt) = {}
  BY DEF At, AliveAt, AcceptedAt, BusyAt
<1>3. Alive(kid) = 0 /\ Accepted(kid) = 0 /\ Busy(kid) = 0
  BY <1>2, FS_EmptySet, Zenon DEF Alive, Accepted, Busy, NumberAt
<1>4. KidsCounted
  BY <1>3 DEF KidsCounted, One
<1>5. \A n \in 0..Len(pipe), e \in Event : Told(counters, pipe, n, e) = 0
  <2> SUFFICES ASSUME NEW n \in 0..Len(pipe), NEW e \in Event
               PROVE  Told(counters, pipe, n, e) = 0
    OBVIOUS
  <2>1. Places(pipe, n, e) = {} /\ counters[e] = 0
    BY DEF Places
  <2>2. Among(pipe, n, e) = 0
    BY <2>1, FS_EmptySet, Zenon DEF Among
  <2>. QED  BY <2>1, <2>2 DEF Told
<1>6. EventsCounted
  BY <1>3, <1>5 DEF EventsCounted, Event
<1>. QED  BY <1>1, <1>4, <1>6 DEF IInv

LEMMA NextInv == IInv /\ [Next]_vars => IInv'
<1> SUFFICES ASSUME IInv, [Next]_vars PROVE IInv'
  OBVIOUS
<1>1. CASE Next
  BY <1>1, NextCases, QuietStep, CountKidStep, StatsReportStep, TerminateStep, ConnectStep,
     ForkStep, ReapStep, AcceptStep, ReportAcceptStep, ReportResultStep, MovesStep, EndsStep
<1>2. CASE UNCHANGED vars
  BY <1>2 DEF vars, startup, master, kids, jobs, stats, IInv, TypeOK, StartOK,
     PidFileNamesMaster, PoolOK, JobsOK, KidsCounted, EventsCounted, MasterGone
<1>. QED  BY <1>1, <1>2

\* The inductive invariant of pool, statistics and start-up.
THEOREM Invariant == Spec => []IInv
<1>. QED  BY InitInv, NextInv, PTL DEF Spec

\* The counts, the places and the sizes of pool and pipe stay in their range:
\* the master never has more than dcc_max_kids children, a child never serves
\* more than child_lifetime requests.
THEOREM TypeCorrect == Spec => []TypeOK
<1>1. IInv => TypeOK
  BY DEF IInv
<1>. QED  BY <1>1, Invariant, PTL

\* dcc_nkids counts exactly the children not yet collected by dcc_reap_kids,
\* however children exit, are killed and are collected.
THEOREM NkidsAreExact == Spec => []NkidsExact
<1>1. IInv => NkidsExact
  <2> SUFFICES ASSUME IInv, ~MasterGone PROVE NkidsExact
    BY DEF NkidsExact
  <2>1. {k \in Kid : kid[k] # "none"} = At(kid, AliveAt)
    BY DEF IInv, TypeOK, At, AliveAt
  <2>2. Cardinality({k \in Kid : kid[k] # "none"}) = Alive(kid)
    BY <2>1, Zenon DEF Alive, NumberAt
  <2>. QED  BY <2>2 DEF IInv, KidsCounted, NkidsExact, One
<1>. QED  BY <1>1, Invariant, PTL

\* Every connection a child has accepted is counted, waits in the statistics
\* pipe or is about to be reported, exactly once, and no more results than
\* connections are ever shown.
THEOREM StatsAreExact == Spec => []StatsExact
<1>1. IInv => StatsExact
  <2> SUFFICES ASSUME IInv, arg_stats, ~MasterGone PROVE StatsExact
    BY DEF StatsExact
  <2>1. /\ made - backlog = Told(counters, pipe, Len(pipe), "accept") + Accepted(kid) + unreported
        /\ \A n \in 0 .. Len(pipe) :
               Told(counters, pipe, n, "result") <= Told(counters, pipe, n, "accept")
    BY DEF IInv, EventsCounted
  <2>2. {n \in DOMAIN pipe : pipe[n] = "accept"} = Places(pipe, Len(pipe), "accept")
    BY DEF IInv, TypeOK, Places
  <2>3. {k \in Kid : kid[k] = "accepted"} = At(kid, AcceptedAt)
    BY DEF At, AcceptedAt
  <2>4. Pending("accept") = Among(pipe, Len(pipe), "accept")
    BY <2>2, Zenon DEF Pending, Among
  <2>5. Cardinality({k \in Kid : kid[k] = "accepted"}) = Accepted(kid)
    BY <2>3, Zenon DEF Accepted, NumberAt
  <2>6. ASSUME NEW e \in Event PROVE Told(counters, pipe, 0, e) = counters[e]
    <3>1. Places(pipe, 0, e) = {}
      BY DEF Places
    <3>2. Among(pipe, 0, e) = 0
      BY <3>1, FS_EmptySet, Zenon DEF Among
    <3>. QED  BY <3>2, DaemonAssumption DEF IInv, TypeOK, Told
  <2>7. counters["result"] <= counters["accept"]
    <3>1. Told(counters, pipe, 0, "result") <= Told(counters, pipe, 0, "accept")
      BY <2>1 DEF IInv, TypeOK
    <3>. QED  BY <2>6, <3>1 DEF Event
  <2>. QED  BY <2>1, <2>4, <2>5, <2>7 DEF StatsExact, Told
<1>. QED  BY <1>1, Invariant, PTL

\* Once the process that the user started has left the pid file is there, and
\* neither children that leave nor anything else removes it while the master
\* lives.
THEOREM PidFileStaysWithMaster == Spec => []PidFileNamesMaster
<1>1. IInv => PidFileNamesMaster
  BY DEF IInv, StartOK
<1>. QED  BY <1>1, Invariant, PTL
=============================================================================
