--------------------------- MODULE ZeroconfProofs ---------------------------
(***************************************************************************)
(* The safety properties of Zeroconf for any number of clients, services   *)
(* and events and any faults.                                              *)
(***************************************************************************)
EXTENDS Zeroconf, TLAPS

\* The lock file: a daemon that browses has it, and so has a client between its
\* probe and the unlock.  A client forks one daemon, once.
LockOK ==
    /\ \A d \in Client : Browsing(d) => lock_file = <<"daemon", d>>
    /\ \A c \in Client : cpc[c] = "unlock" => lock_file = <<"client", c>>
    /\ \A c \in Client : cpc[c] \in {"probe", "unlock", "fork"} => dpc[c] = "none"

\* The host file: it is locked while it is written, for reading or for
\* writing but not both, and partial only in the hands of its writer.
FileOK ==
    /\ writer # Nobody =>
           readers = {} /\ dpc[writer] \in {"write_lock", "truncate", "write", "loop",
                                            "spin", "unlock", "close"}
    /\ \A d \in Client : dpc[d] \in {"truncate", "write"} => writer = d
    /\ host_file = "partial" => writer # Nobody /\ dpc[writer] = "write"
    /\ \A c \in Client : cpc[c] = "read" => c \in readers

\* What has been written so far is part of the daemon's list, and while that is
\* sound no entry of it was freed.
WrittenOK ==
    \A d \in Client : list[d] = "sound" =>
        /\ dpc[d] = "write" => content \subseteq Resolved(d)
        /\ \A s \in Service : hosts[d][s] # "freed"

\* The inductive invariant.
Inv == TypeOK /\ LockOK /\ FileOK /\ WrittenOK /\ FileMatchesHosts

\* A process of a client is not one of a daemon, and none is nobody.
LEMMA Processes ==
    ASSUME NEW c \in Client, NEW d \in Client
    PROVE  /\ <<"client", c>> # <<"daemon", d>>
           /\ Unlocked # <<"client", c>> /\ Unlocked # <<"daemon", d>>
           /\ <<"client", c>> = <<"client", d>> => c = d
           /\ <<"daemon", c>> = <<"daemon", d>> => c = d
           /\ <<"client", c>> \in ClientProc /\ <<"daemon", d>> \in DaemonProc
  BY DEF Unlocked, ClientProc, DaemonProc

LEMMA InitInv == Init => Inv
<1> SUFFICES ASSUME Init PROVE Inv
  OBVIOUS
<1>1. TypeOK
  <2>1. hosts \in [Client -> [Service -> {"none", "resolving", "resolved", "freed"}]]
    BY DEF Init
  <2>2. events \in 0..MaxEvents
    BY ZeroconfAssumption DEF Init
  <2>. QED  BY <2>1, <2>2 DEF Init, TypeOK, ClientLabel, DaemonLabel
<1>2. LockOK
  BY DEF Init, LockOK, Browsing
<1>3. FileOK /\ WrittenOK /\ FileMatchesHosts
  BY DEF Init, FileOK, WrittenOK, FileMatchesHosts
<1>. QED  BY <1>1, <1>2, <1>3 DEF Inv

\* The steps of a client.
LEMMA ClientInv ==
    ASSUME Inv, NEW c \in Client, ClientStep(c) \/ ClientFault(c) \/ KillClient(c)
    PROVE  Inv'
<1> USE ZeroconfAssumption, Processes
    DEF Inv, TypeOK, LockOK, FileOK, WrittenOK, FileMatchesHosts, Browsing, Resolved,
        ClientGoto, ClientLabel, DaemonLabel, files, daemon
<1>1. CASE Probe(c)
  <2>1. TypeOK'
    <3>1. lock_file' \in ClientProc \cup DaemonProc \cup {Unlocked}
      BY <1>1 DEF Probe
    <3>2. cpc' \in [Client -> ClientLabel]
      BY <1>1 DEF Probe
    <3>. QED  BY <1>1, <3>1, <3>2 DEF Probe
  <2>2. LockOK'
    <3>1. CASE lock_file = Unlocked
      <4>1. \A e \in Client : ~Browsing(e) /\ cpc[e] # "unlock"
        BY <3>1
      <4>. QED  BY <1>1, <3>1, <4>1 DEF Probe
    <3>2. CASE lock_file # Unlocked
      BY <1>1, <3>2 DEF Probe
    <3>. QED  BY <3>1, <3>2
  <2>3. FileOK'
    BY <1>1 DEF Probe
  <2>4. (WrittenOK /\ FileMatchesHosts)'
    BY <1>1 DEF Probe
  <2>. QED  BY <2>1, <2>2, <2>3, <2>4
<1>2. CASE UnlockProbe(c)
  BY <1>2 DEF UnlockProbe
<1>3. CASE ForkDaemon(c)
  BY <1>3 DEF ForkDaemon
<1>4. CASE ForkFails(c)
  BY <1>4 DEF ForkFails
<1>5. CASE Wait(c)
  BY <1>5 DEF Wait
<1>6. CASE OpenHostFile(c)
  BY <1>6 DEF OpenHostFile
<1>7. CASE ReadLock(c)
  BY <1>7 DEF ReadLock
<1>8. CASE ReadHosts(c)
  BY <1>8 DEF ReadHosts
<1>9. CASE KillClient(c)
  BY <1>9 DEF KillClient
<1>10. CASE ProbeFails(c)
  <2>1. cpc' \in [Client -> ClientLabel] /\ broken' = TRUE
    BY <1>10 DEF ProbeFails
  <2>2. \A e \in Client : cpc'[e] = cpc[e] \/ cpc'[e] \in {"open", "done"}
    BY <1>10 DEF ProbeFails
  <2>3. UNCHANGED <<files, daemon, events>>
    BY <1>10 DEF ProbeFails
  <2>4. TypeOK'
    BY <2>1, <2>2, <2>3
  <2>5. LockOK' /\ FileOK'
    BY <2>1, <2>2, <2>3
  <2>6. (WrittenOK /\ FileMatchesHosts)'
    BY <2>3
  <2>. QED  BY <2>4, <2>5, <2>6
<1>11. CASE ReadLockFails(c)
  BY <1>11 DEF ReadLockFails
<1>. QED
  BY <1>1, <1>2, <1>3, <1>4, <1>5, <1>6, <1>7, <1>8, <1>9, <1>10, <1>11
  DEF ClientStep, ClientFault

\* The end of a daemon, from any of its steps.
LEMMA DaemonEndsInv ==
    ASSUME Inv, NEW d \in Client, dpc[d] \notin {"none", "dead"}, DaemonEnds(d),
           broken' \in BOOLEAN
    PROVE  Inv'
  BY ZeroconfAssumption, Processes
  DEF Inv, TypeOK, LockOK, FileOK, WrittenOK, FileMatchesHosts, Browsing, Resolved,
      DaemonLabel, ClientLabel, DaemonEnds

\* The other steps of a daemon.
LEMMA DaemonInv ==
    ASSUME Inv, NEW d \in Client, DaemonStep(d) \/ DaemonFault(d) \/ Idle(d) \/ KillDaemon(d)
    PROVE  Inv'
<1> USE ZeroconfAssumption, Processes
    DEF Inv, TypeOK, LockOK, FileOK, WrittenOK, FileMatchesHosts, Browsing, Resolved,
        DaemonGoto, DaemonLabel, ClientLabel, files, daemon
<1>1. CASE DaemonLock(d)
  <2>1. TypeOK'
    BY <1>1 DEF DaemonLock
  <2>2. LockOK'
    <3>1. CASE lock_file = Unlocked
      <4>1. \A e \in Client : ~Browsing(e) /\ cpc[e] # "unlock"
        BY <3>1
      <4>. QED  BY <1>1, <3>1, <4>1 DEF DaemonLock
    <3>2. CASE lock_file # Unlocked
      BY <1>1, <3>2 DEF DaemonLock
    <3>. QED  BY <3>1, <3>2
  <2>3. FileOK'
    BY <1>1 DEF DaemonLock
  <2>4. (WrittenOK /\ FileMatchesHosts)'
    BY <1>1 DEF DaemonLock
  <2>. QED  BY <2>1, <2>2, <2>3, <2>4
<1>2. CASE DaemonOpen(d)
  BY <1>2 DEF DaemonOpen
<1>3. CASE DaemonOpenFails(d)
  BY <1>3 DEF DaemonOpenFails
<1>4. CASE WriteLock(d)
  BY <1>4 DEF WriteLock
<1>5. CASE Truncate(d)
  BY <1>5 DEF Truncate
<1>6. CASE TruncateFails(d)
  BY <1>6 DEF TruncateFails, NotWritten
<1>7. CASE \E s \in Service : WriteHost(d, s)
  BY <1>7 DEF WriteHost, Printable
<1>8. CASE WriteFails(d)
  BY <1>8 DEF WriteFails, NotWritten
<1>9. CASE WriteUnlock(d)
  BY <1>9 DEF WriteUnlock, AtEnd
<1>10. CASE Idle(d) \/ AvahiFailure(d)
  <2>1. Idle(d)
    BY <1>10 DEF AvahiFailure
  <2>2. TypeOK' /\ LockOK'
    BY <2>1 DEF Idle
  <2>3. FileOK'
    BY <2>1 DEF Idle
  <2>4. (WrittenOK /\ FileMatchesHosts)'
    BY <2>1 DEF Idle
  <2>. QED  BY <2>2, <2>3, <2>4
<1>11. CASE UnlockLockFile(d)
  <2>1. TypeOK'
    BY <1>11 DEF UnlockLockFile
  <2>2. LockOK'
    BY <1>11 DEF UnlockLockFile
  <2>3. FileOK'
    BY <1>11 DEF UnlockLockFile
  <2>4. (WrittenOK /\ FileMatchesHosts)'
    BY <1>11 DEF UnlockLockFile
  <2>. QED  BY <2>1, <2>2, <2>3, <2>4
<1>12. CASE DaemonCloses(d) \/ Crash(d) \/ KillDaemon(d)
  <2>1. dpc[d] \notin {"none", "dead"} /\ DaemonEnds(d) /\ broken' \in BOOLEAN
    BY <1>12 DEF DaemonCloses, Crash, KillDaemon
  <2>. QED  BY <2>1, DaemonEndsInv
<1>13. CASE WriteLockFails(d)
  <2>1. TypeOK' /\ LockOK'
    BY <1>13 DEF WriteLockFails, NotWritten
  <2>2. FileOK'
    BY <1>13 DEF WriteLockFails, NotWritten
  <2>3. (WrittenOK /\ FileMatchesHosts)'
    BY <1>13 DEF WriteLockFails, NotWritten
  <2>. QED  BY <2>1, <2>2, <2>3
<1>14. CASE DaemonLockFails(d)
  BY <1>14 DEF DaemonLockFails
<1>. QED
  BY <1>1, <1>2, <1>3, <1>4, <1>5, <1>6, <1>7, <1>8, <1>9, <1>10, <1>11, <1>12, <1>13, <1>14
  DEF DaemonStep, DaemonFault

\* The callbacks.
LEMMA EventInv ==
    ASSUME Inv, NEW d \in Client, NEW s \in Service, Event(d, s)
    PROVE  Inv'
<1> USE ZeroconfAssumption, Processes
    DEF Inv, TypeOK, LockOK, FileOK, WrittenOK, FileMatchesHosts, Browsing, Resolved,
        Callback, ListBecomes, DaemonLabel, ClientLabel, files, BrowserEvent
<1>1. CASE BrowserNew(d, s)
  BY <1>1 DEF BrowserNew
<1>2. CASE BrowserRemove(d, s)
  BY <1>2 DEF BrowserRemove, AfterRemove
<1>3. CASE ResolverFound(d, s)
  BY <1>3 DEF ResolverFound
<1>4. CASE ResolverFailure(d, s)
  BY <1>4 DEF ResolverFailure
<1>5. CASE RemoveSpins(d, s)
  BY <1>5 DEF RemoveSpins
<1>. QED
  BY <1>1, <1>2, <1>3, <1>4, <1>5 DEF Event

LEMMA NextInv == Inv /\ [Next]_vars => Inv'
<1> SUFFICES ASSUME Inv, [Next]_vars PROVE Inv'
  OBVIOUS
<1>1. CASE UNCHANGED vars
  BY <1>1 DEF vars, files, daemon, Inv, TypeOK, LockOK, FileOK, WrittenOK,
              FileMatchesHosts, Browsing, Resolved
<1>. QED
  BY <1>1, ClientInv, DaemonInv, EventInv DEF Next

LEMMA Invariance == Spec => []Inv
  BY InitInv, NextInv, PTL DEF Spec

-----------------------------------------------------------------------------
\* zeroconf.c keeps its variables in their types.
THEOREM TypeCorrect == Spec => []TypeOK
<1>1. Inv => TypeOK
  BY DEF Inv
<1>. QED  BY <1>1, Invariance, PTL

\* However many clients probe and fork at once, at most one daemon has passed
\* the lock file (daemon_proc).
THEOREM SingleDaemon == Spec => []OneDaemon
<1>1. Inv => OneDaemon
  BY Processes DEF Inv, LockOK, OneDaemon
<1>. QED  BY <1>1, Invariance, PTL

\* No client reads a host file that is being written (write_hosts against
\* dcc_zeroconf_add_hosts).
THEOREM ReadsWhole == Spec => []NoTornRead
<1>1. Inv => NoTornRead
  BY DEF Inv, FileOK, NoTornRead
<1>. QED  BY <1>1, Invariance, PTL

\* The host file is whole and has what the daemon has resolved whenever it waits
\* for events, its last write_hosts did not fail and no resolver has failed.
THEOREM FileFollowsHosts == Spec => []FileMatchesHosts
<1>1. Inv => FileMatchesHosts
  BY DEF Inv
<1>. QED  BY <1>1, Invariance, PTL
=============================================================================
