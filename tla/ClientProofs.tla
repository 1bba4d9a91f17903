---------------------------- MODULE ClientProofs ----------------------------
(***************************************************************************)
(* Proofs about Client for any set of clients, any host list and any       *)
(* numbers of slots: the inductive invariant IInv, and from it the type    *)
(* invariant, the agreement of lock table and descriptors, the exclusive   *)
(* use of slots, the lock order and the absence of leaked locks.           *)
(***************************************************************************)
EXTENDS Client, FiniteSetTheorems, TLAPS

\* Labels at which a client may hold a local slot in local_cpu_lock_fd.
LocalLockLabel ==
    {"adjust", "include_server", "spawn_cpp", "strip_args", "connect", "send",
     "wait_cpp", "fallback", "unlock_remote", "unlock_local",
     "unlock_and_clean_up"}

\* Labels at which cpu_lock_fd is certainly -1.
NoCpuLockLabel ==
    {"start", "remove_disliked", "critique", "unlock_local", "give_up",
     "clean_up", "done", "killed"}

\* The loop counters of dcc_lock_one point at a host of the list it scans.
CursorOK ==
    \A c \in Client : pc[c] = "lock_one" => i_h[c] \in 1..Len(HostsFor(c))

\* A status is there when it is critiqued, a compiler when it is collected,
\* and localhost, once picked, is never handed to the remote or fallback code.
FlowOK ==
    \A c \in Client :
        /\ pc[c] \in {"enjoyed", "unlock_host", "critique"} => status[c] # "unset"
        /\ pc[c] = "compile_local" => cc[c] # "none"
        /\ host[c] = Local => pc[c] \in {"run_local", "compile_local",
                "unlock_and_clean_up", "clean_up", "done", "killed"}

\* Which descriptors may be open where, and on which kind of file.
FdOK ==
    \A c \in Client :
        /\ local_lock[c] # NoLock =>
             /\ pc[c] \in LocalLockLabel
             /\ local_lock[c][1] = Local
             /\ cpu_lock[c] # NoLock => cpu_lock[c][1] \in Remote
        /\ pc[c] \in {"spawn_cpp", "strip_args"} => cpp_where[c] = "client"
        /\ pc[c] \in {"connect", "send"} /\ cpp_where[c] = "server" =>
             local_lock[c] = NoLock
        /\ pc[c] \in NoCpuLockLabel => cpu_lock[c] = NoLock
        /\ pc[c] = "lock_one" =>
             IF want[c] = "cpp"
               THEN cpu_lock[c] # NoLock => cpu_lock[c][1] \in Remote
               ELSE cpu_lock[c] = NoLock

SInv == CursorOK /\ FlowOK /\ FdOK /\ HeldExactly

\* The inductive invariant.
IInv == TypeOK /\ SInv

-----------------------------------------------------------------------------
(* Facts about the helpers *)

LEMMA MaxCpuPos == MaxCpu \in Int /\ 0 \in 0..MaxCpu-1
  BY ConstantsAssumption

\* The file dcc_lock_one tries next is a lock file.
LEMMA CandidateType ==
    ASSUME TypeOK, CursorOK, NEW c \in Client, pc[c] = "lock_one"
    PROVE  Candidate(c) \in Hosts /\ File(c) \in LockFile
  BY ConstantsAssumption DEF TypeOK, CursorOK, Candidate, File, HostsFor, Hosts, LockFile

\* dcc_lock_one always scans a list of hosts.
LEMMA HostsForType ==
    ASSUME TypeOK, NEW c \in Client
    PROVE  HostsFor(c) \in Seq(Hosts)
<1>1. CASE want[c] = "host"
  BY <1>1 DEF TypeOK, HostsFor
<1>2. CASE want[c] # "host"
  <2>1. Local \in Hosts
    BY DEF Hosts
  <2>2. HostsFor(c) = <<Local>>
    BY <1>2 DEF HostsFor
  <2> QED BY <2>1, <2>2
<1> QED BY <1>1, <1>2

LEMMA UnlockedType ==
    ASSUME TypeOK, NEW c, NEW f
    PROVE  Unlocked(c, f) \in [LockFile -> Client \cup {NoClient}]
  BY DEF TypeOK, Unlocked

\* One process never has the same file behind both descriptors.
LEMMA FdsDiffer ==
    ASSUME TypeOK, FdOK, NEW c \in Client, local_lock[c] # NoLock
    PROVE  local_lock[c] # cpu_lock[c]
<1>1. CASE cpu_lock[c] = NoLock
  BY <1>1
<1>2. CASE cpu_lock[c] # NoLock
  <2>1. local_lock[c][1] = Local /\ cpu_lock[c][1] \in Remote
    BY <1>2 DEF FdOK
  <2> QED BY <2>1, ConstantsAssumption
<1> QED BY <1>1, <1>2

LEMMA HeldAfterUnlockCpu ==
    ASSUME TypeOK, FdOK, HeldExactly, NEW c \in Client, dcc_unlock_cpu(c),
           Live' = Live \/ (Live' = Live \ {c} /\ local_lock[c] = NoLock)
    PROVE  HeldExactly'
<1> SUFFICES ASSUME NEW f \in LockFile, NEW d \in Client
             PROVE  (locked'[f] = d) <=> (d \in Live' /\ f \in {cpu_lock'[d], local_lock'[d]})
  BY DEF HeldExactly
<1>1. locked'[f] = IF f = cpu_lock[c] /\ locked[f] = c THEN NoClient ELSE locked[f]
  BY DEF dcc_unlock_cpu, Unlocked
<1>2. (locked[f] = d) <=> (d \in Live /\ f \in {cpu_lock[d], local_lock[d]})
  BY DEF HeldExactly
<1>3. f # NoLock /\ NoClient # d
  BY ConstantsAssumption
<1>4. CASE d # c
  <2>1. cpu_lock'[d] = cpu_lock[d] /\ local_lock'[d] = local_lock[d]
    BY <1>4 DEF dcc_unlock_cpu, TypeOK
  <2> QED BY <1>1, <1>2, <1>3, <1>4, <2>1
<1>5. CASE d = c
  <2>1. cpu_lock'[c] = NoLock /\ local_lock'[c] = local_lock[c]
    BY DEF dcc_unlock_cpu, TypeOK
  <2>2. f = local_lock[c] => f # cpu_lock[c]
    BY <1>3, FdsDiffer
  <2> QED BY <1>1, <1>2, <1>3, <1>5, <2>1, <2>2
<1> QED BY <1>4, <1>5

LEMMA HeldAfterUnlockLocal ==
    ASSUME TypeOK, FdOK, HeldExactly, NEW c \in Client, dcc_unlock_local(c),
           Live' = Live
    PROVE  HeldExactly'
<1> SUFFICES ASSUME NEW f \in LockFile, NEW d \in Client
             PROVE  (locked'[f] = d) <=> (d \in Live' /\ f \in {cpu_lock'[d], local_lock'[d]})
  BY DEF HeldExactly
<1>1. locked'[f] = IF f = local_lock[c] /\ locked[f] = c THEN NoClient ELSE locked[f]
  BY DEF dcc_unlock_local, Unlocked
<1>2. (locked[f] = d) <=> (d \in Live /\ f \in {cpu_lock[d], local_lock[d]})
  BY DEF HeldExactly
<1>3. f # NoLock /\ NoClient # d
  BY ConstantsAssumption
<1>4. CASE d # c
  <2>1. cpu_lock'[d] = cpu_lock[d] /\ local_lock'[d] = local_lock[d]
    BY <1>4 DEF dcc_unlock_local, TypeOK
  <2> QED BY <1>1, <1>2, <1>3, <1>4, <2>1
<1>5. CASE d = c
  <2>1. local_lock'[c] = NoLock /\ cpu_lock'[c] = cpu_lock[c]
    BY DEF dcc_unlock_local, TypeOK
  <2>2. f = local_lock[c] => f # cpu_lock[c]
    BY <1>3, FdsDiffer
  <2> QED BY <1>1, <1>2, <1>3, <1>5, <2>1, <2>2
<1> QED BY <1>4, <1>5

\* A process that ends loses all its locks (Exit and Kill).
LEMMA HeldAfterEnd ==
    ASSUME HeldExactly, NEW c \in Client, Live' = Live \ {c},
           locked' = [f \in LockFile |-> IF locked[f] = c THEN NoClient ELSE locked[f]],
           \A d \in Client \ {c} : cpu_lock'[d] = cpu_lock[d] /\ local_lock'[d] = local_lock[d]
    PROVE  HeldExactly'
<1> SUFFICES ASSUME NEW f \in LockFile, NEW d \in Client
             PROVE  (locked'[f] = d) <=> (d \in Live' /\ f \in {cpu_lock'[d], local_lock'[d]})
  BY DEF HeldExactly
<1>1. (locked[f] = d) <=> (d \in Live /\ f \in {cpu_lock[d], local_lock[d]})
  BY DEF HeldExactly
<1>2. NoClient # d
  BY ConstantsAssumption
<1> QED BY <1>1, <1>2

\* A client that takes the free file f stores it in the descriptor that was -1.
LEMMA HeldAfterLock ==
    ASSUME TypeOK, HeldExactly, NEW c \in Client, c \in Live, Live' = Live,
           NEW f \in LockFile, locked[f] \in {NoClient, c},
           locked' = [locked EXCEPT ![f] = c],
           \/ /\ cpu_lock[c] = NoLock /\ cpu_lock' = [cpu_lock EXCEPT ![c] = f]
              /\ local_lock' = local_lock
           \/ /\ local_lock[c] = NoLock /\ local_lock' = [local_lock EXCEPT ![c] = f]
              /\ cpu_lock' = cpu_lock
    PROVE  HeldExactly'
<1> SUFFICES ASSUME NEW g \in LockFile, NEW d \in Client
             PROVE  (locked'[g] = d) <=> (d \in Live' /\ g \in {cpu_lock'[d], local_lock'[d]})
  BY DEF HeldExactly
<1>1. (locked[g] = d) <=> (d \in Live /\ g \in {cpu_lock[d], local_lock[d]})
  BY DEF HeldExactly
<1>2. g # NoLock /\ NoClient # d /\ NoClient \notin Client
  BY ConstantsAssumption
<1>3. locked'[g] = IF g = f THEN c ELSE locked[g]
  BY DEF TypeOK
<1>4. CASE d = c
  BY <1>1, <1>2, <1>3, <1>4 DEF TypeOK
<1>5. CASE d # c
  BY <1>1, <1>2, <1>3, <1>5 DEF TypeOK
<1> QED BY <1>4, <1>5

-----------------------------------------------------------------------------
(* The initial states *)

LEMMA InitIInv == Init => IInv
<1> SUFFICES ASSUME Init PROVE IInv
  OBVIOUS
<1>1. TypeOK
  BY ConstantsAssumption DEF Init, TypeOK, Label, ChildState, Ret, Status
<1>2. CursorOK
  BY DEF Init, CursorOK
<1>3. FlowOK
  BY ConstantsAssumption DEF Init, FlowOK, Hosts
<1>4. FdOK
  BY DEF Init, FdOK
<1>5. HeldExactly
  BY ConstantsAssumption DEF Init, HeldExactly, Live
<1> QED
  BY <1>1, <1>2, <1>3, <1>4, <1>5 DEF IInv, SInv

-----------------------------------------------------------------------------
(* Every step keeps the types *)

LEMMA TypeStep ==
    ASSUME TypeOK, CursorOK, FlowOK, NEW c \in Client,
           Step(c) \/ Kill(c) \/ ChildEnds(c)
    PROVE  TypeOK'
<1> USE DEF TypeOK, Label, ChildState, Ret, Status, ExitStatus, locks, search,
        kids, result, Goto
<1>1. ASSUME StartRecursive(c) PROVE TypeOK'
  BY <1>1 DEF StartRecursive
<1>2. ASSUME StartLocalOnly(c) PROVE TypeOK'
  BY <1>2, MaxCpuPos DEF StartLocalOnly, BeginLock
<1>3. ASSUME StartTmpnamFails(c) PROVE TypeOK'
  BY <1>3 DEF StartTmpnamFails
<1>4. ASSUME StartPick(c) PROVE TypeOK'
  BY <1>4 DEF StartPick
<1>5. ASSUME dcc_remove_disliked(c) PROVE TypeOK'
  <2>1. HostList[i_h[c]] \in Hosts
    BY <1>5, ConstantsAssumption DEF dcc_remove_disliked
  <2>2. list' \in [Client -> Seq(Hosts)]
    BY <1>5, <2>1 DEF dcc_remove_disliked
  <2> QED BY <1>5, <2>2 DEF dcc_remove_disliked
<1>6. ASSUME NoHostsLeft(c) PROVE TypeOK'
  BY <1>6 DEF NoHostsLeft
<1>7. ASSUME HostListReady(c) PROVE TypeOK'
  BY <1>7, MaxCpuPos DEF HostListReady, BeginLock
<1>8. ASSUME LockLocalhost(c) PROVE TypeOK'
  BY <1>8, CandidateType DEF LockLocalhost, LockHost, dcc_lock_host
<1>9. ASSUME LockServer(c) PROVE TypeOK'
  BY <1>9, MaxCpuPos, CandidateType DEF LockServer, LockHost, dcc_lock_host, BeginLock
<1>10. ASSUME dcc_lock_local_cpp(c) PROVE TypeOK'
  BY <1>10, CandidateType DEF dcc_lock_local_cpp, dcc_lock_host
<1>11. ASSUME dcc_lock_local(c) PROVE TypeOK'
  BY <1>11, CandidateType DEF dcc_lock_local, dcc_lock_host
<1>12. ASSUME TryNextHost(c) PROVE TypeOK'
  BY <1>12 DEF TryNextHost, SlotUnavailable
<1>13. ASSUME TryNextSlot(c) PROVE TypeOK'
  <2>1. NextCpu(i_cpu[c]) \in 0..MaxCpu-1
    BY MaxCpuPos DEF NextCpu
  <2> QED BY <1>13, <2>1 DEF TryNextSlot, SlotUnavailable
<1>14. ASSUME LockError(c) PROVE TypeOK'
  BY <1>14 DEF LockError, LockFails
<1>15. ASSUME LockLocalErrorIgnored(c) PROVE TypeOK'
  BY <1>15 DEF LockLocalErrorIgnored, LockFails
<1>16. ASSUME LockCppErrorCrashes(c) PROVE TypeOK'
  BY <1>16, UnlockedType DEF LockCppErrorCrashes, LockFails, dcc_unlock_cpu
<1>17. ASSUME NEW u \in BOOLEAN, AdjustCppWhere(c, u) PROVE TypeOK'
  BY <1>17 DEF AdjustCppWhere
<1>18. ASSUME NEW r \in {"scanned", "internal"}, ScanIncludes(c, r) PROVE TypeOK'
  BY <1>18 DEF ScanIncludes
<1>19. ASSUME IncludeServerAnswers(c) PROVE TypeOK'
  BY <1>19, UnlockedType DEF IncludeServerAnswers, dcc_unlock_local
<1>20. ASSUME IncludeServerFails(c) PROVE TypeOK'
  BY <1>20 DEF IncludeServerFails
<1>21. ASSUME NEW p \in BOOLEAN, dcc_cpp_maybe(c, p) PROVE TypeOK'
  BY <1>21 DEF dcc_cpp_maybe
<1>22. ASSUME CppSetupFails(c) PROVE TypeOK'
  BY <1>22 DEF CppSetupFails
<1>23. ASSUME dcc_strip_local_args(c) PROVE TypeOK'
  BY <1>23 DEF dcc_strip_local_args
<1>24. ASSUME dcc_remote_connect(c) PROVE TypeOK'
  BY <1>24 DEF dcc_remote_connect
<1>25. ASSUME dcc_send_header(c) PROVE TypeOK'
  BY <1>25 DEF dcc_send_header
<1>26. ASSUME dcc_wait_for_cpp(c) PROVE TypeOK'
  BY <1>26, UnlockedType DEF dcc_wait_for_cpp, dcc_unlock_local
<1>27. ASSUME dcc_x_file(c) PROVE TypeOK'
  BY <1>27 DEF dcc_x_file
<1>28. ASSUME NEW s \in ExitStatus, dcc_retrieve_results(c, s) PROVE TypeOK'
  BY <1>28 DEF dcc_retrieve_results
<1>29. ASSUME RemoteFails(c) PROVE TypeOK'
  BY <1>29, UnlockedType DEF RemoteFails, dcc_unlock_local
<1>30. ASSUME dcc_enjoyed_host(c) PROVE TypeOK'
  BY <1>30 DEF dcc_enjoyed_host
<1>31. ASSUME UnlockHost(c) PROVE TypeOK'
  BY <1>31, UnlockedType DEF UnlockHost, dcc_unlock_cpu
<1>32. ASSUME NEW b \in BOOLEAN, Critique(c, b) PROVE TypeOK'
  <2>1. status[c] \in Ret
    BY <1>32 DEF Critique, FlowOK
  <2> QED BY <1>32, <2>1 DEF Critique
<1>33. ASSUME dcc_disliked_host(c) PROVE TypeOK'
  <2>1. {host[c]} \ {NoHost} \subseteq Remote
    <3>1. pc[c] = "fallback"
      BY <1>33 DEF dcc_disliked_host
    <3>2. host[c] # Local
      BY <3>1 DEF FlowOK
    <3>3. host[c] \in Hosts \cup {NoHost}
      OBVIOUS
    <3> QED BY <3>2, <3>3 DEF Hosts
  <2> QED BY <1>33, <2>1 DEF dcc_disliked_host
<1>34. ASSUME FallbackUnlockRemote(c) PROVE TypeOK'
  BY <1>34, UnlockedType DEF FallbackUnlockRemote, dcc_unlock_cpu
<1>35. ASSUME FallbackUnlockLocal(c) PROVE TypeOK'
  BY <1>35, UnlockedType DEF FallbackUnlockLocal, dcc_unlock_local
<1>36. ASSUME NEW b \in BOOLEAN, FallbackDisabled(c, b) PROVE TypeOK'
  BY <1>36 DEF FallbackDisabled
<1>37. ASSUME FallbackLocal(c) PROVE TypeOK'
  BY <1>37, MaxCpuPos DEF FallbackLocal, BeginLock
<1>38. ASSUME SpawnCompiler(c) PROVE TypeOK'
  BY <1>38 DEF SpawnCompiler
<1>39. ASSUME SpawnCompilerFails(c) PROVE TypeOK'
  <2>1. discrepancies' \in 0..MaxDiscrepancies
    BY <1>39, ConstantsAssumption DEF SpawnCompilerFails, LocalResult
  <2> QED BY <1>39, <2>1 DEF SpawnCompilerFails, LocalResult
<1>40. ASSUME CollectCompiler(c) PROVE TypeOK'
  <2>1. PICK r \in {cc[c], "internal"} : LocalResult(c, r)
    BY <1>40 DEF CollectCompiler
  <2>2. discrepancies' \in 0..MaxDiscrepancies
    BY <2>1, ConstantsAssumption DEF LocalResult
  <2>3. r \in Ret
    BY <1>40, <2>1 DEF CollectCompiler, FlowOK
  <2> QED BY <2>1, <2>2, <2>3 DEF LocalResult
<1>41. ASSUME FinalUnlockRemote(c) PROVE TypeOK'
  BY <1>41, UnlockedType DEF FinalUnlockRemote, dcc_unlock_cpu
<1>42. ASSUME FinalUnlockLocal(c) PROVE TypeOK'
  BY <1>42, UnlockedType DEF FinalUnlockLocal, dcc_unlock_local
<1>43. ASSUME CleanUp(c) PROVE TypeOK'
  BY <1>43 DEF CleanUp
<1>44. ASSUME Exit(c) PROVE TypeOK'
  BY <1>44 DEF Exit
<1>45. ASSUME Kill(c) PROVE TypeOK'
  BY <1>45 DEF Kill
<1>46. ASSUME NEW s \in ExitStatus, CppEnds(c, s) PROVE TypeOK'
  BY <1>46 DEF CppEnds
<1>47. ASSUME NEW s \in ExitStatus, CompilerEnds(c, s) PROVE TypeOK'
  BY <1>47 DEF CompilerEnds
<1> HIDE DEF TypeOK
<1> QED
  BY <1>1, <1>2, <1>3, <1>4, <1>5, <1>6, <1>7, <1>8, <1>9, <1>10,
     <1>11, <1>12, <1>13, <1>14, <1>15, <1>16, <1>17, <1>18, <1>19, <1>20,
     <1>21, <1>22, <1>23, <1>24, <1>25, <1>26, <1>27, <1>28, <1>29, <1>30,
     <1>31, <1>32, <1>33, <1>34, <1>35, <1>36, <1>37, <1>38, <1>39, <1>40,
     <1>41, <1>42, <1>43, <1>44, <1>45, <1>46, <1>47 DEF Step, ChildEnds

-----------------------------------------------------------------------------
(* Every step keeps the control and lock invariants *)

LEMMA SStep ==
    ASSUME TypeOK, SInv, NEW c \in Client, Step(c) \/ Kill(c) \/ ChildEnds(c)
    PROVE  SInv'
<1> USE DEF SInv, CursorOK, HostsFor, FlowOK, FdOK, LocalLockLabel, NoCpuLockLabel,
        TypeOK, Live, locks, search, kids, result, Goto
<1>1. ASSUME StartRecursive(c) PROVE SInv'
  BY <1>1 DEF StartRecursive, HeldExactly
<1>2. ASSUME StartLocalOnly(c) PROVE SInv'
  BY <1>2 DEF StartLocalOnly, BeginLock, HeldExactly
<1>3. ASSUME StartTmpnamFails(c) PROVE SInv'
  BY <1>3 DEF StartTmpnamFails, HeldExactly
<1>4. ASSUME StartPick(c) PROVE SInv'
  BY <1>4 DEF StartPick, HeldExactly
<1>5. ASSUME dcc_remove_disliked(c) PROVE SInv'
  BY <1>5 DEF dcc_remove_disliked, HeldExactly
<1>6. ASSUME NoHostsLeft(c) PROVE SInv'
  BY <1>6 DEF NoHostsLeft, HeldExactly
<1>7. ASSUME HostListReady(c) PROVE SInv'
  BY <1>7 DEF HostListReady, BeginLock, HeldExactly
<1>8. ASSUME LockLocalhost(c) PROVE SInv'
  <2>1. pc[c] = "lock_one" /\ File(c) \in LockFile /\ Candidate(c) \in Hosts
    BY <1>8, CandidateType DEF LockLocalhost, LockHost, dcc_lock_host
  <2>2. CursorOK' /\ FlowOK'
    BY <1>8, <2>1 DEF LockLocalhost, LockHost, dcc_lock_host
  <2>3. FdOK'
    BY <1>8, <2>1 DEF LockLocalhost, LockHost, dcc_lock_host, File, Hosts, Candidate
  <2>4. HeldExactly'
    <3>1. Live' = Live /\ c \in Live
      BY <1>8, <2>1 DEF LockLocalhost, LockHost
    <3>2. cpu_lock[c] = NoLock
      BY <1>8, <2>1 DEF LockLocalhost, LockHost
    <3> QED BY <1>8, <2>1, <3>1, <3>2, HeldAfterLock DEF LockLocalhost, LockHost, dcc_lock_host, sys_lock
  <2> QED BY <2>2, <2>3, <2>4
<1>9. ASSUME LockServer(c) PROVE SInv'
  <2>1. pc[c] = "lock_one" /\ File(c) \in LockFile /\ Candidate(c) \in Hosts
    BY <1>9, CandidateType DEF LockServer, LockHost, BeginLock, dcc_lock_host
  <2>2. CursorOK' /\ FlowOK'
    BY <1>9, <2>1 DEF LockServer, LockHost, BeginLock, dcc_lock_host
  <2>3. FdOK'
    BY <1>9, <2>1 DEF LockServer, LockHost, BeginLock, dcc_lock_host, File, Hosts, Candidate
  <2>4. HeldExactly'
    <3>1. Live' = Live /\ c \in Live
      BY <1>9, <2>1 DEF LockServer, LockHost, BeginLock
    <3>2. cpu_lock[c] = NoLock
      BY <1>9, <2>1 DEF LockServer, LockHost, BeginLock
    <3> QED BY <1>9, <2>1, <3>1, <3>2, HeldAfterLock DEF LockServer, LockHost, BeginLock, dcc_lock_host, sys_lock
  <2> QED BY <2>2, <2>3, <2>4
<1>10. ASSUME dcc_lock_local_cpp(c) PROVE SInv'
  <2>1. pc[c] = "lock_one" /\ File(c) \in LockFile /\ Candidate(c) \in Hosts
    BY <1>10, CandidateType DEF dcc_lock_local_cpp, dcc_lock_host
  <2>2. CursorOK' /\ FlowOK'
    BY <1>10, <2>1 DEF dcc_lock_local_cpp, dcc_lock_host
  <2>3. FdOK'
    BY <1>10, <2>1 DEF dcc_lock_local_cpp, dcc_lock_host, File, Hosts, Candidate
  <2>4. HeldExactly'
    <3>1. Live' = Live /\ c \in Live
      BY <1>10, <2>1 DEF dcc_lock_local_cpp
    <3>2. local_lock[c] = NoLock
      BY <1>10, <2>1 DEF dcc_lock_local_cpp
    <3> QED BY <1>10, <2>1, <3>1, <3>2, HeldAfterLock DEF dcc_lock_local_cpp, dcc_lock_host, sys_lock
  <2> QED BY <2>2, <2>3, <2>4
<1>11. ASSUME dcc_lock_local(c) PROVE SInv'
  <2>1. pc[c] = "lock_one" /\ File(c) \in LockFile /\ Candidate(c) \in Hosts
    BY <1>11, CandidateType DEF dcc_lock_local, dcc_lock_host
  <2>2. CursorOK' /\ FlowOK'
    BY <1>11, <2>1 DEF dcc_lock_local, dcc_lock_host
  <2>3. FdOK'
    BY <1>11, <2>1 DEF dcc_lock_local, dcc_lock_host, File, Hosts, Candidate
  <2>4. HeldExactly'
    <3>1. Live' = Live /\ c \in Live
      BY <1>11, <2>1 DEF dcc_lock_local
    <3>2. cpu_lock[c] = NoLock
      BY <1>11, <2>1 DEF dcc_lock_local
    <3> QED BY <1>11, <2>1, <3>1, <3>2, HeldAfterLock DEF dcc_lock_local, dcc_lock_host, sys_lock
  <2> QED BY <2>2, <2>3, <2>4
<1>12. ASSUME TryNextHost(c) PROVE SInv'
  <2>1. HostsFor(c) \in Seq(Hosts)
    BY HostsForType
  <2>2. CursorOK'
    BY <1>12, <2>1 DEF TryNextHost, SlotUnavailable
  <2>3. FlowOK' /\ FdOK' /\ HeldExactly'
    BY <1>12 DEF TryNextHost, HeldExactly
  <2> QED BY <2>2, <2>3
<1>13. ASSUME TryNextSlot(c) PROVE SInv'
  <2>1. HostsFor(c) \in Seq(Hosts)
    BY HostsForType
  <2>2. CursorOK'
    BY <1>13, <2>1 DEF TryNextSlot, SlotUnavailable
  <2>3. FlowOK' /\ FdOK' /\ HeldExactly'
    BY <1>13 DEF TryNextSlot, HeldExactly
  <2> QED BY <2>2, <2>3
<1>14. ASSUME LockError(c) PROVE SInv'
  BY <1>14 DEF LockError, LockFails, HeldExactly
<1>15. ASSUME LockLocalErrorIgnored(c) PROVE SInv'
  BY <1>15 DEF LockLocalErrorIgnored, LockFails, HeldExactly
<1>16. ASSUME LockCppErrorCrashes(c) PROVE SInv'
  <2>1. CursorOK' /\ FlowOK'
    BY <1>16 DEF LockCppErrorCrashes, dcc_unlock_cpu
  <2>2. FdOK'
    BY <1>16 DEF LockCppErrorCrashes, LockFails, dcc_unlock_cpu
  <2>3. HeldExactly'
    <3>1. Live' = Live \ {c} /\ local_lock[c] = NoLock /\ dcc_unlock_cpu(c)
      BY <1>16 DEF LockCppErrorCrashes, LockFails
    <3> QED BY <3>1, HeldAfterUnlockCpu
  <2> QED BY <2>1, <2>2, <2>3
<1>17. ASSUME NEW u \in BOOLEAN, AdjustCppWhere(c, u) PROVE SInv'
  BY <1>17 DEF AdjustCppWhere, HeldExactly
<1>18. ASSUME NEW r \in {"scanned", "internal"}, ScanIncludes(c, r) PROVE SInv'
  BY <1>18 DEF ScanIncludes, HeldExactly
<1>19. ASSUME IncludeServerAnswers(c) PROVE SInv'
  <2>1. CursorOK' /\ FlowOK'
    BY <1>19 DEF IncludeServerAnswers, dcc_unlock_local
  <2>2. FdOK'
    BY <1>19 DEF IncludeServerAnswers, dcc_unlock_local
  <2>3. HeldExactly'
    <3>1. Live' = Live /\ dcc_unlock_local(c)
      BY <1>19 DEF IncludeServerAnswers
    <3> QED BY <3>1, HeldAfterUnlockLocal
  <2> QED BY <2>1, <2>2, <2>3
<1>20. ASSUME IncludeServerFails(c) PROVE SInv'
  BY <1>20 DEF IncludeServerFails, HeldExactly
<1>21. ASSUME NEW p \in BOOLEAN, dcc_cpp_maybe(c, p) PROVE SInv'
  BY <1>21 DEF dcc_cpp_maybe, HeldExactly
<1>22. ASSUME CppSetupFails(c) PROVE SInv'
  BY <1>22 DEF CppSetupFails, HeldExactly
<1>23. ASSUME dcc_strip_local_args(c) PROVE SInv'
  BY <1>23 DEF dcc_strip_local_args, HeldExactly
<1>24. ASSUME dcc_remote_connect(c) PROVE SInv'
  BY <1>24 DEF dcc_remote_connect, HeldExactly
<1>25. ASSUME dcc_send_header(c) PROVE SInv'
  BY <1>25 DEF dcc_send_header, HeldExactly
<1>26. ASSUME dcc_wait_for_cpp(c) PROVE SInv'
  <2>1. CursorOK' /\ FlowOK'
    BY <1>26 DEF dcc_wait_for_cpp, dcc_unlock_local, ChildState
  <2>2. FdOK'
    BY <1>26 DEF dcc_wait_for_cpp, dcc_unlock_local
  <2>3. HeldExactly'
    <3>1. Live' = Live /\ dcc_unlock_local(c)
      BY <1>26 DEF dcc_wait_for_cpp
    <3> QED BY <3>1, HeldAfterUnlockLocal
  <2> QED BY <2>1, <2>2, <2>3
<1>27. ASSUME dcc_x_file(c) PROVE SInv'
  BY <1>27 DEF dcc_x_file, HeldExactly
<1>28. ASSUME NEW s \in ExitStatus, dcc_retrieve_results(c, s) PROVE SInv'
  BY <1>28 DEF dcc_retrieve_results, HeldExactly, ExitStatus
<1>29. ASSUME RemoteFails(c) PROVE SInv'
  <2>1. CursorOK' /\ FlowOK'
    BY <1>29 DEF RemoteFails, dcc_unlock_local
  <2>2. FdOK'
    BY <1>29 DEF RemoteFails, dcc_unlock_local
  <2>3. HeldExactly'
    <3>1. Live' = Live /\ dcc_unlock_local(c)
      BY <1>29 DEF RemoteFails
    <3> QED BY <3>1, HeldAfterUnlockLocal
  <2> QED BY <2>1, <2>2, <2>3
<1>30. ASSUME dcc_enjoyed_host(c) PROVE SInv'
  BY <1>30 DEF dcc_enjoyed_host, HeldExactly
<1>31. ASSUME UnlockHost(c) PROVE SInv'
  <2>1. CursorOK' /\ FlowOK'
    BY <1>31 DEF UnlockHost, dcc_unlock_cpu
  <2>2. FdOK'
    BY <1>31 DEF UnlockHost, dcc_unlock_cpu
  <2>3. HeldExactly'
    <3>1. Live' = Live /\ dcc_unlock_cpu(c)
      BY <1>31 DEF UnlockHost
    <3> QED BY <3>1, HeldAfterUnlockCpu
  <2> QED BY <2>1, <2>2, <2>3
<1>32. ASSUME NEW b \in BOOLEAN, Critique(c, b) PROVE SInv'
  BY <1>32 DEF Critique, HeldExactly
<1>33. ASSUME dcc_disliked_host(c) PROVE SInv'
  BY <1>33 DEF dcc_disliked_host, HeldExactly
<1>34. ASSUME FallbackUnlockRemote(c) PROVE SInv'
  <2>1. CursorOK' /\ FlowOK'
    BY <1>34 DEF FallbackUnlockRemote, dcc_unlock_cpu
  <2>2. FdOK'
    BY <1>34 DEF FallbackUnlockRemote, dcc_unlock_cpu
  <2>3. HeldExactly'
    <3>1. Live' = Live /\ dcc_unlock_cpu(c)
      BY <1>34 DEF FallbackUnlockRemote
    <3> QED BY <3>1, HeldAfterUnlockCpu
  <2> QED BY <2>1, <2>2, <2>3
<1>35. ASSUME FallbackUnlockLocal(c) PROVE SInv'
  <2>1. CursorOK' /\ FlowOK'
    BY <1>35 DEF FallbackUnlockLocal, dcc_unlock_local
  <2>2. FdOK'
    BY <1>35 DEF FallbackUnlockLocal, dcc_unlock_local
  <2>3. HeldExactly'
    <3>1. Live' = Live /\ dcc_unlock_local(c)
      BY <1>35 DEF FallbackUnlockLocal
    <3> QED BY <3>1, HeldAfterUnlockLocal
  <2> QED BY <2>1, <2>2, <2>3
<1>36. ASSUME NEW b \in BOOLEAN, FallbackDisabled(c, b) PROVE SInv'
  BY <1>36 DEF FallbackDisabled, HeldExactly
<1>37. ASSUME FallbackLocal(c) PROVE SInv'
  BY <1>37 DEF FallbackLocal, BeginLock, HeldExactly
<1>38. ASSUME SpawnCompiler(c) PROVE SInv'
  BY <1>38 DEF SpawnCompiler, HeldExactly
<1>39. ASSUME SpawnCompilerFails(c) PROVE SInv'
  BY <1>39 DEF SpawnCompilerFails, LocalResult, HeldExactly
<1>40. ASSUME CollectCompiler(c) PROVE SInv'
  <2>1. PICK r \in {cc[c], "internal"} : pc[c] = "compile_local" /\ LocalResult(c, r)
    BY <1>40 DEF CollectCompiler
  <2> QED BY <2>1 DEF LocalResult, HeldExactly
<1>41. ASSUME FinalUnlockRemote(c) PROVE SInv'
  <2>1. CursorOK' /\ FlowOK'
    BY <1>41 DEF FinalUnlockRemote, dcc_unlock_cpu
  <2>2. FdOK'
    BY <1>41 DEF FinalUnlockRemote, dcc_unlock_cpu
  <2>3. HeldExactly'
    <3>1. Live' = Live /\ dcc_unlock_cpu(c)
      BY <1>41 DEF FinalUnlockRemote
    <3> QED BY <3>1, HeldAfterUnlockCpu
  <2> QED BY <2>1, <2>2, <2>3
<1>42. ASSUME FinalUnlockLocal(c) PROVE SInv'
  <2>1. CursorOK' /\ FlowOK'
    BY <1>42 DEF FinalUnlockLocal, dcc_unlock_local
  <2>2. FdOK'
    BY <1>42 DEF FinalUnlockLocal, dcc_unlock_local
  <2>3. HeldExactly'
    <3>1. Live' = Live /\ dcc_unlock_local(c)
      BY <1>42 DEF FinalUnlockLocal
    <3> QED BY <3>1, HeldAfterUnlockLocal
  <2> QED BY <2>1, <2>2, <2>3
<1>43. ASSUME CleanUp(c) PROVE SInv'
  BY <1>43 DEF CleanUp, HeldExactly
<1>44. ASSUME Exit(c) PROVE SInv'
  <2>1. CursorOK' /\ FlowOK' /\ FdOK'
    BY <1>44 DEF Exit
  <2>2. HeldExactly'
    <3>1. Live' = Live \ {c}
      BY <1>44 DEF Exit
    <3> QED BY <1>44, <3>1, HeldAfterEnd DEF Exit
  <2> QED BY <2>1, <2>2
<1>45. ASSUME Kill(c) PROVE SInv'
  <2>1. CursorOK' /\ FlowOK' /\ FdOK'
    BY <1>45 DEF Kill
  <2>2. HeldExactly'
    <3>1. Live' = Live \ {c}
      BY <1>45 DEF Kill
    <3> QED BY <1>45, <3>1, HeldAfterEnd DEF Kill
  <2> QED BY <2>1, <2>2
<1>46. ASSUME NEW s \in ExitStatus, CppEnds(c, s) PROVE SInv'
  BY <1>46 DEF CppEnds, HeldExactly, ExitStatus
<1>47. ASSUME NEW s \in ExitStatus, CompilerEnds(c, s) PROVE SInv'
  BY <1>47 DEF CompilerEnds, HeldExactly, ExitStatus
<1> HIDE DEF SInv, TypeOK
<1> QED
  BY <1>1, <1>2, <1>3, <1>4, <1>5, <1>6, <1>7, <1>8, <1>9, <1>10,
     <1>11, <1>12, <1>13, <1>14, <1>15, <1>16, <1>17, <1>18, <1>19, <1>20,
     <1>21, <1>22, <1>23, <1>24, <1>25, <1>26, <1>27, <1>28, <1>29, <1>30,
     <1>31, <1>32, <1>33, <1>34, <1>35, <1>36, <1>37, <1>38, <1>39, <1>40,
     <1>41, <1>42, <1>43, <1>44, <1>45, <1>46, <1>47 DEF Step, ChildEnds

LEMMA InvStep == IInv /\ [Next]_vars => IInv'
<1> SUFFICES ASSUME IInv, [Next]_vars PROVE IInv'
  OBVIOUS
<1>1. ASSUME NEW c \in Client, Step(c) \/ Kill(c) \/ ChildEnds(c) PROVE IInv'
  BY <1>1, TypeStep, SStep DEF IInv, SInv
<1>2. ASSUME NEW h \in Remote, BackoffExpires(h) PROVE IInv'
  <2>1. TypeOK'
    BY <1>2 DEF IInv, TypeOK, BackoffExpires, locks, search, kids, result
  <2>2. SInv'
    BY <1>2 DEF IInv, SInv, CursorOK, HostsFor, FlowOK, FdOK, HeldExactly, Live,
                BackoffExpires, locks, search, kids, result
  <2> QED BY <2>1, <2>2 DEF IInv
<1>3. CASE UNCHANGED vars
  BY <1>3 DEF IInv, TypeOK, SInv, CursorOK, HostsFor, FlowOK, FdOK, HeldExactly, Live,
              vars, locks, search, kids, result
<1> QED
  BY <1>1, <1>2, <1>3 DEF Next

-----------------------------------------------------------------------------
(* Theorems *)

LEMMA Invariance == Spec => []IInv
  BY InitIInv, InvStep, PTL DEF Spec

\* Every variable of the client model keeps its type, for any host list and
\* any number of clients.
THEOREM TypeCorrect == Spec => []TypeOK
  BY Invariance, PTL DEF IInv

\* What the kernel has locked is exactly what the running clients' two lock
\* descriptors say: no path of compile.c and remote.c leaks or loses a lock.
THEOREM LockTableAgrees == Spec => []HeldExactly
  BY Invariance, PTL DEF IInv, SInv

\* Two clients never use one slot, and one client has at most one local and
\* one server lock (the first invariant of the comment in lock.c).
THEOREM Exclusion == Spec => []SlotExclusive
<1>1. IInv => SlotExclusive
  <2> SUFFICES ASSUME IInv PROVE SlotExclusive
    OBVIOUS
  <2> USE DEF IInv, SInv
  <2>1. \A c \in Client : cpu_lock[c] # NoLock \/ local_lock[c] # NoLock => c \in Live
    BY DEF FdOK, Live, TypeOK, LocalLockLabel, NoCpuLockLabel
  <2>2. \A c \in Client :
          /\ cpu_lock[c] # NoLock => cpu_lock[c] \in LockFile /\ locked[cpu_lock[c]] = c
          /\ local_lock[c] # NoLock => local_lock[c] \in LockFile /\ locked[local_lock[c]] = c
    BY <2>1 DEF HeldExactly, TypeOK
  <2>3. \A c \in Client : local_lock[c] # NoLock =>
          local_lock[c][1] = Local /\ (cpu_lock[c] # NoLock => cpu_lock[c][1] \in Remote)
    BY DEF FdOK
  <2> QED BY <2>2, <2>3 DEF SlotExclusive
<1> QED BY <1>1, Invariance, PTL

\* Every path reaches clean_up with both lock descriptors closed.
THEOREM NothingLeaked == Spec => []NoLockAtCleanUp
<1>1. IInv => NoLockAtCleanUp
  BY DEF IInv, SInv, FdOK, NoLockAtCleanUp, NoCpuLockLabel, LocalLockLabel
<1> QED BY <1>1, Invariance, PTL

\* A server slot is never taken by a client that holds any other lock: the
\* acquisition order of the comment in lock.c.
THEOREM LockOrder == Spec => RemoteAcquiredFirst
<1> DEFINE Ordered ==
      \A c \in Client :
          (cpu_lock'[c] # cpu_lock[c] /\ cpu_lock'[c] # NoLock) =>
              local_lock[c] = NoLock /\ cpu_lock[c] = NoLock
<1>1. IInv /\ [Next]_vars => [Ordered]_vars
  <2> SUFFICES ASSUME IInv, Next PROVE Ordered
    OBVIOUS
  <2> USE DEF IInv, TypeOK, locks
  <2>1. ASSUME UNCHANGED cpu_lock PROVE Ordered
    BY <2>1
  <2>2. ASSUME NEW d \in Client, cpu_lock' = [cpu_lock EXCEPT ![d] = NoLock] PROVE Ordered
    BY <2>2
  <2>3. ASSUME NEW d \in Client, LockLocalhost(d) \/ LockServer(d) \/ dcc_lock_local(d) PROVE Ordered
    <3>1. cpu_lock[d] = NoLock /\ local_lock[d] = NoLock
      BY <2>3 DEF SInv, FdOK, LockLocalhost, LockServer, LockHost, dcc_lock_local,
                      dcc_lock_host, LocalLockLabel
    <3>2. cpu_lock' = [cpu_lock EXCEPT ![d] = File(d)]
      BY <2>3 DEF LockLocalhost, LockServer, LockHost, dcc_lock_local
    <3> QED BY <3>1, <3>2
  <2>4. ASSUME NEW d \in Client, Step(d) \/ Kill(d) \/ ChildEnds(d) PROVE Ordered
    <3>1. ASSUME
                \/ StartRecursive(d)
                \/ StartLocalOnly(d)
                \/ StartTmpnamFails(d)
                \/ StartPick(d)
                \/ dcc_remove_disliked(d)
                \/ NoHostsLeft(d)
                \/ HostListReady(d)
          PROVE  UNCHANGED cpu_lock
      BY <3>1 DEF StartRecursive, StartLocalOnly, StartTmpnamFails, StartPick, dcc_remove_disliked, NoHostsLeft, HostListReady, dcc_unlock_local, LocalResult
    <3>2. ASSUME
                \/ dcc_lock_local_cpp(d)
                \/ TryNextHost(d)
                \/ TryNextSlot(d)
                \/ LockError(d)
                \/ LockLocalErrorIgnored(d)
                \/ \E u \in BOOLEAN : AdjustCppWhere(d, u)
                \/ \E r \in {"scanned", "internal"} : ScanIncludes(d, r)
          PROVE  UNCHANGED cpu_lock
      BY <3>2 DEF dcc_lock_local_cpp, TryNextHost, TryNextSlot, LockError, LockLocalErrorIgnored, AdjustCppWhere, ScanIncludes, dcc_unlock_local, LocalResult
    <3>3. ASSUME
                \/ IncludeServerAnswers(d)
                \/ IncludeServerFails(d)
                \/ \E p \in BOOLEAN : dcc_cpp_maybe(d, p)
                \/ CppSetupFails(d)
                \/ dcc_strip_local_args(d)
                \/ dcc_remote_connect(d)
                \/ dcc_send_header(d)
          PROVE  UNCHANGED cpu_lock
      BY <3>3 DEF IncludeServerAnswers, IncludeServerFails, dcc_cpp_maybe, CppSetupFails, dcc_strip_local_args, dcc_remote_connect, dcc_send_header, dcc_unlock_local, LocalResult
    <3>4. ASSUME
                \/ dcc_wait_for_cpp(d)
                \/ dcc_x_file(d)
                \/ \E s \in ExitStatus : dcc_retrieve_results(d, s)
                \/ RemoteFails(d)
                \/ dcc_enjoyed_host(d)
                \/ \E b \in BOOLEAN : Critique(d, b)
                \/ dcc_disliked_host(d)
          PROVE  UNCHANGED cpu_lock
      BY <3>4 DEF dcc_wait_for_cpp, dcc_x_file, dcc_retrieve_results, RemoteFails, dcc_enjoyed_host, Critique, dcc_disliked_host, dcc_unlock_local, LocalResult
    <3>5. ASSUME
                \/ FallbackUnlockLocal(d)
                \/ \E b \in BOOLEAN : FallbackDisabled(d, b)
                \/ FallbackLocal(d)
                \/ SpawnCompiler(d)
                \/ SpawnCompilerFails(d)
                \/ CollectCompiler(d)
                \/ FinalUnlockLocal(d)
          PROVE  UNCHANGED cpu_lock
      BY <3>5 DEF FallbackUnlockLocal, FallbackDisabled, FallbackLocal, SpawnCompiler, SpawnCompilerFails, CollectCompiler, FinalUnlockLocal, dcc_unlock_local, LocalResult
    <3>6. ASSUME
                \/ CleanUp(d)
                \/ \E s \in ExitStatus : CppEnds(d, s)
                \/ \E s \in ExitStatus : CompilerEnds(d, s)
          PROVE  UNCHANGED cpu_lock
      BY <3>6 DEF CleanUp, CppEnds, CompilerEnds, dcc_unlock_local, LocalResult
    <3>7. ASSUME
                \/ LockCppErrorCrashes(d)
                \/ UnlockHost(d)
                \/ FallbackUnlockRemote(d)
                \/ FinalUnlockRemote(d)
                \/ Exit(d)
                \/ Kill(d)
          PROVE  cpu_lock' = [cpu_lock EXCEPT ![d] = NoLock]
      BY <3>7 DEF LockCppErrorCrashes, UnlockHost, FallbackUnlockRemote, FinalUnlockRemote, Exit, Kill, dcc_unlock_cpu
    <3> HIDE DEF IInv, Ordered
    <3> QED BY <2>1, <2>2, <2>3, <2>4, <3>1, <3>2, <3>3, <3>4, <3>5, <3>6, <3>7 DEF Step, ChildEnds
  <2>5. ASSUME NEW h \in Remote, BackoffExpires(h) PROVE Ordered
    BY <2>1, <2>5 DEF BackoffExpires
  <2> HIDE DEF IInv, Ordered
  <2> QED BY <2>4, <2>5 DEF Next
<1> QED BY <1>1, Invariance, PTL DEF Spec, RemoteAcquiredFirst

-----------------------------------------------------------------------------
(* The local compiler: when it runs, under which lock, and the exit code *)

\* Labels at which the local compiler has not been started yet.
BeforeCompiler ==
    Label \ {"compile_local", "unlock_and_clean_up", "clean_up", "done", "killed"}

\* The largest number of local slots any call of dcc_lock_one may offer.
LocalMax == IF NSlots[Local] > LocalSlots THEN NSlots[Local] ELSE LocalSlots

\* The compiler child lives exactly while dcc_compile_local waits for it, and
\* a ret of 0 is backed by a compiler that succeeded: on the way through
\* fallback by the server's (its messages could not be shown), behind
\* dcc_compile_local by the local one.
OutcomeOK ==
    \A c \in Client :
        /\ pc[c] \in BeforeCompiler => cc[c] = "none"
        /\ pc[c] \in {"unlock_and_clean_up", "clean_up", "done"} => cc[c] # "running"
        /\ pc[c] \in {"fallback", "unlock_remote", "unlock_local", "give_up"} /\ ret[c] = "ok" =>
             status[c] = "ok"
        /\ pc[c] = "unlock_and_clean_up" /\ ret[c] = "ok" => cc[c] = "ok"
        /\ pc[c] \in {"clean_up", "done"} /\ ret[c] = "ok" =>
             cc[c] = "ok" \/ (cc[c] = "none" /\ status[c] = "ok")

\* The client that runs a local compiler has a local slot behind cpu_lock_fd,
\* unless it is recursive or the failure of dcc_lock_local was ignored.
SlotOK ==
    \A c \in Client : pc[c] \in {"run_local", "compile_local"} =>
        /\ c \in Recursive \/ "lock" \in Faults \/ cpu_lock[c] # NoLock
        /\ cpu_lock[c] # NoLock => cpu_lock[c][1] = Local /\ cpu_lock[c][2] < LocalMax

OInv == OutcomeOK /\ SlotOK

\* dcc_lock_one hands out a slot below the number its caller allows.
LEMMA LocalSlotTaken ==
    ASSUME TypeOK, CursorOK, NEW c \in Client, dcc_lock_host(c), Candidate(c) = Local,
           want[c] # "cpp"
    PROVE  /\ File(c) # NoLock
           /\ File(c)[1] = Local /\ File(c)[2] < LocalMax
<1>1. File(c) \in LockFile
  BY CandidateType DEF dcc_lock_host
<1>2. File(c) # NoLock
  BY <1>1, ConstantsAssumption
<1>3. i_cpu[c] < SlotsFor(c) /\ SlotsFor(c) \in {NSlots[Local], LocalSlots}
  BY DEF dcc_lock_host, SlotsFor, TypeOK
<1>4. i_cpu[c] \in Int /\ NSlots[Local] \in Int /\ LocalSlots \in Int
  BY ConstantsAssumption, MaxCpuPos DEF TypeOK, Hosts
<1>5. i_cpu[c] < LocalMax
  BY <1>3, <1>4 DEF LocalMax
<1> QED BY <1>2, <1>5 DEF File

LEMMA OStep ==
    ASSUME TypeOK, SInv, OInv, NEW c \in Client, Step(c) \/ Kill(c) \/ ChildEnds(c)
    PROVE  OInv'
<1> USE DEF OInv, OutcomeOK, SlotOK, BeforeCompiler, Label, TypeOK, locks, search,
        kids, result, Goto
<1>1. ASSUME StartRecursive(c) PROVE OInv'
  BY <1>1 DEF StartRecursive, SInv, FdOK, NoCpuLockLabel
<1>2. ASSUME StartLocalOnly(c) PROVE OInv'
  BY <1>2 DEF StartLocalOnly, BeginLock
<1>3. ASSUME StartTmpnamFails(c) PROVE OInv'
  BY <1>3 DEF StartTmpnamFails
<1>4. ASSUME StartPick(c) PROVE OInv'
  BY <1>4 DEF StartPick
<1>5. ASSUME dcc_remove_disliked(c) PROVE OInv'
  BY <1>5 DEF dcc_remove_disliked
<1>6. ASSUME NoHostsLeft(c) PROVE OInv'
  BY <1>6 DEF NoHostsLeft
<1>7. ASSUME HostListReady(c) PROVE OInv'
  BY <1>7 DEF HostListReady, BeginLock
<1>8. ASSUME LockLocalhost(c) PROVE OInv'
  <2>1. dcc_lock_host(c) /\ want[c] # "cpp" /\ Candidate(c) = Local
    BY <1>8 DEF LockLocalhost, LockHost, SInv, CursorOK, Candidate, HostsFor, dcc_lock_host
  <2>2. File(c) # NoLock /\ File(c)[1] = Local /\ File(c)[2] < LocalMax
    BY <2>1, LocalSlotTaken DEF SInv
  <2>3. OutcomeOK'
    BY <1>8 DEF LockLocalhost, LockHost, dcc_lock_host
  <2>4. SlotOK'
    BY <1>8, <2>2 DEF LockLocalhost, LockHost, dcc_lock_host
  <2> QED BY <2>3, <2>4
<1>9. ASSUME LockServer(c) PROVE OInv'
  BY <1>9 DEF LockServer, LockHost, dcc_lock_host, BeginLock
<1>10. ASSUME dcc_lock_local_cpp(c) PROVE OInv'
  BY <1>10 DEF dcc_lock_local_cpp, dcc_lock_host
<1>11. ASSUME dcc_lock_local(c) PROVE OInv'
  <2>1. dcc_lock_host(c) /\ want[c] # "cpp" /\ Candidate(c) = Local
    BY <1>11 DEF dcc_lock_local, SInv, CursorOK, Candidate, HostsFor, dcc_lock_host
  <2>2. File(c) # NoLock /\ File(c)[1] = Local /\ File(c)[2] < LocalMax
    BY <2>1, LocalSlotTaken DEF SInv
  <2>3. OutcomeOK'
    BY <1>11 DEF dcc_lock_local, dcc_lock_host
  <2>4. SlotOK'
    BY <1>11, <2>2 DEF dcc_lock_local, dcc_lock_host
  <2> QED BY <2>3, <2>4
<1>12. ASSUME TryNextHost(c) PROVE OInv'
  BY <1>12 DEF TryNextHost, SlotUnavailable
<1>13. ASSUME TryNextSlot(c) PROVE OInv'
  BY <1>13 DEF TryNextSlot, SlotUnavailable
<1>14. ASSUME LockError(c) PROVE OInv'
  BY <1>14 DEF LockError, LockFails
<1>15. ASSUME LockLocalErrorIgnored(c) PROVE OInv'
  BY <1>15 DEF LockLocalErrorIgnored, LockFails, SInv, FdOK
<1>16. ASSUME LockCppErrorCrashes(c) PROVE OInv'
  BY <1>16 DEF LockCppErrorCrashes, LockFails, dcc_unlock_cpu
<1>17. ASSUME NEW u \in BOOLEAN, AdjustCppWhere(c, u) PROVE OInv'
  BY <1>17 DEF AdjustCppWhere
<1>18. ASSUME NEW r \in {"scanned", "internal"}, ScanIncludes(c, r) PROVE OInv'
  BY <1>18 DEF ScanIncludes
<1>19. ASSUME IncludeServerAnswers(c) PROVE OInv'
  BY <1>19 DEF IncludeServerAnswers, dcc_unlock_local
<1>20. ASSUME IncludeServerFails(c) PROVE OInv'
  BY <1>20 DEF IncludeServerFails
<1>21. ASSUME NEW p \in BOOLEAN, dcc_cpp_maybe(c, p) PROVE OInv'
  BY <1>21 DEF dcc_cpp_maybe
<1>22. ASSUME CppSetupFails(c) PROVE OInv'
  BY <1>22 DEF CppSetupFails
<1>23. ASSUME dcc_strip_local_args(c) PROVE OInv'
  BY <1>23 DEF dcc_strip_local_args
<1>24. ASSUME dcc_remote_connect(c) PROVE OInv'
  BY <1>24 DEF dcc_remote_connect
<1>25. ASSUME dcc_send_header(c) PROVE OInv'
  BY <1>25 DEF dcc_send_header
<1>26. ASSUME dcc_wait_for_cpp(c) PROVE OInv'
  BY <1>26 DEF dcc_wait_for_cpp, dcc_unlock_local
<1>27. ASSUME dcc_x_file(c) PROVE OInv'
  BY <1>27 DEF dcc_x_file
<1>28. ASSUME NEW s \in ExitStatus, dcc_retrieve_results(c, s) PROVE OInv'
  BY <1>28 DEF dcc_retrieve_results, ExitStatus
<1>29. ASSUME RemoteFails(c) PROVE OInv'
  BY <1>29 DEF RemoteFails, dcc_unlock_local
<1>30. ASSUME dcc_enjoyed_host(c) PROVE OInv'
  BY <1>30 DEF dcc_enjoyed_host
<1>31. ASSUME UnlockHost(c) PROVE OInv'
  BY <1>31 DEF UnlockHost, dcc_unlock_cpu
<1>32. ASSUME NEW b \in BOOLEAN, Critique(c, b) PROVE OInv'
  BY <1>32 DEF Critique
<1>33. ASSUME dcc_disliked_host(c) PROVE OInv'
  BY <1>33 DEF dcc_disliked_host
<1>34. ASSUME FallbackUnlockRemote(c) PROVE OInv'
  BY <1>34 DEF FallbackUnlockRemote, dcc_unlock_cpu
<1>35. ASSUME FallbackUnlockLocal(c) PROVE OInv'
  BY <1>35 DEF FallbackUnlockLocal, dcc_unlock_local
<1>36. ASSUME NEW b \in BOOLEAN, FallbackDisabled(c, b) PROVE OInv'
  BY <1>36 DEF FallbackDisabled
<1>37. ASSUME FallbackLocal(c) PROVE OInv'
  BY <1>37 DEF FallbackLocal, BeginLock
<1>38. ASSUME SpawnCompiler(c) PROVE OInv'
  BY <1>38 DEF SpawnCompiler
<1>39. ASSUME SpawnCompilerFails(c) PROVE OInv'
  BY <1>39 DEF SpawnCompilerFails, LocalResult
<1>40. ASSUME CollectCompiler(c) PROVE OInv'
  <2>1. PICK r \in {cc[c], "internal"} : LocalResult(c, r)
    BY <1>40 DEF CollectCompiler
  <2>2. pc[c] = "compile_local" /\ cc[c] # "running"
    BY <1>40 DEF CollectCompiler
  <2> QED BY <2>1, <2>2 DEF LocalResult
<1>41. ASSUME FinalUnlockRemote(c) PROVE OInv'
  BY <1>41 DEF FinalUnlockRemote, dcc_unlock_cpu
<1>42. ASSUME FinalUnlockLocal(c) PROVE OInv'
  BY <1>42 DEF FinalUnlockLocal, dcc_unlock_local
<1>43. ASSUME CleanUp(c) PROVE OInv'
  BY <1>43 DEF CleanUp
<1>44. ASSUME Exit(c) PROVE OInv'
  BY <1>44 DEF Exit
<1>45. ASSUME Kill(c) PROVE OInv'
  BY <1>45 DEF Kill
<1>46. ASSUME NEW s \in ExitStatus, CppEnds(c, s) PROVE OInv'
  BY <1>46 DEF CppEnds, ExitStatus
<1>47. ASSUME NEW s \in ExitStatus, CompilerEnds(c, s) PROVE OInv'
  BY <1>47 DEF CompilerEnds, ExitStatus
<1> HIDE DEF OInv, TypeOK
<1> QED
  BY <1>1, <1>2, <1>3, <1>4, <1>5, <1>6, <1>7, <1>8, <1>9, <1>10,
     <1>11, <1>12, <1>13, <1>14, <1>15, <1>16, <1>17, <1>18, <1>19, <1>20,
     <1>21, <1>22, <1>23, <1>24, <1>25, <1>26, <1>27, <1>28, <1>29, <1>30,
     <1>31, <1>32, <1>33, <1>34, <1>35, <1>36, <1>37, <1>38, <1>39, <1>40,
     <1>41, <1>42, <1>43, <1>44, <1>45, <1>46, <1>47 DEF Step, ChildEnds

\* The outcome invariant rests on the inductive invariant of the locks.
LEMMA OInvariance == Spec => [](IInv /\ OInv)
<1>1. Init => OInv
  BY DEF Init, OInv, OutcomeOK, SlotOK
<1>2. IInv /\ OInv /\ [Next]_vars => OInv'
  <2> SUFFICES ASSUME IInv, OInv, [Next]_vars PROVE OInv'
    OBVIOUS
  <2>1. ASSUME NEW c \in Client, Step(c) \/ Kill(c) \/ ChildEnds(c) PROVE OInv'
    BY <2>1, OStep DEF IInv
  <2>2. ASSUME NEW h \in Remote, BackoffExpires(h) PROVE OInv'
    BY <2>2 DEF BackoffExpires, OInv, OutcomeOK, SlotOK, locks, kids, result
  <2>3. CASE UNCHANGED vars
    BY <2>3 DEF OInv, OutcomeOK, SlotOK, vars, locks, kids, result
  <2> QED BY <2>1, <2>2, <2>3 DEF Next
<1> QED BY <1>1, <1>2, InitIInv, InvStep, PTL DEF Spec

\* Exit code 0 always has a successful compiler behind it, whatever failed on
\* the way and however the fallback ended.
THEOREM ZeroMeansCompiled == Spec => []ExitZeroMeansCompiled
<1>1. OInv => ExitZeroMeansCompiled
  BY DEF OInv, OutcomeOK, ExitZeroMeansCompiled
<1> QED BY <1>1, OInvariance, PTL

\* As long as locking a local slot never fails (its failure is ignored and
\* the compiler then runs unlocked), at most LocalMax local compilers run:
\* their clients hold different slots below that number.
THEOREM LocalLimitHolds ==
    ASSUME "lock" \notin Faults
    PROVE  Spec => []LocalLimit
<1>1. IInv /\ OInv => LocalLimit
  <2> SUFFICES ASSUME IInv, OInv PROVE LocalLimit
    OBVIOUS
  <2> DEFINE S == {c \in Live \ Recursive : cc[c] = "running"}
             slot == [c \in S |-> cpu_lock[c][2]]
  <2>1. ASSUME NEW c \in S
        PROVE  /\ c \in Client /\ cpu_lock[c] \in LockFile /\ locked[cpu_lock[c]] = c
               /\ cpu_lock[c][1] = Local
               /\ cpu_lock[c][2] \in 0..MaxCpu-1 /\ cpu_lock[c][2] < LocalMax
    <3>1. c \in Client /\ c \in Live /\ c \notin Recursive
      BY <2>1 DEF Live
    <3>2. pc[c] = "compile_local"
      BY <2>1, <3>1 DEF OInv, OutcomeOK, BeforeCompiler, Live, IInv, TypeOK
    <3>3. cpu_lock[c] # NoLock /\ cpu_lock[c][1] = Local /\ cpu_lock[c][2] < LocalMax
      BY <3>1, <3>2 DEF OInv, SlotOK
    <3>4. cpu_lock[c] \in LockFile
      BY <3>1, <3>3 DEF IInv, TypeOK
    <3>5. locked[cpu_lock[c]] = c
      BY <3>1, <3>4 DEF IInv, SInv, HeldExactly
    <3>6. cpu_lock[c][2] \in 0..MaxCpu-1
      BY <3>4 DEF LockFile
    <3> QED BY <3>1, <3>3, <3>4, <3>5, <3>6
  <2>2. LocalMax \in Nat
    BY ConstantsAssumption DEF LocalMax, Hosts
  <2>3. slot \in Injection(S, 0..LocalMax-1)
    <3>1. \A c \in S : slot[c] \in 0..LocalMax-1
      BY <2>1, <2>2, MaxCpuPos
    <3>2. ASSUME NEW c \in S, NEW d \in S, slot[c] = slot[d] PROVE c = d
      <4>1. cpu_lock[c][1] = cpu_lock[d][1] /\ cpu_lock[c][2] = cpu_lock[d][2]
        BY <2>1, <3>2
      <4>2. \A f, g \in LockFile : f[1] = g[1] /\ f[2] = g[2] => f = g
        BY DEF LockFile
      <4>3. cpu_lock[c] = cpu_lock[d]
        BY <2>1, <4>1, <4>2
      <4> QED BY <2>1, <4>3
    <3>3. slot \in [S -> 0..LocalMax-1]
      BY <3>1
    <3>4. IsInjective(slot)
      BY <3>2 DEF IsInjective
    <3> QED BY <3>3, <3>4 DEF Injection
  <2>4. IsFiniteSet(0..LocalMax-1) /\ Cardinality(0..LocalMax-1) = LocalMax
    <3>1. 0 \in Int /\ LocalMax - 1 \in Int
      BY <2>2
    <3> QED BY <2>2, <3>1, FS_Interval
  <2>5. Cardinality(S) <= Cardinality(0..LocalMax-1)
    BY <2>3, <2>4, FS_Injection
  <2> QED BY <2>4, <2>5 DEF LocalLimit, LocalMax
<1> QED BY <1>1, OInvariance, PTL
=============================================================================
