---------------------------- MODULE MonitorProofs ----------------------------
(***************************************************************************)
(* Proofs about Monitor for any process ids, hosts and slots: what a poll  *)
(* shows is sorted, names nobody twice and misses no client that was quiet *)
(* while the monitor read the directory.                                   *)
(***************************************************************************)
EXTENDS Monitor, FiniteSetTheorems, TLAPS

Busy == {"opened", "kill", "read", "check"}

Types ==
    /\ TypeOK
    /\ my_state \in [Pid -> Place \cup {Unset}]
    /\ notes \in [Pid -> Nat]
    /\ pc \in {"idle", "scan", "show"} \cup Busy

\* Whose record a state file holds, and when it is the last one noted.
FilesOK ==
    \A p \in Pid :
        /\ process[p] # "client" => notes[p] = 0
        /\ fd[p] # "closed" => my_state[p] \in Place
        /\ fd[p] = "unlinked" => file[p] = NoFile
        /\ file[p].state = "full" => file[p].record.pid = p
        /\ (process[p] = "client" /\ notes[p] > 0 /\ fd[p] = "closed"
              /\ file[p].state = "full") => file[p].record = Task(p, my_state[p])

\* The file that the monitor has open, and what it knows of it.
CurrentOK ==
    /\ (current = NoPid) <=> (pc \notin Busy)
    /\ current = NoPid => content = Linked
    /\ content = Linked \/ content \in FileState
    /\ content # Linked /\ content.state = "full" => content.record.pid = current
    /\ pc = "check" => content # Linked /\ content.state = "full"

\* Each file is listed, open or shown, never two of these.
ListOK ==
    /\ pc = "idle" => list = <<>>
    /\ current \notin listing
    /\ \A k \in DOMAIN list : list[k].pid \notin listing \cup {current}
    /\ ListSorted

\* A quiet client's file is as it was, and has been or will be read.
SteadyOK ==
    \A p \in steady :
        /\ fd[p] = "closed" /\ process[p] = "client"
        /\ file[p] = Written(Task(p, my_state[p]))
        /\ pc # "idle"
        /\ p \in listing \/ current = p \/ \E k \in DOMAIN list : list[k] = Task(p, my_state[p])
        /\ current = p => /\ pc # "kill"
                          /\ content = IF pc = "check" THEN file[p] ELSE Linked
        /\ pc = "show" => listing = {}

IInv == Types /\ FilesOK /\ CurrentOK /\ ListOK /\ SteadyOK

-----------------------------------------------------------------------------
(* dcc_mon_insert_sorted *)

\* How many entries stay in front of the new one: up to the first that comes
\* after it.
LEMMA PrefixCount ==
    ASSUME NEW n \in Nat, NEW T \in SUBSET (1..n),
           \A j \in T : 1..j \subseteq T
    PROVE  /\ Cardinality(T) \in 0..n
           /\ \A j \in 1..n : j \in T <=> j <= Cardinality(T)
<1>1. \A j \in 0..n : IsFiniteSet(1..j) /\ Cardinality(1..j) = j
  BY FS_Interval
<1>2. IsFiniteSet(T) /\ Cardinality(T) \in Nat /\ Cardinality(T) <= n
  <2>1. IsFiniteSet(1..n) /\ Cardinality(1..n) = n
    BY <1>1
  <2>2. IsFiniteSet(T) /\ Cardinality(T) <= Cardinality(1..n)
    BY <2>1, FS_Subset
  <2> QED BY <2>1, <2>2, FS_CardinalityType
<1>3. ASSUME NEW j \in 1..n, j \in T PROVE j <= Cardinality(T)
  <2>1. 1..j \subseteq T
    BY <1>3
  <2>2. Cardinality(1..j) <= Cardinality(T)
    BY <1>2, <2>1, FS_Subset
  <2> QED BY <1>1, <2>2
<1>4. ASSUME NEW j \in 1..n, j \notin T PROVE Cardinality(T) < j
  <2>1. T \subseteq 1..(j - 1)
    <3> SUFFICES ASSUME NEW i \in T, i >= j PROVE FALSE
      OBVIOUS
    <3>1. j \in 1..i
      OBVIOUS
    <3> QED BY <1>4, <3>1
  <2>2. j - 1 \in 0..n
    OBVIOUS
  <2>3. IsFiniteSet(1..(j - 1)) /\ Cardinality(1..(j - 1)) = j - 1
    BY <1>1, <2>2
  <2>4. Cardinality(T) <= Cardinality(1..(j - 1))
    BY <2>1, <2>3, FS_Subset
  <2> QED BY <1>2, <2>3, <2>4
<1> QED BY <1>2, <1>3, <1>4

\* The new list is the old one with the new entry at a place k + 1 that no
\* earlier entry comes after and whose old entry does.
LEMMA InsertAt ==
    ASSUME NEW l \in Seq(Record), NEW new \in Record
    PROVE  \E k \in 0..Len(l) :
             /\ \A j \in 1..k : ~Before(new, l[j])
             /\ k < Len(l) => Before(new, l[k + 1])
             /\ InsertSorted(l, new) \in Seq(Record)
             /\ Len(InsertSorted(l, new)) = Len(l) + 1
             /\ \A j \in 1..(Len(l) + 1) : InsertSorted(l, new)[j] =
                   IF j <= k THEN l[j] ELSE IF j = k + 1 THEN new ELSE l[j - 1]
<1> DEFINE T == {j \in DOMAIN l : \A m \in 1..j : ~Before(new, l[m])}
           k == Cardinality(T)
           a == SubSeq(l, 1, k)
           b == SubSeq(l, k + 1, Len(l))
<1>1. Len(l) \in Nat /\ DOMAIN l = 1..Len(l)
  OBVIOUS
<1>2. k \in 0..Len(l) /\ \A j \in 1..Len(l) : j \in T <=> j <= k
  <2>1. T \in SUBSET (1..Len(l)) /\ \A j \in T : 1..j \subseteq T
    BY <1>1
  <2> HIDE DEF T
  <2> QED BY <1>1, <2>1, PrefixCount
<1>3. \A j \in 1..k : ~Before(new, l[j])
  <2> SUFFICES ASSUME NEW j \in 1..k PROVE ~Before(new, l[j])
    OBVIOUS
  <2>1. j \in T
    <3> HIDE DEF T
    <3> QED BY <1>1, <1>2
  <2> HIDE DEF k
  <2> QED BY <1>1, <1>2, <2>1
<1>4. k < Len(l) => Before(new, l[k + 1])
  <2> SUFFICES ASSUME k < Len(l), ~Before(new, l[k + 1]) PROVE FALSE
    OBVIOUS
  <2>1. k + 1 \in 1..Len(l) /\ k + 1 \notin T
    <3> HIDE DEF T
    <3> QED BY <1>1, <1>2
  <2>2. \A m \in 1..(k + 1) : m \in 1..k \/ m = k + 1
    <3> HIDE DEF k
    <3> QED BY <1>1, <1>2
  <2> HIDE DEF k
  <2> QED BY <1>1, <1>3, <2>1, <2>2
<1>5. InsertSorted(l, new) = a \o <<new>> \o b
  BY DEF InsertSorted
<1> HIDE DEF k, T
<1>6. a \in Seq(Record) /\ Len(a) = k /\ \A j \in 1..k : a[j] = l[j]
  BY <1>1, <1>2
<1>7. b \in Seq(Record) /\ Len(b) = Len(l) - k /\ \A j \in 1..(Len(l) - k) : b[j] = l[k + j]
  BY <1>1, <1>2
<1> HIDE DEF a, b
<1>8. /\ a \o <<new>> \in Seq(Record) /\ Len(a \o <<new>>) = k + 1
      /\ \A j \in 1..(k + 1) : (a \o <<new>>)[j] = IF j <= k THEN l[j] ELSE new
  BY <1>1, <1>2, <1>6
<1> DEFINE c == a \o <<new>>
<1> HIDE DEF c
<1>9. /\ c \o b \in Seq(Record) /\ Len(c \o b) = Len(l) + 1
      /\ \A j \in 1..(Len(l) + 1) : (c \o b)[j] = IF j <= k + 1 THEN c[j] ELSE b[j - (k + 1)]
  BY <1>1, <1>2, <1>7, <1>8 DEF c
<1>10. ASSUME NEW j \in 1..(Len(l) + 1)
       PROVE (c \o b)[j] = IF j <= k THEN l[j] ELSE IF j = k + 1 THEN new ELSE l[j - 1]
  <2>1. CASE j <= k + 1
    BY <1>1, <1>2, <1>8, <1>9, <2>1 DEF c
  <2>2. CASE j > k + 1
    <3>1. j - (k + 1) \in 1..(Len(l) - k) /\ k + (j - (k + 1)) = j - 1
      BY <1>1, <1>2, <2>2
    <3>2. b[j - (k + 1)] = l[j - 1]
      BY <1>7, <3>1
    <3>3. ~(j <= k + 1) /\ ~(j <= k) /\ j # k + 1
      BY <1>1, <1>2, <2>2
    <3>4. (c \o b)[j] = b[j - (k + 1)]
      BY <1>9, <3>3
    <3> QED BY <3>2, <3>3, <3>4
  <2>3. j <= k + 1 \/ j > k + 1
    BY <1>1, <1>2
  <2> QED BY <2>1, <2>2, <2>3
<1>11. InsertSorted(l, new) = c \o b
  BY <1>5 DEF c
<1> QED BY <1>2, <1>3, <1>4, <1>9, <1>10, <1>11

\* The order of hosts and slots on records.
LEMMA RecordType ==
    ASSUME NEW r \in Record
    PROVE  r.pid \in Pid /\ r.host \in Nat /\ r.slot \in Nat
  BY MonitorAssumption DEF Record, Task

LEMMA BeforeOrder ==
    ASSUME NEW x \in Record, NEW y \in Record, NEW z \in Record
    PROVE  /\ Before(x, y) => ~Before(y, x)
           /\ Before(x, y) /\ Before(y, z) => Before(x, z)
           /\ Before(x, y) /\ ~Before(z, y) => ~Before(z, x)
           /\ ~Before(x, y) /\ Before(x, z) => ~Before(z, y)
<1>1. /\ x.host \in Nat /\ x.slot \in Nat /\ y.host \in Nat /\ y.slot \in Nat
      /\ z.host \in Nat /\ z.slot \in Nat
  BY RecordType
<1> QED BY <1>1 DEF Before

Sorted(l) ==
    \A j, k \in DOMAIN l : j < k => ~Before(l[k], l[j]) /\ l[j].pid # l[k].pid

\* dcc_mon_insert_sorted keeps the order, drops nobody and adds only the new
\* entry, which is in the list afterwards.
LEMMA InsertKeeps ==
    ASSUME NEW l \in Seq(Record), NEW new \in Record, Sorted(l),
           \A j \in DOMAIN l : l[j].pid # new.pid
    PROVE  LET r == InsertSorted(l, new)
           IN  /\ r \in Seq(Record) /\ Sorted(r)
               /\ \A j \in DOMAIN r : r[j] = new \/ \E i \in DOMAIN l : r[j] = l[i]
               /\ \A i \in DOMAIN l : \E j \in DOMAIN r : r[j] = l[i]
               /\ \E j \in DOMAIN r : r[j] = new
<1> DEFINE r == InsertSorted(l, new)
           n == Len(l)
<1>1. n \in Nat /\ DOMAIN l = 1..n /\ \A j \in 1..n : l[j] \in Record
  OBVIOUS
<1>2. PICK k \in 0..n :
             /\ \A j \in 1..k : ~Before(new, l[j])
             /\ k < n => Before(new, l[k + 1])
             /\ r \in Seq(Record)
             /\ Len(r) = n + 1
             /\ \A j \in 1..(n + 1) : r[j] =
                   IF j <= k THEN l[j] ELSE IF j = k + 1 THEN new ELSE l[j - 1]
  BY InsertAt
<1> HIDE DEF r, n
<1>3. DOMAIN r = 1..(n + 1)
  BY <1>2
<1>4. \A j \in 1..k : j \in 1..n /\ j \in 1..(n + 1) /\ r[j] = l[j]
  BY <1>1, <1>2
<1>5. k + 1 \in 1..(n + 1) /\ r[k + 1] = new
  BY <1>1, <1>2
<1>6. \A j \in (k + 2)..(n + 1) : j \in 1..(n + 1) /\ j - 1 \in 1..n /\ r[j] = l[j - 1]
  BY <1>1, <1>2
<1>7. \A j \in 1..(n + 1) : j \in 1..k \/ j = k + 1 \/ j \in (k + 2)..(n + 1)
  BY <1>1, <1>2
<1>8. \A j \in DOMAIN r : r[j] = new \/ \E i \in DOMAIN l : r[j] = l[i]
  BY <1>1, <1>3, <1>4, <1>5, <1>6, <1>7
<1>9. ASSUME NEW i \in 1..n PROVE \E j \in 1..(n + 1) : r[j] = l[i]
  <2>1. CASE i <= k
    BY <1>1, <1>2, <1>4, <2>1
  <2>2. CASE i > k
    <3>1. i + 1 \in (k + 2)..(n + 1) /\ (i + 1) - 1 = i
      BY <1>1, <1>2, <2>2
    <3>2. i + 1 \in 1..(n + 1) /\ r[i + 1] = l[(i + 1) - 1]
      BY <1>6, <3>1
    <3> QED BY <3>1, <3>2
  <2> QED BY <1>1, <1>2, <2>1, <2>2
<1>10. \A j \in (k + 1)..n : ~Before(l[j], new)
  <2> SUFFICES ASSUME NEW j \in (k + 1)..n PROVE ~Before(l[j], new)
    OBVIOUS
  <2>1. k + 1 \in 1..n /\ j \in 1..n /\ k < n /\ (j = k + 1 \/ k + 1 < j)
    BY <1>1, <1>2
  <2>2. Before(new, l[k + 1])
    BY <1>2, <2>1
  <2>3. l[k + 1] \in Record /\ l[j] \in Record
    BY <1>1, <2>1
  <2>4. CASE j = k + 1
    BY <2>2, <2>3, <2>4, BeforeOrder
  <2>5. CASE k + 1 < j
    <3>1. ~Before(l[j], l[k + 1])
      BY <1>1, <2>1, <2>5 DEF Sorted
    <3> QED BY <2>2, <2>3, <3>1, BeforeOrder
  <2> QED BY <2>1, <2>4, <2>5
<1>11. Sorted(r)
  <2> SUFFICES ASSUME NEW i \in 1..(n + 1), NEW j \in 1..(n + 1), i < j
               PROVE  ~Before(r[j], r[i]) /\ r[i].pid # r[j].pid
    BY <1>3 DEF Sorted
  <2>1. CASE i \in 1..k /\ j \in 1..k
    <3>1. i \in DOMAIN l /\ j \in DOMAIN l /\ r[i] = l[i] /\ r[j] = l[j]
      BY <1>1, <1>4, <2>1
    <3> QED BY <3>1 DEF Sorted
  <2>2. CASE i \in 1..k /\ j = k + 1
    <3>1. i \in DOMAIN l /\ r[i] = l[i] /\ r[j] = new
      BY <1>1, <1>4, <1>5, <2>2
    <3> QED BY <1>2, <2>2, <3>1
  <2>3. CASE i \in 1..k /\ j \in (k + 2)..(n + 1)
    <3>1. /\ i \in DOMAIN l /\ j - 1 \in DOMAIN l /\ i < j - 1
          /\ r[i] = l[i] /\ r[j] = l[j - 1]
      BY <1>1, <1>2, <1>4, <1>6, <2>3
    <3> QED BY <3>1 DEF Sorted
  <2>4. CASE i = k + 1 /\ j \in (k + 2)..(n + 1)
    <3>1. j - 1 \in DOMAIN l /\ j - 1 \in (k + 1)..n /\ r[i] = new /\ r[j] = l[j - 1]
      BY <1>1, <1>2, <1>5, <1>6, <2>4
    <3> QED BY <1>10, <3>1
  <2>5. CASE i \in (k + 2)..(n + 1) /\ j \in (k + 2)..(n + 1)
    <3>1. /\ i - 1 \in DOMAIN l /\ j - 1 \in DOMAIN l /\ i - 1 < j - 1
          /\ r[i] = l[i - 1] /\ r[j] = l[j - 1]
      BY <1>1, <1>2, <1>6, <2>5
    <3> QED BY <3>1 DEF Sorted
  <2> QED BY <1>1, <1>2, <2>1, <2>2, <2>3, <2>4, <2>5
<1> QED BY <1>1, <1>2, <1>3, <1>5, <1>8, <1>9, <1>11 DEF r
-----------------------------------------------------------------------------
(* Steps of the clients *)

LEMMA FileStates ==
    /\ NoFile \in FileState /\ Truncated \in FileState
    /\ \A p \in Pid, r \in Place :
          /\ Written(Task(p, r)) \in FileState
          /\ Written(Task(p, r)).record = Task(p, r) /\ Task(p, r).pid = p
    /\ \A f \in FileState : f.state # "linked" /\ f # Linked
<1>1. NoFile \in FileState /\ Truncated \in FileState
  BY DEF NoFile, Truncated, FileState
<1>2. ASSUME NEW p \in Pid, NEW r \in Place
      PROVE  /\ Written(Task(p, r)) \in FileState
             /\ Written(Task(p, r)).record = Task(p, r) /\ Task(p, r).pid = p
  <2>1. Task(p, r) \in Record
    BY DEF Record
  <2>2. Task(p, r).pid = p
    BY DEF Task
  <2> HIDE DEF Record
  <2> QED BY <2>1, <2>2 DEF Written, FileState
<1>3. ASSUME NEW f \in FileState PROVE f.state # "linked" /\ f # Linked
  <2>1. f.state # "linked"
    BY DEF FileState, NoFile
  <2> QED BY <2>1 DEF Linked
<1> QED BY <1>1, <1>2, <1>3

\* A step of client p disturbs neither the monitor's place in the directory
\* nor the quiet clients.
LEMMA ClientFrame ==
    ASSUME IInv, NEW p \in Pid, Types', FilesOK', steady' = steady \ {p},
           UNCHANGED <<pc, listing, current, list>>,
           \A q \in Pid \ {p} : /\ fd'[q] = fd[q] /\ process'[q] = process[q]
                                /\ my_state'[q] = my_state[q] /\ file'[q] = file[q],
           \/ content' = content
           \/ current = p /\ content = Linked /\ content' = file[p]
    PROVE  IInv'
<1>1. CurrentOK'
  <2>1. file[p] \in FileState /\ file[p] # Linked
    BY FileStates DEF IInv, Types, TypeOK
  <2>2. file[p].state = "full" => file[p].record.pid = p
    BY DEF IInv, FilesOK
  <2>3. CASE content' = content
    BY <2>3 DEF IInv, CurrentOK
  <2>4. CASE current = p /\ content = Linked /\ content' = file[p]
    <3>1. pc # "check" /\ current # NoPid
      BY <2>4, MonitorAssumption DEF IInv, CurrentOK, NoPid
    <3> QED BY <2>1, <2>2, <2>4, <3>1 DEF IInv, CurrentOK
  <2> QED BY <2>3, <2>4
<1>2. ListOK'
  BY DEF IInv, ListOK, ListSorted
<1>3. SteadyOK'
  <2> SUFFICES ASSUME NEW q \in steady, q # p
               PROVE  /\ fd'[q] = "closed" /\ process'[q] = "client"
                      /\ file'[q] = Written(Task(q, my_state'[q]))
                      /\ pc # "idle"
                      /\ q \in listing \/ current = q
                           \/ \E k \in DOMAIN list : list[k] = Task(q, my_state'[q])
                      /\ current = q => /\ pc # "kill"
                                        /\ content' = IF pc = "check" THEN file'[q] ELSE Linked
                      /\ pc = "show" => listing = {}
    BY DEF SteadyOK
  <2>1. q \in Pid \ {p}
    BY DEF IInv, Types, TypeOK
  <2>2. /\ fd'[q] = fd[q] /\ process'[q] = process[q]
        /\ my_state'[q] = my_state[q] /\ file'[q] = file[q]
    BY <2>1
  <2>3. current = q => content' = content
    OBVIOUS
  <2> QED BY <2>2, <2>3 DEF IInv, SteadyOK
<1> QED BY <1>1, <1>2, <1>3 DEF IInv

LEMMA ClientStep ==
    ASSUME IInv, NEW p \in Pid, Client(p)
    PROVE  IInv'
<1> USE DEF clients, Moves
<1>1. Types /\ TypeOK /\ FilesOK
  BY DEF IInv, Types
<1>2. ASSUME Start(p) PROVE IInv'
  <2>1. Types'
    BY <1>1, <1>2 DEF Start, Types, TypeOK
  <2>2. FilesOK'
    <3>1. notes' = notes /\ file' = file /\ fd' = fd /\ my_state' = my_state
      BY <1>2 DEF Start
    <3>2. process[p] = "none" /\ process' = [process EXCEPT ![p] = "client"]
      BY <1>2 DEF Start
    <3> QED BY <1>1, <3>1, <3>2 DEF FilesOK, Types, TypeOK
  <2> QED BY <1>1, <1>2, <2>1, <2>2, ClientFrame DEF Start, TypeOK
<1>3. ASSUME OpenState(p) PROVE IInv'
  <2>1. PICK r \in Place : my_state' = [my_state EXCEPT ![p] = r]
    BY <1>3 DEF OpenState
  <2>2. Types'
    BY <1>1, <1>3, <2>1, FileStates DEF OpenState, Types, TypeOK
  <2>3. FilesOK'
    <3>1. Truncated.state = "empty"
      BY DEF Truncated
    <3> QED BY <1>1, <1>3, <2>1, <3>1 DEF OpenState, FilesOK, Types, TypeOK
  <2> QED BY <1>1, <1>3, <2>2, <2>3, ClientFrame DEF OpenState, Types, TypeOK
<1>4. ASSUME WriteState(p) PROVE IInv'
  <2>1. my_state[p] \in Place
    BY <1>1, <1>4 DEF WriteState, FilesOK
  <2>2. /\ Written(Task(p, my_state[p])) \in FileState
        /\ Written(Task(p, my_state[p])).record = Task(p, my_state[p])
        /\ Task(p, my_state[p]).pid = p
    BY <2>1, FileStates
  <2>3. Types'
    BY <1>1, <1>4, <2>2 DEF WriteState, Types, TypeOK
  <2>4. FilesOK'
    <3> SUFFICES ASSUME NEW q \in Pid
          PROVE /\ process[q] # "client" => notes[q] = 0
                /\ fd'[q] # "closed" => my_state[q] \in Place
                /\ fd'[q] = "unlinked" => file'[q] = NoFile
                /\ file'[q].state = "full" => file'[q].record.pid = q
                /\ (process[q] = "client" /\ notes[q] > 0 /\ fd'[q] = "closed"
                     /\ file'[q].state = "full") => file'[q].record = Task(q, my_state[q])
      BY <1>4 DEF WriteState, FilesOK
    <3>1. CASE q # p
      <4>1. fd'[q] = fd[q] /\ file'[q] = file[q]
        BY <1>1, <1>4, <3>1 DEF WriteState, TypeOK
      <4> QED BY <1>1, <4>1 DEF FilesOK
    <3>2. CASE q = p /\ fd[p] = "linked"
      <4>1. fd'[q] = "closed" /\ file'[q] = Written(Task(p, my_state[p]))
        BY <1>1, <1>4, <3>2 DEF WriteState, TypeOK
      <4> QED BY <1>4, <2>2, <3>2, <4>1 DEF WriteState
    <3>3. CASE q = p /\ fd[p] # "linked"
      <4>1. fd'[q] = "closed" /\ file'[q] = file[p] /\ fd[p] = "unlinked"
        BY <1>1, <1>4, <3>3 DEF WriteState, TypeOK
      <4>2. file'[q] = NoFile
        BY <1>1, <4>1 DEF FilesOK
      <4> QED BY <1>4, <3>3, <4>1, <4>2 DEF NoFile, WriteState
    <3> QED BY <3>1, <3>2, <3>3
  <2> QED BY <1>1, <1>4, <2>3, <2>4, ClientFrame DEF WriteState, TypeOK
<1>5. ASSUME Exit(p) PROVE IInv'
  <2>1. Types'
    <3>1. 0 \in Nat
      OBVIOUS
    <3> QED BY <1>1, <1>5, <3>1, FileStates DEF Exit, Ends, Detach, Types, TypeOK
  <2>2. FilesOK'
    <3>1. NoFile.state = "absent"
      BY DEF NoFile
    <3> QED BY <1>1, <1>5, <3>1 DEF Exit, Ends, Detach, FilesOK, Types, TypeOK
  <2>3. content' = content \/ (current = p /\ content = Linked /\ content' = file[p])
    BY <1>5 DEF Exit, Detach
  <2> QED BY <1>1, <1>5, <2>1, <2>2, <2>3, ClientFrame DEF Exit, Ends, Detach, Types, TypeOK
<1>6. ASSUME Killed(p) PROVE IInv'
  <2>1. Types'
    BY <1>1, <1>6 DEF Killed, Ends, Types, TypeOK
  <2>2. FilesOK'
    BY <1>1, <1>6 DEF Killed, Ends, FilesOK, Types, TypeOK
  <2> QED BY <1>1, <1>6, <2>1, <2>2, ClientFrame DEF Killed, Ends, Types, TypeOK
<1>7. ASSUME OtherProcess(p) PROVE IInv'
  <2>1. Types'
    BY <1>1, <1>7 DEF OtherProcess, Types, TypeOK
  <2>2. FilesOK'
    BY <1>1, <1>7 DEF OtherProcess, FilesOK, Types, TypeOK
  <2> QED BY <1>1, <1>7, <2>1, <2>2, ClientFrame DEF OtherProcess, TypeOK
<1>8. ASSUME Age(p) PROVE IInv'
  <2> DEFINE f == [file[p] EXCEPT !.old = TRUE]
  <2>1. file[p] \in FileState /\ file[p].state # "absent"
    BY <1>1, <1>8 DEF Age, Exists, TypeOK
  <2>2. /\ f \in FileState /\ f.state = file[p].state
        /\ f.state = "full" => f.record = file[p].record
    <3>1. file[p] \in [state : {"empty"}, old : BOOLEAN]
            \/ file[p] \in [state : {"full"}, old : BOOLEAN, record : Record]
      <4> HIDE DEF Record
      <4> QED BY <2>1 DEF FileState, NoFile
    <3>2. CASE file[p] \in [state : {"empty"}, old : BOOLEAN]
      <4>1. f \in [state : {"empty"}, old : BOOLEAN] /\ f.state = file[p].state
        BY <3>2
      <4>2. f.state # "full"
        BY <4>1
      <4> QED BY <4>1, <4>2 DEF FileState
    <3>3. CASE file[p] \in [state : {"full"}, old : BOOLEAN, record : Record]
      <4> HIDE DEF Record
      <4>1. /\ f \in [state : {"full"}, old : BOOLEAN, record : Record]
            /\ f.state = file[p].state /\ f.record = file[p].record
        BY <3>3
      <4> QED BY <4>1 DEF FileState
    <3> QED BY <3>1, <3>2, <3>3
  <2> HIDE DEF f
  <2>3. file' = [file EXCEPT ![p] = f] /\ UNCHANGED <<process, notes, my_state, fd>>
    BY <1>8 DEF Age, f
  <2>4. Types'
    BY <1>1, <1>8, <2>2, <2>3 DEF Age, Types, TypeOK
  <2>5. FilesOK'
    <3>1. fd[p] # "unlinked"
      BY <1>1, <2>1 DEF FilesOK, NoFile
    <3> QED BY <1>1, <2>2, <2>3, <3>1 DEF FilesOK, Types, TypeOK
  <2> QED BY <1>1, <1>8, <2>3, <2>4, <2>5, ClientFrame DEF Age, TypeOK
<1> QED BY <1>2, <1>3, <1>4, <1>5, <1>6, <1>7, <1>8 DEF Client
-----------------------------------------------------------------------------
(* Steps of the monitor *)

LEMMA PollStep ==
    ASSUME IInv, Poll
    PROVE  IInv'
<1> USE DEF clients
<1>1. Types /\ TypeOK /\ FilesOK /\ CurrentOK /\ ListOK /\ SteadyOK
  BY DEF IInv, Types
<1>2. NoPid \notin Pid
  BY MonitorAssumption DEF NoPid
<1> DEFINE quiet(q) == Task(q, my_state[q])
<1>2a. \A q \in steady : /\ q \in Pid /\ file[q] = Written(quiet(q))
                          /\ file[q].state = "full" /\ ~file[q].old /\ file[q].record = quiet(q)
  <2> SUFFICES ASSUME NEW q \in steady
               PROVE  /\ q \in Pid /\ file[q] = Written(quiet(q))
                      /\ file[q].state = "full" /\ ~file[q].old /\ file[q].record = quiet(q)
    OBVIOUS
  <2>1. q \in Pid /\ file[q] = Written(quiet(q))
    BY <1>1 DEF TypeOK, SteadyOK
  <2> HIDE DEF quiet
  <2> QED BY <2>1 DEF Written
<1>3. ASSUME Opendir PROVE IInv'
  <2>1. Types' /\ FilesOK' /\ CurrentOK'
    BY <1>1, <1>3 DEF Opendir, Types, TypeOK, FilesOK, CurrentOK, Busy
  <2>2. list = <<>> /\ list' = list /\ current = NoPid /\ current' = current
    BY <1>1, <1>3 DEF Opendir, ListOK, CurrentOK, Busy
  <2>3. ListOK'
    BY <1>1, <1>2, <1>3, <2>2 DEF Opendir, ListOK, ListSorted
  <2>4. SteadyOK'
    <3> SUFFICES ASSUME NEW p \in steady'
                 PROVE  /\ fd[p] = "closed" /\ process[p] = "client"
                        /\ file[p] = Written(Task(p, my_state[p]))
                        /\ p \in listing' /\ p \in Pid
      BY <1>2, <1>3, <2>2 DEF Opendir, SteadyOK
    <3>1. /\ p \in Pid /\ process[p] = "client" /\ notes[p] > 0 /\ fd[p] = "closed"
          /\ file[p].state = "full" /\ ~file[p].old
      BY <1>3 DEF Opendir
    <3>2. file[p].record = Task(p, my_state[p])
      BY <1>1, <3>1 DEF FilesOK
    <3>3. file[p] \in [state : {"full"}, old : BOOLEAN, record : Record]
      BY <1>1, <3>1 DEF TypeOK, FileState, NoFile
    <3>4. file[p] = [state |-> file[p].state, old |-> file[p].old, record |-> file[p].record]
            /\ file[p].old = FALSE
      <4> HIDE DEF Record
      <4> QED BY <3>1, <3>3
    <3>5. p \in listing'
      BY <1>3, <3>1 DEF Opendir, Exists
    <3> QED BY <3>1, <3>2, <3>4, <3>5 DEF Written
  <2> QED BY <2>1, <2>3, <2>4 DEF IInv
<1>4. ASSUME NEW p \in Pid, OpenFile(p) PROVE IInv'
  <2>1. current = NoPid /\ content = Linked
    BY <1>1, <1>4 DEF OpenFile, CurrentOK, Busy
  <2>2. Types' /\ FilesOK'
    BY <1>1, <1>4 DEF OpenFile, Types, TypeOK, FilesOK, Busy
  <2>3. CurrentOK'
    BY <1>1, <1>2, <1>4, <2>1 DEF OpenFile, CurrentOK, Busy
  <2>4. ListOK'
    BY <1>1, <1>2, <1>4, <2>1 DEF OpenFile, ListOK, ListSorted
  <2>5. SteadyOK'
    <3>1. ASSUME NEW q \in steady PROVE file[q].state = "full" /\ q \in Pid
      BY <1>2a, <3>1
    <3> QED BY <1>1, <1>2, <1>4, <2>1, <3>1 DEF OpenFile, SteadyOK, Exists
  <2> QED BY <2>2, <2>3, <2>4, <2>5 DEF IInv
<1>5. ASSUME Fstat PROVE IInv'
  <2>1. Types' /\ FilesOK' /\ CurrentOK' /\ ListOK'
    BY <1>1, <1>5 DEF Fstat, Types, TypeOK, FilesOK, CurrentOK, ListOK, ListSorted, Busy
  <2>2. SteadyOK'
    <3>1. ASSUME current \in steady PROVE ~TooOld
      BY <1>1, <1>5, <1>2a, <3>1 DEF Fstat, SteadyOK, TooOld, Held
    <3> QED BY <1>1, <1>5, <3>1 DEF Fstat, SteadyOK
  <2> QED BY <2>1, <2>2 DEF IInv
<1>6. ASSUME UnlinkOld PROVE IInv'
  <2>1. current \in Pid /\ pc = "kill"
    BY <1>1, <1>6 DEF UnlinkOld, CurrentOK, Busy, TypeOK
  <2>2. Types'
    BY <1>1, <1>6, <2>1, FileStates DEF UnlinkOld, CloseFile, Types, TypeOK, Busy
  <2>3. FilesOK'
    <3>1. NoFile.state = "absent"
      BY DEF NoFile
    <3> QED BY <1>1, <1>6, <2>1, <3>1 DEF UnlinkOld, CloseFile, FilesOK, TypeOK
  <2>4. CurrentOK' /\ ListOK'
    <3>1. listing \subseteq Pid /\ \A k \in DOMAIN list : list[k].pid # NoPid
      BY <1>1, <1>2, RecordType DEF TypeOK
    <3> QED BY <1>1, <1>2, <1>6, <3>1 DEF UnlinkOld, CloseFile, CurrentOK, ListOK, ListSorted, Busy
  <2>5. SteadyOK'
    <3> SUFFICES ASSUME NEW q \in steady, q # current
                 PROVE  /\ fd'[q] = "closed" /\ process[q] = "client"
                        /\ file'[q] = Written(Task(q, my_state[q]))
                        /\ q \in listing \/ \E k \in DOMAIN list : list[k] = Task(q, my_state[q])
                        /\ q # NoPid
      BY <1>6 DEF UnlinkOld, CloseFile, SteadyOK
    <3>1. fd'[q] = fd[q] /\ file'[q] = file[q] /\ q \in Pid
      BY <1>1, <1>6 DEF UnlinkOld, TypeOK
    <3> QED BY <1>1, <1>2, <3>1 DEF SteadyOK
  <2> QED BY <2>2, <2>3, <2>4, <2>5 DEF IInv
<1>7. ASSUME ReadEmpty PROVE IInv'
  <2>1. Types' /\ FilesOK'
    BY <1>1, <1>7 DEF ReadEmpty, CloseFile, Types, TypeOK, FilesOK
  <2>2. CurrentOK' /\ ListOK'
    <3>1. listing \subseteq Pid /\ \A k \in DOMAIN list : list[k].pid # NoPid
      BY <1>1, <1>2, RecordType DEF TypeOK
    <3> QED BY <1>1, <1>2, <1>7, <3>1 DEF ReadEmpty, CloseFile, CurrentOK, ListOK, ListSorted, Busy
  <2>3. SteadyOK'
    <3>1. current \notin steady
      BY <1>1, <1>7, <1>2a DEF ReadEmpty, SteadyOK, Held
    <3>2. NoPid \notin steady
      BY <1>1, <1>2 DEF TypeOK
    <3> QED BY <1>1, <1>7, <3>1, <3>2 DEF ReadEmpty, CloseFile, SteadyOK
  <2> QED BY <2>1, <2>2, <2>3 DEF IInv
<1>8. ASSUME ReadState PROVE IInv'
  <2>1. Types' /\ FilesOK' /\ ListOK'
    BY <1>1, <1>8 DEF ReadState, Types, TypeOK, FilesOK, ListOK, ListSorted, Busy
  <2>2. current \in Pid /\ pc = "read"
    BY <1>1, <1>8 DEF ReadState, CurrentOK, Busy, TypeOK
  <2>3. Held \in FileState /\ Held.state = "full" /\ Held # Linked /\ Held.record.pid = current
    <3>1. Held \in FileState
      BY <1>1, <2>2 DEF Held, CurrentOK, TypeOK
    <3> QED BY <1>1, <1>8, <2>2, <3>1, FileStates DEF ReadState, Held, CurrentOK, FilesOK
  <2>4. CurrentOK'
    BY <1>1, <1>8, <2>2, <2>3 DEF ReadState, CurrentOK, Busy
  <2>5. SteadyOK'
    BY <1>1, <1>8 DEF ReadState, SteadyOK, Held
  <2> QED BY <2>1, <2>4, <2>5 DEF IInv
<1>9. ASSUME CheckOrphans PROVE IInv'
  <2> DEFINE new == content.record
  <2>1. current \in Pid /\ pc = "check" /\ new \in Record /\ new.pid = current
    <3>1. current \in Pid /\ pc = "check" /\ new.pid = current
      BY <1>1, <1>9 DEF CheckOrphans, CurrentOK, Busy, TypeOK
    <3>2. content \in FileState /\ content.state = "full"
      BY <1>1, <3>1 DEF CurrentOK
    <3>3. new \in Record
      <4> HIDE DEF Record
      <4> QED BY <3>2 DEF FileState, NoFile
    <3> QED BY <3>1, <3>3
  <2>2. Sorted(list) /\ \A j \in DOMAIN list : list[j].pid # new.pid
    BY <1>1, <2>1 DEF ListOK, ListSorted, Sorted
  <2>3. /\ list' \in Seq(Record) /\ Sorted(list')
        /\ \A j \in DOMAIN list' : list'[j] = new \/ \E i \in DOMAIN list : list'[j] = list[i]
        /\ \A i \in DOMAIN list : \E j \in DOMAIN list' : list'[j] = list[i]
    <3>1. CASE process[new.pid] # "none"
      <4>1. list' = InsertSorted(list, new)
        BY <1>9, <3>1 DEF CheckOrphans
      <4> HIDE DEF new
      <4>2. list \in Seq(Record)
        BY <1>1 DEF TypeOK
      <4> QED BY <2>1, <2>2, <4>1, <4>2, InsertKeeps
    <3>2. CASE process[new.pid] = "none"
      <4>1. list' = list
        BY <1>9, <3>2 DEF CheckOrphans
      <4> QED BY <1>1, <2>2, <4>1 DEF TypeOK
    <3> QED BY <3>1, <3>2
  <2>4. current \in steady => \E j \in DOMAIN list' : list'[j] = Task(current, my_state[current])
    <3> SUFFICES ASSUME current \in steady
                 PROVE  \E j \in DOMAIN list' : list'[j] = Task(current, my_state[current])
      OBVIOUS
    <3>1. process[current] = "client" /\ new = Task(current, my_state[current])
      BY <1>1, <1>2a, <2>1 DEF SteadyOK
    <3>2. list' = InsertSorted(list, new)
      BY <1>9, <2>1, <3>1 DEF CheckOrphans
    <3>3. \E j \in DOMAIN list' : list'[j] = new
      <4> HIDE DEF new
      <4>1. list \in Seq(Record)
        BY <1>1 DEF TypeOK
      <4> QED BY <2>1, <2>2, <3>2, <4>1, InsertKeeps
    <3> QED BY <3>1, <3>3
  <2>5. Types' /\ FilesOK'
    BY <1>1, <1>9, <2>3 DEF CheckOrphans, CloseFile, Types, TypeOK, FilesOK
  <2>6. CurrentOK'
    BY <1>1, <1>9 DEF CheckOrphans, CloseFile, CurrentOK, Busy
  <2>7. ListOK'
    <3>1. ASSUME NEW k \in DOMAIN list' PROVE list'[k].pid \notin listing \cup {NoPid}
      <4>1. list'[k] = new \/ \E i \in DOMAIN list : list'[k] = list[i]
        BY <2>3
      <4>2. new.pid \notin listing \cup {NoPid}
        BY <1>1, <1>2, <2>1 DEF ListOK
      <4>3. \A i \in DOMAIN list : list[i].pid \notin listing \cup {NoPid}
        BY <1>1, <1>2, RecordType DEF ListOK, TypeOK
      <4> QED BY <4>1, <4>2, <4>3
    <3>2. ListSorted'
      BY <2>3 DEF ListSorted, Sorted
    <3>3. NoPid \notin listing
      BY <1>1, <1>2 DEF TypeOK
    <3> QED BY <1>9, <3>1, <3>2, <3>3 DEF CheckOrphans, CloseFile, ListOK
  <2>8. SteadyOK'
    <3> SUFFICES ASSUME NEW q \in steady
                 PROVE  /\ fd[q] = "closed" /\ process[q] = "client"
                        /\ file[q] = Written(Task(q, my_state[q]))
                        /\ q \in listing \/ \E k \in DOMAIN list' : list'[k] = Task(q, my_state[q])
                        /\ q # NoPid
      BY <1>9 DEF CheckOrphans, CloseFile, SteadyOK
    <3>1. q # NoPid
      BY <1>1, <1>2 DEF TypeOK
    <3>2. CASE q = current
      BY <1>1, <2>4, <3>1, <3>2 DEF SteadyOK
    <3>3. CASE q # current
      <4>1. q \in listing \/ \E k \in DOMAIN list : list[k] = Task(q, my_state[q])
        BY <1>1, <3>3 DEF SteadyOK
      <4>2. q \in listing \/ \E k \in DOMAIN list' : list'[k] = Task(q, my_state[q])
        BY <2>3, <4>1
      <4> QED BY <1>1, <3>1, <4>2 DEF SteadyOK
    <3> QED BY <3>2, <3>3
  <2> QED BY <2>5, <2>6, <2>7, <2>8 DEF IInv
<1>10. ASSUME Closedir PROVE IInv'
  BY <1>1, <1>10 DEF Closedir, IInv, Types, TypeOK, FilesOK, CurrentOK, ListOK, ListSorted, SteadyOK, Busy
<1>11. ASSUME Show PROVE IInv'
  <2>1. Types' /\ FilesOK' /\ CurrentOK' /\ SteadyOK'
    BY <1>1, <1>11 DEF Show, Types, TypeOK, FilesOK, CurrentOK, SteadyOK, Busy
  <2>2. ListOK'
    BY <1>1, <1>11 DEF Show, ListOK, ListSorted
  <2> QED BY <2>1, <2>2 DEF IInv
<1> QED BY <1>3, <1>4, <1>5, <1>6, <1>7, <1>8, <1>9, <1>10, <1>11 DEF Poll

-----------------------------------------------------------------------------
(* Theorems *)

\* The inductive invariant of the state files and of the poll.
THEOREM Invariant == Spec => []IInv
<1>1. Init => IInv
  <2> SUFFICES ASSUME Init PROVE IInv
    OBVIOUS
  <2>1. Types
    BY FileStates, MonitorAssumption DEF Init, Types, TypeOK, Busy
  <2>2. FilesOK
    BY DEF Init, FilesOK, NoFile
  <2>3. CurrentOK /\ ListOK /\ SteadyOK
    BY DEF Init, CurrentOK, ListOK, ListSorted, SteadyOK, Busy
  <2> QED BY <2>1, <2>2, <2>3 DEF IInv
<1>2. IInv /\ [Next]_vars => IInv'
  <2> SUFFICES ASSUME IInv, [Next]_vars PROVE IInv'
    OBVIOUS
  <2>1. CASE UNCHANGED vars
    BY <2>1 DEF vars, clients, IInv, Types, TypeOK, FilesOK, CurrentOK, ListOK, ListSorted, SteadyOK
  <2> QED BY <2>1, ClientStep, PollStep DEF Next
<1> QED BY <1>1, <1>2, PTL DEF Spec

\* The list a monitor shows is sorted by host and slot and names no process
\* twice, in whatever order the files were read.
THEOREM ListIsSorted == Spec => []ListSorted
<1>1. IInv => ListSorted
  BY DEF IInv, ListOK
<1> QED BY <1>1, Invariant, PTL

\* A client that was quiet during the poll is shown with what it last noted,
\* whatever the other clients did to their files meanwhile.
THEOREM NobodyIsMissed == Spec => []NobodyMissed
<1>1. IInv => NobodyMissed
  <2> SUFFICES ASSUME IInv, pc = "show", NEW p \in steady
               PROVE  \E k \in DOMAIN list : list[k] = Task(p, my_state[p])
    BY DEF NobodyMissed
  <2>1. current = NoPid /\ listing = {}
    BY DEF IInv, CurrentOK, SteadyOK, Busy
  <2>2. p # NoPid
    BY MonitorAssumption DEF IInv, Types, TypeOK, NoPid
  <2> QED BY <2>1, <2>2 DEF IInv, SteadyOK
<1> QED BY <1>1, Invariant, PTL
=============================================================================
