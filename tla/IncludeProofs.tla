---------------------------- MODULE IncludeProofs ----------------------------
(***************************************************************************)
(* Proofs about IncludeAnalyzer for any source trees and commands: the     *)
(* graph of nodes is well formed, the answers contain no file that nothing *)
(* could include (ClosureTight) and, for tame programs, every file that    *)
(* the compiler needs (ClosureComplete).                                   *)
(*                                                                         *)
(* The invariants speak of what a node stands for with the help of a       *)
(* function h on the nodes that the program does not have:                 *)
(*   h[n].nx    the name of #include_next whose dummy n is, as a set;      *)
(*   h[n].syms  the symbols used in or below n;                            *)
(*   h[n].good  the definitions that n and the nodes below it account for. *)
(***************************************************************************)
EXTENDS IncludeAnalyzer, FiniteSetTheorems, WellFoundedInduction, TLAPS

-----------------------------------------------------------------------------
(* Types *)

AllModes == Mode \cup {"EXPR", "SUPPORT"}
Items == [mode : AllModes, fp : Name \cup File \cup Symbol]
FrameType == [node : Nat, todo : Seq(Items), dummy : BOOLEAN]
NodeType == [real : File \cup {None}, children : SUBSET Nat, support_record : Nat]
RecordType == [support : SUBSET Symbol, valid : BOOLEAN]

Real(n) == nodes[n].real
Text(n) == program[Real(n)]

\* An include that an activation for node n has to look up.
Has(n, x) ==
    \/ x.mode = "RESOLVED" /\ x.fp \in DOMAIN program
    \/ /\ Real(n) # None
       /\ \/ x.mode = "QUOTE" /\ x.fp \in Elements(Text(n).quote)
          \/ x.mode = "ANGLE" /\ x.fp \in Elements(Text(n).angle)
          \/ x.mode = "NEXT" /\ x.fp \in Elements(Text(n).next)
          \/ x.mode \in {"EXPR", "SUPPORT"} /\ x.fp \in Elements(Text(n).expr)

CachesOK ==
    /\ program \in Programs
    /\ file_cache \subseteq DOMAIN program
    /\ symbol_table \subseteq AllDefinitions(program)
    /\ \A k \in DOMAIN node_cache : node_cache[k] \in DOMAIN nodes
    /\ nodes \in Seq(NodeType)
    /\ \A n \in DOMAIN nodes : /\ Real(n) \in DOMAIN program \cup {None}
                               /\ nodes[n].children \subseteq DOMAIN nodes
                               /\ nodes[n].support_record \in DOMAIN records
    /\ records \in Seq(RecordType)

StackOK ==
    /\ stack \in Seq(FrameType)
    /\ \A fr \in Elements(stack) : fr.node \in DOMAIN nodes /\ \A x \in Elements(fr.todo) : Has(fr.node, x)

CallItem == [mode |-> call.mode, fp |-> call.fp]
CallDir(n, mode) == IF mode = "RESOLVED" THEN NoDir ELSE Real(n).dir

CallOK ==
    \/ call = NoCall
    \/ call.op = "return" /\ call.node \in DOMAIN nodes
    \/ /\ call.op = "call" /\ call.mode \in Mode
       /\ IF stack = <<>> THEN call.mode = "RESOLVED" /\ call.fp \in DOMAIN program /\ call.dir = NoDir
          ELSE Has(Top.node, CallItem) /\ call.dir = CallDir(Top.node, call.mode)

\* Which root of the command line is being analyzed.
Current == Len(command.roots) - Len(roots)

RequestOK ==
    /\ closure \subseteq File
    /\ answer \in {"none", "not_covered", "closure"}
    /\ requests \in 0 .. MaxRequests /\ partial \in BOOLEAN
    /\ ~Idle \/ answer = "closure" =>
         /\ command \in Commands
         /\ \A i \in DOMAIN command.roots : command.roots[i] \in DOMAIN program
         /\ roots \in Seq(File) /\ Len(roots) < Len(command.roots)
         /\ \A j \in DOMAIN roots : roots[j] = command.roots[Current + j]
    /\ Idle /\ answer = "closure" => roots = <<>>
    /\ ~Idle => answer = "none"

Types == CachesOK /\ StackOK /\ CallOK /\ RequestOK

-----------------------------------------------------------------------------
(* What a node stands for: a is its h[n], p the source tree, t the symbol table *)

KeyReal(p, k) == IF k[1] = "REAL" THEN k[2] ELSE Resolvant(p, k[1], k[2], k[3])
KeyNext(k) == IF k[1] = "NEXT" THEN {k[2]} ELSE {}

\* The key under which file f looks for include x.
KeyFrom(f, x) == Key(x.mode, x.fp, IF x.mode = "RESOLVED" THEN NoDir ELSE f.dir)

Answers(p, a, k) == a.real = KeyReal(p, k) /\ (a.real = None => a.nx = KeyNext(k))

Named(p, names) == {f \in DOMAIN p : f.name \in names}

\* The files that the children of a may stand for.
Allowed(p, t, a) == IF a.real = None THEN Named(p, a.nx) ELSE MayInclude(p, a.real, t)

ChildOK(p, t, a, b) ==
    IF b.real = None THEN a.real # None /\ b.nx \subseteq Elements(p[a.real].next)
    ELSE b.real \in Allowed(p, t, a)

EdgesOK(h) ==
    \A n \in DOMAIN nodes : \A c \in nodes[n].children : ChildOK(program, symbol_table, h[n], h[c])

KeysOK(h) ==
    \A k \in DOMAIN node_cache :
        k[1] \in Mode \cup {"REAL"} /\ Answers(program, h[node_cache[k]], k)

FramesOK(h) ==
    /\ stack # <<>> => h[stack[1].node].real = command.roots[Current]
    /\ \A fr \in Elements(stack) :
         /\ fr.dummy => h[fr.node].real = None
         /\ \A x \in Elements(fr.todo) :
              x.mode = "RESOLVED" => x.fp \in Allowed(program, symbol_table, h[fr.node])
    /\ \A i \in DOMAIN stack :
         i > 1 => ChildOK(program, symbol_table, h[stack[i - 1].node], h[stack[i].node])

\* What is returned, or will be, to the activation on top.
CallsOK(h) ==
    /\ call.op = "call" =>
         IF stack = <<>> THEN call.fp = command.roots[Current]
         ELSE call.mode = "RESOLVED" => call.fp \in Allowed(program, symbol_table, h[Top.node])
    /\ call.op = "return" =>
         IF stack = <<>> THEN h[call.node].real = command.roots[Current]
         ELSE ChildOK(program, symbol_table, h[Top.node], h[call.node])

Graph(h) ==
    /\ DOMAIN h = DOMAIN nodes /\ \A n \in DOMAIN nodes : h[n].real = Real(n)
    /\ EdgesOK(h) /\ KeysOK(h) /\ FramesOK(h) /\ CallsOK(h)

TightOK == ~Idle \/ answer = "closure" => closure \subseteq Possible

-----------------------------------------------------------------------------
(* What a node accounts for, in a tame program *)

Dep(p, a) == a.real # None /\ Depends(p, a.real)
OnStack(n) == \E fr \in Elements(stack) : fr.node = n
Support(n) == records[nodes[n].support_record].support
NextNames(p) == UNION {Elements(p[f].next) : f \in DOMAIN p}

ParsedOK ==
    /\ \A n \in DOMAIN nodes : Real(n) # None => Real(n) \in file_cache
    /\ \A q \in file_cache : program[q].define \subseteq symbol_table
    /\ ~Idle => /\ command.d_opts \subseteq symbol_table
                /\ \A j \in 1 .. Current - 1 : command.roots[j] \in file_cache

\* The files of the activations above another are below its file.
Under(p, f, a) ==
    IF a.real = None THEN Named(p, a.nx) \subseteq Below(p, f) ELSE a.real \in Below(p, f)
ChainOK(h) ==
    \A i, j \in DOMAIN stack : (i < j /\ h[stack[i].node].real # None) =>
        Under(program, h[stack[i].node].real, h[stack[j].node])

GhostOK(h) ==
    \A n \in DOMAIN nodes :
        /\ h[n].nx \subseteq NextNames(program)
        /\ h[n].good \subseteq Definition
        /\ h[n].syms \subseteq Support(n)
        /\ ~Dep(program, h[n]) => h[n].good = Definition /\ h[n].syms = {}
        /\ \A c \in nodes[n].children :
             /\ h[c].syms \subseteq h[n].syms
             /\ h[n].good \subseteq h[c].good
             /\ Dep(program, h[c]) => ~OnStack(c)

\* The definitions that a new node for f takes into account.
Base(p, d_opts, cache, f) == d_opts \cup UNION {p[q].define : q \in cache \ Below(p, f)}

FreshOK(h) ==
    /\ \A k \in DOMAIN node_cache :
         (Dep(program, h[node_cache[k]]) /\ Valid(node_cache[k])) =>
             Base(program, command.d_opts, file_cache, h[node_cache[k]].real) \subseteq h[node_cache[k]].good
    /\ \A fr \in Elements(stack) : Dep(program, h[fr.node]) =>
         h[fr.node].good = Base(program, command.d_opts, file_cache, h[fr.node].real)
    /\ (call.op = "return" /\ Dep(program, h[call.node])) =>
         Base(program, command.d_opts, file_cache, h[call.node].real) \subseteq h[call.node].good

\* The includes that the children of a node have to stand for.
Due(p, a) ==
    IF a.real = None
    THEN {[mode |-> "RESOLVED", fp |-> f] : f \in {g \in Named(p, a.nx) : g.dir \in Elements(quote_dirs)}}
    ELSE {[mode |-> "QUOTE", fp |-> x] : x \in Elements(p[a.real].quote)}
         \cup {[mode |-> "ANGLE", fp |-> x] : x \in Elements(p[a.real].angle)}
         \cup {[mode |-> "NEXT", fp |-> x] : x \in Elements(p[a.real].next)}
         \cup {[mode |-> "RESOLVED", fp |-> f] : f \in
                 UNION {ResolveExpr(p, a.good, s, a.real.dir) : s \in Elements(p[a.real].expr)}}

\* x is still to be looked up, in the list todo.
ToDo(p, a, todo, x) ==
    \E y \in Elements(todo) :
      \/ y = x
      \/ /\ y.mode = "EXPR" /\ x.mode = "RESOLVED"
         /\ x.fp \in ResolveExpr(p, a.good, y.fp, a.real.dir)

\* Symbol s is, or will be, among those used by a.
Used(a, todo, s) ==
    s \in a.syms \/ \E y \in Elements(todo) : y.mode \in {"EXPR", "SUPPORT"} /\ y.fp = s

\* Of the nodes S one stands for include x of file f.
Got(p, h, f, S, x) == \E c \in S : Answers(p, h[c], KeyFrom(f, x))

\* Whatever is due for node n is among the nodes S, in the list todo or being
\* looked up.
Covered(p, h, n, S, asked, todo) ==
    /\ \A x \in Due(p, h[n]) : Got(p, h, h[n].real, S, x) \/ ToDo(p, h[n], todo, x) \/ x \in asked
    /\ h[n].real # None => \A s \in Elements(p[h[n].real].expr) : Used(h[n], todo, s)

\* What activation i is waiting for: a node or the answer to its call.
Coming(i) ==
    IF i < Len(stack) THEN {stack[i + 1].node}
    ELSE IF call.op = "return" THEN {call.node} ELSE {}
Asked(i) == IF i = Len(stack) /\ call.op = "call" THEN {CallItem} ELSE {}

PaidOK(h) ==
    /\ \A n \in DOMAIN nodes : ~OnStack(n) => Covered(program, h, n, nodes[n].children, {}, <<>>)
    /\ \A i \in DOMAIN stack :
         Covered(program, h, stack[i].node, nodes[stack[i].node].children \cup Coming(i), Asked(i), stack[i].todo)

\* The keys are those of #includes, and one alone leads to a file which depends on
\* computed includes; no other shares its record.
KeysUnique ==
    \A k \in DOMAIN node_cache :
        /\ k[1] = "RESOLVED" => k = Key("RESOLVED", k[2], NoDir)
        /\ k[1] = "REAL" => k = RealKey(k[2])
        /\ k[1] = "REAL" /\ Depends(program, k[2]) => \E l \in Keys(program, k[2]) : Known(l)
        /\ k[1] \in {"QUOTE", "ANGLE"} /\ KeyReal(program, k) # None => k \in Keys(program, KeyReal(program, k))
RecordsUnique(h) ==
    \A k, l \in DOMAIN node_cache :
        (/\ Dep(program, h[node_cache[k]])
         /\ nodes[node_cache[k]].support_record = nodes[node_cache[l]].support_record) =>
           \/ k = l
           \/ k[1] # "RESOLVED" /\ l[1] # "RESOLVED" /\ KeyReal(program, k) = KeyReal(program, l)
UniqueOK(h) == KeysUnique /\ RecordsUnique(h)

Full(h) == ParsedOK /\ ChainOK(h) /\ GhostOK(h) /\ FreshOK(h) /\ PaidOK(h) /\ UniqueOK(h)

CompleteOK ==
    /\ ~Idle /\ Tame /\ ~partial => \A i \in 1 .. Current - 1 : NeededFor(i) \subseteq closure
    /\ answer = "closure" /\ Tame /\ ~partial => Needed \subseteq closure

-----------------------------------------------------------------------------
(* Reachability *)

\* The induction that the proofs use: a set of numbers has a least element.
LEMMA LeastNat ==
    ASSUME NEW T, T \subseteq Nat, T # {}
    PROVE  \E m \in T : \A k \in T : m <= k
  <1>1. PICK m \in T : \A k \in T : ~(<<k, m>> \in OpToRel(<, Nat))
    BY NatLessThanWellFounded, WFMin
  <1>2. \A k \in T : ~(k < m)
    BY <1>1 DEF OpToRel
  <1> QED
    BY <1>2

\* Induction up to a bound.
LEMMA Induction ==
    ASSUME NEW N \in Nat, NEW T, 0 \in T,
           \A i \in 0 .. N - 1 : i \in T => i + 1 \in T
    PROVE  \A i \in 0 .. N : i \in T
  <1>1. SUFFICES ASSUME NEW i \in 0 .. N, i \notin T PROVE FALSE
    OBVIOUS
  <1> DEFINE U == {k \in 0 .. N : k \notin T}
  <1>2. PICK m \in U : \A k \in U : m <= k
    <2>1. U \subseteq Nat /\ U # {}
      BY <1>1
    <2> HIDE DEF U
    <2> QED
      BY <2>1, LeastNat
  <1>3. m # 0
    BY <1>2
  <1>4. m - 1 \in 0 .. N - 1 /\ (m - 1) + 1 = m
    BY <1>2, <1>3
  <1>5. m - 1 \in T
    BY <1>2, <1>4
  <1> QED
    BY <1>2, <1>4, <1>5

\* One step along the edges.
Step(r, succ) == r \cup UNION {succ[x] : x \in r}
IsClosed(X, succ) == \A x \in X \cap DOMAIN succ : succ[x] \subseteq X

IsReach(f, n, start, succ) ==
    /\ f[0] = start
    /\ \A i \in 0 .. n - 1 : f[i + 1] = Step(f[i], succ)

\* The recursive definition defines what it says.
LEMMA ReachExists ==
    ASSUME NEW start, NEW succ, NEW n \in Nat
    PROVE  \E f : DOMAIN f = 0 .. n /\ IsReach(f, n, start, succ)
  <1> DEFINE T == {m \in Nat : \E f : DOMAIN f = 0 .. m /\ IsReach(f, m, start, succ)}
  <1>1. 0 \in T
    <2> DEFINE f == [i \in 0 .. 0 |-> start]
    <2>1. DOMAIN f = 0 .. 0 /\ f[0] = start /\ 0 .. 0 - 1 = {}
      OBVIOUS
    <2> HIDE DEF f
    <2>2. IsReach(f, 0, start, succ)
      BY <2>1 DEF IsReach
    <2> QED
      BY <2>1, <2>2
  <1>2. ASSUME NEW m \in Nat, m \in T PROVE m + 1 \in T
    <2>1. PICK f : DOMAIN f = 0 .. m /\ IsReach(f, m, start, succ)
      BY <1>2
    <2> DEFINE g == [i \in 0 .. m + 1 |-> IF i = m + 1 THEN Step(f[m], succ) ELSE f[i]]
    <2>2. DOMAIN g = 0 .. m + 1
      OBVIOUS
    <2>3. g[0] = start
      BY <2>1 DEF IsReach
    <2>4. ASSUME NEW i \in 0 .. (m + 1) - 1 PROVE g[i + 1] = Step(g[i], succ)
      <3>1. CASE i = m
        BY <3>1
      <3>2. CASE i # m
        <4>1. i \in 0 .. m - 1 /\ i + 1 # m + 1 /\ i + 1 \in 0 .. m + 1 /\ i # m + 1 /\ i \in 0 .. m + 1
          BY <3>2
        <4>2. g[i + 1] = f[i + 1] /\ g[i] = f[i]
          BY <4>1
        <4>3. f[i + 1] = Step(f[i], succ)
          BY <2>1, <4>1 DEF IsReach
        <4> QED
          BY <4>2, <4>3
      <3> QED
        BY <3>1, <3>2
    <2> HIDE DEF g
    <2>5. IsReach(g, m + 1, start, succ)
      BY <2>3, <2>4 DEF IsReach
    <2> QED
      BY <2>2, <2>5
  <1>3. \A i \in 0 .. n - 1 : i \in T => i + 1 \in T
    BY <1>2
  <1>4. n \in T
    <2> HIDE DEF T
    <2>1. \A i \in 0 .. n : i \in T
      BY <1>1, <1>3, Induction
    <2> QED
      BY <2>1
  <1> QED
    BY <1>4

LEMMA ClosureReach ==
    ASSUME NEW start, NEW succ, Cardinality(DOMAIN succ) \in Nat
    PROVE  \E f : /\ IsReach(f, Cardinality(DOMAIN succ), start, succ)
                  /\ Closure(start, succ) = f[Cardinality(DOMAIN succ)]
  <1> DEFINE n == Cardinality(DOMAIN succ)
             Is(g) == g = [i \in 0 .. Cardinality(DOMAIN succ) |->
                             IF i = 0 THEN start
                             ELSE g[i - 1] \cup UNION {succ[x] : x \in g[i - 1]}]
             f == CHOOSE g : Is(g)
  <1>1. Closure(start, succ) = f[n]
    BY Zenon DEF Closure
  <1>2. PICK g : DOMAIN g = 0 .. n /\ IsReach(g, n, start, succ)
    BY ReachExists
  <1> DEFINE g2 == [i \in 0 .. n |-> g[i]]
  <1>3. Is(g2)
    <2>1. DOMAIN g2 = 0 .. n /\ \A i \in 0 .. n : g2[i] = g[i]
      OBVIOUS
    <2>2. ASSUME NEW i \in 0 .. n
          PROVE  g[i] = IF i = 0 THEN start ELSE g2[i - 1] \cup UNION {succ[x] : x \in g2[i - 1]}
      <3>1. CASE i = 0
        BY <1>2, <3>1 DEF IsReach
      <3>2. CASE i # 0
        <4> HIDE DEF n
        <4>1. n \in Nat
          BY DEF n
        <4>2. i - 1 \in 0 .. n - 1 /\ (i - 1) + 1 = i /\ i - 1 \in 0 .. n
          BY <3>2, <4>1
        <4>3. g[i] = Step(g[i - 1], succ)
          <5>1. g[(i - 1) + 1] = Step(g[i - 1], succ)
            BY <1>2, <4>2, Zenon DEF IsReach
          <5> QED
            BY <4>2, <5>1
        <4>4. g2[i - 1] = g[i - 1]
          BY <4>2
        <4> QED
          BY <3>2, <4>3, <4>4 DEF Step
      <3> QED
        BY <3>1, <3>2
    <2> QED
      BY <2>2, Zenon
  <1>4. Is(f)
    <2> HIDE DEF Is
    <2> QED
      BY <1>3, Zenon
  <1>5. IsReach(f, n, start, succ)
    <2>1. \A i \in 0 .. n : f[i] = IF i = 0 THEN start
                                   ELSE f[i - 1] \cup UNION {succ[x] : x \in f[i - 1]}
      <3> HIDE DEF f
      <3> QED
        BY <1>4, Zenon
    <2> HIDE DEF f, n, Is
    <2>2. n \in Nat
      BY DEF n
    <2>3. f[0] = start
      <3>1. 0 \in 0 .. n
        BY <2>2
      <3> QED
        BY <2>1, <3>1, Zenon
    <2>4. ASSUME NEW i \in 0 .. n - 1 PROVE f[i + 1] = Step(f[i], succ)
      <3>1. i + 1 \in 0 .. n /\ i + 1 # 0 /\ (i + 1) - 1 = i
        BY <2>2
      <3>2. f[i + 1] = f[(i + 1) - 1] \cup UNION {succ[x] : x \in f[(i + 1) - 1]}
        BY <2>1, <3>1, Zenon
      <3> QED
        BY <3>1, <3>2 DEF Step
    <2> QED
      BY <2>3, <2>4 DEF IsReach
  <1> QED
    BY <1>1, <1>5

\* What is reached lies in every closed set around the start.
LEMMA ClosureLeast ==
    ASSUME NEW S, IsFiniteSet(S), NEW succ \in [S -> SUBSET S],
           NEW start, NEW X, start \subseteq X, X \subseteq S, IsClosed(X, succ)
    PROVE  Closure(start, succ) \subseteq X
  <1> DEFINE n == Cardinality(DOMAIN succ)
  <1>1. DOMAIN succ = S /\ n \in Nat
    BY FS_CardinalityType
  <1>2. PICK f : IsReach(f, n, start, succ) /\ Closure(start, succ) = f[n]
    BY <1>1, ClosureReach
  <1> HIDE DEF n
  <1> DEFINE T == {i \in Nat : f[i] \subseteq X}
  <1>3. 0 \in T
    BY <1>2 DEF IsReach
  <1>4. ASSUME NEW i \in 0 .. n - 1, i \in T PROVE i + 1 \in T
    <2>1. f[i + 1] = Step(f[i], succ) /\ f[i] \subseteq X
      BY <1>2, <1>4 DEF IsReach
    <2>2. Step(f[i], succ) \subseteq X
      BY <1>1, <2>1 DEF Step, IsClosed
    <2>3. i + 1 \in Nat
      BY <1>1
    <2> QED
      BY <2>1, <2>2, <2>3
  <1>5. \A i \in 0 .. n : i \in T
    <2> HIDE DEF T
    <2> QED
      BY <1>1, <1>3, <1>4, Induction
  <1>6. n \in 0 .. n
    BY <1>1
  <1> QED
    BY <1>2, <1>5, <1>6

\* And is closed itself: each step adds something or nothing more is added.
LEMMA ClosureClosed ==
    ASSUME NEW S, IsFiniteSet(S), NEW succ \in [S -> SUBSET S],
           NEW start, start \subseteq S
    PROVE  /\ start \subseteq Closure(start, succ)
           /\ Closure(start, succ) \subseteq S
           /\ IsClosed(Closure(start, succ), succ)
  <1> DEFINE n == Cardinality(DOMAIN succ)
  <1>1. DOMAIN succ = S /\ n \in Nat /\ n = Cardinality(S)
    BY FS_CardinalityType
  <1>2. PICK f : IsReach(f, n, start, succ) /\ Closure(start, succ) = f[n]
    BY <1>1, ClosureReach
  <1> HIDE DEF n
  <1> DEFINE Big(r, i) == \E k \in Nat : k = Cardinality(r) /\ i < k
             T == {i \in Nat : /\ start \subseteq f[i] /\ f[i] \subseteq S
                               /\ IsClosed(f[i], succ) \/ Big(f[i], i)}
  <1>3. 0 \in T
    <2>1. f[0] = start
      BY <1>2 DEF IsReach
    <2>2. CASE start = {}
      BY <2>1, <2>2 DEF IsClosed
    <2>3. CASE start # {}
      <3>1. IsFiniteSet(start) /\ Cardinality(start) \in Nat
        BY FS_Subset, FS_CardinalityType
      <3>2. Cardinality(start) # 0
        BY <2>3, <3>1, FS_EmptySet
      <3>3. Big(start, 0)
        BY <3>1, <3>2
      <3> HIDE DEF Big
      <3> QED
        BY <2>1, <3>3
    <2> QED
      BY <2>2, <2>3
  <1>4. ASSUME NEW i \in 0 .. n - 1, i \in T PROVE i + 1 \in T
    <2> DEFINE r == f[i]
    <2>1. /\ start \subseteq r /\ r \subseteq S
          /\ IsClosed(r, succ) \/ Big(r, i)
      BY <1>4
    <2>2. f[i + 1] = Step(r, succ)
      BY <1>2 DEF IsReach
    <2> HIDE DEF r
    <2>3. r \subseteq Step(r, succ) /\ Step(r, succ) \subseteq S
      BY <1>1, <2>1 DEF Step
    <2>4. IsClosed(Step(r, succ), succ) \/ Big(Step(r, succ), i + 1)
      <3>1. CASE IsClosed(r, succ)
        <4>1. Step(r, succ) = r
          BY <1>1, <2>1, <3>1 DEF Step, IsClosed
        <4> QED
          BY <3>1, <4>1
      <3>2. CASE ~IsClosed(r, succ)
        <4>1. PICK y \in Step(r, succ) : y \notin r
          BY <1>1, <2>1, <3>2 DEF Step, IsClosed
        <4>2. IsFiniteSet(r) /\ IsFiniteSet(Step(r, succ)) /\ IsFiniteSet(r \cup {y})
          BY <2>1, <2>3, FS_Subset, FS_AddElement
        <4>3. Cardinality(r \cup {y}) = Cardinality(r) + 1
          BY <4>1, <4>2, FS_AddElement
        <4>4. Cardinality(r \cup {y}) <= Cardinality(Step(r, succ))
          <5>1. r \cup {y} \subseteq Step(r, succ)
            BY <2>3, <4>1
          <5> QED
            BY <4>2, <5>1, FS_Subset
        <4>5. Cardinality(r) \in Nat /\ Cardinality(Step(r, succ)) \in Nat
          BY <4>2, FS_CardinalityType
        <4>6. Big(r, i)
          BY <2>1, <3>2
        <4>7. i + 1 < Cardinality(Step(r, succ))
          BY <1>1, <4>3, <4>4, <4>5, <4>6
        <4> QED
          BY <4>5, <4>7
      <3> QED
        BY <3>1, <3>2
    <2>5. i + 1 \in Nat
      BY <1>1
    <2> HIDE DEF Big
    <2> QED
      BY <2>1, <2>2, <2>3, <2>4, <2>5
  <1>5. n \in T
    <2> HIDE DEF T
    <2>1. \A i \in 0 .. n : i \in T
      BY <1>1, <1>3, <1>4, Induction
    <2>2. n \in 0 .. n
      BY <1>1
    <2> QED
      BY <2>1, <2>2
  <1>6. start \subseteq f[n] /\ f[n] \subseteq S /\ (IsClosed(f[n], succ) \/ Big(f[n], n))
    BY <1>5
  <1>7. ~Big(f[n], n)
    <2>1. Cardinality(f[n]) <= n /\ Cardinality(f[n]) \in Nat
      BY <1>1, <1>6, FS_Subset, FS_CardinalityType
    <2> QED
      BY <1>1, <2>1
  <1> HIDE DEF Big, T
  <1> QED
    BY <1>2, <1>6, <1>7

-----------------------------------------------------------------------------
(* Looking up files *)

LEMMA ProgramFacts ==
    ASSUME NEW p \in Programs
    PROVE  /\ DOMAIN p \subseteq File /\ IsFiniteSet(DOMAIN p)
           /\ None \notin DOMAIN p /\ None \notin File
           /\ \A f \in DOMAIN p :
                /\ p[f].quote \in Seq(Name) /\ p[f].angle \in Seq(Name)
                /\ p[f].expr \in Seq(Symbol) /\ p[f].next \in Seq(Name)
                /\ p[f].define \subseteq Definition
                /\ f.name \in Name /\ f.dir \in Dirs
                /\ f = [dir |-> f.dir, name |-> f.name]
  <1>1. /\ DOMAIN p \subseteq File /\ IsFiniteSet(DOMAIN p)
        /\ \A f \in DOMAIN p : p[f] \in Contents
        /\ NoDir \notin Dirs
    BY IncludeAssumption
  <1>2. None \notin File
    BY <1>1 DEF None, File
  <1>3. ASSUME NEW f \in DOMAIN p
        PROVE  /\ p[f].quote \in Seq(Name) /\ p[f].angle \in Seq(Name)
               /\ p[f].expr \in Seq(Symbol) /\ p[f].next \in Seq(Name)
               /\ p[f].define \subseteq Definition
    <2>1. p[f] \in Contents
      BY <1>1
    <2> QED
      BY <2>1 DEF Contents
  <1>4. ASSUME NEW f \in File
        PROVE  f.name \in Name /\ f.dir \in Dirs /\ f = [dir |-> f.dir, name |-> f.name]
    BY DEF File
  <1> QED
    BY <1>1, <1>2, <1>3, <1>4

LEMMA ElementsType ==
    ASSUME NEW S, NEW q \in Seq(S)
    PROVE  Elements(q) \subseteq S
  BY DEF Elements

LEMMA DefinitionsType ==
    ASSUME NEW p \in Programs
    PROVE  AllDefinitions(p) \subseteq Definition
  <1>1. \A c \in Commands : c.d_opts \subseteq Definition
    BY IncludeAssumption
  <1>2. \A f \in DOMAIN p : p[f].define \subseteq Definition
    BY ProgramFacts
  <1>3. ASSUME NEW d \in AllDefinitions(p) PROVE d \in Definition
    <2>1. CASE d \in UNION {p[f].define : f \in DOMAIN p}
      BY <1>2, <2>1
    <2>2. CASE d \in UNION {c.d_opts : c \in Commands}
      BY <1>1, <2>2
    <2> QED
      BY <1>3, <2>1, <2>2 DEF AllDefinitions
  <1> QED
    BY <1>3

\* Resolve finds a file that exists in one of the directories, or none.
LEMMA ResolveFinds ==
    ASSUME NEW p, NEW x, NEW dirs, NEW k \in Nat, DOMAIN dirs = 1 .. k
    PROVE  \/ Resolve(p, x, dirs) = None /\ \A i \in DOMAIN dirs : ~Exists(p, dirs[i], x)
           \/ \E i \in DOMAIN dirs : /\ Resolve(p, x, dirs) = [dir |-> dirs[i], name |-> x]
                                     /\ Exists(p, dirs[i], x)
  <1>1. CASE ~\E i \in DOMAIN dirs : Exists(p, dirs[i], x)
    BY <1>1 DEF Resolve
  <1>2. CASE \E i \in DOMAIN dirs : Exists(p, dirs[i], x)
    <2> DEFINE T == {i \in DOMAIN dirs : Exists(p, dirs[i], x)}
               First(i) == /\ Exists(p, dirs[i], x)
                           /\ \A j \in 1..(i - 1) : ~Exists(p, dirs[j], x)
    <2>1. T # {} /\ T \subseteq Nat
      BY <1>2
    <2>2. PICK m \in T : \A j \in T : m <= j
      <3> HIDE DEF T
      <3> QED
        BY <2>1, LeastNat
    <2>3. m \in DOMAIN dirs /\ First(m)
      <3>1. ASSUME NEW j \in 1..(m - 1), Exists(p, dirs[j], x) PROVE FALSE
        <4>1. j \in DOMAIN dirs /\ j < m
          BY <2>2
        <4> QED
          BY <2>2, <3>1, <4>1
      <3> QED
        BY <2>2, <3>1
    <2> DEFINE first == CHOOSE i \in DOMAIN dirs : First(i)
    <2>4. first \in DOMAIN dirs /\ First(first)
      <3> HIDE DEF First
      <3> QED
        BY <2>3, Zenon
    <2>5. Resolve(p, x, dirs) = [dir |-> dirs[first], name |-> x]
      BY <1>2, Zenon DEF Resolve
    <2> HIDE DEF first
    <2> QED
      BY <2>4, <2>5
  <1> QED
    BY <1>1, <1>2

LEMMA ResolveType ==
    ASSUME NEW p, NEW x, NEW dirs, NEW k \in Nat, DOMAIN dirs = 1 .. k
    PROVE  Resolve(p, x, dirs) \in DOMAIN p \cup {None}
  <1>1. ASSUME NEW i \in DOMAIN dirs, Resolve(p, x, dirs) = [dir |-> dirs[i], name |-> x],
               Exists(p, dirs[i], x)
        PROVE  Resolve(p, x, dirs) \in DOMAIN p
    BY <1>1, Zenon DEF Exists
  <1> QED
    BY <1>1, ResolveFinds, Zenon

LEMMA QuoteDirs ==
    ASSUME NEW dir
    PROVE  \E k \in Nat : DOMAIN (<<dir>> \o quote_dirs) = 1 .. k
  <1>1. quote_dirs \in Seq(Dirs)
    BY IncludeAssumption
  <1> DEFINE S == Dirs \cup {dir}
  <1>2. quote_dirs \in Seq(S) /\ <<dir>> \in Seq(S)
    BY <1>1
  <1> HIDE DEF S
  <1>3. <<dir>> \o quote_dirs \in Seq(S)
    BY <1>2
  <1> QED
    BY <1>3

LEMMA ResolvantType ==
    ASSUME NEW p, NEW mode \in {"QUOTE", "ANGLE", "NEXT"}, NEW x, NEW dir
    PROVE  /\ Resolvant(p, mode, x, dir) \in DOMAIN p \cup {None}
           /\ mode = "NEXT" => Resolvant(p, mode, x, dir) = None
  <1>1. CASE mode = "QUOTE"
    <2>1. Resolvant(p, mode, x, dir) = Resolve(p, x, <<dir>> \o quote_dirs)
      BY <1>1 DEF Resolvant
    <2>2. PICK k \in Nat : DOMAIN (<<dir>> \o quote_dirs) = 1 .. k
      BY QuoteDirs
    <2> DEFINE dirs == <<dir>> \o quote_dirs
    <2> HIDE DEF dirs
    <2>3. Resolve(p, x, dirs) \in DOMAIN p \cup {None}
      BY <2>2, ResolveType DEF dirs
    <2> QED
      BY <1>1, <2>1, <2>3 DEF dirs
  <1>2. CASE mode = "ANGLE"
    <2>1. Resolvant(p, mode, x, dir) = Resolve(p, x, angle_dirs)
      BY <1>2 DEF Resolvant
    <2>2. angle_dirs \in Seq(Dirs)
      BY IncludeAssumption
    <2>3. Len(angle_dirs) \in Nat /\ DOMAIN angle_dirs = 1 .. Len(angle_dirs)
      BY <2>2
    <2>4. Resolve(p, x, angle_dirs) \in DOMAIN p \cup {None}
      BY <2>3, ResolveType
    <2> QED
      BY <1>2, <2>1, <2>4
  <1>3. CASE mode = "NEXT"
    BY <1>3 DEF Resolvant
  <1> QED
    BY <1>1, <1>2, <1>3

LEMMA ResolveExprType ==
    ASSUME NEW p, NEW table, NEW s, NEW dir
    PROVE  /\ ResolveExpr(p, table, s, dir) \subseteq DOMAIN p
           /\ None \notin ResolveExpr(p, table, s, dir)
  <1> DEFINE dirs == <<dir>> \o quote_dirs
  <1>1. PICK k \in Nat : DOMAIN dirs = 1 .. k
    BY QuoteDirs
  <1>2. ResolveExpr(p, table, s, dir) =
            {Resolve(p, d.value, dirs) : d \in {x \in table : x.symbol = s}} \ {None}
    BY DEF ResolveExpr
  <1> HIDE DEF dirs
  <1>3. ASSUME NEW x PROVE Resolve(p, x, dirs) \in DOMAIN p \cup {None}
    BY <1>1, ResolveType
  <1> QED
    BY <1>2, <1>3

LEMMA ResolveExprMonotone ==
    ASSUME NEW p, NEW table, NEW more, NEW s, NEW dir, table \subseteq more
    PROVE  ResolveExpr(p, table, s, dir) \subseteq ResolveExpr(p, more, s, dir)
  BY DEF ResolveExpr

LEMMA AfterDirs ==
    ASSUME NEW d
    PROVE  /\ \E k \in Nat : DOMAIN After(d) = 1 .. k
           /\ \A i \in DOMAIN After(d) : After(d)[i] \in Elements(quote_dirs)
  <1>1. quote_dirs \in Seq(Dirs) /\ Len(quote_dirs) \in Nat /\ DOMAIN quote_dirs = 1 .. Len(quote_dirs)
    BY IncludeAssumption
  <1>2. CASE ~\E i \in DOMAIN quote_dirs : quote_dirs[i] = d
    BY <1>1, <1>2 DEF After, Elements
  <1>3. CASE \E i \in DOMAIN quote_dirs : quote_dirs[i] = d
    <2> DEFINE m == CHOOSE i \in DOMAIN quote_dirs : quote_dirs[i] = d
               s == SubSeq(quote_dirs, m + 1, Len(quote_dirs))
    <2>1. m \in DOMAIN quote_dirs
      BY <1>3
    <2>2. After(d) = s
      BY <1>3 DEF After
    <2> HIDE DEF m
    <2>3. m \in 1 .. Len(quote_dirs)
      BY <1>1, <2>1
    <2>4. s \in Seq(Dirs) /\ DOMAIN s = 1 .. Len(quote_dirs) - m /\ Len(quote_dirs) - m \in Nat
      BY <1>1, <2>3
    <2>5. \A i \in DOMAIN s : s[i] = quote_dirs[m + i] /\ m + i \in DOMAIN quote_dirs
      BY <1>1, <2>3, <2>4
    <2> QED
      BY <2>2, <2>4, <2>5 DEF Elements
  <1> QED
    BY <1>2, <1>3

\* What #include_next may stand for is a file of that name.
LEMMA NextFile ==
    ASSUME NEW p, NEW x, NEW d, Resolve(p, x, After(d)) # None
    PROVE  /\ Resolve(p, x, After(d)) \in Named(p, {x})
           /\ Resolve(p, x, After(d)).dir \in Elements(quote_dirs)
  <1>1. PICK k \in Nat : DOMAIN After(d) = 1 .. k
    BY AfterDirs
  <1>2. PICK i \in DOMAIN After(d) :
            /\ Resolve(p, x, After(d)) = [dir |-> After(d)[i], name |-> x]
            /\ Exists(p, After(d)[i], x)
    BY <1>1, ResolveFinds
  <1>3. After(d)[i] \in Elements(quote_dirs)
    BY AfterDirs
  <1> QED
    BY <1>2, <1>3 DEF Exists, Named

LEMMA MayIncludeType ==
    ASSUME NEW p \in Programs, NEW f \in DOMAIN p, NEW table
    PROVE  MayInclude(p, f, table) \subseteq DOMAIN p
  <1>1. ASSUME NEW g \in IncludedBy(p, f, table) PROVE g \in DOMAIN p
    <2>1. g # None
      BY DEF IncludedBy
    <2>2. CASE \E x : g = Resolvant(p, "QUOTE", x, f.dir)
      BY <2>1, <2>2, ResolvantType
    <2>3. CASE \E x : g = Resolvant(p, "ANGLE", x, f.dir)
      BY <2>1, <2>3, ResolvantType
    <2>4. CASE \E s : g \in ResolveExpr(p, table, s, f.dir)
      BY <2>4, ResolveExprType
    <2>5. CASE \E x : g = Resolve(p, x, After(f.dir))
      BY <2>1, <2>5, NextFile DEF Named
    <2>6. \/ g \in {Resolvant(p, "QUOTE", n, f.dir) : n \in Elements(p[f].quote)}
          \/ g \in {Resolvant(p, "ANGLE", n, f.dir) : n \in Elements(p[f].angle)}
          \/ g \in UNION {ResolveExpr(p, table, s, f.dir) : s \in Elements(p[f].expr)}
          \/ g \in {Resolve(p, n, After(f.dir)) : n \in Elements(p[f].next)}
      BY <1>1 DEF IncludedBy
    <2> QED
      BY <2>2, <2>3, <2>4, <2>5, <2>6
  <1> QED
    BY <1>1 DEF MayInclude

LEMMA MayIncludeMonotone ==
    ASSUME NEW p, NEW f, NEW table, NEW more, table \subseteq more
    PROVE  MayInclude(p, f, table) \subseteq MayInclude(p, f, more)
  <1>1. \A s : ResolveExpr(p, table, s, f.dir) \subseteq ResolveExpr(p, more, s, f.dir)
    BY ResolveExprMonotone
  <1>2. IncludedBy(p, f, table) \subseteq IncludedBy(p, f, more)
    BY <1>1 DEF IncludedBy
  <1> QED
    BY <1>2 DEF MayInclude

-----------------------------------------------------------------------------
(* The files that #include_next may stand for *)

NextItem(d, x) == [mode |-> "RESOLVED", fp |-> [dir |-> d, name |-> x]]
Found(q, i, x) ==
    IF Exists(program, quote_dirs[i], x) THEN Append(q, NextItem(quote_dirs[i], x)) ELSE q
IsFound(f, n, x) ==
    /\ f[0] = <<>>
    /\ \A i \in 0 .. n - 1 : f[i + 1] = Found(f[i], i + 1, x)

LEMMA FoundExists ==
    ASSUME NEW x, NEW n \in Nat
    PROVE  \E f : DOMAIN f = 0 .. n /\ IsFound(f, n, x)
  <1> DEFINE T == {m \in Nat : \E f : DOMAIN f = 0 .. m /\ IsFound(f, m, x)}
  <1>1. 0 \in T
    <2> DEFINE f == [i \in 0 .. 0 |-> <<>>]
    <2>1. DOMAIN f = 0 .. 0 /\ f[0] = <<>> /\ 0 .. 0 - 1 = {}
      OBVIOUS
    <2> HIDE DEF f
    <2>2. IsFound(f, 0, x)
      BY <2>1 DEF IsFound
    <2> QED
      BY <2>1, <2>2
  <1>2. ASSUME NEW m \in Nat, m \in T PROVE m + 1 \in T
    <2>1. PICK f : DOMAIN f = 0 .. m /\ IsFound(f, m, x)
      BY <1>2
    <2> DEFINE g == [i \in 0 .. m + 1 |-> IF i = m + 1 THEN Found(f[m], m + 1, x) ELSE f[i]]
    <2>2. DOMAIN g = 0 .. m + 1
      OBVIOUS
    <2>3. g[0] = <<>>
      BY <2>1 DEF IsFound
    <2>4. ASSUME NEW i \in 0 .. (m + 1) - 1 PROVE g[i + 1] = Found(g[i], i + 1, x)
      <3>1. CASE i = m
        BY <3>1
      <3>2. CASE i # m
        <4>1. i \in 0 .. m - 1 /\ i + 1 # m + 1 /\ i + 1 \in 0 .. m + 1 /\ i # m + 1 /\ i \in 0 .. m + 1
          BY <3>2
        <4>2. g[i + 1] = f[i + 1] /\ g[i] = f[i]
          BY <4>1
        <4>3. f[i + 1] = Found(f[i], i + 1, x)
          BY <2>1, <4>1 DEF IsFound
        <4> QED
          BY <4>2, <4>3
      <3> QED
        BY <3>1, <3>2
    <2> HIDE DEF g
    <2>5. IsFound(g, m + 1, x)
      BY <2>3, <2>4 DEF IsFound
    <2> QED
      BY <2>2, <2>5
  <1>3. \A i \in 0 .. n - 1 : i \in T => i + 1 \in T
    BY <1>2
  <1>4. n \in T
    <2> HIDE DEF T
    <2>1. \A i \in 0 .. n : i \in T
      BY <1>1, <1>3, Induction
    <2> QED
      BY <2>1
  <1> QED
    BY <1>4

LEMMA NextIncludesFound ==
    ASSUME NEW x
    PROVE  \E f : IsFound(f, Len(quote_dirs), x) /\ NextIncludes(x) = f[Len(quote_dirs)]
  <1> DEFINE n == Len(quote_dirs)
             Is(g) == g = [i \in 0 .. Len(quote_dirs) |->
                             IF i = 0 THEN <<>>
                             ELSE IF Exists(program, quote_dirs[i], x)
                                  THEN Append(g[i - 1],
                                              [mode |-> "RESOLVED",
                                               fp |-> [dir |-> quote_dirs[i], name |-> x]])
                                  ELSE g[i - 1]]
             f == CHOOSE g : Is(g)
  <1>0. n \in Nat
    BY IncludeAssumption
  <1>1. NextIncludes(x) = f[n]
    BY Zenon DEF NextIncludes
  <1>2. PICK g : DOMAIN g = 0 .. n /\ IsFound(g, n, x)
    BY <1>0, FoundExists
  <1> DEFINE g2 == [i \in 0 .. n |-> g[i]]
  <1>3. Is(g2)
    <2>2. ASSUME NEW i \in 0 .. n
          PROVE  g[i] = IF i = 0 THEN <<>>
                        ELSE IF Exists(program, quote_dirs[i], x)
                             THEN Append(g2[i - 1], [mode |-> "RESOLVED",
                                                     fp |-> [dir |-> quote_dirs[i], name |-> x]])
                             ELSE g2[i - 1]
      <3>1. CASE i = 0
        BY <1>2, <3>1 DEF IsFound
      <3>2. CASE i # 0
        <4> HIDE DEF n
        <4>2. i - 1 \in 0 .. n - 1 /\ (i - 1) + 1 = i /\ i - 1 \in 0 .. n
          BY <1>0, <3>2
        <4>3. g[i] = Found(g[i - 1], i, x)
          <5>1. g[(i - 1) + 1] = Found(g[i - 1], (i - 1) + 1, x)
            BY <1>2, <4>2, Zenon DEF IsFound
          <5> QED
            BY <4>2, <5>1
        <4>4. g2[i - 1] = g[i - 1]
          BY <4>2
        <4> QED
          BY <3>2, <4>3, <4>4 DEF Found, NextItem
      <3> QED
        BY <3>1, <3>2
    <2> QED
      BY <2>2, Zenon
  <1>4. Is(f)
    <2> HIDE DEF Is
    <2> QED
      BY <1>3, Zenon
  <1>5. IsFound(f, n, x)
    <2>1. \A i \in 0 .. n : f[i] = IF i = 0 THEN <<>>
                                   ELSE IF Exists(program, quote_dirs[i], x)
                                        THEN Append(f[i - 1],
                                                    [mode |-> "RESOLVED",
                                                     fp |-> [dir |-> quote_dirs[i], name |-> x]])
                                        ELSE f[i - 1]
      <3> HIDE DEF f
      <3> QED
        BY <1>4, Zenon
    <2> HIDE DEF f, n, Is
    <2>3. f[0] = <<>>
      <3>1. 0 \in 0 .. n
        BY <1>0
      <3> QED
        BY <2>1, <3>1, Zenon
    <2>4. ASSUME NEW i \in 0 .. n - 1 PROVE f[i + 1] = Found(f[i], i + 1, x)
      <3>1. i + 1 \in 0 .. n /\ i + 1 # 0 /\ (i + 1) - 1 = i
        BY <1>0
      <3>2. f[i + 1] = IF Exists(program, quote_dirs[i + 1], x)
                       THEN Append(f[(i + 1) - 1], NextItem(quote_dirs[i + 1], x))
                       ELSE f[(i + 1) - 1]
        BY <2>1, <3>1, Zenon DEF NextItem
      <3> QED
        BY <3>1, <3>2 DEF Found
    <2> QED
      BY <2>3, <2>4 DEF IsFound
  <1> QED
    BY <1>1, <1>5

\* They are all the files of the name that quote_dirs have, and no other.
LEMMA NextIncludesFacts ==
    ASSUME NEW x
    PROVE  /\ NextIncludes(x) \in Seq([mode : {"RESOLVED"}, fp : Named(program, {x})])
           /\ \A d \in Elements(quote_dirs) : Exists(program, d, x) =>
                \E j \in DOMAIN NextIncludes(x) : NextIncludes(x)[j] = NextItem(d, x)
  <1> DEFINE n == Len(quote_dirs)
             I == [mode : {"RESOLVED"}, fp : Named(program, {x})]
  <1>1. n \in Nat /\ DOMAIN quote_dirs = 1 .. n
    BY IncludeAssumption
  <1>2. PICK f : IsFound(f, n, x) /\ NextIncludes(x) = f[n]
    BY NextIncludesFound
  <1> HIDE DEF n
  <1> DEFINE Good(m) == /\ f[m] \in Seq(I)
                        /\ \A k \in 1 .. m : Exists(program, quote_dirs[k], x) =>
                             \E j \in DOMAIN f[m] : f[m][j] = NextItem(quote_dirs[k], x)
             T == {m \in Nat : Good(m)}
  <1>3. 0 \in T
    <2>1. f[0] = <<>> /\ <<>> \in Seq(I) /\ 1 .. 0 = {}
      BY <1>2 DEF IsFound
    <2>2. Good(0)
      BY <2>1
    <2> QED
      BY <2>2
  <1>4. ASSUME NEW i \in 0 .. n - 1, i \in T PROVE i + 1 \in T
    <2> DEFINE q == f[i]  d == quote_dirs[i + 1]  e == NextItem(d, x)
    <2>1. f[i + 1] = IF Exists(program, d, x) THEN Append(q, e) ELSE q
      BY <1>2 DEF IsFound, Found
    <2>2. q \in Seq(I) /\ \A k \in 1 .. i : Exists(program, quote_dirs[k], x) =>
                             \E j \in DOMAIN q : q[j] = NextItem(quote_dirs[k], x)
      BY <1>4
    <2>3. i + 1 \in Nat /\ 1 .. (i + 1) = 1 .. i \cup {i + 1}
      BY <1>1
    <2>4. CASE Exists(program, d, x)
      <3>1. e \in I
        BY <2>4 DEF NextItem, Exists, Named
      <3> HIDE DEF q, e, d, I
      <3>2. Append(q, e) \in Seq(I) /\ DOMAIN Append(q, e) = 1 .. Len(q) + 1 /\ DOMAIN q = 1 .. Len(q)
            /\ Len(q) \in Nat /\ Append(q, e)[Len(q) + 1] = e
            /\ \A j \in 1 .. Len(q) : Append(q, e)[j] = q[j]
        BY <2>2, <3>1
      <3>3. \A j \in DOMAIN q : j \in DOMAIN Append(q, e) /\ Append(q, e)[j] = q[j]
        BY <3>2
      <3>4. Len(q) + 1 \in DOMAIN Append(q, e)
        BY <3>2
      <3>5. f[i + 1] = Append(q, e)
        BY <2>1, <2>4
      <3>6. \A k \in 1 .. i + 1 : Exists(program, quote_dirs[k], x) =>
                \E j \in DOMAIN f[i + 1] : f[i + 1][j] = NextItem(quote_dirs[k], x)
        BY <2>2, <2>3, <3>2, <3>3, <3>4, <3>5 DEF e, d
      <3> QED
        BY <2>3, <3>2, <3>5, <3>6
    <2>5. CASE ~Exists(program, d, x)
      BY <2>1, <2>2, <2>3, <2>5
    <2> QED
      BY <2>4, <2>5
  <1>5. n \in T
    <2> HIDE DEF T
    <2>1. \A i \in 0 .. n : i \in T
      BY <1>1, <1>3, <1>4, Induction
    <2>2. n \in 0 .. n
      BY <1>1
    <2> QED
      BY <2>1, <2>2
  <1>6. Good(n)
    BY <1>5
  <1> QED
    BY <1>1, <1>2, <1>6 DEF Elements

-----------------------------------------------------------------------------
(* Sequences *)

LEMMA ConcatElements ==
    ASSUME NEW S, NEW a \in Seq(S), NEW b \in Seq(S)
    PROVE  a \o b \in Seq(S) /\ Elements(a \o b) = Elements(a) \cup Elements(b)
  <1>1. /\ Len(a) \in Nat /\ Len(b) \in Nat
        /\ DOMAIN a = 1 .. Len(a) /\ DOMAIN b = 1 .. Len(b)
        /\ a \o b \in Seq(S) /\ DOMAIN (a \o b) = 1 .. Len(a) + Len(b)
    OBVIOUS
  <1>2. \A i \in DOMAIN a : (a \o b)[i] = a[i] /\ i \in DOMAIN (a \o b)
    BY <1>1
  <1>3. \A i \in DOMAIN b : (a \o b)[Len(a) + i] = b[i] /\ Len(a) + i \in DOMAIN (a \o b)
    BY <1>1
  <1>4. ASSUME NEW i \in DOMAIN (a \o b)
        PROVE  \/ i \in DOMAIN a /\ (a \o b)[i] = a[i]
               \/ i - Len(a) \in DOMAIN b /\ (a \o b)[i] = b[i - Len(a)]
    BY <1>1
  <1> DEFINE c == a \o b
  <1> HIDE DEF c
  <1>5. Elements(c) \subseteq Elements(a) \cup Elements(b)
    BY <1>4 DEF Elements, c
  <1>6. Elements(a) \subseteq Elements(c) /\ Elements(b) \subseteq Elements(c)
    BY <1>2, <1>3 DEF Elements, c
  <1> QED
    BY <1>1, <1>5, <1>6 DEF c

LEMMA TaggedElements ==
    ASSUME NEW S, NEW q \in Seq(S), NEW mode
    PROVE  /\ Tagged(mode, q) \in Seq([mode : {mode}, fp : S])
           /\ Elements(Tagged(mode, q)) = {[mode |-> mode, fp |-> x] : x \in Elements(q)}
  <1>1. Tagged(mode, q) \in Seq([mode : {mode}, fp : S])
    <2> DEFINE I == [mode : {mode}, fp : S]
    <2>1. DOMAIN q = 1 .. Len(q) /\ Len(q) \in Nat
      OBVIOUS
    <2>2. Tagged(mode, q) = [i \in 1 .. Len(q) |-> [mode |-> mode, fp |-> q[i]]]
      BY <2>1 DEF Tagged
    <2>3. \A i \in 1 .. Len(q) : [mode |-> mode, fp |-> q[i]] \in I
      BY <2>1
    <2> HIDE DEF I
    <2>4. [i \in 1 .. Len(q) |-> [mode |-> mode, fp |-> q[i]]] \in Seq(I)
      BY <2>1, <2>3
    <2> QED
      BY <2>2, <2>4 DEF I
  <1>2. DOMAIN Tagged(mode, q) = DOMAIN q
    BY DEF Tagged
  <1>3. \A i \in DOMAIN q : Tagged(mode, q)[i] = [mode |-> mode, fp |-> q[i]]
    BY DEF Tagged
  <1> QED
    BY <1>1, <1>2, <1>3 DEF Elements

LEMMA HeadElements ==
    ASSUME NEW S, NEW q \in Seq(S), q # <<>>
    PROVE  /\ Head(q) \in S /\ Tail(q) \in Seq(S)
           /\ Elements(q) = {Head(q)} \cup Elements(Tail(q))
  <1>1. /\ Len(q) \in Nat /\ Len(q) >= 1 /\ DOMAIN q = 1 .. Len(q)
        /\ Head(q) = q[1] /\ Tail(q) \in Seq(S) /\ DOMAIN Tail(q) = 1 .. Len(q) - 1
    OBVIOUS
  <1>2. \A i \in DOMAIN Tail(q) : Tail(q)[i] = q[i + 1] /\ i + 1 \in DOMAIN q
    BY <1>1
  <1>3. \A i \in DOMAIN q : i = 1 \/ (i - 1 \in DOMAIN Tail(q) /\ Tail(q)[i - 1] = q[i])
    BY <1>1
  <1>4. 1 \in DOMAIN q
    BY <1>1
  <1> DEFINE t == Tail(q)  h == Head(q)
  <1> HIDE DEF t, h
  <1>5. Elements(q) \subseteq {h} \cup Elements(t)
    <2>1. ASSUME NEW i \in DOMAIN q PROVE q[i] \in {h} \cup Elements(t)
      <3>1. CASE i = 1
        BY <1>1, <3>1 DEF h
      <3>2. CASE i # 1
        <4>1. PICK j \in DOMAIN t : t[j] = q[i]
          BY <1>3, <3>2 DEF t
        <4> QED
          BY <4>1 DEF Elements
      <3> QED
        BY <3>1, <3>2
    <2> QED
      BY <2>1 DEF Elements
  <1>6. {h} \cup Elements(t) \subseteq Elements(q)
    BY <1>1, <1>2, <1>4 DEF Elements, t, h
  <1> QED
    BY <1>1, <1>4, <1>5, <1>6 DEF t, h

\* What there is to do for file f.
IncludeItems(f) ==
    {[mode |-> "QUOTE", fp |-> x] : x \in Elements(program[f].quote)}
    \cup {[mode |-> "ANGLE", fp |-> x] : x \in Elements(program[f].angle)}
    \cup {[mode |-> "EXPR", fp |-> x] : x \in Elements(program[f].expr)}
    \cup {[mode |-> "NEXT", fp |-> x] : x \in Elements(program[f].next)}

LEMMA TaggedItems ==
    ASSUME NEW S, NEW q \in Seq(S), NEW mode \in AllModes, S \subseteq Name \cup File \cup Symbol
    PROVE  Tagged(mode, q) \in Seq(Items)
  <1>1. [mode : {mode}, fp : S] \subseteq Items
    BY DEF Items
  <1>2. Tagged(mode, q) \in Seq([mode : {mode}, fp : S])
    BY TaggedElements
  <1> DEFINE t == Tagged(mode, q)  I == [mode : {mode}, fp : S]
  <1> HIDE DEF t, I
  <1>3. t \in Seq(I) /\ I \subseteq Items
    BY <1>1, <1>2 DEF t, I
  <1>4. t \in Seq(Items)
    BY <1>3
  <1> QED
    BY <1>4 DEF t

LEMMA IncludesElements ==
    ASSUME program \in Programs, NEW f \in DOMAIN program
    PROVE  Includes(f) \in Seq(Items) /\ Elements(Includes(f)) = IncludeItems(f)
  <1> DEFINE a == Tagged("QUOTE", program[f].quote)
             b == Tagged("ANGLE", program[f].angle)
             c == Tagged("EXPR", program[f].expr)
             d == Tagged("NEXT", program[f].next)
  <1>1. /\ program[f].quote \in Seq(Name) /\ program[f].angle \in Seq(Name)
        /\ program[f].expr \in Seq(Symbol) /\ program[f].next \in Seq(Name)
    BY ProgramFacts
  <1>2. {"QUOTE", "ANGLE", "EXPR", "NEXT"} \subseteq AllModes
    BY DEF AllModes, Mode
  <1>3. a \in Seq(Items) /\ b \in Seq(Items) /\ c \in Seq(Items) /\ d \in Seq(Items)
    BY <1>1, <1>2, TaggedItems
  <1>4. /\ Elements(a) = {[mode |-> "QUOTE", fp |-> x] : x \in Elements(program[f].quote)}
        /\ Elements(b) = {[mode |-> "ANGLE", fp |-> x] : x \in Elements(program[f].angle)}
        /\ Elements(c) = {[mode |-> "EXPR", fp |-> x] : x \in Elements(program[f].expr)}
        /\ Elements(d) = {[mode |-> "NEXT", fp |-> x] : x \in Elements(program[f].next)}
    <2>1. Elements(a) = {[mode |-> "QUOTE", fp |-> x] : x \in Elements(program[f].quote)}
      <3>1. PICK q \in Seq(Name) : q = program[f].quote
        BY <1>1
      <3>2. Elements(Tagged("QUOTE", q)) = {[mode |-> "QUOTE", fp |-> x] : x \in Elements(q)}
        BY TaggedElements
      <3> QED
        BY <3>1, <3>2
    <2>2. Elements(b) = {[mode |-> "ANGLE", fp |-> x] : x \in Elements(program[f].angle)}
      <3>1. PICK q \in Seq(Name) : q = program[f].angle
        BY <1>1
      <3>2. Elements(Tagged("ANGLE", q)) = {[mode |-> "ANGLE", fp |-> x] : x \in Elements(q)}
        BY TaggedElements
      <3> QED
        BY <3>1, <3>2
    <2>3. Elements(c) = {[mode |-> "EXPR", fp |-> x] : x \in Elements(program[f].expr)}
      <3>1. PICK q \in Seq(Symbol) : q = program[f].expr
        BY <1>1
      <3>2. Elements(Tagged("EXPR", q)) = {[mode |-> "EXPR", fp |-> x] : x \in Elements(q)}
        BY TaggedElements
      <3> QED
        BY <3>1, <3>2
    <2>4. Elements(d) = {[mode |-> "NEXT", fp |-> x] : x \in Elements(program[f].next)}
      <3>1. PICK q \in Seq(Name) : q = program[f].next
        BY <1>1
      <3>2. Elements(Tagged("NEXT", q)) = {[mode |-> "NEXT", fp |-> x] : x \in Elements(q)}
        BY TaggedElements
      <3> QED
        BY <3>1, <3>2
    <2> QED
      BY <2>1, <2>2, <2>3, <2>4
  <1>5. Includes(f) = ((a \o b) \o c) \o d
    BY DEF Includes
  <1> HIDE DEF a, b, c, d
  <1> DEFINE ab == a \o b  abc == ab \o c
  <1>6. ab \in Seq(Items) /\ Elements(ab) = Elements(a) \cup Elements(b)
    BY <1>3, ConcatElements
  <1> HIDE DEF ab
  <1>7. abc \in Seq(Items) /\ Elements(abc) = Elements(ab) \cup Elements(c)
    BY <1>3, <1>6, ConcatElements
  <1> HIDE DEF abc
  <1>8. abc \o d \in Seq(Items) /\ Elements(abc \o d) = Elements(abc) \cup Elements(d)
    BY <1>3, <1>7, ConcatElements
  <1>9. Includes(f) = abc \o d
    BY <1>5 DEF ab, abc
  <1>10. Elements(Includes(f)) = Elements(a) \cup Elements(b) \cup Elements(c) \cup Elements(d)
    BY <1>6, <1>7, <1>8, <1>9
  <1> QED
    BY <1>4, <1>8, <1>9, <1>10 DEF IncludeItems

-----------------------------------------------------------------------------
(* The stack *)

LEMMA PushFacts ==
    ASSUME stack \in Seq(FrameType), NEW fr \in FrameType, stack' = Append(stack, fr)
    PROVE  /\ stack' \in Seq(FrameType) /\ stack' # <<>>
           /\ Len(stack) \in Nat /\ Len(stack') = Len(stack) + 1
           /\ DOMAIN stack = 1 .. Len(stack) /\ DOMAIN stack' = 1 .. Len(stack) + 1
           /\ \A i \in DOMAIN stack : stack'[i] = stack[i]
           /\ stack'[Len(stack) + 1] = fr /\ Top' = fr
           /\ Elements(stack') = Elements(stack) \cup {fr}
  <1>1. /\ stack' \in Seq(FrameType) /\ stack' # <<>>
        /\ Len(stack) \in Nat /\ Len(stack') = Len(stack) + 1
        /\ DOMAIN stack = 1 .. Len(stack) /\ DOMAIN stack' = 1 .. Len(stack) + 1
        /\ stack'[Len(stack) + 1] = fr
    OBVIOUS
  <1>2. \A i \in 1 .. Len(stack) : stack'[i] = stack[i]
    OBVIOUS
  <1>3. DOMAIN stack' = DOMAIN stack \cup {Len(stack) + 1}
    BY <1>1
  <1>4. Elements(stack') = Elements(stack) \cup {fr}
    BY <1>1, <1>2, <1>3 DEF Elements
  <1> QED
    BY <1>1, <1>2, <1>4 DEF Top

LEMMA TodoFacts ==
    ASSUME stack \in Seq(FrameType), stack # <<>>, NEW todo \in Seq(Items), stack' = SetTodo(todo)
    PROVE  /\ stack' \in Seq(FrameType) /\ stack' # <<>>
           /\ Len(stack) \in Nat /\ Len(stack') = Len(stack)
           /\ Len(stack) \in DOMAIN stack
           /\ DOMAIN stack = 1 .. Len(stack) /\ DOMAIN stack' = DOMAIN stack
           /\ \A i \in DOMAIN stack : stack'[i].node = stack[i].node /\ stack'[i].dummy = stack[i].dummy
           /\ \A i \in DOMAIN stack : i # Len(stack) => stack'[i] = stack[i]
           /\ stack'[Len(stack)].todo = todo
           /\ Top'.todo = todo /\ Top'.node = Top.node /\ Top'.dummy = Top.dummy
           /\ Top \in Elements(stack)
           /\ Elements(stack') \subseteq Elements(stack) \cup {[Top EXCEPT !.todo = todo]}
           /\ Top \in FrameType
  <1>1. Len(stack) \in Nat /\ DOMAIN stack = 1 .. Len(stack) /\ Len(stack) \in DOMAIN stack
    OBVIOUS
  <1>2. stack[Len(stack)] \in FrameType
    BY <1>1
  <1>3. [stack[Len(stack)] EXCEPT !.todo = todo] \in FrameType
    BY <1>2 DEF FrameType
  <1>4. stack' = [stack EXCEPT ![Len(stack)] = [stack[Len(stack)] EXCEPT !.todo = todo]]
    BY DEF SetTodo
  <1>5. stack' \in Seq(FrameType) /\ Len(stack') = Len(stack) /\ DOMAIN stack' = DOMAIN stack
    BY <1>1, <1>3, <1>4
  <1>6. \A i \in DOMAIN stack : i # Len(stack) => stack'[i] = stack[i]
    BY <1>4
  <1>7. stack'[Len(stack)] = [stack[Len(stack)] EXCEPT !.todo = todo]
    BY <1>1, <1>4
  <1>8. /\ stack'[Len(stack)].todo = todo
        /\ stack'[Len(stack)].node = stack[Len(stack)].node
        /\ stack'[Len(stack)].dummy = stack[Len(stack)].dummy
    BY <1>2, <1>7 DEF FrameType
  <1>9. stack' # <<>>
    BY <1>1, <1>5
  <1>10. Elements(stack') \subseteq Elements(stack) \cup {[Top EXCEPT !.todo = todo]}
    BY <1>5, <1>6, <1>7 DEF Elements, Top
  <1>11. Top \in Elements(stack) /\ Top \in FrameType
    BY <1>1, <1>2 DEF Elements, Top
  <1> QED
    BY <1>1, <1>5, <1>6, <1>8, <1>9, <1>10, <1>11 DEF Top

LEMMA PopFacts ==
    ASSUME stack \in Seq(FrameType), stack # <<>>, stack' = SubSeq(stack, 1, Len(stack) - 1)
    PROVE  /\ stack' \in Seq(FrameType) /\ Len(stack) \in Nat /\ Len(stack') = Len(stack) - 1
           /\ Len(stack) \in DOMAIN stack
           /\ DOMAIN stack = 1 .. Len(stack) /\ DOMAIN stack' = 1 .. Len(stack) - 1
           /\ \A i \in DOMAIN stack' : stack'[i] = stack[i]
           /\ stack' # <<>> => Len(stack) - 1 \in DOMAIN stack /\ Top' = stack[Len(stack) - 1]
           /\ Elements(stack') \subseteq Elements(stack) /\ Top \in Elements(stack)
  <1>1. Len(stack) \in Nat /\ DOMAIN stack = 1 .. Len(stack) /\ Len(stack) \in DOMAIN stack
    OBVIOUS
  <1>2. /\ stack' \in Seq(FrameType) /\ Len(stack') = Len(stack) - 1 /\ DOMAIN stack' = 1 .. Len(stack) - 1
        /\ \A i \in 1 .. Len(stack) - 1 : stack'[i] = stack[i]
    BY <1>1
  <1>3. stack' # <<>> => Len(stack) - 1 \in 1 .. Len(stack) - 1
    BY <1>1, <1>2
  <1>4. Elements(stack') \subseteq Elements(stack) /\ Top \in Elements(stack)
    BY <1>1, <1>2 DEF Elements, Top
  <1> QED
    BY <1>1, <1>2, <1>3, <1>4 DEF Top

LEMMA TopFacts ==
    ASSUME stack \in Seq(FrameType), stack # <<>>
    PROVE  /\ Len(stack) \in Nat /\ DOMAIN stack = 1 .. Len(stack) /\ Len(stack) \in DOMAIN stack
           /\ Top = stack[Len(stack)] /\ Top \in FrameType
           /\ Top.node \in Nat /\ Top.todo \in Seq(Items) /\ Top.dummy \in BOOLEAN
           /\ Top \in Elements(stack)
  <1>1. Len(stack) \in Nat /\ DOMAIN stack = 1 .. Len(stack) /\ Len(stack) \in DOMAIN stack
    OBVIOUS
  <1>2. stack[Len(stack)] \in FrameType
    BY <1>1
  <1>3. Top \in FrameType /\ Top \in Elements(stack)
    BY <1>1, <1>2 DEF Top, Elements
  <1> QED
    BY <1>1, <1>3 DEF Top, FrameType

-----------------------------------------------------------------------------
(* Types *)

\* The nodes that there are go on to stand for the same files.
Keeps ==
    /\ program' = program
    /\ \A n \in DOMAIN nodes : n \in DOMAIN nodes' /\ nodes'[n].real = nodes[n].real

LEMMA HasKept ==
    ASSUME Keeps, NEW n \in DOMAIN nodes, NEW x, Has(n, x)
    PROVE  Has(n, x)'
  BY DEF Keeps, Has, Real, Text

LEMMA RequestKept ==
    ASSUME RequestOK, ~Idle, ~Idle', program' = program, UNCHANGED request
    PROVE  RequestOK'
  BY DEF RequestOK, request, Current

LEMMA StackKept ==
    ASSUME StackOK, Keeps, UNCHANGED stack
    PROVE  StackOK'
  <1>1. ASSUME NEW fr \in Elements(stack), NEW x \in Elements(fr.todo)
        PROVE  fr.node \in DOMAIN nodes' /\ Has(fr.node, x)'
    BY HasKept DEF StackOK, Keeps
  <1>2. ASSUME NEW fr \in Elements(stack) PROVE fr.node \in DOMAIN nodes'
    BY DEF StackOK, Keeps
  <1>3. Elements(stack)' = Elements(stack)
    BY DEF Elements
  <1> QED
    BY <1>1, <1>2, <1>3 DEF StackOK

\* An activation is added, or its list changed.
LEMMA StackChanged ==
    ASSUME StackOK, Keeps, NEW fr, stack' \in Seq(FrameType),
           Elements(stack') \subseteq Elements(stack) \cup {fr},
           fr.node \in DOMAIN nodes', \A x \in Elements(fr.todo) : Has(fr.node, x)'
    PROVE  StackOK'
  <1>1. ASSUME NEW f \in Elements(stack), NEW x \in Elements(f.todo)
        PROVE  Has(f.node, x)'
    BY HasKept DEF StackOK, Keeps
  <1>2. ASSUME NEW f \in Elements(stack) PROVE f.node \in DOMAIN nodes'
    BY DEF StackOK, Keeps
  <1> QED
    BY <1>1, <1>2 DEF StackOK

LEMMA StackTodo ==
    ASSUME StackOK, Keeps, stack # <<>>, NEW todo \in Seq(Items), stack' = SetTodo(todo),
           \A x \in Elements(todo) : Has(Top.node, x)
    PROVE  StackOK'
  <1>0. stack \in Seq(FrameType)
    BY DEF StackOK
  <1> DEFINE fr == [Top EXCEPT !.todo = todo]
  <1>1. /\ Top \in Elements(stack) /\ stack' \in Seq(FrameType) /\ Top \in FrameType
        /\ Elements(stack') \subseteq Elements(stack) \cup {fr}
    BY <1>0, TodoFacts
  <1>2. fr.node = Top.node /\ fr.todo = todo
    BY <1>1 DEF FrameType
  <1> HIDE DEF fr
  <1>3. PICK n : n = Top.node
    OBVIOUS
  <1>4. n \in DOMAIN nodes /\ \A x \in Elements(todo) : Has(n, x)
    BY <1>1, <1>3 DEF StackOK
  <1>5. n \in DOMAIN nodes' /\ \A x \in Elements(todo) : Has(n, x)'
    BY <1>4, HasKept DEF Keeps
  <1>6. PICK g : g = fr
    OBVIOUS
  <1>7. g.node = n /\ g.todo = todo /\ Elements(stack') \subseteq Elements(stack) \cup {g}
    BY <1>1, <1>2, <1>3, <1>6
  <1> QED
    BY <1>1, <1>5, <1>7, StackChanged

LEMMA StackPop ==
    ASSUME StackOK, Keeps, stack # <<>>, stack' = SubSeq(stack, 1, Len(stack) - 1)
    PROVE  StackOK'
  <1>0. stack \in Seq(FrameType)
    BY DEF StackOK
  <1>1. stack' \in Seq(FrameType) /\ Elements(stack') \subseteq Elements(stack) \cup {Top} /\ Top \in Elements(stack)
    BY <1>0, PopFacts
  <1>2. PICK fr : fr = Top
    OBVIOUS
  <1>3. fr.node \in DOMAIN nodes /\ \A x \in Elements(fr.todo) : Has(fr.node, x)
    BY <1>1, <1>2 DEF StackOK
  <1>4. fr.node \in DOMAIN nodes' /\ \A x \in Elements(fr.todo) : Has(fr.node, x)'
    BY <1>3, HasKept DEF Keeps
  <1> QED
    BY <1>1, <1>2, <1>4, StackChanged

LEMMA CallFacts ==
    ASSUME Types, call.op = "call"
    PROVE  /\ call.mode \in Mode
           /\ call.mode = "RESOLVED" => call.fp \in DOMAIN program
           /\ ~Idle
  <1>1. call # NoCall
    BY DEF NoCall
  <1>2. call.mode \in Mode
    BY <1>1 DEF Types, CallOK
  <1>3. call.mode = "RESOLVED" => call.fp \in DOMAIN program
    BY <1>1 DEF Types, CallOK, Has, CallItem
  <1> QED
    BY <1>1, <1>2, <1>3 DEF Idle

LEMMA NodesType ==
    ASSUME CachesOK
    PROVE  /\ Len(nodes) \in Nat /\ DOMAIN nodes = 1 .. Len(nodes)
           /\ Len(records) \in Nat /\ DOMAIN records = 1 .. Len(records)
           /\ NewNode \in Nat /\ NewNode \notin DOMAIN nodes
           /\ \A n \in DOMAIN nodes : nodes[n] \in NodeType
           /\ \A r \in DOMAIN records : records[r] \in RecordType
  BY DEF CachesOK, NewNode

\* What a call that finds no node to reuse has to work with.
LEMMA FindFacts ==
    ASSUME Types, NotReusable
    PROVE  /\ Target \in DOMAIN program \cup {None}
           /\ Records \in Seq(RecordType)
           /\ \A r \in DOMAIN records : r \in DOMAIN Records /\ Records[r] = records[r]
           /\ Record \in DOMAIN Records /\ Record \in Nat
  <1>1. call.op = "call" /\ CachesOK
    BY DEF NotReusable, Types
  <1>2. Known(CallKey) => OldNode \in DOMAIN nodes
    BY <1>1 DEF CachesOK, Known, OldNode
  <1>3. Target \in DOMAIN program \cup {None}
    <2>1. CASE Known(CallKey)
      BY <1>1, <1>2, <2>1 DEF Target, CachesOK, Real
    <2>2. CASE ~Known(CallKey)
      <3>1. Target = Resolvant(program, call.mode, call.fp, call.dir)
        BY <2>2 DEF Target
      <3>2. call.mode \in Mode /\ (call.mode = "RESOLVED" => call.fp \in DOMAIN program)
        BY <1>1, CallFacts
      <3>3. CASE call.mode = "RESOLVED"
        BY <3>1, <3>2, <3>3 DEF Resolvant
      <3>4. CASE call.mode # "RESOLVED"
        <4>1. call.mode \in {"QUOTE", "ANGLE", "NEXT"}
          BY <3>2, <3>4 DEF Mode
        <4>2. PICK m, x, d : m \in {"QUOTE", "ANGLE", "NEXT"} /\ m = call.mode /\ x = call.fp /\ d = call.dir
          BY <4>1
        <4>3. Resolvant(program, m, x, d) \in DOMAIN program \cup {None}
          BY <4>2, ResolvantType
        <4> QED
          BY <3>1, <4>2, <4>3
      <3> QED
        BY <3>3, <3>4
    <2> QED
      BY <2>1, <2>2
  <1>4. CASE Known(CallKey)
    <2>1. Records = records /\ Record = nodes[OldNode].support_record
      BY <1>4 DEF Records, Record
    <2>2. records \in Seq(RecordType) /\ Record \in DOMAIN records /\ Record \in Nat
      BY <1>1, <1>2, <1>4, <2>1, NodesType DEF CachesOK
    <2> QED
      BY <1>3, <2>1, <2>2
  <1>5. CASE ~Known(CallKey)
    <2> DEFINE e == [support |-> {}, valid |-> TRUE]
    <2>1. Records = Append(records, e) /\ Record = Len(records) + 1
      BY <1>5 DEF Records, Record
    <2>2. e \in RecordType
      BY DEF RecordType
    <2>3. records \in Seq(RecordType) /\ Len(records) \in Nat /\ DOMAIN records = 1 .. Len(records)
      BY <1>1, NodesType DEF CachesOK
    <2> HIDE DEF e
    <2>4. /\ Append(records, e) \in Seq(RecordType)
          /\ DOMAIN Append(records, e) = 1 .. Len(records) + 1
          /\ \A r \in 1 .. Len(records) : Append(records, e)[r] = records[r]
      BY <2>2, <2>3
    <2> QED
      BY <1>3, <2>1, <2>3, <2>4
  <1> QED
    BY <1>4, <1>5

LEMMA AppendNode ==
    ASSUME CachesOK, NEW node, node \in NodeType, nodes' = Append(nodes, node)
    PROVE  /\ nodes' \in Seq(NodeType)
           /\ DOMAIN nodes' = DOMAIN nodes \cup {NewNode}
           /\ \A n \in DOMAIN nodes : nodes'[n] = nodes[n]
           /\ nodes'[NewNode] = node
  <1>1. nodes \in Seq(NodeType) /\ Len(nodes) \in Nat /\ DOMAIN nodes = 1 .. Len(nodes) /\ NewNode = Len(nodes) + 1
    BY NodesType DEF CachesOK, NewNode
  <1>2. /\ nodes' \in Seq(NodeType) /\ DOMAIN nodes' = 1 .. Len(nodes) + 1
        /\ \A n \in 1 .. Len(nodes) : nodes'[n] = nodes[n]
        /\ nodes'[Len(nodes) + 1] = node
    BY <1>1
  <1> QED
    BY <1>1, <1>2

\* A node is made.
LEMMA NewNodeFacts ==
    ASSUME Types, MakesNode
    PROVE  /\ nodes' \in Seq(NodeType)
           /\ DOMAIN nodes' = DOMAIN nodes \cup {NewNode}
           /\ \A n \in DOMAIN nodes : nodes'[n] = nodes[n]
           /\ nodes'[NewNode].real = Target /\ nodes'[NewNode].children = {}
           /\ nodes'[NewNode].support_record = Record
  <1> DEFINE node == [real |-> Target, children |-> {}, support_record |-> Record]
  <1>1. Target \in File \cup {None} /\ Record \in Nat
    BY FindFacts, ProgramFacts DEF MakesNode, Types, CachesOK
  <1>2. node \in NodeType
    BY <1>1 DEF NodeType
  <1>3. nodes' = Append(nodes, node)
    BY DEF MakesNode
  <1>4. node.real = Target /\ node.children = {} /\ node.support_record = Record
    OBVIOUS
  <1> HIDE DEF node
  <1>5. PICK v : v = node
    OBVIOUS
  <1>6. /\ nodes' \in Seq(NodeType)
        /\ DOMAIN nodes' = DOMAIN nodes \cup {NewNode}
        /\ \A n \in DOMAIN nodes : nodes'[n] = nodes[n]
        /\ nodes'[NewNode] = v
    BY <1>2, <1>3, <1>5, AppendNode DEF Types
  <1> QED
    BY <1>4, <1>5, <1>6

LEMMA CachesNew ==
    ASSUME Types, MakesNode, program' = program,
           \A k \in DOMAIN node_cache' : node_cache'[k] \in DOMAIN nodes \cup {NewNode},
           file_cache' \subseteq DOMAIN program, symbol_table' \subseteq AllDefinitions(program),
           records' \in Seq(RecordType), DOMAIN records' = DOMAIN Records
    PROVE  CachesOK' /\ Keeps
  <1>0. CachesOK
    BY DEF Types
  <1>1. AllDefinitions(program)' = AllDefinitions(program)
    BY DEF AllDefinitions
  <1>2. Keeps
    BY NewNodeFacts DEF Keeps
  <1>3. ASSUME NEW n \in DOMAIN nodes'
        PROVE  /\ nodes'[n].real \in DOMAIN program \cup {None}
               /\ nodes'[n].children \subseteq DOMAIN nodes'
               /\ nodes'[n].support_record \in DOMAIN records'
    <2>1. CASE n \in DOMAIN nodes
      <3>1. nodes'[n] = nodes[n] /\ DOMAIN nodes \subseteq DOMAIN nodes'
        BY <2>1, NewNodeFacts
      <3>2. DOMAIN records \subseteq DOMAIN records'
        BY FindFacts DEF MakesNode
      <3> QED
        BY <1>0, <2>1, <3>1, <3>2 DEF CachesOK, Real
    <2>2. CASE n = NewNode
      <3>1. nodes'[n].real = Target /\ nodes'[n].children = {} /\ nodes'[n].support_record = Record
        BY <2>2, NewNodeFacts
      <3>2. Target \in DOMAIN program \cup {None} /\ Record \in DOMAIN records'
        BY FindFacts DEF MakesNode
      <3> QED
        BY <3>1, <3>2
    <2> QED
      BY <2>1, <2>2, NewNodeFacts
  <1>4. nodes' \in Seq(NodeType) /\ DOMAIN nodes' = DOMAIN nodes \cup {NewNode}
    BY NewNodeFacts
  <1> QED
    BY <1>0, <1>1, <1>2, <1>3, <1>4 DEF CachesOK, Real

LEMMA InvalidateFacts ==
    ASSUME NEW recs \in Seq(RecordType), NEW symbols
    PROVE  /\ InvalidateRecords(recs, symbols) \in Seq(RecordType)
           /\ DOMAIN InvalidateRecords(recs, symbols) = DOMAIN recs
           /\ \A r \in DOMAIN recs :
                /\ InvalidateRecords(recs, symbols)[r].support = recs[r].support
                /\ InvalidateRecords(recs, symbols)[r].valid
                     <=> recs[r].valid /\ recs[r].support \cap symbols = {}
  <1> DEFINE Change(r) == [recs[r] EXCEPT !.valid = @ /\ recs[r].support \cap symbols = {}]
  <1>1. DOMAIN recs = 1 .. Len(recs) /\ Len(recs) \in Nat /\ \A r \in DOMAIN recs : recs[r] \in RecordType
    OBVIOUS
  <1>2. InvalidateRecords(recs, symbols) = [r \in 1 .. Len(recs) |-> Change(r)]
    BY <1>1, Zenon DEF InvalidateRecords
  <1>3. ASSUME NEW r \in DOMAIN recs
        PROVE  /\ Change(r) \in RecordType /\ Change(r).support = recs[r].support
               /\ Change(r).valid <=> recs[r].valid /\ recs[r].support \cap symbols = {}
    <2>1. recs[r] \in RecordType
      BY <1>1
    <2> QED
      BY <2>1 DEF RecordType
  <1> HIDE DEF Change
  <1>4. [r \in 1 .. Len(recs) |-> Change(r)] \in Seq(RecordType)
    BY <1>1, <1>3
  <1> QED
    BY <1>1, <1>2, <1>3, <1>4

LEMMA UpdateFacts ==
    ASSUME NEW recs \in Seq(RecordType), NEW r \in DOMAIN recs, NEW symbols \in SUBSET Symbol
    PROVE  /\ Update(recs, r, symbols) \in Seq(RecordType)
           /\ DOMAIN Update(recs, r, symbols) = DOMAIN recs
           /\ \A q \in DOMAIN recs : /\ Update(recs, r, symbols)[q].valid = recs[q].valid
                                     /\ recs[q].support \subseteq Update(recs, r, symbols)[q].support
           /\ Update(recs, r, symbols)[r].support = recs[r].support \cup symbols
  <1> DEFINE e == [recs[r] EXCEPT !.support = @ \cup symbols]
  <1>1. recs[r] \in RecordType
    OBVIOUS
  <1>2. e \in RecordType /\ e.support = recs[r].support \cup symbols /\ e.valid = recs[r].valid
    BY <1>1 DEF RecordType
  <1>3. Update(recs, r, symbols) = [recs EXCEPT ![r] = e]
    BY DEF Update
  <1> HIDE DEF e
  <1>4. /\ [recs EXCEPT ![r] = e] \in Seq(RecordType)
        /\ DOMAIN [recs EXCEPT ![r] = e] = DOMAIN recs
        /\ [recs EXCEPT ![r] = e][r] = e
        /\ \A q \in DOMAIN recs : q # r => [recs EXCEPT ![r] = e][q] = recs[q]
    BY <1>2
  <1> QED
    BY <1>2, <1>3, <1>4

\* Definitions are entered while a node is made for an old or a new record.
LEMMA EnterFacts ==
    ASSUME Types, NotReusable, NEW defs, NEW told, Enter(defs, told)
    PROVE  /\ symbol_table' = symbol_table \cup defs
           /\ records' \in Seq(RecordType) /\ DOMAIN records' = DOMAIN Records
           /\ \A r \in DOMAIN Records :
                /\ records'[r].support = Records[r].support
                /\ records'[r].valid <=> /\ r = Record \/ Records[r].valid
                                         /\ Records[r].support \cap Symbols(told) = {}
  <1>1. Records \in Seq(RecordType) /\ Record \in DOMAIN Records
    BY FindFacts
  <1> DEFINE e == [Records[Record] EXCEPT !.valid = TRUE]
             recs == [Records EXCEPT ![Record].valid = TRUE]
  <1>2. Records[Record] \in RecordType
    BY <1>1
  <1>3. e \in RecordType /\ e.valid = TRUE /\ e.support = Records[Record].support
    BY <1>2 DEF RecordType
  <1>4. recs = [Records EXCEPT ![Record] = e]
    OBVIOUS
  <1> HIDE DEF e, recs
  <1>5. /\ recs \in Seq(RecordType) /\ DOMAIN recs = DOMAIN Records /\ recs[Record] = e
        /\ \A r \in DOMAIN Records : r # Record => recs[r] = Records[r]
    BY <1>1, <1>3, <1>4
  <1>6. records' = InvalidateRecords(recs, Symbols(told)) /\ symbol_table' = symbol_table \cup defs
    BY DEF Enter, recs
  <1>7. PICK rs, ss : rs \in Seq(RecordType) /\ rs = recs /\ ss = Symbols(told)
    BY <1>5
  <1>8. /\ InvalidateRecords(rs, ss) \in Seq(RecordType)
        /\ DOMAIN InvalidateRecords(rs, ss) = DOMAIN rs
        /\ \A r \in DOMAIN rs :
             /\ InvalidateRecords(rs, ss)[r].support = rs[r].support
             /\ InvalidateRecords(rs, ss)[r].valid <=> rs[r].valid /\ rs[r].support \cap ss = {}
    BY <1>7, InvalidateFacts
  <1>9. ASSUME NEW r \in DOMAIN Records
        PROVE  /\ rs[r].support = Records[r].support
               /\ rs[r].valid <=> r = Record \/ Records[r].valid
    BY <1>3, <1>5, <1>7
  <1> QED
    BY <1>5, <1>6, <1>7, <1>8, <1>9

LEMMA DefineFacts ==
    ASSUME Types, NotReusable, NEW defs, Define(defs)
    PROVE  /\ symbol_table' = symbol_table \cup defs
           /\ records' \in Seq(RecordType) /\ DOMAIN records' = DOMAIN Records
           /\ \A r \in DOMAIN Records :
                /\ records'[r].support = Records[r].support
                /\ records'[r].valid <=> /\ r = Record \/ Records[r].valid
                                         /\ Records[r].support \cap Symbols(defs) = {}
  <1>1. Enter(defs, defs)
    BY DEF Define
  <1> QED
    BY <1>1, EnterFacts

LEMMA TypesInit == Init => Types
  <1> SUFFICES ASSUME Init PROVE Types
    OBVIOUS
  <1> USE DEF Init
  <1>1. CachesOK
    BY DEF CachesOK, Empty
  <1>2. StackOK
    BY DEF StackOK, Elements
  <1>3. CallOK
    BY DEF CallOK
  <1>4. RequestOK
    <2>1. closure \subseteq File /\ answer = "none" /\ Idle
      BY DEF Idle
    <2>2. requests \in 0 .. MaxRequests
      BY IncludeAssumption
    <2>3. partial \in BOOLEAN
      BY Zenon
    <2> QED
      BY <2>1, <2>2, <2>3 DEF RequestOK
  <1> QED
    BY <1>1, <1>2, <1>3, <1>4 DEF Types

LEMMA TypesHit == ASSUME Types, FindNodeHit PROVE Types'
  <1>1. /\ program' = program /\ UNCHANGED caches /\ UNCHANGED stack /\ UNCHANGED request
        /\ call.op = "call" /\ Known(CallKey) /\ call' = ReturnNode(node_cache[CallKey])
    BY DEF FindNodeHit
  <1>2. CachesOK' /\ Keeps
    BY <1>1 DEF Types, CachesOK, caches, Keeps, Real, AllDefinitions
  <1>3. StackOK'
    BY <1>1, <1>2, StackKept DEF Types
  <1>4. call' # NoCall /\ call'.op = "return" /\ call'.node \in DOMAIN nodes'
    BY <1>1, <1>2 DEF Types, CachesOK, Known, ReturnNode, NoCall, caches
  <1>5. RequestOK'
    BY <1>1, <1>4, CallFacts, RequestKept DEF Types, Idle
  <1> QED
    BY <1>2, <1>3, <1>4, <1>5 DEF Types, CallOK

LEMMA TypesNext == ASSUME Types, FindNodeNext PROVE Types' /\ Keeps
  <1> DEFINE todo == NextIncludes(call.fp)
             fr == [node |-> NewNode, todo |-> todo, dummy |-> TRUE]
  <1>1. /\ MakesNode /\ program' = program /\ UNCHANGED <<file_cache, symbol_table, request>>
        /\ node_cache' = Remember(node_cache, CallKey, NewNode) /\ records' = Records
        /\ stack' = Append(stack, fr) /\ call' = NoCall
    BY DEF FindNodeNext, Registered, Frame
  <1>2. CachesOK' /\ Keeps
    <2>1. \A k \in DOMAIN node_cache' : node_cache'[k] \in DOMAIN nodes \cup {NewNode}
      <3>1. \A k \in DOMAIN node_cache : node_cache[k] \in DOMAIN nodes
        BY DEF Types, CachesOK
      <3> QED
        BY <1>1, <3>1 DEF Remember
    <2>2. Records \in Seq(RecordType)
      BY <1>1, FindFacts DEF MakesNode
    <2> QED
      BY <1>1, <2>1, <2>2, CachesNew DEF Types, CachesOK
  <1>3. StackOK'
    <2>1. PICK x : x = call.fp
      OBVIOUS
    <2>2. NextIncludes(x) \in Seq([mode : {"RESOLVED"}, fp : Named(program, {x})])
      BY NextIncludesFacts
    <2>3. [mode : {"RESOLVED"}, fp : Named(program, {x})] \subseteq [mode : {"RESOLVED"}, fp : DOMAIN program]
      BY DEF Named
    <2>4. [mode : {"RESOLVED"}, fp : Named(program, {x})] \subseteq Items
      BY ProgramFacts DEF Items, Named, Types, CachesOK, AllModes, Mode
    <2>5. todo \in Seq(Items) /\ \A e \in Elements(todo) : e.mode = "RESOLVED" /\ e.fp \in DOMAIN program
      <3> HIDE DEF todo
      <3> DEFINE I == [mode : {"RESOLVED"}, fp : Named(program, {x})]
      <3>1. \A e \in I : e.mode = "RESOLVED" /\ e.fp \in DOMAIN program
        BY DEF Named
      <3>2. I \subseteq Items
        BY <2>4
      <3>3. todo \in Seq(I)
        BY <2>1, <2>2 DEF todo
      <3> HIDE DEF I
      <3>4. todo \in Seq(Items) /\ Elements(todo) \subseteq I
        BY <3>2, <3>3, ElementsType
      <3> QED
        BY <3>1, <3>4
    <2> HIDE DEF todo
    <2>6. fr \in FrameType /\ fr.node = NewNode /\ fr.todo = todo
      <3>1. NewNode \in Nat
        BY NodesType DEF Types
      <3> QED
        BY <2>5, <3>1 DEF FrameType
    <2>7. PICK g, n : g = fr /\ n = NewNode
      OBVIOUS
    <2> HIDE DEF fr
    <2>8. \A e \in Elements(todo) : Has(n, e)'
      BY <1>1, <2>5 DEF Has
    <2>9. /\ stack' \in Seq(FrameType) /\ Elements(stack') \subseteq Elements(stack) \cup {g}
      BY <1>1, <2>6, <2>7, PushFacts DEF Types, StackOK
    <2>10. n \in DOMAIN nodes'
      BY <1>1, <2>7, NewNodeFacts
    <2> QED
      BY <1>2, <2>6, <2>7, <2>8, <2>9, <2>10, StackChanged DEF Types
  <1>4. stack' # <<>>
    BY <1>1, <1>3 DEF StackOK, Types
  <1>5. RequestOK'
    BY <1>1, <1>4, CallFacts, RequestKept DEF Types, Idle, MakesNode, NotReusable
  <1> QED
    BY <1>1, <1>2, <1>3, <1>5 DEF Types, CallOK

LEMMA TypesMissing == ASSUME Types, FindNodeMissing PROVE Types' /\ Keeps
  <1>1. /\ MakesNode /\ program' = program /\ UNCHANGED <<file_cache, symbol_table, stack, request>>
        /\ node_cache' = Remember(node_cache, CallKey, NewNode) /\ records' = Records
        /\ call' = ReturnNode(NewNode)
    BY DEF FindNodeMissing, Registered
  <1>2. CachesOK' /\ Keeps
    <2>1. \A k \in DOMAIN node_cache' : node_cache'[k] \in DOMAIN nodes \cup {NewNode}
      <3>1. \A k \in DOMAIN node_cache : node_cache[k] \in DOMAIN nodes
        BY DEF Types, CachesOK
      <3> QED
        BY <1>1, <3>1 DEF Remember
    <2>2. Records \in Seq(RecordType)
      BY <1>1, FindFacts DEF MakesNode
    <2> QED
      BY <1>1, <2>1, <2>2, CachesNew DEF Types, CachesOK
  <1>3. StackOK'
    BY <1>1, <1>2, StackKept DEF Types
  <1>4. call' # NoCall /\ call'.op = "return" /\ call'.node \in DOMAIN nodes'
    BY <1>1, NewNodeFacts DEF ReturnNode, NoCall
  <1>5. RequestOK'
    BY <1>1, <1>4, CallFacts, RequestKept DEF Types, Idle, MakesNode, NotReusable
  <1> QED
    BY <1>2, <1>3, <1>4, <1>5 DEF Types, CallOK

LEMMA TypesReal == ASSUME Types, FindNodeReal PROVE Types' /\ Keeps
  <1>1. /\ NotReusable /\ program' = program /\ UNCHANGED <<file_cache, symbol_table, nodes, stack, request>>
        /\ node_cache' = Remember(node_cache, CallKey, node_cache[RealKey(Target)]) /\ records' = Records
        /\ call' = ReturnNode(node_cache[RealKey(Target)]) /\ Known(RealKey(Target))
    BY DEF FindNodeReal, KnownByRealName
  <1>2. node_cache[RealKey(Target)] \in DOMAIN nodes
    BY <1>1 DEF Types, CachesOK, Known
  <1>3. CachesOK' /\ Keeps
    <2>1. \A k \in DOMAIN node_cache' : node_cache'[k] \in DOMAIN nodes
      <3>1. \A k \in DOMAIN node_cache : node_cache[k] \in DOMAIN nodes
        BY DEF Types, CachesOK
      <3> QED
        BY <1>1, <1>2, <3>1 DEF Remember
    <2>2. Records \in Seq(RecordType) /\ DOMAIN records \subseteq DOMAIN Records
      BY <1>1, FindFacts
    <2> QED
      BY <1>1, <2>1, <2>2 DEF Types, CachesOK, Keeps, Real, AllDefinitions
  <1>4. StackOK'
    BY <1>1, <1>3, StackKept DEF Types
  <1>5. call' # NoCall /\ call'.op = "return" /\ call'.node \in DOMAIN nodes'
    BY <1>1, <1>2 DEF ReturnNode, NoCall
  <1>6. RequestOK'
    BY <1>1, <1>5, CallFacts, RequestKept DEF Types, Idle, NotReusable
  <1> QED
    BY <1>3, <1>4, <1>5, <1>6 DEF Types, CallOK

LEMMA MissedType ==
    ASSUME Types
    PROVE  \A k \in DOMAIN MissedCache : MissedCache[k] \in DOMAIN nodes \cup {NewNode}
  <1>1. \A k \in DOMAIN node_cache : node_cache[k] \in DOMAIN nodes
    BY DEF Types, CachesOK
  <1>2. PICK n, k, l : n = NewNode /\ k = CallKey /\ l = RealKey(Target)
    OBVIOUS
  <1> DEFINE c == Remember(node_cache, k, n)
  <1>3. \A x \in DOMAIN c : c[x] \in DOMAIN nodes \cup {n}
    BY <1>1 DEF Remember
  <1> HIDE DEF c
  <1>4. \A x \in DOMAIN Remember(c, l, n) : Remember(c, l, n)[x] \in DOMAIN nodes \cup {n}
    BY <1>3 DEF Remember
  <1>5. MissedCache = c \/ MissedCache = Remember(c, l, n)
    BY <1>2 DEF MissedCache, Registered, c
  <1> QED
    BY <1>2, <1>3, <1>4, <1>5

LEMMA TypesMiss == ASSUME Types, FindNodeMiss PROVE Types' /\ Keeps
  <1> DEFINE fr == [node |-> NewNode, todo |-> Includes(Target), dummy |-> FALSE]
             defs == IF Parsed THEN {} ELSE program[Target].define
  <1>1. /\ MakesNode /\ Target # None /\ program' = program /\ UNCHANGED request
        /\ node_cache' = MissedCache /\ file_cache' = file_cache \cup {Target}
        /\ Define(defs) /\ stack' = Append(stack, fr) /\ call' = NoCall
    BY DEF FindNodeMiss, Frame
  <1>2. Target \in DOMAIN program /\ NotReusable
    BY <1>1, FindFacts DEF MakesNode
  <1>3. CachesOK' /\ Keeps
    <2>1. defs \subseteq AllDefinitions(program)
      BY <1>2 DEF AllDefinitions
    <2>2. PICK ds : ds = defs
      OBVIOUS
    <2> HIDE DEF defs
    <2>3. symbol_table' = symbol_table \cup ds /\ records' \in Seq(RecordType) /\ DOMAIN records' = DOMAIN Records
      BY <1>1, <1>2, <2>2, DefineFacts
    <2> QED
      BY <1>1, <1>2, <2>1, <2>2, <2>3, MissedType, CachesNew DEF Types, CachesOK
  <1>4. StackOK'
    <2>1. PICK f, n, g : f = Target /\ n = NewNode /\ g = fr
      OBVIOUS
    <2>2. Includes(f) \in Seq(Items) /\ Elements(Includes(f)) = IncludeItems(f)
      BY <1>2, <2>1, IncludesElements DEF Types, CachesOK
    <2>3. nodes'[n].real = f /\ n \in DOMAIN nodes' /\ f # None
      BY <1>1, <2>1, NewNodeFacts
    <2>4. \A e \in IncludeItems(f) : Has(n, e)'
      BY <1>1, <2>3 DEF Has, IncludeItems, Real, Text
    <2>5. g \in FrameType /\ g.node = n /\ g.todo = Includes(f)
      <3>1. NewNode \in Nat
        BY NodesType DEF Types
      <3> QED
        BY <2>1, <2>2, <3>1 DEF FrameType
    <2> HIDE DEF fr
    <2>6. stack' \in Seq(FrameType) /\ Elements(stack') \subseteq Elements(stack) \cup {g}
      BY <1>1, <2>1, <2>5, PushFacts DEF Types, StackOK
    <2> QED
      BY <1>3, <2>2, <2>3, <2>4, <2>5, <2>6, StackChanged DEF Types
  <1>5. stack' # <<>>
    BY <1>1, <1>4 DEF StackOK, Types
  <1>6. RequestOK'
    BY <1>1, <1>2, <1>5, CallFacts, RequestKept DEF Types, Idle, NotReusable
  <1> QED
    BY <1>1, <1>3, <1>4, <1>6 DEF Types, CallOK

\* The analysis is left while a file is parsed.
Leaves == FindNodeNotCovered \/ ParseTimeOut

LEMMA LeavesParse ==
    ASSUME Leaves
    PROVE  /\ MakesNode /\ Target # None
           /\ node_cache' = MissedCache /\ file_cache' = file_cache
           /\ \E defs \in SUBSET program[Target].define : \E told : Enter(defs, told)
           /\ stack' = <<>> /\ call' = NoCall /\ answer' = "not_covered" /\ partial' = TRUE
           /\ UNCHANGED <<program, command, roots, closure, requests>>
  <1>1. StartsParse /\ \E defs \in SUBSET program[Target].define : \E told : LeaveParse(defs, told)
    BY DEF Leaves, FindNodeNotCovered, ParseTimeOut
  <1>2. PICK defs \in SUBSET program[Target].define : \E told : LeaveParse(defs, told)
    BY <1>1
  <1>3. PICK told : LeaveParse(defs, told)
    BY <1>2
  <1> QED
    BY <1>1, <1>3 DEF StartsParse, LeaveParse, LeaveFindNode

LEMMA TypesLeaves == ASSUME Types, Leaves PROVE Types'
  <1>1. /\ MakesNode /\ Target # None /\ program' = program
        /\ node_cache' = MissedCache /\ file_cache' = file_cache
        /\ stack' = <<>> /\ call' = NoCall /\ answer' = "not_covered" /\ partial' = TRUE
        /\ UNCHANGED <<command, roots, closure, requests>>
    BY LeavesParse
  <1>2. PICK defs \in SUBSET program[Target].define : \E told : Enter(defs, told)
    BY LeavesParse
  <1>3. Target \in DOMAIN program /\ NotReusable
    BY <1>1, FindFacts DEF MakesNode
  <1>4. CachesOK'
    <2>1. defs \subseteq AllDefinitions(program)
      BY <1>3 DEF AllDefinitions
    <2>2. symbol_table' = symbol_table \cup defs /\ records' \in Seq(RecordType) /\ DOMAIN records' = DOMAIN Records
      BY <1>2, <1>3, EnterFacts
    <2> QED
      BY <1>1, <2>1, <2>2, MissedType, CachesNew DEF Types, CachesOK
  <1>5. StackOK'
    BY <1>1 DEF StackOK, Elements
  <1>6. RequestOK'
    BY <1>1 DEF Types, RequestOK, Idle
  <1> QED
    BY <1>1, <1>4, <1>5, <1>6 DEF Types, CallOK

LEMMA RunningFacts ==
    ASSUME Types, Running
    PROVE  /\ stack \in Seq(FrameType) /\ stack # <<>> /\ Top \in FrameType /\ Top \in Elements(stack)
           /\ Top.node \in DOMAIN nodes /\ Top.todo \in Seq(Items)
           /\ \A x \in Elements(Top.todo) : Has(Top.node, x)
           /\ ~Idle
  <1>1. stack \in Seq(FrameType) /\ stack # <<>>
    BY DEF Types, StackOK, Running
  <1>2. Top \in FrameType /\ Top \in Elements(stack) /\ Top.todo \in Seq(Items)
    BY <1>1, TopFacts
  <1>3. PICK fr : fr = Top
    OBVIOUS
  <1>4. fr.node \in DOMAIN nodes /\ \A x \in Elements(fr.todo) : Has(fr.node, x)
    BY <1>2, <1>3 DEF Types, StackOK
  <1> QED
    BY <1>1, <1>2, <1>3, <1>4 DEF Idle

LEMMA TypesCall == ASSUME Types, CallFindNode PROVE Types' /\ Keeps
  <1>1. /\ Running /\ Top.todo # <<>> /\ Head(Top.todo).mode \in Mode
        /\ call' = FindNodeCall(Head(Top.todo).mode, Head(Top.todo).fp,
                     IF Head(Top.todo).mode = "RESOLVED" THEN NoDir ELSE nodes[Top.node].real.dir)
        /\ stack' = SetTodo(Tail(Top.todo))
        /\ UNCHANGED <<program, caches, request>>
    BY DEF CallFindNode
  <1>2. CachesOK' /\ Keeps
    BY <1>1 DEF Types, CachesOK, caches, Keeps, Real, AllDefinitions
  <1>3. PICK n, q, x : n = Top.node /\ q = Top.todo /\ x = Head(q)
    OBVIOUS
  <1>4. /\ q \in Seq(Items) /\ q # <<>> /\ n \in DOMAIN nodes /\ \A e \in Elements(q) : Has(n, e)
        /\ stack \in Seq(FrameType) /\ stack # <<>>
    BY <1>1, <1>3, RunningFacts
  <1>5. x \in Items /\ Tail(q) \in Seq(Items) /\ Elements(q) = {x} \cup Elements(Tail(q))
    BY <1>3, <1>4, HeadElements
  <1>6. StackOK'
    <2>1. PICK t \in Seq(Items) : t = Tail(q)
      BY <1>5
    <2>2. \A e \in Elements(t) : Has(n, e)
      BY <1>4, <1>5, <2>1
    <2> QED
      BY <1>1, <1>2, <1>3, <1>4, <2>1, <2>2, StackTodo DEF Types
  <1>7. CallOK'
    <2>1. Has(n, x)
      BY <1>4, <1>5
    <2>2. Has(n, x)'
      BY <1>2, <1>4, <2>1, HasKept
    <2>3. stack' # <<>> /\ Top'.node = n
      BY <1>1, <1>3, <1>4, <1>5, TodoFacts
    <2>4. /\ call'.op = "call" /\ call'.mode = x.mode /\ call'.fp = x.fp /\ x.mode \in Mode
          /\ call'.dir = IF x.mode = "RESOLVED" THEN NoDir ELSE nodes[n].real.dir
      BY <1>1, <1>3 DEF FindNodeCall
    <2>5. x = [mode |-> call'.mode, fp |-> call'.fp]
      BY <1>5, <2>4 DEF Items
    <2>6. CallItem' = x
      BY <2>5 DEF CallItem
    <2>7. call'.dir = CallDir(n, x.mode)'
      BY <1>2, <1>4, <2>4 DEF CallDir, Real, Keeps
    <2> QED
      BY <2>2, <2>3, <2>4, <2>6, <2>7 DEF CallOK, Has, CallDir, Real, Text
  <1>8. RequestOK'
    <2>1. call' # NoCall
      BY <1>1 DEF FindNodeCall, NoCall
    <2> QED
      BY <1>1, <2>1, RunningFacts, RequestKept DEF Types, Idle
  <1> QED
    BY <1>2, <1>6, <1>7, <1>8 DEF Types

\* The orders in which the files of a computed include are looked up: each
\* has them all.
LEMMA OrdersElements ==
    ASSUME NEW S, IsFiniteSet(S), NEW q \in Orders(S)
    PROVE  q \in Seq(S) /\ Elements(q) = S
  <1> DEFINE n == Cardinality(S)
  <1>1. n \in Nat /\ q \in [1 .. n -> S] /\ \A i, j \in DOMAIN q : q[i] = q[j] => i = j
    BY FS_CardinalityType DEF Orders
  <1> HIDE DEF n
  <1>2. q \in Seq(S) /\ DOMAIN q = 1 .. n
    BY <1>1
  <1>3. q \in Bijection(1 .. n, Elements(q))
    <2>1. q \in [1 .. n -> Elements(q)]
      BY <1>1 DEF Elements
    <2>2. \A t \in Elements(q) : \E s \in 1 .. n : q[s] = t
      BY <1>1 DEF Elements
    <2> DEFINE R == Elements(q)  D == 1 .. n
    <2>3. q \in [D -> R] /\ \A i, j \in D : q[i] = q[j] => i = j
      BY <1>1, <1>2, <2>1
    <2>4. \A t \in R : \E s \in D : q[s] = t
      BY <2>2
    <2> HIDE DEF R, D
    <2>5. q \in Injection(D, R) /\ q \in Surjection(D, R)
      BY <2>3, <2>4 DEF Injection, Surjection, IsInjective
    <2>6. q \in Bijection(D, R)
      BY <2>5, Zenon DEF Bijection
    <2> QED
      BY <2>6 DEF R, D
  <1>4. IsFiniteSet(1 .. n) /\ Cardinality(1 .. n) = n
    <2>1. Cardinality(1 .. n) = IF 1 > n THEN 0 ELSE n - 1 + 1
      BY <1>1, FS_Interval
    <2> QED
      BY <1>1, <2>1, FS_Interval
  <1>5. Cardinality(Elements(q)) = n /\ IsFiniteSet(Elements(q))
    <2>1. ExistsBijection(1 .. n, Elements(q))
      BY <1>3 DEF ExistsBijection
    <2> QED
      BY <1>4, <2>1, FS_Bijection
  <1>6. Elements(q) \subseteq S
    BY <1>1 DEF Elements
  <1>7. Elements(q) = S
    BY <1>5, <1>6, FS_Subset DEF n
  <1> QED
    BY <1>2, <1>7

LEMMA TypesComputed ==
    ASSUME Types, ComputedInclude
    PROVE  /\ Types' /\ Keeps
           /\ \E n, s, q, t :
                /\ t \in Seq(Items) /\ n = Top.node /\ Top.todo # <<>> /\ Head(Top.todo) = [mode |-> "EXPR", fp |-> s]
                /\ stack' = SetTodo(t) /\ Elements(t) = q \cup Elements(Tail(Top.todo))
                /\ s \in Elements(Text(n).expr) /\ Real(n) # None
                /\ q = {[mode |-> "RESOLVED", fp |-> f] :
                          f \in ResolveExpr(program, symbol_table, s, Real(n).dir)}
                       \cup {[mode |-> "SUPPORT", fp |-> s]}
  <1> DEFINE F == ResolveExpr(program, symbol_table, Head(Top.todo).fp, nodes[Top.node].real.dir)
  <1>1. /\ Running /\ Top.todo # <<>> /\ Head(Top.todo).mode = "EXPR"
        /\ \E q \in Orders(F) :
             stack' = SetTodo((Tagged("RESOLVED", q) \o <<[mode |-> "SUPPORT", fp |-> Head(Top.todo).fp]>>)
                                \o Tail(Top.todo))
        /\ UNCHANGED <<program, caches, call, request>>
    BY DEF ComputedInclude
  <1>2. CachesOK' /\ Keeps
    BY <1>1 DEF Types, CachesOK, caches, Keeps, Real, AllDefinitions
  <1>3. PICK n, q, x : n = Top.node /\ q = Top.todo /\ x = Head(q)
    OBVIOUS
  <1>4. /\ q \in Seq(Items) /\ q # <<>> /\ n \in DOMAIN nodes /\ \A e \in Elements(q) : Has(n, e)
        /\ stack \in Seq(FrameType) /\ stack # <<>>
    BY <1>1, <1>3, RunningFacts
  <1>5. x \in Items /\ Tail(q) \in Seq(Items) /\ Elements(q) = {x} \cup Elements(Tail(q))
    BY <1>3, <1>4, HeadElements
  <1>6. x.mode = "EXPR" /\ x = [mode |-> "EXPR", fp |-> x.fp]
    BY <1>1, <1>3, <1>5 DEF Items
  <1>7. Real(n) # None /\ x.fp \in Elements(Text(n).expr)
    BY <1>4, <1>5, <1>6 DEF Has
  <1>8. Real(n) \in DOMAIN program /\ x.fp \in Symbol
    <2>1. Real(n) \in DOMAIN program
      BY <1>4, <1>7 DEF Types, CachesOK
    <2>2. Text(n).expr \in Seq(Symbol)
      BY <2>1, ProgramFacts DEF Text, Types, CachesOK
    <2> QED
      BY <1>7, <2>1, <2>2, ElementsType
  <1>9. PICK S : S = ResolveExpr(program, symbol_table, x.fp, Real(n).dir)
    OBVIOUS
  <1>10. S \subseteq DOMAIN program /\ IsFiniteSet(S) /\ S = F
    <2>1. S \subseteq DOMAIN program
      BY <1>9, ResolveExprType
    <2>2. IsFiniteSet(DOMAIN program)
      BY ProgramFacts DEF Types, CachesOK
    <2> QED
      BY <1>3, <1>9, <2>1, <2>2, FS_Subset DEF Real
  <1> HIDE DEF F
  <1>11. PICK o \in Orders(S) :
            stack' = SetTodo((Tagged("RESOLVED", o) \o <<[mode |-> "SUPPORT", fp |-> x.fp]>>) \o Tail(q))
    BY <1>1, <1>3, <1>10
  <1>12. o \in Seq(S) /\ Elements(o) = S
    BY <1>10, OrdersElements
  <1> DEFINE a == Tagged("RESOLVED", o)
             b == <<[mode |-> "SUPPORT", fp |-> x.fp]>>
             ab == a \o b
             c == Tail(q)
             t == ab \o c
  <1>13. a \in Seq(Items) /\ Elements(a) = {[mode |-> "RESOLVED", fp |-> f] : f \in S}
    <2>1. S \subseteq Name \cup File \cup Symbol /\ "RESOLVED" \in AllModes
      BY <1>10, ProgramFacts DEF Types, CachesOK, AllModes, Mode
    <2>2. a \in Seq(Items)
      BY <1>12, <2>1, TaggedItems
    <2>3. Elements(a) = {[mode |-> "RESOLVED", fp |-> f] : f \in Elements(o)}
      <3>1. ASSUME NEW T, NEW p \in Seq(T), NEW mode
            PROVE  Elements(Tagged(mode, p)) = {[mode |-> mode, fp |-> f] : f \in Elements(p)}
        BY TaggedElements
      <3>2. o \in Seq(S)
        BY <1>12
      <3> QED
        BY <3>1, <3>2, Zenon
    <2> QED
      BY <1>12, <2>2, <2>3
  <1>14. b \in Seq(Items) /\ Elements(b) = {[mode |-> "SUPPORT", fp |-> x.fp]}
    BY <1>8 DEF Items, AllModes, Elements
  <1>c. c \in Seq(Items)
    BY <1>5
  <1> HIDE DEF a, b, c
  <1>15. ab \in Seq(Items) /\ Elements(ab) = Elements(a) \cup Elements(b)
    BY <1>13, <1>14, ConcatElements
  <1> HIDE DEF ab
  <1>16. t \in Seq(Items) /\ Elements(t) = Elements(ab) \cup Elements(Tail(q))
    <2>1. t \in Seq(Items) /\ Elements(t) = Elements(ab) \cup Elements(c)
      BY <1>15, <1>c, ConcatElements
    <2> QED
      BY <2>1 DEF c
  <1>17. stack' = SetTodo(t)
    BY <1>11 DEF a, b, ab, c
  <1> HIDE DEF t
  <1>18. PICK u \in Seq(Items) : u = t
    BY <1>16
  <1>19. Elements(u) = {[mode |-> "RESOLVED", fp |-> f] : f \in S} \cup {[mode |-> "SUPPORT", fp |-> x.fp]}
                          \cup Elements(Tail(q))
    BY <1>13, <1>14, <1>15, <1>16, <1>18
  <1>20. StackOK'
    <2>1. \A e \in Elements(u) : Has(n, e)
      BY <1>4, <1>5, <1>7, <1>10, <1>19 DEF Has
    <2> QED
      BY <1>2, <1>3, <1>4, <1>17, <1>18, <2>1, StackTodo DEF Types
  <1>21. stack' # <<>>
    BY <1>4, <1>17, <1>18, TodoFacts
  <1>22. CallOK'
    BY <1>1, <1>21 DEF CallOK, Types, Running, NoCall
  <1>23. RequestOK'
    BY <1>1, <1>21, RunningFacts, RequestKept DEF Types, Idle
  <1>24. Types'
    BY <1>2, <1>20, <1>22, <1>23 DEF Types
  <1> DEFINE g == {[mode |-> "RESOLVED", fp |-> f] : f \in S} \cup {[mode |-> "SUPPORT", fp |-> x.fp]}
  <1>25. /\ n = Top.node /\ Top.todo # <<>> /\ Head(Top.todo) = [mode |-> "EXPR", fp |-> x.fp]
         /\ stack' = SetTodo(u) /\ Elements(u) = g \cup Elements(Tail(Top.todo))
         /\ x.fp \in Elements(Text(n).expr) /\ Real(n) # None
    BY <1>3, <1>4, <1>6, <1>7, <1>17, <1>18, <1>19
  <1>26. g = {[mode |-> "RESOLVED", fp |-> f] : f \in ResolveExpr(program, symbol_table, x.fp, Real(n).dir)}
                 \cup {[mode |-> "SUPPORT", fp |-> x.fp]}
    BY <1>9
  <1> HIDE DEF g
  <1> QED
    BY <1>2, <1>18, <1>24, <1>25, <1>26, Zenon

\* The analysis is left at a computed include.
LEMMA TypesComputedNotCovered == ASSUME Types, ComputedNotCovered PROVE Types'
  <1>1. /\ stack' = <<>> /\ call' = NoCall /\ answer' = "not_covered" /\ partial' = TRUE
        /\ UNCHANGED <<program, caches, command, roots, closure, requests>>
    BY DEF ComputedNotCovered, LeaveFindNode
  <1>2. CachesOK'
    BY <1>1 DEF Types, CachesOK, caches, Real, AllDefinitions
  <1>3. StackOK'
    BY <1>1 DEF StackOK, Elements
  <1>4. RequestOK'
    BY <1>1 DEF Types, RequestOK, Idle
  <1> QED
    BY <1>1, <1>2, <1>3, <1>4 DEF Types, CallOK

LEMMA TypesUpdate == ASSUME Types, UpdateSet PROVE Types' /\ Keeps
  <1>1. /\ Running /\ Top.todo # <<>> /\ Head(Top.todo).mode = "SUPPORT"
        /\ records' = Update(records, TopRecord, {Head(Top.todo).fp})
        /\ stack' = SetTodo(Tail(Top.todo))
        /\ UNCHANGED <<program, file_cache, symbol_table, node_cache, nodes, call, request>>
    BY DEF UpdateSet
  <1>3. PICK n, q, x, r : n = Top.node /\ q = Top.todo /\ x = Head(q) /\ r = TopRecord
    OBVIOUS
  <1>4. /\ q \in Seq(Items) /\ q # <<>> /\ n \in DOMAIN nodes /\ \A e \in Elements(q) : Has(n, e)
        /\ stack \in Seq(FrameType) /\ stack # <<>>
    BY <1>1, <1>3, RunningFacts
  <1>5. x \in Items /\ Tail(q) \in Seq(Items) /\ Elements(q) = {x} \cup Elements(Tail(q))
    BY <1>3, <1>4, HeadElements
  <1>6. x.fp \in Symbol
    <2>1. Real(n) # None /\ x.fp \in Elements(Text(n).expr)
      BY <1>1, <1>3, <1>4, <1>5 DEF Has
    <2>2. Real(n) \in DOMAIN program
      BY <1>4, <2>1 DEF Types, CachesOK
    <2>3. Text(n).expr \in Seq(Symbol)
      BY <2>2, ProgramFacts DEF Text, Types, CachesOK
    <2> QED
      BY <2>1, <2>3, ElementsType
  <1>2. CachesOK' /\ Keeps
    <2>1. r \in DOMAIN records /\ records \in Seq(RecordType)
      BY <1>3, <1>4 DEF TopRecord, Types, CachesOK
    <2>2. PICK recs, ss : recs = records /\ ss = {x.fp} /\ ss \in SUBSET Symbol
      BY <1>6
    <2>3. Update(recs, r, ss) \in Seq(RecordType) /\ DOMAIN Update(recs, r, ss) = DOMAIN recs
      BY <2>1, <2>2, UpdateFacts
    <2>4. records' \in Seq(RecordType) /\ DOMAIN records' = DOMAIN records
      BY <1>1, <1>3, <2>2, <2>3
    <2> QED
      BY <1>1, <2>4 DEF Types, CachesOK, Keeps, Real, AllDefinitions
  <1>7. StackOK'
    <2>1. PICK t \in Seq(Items) : t = Tail(q)
      BY <1>5
    <2>2. \A e \in Elements(t) : Has(n, e)
      BY <1>4, <1>5, <2>1
    <2> QED
      BY <1>1, <1>2, <1>3, <1>4, <2>1, <2>2, StackTodo DEF Types
  <1>8. stack' # <<>>
    BY <1>1, <1>3, <1>4, <1>5, TodoFacts
  <1>9. CallOK'
    BY <1>1, <1>8 DEF CallOK, Types, Running, NoCall
  <1>10. RequestOK'
    BY <1>1, <1>8, RunningFacts, RequestKept DEF Types, Idle
  <1> QED
    BY <1>2, <1>7, <1>9, <1>10 DEF Types

LEMMA TypesFinish == ASSUME Types, Finish PROVE Types' /\ Keeps
  <1>1. /\ Running /\ call' = ReturnNode(Top.node) /\ stack' = SubSeq(stack, 1, Len(stack) - 1)
        /\ UNCHANGED <<program, caches, request>>
    BY DEF Finish
  <1>2. CachesOK' /\ Keeps
    BY <1>1 DEF Types, CachesOK, caches, Keeps, Real, AllDefinitions
  <1>3. StackOK'
    BY <1>1, <1>2, StackPop DEF Types, Running
  <1>4. call' # NoCall /\ call'.op = "return" /\ call'.node \in DOMAIN nodes'
    BY <1>1, RunningFacts DEF ReturnNode, NoCall, caches
  <1>5. RequestOK'
    BY <1>1, <1>4, RunningFacts, RequestKept DEF Types, Idle
  <1> QED
    BY <1>2, <1>3, <1>4, <1>5 DEF Types, CallOK

LEMMA ReturnFacts ==
    ASSUME Types, call.op = "return"
    PROVE  call.node \in DOMAIN nodes /\ ~Idle
  <1>1. CallOK
    BY DEF Types
  <1>2. call # NoCall
    BY DEF NoCall
  <1>3. call.op # "call"
    OBVIOUS
  <1>4. call.node \in DOMAIN nodes
    BY <1>1, <1>2, <1>3 DEF CallOK
  <1> QED
    BY <1>2, <1>4 DEF Idle

\* The node returned becomes a child of the one on top.
LEMMA ChildFacts ==
    ASSUME Types, AddChild
    PROVE  /\ Top.node \in DOMAIN nodes /\ call.node \in DOMAIN nodes
           /\ nodes' \in Seq(NodeType) /\ DOMAIN nodes' = DOMAIN nodes
           /\ \A n \in DOMAIN nodes : /\ nodes'[n].real = nodes[n].real
                                      /\ nodes'[n].support_record = nodes[n].support_record
                                      /\ n # Top.node => nodes'[n] = nodes[n]
           /\ nodes'[Top.node].children = nodes[Top.node].children \cup {call.node}
           /\ records' \in Seq(RecordType) /\ DOMAIN records' = DOMAIN records
           /\ \A r \in DOMAIN records : /\ records'[r].valid = records[r].valid
                                        /\ records[r].support \subseteq records'[r].support
           /\ ~Top.dummy => records[nodes[call.node].support_record].support
                               \subseteq records'[nodes[Top.node].support_record].support
           /\ stack # <<>> /\ stack \in Seq(FrameType) /\ ~Idle
  <1>1. /\ call.op = "return" /\ stack # <<>>
        /\ nodes' = [nodes EXCEPT ![Top.node].children = @ \cup {call.node}]
        /\ records' = IF Top.dummy THEN records
                      ELSE Update(records, TopRecord, records[nodes[call.node].support_record].support)
    BY DEF AddChild
  <1>2. PICK n, c, fr : n = Top.node /\ c = call.node /\ fr = Top
    OBVIOUS
  <1>3. stack \in Seq(FrameType) /\ fr \in Elements(stack)
    BY <1>1, <1>2, TopFacts DEF Types, StackOK
  <1>4. n \in DOMAIN nodes /\ c \in DOMAIN nodes /\ ~Idle
    BY <1>1, <1>2, <1>3, ReturnFacts DEF Types, StackOK
  <1>5. /\ nodes \in Seq(NodeType) /\ nodes[n] \in NodeType /\ c \in Nat
    BY <1>4, NodesType DEF Types, CachesOK
  <1> DEFINE e == [nodes[n] EXCEPT !.children = @ \cup {c}]
  <1>6. /\ e \in NodeType /\ e.real = nodes[n].real /\ e.support_record = nodes[n].support_record
        /\ e.children = nodes[n].children \cup {c}
    BY <1>5 DEF NodeType
  <1>7. nodes' = [nodes EXCEPT ![n] = e]
    BY <1>1, <1>2
  <1> HIDE DEF e
  <1>8. /\ nodes' \in Seq(NodeType) /\ DOMAIN nodes' = DOMAIN nodes /\ nodes'[n] = e
        /\ \A m \in DOMAIN nodes : m # n => nodes'[m] = nodes[m]
    BY <1>4, <1>5, <1>6, <1>7
  <1>9. /\ records' \in Seq(RecordType) /\ DOMAIN records' = DOMAIN records
        /\ \A r \in DOMAIN records : /\ records'[r].valid = records[r].valid
                                     /\ records[r].support \subseteq records'[r].support
        /\ ~Top.dummy => records[nodes[c].support_record].support
                            \subseteq records'[nodes[n].support_record].support
    <2>1. CASE Top.dummy
      BY <1>1, <2>1 DEF Types, CachesOK
    <2>2. CASE ~Top.dummy
      <3>1. PICK recs, r, ss : /\ recs = records /\ r = nodes[n].support_record
                               /\ ss = records[nodes[c].support_record].support
        OBVIOUS
      <3>2. recs \in Seq(RecordType) /\ r \in DOMAIN recs /\ ss \in SUBSET Symbol
        <4>1. nodes[c].support_record \in DOMAIN records /\ nodes[n].support_record \in DOMAIN records
              /\ records \in Seq(RecordType)
          BY <1>4 DEF Types, CachesOK
        <4>2. records[nodes[c].support_record] \in RecordType
          BY <4>1
        <4> QED
          BY <3>1, <4>1, <4>2 DEF RecordType
      <3>3. records' = Update(recs, r, ss)
        BY <1>1, <1>2, <2>2, <3>1 DEF TopRecord
      <3>4. /\ Update(recs, r, ss) \in Seq(RecordType)
            /\ DOMAIN Update(recs, r, ss) = DOMAIN recs
            /\ \A q \in DOMAIN recs : /\ Update(recs, r, ss)[q].valid = recs[q].valid
                                      /\ recs[q].support \subseteq Update(recs, r, ss)[q].support
            /\ Update(recs, r, ss)[r].support = recs[r].support \cup ss
        BY <3>2, UpdateFacts
      <3> QED
        BY <3>1, <3>3, <3>4
    <2> QED
      BY <2>1, <2>2
  <1> QED
    BY <1>1, <1>2, <1>3, <1>4, <1>6, <1>8, <1>9

LEMMA TypesChild == ASSUME Types, AddChild PROVE Types' /\ Keeps
  <1>1. /\ call' = NoCall /\ UNCHANGED <<program, file_cache, symbol_table, node_cache, stack, request>>
    BY DEF AddChild
  <1>2. PICK n, c : n = Top.node /\ c = call.node
    OBVIOUS
  <1>3. /\ n \in DOMAIN nodes /\ c \in DOMAIN nodes
        /\ nodes' \in Seq(NodeType) /\ DOMAIN nodes' = DOMAIN nodes
        /\ \A m \in DOMAIN nodes : /\ nodes'[m].real = nodes[m].real
                                   /\ nodes'[m].support_record = nodes[m].support_record
                                   /\ m # n => nodes'[m] = nodes[m]
        /\ nodes'[n].children = nodes[n].children \cup {c}
        /\ records' \in Seq(RecordType) /\ DOMAIN records' = DOMAIN records
        /\ stack # <<>> /\ ~Idle
    BY <1>2, ChildFacts
  <1>4. Keeps
    BY <1>1, <1>3 DEF Keeps
  <1>5. CachesOK'
    <2>1. AllDefinitions(program)' = AllDefinitions(program)
      BY <1>1 DEF AllDefinitions
    <2>2. ASSUME NEW m \in DOMAIN nodes
          PROVE  /\ nodes'[m].real \in DOMAIN program \cup {None}
                 /\ nodes'[m].children \subseteq DOMAIN nodes
                 /\ nodes'[m].support_record \in DOMAIN records
      BY <1>3 DEF Types, CachesOK, Real
    <2> QED
      BY <1>1, <1>3, <2>1, <2>2 DEF Types, CachesOK, Real
  <1>6. StackOK'
    BY <1>1, <1>4, StackKept DEF Types
  <1>7. RequestOK'
    BY <1>1, <1>3, RequestKept DEF Types, Idle
  <1> QED
    BY <1>1, <1>4, <1>5, <1>6, <1>7 DEF Types, CallOK

\* A run of the algorithm begins.
LEMMA RunTypes ==
    ASSUME Types, NEW file \in DOMAIN program, NEW d_opts \in SUBSET AllDefinitions(program),
           RunAlgorithm(file, d_opts), stack = <<>>, UNCHANGED <<program, stack>>
    PROVE  /\ CachesOK' /\ StackOK' /\ CallOK' /\ Keeps /\ ~Idle'
           /\ symbol_table' = symbol_table \cup d_opts
           /\ records' \in Seq(RecordType) /\ DOMAIN records' = DOMAIN records
           /\ \A r \in DOMAIN records :
                /\ records'[r].support = records[r].support
                /\ records'[r].valid <=> records[r].valid /\ records[r].support \cap Symbols(d_opts) = {}
  <1>1. /\ symbol_table' = symbol_table \cup d_opts
        /\ records' = InvalidateRecords(records, Symbols(d_opts))
        /\ call' = FindNodeCall("RESOLVED", file, NoDir)
        /\ UNCHANGED <<file_cache, node_cache, nodes>>
    BY DEF RunAlgorithm
  <1>2. PICK recs, ss : recs = records /\ ss = Symbols(d_opts) /\ recs \in Seq(RecordType)
    BY DEF Types, CachesOK
  <1>3. /\ InvalidateRecords(recs, ss) \in Seq(RecordType)
        /\ DOMAIN InvalidateRecords(recs, ss) = DOMAIN recs
        /\ \A r \in DOMAIN recs :
             /\ InvalidateRecords(recs, ss)[r].support = recs[r].support
             /\ InvalidateRecords(recs, ss)[r].valid <=> recs[r].valid /\ recs[r].support \cap ss = {}
    BY <1>2, InvalidateFacts
  <1>4. /\ records' \in Seq(RecordType) /\ DOMAIN records' = DOMAIN records
        /\ \A r \in DOMAIN records :
             /\ records'[r].support = records[r].support
             /\ records'[r].valid <=> records[r].valid /\ records[r].support \cap Symbols(d_opts) = {}
    BY <1>1, <1>2, <1>3
  <1>5. CachesOK' /\ Keeps
    BY <1>1, <1>4 DEF Types, CachesOK, Keeps, Real, AllDefinitions
  <1>6. StackOK'
    BY <1>5, StackKept DEF Types
  <1>7. CallOK' /\ ~Idle'
    BY <1>1 DEF CallOK, FindNodeCall, Idle, NoCall, Mode
  <1> QED
    BY <1>1, <1>4, <1>5, <1>6, <1>7

LEMMA CommandFacts ==
    ASSUME NEW c \in Commands
    PROVE  /\ c.d_opts \in SUBSET AllDefinitions(program) /\ c.d_opts \subseteq Definition
           /\ c.roots \in Seq(File) /\ c.roots # <<>>
           /\ Len(c.roots) \in Nat \ {0} /\ DOMAIN c.roots = 1 .. Len(c.roots)
  <1>1. c.roots \in Seq(File) /\ c.roots # <<>> /\ c.d_opts \subseteq Definition
    BY IncludeAssumption
  <1>2. c.d_opts \subseteq AllDefinitions(program)
    BY DEF AllDefinitions
  <1>3. Len(c.roots) \in Nat \ {0} /\ DOMAIN c.roots = 1 .. Len(c.roots)
    BY <1>1
  <1> QED
    BY <1>1, <1>2, <1>3

LEMMA TypesRequest ==
    ASSUME Types, NEW c \in Commands, Request(c)
    PROVE  /\ Types' /\ Keeps /\ Current' = 1
           /\ Head(c.roots) = c.roots[1] /\ Head(c.roots) \in DOMAIN program
  <1>1. /\ Idle /\ requests < MaxRequests
        /\ \A i \in DOMAIN c.roots : c.roots[i] \in DOMAIN program
        /\ command' = c /\ roots' = Tail(c.roots) /\ closure' = {} /\ answer' = "none"
        /\ requests' = requests + 1
        /\ RunAlgorithm(Head(c.roots), c.d_opts) /\ UNCHANGED <<program, stack, partial>>
    BY DEF Request
  <1>2. /\ c.d_opts \in SUBSET AllDefinitions(program)
        /\ c.roots \in Seq(File) /\ c.roots # <<>>
        /\ Len(c.roots) \in Nat \ {0} /\ DOMAIN c.roots = 1 .. Len(c.roots)
    BY CommandFacts
  <1>3. Head(c.roots) = c.roots[1] /\ c.roots[1] \in DOMAIN program
    BY <1>1, <1>2
  <1>4. CachesOK' /\ StackOK' /\ CallOK' /\ Keeps /\ ~Idle'
    <2>1. PICK f, d : f = Head(c.roots) /\ d = c.d_opts
      OBVIOUS
    <2>2. f \in DOMAIN program /\ d \in SUBSET AllDefinitions(program) /\ RunAlgorithm(f, d) /\ stack = <<>>
      BY <1>1, <1>2, <1>3, <2>1 DEF Idle
    <2> QED
      BY <1>1, <2>2, RunTypes
  <1>5. /\ Tail(c.roots) \in Seq(File) /\ Len(Tail(c.roots)) = Len(c.roots) - 1
        /\ DOMAIN Tail(c.roots) = 1 .. Len(c.roots) - 1
        /\ \A j \in 1 .. Len(c.roots) - 1 : Tail(c.roots)[j] = c.roots[1 + j]
    BY <1>2
  <1>6. Current' = 1
    BY <1>1, <1>2, <1>5 DEF Current
  <1>7. requests' \in 0 .. MaxRequests /\ partial' \in BOOLEAN
    BY <1>1, IncludeAssumption DEF Types, RequestOK
  <1>8. RequestOK'
    BY <1>1, <1>2, <1>4, <1>5, <1>6, <1>7 DEF RequestOK
  <1> QED
    BY <1>3, <1>4, <1>6, <1>8 DEF Types

\* What is reached are nodes, and their files are files.
LEMMA ReachableType ==
    ASSUME CachesOK, NEW n \in DOMAIN nodes
    PROVE  /\ Reachable(n) \subseteq DOMAIN nodes /\ n \in Reachable(n)
           /\ \A m \in Reachable(n) : nodes[m].children \subseteq Reachable(n)
           /\ IncludeClosure(n) \subseteq DOMAIN program
           /\ \A m \in Reachable(n) : Real(m) # None => Real(m) \in IncludeClosure(n)
  <1> DEFINE S == DOMAIN nodes
             succ == [m \in S |-> nodes[m].children]
             start == {n}
             R == Closure(start, succ)
  <1>1. IsFiniteSet(S)
    <2>1. S = 1 .. Len(nodes) /\ Len(nodes) \in Nat
      BY NodesType
    <2> QED
      BY <2>1, FS_Interval
  <1>2. \A m \in S : nodes[m].children \in SUBSET S
    BY DEF CachesOK
  <1>3. succ \in [S -> SUBSET S] /\ start \subseteq S /\ \A m \in S : succ[m] = nodes[m].children
    BY <1>2
  <1>4. Reachable(n) = R
    BY DEF Reachable
  <1> HIDE DEF succ, S, start
  <1>5. start \subseteq R /\ R \subseteq S /\ IsClosed(R, succ) /\ DOMAIN succ = S
    BY <1>1, <1>3, ClosureClosed
  <1> HIDE DEF R
  <1>6. R \subseteq DOMAIN nodes /\ n \in R /\ \A m \in R : nodes[m].children \subseteq R
    BY <1>3, <1>5 DEF S, start, IsClosed
  <1>7. \A m \in R : Real(m) \in DOMAIN program \cup {None}
    BY <1>6 DEF CachesOK
  <1>8. IncludeClosure(n) = {Real(m) : m \in R} \ {None}
    BY <1>4 DEF IncludeClosure, Real
  <1> QED
    BY <1>4, <1>6, <1>7, <1>8

LEMMA RootsFacts ==
    ASSUME Types, ~Idle
    PROVE  /\ command \in Commands /\ command.roots \in Seq(File)
           /\ DOMAIN command.roots = 1 .. Len(command.roots) /\ Len(command.roots) \in Nat
           /\ \A i \in DOMAIN command.roots : command.roots[i] \in DOMAIN program
           /\ Len(roots) \in Nat /\ Current \in 1 .. Len(command.roots)
           /\ command.roots[Current] \in DOMAIN program
           /\ roots = <<>> => Current = Len(command.roots)
           /\ roots # <<>> => /\ Head(roots) = command.roots[Current + 1]
                              /\ Current + 1 \in 1 .. Len(command.roots)
           /\ answer = "none"
  <1>1. /\ command \in Commands
        /\ \A i \in DOMAIN command.roots : command.roots[i] \in DOMAIN program
        /\ roots \in Seq(File) /\ Len(roots) < Len(command.roots)
        /\ \A j \in DOMAIN roots : roots[j] = command.roots[Current + j]
        /\ answer = "none"
    BY DEF Types, RequestOK
  <1>2. PICK c \in Commands : c = command
    BY <1>1
  <1>3. c.roots \in Seq(File) /\ Len(c.roots) \in Nat /\ DOMAIN c.roots = 1 .. Len(c.roots)
    BY CommandFacts
  <1>4. Len(roots) \in Nat /\ (roots = <<>> => Len(roots) = 0)
        /\ (roots # <<>> => Len(roots) > 0 /\ 1 \in DOMAIN roots /\ Head(roots) = roots[1])
    BY <1>1
  <1>5. Current = Len(c.roots) - Len(roots)
    BY <1>2 DEF Current
  <1>6. Current \in 1 .. Len(c.roots) /\ (roots = <<>> => Current = Len(c.roots))
        /\ (roots # <<>> => Current + 1 \in 1 .. Len(c.roots))
    BY <1>1, <1>2, <1>3, <1>4, <1>5
  <1> QED
    BY <1>1, <1>2, <1>3, <1>4, <1>6

LEMMA TypesRootDone ==
    ASSUME Types, RootDone
    PROVE  /\ Types' /\ Keeps /\ ~Idle /\ stack = <<>> /\ call.op = "return"
           /\ closure' = closure \cup IncludeClosure(call.node)
           /\ UNCHANGED <<program, stack, command, partial>>
           /\ roots = <<>> => UNCHANGED caches /\ call' = NoCall /\ answer' = "closure" /\ roots' = roots
           /\ roots # <<>> => /\ RunAlgorithm(command.roots[Current + 1], command.d_opts)
                              /\ Current' = Current + 1 /\ answer' = "none"
  <1>1. /\ call.op = "return" /\ stack = <<>> /\ closure' = closure \cup IncludeClosure(call.node)
        /\ UNCHANGED <<program, stack, command, requests, partial>>
    BY DEF RootDone
  <1>2. call.node \in DOMAIN nodes /\ ~Idle
    BY <1>1, ReturnFacts
  <1>3. closure' \subseteq File
    <2>1. PICK n \in DOMAIN nodes : n = call.node
      BY <1>2
    <2>2. IncludeClosure(n) \subseteq DOMAIN program
      BY ReachableType DEF Types
    <2>3. DOMAIN program \subseteq File /\ closure \subseteq File
      BY ProgramFacts DEF Types, CachesOK, RequestOK
    <2> QED
      BY <1>1, <2>1, <2>2, <2>3
  <1>4. /\ command \in Commands /\ \A i \in DOMAIN command.roots : command.roots[i] \in DOMAIN program
        /\ roots \in Seq(File) /\ Len(roots) < Len(command.roots)
        /\ \A j \in DOMAIN roots : roots[j] = command.roots[Current + j]
        /\ requests \in 0 .. MaxRequests /\ partial \in BOOLEAN /\ answer = "none"
    BY <1>2 DEF Types, RequestOK
  <1>5. CASE roots = <<>>
    <2>1. UNCHANGED caches /\ call' = NoCall /\ answer' = "closure" /\ roots' = roots
      BY <1>5 DEF RootDone
    <2>2. CachesOK' /\ Keeps
      BY <1>1, <2>1 DEF Types, CachesOK, caches, Keeps, Real, AllDefinitions
    <2>3. StackOK'
      BY <1>1, <2>2, StackKept DEF Types
    <2>4. Current' = Current
      BY <1>1, <2>1 DEF Current
    <2>5. RequestOK'
      BY <1>1, <1>3, <1>4, <1>5, <2>1, <2>4 DEF RequestOK, Idle
    <2> QED
      BY <1>1, <1>2, <1>5, <2>1, <2>2, <2>3, <2>5 DEF Types, CallOK
  <1>6. CASE roots # <<>>
    <2>1. RunAlgorithm(Head(roots), command.d_opts) /\ roots' = Tail(roots) /\ answer' = answer
      BY <1>6 DEF RootDone
    <2>2. /\ Head(roots) = command.roots[Current + 1] /\ Current + 1 \in 1 .. Len(command.roots)
          /\ DOMAIN command.roots = 1 .. Len(command.roots) /\ Len(command.roots) \in Nat
          /\ Len(roots) \in Nat /\ Current \in 1 .. Len(command.roots)
      BY <1>2, <1>6, RootsFacts
    <2>3. PICK f, d : f = Head(roots) /\ d = command.d_opts
      OBVIOUS
    <2>4. f \in DOMAIN program /\ d \in SUBSET AllDefinitions(program)
      <3>1. PICK c \in Commands : c = command
        BY <1>4
      <3> QED
        BY <1>4, <2>2, <2>3, <3>1, CommandFacts
    <2>5. CachesOK' /\ StackOK' /\ CallOK' /\ Keeps /\ ~Idle'
      BY <1>1, <2>1, <2>3, <2>4, RunTypes
    <2>6. /\ Tail(roots) \in Seq(File) /\ Len(Tail(roots)) = Len(roots) - 1 /\ Len(roots) >= 1
          /\ DOMAIN Tail(roots) = 1 .. Len(roots) - 1 /\ DOMAIN roots = 1 .. Len(roots)
          /\ \A j \in 1 .. Len(roots) - 1 : Tail(roots)[j] = roots[1 + j]
      BY <1>4, <1>6
    <2>7. Current' = Current + 1 /\ Current \in Int
      BY <1>1, <2>1, <2>2, <2>6 DEF Current
    <2>8. \A j \in DOMAIN roots' : roots'[j] = command.roots[Current' + j]
      <3>1. ASSUME NEW j \in 1 .. Len(roots) - 1 PROVE roots[1 + j] = command.roots[Current' + j]
        <4>1. 1 + j \in DOMAIN roots /\ Current + (1 + j) = Current' + j
          BY <2>2, <2>6, <2>7
        <4>2. roots[1 + j] = command.roots[Current + (1 + j)]
          BY <1>4, <4>1, Zenon
        <4> QED
          BY <4>1, <4>2
      <3> QED
        BY <2>1, <2>6, <3>1
    <2>9. RequestOK'
      BY <1>1, <1>3, <1>4, <2>1, <2>2, <2>5, <2>6, <2>8 DEF RequestOK
    <2> QED
      BY <1>1, <1>2, <1>4, <1>6, <2>1, <2>2, <2>5, <2>7, <2>9 DEF Types
  <1> QED
    BY <1>5, <1>6

LEMMA TypesCleared ==
    ASSUME ClearStatCaches, stack' = <<>>, call' = NoCall, program' \in Programs
    PROVE  CachesOK' /\ StackOK' /\ CallOK'
  BY DEF ClearStatCaches, CachesOK, StackOK, CallOK, Elements, Empty

LEMMA TypesTimeOut == ASSUME Types, TimeOut PROVE Types'
  <1>1. /\ ClearStatCaches /\ stack' = <<>> /\ call' = NoCall /\ answer' = "not_covered"
        /\ UNCHANGED <<program, command, roots, closure, requests>> /\ partial' = FALSE
    BY DEF TimeOut, ClearStatCaches
  <1>2. RequestOK'
    BY <1>1 DEF Types, RequestOK, Idle
  <1> QED
    BY <1>1, <1>2, TypesCleared DEF Types, CachesOK

LEMMA TypesStatReset == ASSUME Types, StatReset PROVE Types'
  <1>1. /\ ClearStatCaches /\ stack = <<>> /\ call = NoCall /\ answer' = "none" /\ program' \in Programs
        /\ UNCHANGED <<stack, call, command, roots, closure, requests>> /\ partial' = FALSE
    BY DEF StatReset, Idle, ClearStatCaches
  <1>2. RequestOK'
    BY <1>1 DEF Types, RequestOK, Idle
  <1> QED
    BY <1>1, <1>2, TypesCleared DEF Types

LEMMA TypesStutter == ASSUME Types, UNCHANGED vars PROVE Types'
  <1>1. CachesOK' /\ Keeps
    BY DEF vars, caches, Types, CachesOK, Keeps, Real, AllDefinitions
  <1>2. StackOK'
    BY <1>1, StackKept DEF vars, Types
  <1>3. CallOK'
    BY DEF vars, caches, Types, CallOK, Has, Real, Text, CallItem, CallDir, Top
  <1>4. RequestOK'
    BY DEF vars, request, Types, RequestOK, Idle, Current
  <1> QED
    BY <1>1, <1>2, <1>3, <1>4 DEF Types

\* Every step of the server keeps the data structures as they should be.
LEMMA TypesStep == Types /\ [Next]_vars => Types'
  <1> SUFFICES ASSUME Types, [Next]_vars PROVE Types'
    OBVIOUS
  <1>1. CASE Analyze
    BY <1>1, TypesHit, TypesNext, TypesMissing, TypesReal, TypesMiss, TypesLeaves, TypesCall,
       TypesComputed, TypesComputedNotCovered, TypesUpdate, TypesFinish, TypesChild, TypesRootDone
       DEF Analyze, FindNode, Leaves
  <1>2. ASSUME NEW c \in Commands, Request(c) PROVE Types'
    BY <1>2, TypesRequest
  <1> QED
    BY <1>1, <1>2, TypesTimeOut, TypesLeaves, TypesStatReset, TypesStutter DEF Next, Leaves

\* The graph of nodes, the cache, the stack of FindNode and the call being made
\* refer to nodes, records and includes that exist, whatever is cut short.
THEOREM TypesInvariant == Spec => []Types
  <1>1. Init => Types
    BY TypesInit
  <1>2. Types /\ [Next]_vars => Types'
    BY TypesStep
  <1> QED
    BY <1>1, <1>2, PTL DEF Spec

\* TypeOK: in particular a node that is rebuilt takes over a record that exists.
THEOREM TypeCorrect == Spec => []TypeOK
  <1>1. Types => TypeOK
    <2> SUFFICES ASSUME Types PROVE TypeOK
      OBVIOUS
    <2>1. DOMAIN program \subseteq File /\ AllDefinitions(program) \subseteq Definition
      BY ProgramFacts, DefinitionsType DEF Types, CachesOK
    <2>2. \A i \in DOMAIN stack : stack[i].node \in DOMAIN nodes
      BY DEF Types, StackOK, Elements
    <2>3. call.op = "return" => call.node \in DOMAIN nodes
      BY ReturnFacts
    <2>4. records \in Seq([support : SUBSET Symbol, valid : BOOLEAN])
      BY DEF Types, CachesOK, RecordType
    <2> QED
      BY <2>1, <2>2, <2>3, <2>4 DEF Types, CachesOK, RequestOK, TypeOK, Real
  <1> QED
    BY <1>1, TypesInvariant, PTL

-----------------------------------------------------------------------------
(* What the nodes stand for *)

\* The function g says of the nodes that there are what h says.
Same(h, g) ==
    \A n \in DOMAIN h : n \in DOMAIN g /\ g[n].real = h[n].real /\ g[n].nx = h[n].nx

LEMMA ChildGrows ==
    ASSUME NEW p, NEW t, NEW u, t \subseteq u, NEW a, NEW b, NEW a2, NEW b2,
           a2.real = a.real, a2.nx = a.nx, b2.real = b.real, b2.nx = b.nx
    PROVE  /\ Allowed(p, t, a) \subseteq Allowed(p, u, a2)
           /\ ChildOK(p, t, a, b) => ChildOK(p, u, a2, b2)
  <1>1. MayInclude(p, a.real, t) \subseteq MayInclude(p, a.real, u)
    BY MayIncludeMonotone
  <1>2. Allowed(p, t, a) \subseteq Allowed(p, u, a2)
    BY <1>1 DEF Allowed
  <1> QED
    BY <1>2 DEF ChildOK

LEMMA SameGrows ==
    ASSUME NEW h, NEW g, Same(h, g), NEW n \in DOMAIN h, NEW c \in DOMAIN h,
           symbol_table \subseteq symbol_table'
    PROVE  /\ Allowed(program, symbol_table, h[n]) \subseteq Allowed(program, symbol_table', g[n])
           /\ ChildOK(program, symbol_table, h[n], h[c]) => ChildOK(program, symbol_table', g[n], g[c])
  <1>1. g[n].real = h[n].real /\ g[n].nx = h[n].nx /\ g[c].real = h[c].real /\ g[c].nx = h[c].nx
    BY DEF Same
  <1>2. PICK t, u, a, b, a2, b2 : /\ t = symbol_table /\ u = symbol_table' /\ a = h[n] /\ b = h[c]
                                  /\ a2 = g[n] /\ b2 = g[c]
    OBVIOUS
  <1>3. /\ Allowed(program, t, a) \subseteq Allowed(program, u, a2)
        /\ ChildOK(program, t, a, b) => ChildOK(program, u, a2, b2)
    BY <1>1, <1>2, ChildGrows
  <1> QED
    BY <1>2, <1>3

LEMMA EdgesGrow ==
    ASSUME NEW h, NEW g, DOMAIN h = DOMAIN nodes, EdgesOK(h), Same(h, g), CachesOK,
           program' = program, symbol_table \subseteq symbol_table',
           \A n \in DOMAIN nodes' : \A c \in nodes'[n].children :
             \/ n \in DOMAIN nodes /\ c \in nodes[n].children
             \/ ChildOK(program, symbol_table', g[n], g[c])
    PROVE  EdgesOK(g)'
  <1>1. ASSUME NEW n \in DOMAIN nodes, NEW c \in nodes[n].children
        PROVE  ChildOK(program, symbol_table', g[n], g[c])
    <2>1. c \in DOMAIN nodes
      BY DEF CachesOK
    <2>2. ChildOK(program, symbol_table, h[n], h[c])
      BY DEF EdgesOK
    <2>3. g[n].real = h[n].real /\ g[n].nx = h[n].nx /\ g[c].real = h[c].real /\ g[c].nx = h[c].nx
      BY <2>1 DEF Same
    <2> QED
      BY <2>2, <2>3, ChildGrows
  <1> QED
    BY <1>1 DEF EdgesOK

LEMMA AnswersSame ==
    ASSUME NEW p, NEW a, NEW a2, NEW k, a2.real = a.real, a2.nx = a.nx, Answers(p, a, k)
    PROVE  Answers(p, a2, k)
  BY DEF Answers

LEMMA KeysGrow ==
    ASSUME NEW h, NEW g, DOMAIN h = DOMAIN nodes, KeysOK(h), Same(h, g), CachesOK, program' = program,
           \A k \in DOMAIN node_cache' :
             \/ k \in DOMAIN node_cache /\ node_cache'[k] = node_cache[k]
             \/ k[1] \in Mode \cup {"REAL"} /\ Answers(program, g[node_cache'[k]], k)
    PROVE  KeysOK(g)'
  <1>1. ASSUME NEW k \in DOMAIN node_cache
        PROVE  k[1] \in Mode \cup {"REAL"} /\ Answers(program, g[node_cache[k]], k)
    <2>1. node_cache[k] \in DOMAIN nodes
      BY DEF CachesOK
    <2>2. g[node_cache[k]].real = h[node_cache[k]].real /\ g[node_cache[k]].nx = h[node_cache[k]].nx
      BY <2>1 DEF Same
    <2> QED
      BY <2>2, AnswersSame DEF KeysOK
  <1> QED
    BY <1>1 DEF KeysOK

\* The activations stay as they are, apart from their lists.
LEMMA FramesGrow ==
    ASSUME NEW h, NEW g, DOMAIN h = DOMAIN nodes, FramesOK(h), Same(h, g), StackOK,
           program' = program, symbol_table \subseteq symbol_table',
           DOMAIN stack' \subseteq DOMAIN stack, stack' \in Seq(FrameType),
           \A i \in DOMAIN stack' : stack'[i].node = stack[i].node /\ stack'[i].dummy = stack[i].dummy,
           \A i \in DOMAIN stack' : \A x \in Elements(stack'[i].todo) :
             \/ x \in Elements(stack[i].todo)
             \/ x.mode = "RESOLVED" => x.fp \in Allowed(program, symbol_table', g[stack[i].node]),
           command' = command, Current' = Current
    PROVE  FramesOK(g)'
  <1>0. /\ stack \in Seq(FrameType) /\ Len(stack) \in Nat /\ DOMAIN stack = 1 .. Len(stack)
        /\ Len(stack') \in Nat /\ DOMAIN stack' = 1 .. Len(stack')
    BY DEF StackOK
  <1>1. ASSUME NEW i \in DOMAIN stack'
        PROVE  /\ stack[i] \in Elements(stack) /\ stack[i].node \in DOMAIN nodes
               /\ g[stack[i].node].real = h[stack[i].node].real /\ g[stack[i].node].nx = h[stack[i].node].nx
               /\ i > 1 => i - 1 \in DOMAIN stack'
    <2>1. stack[i] \in Elements(stack)
      BY DEF Elements
    <2>2. stack[i].node \in DOMAIN nodes
      BY <2>1 DEF StackOK
    <2>3. i > 1 => i - 1 \in DOMAIN stack'
      BY <1>0
    <2> QED
      BY <2>1, <2>2, <2>3 DEF Same
  <1>2. stack' # <<>> => g[stack'[1].node].real = command'.roots[Current']
    <2>1. SUFFICES ASSUME stack' # <<>> PROVE g[stack'[1].node].real = command'.roots[Current']
      OBVIOUS
    <2>2. 1 \in DOMAIN stack' /\ stack # <<>>
      BY <1>0, <2>1
    <2> QED
      BY <1>1, <2>2 DEF FramesOK
  <1>3. ASSUME NEW fr \in Elements(stack')
        PROVE  /\ fr.dummy => g[fr.node].real = None
               /\ \A x \in Elements(fr.todo) :
                    x.mode = "RESOLVED" => x.fp \in Allowed(program, symbol_table', g[fr.node])
    <2>1. PICK i \in DOMAIN stack' : fr = stack'[i]
      BY DEF Elements
    <2>2. fr.node = stack[i].node /\ fr.dummy = stack[i].dummy
      BY <2>1
    <2>3. fr.dummy => g[fr.node].real = None
      BY <1>1, <2>2 DEF FramesOK
    <2>4. Allowed(program, symbol_table, h[fr.node]) \subseteq Allowed(program, symbol_table', g[fr.node])
      <3>1. PICK n : n = fr.node /\ n \in DOMAIN h
        BY <1>1, <2>2
      <3> QED
        BY <3>1, SameGrows
    <2>5. ASSUME NEW x \in Elements(stack[i].todo), x.mode = "RESOLVED"
          PROVE  x.fp \in Allowed(program, symbol_table, h[fr.node])
      BY <1>1, <2>2, <2>5 DEF FramesOK
    <2> QED
      BY <2>1, <2>2, <2>3, <2>4, <2>5
  <1>4. ASSUME NEW i \in DOMAIN stack', i > 1
        PROVE  ChildOK(program, symbol_table', g[stack'[i - 1].node], g[stack'[i].node])
    <2>1. i \in DOMAIN stack /\ i - 1 \in DOMAIN stack'
      BY <1>1, <1>4
    <2>2. ChildOK(program, symbol_table, h[stack[i - 1].node], h[stack[i].node])
      BY <1>4, <2>1 DEF FramesOK
    <2>3. PICK n, c : n = stack[i - 1].node /\ c = stack[i].node
      OBVIOUS
    <2>4. n \in DOMAIN h /\ c \in DOMAIN h
      BY <1>1, <2>1, <2>3
    <2>5. ChildOK(program, symbol_table', g[n], g[c])
      BY <2>2, <2>3, <2>4, SameGrows
    <2> QED
      BY <2>1, <2>3, <2>5
  <1> QED
    BY <1>2, <1>3, <1>4 DEF FramesOK

\* An activation for a node that answers the caller.
LEMMA FramesPush ==
    ASSUME NEW h, NEW g, DOMAIN h = DOMAIN nodes, FramesOK(h), Same(h, g), StackOK,
           program' = program, symbol_table \subseteq symbol_table',
           NEW fr \in FrameType, stack' = Append(stack, fr),
           fr.dummy => g[fr.node].real = None,
           \A x \in Elements(fr.todo) :
             x.mode = "RESOLVED" => x.fp \in Allowed(program, symbol_table', g[fr.node]),
           IF stack = <<>> THEN g[fr.node].real = command.roots[Current]
           ELSE ChildOK(program, symbol_table', g[Top.node], g[fr.node]),
           command' = command, Current' = Current
    PROVE  FramesOK(g)'
  <1>0. /\ stack \in Seq(FrameType) /\ Len(stack) \in Nat /\ DOMAIN stack = 1 .. Len(stack)
        /\ stack' \in Seq(FrameType) /\ stack' # <<>> /\ DOMAIN stack' = 1 .. Len(stack) + 1
        /\ \A i \in DOMAIN stack : stack'[i] = stack[i]
        /\ stack'[Len(stack) + 1] = fr
        /\ Elements(stack') = Elements(stack) \cup {fr}
    BY PushFacts DEF StackOK
  <1>1. ASSUME NEW f \in Elements(stack)
        PROVE  /\ f.node \in DOMAIN nodes
               /\ g[f.node].real = h[f.node].real /\ g[f.node].nx = h[f.node].nx
    BY DEF StackOK, Same
  <1>2. g[stack'[1].node].real = command'.roots[Current']
    <2>1. CASE stack = <<>>
      BY <1>0, <2>1
    <2>2. CASE stack # <<>>
      <3>1. 1 \in DOMAIN stack
        BY <1>0, <2>2
      <3>2. stack[1] \in Elements(stack)
        BY <3>1 DEF Elements
      <3> QED
        BY <1>0, <1>1, <2>2, <3>1, <3>2 DEF FramesOK
    <2> QED
      BY <2>1, <2>2
  <1>3. ASSUME NEW f \in Elements(stack)
        PROVE  /\ f.dummy => g[f.node].real = None
               /\ \A x \in Elements(f.todo) :
                    x.mode = "RESOLVED" => x.fp \in Allowed(program, symbol_table', g[f.node])
    <2>1. Allowed(program, symbol_table, h[f.node]) \subseteq Allowed(program, symbol_table', g[f.node])
      <3>1. PICK n : n = f.node /\ n \in DOMAIN h
        BY <1>1
      <3> QED
        BY <3>1, SameGrows
    <2> QED
      BY <1>1, <2>1 DEF FramesOK
  <1>4. ASSUME NEW i \in DOMAIN stack', i > 1
        PROVE  ChildOK(program, symbol_table', g[stack'[i - 1].node], g[stack'[i].node])
    <2>1. CASE i = Len(stack) + 1
      <3>1. stack # <<>> /\ i - 1 = Len(stack) /\ Len(stack) \in DOMAIN stack
        BY <1>0, <1>4, <2>1
      <3>2. stack'[i - 1] = Top /\ stack'[i] = fr
        BY <1>0, <2>1, <3>1 DEF Top
      <3> QED
        BY <3>1, <3>2
    <2>2. CASE i # Len(stack) + 1
      <3>1. i \in DOMAIN stack /\ i - 1 \in DOMAIN stack
        BY <1>0, <1>4, <2>2
      <3>2. ChildOK(program, symbol_table, h[stack[i - 1].node], h[stack[i].node])
        BY <1>4, <3>1 DEF FramesOK
      <3>3. PICK n, c : n = stack[i - 1].node /\ c = stack[i].node
        OBVIOUS
      <3>4. stack[i] \in Elements(stack) /\ stack[i - 1] \in Elements(stack)
        BY <3>1 DEF Elements
      <3>5. n \in DOMAIN h /\ c \in DOMAIN h
        BY <1>1, <3>3, <3>4
      <3>6. ChildOK(program, symbol_table', g[n], g[c])
        BY <3>2, <3>3, <3>5, SameGrows
      <3> QED
        BY <1>0, <3>1, <3>3, <3>6
    <2> QED
      BY <2>1, <2>2
  <1> QED
    BY <1>0, <1>2, <1>3, <1>4 DEF FramesOK

LEMMA CallKeyFacts ==
    ASSUME Types, call.op = "call"
    PROVE  /\ CallKey = <<call.mode, call.fp, call.dir>>
           /\ CallKey[1] = call.mode /\ CallKey[2] = call.fp /\ CallKey[3] = call.dir
           /\ CallKey[1] \in Mode
           /\ KeyReal(program, CallKey) = Resolvant(program, call.mode, call.fp, call.dir)
           /\ call.mode = "RESOLVED" => KeyReal(program, CallKey) = call.fp
           /\ call.mode = "NEXT" => KeyReal(program, CallKey) = None
           /\ KeyNext(CallKey) = IF call.mode = "NEXT" THEN {call.fp} ELSE {}
  <1>1. CallKey = <<call.mode, call.fp, call.dir>>
    BY DEF CallKey, Key
  <1>2. CallKey[1] = call.mode /\ CallKey[2] = call.fp /\ CallKey[3] = call.dir
    BY <1>1
  <1>3. call.mode \in Mode
    BY CallFacts
  <1>4. call.mode # "REAL"
    BY <1>3 DEF Mode
  <1> QED
    BY <1>1, <1>2, <1>3, <1>4 DEF KeyReal, KeyNext, Resolvant

LEMMA TargetIs ==
    ASSUME Types, NEW h, Graph(h), NotReusable
    PROVE  Target = KeyReal(program, CallKey)
  <1>1. call.op = "call"
    BY DEF NotReusable
  <1>2. CASE Known(CallKey)
    <2>1. OldNode \in DOMAIN nodes /\ Target = Real(OldNode)
      BY <1>2 DEF Known, OldNode, Target, Types, CachesOK, Real
    <2>2. Answers(program, h[OldNode], CallKey)
      BY <1>2 DEF Known, OldNode, Graph, KeysOK
    <2>3. PICK n : n = OldNode
      OBVIOUS
    <2>4. h[n].real = nodes[n].real
      BY <2>1, <2>3 DEF Graph, Real
    <2> QED
      BY <2>1, <2>2, <2>3, <2>4 DEF Answers, Real
  <1>3. CASE ~Known(CallKey)
    BY <1>1, <1>3, CallKeyFacts DEF Target
  <1> QED
    BY <1>2, <1>3

\* A node that stands for what is looked up may become a child of the caller's.
LEMMA CallChild ==
    ASSUME Types, NEW h, Graph(h), call.op = "call", NEW a, Answers(program, a, CallKey)
    PROVE  IF stack = <<>> THEN a.real = command.roots[Current]
           ELSE ChildOK(program, symbol_table, h[Top.node], a)
  <1>1. CASE stack = <<>>
    <2>1. call.mode = "RESOLVED" /\ call.fp = command.roots[Current]
      BY <1>1 DEF Types, CallOK, Graph, CallsOK, NoCall
    <2> QED
      BY <1>1, <2>1, CallKeyFacts DEF Answers
  <1>2. CASE stack # <<>>
    <2>1. PICK n, f, x, d : n = Top.node /\ f = Real(n) /\ x = call.fp /\ d = call.dir
      OBVIOUS
    <2>2. n \in DOMAIN nodes
      <3>1. PICK fr : fr = Top /\ fr \in Elements(stack)
        BY <1>2, TopFacts DEF Types, StackOK
      <3> QED
        BY <2>1, <3>1 DEF Types, StackOK
    <2>3. h[n].real = f
      BY <2>1, <2>2 DEF Graph
    <2>4. call.mode \in Mode /\ Has(Top.node, CallItem) /\ call.dir = CallDir(Top.node, call.mode)
      BY <1>2 DEF Types, CallOK, NoCall
    <2>5. /\ \/ call.mode = "RESOLVED" /\ x \in DOMAIN program
             \/ /\ f # None
                /\ \/ call.mode = "QUOTE" /\ x \in Elements(program[f].quote)
                   \/ call.mode = "ANGLE" /\ x \in Elements(program[f].angle)
                   \/ call.mode = "NEXT" /\ x \in Elements(program[f].next)
          /\ call.mode # "RESOLVED" => d = f.dir
      BY <2>1, <2>4 DEF Has, CallItem, CallDir, Real, Text, Mode
    <2>6. f # None => f \in DOMAIN program
      BY <2>1, <2>2 DEF Types, CachesOK
    <2>7. CASE call.mode = "RESOLVED"
      <3>1. a.real = x /\ x \in DOMAIN program
        BY <2>1, <2>5, <2>7, CallKeyFacts DEF Answers
      <3>2. x \in Allowed(program, symbol_table, h[n])
        BY <1>2, <2>1, <2>7 DEF Graph, CallsOK
      <3>3. None \notin DOMAIN program
        BY ProgramFacts DEF Types, CachesOK
      <3> QED
        BY <1>2, <2>1, <3>1, <3>2, <3>3 DEF ChildOK
    <2>8. CASE call.mode = "NEXT"
      <3>1. a.real = None /\ a.nx = {x} /\ f # None /\ x \in Elements(program[f].next)
        BY <2>1, <2>5, <2>8, CallKeyFacts DEF Answers
      <3> QED
        BY <1>2, <2>1, <2>3, <3>1 DEF ChildOK
    <2>9. CASE call.mode \in {"QUOTE", "ANGLE"}
      <3>1. a.real = Resolvant(program, call.mode, x, f.dir) /\ f # None
            /\ (a.real = None => a.nx = {})
        BY <2>1, <2>5, <2>9, CallKeyFacts DEF Answers
      <3>2. a.real # None => a.real \in IncludedBy(program, f, symbol_table)
        BY <2>5, <2>9, <3>1 DEF IncludedBy
      <3>3. a.real # None => a.real \in Allowed(program, symbol_table, h[n])
        BY <2>3, <3>1, <3>2 DEF Allowed, MayInclude
      <3> QED
        BY <1>2, <2>1, <2>3, <3>1, <3>3 DEF ChildOK
    <2> QED
      BY <2>5, <2>7, <2>8, <2>9
  <1> QED
    BY <1>1, <1>2

\* Of the node on top the function g says what h says.
LEMMA TopGrows ==
    ASSUME Types, NEW h, Graph(h), NEW g, Same(h, g), stack # <<>>,
           symbol_table \subseteq symbol_table'
    PROVE  /\ Top.node \in DOMAIN nodes
           /\ Allowed(program, symbol_table, h[Top.node]) \subseteq Allowed(program, symbol_table', g[Top.node])
           /\ \A a : ChildOK(program, symbol_table, h[Top.node], a)
                       => ChildOK(program, symbol_table', g[Top.node], a)
  <1>1. PICK fr : fr = Top /\ fr \in Elements(stack)
    BY TopFacts DEF Types, StackOK
  <1>2. PICK n \in DOMAIN nodes : n = Top.node
    BY <1>1 DEF Types, StackOK
  <1>3. g[n].real = h[n].real /\ g[n].nx = h[n].nx
    BY <1>2 DEF Graph, Same
  <1>4. PICK p, t, u, a, a2 : p = program /\ t = symbol_table /\ u = symbol_table' /\ a = h[n] /\ a2 = g[n]
    OBVIOUS
  <1>5. Allowed(p, t, a) \subseteq Allowed(p, u, a2)
    BY <1>3, <1>4, ChildGrows
  <1>6. ASSUME NEW b, ChildOK(p, t, a, b) PROVE ChildOK(p, u, a2, b)
    BY <1>3, <1>4, <1>5, <1>6, ChildGrows
  <1> QED
    BY <1>2, <1>4, <1>5, <1>6

\* A node is returned that stands for what was looked up.
LEMMA CallReturns ==
    ASSUME Types, NEW h, Graph(h), NEW g, Same(h, g), call.op = "call",
           UNCHANGED <<program, stack, request>>, symbol_table \subseteq symbol_table',
           NEW c, call' = ReturnNode(c), Answers(program, g[c], CallKey)
    PROVE  CallsOK(g)'
  <1>1. IF stack = <<>> THEN g[c].real = command.roots[Current]
        ELSE ChildOK(program, symbol_table, h[Top.node], g[c])
    BY CallChild
  <1>2. stack # <<>> => ChildOK(program, symbol_table', g[Top.node], g[c])
    BY <1>1, TopGrows
  <1>3. call'.op = "return" /\ call'.node = c
    BY DEF ReturnNode
  <1>4. command' = command /\ Current' = Current /\ Top' = Top
    BY DEF request, Current, Top
  <1> QED
    BY <1>1, <1>2, <1>3, <1>4 DEF CallsOK

LEMMA GraphHit ==
    ASSUME Types, NEW h, Graph(h), FindNodeHit, NEW g, Same(h, g), DOMAIN g = DOMAIN nodes'
    PROVE  Graph(g)'
  <1>1. /\ program' = program /\ UNCHANGED caches /\ UNCHANGED stack /\ UNCHANGED request
        /\ call.op = "call" /\ Known(CallKey) /\ call' = ReturnNode(node_cache[CallKey])
    BY DEF FindNodeHit
  <1>2. CachesOK /\ StackOK /\ stack \in Seq(FrameType) /\ Current' = Current
    BY <1>1 DEF Types, StackOK, request, Current
  <1>3. DOMAIN h = DOMAIN nodes /\ EdgesOK(h) /\ KeysOK(h) /\ FramesOK(h) /\ nodes' = nodes
    BY <1>1 DEF Graph, caches
  <1>4. EdgesOK(g)'
    BY <1>1, <1>2, <1>3, EdgesGrow DEF caches
  <1>5. KeysOK(g)'
    BY <1>1, <1>2, <1>3, KeysGrow DEF caches
  <1>6. FramesOK(g)'
    BY <1>1, <1>2, <1>3, FramesGrow DEF caches, request
  <1>7. CallsOK(g)'
    <2>1. PICK c \in DOMAIN nodes : c = node_cache[CallKey]
      BY <1>1, <1>2 DEF CachesOK, Known
    <2>2. g[c].real = h[c].real /\ g[c].nx = h[c].nx
      BY <1>3 DEF Same
    <2>3. Answers(program, h[c], CallKey)
      BY <1>1, <1>3, <2>1 DEF KeysOK, Known
    <2>4. Answers(program, g[c], CallKey)
      BY <2>2, <2>3, AnswersSame
    <2> QED
      BY <1>1, <2>1, <2>4, CallReturns DEF caches
  <1>8. \A n \in DOMAIN nodes' : g[n].real = Real(n)'
    BY <1>3 DEF Graph, Same, Real
  <1> QED
    BY <1>3, <1>4, <1>5, <1>6, <1>7, <1>8 DEF Graph

\* What g has to say of a new node.
ForNew(g) == g[NewNode].real = Target /\ g[NewNode].nx = KeyNext(CallKey)

LEMMA NewAnswers ==
    ASSUME Types, NEW h, Graph(h), NotReusable, NEW g, ForNew(g)
    PROVE  Answers(program, g[NewNode], CallKey)
  BY TargetIs DEF ForNew, Answers

\* A node is made and entered under one key or two.
LEMMA GraphMakes ==
    ASSUME Types, NEW h, Graph(h), MakesNode, NEW g, Same(h, g), DOMAIN g = DOMAIN nodes', ForNew(g),
           program' = program, symbol_table \subseteq symbol_table',
           \A k \in DOMAIN node_cache' :
             \/ k \in DOMAIN node_cache /\ node_cache'[k] = node_cache[k]
             \/ node_cache'[k] = NewNode /\ k \in {CallKey} \cup {RealKey(f) : f \in {Target} \ {None}}
    PROVE  EdgesOK(g)' /\ KeysOK(g)' /\ \A n \in DOMAIN nodes' : g[n].real = Real(n)'
  <1>1. CachesOK /\ DOMAIN h = DOMAIN nodes /\ EdgesOK(h) /\ KeysOK(h) /\ NotReusable /\ call.op = "call"
    BY DEF Types, Graph, MakesNode, NotReusable
  <1>2. /\ DOMAIN nodes' = DOMAIN nodes \cup {NewNode} /\ \A n \in DOMAIN nodes : nodes'[n] = nodes[n]
        /\ nodes'[NewNode].real = Target /\ nodes'[NewNode].children = {}
    BY NewNodeFacts
  <1>3. EdgesOK(g)'
    BY <1>1, <1>2, EdgesGrow
  <1>4. KeysOK(g)'
    <2>1. ASSUME NEW k \in {CallKey} \cup {RealKey(f) : f \in {Target} \ {None}}
          PROVE  k[1] \in Mode \cup {"REAL"} /\ Answers(program, g[NewNode], k)
      <3>1. CASE k = CallKey
        BY <1>1, <3>1, NewAnswers, CallKeyFacts
      <3>2. CASE k # CallKey
        <4>1. Target # None /\ k = <<"REAL", Target, Target.dir>>
          BY <3>2 DEF RealKey
        <4>2. k[1] = "REAL" /\ k[2] = Target
          BY <4>1
        <4> QED
          BY <4>1, <4>2 DEF Answers, KeyReal, ForNew
      <3> QED
        BY <3>1, <3>2
    <2>2. \A k \in DOMAIN node_cache' :
             \/ k \in DOMAIN node_cache /\ node_cache'[k] = node_cache[k]
             \/ k[1] \in Mode \cup {"REAL"} /\ Answers(program, g[node_cache'[k]], k)
      BY <2>1
    <2> QED
      BY <1>1, <2>2, KeysGrow
  <1>5. \A n \in DOMAIN nodes' : g[n].real = Real(n)'
    BY <1>1, <1>2 DEF Same, Graph, Real, ForNew
  <1> QED
    BY <1>3, <1>4, <1>5

LEMMA GraphMissing ==
    ASSUME Types, NEW h, Graph(h), FindNodeMissing, NEW g, Same(h, g), DOMAIN g = DOMAIN nodes', ForNew(g)
    PROVE  Graph(g)'
  <1>1. /\ MakesNode /\ program' = program /\ UNCHANGED <<file_cache, symbol_table, stack, request>>
        /\ node_cache' = Remember(node_cache, CallKey, NewNode)
        /\ call' = ReturnNode(NewNode) /\ NotReusable /\ call.op = "call"
    BY DEF FindNodeMissing, Registered, MakesNode, NotReusable
  <1>2. \A k \in DOMAIN node_cache' :
             \/ k \in DOMAIN node_cache /\ node_cache'[k] = node_cache[k]
             \/ node_cache'[k] = NewNode /\ k = CallKey
    BY <1>1 DEF Remember
  <1>3. EdgesOK(g)' /\ KeysOK(g)' /\ \A n \in DOMAIN nodes' : g[n].real = Real(n)'
    BY <1>1, <1>2, GraphMakes
  <1>4. FramesOK(g)'
    BY <1>1, FramesGrow DEF Types, StackOK, Graph, request, Current
  <1>5. CallsOK(g)'
    <2>1. PICK c : c = NewNode
      OBVIOUS
    <2>2. Answers(program, g[c], CallKey)
      BY <1>1, <2>1, NewAnswers
    <2> QED
      BY <1>1, <2>1, <2>2, CallReturns
  <1> QED
    BY <1>3, <1>4, <1>5 DEF Graph

LEMMA GraphReal ==
    ASSUME Types, NEW h, Graph(h), FindNodeReal, NEW g, Same(h, g), DOMAIN g = DOMAIN nodes'
    PROVE  Graph(g)'
  <1>1. /\ NotReusable /\ program' = program /\ UNCHANGED <<file_cache, symbol_table, nodes, stack, request>>
        /\ node_cache' = Remember(node_cache, CallKey, node_cache[RealKey(Target)]) /\ Target # None
        /\ call' = ReturnNode(node_cache[RealKey(Target)]) /\ Known(RealKey(Target)) /\ call.op = "call"
    BY DEF FindNodeReal, KnownByRealName, NotReusable
  <1>2. CachesOK /\ StackOK /\ stack \in Seq(FrameType) /\ Current' = Current
    BY <1>1 DEF Types, StackOK, request, Current
  <1>3. DOMAIN h = DOMAIN nodes /\ EdgesOK(h) /\ KeysOK(h) /\ FramesOK(h)
    BY <1>1 DEF Graph
  <1>4. PICK k, c : k = RealKey(Target) /\ c = node_cache[RealKey(Target)]
    OBVIOUS
  <1>5. c \in DOMAIN nodes /\ Answers(program, h[c], k) /\ k[1] = "REAL" /\ k[2] = Target
    BY <1>1, <1>2, <1>3, <1>4 DEF CachesOK, KeysOK, Known, RealKey
  <1>6. g[c].real = h[c].real /\ h[c].real = Target
    BY <1>3, <1>5 DEF Same, Answers, KeyReal
  <1>7. Answers(program, g[c], CallKey)
    BY <1>1, <1>6, TargetIs DEF Answers
  <1>8. EdgesOK(g)'
    BY <1>1, <1>2, <1>3, EdgesGrow
  <1>9. KeysOK(g)'
    <2>1. CallKey[1] \in Mode
      BY <1>1, CallKeyFacts
    <2>2. \A l \in DOMAIN node_cache' :
             \/ l \in DOMAIN node_cache /\ node_cache'[l] = node_cache[l]
             \/ l = CallKey /\ node_cache'[l] = c
      BY <1>1, <1>4 DEF Remember
    <2> QED
      BY <1>1, <1>2, <1>3, <1>7, <2>1, <2>2, KeysGrow
  <1>10. FramesOK(g)'
    BY <1>1, <1>2, <1>3, FramesGrow DEF request
  <1>11. CallsOK(g)'
    BY <1>1, <1>4, <1>7, CallReturns
  <1>12. \A n \in DOMAIN nodes' : g[n].real = Real(n)'
    BY <1>1, <1>3 DEF Graph, Same, Real
  <1> QED
    BY <1>1, <1>8, <1>9, <1>10, <1>11, <1>12 DEF Graph
LEMMA PushedType ==
    ASSUME stack \in Seq(FrameType), stack' \in Seq(FrameType), NEW fr, stack' = Append(stack, fr)
    PROVE  fr \in FrameType
  <1>1. Len(stack) \in Nat /\ Len(stack') = Len(stack) + 1 /\ stack'[Len(stack) + 1] = fr
    OBVIOUS
  <1>2. Len(stack) + 1 \in DOMAIN stack'
    BY <1>1
  <1> QED
    BY <1>1, <1>2

\* An activation begins for the new node.
LEMMA GraphPush ==
    ASSUME Types, NEW h, Graph(h), MakesNode, NEW g, Same(h, g), ForNew(g), Types',
           program' = program, symbol_table \subseteq symbol_table', UNCHANGED request,
           NEW fr, stack' = Append(stack, fr), fr.node = NewNode, fr.dummy => Target = None,
           \A x \in Elements(fr.todo) :
             x.mode = "RESOLVED" => x.fp \in Allowed(program, symbol_table', g[NewNode])
    PROVE  FramesOK(g)'
  <1>1. fr \in FrameType
    BY PushedType DEF Types, StackOK
  <1>2. PICK n : n = NewNode
    OBVIOUS
  <1>3. NotReusable /\ call.op = "call"
    BY DEF MakesNode, NotReusable
  <1>4. Answers(program, g[n], CallKey) /\ g[n].real = Target
    BY <1>2, <1>3, NewAnswers DEF ForNew
  <1>5. IF stack = <<>> THEN g[n].real = command.roots[Current]
        ELSE ChildOK(program, symbol_table, h[Top.node], g[n])
    BY <1>3, <1>4, CallChild
  <1>6. stack # <<>> => ChildOK(program, symbol_table', g[Top.node], g[n])
    BY <1>5, TopGrows
  <1>7. command' = command /\ Current' = Current
    BY DEF request, Current
  <1>8. DOMAIN h = DOMAIN nodes /\ FramesOK(h) /\ StackOK
    BY DEF Graph, Types
  <1> QED
    BY <1>1, <1>2, <1>4, <1>5, <1>6, <1>7, <1>8, FramesPush

LEMMA GraphNext ==
    ASSUME Types, NEW h, Graph(h), FindNodeNext, NEW g, Same(h, g), DOMAIN g = DOMAIN nodes', ForNew(g)
    PROVE  Graph(g)'
  <1>1. /\ MakesNode /\ program' = program /\ UNCHANGED <<file_cache, symbol_table, request>>
        /\ node_cache' = Remember(node_cache, CallKey, NewNode) /\ Target = None /\ call.mode = "NEXT"
        /\ call' = NoCall /\ call.op = "call"
    BY DEF FindNodeNext, Registered, MakesNode, NotReusable
  <1>2. \A k \in DOMAIN node_cache' :
             \/ k \in DOMAIN node_cache /\ node_cache'[k] = node_cache[k]
             \/ node_cache'[k] = NewNode /\ k = CallKey
    BY <1>1 DEF Remember
  <1>3. EdgesOK(g)' /\ KeysOK(g)' /\ \A n \in DOMAIN nodes' : g[n].real = Real(n)'
    BY <1>1, <1>2, GraphMakes
  <1>4. PICK fr, q, x : fr = Frame(q, TRUE) /\ q = NextIncludes(x) /\ x = call.fp
    OBVIOUS
  <1>5. fr.node = NewNode /\ fr.todo = q /\ fr.dummy = TRUE
    BY <1>4 DEF Frame
  <1>6. stack' = Append(stack, fr)
    BY <1>4 DEF FindNodeNext
  <1>7. \A e \in Elements(q) : e.fp \in Named(program, {x})
    <2> DEFINE I == [mode : {"RESOLVED"}, fp : Named(program, {x})]
    <2>1. q \in Seq(I)
      BY <1>4, NextIncludesFacts
    <2>2. \A e \in I : e.fp \in Named(program, {x})
      OBVIOUS
    <2> HIDE DEF I
    <2> QED
      BY <2>1, <2>2, ElementsType
  <1>8. Allowed(program, symbol_table', g[NewNode]) = Named(program, {x})
    BY <1>1, <1>4, CallKeyFacts DEF ForNew, Allowed
  <1>9. FramesOK(g)'
    BY <1>1, <1>5, <1>6, <1>7, <1>8, GraphPush, TypesNext
  <1>10. CallsOK(g)'
    BY <1>1 DEF CallsOK, NoCall
  <1> QED
    BY <1>3, <1>9, <1>10 DEF Graph

LEMMA MissedFacts ==
    ASSUME Types
    PROVE  /\ \A k \in DOMAIN MissedCache :
                \/ k \in DOMAIN node_cache /\ MissedCache[k] = node_cache[k]
                \/ MissedCache[k] = NewNode /\ k \in {CallKey, RealKey(Target)}
           /\ \A k \in DOMAIN MissedCache :
                k \in {CallKey} \cup (IF call.mode = "RESOLVED" THEN {} ELSE {RealKey(Target)})
                  => MissedCache[k] = NewNode
           /\ DOMAIN MissedCache = DOMAIN node_cache \cup {CallKey}
                \cup (IF call.mode = "RESOLVED" THEN {} ELSE {RealKey(Target)})
           /\ (call.mode = "RESOLVED" /\ RealKey(Target) # CallKey /\ Known(RealKey(Target))) =>
                MissedCache[RealKey(Target)] = node_cache[RealKey(Target)]
  <1>1. PICK n, k, l : n = NewNode /\ k = CallKey /\ l = RealKey(Target)
    OBVIOUS
  <1> DEFINE c == Remember(node_cache, k, n)
             d == Remember(c, l, n)
  <1>2. DOMAIN c = DOMAIN node_cache \cup {k} /\ c[k] = n /\ \A x \in DOMAIN node_cache : x # k => c[x] = node_cache[x]
    BY DEF Remember
  <1> HIDE DEF c
  <1>3. DOMAIN d = DOMAIN c \cup {l} /\ d[l] = n /\ \A x \in DOMAIN c : x # l => d[x] = c[x]
    BY DEF Remember
  <1> HIDE DEF d
  <1>4. MissedCache = IF call.mode = "RESOLVED" THEN c ELSE d
    BY <1>1 DEF MissedCache, Registered, c, d
  <1>5. CASE call.mode = "RESOLVED"
    BY <1>1, <1>2, <1>4, <1>5 DEF Known
  <1>6. CASE call.mode # "RESOLVED"
    BY <1>1, <1>2, <1>3, <1>4, <1>6
  <1> QED
    BY <1>5, <1>6

LEMMA GraphMiss ==
    ASSUME Types, NEW h, Graph(h), FindNodeMiss, NEW g, Same(h, g), DOMAIN g = DOMAIN nodes', ForNew(g)
    PROVE  Graph(g)'
  <1>1. /\ MakesNode /\ Target # None /\ program' = program /\ UNCHANGED request
        /\ node_cache' = MissedCache /\ call' = NoCall /\ NotReusable
        /\ Define(IF Parsed THEN {} ELSE program[Target].define)
    BY DEF FindNodeMiss, MakesNode
  <1>2. \A k \in DOMAIN node_cache' :
             \/ k \in DOMAIN node_cache /\ node_cache'[k] = node_cache[k]
             \/ node_cache'[k] = NewNode /\ k \in {CallKey, RealKey(Target)}
    BY <1>1, MissedFacts
  <1>3. symbol_table \subseteq symbol_table'
    BY <1>1 DEF Define, Enter
  <1>4. EdgesOK(g)' /\ KeysOK(g)' /\ \A n \in DOMAIN nodes' : g[n].real = Real(n)'
    BY <1>1, <1>2, <1>3, GraphMakes
  <1>5. PICK fr, f : fr = Frame(Includes(f), FALSE) /\ f = Target
    OBVIOUS
  <1>6. fr.node = NewNode /\ fr.todo = Includes(f) /\ fr.dummy = FALSE
    BY <1>5 DEF Frame
  <1>7. stack' = Append(stack, fr)
    BY <1>5 DEF FindNodeMiss
  <1>8. \A e \in Elements(Includes(f)) : e.mode # "RESOLVED"
    <2>1. f \in DOMAIN program
      BY <1>1, <1>5, FindFacts
    <2>2. Elements(Includes(f)) = IncludeItems(f)
      BY <2>1, IncludesElements DEF Types, CachesOK
    <2> QED
      BY <2>2 DEF IncludeItems
  <1>9. FramesOK(g)'
    BY <1>1, <1>3, <1>6, <1>7, <1>8, GraphPush, TypesMiss
  <1>10. CallsOK(g)'
    BY <1>1 DEF CallsOK, NoCall
  <1> QED
    BY <1>4, <1>9, <1>10 DEF Graph

LEMMA GraphLeaves ==
    ASSUME Types, NEW h, Graph(h), Leaves, NEW g, Same(h, g), DOMAIN g = DOMAIN nodes', ForNew(g)
    PROVE  Graph(g)'
  <1>1. /\ MakesNode /\ Target # None /\ program' = program /\ stack' = <<>>
        /\ node_cache' = MissedCache /\ call' = NoCall
    BY LeavesParse
  <1>2. \A k \in DOMAIN node_cache' :
             \/ k \in DOMAIN node_cache /\ node_cache'[k] = node_cache[k]
             \/ node_cache'[k] = NewNode /\ k \in {CallKey, RealKey(Target)}
    BY <1>1, MissedFacts
  <1>3. symbol_table \subseteq symbol_table'
    BY LeavesParse DEF Enter
  <1>4. EdgesOK(g)' /\ KeysOK(g)' /\ \A n \in DOMAIN nodes' : g[n].real = Real(n)'
    BY <1>1, <1>2, <1>3, GraphMakes
  <1>5. FramesOK(g)'
    BY <1>1 DEF FramesOK, Elements
  <1>6. CallsOK(g)'
    BY <1>1 DEF CallsOK, NoCall
  <1> QED
    BY <1>4, <1>5, <1>6 DEF Graph

LEMMA GraphComputedNotCovered ==
    ASSUME NEW h, Graph(h), ComputedNotCovered
    PROVE  Graph(h)'
  <1>1. stack' = <<>> /\ call' = NoCall /\ UNCHANGED <<program, caches>>
    BY DEF ComputedNotCovered, LeaveFindNode
  <1>2. EdgesOK(h)' /\ KeysOK(h)' /\ FramesOK(h)' /\ CallsOK(h)'
    BY <1>1 DEF Graph, caches, EdgesOK, KeysOK, FramesOK, CallsOK, Elements, NoCall
  <1> QED
    BY <1>1, <1>2 DEF Graph, caches, Real

\* The list of the activation on top changes.
LEMMA GraphTodo ==
    ASSUME Types, NEW h, Graph(h), Running, NEW g, Same(h, g), DOMAIN g = DOMAIN nodes',
           UNCHANGED <<program, symbol_table, node_cache, nodes, request>>,
           NEW t \in Seq(Items), stack' = SetTodo(t),
           \A x \in Elements(t) :
             \/ x \in Elements(Top.todo)
             \/ x.mode = "RESOLVED" => x.fp \in Allowed(program, symbol_table, h[Top.node])
    PROVE  EdgesOK(g)' /\ KeysOK(g)' /\ FramesOK(g)' /\ \A n \in DOMAIN nodes' : g[n].real = Real(n)'
  <1>1. CachesOK /\ StackOK /\ stack \in Seq(FrameType) /\ stack # <<>> /\ Current' = Current /\ command' = command
    BY DEF Types, StackOK, request, Current, Running
  <1>2. DOMAIN h = DOMAIN nodes /\ EdgesOK(h) /\ KeysOK(h) /\ FramesOK(h)
    BY DEF Graph
  <1>3. EdgesOK(g)'
    BY <1>1, <1>2, EdgesGrow
  <1>4. KeysOK(g)'
    BY <1>1, <1>2, KeysGrow
  <1>5. /\ stack' \in Seq(FrameType) /\ DOMAIN stack' = DOMAIN stack
        /\ \A i \in DOMAIN stack : stack'[i].node = stack[i].node /\ stack'[i].dummy = stack[i].dummy
        /\ \A i \in DOMAIN stack : i # Len(stack) => stack'[i] = stack[i]
        /\ stack'[Len(stack)].todo = t
    BY <1>1, TodoFacts
  <1>6. Allowed(program, symbol_table, h[Top.node]) \subseteq Allowed(program, symbol_table', g[Top.node])
    BY <1>1, TopGrows
  <1>7. ASSUME NEW i \in DOMAIN stack', NEW x \in Elements(stack'[i].todo)
        PROVE  \/ x \in Elements(stack[i].todo)
               \/ x.mode = "RESOLVED" => x.fp \in Allowed(program, symbol_table', g[stack[i].node])
    <2>1. CASE i = Len(stack)
      BY <1>5, <1>6, <2>1 DEF Top
    <2>2. CASE i # Len(stack)
      BY <1>5, <2>2
    <2> QED
      BY <2>1, <2>2
  <1>8. FramesOK(g)'
    BY <1>1, <1>2, <1>5, <1>7, FramesGrow
  <1>9. \A n \in DOMAIN nodes' : g[n].real = Real(n)'
    BY <1>2 DEF Graph, Same, Real
  <1> QED
    BY <1>3, <1>4, <1>8, <1>9

LEMMA GraphCall ==
    ASSUME Types, NEW h, Graph(h), CallFindNode, NEW g, Same(h, g), DOMAIN g = DOMAIN nodes'
    PROVE  Graph(g)'
  <1>1. /\ Running /\ Top.todo # <<>> /\ stack' = SetTodo(Tail(Top.todo))
        /\ UNCHANGED <<program, symbol_table, node_cache, nodes, request>>
    BY DEF CallFindNode, caches
  <1>2. PICK q, x, t : q = Top.todo /\ x = Head(q) /\ t = Tail(q)
    OBVIOUS
  <1>3. q \in Seq(Items) /\ q # <<>> /\ stack \in Seq(FrameType) /\ stack # <<>> /\ Top \in Elements(stack)
    BY <1>1, <1>2, RunningFacts
  <1>4. x \in Items /\ t \in Seq(Items) /\ Elements(q) = {x} \cup Elements(t)
    BY <1>2, <1>3, HeadElements
  <1>5. EdgesOK(g)' /\ KeysOK(g)' /\ FramesOK(g)' /\ \A n \in DOMAIN nodes' : g[n].real = Real(n)'
    BY <1>1, <1>2, <1>4, GraphTodo
  <1>6. call'.op = "call" /\ call'.mode = x.mode /\ call'.fp = x.fp
    BY <1>2 DEF CallFindNode, FindNodeCall
  <1>7. stack' # <<>> /\ Top'.node = Top.node
    BY <1>1, <1>2, <1>3, <1>4, TodoFacts
  <1>8. x.mode = "RESOLVED" => x.fp \in Allowed(program, symbol_table, h[Top.node])
    <2>1. PICK fr : fr = Top /\ fr \in Elements(stack)
      BY <1>3
    <2>2. x \in Elements(fr.todo)
      BY <1>2, <1>4, <2>1
    <2>3. x.mode = "RESOLVED" => x.fp \in Allowed(program, symbol_table, h[fr.node])
      BY <2>1, <2>2 DEF Graph, FramesOK
    <2> QED
      BY <2>1, <2>3
  <1>9. CallsOK(g)'
    <2>1. x.mode = "RESOLVED" => x.fp \in Allowed(program, symbol_table', g[Top.node])
      BY <1>1, <1>3, <1>8, TopGrows
    <2> QED
      BY <1>1, <1>6, <1>7, <2>1 DEF CallsOK
  <1> QED
    BY <1>5, <1>9 DEF Graph

LEMMA GraphComputed ==
    ASSUME Types, NEW h, Graph(h), ComputedInclude, NEW g, Same(h, g), DOMAIN g = DOMAIN nodes'
    PROVE  Graph(g)'
  <1>1. /\ Running /\ UNCHANGED <<program, symbol_table, node_cache, nodes, request, call>>
    BY DEF ComputedInclude, caches
  <1>2. PICK n, s, q, t :
                /\ t \in Seq(Items) /\ n = Top.node /\ Top.todo # <<>>
                /\ stack' = SetTodo(t) /\ Elements(t) = q \cup Elements(Tail(Top.todo))
                /\ s \in Elements(Text(n).expr) /\ Real(n) # None
                /\ q = {[mode |-> "RESOLVED", fp |-> f] :
                          f \in ResolveExpr(program, symbol_table, s, Real(n).dir)}
                       \cup {[mode |-> "SUPPORT", fp |-> s]}
    BY TypesComputed
  <1>3. n \in DOMAIN nodes /\ Top.todo \in Seq(Items)
    BY <1>1, <1>2, RunningFacts
  <1>4. h[n].real = Real(n)
    BY <1>3 DEF Graph
  <1>5. ResolveExpr(program, symbol_table, s, Real(n).dir) \subseteq Allowed(program, symbol_table, h[n])
    <2>1. PICK f : f = Real(n)
      OBVIOUS
    <2>2. ResolveExpr(program, symbol_table, s, f.dir) \subseteq IncludedBy(program, f, symbol_table)
      <3>1. None \notin ResolveExpr(program, symbol_table, s, f.dir)
        BY DEF ResolveExpr
      <3> QED
        BY <1>2, <2>1, <3>1 DEF IncludedBy, Text
    <2> QED
      BY <1>2, <1>4, <2>1, <2>2 DEF Allowed, MayInclude
  <1>6. PICK u : u = Tail(Top.todo)
    OBVIOUS
  <1>7. Elements(u) \subseteq Elements(Top.todo)
    <2>1. PICK o : o = Top.todo
      OBVIOUS
    <2> QED
      BY <1>2, <1>3, <1>6, <2>1, HeadElements
  <1>8. ASSUME NEW x \in q PROVE x.mode = "RESOLVED" => x.fp \in Allowed(program, symbol_table, h[n])
    BY <1>2, <1>5
  <1>9. EdgesOK(g)' /\ KeysOK(g)' /\ FramesOK(g)' /\ \A m \in DOMAIN nodes' : g[m].real = Real(m)'
    BY <1>1, <1>2, <1>6, <1>7, <1>8, GraphTodo
  <1>10. CallsOK(g)'
    BY <1>1 DEF CallsOK, Running
  <1> QED
    BY <1>9, <1>10 DEF Graph

LEMMA GraphUpdate ==
    ASSUME Types, NEW h, Graph(h), UpdateSet, NEW g, Same(h, g), DOMAIN g = DOMAIN nodes'
    PROVE  Graph(g)'
  <1>1. /\ Running /\ Top.todo # <<>> /\ stack' = SetTodo(Tail(Top.todo))
        /\ UNCHANGED <<program, symbol_table, node_cache, nodes, request, call>>
    BY DEF UpdateSet
  <1>2. PICK q, t : q = Top.todo /\ t = Tail(q)
    OBVIOUS
  <1>3. q \in Seq(Items) /\ q # <<>>
    BY <1>1, <1>2, RunningFacts
  <1>4. t \in Seq(Items) /\ Elements(t) \subseteq Elements(q)
    BY <1>2, <1>3, HeadElements
  <1>5. EdgesOK(g)' /\ KeysOK(g)' /\ FramesOK(g)' /\ \A n \in DOMAIN nodes' : g[n].real = Real(n)'
    BY <1>1, <1>2, <1>4, GraphTodo
  <1>6. CallsOK(g)'
    BY <1>1 DEF CallsOK, Running
  <1> QED
    BY <1>5, <1>6 DEF Graph

LEMMA GraphFinish ==
    ASSUME Types, NEW h, Graph(h), Finish, NEW g, Same(h, g), DOMAIN g = DOMAIN nodes'
    PROVE  Graph(g)'
  <1>1. /\ Running /\ call' = ReturnNode(Top.node) /\ stack' = SubSeq(stack, 1, Len(stack) - 1)
        /\ UNCHANGED <<program, symbol_table, node_cache, nodes, request>>
    BY DEF Finish, caches
  <1>2. CachesOK /\ StackOK /\ stack \in Seq(FrameType) /\ stack # <<>> /\ Current' = Current /\ command' = command
    BY <1>1 DEF Types, StackOK, request, Current, Running
  <1>3. DOMAIN h = DOMAIN nodes /\ EdgesOK(h) /\ KeysOK(h) /\ FramesOK(h)
    BY DEF Graph
  <1>4. EdgesOK(g)'
    BY <1>1, <1>2, <1>3, EdgesGrow
  <1>5. KeysOK(g)'
    BY <1>1, <1>2, <1>3, KeysGrow
  <1>6. /\ stack' \in Seq(FrameType) /\ Len(stack) \in Nat /\ Len(stack') = Len(stack) - 1
        /\ Len(stack) \in DOMAIN stack
        /\ DOMAIN stack = 1 .. Len(stack) /\ DOMAIN stack' = 1 .. Len(stack) - 1
        /\ \A i \in DOMAIN stack' : stack'[i] = stack[i]
        /\ stack' # <<>> => Len(stack) - 1 \in DOMAIN stack /\ Top' = stack[Len(stack) - 1]
        /\ Top \in Elements(stack)
    BY <1>1, <1>2, PopFacts
  <1>7. FramesOK(g)'
    <2>1. DOMAIN stack' \subseteq DOMAIN stack
      BY <1>6
    <2> QED
      BY <1>1, <1>2, <1>3, <1>6, <2>1, FramesGrow
  <1>8. call'.op = "return" /\ call'.node = Top.node
    BY <1>1 DEF ReturnNode
  <1>9. PICK n : n = Top.node /\ n \in DOMAIN nodes
    BY <1>1, RunningFacts
  <1>10. g[n].real = h[n].real /\ g[n].nx = h[n].nx
    BY <1>3, <1>9 DEF Same
  <1>11. ASSUME stack' = <<>> PROVE CallsOK(g)'
    <2>1. Len(stack) = 1
      BY <1>6, <1>11
    <2>2. h[n].real = command.roots[Current]
      BY <1>2, <1>3, <1>9, <2>1 DEF FramesOK, Top
    <2> QED
      BY <1>2, <1>4, <1>5, <1>7, <1>8, <1>9, <1>10, <1>11, <2>2 DEF CallsOK
  <1>12. ASSUME stack' # <<>> PROVE CallsOK(g)'
    <2>1. Len(stack) - 1 \in DOMAIN stack /\ Len(stack) > 1 /\ Top' = stack[Len(stack) - 1]
      BY <1>6, <1>12
    <2>2. PICK m : m = stack[Len(stack) - 1].node
      OBVIOUS
    <2>3. stack[Len(stack) - 1] \in Elements(stack)
      BY <2>1 DEF Elements
    <2>4. m \in DOMAIN nodes
      BY <1>2, <2>2, <2>3 DEF StackOK
    <2>5. ChildOK(program, symbol_table, h[m], h[n])
      <3>1. \A i \in DOMAIN stack :
              i > 1 => ChildOK(program, symbol_table, h[stack[i - 1].node], h[stack[i].node])
        BY <1>3 DEF FramesOK
      <3> QED
        BY <1>6, <1>9, <2>1, <2>2, <3>1 DEF Top
    <2>6. ChildOK(program, symbol_table', g[m], g[n])
      BY <1>1, <1>3, <1>9, <2>4, <2>5, SameGrows
    <2> QED
      BY <1>1, <1>8, <1>9, <1>12, <2>1, <2>2, <2>6 DEF CallsOK
  <1>13. CallsOK(g)'
    BY <1>11, <1>12
  <1>14. \A m \in DOMAIN nodes' : g[m].real = Real(m)'
    BY <1>1, <1>3 DEF Graph, Same, Real
  <1> QED
    BY <1>1, <1>4, <1>5, <1>7, <1>13, <1>14 DEF Graph

LEMMA GraphChild ==
    ASSUME Types, NEW h, Graph(h), AddChild, NEW g, Same(h, g), DOMAIN g = DOMAIN nodes'
    PROVE  Graph(g)'
  <1>1. /\ call' = NoCall /\ UNCHANGED <<program, symbol_table, node_cache, stack, request>>
        /\ call.op = "return" /\ stack # <<>>
    BY DEF AddChild
  <1>2. PICK n, c : n = Top.node /\ c = call.node
    OBVIOUS
  <1>3. /\ n \in DOMAIN nodes /\ c \in DOMAIN nodes /\ DOMAIN nodes' = DOMAIN nodes
        /\ \A m \in DOMAIN nodes : nodes'[m].real = nodes[m].real /\ (m # n => nodes'[m] = nodes[m])
        /\ nodes'[n].children = nodes[n].children \cup {c}
    BY <1>2, ChildFacts
  <1>4. CachesOK /\ StackOK /\ stack \in Seq(FrameType) /\ Current' = Current /\ command' = command
    BY <1>1 DEF Types, StackOK, request, Current
  <1>5. DOMAIN h = DOMAIN nodes /\ EdgesOK(h) /\ KeysOK(h) /\ FramesOK(h)
    BY DEF Graph
  <1>6. ChildOK(program, symbol_table, h[n], h[c])
    BY <1>1, <1>2 DEF Graph, CallsOK
  <1>7. ChildOK(program, symbol_table', g[n], g[c])
    BY <1>1, <1>3, <1>5, <1>6, SameGrows
  <1>8. EdgesOK(g)'
    BY <1>1, <1>3, <1>4, <1>5, <1>7, EdgesGrow
  <1>9. KeysOK(g)'
    BY <1>1, <1>4, <1>5, KeysGrow
  <1>10. FramesOK(g)'
    BY <1>1, <1>4, <1>5, FramesGrow
  <1>11. CallsOK(g)'
    BY <1>1 DEF CallsOK, NoCall
  <1>12. \A m \in DOMAIN nodes' : g[m].real = Real(m)'
    BY <1>3, <1>5 DEF Graph, Same, Real
  <1> QED
    BY <1>8, <1>9, <1>10, <1>11, <1>12 DEF Graph

\* A run of the algorithm begins for the file of the command line that is next.
LEMMA GraphRun ==
    ASSUME Types, NEW h, Graph(h), NEW file, NEW d_opts, RunAlgorithm(file, d_opts),
           stack = <<>>, UNCHANGED <<program, stack>>, file = command'.roots[Current'],
           NEW g, Same(h, g), DOMAIN g = DOMAIN nodes'
    PROVE  Graph(g)'
  <1>1. /\ symbol_table' = symbol_table \cup d_opts /\ UNCHANGED <<node_cache, nodes>>
        /\ call'.op = "call" /\ call'.fp = file
    BY DEF RunAlgorithm, FindNodeCall
  <1>2. CachesOK /\ DOMAIN h = DOMAIN nodes /\ EdgesOK(h) /\ KeysOK(h)
    BY DEF Types, Graph
  <1>3. EdgesOK(g)'
    BY <1>1, <1>2, EdgesGrow
  <1>4. KeysOK(g)'
    BY <1>1, <1>2, KeysGrow
  <1>5. FramesOK(g)'
    BY DEF FramesOK, Elements
  <1>6. CallsOK(g)'
    BY <1>1 DEF CallsOK
  <1>7. \A m \in DOMAIN nodes' : g[m].real = Real(m)'
    BY <1>1, <1>2 DEF Graph, Same, Real
  <1> QED
    BY <1>3, <1>4, <1>5, <1>6, <1>7 DEF Graph

LEMMA GraphRequest ==
    ASSUME Types, NEW h, Graph(h), NEW c \in Commands, Request(c), NEW g, Same(h, g), DOMAIN g = DOMAIN nodes'
    PROVE  Graph(g)'
  <1>1. /\ RunAlgorithm(Head(c.roots), c.d_opts) /\ UNCHANGED <<program, stack>> /\ stack = <<>>
        /\ command' = c
    BY DEF Request, Idle
  <1>2. Current' = 1 /\ Head(c.roots) = c.roots[1]
    BY TypesRequest
  <1>3. PICK f, d : f = Head(c.roots) /\ d = c.d_opts
    OBVIOUS
  <1> QED
    BY <1>1, <1>2, <1>3, GraphRun

LEMMA GraphRootDone ==
    ASSUME Types, NEW h, Graph(h), RootDone, NEW g, Same(h, g), DOMAIN g = DOMAIN nodes'
    PROVE  Graph(g)'
  <1>1. /\ stack = <<>> /\ UNCHANGED <<program, stack, command>>
        /\ roots = <<>> => UNCHANGED caches /\ call' = NoCall
        /\ roots # <<>> => RunAlgorithm(command.roots[Current + 1], command.d_opts) /\ Current' = Current + 1
    BY TypesRootDone
  <1>2. CASE roots # <<>>
    <2>1. PICK f, d : f = command.roots[Current + 1] /\ d = command.d_opts
      OBVIOUS
    <2> QED
      BY <1>1, <1>2, <2>1, GraphRun
  <1>3. CASE roots = <<>>
    <2>1. UNCHANGED <<node_cache, nodes, symbol_table>> /\ call' = NoCall
      BY <1>1, <1>3 DEF caches
    <2>2. CachesOK /\ DOMAIN h = DOMAIN nodes /\ EdgesOK(h) /\ KeysOK(h)
      BY DEF Types, Graph
    <2>3. EdgesOK(g)' /\ KeysOK(g)'
      BY <1>1, <2>1, <2>2, EdgesGrow, KeysGrow
    <2>4. FramesOK(g)' /\ CallsOK(g)'
      BY <1>1, <2>1 DEF FramesOK, CallsOK, NoCall, Elements
    <2>5. \A m \in DOMAIN nodes' : g[m].real = Real(m)'
      BY <2>1, <2>2 DEF Graph, Same, Real
    <2> QED
      BY <2>3, <2>4, <2>5 DEF Graph
  <1> QED
    BY <1>2, <1>3

LEMMA GraphStutter ==
    ASSUME NEW h, Graph(h), UNCHANGED vars
    PROVE  Graph(h)'
  BY DEF vars, caches, request, Graph, EdgesOK, KeysOK, FramesOK, CallsOK, Real, Top, Current

\* The caches are empty.
LEMMA GraphCleared ==
    ASSUME nodes = <<>>, node_cache = Empty, stack = <<>>, call = NoCall, NEW h, DOMAIN h = {}
    PROVE  Graph(h)
  BY DEF Graph, EdgesOK, KeysOK, FramesOK, CallsOK, Elements, NoCall, Empty
\* The nodes stand for files, and the graph follows their includes.
Standing == \E h : Graph(h)

\* What h says, and what is to be said of a new node.
Extended(h, a) == [n \in DOMAIN nodes \cup {NewNode} |-> IF n = NewNode THEN a ELSE h[n]]

LEMMA ExtendedFacts ==
    ASSUME Types, NEW h, Graph(h), MakesNode, NEW a, a.real = Target, a.nx = KeyNext(CallKey),
           NEW g, g = Extended(h, a)
    PROVE  DOMAIN g = DOMAIN nodes' /\ ForNew(g) /\ Same(h, g) /\ g[NewNode] = a
           /\ \A n \in DOMAIN nodes : g[n] = h[n]
  <1>1. DOMAIN nodes' = DOMAIN nodes \cup {NewNode} /\ NewNode \notin DOMAIN nodes
    BY NewNodeFacts, NodesType DEF Types
  <1>2. g[NewNode] = a /\ \A n \in DOMAIN nodes : g[n] = h[n]
    BY <1>1 DEF Extended
  <1>3. DOMAIN g = DOMAIN nodes \cup {NewNode} /\ DOMAIN h = DOMAIN nodes
    BY DEF Extended, Graph
  <1> QED
    BY <1>1, <1>2, <1>3 DEF ForNew, Same

LEMMA StandingMakes ==
    ASSUME Types, Standing, MakesNode
    PROVE  \E h, g : Graph(h) /\ Same(h, g) /\ DOMAIN g = DOMAIN nodes' /\ ForNew(g)
  <1>1. PICK h : Graph(h)
    BY DEF Standing
  <1>2. PICK a : a = [real |-> Target, nx |-> KeyNext(CallKey)]
    OBVIOUS
  <1>3. PICK g : g = Extended(h, a)
    OBVIOUS
  <1>4. a.real = Target /\ a.nx = KeyNext(CallKey)
    BY <1>2
  <1> QED
    BY <1>1, <1>3, <1>4, ExtendedFacts

LEMMA StandingStep ==
    ASSUME Types, Standing, [Next]_vars
    PROVE  Standing'
  <1>1. ASSUME FindNodeNext \/ FindNodeMissing \/ FindNodeMiss \/ Leaves PROVE Standing'
    <2>1. MakesNode
      BY <1>1, LeavesParse DEF FindNodeNext, FindNodeMissing, FindNodeMiss
    <2>2. PICK h, g : Graph(h) /\ Same(h, g) /\ DOMAIN g = DOMAIN nodes' /\ ForNew(g)
      BY <2>1, StandingMakes
    <2>3. Graph(g)'
      BY <1>1, <2>2, GraphNext, GraphMissing, GraphMiss, GraphLeaves
    <2> QED
      BY <2>3 DEF Standing
  <1>2. ASSUME NEW h, Graph(h), DOMAIN nodes' = DOMAIN nodes PROVE Same(h, h) /\ DOMAIN h = DOMAIN nodes'
    BY <1>2 DEF Same, Graph
  <1>3. ASSUME FindNodeHit \/ FindNodeReal \/ CallFindNode \/ ComputedInclude \/ UpdateSet \/ Finish
               \/ AddChild \/ RootDone
        PROVE  Standing'
    <2>1. PICK h : Graph(h)
      BY DEF Standing
    <2>2. DOMAIN nodes' = DOMAIN nodes
      BY <1>3, ChildFacts DEF FindNodeHit, FindNodeReal, CallFindNode, ComputedInclude, UpdateSet, Finish,
         RootDone, RunAlgorithm, caches
    <2>3. Same(h, h) /\ DOMAIN h = DOMAIN nodes'
      BY <1>2, <2>1, <2>2
    <2>4. Graph(h)'
      BY <1>3, <2>1, <2>3, GraphHit, GraphReal, GraphCall, GraphComputed, GraphUpdate, GraphFinish,
         GraphChild, GraphRootDone
    <2> QED
      BY <2>4 DEF Standing
  <1>4. ASSUME NEW c \in Commands, Request(c) PROVE Standing'
    <2>1. PICK h : Graph(h)
      BY DEF Standing
    <2>2. DOMAIN nodes' = DOMAIN nodes
      BY <1>4 DEF Request, RunAlgorithm
    <2>3. Same(h, h) /\ DOMAIN h = DOMAIN nodes'
      BY <1>2, <2>1, <2>2
    <2>4. Graph(h)'
      BY <1>4, <2>1, <2>3, GraphRequest
    <2> QED
      BY <2>4 DEF Standing
  <1>5. ASSUME TimeOut \/ StatReset PROVE Standing'
    <2>1. nodes' = <<>> /\ node_cache' = Empty /\ stack' = <<>> /\ call' = NoCall
      BY <1>5 DEF TimeOut, StatReset, ClearStatCaches, Idle
    <2>2. PICK h : h = [k \in {} |-> 0]
      OBVIOUS
    <2>3. DOMAIN h = {}
      BY <2>2
    <2>4. Graph(h)'
      BY <2>1, <2>3 DEF Graph, EdgesOK, KeysOK, FramesOK, CallsOK, Elements, NoCall, Empty
    <2> QED
      BY <2>4 DEF Standing
  <1>6. ASSUME UNCHANGED vars \/ ComputedNotCovered PROVE Standing'
    BY <1>6, GraphStutter, GraphComputedNotCovered DEF Standing
  <1> QED
    BY <1>1, <1>3, <1>4, <1>5, <1>6 DEF Next, Analyze, FindNode, Leaves

LEMMA StandingInit == Init => Standing
  <1> SUFFICES ASSUME Init PROVE Standing
    OBVIOUS
  <1>1. PICK h : h = [k \in {} |-> 0]
    OBVIOUS
  <1>2. DOMAIN h = {}
    BY <1>1
  <1> QED
    BY <1>2, GraphCleared DEF Init, Standing

\* Every node of the cache stands for what its key looks for, and every child for
\* something that its parent may include by the definitions seen so far.
THEOREM GraphInvariant == Spec => [](Types /\ Standing)
  <1>1. Init => Types /\ Standing
    BY TypesInit, StandingInit
  <1>2. (Types /\ Standing) /\ [Next]_vars => (Types /\ Standing)'
    BY TypesStep, StandingStep
  <1> QED
    BY <1>1, <1>2, PTL DEF Spec

-----------------------------------------------------------------------------
(* The closure has nothing but what could be included *)

\* What can be included from the files of the set start.
MayReach(p, start, t) == Closure(start, [f \in DOMAIN p |-> MayInclude(p, f, t)])

LEMMA MayClosure ==
    ASSUME NEW p \in Programs, NEW start, start \subseteq DOMAIN p, NEW t
    PROVE  /\ start \subseteq MayReach(p, start, t) /\ MayReach(p, start, t) \subseteq DOMAIN p
           /\ \A f \in MayReach(p, start, t) : MayInclude(p, f, t) \subseteq MayReach(p, start, t)
           /\ \A X \in SUBSET DOMAIN p :
                (start \subseteq X /\ \A f \in X : MayInclude(p, f, t) \subseteq X)
                  => MayReach(p, start, t) \subseteq X
  <1> DEFINE S == DOMAIN p
             succ == [f \in S |-> MayInclude(p, f, t)]
             C == MayReach(p, start, t)
  <1>1. IsFiniteSet(S)
    BY ProgramFacts
  <1>2. \A f \in S : MayInclude(p, f, t) \in SUBSET S
    BY MayIncludeType
  <1>3. succ \in [S -> SUBSET S] /\ DOMAIN succ = S /\ \A f \in S : succ[f] = MayInclude(p, f, t)
    BY <1>2
  <1>4. C = Closure(start, succ) /\ start \subseteq S
    BY DEF MayReach
  <1> HIDE DEF succ, C
  <1>5. start \subseteq C /\ C \subseteq S /\ IsClosed(C, succ)
    <2> HIDE DEF S
    <2> QED
      BY <1>1, <1>3, <1>4, ClosureClosed
  <1>6. \A f \in C : MayInclude(p, f, t) \subseteq C
    BY <1>3, <1>5 DEF IsClosed
  <1>7. ASSUME NEW X \in SUBSET S, start \subseteq X, \A f \in X : MayInclude(p, f, t) \subseteq X
        PROVE  C \subseteq X
    <2>1. IsClosed(X, succ)
      BY <1>3, <1>7 DEF IsClosed
    <2> HIDE DEF S
    <2> QED
      BY <1>1, <1>3, <1>4, <1>7, <2>1, ClosureLeast
  <1> QED
    BY <1>5, <1>6, <1>7 DEF C

LEMMA MayReachGrows ==
    ASSUME NEW p \in Programs, NEW start, start \subseteq DOMAIN p, NEW t, NEW u, t \subseteq u
    PROVE  MayReach(p, start, t) \subseteq MayReach(p, start, u)
  <1>1. PICK X : X = MayReach(p, start, u)
    OBVIOUS
  <1>2. start \subseteq X /\ X \subseteq DOMAIN p /\ \A f \in X : MayInclude(p, f, u) \subseteq X
    BY <1>1, MayClosure
  <1>3. \A f : MayInclude(p, f, t) \subseteq MayInclude(p, f, u)
    BY MayIncludeMonotone
  <1>4. X \in SUBSET DOMAIN p /\ \A f \in X : MayInclude(p, f, t) \subseteq X
    BY <1>2, <1>3
  <1> QED
    BY <1>1, <1>2, <1>4, MayClosure

LEMMA PossibleIs ==
    ASSUME Types, ~Idle \/ answer = "closure"
    PROVE  /\ Possible = MayReach(program, Elements(command.roots), symbol_table)
           /\ Elements(command.roots) \subseteq DOMAIN program /\ program \in Programs
  BY DEF Possible, MayReach, Types, RequestOK, CachesOK, Elements

LEMMA PossibleFacts ==
    ASSUME Types, ~Idle \/ answer = "closure"
    PROVE  /\ Possible \subseteq DOMAIN program
           /\ \A i \in DOMAIN command.roots : command.roots[i] \in Possible
           /\ \A f \in Possible : MayInclude(program, f, symbol_table) \subseteq Possible
  <1>1. PICK p, st, t : p = program /\ st = Elements(command.roots) /\ t = symbol_table
    OBVIOUS
  <1>2. p \in Programs /\ st \subseteq DOMAIN p /\ Possible = MayReach(p, st, t)
    BY <1>1, PossibleIs
  <1>3. /\ st \subseteq MayReach(p, st, t) /\ MayReach(p, st, t) \subseteq DOMAIN p
        /\ \A f \in MayReach(p, st, t) : MayInclude(p, f, t) \subseteq MayReach(p, st, t)
    BY <1>2, MayClosure
  <1>4. \A i \in DOMAIN command.roots : command.roots[i] \in st
    BY <1>1 DEF Elements
  <1> QED
    BY <1>1, <1>2, <1>3, <1>4

LEMMA PossibleGrows ==
    ASSUME Types, ~Idle, UNCHANGED <<program, command>>, symbol_table \subseteq symbol_table'
    PROVE  Possible \subseteq Possible'
  <1>1. PICK p, st, t, u : p = program /\ st = Elements(command.roots) /\ t = symbol_table /\ u = symbol_table'
    OBVIOUS
  <1>2. p \in Programs /\ st \subseteq DOMAIN p /\ Possible = MayReach(p, st, t)
    BY <1>1, PossibleIs
  <1>3. Possible' = MayReach(p, st, u)
    BY <1>1 DEF Possible, MayReach
  <1> QED
    BY <1>1, <1>2, <1>3, MayReachGrows

\* The files of the nodes that the root reaches.
LEMMA RootTight ==
    ASSUME Types, NEW h, Graph(h), call.op = "return", stack = <<>>
    PROVE  IncludeClosure(call.node) \subseteq Possible
  <1>1. PICK n \in DOMAIN nodes : n = call.node
    BY ReturnFacts
  <1>2. ~Idle
    BY ReturnFacts
  <1>3. /\ Possible \subseteq DOMAIN program
        /\ \A i \in DOMAIN command.roots : command.roots[i] \in Possible
        /\ \A f \in Possible : MayInclude(program, f, symbol_table) \subseteq Possible
    BY <1>2, PossibleFacts
  <1> DEFINE X == {m \in DOMAIN nodes : IF h[m].real = None THEN Named(program, h[m].nx) \subseteq Possible
                                        ELSE h[m].real \in Possible}
  <1>4. n \in X
    <2>1. h[n].real = command.roots[Current] /\ command.roots[Current] \in DOMAIN program
          /\ Current \in DOMAIN command.roots
      BY <1>1, <1>2, RootsFacts DEF Graph, CallsOK
    <2>2. h[n].real # None
      BY <2>1, ProgramFacts DEF Types, CachesOK
    <2> QED
      BY <1>3, <2>1, <2>2
  <1>5. ASSUME NEW m \in X, NEW c \in nodes[m].children PROVE c \in X
    <2>1. c \in DOMAIN nodes
      BY DEF Types, CachesOK
    <2>2. ChildOK(program, symbol_table, h[m], h[c])
      BY DEF Graph, EdgesOK
    <2>3. Allowed(program, symbol_table, h[m]) \subseteq Possible
      BY <1>3 DEF Allowed
    <2>4. CASE h[c].real = None
      <3>1. h[m].real # None /\ h[c].nx \subseteq Elements(program[h[m].real].next)
        BY <2>2, <2>4 DEF ChildOK
      <3>2. Named(program, h[c].nx) \subseteq MayInclude(program, h[m].real, symbol_table)
        BY <3>1 DEF Named, MayInclude
      <3> QED
        BY <2>1, <2>3, <2>4, <3>1, <3>2 DEF Allowed
    <2>5. CASE h[c].real # None
      BY <2>1, <2>2, <2>3, <2>5 DEF ChildOK
    <2> QED
      BY <2>4, <2>5
  <1> HIDE DEF X
  <1>6. Reachable(n) \subseteq X
    <2> DEFINE S == DOMAIN nodes
               succ == [m \in S |-> nodes[m].children]
               start == {n}
    <2>1. IsFiniteSet(S)
      <3>1. S = 1 .. Len(nodes) /\ Len(nodes) \in Nat
        BY NodesType DEF Types
      <3> QED
        BY <3>1, FS_Interval
    <2>2. \A m \in S : nodes[m].children \in SUBSET S
      BY DEF Types, CachesOK
    <2>3. succ \in [S -> SUBSET S] /\ DOMAIN succ = S /\ \A m \in S : succ[m] = nodes[m].children
      BY <2>2
    <2>4. X \subseteq S
      BY DEF X
    <2>5. start \subseteq X /\ Reachable(n) = Closure(start, succ)
      BY <1>4 DEF Reachable
    <2> HIDE DEF succ, S, start
    <2>6. IsClosed(X, succ)
      BY <1>5, <2>3 DEF IsClosed
    <2> QED
      BY <2>1, <2>3, <2>4, <2>5, <2>6, ClosureLeast
  <1>7. \A m \in X : Real(m) # None => Real(m) \in Possible
    BY DEF X, Graph
  <1> QED
    BY <1>1, <1>6, <1>7 DEF IncludeClosure, Real
LEMMA TightGrows ==
    ASSUME Types, TightOK, ~Idle, UNCHANGED <<program, command, closure>>, symbol_table \subseteq symbol_table'
    PROVE  TightOK'
  BY PossibleGrows DEF TightOK

LEMMA TightStep ==
    ASSUME Types, Standing, TightOK, [Next]_vars
    PROVE  TightOK'
  <1>1. ASSUME FindNodeHit \/ FindNodeNext \/ FindNodeMissing \/ FindNodeReal \/ FindNodeMiss PROVE TightOK'
    <2>1. call.op = "call"
      BY <1>1 DEF FindNodeHit, FindNodeNext, FindNodeMissing, FindNodeReal, FindNodeMiss, MakesNode, NotReusable
    <2>2. UNCHANGED <<program, command, closure>> /\ symbol_table \subseteq symbol_table'
      BY <1>1 DEF FindNodeHit, FindNodeNext, FindNodeMissing, FindNodeReal, FindNodeMiss, Define, Enter,
         request, caches
    <2> QED
      BY <2>1, <2>2, CallFacts, TightGrows
  <1>2. ASSUME CallFindNode \/ ComputedInclude \/ UpdateSet \/ Finish \/ AddChild PROVE TightOK'
    <2>1. ~Idle
      BY <1>2 DEF CallFindNode, ComputedInclude, UpdateSet, Finish, AddChild, Running, Idle
    <2>2. UNCHANGED <<program, command, closure>> /\ symbol_table \subseteq symbol_table'
      BY <1>2 DEF CallFindNode, ComputedInclude, UpdateSet, Finish, AddChild, request, caches
    <2> QED
      BY <2>1, <2>2, TightGrows
  <1>3. ASSUME RootDone PROVE TightOK'
    <2>1. /\ ~Idle /\ stack = <<>> /\ call.op = "return"
          /\ closure' = closure \cup IncludeClosure(call.node) /\ UNCHANGED <<program, command>>
      BY <1>3, TypesRootDone
    <2>2. symbol_table \subseteq symbol_table'
      BY <1>3 DEF RootDone, RunAlgorithm, caches
    <2>3. IncludeClosure(call.node) \subseteq Possible
      BY <2>1, RootTight DEF Standing
    <2>4. closure' \subseteq Possible
      BY <2>1, <2>3 DEF TightOK
    <2> QED
      BY <2>1, <2>2, <2>4, PossibleGrows DEF TightOK
  <1>4. ASSUME Leaves \/ ComputedNotCovered \/ TimeOut \/ StatReset PROVE TightOK'
    <2>1. stack' = <<>> /\ call' = NoCall /\ answer' # "closure"
      BY <1>4, LeavesParse DEF ComputedNotCovered, LeaveFindNode, TimeOut, StatReset, Idle
    <2> QED
      BY <2>1 DEF TightOK, Idle
  <1>5. ASSUME NEW c \in Commands, Request(c) PROVE TightOK'
    BY <1>5 DEF Request, TightOK
  <1>6. ASSUME UNCHANGED vars PROVE TightOK'
    BY <1>6 DEF vars, caches, request, TightOK, Possible, Idle
  <1> QED
    BY <1>1, <1>2, <1>3, <1>4, <1>5, <1>6 DEF Next, Analyze, FindNode, Leaves

\* ClosureTight: no file is sent that nothing could include, although nodes are
\* shared between sources, directories and compilations.
THEOREM TightCorrect == Spec => []ClosureTight
  <1>1. Init => TightOK
    BY DEF Init, TightOK, Idle
  <1>2. (Types /\ Standing) /\ TightOK /\ [Next]_vars => TightOK'
    BY TightStep
  <1>3. TightOK => ClosureTight
    BY DEF TightOK, ClosureTight
  <1> QED
    BY <1>1, <1>2, <1>3, GraphInvariant, PTL DEF Spec
-----------------------------------------------------------------------------
(* What is below a file *)

LEMMA BelowFacts ==
    ASSUME NEW p \in Programs, NEW f \in DOMAIN p
    PROVE  /\ Below(p, f) \subseteq DOMAIN p
           /\ \A t \in SUBSET AllDefinitions(p) : MayInclude(p, f, t) \subseteq Below(p, f)
           /\ \A g \in Below(p, f) :
                /\ Below(p, g) \subseteq Below(p, f)
                /\ Depends(p, g) => Depends(p, f)
                /\ \A t \in SUBSET AllDefinitions(p) : MayInclude(p, g, t) \subseteq Below(p, f)
  <1> DEFINE A == AllDefinitions(p)
             B(x) == MayReach(p, MayInclude(p, x, A), A)
  <1>1. ASSUME NEW x PROVE Below(p, x) = B(x)
    BY DEF Below, MayReach
  <1> HIDE DEF A
  <1>2. ASSUME NEW x \in DOMAIN p
        PROVE  /\ MayInclude(p, x, A) \subseteq B(x) /\ B(x) \subseteq DOMAIN p
               /\ \A g \in B(x) : MayInclude(p, g, A) \subseteq B(x)
               /\ \A X \in SUBSET DOMAIN p :
                    (MayInclude(p, x, A) \subseteq X /\ \A g \in X : MayInclude(p, g, A) \subseteq X) => B(x) \subseteq X
    <2>1. PICK st : st = MayInclude(p, x, A) /\ st \subseteq DOMAIN p
      BY MayIncludeType
    <2> QED
      BY <2>1, MayClosure
  <1> HIDE DEF B
  <1>3. \A x, t : t \subseteq A => MayInclude(p, x, t) \subseteq MayInclude(p, x, A)
    BY MayIncludeMonotone
  <1>4. ASSUME NEW g \in B(f) PROVE g \in DOMAIN p /\ B(g) \subseteq B(f)
    BY <1>2
  <1>5. ASSUME NEW g \in B(f), Depends(p, g) PROVE Depends(p, f)
    <2>1. PICK x \in {g} \cup Below(p, g) : p[x].expr # <<>>
      BY <1>5 DEF Depends
    <2>2. x \in Below(p, f)
      BY <1>1, <1>4, <1>5, <2>1
    <2> QED
      BY <2>1, <2>2 DEF Depends
  <1> QED
    BY <1>1, <1>2, <1>3, <1>4, <1>5 DEF A

\* TameProgram of the source tree p.
TameTree(p) ==
    \A f \in DOMAIN p : Depends(p, f) =>
        /\ \A k, l \in Keys(p, f) : k = l
        /\ f \notin Below(p, f)
        /\ f.name \notin NextNames(p)

LEMMA TameIs == TameProgram => TameTree(program)
  BY DEF TameProgram, TameTree, NextNames

\* A child is below its parent, and below whatever the parent is below.
LEMMA ChildUnder ==
    ASSUME NEW p \in Programs, NEW t \in SUBSET AllDefinitions(p), NEW a, NEW b, ChildOK(p, t, a, b)
    PROVE  /\ a.real \in DOMAIN p => Under(p, a.real, b)
           /\ \A f \in DOMAIN p : Under(p, f, a) => Under(p, f, b)
  <1>1. ASSUME NEW f, MayInclude(p, f, t) \subseteq Below(p, f), a.real = f, f # None PROVE Under(p, f, b)
    <2>1. CASE b.real = None
      <3>1. Named(p, b.nx) \subseteq MayInclude(p, f, t)
        BY <1>1, <2>1 DEF ChildOK, Named, MayInclude
      <3> QED
        BY <1>1, <2>1, <3>1 DEF Under
    <2>2. CASE b.real # None
      BY <1>1, <2>2 DEF ChildOK, Under, Allowed
    <2> QED
      BY <2>1, <2>2
  <1>2. a.real \in DOMAIN p => Under(p, a.real, b)
    BY <1>1, BelowFacts, ProgramFacts
  <1>3. ASSUME NEW f \in DOMAIN p, Under(p, f, a) PROVE Under(p, f, b)
    <2>1. CASE a.real = None
      BY <1>3, <2>1 DEF ChildOK, Under, Allowed
    <2>2. CASE a.real # None
      <3>1. a.real \in Below(p, f)
        BY <1>3, <2>2 DEF Under
      <3>2. PICK x \in Below(p, f) : x = a.real
        BY <3>1
      <3>3. MayInclude(p, x, t) \subseteq Below(p, f)
        BY BelowFacts
      <3>4. CASE b.real = None
        <4>1. Named(p, b.nx) \subseteq MayInclude(p, x, t)
          BY <2>2, <3>2, <3>4 DEF ChildOK, Named, MayInclude
        <4> QED
          BY <3>3, <3>4, <4>1 DEF Under
      <3>5. CASE b.real # None
        BY <2>2, <3>2, <3>3, <3>5 DEF ChildOK, Under, Allowed
      <3> QED
        BY <3>4, <3>5
    <2> QED
      BY <2>1, <2>2
  <1> QED
    BY <1>2, <1>3

\* A file that includes one which depends on computed includes does so too.
LEMMA ParentDep ==
    ASSUME NEW p \in Programs, TameTree(p), NEW t \in SUBSET AllDefinitions(p), NEW a, NEW b,
           a.real \in DOMAIN p \cup {None}, b.real \in DOMAIN p \cup {None},
           a.nx \subseteq NextNames(p), ChildOK(p, t, a, b), Dep(p, b)
    PROVE  Dep(p, a)
  <1>1. b.real # None /\ b.real \in DOMAIN p /\ Depends(p, b.real)
    BY DEF Dep
  <1>2. a.real # None
    <2>1. SUFFICES ASSUME a.real = None PROVE FALSE
      OBVIOUS
    <2>2. b.real.name \in NextNames(p)
      BY <1>1, <2>1 DEF ChildOK, Allowed, Named
    <2> QED
      BY <1>1, <2>2 DEF TameTree
  <1>3. PICK f \in DOMAIN p : f = a.real
    BY <1>2
  <1>4. b.real \in Below(p, f)
    BY <1>1, <1>3, ChildUnder DEF Under
  <1>5. Depends(p, f)
    BY <1>1, <1>4, BelowFacts
  <1> QED
    BY <1>2, <1>3, <1>5 DEF Dep

\* What a node for a file above takes into account, one for b does.
LEMMA BaseDown ==
    ASSUME NEW p \in Programs, NEW f \in DOMAIN p, NEW b, Under(p, f, b), b.real # None, NEW d, NEW c
    PROVE  Base(p, d, c, f) \subseteq Base(p, d, c, b.real)
  <1>1. PICK x \in Below(p, f) : x = b.real
    BY DEF Under
  <1>2. Below(p, x) \subseteq Below(p, f)
    BY BelowFacts
  <1> QED
    BY <1>1, <1>2 DEF Base

\* What answers the call is below every file on the stack.
LEMMA UnderAll ==
    ASSUME Types, NEW h, Graph(h), ChainOK(h), stack # <<>>, NEW b,
           ChildOK(program, symbol_table, h[Top.node], b),
           NEW i \in DOMAIN stack, h[stack[i].node].real # None
    PROVE  /\ h[stack[i].node].real \in DOMAIN program
           /\ Under(program, h[stack[i].node].real, b)
  <1>1. PICK p, t, a, f : p = program /\ t = symbol_table /\ a = h[Top.node] /\ f = h[stack[i].node].real
    OBVIOUS
  <1>2. p \in Programs /\ t \in SUBSET AllDefinitions(p)
    BY <1>1 DEF Types, CachesOK
  <1>3. f \in DOMAIN p
    <2>1. PICK fr \in Elements(stack) : fr = stack[i]
      BY DEF Elements
    <2>2. fr.node \in DOMAIN nodes
      BY DEF Types, StackOK
    <2>3. h[fr.node].real = Real(fr.node) /\ Real(fr.node) \in DOMAIN program \cup {None}
      BY <2>2 DEF Graph, Types, CachesOK
    <2> QED
      BY <1>1, <2>1, <2>3
  <1>4. stack \in Seq(FrameType)
    BY DEF Types, StackOK
  <1>5. Len(stack) \in Nat /\ DOMAIN stack = 1 .. Len(stack) /\ Len(stack) \in DOMAIN stack
        /\ Top = stack[Len(stack)]
    BY <1>4, TopFacts
  <1>6. CASE i = Len(stack)
    BY <1>1, <1>2, <1>3, <1>5, <1>6, ChildUnder
  <1>7. CASE i # Len(stack)
    <2>1. Under(p, f, a)
      BY <1>1, <1>5, <1>7 DEF ChainOK
    <2> QED
      BY <1>1, <1>2, <1>3, <2>1, ChildUnder
  <1> QED
    BY <1>6, <1>7
-----------------------------------------------------------------------------
(* What has been parsed, and the files of the stack *)

LEMMA ParsedKept ==
    ASSUME ParsedOK, program' = program, file_cache' = file_cache, symbol_table \subseteq symbol_table',
           \A n \in DOMAIN nodes' :
             nodes'[n].real # None => n \in DOMAIN nodes /\ nodes'[n].real = nodes[n].real,
           Idle' \/ (~Idle /\ command' = command /\ Current' = Current)
    PROVE  ParsedOK'
  <1>1. \A n \in DOMAIN nodes' : Real(n)' # None => Real(n)' \in file_cache'
    BY DEF ParsedOK, Real
  <1>2. \A q \in file_cache' : program'[q].define \subseteq symbol_table'
    BY DEF ParsedOK
  <1>3. ~Idle' => /\ command'.d_opts \subseteq symbol_table'
                  /\ \A j \in 1 .. Current' - 1 : command'.roots[j] \in file_cache'
    BY DEF ParsedOK
  <1> QED
    BY <1>1, <1>2, <1>3 DEF ParsedOK

LEMMA ParsedMakes ==
    ASSUME Types, ParsedOK, FindNodeNext \/ FindNodeMissing
    PROVE  ParsedOK'
  <1>1. /\ MakesNode /\ Target = None /\ UNCHANGED <<program, file_cache, symbol_table, request>>
        /\ call.op = "call"
    BY DEF FindNodeNext, FindNodeMissing, MakesNode, NotReusable
  <1>2. /\ DOMAIN nodes' = DOMAIN nodes \cup {NewNode} /\ \A n \in DOMAIN nodes : nodes'[n] = nodes[n]
        /\ nodes'[NewNode].real = None
    BY <1>1, NewNodeFacts
  <1>3. command' = command /\ Current' = Current /\ ~Idle
    BY <1>1, CallFacts DEF request, Current
  <1> QED
    BY <1>1, <1>2, <1>3, ParsedKept

LEMMA ParsedMiss ==
    ASSUME Types, ParsedOK, FindNodeMiss
    PROVE  ParsedOK'
  <1>1. /\ MakesNode /\ Target # None /\ program' = program /\ UNCHANGED request /\ NotReusable
        /\ file_cache' = file_cache \cup {Target} /\ call.op = "call"
        /\ symbol_table' = symbol_table \cup (IF Parsed THEN {} ELSE program[Target].define)
    BY DEF FindNodeMiss, MakesNode, NotReusable, Define, Enter
  <1>2. /\ DOMAIN nodes' = DOMAIN nodes \cup {NewNode} /\ \A n \in DOMAIN nodes : nodes'[n] = nodes[n]
        /\ nodes'[NewNode].real = Target
    BY <1>1, NewNodeFacts
  <1>3. command' = command /\ Current' = Current /\ ~Idle
    BY <1>1, CallFacts DEF request, Current
  <1>4. \A n \in DOMAIN nodes' : Real(n)' # None => Real(n)' \in file_cache'
    BY <1>1, <1>2 DEF ParsedOK, Real
  <1>5. \A q \in file_cache' : program'[q].define \subseteq symbol_table'
    BY <1>1 DEF ParsedOK, Parsed
  <1>6. /\ command'.d_opts \subseteq symbol_table'
        /\ \A j \in 1 .. Current' - 1 : command'.roots[j] \in file_cache'
    BY <1>1, <1>3 DEF ParsedOK
  <1> QED
    BY <1>4, <1>5, <1>6 DEF ParsedOK

LEMMA ParsedRootDone ==
    ASSUME Types, NEW h, Graph(h), ParsedOK, RootDone
    PROVE  ParsedOK'
  <1>1. /\ ~Idle /\ stack = <<>> /\ call.op = "return" /\ UNCHANGED <<program, stack, command>>
        /\ roots = <<>> => UNCHANGED caches /\ call' = NoCall
        /\ roots # <<>> => RunAlgorithm(command.roots[Current + 1], command.d_opts) /\ Current' = Current + 1
    BY TypesRootDone
  <1>2. CASE roots = <<>>
    <2>1. UNCHANGED <<file_cache, symbol_table, nodes>> /\ Idle'
      BY <1>1, <1>2 DEF caches, Idle
    <2> QED
      BY <1>1, <2>1, ParsedKept
  <1>3. CASE roots # <<>>
    <2>1. UNCHANGED <<file_cache, nodes>> /\ symbol_table \subseteq symbol_table' /\ Current' = Current + 1
      BY <1>1, <1>3 DEF RunAlgorithm
    <2>2. Current \in Nat
      BY <1>1, RootsFacts
    <2>3. command.roots[Current] \in file_cache
      <3>1. PICK n \in DOMAIN nodes : n = call.node
        BY <1>1, ReturnFacts
      <3>2. h[n].real = command.roots[Current] /\ h[n].real = Real(n)
        BY <1>1, <3>1 DEF Graph, CallsOK
      <3>3. command.roots[Current] \in DOMAIN program /\ None \notin DOMAIN program
        BY <1>1, RootsFacts, ProgramFacts DEF Types, CachesOK
      <3> QED
        BY <3>2, <3>3 DEF ParsedOK
    <2>4. \A j \in 1 .. Current' - 1 : command'.roots[j] \in file_cache'
      <3>1. ASSUME NEW j \in 1 .. Current' - 1 PROVE j = Current \/ j \in 1 .. Current - 1
        BY <2>1, <2>2
      <3> QED
        BY <1>1, <2>1, <2>3, <3>1 DEF ParsedOK
    <2>5. command'.d_opts \subseteq symbol_table'
      BY <1>1, <2>1 DEF ParsedOK
    <2>6. \A n \in DOMAIN nodes' : Real(n)' # None => Real(n)' \in file_cache'
      BY <2>1 DEF ParsedOK, Real
    <2>7. \A q \in file_cache' : program'[q].define \subseteq symbol_table'
      BY <1>1, <2>1 DEF ParsedOK
    <2> QED
      BY <2>4, <2>5, <2>6, <2>7 DEF ParsedOK
  <1> QED
    BY <1>2, <1>3

LEMMA ParsedRequest ==
    ASSUME Types, ParsedOK, NEW c \in Commands, Request(c)
    PROVE  ParsedOK'
  <1>1. /\ program' = program /\ command' = c /\ UNCHANGED <<file_cache, nodes>>
        /\ symbol_table' = symbol_table \cup c.d_opts
    BY DEF Request, RunAlgorithm
  <1>2. Current' = 1
    BY TypesRequest
  <1>3. 1 .. Current' - 1 = {}
    BY <1>2
  <1>4. \A n \in DOMAIN nodes' : Real(n)' # None => Real(n)' \in file_cache'
    BY <1>1 DEF ParsedOK, Real
  <1>5. \A q \in file_cache' : program'[q].define \subseteq symbol_table'
    BY <1>1 DEF ParsedOK
  <1> QED
    BY <1>1, <1>3, <1>4, <1>5 DEF ParsedOK

\* What the other steps of the analysis leave as it is.
Steady == FindNodeHit \/ FindNodeReal \/ CallFindNode \/ ComputedInclude \/ UpdateSet \/ Finish \/ AddChild

LEMMA SteadyFacts ==
    ASSUME Types, Steady
    PROVE  /\ UNCHANGED <<program, file_cache, symbol_table, request, command>> /\ Current' = Current
           /\ DOMAIN nodes' = DOMAIN nodes /\ \A n \in DOMAIN nodes : nodes'[n].real = nodes[n].real
           /\ ~Idle
  <1>1. UNCHANGED <<program, file_cache, symbol_table, request>>
    BY DEF Steady, FindNodeHit, FindNodeReal, CallFindNode, ComputedInclude, UpdateSet, Finish, AddChild, caches
  <1>2. command' = command /\ Current' = Current
    BY <1>1 DEF request, Current
  <1>3. DOMAIN nodes' = DOMAIN nodes /\ \A n \in DOMAIN nodes : nodes'[n].real = nodes[n].real
    <2>1. CASE AddChild
      BY <2>1, ChildFacts
    <2>2. CASE ~AddChild
      <3>1. nodes' = nodes
        BY <2>2 DEF Steady, FindNodeHit, FindNodeReal, CallFindNode, ComputedInclude, UpdateSet, Finish, caches
      <3> QED
        BY <3>1
    <2> QED
      BY <2>1, <2>2
  <1>4. ~Idle
    BY DEF Steady, FindNodeHit, FindNodeReal, NotReusable, CallFindNode, ComputedInclude, UpdateSet, Finish,
       AddChild, Running, Idle, NoCall
  <1> QED
    BY <1>1, <1>2, <1>3, <1>4

LEMMA ParsedSteady ==
    ASSUME Types, ParsedOK, Steady
    PROVE  ParsedOK'
  BY SteadyFacts, ParsedKept

\* The chain of activations stays, or gets shorter.
LEMMA ChainKept ==
    ASSUME Types, NEW h, Graph(h), ChainOK(h), NEW g, Same(h, g), program' = program,
           DOMAIN stack' \subseteq DOMAIN stack,
           \A i \in DOMAIN stack' : stack'[i].node = stack[i].node
    PROVE  ChainOK(g)'
  <1>1. ASSUME NEW i \in DOMAIN stack'
        PROVE  /\ stack'[i].node \in DOMAIN h
               /\ g[stack'[i].node].real = h[stack[i].node].real /\ g[stack'[i].node].nx = h[stack[i].node].nx
    <2>1. stack[i] \in Elements(stack)
      BY DEF Elements
    <2>2. stack[i].node \in DOMAIN h
      BY <2>1 DEF Types, StackOK, Graph
    <2> QED
      BY <2>2 DEF Same
  <1>2. ASSUME NEW i \in DOMAIN stack', NEW j \in DOMAIN stack', i < j, g[stack'[i].node].real # None
        PROVE  Under(program, g[stack'[i].node].real, g[stack'[j].node])
    <2>1. Under(program, h[stack[i].node].real, h[stack[j].node])
      BY <1>1, <1>2 DEF ChainOK
    <2>2. PICK a, b, f : a = h[stack[j].node] /\ b = g[stack'[j].node] /\ f = h[stack[i].node].real
      OBVIOUS
    <2>3. b.real = a.real /\ b.nx = a.nx /\ f = g[stack'[i].node].real
      BY <1>1, <2>2
    <2>4. Under(program, f, b)
      BY <2>1, <2>2, <2>3 DEF Under
    <2> QED
      BY <2>2, <2>3, <2>4
  <1> QED
    BY <1>2 DEF ChainOK

LEMMA ChainPush ==
    ASSUME Types, NEW h, Graph(h), ChainOK(h), MakesNode, NEW g, Same(h, g), ForNew(g), Types',
           program' = program, NEW fr, stack' = Append(stack, fr), fr.node = NewNode
    PROVE  ChainOK(g)'
  <1>1. fr \in FrameType /\ stack \in Seq(FrameType)
    BY PushedType DEF Types, StackOK
  <1>2. /\ Len(stack) \in Nat /\ DOMAIN stack = 1 .. Len(stack) /\ DOMAIN stack' = 1 .. Len(stack) + 1
        /\ \A i \in DOMAIN stack : stack'[i] = stack[i]
        /\ stack'[Len(stack) + 1] = fr
    BY <1>1, PushFacts
  <1>3. NotReusable /\ call.op = "call"
    BY DEF MakesNode, NotReusable
  <1>4. PICK b : b = g[NewNode] /\ Answers(program, b, CallKey)
    BY <1>3, NewAnswers
  <1>5. ASSUME NEW i \in DOMAIN stack
        PROVE  /\ g[stack'[i].node].real = h[stack[i].node].real /\ g[stack'[i].node].nx = h[stack[i].node].nx
    <2>1. stack[i] \in Elements(stack)
      BY DEF Elements
    <2>2. stack[i].node \in DOMAIN h
      BY <2>1 DEF Types, StackOK, Graph
    <2> QED
      BY <1>2, <2>2 DEF Same
  <1>6. ASSUME NEW i \in DOMAIN stack, h[stack[i].node].real # None
        PROVE  Under(program, h[stack[i].node].real, b)
    <2>1. stack # <<>>
      OBVIOUS
    <2>2. ChildOK(program, symbol_table, h[Top.node], b)
      BY <1>3, <1>4, <2>1, CallChild
    <2> QED
      BY <1>6, <2>1, <2>2, UnderAll
  <1>7. ASSUME NEW i \in DOMAIN stack', NEW j \in DOMAIN stack', i < j, g[stack'[i].node].real # None
        PROVE  Under(program, g[stack'[i].node].real, g[stack'[j].node])
    <2>1. i \in DOMAIN stack
      BY <1>2, <1>7
    <2>2. CASE j = Len(stack) + 1
      BY <1>2, <1>4, <1>5, <1>6, <1>7, <2>1, <2>2
    <2>3. CASE j # Len(stack) + 1
      <3>1. j \in DOMAIN stack
        BY <1>2, <2>3
      <3>2. Under(program, h[stack[i].node].real, h[stack[j].node])
        BY <1>5, <1>7, <2>1, <3>1 DEF ChainOK
      <3>3. PICK a, c, f : a = h[stack[j].node] /\ c = g[stack'[j].node] /\ f = h[stack[i].node].real
        OBVIOUS
      <3>4. c.real = a.real /\ c.nx = a.nx /\ f = g[stack'[i].node].real
        BY <1>5, <2>1, <3>1, <3>3
      <3>5. Under(program, f, c)
        BY <3>2, <3>3, <3>4 DEF Under
      <3> QED
        BY <3>3, <3>4, <3>5
    <2> QED
      BY <2>2, <2>3
  <1> QED
    BY <1>7 DEF ChainOK
LEMMA SteadyStack ==
    ASSUME Types, Steady
    PROVE  /\ DOMAIN stack' \subseteq DOMAIN stack
           /\ \A i \in DOMAIN stack' : stack'[i].node = stack[i].node
           /\ \A n : OnStack(n)' => OnStack(n)
  <1>1. stack \in Seq(FrameType)
    BY DEF Types, StackOK
  <1>2. /\ DOMAIN stack' \subseteq DOMAIN stack
        /\ \A i \in DOMAIN stack' : stack'[i].node = stack[i].node
    <2>1. CASE FindNodeHit \/ FindNodeReal \/ AddChild
      BY <2>1 DEF FindNodeHit, FindNodeReal, AddChild
    <2>2. CASE CallFindNode \/ UpdateSet
      <3>1. Running /\ Top.todo # <<>> /\ stack' = SetTodo(Tail(Top.todo))
        BY <2>2 DEF CallFindNode, UpdateSet
      <3>2. stack # <<>> /\ Top.todo \in Seq(Items)
        BY <3>1, RunningFacts
      <3>3. PICK q : q = Top.todo
        OBVIOUS
      <3>4. PICK t : t = Tail(q)
        OBVIOUS
      <3>5. t \in Seq(Items)
        BY <3>1, <3>2, <3>3, <3>4, HeadElements
      <3> QED
        BY <1>1, <3>1, <3>2, <3>3, <3>4, <3>5, TodoFacts
    <2>3. CASE ComputedInclude
      <3>1. PICK t : t \in Seq(Items) /\ stack' = SetTodo(t)
        BY <2>3, TypesComputed
      <3>2. stack # <<>>
        BY <2>3 DEF ComputedInclude, Running
      <3> QED
        BY <1>1, <3>1, <3>2, TodoFacts
    <2>4. CASE Finish
      <3>1. stack # <<>> /\ stack' = SubSeq(stack, 1, Len(stack) - 1)
        BY <2>4 DEF Finish, Running
      <3>2. /\ Len(stack) \in Nat /\ DOMAIN stack = 1 .. Len(stack) /\ DOMAIN stack' = 1 .. Len(stack) - 1
            /\ \A i \in DOMAIN stack' : stack'[i] = stack[i]
        BY <1>1, <3>1, PopFacts
      <3> QED
        BY <3>2
    <2> QED
      BY <2>1, <2>2, <2>3, <2>4 DEF Steady
  <1> QED
    BY <1>2 DEF OnStack, Elements

-----------------------------------------------------------------------------
(* What the nodes account for *)

\* Definitions are added that no node off the stack has used a symbol of.
Widened(h, g, defs) ==
    \A n \in DOMAIN nodes :
        /\ g[n].real = h[n].real /\ g[n].nx = h[n].nx /\ g[n].syms = h[n].syms
        /\ g[n].good = IF OnStack(n) THEN h[n].good
                       ELSE h[n].good \cup {d \in defs : d.symbol \notin h[n].syms}

\* Nodes may be made, but no child is added.
LEMMA GhostKept ==
    ASSUME Types, NEW h, GhostOK(h), NEW defs \in SUBSET Definition, NEW g, Widened(h, g, defs),
           program' = program,
           \A n \in DOMAIN nodes : /\ n \in DOMAIN nodes' /\ nodes'[n].children = nodes[n].children
                                   /\ Support(n) \subseteq Support(n)'
                                   /\ OnStack(n)' => OnStack(n),
           \A n \in DOMAIN nodes' :
             \/ n \in DOMAIN nodes
             \/ /\ nodes'[n].children = {}
                /\ g[n].nx \subseteq NextNames(program) /\ g[n].good \subseteq Definition /\ g[n].syms = {}
                /\ ~Dep(program, g[n]) => g[n].good = Definition
    PROVE  GhostOK(g)'
  <1>1. ASSUME NEW n \in DOMAIN nodes
        PROVE  /\ g[n].nx \subseteq NextNames(program)
               /\ g[n].good \subseteq Definition
               /\ g[n].syms \subseteq Support(n)'
               /\ ~Dep(program, g[n]) => g[n].good = Definition /\ g[n].syms = {}
    <2>1. /\ h[n].nx \subseteq NextNames(program) /\ h[n].good \subseteq Definition
          /\ h[n].syms \subseteq Support(n)
          /\ ~Dep(program, h[n]) => h[n].good = Definition /\ h[n].syms = {}
      BY DEF GhostOK
    <2>2. /\ g[n].real = h[n].real /\ g[n].nx = h[n].nx /\ g[n].syms = h[n].syms
          /\ h[n].good \subseteq g[n].good /\ g[n].good \subseteq h[n].good \cup defs
      BY DEF Widened
    <2>3. Dep(program, g[n]) <=> Dep(program, h[n])
      BY <2>2 DEF Dep
    <2> QED
      BY <2>1, <2>2, <2>3
  <1>2. ASSUME NEW n \in DOMAIN nodes, NEW c \in nodes[n].children
        PROVE  /\ g[c].syms \subseteq g[n].syms
               /\ g[n].good \subseteq g[c].good
               /\ Dep(program, g[c]) => ~OnStack(c)'
    <2>1. c \in DOMAIN nodes
      BY DEF Types, CachesOK
    <2>2. /\ h[c].syms \subseteq h[n].syms /\ h[n].good \subseteq h[c].good
          /\ Dep(program, h[c]) => ~OnStack(c)
          /\ ~Dep(program, h[c]) => h[c].good = Definition
      BY <2>1 DEF GhostOK
    <2>3. /\ g[c].real = h[c].real /\ g[c].syms = h[c].syms /\ g[n].syms = h[n].syms
          /\ h[c].good \subseteq g[c].good
          /\ g[n].good \subseteq h[n].good \cup {d \in defs : d.symbol \notin h[n].syms}
          /\ ~OnStack(c) => g[c].good = h[c].good \cup {d \in defs : d.symbol \notin h[c].syms}
      BY <2>1 DEF Widened
    <2>4. Dep(program, g[c]) <=> Dep(program, h[c])
      BY <2>3 DEF Dep
    <2>5. g[n].good \subseteq g[c].good
      <3>1. CASE Dep(program, h[c])
        BY <2>2, <2>3, <3>1
      <3>2. CASE ~Dep(program, h[c])
        <4>1. Definition \subseteq g[c].good
          BY <2>2, <2>3, <3>2
        <4> QED
          BY <1>1, <4>1
      <3> QED
        BY <3>1, <3>2
    <2>6. Dep(program, g[c]) => ~OnStack(c)'
      BY <2>1, <2>2, <2>4
    <2> QED
      BY <2>2, <2>3, <2>5, <2>6
  <1> QED
    BY <1>1, <1>2 DEF GhostOK

\* The node on top uses more symbols, and may get a child.
Uses(h, g, top, more) ==
    \A n \in DOMAIN nodes :
        /\ g[n].real = h[n].real /\ g[n].nx = h[n].nx /\ g[n].good = h[n].good
        /\ g[n].syms = IF n = top THEN h[n].syms \cup more ELSE h[n].syms

LEMMA GhostTop ==
    ASSUME Types, NEW h, GhostOK(h), NEW top \in DOMAIN nodes, NEW more, NEW kids, NEW g, Uses(h, g, top, more),
           program' = program, DOMAIN nodes' = DOMAIN nodes, OnStack(top),
           more = {} \/ Dep(program, h[top]), more \subseteq Support(top)',
           \A n \in DOMAIN nodes :
             /\ nodes'[n].children = IF n = top THEN nodes[n].children \cup kids ELSE nodes[n].children
             /\ Support(n) \subseteq Support(n)' /\ (OnStack(n)' => OnStack(n)),
           \A c \in kids : /\ c \in DOMAIN nodes /\ h[c].syms \subseteq more /\ h[top].good \subseteq h[c].good
                           /\ Dep(program, h[c]) => ~OnStack(c)
    PROVE  GhostOK(g)'
  <1>1. ASSUME NEW n \in DOMAIN nodes
        PROVE  /\ g[n].nx \subseteq NextNames(program)
               /\ g[n].good \subseteq Definition
               /\ g[n].syms \subseteq Support(n)'
               /\ ~Dep(program, g[n]) => g[n].good = Definition /\ g[n].syms = {}
    <2>1. /\ h[n].nx \subseteq NextNames(program) /\ h[n].good \subseteq Definition
          /\ h[n].syms \subseteq Support(n)
          /\ ~Dep(program, h[n]) => h[n].good = Definition /\ h[n].syms = {}
      BY DEF GhostOK
    <2>2. /\ g[n].real = h[n].real /\ g[n].nx = h[n].nx /\ g[n].good = h[n].good
          /\ g[n].syms = IF n = top THEN h[n].syms \cup more ELSE h[n].syms
      BY DEF Uses
    <2>3. Dep(program, g[n]) <=> Dep(program, h[n])
      BY <2>2 DEF Dep
    <2>4. Support(n) \subseteq Support(n)'
      OBVIOUS
    <2>5. g[n].syms \subseteq Support(n)'
      <3>1. CASE n = top
        BY <2>1, <2>2, <2>4, <3>1
      <3>2. CASE n # top
        BY <2>1, <2>2, <2>4, <3>2
      <3> QED
        BY <3>1, <3>2
    <2> QED
      BY <2>1, <2>2, <2>3, <2>5
  <1>2. ASSUME NEW n \in DOMAIN nodes, NEW c \in nodes'[n].children
        PROVE  /\ g[c].syms \subseteq g[n].syms
               /\ g[n].good \subseteq g[c].good
               /\ Dep(program, g[c]) => ~OnStack(c)'
    <2>1. c \in nodes[n].children \/ (n = top /\ c \in kids)
      BY <1>2
    <2>2. c \in DOMAIN nodes
      BY <2>1 DEF Types, CachesOK
    <2>3. /\ g[c].real = h[c].real /\ g[c].good = h[c].good /\ g[n].good = h[n].good
          /\ g[c].syms = IF c = top THEN h[c].syms \cup more ELSE h[c].syms
          /\ g[n].syms = IF n = top THEN h[n].syms \cup more ELSE h[n].syms
      BY <2>2 DEF Uses
    <2>4. Dep(program, g[c]) <=> Dep(program, h[c])
      BY <2>3 DEF Dep
    <2>5. CASE c \in nodes[n].children
      <3>1. /\ h[c].syms \subseteq h[n].syms /\ h[n].good \subseteq h[c].good
            /\ Dep(program, h[c]) => ~OnStack(c)
        BY <2>5 DEF GhostOK
      <3>2. c = top => more = {}
        BY <3>1
      <3> QED
        BY <2>2, <2>3, <2>4, <3>1, <3>2
    <2>6. CASE n = top /\ c \in kids
      <3>1. /\ h[c].syms \subseteq more /\ h[top].good \subseteq h[c].good
            /\ Dep(program, h[c]) => ~OnStack(c)
        BY <2>6
      <3> QED
        BY <2>2, <2>3, <2>4, <2>6, <3>1
    <2> QED
      BY <2>1, <2>5, <2>6
  <1> QED
    BY <1>1, <1>2 DEF GhostOK
-----------------------------------------------------------------------------
(* Keys and records *)

LEMMA CallKeyIn ==
    ASSUME Types, NEW h, Graph(h), NotReusable, Target # None, call.mode # "RESOLVED"
    PROVE  /\ call.mode \in {"QUOTE", "ANGLE"} /\ stack # <<>>
           /\ CallKey \in Keys(program, Target)
  <1>1. call.op = "call" /\ Target = KeyReal(program, CallKey)
    BY TargetIs DEF NotReusable
  <1>2. call.mode \in {"QUOTE", "ANGLE"}
    BY <1>1, CallFacts, CallKeyFacts DEF Mode
  <1>3. stack # <<>> /\ Has(Top.node, CallItem) /\ call.dir = CallDir(Top.node, call.mode)
    BY <1>1 DEF Types, CallOK, NoCall
  <1>4. PICK n, f, x, d, m : n = Top.node /\ f = Real(n) /\ x = call.fp /\ d = call.dir /\ m = call.mode
    OBVIOUS
  <1>5. /\ f # None /\ d = f.dir
        /\ (m = "QUOTE" /\ x \in Elements(program[f].quote)) \/ (m = "ANGLE" /\ x \in Elements(program[f].angle))
    BY <1>2, <1>3, <1>4 DEF Has, CallItem, CallDir, Real, Text
  <1>6. f \in DOMAIN program
    <2>1. Top \in Elements(stack)
      BY <1>3, TopFacts DEF Types, StackOK
    <2>2. n \in DOMAIN nodes
      BY <1>4, <2>1 DEF Types, StackOK
    <2> QED
      BY <1>4, <1>5, <2>2 DEF Types, CachesOK
  <1>7. PICK k : k = <<m, x, d>>
    OBVIOUS
  <1>8. k = CallKey /\ k[1] = m /\ k[2] = x /\ k[3] = d
    BY <1>1, <1>4, <1>7, CallKeyFacts
  <1>9. k \in {"QUOTE"} \X Elements(program[f].quote) \X {f.dir}
             \cup {"ANGLE"} \X Elements(program[f].angle) \X {f.dir}
    BY <1>5, <1>7
  <1>10. Resolvant(program, k[1], k[2], k[3]) = Target
    BY <1>1, <1>4, <1>8, CallKeyFacts
  <1> QED
    BY <1>2, <1>3, <1>6, <1>8, <1>9, <1>10 DEF Keys

LEMMA KeysUniqueGrow ==
    ASSUME Types, NEW h, Graph(h), KeysUnique, NotReusable, program' = program,
           DOMAIN node_cache \subseteq DOMAIN node_cache', CallKey \in DOMAIN node_cache',
           \A k \in DOMAIN node_cache' :
             \/ k \in DOMAIN node_cache \cup {CallKey}
             \/ k = RealKey(Target) /\ Target # None /\ call.mode # "RESOLVED"
    PROVE  KeysUnique'
  <1>1. PICK c, m, x, d, f : c = CallKey /\ m = call.mode /\ x = call.fp /\ d = call.dir /\ f = Target
    OBVIOUS
  <1>2. /\ c = <<m, x, d>> /\ c[1] = m /\ c[2] = x /\ c[3] = d /\ m \in Mode
        /\ f = KeyReal(program, c)
    BY <1>1, CallKeyFacts, TargetIs DEF NotReusable
  <1>3. m = "RESOLVED" => d = NoDir
    BY <1>1 DEF Types, CallOK, CallDir, NotReusable, NoCall
  <1>4. f # None /\ m # "RESOLVED" => c \in Keys(program, f)
    BY <1>1, CallKeyIn
  <1>5. \A k \in DOMAIN node_cache' :
          k \in DOMAIN node_cache \/ k = c \/ (k = RealKey(f) /\ f # None /\ m # "RESOLVED")
    BY <1>1
  <1>6. ASSUME NEW k \in DOMAIN node_cache'
        PROVE  /\ k[1] = "RESOLVED" => k = Key("RESOLVED", k[2], NoDir)
               /\ k[1] = "REAL" => k = RealKey(k[2])
               /\ k[1] = "REAL" /\ Depends(program, k[2]) => \E l \in Keys(program, k[2]) : l \in DOMAIN node_cache'
               /\ k[1] \in {"QUOTE", "ANGLE"} /\ KeyReal(program, k) # None => k \in Keys(program, KeyReal(program, k))
    <2>1. CASE k \in DOMAIN node_cache
      BY <2>1 DEF KeysUnique, Known
    <2>2. CASE k = c
      <3>1. k[1] # "REAL"
        BY <1>2, <2>2 DEF Mode
      <3>2. k[1] = "RESOLVED" => k = Key("RESOLVED", k[2], NoDir)
        BY <1>2, <1>3, <2>2 DEF Key
      <3> QED
        BY <1>2, <1>4, <2>2, <3>1, <3>2
    <2>3. CASE k = RealKey(f) /\ f # None /\ m # "RESOLVED"
      <3>1. k[1] = "REAL" /\ k[2] = f
        BY <2>3 DEF RealKey
      <3> QED
        BY <1>1, <1>4, <2>3, <3>1
    <2> QED
      BY <1>5, <2>1, <2>2, <2>3
  <1> QED
    BY <1>6 DEF KeysUnique, Known

\* A node that shares the record of the one to be made is known under a key for
\* the same file.
LEMMA SharedRecord ==
    ASSUME Types, NEW h, Graph(h), RecordsUnique(h), NotReusable,
           NEW k \in DOMAIN node_cache, k # CallKey, nodes[node_cache[k]].support_record = Record,
           Dep(program, h[node_cache[k]]) \/ (Target # None /\ Depends(program, Target))
    PROVE  k[1] # "RESOLVED" /\ call.mode # "RESOLVED" /\ KeyReal(program, k) = Target
  <1>1. node_cache[k] \in DOMAIN nodes /\ nodes[node_cache[k]].support_record \in DOMAIN records
    BY DEF Types, CachesOK
  <1>2. Known(CallKey)
    <2>1. SUFFICES ASSUME ~Known(CallKey) PROVE FALSE
      OBVIOUS
    <2>2. Record = Len(records) + 1
      BY <2>1 DEF Record
    <2> QED
      BY <1>1, <2>2, NodesType DEF Types
  <1>3. PICK c, o : c = CallKey /\ o = node_cache[CallKey]
    OBVIOUS
  <1>4. /\ c \in DOMAIN node_cache /\ o = node_cache[c] /\ o \in DOMAIN nodes
        /\ nodes[o].support_record = Record /\ nodes[o].real = Target
    BY <1>2, <1>3 DEF Known, Record, Target, OldNode, Types, CachesOK
  <1>5. h[o].real = Target
    BY <1>4 DEF Graph, Real
  <1>6. Dep(program, h[node_cache[k]]) \/ Dep(program, h[o])
    BY <1>5 DEF Dep
  <1>7. k[1] # "RESOLVED" /\ c[1] # "RESOLVED" /\ KeyReal(program, k) = KeyReal(program, c)
    <2>1. CASE Dep(program, h[node_cache[k]])
      BY <1>3, <1>4, <2>1 DEF RecordsUnique
    <2>2. CASE Dep(program, h[o])
      BY <1>3, <1>4, <2>2 DEF RecordsUnique
    <2> QED
      BY <1>6, <2>1, <2>2
  <1> QED
    BY <1>3, <1>7, CallKeyFacts, TargetIs DEF NotReusable

LEMMA RecordsUniqueMakes ==
    ASSUME Types, NEW h, Graph(h), RecordsUnique(h), MakesNode, NEW g, Same(h, g), ForNew(g), program' = program,
           \A k \in DOMAIN node_cache' :
             \/ k \in DOMAIN node_cache /\ k # CallKey /\ node_cache'[k] = node_cache[k]
             \/ node_cache'[k] = NewNode /\ k = CallKey
             \/ node_cache'[k] = NewNode /\ k = RealKey(Target) /\ Target # None /\ call.mode # "RESOLVED"
    PROVE  RecordsUnique(g)'
  <1>1. NotReusable /\ call.op = "call"
    BY DEF MakesNode, NotReusable
  <1>2. PICK c, m, f, n, r : c = CallKey /\ m = call.mode /\ f = Target /\ n = NewNode /\ r = Record
    OBVIOUS
  <1>3. c[1] = m /\ f = KeyReal(program, c)
    BY <1>1, <1>2, CallKeyFacts, TargetIs
  <1> DEFINE New(k) == node_cache'[k] = n /\ (k = c \/ (k = RealKey(f) /\ m # "RESOLVED" /\ f # None))
             Old(k) == k \in DOMAIN node_cache /\ k # c /\ node_cache'[k] = node_cache[k]
  <1>4. \A k \in DOMAIN node_cache' : Old(k) \/ New(k)
    BY <1>2
  <1>5. ASSUME NEW k, New(k) PROVE KeyReal(program, k) = f /\ (m # "RESOLVED" => k[1] # "RESOLVED")
    BY <1>3, <1>5 DEF RealKey, KeyReal
  <1>6. \A k \in DOMAIN node_cache : /\ node_cache[k] \in DOMAIN nodes
                                     /\ nodes'[node_cache[k]] = nodes[node_cache[k]]
                                     /\ g[node_cache[k]].real = h[node_cache[k]].real
    BY NewNodeFacts DEF Types, CachesOK, Same, Graph
  <1>7. nodes'[n].support_record = r /\ g[n].real = f
    BY <1>2, NewNodeFacts DEF ForNew
  <1>8. ASSUME NEW k, Old(k), nodes[node_cache[k]].support_record = r,
               Dep(program, h[node_cache[k]]) \/ (f # None /\ Depends(program, f))
        PROVE  k[1] # "RESOLVED" /\ m # "RESOLVED" /\ KeyReal(program, k) = f
    BY <1>1, <1>2, <1>8, SharedRecord
  <1>9. ASSUME NEW k \in DOMAIN node_cache', NEW l \in DOMAIN node_cache',
               Dep(program, g[node_cache'[k]]),
               nodes'[node_cache'[k]].support_record = nodes'[node_cache'[l]].support_record
        PROVE  \/ k = l
               \/ k[1] # "RESOLVED" /\ l[1] # "RESOLVED" /\ KeyReal(program, k) = KeyReal(program, l)
    <2>1. CASE Old(k) /\ Old(l)
      <3>1. Dep(program, h[node_cache[k]])
        BY <1>6, <1>9, <2>1 DEF Dep
      <3> QED
        BY <1>6, <1>9, <2>1, <3>1 DEF RecordsUnique
    <2>2. CASE Old(k) /\ New(l)
      <3>1. Dep(program, h[node_cache[k]])
        BY <1>6, <1>9, <2>2 DEF Dep
      <3>2. nodes[node_cache[k]].support_record = r
        BY <1>6, <1>7, <1>9, <2>2
      <3> QED
        BY <1>5, <1>8, <2>2, <3>1, <3>2
    <2>3. CASE New(k) /\ Old(l)
      <3>1. f # None /\ Depends(program, f)
        BY <1>7, <1>9, <2>3 DEF Dep
      <3>2. nodes[node_cache[l]].support_record = r
        BY <1>6, <1>7, <1>9, <2>3
      <3> QED
        BY <1>5, <1>8, <2>3, <3>1, <3>2
    <2>4. CASE New(k) /\ New(l)
      BY <1>5, <2>4
    <2> QED
      BY <1>4, <2>1, <2>2, <2>3, <2>4
  <1> QED
    BY <1>9 DEF RecordsUnique

\* The keys of a file that depends on computed includes are replaced together.
LEMMA OnlyKeys ==
    ASSUME Types, TameTree(program), NEW h, Graph(h), UniqueOK(h), NotReusable, Target # None,
           NEW k \in DOMAIN node_cache, k # CallKey, nodes[node_cache[k]].support_record = Record,
           Dep(program, h[node_cache[k]])
    PROVE  k = RealKey(Target) /\ call.mode # "RESOLVED"
  <1>1. k[1] # "RESOLVED" /\ call.mode # "RESOLVED" /\ KeyReal(program, k) = Target
    BY SharedRecord DEF UniqueOK
  <1>2. k[1] \in Mode \cup {"REAL"} /\ h[node_cache[k]].real = Target
    BY <1>1 DEF Graph, KeysOK, Answers
  <1>3. Target \in DOMAIN program /\ Depends(program, Target)
    BY <1>2, FindFacts DEF Dep
  <1>4. CASE k[1] = "REAL"
    BY <1>1, <1>4 DEF UniqueOK, KeysUnique, KeyReal
  <1>5. CASE k[1] = "NEXT"
    BY <1>1, <1>5 DEF KeyReal, Resolvant
  <1>6. CASE k[1] \in {"QUOTE", "ANGLE"}
    <2>1. k \in Keys(program, Target)
      BY <1>1, <1>6 DEF UniqueOK, KeysUnique
    <2>2. CallKey \in Keys(program, Target)
      BY <1>1, CallKeyIn
    <2> QED
      BY <1>3, <2>1, <2>2 DEF TameTree
  <1> QED
    BY <1>1, <1>2, <1>4, <1>5, <1>6 DEF Mode

\* So the real name never stands in for a node of such a file.
LEMMA NoRealDep ==
    ASSUME Types, TameTree(program), NEW h, Graph(h), UniqueOK(h), FindNodeReal
    PROVE  ~Depends(program, Target)
  <1>1. /\ NotReusable /\ Target # None /\ call.mode # "RESOLVED" /\ Known(RealKey(Target))
        /\ Records[Record].valid
    BY DEF FindNodeReal, KnownByRealName
  <1>2. SUFFICES ASSUME Depends(program, Target) PROVE FALSE
    OBVIOUS
  <1>3. PICK k, f : k = RealKey(Target) /\ f = Target
    OBVIOUS
  <1>4. k \in DOMAIN node_cache /\ k[1] = "REAL" /\ k[2] = f
    BY <1>1, <1>3 DEF Known, RealKey
  <1>5. PICK l \in Keys(program, f) : Known(l)
    BY <1>2, <1>3, <1>4 DEF UniqueOK, KeysUnique
  <1>6. CallKey \in Keys(program, f) /\ f \in DOMAIN program
    BY <1>1, <1>3, CallKeyIn, FindFacts
  <1>7. l = CallKey
    BY <1>2, <1>3, <1>5, <1>6 DEF TameTree
  <1>8. Known(CallKey)
    BY <1>5, <1>7
  <1>9. Valid(node_cache[CallKey])
    BY <1>1, <1>8 DEF Records, Record, OldNode, Valid
  <1> QED
    BY <1>1, <1>8, <1>9 DEF NotReusable
-----------------------------------------------------------------------------
(* Nodes that may be reused account for all that has been defined *)

LEMMA SteadyRecords ==
    ASSUME Types, Steady
    PROVE  /\ \A n \in DOMAIN nodes : nodes'[n].support_record = nodes[n].support_record
           /\ \A r \in DOMAIN records : /\ records'[r].valid = records[r].valid
                                        /\ records[r].support \subseteq records'[r].support
           /\ ~FindNodeReal => node_cache' = node_cache
  <1>1. ~FindNodeReal => node_cache' = node_cache
    BY DEF Steady, FindNodeHit, CallFindNode, ComputedInclude, UpdateSet, Finish, AddChild, caches
  <1>2. CASE AddChild
    BY <1>1, <1>2, ChildFacts
  <1>3. CASE FindNodeReal
    <2>1. nodes' = nodes /\ records' = Records /\ NotReusable
      BY <1>3 DEF FindNodeReal
    <2> QED
      BY <1>1, <2>1, FindFacts
  <1>4. CASE UpdateSet
    <2>1. /\ Running /\ Top.todo # <<>> /\ Head(Top.todo).mode = "SUPPORT" /\ nodes' = nodes
          /\ records' = Update(records, TopRecord, {Head(Top.todo).fp})
      BY <1>4 DEF UpdateSet
    <2>2. PICK n, q, x, r, recs : /\ n = Top.node /\ q = Top.todo /\ x = Head(q) /\ r = TopRecord
                                  /\ recs = records
      OBVIOUS
    <2>3. /\ q \in Seq(Items) /\ q # <<>> /\ n \in DOMAIN nodes /\ \A e \in Elements(q) : Has(n, e)
      BY <2>1, <2>2, RunningFacts
    <2>4. x \in Elements(q)
      BY <2>2, <2>3, HeadElements
    <2>5. x.fp \in Symbol
      <3>1. Real(n) # None /\ x.fp \in Elements(Text(n).expr)
        BY <2>1, <2>2, <2>3, <2>4 DEF Has
      <3>2. Real(n) \in DOMAIN program
        BY <2>3, <3>1 DEF Types, CachesOK
      <3>3. Text(n).expr \in Seq(Symbol)
        BY <3>2, ProgramFacts DEF Text, Types, CachesOK
      <3> QED
        BY <3>1, <3>3, ElementsType
    <2>6. PICK ss \in SUBSET Symbol : ss = {x.fp}
      BY <2>5
    <2>7. r \in DOMAIN recs /\ recs \in Seq(RecordType)
      BY <2>2, <2>3 DEF TopRecord, Types, CachesOK
    <2>8. \A s \in DOMAIN recs : /\ Update(recs, r, ss)[s].valid = recs[s].valid
                                 /\ recs[s].support \subseteq Update(recs, r, ss)[s].support
      BY <2>7, UpdateFacts
    <2> QED
      BY <1>1, <2>1, <2>2, <2>6, <2>8
  <1>5. CASE ~AddChild /\ ~FindNodeReal /\ ~UpdateSet
    <2>1. nodes' = nodes /\ records' = records
      BY <1>5 DEF Steady, FindNodeHit, CallFindNode, ComputedInclude, Finish, caches
    <2> QED
      BY <1>1, <2>1
  <1> QED
    BY <1>2, <1>3, <1>4, <1>5

LEMMA FreshKept ==
    ASSUME Types, NEW h, Graph(h), FreshOK(h), NEW g, UNCHANGED <<program, file_cache, command>>,
           \A n \in DOMAIN nodes : g[n].real = h[n].real /\ g[n].good = h[n].good,
           \A k \in DOMAIN node_cache' :
             \/ ~Dep(program, g[node_cache'[k]])
             \/ /\ k \in DOMAIN node_cache /\ node_cache'[k] = node_cache[k]
                /\ records'[nodes'[node_cache[k]].support_record].valid
                     => records[nodes[node_cache[k]].support_record].valid,
           \A i \in DOMAIN stack' :
             \/ ~Dep(program, g[stack'[i].node])
             \/ i \in DOMAIN stack /\ stack'[i].node = stack[i].node,
           (call'.op = "return" /\ Dep(program, g[call'.node])) =>
             Base(program, command.d_opts, file_cache, g[call'.node].real) \subseteq g[call'.node].good
    PROVE  FreshOK(g)'
  <1>1. ASSUME NEW k \in DOMAIN node_cache', Dep(program, g[node_cache'[k]]),
               records'[nodes'[node_cache'[k]].support_record].valid
        PROVE  Base(program, command.d_opts, file_cache, g[node_cache'[k]].real) \subseteq g[node_cache'[k]].good
    <2>1. PICK n : n = node_cache[k]
      OBVIOUS
    <2>2. k \in DOMAIN node_cache /\ node_cache'[k] = n /\ records[nodes[n].support_record].valid
      BY <1>1, <2>1
    <2>3. n \in DOMAIN nodes
      BY <2>1, <2>2 DEF Types, CachesOK
    <2>4. g[n].real = h[n].real /\ g[n].good = h[n].good
      BY <2>3
    <2>5. Dep(program, h[n])
      BY <1>1, <2>2, <2>4 DEF Dep
    <2>6. Base(program, command.d_opts, file_cache, h[n].real) \subseteq h[n].good
      BY <2>1, <2>2, <2>5 DEF FreshOK, Valid
    <2> QED
      BY <2>2, <2>4, <2>6
  <1>2. ASSUME NEW fr \in Elements(stack'), Dep(program, g[fr.node])
        PROVE  g[fr.node].good = Base(program, command.d_opts, file_cache, g[fr.node].real)
    <2>1. PICK i \in DOMAIN stack' : fr = stack'[i]
      BY DEF Elements
    <2>2. i \in DOMAIN stack /\ fr.node = stack[i].node
      BY <1>2, <2>1
    <2>3. PICK fs \in Elements(stack) : fs = stack[i]
      BY <2>2 DEF Elements
    <2>4. PICK n \in DOMAIN nodes : n = fr.node /\ n = fs.node
      BY <2>2, <2>3 DEF Types, StackOK
    <2>5. g[n].real = h[n].real /\ g[n].good = h[n].good
      BY <2>4
    <2>6. Dep(program, h[n])
      BY <1>2, <2>4, <2>5 DEF Dep
    <2>7. h[n].good = Base(program, command.d_opts, file_cache, h[n].real)
      BY <2>4, <2>6 DEF FreshOK
    <2> QED
      BY <2>4, <2>5, <2>7
  <1> QED
    BY <1>1, <1>2 DEF FreshOK, Valid

LEMMA FreshSteady ==
    ASSUME Types, TameTree(program), NEW h, Graph(h), UniqueOK(h), FreshOK(h), Steady, NEW g,
           \A n \in DOMAIN nodes : g[n].real = h[n].real /\ g[n].good = h[n].good
    PROVE  FreshOK(g)'
  <1>1. UNCHANGED <<program, file_cache, command>>
    BY SteadyFacts
  <1>2. \A i \in DOMAIN stack' : i \in DOMAIN stack /\ stack'[i].node = stack[i].node
    BY SteadyStack
  <1>3. \A k \in DOMAIN node_cache :
             /\ node_cache[k] \in DOMAIN nodes
             /\ records'[nodes'[node_cache[k]].support_record].valid
                  => records[nodes[node_cache[k]].support_record].valid
    <2>1. ASSUME NEW n \in DOMAIN nodes
          PROVE  records'[nodes'[n].support_record].valid => records[nodes[n].support_record].valid
      BY SteadyRecords DEF Types, CachesOK
    <2> QED
      BY <2>1 DEF Types, CachesOK
  <1>4. CASE FindNodeReal
    <2>1. /\ node_cache' = Remember(node_cache, CallKey, node_cache[RealKey(Target)]) /\ Target # None
          /\ call' = ReturnNode(node_cache[RealKey(Target)]) /\ Known(RealKey(Target))
      BY <1>4 DEF FindNodeReal, KnownByRealName
    <2>2. PICK c, k : c = node_cache[k] /\ k = RealKey(Target) /\ k \in DOMAIN node_cache
      BY <2>1 DEF Known
    <2>3. c \in DOMAIN nodes /\ h[c].real = Target
      <3>1. k[1] = "REAL" /\ k[2] = Target
        BY <2>2 DEF RealKey
      <3> QED
        BY <2>2, <3>1 DEF Types, CachesOK, Graph, KeysOK, Answers, KeyReal
    <2>4. ~Dep(program, g[c])
      BY <1>4, <2>3, NoRealDep DEF Dep
    <2>5. call'.node = c
      BY <2>1, <2>2 DEF ReturnNode
    <2>6. \A l \in DOMAIN node_cache' :
             \/ ~Dep(program, g[node_cache'[l]])
             \/ l \in DOMAIN node_cache /\ node_cache'[l] = node_cache[l]
      <3>1. \A l \in DOMAIN node_cache' : node_cache'[l] = c \/ (l \in DOMAIN node_cache /\ node_cache'[l] = node_cache[l])
        BY <2>1, <2>2 DEF Remember
      <3> QED
        BY <2>4, <3>1
    <2> QED
      BY <1>1, <1>2, <1>3, <2>4, <2>5, <2>6, FreshKept
  <1>5. CASE ~FindNodeReal
    <2>1. node_cache' = node_cache
      BY <1>5, SteadyRecords
    <2>2. ASSUME call'.op = "return", Dep(program, g[call'.node])
          PROVE  Base(program, command.d_opts, file_cache, g[call'.node].real) \subseteq g[call'.node].good
      <3>1. CASE FindNodeHit
        <4>1. PICK c : c = node_cache[CallKey] /\ CallKey \in DOMAIN node_cache /\ Valid(c) /\ call'.node = c
          BY <3>1 DEF FindNodeHit, Known, ReturnNode
        <4>2. c \in DOMAIN nodes
          BY <4>1 DEF Types, CachesOK
        <4>3. g[c].real = h[c].real /\ g[c].good = h[c].good
          BY <4>2
        <4>4. Dep(program, h[c])
          BY <2>2, <4>1, <4>3 DEF Dep
        <4>5. Base(program, command.d_opts, file_cache, h[c].real) \subseteq h[c].good
          BY <4>1, <4>4 DEF FreshOK
        <4> QED
          BY <4>1, <4>3, <4>5
      <3>2. CASE Finish
        <4>1. PICK fr, c : fr = Top /\ c = fr.node /\ fr \in Elements(stack) /\ c \in DOMAIN nodes /\ call'.node = c
          BY <3>2, RunningFacts DEF Finish, ReturnNode
        <4>2. g[c].real = h[c].real /\ g[c].good = h[c].good
          BY <4>1
        <4>3. Dep(program, h[c])
          BY <2>2, <4>1, <4>2 DEF Dep
        <4>4. h[c].good = Base(program, command.d_opts, file_cache, h[c].real)
          BY <4>1, <4>3 DEF FreshOK
        <4> QED
          BY <4>1, <4>2, <4>4
      <3>3. CASE ~FindNodeHit /\ ~Finish
        <4>1. call'.op # "return"
          BY <1>5, <3>3 DEF Steady, CallFindNode, ComputedInclude, UpdateSet, AddChild, Running, NoCall, FindNodeCall
        <4> QED
          BY <2>2, <4>1
      <3> QED
        BY <3>1, <3>2, <3>3
    <2> QED
      BY <1>1, <1>2, <1>3, <2>1, <2>2, FreshKept
  <1> QED
    BY <1>4, <1>5

\* A node without a file is made.
LEMMA FreshMakes ==
    ASSUME Types, NEW h, Graph(h), FreshOK(h), FindNodeNext \/ FindNodeMissing, NEW g, ForNew(g), Types',
           \A n \in DOMAIN nodes : g[n].real = h[n].real /\ g[n].good = h[n].good
    PROVE  FreshOK(g)'
  <1>1. /\ MakesNode /\ Target = None /\ UNCHANGED <<program, file_cache, request>> /\ NotReusable
        /\ node_cache' = Remember(node_cache, CallKey, NewNode) /\ records' = Records
    BY DEF FindNodeNext, FindNodeMissing, MakesNode, Registered
  <1>2. command' = command
    BY <1>1 DEF request
  <1>3. ~Dep(program, g[NewNode])
    BY <1>1 DEF Dep, ForNew
  <1>4. \A k \in DOMAIN node_cache' :
             \/ node_cache'[k] = NewNode
             \/ k \in DOMAIN node_cache /\ node_cache'[k] = node_cache[k]
    BY <1>1 DEF Remember
  <1>5. ASSUME NEW k \in DOMAIN node_cache
        PROVE  records'[nodes'[node_cache[k]].support_record].valid
                     => records[nodes[node_cache[k]].support_record].valid
    <2>1. PICK n \in DOMAIN nodes : n = node_cache[k]
      BY DEF Types, CachesOK
    <2>2. nodes'[n] = nodes[n] /\ nodes[n].support_record \in DOMAIN records
      BY <1>1, NewNodeFacts DEF Types, CachesOK
    <2> QED
      BY <1>1, <2>1, <2>2, FindFacts
  <1>6. \A i \in DOMAIN stack' : \/ stack'[i].node = NewNode
                                 \/ i \in DOMAIN stack /\ stack'[i].node = stack[i].node
    <2>1. CASE FindNodeNext
      <3>1. PICK fr : stack' = Append(stack, fr) /\ fr.node = NewNode
        BY <2>1 DEF FindNodeNext, Frame
      <3>2. fr \in FrameType /\ stack \in Seq(FrameType)
        BY <3>1, PushedType DEF Types, StackOK
      <3>3. /\ Len(stack) \in Nat /\ DOMAIN stack = 1 .. Len(stack) /\ DOMAIN stack' = 1 .. Len(stack) + 1
            /\ \A i \in DOMAIN stack : stack'[i] = stack[i]
            /\ stack'[Len(stack) + 1] = fr
        BY <3>1, <3>2, PushFacts
      <3>4. ASSUME NEW i \in DOMAIN stack' PROVE i \in DOMAIN stack \/ i = Len(stack) + 1
        BY <3>3
      <3> QED
        BY <3>1, <3>3, <3>4
    <2>2. CASE FindNodeMissing
      BY <2>2 DEF FindNodeMissing
    <2> QED
      BY <2>1, <2>2
  <1>7. call'.op = "return" => call'.node = NewNode
    <2>1. call' = NoCall \/ call' = ReturnNode(NewNode)
      BY DEF FindNodeNext, FindNodeMissing
    <2> QED
      BY <2>1 DEF NoCall, ReturnNode
  <1>8. PICK n0 : n0 = NewNode
    OBVIOUS
  <1>9. \A k \in DOMAIN node_cache' :
             \/ ~Dep(program, g[node_cache'[k]])
             \/ /\ k \in DOMAIN node_cache /\ node_cache'[k] = node_cache[k]
                /\ records'[nodes'[node_cache[k]].support_record].valid
                     => records[nodes[node_cache[k]].support_record].valid
    BY <1>3, <1>4, <1>5, <1>8
  <1>10. \A i \in DOMAIN stack' :
             \/ ~Dep(program, g[stack'[i].node])
             \/ i \in DOMAIN stack /\ stack'[i].node = stack[i].node
    BY <1>3, <1>6, <1>8
  <1>11. (call'.op = "return" /\ Dep(program, g[call'.node])) =>
             Base(program, command.d_opts, file_cache, g[call'.node].real) \subseteq g[call'.node].good
    BY <1>3, <1>7, <1>8
  <1> QED
    BY <1>1, <1>2, <1>9, <1>10, <1>11, FreshKept

\* One more file is parsed.
LEMMA BaseMore ==
    ASSUME NEW p, NEW d, NEW c, NEW f, NEW x
    PROVE  /\ Base(p, d, c, x) \subseteq Base(p, d, c \cup {f}, x)
           /\ Base(p, d, c \cup {f}, x) \subseteq Base(p, d, c, x) \cup p[f].define
           /\ (f \in Below(p, x) \/ f \in c) => Base(p, d, c \cup {f}, x) \subseteq Base(p, d, c, x)
  <1>1. f \in Below(p, x) \/ f \in c => (c \cup {f}) \ Below(p, x) = c \ Below(p, x)
    OBVIOUS
  <1> QED
    BY <1>1 DEF Base

\* A node is made for a file, which may be parsed for the first time: its
\* definitions are below every file on the stack, and other nodes that stay
\* valid use none of their symbols.
LEMMA FreshMiss ==
    ASSUME Types, TameTree(program), NEW h, Graph(h), UniqueOK(h), ChainOK(h), GhostOK(h), FreshOK(h),
           FindNodeMiss, Types', NEW g, ForNew(g), NEW defs, Widened(h, g, defs),
           defs = IF Parsed THEN {} ELSE program[Target].define,
           Depends(program, Target) =>
             g[NewNode].good = Base(program, command.d_opts, file_cache \cup {Target}, Target)
    PROVE  FreshOK(g)'
  <1>1. /\ MakesNode /\ NotReusable /\ Target # None /\ call.op = "call" /\ call' = NoCall
        /\ UNCHANGED <<program, request>> /\ file_cache' = file_cache \cup {Target}
        /\ node_cache' = MissedCache /\ Define(defs)
    BY DEF FindNodeMiss, MakesNode, NotReusable
  <1>2. PICK p, d, c, f, n0, r0, b :
          /\ p = program /\ d = command.d_opts /\ c = file_cache /\ f = Target /\ n0 = NewNode /\ r0 = Record
          /\ b = g[NewNode]
    OBVIOUS
  <1>3. command'.d_opts = d /\ file_cache' = c \cup {f} /\ program' = p
    BY <1>1, <1>2 DEF request
  <1>4. b.real = f /\ f # None /\ (Dep(p, b) => b.good = Base(p, d, c \cup {f}, f))
    BY <1>1, <1>2 DEF ForNew, Dep
  <1>5. /\ DOMAIN nodes' = DOMAIN nodes \cup {n0} /\ n0 \notin DOMAIN nodes
        /\ \A n \in DOMAIN nodes : nodes'[n] = nodes[n]
    BY <1>1, <1>2, NewNodeFacts, NodesType DEF Types
  <1>6. ASSUME NEW fr \in Elements(stack), Dep(p, g[fr.node])
        PROVE  /\ fr.node \in DOMAIN nodes
               /\ g[fr.node].good = Base(p, d, c \cup {f}, g[fr.node].real)
    <2>1. PICK n \in DOMAIN nodes : n = fr.node
      BY DEF Types, StackOK
    <2>2. OnStack(n)
      BY <2>1 DEF OnStack
    <2>3. g[n].real = h[n].real /\ g[n].good = h[n].good
      BY <2>2 DEF Widened
    <2>4. Dep(p, h[n])
      BY <1>6, <2>1, <2>3 DEF Dep
    <2>5. h[n].good = Base(p, d, c, h[n].real)
      BY <1>2, <2>1, <2>4 DEF FreshOK
    <2>6. PICK x : x = h[n].real /\ x # None
      BY <2>4 DEF Dep
    <2>7. f \in Below(p, x)
      <3>1. PICK i \in DOMAIN stack : fr = stack[i]
        BY DEF Elements
      <3>2. stack # <<>>
        BY <3>1
      <3>3. Answers(program, b, CallKey)
        BY <1>1, <1>2, NewAnswers
      <3>4. ChildOK(program, symbol_table, h[Top.node], b)
        BY <1>1, <3>2, <3>3, CallChild
      <3>5. Under(program, h[stack[i].node].real, b)
        BY <2>1, <2>6, <3>1, <3>2, <3>4, UnderAll
      <3> QED
        BY <1>2, <1>4, <2>1, <2>6, <3>1, <3>5 DEF Under
    <2>8. Base(p, d, c \cup {f}, x) = Base(p, d, c, x)
      <3>1. Base(p, d, c \cup {f}, x) \subseteq Base(p, d, c, x)
        BY <2>7, BaseMore
      <3>2. Base(p, d, c, x) \subseteq Base(p, d, c \cup {f}, x)
        BY BaseMore
      <3> QED
        BY <3>1, <3>2
    <2> QED
      BY <2>1, <2>3, <2>5, <2>6, <2>8
  <1>7. ASSUME NEW n \in DOMAIN nodes, NEW k \in DOMAIN node_cache, node_cache'[k] = n, node_cache[k] = n,
               Dep(p, g[n]), records'[nodes'[n].support_record].valid, ~OnStack(n)
        PROVE  Base(p, d, c \cup {f}, g[n].real) \subseteq g[n].good
    <2>1. /\ g[n].real = h[n].real /\ g[n].syms = h[n].syms
          /\ g[n].good = h[n].good \cup {e \in defs : e.symbol \notin h[n].syms}
      BY <1>7 DEF Widened
    <2>2. Dep(p, h[n])
      BY <1>7, <2>1 DEF Dep
    <2>3. PICK r : r = nodes[n].support_record
      OBVIOUS
    <2>4. r \in DOMAIN records /\ nodes'[n].support_record = r
      BY <1>5, <2>3 DEF Types, CachesOK
    <2>5. r # r0
      <3>1. SUFFICES ASSUME r = r0 PROVE FALSE
        OBVIOUS
      <3>2. k # CallKey
        BY <1>1, <1>2, <1>5, <1>7, MissedFacts
      <3>3. k = RealKey(Target) /\ call.mode # "RESOLVED"
        BY <1>1, <1>2, <1>7, <2>2, <2>3, <3>1, <3>2, OnlyKeys
      <3>4. node_cache'[k] = n0
        BY <1>1, <1>2, <3>3, MissedFacts
      <3> QED
        BY <1>5, <1>7, <3>4
    <2>6. r \in DOMAIN Records /\ Records[r] = records[r]
      BY <1>1, <2>4, FindFacts
    <2>7. records[r].valid /\ records[r].support \cap Symbols(defs) = {}
      BY <1>1, <1>2, <1>7, <2>4, <2>5, <2>6, DefineFacts
    <2>8. Base(p, d, c, h[n].real) \subseteq h[n].good
      BY <1>2, <1>7, <2>2, <2>3, <2>7 DEF FreshOK, Valid
    <2>9. h[n].syms \subseteq records[r].support
      BY <2>3 DEF GhostOK, Support
    <2>10. defs \subseteq g[n].good
      <3>1. ASSUME NEW e \in defs PROVE e.symbol \notin h[n].syms
        BY <2>7, <2>9 DEF Symbols
      <3> QED
        BY <2>1, <3>1
    <2>11. PICK x : x = h[n].real
      OBVIOUS
    <2>12. Base(p, d, c \cup {f}, x) \subseteq Base(p, d, c, x) \cup defs
      <3>1. CASE f \in c
        BY <3>1, BaseMore
      <3>2. CASE f \notin c
        <4>1. defs = p[f].define
          BY <1>2, <3>2 DEF Parsed
        <4> QED
          BY <4>1, BaseMore
      <3> QED
        BY <3>1, <3>2
    <2> QED
      BY <2>1, <2>8, <2>10, <2>11, <2>12
  <1>8. ASSUME NEW k \in DOMAIN node_cache', Dep(p, g[node_cache'[k]]),
               records'[nodes'[node_cache'[k]].support_record].valid
        PROVE  Base(p, d, c \cup {f}, g[node_cache'[k]].real) \subseteq g[node_cache'[k]].good
    <2>1. PICK n : n = node_cache'[k]
      OBVIOUS
    <2>2. n = n0 \/ (k \in DOMAIN node_cache /\ n = node_cache[k])
      BY <1>1, <1>2, <2>1, MissedFacts
    <2>3. CASE n = n0
      BY <1>2, <1>4, <1>8, <2>1, <2>3
    <2>4. CASE k \in DOMAIN node_cache /\ n = node_cache[k]
      <3>1. n \in DOMAIN nodes
        BY <2>4 DEF Types, CachesOK
      <3>2. CASE OnStack(n)
        <4>1. PICK fr \in Elements(stack) : fr.node = n
          BY <3>2 DEF OnStack
        <4> QED
          BY <1>6, <1>8, <2>1, <4>1
      <3>3. CASE ~OnStack(n)
        BY <1>7, <1>8, <2>1, <2>4, <3>1, <3>3
      <3> QED
        BY <3>2, <3>3
    <2> QED
      BY <2>2, <2>3, <2>4
  <1>9. ASSUME NEW fr \in Elements(stack'), Dep(p, g[fr.node])
        PROVE  g[fr.node].good = Base(p, d, c \cup {f}, g[fr.node].real)
    <2>1. PICK fs : stack' = Append(stack, fs) /\ fs.node = NewNode
      BY DEF FindNodeMiss, Frame
    <2>2. fs \in FrameType /\ stack \in Seq(FrameType)
      BY <2>1, PushedType DEF Types, StackOK
    <2>3. fr \in Elements(stack) \/ fr = fs
      BY <2>1, <2>2, PushFacts
    <2> QED
      BY <1>2, <1>4, <1>6, <1>9, <2>1, <2>3
  <1>10. call'.op # "return"
    BY <1>1 DEF NoCall
  <1> QED
    BY <1>3, <1>8, <1>9, <1>10 DEF FreshOK, Valid

LEMMA RequestRun ==
    ASSUME Types, NEW c \in Commands, Request(c)
    PROVE  /\ UNCHANGED <<program, file_cache, node_cache, nodes, stack>> /\ stack = <<>>
           /\ command' = c /\ call'.op = "call" /\ symbol_table' = symbol_table \cup c.d_opts
           /\ DOMAIN records' = DOMAIN records
           /\ \A r \in DOMAIN records :
                /\ records'[r].support = records[r].support
                /\ records'[r].valid <=> records[r].valid /\ records[r].support \cap Symbols(c.d_opts) = {}
  <1>1. /\ stack = <<>> /\ UNCHANGED <<program, stack>> /\ command' = c
        /\ RunAlgorithm(Head(c.roots), c.d_opts)
    BY DEF Request, Idle
  <1>2. PICK f, d : f = Head(c.roots) /\ d = c.d_opts
    OBVIOUS
  <1>3. f \in DOMAIN program /\ d \in SUBSET AllDefinitions(program) /\ RunAlgorithm(f, d)
    BY <1>1, <1>2, TypesRequest, CommandFacts
  <1>4. UNCHANGED <<file_cache, node_cache, nodes>> /\ call'.op = "call"
    BY <1>3 DEF RunAlgorithm, FindNodeCall
  <1> QED
    BY <1>1, <1>2, <1>3, <1>4, RunTypes

LEMMA RootRun ==
    ASSUME Types, RootDone
    PROVE  /\ UNCHANGED <<program, file_cache, node_cache, nodes, stack, command>> /\ stack = <<>>
           /\ call'.op # "return" /\ symbol_table \subseteq symbol_table'
           /\ DOMAIN records' = DOMAIN records
           /\ \A r \in DOMAIN records : /\ records'[r].support = records[r].support
                                        /\ records'[r].valid => records[r].valid
  <1>1. /\ ~Idle /\ stack = <<>> /\ UNCHANGED <<program, stack, command>>
        /\ roots = <<>> => UNCHANGED caches /\ call' = NoCall
        /\ roots # <<>> => RunAlgorithm(command.roots[Current + 1], command.d_opts)
    BY TypesRootDone
  <1>2. CASE roots = <<>>
    BY <1>1, <1>2 DEF caches, NoCall
  <1>3. CASE roots # <<>>
    <2>1. PICK c, f, d : c = command /\ f = command.roots[Current + 1] /\ d = c.d_opts
      OBVIOUS
    <2>2. c \in Commands /\ f \in DOMAIN program
      BY <1>1, <1>3, <2>1, RootsFacts
    <2>3. d \in SUBSET AllDefinitions(program) /\ RunAlgorithm(f, d)
      BY <1>1, <1>3, <2>1, <2>2, CommandFacts
    <2>4. UNCHANGED <<file_cache, node_cache, nodes>> /\ call'.op = "call"
      BY <2>3 DEF RunAlgorithm, FindNodeCall
    <2> QED
      BY <1>1, <2>2, <2>3, <2>4, RunTypes
  <1> QED
    BY <1>2, <1>3

\* The options of a new command are taken into account by every node that stays
\* valid, since it does not use their symbols.
LEMMA FreshRequest ==
    ASSUME Types, NEW h, Graph(h), GhostOK(h), FreshOK(h), NEW c \in Commands, Request(c),
           NEW g, Widened(h, g, c.d_opts)
    PROVE  FreshOK(g)'
  <1>1. /\ UNCHANGED <<program, file_cache, node_cache, nodes, stack>> /\ stack = <<>>
        /\ command' = c /\ call'.op = "call"
        /\ \A r \in DOMAIN records :
                /\ records'[r].support = records[r].support
                /\ records'[r].valid <=> records[r].valid /\ records[r].support \cap Symbols(c.d_opts) = {}
    BY RequestRun
  <1>2. PICK d, e, p, fc : d = c.d_opts /\ e = command.d_opts /\ p = program /\ fc = file_cache
    OBVIOUS
  <1>3. ASSUME NEW k \in DOMAIN node_cache, Dep(program, g[node_cache[k]]),
               records'[nodes[node_cache[k]].support_record].valid
        PROVE  Base(program, d, file_cache, g[node_cache[k]].real) \subseteq g[node_cache[k]].good
    <2>1. PICK n \in DOMAIN nodes : n = node_cache[k]
      BY DEF Types, CachesOK
    <2>2. PICK r \in DOMAIN records : r = nodes[n].support_record
      BY DEF Types, CachesOK
    <2>3. ~OnStack(n)
      BY <1>1 DEF OnStack, Elements
    <2>4. /\ g[n].real = h[n].real /\ g[n].syms = h[n].syms
          /\ g[n].good = h[n].good \cup {x \in d : x.symbol \notin h[n].syms}
      BY <1>2, <2>3 DEF Widened
    <2>5. records[r].valid /\ records[r].support \cap Symbols(d) = {}
      BY <1>1, <1>2, <1>3, <2>1, <2>2
    <2>6. Dep(p, h[n])
      BY <1>2, <1>3, <2>1, <2>4 DEF Dep
    <2>7. Base(p, e, fc, h[n].real) \subseteq h[n].good
      BY <1>2, <2>1, <2>2, <2>5, <2>6 DEF FreshOK, Valid
    <2>8. h[n].syms \subseteq records[r].support
      BY <2>2 DEF GhostOK, Support
    <2>9. d \subseteq g[n].good
      <3>1. ASSUME NEW x \in d PROVE x.symbol \notin h[n].syms
        BY <2>5, <2>8 DEF Symbols
      <3> QED
        BY <2>4, <3>1
    <2>10. Base(p, d, fc, h[n].real) \subseteq Base(p, e, fc, h[n].real) \cup d
      BY DEF Base
    <2> QED
      BY <1>2, <2>1, <2>4, <2>7, <2>9, <2>10
  <1>4. Elements(stack') = {}
    BY <1>1 DEF Elements
  <1> QED
    BY <1>1, <1>2, <1>3, <1>4 DEF FreshOK, Valid

LEMMA FreshRootDone ==
    ASSUME Types, NEW h, Graph(h), FreshOK(h), RootDone
    PROVE  FreshOK(h)'
  <1>1. /\ UNCHANGED <<program, file_cache, node_cache, nodes, stack, command>> /\ stack = <<>>
        /\ call'.op # "return"
        /\ \A r \in DOMAIN records : records'[r].valid => records[r].valid
    BY RootRun
  <1>2. \A k \in DOMAIN node_cache : nodes[node_cache[k]].support_record \in DOMAIN records
    BY DEF Types, CachesOK
  <1> QED
    BY <1>1, <1>2, FreshKept

-----------------------------------------------------------------------------
(* What the nodes account for, step by step *)

\* Steps that make no child and change no support.
LEMMA GhostSame ==
    ASSUME Types, NEW h, GhostOK(h), program' = program, nodes' = nodes,
           \A r \in DOMAIN records : records[r].support \subseteq records'[r].support,
           \A n : OnStack(n)' => OnStack(n)
    PROVE  GhostOK(h)'
  <1>1. PICK defs \in SUBSET Definition : defs = {}
    OBVIOUS
  <1>2. Widened(h, h, defs)
    BY <1>1 DEF Widened
  <1>3. \A n \in DOMAIN nodes : Support(n) \subseteq Support(n)'
    BY DEF Support, Types, CachesOK
  <1> QED
    BY <1>2, <1>3, GhostKept

LEMMA GhostRootDone ==
    ASSUME Types, NEW h, GhostOK(h), RootDone
    PROVE  GhostOK(h)'
  <1>1. /\ UNCHANGED <<program, nodes, stack>>
        /\ \A r \in DOMAIN records : records'[r].support = records[r].support
    BY RootRun
  <1> QED
    BY <1>1, GhostSame DEF OnStack

LEMMA GhostRequest ==
    ASSUME Types, NEW h, GhostOK(h), NEW c \in Commands, Request(c), NEW g, Widened(h, g, c.d_opts)
    PROVE  GhostOK(g)'
  <1>1. /\ UNCHANGED <<program, nodes, stack>>
        /\ \A r \in DOMAIN records : records'[r].support = records[r].support
    BY RequestRun
  <1>2. PICK d \in SUBSET Definition : d = c.d_opts
    BY CommandFacts
  <1>3. \A n \in DOMAIN nodes : /\ Support(n) \subseteq Support(n)' /\ (OnStack(n)' => OnStack(n))
    BY <1>1 DEF Support, Types, CachesOK, OnStack
  <1> QED
    BY <1>1, <1>2, <1>3, GhostKept

\* Steps that are neither a new child nor more support.
LEMMA GhostSteady ==
    ASSUME Types, NEW h, GhostOK(h), Steady, ~AddChild
    PROVE  GhostOK(h)'
  <1>1. nodes' = nodes
    BY DEF Steady, FindNodeHit, FindNodeReal, CallFindNode, ComputedInclude, UpdateSet, Finish, caches
  <1> QED
    BY <1>1, SteadyFacts, SteadyStack, SteadyRecords, GhostSame

\* What is common to the steps that make a node.
LEMMA MakesFacts ==
    ASSUME Types, Types', FindNodeNext \/ FindNodeMissing \/ FindNodeMiss
    PROVE  /\ MakesNode /\ NotReusable /\ call.op = "call" /\ UNCHANGED <<program, request, command>>
           /\ Current' = Current /\ ~Idle
           /\ NewNode \notin DOMAIN nodes /\ DOMAIN nodes' = DOMAIN nodes \cup {NewNode}
           /\ \A n \in DOMAIN nodes : nodes'[n] = nodes[n] /\ (OnStack(n)' <=> OnStack(n))
           /\ nodes'[NewNode].real = Target /\ nodes'[NewNode].children = {}
           /\ \A r \in DOMAIN records : records'[r].support = records[r].support
           /\ stack' = stack \/ \E fr \in FrameType : stack' = Append(stack, fr) /\ fr.node = NewNode
  <1>1. /\ MakesNode /\ NotReusable /\ call.op = "call" /\ UNCHANGED <<program, request>>
    BY DEF FindNodeNext, FindNodeMissing, FindNodeMiss, MakesNode, NotReusable
  <1>2. command' = command /\ Current' = Current /\ ~Idle
    BY <1>1, CallFacts DEF request, Current
  <1>3. /\ NewNode \notin DOMAIN nodes /\ DOMAIN nodes' = DOMAIN nodes \cup {NewNode}
        /\ \A n \in DOMAIN nodes : nodes'[n] = nodes[n]
        /\ nodes'[NewNode].real = Target /\ nodes'[NewNode].children = {}
    BY <1>1, NewNodeFacts, NodesType DEF Types
  <1>4. stack' = stack \/ \E fr \in FrameType : stack' = Append(stack, fr) /\ fr.node = NewNode
    <2>1. CASE FindNodeMissing
      BY <2>1 DEF FindNodeMissing
    <2>2. CASE FindNodeNext \/ FindNodeMiss
      <3>1. PICK fr : stack' = Append(stack, fr) /\ fr.node = NewNode
        BY <2>2 DEF FindNodeNext, FindNodeMiss, Frame
      <3> QED
        BY <3>1, PushedType DEF Types, StackOK
    <2> QED
      BY <2>1, <2>2
  <1>5. ASSUME NEW n \in DOMAIN nodes PROVE OnStack(n)' <=> OnStack(n)
    <2>1. CASE stack' = stack
      BY <2>1 DEF OnStack
    <2>2. ASSUME NEW fr \in FrameType, stack' = Append(stack, fr), fr.node = NewNode
          PROVE  OnStack(n)' <=> OnStack(n)
      <3>1. Elements(stack') = Elements(stack) \cup {fr}
        BY <2>2, PushFacts DEF Types, StackOK
      <3>2. fr.node # n
        BY <1>3, <2>2
      <3> QED
        BY <3>1, <3>2 DEF OnStack
    <2> QED
      BY <1>4, <2>1, <2>2
  <1>6. ASSUME NEW r \in DOMAIN records PROVE records'[r].support = records[r].support
    <2>1. r \in DOMAIN Records /\ Records[r] = records[r]
      BY <1>1, FindFacts
    <2>2. CASE FindNodeNext \/ FindNodeMissing
      <3>1. records' = Records
        BY <2>2 DEF FindNodeNext, FindNodeMissing
      <3> QED
        BY <2>1, <3>1
    <2>3. CASE FindNodeMiss
      <3>1. PICK defs : Define(defs)
        BY <2>3 DEF FindNodeMiss
      <3> QED
        BY <1>1, <2>1, <3>1, DefineFacts
    <2> QED
      BY <2>2, <2>3
  <1> QED
    BY <1>1, <1>2, <1>3, <1>4, <1>5, <1>6

LEMMA NextNamed ==
    ASSUME Types, NotReusable
    PROVE  KeyNext(CallKey) \subseteq NextNames(program)
  <1>1. call.op = "call"
    BY DEF NotReusable
  <1>2. CASE call.mode # "NEXT"
    BY <1>1, <1>2, CallKeyFacts
  <1>3. CASE call.mode = "NEXT"
    <2>1. stack # <<>> /\ Has(Top.node, CallItem)
      BY <1>1, <1>3 DEF Types, CallOK, NoCall
    <2>2. PICK n, x, f : n = Top.node /\ x = call.fp /\ f = Real(n)
      OBVIOUS
    <2>3. f # None /\ x \in Elements(program[f].next)
      BY <1>3, <2>1, <2>2 DEF Has, CallItem, Real, Text
    <2>4. f \in DOMAIN program
      <3>1. Top \in Elements(stack)
        BY <2>1, TopFacts DEF Types, StackOK
      <3>2. n \in DOMAIN nodes
        BY <2>2, <3>1 DEF Types, StackOK
      <3> QED
        BY <2>2, <2>3, <3>2 DEF Types, CachesOK
    <2>5. x \in NextNames(program)
      BY <2>3, <2>4 DEF NextNames
    <2> QED
      BY <1>1, <1>3, <2>2, <2>5, CallKeyFacts
  <1> QED
    BY <1>2, <1>3

LEMMA GhostMakes ==
    ASSUME Types, Types', NEW h, GhostOK(h), FindNodeNext \/ FindNodeMissing \/ FindNodeMiss,
           NEW defs \in SUBSET Definition, NEW g, Widened(h, g, defs), ForNew(g),
           g[NewNode].syms = {}, g[NewNode].good \subseteq Definition,
           ~Dep(program, g[NewNode]) => g[NewNode].good = Definition
    PROVE  GhostOK(g)'
  <1>1. PICK n0, b : n0 = NewNode /\ b = g[NewNode]
    OBVIOUS
  <1>2. /\ program' = program /\ NotReusable
        /\ DOMAIN nodes' = DOMAIN nodes \cup {n0} /\ nodes'[n0].children = {}
        /\ \A n \in DOMAIN nodes : nodes'[n] = nodes[n] /\ (OnStack(n)' <=> OnStack(n))
        /\ \A r \in DOMAIN records : records'[r].support = records[r].support
    BY <1>1, MakesFacts
  <1>3. ASSUME NEW n \in DOMAIN nodes PROVE Support(n) \subseteq Support(n)'
    <2>1. nodes'[n] = nodes[n] /\ nodes[n].support_record \in DOMAIN records
      BY <1>2 DEF Types, CachesOK
    <2> QED
      BY <1>2, <2>1 DEF Support
  <1>4. b.nx \subseteq NextNames(program)
    BY <1>1, <1>2, NextNamed DEF ForNew
  <1>5. \A n \in DOMAIN nodes : /\ n \in DOMAIN nodes' /\ nodes'[n].children = nodes[n].children
                                /\ Support(n) \subseteq Support(n)'
                                /\ OnStack(n)' => OnStack(n)
    BY <1>2, <1>3
  <1>6. \A n \in DOMAIN nodes' :
             \/ n \in DOMAIN nodes
             \/ /\ nodes'[n].children = {}
                /\ g[n].nx \subseteq NextNames(program) /\ g[n].good \subseteq Definition /\ g[n].syms = {}
                /\ ~Dep(program, g[n]) => g[n].good = Definition
    BY <1>1, <1>2, <1>4
  <1> QED
    BY <1>2, <1>5, <1>6, GhostKept

LEMMA GhostMore ==
    ASSUME Types, NEW h, GhostOK(h), NEW top \in DOMAIN nodes, NEW more, NEW g, Uses(h, g, top, more),
           program' = program, nodes' = nodes, OnStack(top),
           Dep(program, h[top]), more \subseteq Support(top)',
           \A n \in DOMAIN nodes : Support(n) \subseteq Support(n)' /\ (OnStack(n)' => OnStack(n))
    PROVE  GhostOK(g)'
  <1>1. PICK kids : kids = {}
    OBVIOUS
  <1>2. \A n \in DOMAIN nodes :
             /\ nodes'[n].children = IF n = top THEN nodes[n].children \cup kids ELSE nodes[n].children
             /\ Support(n) \subseteq Support(n)' /\ (OnStack(n)' => OnStack(n))
    BY <1>1
  <1>3. \A c \in kids : /\ c \in DOMAIN nodes /\ h[c].syms \subseteq more /\ h[top].good \subseteq h[c].good
                        /\ Dep(program, h[c]) => ~OnStack(c)
    BY <1>1
  <1> QED
    BY <1>2, <1>3, GhostTop

\* A symbol is entered in the support of the node on top.
LEMMA GhostUpdate ==
    ASSUME Types, NEW h, Graph(h), GhostOK(h), UpdateSet, NEW g,
           Uses(h, g, Top.node, {Head(Top.todo).fp})
    PROVE  GhostOK(g)'
  <1>1. /\ Running /\ Top.todo # <<>> /\ Head(Top.todo).mode = "SUPPORT" /\ nodes' = nodes
        /\ records' = Update(records, TopRecord, {Head(Top.todo).fp}) /\ Steady
    BY DEF UpdateSet, Steady
  <1>2. PICK n, q, x, r, recs, more : /\ n = Top.node /\ q = Top.todo /\ x = Head(q) /\ r = TopRecord
                                      /\ recs = records /\ more = {x.fp}
    OBVIOUS
  <1>3. /\ q \in Seq(Items) /\ q # <<>> /\ n \in DOMAIN nodes /\ \A e \in Elements(q) : Has(n, e)
        /\ Top \in Elements(stack)
    BY <1>1, <1>2, RunningFacts
  <1>4. x \in Elements(q)
    BY <1>2, <1>3, HeadElements
  <1>5. PICK f : f = Real(n)
    OBVIOUS
  <1>6. f # None /\ f \in DOMAIN program /\ x.fp \in Elements(program[f].expr)
    <2>1. f # None /\ x.fp \in Elements(program[f].expr)
      BY <1>1, <1>2, <1>3, <1>4, <1>5 DEF Has, Text
    <2> QED
      BY <1>3, <1>5, <2>1 DEF Types, CachesOK
  <1>7. x.fp \in Symbol
    <2>1. program[f].expr \in Seq(Symbol)
      BY <1>6, ProgramFacts DEF Types, CachesOK
    <2> QED
      BY <1>6, <2>1, ElementsType
  <1>8. program[f].expr # <<>>
    BY <1>6 DEF Elements
  <1>9. Dep(program, h[n])
    <2>1. h[n].real = f
      BY <1>3, <1>5 DEF Graph
    <2> QED
      BY <1>6, <1>8, <2>1 DEF Dep, Depends
  <1>10. r \in DOMAIN recs /\ recs \in Seq(RecordType) /\ more \in SUBSET Symbol
    BY <1>2, <1>3, <1>7 DEF TopRecord, Types, CachesOK
  <1>11. records' = Update(recs, r, more) /\ Update(recs, r, more)[r].support = recs[r].support \cup more
    BY <1>1, <1>2, <1>10, UpdateFacts
  <1>12. more \subseteq Support(n)'
    <2>1. r = nodes'[n].support_record
      BY <1>1, <1>2 DEF TopRecord
    <2>2. more \subseteq records'[r].support
      BY <1>11
    <2> QED
      BY <2>1, <2>2 DEF Support
  <1>13. OnStack(n)
    BY <1>2, <1>3 DEF OnStack
  <1>14. \A m \in DOMAIN nodes : Support(m) \subseteq Support(m)' /\ (OnStack(m)' => OnStack(m))
    BY <1>1, SteadyRecords, SteadyStack DEF Support, Types, CachesOK
  <1>15. program' = program /\ Uses(h, g, n, more)
    BY <1>1, <1>2, SteadyFacts
  <1>16. n \in DOMAIN nodes /\ nodes' = nodes
    BY <1>1, <1>3
  <1> QED
    BY <1>9, <1>12, <1>13, <1>14, <1>15, <1>16, GhostMore

\* The node returned accounts for what the one on top does, and is not one of
\* those on the stack.
LEMMA ReturnedFits ==
    ASSUME Types, TameTree(program), NEW h, Graph(h), ChainOK(h), GhostOK(h), FreshOK(h),
           call.op = "return", stack # <<>>
    PROVE  /\ Top.node \in DOMAIN nodes /\ call.node \in DOMAIN nodes
           /\ Dep(program, h[call.node]) => Dep(program, h[Top.node]) /\ ~OnStack(call.node)
           /\ h[Top.node].good \subseteq h[call.node].good
           /\ h[call.node].syms = {} \/ Dep(program, h[Top.node])
  <1>1. PICK n, c, p, t, a, b : /\ n = Top.node /\ c = call.node /\ p = program /\ t = symbol_table
                                /\ a = h[n] /\ b = h[c]
    OBVIOUS
  <1>2. Top \in Elements(stack)
    BY TopFacts DEF Types, StackOK
  <1>3. n \in DOMAIN nodes /\ c \in DOMAIN nodes
    BY <1>1, <1>2, ReturnFacts DEF Types, StackOK
  <1>4. p \in Programs /\ t \in SUBSET AllDefinitions(p) /\ TameTree(p)
    BY <1>1 DEF Types, CachesOK
  <1>5. /\ a.real \in DOMAIN p \cup {None} /\ b.real \in DOMAIN p \cup {None} /\ a.nx \subseteq NextNames(p)
        /\ a.good \subseteq Definition /\ (~Dep(p, b) => b.good = Definition /\ b.syms = {})
    BY <1>1, <1>3 DEF Graph, Types, CachesOK, GhostOK
  <1>6. ChildOK(p, t, a, b)
    BY <1>1 DEF Graph, CallsOK
  <1>7. CASE ~Dep(p, b)
    BY <1>1, <1>3, <1>5, <1>7
  <1>8. CASE Dep(p, b)
    <2>1. Dep(p, a)
      BY <1>4, <1>5, <1>6, <1>8, ParentDep
    <2>2. a.good = Base(p, command.d_opts, file_cache, a.real)
      BY <1>1, <1>2, <2>1 DEF FreshOK
    <2>3. Base(p, command.d_opts, file_cache, b.real) \subseteq b.good
      BY <1>1, <1>8 DEF FreshOK
    <2>4. PICK f, d, fc : f = a.real /\ f \in DOMAIN p /\ d = command.d_opts /\ fc = file_cache
      BY <1>5, <2>1 DEF Dep
    <2>5. Under(p, f, b) /\ b.real # None
      BY <1>4, <1>6, <1>8, <2>4, ChildUnder DEF Dep
    <2>6. Base(p, d, fc, f) \subseteq Base(p, d, fc, b.real)
      BY <1>4, <2>4, <2>5, BaseDown
    <2>7. ~OnStack(c)
      <3>1. SUFFICES ASSUME OnStack(c) PROVE FALSE
        OBVIOUS
      <3>2. PICK i \in DOMAIN stack : stack[i].node = c
        BY <3>1 DEF OnStack, Elements
      <3>3. h[stack[i].node].real # None
        BY <1>1, <2>5, <3>2
      <3>4. b.real \in DOMAIN p /\ Under(p, b.real, b)
        BY <1>1, <1>6, <3>2, <3>3, UnderAll
      <3>5. b.real \in Below(p, b.real)
        BY <2>5, <3>4 DEF Under
      <3> QED
        BY <1>4, <1>8, <3>4, <3>5 DEF Dep, TameTree
    <2> QED
      BY <1>1, <1>3, <2>1, <2>2, <2>3, <2>4, <2>6, <2>7
  <1> QED
    BY <1>7, <1>8

LEMMA GhostChild ==
    ASSUME Types, TameTree(program), NEW h, Graph(h), ChainOK(h), GhostOK(h), FreshOK(h), AddChild, NEW g,
           Uses(h, g, Top.node, h[call.node].syms)
    PROVE  GhostOK(g)'
  <1>1. call.op = "return" /\ stack # <<>> /\ Steady
    BY DEF AddChild, Steady
  <1>2. PICK n, c, more, kids : n = Top.node /\ c = call.node /\ more = h[c].syms /\ kids = {c}
    OBVIOUS
  <1>3. /\ n \in DOMAIN nodes /\ c \in DOMAIN nodes
        /\ Dep(program, h[c]) => Dep(program, h[n]) /\ ~OnStack(c)
        /\ h[n].good \subseteq h[c].good
        /\ more = {} \/ Dep(program, h[n])
    BY <1>1, <1>2, ReturnedFits
  <1>4. /\ DOMAIN nodes' = DOMAIN nodes
        /\ \A m \in DOMAIN nodes : /\ nodes'[m].support_record = nodes[m].support_record
                                   /\ m # n => nodes'[m] = nodes[m]
        /\ nodes'[n].children = nodes[n].children \cup {c}
        /\ \A r \in DOMAIN records : records[r].support \subseteq records'[r].support
        /\ ~Top.dummy => records[nodes[c].support_record].support
                            \subseteq records'[nodes[n].support_record].support
    BY <1>2, ChildFacts
  <1>5. more \subseteq Support(n)'
    <2>1. CASE more = {}
      BY <2>1
    <2>2. CASE more # {}
      <3>1. h[n].real # None
        BY <1>3, <2>2 DEF Dep
      <3>2. PICK fr \in Elements(stack) : fr = Top
        BY <1>1, TopFacts DEF Types, StackOK
      <3>3. ~fr.dummy
        BY <1>2, <3>1, <3>2 DEF Graph, FramesOK
      <3>4. more \subseteq Support(c)
        BY <1>2, <1>3 DEF GhostOK
      <3>5. Support(c) = records[nodes[c].support_record].support
        BY DEF Support
      <3>6. Support(n)' = records'[nodes[n].support_record].support
        BY <1>3, <1>4 DEF Support
      <3> QED
        BY <1>4, <3>2, <3>3, <3>4, <3>5, <3>6
    <2> QED
      BY <2>1, <2>2
  <1>6. OnStack(n)
    BY <1>1, <1>2, TopFacts DEF Types, StackOK, OnStack
  <1>7. \A m \in DOMAIN nodes : Support(m) \subseteq Support(m)' /\ (OnStack(m)' => OnStack(m))
    BY <1>1, <1>4, SteadyStack DEF Support, Types, CachesOK
  <1>8. \A m \in DOMAIN nodes :
             /\ nodes'[m].children = IF m = n THEN nodes[m].children \cup kids ELSE nodes[m].children
             /\ Support(m) \subseteq Support(m)' /\ (OnStack(m)' => OnStack(m))
    BY <1>2, <1>4, <1>7
  <1>9. \A x \in kids : /\ x \in DOMAIN nodes /\ h[x].syms \subseteq more /\ h[n].good \subseteq h[x].good
                        /\ Dep(program, h[x]) => ~OnStack(x)
    BY <1>2, <1>3
  <1>10. program' = program /\ Uses(h, g, n, more)
    BY <1>1, <1>2, SteadyFacts
  <1> QED
    BY <1>3, <1>4, <1>5, <1>6, <1>8, <1>9, <1>10, GhostTop

-----------------------------------------------------------------------------
(* Keys and records, step by step *)

LEMMA UniqueKept ==
    ASSUME Types, NEW h, UniqueOK(h), UNCHANGED <<program, node_cache>>, NEW g,
           \A n \in DOMAIN nodes : /\ g[n].real = h[n].real
                                   /\ nodes'[n].support_record = nodes[n].support_record
    PROVE  UniqueOK(g)'
  <1>1. KeysUnique'
    BY DEF UniqueOK, KeysUnique, Known
  <1>2. ASSUME NEW k \in DOMAIN node_cache, NEW l \in DOMAIN node_cache,
               Dep(program, g[node_cache[k]]),
               nodes'[node_cache[k]].support_record = nodes'[node_cache[l]].support_record
        PROVE  \/ k = l
               \/ k[1] # "RESOLVED" /\ l[1] # "RESOLVED" /\ KeyReal(program, k) = KeyReal(program, l)
    <2>1. node_cache[k] \in DOMAIN nodes /\ node_cache[l] \in DOMAIN nodes
      BY DEF Types, CachesOK
    <2>2. Dep(program, h[node_cache[k]])
      BY <1>2, <2>1 DEF Dep
    <2> QED
      BY <1>2, <2>1, <2>2 DEF UniqueOK, RecordsUnique
  <1> QED
    BY <1>1, <1>2 DEF UniqueOK, RecordsUnique

LEMMA UniqueReal ==
    ASSUME Types, TameTree(program), NEW h, Graph(h), UniqueOK(h), FindNodeReal, NEW g,
           \A n \in DOMAIN nodes : g[n].real = h[n].real
    PROVE  UniqueOK(g)'
  <1>1. /\ NotReusable /\ Target # None /\ Known(RealKey(Target)) /\ program' = program /\ nodes' = nodes
        /\ node_cache' = Remember(node_cache, CallKey, node_cache[RealKey(Target)])
    BY DEF FindNodeReal, KnownByRealName
  <1>2. PICK k0, l0, c, f : k0 = CallKey /\ l0 = RealKey(Target) /\ c = node_cache[l0] /\ f = Target
    OBVIOUS
  <1>3. /\ DOMAIN node_cache' = DOMAIN node_cache \cup {k0} /\ node_cache'[k0] = c
        /\ \A k \in DOMAIN node_cache : k # k0 => node_cache'[k] = node_cache[k]
    <2>1. node_cache' = Remember(node_cache, k0, c)
      BY <1>1, <1>2
    <2> QED
      BY <2>1 DEF Remember
  <1>4. KeysUnique'
    BY <1>1, <1>2, <1>3, KeysUniqueGrow DEF UniqueOK
  <1>5. l0 \in DOMAIN node_cache /\ l0[1] = "REAL" /\ KeyReal(program, l0) = f /\ c \in DOMAIN nodes /\ f # None
    BY <1>1, <1>2 DEF Known, RealKey, KeyReal, Types, CachesOK
  <1>6. h[c].real = f /\ ~Dep(program, g[c]) /\ ~Depends(program, f)
    <2>1. h[c].real = f
      BY <1>2, <1>5 DEF Graph, KeysOK, Answers
    <2> QED
      BY <1>2, <1>5, <2>1, NoRealDep DEF Dep
  <1>7. ASSUME NEW k \in DOMAIN node_cache', NEW l \in DOMAIN node_cache',
               Dep(program, g[node_cache'[k]]),
               nodes[node_cache'[k]].support_record = nodes[node_cache'[l]].support_record
        PROVE  \/ k = l
               \/ k[1] # "RESOLVED" /\ l[1] # "RESOLVED" /\ KeyReal(program, k) = KeyReal(program, l)
    <2>1. k \in DOMAIN node_cache /\ k # k0 /\ node_cache'[k] = node_cache[k]
      BY <1>3, <1>6, <1>7
    <2>2. PICK n \in DOMAIN nodes : n = node_cache[k]
      BY <2>1 DEF Types, CachesOK
    <2>3. Dep(program, h[n]) /\ h[n].real = KeyReal(program, k)
      BY <1>7, <2>1, <2>2 DEF Dep, Graph, KeysOK, Answers
    <2>4. CASE l # k0
      <3>1. l \in DOMAIN node_cache /\ node_cache'[l] = node_cache[l]
        BY <1>3, <2>4
      <3> QED
        BY <1>7, <2>1, <2>2, <2>3, <3>1 DEF UniqueOK, RecordsUnique
    <2>5. CASE l = k0
      <3>1. nodes[n].support_record = nodes[c].support_record
        BY <1>3, <1>7, <2>1, <2>2, <2>5
      <3>2. k = l0 \/ KeyReal(program, k) = KeyReal(program, l0)
        BY <1>2, <1>5, <2>1, <2>2, <2>3, <3>1 DEF UniqueOK, RecordsUnique
      <3>3. h[n].real = f
        BY <1>5, <2>3, <3>2
      <3> QED
        BY <1>6, <2>3, <3>3 DEF Dep
    <2> QED
      BY <2>4, <2>5
  <1> QED
    BY <1>1, <1>4, <1>7 DEF UniqueOK, RecordsUnique

LEMMA UniqueSteady ==
    ASSUME Types, TameTree(program), NEW h, Graph(h), UniqueOK(h), Steady, NEW g,
           \A n \in DOMAIN nodes : g[n].real = h[n].real
    PROVE  UniqueOK(g)'
  <1>1. CASE FindNodeReal
    BY <1>1, UniqueReal
  <1>2. CASE ~FindNodeReal
    BY <1>2, SteadyFacts, SteadyRecords, UniqueKept
  <1> QED
    BY <1>1, <1>2

LEMMA UniqueMakes ==
    ASSUME Types, Types', NEW h, Graph(h), UniqueOK(h), FindNodeNext \/ FindNodeMissing \/ FindNodeMiss, NEW g,
           Same(h, g), ForNew(g)
    PROVE  UniqueOK(g)'
  <1>1. MakesNode /\ NotReusable /\ program' = program
    BY MakesFacts
  <1>2. PICK k0, l0, n0 : k0 = CallKey /\ l0 = RealKey(Target) /\ n0 = NewNode
    OBVIOUS
  <1>3. /\ DOMAIN node_cache \subseteq DOMAIN node_cache' /\ k0 \in DOMAIN node_cache'
        /\ \A k \in DOMAIN node_cache' :
             \/ k \in DOMAIN node_cache /\ k # k0 /\ node_cache'[k] = node_cache[k]
             \/ node_cache'[k] = n0 /\ k = k0
             \/ node_cache'[k] = n0 /\ k = l0 /\ Target # None /\ call.mode # "RESOLVED"
    <2>1. CASE FindNodeNext \/ FindNodeMissing
      <3>1. node_cache' = Remember(node_cache, k0, n0)
        BY <1>2, <2>1 DEF FindNodeNext, FindNodeMissing, Registered
      <3> QED
        BY <3>1 DEF Remember
    <2>2. CASE FindNodeMiss
      <3>1. node_cache' = MissedCache /\ Target # None
        BY <2>2 DEF FindNodeMiss
      <3>2. \A k \in DOMAIN node_cache' :
                 \/ k \in DOMAIN node_cache /\ node_cache'[k] = node_cache[k]
                 \/ node_cache'[k] = n0 /\ k \in {k0, l0}
        BY <1>2, <3>1, MissedFacts
      <3>3. \A k \in DOMAIN node_cache' :
              k \in {k0} \cup (IF call.mode = "RESOLVED" THEN {} ELSE {l0}) => node_cache'[k] = n0
        BY <1>2, <3>1, MissedFacts
      <3>4. DOMAIN node_cache' = DOMAIN node_cache \cup {k0} \cup (IF call.mode = "RESOLVED" THEN {} ELSE {l0})
        BY <1>2, <3>1, MissedFacts
      <3>5. call.mode = "RESOLVED" /\ l0 # k0 /\ l0 \in DOMAIN node_cache => node_cache'[l0] = node_cache[l0]
        BY <1>2, <3>1, MissedFacts DEF Known
      <3> QED
        BY <3>1, <3>2, <3>3, <3>4, <3>5
    <2> QED
      BY <2>1, <2>2
  <1>4. KeysUnique'
    BY <1>1, <1>2, <1>3, KeysUniqueGrow DEF UniqueOK
  <1>5. RecordsUnique(g)'
    BY <1>1, <1>2, <1>3, RecordsUniqueMakes DEF UniqueOK
  <1> QED
    BY <1>4, <1>5 DEF UniqueOK

-----------------------------------------------------------------------------
(* What is due for a node, and what has been found *)

LEMMA DueModes ==
    ASSUME NEW p, NEW a, NEW x \in Due(p, a)
    PROVE  x.mode \in Mode /\ x = [mode |-> x.mode, fp |-> x.fp]
  BY DEF Due, Mode

\* What is due does not grow with definitions whose symbols a does not use.
LEMMA DueWidened ==
    ASSUME NEW p, NEW a, NEW b, NEW defs, b.real = a.real, b.nx = a.nx,
           b.good = a.good \cup {d \in defs : d.symbol \notin a.syms},
           a.real # None => Elements(p[a.real].expr) \subseteq a.syms
    PROVE  Due(p, b) \subseteq Due(p, a)
  <1>1. CASE a.real = None
    BY <1>1 DEF Due
  <1>2. CASE a.real # None
    <2>1. PICK f, E : f = a.real /\ E = Elements(p[f].expr) /\ E \subseteq a.syms
      BY <1>2
    <2>2. ASSUME NEW s \in E PROVE ResolveExpr(p, b.good, s, f.dir) = ResolveExpr(p, a.good, s, f.dir)
      <3>1. {x \in b.good : x.symbol = s} = {x \in a.good : x.symbol = s}
        BY <2>1
      <3> QED
        BY <3>1 DEF ResolveExpr
    <2>3. UNION {ResolveExpr(p, b.good, s, f.dir) : s \in E} \subseteq UNION {ResolveExpr(p, a.good, s, f.dir) : s \in E}
      BY <2>2
    <2> QED
      BY <1>2, <2>1, <2>3 DEF Due
  <1> QED
    BY <1>1, <1>2

LEMMA DueSame ==
    ASSUME NEW p, NEW a, NEW b, b.real = a.real, b.nx = a.nx, b.good = a.good
    PROVE  /\ Due(p, b) = Due(p, a)
           /\ \A todo, x : ToDo(p, a, todo, x) => ToDo(p, b, todo, x)
  BY DEF Due, ToDo

LEMMA GotMore ==
    ASSUME NEW p, NEW h, NEW g, NEW f, NEW S, NEW T, NEW x, Got(p, h, f, S, x),
           \A c \in S : c \in T /\ g[c].real = h[c].real /\ g[c].nx = h[c].nx
    PROVE  Got(p, g, f, T, x)
  <1>1. PICK c \in S : Answers(p, h[c], KeyFrom(f, x))
    BY DEF Got
  <1>2. PICK a, b, k : a = h[c] /\ b = g[c] /\ k = KeyFrom(f, x)
    OBVIOUS
  <1>3. Answers(p, b, k)
    BY <1>1, <1>2, AnswersSame
  <1> QED
    BY <1>2, <1>3 DEF Got

\* A node off the stack stays covered.
LEMMA OffKept ==
    ASSUME Types, NEW h, PaidOK(h), NEW g, NEW defs, program' = program,
           NEW n \in DOMAIN nodes, ~OnStack(n), nodes'[n].children = nodes[n].children,
           \A c \in DOMAIN nodes : g[c].real = h[c].real /\ g[c].nx = h[c].nx,
           h[n].syms \subseteq g[n].syms,
           g[n].good = h[n].good \cup {d \in defs : d.symbol \notin h[n].syms}
    PROVE  Covered(program', g, n, nodes'[n].children, {}, <<>>)
  <1>1. PICK p, a, b, S : p = program /\ a = h[n] /\ b = g[n] /\ S = nodes[n].children
    OBVIOUS
  <1>2. Covered(p, h, n, S, {}, <<>>) /\ S \subseteq DOMAIN nodes
    BY <1>1 DEF PaidOK, Types, CachesOK
  <1>3. Elements(<<>>) = {}
    BY DEF Elements
  <1>4. /\ \A x \in Due(p, a) : Got(p, h, a.real, S, x)
        /\ a.real # None => Elements(p[a.real].expr) \subseteq a.syms
    BY <1>1, <1>2, <1>3 DEF Covered, ToDo, Used
  <1>5. b.real = a.real /\ b.nx = a.nx /\ b.good = a.good \cup {d \in defs : d.symbol \notin a.syms}
        /\ a.syms \subseteq b.syms
    BY <1>1
  <1>6. Due(p, b) \subseteq Due(p, a)
    BY <1>4, <1>5, DueWidened
  <1>7. ASSUME NEW x \in Due(p, b) PROVE Got(p, g, b.real, S, x)
    <2>1. PICK f : f = a.real /\ Got(p, h, f, S, x)
      BY <1>4, <1>6
    <2>2. Got(p, g, f, S, x)
      BY <1>2, <2>1, GotMore
    <2> QED
      BY <1>5, <2>1, <2>2
  <1>8. b.real # None => \A s \in Elements(p[b.real].expr) : Used(b, <<>>, s)
    BY <1>4, <1>5 DEF Used
  <1>9. Covered(p, g, n, S, {}, <<>>)
    BY <1>1, <1>7, <1>8 DEF Covered
  <1> QED
    BY <1>1, <1>9

\* An activation stays covered: what was in todo or asked for is found, or
\* still to be found.
LEMMA CoveredKept ==
    ASSUME NEW p, NEW h, NEW g, NEW n, NEW S, NEW A, NEW todo, NEW T, NEW B, NEW list,
           Covered(p, h, n, S, A, todo),
           g[n].real = h[n].real, g[n].nx = h[n].nx, g[n].good = h[n].good,
           \A c \in S : c \in T /\ g[c].real = h[c].real /\ g[c].nx = h[c].nx,
           \A x \in Due(p, h[n]) : ToDo(p, h[n], todo, x) \/ x \in A =>
             Got(p, g, h[n].real, T, x) \/ ToDo(p, h[n], list, x) \/ x \in B,
           \A s : Used(h[n], todo, s) => Used(g[n], list, s)
    PROVE  Covered(p, g, n, T, B, list)
  <1>1. PICK a, b, f : a = h[n] /\ b = g[n] /\ f = a.real
    OBVIOUS
  <1>2. b.real = f /\ Due(p, b) = Due(p, a) /\ \A x : ToDo(p, a, list, x) => ToDo(p, b, list, x)
    BY <1>1, DueSame
  <1>3. ASSUME NEW x \in Due(p, b) PROVE Got(p, g, f, T, x) \/ ToDo(p, b, list, x) \/ x \in B
    <2>1. CASE Got(p, h, f, S, x)
      BY <2>1, GotMore
    <2>2. CASE ~Got(p, h, f, S, x)
      <3>1. ToDo(p, a, todo, x) \/ x \in A
        BY <1>1, <1>2, <2>2 DEF Covered
      <3> QED
        BY <1>1, <1>2, <3>1
    <2> QED
      BY <2>1, <2>2
  <1>4. f # None => \A s \in Elements(p[f].expr) : Used(b, list, s)
    BY <1>1 DEF Covered
  <1> QED
    BY <1>1, <1>2, <1>3, <1>4 DEF Covered

LEMMA UsedMore ==
    ASSUME NEW a, NEW b, a.syms \subseteq b.syms
    PROVE  \A todo, s : Used(a, todo, s) => Used(b, todo, s)
  BY DEF Used

\* An activation that goes on waiting.
LEMMA OnKept ==
    ASSUME Types, NEW h, PaidOK(h), NEW g, program' = program,
           NEW i \in DOMAIN stack, i \in DOMAIN stack', stack'[i] = stack[i],
           \A c \in DOMAIN nodes : g[c].real = h[c].real /\ g[c].nx = h[c].nx,
           Coming(i) \subseteq DOMAIN nodes, Asked(i) = {},
           nodes[stack[i].node].children \cup Coming(i) \subseteq nodes'[stack'[i].node].children \cup Coming(i)',
           h[stack[i].node].syms \subseteq g[stack[i].node].syms, g[stack[i].node].good = h[stack[i].node].good
    PROVE  Covered(program', g, stack'[i].node, nodes'[stack'[i].node].children \cup Coming(i)', Asked(i)', stack'[i].todo)
  <1>1. PICK p, n, S, A, todo, T, B :
          /\ p = program /\ n = stack[i].node /\ S = nodes[n].children \cup Coming(i) /\ A = Asked(i) /\ todo = stack[i].todo
          /\ T = nodes'[n].children \cup Coming(i)' /\ B = Asked(i)'
    OBVIOUS
  <1>2. Covered(p, h, n, S, A, todo)
    BY <1>1 DEF PaidOK
  <1>3. n \in DOMAIN nodes /\ S \subseteq DOMAIN nodes
    <2>1. stack[i] \in Elements(stack)
      BY DEF Elements
    <2>2. n \in DOMAIN nodes
      BY <1>1, <2>1 DEF Types, StackOK
    <2> QED
      BY <1>1, <2>2 DEF Types, CachesOK
  <1>4. S \subseteq T /\ A = {}
    BY <1>1
  <1>5. \A s : Used(h[n], todo, s) => Used(g[n], todo, s)
    BY <1>1, UsedMore
  <1>6. Covered(p, g, n, T, B, todo)
    <2>1. g[n].real = h[n].real /\ g[n].nx = h[n].nx /\ g[n].good = h[n].good
      BY <1>1, <1>3
    <2>2. \A c \in S : c \in T /\ g[c].real = h[c].real /\ g[c].nx = h[c].nx
      BY <1>3, <1>4
    <2> QED
      BY <1>2, <1>4, <1>5, <2>1, <2>2, CoveredKept
  <1> QED
    BY <1>1, <1>6

\* All but the activation on top is left as it is.
LEMMA SteadyRest ==
    ASSUME Types, Steady
    PROVE  /\ \A i \in DOMAIN stack' : i # Len(stack) => stack'[i] = stack[i]
           /\ ~Finish => DOMAIN stack' = DOMAIN stack /\ Len(stack') = Len(stack)
           /\ Finish => /\ DOMAIN stack' = 1 .. Len(stack) - 1 /\ Len(stack') = Len(stack) - 1
                        /\ call'.op = "return" /\ call'.node = Top.node /\ stack # <<>>
  <1>1. stack \in Seq(FrameType)
    BY DEF Types, StackOK
  <1>2. CASE FindNodeHit \/ FindNodeReal \/ AddChild
    <2>1. stack' = stack /\ ~Finish
      BY <1>2 DEF FindNodeHit, FindNodeReal, NotReusable, AddChild, Finish, Running
    <2> QED
      BY <2>1
  <1>3. CASE CallFindNode \/ UpdateSet
    <2>1. Running /\ Top.todo # <<>> /\ stack' = SetTodo(Tail(Top.todo)) /\ ~Finish
      BY <1>3 DEF CallFindNode, UpdateSet, Finish
    <2>2. stack # <<>> /\ Top.todo \in Seq(Items)
      BY <2>1, RunningFacts
    <2>3. PICK q : q = Top.todo
      OBVIOUS
    <2>4. PICK t : t = Tail(q)
      OBVIOUS
    <2>5. t \in Seq(Items)
      BY <2>1, <2>2, <2>3, <2>4, HeadElements
    <2> QED
      BY <1>1, <2>1, <2>2, <2>3, <2>4, <2>5, TodoFacts
  <1>4. CASE ComputedInclude
    <2>1. PICK t : t \in Seq(Items) /\ stack' = SetTodo(t)
      BY <1>4, TypesComputed
    <2>2. stack # <<>> /\ ~Finish
      BY <1>4 DEF ComputedInclude, Running, Finish
    <2> QED
      BY <1>1, <2>1, <2>2, TodoFacts
  <1>5. CASE Finish
    <2>1. stack # <<>> /\ stack' = SubSeq(stack, 1, Len(stack) - 1) /\ call' = ReturnNode(Top.node)
      BY <1>5 DEF Finish, Running
    <2>2. call'.op = "return" /\ call'.node = Top.node
      BY <2>1 DEF ReturnNode
    <2> QED
      BY <1>1, <1>5, <2>1, <2>2, PopFacts
  <1> QED
    BY <1>2, <1>3, <1>4, <1>5 DEF Steady

LEMMA PaidRest ==
    ASSUME Types, NEW h, PaidOK(h), Steady, NEW g, NEW top, top = Len(stack),
           \A c \in DOMAIN nodes : /\ g[c].real = h[c].real /\ g[c].nx = h[c].nx /\ g[c].good = h[c].good
                                   /\ h[c].syms \subseteq g[c].syms,
           (stack # <<>> /\ ~Finish) =>
             Covered(program', g, stack'[top].node, nodes'[stack'[top].node].children \cup Coming(top)', Asked(top)',
                     stack'[top].todo),
           Finish => Covered(program', g, Top.node, nodes'[Top.node].children, {}, <<>>)
    PROVE  PaidOK(g)'
  <1>1. stack \in Seq(FrameType) /\ program' = program /\ DOMAIN nodes' = DOMAIN nodes
    BY SteadyFacts DEF Types, StackOK
  <1>2. top \in Nat /\ DOMAIN stack = 1 .. top
    BY <1>1
  <1>3. /\ \A i \in DOMAIN stack' : i # top => stack'[i] = stack[i]
        /\ ~Finish => DOMAIN stack' = DOMAIN stack /\ Len(stack') = top
        /\ Finish => /\ DOMAIN stack' = 1 .. top - 1 /\ Len(stack') = top - 1
                     /\ call'.op = "return" /\ call'.node = Top.node /\ stack # <<>>
    BY SteadyRest
  <1>4. ASSUME NEW n \in DOMAIN nodes
        PROVE  /\ nodes[n].children \subseteq nodes'[n].children
               /\ ~OnStack(n) => nodes'[n].children = nodes[n].children
    <2>1. CASE AddChild
      <3>1. OnStack(Top.node)
        BY <1>1, <2>1, TopFacts DEF OnStack, AddChild
      <3>2. n # Top.node => nodes'[n] = nodes[n]
        BY <2>1, ChildFacts
      <3>3. nodes'[Top.node].children = nodes[Top.node].children \cup {call.node}
        BY <2>1, ChildFacts
      <3> QED
        BY <3>1, <3>2, <3>3
    <2>2. CASE ~AddChild
      <3>1. nodes' = nodes
        BY <2>2 DEF Steady, FindNodeHit, FindNodeReal, CallFindNode, ComputedInclude, UpdateSet, Finish, caches
      <3> QED
        BY <3>1
    <2> QED
      BY <2>1, <2>2
  <1>5. ASSUME NEW n \in DOMAIN nodes, ~OnStack(n)
        PROVE  Covered(program', g, n, nodes'[n].children, {}, <<>>)
    <2>1. PICK defs : defs = {}
      OBVIOUS
    <2>2. g[n].good = h[n].good \cup {d \in defs : d.symbol \notin h[n].syms}
      BY <2>1
    <2>3. nodes'[n].children = nodes[n].children /\ h[n].syms \subseteq g[n].syms
      BY <1>4, <1>5
    <2>4. \A c \in DOMAIN nodes : g[c].real = h[c].real /\ g[c].nx = h[c].nx
      OBVIOUS
    <2>5. program' = program
      BY <1>1
    <2> QED
      BY <1>5, <2>2, <2>3, <2>4, <2>5, OffKept
  <1>6. ASSUME NEW n \in DOMAIN nodes, OnStack(n), ~OnStack(n)'
        PROVE  Finish /\ n = Top.node
    <2>1. PICK i \in DOMAIN stack : stack[i].node = n
      BY <1>6 DEF OnStack, Elements
    <2>2. i \notin DOMAIN stack'
      BY <1>6, <2>1, SteadyStack DEF OnStack, Elements
    <2>3. Finish /\ i = top
      BY <1>2, <1>3, <2>2
    <2> QED
      BY <2>1, <2>3 DEF Top
  <1>7. ASSUME NEW i \in DOMAIN stack', i # top
        PROVE  Covered(program', g, stack'[i].node, nodes'[stack'[i].node].children \cup Coming(i)', Asked(i)',
                       stack'[i].todo)
    <2>1. i \in DOMAIN stack /\ i < top /\ i + 1 \in DOMAIN stack /\ stack'[i] = stack[i] /\ i \in 1 .. top
      BY <1>2, <1>3, <1>7
    <2>2. PICK n, m : n = stack[i].node /\ m = stack[i + 1].node
      OBVIOUS
    <2>3. n \in DOMAIN nodes /\ m \in DOMAIN nodes
      <3>1. stack[i] \in Elements(stack) /\ stack[i + 1] \in Elements(stack)
        BY <2>1 DEF Elements
      <3> QED
        BY <2>2, <3>1 DEF Types, StackOK
    <2>4. Coming(i) = {m} /\ Asked(i) = {}
      BY <2>1, <2>2 DEF Coming, Asked
    <2>5. Coming(i)' = {m}
      <3>1. CASE i < Len(stack')
        <4>1. i + 1 \in DOMAIN stack'
          BY <1>2, <1>3, <2>1, <3>1
        <4>2. stack'[i + 1].node = m
          BY <2>2, <4>1, SteadyStack
        <4> QED
          BY <3>1, <4>2 DEF Coming
      <3>2. CASE ~(i < Len(stack'))
        <4>1. Finish /\ i + 1 = top
          BY <1>2, <1>3, <2>1, <3>2
        <4>2. call'.op = "return" /\ call'.node = m
          BY <1>3, <2>2, <4>1 DEF Top
        <4> QED
          BY <3>2, <4>2 DEF Coming
      <3> QED
        BY <3>1, <3>2
    <2>6. nodes[stack[i].node].children \cup Coming(i) \subseteq nodes'[stack'[i].node].children \cup Coming(i)'
      BY <1>4, <2>1, <2>2, <2>3, <2>4, <2>5
    <2>7. h[stack[i].node].syms \subseteq g[stack[i].node].syms /\ g[stack[i].node].good = h[stack[i].node].good
      BY <2>2, <2>3
    <2> QED
      BY <1>1, <1>7, <2>1, <2>3, <2>4, <2>6, <2>7, OnKept
  <1>8. ASSUME NEW i \in DOMAIN stack'
        PROVE  Covered(program', g, stack'[i].node, nodes'[stack'[i].node].children \cup Coming(i)', Asked(i)',
                       stack'[i].todo)
    <2>1. CASE i = top
      <3>1. ~Finish /\ stack # <<>>
        BY <1>2, <1>3, <2>1
      <3> QED
        BY <2>1, <3>1
    <2> QED
      BY <1>7, <2>1
  <1>9. \A n \in DOMAIN nodes' : ~OnStack(n)' => Covered(program', g, n, nodes'[n].children, {}, <<>>)
    BY <1>1, <1>5, <1>6
  <1> QED
    BY <1>8, <1>9 DEF PaidOK

LEMMA CallKeyFrom ==
    ASSUME Types, NEW h, Graph(h), call.op = "call", stack # <<>>
    PROVE  KeyFrom(h[Top.node].real, CallItem) = CallKey
  <1>1. call.dir = CallDir(Top.node, call.mode)
    BY DEF Types, CallOK, NoCall
  <1>2. PICK n : n = Top.node /\ n \in DOMAIN nodes
    BY TopFacts DEF Types, StackOK
  <1>3. h[n].real = Real(n)
    BY <1>2 DEF Graph
  <1> QED
    BY <1>1, <1>2, <1>3 DEF KeyFrom, CallKey, Key, CallItem, CallDir

\* The activation on top, and what it waits for.
LEMMA TopWaits ==
    ASSUME Types, NEW h, PaidOK(h), stack # <<>>
    PROVE  /\ Top.node \in DOMAIN nodes /\ nodes[Top.node].children \subseteq DOMAIN nodes
           /\ Covered(program, h, Top.node,
                      nodes[Top.node].children \cup (IF call.op = "return" THEN {call.node} ELSE {}),
                      IF call.op = "call" THEN {CallItem} ELSE {}, Top.todo)
           /\ OnStack(Top.node)
  <1>1. PICK L : L = Len(stack) /\ L \in DOMAIN stack /\ Top = stack[L] /\ Top \in Elements(stack) /\ L \in Nat
    BY TopFacts DEF Types, StackOK
  <1>2. Top.node \in DOMAIN nodes /\ nodes[Top.node].children \subseteq DOMAIN nodes /\ OnStack(Top.node)
    BY <1>1 DEF Types, StackOK, CachesOK, OnStack
  <1>3. Coming(L) = (IF call.op = "return" THEN {call.node} ELSE {})
    BY <1>1 DEF Coming
  <1>4. Asked(L) = (IF call.op = "call" THEN {CallItem} ELSE {})
    BY <1>1 DEF Asked
  <1>5. Covered(program, h, Top.node, nodes[Top.node].children \cup Coming(L), Asked(L), Top.todo)
    BY <1>1 DEF PaidOK
  <1> QED
    BY <1>2, <1>3, <1>4, <1>5

\* The call of the one on top is answered by node c.
LEMMA TopAnswered ==
    ASSUME Types, NEW h, Graph(h), PaidOK(h), call.op = "call", stack # <<>>, NEW g,
           \A n \in DOMAIN nodes : g[n].real = h[n].real /\ g[n].nx = h[n].nx /\ g[n].syms = h[n].syms,
           g[Top.node].good = h[Top.node].good,
           NEW c, Answers(program, g[c], CallKey)
    PROVE  Covered(program, g, Top.node, nodes[Top.node].children \cup {c}, {}, Top.todo)
  <1>1. PICK p, n, S, A, todo, T : /\ p = program /\ n = Top.node /\ S = nodes[n].children /\ A = {CallItem}
                                   /\ todo = Top.todo /\ T = S \cup {c}
    OBVIOUS
  <1>2. n \in DOMAIN nodes /\ S \subseteq DOMAIN nodes /\ Covered(p, h, n, S \cup {}, A, todo)
    BY <1>1, TopWaits
  <1>3. Covered(p, h, n, S, A, todo)
    BY <1>2
  <1>4. ASSUME NEW x \in A PROVE Got(p, g, h[n].real, T, x)
    BY <1>1, CallKeyFrom DEF Got
  <1>5. g[n].real = h[n].real /\ g[n].nx = h[n].nx /\ g[n].good = h[n].good
    BY <1>1, <1>2
  <1>6. \A s : Used(h[n], todo, s) => Used(g[n], todo, s)
    BY <1>2, UsedMore
  <1>7. PICK B : B = {}
    OBVIOUS
  <1>8. Covered(p, g, n, T, B, todo)
    <2>1. \A d \in S : d \in T /\ g[d].real = h[d].real /\ g[d].nx = h[d].nx
      BY <1>1, <1>2
    <2>2. \A x \in Due(p, h[n]) : ToDo(p, h[n], todo, x) \/ x \in A =>
             Got(p, g, h[n].real, T, x) \/ ToDo(p, h[n], todo, x) \/ x \in B
      BY <1>4
    <2> QED
      BY <1>3, <1>5, <1>6, <2>1, <2>2, CoveredKept
  <1> QED
    BY <1>1, <1>7, <1>8

LEMMA PaidFound ==
    ASSUME Types, NEW h, Graph(h), PaidOK(h), FindNodeHit \/ FindNodeReal
    PROVE  PaidOK(h)'
  <1>1. /\ UNCHANGED <<program, nodes, stack>> /\ call.op = "call" /\ Steady /\ ~Finish
        /\ \E c : call' = ReturnNode(c) /\ Answers(program, h[c], CallKey)
    <2>1. UNCHANGED <<program, nodes, stack>> /\ call.op = "call" /\ Steady /\ ~Finish
      BY DEF FindNodeHit, FindNodeReal, NotReusable, Steady, caches, Finish, Running
    <2>2. CASE FindNodeHit
      <3>1. call' = ReturnNode(node_cache[CallKey]) /\ CallKey \in DOMAIN node_cache
        BY <2>2 DEF FindNodeHit, Known
      <3>2. Answers(program, h[node_cache[CallKey]], CallKey)
        BY <3>1 DEF Graph, KeysOK
      <3> QED
        BY <2>1, <3>1, <3>2
    <2>3. CASE FindNodeReal
      <3>1. PICK k, c : k = RealKey(Target) /\ c = node_cache[k]
        OBVIOUS
      <3>2. call' = ReturnNode(c) /\ k \in DOMAIN node_cache /\ Target # None /\ NotReusable
        BY <2>3, <3>1 DEF FindNodeReal, KnownByRealName, Known
      <3>3. k[1] = "REAL" /\ k[2] = Target
        BY <3>1 DEF RealKey
      <3>4. h[c].real = Target
        BY <3>1, <3>2, <3>3 DEF Graph, KeysOK, Answers, KeyReal
      <3>5. Answers(program, h[c], CallKey)
        BY <3>2, <3>4, TargetIs DEF Answers
      <3> QED
        BY <2>1, <3>2, <3>5
    <2> QED
      BY <2>1, <2>2, <2>3
  <1>2. PICK c : call' = ReturnNode(c) /\ Answers(program, h[c], CallKey)
    BY <1>1
  <1>3. call'.op = "return" /\ call'.node = c
    BY <1>2 DEF ReturnNode
  <1>4. PICK top : top = Len(stack)
    OBVIOUS
  <1>5. ASSUME stack # <<>>
        PROVE  Covered(program', h, stack'[top].node, nodes'[stack'[top].node].children \cup Coming(top)', Asked(top)',
                       stack'[top].todo)
    <2>1. Covered(program, h, Top.node, nodes[Top.node].children \cup {c}, {}, Top.todo)
      BY <1>1, <1>2, <1>5, TopAnswered
    <2>2. Coming(top)' = {c} /\ Asked(top)' = {}
      <3>1. top \in Nat /\ Len(stack') = top
        BY <1>1, <1>4 DEF Types, StackOK
      <3> QED
        BY <1>3, <3>1 DEF Coming, Asked
    <2> QED
      BY <1>1, <1>4, <2>1, <2>2 DEF Top
  <1> QED
    BY <1>1, <1>4, <1>5, PaidRest

LEMMA PaidFinish ==
    ASSUME Types, NEW h, PaidOK(h), Finish
    PROVE  PaidOK(h)'
  <1>1. UNCHANGED <<program, nodes>> /\ Running /\ Top.todo = <<>> /\ Steady
    BY DEF Finish, caches, Steady
  <1>2. stack # <<>> /\ call.op = "idle"
    BY <1>1 DEF Running
  <1>3. Covered(program, h, Top.node, nodes[Top.node].children \cup {}, {}, Top.todo)
    BY <1>2, TopWaits
  <1>4. Covered(program', h, Top.node, nodes'[Top.node].children, {}, <<>>)
    BY <1>1, <1>3
  <1>5. PICK top : top = Len(stack)
    OBVIOUS
  <1> QED
    BY <1>1, <1>4, <1>5, PaidRest

LEMMA PaidChild ==
    ASSUME Types, NEW h, PaidOK(h), AddChild, NEW g, NEW more, Uses(h, g, Top.node, more)
    PROVE  PaidOK(g)'
  <1>1. UNCHANGED <<program, stack>> /\ call.op = "return" /\ stack # <<>> /\ Steady /\ ~Finish /\ call' = NoCall
    BY DEF AddChild, Steady, Finish, Running
  <1>2. \A c \in DOMAIN nodes : /\ g[c].real = h[c].real /\ g[c].nx = h[c].nx /\ g[c].good = h[c].good
                                /\ h[c].syms \subseteq g[c].syms
    BY DEF Uses
  <1>3. PICK top, n, c, p, S, todo :
          /\ top = Len(stack) /\ n = Top.node /\ c = call.node /\ p = program /\ todo = Top.todo
          /\ S = nodes[n].children \cup {call.node}
    OBVIOUS
  <1>4. n \in DOMAIN nodes /\ S \subseteq DOMAIN nodes /\ Covered(p, h, n, S, {}, todo)
    BY <1>1, <1>3, TopWaits, ReturnFacts
  <1>5. Covered(p, g, n, S, {}, todo)
    <2>1. PICK A : A = {}
      OBVIOUS
    <2>2. g[n].real = h[n].real /\ g[n].nx = h[n].nx /\ g[n].good = h[n].good /\ h[n].syms \subseteq g[n].syms
      BY <1>2, <1>4
    <2>3. \A s : Used(h[n], todo, s) => Used(g[n], todo, s)
      BY <2>2, UsedMore
    <2>4. Covered(p, h, n, S, A, todo) /\ \A d \in S : d \in S /\ g[d].real = h[d].real /\ g[d].nx = h[d].nx
      BY <1>2, <1>4, <2>1
    <2>5. Covered(p, g, n, S, A, todo)
      BY <2>2, <2>3, <2>4, CoveredKept
    <2> QED
      BY <2>1, <2>5
  <1>6. nodes'[n].children = S
    BY <1>3, ChildFacts
  <1>7. Coming(top)' = {} /\ Asked(top)' = {}
    <2>1. top \in Nat /\ Len(stack') = top
      BY <1>1, <1>3 DEF Types, StackOK
    <2> QED
      BY <1>1, <2>1 DEF Coming, Asked, NoCall
  <1>8. Covered(program', g, stack'[top].node, nodes'[stack'[top].node].children \cup Coming(top)', Asked(top)',
                stack'[top].todo)
    BY <1>1, <1>3, <1>5, <1>6, <1>7 DEF Top
  <1> QED
    BY <1>1, <1>2, <1>3, <1>8, PaidRest

\* The one on top gets on with its list.
LEMMA PaidTodo ==
    ASSUME Types, NEW h, PaidOK(h), Running, Steady, ~Finish, nodes' = nodes, call'.op # "return",
           NEW list \in Seq(Items), stack' = SetTodo(list), NEW g,
           \A c \in DOMAIN nodes : /\ g[c].real = h[c].real /\ g[c].nx = h[c].nx /\ g[c].good = h[c].good
                                   /\ h[c].syms \subseteq g[c].syms,
           \A x \in Due(program, h[Top.node]) : ToDo(program, h[Top.node], Top.todo, x) =>
             ToDo(program, h[Top.node], list, x) \/ (call'.op = "call" /\ x = CallItem'),
           \A s : Used(h[Top.node], Top.todo, s) => Used(g[Top.node], list, s)
    PROVE  PaidOK(g)'
  <1>1. stack \in Seq(FrameType) /\ stack # <<>> /\ call.op = "idle" /\ program' = program
    BY SteadyFacts DEF Types, StackOK, Running
  <1>2. PICK top, n, p, S, todo, A, B :
          /\ top = Len(stack) /\ n = Top.node /\ p = program /\ todo = Top.todo /\ A = {}
          /\ S = nodes[n].children /\ B = Asked(top)'
    OBVIOUS
  <1>3. n \in DOMAIN nodes /\ S \subseteq DOMAIN nodes /\ Covered(p, h, n, S \cup {}, A, todo)
    BY <1>1, <1>2, TopWaits
  <1>4. Covered(p, h, n, S, A, todo)
    BY <1>3
  <1>5. /\ Len(stack') = top /\ top \in Nat /\ stack'[top].todo = list /\ stack'[top].node = n
    BY <1>1, <1>2, TodoFacts DEF Top
  <1>6. Coming(top)' = {} /\ B = (IF call'.op = "call" THEN {CallItem'} ELSE {})
    BY <1>2, <1>5 DEF Coming, Asked
  <1>7. Covered(p, g, n, S, B, list)
    <2>1. g[n].real = h[n].real /\ g[n].nx = h[n].nx /\ g[n].good = h[n].good
      BY <1>3
    <2>2. \A d \in S : d \in S /\ g[d].real = h[d].real /\ g[d].nx = h[d].nx
      BY <1>3
    <2>3. \A x \in Due(p, h[n]) : ToDo(p, h[n], todo, x) \/ x \in A =>
             Got(p, g, h[n].real, S, x) \/ ToDo(p, h[n], list, x) \/ x \in B
      BY <1>2, <1>6
    <2>4. \A s : Used(h[n], todo, s) => Used(g[n], list, s)
      BY <1>2
    <2> QED
      BY <1>4, <2>1, <2>2, <2>3, <2>4, CoveredKept
  <1>8. Covered(program', g, stack'[top].node, nodes'[stack'[top].node].children \cup Coming(top)', Asked(top)',
                stack'[top].todo)
    <2>1. nodes'[stack'[top].node].children \cup Coming(top)' = S
      BY <1>2, <1>5, <1>6
    <2> QED
      BY <1>1, <1>2, <1>5, <1>7, <2>1
  <1> QED
    BY <1>2, <1>8, PaidRest

LEMMA PaidCall ==
    ASSUME Types, NEW h, PaidOK(h), CallFindNode
    PROVE  PaidOK(h)'
  <1>1. /\ Running /\ Top.todo # <<>> /\ Head(Top.todo).mode \in Mode /\ Steady /\ ~Finish /\ nodes' = nodes
        /\ stack' = SetTodo(Tail(Top.todo))
    BY DEF CallFindNode, Steady, Finish, caches
  <1>2. PICK n, q, x0, list, d, p, a :
          /\ n = Top.node /\ q = Top.todo /\ x0 = Head(q) /\ list = Tail(q) /\ p = program /\ a = h[n]
          /\ d = IF x0.mode = "RESOLVED" THEN NoDir ELSE nodes[Top.node].real.dir
    OBVIOUS
  <1>3. call' = FindNodeCall(x0.mode, x0.fp, d)
    BY <1>2 DEF CallFindNode
  <1>4. call'.op = "call" /\ CallItem' = [mode |-> x0.mode, fp |-> x0.fp]
    BY <1>3 DEF FindNodeCall, CallItem
  <1>5. q \in Seq(Items) /\ q # <<>>
    BY <1>1, <1>2, RunningFacts
  <1>6. list \in Seq(Items) /\ Elements(q) = {x0} \cup Elements(list)
    BY <1>2, <1>5, HeadElements
  <1>7. ASSUME NEW x \in Due(p, a), ToDo(p, a, q, x)
        PROVE  ToDo(p, a, list, x) \/ x = CallItem'
    <2>1. x = [mode |-> x.mode, fp |-> x.fp]
      BY DueModes
    <2>2. PICK y \in Elements(q) :
            y = x \/ (y.mode = "EXPR" /\ x.mode = "RESOLVED" /\ x.fp \in ResolveExpr(p, a.good, y.fp, a.real.dir))
      BY <1>7 DEF ToDo
    <2>3. CASE y \in Elements(list)
      BY <2>2, <2>3 DEF ToDo
    <2>4. CASE y = x0
      <3>1. x0.mode # "EXPR"
        BY <1>1, <1>2 DEF Mode
      <3>2. x = x0
        BY <2>2, <2>4, <3>1
      <3> QED
        BY <1>4, <2>1, <3>2
    <2> QED
      BY <1>6, <2>3, <2>4
  <1>8. ASSUME NEW s, Used(a, q, s) PROVE Used(a, list, s)
    <2>1. x0.mode \notin {"EXPR", "SUPPORT"}
      BY <1>1, <1>2 DEF Mode
    <2> QED
      BY <1>6, <1>8, <2>1 DEF Used
  <1>9. stack' = SetTodo(list) /\ call'.op # "return"
    BY <1>1, <1>2, <1>4
  <1>10. \A x \in Due(program, h[Top.node]) : ToDo(program, h[Top.node], Top.todo, x) =>
             ToDo(program, h[Top.node], list, x) \/ (call'.op = "call" /\ x = CallItem')
    BY <1>2, <1>4, <1>7
  <1>11. \A s : Used(h[Top.node], Top.todo, s) => Used(h[Top.node], list, s)
    BY <1>2, <1>8
  <1> QED
    BY <1>1, <1>6, <1>9, <1>10, <1>11, PaidTodo

LEMMA PaidUpdate ==
    ASSUME Types, NEW h, PaidOK(h), UpdateSet, NEW g, Uses(h, g, Top.node, {Head(Top.todo).fp})
    PROVE  PaidOK(g)'
  <1>1. /\ Running /\ Top.todo # <<>> /\ Head(Top.todo).mode = "SUPPORT" /\ Steady /\ ~Finish /\ nodes' = nodes
        /\ stack' = SetTodo(Tail(Top.todo)) /\ call' = call
    BY DEF UpdateSet, Steady, Finish
  <1>2. PICK n, q, x0, list, p, a, b :
          /\ n = Top.node /\ q = Top.todo /\ x0 = Head(q) /\ list = Tail(q) /\ p = program /\ a = h[n] /\ b = g[n]
    OBVIOUS
  <1>3. q \in Seq(Items) /\ q # <<>> /\ n \in DOMAIN nodes /\ call'.op # "return"
    BY <1>1, <1>2, RunningFacts DEF Running
  <1>4. list \in Seq(Items) /\ Elements(q) = {x0} \cup Elements(list)
    BY <1>2, <1>3, HeadElements
  <1>5. ASSUME NEW x \in Due(p, a), ToDo(p, a, q, x)
        PROVE  ToDo(p, a, list, x)
    <2>1. x.mode \in Mode
      BY DueModes
    <2>2. PICK y \in Elements(q) :
            y = x \/ (y.mode = "EXPR" /\ x.mode = "RESOLVED" /\ x.fp \in ResolveExpr(p, a.good, y.fp, a.real.dir))
      BY <1>5 DEF ToDo
    <2>3. y # x0
      BY <1>1, <1>2, <2>1, <2>2 DEF Mode
    <2> QED
      BY <1>4, <2>2, <2>3 DEF ToDo
  <1>6. b.syms = a.syms \cup {x0.fp}
    BY <1>2, <1>3 DEF Uses
  <1>7. ASSUME NEW s, Used(a, q, s) PROVE Used(b, list, s)
    BY <1>4, <1>6, <1>7 DEF Used
  <1>8. \A c \in DOMAIN nodes : /\ g[c].real = h[c].real /\ g[c].nx = h[c].nx /\ g[c].good = h[c].good
                                /\ h[c].syms \subseteq g[c].syms
    BY DEF Uses
  <1>9. \A x \in Due(program, h[Top.node]) : ToDo(program, h[Top.node], Top.todo, x) =>
             ToDo(program, h[Top.node], list, x) \/ (call'.op = "call" /\ x = CallItem')
    BY <1>2, <1>5
  <1>10. \A s : Used(h[Top.node], Top.todo, s) => Used(g[Top.node], list, s)
    BY <1>2, <1>7
  <1>11. stack' = SetTodo(list)
    BY <1>1, <1>2
  <1> QED
    BY <1>1, <1>3, <1>4, <1>8, <1>9, <1>10, <1>11, PaidTodo

\* The node on top takes into account nothing that has not been defined.
LEMMA TopGood ==
    ASSUME Types, NEW h, Graph(h), ParsedOK, FreshOK(h), Running, Dep(program, h[Top.node])
    PROVE  h[Top.node].good \subseteq symbol_table
  <1>1. Top \in Elements(stack) /\ ~Idle
    BY RunningFacts
  <1>2. PICK a : a = h[Top.node] /\ a.good = Base(program, command.d_opts, file_cache, a.real)
    BY <1>1 DEF FreshOK
  <1>3. command.d_opts \subseteq symbol_table /\ \A q \in file_cache : program[q].define \subseteq symbol_table
    BY <1>1 DEF ParsedOK
  <1>4. Base(program, command.d_opts, file_cache, a.real) \subseteq symbol_table
    BY <1>3 DEF Base
  <1> QED
    BY <1>2, <1>4

LEMMA PaidComputed ==
    ASSUME Types, NEW h, Graph(h), ParsedOK, FreshOK(h), PaidOK(h), ComputedInclude
    PROVE  PaidOK(h)'
  <1>1. /\ Running /\ Top.todo # <<>> /\ Steady /\ ~Finish /\ nodes' = nodes /\ call' = call
    BY DEF ComputedInclude, Steady, Finish, caches
  <1>2. PICK n, s0, I, list :
          /\ list \in Seq(Items) /\ n = Top.node /\ Head(Top.todo) = [mode |-> "EXPR", fp |-> s0]
          /\ stack' = SetTodo(list) /\ Elements(list) = I \cup Elements(Tail(Top.todo))
          /\ s0 \in Elements(Text(n).expr) /\ Real(n) # None
          /\ I = {[mode |-> "RESOLVED", fp |-> f] : f \in ResolveExpr(program, symbol_table, s0, Real(n).dir)}
                   \cup {[mode |-> "SUPPORT", fp |-> s0]}
    BY TypesComputed
  <1>3. PICK q, x0, rest, p, a, f0 :
          /\ q = Top.todo /\ x0 = Head(q) /\ rest = Tail(q) /\ p = program /\ a = h[n] /\ f0 = Real(n)
    OBVIOUS
  <1>4. q \in Seq(Items) /\ q # <<>> /\ n \in DOMAIN nodes /\ call'.op # "return"
    BY <1>1, <1>2, <1>3, RunningFacts DEF Running
  <1>5. Elements(q) = {x0} \cup Elements(rest) /\ Elements(list) = I \cup Elements(rest)
        /\ x0.mode = "EXPR" /\ x0.fp = s0
    BY <1>2, <1>3, <1>4, HeadElements
  <1>6. a.real = f0 /\ f0 # None
    BY <1>2, <1>3, <1>4 DEF Graph
  <1>7. a.good \subseteq symbol_table
    <2>1. p[f0].expr # <<>>
      BY <1>2, <1>3 DEF Text, Elements
    <2>2. Dep(p, a)
      BY <1>6, <2>1 DEF Dep, Depends
    <2> QED
      BY <1>1, <1>2, <1>3, <2>2, TopGood
  <1>8. PICK gd, t, d : gd = a.good /\ t = symbol_table /\ d = f0.dir
    OBVIOUS
  <1>9. ResolveExpr(p, gd, s0, d) \subseteq ResolveExpr(p, t, s0, d)
    BY <1>7, <1>8, ResolveExprMonotone
  <1>10. ASSUME NEW x \in Due(p, a), ToDo(p, a, q, x)
        PROVE  ToDo(p, a, list, x)
    <2>1. x.mode \in Mode /\ x = [mode |-> x.mode, fp |-> x.fp]
      BY DueModes
    <2>2. PICK y \in Elements(q) :
            y = x \/ (y.mode = "EXPR" /\ x.mode = "RESOLVED" /\ x.fp \in ResolveExpr(p, a.good, y.fp, a.real.dir))
      BY <1>10 DEF ToDo
    <2>3. CASE y \in Elements(rest)
      BY <1>5, <2>2, <2>3 DEF ToDo
    <2>4. CASE y = x0
      <3>1. x.mode = "RESOLVED" /\ x.fp \in ResolveExpr(p, gd, s0, d)
        BY <1>5, <1>6, <1>8, <2>1, <2>2, <2>4 DEF Mode
      <3>2. PICK e : e = x.fp /\ e \in ResolveExpr(program, symbol_table, s0, Real(n).dir)
        BY <1>3, <1>8, <1>9, <3>1
      <3>3. x = [mode |-> "RESOLVED", fp |-> e]
        BY <2>1, <3>1, <3>2
      <3>4. x \in I
        BY <1>2, <3>2, <3>3
      <3> QED
        BY <1>5, <3>4 DEF ToDo
    <2> QED
      BY <1>5, <2>3, <2>4
  <1>11. ASSUME NEW s, Used(a, q, s) PROVE Used(a, list, s)
    <2>1. PICK z : z = [mode |-> "SUPPORT", fp |-> s0]
      OBVIOUS
    <2>2. z \in Elements(list) /\ z.mode = "SUPPORT" /\ z.fp = s0
      BY <1>2, <1>5, <2>1
    <2> QED
      BY <1>5, <1>11, <2>2 DEF Used
  <1>12. \A x \in Due(program, h[Top.node]) : ToDo(program, h[Top.node], Top.todo, x) =>
             ToDo(program, h[Top.node], list, x) \/ (call'.op = "call" /\ x = CallItem')
    BY <1>2, <1>3, <1>10
  <1>13. \A s : Used(h[Top.node], Top.todo, s) => Used(h[Top.node], list, s)
    BY <1>2, <1>3, <1>11
  <1>14. list \in Seq(Items) /\ stack' = SetTodo(list)
    BY <1>2
  <1> QED
    BY <1>1, <1>4, <1>12, <1>13, <1>14, PaidTodo

\* A node is made, which is returned or for which an activation begins.
LEMMA PaidMakes ==
    ASSUME Types, Types', NEW h, Graph(h), PaidOK(h), FindNodeNext \/ FindNodeMissing \/ FindNodeMiss,
           NEW defs, NEW g, Widened(h, g, defs), ForNew(g),
           NEW todo, Covered(program, g, NewNode, {}, {}, todo),
           \/ stack' = stack /\ call' = ReturnNode(NewNode) /\ todo = <<>>
           \/ /\ call' = NoCall
              /\ \E fr \in FrameType : stack' = Append(stack, fr) /\ fr.node = NewNode /\ fr.todo = todo
    PROVE  PaidOK(g)'
  <1>1. PICK n0, top, p : n0 = NewNode /\ top = Len(stack) /\ p = program
    OBVIOUS
  <1>2. /\ NotReusable /\ call.op = "call" /\ program' = program /\ n0 \notin DOMAIN nodes
        /\ DOMAIN nodes' = DOMAIN nodes \cup {n0} /\ nodes'[n0].children = {}
        /\ \A n \in DOMAIN nodes : nodes'[n] = nodes[n] /\ (OnStack(n)' <=> OnStack(n))
    BY <1>1, MakesFacts
  <1>3. \A n \in DOMAIN nodes : /\ g[n].real = h[n].real /\ g[n].nx = h[n].nx /\ g[n].syms = h[n].syms
                                /\ OnStack(n) => g[n].good = h[n].good
                                /\ ~OnStack(n) => g[n].good = h[n].good \cup {d \in defs : d.symbol \notin h[n].syms}
    BY DEF Widened
  <1>4. /\ stack \in Seq(FrameType) /\ top \in Nat /\ DOMAIN stack = 1 .. top
        /\ \A i \in DOMAIN stack : i \in DOMAIN stack' /\ stack'[i] = stack[i]
        /\ \/ /\ Len(stack') = top /\ DOMAIN stack' = DOMAIN stack /\ call'.op = "return" /\ call'.node = n0
              /\ todo = <<>>
           \/ /\ Len(stack') = top + 1 /\ DOMAIN stack' = 1 .. top + 1 /\ call'.op = "idle"
              /\ stack'[top + 1].node = n0 /\ stack'[top + 1].todo = todo
    <2>1. stack \in Seq(FrameType) /\ top \in Nat /\ DOMAIN stack = 1 .. top
      BY <1>1 DEF Types, StackOK
    <2>2. CASE stack' = stack /\ call' = ReturnNode(NewNode) /\ todo = <<>>
      <3>1. call'.op = "return" /\ call'.node = n0
        BY <1>1, <2>2 DEF ReturnNode
      <3> QED
        BY <1>1, <2>1, <2>2, <3>1
    <2>3. ASSUME call' = NoCall, NEW fr \in FrameType, stack' = Append(stack, fr), fr.node = NewNode, fr.todo = todo
          PROVE  /\ \A i \in DOMAIN stack : i \in DOMAIN stack' /\ stack'[i] = stack[i]
                 /\ Len(stack') = top + 1 /\ DOMAIN stack' = 1 .. top + 1 /\ call'.op = "idle"
                 /\ stack'[top + 1].node = n0 /\ stack'[top + 1].todo = todo
      <3>1. /\ Len(stack') = top + 1 /\ DOMAIN stack' = 1 .. top + 1 /\ stack'[top + 1] = fr
            /\ \A i \in DOMAIN stack : stack'[i] = stack[i]
        BY <1>1, <2>1, <2>3, PushFacts
      <3>2. call'.op = "idle"
        BY <2>3 DEF NoCall
      <3> QED
        BY <1>1, <2>1, <2>3, <3>1, <3>2
    <2> QED
      BY <2>1, <2>2, <2>3
  <1>5. ASSUME NEW i \in DOMAIN stack
        PROVE  /\ stack[i].node \in DOMAIN nodes /\ OnStack(stack[i].node)
    <2>1. stack[i] \in Elements(stack)
      BY DEF Elements
    <2> QED
      BY <2>1 DEF Types, StackOK, OnStack
  <1>6. ASSUME NEW n \in DOMAIN nodes', ~OnStack(n)'
        PROVE  Covered(program', g, n, nodes'[n].children, {}, <<>>)
    <2>1. CASE n \in DOMAIN nodes
      <3>1. ~OnStack(n) /\ nodes'[n].children = nodes[n].children
        BY <1>2, <1>6, <2>1
      <3>2. g[n].good = h[n].good \cup {d \in defs : d.symbol \notin h[n].syms} /\ h[n].syms \subseteq g[n].syms
        BY <1>3, <2>1, <3>1
      <3>3. \A c \in DOMAIN nodes : g[c].real = h[c].real /\ g[c].nx = h[c].nx
        BY <1>3
      <3>4. program' = program
        BY <1>2
      <3> QED
        BY <2>1, <3>1, <3>2, <3>3, <3>4, OffKept
    <2>2. CASE n = n0
      <3>1. todo = <<>>
        <4>1. SUFFICES ASSUME todo # <<>> PROVE FALSE
          OBVIOUS
        <4>2. top + 1 \in DOMAIN stack' /\ stack'[top + 1].node = n0
          BY <1>4, <4>1
        <4> QED
          BY <1>6, <2>2, <4>2 DEF OnStack, Elements
      <3> QED
        BY <1>1, <1>2, <2>2, <3>1
    <2> QED
      BY <1>2, <2>1, <2>2
  <1>7. ASSUME NEW i \in DOMAIN stack, i # top
        PROVE  Covered(program', g, stack'[i].node, nodes'[stack'[i].node].children \cup Coming(i)', Asked(i)',
                       stack'[i].todo)
    <2>1. i < top /\ i + 1 \in DOMAIN stack /\ i \in 1 .. top /\ i < Len(stack')
      BY <1>4, <1>7
    <2>2. PICK n, m : n = stack[i].node /\ m = stack[i + 1].node /\ n \in DOMAIN nodes /\ m \in DOMAIN nodes /\ OnStack(n)
      BY <1>5, <2>1
    <2>3. Coming(i) = {m} /\ Asked(i) = {} /\ Coming(i)' = {m} /\ stack'[i] = stack[i] /\ i \in DOMAIN stack'
      <3>1. stack'[i + 1] = stack[i + 1] /\ stack'[i] = stack[i] /\ i \in DOMAIN stack'
        BY <1>4, <2>1
      <3> QED
        BY <1>1, <2>1, <2>2, <3>1 DEF Coming, Asked
    <2>4. nodes[stack[i].node].children \cup Coming(i) \subseteq nodes'[stack'[i].node].children \cup Coming(i)'
      BY <1>2, <2>2, <2>3
    <2>5. h[stack[i].node].syms \subseteq g[stack[i].node].syms /\ g[stack[i].node].good = h[stack[i].node].good
      BY <1>3, <2>2
    <2>6. \A c \in DOMAIN nodes : g[c].real = h[c].real /\ g[c].nx = h[c].nx
      BY <1>3
    <2>7. program' = program /\ Coming(i) \subseteq DOMAIN nodes
      BY <1>2, <2>2, <2>3
    <2> QED
      BY <2>3, <2>4, <2>5, <2>6, <2>7, OnKept
  <1>8. ASSUME top \in DOMAIN stack
        PROVE  Covered(program', g, stack'[top].node, nodes'[stack'[top].node].children \cup Coming(top)', Asked(top)',
                       stack'[top].todo)
    <2>1. stack # <<>> /\ Top = stack[top]
      BY <1>1, <1>8 DEF Top
    <2>2. Answers(program, g[n0], CallKey)
      BY <1>1, <1>2, NewAnswers
    <2>3. OnStack(Top.node) /\ Top.node \in DOMAIN nodes
      BY <1>5, <1>8, <2>1
    <2>4. g[Top.node].good = h[Top.node].good
      BY <1>3, <2>3
    <2>5. \A n \in DOMAIN nodes : g[n].real = h[n].real /\ g[n].nx = h[n].nx /\ g[n].syms = h[n].syms
      BY <1>3
    <2>6. Covered(program, g, Top.node, nodes[Top.node].children \cup {n0}, {}, Top.todo)
      BY <1>2, <2>1, <2>2, <2>4, <2>5, TopAnswered
    <2>7. Coming(top)' = {n0} /\ Asked(top)' = {}
      BY <1>4 DEF Coming, Asked
    <2>8. stack'[top] = Top /\ nodes'[Top.node] = nodes[Top.node]
      BY <1>2, <1>4, <1>8, <2>1, <2>3
    <2> QED
      BY <1>2, <2>6, <2>7, <2>8
  <1>9. ASSUME NEW i \in DOMAIN stack', i \notin DOMAIN stack
        PROVE  Covered(program', g, stack'[i].node, nodes'[stack'[i].node].children \cup Coming(i)', Asked(i)',
                       stack'[i].todo)
    <2>1. i = top + 1 /\ Len(stack') = top + 1 /\ call'.op = "idle" /\ stack'[i].node = n0 /\ stack'[i].todo = todo
      BY <1>4, <1>9
    <2>2. Coming(i)' = {} /\ Asked(i)' = {}
      BY <1>4, <2>1 DEF Coming, Asked
    <2>3. nodes'[stack'[i].node].children \cup Coming(i)' = {}
      BY <1>2, <2>1, <2>2
    <2> QED
      BY <1>1, <1>2, <2>1, <2>2, <2>3
  <1>10. \A i \in DOMAIN stack' :
          Covered(program', g, stack'[i].node, nodes'[stack'[i].node].children \cup Coming(i)', Asked(i)',
                  stack'[i].todo)
    BY <1>7, <1>8, <1>9
  <1> QED
    BY <1>6, <1>10 DEF PaidOK

LEMMA PaidMissing ==
    ASSUME Types, Types', NEW h, Graph(h), PaidOK(h), FindNodeMissing,
           NEW defs, NEW g, Widened(h, g, defs), ForNew(g)
    PROVE  PaidOK(g)'
  <1>1. /\ NotReusable /\ call.op = "call" /\ Target = None /\ call.mode # "NEXT"
        /\ stack' = stack /\ call' = ReturnNode(NewNode)
    BY DEF FindNodeMissing, MakesNode, NotReusable
  <1>2. PICK b, n0, todo : b = g[NewNode] /\ n0 = NewNode /\ todo = <<>>
    OBVIOUS
  <1>3. b.real = None /\ b.nx = {}
    BY <1>1, <1>2, CallKeyFacts DEF ForNew
  <1>4. Due(program, b) = {}
    BY <1>3 DEF Due, Named
  <1>5. Covered(program, g, n0, {}, {}, todo)
    BY <1>2, <1>3, <1>4 DEF Covered
  <1> QED
    BY <1>1, <1>2, <1>5, PaidMakes

LEMMA PaidNext ==
    ASSUME Types, Types', NEW h, Graph(h), PaidOK(h), FindNodeNext,
           NEW defs, NEW g, Widened(h, g, defs), ForNew(g)
    PROVE  PaidOK(g)'
  <1>1. /\ NotReusable /\ call.op = "call" /\ Target = None /\ call.mode = "NEXT" /\ call' = NoCall
    BY DEF FindNodeNext, MakesNode, NotReusable
  <1>2. PICK b, n0, x, todo, fr : /\ b = g[NewNode] /\ n0 = NewNode /\ x = call.fp /\ todo = NextIncludes(x)
                                  /\ fr = Frame(todo, TRUE)
    OBVIOUS
  <1>3. stack' = Append(stack, fr)
    BY <1>2 DEF FindNodeNext
  <1>4. fr.node = NewNode /\ fr.todo = todo /\ fr \in FrameType
    BY <1>2, <1>3, PushedType DEF Frame, Types, StackOK
  <1>5. b.real = None /\ b.nx = {x}
    BY <1>1, <1>2, CallKeyFacts DEF ForNew
  <1>6. ASSUME NEW y \in Due(program, b) PROVE ToDo(program, b, todo, y)
    <2>1. PICK f \in Named(program, {x}) : f.dir \in Elements(quote_dirs) /\ y = [mode |-> "RESOLVED", fp |-> f]
      BY <1>5 DEF Due
    <2>2. f \in DOMAIN program /\ f.name = x
      BY <2>1 DEF Named
    <2>3. f \in File
      BY <2>2, ProgramFacts DEF Types, CachesOK
    <2>4. f = [dir |-> f.dir, name |-> x]
      BY <2>2, <2>3 DEF File
    <2>5. PICK d : d = f.dir
      OBVIOUS
    <2>6. d \in Elements(quote_dirs) /\ Exists(program, d, x) /\ y = NextItem(d, x)
      BY <2>1, <2>2, <2>4, <2>5 DEF Exists, NextItem
    <2>7. PICK j \in DOMAIN todo : todo[j] = y
      BY <1>2, <2>6, NextIncludesFacts
    <2> QED
      BY <2>7 DEF ToDo, Elements
  <1>7. Covered(program, g, n0, {}, {}, todo)
    BY <1>2, <1>5, <1>6 DEF Covered
  <1> QED
    BY <1>1, <1>2, <1>3, <1>4, <1>7, PaidMakes

LEMMA PaidMiss ==
    ASSUME Types, Types', NEW h, Graph(h), PaidOK(h), FindNodeMiss,
           NEW defs, NEW g, Widened(h, g, defs), ForNew(g)
    PROVE  PaidOK(g)'
  <1>1. NotReusable /\ Target # None /\ call' = NoCall
    BY DEF FindNodeMiss, MakesNode
  <1>2. PICK b, n0, f, todo, fr : /\ b = g[NewNode] /\ n0 = NewNode /\ f = Target /\ todo = Includes(f)
                                  /\ fr = Frame(todo, FALSE)
    OBVIOUS
  <1>3. stack' = Append(stack, fr)
    BY <1>2 DEF FindNodeMiss
  <1>4. fr.node = NewNode /\ fr.todo = todo /\ fr \in FrameType
    BY <1>2, <1>3, PushedType DEF Frame, Types, StackOK
  <1>5. b.real = f /\ f # None /\ f \in DOMAIN program
    BY <1>1, <1>2, FindFacts DEF ForNew
  <1>6. Elements(todo) = IncludeItems(f)
    BY <1>2, <1>5, IncludesElements DEF Types, CachesOK
  <1>7. ASSUME NEW x \in Due(program, b) PROVE ToDo(program, b, todo, x)
    <2>1. \/ x \in Elements(todo)
          \/ \E s \in Elements(program[f].expr) : \E e :
               e \in ResolveExpr(program, b.good, s, f.dir) /\ x = [mode |-> "RESOLVED", fp |-> e]
      BY <1>5, <1>6 DEF Due, IncludeItems
    <2>2. CASE x \in Elements(todo)
      BY <2>2 DEF ToDo
    <2>3. ASSUME NEW s \in Elements(program[f].expr), NEW e, e \in ResolveExpr(program, b.good, s, f.dir),
                 x = [mode |-> "RESOLVED", fp |-> e]
          PROVE  ToDo(program, b, todo, x)
      <3>1. PICK y : y = [mode |-> "EXPR", fp |-> s]
        OBVIOUS
      <3>2. y \in Elements(todo) /\ y.mode = "EXPR" /\ y.fp = s
        BY <1>6, <3>1 DEF IncludeItems
      <3>3. x.mode = "RESOLVED" /\ x.fp = e
        BY <2>3
      <3> QED
        BY <1>5, <2>3, <3>2, <3>3 DEF ToDo
    <2> QED
      BY <2>1, <2>2, <2>3
  <1>8. ASSUME NEW s \in Elements(program[f].expr) PROVE Used(b, todo, s)
    <2>1. PICK y : y = [mode |-> "EXPR", fp |-> s]
      OBVIOUS
    <2>2. y \in Elements(todo) /\ y.mode = "EXPR" /\ y.fp = s
      BY <1>6, <2>1 DEF IncludeItems
    <2> QED
      BY <2>2 DEF Used
  <1>9. Covered(program, g, n0, {}, {}, todo)
    BY <1>2, <1>5, <1>7, <1>8 DEF Covered
  <1> QED
    BY <1>1, <1>2, <1>3, <1>4, <1>9, PaidMakes

\* Between two runs there are no activations.
LEMMA PaidRun ==
    ASSUME Types, NEW h, PaidOK(h), UNCHANGED <<program, nodes, stack>>, stack = <<>>,
           NEW defs, NEW g, Widened(h, g, defs)
    PROVE  PaidOK(g)'
  <1>1. \A n : ~OnStack(n) /\ ~OnStack(n)'
    BY DEF OnStack, Elements
  <1>2. ASSUME NEW n \in DOMAIN nodes PROVE Covered(program', g, n, nodes'[n].children, {}, <<>>)
    <2>1. \A c \in DOMAIN nodes : g[c].real = h[c].real /\ g[c].nx = h[c].nx
      BY DEF Widened
    <2>2. h[n].syms \subseteq g[n].syms /\ g[n].good = h[n].good \cup {d \in defs : d.symbol \notin h[n].syms}
      BY <1>1 DEF Widened
    <2> QED
      BY <1>1, <2>1, <2>2, OffKept
  <1> QED
    BY <1>2 DEF PaidOK

-----------------------------------------------------------------------------
(* The steps of the analysis keep the account *)

LEMMA SameItself ==
    ASSUME NEW h, Graph(h), DOMAIN nodes' = DOMAIN nodes
    PROVE  Same(h, h) /\ DOMAIN h = DOMAIN nodes'
  BY DEF Same, Graph

LEMMA FullSteady ==
    ASSUME Types, TameTree(program), NEW h, Graph(h), Full(h), Steady, NEW g, Graph(g)',
           \A n \in DOMAIN nodes : g[n].real = h[n].real /\ g[n].nx = h[n].nx /\ g[n].good = h[n].good,
           GhostOK(g)', PaidOK(g)'
    PROVE  Full(g)'
  <1>1. ParsedOK /\ ChainOK(h) /\ GhostOK(h) /\ FreshOK(h) /\ UniqueOK(h)
    BY DEF Full
  <1>2. DOMAIN h = DOMAIN nodes /\ DOMAIN g = DOMAIN nodes /\ program' = program
    BY SteadyFacts DEF Graph
  <1>3. Same(h, g)
    BY <1>2 DEF Same
  <1>4. ParsedOK'
    BY <1>1, ParsedSteady
  <1>5. ChainOK(g)'
    <2>1. DOMAIN stack' \subseteq DOMAIN stack /\ \A i \in DOMAIN stack' : stack'[i].node = stack[i].node
      BY SteadyStack
    <2> QED
      BY <1>1, <1>2, <1>3, <2>1, ChainKept
  <1>6. FreshOK(g)'
    BY <1>1, FreshSteady
  <1>7. UniqueOK(g)'
    BY <1>1, UniqueSteady
  <1> QED
    BY <1>4, <1>5, <1>6, <1>7 DEF Full

LEMMA FullStill ==
    ASSUME Types, TameTree(program), NEW h, Graph(h), Full(h),
           FindNodeHit \/ FindNodeReal \/ CallFindNode \/ ComputedInclude \/ Finish
    PROVE  Graph(h)' /\ Full(h)'
  <1>1. Steady /\ ~AddChild
    BY DEF Steady, FindNodeHit, FindNodeReal, NotReusable, CallFindNode, ComputedInclude, Finish, Running, AddChild
  <1>2. DOMAIN nodes' = DOMAIN nodes
    BY <1>1, SteadyFacts
  <1>3. Same(h, h) /\ DOMAIN h = DOMAIN nodes'
    BY <1>2, SameItself
  <1>4. Graph(h)'
    BY <1>3, GraphHit, GraphReal, GraphCall, GraphComputed, GraphFinish
  <1>5. ParsedOK /\ GhostOK(h) /\ FreshOK(h) /\ PaidOK(h)
    BY DEF Full
  <1>6. GhostOK(h)'
    BY <1>1, <1>5, GhostSteady
  <1>7. PaidOK(h)'
    BY <1>5, PaidFound, PaidCall, PaidComputed, PaidFinish
  <1> QED
    BY <1>1, <1>4, <1>6, <1>7, FullSteady

\* What h says, when the node on top uses more symbols.
Using(h, top, more) ==
    [n \in DOMAIN nodes |-> [real |-> h[n].real, nx |-> h[n].nx, good |-> h[n].good,
                             syms |-> IF n = top THEN h[n].syms \cup more ELSE h[n].syms]]

LEMMA UsingFacts ==
    ASSUME NEW h, NEW top, NEW more, DOMAIN h = DOMAIN nodes
    PROVE  \E g : DOMAIN g = DOMAIN nodes /\ Uses(h, g, top, more) /\ Same(h, g)
  <1>1. PICK g : g = Using(h, top, more)
    OBVIOUS
  <1>2. DOMAIN g = DOMAIN nodes
    BY <1>1 DEF Using
  <1>3. \A n \in DOMAIN nodes : /\ g[n].real = h[n].real /\ g[n].nx = h[n].nx /\ g[n].good = h[n].good
                               /\ g[n].syms = IF n = top THEN h[n].syms \cup more ELSE h[n].syms
    BY <1>1 DEF Using
  <1>4. Uses(h, g, top, more)
    BY <1>3 DEF Uses
  <1>5. Same(h, g)
    <2>1. ASSUME NEW n \in DOMAIN h
          PROVE  n \in DOMAIN g /\ g[n].real = h[n].real /\ g[n].nx = h[n].nx
      BY <1>2, <1>3
    <2> QED
      BY <2>1 DEF Same
  <1> QED
    BY <1>2, <1>4, <1>5

LEMMA FullUses ==
    ASSUME Types, TameTree(program), NEW h, Graph(h), Full(h), UpdateSet \/ AddChild
    PROVE  \E g : Graph(g)' /\ Full(g)'
  <1>1. Steady
    BY DEF Steady
  <1>2. DOMAIN nodes' = DOMAIN nodes /\ DOMAIN h = DOMAIN nodes
    BY <1>1, SteadyFacts DEF Graph
  <1>3. ChainOK(h) /\ GhostOK(h) /\ FreshOK(h) /\ PaidOK(h)
    BY DEF Full
  <1>4. CASE UpdateSet
    <2>1. PICK g : DOMAIN g = DOMAIN nodes /\ Uses(h, g, Top.node, {Head(Top.todo).fp}) /\ Same(h, g)
      BY <1>2, UsingFacts
    <2>2. Graph(g)'
      BY <1>2, <1>4, <2>1, GraphUpdate
    <2>3. GhostOK(g)'
      BY <1>3, <1>4, <2>1, GhostUpdate
    <2>4. PaidOK(g)'
      BY <1>3, <1>4, <2>1, PaidUpdate
    <2>5. \A n \in DOMAIN nodes : g[n].real = h[n].real /\ g[n].nx = h[n].nx /\ g[n].good = h[n].good
      BY <2>1 DEF Uses
    <2>6. Full(g)'
      BY <1>1, <2>2, <2>3, <2>4, <2>5, FullSteady
    <2> QED
      BY <2>2, <2>6
  <1>5. CASE AddChild
    <2>1. PICK g : DOMAIN g = DOMAIN nodes /\ Uses(h, g, Top.node, h[call.node].syms) /\ Same(h, g)
      BY <1>2, UsingFacts
    <2>2. Graph(g)'
      BY <1>2, <1>5, <2>1, GraphChild
    <2>3. GhostOK(g)'
      BY <1>3, <1>5, <2>1, GhostChild
    <2>4. PaidOK(g)'
      BY <1>3, <1>5, <2>1, PaidChild
    <2>5. \A n \in DOMAIN nodes : g[n].real = h[n].real /\ g[n].nx = h[n].nx /\ g[n].good = h[n].good
      BY <2>1 DEF Uses
    <2>6. Full(g)'
      BY <1>1, <2>2, <2>3, <2>4, <2>5, FullSteady
    <2> QED
      BY <2>2, <2>6
  <1> QED
    BY <1>4, <1>5

\* What g says: what h does, when definitions are added, and a of a new node.
IsWider(g, h, defs, new, a) ==
    g = [n \in DOMAIN nodes \cup new |->
        IF n \in new THEN a
        ELSE [real |-> h[n].real, nx |-> h[n].nx, syms |-> h[n].syms,
              good |-> IF OnStack(n) THEN h[n].good
                       ELSE h[n].good \cup {d \in defs : d.symbol \notin h[n].syms}]]

New(new) == \A n \in new : n \notin DOMAIN nodes

LEMMA WiderFacts ==
    ASSUME NEW h, Graph(h), NEW defs, NEW new, NEW a, New(new),
           NEW g, IsWider(g, h, defs, new, a)
    PROVE  /\ \A n : n \in DOMAIN g <=> n \in DOMAIN nodes \/ n \in new
           /\ Widened(h, g, defs) /\ Same(h, g)
  <1>2. DOMAIN g = DOMAIN nodes \cup new
    BY DEF IsWider, New
  <1>3. \A n \in DOMAIN nodes :
          /\ g[n].real = h[n].real /\ g[n].nx = h[n].nx /\ g[n].syms = h[n].syms
          /\ g[n].good = IF OnStack(n) THEN h[n].good
                         ELSE h[n].good \cup {d \in defs : d.symbol \notin h[n].syms}
    BY DEF IsWider, New
  <1>5. DOMAIN h = DOMAIN nodes
    BY DEF Graph
  <1> QED
    BY <1>2, <1>3, <1>5 DEF Widened, Same

\* What is said of the new node: so far it has used no symbol.
About(good) == [real |-> Target, nx |-> KeyNext(CallKey), syms |-> {}, good |-> good]

LEMMA WiderNew ==
    ASSUME Types, NEW h, Graph(h), MakesNode, NEW defs, NEW good,
           NEW g, IsWider(g, h, defs, {NewNode}, About(good))
    PROVE  /\ DOMAIN g = DOMAIN nodes' /\ Widened(h, g, defs) /\ Same(h, g) /\ ForNew(g)
           /\ g[NewNode].syms = {} /\ g[NewNode].good = good
  <1>1. PICK a : a = About(good)
    OBVIOUS
  <1>2. DOMAIN nodes' = DOMAIN nodes \cup {NewNode} /\ NewNode \notin DOMAIN nodes /\ DOMAIN h = DOMAIN nodes
    BY NewNodeFacts, NodesType DEF Types, Graph
  <1>3. PICK new : new = {NewNode}
    OBVIOUS
  <1>4. New(new)
    BY <1>2, <1>3 DEF New
  <1>5. /\ \A n : n \in DOMAIN g <=> n \in DOMAIN nodes \/ n \in new
        /\ Widened(h, g, defs) /\ Same(h, g)
    <2>1. IsWider(g, h, defs, new, a)
      BY <1>1, <1>3
    <2> QED
      BY <1>2, <1>4, <2>1, WiderFacts
  <1>6. g[NewNode] = a
    BY <1>1 DEF IsWider
  <1>7. g[NewNode].real = Target /\ g[NewNode].nx = KeyNext(CallKey) /\ g[NewNode].syms = {} /\ g[NewNode].good = good
    BY <1>1, <1>6 DEF About
  <1> QED
    BY <1>2, <1>3, <1>5, <1>7 DEF ForNew

LEMMA MakesChain ==
    ASSUME Types, Types', NEW h, Graph(h), ChainOK(h), FindNodeNext \/ FindNodeMissing \/ FindNodeMiss,
           NEW g, Same(h, g), ForNew(g)
    PROVE  ChainOK(g)'
  <1>1. MakesNode /\ program' = program
        /\ (stack' = stack \/ \E fr \in FrameType : stack' = Append(stack, fr) /\ fr.node = NewNode)
    BY MakesFacts
  <1>2. CASE stack' = stack
    BY <1>1, <1>2, ChainKept
  <1>3. CASE \E fr \in FrameType : stack' = Append(stack, fr) /\ fr.node = NewNode
    <2>1. PICK fr \in FrameType : stack' = Append(stack, fr) /\ fr.node = NewNode
      BY <1>3
    <2> QED
      BY <1>1, <2>1, ChainPush
  <1> QED
    BY <1>1, <1>2, <1>3

\* A node that stands for no file.
LEMMA FullNone ==
    ASSUME Types, Types', TameTree(program), NEW h, Graph(h), Full(h), FindNodeNext \/ FindNodeMissing
    PROVE  \E g : Graph(g)' /\ Full(g)'
  <1>1. ParsedOK /\ ChainOK(h) /\ GhostOK(h) /\ FreshOK(h) /\ PaidOK(h) /\ UniqueOK(h)
    BY DEF Full
  <1>2. MakesNode /\ program' = program
    BY MakesFacts
  <1>3. PICK defs : defs = {}
    OBVIOUS
  <1>31. PICK g : IsWider(g, h, defs, {NewNode}, About(Definition))
    BY DEF IsWider
  <1>4. /\ DOMAIN g = DOMAIN nodes' /\ Widened(h, g, defs) /\ Same(h, g) /\ ForNew(g)
        /\ g[NewNode].syms = {} /\ g[NewNode].good = Definition
    BY <1>2, <1>31, WiderNew
  <1>5. Graph(g)'
    BY <1>4, GraphNext, GraphMissing
  <1>6. ParsedOK'
    BY <1>1, ParsedMakes
  <1>7. ChainOK(g)'
    BY <1>1, <1>4, MakesChain
  <1>8. GhostOK(g)'
    <2>1. defs \in SUBSET Definition /\ g[NewNode].good \subseteq Definition
      BY <1>3, <1>4
    <2> QED
      BY <1>1, <1>4, <2>1, GhostMakes
  <1>9. FreshOK(g)'
    <2>1. \A n \in DOMAIN nodes : g[n].real = h[n].real /\ g[n].good = h[n].good
      BY <1>3, <1>4 DEF Widened
    <2> QED
      BY <1>1, <1>4, <2>1, FreshMakes
  <1>10. PaidOK(g)'
    BY <1>1, <1>4, PaidNext, PaidMissing
  <1>11. UniqueOK(g)'
    BY <1>1, <1>4, UniqueMakes
  <1> QED
    BY <1>5, <1>6, <1>7, <1>8, <1>9, <1>10, <1>11 DEF Full

LEMMA BaseType ==
    ASSUME NEW p \in Programs, NEW d \in SUBSET Definition, NEW c \in SUBSET DOMAIN p, NEW f
    PROVE  Base(p, d, c, f) \subseteq Definition
  <1>1. \A q \in DOMAIN p : p[q].define \subseteq Definition
    BY ProgramFacts
  <1> QED
    BY <1>1 DEF Base

\* A node for a file.
LEMMA FullMiss ==
    ASSUME Types, Types', TameTree(program), NEW h, Graph(h), Full(h), FindNodeMiss
    PROVE  \E g : Graph(g)' /\ Full(g)'
  <1>1. ParsedOK /\ ChainOK(h) /\ GhostOK(h) /\ FreshOK(h) /\ PaidOK(h) /\ UniqueOK(h)
    BY DEF Full
  <1>2. MakesNode /\ NotReusable /\ program' = program /\ ~Idle
    BY MakesFacts
  <1>3. Target \in DOMAIN program /\ program \in Programs /\ file_cache \subseteq DOMAIN program /\ Target # None
    BY <1>2, FindFacts DEF FindNodeMiss, Types, CachesOK
  <1>4. command.d_opts \subseteq Definition
    BY <1>2, RootsFacts, CommandFacts
  <1>5. PICK defs : defs = IF Parsed THEN {} ELSE program[Target].define
    OBVIOUS
  <1>6. defs \in SUBSET Definition
    BY <1>3, <1>5, ProgramFacts
  <1>7. PICK base : base = Base(program, command.d_opts, file_cache \cup {Target}, Target)
    OBVIOUS
  <1>8. base \subseteq Definition
    <2>1. command.d_opts \in SUBSET Definition /\ file_cache \cup {Target} \in SUBSET DOMAIN program
      BY <1>3, <1>4
    <2> QED
      BY <1>3, <1>7, <2>1, BaseType
  <1>9. PICK good : good = IF Depends(program, Target) THEN base ELSE Definition
    OBVIOUS
  <1>91. PICK g : IsWider(g, h, defs, {NewNode}, About(good))
    BY DEF IsWider
  <1>10. /\ DOMAIN g = DOMAIN nodes' /\ Widened(h, g, defs) /\ Same(h, g) /\ ForNew(g)
         /\ g[NewNode].syms = {} /\ g[NewNode].good = good
    BY <1>2, <1>91, WiderNew
  <1>11. Graph(g)'
    BY <1>10, GraphMiss
  <1>12. ParsedOK'
    BY <1>1, ParsedMiss
  <1>13. ChainOK(g)'
    BY <1>1, <1>10, MakesChain
  <1>14. GhostOK(g)'
    <2>1. g[NewNode].good \subseteq Definition
      BY <1>8, <1>9, <1>10
    <2>2. ~Dep(program, g[NewNode]) => g[NewNode].good = Definition
      BY <1>3, <1>9, <1>10 DEF Dep, ForNew
    <2> QED
      BY <1>1, <1>6, <1>10, <2>1, <2>2, GhostMakes
  <1>15. FreshOK(g)'
    <2>1. Depends(program, Target) =>
            g[NewNode].good = Base(program, command.d_opts, file_cache \cup {Target}, Target)
      BY <1>7, <1>9, <1>10
    <2> QED
      BY <1>1, <1>5, <1>10, <2>1, FreshMiss
  <1>16. PaidOK(g)'
    BY <1>1, <1>10, PaidMiss
  <1>17. UniqueOK(g)'
    BY <1>1, <1>10, UniqueMakes
  <1> QED
    BY <1>11, <1>12, <1>13, <1>14, <1>15, <1>16, <1>17 DEF Full

LEMMA FullRequest ==
    ASSUME Types, Types', NEW h, Graph(h), Full(h), NEW c \in Commands, Request(c)
    PROVE  \E g : Graph(g)' /\ Full(g)'
  <1>1. ParsedOK /\ ChainOK(h) /\ GhostOK(h) /\ FreshOK(h) /\ PaidOK(h) /\ UniqueOK(h)
    BY DEF Full
  <1>2. UNCHANGED <<program, file_cache, node_cache, nodes, stack>> /\ stack = <<>>
    BY RequestRun
  <1>3. PICK defs : defs = c.d_opts
    OBVIOUS
  <1>4. PICK new : new = {}
    OBVIOUS
  <1>5. New(new)
    BY <1>4 DEF New
  <1>51. PICK g : IsWider(g, h, defs, new, None)
    BY DEF IsWider
  <1>6. (\A n : n \in DOMAIN g <=> n \in DOMAIN nodes \/ n \in new) /\ Widened(h, g, defs) /\ Same(h, g)
    BY <1>5, <1>51, WiderFacts
  <1>7. DOMAIN g = DOMAIN nodes'
    BY <1>2, <1>4, <1>6
  <1>8. Graph(g)'
    BY <1>6, <1>7, GraphRequest
  <1>9. ParsedOK'
    BY <1>1, ParsedRequest
  <1>10. ChainOK(g)'
    BY <1>1, <1>2, <1>6, ChainKept
  <1>11. GhostOK(g)' /\ FreshOK(g)'
    BY <1>1, <1>3, <1>6, GhostRequest, FreshRequest
  <1>12. PaidOK(g)'
    BY <1>1, <1>2, <1>6, PaidRun
  <1>13. UniqueOK(g)'
    <2>1. \A n \in DOMAIN nodes : g[n].real = h[n].real /\ nodes'[n].support_record = nodes[n].support_record
      BY <1>2, <1>6 DEF Widened
    <2> QED
      BY <1>1, <1>2, <2>1, UniqueKept
  <1> QED
    BY <1>8, <1>9, <1>10, <1>11, <1>12, <1>13 DEF Full

LEMMA FullRootDone ==
    ASSUME Types, Types', NEW h, Graph(h), Full(h), RootDone
    PROVE  Graph(h)' /\ Full(h)'
  <1>1. ParsedOK /\ ChainOK(h) /\ GhostOK(h) /\ FreshOK(h) /\ PaidOK(h) /\ UniqueOK(h)
    BY DEF Full
  <1>2. UNCHANGED <<program, file_cache, node_cache, nodes, stack>> /\ stack = <<>>
    BY RootRun
  <1>3. Same(h, h) /\ DOMAIN h = DOMAIN nodes'
    BY <1>2, SameItself
  <1>4. Graph(h)'
    BY <1>3, GraphRootDone
  <1>5. ParsedOK' /\ GhostOK(h)' /\ FreshOK(h)'
    BY <1>1, ParsedRootDone, GhostRootDone, FreshRootDone
  <1>6. ChainOK(h)'
    BY <1>1, <1>2, <1>3, ChainKept
  <1>7. PaidOK(h)'
    <2>1. PICK defs : defs = {}
      OBVIOUS
    <2>2. \A n \in DOMAIN nodes : ~OnStack(n)
      BY <1>2 DEF OnStack, Elements
    <2>3. \A n \in DOMAIN nodes : h[n].good = h[n].good \cup {d \in defs : d.symbol \notin h[n].syms}
      BY <2>1
    <2>4. Widened(h, h, defs)
      BY <2>2, <2>3 DEF Widened
    <2> QED
      BY <1>1, <1>2, <2>4, PaidRun
  <1>8. UniqueOK(h)'
    BY <1>1, <1>2, UniqueKept
  <1> QED
    BY <1>4, <1>5, <1>6, <1>7, <1>8 DEF Full

\* The account that can be given of the nodes, in a tame program, if no request
\* was left with its nodes in the caches.
Sound == TameProgram /\ ~partial => \E h : Graph(h) /\ Full(h)

LEMMA FullCleared ==
    ASSUME file_cache = {}, nodes = <<>>, node_cache = Empty, stack = <<>>, call = NoCall, NEW h, DOMAIN h = {}
    PROVE  Graph(h) /\ Full(h)
  <1>1. Graph(h)
    BY GraphCleared
  <1>2. ParsedOK
    BY DEF ParsedOK, Idle
  <1>3. ChainOK(h) /\ GhostOK(h) /\ FreshOK(h) /\ PaidOK(h)
    BY DEF ChainOK, GhostOK, FreshOK, PaidOK, Empty, Elements, NoCall
  <1>4. UniqueOK(h)
    BY DEF UniqueOK, KeysUnique, RecordsUnique, Empty
  <1> QED
    BY <1>1, <1>2, <1>3, <1>4 DEF Full

LEMMA FullClear ==
    ASSUME TimeOut \/ StatReset
    PROVE  \E h : Graph(h)' /\ Full(h)'
  <1>1. file_cache' = {} /\ nodes' = <<>> /\ node_cache' = Empty /\ stack' = <<>> /\ call' = NoCall
    BY DEF TimeOut, StatReset, ClearStatCaches, Idle
  <1>2. PICK h : h = [k \in {} |-> 0]
    OBVIOUS
  <1>3. DOMAIN h = {}
    BY <1>2
  <1>4. Graph(h)'
    BY <1>1, <1>3 DEF Graph, EdgesOK, KeysOK, FramesOK, CallsOK, Elements, NoCall, Empty
  <1>5. ParsedOK'
    BY <1>1 DEF ParsedOK, Idle
  <1>6. ChainOK(h)' /\ GhostOK(h)' /\ FreshOK(h)' /\ PaidOK(h)'
    BY <1>1 DEF ChainOK, GhostOK, FreshOK, PaidOK, Empty, Elements, NoCall
  <1>7. UniqueOK(h)'
    BY <1>1 DEF UniqueOK, KeysUnique, RecordsUnique, Empty
  <1> QED
    BY <1>4, <1>5, <1>6, <1>7 DEF Full

LEMMA FullStutter ==
    ASSUME NEW h, Full(h), UNCHANGED vars
    PROVE  Full(h)'
  <1>1. UNCHANGED <<program, file_cache, symbol_table, node_cache, nodes, records, stack, call, command, roots>>
    BY DEF vars, caches, request
  <1>2. ParsedOK' /\ ChainOK(h)'
    BY <1>1 DEF Full, ParsedOK, ChainOK, Idle, Current, Real
  <1>3. GhostOK(h)'
    BY <1>1 DEF Full, GhostOK, Support, OnStack
  <1>4. FreshOK(h)'
    BY <1>1 DEF Full, FreshOK, Valid
  <1>5. PaidOK(h)'
    BY <1>1 DEF Full, PaidOK, OnStack, Coming, Asked, CallItem
  <1>6. UniqueOK(h)'
    BY <1>1 DEF Full, UniqueOK, KeysUnique, RecordsUnique, Known
  <1> QED
    BY <1>2, <1>3, <1>4, <1>5, <1>6 DEF Full

LEMMA SoundInit == Init => Sound
  <1> SUFFICES ASSUME Init PROVE Sound
    OBVIOUS
  <1>1. PICK h : h = [k \in {} |-> 0]
    OBVIOUS
  <1>2. DOMAIN h = {}
    BY <1>1
  <1>3. Graph(h) /\ Full(h)
    BY <1>2, FullCleared DEF Init
  <1> QED
    BY <1>3 DEF Sound

LEMMA SoundStep ==
    ASSUME Types, Sound, [Next]_vars
    PROVE  Sound'
  <1>1. SUFFICES ASSUME TameProgram', ~partial' PROVE \E h : Graph(h)' /\ Full(h)'
    BY DEF Sound
  <1>2. Types'
    BY TypesStep
  <1>3. CASE TimeOut \/ StatReset
    BY <1>3, FullClear
  <1>4. ASSUME program' = program, partial' = partial
        PROVE  TameTree(program) /\ \E h : Graph(h) /\ Full(h)
    <2>1. TameProgram /\ ~partial
      BY <1>1, <1>4 DEF TameProgram
    <2> QED
      BY <2>1, TameIs DEF Sound
  <1>5. CASE FindNodeHit \/ FindNodeReal \/ CallFindNode \/ ComputedInclude \/ Finish
    <2>1. program' = program /\ partial' = partial
      BY <1>5 DEF FindNodeHit, FindNodeReal, CallFindNode, ComputedInclude, Finish, request
    <2>2. PICK h : Graph(h) /\ Full(h)
      BY <1>4, <2>1
    <2> QED
      BY <1>4, <1>5, <2>1, <2>2, FullStill
  <1>6. CASE UpdateSet \/ AddChild
    <2>1. program' = program /\ partial' = partial
      BY <1>6 DEF UpdateSet, AddChild, request
    <2>2. PICK h : Graph(h) /\ Full(h)
      BY <1>4, <2>1
    <2> QED
      BY <1>4, <1>6, <2>1, <2>2, FullUses
  <1>7. CASE FindNodeNext \/ FindNodeMissing
    <2>1. program' = program /\ partial' = partial
      BY <1>7 DEF FindNodeNext, FindNodeMissing, request
    <2>2. PICK h : Graph(h) /\ Full(h)
      BY <1>4, <2>1
    <2> QED
      BY <1>2, <1>4, <1>7, <2>1, <2>2, FullNone
  <1>8. CASE FindNodeMiss
    <2>1. program' = program /\ partial' = partial
      BY <1>8 DEF FindNodeMiss, request
    <2>2. PICK h : Graph(h) /\ Full(h)
      BY <1>4, <2>1
    <2> QED
      BY <1>2, <1>4, <1>8, <2>1, <2>2, FullMiss
  <1>9. CASE Leaves \/ ComputedNotCovered
    <2>1. partial' = TRUE
      BY <1>9, LeavesParse DEF ComputedNotCovered, LeaveFindNode
    <2> QED
      BY <1>1, <2>1
  <1>10. CASE RootDone
    <2>1. program' = program /\ partial' = partial
      BY <1>10 DEF RootDone
    <2>2. PICK h : Graph(h) /\ Full(h)
      BY <1>4, <2>1
    <2> QED
      BY <1>2, <1>10, <2>2, FullRootDone
  <1>11. ASSUME NEW c \in Commands, Request(c) PROVE \E h : Graph(h)' /\ Full(h)'
    <2>1. program' = program /\ partial' = partial
      BY <1>11 DEF Request
    <2>2. PICK h : Graph(h) /\ Full(h)
      BY <1>4, <2>1
    <2> QED
      BY <1>2, <1>11, <2>2, FullRequest
  <1>12. CASE UNCHANGED vars
    <2>1. program' = program /\ partial' = partial
      BY <1>12 DEF vars, request
    <2>2. PICK h : Graph(h) /\ Full(h)
      BY <1>4, <2>1
    <2> QED
      BY <1>12, <2>2, FullStutter, GraphStutter
  <1> QED
    BY <1>3, <1>5, <1>6, <1>7, <1>8, <1>9, <1>10, <1>11, <1>12 DEF Next, Analyze, FindNode, Leaves

-----------------------------------------------------------------------------
(* The closure has every file that the compiler needs *)

\* A child was found for everything that is due.
LEMMA PaidDue ==
    ASSUME NEW h, PaidOK(h), stack = <<>>, NEW n \in DOMAIN nodes, NEW x \in Due(program, h[n])
    PROVE  \E c \in nodes[n].children : Answers(program, h[c], KeyFrom(h[n].real, x))
  <1>1. ~OnStack(n)
    BY DEF OnStack, Elements
  <1>2. Covered(program, h, n, nodes[n].children, {}, <<>>)
    BY <1>1 DEF PaidOK
  <1>3. ~ToDo(program, h[n], <<>>, x)
    BY DEF ToDo, Elements
  <1> QED
    BY <1>2, <1>3 DEF Covered, Got

LEMMA KeyFromReal ==
    ASSUME NEW p, NEW f, NEW x, NEW y, x = [mode |-> x.mode, fp |-> y]
    PROVE  /\ x.mode = "RESOLVED" => KeyReal(p, KeyFrom(f, x)) = y
           /\ x.mode \in {"QUOTE", "ANGLE"} => KeyReal(p, KeyFrom(f, x)) = Resolvant(p, x.mode, y, f.dir)
           /\ x.mode = "NEXT" => KeyReal(p, KeyFrom(f, x)) = None /\ KeyNext(KeyFrom(f, x)) = {y}
  <1>1. x.fp = y
    OBVIOUS
  <1>2. CASE x.mode = "RESOLVED"
    BY <1>1, <1>2 DEF KeyReal, KeyFrom, Key, Resolvant
  <1>3. CASE x.mode = "QUOTE"
    BY <1>1, <1>3 DEF KeyReal, KeyFrom, Key
  <1>4. CASE x.mode = "ANGLE"
    BY <1>1, <1>4 DEF KeyReal, KeyFrom, Key
  <1>5. CASE x.mode = "NEXT"
    BY <1>1, <1>5 DEF KeyReal, KeyNext, KeyFrom, Key, Resolvant
  <1> QED
    BY <1>2, <1>3, <1>4, <1>5

\* A child of node m, or of a dummy below it, stands for file e.
StoodFor(h, m, e) ==
    \E c \in nodes[m].children : h[c].real = e \/ \E b \in nodes[c].children : h[b].real = e

\* What a file includes, by definitions that its node takes into account, a
\* descendant of the node stands for.
LEMMA PaidFor ==
    ASSUME Types, NEW h, Graph(h), PaidOK(h), stack = <<>>, NEW m \in DOMAIN nodes, NEW f, f = h[m].real, f # None,
           NEW D, D \subseteq h[m].good, NEW e \in IncludedBy(program, f, D)
    PROVE  StoodFor(h, m, e)
  <1>1. PICK a : a = h[m]
    OBVIOUS
  <1>2. a.real = f /\ e # None
    BY <1>1 DEF IncludedBy
  <1>3. CASE \E x \in Elements(program[f].quote) : e = Resolvant(program, "QUOTE", x, f.dir)
    <2>1. PICK x \in Elements(program[f].quote) : e = Resolvant(program, "QUOTE", x, f.dir)
      BY <1>3
    <2>2. PICK y : y = [mode |-> "QUOTE", fp |-> x]
      OBVIOUS
    <2>3. y \in Due(program, h[m])
      BY <1>1, <1>2, <2>1, <2>2 DEF Due
    <2>4. PICK c \in nodes[m].children : Answers(program, h[c], KeyFrom(f, y))
      BY <2>3, PaidDue
    <2>5. y = [mode |-> y.mode, fp |-> x] /\ y.mode = "QUOTE"
      BY <2>2
    <2>6. KeyReal(program, KeyFrom(f, y)) = e
      BY <2>1, <2>5, KeyFromReal
    <2> QED
      BY <2>4, <2>6 DEF Answers, StoodFor
  <1>4. CASE \E x \in Elements(program[f].angle) : e = Resolvant(program, "ANGLE", x, f.dir)
    <2>1. PICK x \in Elements(program[f].angle) : e = Resolvant(program, "ANGLE", x, f.dir)
      BY <1>4
    <2>2. PICK y : y = [mode |-> "ANGLE", fp |-> x]
      OBVIOUS
    <2>3. y \in Due(program, h[m])
      BY <1>1, <1>2, <2>1, <2>2 DEF Due
    <2>4. PICK c \in nodes[m].children : Answers(program, h[c], KeyFrom(f, y))
      BY <2>3, PaidDue
    <2>5. y = [mode |-> y.mode, fp |-> x] /\ y.mode = "ANGLE"
      BY <2>2
    <2>6. KeyReal(program, KeyFrom(f, y)) = e
      BY <2>1, <2>5, KeyFromReal
    <2> QED
      BY <2>4, <2>6 DEF Answers, StoodFor
  <1>5. CASE \E s \in Elements(program[f].expr) : e \in ResolveExpr(program, D, s, f.dir)
    <2>1. PICK s \in Elements(program[f].expr) : e \in ResolveExpr(program, D, s, f.dir)
      BY <1>5
    <2>2. PICK y : y = [mode |-> "RESOLVED", fp |-> e]
      OBVIOUS
    <2>3. e \in ResolveExpr(program, a.good, s, f.dir)
      BY <1>1, <2>1, ResolveExprMonotone
    <2>4. y \in Due(program, h[m])
      BY <1>1, <1>2, <2>1, <2>2, <2>3 DEF Due
    <2>5. PICK c \in nodes[m].children : Answers(program, h[c], KeyFrom(f, y))
      BY <2>4, PaidDue
    <2>6. y = [mode |-> y.mode, fp |-> e] /\ y.mode = "RESOLVED"
      BY <2>2
    <2>7. KeyReal(program, KeyFrom(f, y)) = e
      BY <2>6, KeyFromReal
    <2> QED
      BY <2>5, <2>7 DEF Answers, StoodFor
  <1>6. CASE \E x \in Elements(program[f].next) : e = Resolve(program, x, After(f.dir))
    <2>1. PICK x \in Elements(program[f].next) : e = Resolve(program, x, After(f.dir))
      BY <1>6
    <2>2. PICK y : y = [mode |-> "NEXT", fp |-> x]
      OBVIOUS
    <2>3. y \in Due(program, h[m])
      BY <1>1, <1>2, <2>1, <2>2 DEF Due
    <2>4. PICK c \in nodes[m].children : Answers(program, h[c], KeyFrom(f, y))
      BY <2>3, PaidDue
    <2>5. y = [mode |-> y.mode, fp |-> x] /\ y.mode = "NEXT"
      BY <2>2
    <2>6. h[c].real = None /\ h[c].nx = {x}
      BY <2>4, <2>5, KeyFromReal DEF Answers
    <2>7. c \in DOMAIN nodes
      BY DEF Types, CachesOK
    <2>8. PICK d : d = f.dir
      OBVIOUS
    <2>9. e \in Named(program, {x}) /\ e.dir \in Elements(quote_dirs)
      BY <1>2, <2>1, <2>8, NextFile
    <2>10. PICK z : z = [mode |-> "RESOLVED", fp |-> e]
      OBVIOUS
    <2>11. z \in Due(program, h[c])
      BY <2>6, <2>9, <2>10 DEF Due
    <2>12. PICK b \in nodes[c].children : Answers(program, h[b], KeyFrom(h[c].real, z))
      BY <2>7, <2>11, PaidDue
    <2>13. z = [mode |-> z.mode, fp |-> e] /\ z.mode = "RESOLVED"
      BY <2>10
    <2>14. PICK o : o = h[c].real
      OBVIOUS
    <2>15. KeyReal(program, KeyFrom(o, z)) = e
      BY <2>13, KeyFromReal
    <2> QED
      BY <2>12, <2>14, <2>15 DEF Answers, StoodFor
  <1> QED
    BY <1>3, <1>4, <1>5, <1>6 DEF IncludedBy

\* The definitions for the root of the run are among those that its node takes
\* into account.
LEMMA RootGood ==
    ASSUME Types, Tame, NEW h, Graph(h), Full(h), call.op = "return", stack = <<>>
    PROVE  Defined(Current) \subseteq h[call.node].good
  <1>1. ~Idle /\ call.node \in DOMAIN nodes
    BY ReturnFacts
  <1>2. PICK i : i = Current
    OBVIOUS
  <1>3. PICK f : f = command.roots[i]
    OBVIOUS
  <1>4. PICK n : n = call.node
    OBVIOUS
  <1>5. /\ command \in Commands /\ i \in DOMAIN command.roots /\ i \in Nat
        /\ \A j \in 1 .. i : command.roots[j] \in DOMAIN program /\ j \in DOMAIN command.roots
    BY <1>1, <1>2, RootsFacts
  <1>6. f \in DOMAIN program /\ program \in Programs /\ f # None
    <2>1. f \in DOMAIN program /\ program \in Programs
      BY <1>1, <1>2, <1>3, RootsFacts DEF Types, CachesOK
    <2> QED
      BY <2>1, ProgramFacts
  <1>7. n \in DOMAIN nodes /\ h[n].real = f /\ Real(n) = f
    BY <1>1, <1>2, <1>3, <1>4 DEF Graph, CallsOK
  <1>8. command.d_opts \subseteq Definition /\ \A q \in DOMAIN program : program[q].define \subseteq Definition
    BY <1>5, <1>6, CommandFacts, ProgramFacts
  <1>9. CASE Depends(program, f)
    <2>1. Base(program, command.d_opts, file_cache, f) \subseteq h[n].good
      BY <1>4, <1>6, <1>7, <1>9 DEF Full, FreshOK, Dep
    <2>2. ASSUME NEW j \in 1 .. i PROVE command.roots[j] \in file_cache \ Below(program, f)
      <3>1. CASE j = i
        <4>1. f \in file_cache
          BY <1>6, <1>7 DEF Full, ParsedOK
        <4>2. f \notin Below(program, f)
          BY <1>6, <1>9 DEF Tame, TameProgram
        <4> QED
          BY <1>3, <3>1, <4>1, <4>2
      <3>2. CASE j # i
        <4>1. j \in 1 .. i - 1
          BY <1>5, <2>2, <3>2
        <4>2. command.roots[j] \in file_cache
          BY <1>1, <1>2, <4>1 DEF Full, ParsedOK
        <4>3. command.roots[j] \notin Below(program, f)
          BY <1>3, <1>5, <1>9, <4>1 DEF Tame, TameCommand
        <4> QED
          BY <4>2, <4>3
      <3> QED
        BY <3>1, <3>2
    <2>3. Defined(i) \subseteq Base(program, command.d_opts, file_cache, f)
      BY <2>2 DEF Defined, Base
    <2> QED
      BY <1>2, <1>4, <2>1, <2>3
  <1>10. CASE ~Depends(program, f)
    <2>1. h[n].good = Definition
      BY <1>7, <1>10 DEF Full, GhostOK, Dep
    <2>2. Defined(i) \subseteq Definition
      BY <1>5, <1>8 DEF Defined
    <2> QED
      BY <1>2, <1>4, <2>1, <2>2
  <1> QED
    BY <1>9, <1>10

\* Whatever definitions a node takes into account, its descendants do too.
LEMMA ReachableGood ==
    ASSUME Types, NEW h, GhostOK(h), NEW n \in DOMAIN nodes, NEW D, D \subseteq h[n].good
    PROVE  \A m \in Reachable(n) : D \subseteq h[m].good
  <1> DEFINE X == {m \in DOMAIN nodes : D \subseteq h[m].good}
  <1>1. n \in X
    OBVIOUS
  <1>2. ASSUME NEW m \in X, NEW c \in nodes[m].children PROVE c \in X
    <2>1. c \in DOMAIN nodes
      BY DEF Types, CachesOK
    <2>2. h[m].good \subseteq h[c].good
      BY DEF GhostOK
    <2> QED
      BY <2>1, <2>2
  <1>3. X \subseteq DOMAIN nodes
    OBVIOUS
  <1> HIDE DEF X
  <1>4. Reachable(n) \subseteq X
    <2> DEFINE S == DOMAIN nodes
               succ == [m \in S |-> nodes[m].children]
               start == {n}
    <2>1. IsFiniteSet(S)
      <3>1. S = 1 .. Len(nodes) /\ Len(nodes) \in Nat
        BY NodesType DEF Types
      <3> QED
        BY <3>1, FS_Interval
    <2>2. \A m \in S : nodes[m].children \in SUBSET S
      BY DEF Types, CachesOK
    <2>3. succ \in [S -> SUBSET S] /\ DOMAIN succ = S /\ \A m \in S : succ[m] = nodes[m].children
      BY <2>2
    <2>4. X \subseteq S
      BY <1>3
    <2>5. start \subseteq X /\ Reachable(n) = Closure(start, succ)
      BY <1>1 DEF Reachable
    <2> HIDE DEF succ, S, start
    <2>6. IsClosed(X, succ)
      BY <1>2, <2>3 DEF IsClosed
    <2> QED
      BY <2>1, <2>3, <2>4, <2>5, <2>6, ClosureLeast
  <1> QED
    BY <1>4 DEF X

\* The files that can be reached from the root are closed under includes.
LEMMA RootClosed ==
    ASSUME Types, NEW h, Graph(h), GhostOK(h), PaidOK(h), stack = <<>>, NEW n \in DOMAIN nodes,
           NEW D, D \subseteq h[n].good, NEW f \in IncludeClosure(n), NEW e \in IncludedBy(program, f, D)
    PROVE  e \in IncludeClosure(n)
  <1>1. /\ Reachable(n) \subseteq DOMAIN nodes
        /\ \A m \in Reachable(n) : nodes[m].children \subseteq Reachable(n)
        /\ \A m \in Reachable(n) : Real(m) # None => Real(m) \in IncludeClosure(n)
    BY ReachableType DEF Types
  <1>2. PICK m \in Reachable(n) : Real(m) = f /\ f # None
    BY DEF IncludeClosure, Real
  <1>3. m \in DOMAIN nodes /\ f = h[m].real
    BY <1>1, <1>2 DEF Graph
  <1>4. D \subseteq h[m].good
    BY <1>2, ReachableGood
  <1>40. PICK k \in DOMAIN nodes : k = m
    BY <1>3
  <1>41. f = h[k].real /\ f # None /\ D \subseteq h[k].good
    BY <1>2, <1>3, <1>4, <1>40
  <1>5. StoodFor(h, k, e)
    BY <1>40, <1>41, PaidFor
  <1>6. \A b \in Reachable(n) : h[b].real = Real(b)
    BY <1>1 DEF Graph
  <1>7. e # None
    BY DEF IncludedBy
  <1> QED
    BY <1>1, <1>2, <1>40, <1>5, <1>6, <1>7 DEF StoodFor

LEMMA RootComplete ==
    ASSUME Types, Tame, NEW h, Graph(h), Full(h), call.op = "return", stack = <<>>
    PROVE  NeededFor(Current) \subseteq IncludeClosure(call.node)
  <1>1. ~Idle /\ call.node \in DOMAIN nodes
    BY ReturnFacts
  <1>2. PICK n \in DOMAIN nodes : n = call.node
    BY <1>1
  <1>3. PICK D : D = Defined(Current)
    OBVIOUS
  <1>4. D \subseteq h[n].good
    BY <1>2, <1>3, RootGood
  <1>5. GhostOK(h) /\ PaidOK(h)
    BY DEF Full
  <1>6. program \in Programs /\ IsFiniteSet(DOMAIN program) /\ None \notin DOMAIN program
    BY ProgramFacts DEF Types, CachesOK
  <1> DEFINE S == DOMAIN program
             succ == [f \in S |-> IncludedBy(program, f, D)]
             start == {command.roots[Current]}
             X == IncludeClosure(n)
  <1>7. \A f \in S : IncludedBy(program, f, D) \in SUBSET S
    <2>1. \A f \in S : MayInclude(program, f, D) \subseteq S
      BY <1>6, MayIncludeType
    <2> QED
      BY <2>1 DEF MayInclude
  <1>8. succ \in [S -> SUBSET S] /\ DOMAIN succ = S /\ \A f \in S : succ[f] = IncludedBy(program, f, D)
    BY <1>7
  <1>9. start \subseteq X
    <2>1. h[n].real = command.roots[Current] /\ command.roots[Current] \in DOMAIN program
      BY <1>1, <1>2, RootsFacts DEF Graph, CallsOK
    <2>2. Real(n) # None /\ Real(n) = command.roots[Current]
      BY <1>6, <2>1 DEF Graph
    <2> QED
      BY <2>2, ReachableType DEF Types
  <1>10. X \subseteq S
    BY ReachableType DEF Types
  <1>11. \A f \in X : IncludedBy(program, f, D) \subseteq X
    BY <1>4, <1>5, RootClosed
  <1>12. NeededFor(Current) = Closure(start, succ)
    BY <1>3 DEF NeededFor
  <1>13. IsFiniteSet(S)
    BY <1>6
  <1> HIDE DEF S, succ, start, X
  <1>14. IsClosed(X, succ)
    BY <1>8, <1>11 DEF IsClosed
  <1>15. Closure(start, succ) \subseteq X
    BY <1>8, <1>9, <1>10, <1>13, <1>14, ClosureLeast
  <1> QED
    BY <1>2, <1>12, <1>15 DEF X

LEMMA NeedsSame ==
    ASSUME UNCHANGED <<program, command>>
    PROVE  /\ Tame' <=> Tame
           /\ \A i : NeededFor(i)' = NeededFor(i)
           /\ Needed' = Needed
  <1>1. program' = program /\ command' = command
    OBVIOUS
  <1>2. Tame' <=> Tame
    BY <1>1 DEF Tame, TameProgram, TameCommand
  <1>3. \A i : Defined(i)' = Defined(i)
    BY <1>1 DEF Defined
  <1>4. \A i : NeededFor(i)' = NeededFor(i)
    BY <1>1, <1>3 DEF NeededFor
  <1>5. Needed' = Needed
    BY <1>1, <1>4 DEF Needed
  <1> QED
    BY <1>2, <1>4, <1>5

\* A run has ended.
LEMMA CompleteRootDone ==
    ASSUME Types, Sound, CompleteOK, RootDone
    PROVE  CompleteOK'
  <1>1. /\ ~Idle /\ stack = <<>> /\ call.op = "return" /\ UNCHANGED <<program, command>>
        /\ closure' = closure \cup IncludeClosure(call.node) /\ partial' = partial
        /\ roots = <<>> => call' = NoCall /\ stack' = <<>> /\ answer' = "closure"
        /\ roots # <<>> => Current' = Current + 1 /\ answer' = "none"
    BY TypesRootDone
  <1>2. (Tame' <=> Tame) /\ (\A i : NeededFor(i)' = NeededFor(i)) /\ Needed' = Needed
    BY <1>1, NeedsSame
  <1>3. SUFFICES ASSUME Tame, ~partial PROVE CompleteOK'
    BY <1>1, <1>2 DEF CompleteOK
  <1>4. PICK h : Graph(h) /\ Full(h)
    BY <1>3 DEF Sound, Tame
  <1>5. NeededFor(Current) \subseteq IncludeClosure(call.node)
    BY <1>1, <1>3, <1>4, RootComplete
  <1>6. Current \in Nat /\ (roots = <<>> => DOMAIN command.roots = 1 .. Current)
    BY <1>1, RootsFacts
  <1>7. \A i \in 1 .. Current : NeededFor(i) \subseteq closure'
    <2>1. \A i \in 1 .. Current - 1 : NeededFor(i) \subseteq closure
      BY <1>1, <1>3 DEF CompleteOK
    <2>2. ASSUME NEW i \in 1 .. Current PROVE NeededFor(i) \subseteq closure'
      <3>1. i = Current \/ i \in 1 .. Current - 1
        BY <1>6
      <3> QED
        BY <1>1, <1>5, <2>1, <3>1
    <2> QED
      BY <2>2
  <1>8. CASE roots = <<>>
    <2>1. Needed \subseteq closure'
      BY <1>6, <1>7, <1>8 DEF Needed
    <2>2. Idle'
      BY <1>1, <1>8 DEF Idle
    <2> QED
      BY <1>2, <2>1, <2>2 DEF CompleteOK
  <1>9. CASE roots # <<>>
    <2>1. Current' - 1 = Current /\ answer' = "none"
      BY <1>1, <1>6, <1>9
    <2> QED
      BY <1>2, <1>7, <2>1 DEF CompleteOK
  <1> QED
    BY <1>8, <1>9

LEMMA CompleteKept ==
    ASSUME CompleteOK, UNCHANGED <<program, command, roots, closure, answer, partial>>, Idle => Idle'
    PROVE  CompleteOK'
  <1>1. (Tame' <=> Tame) /\ (\A i : NeededFor(i)' = NeededFor(i)) /\ Needed' = Needed
    BY NeedsSame
  <1>2. Current' = Current
    BY DEF Current
  <1> QED
    BY <1>1, <1>2 DEF CompleteOK

LEMMA CompleteStep ==
    ASSUME Types, Sound, CompleteOK, [Next]_vars
    PROVE  CompleteOK'
  <1>1. Types'
    BY TypesStep
  <1>2. CASE RootDone
    BY <1>2, CompleteRootDone
  <1>3. CASE Steady
    <2>1. ~Idle /\ UNCHANGED <<program, request>>
      BY <1>3, SteadyFacts
    <2> QED
      BY <2>1, CompleteKept DEF request
  <1>4. CASE FindNodeNext \/ FindNodeMissing \/ FindNodeMiss
    <2>1. ~Idle /\ UNCHANGED <<program, request>>
      BY <1>1, <1>4, MakesFacts
    <2> QED
      BY <2>1, CompleteKept DEF request
  <1>5. CASE Leaves \/ ComputedNotCovered \/ TimeOut
    <2>1. Idle' /\ answer' = "not_covered"
      BY <1>5, LeavesParse DEF ComputedNotCovered, LeaveFindNode, TimeOut, Idle
    <2> QED
      BY <2>1 DEF CompleteOK
  <1>6. CASE StatReset
    <2>1. Idle' /\ answer' = "none"
      BY <1>6 DEF StatReset, Idle
    <2> QED
      BY <2>1 DEF CompleteOK
  <1>7. ASSUME NEW c \in Commands, Request(c) PROVE CompleteOK'
    <2>1. Current' = 1 /\ answer' = "none"
      BY <1>7, TypesRequest DEF Request
    <2>2. 1 .. Current' - 1 = {}
      BY <2>1
    <2> QED
      BY <2>1, <2>2 DEF CompleteOK
  <1>8. CASE UNCHANGED vars
    <2>1. UNCHANGED <<program, command, roots, closure, answer, partial, stack, call>>
      BY <1>8 DEF vars, request
    <2>2. Idle => Idle'
      BY <2>1 DEF Idle
    <2> QED
      BY <2>1, <2>2, CompleteKept
  <1> QED
    BY <1>2, <1>3, <1>4, <1>5, <1>6, <1>7, <1>8 DEF Next, Analyze, FindNode, Steady, Leaves

\* The memoization is sound: for a tame source tree and command line the answer
\* has every file that the compiler reads, although nodes are reused across the
\* requests of a build, under other -D options and after timeouts that cleared
\* the caches, as long as the caches have no node of a request that was left
\* otherwise (FindNode, SupportMaster.InvalidateRecords, DoCompilationCommand).
THEOREM CompleteCorrect == Spec => []ClosureComplete
  <1>1. Init => Types /\ Sound /\ CompleteOK
    <2>1. Init => CompleteOK
      BY DEF Init, CompleteOK, Idle
    <2> QED
      BY <2>1, TypesInit, SoundInit
  <1>2. (Types /\ Sound /\ CompleteOK) /\ [Next]_vars => (Types /\ Sound /\ CompleteOK)'
    BY TypesStep, SoundStep, CompleteStep
  <1>3. CompleteOK => ClosureComplete
    BY DEF CompleteOK, ClosureComplete
  <1> QED
    BY <1>1, <1>2, <1>3, PTL DEF Spec
=============================================================================
