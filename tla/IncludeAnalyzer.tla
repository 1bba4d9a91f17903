--------------------------- MODULE IncludeAnalyzer ---------------------------
(***************************************************************************)
(* The include server's analysis (include_analyzer_memoizing_node.py):     *)
(* FindNode builds one graph of nodes for all the translation units of a   *)
(* build, keeps each node under the key of the #include that led to it and *)
(* rebuilds it when a symbol that a computed include below it depends on   *)
(* is defined anew.  The answer to a request, the files to send to the     *)
(* compilation server, is what can be reached from the node of the source. *)
(*                                                                         *)
(* FindNode is recursive: here it has an explicit stack, one step per call *)
(* and per return, between which the analysis may be cut short by an       *)
(* include it does not cover or by the timer.                              *)
(***************************************************************************)
EXTENDS Integers, Sequences, FiniteSets

CONSTANTS
    Name,        \* include paths
    quote_dirs,  \* directories searched, in order; they include angle_dirs
    angle_dirs,
    Symbol,      \* macros that computed includes may use
    Absolute,    \* names that are absolute paths, as the value of a macro may be
    Programs,    \* source trees: the files that exist and what they contain
    Commands,    \* compilations: [roots, d_opts]
    MaxRequests, \* bound: requests of one build
    Faults       \* what may go wrong

Dirs == {quote_dirs[i] : i \in DOMAIN quote_dirs} \cup {angle_dirs[i] : i \in DOMAIN angle_dirs}
File == [dir : Dirs, name : Name]
Definition == [symbol : Symbol, value : Name]
Contents == [quote : Seq(Name), angle : Seq(Name), expr : Seq(Symbol),
             next : Seq(Name), define : SUBSET Definition, absolute : BOOLEAN]

NoDir == "none"
None == [dir |-> NoDir, name |-> "none"]

ASSUME IncludeAssumption ==
    /\ NoDir \notin Dirs
    /\ quote_dirs \in Seq(Dirs) /\ angle_dirs \in Seq(Dirs)
    /\ \A p \in Programs : /\ DOMAIN p \subseteq File /\ IsFiniteSet(DOMAIN p)
                           /\ \A f \in DOMAIN p : p[f] \in Contents
    /\ \A c \in Commands : /\ c.roots \in Seq(File) /\ c.roots # <<>>
                           /\ c.d_opts \subseteq Definition
    /\ Absolute \subseteq Name /\ MaxRequests \in Nat
    /\ Faults \subseteq {"timeout", "stat_reset"}

VARIABLES
    program,      \* the source tree
    file_cache,   \* files that have been parsed
    symbol_table, \* all the definitions seen: symbols have many values
    node_cache,   \* nodes_for_incl_config: key |-> node
    nodes,        \* every node made: [real, children, support_record]
    records,      \* every SupportRecord: [support, valid]
    stack,        \* activations of FindNode
    call,         \* the call or the return being made
    command,      \* the request being answered
    roots,        \* files of its command line still to be analyzed
    closure,      \* files found for it so far
    answer,       \* "none", "not_covered" or "closure"
    requests,     \* number of requests so far
    partial       \* whether a request was left with its nodes in the caches

caches == <<file_cache, symbol_table, node_cache, nodes, records>>
request == <<command, roots, closure, answer, requests, partial>>
vars == <<program, caches, stack, call, request>>

Mode == {"RESOLVED", "QUOTE", "ANGLE", "NEXT"}
NoCall == [op |-> "idle"]
FindNodeCall(mode, fp, dir) == [op |-> "call", mode |-> mode, fp |-> fp, dir |-> dir]
ReturnNode(n) == [op |-> "return", node |-> n]
Empty == [k \in {} |-> 0]

TypeOK ==
    /\ file_cache \subseteq File
    /\ symbol_table \subseteq Definition
    /\ \A k \in DOMAIN node_cache : node_cache[k] \in DOMAIN nodes
    /\ \A n \in DOMAIN nodes : /\ nodes[n].real \in File \cup {None}
                               /\ nodes[n].children \subseteq DOMAIN nodes
                               /\ nodes[n].support_record \in DOMAIN records
    /\ records \in Seq([support : SUBSET Symbol, valid : BOOLEAN])
    /\ \A i \in DOMAIN stack : stack[i].node \in DOMAIN nodes
    /\ call.op = "return" => call.node \in DOMAIN nodes
    /\ closure \subseteq File /\ answer \in {"none", "not_covered", "closure"}
    /\ requests \in 0..MaxRequests /\ partial \in BOOLEAN

Init ==
    /\ program \in Programs
    /\ file_cache = {} /\ symbol_table = {}
    /\ node_cache = Empty /\ nodes = <<>> /\ records = <<>>
    /\ stack = <<>> /\ call = NoCall
    /\ command = None /\ roots = <<>> /\ closure = {} /\ answer = "none" /\ requests = 0
    /\ partial = FALSE

-----------------------------------------------------------------------------
(* Looking up files *)

Exists(p, d, n) == [dir |-> d, name |-> n] \in DOMAIN p

\* Resolve: the file n of the first directory that has one.
Resolve(p, n, dirs) ==
    IF \E i \in DOMAIN dirs : Exists(p, dirs[i], n)
    THEN LET first == CHOOSE i \in DOMAIN dirs :
                        /\ Exists(p, dirs[i], n)
                        /\ \A j \in 1..(i - 1) : ~Exists(p, dirs[j], n)
         IN  [dir |-> dirs[first], name |-> n]
    ELSE None

\* How FindNode resolves fp: a quoted include is first looked for in the
\* directory of the file that has it.
Resolvant(p, mode, fp, dir) ==
    CASE mode = "QUOTE"    -> Resolve(p, fp, <<dir>> \o quote_dirs)
      [] mode = "ANGLE"    -> Resolve(p, fp, angle_dirs)
      [] mode = "RESOLVED" -> fp
      [] mode = "NEXT"     -> None

\* ResolveExpr: the files that the possible values of a symbol stand for.
ResolveExpr(p, table, s, dir) ==
    {Resolve(p, d.value, <<dir>> \o quote_dirs) : d \in {x \in table : x.symbol = s}}
        \ {None}

-----------------------------------------------------------------------------
(* Symbols *)

\* SupportMaster.InvalidateRecords, for each of the symbols.
InvalidateRecords_Forgotten(recs, symbols) == recs \* fault model: no callback
InvalidateRecords(recs, symbols) ==
    [r \in DOMAIN recs |->
        [recs[r] EXCEPT !.valid = @ /\ recs[r].support \cap symbols = {}]]

\* SupportRecord.Update
Update(recs, r, symbols) == [recs EXCEPT ![r].support = @ \cup symbols]

Symbols(defs) == {d.symbol : d \in defs}

-----------------------------------------------------------------------------
(* FindNode *)

\* The directory matters for the resolution of a quoted include.
Key_NoDir(mode, fp, dir) == <<mode, fp>> \* fault model: file_dir_idx left out
Key(mode, fp, dir) == <<mode, fp, dir>>
RealKey(f) == <<"REAL", f, f.dir>>

\* What is left to do for the includes of a file, in the order of FindNode.
Tagged(mode, seq) == [i \in DOMAIN seq |-> [mode |-> mode, fp |-> seq[i]]]
Includes(f) ==
    Tagged("QUOTE", program[f].quote) \o Tagged("ANGLE", program[f].angle)
        \o Tagged("EXPR", program[f].expr) \o Tagged("NEXT", program[f].next)

\* For #include_next: the file in each and every directory.
NextIncludes(n) ==
    LET found[i \in 0..Len(quote_dirs)] ==
          IF i = 0 THEN <<>>
          ELSE IF Exists(program, quote_dirs[i], n)
               THEN Append(found[i - 1],
                           [mode |-> "RESOLVED", fp |-> [dir |-> quote_dirs[i], name |-> n]])
               ELSE found[i - 1]
    IN  found[Len(quote_dirs)]

CallKey == Key(call.mode, call.fp, call.dir)
Valid(n) == records[nodes[n].support_record].valid
Known(k) == k \in DOMAIN node_cache
Remember(cache, k, n) == [x \in DOMAIN cache \cup {k} |-> IF x = k THEN n ELSE cache[x]]

\* fault model: a node whose children are still being found is waited for
FindNodeHit_Finished ==
    /\ call.op = "call" /\ Known(CallKey) /\ Valid(node_cache[CallKey])
    /\ \A i \in DOMAIN stack : stack[i].node # node_cache[CallKey]
    /\ call' = ReturnNode(node_cache[CallKey])
    /\ UNCHANGED <<program, caches, stack, request>>

\* The key is known and its support record valid: reuse the node.
FindNodeHit ==
    /\ call.op = "call" /\ Known(CallKey) /\ Valid(node_cache[CallKey])
    /\ call' = ReturnNode(node_cache[CallKey])
    /\ UNCHANGED <<program, caches, stack, request>>

\* Otherwise make a node, for the old record if there is one, and enter it
\* under its key before anything is known of its children.
OldNode == node_cache[CallKey]
Record_NotReused == Len(records) + 1 \* fault model: a record that was not made
Record == IF Known(CallKey) THEN nodes[OldNode].support_record ELSE Len(records) + 1
Records == IF Known(CallKey) THEN records
           ELSE Append(records, [support |-> {}, valid |-> TRUE])
Target == IF Known(CallKey) THEN nodes[OldNode].real
          ELSE Resolvant(program, call.mode, call.fp, call.dir)
NewNode == Len(nodes) + 1
NotReusable == call.op = "call" /\ ~(Known(CallKey) /\ Valid(node_cache[CallKey]))
MakesNode ==
    /\ NotReusable
    /\ nodes' = Append(nodes, [real |-> Target, children |-> {}, support_record |-> Record])
Registered(cache, k, n) == Remember(cache, k, n)
Frame(todo, dummy) == [node |-> NewNode, todo |-> todo, dummy |-> dummy]

\* #include_next: a dummy node, whose children are all the possible files.
FindNodeNext ==
    /\ MakesNode /\ Target = None /\ call.mode = "NEXT"
    /\ node_cache' = Registered(node_cache, CallKey, NewNode)
    /\ records' = Records
    /\ stack' = Append(stack, Frame(NextIncludes(call.fp), TRUE))
    /\ call' = NoCall
    /\ UNCHANGED <<program, file_cache, symbol_table, request>>

\* The file does not exist.
FindNodeMissing ==
    /\ MakesNode /\ Target = None /\ call.mode # "NEXT"
    /\ node_cache' = Registered(node_cache, CallKey, NewNode)
    /\ records' = Records
    /\ call' = ReturnNode(NewNode)
    /\ UNCHANGED <<program, file_cache, symbol_table, stack, request>>

\* The file is known under its real name: use that node, and drop the new one.
KnownByRealName ==
    call.mode # "RESOLVED" /\ Known(RealKey(Target)) /\ Records[Record].valid
FindNodeReal ==
    /\ NotReusable /\ Target # None /\ KnownByRealName
    /\ node_cache' = Remember(node_cache, CallKey, node_cache[RealKey(Target)])
    /\ records' = Records
    /\ call' = ReturnNode(node_cache[RealKey(Target)])
    /\ UNCHANGED <<program, file_cache, symbol_table, nodes, stack, request>>

\* A miss: the record is valid again and the file is parsed, unless it has
\* been; its definitions are entered and invalidate other nodes.
MissedCache ==
    LET keyed == Registered(node_cache, CallKey, NewNode)
    IN  IF call.mode = "RESOLVED" THEN keyed
        ELSE Registered(keyed, RealKey(Target), NewNode)
Enter(defs, told) ==
    /\ symbol_table' = symbol_table \cup defs
    /\ records' = InvalidateRecords([Records EXCEPT ![Record].valid = TRUE], Symbols(told))
Define(defs) == Enter(defs, defs)
Parsed == Target \in file_cache
FindNodeMiss ==
    /\ MakesNode /\ Target # None /\ ~KnownByRealName
    /\ Parsed \/ ~program[Target].absolute
    /\ node_cache' = MissedCache
    /\ file_cache' = file_cache \cup {Target}
    /\ Define(IF Parsed THEN {} ELSE program[Target].define)
    /\ stack' = Append(stack, Frame(Includes(Target), FALSE))
    /\ call' = NoCall
    /\ UNCHANGED <<program, request>>

\* The analysis is left inside FindNode by a plain NotCoveredError: the handler
\* answers with an empty list, and the caches stay as they are.
LeaveFindNode ==
    /\ stack' = <<>> /\ call' = NoCall
    /\ answer' = "not_covered" /\ partial' = TRUE
    /\ UNCHANGED <<program, command, roots, closure, requests>>

\* ... inside Parse: after some definitions, told to the support master or not.
StartsParse == NotReusable /\ Target # None /\ ~KnownByRealName /\ ~Parsed
LeaveParse(defs, told) ==
    /\ MakesNode /\ node_cache' = MissedCache
    /\ Enter(defs, told)
    /\ LeaveFindNode /\ UNCHANGED file_cache

\* An absolute include path: RelpathMapToIndex.Index raises NotCoveredError.
FindNodeNotCovered ==
    /\ StartsParse /\ program[Target].absolute
    /\ \E defs \in SUBSET program[Target].define : LeaveParse(defs, defs)

\* SIGALRM while _ParseFine handles a directive: the NotCoveredTimeOutError is
\* raised anew as a NotCoveredError.  The last definition may be in the table
\* without its callback having been made.
ParseTimeOut ==
    /\ "timeout" \in Faults /\ StartsParse
    /\ Includes(Target) # <<>> \/ program[Target].define # {}
    /\ \E defs \in SUBSET program[Target].define : \E told \in SUBSET defs :
         Cardinality(defs \ told) <= 1 /\ LeaveParse(defs, told)

FindNode ==
    \/ FindNodeHit \/ FindNodeNext \/ FindNodeMissing \/ FindNodeReal
    \/ FindNodeMiss \/ FindNodeNotCovered

-----------------------------------------------------------------------------
(* The activation on top of the stack *)

Top == stack[Len(stack)]
TopRecord == nodes[Top.node].support_record
SetTodo(todo) == [stack EXCEPT ![Len(stack)].todo = todo]
Running == call.op = "idle" /\ stack # <<>>

\* The next include is looked up, from the directory of this file.
CallFindNode ==
    /\ Running /\ Top.todo # <<>> /\ Head(Top.todo).mode \in Mode
    /\ LET inc == Head(Top.todo)
       IN  call' = FindNodeCall(inc.mode, inc.fp,
                     IF inc.mode = "RESOLVED" THEN NoDir ELSE nodes[Top.node].real.dir)
    /\ stack' = SetTodo(Tail(Top.todo))
    /\ UNCHANGED <<program, caches, request>>

\* A computed include: all the files its symbol may stand for, in any order,
\* and then the symbol becomes part of the support ...
Orders(S) == {q \in [1..Cardinality(S) -> S] : \A i, j \in DOMAIN q : q[i] = q[j] => i = j}
AbsoluteValue(s) == \E d \in symbol_table : d.symbol = s /\ d.value \in Absolute
ComputedInclude ==
    /\ Running /\ Top.todo # <<>> /\ Head(Top.todo).mode = "EXPR"
    /\ ~AbsoluteValue(Head(Top.todo).fp)
    /\ LET s == Head(Top.todo).fp
       IN  \E q \in Orders(ResolveExpr(program, symbol_table, s, nodes[Top.node].real.dir)) :
             stack' = SetTodo(Tagged("RESOLVED", q) \o <<[mode |-> "SUPPORT", fp |-> s]>>
                                \o Tail(Top.todo))
    /\ UNCHANGED <<program, caches, call, request>>

\* ... unless one of them is an absolute path.
ComputedNotCovered ==
    /\ Running /\ Top.todo # <<>> /\ Head(Top.todo).mode = "EXPR"
    /\ AbsoluteValue(Head(Top.todo).fp)
    /\ LeaveFindNode /\ UNCHANGED caches

UpdateSet ==
    /\ Running /\ Top.todo # <<>> /\ Head(Top.todo).mode = "SUPPORT"
    /\ records' = Update(records, TopRecord, {Head(Top.todo).fp})
    /\ stack' = SetTodo(Tail(Top.todo))
    /\ UNCHANGED <<program, file_cache, symbol_table, node_cache, nodes, call, request>>

Finish ==
    /\ Running /\ Top.todo = <<>>
    /\ call' = ReturnNode(Top.node)
    /\ stack' = SubSeq(stack, 1, Len(stack) - 1)
    /\ UNCHANGED <<program, caches, request>>

\* The node is a child of the caller's, whose support grows with it, except
\* that of a dummy.
AddChild ==
    /\ call.op = "return" /\ stack # <<>>
    /\ nodes' = [nodes EXCEPT ![Top.node].children = @ \cup {call.node}]
    /\ records' = IF Top.dummy THEN records
                  ELSE Update(records, TopRecord, records[nodes[call.node].support_record].support)
    /\ call' = NoCall
    /\ UNCHANGED <<program, file_cache, symbol_table, node_cache, stack, request>>

-----------------------------------------------------------------------------
(* Requests *)

\* RunAlgorithm for the next file of the command line (-include files, then
\* the source): the -D options are entered first.
RunAlgorithm(file, d_opts) ==
    /\ symbol_table' = symbol_table \cup d_opts
    /\ records' = InvalidateRecords(records, Symbols(d_opts))
    /\ call' = FindNodeCall("RESOLVED", file, NoDir)
    /\ UNCHANGED <<file_cache, node_cache, nodes>>

Idle == stack = <<>> /\ call = NoCall

Request(c) ==
    /\ Idle /\ requests < MaxRequests
    /\ \A i \in DOMAIN c.roots : c.roots[i] \in DOMAIN program
    /\ command' = c /\ roots' = Tail(c.roots) /\ closure' = {} /\ answer' = "none" /\ requests' = requests + 1
    /\ RunAlgorithm(Head(c.roots), c.d_opts)
    /\ UNCHANGED <<program, stack, partial>>

\* All that can be reached from the set start by the edges of the graph succ.
Closure(start, succ) ==
    LET reach[i \in 0..Cardinality(DOMAIN succ)] ==
          IF i = 0 THEN start
          ELSE LET r == reach[i - 1] IN r \cup UNION {succ[x] : x \in r}
    IN  reach[Cardinality(DOMAIN succ)]

\* _CalculateIncludeClosureExceptSystem
Reachable(n) == Closure({n}, [m \in DOMAIN nodes |-> nodes[m].children])
IncludeClosure(n) == {nodes[m].real : m \in Reachable(n)} \ {None}

\* The root of one algorithm run: on to the next file, or answer.
RootDone ==
    /\ call.op = "return" /\ stack = <<>>
    /\ closure' = closure \cup IncludeClosure(call.node)
    /\ IF roots # <<>>
       THEN /\ RunAlgorithm(Head(roots), command.d_opts)
            /\ roots' = Tail(roots) /\ UNCHANGED answer
       ELSE /\ call' = NoCall /\ answer' = "closure"
            /\ UNCHANGED <<caches, roots>>
    /\ UNCHANGED <<program, stack, command, requests, partial>>

ClearStatCaches ==
    /\ file_cache' = {} /\ symbol_table' = {}
    /\ node_cache' = Empty /\ nodes' = <<>> /\ records' = <<>>
    /\ partial' = FALSE

\* SIGALRM elsewhere: NotCoveredTimeOutError, after which the caches are dropped.
TimeOut ==
    /\ "timeout" \in Faults /\ ~Idle
    /\ ClearStatCaches
    /\ stack' = <<>> /\ call' = NoCall
    /\ answer' = "not_covered"
    /\ UNCHANGED <<program, command, roots, closure, requests>>

\* DoStatResetTriggers: a watched path has changed, and with it the sources.
StatReset ==
    /\ "stat_reset" \in Faults /\ Idle /\ requests < MaxRequests
    /\ program' \in Programs \ {program}
    /\ ClearStatCaches
    /\ answer' = "none"
    /\ UNCHANGED <<stack, call, command, roots, closure, requests>>

Analyze ==
    \/ FindNode \/ CallFindNode \/ ComputedInclude \/ ComputedNotCovered \/ UpdateSet
    \/ Finish \/ AddChild \/ RootDone

Next == Analyze \/ (\E c \in Commands : Request(c)) \/ TimeOut \/ ParseTimeOut \/ StatReset

Spec == Init /\ [][Next]_vars

\* The server runs; that the timer expires is not assumed.
FairSpec == Spec /\ WF_vars(Analyze)

-----------------------------------------------------------------------------
(* What the preprocessor reads, to compare with *)

\* The file of #include_next: in the directories after that of the includer.
After(d) ==
    IF \E i \in DOMAIN quote_dirs : quote_dirs[i] = d
    THEN SubSeq(quote_dirs, (CHOOSE i \in DOMAIN quote_dirs : quote_dirs[i] = d) + 1,
                Len(quote_dirs))
    ELSE quote_dirs

Elements(q) == {q[i] : i \in DOMAIN q}

\* The files that f includes in the source tree p when the symbols have the
\* values of table.
IncludedBy(p, f, table) ==
    ({Resolvant(p, "QUOTE", n, f.dir) : n \in Elements(p[f].quote)}
     \cup {Resolvant(p, "ANGLE", n, f.dir) : n \in Elements(p[f].angle)}
     \cup (UNION {ResolveExpr(p, table, s, f.dir) : s \in Elements(p[f].expr)})
     \cup {Resolve(p, n, After(f.dir)) : n \in Elements(p[f].next)})
    \ {None}

\* What the compiler surely needs: symbols have their values from the command
\* line, from the files given with -include so far and from the file itself.
Defined(i) == command.d_opts \cup UNION {program[command.roots[j]].define : j \in 1..i}
NeededFor(i) ==
    Closure({command.roots[i]},
            [f \in DOMAIN program |-> IncludedBy(program, f, Defined(i))])
Needed == UNION {NeededFor(i) : i \in DOMAIN command.roots}

\* All that could be included, by any definition seen in the build; what an
\* #include_next means is left open.
MayInclude(p, f, table) ==
    IncludedBy(p, f, table) \cup {g \in DOMAIN p : g.name \in Elements(p[f].next)}
Possible ==
    Closure(Elements(command.roots),
            [f \in DOMAIN program |-> MayInclude(program, f, symbol_table)])

\* The files below f, whatever the symbols are; and whether f has or leads to a
\* computed include.
AllDefinitions(p) == (UNION {p[f].define : f \in DOMAIN p}) \cup (UNION {c.d_opts : c \in Commands})
Below(p, f) ==
    Closure(MayInclude(p, f, AllDefinitions(p)),
            [g \in DOMAIN p |-> MayInclude(p, g, AllDefinitions(p))])
Depends(p, f) == \E g \in {f} \cup Below(p, f) : p[g].expr # <<>>

\* The keys under which the #includes of all files look for f.
Keys(p, f) ==
    {k \in UNION {{"QUOTE"} \X Elements(p[g].quote) \X {g.dir}
                 \cup {"ANGLE"} \X Elements(p[g].angle) \X {g.dir} : g \in DOMAIN p} :
        Resolvant(p, k[1], k[2], k[3]) = f}

\* No file that depends on computed includes is known under two keys, below
\* itself, or the target of #include_next; and none on the command line has above
\* it, with -include, a file that it includes too.  Without any one of the four
\* the memoization is not sound.
TameProgram ==
    \A f \in DOMAIN program : Depends(program, f) =>
        /\ \A k, l \in Keys(program, f) : k = l
        /\ f \notin Below(program, f)
        /\ \A g \in DOMAIN program : f.name \notin Elements(program[g].next)
TameCommand ==
    \A i \in DOMAIN command.roots : Depends(program, command.roots[i]) =>
        \A j \in 1..(i - 1) : command.roots[j] \notin Below(program, command.roots[i])
Tame == TameProgram /\ TameCommand

-----------------------------------------------------------------------------
(* Properties *)

\* Reusing nodes across the requests of a build is sound: the answer has every
\* file the compiler will read, although nodes were built for other sources,
\* under other -D options or before the sources changed, and after timeouts that
\* cleared the caches, as long as they have no node of a request that was left
\* otherwise.  (FindNode, for the programs and commands of Tame.)
ClosureComplete ==
    (answer = "closure" /\ Tame /\ ~partial) => Needed \subseteq closure

\* Nor does a reused node bring in a file that nothing could include: a quoted
\* include found from one directory is not taken for that of another.
ClosureTight == answer = "closure" => closure \subseteq Possible

\* FindNode ends for cyclic includes too, because a node is entered before its
\* children: every request gets an answer, with or without the timer.
EveryRequestAnswered == ~Idle ~> (Idle /\ answer # "none")

-----------------------------------------------------------------------------
(* What comments say that the code does not do *)

\* include_server.py:446: "No exception raised, include closure can be
\* trusted."  A request that failed, or that the timer ended while a file was
\* parsed, has left unfinished nodes in the cache.
ClosureTrusted ==
    answer = "closure" =>
        Needed \subseteq closure /\ \A f \in Needed : ~program[f].absolute

=============================================================================
