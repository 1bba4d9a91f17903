---------------------------- MODULE CleanupProofs ----------------------------
(***************************************************************************)
(* The properties of Cleanup for any set of paths, any length of the first *)
(* array, and any number of signals and children.                          *)
(***************************************************************************)
EXTENDS Cleanup, TLAPS

Frame == [pc : {"clean", "unlinked", "counted"}, i : Int]

Types ==
    /\ todo \in Seq(Paths)
    /\ cleanups \in Arrays /\ live \subseteq Arrays
    /\ cleanups_size \in Nat /\ n_cleanups \in Nat
    /\ i \in Int
    /\ DOMAIN cells = Arrays
    /\ handlers \in Seq(Frame)

\* The list below n_cleanups.
ListOK ==
    \A j \in 0 .. n_cleanups - 1 :
        /\ cleanups \in live /\ j \in DOMAIN cells[cleanups]
        /\ cells[cleanups][j] \in Paths /\ j \in names

\* What the main program knows of the array at each step, as long as it has
\* not been interrupted: a handler never returns to it.
MainOK ==
    /\ n_cleanups <= cleanups_size
    /\ pc # "swapped" /\ cleanups_size > 0 =>
           cleanups \in live /\ DOMAIN cells[cleanups] = 0 .. cleanups_size - 1
    /\ pc \in AddSteps => todo # <<>>
    /\ pc = "grown" =>
           /\ cleanups + 1 \in live /\ DOMAIN cells[cleanups + 1] = 0 .. NewSize - 1
           /\ \A j \in 0 .. n_cleanups - 1 : cells[cleanups + 1][j] = cells[cleanups][j]
    /\ pc = "swapped" => cleanups \in live /\ DOMAIN cells[cleanups] = 0 .. NewSize - 1
    /\ pc \in {"resized", "dup", "store", "count"} => n_cleanups < cleanups_size
    /\ pc \in {"store", "count"} => n_cleanups \in names
    /\ pc = "count" => cells[cleanups][n_cleanups] = Path
    /\ pc = "clean" => i = n_cleanups - 1
    /\ pc = "unlinked" => i = n_cleanups - 1 /\ i >= 0
    /\ pc \in {"counted", "freed"} => i = n_cleanups

\* The handler that runs is one entry behind n_cleanups, or has just counted.
HandlerOK ==
    handlers # <<>> =>
        /\ Top.pc = "clean" => Top.i = n_cleanups - 1
        /\ Top.pc = "unlinked" => Top.i = n_cleanups - 1 /\ Top.i >= 0
        /\ Top.pc = "counted" => Top.i = n_cleanups

\* The inductive invariant.
Inv == Types /\ ListOK /\ (handlers = <<>> => MainOK) /\ HandlerOK

-----------------------------------------------------------------------------
\* Replacing the last element of a sequence.
LEMMA SetLast ==
    ASSUME NEW S, NEW s \in Seq(S), s # <<>>, NEW v \in S
    PROVE  LET t == [s EXCEPT ![Len(s)] = v]
           IN  t \in Seq(S) /\ t # <<>> /\ Len(t) = Len(s) /\ t[Len(t)] = v
  OBVIOUS

\* Appending an element.
LEMMA AppendLast ==
    ASSUME NEW S, NEW s \in Seq(S), NEW v \in S
    PROVE  LET t == Append(s, v)
           IN  t \in Seq(S) /\ t # <<>> /\ t[Len(t)] = v
  OBVIOUS

\* Init satisfies the invariant.
LEMMA InitInv == Init => Inv
  BY ConstantsAssumption
     DEF Init, Inv, Types, ListOK, MainOK, HandlerOK, Arrays, AddSteps

-----------------------------------------------------------------------------
\* The steps of the main program: making and registering a path.
LEMMA AddInv ==
    ASSUME Inv,
           \/ \E p \in Paths : Make(p)
           \/ MakeExisting \/ Create \/ CreateFails \/ CloseFails \/ Made
           \/ AddRoom \/ AddGrow \/ SwapArray \/ SetSize \/ FreeOld
           \/ DupName \/ StoreName \/ CountName \/ NoMemory \/ BailOut
           \/ \E p \in Paths : ReceiveFails(p)
    PROVE  Inv'
<1> USE ConstantsAssumption
<1>0. handlers = <<>> /\ handlers' = <<>> /\ MainOK
  BY DEF Inv, Running, Goto, Make, MakeExisting, Create, CreateFails, CloseFails, Made, AddRoom, AddGrow,
         SwapArray, SetSize, FreeOld, DupName, StoreName, CountName, NoMemory, BailOut, ReceiveFails
<1> SUFFICES Types' /\ ListOK' /\ MainOK'
  BY <1>0 DEF Inv, HandlerOK
<1>1. CASE \E p \in Paths : Make(p)
  <2>1. PICK p \in Paths : Make(p)
    BY <1>1
  <2>2. Chain(p) \in Seq(Paths)
    BY DEF Chain
  <2>. QED
    BY <1>0, <2>1, <2>2 DEF Make, Running, Goto, Inv, Types, ListOK, MainOK, AddSteps, arrays, NewSize
<1>2. CASE MakeExisting
  BY <1>0, <1>2 DEF MakeExisting, Running, Goto, Inv, Types, ListOK, MainOK, AddSteps, arrays, NewSize
<1>3. CASE Create
  BY <1>0, <1>3 DEF Create, Running, Goto, Inv, Types, ListOK, MainOK, AddSteps, arrays, NewSize
<1>4. CASE CreateFails
  BY <1>0, <1>4 DEF CreateFails, Running, Goto, Inv, Types, ListOK, MainOK, AddSteps, arrays, NewSize
<1>5. CASE Made
  BY <1>0, <1>5 DEF Made, Running, Goto, Inv, Types, ListOK, MainOK, AddSteps, arrays, NewSize
<1>6. CASE AddRoom
  BY <1>0, <1>6 DEF AddRoom, NeedGrow, Running, Goto, Inv, Types, ListOK, MainOK, AddSteps, arrays, NewSize
<1>7. CASE AddGrow
  <2>1. cleanups + 1 \in Arrays /\ cleanups + 1 # cleanups
    BY <1>7 DEF AddGrow, Inv, Types, Arrays
  <2>2. cells'[cleanups] = cells[cleanups] /\ DOMAIN cells' = Arrays
    BY <1>7, <2>1 DEF AddGrow, Inv, Types
  <2>3. /\ DOMAIN cells'[cleanups + 1] = 0 .. NewSize - 1
        /\ \A j \in 0 .. n_cleanups - 1 : cells'[cleanups + 1][j] = cells[cleanups][j]
    BY <1>0, <1>7, <2>1 DEF AddGrow, Inv, Types, MainOK, NewSize
  <2>4. Types' /\ ListOK'
    BY <1>0, <1>7, <2>1, <2>2 DEF AddGrow, Running, Goto, Inv, Types, ListOK
  <2>5. MainOK'
    BY <1>0, <1>7, <2>1, <2>2, <2>3
    DEF AddGrow, Running, Goto, Inv, Types, MainOK, AddSteps, NewSize
  <2>. QED  BY <2>4, <2>5
<1>8. CASE SwapArray
  <2>1. cleanups + 1 \in Arrays
    BY <1>0, <1>8 DEF SwapArray, Running, Inv, Types, MainOK
  <2>2. n_cleanups <= NewSize
    BY <1>0 DEF Inv, Types, MainOK, NewSize
  <2>. QED
    BY <1>0, <1>8, <2>1, <2>2 DEF SwapArray, Running, Goto, Inv, Types, ListOK, MainOK, AddSteps, NewSize
<1>9. CASE SetSize
  BY <1>0, <1>9 DEF SetSize, Running, Goto, Inv, Types, ListOK, MainOK, AddSteps, NewSize
<1>10. CASE FreeOld
  <2>1. cells'[cleanups] = cells[cleanups] /\ DOMAIN cells' = Arrays
    BY <1>10 DEF FreeOld, Inv, Types, Arrays
  <2>2. cleanups \in live => cleanups \in live'
    BY <1>10 DEF FreeOld, Inv, Types, Arrays
  <2>3. Types'
    BY <1>0, <1>10, <2>1 DEF FreeOld, Running, Goto, Inv, Types
  <2>4. ListOK'
    BY <1>0, <1>10, <2>1, <2>2 DEF FreeOld, Running, Goto, Inv, Types, ListOK
  <2>5. MainOK'
    BY <1>0, <1>10, <2>1, <2>2 DEF FreeOld, Running, Goto, Inv, Types, MainOK, AddSteps, NewSize
  <2>. QED  BY <2>3, <2>4, <2>5
<1>11. CASE DupName
  BY <1>0, <1>11 DEF DupName, Running, Goto, Inv, Types, ListOK, MainOK, AddSteps, NewSize
<1>12. CASE StoreName
  <2>1. /\ cleanups \in live /\ n_cleanups \in DOMAIN cells[cleanups]
        /\ DOMAIN cells[cleanups] = 0 .. cleanups_size - 1
    BY <1>0, <1>12 DEF StoreName, Running, Inv, Types, MainOK
  <2>2. /\ DOMAIN cells' = Arrays
        /\ DOMAIN cells'[cleanups] = 0 .. cleanups_size - 1
        /\ cells'[cleanups][n_cleanups] = Path
        /\ \A j \in 0 .. n_cleanups - 1 : cells'[cleanups][j] = cells[cleanups][j]
    BY <1>12, <2>1 DEF StoreName, Inv, Types
  <2>3. Types'
    BY <1>0, <1>12, <2>2 DEF StoreName, Running, Goto, Inv, Types
  <2>4. ListOK'
    BY <1>0, <1>12, <2>1, <2>2 DEF StoreName, Running, Goto, Inv, Types, ListOK
  <2>5. MainOK'
    BY <1>0, <1>12, <2>1, <2>2 DEF StoreName, Running, Goto, Inv, Types, MainOK, AddSteps, NewSize, Path
  <2>. QED  BY <2>3, <2>4, <2>5
<1>13. CASE CountName
  <2>1. /\ todo # <<>> /\ Path \in Paths /\ Tail(todo) \in Seq(Paths)
        /\ cells[cleanups][n_cleanups] = Path /\ n_cleanups \in names
        /\ n_cleanups < cleanups_size
    BY <1>0, <1>13 DEF CountName, Running, Inv, Types, MainOK, AddSteps, Path
  <2>2. Types'
    BY <1>0, <1>13, <2>1 DEF CountName, Goto, Running, Inv, Types
  <2>3. ListOK'
    BY <1>0, <1>13, <2>1 DEF CountName, Goto, Running, Inv, Types, ListOK, MainOK
  <2>4. MainOK'
    BY <1>0, <1>13, <2>1 DEF CountName, Goto, Running, Inv, Types, MainOK, AddSteps, NewSize
  <2>. QED  BY <2>2, <2>3, <2>4
<1>14. CASE NoMemory
  BY <1>0, <1>14 DEF NoMemory, Running, Goto, Inv, Types, ListOK, MainOK, AddSteps, arrays, NewSize
<1>15. CASE BailOut
  <2>1. todo' \in Seq(Paths) /\ pc' \in {"run", "make"} /\ UNCHANGED <<arrays, i>> /\ pc = "bail"
    <3>1. pc' \in {"run", "make"} /\ (todo' = <<>> \/ todo' = todo)
      BY <1>15 DEF BailOut, Goto
    <3>2. UNCHANGED <<arrays, i>> /\ pc = "bail"
      BY <1>15 DEF BailOut, Running
    <3>3. todo' \in Seq(Paths)
      <4>1. <<>> \in Seq(Paths) /\ todo \in Seq(Paths)
        BY DEF Inv, Types
      <4>. QED  BY <3>1, <4>1
    <3>. QED  BY <3>1, <3>2, <3>3
  <2>. QED
    BY <1>0, <2>1 DEF Inv, Types, ListOK, MainOK, AddSteps, arrays, NewSize
<1>16. CASE CloseFails
  BY <1>0, <1>16 DEF CloseFails, Running, Goto, Inv, Types, ListOK, MainOK, AddSteps, arrays, NewSize
<1>17. CASE \E p \in Paths : ReceiveFails(p)
  BY <1>0, <1>17 DEF ReceiveFails, Running, Goto, Inv, Types, ListOK, MainOK, AddSteps, arrays, NewSize
<1>. QED
  BY <1>1, <1>2, <1>3, <1>4, <1>5, <1>6, <1>7, <1>8, <1>9, <1>10, <1>11, <1>12, <1>13, <1>14, <1>15,
     <1>16, <1>17

\* The steps of the main program: removing what is registered.
LEMMA CleanInv ==
    ASSUME Inv,
           FinishJob \/ Unlink \/ CountDown \/ FreeName \/ ClearCell \/ CleanedUp
    PROVE  Inv'
<1>0. handlers = <<>> /\ handlers' = <<>> /\ MainOK
  BY DEF Inv, Running, Goto, FinishJob, Unlink, CountDown, FreeName, ClearCell, CleanedUp
<1> SUFFICES Types' /\ ListOK' /\ MainOK'
  BY <1>0 DEF Inv, HandlerOK
<1>1. CASE FinishJob
  BY <1>0, <1>1 DEF FinishJob, Running, Goto, Inv, Types, ListOK, MainOK, AddSteps, arrays, NewSize
<1>2. CASE Unlink
  BY <1>0, <1>2 DEF Unlink, Running, Goto, Inv, Types, ListOK, MainOK, AddSteps, arrays, NewSize
<1>3. CASE CountDown
  BY <1>0, <1>3 DEF CountDown, Running, Goto, Inv, Types, ListOK, MainOK, AddSteps, NewSize
<1>4. CASE FreeName
  BY <1>0, <1>4 DEF FreeName, Running, Goto, Inv, Types, ListOK, MainOK, AddSteps, NewSize
<1>5. CASE ClearCell
  <2>1. /\ DOMAIN cells' = Arrays /\ DOMAIN cells'[cleanups] = DOMAIN cells[cleanups]
        /\ i = n_cleanups
        /\ \A j \in 0 .. n_cleanups - 1 : j \in DOMAIN cells[cleanups] =>
               cells'[cleanups][j] = cells[cleanups][j]
    BY <1>0, <1>5 DEF ClearCell, Running, Inv, Types, MainOK
  <2>. QED
    BY <1>0, <1>5, <2>1 DEF ClearCell, Running, Goto, Inv, Types, ListOK, MainOK, AddSteps, NewSize
<1>6. CASE CleanedUp
  BY <1>0, <1>6 DEF CleanedUp, Running, Goto, Inv, Types, ListOK, MainOK, AddSteps, arrays, NewSize
<1>. QED  BY <1>1, <1>2, <1>3, <1>4, <1>5, <1>6

\* The steps of a handler, and its start.
LEMMA HandlerInv ==
    ASSUME Inv, HandlerStep
    PROVE  Inv'
<1>1. CASE Signal
  <2>1. [pc |-> "clean", i |-> n_cleanups - 1] \in Frame
    BY DEF Frame, Inv, Types
  <2>2. handlers' \in Seq(Frame) /\ handlers' # <<>>
        /\ handlers'[Len(handlers')] = [pc |-> "clean", i |-> n_cleanups - 1]
    BY <1>1, <2>1, AppendLast DEF Signal, Inv, Types
  <2>. QED
    BY <1>1, <2>2 DEF Signal, Inv, Types, ListOK, HandlerOK, Top, arrays
<1>2. ASSUME handlers # <<>>, NEW at \in {"clean", "unlinked", "counted"}, NEW k \in Int, SetTop(at, k)
      PROVE  handlers' \in Seq(Frame) /\ handlers' # <<>>
             /\ Top' = [pc |-> at, i |-> k]
  <2>1. [pc |-> at, i |-> k] \in Frame
    BY DEF Frame
  <2>. QED
    BY <1>2, <2>1, SetLast DEF SetTop, Top, Inv, Types
<1>3. handlers # <<>> => Top \in Frame /\ Top.i \in Int
  <2>1. handlers # <<>> => Top \in Frame
    BY DEF Top, Inv, Types
  <2>. QED  BY <2>1 DEF Frame
<1>4. CASE HandlerUnlink
  <2>1. handlers' \in Seq(Frame) /\ handlers' # <<>> /\ Top' = [pc |-> "unlinked", i |-> Top.i]
    BY <1>2, <1>3, <1>4 DEF HandlerUnlink, InHandler
  <2>. QED
    BY <1>4, <2>1 DEF HandlerUnlink, InHandler, Inv, Types, ListOK, HandlerOK, arrays
<1>5. CASE HandlerCountDown
  <2>1. handlers' \in Seq(Frame) /\ handlers' # <<>> /\ Top' = [pc |-> "counted", i |-> Top.i]
    BY <1>2, <1>3, <1>5 DEF HandlerCountDown, InHandler
  <2>2. Top.i = n_cleanups - 1 /\ Top.i >= 0 /\ n_cleanups' = Top.i
    BY <1>5 DEF HandlerCountDown, InHandler, Inv, HandlerOK
  <2>. QED
    BY <1>5, <2>1, <2>2 DEF HandlerCountDown, Inv, Types, ListOK, HandlerOK
<1>6. CASE HandlerClearCell
  <2>1. handlers' \in Seq(Frame) /\ handlers' # <<>> /\ Top' = [pc |-> "clean", i |-> Top.i - 1]
    BY <1>2, <1>3, <1>6 DEF HandlerClearCell, InHandler
  <2>2. /\ DOMAIN cells' = Arrays /\ DOMAIN cells'[cleanups] = DOMAIN cells[cleanups]
        /\ Top.i = n_cleanups
        /\ \A j \in 0 .. n_cleanups - 1 : j \in DOMAIN cells[cleanups] =>
               cells'[cleanups][j] = cells[cleanups][j]
    BY <1>6 DEF HandlerClearCell, InHandler, Inv, Types, HandlerOK
  <2>. QED
    BY <1>6, <2>1, <2>2 DEF HandlerClearCell, Inv, Types, ListOK, HandlerOK
<1>7. CASE Raise
  BY <1>7 DEF Raise, InHandler, Inv, Types, ListOK, HandlerOK, Top, arrays
<1>. QED  BY <1>1, <1>4, <1>5, <1>6, <1>7 DEF HandlerStep

\* The child has its own list: the parent's is not touched.
LEMMA ChildInv ==
    ASSUME Inv, ChildStep
    PROVE  Inv'
<1>1. CASE Fork \/ Collect
  BY <1>1 DEF Fork, Collect, Running, Goto, Inv, Types, ListOK, MainOK, HandlerOK, Top, AddSteps, arrays, NewSize, Path
<1>2. CASE Exec \/ ExecFails \/ ChildUnlink \/ ChildGone
  <2>1. UNCHANGED <<arrays, pc, todo, i, handlers>>
    BY <1>2 DEF Exec, ExecFails, ChildUnlink, ChildGone
  <2>. QED
    BY <2>1 DEF Inv, Types, ListOK, MainOK, HandlerOK, Top, arrays, NewSize, Path
<1>. QED  BY <1>1, <1>2 DEF ChildStep

-----------------------------------------------------------------------------
LEMMA NextInv == Inv /\ [Next]_vars => Inv'
<1> SUFFICES ASSUME Inv, [Next]_vars PROVE Inv'
  OBVIOUS
<1>1. CASE MainStep
  BY <1>1, AddInv, CleanInv DEF MainStep
<1>2. CASE HandlerStep
  BY <1>2, HandlerInv
<1>3. CASE ChildStep
  BY <1>3, ChildInv
<1>4. CASE UNCHANGED vars
  BY <1>4 DEF vars, arrays, Inv, Types, ListOK, MainOK, HandlerOK, Top, NewSize, AddSteps, Path
<1>. QED  BY <1>1, <1>2, <1>3, <1>4 DEF Next

\* A signal finds a list that can be walked, at every moment of a process:
\* the order of the assignments in cleanup.c is right whatever the number of
\* files, the sizes of the arrays and the number of signals.
THEOREM SignalSafety == Spec => []SignalSafe
<1>1. Inv => SignalSafe
  BY DEF Inv, ListOK, SignalSafe
<1>. QED  BY InitInv, NextInv, <1>1, PTL DEF Spec

-----------------------------------------------------------------------------
(* The files themselves *)

Entry(j) == cells[cleanups][j]

\* Each of the files but those in E is on the list, and its directory is not
\* behind it.
Recorded(E) ==
    \A q \in fs \ E : \E j \in 0 .. n_cleanups - 1 :
        Entry(j) = q /\ \A k \in j .. n_cleanups - 1 : Entry(k) # Parent[q]

\* What a process may leave behind.
Excused == WithAncestors(lost \cup Window)

\* The file just made is not on the list yet, nor is what was given up.  A
\* handler cannot remove these, nor the directories above them.
Unlisted == IF handlers # <<>> THEN Excused ELSE WithAncestors(lost) \cup Window

\* There is no file without its directory, and no file yet in a directory
\* that is not registered yet.
TreeOK ==
    /\ fs \subseteq Paths /\ lost \subseteq Paths
    /\ \A q \in fs : Parent[q] \in fs \cup {NULL}
    /\ pc \in AddSteps => Path \in Paths
    /\ alive /\ handlers = <<>> /\ pc \in AddSteps => \A q \in fs : Parent[q] # Path

\* Nothing is forgotten.
RecordsOK ==
    ~save =>
        /\ alive => Recorded(Unlisted)
        /\ alive /\ handlers = <<>> /\ pc = "unlinked" => Entry(i) \notin fs \ Unlisted
        /\ alive /\ handlers # <<>> =>
               (Top.pc = "unlinked" => Entry(Top.i) \notin fs \ Excused)
        /\ ~alive => fs \subseteq Excused

FilesOK == TreeOK /\ RecordsOK
IInv == Inv /\ FilesOK

-----------------------------------------------------------------------------
\* A removal takes at most the one path away, and never the directory of
\* another.
LEMMA RemovedOne ==
    ASSUME NEW p, fs' = Removed(p)
    PROVE  /\ fs' \subseteq fs /\ fs \ {p} \subseteq fs'
           /\ p \in fs' => \E q \in fs : Parent[q] = p
           /\ (\A q \in fs : Parent[q] \in fs \cup {NULL}) =>
                  \A q \in fs' : Parent[q] \in fs' \cup {NULL}
  BY DEF Removed

\* A path stays when something is in it, or when its removal fails.
LEMMA RemoveOne ==
    ASSUME NEW p, TreeOK, Remove(p)
    PROVE  /\ fs' \subseteq fs /\ fs \ {p} \subseteq fs'
           /\ lost \subseteq lost' /\ lost' \subseteq Paths
           /\ p \in fs' => p \in lost' \/ \E q \in fs : Parent[q] = p
           /\ \A q \in fs' : Parent[q] \in fs' \cup {NULL}
<1>1. CASE fs' = Removed(p) /\ UNCHANGED lost
  BY <1>1, RemovedOne DEF TreeOK
<1>2. CASE p \in fs /\ lost' = lost \cup {p} /\ UNCHANGED fs
  BY <1>2 DEF TreeOK
<1>. QED  BY <1>1, <1>2 DEF Remove

\* The paths themselves are among their ancestors; more paths have more.
LEMMA AncestorsGrow ==
    ASSUME NEW S, NEW T, S \subseteq Paths, S \subseteq T
    PROVE  S \subseteq WithAncestors(S) /\ WithAncestors(S) \subseteq WithAncestors(T)
  BY DEF WithAncestors

\* The directory of an ancestor is an ancestor.
LEMMA AncestorsClosed ==
    ASSUME NEW S, S \subseteq Paths, NEW q \in WithAncestors(S), Parent[q] # NULL
    PROVE  Parent[q] \in WithAncestors(S)
<1>1. PICK p \in S : q = p \/ q = Parent[p] \/ (Parent[p] # NULL /\ q = Parent[Parent[p]])
  BY DEF WithAncestors
<1>2. q \in Paths /\ p \in Paths /\ Parent[q] \in Paths
  BY ConstantsAssumption DEF WithAncestors
<1>3. CASE q = p
  BY <1>2, <1>3 DEF WithAncestors
<1>4. CASE q = Parent[p]
  BY <1>2, <1>4, ConstantsAssumption DEF WithAncestors
<1>5. CASE Parent[p] # NULL /\ q = Parent[Parent[p]]
  <2>1. Parent[p] \in Paths
    BY <1>2, <1>5, ConstantsAssumption
  <2>. QED  BY <1>2, <1>5, <2>1, ConstantsAssumption
<1>. QED  BY <1>1, <1>3, <1>4, <1>5

\* Nothing that FilesOK speaks of changes.
LEMMA QuietStep ==
    ASSUME FilesOK, alive, handlers = <<>>, UNCHANGED <<fs, lost, n_cleanups, handlers, alive, save>>,
           \A j \in 0 .. n_cleanups - 1 : cells'[cleanups'][j] = cells[cleanups][j],
           pc' \in AddSteps <=> pc \in AddSteps, pc \in AddSteps => todo' = todo,
           pc' # "unlinked"
    PROVE  FilesOK'
<1>1. \A j \in 0 .. n_cleanups - 1 : Entry(j)' = Entry(j)
  BY DEF Entry
<1>2. pc \in AddSteps => Path' = Path
  BY DEF Path
<1>3. TreeOK'
  BY <1>2 DEF FilesOK, TreeOK
<1>4. Unlisted' = Unlisted
  <2>1. Window' = Window
    BY <1>2 DEF Window
  <2>. QED  BY <2>1 DEF Unlisted, WithAncestors
<1>5. RecordsOK'
  <2> SUFFICES ASSUME ~save PROVE Recorded(Unlisted)'
    BY DEF RecordsOK
  <2>1. Recorded(Unlisted)
    BY DEF FilesOK, RecordsOK
  <2>. QED  BY <1>1, <1>4, <2>1 DEF Recorded
<1>. QED  BY <1>3, <1>5 DEF FilesOK

\* Making a path up to its registration.
LEMMA QuietMakeStep ==
    ASSUME IInv,
           \/ \E p \in Paths : Make(p)
           \/ MakeExisting \/ CreateFails \/ Made
           \/ AddRoom \/ AddGrow \/ SwapArray \/ SetSize \/ FreeOld
           \/ DupName \/ StoreName \/ NoMemory
    PROVE  FilesOK'
<1>1. /\ alive /\ handlers = <<>> /\ MainOK
      /\ UNCHANGED <<fs, lost, n_cleanups, handlers, alive, save>>
  BY DEF IInv, Inv, Running, Goto, Make, MakeExisting, CreateFails, Made, AddRoom, AddGrow,
         SwapArray, SetSize, FreeOld, DupName, StoreName, NoMemory, arrays, files
<1>2. /\ pc' \in AddSteps <=> pc \in AddSteps
      /\ pc \in AddSteps => todo' = todo
      /\ pc' # "unlinked"
  BY DEF Running, Goto, Make, MakeExisting, CreateFails, Made, AddRoom, AddGrow,
         SwapArray, SetSize, FreeOld, DupName, StoreName, NoMemory, AddSteps
<1>3. n_cleanups \in Nat /\ cleanups \in Arrays /\ DOMAIN cells = Arrays
  BY DEF IInv, Inv, Types
<1>4. \A j \in 0 .. n_cleanups - 1 : cells'[cleanups'][j] = cells[cleanups][j]
  <2>1. CASE \/ \E p \in Paths : Make(p)
             \/ MakeExisting \/ CreateFails \/ Made \/ AddRoom \/ SetSize \/ DupName \/ NoMemory
    BY <2>1 DEF Make, MakeExisting, CreateFails, Made, AddRoom, SetSize, DupName, NoMemory, arrays
  <2>2. CASE AddGrow
    <3>1. cleanups' = cleanups /\ cleanups + 1 # cleanups
      BY <1>3, <2>2 DEF AddGrow, Arrays
    <3>2. cells'[cleanups] = cells[cleanups]
      BY <1>3, <2>2, <3>1 DEF AddGrow
    <3>. QED  BY <3>1, <3>2
  <2>3. CASE SwapArray
    BY <1>1, <2>3 DEF SwapArray, MainOK, Running
  <2>4. CASE FreeOld
    <3>1. cleanups' = cleanups /\ cleanups - 1 # cleanups
      BY <1>3, <2>4 DEF FreeOld, Arrays
    <3>2. cells'[cleanups] = cells[cleanups]
      BY <1>3, <2>4, <3>1 DEF FreeOld
    <3>. QED  BY <3>1, <3>2
  <2>5. CASE StoreName
    <3>1. /\ cleanups' = cleanups /\ cells' = [cells EXCEPT ![cleanups][n_cleanups] = Path]
      BY <2>5 DEF StoreName
    <3>. QED  BY <1>3, <3>1
  <2>. QED  BY <2>1, <2>2, <2>3, <2>4, <2>5
<1>. QED  BY <1>1, <1>2, <1>4, QuietStep DEF IInv

\* A path is made, to be registered or to be given up at once.
LEMMA CreateStep ==
    ASSUME IInv, Create \/ CloseFails
    PROVE  FilesOK'
<1>1. /\ alive /\ handlers = <<>> /\ pc = "make" /\ pc' \in {"add", "run"} /\ Path \notin fs
      /\ Parent[Path] = NULL \/ Parent[Path] \in fs
      /\ fs' = fs \cup {Path} /\ todo # <<>> /\ (pc' = "add" => todo' = todo)
      /\ pc' = "run" => lost' = lost \cup {Path}
      /\ pc' = "add" => lost' = lost
      /\ UNCHANGED <<n_cleanups, cells, cleanups, handlers, alive, save>>
  BY DEF Create, CloseFails, Running, Goto, arrays
<1>2. Path \in Paths /\ Path # NULL /\ (pc' = "add" => Path' = Path)
  BY <1>1, ConstantsAssumption DEF Path, IInv, Inv, Types
<1>3. TreeOK'
  BY <1>1, <1>2 DEF IInv, FilesOK, TreeOK, AddSteps
<1>4. Unlisted \cup {Path} \subseteq Unlisted'
  <2>1. Window = {} /\ (pc' = "add" => Window' = {Path})
    BY <1>1, <1>2 DEF Window, AddSteps
  <2>2. lost \subseteq lost' /\ lost' \subseteq Paths /\ lost \subseteq Paths
    BY <1>1, <1>3 DEF TreeOK
  <2>3. WithAncestors(lost) \subseteq WithAncestors(lost') /\ lost' \subseteq WithAncestors(lost')
    BY <2>2, AncestorsGrow
  <2>4. Unlisted = WithAncestors(lost) /\ Unlisted' = WithAncestors(lost') \cup Window'
    BY <1>1, <2>1 DEF Unlisted, WithAncestors
  <2>. QED  BY <1>1, <2>1, <2>3, <2>4
<1>5. RecordsOK'
  <2> SUFFICES ASSUME ~save PROVE Recorded(Unlisted)'
    BY <1>1 DEF RecordsOK
  <2>1. Recorded(Unlisted)
    BY <1>1 DEF IInv, FilesOK, RecordsOK
  <2>. QED  BY <1>1, <1>4, <2>1 DEF Recorded, Entry
<1>. QED  BY <1>3, <1>5 DEF FilesOK

\* A registered file is taken away.
LEMMA ReceiveStep ==
    ASSUME IInv, NEW p \in Paths, ReceiveFails(p)
    PROVE  FilesOK'
<1>1. /\ alive /\ handlers = <<>> /\ pc = "run" /\ pc' = "run" /\ fs' = fs \ {p}
      /\ \A q \in Paths : Parent[q] # p
      /\ UNCHANGED <<lost, n_cleanups, cells, cleanups, handlers, alive, save>>
  BY DEF ReceiveFails, IsFile, Running, Goto, arrays
<1>2. TreeOK'
  BY <1>1 DEF IInv, FilesOK, TreeOK, AddSteps
<1>3. Unlisted' = Unlisted
  BY <1>1 DEF Unlisted, Window, WithAncestors, AddSteps
<1>4. RecordsOK'
  <2> SUFFICES ASSUME ~save PROVE Recorded(Unlisted)'
    BY <1>1 DEF RecordsOK
  <2>1. Recorded(Unlisted)
    BY <1>1 DEF IInv, FilesOK, RecordsOK
  <2>. QED  BY <1>1, <1>3, <2>1 DEF Recorded, Entry
<1>. QED  BY <1>2, <1>4 DEF FilesOK

LEMMA CountStep ==
    ASSUME IInv, CountName
    PROVE  FilesOK'
<1>1. /\ alive /\ handlers = <<>> /\ pc = "count" /\ pc' = "make" /\ n_cleanups' = n_cleanups + 1
      /\ UNCHANGED <<fs, lost, cells, cleanups, handlers, alive, save>>
  BY DEF CountName, Running, Goto, files
<1>2. /\ n_cleanups \in Nat /\ Entry(n_cleanups) = Path
      /\ \A j : Entry(j)' = Entry(j)
      /\ pc \in AddSteps /\ pc' \notin AddSteps
  BY <1>1 DEF IInv, Inv, Types, MainOK, Entry, AddSteps
<1>3. TreeOK'
  BY <1>1, <1>2 DEF IInv, FilesOK, TreeOK
<1>4. Unlisted = Unlisted' \cup {Path} /\ \A q \in fs : Parent[q] # Path
  BY <1>1, <1>2 DEF Unlisted, Window, WithAncestors, IInv, FilesOK, TreeOK
<1>5. RecordsOK'
  <2> SUFFICES ASSUME ~save PROVE Recorded(Unlisted)'
    BY <1>1 DEF RecordsOK
  <2>1. ASSUME NEW q \in fs \ Unlisted'
        PROVE  \E j \in 0 .. n_cleanups :
                   Entry(j) = q /\ \A k \in j .. n_cleanups : Entry(k) # Parent[q]
    <3>1. CASE q = Path
      <4>1. \A k \in n_cleanups .. n_cleanups : Entry(k) # Parent[q]
        BY <1>2, <1>4
      <4>2. n_cleanups \in 0 .. n_cleanups
        BY <1>2
      <4>. QED  BY <1>2, <3>1, <4>1, <4>2
    <3>2. CASE q # Path
      <4>1. Recorded(Unlisted)
        BY <1>1 DEF IInv, FilesOK, RecordsOK
      <4>2. PICK j \in 0 .. n_cleanups - 1 :
                Entry(j) = q /\ \A k \in j .. n_cleanups - 1 : Entry(k) # Parent[q]
        BY <1>4, <3>2, <4>1 DEF Recorded
      <4>3. \A k \in j .. n_cleanups : Entry(k) # Parent[q]
        BY <1>2, <1>4, <4>2
      <4>4. j \in 0 .. n_cleanups
        BY <1>2
      <4>. QED  BY <4>2, <4>3, <4>4
    <3>. QED  BY <3>1, <3>2
  <2>2. n_cleanups' - 1 = n_cleanups
    BY <1>1, <1>2
  <2>. QED  BY <1>1, <1>2, <1>4, <2>1, <2>2 DEF Recorded
<1>. QED  BY <1>3, <1>5 DEF FilesOK

LEMMA BailOutStep ==
    ASSUME IInv, BailOut
    PROVE  FilesOK'
<1>1. /\ alive /\ handlers = <<>> /\ pc = "bail" /\ pc' \in {"run", "make"} /\ Remove(Path)
      /\ UNCHANGED <<n_cleanups, cells, cleanups, handlers, alive, save>>
  BY DEF BailOut, Running, Goto, arrays
<1>2. pc \in AddSteps /\ pc' \notin AddSteps /\ TreeOK /\ \A q \in fs : Parent[q] # Path
  BY <1>1 DEF AddSteps, IInv, FilesOK, TreeOK
<1>3. /\ fs' \subseteq fs /\ (Path \in fs' => Path \in lost')
      /\ lost \subseteq lost' /\ lost' \subseteq Paths /\ lost \subseteq Paths
  BY <1>1, <1>2, RemoveOne
<1>4. TreeOK'
  <2>1. \A q \in fs' : Parent[q] \in fs' \cup {NULL}
    BY <1>1, <1>2, RemoveOne
  <2>. QED  BY <1>1, <1>2, <1>3, <2>1 DEF TreeOK
<1>5. RecordsOK'
  <2> SUFFICES ASSUME ~save PROVE Recorded(Unlisted)'
    BY <1>1, <1>2 DEF RecordsOK, AddSteps
  <2>1. Unlisted = WithAncestors(lost) \cup {Path} /\ Unlisted' = WithAncestors(lost')
    BY <1>1, <1>2 DEF Unlisted, Window, WithAncestors
  <2>2. WithAncestors(lost) \subseteq WithAncestors(lost') /\ lost' \subseteq WithAncestors(lost')
    BY <1>3, AncestorsGrow
  <2>3. Recorded(Unlisted)
    BY <1>1 DEF IInv, FilesOK, RecordsOK
  <2>4. fs' \ Unlisted' \subseteq fs \ Unlisted
    BY <1>3, <2>1, <2>2
  <2>. QED  BY <1>1, <2>3, <2>4 DEF Recorded, Entry
<1>. QED  BY <1>4, <1>5 DEF FilesOK

-----------------------------------------------------------------------------
\* The last entry of the list is the directory of no file on it.
LEMMA LastIsNoDirectory ==
    ASSUME NEW E, Recorded(E), NEW q \in fs \ E, n_cleanups \in Nat
    PROVE  Parent[q] # Entry(n_cleanups - 1)
<1>1. PICK j \in 0 .. n_cleanups - 1 :
          Entry(j) = q /\ \A k \in j .. n_cleanups - 1 : Entry(k) # Parent[q]
  BY DEF Recorded
<1>2. n_cleanups - 1 \in j .. n_cleanups - 1
  OBVIOUS
<1>. QED  BY <1>1, <1>2

\* When the last entry is no file, or exempt, the list can do without it.
LEMMA LastDropped ==
    ASSUME NEW E, Recorded(E), n_cleanups \in Nat, Entry(n_cleanups - 1) \notin fs \ E,
           n_cleanups' = n_cleanups - 1, UNCHANGED <<fs, cells, cleanups>>
    PROVE  \A q \in fs' \ E : \E j \in 0 .. n_cleanups' - 1 :
               Entry(j)' = q /\ \A k \in j .. n_cleanups' - 1 : Entry(k)' # Parent[q]
<1> SUFFICES ASSUME NEW q \in fs \ E
             PROVE  \E j \in 0 .. n_cleanups - 2 :
                        Entry(j) = q /\ \A k \in j .. n_cleanups - 2 : Entry(k) # Parent[q]
  BY DEF Entry
<1>1. PICK j \in 0 .. n_cleanups - 1 :
          Entry(j) = q /\ \A k \in j .. n_cleanups - 1 : Entry(k) # Parent[q]
  BY DEF Recorded
<1>2. j # n_cleanups - 1
  BY <1>1
<1>3. j \in 0 .. n_cleanups - 2 /\ \A k \in j .. n_cleanups - 2 : Entry(k) # Parent[q]
  BY <1>1, <1>2
<1>. QED  BY <1>1, <1>3

\* The removal of the last entry: what is left of it is exempt, since it was
\* given up or holds something exempt.
LEMMA LastRemoved ==
    ASSUME TreeOK, NEW S, NEW T, S \subseteq Paths, S \subseteq T, lost' \subseteq T, T \subseteq Paths,
           Recorded(WithAncestors(S)), n_cleanups \in Nat,
           NEW p, p = Entry(n_cleanups - 1), p # NULL, Remove(p)
    PROVE  p \in fs' => p \in WithAncestors(T)
<1> SUFFICES ASSUME p \in fs', p \notin lost' PROVE p \in WithAncestors(S)
  BY AncestorsGrow
<1>1. PICK q \in fs : Parent[q] = p
  BY RemoveOne
<1>2. q \in WithAncestors(S)
  BY <1>1, LastIsNoDirectory
<1>. QED  BY <1>1, <1>2, AncestorsClosed

\* The end of a job, or exit.
LEMMA CleanStep ==
    ASSUME IInv, FinishJob \/ Unlink \/ CountDown \/ FreeName \/ ClearCell \/ CleanedUp
    PROVE  FilesOK'
<1>1. /\ alive /\ handlers = <<>> /\ handlers' = <<>> /\ MainOK
      /\ UNCHANGED <<save, cleanups>>
      /\ pc \notin AddSteps /\ pc' \notin AddSteps
      /\ n_cleanups \in Nat /\ cleanups \in Arrays /\ DOMAIN cells = Arrays
  BY DEF IInv, Inv, Types, FinishJob, Unlink, CountDown, FreeName, ClearCell, CleanedUp, Running,
         Goto, arrays, AddSteps
<1>2. /\ Unlisted = WithAncestors(lost) /\ Unlisted' = WithAncestors(lost')
      /\ Excused' = WithAncestors(lost')
  BY <1>1 DEF Unlisted, Excused, Window, WithAncestors
<1>3. CASE FinishJob \/ FreeName \/ ClearCell
  <2>1. UNCHANGED <<fs, lost, n_cleanups, alive>> /\ pc' # "unlinked"
    BY <1>3 DEF FinishJob, FreeName, ClearCell, Goto, Running, arrays, files
  <2>2. \A j \in 0 .. n_cleanups - 1 : cells'[cleanups'][j] = cells[cleanups][j]
    <3>1. CASE FinishJob \/ FreeName
      BY <3>1 DEF FinishJob, FreeName, arrays
    <3>2. CASE ClearCell
      <4>1. /\ cells' = [cells EXCEPT ![cleanups][i] = NULL] /\ i = n_cleanups
            /\ cleanups' = cleanups
        BY <1>1, <3>2 DEF ClearCell, MainOK, Running
      <4>. QED  BY <1>1, <4>1
    <3>. QED  BY <1>3, <3>1, <3>2
  <2>. QED  BY <1>1, <2>1, <2>2, QuietStep DEF IInv
<1>4. CASE Unlink
  <2>1. /\ IF save THEN UNCHANGED files ELSE Remove(Entry(i))
        /\ i = n_cleanups - 1 /\ i >= 0 /\ pc' = "unlinked"
        /\ UNCHANGED <<n_cleanups, cells, alive, i>>
    BY <1>1, <1>4 DEF Unlink, Running, Goto, MainOK, Entry, arrays
  <2>2. /\ fs' \subseteq fs /\ lost \subseteq lost' /\ lost' \subseteq Paths /\ TreeOK
        /\ \A q \in fs' : Parent[q] \in fs' \cup {NULL}
    <3>1. TreeOK
      BY DEF IInv, FilesOK
    <3>2. CASE save
      BY <2>1, <3>1, <3>2 DEF TreeOK, files
    <3>3. CASE ~save
      BY <2>1, <3>1, <3>3, RemoveOne
    <3>. QED  BY <3>1, <3>2, <3>3
  <2>3. TreeOK'
    BY <1>1, <2>2 DEF TreeOK
  <2>4. RecordsOK'
    <3> SUFFICES ASSUME ~save PROVE Recorded(Unlisted)' /\ Entry(i)' \notin fs' \ Unlisted'
      BY <1>1, <2>1 DEF RecordsOK
    <3>1. Recorded(WithAncestors(lost))
      BY <1>1, <1>2 DEF IInv, FilesOK, RecordsOK
    <3>2. lost \subseteq Paths /\ WithAncestors(lost) \subseteq WithAncestors(lost')
      BY <2>2, AncestorsGrow DEF TreeOK
    <3>3. Entry(i) # NULL
      BY <1>1, <2>1, ConstantsAssumption DEF IInv, Inv, ListOK, Entry
    <3>4. Entry(i) \in fs' => Entry(i) \in WithAncestors(lost')
      BY <1>1, <2>1, <2>2, <3>1, <3>2, <3>3, LastRemoved
    <3>5. \A j : Entry(j)' = Entry(j)
      BY <1>1, <2>1 DEF Entry
    <3>6. Recorded(Unlisted)'
      BY <1>2, <2>1, <2>2, <3>1, <3>2, <3>5 DEF Recorded
    <3>. QED  BY <1>2, <2>1, <3>4, <3>5, <3>6
  <2>. QED  BY <2>3, <2>4 DEF FilesOK
<1>5. CASE CountDown
  <2>1. /\ i = n_cleanups - 1 /\ n_cleanups' = n_cleanups - 1 /\ pc = "unlinked" /\ pc' = "counted"
        /\ UNCHANGED <<fs, lost, cells, alive>>
    BY <1>1, <1>5 DEF CountDown, Running, Goto, MainOK, files
  <2>2. TreeOK'
    BY <1>1, <2>1 DEF IInv, FilesOK, TreeOK
  <2>3. RecordsOK'
    <3> SUFFICES ASSUME ~save PROVE Recorded(Unlisted)'
      BY <1>1, <2>1 DEF RecordsOK
    <3>1. Recorded(Unlisted) /\ Entry(n_cleanups - 1) \notin fs \ Unlisted
      BY <1>1, <2>1 DEF IInv, FilesOK, RecordsOK
    <3>2. Unlisted' = Unlisted
      BY <1>2, <2>1
    <3>. QED  BY <1>1, <2>1, <3>1, <3>2, LastDropped DEF Recorded
  <2>. QED  BY <2>2, <2>3 DEF FilesOK
<1>6. CASE CleanedUp
  <2>1. /\ n_cleanups = 0 /\ pc' = "run"
        /\ UNCHANGED <<fs, lost, cells, n_cleanups>>
    BY <1>1, <1>6 DEF CleanedUp, Running, MainOK, arrays, files
  <2>2. TreeOK'
    BY <1>1, <2>1 DEF IInv, FilesOK, TreeOK
  <2>3. 0 .. n_cleanups - 1 = {}
    BY <2>1
  <2>4. RecordsOK'
    <3> SUFFICES ASSUME ~save PROVE fs \subseteq WithAncestors(lost)
      BY <1>1, <1>2, <2>1 DEF RecordsOK, Recorded
    <3>1. Recorded(WithAncestors(lost))
      BY <1>1, <1>2 DEF IInv, FilesOK, RecordsOK
    <3>. QED  BY <2>3, <3>1 DEF Recorded
  <2>. QED  BY <2>2, <2>4 DEF FilesOK
<1>. QED  BY <1>3, <1>4, <1>5, <1>6

\* A handler.
LEMMA HandlerStepFiles ==
    ASSUME IInv, HandlerStep, Inv'
    PROVE  FilesOK'
<1>1. /\ alive /\ handlers' # <<>> /\ UNCHANGED <<save, cleanups, pc, todo>>
      /\ n_cleanups \in Nat /\ cleanups \in Arrays /\ DOMAIN cells = Arrays /\ handlers \in Seq(Frame)
  <2>1. /\ alive /\ UNCHANGED <<save, cleanups, pc, todo>>
    BY DEF HandlerStep, Signal, HandlerUnlink, HandlerCountDown, HandlerClearCell, Raise, InHandler,
           arrays
  <2>2. n_cleanups \in Nat /\ cleanups \in Arrays /\ DOMAIN cells = Arrays /\ handlers \in Seq(Frame)
    BY DEF IInv, Inv, Types
  <2>3. handlers' # <<>>
    <3>1. CASE Signal
      BY <2>2, <3>1 DEF Signal
    <3>2. CASE HandlerUnlink \/ HandlerCountDown \/ HandlerClearCell \/ Raise
      BY <2>2, <3>2 DEF HandlerUnlink, HandlerCountDown, HandlerClearCell, Raise, InHandler, SetTop
    <3>. QED  BY <3>1, <3>2 DEF HandlerStep
  <2>. QED  BY <2>1, <2>2, <2>3
<1>2. /\ Window' = Window /\ Path' = Path /\ (pc \in AddSteps => Path \in Paths)
      /\ Window \subseteq Paths /\ lost \subseteq Paths
  BY <1>1 DEF Window, Path, IInv, FilesOK, TreeOK
<1>3. Unlisted' = Excused' /\ (handlers # <<>> => Unlisted = Excused)
  BY <1>1 DEF Unlisted, Excused, WithAncestors
<1>4. UNCHANGED lost => Excused' = Excused
  BY <1>2 DEF Excused, WithAncestors
<1>5. CASE Signal
  <2>1. UNCHANGED <<fs, lost, n_cleanups, cells, alive>>
    BY <1>5 DEF Signal, arrays, files
  <2>2. Top'.pc = "clean"
    <3>1. [pc |-> "clean", i |-> n_cleanups - 1] \in Frame
      BY <1>1 DEF Frame
    <3>2. Top' = [pc |-> "clean", i |-> n_cleanups - 1]
      BY <1>1, <1>5, <3>1, AppendLast DEF Signal, Top
    <3>. QED  BY <3>2
  <2>3. TreeOK'
    BY <1>1, <1>2, <2>1 DEF IInv, FilesOK, TreeOK
  <2>4. RecordsOK'
    <3> SUFFICES ASSUME ~save PROVE Recorded(Unlisted)'
      BY <1>1, <2>1, <2>2 DEF RecordsOK
    <3>1. Recorded(Unlisted)
      BY <1>1 DEF IInv, FilesOK, RecordsOK
    <3>2. Unlisted \subseteq Excused /\ Excused' = Excused
      <4>1. /\ WithAncestors(lost) \subseteq Excused
            /\ Window \subseteq WithAncestors(Window) /\ WithAncestors(Window) \subseteq Excused
        BY <1>2, AncestorsGrow DEF Excused
      <4>. QED  BY <1>4, <2>1, <4>1 DEF Unlisted
    <3>3. \A j : Entry(j)' = Entry(j)
      BY <1>1, <2>1 DEF Entry
    <3>. QED  BY <1>3, <2>1, <3>1, <3>2, <3>3 DEF Recorded
  <2>. QED  BY <2>3, <2>4 DEF FilesOK
<1>6. CASE HandlerUnlink
  <2>1. /\ handlers # <<>> /\ Top.pc = "clean" /\ Top.i = n_cleanups - 1
        /\ (IF save THEN UNCHANGED files ELSE Remove(Entry(Top.i))) /\ SetTop("unlinked", Top.i)
        /\ Top.i >= 0 /\ UNCHANGED <<n_cleanups, cells, alive>>
    BY <1>6 DEF HandlerUnlink, InHandler, IInv, Inv, HandlerOK, Entry, arrays
  <2>2. /\ fs' \subseteq fs /\ lost \subseteq lost' /\ lost' \subseteq Paths /\ TreeOK
        /\ \A q \in fs' : Parent[q] \in fs' \cup {NULL}
    <3>1. TreeOK
      BY DEF IInv, FilesOK
    <3>2. CASE save
      BY <2>1, <3>1, <3>2 DEF TreeOK, files
    <3>3. CASE ~save
      BY <2>1, <3>1, <3>3, RemoveOne
    <3>. QED  BY <3>1, <3>2, <3>3
  <2>3. TreeOK'
    BY <1>1, <1>2, <2>2 DEF IInv, FilesOK, TreeOK
  <2>4. Top'.i = n_cleanups - 1
    <3>1. [pc |-> "unlinked", i |-> Top.i] \in Frame
      BY <1>1, <2>1 DEF Frame
    <3>2. Top' = [pc |-> "unlinked", i |-> Top.i]
      BY <1>1, <2>1, <3>1, SetLast DEF SetTop, Top
    <3>. QED  BY <2>1, <3>2
  <2>5. RecordsOK'
    <3> SUFFICES ASSUME ~save
                 PROVE  Recorded(Unlisted)' /\ Entry(n_cleanups - 1)' \notin fs' \ Excused'
      BY <1>1, <2>1, <2>4 DEF RecordsOK, Entry
    <3>1. Recorded(Excused)
      BY <1>1, <1>3, <2>1 DEF IInv, FilesOK, RecordsOK
    <3>2. /\ lost \cup Window \subseteq Paths /\ lost' \cup Window \subseteq Paths
          /\ Excused' = WithAncestors(lost' \cup Window)
      BY <1>2, <2>2 DEF Excused, WithAncestors
    <3>3. Excused \subseteq Excused'
      BY <2>2, <3>2, AncestorsGrow DEF Excused
    <3>4. Entry(n_cleanups - 1) # NULL
      BY <1>1, <2>1, ConstantsAssumption DEF IInv, Inv, ListOK, Entry
    <3>5. Recorded(WithAncestors(lost \cup Window)) /\ Remove(Entry(n_cleanups - 1))
      BY <2>1, <3>1 DEF Excused
    <3>6. Entry(n_cleanups - 1) \in fs' => Entry(n_cleanups - 1) \in WithAncestors(lost' \cup Window)
      BY <1>1, <2>2, <3>2, <3>4, <3>5, LastRemoved
    <3>7. \A j : Entry(j)' = Entry(j)
      BY <1>1, <2>1 DEF Entry
    <3>8. Entry(n_cleanups - 1)' = Entry(n_cleanups - 1)
      BY <1>1, <2>1 DEF Entry
    <3>9. Recorded(Unlisted)'
      BY <1>3, <2>1, <2>2, <3>1, <3>3, <3>7 DEF Recorded
    <3>. QED  BY <3>2, <3>6, <3>8, <3>9
  <2>. QED  BY <2>3, <2>5 DEF FilesOK
<1>7. CASE HandlerCountDown
  <2>1. /\ handlers # <<>> /\ Top.pc = "unlinked" /\ Top.i = n_cleanups - 1
        /\ n_cleanups' = n_cleanups - 1 /\ SetTop("counted", Top.i) /\ UNCHANGED <<fs, lost, cells, alive>>
    BY <1>7 DEF HandlerCountDown, InHandler, IInv, Inv, HandlerOK, files
  <2>2. Top'.pc = "counted"
    <3>1. [pc |-> "counted", i |-> Top.i] \in Frame
      BY <1>1, <2>1 DEF Frame
    <3>2. Top' = [pc |-> "counted", i |-> Top.i]
      BY <1>1, <2>1, <3>1, SetLast DEF SetTop, Top
    <3>. QED  BY <3>2
  <2>3. TreeOK'
    BY <1>1, <1>2, <2>1 DEF IInv, FilesOK, TreeOK
  <2>4. RecordsOK'
    <3> SUFFICES ASSUME ~save PROVE Recorded(Unlisted)'
      BY <1>1, <2>1, <2>2 DEF RecordsOK
    <3>1. Recorded(Excused) /\ Entry(n_cleanups - 1) \notin fs \ Excused
      BY <1>1, <1>3, <2>1 DEF IInv, FilesOK, RecordsOK
    <3>2. Unlisted' = Excused
      BY <1>3, <1>4, <2>1
    <3>. QED  BY <1>1, <2>1, <3>1, <3>2, LastDropped DEF Recorded
  <2>. QED  BY <2>3, <2>4 DEF FilesOK
<1>8. CASE HandlerClearCell
  <2>1. /\ handlers # <<>> /\ Top.pc = "counted" /\ Top.i = n_cleanups
        /\ cells' = [cells EXCEPT ![cleanups][Top.i] = NULL]
        /\ SetTop("clean", Top.i - 1) /\ UNCHANGED <<fs, lost, n_cleanups, alive>>
    BY <1>8 DEF HandlerClearCell, InHandler, IInv, Inv, HandlerOK, files
  <2>2. Top'.pc = "clean"
    <3>1. [pc |-> "clean", i |-> Top.i - 1] \in Frame
      BY <1>1, <2>1 DEF Frame
    <3>2. Top' = [pc |-> "clean", i |-> Top.i - 1]
      BY <1>1, <2>1, <3>1, SetLast DEF SetTop, Top
    <3>. QED  BY <3>2
  <2>3. TreeOK'
    BY <1>1, <1>2, <2>1 DEF IInv, FilesOK, TreeOK
  <2>4. RecordsOK'
    <3> SUFFICES ASSUME ~save PROVE Recorded(Unlisted)'
      BY <1>1, <2>1, <2>2 DEF RecordsOK
    <3>1. Recorded(Excused)
      BY <1>1, <1>3, <2>1 DEF IInv, FilesOK, RecordsOK
    <3>2. \A j \in 0 .. n_cleanups - 1 : Entry(j)' = Entry(j)
      BY <1>1, <2>1 DEF Entry
    <3>3. Unlisted' = Excused
      BY <1>3, <1>4, <2>1
    <3>. QED  BY <1>1, <2>1, <3>1, <3>2, <3>3 DEF Recorded
  <2>. QED  BY <2>3, <2>4 DEF FilesOK
<1>9. CASE Raise
  <2>1. /\ handlers # <<>> /\ n_cleanups = 0 /\ ~alive' /\ UNCHANGED <<fs, lost, cells, n_cleanups>>
    <3>1. /\ handlers # <<>> /\ Top.pc = "clean" /\ Top.i < 0 /\ alive' = FALSE
          /\ UNCHANGED <<fs, lost, cells, n_cleanups>>
      BY <1>9 DEF Raise, InHandler, arrays, files
    <3>. QED  BY <1>1, <3>1 DEF IInv, Inv, HandlerOK
  <2>2. TreeOK'
    BY <1>1, <1>2, <2>1 DEF IInv, FilesOK, TreeOK
  <2>3. 0 .. n_cleanups - 1 = {}
    BY <2>1
  <2>4. RecordsOK'
    <3> SUFFICES ASSUME ~save PROVE fs \subseteq Excused
      BY <1>1, <1>4, <2>1 DEF RecordsOK
    <3>1. Recorded(Excused)
      BY <1>1, <1>3, <2>1 DEF IInv, FilesOK, RecordsOK
    <3>. QED  BY <2>3, <3>1 DEF Recorded
  <2>. QED  BY <2>2, <2>4 DEF FilesOK
<1>. QED  BY <1>5, <1>6, <1>7, <1>8, <1>9 DEF HandlerStep

\* The child, at any time.
LEMMA ChildStepFiles ==
    ASSUME IInv, ChildStep
    PROVE  FilesOK'
<1>1. CASE Fork \/ Collect
  <2>1. /\ alive /\ handlers = <<>> /\ UNCHANGED <<files, arrays, todo, handlers, alive, save>>
        /\ pc \in {"run", "wait"} /\ pc' \in {"run", "wait"}
    BY <1>1 DEF Fork, Collect, Running, Goto
  <2>. QED  BY <2>1, QuietStep DEF IInv, arrays, files, AddSteps
<1>2. CASE Exec \/ ExecFails \/ ChildUnlink \/ ChildGone
  <2>1. UNCHANGED <<lost, cleanups, n_cleanups, cells, pc, todo, i, handlers, alive, save>>
    BY <1>2 DEF Exec, ExecFails, ChildUnlink, ChildGone, arrays, files
  <2>2. fs' = fs \/ \E p : fs' = Removed(p)
    BY <1>2 DEF Exec, ExecFails, ChildUnlink, ChildGone, files
  <2>3. /\ fs' \subseteq fs /\ \A q \in fs' : Parent[q] \in fs' \cup {NULL}
    <3>1. \A q \in fs : Parent[q] \in fs \cup {NULL}
      BY DEF IInv, FilesOK, TreeOK
    <3>. QED  BY <2>2, <3>1, RemovedOne
  <2>4. Path' = Path /\ Excused' = Excused /\ Unlisted' = Unlisted /\ Top' = Top
    BY <2>1 DEF Path, Window, Excused, Unlisted, WithAncestors, Top
  <2>5. TreeOK'
    BY <2>1, <2>3, <2>4 DEF IInv, FilesOK, TreeOK
  <2>6. \A j : Entry(j)' = Entry(j)
    BY <2>1 DEF Entry
  <2>7. RecordsOK'
    <3>1. ~save /\ alive => Recorded(Unlisted)'
      BY <2>1, <2>3, <2>4, <2>6 DEF IInv, FilesOK, RecordsOK, Recorded
    <3>. QED  BY <2>1, <2>3, <2>4, <2>6, <3>1 DEF IInv, FilesOK, RecordsOK
  <2>. QED  BY <2>5, <2>7 DEF FilesOK
<1>. QED  BY <1>1, <1>2 DEF ChildStep

\* The invariant of the list and that of the files hold together.
THEOREM Invariant == Spec => []IInv
<1>1. Init => IInv
  <2> SUFFICES ASSUME Init PROVE FilesOK
    BY InitInv DEF IInv
  <2>. QED
    BY DEF Init, FilesOK, TreeOK, RecordsOK, Recorded, AddSteps
<1>2. IInv /\ [Next]_vars => IInv'
  <2> SUFFICES ASSUME IInv, [Next]_vars PROVE IInv'
    OBVIOUS
  <2>0. Inv'
    BY NextInv DEF IInv
  <2>1. CASE MainStep
    BY <2>0, <2>1, QuietMakeStep, CreateStep, ReceiveStep, CountStep, BailOutStep, CleanStep
    DEF MainStep, IInv
  <2>2. CASE HandlerStep
    BY <2>0, <2>2, HandlerStepFiles DEF IInv
  <2>3. CASE ChildStep
    BY <2>0, <2>3, ChildStepFiles DEF IInv
  <2>4. CASE UNCHANGED vars
    <3>1. UNCHANGED <<fs, lost, cleanups, n_cleanups, cells, pc, todo, i, handlers, alive, save>>
      BY <2>4 DEF vars, arrays, files
    <3>2. /\ Path' = Path /\ Excused' = Excused /\ Unlisted' = Unlisted /\ Top' = Top
          /\ \A j : Entry(j)' = Entry(j)
      BY <3>1 DEF Path, Window, Excused, Unlisted, WithAncestors, Top, Entry
    <3>3. FilesOK'
      BY <3>1, <3>2 DEF IInv, FilesOK, TreeOK, RecordsOK, Recorded
    <3>. QED  BY <2>0, <3>3 DEF IInv
  <2>. QED  BY <2>1, <2>2, <2>3, <2>4 DEF Next
<1>. QED  BY <1>1, <1>2, PTL DEF Spec

\* However a process ends, by exit or by a signal at any moment, it leaves at
\* most the file it was about to register, the files whose close() or removal
\* failed, and the directories above these.
THEOREM NothingIsLeft == Spec => []NothingLeft
<1>1. IInv => NothingLeft
  BY DEF IInv, FilesOK, RecordsOK, Excused, NothingLeft
<1>. QED  BY <1>1, Invariant, PTL
=============================================================================
