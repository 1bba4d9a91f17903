------------------------------ MODULE StatsRing ------------------------------
(***************************************************************************)
(* The daemon's compile totals of the last 1, 5 and 15 minutes (stats.c):  *)
(* a running total, and a ring that holds, for each of the last time       *)
(* slots, the total at its end.  Checked against the times at which the    *)
(* jobs really ended, with a smaller ring.                                 *)
(***************************************************************************)
EXTENDS Integers, Sequences, FiniteSets

CONSTANTS
    N,          \* slots of the ring (300)
    L,          \* seconds of a slot (3)
    Spans,      \* the slots that each reported total goes back (20, 100 and 299)
    MaxWait,    \* bound: seconds between two events
    MaxTime,    \* bound: seconds after the start
    MaxTotal    \* bound: jobs

ASSUME RingAssumption ==
    /\ N \in Nat \ {0} /\ L \in Nat \ {0}
    /\ Spans \subseteq 1 .. N - 1
    /\ {MaxWait, MaxTime, MaxTotal} \subseteq Nat

VARIABLES
    now,                \* time(NULL)
    compile_timeseries,
    prev_slot, last, total, \* the static variables of dcc_stats_update_running_total
    ended,              \* the absolute number of the slot in which each job ended
    report,             \* the totals last sent to a reader of the statistics port
    lapped              \* an update came exactly one turn of the ring after the one before

vars == <<now, compile_timeseries, prev_slot, last, total, ended, report, lapped>>

NoReport == [s \in {} |-> 0]
Slots == 0 .. N - 1

\* The real time is far beyond one turn of the ring.
Start == N * L + 1 .. N * L + L

Init ==
    /\ now \in Start
    /\ compile_timeseries = [s \in Slots |-> 0]
    /\ prev_slot = 0 /\ last = 0 /\ total = 0
    /\ ended = <<>> /\ report = NoReport /\ lapped = FALSE

-----------------------------------------------------------------------------
AbsoluteSlot(t) == t \div L
CurSlot == AbsoluteSlot(now) % N

Reset_Late == last + 2 * N * L < now \* fault model: too late
Reset == last + N * L < now

\* The slots from prev_slot up to, not including, the current one.
Filled(prev, cur) == {s \in Slots : (s - prev + N) % N < (cur - prev + N) % N}

\* dcc_stats_update_running_total
RunningTotal(increment) ==
    /\ compile_timeseries' =
           [s \in Slots |->
               IF Reset \/ s \in Filled(prev_slot, CurSlot) THEN total
               ELSE compile_timeseries[s]]
    /\ prev_slot' = CurSlot
    /\ total' = total + increment
    /\ last' = now
    /\ lapped' = (~Reset /\ (lapped \/ AbsoluteSlot(now) - AbsoluteSlot(last) = N))

\* dcc_stats_process: a job that taxed the CPU has ended.
Process ==
    /\ total < MaxTotal
    /\ RunningTotal(1)
    /\ ended' = Append(ended, AbsoluteSlot(now))
    /\ report' = NoReport
    /\ UNCHANGED now

\* dcc_stats_get_compile_totals, for a reader of the statistics port.
Totals ==
    LET at(back) == compile_timeseries'[(CurSlot + N - back) % N]
    IN  [s \in Spans |-> at(1) - at(s)]

Service ==
    /\ RunningTotal(0)
    /\ report' = Totals
    /\ UNCHANGED <<now, ended>>

Wait ==
    /\ \E d \in 1 .. MaxWait : now' = now + d
    /\ now' <= N * L + L + MaxTime
    /\ report' = NoReport
    /\ UNCHANGED <<compile_timeseries, prev_slot, last, total, ended, lapped>>

Next == Process \/ Service \/ Wait

Spec == Init /\ [][Next]_vars

-----------------------------------------------------------------------------
\* The jobs that ended in the last slots, without the current one.
Since(span) ==
    {j \in DOMAIN ended : /\ AbsoluteSlot(now) - span < ended[j]
                          /\ ended[j] < AbsoluteSlot(now)}

\* What is reported is what happened, however the jobs and the readers are
\* spread over the turns of the ring and the resets, as long as no two updates
\* are one turn apart: then the slot is taken for the same one, nothing is
\* filled, and jobs of a quarter of an hour ago count as recent.
TotalsTrue ==
    report # NoReport /\ ~lapped => \A s \in Spans : report[s] = Cardinality(Since(s))
=============================================================================
