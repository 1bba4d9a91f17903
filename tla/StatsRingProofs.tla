--------------------------- MODULE StatsRingProofs ---------------------------
(***************************************************************************)
(* Proofs about StatsRing.  The heart of the argument is what a slot of    *)
(* the ring holds: slot s stands for the absolute slot that is Age(s)      *)
(* after the oldest one the ring still knows of, and holds the number of   *)
(* jobs that ended up to it.                                               *)
(***************************************************************************)
EXTENDS StatsRing, FiniteSetTheorems, SequenceTheorems, TLAPS

-----------------------------------------------------------------------------
(* The invariant *)

\* The jobs of the history e that ended in slot a or before.
EndedBy(e, a) == {j \in DOMAIN e : e[j] <= a}
Upto(e, a) == Cardinality(EndedBy(e, a))

\* How many slots s is after prev_slot, going round the ring.
Age(s, prev) == (s - prev + N) % N

LastSlot == AbsoluteSlot(last)

TypeOK ==
    /\ now \in Nat /\ last \in Nat
    /\ compile_timeseries \in [Slots -> Nat]
    /\ prev_slot \in Slots
    /\ total \in Nat
    /\ ended \in Seq(Nat)
    /\ report = NoReport \/ report \in [Spans -> Int]
    /\ lapped \in BOOLEAN

\* The clock is not set back, and the static variables belong to the last update.
UpdateInv ==
    /\ last <= now
    /\ prev_slot = LastSlot % N
    /\ total = Len(ended)
    /\ \A j \in DOMAIN ended : ended[j] <= LastSlot

RingTrue ==
    \A s \in Slots :
        compile_timeseries[s] = Upto(ended, LastSlot - N + Age(s, prev_slot))

IInv == TypeOK /\ UpdateInv /\ (~lapped => RingTrue)

-----------------------------------------------------------------------------
(* Division and the ring *)

LEMMA DivMod ==
    ASSUME NEW t \in Int, NEW d \in Nat \ {0}
    PROVE  /\ t \div d \in Int
           /\ t % d \in 0 .. d - 1
           /\ t = d * (t \div d) + (t % d)
  <1>1. t \div d \in Int
    OBVIOUS
  <1>2. t % d \in 0 .. d - 1
    OBVIOUS
  <1>3. t = d * (t \div d) + (t % d)
    BY SMTT(20)
  <1> QED
    BY <1>1, <1>2, <1>3

\* A quotient and a remainder are the only ones.
LEMMA DivUnique ==
    ASSUME NEW t \in Int, NEW d \in Nat \ {0}, NEW q \in Int, NEW r \in 0 .. d - 1,
           t = d * q + r
    PROVE  t \div d = q /\ t % d = r
  <1>1. t \div d = q
    BY SMTT(20)
  <1>2. t % d = r
    BY SMTT(20)
  <1> QED
    BY <1>1, <1>2

LEMMA DivMonotone ==
    ASSUME NEW t \in Nat, NEW u \in Nat, NEW d \in Nat \ {0}, t <= u
    PROVE  t \div d \in Nat /\ t \div d <= u \div d
  <1>1. t \div d \in Nat /\ u \div d \in Nat
    OBVIOUS
  <1>2. t \div d <= u \div d
    <2>1. SUFFICES ASSUME u \div d + 1 <= t \div d PROVE FALSE
      BY <1>1
    <2>2. d * (u \div d) + d <= d * (t \div d)
      BY <1>1, <2>1
    <2> QED
      BY <1>1, <2>2, DivMod
  <1> QED
    BY <1>1, <1>2

\* n turns of d seconds later.
LEMMA DivTurns ==
    ASSUME NEW t \in Nat, NEW d \in Nat \ {0}, NEW n \in Nat
    PROVE  (t + n * d) \div d = t \div d + n
  <1> DEFINE q == t \div d
             r == t % d
  <1>1. q \in Int /\ r \in 0 .. d - 1 /\ t = d * q + r
    BY DivMod
  <1> HIDE DEF q, r
  <1>2. d * (q + n) = d * q + n * d /\ n * d \in Int /\ d * q \in Int
    BY <1>1
  <1>3. t + n * d = d * (q + n) + r /\ q + n \in Int /\ t + n * d \in Int
    BY <1>1, <1>2
  <1>4. (t + n * d) \div d = q + n
    BY <1>1, <1>3, DivUnique
  <1> QED
    BY <1>4 DEF q

\* The slot of the ring k slots later.
LEMMA SlotLater ==
    ASSUME NEW c \in Nat, NEW d \in Nat \ {0}, NEW k \in 0 .. d, NEW r, r = c % d
    PROVE  (c + k) % d = IF r + k < d THEN r + k ELSE r + k - d
  <1> DEFINE q == c \div d
  <1>1. q \in Int /\ r \in 0 .. d - 1 /\ c = d * q + r
    BY DivMod
  <1> HIDE DEF q
  <1>2. CASE r + k < d
    <2> DEFINE t == c + k
               u == r + k
    <2>1. t = d * q + u /\ u \in 0 .. d - 1 /\ t \in Int
      BY <1>1, <1>2
    <2> HIDE DEF t, u
    <2>2. t % d = u
      BY <1>1, <2>1, DivUnique
    <2> QED
      BY <1>2, <2>2 DEF t, u
  <1>3. CASE ~(r + k < d)
    <2>1. d * (q + 1) = d * q + d /\ d * q \in Int
      BY <1>1
    <2>2. c + k = d * (q + 1) + (r + k - d) /\ r + k - d \in 0 .. d - 1 /\ q + 1 \in Int
      BY <1>1, <1>3, <2>1
    <2>3. (c + k) % d = r + k - d
      BY <2>2, DivUnique
    <2> QED
      BY <1>3, <2>3
  <1> QED
    BY <1>2, <1>3

LEMMA ModSmall ==
    ASSUME NEW x \in Nat, NEW d \in Nat \ {0}, x < 2 * d
    PROVE  x % d = IF x < d THEN x ELSE x - d
  <1>1. CASE x < d
    BY <1>1, SMTT(20)
  <1>2. CASE ~(x < d)
    BY <1>2, SMTT(20)
  <1> QED
    BY <1>1, <1>2

LEMMA AgeIs ==
    ASSUME NEW s \in Slots, NEW p \in Slots
    PROVE  /\ Age(s, p) = IF s >= p THEN s - p ELSE s - p + N
           /\ Age(s, p) \in Slots
  <1>1. s \in Nat /\ p \in Nat /\ s < N /\ p < N /\ N \in Nat \ {0}
    BY RingAssumption DEF Slots
  <1> DEFINE x == s - p + N
  <1>2. x \in Nat /\ x < 2 * N
    BY <1>1
  <1> HIDE DEF x
  <1>3. x % N = IF x < N THEN x ELSE x - N
    BY <1>1, <1>2, ModSmall
  <1> QED
    BY <1>1, <1>3 DEF Age, Slots, x

\* Of two slots of the ring, the later is as many after the earlier one.
LEMMA AgeLater ==
    ASSUME NEW c \in Nat, NEW k \in 0 .. N - 1, NEW s \in Slots
    PROVE  /\ c % N \in Slots /\ (c + k) % N \in Slots
           /\ Age((c + k) % N, c % N) = k
           /\ Age(s, (c + k) % N) = IF Age(s, c % N) < k THEN Age(s, c % N) - k + N
                                    ELSE Age(s, c % N) - k
  <1> DEFINE p == c % N
             r == (c + k) % N
  <1>1. N \in Nat \ {0} /\ k \in 0 .. N /\ k < N
    BY RingAssumption
  <1>2. p \in Slots /\ r \in Slots
    BY <1>1, DivMod DEF Slots
  <1>3. r = IF p + k < N THEN p + k ELSE p + k - N
    <2>1. p = c % N
      OBVIOUS
    <2> HIDE DEF p
    <2> QED
      BY <1>1, <2>1, SlotLater
  <1> HIDE DEF p, r
  <1>4. /\ Age(r, p) = IF r >= p THEN r - p ELSE r - p + N
        /\ Age(s, p) = IF s >= p THEN s - p ELSE s - p + N
        /\ Age(s, r) = IF s >= r THEN s - r ELSE s - r + N
    BY <1>2, AgeIs
  <1>5. p \in Int /\ 0 <= p /\ p < N /\ s \in Int /\ 0 <= s /\ s < N /\ k \in Int /\ 0 <= k
    BY <1>1, <1>2 DEF Slots
  <1>6. Age(r, p) = k
    BY <1>1, <1>3, <1>4, <1>5
  <1>7. Age(s, r) = IF Age(s, p) < k THEN Age(s, p) - k + N ELSE Age(s, p) - k
    BY <1>1, <1>3, <1>4, <1>5
  <1> QED
    BY <1>2, <1>6, <1>7 DEF p, r

-----------------------------------------------------------------------------
(* Counting jobs *)

LEMMA UptoNat ==
    ASSUME NEW e \in Seq(Nat), NEW a \in Int
    PROVE  IsFiniteSet(EndedBy(e, a)) /\ Upto(e, a) \in Nat
  <1>1. DOMAIN e = 1 .. Len(e) /\ Len(e) \in Nat
    BY SMT
  <1>2. IsFiniteSet(1 .. Len(e))
    BY <1>1, FS_Interval
  <1>3. EndedBy(e, a) \subseteq 1 .. Len(e)
    BY <1>1 DEF EndedBy
  <1> QED
    BY <1>2, <1>3, FS_Subset, FS_CardinalityType DEF Upto

LEMMA UptoAll ==
    ASSUME NEW e \in Seq(Nat), NEW a \in Int, \A j \in DOMAIN e : e[j] <= a
    PROVE  Upto(e, a) = Len(e)
  <1>1. DOMAIN e = 1 .. Len(e) /\ Len(e) \in Nat
    BY SMT
  <1>2. EndedBy(e, a) = 1 .. Len(e)
    BY <1>1 DEF EndedBy
  <1>3. Cardinality(1 .. Len(e)) = Len(e)
    BY <1>1, FS_Interval
  <1> QED
    BY <1>2, <1>3 DEF Upto

\* A job that ends later does not change the count.
LEMMA UptoAppend ==
    ASSUME NEW e \in Seq(Nat), NEW a \in Int, NEW b \in Nat, a < b
    PROVE  Upto(Append(e, b), a) = Upto(e, a)
  <1>1. DOMAIN e = 1 .. Len(e) /\ Len(e) \in Nat /\ \A j \in 1 .. Len(e) : e[j] \in Nat
    BY SMT
  <1>2. DOMAIN Append(e, b) = 1 .. Len(e) + 1
    BY SMT
  <1>3. \A j \in 1 .. Len(e) : Append(e, b)[j] = e[j]
    BY SMT
  <1>4. Append(e, b)[Len(e) + 1] = b
    BY SMT
  <1>5. EndedBy(Append(e, b), a) = EndedBy(e, a)
    <2>1. ASSUME NEW j \in EndedBy(Append(e, b), a) PROVE j \in EndedBy(e, a)
      <3>1. j \in 1 .. Len(e) + 1 /\ Append(e, b)[j] <= a
        BY <1>2, <2>1 DEF EndedBy
      <3>2. j # Len(e) + 1
        BY <1>4, <3>1
      <3>3. j \in 1 .. Len(e)
        BY <1>1, <3>1, <3>2
      <3> QED
        BY <1>1, <1>3, <3>1, <3>3 DEF EndedBy
    <2>2. ASSUME NEW j \in EndedBy(e, a) PROVE j \in EndedBy(Append(e, b), a)
      <3>1. j \in 1 .. Len(e) /\ e[j] <= a
        BY <1>1, <2>2 DEF EndedBy
      <3>2. j \in 1 .. Len(e) + 1
        BY <1>1, <3>1
      <3> QED
        BY <1>2, <1>3, <3>1, <3>2 DEF EndedBy
    <2> QED
      BY <2>1, <2>2
  <1> QED
    BY <1>5 DEF Upto

\* The difference of two counts is the number of jobs between them.
LEMMA UptoBetween ==
    ASSUME NEW e \in Seq(Nat), NEW a \in Int, NEW b \in Int, a <= b
    PROVE  Upto(e, b) - Upto(e, a) = Cardinality({j \in DOMAIN e : a < e[j] /\ e[j] <= b})
  <1> DEFINE D == {j \in DOMAIN e : a < e[j] /\ e[j] <= b}
  <1>1. \A j \in DOMAIN e : e[j] \in Nat
    BY SMT
  <1>2. /\ IsFiniteSet(EndedBy(e, b)) /\ IsFiniteSet(EndedBy(e, a))
        /\ Upto(e, b) \in Nat /\ Upto(e, a) \in Nat
    BY UptoNat
  <1>3. D = EndedBy(e, b) \ EndedBy(e, a) /\ EndedBy(e, a) \subseteq EndedBy(e, b)
    BY <1>1 DEF EndedBy
  <1>4. EndedBy(e, b) \cap EndedBy(e, a) = EndedBy(e, a)
    BY <1>3
  <1> HIDE DEF D
  <1>5. Cardinality(D) = Cardinality(EndedBy(e, b))
                         - Cardinality(EndedBy(e, b) \cap EndedBy(e, a))
    BY <1>2, <1>3, FS_Difference
  <1>6. Cardinality(D) = Upto(e, b) - Upto(e, a)
    BY <1>4, <1>5 DEF Upto
  <1> QED
    BY <1>6 DEF D

-----------------------------------------------------------------------------
(* dcc_stats_update_running_total *)

\* The reset comes when the whole ring is out of date, and not before.
LEMMA ResetInTime ==
    ASSUME TypeOK, UpdateInv
    PROVE  /\ LastSlot \in Nat /\ AbsoluteSlot(now) \in Nat
           /\ LastSlot <= AbsoluteSlot(now)
           /\ Reset => LastSlot + N <= AbsoluteSlot(now)
           /\ ~Reset => AbsoluteSlot(now) <= LastSlot + N
  <1>1. now \in Nat /\ last \in Nat /\ last <= now /\ L \in Nat \ {0} /\ N \in Nat \ {0}
    BY RingAssumption DEF TypeOK, UpdateInv
  <1>2. now \div L \in Nat /\ last \div L \in Nat /\ last \div L <= now \div L
    BY <1>1, DivMonotone
  <1> DEFINE turn == last + N * L
  <1>a. turn \in Nat
    BY <1>1
  <1>b. turn \div L = last \div L + N
    <2>1. N \in Nat
      BY <1>1
    <2> QED
      BY <1>1, <2>1, DivTurns, Zenon
  <1>3. turn \in Nat /\ turn \div L = last \div L + N
    BY <1>a, <1>b
  <1>4. Reset <=> turn < now
    BY DEF Reset
  <1> HIDE DEF turn
  <1>5. Reset => last \div L + N <= now \div L
    BY <1>1, <1>3, <1>4, DivMonotone
  <1>6. ~Reset => now \div L <= last \div L + N
    BY <1>1, <1>3, <1>4, DivMonotone
  <1> QED
    BY <1>2, <1>5, <1>6 DEF LastSlot, AbsoluteSlot

\* What an update does to the ring, when it does not come one turn later: e is
\* the history after it, with no job before the current slot that is new.
LEMMA RingKept ==
    ASSUME IInv, NEW increment \in Nat, RunningTotal(increment), ~lapped', now' = now,
           NEW e \in Seq(Nat), ended' = e,
           \A a \in Int : a < AbsoluteSlot(now) => Upto(e, a) = Upto(ended, a)
    PROVE  RingTrue'
  <1> DEFINE c == LastSlot
             d == AbsoluteSlot(now)
  <1>0. c \in Nat /\ d \in Nat /\ c <= d /\ N \in Nat \ {0}
    BY ResetInTime, RingAssumption DEF IInv
  <1>a. d - c \in Nat /\ d = c + (d - c)
    BY <1>0
  <1>b. PICK k \in Nat : d = c + k
    BY <1>a
  <1>1. c \in Nat /\ d \in Nat /\ c <= d /\ N \in Nat \ {0} /\ k \in Nat /\ d = c + k
    BY <1>0, <1>b
  <1>2. LastSlot' = d /\ prev_slot' = d % N /\ prev_slot = c % N
    BY DEF RunningTotal, LastSlot, AbsoluteSlot, CurSlot, IInv, UpdateInv
  <1>3. \A a \in Int : c <= a => Upto(ended, a) = total
    <2> SUFFICES ASSUME NEW a \in Int, c <= a PROVE Upto(ended, a) = total
      OBVIOUS
    <2>1. \A j \in DOMAIN ended : ended[j] \in Nat /\ ended[j] <= c
      BY DEF IInv, TypeOK, UpdateInv
    <2>2. \A j \in DOMAIN ended : ended[j] <= a
      BY <1>1, <2>1
    <2> QED
      BY <2>2, UptoAll DEF IInv, TypeOK, UpdateInv
  <1>4. SUFFICES ASSUME NEW s \in Slots
                 PROVE  compile_timeseries'[s] = Upto(e, d - N + Age(s, d % N))
    BY <1>2 DEF RingTrue, Slots, Age
  <1>5. compile_timeseries'[s] = IF Reset \/ s \in Filled(prev_slot, CurSlot) THEN total
                                 ELSE compile_timeseries[s]
    BY DEF RunningTotal
  <1>6. Age(s, d % N) \in Slots
    <2>1. d % N \in Slots
      BY <1>1, DivMod DEF Slots
    <2> QED
      BY <2>1, AgeIs
  <1> DEFINE g == Age(s, d % N)
             a == d - N + g
  <1>7. a \in Int /\ a < d /\ g \in Int /\ 0 <= g
    <2>1. g \in 0 .. N - 1
      BY <1>6 DEF Slots
    <2> HIDE DEF c, d, g
    <2> QED
      BY <1>1, <2>1
  <1>8. Upto(e, a) = Upto(ended, a)
    <2> HIDE DEF a
    <2> QED
      BY <1>7
  <1>9. CASE Reset
    <2>1. c + N <= d
      BY <1>9, ResetInTime DEF IInv
    <2>2. c <= a
      BY <1>1, <1>7, <2>1
    <2>3. Upto(ended, a) = total
      BY <1>3, <1>7, <2>2
    <2> QED
      BY <1>5, <1>8, <1>9, <2>3
  <1>10. CASE ~Reset
    <2>1. ~lapped /\ k # N /\ d <= c + N
      <3>1. ~lapped /\ d - c # N
        BY <1>10 DEF RunningTotal, LastSlot
      <3> QED
        BY <1>1, <1>10, <3>1, ResetInTime DEF IInv
    <2>2. k \in 0 .. N - 1
      BY <1>1, <2>1
    <2> DEFINE f == Age(s, c % N)
    <2>3. /\ d % N \in Slots /\ c % N \in Slots
          /\ Age(d % N, c % N) = k
          /\ g = IF f < k THEN f - k + N ELSE f - k
      <3>1. /\ c % N \in Slots /\ (c + k) % N \in Slots
            /\ Age((c + k) % N, c % N) = k
            /\ Age(s, (c + k) % N) = IF f < k THEN f - k + N ELSE f - k
        <4>1. c \in Nat
          BY <1>1
        <4> HIDE DEF c
        <4> QED
          BY <4>1, <2>2, AgeLater
      <3>2. d = c + k
        BY <1>1
      <3> QED
        BY <3>1, <3>2, Zenon
    <2>4. f \in Int /\ 0 <= f
      BY <2>3, AgeIs DEF Slots
    <2>5. s \in Filled(prev_slot, CurSlot) <=> f < k
      BY <1>2, <2>3 DEF Filled, CurSlot, Age
    <2>6. RingTrue
      BY <2>1 DEF IInv
    <2>7. compile_timeseries[s] = Upto(ended, c - N + f)
      BY <1>2, <2>6 DEF RingTrue
    <2> HIDE DEF g, f, c, d
    <2>8. CASE f < k
      <3>1. a = c + f /\ c <= a
        BY <1>1, <1>7, <2>3, <2>4, <2>8
      <3>2. Upto(ended, a) = total
        BY <1>3, <1>7, <3>1
      <3> QED
        BY <1>5, <1>8, <2>5, <2>8, <3>2 DEF g, d
    <2>9. CASE ~(f < k)
      <3>1. a = c - N + f
        BY <1>1, <1>7, <2>3, <2>4, <2>9
      <3> QED
        BY <1>5, <1>8, <1>10, <2>5, <2>7, <2>9, <3>1 DEF g, d
    <2> QED
      BY <2>8, <2>9
  <1> QED
    BY <1>9, <1>10

\* Every update keeps the invariant: increment jobs ended in the current slot.
LEMMA UpdateKeepsInv ==
    ASSUME IInv, NEW increment \in {0, 1}, RunningTotal(increment), now' = now,
           ended' = IF increment = 1 THEN Append(ended, AbsoluteSlot(now)) ELSE ended,
           (report = NoReport \/ report \in [Spans -> Int])'
    PROVE  IInv'
  <1> DEFINE d == AbsoluteSlot(now)
  <1>1. d \in Nat /\ LastSlot \in Nat /\ LastSlot <= d /\ LastSlot' = d
    BY ResetInTime DEF IInv, RunningTotal, LastSlot, AbsoluteSlot
  <1>2. ended \in Seq(Nat) /\ Len(ended) \in Nat /\ total = Len(ended)
    BY DEF IInv, TypeOK, UpdateInv
  <1>3. N \in Nat \ {0} /\ CurSlot \in Slots /\ prev_slot' = d % N
    <2>1. N \in Nat \ {0}
      BY RingAssumption
    <2>2. d % N \in 0 .. N - 1
      <3>1. d \in Int
        BY <1>1
      <3> HIDE DEF d
      <3> QED
        BY <2>1, <3>1
    <2> QED
      BY <2>1, <2>2 DEF CurSlot, Slots, RunningTotal
  <1>4. ended' \in Seq(Nat) /\ Len(ended') = Len(ended) + increment
    <2>1. CASE increment = 1
      BY <1>1, <1>2, <2>1
    <2>2. CASE increment = 0
      BY <1>2, <2>2
    <2> QED
      BY <2>1, <2>2
  <1>5. \A j \in DOMAIN ended' : ended'[j] <= d
    <2> HIDE DEF d
    <2>1. \A j \in DOMAIN ended : ended[j] \in Nat /\ ended[j] <= LastSlot
      BY <1>2 DEF IInv, UpdateInv
    <2>2. \A j \in DOMAIN ended : ended[j] <= d
      BY <1>1, <2>1
    <2>3. CASE increment = 1
      <3>1. ended' = Append(ended, d)
        BY <2>3 DEF d
      <3> SUFFICES ASSUME NEW j \in DOMAIN ended' PROVE ended'[j] <= d
        OBVIOUS
      <3>2. DOMAIN ended' = 1 .. Len(ended) + 1 /\ DOMAIN ended = 1 .. Len(ended)
        BY <1>1, <1>2, <3>1
      <3>3. CASE j \in DOMAIN ended
        <4>1. ended'[j] = ended[j]
          BY <1>2, <3>1, <3>2, <3>3
        <4> QED
          BY <2>2, <3>3, <4>1
      <3>4. CASE j = Len(ended) + 1
        <4>1. ended'[j] = d
          BY <1>2, <3>1, <3>4
        <4> QED
          BY <1>1, <4>1
      <3> QED
        BY <1>2, <3>2, <3>3, <3>4
    <2>4. CASE increment = 0
      BY <2>2, <2>4
    <2> QED
      BY <2>3, <2>4
  <1>6. \A a \in Int : a < d => Upto(ended', a) = Upto(ended, a)
    <2> HIDE DEF d
    <2>1. CASE increment = 1
      <3>1. ended' = Append(ended, d)
        BY <2>1 DEF d
      <3> QED
        BY <1>1, <1>2, <3>1, UptoAppend
    <2>2. CASE increment = 0
      BY <2>2
    <2> QED
      BY <2>1, <2>2
  <1>7. TypeOK'
    <2>1. now' \in Nat /\ last' \in Nat
      BY DEF IInv, TypeOK, RunningTotal
    <2>2. compile_timeseries' \in [Slots -> Nat]
      BY DEF IInv, TypeOK, RunningTotal
    <2>3. prev_slot' \in Slots
      BY <1>3 DEF RunningTotal
    <2>4. total' \in Nat
      BY DEF IInv, TypeOK, RunningTotal
    <2>5. lapped' \in BOOLEAN
      BY DEF IInv, TypeOK, RunningTotal
    <2>6. Slots' = Slots
      BY DEF Slots
    <2> QED
      BY <1>4, <2>1, <2>2, <2>3, <2>4, <2>5, <2>6 DEF TypeOK
  <1>8. UpdateInv'
    <2>1. last' <= now' /\ prev_slot' = LastSlot' % N
      BY <1>1, <1>3 DEF RunningTotal, IInv, TypeOK
    <2>2. total' = Len(ended')
      BY <1>2, <1>4 DEF RunningTotal
    <2> QED
      BY <1>1, <1>5, <2>1, <2>2 DEF UpdateInv
  <1>9. ~lapped' => RingTrue'
    <2> SUFFICES ASSUME ~lapped' PROVE RingTrue'
      OBVIOUS
    <2>1. PICK e \in Seq(Nat) : ended' = e
      BY <1>4
    <2>2. \A a \in Int : a < AbsoluteSlot(now) => Upto(e, a) = Upto(ended, a)
      BY <1>6, <2>1
    <2>3. increment \in Nat
      OBVIOUS
    <2> QED
      BY <2>1, <2>2, <2>3, RingKept
  <1> QED
    BY <1>7, <1>8, <1>9 DEF IInv

LEMMA TotalsType ==
    ASSUME compile_timeseries' \in [Slots -> Nat], now \in Nat
    PROVE  Totals \in [Spans -> Int]
  <1>1. N \in Nat \ {0} /\ L \in Nat \ {0} /\ Spans \subseteq 1 .. N - 1
    BY RingAssumption
  <1>2. CurSlot \in 0 .. N - 1
    BY <1>1, DivMod DEF CurSlot, AbsoluteSlot
  <1>3. ASSUME NEW b \in 1 .. N PROVE (CurSlot + N - b) % N \in Slots
    <2>1. CurSlot + N - b \in Int
      BY <1>1, <1>2
    <2> QED
      BY <1>1, <2>1, DivMod DEF Slots
  <1>4. \A b \in 1 .. N : compile_timeseries'[(CurSlot + N - b) % N] \in Nat
    BY <1>3
  <1>5. 1 \in 1 .. N /\ \A s \in Spans : s \in 1 .. N
    BY <1>1
  <1>6. \A s \in Spans : compile_timeseries'[(CurSlot + N - 1) % N]
                         - compile_timeseries'[(CurSlot + N - s) % N] \in Int
    BY <1>4, <1>5
  <1> QED
    BY <1>6 DEF Totals

LEMMA InitInv ==
    ASSUME Init
    PROVE  IInv
  <1>1. N \in Nat \ {0} /\ L \in Nat \ {0} /\ now \in Nat
    BY RingAssumption DEF Init, Start
  <1>2. LastSlot = 0 /\ 0 % N = 0 /\ 0 \in Slots
    <2>1. 0 = L * 0 + 0 /\ 0 = N * 0 + 0 /\ 0 \in 0 .. L - 1 /\ 0 \in 0 .. N - 1
      BY <1>1
    <2>2. 0 \div L = 0
      BY <1>1, <2>1, DivUnique
    <2>3. 0 % N = 0
      BY <1>1, <2>1, DivUnique
    <2> QED
      BY <2>1, <2>2, <2>3 DEF LastSlot, AbsoluteSlot, Init, Slots
  <1>3. ended = <<>> /\ Len(ended) = 0 /\ ended \in Seq(Nat) /\ DOMAIN ended = {}
    BY DEF Init
  <1>4. TypeOK
    BY <1>1, <1>2, <1>3 DEF TypeOK, Init
  <1>5. UpdateInv
    BY <1>1, <1>2, <1>3 DEF UpdateInv, Init
  <1>6. RingTrue
    <2> SUFFICES ASSUME NEW s \in Slots
                 PROVE  compile_timeseries[s] = Upto(ended, LastSlot - N + Age(s, prev_slot))
      BY DEF RingTrue
    <2>1. Upto(ended, LastSlot - N + Age(s, prev_slot)) = 0
      <3>1. EndedBy(ended, LastSlot - N + Age(s, prev_slot)) = {}
        BY <1>3 DEF EndedBy
      <3> QED
        BY <3>1, FS_EmptySet DEF Upto
    <2> QED
      BY <2>1 DEF Init
  <1> QED
    BY <1>4, <1>5, <1>6 DEF IInv

-----------------------------------------------------------------------------
(* The steps *)

LEMMA ProcessInv ==
    ASSUME IInv, Process
    PROVE  IInv'
  <1>1. RunningTotal(1) /\ now' = now /\ ended' = Append(ended, AbsoluteSlot(now))
    BY DEF Process
  <1>2. report' = NoReport /\ NoReport' = NoReport
    BY DEF Process, NoReport
  <1>3. 1 \in {0, 1}
    OBVIOUS
  <1>4. ended' = IF 1 = 1 THEN Append(ended, AbsoluteSlot(now)) ELSE ended
    BY <1>1
  <1> QED
    BY <1>1, <1>2, <1>3, <1>4, UpdateKeepsInv, Zenon

LEMMA ServiceInv ==
    ASSUME IInv, Service
    PROVE  IInv'
  <1>1. RunningTotal(0) /\ now' = now /\ ended' = ended
    BY DEF Service
  <1>2. compile_timeseries' \in [Slots -> Nat] /\ now \in Nat
    BY <1>1 DEF IInv, TypeOK, RunningTotal
  <1>3. report' \in [Spans -> Int]
    BY <1>2, TotalsType DEF Service
  <1>4. 0 \in {0, 1} /\ 0 # 1
    OBVIOUS
  <1>5. ended' = IF 0 = 1 THEN Append(ended, AbsoluteSlot(now)) ELSE ended
    BY <1>1, <1>4, Zenon
  <1> QED
    BY <1>1, <1>3, <1>4, <1>5, UpdateKeepsInv, Zenon

LEMMA WaitInv ==
    ASSUME IInv, Wait
    PROVE  IInv'
  <1>1. /\ UNCHANGED <<compile_timeseries, prev_slot, last, total, ended, lapped>>
        /\ report' = NoReport /\ \E d \in 1 .. MaxWait : now' = now + d
    BY DEF Wait
  <1>2. MaxWait \in Nat
    BY RingAssumption
  <1>3. now' \in Nat /\ now <= now'
    BY <1>1, <1>2 DEF IInv, TypeOK
  <1>4. TypeOK'
    BY <1>1, <1>3 DEF IInv, TypeOK, Slots, NoReport
  <1>5. UpdateInv'
    BY <1>1, <1>3 DEF IInv, TypeOK, UpdateInv, LastSlot, AbsoluteSlot
  <1>6. RingTrue' = RingTrue
    BY <1>1 DEF RingTrue, Slots, LastSlot, AbsoluteSlot, Age, Upto, EndedBy
  <1> QED
    BY <1>1, <1>4, <1>5, <1>6 DEF IInv

LEMMA StutterInv ==
    ASSUME IInv, UNCHANGED vars
    PROVE  IInv'
  <1>1. UNCHANGED <<now, compile_timeseries, prev_slot, last, total, ended, report, lapped>>
    BY DEF vars
  <1>2. TypeOK'
    BY <1>1 DEF IInv, TypeOK, Slots, NoReport
  <1>3. UpdateInv'
    BY <1>1 DEF IInv, UpdateInv, LastSlot, AbsoluteSlot
  <1>4. RingTrue' = RingTrue
    BY <1>1 DEF RingTrue, Slots, LastSlot, AbsoluteSlot, Age, Upto, EndedBy
  <1> QED
    BY <1>1, <1>2, <1>3, <1>4 DEF IInv

\* The ring is right at all times (stats.c, dcc_stats_update_running_total):
\* each slot holds the number of jobs that had ended when the slot it stands for
\* was over, for any size of the ring and length of the slots, any pattern of
\* jobs and readers, and across resets, as long as no update comes exactly one
\* turn after the one before.
THEOREM RingInvariant == Spec => []IInv
  <1>1. Init => IInv
    BY InitInv
  <1>2. IInv /\ [Next]_vars => IInv'
    <2> SUFFICES ASSUME IInv, [Next]_vars PROVE IInv'
      OBVIOUS
    <2>1. CASE Process
      BY <2>1, ProcessInv
    <2>2. CASE Service
      BY <2>2, ServiceInv
    <2>3. CASE Wait
      BY <2>3, WaitInv
    <2>4. CASE UNCHANGED vars
      BY <2>4, StutterInv
    <2> QED
      BY <2>1, <2>2, <2>3, <2>4 DEF Next
  <1> QED
    BY <1>1, <1>2, PTL DEF Spec

-----------------------------------------------------------------------------
(* What is reported *)

\* The slot back slots before the current one.
LEMMA AgeBack ==
    ASSUME NEW p \in Slots, NEW back \in 1 .. N
    PROVE  (p + N - back) % N \in Slots /\ Age((p + N - back) % N, p) = N - back
  <1>1. N \in Nat \ {0} /\ p \in Nat /\ p < N /\ back \in Nat /\ 1 <= back /\ back <= N
    BY RingAssumption DEF Slots
  <1> DEFINE x == p + N - back
  <1>2. x \in Nat /\ x < 2 * N
    BY <1>1
  <1>3. x % N = IF x < N THEN x ELSE x - N
    <2> HIDE DEF x
    <2> QED
      BY <1>1, <1>2, ModSmall
  <1> DEFINE s == x % N
  <1>4. s \in Slots /\ s = IF p < back THEN p + N - back ELSE p - back
    BY <1>1, <1>3 DEF Slots
  <1> HIDE DEF s
  <1>5. Age(s, p) = IF s >= p THEN s - p ELSE s - p + N
    BY <1>4, AgeIs
  <1>6. Age(s, p) = N - back
    BY <1>1, <1>4, <1>5
  <1> QED
    BY <1>4, <1>6 DEF s

\* A reader sees the difference of two counts, which is the jobs between them.
LEMMA ServiceTrue ==
    ASSUME IInv, Service, ~lapped'
    PROVE  \A s \in Spans : report'[s] = Cardinality(Since(s)')
  <1>1. IInv' /\ RingTrue'
    <2>1. IInv'
      BY ServiceInv
    <2> QED
      BY <2>1 DEF IInv
  <1> DEFINE d == AbsoluteSlot(now)
  <1>2. now' = now /\ ended' = ended /\ last' = now /\ report' = Totals /\ prev_slot' = CurSlot
    BY DEF Service, RunningTotal
  <1>3. LastSlot' = d /\ d \in Nat /\ ended \in Seq(Nat) /\ CurSlot \in Slots
    BY <1>1, <1>2, ResetInTime DEF LastSlot, AbsoluteSlot, IInv, TypeOK, Slots
  <1>4. N \in Nat \ {0} /\ Spans \subseteq 1 .. N - 1
    BY RingAssumption
  <1>5. ASSUME NEW b \in 1 .. N
        PROVE  compile_timeseries'[(CurSlot + N - b) % N] = Upto(ended, d - b)
    <2> DEFINE z == (CurSlot + N - b) % N
    <2>1. z \in Slots /\ Age(z, CurSlot) = N - b
      BY <1>3, AgeBack
    <2> HIDE DEF z
    <2>2. compile_timeseries'[z] = Upto(ended, d - N + Age(z, CurSlot))
      BY <1>1, <1>2, <1>3, <2>1 DEF RingTrue, Slots, Age, Upto, EndedBy
    <2>3. d - N + (N - b) = d - b
      BY <1>3, <1>4
    <2> QED
      BY <2>1, <2>2, <2>3 DEF z
  <1> SUFFICES ASSUME NEW s \in Spans PROVE report'[s] = Cardinality(Since(s)')
    OBVIOUS
  <1>6. s \in Nat /\ 1 <= s /\ 1 \in 1 .. N /\ s \in 1 .. N
    BY <1>4
  <1>7. report'[s] = compile_timeseries'[(CurSlot + N - 1) % N]
                     - compile_timeseries'[(CurSlot + N - s) % N]
    BY <1>2 DEF Totals
  <1>8. report'[s] = Upto(ended, d - 1) - Upto(ended, d - s)
    BY <1>5, <1>6, <1>7
  <1> HIDE DEF d
  <1>9. d - s \in Int /\ d - 1 \in Int /\ d - s <= d - 1
    BY <1>3, <1>6
  <1>10. report'[s] = Cardinality({j \in DOMAIN ended : d - s < ended[j] /\ ended[j] <= d - 1})
    BY <1>3, <1>8, <1>9, UptoBetween
  <1>11. Since(s)' = {j \in DOMAIN ended : d - s < ended[j] /\ ended[j] <= d - 1}
    <2>1. \A j \in DOMAIN ended : ended[j] \in Nat
      BY <1>3
    <2>2. \A j \in DOMAIN ended : ended[j] < d <=> ended[j] <= d - 1
      BY <1>3, <2>1
    <2>3. Since(s)' = {j \in DOMAIN ended : d - s < ended[j] /\ ended[j] < d}
      BY <1>2 DEF Since, AbsoluteSlot, d
    <2> QED
      BY <2>2, <2>3
  <1> QED
    BY <1>10, <1>11

\* The totals that a reader of the statistics port is sent (stats.c,
\* dcc_stats_get_compile_totals) are the numbers of jobs that ended in the slots
\* they claim to cover, for every ring, slot length and set of spans, however
\* the jobs and readers are spread over turns of the ring and resets, unless an
\* update came exactly one turn after the one before.
THEOREM TotalsCorrect == Spec => []TotalsTrue
  <1>1. Init => TotalsTrue
    BY DEF Init, TotalsTrue
  <1>2. IInv /\ TotalsTrue /\ [Next]_vars => TotalsTrue'
    <2> SUFFICES ASSUME IInv, TotalsTrue, [Next]_vars PROVE TotalsTrue'
      OBVIOUS
    <2>1. CASE Process \/ Wait
      BY <2>1 DEF Process, Wait, TotalsTrue, NoReport
    <2>2. CASE Service
      <3>1. ASSUME ~lapped' PROVE \A s \in Spans : report'[s] = Cardinality(Since(s)')
        BY <2>2, <3>1, ServiceTrue
      <3> QED
        BY <3>1 DEF TotalsTrue
    <2>3. CASE UNCHANGED vars
      BY <2>3 DEF TotalsTrue, Since, AbsoluteSlot, NoReport, vars
    <2> QED
      BY <2>1, <2>2, <2>3 DEF Next
  <1> QED
    BY <1>1, <1>2, RingInvariant, PTL DEF Spec
=============================================================================
