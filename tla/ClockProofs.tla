---------------------------- MODULE ClockProofs ----------------------------
(***************************************************************************)
(* Proofs about MonotonicTimer: the resources of readFrequency(), the      *)
(* verdict of callback() and the time that get() computes.                 *)
(***************************************************************************)
EXTENDS MonotonicTimer, TLAPS

----------------------------------------------------------------------------
(* Arithmetic *)

(* Multiplication by a positive number keeps the order. *)
LEMMA Times ==
    ASSUME NEW a \in Int, NEW b \in Int, NEW c \in Nat \ {0}
    PROVE  /\ a < b <=> c * a < c * b
           /\ a <= b <=> c * a <= c * b
OBVIOUS

(* Multiplication by a natural number does not reverse the order. *)
LEMMA TimesLeq ==
    ASSUME NEW a \in Int, NEW b \in Int, NEW c \in Nat, a <= b
    PROVE  c * a <= c * b
OBVIOUS

(* Two remainders that differ by a multiple of the divisor are equal. *)
LEMMA SameRemainder ==
    ASSUME NEW b \in Nat \ {0}, NEW x \in 0 .. b - 1, NEW y \in 0 .. b - 1, NEW k \in Int,
           x = y + b * k
    PROVE  x = y
OBVIOUS

(* What quotient and remainder are. *)
LEMMA Division ==
    ASSUME NEW a \in Int, NEW b \in Nat \ {0}
    PROVE  /\ a \div b \in Int
           /\ a % b \in 0 .. b - 1
           /\ a = b * (a \div b) + (a % b)
OBVIOUS

(* A quotient of natural numbers, by its bounds. *)
LEMMA Quotient ==
    ASSUME NEW a \in Nat, NEW b \in Nat \ {0}
    PROVE  /\ a \div b \in Nat
           /\ b * (a \div b) <= a
           /\ a < b * (a \div b) + b
OBVIOUS

(* The remainder is determined by its range. *)
LEMMA Remainder ==
    ASSUME NEW b \in Nat \ {0}, NEW x \in 0 .. b - 1, NEW k \in Int, NEW a \in Int,
           a = b * k + x
    PROVE  a % b = x
<1> DEFINE q == a \div b
           r == a % b
<1>1. q \in Int /\ r \in 0 .. b - 1 /\ a = b * q + r
  BY Division, Zenon
<1> HIDE DEF q, r
<1>2. r = x + b * (k - q) /\ k - q \in Int
  BY <1>1
<1>3. r = x
  BY <1>1, <1>2, SameRemainder, Zenon
<1> QED
  BY <1>3, Zenon DEF r

(* A number below the divisor is its own remainder. *)
LEMMA SmallRemainder ==
    ASSUME NEW b \in Nat \ {0}, NEW x \in 0 .. b - 1
    PROVE  x % b = x
<1>1. x = b * 0 + x /\ x \in Int /\ 0 \in Int
  OBVIOUS
<1> QED
  BY <1>1, Remainder, Zenon

(* Adding before or after taking the remainder makes no difference. *)
LEMMA RemainderOfSum ==
    ASSUME NEW a \in Int, NEW b \in Nat \ {0}, NEW c \in Int
    PROVE  ((a % b) + c) % b = (a + c) % b
<1> DEFINE q == a \div b
           r == a % b
           s == a + c
           p == s \div b
           x == s % b
           d == p - q
           e == r + c
<1>1. q \in Int /\ r \in 0 .. b - 1 /\ a = b * q + r
  BY Division, Zenon
<1>2. p \in Int /\ x \in 0 .. b - 1 /\ s = b * p + x
  <2>1. s \in Int
    OBVIOUS
  <2> HIDE DEF s
  <2> QED
    BY <2>1, Division, Zenon
<1>3. s = a + c
  BY Zenon
<1> HIDE DEF q, r, p, x, s
<1>4. e = b * d + x /\ e \in Int /\ d \in Int
  BY <1>1, <1>2, <1>3
<1> HIDE DEF d, e
<1>5. e % b = x
  BY <1>2, <1>4, Remainder, Zenon
<1> QED
  BY <1>5, Zenon DEF e, r, x, s

(* The difference of two counters is the difference of what they count,    *)
(* if that is less than a turn, although each may have wrapped around.     *)
LEMMA RemainderOfDifference ==
    ASSUME NEW b \in Nat \ {0}, NEW u \in Nat, NEW v \in Nat, v - u \in 0 .. b - 1
    PROVE  ((v % b) - (u % b)) % b = v - u
<1> DEFINE p == v \div b
           q == u \div b
           x == v % b
           y == u % b
           d == q - p
           e == x - y
           w == v - u
<1>1. p \in Int /\ x \in 0 .. b - 1 /\ v = b * p + x
  BY Division
<1>2. q \in Int /\ y \in 0 .. b - 1 /\ u = b * q + y
  BY Division
<1> HIDE DEF p, q, x, y
<1>3. e = b * d + w /\ e \in Int /\ d \in Int /\ w \in 0 .. b - 1
  BY <1>1, <1>2
<1> HIDE DEF d, e
<1>4. e % b = w
  <2> HIDE DEF w
  <2> QED
    BY <1>3, Remainder, Zenon
<1> QED
  BY <1>4, Zenon DEF e, x, y

(* From the verdict on the frequency to the time.  With m the multiplier,  *)
(* E the elapsed ticks and G the time that get() makes of them, G is as    *)
(* close to dt as the threshold n / d says, up to the rounding.            *)
LEMMA TimeFollowsFrequency ==
    ASSUME NEW f \in Nat \ {0}, NEW u \in Nat \ {0}, NEW s \in Nat \ {0}, NEW d \in Nat \ {0},
           NEW n \in Nat, NEW dt \in Nat, NEW E \in Nat, NEW m \in Nat, NEW G \in Nat,
           f * m <= u * s, u * s < f * m + f,
           s * G <= E * m, E * m < s * G + s,
           (f * dt - u * E) * d < n * f * dt,
           (u * E - f * dt) * d < n * f * dt
    PROVE  /\ (G - dt) * d * s < n * dt * s + (E + s) * d
           /\ (dt - G) * d * s < n * dt * s + (E + s) * d
<1>1. f * (s * G) <= f * (E * m)
  BY Times
<1>2. E * (f * m) <= E * (u * s)
  BY TimesLeq
<1>3. s * (f * G) <= s * (u * E)
  BY <1>1, <1>2
<1>4. f * G <= u * E
  BY <1>3, Times
<1>5. (G - dt) * d * s < n * dt * s + (E + s) * d
  <2>1. d * (f * G - f * dt) <= d * (u * E - f * dt)
    BY <1>4, TimesLeq
  <2>2. f * ((G - dt) * d) < f * (n * dt)
    BY <2>1
  <2>3. (G - dt) * d < n * dt
    BY <2>2, Times
  <2>4. s * ((G - dt) * d) < s * (n * dt)
    BY <2>3, Times
  <2>5. (E + s) * d \in Nat
    OBVIOUS
  <2> QED
    BY <2>4, <2>5
<1>6. (dt - G) * d * s < n * dt * s + (E + s) * d
  <2>1. E * (u * s) <= E * (f * m + f)
    BY TimesLeq
  <2>2. f * (E * m) < f * (s * G + s)
    BY Times
  <2>3. s * (u * E) < f * (s * G) + f * s + f * E
    BY <2>1, <2>2
  <2>4. s * (f * dt - u * E) > f * ((dt - G) * s) - f * (s + E)
    BY <2>3
  <2>5. d * (s * (f * dt - u * E)) > d * (f * ((dt - G) * s) - f * (s + E))
    BY <2>4, Times
  <2>6. s * ((f * dt - u * E) * d) < s * (n * f * dt)
    BY Times
  <2>7. f * ((dt - G) * d * s) < f * (n * dt * s + (E + s) * d)
    BY <2>5, <2>6
  <2> QED
    BY <2>7, Times
<1> QED
  BY <1>5, <1>6, Zenon

----------------------------------------------------------------------------
(* The inductive invariant *)

(* What readFrequency() holds at each of its steps. *)
Holding ==
    /\ pc \in {"checkTsc", "perfOpen"} => held = {}
    /\ pc \in {"sysconf", "mmap"} => held = {"fileDescriptor"}
    /\ PerfReleased

(* The reads are in the past, and while valid is set the last pair of them *)
(* has passed the test of callback().                                      *)
Verdict ==
    /\ startTime <= time
    /\ pc \notin {"idle", "readTsc"} => readTime = 0
    /\ pc = "readTsc" => startTime <= readTime
    /\ Judged /\ valid => startTime <= readTime /\ ~Deviates(readTime, readTsc)

IInv == TypeOK /\ Holding /\ Verdict

(* The assumptions on the constants, one by one. *)
LEMMA Constants ==
    /\ NANOSECONDS_PER_MICROSECOND \in Nat \ {0}
    /\ frequency \in Nat \ {0}
    /\ shift2 \in Nat \ {0}
    /\ UINT64_MODULUS \in Nat \ {0}
    /\ thresholdDen \in Nat \ {0}
    /\ thresholdNum \in Nat
    /\ Interval \in Nat
    /\ Delay \in Nat
    /\ BootTime \in Nat
    /\ MaxTime \in Nat
    /\ FirstTsc \in 0 .. UINT64_MODULUS - 1
    /\ Rates \subseteq Nat
BY PositiveAssumption, RangeAssumption

(* The invariant holds when the program starts. *)
LEMMA InitIInv == Init => IInv
<1> SUFFICES ASSUME Init PROVE IInv
  BY Zenon
<1>1. {valid, drifted} \subseteq BOOLEAN
  BY Zenon DEF Init
<1>2. TypeOK
  BY <1>1, Constants DEF Init, TypeOK
<1>3. Holding
  BY Zenon DEF Init, Holding, PerfReleased
<1>4. Verdict
  BY Constants DEF Init, Verdict, Judged
<1> QED
  BY <1>2, <1>3, <1>4, Zenon DEF IInv

(* The clocks of the machine keep the invariant. *)
LEMMA ClocksRunIInv ==
    ASSUME IInv, NEW elapsed \in {0, 1}, NEW rate \in Rates, ClocksRun(elapsed, rate)
    PROVE  IInv'
<1> DEFINE sum == tsc + rate
<1>1. sum \in Int /\ UINT64_MODULUS \in Nat \ {0}
  BY Constants DEF IInv, TypeOK
<1>2. tsc' \in 0 .. UINT64_MODULUS - 1
  <2>1. tsc' = sum % UINT64_MODULUS
    BY Zenon DEF ClocksRun
  <2> HIDE DEF sum
  <2> QED
    BY <1>1, <2>1, Division, Zenon
<1>3. TypeOK'
  <2>1. {time, startTime, readTime, since, steps}' \subseteq Nat
    BY DEF IInv, TypeOK, ClocksRun, start, reads
  <2>2. {valid, drifted}' \subseteq BOOLEAN
    BY Zenon DEF IInv, TypeOK, ClocksRun
  <2>3. pc' = pc /\ held' = held /\ startTsc' = startTsc /\ readTsc' = readTsc
    BY Zenon DEF ClocksRun, start, reads
  <2> QED
    BY <1>2, <2>1, <2>2, <2>3, Zenon DEF IInv, TypeOK
<1>4. Holding'
  BY Zenon DEF IInv, Holding, PerfReleased, ClocksRun
<1>5. Verdict'
  <2>1. startTime' = startTime /\ time' >= time /\ startTime \in Nat /\ time \in Nat /\ time' \in Nat
    BY DEF IInv, TypeOK, ClocksRun, start
  <2>2. UNCHANGED <<pc, startTime, startTsc, readTime, readTsc, valid>>
    BY Zenon DEF ClocksRun, start, reads
  <2> QED
    BY <2>1, <2>2 DEF IInv, Verdict, Judged, Deviates, Elapsed
<1> QED
  BY <1>3, <1>4, <1>5, Zenon DEF IInv

(* So do the steps of the constructor. *)
LEMMA ConstructorIInv ==
    ASSUME IInv, Constructor
    PROVE  IInv'
<1>1. UNCHANGED <<time, tsc, steps, drifted, readTime, readTsc, valid>>
  BY Zenon DEF Constructor, CheckTsc, PerfEventOpen, SysconfPageSize, Mmap, ReadPage, ReadStartTime,
         ReadStartTsc, Frame, clocks, reads
<1>2. Verdict'
  <2>1. pc \notin {"idle", "readTsc"} /\ pc' # "readTsc" /\ readTime = 0
    BY Zenon DEF IInv, Verdict, Constructor, CheckTsc, PerfEventOpen, SysconfPageSize, Mmap, ReadPage,
           ReadStartTime, ReadStartTsc
  <2>2. startTime' <= time
    BY DEF IInv, TypeOK, Verdict, Constructor, CheckTsc, PerfEventOpen, SysconfPageSize, Mmap,
           ReadPage, ReadStartTime, ReadStartTsc, start
  <2> QED
    BY <1>1, <2>1, <2>2, Zenon DEF Verdict, Judged
<1>3. TypeOK'
  <2>1. {startTime, since}' \subseteq Nat /\ startTsc' \in 0 .. UINT64_MODULUS - 1
    BY DEF IInv, TypeOK, Constructor, CheckTsc, PerfEventOpen, SysconfPageSize, Mmap,
           ReadPage, ReadStartTime, ReadStartTsc, start
  <2>2. /\ held' \subseteq {"fileDescriptor", "page"}
        /\ pc' \in {"perfOpen", "sysconf", "mmap", "readPage", "startTime", "startTsc", "idle", "thrown"}
    BY Zenon DEF IInv, TypeOK, Constructor, CheckTsc, PerfEventOpen, SysconfPageSize, Mmap,
           ReadPage, ReadStartTime, ReadStartTsc
  <2>3. {valid, drifted}' \subseteq BOOLEAN
    BY <1>1, Zenon DEF IInv, TypeOK
  <2> QED
    BY <1>1, <2>1, <2>2, <2>3, Zenon DEF IInv, TypeOK
<1>4. Holding'
  BY Zenon DEF IInv, TypeOK, Holding, PerfReleased, Constructor, CheckTsc, PerfEventOpen,
         SysconfPageSize, Mmap, ReadPage, ReadStartTime, ReadStartTsc
<1> QED
  BY <1>2, <1>3, <1>4, Zenon DEF IInv

(* And so do the two steps of callback(). *)
LEMMA CallbackIInv ==
    ASSUME IInv, ReadTime \/ ReadTscAndCompare
    PROVE  IInv'
<1>1. CASE ReadTime
  <2>1. TypeOK'
    <3>1. {valid, drifted}' \subseteq BOOLEAN
      BY <1>1, Zenon DEF IInv, TypeOK, ReadTime, clocks
    <3> QED
      BY <1>1, <3>1 DEF IInv, TypeOK, ReadTime, clocks, start
  <2>2. Holding'
    BY <1>1, Zenon DEF IInv, Holding, PerfReleased, ReadTime
  <2>3. Verdict'
    BY <1>1, Zenon DEF IInv, Verdict, Judged, ReadTime, clocks, start
  <2> QED
    BY <2>1, <2>2, <2>3, Zenon DEF IInv
<1>2. CASE ReadTscAndCompare
  <2>1. TypeOK'
    <3>1. {valid, drifted}' \subseteq BOOLEAN
      BY <1>2, Zenon DEF IInv, TypeOK, ReadTscAndCompare, clocks
    <3>2. UNCHANGED <<held, time, tsc, steps, startTime, startTsc, readTime>>
          /\ pc' = "idle" /\ since' = 0 /\ readTsc' = tsc
      BY <1>2, Zenon DEF ReadTscAndCompare, clocks, start
    <3> QED
      BY <3>1, <3>2 DEF IInv, TypeOK
  <2>2. Holding'
    BY <1>2, Zenon DEF IInv, Holding, PerfReleased, ReadTscAndCompare
  <2>3. Verdict'
    <3>1. /\ UNCHANGED <<time, startTime, startTsc, readTime>>
          /\ pc = "readTsc" /\ pc' = "idle" /\ readTsc' = tsc
      BY <1>2, Zenon DEF ReadTscAndCompare, clocks, start
    <3>2. valid' => ~Deviates(readTime, tsc)
      BY <1>2, Zenon DEF ReadTscAndCompare
    <3>3. Deviates(readTime, readTsc)' <=> Deviates(readTime, tsc)
      BY <3>1, Zenon DEF Deviates, Elapsed
    <3> QED
      BY <3>1, <3>2, <3>3, Zenon DEF IInv, Verdict, Judged
  <2> QED
    BY <2>1, <2>2, <2>3, Zenon DEF IInv
<1> QED
  BY <1>1, <1>2, Zenon

(* Every step keeps the invariant. *)
LEMMA NextIInv ==
    ASSUME IInv, [Next]_vars
    PROVE  IInv'
<1>1. CASE \E elapsed \in {0, 1}, rate \in Rates : ClocksRun(elapsed, rate)
  BY <1>1, ClocksRunIInv, Zenon
<1>2. CASE Constructor
  BY <1>2, ConstructorIInv, Zenon
<1>3. CASE ReadTime \/ ReadTscAndCompare
  BY <1>3, CallbackIInv, Zenon
<1>4. CASE UNCHANGED vars
  BY <1>4, Zenon DEF vars, clocks, start, reads, IInv, TypeOK, Holding, PerfReleased, Verdict, Judged,
              Deviates, Elapsed
<1> QED
  BY <1>1, <1>2, <1>3, <1>4, Zenon DEF Next

(* The invariant holds in every reachable state. *)
THEOREM IInvInvariant == Spec => []IInv
<1> QED
  BY InitIInv, NextIInv, PTL DEF Spec

(* Every variable keeps its type. *)
THEOREM TypeCorrect == Spec => []TypeOK
<1>1. IInv => TypeOK
  BY Zenon DEF IInv
<1> QED
  BY <1>1, IInvInvariant, PTL

(* readFrequency() has released descriptor and page on every path. *)
THEOREM PerfResourcesReleased == Spec => []PerfReleased
<1>1. IInv => PerfReleased
  BY Zenon DEF IInv, Holding
<1> QED
  BY <1>1, IInvInvariant, PTL

----------------------------------------------------------------------------
(* get() *)

(* The elapsed ticks are a uint64_t. *)
LEMMA ElapsedType ==
    ASSUME startTsc \in 0 .. UINT64_MODULUS - 1, NEW c \in 0 .. UINT64_MODULUS - 1
    PROVE  Elapsed(c) \in 0 .. UINT64_MODULUS - 1
<1> DEFINE d == c - startTsc
<1>1. d \in Int /\ UINT64_MODULUS \in Nat \ {0}
  BY Constants
<1>2. d % UINT64_MODULUS \in 0 .. UINT64_MODULUS - 1
  <2> HIDE DEF d
  <2> QED
    BY <1>1, Division, Zenon
<1> QED
  BY <1>2, Zenon DEF Elapsed

(* The multiplier is the nanoseconds of a tick, rounded down to 1 / shift2. *)
LEMMA Multiplier ==
    /\ nsPerTickMultiplier \in Nat
    /\ frequency * nsPerTickMultiplier <= NANOSECONDS_PER_MICROSECOND * shift2
    /\ NANOSECONDS_PER_MICROSECOND * shift2 < frequency * nsPerTickMultiplier + frequency
<1> DEFINE a == NANOSECONDS_PER_MICROSECOND * shift2
<1>1. a \in Nat /\ frequency \in Nat \ {0}
  BY Constants
<1>2. /\ a \div frequency \in Nat
      /\ frequency * (a \div frequency) <= a
      /\ a < frequency * (a \div frequency) + frequency
  <2> HIDE DEF a
  <2> QED
    BY <1>1, Quotient, Zenon
<1> QED
  BY <1>2, Zenon DEF nsPerTickMultiplier

(* If the counter ticks at least once per nanosecond the product fits 64   *)
(* bits after the shift, and get() is the product rounded down.            *)
LEMMA GetIsQuotient ==
    ASSUME frequency >= NANOSECONDS_PER_MICROSECOND,
           startTsc \in 0 .. UINT64_MODULUS - 1, NEW c \in 0 .. UINT64_MODULUS - 1
    PROVE  /\ Get(c) \in Nat
           /\ shift2 * Get(c) <= Elapsed(c) * nsPerTickMultiplier
           /\ Elapsed(c) * nsPerTickMultiplier < shift2 * Get(c) + shift2
<1> DEFINE E == Elapsed(c)
           m == nsPerTickMultiplier
           product == E * m
           G == product \div shift2
<1>1. E \in Nat /\ E < UINT64_MODULUS
  BY ElapsedType, Constants
<1>2. m \in Nat /\ frequency * m <= NANOSECONDS_PER_MICROSECOND * shift2
  BY Multiplier, Zenon
<1>3. Get(c) = G % UINT64_MODULUS
  BY Zenon DEF Get
<1> HIDE DEF E, m
<1>4. product \in Nat /\ shift2 \in Nat \ {0}
  BY <1>1, <1>2, Constants
<1>5. G \in Nat /\ shift2 * G <= product /\ product < shift2 * G + shift2
  <2> HIDE DEF product
  <2> QED
    BY <1>4, Quotient, Zenon
<1>6. m <= shift2
  <2>1. NANOSECONDS_PER_MICROSECOND * shift2 <= frequency * shift2
    <3>1. shift2 * NANOSECONDS_PER_MICROSECOND <= shift2 * frequency
      BY Constants, Times
    <3> QED
      BY <3>1, Constants
  <2>2. frequency * m <= frequency * shift2
    BY <1>2, <2>1, Constants
  <2> QED
    BY <1>2, <2>2, Constants, Times
<1>7. G <= E
  <2>1. E * m <= E * shift2
    BY <1>1, <1>2, <1>6, Constants, TimesLeq
  <2> DEFINE H == G
  <2>2. H \in Nat /\ shift2 * H <= E * m
    BY <1>5, Zenon
  <2> HIDE DEF H
  <2>3. shift2 * H <= shift2 * E
    BY <1>1, <1>2, <2>1, <2>2, Constants
  <2>4. H <= E
    BY <1>1, <2>2, <2>3, Constants, Times
  <2> QED
    BY <2>4, Zenon DEF H
<1>8. Get(c) = G
  <2> DEFINE H == G
  <2>1. H \in 0 .. UINT64_MODULUS - 1
    BY <1>1, <1>5, <1>7, Constants
  <2>2. Get(c) = H % UINT64_MODULUS
    BY <1>3, Zenon
  <2> HIDE DEF H
  <2>3. H % UINT64_MODULUS = H
    BY <2>1, Constants, SmallRemainder, Zenon
  <2> QED
    BY <2>2, <2>3, Zenon DEF H
<1> QED
  BY <1>5, <1>8, Zenon DEF E, m

(* While valid is set, the time get() computed from the counter at the     *)
(* last callback is as close to CLOCK_MONOTONIC_RAW as the threshold says, *)
(* for every counter of at least one tick per nanosecond.                  *)
THEOREM TimeCloseToClock ==
    ASSUME frequency >= NANOSECONDS_PER_MICROSECOND
    PROVE  Spec => []ReportedTimeBounded
<1>1. IInv => ReportedTimeBounded
  <2> SUFFICES ASSUME IInv, Judged, valid
               PROVE  LET dt   == readTime - startTime
                          diff == Get(readTsc) - dt
                      IN  (IF diff < 0 THEN -diff ELSE diff) * thresholdDen * shift2
                            < thresholdNum * dt * shift2
                                + (Elapsed(readTsc) + shift2) * thresholdDen
    BY Zenon DEF ReportedTimeBounded
  <2> DEFINE dt == readTime - startTime
             E == Elapsed(readTsc)
             m == nsPerTickMultiplier
             G == Get(readTsc)
             diff == frequency * dt - NANOSECONDS_PER_MICROSECOND * E
  <2>1. dt \in Nat /\ ~Deviates(readTime, readTsc)
    BY DEF IInv, Verdict, TypeOK
  <2>2. readTsc \in 0 .. UINT64_MODULUS - 1 /\ startTsc \in 0 .. UINT64_MODULUS - 1
    BY Zenon DEF IInv, TypeOK
  <2>3. E \in Nat
    BY <2>2, ElapsedType, Constants
  <2>4. /\ m \in Nat
        /\ frequency * m <= NANOSECONDS_PER_MICROSECOND * shift2
        /\ NANOSECONDS_PER_MICROSECOND * shift2 < frequency * m + frequency
    BY Multiplier, Zenon
  <2>5. G \in Nat /\ shift2 * G <= E * m /\ E * m < shift2 * G + shift2
    BY <2>2, GetIsQuotient, Zenon
  <2>6. ~((IF diff < 0 THEN -diff ELSE diff) * thresholdDen >= thresholdNum * frequency * dt)
    BY <2>1, Zenon DEF Deviates
  <2> HIDE DEF dt, E, m, G
  <2>7. /\ (frequency * dt - NANOSECONDS_PER_MICROSECOND * E) * thresholdDen
              < thresholdNum * frequency * dt
        /\ (NANOSECONDS_PER_MICROSECOND * E - frequency * dt) * thresholdDen
              < thresholdNum * frequency * dt
    <3> DEFINE k == thresholdNum * frequency * dt
    <3>1. k \in Nat /\ diff \in Int /\ thresholdDen \in Nat \ {0}
      BY <2>1, <2>3, Constants
    <3>2. NANOSECONDS_PER_MICROSECOND * E - frequency * dt = -diff
      BY <2>1, <2>3, Constants
    <3> HIDE DEF diff, k
    <3>3. diff * thresholdDen < k /\ (-diff) * thresholdDen < k
      BY <2>6, <3>1 DEF k
    <3> QED
      BY <3>2, <3>3, Zenon DEF k, diff
  <2>8. /\ (G - dt) * thresholdDen * shift2
              < thresholdNum * dt * shift2 + (E + shift2) * thresholdDen
        /\ (dt - G) * thresholdDen * shift2
              < thresholdNum * dt * shift2 + (E + shift2) * thresholdDen
    BY <2>1, <2>3, <2>4, <2>5, <2>7, Constants, TimeFollowsFrequency, ZenonT(30)
  <2>9. (IF G - dt < 0 THEN -(G - dt) ELSE G - dt) * thresholdDen * shift2
          < thresholdNum * dt * shift2 + (E + shift2) * thresholdDen
    <3>1. -(G - dt) = dt - G
      BY <2>1, <2>5
    <3> QED
      BY <2>8, <3>1, Zenon
  <2> QED
    BY <2>9, Zenon DEF dt, E, G
<1> QED
  BY <1>1, IInvInvariant, PTL

----------------------------------------------------------------------------
(* A counter that keeps to its frequency *)

(* How the reads lie to each other as long as the clocks run alike.  At    *)
(* nanosecond n of such a run the clock shows BootTime + n and the counter *)
(* FirstTsc + Ticks(n); the start value of the counter was read at         *)
(* nanosecond n, no more than Delay after that of the clock.               *)

StartedAt(n) ==
    /\ startTsc = CounterAt(n)
    /\ startTime <= BootTime + n
    /\ BootTime + n <= startTime + Delay
    /\ pc = "idle" => n + since <= steps
    /\ pc = "readTsc" => BootTime + n + Interval <= readTime

Steady ==
    ~drifted =>
        /\ time = BootTime + steps
        /\ tsc = CounterAt(steps)
        /\ steps <= MaxTime
        /\ pc = "startTsc" => time = startTime + since /\ since <= Delay
        /\ pc = "readTsc" => time = readTime + since /\ since <= Delay
        /\ pc \in {"idle", "readTsc"} => \E n \in Nat : n <= steps /\ StartedAt(n)
        /\ valid

(* A whole number of ticks per nanosecond. *)
LEMMA NominalRateType == NominalRate \in Nat
BY Constants, Quotient, Zenon DEF NominalRate

(* More nanoseconds, no fewer ticks; a quotient loses less than one. *)
LEMMA TicksBounds ==
    ASSUME NEW n \in Nat, NEW m \in Nat, n <= m
    PROVE  /\ Ticks(n) \in Nat /\ Ticks(m) \in Nat
           /\ NANOSECONDS_PER_MICROSECOND * Ticks(n) <= frequency * n
           /\ frequency * n < NANOSECONDS_PER_MICROSECOND * Ticks(n) + NANOSECONDS_PER_MICROSECOND
           /\ Ticks(n) <= Ticks(m)
<1> DEFINE a == frequency * n
           b == frequency * m
           u == NANOSECONDS_PER_MICROSECOND
           p == Ticks(n)
           q == Ticks(m)
<1>1. a \in Nat /\ b \in Nat /\ u \in Nat \ {0} /\ a <= b
  BY Constants, TimesLeq
<1>2. p = a \div u /\ q = b \div u
  BY Zenon DEF Ticks
<1> HIDE DEF a, b, u, p, q
<1>3. p \in Nat /\ u * p <= a /\ a < u * p + u
  BY <1>1, <1>2, Quotient, Zenon
<1>4. q \in Nat /\ b < u * q + u
  BY <1>1, <1>2, Quotient, Zenon
<1>5. u * p < u * (q + 1)
  BY <1>1, <1>3, <1>4
<1>6. p < q + 1
  BY <1>1, <1>3, <1>4, <1>5, Times
<1> QED
  BY <1>3, <1>4, <1>6 DEF a, u, p, q

(* The verdict on such a counter.  The two delays are d0 and d1; only      *)
(* their difference counts.  E is the number of ticks between the two      *)
(* reads, with less than one tick lost at each of them.                    *)
LEMMA SmallDeviation ==
    ASSUME NEW f \in Nat \ {0}, NEW u \in Nat \ {0}, NEW dt \in Nat, NEW d0 \in Nat, NEW d1 \in Nat,
           NEW n \in Nat, NEW d \in Nat \ {0}, NEW delay \in Nat, NEW i \in Nat, NEW E \in Nat,
           d0 <= delay, d1 <= delay, i <= dt,
           (f * delay + u) * d <= n * (f * i),
           f * (dt + d1 - d0) < u * E + u,
           u * E < f * (dt + d1 - d0) + u
    PROVE  LET diff == f * dt - u * E
           IN  (IF diff < 0 THEN -diff ELSE diff) * d < n * f * dt
<1> DEFINE diff == f * dt - u * E
           e == IF diff < 0 THEN -diff ELSE diff
           b == f * delay + u
<1>1. f * (d0 - d1) <= f * delay /\ f * (d1 - d0) <= f * delay
  BY TimesLeq
<1>2. diff < f * (d0 - d1) + u /\ -diff < f * (d1 - d0) + u
  OBVIOUS
<1>3. e < b /\ e \in Nat /\ b \in Nat
  <2>1. diff \in Int /\ b \in Nat /\ f * (d0 - d1) \in Int /\ f * (d1 - d0) \in Int
    OBVIOUS
  <2>2. diff < b /\ -diff < b
    BY <1>1, <1>2
  <2> HIDE DEF diff, b
  <2> QED
    BY <2>1, <2>2
<1>4. b * d <= n * (f * i)
  BY Zenon
<1> HIDE DEF e, b, diff
<1>5. d * e < d * b
  BY <1>3, Times
<1>6. f * i <= f * dt
  BY TimesLeq
<1>7. n * (f * i) <= n * (f * dt)
  BY <1>6, TimesLeq
<1>8. e * d < n * f * dt
  BY <1>3, <1>4, <1>5, <1>7
<1> QED
  BY <1>8, Zenon DEF e, diff

(* callback() finds no deviation if the clocks have run alike. *)
LEMMA SteadyPasses ==
    ASSUME IInv, Steady, ~drifted, pc = "readTsc", Tolerant,
           Ticks(MaxTime) < UINT64_MODULUS
    PROVE  readTime # startTime /\ ~Deviates(readTime, tsc)
<1>1. PICK n \in Nat : n <= steps /\ StartedAt(n)
  BY Zenon DEF Steady
<1>2. /\ time \in Nat /\ startTime \in Nat /\ readTime \in Nat /\ steps \in Nat /\ since \in Nat
      /\ startTime <= readTime
  BY Zenon DEF IInv, TypeOK, Verdict
<1>3. /\ time = BootTime + steps
      /\ tsc = CounterAt(steps)
      /\ steps <= MaxTime
      /\ time = readTime + since
      /\ since <= Delay
  BY Zenon DEF Steady
<1>4. /\ startTsc = CounterAt(n)
      /\ startTime <= BootTime + n
      /\ BootTime + n <= startTime + Delay
      /\ BootTime + n + Interval <= readTime
  BY <1>1, Zenon DEF StartedAt
<1> DEFINE dt == readTime - startTime
           d0 == BootTime + n - startTime
           ticks == Ticks(steps) - Ticks(n)
           diff == frequency * dt - NANOSECONDS_PER_MICROSECOND * Elapsed(tsc)
<1>5. dt \in Nat /\ d0 \in Nat /\ d0 <= Delay /\ Interval <= dt /\ steps - n = dt + since - d0
  BY <1>1, <1>2, <1>3, <1>4, Constants
<1>6. Elapsed(tsc) = ticks
  <2> DEFINE u == FirstTsc + Ticks(n)
             v == FirstTsc + Ticks(steps)
  <2>1. u \in Nat /\ v \in Nat /\ v - u = ticks
    <3>1. FirstTsc \in Nat /\ Ticks(n) \in Nat /\ Ticks(steps) \in Nat
      BY <1>1, <1>2, Constants, TicksBounds
    <3> QED
      BY ONLY <3>1
  <2>2. ticks \in 0 .. UINT64_MODULUS - 1
    <3>1. /\ Ticks(n) \in Nat /\ Ticks(steps) \in Nat /\ Ticks(MaxTime) \in Nat
          /\ Ticks(n) <= Ticks(steps) /\ Ticks(steps) <= Ticks(MaxTime)
      BY <1>1, <1>2, <1>3, Constants, TicksBounds, Zenon
    <3> QED
      BY <3>1, Constants
  <2>3. Elapsed(tsc) = ((v % UINT64_MODULUS) - (u % UINT64_MODULUS)) % UINT64_MODULUS
    BY <1>3, <1>4, Zenon DEF Elapsed, CounterAt
  <2> HIDE DEF u, v, ticks
  <2> QED
    BY <2>1, <2>2, <2>3, Constants, RemainderOfDifference, Zenon
<1>7. /\ ticks \in Nat
      /\ frequency * (dt + since - d0) < NANOSECONDS_PER_MICROSECOND * ticks + NANOSECONDS_PER_MICROSECOND
      /\ NANOSECONDS_PER_MICROSECOND * ticks < frequency * (dt + since - d0) + NANOSECONDS_PER_MICROSECOND
  <2> DEFINE p == Ticks(n)
             q == Ticks(steps)
             u == NANOSECONDS_PER_MICROSECOND
             f == frequency
             k == dt + since - d0
  <2>1. /\ p \in Nat /\ q \in Nat /\ p <= q
        /\ u * p <= f * n /\ f * n < u * p + u
        /\ u * q <= f * steps /\ f * steps < u * q + u
    BY <1>1, <1>2, Constants, TicksBounds
  <2>2. k = steps - n
    BY <1>5, Zenon
  <2>3. u \in Nat /\ f \in Nat
    BY Constants, Zenon
  <2>4. ticks = q - p
    BY Zenon
  <2> HIDE DEF p, q, u, f, k, ticks
  <2>5. f * k = f * steps - f * n /\ u * ticks = u * q - u * p
    BY <1>1, <1>2, <2>1, <2>2, <2>3, <2>4
  <2>6. {f * steps, f * n, u * q, u * p} \subseteq Int
    BY <1>1, <1>2, <2>1, <2>3
  <2>7. f * k < u * ticks + u /\ u * ticks < f * k + u
    BY <2>1, <2>3, <2>5, <2>6
  <2> QED
    BY <2>1, <2>4, <2>7 DEF f, k, u
<1>8. (IF diff < 0 THEN -diff ELSE diff) * thresholdDen < thresholdNum * frequency * dt
  <2> DEFINE E == Elapsed(tsc)
  <2>1. /\ frequency \in Nat \ {0} /\ dt \in Nat /\ d0 \in Nat /\ since \in Nat
        /\ NANOSECONDS_PER_MICROSECOND \in Nat \ {0}
        /\ thresholdNum \in Nat /\ thresholdDen \in Nat \ {0}
        /\ Delay \in Nat /\ Interval \in Nat
        /\ d0 <= Delay /\ since <= Delay /\ Interval <= dt
    BY <1>2, <1>3, <1>5, Constants, Zenon
  <2>2. /\ (frequency * Delay + NANOSECONDS_PER_MICROSECOND) * thresholdDen
              <= thresholdNum * (frequency * Interval)
        /\ E \in Nat
        /\ frequency * (dt + since - d0) < NANOSECONDS_PER_MICROSECOND * E + NANOSECONDS_PER_MICROSECOND
        /\ NANOSECONDS_PER_MICROSECOND * E < frequency * (dt + since - d0) + NANOSECONDS_PER_MICROSECOND
    BY <1>6, <1>7, Zenon DEF Tolerant
  <2>3. diff = frequency * dt - NANOSECONDS_PER_MICROSECOND * E
    BY Zenon
  <2> HIDE DEF dt, d0, E, diff
  <2> QED
    BY ONLY <2>1, <2>2, <2>3, SmallDeviation, ZenonT(30)
<1>9. readTime # startTime
  <2>1. Interval # 0
    <3>1. Interval = 0 => thresholdNum * (frequency * Interval) = 0
      BY Constants
    <3> DEFINE c == frequency * Delay + NANOSECONDS_PER_MICROSECOND
    <3>2. c \in Nat \ {0}
      BY Constants
    <3>3. c * thresholdDen <= thresholdNum * (frequency * Interval)
      BY Zenon DEF Tolerant
    <3> HIDE DEF c
    <3>4. c * 0 < c * thresholdDen
      BY <3>2, Constants, Times
    <3> QED
      BY <3>1, <3>2, <3>3, <3>4, Constants
  <2> QED
    BY <1>2, <1>5, <2>1, Constants
<1>10. ~Deviates(readTime, tsc)
  <2> DEFINE e == (IF diff < 0 THEN -diff ELSE diff) * thresholdDen
             k == thresholdNum * frequency * dt
  <2>1. Deviates(readTime, tsc) <=> e >= k
    BY Zenon DEF Deviates
  <2>2. e < k /\ e \in Int /\ k \in Int
    <3>1. diff \in Int /\ dt \in Nat
      BY <1>2, <1>5, <1>6, <1>7, Constants
    <3> HIDE DEF diff, dt
    <3> QED
      BY <1>8, <3>1, Constants
  <2> HIDE DEF e, k
  <2> QED
    BY <2>1, <2>2
<1> QED
  BY <1>9, <1>10, Zenon

(* With the delays tolerated and a threshold of at most 1, the reading of  *)
(* two clocks takes less than an interval.                                 *)
LEMMA DelayBelowInterval ==
    ASSUME Tolerant, thresholdNum <= thresholdDen
    PROVE  Delay < Interval
<1> DEFINE a == frequency * Delay
           b == frequency * Interval
<1>1. a \in Nat /\ b \in Nat
  BY Constants
<1>2. (a + NANOSECONDS_PER_MICROSECOND) * thresholdDen <= thresholdNum * b
  BY Zenon DEF Tolerant
<1> HIDE DEF a, b
<1>3. b * thresholdNum <= b * thresholdDen
  BY <1>1, Constants, TimesLeq
<1>4. thresholdDen * (a + NANOSECONDS_PER_MICROSECOND) <= thresholdDen * b
  BY <1>1, <1>2, <1>3, Constants
<1>5. a + NANOSECONDS_PER_MICROSECOND <= b
  BY <1>1, <1>4, Constants, Times
<1>6. frequency * Delay < frequency * Interval
  BY <1>1, <1>5, Constants DEF a, b
<1> QED
  BY <1>6, Constants, Times

(* The clocks of the machine keep Steady, or set drifted. *)
LEMMA ClocksRunSteady ==
    ASSUME IInv, Steady, Tolerant, thresholdNum <= thresholdDen,
           NEW elapsed \in {0, 1}, NEW rate \in Rates, ClocksRun(elapsed, rate)
    PROVE  Steady'
<1> SUFFICES ASSUME ~drifted'
             PROVE  Steady'
  BY Zenon DEF Steady
<1>1. ~drifted /\ elapsed # 0 /\ tsc' = CounterAt(steps')
  BY Zenon DEF ClocksRun
<1>2. elapsed = 1
  BY <1>1, Zenon
<1>3. /\ time \in Nat /\ startTime \in Nat /\ readTime \in Nat /\ steps \in Nat /\ since \in Nat
  BY Zenon DEF IInv, TypeOK
<1>4. /\ time' = time + 1 /\ steps' = steps + 1 /\ steps < MaxTime
      /\ since' = IF since < Interval THEN since + 1 ELSE since
      /\ pc # "idle" => since < Delay
      /\ UNCHANGED <<pc, startTime, startTsc, readTime, valid>>
  BY <1>1, <1>2, Zenon DEF ClocksRun, start, reads
<1>5. time' = BootTime + steps' /\ steps' <= MaxTime
  BY <1>1, <1>3, <1>4, Constants DEF Steady
<1>6. tsc' = CounterAt(steps)'
  BY <1>1, Zenon DEF CounterAt, Ticks
<1>7. pc # "idle" => since' = since + 1 /\ since + 1 <= Delay
  BY <1>3, <1>4, DelayBelowInterval, Constants
<1>8. /\ pc = "startTsc" => time' = startTime + since' /\ since' <= Delay
      /\ pc = "readTsc" => time' = readTime + since' /\ since' <= Delay
  BY <1>1, <1>3, <1>4, <1>7, Constants DEF Steady
<1>9. ASSUME pc \in {"idle", "readTsc"}
      PROVE  \E n \in Nat : n <= steps' /\ StartedAt(n)'
  <2>1. PICK n \in Nat : n <= steps /\ StartedAt(n)
    BY <1>1, <1>9, Zenon DEF Steady
  <2>2. since' <= since + 1 /\ since' \in Nat
    BY <1>3, <1>4
  <2>3. StartedAt(n)'
    BY <1>3, <1>4, <2>1, <2>2, Constants DEF StartedAt, CounterAt, Ticks
  <2>4. n <= steps'
    BY <1>3, <1>4, <2>1
  <2> QED
    BY <2>3, <2>4, Zenon
<1>10. valid'
  BY <1>1, <1>4, Zenon DEF Steady
<1> QED
  BY <1>4, <1>5, <1>6, <1>8, <1>9, <1>10, Zenon DEF Steady

(* So do the steps of the constructor. *)
LEMMA ConstructorSteady ==
    ASSUME IInv, Steady, Constructor
    PROVE  Steady'
<1> SUFFICES ASSUME ~drifted'
             PROVE  Steady'
  BY Zenon DEF Steady
<1>1. UNCHANGED <<time, tsc, steps, drifted, readTime, valid>>
  BY Zenon DEF Constructor, CheckTsc, PerfEventOpen, SysconfPageSize, Mmap, ReadPage, ReadStartTime,
         ReadStartTsc, Frame, clocks, reads
<1>2. ~drifted
  BY <1>1, Zenon
<1>3. /\ time \in Nat /\ startTime \in Nat /\ steps \in Nat /\ since \in Nat
  BY Zenon DEF IInv, TypeOK
<1>4. CASE ReadStartTime
  BY <1>1, <1>2, <1>3, <1>4, Constants DEF ReadStartTime, Steady, CounterAt, Ticks
<1>5. CASE ReadStartTsc
  <2>1. pc = "startTsc" /\ pc' = "idle" /\ startTsc' = tsc /\ since' = 0 /\ startTime' = startTime
    BY <1>5, Zenon DEF ReadStartTsc
  <2>2. /\ tsc = CounterAt(steps) /\ time = BootTime + steps
        /\ time = startTime + since /\ since <= Delay
    BY <1>2, <2>1, Zenon DEF Steady
  <2>3. StartedAt(steps)'
    BY <1>1, <1>3, <2>1, <2>2, Constants DEF StartedAt, CounterAt, Ticks
  <2>4. steps' <= steps' /\ steps' \in Nat
    BY <1>1, <1>3
  <2> QED
    BY <1>1, <1>2, <2>1, <2>3, <2>4, Zenon DEF Steady, CounterAt, Ticks
<1>6. CASE CheckTsc \/ PerfEventOpen \/ SysconfPageSize \/ Mmap \/ ReadPage
  <2>1. pc' \notin {"startTsc", "idle", "readTsc"}
    BY <1>6, Zenon DEF CheckTsc, PerfEventOpen, SysconfPageSize, Mmap, ReadPage
  <2> QED
    BY <1>1, <1>2, <2>1, Zenon DEF Steady, CounterAt, Ticks
<1> QED
  BY <1>4, <1>5, <1>6, Zenon DEF Constructor

(* So does callback(), which leaves valid set. *)
LEMMA CallbackSteady ==
    ASSUME IInv, Steady, Tolerant, ReadTime \/ ReadTscAndCompare,
           Ticks(MaxTime) < UINT64_MODULUS
    PROVE  Steady'
<1> SUFFICES ASSUME ~drifted'
             PROVE  Steady'
  BY Zenon DEF Steady
<1>1. UNCHANGED <<time, tsc, steps, drifted, startTime, startTsc>> /\ since' = 0
  BY Zenon DEF ReadTime, ReadTscAndCompare, clocks, start
<1>2. ~drifted
  BY <1>1, Zenon
<1>3. /\ time \in Nat /\ startTime \in Nat /\ steps \in Nat /\ since \in Nat
  BY Zenon DEF IInv, TypeOK
<1>4. PICK n \in Nat : n <= steps /\ StartedAt(n)
  BY <1>2, Zenon DEF Steady, ReadTime, ReadTscAndCompare
<1>5. CASE ReadTime
  <2>1. /\ pc = "idle" /\ pc' = "readTsc" /\ since >= Interval
        /\ readTime' = time /\ valid' = valid
    BY <1>5, Zenon DEF ReadTime
  <2>2. StartedAt(n)'
    BY <1>1, <1>2, <1>3, <1>4, <2>1, Constants DEF Steady, StartedAt, CounterAt, Ticks
  <2> QED
    BY <1>1, <1>2, <1>3, <1>4, <2>1, <2>2, Constants DEF Steady, CounterAt, Ticks
<1>6. CASE ReadTscAndCompare
  <2>1. pc = "readTsc" /\ pc' = "idle" /\ readTime' = readTime
    BY <1>6, Zenon DEF ReadTscAndCompare
  <2>2. readTime # startTime /\ ~Deviates(readTime, tsc)
    BY <1>2, <2>1, SteadyPasses, Zenon
  <2>3. valid
    BY <1>2, Zenon DEF Steady
  <2>4. valid'
    BY <1>6, <2>2, <2>3, Zenon DEF ReadTscAndCompare
  <2>5. StartedAt(n)'
    BY <1>1, <1>3, <1>4, <2>1, Constants DEF StartedAt, CounterAt, Ticks
  <2> QED
    BY <1>1, <1>2, <1>3, <1>4, <2>1, <2>4, <2>5, Zenon DEF Steady, CounterAt, Ticks
<1> QED
  BY <1>5, <1>6, Zenon

(* A counter that keeps to its frequency is never declared invalid, for    *)
(* every frequency and every delay between two reads that the threshold    *)
(* tolerates, if the threshold is at most 1 and the counter does not make  *)
(* a whole turn.                                                           *)
THEOREM SteadyClockTrusted ==
    ASSUME Ticks(MaxTime) < UINT64_MODULUS,
           thresholdNum <= thresholdDen
    PROVE  Spec => []ReliableClockStaysValid
<1>1. Init => (Tolerant => Steady)
  <2> SUFFICES ASSUME Init PROVE Steady
    BY Zenon
  <2>1. FirstTsc + Ticks(0) = FirstTsc
    <3>1. frequency * 0 = 0 /\ 0 \div NANOSECONDS_PER_MICROSECOND = 0
      BY Constants
    <3> QED
      BY <3>1, Constants DEF Ticks
  <2>2. CounterAt(0) = FirstTsc
    BY <2>1, Constants, SmallRemainder, Zenon DEF CounterAt
  <2> QED
    BY <2>2, Constants DEF Init, Steady
<1>2. IInv /\ (Tolerant => Steady) /\ [Next]_vars => (Tolerant => Steady)'
  <2> SUFFICES ASSUME IInv, Steady, Tolerant, [Next]_vars PROVE Steady'
    BY Zenon DEF Tolerant
  <2>1. CASE \E elapsed \in {0, 1}, rate \in Rates : ClocksRun(elapsed, rate)
    BY <2>1, ClocksRunSteady, Zenon
  <2>2. CASE Constructor
    BY <2>2, ConstructorSteady, Zenon
  <2>3. CASE ReadTime \/ ReadTscAndCompare
    BY <2>3, CallbackSteady, Zenon
  <2>4. CASE UNCHANGED vars
    BY <2>4, Zenon DEF vars, clocks, start, reads, Steady, StartedAt, CounterAt, Ticks
  <2> QED
    BY <2>1, <2>2, <2>3, <2>4, Zenon DEF Next
<1>3. (Tolerant => Steady) => ReliableClockStaysValid
  BY Zenon DEF ReliableClockStaysValid, Tolerant, Steady
<1> QED
  BY <1>1, <1>2, <1>3, IInvInvariant, PTL DEF Spec

----------------------------------------------------------------------------
(* The time does not go back *)

(* As long as the counter makes no whole turn since the start, the elapsed *)
(* ticks are at most MaxRate for each nanosecond.                          *)
Unturned(MaxRate) ==
    /\ steps <= MaxTime
    /\ Running => Elapsed(tsc) <= MaxRate * steps

(* One run of the clocks adds its ticks to the elapsed ones. *)
LEMMA ElapsedGrows ==
    ASSUME NEW MaxRate \in Nat, \A r \in Rates : r <= MaxRate,
           MaxRate * MaxTime < UINT64_MODULUS,
           IInv, Unturned(MaxRate), Running,
           NEW elapsed \in {0, 1}, NEW rate \in Rates, ClocksRun(elapsed, rate)
    PROVE  /\ Elapsed(tsc)' = Elapsed(tsc) + rate
           /\ Elapsed(tsc)' <= MaxRate * steps'
           /\ (tsc' - tsc) % UINT64_MODULUS = rate
<1> DEFINE d == tsc - startTsc
           E == Elapsed(tsc)
<1>1. tsc \in 0 .. UINT64_MODULUS - 1 /\ startTsc \in 0 .. UINT64_MODULUS - 1 /\ steps \in Nat
  BY Zenon DEF IInv, TypeOK
<1>2. rate \in Nat /\ rate <= MaxRate
  BY Constants, Zenon
<1>3. /\ startTsc' = startTsc /\ steps' = steps + 1 /\ steps < MaxTime
      /\ tsc' = (tsc + rate) % UINT64_MODULUS
  BY Zenon DEF ClocksRun, start
<1>4. E \in Nat /\ E <= MaxRate * steps /\ E = d % UINT64_MODULUS
  BY <1>1, Constants, ElapsedType DEF Unturned, Elapsed
<1>5. MaxRate * (steps + 1) <= MaxRate * MaxTime
  BY <1>1, <1>3, Constants, TimesLeq
<1>6. E + rate <= MaxRate * (steps + 1) /\ rate <= MaxRate * (steps + 1)
  <2> HIDE DEF E
  <2>1. MaxRate * (steps + 1) = MaxRate * steps + MaxRate /\ MaxRate * steps \in Nat
    BY <1>1
  <2> QED
    BY <1>2, <1>4, <2>1
<1>7. E + rate \in 0 .. UINT64_MODULUS - 1 /\ rate \in 0 .. UINT64_MODULUS - 1
  <2> HIDE DEF E
  <2> DEFINE k == MaxRate * (steps + 1)
  <2>1. k \in Nat /\ k < UINT64_MODULUS
    BY <1>1, <1>5, Constants
  <2> HIDE DEF k
  <2>2. E + rate <= k /\ rate <= k
    BY <1>6, Zenon DEF k
  <2> QED
    BY <1>2, <1>4, <2>1, <2>2, Constants
<1>8. Elapsed(tsc)' = E + rate
  <2> DEFINE a == tsc + rate
             c == -startTsc
             r == E + rate
  <2>1. a \in Int /\ c \in Int /\ d \in Int /\ rate \in Int
    BY <1>1, <1>2
  <2>2. Elapsed(tsc)' = ((a % UINT64_MODULUS) - startTsc) % UINT64_MODULUS
    BY <1>3, Zenon DEF Elapsed
  <2>3. (a % UINT64_MODULUS) - startTsc = (a % UINT64_MODULUS) + c
    <3> HIDE DEF a
    <3>1. a % UINT64_MODULUS \in Int
      BY <2>1, Constants, Division
    <3> QED
      BY <1>1, <3>1, Zenon
  <2>4. a + c = d + rate
    BY <1>1, <1>2
  <2> HIDE DEF a, c, d
  <2>5. ((a % UINT64_MODULUS) + c) % UINT64_MODULUS = (a + c) % UINT64_MODULUS
    BY <2>1, Constants, RemainderOfSum, ZenonT(30)
  <2> HIDE DEF E
  <2>6. (E + rate) % UINT64_MODULUS = (d + rate) % UINT64_MODULUS
    <3>1. ((d % UINT64_MODULUS) + rate) % UINT64_MODULUS = (d + rate) % UINT64_MODULUS
      BY <2>1, Constants, RemainderOfSum, ZenonT(30)
    <3> QED
      BY <1>4, <3>1, Zenon
  <2>7. (E + rate) % UINT64_MODULUS = E + rate
    <3>1. r \in 0 .. UINT64_MODULUS - 1
      BY <1>7, Zenon
    <3> HIDE DEF r
    <3>2. r % UINT64_MODULUS = r
      BY <3>1, Constants, SmallRemainder, Zenon
    <3> QED
      BY <3>2, Zenon DEF r
  <2> QED
    BY <2>2, <2>3, <2>4, <2>5, <2>6, <2>7, Zenon
<1>9. (tsc' - tsc) % UINT64_MODULUS = rate
  <2> DEFINE a == tsc + rate
             c == -tsc
  <2>1. a \in Int /\ c \in Int /\ a + c = rate
    BY <1>1, <1>2
  <2>2. (a % UINT64_MODULUS) - tsc = (a % UINT64_MODULUS) + c
    <3> HIDE DEF a
    <3>1. a % UINT64_MODULUS \in Int
      BY <2>1, Constants, Division
    <3> QED
      BY <1>1, <3>1, Zenon
  <2>3. tsc' = a % UINT64_MODULUS
    BY <1>3, Zenon
  <2> HIDE DEF a, c
  <2>4. ((a % UINT64_MODULUS) + c) % UINT64_MODULUS = (a + c) % UINT64_MODULUS
    BY <2>1, Constants, RemainderOfSum, ZenonT(30)
  <2>5. rate % UINT64_MODULUS = rate
    BY <1>7, Constants, SmallRemainder, Zenon
  <2> QED
    BY <2>1, <2>2, <2>3, <2>4, <2>5, Zenon
<1> QED
  BY <1>3, <1>6, <1>8, <1>9, Zenon

(* Rounding down does not change the order of two products, and a product  *)
(* that is larger by s is rounded to a larger number.                      *)
LEMMA QuotientsOrdered ==
    ASSUME NEW s \in Nat \ {0}, NEW m \in Nat, NEW E \in Nat, NEW F \in Nat,
           NEW G \in Nat, NEW H \in Nat, E <= F,
           s * G <= E * m, E * m < s * G + s,
           s * H <= F * m, F * m < s * H + s
    PROVE  /\ G <= H
           /\ E * m + s <= F * m => G < H
<1>1. m * E <= m * F
  BY TimesLeq
<1>2. s * G < s * (H + 1)
  BY <1>1
<1>3. G < H + 1
  BY <1>2, Times
<1>4. ASSUME E * m + s <= F * m PROVE G < H
  <2>1. s * (G + 1) < s * (H + 1)
    BY <1>4
  <2>2. G + 1 < H + 1
    BY <2>1, Times
  <2> QED
    BY <2>2
<1> QED
  BY <1>3, <1>4

(* get() never goes back and does not stand still, if the counter ticks at *)
(* least once per nanosecond, makes no whole turn, and the multiplier is   *)
(* fine enough for a tick more than NominalRate to make up its rounding.   *)
THEOREM TimeNeverGoesBack ==
    ASSUME frequency >= NANOSECONDS_PER_MICROSECOND,
           shift2 <= (NominalRate + 1) * nsPerTickMultiplier,
           NEW MaxRate \in Nat, \A r \in Rates : r <= MaxRate,
           MaxRate * MaxTime < UINT64_MODULUS
    PROVE  Spec => GetMonotone
<1> DEFINE Inv == Unturned(MaxRate)
<1>1. Init => Inv
  BY Constants DEF Init, Unturned, Running
<1>2. IInv /\ Inv /\ [Next]_vars => Inv'
  <2> SUFFICES ASSUME IInv, Inv, [Next]_vars PROVE Inv'
    BY Zenon
  <2>1. CASE \E elapsed \in {0, 1}, rate \in Rates : ClocksRun(elapsed, rate)
    <3>1. PICK elapsed \in {0, 1}, rate \in Rates : ClocksRun(elapsed, rate)
      BY <2>1, Zenon
    <3>2. pc' = pc /\ steps' = steps + 1 /\ steps < MaxTime /\ steps \in Nat
      BY <3>1, Zenon DEF ClocksRun, IInv, TypeOK
    <3>3. steps' <= MaxTime
      BY <3>2, Constants
    <3>4. Running => Elapsed(tsc)' <= MaxRate * steps'
      BY <3>1, ElapsedGrows, Zenon
    <3> QED
      BY <3>2, <3>3, <3>4, Zenon DEF Unturned, Running
  <2>2. CASE ReadStartTsc
    <3>1. startTsc' = tsc /\ tsc' = tsc /\ steps' = steps
      BY <2>2, Zenon DEF ReadStartTsc, Frame, clocks
    <3>2. tsc - tsc = 0 /\ 0 \in 0 .. UINT64_MODULUS - 1
      BY Constants DEF IInv, TypeOK
    <3>3. Elapsed(tsc)' = 0
      BY <3>1, <3>2, Constants, SmallRemainder, Zenon DEF Elapsed
    <3>4. 0 <= MaxRate * steps
      BY DEF IInv, TypeOK
    <3> QED
      BY <3>1, <3>3, <3>4, Zenon DEF Unturned
  <2>3. CASE CheckTsc \/ PerfEventOpen \/ SysconfPageSize \/ Mmap \/ ReadPage \/ ReadStartTime
    BY <2>3, Zenon DEF Unturned, Running, CheckTsc, PerfEventOpen, SysconfPageSize, Mmap, ReadPage,
                ReadStartTime, Frame, clocks
  <2>4. CASE ReadTime \/ ReadTscAndCompare \/ UNCHANGED vars
    <3>1. UNCHANGED <<tsc, steps, startTsc>> /\ (Running' => Running)
      BY <2>4, Zenon DEF ReadTime, ReadTscAndCompare, vars, clocks, start, Running
    <3> QED
      BY <3>1, Zenon DEF Unturned, Elapsed
  <2> QED
    BY <2>1, <2>2, <2>3, <2>4, Zenon DEF Next, Constructor
<1>3. IInv /\ Inv /\ [Next]_vars =>
        [Running => /\ Get(tsc)' >= Get(tsc)
                    /\ (tsc' - tsc) % UINT64_MODULUS > NominalRate => Get(tsc)' > Get(tsc)]_vars
  <2> SUFFICES ASSUME IInv, Inv, Next, Running
               PROVE  /\ Get(tsc)' >= Get(tsc)
                      /\ (tsc' - tsc) % UINT64_MODULUS > NominalRate => Get(tsc)' > Get(tsc)
    BY Zenon
  <2>1. tsc \in 0 .. UINT64_MODULUS - 1 /\ startTsc \in 0 .. UINT64_MODULUS - 1
    BY Zenon DEF IInv, TypeOK
  <2>2. /\ Get(tsc) \in Nat
        /\ shift2 * Get(tsc) <= Elapsed(tsc) * nsPerTickMultiplier
        /\ Elapsed(tsc) * nsPerTickMultiplier < shift2 * Get(tsc) + shift2
    BY <2>1, GetIsQuotient, Zenon
  <2>3. CASE \E elapsed \in {0, 1}, rate \in Rates : ClocksRun(elapsed, rate)
    <3>1. PICK elapsed \in {0, 1}, rate \in Rates : ClocksRun(elapsed, rate)
      BY <2>3, Zenon
    <3> DEFINE m == nsPerTickMultiplier
               E == Elapsed(tsc)
               F == Elapsed(tsc)'
               G == Get(tsc)
               H == Get(tsc)'
    <3>2. F = E + rate /\ (tsc' - tsc) % UINT64_MODULUS = rate
      BY <3>1, ElapsedGrows, Zenon
    <3>3. startTsc' = startTsc /\ tsc' \in 0 .. UINT64_MODULUS - 1
      BY <3>1, ClocksRunIInv, Zenon DEF ClocksRun, start, IInv, TypeOK
    <3>4. H = Get(tsc') /\ F = Elapsed(tsc')
      BY <3>3, Zenon DEF Get, Elapsed
    <3>5. H \in Nat /\ shift2 * H <= F * m /\ F * m < shift2 * H + shift2
      BY <2>1, <3>3, <3>4, GetIsQuotient, Zenon
    <3>6. E \in Nat /\ rate \in Nat /\ m \in Nat
      BY <2>1, ElapsedType, Multiplier, Constants
    <3>7. G \in Nat /\ shift2 * G <= E * m /\ E * m < shift2 * G + shift2
      BY <2>2, Zenon
    <3> HIDE DEF m, E, F, G, H
    <3>8. F \in Nat /\ E <= F
      BY <3>2, <3>6
    <3>9. G <= H /\ (E * m + shift2 <= F * m => G < H)
      BY <3>5, <3>6, <3>7, <3>8, Constants, QuotientsOrdered, Zenon
    <3>10. rate > NominalRate => E * m + shift2 <= F * m
      <4> SUFFICES ASSUME rate > NominalRate PROVE E * m + shift2 <= F * m
        BY Zenon
      <4>1. m * (NominalRate + 1) <= m * rate
        BY <3>6, NominalRateType, TimesLeq
      <4>2. shift2 <= (NominalRate + 1) * m
        BY Zenon DEF m
      <4>3. F * m = E * m + m * rate
        BY <3>2, <3>6
      <4> QED
        BY <3>6, <4>1, <4>2, <4>3, Constants, NominalRateType
    <3>11. H >= G /\ (rate > NominalRate => H > G)
      BY <3>5, <3>7, <3>9, <3>10, Zenon
    <3> QED
      BY <3>2, <3>11, Zenon DEF G, H
  <2>4. CASE Constructor
    BY <2>4, Zenon DEF Running, Constructor, CheckTsc, PerfEventOpen, SysconfPageSize, Mmap, ReadPage,
                ReadStartTime, ReadStartTsc
  <2>5. CASE ReadTime \/ ReadTscAndCompare
    <3>1. tsc' = tsc /\ startTsc' = startTsc
      BY <2>5, Zenon DEF ReadTime, ReadTscAndCompare, clocks, start
    <3>2. Get(tsc)' = Get(tsc)
      BY <3>1, Zenon DEF Get, Elapsed
    <3>3. tsc' - tsc = 0 /\ 0 \in 0 .. UINT64_MODULUS - 1
      BY <2>1, <3>1, Constants
    <3>4. (tsc' - tsc) % UINT64_MODULUS = 0
      BY <3>3, Constants, SmallRemainder, Zenon
    <3> QED
      BY <2>2, <3>2, <3>4, NominalRateType
  <2> QED
    BY <2>3, <2>4, <2>5, Zenon DEF Next
<1> QED
  BY <1>1, <1>2, <1>3, IInvInvariant, PTL DEF Spec, GetMonotone
============================================================================
