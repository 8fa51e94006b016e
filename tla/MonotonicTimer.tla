-------------------------- MODULE MonotonicTimer --------------------------
(***************************************************************************)
(* MonotonicTimer (src/monotonictimer.cpp): time from the processor's time *)
(* stamp counter (TSC), by fixed-point arithmetic, and a periodic callback *)
(* that compares the counter with CLOCK_MONOTONIC_RAW and clears valid for *)
(* good when they disagree.                                                *)
(*                                                                         *)
(* time is in nanoseconds and frequency in ticks per microsecond, as in    *)
(* the code.  Quotients of doubles are compared as fractions, without      *)
(* their rounding.  Both clocks run while the code is between its two      *)
(* reads.                                                                  *)
(***************************************************************************)
EXTENDS Integers

CONSTANTS
    NANOSECONDS_PER_MICROSECOND,  \* 1000
    frequency,      \* what readFrequency() computes, if it succeeds
    shift2,         \* 2^shift: the scale of nsPerTickMultiplier
    UINT64_MODULUS, \* 2^64: the counter and get() are uint64_t
    thresholdNum,   \* deviationThreshold is thresholdNum / thresholdDen
    thresholdDen,
    Interval,       \* the callback runs no more often than this
    Delay,          \* the most time that passes between two reads
    BootTime,       \* the clock when the program starts
    FirstTsc,       \* the counter when the program starts
    Rates,          \* ticks the counter may advance per nanosecond
    MaxTime         \* bound: how long the clocks run

ASSUME PositiveAssumption ==
    {NANOSECONDS_PER_MICROSECOND, frequency, shift2, UINT64_MODULUS, thresholdDen}
        \subseteq Nat \ {0}

ASSUME RangeAssumption ==
    /\ {thresholdNum, Interval, Delay, BootTime, FirstTsc, MaxTime} \subseteq Nat
    /\ FirstTsc < UINT64_MODULUS
    /\ Rates \subseteq Nat

(* The whole ticks of a nanosecond, and the counter n nanoseconds after    *)
(* the start of the program if it keeps to its frequency: it shows the     *)
(* whole ticks only, and frequency need not be a multiple of 1000.         *)
NominalRate == frequency \div NANOSECONDS_PER_MICROSECOND

Ticks(n) == (frequency * n) \div NANOSECONDS_PER_MICROSECOND

CounterAt(n) == (FirstTsc + Ticks(n)) % UINT64_MODULUS

VARIABLES
    pc,        \* where the constructor or the callback is
    held,      \* what readFrequency() has acquired
    time,      \* CLOCK_MONOTONIC_RAW
    tsc,       \* the counter
    startTime,
    startTsc,
    readTime,  \* local variable time of callback()
    readTsc,   \* local variable tsc of callback()
    valid,     \* MonotonicTimer::valid
    since,     \* nanoseconds since the last read of a clock
    steps,     \* nanoseconds the clocks have run
    drifted    \* history: the two clocks have not always run alike

clocks == <<time, tsc, steps, drifted>>
start  == <<startTime, startTsc>>
reads  == <<readTime, readTsc>>
vars   == <<pc, held, clocks, start, reads, valid, since>>

Init ==
    /\ pc = "checkTsc"
    /\ held = {}
    /\ time = BootTime
    /\ tsc = FirstTsc
    /\ startTime = 0
    /\ startTsc = 0
    /\ readTime = 0
    /\ readTsc = 0
    /\ valid = TRUE
    /\ since = 0
    /\ steps = 0
    /\ drifted = FALSE

----------------------------------------------------------------------------
(* The clocks.  elapsed = 0: CLOCK_MONOTONIC_RAW stands still. *)

ClocksRun(elapsed, rate) ==
    /\ pc \in {"startTsc", "readTsc", "idle"}
    /\ steps < MaxTime
    /\ pc # "idle" => since < Delay
    /\ time' = time + elapsed
    /\ tsc' = (tsc + rate) % UINT64_MODULUS
    /\ steps' = steps + 1
    /\ since' = IF since < Interval THEN since + 1 ELSE since
    /\ drifted' = (drifted \/ elapsed = 0 \/ tsc' # CounterAt(steps'))
    /\ UNCHANGED <<pc, held, start, reads, valid>>

----------------------------------------------------------------------------
(* The constructor: checkTsc(), readFrequency() and the two start values.  *)
(* A failure throws, and the program ends.                                 *)

Frame == UNCHANGED <<clocks, reads, valid>>

CheckTsc ==
    /\ pc = "checkTsc"
    /\ pc' \in {"perfOpen", "thrown"}
    /\ UNCHANGED <<held, start, since>> /\ Frame

PerfEventOpen ==
    /\ pc = "perfOpen"
    /\ \/ pc' = "sysconf" /\ held' = {"fileDescriptor"}
       \/ pc' = "thrown" /\ UNCHANGED held
    /\ UNCHANGED <<start, since>> /\ Frame

SysconfPageSize_NoClose ==
    /\ pc = "sysconf"
    /\ \/ pc' = "mmap" /\ UNCHANGED held
       \/ pc' = "thrown" /\ UNCHANGED held
    /\ UNCHANGED <<start, since>> /\ Frame

SysconfPageSize ==
    /\ pc = "sysconf"
    /\ \/ pc' = "mmap" /\ UNCHANGED held
       \/ pc' = "thrown" /\ held' = held \ {"fileDescriptor"}
    /\ UNCHANGED <<start, since>> /\ Frame

Mmap ==
    /\ pc = "mmap"
    /\ \/ pc' = "readPage" /\ held' = held \cup {"page"}
       \/ pc' = "thrown" /\ held' = held \ {"fileDescriptor"}
    /\ UNCHANGED <<start, since>> /\ Frame

(* The page is read, unmapped and the descriptor closed; the multiplier    *)
(* may be zero, and no frequency can be computed.                          *)
ReadPage ==
    /\ pc = "readPage"
    /\ held' = held \ {"page", "fileDescriptor"}
    /\ pc' \in {"startTime", "thrown"}
    /\ UNCHANGED <<start, since>> /\ Frame

ReadStartTime ==
    /\ pc = "startTime"
    /\ startTime' = time
    /\ since' = 0
    /\ pc' = "startTsc"
    /\ UNCHANGED <<held, startTsc>> /\ Frame

(* The last read, and timer.start(). *)
ReadStartTsc ==
    /\ pc = "startTsc"
    /\ startTsc' = tsc
    /\ since' = 0
    /\ pc' = "idle"
    /\ UNCHANGED <<held, startTime>> /\ Frame

----------------------------------------------------------------------------
(* callback(), run by the thread of the timer. *)

ReadTime ==
    /\ pc = "idle"
    /\ since >= Interval
    /\ readTime' = time
    /\ since' = 0
    /\ pc' = "readTsc"
    /\ UNCHANGED <<held, clocks, start, readTsc, valid>>

Elapsed(counter) == (counter - startTsc) % UINT64_MODULUS

(* abs(this->frequency - frequency) / this->frequency >= deviationThreshold, *)
(* multiplied out.                                                         *)
Deviates_NoAbs(t, counter) ==
    LET dt == t - startTime IN
    (frequency * dt - NANOSECONDS_PER_MICROSECOND * Elapsed(counter)) * thresholdDen
        >= thresholdNum * frequency * dt

Deviates_NotRelative(t, counter) ==
    LET dt   == t - startTime
        diff == frequency * dt - NANOSECONDS_PER_MICROSECOND * Elapsed(counter)
    IN  (IF diff < 0 THEN -diff ELSE diff) * thresholdDen >= thresholdNum * dt

Deviates(t, counter) ==
    LET dt   == t - startTime
        diff == frequency * dt - NANOSECONDS_PER_MICROSECOND * Elapsed(counter)
    IN  (IF diff < 0 THEN -diff ELSE diff) * thresholdDen >= thresholdNum * frequency * dt

(* The second read, and what the callback makes of the two. *)
ReadTscAndCompare ==
    /\ pc = "readTsc"
    /\ readTsc' = tsc
    /\ since' = 0
    /\ pc' = "idle"
    /\ valid' = (valid /\ readTime # startTime /\ ~Deviates(readTime, tsc))
    /\ UNCHANGED <<held, clocks, start, readTime>>

----------------------------------------------------------------------------
(* get(): fixed-point arithmetic with a 128-bit product. *)

nsPerTickMultiplier == (NANOSECONDS_PER_MICROSECOND * shift2) \div frequency

Get_NotRelative(counter) == ((counter * nsPerTickMultiplier) \div shift2) % UINT64_MODULUS

Get(counter) == ((Elapsed(counter) * nsPerTickMultiplier) \div shift2) % UINT64_MODULUS

----------------------------------------------------------------------------
Constructor ==
    \/ CheckTsc
    \/ PerfEventOpen
    \/ SysconfPageSize
    \/ Mmap
    \/ ReadPage
    \/ ReadStartTime
    \/ ReadStartTsc

Next ==
    \/ \E elapsed \in {0, 1}, rate \in Rates : ClocksRun(elapsed, rate)
    \/ Constructor
    \/ ReadTime
    \/ ReadTscAndCompare

Spec == Init /\ [][Next]_vars

----------------------------------------------------------------------------
(* Properties *)

Running == pc \in {"idle", "readTsc"}

(* A callback has run and both its reads are available. *)
Judged == pc = "idle" /\ readTime # 0

(* Every variable keeps the type its C++ counterpart has. *)
TypeOK ==
    /\ pc \in {"checkTsc", "perfOpen", "sysconf", "mmap", "readPage", "startTime", "startTsc",
               "idle", "readTsc", "thrown"}
    /\ held \subseteq {"fileDescriptor", "page"}
    /\ {time, startTime, readTime, since, steps} \subseteq Nat
    /\ {tsc, startTsc, readTsc} \subseteq 0 .. UINT64_MODULUS - 1
    /\ {valid, drifted} \subseteq BOOLEAN

(* readFrequency() releases descriptor and page on each of its paths. *)
PerfReleased == pc \in {"startTime", "startTsc", "idle", "readTsc", "thrown"} => held = {}

(* The delay between two reads, and the tick that the reads of the counter *)
(* round away, are within the threshold over one interval.                 *)
Tolerant ==
    (frequency * Delay + NANOSECONDS_PER_MICROSECOND) * thresholdDen
        <= thresholdNum * (frequency * Interval)

(* A counter that keeps to its frequency is never declared invalid,        *)
(* although the thread may be preempted between the reads of the two       *)
(* clocks: the start values and the callback read them in the same order,  *)
(* so a delay counts once.                                                 *)
ReliableClockStaysValid == ~drifted /\ Tolerant => valid

(* While valid is set, the time get() computed from the counter at the     *)
(* last callback is as close to CLOCK_MONOTONIC_RAW as the threshold says, *)
(* up to the rounding of the fixed-point arithmetic.                       *)
ReportedTimeBounded ==
    Judged /\ valid =>
        LET dt   == readTime - startTime
            diff == Get(readTsc) - dt
        IN  (IF diff < 0 THEN -diff ELSE diff) * thresholdDen * shift2
                < thresholdNum * dt * shift2 + (Elapsed(readTsc) + shift2) * thresholdDen

(* get() never goes back, even if the counter wraps around, and it goes    *)
(* forward whenever the counter has advanced by more than the ticks of a   *)
(* nanosecond: the rounding of the multiplier costs less than one tick.    *)
GetMonotone ==
    [][Running => /\ Get(tsc)' >= Get(tsc)
                  /\ (tsc' - tsc) % UINT64_MODULUS > NominalRate => Get(tsc)' > Get(tsc)]_vars
===========================================================================
