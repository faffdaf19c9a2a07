-------------------------- MODULE GuardsAndCacheProofs --------------------------
(***************************************************************************)
(* The guards of execute_loop (LoopGuards) for any tools, calls,           *)
(* thresholds, windows and lengths of a batch, and the cache of its reads  *)
(* (ToolCache) for any workspace, lifetimes and limit.                     *)
(*                                                                         *)
(* The breaker comes first, on its own.  A trip forgets Threshold          *)
(* failures; so the failures behind a tool's trips and those in its        *)
(* counter add up to at most its total, which PermanentIsEarned needs.     *)
(*                                                                         *)
(* Then the loop, which is shown to use the breaker and the doom loop gate *)
(* as their modules describe them.  The gate records a batch by a fold     *)
(* that stops at the first detection; what one call keeps of the window    *)
(* and the warning (RecordKeeps) the whole batch keeps (RecordingKeeps).   *)
(*                                                                         *)
(* The cache is on its own: the results that wait to be stored are as good *)
(* as those in the cache, since no write of the loop happens before they   *)
(* are stored.                                                             *)
(***************************************************************************)
EXTENDS LoopGuards, ToolCache, RecursionProofs, FiniteSetTheorems, TLAPS

\* The counter of a tool, its run of failures, its trips and its total agree.
ToolInv(t) ==
    /\ failures[t] < Threshold
    /\ failures[t] = streak[t] % Threshold
    /\ trips[t] * Threshold + failures[t] <= total[t]
    /\ t \in permanent <=> trips[t] >= 2

\* The breaker with its history: inductive, and stronger than its properties.
BreakerInv ==
    /\ TypeOK
    /\ streak \in [Tools -> Nat] /\ total \in [Tools -> Nat]
    /\ \A t \in Tools : ToolInv(t)

-----------------------------------------------------------------------------
(* Arithmetic of remainders *)

\* A number is its quotient times the divisor plus its remainder.
LEMMA Division ==
    ASSUME NEW s \in Nat, NEW d \in Nat \ {0}
    PROVE  s = (s \div d) * d + (s % d)
  BY SMTT(60)

\* There is only one such decomposition.
LEMMA RemainderIsUnique ==
    ASSUME NEW d \in Nat \ {0}, NEW p \in Int, NEW q \in Int,
           NEW x \in 0..(d - 1), NEW y \in 0..(d - 1), p * d + x = q * d + y
    PROVE  x = y
<1>1. (p - q) * d = y - x
  OBVIOUS
<1>2. p - q <= 0
  <2> SUFFICES ASSUME p - q >= 1 PROVE FALSE
    OBVIOUS
  <2>1. (p - q - 1) * d >= 0 /\ (p - q - 1) * d = (p - q) * d - d
    OBVIOUS
  <2>2. QED
    BY <1>1, <2>1
<1>3. p - q >= 0
  <2> SUFFICES ASSUME q - p >= 1 PROVE FALSE
    OBVIOUS
  <2>1. (q - p - 1) * d >= 0 /\ (q - p - 1) * d = -((p - q) * d) - d
    OBVIOUS
  <2>2. QED
    BY <1>1, <2>1
<1>4. p = q
  BY <1>2, <1>3
<1>5. QED
  BY <1>4

\* The next remainder is one more, or zero where that would be the divisor.
\* Counting one up counts the remainder one up, or takes it back to 0.
LEMMA NextRemainder ==
    ASSUME NEW s \in Nat, NEW d \in Nat \ {0}
    PROVE  (s + 1) % d = IF (s % d) + 1 = d THEN 0 ELSE (s % d) + 1
<1>1. /\ s % d \in 0..(d - 1) /\ (s + 1) % d \in 0..(d - 1) /\ 0 \in 0..(d - 1)
      /\ s \div d \in Int /\ (s + 1) \div d \in Int /\ (s \div d) + 1 \in Int
  OBVIOUS
<1>2. s = (s \div d) * d + (s % d)
  BY Division
<1>3. s + 1 = ((s + 1) \div d) * d + ((s + 1) % d)
  BY Division
<1>4. CASE (s % d) + 1 < d
  <2>1. ((s + 1) \div d) * d + ((s + 1) % d) = (s \div d) * d + ((s % d) + 1)
    BY <1>1, <1>2, <1>3
  <2>2. QED
    BY <1>1, <1>4, <2>1, RemainderIsUnique
<1>5. CASE (s % d) + 1 = d
  <2>1. (s \div d) * d + d = ((s \div d) + 1) * d
    BY <1>1
  <2>2. ((s + 1) \div d) * d + ((s + 1) % d) = ((s \div d) + 1) * d + 0
    BY <1>1, <1>2, <1>3, <1>5, <2>1
  <2>3. (s + 1) % d = 0
    BY <1>1, <2>2, RemainderIsUnique
  <2>4. QED
    BY <1>5, <2>3
<1>6. QED
  BY <1>1, <1>4, <1>5

-----------------------------------------------------------------------------
(* Each step preserves the invariant *)

\* A new breaker has counted nothing.
LEMMA BreakerInit == Init => BreakerInv
<1>1. 0 % Threshold = 0 /\ 0 * Threshold = 0
  BY BreakerAssumption
<1>2. QED
  BY <1>1, BreakerAssumption DEF Init, BreakerInv, ToolInv, TypeOK, Zero

\* A success clears the counter and the run together.
LEMMA SucceedInv ==
    ASSUME BreakerInv, NEW t \in Tools, Succeed(t)
    PROVE  BreakerInv'
<1>1. 0 % Threshold = 0
  BY BreakerAssumption
<1>2. trips[t] * Threshold <= total[t]
  <2>1. trips[t] * Threshold \in Nat /\ failures[t] \in Nat /\ total[t] \in Nat
    BY BreakerAssumption DEF BreakerInv, TypeOK
  <2>2. QED
    BY <2>1 DEF BreakerInv, ToolInv
<1>3. QED
  BY <1>1, <1>2, BreakerAssumption DEF Succeed, BreakerInv, ToolInv, TypeOK

\* A tool that a step leaves alone keeps its invariant.
\* The calls of a tool leave the other tools as they are.
LEMMA OtherTools ==
    ASSUME NEW u \in Tools, ToolInv(u),
           failures'[u] = failures[u], streak'[u] = streak[u],
           trips'[u] = trips[u], total'[u] = total[u],
           u \in permanent' <=> u \in permanent
    PROVE  ToolInv(u)'
  BY DEF ToolInv

\* A failure counts, and trips the breaker when the counter reaches Threshold.
LEMMA FailInv ==
    ASSUME BreakerInv, NEW t \in Tools, Fail(t)
    PROVE  BreakerInv'
<1>1. /\ failures[t] \in Nat /\ trips[t] \in Nat /\ streak[t] \in Nat /\ total[t] \in Nat
      /\ Threshold \in Nat \ {0} /\ trips[t] * Threshold \in Nat
  BY BreakerAssumption DEF BreakerInv, TypeOK
<1>2. failures[t] < Threshold /\ (t \in permanent <=> trips[t] >= 2)
  BY DEF BreakerInv, ToolInv
<1>3. trips[t] * Threshold + failures[t] <= total[t]
  BY DEF BreakerInv, ToolInv
<1>4. (streak[t] + 1) % Threshold
         = IF failures[t] + 1 = Threshold THEN 0 ELSE failures[t] + 1
  <2>1. failures[t] = streak[t] % Threshold
    BY DEF BreakerInv, ToolInv
  <2>2. (streak[t] + 1) % Threshold
           = IF (streak[t] % Threshold) + 1 = Threshold THEN 0 ELSE (streak[t] % Threshold) + 1
    BY <1>1, NextRemainder
  <2>3. QED
    BY <2>1, <2>2
<1>5. TypeOK' /\ streak' \in [Tools -> Nat] /\ total' \in [Tools -> Nat]
  BY BreakerAssumption DEF Fail, Trip, BreakerInv, TypeOK
<1>6. streak'[t] = streak[t] + 1 /\ total'[t] = total[t] + 1
  BY DEF Fail, BreakerInv
<1>7. ToolInv(t)'
  <2>1. CASE failures[t] + 1 >= Threshold
    <3>1. failures[t] + 1 = Threshold
      BY <1>1, <1>2, <2>1
    <3>2. /\ failures'[t] = 0 /\ trips'[t] = trips[t] + 1
          /\ t \in permanent' <=> trips[t] + 1 >= 2
      BY <1>1, <1>2, <2>1 DEF Fail, Trip, BreakerInv, TypeOK
    <3>3. (trips[t] + 1) * Threshold = trips[t] * Threshold + Threshold
      BY <1>1
    <3>4. trips'[t] * Threshold + failures'[t] <= total'[t]
      <4>1. trips[t] * Threshold + Threshold <= total[t] + 1
        BY <1>1, <1>3, <3>1
      <4>2. (trips[t] + 1) * Threshold + 0 <= total[t] + 1
        BY <1>1, <3>3, <4>1
      <4>3. QED
        BY <1>6, <3>2, <4>2
    <3>5. QED
      BY <1>1, <1>4, <1>6, <3>1, <3>2, <3>4 DEF ToolInv
  <2>2. CASE ~(failures[t] + 1 >= Threshold)
    <3>1. failures'[t] = failures[t] + 1 /\ trips'[t] = trips[t] /\ permanent' = permanent
      BY <2>2 DEF Fail, BreakerInv, TypeOK
    <3>2. trips'[t] * Threshold + failures'[t] <= total'[t]
      BY <1>1, <1>3, <1>6, <3>1
    <3>3. QED
      BY <1>1, <1>2, <1>4, <1>6, <2>2, <3>1, <3>2 DEF ToolInv
  <2>3. QED
    BY <2>1, <2>2
<1>8. ASSUME NEW u \in Tools, u # t
      PROVE  ToolInv(u)'
  <2>1. ToolInv(u)
    BY DEF BreakerInv
  <2>2. QED
    BY <1>8, <2>1, OtherTools DEF Fail, Trip, BreakerInv, TypeOK
<1>9. QED
  BY <1>5, <1>7, <1>8 DEF BreakerInv

\* Every step of the breaker preserves the invariant.
LEMMA BreakerStep ==
    ASSUME BreakerInv, [Next]_vars
    PROVE  BreakerInv'
<1>1. CASE BeginTurn
  BY <1>1, BreakerAssumption DEF BeginTurn, BreakerInv, ToolInv, TypeOK
<1>2. ASSUME NEW t \in Tools, Executes(t)
      PROVE  BreakerInv'
  <2>1. CASE CallByName(t)
    BY <2>1, SucceedInv, FailInv DEF CallByName
  <2>2. CASE CallByMisspelling(t)
    BY <2>2, SucceedInv, FailInv DEF CallByMisspelling
  <2>3. CASE CallInParallel(t)
    BY <2>3 DEF CallInParallel, vars, BreakerInv, ToolInv, TypeOK
  <2>4. QED
    BY <1>2, <2>1, <2>2, <2>3 DEF Executes
<1>3. CASE UNCHANGED vars
  BY <1>3 DEF vars, BreakerInv, ToolInv, TypeOK
<1>4. QED
  BY <1>1, <1>2, <1>3 DEF Next

-----------------------------------------------------------------------------
\* The invariant holds for every threshold, cooldown and set of tools.
THEOREM BreakerInvariant == Spec => []BreakerInv
  BY BreakerInit, BreakerStep, PTL DEF Spec

\* The breaker's variables keep their types.
THEOREM BreakerTypeCorrect == Spec => []TypeOK
<1>1. BreakerInv => TypeOK
  BY DEF BreakerInv
<1>2. QED
  BY <1>1, BreakerInvariant, PTL

\* consecutive_failures never drifts from the failures it counts.
THEOREM BreakerCountsFailures == Spec => []FailuresMatchHistory
<1>1. BreakerInv => FailuresMatchHistory
  BY DEF BreakerInv, ToolInv, FailuresMatchHistory
<1>2. QED
  BY <1>1, BreakerInvariant, PTL

\* No tool is disabled for the session before two full runs of failures.
THEOREM BreakerPermanentIsEarned == Spec => []PermanentIsEarned
<1>1. BreakerInv => PermanentIsEarned
  <2>1. ASSUME BreakerInv, NEW t \in Tools
        PROVE  trips[t] * Threshold <= total[t]
    <3>1. trips[t] * Threshold \in Nat /\ failures[t] \in Nat /\ total[t] \in Nat
      BY <2>1, BreakerAssumption DEF BreakerInv, TypeOK
    <3>2. QED
      BY <2>1, <3>1 DEF BreakerInv, ToolInv
  <2>2. QED
    BY <2>1 DEF BreakerInv, ToolInv, PermanentIsEarned
<1>2. QED
  BY <1>1, BreakerInvariant, PTL

-----------------------------------------------------------------------------
(* The doom loop gate *)

\* What each record keeps, the recording of a batch keeps.
LEMMA RecordingKeeps ==
    ASSUME NEW cs \in Seq(Calls), NEW I, NEW t0 \in I,
           \A t \in I, c \in Calls : Doom!RecordUntilDetected(t, c) \in I
    PROVE  Doom!FoldLeft(Doom!RecordUntilDetected, t0, cs) \in I
<1> DEFINE m == Len(cs)
           step == [n \in 1..m |-> [t \in I |-> Doom!RecordUntilDetected(t, cs[n])]]
           Fold(g) == [s \in SUBSET (1..m) |->
                         IF s = {} THEN t0
                         ELSE Doom!RecordUntilDetected(g[s \ {Max(s)}], cs[Max(s)])]
           iter == CHOOSE g : g = Fold(g)
<1>1. m \in Nat /\ DOMAIN cs = 1..m /\ \A n \in 1..m : cs[n] \in Calls
  OBVIOUS
<1>2. Doom!FoldLeft(Doom!RecordUntilDetected, t0, cs) = iter[1..m]
  BY <1>1 DEF Doom!FoldLeft, Doom!MapThenFoldSet, Doom!Max, Max
<1>3. step \in Steps(I, m)
  BY <1>1 DEF Steps
<1>4. ASSUME NEW s \in SUBSET (1..m), s # {}
      PROVE  Max(s) = Largest(s) /\ Max(s) \in s /\ \A y \in s : Max(s) >= y
  <2>1. Max(s) = Largest(s)
    BY DEF Max, Largest
  <2>2. QED
    BY <1>1, <1>4, <2>1, LargestExists
<1>5. \E g : g = Fold(g)
  <2>1. PICK g : g \in IndexFolds(I, t0, m, step)
    <3> HIDE DEF step, m
    <3>1. QED
      BY <1>1, <1>3, IndexFoldExists
  <2>2. g \in [SUBSET (1..m) -> I] /\ g[{}] = t0
    BY <2>1 DEF IndexFolds
  <2>3. ASSUME NEW s \in SUBSET (1..m), s # {}
        PROVE  g[s] = Doom!RecordUntilDetected(g[s \ {Max(s)}], cs[Max(s)])
    <3>1. g[s] = step[Largest(s)][g[s \ {Largest(s)}]]
      BY <2>1, <2>3 DEF IndexFolds
    <3>2. Max(s) = Largest(s) /\ Max(s) \in 1..m
      BY <1>4, <2>3
    <3>3. g[s \ {Max(s)}] \in I
      BY <2>2
    <3>4. QED
      BY <3>1, <3>2, <3>3
  <2>4. g = Fold(g)
    BY <2>2, <2>3
  <2>5. QED
    BY <2>4
<1> HIDE DEF step
<1>6. iter = Fold(iter)
  BY <1>5
<1> HIDE DEF iter
<1> DEFINE Good == {n \in Nat : n <= m => iter[1..n] \in I}
<1>7. 0 \in Good
  <2>1. 1..0 = {} /\ {} \in SUBSET (1..m)
    OBVIOUS
  <2>2. iter[{}] = t0
    BY <1>6, <2>1
  <2>3. QED
    BY <2>1, <2>2
<1>8. ASSUME NEW n \in Nat, n \in Good
      PROVE  n + 1 \in Good
  <2> SUFFICES ASSUME n + 1 <= m PROVE iter[1..(n + 1)] \in I
    OBVIOUS
  <2>1. 1..(n + 1) \in SUBSET (1..m) /\ 1..(n + 1) # {} /\ n + 1 \in 1..m /\ iter[1..n] \in I
    BY <1>1, <1>8
  <2>2. Max(1..(n + 1)) \in 1..(n + 1) /\ \A y \in 1..(n + 1) : Max(1..(n + 1)) >= y
    BY <1>4, <2>1
  <2>3. Max(1..(n + 1)) = n + 1
    BY <2>2
  <2>4. (1..(n + 1)) \ {n + 1} = 1..n
    OBVIOUS
  <2>5. iter[1..(n + 1)] = Doom!RecordUntilDetected(iter[1..n], cs[n + 1])
    BY <1>6, <2>1, <2>3, <2>4
  <2>6. QED
    BY <1>1, <2>1, <2>5
<1> HIDE DEF Good
<1>9. m \in Good
  BY <1>1, <1>7, <1>8, Induction
<1>10. QED
  BY <1>2, <1>9 DEF Good

\* The last Repetition calls are equal.
Repeated(s) ==
    /\ Len(s) >= Repetition
    /\ \A i \in (Len(s) - Repetition + 1)..Len(s) : s[i] = Last(s)

\* The tracker while a batch is recorded.
Trackers == [recent : Seq(Calls), warned : BOOLEAN, detected : Calls \cup {NoCall}]

\* What the window and the warning say while a batch is recorded: c is the
\* call of the last question.
TrackerInv(t, c) ==
    /\ t.warned => t.recent # <<>> /\ Last(t.recent) = c
    /\ t.detected # NoCall => t.recent # <<>> /\ Last(t.recent) = t.detected /\ ~t.warned
    /\ t.detected = NoCall => t.warned \/ ~Repeated(t.recent)

\* A repetition is seen by counting.
LEMMA RepeatedIsCounted ==
    ASSUME NEW s \in Seq(Calls), Repeated(s)
    PROVE  Doom!Occurrences(s, Last(s)) >= Repetition
<1> DEFINE T == (Len(s) - Repetition + 1)..Len(s)
           S == {i \in DOMAIN s : s[i] = Last(s)}
<1>1. Repetition \in Nat /\ Repetition > 0 /\ Len(s) \in Nat /\ DOMAIN s = 1..Len(s)
  BY GuardsAssumption
<1>2. IsFiniteSet(S)
  <2>1. IsFiniteSet(1..Len(s))
    BY <1>1, FS_Interval
  <2>2. QED
    BY <1>1, <2>1, FS_Subset
<1>3. T \in SUBSET S
  BY <1>1 DEF Repeated
<1>4. Cardinality(T) = Repetition
  <2>1. Len(s) - Repetition + 1 \in Int /\ Len(s) \in Int
    BY <1>1
  <2>2. Cardinality(T) = IF Len(s) - Repetition + 1 > Len(s) THEN 0
                         ELSE Len(s) - (Len(s) - Repetition + 1) + 1
    <3> HIDE DEF T
    <3>1. QED
      BY <2>1, FS_Interval DEF T
  <2>3. QED
    BY <1>1, <2>2
<1>5. Cardinality(T) <= Cardinality(S) /\ Cardinality(S) \in Nat
  BY <1>2, <1>3, FS_Subset, FS_CardinalityType
<1>6. QED
  <2>1. Doom!Occurrences(s, Last(s)) = Cardinality(S)
    BY DEF Doom!Occurrences, Doom!Cardinality, Cardinality
  <2> HIDE DEF S, T
  <2>2. QED
    BY <1>1, <1>4, <1>5, <2>1

\* The window ends with the call that was recorded last.
LEMMA SlideEndsWith ==
    ASSUME NEW s \in Seq(Calls), NEW c \in Calls
    PROVE  /\ Doom!Slide(s, c) \in Seq(Calls) /\ Doom!Slide(s, c) # <<>>
           /\ Last(Doom!Slide(s, c)) = c
<1> DEFINE longer == Append(s, c)
<1>1. /\ longer \in Seq(Calls) /\ Len(longer) = Len(s) + 1 /\ Len(s) \in Nat
      /\ longer[Len(longer)] = c /\ longer # <<>>
  OBVIOUS
<1>2. CallWindow \in Nat /\ CallWindow > 0
  BY GuardsAssumption
<1> HIDE DEF longer
<1>3. CASE Len(longer) > CallWindow
  <2>1. Tail(longer) \in Seq(Calls) /\ Len(Tail(longer)) = Len(longer) - 1 /\ Len(Tail(longer)) > 0
    BY <1>1, <1>2, <1>3
  <2>2. Tail(longer)[Len(longer) - 1] = c
    BY <1>1, <1>2, <1>3
  <2>3. QED
    BY <1>3, <2>1, <2>2 DEF Doom!Slide, Last, longer
<1>4. CASE ~(Len(longer) > CallWindow)
  BY <1>1, <1>4 DEF Doom!Slide, Last, longer
<1>5. QED
  BY <1>3, <1>4

\* One call: as long as it detects nothing, a repetition has its warning.
LEMMA RecordKeeps ==
    ASSUME NEW t \in Trackers, NEW c0, TrackerInv(t, c0), NEW c \in Calls
    PROVE  /\ Doom!RecordUntilDetected(t, c) \in Trackers
           /\ TrackerInv(Doom!RecordUntilDetected(t, c), c0)
<1>1. CASE t.detected # NoCall
  BY <1>1 DEF Doom!RecordUntilDetected
<1>2. CASE t.detected = NoCall
  <2> DEFINE window == Doom!Slide(t.recent, c)
             warning == t.warned /\ (t.recent = <<>> \/ Last(t.recent) = c)
             found == IF Doom!Occurrences(window, c) >= Repetition /\ ~warning THEN c ELSE NoCall
             r == Doom!RecordUntilDetected(t, c)
  <2>1. t.recent \in Seq(Calls) /\ t.warned \in BOOLEAN
    BY DEF Trackers
  <2>2. window \in Seq(Calls) /\ window # <<>> /\ Last(window) = c
    BY <2>1, SlideEndsWith
  <2>3. r = [recent |-> window, warned |-> warning, detected |-> found]
    <3>1. r = Doom!Record(t, c)
      BY <1>2 DEF Doom!RecordUntilDetected
    <3>2. Doom!Record(t, c) = [recent |-> window, warned |-> warning, detected |-> found]
      BY DEF Doom!Record, Doom!Last, Last
    <3>3. QED
      BY <3>1, <3>2
  <2>4. NoCall \notin Calls
    BY GuardsAssumption
  <2>5. warning => c = c0
    BY DEF TrackerInv
  <2>6. found # NoCall => found = c /\ ~warning
    OBVIOUS
  <2>7. found = NoCall => warning \/ ~Repeated(window)
    BY <2>2, <2>4, RepeatedIsCounted
  <2>8. warning \in BOOLEAN /\ found \in Calls \cup {NoCall}
    BY <2>1
  <2> HIDE DEF window, warning, found, r
  <2>9. r.recent = window /\ r.warned = warning /\ r.detected = found /\ r \in Trackers
    BY <2>2, <2>3, <2>8 DEF Trackers
  <2>10. TrackerInv(r, c0)
    BY <2>2, <2>5, <2>6, <2>7, <2>9 DEF TrackerInv
  <2>11. QED
    BY <2>9, <2>10 DEF r
<1>3. QED
  BY <1>1, <1>2

-----------------------------------------------------------------------------
(* The invariant of the guards *)

\* EscalationSignals, as far as its counters are counted up.
Signals == [evidence : BOOLEAN, failedTurns : 0..2, okTurns : 0..3]

\* The calls in hand: types, and nothing is left of a batch that is over.
HandInv ==
    /\ batch \in Seq(Calls) /\ left \in Seq(Calls)
    /\ Len(batch) <= MaxBatch
    /\ together \in Nat /\ together <= Len(left)
    /\ results \subseteq {"ok", "failed"}
    /\ batch = <<>> => left = <<>>

\* Where a text is kept in a list of errors.
Places(seq, e) == {i \in DOMAIN seq : seq[i] = e}

\* The list holds each text at most as often as it failed since the last guidance.
StuckInv ==
    /\ errors \in Seq(Errors) /\ reports \in Nat /\ since \in [Errors -> Nat]
    /\ \A e \in Errors : Cardinality(Places(errors, e)) <= since[e]

\* What is judged.
JudgedInv ==
    /\ escalation \in Signals
    /\ before \in BOOLEAN /\ injected \in BOOLEAN
    /\ RecoveryIsCurrent /\ StuckInv

\* The window ends with the repeated call from the question on until another
\* call is recorded, and until then the warning stands.
DoomInv ==
    /\ recent \in Seq(Calls) /\ warned \in BOOLEAN /\ asked \in Calls \cup {NoCall}
    /\ gate \in {"idle", "running", "asking"}
    /\ gate = "asking" => recent # <<>> /\ Last(recent) = asked /\ ~warned
    /\ warned => recent # <<>> /\ Last(recent) = asked
    /\ gate # "asking" => warned \/ ~Repeated(recent)

\* The invariant of the loop.
GuardsInv == BreakerInv /\ HandInv /\ JudgedInv /\ DoomInv

\* The calls in hand name tools.
LEMMA HeadIsCall ==
    ASSUME HandInv, left # <<>>
    PROVE  /\ Head(left) \in Calls /\ Tool \in Tools
           /\ Tail(left) \in Seq(Calls) /\ Len(Tail(left)) = Len(left) - 1 /\ Len(left) \in Nat
           /\ batch # <<>>
<1>1. left \in Seq(Calls) /\ batch # <<>>
  BY DEF HandInv
<1>2. /\ Head(left) \in Calls /\ Tail(left) \in Seq(Calls)
      /\ Len(Tail(left)) = Len(left) - 1 /\ Len(left) \in Nat
  BY <1>1
<1>3. QED
  BY <1>1, <1>2, GuardsAssumption DEF Tool

\* The parallel path has calls to take.
LEMMA TogetherHasCalls ==
    ASSUME HandInv, together > 0
    PROVE  left # <<>>
  BY DEF HandInv

-----------------------------------------------------------------------------
(* The breaker, step by step *)

\* Every step of the loop is a step of the breaker or leaves it alone.
LEMMA BreakerSteps ==
    ASSUME HandInv, [GuardsNext]_allVars
    PROVE  [Next]_vars
<1>1. CASE UNCHANGED breaker
  BY <1>1 DEF breaker
<1>2. ASSUME NEW cs, Respond(cs)
      PROVE  [Next]_vars
  BY <1>2 DEF Respond, Next
<1>3. CASE ExecuteCall
  <2>1. Tool \in Tools
    BY <1>3, HeadIsCall DEF ExecuteCall
  <2>2. CallByMisspelling(Tool) \/ CallByName(Tool)
    BY <1>3 DEF ExecuteCall
  <2>3. QED
    BY <2>1, <2>2 DEF Next, Executes
<1>4. CASE StartUserTurn \/ EndUserTurn \/ ExecuteInParallel \/ DeferCall \/ RefuseCall
           \/ AnswerOtherwise \/ AgentCallFails \/ FinishBatch \/ UserDecides
  BY <1>1, <1>4 DEF StartUserTurn, EndUserTurn, ExecuteInParallel, DeferCall, RefuseCall,
                    AnswerOtherwise, AgentCallFails, FinishBatch, UserDecides
<1>5. CASE UNCHANGED allVars
  BY <1>1, <1>5 DEF allVars
<1>6. QED
  BY <1>2, <1>3, <1>4, <1>5 DEF GuardsNext

-----------------------------------------------------------------------------
(* The calls in hand *)

\* A call is answered and leaves the calls in hand.
LEMMA HandAnswered ==
    ASSUME HandInv, left # <<>>, NEW outcome \in {"ok", "failed"}, Answered(outcome),
           \/ together' = together /\ together = 0
           \/ together > 0 /\ together' = together - 1
    PROVE  HandInv'
<1>1. /\ Tail(left) \in Seq(Calls) /\ Len(Tail(left)) = Len(left) - 1 /\ Len(left) \in Nat
      /\ batch # <<>>
  BY HeadIsCall
<1>2. /\ batch' = batch /\ left' = Tail(left) /\ results' = results \cup {outcome}
  BY DEF Answered
<1>3. together' \in Nat /\ together' <= Len(left')
  <2>1. together \in Nat /\ together <= Len(left) /\ Len(left) > 0
    BY <1>1 DEF HandInv
  <2>2. QED
    BY <1>1, <1>2, <2>1
<1>4. QED
  BY <1>1, <1>2, <1>3 DEF HandInv

\* A response puts its calls in hand, those of the parallel path first.
LEMMA HandRespond ==
    ASSUME HandInv, NEW n \in 1..MaxBatch, NEW cs \in [1..n -> Calls], Respond(cs)
    PROVE  HandInv'
<1> DEFINE first == Only(cs, InParallel)
           rest == Without(cs, InParallel)
<1>1. cs \in Seq(Calls) /\ cs # <<>>
  BY GuardsAssumption
<1>2. first \in Seq(Calls \cap InParallel)
  BY <1>1, OnlySelects
<1>3. rest \in Seq(Calls \cap ({cs[i] : i \in DOMAIN cs} \ InParallel))
  BY <1>1, OnlySelects DEF Without
<1>4. first \in Seq(Calls) /\ rest \in Seq(Calls)
  BY <1>2, <1>3
<1>5. /\ left' = first \o rest /\ together' = IF Len(first) > 1 THEN Len(first) ELSE 0
      /\ batch' = cs /\ results' = {}
  BY DEF Respond
<1> HIDE DEF first, rest
<1>6. left' \in Seq(Calls) /\ Len(left') = Len(first) + Len(rest) /\ Len(first) \in Nat /\ Len(rest) \in Nat
  BY <1>4, <1>5
<1>7. together' \in Nat /\ together' <= Len(left')
  BY <1>5, <1>6
<1>8. QED
  BY <1>1, <1>5, <1>6, <1>7 DEF HandInv

\* Every step keeps the calls in hand well formed.
LEMMA HandNext ==
    ASSUME HandInv, [GuardsNext]_allVars
    PROVE  HandInv'
<1>1. CASE UNCHANGED hand
  BY <1>1 DEF hand, HandInv
<1>2. ASSUME NEW n \in 1..MaxBatch, NEW cs \in [1..n -> Calls], Respond(cs)
      PROVE  HandInv'
  BY <1>2, HandRespond
<1>3. CASE ExecuteInParallel
  <2>1. left # <<>> /\ together > 0 /\ together' = together - 1
    BY <1>3, TogetherHasCalls DEF ExecuteInParallel
  <2>2. \E outcome \in {"ok", "failed"} : Answered(outcome)
    BY <1>3 DEF ExecuteInParallel
  <2>3. QED
    BY <2>1, <2>2, HandAnswered
<1>4. CASE DeferCall
  <2>1. left # <<>> /\ together' = together - 1 /\ together > 0
    BY <1>4, TogetherHasCalls DEF DeferCall
  <2>2. /\ left' = Append(Tail(left), Head(left)) /\ batch' = batch /\ results' = results
    BY <1>4 DEF DeferCall
  <2>3. left' \in Seq(Calls) /\ Len(left') = Len(left) /\ batch # <<>>
    BY <2>1, <2>2, HeadIsCall
  <2>4. QED
    BY <2>1, <2>2, <2>3 DEF HandInv
<1>5. CASE RefuseCall \/ AnswerOtherwise
  BY <1>5, HandAnswered DEF RefuseCall, AnswerOtherwise
<1>6. CASE ExecuteCall
  BY <1>6, HandAnswered DEF ExecuteCall
<1>7. CASE AgentCallFails
  <2>1. /\ <<>> \in Seq(Calls) /\ together = 0 /\ together' = 0
        /\ Len(<<>>) = 0 /\ Len(<<>>) <= MaxBatch
    BY <1>7, GuardsAssumption DEF AgentCallFails
  <2>2. QED
    BY <1>7, <2>1 DEF AgentCallFails, HandInv
<1>8. CASE FinishBatch
  <2>1. <<>> \in Seq(Calls) /\ Len(<<>>) <= MaxBatch
    BY GuardsAssumption
  <2>2. QED
    BY <1>8, <2>1 DEF FinishBatch, HandInv
<1>9. CASE StartUserTurn \/ EndUserTurn \/ UserDecides \/ UNCHANGED allVars
  BY <1>1, <1>9 DEF StartUserTurn, EndUserTurn, UserDecides, allVars
<1>10. QED
  BY <1>2, <1>3, <1>4, <1>5, <1>6, <1>7, <1>8, <1>9 DEF GuardsNext

-----------------------------------------------------------------------------
(* The signals, the errors and the guidance *)

\* track_error keeps a list of errors.
LEMMA TrackTypes ==
    ASSUME NEW seq \in Seq(Errors), NEW e \in Errors
    PROVE  Track(seq, e) \in Seq(Errors)
<1> DEFINE longer == Append(seq, e)
<1>1. longer \in Seq(Errors) /\ Len(longer) = Len(seq) + 1 /\ Len(seq) \in Nat
  OBVIOUS
<1> HIDE DEF longer
<1>2. Tail(longer) \in Seq(Errors)
  BY <1>1
<1>3. QED
  BY <1>1, <1>2 DEF Track, longer

\* A list has finitely many places.
LEMMA PlacesFinite ==
    ASSUME NEW seq \in Seq(Errors), NEW e
    PROVE  IsFiniteSet(Places(seq, e)) /\ Cardinality(Places(seq, e)) \in Nat
<1>1. Len(seq) \in Nat /\ DOMAIN seq = 1..Len(seq)
  OBVIOUS
<1>2. IsFiniteSet(1..Len(seq))
  BY <1>1, FS_Interval
<1>3. IsFiniteSet(Places(seq, e))
  BY <1>1, <1>2, FS_Subset DEF Places
<1>4. QED
  BY <1>3, FS_CardinalityType

\* One more error is one more place for its text.
LEMMA AppendPlaces ==
    ASSUME NEW seq \in Seq(Errors), NEW e \in Errors, NEW f \in Errors
    PROVE  Cardinality(Places(Append(seq, e), f)) <= Cardinality(Places(seq, f)) + (IF f = e THEN 1 ELSE 0)
<1>1. Len(seq) \in Nat /\ DOMAIN seq = 1..Len(seq) /\ DOMAIN Append(seq, e) = 1..(Len(seq) + 1)
  OBVIOUS
<1>2. \A i \in 1..(Len(seq) + 1) : Append(seq, e)[i] = IF i <= Len(seq) THEN seq[i] ELSE e
  OBVIOUS
<1>3. IsFiniteSet(Places(seq, f)) /\ Cardinality(Places(seq, f)) \in Nat
  BY PlacesFinite
<1>4. CASE f = e
  <2>1. Places(Append(seq, e), f) = Places(seq, f) \cup {Len(seq) + 1}
    BY <1>1, <1>2, <1>4 DEF Places
  <2>2. Len(seq) + 1 \notin Places(seq, f)
    BY <1>1 DEF Places
  <2>3. Cardinality(Places(seq, f) \cup {Len(seq) + 1}) = Cardinality(Places(seq, f)) + 1
    BY <1>3, <2>2, FS_AddElement
  <2>4. QED
    BY <1>3, <1>4, <2>1, <2>3
<1>5. CASE f # e
  <2>1. Places(Append(seq, e), f) = Places(seq, f)
    BY <1>1, <1>2, <1>5 DEF Places
  <2>2. QED
    BY <1>3, <1>5, <2>1
<1>6. QED
  BY <1>4, <1>5

\* Forgetting the oldest error adds no place.
LEMMA TailPlaces ==
    ASSUME NEW seq \in Seq(Errors), seq # <<>>, NEW f \in Errors
    PROVE  Cardinality(Places(Tail(seq), f)) <= Cardinality(Places(seq, f))
<1> DEFINE S == Places(Tail(seq), f)
           T == Places(seq, f)
           g == [i \in S |-> i + 1]
<1>1. /\ Len(seq) \in Nat /\ DOMAIN seq = 1..Len(seq) /\ DOMAIN Tail(seq) = 1..(Len(seq) - 1)
      /\ \A i \in 1..(Len(seq) - 1) : Tail(seq)[i] = seq[i + 1]
  OBVIOUS
<1>2. \A i \in S : i \in Int /\ i + 1 \in T
  BY <1>1 DEF Places
<1>3. IsFiniteSet(T)
  BY PlacesFinite
<1> HIDE DEF S, T
<1>4. g \in [S -> T] /\ \A i, k \in S : g[i] = g[k] => i = k
  BY <1>2
<1>5. g \in Injection(S, T)
  BY <1>4 DEF Injection, IsInjective
<1> HIDE DEF g
<1>6. QED
  BY <1>3, <1>5, FS_Injection DEF S, T

\* track_error adds one place for the text of the failure, and none for others.
LEMMA TrackPlaces ==
    ASSUME NEW seq \in Seq(Errors), NEW e \in Errors, NEW f \in Errors
    PROVE  Cardinality(Places(Track(seq, e), f)) <= Cardinality(Places(seq, f)) + (IF f = e THEN 1 ELSE 0)
<1> DEFINE longer == Append(seq, e)
<1>1. longer \in Seq(Errors) /\ longer # <<>> /\ Tail(longer) \in Seq(Errors)
  <2>1. longer \in Seq(Errors) /\ Len(longer) = Len(seq) + 1 /\ Len(seq) \in Nat
    OBVIOUS
  <2> HIDE DEF longer
  <2>2. longer # <<>>
    BY <2>1
  <2>3. QED
    BY <2>1, <2>2
<1>2. Track(seq, e) \in {longer, Tail(longer)}
  BY DEF Track
<1>3. Cardinality(Places(longer, f)) <= Cardinality(Places(seq, f)) + (IF f = e THEN 1 ELSE 0)
  BY AppendPlaces
<1> HIDE DEF longer
<1>4. Cardinality(Places(Tail(longer), f)) <= Cardinality(Places(longer, f))
  BY <1>1, TailPlaces
<1>5. /\ Cardinality(Places(longer, f)) \in Nat /\ Cardinality(Places(Tail(longer), f)) \in Nat
      /\ Cardinality(Places(seq, f)) \in Nat
  BY <1>1, PlacesFinite
<1>6. CASE Track(seq, e) = longer
  BY <1>3, <1>6
<1>7. CASE Track(seq, e) = Tail(longer)
  <2>1. Cardinality(Places(Tail(longer), f)) <= Cardinality(Places(seq, f)) + (IF f = e THEN 1 ELSE 0)
    BY <1>3, <1>4, <1>5
  <2>2. QED
    BY <1>7, <2>1
<1>8. QED
  BY <1>2, <1>6, <1>7

\* An observed failure is counted with the place it takes.
LEMMA StuckObserves ==
    ASSUME StuckInv, NEW e \in Errors, Observes(e)
    PROVE  StuckInv'
<1>1. /\ errors \in Seq(Errors) /\ since \in [Errors -> Nat] /\ reports \in Nat
      /\ errors' = Track(errors, e) /\ since' = [since EXCEPT ![e] = @ + 1] /\ reports' = reports
  BY DEF StuckInv, Observes
<1>2. errors' \in Seq(Errors) /\ since' \in [Errors -> Nat]
  BY <1>1, TrackTypes
<1>3. ASSUME NEW f \in Errors
      PROVE  Cardinality(Places(errors', f)) <= since'[f]
  <2>1. since'[f] = since[f] + (IF f = e THEN 1 ELSE 0) /\ since[f] \in Nat
    BY <1>1
  <2>2. Cardinality(Places(errors, f)) <= since[f]
    BY DEF StuckInv
  <2>3. Cardinality(Places(errors', f)) <= Cardinality(Places(errors, f)) + (IF f = e THEN 1 ELSE 0)
    BY <1>1, TrackPlaces
  <2>4. Cardinality(Places(errors', f)) \in Nat /\ Cardinality(Places(errors, f)) \in Nat
    BY <1>1, <1>2, PlacesFinite
  <2>5. QED
    BY <2>1, <2>2, <2>3, <2>4
<1>4. QED
  BY <1>1, <1>2, <1>3 DEF StuckInv

\* A guidance forgets the errors and their count together.
LEMMA StuckJudged ==
    ASSUME StuckInv, JudgeErrors
    PROVE  StuckInv'
<1>1. errors' = <<>> /\ reports' \in Nat /\ since' = [e \in Errors |-> 0]
  BY DEF JudgeErrors, StuckInv
<1>2. \A e \in Errors : Places(errors', e) = {}
  BY <1>1 DEF Places
<1>3. Cardinality({}) = 0
  BY FS_EmptySet
<1>4. errors' \in Seq(Errors) /\ since' \in [Errors -> Nat]
  BY <1>1
<1>5. ASSUME NEW e \in Errors
      PROVE  Cardinality(Places(errors', e)) <= since'[e]
  <2>1. since'[e] = 0 /\ Places(errors', e) = {}
    BY <1>1, <1>2
  <2>2. QED
    BY <1>3, <2>1
<1>6. QED
  BY <1>1, <1>4, <1>5 DEF StuckInv

\* A guidance is due only for a text that failed three times since the last one.
LEMMA StuckHasFailures ==
    ASSUME StuckInv, Stuck
    PROVE  \E e \in Errors : since[e] >= 3
<1>1. errors \in Seq(Errors) /\ RepeatedErrors(errors) >= 3
  BY DEF StuckInv, Stuck
<1>2. errors # <<>>
  BY <1>1 DEF RepeatedErrors
<1>3. Last(errors) \in Errors
  BY <1>1, <1>2 DEF Last
<1>4. Cardinality(Places(errors, Last(errors))) >= 3
  BY <1>1, <1>2 DEF RepeatedErrors, Places
<1>5. /\ Cardinality(Places(errors, Last(errors))) <= since[Last(errors)]
      /\ since[Last(errors)] \in Nat
  BY <1>3 DEF StuckInv
<1>6. Cardinality(Places(errors, Last(errors))) \in Nat
  BY <1>1, PlacesFinite
<1>7. QED
  BY <1>3, <1>4, <1>5, <1>6

\* The smaller of two numbers.
LEMMA MinBounds ==
    ASSUME NEW a \in Nat, NEW b \in Nat
    PROVE  Min({a, b}) \in {a, b} /\ Min({a, b}) <= a /\ Min({a, b}) <= b
<1>1. \E x \in {a, b} : \A y \in {a, b} : x <= y
  OBVIOUS
<1>2. QED
  BY <1>1 DEF Min

\* A failed batch never takes the loop out of the escalation.
LEMMA RecordsSignals ==
    ASSUME NEW s \in Signals
    PROVE  /\ RecordSuccess(s) \in Signals /\ RecordFailure(s) \in Signals
           /\ ShouldEscalate(s) => ShouldEscalate(RecordFailure(s))
<1>1. s.evidence \in BOOLEAN /\ s.failedTurns \in 0..2 /\ s.okTurns \in 0..3
  BY DEF Signals
<1>2. Min({3, s.okTurns + 1}) \in 0..3
  <2>1. 3 \in Nat /\ s.okTurns + 1 \in Nat
    BY <1>1
  <2>2. QED
    BY <2>1, MinBounds
<1>3. Min({2, s.failedTurns + 1}) \in 0..2 /\ (s.failedTurns >= 2 => Min({2, s.failedTurns + 1}) >= 2)
  <2>1. 2 \in Nat /\ s.failedTurns + 1 \in Nat
    BY <1>1
  <2>2. QED
    BY <1>1, <2>1, MinBounds
<1>4. RecordSuccess(s) \in Signals
  BY <1>1, <1>2 DEF RecordSuccess, Signals
<1>5. /\ RecordFailure(s) \in [evidence : {s.evidence}, failedTurns : {Min({2, s.failedTurns + 1})}, okTurns : {0}]
  BY DEF RecordFailure, Signals
<1>6. RecordFailure(s) \in Signals
  BY <1>1, <1>3, <1>5 DEF Signals
<1>7. ShouldEscalate(s) => ShouldEscalate(RecordFailure(s))
  BY <1>1, <1>3, <1>5 DEF ShouldEscalate
<1>8. QED
  BY <1>4, <1>6, <1>7

\* Scanning an output never lifts the escalation.
LEMMA JudgedObserve ==
    ASSUME JudgedInv, NEW outcome \in {"ok", "failed"}, Answered(outcome),
           Observe(outcome) \/ UNCHANGED <<escalation, stuck>>
    PROVE  JudgedInv'
<1>1. escalation \in Signals /\ UNCHANGED <<before, injected>>
  BY DEF JudgedInv, Answered
<1>2. escalation' \in Signals /\ (ShouldEscalate(escalation) => ShouldEscalate(escalation'))
  <2>1. CASE Observe(outcome)
    <3>1. PICK found \in BOOLEAN : escalation' = [escalation EXCEPT !.evidence = @ \/ found]
      BY <2>1 DEF Observe
    <3>2. QED
      BY <1>1, <3>1 DEF Signals, ShouldEscalate
  <2>2. QED
    BY <1>1, <2>1
<1>3. StuckInv'
  <2>1. StuckInv
    BY DEF JudgedInv
  <2>2. UNCHANGED stuck => StuckInv'
    BY <2>1 DEF stuck, StuckInv
  <2>3. QED
    BY <2>1, <2>2, StuckObserves DEF Observe
<1>4. QED
  BY <1>1, <1>2, <1>3 DEF JudgedInv, RecoveryIsCurrent

\* The verdict over a batch sets the flag only in the escalation, and clears
\* the list when it gives the stuck guidance.
LEMMA JudgedFinish ==
    ASSUME JudgedInv, FinishBatch
    PROVE  JudgedInv'
<1> DEFINE s == IF "ok" \in results THEN RecordSuccess(escalation) ELSE RecordFailure(escalation)
<1>1. /\ escalation' = s /\ injected' = Guided(s)
      /\ JudgeErrors \/ UNCHANGED stuck
      /\ before' = before
  BY DEF FinishBatch
<1>2. escalation \in Signals /\ before \in BOOLEAN /\ injected \in BOOLEAN
  BY DEF JudgedInv
<1>3. s \in Signals
  BY <1>2, RecordsSignals
<1>4. RecoveryIsCurrent'
  <2>1. CASE "ok" \in results
    BY <1>1, <2>1 DEF Guided, RecoveryIsCurrent
  <2>2. CASE "ok" \notin results
    <3>1. injected => ShouldEscalate(RecordFailure(escalation))
      BY <1>2, RecordsSignals DEF JudgedInv, RecoveryIsCurrent
    <3>2. injected' => ShouldEscalate(s)
      BY <1>1, <2>2, <3>1 DEF Guided
    <3>3. QED
      BY <1>1, <3>2 DEF RecoveryIsCurrent
  <2>3. QED
    BY <2>1, <2>2
<1>5. StuckInv'
  <2>1. StuckInv
    BY DEF JudgedInv
  <2>2. QED
    BY <1>1, <2>1, StuckJudged DEF stuck, StuckInv
<1>6. injected' \in BOOLEAN
  <2>1. ShouldEscalate(s) \in BOOLEAN
    BY <1>3 DEF ShouldEscalate, Signals
  <2> HIDE DEF s
  <2>2. QED
    BY <1>1, <1>2, <2>1 DEF Guided
<1>7. QED
  BY <1>1, <1>2, <1>3, <1>4, <1>5, <1>6 DEF JudgedInv

\* Every step preserves what is judged.
LEMMA JudgedNext ==
    ASSUME HandInv, JudgedInv, [GuardsNext]_allVars
    PROVE  JudgedInv'
<1>1. CASE UNCHANGED judged
  BY <1>1 DEF judged, stuck, JudgedInv, RecoveryIsCurrent, StuckInv
<1>2. ASSUME NEW n \in 1..MaxBatch, NEW cs \in [1..n -> Calls], Respond(cs)
      PROVE  JudgedInv'
  <2>1. UNCHANGED <<escalation, injected, stuck>> /\ before' = ShouldEscalate(escalation)
    BY <1>2 DEF Respond
  <2>2. before' \in BOOLEAN
    BY <2>1 DEF JudgedInv, Signals, ShouldEscalate
  <2>3. QED
    BY <2>1, <2>2 DEF stuck, JudgedInv, RecoveryIsCurrent, StuckInv
<1>3. CASE ExecuteInParallel
  BY <1>3, JudgedObserve DEF ExecuteInParallel
<1>4. CASE RefuseCall \/ AnswerOtherwise \/ ExecuteCall
  BY <1>4, JudgedObserve DEF RefuseCall, AnswerOtherwise, ExecuteCall
<1>5. CASE AgentCallFails \/ EndUserTurn \/ DeferCall \/ UserDecides \/ UNCHANGED allVars
  BY <1>1, <1>5 DEF AgentCallFails, EndUserTurn, DeferCall, UserDecides, allVars
<1>6. CASE StartUserTurn
  BY <1>6 DEF StartUserTurn, stuck, JudgedInv, RecoveryIsCurrent, StuckInv
<1>7. CASE FinishBatch
  BY <1>7, JudgedFinish
<1>8. QED
  BY <1>2, <1>3, <1>4, <1>5, <1>6, <1>7 DEF GuardsNext

-----------------------------------------------------------------------------
(* The gate, step by step *)

\* A batch is recorded: a detection asks, and without one there is no
\* repetition, or its warning stands.
LEMMA DoomFinish ==
    ASSUME HandInv, DoomInv, Doom!ExecuteBatch(batch)
    PROVE  DoomInv'
<1> DEFINE t0 == [recent |-> recent, warned |-> warned, detected |-> NoCall]
           I == {t \in Trackers : TrackerInv(t, asked)}
           t == Doom!FoldLeft(Doom!RecordUntilDetected, t0, batch)
<1>1. Doom!Tracker = t0
  BY DEF Doom!Tracker
<1>2. /\ gate = "running" /\ recent' = t.recent /\ warned' = t.warned
      /\ IF t.detected # NoCall THEN gate' = "asking" /\ asked' = t.detected ELSE UNCHANGED <<gate, asked>>
  BY <1>1 DEF Doom!ExecuteBatch
<1>3. t0 \in I
  BY <1>2 DEF DoomInv, Trackers, TrackerInv
<1>4. \A u \in I, c \in Calls : Doom!RecordUntilDetected(u, c) \in I
  BY RecordKeeps
<1>5. batch \in Seq(Calls)
  BY DEF HandInv
<1>6. t \in I
  <2> HIDE DEF I, t0
  <2>1. QED
    BY <1>3, <1>4, <1>5, RecordingKeeps
<1> HIDE DEF t
<1>7. /\ t.recent \in Seq(Calls) /\ t.warned \in BOOLEAN /\ t.detected \in Calls \cup {NoCall}
      /\ TrackerInv(t, asked)
  BY <1>6 DEF Trackers
<1>8. CASE t.detected # NoCall
  <2>1. gate' = "asking" /\ asked' = t.detected
    BY <1>2, <1>8
  <2>2. t.recent # <<>> /\ Last(t.recent) = t.detected /\ ~t.warned
    BY <1>7, <1>8 DEF TrackerInv
  <2>3. QED
    BY <1>2, <1>7, <2>1, <2>2 DEF DoomInv
<1>9. CASE t.detected = NoCall
  BY <1>2, <1>7, <1>9 DEF DoomInv, TrackerInv
<1>10. QED
  BY <1>8, <1>9

\* Every step preserves what the gate relies on.
LEMMA DoomNext ==
    ASSUME HandInv, DoomInv, [GuardsNext]_allVars
    PROVE  DoomInv'
<1>1. CASE UNCHANGED doom
  BY <1>1 DEF doom, DoomInv, Repeated
<1>2. CASE Doom!StartTurn \/ Doom!EndTurn
  BY <1>2 DEF Doom!StartTurn, Doom!EndTurn, DoomInv, Repeated
<1>3. CASE Doom!UserContinues
  <2>1. <<>> \in Seq(Calls) /\ ~Repeated(<<>>)
    BY GuardsAssumption DEF Repeated
  <2>2. QED
    BY <1>3, <2>1 DEF Doom!UserContinues, DoomInv
<1>4. CASE Doom!UserStops
  BY <1>4 DEF Doom!UserStops, DoomInv
<1>5. CASE FinishBatch
  BY <1>5, DoomFinish DEF FinishBatch
<1>6. ASSUME NEW cs, Respond(cs)
      PROVE  DoomInv'
  BY <1>1, <1>6 DEF Respond
<1>7. CASE ExecuteInParallel \/ RefuseCall \/ AnswerOtherwise \/ ExecuteCall
  BY <1>1, <1>7 DEF ExecuteInParallel, RefuseCall, AnswerOtherwise, ExecuteCall, Answered
<1>8. CASE DeferCall \/ UNCHANGED allVars
  BY <1>1, <1>8 DEF DeferCall, allVars
<1>9. CASE StartUserTurn \/ EndUserTurn \/ AgentCallFails \/ UserDecides
  BY <1>2, <1>3, <1>4, <1>9 DEF StartUserTurn, EndUserTurn, AgentCallFails, UserDecides
<1>10. QED
  BY <1>5, <1>6, <1>7, <1>8, <1>9 DEF GuardsNext

-----------------------------------------------------------------------------
(* Theorems *)

\* The loop starts with nothing recorded, counted or in hand.
LEMMA GuardsInvInit == GuardsInit => GuardsInv
<1> SUFFICES ASSUME GuardsInit PROVE GuardsInv
  OBVIOUS
<1>1. BreakerInv
  BY BreakerInit DEF GuardsInit
<1>2. <<>> \in Seq(Calls) /\ <<>> \in Seq(Errors) /\ Len(<<>>) = 0 /\ Len(<<>>) <= MaxBatch
  BY GuardsAssumption
<1>3. HandInv
  BY <1>2 DEF GuardsInit, HandInv
<1>4. JudgedInv
  <2>1. [evidence |-> FALSE, failedTurns |-> 0, okTurns |-> 0] \in Signals
    BY DEF Signals
  <2>2. RecoveryIsCurrent
    BY DEF GuardsInit, RecoveryIsCurrent
  <2>3. \A e \in Errors : Cardinality(Places(<<>>, e)) = 0
    BY FS_EmptySet DEF Places
  <2>4. StuckInv
    BY <1>2, <2>3 DEF GuardsInit, StuckInv
  <2>5. QED
    BY <2>1, <2>2, <2>4 DEF GuardsInit, JudgedInv
<1>5. ~Repeated(<<>>)
  BY GuardsAssumption DEF Repeated
<1>6. DoomInv
  BY <1>2, <1>5 DEF GuardsInit, Doom!Init, DoomInv
<1>7. QED
  BY <1>1, <1>3, <1>4, <1>6 DEF GuardsInv

\* Every step of the loop preserves the invariant.
LEMMA GuardsInvNext == GuardsInv /\ [GuardsNext]_allVars => GuardsInv'
  BY BreakerSteps, BreakerStep, HandNext, JudgedNext, DoomNext DEF GuardsInv

\* The breaker, the calls in hand, the signals and the gate stay as GuardsInv
\* describes them, for all limits, tools, calls and lengths of batches.
THEOREM GuardsInvariant == GuardsSpec => []GuardsInv
  BY GuardsInvInit, GuardsInvNext, PTL DEF GuardsSpec

\* execute_loop uses the breaker as CircuitBreaker describes it: every step of
\* the loop is one of its steps or leaves it alone.
THEOREM LoopUsesBreaker == GuardsSpec => Spec
<1>1. GuardsInit => Init
  BY DEF GuardsInit
<1>2. GuardsInv /\ [GuardsNext]_allVars => [Next]_vars
  BY BreakerSteps DEF GuardsInv
<1>3. QED
  BY <1>1, <1>2, GuardsInvariant, PTL DEF GuardsSpec, Spec

\* consecutive_failures counts the failures of the sequential path, whatever
\* else the loop does with a batch.
THEOREM GuardsFailuresMatchHistory == GuardsSpec => []FailuresMatchHistory
  BY LoopUsesBreaker, BreakerCountsFailures, PTL

\* The loop disables no tool for the session before two full runs of failures.
THEOREM GuardsPermanentIsEarned == GuardsSpec => []PermanentIsEarned
  BY LoopUsesBreaker, BreakerPermanentIsEarned, PTL

\* execute_loop uses the gate as DoomLoop describes it: it records whole
\* batches between the user turns, and asks nowhere else.
THEOREM LoopUsesDoomLoop == GuardsSpec => Doom!Spec
<1>1. GuardsInit => Doom!Init
  BY DEF GuardsInit
<1>2. ASSUME GuardsInv, [GuardsNext]_allVars
      PROVE  [Doom!Next]_Doom!vars
  <2> USE DEF Doom!vars
  <2>1. CASE UNCHANGED doom
    BY <2>1 DEF doom
  <2>2. CASE StartUserTurn \/ EndUserTurn \/ AgentCallFails \/ UserDecides
    BY <2>2 DEF StartUserTurn, EndUserTurn, AgentCallFails, UserDecides, Doom!Next
  <2>3. CASE FinishBatch
    <3>1. /\ batch \in Seq(Calls) /\ batch # <<>> /\ Len(batch) <= MaxBatch
          /\ Doom!ExecuteBatch(batch)
      BY <1>2, <2>3 DEF GuardsInv, HandInv, FinishBatch
    <3>2. Len(batch) \in 1..MaxBatch /\ batch \in [1..Len(batch) -> Calls]
      BY <3>1, GuardsAssumption
    <3>3. QED
      BY <3>1, <3>2 DEF Doom!Next
  <2>4. CASE ExecuteInParallel \/ RefuseCall \/ AnswerOtherwise \/ ExecuteCall
    BY <2>1, <2>4 DEF ExecuteInParallel, RefuseCall, AnswerOtherwise, ExecuteCall, Answered
  <2>5. ASSUME NEW cs, Respond(cs)
        PROVE  UNCHANGED doom
    BY <2>5 DEF Respond
  <2>6. CASE DeferCall \/ UNCHANGED allVars
    BY <2>1, <2>6 DEF DeferCall, allVars
  <2>7. QED
    BY <1>2, <2>1, <2>2, <2>3, <2>4, <2>5, <2>6 DEF GuardsNext
<1>3. QED
  BY <1>1, <1>2, GuardsInvariant, PTL DEF GuardsSpec, Doom!Spec

\* The gate of the doom loop: the loop does not run on after Repetition equal
\* calls, however these were spread over batches and user turns.
THEOREM GuardsRepetitionStops == GuardsSpec => []RepetitionStops
<1>1. GuardsInv => RepetitionStops
  BY DEF GuardsInv, DoomInv, RepetitionStops, Doom!RepetitionStops, Doom!InARow, Doom!Last, Last, Repeated
<1>2. QED
  BY <1>1, GuardsInvariant, PTL

\* recovery_injected is set only while the loop is escalated.
THEOREM GuardsRecoveryIsCurrent == GuardsSpec => []RecoveryIsCurrent
<1>1. GuardsInv => RecoveryIsCurrent
  BY DEF GuardsInv, JudgedInv
<1>2. QED
  BY <1>1, GuardsInvariant, PTL

\* Every stuck guidance answers three observed failures with one text that no
\* earlier guidance has answered, in whatever batches and user turns they were.
THEOREM GuardsStuckIsEarned == GuardsSpec => StuckIsEarned
<1>1. ASSUME GuardsInv, [GuardsNext]_allVars, reports' # reports
      PROVE  \E e \in Errors : since[e] >= 3
  <2>1. StuckInv
    BY <1>1 DEF GuardsInv, JudgedInv
  <2>2. FinishBatch /\ JudgeErrors
    BY <1>1 DEF GuardsNext, StartUserTurn, EndUserTurn, Respond, ExecuteInParallel, DeferCall, RefuseCall,
                AnswerOtherwise, ExecuteCall, AgentCallFails, FinishBatch, UserDecides, Observe, Observes,
                judged, stuck, allVars
  <2>3. QED
    BY <2>1, <2>2, StuckHasFailures DEF JudgeErrors
<1>2. QED
  BY <1>1, GuardsInvariant, PTL DEF GuardsSpec, StuckIsEarned

-----------------------------------------------------------------------------
(* The cache of read results *)

USE DEF files

-----------------------------------------------------------------------------
(* Types and the bound *)

\* The cache is finite.
Bounded == CacheTypeOK /\ IsFiniteSet(cache)

LEMMA BoundedInit ==
    ASSUME CacheInit PROVE Bounded
<1>1. IsFiniteSet({}) /\ Cardinality({}) = 0
  BY FS_EmptySet
<1> QED
  BY <1>1, ToolCacheAssumption DEF CacheInit, Bounded, CacheTypeOK

\* Dropping results keeps the cache bounded.
LEMMA DropKeepsBound ==
    ASSUME Bounded, cache' \subseteq cache
    PROVE  IsFiniteSet(cache') /\ Cardinality(cache') <= MaxEntries
<1>1. IsFiniteSet(cache') /\ Cardinality(cache') <= Cardinality(cache)
  BY FS_Subset DEF Bounded
<1>2. Cardinality(cache') \in Nat /\ Cardinality(cache) \in Nat
  BY <1>1, FS_CardinalityType DEF Bounded
<1> QED
  BY <1>1, <1>2, ToolCacheAssumption DEF Bounded, CacheTypeOK

\* Eviction makes room for the one result that is stored.
LEMMA EvictKeepsBound ==
    ASSUME Bounded, NEW C \in SUBSET cache, NEW new, NEW S \in Evict(C \cup {new})
    PROVE  S \subseteq C \cup {new} /\ IsFiniteSet(S) /\ Cardinality(S) <= MaxEntries
<1> DEFINE B == C \cup {new}
<1>1. IsFiniteSet(C) /\ Cardinality(C) <= Cardinality(cache)
  BY FS_Subset DEF Bounded
<1>2. IsFiniteSet(B) /\ Cardinality(B) <= Cardinality(C) + 1
  <2>1. IsFiniteSet(B) /\ Cardinality(B) = IF new \in C THEN Cardinality(C) ELSE Cardinality(C) + 1
    BY <1>1, FS_AddElement
  <2>2. Cardinality(C) \in Nat
    BY <1>1, FS_CardinalityType
  <2> QED
    BY <2>1, <2>2
<1>3. Cardinality(C) \in Nat /\ Cardinality(cache) \in Nat /\ Cardinality(B) \in Nat
  BY <1>1, <1>2, FS_CardinalityType DEF Bounded
<1>4. Cardinality(B) <= MaxEntries + 1
  BY <1>1, <1>2, <1>3, ToolCacheAssumption DEF Bounded, CacheTypeOK
<1>5. CASE Cardinality(B) > MaxEntries
  <2>1. PICK e \in B : S = B \ {e}
    BY <1>5 DEF Evict, Oldest
  <2>2. IsFiniteSet(S) /\ Cardinality(S) = Cardinality(B) - 1
    BY <1>2, <2>1, FS_RemoveElement
  <2> QED
    BY <1>3, <1>4, <2>1, <2>2, ToolCacheAssumption
<1>6. CASE ~(Cardinality(B) > MaxEntries)
  <2>1. S = B
    BY <1>6 DEF Evict
  <2> QED
    BY <1>2, <1>3, <1>6, <2>1, ToolCacheAssumption
<1> QED
  BY <1>5, <1>6

LEMMA BoundedStep ==
    ASSUME Bounded, [CacheNext]_cacheVars
    PROVE  Bounded'
<1> USE ToolCacheAssumption
<1>1. ASSUME NEW c \in Call, Read(c) PROVE Bounded'
  <2>1. IsFiniteSet(cache') /\ Cardinality(cache') <= MaxEntries
    BY <1>1, DropKeepsBound DEF Read, Entries
  <2>2. Fetched(c) \in Result
    BY DEF Fetched, Result, Bounded, CacheTypeOK
  <2> QED
    BY <1>1, <2>1, <2>2 DEF Read, Entries, Bounded, CacheTypeOK
<1>2. ASSUME NEW calls \in Batches, ReadBatch(calls) PROVE Bounded'
  <2>1. cache' \subseteq cache
    BY <1>2 DEF ReadBatch
  <2>2. IsFiniteSet(cache') /\ Cardinality(cache') <= MaxEntries
    BY <2>1, DropKeepsBound
  <2>3. PICK n \in 2..MaxReads : calls \in [1..n -> Call]
    BY DEF Batches
  <2>4. ASSUME NEW i \in 1..n
        PROVE  (IF Hits(calls[i]) = {} THEN Fetched(calls[i])
                ELSE Again(CHOOSE e \in Hits(calls[i]) : TRUE)) \in Result
    <3>1. calls[i] \in Call
      BY <2>3, <2>4
    <3>2. Fetched(calls[i]) \in Result
      BY <3>1 DEF Fetched, Result, Bounded, CacheTypeOK
    <3>3. \A e \in cache : Again(e) \in Result
      BY DEF Again, Result, Entry, Bounded, CacheTypeOK
    <3>4. Hits(calls[i]) \subseteq cache
      BY DEF Hits, Entries
    <3> QED
      BY <3>2, <3>3, <3>4
  <2>5. pending' \in [1..n -> Result] /\ n \in Nat
    <3>1. DOMAIN calls = 1..n /\ n \in Nat
      BY <2>3
    <3>2. pending' = [i \in 1..n |-> IF Hits(calls[i]) = {} THEN Fetched(calls[i])
                                     ELSE Again(CHOOSE e \in Hits(calls[i]) : TRUE)]
      BY <1>2, <3>1 DEF ReadBatch
    <3> QED
      BY <2>4, <3>1, <3>2
  <2>6. pending' \in Seq(Result)
    BY <2>5
  <2> QED
    BY <1>2, <2>1, <2>2, <2>6 DEF ReadBatch, Bounded, CacheTypeOK
<1>3. ASSUME StoreResult PROVE Bounded'
  <2> DEFINE r == Head(pending)
             new == [call |-> r.call, content |-> r.content, stored |-> now]
             C == cache \ Entries(r.call)
  <2>1. r \in Result /\ pending' = Tail(pending) /\ pending' \in Seq(Result)
    BY <1>3 DEF StoreResult, Bounded, CacheTypeOK
  <2>2. new \in Entry /\ new.call = r.call
    BY <2>1 DEF Result, Entry, Bounded, CacheTypeOK
  <2>a. C \subseteq cache
    OBVIOUS
  <2>3. CASE cache' \in Evict(C \cup {new})
    <3> HIDE DEF C, new
    <3>1. cache' \subseteq C \cup {new} /\ IsFiniteSet(cache') /\ Cardinality(cache') <= MaxEntries
      BY <2>a, <2>3, EvictKeepsBound
    <3>2. \A e, o \in cache' : e.call = o.call => e = o
      <4>1. \A e \in C : e \in cache /\ e.call # new.call
        BY <2>2 DEF C, Entries
      <4>2. \A e, o \in cache : e.call = o.call => e = o
        BY DEF Bounded, CacheTypeOK
      <4> QED
        BY <3>1, <4>1, <4>2
    <3>3. cache' \subseteq Entry
      BY <2>2, <2>a, <3>1 DEF Bounded, CacheTypeOK
    <3> QED
      BY <1>3, <2>1, <3>1, <3>2, <3>3 DEF StoreResult, Bounded, CacheTypeOK
  <2>4. CASE UNCHANGED cache
    BY <1>3, <2>1, <2>4 DEF StoreResult, Bounded, CacheTypeOK
  <2> QED
    BY <1>3, <2>3, <2>4 DEF StoreResult
<1>4. ASSUME NEW f \in Files, NEW w \in Write, Written(f, w)
      PROVE  /\ version' \in [Files -> 0..MaxWrites]
             /\ how' \in [Files -> Seq(Write)] /\ \A g \in Files : Len(how'[g]) = version'[g]
  BY <1>4 DEF Written, Bounded, CacheTypeOK
<1>5. ASSUME NEW n \in FileNames, NEW m \in FileNames, WriteTool(n, m) PROVE Bounded'
  <2>1. IsFiniteSet(cache') /\ Cardinality(cache') <= MaxEntries
    BY <1>5, DropKeepsBound DEF WriteTool
  <2>2. Own(n, m # n) \in Write /\ Spells[m] \subseteq Files
    BY DEF Own, Write
  <2>3. /\ version' \in [Files -> 0..MaxWrites]
        /\ how' \in [Files -> Seq(Write)] /\ \A g \in Files : Len(how'[g]) = version'[g]
    BY <1>4, <1>5, <2>2 DEF WriteTool, Bounded, CacheTypeOK
  <2> QED
    BY <1>5, <2>1, <2>3 DEF WriteTool, Bounded, CacheTypeOK
<1>6. ASSUME NEW f \in Files, OutsideWrite(f) PROVE Bounded'
  <2>1. Outside \in Write
    BY DEF Outside, Write
  <2> QED
    BY <1>4, <1>6, <2>1 DEF OutsideWrite, Bounded, CacheTypeOK
<1>7. CASE Tick
  BY <1>7 DEF Tick, Bounded, CacheTypeOK
<1>8. CASE UNCHANGED cacheVars
  BY <1>8 DEF cacheVars, Bounded, CacheTypeOK
<1> QED
  BY <1>1, <1>2, <1>3, <1>5, <1>6, <1>7, <1>8 DEF CacheNext

\* Every reachable state is of the types of CacheTypeOK: one result per call, and
\* never more than MaxEntries of them.
THEOREM CacheTypeCorrect == CacheSpec => []CacheTypeOK
<1>1. Bounded => CacheTypeOK
  BY DEF Bounded
<1> QED
  BY <1>1, BoundedInit, BoundedStep, PTL DEF CacheSpec

-----------------------------------------------------------------------------
(* Own writes *)

\* OwnWritesSeen, for one content of one call.
Current(call, content) ==
    \A f \in Spells[call.name] : \A v \in (content[f] + 1)..version[f] :
        \/ how[f][v].by # "own" \/ how[f][v].name # NameOf[f]
        \/ ~IsListing(call) /\ call.name \notin {NameOf[f], DirOf[f]}

AllCurrent ==
    /\ \A e \in cache : Current(e.call, e.content)
    /\ \A i \in DOMAIN pending : Current(pending[i].call, pending[i].content)

LEMMA CurrentStep ==
    ASSUME Bounded, AllCurrent, [CacheNext]_cacheVars
    PROVE  AllCurrent'
<1> USE ToolCacheAssumption
<1>1. ASSUME NEW c \in Call PROVE Current(c, version) /\ c.name \in Names /\ Spells[c.name] \subseteq Files
  <2>1. c.name \in Names /\ Spells[c.name] \subseteq Files
    BY DEF Call
  <2> QED
    BY <2>1 DEF Current, Bounded, CacheTypeOK
<1>2. ASSUME UNCHANGED files, cache' \subseteq cache PROVE \A e \in cache' : Current(e.call, e.content)'
  BY <1>2 DEF AllCurrent, Current
<1>3. ASSUME NEW c \in Call, Read(c) PROVE AllCurrent'
  <2>1. pending' = <<Fetched(c)>> /\ UNCHANGED files /\ cache' \subseteq cache
    BY <1>3 DEF Read
  <2>2. \A i \in DOMAIN pending' : pending'[i] = Fetched(c)
    BY <2>1
  <2>3. Current(c, version)'
    BY <1>1, <2>1 DEF Current
  <2> QED
    BY <1>2, <2>1, <2>2, <2>3 DEF AllCurrent, Fetched, Current
<1>4. ASSUME NEW calls \in Batches, ReadBatch(calls) PROVE AllCurrent'
  <2>1. PICK n \in 2..MaxReads : calls \in [1..n -> Call]
    BY DEF Batches
  <2>2. UNCHANGED files /\ cache' \subseteq cache
    BY <1>4 DEF ReadBatch
  <2>3. DOMAIN pending' = 1..n
    BY <1>4, <2>1 DEF ReadBatch
  <2>4. ASSUME NEW i \in 1..n
        PROVE  \/ pending'[i] = Fetched(calls[i])
               \/ \E e \in Hits(calls[i]) : pending'[i] = Again(e)
    <3>1. pending'[i] = IF Hits(calls[i]) = {} THEN Fetched(calls[i])
                        ELSE Again(CHOOSE e \in Hits(calls[i]) : TRUE)
      BY <1>4, <2>1 DEF ReadBatch
    <3> QED
      BY <3>1
  <2>5. ASSUME NEW i \in 1..n PROVE Current(pending'[i].call, pending'[i].content)
    <3>1. CASE pending'[i] = Fetched(calls[i])
      <4>1. calls[i] \in Call /\ pending'[i].call = calls[i] /\ pending'[i].content = version
        BY <2>1, <3>1 DEF Fetched
      <4> QED
        BY <1>1, <4>1
    <3>2. ASSUME NEW e \in Hits(calls[i]), pending'[i] = Again(e)
          PROVE  Current(pending'[i].call, pending'[i].content)
      <4>1. e \in cache /\ pending'[i].call = e.call /\ pending'[i].content = e.content
        BY <3>2 DEF Hits, Entries, Again
      <4> QED
        BY <4>1 DEF AllCurrent
    <3> QED
      BY <2>4, <3>1, <3>2
  <2>6. \A i \in DOMAIN pending' : Current(pending[i].call, pending[i].content)'
    BY <2>2, <2>3, <2>5 DEF Current
  <2> QED
    BY <1>2, <2>2, <2>6 DEF AllCurrent
<1>5. ASSUME StoreResult PROVE AllCurrent'
  <2> DEFINE r == Head(pending)
             new == [call |-> r.call, content |-> r.content, stored |-> now]
             C == cache \ Entries(r.call)
  <2>1. pending \in Seq(Result) /\ pending # <<>> /\ pending' = Tail(pending) /\ UNCHANGED files
    BY <1>5 DEF StoreResult, Bounded, CacheTypeOK
  <2>2. cache' \subseteq C \cup {new} \/ cache' \subseteq cache
    <3>1. cache' \in Evict(C \cup {new}) \/ UNCHANGED cache
      BY <1>5 DEF StoreResult
    <3>2. C \subseteq cache
      OBVIOUS
    <3> HIDE DEF C, new
    <3> QED
      BY <3>1, <3>2, EvictKeepsBound
  <2>3. Current(r.call, r.content)
    BY <2>1 DEF AllCurrent
  <2>4. \A e \in cache' : Current(e.call, e.content)
    BY <2>2, <2>3 DEF AllCurrent
  <2>5. \A i \in DOMAIN pending' : Current(pending'[i].call, pending'[i].content)
    <3>1. ASSUME NEW i \in DOMAIN pending' PROVE i + 1 \in DOMAIN pending /\ pending'[i] = pending[i + 1]
      BY <2>1
    <3> QED
      BY <3>1 DEF AllCurrent
  <2> QED
    BY <2>1, <2>4, <2>5 DEF AllCurrent, Current
<1>6. ASSUME NEW n \in FileNames, NEW m \in FileNames, WriteTool(n, m) PROVE AllCurrent'
  <2>1. pending = <<>> /\ pending' = pending /\ cache' = cache \ Invalidated(n)
    BY <1>6 DEF WriteTool
  <2>2. CASE UNCHANGED files
    BY <1>2, <2>1, <2>2 DEF AllCurrent
  <2>3. ASSUME NEW f \in Spells[m], Written(f, Own(n, m # n)), NEW e \in cache'
        PROVE  Current(e.call, e.content)'
    <3>1. f \in Files /\ e \in cache /\ e \in Entry /\ Spells[e.call.name] \subseteq Files
      BY <1>1, <2>1 DEF Bounded, CacheTypeOK, Entry
    <3>2. ~IsListing(e.call) /\ e.call.name # n /\ e.call.name # Parent[n]
      BY <2>1, <3>1 DEF Invalidated
    <3>3. SUFFICES ASSUME NEW g \in Spells[e.call.name], NEW v \in (e.content[g] + 1)..version'[g]
                   PROVE  \/ how'[g][v].by # "own" \/ how'[g][v].name # NameOf[g]
                          \/ ~IsListing(e.call) /\ e.call.name \notin {NameOf[g], DirOf[g]}
      BY DEF Current
    <3>4. CASE g = f /\ v = version[f] + 1
      <4>1. how'[g][v] = Own(n, m # n)
        BY <2>3, <3>1, <3>4 DEF Written, Bounded, CacheTypeOK
      <4>2. how'[g][v].name = n
        BY <4>1 DEF Own
      <4> QED
        BY <3>1, <3>2, <4>2
    <3>5. CASE ~(g = f /\ v = version[f] + 1)
      <4>0. e.content[g] \in Nat /\ version[g] \in Nat /\ how[g] \in Seq(Write) /\ Len(how[g]) = version[g]
        BY <3>1 DEF Bounded, CacheTypeOK, Entry
      <4>1. v \in (e.content[g] + 1)..version[g] /\ how'[g][v] = how[g][v]
        BY <2>3, <3>1, <3>5, <4>0 DEF Written, Bounded, CacheTypeOK
      <4> QED
        BY <3>1, <4>1 DEF AllCurrent, Current
    <3> QED
      BY <3>4, <3>5
  <2>4. \A i \in DOMAIN pending' : FALSE
    BY <2>1
  <2> QED
    BY <1>6, <2>2, <2>3, <2>4 DEF WriteTool, AllCurrent
<1>7. ASSUME NEW f \in Files, OutsideWrite(f) PROVE AllCurrent'
  <2>1. ASSUME NEW call \in Call, NEW content \in [Files -> 0..MaxWrites], Current(call, content)
        PROVE  Current(call, content)'
    <3>1. SUFFICES ASSUME NEW g \in Spells[call.name], NEW v \in (content[g] + 1)..version'[g]
                   PROVE  \/ how'[g][v].by # "own" \/ how'[g][v].name # NameOf[g]
                          \/ ~IsListing(call) /\ call.name \notin {NameOf[g], DirOf[g]}
      BY DEF Current
    <3>2. g \in Files /\ content[g] \in Nat /\ version[g] \in Nat
      BY <1>1 DEF Bounded, CacheTypeOK
    <3>3. CASE g = f /\ v = version[f] + 1
      <4>1. how'[g][v] = Outside
        BY <1>7, <3>2, <3>3 DEF OutsideWrite, Written, Bounded, CacheTypeOK
      <4> QED
        BY <4>1 DEF Outside
    <3>4. CASE ~(g = f /\ v = version[f] + 1)
      <4>0. how[g] \in Seq(Write) /\ Len(how[g]) = version[g]
        BY <3>2 DEF Bounded, CacheTypeOK
      <4>1. v \in (content[g] + 1)..version[g] /\ how'[g][v] = how[g][v]
        BY <1>7, <3>2, <3>4, <4>0 DEF OutsideWrite, Written, Bounded, CacheTypeOK
      <4> QED
        BY <2>1, <4>1 DEF Current
    <3> QED
      BY <3>3, <3>4
  <2>2. \A e \in cache : e.call \in Call /\ e.content \in [Files -> 0..MaxWrites]
    BY DEF Bounded, CacheTypeOK, Entry
  <2>3. \A i \in DOMAIN pending : pending[i].call \in Call /\ pending[i].content \in [Files -> 0..MaxWrites]
    <3>1. \A r \in Result : r.call \in Call /\ r.content \in [Files -> 0..MaxWrites]
      BY DEF Result
    <3>2. \A i \in DOMAIN pending : pending[i] \in Result
      BY DEF Bounded, CacheTypeOK
    <3> QED
      BY <3>1, <3>2
  <2> QED
    BY <1>7, <2>1, <2>2, <2>3 DEF OutsideWrite, AllCurrent
<1>8. CASE Tick
  BY <1>8 DEF Tick, AllCurrent, Current
<1>9. CASE UNCHANGED cacheVars
  BY <1>9 DEF cacheVars, AllCurrent, Current
<1> QED
  BY <1>3, <1>4, <1>5, <1>6, <1>7, <1>8, <1>9 DEF CacheNext

\* After its own plain write of a file the loop is never answered from the
\* cache with what was there before, as far as invalidation can know.
THEOREM OwnWritesAlwaysSeen == CacheSpec => []OwnWritesSeen
<1>1. CacheInit => AllCurrent
  BY DEF CacheInit, AllCurrent
<1>2. AllCurrent => OwnWritesSeen
  BY DEF AllCurrent, Current, OwnWritesSeen
<1> QED
  BY <1>1, <1>2, BoundedInit, BoundedStep, CurrentStep, PTL DEF CacheSpec
=============================================================================
