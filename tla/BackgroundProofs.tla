--------------------------- MODULE BackgroundProofs ---------------------------
(***************************************************************************)
(* What the work in the background keeps true: DonorStreaks for every      *)
(* number of donations and tasks, every clock and every list of            *)
(* thresholds, and RiskAudit for every number of scans and proofs and      *)
(* every model.                                                            *)
(*                                                                         *)
(* The streak.  First what the engine computes: dates are numbers of       *)
(* months, the sorted list of dates is an ascending list of months, the    *)
(* first loop counts the runs in it and the second the run at its end, and *)
(* so a computed streak is exact for every finite set of months.  Then     *)
(* what the tasks do with it: Inv says that a task holds the exact streak  *)
(* of donations that stay confirmed, which more donations can only         *)
(* lengthen.                                                               *)
(*                                                                         *)
(* The audit.  Scores are sums over the hits of the rules, and the model   *)
(* can only raise them, also by one that is no number: that counts as 100  *)
(* and only the level is lost.  Sound says of a scan what makes its save   *)
(* right: unless another one has been saved or a flag decided, the request *)
(* still has what the scan loaded.                                         *)
(***************************************************************************)
EXTENDS DonorStreaks, RiskAudit, FiniteSetTheorems, SequenceTheorems,
        WellFoundedInduction, TLAPS

-----------------------------------------------------------------------------
(* Induction and maxima.                                                   *)

\* Induction over the naturals, for a set of them.
LEMMA Induction ==
    ASSUME NEW X, 0 \in X, \A n \in Nat : n \in X => n + 1 \in X
    PROVE  \A n \in Nat : n \in X
<1> DEFINE R == OpToRel(<, Nat)
           Bad == Nat \ X
<1> SUFFICES ASSUME Bad # {}
             PROVE  FALSE
    OBVIOUS
<1>1. IsWellFoundedOn(R, Nat)
    BY NatLessThanWellFounded
<1> HIDE DEF R
<1>2. PICK m \in Bad : \A k \in Bad : <<k, m>> \notin R
    BY <1>1, WFMin
<1>3. m \in Nat /\ m # 0 /\ m - 1 \in Nat
    BY <1>2
<1>4. <<m - 1, m>> \in R
    BY <1>3 DEF R, OpToRel
<1>5. m - 1 \in X
    BY <1>2, <1>3, <1>4
<1> QED
    BY <1>2, <1>3, <1>5

\* What no member exceeds is the maximum.
LEMMA MaxIs ==
    ASSUME NEW S \in SUBSET Int, NEW x \in S, \A y \in S : y <= x
    PROVE  Max(S) = x
<1>1. \E m \in S : \A y \in S : m >= y
    BY \A y \in S : x >= y
<1>2. /\ Max(S) \in S
      /\ \A y \in S : Max(S) >= y
    BY <1>1 DEF Max
<1>3. x \in Int /\ Max(S) \in Int /\ Max(S) >= x /\ Max(S) <= x
    BY <1>2
<1> QED
    BY <1>3

\* The larger of two numbers.
LEMMA LargerOf ==
    ASSUME NEW a \in Int, NEW b \in Int
    PROVE  Max({a, b}) = IF a >= b THEN a ELSE b
<1>1. CASE a >= b
    <2>1. {a, b} \in SUBSET Int /\ a \in {a, b} /\ \A y \in {a, b} : y <= a
        BY <1>1
    <2> QED
        BY <1>1, <2>1, MaxIs
<1>2. CASE ~(a >= b)
    <2>1. {a, b} \in SUBSET Int /\ b \in {a, b} /\ \A y \in {a, b} : y <= b
        BY <1>2
    <2> QED
        BY <1>2, <2>1, MaxIs
<1> QED
    BY <1>1, <1>2

\* A bounded set of naturals has a maximum.
LEMMA MaxOf ==
    ASSUME NEW b \in Nat, NEW S \in SUBSET (0 .. b), S # {}
    PROVE  /\ Max(S) \in S
           /\ \A y \in S : y <= Max(S)
<1> DEFINE X == {n \in Nat : \A T \in SUBSET (0 .. n) :
                                T # {} => \E x \in T : \A y \in T : x >= y}
<1>1. 0 \in X
    <2>1. 0 .. 0 = {0}
        OBVIOUS
    <2>2. \A T \in SUBSET {0} : T # {} => T = {0}
        OBVIOUS
    <2> QED
        BY <2>1, <2>2
<1>2. ASSUME NEW n \in Nat, n \in X PROVE n + 1 \in X
    <2> SUFFICES ASSUME NEW T \in SUBSET (0 .. n + 1), T # {}
                 PROVE  \E x \in T : \A y \in T : x >= y
        OBVIOUS
    <2>1. CASE n + 1 \in T
        BY <2>1
    <2>2. CASE n + 1 \notin T
        <3>1. T \in SUBSET (0 .. n)
            BY <2>2
        <3> QED
            BY <1>2, <3>1
    <2> QED
        BY <2>1, <2>2
<1> HIDE DEF X
<1>3. b \in X
    BY <1>1, <1>2, Induction
<1>4. \E x \in S : \A y \in S : x >= y
    BY <1>3 DEF X
<1> QED
    BY <1>4 DEF Max

-----------------------------------------------------------------------------
(* The calendar: dates are the months since the year 0, split in two.      *)

LEMMA DateNumber ==
    ASSUME NEW a \in Int
    PROVE  /\ Date(a).year \in Int /\ Date(a).month \in 1 .. 12
           /\ a = Date(a).year * 12 + Date(a).month - 1
    BY DEF Date

LEMMA DatesApart ==
    ASSUME NEW a \in Int, NEW b \in Int
    PROVE  /\ MonthsBetween(Date(a), Date(b)) = a - b
           /\ Before(Date(a), Date(b)) <=> a < b
           /\ Date(a) = Date(b) => a = b
<1> DEFINE d == Date(a)
           e == Date(b)
<1>0. /\ d.year \in Int /\ d.month \in Int /\ a = d.year * 12 + d.month - 1
      /\ e.year \in Int /\ e.month \in Int /\ b = e.year * 12 + e.month - 1
    BY DateNumber
<1> HIDE DEF d, e
<1>1. MonthsBetween(d, e) = a - b
    BY <1>0 DEF MonthsBetween
<1>2. MonthsBetween(e, d) = b - a
    BY <1>0 DEF MonthsBetween
<1> QED
    BY <1>0, <1>1, <1>2 DEF Before, d, e

LEMMA PrevIsMinusOne ==
    ASSUME NEW a \in Int
    PROVE  PrevMonth(Date(a)) = Date(a - 1)
<1>1. CASE Date(a).month = 1
    <2>1. a % 12 = 0
        BY <1>1 DEF Date
    <2>2. (a - 1) \div 12 = (a \div 12) - 1 /\ (a - 1) % 12 = 11
        BY <2>1
    <2> QED
        BY <1>1, <2>2 DEF Date, PrevMonth
<1>2. CASE Date(a).month # 1
    <2>1. a % 12 # 0
        BY <1>2 DEF Date
    <2>2. (a - 1) \div 12 = a \div 12 /\ (a - 1) % 12 = (a % 12) - 1
        BY <2>1
    <2> QED
        BY <1>2, <2>2 DEF Date, PrevMonth
<1> QED
    BY <1>1, <1>2

-----------------------------------------------------------------------------
(* Months as an ascending list, and the runs the first loop counts in it.  *)

\* h lists M from the least on.
Ascends(h, n, M) ==
    /\ h \in [1 .. n -> M]
    /\ \A i, j \in 1 .. n : i < j => h[i] < h[j]
    /\ \A m \in M : \E i \in 1 .. n : h[i] = m

Follows(h, i) == i > 1 /\ h[i] - h[i - 1] = 1

CountsRuns(run, h, n) ==
    run = [i \in 1 .. n |-> IF Follows(h, i) THEN run[i - 1] + 1 ELSE 1]

\* Between two places of the list are at least as many months as places.
LEMMA Gaps ==
    ASSUME NEW M \in SUBSET Nat, NEW n \in Nat, NEW h, Ascends(h, n, M)
    PROVE  \A a, b \in 1 .. n : a <= b => h[b] - h[a] >= b - a
<1> DEFINE X == {k \in Nat : \A a \in 1 .. n : a + k <= n => h[a + k] - h[a] >= k}
<1>0. \A i \in 1 .. n : h[i] \in Nat
    BY DEF Ascends
<1>1. 0 \in X
    BY <1>0
<1>2. ASSUME NEW k \in Nat, k \in X PROVE k + 1 \in X
    <2> SUFFICES ASSUME NEW a \in 1 .. n, a + (k + 1) <= n
                 PROVE  h[a + (k + 1)] - h[a] >= k + 1
        OBVIOUS
    <2>1. a + k \in 1 .. n /\ a + (k + 1) \in 1 .. n /\ a + k < a + (k + 1)
        OBVIOUS
    <2>2. h[a + k] - h[a] >= k
        BY <1>2, <2>1
    <2>3. h[a + k] < h[a + (k + 1)]
        BY <2>1 DEF Ascends
    <2> QED
        BY <1>0, <2>1, <2>2, <2>3
<1> HIDE DEF X
<1>3. \A k \in Nat : k \in X
    BY <1>1, <1>2, Induction
<1> TAKE a, b \in 1 .. n
<1>4. CASE a <= b
    <2>1. b - a \in Nat /\ a + (b - a) = b
        BY <1>4
    <2> QED
        BY <1>3, <2>1 DEF X
<1> QED
    BY <1>4

\* Two places as far apart as their months have every month between them.
LEMMA NoGap ==
    ASSUME NEW M \in SUBSET Nat, NEW n \in Nat, NEW h, Ascends(h, n, M),
           NEW a \in 1 .. n, NEW b \in 1 .. n, a <= b, h[b] - h[a] = b - a
    PROVE  h[a] .. h[b] \subseteq M
<1>0. \A i \in 1 .. n : h[i] \in Nat /\ h[i] \in M
    BY DEF Ascends
<1>1. ASSUME NEW i \in a .. b PROVE h[i] = h[a] + (i - a)
    <2>1. i \in 1 .. n /\ a <= i /\ i <= b
        OBVIOUS
    <2>2. h[i] - h[a] >= i - a /\ h[b] - h[i] >= b - i
        BY <2>1, Gaps
    <2> QED
        BY <1>0, <2>1, <2>2
<1>2. ASSUME NEW v \in h[a] .. h[b] PROVE v \in M
    <2>1. v \in Nat /\ h[a] <= v /\ v <= h[b]
        BY <1>0
    <2> DEFINE i == a + (v - h[a])
    <2>2. i \in a .. b /\ i \in 1 .. n /\ i - a = v - h[a]
        BY <1>0, <2>1
    <2>3. h[i] = h[a] + (i - a)
        BY <1>1, <2>2
    <2>4. h[i] = v
        BY <1>0, <2>1, <2>2, <2>3
    <2> QED
        BY <1>0, <2>2, <2>4
<1> QED
    BY <1>2

\* And consecutive months are at consecutive places.
LEMMA InARow ==
    ASSUME NEW M \in SUBSET Nat, NEW n \in Nat, NEW h, Ascends(h, n, M),
           NEW i \in 1 .. n, NEW k \in Nat \ {0}, h[i] - k + 1 .. h[i] \subseteq M
    PROVE  k <= i /\ h[i - k + 1] = h[i] - k + 1
<1> DEFINE X == {j \in Nat : j <= k - 1 => i - j >= 1 /\ h[i - j] = h[i] - j}
<1>0. \A p \in 1 .. n : h[p] \in Nat
    BY DEF Ascends
<1>1. 0 \in X
    BY <1>0
<1>2. ASSUME NEW j \in Nat, j \in X PROVE j + 1 \in X
    <2> SUFFICES ASSUME j + 1 <= k - 1
                 PROVE  i - (j + 1) >= 1 /\ h[i - (j + 1)] = h[i] - (j + 1)
        OBVIOUS
    <2>1. i - j \in 1 .. n /\ h[i - j] = h[i] - j
        BY <1>2
    <2>2. h[i] - (j + 1) \in M
        <3>1. h[i] - (j + 1) \in h[i] - k + 1 .. h[i]
            BY <1>0
        <3> QED
            BY <3>1
    <2>3. PICK p \in 1 .. n : h[p] = h[i] - (j + 1)
        BY <2>2 DEF Ascends
    <2>4. p < i - j
        <3>1. p # i - j
            BY <1>0, <2>1, <2>3
        <3>2. ~(i - j < p)
            BY <1>0, <2>1, <2>3 DEF Ascends
        <3> QED
            BY <2>1, <3>1, <3>2
    <2>5. (i - j) - p = 1
        <3>1. \A a, b \in 1 .. n : a <= b => h[b] - h[a] >= b - a
            BY Gaps
        <3>2. p <= i - j
            BY <2>1, <2>4
        <3>3. h[i - j] - h[p] >= (i - j) - p
            BY <2>1, <3>1, <3>2
        <3> QED
            BY <1>0, <2>1, <2>3, <2>4, <3>3
    <2> QED
        BY <2>3, <2>5
<1> HIDE DEF X
<1>3. k - 1 \in X
    BY <1>1, <1>2, Induction
<1>4. i - (k - 1) >= 1 /\ h[i - (k - 1)] = h[i] - (k - 1)
    BY <1>3 DEF X
<1>5. i - (k - 1) = i - k + 1 /\ h[i] - (k - 1) = h[i] - k + 1
    BY <1>0
<1> QED
    BY <1>4, <1>5

-----------------------------------------------------------------------------

\* The runs can be counted: a run begins at the last place that does not follow
\* on the one before.
LEMMA RunsExist ==
    ASSUME NEW n \in Nat, NEW h
    PROVE  \E run : CountsRuns(run, h, n)
<1> DEFINE Begins(i) == {j \in 1 .. i : ~Follows(h, j)}
           g == [i \in 1 .. n |-> i - Max(Begins(i)) + 1]
<1>1. \A i \in 1 .. n : Begins(i) \in SUBSET (0 .. i) /\ 1 \in Begins(i)
    BY DEF Follows
<1>2. \A i \in 1 .. n : Max(Begins(i)) \in 1 .. i
    BY <1>1, MaxOf
<1>3. ASSUME NEW i \in 1 .. n, Follows(h, i) PROVE g[i] = g[i - 1] + 1
    <2>1. i - 1 \in 1 .. n
        BY <1>3 DEF Follows
    <2>2. Begins(i) = Begins(i - 1)
        BY <1>3, <2>1
    <2> HIDE DEF Begins
    <2>3. g[i] = i - Max(Begins(i)) + 1 /\ g[i - 1] = (i - 1) - Max(Begins(i)) + 1
        BY <2>1, <2>2
    <2> QED
        BY <1>2, <2>3
<1>4. ASSUME NEW i \in 1 .. n, ~Follows(h, i) PROVE g[i] = 1
    <2>0. Begins(i) \in SUBSET Int /\ i \in Begins(i) /\ \A y \in Begins(i) : y <= i
        BY <1>4
    <2> HIDE DEF Begins
    <2>1. Max(Begins(i)) = i
        BY <2>0, MaxIs
    <2> QED
        BY <2>1
<1>5. g = [i \in 1 .. n |-> IF Follows(h, i) THEN g[i - 1] + 1 ELSE 1]
    BY <1>3, <1>4
<1> HIDE DEF g
<1> QED
    BY <1>5 DEF CountsRuns

\* What the count says: the run that ends at i has this many consecutive months,
\* and the month before them is missing.
LEMMA RunSays ==
    ASSUME NEW M \in SUBSET Nat, NEW n \in Nat, NEW h, Ascends(h, n, M),
           NEW run, CountsRuns(run, h, n)
    PROVE  \A i \in 1 .. n :
              /\ run[i] \in 1 .. i
              /\ h[i] - h[i - run[i] + 1] = run[i] - 1
              /\ i - run[i] >= 1 => h[i - run[i] + 1] - h[i - run[i]] >= 2
<1> DEFINE Right(i) == /\ run[i] \in 1 .. i
                       /\ h[i] - h[i - run[i] + 1] = run[i] - 1
                       /\ i - run[i] >= 1 => h[i - run[i] + 1] - h[i - run[i]] >= 2
           X == {i \in Nat : i \in 1 .. n => Right(i)}
<1>0. /\ \A i \in 1 .. n : h[i] \in Nat
      /\ \A i \in 1 .. n : Follows(h, i) => run[i] = run[i - 1] + 1
      /\ \A i \in 1 .. n : ~Follows(h, i) => run[i] = 1
    BY DEF Ascends, CountsRuns
<1>1. 0 \in X
    OBVIOUS
<1>2. ASSUME NEW m \in Nat, m \in X PROVE m + 1 \in X
    <2> SUFFICES ASSUME m + 1 \in 1 .. n PROVE Right(m + 1)
        OBVIOUS
    <2> DEFINE i == m + 1
    <2>0. i \in 1 .. n /\ i - 1 = m
        OBVIOUS
    <2> HIDE DEF i
    <2>1. CASE Follows(h, i)
        <3>1. i > 1 /\ h[i] - h[i - 1] = 1 /\ i - 1 \in 1 .. n
            BY <2>0, <2>1 DEF Follows
        <3>2. Right(i - 1)
            BY <1>2, <2>0, <3>1
        <3>3. run[i] = run[i - 1] + 1
            BY <1>0, <2>0, <2>1
        <3>a. run[i - 1] \in Nat /\ 1 <= run[i - 1] /\ run[i - 1] <= i - 1
            BY <2>0, <3>1, <3>2
        <3>4. /\ run[i] \in 1 .. i
              /\ i - run[i] + 1 = (i - 1) - run[i - 1] + 1
              /\ i - run[i] = (i - 1) - run[i - 1]
              /\ i - run[i] + 1 \in 1 .. n
            BY <2>0, <3>1, <3>3, <3>a
        <3>5. h[i] - h[i - run[i] + 1] = run[i] - 1
            <4>1. h[i - 1] - h[i - run[i] + 1] = run[i - 1] - 1
                BY <3>2, <3>4
            <4>2. /\ h[i] \in Nat /\ h[i - 1] \in Nat /\ h[i - run[i] + 1] \in Nat
                  /\ run[i - 1] \in Nat
                BY <1>0, <2>0, <3>1, <3>2, <3>4
            <4> QED
                BY <3>1, <3>3, <4>1, <4>2
        <3> QED
            BY <2>0, <3>2, <3>4, <3>5 DEF i
    <2>2. CASE ~Follows(h, i)
        <3>1. run[i] = 1 /\ i - run[i] + 1 = i /\ i - run[i] = i - 1
            BY <1>0, <2>0, <2>2
        <3>2. i - 1 >= 1 => h[i] - h[i - 1] >= 2
            <4> SUFFICES ASSUME i - 1 >= 1 PROVE h[i] - h[i - 1] >= 2
                OBVIOUS
            <4>1. i - 1 \in 1 .. n /\ i > 1 /\ i - 1 < i
                BY <2>0
            <4>2. h[i - 1] < h[i] /\ h[i] - h[i - 1] # 1
                BY <2>0, <2>2, <4>1 DEF Ascends, Follows
            <4> QED
                BY <1>0, <2>0, <4>1, <4>2
        <3> QED
            BY <1>0, <2>0, <3>1, <3>2 DEF i
    <2> QED
        BY <2>1, <2>2
<1> HIDE DEF X
<1>3. \A i \in Nat : i \in X
    BY <1>1, <1>2, Induction
<1> QED
    BY <1>3 DEF X

\* So the months up to a place hold k consecutive ones that end there exactly
\* if k is at most the run that was counted.
LEMMA RunIsSpan ==
    ASSUME NEW M \in SUBSET Nat, NEW n \in Nat, NEW h, Ascends(h, n, M),
           NEW run, CountsRuns(run, h, n), NEW i \in 1 .. n, NEW k \in Nat \ {0}
    PROVE  h[i] - k + 1 .. h[i] \subseteq M <=> k <= run[i]
<1> DEFINE s == i - run[i] + 1
           a == i - k + 1
<1>0. \A p \in 1 .. n : h[p] \in Nat
    BY DEF Ascends
<1>g. \A p, q \in 1 .. n : p <= q => h[q] - h[p] >= q - p
    BY Gaps
<1>r. /\ run[i] \in 1 .. i /\ s \in 1 .. n /\ s <= i /\ i - s = run[i] - 1
      /\ h[i] - h[s] = i - s
      /\ s - 1 >= 1 => h[s] - h[s - 1] >= 2
    <2>1. /\ run[i] \in 1 .. i
          /\ h[i] - h[i - run[i] + 1] = run[i] - 1
          /\ i - run[i] >= 1 => h[i - run[i] + 1] - h[i - run[i]] >= 2
        BY RunSays
    <2>2. s - 1 = i - run[i] /\ i - s = run[i] - 1
        BY <2>1
    <2> QED
        BY <2>1, <2>2
<1> HIDE DEF s
<1>1. ASSUME k <= run[i] PROVE h[i] - k + 1 .. h[i] \subseteq M
    <2>1. a \in s .. i /\ a \in 1 .. n /\ a <= i /\ i - a = k - 1
        BY <1>1, <1>r
    <2> HIDE DEF a
    <2>2. s <= a /\ h[a] - h[s] >= a - s /\ h[i] - h[a] >= i - a
        BY <1>g, <1>r, <2>1
    <2>3. h[i] - h[a] = i - a
        BY <1>0, <1>r, <2>1, <2>2
    <2>4. h[a] .. h[i] \subseteq M
        BY <2>1, <2>3, NoGap
    <2>5. h[a] = h[i] - k + 1
        BY <1>0, <2>1, <2>3
    <2> QED
        BY <2>4, <2>5
<1>2. ASSUME h[i] - k + 1 .. h[i] \subseteq M, ~(k <= run[i]) PROVE FALSE
    <2>1. k <= i /\ h[a] = h[i] - k + 1
        BY <1>2, InARow
    <2>2. a \in 1 .. n /\ i - a = k - 1 /\ a <= s - 1 /\ s - 1 \in 1 .. n
        BY <1>2, <1>r, <2>1
    <2> HIDE DEF a
    <2>3. h[s - 1] - h[a] >= (s - 1) - a
        BY <1>g, <2>2
    <2>4. h[s] - h[s - 1] >= 2
        BY <1>r, <2>2
    <2> QED
        BY <1>0, <1>r, <2>1, <2>2, <2>3, <2>4
<1> QED
    BY <1>1, <1>2, <1>r

-----------------------------------------------------------------------------
(* What ComputeStreak takes from the list is what the properties say.      *)

\* The longest count is the longest span.
LEMMA LongestIsRun ==
    ASSUME NEW M \in SUBSET Nat, NEW n \in Nat \ {0}, NEW h, Ascends(h, n, M),
           NEW run, CountsRuns(run, h, n), Cardinality(M) = n
    PROVE  /\ Max({run[i] : i \in 1 .. n}) \in 1 .. n
           /\ \A i \in 1 .. n : run[i] <= Max({run[j] : j \in 1 .. n})
           /\ LongestSpan(M) = Max({run[i] : i \in 1 .. n})
<1> DEFINE R == {run[i] : i \in 1 .. n}
           r == Max(R)
<1>0. \A i \in 1 .. n : h[i] \in Nat /\ h[i] \in M /\ run[i] \in 1 .. i
    BY RunSays DEF Ascends
<1>1. R \in SUBSET (0 .. n) /\ R # {}
    <2>1. 1 \in 1 .. n
        OBVIOUS
    <2>2. \A i \in 1 .. n : run[i] \in 0 .. n
        BY <1>0
    <2> QED
        BY <2>1, <2>2
<1> HIDE DEF R
<1>2. r \in R /\ \A x \in R : x <= r
    BY <1>1, MaxOf
<1> HIDE DEF r
<1>3. PICK i \in 1 .. n : r = run[i]
    BY <1>2 DEF R
<1>4. r \in 1 .. n
    BY <1>0, <1>3
<1>5. \A j \in 1 .. n : run[j] <= r
    BY <1>2 DEF R
<1>6. r \in Spans(M)
    <2>1. h[i] - r + 1 .. h[i] \subseteq M
        <3>1. r \in Nat \ {0} /\ r <= run[i]
            BY <1>3, <1>4
        <3> QED
            BY <3>1, RunIsSpan
    <2>2. h[i] - h[i - r + 1] = r - 1 /\ i - r + 1 \in 1 .. n
        BY <1>0, <1>3, <1>4, RunSays
    <2> DEFINE m == h[i - r + 1]
    <2>3. m \in M /\ m = h[i] - r + 1 /\ m + r - 1 = h[i]
        BY <1>0, <1>4, <2>2
    <2> HIDE DEF m
    <2>4. m .. m + r - 1 \subseteq M
        BY <2>1, <2>3
    <2> QED
        BY <1>4, <2>3, <2>4 DEF Spans
<1>7. ASSUME NEW k \in Spans(M) PROVE k <= r
    <2>1. PICK m \in M : m .. m + k - 1 \subseteq M
        BY <1>7 DEF Spans
    <2>2. k \in Nat \ {0} /\ m \in Nat
        BY <1>7 DEF Spans
    <2>3. m + k - 1 \in M
        BY <2>1, <2>2
    <2>4. PICK j \in 1 .. n : h[j] = m + k - 1
        BY <2>3 DEF Ascends
    <2>5. m = h[j] - k + 1
        BY <2>2, <2>4
    <2>6. h[j] - k + 1 .. h[j] \subseteq M
        BY <2>1, <2>4, <2>5
    <2>7. k <= run[j]
        BY <2>2, <2>6, RunIsSpan
    <2> QED
        BY <1>0, <1>4, <1>5, <2>2, <2>7
<1>8. Max({0} \cup Spans(M)) = r
    <2>1. {0} \cup Spans(M) \in SUBSET Int
        BY DEF Spans
    <2>2. \A y \in {0} \cup Spans(M) : y <= r
        BY <1>4, <1>7
    <2> QED
        BY <1>6, <2>1, <2>2, MaxIs
<1> QED
    BY <1>4, <1>5, <1>8 DEF LongestSpan, r, R

\* The count at the end is the latest span.
LEMMA LatestIsRun ==
    ASSUME NEW M \in SUBSET Nat, NEW n \in Nat \ {0}, NEW h, Ascends(h, n, M),
           NEW run, CountsRuns(run, h, n), Cardinality(M) = n
    PROVE  Max(M) = h[n] /\ LatestSpan(M) = run[n]
<1>n. n \in Nat /\ n \in 1 .. n
    OBVIOUS
<1>s. \A i \in 1 .. n : run[i] \in 1 .. i
    BY <1>n, RunSays
<1>0. \A i \in 1 .. n : h[i] \in Nat /\ h[i] \in M /\ run[i] \in 1 .. i
    BY <1>s DEF Ascends
<1>1. Max(M) = h[n]
    <2>1. ASSUME NEW m \in M PROVE m <= h[n]
        <3>1. PICK i \in 1 .. n : h[i] = m
            BY DEF Ascends
        <3>2. CASE i = n
            BY <1>n, <1>0, <3>1, <3>2
        <3>3. CASE i # n
            <4>1. h[i] < h[n]
                BY <1>n, <1>0, <3>3 DEF Ascends
            <4> QED
                BY <1>n, <1>0, <3>1, <4>1
        <3> QED
            BY <3>2, <3>3
    <2> QED
        BY <1>n, <1>0, <2>1, MaxIs
<1> DEFINE K == {k \in Spans(M) : h[n] - k + 1 .. h[n] \subseteq M}
<1>2. ASSUME NEW k \in K PROVE k <= run[n]
    BY <1>n, <1>0, RunIsSpan DEF Spans
<1>3. run[n] \in K
    <2> DEFINE r == run[n]
    <2>0. r \in 1 .. n
        BY <1>n, <1>0
    <2>1. h[n] - r + 1 .. h[n] \subseteq M
        <3>1. r \in Nat \ {0} /\ r <= run[n]
            BY <2>0
        <3> HIDE DEF r
        <3> QED
            BY <1>n, <3>1, RunIsSpan
    <2>2. h[n] - h[n - r + 1] = r - 1 /\ n - r + 1 \in 1 .. n
        BY <1>n, <1>0, RunSays
    <2> HIDE DEF r
    <2> DEFINE m == h[n - r + 1]
    <2>3. m \in M /\ m = h[n] - r + 1 /\ m + r - 1 = h[n]
        BY <1>n, <1>0, <2>0, <2>2
    <2> HIDE DEF m
    <2>4. m .. m + r - 1 \subseteq M
        BY <2>1, <2>3
    <2>5. r \in Spans(M)
        BY <2>0, <2>3, <2>4 DEF Spans
    <2> QED
        BY <2>1, <2>5 DEF r
<1>4. Max({0} \cup K) = run[n]
    <2>1. {0} \cup K \in SUBSET Int
        BY DEF Spans
    <2>2. \A y \in {0} \cup K : y <= run[n]
        BY <1>n, <1>0, <1>2
    <2> HIDE DEF K
    <2> QED
        BY <1>3, <2>1, <2>2, MaxIs
<1> QED
    BY <1>1, <1>4 DEF LatestSpan

\* The dates in ascending order.
DatesOf(h, n) == [i \in 1 .. n |-> Date(h[i])]

\* The second loop counts the same as the first one has at its end.
LEMMA CurrentIsRun ==
    ASSUME NEW M \in SUBSET Nat, NEW n \in Nat \ {0}, NEW h, Ascends(h, n, M),
           NEW run, CountsRuns(run, h, n)
    PROVE  CurrentRun(DatesOf(h, n)) = run[n]
<1> DEFINE months == DatesOf(h, n)
           unbroken(k) == \A i \in n - k + 1 .. n - 1 : months[i] = PrevMonth(months[i + 1])
           K == {k \in 1 .. n : unbroken(k)}
<1>n. n \in Nat /\ n \in 1 .. n
    OBVIOUS
<1>s. \A i \in 1 .. n : run[i] \in 1 .. i
    BY <1>n, RunSays
<1>0. \A i \in 1 .. n : h[i] \in Nat /\ run[i] \in 1 .. i
    BY <1>s DEF Ascends
<1>1. Len(months) = n
    BY DEF DatesOf
<1>2. ASSUME NEW i \in 1 .. n, i + 1 \in 1 .. n
      PROVE  months[i] = PrevMonth(months[i + 1]) <=> h[i] = h[i + 1] - 1
    <2>1. months[i] = Date(h[i]) /\ months[i + 1] = Date(h[i + 1])
        BY <1>2 DEF DatesOf
    <2>2. h[i] \in Int /\ h[i + 1] \in Int /\ h[i + 1] - 1 \in Int
        BY <1>n, <1>0, <1>2
    <2>3. PrevMonth(months[i + 1]) = Date(h[i + 1] - 1)
        BY <2>1, <2>2, PrevIsMinusOne
    <2>4. Date(h[i]) = Date(h[i + 1] - 1) => h[i] = h[i + 1] - 1
        BY <2>2, DatesApart
    <2> QED
        BY <2>1, <2>3, <2>4
<1> HIDE DEF months
<1>3. run[n] \in K
    <2> SUFFICES ASSUME NEW i \in n - run[n] + 1 .. n - 1
                 PROVE  h[i] = h[i + 1] - 1
        BY <1>n, <1>0, <1>2
    <2> DEFINE s == n - run[n] + 1
    <2>1. h[n] - h[s] = run[n] - 1 /\ s \in 1 .. n
        BY <1>n, <1>0, RunSays
    <2>2. i \in 1 .. n /\ i + 1 \in 1 .. n /\ s <= i /\ i + 1 <= n /\ i < i + 1
        BY <1>n, <1>0
    <2>3. n - s = run[n] - 1
        BY <1>n, <1>0
    <2> HIDE DEF s
    <2>4. h[i] - h[s] >= i - s /\ h[n] - h[i + 1] >= n - (i + 1) /\ h[i] < h[i + 1]
        <3>1. \A a, b \in 1 .. n : a <= b => h[b] - h[a] >= b - a
            BY Gaps
        <3> QED
            BY <1>n, <1>0, <2>1, <2>2, <3>1 DEF Ascends
    <2> QED
        BY <1>n, <1>0, <2>1, <2>2, <2>3, <2>4
<1>4. ASSUME NEW k \in K PROVE k <= run[n]
    <2> SUFFICES ASSUME k > run[n] PROVE FALSE
        BY <1>n, <1>0
    <2> DEFINE i == n - run[n]
    <2>1. i \in n - k + 1 .. n - 1 /\ i \in 1 .. n /\ i + 1 \in 1 .. n /\ i + 1 = n - run[n] + 1
        BY <1>n, <1>0, <1>4
    <2>2. h[i + 1] - h[i] >= 2
        BY <1>n, <1>0, <2>1, RunSays
    <2>3. h[i] = h[i + 1] - 1
        BY <1>2, <1>4, <2>1
    <2> QED
        BY <1>n, <1>0, <2>1, <2>2, <2>3
<1>5. Max(K) = run[n]
    <2>1. K \in SUBSET Int
        OBVIOUS
    <2> HIDE DEF K
    <2> QED
        BY <1>3, <1>4, <2>1, MaxIs
<1> QED
    BY <1>1, <1>5 DEF CurrentRun, months

\* The first loop counts runs.
LEMMA RunsCount ==
    ASSUME NEW n \in Nat, NEW h \in [1 .. n -> Nat]
    PROVE  CountsRuns(Runs(DatesOf(h, n)), h, n)
<1> DEFINE months == DatesOf(h, n)
           Step(i) == i > 1 /\ MonthsBetween(months[i], months[i - 1]) = 1
<1>1. ASSUME NEW i \in 1 .. n PROVE Step(i) <=> Follows(h, i)
    <2>1. CASE i > 1
        <3>1. i - 1 \in 1 .. n
            BY <2>1
        <3>2. MonthsBetween(Date(h[i]), Date(h[i - 1])) = h[i] - h[i - 1]
            BY <3>1, DatesApart
        <3> QED
            BY <2>1, <3>1, <3>2 DEF DatesOf, Follows
    <2>2. CASE ~(i > 1)
        BY <2>2 DEF Follows
    <2> QED
        BY <2>1, <2>2
<1>2. DOMAIN months = 1 .. n
    BY DEF DatesOf
<1>3. Runs(months) =
         CHOOSE run : run = [i \in DOMAIN months |-> IF Step(i) THEN run[i - 1] + 1 ELSE 1]
    BY Zenon DEF Runs
<1> HIDE DEF months, Step
<1>4. \A run : CountsRuns(run, h, n) <=>
                run = [i \in DOMAIN months |-> IF Step(i) THEN run[i - 1] + 1 ELSE 1]
    BY <1>1, <1>2 DEF CountsRuns
<1>5. \E run : run = [i \in DOMAIN months |-> IF Step(i) THEN run[i - 1] + 1 ELSE 1]
    BY <1>4, RunsExist
<1>6. Runs(months) = [i \in DOMAIN months |-> IF Step(i) THEN Runs(months)[i - 1] + 1 ELSE 1]
    BY <1>3, <1>5
<1> QED
    BY <1>4, <1>6 DEF months

-----------------------------------------------------------------------------
(* The sorted list.                                                        *)

\* Every finite set of months can be listed in order: a month's place is the
\* number of months up to it.
LEMMA OrderExists ==
    ASSUME NEW M \in SUBSET Nat, IsFiniteSet(M)
    PROVE  \E h : Ascends(h, Cardinality(M), M)
<1> DEFINE n == Cardinality(M)
           UpTo(m) == {x \in M : x <= m}
           rank == [m \in M |-> Cardinality(UpTo(m))]
<1>0. n \in Nat
    BY FS_CardinalityType
<1>1. ASSUME NEW m \in M
      PROVE  IsFiniteSet(UpTo(m)) /\ Cardinality(UpTo(m)) \in 1 .. n
    <2>1. UpTo(m) \in SUBSET M /\ UpTo(m) # {}
        OBVIOUS
    <2> HIDE DEF UpTo
    <2>2. IsFiniteSet(UpTo(m)) /\ Cardinality(UpTo(m)) <= n
        BY <2>1, FS_Subset
    <2>3. Cardinality(UpTo(m)) \in Nat /\ Cardinality(UpTo(m)) # 0
        BY <2>1, <2>2, FS_CardinalityType, FS_EmptySet
    <2> QED
        BY <1>0, <2>2, <2>3
<1>2. ASSUME NEW a \in M, NEW b \in M, a < b PROVE rank[a] < rank[b]
    <2>0. \A x \in M : x <= a => x <= b
        BY <1>2
    <2>1. UpTo(a) \in SUBSET UpTo(b) /\ b \in UpTo(b) /\ b \notin UpTo(a)
        <3>1. b <= b /\ ~(b <= a)
            BY <1>2
        <3> QED
            BY <2>0, <3>1
    <2>2. IsFiniteSet(UpTo(a)) /\ IsFiniteSet(UpTo(b))
        BY <1>1
    <2>3. Cardinality(UpTo(a)) \in Nat /\ Cardinality(UpTo(b)) \in Nat
        BY <1>1
    <2> HIDE DEF UpTo
    <2>4. /\ Cardinality(UpTo(a)) <= Cardinality(UpTo(b))
          /\ Cardinality(UpTo(a)) # Cardinality(UpTo(b))
        BY <2>1, <2>2, FS_Subset
    <2> QED
        BY <2>3, <2>4
<1>3. rank \in [M -> 1 .. n]
    BY <1>1
<1> HIDE DEF rank, UpTo
<1>4. \A a, b \in M : rank[a] = rank[b] => a = b
    <2>1. \A a, b \in M : a < b \/ b < a \/ a = b
        OBVIOUS
    <2>2. \A a \in M : rank[a] \in Int
        BY <1>3
    <2> QED
        BY <1>2, <2>1, <2>2
<1>5. rank \in Injection(M, 1 .. n)
    BY <1>3, <1>4 DEF Injection, IsInjective
<1>6. IsFiniteSet(1 .. n) /\ Cardinality(1 .. n) = n
    BY <1>0, FS_Interval
<1>7. rank \in Surjection(M, 1 .. n)
    BY <1>5, <1>6, FS_Injection
<1> DEFINE h == [i \in 1 .. n |-> CHOOSE m \in M : rank[m] = i]
<1>8. \A i \in 1 .. n : h[i] \in M /\ rank[h[i]] = i
    BY <1>7 DEF Surjection
<1>9. h \in [1 .. n -> M]
    BY <1>8
<1> HIDE DEF h
<1>10. ASSUME NEW i \in 1 .. n, NEW j \in 1 .. n, i < j PROVE h[i] < h[j]
    <2>1. h[i] \in Nat /\ h[j] \in Nat /\ h[i] \in M /\ h[j] \in M
        BY <1>8
    <2>2. rank[h[i]] = i /\ rank[h[j]] = j
        BY <1>8
    <2>3. ~(h[j] < h[i])
        BY <1>2, <1>10, <2>1, <2>2
    <2>4. h[i] # h[j]
        BY <1>10, <2>2
    <2> QED
        BY <2>1, <2>3, <2>4
<1>11. \A m \in M : rank[m] \in 1 .. n /\ h[rank[m]] = m
    BY <1>3, <1>4, <1>8
<1>12. Ascends(h, n, M)
    BY <1>9, <1>10, <1>11 DEF Ascends
<1> QED
    BY <1>12

\* The engine's list holds the dates of the months in that order.
LEMMA SortedIs ==
    ASSUME NEW M \in SUBSET Nat, IsFiniteSet(M)
    PROVE  \E h : /\ Ascends(h, Cardinality(M), M)
                  /\ Sorted({Date(m) : m \in M}) = DatesOf(h, Cardinality(M))
<1> DEFINE n == Cardinality(M)
           D == {Date(m) : m \in M}
           InOrder(l) == \A i, j \in DOMAIN l : i < j => Before(l[i], l[j])
           months == Sorted(D)
<1>0. n \in Nat
    BY FS_CardinalityType
<1>1. ASSUME NEW a \in M, NEW b \in M
      PROVE  /\ Date(a) = Date(b) => a = b
             /\ Before(Date(a), Date(b)) <=> a < b
    <2>1. a \in Int /\ b \in Int
        OBVIOUS
    <2> QED
        BY <2>1, DatesApart
<1>2. Cardinality(D) = n
    <2> DEFINE f == [m \in M |-> Date(m)]
    <2>1. f \in Surjection(M, D)
        BY DEF Surjection
    <2>2. f \in Injection(M, D)
        BY <1>1 DEF Injection, IsInjective
    <2> HIDE DEF f, D
    <2> QED
        BY <2>1, <2>2, FS_Surjection
<1>3. \E l \in [1 .. n -> D] : InOrder(l)
    <2>1. PICK h : Ascends(h, n, M)
        BY OrderExists
    <2>2. \A i \in 1 .. n : h[i] \in M
        BY <2>1 DEF Ascends
    <2>3. DatesOf(h, n) \in [1 .. n -> D]
        BY <2>2 DEF DatesOf
    <2>4. ASSUME NEW i \in 1 .. n, NEW j \in 1 .. n, i < j
          PROVE  Before(Date(h[i]), Date(h[j]))
        <3>1. h[i] < h[j]
            BY <2>1, <2>4 DEF Ascends
        <3>2. h[i] \in M /\ h[j] \in M
            BY <2>2
        <3> QED
            BY <1>1, <3>1, <3>2
    <2>5. InOrder(DatesOf(h, n))
        BY <2>4 DEF DatesOf
    <2> QED
        BY <2>3, <2>5
<1>4. months \in [1 .. n -> D] /\ InOrder(months)
    <2>1. months = CHOOSE l \in [1 .. n -> D] : InOrder(l)
        BY <1>2 DEF Sorted
    <2> HIDE DEF months, InOrder
    <2> QED
        BY <1>3, <2>1
<1> HIDE DEF months
<1> DEFINE h == [i \in 1 .. n |-> CHOOSE m \in M : Date(m) = months[i]]
<1>5. \A i \in 1 .. n : h[i] \in M /\ Date(h[i]) = months[i]
    BY <1>4
<1>6. h \in [1 .. n -> M]
    BY <1>5
<1> HIDE DEF h
<1>7. ASSUME NEW i \in 1 .. n, NEW j \in 1 .. n, i < j PROVE h[i] < h[j]
    <2>1. Before(months[i], months[j])
        BY <1>4, <1>7
    <2>2. Before(Date(h[i]), Date(h[j])) /\ h[i] \in M /\ h[j] \in M
        BY <1>5, <2>1
    <2> QED
        BY <1>1, <2>2
<1>8. \A m \in M : \E i \in 1 .. n : h[i] = m
    <2>1. \A i, j \in 1 .. n : h[i] = h[j] => i = j
        <3>1. \A i \in 1 .. n : h[i] \in Nat
            BY <1>5
        <3>2. \A i, j \in 1 .. n : i < j \/ j < i \/ i = j
            BY <1>0
        <3> QED
            BY <1>7, <3>1, <3>2
    <2>2. h \in Injection(1 .. n, M)
        BY <1>6, <2>1 DEF Injection, IsInjective
    <2>3. Cardinality(1 .. n) = n
        BY <1>0, FS_Interval
    <2>4. h \in Surjection(1 .. n, M)
        BY <2>2, <2>3, FS_Injection
    <2> QED
        BY <2>4 DEF Surjection
<1>9. Ascends(h, n, M)
    BY <1>6, <1>7, <1>8 DEF Ascends
<1>10. months = DatesOf(h, n)
    BY <1>4, <1>5 DEF DatesOf
<1> QED
    BY <1>9, <1>10 DEF months

-----------------------------------------------------------------------------
(* What ComputeStreak returns.                                             *)

\* A tier is reached exactly from its threshold on.
LEMMA TierIs ==
    ASSUME NEW n \in Nat
    PROVE  /\ TierForStreak(n) \in Nat
           /\ \A i \in DOMAIN Thresholds : TierForStreak(n) >= i <=> n >= Thresholds[i]
           /\ TierForStreak(n) # 0 => TierForStreak(n) \in DOMAIN Thresholds
<1> DEFINE I == {i \in DOMAIN Thresholds : n >= Thresholds[i]}
           S == {0} \cup I
           tier == TierForStreak(n)
<1>0. /\ Len(Thresholds) \in Nat
      /\ DOMAIN Thresholds = 1 .. Len(Thresholds)
      /\ \A i \in DOMAIN Thresholds : Thresholds[i] \in Nat \ {0}
      /\ \A i, j \in DOMAIN Thresholds : i < j => Thresholds[i] < Thresholds[j]
    BY StreakAssumption
<1>1. S \in SUBSET (0 .. Len(Thresholds)) /\ S # {}
    BY <1>0
<1>2. tier = Max(S)
    BY DEF TierForStreak
<1> HIDE DEF tier
<1>3. tier \in S /\ \A i \in S : i <= tier
    <2> HIDE DEF S
    <2> QED
        BY <1>0, <1>1, <1>2, MaxOf
<1>4. tier \in 0 .. Len(Thresholds)
    BY <1>1, <1>3
<1>5. ASSUME NEW i \in DOMAIN Thresholds, tier >= i PROVE n >= Thresholds[i]
    <2>1. i \in Nat \ {0} /\ tier # 0 /\ tier \in DOMAIN Thresholds
        BY <1>0, <1>4, <1>5
    <2>2. n >= Thresholds[tier]
        BY <1>3, <2>1
    <2>3. i = tier \/ i < tier
        BY <1>0, <1>4, <1>5
    <2>4. Thresholds[i] <= Thresholds[tier]
        BY <1>0, <2>1, <2>3
    <2> QED
        BY <1>0, <2>1, <2>2, <2>4
<1>6. ASSUME NEW i \in DOMAIN Thresholds, n >= Thresholds[i] PROVE tier >= i
    <2>1. i \in S
        BY <1>6
    <2> QED
        BY <1>0, <1>3, <1>4, <2>1
<1> QED
    BY <1>0, <1>4, <1>5, <1>6 DEF tier

\* The donations in ds have months.
Dated(ds) == ds \subseteq Donations /\ \A d \in ds : made[d] \in Nat

LEMMA ImageFinite ==
    ASSUME NEW f, NEW ds \in SUBSET Donations
    PROVE  /\ IsFiniteSet(ds) /\ Cardinality(ds) \in Nat
           /\ IsFiniteSet({f[d] : d \in ds}) /\ Cardinality({f[d] : d \in ds}) \in Nat
<1> DEFINE g == [d \in ds |-> f[d]]
<1>1. IsFiniteSet(ds) /\ Cardinality(ds) \in Nat
    BY StreakAssumption, FS_Subset, FS_CardinalityType
<1>2. g \in Surjection(ds, {f[d] : d \in ds})
    BY DEF Surjection
<1> HIDE DEF g
<1>3. IsFiniteSet({f[d] : d \in ds})
    BY <1>1, <1>2, FS_Surjection
<1> QED
    BY <1>1, <1>3, FS_CardinalityType

LEMMA MonthsFinite ==
    ASSUME NEW ds, Dated(ds)
    PROVE  /\ IsFiniteSet(ds) /\ Cardinality(ds) \in Nat
           /\ IsFiniteSet(MonthsOf(ds)) /\ MonthsOf(ds) \in SUBSET Nat
           /\ Cardinality(MonthsOf(ds)) \in Nat
<1>1. MonthsOf(ds) \in SUBSET Nat /\ ds \in SUBSET Donations
    BY DEF Dated, MonthsOf
<1> QED
    BY <1>1, ImageFinite DEF MonthsOf

\* The latest run of months is one of the runs.
LEMMA StreakIsExact ==
    ASSUME NEW ds, Dated(ds)
    PROVE  /\ ComputeStreak(ds) \in Streaks
           /\ Exact(ComputeStreak(ds), ds)
           /\ ComputeStreak(ds).current <= ComputeStreak(ds).longest
           /\ ComputeStreak(ds).tier = TierForStreak(ComputeStreak(ds).current)
<1> DEFINE M == MonthsOf(ds)
           n == Cardinality(M)
<1>0. /\ IsFiniteSet(ds) /\ Cardinality(ds) \in Nat /\ IsFiniteSet(M)
      /\ M \in SUBSET Nat /\ n \in Nat
    BY MonthsFinite
<1>1. CASE ds = {}
    <2>1. M = {}
        BY <1>1 DEF MonthsOf
    <2>2. n = 0 /\ Cardinality(ds) = 0
        BY <1>1, <2>1, FS_EmptySet
    <2>3. ComputeStreak(ds) = Streak(0, 0, None, 0)
        BY <1>1 DEF ComputeStreak
    <2>4. Spans(M) = {}
        BY <2>1 DEF Spans
    <2>5. Max({0}) = 0
        BY MaxIs
    <2>6. LongestSpan(M) = 0 /\ LatestSpan(M) = 0
        BY <2>4, <2>5 DEF LongestSpan, LatestSpan
    <2>7. /\ TierForStreak(0) \in Nat
          /\ \A i \in DOMAIN Thresholds : TierForStreak(0) >= i <=> 0 >= Thresholds[i]
        BY TierIs
    <2> QED
        BY <2>1, <2>2, <2>3, <2>6, <2>7 DEF Exact, Streak, Streaks
<1>2. CASE ds # {}
    <2>0. M # {} /\ n \in Nat \ {0}
        <3>1. M # {}
            BY <1>2 DEF MonthsOf
        <3> QED
            BY <1>0, <3>1, FS_EmptySet
    <2>1. {Date(made[d]) : d \in ds} = {Date(m) : m \in M}
        BY DEF MonthsOf
    <2>2. PICK h : Ascends(h, n, M) /\ Sorted({Date(m) : m \in M}) = DatesOf(h, n)
        BY <1>0, SortedIs
    <2> DEFINE months == DatesOf(h, n)
               run == Runs(months)
               longest == Max({run[i] : i \in DOMAIN months})
    <2>3. ComputeStreak(ds) = Streak(CurrentRun(months), longest, months[Len(months)],
                                     Cardinality(ds))
        BY <1>2, <2>1, <2>2 DEF ComputeStreak
    <2>4. DOMAIN months = 1 .. n /\ Len(months) = n /\ months[n] = Date(h[n])
        BY <2>0 DEF DatesOf
    <2>5. CountsRuns(run, h, n)
        <3>1. h \in [1 .. n -> Nat]
            BY <1>0, <2>2 DEF Ascends
        <3> QED
            BY <1>0, <3>1, RunsCount
    <2>6. CurrentRun(months) = run[n]
        BY <1>0, <2>0, <2>2, <2>5, CurrentIsRun
    <2> HIDE DEF months, run, M, n
    <2>7. /\ longest \in 1 .. n /\ \A i \in 1 .. n : run[i] <= longest
          /\ LongestSpan(M) = longest
        BY <1>0, <2>0, <2>2, <2>4, <2>5, LongestIsRun DEF n
    <2>8. Max(M) = h[n] /\ LatestSpan(M) = run[n]
        BY <1>0, <2>0, <2>2, <2>5, LatestIsRun DEF n
    <2>9. n \in 1 .. n /\ run[n] \in 1 .. n /\ h[n] \in Nat
        <3>1. \A i \in 1 .. n : run[i] \in 1 .. i
            BY <1>0, <2>2, <2>5, RunSays
        <3>2. n \in 1 .. n
            BY <2>0
        <3>3. h[n] \in M /\ M \in SUBSET Nat
            BY <1>0, <2>2, <3>2 DEF Ascends, n, M
        <3>4. run[n] \in 1 .. n
            BY <3>1, <3>2
        <3> QED
            BY <3>2, <3>3, <3>4
    <2> HIDE DEF longest
    <2>10. /\ TierForStreak(run[n]) \in Nat
           /\ \A i \in DOMAIN Thresholds :
                 TierForStreak(run[n]) >= i <=> run[n] >= Thresholds[i]
        BY <2>9, TierIs
    <2>11. ComputeStreak(ds) = Streak(run[n], longest, Date(h[n]), Cardinality(ds))
        BY <2>3, <2>4, <2>6
    <2>12. ComputeStreak(ds) \in Streaks
        <3>1. Date(h[n]) \in [year : Nat, month : 1 .. 12]
            BY <2>9 DEF Date
        <3>2. longest \in Nat /\ run[n] \in Nat
            BY <1>0, <2>7, <2>9
        <3> QED
            BY <1>0, <2>10, <2>11, <3>1, <3>2 DEF Streak, Streaks
    <2>13. Exact(ComputeStreak(ds), ds)
        BY <2>0, <2>7, <2>8, <2>10, <2>11 DEF Streak, Exact, M
    <2> QED
        BY <2>7, <2>9, <2>11, <2>12, <2>13 DEF Streak
<1> QED
    BY <1>1, <1>2

\* More months, no shorter streak.
LEMMA MoreIsNoLess ==
    ASSUME NEW N, IsFiniteSet(N), NEW M \in SUBSET N
    PROVE  /\ LongestSpan(M) \in Nat /\ LongestSpan(N) \in Nat
           /\ LongestSpan(M) <= LongestSpan(N)
<1>1. Cardinality(M) \in Nat /\ Cardinality(N) \in Nat /\ Cardinality(M) <= Cardinality(N)
    BY FS_Subset, FS_CardinalityType
<1>2. Spans(M) \subseteq Spans(N)
    BY <1>1 DEF Spans
<1> DEFINE A == {0} \cup Spans(M)
           B == {0} \cup Spans(N)
<1>3. /\ A \in SUBSET (0 .. Cardinality(M)) /\ A # {}
      /\ B \in SUBSET (0 .. Cardinality(N)) /\ B # {} /\ A \subseteq B
    BY <1>1, <1>2 DEF Spans
<1> HIDE DEF A, B
<1>4. Max(A) \in A /\ Max(B) \in B /\ \A x \in B : x <= Max(B)
    BY <1>1, <1>3, MaxOf
<1>5. Max(A) \in 0 .. Cardinality(M) /\ Max(B) \in 0 .. Cardinality(N) /\ Max(A) \in B
    BY <1>3, <1>4
<1> QED
    BY <1>1, <1>4, <1>5 DEF LongestSpan, A, B

-----------------------------------------------------------------------------
(* The streak: the invariant.                                              *)

Computed(t) == At(t, "computed") \/ At(t, "loaded")

\* A task has computed the streak of donations that are confirmed, and stay so.
FromConfirmed ==
    \A t \in Tasks : Computed(t) =>
        /\ task[t].seen \subseteq Confirmed
        /\ task[t].state = ComputeStreak(task[t].seen)

\* As long as no other one writes, the row a task replaces is the one it loads,
\* and shows no longer streak than the donations it has read.
Undisturbed ==
    \A t \in Tasks : Computed(t) /\ task[t].alone =>
        /\ row # None => row.longest <= LongestSpan(MonthsOf(task[t].seen))
        /\ At(t, "loaded") => task[t].loaded = row

\* A row that was found is never taken away.
RowStays == \A t \in Tasks : At(t, "loaded") /\ task[t].loaded # None => row # None

Inv ==
    /\ TypeOK
    /\ FromConfirmed
    /\ Undisturbed
    /\ RowStays
    /\ NothingUnearned

LEMMA Scheduled ==
    ASSUME NEW t, At(t, "scheduled"), task[t] \in Recomputations
    PROVE  task[t].month \in Nat /\ ~Computed(t)
BY DEF At, Recomputations, Computed

LEMMA ComputedType ==
    ASSUME TypeOK, NEW t \in Tasks, Computed(t)
    PROVE  /\ task[t].month \in Nat /\ task[t].seen \in SUBSET Donations
           /\ task[t].state \in Streaks /\ task[t].alone \in BOOLEAN
BY DEF TypeOK, Computed, At, Recomputations

LEMMA LoadedType ==
    ASSUME TypeOK, NEW t \in Tasks, At(t, "loaded")
    PROVE  Computed(t) /\ task[t].loaded \in Streaks \cup {None}
BY DEF TypeOK, Computed, At, Recomputations

LEMMA ConfirmedDated ==
    ASSUME TypeOK
    PROVE  Dated(Confirmed)
BY DEF TypeOK, Confirmed, Dated

LEMMA InitInv == Init => Inv
<1> SUFFICES ASSUME Init PROVE Inv
    OBVIOUS
<1>1. TypeOK
    BY StreakAssumption DEF Init, TypeOK, Stages
<1>2. \A t \in Tasks : ~Computed(t) /\ ~At(t, "loaded")
    BY DEF Init, Computed, At
<1> QED
    BY <1>1, <1>2 DEF Init, Inv, FromConfirmed, Undisturbed, RowStays, NothingUnearned

-----------------------------------------------------------------------------
(* One lemma for all that leaves the row and what was computed.            *)

\* The dates a streak is computed from.
DatesAt(ds) == {Date(made[d]) : d \in ds}

StreakOf(dates, ds) ==
    LET months == Sorted(dates)
        run    == Runs(months)
    IN IF ds = {} THEN Streak(0, 0, None, 0)
       ELSE Streak(CurrentRun(months), Max({run[i] : i \in DOMAIN months}),
                   months[Len(months)], Cardinality(ds))

\* Donations that stay confirmed keep their month, so a streak that was computed
\* from them is still theirs, and what they bear out is borne out by more.
LEMMA DonationsMove ==
    ASSUME Inv, TypeOK', UNCHANGED <<row, rewards>>,
           \A d \in Confirmed : donation'[d] = "confirmed" /\ made'[d] = made[d],
           \A t \in Tasks : Computed(t)' => task'[t] = task[t]
    PROVE  Inv'
<1> USE DEF Inv
<1>1. Confirmed \subseteq Confirmed'
    BY DEF Confirmed
<1>2. \A t \in Tasks : Computed(t)' => Computed(t) /\ (At(t, "loaded")' <=> At(t, "loaded"))
    BY DEF Computed, At
<1>3. ASSUME NEW t \in Tasks, Computed(t)'
      PROVE  /\ task[t].seen \subseteq Confirmed
             /\ MonthsOf(task[t].seen)' = MonthsOf(task[t].seen)
             /\ ComputeStreak(task[t].seen)' = ComputeStreak(task[t].seen)
    <2>1. task'[t].seen = task[t].seen /\ task[t].seen \subseteq Confirmed
        BY <1>2, <1>3 DEF FromConfirmed
    <2>2. MonthsOf(task[t].seen)' = MonthsOf(task[t].seen)
        BY <2>1 DEF MonthsOf
    <2>3. DatesAt(task[t].seen)' = DatesAt(task[t].seen)
        BY <2>1 DEF DatesAt
    <2>4. /\ ComputeStreak(task[t].seen) = StreakOf(DatesAt(task[t].seen), task[t].seen)
          /\ ComputeStreak(task[t].seen)' = StreakOf(DatesAt(task[t].seen)', task'[t].seen)
        BY DEF ComputeStreak, StreakOf, DatesAt
    <2> QED
        BY <2>1, <2>2, <2>3, <2>4
<1>4. FromConfirmed'
    <2> SUFFICES ASSUME NEW t \in Tasks, Computed(t)'
                 PROVE  /\ task'[t].seen \subseteq Confirmed'
                        /\ task'[t].state = ComputeStreak(task[t].seen)'
        BY DEF FromConfirmed
    <2>1. Computed(t) /\ task'[t] = task[t]
        BY <1>2
    <2> QED
        BY <1>1, <1>3, <2>1 DEF FromConfirmed
<1>5. Undisturbed'
    <2> SUFFICES ASSUME NEW t \in Tasks, Computed(t)', task'[t].alone
                 PROVE  /\ row' # None => row'.longest <= LongestSpan(MonthsOf(task[t].seen)')
                        /\ At(t, "loaded")' => task'[t].loaded = row'
        BY DEF Undisturbed
    <2>1. Computed(t) /\ task'[t] = task[t] /\ (At(t, "loaded")' <=> At(t, "loaded"))
        BY <1>2
    <2> QED
        BY <1>3, <2>1 DEF Undisturbed
<1>6. RowStays'
    <2> SUFFICES ASSUME NEW t \in Tasks, At(t, "loaded")', task'[t].loaded # None
                 PROVE  row' # None
        BY DEF RowStays
    <2>1. At(t, "loaded") /\ task'[t] = task[t]
        BY <1>2 DEF Computed
    <2> QED
        BY <2>1 DEF RowStays
<1>7. NothingUnearned'
    <2> DEFINE M == MonthsOf(Confirmed)
               N == MonthsOf(Confirmed)'
    <2>1. M \in SUBSET N
        BY <1>1 DEF MonthsOf
    <2>2. /\ IsFiniteSet(Confirmed') /\ Cardinality(Confirmed) <= Cardinality(Confirmed')
          /\ Cardinality(Confirmed) \in Nat /\ Cardinality(Confirmed') \in Nat
        <3>1. Confirmed' \in SUBSET Donations /\ Confirmed \in SUBSET Donations
            BY DEF Confirmed
        <3> QED
            BY <1>1, <3>1, ImageFinite, FS_Subset
    <2>3. IsFiniteSet(N)
        <3>1. Confirmed' \in SUBSET Donations
            BY DEF Confirmed
        <3>2. N = {made'[d] : d \in Confirmed'}
            BY DEF MonthsOf
        <3> HIDE DEF N
        <3> QED
            BY <3>1, <3>2, ImageFinite
    <2> HIDE DEF M, N
    <2>4. LongestSpan(M) \in Nat /\ LongestSpan(N) \in Nat /\ LongestSpan(M) <= LongestSpan(N)
        BY <2>1, <2>3, MoreIsNoLess
    <2>5. /\ \A i \in rewards : Thresholds[i] \in Nat /\ LongestSpan(M) >= Thresholds[i]
          /\ row # None => /\ row.longest \in Nat /\ row.total \in Nat
                           /\ row.longest <= LongestSpan(M) /\ row.total <= Cardinality(Confirmed)
        BY StreakAssumption DEF TypeOK, Streaks, NothingUnearned, M
    <2>6. /\ \A i \in rewards : LongestSpan(N) >= Thresholds[i]
          /\ row # None => /\ row.longest <= LongestSpan(N) /\ row.total <= Cardinality(Confirmed')
        BY <2>2, <2>4, <2>5
    <2> QED
        BY <2>6 DEF NothingUnearned, N
<1> QED
    BY <1>4, <1>5, <1>6, <1>7

-----------------------------------------------------------------------------
(* The streak: the donations.                                              *)

LEMMA NewTask ==
    ASSUME TypeOK, NEW t \in Tasks, CreateTask(t)
    PROVE  /\ task' \in [Tasks -> Recomputations \cup {None}]
           /\ \A u \in Tasks : Computed(u)' => task'[u] = task[u]
<1>1. now \in Nat
    BY StreakAssumption DEF TypeOK
<1>2. [step |-> "scheduled", month |-> now] \in Recomputations
    BY <1>1 DEF Recomputations
<1>3. task' = [task EXCEPT ![t] = [step |-> "scheduled", month |-> now]]
    BY DEF CreateTask
<1>4. ASSUME NEW u \in Tasks, Computed(u)' PROVE task'[u] = task[u]
    BY <1>3, <1>4 DEF TypeOK, Computed, At
<1> QED
    BY <1>2, <1>3, <1>4 DEF TypeOK

LEMMA NextMonthStep == ASSUME Inv, NextMonth PROVE Inv'
<1>1. TypeOK'
    BY StreakAssumption DEF Inv, TypeOK, NextMonth
<1> QED
    BY <1>1, DonationsMove DEF NextMonth, Confirmed

LEMMA InsertConfirmedStep ==
    ASSUME Inv, NEW d \in Donations, NEW t \in Tasks, InsertConfirmed(d, t) PROVE Inv'
<1>0. now \in Nat /\ TypeOK
    BY StreakAssumption DEF Inv, TypeOK
<1>1. /\ task' \in [Tasks -> Recomputations \cup {None}]
      /\ \A u \in Tasks : Computed(u)' => task'[u] = task[u]
    BY <1>0, NewTask DEF InsertConfirmed
<1>2. TypeOK'
    BY <1>0, <1>1 DEF TypeOK, InsertConfirmed, Stages
<1>3. \A e \in Confirmed : donation'[e] = "confirmed" /\ made'[e] = made[e]
    BY <1>0 DEF Confirmed, InsertConfirmed, TypeOK
<1> QED
    BY <1>1, <1>2, <1>3, DonationsMove DEF InsertConfirmed

LEMMA InsertUnconfirmedStep ==
    ASSUME Inv, NEW d \in Donations, InsertUnconfirmed(d) PROVE Inv'
<1>0. now \in Nat /\ TypeOK
    BY StreakAssumption DEF Inv, TypeOK
<1>1. TypeOK'
    BY <1>0 DEF TypeOK, InsertUnconfirmed, Stages
<1>2. \A e \in Confirmed : donation'[e] = "confirmed" /\ made'[e] = made[e]
    BY <1>0 DEF Confirmed, InsertUnconfirmed, TypeOK
<1> QED
    BY <1>1, <1>2, DonationsMove DEF InsertUnconfirmed

LEMMA FlushConfirmationStep ==
    ASSUME Inv, NEW d \in Donations, NEW t \in Tasks, FlushConfirmation(d, t) PROVE Inv'
<1>0. TypeOK
    BY DEF Inv
<1>1. /\ task' \in [Tasks -> Recomputations \cup {None}]
      /\ \A u \in Tasks : Computed(u)' => task'[u] = task[u]
    BY <1>0, NewTask DEF FlushConfirmation
<1>2. TypeOK'
    BY <1>0, <1>1 DEF TypeOK, FlushConfirmation, Stages
<1>3. \A e \in Confirmed : donation'[e] = "confirmed" /\ made'[e] = made[e]
    BY <1>0 DEF Confirmed, FlushConfirmation, TypeOK
<1> QED
    BY <1>1, <1>2, <1>3, DonationsMove DEF FlushConfirmation

LEMMA CommitStep == ASSUME Inv, NEW d \in Donations, Commit(d) PROVE Inv'
<1>0. TypeOK
    BY DEF Inv
<1>1. TypeOK'
    BY <1>0 DEF TypeOK, Commit, Stages
<1>2. \A e \in Confirmed : donation'[e] = "confirmed" /\ made'[e] = made[e]
    BY <1>0 DEF Confirmed, Commit, TypeOK
<1> QED
    BY <1>1, <1>2, DonationsMove DEF Commit

LEMMA RollbackStep == ASSUME Inv, NEW d \in Donations, Rollback(d) PROVE Inv'
<1>0. TypeOK /\ MaxFaults \in Nat
    BY StreakAssumption DEF Inv
<1>1. TypeOK'
    BY <1>0 DEF TypeOK, Rollback, Stages
<1>2. \A e \in Confirmed : donation'[e] = "confirmed" /\ made'[e] = made[e]
    BY <1>0 DEF Confirmed, Rollback, TypeOK
<1> QED
    BY <1>1, <1>2, DonationsMove DEF Rollback

LEMMA RequestRecomputeStep ==
    ASSUME Inv, NEW t \in Tasks, RequestRecompute(t) PROVE Inv'
<1>0. TypeOK
    BY DEF Inv
<1>1. /\ task' \in [Tasks -> Recomputations \cup {None}]
      /\ \A u \in Tasks : Computed(u)' => task'[u] = task[u]
    BY <1>0, NewTask DEF RequestRecompute
<1>2. TypeOK'
    BY <1>0, <1>1 DEF TypeOK, RequestRecompute
<1> QED
    BY <1>1, <1>2, DonationsMove DEF RequestRecompute, Confirmed

LEMMA TaskEndsStep ==
    ASSUME Inv, NEW t \in Tasks, InsertFails(t) \/ Raise(t) PROVE Inv'
<1>0. TypeOK /\ MaxFaults \in Nat
    BY StreakAssumption DEF Inv
<1>1. TypeOK' /\ task' = [task EXCEPT ![t] = None]
    BY <1>0 DEF TypeOK, InsertFails, Raise
<1>2. \A u \in Tasks : Computed(u)' => task'[u] = task[u]
    BY <1>0, <1>1 DEF TypeOK, Computed, At
<1> QED
    BY <1>1, <1>2, DonationsMove DEF InsertFails, Raise, Confirmed

-----------------------------------------------------------------------------
(* The streak: the recomputation.                                          *)

\* What a task knows is about one state of the donations.
LEMMA SameDonations ==
    ASSUME UNCHANGED <<made, donation>>, NEW t \in Tasks
    PROVE  /\ Confirmed' = Confirmed
           /\ MonthsOf(Confirmed)' = MonthsOf(Confirmed)
           /\ MonthsOf(task[t].seen)' = MonthsOf(task'[t].seen)
           /\ ComputeStreak(task[t].seen)' = ComputeStreak(task'[t].seen)
BY DEF Confirmed, MonthsOf, ComputeStreak

LEMMA ReadDonationsStep ==
    ASSUME Inv, NEW t \in Tasks, ReadDonations(t) PROVE Inv'
<1> USE DEF Inv
<1> DEFINE k == [step |-> "computed", month |-> task[t].month, seen |-> Confirmed,
                 state |-> ComputeStreak(Confirmed), alone |-> TRUE]
<1>0. /\ task[t] \in Recomputations /\ At(t, "scheduled")
      /\ UNCHANGED <<now, made, donation, row, rewards, faults>>
    BY DEF TypeOK, ReadDonations, At
<1>1. task' = [task EXCEPT ![t] = k]
    BY DEF ReadDonations, Seen
<1>2. /\ ComputeStreak(Confirmed) \in Streaks
      /\ Exact(ComputeStreak(Confirmed), Confirmed)
    BY ConfirmedDated, StreakIsExact
<1>3. k \in Recomputations
    <2>1. task[t].month \in Nat /\ Confirmed \in SUBSET Donations
        BY <1>0, Scheduled DEF Confirmed
    <2> QED
        BY <1>2, <2>1 DEF Recomputations
<1>4. TypeOK'
    BY <1>0, <1>1, <1>3 DEF TypeOK
<1>5. /\ task'[t] = k /\ k.step = "computed"
      /\ k.seen = Confirmed /\ k.state = ComputeStreak(Confirmed)
    BY <1>1 DEF TypeOK
<1> HIDE DEF k
<1>6. \A u \in Tasks : u # t => task'[u] = task[u]
    BY <1>1 DEF TypeOK
<1>7. /\ ~At(t, "loaded")'
      /\ \A u \in Tasks : u # t =>
            (Computed(u)' <=> Computed(u)) /\ (At(u, "loaded")' <=> At(u, "loaded"))
    BY <1>5, <1>6 DEF Computed, At
<1>8. FromConfirmed'
    <2> SUFFICES ASSUME NEW u \in Tasks, Computed(u)'
                 PROVE  /\ task'[u].seen \subseteq Confirmed'
                        /\ task'[u].state = ComputeStreak(task[u].seen)'
        BY DEF FromConfirmed
    <2>1. Confirmed' = Confirmed /\ ComputeStreak(task[u].seen)' = ComputeStreak(task'[u].seen)
        BY <1>0, SameDonations
    <2>2. CASE u = t
        BY <1>5, <2>1, <2>2
    <2>3. CASE u # t
        BY <1>6, <1>7, <2>1, <2>3 DEF FromConfirmed
    <2> QED
        BY <2>2, <2>3
<1>9. Undisturbed'
    <2> SUFFICES ASSUME NEW u \in Tasks, Computed(u)', task'[u].alone
                 PROVE  /\ row' # None => row'.longest <= LongestSpan(MonthsOf(task[u].seen)')
                        /\ At(u, "loaded")' => task'[u].loaded = row'
        BY DEF Undisturbed
    <2>1. MonthsOf(task[u].seen)' = MonthsOf(task'[u].seen)
        BY <1>0, SameDonations
    <2>2. CASE u = t
        BY <1>0, <1>5, <1>7, <2>1, <2>2 DEF NothingUnearned
    <2>3. CASE u # t
        BY <1>0, <1>6, <1>7, <2>1, <2>3 DEF Undisturbed
    <2> QED
        BY <2>2, <2>3
<1>10. RowStays'
    <2> SUFFICES ASSUME NEW u \in Tasks, At(u, "loaded")', task'[u].loaded # None
                 PROVE  row' # None
        BY DEF RowStays
    <2>1. u # t
        BY <1>7
    <2> QED
        BY <1>0, <1>6, <1>7, <2>1 DEF RowStays
<1>11. NothingUnearned'
    <2>1. Confirmed' = Confirmed /\ MonthsOf(Confirmed)' = MonthsOf(Confirmed)
        BY <1>0, SameDonations
    <2> QED
        BY <1>0, <2>1 DEF NothingUnearned
<1> QED
    BY <1>4, <1>8, <1>9, <1>10, <1>11

LEMMA ReadRowStep ==
    ASSUME Inv, NEW t \in Tasks, ReadRow(t) PROVE Inv'
<1> USE DEF Inv
<1> DEFINE k == [step |-> "loaded", month |-> task[t].month, seen |-> task[t].seen,
                 state |-> task[t].state, alone |-> task[t].alone, loaded |-> row]
<1>0. /\ Computed(t) /\ At(t, "computed")
      /\ UNCHANGED <<now, made, donation, row, rewards, faults>>
    BY DEF ReadRow, Computed
<1>1. task' = [task EXCEPT ![t] = k]
    BY DEF ReadRow
<1>2. k \in Recomputations
    <2>1. /\ task[t].month \in Nat /\ task[t].seen \in SUBSET Donations
          /\ task[t].state \in Streaks /\ task[t].alone \in BOOLEAN
        BY <1>0, ComputedType
    <2> QED
        BY <2>1 DEF TypeOK, Recomputations
<1>3. TypeOK'
    BY <1>0, <1>1, <1>2 DEF TypeOK
<1>4. /\ task'[t] = k /\ k.seen = task[t].seen /\ k.state = task[t].state
      /\ k.alone = task[t].alone /\ k.loaded = row
    BY <1>1 DEF TypeOK
<1> HIDE DEF k
<1>5. \A u \in Tasks : u # t => task'[u] = task[u]
    BY <1>1 DEF TypeOK
<1>6. ASSUME NEW u \in Tasks, Computed(u)'
      PROVE  Computed(u) /\ (u # t => (At(u, "loaded")' <=> At(u, "loaded")))
    BY <1>0, <1>5, <1>6 DEF Computed, At
<1>7. FromConfirmed'
    <2> SUFFICES ASSUME NEW u \in Tasks, Computed(u)'
                 PROVE  /\ task'[u].seen \subseteq Confirmed'
                        /\ task'[u].state = ComputeStreak(task[u].seen)'
        BY DEF FromConfirmed
    <2>1. Confirmed' = Confirmed /\ ComputeStreak(task[u].seen)' = ComputeStreak(task'[u].seen)
        BY <1>0, SameDonations
    <2>2. task'[u].seen = task[u].seen /\ task'[u].state = task[u].state
        BY <1>4, <1>5
    <2>3. Computed(u)
        BY <1>6
    <2>4. task[u].seen \subseteq Confirmed /\ task[u].state = ComputeStreak(task[u].seen)
        BY <2>3 DEF FromConfirmed
    <2> QED
        BY <2>1, <2>2, <2>4
<1>8. Undisturbed'
    <2> SUFFICES ASSUME NEW u \in Tasks, Computed(u)', task'[u].alone
                 PROVE  /\ row' # None => row'.longest <= LongestSpan(MonthsOf(task[u].seen)')
                        /\ At(u, "loaded")' => task'[u].loaded = row'
        BY DEF Undisturbed
    <2>1. MonthsOf(task[u].seen)' = MonthsOf(task'[u].seen)
        BY <1>0, SameDonations
    <2>2. task'[u].seen = task[u].seen /\ task'[u].alone = task[u].alone
        BY <1>4, <1>5
    <2>3. Computed(u) /\ (u # t => (At(u, "loaded")' <=> At(u, "loaded")))
        BY <1>6
    <2>4. /\ row # None => row.longest <= LongestSpan(MonthsOf(task[u].seen))
          /\ At(u, "loaded") => task[u].loaded = row
        BY <2>2, <2>3 DEF Undisturbed
    <2>5. row' = row
        BY <1>0
    <2>6. CASE u = t
        BY <1>4, <2>1, <2>2, <2>4, <2>5, <2>6
    <2>7. CASE u # t
        BY <1>5, <2>1, <2>2, <2>3, <2>4, <2>5, <2>7
    <2> QED
        BY <2>6, <2>7
<1>9. RowStays'
    <2> SUFFICES ASSUME NEW u \in Tasks, At(u, "loaded")', task'[u].loaded # None
                 PROVE  row' # None
        BY DEF RowStays
    <2>1. row' = row
        BY <1>0
    <2>2. CASE u = t
        BY <1>4, <2>1, <2>2
    <2>3. CASE u # t
        <3>1. At(u, "loaded") /\ task'[u] = task[u]
            BY <1>5, <2>3 DEF At
        <3> QED
            BY <2>1, <3>1 DEF RowStays
    <2> QED
        BY <2>2, <2>3
<1>10. NothingUnearned'
    <2>1. Confirmed' = Confirmed /\ MonthsOf(Confirmed)' = MonthsOf(Confirmed)
        BY <1>0, SameDonations
    <2> QED
        BY <1>0, <2>1 DEF NothingUnearned
<1> QED
    BY <1>3, <1>7, <1>8, <1>9, <1>10

\* A column takes the value assigned to it or keeps the one it has; so also when
\* another task has written since the row was loaded.
LEMMA WriteIs ==
    ASSUME Inv, NEW t \in Tasks, WriteRow(t)
    PROVE  /\ row' \in Streaks
           /\ row'.longest <= LongestSpan(MonthsOf(Confirmed))
           /\ row'.total <= Cardinality(Confirmed)
           /\ task[t].alone => Exact(row', task[t].seen)
<1> USE DEF Inv
<1> DEFINE k == task[t]
           M == MonthsOf(k.seen)
           a == Assigned(k)
<1>0. /\ At(t, "loaded") /\ (k.loaded = None => row = None)
      /\ row' = Written(k) /\ k.loaded \in Streaks \cup {None}
      /\ Computed(t)
    BY LoadedType DEF WriteRow
<1>1. k.seen \subseteq Confirmed /\ k.state = ComputeStreak(k.seen)
    BY <1>0 DEF FromConfirmed
<1>2. Dated(Confirmed) /\ Dated(k.seen)
    BY <1>1, ConfirmedDated DEF Dated
<1>3. /\ k.state \in Streaks
      /\ Exact(k.state, k.seen)
    BY <1>1, <1>2, StreakIsExact
<1>4. k.state.longest = LongestSpan(M) /\ k.state.total = Cardinality(k.seen)
    BY <1>3 DEF Exact
<1>5. /\ LongestSpan(M) \in Nat /\ LongestSpan(MonthsOf(Confirmed)) \in Nat
      /\ LongestSpan(M) <= LongestSpan(MonthsOf(Confirmed))
      /\ Cardinality(k.seen) \in Nat /\ Cardinality(Confirmed) \in Nat
      /\ Cardinality(k.seen) <= Cardinality(Confirmed)
    <2>1. M \in SUBSET MonthsOf(Confirmed)
        BY <1>1 DEF MonthsOf
    <2>2. /\ IsFiniteSet(MonthsOf(Confirmed)) /\ IsFiniteSet(Confirmed)
          /\ Cardinality(k.seen) \in Nat /\ Cardinality(Confirmed) \in Nat
        BY <1>2, MonthsFinite
    <2>3. Cardinality(k.seen) <= Cardinality(Confirmed)
        BY <1>1, <2>2, FS_Subset
    <2> HIDE DEF M
    <2> QED
        BY <2>1, <2>2, <2>3, MoreIsNoLess
<1>6. PreviousLongest(k) \in Nat
    BY <1>0 DEF PreviousLongest, Streaks
<1>7. /\ a \in Streaks /\ a.current = k.state.current /\ a.last = k.state.last
      /\ a.total = k.state.total /\ a.tier = k.state.tier
      /\ a.longest = IF k.state.longest >= PreviousLongest(k) THEN k.state.longest
                     ELSE PreviousLongest(k)
    <2>1. k.state.longest \in Nat
        BY <1>3 DEF Streaks
    <2>2. Max({k.state.longest, PreviousLongest(k)}) =
              IF k.state.longest >= PreviousLongest(k) THEN k.state.longest
              ELSE PreviousLongest(k)
        BY <1>6, <2>1, LargerOf
    <2> HIDE DEF k
    <2> QED
        BY <1>3, <1>6, <2>1, <2>2 DEF Assigned, Streaks
<1> HIDE DEF a, M, k
<1>8. CASE k.loaded = None
    <2>1. row' = a
        BY <1>0, <1>8 DEF Written, a
    <2>2. PreviousLongest(k) = 0
        BY <1>8 DEF PreviousLongest
    <2>3. a.longest = k.state.longest
        BY <1>4, <1>5, <1>7, <2>2
    <2>4. Exact(a, k.seen)
        BY <1>3, <1>7, <2>3 DEF Exact
    <2> QED
        BY <1>4, <1>5, <1>7, <2>1, <2>3, <2>4 DEF k
<1>9. CASE k.loaded # None
    <2>0. k.loaded \in Streaks /\ row \in Streaks /\ row # None
        BY <1>0, <1>9 DEF RowStays, TypeOK, k
    <2>1. row' = [c \in DOMAIN row |-> IF a[c] # k.loaded[c] THEN a[c] ELSE row[c]]
        BY <1>0, <1>9 DEF Written, a
    <2>2. DOMAIN row = {"current", "longest", "last", "total", "tier"}
        BY <2>0 DEF Streaks
    <2>3. /\ row'.current = IF a.current # k.loaded.current THEN a.current ELSE row.current
          /\ row'.longest = IF a.longest # k.loaded.longest THEN a.longest ELSE row.longest
          /\ row'.last = IF a.last # k.loaded.last THEN a.last ELSE row.last
          /\ row'.total = IF a.total # k.loaded.total THEN a.total ELSE row.total
          /\ row'.tier = IF a.tier # k.loaded.tier THEN a.tier ELSE row.tier
        BY <2>1, <2>2
    <2>4. row' = [current |-> row'.current, longest |-> row'.longest, last |-> row'.last,
                  total |-> row'.total, tier |-> row'.tier]
        BY <2>1, <2>2
    <2>5. row' \in Streaks
        <3>1. /\ row'.current \in Nat /\ row'.longest \in Nat /\ row'.total \in Nat
              /\ row'.tier \in Nat
              /\ row'.last \in {None} \cup [year : Nat, month : 1 .. 12]
            BY <1>7, <2>0, <2>3 DEF Streaks
        <3> QED
            BY <2>4, <3>1 DEF Streaks
    <2>6. PreviousLongest(k) = k.loaded.longest
        BY <1>9 DEF PreviousLongest
    <2>7. row.longest <= LongestSpan(MonthsOf(Confirmed)) /\ row.total <= Cardinality(Confirmed)
        BY <2>0 DEF NothingUnearned
    <2>8. /\ row'.longest <= LongestSpan(MonthsOf(Confirmed))
          /\ row'.total <= Cardinality(Confirmed)
        BY <1>4, <1>5, <1>7, <2>3, <2>6, <2>7
    <2>9. ASSUME k.alone PROVE Exact(row', k.seen)
        <3>1. k.loaded = row /\ row.longest <= LongestSpan(M)
            BY <1>0, <2>0, <2>9 DEF Undisturbed, k, M
        <3>2. row.longest \in Nat
            BY <2>0 DEF Streaks
        <3>3. a.longest = k.state.longest
            BY <1>4, <1>5, <1>7, <2>6, <3>1, <3>2
        <3>4. /\ row'.current = k.state.current /\ row'.longest = k.state.longest
              /\ row'.last = k.state.last /\ row'.total = k.state.total
              /\ row'.tier = k.state.tier
            BY <1>7, <2>3, <3>1, <3>3
        <3> QED
            BY <1>3, <3>4 DEF Exact
    <2> QED
        BY <2>5, <2>8, <2>9 DEF k
<1> QED
    BY <1>8, <1>9

LEMMA WriteRowStep ==
    ASSUME Inv, NEW t \in Tasks, WriteRow(t) PROVE Inv'
<1> USE DEF Inv
<1> DEFINE k == task[t]
<1>0. /\ Computed(t) /\ row' \in Streaks /\ row' # None
      /\ UNCHANGED <<now, made, donation, faults>>
    BY WriteIs, RowAssumption DEF WriteRow, Computed
<1>1. /\ task' \in [Tasks -> Recomputations \cup {None}]
      /\ \A u \in Tasks : Computed(u)' =>
            /\ Computed(u) /\ task'[u].seen = task[u].seen
            /\ task'[u].state = task[u].state /\ task'[u].alone = FALSE
    <2>1. task' = [u \in Tasks |->
                      IF u = t THEN None
                      ELSE IF At(u, "computed") \/ At(u, "loaded")
                      THEN [task[u] EXCEPT !.alone = FALSE]
                      ELSE task[u]]
        BY DEF WriteRow
    <2>2. ASSUME NEW u \in Tasks, Computed(u)
          PROVE  [task[u] EXCEPT !.alone = FALSE] \in Recomputations
        BY <2>2 DEF TypeOK, Computed, At, Recomputations
    <2>3. ASSUME NEW u \in Tasks PROVE task'[u] \in Recomputations \cup {None}
        BY <2>1, <2>2, <2>3 DEF TypeOK, Computed
    <2>4. ASSUME NEW u \in Tasks, Computed(u)'
          PROVE  /\ Computed(u) /\ task'[u].seen = task[u].seen
                 /\ task'[u].state = task[u].state /\ task'[u].alone = FALSE
        <3>1. u # t
            BY <2>1, <2>4 DEF Computed, At
        <3>2. Computed(u)
            BY <2>1, <2>4, <3>1 DEF Computed, At
        <3>3. task'[u] = [task[u] EXCEPT !.alone = FALSE]
            BY <2>1, <3>1, <3>2 DEF Computed
        <3> QED
            BY <3>2, <3>3 DEF TypeOK, Computed, At, Recomputations
    <2> QED
        BY <2>1, <2>3, <2>4
<1>2. /\ Confirmed' = Confirmed /\ MonthsOf(Confirmed)' = MonthsOf(Confirmed)
      /\ \A u \in Tasks : ComputeStreak(task[u].seen)' = ComputeStreak(task'[u].seen)
    BY <1>0, SameDonations
<1>3. Unlocked(k) \subseteq DOMAIN Thresholds
      /\ \A i \in Unlocked(k) : LongestSpan(MonthsOf(Confirmed)) >= Thresholds[i]
    <2>1. k.seen \subseteq Confirmed /\ k.state = ComputeStreak(k.seen)
        BY <1>0 DEF FromConfirmed
    <2>2. Dated(Confirmed) /\ Dated(k.seen)
        BY <2>1, ConfirmedDated DEF Dated
    <2>3. /\ k.state \in Streaks /\ Exact(k.state, k.seen)
          /\ k.state.current <= k.state.longest
        BY <2>1, <2>2, StreakIsExact
    <2>4. /\ LongestSpan(MonthsOf(k.seen)) \in Nat /\ LongestSpan(MonthsOf(Confirmed)) \in Nat
          /\ LongestSpan(MonthsOf(k.seen)) <= LongestSpan(MonthsOf(Confirmed))
        <3>1. MonthsOf(k.seen) \in SUBSET MonthsOf(Confirmed)
            BY <2>1 DEF MonthsOf
        <3>2. IsFiniteSet(MonthsOf(Confirmed))
            BY <2>2, MonthsFinite
        <3> QED
            BY <3>1, <3>2, MoreIsNoLess
    <2> SUFFICES ASSUME NEW i \in Unlocked(k)
                 PROVE  LongestSpan(MonthsOf(Confirmed)) >= Thresholds[i]
        BY DEF Unlocked
    <2>5. i \in DOMAIN Thresholds /\ i <= k.state.tier
        BY DEF Unlocked
    <2>6. i \in Nat /\ Thresholds[i] \in Nat /\ k.state.tier \in Nat
        BY <2>3, <2>5, StreakAssumption DEF Streaks
    <2>7. k.state.current >= Thresholds[i]
        BY <2>3, <2>5, <2>6 DEF Exact
    <2>8. k.state.longest = LongestSpan(MonthsOf(k.seen)) /\ k.state.current \in Nat
        BY <2>3 DEF Exact, Streaks
    <2> QED
        BY <2>3, <2>4, <2>6, <2>7, <2>8
<1>4. TypeOK'
    <2>1. rewards' \subseteq DOMAIN Thresholds
        BY <1>3 DEF TypeOK, WriteRow
    <2> QED
        BY <1>0, <1>1, <2>1 DEF TypeOK
<1>5. FromConfirmed'
    <2> SUFFICES ASSUME NEW u \in Tasks, Computed(u)'
                 PROVE  /\ task'[u].seen \subseteq Confirmed'
                        /\ task'[u].state = ComputeStreak(task[u].seen)'
        BY DEF FromConfirmed
    <2>1. Computed(u) /\ task'[u].seen = task[u].seen /\ task'[u].state = task[u].state
        BY <1>1
    <2>2. task[u].seen \subseteq Confirmed /\ task[u].state = ComputeStreak(task[u].seen)
        BY <2>1 DEF FromConfirmed
    <2> QED
        BY <1>2, <2>1, <2>2
<1>6. Undisturbed'
    <2> SUFFICES ASSUME NEW u \in Tasks, Computed(u)', task'[u].alone
                 PROVE  FALSE
        BY DEF Undisturbed
    <2> QED
        BY <1>1
<1>7. RowStays'
    BY <1>0 DEF RowStays
<1>8. NothingUnearned'
    <2>1. rewards' = rewards \cup Unlocked(k)
        BY DEF WriteRow
    <2>2. /\ row'.longest <= LongestSpan(MonthsOf(Confirmed))
          /\ row'.total <= Cardinality(Confirmed)
        BY WriteIs
    <2> HIDE DEF k
    <2> QED
        BY <1>2, <1>3, <2>1, <2>2 DEF NothingUnearned
<1> QED
    BY <1>4, <1>5, <1>6, <1>7, <1>8

-----------------------------------------------------------------------------

LEMMA InvStep == Inv /\ [Next]_vars => Inv'
<1> SUFFICES ASSUME Inv, [Next]_vars PROVE Inv'
    OBVIOUS
<1>1. CASE UNCHANGED vars
    <2>1. TypeOK'
        BY <1>1 DEF Inv, TypeOK, vars
    <2> QED
        BY <1>1, <2>1, DonationsMove DEF vars, Confirmed
<1>2. CASE NextMonth
    BY <1>2, NextMonthStep
<1>3. ASSUME NEW d \in Donations, NEW t \in Tasks, InsertConfirmed(d, t) \/ FlushConfirmation(d, t)
      PROVE  Inv'
    BY <1>3, InsertConfirmedStep, FlushConfirmationStep
<1>4. ASSUME NEW d \in Donations, InsertUnconfirmed(d) \/ Commit(d) \/ Rollback(d) PROVE Inv'
    BY <1>4, InsertUnconfirmedStep, CommitStep, RollbackStep
<1>5. ASSUME NEW t \in Tasks, RequestRecompute(t) \/ InsertFails(t) \/ Raise(t) PROVE Inv'
    BY <1>5, RequestRecomputeStep, TaskEndsStep
<1>6. ASSUME NEW t \in Tasks, ReadDonations(t) \/ ReadRow(t) \/ WriteRow(t) PROVE Inv'
    BY <1>6, ReadDonationsStep, ReadRowStep, WriteRowStep
<1> QED
    BY <1>1, <1>2, <1>3, <1>4, <1>5, <1>6 DEF Next

LEMMA Invariance == Spec => []Inv
<1> QED
    BY InitInv, InvStep, PTL DEF Spec

-----------------------------------------------------------------------------
(* The streak: the theorems.                                               *)

\* The streak's state keeps its shape (all of service.py and listener.py).
THEOREM StreakTypeCorrect == Spec => []TypeOK
<1>1. Inv => TypeOK
    BY DEF Inv
<1> QED
    BY <1>1, Invariance, PTL

\* No tier is unlocked and no longest streak or total is shown that committed
\* donations do not bear out, whichever tasks overlap.
THEOREM StreaksAreEarned == Spec => []NothingUnearned
<1>1. Inv => NothingUnearned
    BY DEF Inv
<1> QED
    BY <1>1, Invariance, PTL

\* A recomputation during which no other one wrote leaves exactly the streak of
\* the donations it read, whatever months they were made in.
THEOREM LoneTaskIsExact == Spec => LoneRecomputeIsExact
<1>1. ASSUME Inv, NEW t \in Tasks, WriteRow(t), task[t].alone
      PROVE  Exact(row', task[t].seen)
    BY <1>1, WriteIs
<1>2. Inv => [\A t \in Tasks : WriteRow(t) /\ task[t].alone => Exact(row', task[t].seen)]_vars
    BY <1>1
<1> QED
    BY <1>2, Invariance, PTL DEF LoneRecomputeIsExact, Spec

-----------------------------------------------------------------------------
(* The audit: sums over finite sets.                                       *)

\* What holds of a set whenever it holds of the set less any element holds of
\* every finite set.
LEMMA SetInduction ==
    ASSUME NEW S, IsFiniteSet(S), NEW X,
           \A T \in SUBSET S : (\A x \in T : T \ {x} \in X) => T \in X
    PROVE  S \in X
<1> DEFINE F == FiniteSubsetsOf(S)
           R == StrictSubsetOrdering(S)
           Bad == (SUBSET S) \ X
<1>1. F = SUBSET S /\ IsWellFoundedOn(R, F)
    BY FS_FiniteSubsetsOfFinite, FS_StrictSubsetOrderingWellFounded
<1> SUFFICES ASSUME S \notin X
             PROVE  FALSE
    OBVIOUS
<1>2. Bad \subseteq F /\ Bad # {}
    BY <1>1
<1> HIDE DEF F, R
<1>3. PICK T \in Bad : \A U \in Bad : <<U, T>> \notin R
    BY <1>1, <1>2, WFMin
<1>4. PICK x \in T : T \ {x} \notin X
    BY <1>3
<1>5. <<T \ {x}, T>> \in R
    BY <1>3, <1>4 DEF R, StrictSubsetOrdering
<1> QED
    BY <1>3, <1>4, <1>5

\* The fold that SumFunctionOnSet unfolds to, one step of it and the whole.
SumStep(f, g, s) ==
    IF s = {} THEN 0
    ELSE LET x == CHOOSE x \in s : TRUE IN f[x] + g[s \ {x}]

SumOver(f, S) == CHOOSE g : g = [s \in SUBSET S |-> SumStep(f, g, s)]

LEMMA SumIsSumOver ==
    ASSUME NEW f, NEW S
    PROVE  SumFunctionOnSet(f, S) = SumOver(f, S)[S]
BY Zenon DEF SumFunctionOnSet, FoldFunctionOnSet, MapThenFoldSet, SumOver, SumStep

\* The fold is a function: each step takes a smaller set.
LEMMA SumOverExists ==
    ASSUME NEW f, NEW S, IsFiniteSet(S)
    PROVE  \E g : g = [s \in SUBSET S |-> SumStep(f, g, s)]
<1> DEFINE D(n) == {s \in SUBSET S : Cardinality(s) <= n}
           X == {n \in Nat : \E g : g = [s \in D(n) |-> SumStep(f, g, s)]}
<1>1. \A s \in SUBSET S : /\ IsFiniteSet(s) /\ Cardinality(s) \in Nat
                          /\ Cardinality(s) <= Cardinality(S)
                          /\ Cardinality(s) = 0 => s = {}
    BY FS_Subset, FS_CardinalityType, FS_EmptySet
<1>2. \A s \in SUBSET S : \A x \in s : Cardinality(s \ {x}) = Cardinality(s) - 1
    BY <1>1, FS_RemoveElement
<1>3. 0 \in X
  <2>1. \A s \in D(0) : s = {}
      BY <1>1
  <2>2. [s \in D(0) |-> 0] = [s \in D(0) |-> SumStep(f, [t \in D(0) |-> 0], s)]
      BY <2>1 DEF SumStep
  <2> QED
      BY <2>2
<1>4. ASSUME NEW n \in Nat, n \in X
      PROVE  n + 1 \in X
  <2>1. PICK g : g = [s \in D(n) |-> SumStep(f, g, s)]
      BY <1>4
  <2> DEFINE h == [s \in D(n + 1) |-> SumStep(f, g, s)]
  <2>2. \A s \in D(n) : s \in D(n + 1) /\ h[s] = g[s]
    <3>1. D(n) \subseteq D(n + 1)
        BY <1>1
    <3> QED
        BY <2>1, <3>1
  <2>3. ASSUME NEW s \in D(n + 1)
        PROVE  SumStep(f, g, s) = SumStep(f, h, s)
    <3>1. CASE s = {}
        BY <3>1 DEF SumStep
    <3>2. CASE s # {}
      <4>s. s \in SUBSET S /\ Cardinality(s) <= n + 1
          OBVIOUS
      <4> DEFINE x == CHOOSE x \in s : TRUE
      <4>1. x \in s
          BY <3>2
      <4> HIDE DEF x
      <4>2. s \ {x} \in D(n)
        <5>1. s \ {x} \in SUBSET S /\ Cardinality(s) \in Nat
            BY <1>1, <4>s
        <5>2. Cardinality(s \ {x}) = Cardinality(s) - 1
            BY <1>2, <4>1, <4>s
        <5>3. Cardinality(s \ {x}) <= n
            BY <4>s, <5>1, <5>2
        <5> QED
            BY <5>1, <5>3
      <4>3. g[s \ {x}] = h[s \ {x}]
          BY <2>2, <4>2
      <4> QED
          BY <3>2, <4>3 DEF SumStep, x
    <3> QED
        BY <3>1, <3>2
  <2>4. h = [s \in D(n + 1) |-> SumStep(f, h, s)]
      BY <2>3
  <2> HIDE DEF h, D
  <2>5. \E k : k = [s \in D(n + 1) |-> SumStep(f, k, s)]
      BY <2>4
  <2> QED
      BY <2>5
<1>5. Cardinality(S) \in Nat
    BY FS_CardinalityType
<1> HIDE DEF D, X
<1>6. Cardinality(S) \in X
    BY <1>3, <1>4, <1>5, Induction
<1>7. D(Cardinality(S)) = SUBSET S
    BY <1>1 DEF D
<1> QED
    BY <1>6, <1>7 DEF X

\* So it satisfies its recursive equation.
LEMMA SumOverStep ==
    ASSUME NEW f, NEW S, IsFiniteSet(S), NEW s \in SUBSET S
    PROVE  SumOver(f, S)[s] = SumStep(f, SumOver(f, S), s)
<1>1. SumOver(f, S) = [t \in SUBSET S |-> SumStep(f, SumOver(f, S), t)]
    BY SumOverExists DEF SumOver
<1> QED
    BY <1>1

\* A sum of naturals is a natural.
LEMMA SumNat ==
    ASSUME NEW S, IsFiniteSet(S), NEW f, \A x \in S : f[x] \in Nat
    PROVE  SumFunctionOnSet(f, S) \in Nat
<1> DEFINE X == {T \in SUBSET S : SumOver(f, S)[T] \in Nat}
<1>1. ASSUME NEW T \in SUBSET S, \A x \in T : T \ {x} \in X
      PROVE  T \in X
    <2>1. SumOver(f, S)[T] = SumStep(f, SumOver(f, S), T)
        <3>1. SumOver(f, S) = [s \in SUBSET S |-> SumStep(f, SumOver(f, S), s)]
            BY SumOverExists DEF SumOver
        <3> QED
            BY <3>1
    <2>2. CASE T = {}
        BY <2>1, <2>2 DEF SumStep
    <2>3. CASE T # {}
        <3> DEFINE x == CHOOSE x \in T : TRUE
        <3>1. x \in T
            BY <2>3
        <3>2. SumOver(f, S)[T] = f[x] + SumOver(f, S)[T \ {x}]
            BY <2>1, <2>3 DEF SumStep
        <3> HIDE DEF x
        <3>3. f[x] \in Nat /\ SumOver(f, S)[T \ {x}] \in Nat
            BY <1>1, <3>1
        <3> QED
            BY <3>2, <3>3
    <2> QED
        BY <2>2, <2>3
<1> HIDE DEF X
<1>2. S \in X
    BY <1>1, SetInduction
<1> QED
    BY <1>2, SumIsSumOver DEF X

-----------------------------------------------------------------------------
(* The audit: what the rules and the model come to.                        *)

\* Everything the rules may find.
KnownHits ==
    {Hit("vague_purpose", Medium, 25), Hit("vague_purpose", Low, 15),
     Hit("spending_variance", High, 25), Hit("spending_variance", Medium, 12),
     Hit("request_velocity", High, 20), Hit("missing_receipts", Medium, 20),
     Hit("prior_open_flags", Medium, 15)}

KnownFlags ==
    {Flag("vague_purpose", Medium), Flag("vague_purpose", Low),
     Flag("spending_variance", High), Flag("spending_variance", Medium),
     Flag("request_velocity", High), Flag("missing_receipts", Medium),
     Flag("prior_open_flags", Medium)}

\* Seven things are finitely many.
LEMMA SevenFinite ==
    ASSUME NEW a, NEW b, NEW c, NEW d, NEW e, NEW f, NEW g
    PROVE  IsFiniteSet({a, b, c, d, e, f, g})
<1>1. IsFiniteSet({a, b, c})
    <2>1. IsFiniteSet({a})
        BY FS_Singleton
    <2>2. IsFiniteSet({a} \cup {b})
        BY <2>1, FS_AddElement
    <2>3. IsFiniteSet(({a} \cup {b}) \cup {c})
        BY <2>2, FS_AddElement
    <2>4. {a, b, c} = ({a} \cup {b}) \cup {c}
        OBVIOUS
    <2> QED
        BY <2>3, <2>4
<1>2. IsFiniteSet({a, b, c} \cup {d})
    BY <1>1, FS_AddElement
<1>3. IsFiniteSet(({a, b, c} \cup {d}) \cup {e})
    BY <1>2, FS_AddElement
<1>4. IsFiniteSet((({a, b, c} \cup {d}) \cup {e}) \cup {f})
    BY <1>3, FS_AddElement
<1>5. IsFiniteSet(((({a, b, c} \cup {d}) \cup {e}) \cup {f}) \cup {g})
    BY <1>4, FS_AddElement
<1>6. {a, b, c, d, e, f, g} = ((({a, b, c} \cup {d}) \cup {e}) \cup {f}) \cup {g}
    OBVIOUS
<1> QED
    BY <1>5, <1>6

LEMMA HitsKnown ==
    ASSUME NEW f
    PROVE  /\ Hits(f) \subseteq KnownHits /\ IsFiniteSet(Hits(f))
           /\ RuleFlags(f) \subseteq FlagKinds /\ IsFiniteSet(RuleFlags(f))
<1>1. /\ VaguePurpose(f) \subseteq KnownHits
      /\ Velocity(f) \subseteq KnownHits
      /\ MissingReceipts(f) \subseteq KnownHits
      /\ PriorFlags(f) \subseteq KnownHits
    BY DEF VaguePurpose, Velocity, MissingReceipts, PriorFlags, KnownHits
<1>2. Variance(f) \subseteq KnownHits
    BY DEF Variance, KnownHits
<1>3. Hits(f) \subseteq KnownHits
    BY <1>1, <1>2 DEF Hits
<1>4. \A h \in KnownHits : h.flag \in KnownFlags
    BY DEF KnownHits, KnownFlags, Hit, Flag
<1>5. RuleFlags(f) \subseteq KnownFlags
    BY <1>3, <1>4 DEF RuleFlags
<1>6. KnownFlags \subseteq FlagKinds
    BY DEF KnownFlags, FlagKinds, Flag, Low, Medium, High, Critical
<1>7. IsFiniteSet(KnownHits) /\ IsFiniteSet(KnownFlags)
    BY SevenFinite DEF KnownHits, KnownFlags
<1> QED
    BY <1>3, <1>5, <1>6, <1>7, FS_Subset

\* The smaller and the larger of two scores.
LEMMA SmallerOf ==
    ASSUME NEW a \in Int, NEW b \in Int
    PROVE  Min({a, b}) = IF a <= b THEN a ELSE b
<1>1. \E m \in {a, b} : \A y \in {a, b} : m <= y
    OBVIOUS
<1>2. /\ Min({a, b}) \in {a, b}
      /\ \A y \in {a, b} : Min({a, b}) <= y
    BY <1>1 DEF Min
<1> QED
    BY <1>2

LEMMA RuleScoreType ==
    ASSUME NEW f
    PROVE  RuleScore(f) \in 0 .. 100
<1> DEFINE H == Hits(f)
           p == [h \in H |-> h.points]
<1>1. IsFiniteSet(H) /\ \A h \in H : p[h] \in Nat
    <2>1. \A h \in KnownHits : h.points \in Nat
        BY DEF KnownHits, Hit
    <2> QED
        BY <2>1, HitsKnown
<1> HIDE DEF H, p
<1>2. SumFunctionOnSet(p, H) \in Nat
    BY <1>1, SumNat
<1>3. Points(H) \in Nat
    BY <1>2 DEF Points, p
<1>4. RuleScore(f) = Min({100, Points(H)})
    BY DEF RuleScore, H
<1>5. Min({100, Points(H)}) = IF 100 <= Points(H) THEN 100 ELSE Points(H)
    BY <1>3, SmallerOf
<1> QED
    BY <1>3, <1>4, <1>5

LEMMA LevelType ==
    ASSUME NEW n \in Int
    PROVE  ScoreToLevel(n) \in Low .. Critical
BY DEF ScoreToLevel, Low, Medium, High, Critical

\* A finite set has a list of its elements.
LEMMA ListOf ==
    ASSUME NEW S, IsFiniteSet(S), NEW U, S \subseteq U
    PROVE  SetToSeq(S) \in Seq(U)
<1> DEFINE n == Cardinality(S)
<1>1. n \in Nat /\ ExistsBijection(1 .. n, S)
    BY FS_CardinalityType
<1>2. \E f \in [1 .. n -> S] : IsInjective(f)
    BY <1>1 DEF ExistsBijection, Bijection, Injection
<1>3. SetToSeq(S) \in [1 .. n -> S]
    BY <1>2 DEF SetToSeq
<1>4. [1 .. n -> S] \subseteq [1 .. n -> U]
    OBVIOUS
<1> QED
    BY <1>1, <1>3, <1>4, SeqDef

\* A model's answer never comes to a lower score than the rules, whatever it
\* says, nor to a lower level unless the score is 100.
LEMMA MergedType ==
    ASSUME NEW f, NEW answer \in Answers \cup {NoAnswer}
    PROVE  /\ Merged(f, answer) \in Assessments
           /\ Merged(f, answer).score >= RuleScore(f)
           /\ Merged(f, answer).score < 100 =>
                 Merged(f, answer).level >= ScoreToLevel(RuleScore(f))
<1>1. RuleScore(f) \in 0 .. 100 /\ ScoreToLevel(RuleScore(f)) \in Low .. Critical
    BY RuleScoreType, LevelType
<1>2. CASE answer = NoAnswer
    <2>1. Merged(f, answer) = Rules(f)
        BY <1>2 DEF Merged
    <2>2. SetToSeq(RuleFlags(f)) \in Seq(FlagKinds)
        BY HitsKnown, ListOf
    <2> DEFINE score == RuleScore(f)
               level == ScoreToLevel(score)
               flags == SetToSeq(RuleFlags(f))
    <2>3. Rules(f) = [score |-> score, level |-> level, flags |-> flags]
        BY DEF Rules
    <2>4. score \in 0 .. 100 /\ level \in Low .. Critical /\ flags \in Seq(FlagKinds)
        BY <1>1, <2>2
    <2> HIDE DEF score, level, flags
    <2>5. Rules(f) \in Assessments
        BY <2>3, <2>4 DEF Assessments
    <2>6. Rules(f).score = score /\ Rules(f).level = level
        BY <2>3
    <2>7. score >= score /\ level >= level
        BY <2>4 DEF Low, Critical
    <2> QED
        BY <2>1, <2>5, <2>6, <2>7 DEF score, level
<1>3. CASE answer # NoAnswer
    <2> DEFINE higher == LowerBound(answer.score, RuleScore(f))
               score == Bounded(higher)
               level == DerivedLevel(higher)
               missing == Unnamed(f, answer.flags)
    <2>1. /\ answer.score \in Int \cup {NaN}
          /\ answer.level \in Low .. Critical
          /\ answer.flags \in Seq(FlagKinds)
        BY <1>3, RiskAssumption
    <2>2. \/ higher = NaN
          \/ higher \in Int /\ higher # NaN /\ higher >= RuleScore(f)
        <3>1. CASE answer.score = NaN
            BY <3>1 DEF LowerBound
        <3>2. CASE answer.score # NaN
            <4>1. RuleScore(f) \in Int /\ answer.score \in Int
                <5>1. answer.score \in Int
                    BY <2>1, <3>2, Zenon
                <5>2. RuleScore(f) \in Int
                    BY <1>1
                <5> QED
                    BY <5>1, <5>2
            <4>2. higher = Max({answer.score, RuleScore(f)})
                BY <3>2 DEF LowerBound
            <4>3. higher = IF answer.score >= RuleScore(f) THEN answer.score ELSE RuleScore(f)
                BY <4>1, <4>2, LargerOf
            <4>4. higher \in Int /\ higher >= RuleScore(f)
                BY <4>1, <4>3
            <4> QED
                BY <4>4, RiskAssumption
        <3> QED
            BY <3>1, <3>2
    <2> HIDE DEF higher
    <2>3. /\ score \in 0 .. 100 /\ score >= RuleScore(f)
          /\ level \in Low .. Critical
          /\ score < 100 => level >= ScoreToLevel(RuleScore(f))
        <3>1. CASE higher = NaN
            <4>1. score = 100 /\ level = Low
                BY <3>1 DEF Bounded, DerivedLevel
            <4> HIDE DEF score, level
            <4> QED
                BY <1>1, <4>1 DEF Low, Critical
        <3>2. CASE higher \in Int /\ higher # NaN /\ higher >= RuleScore(f)
            <4>1. score = Min({100, higher}) /\ level = ScoreToLevel(higher)
                BY <3>2 DEF Bounded, DerivedLevel
            <4>2. score = IF 100 <= higher THEN 100 ELSE higher
                BY <3>2, <4>1, SmallerOf
            <4> HIDE DEF score, level
            <4>3. score \in 0 .. 100 /\ score >= RuleScore(f)
                BY <1>1, <3>2, <4>2
            <4>4. ScoreToLevel(higher) \in Low .. Critical
                BY <3>2, LevelType
            <4>5. ScoreToLevel(higher) >= ScoreToLevel(RuleScore(f))
                BY <1>1, <3>2 DEF ScoreToLevel, Low, Medium, High, Critical
            <4> QED
                BY <4>1, <4>3, <4>4, <4>5
        <3> QED
            BY <2>2, <3>1, <3>2
    <2> HIDE DEF score, level
    <2>6. Max({answer.level, level}) \in Low .. Critical
        BY <2>1, <2>3, LargerOf DEF Low, Critical
    <2>7. score < 100 => Max({answer.level, level}) >= ScoreToLevel(RuleScore(f))
        BY <1>1, <2>1, <2>3, LargerOf DEF Low, Critical
    <2>8. missing \in Seq(FlagKinds)
        <3> DEFINE U == {r \in RuleFlags(f) :
                            \A i \in DOMAIN answer.flags : answer.flags[i].type # r.type}
        <3>1. U \subseteq RuleFlags(f) /\ IsFiniteSet(U) /\ U \subseteq FlagKinds
            BY HitsKnown, FS_Subset
        <3> HIDE DEF U
        <3>2. SetToSeq(U) \in Seq(FlagKinds)
            BY <3>1, ListOf
        <3> QED
            BY <3>2 DEF U, Unnamed
    <2> HIDE DEF missing
    <2>9. answer.flags \o missing \in Seq(FlagKinds)
        BY <2>1, <2>8, ConcatProperties
    <2>10. Merged(f, answer) = [score |-> score,
                                level |-> Max({answer.level, level}),
                                flags |-> answer.flags \o missing]
        BY <1>3 DEF Merged, score, level, higher, missing
    <2> QED
        BY <2>3, <2>6, <2>7, <2>9, <2>10 DEF Assessments
<1> QED
    BY <1>2, <1>3

\* The kinds of flags are finitely many.
LEMMA KindsFinite == IsFiniteSet(FlagKinds)
<1> DEFINE Types == {"vague_purpose", "missing_receipts", "prior_open_flags",
                     "spending_variance", "request_velocity"}
           Named == [type : Types, severity : Low .. Critical]
           Pairs == Types \X (Low .. Critical)
           g == [p \in Pairs |-> [type |-> p[1], severity |-> p[2]]]
<1>1. IsFiniteSet(Types)
    <2>1. IsFiniteSet({"vague_purpose", "missing_receipts", "prior_open_flags",
                       "spending_variance", "request_velocity",
                       "request_velocity", "request_velocity"})
        BY SevenFinite
    <2>2. Types = {"vague_purpose", "missing_receipts", "prior_open_flags",
                   "spending_variance", "request_velocity",
                   "request_velocity", "request_velocity"}
        OBVIOUS
    <2> QED
        BY <2>1, <2>2
<1>2. IsFiniteSet(Low .. Critical)
    <2>1. Low \in Int /\ Critical \in Int
        BY DEF Low, Critical
    <2> QED
        BY <2>1, FS_Interval
<1>3. IsFiniteSet(Pairs)
    BY <1>1, <1>2, FS_Product
<1>4. g \in [Pairs -> Named]
    OBVIOUS
<1>5. \A n \in Named : \E p \in Pairs : g[p] = n
    <2> SUFFICES ASSUME NEW n \in Named
                 PROVE  \E p \in Pairs : g[p] = n
        OBVIOUS
    <2>1. <<n.type, n.severity>> \in Pairs /\ g[<<n.type, n.severity>>] = n
        OBVIOUS
    <2> QED
        BY <2>1
<1> HIDE DEF g, Pairs, Named
<1>6. IsFiniteSet(Named)
    BY <1>3, <1>4, <1>5, FS_Surjection DEF Surjection
<1>7. FlagKinds = OtherFlags \cup Named
    BY DEF FlagKinds, Named
<1> QED
    BY <1>6, <1>7, RiskAssumption, FS_Union

-----------------------------------------------------------------------------
(* The audit: the invariant.                                               *)

\* The result's score is not below the rules', nor its level unless that is 100.
NotBelow(k) ==
    /\ k.result.score >= Rules(k.read).score
    /\ k.result.score < 100 => k.result.level >= Rules(k.read).level

\* What a scan has at hand when it saves.  Its result is not below the rules,
\* and unless it was disturbed the request still has the score and the level
\* that it loaded, and the flags it found open are those that are.
Sound(k) ==
    k.step \in {"loaded", "checked"} =>
        /\ NotBelow(k)
        /\ k.alone => k.loaded = cached
        /\ k.step = "checked" /\ k.alone => k.existing = {f \in FlagKinds : open[f] > 0}

ScansSound == \A s \in Scans : scan[s] # Nothing => Sound(scan[s])

AuditInv == AuditTypeOK /\ ScansSound

LEMMA AuditInitInv == AuditInit => AuditInv
<1> SUFFICES ASSUME AuditInit
             PROVE  AuditInv
    OBVIOUS
<1>1. cached \in CachedRisks
    BY DEF AuditInit, CachedRisks
<1>2. open \in [FlagKinds -> Nat] /\ decided \in [FlagKinds -> Nat]
    BY DEF AuditInit
<1> QED
    BY <1>1, <1>2 DEF AuditInit, AuditInv, AuditTypeOK, ScansSound

\* What a scan holds at each of its steps.
LEMMA BegunIs ==
    ASSUME AuditTypeOK, NEW s \in Scans, Reached(s, "begun")
    PROVE  scan[s] \in [step : {"begun"}, force : BOOLEAN]
BY DEF AuditTypeOK, Reached, Progress

LEMMA BuiltIs ==
    ASSUME AuditTypeOK, NEW s \in Scans, Reached(s, "built") \/ Reached(s, "asked")
    PROVE  scan[s] \in [step : {"built", "asked"}, force : BOOLEAN, read : Features]
BY DEF AuditTypeOK, Reached, Progress

LEMMA LoadedIs ==
    ASSUME AuditTypeOK, NEW s \in Scans, Reached(s, "loaded")
    PROVE  scan[s] \in [step : {"loaded"}, force : BOOLEAN, read : Features,
                        result : Assessments, loaded : CachedRisks, alone : BOOLEAN]
BY DEF AuditTypeOK, Reached, Progress

LEMMA CheckedIs ==
    ASSUME AuditTypeOK, NEW s \in Scans, Reached(s, "checked")
    PROVE  scan[s] \in [step : {"checked"}, force : BOOLEAN, read : Features,
                        result : Assessments, loaded : CachedRisks, alone : BOOLEAN,
                        existing : SUBSET FlagKinds]
BY DEF AuditTypeOK, Reached, Progress

\* The steps of one scan that save nothing.
LEMMA OneScanMoves ==
    ASSUME AuditInv, NEW s \in Scans, NEW k \in Progress, Sound(k),
           scan' = [scan EXCEPT ![s] = k],
           UNCHANGED <<purpose, live, old, crowded, cached, flagRows, assessed>>,
           status' \in {"new", "pending", "approved"}
    PROVE  AuditInv'
<1>1. AuditTypeOK'
    BY DEF AuditInv, AuditTypeOK, flagRows
<1>2. ASSUME NEW t \in Scans, scan'[t] # Nothing
      PROVE  Sound(scan'[t])
    BY <1>2 DEF AuditInv, AuditTypeOK, ScansSound
<1>3. cached' = cached /\ open' = open
    BY DEF flagRows
<1>4. ScansSound'
    BY <1>2, <1>3 DEF ScansSound, Sound
<1> QED
    BY <1>1, <1>4 DEF AuditInv

LEMMA BeginStep ==
    ASSUME AuditInv, NEW s \in Scans, NEW force \in BOOLEAN, Begin(s, force),
           status' \in {"new", "pending", "approved"},
           UNCHANGED <<purpose, live, old, crowded>>
    PROVE  AuditInv'
<1> DEFINE k == [step |-> "begun", force |-> force]
<1>1. k \in Progress /\ Sound(k)
    BY DEF Progress, Sound
<1>2. scan' = [scan EXCEPT ![s] = k] /\ UNCHANGED <<cached, flagRows, assessed>>
    BY DEF Begin
<1> HIDE DEF k
<1> QED
    BY <1>1, <1>2, OneScanMoves

LEMMA FinishedStep ==
    ASSUME AuditInv, NEW s \in Scans, scan' = Finished(s),
           UNCHANGED <<facts, cached, flagRows, assessed>>
    PROVE  AuditInv'
<1> DEFINE k == [step |-> "finished"]
<1>1. k \in Progress /\ Sound(k)
    BY DEF Progress, Sound
<1>2. scan' = [scan EXCEPT ![s] = k]
    BY DEF Finished
<1> HIDE DEF k
<1> QED
    BY <1>1, <1>2, OneScanMoves DEF facts, AuditInv, AuditTypeOK

LEMMA BuildFeaturesStep ==
    ASSUME AuditInv, NEW s \in Scans, BuildFeatures(s)
    PROVE  AuditInv'
<1> DEFINE read == [purpose |-> purpose, proofs |-> live, old |-> old,
                    crowded |-> crowded, flagsOpen |-> OpenCount]
           k == [step |-> "built", force |-> scan[s].force, read |-> read]
<1>1. OpenCount \in Nat
    BY KindsFinite, SumNat DEF OpenCount, AuditInv, AuditTypeOK
<1>2. read \in Features
    BY <1>1 DEF Features, AuditInv, AuditTypeOK
<1>3. scan' = [scan EXCEPT ![s] = k]
    BY DEF BuildFeatures, AuditInv, AuditTypeOK
<1> HIDE DEF read
<1>4. scan[s].force \in BOOLEAN
    BY BegunIs DEF BuildFeatures, AuditInv
<1>5. k \in Progress /\ Sound(k)
    BY <1>2, <1>4 DEF Progress, Sound
<1> HIDE DEF k
<1> QED
    BY <1>3, <1>5, OneScanMoves DEF BuildFeatures, facts, AuditInv, AuditTypeOK

LEMMA AskModelStep ==
    ASSUME AuditInv, NEW s \in Scans, AskModel(s)
    PROVE  AuditInv'
<1> DEFINE k == [scan[s] EXCEPT !.step = "asked"]
<1>1. scan[s] \in [step : {"built", "asked"}, force : BOOLEAN, read : Features]
    BY BuiltIs DEF AskModel, AuditInv
<1>2. k \in [step : {"built", "asked"}, force : BOOLEAN, read : Features] /\ k.step = "asked"
    BY <1>1
<1>3. scan' = [scan EXCEPT ![s] = k]
    BY DEF AskModel, AuditInv, AuditTypeOK
<1> HIDE DEF k
<1>4. k \in Progress /\ Sound(k)
    BY <1>2 DEF Progress, Sound
<1> QED
    BY <1>3, <1>4, OneScanMoves DEF AskModel, facts, AuditInv, AuditTypeOK

LEMMA TakeAnswerStep ==
    ASSUME AuditInv, NEW s \in Scans, NEW answer \in Answers \cup {NoAnswer},
           TakeAnswer(s, answer)
    PROVE  AuditInv'
<1> DEFINE read == scan[s].read
           result == Merged(read, answer)
           k == [step |-> "loaded", force |-> scan[s].force, read |-> read,
                 result |-> result, loaded |-> cached, alone |-> TRUE]
<1>1. scan[s].force \in BOOLEAN /\ read \in Features
    BY BuiltIs DEF TakeAnswer, AuditInv
<1>2. scan' = [scan EXCEPT ![s] = k]
    BY DEF TakeAnswer, AuditInv, AuditTypeOK
<1> HIDE DEF read
<1>3. /\ result \in Assessments
      /\ result.score >= RuleScore(read)
      /\ result.score < 100 => result.level >= ScoreToLevel(RuleScore(read))
    BY MergedType
<1>4. Rules(read).score = RuleScore(read) /\ Rules(read).level = ScoreToLevel(RuleScore(read))
    BY DEF Rules
<1>5. cached \in CachedRisks
    BY DEF AuditInv, AuditTypeOK
<1> HIDE DEF result
<1>6. k \in [step : {"loaded"}, force : BOOLEAN, read : Features,
             result : Assessments, loaded : CachedRisks, alone : BOOLEAN]
    BY <1>1, <1>3, <1>5
<1>7. k \in Progress
    BY <1>6 DEF Progress
<1>8. Sound(k)
    BY <1>3, <1>4 DEF Sound, NotBelow
<1> HIDE DEF k
<1> QED
    BY <1>2, <1>7, <1>8, OneScanMoves DEF TakeAnswer, facts, AuditInv, AuditTypeOK

LEMMA ReadOpenFlagsStep ==
    ASSUME AuditInv, NEW s \in Scans, ReadOpenFlags(s)
    PROVE  AuditInv'
<1> DEFINE existing == {f \in FlagKinds : open[f] > 0}
           k == [step |-> "checked", force |-> scan[s].force, read |-> scan[s].read,
                 result |-> scan[s].result, loaded |-> scan[s].loaded,
                 alone |-> scan[s].alone, existing |-> existing]
<1>1. scan[s] \in [step : {"loaded"}, force : BOOLEAN, read : Features,
                   result : Assessments, loaded : CachedRisks, alone : BOOLEAN]
    BY LoadedIs DEF ReadOpenFlags, AuditInv
<1>2. scan' = [scan EXCEPT ![s] = k]
    BY DEF ReadOpenFlags, AuditInv, AuditTypeOK
<1>3. existing \in SUBSET FlagKinds
    OBVIOUS
<1>4. Sound(scan[s])
    BY DEF ReadOpenFlags, Reached, AuditInv, ScansSound
<1>5. k \in [step : {"checked"}, force : BOOLEAN, read : Features,
             result : Assessments, loaded : CachedRisks, alone : BOOLEAN,
             existing : SUBSET FlagKinds]
    BY <1>1, <1>3
<1>6. k \in Progress
    BY <1>5 DEF Progress
<1>7. Sound(k)
    BY <1>1, <1>4 DEF Sound, NotBelow
<1> HIDE DEF k
<1> QED
    BY <1>2, <1>6, <1>7, OneScanMoves DEF ReadOpenFlags, facts, AuditInv, AuditTypeOK

\* A scan that has loaded the request is sound again once it is told that it was
\* disturbed; one that has not is not told.
LEMMA Disturbed ==
    ASSUME AuditInv, NEW s, NEW t \in Scans, t # s, scan[t] # Nothing
    PROVE  LET k == Disturb(s)[t]
           IN  /\ k \in Progress
               /\ k.step \in {"loaded", "checked"} =>
                     /\ NotBelow(k)
                     /\ ~k.alone
<1>0. scan[t] \in Progress /\ Sound(scan[t])
    BY DEF AuditInv, AuditTypeOK, ScansSound
<1>1. CASE Reached(t, "loaded")
    <2>1. Disturb(s)[t] = [scan[t] EXCEPT !.alone = FALSE]
        BY <1>1 DEF Disturb
    <2>2. scan[t] \in [step : {"loaded"}, force : BOOLEAN, read : Features,
                       result : Assessments, loaded : CachedRisks, alone : BOOLEAN]
        BY <1>1, LoadedIs DEF AuditInv
    <2>3. /\ Disturb(s)[t] \in [step : {"loaded"}, force : BOOLEAN, read : Features,
                                result : Assessments, loaded : CachedRisks, alone : BOOLEAN]
          /\ Disturb(s)[t].result = scan[t].result /\ Disturb(s)[t].read = scan[t].read
          /\ Disturb(s)[t].alone = FALSE
        BY <2>1, <2>2
    <2> QED
        BY <1>0, <2>2, <2>3 DEF Progress, Sound, NotBelow
<1>2. CASE Reached(t, "checked")
    <2>1. Disturb(s)[t] = [scan[t] EXCEPT !.alone = FALSE]
        BY <1>2 DEF Disturb
    <2>2. scan[t] \in [step : {"checked"}, force : BOOLEAN, read : Features,
                       result : Assessments, loaded : CachedRisks, alone : BOOLEAN,
                       existing : SUBSET FlagKinds]
        BY <1>2, CheckedIs DEF AuditInv
    <2>3. /\ Disturb(s)[t] \in [step : {"checked"}, force : BOOLEAN, read : Features,
                                result : Assessments, loaded : CachedRisks, alone : BOOLEAN,
                                existing : SUBSET FlagKinds]
          /\ Disturb(s)[t].result = scan[t].result /\ Disturb(s)[t].read = scan[t].read
          /\ Disturb(s)[t].alone = FALSE
        BY <2>1, <2>2
    <2> QED
        BY <1>0, <2>2, <2>3 DEF Progress, Sound, NotBelow
<1>3. CASE ~Reached(t, "loaded") /\ ~Reached(t, "checked")
    <2>1. Disturb(s)[t] = scan[t]
        BY <1>3 DEF Disturb
    <2> QED
        BY <1>0, <1>3, <2>1 DEF Reached
<1> QED
    BY <1>1, <1>2, <1>3

\* A decision about a flag.
LEMMA UpdateFlagStep ==
    ASSUME AuditInv, NEW f \in FlagKinds, UpdateFlag(f)
    PROVE  AuditInv'
<1>1. open' \in [FlagKinds -> Nat] /\ decided' \in [FlagKinds -> Nat]
    <2>1. open \in [FlagKinds -> Nat] /\ decided \in [FlagKinds -> Nat]
        BY DEF AuditInv, AuditTypeOK
    <2> QED
        BY <2>1 DEF UpdateFlag
<1>2. ASSUME NEW t \in Scans
      PROVE  /\ scan'[t] \in Progress \cup {Nothing}
             /\ (scan[t] # Nothing => Sound(scan[t]))'
    <2>1. scan'[t] = Disturb(Nothing)[t] /\ t # Nothing
        BY RiskAssumption DEF UpdateFlag
    <2>2. CASE scan[t] = Nothing
        <3>1. scan'[t] = Nothing
            BY <2>1, <2>2 DEF Disturb, Reached
        <3> QED
            BY <3>1
    <2>3. CASE scan[t] # Nothing
        <3> DEFINE k == Disturb(Nothing)[t]
        <3>1. /\ k \in Progress
              /\ k.step \in {"loaded", "checked"} =>
                    /\ NotBelow(k)
                    /\ ~k.alone
            BY <2>1, <2>3, Disturbed
        <3>2. scan'[t] = k
            BY <2>1
        <3> HIDE DEF k
        <3> QED
            BY <3>1, <3>2 DEF Sound, NotBelow
    <2> QED
        BY <2>2, <2>3
<1>3. scan' \in [Scans -> Progress \cup {Nothing}]
    BY <1>2 DEF UpdateFlag, Disturb
<1>4. AuditTypeOK'
    BY <1>1, <1>3 DEF UpdateFlag, facts, AuditInv, AuditTypeOK
<1>5. ScansSound'
    BY <1>2 DEF ScansSound
<1> QED
    BY <1>4, <1>5 DEF AuditInv

\* How often a flag is added.
LEMMA RaisedIs ==
    ASSUME NEW k, k.result.flags \in Seq(FlagKinds), NEW f \in FlagKinds
    PROVE  /\ Raised(k, f) \in Nat
           /\ f \in Found(k) => /\ Known(k, f) => Raised(k, f) = 0
                                /\ ~Known(k, f) => Raised(k, f) > 0
<1> DEFINE flags == k.result.flags
           places == {i \in DOMAIN flags : flags[i] = f}
<1>1. Len(flags) \in Nat /\ DOMAIN flags = 1 .. Len(flags)
    BY LenProperties
<1>2. IsFiniteSet(1 .. Len(flags))
    BY <1>1, FS_Interval
<1>3. IsFiniteSet(places) /\ Cardinality(places) \in Nat
    BY <1>1, <1>2, FS_Subset, FS_CardinalityType
<1>4. places # {} => Cardinality(places) # 0
    BY <1>3, FS_EmptySet
<1>5. f \in Found(k) => f.severity >= Medium /\ places # {}
    BY DEF Found
<1>6. f.severity \in Low .. Critical
    BY RiskAssumption DEF FlagKinds
<1>7. Raised(k, f) = IF f.severity < Medium \/ Known(k, f) THEN 0 ELSE Cardinality(places)
    BY DEF Raised
<1> HIDE DEF places
<1> QED
    BY <1>3, <1>4, <1>5, <1>6, <1>7 DEF Low, Medium, Critical

LEMMA SaveStep ==
    ASSUME AuditInv, NEW s \in Scans, Save(s)
    PROVE  AuditInv'
<1>1. scan[s] \in [step : {"checked"}, force : BOOLEAN, read : Features,
                   result : Assessments, loaded : CachedRisks, alone : BOOLEAN,
                   existing : SUBSET FlagKinds]
    BY CheckedIs DEF Save, AuditInv
<1>2. open' \in [FlagKinds -> Nat]
    <2>1. scan[s].result.flags \in Seq(FlagKinds)
        BY <1>1 DEF Assessments
    <2>2. \A f \in FlagKinds : Raised(scan[s], f) \in Nat
        BY <2>1, RaisedIs
    <2> QED
        BY <2>2 DEF Save, AuditInv, AuditTypeOK
<1>3. cached' \in CachedRisks
    <2>1. cached \in CachedRisks /\ DOMAIN cached = {"score", "level"}
        BY DEF AuditInv, AuditTypeOK, CachedRisks
    <2>2. scan[s].result \in Assessments
        BY <1>1
    <2>3. /\ cached' = [c \in {"score", "level"} |-> cached'[c]]
          /\ cached'["score"] \in {scan[s].result.score, cached.score}
          /\ cached'["level"] \in {scan[s].result.level, cached.level}
        BY <2>1 DEF Save
    <2>4. cached' = [score |-> cached'["score"], level |-> cached'["level"]]
        BY <2>3
    <2>5. /\ cached'["score"] \in (0 .. 100) \cup {Nothing}
          /\ cached'["level"] \in (Low .. Critical) \cup {Nothing}
        BY <2>1, <2>2, <2>3 DEF CachedRisks, Assessments
    <2> QED
        BY <2>4, <2>5 DEF CachedRisks
<1>4. assessed' \subseteq [purpose : Purposes, proofs : SUBSET Proofs, flagsOpen : Nat]
    <2>1. scan[s].read \in Features
        BY <1>1
    <2>2. InputsHash(scan[s].read)
             \in [purpose : Purposes, proofs : SUBSET Proofs, flagsOpen : Nat]
        BY <2>1 DEF InputsHash, Features
    <2> QED
        BY <2>2 DEF Save, AuditInv, AuditTypeOK
<1>5. ASSUME NEW t \in Scans
      PROVE  /\ scan'[t] \in Progress \cup {Nothing}
             /\ (scan[t] # Nothing => Sound(scan[t]))'
    <2>1. CASE t = s
        <3>1. scan'[t] = [step |-> "finished"]
            BY <2>1 DEF Save, Disturb
        <3> QED
            BY <3>1 DEF Progress, Sound, NotBelow
    <2>2. CASE t # s /\ scan[t] = Nothing
        <3>1. scan'[t] = Nothing
            BY <2>2 DEF Save, Disturb, Reached
        <3> QED
            BY <3>1
    <2>3. CASE t # s /\ scan[t] # Nothing
        <3> DEFINE k == Disturb(s)[t]
        <3>1. /\ k \in Progress
              /\ k.step \in {"loaded", "checked"} =>
                    /\ NotBelow(k)
                    /\ ~k.alone
            BY <2>3, Disturbed
        <3>2. scan'[t] = k
            BY <2>3 DEF Save, Disturb
        <3> HIDE DEF k
        <3> QED
            BY <3>1, <3>2 DEF Sound, NotBelow
    <2> QED
        BY <2>1, <2>2, <2>3
<1>6. scan' \in [Scans -> Progress \cup {Nothing}]
    BY <1>5 DEF Save, Disturb
<1>7. AuditTypeOK'
    BY <1>2, <1>3, <1>4, <1>6 DEF Save, facts, AuditInv, AuditTypeOK
<1>8. ScansSound'
    BY <1>5 DEF ScansSound
<1> QED
    BY <1>7, <1>8 DEF AuditInv

\* What goes on outside touches neither the row nor the scans.
LEMMA FactsStep ==
    ASSUME AuditInv, UNCHANGED <<status, purpose, cached, flagRows, assessed, scan>>,
           live' \subseteq Proofs, old' \in BOOLEAN, crowded' \in BOOLEAN
    PROVE  AuditInv'
BY DEF AuditInv, AuditTypeOK, ScansSound, Sound, flagRows

LEMMA AuditInvStep == AuditInv /\ [AuditNext]_auditVars => AuditInv'
<1> SUFFICES ASSUME AuditInv, [AuditNext]_auditVars
             PROVE  AuditInv'
    OBVIOUS
<1> USE DEF facts
<1>1. ASSUME NEW s \in Scans, CreateAidRequest(s) \/ ApproveRequest(s) \/ ScanRisk(s)
      PROVE  AuditInv'
    BY <1>1, BeginStep DEF CreateAidRequest, ApproveRequest, ScanRisk, AuditInv, AuditTypeOK
<1>2. ASSUME NEW s \in Scans, Reuse(s) \/ ScanFails(s)
      PROVE  AuditInv'
    BY <1>2, FinishedStep DEF Reuse, ScanFails
<1>3. ASSUME NEW s \in Scans, NEW answer \in Answers \cup {NoAnswer}, TakeAnswer(s, answer)
      PROVE  AuditInv'
    BY <1>3, TakeAnswerStep
<1>4. ASSUME NEW s \in Scans,
             BuildFeatures(s) \/ AskModel(s) \/ ReadOpenFlags(s) \/ Save(s)
      PROVE  AuditInv'
    BY <1>4, BuildFeaturesStep, AskModelStep, ReadOpenFlagsStep, SaveStep
<1>5. ASSUME NEW p \in Proofs, UploadProof(p) \/ DeleteProof(p)
      PROVE  AuditInv'
    BY <1>5, FactsStep DEF UploadProof, DeleteProof, AuditInv, AuditTypeOK
<1>6. CASE ThreeDaysPass \/ OthersAsk
    BY <1>6, FactsStep DEF ThreeDaysPass, OthersAsk, AuditInv, AuditTypeOK
<1>7. ASSUME NEW f \in FlagKinds, UpdateFlag(f)
      PROVE  AuditInv'
    BY <1>7, UpdateFlagStep
<1>8. CASE UNCHANGED auditVars
    BY <1>8, FactsStep DEF auditVars, flagRows, AuditInv, AuditTypeOK
<1> QED
    BY <1>1, <1>2, <1>3, <1>4, <1>5, <1>6, <1>7, <1>8 DEF AuditNext

LEMMA AuditInvariance == AuditSpec => []AuditInv
BY AuditInitInv, AuditInvStep, PTL DEF AuditSpec

-----------------------------------------------------------------------------
(* The audit: the theorems.                                                *)

\* Scores, levels and counts of flags keep their shapes whatever the model says
\* and however many scans overlap.
THEOREM AuditTypeCorrect == AuditSpec => []AuditTypeOK
<1>1. AuditInv => AuditTypeOK
    BY DEF AuditInv
<1> QED
    BY <1>1, AuditInvariance, PTL

\* A scan that nobody disturbed leaves its result on the request, the score no
\* lower than the rules' and the level too unless the score is 100, and its
\* flags open, each once more only if it was not: for any number of scans, any
\* proofs and amounts, and any model, one whose score is no number included.
THEOREM LoneScanCompletes == AuditSpec => LoneScanIsComplete
<1> DEFINE Step == \A s \in Scans : Save(s) /\ scan[s].alone =>
          /\ cached' = [score |-> scan[s].result.score, level |-> scan[s].result.level]
          /\ cached'.score >= Rules(scan[s].read).score
          /\ cached'.score < 100 => cached'.level >= Rules(scan[s].read).level
          /\ \A f \in Found(scan[s]) :
                /\ open'[f] > 0
                /\ open[f] > 0 => open'[f] = open[f]
<1>1. ASSUME AuditInv, NEW s \in Scans, Save(s), scan[s].alone
      PROVE  /\ cached' = [score |-> scan[s].result.score, level |-> scan[s].result.level]
             /\ cached'.score >= Rules(scan[s].read).score
             /\ cached'.score < 100 => cached'.level >= Rules(scan[s].read).level
             /\ \A f \in Found(scan[s]) :
                   /\ open'[f] > 0
                   /\ open[f] > 0 => open'[f] = open[f]
    <2> DEFINE k == scan[s]
    <2>1. /\ Sound(k) /\ k.step = "checked"
          /\ k.result.flags \in Seq(FlagKinds)
        <3>1. Sound(k) /\ k.step = "checked"
            BY <1>1 DEF Save, Reached, AuditInv, ScansSound
        <3>2. k \in [step : {"checked"}, force : BOOLEAN, read : Features,
                     result : Assessments, loaded : CachedRisks, alone : BOOLEAN,
                     existing : SUBSET FlagKinds]
            BY <1>1, CheckedIs DEF Save, AuditInv
        <3> QED
            BY <3>1, <3>2 DEF Assessments
    <2>2. /\ k.result \in Assessments
          /\ cached \in CachedRisks /\ k.loaded = cached /\ NotBelow(k)
        <3>1. k.result \in Assessments
            BY <1>1, CheckedIs DEF Save, AuditInv
        <3> QED
            BY <1>1, <2>1, <3>1 DEF Sound, AuditInv, AuditTypeOK
    <2>3. cached' = [score |-> k.result.score, level |-> k.result.level]
        <3>1. DOMAIN cached = {"score", "level"}
            BY <2>2 DEF CachedRisks
        <3>2. cached' = [c \in {"score", "level"} |->
                            IF k.result[c] # cached[c] THEN k.result[c] ELSE cached[c]]
            BY <1>1, <2>2, <3>1 DEF Save, Updates
        <3>3. cached' = [c \in {"score", "level"} |-> k.result[c]]
            BY <3>2
        <3> QED
            BY <3>3
    <2>4. /\ cached'.score >= Rules(k.read).score
          /\ cached'.score < 100 => cached'.level >= Rules(k.read).level
        <3>1. cached'.score = k.result.score /\ cached'.level = k.result.level
            BY <2>3
        <3> QED
            BY <2>2, <3>1 DEF NotBelow
    <2>5. ASSUME NEW f \in Found(k)
          PROVE  open'[f] > 0 /\ (open[f] > 0 => open'[f] = open[f])
        <3>1. f \in FlagKinds
            BY DEF Found
        <3>2. Known(k, f) <=> open[f] > 0
            BY <1>1, <2>1, <3>1 DEF Sound, Known
        <3>3. open[f] \in Nat /\ open'[f] = open[f] + Raised(k, f)
            BY <1>1, <3>1 DEF Save, AuditInv, AuditTypeOK
        <3>4. /\ Raised(k, f) \in Nat
              /\ Known(k, f) => Raised(k, f) = 0
              /\ ~Known(k, f) => Raised(k, f) > 0
            BY <2>1, <3>1, RaisedIs
        <3> QED
            BY <3>2, <3>3, <3>4
    <2> QED
        BY <2>3, <2>4, <2>5
<1>2. AuditInv => Step
    BY <1>1
<1>3. AuditInv => [Step]_auditVars
    BY <1>2
<1> QED
    BY <1>3, AuditInvariance, PTL DEF LoneScanIsComplete
=============================================================================
