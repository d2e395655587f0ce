----------------------------- MODULE ThreadsProofs -----------------------------
(* Theorems about what many threads run at once: the circuit breaker, for     *)
(* every number of threads and all limits; the matrix products, the thread    *)
(* blocks of the GPU and the tasks of the processor, for all shapes, limits   *)
(* and sizes of tiles; and the grids of the element kernels.                  *)
EXTENDS CpuKernels, ElementKernels, CircuitBreaker, TLAPS

-----------------------------------------------------------------------------
(* The circuit breaker.                                                      *)
cells == <<state, failure_count, success_count, half_open_requests, last_failure_time>>

LEMMA BumpType ==
    ASSUME NEW limit \in Nat, NEW n \in 0 .. limit
    PROVE  /\ Bump(n, limit) \in 0 .. limit
           /\ Bump(n, limit) = limit => n + 1 >= limit
           /\ n + 1 >= limit => Bump(n, limit) = limit
  BY DEF Bump

\* A step between two labels that touch no counter at its limit.
LEMMA StepKeepsLabels ==
    ASSUME TypeOK, NEW t \in Threads, NEW from, NEW to \in Labels, MethodStep(t, from, to)
    PROVE  /\ pc' \in [Threads -> Labels]
           /\ pc'[t] = to /\ pc[t] = from
           /\ \A u \in Threads : u # t => pc'[u] = pc[u]
  BY DEF TypeOK, MethodStep

\* One load: no cell changes and the thread was not about to answer.
LEMMA LoadInv ==
    ASSUME IInv, NEW t \in Threads, NEW from \in {"idle", "running"}, NEW to \in Labels,
           MethodStep(t, from, to), UNCHANGED cells
    PROVE  IInv'
  <1>1. TypeOK
    BY DEF IInv
  <1> QED
    BY <1>1, StepKeepsLabels DEF IInv, TypeOK, cells, FailuresAnswered, SuccessesAnswered

THEOREM InitInv == Init => IInv
  BY LimitsAssumption DEF Init, IInv, TypeOK, Labels, FailuresAnswered, SuccessesAnswered

LEMMA NextInv == IInv /\ [Next]_vars => IInv'
  <1> SUFFICES ASSUME IInv, [Next]_vars PROVE IInv'
    OBVIOUS
  <1> USE LimitsAssumption
  <1>1. CASE UNCHANGED vars
    BY <1>1 DEF vars, IInv, TypeOK, FailuresAnswered, SuccessesAnswered
  <1>2. CASE Elapse
    BY <1>2 DEF Elapse, IInv, TypeOK, FailuresAnswered, SuccessesAnswered
  <1>3. ASSUME NEW t \in Threads, AllowRequest(t) \/ Succeed(t) \/ Fail(t)
        PROVE  IInv'
    <2>1. PICK from \in {"idle", "running"}, to \in Labels :
             MethodStep(t, from, to) /\ UNCHANGED cells
      <3>1. ASSUME AllowRequest(t) PROVE \E to \in Labels : MethodStep(t, "idle", to) /\ UNCHANGED cells
        BY <3>1 DEF AllowRequest, Branch, Labels, cells
      <3>2. ASSUME Succeed(t) PROVE \E to \in Labels : MethodStep(t, "running", to) /\ UNCHANGED cells
        BY <3>2 DEF Succeed, Branch, Labels, cells
      <3>3. ASSUME Fail(t) PROVE \E to \in Labels : MethodStep(t, "running", to) /\ UNCHANGED cells
        BY <3>3 DEF Fail, Branch, Labels, cells
      <3> QED
        BY <1>3, <3>1, <3>2, <3>3
    <2> QED
      BY <2>1, LoadInv
  <1>4. ASSUME NEW t \in Threads, Panic(t) \/ LookAtTimer(t)
        PROVE  IInv'
    BY <1>4 DEF Panic, LookAtTimer, MethodStep, Labels, IInv, TypeOK, FailuresAnswered, SuccessesAnswered
  <1>5. ASSUME NEW t \in Threads, CountTrial(t)
        PROVE  IInv'
    <2>1. half_open_requests' \in 0 .. HalfOpenMax
      BY <1>5, BumpType DEF CountTrial, IInv, TypeOK
    <2> QED
      BY <1>5, <2>1 DEF CountTrial, MethodStep, Labels, IInv, TypeOK, FailuresAnswered, SuccessesAnswered
  <1>6. ASSUME NEW t \in Threads, CountFailure(t)
        PROVE  IInv'
    <2>1. /\ failure_count' \in 0 .. FailureThreshold
          /\ failure_count' = FailureThreshold => failure_count + 1 >= FailureThreshold
      BY <1>6, BumpType DEF CountFailure, IInv, TypeOK
    <2> QED
      BY <1>6, <2>1 DEF CountFailure, MethodStep, Labels, IInv, TypeOK, FailuresAnswered, SuccessesAnswered
  <1>7. ASSUME NEW t \in Threads, CountSuccess(t)
        PROVE  IInv'
    <2>1. /\ success_count' \in 0 .. SuccessThreshold
          /\ success_count' = SuccessThreshold => success_count + 1 >= SuccessThreshold
      BY <1>7, BumpType DEF CountSuccess, IInv, TypeOK
    <2> QED
      BY <1>7, <2>1 DEF CountSuccess, MethodStep, Labels, IInv, TypeOK, FailuresAnswered, SuccessesAnswered
  <1>8. ASSUME NEW t \in Threads, EnterHalfOpen(t)
        PROVE  IInv'
    BY <1>8 DEF EnterHalfOpen, StoreState, ClearTrials, ClearSuccesses, MethodStep, Labels,
       IInv, TypeOK, FailuresAnswered, SuccessesAnswered
  <1>9. ASSUME NEW t \in Threads, Forgive(t) \/ Close(t)
        PROVE  IInv'
    BY <1>9 DEF Forgive, Close, StoreState, ClearFailures, ClearSuccesses, MethodStep, Labels,
       IInv, TypeOK, FailuresAnswered, SuccessesAnswered
  <1>10. ASSUME NEW t \in Threads, Open(t) \/ Reopen(t)
         PROVE  IInv'
    BY <1>10 DEF Open, Reopen, StoreState, StoreTime, ClearTrials, ClearSuccesses, MethodStep, Labels,
       IInv, TypeOK, FailuresAnswered, SuccessesAnswered
  <1>11. ASSUME NEW t \in Threads, Reset(t)
         PROVE  IInv'
    BY <1>11 DEF Reset, StoreState, StoreTime, ClearFailures, ClearTrials, ClearSuccesses, MethodStep,
       Labels, IInv, TypeOK, FailuresAnswered, SuccessesAnswered
  <1> QED
    BY <1>1, <1>2, <1>3, <1>4, <1>5, <1>6, <1>7, <1>8, <1>9, <1>10, <1>11 DEF Next

\* Types, and every count at its limit has a thread that answers for it.
THEOREM InductiveInvariant == Spec => []IInv
  BY InitInv, NextInv, PTL DEF Spec

\* Between methods the breaker has acted on its counts, however many threads
\* interleave and whatever the thresholds.
THEOREM VerdictsAreGiven == Spec => []NoVerdictPending
  <1>1. IInv => NoVerdictPending
    BY LimitsAssumption DEF IInv, TypeOK, FailuresAnswered, SuccessesAnswered, NoVerdictPending, AtRest
  <1> QED
    BY <1>1, InductiveInvariant, PTL

-----------------------------------------------------------------------------
(* Numbers.                                                                  *)
\* The lesser and the greater of two numbers.
LEMMA MinOfTwo ==
  ASSUME NEW a \in Nat, NEW b \in Nat
  PROVE  Min({a, b}) = IF a <= b THEN a ELSE b
<1>1. \A x \in {a, b} : (\A y \in {a, b} : x <= y) <=> x = IF a <= b THEN a ELSE b
  OBVIOUS
<1>2. Min({a, b}) = CHOOSE x \in {a, b} : \A y \in {a, b} : x <= y
  BY DEF Min
<1> QED  BY <1>1, <1>2

LEMMA MaxIsAbove ==
  ASSUME NEW a \in Nat, NEW b \in Nat
  PROVE  Max({a, b}) \in Nat /\ a <= Max({a, b}) /\ b <= Max({a, b})
<1>1. \A x \in {a, b} : (\A y \in {a, b} : x >= y) <=> x = IF a >= b THEN a ELSE b
  OBVIOUS
<1>2. Max({a, b}) = CHOOSE x \in {a, b} : \A y \in {a, b} : x >= y
  BY DEF Max
<1> QED  BY <1>1, <1>2

\* Division with remainder.
LEMMA Division ==
  ASSUME NEW n \in Nat, NEW d \in Nat \ {0}
  PROVE  \E q \in Nat : \E x \in 0 .. d - 1 : q = n \div d /\ n = q * d + x
<1>1. n \div d \in Nat /\ n % d \in 0 .. d - 1
  BY Z3
<1>2. n = (n \div d) * d + (n % d)
  BY Z3
<1> QED  BY <1>1, <1>2

\* From one multiple to the next.
LEMMA NextMultiple ==
  ASSUME NEW d \in Nat \ {0}, NEW m \in Nat, NEW n \in Nat, m < n
  PROVE  m * d + d <= n * d
<1>1. m + 1 <= n /\ (m + 1) * d = m * d + d
  OBVIOUS
<1>2. (n - (m + 1)) * d >= 0
  BY <1>1
<1>3. (n - (m + 1)) * d = n * d - (m + 1) * d
  OBVIOUS
<1> QED  BY <1>1, <1>2, <1>3

\* Different places have different quotients or remainders.
LEMMA QuotientIsOwn ==
  ASSUME NEW d \in Nat \ {0}, NEW p \in Nat, NEW q \in Nat, NEW x \in 0 .. d - 1, NEW y \in 0 .. d - 1,
         p * d + x = q * d + y
  PROVE  p = q /\ x = y
<1>1. p * d \in Nat /\ q * d \in Nat
  OBVIOUS
<1>2. ~ (p < q)
  BY <1>1, NextMultiple
<1>3. ~ (q < p)
  BY <1>1, NextMultiple
<1> QED  BY <1>1, <1>2, <1>3

\* A cell is of a row and a column.
LEMMA CellOfRowAndColumn ==
  ASSUME NEW n \in Nat \ {0}, NEW m \in Nat \ {0}
  PROVE  /\ \A cell \in 0 .. n * m - 1 : /\ cell % n \in 0 .. n - 1 /\ cell \div n \in 0 .. m - 1
                                        /\ cell = (cell \div n) * n + (cell % n)
         /\ \A r \in 0 .. n - 1, c \in 0 .. m - 1 :
               /\ c * n + r \in 0 .. n * m - 1
               /\ (c * n + r) % n = r /\ (c * n + r) \div n = c
<1>1. ASSUME NEW cell \in 0 .. n * m - 1
      PROVE  /\ cell % n \in 0 .. n - 1 /\ cell \div n \in 0 .. m - 1
             /\ cell = (cell \div n) * n + (cell % n)
  <2>1. n * m \in Nat /\ cell \in Nat /\ cell < n * m
    OBVIOUS
  <2>2. cell % n \in 0 .. n - 1 /\ cell \div n \in Nat /\ cell = (cell \div n) * n + (cell % n)
    BY <2>1, Z3
  <2>3. PICK q \in Nat : q = cell \div n
    BY <2>2
  <2>4. q * n <= cell /\ q * n \in Nat
    BY <2>1, <2>2, <2>3
  <2>5. ~ (m <= q)
    <3> SUFFICES ASSUME m <= q PROVE FALSE
      OBVIOUS
    <3>1. (q - m) * n >= 0 /\ (q - m) * n = q * n - m * n /\ m * n = n * m
      OBVIOUS
    <3> QED  BY <2>1, <2>4, <3>1
  <2> QED  BY <2>2, <2>3, <2>5
<1>2. ASSUME NEW r \in 0 .. n - 1, NEW c \in 0 .. m - 1
      PROVE  /\ c * n + r \in 0 .. n * m - 1
             /\ (c * n + r) % n = r /\ (c * n + r) \div n = c
  <2>1. c * n + n <= m * n
    BY NextMultiple
  <2>2. c * n \in Nat /\ m * n = n * m /\ n * m \in Nat
    OBVIOUS
  <2>3. PICK cell \in 0 .. n * m - 1 : cell = c * n + r
    BY <2>1, <2>2
  <2>4. (cell \div n) \in Nat /\ cell % n \in 0 .. n - 1 /\ cell = (cell \div n) * n + (cell % n)
    BY <1>1
  <2>5. cell \div n = c /\ cell % n = r
    BY <2>3, <2>4, QuotientIsOwn
  <2> QED  BY <2>3, <2>5
<1> QED  BY <1>1, <1>2

\* A number with its quotient and remainder.
LEMMA QuotientAndRemainder ==
  ASSUME NEW d \in Nat \ {0}, NEW q \in Nat, NEW x \in 0 .. d - 1, NEW n, n = q * d + x
  PROVE  n \div d = q /\ n % d = x /\ n \in Nat
<1>1. n \in Nat
  OBVIOUS
<1>2. n \div d \in Nat /\ n % d \in 0 .. d - 1 /\ n = (n \div d) * d + (n % d)
  BY <1>1, Z3
<1> QED  BY <1>1, <1>2, QuotientIsOwn

-----------------------------------------------------------------------------
(* The tiles of parallel.rs, tiled.rs and parallel_tiled.rs.                *)
IsIn(tile, r) == r \in tile.start .. tile.start + tile.rows - 1

\* Tiles stay within the rows, and a row is in one of them.
LEMMA TilesPartition ==
  ASSUME NEW n \in Nat \ {0}, NEW size \in Nat \ {0}, NEW T, T = TilesOf(n, size)
  PROVE  /\ \A i \in DOMAIN T : /\ T[i].start \in Nat /\ T[i].rows \in Nat \ {0}
                                /\ T[i].start + T[i].rows <= n
         /\ \A r \in 0 .. n - 1 : \E i \in DOMAIN T : IsIn(T[i], r)
         /\ \A i, j \in DOMAIN T : \A r : IsIn(T[i], r) /\ IsIn(T[j], r) => i = j
<1>1. PICK k \in Nat, m \in 0 .. size - 1 :
         k = (n + size - 1) \div size /\ n + size - 1 = k * size + m
  BY Division
<1>2. DOMAIN T = 1 .. k /\ \A i \in 1 .. k : /\ T[i].start = (i - 1) * size
                                             /\ T[i].rows = Min({n - (i - 1) * size, size})
  BY <1>1 DEF TilesOf
<1>3. ASSUME NEW i \in 1 .. k
      PROVE  /\ (i - 1) * size \in Nat /\ (i - 1) * size < n /\ T[i].start = (i - 1) * size
             /\ T[i].rows \in 1 .. size /\ (i - 1) * size + T[i].rows <= n
  <2>1. k - 1 \in Nat /\ i - 1 \in Nat
    BY <1>1
  <2>2. k * size = (k - 1) * size + size
    BY <2>1
  <2>3. (i - 1) * size \in Nat /\ (k - 1) * size \in Nat
    BY <2>1
  <2>4. (i - 1) * size <= (k - 1) * size
    <3>1. CASE i = k
      BY <3>1, <2>3
    <3>2. CASE i < k
      BY <3>2, <2>1, <2>3, NextMultiple
    <3> QED  BY <3>1, <3>2, <1>1
  <2>5. (k - 1) * size <= n - 1
    <3> DEFINE a == (k - 1) * size  b == k * size
    <3>1. a \in Nat /\ b = a + size /\ m \in 0 .. size - 1 /\ n + size - 1 = b + m
      BY <1>1, <2>2, <2>3
    <3> HIDE DEF a, b
    <3>2. a <= n - 1
      BY <3>1
    <3> QED  BY <3>2 DEF a
  <2>6. n - (i - 1) * size \in Nat \ {0}
    BY <2>3, <2>4, <2>5
  <2>7. T[i].start = (i - 1) * size /\ T[i].rows = Min({n - (i - 1) * size, size})
    BY <1>2
  <2>8. T[i].rows = IF n - (i - 1) * size <= size THEN n - (i - 1) * size ELSE size
    BY <2>6, <2>7, MinOfTwo
  <2> QED
    <3> DEFINE a == (i - 1) * size
    <3>1. a \in Nat /\ n - a \in Nat \ {0} /\ T[i].rows = IF n - a <= size THEN n - a ELSE size
      BY <2>3, <2>6, <2>8
    <3>2. a < n /\ T[i].rows \in 1 .. size /\ a + T[i].rows <= n
      <4> HIDE DEF a
      <4> QED  BY <3>1
    <3> QED  BY <3>1, <3>2, <2>7
<1>4. ASSUME NEW r \in 0 .. n - 1
      PROVE  \E i \in DOMAIN T : IsIn(T[i], r)
  <2>0. r \in Nat
    OBVIOUS
  <2>1. PICK q \in Nat, x \in 0 .. size - 1 : r = q * size + x
    BY <2>0, Division
  <2> DEFINE a == q * size   b == k * size   c == (q + 1) * size
  <2>2. a \in Nat /\ b \in Nat /\ c = a + size /\ r = a + x /\ n + size - 1 = b + m
    <3>1. a \in Nat /\ b \in Nat
      OBVIOUS
    <3>2. c = a + size
      OBVIOUS
    <3> HIDE DEF a, b, c
    <3>3. r = a + x
      BY <2>1 DEF a
    <3>4. n + size - 1 = b + m
      BY <1>1 DEF b
    <3> QED  BY <3>1, <3>2, <3>3, <3>4
  <2>3. k < q + 1 => b + size <= c
    BY NextMultiple
  <2>4. (q + 1) - 1 = q
    OBVIOUS
  <2> HIDE DEF a, b, c
  <2>5. q + 1 \in 1 .. k
    BY <2>2, <2>3
  <2>6. T[q + 1].start = a /\ T[q + 1].rows = Min({n - a, size})
    BY <1>2, <2>4, <2>5 DEF a
  <2>7. n - a \in Nat /\ x <= n - a - 1
    BY <2>2
  <2>8. x \in 0 .. T[q + 1].rows - 1
    BY <2>6, <2>7, MinOfTwo
  <2>9. T[q + 1].rows \in Nat
    BY <1>3, <2>5
  <2>10. r \in T[q + 1].start .. T[q + 1].start + T[q + 1].rows - 1
    BY <2>2, <2>6, <2>8, <2>9
  <2> QED  BY <1>2, <2>5, <2>10 DEF IsIn
<1>5. ASSUME NEW i \in DOMAIN T, NEW j \in DOMAIN T, NEW r, IsIn(T[i], r), IsIn(T[j], r)
      PROVE  i = j
  <2>1. i \in 1 .. k /\ j \in 1 .. k
    BY <1>2, <1>5
  <2> DEFINE a == (i - 1) * size   b == (j - 1) * size
  <2>2. a \in Nat /\ b \in Nat /\ T[i].rows \in 1 .. size /\ T[j].rows \in 1 .. size
        /\ r \in a .. a + T[i].rows - 1 /\ r \in b .. b + T[j].rows - 1
    BY <2>1, <1>3, <1>5 DEF IsIn
  <2>3. \E x, y \in 0 .. size - 1 : a + x = b + y
    <3> HIDE DEF a, b
    <3>1. r - a \in 0 .. size - 1 /\ r - b \in 0 .. size - 1 /\ a + (r - a) = b + (r - b)
      BY <2>2
    <3> QED  BY <3>1
  <2>4. i - 1 \in Nat /\ j - 1 \in Nat
    BY <2>1
  <2>5. i - 1 = j - 1
    BY <2>3, <2>4, QuotientIsOwn
  <2> QED  BY <2>1, <2>5
<1>6. \A i \in DOMAIN T : /\ T[i].start \in Nat /\ T[i].rows \in Nat \ {0}
                          /\ T[i].start + T[i].rows <= n
  BY <1>2, <1>3
<1> QED  BY <1>4, <1>5, <1>6

-----------------------------------------------------------------------------
(* Who writes what.  Columns of n rows lie one after the other.              *)
Has(slice, row, col) == /\ row \in slice.row .. slice.row + slice.rows - 1
                        /\ col \in slice.col .. slice.col + slice.cols - 1

\* A slice lies in the matrix, and what RunSlice writes for its own row r and
\* column c, at the cell at + c * rows + r, goes to the cell of those in the matrix.
InPlace(slice, n, m) ==
    /\ slice.row \in Nat /\ slice.col \in Nat /\ slice.rows \in Nat \ {0} /\ slice.cols \in Nat \ {0}
    /\ slice.row + slice.rows <= n /\ slice.col + slice.cols <= m
    /\ \A r \in 0 .. slice.rows - 1, c \in 0 .. slice.cols - 1 :
          slice.at + c * slice.rows + r = (slice.col + c) * n + (slice.row + r)

\* Tasks whose slices are all in place, and one of them, of one task, writes a
\* cell: none is left out or written twice.
Partition(T, n, m) ==
    /\ \A t \in T : \A i \in DOMAIN t : InPlace(t[i], n, m)
    /\ \A row \in 0 .. n - 1, col \in 0 .. m - 1 : \E t \in T : \E i \in DOMAIN t : Has(t[i], row, col)
    /\ \A t, u \in T : \A i \in DOMAIN t, j \in DOMAIN u : \A row, col :
          Has(t[i], row, col) /\ Has(u[j], row, col) => t = u /\ i = j

LEMMA WholeIsOne ==
  ASSUME NEW n \in Nat \ {0}, NEW m \in Nat \ {0}
  PROVE  Partition(Whole(n, m), n, m)
<1> DEFINE slice == Slice(0, 0, 0, n, m)
<1>1. \A t \in Whole(n, m) : t = <<slice>>
  BY DEF Whole
<1>2. \A r \in 0 .. n - 1, c \in 0 .. m - 1 : 0 + c * n + r = (0 + c) * n + (0 + r)
  OBVIOUS
<1>3. InPlace(slice, n, m)
  BY <1>2 DEF InPlace, Slice
<1>4. \A row \in 0 .. n - 1, col \in 0 .. m - 1 : Has(slice, row, col)
  BY DEF Has, Slice
<1> HIDE DEF slice
<1>5. <<slice>> \in Whole(n, m)
  BY DEF Whole, slice
<1> QED  BY <1>1, <1>3, <1>4, <1>5 DEF Partition

\* A slice of one column starts where its first row is.
LEMMA OneColumn ==
  ASSUME NEW n \in Nat \ {0}, NEW m \in Nat \ {0}, NEW slice,
         slice.row \in Nat, slice.rows \in Nat \ {0}, slice.row + slice.rows <= n,
         slice.col \in 0 .. m - 1, slice.cols = 1, slice.at = slice.col * n + slice.row
  PROVE  /\ InPlace(slice, n, m)
         /\ \A r, c : Has(slice, r, c) <=>
               (r \in slice.row .. slice.row + slice.rows - 1 /\ c = slice.col)
<1> DEFINE row == slice.row  col == slice.col  rows == slice.rows
<1>2. ASSUME NEW r \in 0 .. rows - 1, NEW c \in 0 .. 0
      PROVE  slice.at + c * rows + r = (col + c) * n + (row + r)
  <2>1. c = 0 /\ c * rows = 0 /\ (col + c) * n = col * n /\ col * n \in Nat
    OBVIOUS
  <2> QED  BY <2>1
<1>3. InPlace(slice, n, m)
  BY <1>2 DEF InPlace
<1>4. \A r, c : Has(slice, r, c) <=> (r \in row .. row + rows - 1 /\ c = col)
  <2>1. col \in Int
    OBVIOUS
  <2> HIDE DEF col
  <2>2. \A c : (c \in col .. col + 1 - 1) <=> (c = col)
    BY <2>1
  <2> QED  BY <2>2 DEF Has, col
<1> QED  BY <1>3, <1>4

\* Tasks of one slice each that share no cell and leave none out.
LEMMA OneSliceEach ==
  ASSUME NEW n, NEW m, NEW T,
         \A t \in T : DOMAIN t = {1} /\ InPlace(t[1], n, m),
         \A row \in 0 .. n - 1, col \in 0 .. m - 1 : \E t \in T : Has(t[1], row, col),
         \A t, u \in T : \A row, col : Has(t[1], row, col) /\ Has(u[1], row, col) => t = u
  PROVE  Partition(T, n, m)
  BY DEF Partition

\* One task for each row.
LEMMA RowsPartition ==
  ASSUME NEW s \in AllShapes
  PROVE  Partition(RowTasks(s), s.rows, 1)
<1> DEFINE n == s.rows
           T == {<<Slice(row, 0, row, 1, 1)>> : row \in 0 .. n - 1}
<1>0. n \in Nat \ {0}
  BY DEF AllShapes
<1>1. RowTasks(s) = Whole(n, 1) \/ RowTasks(s) = T
  BY DEF RowTasks
<1>2. /\ \A t \in T : \E row \in 0 .. n - 1 : t = <<Slice(row, 0, row, 1, 1)>>
      /\ \A row \in 0 .. n - 1 : <<Slice(row, 0, row, 1, 1)>> \in T
  OBVIOUS
<1>3. ASSUME NEW t \in T, NEW row \in 0 .. n - 1, t = <<Slice(row, 0, row, 1, 1)>>
      PROVE  /\ DOMAIN t = {1} /\ InPlace(t[1], n, 1)
             /\ \A r, c : Has(t[1], r, c) <=> (r = row /\ c = 0)
  <2> HIDE DEF T
  <2>1. /\ DOMAIN t = {1}
        /\ t[1].row = row /\ t[1].col = 0 /\ t[1].at = row /\ t[1].rows = 1 /\ t[1].cols = 1
    BY <1>3 DEF Slice
  <2> HIDE DEF n
  <2>2. t[1].row + t[1].rows <= n /\ t[1].at = t[1].col * n + t[1].row
    BY <1>0, <2>1
  <2>3. /\ InPlace(t[1], n, 1)
        /\ \A r, c : Has(t[1], r, c) <=> (r \in t[1].row .. t[1].row + t[1].rows - 1 /\ c = t[1].col)
    BY <1>0, <2>1, <2>2, OneColumn
  <2>4. \A r : r \in row .. row + 1 - 1 <=> r = row
    BY <1>0
  <2> QED  BY <2>1, <2>3, <2>4
<1> HIDE DEF n, T
<1>4. \A t \in T : DOMAIN t = {1} /\ InPlace(t[1], n, 1)
  BY <1>2, <1>3
<1>5. \A row \in 0 .. n - 1, col \in 0 .. 1 - 1 : \E t \in T : Has(t[1], row, col)
  <2>1. \A col \in 0 .. 1 - 1 : col = 0
    OBVIOUS
  <2> QED  BY <1>2, <1>3, <2>1
<1>6. ASSUME NEW t \in T, NEW u \in T, NEW row, NEW col, Has(t[1], row, col), Has(u[1], row, col)
      PROVE  t = u
  <2>1. PICK a \in 0 .. n - 1 : t = <<Slice(a, 0, a, 1, 1)>>
    BY <1>2
  <2>2. PICK b \in 0 .. n - 1 : u = <<Slice(b, 0, b, 1, 1)>>
    BY <1>2
  <2>3. row = a /\ row = b
    BY <1>3, <1>6, <2>1, <2>2
  <2> QED  BY <2>1, <2>2, <2>3
<1>7. Partition(T, n, 1)
  BY <1>4, <1>5, <1>6, OneSliceEach
<1>8. Partition(Whole(n, 1), n, 1)
  BY <1>0, WholeIsOne
<1> QED  BY <1>1, <1>7, <1>8 DEF n

\* One task for each column.
LEMMA BatchPartition ==
  ASSUME NEW s \in AllShapes
  PROVE  Partition(BatchTasks(s), s.rows, s.batch)
<1> DEFINE n == s.rows   m == s.batch
           T == {<<Slice(0, mi, mi * n, n, 1)>> : mi \in 0 .. m - 1}
<1>0. n \in Nat \ {0} /\ m \in Nat \ {0}
  BY DEF AllShapes
<1>1. BatchTasks(s) = Whole(n, m) \/ BatchTasks(s) = T
  BY DEF BatchTasks
<1>2. /\ \A t \in T : \E mi \in 0 .. m - 1 : t = <<Slice(0, mi, mi * n, n, 1)>>
      /\ \A mi \in 0 .. m - 1 : <<Slice(0, mi, mi * n, n, 1)>> \in T
  OBVIOUS
<1>3. ASSUME NEW t \in T, NEW mi \in 0 .. m - 1, t = <<Slice(0, mi, mi * n, n, 1)>>
      PROVE  /\ DOMAIN t = {1} /\ InPlace(t[1], n, m)
             /\ \A r, c : Has(t[1], r, c) <=> (r \in 0 .. n - 1 /\ c = mi)
  <2> HIDE DEF T, n, m
  <2>1. /\ DOMAIN t = {1}
        /\ t[1].row = 0 /\ t[1].col = mi /\ t[1].at = mi * n /\ t[1].rows = n /\ t[1].cols = 1
    BY <1>3 DEF Slice
  <2>2. t[1].row + t[1].rows = n /\ t[1].at = t[1].col * n + t[1].row
    BY <1>0, <2>1
  <2>3. /\ InPlace(t[1], n, m)
        /\ \A r, c : Has(t[1], r, c) <=> (r \in t[1].row .. t[1].row + t[1].rows - 1 /\ c = t[1].col)
    BY <1>0, <2>1, <2>2, OneColumn
  <2>4. t[1].row .. t[1].row + t[1].rows - 1 = 0 .. n - 1
    BY <1>0, <2>1
  <2> QED  BY <2>1, <2>3, <2>4
<1> HIDE DEF n, m, T
<1>4. \A t \in T : DOMAIN t = {1} /\ InPlace(t[1], n, m)
  BY <1>2, <1>3
<1>5. \A row \in 0 .. n - 1, col \in 0 .. m - 1 : \E t \in T : Has(t[1], row, col)
  BY <1>2, <1>3
<1>6. ASSUME NEW t \in T, NEW u \in T, NEW row, NEW col, Has(t[1], row, col), Has(u[1], row, col)
      PROVE  t = u
  <2>1. PICK a \in 0 .. m - 1 : t = <<Slice(0, a, a * n, n, 1)>>
    BY <1>2
  <2>2. PICK b \in 0 .. m - 1 : u = <<Slice(0, b, b * n, n, 1)>>
    BY <1>2
  <2>3. col = a /\ col = b
    BY <1>3, <1>6, <2>1, <2>2
  <2> QED  BY <2>1, <2>2, <2>3
<1>7. Partition(T, n, m)
  BY <1>4, <1>5, <1>6, OneSliceEach
<1>8. Partition(Whole(n, m), n, m)
  BY <1>0, WholeIsOne
<1> QED  BY <1>1, <1>7, <1>8 DEF n, m

\* De-quantisation by chunks of blocks.
LEMMA ChunksPartition ==
  ASSUME NEW s \in AllShapes
  PROVE  Partition(dequant_1bit_g128_par(s), s.rows, 1)
<1> DEFINE n == s.rows
           C == TilesOf(n, DEQUANT_CHUNK)
           T == {<<Slice(C[i].start, 0, C[i].start, C[i].rows, 1)>> : i \in DOMAIN C}
<1>0. n \in Nat \ {0} /\ C = TilesOf(n, DEQUANT_CHUNK)
  BY DEF AllShapes
<1>1. dequant_1bit_g128_par(s) = Whole(n, 1) \/ dequant_1bit_g128_par(s) = T
  BY DEF dequant_1bit_g128_par
<1> HIDE DEF n, C
<1>2. /\ \A t \in T : \E i \in DOMAIN C : t = <<Slice(C[i].start, 0, C[i].start, C[i].rows, 1)>>
      /\ \A i \in DOMAIN C : <<Slice(C[i].start, 0, C[i].start, C[i].rows, 1)>> \in T
  OBVIOUS
<1> HIDE DEF T
<1>3. /\ \A i \in DOMAIN C : /\ C[i].start \in Nat /\ C[i].rows \in Nat \ {0}
                             /\ C[i].start + C[i].rows <= n
      /\ \A r \in 0 .. n - 1 : \E i \in DOMAIN C : IsIn(C[i], r)
      /\ \A i, j \in DOMAIN C : \A r : IsIn(C[i], r) /\ IsIn(C[j], r) => i = j
  BY <1>0, TilesPartition, TilesAssumption
<1>4. ASSUME NEW t \in T, NEW i \in DOMAIN C, t = <<Slice(C[i].start, 0, C[i].start, C[i].rows, 1)>>
      PROVE  /\ DOMAIN t = {1} /\ InPlace(t[1], n, 1)
             /\ \A r, c : Has(t[1], r, c) <=> (IsIn(C[i], r) /\ c = 0)
  <2>1. /\ DOMAIN t = {1}
        /\ t[1].row = C[i].start /\ t[1].col = 0 /\ t[1].at = C[i].start
        /\ t[1].rows = C[i].rows /\ t[1].cols = 1
    BY <1>4 DEF Slice
  <2>2. /\ t[1].row \in Nat /\ t[1].rows \in Nat \ {0} /\ t[1].row + t[1].rows <= n
        /\ t[1].at = t[1].col * n + t[1].row
    BY <1>0, <1>3, <2>1
  <2>3. /\ InPlace(t[1], n, 1)
        /\ \A r, c : Has(t[1], r, c) <=> (r \in t[1].row .. t[1].row + t[1].rows - 1 /\ c = t[1].col)
    BY <1>0, <2>1, <2>2, OneColumn
  <2> QED  BY <2>1, <2>3 DEF IsIn
<1>5. \A t \in T : DOMAIN t = {1} /\ InPlace(t[1], n, 1)
  BY <1>2, <1>4
<1>6. \A row \in 0 .. n - 1, col \in 0 .. 1 - 1 : \E t \in T : Has(t[1], row, col)
  <2>1. \A col \in 0 .. 1 - 1 : col = 0
    OBVIOUS
  <2> SUFFICES ASSUME NEW row \in 0 .. n - 1 PROVE \E t \in T : Has(t[1], row, 0)
    BY <2>1
  <2>2. PICK i \in DOMAIN C : IsIn(C[i], row)
    BY <1>3
  <2> QED  BY <1>2, <1>4, <2>2
<1>7. ASSUME NEW t \in T, NEW u \in T, NEW row, NEW col, Has(t[1], row, col), Has(u[1], row, col)
      PROVE  t = u
  <2>1. PICK i \in DOMAIN C : t = <<Slice(C[i].start, 0, C[i].start, C[i].rows, 1)>>
    BY <1>2
  <2>2. PICK j \in DOMAIN C : u = <<Slice(C[j].start, 0, C[j].start, C[j].rows, 1)>>
    BY <1>2
  <2>3. IsIn(C[i], row) /\ IsIn(C[j], row)
    BY <1>4, <1>7, <2>1, <2>2
  <2>4. i = j
    BY <1>3, <2>3
  <2> QED  BY <2>1, <2>2, <2>4
<1>8. Partition(T, n, 1)
  BY <1>5, <1>6, <1>7, OneSliceEach
<1>9. Partition(Whole(n, 1), n, 1)
  BY <1>0, WholeIsOne
<1> QED  BY <1>1, <1>8, <1>9 DEF n

\* The tiles of one column, one after the other.
LEMMA TiledColumn ==
  ASSUME NEW s \in AllShapes, NEW m \in Nat \ {0}, NEW mi \in 0 .. m - 1,
         NEW start \in Nat, NEW rows \in Nat \ {0}, start + rows <= s.rows,
         NEW size \in Nat \ {0}, NEW t, t = TiledRows(s, start, rows, size, mi)
  PROVE  /\ \A i \in DOMAIN t : InPlace(t[i], s.rows, m)
         /\ \A row \in start .. start + rows - 1 : \E i \in DOMAIN t : Has(t[i], row, mi)
         /\ \A i, j \in DOMAIN t : \A row, col : Has(t[i], row, col) /\ Has(t[j], row, col) => i = j
         /\ \A i \in DOMAIN t : \A row, col :
               Has(t[i], row, col) => row \in start .. start + rows - 1 /\ col = mi
<1> DEFINE n == s.rows
           T == TilesOf(rows, size)
<1>0. n \in Nat \ {0} /\ T = TilesOf(rows, size) /\ start + rows <= n
  BY DEF AllShapes
<1>1. /\ DOMAIN t = DOMAIN T
      /\ \A i \in DOMAIN t :
            t[i] = Slice(start + T[i].start, mi, mi * n + start + T[i].start, T[i].rows, 1)
  BY DEF TiledRows
<1> HIDE DEF n, T
<1>2. /\ \A i \in DOMAIN T : /\ T[i].start \in Nat /\ T[i].rows \in Nat \ {0}
                             /\ T[i].start + T[i].rows <= rows
      /\ \A r \in 0 .. rows - 1 : \E i \in DOMAIN T : IsIn(T[i], r)
      /\ \A i, j \in DOMAIN T : \A r : IsIn(T[i], r) /\ IsIn(T[j], r) => i = j
  BY <1>0, TilesPartition
<1>3. ASSUME NEW i \in DOMAIN t
      PROVE  /\ InPlace(t[i], n, m)
             /\ \A row, col : Has(t[i], row, col) <=> row \in Int /\ IsIn(T[i], row - start) /\ col = mi
  <2>1. T[i].start \in Nat /\ T[i].rows \in Nat \ {0} /\ T[i].start + T[i].rows <= rows
    BY <1>1, <1>2
  <2>2. PICK p : p = t[i]
    OBVIOUS
  <2>3. /\ p.row = start + T[i].start /\ p.col = mi /\ p.rows = T[i].rows /\ p.cols = 1
        /\ p.at = mi * n + start + T[i].start
    BY <1>1, <2>2 DEF Slice
  <2>4. /\ InPlace(p, n, m)
        /\ \A r, c : Has(p, r, c) <=> (r \in p.row .. p.row + p.rows - 1 /\ c = p.col)
    <3>1. mi * n \in Nat
      BY <1>0
    <3>2. /\ p.row \in Nat /\ p.row + p.rows <= n
          /\ p.at = p.col * n + p.row
      BY <1>0, <2>1, <2>3, <3>1
    <3>3. /\ n \in Nat \ {0} /\ m \in Nat \ {0} /\ p.rows \in Nat \ {0}
          /\ p.col \in 0 .. m - 1 /\ p.cols = 1
      BY <1>0, <2>1, <2>3
    <3> QED  BY <3>2, <3>3, OneColumn
  <2>5. \A row : row \in start + T[i].start .. (start + T[i].start) + T[i].rows - 1
                   <=> row \in Int /\ IsIn(T[i], row - start)
    BY <2>1 DEF IsIn
  <2> QED  BY <2>2, <2>3, <2>4, <2>5
<1>4. ASSUME NEW row \in start .. start + rows - 1
      PROVE  \E i \in DOMAIN t : Has(t[i], row, mi)
  <2>1. row - start \in 0 .. rows - 1 /\ row \in Int
    OBVIOUS
  <2>2. PICK i \in DOMAIN T : IsIn(T[i], row - start)
    BY <1>2, <2>1
  <2> QED  BY <1>1, <1>3, <2>1, <2>2
<1>5. ASSUME NEW i \in DOMAIN t, NEW j \in DOMAIN t, NEW row, NEW col, Has(t[i], row, col), Has(t[j], row, col)
      PROVE  i = j
  BY <1>1, <1>2, <1>3, <1>5
<1>6. ASSUME NEW i \in DOMAIN t, NEW row, NEW col, Has(t[i], row, col)
      PROVE  row \in start .. start + rows - 1 /\ col = mi
  <2>1. row \in Int /\ IsIn(T[i], row - start) /\ col = mi
    BY <1>3, <1>6
  <2>2. T[i].start \in Nat /\ T[i].rows \in Nat \ {0} /\ T[i].start + T[i].rows <= rows
    BY <1>1, <1>2
  <2> QED  BY <2>1, <2>2 DEF IsIn
<1>7. \A i \in DOMAIN t : InPlace(t[i], s.rows, m)
  BY <1>3 DEF n
<1> QED  BY <1>4, <1>5, <1>6, <1>7

\* The tasks T are the parts of columns that Parts names, in tiles: the rows[k] from
\* start[k] on, of column col[k].  They leave no row out and share none.
AreParts(T, s, m, size, Parts, start, rows, col) ==
    /\ \A k \in Parts : /\ start[k] \in Nat /\ rows[k] \in Nat \ {0} /\ start[k] + rows[k] <= s.rows
                    /\ col[k] \in 0 .. m - 1
    /\ \A t \in T : \E k \in Parts : t = TiledRows(s, start[k], rows[k], size, col[k])
    /\ \A k \in Parts : TiledRows(s, start[k], rows[k], size, col[k]) \in T
    /\ \A r \in 0 .. s.rows - 1, c \in 0 .. m - 1 :
          \E k \in Parts : r \in start[k] .. start[k] + rows[k] - 1 /\ c = col[k]
    /\ \A k, l \in Parts : \A r :
          /\ r \in start[k] .. start[k] + rows[k] - 1 /\ r \in start[l] .. start[l] + rows[l] - 1
          /\ col[k] = col[l]
          => k = l

\* Such tasks write every cell, and none of them twice.
LEMMA PartsPartition ==
  ASSUME NEW s \in AllShapes, NEW m \in Nat \ {0}, NEW size \in Nat \ {0}, NEW T,
         NEW Parts, NEW start, NEW rows, NEW col, AreParts(T, s, m, size, Parts, start, rows, col)
  PROVE  Partition(T, s.rows, m)
<1>1. ASSUME NEW t \in T, NEW k \in Parts, t = TiledRows(s, start[k], rows[k], size, col[k])
      PROVE  /\ \A i \in DOMAIN t : InPlace(t[i], s.rows, m)
             /\ \A r \in start[k] .. start[k] + rows[k] - 1 : \E i \in DOMAIN t : Has(t[i], r, col[k])
             /\ \A i, j \in DOMAIN t : \A r, c : Has(t[i], r, c) /\ Has(t[j], r, c) => i = j
             /\ \A i \in DOMAIN t : \A r, c :
                   Has(t[i], r, c) => r \in start[k] .. start[k] + rows[k] - 1 /\ c = col[k]
  <2>1. /\ start[k] \in Nat /\ rows[k] \in Nat \ {0} /\ start[k] + rows[k] <= s.rows
        /\ col[k] \in 0 .. m - 1
    BY DEF AreParts
  <2>2. PICK a, b, mi : a = start[k] /\ b = rows[k] /\ mi = col[k]
    OBVIOUS
  <2>3. /\ a \in Nat /\ b \in Nat \ {0} /\ a + b <= s.rows /\ mi \in 0 .. m - 1
        /\ t = TiledRows(s, a, b, size, mi)
    BY <1>1, <2>1, <2>2
  <2>4. /\ \A i \in DOMAIN t : InPlace(t[i], s.rows, m)
        /\ \A r \in a .. a + b - 1 : \E i \in DOMAIN t : Has(t[i], r, mi)
        /\ \A i, j \in DOMAIN t : \A r, c : Has(t[i], r, c) /\ Has(t[j], r, c) => i = j
        /\ \A i \in DOMAIN t : \A r, c : Has(t[i], r, c) => r \in a .. a + b - 1 /\ c = mi
    BY <2>3, TiledColumn
  <2> QED  BY <2>2, <2>4
<1>2. \A t \in T : \A i \in DOMAIN t : InPlace(t[i], s.rows, m)
  BY <1>1 DEF AreParts
<1>3. ASSUME NEW r \in 0 .. s.rows - 1, NEW c \in 0 .. m - 1
      PROVE  \E t \in T : \E i \in DOMAIN t : Has(t[i], r, c)
  <2>1. PICK k \in Parts : r \in start[k] .. start[k] + rows[k] - 1 /\ c = col[k]
    BY DEF AreParts
  <2>2. PICK t \in T : t = TiledRows(s, start[k], rows[k], size, col[k])
    BY DEF AreParts
  <2> QED  BY <1>1, <2>1, <2>2
<1>4. ASSUME NEW t \in T, NEW u \in T, NEW i \in DOMAIN t, NEW j \in DOMAIN u, NEW r, NEW c,
             Has(t[i], r, c), Has(u[j], r, c)
      PROVE  t = u /\ i = j
  <2>1. PICK k \in Parts : t = TiledRows(s, start[k], rows[k], size, col[k])
    BY DEF AreParts
  <2>2. PICK l \in Parts : u = TiledRows(s, start[l], rows[l], size, col[l])
    BY DEF AreParts
  <2>3. r \in start[k] .. start[k] + rows[k] - 1 /\ c = col[k]
    BY <1>1, <1>4, <2>1
  <2>4. r \in start[l] .. start[l] + rows[l] - 1 /\ c = col[l]
    BY <1>1, <1>4, <2>2
  <2>5. k = l
    BY <2>3, <2>4 DEF AreParts
  <2> QED  BY <1>1, <1>4, <2>1, <2>2, <2>5
<1> QED  BY <1>2, <1>3, <1>4 DEF Partition

\* One task for each tile of the second level, in tiles of the first.
LEMMA L2Partition ==
  ASSUME NEW s \in AllShapes, NEW size \in Nat \ {0}
  PROVE  Partition(L2Tasks(s, size), s.rows, 1)
<1> DEFINE n == s.rows
           C == TilesOf(n, L2_TILE_ROWS)
           T == L2Tasks(s, size)
           Parts == DOMAIN C
           start == [k \in Parts |-> C[k].start]
           rows == [k \in Parts |-> C[k].rows]
           col == [k \in Parts |-> 0]
<1>0. n \in Nat \ {0} /\ C = TilesOf(n, L2_TILE_ROWS) /\ L2_TILE_ROWS \in Nat \ {0}
  BY TilesAssumption DEF AllShapes
<1>1. /\ \A t \in T : \E k \in Parts : t = TiledRows(s, C[k].start, C[k].rows, size, 0)
      /\ \A k \in Parts : TiledRows(s, C[k].start, C[k].rows, size, 0) \in T
  BY DEF L2Tasks
<1> HIDE DEF C, T
<1>2. /\ \A i \in DOMAIN C : /\ C[i].start \in Nat /\ C[i].rows \in Nat \ {0}
                             /\ C[i].start + C[i].rows <= n
      /\ \A r \in 0 .. n - 1 : \E i \in DOMAIN C : IsIn(C[i], r)
      /\ \A i, j \in DOMAIN C : \A r : IsIn(C[i], r) /\ IsIn(C[j], r) => i = j
  BY <1>0, TilesPartition
<1>3. \A k \in Parts : start[k] = C[k].start /\ rows[k] = C[k].rows /\ col[k] = 0
  OBVIOUS
<1> HIDE DEF Parts, start, rows, col
<1>4. \A k \in Parts : /\ start[k] \in Nat /\ rows[k] \in Nat \ {0} /\ start[k] + rows[k] <= s.rows
                   /\ col[k] \in 0 .. 1 - 1
  BY <1>2, <1>3 DEF Parts
<1>5. /\ \A t \in T : \E k \in Parts : t = TiledRows(s, start[k], rows[k], size, col[k])
      /\ \A k \in Parts : TiledRows(s, start[k], rows[k], size, col[k]) \in T
  BY <1>1, <1>3
<1>6. ASSUME NEW r \in 0 .. s.rows - 1, NEW c \in 0 .. 1 - 1
      PROVE  \E k \in Parts : r \in start[k] .. start[k] + rows[k] - 1 /\ c = col[k]
  <2>1. PICK k \in Parts : IsIn(C[k], r)
    BY <1>2 DEF Parts
  <2> QED  BY <1>3, <2>1 DEF IsIn
<1>7. \A k, l \in Parts : \A r :
            /\ r \in start[k] .. start[k] + rows[k] - 1 /\ r \in start[l] .. start[l] + rows[l] - 1
            /\ col[k] = col[l]
            => k = l
  BY <1>2, <1>3 DEF Parts, IsIn
<1>8. Partition(T, s.rows, 1)
  <2>1. AreParts(T, s, 1, size, Parts, start, rows, col)
    BY <1>4, <1>5, <1>6, <1>7 DEF AreParts
  <2> QED  BY <2>1, PartsPartition
<1> QED  BY <1>8 DEF T

\* One task for each column, in tiles of rows.
LEMMA ColumnPartition ==
  ASSUME NEW s \in AllShapes, NEW size \in Nat \ {0}
  PROVE  Partition(ColumnTasks(s, size), s.rows, s.batch)
<1> DEFINE n == s.rows
           m == s.batch
           T == ColumnTasks(s, size)
           Parts == 0 .. m - 1
           start == [k \in Parts |-> 0]
           rows == [k \in Parts |-> n]
           col == [k \in Parts |-> k]
<1>0. n \in Nat \ {0} /\ m \in Nat \ {0}
  BY DEF AllShapes
<1>1. /\ \A t \in T : \E k \in Parts : t = TiledRows(s, 0, n, size, k)
      /\ \A k \in Parts : TiledRows(s, 0, n, size, k) \in T
  BY DEF ColumnTasks
<1> HIDE DEF T
<1>2. \A k \in Parts : start[k] = 0 /\ rows[k] = n /\ col[k] = k
  OBVIOUS
<1> HIDE DEF start, rows, col
<1>3. \A k \in Parts : /\ start[k] \in Nat /\ rows[k] \in Nat \ {0} /\ start[k] + rows[k] <= s.rows
                   /\ col[k] \in 0 .. m - 1
  BY <1>0, <1>2
<1>4. /\ \A t \in T : \E k \in Parts : t = TiledRows(s, start[k], rows[k], size, col[k])
      /\ \A k \in Parts : TiledRows(s, start[k], rows[k], size, col[k]) \in T
  BY <1>1, <1>2
<1>5. \A r \in 0 .. s.rows - 1, c \in 0 .. m - 1 :
         \E k \in Parts : r \in start[k] .. start[k] + rows[k] - 1 /\ c = col[k]
  BY <1>0, <1>2
<1>6. \A k, l \in Parts : \A r :
            /\ r \in start[k] .. start[k] + rows[k] - 1 /\ r \in start[l] .. start[l] + rows[l] - 1
            /\ col[k] = col[l]
            => k = l
  BY <1>2
<1> HIDE DEF Parts, m
<1>7. m \in Nat \ {0}
  BY <1>0
<1>8. Partition(T, s.rows, m)
  <2>1. AreParts(T, s, m, size, Parts, start, rows, col)
    BY <1>3, <1>4, <1>5, <1>6 DEF AreParts
  <2> QED  BY <1>7, <2>1, PartsPartition
<1> QED  BY <1>8 DEF T, m

\* All rows in tiles, in one task.
LEMMA TiledPartition ==
  ASSUME NEW s \in AllShapes
  PROVE  Partition(gemv_tiled(s), s.rows, 1)
<1>1. s.rows \in Nat \ {0} /\ L1_TILE_ROWS \in Nat \ {0}
  BY TilesAssumption DEF AllShapes
<1>2. PICK t : t = TiledRows(s, 0, s.rows, L1_TILE_ROWS, 0)
  OBVIOUS
<1>3. gemv_tiled(s) = {t}
  BY <1>2 DEF gemv_tiled
<1>4. 0 + s.rows <= s.rows /\ 0 \in Nat /\ 1 \in Nat \ {0} /\ 0 \in 0 .. 1 - 1
  BY <1>1
<1>5. /\ \A i \in DOMAIN t : InPlace(t[i], s.rows, 1)
      /\ \A row \in 0 .. 0 + s.rows - 1 : \E i \in DOMAIN t : Has(t[i], row, 0)
      /\ \A i, j \in DOMAIN t : \A row, col : Has(t[i], row, col) /\ Has(t[j], row, col) => i = j
  BY <1>1, <1>2, <1>4, TiledColumn
<1>6. 0 .. 0 + s.rows - 1 = 0 .. s.rows - 1 /\ \A col \in 0 .. 1 - 1 : col = 0
  BY <1>1
<1> DEFINE T == gemv_tiled(s)
<1>7. t \in T /\ \A u \in T : u = t
  BY <1>3
<1> HIDE DEF T
<1>8. \A u \in T : \A i \in DOMAIN u : InPlace(u[i], s.rows, 1)
  BY <1>5, <1>7
<1>9. \A row \in 0 .. s.rows - 1, col \in 0 .. 1 - 1 : \E u \in T : \E i \in DOMAIN u : Has(u[i], row, col)
  <2>1. ASSUME NEW row \in 0 .. s.rows - 1, NEW col \in 0 .. 1 - 1
        PROVE  \E i \in DOMAIN t : Has(t[i], row, col)
    <3>1. row \in 0 .. 0 + s.rows - 1 /\ col = 0
      BY <1>6
    <3> QED  BY <1>5, <3>1
  <2> QED  BY <1>7, <2>1
<1>10. \A u, v \in T : \A i \in DOMAIN u, j \in DOMAIN v : \A row, col :
          Has(u[i], row, col) /\ Has(v[j], row, col) => u = v /\ i = j
  BY <1>5, <1>7
<1>11. Partition(T, s.rows, 1)
  BY <1>8, <1>9, <1>10 DEF Partition
<1> QED  BY <1>11 DEF T

\* No tile is empty.
LEMMA OptimalTileRowsIsPositive ==
  ASSUME NEW width \in Nat \ {0}
  PROVE  optimal_tile_rows(width) \in Nat \ {0}
<1> DEFINE free == Max({0, L1_BYTES - width * 128 * 4})
           fit == free \div (width * 18)
           least == Min({fit, L2_TILE_ROWS})
<1>1. L1_BYTES \in Nat /\ L2_TILE_ROWS \in Nat /\ MIN_TILE_ROWS \in Nat \ {0}
  BY TilesAssumption
<1>2. free \in Nat
  <2>1. PICK x \in Int : x = L1_BYTES - width * 128 * 4
    <3>1. \A a \in Nat : \E x \in Int : x = L1_BYTES - a
      BY <1>1
    <3>2. width * 128 * 4 \in Nat
      <4>1. width * 128 \in Nat
        BY SMT
      <4> QED  BY <4>1
    <3> QED  BY <3>1, <3>2
  <2>2. Max({0, x}) \in Nat
    <3>1. \A z \in {0, x} : (\A y \in {0, x} : z >= y) <=> z = IF x >= 0 THEN x ELSE 0
      OBVIOUS
    <3>2. Max({0, x}) = CHOOSE z \in {0, x} : \A y \in {0, x} : z >= y
      BY DEF Max
    <3> QED  BY <3>1, <3>2
  <2> QED  BY <2>1, <2>2
<1>3. fit \in Nat
  <2> HIDE DEF free
  <2>1. PICK d \in Nat \ {0} : d = width * 18
    OBVIOUS
  <2>2. free \div d \in Nat
    BY <1>2, <2>1, Division
  <2> QED  BY <2>1, <2>2
<1> HIDE DEF fit
<1>4. least \in Nat
  BY <1>1, <1>3, MinOfTwo
<1> HIDE DEF least
<1>5. Max({MIN_TILE_ROWS, least}) \in Nat \ {0}
  BY <1>1, <1>4, MaxIsAbove
<1> QED  BY <1>5 DEF optimal_tile_rows, least, fit

-----------------------------------------------------------------------------
(* gemm_tiled: three loops in one.                                           *)
\* The tiles, one by one.
Wide(m, g, q) == IF m - q * g <= g THEN m - q * g ELSE g
TileOf(T, n, size, q) == T[q + 1].start = q * size /\ T[q + 1].rows = Wide(n, size, q)
AreTiles(T, n) ==
    /\ \A i \in DOMAIN T : T[i].start \in Nat /\ T[i].rows \in Nat \ {0} /\ T[i].start + T[i].rows <= n
    /\ \A r \in 0 .. n - 1 : \E i \in DOMAIN T : IsIn(T[i], r)
    /\ \A i, j \in DOMAIN T : \A r : IsIn(T[i], r) /\ IsIn(T[j], r) => i = j

LEMMA TileValues ==
  ASSUME NEW n \in Nat \ {0}, NEW size \in Nat \ {0}
  PROVE  /\ Len(TilesOf(n, size)) \in Nat \ {0}
         /\ DOMAIN TilesOf(n, size) = 1 .. Len(TilesOf(n, size))
         /\ TilesOf(n, size) = [i \in 1 .. Len(TilesOf(n, size)) |-> TilesOf(n, size)[i]]
         /\ AreTiles(TilesOf(n, size), n)
         /\ \A q \in Nat : q * size < n => TileOf(TilesOf(n, size), n, size, q)
<1> DEFINE T == TilesOf(n, size)
<1>1. PICK k \in Nat, m \in 0 .. size - 1 :
         k = (n + size - 1) \div size /\ n + size - 1 = k * size + m
  BY Division
<1>2. /\ T = [i \in 1 .. k |-> T[i]] /\ DOMAIN T = 1 .. k
      /\ \A i \in 1 .. k : T[i].start = (i - 1) * size /\ T[i].rows = Min({n - (i - 1) * size, size})
  BY <1>1 DEF TilesOf
<1>0. AreTiles(T, n)
  BY TilesPartition DEF AreTiles
<1> HIDE DEF T
<1>3. k # 0
  <2>1. 0 * size = 0
    OBVIOUS
  <2> QED  BY <1>1, <2>1
<1>4. ASSUME NEW q \in Nat, q * size < n
      PROVE  TileOf(T, n, size, q)
  <2>1. q * size \in Nat /\ k * size \in Nat
    OBVIOUS
  <2>2. q < k
    <3> SUFFICES ASSUME k <= q PROVE FALSE
      OBVIOUS
    <3>1. (q - k) * size >= 0 /\ (q - k) * size = q * size - k * size
      OBVIOUS
    <3> DEFINE a == q * size  b == k * size
    <3>2. b <= a /\ a < n /\ n + size - 1 = b + m /\ a \in Nat /\ b \in Nat
      BY <1>1, <1>4, <2>1, <3>1
    <3> HIDE DEF a, b
    <3>3. a - b <= m - size
      BY <3>2
    <3> QED  BY <3>2, <3>3
  <2>3. PICK i \in 1 .. k : i = q + 1
    BY <2>2
  <2>4. T[i].start = q * size /\ T[i].rows = Min({n - q * size, size})
    <3>1. i - 1 = q
      BY <2>3
    <3> QED  BY <1>2, <3>1
  <2>5. n - q * size \in Nat
    BY <2>1, <1>4
  <2>6. Min({n - q * size, size}) = IF n - q * size <= size THEN n - q * size ELSE size
    <3>1. PICK a \in Nat : a = n - q * size
      BY <2>5
    <3>2. Min({a, size}) = IF a <= size THEN a ELSE size
      BY MinOfTwo
    <3> QED  BY <3>1, <3>2
  <2> QED  BY <1>2, <2>3, <2>4, <2>6 DEF TileOf, Wide
<1>5. Len([i \in 1 .. k |-> T[i]]) = k
  OBVIOUS
<1>6. Len(T) = k
  BY <1>2, <1>5
<1> QED  BY <1>0, <1>2, <1>3, <1>4, <1>6 DEF T

\* Three loops in one: tiles of g of m columns, nt tiles of rows, columns of a tile.
InLoops(m, g, nt, q, y, z) ==
    /\ q \in Nat /\ q * g < m /\ y \in 0 .. nt - 1 /\ z \in 0 .. Wide(m, g, q) - 1
    /\ q * g + z \in 0 .. m - 1 /\ z \in 0 .. g - 1
IsRound(m, g, nt, p, q, y, z) ==
    /\ q = p \div (g * nt)
    /\ y = (p % (g * nt)) \div Wide(m, g, q)
    /\ z = (p % (g * nt)) % Wide(m, g, q)
    /\ p = q * (g * nt) + (y * Wide(m, g, q) + z)

LEMMA RoundIsOfLoops ==
  ASSUME NEW m \in Nat \ {0}, NEW g \in Nat \ {0}, NEW nt \in Nat \ {0}, NEW p \in 0 .. m * nt - 1
  PROVE  \E q, y, z : InLoops(m, g, nt, q, y, z) /\ IsRound(m, g, nt, p, q, y, z)
<1>1. PICK inOne \in Nat \ {0} : inOne = g * nt
  OBVIOUS
<1>2. p \in Nat /\ m * nt \in Nat /\ p < m * nt
  OBVIOUS
<1>3. PICK q \in Nat, x \in 0 .. inOne - 1 : q = p \div inOne /\ x = p % inOne /\ p = q * inOne + x
  BY <1>2, Z3
<1>4. PICK a \in Nat : a = q * g
  OBVIOUS
<1>5. q * inOne = a * nt /\ a * nt \in Nat
  BY <1>1, <1>4
<1>6. a < m
  <2> SUFFICES ASSUME m <= a PROVE FALSE
    BY <1>4
  <2>1. (a - m) * nt >= 0 /\ (a - m) * nt = a * nt - m * nt
    OBVIOUS
  <2> QED  BY <1>2, <1>3, <1>5, <2>1
<1>7. PICK w \in 1 .. g : w = Wide(m, g, q) /\ w = IF m - a <= g THEN m - a ELSE g
  BY <1>4, <1>6 DEF Wide
<1>8. x \in 0 .. w * nt - 1
  <2>1. CASE w = g
    BY <1>1, <2>1
  <2>2. CASE w = m - a
    <3>1. w * nt = m * nt - a * nt
      BY <2>2
    <3> QED  BY <1>2, <1>3, <1>5, <3>1
  <2> QED  BY <1>7, <2>1, <2>2
<1>9. x % w \in 0 .. w - 1 /\ x \div w \in 0 .. nt - 1 /\ x = (x \div w) * w + (x % w)
  <2>1. w \in Nat \ {0}
    OBVIOUS
  <2>2. \A cell \in 0 .. w * nt - 1 : /\ cell % w \in 0 .. w - 1 /\ cell \div w \in 0 .. nt - 1
                                    /\ cell = (cell \div w) * w + (cell % w)
    BY <2>1, CellOfRowAndColumn
  <2> QED  BY <1>8, <2>2
<1>10. PICK y \in 0 .. nt - 1, z \in 0 .. w - 1 : y = x \div w /\ z = x % w /\ x = y * w + z
  BY <1>9
<1>11. /\ y = (p % (g * nt)) \div w /\ z = (p % (g * nt)) % w /\ q = p \div (g * nt)
       /\ p = q * (g * nt) + (y * w + z) /\ q * g < m
  BY <1>1, <1>3, <1>4, <1>6, <1>10
<1>12. q * g + z \in 0 .. m - 1 /\ z \in 0 .. g - 1
  <2>1. z \in 0 .. w - 1
    BY <1>10
  <2>2. a + z \in 0 .. m - 1 /\ z \in 0 .. g - 1
    BY <1>6, <1>7, <2>1
  <2> QED  BY <1>4, <2>2
<1> QED  BY <1>7, <1>10, <1>11, <1>12 DEF InLoops, IsRound

LEMMA LoopsAreRounds ==
  ASSUME NEW m \in Nat \ {0}, NEW g \in Nat \ {0}, NEW nt \in Nat \ {0},
         NEW q, NEW y, NEW z, InLoops(m, g, nt, q, y, z)
  PROVE  \E p \in 0 .. m * nt - 1 : IsRound(m, g, nt, p, q, y, z)
<1>0. /\ q \in Nat /\ q * g < m /\ y \in 0 .. nt - 1 /\ z \in 0 .. Wide(m, g, q) - 1
  BY DEF InLoops
<1>12. PICK p : p = q * (g * nt) + (y * Wide(m, g, q) + z)
  OBVIOUS
<1>1. PICK inOne \in Nat \ {0} : inOne = g * nt
  OBVIOUS
<1>2. PICK a \in Nat : a = q * g
  BY <1>0
<1>3. q * inOne = a * nt /\ a * nt \in Nat
  BY <1>0, <1>1, <1>2
<1>4. PICK w \in 1 .. g : w = Wide(m, g, q) /\ w = IF m - a <= g THEN m - a ELSE g
  BY <1>0, <1>2 DEF Wide
<1>5. PICK x \in 0 .. w * nt - 1 : x = y * w + z /\ x % w = z /\ x \div w = y
  BY <1>0, <1>4, CellOfRowAndColumn
<1>6. w * nt <= g * nt
  <2>1. (g - w) * nt >= 0 /\ (g - w) * nt = g * nt - w * nt
    OBVIOUS
  <2> QED  BY <2>1
<1>7. x \in 0 .. inOne - 1
  <2>1. w * nt \in Nat
    OBVIOUS
  <2> QED  BY <1>1, <1>6, <2>1
<1>8. p = q * inOne + x
  BY <1>1, <1>4, <1>5, <1>12
<1>9. p \div inOne = q /\ p % inOne = x /\ p \in Nat
  BY <1>0, <1>7, <1>8, QuotientAndRemainder
<1>10. p < m * nt
  <2>1. w * nt <= (m - a) * nt
    <3>1. w <= m - a
      BY <1>0, <1>2, <1>4
    <3>2. (m - a - w) * nt >= 0 /\ (m - a - w) * nt = (m - a) * nt - w * nt
      BY <3>1
    <3> QED  BY <3>2
  <2>2. (m - a) * nt = m * nt - a * nt /\ m * nt \in Nat /\ w * nt \in Nat
    OBVIOUS
  <2> QED  BY <1>3, <1>8, <2>1, <2>2
<1>11. p \in 0 .. m * nt - 1
  <2>1. m * nt \in Nat
    OBVIOUS
  <2> QED  BY <1>9, <1>10, <2>1
<1> QED  BY <1>1, <1>4, <1>5, <1>9, <1>11, <1>12 DEF IsRound

\* The whole product by the one task of gemm_tiled.
LEMMA GemmTiledPartition ==
  ASSUME NEW s \in AllShapes
  PROVE  Partition(gemm_tiled(s), s.rows, s.batch)
<1> DEFINE n == s.rows
           m == s.batch
           g == GEMM_BATCH_TILE
           batches == TilesOf(m, g)
           tiles == TilesOf(n, L1_TILE_ROWS)
           nt == Len(tiles)
           Round(p) ==
             LET batch == batches[(p \div (g * nt)) + 1]
                 tile == tiles[((p % (g * nt)) \div batch.rows) + 1]
                 mi == batch.start + ((p % (g * nt)) % batch.rows)
             IN Slice(tile.start, mi, mi * n + tile.start, tile.rows, 1)
           t == [p \in 1 .. m * nt |-> Round(p - 1)]
<1>1. n \in Nat \ {0} /\ m \in Nat \ {0} /\ g \in Nat \ {0} /\ L1_TILE_ROWS \in Nat \ {0}
  BY TilesAssumption DEF AllShapes
<1>2. gemm_tiled(s) = {t}
  BY DEF gemm_tiled
<1>0. batches = TilesOf(m, g) /\ tiles = TilesOf(n, L1_TILE_ROWS) /\ nt = Len(tiles)
  OBVIOUS
<1> HIDE DEF n, m, g, batches, tiles, nt, Round, t
<1>3. \A q \in Nat : q * g < m => TileOf(batches, m, g, q)
  BY <1>0, <1>1, TileValues
<1>5. nt \in Nat \ {0} /\ DOMAIN tiles = 1 .. nt
  BY <1>0, <1>1, TileValues
<1>6. AreTiles(tiles, n)
  BY <1>0, <1>1, TileValues
<1> DEFINE TileAt(y, mi) == Slice(tiles[y + 1].start, mi, mi * n + tiles[y + 1].start, tiles[y + 1].rows, 1)
<1>7. ASSUME NEW p, NEW q, NEW y, NEW z, InLoops(m, g, nt, q, y, z), IsRound(m, g, nt, p, q, y, z)
      PROVE  Round(p) = TileAt(y, q * g + z)
  <2>1. batches[q + 1].start = q * g /\ batches[q + 1].rows = Wide(m, g, q)
    BY <1>3, <1>7 DEF TileOf, InLoops
  <2>2. (p \div (g * nt)) + 1 = q + 1
    BY <1>7 DEF IsRound
  <2>3. ((p % (g * nt)) \div batches[q + 1].rows) + 1 = y + 1
        /\ batches[q + 1].start + ((p % (g * nt)) % batches[q + 1].rows) = q * g + z
    BY <1>7, <2>1 DEF IsRound
  <2> QED  BY <2>2, <2>3 DEF Round
<1>11. ASSUME NEW y \in 0 .. nt - 1, NEW mi \in 0 .. m - 1
       PROVE  /\ InPlace(TileAt(y, mi), n, m)
              /\ \A r, c : Has(TileAt(y, mi), r, c) <=> IsIn(tiles[y + 1], r) /\ c = mi
  <2>1. y + 1 \in DOMAIN tiles
    BY <1>5
  <2>2. PICK p : p = TileAt(y, mi)
    OBVIOUS
  <2>3. /\ p.row = tiles[y + 1].start /\ p.rows = tiles[y + 1].rows /\ p.col = mi /\ p.cols = 1
        /\ p.at = p.col * n + p.row
    BY <2>2 DEF Slice
  <2>4. /\ p.row \in Nat /\ p.rows \in Nat \ {0} /\ p.row + p.rows <= n
    BY <1>6, <2>1, <2>3 DEF AreTiles
  <2>5. /\ InPlace(p, n, m)
        /\ \A r, c : Has(p, r, c) <=> (r \in p.row .. p.row + p.rows - 1 /\ c = p.col)
    BY <1>1, <2>3, <2>4, OneColumn
  <2> QED  BY <2>2, <2>3, <2>5 DEF IsIn
<1>12. PICK u : u = t
  OBVIOUS
<1>13. /\ DOMAIN u = 1 .. m * nt
       /\ \A i \in 1 .. m * nt : u[i] = Round(i - 1)
  BY <1>12 DEF t
<1> HIDE DEF At
<1>14. ASSUME NEW i \in DOMAIN u
       PROVE  \E q, y, z : /\ InLoops(m, g, nt, q, y, z) /\ IsRound(m, g, nt, i - 1, q, y, z)
                           /\ u[i] = TileAt(y, q * g + z)
  <2>1. i - 1 \in 0 .. m * nt - 1
    <3>1. m * nt \in Nat
      BY <1>1, <1>5
    <3> QED  BY <1>13, <3>1
  <2>2. PICK q, y, z : InLoops(m, g, nt, q, y, z) /\ IsRound(m, g, nt, i - 1, q, y, z)
    BY <1>1, <1>5, <2>1, RoundIsOfLoops
  <2>3. Round(i - 1) = TileAt(y, q * g + z)
    BY <1>7, <2>2
  <2> QED  BY <1>13, <2>2, <2>3
<1>15. ASSUME NEW q, NEW y, NEW z, InLoops(m, g, nt, q, y, z)
       PROVE  \E i \in DOMAIN u : u[i] = TileAt(y, q * g + z)
  <2>1. PICK p \in 0 .. m * nt - 1 : IsRound(m, g, nt, p, q, y, z)
    BY <1>1, <1>5, <1>15, LoopsAreRounds
  <2>2. Round(p) = TileAt(y, q * g + z)
    BY <1>7, <1>15, <2>1
  <2>3. p + 1 \in 1 .. m * nt /\ (p + 1) - 1 = p
    <3>1. m * nt \in Nat
      BY <1>1, <1>5
    <3> QED  BY <3>1
  <2> QED  BY <1>13, <2>2, <2>3
<1>16. ASSUME NEW i \in DOMAIN u
       PROVE  InPlace(u[i], n, m)
  <2>1. PICK q, y, z : InLoops(m, g, nt, q, y, z) /\ u[i] = TileAt(y, q * g + z)
    BY <1>14
  <2>2. y \in 0 .. nt - 1 /\ q * g + z \in 0 .. m - 1
    BY <2>1 DEF InLoops
  <2> QED  BY <1>11, <2>1, <2>2
<1>17. ASSUME NEW row \in 0 .. n - 1, NEW col \in 0 .. m - 1
       PROVE  \E i \in DOMAIN u : Has(u[i], row, col)
  <2>1. PICK y \in 0 .. nt - 1 : IsIn(tiles[y + 1], row)
    <3>1. PICK i \in 1 .. nt : IsIn(tiles[i], row)
      BY <1>5, <1>6 DEF AreTiles
    <3>2. i - 1 \in 0 .. nt - 1 /\ (i - 1) + 1 = i
      BY <1>5
    <3> QED  BY <3>1, <3>2
  <2>2. PICK q \in Nat : \E z \in 0 .. g - 1 : q = col \div g /\ col = q * g + z
    <3>1. col \in Nat
      BY <1>1
    <3> QED  BY <1>1, <3>1, Division
  <2>3. PICK z \in 0 .. g - 1 : col = q * g + z
    BY <2>2
  <2>4. InLoops(m, g, nt, q, y, z)
    <3>1. PICK a \in Nat : a = q * g
      BY <1>1
    <3>2. Wide(m, g, q) = IF m - a <= g THEN m - a ELSE g
      BY <3>1 DEF Wide
    <3>3. a < m /\ z \in 0 .. Wide(m, g, q) - 1
      BY <1>1, <2>3, <3>1, <3>2
    <3> QED  BY <2>1, <2>3, <3>1, <3>3 DEF InLoops
  <2>5. PICK i \in DOMAIN u : u[i] = TileAt(y, q * g + z)
    BY <1>15, <2>4
  <2> QED  BY <1>11, <2>1, <2>3, <2>5
<1>18. ASSUME NEW i \in DOMAIN u, NEW j \in DOMAIN u, NEW row, NEW col,
              Has(u[i], row, col), Has(u[j], row, col)
       PROVE  i = j
  <2>1. PICK q, y, z : /\ InLoops(m, g, nt, q, y, z) /\ IsRound(m, g, nt, i - 1, q, y, z)
                       /\ u[i] = TileAt(y, q * g + z)
    BY <1>14
  <2>2. PICK qq, yy, zz : /\ InLoops(m, g, nt, qq, yy, zz) /\ IsRound(m, g, nt, j - 1, qq, yy, zz)
                          /\ u[j] = TileAt(yy, qq * g + zz)
    BY <1>14
  <2>3. /\ q * g + z \in 0 .. m - 1 /\ z \in 0 .. g - 1 /\ q \in Nat /\ y \in 0 .. nt - 1
        /\ qq * g + zz \in 0 .. m - 1 /\ zz \in 0 .. g - 1 /\ qq \in Nat /\ yy \in 0 .. nt - 1
    BY <2>1, <2>2 DEF InLoops
  <2>4. /\ IsIn(tiles[y + 1], row) /\ col = q * g + z
        /\ IsIn(tiles[yy + 1], row) /\ col = qq * g + zz
    BY <1>11, <1>18, <2>1, <2>2, <2>3
  <2>5. q = qq /\ z = zz
    BY <1>1, <2>3, <2>4, QuotientIsOwn
  <2>6. y = yy
    <3>1. y + 1 \in DOMAIN tiles /\ yy + 1 \in DOMAIN tiles
      BY <1>5, <2>3
    <3>2. y + 1 = yy + 1
      BY <1>6, <2>4, <3>1 DEF AreTiles
    <3> QED  BY <2>3, <3>2
  <2>7. i - 1 = j - 1
    BY <2>1, <2>2, <2>5, <2>6 DEF IsRound
  <2>8. i \in Int /\ j \in Int
    BY <1>13
  <2> QED  BY <2>7, <2>8
<1> DEFINE T == gemm_tiled(s)
<1>19. u \in T /\ \A v \in T : v = u
  BY <1>2, <1>12
<1> HIDE DEF T
<1>20. Partition(T, n, m)
  BY <1>16, <1>17, <1>18, <1>19 DEF Partition
<1> QED  BY <1>20 DEF T, n, m

-----------------------------------------------------------------------------
(* Tasks.                                                                    *)
\* Whatever the sizes of the tiles, the limits and the shape of a product, the
\* tasks that parallel.rs, tiled.rs and parallel_tiled.rs cut it into write every
\* cell of the output, none of them twice, and each slice goes to the cells of
\* its own rows and columns: the threads of rayon share nothing, and the order
\* they run in cannot matter.
THEOREM TasksShareTheOutput ==
  ASSUME NEW s \in AllShapes
  PROVE  /\ \A T \in {RowTasks(s), gemv_tiled(s), gemv_tiled_par(s), gemv_parallel_tiled(s),
                      gemv_adaptive(s), gemv_adaptive_ternary(s), dequant_1bit_g128_par(s)} :
               Partition(T, s.rows, 1)
         /\ \A T \in {BatchTasks(s), gemm_tiled(s), gemm_tiled_par(s), gemm_parallel_tiled(s),
                      gemm_adaptive_ternary(s)} :
               Partition(T, s.rows, s.batch)
<1>1. /\ s.rows \in Nat \ {0} /\ s.batch \in Nat \ {0}
      /\ L1_TILE_ROWS \in Nat \ {0} /\ optimal_tile_rows(s.width) \in Nat \ {0}
  BY TilesAssumption, OptimalTileRowsIsPositive DEF AllShapes
<1>2. Partition(Whole(s.rows, 1), s.rows, 1) /\ Partition(Whole(s.rows, s.batch), s.rows, s.batch)
  BY <1>1, WholeIsOne
<1>3. Partition(RowTasks(s), s.rows, 1) /\ Partition(BatchTasks(s), s.rows, s.batch)
  BY RowsPartition, BatchPartition
<1>4. Partition(gemv_tiled(s), s.rows, 1) /\ Partition(dequant_1bit_g128_par(s), s.rows, 1)
  BY TiledPartition, ChunksPartition
<1>5. \A size \in Nat \ {0} : /\ Partition(L2Tasks(s, size), s.rows, 1)
                              /\ Partition(ColumnTasks(s, size), s.rows, s.batch)
  BY L2Partition, ColumnPartition
<1>6. Partition(gemv_tiled_par(s), s.rows, 1)
  BY <1>1, <1>4, <1>5 DEF gemv_tiled_par
<1>7. Partition(gemv_parallel_tiled(s), s.rows, 1)
  BY <1>1, <1>4, <1>5 DEF gemv_parallel_tiled
<1>8. Partition(gemv_adaptive(s), s.rows, 1)
  BY <1>2, <1>3, <1>7 DEF gemv_adaptive
<1>9. Partition(gemv_adaptive_ternary(s), s.rows, 1)
  BY <1>2, <1>3 DEF gemv_adaptive_ternary
<1>10. Partition(gemm_adaptive_ternary(s), s.rows, s.batch)
  BY <1>2, <1>3 DEF gemm_adaptive_ternary
<1>11. Partition(gemm_tiled(s), s.rows, s.batch)
  BY GemmTiledPartition
<1>12. Partition(gemm_tiled_par(s), s.rows, s.batch)
  BY <1>1, <1>5, <1>11 DEF gemm_tiled_par
<1>13. Partition(gemm_parallel_tiled(s), s.rows, s.batch)
  BY <1>1, <1>5, <1>11 DEF gemm_parallel_tiled
<1> QED  BY <1>3, <1>4, <1>6, <1>7, <1>8, <1>9, <1>10, <1>11, <1>12, <1>13

\* A task has slices, one after the other.
IsTask(t) == \E S : t \in Seq(S) /\ Len(t) \in Nat \ {0}

LEMMA OneSliceTask ==
  ASSUME NEW slice
  PROVE  IsTask(<<slice>>)
<1>1. PICK t : t = <<slice>>
  OBVIOUS
<1>2. PICK S : S = {slice}
  OBVIOUS
<1>3. t \in Seq(S) /\ Len(t) = 1
  BY <1>1, <1>2
<1>4. IsTask(t)
  BY <1>3 DEF IsTask
<1> QED  BY <1>1, <1>4

LEMMA NumberedTask ==
  ASSUME NEW k \in Nat \ {0}, NEW t, DOMAIN t = 1 .. k, t = [i \in 1 .. k |-> t[i]]
  PROVE  IsTask(t)
<1> DEFINE S == {t[i] : i \in 1 .. k}
<1>1. t \in [1 .. k -> S]
  OBVIOUS
<1>2. t \in Seq(S) /\ Len(t) = k
  <2> HIDE DEF S
  <2> QED  BY <1>1
<1> QED  BY <1>2 DEF IsTask

LEMMA TiledTask ==
  ASSUME NEW s, NEW start, NEW rows \in Nat \ {0}, NEW size \in Nat \ {0}, NEW mi
  PROVE  IsTask(TiledRows(s, start, rows, size, mi))
<1> DEFINE T == TilesOf(rows, size)
           t == TiledRows(s, start, rows, size, mi)
<1>1. Len(T) \in Nat \ {0} /\ DOMAIN T = 1 .. Len(T)
  BY TileValues
<1>2. DOMAIN t = DOMAIN T /\ t = [i \in DOMAIN T |-> t[i]]
  BY DEF TiledRows
<1> HIDE DEF T, t
<1>3. IsTask(t)
  BY <1>1, <1>2, NumberedTask
<1> QED  BY <1>3 DEF t

\* Every way to cut a product makes tasks.
AreTasks(T) == \A t \in T : IsTask(t)

LEMMA SlicesAreTasks ==
  ASSUME NEW s \in AllShapes, NEW size \in Nat \ {0}
  PROVE  /\ \A m \in Nat : AreTasks(Whole(s.rows, m))
         /\ AreTasks(RowTasks(s)) /\ AreTasks(BatchTasks(s)) /\ AreTasks(dequant_1bit_g128_par(s))
         /\ AreTasks(gemv_tiled(s)) /\ AreTasks(gemm_tiled(s))
         /\ AreTasks(L2Tasks(s, size)) /\ AreTasks(ColumnTasks(s, size))
<1>1. /\ s.rows \in Nat \ {0} /\ s.batch \in Nat \ {0}
      /\ L1_TILE_ROWS \in Nat \ {0} /\ L2_TILE_ROWS \in Nat \ {0} /\ GEMM_BATCH_TILE \in Nat \ {0}
  BY TilesAssumption DEF AllShapes
<1>2. \A m \in Nat : AreTasks(Whole(s.rows, m))
  BY OneSliceTask DEF AreTasks, Whole
<1>3. AreTasks(RowTasks(s)) /\ AreTasks(BatchTasks(s)) /\ AreTasks(dequant_1bit_g128_par(s))
  BY <1>1, <1>2, OneSliceTask DEF AreTasks, RowTasks, BatchTasks, dequant_1bit_g128_par
<1>4. AreTasks(gemv_tiled(s)) /\ AreTasks(ColumnTasks(s, size))
  BY <1>1, TiledTask DEF AreTasks, gemv_tiled, ColumnTasks
<1>5. AreTasks(L2Tasks(s, size))
  <2> DEFINE C == TilesOf(s.rows, L2_TILE_ROWS)
  <2>1. \A i \in DOMAIN C : C[i].rows \in Nat \ {0}
    BY <1>1, TileValues DEF AreTiles
  <2>2. \A t \in L2Tasks(s, size) : \E i \in DOMAIN C : t = TiledRows(s, C[i].start, C[i].rows, size, 0)
    BY DEF L2Tasks
  <2> HIDE DEF C
  <2> QED  BY <2>1, <2>2, TiledTask DEF AreTasks
<1>6. AreTasks(gemm_tiled(s))
  <2>1. PICK k : k = s.batch * Len(TilesOf(s.rows, L1_TILE_ROWS))
    OBVIOUS
  <2>2. k \in Nat \ {0}
    <3>1. PICK nt \in Nat \ {0} : nt = Len(TilesOf(s.rows, L1_TILE_ROWS))
      BY <1>1, TileValues
    <3> QED  BY <1>1, <2>1, <3>1
  <2>3. \A t \in gemm_tiled(s) : DOMAIN t = 1 .. k /\ t = [i \in 1 .. k |-> t[i]]
    BY <2>1 DEF gemm_tiled
  <2> QED  BY <2>2, <2>3, NumberedTask DEF AreTasks
<1> QED  BY <1>2, <1>3, <1>4, <1>5, <1>6

\* The rest of a task when its first slice is done.
LEMMA RestOfTask ==
  ASSUME NEW t, IsTask(t)
  PROVE  /\ 1 \in DOMAIN t
         /\ Len(t) = 1 => DOMAIN t = {1}
         /\ Len(t) # 1 => /\ IsTask(Tail(t))
                          /\ \A i \in DOMAIN Tail(t) : i + 1 \in DOMAIN t \ {1} /\ Tail(t)[i] = t[i + 1]
                          /\ \A i \in DOMAIN t \ {1} : i - 1 \in DOMAIN Tail(t) /\ Tail(t)[i - 1] = t[i]
<1>1. PICK S : t \in Seq(S) /\ Len(t) \in Nat \ {0}
  BY DEF IsTask
<1>2. DOMAIN t = 1 .. Len(t)
  BY <1>1
<1>3. ASSUME Len(t) # 1
      PROVE  /\ Tail(t) \in Seq(S) /\ Len(Tail(t)) = Len(t) - 1 /\ DOMAIN Tail(t) = 1 .. Len(t) - 1
             /\ \A i \in 1 .. Len(t) - 1 : Tail(t)[i] = t[i + 1]
  <2>1. t # <<>>
    BY <1>1
  <2> QED  BY <1>1, <1>3, <2>1
<1>4. ASSUME Len(t) # 1
      PROVE  /\ IsTask(Tail(t))
             /\ \A i \in DOMAIN Tail(t) : i + 1 \in DOMAIN t \ {1} /\ Tail(t)[i] = t[i + 1]
             /\ \A i \in DOMAIN t \ {1} : i - 1 \in DOMAIN Tail(t) /\ Tail(t)[i - 1] = t[i]
  <2>1. Len(t) - 1 \in Nat \ {0}
    BY <1>1, <1>4
  <2>2. IsTask(Tail(t))
    BY <1>3, <1>4, <2>1 DEF IsTask
  <2>3. \A i \in 1 .. Len(t) - 1 : i + 1 \in 1 .. Len(t) /\ i + 1 # 1
    BY <1>1
  <2>4. \A i \in (1 .. Len(t)) \ {1} : i - 1 \in 1 .. Len(t) - 1 /\ (i - 1) + 1 = i
    BY <1>1
  <2> QED  BY <1>2, <1>3, <1>4, <2>2, <2>3, <2>4
<1> QED  BY <1>1, <1>2, <1>4

-----------------------------------------------------------------------------
(* A warp: the lanes of a level hold the blocks of their remainder.          *)
LEMMA DisjointBags ==
  ASSUME NEW A, NEW B, A \cap B = {}
  PROVE  SetToBag(A) (+) SetToBag(B) = SetToBag(A \cup B)
  BY DEF SetToBag, (+)

\* The blocks whose number leaves the remainder l by d.
Leaving(w, d, l) == {b \in 0 .. w - 1 : b % d = l}
Level(sums, w, d) == \A l \in 0 .. d - 1 : sums[l] = SetToBag(Leaving(w, d, l))

LEMMA HalfTheRemainders ==
  ASSUME NEW w \in Nat, NEW half \in {1, 2, 4, 8, 16}, NEW l \in 0 .. half - 1
  PROVE  SetToBag(Leaving(w, 2 * half, l)) (+) SetToBag(Leaving(w, 2 * half, l + half))
             = SetToBag(Leaving(w, half, l))
<1>1. Leaving(w, 2 * half, l) \cap Leaving(w, 2 * half, l + half) = {}
  BY DEF Leaving
<1>2. \A b \in 0 .. w - 1 : b % half = l <=> b % (2 * half) = l \/ b % (2 * half) = l + half
  <2>1. CASE half = 1
    BY <2>1
  <2>2. CASE half = 2
    BY <2>2
  <2>3. CASE half = 4
    BY <2>3
  <2>4. CASE half = 8
    BY <2>4
  <2>5. CASE half = 16
    BY <2>5
  <2> QED  BY <2>1, <2>2, <2>3, <2>4, <2>5
<1>3. Leaving(w, 2 * half, l) \cup Leaving(w, 2 * half, l + half) = Leaving(w, half, l)
  BY <1>2 DEF Leaving
<1> QED  BY <1>1, <1>3, DisjointBags

LEMMA LaneSumsLevel ==
  ASSUME NEW w \in Nat
  PROVE  Level(LaneSums(w), w, 32)
  BY DEF Level, LaneSums, Lanes, Leaving

LEMMA ShuffleDownLevel ==
  ASSUME NEW w \in Nat, NEW half \in {1, 2, 4, 8, 16}, NEW sums, Level(sums, w, 2 * half)
  PROVE  Level(ShuffleDown(sums, half), w, half)
<1> SUFFICES ASSUME NEW l \in 0 .. half - 1
             PROVE  ShuffleDown(sums, half)[l] = SetToBag(Leaving(w, half, l))
  BY DEF Level
<1>1. l \in Lanes /\ l + half \in Lanes /\ l \in 0 .. 2 * half - 1 /\ l + half \in 0 .. 2 * half - 1
  BY DEF Lanes
<1>2. ShuffleDown(sums, half)[l] = sums[l] (+) sums[l + half]
  BY <1>1 DEF ShuffleDown
<1> QED  BY <1>1, <1>2, HalfTheRemainders DEF Level

LEMMA HalvedLevel ==
  ASSUME NEW w \in Nat, NEW half \in {1, 2, 4, 8, 16}, NEW sums, Level(sums, w, 2 * half)
  PROVE  Level(Halved(sums, half), w, half)
<1> SUFFICES ASSUME NEW l \in 0 .. half - 1
             PROVE  Halved(sums, half)[l] = SetToBag(Leaving(w, half, l))
  BY DEF Level
<1>1. l \in 0 .. 2 * half - 1 /\ l + half \in 0 .. 2 * half - 1
  OBVIOUS
<1>2. Halved(sums, half)[l] = sums[l] (+) sums[l + half]
  BY DEF Halved
<1> QED  BY <1>1, <1>2, HalfTheRemainders DEF Level

\* Lane 0 ends with every block of the row once, by either instruction.
LEMMA WarpHasAllBlocks ==
  ASSUME NEW w \in Widths, w \in Nat
  PROVE  warp_shuffle[w] = SetToBag(0 .. w - 1) /\ simd_sum[w] = SetToBag(0 .. w - 1)
<1> DEFINE by16 == ShuffleDown(LaneSums(w), 16)
           by8 == ShuffleDown(by16, 8)
           by4 == ShuffleDown(by8, 4)
           by2 == ShuffleDown(by4, 2)
           by1 == ShuffleDown(by2, 1)
           of16 == Halved(LaneSums(w), 16)
           of8 == Halved(of16, 8)
           of4 == Halved(of8, 4)
           of2 == Halved(of4, 2)
           of1 == Halved(of2, 1)
<1>1. warp_shuffle[w] = by1[0] /\ simd_sum[w] = of1[0]
  BY DEF warp_shuffle, simd_sum
<1>2. Level(LaneSums(w), w, 2 * 16)
  BY LaneSumsLevel
<1>3. Level(by16, w, 16) /\ Level(of16, w, 16)
  BY <1>2, ShuffleDownLevel, HalvedLevel
<1> HIDE DEF by16, of16
<1>4. Level(by16, w, 2 * 8) /\ Level(of16, w, 2 * 8)
  BY <1>3
<1>5. Level(by8, w, 8) /\ Level(of8, w, 8)
  BY <1>4, ShuffleDownLevel, HalvedLevel
<1> HIDE DEF by8, of8
<1>6. Level(by8, w, 2 * 4) /\ Level(of8, w, 2 * 4)
  BY <1>5
<1>7. Level(by4, w, 4) /\ Level(of4, w, 4)
  BY <1>6, ShuffleDownLevel, HalvedLevel
<1> HIDE DEF by4, of4
<1>8. Level(by4, w, 2 * 2) /\ Level(of4, w, 2 * 2)
  BY <1>7
<1>9. Level(by2, w, 2) /\ Level(of2, w, 2)
  BY <1>8, ShuffleDownLevel, HalvedLevel
<1> HIDE DEF by2, of2
<1>10. Level(by2, w, 2 * 1) /\ Level(of2, w, 2 * 1)
  BY <1>9
<1>11. Level(by1, w, 1) /\ Level(of1, w, 1)
  BY <1>10, ShuffleDownLevel, HalvedLevel
<1> HIDE DEF by1, of1
<1>12. Leaving(w, 1, 0) = 0 .. w - 1
  BY DEF Leaving
<1>13. by1[0] = SetToBag(0 .. w - 1) /\ of1[0] = SetToBag(0 .. w - 1)
  BY <1>11, <1>12 DEF Level
<1> QED  BY <1>1, <1>13

-----------------------------------------------------------------------------
(* Where a block is, in each layout.                                         *)
\* The layout the host gives to the blocks of a kernel's format.
Stored(k) ==
    LET block == Formats[k.format].block IN
    \/ k.layout = "aos" /\ k.stride = block.bytes
    \/ k.layout = "q1" /\ block = BlockQ1_0G128
    \/ k.layout = "tq2" /\ block = BlockTQ2_0_g128

\* What the reference says of block i.
BlockOf(k, i) ==
    LET block == Formats[k.format].block
        whole == k.layout = "aos"
        from == IF whole THEN 0 ELSE block.qs
        size == IF whole THEN block.bytes ELSE block.bytes - 2
    IN <<i * block.bytes + block.d, i * block.bytes + from, i * block.bytes + from + size - 1>>

LEMMA BlockIsThere ==
  ASSUME NEW k, Stored(k), NEW n \in Nat, NEW g \in 0 .. n - 1,
         Formats[k.format].block.bytes \in Nat, Formats[k.format].block.d \in Nat
  PROVE  BlockAt(k.layout, k.stride, Formats[k.format].block.d, n, g) = BlockOf(k, g)
<1> DEFINE block == Formats[k.format].block
<1>1. CASE k.layout = "aos" /\ k.stride = block.bytes
  <2>1. PICK bytes \in Nat, d \in Nat : bytes = block.bytes /\ d = block.d
    OBVIOUS
  <2>2. g * bytes \in Nat
    OBVIOUS
  <2>3. BlockAt("aos", bytes, d, n, g) = <<g * bytes + d, g * bytes, g * bytes + bytes - 1>>
    BY DEF BlockAt, Uploaded
  <2>4. BlockOf(k, g) = <<g * bytes + d, g * bytes + 0, g * bytes + 0 + bytes - 1>>
    BY <1>1, <2>1 DEF BlockOf
  <2> QED  BY <1>1, <2>1, <2>2, <2>3, <2>4
<1>2. CASE k.layout = "q1" /\ block = BlockQ1_0G128
  <2>1. /\ reformat_q1_aos_to_soa(n, 2 * g) = g * 18
        /\ reformat_q1_aos_to_soa(n, n * 2 + g * 16) = g * 18 + 2
        /\ reformat_q1_aos_to_soa(n, n * 2 + g * 16 + 15) = g * 18 + 17
    BY DEF reformat_q1_aos_to_soa
  <2>2. BlockAt("q1", k.stride, block.d, n, g) = <<g * 18, g * 18 + 2, g * 18 + 17>>
    BY <2>1 DEF BlockAt
  <2>3. BlockOf(k, g) = <<g * 18, g * 18 + 2, g * 18 + 17>>
    BY <1>2 DEF BlockOf, BlockQ1_0G128
  <2> QED  BY <1>2, <2>2, <2>3
<1>3. CASE k.layout = "tq2" /\ block = BlockTQ2_0_g128
  <2>1. /\ reformat_tq2_aos_to_soa(n, 2 * g) = g * 34 + 32
        /\ reformat_tq2_aos_to_soa(n, n * 2 + g * 32) = g * 34
        /\ reformat_tq2_aos_to_soa(n, n * 2 + g * 32 + 31) = g * 34 + 31
    BY DEF reformat_tq2_aos_to_soa
  <2>2. BlockAt("tq2", k.stride, block.d, n, g) = <<g * 34 + 32, g * 34, g * 34 + 31>>
    BY <2>1 DEF BlockAt
  <2>3. BlockOf(k, g) = <<g * 34 + 32, g * 34, g * 34 + 31>>
    BY <1>3 DEF BlockOf, BlockTQ2_0_g128
  <2> QED  BY <1>3, <2>2, <2>3
<1> QED  BY <1>1, <1>2, <1>3 DEF Stored

-----------------------------------------------------------------------------
(* The kernels: what each of them has that the proof needs.                  *)
KernelRecord ==
    [format : DOMAIN Formats, layout : {"aos", "q1", "tq2"}, stride : Nat, columns : {"one", "batch"},
     write : {"add", "store", "residual", "swiglu"}, sum : {"shuffle", "simd"},
     input : {"global", "shared"}]
Fits(k) ==
    /\ k \in KernelRecord
    /\ Stored(k)
    /\ k.input = "shared" => k.columns = "one" /\ Formats[k.format].block.weights = 128

LEMMA FormatBlocks ==
  /\ Formats["q2k"].block = BlockQ2K
  /\ Formats["q3k"].block = BlockQ3K
  /\ Formats["q4k"].block = BlockQ4K
  /\ Formats["q5k"].block = BlockQ5K
  /\ Formats["q6k"].block = BlockQ6K
  /\ Formats["q8k"].block = BlockQ8K
  /\ Formats["q4_0"].block = BlockQ4_0
  /\ Formats["q8_0"].block = BlockQ8_0
  /\ Formats["fp8_e4m3"].block = BlockFP8
  /\ Formats["fp8_e5m2"].block = BlockFP8
  /\ Formats["q1"].block = BlockQ1_0G128
  /\ Formats["q1_metal"].block = BlockQ1_0G128
  /\ Formats["tq2"].block = BlockTQ2_0_g128
  BY DEF Formats, Format

FormatNames == {"q2k", "q3k", "q4k", "q5k", "q6k", "q8k", "q4_0", "q8_0",
                "fp8_e4m3", "fp8_e5m2", "q1", "q1_metal", "tq2"}
LEMMA FormatDomain == DOMAIN Formats = FormatNames
  BY DEF Formats, FormatNames

LEMMA BlockNumbers ==
  ASSUME NEW f \in DOMAIN Formats
  PROVE  /\ Formats[f].block.bytes \in Nat /\ Formats[f].block.d \in Nat
         /\ Formats[f].block.weights \in Nat
<1>1. /\ BlockQ2K.bytes \in Nat /\ BlockQ2K.d \in Nat /\ BlockQ2K.weights \in Nat
      /\ BlockQ3K.bytes \in Nat /\ BlockQ3K.d \in Nat /\ BlockQ3K.weights \in Nat
      /\ BlockQ4K.bytes \in Nat /\ BlockQ4K.d \in Nat /\ BlockQ4K.weights \in Nat
      /\ BlockQ5K.bytes \in Nat /\ BlockQ5K.d \in Nat /\ BlockQ5K.weights \in Nat
  BY DEF BlockQ2K, BlockQ3K, BlockQ4K, BlockQ5K
<1>2. /\ BlockQ6K.bytes \in Nat /\ BlockQ6K.d \in Nat /\ BlockQ6K.weights \in Nat
      /\ BlockQ8K.bytes \in Nat /\ BlockQ8K.d \in Nat /\ BlockQ8K.weights \in Nat
      /\ BlockQ4_0.bytes \in Nat /\ BlockQ4_0.d \in Nat /\ BlockQ4_0.weights \in Nat
      /\ BlockQ8_0.bytes \in Nat /\ BlockQ8_0.d \in Nat /\ BlockQ8_0.weights \in Nat
  BY DEF BlockQ6K, BlockQ8K, BlockQ4_0, BlockQ8_0
<1>3. /\ BlockFP8.bytes \in Nat /\ BlockFP8.d \in Nat /\ BlockFP8.weights \in Nat
      /\ BlockQ1_0G128.bytes \in Nat /\ BlockQ1_0G128.d \in Nat /\ BlockQ1_0G128.weights \in Nat
      /\ BlockTQ2_0_g128.bytes \in Nat /\ BlockTQ2_0_g128.d \in Nat /\ BlockTQ2_0_g128.weights \in Nat
  BY DEF BlockFP8, BlockQ1_0G128, BlockTQ2_0_g128
<1> QED  BY <1>1, <1>2, <1>3, FormatBlocks, FormatDomain DEF FormatNames

\* A format, its layout and the bytes from block to block, as kernels have them.
Uses(f, layout, stride) ==
    /\ f \in DOMAIN Formats /\ layout \in {"aos", "q1", "tq2"} /\ stride \in Nat
    /\ \/ layout = "aos" /\ stride = Formats[f].block.bytes
       \/ layout = "q1" /\ Formats[f].block = BlockQ1_0G128
       \/ layout = "tq2" /\ Formats[f].block = BlockTQ2_0_g128

LEMMA FamiliesFit ==
  ASSUME NEW f, NEW layout, NEW stride, Uses(f, layout, stride)
  PROVE  /\ Fits(Gemv(f, layout, stride)) /\ Fits(Gemm(f, layout, stride))
         /\ Fits(GemmResidual(f, layout, stride)) /\ Fits(GemmSwiGLU(f, layout, stride))
         /\ Fits(Kernel(f, layout, stride, "batch", "store", "simd"))
<1>1. ASSUME NEW columns \in {"one", "batch"}, NEW write \in {"add", "store", "residual", "swiglu"},
             NEW sum \in {"shuffle", "simd"}
      PROVE  Fits(Kernel(f, layout, stride, columns, write, sum))
  <2>1. Kernel(f, layout, stride, columns, write, sum) \in KernelRecord
    BY DEF Kernel, KernelRecord, Uses
  <2>2. Stored(Kernel(f, layout, stride, columns, write, sum))
    BY DEF Kernel, Stored, Uses
  <2> QED  BY <2>1, <2>2 DEF Fits, Kernel
<1> QED  BY <1>1 DEF Gemv, Gemm, GemmResidual, GemmSwiGLU

LEMMA MetalFits ==
  ASSUME NEW k, Fits(k)
  PROVE  Fits(OnMetal(k))
<1>1. k \in KernelRecord
  BY DEF Fits
<1>2. OnMetal(k) \in KernelRecord /\ OnMetal(k).format = k.format /\ OnMetal(k).layout = k.layout
      /\ OnMetal(k).stride = k.stride /\ OnMetal(k).input = k.input /\ OnMetal(k).columns = k.columns
  BY <1>1 DEF OnMetal, KernelRecord
<1> QED  BY <1>2 DEF Fits, Stored

LEMMA MetalFamiliesFit ==
  ASSUME NEW f, NEW layout, NEW stride, Uses(f, layout, stride)
  PROVE  /\ Fits(OnMetal(Gemv(f, layout, stride))) /\ Fits(OnMetal(Gemm(f, layout, stride)))
         /\ Fits(OnMetal(GemmResidual(f, layout, stride))) /\ Fits(OnMetal(GemmSwiGLU(f, layout, stride)))
         /\ Fits(OnMetal(Kernel(f, layout, stride, "batch", "store", "simd")))
  BY FamiliesFit, MetalFits

LEMMA WritesFit ==
  ASSUME NEW k, Fits(k), NEW write \in {"residual", "swiglu"}
  PROVE  Fits([k EXCEPT !.write = write])
<1> DEFINE m == [k EXCEPT !.write = write]
<1>1. k \in KernelRecord
  BY DEF Fits
<1>2. m \in KernelRecord /\ m.format = k.format /\ m.layout = k.layout
      /\ m.stride = k.stride /\ m.input = k.input /\ m.columns = k.columns
  BY <1>1 DEF KernelRecord
<1> HIDE DEF m
<1>3. Fits(m)
  BY <1>2 DEF Fits, Stored
<1> QED  BY <1>3 DEF m

LEMMA SharedFits ==
  ASSUME NEW k, Fits(k), k.columns = "one", Formats[k.format].block = BlockQ1_0G128
  PROVE  Fits([k EXCEPT !.input = "shared"])
<1> DEFINE m == [k EXCEPT !.input = "shared"]
<1>1. k \in KernelRecord
  BY DEF Fits
<1>2. m \in KernelRecord /\ m.format = k.format /\ m.layout = k.layout
      /\ m.stride = k.stride /\ m.columns = "one"
  BY <1>1 DEF KernelRecord
<1>3. BlockQ1_0G128.weights = 128
  BY DEF BlockQ1_0G128
<1> HIDE DEF m
<1>4. Fits(m)
  BY <1>2, <1>3 DEF Fits, Stored
<1> QED  BY <1>4 DEF m

LEMMA FormatsAreUsed ==
  /\ Uses("q2k", "aos", 84) /\ Uses("q3k", "aos", 110) /\ Uses("q4k", "aos", 144)
  /\ Uses("q5k", "aos", 176) /\ Uses("q6k", "aos", 210) /\ Uses("q8k", "aos", 292)
  /\ Uses("q4_0", "aos", 18) /\ Uses("q8_0", "aos", 34)
  /\ Uses("fp8_e4m3", "aos", 34) /\ Uses("fp8_e5m2", "aos", 34)
  /\ Uses("q1", "q1", 18) /\ Uses("q1_metal", "q1", 18) /\ Uses("tq2", "tq2", 34)
<1>1. /\ BlockQ2K.bytes = 84 /\ BlockQ3K.bytes = 110 /\ BlockQ4K.bytes = 144 /\ BlockQ5K.bytes = 176
      /\ BlockQ6K.bytes = 210 /\ BlockQ8K.bytes = 292 /\ BlockQ4_0.bytes = 18 /\ BlockQ8_0.bytes = 34
      /\ BlockFP8.bytes = 34
  BY DEF BlockQ2K, BlockQ3K, BlockQ4K, BlockQ5K, BlockQ6K, BlockQ8K, BlockQ4_0, BlockQ8_0, BlockFP8
<1> QED  BY <1>1, FormatBlocks, FormatDomain DEF Uses, FormatNames

LEMMA KernelsFit ==
  ASSUME NEW name \in DOMAIN Kernels
  PROVE  Fits(Kernels[name])
<1>1. /\ Fits(gemv_q2k) /\ Fits(gemv_q3k) /\ Fits(gemv_q4k) /\ Fits(gemv_q5k) /\ Fits(gemv_q6k)
      /\ Fits(gemv_q8k) /\ Fits(gemm_q2k) /\ Fits(gemm_q3k) /\ Fits(gemm_q4k) /\ Fits(gemm_q5k)
      /\ Fits(gemm_q6k) /\ Fits(gemm_q8k) /\ Fits(gemm_q2k_residual) /\ Fits(gemm_q3k_residual)
      /\ Fits(gemm_q4k_residual) /\ Fits(gemm_q5k_residual) /\ Fits(gemm_q6k_residual)
      /\ Fits(gemm_q8k_residual) /\ Fits(fused_gate_up_swiglu_gemm_q2k)
      /\ Fits(fused_gate_up_swiglu_gemm_q3k) /\ Fits(fused_gate_up_swiglu_gemm_q4k)
      /\ Fits(fused_gate_up_swiglu_gemm_q5k) /\ Fits(fused_gate_up_swiglu_gemm_q6k)
      /\ Fits(fused_gate_up_swiglu_gemm_q8k)
  BY FamiliesFit, FormatsAreUsed DEF gemv_q2k, gemv_q3k, gemv_q4k, gemv_q5k, gemv_q6k, gemv_q8k,
     gemm_q2k, gemm_q3k, gemm_q4k, gemm_q5k, gemm_q6k, gemm_q8k, gemm_q2k_residual,
     gemm_q3k_residual, gemm_q4k_residual, gemm_q5k_residual, gemm_q6k_residual,
     gemm_q8k_residual, fused_gate_up_swiglu_gemm_q2k, fused_gate_up_swiglu_gemm_q3k,
     fused_gate_up_swiglu_gemm_q4k, fused_gate_up_swiglu_gemm_q5k, fused_gate_up_swiglu_gemm_q6k,
     fused_gate_up_swiglu_gemm_q8k
<1>2. /\ Fits(gemv_q4_0) /\ Fits(gemv_q4_0_pf) /\ Fits(gemm_q4_0) /\ Fits(gemm_q4_0_residual)
      /\ Fits(fused_gate_up_swiglu_gemm_q4_0) /\ Fits(gemv_q8_0) /\ Fits(gemv_q8_0_pf)
      /\ Fits(gemm_q8_0) /\ Fits(gemm_q8_0_residual) /\ Fits(fused_gate_up_swiglu_gemm_q8_0)
  BY FamiliesFit, FormatsAreUsed DEF gemv_q4_0, gemv_q4_0_pf, gemm_q4_0, gemm_q4_0_residual,
     fused_gate_up_swiglu_gemm_q4_0, gemv_q8_0, gemv_q8_0_pf, gemm_q8_0, gemm_q8_0_residual,
     fused_gate_up_swiglu_gemm_q8_0
<1>3. /\ Fits(gemv_fp8_e4m3) /\ Fits(gemv_fp8_e4m3_pf) /\ Fits(gemm_fp8_e4m3)
      /\ Fits(gemm_fp8_e4m3_residual) /\ Fits(fused_gate_up_swiglu_gemm_fp8_e4m3)
      /\ Fits(gemv_fp8_e5m2) /\ Fits(gemv_fp8_e5m2_pf) /\ Fits(gemm_fp8_e5m2)
      /\ Fits(gemm_fp8_e5m2_residual) /\ Fits(fused_gate_up_swiglu_gemm_fp8_e5m2)
  BY FamiliesFit, FormatsAreUsed DEF gemv_fp8_e4m3, gemv_fp8_e4m3_pf, gemm_fp8_e4m3,
     gemm_fp8_e4m3_residual, fused_gate_up_swiglu_gemm_fp8_e4m3, gemv_fp8_e5m2, gemv_fp8_e5m2_pf,
     gemm_fp8_e5m2, gemm_fp8_e5m2_residual, fused_gate_up_swiglu_gemm_fp8_e5m2
<1>4. /\ Fits(gemv_q1_g128_v7) /\ Fits(gemv_q1_g128_v9) /\ Fits(gemm_q1_g128_v7)
      /\ Fits(gemm_q1_g128_v7_residual) /\ Fits(fused_gate_up_swiglu_gemm_q1)
      /\ Fits(gemv_tq2_g128_v1) /\ Fits(gemm_tq2_g128_v7) /\ Fits(gemm_tq2_g128_v7_residual)
      /\ Fits(fused_gate_up_swiglu_gemm_tq2)
  BY FamiliesFit, FormatsAreUsed DEF gemv_q1_g128_v7, gemv_q1_g128_v9, gemm_q1_g128_v7,
     gemm_q1_g128_v7_residual, fused_gate_up_swiglu_gemm_q1, gemv_tq2_g128_v1, gemm_tq2_g128_v7,
     gemm_tq2_g128_v7_residual, fused_gate_up_swiglu_gemm_tq2
<1>5. /\ Fits(metal_gemv_q1_g128_v7) /\ Fits(metal_gemm_q1_g128_v7)
      /\ Fits(metal_gemm_q1_g128_v7_residual) /\ Fits(metal_fused_gate_up_swiglu_gemm_q1)
      /\ Fits(metal_gemv_tq2_g128_v1) /\ Fits(metal_gemm_tq2_g128_v7) /\ Fits(metal_gemv_fp8_e4m3)
      /\ Fits(metal_gemv_fp8_e4m3_pf) /\ Fits(metal_gemm_fp8_e4m3)
      /\ Fits(metal_gemm_fp8_e4m3_residual) /\ Fits(metal_fused_gate_up_swiglu_gemm_fp8_e4m3)
      /\ Fits(metal_gemv_fp8_e5m2) /\ Fits(metal_gemv_fp8_e5m2_pf) /\ Fits(metal_gemm_fp8_e5m2)
      /\ Fits(metal_gemm_fp8_e5m2_residual) /\ Fits(metal_fused_gate_up_swiglu_gemm_fp8_e5m2)
  BY MetalFamiliesFit, FormatsAreUsed DEF metal_gemv_q1_g128_v7, metal_gemm_q1_g128_v7,
     metal_gemm_q1_g128_v7_residual, metal_fused_gate_up_swiglu_gemm_q1, metal_gemv_tq2_g128_v1,
     metal_gemm_tq2_g128_v7, metal_gemv_fp8_e4m3, metal_gemv_fp8_e4m3_pf, metal_gemm_fp8_e4m3,
     metal_gemm_fp8_e4m3_residual, metal_fused_gate_up_swiglu_gemm_fp8_e4m3, metal_gemv_fp8_e5m2,
     metal_gemv_fp8_e5m2_pf, metal_gemm_fp8_e5m2, metal_gemm_fp8_e5m2_residual,
     metal_fused_gate_up_swiglu_gemm_fp8_e5m2
<1>6. /\ Fits(gemv_q1_g128_v7_residual) /\ Fits(gemv_q1_g128_v9_residual)
      /\ Fits(fused_gate_up_swiglu_q1) /\ Fits(metal_gemv_q1_g128_v7_residual)
      /\ Fits(metal_fused_gate_up_swiglu_q1)
  BY <1>4, <1>5, WritesFit DEF gemv_q1_g128_v7_residual, gemv_q1_g128_v9_residual,
     fused_gate_up_swiglu_q1, metal_gemv_q1_g128_v7_residual, metal_fused_gate_up_swiglu_q1
<1>7. Fits(gemv_q1_g128_v8) /\ Fits(gemv_q1_g128_v8_residual)
  <2>1. /\ gemv_q1_g128_v7.columns = "one" /\ Formats[gemv_q1_g128_v7.format].block = BlockQ1_0G128
    BY FormatBlocks DEF gemv_q1_g128_v7, Gemv, Kernel
  <2>2. gemv_q1_g128_v7 \in KernelRecord
    BY <1>4 DEF Fits
  <2>3. /\ gemv_q1_g128_v7_residual.columns = "one"
        /\ Formats[gemv_q1_g128_v7_residual.format].block = BlockQ1_0G128
    BY <2>1, <2>2 DEF gemv_q1_g128_v7_residual, KernelRecord
  <2> QED  BY <1>4, <1>6, <2>1, <2>3, SharedFits DEF gemv_q1_g128_v8, gemv_q1_g128_v8_residual
<1> QED  BY <1>1, <1>2, <1>3, <1>4, <1>5, <1>6, <1>7 DEF Kernels

-----------------------------------------------------------------------------
(* A launch.                                                                 *)
LEMMA ColumnsAreAll ==
  ASSUME NEW batch \in Nat
  PROVE  Columns(batch) = 0 .. batch - 1
<1>1. ASSUME NEW x \in 0 .. batch - 1
      PROVE  x \in Columns(batch)
  <2> DEFINE base == x - (x % 8)
  <2>1. base \in 0 .. batch - 1 /\ base % 8 = 0 /\ x % 8 \in 0 .. 7 /\ x = base + (x % 8)
    OBVIOUS
  <2>2. base \in ColumnChunks(batch)
    BY <2>1 DEF ColumnChunks
  <2>3. x % 8 \in 0 .. (IF batch - base < 8 THEN batch - base ELSE 8) - 1
    BY <2>1
  <2> DEFINE chunk(c) == {c + i : i \in 0 .. (IF batch - c < 8 THEN batch - c ELSE 8) - 1}
  <2> HIDE DEF base
  <2>4. x \in chunk(base)
    BY <2>1, <2>3
  <2>5. Columns(batch) = UNION {chunk(c) : c \in ColumnChunks(batch)}
    BY DEF Columns
  <2> HIDE DEF chunk
  <2> QED  BY <2>2, <2>4, <2>5
<1>2. ASSUME NEW x \in Columns(batch)
      PROVE  x \in 0 .. batch - 1
  BY DEF Columns, ColumnChunks
<1> QED  BY <1>1, <1>2

IsLaunch == launch \in [kernel : DOMAIN Kernels, shape : Shapes]

LEMMA LaunchedNumbers ==
  ASSUME IsLaunch
  PROVE  /\ Rows \in Nat \ {0} /\ Width \in Nat \ {0} /\ Batch \in Nat \ {0}
         /\ Width \in Widths /\ Fits(K) /\ K.format \in DOMAIN Formats
         /\ K.columns = "one" => Batch = 1
         /\ F.block.bytes \in Nat /\ F.block.d \in Nat /\ F.block.weights \in Nat
<1>1. launch.shape \in AllShapes /\ launch.shape \in Shapes /\ launch.kernel \in DOMAIN Kernels
  BY ShapesAssumption DEF IsLaunch
<1>2. Fits(K)
  BY <1>1, KernelsFit DEF K
<1>3. K.format \in DOMAIN Formats
  BY <1>2 DEF Fits, KernelRecord
<1>4. F.block.bytes \in Nat /\ F.block.d \in Nat /\ F.block.weights \in Nat
  BY <1>3, BlockNumbers DEF F
<1> QED  BY <1>1, <1>2, <1>3, <1>4 DEF Rows, Width, Batch, Widths, AllShapes

\* The elements of a column that belong to a block.
LEMMA ElementsAreTheirs ==
  ASSUME IsLaunch, NEW c \in 0 .. Batch - 1, NEW b \in 0 .. Width - 1
  PROVE  LET n == F.block.weights
         IN Elements(c, b) = <<(c * Width + b) * n, (c * Width + b) * n + n - 1>>
<1>1. PICK w \in Nat, n \in Nat : w = Width /\ n = F.block.weights
  BY LaunchedNumbers
<1>2. CASE K.input = "shared"
  <2>1. n = 128 /\ c = 0
    <3>1. K.columns = "one" /\ F.block.weights = 128
      BY <1>2, LaunchedNumbers DEF Fits, F
    <3> QED  BY <3>1, <1>1, LaunchedNumbers
  <2>2. LoadedAt(b * 129) = b * 128 /\ LoadedAt(b * 129 + 96 + 31) = b * 128 + 127
    BY <1>1 DEF LoadedAt
  <2>3. Elements(c, b) = <<b * 128, b * 128 + 127>>
    BY <1>2, <2>2 DEF Elements
  <2>4. c * w = 0
    BY <2>1
  <2>5. (c * w + b) * n = b * 128 /\ (c * w + b) * n + n - 1 = b * 128 + 127
    BY <2>1, <2>4
  <2> QED  BY <1>1, <2>3, <2>5
<1>3. CASE K.input # "shared"
  <2>1. c * (w * n) + b * n = (c * w + b) * n
    BY LaunchedNumbers
  <2>2. Elements(c, b) = <<c * (w * n) + b * n, c * (w * n) + b * n + n - 1>>
    BY <1>1, <1>3 DEF Elements
  <2> QED  BY <1>1, <2>1, <2>2
<1> QED  BY <1>2, <1>3

\* A row of a matrix times a column, as a warp adds it up.
LEMMA WarpSumIsProduct ==
  ASSUME IsLaunch, NEW m \in {0, 1}, m = 1 => K.write = "swiglu",
         NEW r \in 0 .. Rows - 1, NEW c \in 0 .. Batch - 1
  PROVE  WarpSum((m * Rows + r) * Width, c) = Product(m, r, c)
<1> DEFINE lane0 == IF K.sum = "shuffle" THEN warp_shuffle[Width] ELSE simd_sum[Width]
           first == (m * Rows + r) * Width
<1>1. lane0 = SetToBag(0 .. Width - 1)
  BY LaunchedNumbers, WarpHasAllBlocks
<1>2. DOMAIN lane0 = 0 .. Width - 1 /\ \A b \in 0 .. Width - 1 : lane0[b] = 1
  BY <1>1 DEF SetToBag
<1> HIDE DEF lane0
<1>3. \A b \in 0 .. Width - 1 : first + b \in 0 .. Blocks - 1
  <2>1. PICK w \in Nat \ {0}, n \in Nat \ {0} : w = Width /\ n = Rows
    BY LaunchedNumbers
  <2>2. m * n + r \in Nat /\ m * n + r + 1 <= n * (m + 1)
    BY <2>1
  <2>3. (m * n + r + 1) * w <= n * (m + 1) * w
    BY <2>1, <2>2
  <2>4. (m * n + r) * w \in Nat /\ (m * n + r + 1) * w = (m * n + r) * w + w
    BY <2>1, <2>2
  <2>5. n * (m + 1) * w <= n * w * (IF K.write = "swiglu" THEN 2 ELSE 1)
    <3>1. n * w \in Nat /\ n * (m + 1) * w = (n * w) * (m + 1)
      BY <2>1
    <3>2. CASE m = 0
      BY <3>1, <3>2
    <3>3. CASE m = 1
      BY <3>1, <3>3
    <3> QED  BY <3>2, <3>3
  <2>6. Blocks = n * w * (IF K.write = "swiglu" THEN 2 ELSE 1)
    BY <2>1 DEF Blocks
  <2>7. Blocks \in Nat
    BY <2>1, <2>6
  <2> HIDE DEF first
  <2>8. first = (m * n + r) * w
    BY <2>1 DEF first
  <2> QED  BY <2>1, <2>3, <2>4, <2>5, <2>6, <2>7, <2>8
<1>4. Blocks \in Nat
  BY LaunchedNumbers DEF Blocks
<1>5. \A b \in 0 .. Width - 1 :
        BlockAt(K.layout, K.stride, F.block.d, Blocks, first + b) = BlockOf(K, first + b)
  BY <1>3, <1>4, BlockIsThere, LaunchedNumbers DEF Fits, F
<1>6. WarpSum(first, c) =
        [b \in 0 .. Width - 1 |-> <<1, BlockOf(K, first + b),
            <<(c * Width + b) * F.block.weights,
              (c * Width + b) * F.block.weights + F.block.weights - 1>>>>]
  <2> HIDE DEF first
  <2>1. WarpSum(first, c) = [b \in DOMAIN lane0 |->
          <<lane0[b], BlockAt(K.layout, K.stride, F.block.d, Blocks, first + b), Elements(c, b)>>]
    BY DEF WarpSum, lane0
  <2> QED  BY <1>2, <1>5, <2>1, ElementsAreTheirs
<1>7. Product(m, r, c) =
        [b \in 0 .. Width - 1 |-> <<1, BlockOf(K, first + b),
            <<(c * Width + b) * F.block.weights,
              (c * Width + b) * F.block.weights + F.block.weights - 1>>>>]
  BY DEF Product, BlockOf, F
<1> QED  BY <1>6, <1>7

LEMMA SumsAreProducts ==
  ASSUME IsLaunch, NEW r \in 0 .. Rows - 1, NEW c \in 0 .. Batch - 1
  PROVE  Sums(r, c) = Result(r, c).sums
<1>1. WarpSum((0 * Rows + r) * Width, c) = Product(0, r, c)
  BY WarpSumIsProduct
<1>2. K.write = "swiglu" => WarpSum((1 * Rows + r) * Width, c) = Product(1, r, c)
  BY WarpSumIsProduct
<1>3. 0 * Rows + r = r /\ 1 * Rows + r = Rows + r
  BY LaunchedNumbers
<1> QED  BY <1>1, <1>2, <1>3 DEF Sums, Result

\* The inductive invariant: the rows of the blocks that have run are done, the
\* others as the host left them.
KernelLeft == IF K.write = "add" THEN ZeroCell ELSE NoCell
KInv ==
    /\ IsLaunch
    /\ pending \subseteq Nat
    /\ out = [cell \in 0 .. Rows * Batch - 1 |->
                IF (cell % Rows) \div 8 \in pending THEN KernelLeft
                                                     ELSE Result(cell % Rows, cell \div Rows)]

LEMMA KernelInitInv == KernelInit => KInv
<1> SUFFICES ASSUME KernelInit PROVE KInv
  OBVIOUS
<1>1. IsLaunch
  BY DEF KernelInit, IsLaunch
<1>2. PICK n \in Nat \ {0}, m \in Nat \ {0} : n = Rows /\ m = Batch
  BY <1>1, LaunchedNumbers
<1>3. ASSUME NEW cell \in 0 .. n * m - 1
      PROVE  (cell % n) \div 8 \in pending
  <2>1. cell % n \in 0 .. n - 1
    BY CellOfRowAndColumn
  <2>2. pending = 0 .. ((n + 7) \div 8) - 1
    BY <1>2 DEF KernelInit
  <2>3. \A x \in 0 .. n - 1 : x \div 8 \in 0 .. ((n + 7) \div 8) - 1
    OBVIOUS
  <2> QED  BY <2>1, <2>2, <2>3
<1>4. out = [cell \in 0 .. n * m - 1 |-> KernelLeft]
  BY <1>2 DEF KernelInit, KernelLeft
<1>5. out = [cell \in 0 .. n * m - 1 |->
                IF (cell % n) \div 8 \in pending THEN KernelLeft
                                                 ELSE Result(cell % n, cell \div n)]
  BY <1>3, <1>4
<1>6. pending \subseteq Nat
  BY <1>2 DEF KernelInit
<1> QED  BY <1>1, <1>2, <1>5, <1>6 DEF KInv

\* What a warp writes into a cell that no block has touched.
LEMMA WrittenIsResult ==
  ASSUME IsLaunch, NEW r \in 0 .. Rows - 1, NEW c \in 0 .. Batch - 1,
         K.write = "add" => out[c * Rows + r] = ZeroCell
  PROVE  Written(r, c) = Result(r, c)
<1>1. K.write \in {"add", "store", "residual", "swiglu"}
  BY LaunchedNumbers DEF Fits, KernelRecord
<1>2. Sums(r, c) = Result(r, c).sums
  BY SumsAreProducts
<1>3. CASE K.write = "add"
  <2>1. Sums(r, c) = <<WarpSum(r * Width, c)>>
    BY <1>3 DEF Sums
  <2>2. <<>> \o Sums(r, c) = Sums(r, c)
    BY <2>1
  <2>3. Written(r, c) = [old |-> FALSE, residual |-> {}, sums |-> <<>> \o Sums(r, c)]
    BY <1>3 DEF Written, ZeroCell, NoCell
  <2> QED  BY <1>2, <1>3, <2>2, <2>3 DEF Result
<1>4. CASE K.write = "residual"
  <2>1. Written(r, c) = [old |-> FALSE, residual |-> {c * Rows + r}, sums |-> Sums(r, c)]
    BY <1>4 DEF Written, ZeroCell, NoCell
  <2> QED  BY <1>2, <1>4, <2>1 DEF Result
<1>5. CASE K.write \in {"store", "swiglu"}
  <2>1. Written(r, c) = [old |-> FALSE, residual |-> {}, sums |-> Sums(r, c)]
    BY <1>5 DEF Written, ZeroCell, NoCell
  <2> QED  BY <1>2, <1>5, <2>1 DEF Result
<1> QED  BY <1>1, <1>3, <1>4, <1>5

LEMMA ThreadBlockInv ==
  ASSUME KInv, NEW cta \in pending, ThreadBlock(cta)
  PROVE  KInv'
<1>1. IsLaunch /\ UNCHANGED launch /\ IsLaunch'
  BY DEF KInv, ThreadBlock, IsLaunch
<1>2. /\ UNCHANGED Rows /\ UNCHANGED Batch /\ UNCHANGED KernelLeft
      /\ \A r, c : UNCHANGED Result(r, c)
  BY <1>1 DEF Rows, Batch, KernelLeft, Result, K, Product, F, Width
<1>3. PICK n \in Nat \ {0}, m \in Nat \ {0} : n = Rows /\ m = Batch
  BY <1>1, LaunchedNumbers
<1>4. out = [cell \in 0 .. n * m - 1 |->
                IF (cell % n) \div 8 \in pending THEN KernelLeft
                                                 ELSE Result(cell % n, cell \div n)]
  BY <1>3 DEF KInv
<1> DEFINE rows == {r \in {cta * 8 + warp : warp \in 0 .. 7} : r < n}
<1>5. out' = [cell \in 0 .. n * m - 1 |->
                IF cell % n \in rows /\ cell \div n \in Columns(m)
                THEN Written(cell % n, cell \div n) ELSE out[cell]]
  BY <1>3, <1>4 DEF ThreadBlock
<1>6. \A cell \in 0 .. n * m - 1 : /\ cell % n \in 0 .. n - 1 /\ cell \div n \in 0 .. m - 1
                                    /\ cell = (cell \div n) * n + (cell % n)
  BY CellOfRowAndColumn
<1>7. ASSUME NEW cell \in 0 .. n * m - 1
      PROVE  out'[cell] = IF (cell % n) \div 8 \in pending' THEN KernelLeft
                                                             ELSE Result(cell % n, cell \div n)
  <2>1. PICK r \in 0 .. n - 1, c \in 0 .. m - 1 : r = cell % n /\ c = cell \div n /\ cell = c * n + r
    BY <1>6
  <2>2. c \in Columns(m)
    BY ColumnsAreAll
  <2>3. pending' = pending \ {cta}
    BY DEF ThreadBlock
  <2>4. CASE r \div 8 = cta
    <3>1. r \in rows
      <4>1. r = (r \div 8) * 8 + (r % 8) /\ r % 8 \in 0 .. 7
        OBVIOUS
      <4> QED  BY <2>4, <4>1
    <3>2. out[c * n + r] = KernelLeft
      BY <1>4, <2>1, <2>4
    <3>3. Written(r, c) = Result(r, c)
      BY <1>1, <1>3, <3>2, WrittenIsResult DEF KernelLeft
    <3>4. out'[cell] = Written(r, c)
      BY <1>5, <2>1, <2>2, <3>1
    <3> QED  BY <2>1, <2>3, <2>4, <3>3, <3>4
  <2>5. CASE r \div 8 # cta
    <3>1. r \notin rows
      <4>1. \A warp \in 0 .. 7 : (cta * 8 + warp) \div 8 = cta
        BY DEF KInv
      <4> QED  BY <2>5, <4>1
    <3>2. out'[cell] = out[cell]
      BY <1>5, <2>1, <3>1
    <3> QED  BY <1>4, <2>1, <2>3, <2>5, <3>2
  <2> QED  BY <2>4, <2>5
<1>8. out' = [cell \in 0 .. n * m - 1 |->
                IF (cell % n) \div 8 \in pending' THEN KernelLeft
                                                  ELSE Result(cell % n, cell \div n)]
  BY <1>5, <1>7
<1>9. pending' \subseteq Nat
  BY DEF KInv, ThreadBlock
<1> QED  BY <1>1, <1>2, <1>3, <1>8, <1>9 DEF KInv

\* Whatever the shapes and the order of the thread blocks, and for each of the
\* kernels: when a launch has ended every cell of its output is the product of
\* its row and its column, of the blocks where the host has put them, once each.
THEOREM GpuProducts == KernelSpec => []GpuOutputLikeReference
<1>1. KInv /\ UNCHANGED kernelVars => KInv'
  <2> SUFFICES ASSUME KInv, UNCHANGED kernelVars PROVE KInv'
    OBVIOUS
  <2>1. UNCHANGED <<launch, pending, out>>
    BY DEF kernelVars
  <2>2. /\ UNCHANGED Rows /\ UNCHANGED Batch /\ UNCHANGED KernelLeft
        /\ \A r, c : UNCHANGED Result(r, c)
    BY <2>1 DEF Rows, Batch, KernelLeft, Result, K, Product, F, Width
  <2>3. IsLaunch /\ IsLaunch'
    BY <2>1 DEF KInv, IsLaunch
  <2> QED  BY <2>1, <2>2, <2>3 DEF KInv
<1>2. KInv /\ [KernelNext]_kernelVars => KInv'
  BY <1>1, ThreadBlockInv DEF KernelNext
<1>3. KInv => GpuOutputLikeReference
  <2> SUFFICES ASSUME KInv, pending = {}, NEW r \in 0 .. Rows - 1, NEW c \in 0 .. Batch - 1
               PROVE  out[c * Rows + r] = Result(r, c)
    BY DEF GpuOutputLikeReference
  <2>1. PICK n \in Nat \ {0}, m \in Nat \ {0} : n = Rows /\ m = Batch
    BY LaunchedNumbers DEF KInv
  <2>2. c * n + r \in 0 .. n * m - 1 /\ (c * n + r) % n = r /\ (c * n + r) \div n = c
    BY <2>1, CellOfRowAndColumn
  <2>3. out = [cell \in 0 .. n * m - 1 |-> IF (cell % n) \div 8 \in pending THEN KernelLeft
                                           ELSE Result(cell % n, cell \div n)]
    BY <2>1 DEF KInv
  <2> QED  BY <2>1, <2>2, <2>3
<1> QED  BY KernelInitInv, <1>2, <1>3, PTL DEF KernelSpec

-----------------------------------------------------------------------------
(* The loops of a kernel over the blocks of a row and the rows of a slice.   *)
LEMMA PairsAreAllBlocks ==
  ASSUME NEW w \in Nat
  PROVE  PairsOfBlocks(w) = SetToBag(0 .. w - 1)
<1> DEFINE pairs == w \div 2
           even == {2 * p : p \in 0 .. pairs - 1}
           odd == {2 * p + 1 : p \in 0 .. pairs - 1}
           last == pairs * 2 .. w - 1
<1>1. pairs \in Nat /\ (w = 2 * pairs \/ w = 2 * pairs + 1)
  BY Z3
<1>2. PairsOfBlocks(w) = SetToBag(even) (+) SetToBag(odd) (+) SetToBag(last)
  BY DEF PairsOfBlocks
<1> HIDE DEF pairs
<1>3. even \cap odd = {} /\ (even \cup odd) \cap last = {}
  BY <1>1
<1>4. even \cup odd \cup last = 0 .. w - 1
  <2>1. ASSUME NEW b \in 0 .. w - 1 PROVE b \in even \cup odd \cup last
    <3>1. PICK p \in Nat : b = 2 * p \/ b = 2 * p + 1
      <4>1. b \div 2 \in Nat /\ (b = 2 * (b \div 2) \/ b = 2 * (b \div 2) + 1)
        BY Z3
      <4> QED  BY <4>1
    <3>2. p \in 0 .. pairs - 1 \/ b \in last
      BY <1>1, <3>1
    <3> QED  BY <3>1, <3>2
  <2>2. ASSUME NEW b \in even \cup odd \cup last PROVE b \in 0 .. w - 1
    BY <1>1
  <2> QED  BY <2>1, <2>2
<1> HIDE DEF even, odd, last
<1> QED  BY <1>2, <1>3, <1>4, DisjointBags

LEMMA StreamIsAllRows ==
  ASSUME NEW n \in Nat
  PROVE  StreamedRows(n) = 0 .. n - 1
<1> DEFINE groups == n \div 16
           streamed == {16 * group + l : group \in 0 .. groups - 1, l \in 0 .. 15}
           left == groups * 16 .. n - 1
<1>1. groups \in Nat /\ groups * 16 <= n
  BY Z3
<1>2. StreamedRows(n) = streamed \cup left
  BY DEF StreamedRows
<1> HIDE DEF groups
<1>3. ASSUME NEW r \in 0 .. n - 1 PROVE r \in streamed \cup left
  <2>1. PICK g \in Nat, l \in 0 .. 15 : r = 16 * g + l
    <3>1. r \div 16 \in Nat /\ r % 16 \in 0 .. 15 /\ r = 16 * (r \div 16) + (r % 16)
      BY Z3
    <3> QED  BY <3>1
  <2>2. g \in 0 .. groups - 1 \/ r \in left
    BY <1>1, <2>1
  <2> QED  BY <2>1, <2>2
<1>4. ASSUME NEW r \in streamed \cup left PROVE r \in 0 .. n - 1
  BY <1>1
<1> HIDE DEF streamed, left
<1> QED  BY <1>2, <1>3, <1>4

\* The whole product of a row and a column.
FullProduct(r, c) == SetToBag({<<r * RowWidth + b, c * RowWidth + b>> : b \in 0 .. RowWidth - 1})

LEMMA RowSumIsWhole ==
  ASSUME NEW r \in Nat, NEW c \in Nat, RowWidth \in Nat
  PROVE  RowSum(r, c, SetToBag(0 .. RowWidth - 1)) = FullProduct(r, c)
<1>1. PICK w \in Nat : w = RowWidth
  OBVIOUS
<1>2. PICK rw \in Nat, cw \in Nat : rw = r * w /\ cw = c * w
  OBVIOUS
<1> DEFINE blocks == SetToBag(0 .. w - 1)
<1>3. DOMAIN blocks = 0 .. w - 1 /\ \A b \in 0 .. w - 1 : blocks[b] = 1
  BY DEF SetToBag
<1> HIDE DEF blocks
<1> DEFINE P == {<<rw + b, cw + b>> : b \in 0 .. w - 1}
<1>4. RowSum(r, c, blocks) = [p \in P |-> blocks[p[1] - rw]]
  BY <1>1, <1>2, <1>3 DEF RowSum
<1>5. \A p \in P : blocks[p[1] - rw] = 1
  <2>1. \A b \in 0 .. w - 1 : (rw + b) - rw = b
    OBVIOUS
  <2> QED  BY <1>3, <2>1
<1>6. FullProduct(r, c) = [p \in P |-> 1]
  BY <1>1, <1>2 DEF FullProduct, SetToBag
<1>7. RowSum(r, c, blocks) = FullProduct(r, c)
  <2> HIDE DEF P
  <2> QED  BY <1>4, <1>5, <1>6
<1> QED  BY <1>1, <1>7 DEF blocks

-----------------------------------------------------------------------------
(* What the kernels that the dispatcher picks are for.                       *)
LEMMA OperationIsKept ==
  ASSUME NEW op, NEW format, NEW loop, NEW lanes, NEW sum, NEW value
  PROVE  /\ CpuKernel(op, format, loop, lanes, sum).op = op
         /\ Ternary(CpuKernel(op, format, loop, lanes, sum), value).op = op
         /\ [CpuKernel(op, format, loop, lanes, sum) EXCEPT !.pairs = TRUE].op = op
<1>1. PICK k : k = CpuKernel(op, format, loop, lanes, sum)
  OBVIOUS
<1>2. k \in [op : {op}, format : {format}, loop : {loop}, lanes : {lanes}, sum : {sum},
             pairs : {FALSE}, streamed : {FALSE}, value : {ternary_decode}]
  BY <1>1 DEF CpuKernel
<1>3. [k EXCEPT !.value = value].op = op /\ [k EXCEPT !.pairs = TRUE].op = op /\ k.op = op
  BY <1>2
<1> QED  BY <1>1, <1>3 DEF Ternary

LEMMA OperationsOfTiers ==
  ASSUME NEW op, NEW format, NEW loop, NEW value
  PROVE  /\ Scalar(op, format, loop).op = op /\ Ternary(Scalar(op, format, loop), value).op = op
         /\ Avx2(op, format, loop).op = op /\ Ternary(Avx2(op, format, loop), value).op = op
         /\ [Avx2(op, format, loop) EXCEPT !.pairs = TRUE].op = op
         /\ Avx512(op, format, loop).op = op /\ Ternary(Avx512(op, format, loop), value).op = op
         /\ Neon(op, format, loop).op = op /\ Ternary(Neon(op, format, loop), value).op = op
  BY OperationIsKept DEF Scalar, Avx2, Avx512, Neon

Named(name, k) == name \in DOMAIN CpuKernelNamed /\ CpuKernelNamed[name] = k

\* The kernels of a table of the dispatcher are of one operation.
For(kernels, op) == \A tier \in Tiers : /\ kernels[tier] \in DOMAIN CpuKernelNamed
                                        /\ CpuKernelNamed[kernels[tier]].op = op

LEMMA DequantKernels ==
  For(dispatcher_dequant, "dequant")
<1>1. /\ dequant_1bit_g128.op = "dequant"
      /\ dequant_1bit_g128_avx2.op = "dequant"
      /\ dequant_1bit_g128_avx512.op = "dequant"
      /\ dequant_1bit_g128_neon.op = "dequant"
  BY OperationsOfTiers DEF dequant_1bit_g128, dequant_1bit_g128_avx2, dequant_1bit_g128_avx512,
     dequant_1bit_g128_neon
<1>2. /\ Named("dequant_1bit_g128", dequant_1bit_g128)
      /\ Named("dequant_1bit_g128_avx2", dequant_1bit_g128_avx2)
      /\ Named("dequant_1bit_g128_avx512", dequant_1bit_g128_avx512)
      /\ Named("dequant_1bit_g128_neon", dequant_1bit_g128_neon)
  BY SMT DEF Named, CpuKernelNamed
<1> QED  BY <1>1, <1>2 DEF For, Named, Tiers, Dispatch, dispatcher_dequant

LEMMA GemvKernels ==
  For(dispatcher_gemv, "gemv")
<1>1. /\ gemv_1bit_g128.op = "gemv"
      /\ gemv_1bit_g128_avx2_prefetch.op = "gemv"
      /\ gemv_1bit_g128_avx512_prefetch.op = "gemv"
      /\ gemv_1bit_g128_neon_prefetch.op = "gemv"
  BY OperationsOfTiers DEF gemv_1bit_g128, gemv_1bit_g128_avx2_prefetch,
     gemv_1bit_g128_avx512_prefetch, gemv_1bit_g128_neon_prefetch, gemv_1bit_g128_avx2,
     gemv_1bit_g128_neon, gemv_1bit_g128_avx512
<1>2. /\ Named("gemv_1bit_g128", gemv_1bit_g128)
      /\ Named("gemv_1bit_g128_avx2_prefetch", gemv_1bit_g128_avx2_prefetch)
      /\ Named("gemv_1bit_g128_avx512_prefetch", gemv_1bit_g128_avx512_prefetch)
      /\ Named("gemv_1bit_g128_neon_prefetch", gemv_1bit_g128_neon_prefetch)
  BY SMT DEF Named, CpuKernelNamed
<1> QED  BY <1>1, <1>2 DEF For, Named, Tiers, Dispatch, dispatcher_gemv

LEMMA GemmKernels ==
  For(dispatcher_gemm, "gemm")
<1>1. /\ gemm_1bit_g128.op = "gemm"
      /\ gemm_1bit_g128_avx2_prefetch.op = "gemm"
      /\ gemm_1bit_g128_avx512.op = "gemm"
      /\ gemm_1bit_g128_neon_prefetch.op = "gemm"
  BY OperationsOfTiers DEF gemm_1bit_g128, gemm_1bit_g128_avx2_prefetch, gemm_1bit_g128_avx512,
     gemm_1bit_g128_neon_prefetch, gemm_1bit_g128_avx2, gemm_1bit_g128_neon
<1>2. /\ Named("gemm_1bit_g128", gemm_1bit_g128)
      /\ Named("gemm_1bit_g128_avx2_prefetch", gemm_1bit_g128_avx2_prefetch)
      /\ Named("gemm_1bit_g128_avx512", gemm_1bit_g128_avx512)
      /\ Named("gemm_1bit_g128_neon_prefetch", gemm_1bit_g128_neon_prefetch)
  BY SMT DEF Named, CpuKernelNamed
<1> QED  BY <1>1, <1>2 DEF For, Named, Tiers, Dispatch, dispatcher_gemm

LEMMA GemvTernaryKernels ==
  For(dispatcher_gemv_ternary, "gemv")
<1>1. /\ gemv_tq2_0_g128.op = "gemv"
      /\ gemv_tq2_0_g128_avx2_prefetch.op = "gemv"
      /\ gemv_tq2_0_g128_avx512_prefetch.op = "gemv"
      /\ gemv_tq2_0_g128_neon_prefetch.op = "gemv"
  BY OperationsOfTiers DEF gemv_tq2_0_g128, gemv_tq2_0_g128_avx2_prefetch,
     gemv_tq2_0_g128_avx512_prefetch, gemv_tq2_0_g128_neon_prefetch
<1>2. /\ Named("gemv_tq2_0_g128", gemv_tq2_0_g128)
      /\ Named("gemv_tq2_0_g128_avx2_prefetch", gemv_tq2_0_g128_avx2_prefetch)
      /\ Named("gemv_tq2_0_g128_avx512_prefetch", gemv_tq2_0_g128_avx512_prefetch)
      /\ Named("gemv_tq2_0_g128_neon_prefetch", gemv_tq2_0_g128_neon_prefetch)
  BY SMT DEF Named, CpuKernelNamed
<1> QED  BY <1>1, <1>2 DEF For, Named, Tiers, Dispatch, dispatcher_gemv_ternary

LEMMA GemmTernaryKernels ==
  For(dispatcher_gemm_ternary, "gemm")
<1>1. /\ gemm_tq2_0_g128.op = "gemm"
      /\ gemm_tq2_0_g128_avx2.op = "gemm"
      /\ gemm_tq2_0_g128_avx512.op = "gemm"
      /\ gemm_tq2_0_g128_neon.op = "gemm"
  BY OperationsOfTiers DEF gemm_tq2_0_g128, gemm_tq2_0_g128_avx2, gemm_tq2_0_g128_avx512,
     gemm_tq2_0_g128_neon
<1>2. /\ Named("gemm_tq2_0_g128", gemm_tq2_0_g128)
      /\ Named("gemm_tq2_0_g128_avx2", gemm_tq2_0_g128_avx2)
      /\ Named("gemm_tq2_0_g128_avx512", gemm_tq2_0_g128_avx512)
      /\ Named("gemm_tq2_0_g128_neon", gemm_tq2_0_g128_neon)
  BY SMT DEF Named, CpuKernelNamed
<1> QED  BY <1>1, <1>2 DEF For, Named, Tiers, Dispatch, dispatcher_gemm_ternary

LEMMA GemvFp8E4m3Kernels ==
  For(dispatcher_gemv_fp8_e4m3, "gemv")
<1>1. /\ cpu_gemv_fp8_e4m3.op = "gemv"
      /\ gemv_fp8_e4m3_avx2.op = "gemv"
      /\ gemv_fp8_e4m3_avx512.op = "gemv"
      /\ gemv_fp8_e4m3_neon.op = "gemv"
  BY OperationsOfTiers DEF cpu_gemv_fp8_e4m3, gemv_fp8_e4m3_avx2, gemv_fp8_e4m3_avx512,
     gemv_fp8_e4m3_neon
<1>2. /\ Named("cpu_gemv_fp8_e4m3", cpu_gemv_fp8_e4m3)
      /\ Named("gemv_fp8_e4m3_avx2", gemv_fp8_e4m3_avx2)
      /\ Named("gemv_fp8_e4m3_avx512", gemv_fp8_e4m3_avx512)
      /\ Named("gemv_fp8_e4m3_neon", gemv_fp8_e4m3_neon)
  BY SMT DEF Named, CpuKernelNamed
<1> QED  BY <1>1, <1>2 DEF For, Named, Tiers, Dispatch, dispatcher_gemv_fp8_e4m3

LEMMA GemmFp8E4m3Kernels ==
  For(dispatcher_gemm_fp8_e4m3, "gemm")
<1>1. /\ cpu_gemm_fp8_e4m3.op = "gemm"
      /\ gemm_fp8_e4m3_avx2.op = "gemm"
      /\ gemm_fp8_e4m3_avx512.op = "gemm"
      /\ gemm_fp8_e4m3_neon.op = "gemm"
  BY OperationsOfTiers DEF cpu_gemm_fp8_e4m3, gemm_fp8_e4m3_avx2, gemm_fp8_e4m3_avx512,
     gemm_fp8_e4m3_neon
<1>2. /\ Named("cpu_gemm_fp8_e4m3", cpu_gemm_fp8_e4m3)
      /\ Named("gemm_fp8_e4m3_avx2", gemm_fp8_e4m3_avx2)
      /\ Named("gemm_fp8_e4m3_avx512", gemm_fp8_e4m3_avx512)
      /\ Named("gemm_fp8_e4m3_neon", gemm_fp8_e4m3_neon)
  BY SMT DEF Named, CpuKernelNamed
<1> QED  BY <1>1, <1>2 DEF For, Named, Tiers, Dispatch, dispatcher_gemm_fp8_e4m3

LEMMA GemvFp8E5m2Kernels ==
  For(dispatcher_gemv_fp8_e5m2, "gemv")
<1>1. /\ cpu_gemv_fp8_e5m2.op = "gemv"
      /\ gemv_fp8_e5m2_avx2.op = "gemv"
      /\ gemv_fp8_e5m2_avx512.op = "gemv"
      /\ gemv_fp8_e5m2_neon.op = "gemv"
  BY OperationsOfTiers DEF cpu_gemv_fp8_e5m2, gemv_fp8_e5m2_avx2, gemv_fp8_e5m2_avx512,
     gemv_fp8_e5m2_neon
<1>2. /\ Named("cpu_gemv_fp8_e5m2", cpu_gemv_fp8_e5m2)
      /\ Named("gemv_fp8_e5m2_avx2", gemv_fp8_e5m2_avx2)
      /\ Named("gemv_fp8_e5m2_avx512", gemv_fp8_e5m2_avx512)
      /\ Named("gemv_fp8_e5m2_neon", gemv_fp8_e5m2_neon)
  BY SMT DEF Named, CpuKernelNamed
<1> QED  BY <1>1, <1>2 DEF For, Named, Tiers, Dispatch, dispatcher_gemv_fp8_e5m2

LEMMA GemmFp8E5m2Kernels ==
  For(dispatcher_gemm_fp8_e5m2, "gemm")
<1>1. /\ cpu_gemm_fp8_e5m2.op = "gemm"
      /\ gemm_fp8_e5m2_avx2.op = "gemm"
      /\ gemm_fp8_e5m2_avx512.op = "gemm"
      /\ gemm_fp8_e5m2_neon.op = "gemm"
  BY OperationsOfTiers DEF cpu_gemm_fp8_e5m2, gemm_fp8_e5m2_avx2, gemm_fp8_e5m2_avx512,
     gemm_fp8_e5m2_neon
<1>2. /\ Named("cpu_gemm_fp8_e5m2", cpu_gemm_fp8_e5m2)
      /\ Named("gemm_fp8_e5m2_avx2", gemm_fp8_e5m2_avx2)
      /\ Named("gemm_fp8_e5m2_avx512", gemm_fp8_e5m2_avx512)
      /\ Named("gemm_fp8_e5m2_neon", gemm_fp8_e5m2_neon)
  BY SMT DEF Named, CpuKernelNamed
<1> QED  BY <1>1, <1>2 DEF For, Named, Tiers, Dispatch, dispatcher_gemm_fp8_e5m2

\* The other ways to cut a product make tasks as well.
LEMMA CutsAreTasks ==
  ASSUME NEW s \in AllShapes
  PROVE  /\ AreTasks(gemv_tiled_par(s)) /\ AreTasks(gemm_tiled_par(s))
         /\ AreTasks(gemv_parallel_tiled(s)) /\ AreTasks(gemm_parallel_tiled(s))
         /\ AreTasks(gemv_adaptive(s)) /\ AreTasks(gemv_adaptive_ternary(s))
         /\ AreTasks(gemm_adaptive_ternary(s))
<1>1. /\ s.batch \in Nat /\ L1_TILE_ROWS \in Nat \ {0} /\ optimal_tile_rows(s.width) \in Nat \ {0}
  BY TilesAssumption, OptimalTileRowsIsPositive DEF AllShapes
<1>2. /\ AreTasks(Whole(s.rows, 1)) /\ AreTasks(Whole(s.rows, s.batch))
      /\ AreTasks(RowTasks(s)) /\ AreTasks(BatchTasks(s))
      /\ AreTasks(gemv_tiled(s)) /\ AreTasks(gemm_tiled(s))
  BY <1>1, SlicesAreTasks
<1>3. \A size \in Nat \ {0} : AreTasks(L2Tasks(s, size)) /\ AreTasks(ColumnTasks(s, size))
  BY SlicesAreTasks
<1>4. AreTasks(gemv_parallel_tiled(s)) /\ AreTasks(gemm_parallel_tiled(s))
  BY <1>1, <1>2, <1>3 DEF gemv_parallel_tiled, gemm_parallel_tiled
<1>5. AreTasks(gemv_tiled_par(s)) /\ AreTasks(gemm_tiled_par(s))
  BY <1>1, <1>2, <1>3 DEF gemv_tiled_par, gemm_tiled_par
<1> QED  BY <1>2, <1>4, <1>5 DEF gemv_adaptive, gemv_adaptive_ternary, gemm_adaptive_ternary

\* The tasks of an entry cut the output of the operation of its kernels.
ColumnsFor(op, s) == IF op = "gemm" THEN s.batch ELSE 1
Serves(entry, s) == \A tier \in Tiers :
    /\ entry.kernels[tier] \in DOMAIN CpuKernelNamed
    /\ Partition(entry.tasks[s], s.rows, ColumnsFor(CpuKernelNamed[entry.kernels[tier]].op, s))
    /\ AreTasks(entry.tasks[s])

LEMMA EntryServes ==
  ASSUME NEW s, NEW tasksOf, NEW kernels, NEW op, For(kernels, op),
         Partition(tasksOf[s], s.rows, ColumnsFor(op, s)), AreTasks(tasksOf[s])
  PROVE  Serves(Entry(tasksOf, kernels), s)
<1>1. PICK e : e = Entry(tasksOf, kernels)
  OBVIOUS
<1>2. e.tasks = tasksOf /\ e.kernels = kernels
  BY <1>1 DEF Entry
<1>3. Serves(e, s)
  BY <1>2 DEF Serves, For
<1> QED  BY <1>1, <1>3

LEMMA EntriesServe ==
  ASSUME NEW s \in TiledShapes, NEW name \in DOMAIN Entries
  PROVE  Serves(Entries[name], s)
<1>1. s \in AllShapes
  BY CpuShapesAssumption
<1>2. ColumnsFor("gemm", s) = s.batch /\ ColumnsFor("gemv", s) = 1 /\ ColumnsFor("dequant", s) = 1
  BY DEF ColumnsFor
<1>3. Serves(Entry([x \in TiledShapes |-> RowTasks(x)], dispatcher_gemv), s)
  <2>1. Partition(RowTasks(s), s.rows, 1) /\ AreTasks(RowTasks(s))
    BY <1>1, TasksShareTheOutput, SlicesAreTasks
  <2>2. PICK f : f = [x \in TiledShapes |-> RowTasks(x)]
    OBVIOUS
  <2>3. f[s] = RowTasks(s)
    BY <2>2
  <2> QED  BY <1>2, <2>1, <2>2, <2>3, GemvKernels, EntryServes
<1>4. Serves(Entry([x \in TiledShapes |-> gemv_tiled(x)], dispatcher_gemv), s)
  <2>1. Partition(gemv_tiled(s), s.rows, 1) /\ AreTasks(gemv_tiled(s))
    BY <1>1, TasksShareTheOutput, SlicesAreTasks
  <2>2. PICK f : f = [x \in TiledShapes |-> gemv_tiled(x)]
    OBVIOUS
  <2>3. f[s] = gemv_tiled(s)
    BY <2>2
  <2> QED  BY <1>2, <2>1, <2>2, <2>3, GemvKernels, EntryServes
<1>5. Serves(Entry([x \in TiledShapes |-> gemv_tiled_par(x)], dispatcher_gemv), s)
  <2>1. Partition(gemv_tiled_par(s), s.rows, 1) /\ AreTasks(gemv_tiled_par(s))
    BY <1>1, TasksShareTheOutput, CutsAreTasks
  <2>2. PICK f : f = [x \in TiledShapes |-> gemv_tiled_par(x)]
    OBVIOUS
  <2>3. f[s] = gemv_tiled_par(s)
    BY <2>2
  <2> QED  BY <1>2, <2>1, <2>2, <2>3, GemvKernels, EntryServes
<1>6. Serves(Entry([x \in TiledShapes |-> gemv_parallel_tiled(x)], dispatcher_gemv), s)
  <2>1. Partition(gemv_parallel_tiled(s), s.rows, 1) /\ AreTasks(gemv_parallel_tiled(s))
    BY <1>1, TasksShareTheOutput, CutsAreTasks
  <2>2. PICK f : f = [x \in TiledShapes |-> gemv_parallel_tiled(x)]
    OBVIOUS
  <2>3. f[s] = gemv_parallel_tiled(s)
    BY <2>2
  <2> QED  BY <1>2, <2>1, <2>2, <2>3, GemvKernels, EntryServes
<1>7. Serves(Entry([x \in TiledShapes |-> gemv_adaptive(x)], dispatcher_gemv), s)
  <2>1. Partition(gemv_adaptive(s), s.rows, 1) /\ AreTasks(gemv_adaptive(s))
    BY <1>1, TasksShareTheOutput, CutsAreTasks
  <2>2. PICK f : f = [x \in TiledShapes |-> gemv_adaptive(x)]
    OBVIOUS
  <2>3. f[s] = gemv_adaptive(s)
    BY <2>2
  <2> QED  BY <1>2, <2>1, <2>2, <2>3, GemvKernels, EntryServes
<1>8. Serves(Entry([x \in TiledShapes |-> BatchTasks(x)], dispatcher_gemm), s)
  <2>1. Partition(BatchTasks(s), s.rows, s.batch) /\ AreTasks(BatchTasks(s))
    BY <1>1, TasksShareTheOutput, SlicesAreTasks
  <2>2. PICK f : f = [x \in TiledShapes |-> BatchTasks(x)]
    OBVIOUS
  <2>3. f[s] = BatchTasks(s)
    BY <2>2
  <2> QED  BY <1>2, <2>1, <2>2, <2>3, GemmKernels, EntryServes
<1>9. Serves(Entry([x \in TiledShapes |-> gemm_tiled(x)], dispatcher_gemm), s)
  <2>1. Partition(gemm_tiled(s), s.rows, s.batch) /\ AreTasks(gemm_tiled(s))
    BY <1>1, TasksShareTheOutput, SlicesAreTasks
  <2>2. PICK f : f = [x \in TiledShapes |-> gemm_tiled(x)]
    OBVIOUS
  <2>3. f[s] = gemm_tiled(s)
    BY <2>2
  <2> QED  BY <1>2, <2>1, <2>2, <2>3, GemmKernels, EntryServes
<1>10. Serves(Entry([x \in TiledShapes |-> gemm_tiled_par(x)], dispatcher_gemm), s)
  <2>1. Partition(gemm_tiled_par(s), s.rows, s.batch) /\ AreTasks(gemm_tiled_par(s))
    BY <1>1, TasksShareTheOutput, CutsAreTasks
  <2>2. PICK f : f = [x \in TiledShapes |-> gemm_tiled_par(x)]
    OBVIOUS
  <2>3. f[s] = gemm_tiled_par(s)
    BY <2>2
  <2> QED  BY <1>2, <2>1, <2>2, <2>3, GemmKernels, EntryServes
<1>11. Serves(Entry([x \in TiledShapes |-> gemm_parallel_tiled(x)], dispatcher_gemm), s)
  <2>1. Partition(gemm_parallel_tiled(s), s.rows, s.batch) /\ AreTasks(gemm_parallel_tiled(s))
    BY <1>1, TasksShareTheOutput, CutsAreTasks
  <2>2. PICK f : f = [x \in TiledShapes |-> gemm_parallel_tiled(x)]
    OBVIOUS
  <2>3. f[s] = gemm_parallel_tiled(s)
    BY <2>2
  <2> QED  BY <1>2, <2>1, <2>2, <2>3, GemmKernels, EntryServes
<1>12. Serves(Entry([x \in TiledShapes |-> RowTasks(x)], dispatcher_gemv_ternary), s)
  <2>1. Partition(RowTasks(s), s.rows, 1) /\ AreTasks(RowTasks(s))
    BY <1>1, TasksShareTheOutput, SlicesAreTasks
  <2>2. PICK f : f = [x \in TiledShapes |-> RowTasks(x)]
    OBVIOUS
  <2>3. f[s] = RowTasks(s)
    BY <2>2
  <2> QED  BY <1>2, <2>1, <2>2, <2>3, GemvTernaryKernels, EntryServes
<1>13. Serves(Entry([x \in TiledShapes |-> gemv_adaptive_ternary(x)], dispatcher_gemv_ternary), s)
  <2>1. Partition(gemv_adaptive_ternary(s), s.rows, 1) /\ AreTasks(gemv_adaptive_ternary(s))
    BY <1>1, TasksShareTheOutput, CutsAreTasks
  <2>2. PICK f : f = [x \in TiledShapes |-> gemv_adaptive_ternary(x)]
    OBVIOUS
  <2>3. f[s] = gemv_adaptive_ternary(s)
    BY <2>2
  <2> QED  BY <1>2, <2>1, <2>2, <2>3, GemvTernaryKernels, EntryServes
<1>14. Serves(Entry([x \in TiledShapes |-> BatchTasks(x)], dispatcher_gemm_ternary), s)
  <2>1. Partition(BatchTasks(s), s.rows, s.batch) /\ AreTasks(BatchTasks(s))
    BY <1>1, TasksShareTheOutput, SlicesAreTasks
  <2>2. PICK f : f = [x \in TiledShapes |-> BatchTasks(x)]
    OBVIOUS
  <2>3. f[s] = BatchTasks(s)
    BY <2>2
  <2> QED  BY <1>2, <2>1, <2>2, <2>3, GemmTernaryKernels, EntryServes
<1>15. Serves(Entry([x \in TiledShapes |-> gemm_adaptive_ternary(x)], dispatcher_gemm_ternary), s)
  <2>1. Partition(gemm_adaptive_ternary(s), s.rows, s.batch) /\ AreTasks(gemm_adaptive_ternary(s))
    BY <1>1, TasksShareTheOutput, CutsAreTasks
  <2>2. PICK f : f = [x \in TiledShapes |-> gemm_adaptive_ternary(x)]
    OBVIOUS
  <2>3. f[s] = gemm_adaptive_ternary(s)
    BY <2>2
  <2> QED  BY <1>2, <2>1, <2>2, <2>3, GemmTernaryKernels, EntryServes
<1>16. Serves(Entry([x \in TiledShapes |-> RowTasks(x)], dispatcher_gemv_fp8_e4m3), s)
  <2>1. Partition(RowTasks(s), s.rows, 1) /\ AreTasks(RowTasks(s))
    BY <1>1, TasksShareTheOutput, SlicesAreTasks
  <2>2. PICK f : f = [x \in TiledShapes |-> RowTasks(x)]
    OBVIOUS
  <2>3. f[s] = RowTasks(s)
    BY <2>2
  <2> QED  BY <1>2, <2>1, <2>2, <2>3, GemvFp8E4m3Kernels, EntryServes
<1>17. Serves(Entry([x \in TiledShapes |-> BatchTasks(x)], dispatcher_gemm_fp8_e4m3), s)
  <2>1. Partition(BatchTasks(s), s.rows, s.batch) /\ AreTasks(BatchTasks(s))
    BY <1>1, TasksShareTheOutput, SlicesAreTasks
  <2>2. PICK f : f = [x \in TiledShapes |-> BatchTasks(x)]
    OBVIOUS
  <2>3. f[s] = BatchTasks(s)
    BY <2>2
  <2> QED  BY <1>2, <2>1, <2>2, <2>3, GemmFp8E4m3Kernels, EntryServes
<1>18. Serves(Entry([x \in TiledShapes |-> RowTasks(x)], dispatcher_gemv_fp8_e5m2), s)
  <2>1. Partition(RowTasks(s), s.rows, 1) /\ AreTasks(RowTasks(s))
    BY <1>1, TasksShareTheOutput, SlicesAreTasks
  <2>2. PICK f : f = [x \in TiledShapes |-> RowTasks(x)]
    OBVIOUS
  <2>3. f[s] = RowTasks(s)
    BY <2>2
  <2> QED  BY <1>2, <2>1, <2>2, <2>3, GemvFp8E5m2Kernels, EntryServes
<1>19. Serves(Entry([x \in TiledShapes |-> BatchTasks(x)], dispatcher_gemm_fp8_e5m2), s)
  <2>1. Partition(BatchTasks(s), s.rows, s.batch) /\ AreTasks(BatchTasks(s))
    BY <1>1, TasksShareTheOutput, SlicesAreTasks
  <2>2. PICK f : f = [x \in TiledShapes |-> BatchTasks(x)]
    OBVIOUS
  <2>3. f[s] = BatchTasks(s)
    BY <2>2
  <2> QED  BY <1>2, <2>1, <2>2, <2>3, GemmFp8E5m2Kernels, EntryServes
<1>20. Serves(Entry([x \in TiledShapes |-> dequant_1bit_g128_par(x)], dispatcher_dequant), s)
  <2>1. Partition(dequant_1bit_g128_par(s), s.rows, 1) /\ AreTasks(dequant_1bit_g128_par(s))
    BY <1>1, TasksShareTheOutput, SlicesAreTasks
  <2>2. PICK f : f = [x \in TiledShapes |-> dequant_1bit_g128_par(x)]
    OBVIOUS
  <2>3. f[s] = dequant_1bit_g128_par(s)
    BY <2>2
  <2> QED  BY <1>2, <2>1, <2>2, <2>3, DequantKernels, EntryServes
<1> QED  BY SMT, <1>3, <1>4, <1>5, <1>6, <1>7, <1>8, <1>9, <1>10, <1>11, <1>12, <1>13, <1>14, <1>15, <1>16, <1>17, <1>18, <1>19, <1>20 DEF Entries

-----------------------------------------------------------------------------
(* The products of the processor.                                            *)
LEMMA CallIsCut ==
  ASSUME product \in CpuCalls
  PROVE  /\ product.shape.rows \in Nat \ {0} /\ Cols \in Nat \ {0} /\ RowWidth \in Nat
         /\ Partition(TasksOf, product.shape.rows, Cols) /\ AreTasks(TasksOf)
<1>1. CASE product \in [entry : {"kernel"}, kernel : DOMAIN CpuKernelNamed, shape : CpuShapes]
  <2>1. product.entry = "kernel" /\ product.shape \in AllShapes
    BY <1>1, CpuShapesAssumption
  <2>2. product.shape.rows \in Nat \ {0} /\ product.shape.width \in Nat /\ product.shape.batch \in Nat \ {0}
    BY <2>1 DEF AllShapes
  <2>3. Cols \in Nat \ {0} /\ RowWidth \in Nat
    BY <2>2 DEF Cols, RowWidth
  <2>4. TasksOf = Whole(product.shape.rows, Cols)
    BY <2>1 DEF TasksOf
  <2>5. Partition(TasksOf, product.shape.rows, Cols)
    BY <2>2, <2>3, <2>4, WholeIsOne
  <2>6. AreTasks(TasksOf)
    BY <2>3, <2>4, OneSliceTask DEF AreTasks, Whole
  <2> QED  BY <2>2, <2>3, <2>5, <2>6
<1>2. ASSUME NEW e \in DOMAIN Entries,
             product \in [entry : {e}, kernel : {Entries[e].kernels[t] : t \in Tiers}, shape : TiledShapes]
      PROVE  /\ product.shape.rows \in Nat \ {0} /\ Cols \in Nat \ {0} /\ RowWidth \in Nat
             /\ Partition(TasksOf, product.shape.rows, Cols) /\ AreTasks(TasksOf)
  <2>1. product.entry = e /\ product.shape \in TiledShapes
    BY <1>2
  <2>2. PICK tier \in Tiers : product.kernel = Entries[e].kernels[tier]
    BY <1>2
  <2>3. e # "kernel"
    BY SMT DEF Entries
  <2>4. product.shape.rows \in Nat \ {0} /\ product.shape.width \in Nat /\ product.shape.batch \in Nat \ {0}
    BY <2>1, CpuShapesAssumption DEF AllShapes
  <2>5. TasksOf = Entries[e].tasks[product.shape]
    BY <2>1, <2>3 DEF TasksOf
  <2>6. Serves(Entries[e], product.shape)
    BY <2>1, EntriesServe
  <2>7. Cols = ColumnsFor(CpuKernelNamed[Entries[e].kernels[tier]].op, product.shape)
    BY <2>2 DEF Cols, CK, ColumnsFor
  <2>8. Partition(TasksOf, product.shape.rows, Cols) /\ AreTasks(TasksOf)
    BY <2>5, <2>6, <2>7 DEF Serves
  <2>9. Cols \in Nat \ {0} /\ RowWidth \in Nat
    BY <2>4 DEF Cols, RowWidth
  <2> QED  BY <2>4, <2>8, <2>9
<1> QED  BY <1>1, <1>2 DEF CpuCalls

\* A kernel writes the whole products of its slice, and nothing else.
LEMMA SliceIsWritten ==
  ASSUME product \in CpuCalls, NEW slice, InPlace(slice, product.shape.rows, Cols),
         NEW before, DOMAIN before = 0 .. product.shape.rows * Cols - 1
  PROVE  /\ DOMAIN RunSlice(before, slice) = DOMAIN before
         /\ \A r \in 0 .. product.shape.rows - 1, c \in 0 .. Cols - 1 :
               RunSlice(before, slice)[c * product.shape.rows + r] =
                   IF Has(slice, r, c) THEN FullProduct(r, c) ELSE before[c * product.shape.rows + r]
<1>1. PICK n \in Nat \ {0}, m \in Nat \ {0} : n = product.shape.rows /\ m = Cols
  BY CallIsCut
<1>2. RowWidth \in Nat
  BY CallIsCut
<1> DEFINE blocks == SetToBag(0 .. RowWidth - 1)
           written == (0 .. slice.rows - 1) \X (0 .. slice.cols - 1)
           Cell(w) == slice.at + w[2] * slice.rows + w[1]
<1>3. /\ slice.row \in Nat /\ slice.col \in Nat /\ slice.rows \in Nat \ {0} /\ slice.cols \in Nat \ {0}
      /\ slice.row + slice.rows <= n /\ slice.col + slice.cols <= m
      /\ \A r \in 0 .. slice.rows - 1, c \in 0 .. slice.cols - 1 :
            slice.at + c * slice.rows + r = (slice.col + c) * n + (slice.row + r)
  BY <1>1 DEF InPlace
<1>7. PICK row \in Nat, col \in Nat, rows \in Nat \ {0}, cols \in Nat \ {0} :
         /\ row = slice.row /\ col = slice.col /\ rows = slice.rows /\ cols = slice.cols
         /\ row + rows <= n
  BY <1>3
<1>8. \A r, c : Has(slice, r, c) <=> r \in row .. row + rows - 1 /\ c \in col .. col + cols - 1
  BY <1>7 DEF Has
<1>4. RunSlice(before, slice) =
         [place \in DOMAIN before |->
             IF \E w \in written : place = Cell(w)
             THEN LET w == CHOOSE w \in written : place = Cell(w)
                  IN RowSum(slice.row + w[1], slice.col + w[2], blocks)
             ELSE before[place]]
  <2>1. PairsOfBlocks(RowWidth) = blocks /\ EachBlock(RowWidth) = blocks
    BY <1>2, PairsAreAllBlocks DEF EachBlock
  <2>2. StreamedRows(slice.rows) = 0 .. slice.rows - 1
    BY <1>3, StreamIsAllRows
  <2> HIDE DEF blocks
  <2> QED  BY <2>1, <2>2 DEF RunSlice
<1>5. ASSUME NEW r \in 0 .. n - 1, NEW c \in 0 .. m - 1
      PROVE  /\ c * n + r \in DOMAIN before
             /\ RunSlice(before, slice)[c * n + r] =
                   IF Has(slice, r, c) THEN FullProduct(r, c) ELSE before[c * n + r]
  <2>1. c * n + r \in DOMAIN before
    BY <1>1, CellOfRowAndColumn
  <2>2. \A w \in written : /\ w[1] \in 0 .. slice.rows - 1 /\ w[2] \in 0 .. slice.cols - 1
                           /\ Cell(w) = (slice.col + w[2]) * n + (slice.row + w[1])
    BY <1>3
  <2>3. ASSUME NEW w \in written, c * n + r = Cell(w)
        PROVE  slice.col + w[2] = c /\ slice.row + w[1] = r
    <3>1. PICK i \in 0 .. rows - 1, j \in 0 .. cols - 1 : i = w[1] /\ j = w[2]
      BY <1>7, <2>2
    <3> HIDE DEF written, Cell
    <3>5. col + j \in Nat /\ row + i \in 0 .. n - 1
      BY <1>7
    <3>2. PICK a \in Nat, b \in 0 .. n - 1 : a = col + w[2] /\ b = row + w[1]
      BY <3>1, <3>5
    <3>3. c * n + r = a * n + b
      BY <1>7, <2>2, <2>3, <3>2
    <3>4. c = a /\ r = b
      <4>1. c \in Nat
        OBVIOUS
      <4> QED  BY <3>3, <4>1, QuotientIsOwn
    <3> QED  BY <1>7, <3>2, <3>4
  <2>4. CASE Has(slice, r, c)
    <3>1. r - slice.row \in 0 .. slice.rows - 1 /\ c - slice.col \in 0 .. slice.cols - 1
      <4>1. r \in row .. row + rows - 1 /\ c \in col .. col + cols - 1
        BY <1>8, <2>4
      <4>2. r - row \in 0 .. rows - 1 /\ c - col \in 0 .. cols - 1
        BY <4>1
      <4> QED  BY <1>7, <4>2
    <3>2. PICK w \in written : w = <<r - slice.row, c - slice.col>>
      BY <3>1
    <3>3. slice.col + w[2] = c /\ slice.row + w[1] = r
      <4>1. w[1] = r - row /\ w[2] = c - col
        BY <1>7, <3>2
      <4>2. col + (c - col) = c /\ row + (r - row) = r
        BY <1>7
      <4> QED  BY <1>7, <4>1, <4>2
    <3>4. c * n + r = Cell(w)
      BY <2>2, <3>3
    <3>5. PICK v \in written : /\ v = CHOOSE x \in written : c * n + r = Cell(x)
                               /\ c * n + r = Cell(v)
      BY <3>4
    <3>6. RunSlice(before, slice)[c * n + r] = RowSum(slice.row + v[1], slice.col + v[2], blocks)
      <4> HIDE DEF written, Cell, blocks
      <4> QED  BY <1>4, <2>1, <3>5
    <3>7. slice.row + v[1] = r /\ slice.col + v[2] = c
      BY <2>3, <3>5
    <3>8. RowSum(r, c, blocks) = FullProduct(r, c)
      BY <1>2, RowSumIsWhole
    <3> HIDE DEF blocks
    <3> QED  BY <2>1, <2>4, <3>6, <3>7, <3>8
  <2>5. CASE ~ Has(slice, r, c)
    <3>1. ~ \E w \in written : c * n + r = Cell(w)
      <4> SUFFICES ASSUME NEW w \in written, c * n + r = Cell(w) PROVE FALSE
        OBVIOUS
      <4>1. slice.col + w[2] = c /\ slice.row + w[1] = r
        BY <2>3
      <4>2. PICK i \in 0 .. rows - 1, j \in 0 .. cols - 1 : c = col + j /\ r = row + i
        BY <1>7, <2>2, <4>1
      <4> HIDE DEF written, Cell
      <4>3. r \in row .. row + rows - 1 /\ c \in col .. col + cols - 1
        BY <4>2
      <4> QED  BY <1>8, <2>5, <4>3
    <3> HIDE DEF written, Cell, blocks
    <3> QED  BY <1>4, <2>1, <2>5, <3>1
  <2> QED  BY <2>4, <2>5, <2>1
<1>6. DOMAIN RunSlice(before, slice) = DOMAIN before
  BY DEF RunSlice
<1> QED  BY <1>1, <1>5, <1>6

\* The inductive invariant: the slices left are in place and share no cell, the
\* cells of the others are done and theirs are untouched.
Left(r, c) == \E t \in tasks : \E i \in DOMAIN t : Has(t[i], r, c)
CInv ==
    /\ product \in CpuCalls
    /\ \A t \in tasks : IsTask(t) /\ \A i \in DOMAIN t : InPlace(t[i], product.shape.rows, Cols)
    /\ \A t, u \in tasks : \A i \in DOMAIN t, j \in DOMAIN u : \A row, col :
          Has(t[i], row, col) /\ Has(u[j], row, col) => t = u /\ i = j
    /\ DOMAIN result = 0 .. product.shape.rows * Cols - 1
    /\ \A r \in 0 .. product.shape.rows - 1, c \in 0 .. Cols - 1 :
          result[c * product.shape.rows + r] = IF Left(r, c) THEN Untouched ELSE FullProduct(r, c)

LEMMA CpuInitInv == CpuInit => CInv
<1> SUFFICES ASSUME CpuInit PROVE CInv
  OBVIOUS
<1>1. product \in CpuCalls /\ tasks = TasksOf
  BY DEF CpuInit
<1>2. Partition(tasks, product.shape.rows, Cols) /\ AreTasks(tasks)
  BY <1>1, CallIsCut
<1>3. PICK n \in Nat \ {0}, m \in Nat \ {0} : n = product.shape.rows /\ m = Cols
  BY <1>1, CallIsCut
<1>4. result = [cell \in 0 .. n * m - 1 |-> Untouched]
  BY <1>3 DEF CpuInit
<1>5. \A r \in 0 .. n - 1, c \in 0 .. m - 1 :
         result[c * n + r] = IF Left(r, c) THEN Untouched ELSE FullProduct(r, c)
  <2>1. \A r \in 0 .. n - 1, c \in 0 .. m - 1 : Left(r, c)
    BY <1>2, <1>3 DEF Partition, Left
  <2>2. \A r \in 0 .. n - 1, c \in 0 .. m - 1 : c * n + r \in 0 .. n * m - 1
    BY CellOfRowAndColumn
  <2> QED  BY <1>4, <2>1, <2>2
<1> QED  BY <1>1, <1>2, <1>3, <1>4, <1>5 DEF CInv, Partition, AreTasks

\* Slice i of task u was slice k of task a before the first of task t ran.
Was(u, i, a, k, t) ==
    /\ a \in tasks /\ k \in DOMAIN a /\ a[k] = u[i]
    /\ (a = t => u = Tail(t) /\ k = i + 1) /\ (a # t => u = a /\ k = i)

\* The slices left after one: those that were, but for that one.
LEMMA SlicesLeft ==
  ASSUME CInv, NEW t \in tasks, RunTask(t)
  PROVE  /\ \A u \in tasks' : IsTask(u)
         /\ \A u \in tasks' : \A i \in DOMAIN u : \E a, k : Was(u, i, a, k, t)
         /\ \A v \in tasks : \A j \in DOMAIN v : (v = t => j # 1) =>
               \E u \in tasks' : \E i \in DOMAIN u : u[i] = v[j]
<1>1. IsTask(t)
  BY DEF CInv
<1>2. tasks' = (tasks \ {t}) \cup (IF Len(t) = 1 THEN {} ELSE {Tail(t)})
  BY DEF RunTask
<1>3. \A u \in tasks' : u \in tasks \ {t} \/ (Len(t) # 1 /\ u = Tail(t))
  BY <1>2
<1>4. \A u \in tasks' : IsTask(u)
  BY <1>1, <1>3, RestOfTask DEF CInv
<1>5. ASSUME NEW u \in tasks', NEW i \in DOMAIN u
      PROVE  \E a, k : Was(u, i, a, k, t)
  <2>1. CASE u \in tasks \ {t}
    BY <2>1 DEF Was
  <2>2. CASE Len(t) # 1 /\ u = Tail(t)
    BY <1>1, <2>2, RestOfTask DEF Was
  <2> QED  BY <1>3, <2>1, <2>2
<1>6. ASSUME NEW v \in tasks, NEW j \in DOMAIN v, v = t => j # 1
      PROVE  \E u \in tasks' : \E i \in DOMAIN u : u[i] = v[j]
  <2>1. CASE v # t
    BY <1>2, <2>1
  <2>2. CASE v = t
    <3>1. Len(t) # 1 /\ j \in DOMAIN t \ {1}
      BY <1>1, <1>6, <2>2, RestOfTask
    <3>2. Tail(t) \in tasks'
      BY <1>2, <3>1
    <3>3. j - 1 \in DOMAIN Tail(t) /\ Tail(t)[j - 1] = t[j]
      BY <1>1, <3>1, RestOfTask
    <3> QED  BY <2>2, <3>2, <3>3
  <2> QED  BY <2>1, <2>2
<1> QED  BY <1>4, <1>5, <1>6

LEMMA RunTaskInv ==
  ASSUME CInv, NEW t \in tasks, RunTask(t)
  PROVE  CInv'
<1>1. UNCHANGED product /\ result' = RunSlice(result, t[1])
  BY DEF RunTask
<1>2. /\ UNCHANGED Cols /\ UNCHANGED RowWidth
      /\ \A r, c : UNCHANGED FullProduct(r, c)
  BY <1>1 DEF Cols, RowWidth, CK, FullProduct
<1>3. IsTask(t) /\ 1 \in DOMAIN t /\ InPlace(t[1], product.shape.rows, Cols)
  BY RestOfTask DEF CInv
<1>4. \A u \in tasks' : IsTask(u) /\ \A i \in DOMAIN u : InPlace(u[i], product.shape.rows, Cols)
  BY SlicesLeft DEF CInv, Was
<1>5. ASSUME NEW u \in tasks', NEW v \in tasks', NEW i \in DOMAIN u, NEW j \in DOMAIN v,
             NEW row, NEW col, Has(u[i], row, col), Has(v[j], row, col)
      PROVE  u = v /\ i = j
  <2>1. PICK a, k : Was(u, i, a, k, t)
    BY SlicesLeft
  <2>2. PICK b, l : Was(v, j, b, l, t)
    BY SlicesLeft
  <2>3. a = b /\ k = l
    BY <1>5, <2>1, <2>2 DEF CInv, Was
  <2>4. u = v
    BY <2>1, <2>2, <2>3 DEF Was
  <2>5. i \in Int /\ j \in Int
    BY <1>4 DEF IsTask
  <2> QED  BY <2>1, <2>2, <2>3, <2>4, <2>5 DEF Was
<1>6. ASSUME NEW r, NEW c
      PROVE  Left(r, c)' <=> Left(r, c) /\ ~ Has(t[1], r, c)
  <2>1. ASSUME NEW u \in tasks', NEW i \in DOMAIN u, Has(u[i], r, c)
        PROVE  Left(r, c) /\ ~ Has(t[1], r, c)
    <3>1. PICK a, k : Was(u, i, a, k, t)
      BY SlicesLeft
    <3>2. Left(r, c)
      BY <2>1, <3>1 DEF Left, Was
    <3>3. ASSUME Has(t[1], r, c) PROVE FALSE
      <4>1. a = t /\ k = 1
        BY <1>3, <2>1, <3>1, <3>3 DEF CInv, Was
      <4>2. i \in 1 .. Len(u)
        BY <1>4 DEF IsTask
      <4> QED  BY <3>1, <4>1, <4>2 DEF Was
    <3> QED  BY <3>2, <3>3
  <2>2. ASSUME Left(r, c), ~ Has(t[1], r, c)
        PROVE  \E u \in tasks' : \E i \in DOMAIN u : Has(u[i], r, c)
    <3>1. PICK v \in tasks : \E j \in DOMAIN v : Has(v[j], r, c)
      BY <2>2 DEF Left
    <3>2. PICK j \in DOMAIN v : Has(v[j], r, c)
      BY <3>1
    <3>3. v = t => j # 1
      BY <2>2, <3>2
    <3> QED  BY <3>2, <3>3, SlicesLeft
  <2> QED  BY <2>1, <2>2 DEF Left
<1>7. /\ DOMAIN result' = DOMAIN result
      /\ \A r \in 0 .. product.shape.rows - 1, c \in 0 .. Cols - 1 :
            result'[c * product.shape.rows + r] =
                IF Has(t[1], r, c) THEN FullProduct(r, c) ELSE result[c * product.shape.rows + r]
  <2>1. product \in CpuCalls /\ DOMAIN result = 0 .. product.shape.rows * Cols - 1
    BY DEF CInv
  <2>2. PICK slice : slice = t[1]
    OBVIOUS
  <2>3. InPlace(slice, product.shape.rows, Cols)
    BY <1>3, <2>2
  <2>4. PICK after : after = RunSlice(result, slice)
    OBVIOUS
  <2>5. /\ DOMAIN after = DOMAIN result
        /\ \A r \in 0 .. product.shape.rows - 1, c \in 0 .. Cols - 1 :
              after[c * product.shape.rows + r] =
                  IF Has(slice, r, c) THEN FullProduct(r, c) ELSE result[c * product.shape.rows + r]
    BY <2>1, <2>3, <2>4, SliceIsWritten
  <2> QED  BY <1>1, <2>2, <2>4, <2>5
<1>8. \A r \in 0 .. product.shape.rows - 1, c \in 0 .. Cols - 1 :
         result'[c * product.shape.rows + r] = IF Left(r, c)' THEN Untouched ELSE FullProduct(r, c)
  BY <1>6, <1>7 DEF CInv
<1> QED  BY <1>1, <1>2, <1>4, <1>5, <1>7, <1>8 DEF CInv, Untouched

\* Whatever the shapes, the limits, the tiles and the order of the threads, for
\* each entry and each tier: when a call has ended every cell of its output is
\* the whole product of its row and its column, and of nothing else.
THEOREM CpuProducts == CpuSpec => []CpuOutputLikeReference
<1>1. CInv /\ UNCHANGED cpuVars => CInv'
  <2> SUFFICES ASSUME CInv, UNCHANGED cpuVars PROVE CInv'
    OBVIOUS
  <2>1. UNCHANGED <<product, tasks, result>>
    BY DEF cpuVars
  <2>2. /\ UNCHANGED Cols /\ UNCHANGED RowWidth
        /\ \A r, c : UNCHANGED FullProduct(r, c) /\ UNCHANGED Left(r, c)
    BY <2>1 DEF Cols, RowWidth, CK, FullProduct, Left
  <2> QED  BY <2>1, <2>2 DEF CInv, Untouched
<1>2. CInv /\ [CpuNext]_cpuVars => CInv'
  BY <1>1, RunTaskInv DEF CpuNext
<1>3. CInv => CpuOutputLikeReference
  BY DEF CInv, Left, FullProduct, CpuOutputLikeReference
<1> QED  BY CpuInitInv, <1>2, <1>3, PTL DEF CpuSpec

\* Both kinds of processor compute the same: the product of the reference, in
\* every cell, by whatever kernel, tiling or thread it was written.
THEOREM ProductsAreRight == KernelSpec /\ CpuSpec => []ProductsLikeReference
<1>1. GpuOutputLikeReference /\ CpuOutputLikeReference => ProductsLikeReference
  BY DEF ProductsLikeReference
<1> QED  BY <1>1, GpuProducts, CpuProducts, PTL

-----------------------------------------------------------------------------
(* The element kernels: which thread takes which element.                    *)
\* The elements of a strided loop, each in one round of it.
LEMMA StridedElements ==
  ASSUME NEW first \in Nat, NEW n \in Nat, NEW step \in Nat \ {0}, NEW S, S = Strided(first, n, step)
  PROVE  /\ \A k \in DOMAIN S : k \in Nat \ {0} /\ S[k] = first + (k - 1) * step /\ S[k] \in 0 .. n - 1
         /\ \A m \in Nat : first + m * step < n => m + 1 \in DOMAIN S /\ S[m + 1] = first + m * step
<1>0. CASE n + step - 1 < first
  <2>1. \A k \in 1 .. (n - first + step - 1) \div step : FALSE
    <3>1. PICK e \in Int : e = n - first + step - 1 /\ e < 0
      BY <1>0
    <3>2. e \div step < 0
      BY <3>1, Z3
    <3> QED  BY <3>1, <3>2
  <2>2. \A m \in Nat : ~ (first + m * step < n)
    <3> SUFFICES ASSUME NEW m \in Nat, first + m * step < n PROVE FALSE
      OBVIOUS
    <3>1. m * step \in Nat
      OBVIOUS
    <3> QED  BY <1>0, <3>1
  <2> QED  BY <2>1, <2>2 DEF Strided
<1>1. CASE ~ (n + step - 1 < first)
  <2>1. PICK e \in Nat : e = n - first + step - 1
    BY <1>1
  <2>2. PICK q \in Nat, x \in 0 .. step - 1 : q = e \div step /\ e = q * step + x
    BY Division
  <2>3. DOMAIN S = 1 .. q /\ \A k \in 1 .. q : S[k] = first + (k - 1) * step
    BY <2>1, <2>2 DEF Strided
  <2>4. ASSUME NEW m \in Nat PROVE m < q <=> first + m * step < n
    <3>1. m * step \in Nat /\ q * step \in Nat
      OBVIOUS
    <3>2. m < q => m * step + step <= q * step
      BY NextMultiple
    <3>3. q < m => q * step + step <= m * step
      BY NextMultiple
    <3>4. PICK a \in Nat, b \in Nat : a = m * step /\ b = q * step
      BY <3>1
    <3>5. n + step = b + x + first + 1 /\ (m < q => a + step <= b) /\ (q < m => b + step <= a)
          /\ (m = q => a = b)
      BY <2>1, <2>2, <3>2, <3>3, <3>4
    <3>6. m < q <=> first + a < n
      BY <3>5
    <3> QED  BY <3>4, <3>6
  <2>5. ASSUME NEW k \in 1 .. q PROVE first + (k - 1) * step \in 0 .. n - 1
    <3>1. k - 1 \in Nat /\ k - 1 < q /\ (k - 1) * step \in Nat
      OBVIOUS
    <3> QED  BY <2>4, <3>1
  <2>6. ASSUME NEW k \in DOMAIN S
        PROVE  k \in Nat \ {0} /\ S[k] = first + (k - 1) * step /\ S[k] \in 0 .. n - 1
    <3>1. k \in 1 .. q /\ S[k] = first + (k - 1) * step
      BY <2>3, <2>6
    <3> QED  BY <2>5, <3>1
  <2>7. ASSUME NEW m \in Nat, first + m * step < n
        PROVE  m + 1 \in DOMAIN S /\ S[m + 1] = first + m * step
    <3>1. m + 1 \in 1 .. q /\ (m + 1) - 1 = m
      BY <2>4, <2>7
    <3> QED  BY <2>3, <3>1
  <2> QED  BY <2>6, <2>7
<1> QED  BY <1>0, <1>1


\* The threads of a grid that goes over its elements with the stride of the grid.
GridThreads(grid) == (0 .. grid - 1) \X ThreadsOf(GROUP)

\* A thread for each number below the threads of the grid.
LEMMA ThreadOfNumber ==
  ASSUME NEW grid \in Nat \ {0}
  PROVE  /\ grid * GROUP \in Nat \ {0}
         /\ \A w \in GridThreads(grid) : w[1] * GROUP + w[2] \in 0 .. grid * GROUP - 1
         /\ \A x \in 0 .. grid * GROUP - 1 : \E w \in GridThreads(grid) : w[1] * GROUP + w[2] = x
         /\ \A w, v \in GridThreads(grid) : w[1] * GROUP + w[2] = v[1] * GROUP + v[2] => w = v
<1>0. PICK s \in Nat \ {0} : s = GROUP
  BY GroupsAssumption
<1>1. s * grid \in Nat \ {0} /\ s * grid = grid * s
  OBVIOUS
<1>2. GridThreads(grid) = (0 .. grid - 1) \X (0 .. s - 1)
  BY <1>0 DEF GridThreads, ThreadsOf
<1>3. \A w \in GridThreads(grid) : w[1] * s + w[2] \in 0 .. grid * s - 1
  <2> SUFFICES ASSUME NEW g \in 0 .. grid - 1, NEW t \in 0 .. s - 1 PROVE g * s + t \in 0 .. s * grid - 1
    BY <1>1, <1>2
  <2> QED  BY CellOfRowAndColumn
<1>4. \A x \in 0 .. grid * s - 1 : \E w \in GridThreads(grid) : w[1] * s + w[2] = x
  <2> SUFFICES ASSUME NEW x \in 0 .. s * grid - 1
               PROVE  \E w \in (0 .. grid - 1) \X (0 .. s - 1) : w[1] * s + w[2] = x
    BY <1>1, <1>2
  <2>1. x % s \in 0 .. s - 1 /\ x \div s \in 0 .. grid - 1 /\ x = (x \div s) * s + (x % s)
    BY CellOfRowAndColumn
  <2>2. PICK g \in 0 .. grid - 1, t \in 0 .. s - 1 : x = g * s + t
    BY <2>1
  <2>3. PICK w : w = <<g, t>>
    OBVIOUS
  <2> QED  BY <2>2, <2>3
<1>5. \A w, v \in GridThreads(grid) : w[1] * s + w[2] = v[1] * s + v[2] => w = v
  <2> SUFFICES ASSUME NEW g \in 0 .. grid - 1, NEW t \in 0 .. s - 1,
                      NEW h \in 0 .. grid - 1, NEW u \in 0 .. s - 1, g * s + t = h * s + u
               PROVE  g = h /\ t = u
    BY <1>2
  <2> QED  BY QuotientIsOwn
<1> QED  BY <1>0, <1>1, <1>3, <1>4, <1>5

\* What a thread of a grid goes over, in a kernel with GridStride.
Visited(total, grid, w) == Strided(w[1] * GROUP + w[2], total, grid * GROUP)
\* The threads of the grid together: every element, by one thread, in one round.
EachOnce(total, grid) ==
    /\ \A w \in GridThreads(grid) : \A k \in DOMAIN Visited(total, grid, w) :
          Visited(total, grid, w)[k] \in 0 .. total - 1
    /\ \A i \in 0 .. total - 1 : \E w \in GridThreads(grid) : \E k \in DOMAIN Visited(total, grid, w) :
          Visited(total, grid, w)[k] = i
    /\ \A w, v \in GridThreads(grid) :
          \A k \in DOMAIN Visited(total, grid, w), l \in DOMAIN Visited(total, grid, v) :
             Visited(total, grid, w)[k] = Visited(total, grid, v)[l] => w = v /\ k = l

LEMMA GridVisitsEachOnce ==
  ASSUME NEW total \in Nat, NEW grid \in Nat \ {0}
  PROVE  EachOnce(total, grid)
<1>1. PICK n \in Nat \ {0} : n = grid * GROUP
  BY ThreadOfNumber
<1>2. ASSUME NEW w \in GridThreads(grid)
      PROVE  /\ w[1] * GROUP + w[2] \in 0 .. n - 1
             /\ \A k \in DOMAIN Visited(total, grid, w) :
                   /\ k \in Nat \ {0} /\ Visited(total, grid, w)[k] \in 0 .. total - 1
                   /\ Visited(total, grid, w)[k] = (w[1] * GROUP + w[2]) + (k - 1) * n
             /\ \A m \in Nat : (w[1] * GROUP + w[2]) + m * n < total =>
                   /\ m + 1 \in DOMAIN Visited(total, grid, w)
                   /\ Visited(total, grid, w)[m + 1] = (w[1] * GROUP + w[2]) + m * n
  <2>1. PICK x \in 0 .. n - 1 : x = w[1] * GROUP + w[2]
    BY <1>1, ThreadOfNumber
  <2>2. PICK S : S = Strided(x, total, n) /\ S = Visited(total, grid, w)
    BY <1>1, <2>1 DEF Visited
  <2>3. /\ \A k \in DOMAIN S : k \in Nat \ {0} /\ S[k] = x + (k - 1) * n /\ S[k] \in 0 .. total - 1
        /\ \A m \in Nat : x + m * n < total => m + 1 \in DOMAIN S /\ S[m + 1] = x + m * n
    <3>1. x \in Nat
      OBVIOUS
    <3>2. \A T : T = Strided(x, total, n) =>
             /\ \A k \in DOMAIN T : k \in Nat \ {0} /\ T[k] = x + (k - 1) * n /\ T[k] \in 0 .. total - 1
             /\ \A m \in Nat : x + m * n < total => m + 1 \in DOMAIN T /\ T[m + 1] = x + m * n
      BY <3>1, StridedElements
    <3> QED  BY <2>2, <3>2, Zenon
  <2> QED  BY <2>1, <2>2, <2>3
<1>3. ASSUME NEW i \in 0 .. total - 1
      PROVE  \E w \in GridThreads(grid) : \E k \in DOMAIN Visited(total, grid, w) :
                Visited(total, grid, w)[k] = i
  <2>0. i \in Nat
    OBVIOUS
  <2>1. PICK q \in Nat, x \in 0 .. n - 1 : i = q * n + x
    BY <2>0, Division
  <2>2. PICK w \in GridThreads(grid) : w[1] * GROUP + w[2] = x
    BY <1>1, ThreadOfNumber
  <2>3. x + q * n = i
    <3>1. PICK a \in Nat : a = q * n
      OBVIOUS
    <3> QED  BY <2>1, <3>1
  <2>4. q + 1 \in DOMAIN Visited(total, grid, w) /\ Visited(total, grid, w)[q + 1] = i
    BY <1>2, <2>2, <2>3
  <2> QED  BY <2>4
<1>4. ASSUME NEW w \in GridThreads(grid), NEW v \in GridThreads(grid),
             NEW k \in DOMAIN Visited(total, grid, w), NEW l \in DOMAIN Visited(total, grid, v),
             Visited(total, grid, w)[k] = Visited(total, grid, v)[l]
      PROVE  w = v /\ k = l
  <2>1. PICK x \in 0 .. n - 1, y \in 0 .. n - 1 :
           x = w[1] * GROUP + w[2] /\ y = v[1] * GROUP + v[2]
    BY <1>2
  <2>2. PICK p \in Nat, q \in Nat : p = k - 1 /\ q = l - 1 /\ k = p + 1 /\ l = q + 1
    <3>1. k \in Nat \ {0} /\ l \in Nat \ {0}
      BY <1>2
    <3> QED  BY <3>1
  <2>3. x + p * n = y + q * n
    BY <1>2, <1>4, <2>1, <2>2
  <2>4. p * n + x = q * n + y
    <3>1. PICK a \in Nat, b \in Nat : a = p * n /\ b = q * n
      OBVIOUS
    <3> QED  BY <2>3, <3>1
  <2>5. p = q /\ x = y
    BY <2>4, QuotientIsOwn
  <2> QED  BY <2>1, <2>2, <2>5, ThreadOfNumber
<1> QED  BY <1>2, <1>3, <1>4 DEF EachOnce

\* The glue of the image models runs on a grid that is never larger than
\* DIT_GLUE_MAX_GRID: whatever the number of elements, the loops of its threads
\* take each of them exactly once, and none that is not there.
THEOREM EveryElementOnce ==
  ASSUME NEW total \in Nat
  PROVE  EachOnce(total, elementwise_grid(total))
<1>1. PICK limit \in Nat \ {0} : limit = DIT_GLUE_MAX_GRID
  BY GroupsAssumption
<1>2. PICK b \in Int : b = div_ceil(total, GROUP)
  <2>1. PICK s \in Nat \ {0} : s = GROUP
    BY GroupsAssumption
  <2>2. PICK n \in Nat : n = total + s - 1
    <3>1. total + s - 1 \in Nat
      OBVIOUS
    <3> QED  BY <3>1
  <2>3. n \div s \in Nat
    BY Division
  <2> QED  BY <2>1, <2>2, <2>3 DEF div_ceil
<1>3. elementwise_grid(total) \in Nat \ {0}
  BY <1>1, <1>2 DEF elementwise_grid
<1> QED  BY <1>3, GridVisitsEachOnce

=============================================================================
