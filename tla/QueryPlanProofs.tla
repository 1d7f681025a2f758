--------------------------- MODULE QueryPlanProofs ---------------------------
(***************************************************************************)
(* Proofs about QueryPlan, for every grid, chunk shape, number of steps to *)
(* a zone map object and set of options and arrays.                        *)
(***************************************************************************)
EXTENDS QueryPlan, Lemmas

-----------------------------------------------------------------------------
(* Numbers *)

(* Quotient and remainder of a multiple and something more. *)
LEMMA MultiplePlus ==
  ASSUME NEW d \in Nat \ {0}, NEW m \in Nat, NEW n \in Nat, m % d = 0
  PROVE  /\ (n + m) \div d = n \div d + m \div d
         /\ (n + m) % d = n % d
<1>1. /\ m \div d \in Nat /\ m = (m \div d) * d
      /\ n \div d \in Nat /\ n % d \in 0 .. d - 1 /\ n = (n \div d) * d + (n % d)
  BY DivisionOf
<1> DEFINE a == m \div d
           b == n \div d
           r == n % d
<1>2. a \in Nat /\ b \in Nat /\ r \in 0 .. d - 1
  BY <1>1
<1> HIDE DEF a, b, r
<1>3. n + m = (b + a) * d + r
  <2>1. m = a * d /\ n = b * d + r
    BY <1>1 DEF a, b, r
  <2>2. (b * d + r) + a * d = (b + a) * d + r
    BY <1>2
  <2> QED
    BY <2>1, <2>2
<1>4. ((b + a) * d + r) \div d = b + a /\ ((b + a) * d + r) % d = r
  BY <1>2, Division
<1> QED
  BY <1>3, <1>4 DEF a, b, r

(* A multiple of a multiple is one, and so is a difference. *)
LEMMA Multiples ==
  ASSUME NEW d \in Nat \ {0}, NEW m \in Nat, NEW k \in Nat, NEW n \in Nat,
         m % d = 0, n % d = 0
  PROVE  (k * m) % d = 0 /\ (n >= k * m => (n - k * m) % d = 0)
<1> DEFINE a == m \div d
           b == n \div d
<1>1. a \in Nat /\ b \in Nat /\ m = a * d /\ n = b * d
  BY DivisionOf
<1> HIDE DEF a, b
<1>2. k * m = (k * a) * d /\ k * a \in Nat
  BY <1>1
<1>3. ((k * a) * d + 0) % d = 0
  BY <1>2, Division
<1>4. ASSUME n >= k * m PROVE (n - k * m) % d = 0
  <2> DEFINE c == k * a
  <2>1. c \in Nat /\ k * m = c * d
    BY <1>2
  <2> HIDE DEF c
  <2>2. b * d >= c * d
    BY <1>1, <1>4, <2>1
  <2>3. b >= c
    <3>1. ASSUME b + 1 <= c PROVE FALSE
      <4>1. (c - b) * d >= d
        <5>1. c - b >= 1 /\ c - b \in Nat
          BY <1>1, <2>1, <3>1
        <5>2. \A x \in Nat : x >= 1 => x * d >= d
          OBVIOUS
        <5> QED
          BY <5>1, <5>2
      <4>2. (c - b) * d = c * d - b * d
        BY <1>1, <2>1
      <4> QED
        BY <1>1, <2>1, <2>2, <4>1, <4>2
    <3> QED
      BY <1>1, <2>1, <3>1
  <2>4. n - k * m = (b - c) * d + 0 /\ b - c \in Nat
    <3>1. b * d - c * d = (b - c) * d + 0
      BY <1>1, <2>1
    <3> QED
      BY <1>1, <2>1, <2>3, <3>1
  <2>5. ((b - c) * d + 0) % d = 0
    BY <2>4, Division
  <2> QED
    BY <2>4, <2>5
<1> QED
  BY <1>2, <1>3, <1>4

(* The smaller of two numbers. *)
LEMMA MinOfTwo ==
  ASSUME NEW a \in Int, NEW b \in Int
  PROVE  Min({a, b}) = IF a <= b THEN a ELSE b
  BY DEF Min

-----------------------------------------------------------------------------
(* The tasks *)

(* What GridAssumption says of the sides. *)
LEMMA Sides ==
  /\ grid[1] \in Nat \ {0} /\ grid[2] \in Nat \ {0} /\ grid[3] \in Nat \ {0}
  /\ subs[1] \in Nat \ {0} /\ subs[2] \in Nat \ {0} /\ subs[3] \in Nat \ {0}
  /\ grid[1] % subs[1] = 0
  /\ rows = grid[2] * grid[3] /\ rows \in Nat \ {0}
<1>1. /\ grid[1] \in Nat \ {0} /\ grid[2] \in Nat \ {0} /\ grid[3] \in Nat \ {0}
      /\ subs[1] \in Nat \ {0} /\ subs[2] \in Nat \ {0} /\ subs[3] \in Nat \ {0}
  <2>1. /\ grid \in (Nat \ {0}) \X (Nat \ {0}) \X (Nat \ {0})
        /\ subs \in (Nat \ {0}) \X (Nat \ {0}) \X (Nat \ {0})
    BY GridAssumption DEF CutsInto, Shape
  <2> QED
    BY <2>1
<1>2. grid[1] % subs[1] = 0
  BY GridAssumption DEF CutsInto
<1>3. grid[2] * grid[3] \in Nat \ {0}
  <2>1. \A a, b \in Nat \ {0} : a * b \in Nat \ {0}
    OBVIOUS
  <2> QED
    BY <1>1, <2>1
<1> QED
  BY <1>1, <1>2, <1>3 DEF rows

(* A task covers some of the steps along the first axis, in whole chunks.  *)
LEMMA TaskSteps ==
  ASSUME arr \in Arrays, NEW t \in Tasks
  PROVE  /\ tChunk \in Nat \ {0} /\ t \in Nat
         /\ nUnits(t) \in Nat \ {0} /\ nUnits(t) % subs[1] = 0
         /\ Pipelined =>
              /\ tChunk % subs[1] = 0
              /\ t * tChunk \in Nat
              /\ nUnits(t) <= tChunk /\ t * tChunk + nUnits(t) <= grid[1]
              /\ nUnits(t) = tChunk \/ t * tChunk + nUnits(t) = grid[1]
         /\ ~Pipelined => t = 0 /\ nUnits(t) = grid[1]
<1>1. tChunk \in Nat \ {0}
  <2>1. arr.tChunk \in (Nat \ {0}) \cup {None}
    BY ArraysAssumption
  <2> QED
    BY <2>1, Sides DEF tChunk, ByKey
<1>2. CASE ~Pipelined
  BY <1>1, <1>2, Sides DEF Tasks, nUnits
<1>3. CASE Pipelined
  <2>1. tChunk = arr.tChunk /\ tChunk % subs[1] = 0
    BY <1>3 DEF Pipelined, tChunk, ByKey
  <2>2. nObjects = (grid[1] + tChunk - 1) \div tChunk /\ t \in 0 .. nObjects - 1
    BY <1>3 DEF Tasks, Objects, nObjects
  <2> DEFINE n == grid[1]
             c == tChunk
             m == grid[1] + tChunk - 1
             q == nObjects
  <2>3. n \in Nat \ {0} /\ c \in Nat \ {0} /\ m \in Nat /\ m = n + c - 1
    BY <1>1, Sides
  <2>4. q \in Nat /\ m % c \in 0 .. c - 1 /\ m = q * c + (m % c)
    BY <2>2, <2>3, DivisionOf
  <2>5. t \in Nat /\ t + 1 <= q
    BY <2>2, <2>4
  <2> HIDE DEF n, c, q
  <2>6. (t + 1) * c <= q * c
    BY <2>3, <2>4, <2>5
  <2>7. t * c \in Nat /\ (t + 1) * c = t * c + c
    BY <2>3, <2>5
  <2>8. t * c < n
    <3> HIDE DEF m
    <3> QED
      BY <2>3, <2>4, <2>6, <2>7
  <2>9. nUnits(t) = IF c <= n - t * c THEN c ELSE n - t * c
    <3>1. n - t * c \in Int
      BY <2>3, <2>7
    <3> QED
      BY <1>3, <2>3, <3>1, MinOfTwo DEF nUnits, n, c
  <2>10. c % subs[1] = 0 /\ (n - t * c) % subs[1] = 0
    <3>1. n % subs[1] = 0 /\ c % subs[1] = 0
      BY <2>1, Sides DEF n, c
    <3>2. n >= t * c
      BY <2>3, <2>7, <2>8
    <3>3. n \in Nat /\ c \in Nat /\ t \in Nat /\ subs[1] \in Nat \ {0}
      BY <2>3, <2>5, Sides
    <3>4. n >= t * c => (n - t * c) % subs[1] = 0
      BY <3>1, <3>3, Multiples
    <3> QED
      BY <3>1, <3>2, <3>4
  <2>11. nUnits(t) % subs[1] = 0
    BY <2>9, <2>10
  <2>12. /\ nUnits(t) \in Nat \ {0} /\ nUnits(t) <= c /\ t * c + nUnits(t) <= n
         /\ nUnits(t) = c \/ t * c + nUnits(t) = n
    <3> DEFINE u == t * c
    <3>1. u \in Nat /\ u < n
      BY <2>7, <2>8
    <3> HIDE DEF u
    <3>2. nUnits(t) = IF c <= n - u THEN c ELSE n - u
      BY <2>9 DEF u
    <3>3. /\ nUnits(t) \in Nat \ {0} /\ nUnits(t) <= c /\ u + nUnits(t) <= n
          /\ nUnits(t) = c \/ u + nUnits(t) = n
      BY <2>3, <3>1, <3>2
    <3> QED
      BY <3>3 DEF u
  <2> QED
    BY <1>1, <1>3, <2>1, <2>5, <2>7, <2>11, <2>12 DEF n, c
<1> QED
  BY <1>2, <1>3

(* The array is one of Arrays, and a query that raised has a cause. *)
Fixed ==
  /\ arr \in Arrays
  /\ pc = "raised" => cause \in {"call", "store"}

(* What a query asks never changes. *)
LEMMA AskedOnce ==
  Next => UNCHANGED <<arr, op, opts>>
  BY DEF Next, MakeOptions, BadOptions, Refuse, Start, Arrive, FailObject, Plan, Count, FailRead,
         Finish, Raise

(* Fixed is an invariant: Plan never raises. *)
LEMMA FixedInvariant == Spec => []Fixed
<1>1. Init => Fixed
  BY DEF Init, Fixed
<1>2. Fixed /\ [Next]_vars => Fixed'
  <2> SUFFICES ASSUME Fixed, [Next]_vars PROVE Fixed'
    OBVIOUS
  <2>1. arr' = arr
    BY AskedOnce DEF vars
  <2>2. CASE MakeOptions \/ BadOptions \/ Refuse \/ Start
    BY <2>1, <2>2 DEF Fixed, MakeOptions, BadOptions, Refuse, Start, Raise
  <2>3. ASSUME NEW i \in Objects, Arrive(i) \/ FailObject(i)
        PROVE  Fixed'
    BY <2>1, <2>3 DEF Fixed, Arrive, FailObject, Raise
  <2>4. ASSUME NEW t \in Tasks, Plan(t)
        PROVE  Fixed'
    <3>1. WholeChunks(t)
      BY TaskSteps DEF Fixed, WholeChunks
    <3> QED
      BY <2>1, <2>4, <3>1 DEF Fixed, Plan
  <2>5. ASSUME NEW t \in DOMAIN plans, NEW r \in Reads(t), Count(r) \/ FailRead(r)
        PROVE  Fixed'
    BY <2>1, <2>5 DEF Fixed, Count, FailRead, Raise
  <2>6. CASE Finish \/ UNCHANGED vars
    BY <2>1, <2>6 DEF Fixed, Finish, vars
  <2> QED
    BY <2>2, <2>3, <2>4, <2>5, <2>6 DEF Next
<1> QED
  BY <1>1, <1>2, PTL DEF Spec

(* The planner is never given a grid that it refuses: a query that accepts *)
(* its arguments fails only if the store does, for any grid and packing.   *)
THEOREM AlwaysRaisesForCause == Spec => []RaisesForCause
<1>1. Fixed => RaisesForCause
  BY DEF Fixed, RaisesForCause
<1> QED
  BY <1>1, FixedInvariant, PTL

-----------------------------------------------------------------------------
(* The shares of the tasks *)

(* The number of units. *)
LEMMA NumberOfUnits ==
  Units = 0 .. grid[1] * rows - 1
<1>1. grid[1] * grid[2] * grid[3] = grid[1] * (grid[2] * grid[3])
  BY Sides
<1> QED
  BY <1>1, Sides DEF Units, Volume

(* Reading the zone map puts every record in its place, padding or not.    *)
LEMMA ZoneMapInPlace ==
  ASSUME arr \in Arrays, tChunk \in Nat \ {0}, NEW u \in Units
  PROVE  WholeZoneMap[u] = arr.units[u]
<1> DEFINE n == tChunk * rows
           i == u \div n
           p == u % n
<1>1. n \in Nat \ {0} /\ n = tChunk * rows
  BY Sides
<1>2. u \in Nat
  <2>1. grid[1] * rows \in Int
    BY Sides
  <2> QED
    BY <2>1, NumberOfUnits
<1> HIDE DEF n
<1>3. i \in Nat /\ p \in 0 .. n - 1 /\ u = i * n + p
  BY <1>1, <1>2, DivisionOf
<1> HIDE DEF i, p
<1>4. i * tChunk * rows + p = u
  <2>1. i * tChunk * rows = i * (tChunk * rows)
    BY <1>3, Sides
  <2> QED
    BY <1>1, <1>3, <2>1
<1>5. Object(i)[p] = arr.units[u]
  BY <1>1, <1>3, <1>4 DEF Object
<1> QED
  BY <1>5 DEF WholeZoneMap, n, i, p

(* The steps before those of task t. *)
Shift(t) == IF Pipelined THEN t * tChunk ELSE 0

(* A task's record is that of the array's unit, as many steps on.          *)
LEMMA RecordInPlace ==
  ASSUME arr \in Arrays, NEW t \in Tasks, NEW n \in 0 .. nUnits(t) * rows - 1
  PROVE  Records(t)[n] = arr.units[Shift(t) * rows + n]
<1>1. /\ tChunk \in Nat \ {0} /\ t \in Nat /\ nUnits(t) \in Nat \ {0}
      /\ rows \in Nat \ {0} /\ grid[1] \in Nat \ {0}
  BY TaskSteps, Sides
<1>2. nUnits(t) * rows \in Nat
  BY <1>1
<1>3. CASE Pipelined
  <2>1. t * tChunk \in Nat /\ t * tChunk + nUnits(t) <= grid[1] /\ nUnits(t) <= tChunk
    BY <1>3, TaskSteps
  <2> DEFINE s == t * tChunk
             k == nUnits(t)
  <2>2. s \in Nat /\ k \in Nat /\ s + k <= grid[1] /\ k <= tChunk
    BY <1>1, <2>1
  <2> HIDE DEF s, k
  <2>3. k * rows <= tChunk * rows /\ (s + k) * rows <= grid[1] * rows
    BY <1>1, <2>2, ProductGrows
  <2>4. (s + k) * rows = s * rows + k * rows /\ s * rows \in Nat
    BY <1>1, <2>2
  <2>5. n \in 0 .. k * rows - 1
    BY DEF k
  <2>6. /\ k * rows \in Nat /\ s * rows \in Nat
        /\ tChunk * rows \in Nat /\ grid[1] * rows \in Nat
    BY <1>1, <2>2
  <2>7. n \in 0 .. tChunk * rows - 1 /\ s * rows + n \in 0 .. grid[1] * rows - 1
    BY <2>3, <2>4, <2>5, <2>6
  <2>8. Object(t)[n] = IF s * rows + n \in Units THEN arr.units[s * rows + n] ELSE Padding
    BY <2>7 DEF Object, s
  <2>9. Records(t)[n] = Object(t)[n]
    BY <1>3 DEF Records
  <2>10. Shift(t) = s
    BY <1>3 DEF Shift, s
  <2> QED
    BY <2>7, <2>8, <2>9, <2>10, NumberOfUnits
<1>4. CASE ~Pipelined
  <2>1. n \in Units
    BY <1>4, TaskSteps, NumberOfUnits
  <2>2. WholeZoneMap[n] = arr.units[n]
    BY <1>1, <2>1, ZoneMapInPlace
  <2>3. Shift(t) * rows + n = n
    BY <1>1, <1>2, <1>4 DEF Shift
  <2> QED
    BY <1>4, <2>2, <2>3 DEF Records
<1> QED
  BY <1>3, <1>4

(* The blocks of task t's own grid, and what the planner lists of one.     *)
TaskGrid(t) == <<nUnits(t), grid[2], grid[3]>>
TaskBlocks(t) == Coords(TaskGrid(t)) \X UnitBlocks
TaskEntry(t, e) ==
  [chunk |-> ChunkOffset(t) + Ravel(DivBy(e[1], subs), DivBy(TaskGrid(t), subs)),
   block |-> Ravel(ModBy(e[1], subs), subs) * BlocksPerUnit + e[2],
   state |-> Records(t)[Ravel(e[1], TaskGrid(t))][e[2]][PlannedLayer].class]
TaskEntries(t) == {d \in {TaskEntry(t, e) : e \in TaskBlocks(t)} : d.state \in Listed}
ShareEntries(t) == {d \in {ArrayEntry(b) : b \in ShareOf(t)} : d.state \in Listed}

(* What the planner returns for a task. *)
LEMMA PlanOfTask ==
  ASSUME NEW t
  PROVE  PlanOf(Records(t), nUnits(t), ChunkOffset(t)).blocks = InOrder(TaskEntries(t))
<1> DEFINE Class(e) == Records(t)[Ravel(e[1], TaskGrid(t))][e[2]][PlannedLayer].class
           S == {TaskEntry(t, e) : e \in {a \in TaskBlocks(t) : Class(a) \in Listed}}
<1>1. PlanOf(Records(t), nUnits(t), ChunkOffset(t)).blocks = InOrder(S)
  BY DEF PlanOf, TaskGrid, TaskBlocks, TaskEntry
<1>2. \A e \in TaskBlocks(t) : TaskEntry(t, e).state = Class(e)
  BY DEF TaskEntry
<1> HIDE DEF Class
<1>3. S = TaskEntries(t)
  BY <1>2 DEF TaskEntries
<1> QED
  BY <1>1, <1>3

(* Block e of task t is this block of the array.                           *)
Shifted(t, e) == <<<<e[1][1] + Shift(t), e[1][2], e[1][3]>>, e[2]>>

(* The steps that a task skips are whole chunks. *)
LEMMA ShiftFacts ==
  ASSUME arr \in Arrays, NEW t \in Tasks
  PROVE  /\ Shift(t) \in Nat /\ Shift(t) % subs[1] = 0
         /\ Shift(t) + nUnits(t) <= grid[1]
         /\ ChunkOffset(t)
              = (Shift(t) \div subs[1]) * ((grid[2] \div subs[2]) * (grid[3] \div subs[3]))
<1>1. /\ tChunk \in Nat \ {0} /\ t \in Nat /\ nUnits(t) \in Nat \ {0}
      /\ subs[1] \in Nat \ {0} /\ grid[1] \in Nat /\ grid[2] \in Nat /\ grid[3] \in Nat
      /\ subs[2] \in Nat \ {0} /\ subs[3] \in Nat \ {0}
  BY TaskSteps, Sides
<1>2. CASE Pipelined
  <2>1. t * tChunk \in Nat /\ t * tChunk + nUnits(t) <= grid[1] /\ tChunk % subs[1] = 0
    BY <1>2, TaskSteps
  <2>2. (t * tChunk) % subs[1] = 0
    <3>1. tChunk \in Nat /\ t \in Nat /\ subs[1] \in Nat \ {0} /\ tChunk % subs[1] = 0
      BY <1>1, <2>1
    <3>2. \A n \in Nat : n % subs[1] = 0 => (t * tChunk) % subs[1] = 0
      BY <3>1, Multiples
    <3> QED
      BY <3>1, <3>2
  <2> QED
    BY <1>2, <2>1, <2>2 DEF Shift, ChunkOffset
<1>3. CASE ~Pipelined
  <2>1. nUnits(t) = grid[1] /\ Shift(t) = 0
    BY <1>3, TaskSteps DEF Shift
  <2>2. \A d \in Nat \ {0} : 0 \div d = 0 /\ 0 % d = 0
    OBVIOUS
  <2>3. 0 \div subs[1] = 0 /\ 0 % subs[1] = 0
    BY <1>1, <2>2
  <2>4. (grid[2] \div subs[2]) * (grid[3] \div subs[3]) \in Int
    BY <1>1
  <2> QED
    BY <1>1, <1>3, <2>1, <2>3, <2>4 DEF ChunkOffset
<1> QED
  BY <1>2, <1>3

(* What a task lists of a block is what the array's plan lists of it. *)
LEMMA EntryInPlace ==
  ASSUME arr \in Arrays, NEW t \in Tasks, NEW e \in TaskBlocks(t)
  PROVE  /\ Shifted(t, e) \in ShareOf(t)
         /\ ArrayEntry(Shifted(t, e)) = TaskEntry(t, e)
<1> DEFINE x == e[1][1]
           y == e[1][2]
           z == e[1][3]
           s == Shift(t)
           k == nUnits(t)
<1>1. /\ x \in 0 .. k - 1 /\ y \in 0 .. grid[2] - 1 /\ z \in 0 .. grid[3] - 1
      /\ e[2] \in UnitBlocks
  BY DEF TaskBlocks, Coords, TaskGrid
<1>2. /\ s \in Nat /\ s % subs[1] = 0 /\ s + k <= grid[1]
      /\ ChunkOffset(t) = (s \div subs[1]) * ((grid[2] \div subs[2]) * (grid[3] \div subs[3]))
  BY ShiftFacts
<1>3. /\ tChunk \in Nat \ {0} /\ t \in Nat /\ k \in Nat \ {0}
      /\ grid[1] \in Nat \ {0} /\ grid[2] \in Nat \ {0} /\ grid[3] \in Nat \ {0}
      /\ subs[1] \in Nat \ {0} /\ subs[2] \in Nat \ {0} /\ subs[3] \in Nat \ {0}
      /\ rows = grid[2] * grid[3]
  BY TaskSteps, Sides
<1>4. Shifted(t, e) = <<<<x + s, y, z>>, e[2]>>
  BY DEF Shifted
<1>5. Pipelined => s = t * tChunk /\ k <= tChunk
  BY TaskSteps DEF Shift
<1> HIDE DEF x, y, z, s, k
<1>6. x + s \in 0 .. grid[1] - 1
  BY <1>1, <1>2, <1>3
<1>7. Pipelined => (x + s) \div tChunk = t
  <2> SUFFICES ASSUME Pipelined PROVE (x + s) \div tChunk = t
    OBVIOUS
  <2>1. x \in 0 .. tChunk - 1
    BY <1>1, <1>3, <1>5
  <2>2. (t * tChunk + x) \div tChunk = t
    BY <1>3, <2>1, Division
  <2>3. x + s = t * tChunk + x
    BY <1>2, <1>5, <2>1
  <2> QED
    BY <2>2, <2>3
<1>8. Shifted(t, e) \in ShareOf(t)
  BY <1>1, <1>4, <1>6, <1>7 DEF ShareOf, Coords
<1>9. x \in Nat /\ y \in Nat /\ z \in Nat
  BY <1>1, <1>3
<1>10. (x + s) \div subs[1] = x \div subs[1] + s \div subs[1] /\ (x + s) % subs[1] = x % subs[1]
  <2>1. subs[1] \in Nat \ {0} /\ s \in Nat /\ s % subs[1] = 0
    BY <1>2, <1>3
  <2> QED
    BY <1>9, <2>1, MultiplePlus
<1>11. ModBy(<<x + s, y, z>>, subs) = ModBy(<<x, y, z>>, subs)
  BY <1>10 DEF ModBy
<1> DEFINE a == x \div subs[1]
           b == y \div subs[2]
           c == z \div subs[3]
           B == grid[2] \div subs[2]
           C == grid[3] \div subs[3]
           o == s \div subs[1]
<1>12. /\ a \in Nat /\ b \in Nat /\ c \in Nat /\ B \in Nat /\ C \in Nat /\ o \in Nat
  <2>1. a \in Nat
    BY <1>3, <1>9, DivisionOf
  <2>2. b \in Nat
    BY <1>3, <1>9, DivisionOf
  <2>3. c \in Nat
    BY <1>3, <1>9, DivisionOf
  <2>4. B \in Nat
    BY <1>3, DivisionOf
  <2>5. C \in Nat
    BY <1>3, DivisionOf
  <2>6. o \in Nat
    BY <1>2, <1>3, DivisionOf
  <2> QED
    BY <2>1, <2>2, <2>3, <2>4, <2>5, <2>6
<1>13. (x + s) \div subs[1] = a + o
  BY <1>10
<1>14. /\ Ravel(DivBy(<<x + s, y, z>>, subs), DivBy(grid, subs)) = ((a + o) * B + b) * C + c
       /\ Ravel(DivBy(<<x, y, z>>, subs), DivBy(TaskGrid(t), subs)) = (a * B + b) * C + c
       /\ ChunkOffset(t) = o * (B * C)
  BY <1>2, <1>13 DEF Ravel, DivBy, TaskGrid
<1> HIDE DEF a, b, c, B, C, o
<1>15. ((a + o) * B + b) * C + c = o * (B * C) + ((a * B + b) * C + c)
  BY <1>12
<1>16. /\ Ravel(<<x + s, y, z>>, grid) = s * rows + Ravel(<<x, y, z>>, TaskGrid(t))
       /\ Ravel(<<x, y, z>>, TaskGrid(t)) \in 0 .. k * rows - 1
  <2>1. /\ Ravel(<<x + s, y, z>>, grid) = ((x + s) * grid[2] + y) * grid[3] + z
        /\ Ravel(<<x, y, z>>, TaskGrid(t)) = (x * grid[2] + y) * grid[3] + z
    BY DEF Ravel, TaskGrid
  <2>2. (x * grid[2] + y) * grid[3] + z \in 0 .. k * (grid[2] * grid[3]) - 1
    BY <1>1, <1>3, Place
  <2>3. x \in Nat /\ y \in Nat /\ z \in Nat
    BY <1>1, <1>3
  <2>4. ((x + s) * grid[2] + y) * grid[3] + z
          = s * (grid[2] * grid[3]) + ((x * grid[2] + y) * grid[3] + z)
    <3> DEFINE P == grid[2]
               Q == grid[3]
    <3>1. P \in Nat /\ Q \in Nat
      BY <1>3
    <3> HIDE DEF P, Q
    <3>2. ((x + s) * P + y) * Q + z = s * (P * Q) + ((x * P + y) * Q + z)
      BY <1>2, <2>3, <3>1
    <3> QED
      BY <3>2 DEF P, Q
  <2> QED
    BY <1>3, <2>1, <2>2, <2>4
<1>17. Records(t)[Ravel(<<x, y, z>>, TaskGrid(t))] = arr.units[Ravel(<<x + s, y, z>>, grid)]
  BY <1>16, RecordInPlace DEF s, k
<1>18. e[1] = <<x, y, z>>
  BY DEF TaskBlocks, Coords, x, y, z
<1>19. TaskEntry(t, e) =
         [chunk |-> ChunkOffset(t) + Ravel(DivBy(<<x, y, z>>, subs), DivBy(TaskGrid(t), subs)),
          block |-> Ravel(ModBy(<<x, y, z>>, subs), subs) * BlocksPerUnit + e[2],
          state |-> Records(t)[Ravel(<<x, y, z>>, TaskGrid(t))][e[2]][layer].class]
  BY <1>18 DEF TaskEntry, PlannedLayer
<1>20. ArrayEntry(<<<<x + s, y, z>>, e[2]>>) =
         [chunk |-> Ravel(DivBy(<<x + s, y, z>>, subs), DivBy(grid, subs)),
          block |-> Ravel(ModBy(<<x + s, y, z>>, subs), subs) * BlocksPerUnit + e[2],
          state |-> arr.units[Ravel(<<x + s, y, z>>, grid)][e[2]][layer].class]
  BY DEF ArrayEntry
<1>21. Ravel(DivBy(<<x + s, y, z>>, subs), DivBy(grid, subs))
         = ChunkOffset(t) + Ravel(DivBy(<<x, y, z>>, subs), DivBy(TaskGrid(t), subs))
  BY <1>14, <1>15
<1> QED
  BY <1>4, <1>8, <1>11, <1>17, <1>19, <1>20, <1>21

(* Every block of a task's share is one of its blocks. *)
LEMMA ShareCovered ==
  ASSUME arr \in Arrays, NEW t \in Tasks, NEW f \in ShareOf(t)
  PROVE  \E e \in TaskBlocks(t) : Shifted(t, e) = f
<1> DEFINE x == f[1][1]
           y == f[1][2]
           z == f[1][3]
           s == Shift(t)
           k == nUnits(t)
<1>1. /\ x \in 0 .. grid[1] - 1 /\ y \in 0 .. grid[2] - 1 /\ z \in 0 .. grid[3] - 1
      /\ f[2] \in UnitBlocks /\ f = <<<<x, y, z>>, f[2]>>
      /\ Pipelined => x \div tChunk = t
  BY DEF ShareOf, Coords
<1>2. /\ s \in Nat /\ tChunk \in Nat \ {0} /\ t \in Nat /\ k \in Nat /\ grid[1] \in Nat
  BY ShiftFacts, TaskSteps, Sides
<1>3. Pipelined => s = t * tChunk /\ (k = tChunk \/ s + k = grid[1])
  BY TaskSteps DEF Shift
<1>4. ~Pipelined => s = 0 /\ k = grid[1]
  BY TaskSteps DEF Shift
<1> HIDE DEF x, y, z, s, k
<1>5. x \in Nat
  BY <1>1, <1>2
<1>6. x - s \in 0 .. k - 1
  <2>1. CASE Pipelined
    <3>1. x % tChunk \in 0 .. tChunk - 1 /\ x = (x \div tChunk) * tChunk + (x % tChunk)
      BY <1>2, <1>5, DivisionOf
    <3>2. x = s + (x % tChunk)
      BY <1>1, <1>3, <2>1, <3>1
    <3> QED
      BY <1>1, <1>2, <1>3, <2>1, <3>1, <3>2
  <2>2. CASE ~Pipelined
    BY <1>1, <1>2, <1>4, <2>2
  <2> QED
    BY <2>1, <2>2
<1>7. <<<<x - s, y, z>>, f[2]>> \in TaskBlocks(t)
  BY <1>1, <1>6 DEF TaskBlocks, Coords, TaskGrid, k
<1>8. Shifted(t, <<<<x - s, y, z>>, f[2]>>) = f
  <2>1. (x - s) + s = x
    BY <1>2, <1>5
  <2> QED
    BY <1>1, <2>1 DEF Shifted, s
<1> QED
  BY <1>7, <1>8

(* A task lists what the array's plan lists of its share, and no more. *)
LEMMA TaskEntriesAreShare ==
  ASSUME arr \in Arrays, NEW t \in Tasks
  PROVE  TaskEntries(t) = ShareEntries(t)
<1>1. {TaskEntry(t, e) : e \in TaskBlocks(t)} = {ArrayEntry(b) : b \in ShareOf(t)}
  <2>1. \A e \in TaskBlocks(t) : Shifted(t, e) \in ShareOf(t)
                                  /\ ArrayEntry(Shifted(t, e)) = TaskEntry(t, e)
    BY EntryInPlace
  <2>2. \A f \in ShareOf(t) : \E e \in TaskBlocks(t) : Shifted(t, e) = f
    BY ShareCovered
  <2> QED
    BY <2>1, <2>2
<1> QED
  BY <1>1 DEF TaskEntries, ShareEntries

(* Whatever order objects arrive and are planned in, every task lists      *)
(* exactly what one plan of the whole array lists of its share, by the     *)
(* array's chunk numbers: the pipeline's tasks neither miss a block nor    *)
(* read one twice nor number a chunk by their own grid.                    *)
THEOREM SharesAlwaysPlanned == Spec => []SharesPlanned
<1> DEFINE Inv == \A t \in DOMAIN plans : plans[t].blocks = InOrder(ShareEntries(t))
<1>1. Init => Inv
  BY DEF Init
<1>2. Fixed /\ Inv /\ [Next]_vars => Inv'
  <2> SUFFICES ASSUME Fixed, Inv, [Next]_vars PROVE Inv'
    OBVIOUS
  <2>1. UNCHANGED <<arr, op, opts>>
    BY AskedOnce DEF vars
  <2>2. \A t : ShareEntries(t)' = ShareEntries(t)
    BY <2>1 DEF ShareEntries, ShareOf, ArrayEntry, Listed, layer, Pipelined, tChunk, ByKey
  <2>3. ASSUME NEW t \in Tasks, Plan(t), plans' # plans
        PROVE  Inv'
    <3>1. plans' = [u \in DOMAIN plans \cup {t} |->
                      IF u = t THEN PlanOf(Records(t), nUnits(t), ChunkOffset(t)) ELSE plans[u]]
      BY <2>3 DEF Plan, Raise
    <3>2. plans'[t].blocks = InOrder(ShareEntries(t))
      BY <3>1, PlanOfTask, TaskEntriesAreShare DEF Fixed
    <3>3. \A u \in DOMAIN plans' : u # t => u \in DOMAIN plans /\ plans'[u] = plans[u]
      BY <3>1
    <3> QED
      BY <2>2, <3>2, <3>3
  <2>4. CASE plans' = plans
    BY <2>2, <2>4
  <2>5. plans' = plans \/ \E t \in Tasks : Plan(t)
    BY DEF Next, MakeOptions, BadOptions, Refuse, Start, Arrive, FailObject, Count, FailRead,
           Finish, Raise, vars
  <2> QED
    BY <2>3, <2>4, <2>5
<1>3. Inv => SharesPlanned
  BY DEF SharesPlanned, ShareEntries
<1> QED
  BY <1>1, <1>2, <1>3, FixedInvariant, PTL DEF Spec

-----------------------------------------------------------------------------
(* The reads of a list in order *)

(* d and e are read together, with whatever lies between them. *)
Near(d, e) ==
  /\ d.chunk = e.chunk
  /\ d.block < e.block /\ e.block <= d.block + opts.merge_gap_blocks + 1
Firsts(S) == {e \in S : \A d \in S : ~Near(d, e)}
Lasts(S) == {d \in S : \A e \in S : ~Near(d, e)}

(* Item i starts a read. *)
StartsRead(list, i) == StartsRun(list, opts.merge_gap_blocks, i)

(* A read starts at an entry that no other comes near before.              *)
LEMMA StartsAtFirsts ==
  ASSUME NEW S, Placed(S), opts.merge_gap_blocks \in Nat, NEW k \in 1 .. Cardinality(S)
  PROVE  StartsRead(InOrder(S), k) <=> InOrder(S)[k] \in Firsts(S)
<1> DEFINE list == InOrder(S)
           n == Cardinality(S)
           gap == opts.merge_gap_blocks
<1>1. n \in Nat /\ k \in 1 .. n /\ gap \in Nat
  BY Ranks
<1>2. /\ \A i \in 1 .. n : list[i] \in S
      /\ \A i, j \in 1 .. n : i < j <=> Before(list[i], list[j])
      /\ \A e \in S : \E i \in 1 .. n : list[i] = e
  <2>1. \A i \in 1 .. n : list[i] \in S
    BY ListInOrder
  <2>2. \A i, j \in 1 .. n : i < j <=> Before(list[i], list[j])
    BY ListAscends
  <2>3. \A e \in S : \E i \in 1 .. n : list[i] = e
    BY ListInOrder
  <2> QED
    BY <2>1, <2>2, <2>3
<1>3. \A e \in S : e.chunk \in Int /\ e.block \in Int
  BY DEF Placed
<1>4. StartsRead(list, k) <=>
        (k = 1 \/ list[k].chunk # list[k - 1].chunk \/ list[k].block > list[k - 1].block + gap + 1)
  BY DEF StartsRead, StartsRun
<1>5. \A d, e :
        Near(d, e) <=> (d.chunk = e.chunk /\ d.block < e.block /\ e.block <= d.block + gap + 1)
  BY DEF Near
<1> HIDE DEF list, n, gap
<1>6. ASSUME list[k] \in Firsts(S), k # 1 PROVE StartsRead(list, k)
  <2>1. k - 1 \in 1 .. n /\ k - 1 < k
    BY <1>1, <1>6
  <2>2. list[k - 1] \in S /\ list[k] \in S /\ Before(list[k - 1], list[k])
    BY <1>1, <1>2, <2>1
  <2>3. ~Near(list[k - 1], list[k])
    BY <1>6, <2>2 DEF Firsts
  <2> QED
    BY <1>1, <1>3, <1>4, <1>5, <2>2, <2>3 DEF Before
<1>7. ASSUME StartsRead(list, k), NEW d \in S, Near(d, list[k]) PROVE FALSE
  <2>1. PICK j \in 1 .. n : list[j] = d
    BY <1>2
  <2>2. list[k] \in S
    BY <1>1, <1>2
  <2>3. Before(list[j], list[k])
    BY <1>3, <1>5, <1>7, <2>1, <2>2 DEF Before
  <2>4. j < k
    BY <1>1, <1>2, <2>3
  <2>5. k - 1 \in 1 .. n /\ k # 1 /\ k - 1 < k
    BY <1>1, <2>4
  <2>6. list[k - 1] \in S /\ Before(list[k - 1], list[k])
    BY <1>1, <1>2, <2>5
  <2>7. j = k - 1 \/ Before(list[j], list[k - 1])
    <3>1. j = k - 1 \/ j < k - 1
      BY <1>1, <2>4
    <3> QED
      BY <1>2, <2>5, <3>1
  <2> DEFINE a == list[j]
             b == list[k - 1]
             c == list[k]
  <2>8. /\ a \in S /\ b \in S /\ c \in S /\ (a = b \/ Before(a, b)) /\ Before(b, c) /\ Near(a, c)
        /\ (c.chunk # b.chunk \/ c.block > b.block + gap + 1)
    BY <1>4, <1>7, <2>1, <2>2, <2>5, <2>6, <2>7
  <2> HIDE DEF a, b, c
  <2> QED
    BY <1>1, <1>3, <1>5, <2>8 DEF Before
<1>8. list[k] \in S
  BY <1>1, <1>2
<1>9. k = 1 => StartsRead(list, k)
  BY <1>4
<1> QED
  BY <1>6, <1>7, <1>8, <1>9 DEF Firsts, list

(* A read ends at an entry that comes near before no other.                *)
LEMMA EndsAtLasts ==
  ASSUME NEW S, Placed(S), opts.merge_gap_blocks \in Nat, NEW k \in 1 .. Cardinality(S)
  PROVE  (k < Cardinality(S) => StartsRead(InOrder(S), k + 1)) <=> InOrder(S)[k] \in Lasts(S)
<1> DEFINE list == InOrder(S)
           n == Cardinality(S)
           gap == opts.merge_gap_blocks
<1>1. n \in Nat /\ k \in 1 .. n /\ gap \in Nat
  BY Ranks
<1>2. /\ \A i \in 1 .. n : list[i] \in S
      /\ \A i, j \in 1 .. n : i < j <=> Before(list[i], list[j])
      /\ \A e \in S : \E i \in 1 .. n : list[i] = e
  <2>1. \A i \in 1 .. n : list[i] \in S
    BY ListInOrder
  <2>2. \A i, j \in 1 .. n : i < j <=> Before(list[i], list[j])
    BY ListAscends
  <2>3. \A e \in S : \E i \in 1 .. n : list[i] = e
    BY ListInOrder
  <2> QED
    BY <2>1, <2>2, <2>3
<1>3. \A e \in S : e.chunk \in Int /\ e.block \in Int
  BY DEF Placed
<1>4. k \in Int => (StartsRead(list, k + 1) <=>
        (k + 1 = 1 \/ list[k + 1].chunk # list[k].chunk
           \/ list[k + 1].block > list[k].block + gap + 1))
  <2> SUFFICES ASSUME k \in Int PROVE StartsRead(list, k + 1) <=>
        (k + 1 = 1 \/ list[k + 1].chunk # list[k].chunk
           \/ list[k + 1].block > list[k].block + gap + 1)
    OBVIOUS
  <2>1. (k + 1) - 1 = k
    OBVIOUS
  <2> QED
    BY <2>1 DEF StartsRead, StartsRun
<1>5. \A d, e :
        Near(d, e) <=> (d.chunk = e.chunk /\ d.block < e.block /\ e.block <= d.block + gap + 1)
  BY DEF Near
<1> HIDE DEF list, n, gap
<1>6. list[k] \in S /\ k + 1 # 1 /\ k \in Int
  BY <1>1, <1>2
<1>7. ASSUME list[k] \in Lasts(S), k < n PROVE StartsRead(list, k + 1)
  <2>1. k + 1 \in 1 .. n /\ k < k + 1
    BY <1>1, <1>7
  <2>2. list[k + 1] \in S /\ Before(list[k], list[k + 1])
    BY <1>1, <1>2, <2>1
  <2>3. ~Near(list[k], list[k + 1])
    BY <1>7, <2>2 DEF Lasts
  <2> QED
    BY <1>1, <1>3, <1>4, <1>5, <1>6, <2>2, <2>3 DEF Before
<1>8. ASSUME k < n => StartsRead(list, k + 1), NEW e \in S, Near(list[k], e) PROVE FALSE
  <2>1. PICK j \in 1 .. n : list[j] = e
    BY <1>2
  <2>2. Before(list[k], list[j])
    BY <1>3, <1>5, <1>6, <1>8, <2>1 DEF Before
  <2>3. k < j
    BY <1>1, <1>2, <2>2
  <2>4. k + 1 \in 1 .. n /\ k < k + 1 /\ k < n
    BY <1>1, <2>3
  <2>5. list[k + 1] \in S /\ Before(list[k], list[k + 1])
    BY <1>1, <1>2, <2>4
  <2>6. j = k + 1 \/ Before(list[k + 1], list[j])
    <3>1. j = k + 1 \/ k + 1 < j
      BY <1>1, <2>3
    <3> QED
      BY <1>2, <2>4, <3>1
  <2> DEFINE a == list[k]
             b == list[k + 1]
             c == list[j]
  <2>7. /\ a \in S /\ b \in S /\ c \in S /\ (b = c \/ Before(b, c)) /\ Before(a, b) /\ Near(a, c)
        /\ (b.chunk # a.chunk \/ b.block > a.block + gap + 1)
    BY <1>4, <1>6, <1>8, <2>1, <2>4, <2>5, <2>6
  <2> HIDE DEF a, b, c
  <2> QED
    BY <1>1, <1>3, <1>5, <2>7 DEF Before
<1> QED
  BY <1>6, <1>7, <1>8 DEF Lasts, list, n

(* Every item is in exactly one read. *)
LEMMA OneReadEach ==
  ASSUME NEW list, NEW n \in Nat, DOMAIN list = 1 .. n, Len(list) = n, NEW k \in 1 .. n
  PROVE  /\ \E r \in Merged(list) : k \in r.from .. r.to
         /\ \A q, r \in Merged(list) : k \in q.from .. q.to /\ k \in r.from .. r.to => q = r
  BY OneRunEach DEF Merged

(* A list's reads, by the entry each starts at, and by the one it ends at. *)
LEMMA ReadsByEnds ==
  ASSUME NEW S, Placed(S), opts.merge_gap_blocks \in Nat
  PROVE  /\ [r \in Merged(InOrder(S)) |-> InOrder(S)[r.from]]
              \in Bijection(Merged(InOrder(S)), Firsts(S))
         /\ [r \in Merged(InOrder(S)) |-> InOrder(S)[r.to]]
              \in Bijection(Merged(InOrder(S)), Lasts(S))
<1> DEFINE list == InOrder(S)
           n == Cardinality(S)
           M == Merged(list)
           f == [r \in M |-> list[r.from]]
           g == [r \in M |-> list[r.to]]
<1>1. n \in Nat /\ DOMAIN list = 1 .. n /\ Len(list) = n
  BY Ranks, ListInOrder, ListAscends
<1>2. \A r \in M :
        /\ r.from \in 1 .. n /\ r.to \in 1 .. n /\ r.from <= r.to
        /\ StartsRead(list, r.from) /\ \A i \in r.from + 1 .. r.to : ~StartsRead(list, i)
        /\ r.to < n => StartsRead(list, r.to + 1)
  BY <1>1 DEF Merged, Runs, StartsRead
<1>3. /\ \A k \in 1 .. n : StartsRead(list, k) <=> list[k] \in Firsts(S)
      /\ \A k \in 1 .. n : (k < n => StartsRead(list, k + 1)) <=> list[k] \in Lasts(S)
  <2>1. \A k \in 1 .. n : StartsRead(list, k) <=> list[k] \in Firsts(S)
    BY StartsAtFirsts
  <2>2. \A k \in 1 .. n : (k < n => StartsRead(list, k + 1)) <=> list[k] \in Lasts(S)
    BY EndsAtLasts
  <2> QED
    BY <2>1, <2>2
<1>4. /\ \A k, l \in 1 .. n : list[k] = list[l] => k = l
      /\ \A e \in S : \E k \in 1 .. n : list[k] = e
  <2>1. \A k \in 1 .. n : PlaceIn(S, list[k]) = k - 1
    BY ListInOrder
  <2>2. \A e \in S : \E k \in 1 .. n : list[k] = e
    BY ListInOrder
  <2> HIDE DEF list, n
  <2>3. ASSUME NEW k \in 1 .. n, NEW l \in 1 .. n, list[k] = list[l] PROVE k = l
    <3>1. k - 1 = l - 1
      BY <2>1, <2>3
    <3> QED
      BY <1>1, <3>1
  <2> QED
    BY <2>2, <2>3
<1>5. \A k \in 1 .. n : /\ \E r \in M : k \in r.from .. r.to
                        /\ \A q, r \in M : k \in q.from .. q.to /\ k \in r.from .. r.to => q = r
  <2> HIDE DEF list, n
  <2> QED
    BY <1>1, OneReadEach
<1>6. Firsts(S) \subseteq S /\ Lasts(S) \subseteq S
  BY DEF Firsts, Lasts
<1> HIDE DEF list, n, M
<1>7. f \in Bijection(M, Firsts(S))
  <2>1. \A r \in M : f[r] = list[r.from] /\ f[r] \in Firsts(S)
    BY <1>2, <1>3
  <2>2. ASSUME NEW q \in M, NEW r \in M, f[q] = f[r] PROVE q = r
    <3>1. q.from = r.from
      BY <1>2, <1>4, <2>1, <2>2
    <3>2. q.from \in q.from .. q.to /\ q.from \in r.from .. r.to
      BY <1>1, <1>2, <3>1
    <3> QED
      BY <1>2, <1>5, <3>2
  <2>3. ASSUME NEW e \in Firsts(S) PROVE \E r \in M : f[r] = e
    <3>1. PICK k \in 1 .. n : list[k] = e
      BY <1>4, <1>6
    <3>2. PICK r \in M : k \in r.from .. r.to
      BY <1>5
    <3>3. StartsRead(list, k)
      BY <1>3, <3>1
    <3>4. k = r.from
      <4>1. r.from \in 1 .. n /\ r.to \in 1 .. n /\ k \notin r.from + 1 .. r.to
        BY <1>2, <3>3
      <4> QED
        BY <1>1, <3>2, <4>1
    <3> QED
      BY <2>1, <3>1, <3>4
  <2> HIDE DEF f
  <2>4. f \in [M -> Firsts(S)]
    <3>1. DOMAIN f = M /\ f = [r \in M |-> f[r]]
      BY DEF f
    <3> QED
      BY <2>1, <3>1
  <2> QED
    BY <2>2, <2>3, <2>4 DEF Bijection, Injection, Surjection, IsInjective
<1>8. g \in Bijection(M, Lasts(S))
  <2>1. \A r \in M : g[r] = list[r.to] /\ g[r] \in Lasts(S)
    BY <1>2, <1>3
  <2>2. ASSUME NEW q \in M, NEW r \in M, g[q] = g[r] PROVE q = r
    <3>1. q.to = r.to
      BY <1>2, <1>4, <2>1, <2>2
    <3>2. q.to \in q.from .. q.to /\ q.to \in r.from .. r.to
      BY <1>1, <1>2, <3>1
    <3> QED
      BY <1>2, <1>5, <3>2
  <2>3. ASSUME NEW e \in Lasts(S) PROVE \E r \in M : g[r] = e
    <3>1. PICK k \in 1 .. n : list[k] = e
      BY <1>4, <1>6
    <3>2. PICK r \in M : k \in r.from .. r.to
      BY <1>5
    <3>3. k < n => StartsRead(list, k + 1)
      BY <1>3, <3>1
    <3>4. k = r.to
      <4>1. /\ r.from \in 1 .. n /\ r.to \in 1 .. n
            /\ \A i \in r.from + 1 .. r.to : ~StartsRead(list, i)
        BY <1>2
      <4>2. k < r.to => k + 1 \in r.from + 1 .. r.to /\ k < n
        BY <1>1, <3>2, <4>1
      <4> QED
        BY <1>1, <3>2, <3>3, <4>1, <4>2
    <3> QED
      BY <2>1, <3>1, <3>4
  <2> HIDE DEF g
  <2>4. g \in [M -> Lasts(S)]
    <3>1. DOMAIN g = M /\ g = [r \in M |-> g[r]]
      BY DEF g
    <3> QED
      BY <2>1, <3>1
  <2> QED
    BY <2>2, <2>3, <2>4 DEF Bijection, Injection, Surjection, IsInjective
<1> QED
  BY <1>7, <1>8 DEF M, list

-----------------------------------------------------------------------------
(* The blocks of the array *)

Whole == Coords(grid) \X UnitBlocks

(* Shapes of the grid, of a chunk, and of the chunks of the grid. *)
LEMMA Shapes ==
  /\ grid \in Shape /\ subs \in Shape /\ DivBy(grid, subs) \in Shape
  /\ BlocksPerUnit \in Nat \ {0}
  /\ \A d \in 1 .. 3 : grid[d] = (grid[d] \div subs[d]) * subs[d]
  BY GridAssumption, PartsOfGrid

(* A coordinate splits into that of its chunk and that in the chunk. *)
LEMMA Splits ==
  ASSUME NEW x \in Coords(grid)
  PROVE  /\ DivBy(x, subs) \in Coords(DivBy(grid, subs))
         /\ ModBy(x, subs) \in Coords(subs)
         /\ \A d \in 1 .. 3 : x[d] = (x[d] \div subs[d]) * subs[d] + (x[d] % subs[d])
         /\ x = <<x[1], x[2], x[3]>>
  BY GridAssumption, SplitInParts

(* The chunk and the place in it that a block is listed by. *)
ChunkOf(x) == Ravel(DivBy(x, subs), DivBy(grid, subs))
UnitOf(x) == Ravel(ModBy(x, subs), subs)

(* What a listed block says of its place. *)
LEMMA EntryFacts ==
  ASSUME NEW b \in Whole
  PROVE  /\ ArrayEntry(b).chunk = ChunkOf(b[1]) /\ ChunkOf(b[1]) \in Nat
         /\ ArrayEntry(b).block \in Nat
         /\ ArrayEntry(b).block \div BlocksPerUnit = UnitOf(b[1])
         /\ ArrayEntry(b).block % BlocksPerUnit = b[2]
<1>1. b[1] \in Coords(grid) /\ b[2] \in UnitBlocks
  BY DEF Whole
<1>2. DivBy(b[1], subs) \in Coords(DivBy(grid, subs)) /\ ModBy(b[1], subs) \in Coords(subs)
  BY <1>1, Splits
<1>3. ChunkOf(b[1]) \in Nat
  <2>1. /\ Volume(DivBy(grid, subs)) \in Nat
        /\ ChunkOf(b[1]) \in 0 .. Volume(DivBy(grid, subs)) - 1
    BY <1>2, Shapes, RavelNumbers DEF ChunkOf
  <2> QED
    BY <2>1
<1>4. UnitOf(b[1]) \in Nat
  <2>1. /\ Volume(subs) \in Nat
        /\ UnitOf(b[1]) \in 0 .. Volume(subs) - 1
    BY <1>2, Shapes, RavelNumbers DEF UnitOf
  <2> QED
    BY <2>1
<1>5. ArrayEntry(b).block = UnitOf(b[1]) * BlocksPerUnit + b[2]
  BY DEF ArrayEntry, UnitOf
<1> DEFINE u == UnitOf(b[1])
           v == b[2]
           n == BlocksPerUnit
<1>6. n \in Nat \ {0} /\ u \in Nat /\ v \in 0 .. n - 1
  BY <1>1, <1>4, Shapes DEF UnitBlocks
<1> HIDE DEF u, v, n
<1>7. (u * n + v) \div n = u /\ (u * n + v) % n = v /\ u * n + v \in Nat
  BY <1>6, Division
<1> QED
  BY <1>3, <1>5, <1>7 DEF u, v, n, ArrayEntry, ChunkOf

(* Two units have different places. *)
LEMMA UnitsApart ==
  ASSUME NEW x \in Coords(grid), NEW y \in Coords(grid),
         ChunkOf(x) = ChunkOf(y), UnitOf(x) = UnitOf(y)
  PROVE  x = y
<1>1. /\ DivBy(x, subs) \in Coords(DivBy(grid, subs)) /\ ModBy(x, subs) \in Coords(subs)
      /\ DivBy(y, subs) \in Coords(DivBy(grid, subs)) /\ ModBy(y, subs) \in Coords(subs)
  BY Splits
<1>2. DivBy(x, subs) = DivBy(y, subs)
  BY <1>1, Shapes, RavelNumbers DEF ChunkOf
<1>3. ModBy(x, subs) = ModBy(y, subs)
  BY <1>1, Shapes, RavelNumbers DEF UnitOf
<1> QED
  BY <1>2, <1>3, GridAssumption, PartsApart

(* Two blocks of the array are listed at different places. *)
LEMMA EntriesApart ==
  ASSUME NEW a \in Whole, NEW b \in Whole,
         ArrayEntry(a).chunk = ArrayEntry(b).chunk, ArrayEntry(a).block = ArrayEntry(b).block
  PROVE  a = b
<1>1. ChunkOf(a[1]) = ChunkOf(b[1]) /\ UnitOf(a[1]) = UnitOf(b[1]) /\ a[2] = b[2]
  BY EntryFacts
<1>2. a[1] \in Coords(grid) /\ b[1] \in Coords(grid) /\ a = <<a[1], a[2]>> /\ b = <<b[1], b[2]>>
  BY DEF Whole
<1>3. a[1] = b[1]
  BY <1>1, <1>2, UnitsApart
<1> QED
  BY <1>1, <1>2, <1>3

(* What the decoder finds where a block is listed is that block. *)
BlockAt(b) == arr.units[Ravel(b[1], grid)][b[2]][layer]

(* A listed block is decoded at its own place of the array. *)
LEMMA DecodedInPlace ==
  ASSUME NEW b \in Whole
  PROVE  Decoded(ArrayEntry(b)) = BlockAt(b).hits
<1> DEFINE e == ArrayEntry(b)
           x == UnitAt(e.chunk, e.block)
<1>1. /\ e.chunk = ChunkOf(b[1]) /\ e.block \div BlocksPerUnit = UnitOf(b[1])
      /\ e.block % BlocksPerUnit = b[2] /\ b[1] \in Coords(grid)
  BY EntryFacts DEF Whole
<1> HIDE DEF e
<1>2. x = CHOOSE y \in Coords(grid) : ChunkOf(y) = e.chunk /\ UnitOf(y) = e.block \div BlocksPerUnit
  BY DEF UnitAt, ChunkOf, UnitOf
<1>3. /\ x \in Coords(grid)
      /\ ChunkOf(x) = e.chunk /\ UnitOf(x) = e.block \div BlocksPerUnit
  BY <1>1, <1>2, Zenon
<1>4. x = b[1]
  BY <1>1, <1>3, UnitsApart
<1> HIDE DEF x
<1>5. Decoded(e) = arr.units[Ravel(x, grid)][e.block % BlocksPerUnit][layer].hits
  BY DEF Decoded, x
<1> QED
  BY <1>1, <1>4, <1>5 DEF BlockAt, e

-----------------------------------------------------------------------------
(* The shares *)

(* The blocks of the array are finitely many, and each has a type. *)
LEMMA WholeFinite ==
  IsFiniteSet(Whole)
<1>1. IsFiniteSet(Coords(grid))
  BY Shapes, CoordsFinite
<1>2. IsFiniteSet(UnitBlocks)
  <2>1. BlocksPerUnit - 1 \in Int
    BY Shapes
  <2> QED
    BY <2>1, FS_Interval DEF UnitBlocks
<1> QED
  BY <1>1, <1>2, FS_Product DEF Whole

(* What a block of an array is. *)
LEMMA BlockTypes ==
  ASSUME arr \in Arrays, layer \in 1 .. arr.layers, NEW b \in Whole
  PROVE  /\ BlockAt(b) \in Kinds /\ BlockAt(b).class \in {In, Out, Maybe}
         /\ BlockAt(b).hits \in 0 .. ValuesPerBlock
         /\ BlockAt(b).class = Out => BlockAt(b).hits = 0
         /\ BlockAt(b).class = In => BlockAt(b).hits = ValuesPerBlock
<1>1. Ravel(b[1], grid) \in Units
  BY Shapes, RavelNumbers DEF Whole, Units
<1>2. arr.units \in [Units -> [UnitBlocks -> [1 .. arr.layers -> Kinds]]]
  BY ArraysAssumption
<1>3. b[2] \in UnitBlocks
  BY DEF Whole
<1>4. BlockAt(b) \in Kinds
  <2> DEFINE F == [1 .. arr.layers -> Kinds]
             n == Ravel(b[1], grid)
             L == 1 .. arr.layers
  <2>1. arr.units \in [Units -> [UnitBlocks -> F]] /\ n \in Units /\ F = [L -> Kinds] /\ layer \in L
    BY <1>1, <1>2
  <2> HIDE DEF F, n, L
  <2>2. arr.units[n] \in [UnitBlocks -> F]
    BY <2>1
  <2>3. arr.units[n][b[2]] \in [L -> Kinds]
    BY <1>3, <2>1, <2>2
  <2>4. arr.units[n][b[2]][layer] \in Kinds
    BY <2>1, <2>3
  <2> QED
    BY <2>4 DEF BlockAt, n
<1>5. ValuesPerBlock \in Nat
  BY GridAssumption
<1> DEFINE k == BlockAt(b)
<1>6. \/ k \in [class : {Out}, hits : {0}]
      \/ k \in [class : {In}, hits : {ValuesPerBlock}]
      \/ k \in [class : {Maybe}, hits : 0 .. ValuesPerBlock]
  BY <1>4 DEF Kinds
<1> HIDE DEF k
<1>7. /\ k.class \in {In, Out, Maybe}
      /\ k.hits \in 0 .. ValuesPerBlock
      /\ k.class = Out => k.hits = 0
      /\ k.class = In => k.hits = ValuesPerBlock
  BY <1>5, <1>6 DEF Out, In, Maybe
<1> QED
  BY <1>4, <1>7 DEF k

(* The listed blocks of the array, and of a share. *)
ListedOf(t) == {b \in ShareOf(t) : BlockAt(b).class \in Listed}

(* A share's entries are its listed blocks, one each, and a list in order. *)
LEMMA SharePlaced ==
  ASSUME NEW t
  PROVE  /\ [b \in ListedOf(t) |-> ArrayEntry(b)] \in Bijection(ListedOf(t), ShareEntries(t))
         /\ IsFiniteSet(ListedOf(t)) /\ IsFiniteSet(ShareOf(t))
         /\ Placed(ShareEntries(t))
         /\ Cardinality(ShareEntries(t)) = Cardinality(ListedOf(t))
<1> DEFINE S == ListedOf(t)
           T == ShareEntries(t)
           f == [b \in S |-> ArrayEntry(b)]
<1>1. ShareOf(t) \subseteq Whole /\ S \subseteq Whole
  BY DEF ShareOf, Whole, ListedOf
<1>2. IsFiniteSet(S) /\ IsFiniteSet(ShareOf(t))
  <2>1. ShareOf(t) \in SUBSET Whole /\ S \in SUBSET Whole
    BY <1>1
  <2> QED
    BY <2>1, WholeFinite, FS_Subset
<1>3. \A b : ArrayEntry(b).state = BlockAt(b).class
  BY DEF ArrayEntry, BlockAt
<1>4. T = {ArrayEntry(b) : b \in S}
  BY <1>3 DEF ShareEntries, ListedOf
<1>5. \A a, b \in S : ArrayEntry(a).chunk = ArrayEntry(b).chunk
                      /\ ArrayEntry(a).block = ArrayEntry(b).block => a = b
  BY <1>1, EntriesApart
<1>6. \A b \in S : ArrayEntry(b).chunk \in Int /\ ArrayEntry(b).block \in Int
  BY <1>1, EntryFacts
<1> HIDE DEF S, T
<1>7. f \in Bijection(S, T)
  <2>1. f \in [S -> T]
    BY <1>4
  <2>2. \A a, b \in S : f[a] = f[b] => a = b
    BY <1>5
  <2>3. \A e \in T : \E b \in S : f[b] = e
    BY <1>4
  <2> QED
    BY <2>1, <2>2, <2>3 DEF Bijection, Injection, Surjection, IsInjective
<1>8. IsFiniteSet(T) /\ Cardinality(T) = Cardinality(S)
  <2>1. ExistsBijection(S, T)
    BY <1>7 DEF ExistsBijection
  <2> QED
    BY <1>2, <2>1, FS_Bijection
<1>9. Placed(T)
  BY <1>4, <1>5, <1>6, <1>8 DEF Placed
<1> QED
  BY <1>2, <1>7, <1>8, <1>9 DEF S, T

(* The task that a block of the array is planned by. *)
TaskOf(b) == IF Pipelined THEN b[1][1] \div tChunk ELSE 0

(* The tasks share out the array: every block is in one share. *)
LEMMA SharesSplit ==
  ASSUME arr \in Arrays
  PROVE  /\ IsFiniteSet(Tasks)
         /\ \A b \in Whole : TaskOf(b) \in Tasks
         /\ \A t \in Tasks : ShareOf(t) = {b \in Whole : TaskOf(b) = t}
<1>1. /\ tChunk \in Nat \ {0} /\ grid[1] \in Nat \ {0}
  <2>1. arr.tChunk \in (Nat \ {0}) \cup {None}
    BY ArraysAssumption
  <2> QED
    BY <2>1, Sides DEF tChunk, ByKey
<1>2. CASE ~Pipelined
  <2>1. Tasks = {0} /\ \A b : TaskOf(b) = 0
    BY <1>2 DEF Tasks, TaskOf
  <2>2. \A t : ShareOf(t) = Whole
    BY <1>2 DEF ShareOf, Whole
  <2> QED
    BY <2>1, <2>2, FS_Singleton
<1>3. CASE Pipelined
  <2> DEFINE n == grid[1]
             c == tChunk
             m == n + c - 1
             q == m \div c
  <2>1. n \in Nat \ {0} /\ c \in Nat \ {0} /\ m \in Nat /\ m = n + c - 1
    BY <1>1
  <2>2. nObjects = q /\ Tasks = 0 .. q - 1
    BY <1>3 DEF nObjects, Tasks, Objects
  <2>3. \A b : TaskOf(b) = b[1][1] \div c
    BY <1>3 DEF TaskOf
  <2>4. \A t : ShareOf(t) = {b \in Whole : b[1][1] \div c = t}
    BY <1>3 DEF ShareOf, Whole
  <2>5. \A b \in Whole : b[1][1] \in 0 .. n - 1
    BY DEF Whole, Coords
  <2> HIDE DEF n, c, m
  <2>6. q \in Nat /\ m % c \in 0 .. c - 1 /\ m = q * c + (m % c)
    BY <2>1, DivisionOf
  <2> HIDE DEF q
  <2>7. ASSUME NEW b \in Whole PROVE b[1][1] \div c \in 0 .. q - 1
    <3> DEFINE x == b[1][1]
               d == x \div c
    <3>1. x \in Nat /\ x < n
      BY <2>1, <2>5
    <3> HIDE DEF x
    <3>2. d \in Nat /\ x % c \in 0 .. c - 1 /\ x = d * c + (x % c)
      BY <2>1, <3>1, DivisionOf
    <3> HIDE DEF d
    <3>3. d < q
      <4>1. SUFFICES ASSUME q <= d PROVE FALSE
        BY <2>6, <3>2
      <4>2. q * c <= d * c
        BY <2>1, <2>6, <3>2, <4>1, ProductGrows
      <4>3. n <= q * c
        <5> DEFINE k == q * c
        <5>1. k \in Nat
          BY <2>1, <2>6
        <5> HIDE DEF k
        <5>2. n <= k
          BY <2>1, <2>6, <5>1 DEF k
        <5> QED
          BY <5>2 DEF k
      <4> DEFINE k == q * c
                 l == d * c
      <4>4. k \in Nat /\ l \in Nat /\ k <= l /\ n <= k /\ x = l + (x % c)
        BY <2>1, <2>6, <3>2, <4>2, <4>3
      <4> HIDE DEF k, l
      <4> QED
        BY <2>1, <3>1, <3>2, <4>4
    <3>4. d \in 0 .. q - 1
      BY <2>6, <3>2, <3>3
    <3> QED
      BY <3>4 DEF d, x
  <2>8. IsFiniteSet(0 .. q - 1)
    BY <2>6, FS_Interval
  <2> QED
    BY <2>2, <2>3, <2>4, <2>7, <2>8
<1> QED
  BY <1>2, <1>3

(* The blocks that a task plans are its share's, and of the same classes. *)
LEMMA TaskClasses ==
  ASSUME arr \in Arrays, NEW t \in Tasks, NEW c
  PROVE  Cardinality({e \in TaskBlocks(t) : TaskEntry(t, e).state = c})
           = Cardinality({b \in ShareOf(t) : BlockAt(b).class = c})
<1> DEFINE S == {e \in TaskBlocks(t) : TaskEntry(t, e).state = c}
           T == {b \in ShareOf(t) : BlockAt(b).class = c}
           f == [e \in S |-> Shifted(t, e)]
<1>1. \A b : ArrayEntry(b).state = BlockAt(b).class
  BY DEF ArrayEntry, BlockAt
<1>2. \A e \in TaskBlocks(t) : /\ Shifted(t, e) \in ShareOf(t)
                               /\ TaskEntry(t, e).state = BlockAt(Shifted(t, e)).class
  BY <1>1, EntryInPlace
<1>3. \A d, e \in TaskBlocks(t) : Shifted(t, d) = Shifted(t, e) => d = e
  <2> DEFINE s == Shift(t)
  <2>1. s \in Int
    BY ShiftFacts
  <2>2. \A e \in TaskBlocks(t) : e[1][1] \in Int /\ e = <<<<e[1][1], e[1][2], e[1][3]>>, e[2]>>
    BY DEF TaskBlocks, Coords, TaskGrid
  <2>3. \A e : Shifted(t, e) = <<<<e[1][1] + s, e[1][2], e[1][3]>>, e[2]>>
    BY DEF Shifted
  <2> HIDE DEF s
  <2>4. ASSUME NEW d \in TaskBlocks(t), NEW e \in TaskBlocks(t), Shifted(t, d) = Shifted(t, e)
        PROVE  d = e
    <3> DEFINE a == d[1][1]
               b == e[1][1]
    <3>1. <<<<a + s, d[1][2], d[1][3]>>, d[2]>> = <<<<b + s, e[1][2], e[1][3]>>, e[2]>>
      BY <2>3, <2>4
    <3> HIDE DEF a, b
    <3>4. a + s = b + s /\ d[1][2] = e[1][2] /\ d[1][3] = e[1][3] /\ d[2] = e[2]
      BY <3>1
    <3>5. a \in Int /\ b \in Int
      BY <2>2 DEF a, b
    <3>2. a = b
      BY <2>1, <3>4, <3>5
    <3>3. /\ d = <<<<d[1][1], d[1][2], d[1][3]>>, d[2]>>
          /\ e = <<<<e[1][1], e[1][2], e[1][3]>>, e[2]>>
      BY <2>2
    <3> QED
      BY <3>2, <3>3, <3>4 DEF a, b
  <2> QED
    BY <2>4
<1>4. \A b \in ShareOf(t) : \E e \in TaskBlocks(t) : Shifted(t, e) = b
  BY ShareCovered
<1>5. f \in Bijection(S, T)
  <2>1. f \in [S -> T]
    BY <1>2
  <2>2. \A d, e \in S : f[d] = f[e] => d = e
    BY <1>3
  <2>3. \A b \in T : \E e \in S : f[e] = b
    BY <1>2, <1>4
  <2> HIDE DEF S, T, f
  <2> QED
    BY <2>1, <2>2, <2>3 DEF Bijection, Injection, Surjection, IsInjective
<1>6. IsFiniteSet(T)
  <2>1. T \in SUBSET ShareOf(t) /\ IsFiniteSet(ShareOf(t))
    BY SharePlaced
  <2> QED
    BY <2>1, FS_Subset
<1> HIDE DEF S, T, f
<1>7. f \in Injection(S, T)
  BY <1>5 DEF Bijection
<1>8. IsFiniteSet(S)
  BY <1>6, <1>7, FS_Injection
<1>9. Cardinality(T) = Cardinality(S)
  BY <1>5, <1>8, AsMany
<1> QED
  BY <1>9 DEF S, T

(* The blocks of the array, by coordinates and by number. *)
LEMMA BlocksMatched ==
  /\ [b \in Whole |-> <<Ravel(b[1], grid), b[2]>>] \in Bijection(Whole, AllBlocks)
  /\ \A b \in Whole : Block(<<Ravel(b[1], grid), b[2]>>) = BlockAt(b)
<1> DEFINE h == [b \in Whole |-> <<Ravel(b[1], grid), b[2]>>]
<1>1. /\ \A x \in Coords(grid) : Ravel(x, grid) \in Units
      /\ \A x, y \in Coords(grid) : Ravel(x, grid) = Ravel(y, grid) => x = y
      /\ \A n \in Units : \E x \in Coords(grid) : Ravel(x, grid) = n
  BY Shapes, RavelNumbers DEF Units
<1>2. h \in [Whole -> AllBlocks]
  BY <1>1 DEF Whole, AllBlocks
<1>3. ASSUME NEW a \in Whole, NEW b \in Whole, h[a] = h[b] PROVE a = b
  BY <1>1, <1>3 DEF Whole
<1>4. ASSUME NEW e \in AllBlocks PROVE \E b \in Whole : h[b] = e
  <2>1. e[1] \in Units /\ e[2] \in UnitBlocks /\ e = <<e[1], e[2]>>
    BY DEF AllBlocks
  <2>2. PICK x \in Coords(grid) : Ravel(x, grid) = e[1]
    BY <1>1, <2>1
  <2>3. <<x, e[2]>> \in Whole /\ h[<<x, e[2]>>] = e
    BY <2>1, <2>2 DEF Whole
  <2> QED
    BY <2>3
<1>5. \A b \in Whole : Block(<<Ravel(b[1], grid), b[2]>>) = BlockAt(b)
  BY DEF Block, BlockAt
<1> HIDE DEF h
<1>6. h \in Bijection(Whole, AllBlocks)
  BY <1>2, <1>3, <1>4 DEF Bijection, Injection, Surjection, IsInjective
<1> QED
  BY <1>5, <1>6 DEF h

(* Blocks of a class, by number. *)
LEMMA ClassMatched ==
  ASSUME NEW c
  PROVE  NumberOf(c) = Cardinality({b \in Whole : BlockAt(b).class = c})
<1> DEFINE h == [b \in Whole |-> <<Ravel(b[1], grid), b[2]>>]
           S == {b \in Whole : BlockAt(b).class = c}
           T == {e \in AllBlocks : Block(e).class = c}
           k == [b \in S |-> h[b]]
<1>1. h \in Bijection(Whole, AllBlocks) /\ \A b \in Whole : Block(h[b]) = BlockAt(b)
  BY BlocksMatched
<1> HIDE DEF h
<1>2. /\ \A b \in Whole : h[b] \in AllBlocks
      /\ \A a, b \in Whole : h[a] = h[b] => a = b
      /\ \A e \in AllBlocks : \E b \in Whole : h[b] = e
  BY <1>1 DEF Bijection, Injection, Surjection, IsInjective
<1>3. k \in Bijection(S, T)
  <2>1. k \in [S -> T]
    BY <1>1, <1>2
  <2>2. \A a, b \in S : k[a] = k[b] => a = b
    BY <1>2
  <2>3. \A e \in T : \E b \in S : k[b] = e
    BY <1>1, <1>2
  <2> HIDE DEF S, T, k
  <2> QED
    BY <2>1, <2>2, <2>3 DEF Bijection, Injection, Surjection, IsInjective
<1>4. IsFiniteSet(S)
  <2>1. S \in SUBSET Whole
    OBVIOUS
  <2> QED
    BY <2>1, WholeFinite, FS_Subset
<1>5. NumberOf(c) = Cardinality(T)
  BY DEF NumberOf
<1> HIDE DEF S, T, k
<1>6. Cardinality(T) = Cardinality(S)
  BY <1>3, <1>4, AsMany
<1> QED
  BY <1>5, <1>6 DEF S

-----------------------------------------------------------------------------
(* What a query has done so far *)

(* Every plan is the planner's. *)
TasksPlanned ==
  \A t \in DOMAIN plans :
    t \in Tasks /\ plans[t] = PlanOf(Records(t), nUnits(t), ChunkOffset(t))
(* Every read that is counted is one of a plan, with its blocks' matches. *)
ReadsRight ==
  \A c \in counted :
    \E t \in DOMAIN plans : c.read \in Reads(t) /\ c = [read |-> c.read, hits |-> HitsOf(c.read)]
(* What runs was checked. *)
Checked ==
  /\ opts \in Options
  /\ pc \in {"check", "run", "done"} => OptionsValid
  /\ pc \in {"run", "done"} => Accepted
(* A query answers when all is planned and read. *)
Answered ==
  pc = "done" =>
    /\ DOMAIN plans = Tasks
    /\ ReadsCounted = UNION {Reads(t) : t \in Tasks}
    /\ result = Result

QueryInv == Fixed /\ TasksPlanned /\ ReadsRight /\ Checked /\ Answered

(* A plan that stays has the same reads, which hold the same matches. *)
LEMMA ReadsStay ==
  ASSUME UNCHANGED <<arr, op, opts>>, NEW t, plans'[t] = plans[t]
  PROVE  Reads(t)' = Reads(t) /\ \A q \in Reads(t) : HitsOf(q)' = HitsOf(q)
<1> DEFINE list == plans[t].blocks
<1>1. \A q \in Reads(t) : q.task = t
  BY DEF Reads
<1>2. \A i : StartsRead(list, i)' = StartsRead(list, i)
  BY DEF StartsRead, StartsRun
<1>3. Merged(list)' = Merged(list)
  BY <1>2 DEF Merged, Runs, StartsRead
<1>4. Reads(t)' = Reads(t)
  BY <1>3 DEF Reads
<1>5. layer' = layer
  BY DEF layer
<1>6. ASSUME NEW q \in Reads(t) PROVE HitsOf(q)' = HitsOf(q)
  <2>1. plans'[q.task] = plans[q.task]
    BY <1>1, <1>6
  <2> QED
    BY <1>5, <2>1 DEF HitsOf, Decoded, UnitAt
<1> QED
  BY <1>4, <1>6

(* What a task plans does not change while the query runs. *)
LEMMA PlansStay ==
  ASSUME UNCHANGED <<arr, op, opts>>, NEW t
  PROVE  /\ PlanOf(Records(t), nUnits(t), ChunkOffset(t))'
              = PlanOf(Records(t), nUnits(t), ChunkOffset(t))
         /\ Tasks' = Tasks
<1>1. layer' = layer /\ tChunk' = tChunk
  BY DEF layer, tChunk, ByKey
<1>2. Pipelined' = Pipelined
  BY <1>1 DEF Pipelined
<1>3. Tasks' = Tasks
  BY <1>1, <1>2 DEF Tasks, Objects, nObjects
<1>4. \A i : Object(i)' = Object(i)
  BY <1>1 DEF Object, Padding
<1>5. nUnits(t)' = nUnits(t) /\ ChunkOffset(t)' = ChunkOffset(t)
  BY <1>1, <1>2 DEF nUnits, ChunkOffset
<1>6. WholeZoneMap' = WholeZoneMap
  BY <1>1, <1>4 DEF WholeZoneMap
<1>7. Records(t)' = Records(t)
  BY <1>2, <1>4, <1>5, <1>6 DEF Records
<1>8. Listed' = Listed /\ PlannedLayer' = PlannedLayer
  BY <1>1 DEF Listed, PlannedLayer
<1>9. PlanOf(Records(t), nUnits(t), ChunkOffset(t))' = PlanOf(Records(t), nUnits(t), ChunkOffset(t))
  BY <1>5, <1>7, <1>8 DEF PlanOf
<1> QED
  BY <1>3, <1>9

(* QueryInv holds in every state of a query. *)
LEMMA InvStart ==
  Init => QueryInv
  BY DEF Init, QueryInv, Fixed, TasksPlanned, ReadsRight, Checked, Answered

(* The answer of a query that does nothing more. *)
LEMMA ResultStays ==
  ASSUME UNCHANGED <<arr, op, opts, plans, counted>>
  PROVE  Result' = Result
<1>1. \A u : PlanOf(Records(u), nUnits(u), ChunkOffset(u))'
               = PlanOf(Records(u), nUnits(u), ChunkOffset(u))
             /\ Tasks' = Tasks
  BY PlansStay
<1>2. /\ InBlocks' = InBlocks /\ OutBlocks' = OutBlocks /\ ListedBlocks' = ListedBlocks
      /\ ReadBlocks' = ReadBlocks
  BY <1>1 DEF InBlocks, OutBlocks, ListedBlocks, ReadBlocks
<1>3. Hits' = Hits /\ ReadsCounted' = ReadsCounted
  BY DEF Hits, ReadsCounted
<1>4. \A r : Span(r)' = Span(r)
  BY DEF Span
<1>5. nObjects' = nObjects /\ ByKey' = ByKey /\ ZarrChunks' = ZarrChunks
  BY DEF nObjects, tChunk, ByKey, ZarrChunks
<1> QED
  BY <1>2, <1>3, <1>4, <1>5 DEF Result

(* A step that plans nothing, reads nothing and does not answer. *)
LEMMA InvIdle ==
  ASSUME QueryInv, UNCHANGED <<arr, op, opts, plans, counted>>, Fixed', Checked',
         pc' # "done" \/ UNCHANGED <<pc, result>>
  PROVE  QueryInv'
<1>1. \A t : PlanOf(Records(t), nUnits(t), ChunkOffset(t))'
               = PlanOf(Records(t), nUnits(t), ChunkOffset(t))
             /\ Tasks' = Tasks
  BY PlansStay
<1>2. \A t \in DOMAIN plans : Reads(t)' = Reads(t) /\ \A q \in Reads(t) : HitsOf(q)' = HitsOf(q)
  BY ReadsStay
<1>3. TasksPlanned'
  BY <1>1 DEF QueryInv, TasksPlanned
<1>4. ReadsRight'
  BY <1>2 DEF QueryInv, ReadsRight
<1>5. Answered'
  <2>1. CASE pc' # "done"
    BY <2>1 DEF Answered
  <2>2. CASE UNCHANGED <<pc, result>>
    <3>1. Result' = Result /\ ReadsCounted' = ReadsCounted
      BY ResultStays DEF ReadsCounted
    <3>2. pc = "done" => (UNION {Reads(t) : t \in Tasks})' = UNION {Reads(t) : t \in Tasks}
      BY <1>1, <1>2 DEF QueryInv, Answered
    <3> QED
      BY <1>1, <2>2, <3>1, <3>2 DEF QueryInv, Answered
  <2> QED
    BY <2>1, <2>2
<1> QED
  BY <1>3, <1>4, <1>5 DEF QueryInv

(* A task is planned. *)
LEMMA InvPlan ==
  ASSUME QueryInv, Fixed', Checked', NEW t \in Tasks, Plan(t), WholeChunks(t)
  PROVE  QueryInv'
<1>1. /\ UNCHANGED <<arr, op, opts, pc, counted>> /\ pc = "run" /\ t \notin DOMAIN plans
      /\ plans' = [u \in DOMAIN plans \cup {t} |->
                     IF u = t THEN PlanOf(Records(t), nUnits(t), ChunkOffset(t)) ELSE plans[u]]
  BY DEF Plan
<1>2. \A u : PlanOf(Records(u), nUnits(u), ChunkOffset(u))'
               = PlanOf(Records(u), nUnits(u), ChunkOffset(u))
             /\ Tasks' = Tasks
  BY <1>1, PlansStay
<1>3. /\ DOMAIN plans' = DOMAIN plans \cup {t}
      /\ plans'[t] = PlanOf(Records(t), nUnits(t), ChunkOffset(t))
      /\ \A u \in DOMAIN plans : plans'[u] = plans[u]
  BY <1>1
<1>4. TasksPlanned'
  BY <1>2, <1>3 DEF QueryInv, TasksPlanned
<1>5. \A u \in DOMAIN plans : Reads(u)' = Reads(u) /\ \A q \in Reads(u) : HitsOf(q)' = HitsOf(q)
  BY <1>1, <1>3, ReadsStay
<1>6. ReadsRight'
  BY <1>1, <1>3, <1>5 DEF QueryInv, ReadsRight
<1>7. Answered'
  BY <1>1 DEF Answered
<1> QED
  BY <1>4, <1>6, <1>7 DEF QueryInv

(* Reads are counted. *)
LEMMA InvCount ==
  ASSUME QueryInv, Fixed', Checked', NEW t \in DOMAIN plans, NEW r \in Reads(t), Count(r)
  PROVE  QueryInv'
<1>1. /\ UNCHANGED <<arr, op, opts, pc, plans>> /\ pc = "run"
      /\ counted' = counted \cup
           {[read |-> q, hits |-> HitsOf(q)] : q \in IF layer = 1 THEN {r} ELSE Reads(r.task)}
  BY DEF Count
<1>2. \A u : PlanOf(Records(u), nUnits(u), ChunkOffset(u))'
               = PlanOf(Records(u), nUnits(u), ChunkOffset(u))
             /\ Tasks' = Tasks
  BY <1>1, PlansStay
<1>3. TasksPlanned'
  BY <1>1, <1>2 DEF QueryInv, TasksPlanned
<1>4. \A u \in DOMAIN plans : Reads(u)' = Reads(u) /\ \A q \in Reads(u) : HitsOf(q)' = HitsOf(q)
  BY <1>1, ReadsStay
<1>5. \A q \in IF layer = 1 THEN {r} ELSE Reads(r.task) : q \in Reads(t)
  BY DEF Reads
<1>6. ASSUME NEW c \in counted'
      PROVE  \E u \in DOMAIN plans :
                /\ c.read \in Reads(u)
                /\ c = [read |-> c.read, hits |-> HitsOf(c.read)]
  <2>1. CASE c \in counted
    BY <2>1 DEF QueryInv, ReadsRight
  <2>2. CASE c \notin counted
    <3>1. PICK q \in IF layer = 1 THEN {r} ELSE Reads(r.task) : c = [read |-> q, hits |-> HitsOf(q)]
      BY <1>1, <2>2
    <3>2. q \in Reads(t)
      BY <1>5
    <3> QED
      BY <3>1, <3>2
  <2> QED
    BY <2>1, <2>2
<1>7. ReadsRight'
  BY <1>1, <1>4, <1>6 DEF ReadsRight
<1>8. Answered'
  BY <1>1 DEF Answered
<1> QED
  BY <1>3, <1>7, <1>8 DEF QueryInv

(* The query answers. *)
LEMMA InvFinish ==
  ASSUME QueryInv, Fixed', Checked', Finish
  PROVE  QueryInv'
<1>1. /\ UNCHANGED <<arr, op, opts, plans, counted>> /\ DOMAIN plans = Tasks
      /\ ReadsCounted = UNION {Reads(t) : t \in Tasks} /\ result' = Result
  BY DEF Finish
<1>2. \A u : PlanOf(Records(u), nUnits(u), ChunkOffset(u))'
               = PlanOf(Records(u), nUnits(u), ChunkOffset(u))
             /\ Tasks' = Tasks
  BY <1>1, PlansStay
<1>3. \A u \in DOMAIN plans : Reads(u)' = Reads(u) /\ \A q \in Reads(u) : HitsOf(q)' = HitsOf(q)
  BY <1>1, ReadsStay
<1>4. TasksPlanned'
  BY <1>1, <1>2 DEF QueryInv, TasksPlanned
<1>5. ReadsRight'
  BY <1>1, <1>3 DEF QueryInv, ReadsRight
<1>6. Result' = Result
  BY <1>1, ResultStays
<1>7. Answered'
  <2>1. ReadsCounted' = ReadsCounted
    BY <1>1 DEF ReadsCounted
  <2>2. (UNION {Reads(t) : t \in Tasks})' = UNION {Reads(t) : t \in Tasks}
    BY <1>1, <1>2, <1>3
  <2> QED
    BY <1>1, <1>2, <1>6, <2>1, <2>2 DEF Answered
<1> QED
  BY <1>4, <1>5, <1>7 DEF QueryInv

(* Nothing that a query checked changes. *)
LEMMA ChecksStay ==
  ASSUME Checked, [Next]_vars
  PROVE  Checked'
<1>1. UNCHANGED <<arr, op, opts>>
  BY AskedOnce DEF vars
<1>2. OptionsValid' = OptionsValid /\ Accepted' = Accepted
  BY <1>1 DEF OptionsValid, Accepted, LayerValid, layer
<1>3. CASE MakeOptions \/ BadOptions \/ Refuse \/ Start \/ Finish \/ UNCHANGED vars
  BY <1>1, <1>2, <1>3 DEF Checked, MakeOptions, BadOptions, Refuse, Start, Finish, Raise, vars
<1>4. CASE (\E i \in Objects : Arrive(i) \/ FailObject(i)) \/ (\E t \in Tasks : Plan(t))
  BY <1>1, <1>2, <1>4 DEF Checked, Arrive, FailObject, Plan, Raise
<1>5. CASE \E t \in DOMAIN plans : \E r \in Reads(t) : Count(r) \/ FailRead(r)
  BY <1>1, <1>2, <1>5 DEF Checked, Count, FailRead, Raise
<1> QED
  BY <1>3, <1>4, <1>5 DEF Next

(* What QueryInv says of plans, reads, checks and the result always holds. *)
THEOREM QueryInvariant == Spec => []QueryInv
<1>1. QueryInv /\ Fixed' /\ [Next]_vars => QueryInv'
  <2> SUFFICES ASSUME QueryInv, Fixed', [Next]_vars PROVE QueryInv'
    OBVIOUS
  <2>1. Checked'
    BY ChecksStay DEF QueryInv
  <2>2. UNCHANGED <<arr, op, opts>>
    BY AskedOnce DEF vars
  <2>3. CASE MakeOptions \/ BadOptions \/ Refuse \/ Start
    <3>1. UNCHANGED <<plans, counted>> /\ pc' # "done"
      BY <2>3 DEF MakeOptions, BadOptions, Refuse, Start, Raise
    <3> QED
      BY <2>1, <2>2, <3>1, InvIdle
  <2>4. ASSUME NEW i \in Objects, Arrive(i) \/ FailObject(i) PROVE QueryInv'
    <3>1. UNCHANGED <<plans, counted>> /\ pc' # "done"
      BY <2>4 DEF Arrive, FailObject, Raise
    <3> QED
      BY <2>1, <2>2, <3>1, InvIdle
  <2>5. ASSUME NEW t \in Tasks, Plan(t) PROVE QueryInv'
    <3>1. WholeChunks(t)
      BY TaskSteps DEF QueryInv, Fixed, WholeChunks
    <3> QED
      BY <2>1, <2>5, <3>1, InvPlan
  <2>6. ASSUME NEW t \in DOMAIN plans, NEW r \in Reads(t), Count(r) PROVE QueryInv'
    BY <2>1, <2>6, InvCount
  <2>7. ASSUME NEW t \in DOMAIN plans, NEW r \in Reads(t), FailRead(r) PROVE QueryInv'
    <3>1. UNCHANGED <<plans, counted>> /\ pc' # "done"
      BY <2>7 DEF FailRead, Raise
    <3> QED
      BY <2>1, <2>2, <3>1, InvIdle
  <2>8. CASE Finish
    BY <2>1, <2>8, InvFinish
  <2>9. CASE UNCHANGED vars
    <3>1. UNCHANGED <<arr, op, opts, pc, cause, arrived, plans, counted, result>>
      BY <2>9 DEF vars
    <3> QED
      BY <2>1, <2>2, <3>1, InvIdle
  <2> QED
    BY <2>3, <2>4, <2>5, <2>6, <2>7, <2>8, <2>9 DEF Next
<1> QED
  BY <1>1, InvStart, FixedInvariant, PTL DEF Spec

-----------------------------------------------------------------------------
(* What the reads of a list hold *)

(* Whatever is added up over a list's entries, it is the same read by read. *)
LEMMA ReadsHoldList ==
  ASSUME NEW S, Placed(S), opts.merge_gap_blocks \in Nat,
         NEW D, Integers(D, S),
         NEW F, \A r \in Merged(InOrder(S)) :
                  F[r] = SumOf([k \in r.from .. r.to |-> D[InOrder(S)[k]]], r.from .. r.to)
  PROVE  /\ IsFiniteSet(Merged(InOrder(S)))
         /\ SumOf(F, Merged(InOrder(S))) = SumOf(D, S)
<1> DEFINE list == InOrder(S)
           n == Cardinality(S)
           N == 1 .. n
           M == Merged(list)
           w == [k \in N |-> D[list[k]]]
           group == [k \in N |-> CHOOSE r \in M : k \in r.from .. r.to]
<1>1. n \in Nat /\ DOMAIN list = N /\ Len(list) = n /\ list \in [N -> S]
  BY Ranks, ListInOrder, ListAscends
<1>2. IsFiniteSet(S) /\ IsFiniteSet(N)
  BY <1>1, FS_Interval DEF Placed
<1>3. IsFiniteSet(M)
  <2> DEFINE A == Firsts(S)
             f == [r \in M |-> list[r.from]]
  <2>1. IsFiniteSet(A)
    <3>1. A \in SUBSET S
      BY DEF Firsts
    <3> HIDE DEF A
    <3> QED
      BY <1>2, <3>1, FS_Subset
  <2>2. f \in Injection(M, A)
    BY ReadsByEnds DEF Bijection
  <2> HIDE DEF M, A, f
  <2> QED
    BY <2>1, <2>2, FS_Injection
<1>4. list \in Bijection(N, S)
  <2>1. /\ \A k \in N : PlaceIn(S, list[k]) = k - 1
        /\ \A e \in S : PlaceIn(S, e) + 1 \in N /\ list[PlaceIn(S, e) + 1] = e
    BY ListInOrder
  <2> HIDE DEF list
  <2>2. ASSUME NEW k \in N, NEW l \in N, list[k] = list[l] PROVE k = l
    <3>1. k - 1 = l - 1
      BY <2>1, <2>2
    <3> QED
      BY <3>1
  <2>3. \A e \in S : \E k \in N : list[k] = e
    BY <2>1
  <2> HIDE DEF N
  <2> QED
    BY <1>1, <2>2, <2>3 DEF Bijection, Injection, Surjection, IsInjective
<1>5. \A k \in N : /\ \E r \in M : k \in r.from .. r.to
                   /\ \A q, r \in M : k \in q.from .. q.to /\ k \in r.from .. r.to => q = r
  <2> HIDE DEF list, n
  <2> QED
    BY <1>1, OneReadEach
<1>6. \A r \in M : r.from .. r.to \subseteq N
  <2>1. \A r \in M : r.from \in N /\ r.to \in N
    BY <1>1 DEF Merged, Runs, StartsRead
  <2> QED
    BY <1>1, <2>1
<1>7. SumOf(w, N) = SumOf(D, S)
  <2>1. \A k \in N : w[k] = D[list[k]]
    OBVIOUS
  <2> HIDE DEF w, N, list
  <2> QED
    BY <1>2, <1>4, <2>1, SumMatched
<1>8. Integers(w, N)
  BY <1>1 DEF Integers
<1>9. group \in [N -> M] /\ \A r \in M : {k \in N : group[k] = r} = r.from .. r.to
  <2> HIDE DEF N, M
  <2>1. \A k \in N : group[k] \in M /\ k \in group[k].from .. group[k].to
    BY <1>5
  <2>2. group \in [N -> M]
    BY <2>1
  <2> HIDE DEF group
  <2>3. \A r \in M : \A k \in N : group[k] = r <=> k \in r.from .. r.to
    BY <1>5, <2>1
  <2>4. \A r \in M : {k \in N : group[k] = r} = r.from .. r.to
    BY <1>6, <2>3
  <2> QED
    BY <2>2, <2>4
<1>10. ASSUME NEW r \in M PROVE F[r] = SumOf(w, r.from .. r.to)
  <2> DEFINE I == r.from .. r.to
             v == [k \in I |-> D[list[k]]]
  <2>1. F[r] = SumOf(v, I)
    OBVIOUS
  <2>2. I \subseteq N /\ I \in SUBSET N
    BY <1>6
  <2>3. IsFiniteSet(I)
    BY <1>2, <2>2, FS_Subset
  <2>4. \A k \in I : v[k] = w[k]
    BY <2>2
  <2>5. Integers(w, I)
    BY <1>8, <2>2 DEF Integers
  <2> HIDE DEF v, w, I
  <2>6. SumOf(v, I) = SumOf(w, I)
    BY <2>3, <2>4, <2>5, SumSame
  <2> QED
    BY <2>1, <2>6 DEF I
<1>11. \A r \in M : F[r] = SumOf(w, {k \in N : group[k] = r})
  BY <1>9, <1>10
<1> HIDE DEF w, N, M, group
<1>12. SumOf(F, M) = SumOf(w, N)
  <2>1. IsFiniteSet(N) /\ IsFiniteSet(M) /\ group \in [N -> M] /\ Integers(w, N)
    BY <1>2, <1>3, <1>8, <1>9
  <2>2. \A r \in M : F[r] = SumOf(w, Group(group, N, r))
    BY <1>11 DEF Group
  <2> HIDE DEF list, n
  <2> QED
    BY <2>1, <2>2, SumByGroups
<1> QED
  BY <1>3, <1>7, <1>12 DEF M, list

-----------------------------------------------------------------------------
(* What a finished query counted *)

hitsAt == [b \in Whole |-> BlockAt(b).hits]

(* What holds of a query that is done. *)
LEMMA DoneFacts ==
  ASSUME QueryInv, pc = "done"
  PROVE  /\ arr \in Arrays /\ layer \in 1 .. arr.layers /\ opts.merge_gap_blocks \in Nat
         /\ DOMAIN plans = Tasks /\ result = Result
         /\ ReadsCounted = UNION {Reads(t) : t \in Tasks}
         /\ op # "count" => layer = 1
<1>1. OptionsValid /\ Accepted /\ opts \in Options /\ arr \in Arrays
  BY DEF QueryInv, Fixed, Checked
<1>2. opts.merge_gap_blocks \in Nat
  BY <1>1, OptionsAssumption DEF OptionsValid
<1>3. arr.layers \in Nat \ {0}
  BY <1>1, ArraysAssumption
<1>4. layer \in 1 .. arr.layers /\ (op # "count" => layer = 1)
  BY <1>1, <1>3 DEF Accepted, LayerValid, layer
<1> QED
  BY <1>1, <1>2, <1>4 DEF QueryInv, Answered

(* A task's plan: the entries of its share in order, and its classes. *)
LEMMA TaskPlan ==
  ASSUME arr \in Arrays, TasksPlanned, NEW t \in DOMAIN plans
  PROVE  /\ t \in Tasks /\ plans[t].blocks = InOrder(ShareEntries(t))
         /\ plans[t].ins = Cardinality({b \in ShareOf(t) : BlockAt(b).class = In})
         /\ plans[t].outs = Cardinality({b \in ShareOf(t) : BlockAt(b).class = Out})
<1>1. t \in Tasks /\ plans[t] = PlanOf(Records(t), nUnits(t), ChunkOffset(t))
  BY DEF TasksPlanned
<1>2. plans[t].blocks = InOrder(ShareEntries(t))
  BY <1>1, PlanOfTask, TaskEntriesAreShare
<1> DEFINE p == PlanOf(Records(t), nUnits(t), ChunkOffset(t))
<1>3. /\ p.ins = Cardinality({e \in TaskBlocks(t) : TaskEntry(t, e).state = In})
      /\ p.outs = Cardinality({e \in TaskBlocks(t) : TaskEntry(t, e).state = Out})
  BY DEF PlanOf, TaskGrid, TaskBlocks, TaskEntry
<1> QED
  BY <1>1, <1>2, <1>3, TaskClasses

(* The reads of a task hold the matches of its listed blocks. *)
LEMMA ReadsOfTask ==
  ASSUME arr \in Arrays, layer \in 1 .. arr.layers, opts.merge_gap_blocks \in Nat,
         TasksPlanned, NEW t \in DOMAIN plans,
         NEW H, \A q \in Reads(t) : H[q] = HitsOf(q)
  PROVE  /\ IsFiniteSet(Reads(t)) /\ Integers(H, Reads(t))
         /\ SumOf(H, Reads(t)) = SumOf(hitsAt, ListedOf(t))
<1> DEFINE S == ShareEntries(t)
           L == ListedOf(t)
           list == InOrder(S)
           M == Merged(list)
           D == [e \in S |-> Decoded(e)]
           h == [r \in M |-> [task |-> t, from |-> r.from, to |-> r.to]]
           F == [r \in M |-> H[h[r]]]
           R == Reads(t)
           k == [b \in L |-> ArrayEntry(b)]
<1>1. plans[t].blocks = list
  BY TaskPlan
<1>2. k \in Bijection(L, S) /\ IsFiniteSet(L) /\ Placed(S) /\ L \subseteq Whole
  BY SharePlaced DEF ListedOf, ShareOf, Whole
<1>3. \A b \in L : BlockAt(b).hits \in Int
  <2>1. \A b \in L : BlockAt(b).hits \in 0 .. ValuesPerBlock
    BY <1>2, BlockTypes
  <2> QED
    BY <2>1
<1>4. Integers(D, S)
  <2>1. \A e \in S : \E b \in L : k[b] = e
    BY <1>2 DEF Bijection, Surjection
  <2>2. \A b \in L : Decoded(ArrayEntry(b)) = BlockAt(b).hits
    BY <1>2, DecodedInPlace
  <2> HIDE DEF S, L
  <2> QED
    BY <1>3, <2>1, <2>2 DEF Integers
<1>5. SumOf(hitsAt, L) = SumOf(D, S)
  <2>1. \A b \in L : hitsAt[b] = D[k[b]]
    <3> SUFFICES ASSUME NEW b \in L PROVE hitsAt[b] = D[k[b]]
      OBVIOUS
    <3>1. k[b] \in S /\ k[b] = ArrayEntry(b) /\ b \in Whole
      BY <1>2 DEF Bijection, Injection
    <3>2. Decoded(ArrayEntry(b)) = BlockAt(b).hits
      BY <3>1, DecodedInPlace
    <3> HIDE DEF S, L, k
    <3> QED
      BY <3>1, <3>2 DEF hitsAt
  <2> HIDE DEF S, L, D, k
  <2> QED
    BY <1>2, <1>4, <2>1, SumMatched
<1>6. h \in Bijection(M, R)
  <2>1. R = {[task |-> t, from |-> r.from, to |-> r.to] : r \in M}
    BY <1>1 DEF Reads
  <2>2. \A r \in M : r = [from |-> r.from, to |-> r.to]
    BY DEF Merged, Runs, StartsRead
  <2> HIDE DEF M, R
  <2>3. h \in [M -> R]
    BY <2>1
  <2>4. ASSUME NEW q \in M, NEW r \in M, h[q] = h[r] PROVE q = r
    <3>1. h[q].from = h[r].from /\ h[q].to = h[r].to
      BY <2>4
    <3>2. q.from = r.from /\ q.to = r.to
      BY <3>1
    <3> QED
      BY <2>2, <3>2
  <2>5. \A q \in R : \E r \in M : h[r] = q
    BY <2>1
  <2> HIDE DEF h
  <2> QED
    BY <2>3, <2>4, <2>5 DEF Bijection, Injection, Surjection, IsInjective
<1>7. ASSUME NEW r \in M
      PROVE  F[r] = SumOf([i \in r.from .. r.to |-> D[list[i]]], r.from .. r.to)
  <2> DEFINE q == h[r]
             I == r.from .. r.to
             u == [i \in I |-> Decoded(list[i])]
             v == [i \in I |-> D[list[i]]]
  <2>1. q \in R /\ q.task = t /\ q.from = r.from /\ q.to = r.to
    BY <1>6 DEF Bijection, Injection
  <2>2. HitsOf(q) = SumFunction(u)
    <3> HIDE DEF h, list
    <3> QED
      BY <1>1, <2>1 DEF HitsOf
  <2>3. SumFunction(u) = SumOf(u, I)
    BY DEF SumFunction, SumOf
  <2>4. \A i \in I : list[i] \in S
    <3>1. r.from \in DOMAIN list /\ r.to \in DOMAIN list
      BY DEF Merged, Runs, StartsRead
    <3>2. DOMAIN list = 1 .. Cardinality(S) /\ list \in [1 .. Cardinality(S) -> S]
          /\ Cardinality(S) \in Nat
      BY <1>2, ListInOrder, Ranks
    <3> HIDE DEF list, S
    <3> QED
      BY <3>1, <3>2
  <2>5. u = v
    BY <2>4
  <2>6. F[r] = HitsOf(q)
    BY <2>1
  <2> QED
    BY <2>2, <2>3, <2>5, <2>6
<1>8. IsFiniteSet(M) /\ SumOf(F, M) = SumOf(D, S)
  <2>1. \A r \in Merged(InOrder(S)) :
          F[r] = SumOf([i \in r.from .. r.to |-> D[InOrder(S)[i]]], r.from .. r.to)
    BY <1>7
  <2>2. Placed(S) /\ Integers(D, S)
    BY <1>2, <1>4
  <2> HIDE DEF F, D, S
  <2> QED
    BY <2>1, <2>2, ReadsHoldList
<1>9. Integers(F, M)
  <2> SUFFICES ASSUME NEW r \in M PROVE F[r] \in Int
    BY DEF Integers
  <2> DEFINE I == r.from .. r.to
             v == [i \in I |-> D[list[i]]]
  <2>1. /\ r.from \in DOMAIN list /\ r.to \in DOMAIN list
    BY DEF Merged, Runs, StartsRead
  <2>2. DOMAIN list = 1 .. Cardinality(S) /\ list \in [1 .. Cardinality(S) -> S]
        /\ Cardinality(S) \in Nat
    BY <1>2, ListInOrder, Ranks
  <2>3. F[r] = SumOf(v, I)
    BY <1>7
  <2> HIDE DEF list, S, F, D
  <2>4. IsFiniteSet(I)
    <3>1. r.from \in Int /\ r.to \in Int
      BY <2>1, <2>2
    <3> QED
      BY <3>1, FS_Interval
  <2>5. Integers(v, I)
    BY <1>4, <2>1, <2>2 DEF Integers
  <2> HIDE DEF v, I
  <2>6. SumOf(v, I) \in Int
    BY <2>4, <2>5, SumType
  <2> QED
    BY <2>3, <2>6
<1>10. \A r \in M : F[r] = H[h[r]]
  OBVIOUS
<1> HIDE DEF M, R, h, F, D, S, L
<1>11. IsFiniteSet(R)
  BY <1>6, <1>8, AsMany
<1>12. Integers(H, R)
  <2>1. \A q \in R : \E r \in M : h[r] = q
    BY <1>6 DEF Bijection, Surjection
  <2> QED
    BY <1>9, <1>10, <2>1 DEF Integers
<1>13. SumOf(F, M) = SumOf(H, R)
  BY <1>6, <1>8, <1>10, <1>12, SumMatched
<1> QED
  BY <1>5, <1>8, <1>11, <1>12, <1>13 DEF R, L

(* Every block of a part of the array is planned by one task. *)
LEMMA PartByTasks ==
  ASSUME arr \in Arrays, NEW S \in SUBSET Whole
  PROVE  /\ IsFiniteSet(S) /\ IsFiniteSet(Tasks)
         /\ [b \in S |-> TaskOf(b)] \in [S -> Tasks]
         /\ \A t \in Tasks : Group([b \in S |-> TaskOf(b)], S, t) = {b \in ShareOf(t) : b \in S}
<1>1. IsFiniteSet(S)
  BY WholeFinite, FS_Subset
<1>2. /\ IsFiniteSet(Tasks)
      /\ \A b \in Whole : TaskOf(b) \in Tasks
      /\ \A t \in Tasks : ShareOf(t) = {b \in Whole : TaskOf(b) = t}
  BY SharesSplit
<1>3. [b \in S |-> TaskOf(b)] \in [S -> Tasks]
  BY <1>2
<1>4. \A t \in Tasks : Group([b \in S |-> TaskOf(b)], S, t) = {b \in ShareOf(t) : b \in S}
  BY <1>2 DEF Group
<1> QED
  BY <1>1, <1>2, <1>3, <1>4

(* Counting the blocks of a class task by task. *)
LEMMA ClassByTasks ==
  ASSUME arr \in Arrays, NEW c,
         NEW F, \A t \in Tasks : F[t] = Cardinality({b \in ShareOf(t) : BlockAt(b).class = c})
  PROVE  SumOf(F, Tasks) = NumberOf(c)
<1> DEFINE S == {b \in Whole : BlockAt(b).class = c}
           g == [b \in S |-> TaskOf(b)]
<1>1. S \in SUBSET Whole
  OBVIOUS
<1>2. /\ IsFiniteSet(S) /\ IsFiniteSet(Tasks) /\ g \in [S -> Tasks]
      /\ \A t \in Tasks : Group(g, S, t) = {b \in ShareOf(t) : b \in S}
  <2> HIDE DEF S
  <2> QED
    BY <1>1, PartByTasks
<1>3. \A t \in Tasks : F[t] = Cardinality(Group(g, S, t))
  <2> SUFFICES ASSUME NEW t \in Tasks PROVE F[t] = Cardinality(Group(g, S, t))
    OBVIOUS
  <2>1. ShareOf(t) \subseteq Whole
    BY DEF ShareOf, Whole
  <2>2. {b \in ShareOf(t) : b \in S} = {b \in ShareOf(t) : BlockAt(b).class = c}
    BY <2>1
  <2> HIDE DEF S, g
  <2> QED
    BY <1>2, <2>2
<1>4. NumberOf(c) = Cardinality(S)
  BY ClassMatched
<1> HIDE DEF S, g
<1>5. SumOf(F, Tasks) = Cardinality(S)
  BY <1>2, <1>3, CountByGroups
<1> QED
  BY <1>4, <1>5

(* The listed blocks of the array. *)
ListedBlocksOf == {b \in Whole : BlockAt(b).class \in Listed}

(* Every listed block is in the share of one task. *)
LEMMA ListedByTasks ==
  ASSUME arr \in Arrays
  PROVE  /\ IsFiniteSet(ListedBlocksOf)
         /\ [b \in ListedBlocksOf |-> TaskOf(b)] \in [ListedBlocksOf -> Tasks]
         /\ \A t \in Tasks :
              Group([b \in ListedBlocksOf |-> TaskOf(b)], ListedBlocksOf, t) = ListedOf(t)
<1>1. ListedBlocksOf \in SUBSET Whole
  BY DEF ListedBlocksOf
<1>2. \A t : {b \in ShareOf(t) : b \in ListedBlocksOf} = ListedOf(t)
  BY DEF ListedBlocksOf, ListedOf, ShareOf, Whole
<1> QED
  BY <1>1, <1>2, PartByTasks

(* The matches in the reads of all tasks are those of all listed blocks. *)
LEMMA HitsOfReads ==
  ASSUME QueryInv, pc = "done"
  PROVE  Hits = SumOf(hitsAt, ListedBlocksOf)
<1> DEFINE R == UNION {Reads(t) : t \in Tasks}
           H == [q \in R |-> HitsOf(q)]
           G == [t \in Tasks |-> SumOf(H, Reads(t))]
           L == ListedBlocksOf
           gr == [q \in R |-> q.task]
           gl == [b \in L |-> TaskOf(b)]
           hc == [c \in counted |-> c.hits]
           cr == [q \in R |-> [read |-> q, hits |-> HitsOf(q)]]
<1>1. /\ arr \in Arrays /\ layer \in 1 .. arr.layers /\ opts.merge_gap_blocks \in Nat
      /\ DOMAIN plans = Tasks /\ TasksPlanned /\ ReadsRight
      /\ ReadsCounted = R
  BY DoneFacts DEF QueryInv
<1>2. \A t \in Tasks : /\ IsFiniteSet(Reads(t)) /\ Integers(H, Reads(t))
                       /\ SumOf(H, Reads(t)) = SumOf(hitsAt, ListedOf(t))
  <2> SUFFICES ASSUME NEW t \in Tasks
               PROVE  /\ IsFiniteSet(Reads(t)) /\ Integers(H, Reads(t))
                      /\ SumOf(H, Reads(t)) = SumOf(hitsAt, ListedOf(t))
    OBVIOUS
  <2>1. \A q \in Reads(t) : H[q] = HitsOf(q)
    OBVIOUS
  <2>2. t \in DOMAIN plans
    BY <1>1
  <2> HIDE DEF H
  <2> QED
    BY <1>1, <2>1, <2>2, ReadsOfTask
<1>3. /\ IsFiniteSet(L) /\ gl \in [L -> Tasks] /\ \A t \in Tasks : Group(gl, L, t) = ListedOf(t)
  BY <1>1, ListedByTasks
<1>4. IsFiniteSet(Tasks)
  BY <1>1, SharesSplit
<1>5. IsFiniteSet(R)
  <2> DEFINE Sets == {Reads(t) : t \in Tasks}
             f == [t \in Tasks |-> Reads(t)]
  <2>1. f \in Surjection(Tasks, Sets)
    BY DEF Surjection
  <2>2. \A T \in Sets : IsFiniteSet(T)
    BY <1>2
  <2> HIDE DEF f, Sets
  <2>3. IsFiniteSet(Sets)
    BY <1>4, <2>1, FS_Surjection
  <2> QED
    BY <2>2, <2>3, FS_UNION DEF Sets
<1>6. gr \in [R -> Tasks] /\ \A t \in Tasks : Group(gr, R, t) = Reads(t)
  <2>1. \A t \in Tasks : \A q \in Reads(t) : q.task = t
    BY DEF Reads
  <2>2. \A q \in R : q.task \in Tasks /\ q \in Reads(q.task)
    BY <2>1
  <2>3. \A t \in Tasks : Reads(t) \subseteq R
    OBVIOUS
  <2> HIDE DEF R
  <2> QED
    BY <2>1, <2>2, <2>3 DEF Group
<1>7. Integers(H, R)
  <2>1. \A q \in R : \E t \in Tasks : q \in Reads(t)
    OBVIOUS
  <2> HIDE DEF H, R
  <2> QED
    BY <1>2, <2>1 DEF Integers
<1>8. SumOf(G, Tasks) = SumOf(H, R)
  <2>1. \A t \in Tasks : G[t] = SumOf(H, Group(gr, R, t))
    BY <1>6
  <2> HIDE DEF G, H, R, gr
  <2> QED
    BY <1>4, <1>5, <1>6, <1>7, <2>1, SumByGroups
<1>9. SumOf(G, Tasks) = SumOf(hitsAt, L)
  <2>1. \A t \in Tasks : G[t] = SumOf(hitsAt, Group(gl, L, t))
    BY <1>2, <1>3
  <2>2. Integers(hitsAt, L)
    <3>1. \A b \in L : b \in Whole
      BY DEF ListedBlocksOf
    <3>2. \A b \in L : BlockAt(b).hits \in 0 .. ValuesPerBlock
      BY <1>1, <3>1, BlockTypes
    <3> HIDE DEF L
    <3> QED
      BY <3>1, <3>2 DEF Integers, hitsAt
  <2> HIDE DEF G, L, gl
  <2> QED
    BY <1>3, <1>4, <2>1, <2>2, SumByGroups
<1>10. cr \in Bijection(R, counted)
  <2>1. \A c \in counted : c = [read |-> c.read, hits |-> HitsOf(c.read)]
    BY <1>1 DEF ReadsRight
  <2>2. R = {c.read : c \in counted}
    BY <1>1 DEF ReadsCounted
  <2> HIDE DEF R
  <2>3. \A q \in R : cr[q] \in counted
    BY <2>1, <2>2
  <2>4. \A p, q \in R : cr[p] = cr[q] => p = q
    <3> SUFFICES ASSUME NEW p \in R, NEW q \in R, cr[p] = cr[q] PROVE p = q
      OBVIOUS
    <3>1. cr[p].read = p /\ cr[q].read = q
      OBVIOUS
    <3> HIDE DEF cr
    <3> QED
      BY <3>1
  <2>5. \A c \in counted : \E q \in R : cr[q] = c
    BY <2>1, <2>2
  <2>6. cr \in [R -> counted]
    BY <2>3
  <2> HIDE DEF cr
  <2> QED
    BY <2>4, <2>5, <2>6 DEF Bijection, Injection, Surjection, IsInjective
<1>11. Hits = SumOf(hc, counted)
  BY DEF Hits, SumFunction, SumOf
<1>12. SumOf(H, R) = SumOf(hc, counted)
  <2>1. \A q \in R : H[q] = hc[cr[q]]
    <3> SUFFICES ASSUME NEW q \in R PROVE H[q] = hc[cr[q]]
      OBVIOUS
    <3>1. cr[q] \in counted /\ cr[q].hits = H[q]
      BY <1>10 DEF Bijection, Injection
    <3> HIDE DEF cr, H, R
    <3> QED
      BY <3>1
  <2>2. Integers(hc, counted)
    <3>1. \A c \in counted : \E q \in R : cr[q] = c
      BY <1>10 DEF Bijection, Surjection
    <3> HIDE DEF cr, hc, H, R
    <3> QED
      BY <1>7, <2>1, <3>1 DEF Integers
  <2> HIDE DEF cr, hc, H, R
  <2> QED
    BY <1>5, <1>10, <2>1, <2>2, SumMatched
<1> QED
  BY <1>8, <1>9, <1>11, <1>12

-----------------------------------------------------------------------------
(* The blocks of the zone map are those of the whole array. *)

(* The totals of the tasks are those of the array. *)
LEMMA BlocksExact ==
  ASSUME QueryInv, pc = "done"
  PROVE  /\ InBlocks = NumberOf(In)
         /\ OutBlocks = NumberOf(Out)
         /\ ListedBlocks = Cardinality(ListedBlocksOf)
<1>1. arr \in Arrays /\ DOMAIN plans = Tasks /\ TasksPlanned
  BY DoneFacts DEF QueryInv
<1>2. \A t \in Tasks :
        /\ plans[t].blocks = InOrder(ShareEntries(t))
        /\ plans[t].ins = Cardinality({b \in ShareOf(t) : BlockAt(b).class = In})
        /\ plans[t].outs = Cardinality({b \in ShareOf(t) : BlockAt(b).class = Out})
  BY <1>1, TaskPlan
<1>3. InBlocks = NumberOf(In)
  <2> DEFINE F == [t \in Tasks |-> plans[t].ins]
  <2>1. InBlocks = SumOf(F, Tasks)
    BY DEF InBlocks, SumFunction, SumOf
  <2>2. \A t \in Tasks : F[t] = Cardinality({b \in ShareOf(t) : BlockAt(b).class = In})
    BY <1>2
  <2> HIDE DEF F
  <2> QED
    BY <1>1, <2>1, <2>2, ClassByTasks
<1>4. OutBlocks = NumberOf(Out)
  <2> DEFINE F == [t \in Tasks |-> plans[t].outs]
  <2>1. OutBlocks = SumOf(F, Tasks)
    BY DEF OutBlocks, SumFunction, SumOf
  <2>2. \A t \in Tasks : F[t] = Cardinality({b \in ShareOf(t) : BlockAt(b).class = Out})
    BY <1>2
  <2> HIDE DEF F
  <2> QED
    BY <1>1, <2>1, <2>2, ClassByTasks
<1>5. ListedBlocks = Cardinality(ListedBlocksOf)
  <2> DEFINE F == [t \in Tasks |-> Len(plans[t].blocks)]
             L == ListedBlocksOf
             g == [b \in L |-> TaskOf(b)]
  <2>1. ListedBlocks = SumOf(F, Tasks)
    BY DEF ListedBlocks, SumFunction, SumOf
  <2>2. \A t \in Tasks : F[t] = Cardinality(ListedOf(t))
    <3> SUFFICES ASSUME NEW t \in Tasks PROVE F[t] = Cardinality(ListedOf(t))
      OBVIOUS
    <3>1. Placed(ShareEntries(t)) /\ Cardinality(ShareEntries(t)) = Cardinality(ListedOf(t))
      BY SharePlaced
    <3>2. Len(InOrder(ShareEntries(t))) = Cardinality(ShareEntries(t))
      BY <3>1, ListAscends
    <3>3. F[t] = Len(InOrder(ShareEntries(t)))
      BY <1>2
    <3> QED
      BY <3>1, <3>2, <3>3
  <2>3. /\ IsFiniteSet(L) /\ g \in [L -> Tasks] /\ \A t \in Tasks : Group(g, L, t) = ListedOf(t)
    BY <1>1, ListedByTasks
  <2>4. IsFiniteSet(Tasks)
    BY <1>1, SharesSplit
  <2>5. \A t \in Tasks : F[t] = Cardinality(Group(g, L, t))
    BY <2>2, <2>3
  <2> HIDE DEF F, L, g
  <2>6. SumOf(F, Tasks) = Cardinality(L)
    BY <2>3, <2>4, <2>5, CountByGroups
  <2> QED
    BY <2>1, <2>6 DEF L
<1> QED
  BY <1>3, <1>4, <1>5

(* The blocks of one class. *)
OfClass(c) == {b \in Whole : BlockAt(b).class = c}

(* The blocks of a class, and what matches in the IN and OUT blocks. *)
LEMMA ClassFacts ==
  ASSUME arr \in Arrays, layer \in 1 .. arr.layers
  PROVE  /\ \A c : IsFiniteSet(OfClass(c)) /\ OfClass(c) \subseteq Whole
                   /\ NumberOf(c) = Cardinality(OfClass(c)) /\ NumberOf(c) \in Nat
         /\ Whole = (OfClass(In) \cup OfClass(Maybe)) \cup OfClass(Out)
         /\ OfClass(In) \cap OfClass(Maybe) = {}
         /\ (OfClass(In) \cup OfClass(Maybe)) \cap OfClass(Out) = {}
         /\ SumOf(hitsAt, OfClass(In)) = ValuesPerBlock * NumberOf(In)
         /\ SumOf(hitsAt, OfClass(Out)) = 0
         /\ Integers(hitsAt, Whole)
<1>1. \A c : IsFiniteSet(OfClass(c)) /\ OfClass(c) \subseteq Whole
             /\ NumberOf(c) = Cardinality(OfClass(c)) /\ NumberOf(c) \in Nat
  <2> SUFFICES ASSUME NEW c
               PROVE  IsFiniteSet(OfClass(c)) /\ OfClass(c) \subseteq Whole
                      /\ NumberOf(c) = Cardinality(OfClass(c)) /\ NumberOf(c) \in Nat
    OBVIOUS
  <2>1. OfClass(c) \in SUBSET Whole
    BY DEF OfClass
  <2>2. IsFiniteSet(OfClass(c))
    BY <2>1, WholeFinite, FS_Subset
  <2>3. NumberOf(c) = Cardinality(OfClass(c))
    BY ClassMatched DEF OfClass
  <2> QED
    BY <2>1, <2>2, <2>3, FS_CardinalityType
<1>2. \A b \in Whole : /\ BlockAt(b).class \in {In, Out, Maybe}
                       /\ BlockAt(b).hits \in 0 .. ValuesPerBlock
                       /\ BlockAt(b).class = Out => BlockAt(b).hits = 0
                       /\ BlockAt(b).class = In => BlockAt(b).hits = ValuesPerBlock
  BY BlockTypes
<1>3. Whole = (OfClass(In) \cup OfClass(Maybe)) \cup OfClass(Out)
  BY <1>2 DEF OfClass
<1>4. /\ OfClass(In) \cap OfClass(Maybe) = {}
      /\ (OfClass(In) \cup OfClass(Maybe)) \cap OfClass(Out) = {}
  BY DEF OfClass, In, Out, Maybe
<1>5. ValuesPerBlock \in Int
  BY GridAssumption
<1>6. \A b \in OfClass(In) : hitsAt[b] = ValuesPerBlock
  BY <1>2 DEF OfClass, hitsAt
<1>7. \A b \in OfClass(Out) : hitsAt[b] = 0
  BY <1>2 DEF OfClass, hitsAt
<1>8. SumOf(hitsAt, OfClass(In)) = ValuesPerBlock * NumberOf(In)
  <2>1. IsFiniteSet(OfClass(In)) /\ NumberOf(In) = Cardinality(OfClass(In))
    BY <1>1
  <2> QED
    BY <1>5, <1>6, <2>1, SumOfEqual
<1>9. SumOf(hitsAt, OfClass(Out)) = 0
  <2>1. IsFiniteSet(OfClass(Out)) /\ NumberOf(Out) = Cardinality(OfClass(Out)) /\ 0 \in Int
        /\ NumberOf(Out) \in Nat
    BY <1>1
  <2>2. SumOf(hitsAt, OfClass(Out)) = 0 * Cardinality(OfClass(Out))
    BY <1>7, <2>1, SumOfEqual
  <2> QED
    BY <2>1, <2>2
<1>10. Integers(hitsAt, Whole)
  BY <1>2 DEF Integers, hitsAt
<1> QED
  BY <1>1, <1>3, <1>4, <1>8, <1>9, <1>10

(* The matching values of the array, however its blocks are numbered. *)
LEMMA AllHits ==
  ASSUME arr \in Arrays, layer \in 1 .. arr.layers
  PROVE  /\ SumFunction([e \in AllBlocks |-> Block(e).hits]) = SumOf(hitsAt, Whole)
         /\ SumOf(hitsAt, Whole)
              = SumOf(hitsAt, OfClass(In)) + SumOf(hitsAt, OfClass(Maybe))
         /\ SumOf(hitsAt, OfClass(In) \cup OfClass(Maybe))
              = SumOf(hitsAt, OfClass(In)) + SumOf(hitsAt, OfClass(Maybe))
         /\ SumOf(hitsAt, OfClass(In)) \in Int /\ SumOf(hitsAt, OfClass(Maybe)) \in Int
         /\ Cardinality(OfClass(In) \cup OfClass(Maybe)) = NumberOf(In) + NumberOf(Maybe)
<1> DEFINE A == OfClass(In)
           B == OfClass(Maybe)
           C == OfClass(Out)
           f == hitsAt
           h == [b \in Whole |-> <<Ravel(b[1], grid), b[2]>>]
           g == [e \in AllBlocks |-> Block(e).hits]
<1>1. /\ IsFiniteSet(A) /\ IsFiniteSet(B) /\ IsFiniteSet(C) /\ A \cap B = {}
      /\ (A \cup B) \cap C = {} /\ Whole = (A \cup B) \cup C
      /\ NumberOf(In) = Cardinality(A) /\ NumberOf(Maybe) = Cardinality(B)
      /\ NumberOf(In) \in Nat /\ NumberOf(Maybe) \in Nat
      /\ SumOf(f, C) = 0 /\ Integers(f, Whole)
  BY ClassFacts
<1>2. /\ Integers(f, A) /\ Integers(f, B) /\ Integers(f, A \cup B) /\ Integers(f, (A \cup B) \cup C)
  BY <1>1 DEF Integers
<1> HIDE DEF A, B, C, f
<1>3. SumOf(f, A) \in Int /\ SumOf(f, B) \in Int
  BY <1>1, <1>2, SumType
<1>4. SumOf(f, A \cup B) = SumOf(f, A) + SumOf(f, B)
  BY <1>1, <1>2, SumOfTwo
<1>5. IsFiniteSet(A \cup B) /\ Cardinality(A \cup B) = NumberOf(In) + NumberOf(Maybe)
  <2>1. Cardinality(A \cap B) = 0
    BY <1>1, FS_EmptySet
  <2>2. IsFiniteSet(A \cup B)
        /\ Cardinality(A \cup B) = Cardinality(A) + Cardinality(B) - Cardinality(A \cap B)
    BY <1>1, FS_Union
  <2> QED
    BY <1>1, <2>1, <2>2
<1>6. SumOf(f, Whole) = SumOf(f, A) + SumOf(f, B)
  <2>1. SumOf(f, (A \cup B) \cup C) = SumOf(f, A \cup B) + SumOf(f, C)
    BY <1>1, <1>2, <1>5, SumOfTwo
  <2> QED
    BY <1>1, <1>3, <1>4, <2>1
<1>7. SumFunction(g) = SumOf(g, AllBlocks)
  BY DEF SumFunction, SumOf
<1>8. SumOf(f, Whole) = SumOf(g, AllBlocks)
  <2>1. h \in Bijection(Whole, AllBlocks) /\ \A b \in Whole : Block(h[b]) = BlockAt(b)
    BY BlocksMatched
  <2> HIDE DEF h
  <2>2. \A b \in Whole : h[b] \in AllBlocks
    BY <2>1 DEF Bijection, Injection
  <2>3. \A b \in Whole : f[b] = g[h[b]]
    BY <2>1, <2>2 DEF f, hitsAt
  <2>4. Integers(g, AllBlocks)
    <3>1. \A e \in AllBlocks : \E b \in Whole : h[b] = e
      BY <2>1 DEF Bijection, Surjection
    <3> HIDE DEF g
    <3> QED
      BY <1>1, <2>3, <3>1 DEF Integers
  <2> HIDE DEF g
  <2> QED
    BY WholeFinite, <2>1, <2>3, <2>4, SumMatched
<1> QED
  BY <1>3, <1>4, <1>5, <1>6, <1>7, <1>8 DEF A, B, f

(* Whichever way it is answered, for every array, grid, chunk shape and    *)
(* object size, in whatever order objects and reads arrive: a query counts *)
(* every matching value of its layer once, and its IN, OUT and MAYBE       *)
(* blocks are those of the whole array.                                    *)
THEOREM QueriesExact == Spec => []QueryExact
<1>1. QueryInv => QueryExact
  <2> SUFFICES ASSUME QueryInv, pc = "done"
               PROVE  /\ result.count = SumFunction([e \in AllBlocks |-> Block(e).hits])
                      /\ result.in_blocks = NumberOf(In)
                      /\ result.out_blocks = NumberOf(Out)
                      /\ result.maybe_blocks = NumberOf(Maybe)
    BY DEF QueryExact
  <2>1. arr \in Arrays /\ layer \in 1 .. arr.layers /\ result = Result
    BY DoneFacts
  <2>2. /\ InBlocks = NumberOf(In) /\ OutBlocks = NumberOf(Out)
        /\ ListedBlocks = Cardinality(ListedBlocksOf)
    BY BlocksExact
  <2>3. Hits = SumOf(hitsAt, ListedBlocksOf)
    BY HitsOfReads
  <2>4. /\ SumFunction([e \in AllBlocks |-> Block(e).hits])
             = SumOf(hitsAt, OfClass(In)) + SumOf(hitsAt, OfClass(Maybe))
        /\ SumOf(hitsAt, OfClass(In) \cup OfClass(Maybe))
             = SumOf(hitsAt, OfClass(In)) + SumOf(hitsAt, OfClass(Maybe))
        /\ SumOf(hitsAt, OfClass(In)) \in Int /\ SumOf(hitsAt, OfClass(Maybe)) \in Int
        /\ Cardinality(OfClass(In) \cup OfClass(Maybe)) = NumberOf(In) + NumberOf(Maybe)
    BY <2>1, AllHits
  <2>5. /\ NumberOf(In) \in Nat /\ NumberOf(Maybe) \in Nat
        /\ NumberOf(Maybe) = Cardinality(OfClass(Maybe))
        /\ SumOf(hitsAt, OfClass(In)) = ValuesPerBlock * NumberOf(In)
    BY <2>1, ClassFacts
  <2>6. ValuesPerBlock \in Nat
    BY GridAssumption
  <2>7. result.in_blocks = NumberOf(In) /\ result.out_blocks = NumberOf(Out)
    BY <2>1, <2>2 DEF Result
  <2>8. CASE op = "count"
    <3>1. ListedBlocksOf = OfClass(Maybe)
      BY <2>8 DEF ListedBlocksOf, OfClass, Listed
    <3>2. result.count = InBlocks * ValuesPerBlock + Hits /\ result.maybe_blocks = ListedBlocks
      BY <2>1, <2>8 DEF Result
    <3>3. InBlocks * ValuesPerBlock = ValuesPerBlock * NumberOf(In)
      <4>1. \A n, v \in Nat : n * v = v * n
        OBVIOUS
      <4>2. NumberOf(In) * ValuesPerBlock = ValuesPerBlock * NumberOf(In)
        BY <2>5, <2>6, <4>1
      <4> QED
        BY <2>2, <4>2
    <3>4. result.count = SumFunction([e \in AllBlocks |-> Block(e).hits])
      <4> DEFINE x == ValuesPerBlock * NumberOf(In)
      <4>1. result.count = x + Hits
        BY <3>2, <3>3, Zenon
      <4>2. SumOf(hitsAt, OfClass(In)) = x
        BY <2>5
      <4>3. Hits = SumOf(hitsAt, OfClass(Maybe))
        BY <2>3, <3>1
      <4> HIDE DEF x
      <4> QED
        BY <2>4, <4>1, <4>2, <4>3, Zenon
    <3>5. result.maybe_blocks = NumberOf(Maybe)
      BY <2>2, <2>5, <3>1, <3>2, Zenon
    <3> QED
      BY <2>7, <3>4, <3>5
  <2>9. CASE op # "count"
    <3>1. ListedBlocksOf = OfClass(In) \cup OfClass(Maybe)
      BY <2>9 DEF ListedBlocksOf, OfClass, Listed
    <3>2. result.count = Hits /\ result.maybe_blocks = ListedBlocks - InBlocks
      BY <2>1, <2>9 DEF Result
    <3>3. result.count = SumFunction([e \in AllBlocks |-> Block(e).hits])
      BY <2>3, <2>4, <3>1, <3>2
    <3>4. result.maybe_blocks = NumberOf(Maybe)
      <4>1. ListedBlocks = NumberOf(In) + NumberOf(Maybe)
        BY <2>2, <2>4, <3>1, Zenon
      <4>2. NumberOf(In) \in Nat /\ NumberOf(Maybe) \in Nat
        BY <2>5
      <4> DEFINE a == NumberOf(In)
                 b == NumberOf(Maybe)
      <4>3. a \in Nat /\ b \in Nat /\ ListedBlocks = a + b /\ InBlocks = a
        BY <2>2, <4>1, <4>2
      <4>4. result.maybe_blocks = ListedBlocks - InBlocks
        BY <3>2
      <4> HIDE DEF a, b
      <4>5. result.maybe_blocks = b
        BY <4>3, <4>4
      <4> QED
        BY <4>5 DEF b
    <3> QED
      BY <2>7, <3>3, <3>4
  <2> QED
    BY <2>8, <2>9
<1> QED
  BY <1>1, QueryInvariant, PTL

-----------------------------------------------------------------------------
(* Lists put together *)

(* A list's type, length and places. *)
LEMMA ListType ==
  ASSUME NEW S, Placed(S)
  PROVE  /\ InOrder(S) \in Seq(S) /\ Len(InOrder(S)) = Cardinality(S)
         /\ Cardinality(S) \in Nat
<1>1. Cardinality(S) \in Nat /\ Len(InOrder(S)) = Cardinality(S)
  BY Ranks, ListAscends
<1> DEFINE m == Cardinality(S)
<1>2. m \in Nat /\ InOrder(S) \in [1 .. m -> S]
  BY <1>1, ListInOrder
<1> HIDE DEF m
<1>3. InOrder(S) \in Seq(S)
  BY <1>2
<1> QED
  BY <1>1, <1>3

(* The list of all that come before, and of all that come after, in turn.  *)
LEMMA ListsJoined ==
  ASSUME NEW A, NEW B, Placed(A), Placed(B), Placed(A \cup B),
         \A a \in A, b \in B : Before(a, b)
  PROVE  InOrder(A \cup B) = InOrder(A) \o InOrder(B)
<1> DEFINE U == A \cup B
           n == Cardinality(A)
           m == Cardinality(B)
           la == InOrder(A)
           lb == InOrder(B)
           l == la \o lb
<1>1. /\ \A e \in U : ~Before(e, e)
      /\ \A c, d, e \in U : Before(c, d) /\ Before(d, e) => Before(c, e)
  BY BeforeIsTotal
<1>2. A \cap B = {} /\ \A a \in A, b \in B : ~Before(b, a)
  BY <1>1
<1>3. IsFiniteSet(A) /\ IsFiniteSet(B) /\ n \in Nat /\ m \in Nat
  BY Ranks DEF Placed
<1>4. Cardinality(U) = n + m
  <2>1. Cardinality(A \cap B) = 0
    BY <1>2, FS_EmptySet
  <2>2. Cardinality(A \cup B) = Cardinality(A) + Cardinality(B) - Cardinality(A \cap B)
    BY <1>3, FS_Union
  <2> QED
    BY <1>3, <2>1, <2>2
<1>5. \A a \in A : PlaceIn(U, a) = PlaceIn(A, a)
  <2>1. \A a \in A : AllBefore(U, a) = AllBefore(A, a)
    BY <1>2 DEF AllBefore
  <2> QED
    BY <2>1 DEF PlaceIn
<1>6. ASSUME NEW b \in B PROVE PlaceIn(U, b) = n + PlaceIn(B, b)
  <2> DEFINE C == AllBefore(B, b)
  <2>1. AllBefore(U, b) = A \cup C
    BY DEF AllBefore
  <2>2. C \in SUBSET B /\ A \cap C = {}
    BY <1>2 DEF AllBefore
  <2> HIDE DEF C
  <2>3. IsFiniteSet(C) /\ Cardinality(C) \in Nat
    BY <1>3, <2>2, FS_Subset, FS_CardinalityType
  <2>4. Cardinality(A \cap C) = 0
    BY <2>2, FS_EmptySet
  <2>5. Cardinality(A \cup C) = Cardinality(A) + Cardinality(C) - Cardinality(A \cap C)
    BY <1>3, <2>3, FS_Union
  <2>6. Cardinality(A \cup C) = n + Cardinality(C)
    BY <1>3, <2>3, <2>4, <2>5
  <2> QED
    BY <2>1, <2>6 DEF PlaceIn, C
<1>7. /\ la \in Seq(A) /\ Len(la) = n /\ lb \in Seq(B) /\ Len(lb) = m
      /\ InOrder(U) \in Seq(U) /\ Len(InOrder(U)) = n + m
  <2>1. la \in Seq(A) /\ Len(la) = n
    BY ListType
  <2>2. lb \in Seq(B) /\ Len(lb) = m
    BY ListType
  <2>3. InOrder(U) \in Seq(U) /\ Len(InOrder(U)) = Cardinality(U)
    BY ListType
  <2> QED
    BY <1>4, <2>1, <2>2, <2>3
<1>8. /\ \A k \in 1 .. n : la[k] \in A /\ PlaceIn(A, la[k]) = k - 1
      /\ \A k \in 1 .. m : lb[k] \in B /\ PlaceIn(B, lb[k]) = k - 1
  <2>1. \A k \in 1 .. n : la[k] \in A /\ PlaceIn(A, la[k]) = k - 1
    BY ListInOrder
  <2>2. \A k \in 1 .. m : lb[k] \in B /\ PlaceIn(B, lb[k]) = k - 1
    BY ListInOrder
  <2> QED
    BY <2>1, <2>2
<1>9. \A e \in U : InOrder(U)[PlaceIn(U, e) + 1] = e
  BY ListInOrder
<1> HIDE DEF U, n, m, la, lb
<1>10. /\ l \in Seq(A \cup B) /\ Len(l) = n + m
       /\ \A k \in 1 .. n : l[k] = la[k]
       /\ \A k \in 1 .. m : l[n + k] = lb[k]
  <2>1. la \in Seq(A \cup B) /\ lb \in Seq(A \cup B)
    BY <1>7
  <2> HIDE DEF l
  <2>2. /\ l \in Seq(A \cup B) /\ Len(l) = Len(la) + Len(lb)
        /\ \A i \in 1 .. Len(la) + Len(lb) : l[i] = IF i <= Len(la) THEN la[i] ELSE lb[i - Len(la)]
    BY <2>1 DEF l
  <2>3. \A k \in 1 .. n : k \in 1 .. Len(la) + Len(lb) /\ k <= Len(la)
    BY <1>3, <1>7
  <2>4. \A k \in 1 .. n : l[k] = la[k]
    BY <2>2, <2>3
  <2>5. \A k \in 1 .. m : /\ n + k \in 1 .. Len(la) + Len(lb) /\ ~(n + k <= Len(la))
                          /\ (n + k) - Len(la) = k
    BY <1>3, <1>7
  <2>6. \A k \in 1 .. m : l[n + k] = lb[k]
    BY <2>2, <2>5
  <2> QED
    BY <1>7, <2>2, <2>4, <2>6
<1> HIDE DEF l
<1>11. ASSUME NEW k \in 1 .. n + m PROVE InOrder(U)[k] = l[k]
  <2>1. CASE k <= n
    <3>1. k \in 1 .. n
      BY <1>3, <2>1
    <3>2. l[k] \in A /\ PlaceIn(U, l[k]) = k - 1
      BY <1>5, <1>8, <1>10, <3>1
    <3>3. InOrder(U)[(k - 1) + 1] = l[k]
      BY <1>9, <3>2 DEF U
    <3> QED
      BY <1>3, <3>3
  <2>2. CASE n < k
    <3> DEFINE j == k - n
    <3>1. j \in 1 .. m /\ k = n + j
      BY <1>3, <2>2
    <3> HIDE DEF j
    <3>2. l[n + j] \in B /\ PlaceIn(U, l[n + j]) = n + (j - 1)
      BY <1>6, <1>8, <1>10, <3>1
    <3>3. InOrder(U)[(n + (j - 1)) + 1] = l[n + j]
      BY <1>9, <3>2 DEF U
    <3>4. (n + (j - 1)) + 1 = k
      BY <1>3, <3>1
    <3> QED
      BY <3>1, <3>3, <3>4
  <2> QED
    BY <1>3, <2>1, <2>2
<1>12. InOrder(U) = l
  <2> DEFINE f == InOrder(U)
             N == n + m
  <2>1. f \in [1 .. N -> A \cup B] /\ l \in [1 .. N -> A \cup B]
    <3>1. f \in Seq(A \cup B) /\ Len(f) = N /\ N \in Nat
      BY <1>3, <1>7 DEF U
    <3> HIDE DEF f, N
    <3>2. f \in [1 .. N -> A \cup B]
      BY <3>1
    <3>3. l \in Seq(A \cup B) /\ Len(l) = N
      BY <1>10 DEF N
    <3>4. l \in [1 .. N -> A \cup B]
      BY <3>1, <3>3
    <3> QED
      BY <3>2, <3>4
  <2>2. \A k \in 1 .. N : f[k] = l[k]
    BY <1>11
  <2> HIDE DEF f, N
  <2>3. f = [k \in 1 .. N |-> f[k]] /\ l = [k \in 1 .. N |-> l[k]]
    BY <2>1
  <2>4. f = l
    BY <2>2, <2>3, Zenon
  <2> QED
    BY <2>4 DEF f
<1> QED
  BY <1>12 DEF U, l, la, lb

-----------------------------------------------------------------------------
(* The shares in order *)

(* The chunks of an earlier task come first. *)
LEMMA ChunksInOrder ==
  ASSUME arr \in Arrays, NEW a \in Whole, NEW b \in Whole, TaskOf(a) < TaskOf(b)
  PROVE  ArrayEntry(a).chunk < ArrayEntry(b).chunk
<1> DEFINE x == a[1][1]
           y == b[1][1]
           c == tChunk
           s == subs[1]
           k == c \div s
           t == x \div c
           u == y \div c
           p == x \div s
           q == y \div s
           B == grid[2] \div subs[2]
           C == grid[3] \div subs[3]
           a2 == a[1][2] \div subs[2]
           a3 == a[1][3] \div subs[3]
           b2 == b[1][2] \div subs[2]
           b3 == b[1][3] \div subs[3]
<1>1. Pipelined
  <2>1. ~Pipelined => TaskOf(a) = 0 /\ TaskOf(b) = 0
    BY DEF TaskOf
  <2> QED
    BY <2>1
<1>2. TaskOf(a) = t /\ TaskOf(b) = u /\ t < u
  BY <1>1 DEF TaskOf
<1>3. c % s = 0 /\ c \in Nat \ {0} /\ s \in Nat \ {0}
  <2>1. 0 \in Nat /\ TaskOf(a) \in Tasks
    BY SharesSplit
  <2>2. tChunk \in Nat \ {0} /\ tChunk % subs[1] = 0
    BY <1>1, <2>1, TaskSteps
  <2> QED
    BY <2>2, Sides
<1>4. x \in Nat /\ y \in Nat
  <2>1. x \in 0 .. grid[1] - 1 /\ y \in 0 .. grid[1] - 1 /\ grid[1] \in Nat
    BY Sides DEF Whole, Coords
  <2> QED
    BY <2>1
<1>5. /\ p \in Nat /\ q \in Nat
      /\ a2 \in 0 .. B - 1 /\ a3 \in 0 .. C - 1 /\ b2 \in 0 .. B - 1 /\ b3 \in 0 .. C - 1
      /\ B \in Nat \ {0} /\ C \in Nat \ {0}
  <2>1. DivBy(a[1], subs) \in Coords(DivBy(grid, subs))
    BY Splits DEF Whole
  <2>2. DivBy(b[1], subs) \in Coords(DivBy(grid, subs))
    BY Splits DEF Whole
  <2>3. a2 \in 0 .. B - 1 /\ a3 \in 0 .. C - 1 /\ b2 \in 0 .. B - 1 /\ b3 \in 0 .. C - 1
    BY <2>1, <2>2 DEF DivBy, Coords
  <2>4. DivBy(grid, subs) \in Shape
    BY Shapes
  <2>5. B \in Nat \ {0} /\ C \in Nat \ {0}
    BY <2>4 DEF DivBy, Shape
  <2>6. p \in Nat
    BY <1>3, <1>4, DivisionOf
  <2>7. q \in Nat
    BY <1>3, <1>4, DivisionOf
  <2> QED
    BY <2>3, <2>5, <2>6, <2>7
<1>6. /\ ArrayEntry(a).chunk = (p * B + a2) * C + a3
      /\ ArrayEntry(b).chunk = (q * B + b2) * C + b3
  BY DEF ArrayEntry, DivBy, Ravel
<1> HIDE DEF x, y, c, s, B, C, a2, a3, b2, b3
<1>7. p < q
  <2>1. k \in Nat /\ c = k * s
    BY <1>3, DivisionOf
  <2>2. t \in Nat /\ x % c \in 0 .. c - 1 /\ x = t * c + (x % c)
    BY <1>3, <1>4, DivisionOf
  <2>3. u \in Nat /\ y % c \in 0 .. c - 1 /\ y = u * c + (y % c)
    BY <1>3, <1>4, DivisionOf
  <2> HIDE DEF k, t, u, p, q
  <2> DEFINE m == (t + 1) * c
             n == (t + 1) * k
  <2>4. (t + 1) * c <= u * c /\ (t + 1) * c = t * c + c /\ t * c \in Nat /\ u * c \in Nat
    <3>1. t + 1 <= u /\ t + 1 \in Int /\ u \in Int /\ c \in Nat
      BY <1>2, <1>3, <2>2, <2>3
    <3>2. (t + 1) * c <= u * c
      BY <3>1, ProductGrows
    <3> QED
      BY <1>3, <2>2, <2>3, <3>2
  <2>5. x < m /\ m <= y
    <3> DEFINE d == t * c
               e == u * c
    <3>1. d \in Nat /\ e \in Nat /\ m = d + c /\ m <= e /\ x = d + (x % c) /\ y = e + (y % c)
      BY <2>2, <2>3, <2>4
    <3> HIDE DEF d, e, m
    <3> QED
      BY <1>3, <2>2, <2>3, <3>1
  <2>6. m = n * s /\ n \in Nat
    <3>1. (t + 1) * (k * s) = ((t + 1) * k) * s
      BY <1>3, <2>1, <2>2
    <3> QED
      BY <2>1, <2>2, <3>1
  <2> HIDE DEF m, n
  <2>7. x < n * s /\ n * s <= y
    BY <2>5, <2>6
  <2>8. p < n
    BY <1>3, <1>4, <2>6, <2>7, DivisionOrder DEF p
  <2>9. n <= q
    BY <1>3, <1>4, <2>6, <2>7, DivisionOrder DEF q
  <2> QED
    BY <1>5, <2>6, <2>8, <2>9
<1> HIDE DEF p, q
<1> DEFINE V == B * C
           v == a2 * C + a3
           w == b2 * C + b3
<1>8. v \in 0 .. V - 1
  BY <1>5, TwoDigits
<1>9. w \in 0 .. V - 1
  BY <1>5, TwoDigits
<1>10. (p * B + a2) * C + a3 = p * V + v /\ (q * B + b2) * C + b3 = q * V + w
  <2>1. a2 \in Nat /\ a3 \in Nat /\ b2 \in Nat /\ b3 \in Nat /\ B \in Nat /\ C \in Nat
    BY <1>5
  <2>2. (p * B + a2) * C + a3 = p * (B * C) + (a2 * C + a3)
    BY <1>5, <2>1
  <2>3. (q * B + b2) * C + b3 = q * (B * C) + (b2 * C + b3)
    BY <1>5, <2>1
  <2> QED
    BY <2>2, <2>3
<1>11. V \in Nat
  BY <1>5
<1> HIDE DEF V, v, w
<1>12. p * V + v < q * V + w
  <2>1. (p + 1) * V <= q * V
    BY <1>5, <1>7, <1>11, ProductGrows
  <2> DEFINE d == p * V
             e == q * V
  <2>2. d \in Nat /\ e \in Nat /\ d + V <= e
    <3>1. (p + 1) * V = p * V + V
      BY <1>5, <1>11
    <3> QED
      BY <1>5, <1>11, <2>1, <3>1
  <2> HIDE DEF d, e
  <2>3. d + v < e + w
    BY <1>8, <1>9, <1>11, <2>2
  <2> QED
    BY <2>3 DEF d, e
<1> QED
  BY <1>6, <1>10, <1>12

(* What one plan of the whole array lists. *)
WholeEntries == {d \in {ArrayEntry(b) : b \in Whole} : d.state \in Listed}

(* It is these entries in order. *)
LEMMA WholePlan ==
  PlanOf(arr.units, grid[1], 0).blocks = InOrder(WholeEntries)
<1> DEFINE Class(e) == arr.units[Ravel(e[1], grid)][e[2]][PlannedLayer].class
           Entry(e) ==
             [chunk |-> 0 + Ravel(DivBy(e[1], subs), DivBy(grid, subs)),
              block |-> Ravel(ModBy(e[1], subs), subs) * BlocksPerUnit + e[2],
              state |-> Class(e)]
           S == {Entry(e) : e \in {a \in Whole : Class(a) \in Listed}}
<1>1. <<grid[1], grid[2], grid[3]>> = grid
  BY Shapes DEF Shape
<1>2. PlanOf(arr.units, grid[1], 0).blocks = InOrder(S)
  BY <1>1 DEF PlanOf, Whole
<1>3. ASSUME NEW b \in Whole PROVE Entry(b) = ArrayEntry(b) /\ ArrayEntry(b).state = Class(b)
  <2>1. ArrayEntry(b).chunk = ChunkOf(b[1]) /\ ChunkOf(b[1]) \in Nat
    BY EntryFacts
  <2>2. 0 + Ravel(DivBy(b[1], subs), DivBy(grid, subs))
          = Ravel(DivBy(b[1], subs), DivBy(grid, subs))
    BY <2>1 DEF ChunkOf
  <2> QED
    BY <2>2 DEF ArrayEntry, PlannedLayer
<1> HIDE DEF Entry, Class
<1>4. S = WholeEntries
  BY <1>3 DEF WholeEntries
<1> QED
  BY <1>2, <1>4

(* The entries of the tasks, together and apart. *)
LEMMA EntriesByTasks ==
  ASSUME arr \in Arrays
  PROVE  /\ \A e \in WholeEntries : \E t \in Tasks : e \in ShareEntries(t)
         /\ \A t \in Tasks : ShareEntries(t) \subseteq WholeEntries
         /\ \A t, u \in Tasks : t < u =>
              \A d \in ShareEntries(t), e \in ShareEntries(u) : d.chunk < e.chunk
         /\ Placed(WholeEntries)
<1>1. /\ \A b \in Whole : TaskOf(b) \in Tasks
      /\ \A t \in Tasks : ShareOf(t) = {b \in Whole : TaskOf(b) = t}
  BY SharesSplit
<1>2. \A e \in WholeEntries : \E t \in Tasks : e \in ShareEntries(t)
  BY <1>1 DEF WholeEntries, ShareEntries
<1>3. \A t \in Tasks : ShareEntries(t) \subseteq WholeEntries
  BY <1>1 DEF WholeEntries, ShareEntries
<1>4. ASSUME NEW t \in Tasks, NEW u \in Tasks, t < u,
             NEW d \in ShareEntries(t), NEW e \in ShareEntries(u)
      PROVE  d.chunk < e.chunk
  <2>1. PICK a \in ShareOf(t) : d = ArrayEntry(a)
    BY DEF ShareEntries
  <2>2. PICK b \in ShareOf(u) : e = ArrayEntry(b)
    BY DEF ShareEntries
  <2>3. a \in Whole /\ b \in Whole /\ TaskOf(a) < TaskOf(b)
    BY <1>1, <1>4
  <2>4. ArrayEntry(a).chunk < ArrayEntry(b).chunk
    BY <2>3, ChunksInOrder
  <2> QED
    BY <2>1, <2>2, <2>4
<1>5. Placed(WholeEntries)
  <2> DEFINE S == {ArrayEntry(b) : b \in Whole}
             f == [b \in Whole |-> ArrayEntry(b)]
  <2>1. f \in Surjection(Whole, S)
    BY DEF Surjection
  <2>2. IsFiniteSet(S)
    <3> HIDE DEF f, S
    <3> QED
      BY <2>1, WholeFinite, FS_Surjection
  <2>3. WholeEntries \in SUBSET S
    BY DEF WholeEntries
  <2>4. IsFiniteSet(WholeEntries)
    <3> HIDE DEF S
    <3> QED
      BY <2>2, <2>3, FS_Subset
  <2>5. \A a, b \in Whole : ArrayEntry(a).chunk = ArrayEntry(b).chunk
                            /\ ArrayEntry(a).block = ArrayEntry(b).block => a = b
    BY EntriesApart
  <2>6. \A b \in Whole : ArrayEntry(b).chunk \in Int /\ ArrayEntry(b).block \in Int
    BY EntryFacts
  <2> QED
    BY <2>3, <2>4, <2>5, <2>6 DEF Placed
<1> QED
  BY <1>2, <1>3, <1>4, <1>5

(* A part of a list has its places apart, too. *)
LEMMA PlacedPart ==
  ASSUME NEW S, Placed(S), NEW T \in SUBSET S
  PROVE  Placed(T)
<1>1. IsFiniteSet(T)
  BY FS_Subset DEF Placed
<1> QED
  BY <1>1 DEF Placed

(* The tasks are numbered from zero. *)
LEMMA TasksNumbered ==
  ASSUME arr \in Arrays
  PROVE  /\ Cardinality(Tasks) \in Nat \ {0}
         /\ Tasks = 0 .. Cardinality(Tasks) - 1
<1>1. CASE ~Pipelined
  <2>1. Tasks = {0} /\ Tasks = 0 .. 1 - 1
    BY <1>1 DEF Tasks
  <2>2. Cardinality(Tasks) = 1
    BY <2>1, FS_Singleton
  <2> QED
    BY <2>1, <2>2
<1>2. CASE Pipelined
  <2> DEFINE m == grid[1] + tChunk - 1
             q == nObjects
  <2>1. tChunk \in Nat \ {0} /\ grid[1] \in Nat \ {0}
    <3>1. arr.tChunk \in (Nat \ {0}) \cup {None}
      BY ArraysAssumption
    <3> QED
      BY <3>1, Sides DEF tChunk, ByKey
  <2>2. m \in Nat /\ 1 * tChunk <= m
    BY <2>1
  <2>3. q = m \div tChunk
    BY DEF nObjects
  <2> HIDE DEF m
  <2>4. 1 <= m \div tChunk
    BY <2>1, <2>2, DivisionOrder
  <2>5. m \div tChunk \in Nat
    BY <2>1, <2>2, DivisionOf
  <2>6. q \in Nat \ {0}
    BY <2>3, <2>4, <2>5
  <2>7. Tasks = 0 .. q - 1
    BY <1>2 DEF Tasks, Objects
  <2> HIDE DEF q
  <2>8. Cardinality(0 .. q - 1) = q
    BY <2>6, FS_Interval
  <2> QED
    BY <2>6, <2>7, <2>8
<1> QED
  BY <1>1, <1>2

(* The tasks' lists, one after the other, are the whole array's list. *)
LEMMA ListsOfTasks ==
  ASSUME arr \in Arrays, \A t \in Tasks : plans[t].blocks = InOrder(ShareEntries(t))
  PROVE  ReadBlocks = InOrder(WholeEntries)
<1> DEFINE n == Cardinality(Tasks)
           N == 1 .. n
           seqs == [k \in N |-> plans[k - 1].blocks]
           Upto(i) == {e \in WholeEntries : \E t \in Tasks : t < i /\ e \in ShareEntries(t)}
           h == [i \in N |-> InOrder(Upto(i))]
<1>1. n \in Nat \ {0} /\ Tasks = 0 .. n - 1
  BY TasksNumbered
<1>2. /\ \A e \in WholeEntries : \E t \in Tasks : e \in ShareEntries(t)
      /\ \A t \in Tasks : ShareEntries(t) \subseteq WholeEntries
      /\ \A t, u \in Tasks : t < u =>
           \A d \in ShareEntries(t), e \in ShareEntries(u) : d.chunk < e.chunk
      /\ Placed(WholeEntries)
  BY EntriesByTasks
<1>3. ReadBlocks = FlattenSeq(seqs)
  BY DEF ReadBlocks
<1> HIDE DEF n
<1>4. \A k \in N : k - 1 \in Tasks /\ seqs[k] = InOrder(ShareEntries(k - 1))
  BY <1>1
<1>5. Len(seqs) = n
  <2> DEFINE X == {seqs[k] : k \in N}
  <2>1. seqs \in [1 .. n -> X] /\ n \in Nat
    BY <1>1
  <2> HIDE DEF seqs, X
  <2>2. seqs \in Seq(X) /\ DOMAIN seqs = 1 .. n
    BY <2>1
  <2>3. Len(seqs) \in Nat /\ 1 .. Len(seqs) = 1 .. n
    BY <2>2
  <2> DEFINE m == Len(seqs)
  <2> HIDE DEF m
  <2>4. m = n
    BY <1>1, <2>3 DEF m
  <2> QED
    BY <2>4 DEF m
<1>6. \A i \in N : Placed(Upto(i)) /\ Placed(ShareEntries(i - 1))
  <2> SUFFICES ASSUME NEW i \in N PROVE Placed(Upto(i)) /\ Placed(ShareEntries(i - 1))
    OBVIOUS
  <2>1. Upto(i) \in SUBSET WholeEntries
    OBVIOUS
  <2>2. ShareEntries(i - 1) \in SUBSET WholeEntries
    BY <1>2, <1>4
  <2> HIDE DEF Upto
  <2> QED
    BY <1>2, <2>1, <2>2, PlacedPart
<1> HIDE DEF seqs
<1>7. Upto(1) = ShareEntries(0)
  <2>1. \A t \in Tasks : t < 1 <=> t = 0
    BY <1>1
  <2>2. 0 \in Tasks
    BY <1>1
  <2> QED
    BY <1>2, <2>1, <2>2
<1>8. ASSUME NEW i \in N, i # 1
      PROVE  /\ i - 1 \in N /\ Upto(i) = Upto(i - 1) \cup ShareEntries(i - 1)
             /\ \A a \in Upto(i - 1), b \in ShareEntries(i - 1) : Before(a, b)
  <2>1. i - 1 \in N /\ i - 1 \in Tasks
    BY <1>1, <1>4, <1>8
  <2>2. \A t \in Tasks : t < i <=> t < i - 1 \/ t = i - 1
    BY <1>1, <2>1
  <2>3. Upto(i) = Upto(i - 1) \cup ShareEntries(i - 1)
    BY <1>2, <2>1, <2>2
  <2>4. \A a \in Upto(i - 1), b \in ShareEntries(i - 1) : Before(a, b)
    BY <1>2, <2>1 DEF Before
  <2> QED
    BY <2>1, <2>3, <2>4
<1> HIDE DEF Upto
<1>9. ASSUME NEW i \in N
      PROVE  /\ i = 1 => InOrder(Upto(i)) = seqs[i]
             /\ i # 1 => InOrder(Upto(i)) = InOrder(Upto(i - 1)) \o seqs[i]
  <2>1. i = 1 => InOrder(Upto(i)) = seqs[i]
    <3>1. i = 1 => i - 1 = 0
      OBVIOUS
    <3> QED
      BY <1>4, <1>7, <3>1
  <2>2. CASE i # 1
    <3> DEFINE A == Upto(i - 1)
               B == ShareEntries(i - 1)
    <3>1. Upto(i) = A \cup B /\ i - 1 \in N /\ \A a \in A, b \in B : Before(a, b)
      BY <1>8, <2>2
    <3>2. Placed(A) /\ Placed(B) /\ Placed(A \cup B)
      BY <1>6, <3>1
    <3>3. seqs[i] = InOrder(B)
      BY <1>4
    <3> HIDE DEF A, B
    <3>4. InOrder(A \cup B) = InOrder(A) \o InOrder(B)
      BY <3>1, <3>2, ListsJoined
    <3>5. InOrder(Upto(i)) = InOrder(A) \o seqs[i]
      BY <3>1, <3>3, <3>4, Zenon
    <3> QED
      BY <2>2, <3>5 DEF A
  <2> QED
    BY <2>1, <2>2
<1>10. Flattens(seqs, h)
  <2> DEFINE k == [i \in N |-> IF i = 1 THEN seqs[i] ELSE h[i - 1] \o seqs[i]]
  <2>1. ASSUME NEW i \in N PROVE h[i] = k[i]
    <3>1. h[i] = InOrder(Upto(i))
      OBVIOUS
    <3>2. i # 1 => h[i - 1] = InOrder(Upto(i - 1))
      BY <1>8
    <3> HIDE DEF h
    <3>3. k[i] = IF i = 1 THEN seqs[i] ELSE h[i - 1] \o seqs[i]
      OBVIOUS
    <3> QED
      BY <1>9, <3>1, <3>2, <3>3, Zenon
  <2>2. h = k
    BY <2>1, Zenon
  <2> HIDE DEF h
  <2> QED
    BY <1>5, <2>2, Zenon DEF Flattens
<1>11. h[n] = InOrder(Upto(n)) /\ n \in N
  BY <1>1
<1> HIDE DEF h
<1>12. FlattenSeq(seqs) = h[n]
  <2>1. Len(seqs) \in Nat \ {0}
    BY <1>1, <1>5
  <2>2. FlattenSeq(seqs) = h[Len(seqs)]
    BY <1>10, <2>1, Flattened
  <2> QED
    BY <1>5, <2>2
<1>13. Upto(n) = WholeEntries
  <2>1. \A t \in Tasks : t < n
    BY <1>1
  <2> QED
    BY <1>2, <2>1 DEF Upto
<1> QED
  BY <1>3, <1>11, <1>12, <1>13

-----------------------------------------------------------------------------
(* The reads of the tasks *)

(* No read of one task would be put together with one of another. *)
LEMMA EndsByTasks ==
  ASSUME arr \in Arrays, NEW t \in Tasks, NEW e \in ShareEntries(t)
  PROVE  /\ e \in Firsts(WholeEntries) <=> e \in Firsts(ShareEntries(t))
         /\ e \in Lasts(WholeEntries) <=> e \in Lasts(ShareEntries(t))
<1>1. /\ \A d \in WholeEntries : \E u \in Tasks : d \in ShareEntries(u)
      /\ \A u \in Tasks : ShareEntries(u) \subseteq WholeEntries
      /\ \A u, v \in Tasks : u < v =>
           \A c \in ShareEntries(u), d \in ShareEntries(v) : c.chunk < d.chunk
      /\ Placed(WholeEntries)
  BY EntriesByTasks
<1>2. Tasks \subseteq Int
  <2>1. Cardinality(Tasks) \in Nat \ {0} /\ Tasks = 0 .. Cardinality(Tasks) - 1
    BY TasksNumbered
  <2> QED
    BY <2>1
<1>3. ASSUME NEW d \in WholeEntries, d.chunk = e.chunk PROVE d \in ShareEntries(t)
  <2>1. PICK u \in Tasks : d \in ShareEntries(u)
    BY <1>1
  <2>2. d.chunk \in Int /\ e.chunk \in Int
    BY <1>1 DEF Placed
  <2>3. ~(u < t) /\ ~(t < u)
    BY <1>1, <1>3, <2>1, <2>2
  <2>4. u = t
    BY <1>2, <2>3
  <2> QED
    BY <2>1, <2>4
<1>4. \A d : Near(d, e) \/ Near(e, d) => d.chunk = e.chunk
  BY DEF Near
<1>5. e \in WholeEntries
  BY <1>1
<1>6. e \in Firsts(WholeEntries) <=> e \in Firsts(ShareEntries(t))
  BY <1>1, <1>3, <1>4, <1>5 DEF Firsts
<1>7. e \in Lasts(WholeEntries) <=> e \in Lasts(ShareEntries(t))
  BY <1>1, <1>3, <1>4, <1>5 DEF Lasts
<1> QED
  BY <1>6, <1>7

(* The reads of all tasks start and end where the reads of one plan of the *)
(* whole array do.                                                         *)
LEMMA ReadsOfTasks ==
  ASSUME arr \in Arrays, opts.merge_gap_blocks \in Nat,
         \A t \in Tasks : plans[t].blocks = InOrder(ShareEntries(t)),
         NEW R, R = UNION {Reads(t) : t \in Tasks}
  PROVE  /\ [q \in R |-> plans[q.task].blocks[q.from]] \in Bijection(R, Firsts(WholeEntries))
         /\ [q \in R |-> plans[q.task].blocks[q.to]] \in Bijection(R, Lasts(WholeEntries))
<1> DEFINE L(t) == InOrder(ShareEntries(t))
           M(t) == Merged(L(t))
           f == [q \in R |-> plans[q.task].blocks[q.from]]
           g == [q \in R |-> plans[q.task].blocks[q.to]]
<1>1. /\ \A d \in WholeEntries : \E u \in Tasks : d \in ShareEntries(u)
      /\ \A u \in Tasks : ShareEntries(u) \subseteq WholeEntries
      /\ \A u, v \in Tasks : u < v =>
           \A c \in ShareEntries(u), d \in ShareEntries(v) : c.chunk < d.chunk
      /\ Placed(WholeEntries)
  BY EntriesByTasks
<1>2. \A t \in Tasks : Reads(t) = {[task |-> t, from |-> r.from, to |-> r.to] : r \in M(t)}
  BY DEF Reads
<1>3. \A t \in Tasks : /\ [r \in M(t) |-> L(t)[r.from]] \in Bijection(M(t), Firsts(ShareEntries(t)))
                       /\ [r \in M(t) |-> L(t)[r.to]] \in Bijection(M(t), Lasts(ShareEntries(t)))
  <2> SUFFICES ASSUME NEW t \in Tasks
               PROVE  /\ [r \in M(t) |-> L(t)[r.from]] \in Bijection(M(t), Firsts(ShareEntries(t)))
                      /\ [r \in M(t) |-> L(t)[r.to]] \in Bijection(M(t), Lasts(ShareEntries(t)))
    OBVIOUS
  <2>1. Placed(ShareEntries(t))
    BY SharePlaced
  <2> QED
    BY <2>1, ReadsByEnds
<1>4. \A t \in Tasks :
        /\ \A r \in M(t) : /\ L(t)[r.from] \in Firsts(ShareEntries(t))
                           /\ L(t)[r.to] \in Lasts(ShareEntries(t))
        /\ \A q, r \in M(t) : L(t)[q.from] = L(t)[r.from] \/ L(t)[q.to] = L(t)[r.to] => q = r
        /\ \A e \in Firsts(ShareEntries(t)) : \E r \in M(t) : L(t)[r.from] = e
        /\ \A e \in Lasts(ShareEntries(t)) : \E r \in M(t) : L(t)[r.to] = e
  <2> SUFFICES ASSUME NEW t \in Tasks
      PROVE
        /\ \A r \in M(t) : /\ L(t)[r.from] \in Firsts(ShareEntries(t))
                           /\ L(t)[r.to] \in Lasts(ShareEntries(t))
        /\ \A q, r \in M(t) : L(t)[q.from] = L(t)[r.from] \/ L(t)[q.to] = L(t)[r.to] => q = r
        /\ \A e \in Firsts(ShareEntries(t)) : \E r \in M(t) : L(t)[r.from] = e
        /\ \A e \in Lasts(ShareEntries(t)) : \E r \in M(t) : L(t)[r.to] = e
    OBVIOUS
  <2> DEFINE mt == M(t)
             lt == L(t)
             A == Firsts(ShareEntries(t))
             B == Lasts(ShareEntries(t))
             ff == [r \in mt |-> lt[r.from]]
             gg == [r \in mt |-> lt[r.to]]
  <2>1. ff \in Bijection(mt, A) /\ gg \in Bijection(mt, B)
    BY <1>3
  <2> HIDE DEF mt, lt, A, B, M, L
  <2>2. \A r \in mt : ff[r] = lt[r.from] /\ gg[r] = lt[r.to]
    OBVIOUS
  <2> HIDE DEF ff, gg
  <2>3. /\ \A r \in mt : ff[r] \in A /\ gg[r] \in B
        /\ \A q, r \in mt : ff[q] = ff[r] \/ gg[q] = gg[r] => q = r
        /\ \A e \in A : \E r \in mt : ff[r] = e
        /\ \A e \in B : \E r \in mt : gg[r] = e
    BY <2>1 DEF Bijection, Injection, Surjection, IsInjective
  <2> QED
    BY <2>2, <2>3 DEF mt, lt, A, B
<1> HIDE DEF L, M
<1>5. ASSUME NEW q \in R
      PROVE  \E t \in Tasks : \E r \in M(t) :
                /\ q = [task |-> t, from |-> r.from, to |-> r.to]
                /\ f[q] = L(t)[r.from] /\ g[q] = L(t)[r.to]
  <2>1. PICK t \in Tasks : q \in Reads(t)
    OBVIOUS
  <2>2. PICK r \in M(t) : q = [task |-> t, from |-> r.from, to |-> r.to]
    BY <1>2, <2>1
  <2>3. q.task = t /\ q.from = r.from /\ q.to = r.to
    BY <2>2
  <2>4. plans[t].blocks = L(t)
    BY DEF L
  <2> QED
    BY <2>2, <2>3, <2>4
<1>6. ASSUME NEW t \in Tasks, NEW r \in M(t)
      PROVE  \E q \in R : f[q] = L(t)[r.from] /\ g[q] = L(t)[r.to]
  <2> DEFINE q == [task |-> t, from |-> r.from, to |-> r.to]
  <2>1. q \in R
    BY <1>2
  <2>2. q.task = t /\ q.from = r.from /\ q.to = r.to
    OBVIOUS
  <2>3. plans[t].blocks = L(t)
    BY DEF L
  <2> HIDE DEF q
  <2> QED
    BY <2>1, <2>2, <2>3
<1>7. f = [q \in R |-> f[q]] /\ g = [q \in R |-> g[q]]
  OBVIOUS
<1>8. \A t \in Tasks : \A e \in ShareEntries(t) :
         /\ e \in Firsts(WholeEntries) <=> e \in Firsts(ShareEntries(t))
         /\ e \in Lasts(WholeEntries) <=> e \in Lasts(ShareEntries(t))
  BY EndsByTasks
<1>9. \A S : Firsts(S) \subseteq S /\ Lasts(S) \subseteq S
  BY DEF Firsts, Lasts
<1>10. \A t, u \in Tasks : \A e : e \in ShareEntries(t) /\ e \in ShareEntries(u) => t = u
  <2>1. Tasks \subseteq Int
    <3>1. Cardinality(Tasks) \in Nat \ {0} /\ Tasks = 0 .. Cardinality(Tasks) - 1
      BY TasksNumbered
    <3> QED
      BY <3>1
  <2>2. \A e \in WholeEntries : e.chunk \in Int
    BY <1>1 DEF Placed
  <2> QED
    BY <1>1, <2>1, <2>2
<1> HIDE DEF f, g
<1>11. f \in Bijection(R, Firsts(WholeEntries))
  <2>1. \A q \in R : f[q] \in Firsts(WholeEntries)
    BY <1>4, <1>5, <1>8, <1>9
  <2>2. ASSUME NEW p \in R, NEW q \in R, f[p] = f[q] PROVE p = q
    <3>1. PICK t \in Tasks : \E r \in M(t) : p = [task |-> t, from |-> r.from, to |-> r.to]
                                              /\ f[p] = L(t)[r.from]
      BY <1>5
    <3>2. PICK u \in Tasks : \E r \in M(u) : q = [task |-> u, from |-> r.from, to |-> r.to]
                                              /\ f[q] = L(u)[r.from]
      BY <1>5
    <3>3. f[p] \in ShareEntries(t) /\ f[p] \in ShareEntries(u)
      BY <1>4, <1>9, <2>2, <3>1, <3>2
    <3>4. t = u
      BY <1>10, <3>3
    <3> QED
      BY <1>4, <2>2, <3>1, <3>2, <3>4
  <2>3. ASSUME NEW e \in Firsts(WholeEntries) PROVE \E q \in R : f[q] = e
    <3>1. PICK t \in Tasks : e \in ShareEntries(t)
      BY <1>1, <1>9
    <3>2. e \in Firsts(ShareEntries(t))
      BY <1>8, <3>1
    <3>3. PICK r \in M(t) : L(t)[r.from] = e
      BY <1>4, <3>2
    <3> QED
      BY <1>6, <3>3
  <2>4. f \in [R -> Firsts(WholeEntries)]
    BY <1>7, <2>1
  <2> QED
    BY <2>2, <2>3, <2>4 DEF Bijection, Injection, Surjection, IsInjective
<1>12. g \in Bijection(R, Lasts(WholeEntries))
  <2>1. \A q \in R : g[q] \in Lasts(WholeEntries)
    BY <1>4, <1>5, <1>8, <1>9
  <2>2. ASSUME NEW p \in R, NEW q \in R, g[p] = g[q] PROVE p = q
    <3>1. PICK t \in Tasks : \E r \in M(t) : p = [task |-> t, from |-> r.from, to |-> r.to]
                                              /\ g[p] = L(t)[r.to]
      BY <1>5
    <3>2. PICK u \in Tasks : \E r \in M(u) : q = [task |-> u, from |-> r.from, to |-> r.to]
                                              /\ g[q] = L(u)[r.to]
      BY <1>5
    <3>3. g[p] \in ShareEntries(t) /\ g[p] \in ShareEntries(u)
      BY <1>4, <1>9, <2>2, <3>1, <3>2
    <3>4. t = u
      BY <1>10, <3>3
    <3> QED
      BY <1>4, <2>2, <3>1, <3>2, <3>4
  <2>3. ASSUME NEW e \in Lasts(WholeEntries) PROVE \E q \in R : g[q] = e
    <3>1. PICK t \in Tasks : e \in ShareEntries(t)
      BY <1>1, <1>9
    <3>2. e \in Lasts(ShareEntries(t))
      BY <1>8, <3>1
    <3>3. PICK r \in M(t) : L(t)[r.to] = e
      BY <1>4, <3>2
    <3> QED
      BY <1>6, <3>3
  <2>4. g \in [R -> Lasts(WholeEntries)]
    BY <1>7, <2>1
  <2> QED
    BY <2>2, <2>3, <2>4 DEF Bijection, Injection, Surjection, IsInjective
<1> QED
  BY <1>11, <1>12 DEF f, g

(* Reads given by the entry they start and the entry they end at: how many *)
(* there are, and what they span.                                          *)
LEMMA ReadsByTheirEnds ==
  ASSUME NEW S, Placed(S), NEW M,
         NEW f \in Bijection(M, Firsts(S)), NEW g \in Bijection(M, Lasts(S)),
         NEW s, \A r \in M : s[r] = g[r].block - f[r].block + 1
  PROVE  /\ Cardinality(M) = Cardinality(Firsts(S))
         /\ SumOf(s, M) = SumOf([e \in Lasts(S) |-> e.block + 1], Lasts(S))
                            + SumOf([e \in Firsts(S) |-> -e.block], Firsts(S))
<1> DEFINE A == Firsts(S)
           B == Lasts(S)
           a == [e \in A |-> -e.block]
           b == [e \in B |-> e.block + 1]
           fa == [r \in M |-> a[f[r]]]
           gb == [r \in M |-> b[g[r]]]
<1>1. A \in SUBSET S /\ B \in SUBSET S
  BY DEF Firsts, Lasts
<1>2. IsFiniteSet(A)
  <2> HIDE DEF A
  <2> QED
    BY <1>1, FS_Subset DEF Placed
<1>3. \A e \in A : e.block \in Int
  BY <1>1 DEF Placed
<1>4. \A e \in B : e.block \in Int
  BY <1>1 DEF Placed
<1>5. f \in Bijection(M, A) /\ g \in Bijection(M, B)
  OBVIOUS
<1> HIDE DEF A, B
<1>6. IsFiniteSet(M) /\ Cardinality(M) = Cardinality(A)
  <2>1. IsFiniteSet(M)
    <3>1. f \in Injection(M, A)
      BY <1>5 DEF Bijection
    <3> QED
      BY <1>2, <3>1, FS_Injection
  <2> QED
    BY <1>5, <2>1, AsMany
<1>7. \A r \in M : f[r] \in A /\ g[r] \in B
  BY <1>5 DEF Bijection, Injection
<1>8. Integers(a, A) /\ Integers(b, B)
  BY <1>3, <1>4 DEF Integers
<1>9. Integers(fa, M) /\ Integers(gb, M)
  BY <1>7, <1>8 DEF Integers
<1>10. SumOf(fa, M) = SumOf(a, A)
  <2>1. \A r \in M : fa[r] = a[f[r]]
    OBVIOUS
  <2> HIDE DEF fa, a
  <2> QED
    BY <1>5, <1>6, <1>8, <2>1, SumMatched
<1>11. SumOf(gb, M) = SumOf(b, B)
  <2>1. \A r \in M : gb[r] = b[g[r]]
    OBVIOUS
  <2> HIDE DEF gb, b
  <2> QED
    BY <1>5, <1>6, <1>8, <2>1, SumMatched
<1>12. \A r \in M : s[r] = gb[r] + fa[r]
  <2> SUFFICES ASSUME NEW r \in M PROVE s[r] = gb[r] + fa[r]
    OBVIOUS
  <2>1. fa[r] = -f[r].block /\ gb[r] = g[r].block + 1
    BY <1>7
  <2>2. f[r].block \in Int /\ g[r].block \in Int
    BY <1>3, <1>4, <1>7
  <2>3. s[r] = g[r].block - f[r].block + 1
    OBVIOUS
  <2> DEFINE i == f[r].block
             j == g[r].block
  <2>4. i \in Int /\ j \in Int /\ fa[r] = -i /\ gb[r] = j + 1 /\ s[r] = j - i + 1
    BY <2>1, <2>2, <2>3
  <2> HIDE DEF i, j, fa, gb
  <2> QED
    BY <2>4
<1> HIDE DEF fa, gb
<1>13. SumOf(s, M) = SumOf(gb, M) + SumOf(fa, M)
  BY <1>6, <1>9, <1>12, SumAdds
<1> QED
  BY <1>6, <1>10, <1>11, <1>13 DEF A, B, a, b

(* The lists of the tasks that are planned are their shares. *)
LEMMA SharesOfPlans ==
  ASSUME arr \in Arrays, TasksPlanned
  PROVE  SharesPlanned
<1> SUFFICES ASSUME NEW t \in DOMAIN plans
             PROVE  plans[t].blocks =
                      InOrder({e \in {ArrayEntry(b) : b \in ShareOf(t)} : e.state \in Listed})
  BY DEF SharesPlanned
<1>1. plans[t].blocks = InOrder(ShareEntries(t))
  BY TaskPlan
<1> QED
  BY <1>1 DEF ShareEntries

(* The reads a finished query of one layer took are as many, and span as   *)
(* much, as those of one plan of the whole array.                          *)
LEMMA ReadsAsOne ==
  ASSUME QueryInv, pc = "done", NEW whole, whole = PlanOf(arr.units, grid[1], 0).blocks
  PROVE  /\ result.read_blocks = whole
         /\ result.payload_requests = Cardinality(Merged(whole))
         /\ result.payload_blocks =
              SumFunction([r \in Merged(whole) |-> whole[r.to].block - whole[r.from].block + 1])
<1> DEFINE R == UNION {Reads(t) : t \in Tasks}
           W == WholeEntries
           f == [q \in R |-> plans[q.task].blocks[q.from]]
           g == [q \in R |-> plans[q.task].blocks[q.to]]
           s == [q \in R |-> Span(q)]
           M == Merged(whole)
           x == [r \in M |-> whole[r.from]]
           y == [r \in M |-> whole[r.to]]
           z == [r \in M |-> whole[r.to].block - whole[r.from].block + 1]
<1>1. /\ arr \in Arrays /\ opts.merge_gap_blocks \in Nat
      /\ DOMAIN plans = Tasks /\ TasksPlanned
      /\ ReadsCounted = R /\ result = Result
  BY DoneFacts DEF QueryInv
<1>2. \A t \in Tasks : plans[t].blocks = InOrder(ShareEntries(t))
  BY <1>1, TaskPlan
<1>3. whole = InOrder(W) /\ Placed(W)
  BY <1>1, WholePlan, EntriesByTasks
<1>4. result.read_blocks = whole
  <2>1. ReadBlocks = InOrder(W)
    BY <1>1, <1>2, ListsOfTasks
  <2>2. result.read_blocks = ReadBlocks
    BY <1>1 DEF Result
  <2> QED
    BY <1>3, <2>1, <2>2
<1>5. f \in Bijection(R, Firsts(W)) /\ g \in Bijection(R, Lasts(W))
  BY <1>1, <1>2, ReadsOfTasks
<1>6. x \in Bijection(M, Firsts(W)) /\ y \in Bijection(M, Lasts(W))
  BY <1>1, <1>3, ReadsByEnds
<1>7. \A q \in R : s[q] = g[q].block - f[q].block + 1
  BY DEF Span
<1>8. \A r \in M : z[r] = y[r].block - x[r].block + 1
  OBVIOUS
<1>9. /\ result.payload_requests = Cardinality(R)
      /\ result.payload_blocks = SumFunction(s)
  BY <1>1 DEF Result
<1>10. SumFunction(s) = SumOf(s, R) /\ SumFunction(z) = SumOf(z, M)
  BY DEF SumFunction, SumOf
<1> DEFINE total == SumOf([e \in Lasts(W) |-> e.block + 1], Lasts(W))
                      + SumOf([e \in Firsts(W) |-> -e.block], Firsts(W))
<1>11. Cardinality(R) = Cardinality(Firsts(W)) /\ SumOf(s, R) = total
  <2> HIDE DEF R, W, f, g, s
  <2> QED
    BY <1>3, <1>5, <1>7, ReadsByTheirEnds
<1>12. Cardinality(M) = Cardinality(Firsts(W)) /\ SumOf(z, M) = total
  <2> HIDE DEF M, W, x, y, z
  <2> QED
    BY <1>3, <1>6, <1>8, ReadsByTheirEnds
<1> HIDE DEF R, W, s, total
<1> QED
  BY <1>4, <1>9, <1>10, <1>11, <1>12

(* For every array, grid, chunk shape and object size, in whatever order   *)
(* objects and reads arrive, the pipeline is not visible in what a query   *)
(* reports: every task lists its share of the array by the array's chunk   *)
(* numbers, and the blocks a query of one layer read, in their order, its  *)
(* requests and the bytes they spanned are those of one plan of the whole. *)
THEOREM PipelineNeverVisible == Spec => []PipelineInvisible
<1>1. QueryInv => PipelineInvisible
  <2> SUFFICES ASSUME QueryInv PROVE PipelineInvisible
    OBVIOUS
  <2>1. SharesPlanned
    BY SharesOfPlans DEF QueryInv, Fixed
  <2>2. ASSUME pc = "done"
        PROVE  LET whole == PlanOf(arr.units, grid[1], 0).blocks
               IN  /\ result.read_blocks = whole
                   /\ result.payload_requests = Cardinality(Merged(whole))
                   /\ result.payload_blocks =
                        SumFunction([r \in Merged(whole) |->
                                       whole[r.to].block - whole[r.from].block + 1])
    <3> DEFINE whole == PlanOf(arr.units, grid[1], 0).blocks
    <3>1. whole = PlanOf(arr.units, grid[1], 0).blocks
      OBVIOUS
    <3> HIDE DEF whole
    <3>2. /\ result.read_blocks = whole
          /\ result.payload_requests = Cardinality(Merged(whole))
          /\ result.payload_blocks =
               SumFunction([r \in Merged(whole) |-> whole[r.to].block - whole[r.from].block + 1])
      BY <2>2, <3>1, ReadsAsOne
    <3> QED
      BY <3>2 DEF whole
  <2> QED
    BY <2>1, <2>2 DEF PipelineInvisible
<1> QED
  BY <1>1, QueryInvariant, PTL
=============================================================================
