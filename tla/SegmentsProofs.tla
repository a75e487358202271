--------------------------- MODULE SegmentsProofs ---------------------------
(***************************************************************************)
(* Proofs about Segments: what the inside of a segment is after any number *)
(* of appends, short writes, restarts and passes of retention, that reads  *)
(* through the sparse index find what a full scan finds, and that a pass   *)
(* of retention deletes what the policy says and leaves nothing to do.     *)
(*                                                                         *)
(* The sums, the kept segments and the index are computed by loops in the  *)
(* code and by recursive functions in the model.  The first section shows  *)
(* that such a function exists and that two of them agree as far as their  *)
(* steps agree, by taking the least number at which they would not; the    *)
(* second unrolls the three of the model by one step; the rest of the      *)
(* module reasons about these steps only.                                  *)
(***************************************************************************)
EXTENDS Segments, FiniteSetTheorems, NaturalsInduction, WellFoundedInduction,
        TLAPS

-----------------------------------------------------------------------------
(* Induction and recursion over an initial segment of the naturals.        *)

(* Every non-empty set of naturals has a least element.                    *)
LEMMA LeastOf ==
    ASSUME NEW S \in SUBSET Nat, S # {}
    PROVE  \E n \in S : \A m \in S : n <= m
<1> DEFINE R == OpToRel(<, Nat)
<1>1. IsWellFoundedOn(R, Nat)
  BY NatLessThanWellFounded, Zenon
<1>2. \A x, y \in Nat : y < x => <<y, x>> \in R
  BY DEF OpToRel
<1> HIDE DEF R
<1>3. PICK x \in S : \A y \in S : <<y, x>> \notin R
  BY <1>1, WFMin
<1>4. \A y \in S : ~ (y < x)
  BY <1>2, <1>3, Zenon
<1> QED
  BY <1>4

(* A set that holds 0 and passes from k to k + 1 below n holds 0..n.       *)
LEMMA Climb ==
    ASSUME NEW n \in Nat, NEW S,
           0 \in S, \A k \in 0..(n - 1) : k \in S => k + 1 \in S
    PROVE  \A k \in 0..n : k \in S
<1> SUFFICES ASSUME NEW j \in 0..n, j \notin S PROVE FALSE
  OBVIOUS
<1> DEFINE Missing == {k \in 0..n : k \notin S}
<1>1. PICK k \in Missing : \A m \in Missing : k <= m
  <2>1. Missing \in SUBSET Nat /\ Missing # {}
    OBVIOUS
  <2> QED
    BY <2>1, LeastOf, Zenon
<1>2. k \in 0..n /\ k # 0
  BY <1>1
<1>3. k - 1 \in 0..(n - 1) /\ k - 1 \in S
  BY <1>1, <1>2
<1> QED
  BY <1>1, <1>2, <1>3

(* A loop of n rounds that starts from v0 and whose i-th round turns v     *)
(* into step[i, v]; and the values it goes through.                        *)
Loop(V, v0, n, step) ==
    v0 \in V /\ n \in Nat /\ step \in [(1..n) \X V -> V]

Values(V, v0, n, step, f) ==
    /\ f \in [0..n -> V] /\ f[0] = v0
    /\ \A i \in 1..n : f[i] = step[<<i, f[i - 1]>>]

(* Every loop has its values.                                              *)
LEMMA LoopRuns ==
    ASSUME NEW V, NEW v0, NEW n, NEW step, Loop(V, v0, n, step)
    PROVE  \E f : Values(V, v0, n, step, f)
<1> USE DEF Loop
<1> DEFINE Run(k, f) == Values(V, v0, k, step, f)
           Lengths == {k \in 0..n : \E f : Run(k, f)}
<1>1. 0 \in Lengths
  <2>1. Run(0, [i \in 0..0 |-> v0])
    BY DEF Values
  <2>2. 0 \in 0..n
    OBVIOUS
  <2> QED
    BY <2>1, <2>2
<1>2. ASSUME NEW k \in 0..(n - 1), k \in Lengths PROVE k + 1 \in Lengths
  <2>0. PICK f : Run(k, f)
    BY <1>2
  <2>1. /\ f \in [0..k -> V] /\ f[0] = v0
        /\ \A i \in 1..k : f[i] = step[<<i, f[i - 1]>>]
    BY <2>0 DEF Values
  <2> DEFINE g == [i \in 0..(k + 1) |->
                      IF i = k + 1 THEN step[<<k + 1, f[k]>>] ELSE f[i]]
  <2>2. k \in Nat /\ k + 1 \in 1..n /\ f[k] \in V
    BY <2>1
  <2>3. step[<<k + 1, f[k]>>] \in V
    BY <2>2
  <2>4. g \in [0..(k + 1) -> V] /\ g[0] = v0
    BY <2>1, <2>2, <2>3
  <2>5. ASSUME NEW i \in 1..(k + 1) PROVE g[i] = step[<<i, g[i - 1]>>]
    <3>1. CASE i = k + 1
      <4>1. g[k + 1] = step[<<k + 1, f[k]>>]
        BY <2>2
      <4>2. i - 1 = k /\ g[k] = f[k]
        BY <3>1, <2>2
      <4> HIDE DEF g
      <4> QED
        BY <3>1, <4>1, <4>2, Zenon
    <3>2. CASE i # k + 1
      <4>1. i \in 1..k /\ i - 1 \in 0..k
        BY <3>2, <2>2
      <4>2. g[i] = f[i] /\ g[i - 1] = f[i - 1]
        BY <4>1, <2>2
      <4> QED
        BY <4>1, <4>2, <2>1
    <3> QED
      BY <3>1, <3>2
  <2>6. Run(k + 1, g)
    <3> HIDE DEF g
    <3> QED
      BY <2>4, <2>5 DEF Values
  <2> HIDE DEF Run, g
  <2> QED
    BY <2>6, <2>2
<1> HIDE DEF Lengths, Run
<1>3. n \in Lengths
  BY <1>1, <1>2, Climb
<1> QED
  BY <1>3 DEF Lengths, Run

(* Two functions that agree at 0, and at i as soon as they do at i - 1.    *)
Alike(n, f, g) ==
    f[0] = g[0] /\ \A i \in 1..n : f[i - 1] = g[i - 1] => f[i] = g[i]

Equal(n, f, g) == \A i \in 0..n : f[i] = g[i]

(* They agree as far as that holds.                                        *)
LEMMA Agree ==
    ASSUME NEW n \in Nat, NEW f, NEW g, Alike(n, f, g)
    PROVE  Equal(n, f, g)
<1> DEFINE S == {i \in 0..n : f[i] = g[i]}
<1>1. 0 \in S
  BY DEF Alike
<1>2. ASSUME NEW k \in 0..(n - 1), k \in S PROVE k + 1 \in S
  <2>1. k + 1 \in 1..n /\ (k + 1) - 1 = k
    OBVIOUS
  <2> QED
    BY <1>2, <2>1 DEF Alike
<1> HIDE DEF S
<1>3. \A i \in 0..n : i \in S
  BY <1>1, <1>2, Climb
<1> QED
  BY <1>3 DEF S, Equal

-----------------------------------------------------------------------------
(* The three loops of the model.                                           *)

(* Total adds one number a round.                                          *)
LEMMA TotalLoop ==
    ASSUME NEW n \in Nat, NEW ns \in [1..n -> Nat]
    PROVE  \E f \in [0..n -> Nat] :
              /\ f[0] = 0 /\ \A i \in 1..n : f[i] = f[i - 1] + ns[i]
              /\ Total(ns) = f[n]
<1> DEFINE step == [p \in (1..n) \X Nat |-> p[2] + ns[p[1]]]
           Sums(u) == u = [k \in 0..Len(ns) |->
                              IF k = 0 THEN 0 ELSE u[k - 1] + ns[k]]
           U == CHOOSE u : Sums(u)
<1>1. Len(ns) = n
  OBVIOUS
<1>2. step \in [(1..n) \X Nat -> Nat]
  OBVIOUS
<1>3. PICK f \in [0..n -> Nat] :
         f[0] = 0 /\ \A i \in 1..n : f[i] = step[<<i, f[i - 1]>>]
  <2>1. Loop(Nat, 0, n, step)
    BY <1>2 DEF Loop
  <2> HIDE DEF step
  <2>2. PICK f : Values(Nat, 0, n, step, f)
    BY <2>1, LoopRuns
  <2> QED
    BY <2>2 DEF Values
<1>4. \A i \in 1..n : f[i] = f[i - 1] + ns[i]
  <2> TAKE i \in 1..n
  <2>1. f[i - 1] \in Nat
    OBVIOUS
  <2> QED
    BY <1>3, <2>1
<1>5. Sums(f)
  BY <1>1, <1>3, <1>4
<1>6. Sums(U)
  <2> HIDE DEF Sums
  <2> QED
    BY <1>5
<1>7. U[0] = 0 /\ \A i \in 1..n : U[i] = U[i - 1] + ns[i]
  <2> HIDE DEF U
  <2> QED
    BY <1>1, <1>6
<1>8. Equal(n, U, f)
  <2> HIDE DEF U, step
  <2>1. Alike(n, U, f)
    BY <1>3, <1>4, <1>7, Zenon DEF Alike
  <2> QED
    BY <2>1, Agree
<1>9. Total(ns) = U[Len(ns)]
  BY DEF Total
<1> HIDE DEF U
<1>10. Total(ns) = f[n]
  BY <1>1, <1>8, <1>9 DEF Equal
<1> HIDE DEF step
<1> QED
  BY <1>3, <1>4, <1>10, Zenon

(* Total takes its value one element at a time.                            *)
LEMMA TotalSteps ==
    ASSUME NEW n \in Nat, NEW ns \in [1..n -> Nat]
    PROVE  /\ Total(ns) \in Nat
           /\ n = 0 => Total(ns) = 0
           /\ n > 0 => Total(ns)
                         = Total([j \in 1..(n - 1) |-> ns[j]]) + ns[n]
<1>1. PICK f \in [0..n -> Nat] :
         /\ f[0] = 0 /\ \A i \in 1..n : f[i] = f[i - 1] + ns[i]
         /\ Total(ns) = f[n]
  BY TotalLoop
<1>2. Total(ns) \in Nat /\ (n = 0 => Total(ns) = 0)
  BY <1>1
<1>3. ASSUME n > 0
      PROVE  Total(ns) = Total([j \in 1..(n - 1) |-> ns[j]]) + ns[n]
  <2> DEFINE ms == [j \in 1..(n - 1) |-> ns[j]]
  <2>1. n - 1 \in Nat /\ ms \in [1..(n - 1) -> Nat]
    BY <1>3
  <2>2. \A i \in 1..(n - 1) : ms[i] = ns[i]
    OBVIOUS
  <2> HIDE DEF ms
  <2>3. PICK g \in [0..(n - 1) -> Nat] :
           /\ g[0] = 0 /\ \A i \in 1..(n - 1) : g[i] = g[i - 1] + ms[i]
           /\ Total(ms) = g[n - 1]
    BY <2>1, TotalLoop
  <2>4. \A i \in 1..(n - 1) : f[i] = f[i - 1] + ns[i]
    BY <1>1, <1>3
  <2>5. \A i \in 0..(n - 1) : f[i] = g[i]
    <3>1. Alike(n - 1, f, g)
      BY <1>1, <2>2, <2>3, <2>4, Zenon DEF Alike
    <3>2. Equal(n - 1, f, g)
      BY <2>1, <3>1, Agree
    <3> QED
      BY <3>2 DEF Equal
  <2>6. f[n] = f[n - 1] + ns[n] /\ n - 1 \in 0..(n - 1)
    BY <1>1, <1>3
  <2>7. Total(ns) = Total(ms) + ns[n]
    BY <1>1, <2>3, <2>5, <2>6
  <2> QED
    BY <2>7 DEF ms
<1> QED
  BY <1>2, <1>3

(* Picked looks at one element a round.                                    *)
Picking(n, T, s, K, f) ==
    /\ f \in [0..n -> Seq(T)] /\ f[0] = <<>>
    /\ \A i \in 1..n :
          f[i] = IF i \in K THEN Append(f[i - 1], s[i]) ELSE f[i - 1]
    /\ Picked(s, K) = f[n]

(* There are such rounds.                                                  *)
LEMMA PickedLoop ==
    ASSUME NEW n \in Nat, NEW T, NEW s \in [1..n -> T], NEW K
    PROVE  \E f : Picking(n, T, s, K, f)
<1> DEFINE step == [p \in (1..n) \X Seq(T) |->
                       IF p[1] \in K THEN Append(p[2], s[p[1]]) ELSE p[2]]
           Picks(u) == u = [k \in 0..Len(s) |->
                               IF k = 0 THEN <<>>
                               ELSE IF k \in K THEN Append(u[k - 1], s[k])
                               ELSE u[k - 1]]
           U == CHOOSE u : Picks(u)
<1>1. Len(s) = n
  OBVIOUS
<1>2. step \in [(1..n) \X Seq(T) -> Seq(T)] /\ <<>> \in Seq(T)
  OBVIOUS
<1>3. PICK f \in [0..n -> Seq(T)] :
         f[0] = <<>> /\ \A i \in 1..n : f[i] = step[<<i, f[i - 1]>>]
  <2>1. Loop(Seq(T), <<>>, n, step)
    BY <1>2 DEF Loop
  <2> HIDE DEF step
  <2>2. PICK f : Values(Seq(T), <<>>, n, step, f)
    BY <2>1, LoopRuns
  <2> QED
    BY <2>2 DEF Values
<1>4. \A i \in 1..n :
         f[i] = IF i \in K THEN Append(f[i - 1], s[i]) ELSE f[i - 1]
  <2> TAKE i \in 1..n
  <2>1. f[i - 1] \in Seq(T)
    OBVIOUS
  <2>2. <<i, f[i - 1]>> \in (1..n) \X Seq(T)
    BY <2>1
  <2> QED
    BY <1>3, <2>2
<1>5. Picks(f)
  <2>1. \A k \in 0..n : f[k] = IF k = 0 THEN <<>>
                              ELSE IF k \in K THEN Append(f[k - 1], s[k])
                              ELSE f[k - 1]
    <3>1. \A k \in 0..n : k = 0 \/ (k # 0 /\ k \in 1..n)
      OBVIOUS
    <3> HIDE DEF step
    <3> QED
      BY <1>3, <1>4, <3>1, Zenon
  <2>2. f = [k \in 0..n |-> f[k]]
    OBVIOUS
  <2> QED
    BY <1>1, <2>1, <2>2
<1>6. Picks(U)
  <2> HIDE DEF Picks
  <2> QED
    BY <1>5
<1>7. /\ U[0] = <<>>
      /\ \A i \in 1..n :
            U[i] = IF i \in K THEN Append(U[i - 1], s[i]) ELSE U[i - 1]
  <2> HIDE DEF U
  <2>1. \A k \in 0..n : U[k] = IF k = 0 THEN <<>>
                              ELSE IF k \in K THEN Append(U[k - 1], s[k])
                              ELSE U[k - 1]
    BY <1>1, <1>6
  <2>2. 0 \in 0..n /\ \A i \in 1..n : i \in 0..n /\ i # 0
    OBVIOUS
  <2> QED
    BY <2>1, <2>2, Zenon
<1>8. Equal(n, U, f)
  <2> HIDE DEF U, step
  <2>1. Alike(n, U, f)
    BY <1>3, <1>4, <1>7, Zenon DEF Alike
  <2> QED
    BY <2>1, Agree
<1>9. Picked(s, K) = U[Len(s)]
  BY DEF Picked
<1> HIDE DEF U
<1>10. Picked(s, K) = f[n]
  BY <1>1, <1>8, <1>9 DEF Equal
<1> HIDE DEF step
<1>11. Picking(n, T, s, K, f)
  BY <1>3, <1>4, <1>10, Zenon DEF Picking
<1> QED
  BY <1>11

-----------------------------------------------------------------------------
(* Byte positions and the frames found whole.                              *)

(* A file each of whose chunks has a byte, and no more than its frame.     *)
Sized(file) ==
    /\ file \in Seq(Chunk)
    /\ \A j \in DOMAIN file : file[j].has \in 1..file[j].size

(* Two files with the same bytes in their first n chunks.                  *)
Prefixed(n, file, other) == \A j \in 1..n : file[j] = other[j]

(* A chunk begins where the one before it ends.                            *)
LEMMA PositionSteps ==
    ASSUME NEW file, Sized(file)
    PROVE  /\ Position(file, 1) = 0
           /\ \A i \in 1..(Len(file) + 1) : Position(file, i) \in Nat
           /\ \A i \in 1..Len(file) :
                 Position(file, i + 1) = Position(file, i) + file[i].has
<1> DEFINE has(i) == [j \in 1..(i - 1) |-> file[j].has]
<1>1. file \in Seq(Chunk) /\ \A j \in 1..Len(file) : file[j].has \in Nat
  BY DEF Sized, Chunk
<1>2. ASSUME NEW i \in 1..(Len(file) + 1)
      PROVE  i - 1 \in Nat /\ has(i) \in [1..(i - 1) -> Nat]
  BY <1>1, <1>2
<1>3. Position(file, 1) = 0
  <2>1. 1 \in 1..(Len(file) + 1) /\ 1 - 1 = 0
    BY <1>1
  <2>2. 0 \in Nat /\ has(1) \in [1..0 -> Nat]
    BY <1>2, <2>1
  <2> HIDE DEF has
  <2>3. Total(has(1)) = 0
    BY <2>2, TotalSteps
  <2> QED
    BY <2>3 DEF Position, has
<1>4. ASSUME NEW i \in 1..(Len(file) + 1) PROVE Position(file, i) \in Nat
  <2>1. i - 1 \in Nat /\ has(i) \in [1..(i - 1) -> Nat]
    BY <1>2
  <2> HIDE DEF has
  <2>2. Total(has(i)) \in Nat
    BY <2>1, TotalSteps
  <2> QED
    BY <2>2 DEF Position, has
<1>5. ASSUME NEW i \in 1..Len(file)
      PROVE  Position(file, i + 1) = Position(file, i) + file[i].has
  <2>1. i + 1 \in 1..(Len(file) + 1) /\ (i + 1) - 1 = i /\ i \in Nat /\ i > 0
    BY <1>1
  <2>2. has(i + 1) \in [1..i -> Nat]
    BY <1>2, <2>1
  <2>3. /\ [j \in 1..(i - 1) |-> has(i + 1)[j]] = has(i)
        /\ has(i + 1)[i] = file[i].has
    BY <2>1
  <2> HIDE DEF has
  <2>4. Total(has(i + 1))
           = Total([j \in 1..(i - 1) |-> has(i + 1)[j]]) + has(i + 1)[i]
    BY <2>1, <2>2, TotalSteps
  <2>5. Total(has(i + 1)) = Total(has(i)) + file[i].has
    BY <2>3, <2>4
  <2> QED
    BY <2>5 DEF Position, has
<1> QED
  BY <1>3, <1>4, <1>5

(* Where a chunk begins depends on the chunks before it only.              *)
LEMMA PositionSame ==
    ASSUME NEW n \in Nat, NEW file, NEW other, Prefixed(n, file, other)
    PROVE  \A i \in 1..(n + 1) : Position(file, i) = Position(other, i)
<1> TAKE i \in 1..(n + 1)
<1>1. \A j \in 1..(i - 1) : j \in 1..n
  OBVIOUS
<1>2. [j \in 1..(i - 1) |-> file[j].has] = [j \in 1..(i - 1) |-> other[j].has]
  BY <1>1 DEF Prefixed
<1> QED
  BY <1>2 DEF Position

(* Later chunks begin at higher positions.                                 *)
LEMMA PositionGrows ==
    ASSUME NEW file, Sized(file)
    PROVE  \A i, j \in 1..(Len(file) + 1) :
              i < j => Position(file, i) < Position(file, j)
<1> DEFINE n == Len(file)
           Above == {k \in 0..n : \A i \in 1..k :
                        Position(file, i) < Position(file, k + 1)}
<1>1. n \in Nat /\ \A j \in 1..n : file[j].has \in Nat \ {0}
  BY DEF Sized, Chunk
<1>2. 0 \in Above
  BY <1>1
<1>3. ASSUME NEW k \in 0..(n - 1), k \in Above PROVE k + 1 \in Above
  <2>1. k + 1 \in 1..n /\ k + 2 \in 1..(n + 1) /\ k + 1 \in 0..n
    BY <1>1
  <2>2. Position(file, k + 2) = Position(file, k + 1) + file[k + 1].has
    <3>1. (k + 1) + 1 = k + 2
      BY <1>1
    <3> QED
      BY <2>1, <3>1, PositionSteps
  <2>3. /\ Position(file, k + 1) \in Nat /\ Position(file, k + 2) \in Nat
        /\ file[k + 1].has \in Nat \ {0}
    BY <1>1, <2>1, PositionSteps
  <2>4. Position(file, k + 1) < Position(file, k + 2)
    BY <2>2, <2>3
  <2>5. ASSUME NEW i \in 1..(k + 1)
        PROVE  Position(file, i) < Position(file, (k + 1) + 1)
    <3>1. i \in 1..(n + 1) /\ (k + 1) + 1 = k + 2 /\ (i = k + 1 \/ i \in 1..k)
      BY <1>1, <2>1
    <3>2. Position(file, i) \in Nat
      BY <3>1, PositionSteps
    <3>3. i \in 1..k => Position(file, i) < Position(file, k + 1)
      BY <1>3
    <3> QED
      BY <2>3, <2>4, <3>1, <3>2, <3>3
  <2> QED
    BY <2>1, <2>5
<1> HIDE DEF Above
<1>4. \A k \in 0..n : k \in Above
  BY <1>1, <1>2, <1>3, Climb
<1>5. ASSUME NEW i \in 1..(n + 1), NEW j \in 1..(n + 1), i < j
      PROVE  Position(file, i) < Position(file, j)
  <2>1. j - 1 \in 0..n /\ i \in 1..(j - 1) /\ (j - 1) + 1 = j
    BY <1>1, <1>5
  <2> QED
    BY <1>4, <2>1 DEF Above
<1> QED
  BY <1>5

(* The scan stops at the first frame that is not whole.                    *)
LEMMA GoodIs ==
    ASSUME NEW file, Sized(file), NEW r \in 0..Len(file),
           \A j \in 1..r : file[j].has = file[j].size,
           r < Len(file) => file[r + 1].has # file[r + 1].size
    PROVE  Good(file) = r
<1> DEFINE whole == {k \in 0..Len(file) :
                        \A i \in 1..k : Decode(file, i) = "ok"}
<1>1. Len(file) \in Nat
  BY DEF Sized
<1>2. \A i \in 1..r : Decode(file, i) = "ok"
  BY <1>1 DEF Decode
<1>3. r < Len(file) => Decode(file, r + 1) # "ok"
  BY <1>1 DEF Decode
<1>4. r \in whole
  BY <1>2
<1>5. ASSUME NEW k \in whole PROVE k <= r
  <2>1. SUFFICES ASSUME k > r PROVE FALSE
    BY <1>1
  <2>2. r + 1 \in 1..k /\ r < Len(file)
    BY <1>1, <2>1
  <2> QED
    BY <1>3, <2>2
<1>6. Good(file) = CHOOSE k \in whole : \A l \in whole : l <= k
  BY DEF Good
<1>7. \A k \in whole : (\A l \in whole : l <= k) => k = r
  BY <1>1, <1>4, <1>5
<1> HIDE DEF whole
<1> QED
  BY <1>4, <1>5, <1>6, <1>7

-----------------------------------------------------------------------------
(* The index a scan builds.                                                *)

(* What a scan knows, and what it knows after the i-th frame of the file.  *)
Scan == [index : Seq(Entry), last : Nat]

Nothing == [index |-> <<>>, last |-> 0]

Noted(i, at, a) ==
    IF i = 1 \/ at - a.last >= IndexInterval
    THEN [index |-> Append(a.index, [rel |-> i - 1, position |-> at]),
          last |-> at]
    ELSE a

(* A frame adds an entry to what a scan knows, or changes nothing.         *)
LEMMA NotedTyped ==
    ASSUME NEW i \in Nat \ {0}, NEW at \in Nat, NEW a \in Scan
    PROVE  Noted(i, at, a) \in Scan
<1>1. [rel |-> i - 1, position |-> at] \in Entry
  BY DEF Entry
<1>2. Append(a.index, [rel |-> i - 1, position |-> at]) \in Seq(Entry)
  BY <1>1 DEF Scan
<1> QED
  BY <1>2 DEF Noted, Scan

(* ScanIndex looks at one whole frame a round.                             *)
LEMMA ScanLoop ==
    ASSUME NEW file, Sized(file), NEW n \in 0..Len(file), Good(file) = n
    PROVE  \E f \in [0..n -> Scan] :
              /\ f[0] = Nothing
              /\ \A i \in 1..n : f[i] = Noted(i, Position(file, i), f[i - 1])
              /\ ScanIndex(file) = f[n]
<1> DEFINE step == [p \in (1..n) \X Scan |->
                       Noted(p[1], Position(file, p[1]), p[2])]
           Body(u, i) ==
              IF i = 0 THEN [index |-> <<>>, last |-> 0]
              ELSE IF i = 1 \/ Position(file, i) - u[i - 1].last
                                  >= IndexInterval
                   THEN [index |-> Append(u[i - 1].index,
                                          [rel |-> i - 1,
                                           position |-> Position(file, i)]),
                         last |-> Position(file, i)]
                   ELSE u[i - 1]
           Scans(u) == u = [i \in 0..Good(file) |-> Body(u, i)]
           U == CHOOSE u : Scans(u)
<1>1. n \in Nat /\ \A i \in 1..n : i \in Nat \ {0} /\ Position(file, i) \in Nat
  <2>1. Len(file) \in Nat
    BY DEF Sized
  <2> QED
    BY <2>1, PositionSteps
<1>2. step \in [(1..n) \X Scan -> Scan]
  <2>1. ASSUME NEW p \in (1..n) \X Scan
        PROVE  Noted(p[1], Position(file, p[1]), p[2]) \in Scan
    BY <1>1, NotedTyped
  <2> QED
    BY <2>1
<1>3. PICK f \in [0..n -> Scan] :
         f[0] = Nothing /\ \A i \in 1..n : f[i] = step[<<i, f[i - 1]>>]
  <2>1. Nothing \in Scan
    BY DEF Nothing, Scan
  <2>2. Loop(Scan, Nothing, n, step)
    <3> HIDE DEF step
    <3> QED
      BY <1>1, <1>2, <2>1 DEF Loop
  <2> HIDE DEF step
  <2>3. PICK f : Values(Scan, Nothing, n, step, f)
    BY <2>2, LoopRuns
  <2> QED
    BY <2>3 DEF Values
<1>4. \A i \in 1..n : f[i] = Noted(i, Position(file, i), f[i - 1])
  <2> TAKE i \in 1..n
  <2>1. <<i, f[i - 1]>> \in (1..n) \X Scan
    BY <1>1
  <2> QED
    BY <1>3, <2>1
<1>5. \A i \in 1..n : \A u : Body(u, i) = Noted(i, Position(file, i), u[i - 1])
  BY DEF Noted
<1>6. \A u : Body(u, 0) = Nothing
  BY DEF Nothing
<1>7. \A i \in 0..n : i = 0 \/ i \in 1..n
  BY <1>1
<1> HIDE DEF Body, step
<1>8. Scans(f)
  <2>1. \A i \in 0..n : f[i] = Body(f, i)
    BY <1>3, <1>4, <1>5, <1>6, <1>7, ZenonT(30)
  <2> QED
    BY <2>1
<1>9. Scans(U)
  <2> HIDE DEF Scans
  <2> QED
    BY <1>8
<1>10. Alike(n, U, f)
  <2> HIDE DEF U
  <2>1. \A i \in 0..n : U[i] = Body(U, i)
    BY <1>9
  <2>2. \A i \in 1..n : i \in 0..n
    OBVIOUS
  <2>3. 0 \in 0..n
    BY <1>1
  <2> HIDE DEF Scans
  <2>4. U[0] = f[0]
    BY <2>1, <2>3, <1>3, <1>6, Zenon
  <2>5. \A i \in 1..n : U[i - 1] = f[i - 1] => U[i] = f[i]
    BY <2>1, <2>2, <1>4, <1>5, ZenonT(30)
  <2> QED
    BY <2>4, <2>5 DEF Alike
<1>11. Equal(n, U, f)
  <2> HIDE DEF U
  <2> QED
    BY <1>1, <1>10, Agree
<1>12. ScanIndex(file) = U[Good(file)]
  BY DEF ScanIndex, Body
<1> HIDE DEF U
<1>13. ScanIndex(file) = f[n]
  <2>1. n \in 0..n
    BY <1>1
  <2> QED
    BY <1>11, <1>12, <2>1 DEF Equal
<1> QED
  BY <1>3, <1>4, <1>13, Zenon

(* Scans of two files with the same whole frames build the same index.     *)
LEMMA ScanSame ==
    ASSUME NEW file, Sized(file), NEW other, Sized(other),
           NEW n \in 0..Len(file), n <= Len(other),
           Good(file) = n, Good(other) = n, Prefixed(n, file, other)
    PROVE  ScanIndex(file) = ScanIndex(other)
<1>1. n \in Nat /\ n \in 0..Len(other)
  BY DEF Sized
<1>2. PICK f \in [0..n -> Scan] :
         /\ f[0] = Nothing
         /\ \A i \in 1..n : f[i] = Noted(i, Position(file, i), f[i - 1])
         /\ ScanIndex(file) = f[n]
  BY ScanLoop
<1>3. PICK g \in [0..n -> Scan] :
         /\ g[0] = Nothing
         /\ \A i \in 1..n : g[i] = Noted(i, Position(other, i), g[i - 1])
         /\ ScanIndex(other) = g[n]
  BY <1>1, ScanLoop
<1>4. \A i \in 1..n : Position(file, i) = Position(other, i)
  BY <1>1, PositionSame
<1>5. Alike(n, f, g)
  BY <1>2, <1>3, <1>4, Zenon DEF Alike
<1>6. Equal(n, f, g)
  BY <1>1, <1>5, Agree
<1> QED
  BY <1>1, <1>2, <1>3, <1>6 DEF Equal

(* A file with one more whole frame has what that frame adds.              *)
LEMMA ScanMore ==
    ASSUME NEW file, Sized(file), NEW other, Sized(other),
           NEW n \in 0..Len(file), n < Len(other),
           Good(file) = n, Good(other) = n + 1, Prefixed(n, file, other)
    PROVE  /\ ScanIndex(file) \in Scan
           /\ ScanIndex(other)
                = Noted(n + 1, Position(file, n + 1), ScanIndex(file))
<1>1. n \in Nat /\ n + 1 \in 0..Len(other) /\ n + 1 \in 1..(n + 1)
  BY DEF Sized
<1>2. PICK f \in [0..n -> Scan] :
         /\ f[0] = Nothing
         /\ \A i \in 1..n : f[i] = Noted(i, Position(file, i), f[i - 1])
         /\ ScanIndex(file) = f[n]
  BY ScanLoop
<1>3. PICK g \in [0..(n + 1) -> Scan] :
         /\ g[0] = Nothing
         /\ \A i \in 1..(n + 1) : g[i] = Noted(i, Position(other, i), g[i - 1])
         /\ ScanIndex(other) = g[n + 1]
  BY <1>1, ScanLoop
<1>4. \A i \in 1..(n + 1) : Position(file, i) = Position(other, i)
  BY <1>1, PositionSame
<1>5. \A i \in 1..n : i \in 1..(n + 1)
  BY <1>1
<1>6. Alike(n, f, g)
  BY <1>2, <1>3, <1>4, <1>5, Zenon DEF Alike
<1>7. Equal(n, f, g)
  BY <1>1, <1>6, Agree
<1>8. f[n] = g[n] /\ f[n] \in Scan
  BY <1>1, <1>2, <1>7 DEF Equal
<1>9. g[n + 1] = Noted(n + 1, Position(other, n + 1), g[n])
  <2>1. (n + 1) - 1 = n
    BY <1>1
  <2> QED
    BY <1>1, <1>3, <2>1
<1> QED
  BY <1>1, <1>2, <1>3, <1>4, <1>8, <1>9

-----------------------------------------------------------------------------
(* The shape of an index, and what a lookup in it finds.                   *)

(* Entries rise, each points at the frame it names, and every one of the   *)
(* first n frames has an entry less than an interval before it.            *)
Sparse(file, n, x) ==
    /\ x \in Scan
    /\ \A i, j \in DOMAIN x.index : i < j => x.index[i].rel < x.index[j].rel
    /\ \A i \in DOMAIN x.index :
          /\ x.index[i].rel < n
          /\ x.index[i].position = Position(file, x.index[i].rel + 1)
    /\ \A k \in 1..n : \E i \in DOMAIN x.index :
          /\ x.index[i].rel < k
          /\ Position(file, k) - x.index[i].position < IndexInterval
    /\ n > 0 => \E i \in DOMAIN x.index : x.index[i].position = x.last

(* The next frame keeps it so.                                             *)
LEMMA SparseNoted ==
    ASSUME NEW file, Sized(file), NEW n \in 0..(Len(file) - 1), NEW x,
           Sparse(file, n, x)
    PROVE  Sparse(file, n + 1, Noted(n + 1, Position(file, n + 1), x))
<1> DEFINE at == Position(file, n + 1)
           y == Noted(n + 1, at, x)
           e == [rel |-> n, position |-> at]
<1>1. n \in Nat /\ n + 1 \in Nat \ {0} /\ n + 1 \in 1..(Len(file) + 1)
  BY DEF Sized
<1>2. at \in Nat /\ x \in Scan /\ (n + 1) - 1 = n
  BY <1>1, PositionSteps DEF Sparse
<1>3. IndexInterval \in Nat \ {0}
  BY SegmentsAssumption
<1>4. y \in Scan
  BY <1>1, <1>2, NotedTyped
<1>5. /\ x.index \in Seq(Entry) /\ x.last \in Nat /\ e \in Entry
      /\ e.rel = n /\ e.position = at
  BY <1>1, <1>2 DEF Scan, Entry
<1>6. \A i \in DOMAIN x.index : x.index[i].rel \in Nat
  <2>1. \A i \in DOMAIN x.index : x.index[i] \in Entry
    BY <1>5
  <2> QED
    BY <2>1 DEF Entry
<1> HIDE DEF at
<1>7. CASE n + 1 = 1 \/ at - x.last >= IndexInterval
  <2>1. y = [index |-> Append(x.index, e), last |-> at]
    BY <1>2, <1>7 DEF Noted
  <2> DEFINE l == Len(x.index)
  <2>2. /\ l \in Nat /\ DOMAIN x.index = 1..l /\ DOMAIN y.index = 1..(l + 1)
        /\ y.index[l + 1] = e /\ \A i \in 1..l : y.index[i] = x.index[i]
    BY <1>5, <2>1
  <2>3. y.last = at
    BY <2>1
  <2> HIDE DEF y, e, l
  <2>4. ASSUME NEW i \in DOMAIN y.index, NEW j \in DOMAIN y.index, i < j
        PROVE  y.index[i].rel < y.index[j].rel
    <3>1. CASE j = l + 1
      <4>1. i \in 1..l /\ y.index[j] = e /\ y.index[i] = x.index[i]
        BY <2>2, <2>4, <3>1
      <4> QED
        BY <4>1, <1>5, <2>2 DEF Sparse
    <3>2. CASE j # l + 1
      <4>1. i \in 1..l /\ j \in 1..l
        BY <2>2, <2>4, <3>2
      <4> QED
        BY <4>1, <2>2, <2>4 DEF Sparse
    <3> QED
      BY <3>1, <3>2
  <2>5. ASSUME NEW i \in DOMAIN y.index
        PROVE  /\ y.index[i].rel < n + 1
               /\ y.index[i].position = Position(file, y.index[i].rel + 1)
    <3>1. CASE i = l + 1
      BY <1>1, <1>5, <2>2, <3>1 DEF at
    <3>2. CASE i # l + 1
      <4>1. i \in 1..l /\ y.index[i] = x.index[i]
        BY <2>2, <3>2
      <4>2. x.index[i].rel < n /\ x.index[i].rel \in Nat
        BY <4>1, <1>6, <2>2 DEF Sparse
      <4>3. x.index[i].position = Position(file, x.index[i].rel + 1)
        BY <4>1, <2>2 DEF Sparse
      <4> QED
        BY <4>1, <4>2, <4>3, <1>1
    <3> QED
      BY <3>1, <3>2
  <2>6. ASSUME NEW k \in 1..(n + 1)
        PROVE  \E i \in DOMAIN y.index :
                  /\ y.index[i].rel < k
                  /\ Position(file, k) - y.index[i].position < IndexInterval
    <3>1. CASE k = n + 1
      <4>1. l + 1 \in DOMAIN y.index /\ y.index[l + 1] = e
        BY <2>2
      <4>2. e.rel < k /\ Position(file, k) - e.position < IndexInterval
        BY <1>1, <1>2, <1>3, <1>5, <3>1 DEF at
      <4> QED
        BY <4>1, <4>2
    <3>2. CASE k # n + 1
      <4>1. k \in 1..n
        BY <1>1, <3>2
      <4>2. PICK i \in DOMAIN x.index :
               /\ x.index[i].rel < k
               /\ Position(file, k) - x.index[i].position < IndexInterval
        BY <4>1 DEF Sparse
      <4>3. i \in DOMAIN y.index /\ y.index[i] = x.index[i]
        BY <2>2
      <4> QED
        BY <4>2, <4>3
    <3> QED
      BY <3>1, <3>2
  <2>7. \E i \in DOMAIN y.index : y.index[i].position = y.last
    <3>1. l + 1 \in DOMAIN y.index /\ y.index[l + 1].position = at
      BY <1>5, <2>2
    <3> QED
      BY <2>3, <3>1
  <2>8. Sparse(file, n + 1, y)
    BY <1>4, <2>4, <2>5, <2>6, <2>7 DEF Sparse
  <2> QED
    BY <2>8 DEF y, at
<1>8. CASE ~ (n + 1 = 1 \/ at - x.last >= IndexInterval)
  <2>1. y = x /\ n > 0 /\ at - x.last < IndexInterval
    BY <1>1, <1>2, <1>3, <1>5, <1>8 DEF Noted
  <2>2. \A i \in DOMAIN x.index : x.index[i].rel < n + 1
    <3> TAKE i \in DOMAIN x.index
    <3>1. x.index[i].rel < n
      BY DEF Sparse
    <3> QED
      BY <3>1, <1>1, <1>6
  <2>3. ASSUME NEW k \in 1..(n + 1)
        PROVE  \E i \in DOMAIN x.index :
                  /\ x.index[i].rel < k
                  /\ Position(file, k) - x.index[i].position < IndexInterval
    <3>1. CASE k = n + 1
      <4>1. PICK i \in DOMAIN x.index : x.index[i].position = x.last
        BY <2>1 DEF Sparse
      <4>2. Position(file, k) - x.index[i].position < IndexInterval
        BY <2>1, <3>1, <4>1 DEF at
      <4> QED
        BY <2>2, <3>1, <4>2
    <3>2. CASE k # n + 1
      <4>1. k \in 1..n
        BY <1>1, <3>2
      <4> QED
        BY <4>1 DEF Sparse
    <3> QED
      BY <3>1, <3>2
  <2> HIDE DEF y
  <2>4. Sparse(file, n + 1, x)
    BY <1>1, <2>1, <2>2, <2>3 DEF Sparse
  <2> QED
    BY <2>1, <2>4 DEF y, at
<1> QED
  BY <1>7, <1>8

(* So it is of the index a scan builds.                                    *)
LEMMA ScanSparse ==
    ASSUME NEW file, Sized(file), NEW n \in 0..Len(file), Good(file) = n
    PROVE  Sparse(file, n, ScanIndex(file))
<1>1. n \in Nat /\ Len(file) \in Nat
  BY DEF Sized
<1>2. PICK f \in [0..n -> Scan] :
         /\ f[0] = Nothing
         /\ \A i \in 1..n : f[i] = Noted(i, Position(file, i), f[i - 1])
         /\ ScanIndex(file) = f[n]
  BY ScanLoop
<1> DEFINE S == {k \in 0..n : Sparse(file, k, f[k])}
<1>3. 0 \in S
  <2>1. Sparse(file, 0, Nothing)
    BY DEF Sparse, Nothing, Scan
  <2> QED
    BY <1>1, <1>2, <2>1
<1>4. ASSUME NEW k \in 0..(n - 1), k \in S PROVE k + 1 \in S
  <2>1. k + 1 \in 1..n /\ (k + 1) - 1 = k /\ k \in 0..(Len(file) - 1)
    BY <1>1
  <2>2. Sparse(file, k + 1, Noted(k + 1, Position(file, k + 1), f[k]))
    BY <1>4, <2>1, SparseNoted
  <2>3. f[k + 1] = Noted(k + 1, Position(file, k + 1), f[k])
    BY <1>2, <2>1
  <2> QED
    BY <2>1, <2>2, <2>3
<1> HIDE DEF S
<1>5. \A k \in 0..n : k \in S
  BY <1>1, <1>3, <1>4, Climb
<1> QED
  BY <1>1, <1>2, <1>5 DEF S

(* A non-empty set of numbers from 1 to n has a greatest one.              *)
LEMMA GreatestOf ==
    ASSUME NEW n \in Nat, NEW S \in SUBSET (1..n), S # {}
    PROVE  \E i \in S : \A j \in S : j <= i
<1> DEFINE Below == {n - i : i \in S}
<1>1. Below \in SUBSET Nat /\ Below # {}
  <2>1. \A i \in S : n - i \in Nat
    OBVIOUS
  <2> QED
    BY <2>1
<1>2. PICK m \in Below : \A k \in Below : m <= k
  <2> HIDE DEF Below
  <2> QED
    BY <1>1, LeastOf
<1>3. PICK i \in S : m = n - i
  BY <1>2
<1>4. \A j \in S : j <= i
  <2> TAKE j \in S
  <2>1. n - j \in Below
    OBVIOUS
  <2> QED
    BY <1>2, <1>3, <2>1
<1> QED
  BY <1>4

(* If some entry is at or below the target, the lookup returns the last    *)
(* such entry.                                                             *)
LEMMA LookupLast ==
    ASSUME NEW index \in Seq(Entry), NEW target \in Nat,
           \E i \in DOMAIN index : index[i].rel <= target
    PROVE  \E i \in DOMAIN index :
              /\ index[i].rel <= target /\ LookupIndex(index, target) = index[i]
              /\ \A j \in DOMAIN index : index[j].rel <= target => j <= i
<1> DEFINE upTo == {i \in DOMAIN index : index[i].rel <= target}
           best == CHOOSE i \in upTo : \A j \in upTo : j <= i
<1>1. upTo \in SUBSET (1..Len(index)) /\ upTo # {} /\ Len(index) \in Nat
  OBVIOUS
<1>2. \E i \in upTo : \A j \in upTo : j <= i
  <2> HIDE DEF upTo
  <2> QED
    BY <1>1, GreatestOf
<1>3. best \in upTo /\ \A j \in upTo : j <= best
  <2> HIDE DEF upTo
  <2> QED
    BY <1>2
<1>4. LookupIndex(index, target) = index[best]
  BY <1>1 DEF LookupIndex
<1> HIDE DEF best
<1> QED
  BY <1>3, <1>4

(* An entry above the target does not change what the lookup returns.      *)
LEMMA LookupSame ==
    ASSUME NEW index \in Seq(Entry), NEW target \in Nat, NEW e \in Entry,
           e.rel > target
    PROVE  LookupIndex(Append(index, e), target) = LookupIndex(index, target)
<1> DEFINE more == Append(index, e)
           upTo(x) == {i \in DOMAIN x : x[i].rel <= target}
           best(x) == CHOOSE i \in upTo(x) : \A j \in upTo(x) : j <= i
<1>1. /\ Len(index) \in Nat /\ DOMAIN index = 1..Len(index)
      /\ DOMAIN more = 1..(Len(index) + 1) /\ more[Len(index) + 1] = e
      /\ \A i \in DOMAIN index : more[i] = index[i]
  OBVIOUS
<1>2. e.rel \in Nat
  BY DEF Entry
<1> HIDE DEF more
<1>3. upTo(more) = upTo(index)
  BY <1>1, <1>2
<1>4. upTo(index) # {} => best(index) \in upTo(index)
  <2>1. upTo(index) \in SUBSET (1..Len(index))
    BY <1>1
  <2> HIDE DEF upTo
  <2>2. upTo(index) # {} =>
           \E i \in upTo(index) : \A j \in upTo(index) : j <= i
    BY <1>1, <2>1, GreatestOf
  <2> QED
    BY <2>2
<1>5. best(more) = best(index)
  BY <1>3
<1>6. upTo(index) # {} => more[best(more)] = index[best(index)]
  <2> HIDE DEF best
  <2> QED
    BY <1>1, <1>4, <1>5
<1>7. \A x : LookupIndex(x, target) = IF upTo(x) = {}
                                      THEN [rel |-> 0, position |-> 0]
                                      ELSE x[best(x)]
  BY DEF LookupIndex
<1> HIDE DEF upTo, best
<1>8. LookupIndex(more, target) = LookupIndex(index, target)
  BY <1>3, <1>6, <1>7
<1> QED
  BY <1>8 DEF more

(* What a lookup before the k-th frame finds: an entry that points at a    *)
(* frame no later than that one and less than an interval before it.       *)
LEMMA LookupShort ==
    ASSUME NEW file, Sized(file), NEW n \in 0..Len(file), NEW x,
           Sparse(file, n, x), NEW k \in 1..n
    PROVE  LET e == LookupIndex(x.index, k - 1)
           IN  /\ e.rel \in 0..(k - 1) /\ e.position = Position(file, e.rel + 1)
               /\ Position(file, k) - e.position < IndexInterval
<1> DEFINE index == x.index
<1>1. n \in Nat /\ k \in Nat /\ k - 1 \in Nat /\ Len(file) \in Nat
  BY DEF Sized
<1>2. index \in Seq(Entry)
  BY DEF Sparse, Scan
<1>3. \A i \in DOMAIN index : index[i].rel \in Nat /\ index[i].position \in Nat
  <2>1. \A i \in DOMAIN index : index[i] \in Entry
    BY <1>2
  <2> QED
    BY <2>1 DEF Entry
<1>4. PICK near \in DOMAIN index :
         /\ index[near].rel < k
         /\ Position(file, k) - index[near].position < IndexInterval
  BY DEF Sparse
<1>5. index[near].rel <= k - 1
  BY <1>1, <1>3, <1>4
<1>6. PICK i \in DOMAIN index :
         /\ index[i].rel <= k - 1 /\ LookupIndex(index, k - 1) = index[i]
         /\ \A j \in DOMAIN index : index[j].rel <= k - 1 => j <= i
  <2> HIDE DEF index
  <2> QED
    BY <1>1, <1>2, <1>5, LookupLast
<1>7. /\ index[i].position = Position(file, index[i].rel + 1)
      /\ index[near].position = Position(file, index[near].rel + 1)
  BY DEF Sparse
<1>8. index[near].rel <= index[i].rel
  <2>1. near <= i
    BY <1>5, <1>6
  <2>2. near \in Int /\ i \in Int
    BY <1>2
  <2>3. near < i => index[near].rel < index[i].rel
    BY DEF Sparse
  <2> QED
    BY <1>3, <2>1, <2>2, <2>3
<1>9. index[near].position <= index[i].position
  <2>1. /\ index[near].rel + 1 \in 1..(Len(file) + 1)
        /\ index[i].rel + 1 \in 1..(Len(file) + 1)
    BY <1>1, <1>3, <1>5, <1>6
  <2>2. index[near].rel < index[i].rel
           => index[near].position < index[i].position
    <3>1. index[near].rel < index[i].rel
             => index[near].rel + 1 < index[i].rel + 1
      BY <1>3
    <3> QED
      BY <1>7, <2>1, <3>1, PositionGrows
  <2>3. index[near].rel = index[i].rel
           => index[near].position = index[i].position
    BY <1>7
  <2> QED
    BY <1>3, <1>8, <2>2, <2>3
<1>10. Position(file, k) \in Nat /\ IndexInterval \in Nat
  <2>1. k \in 1..(Len(file) + 1)
    BY <1>1
  <2> QED
    BY <2>1, PositionSteps, SegmentsAssumption
<1>11. Position(file, k) - index[i].position < IndexInterval
  BY <1>3, <1>4, <1>9, <1>10
<1>12. index[i].rel \in 0..(k - 1)
  BY <1>1, <1>3, <1>6
<1> HIDE DEF index
<1>13. LET e == LookupIndex(index, k - 1)
       IN  /\ e.rel \in 0..(k - 1) /\ e.position = Position(file, e.rel + 1)
           /\ Position(file, k) - e.position < IndexInterval
  BY <1>6, <1>7, <1>11, <1>12
<1> QED
  BY <1>13 DEF index

-----------------------------------------------------------------------------
(* The inductive invariant.                                                *)

(* Memory's count and size of a segment are those of the whole frames in   *)
(* its file, which carry consecutive offsets; behind them there is nothing *)
(* but perhaps one frame cut short.                                        *)
Matches(s) ==
    /\ Sized(s.file)
    /\ s.records \in 0..Len(s.file) /\ Len(s.file) <= s.records + 1
    /\ \A j \in DOMAIN s.file :
          /\ s.file[j].off = s.base + j - 1
          /\ s.file[j].has = s.file[j].size <=> j <= s.records
    /\ s.bytes = Position(s.file, s.records + 1)

Complete(s) == Len(s.file) = s.records

(* The index is the one a scan would build, or has the entry of a frame    *)
(* that was not written whole behind it.                                   *)
Remembered(s) ==
    [index |-> s.index, last |-> s.lastIndexed] = ScanIndex(s.file)

OneAhead(s) ==
    s.index = Append(ScanIndex(s.file).index,
                     [rel |-> s.records, position |-> s.bytes])

(* The values of the variables, as far as they do not depend on others.    *)
Plain ==
    /\ status \in {"open", "down"} /\ failed \in BOOLEAN
    /\ nextOffset \in 0..MaxRecords
    /\ cfg \in [ms : RetentionMS, bytes : RetentionBytes]
    /\ now \in Time /\ crashes \in 0..MaxCrashes

(* Segments follow each other without overlap up to the next offset, with  *)
(* a hole where retention took one out; only the last may be empty or end  *)
(* in a torn frame.                                                        *)
Line(segs, next) ==
    /\ segs \in Seq(Segment) /\ segs # <<>>
    /\ \A i \in DOMAIN segs : Matches(segs[i])
    /\ \A i, j \in DOMAIN segs : i < j =>
          /\ EndOf(segs[i]) <= segs[j].base
          /\ segs[i].records > 0 /\ Complete(segs[i])
    /\ next = EndOf(segs[Len(segs)])

(* The last file ends in a torn frame only when fenced or not yet reopened.*)
Ending ==
    /\ Complete(segments[Len(segments)]) \/ failed \/ status = "down"
    /\ failed => status = "open"

(* While the partition is open its indexes are current.                    *)
Current ==
    status = "open" =>
        \A i \in DOMAIN segments :
           \/ Remembered(segments[i])
           \/ failed /\ i = Len(segments) /\ OneAhead(segments[i])

SInv == Plain /\ Line(segments, nextOffset) /\ Ending /\ Current

-----------------------------------------------------------------------------
(* What each operation does to one segment.                                *)

(* What the scan says of a segment that matches its file.                  *)
LEMMA ScanMatches ==
    ASSUME NEW s, Matches(s)
    PROVE  /\ Good(s.file) = s.records
           /\ Decode(s.file, s.records + 1)
                = IF Complete(s) THEN "EOF" ELSE "unexpected EOF"
           /\ ScanIndex(s.file) \in Scan
           /\ Sparse(s.file, s.records, ScanIndex(s.file))
<1>1. Sized(s.file) /\ Len(s.file) \in Nat /\ s.records \in 0..Len(s.file)
  BY DEF Matches, Sized
<1>2. \A j \in 1..s.records : s.file[j].has = s.file[j].size
  <2> TAKE j \in 1..s.records
  <2>1. j \in DOMAIN s.file /\ j <= s.records
    BY <1>1 DEF Sized
  <2> QED
    BY <2>1 DEF Matches
<1>3. s.records < Len(s.file)
         => s.file[s.records + 1].has # s.file[s.records + 1].size
  <2> SUFFICES ASSUME s.records < Len(s.file)
               PROVE  s.file[s.records + 1].has # s.file[s.records + 1].size
    OBVIOUS
  <2>1. s.records + 1 \in DOMAIN s.file /\ ~ (s.records + 1 <= s.records)
    BY <1>1 DEF Sized
  <2> QED
    BY <2>1 DEF Matches
<1>4. Good(s.file) = s.records
  BY <1>1, <1>2, <1>3, GoodIs
<1>5. CASE Complete(s)
  <2>1. Decode(s.file, s.records + 1) = "EOF"
    BY <1>1, <1>5 DEF Complete, Decode
  <2> QED
    BY <1>1, <1>4, <1>5, <2>1, ScanSparse DEF Sparse
<1>6. CASE ~ Complete(s)
  <2>1. Len(s.file) = s.records + 1
    BY <1>1, <1>6 DEF Complete, Matches
  <2>2. Decode(s.file, s.records + 1) = "unexpected EOF"
    BY <1>1, <1>3, <2>1 DEF Decode
  <2> QED
    BY <1>1, <1>4, <1>6, <2>2, ScanSparse DEF Sparse
<1> QED
  BY <1>5, <1>6

(* A segment in which nothing was written.                                 *)
LEMMA FreshMatches ==
    ASSUME NEW base \in Nat, NEW mtime \in Time,
           NEW s, s = [base |-> base, file |-> <<>>, records |-> 0,
                       bytes |-> 0, index |-> <<>>, lastIndexed |-> 0,
                       mtime |-> mtime]
    PROVE  /\ s \in Segment /\ Matches(s) /\ Complete(s) /\ Remembered(s)
           /\ EndOf(s) = base
<1>1. s \in Segment
  BY DEF Segment
<1>2. Sized(<<>>)
  BY DEF Sized
<1>3. Position(<<>>, 1) = 0
  BY <1>2, PositionSteps
<1>4. Matches(s) /\ Complete(s) /\ EndOf(s) = base
  BY <1>2, <1>3 DEF Matches, Complete, EndOf
<1>5. ScanIndex(<<>>) = Nothing
  <2>1. Good(<<>>) = 0
    BY <1>4, ScanMatches
  <2>2. 0 \in 0..Len(<<>>)
    OBVIOUS
  <2>3. PICK f \in [0..0 -> Scan] :
           f[0] = Nothing /\ ScanIndex(<<>>) = f[0]
    BY <1>2, <2>1, <2>2, ScanLoop, ZenonT(30)
  <2> QED
    BY <2>3
<1>6. Remembered(s)
  BY <1>5 DEF Remembered, Nothing
<1> QED
  BY <1>1, <1>4, <1>6

(* What Indexed does to the index is what a scan notes at the frame.       *)
LEMMA IndexedNotes ==
    ASSUME NEW s \in Segment
    PROVE  LET t == Indexed(s)
           IN  /\ t \in Segment
               /\ t.base = s.base /\ t.file = s.file /\ t.records = s.records
               /\ t.bytes = s.bytes /\ t.mtime = s.mtime
               /\ [index |-> t.index, last |-> t.lastIndexed]
                     = Noted(s.records + 1, s.bytes,
                             [index |-> s.index, last |-> s.lastIndexed])
<1> DEFINE e == [rel |-> s.records, position |-> s.bytes]
<1>1. /\ s.records \in Nat /\ s.bytes \in Nat /\ s.lastIndexed \in Nat
      /\ s.index \in Seq(Entry) /\ e \in Entry
  BY DEF Segment, Entry
<1>2. Append(s.index, e) \in Seq(Entry)
  BY <1>1
<1>3. (s.records + 1) - 1 = s.records /\ (s.records + 1 = 1 <=> s.records = 0)
  BY <1>1
<1>4. CASE s.records = 0 \/ s.bytes - s.lastIndexed >= IndexInterval
  BY <1>1, <1>2, <1>3, <1>4 DEF Indexed, Noted, Segment
<1>5. CASE ~ (s.records = 0 \/ s.bytes - s.lastIndexed >= IndexInterval)
  BY <1>1, <1>3, <1>5 DEF Indexed, Noted, Segment
<1> QED
  BY <1>4, <1>5

(* What a write leaves of a segment: its identity, its count and size, the *)
(* index with the frame noted, and the bytes that were written.            *)
LEMMA WrittenIs ==
    ASSUME Plain, NEW s \in Segment, Matches(s), Complete(s), Remembered(s),
           EndOf(s) = nextOffset,
           NEW size \in FrameSizes, NEW n \in 0..size
    PROVE  LET w == Written(s, size, n)
               c == [off |-> nextOffset, size |-> size, has |-> n]
           IN  /\ w \in Segment
               /\ w.base = s.base /\ w.records = s.records /\ w.bytes = s.bytes
               /\ w.file = IF n > 0 THEN Append(s.file, c) ELSE s.file
               /\ [index |-> w.index, last |-> w.lastIndexed]
                     = Noted(s.records + 1, s.bytes, ScanIndex(s.file))
<1> DEFINE t == Indexed(s)
           c == [off |-> nextOffset, size |-> size, has |-> n]
           w == Written(s, size, n)
<1>1. /\ t \in Segment
      /\ t.base = s.base /\ t.file = s.file /\ t.records = s.records
      /\ t.bytes = s.bytes /\ t.mtime = s.mtime
      /\ [index |-> t.index, last |-> t.lastIndexed]
            = Noted(s.records + 1, s.bytes,
                    [index |-> s.index, last |-> s.lastIndexed])
  BY IndexedNotes
<1>2. c \in Chunk /\ now \in Time
  BY SegmentsAssumption DEF Plain, Chunk
<1>3. Append(t.file, c) \in Seq(Chunk)
  BY <1>1, <1>2 DEF Segment
<1>4. w = [t EXCEPT !.mtime = IF n > 0 THEN now ELSE @,
                    !.file = IF n > 0 THEN Append(@, c) ELSE @]
  BY DEF Written
<1> HIDE DEF t, c, w
<1>5. /\ w \in Segment
      /\ w.base = t.base /\ w.records = t.records /\ w.bytes = t.bytes
      /\ w.file = IF n > 0 THEN Append(t.file, c) ELSE t.file
      /\ w.index = t.index /\ w.lastIndexed = t.lastIndexed
  <2>1. CASE n > 0
    BY <1>1, <1>2, <1>3, <1>4, <2>1 DEF Segment
  <2>2. CASE ~ (n > 0)
    BY <1>1, <1>4, <2>2 DEF Segment
  <2> QED
    BY <2>1, <2>2
<1>6. [index |-> s.index, last |-> s.lastIndexed] = ScanIndex(s.file)
  BY DEF Remembered
<1>7. /\ w \in Segment
      /\ w.base = s.base /\ w.records = s.records /\ w.bytes = s.bytes
      /\ w.file = IF n > 0 THEN Append(s.file, c) ELSE s.file
      /\ [index |-> w.index, last |-> w.lastIndexed]
            = Noted(s.records + 1, s.bytes, ScanIndex(s.file))
  BY <1>1, <1>5, <1>6
<1> QED
  BY <1>7 DEF w, c

(* The file with one more chunk.                                           *)
LEMMA FileGrows ==
    ASSUME Plain, NEW s \in Segment, Matches(s), Complete(s),
           EndOf(s) = nextOffset,
           NEW size \in FrameSizes, NEW n \in 1..size
    PROVE  LET file == Append(s.file, [off |-> nextOffset, size |-> size,
                                       has |-> n])
           IN  /\ Sized(file) /\ Len(file) = s.records + 1
               /\ Prefixed(s.records, s.file, file)
               /\ file[s.records + 1].has = n
               /\ Position(file, s.records + 1) = s.bytes
               /\ \A j \in DOMAIN file :
                     /\ file[j].off = s.base + j - 1
                     /\ file[j].has = file[j].size
                           <=> j <= s.records \/ n = size
<1> DEFINE c == [off |-> nextOffset, size |-> size, has |-> n]
           file == Append(s.file, c)
           r == s.records
<1>1. /\ c \in Chunk /\ c.off = nextOffset /\ c.size = size /\ c.has = n
      /\ size \in Nat
  BY SegmentsAssumption DEF Plain, Chunk
<1>2. /\ Sized(s.file) /\ s.file \in Seq(Chunk) /\ Len(s.file) = r
      /\ r \in Nat /\ s.base \in Nat /\ nextOffset = s.base + r
  BY DEF Matches, Complete, Sized, Segment, EndOf
<1> HIDE DEF c, r
<1>3. /\ file \in Seq(Chunk) /\ Len(file) = r + 1 /\ DOMAIN file = 1..(r + 1)
      /\ file[r + 1] = c /\ \A j \in 1..r : file[j] = s.file[j]
  BY <1>1, <1>2
<1> HIDE DEF file
<1>4. \A j \in 1..r : /\ s.file[j].has \in 1..s.file[j].size
                      /\ s.file[j].off = s.base + j - 1
                      /\ s.file[j].has = s.file[j].size
  <2> TAKE j \in 1..r
  <2>1. j \in DOMAIN s.file /\ j <= s.records
    BY <1>2 DEF r
  <2> QED
    BY <1>2, <2>1 DEF Matches, Sized
<1>5. \A j \in 1..(r + 1) : j \in 1..r \/ j = r + 1
  BY <1>2
<1>6. Sized(file)
  BY <1>1, <1>3, <1>4, <1>5 DEF Sized
<1>7. Prefixed(r, s.file, file)
  BY <1>3 DEF Prefixed
<1>8. Position(file, r + 1) = s.bytes
  <2>1. r + 1 \in 1..(r + 1)
    BY <1>2
  <2>2. Position(file, r + 1) = Position(s.file, r + 1)
    BY <1>2, <1>7, <2>1, PositionSame
  <2> QED
    BY <2>2 DEF Matches, r
<1>9. ASSUME NEW j \in DOMAIN file
      PROVE  /\ file[j].off = s.base + j - 1
             /\ file[j].has = file[j].size <=> j <= r \/ n = size
  <2>1. CASE j \in 1..r
    <3>1. file[j] = s.file[j] /\ j <= r
      BY <1>2, <1>3, <2>1
    <3>2. s.file[j].off = s.base + j - 1 /\ s.file[j].has = s.file[j].size
      BY <1>4, <2>1
    <3> QED
      BY <3>1, <3>2
  <2>2. CASE j = r + 1
    <3>1. file[j].off = nextOffset /\ file[j].size = size /\ file[j].has = n
      BY <1>1, <1>3, <2>2
    <3>2. nextOffset = s.base + j - 1 /\ ~ (j <= r)
      BY <1>2, <2>2
    <3> QED
      BY <3>1, <3>2
  <2> QED
    BY <1>3, <1>5, <2>1, <2>2
<1>10. /\ Sized(file) /\ Len(file) = r + 1 /\ Prefixed(r, s.file, file)
       /\ file[r + 1].has = n /\ Position(file, r + 1) = s.bytes
       /\ \A j \in DOMAIN file :
             /\ file[j].off = s.base + j - 1
             /\ file[j].has = file[j].size <=> j <= r \/ n = size
  BY <1>1, <1>3, <1>6, <1>7, <1>8, <1>9
<1> QED
  BY <1>10 DEF file, c, r

(* A frame written whole: memory counts it and its entry is the scan's.    *)
LEMMA WholeWrite ==
    ASSUME Plain, NEW s \in Segment, Matches(s), Complete(s), Remembered(s),
           EndOf(s) = nextOffset, NEW size \in FrameSizes
    PROVE  LET t == [Written(s, size, size) EXCEPT !.records = @ + 1,
                                                   !.bytes = @ + size]
           IN  /\ t \in Segment /\ t.base = s.base
               /\ Matches(t) /\ Complete(t) /\ Remembered(t)
               /\ EndOf(t) = nextOffset + 1
<1> DEFINE w == Written(s, size, size)
           file == Append(s.file, [off |-> nextOffset, size |-> size,
                                   has |-> size])
           t == [w EXCEPT !.records = @ + 1, !.bytes = @ + size]
           r == s.records
<1>1. size \in Nat \ {0} /\ size \in 0..size /\ size \in 1..size
  BY SegmentsAssumption
<1>2. /\ w \in Segment
      /\ w.base = s.base /\ w.records = r /\ w.bytes = s.bytes
      /\ w.file = IF size > 0 THEN file ELSE s.file
      /\ [index |-> w.index, last |-> w.lastIndexed]
            = Noted(r + 1, s.bytes, ScanIndex(s.file))
  <2> HIDE DEF w
  <2> QED
    BY <1>1, WrittenIs DEF w
<1>3. /\ Sized(file) /\ Len(file) = r + 1 /\ Prefixed(r, s.file, file)
      /\ file[r + 1].has = size /\ Position(file, r + 1) = s.bytes
      /\ \A j \in DOMAIN file :
            /\ file[j].off = s.base + j - 1
            /\ file[j].has = file[j].size <=> j <= r \/ size = size
  BY <1>1, FileGrows
<1>4. /\ r \in Nat /\ s.base \in Nat /\ s.bytes \in Nat
      /\ nextOffset = s.base + r
      /\ Len(s.file) = r /\ Sized(s.file)
  BY DEF Segment, EndOf, Complete, Matches
<1> HIDE DEF w, file
<1>5. /\ t \in Segment /\ t.base = s.base /\ t.records = r + 1
      /\ t.bytes = s.bytes + size /\ t.file = file
      /\ t.index = w.index /\ t.lastIndexed = w.lastIndexed
  <2>1. w.file = file
    BY <1>1, <1>2
  <2>2. w.records + 1 \in Nat /\ w.bytes + size \in Nat
    BY <1>1, <1>2, <1>4
  <2>3. t \in Segment
    BY <1>2, <2>2 DEF Segment
  <2>4. /\ t.base = w.base /\ t.records = w.records + 1 /\ t.file = w.file
        /\ t.bytes = w.bytes + size
        /\ t.index = w.index /\ t.lastIndexed = w.lastIndexed
    BY <1>2 DEF Segment
  <2> QED
    BY <1>2, <2>1, <2>3, <2>4
<1> HIDE DEF t, r
<1>6. Position(file, (r + 1) + 1) = s.bytes + size
  <2>1. r + 1 \in 1..Len(file)
    BY <1>3, <1>4
  <2> QED
    BY <1>3, <2>1, PositionSteps
<1>7. Matches(t) /\ Complete(t)
  <2>1. DOMAIN file = 1..(r + 1)
    BY <1>3 DEF Sized
  <2>2. \A j \in DOMAIN t.file :
           /\ t.file[j].off = t.base + j - 1
           /\ t.file[j].has = t.file[j].size <=> j <= t.records
    BY <1>3, <1>5, <2>1
  <2>3. Sized(t.file) /\ t.bytes = Position(t.file, t.records + 1)
    BY <1>3, <1>5, <1>6
  <2>4. t.records \in 0..Len(t.file) /\ Len(t.file) = t.records
    BY <1>3, <1>4, <1>5
  <2>5. Len(t.file) <= t.records + 1
    BY <1>4, <1>5, <2>4
  <2> QED
    BY <2>2, <2>3, <2>4, <2>5 DEF Matches, Complete
<1>8. EndOf(t) = nextOffset + 1
  BY <1>4, <1>5 DEF EndOf
<1>9. Remembered(t)
  <2>1. Good(s.file) = r /\ Good(file) = r + 1
    BY <1>5, <1>7, ScanMatches DEF r
  <2>2. Position(s.file, r + 1) = s.bytes
    BY DEF Matches, r
  <2>3. r \in 0..Len(s.file) /\ r < Len(file)
    BY <1>3, <1>4
  <2>4. ScanIndex(file) = Noted(r + 1, s.bytes, ScanIndex(s.file))
    BY <1>3, <1>4, <2>1, <2>2, <2>3, ScanMore
  <2> QED
    BY <1>2, <1>5, <2>4 DEF Remembered
<1>10. /\ t \in Segment /\ t.base = s.base
       /\ Matches(t) /\ Complete(t) /\ Remembered(t)
       /\ EndOf(t) = nextOffset + 1
  BY <1>5, <1>7, <1>8, <1>9
<1> QED
  BY <1>10 DEF t, w

(* A frame cut short: memory stays as it was, but for its index entry.     *)
LEMMA TornWrite ==
    ASSUME Plain, NEW s \in Segment, Matches(s), Complete(s), Remembered(s),
           EndOf(s) = nextOffset,
           NEW size \in FrameSizes, NEW n \in 0..(size - 1)
    PROVE  LET w == Written(s, size, n)
           IN  /\ w \in Segment /\ w.base = s.base /\ Matches(w)
               /\ Remembered(w) \/ OneAhead(w)
               /\ EndOf(w) = nextOffset
<1> DEFINE w == Written(s, size, n)
           c == [off |-> nextOffset, size |-> size, has |-> n]
           r == s.records
<1>1. size \in Nat \ {0} /\ n \in 0..size /\ n # size /\ n \in Nat
  BY SegmentsAssumption
<1>2. /\ w \in Segment
      /\ w.base = s.base /\ w.records = r /\ w.bytes = s.bytes
      /\ w.file = IF n > 0 THEN Append(s.file, c) ELSE s.file
      /\ [index |-> w.index, last |-> w.lastIndexed]
            = Noted(r + 1, s.bytes, ScanIndex(s.file))
  <2> HIDE DEF w
  <2> QED
    BY <1>1, WrittenIs DEF w
<1>3. r \in Nat /\ s.base \in Nat /\ Len(s.file) = r /\ Sized(s.file)
  BY DEF Segment, EndOf, Complete, Matches
<1> HIDE DEF w
<1>4. Matches(w) /\ Prefixed(r, s.file, w.file) /\ r <= Len(w.file)
  <2>1. CASE n > 0
    <3> DEFINE file == Append(s.file, c)
    <3>1. n \in 1..size /\ w.file = file
      BY <1>1, <1>2, <2>1
    <3>2. /\ Sized(file) /\ Len(file) = r + 1 /\ Prefixed(r, s.file, file)
          /\ file[r + 1].has = n /\ Position(file, r + 1) = s.bytes
          /\ \A j \in DOMAIN file :
                /\ file[j].off = s.base + j - 1
                /\ file[j].has = file[j].size <=> j <= r \/ n = size
      BY <3>1, FileGrows
    <3> HIDE DEF file
    <3>3. \A j \in DOMAIN w.file :
             /\ w.file[j].off = w.base + j - 1
             /\ w.file[j].has = w.file[j].size <=> j <= w.records
      BY <1>1, <1>2, <3>1, <3>2
    <3> HIDE DEF r
    <3>4. /\ w.records \in 0..Len(w.file) /\ Len(w.file) <= w.records + 1
          /\ r <= Len(w.file)
      BY <1>2, <1>3, <3>1, <3>2
    <3>5. Sized(w.file) /\ w.bytes = Position(w.file, w.records + 1)
      BY <1>2, <3>1, <3>2
    <3> QED
      BY <3>1, <3>2, <3>3, <3>4, <3>5 DEF Matches
  <2>2. CASE ~ (n > 0)
    <3>1. w.file = s.file
      BY <1>2, <2>2
    <3>2. Matches(w)
      BY <1>2, <3>1 DEF Matches
    <3>3. Prefixed(r, s.file, w.file)
      BY <3>1 DEF Prefixed
    <3>4. r <= Len(w.file)
      BY <1>3, <3>1
    <3> QED
      BY <3>2, <3>3, <3>4
  <2> QED
    BY <2>1, <2>2
<1>5. EndOf(w) = nextOffset
  BY <1>2 DEF EndOf
<1>6. ScanIndex(w.file) = ScanIndex(s.file)
  <2>1. Good(s.file) = r /\ Good(w.file) = r /\ Sized(w.file)
    BY <1>2, <1>4, ScanMatches DEF Matches
  <2>2. r \in 0..Len(s.file)
    BY <1>3
  <2> HIDE DEF r
  <2> QED
    BY <1>3, <1>4, <2>1, <2>2, ScanSame
<1>7. Remembered(w) \/ OneAhead(w)
  <2>1. (r + 1) - 1 = r
    BY <1>3
  <2> DEFINE e == [rel |-> r, position |-> s.bytes]
  <2>2. \/ [index |-> w.index, last |-> w.lastIndexed] = ScanIndex(s.file)
        \/ w.index = Append(ScanIndex(s.file).index, e)
    BY <1>2, <2>1 DEF Noted
  <2> QED
    BY <1>2, <1>6, <2>2 DEF Remembered, OneAhead
<1>8. /\ w \in Segment /\ w.base = s.base /\ Matches(w)
      /\ Remembered(w) \/ OneAhead(w)
      /\ EndOf(w) = nextOffset
  BY <1>2, <1>4, <1>5, <1>7
<1> QED
  BY <1>8 DEF w

(* A restart: what the scan finds is what memory knew, a torn frame is cut *)
(* off and the index is the scan's.                                        *)
LEMMA OpenedIs ==
    ASSUME Plain, NEW s \in Segment, Matches(s)
    PROVE  /\ Opened(s) \in Segment /\ Opened(s).base = s.base
           /\ Opened(s).records = s.records
           /\ Matches(Opened(s)) /\ Complete(Opened(s)) /\ Remembered(Opened(s))
           /\ EndOf(Opened(s)) = EndOf(s)
<1> DEFINE o == Opened(s)
           r == s.records
           torn == Decode(s.file, r + 1) = "unexpected EOF"
           cut == SubSeq(s.file, 1, r)
           scan == ScanIndex(s.file)
<1>1. /\ Good(s.file) = r
      /\ Decode(s.file, r + 1)
           = IF Complete(s) THEN "EOF" ELSE "unexpected EOF"
      /\ scan \in Scan
  BY ScanMatches
<1>2. torn <=> ~ Complete(s)
  BY <1>1
<1>3. /\ Sized(s.file) /\ s.file \in Seq(Chunk) /\ s.base \in Nat
      /\ r \in 0..Len(s.file) /\ Len(s.file) \in Nat /\ r \in Nat
      /\ s.bytes = Position(s.file, r + 1) /\ s.bytes \in Nat
      /\ now \in Time
  BY DEF Matches, Segment, Sized, Plain
<1>4. o = [s EXCEPT !.records = r, !.bytes = s.bytes,
                    !.index = scan.index, !.lastIndexed = scan.last,
                    !.file = IF torn THEN cut ELSE @,
                    !.mtime = IF torn THEN now ELSE @]
  BY <1>1, <1>3 DEF Opened
<1>5. cut \in Seq(Chunk) /\ Len(cut) = r /\ \A j \in 1..r : cut[j] = s.file[j]
  BY <1>3
<1>6. scan.index \in Seq(Entry) /\ scan.last \in Nat
      /\ scan = [index |-> scan.index, last |-> scan.last]
  BY <1>1 DEF Scan
<1> HIDE DEF o, torn, cut, scan, r
<1>7. /\ o \in Segment /\ o.base = s.base /\ o.records = r
      /\ o.bytes = s.bytes /\ o.index = scan.index /\ o.lastIndexed = scan.last
      /\ o.file = IF torn THEN cut ELSE s.file
  <2>1. CASE torn
    BY <1>3, <1>4, <1>5, <1>6, <2>1 DEF Segment
  <2>2. CASE ~ torn
    BY <1>3, <1>4, <1>6, <2>2 DEF Segment
  <2> QED
    BY <2>1, <2>2
<1>8. Matches(o) /\ Complete(o) /\ Prefixed(r, s.file, o.file)
  <2>1. CASE torn
    <3>1. o.file = cut /\ DOMAIN cut = 1..r
      BY <1>5, <1>7, <2>1
    <3>2. \A j \in 1..r : j \in DOMAIN s.file /\ j <= r
      BY <1>3
    <3>3. \A j \in 1..r : /\ cut[j].has \in 1..cut[j].size
                          /\ cut[j].off = s.base + j - 1
                          /\ cut[j].has = cut[j].size
      BY <1>3, <1>5, <3>2 DEF Matches, Sized, r
    <3>4. Sized(cut)
      BY <1>5, <3>1, <3>3 DEF Sized
    <3>5. Prefixed(r, s.file, cut)
      BY <1>5 DEF Prefixed
    <3>6. Position(cut, r + 1) = s.bytes
      <4>1. r + 1 \in 1..(r + 1)
        BY <1>3
      <4> QED
        BY <1>3, <3>5, <4>1, PositionSame
    <3>7. \A j \in DOMAIN o.file :
             /\ o.file[j].off = o.base + j - 1
             /\ o.file[j].has = o.file[j].size <=> j <= o.records
      BY <1>7, <3>1, <3>2, <3>3
    <3>8. /\ o.records \in 0..Len(o.file) /\ Len(o.file) = o.records
          /\ Len(o.file) <= o.records + 1
      BY <1>3, <1>5, <1>7, <3>1
    <3>9. Sized(o.file) /\ o.bytes = Position(o.file, o.records + 1)
      BY <1>7, <3>1, <3>4, <3>6
    <3> QED
      BY <3>1, <3>5, <3>7, <3>8, <3>9 DEF Matches, Complete
  <2>2. CASE ~ torn
    <3>1. o.file = s.file /\ Complete(s)
      BY <1>2, <1>7, <2>2
    <3> QED
      BY <1>7, <3>1 DEF Matches, Complete, Prefixed, r
  <2> QED
    BY <2>1, <2>2
<1>9. Remembered(o)
  <2>1. Good(o.file) = r /\ Sized(o.file) /\ r <= Len(o.file)
    <3>1. Good(o.file) = o.records
      BY <1>8, ScanMatches
    <3>2. Sized(o.file) /\ Len(o.file) = o.records
      BY <1>8 DEF Matches, Complete
    <3> QED
      BY <1>3, <1>7, <3>1, <3>2
  <2>2. ScanIndex(o.file) = scan
    BY <1>1, <1>3, <1>8, <2>1, ScanSame DEF scan
  <2> QED
    BY <1>6, <1>7, <2>2 DEF Remembered
<1>10. EndOf(o) = EndOf(s)
  BY <1>7 DEF EndOf, r
<1> QED
  BY <1>7, <1>8, <1>9, <1>10 DEF o, r

-----------------------------------------------------------------------------
(* What is picked from a sequence.                                         *)

(* m takes the positions of t to those of the elements of s in K, among    *)
(* the first n, in their order and without leaving one out.                *)
Maps(m, n, K, s, t) ==
    /\ m \in [1..Len(t) -> 1..n]
    /\ \A j \in 1..Len(t) : m[j] \in K /\ t[j] = s[m[j]]
    /\ \A i, j \in 1..Len(t) : i < j => m[i] < m[j]
    /\ \A i \in 1..n : i \in K => \E j \in 1..Len(t) : m[j] = i

(* One more element.                                                       *)
LEMMA MapsMore ==
    ASSUME NEW n \in Nat, NEW T, NEW s, s[n + 1] \in T, NEW K,
           NEW t \in Seq(T), NEW m, Maps(m, n, K, s, t)
    PROVE  \E p : Maps(p, n + 1, K, s,
                       IF n + 1 \in K THEN Append(t, s[n + 1]) ELSE t)
<1> DEFINE l == Len(t)
<1>1. l \in Nat
  OBVIOUS
<1>2. CASE n + 1 \in K
  <2> DEFINE u == Append(t, s[n + 1])
             p == [j \in 1..(l + 1) |-> IF j = l + 1 THEN n + 1 ELSE m[j]]
  <2>1. /\ Len(u) = l + 1 /\ u[l + 1] = s[n + 1]
        /\ \A j \in 1..l : u[j] = t[j]
    OBVIOUS
  <2> HIDE DEF u, l
  <2>2. /\ p[l + 1] = n + 1
        /\ \A j \in 1..l : p[j] = m[j] /\ m[j] \in 1..n /\ p[j] # n + 1
    BY <1>1 DEF Maps, l
  <2>3. \A j \in 1..(l + 1) : j = l + 1 \/ j \in 1..l
    BY <1>1
  <2>4. p \in [1..(l + 1) -> 1..(n + 1)]
    BY <1>1, <2>2, <2>3
  <2> HIDE DEF p
  <2>5. ASSUME NEW j \in 1..(l + 1) PROVE p[j] \in K /\ u[j] = s[p[j]]
    <3>1. CASE j = l + 1
      BY <1>2, <2>1, <2>2, <3>1
    <3>2. CASE j \in 1..l
      BY <2>1, <2>2, <3>2 DEF Maps, l
    <3> QED
      BY <2>3, <3>1, <3>2
  <2>6. ASSUME NEW i \in 1..(l + 1), NEW j \in 1..(l + 1), i < j
        PROVE  p[i] < p[j]
    <3>1. i \in 1..l
      BY <1>1, <2>6
    <3>2. CASE j = l + 1
      BY <2>2, <3>1, <3>2
    <3>3. CASE j \in 1..l
      <4>1. m[i] < m[j]
        BY <2>6, <3>1, <3>3 DEF Maps, l
      <4> QED
        BY <2>2, <3>1, <3>3, <4>1
    <3> QED
      BY <2>3, <3>2, <3>3
  <2>7. ASSUME NEW i \in 1..(n + 1), i \in K
        PROVE  \E j \in 1..(l + 1) : p[j] = i
    <3>1. CASE i = n + 1
      <4>1. l + 1 \in 1..(l + 1)
        BY <1>1
      <4> QED
        BY <2>2, <3>1, <4>1
    <3>2. CASE i # n + 1
      <4>1. i \in 1..n
        BY <3>2
      <4>2. PICK j \in 1..l : m[j] = i
        BY <2>7, <4>1 DEF Maps, l
      <4>3. j \in 1..(l + 1) /\ p[j] = i
        BY <1>1, <2>2, <4>2
      <4> QED
        BY <4>3
    <3> QED
      BY <3>1, <3>2
  <2>8. Maps(p, n + 1, K, s, u)
    BY <2>1, <2>4, <2>5, <2>6, <2>7 DEF Maps
  <2> QED
    BY <1>2, <2>8 DEF u
<1>3. CASE n + 1 \notin K
  <2>1. m \in [1..l -> 1..(n + 1)]
    <3>1. \A j \in 1..l : m[j] \in 1..n
      BY DEF Maps
    <3>2. \A j \in 1..l : m[j] \in 1..(n + 1)
      BY <3>1
    <3> QED
      BY <3>2 DEF Maps
  <2>2. \A i \in 1..(n + 1) : i \in K => i \in 1..n
    BY <1>3
  <2>3. Maps(m, n + 1, K, s, t)
    BY <2>1, <2>2 DEF Maps
  <2> QED
    BY <1>3, <2>3
<1> QED
  BY <1>2, <1>3

(* Picked returns the elements at the positions in K, in their order.      *)
LEMMA PickedMaps ==
    ASSUME NEW n \in Nat, NEW T, NEW s \in [1..n -> T], NEW K
    PROVE  /\ Picked(s, K) \in Seq(T)
           /\ \E m : Maps(m, n, K, s, Picked(s, K))
<1>0. PICK f : Picking(n, T, s, K, f)
  BY PickedLoop
<1>1. /\ f \in [0..n -> Seq(T)] /\ f[0] = <<>>
      /\ \A i \in 1..n :
            f[i] = IF i \in K THEN Append(f[i - 1], s[i]) ELSE f[i - 1]
      /\ Picked(s, K) = f[n]
  BY <1>0 DEF Picking
<1> DEFINE S == {k \in 0..n : \E m : Maps(m, k, K, s, f[k])}
<1>2. 0 \in S
  <2>1. Maps([j \in 1..0 |-> 0], 0, K, s, <<>>)
    BY DEF Maps
  <2>2. 0 \in 0..n
    OBVIOUS
  <2> QED
    BY <1>1, <2>1, <2>2
<1>3. ASSUME NEW k \in 0..(n - 1), k \in S PROVE k + 1 \in S
  <2>1. PICK m : Maps(m, k, K, s, f[k])
    BY <1>3
  <2>2. k + 1 \in 1..n /\ (k + 1) - 1 = k /\ k \in Nat /\ k \in 0..n
        /\ k + 1 \in 0..n
    OBVIOUS
  <2>3. f[k] \in Seq(T) /\ s[k + 1] \in T
    BY <1>1, <2>2
  <2>4. f[k + 1] = IF k + 1 \in K THEN Append(f[k], s[k + 1]) ELSE f[k]
    BY <1>1, <2>2
  <2>5. \E p : Maps(p, k + 1, K, s,
                    IF k + 1 \in K THEN Append(f[k], s[k + 1]) ELSE f[k])
    BY <2>1, <2>2, <2>3, MapsMore
  <2> QED
    BY <2>2, <2>4, <2>5
<1> HIDE DEF S
<1>4. \A k \in 0..n : k \in S
  BY <1>2, <1>3, Climb
<1>5. n \in S /\ f[n] \in Seq(T)
  BY <1>1, <1>4
<1> QED
  BY <1>1, <1>5 DEF S

(* Of the positions of s, which has n, K holds those from lo to hi.        *)
Stretch(n, T, s, K, lo, hi) ==
    /\ n \in Nat /\ s \in [1..n -> T]
    /\ lo \in 1..(n + 1) /\ hi \in (lo - 1)..n
    /\ \A i \in 1..n : i \in K <=> lo <= i /\ i <= hi

(* Then the stretch from lo on is picked.                                  *)
LEMMA PickedStretch ==
    ASSUME NEW n, NEW T, NEW s, NEW K, NEW lo, NEW hi,
           Stretch(n, T, s, K, lo, hi)
    PROVE  Picked(s, K) = [j \in 1..(hi - lo + 1) |-> s[lo + j - 1]]
<1> USE DEF Stretch
<1>1. PICK m : Maps(m, n, K, s, Picked(s, K))
  BY PickedMaps
<1> DEFINE t == Picked(s, K)
           l == Len(t)
           w == hi - lo + 1
<1>2. t \in Seq(T) /\ l \in Nat
  BY PickedMaps
<1> HIDE DEF t
<1>3. /\ m \in [1..l -> 1..n]
      /\ \A j \in 1..l : m[j] \in K /\ t[j] = s[m[j]]
      /\ \A i, j \in 1..l : i < j => m[i] < m[j]
      /\ \A i \in 1..n : i \in K => \E j \in 1..l : m[j] = i
  BY <1>1 DEF Maps, t
<1>4. w \in Nat /\ lo \in Nat /\ hi \in Nat
  OBVIOUS
<1>5. \A j \in 1..l : lo <= m[j] /\ m[j] <= hi
  BY <1>3
<1> DEFINE S == {k \in 0..w : k <= l /\ \A j \in 1..k : m[j] = lo + j - 1}
<1> HIDE DEF l, w
<1>6. 0 \in S
  BY <1>2, <1>4
<1>7. ASSUME NEW k \in 0..(w - 1), k \in S PROVE k + 1 \in S
  <2>1. k \in Nat /\ k + 1 \in 0..w /\ k <= l /\ k + 1 <= w
    BY <1>4, <1>7
  <2>2. lo + k \in 1..n /\ lo + k \in K
    BY <1>4, <2>1 DEF w
  <2>3. PICK i \in 1..l : m[i] = lo + k
    BY <1>3, <2>2
  <2>4. i > k
    <3>1. i \in 1..k => m[i] = lo + i - 1
      BY <1>7
    <3> QED
      BY <1>2, <1>4, <2>1, <2>3, <3>1
  <2>5. k + 1 \in 1..l
    BY <1>2, <2>1, <2>3, <2>4
  <2>6. m[k + 1] <= lo + k
    <3>1. k + 1 < i => m[k + 1] < m[i]
      BY <1>3, <2>5
    <3>2. m[k + 1] \in Nat
      BY <1>3, <2>5
    <3> QED
      BY <1>2, <1>4, <2>1, <2>3, <2>4, <3>1, <3>2
  <2>7. m[k + 1] >= lo + k
    <3>1. m[k + 1] \in Nat /\ m[k + 1] >= lo
      BY <1>3, <1>5, <2>5
    <3>2. k > 0 => m[k] = lo + k - 1 /\ m[k] < m[k + 1]
      <4> SUFFICES ASSUME k > 0 PROVE m[k] = lo + k - 1 /\ m[k] < m[k + 1]
        OBVIOUS
      <4>1. k \in 1..k /\ k \in 1..l /\ k < k + 1
        BY <1>2, <2>1
      <4> QED
        BY <1>3, <1>7, <2>5, <4>1
    <3> QED
      BY <1>4, <2>1, <3>1, <3>2
  <2>8. m[k + 1] = lo + k
    BY <1>3, <1>4, <2>1, <2>5, <2>6, <2>7
  <2>9. \A j \in 1..(k + 1) : m[j] = lo + j - 1
    <3> TAKE j \in 1..(k + 1)
    <3>1. j \in 1..k => m[j] = lo + j - 1
      BY <1>7
    <3> QED
      BY <1>4, <2>1, <2>8, <3>1
  <2> QED
    BY <1>2, <2>1, <2>5, <2>9
<1>8. \A k \in 0..w : k \in S
  <2> HIDE DEF S
  <2> QED
    BY <1>4, <1>6, <1>7, Climb
<1>9. w <= l /\ \A j \in 1..w : m[j] = lo + j - 1
  BY <1>4, <1>8
<1>10. l <= w
  <2> SUFFICES ASSUME w < l PROVE FALSE
    BY <1>2, <1>4
  <2>1. w + 1 \in 1..l
    BY <1>2, <1>4
  <2>2. m[w + 1] \in lo..hi
    BY <1>3, <1>5, <2>1
  <2>3. m[w + 1] - lo + 1 \in 1..w /\ m[w + 1] - lo + 1 < w + 1
    BY <1>4, <2>2 DEF w
  <2>4. m[m[w + 1] - lo + 1] = m[w + 1]
    BY <1>4, <1>9, <2>2, <2>3
  <2>5. m[w + 1] - lo + 1 \in 1..l
    BY <1>2, <1>4, <2>1, <2>3
  <2>6. m[m[w + 1] - lo + 1] < m[w + 1]
    BY <1>3, <2>1, <2>3, <2>5
  <2> QED
    BY <1>4, <2>2, <2>4, <2>6
<1>11. l = w
  BY <1>2, <1>4, <1>9, <1>10
<1>12. \A j \in 1..w : t[j] = s[lo + j - 1]
  BY <1>3, <1>9, <1>11
<1>13. t = [j \in 1..w |-> t[j]]
  BY <1>2, <1>11 DEF l
<1>14. t = [j \in 1..w |-> s[lo + j - 1]]
  BY <1>12, <1>13
<1> QED
  BY <1>14 DEF t, w

-----------------------------------------------------------------------------
(* Every step keeps the invariant.                                         *)

(* A list whose last segment was written to.                               *)
LEMMA LineEnds ==
    ASSUME NEW segs, NEW next, Line(segs, next), NEW w \in Segment,
           w.base = Last(segs).base, Matches(w)
    PROVE  LET r == Append(Front(segs), w)
           IN  /\ Line(r, EndOf(w)) /\ Len(r) = Len(segs)
               /\ r[Len(segs)] = w
               /\ \A i \in 1..(Len(segs) - 1) : r[i] = segs[i]
<1> DEFINE n == Len(segs)
           r == Append(Front(segs), w)
<1>1. segs \in Seq(Segment) /\ n \in Nat /\ n > 0 /\ DOMAIN segs = 1..n
  BY DEF Line
<1>2. /\ r \in Seq(Segment) /\ Len(r) = n /\ DOMAIN r = 1..n /\ r[n] = w
      /\ \A i \in 1..(n - 1) : r[i] = segs[i]
  <2>1. /\ Front(segs) \in Seq(Segment) /\ Len(Front(segs)) = n - 1
        /\ \A i \in 1..(n - 1) : Front(segs)[i] = segs[i]
    BY <1>1 DEF Front
  <2> HIDE DEF n
  <2> QED
    BY <1>1, <2>1
<1>3. w.base = segs[n].base
  BY DEF Last
<1> HIDE DEF n, r
<1>4. \A i \in 1..n : i = n \/ (i \in 1..(n - 1) /\ i < n)
  BY <1>1
<1>5. \A i \in DOMAIN r : Matches(r[i])
  BY <1>1, <1>2, <1>4 DEF Line
<1>6. ASSUME NEW i \in DOMAIN r, NEW j \in DOMAIN r, i < j
      PROVE  /\ EndOf(r[i]) <= r[j].base
             /\ r[i].records > 0 /\ Complete(r[i])
  <2>1. i \in 1..(n - 1) /\ r[i] = segs[i] /\ r[j].base = segs[j].base
    BY <1>1, <1>2, <1>3, <1>4, <1>6
  <2> QED
    BY <1>1, <1>2, <1>6, <2>1 DEF Line
<1>7. r # <<>>
  BY <1>1, <1>2
<1>8. /\ Line(r, EndOf(w)) /\ Len(r) = n /\ r[n] = w
      /\ \A i \in 1..(n - 1) : r[i] = segs[i]
  BY <1>2, <1>5, <1>6, <1>7 DEF Line
<1> QED
  BY <1>8 DEF n, r

(* The list an append goes to, after the roll if one was due.              *)
LEMMA RolledLine ==
    ASSUME SInv, status = "open", ~ failed, NEW size \in FrameSizes
    PROVE  /\ Line(Rolled(size), nextOffset)
           /\ \A i \in DOMAIN Rolled(size) : Remembered(Rolled(size)[i])
           /\ Complete(Rolled(size)[Len(Rolled(size))])
<1> DEFINE n == Len(segments)
           fresh == NewSegment(nextOffset)
           t == Append(segments, fresh)
<1>1. /\ segments \in Seq(Segment) /\ segments # <<>>
      /\ n \in Nat /\ n > 0 /\ DOMAIN segments = 1..n
  BY DEF SInv, Line
<1>2. Line(segments, nextOffset) /\ Complete(segments[n])
      /\ \A i \in 1..n : Remembered(segments[i])
  BY <1>1 DEF SInv, Ending, Current
<1>3. /\ fresh \in Segment /\ Matches(fresh) /\ Complete(fresh)
      /\ Remembered(fresh) /\ EndOf(fresh) = nextOffset
      /\ fresh.base = nextOffset
  <2>1. nextOffset \in Nat /\ now \in Time
    BY SegmentsAssumption DEF SInv, Plain
  <2>2. fresh.base = nextOffset
    BY DEF NewSegment
  <2> QED
    BY <2>1, <2>2, FreshMatches DEF NewSegment
<1>4. CASE Active.records > 0 /\ Active.bytes + size > MaxSegmentBytes
  <2>1. Rolled(size) = t /\ segments[n].records > 0
    BY <1>4 DEF Rolled, Active, Last
  <2> HIDE DEF fresh
  <2>2. /\ t \in Seq(Segment) /\ Len(t) = n + 1 /\ DOMAIN t = 1..(n + 1)
        /\ t[n + 1] = fresh /\ \A i \in 1..n : t[i] = segments[i]
        /\ t # <<>>
    BY <1>1, <1>3
  <2> HIDE DEF t, n
  <2>3. \A i \in 1..(n + 1) : i = n + 1 \/ i \in 1..n
    BY <1>1
  <2>4. \A i \in DOMAIN t : Matches(t[i]) /\ Remembered(t[i]) /\ Complete(t[i])
    <3>1. \A i \in 1..n : Matches(segments[i]) /\ Complete(segments[i])
      <4> TAKE i \in 1..n
      <4>1. i = n \/ (i < n /\ n \in 1..n)
        BY <1>1
      <4> QED
        BY <1>1, <1>2, <4>1 DEF Line
    <3> QED
      BY <1>2, <1>3, <2>2, <2>3, <3>1
  <2>5. ASSUME NEW i \in 1..n
        PROVE  EndOf(segments[i]) <= nextOffset /\ segments[i].records > 0
    <3>1. i = n \/ (i < n /\ n \in 1..n)
      BY <1>1
    <3>2. \A k \in 1..n : /\ segments[k].base \in Nat
                          /\ segments[k].records \in Nat
      <4>1. \A k \in 1..n : segments[k] \in Segment
        BY <1>1
      <4> QED
        BY <4>1 DEF Segment
    <3>3. nextOffset = segments[n].base + segments[n].records
      BY <1>2 DEF Line, EndOf, n
    <3>4. i < n => /\ segments[i].base + segments[i].records
                        <= segments[n].base
                   /\ segments[i].records > 0
      BY <1>1, <1>2 DEF Line, EndOf
    <3> QED
      BY <1>1, <2>1, <3>1, <3>2, <3>3, <3>4 DEF EndOf
  <2>6. ASSUME NEW i \in DOMAIN t, NEW j \in DOMAIN t, i < j
        PROVE  /\ EndOf(t[i]) <= t[j].base
               /\ t[i].records > 0 /\ Complete(t[i])
    <3>1. i \in 1..n /\ t[i] = segments[i]
      BY <1>1, <2>2, <2>6
    <3>2. CASE j = n + 1
      BY <1>3, <2>2, <2>4, <2>5, <3>1, <3>2
    <3>3. CASE j \in 1..n
      BY <1>1, <1>2, <2>2, <2>6, <3>1, <3>3 DEF Line
    <3> QED
      BY <2>2, <2>3, <3>2, <3>3
  <2>7. Line(t, nextOffset)
    BY <1>3, <2>2, <2>4, <2>6 DEF Line
  <2> QED
    BY <1>1, <2>1, <2>2, <2>4, <2>7
<1>5. CASE ~ (Active.records > 0 /\ Active.bytes + size > MaxSegmentBytes)
  <2>1. Rolled(size) = segments
    BY <1>5 DEF Rolled
  <2> QED
    BY <1>1, <1>2, <2>1
<1> QED
  BY <1>4, <1>5

(* Append of a frame that is written whole.                                *)
LEMMA AppendStep ==
    ASSUME SInv, NEW size \in FrameSizes, Append_Record(size)
    PROVE  SInv'
<1> DEFINE target == Rolled(size)
           n == Len(target)
           s == Last(target)
           t == [Written(s, size, size) EXCEPT !.records = @ + 1,
                                               !.bytes = @ + size]
<1>1. /\ status = "open" /\ ~ failed /\ nextOffset < MaxRecords
      /\ segments' = Append(Front(target), t)
      /\ nextOffset' = nextOffset + 1
      /\ UNCHANGED <<status, failed, cfg, now, crashes>>
  BY DEF Append_Record
<1>2. /\ Line(target, nextOffset)
      /\ \A i \in DOMAIN target : Remembered(target[i])
      /\ Complete(target[n])
  BY <1>1, RolledLine
<1>3. Plain
  BY DEF SInv
<1>4. n \in Nat /\ n > 0 /\ DOMAIN target = 1..n /\ n \in 1..n
  <2> HIDE DEF target
  <2> QED
    BY <1>2 DEF Line
<1>5. s \in Segment /\ Matches(s) /\ Complete(s) /\ Remembered(s)
      /\ EndOf(s) = nextOffset
  <2> HIDE DEF target
  <2> QED
    BY <1>2, <1>4 DEF Line, Last
<1>6. /\ t \in Segment /\ t.base = s.base
      /\ Matches(t) /\ Complete(t) /\ Remembered(t)
      /\ EndOf(t) = nextOffset + 1
  <2> HIDE DEF s
  <2> QED
    BY <1>3, <1>5, WholeWrite
<1> HIDE DEF t, s, target
<1>7. /\ Line(segments', nextOffset') /\ Len(segments') = n
      /\ segments'[n] = t
      /\ \A i \in 1..(n - 1) : segments'[i] = target[i]
  BY <1>1, <1>2, <1>6, LineEnds DEF s
<1> HIDE DEF n
<1>8. Plain'
  <2>1. nextOffset' \in 0..MaxRecords
    BY <1>1, <1>3, SegmentsAssumption DEF Plain
  <2> QED
    BY <1>1, <1>3, <2>1 DEF Plain, Time
<1>9. Ending'
  BY <1>1, <1>6, <1>7 DEF Ending
<1>10. \A i \in 1..n : Remembered(segments'[i])
  <2>1. \A i \in 1..n : i = n \/ i \in 1..(n - 1)
    BY <1>4
  <2> QED
    BY <1>2, <1>4, <1>6, <1>7, <2>1
<1>11. Current'
  <2>1. DOMAIN segments' = 1..n
    BY <1>7 DEF Line
  <2> QED
    BY <1>10, <2>1 DEF Current
<1> QED
  BY <1>7, <1>8, <1>9, <1>11 DEF SInv

(* Append of a frame that is cut short.                                    *)
LEMMA ShortWriteStep ==
    ASSUME SInv, NEW size \in FrameSizes, Append_ShortWrite(size)
    PROVE  SInv'
<1> DEFINE target == Rolled(size)
           n == Len(target)
           s == Last(target)
<1>1. PICK cut \in 0..(size - 1) :
         /\ status = "open" /\ ~ failed
         /\ segments' = Append(Front(target), Written(s, size, cut))
         /\ failed' = TRUE
         /\ UNCHANGED <<status, nextOffset, cfg, now, crashes>>
  BY DEF Append_ShortWrite
<1> DEFINE w == Written(s, size, cut)
<1>2. /\ Line(target, nextOffset)
      /\ \A i \in DOMAIN target : Remembered(target[i])
      /\ Complete(target[n])
  BY <1>1, RolledLine
<1>3. Plain
  BY DEF SInv
<1>4. n \in Nat /\ n > 0 /\ DOMAIN target = 1..n /\ n \in 1..n
  <2> HIDE DEF target
  <2> QED
    BY <1>2 DEF Line
<1>5. s \in Segment /\ Matches(s) /\ Complete(s) /\ Remembered(s)
      /\ EndOf(s) = nextOffset
  <2> HIDE DEF target
  <2> QED
    BY <1>2, <1>4 DEF Line, Last
<1>6. /\ w \in Segment /\ w.base = s.base /\ Matches(w)
      /\ Remembered(w) \/ OneAhead(w)
      /\ EndOf(w) = nextOffset
  <2> HIDE DEF s
  <2> QED
    BY <1>3, <1>5, TornWrite
<1>7. segments' = Append(Front(target), w)
  BY <1>1
<1> HIDE DEF w, s, target
<1>8. /\ Line(segments', nextOffset') /\ Len(segments') = n
      /\ segments'[n] = w
      /\ \A i \in 1..(n - 1) : segments'[i] = target[i]
  BY <1>1, <1>2, <1>6, <1>7, LineEnds DEF s
<1> HIDE DEF n
<1>9. Plain'
  BY <1>1, <1>3 DEF Plain, Time
<1>10. Ending'
  BY <1>1 DEF Ending
<1>11. \A i \in 1..n : \/ Remembered(segments'[i])
                       \/ i = n /\ OneAhead(segments'[i])
  <2>1. \A i \in 1..n : i = n \/ i \in 1..(n - 1)
    BY <1>4
  <2> QED
    BY <1>2, <1>4, <1>6, <1>8, <2>1
<1>12. Current'
  <2>1. DOMAIN segments' = 1..n
    BY <1>8 DEF Line
  <2> QED
    BY <1>1, <1>8, <1>11, <2>1 DEF Current
<1> QED
  BY <1>8, <1>9, <1>10, <1>12 DEF SInv

(* A restart: no segment is refused, and the last one lost its torn frame. *)
LEMMA OpenStep ==
    ASSUME SInv, OpenPartition
    PROVE  SInv'
<1> DEFINE n == Len(segments)
<1>1. /\ segments \in Seq(Segment) /\ n \in Nat /\ n > 0
      /\ DOMAIN segments = 1..n /\ n \in 1..n
      /\ \A i \in 1..n : segments[i] \in Segment /\ Matches(segments[i])
  BY DEF SInv, Line
<1>2. Plain /\ status = "down"
  BY DEF SInv, OpenPartition
<1>3. ASSUME NEW i \in 1..n PROVE Acceptable(i)
  <2>1. i # n => Complete(segments[i])
    <3>1. i # n => i < n
      <4> HIDE DEF n
      <4> QED
        BY <1>1
    <3> QED
      BY <1>1, <3>1 DEF SInv, Line
  <2>2. /\ Good(segments[i].file) = segments[i].records
        /\ Decode(segments[i].file, segments[i].records + 1)
             = IF Complete(segments[i]) THEN "EOF" ELSE "unexpected EOF"
    BY <1>1, ScanMatches
  <2> QED
    BY <2>1, <2>2 DEF Acceptable
<1>4. /\ status' = "open"
      /\ segments' = [i \in 1..n |-> Opened(segments[i])]
      /\ nextOffset' = EndOf(Opened(segments[n]))
      /\ UNCHANGED <<failed, cfg, now, crashes>>
  BY <1>1, <1>3 DEF OpenPartition, Active, Last
<1>5. \A i \in 1..n :
         /\ Opened(segments[i]) \in Segment
         /\ Opened(segments[i]).base = segments[i].base
         /\ Opened(segments[i]).records = segments[i].records
         /\ Matches(Opened(segments[i])) /\ Complete(Opened(segments[i]))
         /\ Remembered(Opened(segments[i]))
         /\ EndOf(Opened(segments[i])) = EndOf(segments[i])
  BY <1>1, <1>2, OpenedIs
<1>6. nextOffset' = nextOffset
  BY <1>1, <1>4, <1>5 DEF SInv, Line
<1>7. /\ segments' \in Seq(Segment) /\ Len(segments') = n
      /\ DOMAIN segments' = 1..n /\ segments' # <<>>
      /\ \A i \in 1..n : segments'[i] = Opened(segments[i])
  BY <1>1, <1>4, <1>5
<1>8. Line(segments', nextOffset')
  <2>1. \A i \in DOMAIN segments' : Matches(segments'[i])
    BY <1>5, <1>7
  <2>2. ASSUME NEW i \in 1..n, NEW j \in 1..n, i < j
        PROVE  /\ EndOf(segments'[i]) <= segments'[j].base
               /\ segments'[i].records > 0 /\ Complete(segments'[i])
    <3>1. EndOf(segments[i]) <= segments[j].base /\ segments[i].records > 0
      BY <1>1, <2>2 DEF SInv, Line
    <3> QED
      BY <1>5, <1>7, <3>1
  <2> QED
    BY <1>4, <1>1, <1>7, <2>1, <2>2 DEF Line
<1>9. Plain'
  BY <1>2, <1>4, <1>6 DEF Plain, Time
<1>10. Ending'
  BY <1>1, <1>4, <1>5, <1>7 DEF Ending
<1>11. Current'
  BY <1>5, <1>7 DEF Current
<1> QED
  BY <1>8, <1>9, <1>10, <1>11 DEF SInv

(* The active segment is never among those a pass takes out.               *)
LEMMA DoomedSealed ==
    ASSUME NEW clamp
    PROVE  Doomed(clamp) \subseteq 1..(Len(segments) - 1)
  BY DEF Doomed, SealedBelow

(* What is left after a pass, and where it was before.                     *)
LEMMA PassKeeps ==
    ASSUME SInv, NEW clamp, Retention_Pass(clamp)
    PROVE  LET n == Len(segments)
               l == Len(segments')
           IN  /\ segments' \in Seq(Segment) /\ l \in 1..n
               /\ \E m : /\ Maps(m, n, DOMAIN segments \ Doomed(clamp),
                                 segments, segments')
                         /\ m[l] = n
<1> DEFINE n == Len(segments)
           l == Len(segments')
           K == DOMAIN segments \ Doomed(clamp)
<1>1. /\ segments \in [1..n -> Segment] /\ n \in Nat /\ n > 0
      /\ DOMAIN segments = 1..n
  BY DEF SInv, Line
<1>2. segments' = Picked(segments, K)
  BY DEF Retention_Pass
<1>3. segments' \in Seq(Segment) /\ \E m : Maps(m, n, K, segments, segments')
  <2> HIDE DEF K, n
  <2> QED
    BY <1>1, <1>2, PickedMaps
<1>4. PICK m : Maps(m, n, K, segments, segments')
  BY <1>3
<1>5. n \in K /\ n \in 1..n
  BY <1>1, DoomedSealed
<1> HIDE DEF K
<1>6. l \in Nat /\ m \in [1..l -> 1..n]
  BY <1>3, <1>4 DEF Maps
<1>7. PICK j \in 1..l : m[j] = n
  BY <1>4, <1>5 DEF Maps
<1>8. l \in 1..l /\ m[l] \in 1..n
  BY <1>6, <1>7
<1>9. j = l
  <2>1. j < l => m[j] < m[l]
    BY <1>4, <1>8 DEF Maps
  <2> QED
    BY <1>1, <1>6, <1>7, <1>8, <2>1
<1>10. l <= n
  <2> DEFINE S == {k \in 0..l : k > 0 => k <= m[k]}
  <2>1. 0 \in S
    BY <1>6
  <2>2. ASSUME NEW k \in 0..(l - 1), k \in S PROVE k + 1 \in S
    <3>1. k + 1 \in 1..l /\ k + 1 \in 0..l /\ m[k + 1] \in 1..n
      BY <1>6
    <3>2. k > 0 => k <= m[k] /\ m[k] < m[k + 1] /\ m[k] \in 1..n
      <4> SUFFICES ASSUME k > 0
                   PROVE  k <= m[k] /\ m[k] < m[k + 1] /\ m[k] \in 1..n
        OBVIOUS
      <4>1. k \in 1..l /\ k < k + 1
        BY <1>6
      <4> QED
        BY <1>4, <1>6, <2>2, <3>1, <4>1 DEF Maps
    <3> QED
      BY <3>1, <3>2
  <2> HIDE DEF S
  <2>3. \A k \in 0..l : k \in S
    BY <1>6, <2>1, <2>2, Climb
  <2> QED
    BY <1>6, <1>8, <2>3 DEF S
<1>11. /\ segments' \in Seq(Segment) /\ l \in 1..n
       /\ \E p : Maps(p, n, K, segments, segments') /\ p[l] = n
  BY <1>1, <1>3, <1>4, <1>6, <1>7, <1>9, <1>10
<1> QED
  BY <1>11 DEF K

(* A pass of retention.                                                    *)
LEMMA PassStep ==
    ASSUME SInv, NEW clamp, Retention_Pass(clamp)
    PROVE  SInv'
<1> DEFINE n == Len(segments)
           l == Len(segments')
<1>1. /\ segments \in Seq(Segment) /\ n \in Nat /\ n > 0
      /\ DOMAIN segments = 1..n
  BY DEF SInv, Line
<1>2. segments' \in Seq(Segment) /\ l \in 1..n /\ DOMAIN segments' = 1..l
  <2>1. segments' \in Seq(Segment) /\ l \in 1..n
    BY PassKeeps, Zenon
  <2> QED
    BY <2>1
<1>3. PICK m : /\ Maps(m, n, DOMAIN segments \ Doomed(clamp),
                       segments, segments')
               /\ m[l] = n
  BY PassKeeps
<1>4. /\ \A j \in 1..l : m[j] \in 1..n /\ segments'[j] = segments[m[j]]
      /\ \A i, j \in 1..l : i < j => m[i] < m[j]
  BY <1>3 DEF Maps
<1>5. /\ status = "open" /\ ~ failed
      /\ UNCHANGED <<status, nextOffset, failed, cfg, now, crashes>>
  BY DEF Retention_Pass
<1> HIDE DEF n, l
<1>6. segments'[l] = segments[n]
  BY <1>2, <1>3, <1>4
<1>7. Line(segments', nextOffset')
  <2>1. \A j \in DOMAIN segments' : Matches(segments'[j])
    BY <1>1, <1>2, <1>4 DEF SInv, Line
  <2>2. ASSUME NEW i \in 1..l, NEW j \in 1..l, i < j
        PROVE  /\ EndOf(segments'[i]) <= segments'[j].base
               /\ segments'[i].records > 0 /\ Complete(segments'[i])
    <3>1. /\ m[i] \in DOMAIN segments /\ m[j] \in DOMAIN segments
          /\ m[i] < m[j] /\ segments'[i] = segments[m[i]]
          /\ segments'[j] = segments[m[j]]
      BY <1>1, <1>4, <2>2
    <3> QED
      BY <3>1 DEF SInv, Line
  <2>3. nextOffset' = EndOf(segments'[l])
    BY <1>5, <1>6 DEF SInv, Line, n
  <2>4. segments' # <<>>
    BY <1>1, <1>2
  <2> QED
    BY <1>2, <2>1, <2>2, <2>3, <2>4 DEF Line, l
<1>8. Plain'
  BY <1>5 DEF SInv, Plain, Time
<1>9. Ending'
  BY <1>5, <1>6 DEF SInv, Ending, n, l
<1>10. Current'
  <2>1. \A i \in 1..n : Remembered(segments[i])
    BY <1>1, <1>5 DEF SInv, Current
  <2>2. \A j \in 1..l : Remembered(segments'[j])
    BY <1>4, <2>1
  <2> QED
    BY <1>2, <2>2 DEF Current
<1> QED
  BY <1>7, <1>8, <1>9, <1>10 DEF SInv

(* At the start there is one empty segment.                                *)
LEMMA SInvInit ==
    ASSUME Init
    PROVE  SInv
<1> DEFINE s == [base |-> 0, file |-> <<>>, records |-> 0, bytes |-> 0,
                 index |-> <<>>, lastIndexed |-> 0, mtime |-> 0]
<1>1. 0 \in Nat /\ 0 \in Time /\ 0 \in 0..MaxRecords /\ 0 \in 0..MaxCrashes
  BY SegmentsAssumption DEF Time
<1>2. /\ s \in Segment /\ Matches(s) /\ Complete(s) /\ Remembered(s)
      /\ EndOf(s) = 0
  <2> HIDE DEF s
  <2> QED
    BY <1>1, FreshMatches DEF s
<1>3. segments = <<s>>
  BY DEF Init
<1> HIDE DEF s
<1>4. /\ segments \in Seq(Segment) /\ segments # <<>> /\ Len(segments) = 1
      /\ DOMAIN segments = 1..1 /\ segments[1] = s
  BY <1>2, <1>3
<1>5. Line(segments, nextOffset)
  BY <1>2, <1>4 DEF Init, Line
<1>6. Plain
  BY <1>1 DEF Init, Plain
<1> QED
  BY <1>2, <1>4, <1>5, <1>6 DEF Init, SInv, Ending, Current

(* Every step of the specification.                                        *)
LEMMA SInvNext ==
    ASSUME SInv, [Next]_vars
    PROVE  SInv'
<1>1. ASSUME NEW size \in FrameSizes, Append_Record(size) PROVE SInv'
  BY <1>1, AppendStep
<1>2. ASSUME NEW size \in FrameSizes, Append_ShortWrite(size) PROVE SInv'
  BY <1>2, ShortWriteStep
<1>3. CASE Stop
  <2>1. /\ status' = "down" /\ failed' = FALSE /\ crashes' = crashes + 1
        /\ crashes < MaxCrashes
        /\ UNCHANGED <<segments, nextOffset, cfg, now>>
    BY <1>3 DEF Stop
  <2>2. Plain'
    <3>1. crashes' \in 0..MaxCrashes
      BY <2>1, SegmentsAssumption DEF SInv, Plain
    <3> QED
      BY <2>1, <3>1 DEF SInv, Plain, Time
  <2> QED
    BY <2>1, <2>2 DEF SInv, Ending, Current
<1>4. CASE OpenPartition
  BY <1>4, OpenStep
<1>5. ASSUME NEW clamp \in 0..MaxRecords, Retention_Pass(clamp) PROVE SInv'
  BY <1>5, PassStep
<1>6. CASE Clock
  <2>1. /\ now' \in Time
        /\ UNCHANGED <<status, segments, nextOffset, failed, cfg, crashes>>
    BY <1>6 DEF Clock
  <2>2. Plain'
    BY <2>1 DEF SInv, Plain, Time
  <2> QED
    BY <2>1, <2>2 DEF SInv, Ending, Current
<1>7. CASE UNCHANGED vars
  BY <1>7 DEF vars, SInv, Plain, Ending, Current, Time
<1> QED
  BY <1>1, <1>2, <1>3, <1>4, <1>5, <1>6, <1>7 DEF Next

(* Every state the operations of a partition reach satisfies SInv: memory, *)
(* frames, offsets and indexes agree.                                      *)
THEOREM SInvHolds == Spec => []SInv
<1>1. Init => SInv
  BY SInvInit
<1>2. SInv /\ [Next]_vars => SInv'
  BY SInvNext
<1> QED
  BY <1>1, <1>2, PTL DEF Spec

-----------------------------------------------------------------------------
(* The invariants.                                                         *)

(* Every segment ends at or below the next offset.                         *)
LEMMA EndsBelow ==
    ASSUME SInv, NEW i \in DOMAIN segments
    PROVE  /\ segments[i] \in Segment /\ Matches(segments[i])
           /\ segments[i].base \in Nat /\ segments[i].records \in Nat
           /\ segments[i].base <= EndOf(segments[i])
           /\ EndOf(segments[i]) \in Nat /\ EndOf(segments[i]) <= nextOffset
<1> DEFINE n == Len(segments)
<1>1. /\ segments \in Seq(Segment) /\ n \in Nat /\ n \in DOMAIN segments
      /\ DOMAIN segments = 1..n
  BY DEF SInv, Line
<1>2. ASSUME NEW k \in DOMAIN segments
      PROVE  /\ segments[k].base \in Nat /\ segments[k].records \in Nat
             /\ segments[k].base <= EndOf(segments[k])
             /\ EndOf(segments[k]) \in Nat
  <2>1. segments[k] \in Segment
    BY <1>1
  <2> QED
    BY <2>1 DEF Segment, EndOf
<1>3. i = n \/ i < n
  <2> HIDE DEF n
  <2> QED
    BY <1>1
<1>4. nextOffset = EndOf(segments[n])
  BY DEF SInv, Line
<1>5. i < n => EndOf(segments[i]) <= segments[n].base
  BY <1>1 DEF SInv, Line
<1> HIDE DEF n
<1>6. EndOf(segments[i]) <= nextOffset
  BY <1>1, <1>2, <1>3, <1>4, <1>5
<1> QED
  BY <1>1, <1>2, <1>6 DEF SInv, Line

(* Types, and memory within the file, as the run's TypeOK says.            *)
LEMMA SInvTypes ==
    ASSUME SInv
    PROVE  TypeOK
<1>1. ASSUME NEW i \in DOMAIN segments
      PROVE  LET s == segments[i]
             IN  /\ s.base \in 0..MaxRecords /\ s.mtime \in Time
                 /\ s.records \in 0..Len(s.file)
                 /\ s.bytes \in 0..Position(s.file, Len(s.file) + 1)
                 /\ \A j \in DOMAIN s.file :
                       /\ s.file[j].size \in FrameSizes
                       /\ s.file[j].has \in 1..s.file[j].size
  <2> DEFINE s == segments[i]
             l == Len(s.file)
  <2>1. /\ s \in Segment /\ Matches(s) /\ s.base \in Nat
        /\ s.base <= EndOf(s) /\ EndOf(s) \in Nat /\ EndOf(s) <= nextOffset
    BY EndsBelow
  <2> HIDE DEF s
  <2>2. s.base \in 0..MaxRecords /\ s.mtime \in Time
    BY <2>1, SegmentsAssumption DEF SInv, Plain, Segment
  <2>3. /\ Sized(s.file) /\ s.records \in 0..l /\ l \in Nat
        /\ s.file \in Seq(Chunk) /\ s.bytes = Position(s.file, s.records + 1)
    BY <2>1 DEF Matches, Sized
  <2>4. s.bytes \in 0..Position(s.file, l + 1)
    <3>1. s.records + 1 \in 1..(l + 1) /\ l + 1 \in 1..(l + 1)
      BY <2>3
    <3>2. /\ Position(s.file, s.records + 1) \in Nat
          /\ Position(s.file, l + 1) \in Nat
      BY <2>3, <3>1, PositionSteps
    <3>3. s.records + 1 < l + 1
             => Position(s.file, s.records + 1) < Position(s.file, l + 1)
      BY <2>3, <3>1, PositionGrows
    <3>4. s.records + 1 = l + 1 \/ s.records + 1 < l + 1
      BY <2>3
    <3> HIDE DEF l
    <3> QED
      BY <2>3, <3>2, <3>3, <3>4
  <2>5. \A j \in DOMAIN s.file : /\ s.file[j].size \in FrameSizes
                                 /\ s.file[j].has \in 1..s.file[j].size
    <3> TAKE j \in DOMAIN s.file
    <3>1. s.file[j] \in Chunk
      BY <2>3
    <3> QED
      BY <2>3, <3>1 DEF Sized, Chunk
  <2>6. /\ s.base \in 0..MaxRecords /\ s.mtime \in Time
        /\ s.records \in 0..Len(s.file)
        /\ s.bytes \in 0..Position(s.file, Len(s.file) + 1)
        /\ \A j \in DOMAIN s.file : /\ s.file[j].size \in FrameSizes
                                    /\ s.file[j].has \in 1..s.file[j].size
    BY <2>2, <2>3, <2>4, <2>5
  <2> QED
    BY <2>6 DEF s
<1> QED
  BY <1>1 DEF TypeOK, SInv, Plain, Line

(* Memory's count and size of a segment never pass what its file holds.    *)
THEOREM TypeOKHolds == Spec => []TypeOK
<1>1. SInv => TypeOK
  BY SInvTypes
<1> QED
  BY <1>1, SInvHolds, PTL

(* openPartition never refuses a log of its own making: a frame cut at any *)
(* byte is recognised, and is only ever at the end of the last file.       *)
THEOREM OpenAcceptsHolds == Spec => []OpenAccepts
<1>1. SInv => OpenAccepts
  BY DEF SInv, Plain, OpenAccepts
<1> QED
  BY <1>1, SInvHolds, PTL

(* The index that appends built is the one a scan of the file builds, so   *)
(* that a restart changes nothing about it.                                *)
THEOREM RebuildAgreesHolds == Spec => []RebuildAgrees
<1>1. SInv => RebuildAgrees
  BY DEF SInv, Current, Remembered, RebuildAgrees
<1> QED
  BY <1>1, SInvHolds, PTL

(* An entry too many does not change where a read of a record begins.      *)
LEMMA LookupCurrent ==
    ASSUME NEW s \in Segment, Matches(s), Remembered(s) \/ OneAhead(s),
           NEW target \in 0..(s.records - 1)
    PROVE  LookupIndex(s.index, target)
              = LookupIndex(ScanIndex(s.file).index, target)
<1>1. CASE Remembered(s)
  <2>1. s.index = ScanIndex(s.file).index
    <3> DEFINE x == ScanIndex(s.file)
    <3>1. [index |-> s.index, last |-> s.lastIndexed] = x
      BY <1>1 DEF Remembered
    <3> HIDE DEF x
    <3>2. s.index = x.index
      BY <3>1
    <3> QED
      BY <3>2 DEF x
  <2> QED
    BY <2>1
<1>2. CASE OneAhead(s)
  <2> DEFINE index == ScanIndex(s.file).index
             e == [rel |-> s.records, position |-> s.bytes]
  <2>1. index \in Seq(Entry)
    BY ScanMatches DEF Scan
  <2>2. e \in Entry /\ e.rel = s.records /\ s.records \in Nat
    BY DEF Segment, Entry
  <2>3. target \in Nat /\ e.rel > target
    BY <2>2
  <2>4. s.index = Append(index, e)
    BY <1>2 DEF OneAhead
  <2> HIDE DEF index, e
  <2>5. LookupIndex(s.index, target) = LookupIndex(index, target)
    BY <2>1, <2>2, <2>3, <2>4, LookupSame
  <2> QED
    BY <2>5 DEF index
<1> QED
  BY <1>1, <1>2

(* Where a read of the k-th record of a segment begins.                    *)
LEMMA SeekFrom ==
    ASSUME NEW s \in Segment, Matches(s), Remembered(s) \/ OneAhead(s),
           NEW k \in 1..s.records
    PROVE  LET e == LookupIndex(s.index, k - 1)
           IN  /\ e.rel \in 0..(k - 1)
               /\ e.position = Position(s.file, e.rel + 1)
               /\ Position(s.file, k) - e.position < IndexInterval
<1> DEFINE x == ScanIndex(s.file)
<1>1. /\ Sized(s.file) /\ s.records \in 0..Len(s.file) /\ s.records \in Nat
      /\ Sparse(s.file, s.records, x) /\ k - 1 \in 0..(s.records - 1)
  <2>1. s.records \in Nat
    BY DEF Segment
  <2>2. k - 1 \in 0..(s.records - 1)
    BY <2>1
  <2> QED
    BY <2>1, <2>2, ScanMatches DEF Matches
<1> HIDE DEF x
<1>2. LookupIndex(s.index, k - 1) = LookupIndex(x.index, k - 1)
  BY <1>1, LookupCurrent DEF x
<1>3. LET e == LookupIndex(x.index, k - 1)
      IN  /\ e.rel \in 0..(k - 1) /\ e.position = Position(s.file, e.rel + 1)
          /\ Position(s.file, k) - e.position < IndexInterval
  BY <1>1, LookupShort
<1> QED
  BY <1>2, <1>3

(* The segments of an open partition have a current index.                 *)
LEMMA OpenIsCurrent ==
    ASSUME SInv, status = "open", NEW i \in DOMAIN segments
    PROVE  Remembered(segments[i]) \/ OneAhead(segments[i])
  BY DEF SInv, Current

(* A read scans less than one index interval before its first record, at   *)
(* any time, also after restarts and after a failed append.                *)
THEOREM SeeksAreShortHolds == Spec => []SeeksAreShort
<1>1. ASSUME SInv PROVE SeeksAreShort
  <2> SUFFICES ASSUME status = "open", NEW i \in DOMAIN segments,
                      NEW k \in 1..segments[i].records
               PROVE  Position(segments[i].file, k)
                         - LookupIndex(segments[i].index, k - 1).position
                      < IndexInterval
    BY DEF SeeksAreShort
  <2>1. /\ segments[i] \in Segment /\ Matches(segments[i])
        /\ Remembered(segments[i]) \/ OneAhead(segments[i])
    BY <1>1, EndsBelow, OpenIsCurrent
  <2> QED
    BY <2>1, SeekFrom
<1> QED
  BY <1>1, SInvHolds, PTL

-----------------------------------------------------------------------------
(* Reads through the index.                                                *)

(* The zero entry or one of the index's: never a negative position.        *)
LEMMA LookupTyped ==
    ASSUME NEW index \in Seq(Entry), NEW target \in Nat
    PROVE  LookupIndex(index, target) \in Entry
<1>1. CASE \E i \in DOMAIN index : index[i].rel <= target
  <2>1. PICK i \in DOMAIN index : LookupIndex(index, target) = index[i]
    BY <1>1, LookupLast
  <2> QED
    BY <2>1
<1>2. CASE ~ \E i \in DOMAIN index : index[i].rel <= target
  <2>1. {i \in DOMAIN index : index[i].rel <= target} = {}
    BY <1>2
  <2>2. LookupIndex(index, target) = [rel |-> 0, position |-> 0]
    BY <2>1 DEF LookupIndex
  <2> QED
    BY <2>2 DEF Entry
<1> QED
  BY <1>1, <1>2

(* A position of a file's is that of one chunk.                            *)
LEMMA ChunkFound ==
    ASSUME NEW file, Sized(file), NEW i \in DOMAIN file
    PROVE  ChunkAt(file, Position(file, i)) = i
<1>1. DOMAIN file = 1..Len(file) /\ Len(file) \in Nat
  BY DEF Sized
<1>2. ASSUME NEW j \in DOMAIN file, Position(file, j) = Position(file, i)
      PROVE  j = i
  <2>1. i \in 1..(Len(file) + 1) /\ j \in 1..(Len(file) + 1)
    BY <1>1
  <2>2. /\ i < j => Position(file, i) < Position(file, j)
        /\ j < i => Position(file, j) < Position(file, i)
    BY <2>1, PositionGrows
  <2>3. Position(file, i) \in Nat
    BY <2>1, PositionSteps
  <2> QED
    BY <1>2, <2>1, <2>2, <2>3
<1> DEFINE at == {j \in DOMAIN file : Position(file, j) = Position(file, i)}
<1>3. at = {i}
  BY <1>2
<1>4. ChunkAt(file, Position(file, i))
         = IF at = {} THEN 0 ELSE CHOOSE j \in at : TRUE
  BY DEF ChunkAt
<1> HIDE DEF at
<1> QED
  BY <1>3, <1>4

(* The whole frames of a file from an offset on.                           *)
Whole(file, offset) ==
    Picked([k \in DOMAIN file |-> [off |-> file[k].off, chunk |-> file[k]]],
           {k \in DOMAIN file : /\ file[k].off >= offset
                                /\ file[k].has = file[k].size})

(* Counting the frames of a segment with base b and r records from its     *)
(* lo-th on, in the file and from an index entry with rel e.               *)
LEMMA Counting ==
    ASSUME NEW r \in Nat, NEW b \in Nat, NEW lo \in 1..(r + 1)
    PROVE  /\ \A j \in 1..(r - lo + 1) :
                 lo + j - 1 \in 1..r /\ b + (lo + j - 1) - 1 = b + lo + j - 2
           /\ \A e \in 0..(lo - 1) : e < r =>
                 /\ r - e \in Nat /\ lo - e \in 1..(r - e + 1)
                 /\ r - e \in (lo - e - 1)..(r - e)
                 /\ r - e - (lo - e) + 1 = r - lo + 1
                 /\ \A j \in 1..(r - e) :
                       /\ e + j \in 1..r /\ b + e + j - 1 \in Nat
                       /\ b + e + j - 1 >= b + lo - 1
                             <=> lo - e <= j /\ j <= r - e
                 /\ \A j \in 1..(r - lo + 1) :
                       /\ lo - e + j - 1 \in 1..(r - e)
                       /\ e + (lo - e + j - 1) = lo + j - 1
                       /\ b + e + (lo - e + j - 1) - 1 = b + lo + j - 2
<1>1. ASSUME NEW j \in 1..(r - lo + 1)
      PROVE  lo + j - 1 \in 1..r /\ b + (lo + j - 1) - 1 = b + lo + j - 2
  OBVIOUS
<1>2. ASSUME NEW e \in 0..(lo - 1), e < r
      PROVE  /\ r - e \in Nat /\ lo - e \in 1..(r - e + 1)
             /\ r - e \in (lo - e - 1)..(r - e)
             /\ r - e - (lo - e) + 1 = r - lo + 1
  BY <1>2
<1>3. ASSUME NEW e \in 0..(lo - 1), e < r, NEW j \in 1..(r - e)
      PROVE  /\ e + j \in 1..r /\ b + e + j - 1 \in Nat
             /\ b + e + j - 1 >= b + lo - 1 <=> lo - e <= j /\ j <= r - e
  BY <1>3
<1>4. ASSUME NEW e \in 0..(lo - 1), e < r, NEW j \in 1..(r - lo + 1)
      PROVE  /\ lo - e + j - 1 \in 1..(r - e)
             /\ e + (lo - e + j - 1) = lo + j - 1
             /\ b + e + (lo - e + j - 1) - 1 = b + lo + j - 2
  BY <1>4
<1> QED
  BY <1>1, <1>2, <1>3, <1>4

(* They are a stretch of it up to the last whole frame, which is empty if  *)
(* the segment ends at or below the offset.                                *)
LEMMA WholeStretch ==
    ASSUME NEW s \in Segment, Matches(s), NEW offset \in Nat
    PROVE  /\ EndOf(s) <= offset => Whole(s.file, offset) = <<>>
           /\ \A lo \in 1..(s.records + 1) :
                 (\A k \in 1..s.records : s.base + k - 1 >= offset <=> k >= lo)
                 => Whole(s.file, offset)
                       = [j \in 1..(s.records - lo + 1) |->
                             [off |-> s.base + lo + j - 2,
                              chunk |-> s.file[lo + j - 1]]]
<1> DEFINE n == Len(s.file)
           T == [off : Nat, chunk : Chunk]
           r == s.records
           all == [k \in 1..n |-> [off |-> s.file[k].off, chunk |-> s.file[k]]]
           K == {k \in 1..n : /\ s.file[k].off >= offset
                              /\ s.file[k].has = s.file[k].size}
<1>1. /\ s.file \in Seq(Chunk) /\ n \in Nat /\ DOMAIN s.file = 1..n
      /\ r \in 0..n /\ r \in Nat /\ s.base \in Nat
  BY DEF Segment, Matches
<1>2. \A k \in 1..n : /\ s.file[k] \in Chunk /\ s.file[k].off \in Nat
                      /\ s.file[k].off = s.base + k - 1
                      /\ s.file[k].has = s.file[k].size <=> k <= r
  <2>1. \A k \in 1..n : s.file[k] \in Chunk
    BY <1>1
  <2> QED
    BY <1>1, <2>1 DEF Chunk, Matches
<1>3. all \in [1..n -> T]
  BY <1>2
<1>4. Whole(s.file, offset) = Picked(all, K)
  BY <1>1 DEF Whole
<1>5. \A k \in 1..n : k \in K <=> s.base + k - 1 >= offset /\ k <= r
  BY <1>2
<1>6. \A k \in 1..n : all[k] = [off |-> s.base + k - 1, chunk |-> s.file[k]]
  BY <1>2
<1> HIDE DEF all, K, T, n
<1>7. ASSUME EndOf(s) <= offset PROVE Whole(s.file, offset) = <<>>
  <2>1. \A k \in 1..n : k \in K <=> 1 <= k /\ k <= 0
    <3> TAKE k \in 1..n
    <3>1. ~ (s.base + k - 1 >= offset /\ k <= r)
      BY <1>1, <1>7 DEF EndOf
    <3> QED
      BY <1>5, <3>1
  <2>2. 1 \in 1..(n + 1) /\ 0 \in (1 - 1)..n
    BY <1>1
  <2>3. Picked(all, K) = [j \in 1..(0 - 1 + 1) |-> all[1 + j - 1]]
    <3>1. Stretch(n, T, all, K, 1, 0)
      BY <1>1, <1>3, <2>1, <2>2 DEF Stretch
    <3> QED
      BY <3>1, PickedStretch
  <2>4. 0 - 1 + 1 = 0
    OBVIOUS
  <2>5. [j \in 1..0 |-> all[1 + j - 1]] = <<>>
    OBVIOUS
  <2> QED
    BY <1>4, <2>3, <2>4, <2>5
<1>8. ASSUME NEW lo \in 1..(r + 1),
             \A k \in 1..r : s.base + k - 1 >= offset <=> k >= lo
      PROVE  Whole(s.file, offset)
                = [j \in 1..(r - lo + 1) |->
                      [off |-> s.base + lo + j - 2,
                       chunk |-> s.file[lo + j - 1]]]
  <2>1. lo \in 1..(n + 1) /\ r \in (lo - 1)..n /\ lo \in Nat
    BY <1>1
  <2>2. \A k \in 1..n : k \in K <=> lo <= k /\ k <= r
    <3> TAKE k \in 1..n
    <3>1. k <= r => k \in 1..r
      BY <1>1
    <3> QED
      BY <1>5, <1>8, <2>1, <3>1
  <2>3. Picked(all, K) = [j \in 1..(r - lo + 1) |-> all[lo + j - 1]]
    <3>1. Stretch(n, T, all, K, lo, r)
      BY <1>1, <1>3, <2>1, <2>2 DEF Stretch
    <3> HIDE DEF r
    <3> QED
      BY <3>1, PickedStretch
  <2>4. ASSUME NEW j \in 1..(r - lo + 1)
        PROVE  all[lo + j - 1] = [off |-> s.base + lo + j - 2,
                                  chunk |-> s.file[lo + j - 1]]
    <3>1. /\ lo + j - 1 \in 1..r
          /\ s.base + (lo + j - 1) - 1 = s.base + lo + j - 2
      <4> HIDE DEF r
      <4> QED
        BY <1>1, Counting
    <3>2. lo + j - 1 \in 1..n
      BY <1>1, <3>1
    <3> QED
      BY <1>6, <3>1, <3>2
  <2> HIDE DEF r
  <2> QED
    BY <1>4, <2>3, <2>4
<1> QED
  BY <1>7, <1>8

(* Reading one segment finds the same frames under the same offsets.       *)
LEMMA ScanFromWhole ==
    ASSUME NEW s \in Segment, Matches(s), Remembered(s) \/ OneAhead(s),
           NEW offset \in Nat, EndOf(s) > offset
    PROVE  ScanFrom(s, offset) = Whole(s.file, offset)
<1> DEFINE start == IF offset < s.base THEN s.base ELSE offset
           entry == LookupIndex(s.index, start - s.base)
           first == ChunkAt(s.file, entry.position)
           r == s.records
           n == r - entry.rel
           decoded == [j \in 1..n |-> [off |-> s.base + entry.rel + j - 1,
                                       chunk |-> s.file[first + j - 1]]]
           K == {j \in 1..n : decoded[j].off >= start}
           lo == start - s.base + 1
           T == [off : Nat, chunk : Chunk]
<1>1. /\ s.file \in Seq(Chunk) /\ Sized(s.file) /\ Len(s.file) \in Nat
      /\ DOMAIN s.file = 1..Len(s.file)
      /\ r \in 0..Len(s.file) /\ r \in Nat /\ s.base \in Nat
      /\ s.index \in Seq(Entry) /\ EndOf(s) = s.base + r
  BY DEF Segment, Matches, EndOf
<1>2. start \in Nat /\ start - s.base \in Nat
  BY <1>1
<1>3. DOMAIN decoded = 1..n /\ ScanFrom(s, offset) = Picked(decoded, K)
  BY DEF ScanFrom
<1>4. entry \in Entry /\ entry.rel \in Nat
  <2> HIDE DEF start
  <2>1. entry \in Entry
    BY <1>1, <1>2, LookupTyped
  <2> QED
    BY <2>1 DEF Entry
<1>5. lo \in 1..(r + 1)
  BY <1>1
<1>6. \A k \in 1..r : s.base + k - 1 >= offset <=> k >= lo
  BY <1>1
<1>7. start = s.base + lo - 1
  BY <1>1
<1> HIDE DEF start
<1>8. Whole(s.file, offset)
         = [j \in 1..(r - lo + 1) |-> [off |-> s.base + lo + j - 2,
                                       chunk |-> s.file[lo + j - 1]]]
  <2> HIDE DEF lo
  <2> QED
    BY <1>5, <1>6, WholeStretch
<1>9. CASE r = 0
  <2>1. 1..n = {} /\ 1..(r - lo + 1) = {}
    BY <1>4, <1>5, <1>9
  <2>2. decoded = <<>>
    BY <2>1
  <2>3. Picked(decoded, K) = <<>>
    <3> HIDE DEF decoded, K
    <3>1. 0 \in Nat /\ decoded \in [1..0 -> T]
      BY <2>2
    <3>2. 1 \in 1..(0 + 1) /\ 0 \in (1 - 1)..0
      OBVIOUS
    <3>3. \A i \in 1..0 : i \in K <=> 1 <= i /\ i <= 0
      OBVIOUS
    <3>4. Stretch(0, T, decoded, K, 1, 0)
      BY <3>1, <3>2, <3>3 DEF Stretch
    <3>5. Picked(decoded, K) = [j \in 1..(0 - 1 + 1) |-> decoded[1 + j - 1]]
      BY <3>4, PickedStretch
    <3> QED
      BY <3>5
  <2>4. Whole(s.file, offset) = <<>>
    BY <1>8, <2>1
  <2> QED
    BY <1>3, <2>3, <2>4
<1>10. CASE r > 0
  <2>1. lo \in 1..r /\ start - s.base = lo - 1
    <3>1. start < s.base + r
      BY <1>1, <1>10 DEF start
    <3> QED
      BY <1>1, <1>2, <1>5, <3>1
  <2>2. /\ entry.rel \in 0..(lo - 1)
        /\ entry.position = Position(s.file, entry.rel + 1)
    <3> HIDE DEF lo
    <3> QED
      BY <2>1, SeekFrom
  <2> HIDE DEF entry
  <2>3. first = entry.rel + 1
    <3>1. entry.rel + 1 \in DOMAIN s.file
      BY <1>1, <1>4, <2>1, <2>2
    <3> QED
      BY <1>1, <2>2, <3>1, ChunkFound
  <2> HIDE DEF first
  <2>4. \A j \in 1..n :
           decoded[j] = [off |-> s.base + entry.rel + j - 1,
                         chunk |-> s.file[entry.rel + j]]
    <3> TAKE j \in 1..n
    <3>1. first + j - 1 = entry.rel + j
      BY <1>1, <1>4, <2>3
    <3> QED
      BY <3>1
  <2> DEFINE e == entry.rel
             from == lo - e
  <2>5. /\ n \in Nat /\ from \in 1..(n + 1) /\ n \in (from - 1)..n
        /\ n - from + 1 = r - lo + 1
        /\ \A j \in 1..n :
              /\ e + j \in 1..r /\ s.base + e + j - 1 \in Nat
              /\ s.base + e + j - 1 >= start <=> from <= j /\ j <= n
        /\ \A j \in 1..(r - lo + 1) :
              /\ from + j - 1 \in 1..n
              /\ e + (from + j - 1) = lo + j - 1
              /\ s.base + e + (from + j - 1) - 1 = s.base + lo + j - 2
    <3>1. e \in 0..(lo - 1) /\ e < r
      BY <1>1, <1>4, <2>1, <2>2
    <3>2. r \in Nat /\ s.base \in Nat /\ lo \in 1..(r + 1)
      BY <1>1, <1>5
    <3> HIDE DEF lo, r, e
    <3>3. /\ r - e \in Nat /\ lo - e \in 1..(r - e + 1)
          /\ r - e \in (lo - e - 1)..(r - e)
          /\ r - e - (lo - e) + 1 = r - lo + 1
          /\ \A j \in 1..(r - e) :
                /\ e + j \in 1..r /\ s.base + e + j - 1 \in Nat
                /\ s.base + e + j - 1 >= s.base + lo - 1
                      <=> lo - e <= j /\ j <= r - e
          /\ \A j \in 1..(r - lo + 1) :
                /\ lo - e + j - 1 \in 1..(r - e)
                /\ e + (lo - e + j - 1) = lo + j - 1
                /\ s.base + e + (lo - e + j - 1) - 1 = s.base + lo + j - 2
      BY <3>1, <3>2, Counting
    <3>4. n = r - e
      BY DEF e
    <3> HIDE DEF n
    <3> QED
      BY <1>7, <3>3, <3>4
  <2>6. \A j \in 1..n : /\ s.base + entry.rel + j - 1 \in Nat
                        /\ s.file[entry.rel + j] \in Chunk
    <3> TAKE j \in 1..n
    <3>1. entry.rel + j \in 1..r /\ s.base + entry.rel + j - 1 \in Nat
      BY <2>5
    <3>2. entry.rel + j \in DOMAIN s.file
      BY <1>1, <3>1
    <3> QED
      BY <1>1, <3>1, <3>2
  <2>7. decoded \in [1..n -> T]
    BY <2>4, <2>6
  <2>8. \A j \in 1..n : j \in K <=> from <= j /\ j <= n
    <3> TAKE j \in 1..n
    <3>1. j \in K <=> s.base + e + j - 1 >= start
      <4>1. decoded[j].off = s.base + e + j - 1
        BY <2>4
      <4> HIDE DEF decoded
      <4> QED
        BY <4>1
    <3> HIDE DEF K, n, from, e
    <3> QED
      BY <2>5, <3>1
  <2>9. Picked(decoded, K) = [j \in 1..(n - from + 1) |-> decoded[from + j - 1]]
    <3> HIDE DEF decoded, K, n, from, T
    <3>1. n \in Nat /\ from \in 1..(n + 1) /\ n \in (from - 1)..n
      BY <2>5
    <3>2. \A j \in 1..n : j \in K <=> from <= j /\ j <= n
      BY <2>8
    <3>3. Stretch(n, T, decoded, K, from, n)
      BY <2>7, <3>1, <3>2 DEF Stretch
    <3> QED
      BY <3>3, PickedStretch
  <2>10. ASSUME NEW j \in 1..(r - lo + 1)
         PROVE  decoded[from + j - 1]
                   = [off |-> s.base + lo + j - 2,
                      chunk |-> s.file[lo + j - 1]]
    <3>1. /\ from + j - 1 \in 1..n
          /\ s.base + entry.rel + (from + j - 1) - 1 = s.base + lo + j - 2
          /\ entry.rel + (from + j - 1) = lo + j - 1
      BY <2>5
    <3> HIDE DEF decoded, from, n
    <3> QED
      BY <2>4, <3>1
  <2> HIDE DEF decoded, K
  <2>11. n - from + 1 = r - lo + 1
    BY <2>5
  <2> HIDE DEF from, n, r, lo
  <2> QED
    BY <1>3, <1>8, <2>9, <2>10, <2>11
<1> QED
  BY <1>1, <1>9, <1>10

(* However the index came about, the frames a fetch finds are those that a *)
(* scan of everything would, under the same offsets.                       *)
LEMMA ReadsSurviving ==
    ASSUME SInv, status = "open",
           NEW offset \in segments[1].base..(nextOffset - 1),
           NEW maxRecords, NEW maxBytes
    PROVE  ReadFrom(offset, maxRecords, maxBytes)
              = Budgeted(Surviving(offset), maxRecords, maxBytes)
<1> DEFINE n == Len(segments)
           reached(i) == \E j \in 1..i : EndOf(segments[j]) > offset
           found == [i \in 1..n |-> IF reached(i)
                                    THEN ScanFrom(segments[i], offset)
                                    ELSE <<>>]
           whole == [i \in 1..n |-> Whole(segments[i].file, offset)]
<1>1. n \in Nat /\ n > 0 /\ DOMAIN segments = 1..n /\ 1 \in 1..n
  BY DEF SInv, Line
<1>2. \A i \in 1..n : /\ segments[i] \in Segment /\ Matches(segments[i])
                      /\ EndOf(segments[i]) \in Nat
                      /\ segments[i].base \in Nat
                      /\ segments[i].base <= EndOf(segments[i])
  BY <1>1, EndsBelow
<1>3. offset \in Nat /\ offset # nextOffset
  <2>1. nextOffset \in Nat /\ segments[1].base \in Nat
    BY <1>1, <1>2 DEF SInv, Plain
  <2> QED
    BY <2>1
<1>4. ASSUME NEW i \in 1..n PROVE found[i] = whole[i]
  <2>1. reached(i) <=> EndOf(segments[i]) > offset
    <3>1. ASSUME NEW j \in 1..i, EndOf(segments[j]) > offset
          PROVE  EndOf(segments[i]) > offset
      <4>1. j \in 1..n /\ (j = i \/ j < i)
        BY <1>1
      <4>2. j < i => EndOf(segments[j]) <= segments[i].base
        BY <1>1, <4>1 DEF SInv, Line
      <4> QED
        BY <1>2, <1>3, <3>1, <4>1, <4>2
    <3>2. i \in 1..i
      OBVIOUS
    <3> QED
      BY <3>1, <3>2
  <2>2. CASE EndOf(segments[i]) > offset
    <3>1. Remembered(segments[i]) \/ OneAhead(segments[i])
      BY <1>1, OpenIsCurrent
    <3>2. ScanFrom(segments[i], offset) = Whole(segments[i].file, offset)
      BY <1>2, <1>3, <2>2, <3>1, ScanFromWhole
    <3> HIDE DEF reached
    <3> QED
      BY <2>1, <2>2, <3>2
  <2>3. CASE ~ (EndOf(segments[i]) > offset)
    <3>1. EndOf(segments[i]) <= offset
      BY <1>2, <1>3, <2>3
    <3>2. Whole(segments[i].file, offset) = <<>>
      BY <1>2, <1>3, <3>1, WholeStretch
    <3> HIDE DEF reached
    <3> QED
      BY <2>1, <2>3, <3>2
  <2> QED
    BY <2>2, <2>3
<1>5. ReadFrom(offset, maxRecords, maxBytes)
         = Budgeted(FlattenSeq(found), maxRecords, maxBytes)
  BY <1>1, <1>3 DEF ReadFrom
<1>6. Surviving(offset) = FlattenSeq(whole)
  BY <1>1 DEF Surviving, Whole
<1>7. found = whole
  <2> HIDE DEF reached
  <2> QED
    BY <1>4
<1> QED
  BY <1>5, <1>6, <1>7

(* A fetch through the sparse index finds exactly the records a scan of    *)
(* every file would, after any appends, short writes, restarts and passes  *)
(* of retention.                                                           *)
THEOREM ReadsAgreeHolds == Spec => []ReadsAgree
<1>1. SInv => ReadsAgree
  BY ReadsSurviving DEF ReadsAgree
<1> QED
  BY <1>1, SInvHolds, PTL

(* The same for every number of records and bytes a fetch may ask for, of  *)
(* which the run tries four pairs: ReadFrom returns what the files hold    *)
(* from the offset on, cut to that budget.                                 *)
THEOREM ReadsAgreeForAnyBudget ==
    Spec => [](status = "open" =>
        \A offset \in segments[1].base..(nextOffset - 1),
           maxRecords \in Nat \ {0}, maxBytes \in Nat \ {0} :
              ReadFrom(offset, maxRecords, maxBytes)
                  = Budgeted(Surviving(offset), maxRecords, maxBytes))
<1> DEFINE Agrees ==
              status = "open" =>
                  \A offset \in segments[1].base..(nextOffset - 1),
                     maxRecords \in Nat \ {0}, maxBytes \in Nat \ {0} :
                        ReadFrom(offset, maxRecords, maxBytes)
                            = Budgeted(Surviving(offset), maxRecords, maxBytes)
<1>1. SInv => Agrees
  BY ReadsSurviving
<1> QED
  BY <1>1, SInvHolds, PTL

-----------------------------------------------------------------------------
(* What retention deletes, and what it leaves.                             *)

(* p picks l of n positions, in their order.                               *)
Rising(l, n, p) ==
    /\ l \in Nat /\ n \in Nat /\ p \in [1..l -> 1..n]
    /\ \A i, j \in 1..l : i < j => p[i] < p[j]

(* A function whose steps never go down never goes down.                   *)
LEMMA NeverFalls ==
    ASSUME NEW n \in Nat, NEW f \in [0..n -> Nat],
           \A i \in 1..n : f[i - 1] <= f[i],
           NEW i \in 0..n, NEW j \in i..n
    PROVE  f[i] <= f[j]
<1> DEFINE S == {k \in 0..(n - i) : f[i] <= f[i + k]}
<1>1. 0 \in S /\ n - i \in Nat
  OBVIOUS
<1>2. ASSUME NEW k \in 0..((n - i) - 1), k \in S PROVE k + 1 \in S
  <2>1. i + k \in 0..n /\ i + (k + 1) \in 1..n /\ k + 1 \in 0..(n - i)
        /\ (i + (k + 1)) - 1 = i + k
    OBVIOUS
  <2>2. f[i + k] <= f[i + (k + 1)] /\ f[i] <= f[i + k]
    BY <1>2, <2>1
  <2>3. f[i] \in Nat /\ f[i + k] \in Nat /\ f[i + (k + 1)] \in Nat
    BY <2>1
  <2> QED
    BY <2>1, <2>2, <2>3
<1> HIDE DEF S
<1>3. \A k \in 0..(n - i) : k \in S
  BY <1>1, <1>2, Climb
<1>4. j - i \in 0..(n - i) /\ i + (j - i) = j
  OBVIOUS
<1> QED
  BY <1>3, <1>4 DEF S

(* Some of the numbers sum up to no more than all of them.                 *)
LEMMA TotalPicks ==
    ASSUME NEW n \in Nat, NEW ns \in [1..n -> Nat],
           NEW l \in Nat, NEW p, Rising(l, n, p)
    PROVE  Total([j \in 1..l |-> ns[p[j]]]) <= Total(ns)
<1> DEFINE q == [j \in 1..l |-> ns[p[j]]]
<1>1. /\ p \in [1..l -> 1..n] /\ \A i, j \in 1..l : i < j => p[i] < p[j]
      /\ \A j \in 1..l : p[j] \in 1..n
  BY DEF Rising
<1>2. q \in [1..l -> Nat] /\ \A j \in 1..l : q[j] = ns[p[j]]
  BY <1>1
<1> HIDE DEF q
<1>3. PICK f \in [0..n -> Nat] :
         /\ f[0] = 0 /\ \A i \in 1..n : f[i] = f[i - 1] + ns[i]
         /\ Total(ns) = f[n]
  BY TotalLoop
<1>4. PICK g \in [0..l -> Nat] :
         /\ g[0] = 0 /\ \A i \in 1..l : g[i] = g[i - 1] + q[i]
         /\ Total(q) = g[l]
  BY <1>2, TotalLoop
<1>5. ASSUME NEW i \in 0..n, NEW j \in i..n PROVE f[i] <= f[j]
  <2>1. \A k \in 1..n : f[k - 1] <= f[k]
    <3> TAKE k \in 1..n
    <3>1. f[k - 1] \in Nat /\ ns[k] \in Nat
      OBVIOUS
    <3> QED
      BY <1>3, <3>1
  <2> QED
    BY <2>1, NeverFalls
<1> DEFINE S == {k \in 0..l : k > 0 => g[k] <= f[p[k]]}
<1>6. 0 \in S
  OBVIOUS
<1>7. ASSUME NEW k \in 0..(l - 1), k \in S PROVE k + 1 \in S
  <2> DEFINE b == p[k + 1]
  <2>1. k + 1 \in 1..l /\ k + 1 \in 0..l /\ (k + 1) - 1 = k /\ k \in 0..l
    OBVIOUS
  <2>2. b \in 1..n
    BY <1>1, <2>1
  <2>3. q[k + 1] = ns[b] /\ g[k + 1] = g[k] + ns[b] /\ g[k] \in Nat
    BY <1>2, <1>4, <2>1
  <2>4. k > 0 => g[k] <= f[p[k]] /\ p[k] \in 1..n /\ p[k] < b
    <3> SUFFICES ASSUME k > 0
                 PROVE  g[k] <= f[p[k]] /\ p[k] \in 1..n /\ p[k] < b
      OBVIOUS
    <3>1. k \in 1..l /\ k < k + 1
      OBVIOUS
    <3> QED
      BY <1>1, <1>7, <2>1, <3>1
  <2> HIDE DEF b
  <2>5. b - 1 \in 0..n /\ b \in 0..n
    BY <2>2
  <2>6. f[b - 1] \in Nat /\ ns[b] \in Nat /\ f[b] = f[b - 1] + ns[b]
    BY <1>3, <2>2, <2>5
  <2>7. g[k] <= f[b - 1]
    <3>1. CASE k = 0
      BY <1>4, <2>6, <3>1
    <3>2. CASE k > 0
      <4> DEFINE a == p[k]
      <4>1. a \in 1..n /\ a < b /\ g[k] <= f[a]
        BY <2>4, <3>2
      <4> HIDE DEF a
      <4>2. a \in 0..n /\ b - 1 \in a..n
        BY <2>2, <4>1
      <4>3. f[a] <= f[b - 1] /\ f[a] \in Nat
        BY <1>5, <4>2
      <4> DEFINE v == f[a]
                 w == f[b - 1]
      <4>4. g[k] \in Nat /\ v \in Nat /\ w \in Nat /\ g[k] <= v /\ v <= w
        BY <2>3, <2>6, <4>1, <4>3
      <4> HIDE DEF v, w
      <4>5. g[k] <= w
        BY <4>4
      <4> QED
        BY <4>5 DEF w
    <3> QED
      BY <3>1, <3>2
  <2>8. g[k + 1] <= f[b]
    <3> DEFINE v == g[k]
               w == f[b - 1]
               z == ns[b]
    <3>1. v \in Nat /\ w \in Nat /\ z \in Nat /\ v <= w
      BY <2>3, <2>6, <2>7
    <3>2. g[k + 1] = v + z /\ f[b] = w + z
      BY <2>3, <2>6
    <3> HIDE DEF v, w, z
    <3> QED
      BY <3>1, <3>2
  <2> QED
    BY <2>1, <2>8 DEF b
<1> HIDE DEF S
<1>8. \A k \in 0..l : k \in S
  BY <1>6, <1>7, Climb
<1>9. CASE l = 0
  BY <1>3, <1>4, <1>9 DEF q
<1>10. CASE l > 0
  <2>1. l \in 1..l /\ l \in 0..l /\ p[l] \in 1..n
    BY <1>1, <1>10
  <2>2. g[l] <= f[p[l]]
    BY <1>8, <1>10, <2>1 DEF S
  <2>3. p[l] \in 0..n /\ n \in p[l]..n /\ n \in 0..n
    BY <2>1
  <2>4. f[p[l]] <= f[n]
    BY <1>5, <2>3
  <2>5. g[l] \in Nat /\ f[p[l]] \in Nat /\ f[n] \in Nat
    BY <2>1, <2>3
  <2> QED
    BY <1>3, <1>4, <2>2, <2>4, <2>5 DEF q
<1> QED
  BY <1>9, <1>10

(* The bytes of the segments from the i-th on, as the size loop sums them. *)
Rest(segs, i) ==
    Total([j \in 1..(Len(segs) - i + 1) |-> segs[i + j - 1].bytes])

(* Of some of the segments, those from the i-th on hold no more bytes than *)
(* all segments from there on did.                                         *)
LEMMA RestPicks ==
    ASSUME NEW segs \in Seq(Segment), NEW kept \in Seq(Segment), NEW m,
           Rising(Len(kept), Len(segs), m),
           \A j \in 1..Len(kept) : kept[j] = segs[m[j]],
           NEW i \in 1..Len(kept)
    PROVE  /\ Rest(kept, i) \in Nat
           /\ Rest(kept, i) <= Rest(segs, m[i])
<1> DEFINE n == Len(segs)
           l == Len(kept)
           a == m[i]
           ns == [j \in 1..(n - a + 1) |-> segs[a + j - 1].bytes]
           ms == [j \in 1..(l - i + 1) |-> kept[i + j - 1].bytes]
           p == [j \in 1..(l - i + 1) |-> m[i + j - 1] - a + 1]
<1>1. /\ n \in Nat /\ l \in Nat /\ i \in 1..l
      /\ m \in [1..l -> 1..n] /\ a \in 1..n
      /\ \A x, y \in 1..l : x < y => m[x] < m[y]
      /\ \A j \in 1..n : segs[j].bytes \in Nat
      /\ \A j \in 1..l : kept[j].bytes \in Nat
  <2>1. \A j \in 1..n : segs[j] \in Segment
    OBVIOUS
  <2>2. \A j \in 1..l : kept[j] \in Segment
    OBVIOUS
  <2> QED
    BY <2>1, <2>2 DEF Segment, Rising
<1>2. \A j \in 1..l : kept[j] = segs[m[j]]
  OBVIOUS
<1>3. Rest(kept, i) = Total(ms) /\ Rest(segs, a) = Total(ns)
  BY DEF Rest
<1> HIDE DEF n, l, a
<1>4. l - i + 1 \in Nat /\ n - a + 1 \in Nat
  BY <1>1
<1>5. /\ ns \in [1..(n - a + 1) -> Nat]
      /\ \A j \in 1..(n - a + 1) : ns[j] = segs[a + j - 1].bytes
  <2>1. \A j \in 1..(n - a + 1) : a + j - 1 \in 1..n
    BY <1>1
  <2> QED
    BY <1>1, <2>1
<1>6. /\ ms \in [1..(l - i + 1) -> Nat]
      /\ \A j \in 1..(l - i + 1) :
            i + j - 1 \in 1..l /\ ms[j] = kept[i + j - 1].bytes
  <2>1. \A j \in 1..(l - i + 1) : i + j - 1 \in 1..l
    BY <1>1
  <2> QED
    BY <1>1, <2>1
<1>7. \A j \in 1..(l - i + 1) :
         /\ m[i + j - 1] \in 1..n /\ a <= m[i + j - 1]
         /\ p[j] = m[i + j - 1] - a + 1 /\ p[j] \in 1..(n - a + 1)
  <2> TAKE j \in 1..(l - i + 1)
  <2> DEFINE e == i + j - 1
  <2>1. e \in 1..l /\ (e = i \/ i < e)
    <3>1. i \in Nat /\ j \in Nat
      BY <1>1
    <3> QED
      BY <1>1, <3>1
  <2> HIDE DEF e
  <2>2. m[e] \in 1..n
    BY <1>1, <2>1
  <2>3. a <= m[e]
    <3>1. i < e => a < m[e]
      BY <1>1, <2>1 DEF a
    <3>2. e = i => a = m[e]
      BY DEF a
    <3> QED
      BY <1>1, <2>1, <2>2, <3>1, <3>2
  <2> USE DEF e
  <2> QED
    BY <1>1, <2>2, <2>3
<1>8. Rising(l - i + 1, n - a + 1, p)
  <2>1. p \in [1..(l - i + 1) -> 1..(n - a + 1)]
    BY <1>7
  <2>2. ASSUME NEW x \in 1..(l - i + 1), NEW y \in 1..(l - i + 1), x < y
        PROVE  p[x] < p[y]
    <3>1. i + x - 1 \in 1..l /\ i + y - 1 \in 1..l /\ i + x - 1 < i + y - 1
      BY <1>1, <2>2
    <3>2. m[i + x - 1] < m[i + y - 1]
      BY <1>1, <3>1
    <3>3. /\ p[x] = m[i + x - 1] - a + 1 /\ m[i + x - 1] \in Int
          /\ p[y] = m[i + y - 1] - a + 1 /\ m[i + y - 1] \in Int
      BY <1>7
    <3> HIDE DEF p
    <3> QED
      BY <1>1, <3>2, <3>3
  <2> HIDE DEF p
  <2> QED
    BY <1>4, <2>1, <2>2 DEF Rising
<1>9. ms = [j \in 1..(l - i + 1) |-> ns[p[j]]]
  <2>1. \A j \in 1..(l - i + 1) : ms[j] = ns[p[j]]
    <3> TAKE j \in 1..(l - i + 1)
    <3> HIDE DEF p, ns, ms
    <3>1. a + p[j] - 1 = m[i + j - 1]
      BY <1>1, <1>7
    <3>2. ns[p[j]] = segs[m[i + j - 1]].bytes
      BY <1>5, <1>7, <3>1
    <3>3. ms[j] = kept[i + j - 1].bytes /\ kept[i + j - 1] = segs[m[i + j - 1]]
      BY <1>2, <1>6
    <3> QED
      BY <3>2, <3>3
  <2> HIDE DEF ns, p
  <2> QED
    BY <2>1
<1> HIDE DEF ns, p
<1>10. Total([j \in 1..(l - i + 1) |-> ns[p[j]]]) <= Total(ns)
  BY <1>4, <1>5, <1>8, TotalPicks
<1>11. Total(ms) \in Nat
  <2> HIDE DEF ms
  <2> QED
    BY <1>4, <1>6, TotalSteps
<1>12. Rest(kept, i) \in Nat /\ Rest(kept, i) <= Rest(segs, a)
  BY <1>3, <1>9, <1>10, <1>11
<1> QED
  BY <1>12 DEF a

(* A pass, seen as a choice of segments.                                   *)
LEMMA PassRises ==
    ASSUME SInv, NEW clamp, Retention_Pass(clamp)
    PROVE  LET n == Len(segments)
               l == Len(segments')
           IN  \E m : /\ Rising(l, n, m) /\ l > 0 /\ m[l] = n
                      /\ \A j \in 1..l : /\ m[j] \notin Doomed(clamp)
                                         /\ segments'[j] = segments[m[j]]
                      /\ \A i \in 1..n : i \notin Doomed(clamp)
                            => \E j \in 1..l : m[j] = i
<1> DEFINE n == Len(segments)
           l == Len(segments')
<1>1. n \in Nat /\ DOMAIN segments = 1..n
  BY DEF SInv, Line
<1>2. l \in 1..n
  BY PassKeeps, Zenon
<1>3. PICK m : /\ Maps(m, n, DOMAIN segments \ Doomed(clamp),
                       segments, segments')
               /\ m[l] = n
  BY PassKeeps
<1>4. /\ m \in [1..l -> 1..n]
      /\ \A j \in 1..l : /\ m[j] \notin Doomed(clamp)
                         /\ segments'[j] = segments[m[j]]
      /\ \A i, j \in 1..l : i < j => m[i] < m[j]
      /\ \A i \in 1..n : i \notin Doomed(clamp) => \E j \in 1..l : m[j] = i
  BY <1>1, <1>3 DEF Maps
<1> HIDE DEF n, l
<1>5. Rising(l, n, m) /\ l > 0
  BY <1>1, <1>2, <1>4 DEF Rising
<1>6. \E p : /\ Rising(l, n, p) /\ l > 0 /\ p[l] = n
             /\ \A j \in 1..l : /\ p[j] \notin Doomed(clamp)
                                /\ segments'[j] = segments[p[j]]
             /\ \A i \in 1..n : i \notin Doomed(clamp)
                   => \E j \in 1..l : p[j] = i
  BY <1>3, <1>4, <1>5
<1> QED
  BY <1>6 DEF n, l

(* The number a % b leaves below b.                                        *)
LEMMA SmallModulus ==
    ASSUME NEW a \in Nat, NEW b \in Nat, a < b
    PROVE  a % b = a
  OBVIOUS

(* Without overflow the cutoff is the policy's age ago.                    *)
LEMMA CutoffIs ==
    ASSUME NEW x \in 0..SignBit
    PROVE  Wrap(-x) = -x
<1>1. SignBit \in Nat /\ SignBit > 0
  BY SegmentsAssumption
<1>2. -x + SignBit \in Nat /\ -x + SignBit < 2 * SignBit /\ 2 * SignBit \in Nat
  BY <1>1
<1>3. (-x + SignBit) % (2 * SignBit) = -x + SignBit
  BY <1>2, SmallModulus
<1> QED
  BY <1>1, <1>3 DEF Wrap

(* What is left of the segments from the i-th on is a number of bytes.     *)
LEMMA RestTyped ==
    ASSUME SInv, NEW i \in DOMAIN segments
    PROVE  Rest(segments, i) \in Nat
<1> DEFINE n == Len(segments)
           ms == [j \in 1..(n - i + 1) |-> segments[i + j - 1].bytes]
<1>1. /\ n \in Nat /\ DOMAIN segments = 1..n
      /\ \A j \in 1..n : segments[j] \in Segment
  BY DEF SInv, Line
<1>2. \A j \in 1..n : segments[j].bytes \in Nat
  BY <1>1 DEF Segment
<1>3. Rest(segments, i) = Total(ms)
  BY DEF Rest
<1> HIDE DEF n
<1>4. i \in 1..n /\ n - i + 1 \in Nat
  BY <1>1
<1>5. \A j \in 1..(n - i + 1) : i + j - 1 \in 1..n
  BY <1>1, <1>4
<1>6. ms \in [1..(n - i + 1) -> Nat]
  BY <1>2, <1>5
<1> HIDE DEF ms
<1> QED
  BY <1>3, <1>4, <1>6, TotalSteps

(* When no age of the policy overflows the clock's word, a pass of         *)
(* retention deletes by the policy only: sealed segments below the clamp,  *)
(* too old or, with what is behind them, over the budget.                  *)
THEOREM DeletedByPolicyHolds ==
    ASSUME \A ms \in RetentionMS : ms * Millisecond <= SignBit
    PROVE  Spec => DeletedByPolicy
<1> DEFINE Gone(i) == \A j \in DOMAIN segments' : segments'[j] # segments[i]
           Allowed(clamp, i) ==
               /\ i < Len(segments) /\ EndOf(segments[i]) <= clamp
               /\ \/ /\ cfg.ms > 0
                     /\ now - segments[i].mtime > cfg.ms * Millisecond
                  \/ /\ cfg.bytes > 0
                     /\ Total([j \in 1..(Len(segments) - i + 1) |->
                                  segments[i + j - 1].bytes]) > cfg.bytes
<1>1. ASSUME SInv, NEW clamp \in 0..MaxRecords, Retention_Pass(clamp),
             NEW i \in DOMAIN segments, Gone(i)
      PROVE  Allowed(clamp, i)
  <2> DEFINE n == Len(segments)
             l == Len(segments')
             x == cfg.ms * Millisecond
  <2>1. /\ n \in Nat /\ DOMAIN segments = 1..n /\ segments[i] \in Segment
        /\ segments' \in Seq(Segment) /\ DOMAIN segments' = 1..l
    <3>1. segments' \in Seq(Segment)
      BY <1>1, PassKeeps, Zenon
    <3> QED
      BY <1>1, <3>1 DEF SInv, Line
  <2>2. i \in Doomed(clamp)
    <3>1. PICK m : /\ \A j \in 1..l : segments'[j] = segments[m[j]]
                   /\ \A k \in 1..n : k \notin Doomed(clamp)
                         => \E h \in 1..l : m[h] = k
      BY <1>1, PassRises
    <3> QED
      BY <1>1, <2>1, <3>1
  <2>3. /\ i \in 1..(n - 1) /\ i < n /\ EndOf(segments[i]) <= clamp
        /\ Expired(i) \/ OverBudget(i)
    <3>1. /\ i \in 1..(n - 1)
          /\ Expired(i) \/ OverBudget(i)
          /\ \A j \in 1..i : EndOf(segments[j]) <= clamp
      BY <2>2 DEF Doomed, SealedBelow
    <3> QED
      BY <2>1, <3>1
  <2>4. CASE Expired(i)
    <3>1. /\ cfg.ms \in RetentionMS /\ cfg.ms \in Nat /\ Millisecond \in Nat
          /\ now \in Nat /\ segments[i].mtime \in Nat /\ SignBit \in Nat
      <4>1. cfg.ms \in RetentionMS /\ now \in Time
        BY <1>1 DEF SInv, Plain
      <4>2. segments[i].mtime \in Time
        BY <2>1 DEF Segment
      <4>3. /\ SignBit \in Nat /\ Millisecond \in Nat /\ MaxTime \in Nat
            /\ \A ms \in RetentionMS : ms \in Nat
        BY SegmentsAssumption
      <4> QED
        BY <4>1, <4>2, <4>3 DEF Time
    <3>2. x \in Nat /\ x <= SignBit
      BY <3>1
    <3>3. cfg.ms > 0 /\ segments[i].mtime < now + Wrap(-x)
      BY <2>4 DEF Expired, Cutoff
    <3> HIDE DEF x
    <3>4. Wrap(-x) = -x
      BY <3>1, <3>2, CutoffIs
    <3>5. now - segments[i].mtime > x
      BY <3>1, <3>2, <3>3, <3>4
    <3> QED
      BY <2>3, <3>3, <3>5 DEF x
  <2>5. CASE OverBudget(i)
    BY <2>3, <2>5 DEF OverBudget
  <2> QED
    BY <2>3, <2>4, <2>5
<1>2. SInv =>
         (\A clamp \in 0..MaxRecords : Retention_Pass(clamp) =>
             \A i \in DOMAIN segments : Gone(i) => Allowed(clamp, i))
  <2> HIDE DEF Gone, Allowed
  <2> QED
    BY <1>1
<1> QED
  BY <1>2, SInvHolds, PTL DEF DeletedByPolicy

(* A segment a pass would take out after a pass is one the pass would have *)
(* taken out: it ended below the clamp, was as old, and had no fewer bytes *)
(* behind it.                                                              *)
LEMMA NothingDoomed ==
    ASSUME SInv, NEW clamp \in Nat, Retention_Pass(clamp)
    PROVE  /\ Doomed(clamp)' = {}
           /\ \A i \in SealedBelow(clamp)' :
                 /\ cfg.bytes = 0 \/ Rest(segments', i) <= cfg.bytes
                 /\ i \in 1..Len(segments')
<1> DEFINE n == Len(segments)
           l == Len(segments')
<1>1. /\ segments \in Seq(Segment) /\ n \in Nat /\ DOMAIN segments = 1..n
      /\ segments' \in Seq(Segment) /\ l \in Nat
  <2>1. segments' \in Seq(Segment)
    BY PassKeeps, Zenon
  <2> QED
    BY <2>1 DEF SInv, Line
<1>2. PICK m : /\ Rising(l, n, m) /\ l > 0 /\ m[l] = n
               /\ \A j \in 1..l : /\ m[j] \notin Doomed(clamp)
                                  /\ segments'[j] = segments[m[j]]
  BY PassRises
<1>3. /\ m \in [1..l -> 1..n]
      /\ \A i, j \in 1..l : i < j => m[i] < m[j]
  BY <1>2 DEF Rising
<1>4. UNCHANGED <<cfg, now>>
  BY DEF Retention_Pass
<1>5. cfg.bytes \in Nat
  BY SegmentsAssumption DEF SInv, Plain
<1>6. ASSUME NEW i \in SealedBelow(clamp)'
      PROVE  /\ i \in 1..(l - 1) /\ i \in 1..l
             /\ ~ Expired(i)' /\ ~ OverBudget(i)'
             /\ cfg.bytes = 0 \/ Rest(segments', i) <= cfg.bytes
  <2> DEFINE a == m[i]
  <2>1. i \in 1..(l - 1) /\ \A j \in 1..i : EndOf(segments'[j]) <= clamp
    BY <1>6 DEF SealedBelow, EndOf
  <2>2. i \in 1..l /\ i < l /\ l \in 1..l
    BY <1>1, <2>1
  <2>3. a \in 1..n /\ a < n /\ segments'[i] = segments[a]
    BY <1>2, <1>3, <2>2
  <2>4. EndOf(segments[a]) <= clamp
    <3>1. i \in 1..i
      BY <2>1
    <3>2. EndOf(segments'[i]) <= clamp
      BY <2>1, <3>1
    <3> QED
      BY <2>3, <3>2
  <2>5. a \notin Doomed(clamp)
    BY <1>2, <2>2
  <2> HIDE DEF n, l, a
  <2>6. a \in SealedBelow(clamp)
    <3>1. a \in 1..(n - 1)
      BY <1>1, <2>3
    <3>2. ASSUME NEW j \in 1..a PROVE EndOf(segments[j]) <= clamp
      <4>1. j \in 1..n /\ (j = a \/ j < a)
        BY <1>1, <2>3
      <4>2. /\ EndOf(segments[j]) \in Nat /\ EndOf(segments[a]) \in Nat
            /\ segments[a].base \in Nat
            /\ segments[a].base <= EndOf(segments[a])
        BY <1>1, <2>3, <4>1, EndsBelow
      <4>3. j < a => EndOf(segments[j]) <= segments[a].base
        BY <1>1, <2>3, <4>1 DEF SInv, Line
      <4>4. EndOf(segments[j]) <= EndOf(segments[a])
        BY <4>1, <4>2, <4>3
      <4> QED
        BY <2>4, <4>2, <4>4
    <3> QED
      BY <3>1, <3>2 DEF SealedBelow, n
  <2>7. ~ Expired(a) /\ ~ OverBudget(a)
    BY <2>5, <2>6 DEF Doomed
  <2>8. ~ Expired(i)'
    BY <1>4, <2>3, <2>7 DEF Expired, Cutoff
  <2>9. cfg.bytes = 0 \/ ~ (Rest(segments, a) > cfg.bytes)
    BY <1>5, <2>7 DEF OverBudget, Rest
  <2>10. Rest(segments', i) \in Nat /\ Rest(segments', i) <= Rest(segments, a)
    BY <1>1, <1>2, <2>2, RestPicks DEF n, l, a
  <2>11. Rest(segments, a) \in Nat
    BY <1>1, <2>3, RestTyped
  <2>12. cfg.bytes = 0 \/ Rest(segments', i) <= cfg.bytes
    BY <1>5, <2>9, <2>10, <2>11
  <2>13. ~ OverBudget(i)'
    <3>1. OverBudget(i)' = (/\ cfg'.bytes > 0
                            /\ Rest(segments', i) > cfg'.bytes)
      BY DEF OverBudget, Rest
    <3> QED
      BY <1>4, <1>5, <2>10, <2>12, <3>1
  <2> QED
    BY <2>1, <2>2, <2>8, <2>12, <2>13 DEF l
<1>7. Doomed(clamp)' = {}
  <2>1. \A i \in SealedBelow(clamp)' : ~ Expired(i)' /\ ~ OverBudget(i)'
    BY <1>6
  <2>2. Doomed(clamp)' = {i \in SealedBelow(clamp)' :
                              Expired(i)' \/ OverBudget(i)'}
    BY DEF Doomed
  <2> QED
    BY <2>1, <2>2
<1> QED
  BY <1>6, <1>7

(* A pass of retention leaves nothing for a second one to do.              *)
THEOREM PassSettlesHolds == Spec => PassSettles
<1> DEFINE Settled(clamp) ==
              /\ Doomed(clamp)' = {}
              /\ \/ cfg.bytes = 0
                 \/ Total([j \in DOMAIN segments' |-> segments'[j].bytes])
                        <= cfg.bytes
                 \/ SealedBelow(clamp)' = {}
<1>1. ASSUME SInv, NEW clamp \in 0..MaxRecords, Retention_Pass(clamp)
      PROVE  Settled(clamp)
  <2> DEFINE l == Len(segments')
  <2>1. /\ Doomed(clamp)' = {}
        /\ \A i \in SealedBelow(clamp)' :
              /\ cfg.bytes = 0 \/ Rest(segments', i) <= cfg.bytes
              /\ i \in 1..l
    <3>1. clamp \in Nat
      BY SegmentsAssumption
    <3> QED
      BY <1>1, <3>1, NothingDoomed
  <2>2. segments' \in Seq(Segment)
    BY <1>1, PassKeeps, Zenon
  <2>3. ASSUME SealedBelow(clamp)' # {}, cfg.bytes # 0
        PROVE  Total([j \in DOMAIN segments' |-> segments'[j].bytes])
                  <= cfg.bytes
    <3>1. PICK i \in SealedBelow(clamp)' : TRUE
      BY <2>3
    <3>2. i \in 1..(l - 1) /\ \A j \in 1..i : EndOf(segments'[j]) <= clamp
      BY <3>1 DEF SealedBelow, EndOf
    <3>3. l \in Nat /\ DOMAIN segments' = 1..l
      BY <2>2
    <3> HIDE DEF l
    <3>4. 1 \in 1..(l - 1) /\ \A j \in 1..1 : EndOf(segments'[j]) <= clamp
      BY <3>2, <3>3
    <3>5. 1 \in SealedBelow(clamp)'
      BY <3>4 DEF SealedBelow, EndOf, l
    <3>6. Rest(segments', 1) <= cfg.bytes
      BY <2>1, <2>3, <3>5
    <3>7. [j \in 1..(l - 1 + 1) |-> segments'[1 + j - 1].bytes]
             = [j \in DOMAIN segments' |-> segments'[j].bytes]
      <4>1. 1..(l - 1 + 1) = 1..l
        BY <3>3
      <4>2. \A j \in 1..l : 1 + j - 1 = j
        OBVIOUS
      <4> QED
        BY <3>3, <4>1, <4>2
    <3> QED
      BY <3>6, <3>7 DEF Rest, l
  <2> QED
    BY <2>1, <2>3
<1>2. SInv =>
         (\A clamp \in 0..MaxRecords : Retention_Pass(clamp) => Settled(clamp))
  <2> HIDE DEF Settled
  <2> QED
    BY <1>1
<1> QED
  BY <1>2, SInvHolds, PTL DEF PassSettles
=============================================================================
