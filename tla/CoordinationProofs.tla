------------------------- MODULE CoordinationProofs -------------------------
(***************************************************************************)
(* The coordination nodes of a run, proved for every graph, all arrays,    *)
(* every limit and any number of workers: the counters count the rows, a   *)
(* JoinByKey pairs in order, the windows of an Aggregator are its queue    *)
(* cut into pieces, and a completed run left nothing behind that a node    *)
(* could still have taken.                                                 *)
(***************************************************************************)
EXTENDS Coordination, SequenceTheorems, FiniteSetTheorems, TLAPS

-----------------------------------------------------------------------------
(* Numbers and their ranks.                                                *)

\* Some numbers have a least one.
LEMMA LeastNumber ==
  ASSUME NEW nums, nums \subseteq Nat, nums # {}
  PROVE  \E x \in nums : \A y \in nums : x <= y
<1> DEFINE Below == {p \in Nat \X Nat : p[1] < p[2]}
<1>1. PICK x \in nums : \A y \in nums : ~(<<y, x>> \in Below)
  <2>1. IsWellFoundedOn(Below, Nat)
    BY NatLessThanWellFounded, Zenon DEF OpToRel
  <2> HIDE DEF Below
  <2> QED BY <2>1, WFMin
<1>2. ASSUME NEW y \in nums PROVE x <= y
  <2>1. y \in Nat /\ x \in Nat
    OBVIOUS
  <2>2. ~(y < x)
    BY <1>1, <2>1
  <2> HIDE DEF Below
  <2> QED BY <2>1, <2>2
<1> QED BY <1>2

\* The minimum of some numbers is one of them, and none is smaller.
LEMMA MinIsLeast ==
  ASSUME NEW nums, nums \subseteq Nat, nums # {}
  PROVE  Min(nums) \in nums /\ \A y \in nums : Min(nums) <= y
BY LeastNumber DEF Min

\* A finite set of numbers has a maximum.
LEMMA MaxIsGreatest ==
  ASSUME NEW b \in Nat, NEW nums, nums \subseteq 0..b, nums # {}
  PROVE  Max(nums) \in nums /\ \A y \in nums : Max(nums) >= y
<1> DEFINE Bounds == {k \in Nat : \A x \in nums : x <= k}
<1>1. b \in Bounds
  OBVIOUS
<1>2. PICK k \in Bounds : \A j \in Bounds : k <= j
  BY <1>1, LeastNumber
<1>3. k \in nums
  <2> SUFFICES ASSUME k \notin nums PROVE FALSE
    OBVIOUS
  <2>1. PICK y \in nums : TRUE
    OBVIOUS
  <2>2. k \in Nat /\ \A x \in nums : x \in Nat /\ x <= k /\ x # k
    BY <1>2
  <2>3. k - 1 \in Nat /\ \A x \in nums : x <= k - 1
    <3> HIDE DEF Bounds
    <3> QED BY <2>1, <2>2
  <2>4. k - 1 \in Bounds
    BY <2>3
  <2>5. k <= k - 1
    BY <1>2, <2>4
  <2> QED BY <2>2, <2>5
<1>4. \A y \in nums : k >= y
  BY <1>2
<1> HIDE DEF Bounds
<1> QED BY <1>3, <1>4 DEF Max

\* The rank of a member is a position, and the members below a smaller one are fewer.
LEMMA RankBounds ==
  ASSUME NEW nums, nums \subseteq Nat, IsFiniteSet(nums), NEW v \in nums
  PROVE  /\ Rank(nums, v) \in 1 .. Cardinality(nums)
         /\ IsFiniteSet({u \in nums : u <= v})
<1> DEFINE L == {u \in nums : u <= v}
<1>1. IsFiniteSet(L) /\ Cardinality(L) <= Cardinality(nums)
  BY FS_Subset
<1>2. v \in L /\ L # {}
  OBVIOUS
<1>3. Cardinality(L) \in Nat /\ Cardinality(nums) \in Nat
  BY <1>1, FS_CardinalityType
<1>4. Cardinality(L) # 0
  BY <1>1, <1>2, FS_EmptySet
<1>5. Rank(nums, v) = Cardinality(L)
  BY DEF Rank
<1> HIDE DEF L
<1>6. Cardinality(L) \in 1 .. Cardinality(nums)
  BY <1>1, <1>3, <1>4
<1> QED BY <1>1, <1>5, <1>6 DEF L

\* Ranks are ordered as the members are.
LEMMA RankIsMonotone ==
  ASSUME NEW nums, nums \subseteq Nat, IsFiniteSet(nums), NEW u \in nums, NEW v \in nums, u < v
  PROVE  Rank(nums, u) < Rank(nums, v)
<1> DEFINE U == {x \in nums : x <= u}
           V == {x \in nums : x <= v}
<1>1. U \subseteq V /\ v \in V /\ v \notin U
  <2>1. u \in Nat /\ v \in Nat
    OBVIOUS
  <2>2. ASSUME NEW x \in nums, x <= u PROVE x <= v
    <3>1. x \in Nat
      OBVIOUS
    <3> QED BY <2>1, <2>2, <3>1
  <2>3. v <= v /\ ~(v <= u)
    BY <2>1
  <2> QED BY <2>2, <2>3
<1>2. IsFiniteSet(V)
  <2>1. V \in SUBSET nums
    OBVIOUS
  <2> HIDE DEF V
  <2> QED BY <2>1, FS_Subset
<1>3. IsFiniteSet(U) /\ Cardinality(U) <= Cardinality(V) /\ Cardinality(U) # Cardinality(V)
  <2> HIDE DEF U, V
  <2>1. U \in SUBSET V
    BY <1>1
  <2> QED BY <1>1, <1>2, <2>1, FS_Subset
<1>4. Cardinality(U) \in Nat /\ Cardinality(V) \in Nat
  BY <1>2, <1>3, FS_CardinalityType
<1>5. Rank(nums, u) = Cardinality(U) /\ Rank(nums, v) = Cardinality(V)
  BY DEF Rank
<1> HIDE DEF U, V
<1> QED BY <1>3, <1>4, <1>5

\* Two members of the same rank are one.
LEMMA RankIsInjective ==
  ASSUME NEW nums, nums \subseteq Nat, IsFiniteSet(nums), NEW u \in nums, NEW v \in nums,
         Rank(nums, u) = Rank(nums, v)
  PROVE  u = v
<1>1. u \in Nat /\ v \in Nat /\ Cardinality(nums) \in Nat
  BY FS_CardinalityType
<1>2. Rank(nums, u) \in 1 .. Cardinality(nums) /\ Rank(nums, v) \in 1 .. Cardinality(nums)
  BY RankBounds
<1>3. u < v => Rank(nums, u) < Rank(nums, v)
  BY RankIsMonotone
<1>4. v < u => Rank(nums, v) < Rank(nums, u)
  BY RankIsMonotone
<1> QED BY <1>1, <1>2, <1>3, <1>4

\* Every position is the rank of a member.
LEMMA RankIsOnto ==
  ASSUME NEW nums, nums \subseteq Nat, IsFiniteSet(nums), NEW i \in 1 .. Cardinality(nums)
  PROVE  \E v \in nums : Rank(nums, v) = i
<1> DEFINE Places == 1 .. Cardinality(nums)
           f == [v \in nums |-> Rank(nums, v)]
<1>1. Cardinality(nums) \in Nat
  BY FS_CardinalityType
<1>2. IsFiniteSet(Places) /\ Cardinality(Places) = Cardinality(nums)
  <2>1. Cardinality(nums) \in Int /\ 1 \in Int
    BY <1>1
  <2>2. /\ IsFiniteSet(1 .. Cardinality(nums))
        /\ Cardinality(1 .. Cardinality(nums))
             = IF 1 > Cardinality(nums) THEN 0 ELSE Cardinality(nums) - 1 + 1
    BY <2>1, FS_Interval
  <2> QED BY <1>1, <2>2
<1>3. f \in Injection(nums, Places)
  <2>1. f \in [nums -> Places]
    BY RankBounds
  <2>2. \A u, v \in nums : f[u] = f[v] => u = v
    BY RankIsInjective
  <2> QED BY <2>1, <2>2 DEF Injection, IsInjective
<1>4. f \in Surjection(nums, Places)
  <2> HIDE DEF f, Places
  <2> QED BY <1>2, <1>3, FS_Injection
<1> QED BY <1>4 DEF Surjection

\* A set of numbers in order: each place holds the member of that rank.
LEMMA OrderedPlaces ==
  ASSUME NEW nums, nums \subseteq Nat, IsFiniteSet(nums)
  PROVE  /\ InOrder(nums) \in Seq(nums) /\ Len(InOrder(nums)) = Cardinality(nums)
         /\ \A i \in 1 .. Cardinality(nums) :
              InOrder(nums)[i] \in nums /\ Rank(nums, InOrder(nums)[i]) = i
<1>1. Cardinality(nums) \in Nat
  BY FS_CardinalityType
<1>2. ASSUME NEW i \in 1 .. Cardinality(nums)
      PROVE  InOrder(nums)[i] \in nums /\ Rank(nums, InOrder(nums)[i]) = i
  <2>1. InOrder(nums)[i] = CHOOSE x \in nums : Rank(nums, x) = i
    BY DEF InOrder
  <2> QED BY <2>1, RankIsOnto
<1>3. InOrder(nums) \in [1 .. Cardinality(nums) -> nums]
  BY <1>2 DEF InOrder
<1> QED BY <1>1, <1>2, <1>3

-----------------------------------------------------------------------------
(* Sequences put end to end.  FlattenSeq is defined by recursion over the   *)
(* places: each place holds the pieces up to it.                            *)
Pieces(f, ss, k) == f = [i \in 1 .. k |-> IF i = 1 THEN ss[i] ELSE f[i-1] \o ss[i]]

\* The recursion has a solution up to every place.
LEMMA PiecesExist ==
  ASSUME NEW S, NEW ss \in Seq(Seq(S)), NEW k \in 0 .. Len(ss)
  PROVE  \E f \in [1 .. k -> Seq(S)] : Pieces(f, ss, k)
<1> DEFINE Solved(j) == \E f \in [1 .. j -> Seq(S)] : Pieces(f, ss, j)
           Open == {j \in 0 .. Len(ss) : ~Solved(j)}
<1> SUFFICES ASSUME ~Solved(k) PROVE FALSE
  OBVIOUS
<1>1. Len(ss) \in Nat /\ Open \subseteq Nat /\ k \in Open
  OBVIOUS
<1>2. PICK j \in Open : \A i \in Open : j <= i
  BY <1>1, LeastNumber
<1>3. j \in 0 .. Len(ss) /\ ~Solved(j)
  BY <1>2
<1>4. j # 0
  <2> SUFFICES Solved(0)
    BY <1>3
  <2> DEFINE f == [i \in 1 .. 0 |-> <<>>]
  <2>1. f \in [1 .. 0 -> Seq(S)] /\ f = [i \in 1 .. 0 |-> IF i = 1 THEN ss[i] ELSE f[i-1] \o ss[i]]
    OBVIOUS
  <2> QED BY <2>1 DEF Pieces
<1>5. j - 1 \in 0 .. Len(ss) /\ j \in Nat /\ j - 1 \in Nat /\ j \in 1 .. Len(ss)
  BY <1>1, <1>3, <1>4
<1>6. Solved(j - 1)
  <2> SUFFICES ASSUME ~Solved(j - 1) PROVE FALSE
    OBVIOUS
  <2>1. j - 1 \in Open
    BY <1>5
  <2>2. j <= j - 1
    BY <1>2, <2>1
  <2> QED BY <1>5, <2>2
<1>7. PICK g \in [1 .. (j - 1) -> Seq(S)] : Pieces(g, ss, j - 1)
  BY <1>6
<1> DEFINE f == [i \in 1 .. j |-> IF i < j THEN g[i] ELSE IF j = 1 THEN ss[1] ELSE g[j-1] \o ss[j]]
<1>8. f \in [1 .. j -> Seq(S)]
  <2>1. ASSUME NEW i \in 1 .. j PROVE f[i] \in Seq(S)
    <3>1. CASE i < j
      <4>1. i \in 1 .. (j - 1)
        BY <1>5, <3>1
      <4> QED BY <3>1, <4>1
    <3>2. CASE ~(i < j)
      <4>1. ss[1] \in Seq(S) /\ ss[j] \in Seq(S)
        BY <1>5
      <4>2. j # 1 => g[j - 1] \in Seq(S)
        BY <1>5
      <4>3. j # 1 => g[j - 1] \o ss[j] \in Seq(S)
        BY <4>1, <4>2
      <4> QED BY <3>2, <4>1, <4>3
    <3> QED BY <3>1, <3>2
  <2> QED BY <2>1
<1>9. ASSUME NEW i \in 1 .. j PROVE f[i] = IF i = 1 THEN ss[i] ELSE f[i-1] \o ss[i]
  <2>1. CASE i < j
    <3>1. i \in 1 .. (j - 1) /\ (i # 1 => i - 1 \in 1 .. (j - 1) /\ i - 1 < j /\ i - 1 \in 1 .. j)
      BY <1>5, <2>1
    <3>2. g[i] = IF i = 1 THEN ss[i] ELSE g[i-1] \o ss[i]
      BY <1>7, <3>1 DEF Pieces
    <3>3. f[i] = g[i] /\ (i # 1 => f[i-1] = g[i-1])
      BY <2>1, <3>1
    <3> HIDE DEF f
    <3> QED BY <3>2, <3>3
  <2>2. CASE ~(i < j)
    <3>1. i = j /\ (j # 1 => j - 1 \in 1 .. j /\ j - 1 < j)
      BY <1>5, <2>2
    <3>2. j # 1 => f[j-1] = g[j-1]
      BY <3>1
    <3>3. f[j] = IF j = 1 THEN ss[1] ELSE g[j-1] \o ss[j]
      BY <1>5
    <3> HIDE DEF f
    <3> QED BY <3>1, <3>2, <3>3
  <2> QED BY <2>1, <2>2
<1>10. Pieces(f, ss, j)
  <2>1. f = [i \in 1 .. j |-> f[i]]
    OBVIOUS
  <2> HIDE DEF f
  <2> QED BY <1>9, <2>1 DEF Pieces
<1> HIDE DEF f
<1> QED BY <1>3, <1>8, <1>10

\* A solution read at one place.
LEMMA PieceAt ==
  ASSUME NEW f, NEW ss, NEW k, Pieces(f, ss, k), NEW i \in 1 .. k
  PROVE  f[i] = IF i = 1 THEN ss[i] ELSE f[i-1] \o ss[i]
BY DEF Pieces

\* Two solutions agree wherever both are defined.
LEMMA PiecesAgree ==
  ASSUME NEW ss, NEW tt, NEW k \in Nat, NEW m \in Nat, k <= m, \A i \in 1 .. k : tt[i] = ss[i],
         NEW f, NEW g, Pieces(f, ss, k), Pieces(g, tt, m)
  PROVE  \A i \in 1 .. k : f[i] = g[i]
<1> DEFINE Differ == {i \in 1 .. k : f[i] # g[i]}
<1> SUFFICES ASSUME Differ # {} PROVE FALSE
  OBVIOUS
<1>1. Differ \subseteq Nat
  OBVIOUS
<1>2. PICK j \in Differ : \A i \in Differ : j <= i
  BY <1>1, LeastNumber
<1>3. j \in 1 .. k /\ j \in 1 .. m /\ f[j] # g[j] /\ tt[j] = ss[j]
  BY <1>2
<1>4. f[j] = IF j = 1 THEN ss[j] ELSE f[j-1] \o ss[j]
  BY <1>3, PieceAt
<1>5. g[j] = IF j = 1 THEN tt[j] ELSE g[j-1] \o tt[j]
  BY <1>3, PieceAt
<1>6. j # 1 => f[j-1] = g[j-1]
  <2> SUFFICES ASSUME j # 1, f[j-1] # g[j-1] PROVE FALSE
    OBVIOUS
  <2>1. j - 1 \in 1 .. k /\ j \in Nat
    BY <1>3
  <2>2. j - 1 \in Differ
    BY <2>1
  <2>3. j <= j - 1
    BY <1>2, <2>2
  <2> QED BY <2>1, <2>3
<1> QED BY <1>3, <1>4, <1>5, <1>6

\* FlattenSeq is the last piece of a solution.
LEMMA FlattenIsLastPiece ==
  ASSUME NEW S, NEW ss \in Seq(Seq(S)), Len(ss) # 0
  PROVE  \E f \in [1 .. Len(ss) -> Seq(S)] : Pieces(f, ss, Len(ss)) /\ FlattenSeq(ss) = f[Len(ss)]
<1> DEFINE F == CHOOSE f : f = [i \in 1 .. Len(ss) |-> IF i = 1 THEN ss[i] ELSE f[i-1] \o ss[i]]
<1>1. Len(ss) \in Nat /\ Len(ss) \in 0 .. Len(ss)
  OBVIOUS
<1>2. PICK f \in [1 .. Len(ss) -> Seq(S)] : Pieces(f, ss, Len(ss))
  BY <1>1, PiecesExist
<1>3. F = [i \in 1 .. Len(ss) |-> IF i = 1 THEN ss[i] ELSE F[i-1] \o ss[i]]
  BY <1>2 DEF Pieces
<1>4. FlattenSeq(ss) = F[Len(ss)]
  BY DEF FlattenSeq
<1>5. Pieces(F, ss, Len(ss))
  <2> HIDE DEF F
  <2> QED BY <1>3 DEF Pieces
<1>6. \A i \in 1 .. Len(ss) : F[i] = f[i]
  <2> HIDE DEF F
  <2>1. Len(ss) <= Len(ss)
    BY <1>1
  <2> QED BY <1>1, <1>2, <1>5, <2>1, PiecesAgree
<1>7. Len(ss) \in 1 .. Len(ss)
  BY <1>1
<1> HIDE DEF F
<1> QED BY <1>2, <1>4, <1>6, <1>7

\* Pieces of sequences over S give a sequence over S.
LEMMA FlattenTyped ==
  ASSUME NEW S, NEW ss \in Seq(Seq(S))
  PROVE  FlattenSeq(ss) \in Seq(S)
<1>1. CASE Len(ss) = 0
  <2>1. FlattenSeq(ss) = ss
    BY <1>1 DEF FlattenSeq
  <2>2. ss = <<>>
    BY <1>1
  <2> QED BY <2>1, <2>2
<1>2. CASE Len(ss) # 0
  <2>1. PICK f \in [1 .. Len(ss) -> Seq(S)] : FlattenSeq(ss) = f[Len(ss)]
    BY <1>2, FlattenIsLastPiece
  <2>2. Len(ss) \in 1 .. Len(ss)
    BY <1>2
  <2> QED BY <2>1, <2>2
<1> QED BY <1>1, <1>2

\* One more piece goes to the end.
LEMMA FlattenAppend ==
  ASSUME NEW S, NEW ss \in Seq(Seq(S)), NEW s \in Seq(S)
  PROVE  FlattenSeq(Append(ss, s)) = FlattenSeq(ss) \o s
<1> DEFINE tt == Append(ss, s)
           k == Len(ss)
<1>1. /\ tt \in Seq(Seq(S)) /\ Len(tt) = k + 1 /\ k \in Nat /\ tt[k + 1] = s
      /\ \A i \in 1 .. k : tt[i] = ss[i]
  OBVIOUS
<1> HIDE DEF tt, k
<1>2. PICK g : Pieces(g, tt, k + 1) /\ FlattenSeq(tt) = g[k + 1]
  <2>1. Len(tt) # 0
    BY <1>1
  <2> QED BY <1>1, <2>1, FlattenIsLastPiece
<1>3. (k = 0 => g[k + 1] = s) /\ (k # 0 => g[k + 1] = g[k] \o s)
  <2> DEFINE p == k + 1
  <2>1. p \in 1 .. p /\ p - 1 = k /\ (p = 1 <=> k = 0) /\ tt[p] = s
    BY <1>1
  <2>2. Pieces(g, tt, p) /\ p = k + 1
    BY <1>2
  <2> HIDE DEF p
  <2>3. g[p] = IF p = 1 THEN tt[p] ELSE g[p - 1] \o tt[p]
    BY <2>1, <2>2, PieceAt
  <2>4. (k = 0 => g[p] = s) /\ (k # 0 => g[p] = g[k] \o s)
    BY <2>1, <2>3
  <2> QED BY <2>2, <2>4
<1>4. CASE k = 0
  <2>1. ss = <<>> /\ FlattenSeq(ss) = ss
    BY <1>4 DEF k, FlattenSeq
  <2>2. <<>> \o s = s
    OBVIOUS
  <2> QED BY <1>2, <1>3, <1>4, <2>1, <2>2 DEF tt
<1>5. CASE k # 0
  <2>1. PICK f : Pieces(f, ss, k) /\ FlattenSeq(ss) = f[k]
    BY <1>5, FlattenIsLastPiece DEF k
  <2>2. k <= k + 1 /\ k + 1 \in Nat /\ k \in 1 .. k /\ k + 1 # 1
    BY <1>1, <1>5
  <2>3. \A i \in 1 .. k : f[i] = g[i]
    <3>1. Pieces(f, ss, k) /\ Pieces(g, tt, k + 1) /\ k \in Nat /\ \A i \in 1 .. k : tt[i] = ss[i]
      BY <1>1, <1>2, <2>1
    <3> QED BY <2>2, <3>1, PiecesAgree
  <2>4. f[k] = g[k] /\ g[k + 1] = g[k] \o s
    BY <1>3, <1>5, <2>2, <2>3
  <2> QED BY <1>2, <2>1, <2>4 DEF tt
<1> QED BY <1>4, <1>5

-----------------------------------------------------------------------------
(* The inductive invariant.                                                *)
RunStatus == {"running", "waiting", "interrupting", "interrupted"} \cup Terminal
RunRow == [status : RunStatus, halts : 0 .. MaxDisturbances, losses : 0 .. MaxDisturbances]
Value == [edge : Edges, item : Items, status : ValueStatus, by : 0 .. MaxActivations]
\* that the two counters which go down stay numbers follows from what they count
Counters == [activations : Nat, attempts : Nat, pending : Int, total : Nat, buffered : Int]
WindowRow == [status : {"open", "completed", "cancelled"}, items : Seq(Nat),
              reason : {"none", "count", "timeout"}]
Calls == [Slots -> Nat]

RowsTyped ==
  /\ run \in RunRow
  /\ values \in Seq(Value)
  /\ counters \in Counters
  /\ active \in [Nodes -> {"none", "ready", "running", "waiting"}]
  /\ seqs \in [Nodes -> 0 .. MaxActivations]
  /\ windows \in [Aggregators -> Seq(WindowRow)]
  /\ wakeups \in [pending : Calls, claimed : Calls]

Live == run.status \notin Terminal
NoWakeup == \A s \in Slots : wakeups.pending[s] = 0 /\ wakeups.claimed[s] = 0

\* who may be at work, and how much was begun
ActivityFits ==
  /\ Disturbances <= MaxDisturbances
  /\ counters.activations <= MaxActivations
  /\ \A n \in Nodes : seqs[n] <= counters.activations
  /\ \A n \in Expands \cup Joins : active[n] # "waiting"
  /\ \A n \in Aggregators : active[n] \in {"none", "waiting"}
  /\ ~Live => NoWakeup /\ \A n \in Nodes : active[n] = "none"

\* where the values of a run that is not over are, and what a join at work has taken
Ours(n) == {v \in DOMAIN values : Target[values[v].edge] = n}
ValuesFit ==
  /\ \A v \in DOMAIN values : values[v].by <= seqs[Target[values[v].edge]]
  /\ \A n \in Joins : active[n] # "none" => \E v \in On(n, "consumed") : values[v].by = seqs[n]
  /\ Live => \A v \in DOMAIN values :
       \/ values[v].status \in {"queued", "consumed"}
       \/ values[v].status = "indexed" /\ Target[values[v].edge] \in Joins

\* a window that is open is the last, has room and holds something
WindowsFit(n) ==
  /\ \A i \in DOMAIN windows[n] :
       /\ windows[n][i].status = "open" <=> (i = Len(windows[n]) /\ active[n] = "waiting")
       /\ windows[n][i].reason = "count" <=> Len(windows[n][i].items) = Count
       /\ windows[n][i].status = "open" =>
            windows[n][i].items # <<>> /\ Len(windows[n][i].items) < Count
  /\ active[n] = "waiting" => windows[n] # <<>>

\* the windows one after the other hold the values of the queue, in order
ItemsOf(ws) == [i \in DOMAIN ws |-> ws[i].items]
Flat(n) == FlattenSeq(ItemsOf(windows[n]))
QueueIsCut(n) ==
  /\ \A i \in DOMAIN Flat(n) : Flat(n)[i] \in Ours(n) /\ Rank(Ours(n), Flat(n)[i]) = i
  /\ Live => \A v \in Ours(n) :
       values[v].status = "consumed" <=> \E i \in DOMAIN Flat(n) : Flat(n)[i] = v

\* of each key a join has taken the first values, equally many on every port
PairsFit(n) ==
  \A k \in Items \ BadItems : \A d, e \in In(n) :
    /\ \A v \in Tupled(n, d, k), u \in Tupled(n, e, k) :
         values[v].by = values[u].by <=> Rank(OfKey(d, k), v) = Rank(OfKey(e, k), u)
    /\ Live =>
         /\ Cardinality(Tupled(n, d, k)) = Cardinality(Tupled(n, e, k))
         /\ \A v \in Tupled(n, e, k), u \in OfKey(e, k) : u < v => u \in Tupled(n, e, k)

\* a node that could begin has a wakeup, unless the run was interrupted
Ready(n) ==
  IF n \in Joins THEN \E k \in Items \ BadItems : Complete(Buffered(n), n, k)
  ELSE On(n, "queued") # {}
ReadyIsWoken ==
  run.halts = 0 =>
    /\ Live => \A n \in Nodes :
         active[n] = "none" /\ Ready(n) => wakeups.pending[n] + wakeups.claimed[n] > 0
    /\ Live /\ run.status # "running" => run.status = "waiting" /\ NoWakeup /\ Busy = {}

CoordinationInv ==
  /\ RowsTyped
  /\ ActivityFits
  /\ ValuesFit
  /\ \A n \in Aggregators : WindowsFit(n) /\ QueueIsCut(n)
  /\ CountersMatchRows
  /\ \A n \in Joins : PairsFit(n)
  /\ ReadyIsWoken
  /\ NothingReadyIsStranded

-----------------------------------------------------------------------------
(* What the assumptions say, and what a row looks like after each change.   *)

\* The limits are positive numbers.
LEMMA LimitsPositive ==
  /\ {MaxItems, Count, MaxBuffered, MaxPending, MaxTotal, MaxActivations, MaxAttempts} \subseteq Nat
  /\ Count >= 1 /\ MaxActivations >= 1
BY CoordinationAssumption DEF Limits

\* The graph: kinds of nodes are disjoint, edges end at nodes.
LEMMA GraphFacts ==
  /\ Edges \subseteq Nat /\ IsFiniteSet(Edges) /\ IsFiniteSet(Nodes)
  /\ Nodes = Expands \cup Joins \cup Aggregators
  /\ Expands \cap Joins = {} /\ Expands \cap Aggregators = {} /\ Joins \cap Aggregators = {}
  /\ \A e \in Edges : Target[e] \in Nodes
  /\ Nodes \subseteq Slots /\ Settle \in Slots /\ Settle \notin Nodes
BY CoordinationAssumption DEF Nodes, Slots

\* A set of values is a finite set of numbers.
LEMMA ValuesAreNumbers ==
  ASSUME NEW W, NEW S, W \in Seq(S), NEW V, V \subseteq DOMAIN W
  PROVE  V \subseteq Nat /\ V \subseteq 0 .. Len(W) /\ IsFiniteSet(V) /\ Cardinality(V) \in Nat /\ Len(W) \in Nat
<1>1. Len(W) \in Nat /\ DOMAIN W = 1 .. Len(W)
  OBVIOUS
<1>2. V \in SUBSET Nat /\ V \subseteq 0 .. Len(W)
  BY <1>1
<1>3. \A v \in V : v <= Len(W)
  BY <1>1
<1>4. IsFiniteSet(V)
  BY <1>1, <1>2, <1>3, FS_BoundedSetOfNaturals
<1> QED BY <1>1, <1>2, <1>4, FS_CardinalityType

\* The rows after the same values: none is lost, moved or forgotten, new ones wait.
Follows(W) ==
  /\ W \in Seq(Value) /\ Len(values) <= Len(W)
  /\ \A v \in DOMAIN values : W[v].edge = values[v].edge /\ W[v].item = values[v].item
  /\ \A v \in DOMAIN W : v \notin DOMAIN values => W[v].status = "queued" /\ W[v].by = 0
Keeps(W) == Follows(W) /\ Len(W) = Len(values)

\* Rows that are followed are still there.
LEMMA FollowedRows ==
  ASSUME RowsTyped, NEW W, Follows(W)
  PROVE  /\ DOMAIN values = 1 .. Len(values) /\ DOMAIN W = 1 .. Len(W)
         /\ Len(values) \in Nat /\ Len(W) \in Nat
         /\ DOMAIN values \subseteq DOMAIN W
         /\ \A v \in DOMAIN W : v \notin DOMAIN values => v > Len(values)
         /\ \A v \in DOMAIN W : W[v] \in Value
         /\ \A v \in DOMAIN values : values[v] \in Value
<1>1. values \in Seq(Value) /\ W \in Seq(Value) /\ Len(values) <= Len(W)
  BY DEF RowsTyped, Follows
<1>2. /\ DOMAIN values = 1 .. Len(values) /\ DOMAIN W = 1 .. Len(W)
      /\ Len(values) \in Nat /\ Len(W) \in Nat
  BY <1>1
<1>3. /\ \A v \in DOMAIN W : W[v] \in Value
      /\ \A v \in DOMAIN values : values[v] \in Value
  BY <1>1
<1>4. \A v \in DOMAIN values : v \in DOMAIN W
  BY <1>1, <1>2
<1>5. \A v \in DOMAIN W : v \notin DOMAIN values => v > Len(values)
  BY <1>1, <1>2
<1> QED BY <1>2, <1>3, <1>4, <1>5

\* A row that is typed and says where it is.
LEMMA ValueRow ==
  ASSUME RowsTyped, NEW v \in DOMAIN values
  PROVE  /\ values[v] \in Value /\ values[v].edge \in Edges /\ values[v].item \in Items
         /\ values[v].status \in ValueStatus /\ values[v].by \in 0 .. MaxActivations
         /\ Target[values[v].edge] \in Nodes /\ v \in Nat /\ v \in 1 .. Len(values)
<1>1. values[v] \in Value /\ v \in 1 .. Len(values) /\ Len(values) \in Nat
  BY DEF RowsTyped
<1>2. /\ values[v].edge \in Edges /\ values[v].item \in Items
      /\ values[v].status \in ValueStatus /\ values[v].by \in 0 .. MaxActivations
  BY <1>1 DEF Value
<1>3. Target[values[v].edge] \in Nodes
  BY <1>2, GraphFacts
<1>4. v \in Nat
  BY <1>1
<1> QED BY <1>1, <1>2, <1>3, <1>4

\* Nothing happened to the values.
LEMMA SameRows ==
  ASSUME RowsTyped
  PROVE  Keeps(values)
<1>1. values \in Seq(Value) /\ Len(values) \in Nat
  BY DEF RowsTyped
<1> QED BY <1>1 DEF Keeps, Follows

\* Rows that changed only what was done with a value.
LEMMA ChangedRows ==
  ASSUME RowsTyped, NEW W, DOMAIN W = DOMAIN values, W = [v \in DOMAIN values |-> W[v]],
         \A v \in DOMAIN values :
           /\ W[v] \in Value
           /\ W[v].edge = values[v].edge /\ W[v].item = values[v].item
  PROVE  Keeps(W)
<1>1. values \in Seq(Value) /\ Len(values) \in Nat /\ DOMAIN values = 1 .. Len(values)
  BY DEF RowsTyped
<1>2. W \in [1 .. Len(values) -> Value]
  BY <1>1
<1>3. W \in Seq(Value) /\ Len(W) = Len(values)
  BY <1>1, <1>2
<1> QED BY <1>1, <1>3 DEF Keeps, Follows

\* The values of V were taken by a new instance of n, the others left alone.
LEMMA ConsumedRows ==
  ASSUME RowsTyped, NEW n \in Nodes, NEW V, V \subseteq DOMAIN values, seqs[n] + 1 <= MaxActivations
  PROVE  /\ Keeps(Consumed(V, n))
         /\ \A v \in DOMAIN values : v \notin V => Consumed(V, n)[v] = values[v]
         /\ \A v \in V : /\ Consumed(V, n)[v].status = "consumed"
                         /\ Consumed(V, n)[v].by = seqs[n] + 1
<1> DEFINE W == Consumed(V, n)
<1>1. seqs[n] \in Nat /\ MaxActivations \in Nat /\ seqs[n] + 1 \in 0 .. MaxActivations
  BY LimitsPositive DEF RowsTyped
<1>2. W = [v \in DOMAIN values |-> W[v]] /\ DOMAIN W = DOMAIN values
  BY DEF Consumed
<1>3. ASSUME NEW v \in DOMAIN values
      PROVE  /\ W[v] \in Value /\ W[v].edge = values[v].edge /\ W[v].item = values[v].item
             /\ v \notin V => W[v] = values[v]
             /\ v \in V => W[v].status = "consumed" /\ W[v].by = seqs[n] + 1
  <2>1. values[v] \in Value
    BY ValueRow
  <2>2. W[v] = IF v \in V THEN [values[v] EXCEPT !.status = "consumed", !.by = seqs[n] + 1] ELSE values[v]
    BY DEF Consumed
  <2> HIDE DEF W
  <2> QED BY <1>1, <2>1, <2>2 DEF Value, ValueStatus
<1>4. Keeps(W)
  <2> HIDE DEF W
  <2> QED BY <1>2, <1>3, ChangedRows
<1> QED BY <1>3, <1>4

\* The end of a run: what a join still held is cancelled.
LEMMA CancelledRows ==
  ASSUME RowsTyped, NEW V, Keeps(V)
  PROVE  /\ Keeps(Cancelled(V))
         /\ \A v \in DOMAIN values :
              /\ Cancelled(V)[v].by = V[v].by
              /\ V[v].status # "indexed" => Cancelled(V)[v].status = V[v].status
              /\ V[v].status = "indexed" => Cancelled(V)[v].status = "cancelled"
<1> DEFINE W == Cancelled(V)
<1>1. DOMAIN V = DOMAIN values /\ Follows(V)
  BY FollowedRows DEF Keeps
<1>2. W = [v \in DOMAIN values |-> W[v]] /\ DOMAIN W = DOMAIN values
  BY <1>1 DEF Cancelled
<1>3. ASSUME NEW v \in DOMAIN values
      PROVE  /\ W[v] \in Value /\ W[v].edge = values[v].edge /\ W[v].item = values[v].item
             /\ W[v].by = V[v].by
             /\ V[v].status # "indexed" => W[v].status = V[v].status
             /\ V[v].status = "indexed" => W[v].status = "cancelled"
  <2>1. V[v] \in Value /\ V[v].edge = values[v].edge /\ V[v].item = values[v].item
    BY <1>1, FollowedRows DEF Follows
  <2>2. W[v] = IF V[v].status = "indexed" THEN [V[v] EXCEPT !.status = "cancelled"] ELSE V[v]
    BY <1>1 DEF Cancelled
  <2> HIDE DEF W
  <2> QED BY <2>1, <2>2 DEF Value, ValueStatus, Unconsumed
<1>4. Keeps(W)
  <2> HIDE DEF W
  <2> QED BY <1>2, <1>3, ChangedRows
<1> QED BY <1>3, <1>4

\* What waited at a join when the run completed is stranded.
LEMMA StrandedRows ==
  ASSUME RowsTyped
  PROVE  /\ Keeps(Stranded)
         /\ \A v \in DOMAIN values :
              /\ Stranded[v].by = values[v].by
              /\ values[v].status # "indexed" => Stranded[v].status = values[v].status
              /\ values[v].status = "indexed" => Stranded[v].status = "stranded"
<1> DEFINE W == Stranded
<1>1. W = [v \in DOMAIN values |-> W[v]] /\ DOMAIN W = DOMAIN values
  BY DEF Stranded
<1>2. ASSUME NEW v \in DOMAIN values
      PROVE  /\ W[v] \in Value /\ W[v].edge = values[v].edge /\ W[v].item = values[v].item
             /\ W[v].by = values[v].by
             /\ values[v].status # "indexed" => W[v].status = values[v].status
             /\ values[v].status = "indexed" => W[v].status = "stranded"
  <2>1. values[v] \in Value
    BY ValueRow
  <2>2. W[v] = IF values[v].status = "indexed" THEN [values[v] EXCEPT !.status = "stranded"] ELSE values[v]
    BY DEF Stranded
  <2> HIDE DEF W
  <2> QED BY <2>1, <2>2 DEF Value, ValueStatus, Unconsumed
<1>3. Keeps(W)
  <2> HIDE DEF W
  <2> QED BY <1>1, <1>2, ChangedRows
<1> QED BY <1>2, <1>3

\* A join has looked at values: they are indexed.
LEMMA IndexedRowsOf ==
  ASSUME RowsTyped, NEW U
  PROVE  /\ Keeps(IndexedOf(U))
         /\ \A v \in DOMAIN values :
              /\ IndexedOf(U)[v].by = values[v].by
              /\ v \in U => IndexedOf(U)[v].status = "indexed"
              /\ v \notin U => IndexedOf(U)[v] = values[v]
<1> DEFINE W == IndexedOf(U)
<1>1. W = [v \in DOMAIN values |-> W[v]] /\ DOMAIN W = DOMAIN values
  BY DEF IndexedOf
<1>2. ASSUME NEW v \in DOMAIN values
      PROVE  /\ W[v] \in Value /\ W[v].edge = values[v].edge /\ W[v].item = values[v].item
             /\ W[v].by = values[v].by
             /\ v \in U => W[v].status = "indexed"
             /\ v \notin U => W[v] = values[v]
  <2>1. values[v] \in Value
    BY ValueRow
  <2>2. W[v] = IF v \in U THEN [values[v] EXCEPT !.status = "indexed"] ELSE values[v]
    BY DEF IndexedOf
  <2> HIDE DEF W
  <2> QED BY <2>1, <2>2 DEF Value, ValueStatus, Unconsumed
<1>3. Keeps(W)
  <2> HIDE DEF W
  <2> QED BY <1>1, <1>2, ChangedRows
<1> QED BY <1>2, <1>3

\* A join has looked at its queue: what waited there is indexed.
LEMMA IndexedRows ==
  ASSUME RowsTyped, NEW n \in Nodes
  PROVE  /\ Keeps(IndexedAll(n))
         /\ \A v \in DOMAIN values :
              /\ IndexedAll(n)[v].by = values[v].by
              /\ v \in On(n, "queued") => IndexedAll(n)[v].status = "indexed"
              /\ v \notin On(n, "queued") => IndexedAll(n)[v] = values[v]
BY IndexedRowsOf DEF IndexedAll

\* The oldest value that waits for a node.
LEMMA OldestWaits ==
  ASSUME RowsTyped, NEW n, On(n, "queued") # {}
  PROVE  /\ Oldest(n) \in On(n, "queued") /\ Oldest(n) \in DOMAIN values
         /\ \A v \in On(n, "queued") : Oldest(n) <= v
<1>1. On(n, "queued") \subseteq DOMAIN values
  BY DEF On
<1>2. On(n, "queued") \subseteq Nat
  BY <1>1, ValuesAreNumbers DEF RowsTyped
<1> QED BY <1>1, <1>2, MinIsLeast DEF Oldest

\* An Aggregator took the oldest value into its window.
LEMMA TakenRows ==
  ASSUME RowsTyped, NEW n \in Nodes, On(n, "queued") # {}, seqs[n] + 1 <= MaxActivations \/ ~Opens(n)
  PROVE  /\ Keeps(Taken(n))
         /\ \A v \in DOMAIN values : v # Oldest(n) => Taken(n)[v] = values[v]
         /\ Taken(n)[Oldest(n)].status = "consumed"
         /\ Taken(n)[Oldest(n)].by = TakenSeq(n)[n]
<1> DEFINE W == Taken(n)
           b == TakenSeq(n)[n]
<1>1. Oldest(n) \in DOMAIN values
  BY OldestWaits
<1>2. b \in 0 .. MaxActivations
  <2>1. seqs \in [Nodes -> 0 .. MaxActivations] /\ MaxActivations \in Nat
    BY LimitsPositive DEF RowsTyped
  <2>2. b = IF Opens(n) THEN seqs[n] + 1 ELSE seqs[n]
    BY <2>1 DEF TakenSeq, NextSeq
  <2> QED BY <2>1, <2>2
<1>3. /\ W = [v \in DOMAIN values |-> W[v]] /\ DOMAIN W = DOMAIN values
      /\ \A v \in DOMAIN values : v # Oldest(n) => W[v] = values[v]
      /\ W[Oldest(n)] = [values[Oldest(n)] EXCEPT !.status = "consumed", !.by = b]
  <2> HIDE DEF b
  <2>1. W = [values EXCEPT ![Oldest(n)].status = "consumed", ![Oldest(n)].by = b]
    BY DEF Taken, b
  <2>2. values \in Seq(Value) /\ values[Oldest(n)] \in Value
    BY <1>1, ValueRow DEF RowsTyped
  <2> HIDE DEF W
  <2> QED BY <1>1, <2>1, <2>2 DEF Value
<1>4. ASSUME NEW v \in DOMAIN values
      PROVE  W[v] \in Value /\ W[v].edge = values[v].edge /\ W[v].item = values[v].item
  <2>1. values[v] \in Value
    BY ValueRow
  <2> HIDE DEF W, b
  <2> QED BY <1>2, <1>3, <2>1 DEF Value, ValueStatus
<1>5. W[Oldest(n)].status = "consumed" /\ W[Oldest(n)].by = b
  <2>1. values[Oldest(n)] \in Value
    BY <1>1, ValueRow
  <2> HIDE DEF W, b
  <2> QED BY <1>3, <2>1 DEF Value
<1>6. Keeps(W)
  <2> HIDE DEF W, b
  <2> QED BY <1>3, <1>4, ChangedRows
<1> QED BY <1>3, <1>5, <1>6

\* The edges out of a node, in order, are edges.
LEMMA OutEdges ==
  ASSUME NEW n
  PROVE  /\ Out(n) \in Seq(Edges)
         /\ \A j \in DOMAIN Out(n) : Out(n)[j] \in Edges
<1> DEFINE E == {e \in Edges : e \notin Entry /\ Source[e] = n}
<1>1. E \in SUBSET Edges /\ E \subseteq Nat /\ IsFiniteSet(E)
  BY GraphFacts, FS_Subset
<1>2. InOrder(E) \in Seq(E)
  <2> HIDE DEF E
  <2> QED BY <1>1, OrderedPlaces
<1>3. Out(n) = InOrder(E)
  BY DEF Out
<1> HIDE DEF E
<1>4. Out(n) \in Seq(Edges)
  <2>1. Seq(E) \subseteq Seq(Edges)
    BY <1>1, SeqMonotonic
  <2> QED BY <1>2, <1>3, <2>1
<1> QED BY <1>4

\* What is emitted: new rows on edges out of the node, and nothing if there are no items.
Fresh(n) == {NewValue(Out(n)[j], x) : j \in DOMAIN Out(n), x \in Items}
\* The values emitted of a list of items are of that kind, in order.
LEMMA EmittedRows ==
  ASSUME NEW n, NEW items \in Seq(Items)
  PROVE  /\ Emitted(n, items) \in Seq(Fresh(n)) /\ Emitted(n, items) \in Seq(Value)
         /\ Len(Emitted(n, items)) \in Nat
         /\ items = <<>> => Len(Emitted(n, items)) = 0
         /\ \A i \in 1 .. Len(Emitted(n, items)) :
              /\ Emitted(n, items)[i] \in Value
              /\ Emitted(n, items)[i].status = "queued" /\ Emitted(n, items)[i].by = 0
              /\ Target[Emitted(n, items)[i].edge] \in Downstream(n, items)
<1> DEFINE ss == [i \in DOMAIN items |-> [j \in DOMAIN Out(n) |-> NewValue(Out(n)[j], items[i])]]
           E == Emitted(n, items)
<1>1. DOMAIN items = 1 .. Len(items) /\ Len(items) \in Nat /\ \A i \in DOMAIN items : items[i] \in Items
  OBVIOUS
<1>2. DOMAIN Out(n) = 1 .. Len(Out(n)) /\ Len(Out(n)) \in Nat
  BY OutEdges
<1>3. ASSUME NEW i \in DOMAIN items PROVE ss[i] \in Seq(Fresh(n))
  <2>1. ss[i] = [j \in DOMAIN Out(n) |-> NewValue(Out(n)[j], items[i])]
    OBVIOUS
  <2>2. \A j \in DOMAIN Out(n) : NewValue(Out(n)[j], items[i]) \in Fresh(n)
    BY <1>1 DEF Fresh
  <2> HIDE DEF ss
  <2>3. ss[i] \in [1 .. Len(Out(n)) -> Fresh(n)]
    BY <1>2, <2>1, <2>2
  <2> QED BY <1>2, <2>3
<1>4. ss \in Seq(Seq(Fresh(n)))
  <2>1. ss \in [1 .. Len(items) -> Seq(Fresh(n))]
    BY <1>1, <1>3
  <2> HIDE DEF ss
  <2> QED BY <1>1, <2>1
<1>5. E = FlattenSeq(ss)
  BY DEF Emitted
<1>6. E \in Seq(Fresh(n))
  <2> HIDE DEF ss, E
  <2> QED BY <1>4, <1>5, FlattenTyped
<1>7. items = <<>> => Len(E) = 0
  <2>1. items = <<>> => Len(ss) = 0
    BY <1>1
  <2>2. Len(ss) = 0 => FlattenSeq(ss) = ss
    <3> HIDE DEF ss
    <3> QED BY DEF FlattenSeq
  <2> HIDE DEF ss, E
  <2> QED BY <1>5, <2>1, <2>2
<1>8. ASSUME NEW r \in Fresh(n)
      PROVE  /\ r \in Value /\ r.status = "queued" /\ r.by = 0
             /\ \E j \in DOMAIN Out(n) : r.edge = Out(n)[j]
  <2>1. PICK j \in DOMAIN Out(n), x \in Items : r = NewValue(Out(n)[j], x)
    BY DEF Fresh
  <2>2. r = [edge |-> Out(n)[j], item |-> x, status |-> "queued", by |-> 0]
    BY <2>1 DEF NewValue
  <2>3. Out(n)[j] \in Edges /\ 0 \in 0 .. MaxActivations
    BY OutEdges, LimitsPositive
  <2>4. r \in [edge : Edges, item : Items, status : ValueStatus, by : 0 .. MaxActivations]
    BY <2>2, <2>3 DEF ValueStatus, Unconsumed
  <2> QED BY <2>2, <2>4 DEF Value
<1> HIDE DEF ss, E
<1>9. Len(E) \in Nat /\ E \in Seq(Value) /\ \A i \in 1 .. Len(E) : E[i] \in Fresh(n)
  <2>1. Fresh(n) \subseteq Value
    BY <1>8
  <2> QED BY <1>6, <2>1
<1>10. ASSUME NEW i \in 1 .. Len(E) PROVE Target[E[i].edge] \in Downstream(n, items)
  <2>1. Len(E) # 0
    BY <1>9
  <2>2. items # <<>>
    BY <1>7, <2>1
  <2>3. PICK j \in DOMAIN Out(n) : E[i].edge = Out(n)[j]
    BY <1>8, <1>9
  <2>4. Out(n)[j] \in Range(Out(n))
    BY DEF Range
  <2>5. Downstream(n, items) = {Target[e] : e \in Range(Out(n))}
    BY <2>2 DEF Downstream
  <2> QED BY <2>3, <2>4, <2>5
<1> QED BY <1>6, <1>7, <1>8, <1>9, <1>10 DEF E

\* Emissions go behind the rows that are there.
LEMMA AppendedRows ==
  ASSUME RowsTyped, NEW n, NEW items \in Seq(Items), NEW V, Keeps(V)
  PROVE  /\ Follows(V \o Emitted(n, items))
         /\ Len(V \o Emitted(n, items)) = Len(values) + Len(Emitted(n, items))
         /\ \A v \in DOMAIN values : (V \o Emitted(n, items))[v] = V[v]
         /\ \A v \in DOMAIN (V \o Emitted(n, items)) : v \notin DOMAIN values =>
              Target[(V \o Emitted(n, items))[v].edge] \in Downstream(n, items)
<1> DEFINE E == Emitted(n, items)
           W == V \o E
<1>1. /\ E \in Seq(Value) /\ Len(E) \in Nat
      /\ \A i \in 1 .. Len(E) : E[i].status = "queued" /\ E[i].by = 0 /\ Target[E[i].edge] \in Downstream(n, items)
  BY EmittedRows
<1>2. /\ V \in Seq(Value) /\ Len(V) = Len(values) /\ Len(values) \in Nat
      /\ DOMAIN values = 1 .. Len(values)
      /\ \A v \in DOMAIN values : V[v].edge = values[v].edge /\ V[v].item = values[v].item
  BY FollowedRows DEF Keeps, Follows
<1> HIDE DEF E
<1>3. /\ W \in Seq(Value) /\ Len(W) = Len(values) + Len(E) /\ DOMAIN W = 1 .. (Len(values) + Len(E))
      /\ \A v \in 1 .. Len(values) : W[v] = V[v]
      /\ \A v \in 1 .. (Len(values) + Len(E)) : v \notin 1 .. Len(values) => W[v] = E[v - Len(values)]
  <2>1. /\ W \in Seq(Value) /\ Len(W) = Len(V) + Len(E)
        /\ \A i \in 1 .. Len(V) + Len(E) : W[i] = IF i <= Len(V) THEN V[i] ELSE E[i - Len(V)]
    BY <1>1, <1>2, ConcatProperties
  <2> HIDE DEF W
  <2>2. DOMAIN W = 1 .. Len(W)
    BY <2>1
  <2>3. \A v \in 1 .. Len(values) : v \in 1 .. Len(V) + Len(E) /\ v <= Len(V)
    BY <1>1, <1>2
  <2>4. \A v \in 1 .. Len(values) + Len(E) : v \notin 1 .. Len(values) => ~(v <= Len(V))
    BY <1>1, <1>2
  <2> QED BY <1>1, <1>2, <2>1, <2>2, <2>3, <2>4
<1> HIDE DEF W
<1>4. ASSUME NEW v \in DOMAIN W, v \notin DOMAIN values
      PROVE  W[v].status = "queued" /\ W[v].by = 0 /\ Target[W[v].edge] \in Downstream(n, items)
  <2>1. W[v] = E[v - Len(values)] /\ v - Len(values) \in 1 .. Len(E)
    BY <1>1, <1>2, <1>3, <1>4
  <2> QED BY <1>1, <2>1
<1>5. Len(values) <= Len(W)
  BY <1>1, <1>2, <1>3
<1>6. Follows(W)
  BY <1>2, <1>3, <1>4, <1>5 DEF Follows
<1> QED BY <1>2, <1>3, <1>4, <1>6 DEF E, W

-----------------------------------------------------------------------------
(* What a transaction can be, seen by the rows: one that leaves the values  *)
(* alone, the end of the run, an instance that begins, a join that indexes  *)
(* its queue, an instance that emits, a window that grows or closes, and    *)
(* the completion.                                                          *)
Slack(k) == wakeups.pending[k] + wakeups.claimed[k]
RunGoesOn ==
  /\ run' \in RunRow /\ Disturbances' <= MaxDisturbances
  /\ wakeups' \in [pending : Calls, claimed : Calls]

Still ==
  /\ RunGoesOn /\ Live' /\ UNCHANGED <<values, counters, seqs, windows>>
  /\ active' \in [Nodes -> {"none", "ready", "running", "waiting"}]
  /\ \A n \in Nodes : active'[n] = active[n] \/ (active[n] = "ready" /\ active'[n] = "running")
  /\ ReadyIsWoken'

Ends ==
  /\ RunGoesOn /\ ~Live' /\ run'.status # "completed" /\ NoWakeup'
  /\ active' = [m \in Nodes |-> "none"]
  /\ windows' = [m \in Aggregators |->
        IF LastOpen(m) THEN [windows[m] EXCEPT ![Len(windows[m])].status = "cancelled"] ELSE windows[m]]
  /\ counters' \in Counters /\ counters'.buffered = 0 /\ counters'.activations <= MaxActivations
  /\ seqs' \in [Nodes -> 0 .. MaxActivations]
  /\ \A m \in Nodes : seqs[m] <= seqs'[m] /\ seqs'[m] <= counters'.activations
  /\ Keeps(values')
  /\ \E n \in Slots : \E T \in SUBSET On(n, "queued") :
       /\ counters'.pending = counters.pending - Cardinality(T)
       /\ n \in Joins => \A v \in T : values[v].item \in BadItems
       /\ \A v \in DOMAIN values :
            /\ v \in T => values'[v].status = "consumed" /\ values'[v].by <= seqs'[n]
            /\ v \notin T => /\ values'[v].by = values[v].by
                             /\ values'[v].status = "consumed" <=> values[v].status = "consumed"
            /\ values'[v].status # "indexed"

Begins(n, T) ==
  /\ RunGoesOn /\ run.status = "running" /\ run' = run /\ windows' = windows
  /\ active[n] = "none" /\ active' = [active EXCEPT ![n] = "ready"]
  /\ counters' \in Counters /\ counters'.activations = counters.activations + 1
  /\ counters'.activations <= MaxActivations
  /\ seqs' = NextSeq(n) /\ seqs[n] + 1 <= MaxActivations
  /\ wakeups' = Served(n, {})
  /\ T \subseteq Buffered(n) /\ Keeps(values')
  /\ \A v \in T : values'[v].status = "consumed" /\ values'[v].by = seqs[n] + 1
  /\ counters'.pending = counters.pending - Cardinality(T)
ExpandBegins(n) ==
  /\ n \in Expands /\ On(n, "queued") # {} /\ Begins(n, {Oldest(n)})
  /\ counters'.buffered = counters.buffered
  /\ \A v \in DOMAIN values : v # Oldest(n) => values'[v] = values[v]
JoinBegins(n, k) ==
  /\ n \in Joins /\ k \in Items \ BadItems /\ Complete(Buffered(n), n, k)
  /\ Begins(n, FirstOfKey(Buffered(n), n, k))
  /\ counters'.buffered = counters.buffered + Cardinality(On(n, "queued"))
                            - Cardinality(FirstOfKey(Buffered(n), n, k))
  /\ \A v \in DOMAIN values : v \notin FirstOfKey(Buffered(n), n, k) => values'[v] = IndexedAll(n)[v]

Indexes(n) ==
  /\ n \in Joins /\ run.status = "running" /\ ~Ready(n) /\ RunGoesOn
  /\ values' = IndexedAll(n)
  /\ counters' = [counters EXCEPT !.buffered = @ + Cardinality(On(n, "queued"))]
  /\ wakeups' = Served(n, {Settle})
  /\ UNCHANGED <<run, active, seqs, windows>>

Emits(n, items) ==
  /\ n \in Expands \cup Joins /\ items \in Seq(Items) /\ active[n] = "running"
  /\ RunGoesOn /\ Live' /\ run'.halts = run.halts
  /\ run'.status = run.status \/ (run.status = "interrupting" /\ run'.status = "interrupted")
  /\ values' = values \o Emitted(n, items)
  /\ counters' = Enqueued(counters, n, items)
  /\ active' = [active EXCEPT ![n] = "none"]
  /\ \A m \in Nodes : Slack(m)' >= Slack(m) /\ (m = n \/ m \in Downstream(n, items) => Slack(m)' > 0)
  /\ UNCHANGED <<seqs, windows>>

\* the new rows, counters and window of an Aggregator that collects, or closes at its deadline
Grown(n, taken, items) ==
  IF taken THEN /\ run.status = "running" /\ On(n, "queued") # {} /\ items = Append(Collected(n), Oldest(n))
                /\ Opens(n) => counters.activations + 1 <= MaxActivations
           ELSE items = Collected(n) /\ active[n] = "waiting"
RowsOf(n, taken) == IF taken THEN Taken(n) ELSE values
CountsOf(n, taken) == IF taken THEN TakenCount(n) ELSE counters
SeqsOf(n, taken) == IF taken THEN TakenSeq(n) ELSE seqs
WindowKept(n, items) ==
  /\ n \in Aggregators /\ Grown(n, TRUE, items) /\ Len(items) < Count
  /\ RunGoesOn /\ KeepWindow(n, items)
WindowCloses(n, taken, items, reason) ==
  /\ n \in Aggregators /\ Grown(n, taken, items) /\ run.status \in {"running", "waiting"}
  /\ RunGoesOn /\ Live' /\ run'.halts = run.halts /\ run'.status = "running"
  /\ reason \in {"count", "timeout"} /\ (reason = "count" <=> taken) /\ (taken => Len(items) >= Count)
  /\ values' = RowsOf(n, taken) \o Emitted(n, Envelope(items))
  /\ counters' \in Counters
  /\ counters'.activations = CountsOf(n, taken).activations
  /\ counters'.pending = CountsOf(n, taken).pending + Len(Emitted(n, Envelope(items)))
  /\ counters'.buffered = CountsOf(n, taken).buffered - Len(items)
  /\ active' = [active EXCEPT ![n] = "none"]
  /\ seqs' = SeqsOf(n, taken)
  /\ windows' = [windows EXCEPT ![n] = Append(Closed(n), Window("completed", items, reason))]
  /\ \A m \in Nodes : /\ m # n => Slack(m)' >= Slack(m)
                      /\ m = n \/ m \in Downstream(n, Envelope(items)) => Slack(m)' > 0

Completes ==
  /\ RunGoesOn /\ SettleCompleted

StepKinds ==
  \/ Still \/ Ends \/ Completes
  \/ \E n \in Nodes :
       \/ ExpandBegins(n) \/ Indexes(n)
       \/ \E k \in Items : JoinBegins(n, k)
       \/ \E items \in Seq(Items) : Emits(n, items)
       \/ \E items \in Seq(Nat) : WindowKept(n, items)
       \/ \E taken \in BOOLEAN, items \in Seq(Nat), reason \in {"count", "timeout"} :
            WindowCloses(n, taken, items, reason)

\* The windows of an Aggregator: all that are closed, and what the open one collected.
LEMMA ItemsTyped ==
  ASSUME NEW ws \in Seq(WindowRow)
  PROVE  ItemsOf(ws) \in Seq(Seq(Nat)) /\ FlattenSeq(ItemsOf(ws)) \in Seq(Nat)
<1>1. DOMAIN ws = 1 .. Len(ws) /\ Len(ws) \in Nat /\ \A i \in 1 .. Len(ws) : ws[i].items \in Seq(Nat)
  <2>1. DOMAIN ws = 1 .. Len(ws) /\ Len(ws) \in Nat /\ \A i \in 1 .. Len(ws) : ws[i] \in WindowRow
    OBVIOUS
  <2>2. \A w \in WindowRow : w.items \in Seq(Nat)
    BY DEF WindowRow
  <2> QED BY <2>1, <2>2
<1>2. ItemsOf(ws) \in [1 .. Len(ws) -> Seq(Nat)]
  BY <1>1 DEF ItemsOf
<1>3. ItemsOf(ws) \in Seq(Seq(Nat))
  BY <1>1, <1>2
<1> QED BY <1>3, FlattenTyped

\* One more window puts its items at the end.
LEMMA FlatWithWindow ==
  ASSUME NEW ws \in Seq(WindowRow), NEW w \in WindowRow
  PROVE  FlattenSeq(ItemsOf(Append(ws, w))) = FlattenSeq(ItemsOf(ws)) \o w.items
<1>1. w.items \in Seq(Nat) /\ ItemsOf(ws) \in Seq(Seq(Nat))
  BY ItemsTyped DEF WindowRow
<1>2. ItemsOf(Append(ws, w)) = Append(ItemsOf(ws), w.items)
  <2>1. /\ DOMAIN Append(ws, w) = 1 .. (Len(ws) + 1) /\ Len(ws) \in Nat /\ DOMAIN ws = 1 .. Len(ws)
        /\ \A i \in 1 .. Len(ws) : Append(ws, w)[i] = ws[i]
        /\ Append(ws, w)[Len(ws) + 1] = w
    OBVIOUS
  <2>2. DOMAIN ItemsOf(ws) = 1 .. Len(ws) /\ Len(ItemsOf(ws)) = Len(ws)
    BY <1>1, <2>1 DEF ItemsOf
  <2>3. /\ DOMAIN Append(ItemsOf(ws), w.items) = 1 .. (Len(ws) + 1)
        /\ \A i \in 1 .. Len(ws) : Append(ItemsOf(ws), w.items)[i] = ItemsOf(ws)[i]
        /\ Append(ItemsOf(ws), w.items)[Len(ws) + 1] = w.items
    BY <1>1, <2>1, <2>2
  <2>4. ItemsOf(Append(ws, w)) = [i \in 1 .. (Len(ws) + 1) |-> Append(ws, w)[i].items]
    BY <2>1 DEF ItemsOf
  <2>5. \A i \in 1 .. (Len(ws) + 1) : Append(ws, w)[i].items = Append(ItemsOf(ws), w.items)[i]
    <3> SUFFICES ASSUME NEW i \in 1 .. (Len(ws) + 1)
                 PROVE  Append(ws, w)[i].items = Append(ItemsOf(ws), w.items)[i]
      OBVIOUS
    <3>1. CASE i \in 1 .. Len(ws)
      BY <2>1, <2>3, <3>1 DEF ItemsOf
    <3>2. CASE i = Len(ws) + 1
      BY <2>1, <2>3, <3>2
    <3>3. i \in 1 .. Len(ws) \/ i = Len(ws) + 1
      BY <2>1
    <3> QED BY <3>1, <3>2, <3>3
  <2>6. Append(ItemsOf(ws), w.items) \in Seq(Seq(Nat))
    BY <1>1
  <2>7. Append(ItemsOf(ws), w.items) = [i \in 1 .. (Len(ws) + 1) |-> Append(ItemsOf(ws), w.items)[i]]
    BY <2>3, <2>6
  <2> QED BY <2>4, <2>5, <2>7
<1> QED BY <1>1, <1>2, FlattenAppend

\* A sequence that is not empty is its front and its last.
LEMMA FrontAndLast ==
  ASSUME NEW S, NEW s \in Seq(S), s # <<>>
  PROVE  /\ Front(s) \in Seq(S) /\ Last(s) \in S /\ Append(Front(s), Last(s)) = s
         /\ Len(Front(s)) = Len(s) - 1 /\ \A i \in 1 .. Len(s) - 1 : Front(s)[i] = s[i]
<1>1. Len(s) \in Nat /\ Len(s) # 0 /\ Len(s) \in 1 .. Len(s)
  BY EmptySeq
<1>2. /\ SubSeq(s, 1, Len(s) - 1) \in Seq(S) /\ Len(SubSeq(s, 1, Len(s) - 1)) = Len(s) - 1
      /\ \A i \in 1 .. Len(s) - 1 : SubSeq(s, 1, Len(s) - 1)[i] = s[i]
  <2> DEFINE k == Len(s) - 1
  <2>1. k \in Nat /\ k \in 0 .. Len(s) /\ 1 \in 1 .. (Len(s) + 1)
    BY <1>1
  <2>2. SubSeq(s, 1, k) = [i \in 1 .. (1 + k - 1) |-> s[1 + i - 1]]
    BY <2>1
  <2>3. 1 .. (1 + k - 1) = 1 .. k /\ \A i \in 1 .. k : 1 + i - 1 = i /\ i \in 1 .. Len(s)
    BY <1>1, <2>1
  <2>4. SubSeq(s, 1, k) = [i \in 1 .. k |-> s[i]]
    BY <2>2, <2>3
  <2>5. \A i \in 1 .. k : s[i] \in S
    BY <2>3
  <2>6. SubSeq(s, 1, k) \in [1 .. k -> S]
    BY <2>4, <2>5
  <2> HIDE DEF k
  <2>7. SubSeq(s, 1, k) \in Seq(S) /\ Len(SubSeq(s, 1, k)) = k /\ \A i \in 1 .. k : SubSeq(s, 1, k)[i] = s[i]
    BY <2>1, <2>4, <2>6
  <2> QED BY <2>7 DEF k
<1>3. Last(s) \in S /\ Last(s) = s[Len(s)]
  BY <1>1 DEF Last
<1> DEFINE t == Append(SubSeq(s, 1, Len(s) - 1), Last(s))
<1>4. t \in Seq(S) /\ Len(t) = Len(s)
  BY <1>1, <1>2, <1>3
<1>5. \A i \in 1 .. Len(s) : t[i] = s[i]
  <2> SUFFICES ASSUME NEW i \in 1 .. Len(s) PROVE t[i] = s[i]
    OBVIOUS
  <2>1. CASE i = Len(s)
    BY <1>1, <1>2, <1>3, <2>1
  <2>2. CASE i \in 1 .. Len(s) - 1
    BY <1>1, <1>2, <1>3, <2>2
  <2> QED BY <1>1, <2>1, <2>2
<1>6. t = s
  <2> HIDE DEF t
  <2> QED BY <1>4, <1>5, SeqEqual
<1> QED BY <1>2, <1>3, <1>6 DEF Front

\* The items of the windows of an Aggregator are those of the closed ones and the collected.
LEMMA FlatIsClosedAndCollected ==
  ASSUME RowsTyped, ActivityFits, NEW n \in Aggregators, WindowsFit(n)
  PROVE  /\ Closed(n) \in Seq(WindowRow) /\ Collected(n) \in Seq(Nat)
         /\ FlattenSeq(ItemsOf(Closed(n))) \in Seq(Nat) /\ Flat(n) \in Seq(Nat)
         /\ Flat(n) = FlattenSeq(ItemsOf(Closed(n))) \o Collected(n)
<1>1. windows[n] \in Seq(WindowRow)
  BY DEF RowsTyped
<1>2. CASE Opens(n)
  <2>1. Closed(n) = windows[n] /\ Collected(n) = <<>>
    BY <1>2 DEF Closed, Collected
  <2>2. FlattenSeq(ItemsOf(windows[n])) \in Seq(Nat)
    BY <1>1, ItemsTyped
  <2>3. FlattenSeq(ItemsOf(windows[n])) \o <<>> = FlattenSeq(ItemsOf(windows[n]))
    BY <2>2, ConcatEmptySeq
  <2> QED BY <1>1, <2>1, <2>2, <2>3 DEF Flat
<1>3. CASE ~Opens(n) /\ windows[n] # <<>>
  <2>1. Closed(n) = Front(windows[n]) /\ Collected(n) = Last(windows[n]).items
    BY <1>3 DEF Closed, Collected
  <2>2. /\ Closed(n) \in Seq(WindowRow) /\ Last(windows[n]) \in WindowRow
        /\ Append(Closed(n), Last(windows[n])) = windows[n]
    BY <1>1, <1>3, <2>1, FrontAndLast
  <2>3. Collected(n) \in Seq(Nat)
    BY <2>1, <2>2 DEF WindowRow
  <2> QED BY <1>1, <2>1, <2>2, <2>3, FlatWithWindow, ItemsTyped DEF Flat
<1>4. Opens(n) \/ windows[n] # <<>>
  BY DEF WindowsFit, ActivityFits, Opens
<1> QED BY <1>2, <1>3, <1>4

\* Where the items of the windows are in the queue.
LEMMA WindowPlaces ==
  ASSUME RowsTyped, ActivityFits, NEW n \in Aggregators, WindowsFit(n), QueueIsCut(n)
  PROVE  /\ \A i \in DOMAIN Collected(n) : Collected(n)[i] \in Ours(n)
         /\ \A i \in DOMAIN Collected(n) : \E j \in DOMAIN Flat(n) : Flat(n)[j] = Collected(n)[i]
         /\ \A i, j \in DOMAIN Collected(n) : Collected(n)[i] = Collected(n)[j] => i = j
<1> DEFINE F == FlattenSeq(ItemsOf(Closed(n)))
           C == Collected(n)
<1>1. F \in Seq(Nat) /\ C \in Seq(Nat) /\ Flat(n) = F \o C /\ Flat(n) \in Seq(Nat)
  BY FlatIsClosedAndCollected
<1> HIDE DEF F, C
<1>2. Len(F) \in Nat /\ Len(C) \in Nat /\ DOMAIN C = 1 .. Len(C) /\ Len(Flat(n)) = Len(F) + Len(C)
  BY <1>1, ConcatProperties
<1>3. ASSUME NEW i \in DOMAIN C
      PROVE  Len(F) + i \in DOMAIN Flat(n) /\ Flat(n)[Len(F) + i] = C[i]
  <2>1. i \in Nat /\ i >= 1 /\ i <= Len(C) /\ Len(F) + i \in 1 .. Len(F) + Len(C) /\ ~(Len(F) + i <= Len(F))
    BY <1>2
  <2>2. DOMAIN Flat(n) = 1 .. Len(F) + Len(C)
    BY <1>1, <1>2
  <2>3. Flat(n)[Len(F) + i] = C[Len(F) + i - Len(F)]
    BY <1>1, <2>1, ConcatProperties
  <2>4. Len(F) + i - Len(F) = i
    BY <1>2, <2>1
  <2> QED BY <2>1, <2>2, <2>3, <2>4
<1>4. \A i \in DOMAIN C : C[i] \in Ours(n) /\ Rank(Ours(n), C[i]) = Len(F) + i
  BY <1>3 DEF QueueIsCut
<1>5. ASSUME NEW i \in DOMAIN C, NEW j \in DOMAIN C, C[i] = C[j] PROVE i = j
  <2>1. Len(F) + i = Len(F) + j
    BY <1>4, <1>5
  <2> QED BY <1>2, <2>1
<1> QED BY <1>3, <1>4, <1>5 DEF C

\* The items of a window that grows or closes are values of the Aggregator, and there are some.
LEMMA GrownItems ==
  ASSUME CoordinationInv, NEW n \in Aggregators, NEW taken \in BOOLEAN, NEW items, Grown(n, taken, items)
  PROVE  /\ items \in Seq(Nat) /\ Len(items) >= 1 /\ Len(items) \in Nat
         /\ \A i \in DOMAIN items : items[i] \in Ours(n)
         /\ Envelope(items) \in Seq(Items) /\ Envelope(items) # <<>>
         /\ taken => Len(items) = Len(Collected(n)) + 1 /\ Len(Collected(n)) \in Nat
<1>1. RowsTyped /\ ActivityFits /\ WindowsFit(n) /\ QueueIsCut(n)
  BY DEF CoordinationInv
<1>2. Collected(n) \in Seq(Nat) /\ \A i \in DOMAIN Collected(n) : Collected(n)[i] \in Ours(n)
  BY <1>1, WindowPlaces, FlatIsClosedAndCollected
<1>3. items \in Seq(Nat) /\ Len(items) >= 1 /\ \A i \in DOMAIN items : items[i] \in Ours(n)
  <2>1. CASE taken
    <3>1. On(n, "queued") # {} /\ items = Append(Collected(n), Oldest(n))
      BY <2>1 DEF Grown
    <3>2. Oldest(n) \in Ours(n) /\ Oldest(n) \in Nat
      BY <1>1, <3>1, OldestWaits, ValueRow DEF On, Ours
    <3> QED BY <1>2, <3>1, <3>2
  <2>2. CASE ~taken
    <3>1. items = Collected(n) /\ active[n] = "waiting"
      BY <2>2 DEF Grown
    <3>2. windows[n] # <<>> /\ windows[n] \in Seq(WindowRow) /\ ~Opens(n)
      BY <1>1, <3>1 DEF WindowsFit, RowsTyped, Opens
    <3>3. Len(windows[n]) \in DOMAIN windows[n] /\ Last(windows[n]) = windows[n][Len(windows[n])]
      BY <3>2 DEF Last
    <3>4. items # <<>>
      BY <1>1, <3>1, <3>2, <3>3 DEF WindowsFit, Collected
    <3>5. items \in Seq(Nat)
      BY <1>2, <3>1
    <3>6. Len(items) # 0 /\ Len(items) \in Nat
      BY <3>4, <3>5
    <3> QED BY <1>2, <3>1, <3>5, <3>6
  <2> QED BY <2>1, <2>2
<1>4. Len(items) \in Nat /\ 1 \in DOMAIN items
  BY <1>3
<1>5. values[items[1]].item \in Items
  BY <1>1, <1>3, <1>4, ValueRow DEF Ours
<1>6. Envelope(items) \in Seq(Items) /\ Envelope(items) # <<>>
  BY <1>5 DEF Envelope
<1>7. taken => Len(items) = Len(Collected(n)) + 1 /\ Len(Collected(n)) \in Nat
  <2> SUFFICES ASSUME taken PROVE Len(items) = Len(Collected(n)) + 1 /\ Len(Collected(n)) \in Nat
    OBVIOUS
  <2>1. items = Append(Collected(n), Oldest(n))
    BY DEF Grown
  <2>2. Oldest(n) \in Nat
    BY <1>1, OldestWaits, ValueRow DEF Grown
  <2> QED BY <1>2, <2>1, <2>2
<1> QED BY <1>3, <1>4, <1>6, <1>7

\* Whether a node could begin depends on its values only.
LEMMA ReadySame ==
  ASSUME values' = values
  PROVE  \A n : (Ready(n)' <=> Ready(n)) /\ \A status : On(n, status)' = On(n, status)
<1>1. \A n, status : On(n, status)' = On(n, status)
  BY DEF On
<1>2. \A n : Buffered(n)' = Buffered(n)
  BY <1>1 DEF Buffered
<1>3. \A n, k : Complete(Buffered(n), n, k)' <=> Complete(Buffered(n), n, k)
  BY <1>2 DEF Complete
<1> QED BY <1>1, <1>3 DEF Ready

\* Nothing happens to a run that is over.
LEMMA OnlyLiveRunsMove ==
  ASSUME CoordinationInv, Next
  PROVE  Live
<1> SUFFICES ASSUME ~Live PROVE FALSE
  OBVIOUS
<1>1. /\ NoWakeup /\ \A n \in Nodes : active[n] = "none"
      /\ run.status \in Terminal
  BY DEF CoordinationInv, ActivityFits, Live
<1>2. run.status \notin {"running", "waiting", "interrupting", "interrupted"}
  BY <1>1 DEF Terminal
<1>3. ASSUME NEW s \in Slots, Claim(s) \/ LoseClaim(s) PROVE FALSE
  BY <1>1, <1>2, <1>3 DEF Claim, LoseClaim, NoWakeup
<1>4. ASSUME NEW n \in Nodes, Work(n) PROVE FALSE
  <2>1. n \in Slots /\ ~(wakeups.claimed[n] > 0)
    BY <1>1, GraphFacts DEF NoWakeup
  <2>2. ~WakeupSpent(n) /\ ~MaybeReady(n)
    BY <2>1 DEF WakeupSpent, MaybeReady
  <2>3. ~Start(n) /\ ~FinalizeJoin(n) /\ \A items : ~FinalizeExpand(n, items)
    BY <1>1, <1>2 DEF Start, FinalizeJoin, FinalizeExpand
  <2> QED BY <1>4, <2>2, <2>3 DEF Work, ActivateExpand, ActivateJoin, ActivateAggregator
<1>5. ASSUME NEW n \in Aggregators, CloseDue(n) PROVE FALSE
  <2>1. active[n] = "none"
    BY <1>1, GraphFacts
  <2> QED BY <1>5, <2>1 DEF CloseDue
<1>6. ~SettleWaiting /\ ~SettleBusy /\ ~SettleCompleted
  <2>1. ~(wakeups.claimed[Settle] > 0)
    BY <1>1, GraphFacts DEF NoWakeup
  <2> QED BY <1>2, <2>1 DEF SettleWaiting, SettleBusy, SettleCompleted, Settles
<1>7. ~Interrupt /\ ~Resume /\ ~Cancel
  BY <1>1, <1>2 DEF Interrupt, Resume, Cancel
<1> QED BY <1>3, <1>4, <1>5, <1>6, <1>7 DEF Next

\* A claimed wakeup is done, and some slots have a new one.
LEMMA ServedCalls ==
  ASSUME RowsTyped, NEW s \in Slots, NEW S, wakeups.claimed[s] > 0
  PROVE  /\ Served(s, S) \in [pending : Calls, claimed : Calls]
         /\ \A k \in Slots :
              /\ Served(s, S).pending[k] = wakeups.pending[k] + (IF k \in S THEN 1 ELSE 0)
              /\ Served(s, S).claimed[k] = wakeups.claimed[k] - (IF k = s THEN 1 ELSE 0)
              /\ wakeups.pending[k] \in Nat /\ wakeups.claimed[k] \in Nat
<1>1. /\ wakeups.pending \in [Slots -> Nat] /\ wakeups.claimed \in [Slots -> Nat]
  BY DEF RowsTyped, Calls
<1>2. Served(s, S) = [pending |-> [k \in Slots |-> wakeups.pending[k] + IF k \in S THEN 1 ELSE 0],
                      claimed |-> [wakeups.claimed EXCEPT ![s] = @ - 1]]
  BY DEF Served
<1>3. [k \in Slots |-> wakeups.pending[k] + IF k \in S THEN 1 ELSE 0] \in [Slots -> Nat]
  BY <1>1
<1>4. [wakeups.claimed EXCEPT ![s] = @ - 1] \in [Slots -> Nat]
  BY <1>1
<1>5. \A k \in Slots : [wakeups.claimed EXCEPT ![s] = @ - 1][k] = wakeups.claimed[k] - (IF k = s THEN 1 ELSE 0)
  BY <1>1
<1> QED BY <1>1, <1>2, <1>3, <1>4, <1>5 DEF Calls

\* The run's row was not touched.
LEMMA RunKept ==
  ASSUME RowsTyped, ActivityFits, run' = run
  PROVE  /\ run' \in RunRow /\ Disturbances' <= MaxDisturbances /\ run'.halts = run.halts
         /\ run'.status = run.status /\ (Live' <=> Live)
BY DEF RowsTyped, ActivityFits, Disturbances, Live

\* A wakeup is claimed.
LEMMA ClaimKind ==
  ASSUME CoordinationInv, NEW s \in Slots, Claim(s)
  PROVE  Still
<1>1. RowsTyped /\ ActivityFits /\ ReadyIsWoken
  BY DEF CoordinationInv
<1>2. run.status = "running" /\ wakeups.pending[s] > 0 /\ UNCHANGED <<run, values, counters, active, seqs, windows>>
  BY DEF Claim
<1>3. Live /\ Live' /\ run' \in RunRow /\ Disturbances' <= MaxDisturbances
  BY <1>1, <1>2, RunKept DEF Live, Terminal
<1>4. /\ wakeups' \in [pending : Calls, claimed : Calls]
      /\ \A k \in Slots : Slack(k)' = Slack(k)
  <2>1. wakeups \in [pending : [Slots -> Nat], claimed : [Slots -> Nat]]
    BY <1>1 DEF RowsTyped, Calls
  <2>2. wakeups' = [pending |-> [wakeups.pending EXCEPT ![s] = @ - 1],
                    claimed |-> [wakeups.claimed EXCEPT ![s] = @ + 1]]
    BY <2>1 DEF Claim
  <2>3. [wakeups.pending EXCEPT ![s] = @ - 1] \in Calls /\ [wakeups.claimed EXCEPT ![s] = @ + 1] \in Calls
    BY <1>2, <2>1 DEF Calls
  <2>4. \A k \in Slots : wakeups'.pending[k] + wakeups'.claimed[k] = wakeups.pending[k] + wakeups.claimed[k]
    BY <2>1, <2>2
  <2> QED BY <2>2, <2>3, <2>4 DEF Slack
<1>5. ReadyIsWoken'
  <2>1. \A n \in Nodes : Ready(n)' <=> Ready(n)
    BY <1>2, ReadySame
  <2>2. \A n \in Nodes : n \in Slots
    BY GraphFacts
  <2> QED BY <1>1, <1>2, <1>3, <1>4, <2>1, <2>2 DEF ReadyIsWoken, Slack
<1> QED BY <1>1, <1>2, <1>3, <1>4, <1>5 DEF Still, RunGoesOn, RowsTyped

\* A claim is lost and given back.
LEMMA LoseKind ==
  ASSUME CoordinationInv, NEW s \in Slots, LoseClaim(s)
  PROVE  Still
<1>1. RowsTyped /\ ActivityFits /\ ReadyIsWoken
  BY DEF CoordinationInv
<1>2. /\ wakeups.claimed[s] > 0 /\ Disturbances < MaxDisturbances
      /\ UNCHANGED <<values, counters, active, seqs, windows>>
      /\ run' = [run EXCEPT !.losses = @ + 1]
  BY DEF LoseClaim
<1>3. Live
  BY <1>2, OnlyLiveRunsMove, Zenon DEF Next
<1>4. /\ run' \in RunRow /\ Disturbances' <= MaxDisturbances /\ Live'
      /\ run'.halts = run.halts /\ run'.status = run.status
  <2>1. run \in [status : RunStatus, halts : 0 .. MaxDisturbances, losses : 0 .. MaxDisturbances]
    BY <1>1 DEF RowsTyped, RunRow
  <2>2. /\ run'.status = run.status /\ run'.halts = run.halts /\ run'.losses = run.losses + 1
        /\ run' = [status |-> run.status, halts |-> run.halts, losses |-> run.losses + 1]
    BY <1>2, <2>1
  <2>3. MaxDisturbances \in Nat
    BY CoordinationAssumption
  <2>4. run.losses \in Nat /\ run.halts \in Nat /\ run.halts + run.losses < MaxDisturbances
    BY <1>2, <2>1 DEF Disturbances
  <2>5. run.losses + 1 \in 0 .. MaxDisturbances
    BY <2>3, <2>4
  <2> QED BY <1>3, <2>1, <2>2, <2>3, <2>4, <2>5 DEF RunRow, Live, Disturbances
<1>5. /\ wakeups' \in [pending : Calls, claimed : Calls]
      /\ \A k \in Slots : Slack(k)' = Slack(k)
  <2>1. wakeups \in [pending : [Slots -> Nat], claimed : [Slots -> Nat]]
    BY <1>1 DEF RowsTyped, Calls
  <2>2. wakeups' = [pending |-> [wakeups.pending EXCEPT ![s] = @ + 1],
                    claimed |-> [wakeups.claimed EXCEPT ![s] = @ - 1]]
    BY <2>1 DEF LoseClaim
  <2>3. [wakeups.pending EXCEPT ![s] = @ + 1] \in Calls /\ [wakeups.claimed EXCEPT ![s] = @ - 1] \in Calls
    BY <1>2, <2>1 DEF Calls
  <2>4. \A k \in Slots : wakeups'.pending[k] + wakeups'.claimed[k] = wakeups.pending[k] + wakeups.claimed[k]
    BY <2>1, <2>2
  <2> QED BY <2>2, <2>3, <2>4 DEF Slack
<1>6. ReadyIsWoken'
  <2>1. \A n \in Nodes : Ready(n)' <=> Ready(n)
    BY <1>2, ReadySame
  <2>2. \A n \in Nodes : n \in Slots
    BY GraphFacts
  <2>3. run.halts = 0 => run.status = "running"
    <3>1. run.halts = 0 /\ run.status # "running" => NoWakeup
      BY <1>1, <1>3 DEF ReadyIsWoken
    <3> QED BY <1>2, <3>1 DEF NoWakeup
  <2> QED BY <1>1, <1>2, <1>3, <1>4, <1>5, <2>1, <2>2, <2>3 DEF ReadyIsWoken, Slack
<1> QED BY <1>1, <1>2, <1>4, <1>5, <1>6 DEF Still, RunGoesOn, RowsTyped

\* A wakeup of s is done, with one for each slot in S, and nothing else happened: the
\* node is at work, cannot begin, or the run does not schedule.
LEMMA ServedKind ==
  ASSUME CoordinationInv, NEW s \in Slots, NEW S, wakeups.claimed[s] > 0, Live,
         wakeups' = Served(s, S), UNCHANGED <<run, values, counters, active, seqs, windows>>,
         S # {} => run.status = "running",
         run.status = "running" /\ s \in Nodes => active[s] # "none" \/ ~Ready(s)
  PROVE  Still
<1>1. RowsTyped /\ ActivityFits /\ ReadyIsWoken
  BY DEF CoordinationInv
<1>2. Live' /\ run' \in RunRow /\ Disturbances' <= MaxDisturbances
  BY <1>1, RunKept
<1>3. /\ wakeups' \in [pending : Calls, claimed : Calls]
      /\ \A k \in Slots :
           /\ wakeups'.pending[k] = wakeups.pending[k] + (IF k \in S THEN 1 ELSE 0)
           /\ wakeups'.claimed[k] = wakeups.claimed[k] - (IF k = s THEN 1 ELSE 0)
           /\ wakeups.pending[k] \in Nat /\ wakeups.claimed[k] \in Nat
  BY <1>1, ServedCalls
<1>4. ReadyIsWoken'
  <2>1. \A n \in Nodes : (Ready(n)' <=> Ready(n)) /\ n \in Slots
    BY ReadySame, GraphFacts
  <2>2. run.halts = 0 => run.status = "running"
    <3>1. run.halts = 0 /\ run.status # "running" => NoWakeup
      BY <1>1 DEF ReadyIsWoken
    <3> QED BY <3>1 DEF NoWakeup
  <2>3. ASSUME run.halts = 0, NEW n \in Nodes, active[n] = "none", Ready(n)
        PROVE  wakeups'.pending[n] + wakeups'.claimed[n] > 0
    <3>1. n # s /\ n \in Slots
      BY <2>1, <2>2, <2>3
    <3>2. wakeups.pending[n] + wakeups.claimed[n] > 0
      BY <1>1, <2>3 DEF ReadyIsWoken
    <3> QED BY <1>3, <3>1, <3>2
  <2> QED BY <1>2, <2>1, <2>2, <2>3 DEF ReadyIsWoken
<1> QED BY <1>1, <1>2, <1>3, <1>4 DEF Still, RunGoesOn, RowsTyped

\* A wakeup finds its node at work, or its run halted.
LEMMA SpentKind ==
  ASSUME CoordinationInv, Live, NEW n \in Nodes, WakeupSpent(n)
  PROVE  Still
<1>1. /\ wakeups.claimed[n] > 0 /\ wakeups' = Served(n, {})
      /\ UNCHANGED <<run, values, counters, active, seqs, windows>>
      /\ run.status = "running" => active[n] # "none"
  BY DEF WakeupSpent, Spent
<1>2. n \in Slots
  BY GraphFacts
<1> QED BY <1>1, <1>2, ServedKind

\* A wakeup finds nothing to begin with.
LEMMA NotReadyKind ==
  ASSUME CoordinationInv, Live, NEW n \in Nodes, MaybeReady(n), ~Ready(n), NotReady(n)
  PROVE  Still
<1>1. /\ wakeups.claimed[n] > 0 /\ wakeups' = Served(n, {Settle}) /\ run.status = "running"
      /\ UNCHANGED <<run, values, counters, active, seqs, windows>>
  BY DEF MaybeReady, NotReady, SpentAndSettle
<1>2. n \in Slots
  BY GraphFacts
<1> QED BY <1>1, <1>2, ServedKind

\* The settlement finds work to be done.
LEMMA SettleBusyKind ==
  ASSUME CoordinationInv, Live, SettleBusy
  PROVE  Still
<1>1. /\ wakeups.claimed[Settle] > 0 /\ wakeups' = Served(Settle, {})
      /\ UNCHANGED <<run, values, counters, active, seqs, windows>>
  BY DEF SettleBusy, Spent
<1>2. Settle \in Slots /\ Settle \notin Nodes
  BY GraphFacts
<1> QED BY <1>1, <1>2, ServedKind

\* An attempt is started.
LEMMA StartKind ==
  ASSUME CoordinationInv, Live, NEW n \in Nodes, Start(n)
  PROVE  Still
<1>1. RowsTyped /\ ActivityFits /\ ReadyIsWoken
  BY DEF CoordinationInv
<1>2. /\ active[n] = "ready" /\ active' = [active EXCEPT ![n] = "running"] /\ run.status = "running"
      /\ UNCHANGED <<run, values, counters, seqs, windows, wakeups>>
  BY DEF Start
<1>3. Live' /\ run' \in RunRow /\ Disturbances' <= MaxDisturbances
  BY <1>1, <1>2, RunKept
<1>4. /\ active' \in [Nodes -> {"none", "ready", "running", "waiting"}]
      /\ \A m \in Nodes : active'[m] = active[m] \/ (active[m] = "ready" /\ active'[m] = "running")
  BY <1>1, <1>2 DEF RowsTyped
<1>5. ReadyIsWoken'
  <2>1. \A m \in Nodes : Ready(m)' <=> Ready(m)
    BY <1>2, ReadySame
  <2> QED BY <1>1, <1>2, <1>3, <1>4, <2>1 DEF ReadyIsWoken, NoWakeup
<1> QED BY <1>1, <1>2, <1>3, <1>4, <1>5 DEF Still, RunGoesOn, RowsTyped

\* The run waits for the deadline of a window.
LEMMA SettleWaitingKind ==
  ASSUME CoordinationInv, Live, SettleWaiting
  PROVE  Still
<1>1. RowsTyped /\ ActivityFits /\ ReadyIsWoken
  BY DEF CoordinationInv
<1>2. /\ run.status = "running" /\ wakeups.claimed[Settle] > 0 /\ Quiet(Settle)
      /\ run' = [run EXCEPT !.status = "waiting"] /\ wakeups' = Served(Settle, {})
      /\ UNCHANGED <<values, counters, active, seqs, windows>> /\ Busy = {}
  BY DEF SettleWaiting, Settles
<1>3. run' \in RunRow /\ Disturbances' <= MaxDisturbances /\ Live' /\ run'.status = "waiting" /\ run'.halts = run.halts
  BY <1>1, <1>2 DEF RowsTyped, RunRow, RunStatus, Disturbances, ActivityFits, Live, Terminal
<1>4. /\ wakeups' \in [pending : Calls, claimed : Calls]
      /\ \A k \in Slots :
           /\ wakeups'.pending[k] = wakeups.pending[k]
           /\ wakeups'.claimed[k] = wakeups.claimed[k] - (IF k = Settle THEN 1 ELSE 0)
           /\ wakeups.pending[k] \in Nat /\ wakeups.claimed[k] \in Nat
  <2>1. Settle \in Slots
    BY GraphFacts
  <2> QED BY <1>1, <1>2, <2>1, ServedCalls
<1>5. NoWakeup'
  BY <1>2 DEF Quiet, NoWakeup
<1>6. run.halts = 0 => \A n \in Nodes : ~(active[n] = "none" /\ Ready(n))
  <2> SUFFICES ASSUME run.halts = 0, NEW n \in Nodes, active[n] = "none", Ready(n) PROVE FALSE
    OBVIOUS
  <2>1. wakeups.pending[n] + wakeups.claimed[n] > 0
    BY <1>1 DEF ReadyIsWoken
  <2>2. n \in Slots /\ n # Settle
    BY GraphFacts
  <2>3. wakeups'.pending[n] = 0 /\ wakeups'.claimed[n] = 0
    BY <1>5, <2>2 DEF NoWakeup
  <2> QED BY <1>4, <2>1, <2>2, <2>3
<1>7. ReadyIsWoken'
  <2>1. \A n \in Nodes : Ready(n)' <=> Ready(n)
    BY <1>2, ReadySame
  <2>2. Busy' = {}
    BY <1>2 DEF Busy
  <2> QED BY <1>2, <1>3, <1>5, <1>6, <2>1, <2>2 DEF ReadyIsWoken
<1> QED BY <1>1, <1>2, <1>3, <1>4, <1>7 DEF Still, RunGoesOn, RowsTyped

\* The run is interrupted; from then on it may have lost a wakeup.
LEMMA InterruptKind ==
  ASSUME CoordinationInv, Live, Interrupt
  PROVE  Still
<1>1. RowsTyped /\ ActivityFits
  BY DEF CoordinationInv
<1> DEFINE st == IF \E n \in Nodes : active[n] = "running" THEN "interrupting" ELSE "interrupted"
<1>2. /\ Disturbances < MaxDisturbances /\ UNCHANGED <<values, counters, active, seqs, windows, wakeups>>
      /\ run' = [run EXCEPT !.halts = @ + 1, !.status = st]
  BY DEF Interrupt
<1>3. st \in {"interrupting", "interrupted"}
  OBVIOUS
<1> HIDE DEF st
<1>4. run' \in RunRow /\ Disturbances' <= MaxDisturbances /\ Live' /\ run'.halts # 0
  <2>1. run \in [status : RunStatus, halts : 0 .. MaxDisturbances, losses : 0 .. MaxDisturbances]
    BY <1>1 DEF RowsTyped, RunRow
  <2>2. /\ run'.status = st /\ run'.halts = run.halts + 1 /\ run'.losses = run.losses
        /\ run' = [status |-> st, halts |-> run.halts + 1, losses |-> run.losses]
    BY <1>2, <2>1
  <2>3. MaxDisturbances \in Nat
    BY CoordinationAssumption
  <2>4. run.losses \in Nat /\ run.halts \in Nat /\ run.halts + run.losses < MaxDisturbances
    BY <1>2, <2>1 DEF Disturbances
  <2>5. run.halts + 1 \in 0 .. MaxDisturbances /\ run.halts + 1 # 0
    BY <2>3, <2>4
  <2>6. st \in RunStatus /\ st \notin Terminal
    BY <1>3 DEF RunStatus, Terminal
  <2> QED BY <2>1, <2>2, <2>3, <2>4, <2>5, <2>6 DEF RunRow, Live, Disturbances
<1>5. ReadyIsWoken'
  BY <1>4 DEF ReadyIsWoken
<1> QED BY <1>1, <1>2, <1>4, <1>5 DEF Still, RunGoesOn, RowsTyped

\* An interrupted run goes on.
LEMMA ResumeKind ==
  ASSUME CoordinationInv, Live, Resume
  PROVE  Still
<1>1. RowsTyped /\ ActivityFits /\ ReadyIsWoken
  BY DEF CoordinationInv
<1>2. /\ run.status = "interrupted" /\ run' = [run EXCEPT !.status = "running"]
      /\ wakeups' = Woken({Settle}) /\ UNCHANGED <<values, counters, active, seqs, windows>>
  BY DEF Resume
<1>3. run' \in RunRow /\ Disturbances' <= MaxDisturbances /\ Live' /\ run'.halts = run.halts
  BY <1>1, <1>2 DEF RowsTyped, RunRow, RunStatus, Disturbances, ActivityFits, Live, Terminal
<1>4. run.halts # 0
  BY <1>1, <1>2 DEF ReadyIsWoken
<1>5. wakeups' \in [pending : Calls, claimed : Calls]
  <2>1. wakeups \in [pending : [Slots -> Nat], claimed : [Slots -> Nat]]
    BY <1>1 DEF RowsTyped, Calls
  <2>2. wakeups' = [pending |-> [k \in Slots |-> wakeups.pending[k] + IF k \in {Settle} THEN 1 ELSE 0],
                    claimed |-> wakeups.claimed]
    BY <1>2, <2>1 DEF Woken
  <2>3. [k \in Slots |-> wakeups.pending[k] + IF k \in {Settle} THEN 1 ELSE 0] \in [Slots -> Nat]
    BY <2>1
  <2> QED BY <2>1, <2>2, <2>3 DEF Calls
<1>6. ReadyIsWoken'
  BY <1>3, <1>4 DEF ReadyIsWoken
<1> QED BY <1>1, <1>2, <1>3, <1>5, <1>6 DEF Still, RunGoesOn, RowsTyped

\* A run ends, after some values of one node were taken or none.
LEMMA EndKind ==
  ASSUME CoordinationInv, NEW status \in {"failed", "cancelled"}, NEW V, NEW C, NEW S, NEW n \in Slots,
         NEW T \in SUBSET On(n, "queued"),
         EndRun(status, V, C, S), Keeps(V), C \in Counters, C.activations <= MaxActivations,
         C.pending = counters.pending - Cardinality(T),
         S \in [Nodes -> 0 .. MaxActivations],
         \A m \in Nodes : seqs[m] <= S[m] /\ S[m] <= C.activations,
         n \in Joins => \A v \in T : values[v].item \in BadItems,
         \A v \in T : V[v].status = "consumed" /\ V[v].by <= S[n],
         \A v \in DOMAIN values : v \notin T =>
           V[v].by = values[v].by /\ (V[v].status = "consumed" <=> values[v].status = "consumed")
  PROVE  Ends
<1>1. RowsTyped /\ ActivityFits
  BY DEF CoordinationInv
<1>2. /\ run' = [run EXCEPT !.status = status] /\ values' = Cancelled(V)
      /\ counters' = [C EXCEPT !.buffered = 0] /\ seqs' = S
      /\ wakeups' = [pending |-> None, claimed |-> None]
  BY DEF EndRun
<1>3. RunGoesOn /\ ~Live' /\ run'.status # "completed" /\ NoWakeup'
  <2>1. run' \in RunRow /\ run'.status = status /\ Disturbances' <= MaxDisturbances
    BY <1>1, <1>2 DEF RowsTyped, ActivityFits, RunRow, RunStatus, Terminal, Disturbances
  <2>2. None \in [Slots -> Nat] /\ \A k \in Slots : None[k] = 0
    BY DEF None
  <2> QED BY <1>2, <2>1, <2>2 DEF RunGoesOn, Calls, Live, Terminal, NoWakeup
<1>4. /\ counters' \in Counters /\ counters'.buffered = 0 /\ counters'.activations = C.activations
      /\ counters'.pending = C.pending
  BY <1>2 DEF Counters
<1>5. Keeps(values')
  BY <1>1, <1>2, CancelledRows
<1>6. ASSUME NEW v \in DOMAIN values
      PROVE  /\ v \in T => values'[v].status = "consumed" /\ values'[v].by <= seqs'[n]
             /\ v \notin T => /\ values'[v].by = values[v].by
                              /\ values'[v].status = "consumed" <=> values[v].status = "consumed"
             /\ values'[v].status # "indexed"
  <2>1. /\ values'[v].by = V[v].by
        /\ V[v].status # "indexed" => values'[v].status = V[v].status
        /\ V[v].status = "indexed" => values'[v].status = "cancelled"
    BY <1>1, <1>2, CancelledRows
  <2> QED BY <1>2, <2>1
<1>7. active' = [m \in Nodes |-> "none"]
  BY DEF EndRun
<1>8. windows' = [m \in Aggregators |->
        IF LastOpen(m) THEN [windows[m] EXCEPT ![Len(windows[m])].status = "cancelled"] ELSE windows[m]]
  BY DEF EndRun
<1>9. /\ seqs' \in [Nodes -> 0 .. MaxActivations]
      /\ \A m \in Nodes : seqs[m] <= seqs'[m] /\ seqs'[m] <= counters'.activations
  BY <1>2, <1>4
<1>10. \E j \in Slots : \E X \in SUBSET On(j, "queued") :
       /\ counters'.pending = counters.pending - Cardinality(X)
       /\ j \in Joins => \A v \in X : values[v].item \in BadItems
       /\ \A v \in DOMAIN values :
            /\ v \in X => values'[v].status = "consumed" /\ values'[v].by <= seqs'[j]
            /\ v \notin X => /\ values'[v].by = values[v].by
                             /\ values'[v].status = "consumed" <=> values[v].status = "consumed"
            /\ values'[v].status # "indexed"
  <2> WITNESS n \in Slots
  <2> WITNESS T \in SUBSET On(n, "queued")
  <2> QED BY <1>4, <1>6
<1> QED BY <1>3, <1>4, <1>5, <1>7, <1>8, <1>9, <1>10 DEF Ends

\* A run ends and nothing was taken, but what a join had indexed.
LEMMA UntakenKind ==
  ASSUME CoordinationInv, NEW status \in {"failed", "cancelled"}, NEW V,
         EndRun(status, V, counters, seqs), Keeps(V),
         \A v \in DOMAIN values :
           V[v].by = values[v].by /\ (V[v].status = "consumed" <=> values[v].status = "consumed")
  PROVE  Ends
<1>1. RowsTyped /\ ActivityFits
  BY DEF CoordinationInv
<1>2. PICK n \in Slots : n = Settle
  BY GraphFacts
<1>3. PICK T \in SUBSET On(n, "queued") : T = {} /\ Cardinality(T) = 0
  BY FS_EmptySet
<1>4. /\ counters \in Counters /\ counters.activations <= MaxActivations
      /\ counters.pending = counters.pending - Cardinality(T)
  <2>1. counters \in Counters /\ counters.activations <= MaxActivations
    BY <1>1 DEF RowsTyped, ActivityFits
  <2>2. counters.pending \in Int
    BY <2>1 DEF Counters
  <2> QED BY <1>3, <2>1, <2>2
<1>5. seqs \in [Nodes -> 0 .. MaxActivations] /\ \A m \in Nodes : seqs[m] <= seqs[m] /\ seqs[m] <= counters.activations
  BY <1>1, LimitsPositive DEF RowsTyped, ActivityFits
<1>6. /\ n \in Joins => \A v \in T : values[v].item \in BadItems
      /\ \A v \in T : V[v].status = "consumed" /\ V[v].by <= seqs[n]
      /\ \A v \in DOMAIN values : v \notin T =>
           V[v].by = values[v].by /\ (V[v].status = "consumed" <=> values[v].status = "consumed")
  BY <1>3
<1> QED BY <1>4, <1>5, <1>6, EndKind

\* A run ends as it is: it failed, or was cancelled.
LEMMA FailKind ==
  ASSUME CoordinationInv, FailRun \/ Cancel
  PROVE  Ends
<1>1. PICK status \in {"failed", "cancelled"} : EndRun(status, values, counters, seqs)
  BY DEF FailRun, Cancel
<1>2. Keeps(values)
  BY SameRows DEF CoordinationInv
<1> QED BY <1>1, <1>2, UntakenKind

\* A run fails after a join has indexed values.
LEMMA IndexedFailKind ==
  ASSUME CoordinationInv, NEW n, NEW U \in SUBSET On(n, "queued"),
         EndRun("failed", IndexedOf(U), counters, seqs)
  PROVE  Ends
<1>1. RowsTyped
  BY DEF CoordinationInv
<1>2. \A v \in U : values[v].status = "queued"
  BY DEF On
<1>3. /\ Keeps(IndexedOf(U))
      /\ \A v \in DOMAIN values :
           /\ IndexedOf(U)[v].by = values[v].by
           /\ v \in U => IndexedOf(U)[v].status = "indexed"
           /\ v \notin U => IndexedOf(U)[v] = values[v]
  BY <1>1, IndexedRowsOf
<1> QED BY <1>2, <1>3, UntakenKind

\* One activation more, as the counters see it.
LEMMA ActivatedCount ==
  ASSUME RowsTyped, NEW k \in Int
  PROVE  /\ Activated(k) \in Counters /\ Activated(k).activations = counters.activations + 1
         /\ Activated(k).pending = counters.pending - k /\ Activated(k).buffered = counters.buffered
<1>1. counters \in [activations : Nat, attempts : Nat, pending : Int, total : Nat, buffered : Int]
  BY DEF RowsTyped, Counters
<1>2. /\ counters.activations + 1 \in Nat /\ counters.attempts + 1 \in Nat /\ counters.pending - k \in Int
      /\ counters.total \in Nat /\ counters.buffered \in Int
  <2>1. counters.activations \in Nat /\ counters.attempts \in Nat /\ counters.pending \in Int
    BY <1>1
  <2>2. counters.total \in Nat /\ counters.buffered \in Int
    BY <1>1
  <2> QED BY <2>1, <2>2
<1>3. Activated(k) = [activations |-> counters.activations + 1, attempts |-> counters.attempts + 1,
                      pending |-> counters.pending - k, total |-> counters.total, buffered |-> counters.buffered]
  <2>1. counters = [activations |-> counters.activations, attempts |-> counters.attempts,
                    pending |-> counters.pending, total |-> counters.total, buffered |-> counters.buffered]
    BY <1>1
  <2> DEFINE a == counters.activations + 1
             b == counters.attempts + 1
             p == counters.pending - k
  <2>2. Activated(k) = [counters EXCEPT !.activations = a, !.attempts = b, !.pending = p]
    BY DEF Activated
  <2> HIDE DEF a, b, p
  <2>3. Activated(k) = [activations |-> a, attempts |-> b, pending |-> p,
                        total |-> counters.total, buffered |-> counters.buffered]
    BY <2>1, <2>2
  <2> QED BY <2>3 DEF a, b, p
<1> QED BY <1>2, <1>3 DEF Counters

\* One activation more: the counters and the cursor of the node.
LEMMA ActivationCounted ==
  ASSUME RowsTyped, ActivityFits, ~NoActivationLeft, NEW n \in Nodes, NEW k \in Int
  PROVE  /\ Activated(k) \in Counters
         /\ Activated(k).activations = counters.activations + 1 /\ Activated(k).activations <= MaxActivations
         /\ Activated(k).pending = counters.pending - k /\ Activated(k).buffered = counters.buffered
         /\ seqs[n] + 1 <= MaxActivations
         /\ NextSeq(n) \in [Nodes -> 0 .. MaxActivations]
         /\ NextSeq(n)[n] = seqs[n] + 1 /\ \A m \in Nodes : m # n => NextSeq(n)[m] = seqs[m]
         /\ \A m \in Nodes : seqs[m] <= NextSeq(n)[m] /\ NextSeq(n)[m] <= counters.activations + 1
         /\ counters.activations \in Nat /\ MaxActivations \in Nat
<1>1. MaxActivations \in Nat
  BY LimitsPositive
<1>2. /\ counters \in [activations : Nat, attempts : Nat, pending : Int, total : Nat, buffered : Int]
      /\ counters.activations + 1 <= MaxActivations
  <2>1. counters \in [activations : Nat, attempts : Nat, pending : Int, total : Nat, buffered : Int]
    BY DEF RowsTyped, Counters
  <2>2. counters.activations \in Nat
    BY <2>1
  <2>3. ~(counters.activations + 1 > MaxActivations)
    BY DEF NoActivationLeft
  <2> QED BY <1>1, <2>1, <2>2, <2>3
<1>3. /\ Activated(k) \in [activations : Nat, attempts : Nat, pending : Int, total : Nat, buffered : Int]
      /\ Activated(k).activations = counters.activations + 1
      /\ Activated(k).pending = counters.pending - k /\ Activated(k).buffered = counters.buffered
  BY ActivatedCount DEF Counters
<1>4. seqs \in [Nodes -> 0 .. MaxActivations] /\ \A m \in Nodes : seqs[m] <= counters.activations
  BY DEF RowsTyped, ActivityFits
<1>5. \A m \in Nodes : NextSeq(n)[m] = IF m = n THEN seqs[m] + 1 ELSE seqs[m]
  BY <1>4 DEF NextSeq
<1>6. seqs[n] + 1 \in 0 .. MaxActivations
  <2>1. seqs[n] \in Nat /\ counters.activations \in Nat /\ seqs[n] <= counters.activations
    BY <1>1, <1>2, <1>4
  <2> QED BY <1>1, <1>2, <2>1
<1>7. NextSeq(n) \in [Nodes -> 0 .. MaxActivations]
  BY <1>4, <1>6 DEF NextSeq
<1>8. ASSUME NEW m \in Nodes PROVE seqs[m] <= NextSeq(n)[m] /\ NextSeq(n)[m] <= counters.activations + 1
  <2>1. seqs[m] \in Nat /\ counters.activations \in Nat /\ seqs[m] <= counters.activations
    BY <1>1, <1>2, <1>4
  <2> QED BY <1>5, <2>1
<1>9. seqs[n] + 1 <= MaxActivations
  BY <1>1, <1>6
<1> QED BY <1>1, <1>2, <1>3, <1>5, <1>7, <1>8, <1>9 DEF Counters

\* A join stops at a value it cannot index.
LEMMA StoppedKind ==
  ASSUME CoordinationInv, NEW n \in Joins, Stoppers(n) # {}, JoinStopped(n)
  PROVE  Ends
<1> DEFINE v == Min(Stoppers(n))
           U == EarlierQueued(n, v)
<1>1. RowsTyped /\ ActivityFits
  BY DEF CoordinationInv
<1>2. v \in On(n, "queued") /\ v \in DOMAIN values /\ v \in Nat /\ n \in Nodes /\ n \in Slots
  <2>1. Stoppers(n) \subseteq On(n, "queued") /\ On(n, "queued") \subseteq DOMAIN values
    BY DEF Stoppers, On
  <2>2. Stoppers(n) \subseteq Nat
    BY <1>1, <2>1, ValuesAreNumbers DEF RowsTyped
  <2> QED BY <2>1, <2>2, MinIsLeast, GraphFacts
<1>3. U \in SUBSET On(n, "queued") /\ v \notin U
  BY <1>2 DEF EarlierQueued
<1>4. CASE HasKey(v) \/ NoActivationLeft
  <2>1. EndRun("failed", IndexedOf(U), counters, seqs)
    BY <1>4 DEF JoinStopped
  <2> QED BY <1>3, <2>1, IndexedFailKind
<1>5. CASE ~HasKey(v) /\ ~NoActivationLeft
  <2> DEFINE W == [u \in DOMAIN values |-> IF u = v THEN Consumed({v}, n)[u] ELSE IndexedOf(U)[u]]
  <2>1. EndRun("failed", W, Activated(1), NextSeq(n))
    BY <1>5 DEF JoinStopped
  <2> HIDE DEF v, U
  <2>3. values[v].item \in BadItems
    BY <1>5 DEF HasKey
  <2>4. /\ Activated(1) \in Counters /\ Activated(1).activations <= MaxActivations
        /\ Activated(1).activations = counters.activations + 1
        /\ Activated(1).pending = counters.pending - 1
        /\ seqs[n] + 1 <= MaxActivations
        /\ NextSeq(n) \in [Nodes -> 0 .. MaxActivations] /\ NextSeq(n)[n] = seqs[n] + 1
        /\ \A m \in Nodes : seqs[m] <= NextSeq(n)[m] /\ NextSeq(n)[m] <= counters.activations + 1
    BY <1>1, <1>2, <1>5, ActivationCounted
  <2>5. /\ Keeps(Consumed({v}, n))
        /\ \A u \in {v} : Consumed({v}, n)[u].status = "consumed" /\ Consumed({v}, n)[u].by = seqs[n] + 1
    BY <1>1, <1>2, <2>4, ConsumedRows
  <2>6. /\ Keeps(IndexedOf(U))
        /\ \A u \in DOMAIN values :
             /\ IndexedOf(U)[u].by = values[u].by
             /\ u \in U => IndexedOf(U)[u].status = "indexed"
             /\ u \notin U => IndexedOf(U)[u] = values[u]
    BY <1>1, IndexedRowsOf
  <2>7. /\ DOMAIN W = DOMAIN values /\ W[v] = Consumed({v}, n)[v]
        /\ \A u \in DOMAIN values : u # v => W[u] = IndexedOf(U)[u]
        /\ W = [u \in DOMAIN values |-> W[u]]
    BY <1>2
  <2> HIDE DEF W
  <2>8. Keeps(W)
    <3>1. ASSUME NEW u \in DOMAIN values
          PROVE  W[u] \in Value /\ W[u].edge = values[u].edge /\ W[u].item = values[u].item
      <4>1. /\ Consumed({v}, n)[u] \in Value /\ Consumed({v}, n)[u].edge = values[u].edge
            /\ Consumed({v}, n)[u].item = values[u].item
        BY <1>1, <2>5, FollowedRows DEF Keeps, Follows
      <4>2. /\ IndexedOf(U)[u] \in Value /\ IndexedOf(U)[u].edge = values[u].edge
            /\ IndexedOf(U)[u].item = values[u].item
        BY <1>1, <2>6, FollowedRows DEF Keeps, Follows
      <4> QED BY <2>7, <4>1, <4>2
    <3> QED BY <1>1, <2>7, <3>1, ChangedRows
  <2>9. Cardinality({v}) = 1 /\ {v} \in SUBSET On(n, "queued")
    BY <1>2, FS_Singleton
  <2>10. \A u \in {v} : W[u].status = "consumed" /\ W[u].by <= NextSeq(n)[n]
    <3>1. seqs[n] + 1 \in Nat
      BY <1>1, <1>2, LimitsPositive DEF RowsTyped
    <3> QED BY <2>4, <2>5, <2>7, <3>1
  <2>11. \A m \in Nodes : seqs[m] <= NextSeq(n)[m] /\ NextSeq(n)[m] <= Activated(1).activations
    BY <2>4
  <2>12. ASSUME NEW u \in DOMAIN values, u \notin {v}
         PROVE  W[u].by = values[u].by /\ (W[u].status = "consumed" <=> values[u].status = "consumed")
    <3>1. u \in U => values[u].status = "queued"
      BY <1>3 DEF On
    <3> QED BY <2>6, <2>7, <2>12, <3>1
  <2>13. n \in Joins => \A u \in {v} : values[u].item \in BadItems
    BY <2>3
  <2>14. Activated(1).pending = counters.pending - Cardinality({v}) /\ "failed" \in {"failed", "cancelled"}
    BY <2>4, <2>9
  <2> QED BY <1>2, <2>1, <2>4, <2>8, <2>9, <2>10, <2>11, <2>12, <2>13, <2>14, EndKind
<1> QED BY <1>4, <1>5

\* The counters and the cursor after an Aggregator took a value.
LEMMA TakenCounted ==
  ASSUME RowsTyped, ActivityFits, NEW n \in Nodes, ~NoRoom(n)
  PROVE  /\ TakenCount(n) \in Counters
         /\ TakenCount(n).activations = counters.activations + (IF Opens(n) THEN 1 ELSE 0)
         /\ TakenCount(n).activations <= MaxActivations
         /\ TakenCount(n).pending = counters.pending - 1
         /\ TakenCount(n).buffered = counters.buffered + 1
         /\ TakenSeq(n) \in [Nodes -> 0 .. MaxActivations]
         /\ \A m \in Nodes : seqs[m] <= TakenSeq(n)[m] /\ TakenSeq(n)[m] <= TakenCount(n).activations
         /\ seqs[n] + 1 <= MaxActivations \/ ~Opens(n)
         /\ Opens(n) => counters.activations + 1 <= MaxActivations
<1> DEFINE C == IF Opens(n) THEN Activated(1) ELSE [counters EXCEPT !.pending = @ - 1]
<1>1. counters \in Counters /\ counters.activations \in Nat /\ MaxActivations \in Nat
  BY LimitsPositive DEF RowsTyped, Counters
<1>2. /\ C \in Counters /\ C.pending = counters.pending - 1 /\ C.buffered = counters.buffered
      /\ C.activations = counters.activations + (IF Opens(n) THEN 1 ELSE 0)
      /\ C.activations <= MaxActivations
  <2>1. CASE Opens(n)
    <3>1. ~NoActivationLeft /\ 1 \in Int /\ C = Activated(1)
      BY <2>1 DEF NoRoom
    <3> HIDE DEF C
    <3> QED BY <2>1, <3>1, ActivationCounted
  <2>2. CASE ~Opens(n)
    <3>1. C = [counters EXCEPT !.pending = @ - 1]
      BY <2>2
    <3> HIDE DEF C
    <3>2. counters.pending - 1 \in Int
      BY <1>1 DEF Counters
    <3>3. C \in Counters /\ C.pending = counters.pending - 1 /\ C.buffered = counters.buffered
          /\ C.activations = counters.activations
      BY <1>1, <3>1, <3>2 DEF Counters
    <3>4. counters.activations <= MaxActivations
      BY DEF ActivityFits
    <3> QED BY <1>1, <2>2, <3>3, <3>4
  <2> QED BY <2>1, <2>2
<1>3. TakenCount(n) = [C EXCEPT !.buffered = @ + 1]
  BY DEF TakenCount
<1> HIDE DEF C
<1>4. /\ TakenCount(n) \in Counters
      /\ TakenCount(n).activations = C.activations
      /\ TakenCount(n).pending = C.pending
      /\ TakenCount(n).buffered = C.buffered + 1
  <2>1. C.buffered + 1 \in Int
    BY <1>2 DEF Counters
  <2> QED BY <1>2, <1>3, <2>1 DEF Counters
<1>5. /\ TakenSeq(n) \in [Nodes -> 0 .. MaxActivations]
      /\ \A m \in Nodes : seqs[m] <= TakenSeq(n)[m] /\ TakenSeq(n)[m] <= TakenCount(n).activations
      /\ seqs[n] + 1 <= MaxActivations \/ ~Opens(n)
      /\ Opens(n) => counters.activations + 1 <= MaxActivations
  <2>1. CASE Opens(n)
    <3>1. ~NoActivationLeft /\ 1 \in Int /\ TakenSeq(n) = NextSeq(n)
      BY <2>1 DEF NoRoom, TakenSeq
    <3>2. /\ NextSeq(n) \in [Nodes -> 0 .. MaxActivations] /\ seqs[n] + 1 <= MaxActivations
          /\ \A m \in Nodes : seqs[m] <= NextSeq(n)[m] /\ NextSeq(n)[m] <= counters.activations + 1
          /\ Activated(1).activations = counters.activations + 1 /\ Activated(1).activations <= MaxActivations
      BY <3>1, ActivationCounted
    <3> QED BY <1>2, <1>4, <2>1, <3>1, <3>2
  <2>2. CASE ~Opens(n)
    <3>1. TakenSeq(n) = seqs
      BY <2>2 DEF TakenSeq
    <3>2. seqs \in [Nodes -> 0 .. MaxActivations] /\ \A m \in Nodes : seqs[m] <= counters.activations /\ seqs[m] <= seqs[m]
      BY <1>1 DEF RowsTyped, ActivityFits
    <3>3. C.activations = counters.activations
      BY <1>1, <1>2, <2>2
    <3> QED BY <1>4, <2>2, <3>1, <3>2, <3>3
  <2> QED BY <2>1, <2>2
<1> QED BY <1>2, <1>4, <1>5

\* The head of the queue does not fit the schema.
LEMMA RefuseKind ==
  ASSUME CoordinationInv, NEW n \in Aggregators, On(n, "queued") # {}, ~NoRoom(n), RefuseHead(n)
  PROVE  Ends
<1>1. RowsTyped /\ ActivityFits /\ n \in Nodes /\ n \in Slots /\ n \notin Joins
  BY GraphFacts DEF CoordinationInv
<1>2. CASE ~Opens(n)
  BY <1>2, FailKind DEF RefuseHead
<1>3. CASE Opens(n)
  <2> DEFINE o == Oldest(n)
  <2>1. EndRun("failed", Taken(n), Activated(1), NextSeq(n)) /\ ~NoActivationLeft /\ TakenSeq(n) = NextSeq(n)
    BY <1>3 DEF RefuseHead, NoRoom, TakenSeq
  <2>2. o \in On(n, "queued") /\ o \in DOMAIN values
    BY <1>1, OldestWaits
  <2>3. /\ Activated(1) \in Counters /\ Activated(1).activations <= MaxActivations
        /\ Activated(1).activations = counters.activations + 1
        /\ Activated(1).pending = counters.pending - 1
        /\ seqs[n] + 1 <= MaxActivations
        /\ NextSeq(n) \in [Nodes -> 0 .. MaxActivations] /\ NextSeq(n)[n] = seqs[n] + 1
        /\ \A m \in Nodes : seqs[m] <= NextSeq(n)[m] /\ NextSeq(n)[m] <= counters.activations + 1
    BY <1>1, <2>1, ActivationCounted
  <2>4. /\ Keeps(Taken(n)) /\ \A v \in DOMAIN values : v # o => Taken(n)[v] = values[v]
        /\ Taken(n)[o].status = "consumed" /\ Taken(n)[o].by = NextSeq(n)[n]
    BY <1>1, <2>1, <2>3, TakenRows
  <2> HIDE DEF o
  <2>5. Cardinality({o}) = 1 /\ {o} \in SUBSET On(n, "queued")
    BY <2>2, FS_Singleton
  <2>6. \A u \in {o} : Taken(n)[u].status = "consumed" /\ Taken(n)[u].by <= NextSeq(n)[n]
    <3>1. NextSeq(n)[n] \in Nat
      BY <1>1, <2>3, LimitsPositive
    <3> QED BY <2>4, <3>1
  <2>7. \A m \in Nodes : seqs[m] <= NextSeq(n)[m] /\ NextSeq(n)[m] <= Activated(1).activations
    BY <2>3
  <2>8. "failed" \in {"failed", "cancelled"} /\ (n \in Joins => \A u \in {o} : values[u].item \in BadItems)
    BY <1>1
  <2>9. Activated(1).pending = counters.pending - Cardinality({o})
    BY <2>3, <2>5
  <2>10. \A v \in DOMAIN values : v \notin {o} => Taken(n)[v] = values[v]
    BY <2>4
  <2> QED BY <1>1, <2>1, <2>3, <2>4, <2>5, <2>6, <2>7, <2>8, <2>9, <2>10, EndKind
<1> QED BY <1>2, <1>3

\* Values to be emitted: the counters of the rows they add.
LEMMA EnqueuedCounts ==
  ASSUME NEW C \in Counters, NEW n, NEW items \in Seq(Items)
  PROVE  /\ Enqueued(C, n, items) \in Counters
         /\ Enqueued(C, n, items).pending = C.pending + Len(Emitted(n, items))
         /\ Enqueued(C, n, items).buffered = C.buffered
         /\ Enqueued(C, n, items).activations = C.activations
         /\ Enqueued(C, n, items).attempts = C.attempts
<1> DEFINE k == Len(Emitted(n, items))
           a == C.total + k
           p == C.pending + k
<1>1. k \in Nat
  BY EmittedRows
<1>2. /\ C.activations \in Nat /\ C.attempts \in Nat /\ C.pending \in Int /\ C.total \in Nat /\ C.buffered \in Int
      /\ C = [activations |-> C.activations, attempts |-> C.attempts,
              pending |-> C.pending, total |-> C.total, buffered |-> C.buffered]
  BY DEF Counters
<1>3. a \in Nat /\ p \in Int
  <2> HIDE DEF k
  <2> QED BY <1>1, <1>2
<1>4. Enqueued(C, n, items) = [C EXCEPT !.total = a, !.pending = p]
  BY DEF Enqueued
<1> HIDE DEF a, p
<1>5. Enqueued(C, n, items) = [activations |-> C.activations, attempts |-> C.attempts,
                               pending |-> p, total |-> a, buffered |-> C.buffered]
  BY <1>2, <1>4
<1> QED BY <1>2, <1>3, <1>5 DEF Counters, p

\* An Expand takes the oldest value of its queue.
LEMMA ExpandKind ==
  ASSUME CoordinationInv, Live, NEW n \in Nodes, ActivateExpand(n)
  PROVE  Still \/ Ends \/ ExpandBegins(n)
<1>1. RowsTyped /\ ActivityFits /\ n \in Expands /\ n \notin Joins /\ n \in Slots
  BY GraphFacts DEF CoordinationInv, ActivateExpand
<1>2. MaybeReady(n) /\ active[n] = "none"
  BY DEF ActivateExpand
<1>3. CASE On(n, "queued") = {}
  <2>1. NotReady(n)
    BY <1>3 DEF ActivateExpand
  <2>2. ~Ready(n)
    BY <1>1, <1>3 DEF Ready
  <2> QED BY <1>2, <2>1, <2>2, NotReadyKind
<1>4. CASE On(n, "queued") # {} /\ NoActivationLeft
  <2>1. FailRun
    BY <1>4 DEF ActivateExpand, Begin
  <2> QED BY <2>1, FailKind
<1>5. CASE On(n, "queued") # {} /\ ~NoActivationLeft
  <2> DEFINE o == Oldest(n)
  <2>1. /\ values' = Consumed({o}, n) /\ counters' = Activated(1)
        /\ active' = [active EXCEPT ![n] = "ready"] /\ seqs' = NextSeq(n)
        /\ wakeups' = Served(n, {}) /\ run' = run /\ windows' = windows
    BY <1>5 DEF ActivateExpand, Begin, Oldest
  <2>2. o \in On(n, "queued") /\ o \in DOMAIN values
    BY <1>1, <1>5, OldestWaits
  <2> HIDE DEF o
  <2>3. /\ counters' \in Counters /\ counters'.activations = counters.activations + 1
        /\ counters'.activations <= MaxActivations /\ seqs[n] + 1 <= MaxActivations
        /\ counters'.pending = counters.pending - 1 /\ counters'.buffered = counters.buffered
    <3>1. 1 \in Int
      OBVIOUS
    <3> QED BY <1>1, <1>5, <2>1, <3>1, ActivationCounted
  <2>4. /\ Keeps(values') /\ \A v \in DOMAIN values : v \notin {o} => values'[v] = values[v]
        /\ \A v \in {o} : values'[v].status = "consumed" /\ values'[v].by = seqs[n] + 1
    BY <1>1, <2>1, <2>2, <2>3, ConsumedRows
  <2>5. RunGoesOn
    BY <1>1, <1>2, <2>1, RunKept, ServedCalls DEF RunGoesOn, MaybeReady
  <2>6. Cardinality({o}) = 1 /\ {o} \subseteq Buffered(n)
    BY <2>2, FS_Singleton DEF Buffered
  <2>7. Begins(n, {o})
    BY <1>2, <2>1, <2>3, <2>4, <2>5, <2>6 DEF Begins, MaybeReady
  <2> QED BY <1>1, <1>5, <2>3, <2>4, <2>7 DEF ExpandBegins, o
<1> QED BY <1>3, <1>4, <1>5

\* The first value of a key on each port of a node, where every port has one.
LEMMA FirstsOfKey ==
  ASSUME RowsTyped, NEW n, NEW k, NEW V, V \subseteq DOMAIN values, Complete(V, n, k)
  PROVE  /\ FirstOfKey(V, n, k) \subseteq V
         /\ \A e \in In(n) :
              LET m == Min({v \in V : values[v].edge = e /\ values[v].item = k}) IN
              /\ m \in FirstOfKey(V, n, k) /\ m \in V /\ values[m].edge = e /\ values[m].item = k
              /\ \A v \in V : values[v].edge = e /\ values[v].item = k => m <= v
         /\ \A v \in FirstOfKey(V, n, k) : values[v].edge \in In(n) /\ values[v].item = k
         /\ \A v \in FirstOfKey(V, n, k), u \in FirstOfKey(V, n, k) :
              values[v].edge = values[u].edge => v = u
<1> DEFINE At(e) == {v \in V : values[v].edge = e /\ values[v].item = k}
<1>1. ASSUME NEW e \in In(n)
      PROVE  /\ Min(At(e)) \in V /\ values[Min(At(e))].edge = e /\ values[Min(At(e))].item = k
             /\ \A v \in At(e) : Min(At(e)) <= v
  <2>1. At(e) # {}
    BY <1>1 DEF Complete
  <2>2. At(e) \subseteq DOMAIN values
    OBVIOUS
  <2>3. At(e) \subseteq Nat
    <3> HIDE DEF At
    <3> QED BY <2>2, ValuesAreNumbers DEF RowsTyped
  <2>4. Min(At(e)) \in At(e) /\ \A v \in At(e) : Min(At(e)) <= v
    <3> HIDE DEF At
    <3> QED BY <2>1, <2>3, MinIsLeast
  <2> QED BY <2>4
<1>2. FirstOfKey(V, n, k) = {Min(At(e)) : e \in In(n)}
  BY DEF FirstOfKey
<1>3. \A e \in In(n) : \A v \in V : values[v].edge = e /\ values[v].item = k => v \in At(e)
  OBVIOUS
<1>4. \A e \in In(n) : Min(At(e)) = Min({v \in V : values[v].edge = e /\ values[v].item = k})
  OBVIOUS
<1> HIDE DEF At
<1>5. FirstOfKey(V, n, k) \subseteq V
  BY <1>1, <1>2
<1>6. \A v \in FirstOfKey(V, n, k) : values[v].edge \in In(n) /\ values[v].item = k /\ v = Min(At(values[v].edge))
  <2> SUFFICES ASSUME NEW v \in FirstOfKey(V, n, k)
               PROVE  values[v].edge \in In(n) /\ values[v].item = k /\ v = Min(At(values[v].edge))
    OBVIOUS
  <2>1. PICK e \in In(n) : v = Min(At(e))
    BY <1>2
  <2>2. values[v].edge = e /\ values[v].item = k
    BY <1>1, <2>1
  <2> QED BY <2>1, <2>2
<1>7. \A v \in FirstOfKey(V, n, k), u \in FirstOfKey(V, n, k) : values[v].edge = values[u].edge => v = u
  BY <1>6
<1>8. ASSUME NEW e \in In(n)
      PROVE  LET m == Min({v \in V : values[v].edge = e /\ values[v].item = k}) IN
              /\ m \in FirstOfKey(V, n, k) /\ m \in V /\ values[m].edge = e /\ values[m].item = k
              /\ \A v \in V : values[v].edge = e /\ values[v].item = k => m <= v
  <2> DEFINE m == Min(At(e))
  <2>1. m \in FirstOfKey(V, n, k)
    BY <1>2
  <2>2. \A v \in V : values[v].edge = e /\ values[v].item = k => m <= v
    BY <1>1, <1>3
  <2> QED BY <1>1, <1>4, <2>1, <2>2
<1> QED BY <1>5, <1>6, <1>7, <1>8

\* The ports of a join: there is one at least, and each brings one value to a tuple.
LEMMA JoinPorts ==
  ASSUME NEW n \in Joins
  PROVE  In(n) # {} /\ In(n) \subseteq Edges /\ IsFiniteSet(In(n))
<1>1. In(n) # {} /\ In(n) \in SUBSET Edges
  BY CoordinationAssumption DEF In
<1> QED BY <1>1, GraphFacts, FS_Subset

\* Some tuple was complete first.
LEMMA SelectedTuple ==
  ASSUME RowsTyped, NEW n \in Joins, Tuples(n) # {}
  PROVE  \E k \in Items \ BadItems :
            Complete(Buffered(n), n, k) /\ Selected(n) = FirstOfKey(Buffered(n), n, k)
<1> DEFINE last == {Max(t) : t \in Tuples(n)}
<1>1. Buffered(n) \subseteq DOMAIN values
  BY DEF Buffered, On
<1>2. \A t \in Tuples(n) : \E k \in Items \ BadItems :
        Complete(Buffered(n), n, k) /\ t = FirstOfKey(Buffered(n), n, k)
  BY DEF Tuples
<1>3. ASSUME NEW t \in Tuples(n) PROVE Max(t) \in Nat
  <2>1. PICK k \in Items \ BadItems : Complete(Buffered(n), n, k) /\ t = FirstOfKey(Buffered(n), n, k)
    BY <1>2
  <2>2. PICK e \in In(n) : TRUE
    BY JoinPorts
  <2>3. t \subseteq Buffered(n) /\ t # {}
    BY <1>1, <2>1, <2>2, FirstsOfKey
  <2>4. t \subseteq DOMAIN values
    BY <1>1, <2>3
  <2>5. t \subseteq 0 .. Len(values) /\ Len(values) \in Nat /\ t \subseteq Nat
    BY <2>4, ValuesAreNumbers DEF RowsTyped
  <2> QED BY <2>3, <2>5, MaxIsGreatest
<1>4. last \subseteq Nat /\ last # {}
  BY <1>3
<1>5. PICK x \in last : \A y \in last : x <= y
  <2> HIDE DEF last
  <2> QED BY <1>4, LeastNumber
<1>6. \E t \in Tuples(n) : \A u \in Tuples(n) : Max(t) <= Max(u)
  BY <1>5
<1>7. Selected(n) \in Tuples(n)
  BY <1>6 DEF Selected
<1> QED BY <1>2, <1>7

\* A join indexes its queue and takes the tuple that was complete first.
LEMMA IndexedKind ==
  ASSUME CoordinationInv, Live, NEW n \in Joins, MaybeReady(n), active[n] = "none", JoinIndexed(n)
  PROVE  Ends \/ Indexes(n) \/ \E k \in Items : JoinBegins(n, k)
<1>1. RowsTyped /\ ActivityFits /\ n \in Nodes /\ n \in Slots
  BY GraphFacts DEF CoordinationInv
<1> DEFINE new == Cardinality(On(n, "queued"))
<1>2. CASE Tuples(n) = {}
  <2>1. ~Ready(n)
    BY <1>2 DEF Tuples, Ready
  <2>2. /\ wakeups' = Served(n, {Settle}) /\ values' = IndexedAll(n)
        /\ counters' = [counters EXCEPT !.buffered = @ + new]
        /\ UNCHANGED <<run, active, seqs, windows>>
    BY <1>2 DEF JoinIndexed, SpentAndSettle
  <2> HIDE DEF new
  <2>3. RunGoesOn
    BY <1>1, <2>2, RunKept, ServedCalls DEF RunGoesOn, MaybeReady
  <2> QED BY <2>1, <2>2, <2>3 DEF Indexes, MaybeReady, new
<1>3. CASE Tuples(n) # {} /\ NoActivationLeft
  <2>1. EndRun("failed", IndexedOf(On(n, "queued")), counters, seqs)
    BY <1>3 DEF JoinIndexed, IndexedAll
  <2> QED BY <2>1, IndexedFailKind
<1>4. CASE Tuples(n) # {} /\ ~NoActivationLeft
  <2> DEFINE t == Selected(n)
             c == Cardinality(t)
  <2>1. /\ values' = [v \in DOMAIN values |-> IF v \in t THEN Consumed(t, n)[v] ELSE IndexedAll(n)[v]]
        /\ counters' = [Activated(c) EXCEPT !.buffered = @ + new - c]
        /\ active' = [active EXCEPT ![n] = "ready"] /\ seqs' = NextSeq(n)
        /\ wakeups' = Served(n, {}) /\ run' = run /\ windows' = windows
    BY <1>4 DEF JoinIndexed
  <2>2. PICK k \in Items \ BadItems : Complete(Buffered(n), n, k) /\ t = FirstOfKey(Buffered(n), n, k)
    BY <1>1, <1>4, SelectedTuple
  <2>3. Buffered(n) \subseteq DOMAIN values /\ On(n, "queued") \subseteq DOMAIN values
    BY DEF Buffered, On
  <2> HIDE DEF t
  <2>4. t \subseteq Buffered(n) /\ t \subseteq DOMAIN values
    BY <1>1, <2>2, <2>3, FirstsOfKey
  <2>5. c \in Nat /\ new \in Nat
    BY <1>1, <2>3, <2>4, ValuesAreNumbers DEF RowsTyped
  <2> HIDE DEF c, new
  <2>6. /\ counters' \in Counters /\ counters'.activations = counters.activations + 1
        /\ counters'.activations <= MaxActivations /\ seqs[n] + 1 <= MaxActivations
        /\ counters'.pending = counters.pending - c /\ counters'.buffered = counters.buffered + new - c
    <3>1. c \in Int
      BY <2>5
    <3>2. /\ Activated(c) \in Counters
          /\ Activated(c).activations = counters.activations + 1 /\ Activated(c).activations <= MaxActivations
          /\ Activated(c).pending = counters.pending - c /\ Activated(c).buffered = counters.buffered
          /\ seqs[n] + 1 <= MaxActivations
      BY <1>1, <1>4, <3>1, ActivationCounted
    <3>3. counters.buffered + new - c \in Int
      BY <1>1, <2>5 DEF RowsTyped, Counters
    <3>4. counters' = [Activated(c) EXCEPT !.buffered = counters.buffered + new - c]
      BY <2>1, <3>2
    <3> QED BY <3>2, <3>3, <3>4 DEF Counters
  <2>7. /\ Keeps(Consumed(t, n))
        /\ \A v \in t : Consumed(t, n)[v].status = "consumed" /\ Consumed(t, n)[v].by = seqs[n] + 1
    BY <1>1, <2>4, <2>6, ConsumedRows
  <2>8. Keeps(IndexedAll(n))
    BY <1>1, IndexedRows
  <2>9. ASSUME NEW v \in DOMAIN values
        PROVE  /\ values'[v] = IF v \in t THEN Consumed(t, n)[v] ELSE IndexedAll(n)[v]
               /\ values'[v] \in Value /\ values'[v].edge = values[v].edge /\ values'[v].item = values[v].item
    <3>1. values'[v] = IF v \in t THEN Consumed(t, n)[v] ELSE IndexedAll(n)[v]
      BY <2>1
    <3>2. /\ Consumed(t, n)[v] \in Value /\ Consumed(t, n)[v].edge = values[v].edge
          /\ Consumed(t, n)[v].item = values[v].item
      BY <1>1, <2>7, FollowedRows DEF Keeps, Follows
    <3>3. /\ IndexedAll(n)[v] \in Value /\ IndexedAll(n)[v].edge = values[v].edge
          /\ IndexedAll(n)[v].item = values[v].item
      BY <1>1, <2>8, FollowedRows DEF Keeps, Follows
    <3> QED BY <3>1, <3>2, <3>3
  <2>10. Keeps(values')
    <3>1. DOMAIN values' = DOMAIN values /\ values' = [v \in DOMAIN values |-> values'[v]]
      BY <2>1
    <3> QED BY <1>1, <2>9, <3>1, ChangedRows
  <2>11. RunGoesOn
    BY <1>1, <2>1, RunKept, ServedCalls DEF RunGoesOn, MaybeReady
  <2>12. \A v \in t : values'[v].status = "consumed" /\ values'[v].by = seqs[n] + 1
    BY <2>4, <2>7, <2>9
  <2>13. Begins(n, t)
    BY <2>1, <2>4, <2>6, <2>10, <2>11, <2>12 DEF Begins, MaybeReady, c
  <2>14. \A v \in DOMAIN values : v \notin t => values'[v] = IndexedAll(n)[v]
    BY <2>9
  <2>15. JoinBegins(n, k)
    BY <2>2, <2>6, <2>13, <2>14 DEF JoinBegins, c, new
  <2> QED BY <2>2, <2>15
<1> QED BY <1>2, <1>3, <1>4

\* A join looks at its queue.
LEMMA JoinKind ==
  ASSUME CoordinationInv, Live, NEW n \in Nodes, ActivateJoin(n)
  PROVE  Ends \/ Indexes(n) \/ \E k \in Items : JoinBegins(n, k)
<1>1. n \in Joins /\ MaybeReady(n) /\ active[n] = "none"
  BY DEF ActivateJoin
<1>2. CASE Stoppers(n) # {}
  <2>1. JoinStopped(n)
    BY <1>2 DEF ActivateJoin
  <2> QED BY <1>1, <1>2, <2>1, StoppedKind
<1>3. CASE Stoppers(n) = {}
  <2>1. JoinIndexed(n)
    BY <1>3 DEF ActivateJoin
  <2> QED BY <1>1, <2>1, IndexedKind
<1> QED BY <1>2, <1>3

\* More wakeups are pending.
LEMMA MoreCalls ==
  ASSUME NEW W \in [pending : Calls, claimed : Calls], NEW f \in [Slots -> Nat], NEW X,
         X = [W EXCEPT !.pending = [s \in Slots |-> W.pending[s] + f[s]]]
  PROVE  /\ X \in [pending : Calls, claimed : Calls]
         /\ \A s \in Slots : X.pending[s] = W.pending[s] + f[s] /\ X.claimed[s] = W.claimed[s]
<1>1. W.pending \in [Slots -> Nat] /\ W.claimed \in [Slots -> Nat]
      /\ W = [pending |-> W.pending, claimed |-> W.claimed]
  BY DEF Calls
<1> DEFINE p == [s \in Slots |-> W.pending[s] + f[s]]
<1>2. p \in [Slots -> Nat] /\ \A s \in Slots : p[s] = W.pending[s] + f[s]
  BY <1>1
<1> HIDE DEF p
<1>3. X = [pending |-> p, claimed |-> W.claimed]
  BY <1>1 DEF p
<1> QED BY <1>1, <1>2, <1>3 DEF Calls

\* An instance that emits is done.
LEMMA FinalizeKind ==
  ASSUME CoordinationInv, Live, NEW n \in Expands \cup Joins, NEW items \in Seq(Items),
         active[n] = "running", Finalize(n, items)
  PROVE  Ends \/ Emits(n, items)
<1>1. RowsTyped /\ ActivityFits /\ n \in Nodes /\ n \in Slots
  BY GraphFacts DEF CoordinationInv
<1>2. CASE ExceedsQueues(n, items)
  <2>1. FailRun
    BY <1>2 DEF Finalize
  <2> QED BY <2>1, FailKind
<1>3. CASE ~ExceedsQueues(n, items)
  <2> DEFINE D == Downstream(n, items)
             W == Woken(D)
             f == [s \in Slots |-> IF s \in D THEN 1 ELSE 0]
             g == [s \in Slots |-> IF s \in After(n) THEN 1 ELSE 0]
  <2>1. /\ values' = values \o Emitted(n, items) /\ counters' = Enqueued(counters, n, items)
        /\ active' = [active EXCEPT ![n] = "none"] /\ run' = Drained(active')
        /\ wakeups' = [W EXCEPT !.pending = [s \in Slots |-> W.pending[s] + IF s \in After(n) THEN 1 ELSE 0]]
        /\ seqs' = seqs /\ windows' = windows
    BY <1>3 DEF Finalize
  <2>2. W = [wakeups EXCEPT !.pending = [s \in Slots |-> wakeups.pending[s] + f[s]]]
    BY <1>1 DEF Woken, RowsTyped
  <2>3. f \in [Slots -> Nat] /\ g \in [Slots -> Nat]
    OBVIOUS
  <2>4. wakeups' = [W EXCEPT !.pending = [s \in Slots |-> W.pending[s] + g[s]]]
    BY <2>1
  <2>5. \A s \in Slots : (s \in D => f[s] = 1) /\ (s = n => g[s] = 1)
    BY DEF After
  <2> HIDE DEF W, f, g, D
  <2>6. /\ W \in [pending : Calls, claimed : Calls]
        /\ \A s \in Slots : W.pending[s] = wakeups.pending[s] + f[s] /\ W.claimed[s] = wakeups.claimed[s]
    BY <1>1, <2>2, <2>3, MoreCalls DEF RowsTyped
  <2>7. /\ wakeups' \in [pending : Calls, claimed : Calls]
        /\ \A s \in Slots : wakeups'.pending[s] = W.pending[s] + g[s] /\ wakeups'.claimed[s] = W.claimed[s]
    BY <2>3, <2>4, <2>6, MoreCalls
  <2>8. ASSUME NEW m \in Nodes
        PROVE  Slack(m)' >= Slack(m) /\ (m = n \/ m \in D => Slack(m)' > 0)
    <3>1. m \in Slots
      BY GraphFacts
    <3>2. /\ wakeups.pending[m] \in Nat /\ wakeups.claimed[m] \in Nat /\ f[m] \in Nat /\ g[m] \in Nat
          /\ wakeups'.pending[m] = wakeups.pending[m] + f[m] + g[m] /\ wakeups'.claimed[m] = wakeups.claimed[m]
      BY <1>1, <2>3, <2>6, <2>7, <3>1 DEF RowsTyped, Calls
    <3>3. m = n \/ m \in D => f[m] + g[m] >= 1
      BY <2>5, <3>1, <3>2
    <3> QED BY <3>2, <3>3 DEF Slack
  <2>9. /\ run' \in RunRow /\ run'.halts = run.halts /\ Disturbances' <= MaxDisturbances /\ Live'
        /\ run'.status = run.status \/ (run.status = "interrupting" /\ run'.status = "interrupted")
    <3>1. run \in RunRow /\ Disturbances <= MaxDisturbances
      BY <1>1 DEF RowsTyped, ActivityFits
    <3>2. run' = run \/ (run.status = "interrupting" /\ run' = [run EXCEPT !.status = "interrupted"])
      BY <2>1 DEF Drained
    <3>3. CASE run' = run
      BY <1>1, <3>3, RunKept
    <3>4. CASE run.status = "interrupting" /\ run' = [run EXCEPT !.status = "interrupted"]
      <4>1. /\ run'.status = "interrupted" /\ run'.halts = run.halts /\ run'.losses = run.losses
            /\ run' \in RunRow
        BY <3>1, <3>4 DEF RunRow, RunStatus
      <4> QED BY <3>1, <3>4, <4>1 DEF Live, Terminal, Disturbances
    <3> QED BY <3>2, <3>3, <3>4
  <2> QED BY <2>1, <2>7, <2>8, <2>9 DEF Emits, RunGoesOn, D
<1> QED BY <1>2, <1>3

\* An Expand emits what it was given.
LEMMA FinalizeExpandKind ==
  ASSUME CoordinationInv, Live, NEW n \in Expands, NEW items \in Arrays[n], FinalizeExpand(n, items)
  PROVE  Ends \/ Emits(n, items)
<1>1. items \in Seq(Items)
  BY CoordinationAssumption
<1>2. CASE Len(items) > MaxItems
  BY <1>2, FailKind DEF FinalizeExpand
<1>3. CASE ~(Len(items) > MaxItems)
  <2>1. n \in Expands \cup Joins /\ active[n] = "running" /\ Finalize(n, items)
    BY <1>3 DEF FinalizeExpand
  <2>2. Ends \/ Emits(n, items)
    BY <1>1, <2>1, FinalizeKind
  <2> QED BY <1>1, <2>2
<1> QED BY <1>1, <1>2, <1>3

\* A join emits the key of the tuple it took.
LEMMA FinalizeJoinKind ==
  ASSUME CoordinationInv, Live, NEW n \in Nodes, FinalizeJoin(n)
  PROVE  Ends \/ \E items \in Seq(Items) : Emits(n, items)
<1> DEFINE v == CHOOSE u \in On(n, "consumed") : values[u].by = seqs[n]
<1>1. RowsTyped /\ ValuesFit /\ n \in Joins /\ active[n] = "running" /\ Finalize(n, <<values[v].item>>)
  BY DEF CoordinationInv, FinalizeJoin
<1>2. v \in On(n, "consumed")
  <2>1. \E u \in On(n, "consumed") : values[u].by = seqs[n]
    BY <1>1 DEF ValuesFit
  <2> QED BY <2>1
<1> HIDE DEF v
<1>3. values[v].item \in Items
  BY <1>1, <1>2, ValueRow DEF On
<1>4. <<values[v].item>> \in Seq(Items)
  BY <1>3
<1> QED BY <1>1, <1>4, FinalizeKind

\* The rows, counters and cursors at the moment a window closes or is given up.
LEMMA WindowCounted ==
  ASSUME CoordinationInv, NEW n \in Aggregators, NEW taken \in BOOLEAN,
         taken => On(n, "queued") # {} /\ ~NoRoom(n)
  PROVE  /\ CountsOf(n, taken) \in Counters /\ CountsOf(n, taken).activations <= MaxActivations
         /\ SeqsOf(n, taken) \in [Nodes -> 0 .. MaxActivations]
         /\ \A m \in Nodes : /\ seqs[m] <= SeqsOf(n, taken)[m]
                             /\ SeqsOf(n, taken)[m] <= CountsOf(n, taken).activations
         /\ Keeps(RowsOf(n, taken))
         /\ \E T \in SUBSET On(n, "queued") :
              /\ CountsOf(n, taken).pending = counters.pending - Cardinality(T)
              /\ \A v \in T : /\ RowsOf(n, taken)[v].status = "consumed"
                              /\ RowsOf(n, taken)[v].by <= SeqsOf(n, taken)[n]
              /\ \A v \in DOMAIN values : v \notin T => RowsOf(n, taken)[v] = values[v]
<1>1. RowsTyped /\ ActivityFits /\ n \in Nodes
  BY GraphFacts DEF CoordinationInv
<1>2. CASE taken
  <2>1. RowsOf(n, taken) = Taken(n) /\ CountsOf(n, taken) = TakenCount(n) /\ SeqsOf(n, taken) = TakenSeq(n)
    BY <1>2 DEF RowsOf, CountsOf, SeqsOf
  <2>2. /\ TakenCount(n) \in Counters /\ TakenCount(n).activations <= MaxActivations
        /\ TakenCount(n).pending = counters.pending - 1
        /\ TakenSeq(n) \in [Nodes -> 0 .. MaxActivations]
        /\ \A m \in Nodes : seqs[m] <= TakenSeq(n)[m] /\ TakenSeq(n)[m] <= TakenCount(n).activations
        /\ seqs[n] + 1 <= MaxActivations \/ ~Opens(n)
    BY <1>1, <1>2, TakenCounted
  <2> DEFINE o == Oldest(n)
  <2>3. /\ Keeps(Taken(n)) /\ \A v \in DOMAIN values : v # o => Taken(n)[v] = values[v]
        /\ Taken(n)[o].status = "consumed" /\ Taken(n)[o].by = TakenSeq(n)[n]
    BY <1>1, <1>2, <2>2, TakenRows
  <2>4. o \in On(n, "queued")
    BY <1>1, <1>2, OldestWaits
  <2> HIDE DEF o
  <2>5. {o} \in SUBSET On(n, "queued") /\ Cardinality({o}) = 1
    BY <2>4, FS_Singleton
  <2>6. TakenSeq(n)[n] <= TakenSeq(n)[n]
    <3>1. TakenSeq(n)[n] \in Nat
      BY <1>1, <2>2, LimitsPositive
    <3> QED BY <3>1
  <2>7. \E T \in SUBSET On(n, "queued") :
              /\ CountsOf(n, taken).pending = counters.pending - Cardinality(T)
              /\ \A v \in T : /\ RowsOf(n, taken)[v].status = "consumed"
                              /\ RowsOf(n, taken)[v].by <= SeqsOf(n, taken)[n]
              /\ \A v \in DOMAIN values : v \notin T => RowsOf(n, taken)[v] = values[v]
    <3> {o} \in SUBSET On(n, "queued")
      BY <2>5
    <3> WITNESS {o} \in SUBSET On(n, "queued")
    <3> QED BY <2>1, <2>2, <2>3, <2>5, <2>6
  <2> QED BY <2>1, <2>2, <2>3, <2>7
<1>3. CASE ~taken
  <2>1. RowsOf(n, taken) = values /\ CountsOf(n, taken) = counters /\ SeqsOf(n, taken) = seqs
    BY <1>3 DEF RowsOf, CountsOf, SeqsOf
  <2>2. /\ counters \in Counters /\ counters.activations <= MaxActivations
        /\ seqs \in [Nodes -> 0 .. MaxActivations]
        /\ \A m \in Nodes : seqs[m] <= seqs[m] /\ seqs[m] <= counters.activations
    BY <1>1, LimitsPositive DEF RowsTyped, ActivityFits
  <2>3. Keeps(values)
    BY <1>1, SameRows
  <2>4. counters.pending \in Int /\ Cardinality({}) = 0
    BY <2>2, FS_EmptySet DEF Counters
  <2>5. {} \in SUBSET On(n, "queued") /\ counters.pending = counters.pending - Cardinality({})
    BY <2>4
  <2>6. \E T \in SUBSET On(n, "queued") :
              /\ CountsOf(n, taken).pending = counters.pending - Cardinality(T)
              /\ \A v \in T : /\ RowsOf(n, taken)[v].status = "consumed"
                              /\ RowsOf(n, taken)[v].by <= SeqsOf(n, taken)[n]
              /\ \A v \in DOMAIN values : v \notin T => RowsOf(n, taken)[v] = values[v]
    <3> WITNESS {} \in SUBSET On(n, "queued")
    <3> QED BY <2>1, <2>5
  <2> QED BY <2>1, <2>2, <2>3, <2>6
<1> QED BY <1>2, <1>3

\* A window closes, or there is no room for what it emits.
LEMMA CloseKind ==
  ASSUME CoordinationInv, Live, NEW n \in Aggregators, NEW taken \in BOOLEAN, NEW items,
         NEW reason \in {"count", "timeout"}, NEW resumed \in BOOLEAN,
         NEW W \in [pending : Calls, claimed : Calls],
         Grown(n, taken, items), reason = "count" <=> taken, taken => Len(items) >= Count /\ ~NoRoom(n),
         run.status \in {"running", "waiting"},
         \A m \in Nodes : m # n => W.pending[m] + W.claimed[m] = Slack(m),
         CloseWindow(n, RowsOf(n, taken), CountsOf(n, taken), SeqsOf(n, taken), W, items, reason, resumed)
  PROVE  Ends \/ WindowCloses(n, taken, items, reason)
<1> DEFINE V == RowsOf(n, taken)
           C == CountsOf(n, taken)
           S == SeqsOf(n, taken)
           out == Envelope(items)
           full == (resumed /\ C.attempts + 1 > MaxActivations * MaxAttempts) \/ ExceedsQueues(n, out)
<1>1. RowsTyped /\ ActivityFits /\ n \in Nodes /\ n \in Slots /\ n \notin Joins
  BY GraphFacts DEF CoordinationInv
<1>2. /\ C \in Counters /\ C.activations <= MaxActivations
      /\ S \in [Nodes -> 0 .. MaxActivations]
      /\ \A m \in Nodes : seqs[m] <= S[m] /\ S[m] <= C.activations
      /\ Keeps(V)
      /\ \E T \in SUBSET On(n, "queued") :
           /\ C.pending = counters.pending - Cardinality(T)
           /\ \A v \in T : V[v].status = "consumed" /\ V[v].by <= S[n]
           /\ \A v \in DOMAIN values : v \notin T => V[v] = values[v]
  <2>1. taken => On(n, "queued") # {} /\ ~NoRoom(n)
    BY DEF Grown
  <2> QED BY <2>1, WindowCounted
<1>3. items \in Seq(Nat) /\ Len(items) \in Nat /\ out \in Seq(Items)
  BY GrownItems
<1>4. /\ full => EndRun("failed", V, C, S)
      /\ ~full =>
           /\ run' = [run EXCEPT !.status = "running"]
           /\ values' = V \o Emitted(n, out)
           /\ counters' = [Enqueued(C, n, out) EXCEPT
                             !.attempts = @ + (IF resumed THEN 1 ELSE 0), !.buffered = @ - Len(items)]
           /\ active' = [active EXCEPT ![n] = "none"]
           /\ seqs' = S
           /\ windows' = [windows EXCEPT ![n] = Append(Closed(n), Window("completed", items, reason))]
           /\ wakeups' = [W EXCEPT !.pending = [s \in Slots |->
                             W.pending[s] + (IF s \in After(n) THEN 1 ELSE 0)
                                          + (IF s \in Downstream(n, out) THEN 1 ELSE 0)]]
  BY DEF CloseWindow
<1> HIDE DEF V, C, S, out, full
<1>5. CASE full
  <2>1. PICK T \in SUBSET On(n, "queued") :
           /\ C.pending = counters.pending - Cardinality(T)
           /\ \A v \in T : V[v].status = "consumed" /\ V[v].by <= S[n]
           /\ \A v \in DOMAIN values : v \notin T => V[v] = values[v]
    BY <1>2
  <2>2. EndRun("failed", V, C, S) /\ "failed" \in {"failed", "cancelled"}
    BY <1>4, <1>5
  <2>3. n \in Joins => \A v \in T : values[v].item \in BadItems
    BY <1>1
  <2>4. Ends
    BY <1>1, <1>2, <2>1, <2>2, <2>3, EndKind
  <2> QED BY <2>4
<1>6. CASE ~full
  <2>1. /\ counters' \in Counters /\ counters'.activations = C.activations
        /\ counters'.pending = C.pending + Len(Emitted(n, out))
        /\ counters'.buffered = C.buffered - Len(items)
    <3> DEFINE Q == Enqueued(C, n, out)
               a == Q.attempts + (IF resumed THEN 1 ELSE 0)
               b == Q.buffered - Len(items)
    <3>1. /\ Q \in Counters /\ Q.pending = C.pending + Len(Emitted(n, out)) /\ Q.buffered = C.buffered
          /\ Q.activations = C.activations
      BY <1>2, <1>3, EnqueuedCounts
    <3>2. counters' = [Q EXCEPT !.attempts = a, !.buffered = b]
      BY <1>4, <1>6
    <3> HIDE DEF Q
    <3>3. a \in Nat /\ b \in Int
      BY <1>3, <3>1 DEF Counters
    <3>4. Q = [activations |-> Q.activations, attempts |-> Q.attempts, pending |-> Q.pending,
               total |-> Q.total, buffered |-> Q.buffered]
      BY <3>1 DEF Counters
    <3>5. b = C.buffered - Len(items)
      BY <3>1
    <3> HIDE DEF a, b
    <3>6. counters' = [activations |-> Q.activations, attempts |-> a, pending |-> Q.pending,
                       total |-> Q.total, buffered |-> b]
      BY <3>2, <3>4
    <3>7. Q.activations \in Nat /\ Q.pending \in Int /\ Q.total \in Nat
      BY <3>1 DEF Counters
    <3> QED BY <3>1, <3>3, <3>5, <3>6, <3>7 DEF Counters
  <2> DEFINE f == [s \in Slots |-> (IF s \in After(n) THEN 1 ELSE 0)
                                   + (IF s \in Downstream(n, out) THEN 1 ELSE 0)]
             p == [s \in Slots |-> W.pending[s] + (IF s \in After(n) THEN 1 ELSE 0)
                                                + (IF s \in Downstream(n, out) THEN 1 ELSE 0)]
             q == [s \in Slots |-> W.pending[s] + f[s]]
  <2>2. f \in [Slots -> Nat] /\ \A s \in Slots : s = n \/ s \in Downstream(n, out) => f[s] >= 1
    BY DEF After
  <2>3. \A s \in Slots : W.pending[s] \in Nat /\ W.claimed[s] \in Nat
    BY DEF Calls
  <2>4. p = q
    BY <2>3
  <2>5. wakeups' = [W EXCEPT !.pending = p]
    BY <1>4, <1>6
  <2>6. wakeups' = [W EXCEPT !.pending = q]
    <3> HIDE DEF p, q
    <3> QED BY <2>4, <2>5
  <2> HIDE DEF f, p
  <2>7. /\ wakeups' \in [pending : Calls, claimed : Calls]
        /\ \A s \in Slots : wakeups'.pending[s] = W.pending[s] + f[s] /\ wakeups'.claimed[s] = W.claimed[s]
    BY <2>2, <2>6, MoreCalls
  <2> HIDE DEF q
  <2>8. ASSUME NEW m \in Nodes
        PROVE  /\ m # n => Slack(m)' >= Slack(m)
               /\ m = n \/ m \in Downstream(n, out) => Slack(m)' > 0
    <3>1. m \in Slots
      BY GraphFacts
    <3>2. W.pending[m] \in Nat /\ W.claimed[m] \in Nat /\ f[m] \in Nat
      BY <2>2, <2>3, <3>1
    <3>3. Slack(m)' = W.pending[m] + f[m] + W.claimed[m]
      BY <2>7, <3>1 DEF Slack
    <3>4. m = n \/ m \in Downstream(n, out) => f[m] >= 1
      BY <2>2, <3>1
    <3>5. m # n => W.pending[m] + W.claimed[m] = Slack(m)
      OBVIOUS
    <3> QED BY <3>2, <3>3, <3>4, <3>5
  <2>9. /\ run' \in RunRow /\ Disturbances' <= MaxDisturbances /\ Live' /\ run'.halts = run.halts
        /\ run'.status = "running"
    <3>1. run' = [run EXCEPT !.status = "running"]
      BY <1>4, <1>6
    <3>2. run \in RunRow /\ Disturbances <= MaxDisturbances
      BY <1>1 DEF RowsTyped, ActivityFits
    <3>3. /\ run'.status = "running" /\ run'.halts = run.halts /\ run'.losses = run.losses
          /\ run' \in RunRow
      BY <3>1, <3>2 DEF RunRow, RunStatus
    <3> QED BY <3>2, <3>3 DEF Live, Terminal, Disturbances
  <2>10. RunGoesOn
    BY <2>7, <2>9 DEF RunGoesOn
  <2>11. /\ values' = V \o Emitted(n, out) /\ seqs' = S
         /\ active' = [active EXCEPT ![n] = "none"]
         /\ windows' = [windows EXCEPT ![n] = Append(Closed(n), Window("completed", items, reason))]
    BY <1>4, <1>6
  <2> QED BY <2>1, <2>8, <2>9, <2>10, <2>11 DEF WindowCloses, V, C, S, out
<1> QED BY <1>5, <1>6

\* An Aggregator adds a value to its window.
LEMMA CollectKind ==
  ASSUME CoordinationInv, Live, NEW n \in Aggregators, MaybeReady(n), On(n, "queued") # {}, ~NoRoom(n),
         Collect(n)
  PROVE  \/ Ends
         \/ \E items \in Seq(Nat) : WindowKept(n, items) \/ WindowCloses(n, TRUE, items, "count")
<1> DEFINE items == Append(Collected(n), Oldest(n))
<1>1. RowsTyped /\ ActivityFits /\ n \in Nodes /\ n \in Slots /\ TRUE \in BOOLEAN
  BY GraphFacts DEF CoordinationInv
<1>2. Grown(n, TRUE, items) /\ run.status = "running" /\ wakeups.claimed[n] > 0
  <2>1. Opens(n) => counters.activations + 1 <= MaxActivations
    BY <1>1, TakenCounted
  <2> QED BY <2>1 DEF Grown, MaybeReady
<1>3. items \in Seq(Nat) /\ Len(items) \in Nat
  BY <1>1, <1>2, GrownItems
<1>4. /\ Len(items) >= Count =>
           CloseWindow(n, Taken(n), TakenCount(n), TakenSeq(n), Served(n, {}), items, "count", ~Opens(n))
      /\ ~(Len(items) >= Count) => KeepWindow(n, items)
  BY DEF Collect
<1> HIDE DEF items
<1>5. CASE Len(items) >= Count
  <2>1. CloseWindow(n, RowsOf(n, TRUE), CountsOf(n, TRUE), SeqsOf(n, TRUE), Served(n, {}), items, "count", ~Opens(n))
    BY <1>4, <1>5 DEF RowsOf, CountsOf, SeqsOf
  <2>2. /\ Served(n, {}) \in [pending : Calls, claimed : Calls]
        /\ \A m \in Slots : m # n =>
             Served(n, {}).pending[m] + Served(n, {}).claimed[m] = wakeups.pending[m] + wakeups.claimed[m]
    <3>1. /\ Served(n, {}) \in [pending : Calls, claimed : Calls]
          /\ \A k \in Slots :
               /\ Served(n, {}).pending[k] = wakeups.pending[k] + (IF k \in {} THEN 1 ELSE 0)
               /\ Served(n, {}).claimed[k] = wakeups.claimed[k] - (IF k = n THEN 1 ELSE 0)
               /\ wakeups.pending[k] \in Nat /\ wakeups.claimed[k] \in Nat
      BY <1>1, <1>2, ServedCalls
    <3>2. ASSUME NEW m \in Slots, m # n
          PROVE  Served(n, {}).pending[m] + Served(n, {}).claimed[m] = wakeups.pending[m] + wakeups.claimed[m]
      BY <3>1, <3>2
    <3> QED BY <3>1, <3>2
  <2>3. \A m \in Nodes : m # n => Served(n, {}).pending[m] + Served(n, {}).claimed[m] = Slack(m)
    BY <2>2, GraphFacts DEF Slack
  <2>4. /\ "count" \in {"count", "timeout"} /\ ("count" = "count" <=> TRUE) /\ (~Opens(n)) \in BOOLEAN
        /\ (TRUE => Len(items) >= Count /\ ~NoRoom(n)) /\ run.status \in {"running", "waiting"}
    BY <1>2, <1>5
  <2>5. Ends \/ WindowCloses(n, TRUE, items, "count")
    BY <1>1, <1>2, <2>1, <2>2, <2>3, <2>4, CloseKind
  <2> QED BY <1>3, <2>5
<1>6. CASE ~(Len(items) >= Count)
  <2>1. KeepWindow(n, items) /\ run' = run /\ wakeups' = Served(n, {Settle})
    BY <1>4, <1>6 DEF KeepWindow, SpentAndSettle
  <2>2. RunGoesOn
    BY <1>1, <1>2, <2>1, RunKept, ServedCalls DEF RunGoesOn
  <2>3. Len(items) < Count
    BY <1>3, <1>6, LimitsPositive
  <2>4. WindowKept(n, items)
    BY <1>2, <2>1, <2>2, <2>3 DEF WindowKept
  <2> QED BY <1>3, <2>4
<1> QED BY <1>5, <1>6

\* An Aggregator looks at its queue.
LEMMA AggregatorKind ==
  ASSUME CoordinationInv, Live, NEW n \in Nodes, ActivateAggregator(n)
  PROVE  \/ Still \/ Ends
         \/ \E items \in Seq(Nat) : WindowKept(n, items) \/ WindowCloses(n, TRUE, items, "count")
<1>1. n \in Aggregators /\ MaybeReady(n) /\ n \notin Joins
  BY GraphFacts DEF ActivateAggregator
<1>2. CASE On(n, "queued") = {}
  <2>1. NotReady(n)
    BY <1>2 DEF ActivateAggregator
  <2>2. ~Ready(n)
    BY <1>1, <1>2 DEF Ready
  <2> QED BY <1>1, <2>1, <2>2, NotReadyKind
<1>3. CASE On(n, "queued") # {} /\ NoRoom(n)
  <2>1. FailRun
    BY <1>3 DEF ActivateAggregator
  <2> QED BY <2>1, FailKind
<1>4. CASE On(n, "queued") # {} /\ ~NoRoom(n) /\ values[Oldest(n)].item \in Refused
  <2>1. RefuseHead(n)
    BY <1>4 DEF ActivateAggregator
  <2> QED BY <1>1, <1>4, <2>1, RefuseKind
<1>5. CASE On(n, "queued") # {} /\ ~NoRoom(n) /\ ~(values[Oldest(n)].item \in Refused)
  <2>1. Collect(n)
    BY <1>5 DEF ActivateAggregator
  <2> QED BY <1>1, <1>5, <2>1, CollectKind
<1> QED BY <1>2, <1>3, <1>4, <1>5

\* The deadline of a window has passed.
LEMMA CloseDueKind ==
  ASSUME CoordinationInv, Live, NEW n \in Aggregators, CloseDue(n)
  PROVE  Ends \/ \E items \in Seq(Nat) : WindowCloses(n, FALSE, items, "timeout")
<1> DEFINE items == Collected(n)
<1>1. RowsTyped /\ FALSE \in BOOLEAN
  BY DEF CoordinationInv
<1>2. /\ active[n] = "waiting" /\ run.status \in {"running", "waiting"}
      /\ CloseWindow(n, values, counters, seqs, wakeups, items, "timeout", TRUE)
  BY DEF CloseDue, TimesOut
<1> HIDE DEF items
<1>3. Grown(n, FALSE, items)
  BY <1>2 DEF Grown, items
<1>4. items \in Seq(Nat)
  BY <1>1, <1>3, GrownItems
<1>5. CloseWindow(n, RowsOf(n, FALSE), CountsOf(n, FALSE), SeqsOf(n, FALSE), wakeups, items, "timeout", TRUE)
  BY <1>2 DEF RowsOf, CountsOf, SeqsOf
<1>6. wakeups \in [pending : Calls, claimed : Calls] /\ \A m \in Nodes : m # n => wakeups.pending[m] + wakeups.claimed[m] = Slack(m)
  BY <1>1 DEF RowsTyped, Slack
<1>7. "timeout" \in {"count", "timeout"} /\ ("timeout" = "count" <=> FALSE) /\ TRUE \in BOOLEAN
      /\ (FALSE => Len(items) >= Count /\ ~NoRoom(n))
  OBVIOUS
<1>8. Ends \/ WindowCloses(n, FALSE, items, "timeout")
  BY <1>1, <1>2, <1>3, <1>5, <1>6, <1>7, CloseKind
<1> QED BY <1>4, <1>8

\* The run completes.
LEMMA CompletedKind ==
  ASSUME CoordinationInv, SettleCompleted
  PROVE  Completes
<1>1. RowsTyped /\ ActivityFits /\ Settle \in Slots
  BY GraphFacts DEF CoordinationInv
<1>2. /\ wakeups.claimed[Settle] > 0 /\ run' = [run EXCEPT !.status = "completed"]
      /\ wakeups' = Served(Settle, {})
  BY DEF SettleCompleted, Settles
<1>3. run' \in RunRow /\ Disturbances' <= MaxDisturbances
  BY <1>1, <1>2 DEF RowsTyped, ActivityFits, RunRow, RunStatus, Terminal, Disturbances
<1>4. wakeups' \in [pending : Calls, claimed : Calls]
  BY <1>1, <1>2, ServedCalls
<1> QED BY <1>3, <1>4 DEF Completes, RunGoesOn

\* Every transaction is of one of the kinds.
LEMMA StepsAreKinds ==
  ASSUME CoordinationInv, Next
  PROVE  Live /\ StepKinds
<1>1. Live
  BY OnlyLiveRunsMove
<1>2. ASSUME NEW s \in Slots, Claim(s) \/ LoseClaim(s) PROVE StepKinds
  BY <1>2, ClaimKind, LoseKind DEF StepKinds
<1>3. ASSUME NEW n \in Nodes, Work(n) PROVE StepKinds
  <2>1. CASE WakeupSpent(n)
    BY <1>1, <2>1, SpentKind DEF StepKinds
  <2>2. CASE ActivateExpand(n)
    BY <1>1, <2>2, ExpandKind DEF StepKinds
  <2>3. CASE ActivateJoin(n)
    BY <1>1, <2>3, JoinKind DEF StepKinds
  <2>4. CASE ActivateAggregator(n)
    <3>1. CASE Still \/ Ends
      BY <3>1 DEF StepKinds
    <3>2. CASE \E items \in Seq(Nat) : WindowKept(n, items)
      BY <3>2 DEF StepKinds
    <3>3. CASE \E items \in Seq(Nat) : WindowCloses(n, TRUE, items, "count")
      <4>1. TRUE \in BOOLEAN /\ "count" \in {"count", "timeout"}
        OBVIOUS
      <4> QED BY <3>3, <4>1 DEF StepKinds
    <3> QED BY <1>1, <2>4, <3>1, <3>2, <3>3, AggregatorKind
  <2>5. CASE Start(n)
    BY <1>1, <2>5, StartKind DEF StepKinds
  <2>6. CASE FinalizeJoin(n)
    BY <1>1, <2>6, FinalizeJoinKind DEF StepKinds
  <2>7. CASE n \in Expands /\ \E items \in Arrays[n] : FinalizeExpand(n, items)
    <3>1. PICK items \in Arrays[n] : FinalizeExpand(n, items)
      BY <2>7
    <3>2. Ends \/ Emits(n, items)
      BY <1>1, <2>7, <3>1, FinalizeExpandKind
    <3>3. items \in Seq(Items)
      BY <2>7, CoordinationAssumption
    <3> QED BY <3>2, <3>3 DEF StepKinds
  <2> QED BY <1>3, <2>1, <2>2, <2>3, <2>4, <2>5, <2>6, <2>7 DEF Work
<1>4. ASSUME NEW n \in Aggregators, CloseDue(n) PROVE StepKinds
  <2>1. FALSE \in BOOLEAN /\ "timeout" \in {"count", "timeout"} /\ n \in Nodes
    BY GraphFacts
  <2> QED BY <1>1, <1>4, <2>1, CloseDueKind DEF StepKinds
<1>5. SettleWaiting \/ SettleBusy \/ SettleCompleted => StepKinds
  BY <1>1, SettleWaitingKind, SettleBusyKind, CompletedKind DEF StepKinds
<1>6. Interrupt \/ Resume \/ Cancel => StepKinds
  BY <1>1, InterruptKind, ResumeKind, FailKind DEF StepKinds
<1> QED BY <1>1, <1>2, <1>3, <1>4, <1>5, <1>6 DEF Next

-----------------------------------------------------------------------------
(* The counters and the rows, after each kind of transaction.              *)

\* A set that shares nothing with another adds its elements, a part takes its own away.
LEMMA CardinalityOfParts ==
  ASSUME NEW S, IsFiniteSet(S), NEW T, IsFiniteSet(T)
  PROVE  /\ IsFiniteSet(S \cup T) /\ IsFiniteSet(S \ T)
         /\ S \cap T = {} => Cardinality(S \cup T) = Cardinality(S) + Cardinality(T)
         /\ T \subseteq S => Cardinality(S \ T) = Cardinality(S) - Cardinality(T)
         /\ Cardinality(S) \in Nat /\ Cardinality(T) \in Nat /\ Cardinality(S \ T) \in Nat
<1>1. IsFiniteSet(S \cup T) /\ Cardinality(S \cup T) = Cardinality(S) + Cardinality(T) - Cardinality(S \cap T)
  BY FS_Union
<1>2. S \ T \in SUBSET S
  OBVIOUS
<1>3. IsFiniteSet(S \ T)
  BY <1>2, FS_Subset
<1>4. Cardinality(S) \in Nat /\ Cardinality(T) \in Nat /\ Cardinality(S \ T) \in Nat
  BY <1>3, FS_CardinalityType
<1>5. S \cap T = {} => Cardinality(S \cup T) = Cardinality(S) + Cardinality(T)
  <2> SUFFICES ASSUME S \cap T = {} PROVE Cardinality(S \cup T) = Cardinality(S) + Cardinality(T)
    OBVIOUS
  <2>1. Cardinality(S \cap T) = 0
    BY FS_EmptySet, Zenon
  <2> QED BY <1>1, <1>4, <2>1
<1>6. T \subseteq S => Cardinality(S \ T) = Cardinality(S) - Cardinality(T)
  <2> SUFFICES ASSUME T \subseteq S PROVE Cardinality(S \ T) = Cardinality(S) - Cardinality(T)
    OBVIOUS
  <2>1. (S \ T) \cup T = S /\ (S \ T) \cap T = {}
    OBVIOUS
  <2>2. Cardinality((S \ T) \cup T) = Cardinality(S \ T) + Cardinality(T) - Cardinality((S \ T) \cap T)
    BY <1>3, FS_Union
  <2>3. Cardinality(S) = Cardinality(S \ T) + Cardinality(T)
    BY <1>4, <2>1, <2>2, FS_EmptySet
  <2> QED BY <1>4, <2>3
<1> QED BY <1>1, <1>3, <1>4, <1>5, <1>6

\* What the two counters count.
Waits == {v \in DOMAIN values : values[v].status \in Unconsumed}
Held == {v \in DOMAIN values : values[v].status = "indexed"}

\* A value that is not consumed waits.
LEMMA WaitsOrConsumed ==
  ASSUME RowsTyped
  PROVE  \A v \in DOMAIN values : values[v].status \in Unconsumed <=> values[v].status # "consumed"
<1> SUFFICES ASSUME NEW v \in DOMAIN values
             PROVE  values[v].status \in Unconsumed <=> values[v].status # "consumed"
  OBVIOUS
<1>1. values[v].status \in ValueStatus
  BY ValueRow
<1> QED BY <1>1 DEF ValueStatus, Unconsumed

\* Some waiting values were consumed, and new ones came.
LEMMA PendingCounts ==
  ASSUME RowsTyped, Follows(values'), NEW T, T \subseteq Waits,
         \A v \in DOMAIN values :
           values'[v].status = "consumed" <=> values[v].status = "consumed" \/ v \in T
  PROVE  /\ Cardinality(Waits') = Cardinality(Waits) - Cardinality(T) + (Len(values') - Len(values))
         /\ Cardinality(Waits) \in Nat /\ Cardinality(T) \in Nat /\ Cardinality(Waits') \in Nat
<1> DEFINE New == (Len(values) + 1) .. Len(values')
           Kept == Waits \ T
<1>1. /\ DOMAIN values = 1 .. Len(values) /\ DOMAIN values' = 1 .. Len(values')
      /\ Len(values) \in Nat /\ Len(values') \in Nat /\ Len(values) <= Len(values')
      /\ \A v \in DOMAIN values' : values'[v] \in Value
  BY FollowedRows DEF Follows
<1>2. IsFiniteSet(Waits) /\ IsFiniteSet(T)
  <2>1. Waits \subseteq DOMAIN values /\ T \subseteq DOMAIN values
    BY DEF Waits
  <2> QED BY <2>1, ValuesAreNumbers DEF RowsTyped
<1>3. IsFiniteSet(Kept) /\ Cardinality(Kept) = Cardinality(Waits) - Cardinality(T)
      /\ Cardinality(Waits) \in Nat /\ Cardinality(T) \in Nat /\ Cardinality(Kept) \in Nat
  BY <1>2, CardinalityOfParts
<1>4. IsFiniteSet(New) /\ Cardinality(New) = Len(values') - Len(values)
  <2> DEFINE a == Len(values)
             b == Len(values')
  <2>1. a \in Nat /\ b \in Nat /\ a <= b /\ New = (a + 1) .. b
    BY <1>1
  <2> HIDE DEF New, a, b
  <2>2. /\ IsFiniteSet((a + 1) .. b)
        /\ Cardinality((a + 1) .. b) = IF a + 1 > b THEN 0 ELSE b - (a + 1) + 1
    BY <2>1, FS_Interval
  <2>3. (IF a + 1 > b THEN 0 ELSE b - (a + 1) + 1) = b - a
    BY <2>1
  <2>4. IsFiniteSet(New) /\ Cardinality(New) = b - a
    BY <2>1, <2>2, <2>3
  <2> QED BY <2>4 DEF a, b
<1>5. Waits' = Kept \cup New /\ Kept \cap New = {}
  <2>1. \A v \in DOMAIN values' : values'[v].status \in Unconsumed <=> values'[v].status # "consumed"
    <3> SUFFICES ASSUME NEW v \in DOMAIN values'
                 PROVE  values'[v].status \in Unconsumed <=> values'[v].status # "consumed"
      OBVIOUS
    <3>1. values'[v].status \in ValueStatus
      BY <1>1 DEF Value
    <3> QED BY <3>1 DEF ValueStatus, Unconsumed
  <2>2. Waits' = {v \in DOMAIN values' : values'[v].status # "consumed"}
    BY <2>1 DEF Waits
  <2>3. Kept = {v \in DOMAIN values : values[v].status # "consumed" /\ v \notin T}
    BY WaitsOrConsumed DEF Waits
  <2>4. \A v : v \in DOMAIN values' <=> v \in DOMAIN values \/ v \in New
    BY <1>1
  <2>5. \A v \in New : v \notin DOMAIN values
    BY <1>1
  <2>6. \A v \in New : values'[v].status = "queued"
    BY <2>4, <2>5 DEF Follows
  <2> HIDE DEF New, Kept
  <2>7. ASSUME NEW v PROVE v \in Waits' <=> v \in Kept \cup New
    <3>1. CASE v \in New
      BY <2>2, <2>4, <2>6, <3>1
    <3>2. CASE v \notin New /\ v \in DOMAIN values
      BY <2>2, <2>3, <2>4, <3>2
    <3>3. CASE v \notin New /\ v \notin DOMAIN values
      BY <2>2, <2>3, <2>4, <3>3
    <3> QED BY <3>1, <3>2, <3>3
  <2> QED BY <2>3, <2>5, <2>7
<1> HIDE DEF New, Kept
<1>6. Cardinality(Waits') = Cardinality(Kept) + Cardinality(New) /\ Cardinality(New) \in Nat
  BY <1>3, <1>4, <1>5, CardinalityOfParts
<1> QED BY <1>1, <1>3, <1>4, <1>6

\* What the open window of an Aggregator holds is what it has collected.
Kept(n) == Range(Collected(n))
InWindow(n) == IF active[n] = "waiting" THEN Range(Last(windows[n]).items) ELSE {}
\* The two say the same of an Aggregator.
LEMMA InWindowIsKept ==
  ASSUME ActivityFits, NEW n \in Aggregators
  PROVE  InWindow(n) = Kept(n)
<1>1. active[n] = "waiting" \/ active[n] = "none"
  BY DEF ActivityFits
<1>2. CASE active[n] = "waiting"
  BY <1>2 DEF Kept, Collected, Opens, InWindow
<1>3. CASE active[n] = "none"
  <2>1. Collected(n) = <<>>
    BY <1>3 DEF Collected, Opens
  <2>2. Range(Collected(n)) = {}
    BY <2>1 DEF Range
  <2> QED BY <1>3, <2>2 DEF Kept, InWindow
<1> QED BY <1>1, <1>2, <1>3

\* All windows are the windows of each.
LEMMA InWindowsIsKept ==
  ASSUME ActivityFits
  PROVE  InWindows = UNION {Kept(n) : n \in Aggregators}
<1>1. InWindows = UNION {InWindow(n) : n \in Aggregators}
  BY DEF InWindows, InWindow
<1> QED BY <1>1, InWindowIsKept

\* What the windows hold: values of the Aggregator that were consumed, each once.
LEMMA KeptRows ==
  ASSUME CoordinationInv, NEW n \in Aggregators
  PROVE  /\ Kept(n) \subseteq Ours(n) /\ IsFiniteSet(Kept(n))
         /\ Cardinality(Kept(n)) = Len(Collected(n)) /\ Len(Collected(n)) \in Nat
         /\ Live => \A v \in Kept(n) : values[v].status = "consumed"
<1>1. RowsTyped /\ ActivityFits /\ WindowsFit(n) /\ QueueIsCut(n)
  BY DEF CoordinationInv
<1> DEFINE C == Collected(n)
<1>2. C \in Seq(Nat)
  BY <1>1, FlatIsClosedAndCollected
<1>3. /\ \A i \in DOMAIN C : C[i] \in Ours(n)
      /\ \A i \in DOMAIN C : \E j \in DOMAIN Flat(n) : Flat(n)[j] = C[i]
      /\ \A i, j \in DOMAIN C : C[i] = C[j] => i = j
  BY <1>1, WindowPlaces
<1> HIDE DEF C
<1>4. Kept(n) = {C[i] : i \in DOMAIN C}
  BY DEF Kept, Range, C
<1>5. Kept(n) \subseteq Ours(n)
  BY <1>3, <1>4
<1>6. IsFiniteSet(Kept(n))
  <2>1. Kept(n) \subseteq DOMAIN values
    BY <1>5 DEF Ours
  <2> QED BY <1>1, <2>1, ValuesAreNumbers DEF RowsTyped
<1>7. Cardinality(Kept(n)) = Len(C) /\ Len(C) \in Nat
  <2>1. Len(C) \in Nat /\ DOMAIN C = 1 .. Len(C)
    BY <1>2
  <2>2. IsFiniteSet(1 .. Len(C)) /\ Cardinality(1 .. Len(C)) = Len(C)
    <3> DEFINE k == Len(C)
    <3>1. k \in Nat
      BY <2>1
    <3> HIDE DEF k
    <3>2. 1 \in Int /\ k \in Int
      BY <3>1
    <3>3. IsFiniteSet(1 .. k) /\ Cardinality(1 .. k) = IF 1 > k THEN 0 ELSE k - 1 + 1
      BY <3>2, FS_Interval
    <3>4. IsFiniteSet(1 .. k) /\ Cardinality(1 .. k) = k
      BY <3>1, <3>3
    <3> QED BY <3>4 DEF k
  <2> DEFINE g == [i \in 1 .. Len(C) |-> C[i]]
  <2>3. g \in Bijection(1 .. Len(C), Kept(n))
    <3>1. g \in [1 .. Len(C) -> Kept(n)]
      BY <1>4, <2>1
    <3>2. \A v \in Kept(n) : \E i \in 1 .. Len(C) : g[i] = v
      BY <1>4, <2>1
    <3>3. \A i, j \in 1 .. Len(C) : g[i] = g[j] => i = j
      BY <1>3, <2>1
    <3>4. DOMAIN g = 1 .. Len(C)
      OBVIOUS
    <3> HIDE DEF g
    <3>5. IsInjective(g)
      BY <3>3, <3>4 DEF IsInjective
    <3> QED BY <3>1, <3>2, <3>5, Zenon DEF Bijection, Injection, Surjection
  <2>4. ExistsBijection(1 .. Len(C), Kept(n))
    <3> HIDE DEF g
    <3> QED BY <2>3 DEF ExistsBijection
  <2> QED BY <2>1, <2>2, <2>4, FS_Bijection
<1>8. Live => \A v \in Kept(n) : values[v].status = "consumed"
  <2> SUFFICES ASSUME Live, NEW v \in Kept(n) PROVE values[v].status = "consumed"
    OBVIOUS
  <2>1. PICK i \in DOMAIN C : v = C[i]
    BY <1>4
  <2>2. PICK j \in DOMAIN Flat(n) : Flat(n)[j] = v
    BY <1>3, <2>1
  <2> QED BY <1>1, <1>5, <2>2 DEF QueueIsCut
<1> QED BY <1>5, <1>6, <1>7, <1>8 DEF C

\* What one Aggregator holds no other does.
LEMMA KeptApart ==
  ASSUME CoordinationInv, NEW n \in Aggregators
  PROVE  LET Others == UNION {Kept(m) : m \in Aggregators \ {n}} IN
         /\ InWindows = Kept(n) \cup Others /\ Kept(n) \cap Others = {}
         /\ \A v \in Ours(n) : v \notin Others
         /\ IsFiniteSet(InWindows) /\ IsFiniteSet(Others) /\ InWindows \subseteq DOMAIN values
<1> DEFINE Others == UNION {Kept(m) : m \in Aggregators \ {n}}
<1>1. RowsTyped /\ ActivityFits
  BY DEF CoordinationInv
<1>2. InWindows = Kept(n) \cup Others
  BY <1>1, InWindowsIsKept
<1>3. \A m \in Aggregators : Kept(m) \subseteq Ours(m)
  BY KeptRows
<1>4. \A v \in Ours(n) : v \notin Others
  BY <1>3 DEF Ours
<1>5. Kept(n) \cap Others = {}
  BY <1>3, <1>4
<1>6. InWindows \subseteq DOMAIN values /\ Others \subseteq DOMAIN values
  BY <1>2, <1>3 DEF Ours
<1>7. IsFiniteSet(InWindows) /\ IsFiniteSet(Others)
  <2> HIDE DEF Others
  <2> QED BY <1>1, <1>6, ValuesAreNumbers DEF RowsTyped
<1> QED BY <1>2, <1>4, <1>5, <1>6, <1>7

\* One Aggregator's window changed, the others' did not.
LEMMA OneWindowMoved ==
  ASSUME CoordinationInv, NEW n \in Aggregators, NEW X, InWindow(n)' = X,
         \A m \in Aggregators : m # n => active'[m] = active[m] /\ windows'[m] = windows[m]
  PROVE  InWindows' = X \cup UNION {Kept(m) : m \in Aggregators \ {n}}
<1>1. ActivityFits
  BY DEF CoordinationInv
<1>2. \A m \in Aggregators : m # n => InWindow(m)' = Kept(m)
  <2>1. \A m \in Aggregators : m # n => InWindow(m)' = InWindow(m)
    BY DEF InWindow
  <2> QED BY <1>1, <2>1, InWindowIsKept
<1>3. InWindows' = UNION {InWindow(m)' : m \in Aggregators}
  BY DEF InWindows, InWindow
<1> QED BY <1>2, <1>3

\* No window changed.
LEMMA NoWindowMoved ==
  ASSUME windows' = windows, \A m \in Aggregators : active'[m] = "waiting" <=> active[m] = "waiting"
  PROVE  InWindows' = InWindows
<1>1. \A m \in Aggregators : InWindow(m)' = InWindow(m)
  BY DEF InWindow
<1>2. InWindows' = UNION {InWindow(m)' : m \in Aggregators} /\ InWindows = UNION {InWindow(m) : m \in Aggregators}
  BY DEF InWindows, InWindow
<1> QED BY <1>1, <1>2

\* What is held and what waits are finite, and the counters count them.
LEMMA CountedNow ==
  ASSUME CoordinationInv
  PROVE  /\ IsFiniteSet(Held) /\ IsFiniteSet(InWindows) /\ IsFiniteSet(Waits)
         /\ Cardinality(Held) \in Nat /\ Cardinality(InWindows) \in Nat /\ Cardinality(Waits) \in Nat
         /\ counters.buffered = Cardinality(Held) + Cardinality(InWindows)
         /\ counters.pending = Cardinality(Waits)
<1>1. RowsTyped /\ ActivityFits
  BY DEF CoordinationInv
<1>2. Held \subseteq DOMAIN values /\ Waits \subseteq DOMAIN values
  BY DEF Held, Waits
<1>3. \A m \in Aggregators : Kept(m) \subseteq DOMAIN values
  BY KeptRows DEF Ours
<1>4. InWindows \subseteq DOMAIN values
  BY <1>1, <1>3, InWindowsIsKept
<1>5. IsFiniteSet(Held) /\ Cardinality(Held) \in Nat
  BY <1>1, <1>2, ValuesAreNumbers DEF RowsTyped
<1>6. IsFiniteSet(Waits) /\ Cardinality(Waits) \in Nat
  BY <1>1, <1>2, ValuesAreNumbers DEF RowsTyped
<1>7. IsFiniteSet(InWindows) /\ Cardinality(InWindows) \in Nat
  BY <1>1, <1>4, ValuesAreNumbers DEF RowsTyped
<1> QED BY <1>5, <1>6, <1>7 DEF CoordinationInv, CountersMatchRows, Held, Waits

\* Some values were consumed, others came, and some are held no more.
LEMMA CountedNext ==
  ASSUME CoordinationInv, Follows(values'), NEW T, T \subseteq Waits,
         \A v \in DOMAIN values :
           values'[v].status = "consumed" <=> values[v].status = "consumed" \/ v \in T,
         counters'.pending = counters.pending - Cardinality(T) + (Len(values') - Len(values)),
         counters'.buffered = Cardinality(Held') + Cardinality(InWindows')
  PROVE  CountersMatchRows'
<1>1. RowsTyped
  BY DEF CoordinationInv
<1>2. /\ Cardinality(Waits') = Cardinality(Waits) - Cardinality(T) + (Len(values') - Len(values))
      /\ Cardinality(Waits) \in Nat /\ Cardinality(T) \in Nat /\ Cardinality(Waits') \in Nat
  BY <1>1, PendingCounts
<1>3. counters'.pending = Cardinality(Waits')
  BY <1>2, CountedNow
<1> QED BY <1>3 DEF CountersMatchRows, Held, Waits

\* Nothing moved.
LEMMA CountsStill ==
  ASSUME CoordinationInv, Still
  PROVE  CountersMatchRows'
<1>1. values' = values /\ counters' = counters /\ windows' = windows
  BY DEF Still
<1>2. \A m \in Aggregators : active'[m] = "waiting" <=> active[m] = "waiting"
  BY GraphFacts DEF Still
<1>3. InWindows' = InWindows
  BY <1>1, <1>2, NoWindowMoved
<1> QED BY <1>1, <1>3 DEF CoordinationInv, CountersMatchRows

\* The run ended.
LEMMA CountsEnd ==
  ASSUME CoordinationInv, Ends
  PROVE  CountersMatchRows'
<1>1. RowsTyped /\ Keeps(values') /\ counters'.buffered = 0 /\ active' = [m \in Nodes |-> "none"]
  BY DEF CoordinationInv, Ends
<1>2. PICK n \in Slots : \E T \in SUBSET On(n, "queued") :
       /\ counters'.pending = counters.pending - Cardinality(T)
       /\ \A v \in DOMAIN values :
            /\ v \in T => values'[v].status = "consumed"
            /\ v \notin T => values'[v].status = "consumed" <=> values[v].status = "consumed"
            /\ values'[v].status # "indexed"
  BY DEF Ends
<1>2a. PICK T \in SUBSET On(n, "queued") :
       /\ counters'.pending = counters.pending - Cardinality(T)
       /\ \A v \in DOMAIN values :
            /\ v \in T => values'[v].status = "consumed"
            /\ v \notin T => values'[v].status = "consumed" <=> values[v].status = "consumed"
            /\ values'[v].status # "indexed"
  BY <1>2
<1>3. T \subseteq Waits
  BY DEF On, Waits, Unconsumed
<1>4. Follows(values') /\ Len(values') = Len(values) /\ Len(values) \in Nat /\ DOMAIN values' = DOMAIN values
  BY <1>1, FollowedRows DEF Keeps
<1>5. Held' = {}
  BY <1>2a, <1>4 DEF Held
<1>6. InWindows' = {}
  <2>1. \A m \in Aggregators : InWindow(m)' = {}
    BY <1>1, GraphFacts DEF InWindow
  <2>2. InWindows' = UNION {InWindow(m)' : m \in Aggregators}
    BY DEF InWindows, InWindow
  <2> QED BY <2>1, <2>2
<1>7. counters'.buffered = Cardinality(Held') + Cardinality(InWindows')
  BY <1>1, <1>5, <1>6, FS_EmptySet
<1>8. counters'.pending = counters.pending - Cardinality(T) + (Len(values') - Len(values))
  <2>1. Cardinality(T) \in Nat /\ counters.pending \in Int
    <3>1. T \subseteq DOMAIN values
      BY <1>3 DEF Waits
    <3>2. Cardinality(T) \in Nat
      BY <1>1, <3>1, ValuesAreNumbers DEF RowsTyped
    <3> QED BY <1>1, <3>2 DEF RowsTyped, Counters
  <2> QED BY <1>2a, <1>4, <2>1
<1>9. \A v \in DOMAIN values :
           values'[v].status = "consumed" <=> values[v].status = "consumed" \/ v \in T
  BY <1>2a
<1> QED BY <1>3, <1>4, <1>7, <1>8, <1>9, CountedNext

\* Some values were consumed by a new instance of n, which has no window.
LEMMA CountsBegin ==
  ASSUME CoordinationInv, NEW n \in Expands \cup Joins, NEW T, Begins(n, T),
         counters'.buffered = Cardinality(Held') + Cardinality(InWindows),
         \A v \in DOMAIN values : v \notin T =>
           (values'[v].status = "consumed" <=> values[v].status = "consumed")
  PROVE  CountersMatchRows'
<1>1. /\ RowsTyped /\ Keeps(values') /\ windows' = windows /\ active' = [active EXCEPT ![n] = "ready"]
      /\ counters'.pending = counters.pending - Cardinality(T) /\ T \subseteq Buffered(n)
      /\ \A v \in T : values'[v].status = "consumed"
  BY DEF CoordinationInv, Begins
<1>2. T \subseteq Waits
  BY <1>1 DEF Buffered, On, Waits, Unconsumed
<1>3. Follows(values') /\ Len(values') = Len(values) /\ Len(values) \in Nat
  BY <1>1, FollowedRows DEF Keeps
<1>4. \A m \in Aggregators : active'[m] = active[m]
  BY <1>1, GraphFacts DEF RowsTyped
<1>5. InWindows' = InWindows
  BY <1>1, <1>4, NoWindowMoved
<1>6. counters'.pending = counters.pending - Cardinality(T) + (Len(values') - Len(values))
  <2>1. Cardinality(T) \in Nat /\ counters.pending \in Int
    <3>1. T \subseteq DOMAIN values
      BY <1>2 DEF Waits
    <3>2. Cardinality(T) \in Nat
      BY <1>1, <3>1, ValuesAreNumbers DEF RowsTyped
    <3> QED BY <1>1, <3>2 DEF RowsTyped, Counters
  <2> QED BY <1>1, <1>3, <2>1
<1>7. \A v \in DOMAIN values :
           values'[v].status = "consumed" <=> values[v].status = "consumed" \/ v \in T
  BY <1>1
<1>8. counters'.buffered = Cardinality(Held') + Cardinality(InWindows')
  BY <1>5
<1> QED BY <1>2, <1>3, <1>6, <1>7, <1>8, CountedNext

\* An Expand began.
LEMMA CountsExpand ==
  ASSUME CoordinationInv, NEW n \in Nodes, ExpandBegins(n)
  PROVE  CountersMatchRows'
<1> DEFINE o == Oldest(n)
<1>1. /\ RowsTyped /\ n \in Expands \cup Joins /\ Begins(n, {o}) /\ On(n, "queued") # {}
      /\ counters'.buffered = counters.buffered
      /\ \A v \in DOMAIN values : v # o => values'[v] = values[v]
  BY DEF CoordinationInv, ExpandBegins
<1>2. o \in On(n, "queued") /\ values[o].status = "queued" /\ values'[o].status = "consumed"
  BY <1>1, OldestWaits DEF On, Begins
<1> HIDE DEF o
<1>3. DOMAIN values' = DOMAIN values
  BY <1>1, FollowedRows DEF Begins, Keeps
<1>4. Held' = Held
  <2>1. \A v \in DOMAIN values : values'[v].status = "indexed" <=> values[v].status = "indexed"
    BY <1>1, <1>2
  <2> QED BY <1>3, <2>1 DEF Held
<1>5. counters'.buffered = Cardinality(Held') + Cardinality(InWindows)
  BY <1>1, <1>4, CountedNow
<1> QED BY <1>1, <1>5, CountsBegin

\* A join has looked at its queue: it holds all of it.
LEMMA HeldByJoin ==
  ASSUME CoordinationInv, NEW n \in Joins
  PROVE  /\ {v \in DOMAIN values : IndexedAll(n)[v].status = "indexed"} = Held \cup On(n, "queued")
         /\ IsFiniteSet(Held \cup On(n, "queued"))
         /\ Cardinality(Held \cup On(n, "queued")) = Cardinality(Held) + Cardinality(On(n, "queued"))
         /\ Cardinality(On(n, "queued")) \in Nat
         /\ Buffered(n) \subseteq Held \cup On(n, "queued")
         /\ \A v \in DOMAIN values : IndexedAll(n)[v].status = "consumed" <=> values[v].status = "consumed"
<1>1. RowsTyped /\ n \in Nodes
  BY GraphFacts DEF CoordinationInv
<1>2. \A v \in DOMAIN values :
        /\ v \in On(n, "queued") => IndexedAll(n)[v].status = "indexed"
        /\ v \notin On(n, "queued") => IndexedAll(n)[v] = values[v]
  BY <1>1, IndexedRows
<1>3. On(n, "queued") \subseteq DOMAIN values /\ \A v \in On(n, "queued") : values[v].status = "queued"
  BY DEF On
<1>4. {v \in DOMAIN values : IndexedAll(n)[v].status = "indexed"} = Held \cup On(n, "queued")
  BY <1>2, <1>3 DEF Held
<1>5. Held \cap On(n, "queued") = {}
  BY <1>3 DEF Held
<1>6. IsFiniteSet(On(n, "queued")) /\ Cardinality(On(n, "queued")) \in Nat
  BY <1>1, <1>3, ValuesAreNumbers DEF RowsTyped
<1>7. IsFiniteSet(Held)
  BY CountedNow
<1>8. /\ IsFiniteSet(Held \cup On(n, "queued"))
      /\ Cardinality(Held \cup On(n, "queued")) = Cardinality(Held) + Cardinality(On(n, "queued"))
  BY <1>5, <1>6, <1>7, CardinalityOfParts
<1>9. Buffered(n) \subseteq Held \cup On(n, "queued")
  BY DEF Buffered, On, Held
<1>10. \A v \in DOMAIN values : IndexedAll(n)[v].status = "consumed" <=> values[v].status = "consumed"
  BY <1>2, <1>3
<1> QED BY <1>4, <1>6, <1>8, <1>9, <1>10

\* A join began.
LEMMA CountsJoin ==
  ASSUME CoordinationInv, NEW n \in Nodes, NEW k, JoinBegins(n, k)
  PROVE  CountersMatchRows'
<1> DEFINE t == FirstOfKey(Buffered(n), n, k)
           H == Held \cup On(n, "queued")
<1>1. /\ RowsTyped /\ n \in Joins /\ n \in Expands \cup Joins /\ Begins(n, t)
      /\ counters'.buffered = counters.buffered + Cardinality(On(n, "queued")) - Cardinality(t)
      /\ \A v \in DOMAIN values : v \notin t => values'[v] = IndexedAll(n)[v]
      /\ \A v \in t : values'[v].status = "consumed"
      /\ t \subseteq Buffered(n)
  BY DEF CoordinationInv, JoinBegins, Begins
<1> HIDE DEF t
<1>2. /\ {v \in DOMAIN values : IndexedAll(n)[v].status = "indexed"} = H
      /\ IsFiniteSet(H) /\ Cardinality(H) = Cardinality(Held) + Cardinality(On(n, "queued"))
      /\ Cardinality(On(n, "queued")) \in Nat /\ t \subseteq H
      /\ \A v \in DOMAIN values : IndexedAll(n)[v].status = "consumed" <=> values[v].status = "consumed"
  BY <1>1, HeldByJoin
<1> HIDE DEF H
<1>3. DOMAIN values' = DOMAIN values
  BY <1>1, FollowedRows DEF Begins, Keeps
<1>4. Held' = H \ t
  BY <1>1, <1>2, <1>3 DEF Held
<1>5. Cardinality(Held') = Cardinality(H) - Cardinality(t) /\ Cardinality(t) \in Nat
  <2>1. t \in SUBSET H
    BY <1>2
  <2>2. IsFiniteSet(t)
    BY <1>2, <2>1, FS_Subset
  <2> QED BY <1>2, <1>4, <2>2, CardinalityOfParts
<1>6. counters'.buffered = Cardinality(Held') + Cardinality(InWindows)
  BY <1>1, <1>2, <1>5, CountedNow
<1>7. \A v \in DOMAIN values : v \notin t => (values'[v].status = "consumed" <=> values[v].status = "consumed")
  BY <1>1, <1>2
<1> QED BY <1>1, <1>6, <1>7, CountsBegin

\* A join indexed its queue.
LEMMA CountsIndexed ==
  ASSUME CoordinationInv, NEW n \in Nodes, Indexes(n)
  PROVE  CountersMatchRows'
<1> DEFINE H == Held \cup On(n, "queued")
<1>1. /\ RowsTyped /\ n \in Joins /\ values' = IndexedAll(n) /\ windows' = windows /\ active' = active
      /\ counters' = [counters EXCEPT !.buffered = @ + Cardinality(On(n, "queued"))]
  BY DEF CoordinationInv, Indexes
<1>2. /\ {v \in DOMAIN values : IndexedAll(n)[v].status = "indexed"} = H
      /\ Cardinality(H) = Cardinality(Held) + Cardinality(On(n, "queued"))
      /\ Cardinality(On(n, "queued")) \in Nat
      /\ \A v \in DOMAIN values : IndexedAll(n)[v].status = "consumed" <=> values[v].status = "consumed"
  BY <1>1, HeldByJoin
<1> HIDE DEF H
<1>3. Follows(values') /\ Len(values') = Len(values) /\ Len(values) \in Nat /\ DOMAIN values' = DOMAIN values
  BY <1>1, IndexedRows, FollowedRows DEF Keeps
<1>4. Held' = H
  BY <1>1, <1>2, <1>3 DEF Held
<1>5. InWindows' = InWindows
  BY <1>1, NoWindowMoved
<1>6. counters.pending \in Int /\ Cardinality({}) = 0 /\ {} \subseteq Waits
  BY <1>1, FS_EmptySet DEF RowsTyped, Counters
<1>7. /\ counters'.pending = counters.pending
      /\ counters'.buffered = counters.buffered + Cardinality(On(n, "queued"))
  BY <1>1 DEF RowsTyped, Counters
<1>8. counters'.pending = counters.pending - Cardinality({}) + (Len(values') - Len(values))
  BY <1>3, <1>6, <1>7
<1>9. counters'.buffered = Cardinality(Held') + Cardinality(InWindows')
  BY <1>2, <1>4, <1>5, <1>7, CountedNow
<1>10. \A v \in DOMAIN values : values'[v].status = "consumed" <=> values[v].status = "consumed" \/ v \in {}
  BY <1>1, <1>2
<1> QED BY <1>3, <1>6, <1>8, <1>9, <1>10, CountedNext

\* Rows that were only added to: what was held is held, and none of the new ones is.
LEMMA HeldStays ==
  ASSUME RowsTyped, Follows(values'),
         \A v \in DOMAIN values : values'[v].status = "indexed" <=> values[v].status = "indexed"
  PROVE  Held' = Held
<1>1. DOMAIN values \subseteq DOMAIN values'
  BY FollowedRows
<1>2. \A v \in DOMAIN values' : v \notin DOMAIN values => values'[v].status = "queued"
  BY DEF Follows
<1> QED BY <1>1, <1>2 DEF Held

\* An instance emitted.
LEMMA CountsEmitted ==
  ASSUME CoordinationInv, NEW n \in Nodes, NEW items \in Seq(Items), Emits(n, items)
  PROVE  CountersMatchRows'
<1>1. /\ RowsTyped /\ n \in Expands \cup Joins /\ values' = values \o Emitted(n, items)
      /\ counters' = Enqueued(counters, n, items) /\ windows' = windows
      /\ active' = [active EXCEPT ![n] = "none"]
  BY DEF CoordinationInv, Emits
<1>2. /\ Follows(values') /\ Len(values') = Len(values) + Len(Emitted(n, items))
      /\ \A v \in DOMAIN values : values'[v] = values[v]
  BY <1>1, SameRows, AppendedRows
<1>3. counters \in Counters /\ Len(Emitted(n, items)) \in Nat /\ Len(values) \in Nat
  BY <1>1, <1>2, EmittedRows, FollowedRows DEF RowsTyped
<1>4. /\ counters'.pending = counters.pending + Len(Emitted(n, items))
      /\ counters'.buffered = counters.buffered
  BY <1>1, <1>3, EnqueuedCounts
<1>5. Held' = Held
  BY <1>1, <1>2, HeldStays
<1>6. InWindows' = InWindows
  <2>1. \A m \in Aggregators : active'[m] = active[m]
    BY <1>1, GraphFacts DEF RowsTyped
  <2> QED BY <1>1, <2>1, NoWindowMoved
<1>7. counters.pending \in Int /\ Cardinality({}) = 0 /\ {} \subseteq Waits
  BY <1>3, FS_EmptySet DEF Counters
<1>8. counters'.pending = counters.pending - Cardinality({}) + (Len(values') - Len(values))
  BY <1>2, <1>3, <1>4, <1>7
<1>9. counters'.buffered = Cardinality(Held') + Cardinality(InWindows')
  BY <1>4, <1>5, <1>6, CountedNow
<1>10. \A v \in DOMAIN values : values'[v].status = "consumed" <=> values[v].status = "consumed" \/ v \in {}
  BY <1>2
<1>11. Follows(values') /\ {} \subseteq Waits
  BY <1>2
<1> QED BY <1>8, <1>9, <1>10, <1>11, CountedNext

\* The run completed.
LEMMA CountsCompleted ==
  ASSUME CoordinationInv, Completes
  PROVE  CountersMatchRows'
<1>1. /\ RowsTyped /\ values' = Stranded /\ windows' = windows /\ active' = active
      /\ counters' = [counters EXCEPT !.buffered = @ - Cardinality(Held)]
  BY DEF CoordinationInv, Completes, SettleCompleted, StrandedCount, Held
<1>2. /\ Keeps(Stranded)
      /\ \A v \in DOMAIN values :
           /\ values[v].status # "indexed" => Stranded[v].status = values[v].status
           /\ values[v].status = "indexed" => Stranded[v].status = "stranded"
  BY <1>1, StrandedRows
<1>3. Follows(values') /\ Len(values') = Len(values) /\ Len(values) \in Nat /\ DOMAIN values' = DOMAIN values
  BY <1>1, <1>2, FollowedRows DEF Keeps
<1>4. Held' = {}
  BY <1>1, <1>2, <1>3 DEF Held
<1>5. InWindows' = InWindows
  BY <1>1, NoWindowMoved
<1>6. counters.pending \in Int /\ Cardinality({}) = 0 /\ {} \subseteq Waits
  BY <1>1, FS_EmptySet DEF RowsTyped, Counters
<1>7. /\ counters'.pending = counters.pending
      /\ counters'.buffered = counters.buffered - Cardinality(Held)
  BY <1>1 DEF RowsTyped, Counters
<1>8. counters'.pending = counters.pending - Cardinality({}) + (Len(values') - Len(values))
  BY <1>3, <1>6, <1>7
<1>9. counters'.buffered = Cardinality(Held') + Cardinality(InWindows')
  BY <1>4, <1>5, <1>6, <1>7, CountedNow
<1>10. \A v \in DOMAIN values : values'[v].status = "consumed" <=> values[v].status = "consumed" \/ v \in {}
  BY <1>1, <1>2
<1> QED BY <1>3, <1>6, <1>8, <1>9, <1>10, CountedNext

\* An Aggregator's rows, whether it took a value or its deadline passed.
LEMMA RowsOfWindow ==
  ASSUME CoordinationInv, NEW n \in Aggregators, NEW taken \in BOOLEAN, NEW items, Grown(n, taken, items)
  PROVE  LET T == IF taken THEN {Oldest(n)} ELSE {} IN
         /\ Keeps(RowsOf(n, taken)) /\ T \subseteq On(n, "queued") /\ IsFiniteSet(T)
         /\ Cardinality(T) = IF taken THEN 1 ELSE 0
         /\ \A v \in DOMAIN values : v \notin T => RowsOf(n, taken)[v] = values[v]
         /\ \A v \in T : /\ RowsOf(n, taken)[v].status = "consumed"
                         /\ RowsOf(n, taken)[v].by = SeqsOf(n, taken)[n]
<1>1. RowsTyped /\ n \in Nodes /\ ActivityFits
  BY GraphFacts DEF CoordinationInv
<1>2. CASE taken
  <2>1. On(n, "queued") # {} /\ RowsOf(n, taken) = Taken(n) /\ SeqsOf(n, taken) = TakenSeq(n)
    BY <1>2 DEF Grown, RowsOf, SeqsOf
  <2> DEFINE o == Oldest(n)
  <2>2. seqs[n] + 1 <= MaxActivations \/ ~Opens(n)
    <3>1. Opens(n) => counters.activations + 1 <= MaxActivations
      BY <1>2 DEF Grown
    <3>2. seqs[n] \in Nat /\ counters.activations \in Nat /\ MaxActivations \in Nat /\ seqs[n] <= counters.activations
      BY <1>1, LimitsPositive DEF RowsTyped, Counters, ActivityFits
    <3> QED BY <3>1, <3>2
  <2>3. /\ Keeps(Taken(n)) /\ \A v \in DOMAIN values : v # o => Taken(n)[v] = values[v]
        /\ Taken(n)[o].status = "consumed" /\ Taken(n)[o].by = TakenSeq(n)[n]
    BY <1>1, <2>1, <2>2, TakenRows
  <2>4. o \in On(n, "queued")
    BY <1>1, <2>1, OldestWaits
  <2> HIDE DEF o
  <2>5. IsFiniteSet({o}) /\ Cardinality({o}) = 1
    BY FS_Singleton
  <2> QED BY <1>2, <2>1, <2>3, <2>4, <2>5 DEF o
<1>3. CASE ~taken
  <2>1. RowsOf(n, taken) = values
    BY <1>3 DEF RowsOf
  <2>2. Keeps(values) /\ IsFiniteSet({}) /\ Cardinality({}) = 0
    BY <1>1, SameRows, FS_EmptySet
  <2> QED BY <1>3, <2>1, <2>2
<1> QED BY <1>2, <1>3

\* The two counters at the moment a window closes or keeps collecting.
LEMMA CountsOfWindow ==
  ASSUME RowsTyped, NEW n, NEW taken \in BOOLEAN
  PROVE  /\ CountsOf(n, taken).pending = counters.pending - (IF taken THEN 1 ELSE 0)
         /\ CountsOf(n, taken).buffered = counters.buffered + (IF taken THEN 1 ELSE 0)
<1>1. counters \in Counters /\ counters.pending \in Int /\ counters.buffered \in Int
  BY DEF RowsTyped, Counters
<1>2. CASE ~taken
  BY <1>1, <1>2 DEF CountsOf
<1>3. CASE taken
  <2>1. CountsOf(n, taken) = TakenCount(n)
    BY <1>3 DEF CountsOf
  <2>2. TakenCount(n).pending = counters.pending - 1 /\ TakenCount(n).buffered = counters.buffered + 1
    <3>1. CASE Opens(n)
      <4> DEFINE A == Activated(1)
      <4>1. TakenCount(n) = [A EXCEPT !.buffered = @ + 1]
        BY <3>1 DEF TakenCount
      <4>2. A.pending = counters.pending - 1 /\ A.buffered = counters.buffered /\ A \in Counters
        BY ActivatedCount
      <4> HIDE DEF A
      <4> QED BY <4>1, <4>2 DEF Counters
    <3>2. CASE ~Opens(n)
      <4> DEFINE A == [counters EXCEPT !.pending = @ - 1]
      <4>1. TakenCount(n) = [A EXCEPT !.buffered = @ + 1]
        BY <3>2 DEF TakenCount
      <4>2. A.pending = counters.pending - 1 /\ A.buffered = counters.buffered /\ A \in Counters
        BY <1>1 DEF Counters
      <4> HIDE DEF A
      <4> QED BY <4>1, <4>2 DEF Counters
    <3> QED BY <3>1, <3>2
  <2> QED BY <1>3, <2>1, <2>2
<1> QED BY <1>2, <1>3

\* A window kept on collecting.
LEMMA CountsKept ==
  ASSUME CoordinationInv, Live, NEW n \in Nodes, NEW items \in Seq(Nat), WindowKept(n, items)
  PROVE  CountersMatchRows'
<1> DEFINE o == Oldest(n)
<1>1. RowsTyped /\ ActivityFits /\ n \in Aggregators /\ Grown(n, TRUE, items) /\ KeepWindow(n, items)
  BY DEF CoordinationInv, WindowKept
<1>2. /\ Keeps(Taken(n)) /\ {o} \subseteq On(n, "queued") /\ Cardinality({o}) = 1
      /\ \A v \in DOMAIN values : v \notin {o} => Taken(n)[v] = values[v]
      /\ Taken(n)[o].status = "consumed"
  BY <1>1, RowsOfWindow DEF RowsOf
<1>3. values' = Taken(n) /\ counters' = TakenCount(n) /\ active' = [active EXCEPT ![n] = "waiting"]
      /\ windows' = [windows EXCEPT ![n] = Append(Closed(n), Window("open", items, "none"))]
  BY <1>1 DEF KeepWindow
<1>4. items = Append(Collected(n), o) /\ (Opens(n) => counters.activations + 1 <= MaxActivations)
  BY <1>1 DEF Grown
<1> HIDE DEF o
<1>5. o \in On(n, "queued") /\ o \in DOMAIN values /\ values[o].status = "queued" /\ o \in Ours(n) /\ o \in Nat
  <2>1. o \in On(n, "queued") /\ o \in DOMAIN values /\ values[o].status = "queued" /\ o \in Ours(n)
    BY <1>2 DEF On, Ours
  <2> QED BY <1>1, <2>1, ValueRow
<1>6. counters'.pending = counters.pending - 1 /\ counters'.buffered = counters.buffered + 1
  <2>1. TRUE \in BOOLEAN /\ counters' = CountsOf(n, TRUE)
    BY <1>3 DEF CountsOf
  <2> QED BY <1>1, <2>1, CountsOfWindow
<1>7. Follows(values') /\ Len(values') = Len(values) /\ Len(values) \in Nat /\ DOMAIN values' = DOMAIN values
  BY <1>1, <1>2, <1>3, FollowedRows DEF Keeps
<1>8. Held' = Held
  <2>1. \A v \in DOMAIN values : values'[v].status = "indexed" <=> values[v].status = "indexed"
    BY <1>2, <1>3, <1>5
  <2> QED BY <1>1, <1>7, <2>1, HeldStays
<1>9. InWindow(n)' = Kept(n) \cup {o}
  <2>1. active'[n] = "waiting" /\ windows'[n] = Append(Closed(n), Window("open", items, "none"))
    BY <1>1, <1>3, GraphFacts DEF RowsTyped
  <2>2. Closed(n) \in Seq(WindowRow) /\ Collected(n) \in Seq(Nat)
    BY <1>1, FlatIsClosedAndCollected DEF CoordinationInv
  <2>3. Window("open", items, "none") \in WindowRow /\ Window("open", items, "none").items = items
    BY DEF Window, WindowRow
  <2>4. Last(windows'[n]).items = items
    <3> DEFINE w == Window("open", items, "none")
    <3> HIDE DEF w
    <3>1. windows'[n] = Append(Closed(n), w) /\ w \in WindowRow
      BY <2>1, <2>3 DEF w
    <3>2. Len(Append(Closed(n), w)) = Len(Closed(n)) + 1 /\ Append(Closed(n), w)[Len(Closed(n)) + 1] = w
      BY <2>2, <3>1
    <3>3. Last(windows'[n]) = w
      BY <3>1, <3>2 DEF Last
    <3> QED BY <2>3, <3>3 DEF w
  <2>5. Range(items) = Range(Collected(n)) \cup {o}
    <3>1. /\ DOMAIN items = 1 .. (Len(Collected(n)) + 1) /\ DOMAIN Collected(n) = 1 .. Len(Collected(n))
          /\ Len(Collected(n)) \in Nat /\ items[Len(Collected(n)) + 1] = o
          /\ \A i \in 1 .. Len(Collected(n)) : items[i] = Collected(n)[i]
      BY <1>4, <1>5, <2>2
    <3>2. \A i : i \in 1 .. (Len(Collected(n)) + 1) <=> i \in 1 .. Len(Collected(n)) \/ i = Len(Collected(n)) + 1
      BY <3>1
    <3>3. Range(items) = {items[i] : i \in DOMAIN items} /\ Range(Collected(n)) = {Collected(n)[i] : i \in DOMAIN Collected(n)}
      BY DEF Range
    <3> QED BY <3>1, <3>2, <3>3
  <2> QED BY <2>1, <2>4, <2>5 DEF InWindow, Kept
<1> DEFINE Others == UNION {Kept(m) : m \in Aggregators \ {n}}
<1>10. InWindows' = InWindows \cup {o} /\ o \notin InWindows
  <2>1. InWindows' = (Kept(n) \cup {o}) \cup Others
    <3>1. \A m \in Aggregators : m # n => active'[m] = active[m] /\ windows'[m] = windows[m]
      BY <1>1, <1>3, GraphFacts DEF RowsTyped
    <3> QED BY <1>1, <1>9, <3>1, OneWindowMoved
  <2>2. InWindows = Kept(n) \cup Others /\ \A v \in Ours(n) : v \notin Others
    BY <1>1, KeptApart
  <2>3. o \notin Kept(n)
    BY <1>1, <1>5, KeptRows
  <2> HIDE DEF Others
  <2> QED BY <1>5, <2>1, <2>2, <2>3
<1>11. Cardinality(InWindows') = Cardinality(InWindows) + 1
  BY <1>10, CountedNow, FS_AddElement
<1>12. counters'.buffered = Cardinality(Held') + Cardinality(InWindows')
  BY <1>6, <1>8, <1>11, CountedNow
<1>13. {o} \subseteq Waits
  BY <1>5 DEF Waits, Unconsumed
<1>14. counters'.pending = counters.pending - Cardinality({o}) + (Len(values') - Len(values))
  <2>1. counters.pending \in Int
    BY <1>1 DEF RowsTyped, Counters
  <2> QED BY <1>2, <1>6, <1>7, <2>1
<1>15. \A v \in DOMAIN values : values'[v].status = "consumed" <=> values[v].status = "consumed" \/ v \in {o}
  BY <1>2, <1>3
<1> QED BY <1>7, <1>12, <1>13, <1>14, <1>15, CountedNext

\* A window closed.
LEMMA CountsClosed ==
  ASSUME CoordinationInv, Live, NEW n \in Nodes, NEW taken \in BOOLEAN, NEW items \in Seq(Nat),
         NEW reason \in {"count", "timeout"}, WindowCloses(n, taken, items, reason)
  PROVE  CountersMatchRows'
<1> DEFINE T == IF taken THEN {Oldest(n)} ELSE {}
           t == IF taken THEN 1 ELSE 0
           E == Emitted(n, Envelope(items))
           V == RowsOf(n, taken)
<1>1. RowsTyped /\ ActivityFits /\ n \in Aggregators /\ Grown(n, taken, items)
  BY DEF CoordinationInv, WindowCloses
<1>2. /\ Keeps(V) /\ T \subseteq On(n, "queued") /\ Cardinality(T) = t
      /\ \A v \in DOMAIN values : v \notin T => V[v] = values[v]
      /\ \A v \in T : V[v].status = "consumed"
  BY <1>1, RowsOfWindow
<1>3. /\ values' = V \o E /\ active' = [active EXCEPT ![n] = "none"]
      /\ windows' = [windows EXCEPT ![n] = Append(Closed(n), Window("completed", items, reason))]
      /\ counters'.pending = CountsOf(n, taken).pending + Len(E)
      /\ counters'.buffered = CountsOf(n, taken).buffered - Len(items)
  BY DEF WindowCloses
<1>4. /\ CountsOf(n, taken).pending = counters.pending - t
      /\ CountsOf(n, taken).buffered = counters.buffered + t
  BY <1>1, CountsOfWindow
<1>5. /\ Envelope(items) \in Seq(Items) /\ Len(items) \in Nat
      /\ Len(items) = Len(Collected(n)) + t /\ Len(Collected(n)) \in Nat
  <2>1. Envelope(items) \in Seq(Items) /\ Len(items) \in Nat
        /\ (taken => Len(items) = Len(Collected(n)) + 1 /\ Len(Collected(n)) \in Nat)
    BY <1>1, GrownItems
  <2>2. ~taken => items = Collected(n)
    BY <1>1 DEF Grown
  <2> QED BY <2>1, <2>2
<1>6. Len(E) \in Nat
  BY <1>5, EmittedRows
<1>7. /\ Follows(values') /\ Len(values') = Len(values) + Len(E)
      /\ \A v \in DOMAIN values : values'[v] = V[v]
  BY <1>1, <1>2, <1>3, <1>5, AppendedRows
<1>8. t \in Nat /\ Len(values) \in Nat
  BY <1>1, <1>7, FollowedRows
<1> HIDE DEF T, t, E, V
<1>9. Held' = Held
  <2>1. \A v \in T : values[v].status = "queued"
    BY <1>2 DEF On
  <2>2. \A v \in DOMAIN values : values'[v].status = "indexed" <=> values[v].status = "indexed"
    BY <1>2, <1>7, <2>1
  <2> QED BY <1>1, <1>7, <2>2, HeldStays
<1> DEFINE Others == UNION {Kept(m) : m \in Aggregators \ {n}}
<1>10. Cardinality(InWindows') = Cardinality(InWindows) - Len(Collected(n)) /\ Cardinality(InWindows') \in Nat
  <2>1. InWindow(n)' = {}
    <3>1. active'[n] = "none"
      BY <1>1, <1>3, GraphFacts DEF RowsTyped
    <3> QED BY <3>1 DEF InWindow
  <2>2. \A m \in Aggregators : m # n => active'[m] = active[m] /\ windows'[m] = windows[m]
    BY <1>1, <1>3, GraphFacts DEF RowsTyped
  <2>3. InWindows' = {} \cup Others
    BY <1>1, <2>1, <2>2, OneWindowMoved
  <2>4. InWindows = Kept(n) \cup Others /\ Kept(n) \cap Others = {} /\ IsFiniteSet(Others)
    BY <1>1, KeptApart
  <2>5. IsFiniteSet(Kept(n)) /\ Cardinality(Kept(n)) = Len(Collected(n))
    BY <1>1, KeptRows
  <2> HIDE DEF Others
  <2>6. Cardinality(InWindows) = Cardinality(Kept(n)) + Cardinality(Others) /\ Cardinality(Others) \in Nat
    BY <2>4, <2>5, CardinalityOfParts
  <2>7. InWindows' = Others
    BY <2>3
  <2> QED BY <1>5, <2>5, <2>6, <2>7
<1>11. counters'.buffered = Cardinality(Held') + Cardinality(InWindows')
  BY <1>3, <1>4, <1>5, <1>8, <1>9, <1>10, CountedNow
<1>12. T \subseteq Waits
  BY <1>2 DEF On, Waits, Unconsumed
<1>13. counters'.pending = counters.pending - Cardinality(T) + (Len(values') - Len(values))
  <2>1. counters.pending \in Int
    BY <1>1 DEF RowsTyped, Counters
  <2> QED BY <1>2, <1>3, <1>4, <1>6, <1>7, <1>8, <2>1
<1>14. \A v \in DOMAIN values : values'[v].status = "consumed" <=> values[v].status = "consumed" \/ v \in T
  BY <1>2, <1>7
<1> QED BY <1>7, <1>11, <1>12, <1>13, <1>14, CountedNext

-----------------------------------------------------------------------------
(* The rows of the values, while the run goes on: a node n takes those in T *)
(* and may index what is queued for it; everything else stays as it is.     *)
RowMoves(n, T) ==
  /\ Follows(values') /\ T \subseteq Buffered(n)
  /\ seqs' \in [Nodes -> 0 .. MaxActivations]
  /\ \A m \in Nodes : seqs[m] <= seqs'[m] /\ (m # n => seqs'[m] = seqs[m])
  /\ \A v \in T : values'[v].status = "consumed" /\ values'[v].by = seqs'[n]
  /\ \A v \in DOMAIN values : v \notin T =>
       /\ values'[v].by = values[v].by
       /\ \/ values'[v].status = values[v].status
          \/ v \in On(n, "queued") /\ n \in Joins /\ values'[v].status = "indexed"

\* The cursors when nothing begins, and when an instance of n does.
LEMMA SeqsNext ==
  ASSUME RowsTyped, NEW n \in Nodes, seqs' = seqs \/ (seqs' = NextSeq(n) /\ seqs[n] + 1 <= MaxActivations)
  PROVE  /\ seqs' \in [Nodes -> 0 .. MaxActivations]
         /\ \A m \in Nodes : seqs[m] <= seqs'[m] /\ (m # n => seqs'[m] = seqs[m])
         /\ seqs' = NextSeq(n) => seqs'[n] = seqs[n] + 1
<1>1. seqs \in [Nodes -> 0 .. MaxActivations] /\ MaxActivations \in Nat
  BY LimitsPositive DEF RowsTyped
<1>2. CASE seqs' = seqs
  <2>1. \A m \in Nodes : seqs[m] <= seqs[m]
    BY <1>1
  <2>2. seqs' = NextSeq(n) => seqs'[n] = seqs[n] + 1
    BY <1>1 DEF NextSeq
  <2> QED BY <1>1, <1>2, <2>1, <2>2
<1>3. CASE seqs' = NextSeq(n) /\ seqs[n] + 1 <= MaxActivations
  <2>1. \A m \in Nodes : NextSeq(n)[m] = IF m = n THEN seqs[n] + 1 ELSE seqs[m]
    BY <1>1 DEF NextSeq
  <2>2. seqs[n] + 1 \in 0 .. MaxActivations
    BY <1>1, <1>3
  <2>3. NextSeq(n) \in [Nodes -> 0 .. MaxActivations]
    BY <1>1, <2>2 DEF NextSeq
  <2>4. \A m \in Nodes : seqs[m] <= NextSeq(n)[m]
    BY <1>1, <2>1
  <2> QED BY <1>3, <2>1, <2>3, <2>4
<1> QED BY <1>2, <1>3

\* The moves of an Expand that begins.
LEMMA ExpandMoves ==
  ASSUME RowsTyped, NEW n \in Nodes, ExpandBegins(n)
  PROVE  RowMoves(n, {Oldest(n)})
<1>1. /\ Begins(n, {Oldest(n)}) /\ \A v \in DOMAIN values : v # Oldest(n) => values'[v] = values[v]
  BY DEF ExpandBegins
<1>2. /\ Keeps(values') /\ {Oldest(n)} \subseteq Buffered(n) /\ seqs' = NextSeq(n) /\ seqs[n] + 1 <= MaxActivations
      /\ \A v \in {Oldest(n)} : values'[v].status = "consumed" /\ values'[v].by = seqs[n] + 1
  BY <1>1 DEF Begins
<1> QED BY <1>1, <1>2, SeqsNext DEF RowMoves, Keeps

\* The moves of a join that begins.
LEMMA JoinMoves ==
  ASSUME RowsTyped, NEW n \in Nodes, NEW k, JoinBegins(n, k)
  PROVE  RowMoves(n, FirstOfKey(Buffered(n), n, k))
<1> DEFINE T == FirstOfKey(Buffered(n), n, k)
<1>1. Begins(n, T) /\ n \in Joins /\ \A v \in DOMAIN values : v \notin T => values'[v] = IndexedAll(n)[v]
  BY DEF JoinBegins
<1> HIDE DEF T
<1>2. /\ Keeps(values') /\ T \subseteq Buffered(n) /\ seqs' = NextSeq(n) /\ seqs[n] + 1 <= MaxActivations
      /\ \A v \in T : values'[v].status = "consumed" /\ values'[v].by = seqs[n] + 1
  BY <1>1 DEF Begins
<1>3. \A v \in DOMAIN values :
        /\ IndexedAll(n)[v].by = values[v].by
        /\ v \in On(n, "queued") => IndexedAll(n)[v].status = "indexed"
        /\ v \notin On(n, "queued") => IndexedAll(n)[v] = values[v]
  BY IndexedRows
<1>4. \A v \in DOMAIN values : v \notin T =>
       /\ values'[v].by = values[v].by
       /\ \/ values'[v].status = values[v].status
          \/ v \in On(n, "queued") /\ n \in Joins /\ values'[v].status = "indexed"
  BY <1>1, <1>3
<1>5. RowMoves(n, T)
  BY <1>2, <1>4, SeqsNext DEF RowMoves, Keeps
<1> QED BY <1>5 DEF T

\* The moves of a join that indexes.
LEMMA IndexMoves ==
  ASSUME RowsTyped, NEW n \in Nodes, Indexes(n)
  PROVE  RowMoves(n, {})
<1>1. n \in Joins /\ values' = IndexedAll(n) /\ seqs' = seqs
  BY DEF Indexes
<1>2. \A v \in DOMAIN values :
        /\ IndexedAll(n)[v].by = values[v].by
        /\ v \in On(n, "queued") => IndexedAll(n)[v].status = "indexed"
        /\ v \notin On(n, "queued") => IndexedAll(n)[v] = values[v]
  BY IndexedRows
<1>3. Follows(values')
  BY <1>1, IndexedRows DEF Keeps
<1> QED BY <1>1, <1>2, <1>3, SeqsNext DEF RowMoves

\* The moves of an instance that emits.
LEMMA EmitMoves ==
  ASSUME RowsTyped, NEW n \in Nodes, NEW items \in Seq(Items), Emits(n, items)
  PROVE  /\ RowMoves(n, {})
         /\ \A v \in DOMAIN values' : v \notin DOMAIN values => Target[values'[v].edge] \in Downstream(n, items)
<1>1. values' = values \o Emitted(n, items) /\ seqs' = seqs
  BY DEF Emits
<1>2. Keeps(values)
  BY SameRows
<1>3. /\ Follows(values') /\ \A v \in DOMAIN values : values'[v] = values[v]
      /\ \A v \in DOMAIN values' : v \notin DOMAIN values => Target[values'[v].edge] \in Downstream(n, items)
  BY <1>1, <1>2, AppendedRows
<1> QED BY <1>1, <1>3, SeqsNext DEF RowMoves

\* The cursors of a window that grows.
LEMMA WindowSeqs ==
  ASSUME CoordinationInv, NEW n \in Aggregators, NEW taken \in BOOLEAN, NEW items, Grown(n, taken, items),
         seqs' = SeqsOf(n, taken)
  PROVE  /\ seqs' \in [Nodes -> 0 .. MaxActivations]
         /\ \A m \in Nodes : seqs[m] <= seqs'[m] /\ (m # n => seqs'[m] = seqs[m])
<1>1. RowsTyped /\ ActivityFits /\ n \in Nodes
  BY GraphFacts DEF CoordinationInv
<1>2. seqs' = seqs \/ (seqs' = NextSeq(n) /\ seqs[n] + 1 <= MaxActivations)
  <2>1. CASE taken /\ Opens(n)
    <3>1. seqs' = NextSeq(n) /\ counters.activations + 1 <= MaxActivations
      BY <2>1 DEF Grown, SeqsOf, TakenSeq
    <3>2. seqs[n] \in Nat /\ counters.activations \in Nat /\ MaxActivations \in Nat /\ seqs[n] <= counters.activations
      BY <1>1, LimitsPositive DEF RowsTyped, Counters, ActivityFits
    <3> QED BY <3>1, <3>2
  <2>2. CASE ~(taken /\ Opens(n))
    BY <2>2 DEF SeqsOf, TakenSeq
  <2> QED BY <2>1, <2>2
<1> QED BY <1>1, <1>2, SeqsNext

\* The moves of an Aggregator whose window keeps collecting.
LEMMA KeepMoves ==
  ASSUME CoordinationInv, NEW n \in Nodes, NEW items \in Seq(Nat), WindowKept(n, items)
  PROVE  RowMoves(n, {Oldest(n)}) /\ Keeps(values')
<1>1. /\ n \in Aggregators /\ Grown(n, TRUE, items) /\ values' = RowsOf(n, TRUE) /\ seqs' = SeqsOf(n, TRUE)
      /\ TRUE \in BOOLEAN
  BY DEF WindowKept, KeepWindow, RowsOf, SeqsOf
<1>2. /\ Keeps(values') /\ {Oldest(n)} \subseteq On(n, "queued")
      /\ \A v \in DOMAIN values : v \notin {Oldest(n)} => values'[v] = values[v]
      /\ \A v \in {Oldest(n)} : values'[v].status = "consumed" /\ values'[v].by = seqs'[n]
  BY <1>1, RowsOfWindow
<1>3. {Oldest(n)} \subseteq Buffered(n)
  BY <1>2 DEF Buffered
<1> QED BY <1>1, <1>2, <1>3, WindowSeqs DEF RowMoves, Keeps

\* The moves of an Aggregator whose window closes.
LEMMA CloseMoves ==
  ASSUME CoordinationInv, NEW n \in Nodes, NEW taken \in BOOLEAN, NEW items \in Seq(Nat),
         NEW reason \in {"count", "timeout"}, WindowCloses(n, taken, items, reason)
  PROVE  /\ RowMoves(n, IF taken THEN {Oldest(n)} ELSE {})
         /\ \A v \in DOMAIN values' : v \notin DOMAIN values =>
              Target[values'[v].edge] \in Downstream(n, Envelope(items))
<1> DEFINE T == IF taken THEN {Oldest(n)} ELSE {}
           V == RowsOf(n, taken)
<1>1. /\ n \in Aggregators /\ Grown(n, taken, items) /\ values' = V \o Emitted(n, Envelope(items))
      /\ seqs' = SeqsOf(n, taken) /\ RowsTyped
  BY DEF WindowCloses, CoordinationInv
<1>2. /\ Keeps(V) /\ T \subseteq On(n, "queued")
      /\ \A v \in DOMAIN values : v \notin T => V[v] = values[v]
      /\ \A v \in T : V[v].status = "consumed" /\ V[v].by = seqs'[n]
  BY <1>1, RowsOfWindow
<1> HIDE DEF T, V
<1>3. Envelope(items) \in Seq(Items)
  BY <1>1, GrownItems
<1>4. /\ Follows(values') /\ \A v \in DOMAIN values : values'[v] = V[v]
      /\ \A v \in DOMAIN values' : v \notin DOMAIN values =>
           Target[values'[v].edge] \in Downstream(n, Envelope(items))
  BY <1>1, <1>2, <1>3, AppendedRows
<1>5. T \subseteq Buffered(n) /\ T \subseteq DOMAIN values
  BY <1>2 DEF Buffered, On
<1>6. \A v \in T : values'[v].status = "consumed" /\ values'[v].by = seqs'[n]
  BY <1>2, <1>4, <1>5
<1>7. \A v \in DOMAIN values : v \notin T => values'[v].by = values[v].by /\ values'[v].status = values[v].status
  BY <1>2, <1>4
<1>8. RowMoves(n, T)
  BY <1>1, <1>4, <1>5, <1>6, <1>7, WindowSeqs DEF RowMoves
<1> QED BY <1>4, <1>8 DEF T

\* Values stay where they may be.
LEMMA MovesFit ==
  ASSUME CoordinationInv, Live, NEW n \in Nodes, NEW T, RowMoves(n, T),
         \A m \in Joins : active'[m] # "none" =>
           (active[m] # "none" /\ seqs'[m] = seqs[m]) \/ (m = n /\ T # {})
  PROVE  ValuesFit'
<1>1. /\ RowsTyped /\ ValuesFit /\ Follows(values')
      /\ \A v \in DOMAIN values' : values'[v] \in Value
      /\ DOMAIN values \subseteq DOMAIN values'
  BY FollowedRows DEF CoordinationInv, RowMoves
<1>2. /\ \A v \in DOMAIN values : values'[v].edge = values[v].edge
      /\ \A v \in DOMAIN values' : v \notin DOMAIN values => values'[v].status = "queued" /\ values'[v].by = 0
  BY <1>1 DEF Follows
<1>3. seqs \in [Nodes -> Nat] /\ seqs' \in [Nodes -> Nat] /\ \A m \in Nodes : seqs[m] <= seqs'[m]
  BY <1>1, LimitsPositive DEF RowMoves, RowsTyped
<1>4. /\ T \subseteq DOMAIN values
      /\ \A v \in T : Target[values[v].edge] = n /\ values[v].status \in {"queued", "indexed"}
      /\ \A v \in T : values'[v].status = "consumed" /\ values'[v].by = seqs'[n]
      /\ \A v \in DOMAIN values : v \notin T =>
           /\ values'[v].by = values[v].by
           /\ \/ values'[v].status = values[v].status
              \/ values[v].status = "queued" /\ Target[values[v].edge] \in Joins /\ values'[v].status = "indexed"
  BY DEF RowMoves, Buffered, On
<1>5. ASSUME NEW v \in DOMAIN values' PROVE values'[v].by <= seqs'[Target[values'[v].edge]]
  <2>1. Target[values'[v].edge] \in Nodes
    BY <1>1, GraphFacts DEF Value
  <2>2. CASE v \notin DOMAIN values
    <3>1. values'[v].by = 0 /\ seqs'[Target[values'[v].edge]] \in Nat
      BY <1>2, <1>3, <2>1, <2>2
    <3> QED BY <3>1
  <2>3. CASE v \in T
    <3>1. Target[values'[v].edge] = n /\ values'[v].by = seqs'[n] /\ seqs'[n] \in Nat
      BY <1>2, <1>3, <1>4, <2>3
    <3> QED BY <3>1
  <2>4. CASE v \in DOMAIN values /\ v \notin T
    <3> DEFINE m == Target[values'[v].edge]
    <3>1. m = Target[values[v].edge] /\ values'[v].by = values[v].by
      BY <1>2, <1>4, <2>4
    <3>2. values[v].by <= seqs[m]
      BY <1>1, <2>4, <3>1 DEF ValuesFit
    <3>3. values[v].by \in Nat
      BY <1>1, <2>4, ValueRow, LimitsPositive
    <3>4. seqs[m] \in Nat /\ seqs'[m] \in Nat /\ seqs[m] <= seqs'[m]
      BY <1>3, <2>1
    <3> HIDE DEF m
    <3>5. values'[v].by <= seqs'[m]
      BY <3>1, <3>2, <3>3, <3>4
    <3> QED BY <3>5 DEF m
  <2> QED BY <2>2, <2>3, <2>4
<1>6. ASSUME NEW m \in Joins, active'[m] # "none"
      PROVE  \E v \in On(m, "consumed")' : values'[v].by = seqs'[m]
  <2>1. CASE active[m] # "none" /\ seqs'[m] = seqs[m]
    <3>1. PICK v \in On(m, "consumed") : values[v].by = seqs[m]
      BY <1>1, <2>1 DEF ValuesFit
    <3>2. v \in DOMAIN values /\ Target[values[v].edge] = m /\ values[v].status = "consumed"
      BY DEF On
    <3>3. v \notin T
      BY <1>4, <3>2
    <3>4. values'[v].status = "consumed" /\ values'[v].by = seqs'[m] /\ Target[values'[v].edge] = m
      BY <1>2, <1>4, <2>1, <3>1, <3>2, <3>3
    <3>5. v \in On(m, "consumed")'
      BY <1>1, <3>2, <3>4 DEF On
    <3> QED BY <3>4, <3>5
  <2>2. CASE m = n /\ T # {}
    <3>1. PICK v \in T : TRUE
      BY <2>2
    <3>2. v \in On(m, "consumed")' /\ values'[v].by = seqs'[m]
      BY <1>1, <1>2, <1>4, <2>2 DEF On
    <3> QED BY <3>2
  <2> QED BY <1>6, <2>1, <2>2
<1>7. ASSUME NEW v \in DOMAIN values'
      PROVE  \/ values'[v].status \in {"queued", "consumed"}
             \/ values'[v].status = "indexed" /\ Target[values'[v].edge] \in Joins
  <2>1. CASE v \notin DOMAIN values
    BY <1>2, <2>1
  <2>2. CASE v \in T
    BY <1>4, <2>2
  <2>3. CASE v \in DOMAIN values /\ v \notin T
    <3>1. \/ values[v].status \in {"queued", "consumed"}
          \/ values[v].status = "indexed" /\ Target[values[v].edge] \in Joins
      BY <1>1, <2>3 DEF ValuesFit
    <3> QED BY <1>2, <1>4, <2>3, <3>1
  <2> QED BY <2>1, <2>2, <2>3
<1> QED BY <1>5, <1>6, <1>7 DEF ValuesFit

\* The counters and cursors of a window that grows or closes are typed and fit.
LEMMA WindowActivity ==
  ASSUME CoordinationInv, NEW n \in Aggregators, NEW taken \in BOOLEAN, NEW items, Grown(n, taken, items)
  PROVE  /\ CountsOf(n, taken) \in Counters /\ CountsOf(n, taken).activations <= MaxActivations
         /\ \A m \in Nodes : SeqsOf(n, taken)[m] <= CountsOf(n, taken).activations
<1>1. /\ RowsTyped /\ ActivityFits /\ counters \in Counters /\ counters.activations \in Nat /\ n \in Nodes
      /\ MaxActivations \in Nat /\ counters.activations <= MaxActivations
  BY GraphFacts, LimitsPositive DEF CoordinationInv, RowsTyped, Counters, ActivityFits
<1>2. seqs \in [Nodes -> Nat] /\ \A m \in Nodes : seqs[m] <= counters.activations
  BY <1>1, LimitsPositive DEF RowsTyped, ActivityFits
<1>3. CASE ~taken
  <2>1. CountsOf(n, taken) = counters /\ SeqsOf(n, taken) = seqs
    BY <1>3 DEF CountsOf, SeqsOf
  <2> QED BY <1>1, <1>2, <2>1
<1>4. CASE taken /\ Opens(n)
  <2> DEFINE A == Activated(1)
  <2>1. CountsOf(n, taken) = [A EXCEPT !.buffered = @ + 1] /\ SeqsOf(n, taken) = NextSeq(n)
    BY <1>4 DEF CountsOf, TakenCount, SeqsOf, TakenSeq
  <2>2. A \in Counters /\ A.activations = counters.activations + 1
    BY <1>1, ActivatedCount
  <2> HIDE DEF A
  <2>3. CountsOf(n, taken) \in Counters /\ CountsOf(n, taken).activations = counters.activations + 1
    BY <2>1, <2>2 DEF Counters
  <2>4. counters.activations + 1 <= MaxActivations
    BY <1>4 DEF Grown
  <2>5. \A m \in Nodes : NextSeq(n)[m] = IF m = n THEN seqs[n] + 1 ELSE seqs[m]
    BY <1>2 DEF NextSeq
  <2>6. \A m \in Nodes : NextSeq(n)[m] <= counters.activations + 1
    BY <1>1, <1>2, <2>5
  <2> QED BY <2>1, <2>3, <2>4, <2>6
<1>5. CASE taken /\ ~Opens(n)
  <2> DEFINE A == [counters EXCEPT !.pending = @ - 1]
  <2>1. CountsOf(n, taken) = [A EXCEPT !.buffered = @ + 1] /\ SeqsOf(n, taken) = seqs
    BY <1>5 DEF CountsOf, TakenCount, SeqsOf, TakenSeq
  <2>2. A \in Counters /\ A.activations = counters.activations
    BY <1>1 DEF Counters
  <2> HIDE DEF A
  <2>3. CountsOf(n, taken) \in Counters /\ CountsOf(n, taken).activations = counters.activations
    BY <2>1, <2>2 DEF Counters
  <2> QED BY <1>1, <1>2, <2>1, <2>3
<1> QED BY <1>3, <1>4, <1>5

\* The windows after one of them was put behind the closed ones.
LEMMA WindowsTyped ==
  ASSUME CoordinationInv, NEW n \in Aggregators, NEW w \in WindowRow,
         windows' = [windows EXCEPT ![n] = Append(Closed(n), w)]
  PROVE  /\ windows' \in [Aggregators -> Seq(WindowRow)] /\ windows'[n] = Append(Closed(n), w)
         /\ \A m \in Aggregators : m # n => windows'[m] = windows[m]
<1>1. windows \in [Aggregators -> Seq(WindowRow)] /\ Closed(n) \in Seq(WindowRow)
  BY FlatIsClosedAndCollected DEF CoordinationInv, RowsTyped
<1>2. Append(Closed(n), w) \in Seq(WindowRow)
  BY <1>1
<1> QED BY <1>1, <1>2

\* The run goes on and is not over: what remains of the types and activities.
LEMMA ActivityNext ==
  ASSUME RunGoesOn, Live', counters'.activations <= MaxActivations,
         \A m \in Nodes : seqs'[m] <= counters'.activations,
         \A m \in Expands \cup Joins : active'[m] # "waiting",
         \A m \in Aggregators : active'[m] \in {"none", "waiting"}
  PROVE  ActivityFits'
BY DEF ActivityFits, RunGoesOn

\* Types and activities after a transaction that leaves the values alone.
LEMMA TypedStill ==
  ASSUME CoordinationInv, Live, Still
  PROVE  RowsTyped' /\ ActivityFits' /\ ValuesFit'
<1>1. RowsTyped /\ ActivityFits /\ ValuesFit
  BY DEF CoordinationInv
<1>2. /\ RunGoesOn /\ Live' /\ UNCHANGED <<values, counters, seqs, windows>>
      /\ active' \in [Nodes -> {"none", "ready", "running", "waiting"}]
      /\ \A n \in Nodes : active'[n] = active[n] \/ (active[n] = "ready" /\ active'[n] = "running")
  BY DEF Still
<1>3. RowsTyped'
  BY <1>1, <1>2 DEF RowsTyped, RunGoesOn
<1>4. \A m \in Expands \cup Joins : active'[m] # "waiting"
  BY <1>1, <1>2, GraphFacts DEF ActivityFits
<1>5. \A m \in Aggregators : active'[m] \in {"none", "waiting"}
  BY <1>1, <1>2, GraphFacts DEF ActivityFits
<1>6. ActivityFits'
  BY <1>1, <1>2, <1>4, <1>5, ActivityNext DEF ActivityFits
<1>7. ValuesFit'
  <2>1. \A m \in Joins : active'[m] # "none" => active[m] # "none"
    BY <1>2, GraphFacts
  <2>2. \A m : On(m, "consumed")' = On(m, "consumed")
    BY <1>2 DEF On
  <2>3. \A m \in Joins : active'[m] # "none" => \E v \in On(m, "consumed")' : values'[v].by = seqs'[m]
    BY <1>1, <1>2, <2>1, <2>2 DEF ValuesFit
  <2>4. \A v \in DOMAIN values' : values'[v].by <= seqs'[Target[values'[v].edge]]
    BY <1>1, <1>2 DEF ValuesFit
  <2>5. \A v \in DOMAIN values' :
       \/ values'[v].status \in {"queued", "consumed"}
       \/ values'[v].status = "indexed" /\ Target[values'[v].edge] \in Joins
    BY <1>1, <1>2 DEF ValuesFit
  <2> QED BY <2>3, <2>4, <2>5 DEF ValuesFit
<1> QED BY <1>3, <1>6, <1>7

\* Types and activities when an instance of n has begun.
LEMMA TypedBegin ==
  ASSUME CoordinationInv, Live, NEW n \in Expands \cup Joins, NEW T, Begins(n, T), RowMoves(n, T), T # {}
  PROVE  RowsTyped' /\ ActivityFits' /\ ValuesFit'
<1>1. RowsTyped /\ ActivityFits /\ n \in Nodes
  BY GraphFacts DEF CoordinationInv
<1>2. /\ RunGoesOn /\ run.status = "running" /\ run' = run /\ windows' = windows
      /\ active' = [active EXCEPT ![n] = "ready"] /\ counters' \in Counters
      /\ counters'.activations = counters.activations + 1 /\ counters'.activations <= MaxActivations
      /\ seqs' = NextSeq(n) /\ seqs[n] + 1 <= MaxActivations /\ Keeps(values')
  BY DEF Begins
<1>3. seqs' \in [Nodes -> 0 .. MaxActivations] /\ \A m \in Nodes : m # n => seqs'[m] = seqs[m]
  BY DEF RowMoves
<1>4. active' \in [Nodes -> {"none", "ready", "running", "waiting"}] /\ active'[n] = "ready"
      /\ \A m \in Nodes : m # n => active'[m] = active[m]
  BY <1>1, <1>2 DEF RowsTyped
<1>5. RowsTyped'
  BY <1>1, <1>2, <1>3, <1>4 DEF RowsTyped, RunGoesOn, Keeps, Follows
<1>6. Live'
  BY <1>2 DEF Live
<1>7. \A m \in Nodes : seqs'[m] <= counters'.activations
  <2>1. /\ seqs \in [Nodes -> Nat] /\ \A m \in Nodes : seqs[m] <= counters.activations
        /\ counters.activations \in Nat
    BY <1>1, LimitsPositive DEF RowsTyped, ActivityFits, Counters
  <2>2. seqs'[n] = seqs[n] + 1
    BY <1>1, <1>2, SeqsNext
  <2> QED BY <1>1, <1>2, <1>3, <2>1, <2>2
<1>8. \A m \in Expands \cup Joins : active'[m] # "waiting"
  BY <1>1, <1>4, GraphFacts DEF ActivityFits
<1>9. \A m \in Aggregators : active'[m] \in {"none", "waiting"}
  BY <1>1, <1>4, GraphFacts DEF ActivityFits
<1>10. ActivityFits'
  BY <1>2, <1>6, <1>7, <1>8, <1>9, ActivityNext
<1>11. ValuesFit'
  <2>1. \A m \in Joins : active'[m] # "none" =>
           (active[m] # "none" /\ seqs'[m] = seqs[m]) \/ (m = n /\ T # {})
    BY <1>3, <1>4, GraphFacts
  <2> QED BY <1>1, <2>1, MovesFit
<1> QED BY <1>5, <1>10, <1>11

\* The windows of a run that has ended: those that were open are cancelled.
LEMMA EndedWindows ==
  ASSUME RowsTyped, Ends
  PROVE  /\ windows' \in [Aggregators -> Seq(WindowRow)]
         /\ \A m \in Aggregators :
              /\ Len(windows'[m]) = Len(windows[m]) /\ DOMAIN windows'[m] = DOMAIN windows[m]
              /\ \A i \in DOMAIN windows[m] :
                   /\ windows'[m][i].items = windows[m][i].items
                   /\ windows'[m][i].reason = windows[m][i].reason
                   /\ \/ windows'[m][i].status = windows[m][i].status
                      \/ windows'[m][i].status = "cancelled"
                   /\ i = Len(windows[m]) => windows'[m][i].status # "open"
<1>1. windows \in [Aggregators -> Seq(WindowRow)]
  BY DEF RowsTyped
<1>2. windows' = [m \in Aggregators |->
        IF LastOpen(m) THEN [windows[m] EXCEPT ![Len(windows[m])].status = "cancelled"] ELSE windows[m]]
  BY DEF Ends
<1>3. ASSUME NEW m \in Aggregators
      PROVE  /\ windows'[m] \in Seq(WindowRow)
             /\ Len(windows'[m]) = Len(windows[m]) /\ DOMAIN windows'[m] = DOMAIN windows[m]
             /\ \A i \in DOMAIN windows[m] :
                  /\ windows'[m][i].items = windows[m][i].items
                  /\ windows'[m][i].reason = windows[m][i].reason
                  /\ \/ windows'[m][i].status = windows[m][i].status
                     \/ windows'[m][i].status = "cancelled"
                  /\ i = Len(windows[m]) => windows'[m][i].status # "open"
  <2> DEFINE ws == windows[m]
             xs == windows'[m]
  <2>1. ws \in Seq(WindowRow) /\ Len(ws) \in Nat /\ DOMAIN ws = 1 .. Len(ws)
    BY <1>1
  <2>2. xs = IF LastOpen(m) THEN [ws EXCEPT ![Len(ws)].status = "cancelled"] ELSE ws
    BY <1>2
  <2>3. LastOpen(m) <=> ws # <<>> /\ ws[Len(ws)].status = "open"
    BY DEF LastOpen, Last
  <2> HIDE DEF ws, xs
  <2>4. CASE LastOpen(m)
    <3> DEFINE k == Len(ws)
               w == [status |-> "cancelled", items |-> ws[k].items, reason |-> ws[k].reason]
    <3>1. k \in 1 .. Len(ws) /\ ws[k] \in WindowRow
      BY <2>1, <2>3, <2>4
    <3>2. w \in WindowRow /\ w = [ws[k] EXCEPT !.status = "cancelled"]
      BY <3>1 DEF WindowRow
    <3>3. xs = [ws EXCEPT ![k] = [ws[k] EXCEPT !.status = "cancelled"]]
      BY <2>2, <2>4
    <3>4. xs = [ws EXCEPT ![k] = w]
      BY <3>2, <3>3
    <3> HIDE DEF k
    <3>5. /\ xs \in Seq(WindowRow) /\ Len(xs) = Len(ws) /\ DOMAIN xs = DOMAIN ws
          /\ xs[k] = w /\ \A i \in DOMAIN ws : i # k => xs[i] = ws[i]
      BY <2>1, <3>1, <3>2, <3>4
    <3>6. w.items = ws[k].items /\ w.reason = ws[k].reason /\ w.status = "cancelled"
      OBVIOUS
    <3> HIDE DEF w
    <3>7. k = Len(ws)
      BY DEF k
    <3> QED BY <3>5, <3>6, <3>7 DEF ws, xs
  <2>5. CASE ~LastOpen(m)
    <3>1. xs = ws
      BY <2>2, <2>5
    <3>2. \A i \in DOMAIN ws : i = Len(ws) => ws[i].status # "open"
      BY <2>1, <2>3, <2>5
    <3> QED BY <2>1, <3>1, <3>2 DEF ws, xs
  <2> QED BY <2>4, <2>5
<1> QED BY <1>2, <1>3

\* Types and activities when the run has ended.
LEMMA TypedEnd ==
  ASSUME CoordinationInv, Ends
  PROVE  RowsTyped' /\ ActivityFits' /\ ValuesFit'
<1>1. RowsTyped /\ ActivityFits /\ ValuesFit
  BY DEF CoordinationInv
<1>2. /\ RunGoesOn /\ ~Live' /\ NoWakeup' /\ active' = [m \in Nodes |-> "none"]
      /\ counters' \in Counters /\ counters'.activations <= MaxActivations
      /\ seqs' \in [Nodes -> 0 .. MaxActivations]
      /\ \A m \in Nodes : seqs[m] <= seqs'[m] /\ seqs'[m] <= counters'.activations
      /\ Keeps(values')
  BY DEF Ends
<1>3. RowsTyped'
  BY <1>1, <1>2, EndedWindows DEF RowsTyped, RunGoesOn, Keeps, Follows
<1>4. ActivityFits'
  BY <1>2, GraphFacts DEF ActivityFits, RunGoesOn
<1>5. PICK n \in Slots : \E T \in SUBSET On(n, "queued") :
        \A v \in DOMAIN values :
          /\ v \in T => values'[v].by <= seqs'[n]
          /\ v \notin T => values'[v].by = values[v].by
  BY DEF Ends
<1>6. PICK T \in SUBSET On(n, "queued") :
        \A v \in DOMAIN values :
          /\ v \in T => values'[v].by <= seqs'[n]
          /\ v \notin T => values'[v].by = values[v].by
  BY <1>5
<1>7. /\ DOMAIN values' = DOMAIN values
      /\ \A v \in DOMAIN values : values'[v].edge = values[v].edge
  BY <1>1, <1>2, FollowedRows DEF Keeps, Follows
<1>8. ASSUME NEW v \in DOMAIN values' PROVE values'[v].by <= seqs'[Target[values'[v].edge]]
  <2> DEFINE m == Target[values[v].edge]
  <2>1. v \in DOMAIN values /\ Target[values'[v].edge] = m /\ m \in Nodes /\ values[v].by \in Nat
    BY <1>1, <1>7, ValueRow, LimitsPositive
  <2>2. CASE v \in T
    BY <1>6, <2>1, <2>2 DEF On
  <2>3. CASE v \notin T
    <3>1. values'[v].by = values[v].by /\ values[v].by <= seqs[m]
      BY <1>1, <1>6, <2>1, <2>3 DEF ValuesFit
    <3>2. seqs[m] \in Nat /\ seqs'[m] \in Nat /\ seqs[m] <= seqs'[m]
      BY <1>1, <1>2, <2>1, LimitsPositive DEF RowsTyped
    <3> HIDE DEF m
    <3>3. values'[v].by <= seqs'[m]
      BY <2>1, <3>1, <3>2
    <3> QED BY <2>1, <3>3
  <2> QED BY <2>2, <2>3
<1>9. \A m \in Joins : active'[m] = "none"
  BY <1>2, GraphFacts
<1>10. ValuesFit'
  BY <1>2, <1>8, <1>9 DEF ValuesFit
<1> QED BY <1>3, <1>4, <1>10

\* When the settlement completes the run, no node is at work and no wakeup is left.
LEMMA SettledIsIdle ==
  ASSUME CoordinationInv, Completes
  PROVE  /\ \A n \in Nodes : active[n] = "none" /\ wakeups.pending[n] = 0 /\ wakeups.claimed[n] = 0
         /\ NoWakeup' /\ ~Live' /\ run'.halts = run.halts
<1>1. RowsTyped /\ ActivityFits
  BY DEF CoordinationInv
<1>2. /\ Settles /\ Busy = {} /\ ~Awaited /\ Quiet(Settle) /\ run' = [run EXCEPT !.status = "completed"]
      /\ wakeups' = Served(Settle, {}) /\ wakeups.claimed[Settle] > 0
  BY DEF Completes, SettleCompleted, Settles
<1>3. \A n \in Nodes : active[n] = "none"
  BY <1>1, <1>2, GraphFacts DEF Busy, Awaited, ActivityFits, RowsTyped
<1>4. \A s \in Slots : wakeups'.pending[s] = 0 /\ wakeups'.claimed[s] = 0
  BY <1>2 DEF Quiet
<1>5. \A s \in Slots : wakeups'.pending[s] = wakeups.pending[s] + (IF s \in {} THEN 1 ELSE 0)
                       /\ wakeups'.claimed[s] = wakeups.claimed[s] - (IF s = Settle THEN 1 ELSE 0)
                       /\ wakeups.pending[s] \in Nat /\ wakeups.claimed[s] \in Nat
  BY <1>1, <1>2, ServedCalls, GraphFacts
<1>6. \A n \in Nodes : wakeups.pending[n] = 0 /\ wakeups.claimed[n] = 0
  BY <1>4, <1>5, GraphFacts
<1>7. ~Live' /\ run'.halts = run.halts
  BY <1>1, <1>2 DEF Live, Terminal, RowsTyped, RunRow
<1> QED BY <1>3, <1>4, <1>6, <1>7 DEF NoWakeup

\* Types and activities when the run has completed.
LEMMA TypedCompleted ==
  ASSUME CoordinationInv, Completes
  PROVE  RowsTyped' /\ ActivityFits' /\ ValuesFit'
<1>1. RowsTyped /\ ActivityFits /\ ValuesFit
  BY DEF CoordinationInv
<1>2. /\ RunGoesOn /\ values' = Stranded /\ counters' = StrandedCount
      /\ UNCHANGED <<active, seqs, windows>>
  BY DEF Completes, SettleCompleted
<1>3. Keeps(values') /\ \A v \in DOMAIN values : values'[v].by = values[v].by
  BY <1>1, <1>2, StrandedRows
<1>4. IsFiniteSet(Held) /\ Cardinality(Held) \in Nat
  BY CountedNow
<1>5. counters' \in Counters /\ counters'.activations = counters.activations
  <2> DEFINE h == counters.buffered - Cardinality(Held)
  <2>1. counters \in Counters /\ h \in Int
    BY <1>1, <1>4 DEF RowsTyped, Counters
  <2>2. counters' = [counters EXCEPT !.buffered = h]
    BY <1>2 DEF StrandedCount, Held
  <2> HIDE DEF h
  <2> QED BY <2>1, <2>2 DEF Counters
<1>6. RowsTyped'
  BY <1>1, <1>2, <1>3, <1>5 DEF RowsTyped, RunGoesOn, Keeps, Follows
<1>7. ActivityFits'
  BY <1>1, <1>2, <1>5, SettledIsIdle, GraphFacts DEF ActivityFits, RunGoesOn
<1>8. /\ DOMAIN values' = DOMAIN values
      /\ \A v \in DOMAIN values : values'[v].edge = values[v].edge
  BY <1>1, <1>3, FollowedRows DEF Keeps, Follows
<1>9. \A v \in DOMAIN values' : values'[v].by <= seqs'[Target[values'[v].edge]]
  BY <1>1, <1>2, <1>3, <1>8 DEF ValuesFit
<1>10. \A m \in Joins : active'[m] = "none"
  BY <1>2, SettledIsIdle, GraphFacts
<1> QED BY <1>6, <1>7, <1>9, <1>10, SettledIsIdle DEF ValuesFit

\* Types and activities when a join has indexed its queue.
LEMMA TypedIndexed ==
  ASSUME CoordinationInv, Live, NEW n \in Nodes, Indexes(n)
  PROVE  RowsTyped' /\ ActivityFits' /\ ValuesFit'
<1>1. RowsTyped /\ ActivityFits /\ ValuesFit
  BY DEF CoordinationInv
<1>2. /\ RunGoesOn /\ counters' = [counters EXCEPT !.buffered = @ + Cardinality(On(n, "queued"))]
      /\ UNCHANGED <<run, active, seqs, windows>> /\ n \in Joins
  BY DEF Indexes
<1>3. RowMoves(n, {}) /\ values' \in Seq(Value)
  BY <1>1, IndexMoves DEF RowMoves, Follows
<1>4. counters' \in Counters /\ counters'.activations = counters.activations
  <2> DEFINE h == counters.buffered + Cardinality(On(n, "queued"))
  <2>0. Cardinality(On(n, "queued")) \in Nat
    BY <1>2, HeldByJoin
  <2>1. counters \in Counters /\ h \in Int
    BY <1>1, <2>0 DEF RowsTyped, Counters
  <2>2. counters' = [counters EXCEPT !.buffered = h]
    BY <1>2
  <2> HIDE DEF h
  <2> QED BY <2>1, <2>2 DEF Counters
<1>5. Live'
  BY <1>2 DEF Live
<1>6. RowsTyped'
  BY <1>1, <1>2, <1>3, <1>4 DEF RowsTyped, RunGoesOn
<1>7. ActivityFits'
  BY <1>1, <1>2, <1>4, <1>5 DEF ActivityFits, RunGoesOn
<1>8. \A m \in Joins : active'[m] # "none" => active[m] # "none" /\ seqs'[m] = seqs[m]
  BY <1>2
<1>9. ValuesFit'
  BY <1>3, <1>8, MovesFit
<1> QED BY <1>6, <1>7, <1>9

\* Types and activities when an instance has emitted.
LEMMA TypedEmitted ==
  ASSUME CoordinationInv, Live, NEW n \in Nodes, NEW items \in Seq(Items), Emits(n, items)
  PROVE  RowsTyped' /\ ActivityFits' /\ ValuesFit'
<1>1. RowsTyped /\ ActivityFits /\ ValuesFit
  BY DEF CoordinationInv
<1>2. /\ RunGoesOn /\ Live' /\ counters' = Enqueued(counters, n, items)
      /\ active' = [active EXCEPT ![n] = "none"] /\ UNCHANGED <<seqs, windows>>
      /\ n \in Expands \cup Joins
  BY DEF Emits
<1>3. RowMoves(n, {}) /\ values' \in Seq(Value)
  BY <1>1, EmitMoves DEF RowMoves, Follows
<1>4. counters' \in Counters /\ counters'.activations = counters.activations
  BY <1>1, <1>2, EnqueuedCounts DEF RowsTyped
<1>5. /\ active' \in [Nodes -> {"none", "ready", "running", "waiting"}] /\ active'[n] = "none"
      /\ \A m \in Nodes : m # n => active'[m] = active[m]
  BY <1>1, <1>2 DEF RowsTyped
<1>6. RowsTyped'
  BY <1>1, <1>2, <1>3, <1>4, <1>5 DEF RowsTyped, RunGoesOn
<1>7. \A m \in Expands \cup Joins : active'[m] # "waiting"
  BY <1>1, <1>5, GraphFacts DEF ActivityFits
<1>8. \A m \in Aggregators : active'[m] \in {"none", "waiting"}
  BY <1>1, <1>5, GraphFacts DEF ActivityFits
<1>9. ActivityFits'
  BY <1>1, <1>2, <1>4, <1>7, <1>8, ActivityNext DEF ActivityFits
<1>10. \A m \in Joins : active'[m] # "none" => active[m] # "none" /\ seqs'[m] = seqs[m]
  BY <1>2, <1>5, GraphFacts
<1>11. ValuesFit'
  BY <1>3, <1>10, MovesFit
<1> QED BY <1>6, <1>9, <1>11

\* Types and activities when the window of an Aggregator has grown or closed.
LEMMA TypedWindow ==
  ASSUME CoordinationInv, Live, NEW n \in Aggregators, NEW taken \in BOOLEAN, NEW items,
         Grown(n, taken, items), NEW w \in WindowRow, NEW T, RowMoves(n, T),
         RunGoesOn, Live', counters' \in Counters, counters'.activations = CountsOf(n, taken).activations,
         seqs' = SeqsOf(n, taken), NEW a \in {"none", "waiting"}, active' = [active EXCEPT ![n] = a],
         windows' = [windows EXCEPT ![n] = Append(Closed(n), w)]
  PROVE  RowsTyped' /\ ActivityFits' /\ ValuesFit'
<1>1. RowsTyped /\ ActivityFits /\ ValuesFit /\ n \in Nodes
  BY GraphFacts DEF CoordinationInv
<1>2. /\ counters'.activations <= MaxActivations
      /\ \A m \in Nodes : seqs'[m] <= counters'.activations
  BY WindowActivity
<1>3. windows' \in [Aggregators -> Seq(WindowRow)]
  BY WindowsTyped
<1>4. /\ active' \in [Nodes -> {"none", "ready", "running", "waiting"}] /\ active'[n] = a
      /\ \A m \in Nodes : m # n => active'[m] = active[m]
  BY <1>1 DEF RowsTyped
<1>5. /\ seqs' \in [Nodes -> 0 .. MaxActivations] /\ values' \in Seq(Value)
      /\ \A m \in Nodes : m # n => seqs'[m] = seqs[m]
  BY DEF RowMoves, Follows
<1>6. RowsTyped'
  BY <1>3, <1>4, <1>5 DEF RowsTyped, RunGoesOn
<1>7. \A m \in Expands \cup Joins : active'[m] # "waiting"
  BY <1>1, <1>4, GraphFacts DEF ActivityFits
<1>8. \A m \in Aggregators : active'[m] \in {"none", "waiting"}
  BY <1>1, <1>4, GraphFacts DEF ActivityFits
<1>9. ActivityFits'
  BY <1>2, <1>7, <1>8, ActivityNext
<1>10. \A m \in Joins : active'[m] # "none" => active[m] # "none" /\ seqs'[m] = seqs[m]
  BY <1>4, <1>5, GraphFacts
<1>11. ValuesFit'
  BY <1>1, <1>10, MovesFit
<1> QED BY <1>6, <1>9, <1>11

\* Types and activities when a window keeps on collecting.
LEMMA TypedKept ==
  ASSUME CoordinationInv, Live, NEW n \in Nodes, NEW items \in Seq(Nat), WindowKept(n, items)
  PROVE  RowsTyped' /\ ActivityFits' /\ ValuesFit'
<1> DEFINE w == Window("open", items, "none")
<1>1. /\ n \in Aggregators /\ Grown(n, TRUE, items) /\ RunGoesOn /\ counters' = TakenCount(n)
      /\ active' = [active EXCEPT ![n] = "waiting"] /\ seqs' = TakenSeq(n)
      /\ windows' = [windows EXCEPT ![n] = Append(Closed(n), w)] /\ run' = run
  BY DEF WindowKept, KeepWindow
<1>2. w \in WindowRow
  BY DEF Window, WindowRow
<1>3. RowMoves(n, {Oldest(n)})
  BY KeepMoves
<1>4. counters' = CountsOf(n, TRUE) /\ seqs' = SeqsOf(n, TRUE) /\ counters' \in Counters
  BY <1>1, WindowActivity DEF CountsOf, SeqsOf
<1>5. Live'
  BY <1>1 DEF Live
<1> HIDE DEF w
<1> QED BY <1>1, <1>2, <1>3, <1>4, <1>5, TypedWindow

\* Types and activities when a window has closed.
LEMMA TypedClosed ==
  ASSUME CoordinationInv, Live, NEW n \in Nodes, NEW taken \in BOOLEAN, NEW items \in Seq(Nat),
         NEW reason \in {"count", "timeout"}, WindowCloses(n, taken, items, reason)
  PROVE  RowsTyped' /\ ActivityFits' /\ ValuesFit'
<1> DEFINE w == Window("completed", items, reason)
           T == IF taken THEN {Oldest(n)} ELSE {}
<1>1. /\ n \in Aggregators /\ Grown(n, taken, items) /\ RunGoesOn /\ Live' /\ counters' \in Counters
      /\ counters'.activations = CountsOf(n, taken).activations
      /\ active' = [active EXCEPT ![n] = "none"] /\ seqs' = SeqsOf(n, taken)
      /\ windows' = [windows EXCEPT ![n] = Append(Closed(n), w)]
  BY DEF WindowCloses
<1>2. w \in WindowRow
  BY DEF Window, WindowRow
<1>3. RowMoves(n, T)
  BY CloseMoves
<1> HIDE DEF w, T
<1> QED BY <1>1, <1>2, <1>3, TypedWindow

\* A tuple holds something.
LEMMA TupleHolds ==
  ASSUME RowsTyped, NEW n \in Joins, NEW k, Complete(Buffered(n), n, k)
  PROVE  FirstOfKey(Buffered(n), n, k) # {}
<1>1. PICK e \in In(n) : TRUE
  BY JoinPorts
<1>2. Buffered(n) \subseteq DOMAIN values
  BY DEF Buffered, On
<1> QED BY <1>1, <1>2, FirstsOfKey

\* Every row keeps its type, and the nodes and values fit, whatever the transaction.
LEMMA TypedNext ==
  ASSUME CoordinationInv, Live, StepKinds
  PROVE  RowsTyped' /\ ActivityFits' /\ ValuesFit'
<1>1. RowsTyped
  BY DEF CoordinationInv
<1>2. CASE Still
  BY <1>2, TypedStill
<1>3. CASE Ends
  BY <1>3, TypedEnd
<1>4. CASE Completes
  BY <1>4, TypedCompleted
<1>5. ASSUME NEW n \in Nodes, ExpandBegins(n) PROVE RowsTyped' /\ ActivityFits' /\ ValuesFit'
  <2>1. RowMoves(n, {Oldest(n)}) /\ n \in Expands /\ Begins(n, {Oldest(n)})
    BY <1>1, <1>5, ExpandMoves DEF ExpandBegins
  <2> QED BY <2>1, TypedBegin
<1>6. ASSUME NEW n \in Nodes, NEW k \in Items, JoinBegins(n, k) PROVE RowsTyped' /\ ActivityFits' /\ ValuesFit'
  <2> DEFINE T == FirstOfKey(Buffered(n), n, k)
  <2>1. RowMoves(n, T) /\ n \in Joins /\ Begins(n, T) /\ T # {}
    BY <1>1, <1>6, JoinMoves, TupleHolds DEF JoinBegins
  <2> HIDE DEF T
  <2> QED BY <2>1, TypedBegin
<1>7. ASSUME NEW n \in Nodes, Indexes(n) PROVE RowsTyped' /\ ActivityFits' /\ ValuesFit'
  BY <1>7, TypedIndexed
<1>8. ASSUME NEW n \in Nodes, NEW items \in Seq(Items), Emits(n, items)
      PROVE  RowsTyped' /\ ActivityFits' /\ ValuesFit'
  BY <1>8, TypedEmitted
<1>9. ASSUME NEW n \in Nodes, NEW items \in Seq(Nat), WindowKept(n, items)
      PROVE  RowsTyped' /\ ActivityFits' /\ ValuesFit'
  BY <1>9, TypedKept
<1>10. ASSUME NEW n \in Nodes, NEW taken \in BOOLEAN, NEW items \in Seq(Nat),
              NEW reason \in {"count", "timeout"}, WindowCloses(n, taken, items, reason)
       PROVE  RowsTyped' /\ ActivityFits' /\ ValuesFit'
  BY <1>10, TypedClosed
<1> QED BY <1>2, <1>3, <1>4, <1>5, <1>6, <1>7, <1>8, <1>9, <1>10 DEF StepKinds

\* The counters count the rows, whatever the transaction.
LEMMA CountsNext ==
  ASSUME CoordinationInv, Live, StepKinds
  PROVE  CountersMatchRows'
<1>1. ASSUME NEW n \in Nodes, NEW k \in Items, JoinBegins(n, k) PROVE CountersMatchRows'
  BY <1>1, CountsJoin
<1>2. ASSUME NEW n \in Nodes, NEW items \in Seq(Items), Emits(n, items) PROVE CountersMatchRows'
  BY <1>2, CountsEmitted
<1>3. ASSUME NEW n \in Nodes, NEW items \in Seq(Nat), WindowKept(n, items) PROVE CountersMatchRows'
  BY <1>3, CountsKept
<1>4. ASSUME NEW n \in Nodes, NEW taken \in BOOLEAN, NEW items \in Seq(Nat),
             NEW reason \in {"count", "timeout"}, WindowCloses(n, taken, items, reason)
      PROVE  CountersMatchRows'
  BY <1>4, CountsClosed
<1>5. ASSUME NEW n \in Nodes, ExpandBegins(n) \/ Indexes(n) PROVE CountersMatchRows'
  BY <1>5, CountsExpand, CountsIndexed
<1>6. CASE Still \/ Ends \/ Completes
  BY <1>6, CountsStill, CountsEnd, CountsCompleted
<1> QED BY <1>1, <1>2, <1>3, <1>4, <1>5, <1>6 DEF StepKinds

-----------------------------------------------------------------------------
(* The windows, after each kind of transaction.                            *)

\* A member's rank stays when only greater members come.
LEMMA RanksStay ==
  ASSUME NEW V, NEW W, V \subseteq W, NEW v, \A u \in W : u <= v => u \in V
  PROVE  Rank(W, v) = Rank(V, v)
<1>1. {u \in W : u <= v} = {u \in V : u <= v}
  OBVIOUS
<1> QED BY <1>1 DEF Rank

\* The values of a node stay its values, at their places.
LEMMA OursStay ==
  ASSUME RowsTyped, Follows(values'), NEW m
  PROVE  /\ Ours(m) \subseteq DOMAIN values /\ Ours(m) \subseteq Ours(m)'
         /\ \A v \in Ours(m)' : v \in DOMAIN values => v \in Ours(m)
         /\ \A v \in Ours(m)' : v \notin DOMAIN values => values'[v].status = "queued"
         /\ \A v \in Ours(m) : Rank(Ours(m), v)' = Rank(Ours(m), v)
<1>1. /\ DOMAIN values = 1 .. Len(values) /\ DOMAIN values' = 1 .. Len(values')
      /\ Len(values) \in Nat /\ Len(values') \in Nat /\ Len(values) <= Len(values')
      /\ \A v \in DOMAIN values : v \in DOMAIN values' /\ values'[v].edge = values[v].edge
      /\ \A v \in DOMAIN values' : v \notin DOMAIN values => values'[v].status = "queued"
  BY FollowedRows DEF Follows
<1>2. Ours(m) \subseteq DOMAIN values /\ Ours(m) \subseteq Ours(m)'
  BY <1>1 DEF Ours
<1>3. \A v \in Ours(m)' : v \in DOMAIN values => v \in Ours(m)
  BY <1>1 DEF Ours
<1>4. ASSUME NEW v \in Ours(m) PROVE Rank(Ours(m)', v) = Rank(Ours(m), v)
  <2>1. \A u \in Ours(m)' : u <= v => u \in Ours(m)
    BY <1>1, <1>2, <1>3 DEF Ours
  <2> QED BY <1>2, <2>1, RanksStay
<1>5. \A v \in Ours(m)' : v \in DOMAIN values'
  BY DEF Ours
<1> QED BY <1>1, <1>2, <1>3, <1>4, <1>5

\* An Aggregator whose window and values were left alone.
LEMMA WindowsUntouched ==
  ASSUME CoordinationInv, Live, NEW m \in Aggregators, Follows(values'),
         windows'[m] = windows[m], active'[m] = active[m],
         Live' => \A v \in Ours(m) : values'[v].status = "consumed" <=> values[v].status = "consumed"
  PROVE  WindowsFit(m)' /\ QueueIsCut(m)'
<1>1. RowsTyped /\ WindowsFit(m) /\ QueueIsCut(m)
  BY DEF CoordinationInv
<1>2. WindowsFit(m)'
  BY <1>1 DEF WindowsFit
<1>3. Flat(m)' = Flat(m)
  BY DEF Flat, ItemsOf
<1>4. \A i \in DOMAIN Flat(m)' : Flat(m)'[i] \in Ours(m)' /\ Rank(Ours(m), Flat(m)[i])' = i
  BY <1>1, <1>3, OursStay DEF QueueIsCut
<1>5. ASSUME Live', NEW v \in Ours(m)'
      PROVE  values'[v].status = "consumed" <=> \E i \in DOMAIN Flat(m)' : Flat(m)'[i] = v
  <2>1. CASE v \in Ours(m)
    BY <1>1, <1>3, <1>5, <2>1 DEF QueueIsCut
  <2>2. CASE v \notin Ours(m)
    <3>1. values'[v].status = "queued"
      BY <1>1, <2>2, OursStay
    <3>2. \A i \in DOMAIN Flat(m) : Flat(m)[i] # v
      BY <1>1, <2>2 DEF QueueIsCut
    <3> QED BY <1>3, <3>1, <3>2
  <2> QED BY <2>1, <2>2
<1> QED BY <1>2, <1>4, <1>5 DEF QueueIsCut

\* The end of the run closes the windows and keeps what they hold.
LEMMA WindowsEnd ==
  ASSUME CoordinationInv, Ends, NEW m \in Aggregators
  PROVE  WindowsFit(m)' /\ QueueIsCut(m)'
<1>1. RowsTyped /\ WindowsFit(m) /\ QueueIsCut(m) /\ windows[m] \in Seq(WindowRow) /\ m \in Nodes
  BY GraphFacts DEF CoordinationInv, RowsTyped
<1>2. /\ Len(windows'[m]) = Len(windows[m]) /\ DOMAIN windows'[m] = DOMAIN windows[m]
      /\ \A i \in DOMAIN windows[m] :
           /\ windows'[m][i].items = windows[m][i].items
           /\ windows'[m][i].reason = windows[m][i].reason
           /\ \/ windows'[m][i].status = windows[m][i].status
              \/ windows'[m][i].status = "cancelled"
           /\ i = Len(windows[m]) => windows'[m][i].status # "open"
  BY <1>1, EndedWindows
<1>3. active'[m] = "none" /\ ~Live' /\ Follows(values')
  BY <1>1 DEF Ends, Keeps
<1>4. \A i \in DOMAIN windows'[m] : windows'[m][i].status # "open"
  BY <1>1, <1>2 DEF WindowsFit
<1>5. WindowsFit(m)'
  BY <1>1, <1>2, <1>3, <1>4 DEF WindowsFit
<1>6. ItemsOf(windows'[m]) = ItemsOf(windows[m])
  BY <1>2 DEF ItemsOf
<1>7. Flat(m)' = Flat(m)
  BY <1>6 DEF Flat
<1>8. \A i \in DOMAIN Flat(m)' : Flat(m)'[i] \in Ours(m)' /\ Rank(Ours(m), Flat(m)[i])' = i
  BY <1>1, <1>3, <1>7, OursStay DEF QueueIsCut
<1> QED BY <1>3, <1>5, <1>7, <1>8 DEF QueueIsCut

\* The oldest value that waits for an Aggregator is the next of its queue.
LEMMA OldestIsNext ==
  ASSUME CoordinationInv, Live, NEW n \in Aggregators, On(n, "queued") # {}
  PROVE  /\ Len(Flat(n)) \in Nat /\ Oldest(n) \in Ours(n)
         /\ Rank(Ours(n), Oldest(n)) = Len(Flat(n)) + 1
<1> DEFINE o == Oldest(n)
           F == Flat(n)
           V == Ours(n)
<1>1. /\ RowsTyped /\ ActivityFits /\ ValuesFit /\ WindowsFit(n) /\ QueueIsCut(n)
  BY DEF CoordinationInv
<1>2. F \in Seq(Nat) /\ Len(F) \in Nat /\ DOMAIN F = 1 .. Len(F)
  BY <1>1, FlatIsClosedAndCollected
<1>3. /\ \A i \in 1 .. Len(F) : F[i] \in V /\ Rank(V, F[i]) = i
      /\ \A v \in V : values[v].status = "consumed" <=> \E i \in 1 .. Len(F) : F[i] = v
  BY <1>1, <1>2 DEF QueueIsCut
<1>4. V \subseteq Nat /\ IsFiniteSet(V) /\ Cardinality(V) \in Nat
  BY <1>1, ValuesAreNumbers DEF RowsTyped, Ours
<1>5. o \in V /\ values[o].status = "queued" /\ \A v \in On(n, "queued") : o <= v
  BY <1>1, OldestWaits DEF On, Ours
<1>6. Rank(V, o) \in 1 .. Cardinality(V)
  BY <1>4, <1>5, RankBounds
<1> HIDE DEF o, F, V
<1>7. ~(Rank(V, o) <= Len(F))
  <2> SUFFICES ASSUME Rank(V, o) <= Len(F) PROVE FALSE
    OBVIOUS
  <2> DEFINE r == Rank(V, o)
  <2>1. r \in 1 .. Len(F)
    BY <1>2, <1>4, <1>6
  <2>2. F[r] \in V /\ Rank(V, F[r]) = Rank(V, o)
    BY <1>3, <2>1
  <2>3. F[r] = o
    BY <1>4, <1>5, <2>2, RankIsInjective
  <2>4. values[o].status = "consumed"
    BY <1>3, <1>5, <2>1, <2>3
  <2> QED BY <1>5, <2>4
<1>8. ~(Rank(V, o) > Len(F) + 1)
  <2> SUFFICES ASSUME Rank(V, o) > Len(F) + 1 PROVE FALSE
    OBVIOUS
  <2>1. Len(F) + 1 \in 1 .. Cardinality(V)
    BY <1>2, <1>4, <1>6
  <2>2. PICK v \in V : Rank(V, v) = Len(F) + 1
    BY <1>4, <2>1, RankIsOnto
  <2>3. \A i \in 1 .. Len(F) : F[i] # v
    BY <1>2, <1>3, <2>2
  <2>4. values[v].status # "consumed"
    BY <1>3, <2>2, <2>3
  <2>5. v \in DOMAIN values /\ Target[values[v].edge] = n
    BY <2>2 DEF V, Ours
  <2>6. values[v].status = "queued"
    BY <1>1, <2>4, <2>5, GraphFacts DEF ValuesFit
  <2>7. o <= v
    BY <1>5, <2>5, <2>6 DEF On
  <2>8. v # o
    BY <1>2, <1>6, <2>2
  <2>9. o < v
    BY <1>4, <1>5, <2>2, <2>7, <2>8
  <2>10. Rank(V, o) < Rank(V, v)
    BY <1>4, <1>5, <2>2, <2>9, RankIsMonotone
  <2> QED BY <1>2, <1>6, <2>2, <2>10
<1>9. Rank(V, o) = Len(F) + 1
  BY <1>2, <1>6, <1>4, <1>7, <1>8
<1> QED BY <1>2, <1>5, <1>9 DEF o, F, V

\* The windows that are closed are windows, none of them open.
LEMMA ClosedWindows ==
  ASSUME CoordinationInv, NEW n \in Aggregators
  PROVE  /\ Closed(n) \in Seq(WindowRow)
         /\ \A i \in 1 .. Len(Closed(n)) :
              i \in DOMAIN windows[n] /\ Closed(n)[i] = windows[n][i] /\ windows[n][i].status # "open"
         /\ ~Opens(n) => /\ Collected(n) # <<>> /\ Len(Collected(n)) < Count
                         /\ Collected(n) \in Seq(Nat)
         /\ Opens(n) => Collected(n) = <<>>
<1>1. /\ RowsTyped /\ ActivityFits /\ WindowsFit(n) /\ windows[n] \in Seq(WindowRow)
      /\ active[n] \in {"none", "waiting"}
  BY DEF CoordinationInv, RowsTyped, ActivityFits
<1>2. Closed(n) \in Seq(WindowRow) /\ Collected(n) \in Seq(Nat)
  BY <1>1, FlatIsClosedAndCollected
<1>3. CASE Opens(n)
  <2>1. Closed(n) = windows[n] /\ Collected(n) = <<>> /\ active[n] = "none"
    BY <1>3 DEF Closed, Collected, Opens
  <2>2. \A i \in DOMAIN windows[n] : windows[n][i].status # "open"
    BY <1>1, <2>1 DEF WindowsFit
  <2>3. DOMAIN windows[n] = 1 .. Len(windows[n])
    BY <1>1
  <2> QED BY <1>2, <1>3, <2>1, <2>2, <2>3
<1>4. CASE ~Opens(n)
  <2> DEFINE ws == windows[n]
  <2>1. Closed(n) = Front(ws) /\ Collected(n) = Last(ws).items /\ active[n] = "waiting"
    BY <1>1, <1>4 DEF Closed, Collected, Opens
  <2>2. ws # <<>> /\ ws \in Seq(WindowRow) /\ Len(ws) \in Nat /\ DOMAIN ws = 1 .. Len(ws)
    BY <1>1, <2>1 DEF WindowsFit
  <2>3. Len(Front(ws)) = Len(ws) - 1 /\ \A i \in 1 .. Len(ws) - 1 : Front(ws)[i] = ws[i]
    BY <2>2, FrontAndLast
  <2>4. \A i \in DOMAIN ws : ws[i].status = "open" <=> i = Len(ws)
    BY <1>1, <2>1 DEF WindowsFit
  <2>5. \A i \in DOMAIN ws : ws[i].status = "open" => ws[i].items # <<>> /\ Len(ws[i].items) < Count
    BY <1>1 DEF WindowsFit
  <2> HIDE DEF ws
  <2>6. Len(ws) \in DOMAIN ws /\ Last(ws) = ws[Len(ws)]
    BY <2>2 DEF Last
  <2>7. Last(ws).items # <<>> /\ Len(Last(ws).items) < Count
    BY <2>4, <2>5, <2>6
  <2>8. \A i \in 1 .. Len(Front(ws)) : i \in DOMAIN ws /\ Front(ws)[i] = ws[i] /\ ws[i].status # "open"
    BY <2>2, <2>3, <2>4
  <2> QED BY <1>2, <1>4, <2>1, <2>7, <2>8 DEF ws
<1> QED BY <1>3, <1>4

\* The windows of the Aggregator whose window has grown or closed.
LEMMA WindowsGrown ==
  ASSUME CoordinationInv, Live, NEW n \in Aggregators, NEW taken \in BOOLEAN, NEW items \in Seq(Nat),
         Grown(n, taken, items), NEW status \in {"open", "completed"},
         NEW reason \in {"none", "count", "timeout"},
         windows' = [windows EXCEPT ![n] = Append(Closed(n), Window(status, items, reason))],
         status = "open" <=> active'[n] = "waiting",
         status = "open" => Len(items) < Count,
         reason = "count" <=> Len(items) = Count
  PROVE  WindowsFit(n)'
<1> DEFINE w == Window(status, items, reason)
           C == Closed(n)
           xs == Append(C, w)
<1>1. w \in WindowRow /\ w.status = status /\ w.items = items /\ w.reason = reason
  BY DEF Window, WindowRow
<1>2. /\ C \in Seq(WindowRow)
      /\ \A i \in 1 .. Len(C) :
           i \in DOMAIN windows[n] /\ C[i] = windows[n][i] /\ windows[n][i].status # "open"
  BY ClosedWindows
<1>3. windows'[n] = xs
  BY <1>1, WindowsTyped
<1>4. items # <<>>
  <2>1. Len(items) >= 1
    BY GrownItems
  <2> QED BY <2>1
<1>5. WindowsFit(n)
  BY DEF CoordinationInv
<1>6. \A i \in 1 .. Len(C) : C[i].reason = "count" <=> Len(C[i].items) = Count
  BY <1>2, <1>5 DEF WindowsFit
<1> HIDE DEF w, C
<1>7. /\ Len(xs) = Len(C) + 1 /\ DOMAIN xs = 1 .. Len(C) + 1 /\ Len(C) \in Nat
      /\ xs[Len(C) + 1] = w /\ \A i \in 1 .. Len(C) : xs[i] = C[i]
  BY <1>1, <1>2
<1>8. xs # <<>>
  <2>1. xs \in Seq(WindowRow) /\ Len(xs) # 0
    BY <1>1, <1>2, <1>7
  <2> HIDE DEF xs
  <2> QED BY <2>1
<1> HIDE DEF xs
<1>9. ASSUME NEW i \in DOMAIN xs
      PROVE  /\ xs[i].status = "open" <=> (i = Len(xs) /\ active'[n] = "waiting")
             /\ xs[i].reason = "count" <=> Len(xs[i].items) = Count
             /\ xs[i].status = "open" => xs[i].items # <<>> /\ Len(xs[i].items) < Count
  <2>1. CASE i \in 1 .. Len(C)
    <3>1. xs[i] = C[i] /\ xs[i].status # "open" /\ i # Len(xs)
      BY <1>2, <1>7, <2>1
    <3> QED BY <1>6, <2>1, <3>1
  <2>2. CASE i = Len(C) + 1
    <3>1. xs[i] = w /\ i = Len(xs)
      BY <1>7, <2>2
    <3> QED BY <1>1, <1>4, <3>1
  <2> QED BY <1>7, <2>1, <2>2
<1> QED BY <1>3, <1>8, <1>9 DEF WindowsFit

\* The queue of the Aggregator whose window has grown or closed: its head was taken, or nothing.
LEMMA QueueGrown ==
  ASSUME CoordinationInv, Live, NEW n \in Aggregators, NEW taken \in BOOLEAN, NEW items \in Seq(Nat),
         Grown(n, taken, items), NEW w \in WindowRow, w.items = items,
         windows' = [windows EXCEPT ![n] = Append(Closed(n), w)],
         RowMoves(n, IF taken THEN {Oldest(n)} ELSE {})
  PROVE  QueueIsCut(n)'
<1> DEFINE o == Oldest(n)
           F == Flat(n)
           G == FlattenSeq(ItemsOf(Closed(n)))
           V == Ours(n)
           T == IF taken THEN {o} ELSE {}
<1>1. /\ RowsTyped /\ ActivityFits /\ ValuesFit /\ WindowsFit(n) /\ QueueIsCut(n) /\ Follows(values')
  BY DEF CoordinationInv, RowMoves
<1>2. /\ Closed(n) \in Seq(WindowRow) /\ Collected(n) \in Seq(Nat) /\ G \in Seq(Nat) /\ F \in Seq(Nat)
      /\ F = G \o Collected(n)
  BY <1>1, FlatIsClosedAndCollected
<1>3. windows'[n] = Append(Closed(n), w)
  BY WindowsTyped
<1>4. FlattenSeq(ItemsOf(Append(Closed(n), w))) = G \o w.items
  BY <1>2, FlatWithWindow
<1>5. Flat(n)' = G \o items
  BY <1>3, <1>4 DEF Flat
<1>0. DOMAIN Flat(n) = 1 .. Len(Flat(n))
  <2>1. Flat(n) \in Seq(Nat)
    BY <1>2
  <2> QED BY <2>1
<1>6. \A i \in 1 .. Len(F) : F[i] \in V /\ Rank(V, F[i]) = i
  BY <1>0, <1>1 DEF QueueIsCut
<1>7. \A v \in V : values[v].status = "consumed" <=> \E i \in 1 .. Len(F) : F[i] = v
  BY <1>0, <1>1 DEF QueueIsCut
<1>8. /\ V \subseteq DOMAIN values /\ V \subseteq Ours(n)'
      /\ \A v \in Ours(n)' : v \in DOMAIN values => v \in V
      /\ \A v \in Ours(n)' : v \notin DOMAIN values => values'[v].status = "queued"
      /\ \A v \in V : Rank(V, v)' = Rank(V, v)
  BY <1>1, OursStay
<1>9. \A v \in V : v \notin T => (values'[v].status = "consumed" <=> values[v].status = "consumed")
  BY <1>8, GraphFacts DEF RowMoves
<1>10. \A v \in T : values'[v].status = "consumed"
  BY DEF RowMoves
<1>11. taken => /\ Len(F) \in Nat /\ o \in V /\ Rank(V, o) = Len(F) + 1
                /\ items = Append(Collected(n), o) /\ o \in Nat
  <2>1. taken => On(n, "queued") # {} /\ items = Append(Collected(n), o)
    BY DEF Grown
  <2>2. taken => o \in DOMAIN values /\ values \in Seq(Value)
    BY <1>1, <2>1, OldestWaits DEF RowsTyped
  <2> QED BY <2>1, <2>2, OldestIsNext
<1>12. ~taken => items = Collected(n)
  BY DEF Grown
<1> HIDE DEF o, G, V, F
<1>13. Flat(n)' = IF taken THEN Append(F, o) ELSE F
  <2>1. CASE taken
    <3>1. ASSUME NEW s \in Seq(Nat), NEW t \in Seq(Nat), NEW x \in Nat
          PROVE  s \o Append(t, x) = Append(s \o t, x)
      OBVIOUS
    <3>2. G \o Append(Collected(n), o) = Append(G \o Collected(n), o)
      BY <1>2, <1>11, <2>1, <3>1
    <3> QED BY <1>2, <1>5, <1>11, <2>1, <3>2
  <2>2. CASE ~taken
    BY <1>2, <1>5, <1>12, <2>2
  <2> QED BY <2>1, <2>2
<1> DEFINE X == Flat(n)'
<1>14. /\ X \in Seq(Nat) /\ Len(X) = Len(F) + (IF taken THEN 1 ELSE 0) /\ Len(F) \in Nat
       /\ DOMAIN X = 1 .. Len(X) /\ \A i \in 1 .. Len(F) : i \in DOMAIN X
       /\ \A i \in 1 .. Len(F) : X[i] = F[i]
       /\ taken => X[Len(F) + 1] = o
  <2>1. Len(F) \in Nat
    BY <1>2
  <2>2. CASE taken
    <3>1. X = Append(F, o) /\ o \in Nat
      BY <1>11, <1>13, <2>2
    <3> HIDE DEF X
    <3>2. /\ X \in Seq(Nat) /\ Len(X) = Len(F) + 1 /\ X[Len(F) + 1] = o
          /\ \A i \in 1 .. Len(F) : X[i] = F[i]
      BY <1>2, <3>1
    <3>3. DOMAIN X = 1 .. Len(F) + 1
      BY <3>2
    <3> QED BY <2>1, <2>2, <3>2, <3>3
  <2>3. CASE ~taken
    <3>1. X = F
      BY <1>13, <2>3
    <3> HIDE DEF X
    <3> QED BY <1>2, <2>1, <2>3, <3>1
  <2> QED BY <2>2, <2>3
<1> HIDE DEF X
<1>15. ASSUME NEW i \in DOMAIN X PROVE X[i] \in Ours(n)' /\ X[i] \in V /\ Rank(V, X[i]) = i
  <2>1. CASE i \in 1 .. Len(F)
    BY <1>6, <1>8, <1>14, <2>1
  <2>2. CASE i \notin 1 .. Len(F)
    <3>1. taken /\ i = Len(F) + 1
      BY <1>14, <2>2
    <3> QED BY <1>8, <1>11, <1>14, <3>1
  <2> QED BY <2>1, <2>2
<1>16. ASSUME NEW i \in DOMAIN X PROVE X[i] \in Ours(n)' /\ Rank(V', X[i]) = i
  <2>1. ASSUME NEW x \in V PROVE Rank(V', x) = Rank(V, x)
    BY <1>8
  <2> QED BY <1>15, <2>1
<1>17. ASSUME NEW v \in Ours(n)'
       PROVE  values'[v].status = "consumed" <=> \E i \in DOMAIN X : X[i] = v
  <2>1. CASE v \notin DOMAIN values
    <3>1. values'[v].status = "queued" /\ v \notin V
      BY <1>8, <2>1
    <3> QED BY <1>15, <3>1
  <2>2. CASE v \in V /\ v \in T
    <3>1. taken /\ v = o
      BY <2>2
    <3>2. Len(F) + 1 \in DOMAIN X
      BY <1>14, <3>1
    <3> QED BY <1>10, <1>14, <2>2, <3>1, <3>2
  <2>3. CASE v \in V /\ v \notin T
    <3>1. values'[v].status = "consumed" <=> \E i \in 1 .. Len(F) : F[i] = v
      BY <1>7, <1>9, <2>3
    <3>2. ASSUME NEW i \in 1 .. Len(F), F[i] = v PROVE i \in DOMAIN X /\ X[i] = v
      BY <1>14, <3>2
    <3>3. ASSUME NEW i \in DOMAIN X, X[i] = v PROVE i \in 1 .. Len(F) /\ F[i] = v
      <4>1. CASE i \in 1 .. Len(F)
        BY <1>14, <3>3, <4>1
      <4>2. CASE i \notin 1 .. Len(F)
        <5>1. taken /\ i = Len(F) + 1
          BY <1>14, <4>2
        <5> QED BY <1>14, <2>3, <3>3, <5>1
      <4> QED BY <4>1, <4>2
    <3> QED BY <3>1, <3>2, <3>3
  <2> QED BY <1>8, <2>1, <2>2, <2>3
<1> QED BY <1>16, <1>17 DEF QueueIsCut, X, V

\* The values of another node are left alone.
LEMMA OthersStay ==
  ASSUME RowsTyped, NEW n \in Nodes, NEW T, RowMoves(n, T), NEW m, m # n
  PROVE  \A v \in Ours(m) : /\ values'[v].status = values[v].status /\ values'[v].by = values[v].by
                            /\ values'[v].edge = values[v].edge /\ values'[v].item = values[v].item
BY DEF RowMoves, Follows, Ours, Buffered, On

\* The windows when a node that is no Aggregator moved.
LEMMA WindowsStay ==
  ASSUME CoordinationInv, Live, NEW n \in Expands \cup Joins, NEW T, RowMoves(n, T), windows' = windows,
         \A m \in Nodes : m # n => active'[m] = active[m], NEW m \in Aggregators
  PROVE  WindowsFit(m)' /\ QueueIsCut(m)'
<1>1. RowsTyped /\ n \in Nodes /\ m \in Nodes /\ m # n /\ Follows(values')
  BY GraphFacts DEF CoordinationInv, RowMoves
<1>2. \A v \in Ours(m) : values'[v].status = values[v].status
  BY <1>1, OthersStay
<1> QED BY <1>1, <1>2, WindowsUntouched

\* The windows when an Aggregator's grew or closed: its own, and the others'.
LEMMA WindowsOfOthers ==
  ASSUME CoordinationInv, Live, NEW n \in Aggregators, NEW T, RowMoves(n, T), NEW w \in WindowRow,
         windows' = [windows EXCEPT ![n] = Append(Closed(n), w)],
         NEW a, active' = [active EXCEPT ![n] = a], NEW m \in Aggregators, m # n
  PROVE  WindowsFit(m)' /\ QueueIsCut(m)'
<1>1. RowsTyped /\ n \in Nodes /\ m \in Nodes /\ Follows(values')
  BY GraphFacts DEF CoordinationInv, RowMoves
<1>2. \A v \in Ours(m) : values'[v].status = values[v].status
  BY <1>1, OthersStay
<1>3. windows'[m] = windows[m]
  BY WindowsTyped
<1>4. active'[m] = active[m]
  BY <1>1 DEF RowsTyped
<1> QED BY <1>1, <1>2, <1>3, <1>4, WindowsUntouched

\* The windows when one keeps on collecting.
LEMMA WindowsKept ==
  ASSUME CoordinationInv, Live, NEW n \in Nodes, NEW items \in Seq(Nat), WindowKept(n, items),
         NEW m \in Aggregators
  PROVE  WindowsFit(m)' /\ QueueIsCut(m)'
<1> DEFINE w == Window("open", items, "none")
<1>1. /\ n \in Aggregators /\ Grown(n, TRUE, items) /\ Len(items) < Count
      /\ active' = [active EXCEPT ![n] = "waiting"]
      /\ windows' = [windows EXCEPT ![n] = Append(Closed(n), w)]
  BY DEF WindowKept, KeepWindow
<1>2. w \in WindowRow /\ w.items = items
  BY DEF Window, WindowRow
<1>3. RowMoves(n, {Oldest(n)})
  BY KeepMoves
<1>4. active'[n] = "waiting"
  BY <1>1, GraphFacts DEF CoordinationInv, RowsTyped
<1>5. Len(items) # Count
  BY <1>1, LimitsPositive
<1>6. CASE m = n
  <2>1. WindowsFit(n)'
    BY <1>1, <1>4, <1>5, WindowsGrown
  <2>2. QueueIsCut(n)'
    BY <1>1, <1>2, <1>3, QueueGrown
  <2> QED BY <1>6, <2>1, <2>2
<1>7. CASE m # n
  BY <1>1, <1>2, <1>3, <1>7, WindowsOfOthers
<1> QED BY <1>6, <1>7

\* The windows when one closes.
LEMMA WindowsClosed ==
  ASSUME CoordinationInv, Live, NEW n \in Nodes, NEW taken \in BOOLEAN, NEW items \in Seq(Nat),
         NEW reason \in {"count", "timeout"}, WindowCloses(n, taken, items, reason),
         NEW m \in Aggregators
  PROVE  WindowsFit(m)' /\ QueueIsCut(m)'
<1> DEFINE w == Window("completed", items, reason)
           T == IF taken THEN {Oldest(n)} ELSE {}
<1>1. /\ n \in Aggregators /\ Grown(n, taken, items)
      /\ reason = "count" <=> taken
      /\ taken => Len(items) >= Count
      /\ active' = [active EXCEPT ![n] = "none"]
      /\ windows' = [windows EXCEPT ![n] = Append(Closed(n), w)]
  BY DEF WindowCloses
<1>2. w \in WindowRow /\ w.items = items
  BY DEF Window, WindowRow
<1>3. RowMoves(n, T)
  BY CloseMoves
<1>4. active'[n] = "none"
  BY <1>1, GraphFacts DEF CoordinationInv, RowsTyped
<1>5. taken <=> Len(items) = Count
  <2>1. Count \in Nat /\ Count >= 1
    BY LimitsPositive
  <2>2. ~Opens(n) => Len(Collected(n)) < Count
    BY <1>1, ClosedWindows
  <2>3. CASE taken
    <3>1. Len(items) = Len(Collected(n)) + 1 /\ Len(Collected(n)) \in Nat
      BY <1>1, <2>3, GrownItems
    <3>2. Opens(n) => Len(Collected(n)) = 0
      BY <1>1, ClosedWindows
    <3> QED BY <1>1, <2>1, <2>2, <2>3, <3>1, <3>2
  <2>4. CASE ~taken
    <3>1. items = Collected(n) /\ ~Opens(n)
      BY <1>1, <2>4 DEF Grown, Opens
    <3> QED BY <2>1, <2>2, <2>4, <3>1
  <2> QED BY <2>3, <2>4
<1>6. CASE m = n
  <2>1. WindowsFit(n)'
    BY <1>1, <1>4, <1>5, WindowsGrown
  <2>2. QueueIsCut(n)'
    BY <1>1, <1>2, <1>3, QueueGrown
  <2> QED BY <1>6, <2>1, <2>2
<1>7. CASE m # n
  <2> HIDE DEF w, T
  <2> QED BY <1>1, <1>2, <1>3, <1>7, WindowsOfOthers
<1> QED BY <1>6, <1>7

\* The windows of every Aggregator, whatever the transaction.
LEMMA WindowsNext ==
  ASSUME CoordinationInv, Live, StepKinds, NEW m \in Aggregators
  PROVE  WindowsFit(m)' /\ QueueIsCut(m)'
<1>1. RowsTyped /\ ActivityFits /\ m \in Nodes
  BY GraphFacts DEF CoordinationInv
<1>2. CASE Still
  <2>1. values' = values /\ windows' = windows /\ active'[m] = active[m]
    BY <1>1, <1>2 DEF Still, ActivityFits
  <2>2. Follows(values')
    BY <1>1, <2>1, SameRows DEF Keeps
  <2> QED BY <2>1, <2>2, WindowsUntouched
<1>3. CASE Ends
  BY <1>3, WindowsEnd
<1>4. CASE Completes
  <2>1. Follows(values') /\ windows' = windows /\ active' = active /\ ~Live'
    BY <1>1, <1>4, StrandedRows, SettledIsIdle DEF Completes, SettleCompleted, Keeps
  <2> QED BY <2>1, WindowsUntouched
<1>5. ASSUME NEW n \in Nodes, ExpandBegins(n) PROVE WindowsFit(m)' /\ QueueIsCut(m)'
  <2>1. RowMoves(n, {Oldest(n)}) /\ n \in Expands
    BY <1>1, <1>5, ExpandMoves DEF ExpandBegins
  <2>2. windows' = windows /\ \A x \in Nodes : x # n => active'[x] = active[x]
    BY <1>1, <1>5 DEF ExpandBegins, Begins, RowsTyped
  <2> QED BY <2>1, <2>2, WindowsStay
<1>6. ASSUME NEW n \in Nodes, NEW k \in Items, JoinBegins(n, k) PROVE WindowsFit(m)' /\ QueueIsCut(m)'
  <2>1. RowMoves(n, FirstOfKey(Buffered(n), n, k)) /\ n \in Joins
    BY <1>1, <1>6, JoinMoves DEF JoinBegins
  <2>2. windows' = windows /\ \A x \in Nodes : x # n => active'[x] = active[x]
    BY <1>1, <1>6 DEF JoinBegins, Begins, RowsTyped
  <2> QED BY <2>1, <2>2, WindowsStay
<1>7. ASSUME NEW n \in Nodes, Indexes(n) PROVE WindowsFit(m)' /\ QueueIsCut(m)'
  <2>1. RowMoves(n, {}) /\ n \in Joins /\ windows' = windows /\ active' = active
    BY <1>1, <1>7, IndexMoves DEF Indexes
  <2> QED BY <2>1, WindowsStay
<1>8. ASSUME NEW n \in Nodes, NEW items \in Seq(Items), Emits(n, items) PROVE WindowsFit(m)' /\ QueueIsCut(m)'
  <2>1. RowMoves(n, {}) /\ n \in Expands \cup Joins /\ windows' = windows
    BY <1>1, <1>8, EmitMoves DEF Emits
  <2>2. \A x \in Nodes : x # n => active'[x] = active[x]
    BY <1>1, <1>8 DEF Emits, RowsTyped
  <2> QED BY <2>1, <2>2, WindowsStay
<1>9. ASSUME NEW n \in Nodes, NEW items \in Seq(Nat), WindowKept(n, items)
      PROVE  WindowsFit(m)' /\ QueueIsCut(m)'
  BY <1>9, WindowsKept
<1>10. ASSUME NEW n \in Nodes, NEW taken \in BOOLEAN, NEW items \in Seq(Nat),
              NEW reason \in {"count", "timeout"}, WindowCloses(n, taken, items, reason)
       PROVE  WindowsFit(m)' /\ QueueIsCut(m)'
  BY <1>10, WindowsClosed
<1> QED BY <1>2, <1>3, <1>4, <1>5, <1>6, <1>7, <1>8, <1>9, <1>10 DEF StepKinds

-----------------------------------------------------------------------------
(* The pairs of a join, after each kind of transaction.                    *)

\* What a join took of a key on one port is among the values of this key and port.
LEMMA TupledRows ==
  ASSUME RowsTyped, NEW n, NEW e \in In(n), NEW k
  PROVE  /\ \A v : v \in Tupled(n, e, k) <=> v \in OfKey(e, k) /\ values[v].status = "consumed"
         /\ OfKey(e, k) \subseteq DOMAIN values /\ OfKey(e, k) \subseteq Nat
         /\ OfKey(e, k) \subseteq Ours(n)
         /\ IsFiniteSet(OfKey(e, k)) /\ IsFiniteSet(Tupled(n, e, k))
         /\ Cardinality(OfKey(e, k)) \in Nat /\ Cardinality(Tupled(n, e, k)) \in Nat
<1>1. Target[e] = n
  BY DEF In
<1>2. \A v : v \in Tupled(n, e, k) <=> v \in OfKey(e, k) /\ values[v].status = "consumed"
  BY <1>1 DEF Tupled, OfKey, On
<1>3. OfKey(e, k) \subseteq DOMAIN values /\ Tupled(n, e, k) \subseteq DOMAIN values
  BY <1>2 DEF OfKey
<1>4. values \in Seq(Value)
  BY DEF RowsTyped
<1>5. OfKey(e, k) \subseteq Ours(n)
  BY <1>1 DEF OfKey, Ours
<1> QED BY <1>2, <1>3, <1>4, <1>5, ValuesAreNumbers

\* The values of a key on a port stay, at their places.
LEMMA OfKeyStays ==
  ASSUME RowsTyped, Follows(values'), NEW e, NEW k
  PROVE  /\ OfKey(e, k) \subseteq OfKey(e, k)'
         /\ \A v \in OfKey(e, k)' : v \in DOMAIN values => v \in OfKey(e, k)
         /\ \A v \in OfKey(e, k)' : v \notin DOMAIN values => values'[v].status = "queued"
         /\ \A v \in OfKey(e, k), u \in OfKey(e, k)' : u <= v => u \in OfKey(e, k)
         /\ \A v \in OfKey(e, k) : Rank(OfKey(e, k)', v) = Rank(OfKey(e, k), v)
<1>1. /\ DOMAIN values = 1 .. Len(values) /\ DOMAIN values' = 1 .. Len(values')
      /\ Len(values) \in Nat /\ Len(values') \in Nat /\ Len(values) <= Len(values')
      /\ \A v \in DOMAIN values : v \in DOMAIN values' /\ values'[v].edge = values[v].edge
      /\ \A v \in DOMAIN values : values'[v].item = values[v].item
      /\ \A v \in DOMAIN values' : v \notin DOMAIN values => values'[v].status = "queued"
  BY FollowedRows DEF Follows
<1>2. OfKey(e, k) \subseteq OfKey(e, k)'
  BY <1>1 DEF OfKey
<1>3. \A v \in OfKey(e, k)' : v \in DOMAIN values => v \in OfKey(e, k)
  BY <1>1 DEF OfKey
<1>4. \A v \in OfKey(e, k)' : v \notin DOMAIN values => values'[v].status = "queued"
  BY <1>1 DEF OfKey
<1>5. ASSUME NEW v \in OfKey(e, k), NEW u \in OfKey(e, k)', u <= v PROVE u \in OfKey(e, k)
  <2>1. v \in 1 .. Len(values) /\ u \in 1 .. Len(values')
    BY <1>1 DEF OfKey
  <2>2. u \in DOMAIN values
    BY <1>1, <1>5, <2>1
  <2> QED BY <1>3, <2>2
<1>6. ASSUME NEW v \in OfKey(e, k) PROVE Rank(OfKey(e, k)', v) = Rank(OfKey(e, k), v)
  <2>1. \A u \in OfKey(e, k)' : u <= v => u \in OfKey(e, k)
    BY <1>5
  <2> QED BY <1>2, <2>1, RanksStay
<1> QED BY <1>2, <1>3, <1>4, <1>5, <1>6

\* The values a join took of a key on a port, when none was added.
LEMMA TupledStays ==
  ASSUME RowsTyped, RowsTyped', Follows(values'), NEW n, NEW e \in In(n), NEW k,
         \A v \in OfKey(e, k) : values'[v].status = "consumed" <=> values[v].status = "consumed"
  PROVE  Tupled(n, e, k)' = Tupled(n, e, k)
<1>1. \A v : v \in Tupled(n, e, k) <=> v \in OfKey(e, k) /\ values[v].status = "consumed"
  BY TupledRows
<1>2. \A v : v \in Tupled(n, e, k)' <=> v \in OfKey(e, k)' /\ values'[v].status = "consumed"
  BY DEF Tupled, OfKey, On, In
<1> QED BY <1>1, <1>2, OfKeyStays, TupledRows

\* A key of a join no value of which was taken.
LEMMA KeyUntouched ==
  ASSUME CoordinationInv, Live, RowsTyped', NEW m \in Joins, Follows(values'), NEW k \in Items \ BadItems,
         \A v \in Ours(m) : values[v].item = k =>
           /\ values'[v].status = "consumed" <=> values[v].status = "consumed"
           /\ values[v].status = "consumed" => values'[v].by = values[v].by,
         NEW d \in In(m), NEW e \in In(m)
  PROVE  /\ \A v \in Tupled(m, d, k)', u \in Tupled(m, e, k)' :
              values'[v].by = values'[u].by <=> Rank(OfKey(d, k)', v) = Rank(OfKey(e, k)', u)
         /\ Cardinality(Tupled(m, d, k)') = Cardinality(Tupled(m, e, k)')
         /\ \A v \in Tupled(m, e, k)', u \in OfKey(e, k)' : u < v => u \in Tupled(m, e, k)'
<1>1. RowsTyped /\ PairsFit(m)
  BY DEF CoordinationInv
<1>2. /\ \A v \in Tupled(m, d, k), u \in Tupled(m, e, k) :
           values[v].by = values[u].by <=> Rank(OfKey(d, k), v) = Rank(OfKey(e, k), u)
      /\ Cardinality(Tupled(m, d, k)) = Cardinality(Tupled(m, e, k))
      /\ \A v \in Tupled(m, e, k), u \in OfKey(e, k) : u < v => u \in Tupled(m, e, k)
  BY <1>1 DEF PairsFit
<1>3. ASSUME NEW x \in In(m)
      PROVE  /\ Tupled(m, x, k)' = Tupled(m, x, k)
             /\ \A v \in Tupled(m, x, k) : /\ values'[v].by = values[v].by
                                           /\ v \in OfKey(x, k) /\ v \in Nat
                                           /\ Rank(OfKey(x, k)', v) = Rank(OfKey(x, k), v)
             /\ \A v \in OfKey(x, k), u \in OfKey(x, k)' : u <= v => u \in OfKey(x, k)
  <2>1. /\ \A v : v \in Tupled(m, x, k) <=> v \in OfKey(x, k) /\ values[v].status = "consumed"
        /\ OfKey(x, k) \subseteq Ours(m) /\ OfKey(x, k) \subseteq Nat
    BY <1>1, TupledRows
  <2>2. \A v \in OfKey(x, k) : values[v].item = k
    BY DEF OfKey
  <2>3. \A v \in OfKey(x, k) : /\ values'[v].status = "consumed" <=> values[v].status = "consumed"
                               /\ values[v].status = "consumed" => values'[v].by = values[v].by
    BY <2>1, <2>2
  <2>4. Tupled(m, x, k)' = Tupled(m, x, k)
    BY <1>1, <2>3, TupledStays
  <2> QED BY <1>1, <2>1, <2>3, <2>4, OfKeyStays
<1>4. \A v \in Tupled(m, d, k)', u \in Tupled(m, e, k)' :
        values'[v].by = values'[u].by <=> Rank(OfKey(d, k)', v) = Rank(OfKey(e, k)', u)
  BY <1>2, <1>3
<1>5. ASSUME NEW v \in Tupled(m, e, k)', NEW u \in OfKey(e, k)', u < v PROVE u \in Tupled(m, e, k)'
  <2>1. v \in Tupled(m, e, k) /\ v \in OfKey(e, k) /\ v \in Nat
    BY <1>3
  <2>2. u \in Nat
    <3>1. values' \in Seq(Value)
      BY DEF RowsTyped
    <3>2. u \in DOMAIN values'
      BY DEF OfKey
    <3> QED BY <3>1, <3>2
  <2>3. u \in OfKey(e, k)
    BY <1>3, <1>5, <2>1, <2>2
  <2> QED BY <1>2, <1>3, <1>5, <2>1, <2>3
<1> QED BY <1>2, <1>3, <1>4, <1>5

\* A join none of whose values with a key was taken.
LEMMA PairsUntouched ==
  ASSUME CoordinationInv, Live, RowsTyped', NEW m \in Joins, Follows(values'),
         \A v \in Ours(m) : values[v].item \notin BadItems =>
           /\ values'[v].status = "consumed" <=> values[v].status = "consumed"
           /\ values[v].status = "consumed" => values'[v].by = values[v].by
  PROVE  PairsFit(m)'
<1>1. ASSUME NEW k \in Items \ BadItems, NEW d \in In(m), NEW e \in In(m)
      PROVE  /\ \A v \in Tupled(m, d, k)', u \in Tupled(m, e, k)' :
                  values'[v].by = values'[u].by <=> Rank(OfKey(d, k)', v) = Rank(OfKey(e, k)', u)
             /\ Cardinality(Tupled(m, d, k)') = Cardinality(Tupled(m, e, k)')
             /\ \A v \in Tupled(m, e, k)', u \in OfKey(e, k)' : u < v => u \in Tupled(m, e, k)'
  <2>1. \A v \in Ours(m) : values[v].item = k =>
          /\ values'[v].status = "consumed" <=> values[v].status = "consumed"
          /\ values[v].status = "consumed" => values'[v].by = values[v].by
    OBVIOUS
  <2> QED BY <2>1, KeyUntouched
<1>2. \A e : e \in In(m)' <=> e \in In(m)
  BY DEF In
<1> QED BY <1>1, <1>2 DEF PairsFit

\* The value a join takes on a port is the next of its key there: as many came before it
\* as were taken.
LEMMA FirstIsNext ==
  ASSUME CoordinationInv, Live, NEW n \in Joins, NEW k \in Items \ BadItems, Complete(Buffered(n), n, k),
         NEW e \in In(n), NEW f, f = Min({v \in Buffered(n) : values[v].edge = e /\ values[v].item = k})
  PROVE  /\ f \in FirstOfKey(Buffered(n), n, k) /\ f \in OfKey(e, k) /\ f \notin Tupled(n, e, k)
         /\ {u \in OfKey(e, k) : u <= f} = Tupled(n, e, k) \cup {f}
         /\ Rank(OfKey(e, k), f) = Cardinality(Tupled(n, e, k)) + 1
         /\ \A v \in Tupled(n, e, k) : Rank(OfKey(e, k), v) < Rank(OfKey(e, k), f)
         /\ \A v \in FirstOfKey(Buffered(n), n, k) : v \in OfKey(e, k) => v = f
<1> DEFINE A == Tupled(n, e, k)
           K == OfKey(e, k)
           F == FirstOfKey(Buffered(n), n, k)
<1>1. RowsTyped /\ ValuesFit /\ PairsFit(n)
  BY DEF CoordinationInv
<1>2. Buffered(n) \subseteq DOMAIN values
  BY DEF Buffered, On
<1>3. /\ f \in F /\ f \in Buffered(n) /\ values[f].edge = e /\ values[f].item = k
      /\ \A v \in Buffered(n) : values[v].edge = e /\ values[v].item = k => f <= v
      /\ \A v \in F : values[v].edge = e => v = f
  BY <1>1, <1>2, FirstsOfKey
<1>4. /\ \A v : v \in A <=> v \in K /\ values[v].status = "consumed"
      /\ K \subseteq DOMAIN values /\ K \subseteq Nat /\ K \subseteq Ours(n)
      /\ IsFiniteSet(K) /\ IsFiniteSet(A) /\ Cardinality(A) \in Nat
  BY <1>1, TupledRows
<1>5. f \in K /\ f \notin A
  BY <1>2, <1>3, <1>4 DEF OfKey, Buffered, On
<1>6. \A v \in A, u \in K : u < v => u \in A
  BY <1>1 DEF PairsFit
<1>7. ASSUME NEW u \in K, u <= f PROVE u \in A \/ u = f
  <2>1. u \in DOMAIN values /\ values[u].edge = e /\ values[u].item = k /\ Target[values[u].edge] = n
    BY <1>4 DEF OfKey, Ours
  <2>2. CASE values[u].status = "consumed"
    BY <1>4, <2>2
  <2>3. CASE values[u].status # "consumed"
    <3>1. values[u].status \in {"queued", "indexed"}
      BY <1>1, <2>1, <2>3 DEF ValuesFit
    <3>2. u \in Buffered(n)
      BY <2>1, <3>1 DEF Buffered, On
    <3>3. f <= u /\ u \in Nat /\ f \in Nat
      BY <1>3, <1>4, <1>5, <2>1, <3>2
    <3> QED BY <1>7, <3>3
  <2> QED BY <2>2, <2>3
<1>8. ASSUME NEW u \in A PROVE u < f
  <2>1. u \in K /\ u \in Nat /\ f \in Nat /\ u # f
    BY <1>4, <1>5
  <2>2. ~(f < u)
    BY <1>5, <1>6
  <2> QED BY <2>1, <2>2
<1>9. {u \in K : u <= f} = A \cup {f}
  <2>1. f <= f
    BY <1>4, <1>5
  <2>2. \A u \in A : u <= f /\ u \in K
    BY <1>4, <1>5, <1>8
  <2> QED BY <1>5, <1>7, <2>1, <2>2
<1>10. Rank(K, f) = Cardinality(A) + 1
  <2>1. Cardinality(A \cup {f}) = Cardinality(A) + 1
    BY <1>4, <1>5, FS_AddElement
  <2> QED BY <1>9, <2>1 DEF Rank
<1>11. ASSUME NEW v \in A PROVE Rank(K, v) < Rank(K, f)
  BY <1>4, <1>5, <1>8, RankIsMonotone
<1>12. \A v \in F : v \in K => v = f
  BY <1>3 DEF OfKey
<1> QED BY <1>3, <1>5, <1>9, <1>10, <1>11, <1>12

\* The pairs of the join that has begun, of the key it took.
LEMMA PairsOfTuple ==
  ASSUME CoordinationInv, Live, RowsTyped', NEW n \in Joins, NEW k \in Items \ BadItems, JoinBegins(n, k),
         NEW d \in In(n), NEW e \in In(n)
  PROVE  /\ \A v \in Tupled(n, d, k)', u \in Tupled(n, e, k)' :
              values'[v].by = values'[u].by <=> Rank(OfKey(d, k)', v) = Rank(OfKey(e, k)', u)
         /\ Cardinality(Tupled(n, d, k)') = Cardinality(Tupled(n, e, k)')
         /\ \A v \in Tupled(n, e, k)', u \in OfKey(e, k)' : u < v => u \in Tupled(n, e, k)'
<1> DEFINE F == FirstOfKey(Buffered(n), n, k)
           f(x) == Min({v \in Buffered(n) : values[v].edge = x /\ values[v].item = k})
<1>1. RowsTyped /\ ValuesFit /\ PairsFit(n) /\ n \in Nodes
  BY GraphFacts DEF CoordinationInv
<1>2. /\ RowMoves(n, F) /\ Complete(Buffered(n), n, k) /\ Follows(values')
      /\ seqs' = NextSeq(n) /\ seqs[n] + 1 <= MaxActivations
  <2>1. RowMoves(n, F)
    BY <1>1, JoinMoves
  <2>2. Follows(values')
    BY <2>1 DEF RowMoves
  <2>3. Complete(Buffered(n), n, k) /\ Begins(n, F)
    BY DEF JoinBegins
  <2> HIDE DEF F
  <2> QED BY <2>1, <2>2, <2>3 DEF Begins
<1>3. seqs'[n] = seqs[n] + 1 /\ seqs[n] \in Nat
  BY <1>1, <1>2, SeqsNext, LimitsPositive DEF RowsTyped
<1>4. /\ \A v \in Tupled(n, d, k), u \in Tupled(n, e, k) :
           values[v].by = values[u].by <=> Rank(OfKey(d, k), v) = Rank(OfKey(e, k), u)
      /\ Cardinality(Tupled(n, d, k)) = Cardinality(Tupled(n, e, k))
  BY <1>1 DEF PairsFit
<1>5. ASSUME NEW x \in In(n)
      PROVE  /\ f(x) \notin Tupled(n, x, k) /\ f(x) \in OfKey(x, k)
             /\ Tupled(n, x, k)' = Tupled(n, x, k) \cup {f(x)}
             /\ \A v \in Tupled(n, x, k) : values'[v].by = values[v].by /\ values[v].by <= seqs[n]
             /\ \A v \in Tupled(n, x, k) : values[v].by \in Nat
             /\ values'[f(x)].by = seqs[n] + 1
             /\ Rank(OfKey(x, k), f(x)) = Cardinality(Tupled(n, x, k)) + 1
             /\ \A v \in Tupled(n, x, k) : Rank(OfKey(x, k), v) < Rank(OfKey(x, k), f(x))
             /\ \A v \in OfKey(x, k) : Rank(OfKey(x, k)', v) = Rank(OfKey(x, k), v)
             /\ \A v \in OfKey(x, k) : Rank(OfKey(x, k), v) \in Nat
             /\ Tupled(n, x, k) \subseteq OfKey(x, k)
             /\ IsFiniteSet(Tupled(n, x, k)) /\ Cardinality(Tupled(n, x, k)) \in Nat
             /\ {u \in OfKey(x, k) : u <= f(x)} = Tupled(n, x, k) \cup {f(x)}
  <2> DEFINE A == Tupled(n, x, k)
             K == OfKey(x, k)
             y == f(x)
  <2>1. /\ y \in F /\ y \in K /\ y \notin A
        /\ {u \in K : u <= y} = A \cup {y}
        /\ Rank(K, y) = Cardinality(A) + 1
        /\ \A v \in A : Rank(K, v) < Rank(K, y)
        /\ \A v \in F : v \in K => v = y
    BY <1>1, <1>2, FirstIsNext
  <2>2. /\ \A v : v \in A <=> v \in K /\ values[v].status = "consumed"
        /\ K \subseteq DOMAIN values /\ K \subseteq Nat /\ K \subseteq Ours(n)
        /\ IsFiniteSet(K) /\ IsFiniteSet(A) /\ Cardinality(A) \in Nat
    BY <1>1, TupledRows
  <2>3. /\ K \subseteq K'
        /\ \A v \in K' : v \in DOMAIN values => v \in K
        /\ \A v \in K' : v \notin DOMAIN values => values'[v].status = "queued"
        /\ \A v \in K : Rank(K', v) = Rank(K, v)
    BY <1>1, <1>2, OfKeyStays
  <2>4. \A v : v \in A' <=> v \in K' /\ values'[v].status = "consumed"
    BY DEF Tupled, OfKey, On, In
  <2>5. /\ values'[y].status = "consumed" /\ values'[y].by = seqs[n] + 1
        /\ \A v \in K : v # y => /\ values'[v].by = values[v].by
                                 /\ values'[v].status = "consumed" <=> values[v].status = "consumed"
    <3>1. \A v \in K : v # y => v \in DOMAIN values /\ v \notin F
      BY <2>1, <2>2
    <3>2. \A v \in F : values'[v].status = "consumed" /\ values'[v].by = seqs'[n]
      BY <1>2 DEF RowMoves
    <3>3. \A v \in DOMAIN values : v \notin F =>
            /\ values'[v].by = values[v].by
            /\ values'[v].status = values[v].status
               \/ (values[v].status = "queued" /\ values'[v].status = "indexed")
      BY <1>2 DEF RowMoves, On
    <3> HIDE DEF F, y
    <3>4. ASSUME NEW v \in K, v # y
          PROVE  /\ values'[v].by = values[v].by
                 /\ values'[v].status = "consumed" <=> values[v].status = "consumed"
      BY <3>1, <3>3, <3>4
    <3> QED BY <1>3, <2>1, <3>2, <3>4
  <2>6. A' = A \cup {y}
    <3> HIDE DEF y, A, K
    <3>1. ASSUME NEW v \in A' PROVE v \in A \cup {y}
      BY <2>2, <2>3, <2>4, <2>5, <3>1
    <3>2. ASSUME NEW v \in A \cup {y} PROVE v \in A'
      BY <2>1, <2>2, <2>3, <2>4, <2>5, <3>2
    <3> QED BY <3>1, <3>2
  <2>7. ASSUME NEW v \in A
        PROVE  values'[v].by = values[v].by /\ values[v].by <= seqs[n] /\ values[v].by \in Nat
    <3>1. v \in K /\ v \in DOMAIN values /\ v # y /\ v \in Ours(n)
      BY <2>1, <2>2
    <3>2. values[v].by <= seqs[n]
      BY <1>1, <3>1 DEF ValuesFit, Ours
    <3>3. values[v].by \in Nat
      BY <1>1, <3>1, ValueRow, LimitsPositive
    <3> QED BY <2>5, <3>1, <3>2, <3>3
  <2>8. ASSUME NEW v \in K PROVE Rank(K, v) \in Nat
    <3>1. Rank(K, v) \in 1 .. Cardinality(K)
      BY <2>2, RankBounds
    <3> QED BY <3>1
  <2> QED BY <2>1, <2>2, <2>3, <2>5, <2>6, <2>7, <2>8
<1> HIDE DEF f, F
<1>6. ASSUME NEW v \in Tupled(n, d, k)', NEW u \in Tupled(n, e, k)'
      PROVE  values'[v].by = values'[u].by <=> Rank(OfKey(d, k)', v) = Rank(OfKey(e, k)', u)
  <2> DEFINE rd(x) == Rank(OfKey(d, k), x)
             re(x) == Rank(OfKey(e, k), x)
  <2>1. /\ v \in Tupled(n, d, k) \/ v = f(d)
        /\ u \in Tupled(n, e, k) \/ u = f(e)
    BY <1>5
  <2>2. /\ Rank(OfKey(d, k)', v) = rd(v) /\ Rank(OfKey(e, k)', u) = re(u)
        /\ rd(v) \in Nat /\ re(u) \in Nat
    BY <1>5, <2>1
  <2>3. rd(f(d)) = re(f(e)) /\ rd(f(d)) \in Nat
    BY <1>4, <1>5
  <2>4. CASE v = f(d) /\ u = f(e)
    <3>1. values'[v].by = seqs[n] + 1 /\ values'[u].by = seqs[n] + 1
      BY <1>5, <2>4
    <3> QED BY <2>2, <2>3, <2>4, <3>1
  <2>5. CASE v \in Tupled(n, d, k) /\ u = f(e)
    <3>1. rd(v) < rd(f(d)) /\ values'[v].by = values[v].by /\ values[v].by <= seqs[n]
          /\ values[v].by \in Nat /\ values'[u].by = seqs[n] + 1
      BY <1>5, <2>5
    <3>2. re(u) = rd(f(d))
      BY <2>3, <2>5
    <3> HIDE DEF rd, re
    <3>3. rd(v) # re(u) /\ values'[v].by # values'[u].by
      BY <1>3, <2>2, <2>3, <3>1, <3>2
    <3> QED BY <2>2, <3>3
  <2>6. CASE v = f(d) /\ u \in Tupled(n, e, k)
    <3>1. re(u) < re(f(e)) /\ values'[u].by = values[u].by /\ values[u].by <= seqs[n]
          /\ values[u].by \in Nat /\ values'[v].by = seqs[n] + 1
      BY <1>5, <2>6
    <3>2. rd(v) = re(f(e)) /\ re(f(e)) \in Nat
      BY <2>3, <2>6
    <3> HIDE DEF rd, re
    <3>3. rd(v) # re(u) /\ values'[v].by # values'[u].by
      BY <1>3, <2>2, <3>1, <3>2
    <3> QED BY <2>2, <3>3
  <2>7. CASE v \in Tupled(n, d, k) /\ u \in Tupled(n, e, k)
    <3>1. values'[v].by = values[v].by /\ values'[u].by = values[u].by
      BY <1>5, <2>7
    <3> QED BY <1>4, <2>2, <2>7, <3>1
  <2> QED BY <2>1, <2>4, <2>5, <2>6, <2>7
<1>7. ASSUME NEW x \in In(n) PROVE Cardinality(Tupled(n, x, k)') = Cardinality(Tupled(n, x, k)) + 1
  BY <1>5, FS_AddElement
<1>8. Cardinality(Tupled(n, d, k)') = Cardinality(Tupled(n, e, k)')
  BY <1>4, <1>7
<1>9. ASSUME NEW v \in Tupled(n, e, k)', NEW u \in OfKey(e, k)', u < v PROVE u \in Tupled(n, e, k)'
  <2>1. v \in Tupled(n, e, k) \/ v = f(e)
    BY <1>5
  <2>2. v \in OfKey(e, k) /\ OfKey(e, k) \subseteq Nat
    BY <1>1, <1>5, <2>1, TupledRows
  <2>3. u \in Nat
    <3>1. values' \in Seq(Value) /\ u \in DOMAIN values'
      BY DEF RowsTyped, OfKey
    <3> QED BY <3>1
  <2>4. u <= v
    BY <1>9, <2>2, <2>3
  <2>5. u \in OfKey(e, k)
    BY <1>1, <1>2, <2>2, <2>4, OfKeyStays
  <2>6. CASE v \in Tupled(n, e, k)
    <3>1. u \in Tupled(n, e, k)
      BY <1>1, <1>9, <2>5, <2>6 DEF PairsFit
    <3> QED BY <1>5, <3>1
  <2>7. CASE v = f(e)
    <3>1. u \in {y \in OfKey(e, k) : y <= f(e)}
      BY <2>4, <2>5, <2>7
    <3> QED BY <1>5, <3>1
  <2> QED BY <2>1, <2>6, <2>7
<1> QED BY <1>6, <1>8, <1>9

\* The pairs of every join, when the join n has begun.
LEMMA PairsBegun ==
  ASSUME CoordinationInv, Live, RowsTyped', NEW n \in Nodes, NEW k \in Items, JoinBegins(n, k), NEW m \in Joins
  PROVE  PairsFit(m)'
<1> DEFINE F == FirstOfKey(Buffered(n), n, k)
<1>1. RowsTyped
  BY DEF CoordinationInv
<1>2. n \in Joins /\ k \in Items \ BadItems /\ Complete(Buffered(n), n, k)
  BY DEF JoinBegins
<1>3. RowMoves(n, F)
  BY <1>1, JoinMoves
<1>4. Follows(values')
  BY <1>3 DEF RowMoves
<1>5. CASE m # n
  <2>1. \A v \in Ours(m) : values'[v].status = values[v].status /\ values'[v].by = values[v].by
    BY <1>1, <1>3, <1>5, OthersStay
  <2> QED BY <1>4, <2>1, PairsUntouched
<1>6. CASE m = n
  <2>1. \A v \in F : values[v].item = k
    <3>1. Buffered(n) \subseteq DOMAIN values
      BY DEF Buffered, On
    <3> QED BY <1>1, <1>2, <3>1, FirstsOfKey
  <2>2. \A v \in Ours(n) : values[v].item # k =>
          /\ values'[v].by = values[v].by
          /\ values'[v].status = "consumed" <=> values[v].status = "consumed"
    <3>1. \A v \in DOMAIN values : v \notin F =>
            /\ values'[v].by = values[v].by
            /\ values'[v].status = values[v].status
               \/ (values[v].status = "queued" /\ values'[v].status = "indexed")
      BY <1>3 DEF RowMoves, On
    <3>2. \A v \in Ours(n) : v \in DOMAIN values
      BY DEF Ours
    <3> HIDE DEF F
    <3> QED BY <2>1, <3>1, <3>2
  <2> HIDE DEF F
  <2>3. ASSUME NEW j \in Items \ BadItems, NEW d \in In(n), NEW e \in In(n)
        PROVE  /\ \A v \in Tupled(n, d, j)', u \in Tupled(n, e, j)' :
                    values'[v].by = values'[u].by <=> Rank(OfKey(d, j)', v) = Rank(OfKey(e, j)', u)
               /\ Cardinality(Tupled(n, d, j)') = Cardinality(Tupled(n, e, j)')
               /\ \A v \in Tupled(n, e, j)', u \in OfKey(e, j)' : u < v => u \in Tupled(n, e, j)'
    <3>1. CASE j = k
      BY <1>2, <3>1, PairsOfTuple
    <3>2. CASE j # k
      <4>1. \A v \in Ours(n) : values[v].item = j =>
              /\ values'[v].status = "consumed" <=> values[v].status = "consumed"
              /\ values[v].status = "consumed" => values'[v].by = values[v].by
        BY <2>2, <3>2
      <4> QED BY <1>2, <1>4, <4>1, KeyUntouched
    <3> QED BY <3>1, <3>2
  <2>4. \A e : e \in In(n)' <=> e \in In(n)
    BY DEF In
  <2> QED BY <1>6, <2>3, <2>4 DEF PairsFit
<1> QED BY <1>5, <1>6

\* The pairs of every join, when no value was taken for one.
LEMMA PairsStay ==
  ASSUME CoordinationInv, Live, RowsTyped', NEW n \in Nodes, NEW T, RowMoves(n, T), n \notin Joins \/ T = {},
         NEW m \in Joins
  PROVE  PairsFit(m)'
<1>1. RowsTyped /\ Follows(values')
  BY DEF CoordinationInv, RowMoves
<1>2. CASE m # n
  <2>1. \A v \in Ours(m) : values'[v].status = values[v].status /\ values'[v].by = values[v].by
    BY <1>1, <1>2, OthersStay
  <2> QED BY <1>1, <2>1, PairsUntouched
<1>3. CASE m = n
  <2>1. \A v \in DOMAIN values :
          /\ values'[v].by = values[v].by
          /\ values'[v].status = values[v].status
             \/ (values[v].status = "queued" /\ values'[v].status = "indexed")
    BY <1>3 DEF RowMoves, On
  <2>2. \A v \in Ours(m) : v \in DOMAIN values
    BY DEF Ours
  <2>3. \A v \in Ours(m) : /\ values'[v].status = "consumed" <=> values[v].status = "consumed"
                           /\ values'[v].by = values[v].by
    BY <2>1, <2>2
  <2> QED BY <1>1, <2>3, PairsUntouched
<1> QED BY <1>2, <1>3

\* The pairs of every join, when the run has ended: only a value without a key was taken.
LEMMA PairsEnd ==
  ASSUME CoordinationInv, Live, RowsTyped', Ends, NEW m \in Joins
  PROVE  PairsFit(m)'
<1>1. RowsTyped /\ Follows(values')
  BY DEF CoordinationInv, Ends, Keeps
<1>2. PICK n \in Slots : \E T \in SUBSET On(n, "queued") :
        /\ n \in Joins => \A v \in T : values[v].item \in BadItems
        /\ \A v \in DOMAIN values : v \notin T =>
             /\ values'[v].by = values[v].by
             /\ values'[v].status = "consumed" <=> values[v].status = "consumed"
  BY DEF Ends
<1>3. PICK T \in SUBSET On(n, "queued") :
        /\ n \in Joins => \A v \in T : values[v].item \in BadItems
        /\ \A v \in DOMAIN values : v \notin T =>
             /\ values'[v].by = values[v].by
             /\ values'[v].status = "consumed" <=> values[v].status = "consumed"
  BY <1>2
<1>4. ASSUME NEW v \in Ours(m), values[v].item \notin BadItems
      PROVE  /\ values'[v].status = "consumed" <=> values[v].status = "consumed"
             /\ values'[v].by = values[v].by
  <2>1. v \in DOMAIN values /\ Target[values[v].edge] = m
    BY DEF Ours
  <2>2. v \notin T
    BY <1>3, <1>4, <2>1 DEF On
  <2> QED BY <1>3, <2>1, <2>2
<1> QED BY <1>1, <1>4, PairsUntouched

\* The pairs of every join, whatever the transaction.
LEMMA PairsNext ==
  ASSUME CoordinationInv, Live, StepKinds, RowsTyped', NEW m \in Joins
  PROVE  PairsFit(m)'
<1>1. RowsTyped
  BY DEF CoordinationInv
<1>2. CASE Still
  <2>1. Follows(values') /\ values' = values
    BY <1>1, <1>2, SameRows DEF Still, Keeps
  <2> QED BY <2>1, PairsUntouched
<1>3. CASE Ends
  BY <1>3, PairsEnd
<1>4. CASE Completes
  <2>1. Keeps(values') /\ values' = Stranded
    BY <1>1, <1>4, StrandedRows DEF Completes, SettleCompleted
  <2>2. \A v \in DOMAIN values :
          /\ values'[v].by = values[v].by
          /\ values'[v].status = values[v].status
             \/ (values[v].status = "indexed" /\ values'[v].status = "stranded")
    BY <1>1, <2>1, StrandedRows
  <2>3. \A v \in Ours(m) : v \in DOMAIN values
    BY DEF Ours
  <2>4. \A v \in Ours(m) : /\ values'[v].status = "consumed" <=> values[v].status = "consumed"
                           /\ values'[v].by = values[v].by
    BY <2>2, <2>3
  <2>5. Follows(values')
    BY <2>1 DEF Keeps
  <2> QED BY <2>4, <2>5, PairsUntouched
<1>5. ASSUME NEW n \in Nodes, ExpandBegins(n) PROVE PairsFit(m)'
  <2>1. RowMoves(n, {Oldest(n)}) /\ n \notin Joins
    BY <1>1, <1>5, ExpandMoves, GraphFacts DEF ExpandBegins
  <2> QED BY <2>1, PairsStay
<1>6. ASSUME NEW n \in Nodes, NEW k \in Items, JoinBegins(n, k) PROVE PairsFit(m)'
  BY <1>6, PairsBegun
<1>7. ASSUME NEW n \in Nodes, Indexes(n) PROVE PairsFit(m)'
  BY <1>1, <1>7, IndexMoves, PairsStay
<1>8. ASSUME NEW n \in Nodes, NEW items \in Seq(Items), Emits(n, items) PROVE PairsFit(m)'
  BY <1>1, <1>8, EmitMoves, PairsStay
<1>9. ASSUME NEW n \in Nodes, NEW items \in Seq(Nat), WindowKept(n, items) PROVE PairsFit(m)'
  <2>1. RowMoves(n, {Oldest(n)}) /\ n \notin Joins
    BY <1>9, KeepMoves, GraphFacts DEF WindowKept
  <2> QED BY <2>1, PairsStay
<1>10. ASSUME NEW n \in Nodes, NEW taken \in BOOLEAN, NEW items \in Seq(Nat),
              NEW reason \in {"count", "timeout"}, WindowCloses(n, taken, items, reason)
       PROVE  PairsFit(m)'
  <2> DEFINE T == IF taken THEN {Oldest(n)} ELSE {}
  <2>1. RowMoves(n, T)
    BY <1>10, CloseMoves
  <2>2. n \notin Joins
    BY <1>10, GraphFacts DEF WindowCloses
  <2> HIDE DEF T
  <2> QED BY <2>1, <2>2, PairsStay
<1> QED BY <1>2, <1>3, <1>4, <1>5, <1>6, <1>7, <1>8, <1>9, <1>10 DEF StepKinds

-----------------------------------------------------------------------------
(* Who could begin has a wakeup, after each kind of transaction.           *)

\* Whether a join could begin depends on what is buffered.
LEMMA ReadyOfBuffered ==
  ASSUME RowsTyped, Follows(values'), NEW m \in Joins, Buffered(m)' = Buffered(m)
  PROVE  Ready(m)' <=> Ready(m)
<1>1. Buffered(m) \subseteq DOMAIN values
  BY DEF Buffered, On
<1>2. \A v \in Buffered(m) : values'[v].edge = values[v].edge /\ values'[v].item = values[v].item
  BY <1>1 DEF Follows
<1>3. \A k : Complete(Buffered(m), m, k)' <=> Complete(Buffered(m), m, k)
  BY <1>2 DEF Complete, In
<1> QED BY <1>3 DEF Ready

\* A node none of whose values changed, and which got none.
LEMMA ReadyUntouched ==
  ASSUME RowsTyped, Follows(values'), NEW m \in Nodes,
         \A v \in Ours(m) : values'[v].status = values[v].status,
         \A v \in DOMAIN values' : v \notin DOMAIN values => Target[values'[v].edge] # m
  PROVE  Ready(m)' <=> Ready(m)
<1>1. /\ DOMAIN values \subseteq DOMAIN values'
      /\ \A v \in DOMAIN values : values'[v].edge = values[v].edge
  BY FollowedRows DEF Follows
<1>2. ASSUME NEW status PROVE On(m, status)' = On(m, status)
  <2>1. ASSUME NEW v \in On(m, status)' PROVE v \in On(m, status)
    <3>1. v \in DOMAIN values' /\ Target[values'[v].edge] = m /\ values'[v].status = status
      BY DEF On
    <3>2. v \in DOMAIN values
      BY <3>1
    <3>3. v \in Ours(m)
      BY <1>1, <3>1, <3>2 DEF Ours
    <3> QED BY <3>1, <3>2, <3>3 DEF On, Ours
  <2>2. ASSUME NEW v \in On(m, status) PROVE v \in On(m, status)'
    <3>1. v \in DOMAIN values /\ Target[values[v].edge] = m /\ values[v].status = status
      BY DEF On
    <3>2. v \in Ours(m)
      BY <3>1 DEF Ours
    <3> QED BY <1>1, <3>1, <3>2 DEF On
  <2> QED BY <2>1, <2>2
<1>3. Buffered(m)' = Buffered(m) /\ On(m, "queued")' = On(m, "queued")
  BY <1>2 DEF Buffered
<1>4. CASE m \in Joins
  BY <1>3, <1>4, ReadyOfBuffered
<1>5. CASE m \notin Joins
  BY <1>3, <1>5 DEF Ready
<1> QED BY <1>4, <1>5

\* A wakeup that is done takes none from another node.
LEMMA ServedOthers ==
  ASSUME RowsTyped, NEW n \in Nodes, NEW S, wakeups' = Served(n, S)
  PROVE  \A m \in Nodes : m # n => Slack(m)' >= Slack(m) /\ Slack(m) \in Nat
<1>1. /\ \A s \in Slots : wakeups.pending[s] \in Nat /\ wakeups.claimed[s] \in Nat
      /\ wakeups.claimed \in [Slots -> Nat]
  BY DEF RowsTyped, Calls
<1>2. ASSUME NEW m \in Nodes, m # n PROVE Slack(m)' >= Slack(m) /\ Slack(m) \in Nat
  <2>1. m \in Slots /\ n \in Slots
    BY GraphFacts
  <2>2. wakeups'.pending[m] = wakeups.pending[m] + IF m \in S THEN 1 ELSE 0
    BY <2>1 DEF Served
  <2>3. wakeups'.claimed[m] = wakeups.claimed[m]
    BY <1>1, <1>2, <2>1 DEF Served
  <2> QED BY <1>1, <2>1, <2>2, <2>3 DEF Slack
<1> QED BY <1>2

\* The run runs on and the wakeups of the other nodes are still there; n is at work, was
\* served, or has a wakeup.
LEMMA WokenStays ==
  ASSUME CoordinationInv, Live, run'.halts = run.halts, run'.status = "running",
         NEW n \in Nodes, NEW T, RowMoves(n, T), NEW D, D \subseteq Nodes,
         \A v \in DOMAIN values' : v \notin DOMAIN values => Target[values'[v].edge] \in D,
         \A m \in Nodes : m # n => active'[m] = active[m],
         \A m \in Nodes : m # n => Slack(m)' >= Slack(m) /\ Slack(m)' \in Int,
         \A m \in D : Slack(m)' > 0,
         active'[n] = "none" /\ Ready(n)' => Slack(n)' > 0
  PROVE  ReadyIsWoken'
<1>1. RowsTyped /\ ReadyIsWoken /\ Follows(values')
  BY DEF CoordinationInv, RowMoves
<1>2. ASSUME run'.halts = 0, NEW m \in Nodes, active'[m] = "none", Ready(m)' PROVE Slack(m)' > 0
  <2>1. CASE m # n /\ m \notin D
    <3>1. \A v \in Ours(m) : values'[v].status = values[v].status
      BY <1>1, <2>1, OthersStay
    <3>2. Ready(m)
      BY <1>1, <1>2, <2>1, <3>1, ReadyUntouched
    <3>3. active[m] = "none"
      BY <1>2, <2>1
    <3>4. Slack(m) > 0
      BY <1>1, <1>2, <3>2, <3>3 DEF ReadyIsWoken, Slack
    <3>5. wakeups.pending[m] \in Nat /\ wakeups.claimed[m] \in Nat
      BY <1>1, GraphFacts DEF RowsTyped, Calls
    <3>6. Slack(m) \in Nat
      BY <3>5 DEF Slack
    <3>7. Slack(m)' >= Slack(m) /\ Slack(m)' \in Int
      BY <2>1
    <3> QED BY <3>4, <3>6, <3>7
  <2> QED BY <1>2, <2>1
<1>3. ~(Live' /\ run'.status # "running")
  OBVIOUS
<1> QED BY <1>2, <1>3 DEF ReadyIsWoken, Slack

\* A node that emits or closes a window wakes itself and all it emits to.
LEMMA SlackIsNumber ==
  ASSUME RunGoesOn, NEW m \in Nodes
  PROVE  Slack(m)' \in Nat
<1>1. wakeups'.pending[m] \in Nat /\ wakeups'.claimed[m] \in Nat
  BY GraphFacts DEF RunGoesOn, Calls
<1> QED BY <1>1 DEF Slack

\* The nodes downstream are nodes.
LEMMA DownstreamNodes ==
  ASSUME NEW n, NEW items
  PROVE  Downstream(n, items) \subseteq Nodes
<1>1. \A j \in DOMAIN Out(n) : Out(n)[j] \in Edges
  BY OutEdges
<1>2. \A e \in Range(Out(n)) : e \in Edges
  BY <1>1 DEF Range
<1> QED BY <1>2, GraphFacts DEF Downstream

\* An Expand or a join has begun.
LEMMA WokenBegun ==
  ASSUME CoordinationInv, Live, NEW n \in Nodes, NEW T, Begins(n, T), RowMoves(n, T)
  PROVE  ReadyIsWoken'
<1>1. RowsTyped
  BY DEF CoordinationInv
<1>2. /\ RunGoesOn /\ run.status = "running" /\ run' = run /\ active' = [active EXCEPT ![n] = "ready"]
      /\ wakeups' = Served(n, {}) /\ Keeps(values')
  BY DEF Begins
<1>3. active'[n] = "ready" /\ \A m \in Nodes : m # n => active'[m] = active[m]
  BY <1>1, <1>2 DEF RowsTyped
<1>4. \A m \in Nodes : m # n => Slack(m)' >= Slack(m)
  BY <1>1, <1>2, ServedOthers
<1>5. \A m \in Nodes : Slack(m)' \in Int
  BY <1>2, SlackIsNumber
<1>6. \A v \in DOMAIN values' : v \in DOMAIN values
  BY <1>1, <1>2, FollowedRows DEF Keeps
<1> QED BY <1>2, <1>3, <1>4, <1>5, <1>6, WokenStays

\* A join has indexed its queue, and could not begin.
LEMMA WokenIndexed ==
  ASSUME CoordinationInv, Live, NEW n \in Nodes, Indexes(n)
  PROVE  ReadyIsWoken'
<1>1. RowsTyped /\ ValuesFit
  BY DEF CoordinationInv
<1>2. /\ RunGoesOn /\ run.status = "running" /\ run' = run /\ active' = active /\ n \in Joins
      /\ wakeups' = Served(n, {Settle}) /\ values' = IndexedAll(n) /\ ~Ready(n)
  BY DEF Indexes
<1>3. RowMoves(n, {}) /\ Keeps(values') /\ Follows(values')
  BY <1>1, <1>2, IndexMoves, IndexedRows DEF Keeps
<1>4. \A m \in Nodes : m # n => Slack(m)' >= Slack(m)
  BY <1>1, <1>2, ServedOthers
<1>5. \A m \in Nodes : Slack(m)' \in Int
  BY <1>2, SlackIsNumber
<1>6. DOMAIN values' = DOMAIN values /\ \A v \in DOMAIN values : values'[v].edge = values[v].edge
  BY <1>1, <1>3, FollowedRows DEF Keeps, Follows
<1>7. /\ \A v \in DOMAIN values : v \in On(n, "queued") => values'[v].status = "indexed"
      /\ \A v \in DOMAIN values : v \notin On(n, "queued") => values'[v] = values[v]
  BY <1>1, <1>2, IndexedRows
<1>8. Buffered(n)' = Buffered(n)
  <2>1. ASSUME NEW v \in DOMAIN values
        PROVE  v \in Buffered(n)' <=> v \in Buffered(n)
    <3>1. CASE v \in On(n, "queued")
      BY <1>6, <1>7, <3>1 DEF Buffered, On
    <3>2. CASE v \notin On(n, "queued")
      BY <1>6, <1>7, <3>2 DEF Buffered, On
    <3> QED BY <3>1, <3>2
  <2>2. Buffered(n) \subseteq DOMAIN values /\ Buffered(n)' \subseteq DOMAIN values'
    BY DEF Buffered, On
  <2> QED BY <1>6, <2>1, <2>2
<1>9. ~Ready(n)'
  BY <1>1, <1>2, <1>3, <1>8, ReadyOfBuffered
<1> QED BY <1>2, <1>3, <1>4, <1>5, <1>6, <1>9, WokenStays

\* An instance has emitted.
LEMMA WokenEmitted ==
  ASSUME CoordinationInv, Live, NEW n \in Nodes, NEW items \in Seq(Items), Emits(n, items)
  PROVE  ReadyIsWoken'
<1>1. RowsTyped /\ ReadyIsWoken
  BY DEF CoordinationInv
<1>2. /\ RunGoesOn /\ Live' /\ run'.halts = run.halts /\ active[n] = "running"
      /\ run'.status = run.status \/ (run.status = "interrupting" /\ run'.status = "interrupted")
      /\ active' = [active EXCEPT ![n] = "none"]
      /\ \A m \in Nodes : Slack(m)' >= Slack(m) /\ (m = n \/ m \in Downstream(n, items) => Slack(m)' > 0)
  BY DEF Emits
<1>3. CASE run.halts # 0
  BY <1>2, <1>3 DEF ReadyIsWoken
<1>4. CASE run.halts = 0
  <2>1. n \in Busy
    BY <1>2 DEF Busy
  <2>2. run.status = "running"
    BY <1>1, <1>4, <2>1 DEF ReadyIsWoken
  <2>3. run'.status = "running"
    BY <1>2, <2>2
  <2>4. \A m \in Nodes : m # n => active'[m] = active[m]
    BY <1>1, <1>2 DEF RowsTyped
  <2>5. \A m \in Nodes : Slack(m)' \in Int
    BY <1>2, SlackIsNumber
  <2>6. /\ RowMoves(n, {})
        /\ \A v \in DOMAIN values' : v \notin DOMAIN values => Target[values'[v].edge] \in Downstream(n, items)
    BY <1>1, EmitMoves
  <2> QED BY <1>2, <2>3, <2>4, <2>5, <2>6, DownstreamNodes, WokenStays
<1> QED BY <1>3, <1>4

\* A window keeps on collecting.
LEMMA WokenKept ==
  ASSUME CoordinationInv, Live, NEW n \in Nodes, NEW items \in Seq(Nat), WindowKept(n, items)
  PROVE  ReadyIsWoken'
<1>1. RowsTyped
  BY DEF CoordinationInv
<1>2. /\ RunGoesOn /\ run' = run /\ run.status = "running" /\ active' = [active EXCEPT ![n] = "waiting"]
      /\ wakeups' = Served(n, {Settle})
  BY DEF WindowKept, KeepWindow, Grown, SpentAndSettle
<1>3. active'[n] = "waiting" /\ \A m \in Nodes : m # n => active'[m] = active[m]
  BY <1>1, <1>2 DEF RowsTyped
<1>4. \A m \in Nodes : m # n => Slack(m)' >= Slack(m)
  BY <1>1, <1>2, ServedOthers
<1>5. \A m \in Nodes : Slack(m)' \in Int
  BY <1>2, SlackIsNumber
<1>6. RowMoves(n, {Oldest(n)}) /\ Keeps(values')
  BY KeepMoves
<1>7. \A v \in DOMAIN values' : v \notin DOMAIN values => Target[values'[v].edge] \in {}
  BY <1>1, <1>6, FollowedRows DEF Keeps
<1>8. run'.halts = run.halts /\ run'.status = "running"
  BY <1>2
<1>9. ~(active'[n] = "none" /\ Ready(n)')
  BY <1>3
<1>10. {} \subseteq Nodes /\ \A m \in {} : Slack(m)' > 0
  OBVIOUS
<1> DEFINE T == {Oldest(n)}
           D == {}
<1> HIDE DEF T, D
<1>11. RowMoves(n, T)
  BY <1>6 DEF T
<1>12. /\ D \subseteq Nodes /\ \A m \in D : Slack(m)' > 0
       /\ \A v \in DOMAIN values' : v \notin DOMAIN values => Target[values'[v].edge] \in D
  BY <1>7, <1>10 DEF D
<1> QED BY <1>3, <1>4, <1>5, <1>8, <1>9, <1>11, <1>12, WokenStays

\* A window has closed.
LEMMA WokenClosed ==
  ASSUME CoordinationInv, Live, NEW n \in Nodes, NEW taken \in BOOLEAN, NEW items \in Seq(Nat),
         NEW reason \in {"count", "timeout"}, WindowCloses(n, taken, items, reason)
  PROVE  ReadyIsWoken'
<1> DEFINE T == IF taken THEN {Oldest(n)} ELSE {}
           D == Downstream(n, Envelope(items))
<1>1. RowsTyped
  BY DEF CoordinationInv
<1>2. /\ RunGoesOn /\ run'.halts = run.halts /\ run'.status = "running"
      /\ active' = [active EXCEPT ![n] = "none"]
      /\ \A m \in Nodes : /\ m # n => Slack(m)' >= Slack(m)
                          /\ m = n \/ m \in D => Slack(m)' > 0
  BY DEF WindowCloses
<1>3. \A m \in Nodes : m # n => active'[m] = active[m]
  BY <1>1, <1>2 DEF RowsTyped
<1>4. \A m \in Nodes : Slack(m)' \in Int
  BY <1>2, SlackIsNumber
<1>5. /\ RowMoves(n, T)
      /\ \A v \in DOMAIN values' : v \notin DOMAIN values => Target[values'[v].edge] \in D
  BY CloseMoves
<1>6. D \subseteq Nodes
  BY DownstreamNodes
<1> HIDE DEF T, D
<1> QED BY <1>2, <1>3, <1>4, <1>5, <1>6, WokenStays

\* A node that could begin has a wakeup, whatever the transaction.
LEMMA WokenNext ==
  ASSUME CoordinationInv, Live, StepKinds
  PROVE  ReadyIsWoken'
<1>1. RowsTyped
  BY DEF CoordinationInv
<1>2. CASE Still
  BY <1>2 DEF Still
<1>3. CASE Ends
  BY <1>3 DEF Ends, ReadyIsWoken
<1>4. CASE Completes
  BY <1>4, SettledIsIdle DEF ReadyIsWoken
<1>5. ASSUME NEW n \in Nodes, ExpandBegins(n) PROVE ReadyIsWoken'
  BY <1>1, <1>5, ExpandMoves, WokenBegun DEF ExpandBegins
<1>6. ASSUME NEW n \in Nodes, NEW k \in Items, JoinBegins(n, k) PROVE ReadyIsWoken'
  <2>1. RowMoves(n, FirstOfKey(Buffered(n), n, k)) /\ Begins(n, FirstOfKey(Buffered(n), n, k))
    BY <1>1, <1>6, JoinMoves DEF JoinBegins
  <2> QED BY <2>1, WokenBegun
<1>7. ASSUME NEW n \in Nodes, Indexes(n) PROVE ReadyIsWoken'
  BY <1>7, WokenIndexed
<1>8. ASSUME NEW n \in Nodes, NEW items \in Seq(Items), Emits(n, items) PROVE ReadyIsWoken'
  BY <1>8, WokenEmitted
<1>9. ASSUME NEW n \in Nodes, NEW items \in Seq(Nat), WindowKept(n, items) PROVE ReadyIsWoken'
  BY <1>9, WokenKept
<1>10. ASSUME NEW n \in Nodes, NEW taken \in BOOLEAN, NEW items \in Seq(Nat),
              NEW reason \in {"count", "timeout"}, WindowCloses(n, taken, items, reason)
       PROVE  ReadyIsWoken'
  BY <1>10, WokenClosed
<1> QED BY <1>2, <1>3, <1>4, <1>5, <1>6, <1>7, <1>8, <1>9, <1>10 DEF StepKinds

\* A run completes when nobody could begin.
LEMMA NothingLeft ==
  ASSUME CoordinationInv, Live, Completes
  PROVE  NothingReadyIsStranded'
<1>1. RowsTyped /\ ValuesFit /\ ReadyIsWoken
  BY DEF CoordinationInv
<1>2. /\ \A n \in Nodes : active[n] = "none" /\ wakeups.pending[n] = 0 /\ wakeups.claimed[n] = 0
      /\ run'.halts = run.halts
  BY SettledIsIdle
<1>3. SUFFICES ASSUME run.halts = 0
               PROVE  /\ \A n \in Joins : \A k \in Items \ BadItems :
                           ~Complete(On(n, "stranded") \cup On(n, "queued"), n, k)'
                      /\ \A n \in Expands \cup Aggregators : On(n, "queued")' = {}
  BY <1>2 DEF NothingReadyIsStranded, Complete, In
<1>4. \A n \in Nodes : ~Ready(n)
  BY <1>1, <1>2, <1>3 DEF ReadyIsWoken
<1>5. values' = Stranded
  BY DEF Completes, SettleCompleted
<1>6. /\ DOMAIN values' = DOMAIN values
      /\ \A v \in DOMAIN values : values'[v].edge = values[v].edge /\ values'[v].item = values[v].item
      /\ \A v \in DOMAIN values : values[v].status # "indexed" => values'[v].status = values[v].status
      /\ \A v \in DOMAIN values : values[v].status = "indexed" => values'[v].status = "stranded"
  BY <1>1, <1>5, StrandedRows, FollowedRows DEF Keeps, Follows
<1>7. \A v \in DOMAIN values : values[v].status \in {"queued", "consumed", "indexed"}
  BY <1>1 DEF ValuesFit
<1>8. ASSUME NEW n \in Joins, NEW k \in Items \ BadItems,
             Complete(On(n, "stranded") \cup On(n, "queued"), n, k)'
      PROVE  FALSE
  <2>1. ASSUME NEW v \in On(n, "stranded")' \cup On(n, "queued")' PROVE v \in Buffered(n) /\ v \in DOMAIN values
    <3>1. v \in DOMAIN values /\ Target[values[v].edge] = n /\ values'[v].status \in {"stranded", "queued"}
      BY <1>6 DEF On
    <3>2. values[v].status \in {"queued", "indexed"}
      BY <1>6, <1>7, <3>1
    <3> QED BY <3>1, <3>2 DEF Buffered, On
  <2>2. Complete(Buffered(n), n, k)
    BY <1>6, <1>8, <2>1 DEF Complete, In
  <2>3. Ready(n) /\ n \in Nodes
    BY <2>2, GraphFacts DEF Ready
  <2> QED BY <1>4, <2>3
<1>9. ASSUME NEW n \in Expands \cup Aggregators PROVE On(n, "queued")' = {}
  <2>1. On(n, "queued") = {}
    BY <1>4, GraphFacts DEF Ready
  <2>2. ASSUME NEW v \in On(n, "queued")' PROVE v \in On(n, "queued")
    <3>1. v \in DOMAIN values /\ Target[values[v].edge] = n /\ values'[v].status = "queued"
      BY <1>6 DEF On
    <3>2. values[v].status = "queued"
      BY <1>6, <1>7, <3>1
    <3> QED BY <3>1, <3>2 DEF On
  <2> QED BY <2>1, <2>2
<1> QED BY <1>8, <1>9

-----------------------------------------------------------------------------
(* The invariant holds at the start of the run and from then on.           *)

\* Windows that do not exist hold nothing.
LEMMA NoWindowsAreFlat ==
  FlattenSeq(ItemsOf(<<>>)) = <<>>
<1>1. ItemsOf(<<>>) \in Seq(Seq({}))
  BY DEF ItemsOf
<1>2. FlattenSeq(ItemsOf(<<>>)) \in Seq({})
  BY <1>1, FlattenTyped
<1> DEFINE F == FlattenSeq(ItemsOf(<<>>))
<1> HIDE DEF F
<1>3. F \in Seq({})
  BY <1>2 DEF F
<1>4. Len(F) = 0
  <2> SUFFICES ASSUME Len(F) # 0 PROVE FALSE
    OBVIOUS
  <2>1. Len(F) \in Nat /\ 1 \in 1 .. Len(F)
    BY <1>3
  <2>2. F[1] \in {}
    BY <1>3, <2>1
  <2> QED BY <2>2
<1>5. F = <<>>
  BY <1>3, <1>4
<1> QED BY <1>5 DEF F

\* The values at the start: one array on each entry.
LEMMA FirstValues ==
  ASSUME Init
  PROVE  /\ values \in Seq(Value) /\ DOMAIN values = 1 .. Cardinality(Entry)
         /\ Cardinality(Entry) \in Nat
         /\ \A v \in DOMAIN values : /\ values[v].status = "queued" /\ values[v].by = 0
                                     /\ values[v].edge \in Entry
<1>1. Entry \subseteq Nat /\ IsFiniteSet(Entry) /\ Entry \subseteq Edges
  BY CoordinationAssumption, FS_Subset
<1>2. Cardinality(Entry) \in Nat
  BY <1>1, FS_CardinalityType
<1>3. \A i \in 1 .. Cardinality(Entry) : InOrder(Entry)[i] \in Entry
  BY <1>1, OrderedPlaces
<1>4. (CHOOSE x \in Items : TRUE) \in Items
  BY CoordinationAssumption
<1> DEFINE it == CHOOSE x \in Items : TRUE
           row(i) == NewValue(InOrder(Entry)[i], it)
<1>5. values = [i \in 1 .. Cardinality(Entry) |-> row(i)]
  BY DEF Init
<1> HIDE DEF it
<1>6. \A i \in 1 .. Cardinality(Entry) : /\ row(i) \in Value /\ row(i).status = "queued" /\ row(i).by = 0
                                         /\ row(i).edge \in Entry
  <2> TAKE i \in 1 .. Cardinality(Entry)
  <2> DEFINE e == InOrder(Entry)[i]
  <2>1. e \in Entry /\ e \in Edges /\ it \in Items /\ 0 \in 0 .. MaxActivations
    BY <1>1, <1>3, <1>4, LimitsPositive DEF it
  <2>2. row(i) = [edge |-> e, item |-> it, status |-> "queued", by |-> 0]
    BY DEF NewValue
  <2> HIDE DEF e, row
  <2> QED BY <2>1, <2>2 DEF Value, ValueStatus, Unconsumed
<1> HIDE DEF row
<1>7. values \in Seq(Value) /\ DOMAIN values = 1 .. Cardinality(Entry)
  BY <1>2, <1>5, <1>6
<1>8. \A v \in DOMAIN values : values[v] = row(v)
  BY <1>5
<1> QED BY <1>2, <1>6, <1>7, <1>8

\* The rows of a new run.
LEMMA InitTyped ==
  ASSUME Init
  PROVE  RowsTyped /\ ActivityFits /\ ValuesFit
<1>1. run = [status |-> "running", halts |-> 0, losses |-> 0]
  BY DEF Init
<1>2. run \in RunRow /\ run.status = "running" /\ Disturbances = 0 /\ MaxDisturbances \in Nat
  BY <1>1, CoordinationAssumption DEF RunRow, RunStatus, Terminal, Disturbances
<1>3. /\ counters = [activations |-> 0, attempts |-> 0, pending |-> Cardinality(Entry),
                     total |-> Cardinality(Entry), buffered |-> 0]
      /\ Cardinality(Entry) \in Nat
  BY FirstValues DEF Init
<1>4. counters \in Counters /\ counters.activations = 0
  BY <1>3 DEF Counters
<1>5. active \in [Nodes -> {"none", "ready", "running", "waiting"}] /\ \A n \in Nodes : active[n] = "none"
  BY DEF Init
<1>6. seqs \in [Nodes -> 0 .. MaxActivations] /\ \A n \in Nodes : seqs[n] = 0
  BY LimitsPositive DEF Init
<1>7. windows \in [Aggregators -> Seq(WindowRow)]
  BY DEF Init
<1>8. wakeups \in [pending : Calls, claimed : Calls]
  BY DEF Init, Calls, None
<1>9. RowsTyped
  BY <1>2, <1>4, <1>5, <1>6, <1>7, <1>8, FirstValues DEF RowsTyped
<1>10. Live
  BY <1>2 DEF Live, Terminal
<1>11. ActivityFits
  BY <1>2, <1>4, <1>5, <1>6, <1>10, GraphFacts, LimitsPositive DEF ActivityFits
<1>12. ValuesFit
  <2>1. \A v \in DOMAIN values : values[v].by <= seqs[Target[values[v].edge]]
    <3> TAKE v \in DOMAIN values
    <3>1. Target[values[v].edge] \in Nodes /\ values[v].by = 0
      BY <1>9, ValueRow, FirstValues
    <3> QED BY <1>6, <3>1
  <2>2. \A n \in Joins : active[n] = "none"
    BY <1>5, GraphFacts
  <2> QED BY <2>1, <2>2, FirstValues DEF ValuesFit
<1> QED BY <1>9, <1>11, <1>12

\* The counters of a new run.
LEMMA InitCounted ==
  ASSUME Init
  PROVE  CountersMatchRows
<1>1. {v \in DOMAIN values : values[v].status = "indexed"} = {}
  BY FirstValues
<1>2. InWindows = {}
  <2>1. \A n \in Aggregators : active[n] = "none"
    BY GraphFacts DEF Init
  <2> QED BY <2>1 DEF InWindows
<1>3. {v \in DOMAIN values : values[v].status \in Unconsumed} = 1 .. Cardinality(Entry)
  BY FirstValues DEF Unconsumed
<1>4. Cardinality(1 .. Cardinality(Entry)) = Cardinality(Entry)
  <2> DEFINE c == Cardinality(Entry)
  <2>1. c \in Nat
    BY FirstValues
  <2> HIDE DEF c
  <2>2. Cardinality(1 .. c) = c
    BY <2>1, FS_Interval
  <2> QED BY <2>2 DEF c
<1>5. counters.pending = Cardinality(Entry) /\ counters.buffered = 0
  BY DEF Init
<1>6. Cardinality({}) = 0
  BY FS_EmptySet
<1>7. counters.buffered = Cardinality({v \in DOMAIN values : values[v].status = "indexed"}) + Cardinality(InWindows)
  BY <1>1, <1>2, <1>5, <1>6
<1>8. counters.pending = Cardinality({v \in DOMAIN values : values[v].status \in Unconsumed})
  BY <1>3, <1>4, <1>5
<1> QED BY <1>7, <1>8 DEF CountersMatchRows

\* Everything holds when a run starts.
LEMMA InitInv ==
  ASSUME Init
  PROVE  CoordinationInv
<1>1. RowsTyped /\ ActivityFits /\ ValuesFit /\ CountersMatchRows
  BY InitTyped, InitCounted
<1>2. run.status = "running" /\ run.halts = 0
  BY DEF Init
<1>3. ASSUME NEW n \in Aggregators PROVE WindowsFit(n) /\ QueueIsCut(n)
  <2>1. windows[n] = <<>> /\ active[n] = "none"
    BY <1>3, GraphFacts DEF Init
  <2>2. WindowsFit(n)
    BY <2>1 DEF WindowsFit
  <2>3. Flat(n) = <<>>
    BY <2>1, NoWindowsAreFlat DEF Flat
  <2>4. \A v \in Ours(n) : values[v].status = "queued"
    BY FirstValues DEF Ours
  <2> QED BY <2>2, <2>3, <2>4 DEF QueueIsCut
<1>4. ASSUME NEW n \in Joins PROVE PairsFit(n)
  <2>1. \A e, k : Tupled(n, e, k) = {}
    BY FirstValues DEF Tupled, On
  <2> QED BY <2>1 DEF PairsFit
<1>5. ReadyIsWoken
  <2>1. ASSUME NEW n \in Nodes, Ready(n) PROVE wakeups.pending[n] + wakeups.claimed[n] > 0
    <3>1. \E v \in DOMAIN values : Target[values[v].edge] = n
      <4>1. CASE n \in Joins
        <5>1. PICK e \in In(n) : TRUE
          BY <4>1, JoinPorts
        <5>2. PICK k : Complete(Buffered(n), n, k)
          BY <2>1, <4>1 DEF Ready
        <5>3. \E v \in Buffered(n) : TRUE
          BY <5>1, <5>2 DEF Complete
        <5> QED BY <5>3 DEF Buffered, On
      <4>2. CASE n \notin Joins
        BY <2>1, <4>2 DEF Ready, On
      <4> QED BY <4>1, <4>2
    <3>2. \E e \in Entry : Target[e] = n
      BY <3>1, FirstValues
    <3>3. wakeups.pending[n] = 1 /\ wakeups.claimed[n] = 0
      BY <3>2, GraphFacts DEF Init, None
    <3> QED BY <3>3
  <2> QED BY <1>2, <2>1 DEF ReadyIsWoken
<1>6. NothingReadyIsStranded
  BY <1>2 DEF NothingReadyIsStranded
<1> QED BY <1>1, <1>3, <1>4, <1>5, <1>6 DEF CoordinationInv

\* A run that goes on or ends otherwise has not completed.
LEMMA StrandedNext ==
  ASSUME CoordinationInv, Live, StepKinds
  PROVE  NothingReadyIsStranded'
<1>1. CASE Completes
  BY <1>1, NothingLeft
<1>2. SUFFICES ASSUME ~Completes PROVE run'.status # "completed"
  BY <1>1 DEF NothingReadyIsStranded
<1>3. CASE Still
  BY <1>3 DEF Still, Live, Terminal
<1>4. CASE Ends
  BY <1>4 DEF Ends
<1>5. ASSUME NEW n \in Nodes, ExpandBegins(n) PROVE run'.status # "completed"
  BY <1>5 DEF ExpandBegins, Begins
<1>6. ASSUME NEW n \in Nodes, NEW k \in Items, JoinBegins(n, k) PROVE run'.status # "completed"
  BY <1>6 DEF JoinBegins, Begins
<1>7. ASSUME NEW n \in Nodes, Indexes(n) PROVE run'.status # "completed"
  BY <1>7 DEF Indexes
<1>8. ASSUME NEW n \in Nodes, NEW items \in Seq(Items), Emits(n, items) PROVE run'.status # "completed"
  BY <1>8 DEF Emits, Live, Terminal
<1>9. ASSUME NEW n \in Nodes, NEW items \in Seq(Nat), WindowKept(n, items) PROVE run'.status # "completed"
  BY <1>9 DEF WindowKept, KeepWindow, Grown
<1>10. ASSUME NEW n \in Nodes, NEW taken \in BOOLEAN, NEW items \in Seq(Nat),
              NEW reason \in {"count", "timeout"}, WindowCloses(n, taken, items, reason)
       PROVE  run'.status # "completed"
  BY <1>10 DEF WindowCloses
<1> QED BY <1>2, <1>3, <1>4, <1>5, <1>6, <1>7, <1>8, <1>9, <1>10 DEF StepKinds

\* Every transaction keeps the invariant.
LEMMA StepInv ==
  ASSUME CoordinationInv, Next
  PROVE  CoordinationInv'
<1>1. Live /\ StepKinds
  BY StepsAreKinds
<1>2. RowsTyped' /\ ActivityFits' /\ ValuesFit'
  BY <1>1, TypedNext
<1>3. \A n \in Aggregators : WindowsFit(n)' /\ QueueIsCut(n)'
  BY <1>1, WindowsNext
<1>4. CountersMatchRows'
  BY <1>1, CountsNext
<1>5. \A n \in Joins : PairsFit(n)'
  BY <1>1, <1>2, PairsNext
<1>6. ReadyIsWoken' /\ NothingReadyIsStranded'
  BY <1>1, WokenNext, StrandedNext
<1> QED BY <1>2, <1>3, <1>4, <1>5, <1>6 DEF CoordinationInv

\* So does a step in which nothing happens.
LEMMA StutterInv ==
  ASSUME CoordinationInv, UNCHANGED vars
  PROVE  CoordinationInv'
<1>1. UNCHANGED <<run, values, counters, active, seqs, windows, wakeups>>
  BY DEF vars
<1>2. RowsTyped' /\ ActivityFits'
  BY <1>1 DEF CoordinationInv, RowsTyped, ActivityFits, Live, NoWakeup, Disturbances
<1>3. ValuesFit' /\ CountersMatchRows'
  BY <1>1 DEF CoordinationInv, ValuesFit, CountersMatchRows, Live, On, InWindows
<1>4. ASSUME NEW n \in Aggregators PROVE WindowsFit(n)' /\ QueueIsCut(n)'
  <2>1. WindowsFit(n) /\ QueueIsCut(n)
    BY DEF CoordinationInv
  <2>2. Flat(n)' = Flat(n) /\ Ours(n)' = Ours(n) /\ (Live' <=> Live)
    BY <1>1 DEF Flat, Ours, Live
  <2>3. WindowsFit(n)'
    BY <1>1, <2>1 DEF WindowsFit
  <2>4. \A i \in DOMAIN Flat(n)' : Flat(n)'[i] \in Ours(n)' /\ Rank(Ours(n)', Flat(n)'[i]) = i
    BY <2>1, <2>2 DEF QueueIsCut
  <2>5. Live' => \A v \in Ours(n)' :
          values'[v].status = "consumed" <=> \E i \in DOMAIN Flat(n)' : Flat(n)'[i] = v
    BY <1>1, <2>1, <2>2 DEF QueueIsCut
  <2> QED BY <2>3, <2>4, <2>5 DEF QueueIsCut
<1>5. ASSUME NEW n \in Joins PROVE PairsFit(n)'
  BY <1>1 DEF CoordinationInv, PairsFit, Tupled, OfKey, On, Live
<1>6. ReadyIsWoken'
  BY <1>1 DEF CoordinationInv, ReadyIsWoken, Ready, Buffered, Complete, On, Live, NoWakeup, Busy
<1>7. NothingReadyIsStranded'
  BY <1>1 DEF CoordinationInv, NothingReadyIsStranded, Complete, On
<1> QED BY <1>2, <1>3, <1>4, <1>5, <1>6, <1>7 DEF CoordinationInv

\* The invariant holds in every state of every run (activate.rs, join_by_key.rs,
\* aggregator.rs, aggregator_close.rs, settle.rs).
THEOREM CoordinationHolds == Spec => []CoordinationInv
<1>1. Init => CoordinationInv
  BY InitInv
<1>2. CoordinationInv /\ [Next]_vars => CoordinationInv'
  BY StepInv, StutterInv
<1> QED BY <1>1, <1>2, PTL DEF Spec

\* Nodes, windows, wakeups and counters of a run agree with each other, at every limit,
\* failure, closing and end: the limits that the counters guard are the real ones.
THEOREM CoordinationConsistent == Spec => []RowsAreConsistent
<1>1. ASSUME CoordinationInv PROVE RowsAreConsistent
  <2>1. RowsTyped /\ ActivityFits /\ CountersMatchRows
    BY <1>1 DEF CoordinationInv
  <2>2. /\ counters.buffered = Cardinality(Held) + Cardinality(InWindows)
        /\ counters.pending = Cardinality(Waits)
        /\ Cardinality(Held) \in Nat /\ Cardinality(InWindows) \in Nat /\ Cardinality(Waits) \in Nat
    BY <1>1, CountedNow
  <2>3. counters \in [activations : Nat, attempts : Nat, pending : Nat, total : Nat, buffered : Nat]
    BY <2>1, <2>2 DEF RowsTyped, Counters
  <2>4. ASSUME NEW n \in Aggregators, NEW i \in DOMAIN windows[n]
        PROVE  /\ windows[n][i].status \in {"open", "completed", "cancelled"}
               /\ windows[n][i].status = "open" <=> (i = Len(windows[n]) /\ active[n] = "waiting")
    <3>1. windows[n] \in Seq(WindowRow)
      BY <2>1 DEF RowsTyped
    <3>2. windows[n][i] \in WindowRow
      BY <3>1
    <3> QED BY <1>1, <3>2 DEF CoordinationInv, WindowsFit, WindowRow
  <2>5. \A v \in DOMAIN values :
          values[v] \in [edge : Edges, item : Items, status : ValueStatus, by : 0 .. MaxActivations]
    BY <2>1, ValueRow DEF Value
  <2>6. TypeOK
    BY <2>1, <2>3, <2>4, <2>5 DEF TypeOK, RowsTyped, RunRow, RunStatus, Calls
  <2> QED BY <2>1, <2>6 DEF RowsAreConsistent
<1> QED BY <1>1, CoordinationHolds, PTL

\* A JoinByKey pairs the i-th value of a key on one port with the i-th of this key on every
\* other port, whatever the order in which values arrive and wakeups are served.
THEOREM CoordinationPairs == Spec => []JoinPairsInOrder
<1>1. ASSUME CoordinationInv PROVE JoinPairsInOrder
  BY <1>1 DEF CoordinationInv, PairsFit, JoinPairsInOrder
<1> QED BY <1>1, CoordinationHolds, PTL

\* The windows of an Aggregator, one after the other, are the values of its queue in order,
\* none left out and none twice, and only a full one was closed by its count.
THEOREM CoordinationWindows == Spec => []WindowsPartitionTheQueue
<1>1. ASSUME CoordinationInv PROVE WindowsPartitionTheQueue
  <2>1. ASSUME NEW n \in Aggregators
        PROVE  IsPrefix(FlattenSeq([i \in DOMAIN windows[n] |-> windows[n][i].items]), Arrived(n))
    <3> DEFINE F == Flat(n)
               A == Arrived(n)
               V == Ours(n)
    <3>1. RowsTyped /\ ActivityFits /\ WindowsFit(n) /\ QueueIsCut(n)
      BY <1>1 DEF CoordinationInv
    <3>2. F \in Seq(Nat) /\ Len(F) \in Nat /\ DOMAIN F = 1 .. Len(F)
      BY <3>1, FlatIsClosedAndCollected
    <3>3. V \subseteq Nat /\ IsFiniteSet(V) /\ Cardinality(V) \in Nat
      BY <3>1, ValuesAreNumbers DEF RowsTyped, Ours
    <3>4. A = InOrder(V)
      BY DEF Arrived, Ours
    <3>5. /\ A \in Seq(V) /\ Len(A) = Cardinality(V)
          /\ \A i \in 1 .. Cardinality(V) : A[i] \in V /\ Rank(V, A[i]) = i
      BY <3>3, <3>4, OrderedPlaces
    <3>6. \A i \in 1 .. Len(F) : F[i] \in V /\ Rank(V, F[i]) = i
      BY <3>1, <3>2 DEF QueueIsCut
    <3>7. F = FlattenSeq([i \in DOMAIN windows[n] |-> windows[n][i].items])
      BY DEF Flat, ItemsOf
    <3> HIDE DEF F, A, V
    <3>8. Len(F) <= Len(A)
      <4>1. CASE Len(F) = 0
        BY <3>3, <3>5, <4>1
      <4>2. CASE Len(F) # 0
        <5>1. Len(F) \in 1 .. Len(F)
          BY <3>2, <4>2
        <5>2. F[Len(F)] \in V /\ Rank(V, F[Len(F)]) = Len(F)
          BY <3>6, <5>1
        <5>3. Len(F) \in 1 .. Cardinality(V)
          BY <3>3, <5>2, RankBounds
        <5> QED BY <3>3, <3>5, <5>3
      <4> QED BY <4>1, <4>2
    <3>9. \A i \in 1 .. Len(F) : F[i] = A[i]
      <4> TAKE i \in 1 .. Len(F)
      <4>1. i \in 1 .. Cardinality(V)
        BY <3>2, <3>3, <3>5, <3>8
      <4>2. F[i] \in V /\ A[i] \in V /\ Rank(V, F[i]) = Rank(V, A[i])
        BY <3>5, <3>6, <4>1
      <4> QED BY <3>3, <4>2, RankIsInjective
    <3>10. SubSeq(F, 1, Len(F)) = SubSeq(A, 1, Len(F))
      <4> DEFINE k == Len(F)
      <4>1. /\ F \in Seq(Nat) /\ A \in Seq(Nat) /\ k \in Nat /\ k <= Len(A) /\ k = Len(F)
            /\ \A i \in 1 .. k : F[i] = A[i]
        <5>1. A \in Seq(Nat)
          <6>1. V \subseteq Nat /\ A \in Seq(V)
            BY <3>3, <3>5
          <6> QED BY <6>1, SeqMonotonic
        <5> QED BY <3>2, <3>8, <3>9, <5>1
      <4> HIDE DEF k
      <4>2. SubSeq(F, 1, k) \in Seq(Nat) /\ SubSeq(A, 1, k) \in Seq(Nat)
        BY <4>1
      <4>3. Len(SubSeq(F, 1, k)) = k /\ Len(SubSeq(A, 1, k)) = k
        BY <4>1
      <4>4. \A i \in 1 .. k : SubSeq(F, 1, k)[i] = SubSeq(A, 1, k)[i]
        BY <4>1
      <4>5. SubSeq(F, 1, k) = SubSeq(A, 1, k)
        BY <4>2, <4>3, <4>4, SeqEqual
      <4> QED BY <4>5 DEF k
    <3>11. IsPrefix(F, A)
      BY <3>8, <3>10 DEF IsPrefix
    <3> QED BY <3>7, <3>11 DEF A
  <2>2. \A n \in Aggregators : \A i \in DOMAIN windows[n] :
          windows[n][i].reason = "count" <=> Len(windows[n][i].items) = Count
    BY <1>1 DEF CoordinationInv, WindowsFit
  <2> QED BY <2>1, <2>2 DEF WindowsPartitionTheQueue
<1> QED BY <1>1, CoordinationHolds, PTL

\* A run that was never interrupted completes only when no node could fire any more.
THEOREM CoordinationLeavesNothing == Spec => []NothingReadyIsStranded
<1>1. ASSUME CoordinationInv PROVE NothingReadyIsStranded
  BY <1>1 DEF CoordinationInv
<1> QED BY <1>1, CoordinationHolds, PTL
=============================================================================
