---------------------------- MODULE GraphLemmas ----------------------------
(***************************************************************************)
(* The lemmas the proofs about the graph and what is built on it share:    *)
(* induction on the natural numbers and along a rank, stated with sets and *)
(* functions so that they can be cited; the operations on graphs.          *)
(***************************************************************************)
EXTENDS DomainRules, FiniteSetTheorems, SequenceTheorems, FunctionTheorems,
        WellFoundedInduction, TLAPS

-----------------------------------------------------------------------------
(* Induction and recursion.                                                *)

(* By the well-foundedness of the finite subsets: the least element is the *)
(* one with the smallest set of smaller numbers.                           *)
LEMMA NatMin ==
  ASSUME NEW T \in SUBSET Nat, T # {}
  PROVE  \E m \in T : \A k \in T : m <= k
<1> DEFINE Below(k) == 0..k
           U == {Below(k) : k \in T}
<1>1. IsWellFoundedOn(StrictSubsetOrdering(Nat), FiniteSubsetsOf(Nat))
  BY FS_StrictSubsetOrderingWellFounded
<1>2. \A k \in T : Below(k) \in SUBSET Nat /\ IsFiniteSet(Below(k))
  BY FS_Interval
<1>3. U \subseteq FiniteSubsetsOf(Nat) /\ U # {}
  BY <1>2 DEF FiniteSubsetsOf
<1>4. PICK X \in U : \A Y \in U : ~(<<Y, X>> \in StrictSubsetOrdering(Nat))
  BY <1>1, <1>3, WFMin
<1>5. PICK m \in T : X = Below(m)
  BY <1>4
<1>6. ASSUME NEW k \in T, k < m PROVE FALSE
  <2>1. Below(k) \in U
    OBVIOUS
  <2>2. m \in Below(m) /\ m \notin Below(k)
    BY <1>6
  <2>3. Below(k) \subseteq Below(m) /\ Below(k) # Below(m)
    BY <2>2, <1>6
  <2> QED
    BY <2>1, <2>3, <1>2, <1>4, <1>5 DEF StrictSubsetOrdering
<1> QED
  BY <1>6

LEMMA NatInd ==
  ASSUME NEW S, 0 \in S, \A n \in Nat : n \in S => n + 1 \in S
  PROVE  Nat \subseteq S
<1> SUFFICES ASSUME Nat \ S # {} PROVE FALSE
  OBVIOUS
<1>1. PICK m \in Nat \ S : \A k \in Nat \ S : m <= k
  BY NatMin
<1>2. m # 0 /\ m - 1 \in Nat /\ m - 1 \in S
  BY <1>1
<1>3. m \in S
  BY <1>2
<1> QED
  BY <1>1, <1>3

(* The equation that defines a function by recursion has a solution. *)
Recursion(h, a, step, n) ==
  h[0] = a /\ \A k \in 1..n : h[k] = step[<<h[k - 1], k>>]

LEMMA RecFcn ==
  ASSUME NEW S, NEW a \in S, NEW n \in Nat, NEW step \in [S \X (1..n) -> S]
  PROVE  \E h \in [0..n -> S] : Recursion(h, a, step, n)
<1> DEFINE Good == {m \in Nat : m <= n => \E h \in [0..m -> S] : Recursion(h, a, step, m)}
<1>1. 0 \in Good
  <2>1. [k \in 0..0 |-> a] \in [0..0 -> S] /\ Recursion([k \in 0..0 |-> a], a, step, 0)
    BY DEF Recursion
  <2> QED
    BY <2>1
<1>2. ASSUME NEW m \in Nat, m \in Good PROVE m + 1 \in Good
  <2>1. SUFFICES ASSUME m + 1 <= n
                 PROVE  \E h \in [0..m + 1 -> S] : Recursion(h, a, step, m + 1)
    OBVIOUS
  <2>2. PICK f \in [0..m -> S] : Recursion(f, a, step, m)
    <3>1. m <= n
      BY <2>1
    <3> QED
      BY <1>2, <3>1 DEF Good
  <2> DEFINE h == [k \in 0..m + 1 |-> IF k = m + 1 THEN step[<<f[m], k>>] ELSE f[k]]
  <2>3. \A k \in 0..m + 1 : h[k] \in S
    <3>1. <<f[m], m + 1>> \in S \X (1..n)
      BY <2>1
    <3> QED
      BY <3>1
  <2>4. h[0] = a
    BY <2>2 DEF Recursion
  <2>5. \A k \in 1..m + 1 : h[k] = step[<<h[k - 1], k>>]
    <3> SUFFICES ASSUME NEW k \in 1..m + 1 PROVE h[k] = step[<<h[k - 1], k>>]
      OBVIOUS
    <3>1. CASE k = m + 1
      <4>1. h[k - 1] = f[m] /\ h[k] = step[<<f[m], k>>]
        BY <3>1
      <4> QED
        BY <4>1
    <3>2. CASE k # m + 1
      <4>1. k \in 1..m /\ h[k] = f[k] /\ h[k - 1] = f[k - 1]
        BY <3>2
      <4> QED
        BY <2>2, <4>1 DEF Recursion
    <3> QED
      BY <3>1, <3>2
  <2>6. h \in [0..m + 1 -> S] /\ Recursion(h, a, step, m + 1)
    BY <2>3, <2>4, <2>5 DEF Recursion
  <2> QED
    BY <2>6
<1>3. n \in Good
  <2> HIDE DEF Good
  <2> QED
    BY <1>1, <1>2, NatInd
<1> QED
  BY <1>3

(* What holds of the start and is kept by every step holds to the end. *)
LEMMA RecInv ==
  ASSUME NEW a, NEW n \in Nat, NEW step, NEW h, Recursion(h, a, step, n),
         NEW I, a \in I,
         \A k \in 1..n, x \in I : step[<<x, k>>] \in I
  PROVE  \A k \in 0..n : h[k] \in I
<1> DEFINE Good == {k \in Nat : k <= n => h[k] \in I}
<1>1. 0 \in Good
  BY DEF Recursion
<1>2. ASSUME NEW k \in Nat, k \in Good PROVE k + 1 \in Good
  <2> SUFFICES ASSUME k + 1 <= n PROVE h[k + 1] \in I
    OBVIOUS
  <2>1. h[k] \in I
    BY <1>2
  <2>2. h[k + 1] = step[<<h[k], k + 1>>]
    BY DEF Recursion
  <2> QED
    BY <2>1, <2>2
<1>3. Nat \subseteq Good
  <2> HIDE DEF Good
  <2> QED
    BY <1>1, <1>2, NatInd
<1> QED
  BY <1>3

(* Induction over a set by a rank: what follows from everything below it   *)
(* holds of all.                                                           *)
LEMMA RankInd ==
  ASSUME NEW X, NEW rank \in [X -> Nat], NEW P,
         \A x \in X : (\A y \in X : rank[y] < rank[x] => y \in P) => x \in P
  PROVE  X \subseteq P
<1> DEFINE Good == {n \in Nat : \A x \in X : rank[x] < n => x \in P}
<1>1. 0 \in Good
  OBVIOUS
<1>2. ASSUME NEW n \in Nat, n \in Good PROVE n + 1 \in Good
  <2> SUFFICES ASSUME NEW x \in X, rank[x] < n + 1 PROVE x \in P
    OBVIOUS
  <2>1. \A y \in X : rank[y] < rank[x] => y \in P
    BY <1>2
  <2> QED
    BY <2>1
<1>3. Nat \subseteq Good
  <2> HIDE DEF Good
  <2> QED
    BY <1>1, <1>2, NatInd
<1>4. ASSUME NEW x \in X PROVE x \in P
  <2>1. rank[x] + 1 \in Nat /\ rank[x] < rank[x] + 1
    OBVIOUS
  <2>2. rank[x] + 1 \in Good
    BY <1>3, <2>1
  <2> QED
    BY <2>1, <2>2
<1> QED
  BY <1>4

(* A function that is defined at x from its values at lower ranks exists.  *)
(* The definition is a function of x and of the function itself.           *)
LooksBelow(step, rank, X, T) ==
  \A x \in X, f, h \in [X -> T] :
    (\A y \in X : rank[y] < rank[x] => f[y] = h[y]) => step[<<x, f>>] = step[<<x, h>>]

Satisfies(h, step, X) == \A x \in X : h[x] = step[<<x, h>>]

LEMMA RankRec ==
  ASSUME NEW X, NEW T, T # {}, NEW rank \in [X -> Nat], NEW step \in [X \X [X -> T] -> T],
         LooksBelow(step, rank, X, T)
  PROVE  \E h \in [X -> T] : Satisfies(h, step, X)
<1> USE DEF LooksBelow
<1> DEFINE Solves(f, n) == \A x \in X : rank[x] < n => f[x] = step[<<x, f>>]
           Good == {n \in Nat : \E f \in [X -> T] : Solves(f, n)}
<1>1. 0 \in Good
  <2>1. PICK v \in T : TRUE
    OBVIOUS
  <2>2. [x \in X |-> v] \in [X -> T] /\ Solves([x \in X |-> v], 0)
    OBVIOUS
  <2> QED
    BY <2>2
<1>2. ASSUME NEW n \in Nat, n \in Good PROVE n + 1 \in Good
  <2>1. PICK f \in [X -> T] : Solves(f, n)
    BY <1>2
  <2> DEFINE k == [x \in X |-> IF rank[x] < n THEN f[x] ELSE step[<<x, f>>]]
  <2>2. k \in [X -> T]
    OBVIOUS
  <2>3. ASSUME NEW x \in X, rank[x] < n + 1 PROVE k[x] = step[<<x, k>>]
    <3>1. k[x] = step[<<x, f>>]
      BY <2>1
    <3>2. \A y \in X : rank[y] < rank[x] => k[y] = f[y]
      BY <2>3
    <3> HIDE DEF k
    <3>3. step[<<x, k>>] = step[<<x, f>>]
      BY <2>2, <3>2
    <3> QED
      BY <3>1, <3>3
  <2> HIDE DEF k
  <2> QED
    BY <2>2, <2>3
<1>3. \A n \in Nat : \E f \in [X -> T] : Solves(f, n)
  <2>1. Nat \subseteq Good
    <3> HIDE DEF Good
    <3> QED
      BY <1>1, <1>2, NatInd
  <2> QED
    BY <2>1
<1>4. ASSUME NEW f \in [X -> T], NEW k \in [X -> T], NEW n \in Nat, NEW m \in Nat,
             Solves(f, n), Solves(k, m),
             NEW x \in X, rank[x] < n, rank[x] < m
      PROVE  f[x] = k[x]
  <2> DEFINE P == {y \in X : rank[y] < n /\ rank[y] < m => f[y] = k[y]}
  <2>1. ASSUME NEW y \in X, \A z \in X : rank[z] < rank[y] => z \in P PROVE y \in P
    <3> SUFFICES ASSUME rank[y] < n, rank[y] < m PROVE f[y] = k[y]
      OBVIOUS
    <3>1. ASSUME NEW z \in X, rank[z] < rank[y] PROVE f[z] = k[z]
      <4>1. z \in P /\ rank[z] \in Nat /\ rank[y] \in Nat
        BY <2>1, <3>1
      <4> QED
        BY <3>1, <4>1
    <3>2. step[<<y, f>>] = step[<<y, k>>]
      BY <3>1
    <3> QED
      BY <1>4, <3>2
  <2>2. X \subseteq P
    <3> HIDE DEF P
    <3> QED
      BY <2>1, RankInd
  <2> QED
    BY <1>4, <2>2
<1> DEFINE F == [n \in Nat |-> CHOOSE f \in [X -> T] : Solves(f, n)]
           h == [x \in X |-> F[rank[x] + 1][x]]
<1>5. \A n \in Nat : F[n] \in [X -> T] /\ Solves(F[n], n)
  BY <1>3
<1> HIDE DEF F
<1>6. h \in [X -> T]
  <2>1. ASSUME NEW x \in X PROVE h[x] \in T
    <3>1. rank[x] + 1 \in Nat
      OBVIOUS
    <3>2. F[rank[x] + 1] \in [X -> T]
      BY <1>5, <3>1
    <3> QED
      BY <3>2
  <2> QED
    BY <2>1
<1>7. ASSUME NEW x \in X PROVE h[x] = step[<<x, h>>]
  <2> DEFINE n == rank[x] + 1
             f == F[n]
  <2>0. n \in Nat /\ rank[x] < n
    OBVIOUS
  <2>1. n \in Nat /\ rank[x] < n /\ f \in [X -> T] /\ Solves(f, n)
    <3> HIDE DEF n, Solves
    <3> QED
      BY <1>5, <2>0
  <2>2. h[x] = step[<<x, f>>]
    BY <2>1
  <2>3. ASSUME NEW y \in X, rank[y] < rank[x] PROVE h[y] = f[y]
    <3>1. rank[y] + 1 \in Nat /\ rank[y] < rank[y] + 1 /\ rank[y] < n
      BY <2>3
    <3>2. F[rank[y] + 1] \in [X -> T] /\ Solves(F[rank[y] + 1], rank[y] + 1)
      BY <1>5, <3>1
    <3>3. F[rank[y] + 1][y] = f[y]
      <4> HIDE DEF n, f, Solves
      <4> QED
        BY <1>4, <2>1, <3>1, <3>2
    <3> QED
      BY <3>3
  <2>4. step[<<x, h>>] = step[<<x, f>>]
    <3> HIDE DEF h, f
    <3> QED
      BY <1>6, <2>1, <2>3
  <2> QED
    BY <2>2, <2>4
<1> HIDE DEF h
<1> QED
  BY <1>6, <1>7 DEF Satisfies

(* A loop over a set of states: where it stops it returns out, elsewhere   *)
(* it goes on from next; and every turn makes some rank smaller.           *)
Returns(h, X, Stop, out, next) ==
  \A x \in X : h[x] = IF x \in Stop THEN out[x] ELSE h[next[x]]

Shrinks(rank, X, Stop, next) == \A x \in X \ Stop : rank[next[x]] < rank[x]

LEMMA LoopRec ==
  ASSUME NEW X, NEW T, T # {}, NEW Stop, NEW out \in [X -> T], NEW next \in [X -> X],
         NEW rank \in [X -> Nat], Shrinks(rank, X, Stop, next)
  PROVE  \E h \in [X -> T] : Returns(h, X, Stop, out, next)
<1> DEFINE step == [p \in X \X [X -> T] |->
                      IF p[1] \in Stop THEN out[p[1]] ELSE p[2][next[p[1]]]]
<1>1. step \in [X \X [X -> T] -> T]
  OBVIOUS
<1>2. \A x \in X, f \in [X -> T] : step[<<x, f>>] = IF x \in Stop THEN out[x] ELSE f[next[x]]
  OBVIOUS
<1> HIDE DEF step
<1>3. LooksBelow(step, rank, X, T)
  BY <1>2 DEF LooksBelow, Shrinks
<1>4. PICK h \in [X -> T] : Satisfies(h, step, X)
  BY <1>1, <1>3, RankRec
<1>5. \A x \in X : h[x] = IF x \in Stop THEN out[x] ELSE h[next[x]]
  BY <1>2, <1>4 DEF Satisfies
<1> QED
  BY <1>5 DEF Returns

(* What holds where a loop stops, and before a turn if it holds after it,  *)
(* holds everywhere.                                                       *)
Precedes(next, X, Stop, P) == \A x \in X \ Stop : next[x] \in P => x \in P

LEMMA LoopInd ==
  ASSUME NEW X, NEW Stop, NEW next \in [X -> X],
         NEW rank \in [X -> Nat], Shrinks(rank, X, Stop, next),
         NEW P, X \cap Stop \subseteq P, Precedes(next, X, Stop, P)
  PROVE  X \subseteq P
<1>1. \A x \in X : (\A y \in X : rank[y] < rank[x] => y \in P) => x \in P
  BY DEF Shrinks, Precedes
<1> QED
  BY <1>1, RankInd

-----------------------------------------------------------------------------
(* Those: the elements of a sequence that are in a set.                    *)

(* The prefixes' selections, each from the one before. *)
Sifting(h, s, S) ==
  /\ h[0] = <<>>
  /\ \A k \in 1..Len(s) : h[k] = IF s[k] \in S THEN Append(h[k - 1], s[k]) ELSE h[k - 1]

LEMMA ThoseDef ==
  ASSUME NEW T, NEW s \in Seq(T), NEW S
  PROVE  \E h \in [0..Len(s) -> Seq(T)] : Sifting(h, s, S) /\ Those(s, S) = h[Len(s)]
<1> DEFINE N == Len(s)
           step == [p \in Seq(T) \X (1..N) |->
                      IF s[p[2]] \in S THEN Append(p[1], s[p[2]]) ELSE p[1]]
<1>1. N \in Nat /\ \A k \in 1..N : s[k] \in T
  BY LenProperties, ElementOfSeq
<1>8. N = Len(s)
  OBVIOUS
<1> HIDE DEF N
<1>2. step \in [Seq(T) \X (1..N) -> Seq(T)]
  BY <1>1, AppendProperties
<1>3. <<>> \in Seq(T)
  BY EmptySeq
<1>4. PICK h \in [0..N -> Seq(T)] : Recursion(h, <<>>, step, N)
  <2> HIDE DEF step
  <2> QED
    BY <1>1, <1>2, <1>3, RecFcn
<1>5. \A k \in 1..N : h[k] = IF s[k] \in S THEN Append(h[k - 1], s[k]) ELSE h[k - 1]
  <2> SUFFICES ASSUME NEW k \in 1..N
               PROVE  h[k] = IF s[k] \in S THEN Append(h[k - 1], s[k]) ELSE h[k - 1]
    OBVIOUS
  <2>1. h[k] = step[<<h[k - 1], k>>]
    BY <1>4 DEF Recursion
  <2>2. h[k - 1] \in Seq(T)
    BY <1>1
  <2>3. <<h[k - 1], k>> \in Seq(T) \X (1..N)
    BY <2>2
  <2> QED
    BY <2>1, <2>3
<1>6. h[0] = <<>>
  BY <1>4 DEF Recursion
<1> HIDE DEF step
<1> DEFINE Solves(f) == f = [k \in 0..N |-> IF k = 0 THEN <<>>
                               ELSE IF s[k] \in S THEN Append(f[k - 1], s[k]) ELSE f[k - 1]]
<1>7. Solves(h)
  <2>1. ASSUME NEW k \in 0..N
        PROVE  h[k] = IF k = 0 THEN <<>>
                      ELSE IF s[k] \in S THEN Append(h[k - 1], s[k]) ELSE h[k - 1]
    <3>1. CASE k = 0
      BY <1>6, <3>1
    <3>2. CASE k # 0
      <4>1. k \in 1..N
        BY <1>1, <3>2
      <4> QED
        BY <1>5, <3>2, <4>1
    <3> QED
      BY <3>1, <3>2
  <2> QED
    BY <2>1
<1>9. ASSUME NEW f, Solves(f)
      PROVE  f = h
  <2> DEFINE Good == {k \in Nat : k <= N => f[k] = h[k]}
  <2>1. 0 \in Good
    BY <1>1, <1>6, <1>9
  <2>2. ASSUME NEW k \in Nat, k \in Good PROVE k + 1 \in Good
    <3> SUFFICES ASSUME k + 1 <= N PROVE f[k + 1] = h[k + 1]
      OBVIOUS
    <3>1. f[k] = h[k] /\ k + 1 \in 1..N /\ k + 1 \in 0..N /\ k + 1 # 0 /\ (k + 1) - 1 = k
      BY <1>1, <2>2
    <3>2. h[k + 1] = IF s[k + 1] \in S THEN Append(h[k], s[k + 1]) ELSE h[k]
      BY <1>5, <3>1
    <3>3. f[k + 1] = IF s[k + 1] \in S THEN Append(f[k], s[k + 1]) ELSE f[k]
      BY <1>9, <3>1
    <3> QED
      BY <3>1, <3>2, <3>3
  <2>3. Nat \subseteq Good
    <3> HIDE DEF Good
    <3> QED
      BY <2>1, <2>2, NatInd
  <2>4. \A k \in 0..N : f[k] = h[k]
    BY <2>3
  <2> QED
    BY <1>9, <2>4
<1>10. Those(s, S) = h[N]
  BY <1>7, <1>8, <1>9 DEF Those
<1>11. Sifting(h, s, S)
  BY <1>5, <1>6, <1>8 DEF Sifting
<1> QED
  BY <1>8, <1>10, <1>11

(* The selection depends on the elements only, one after the other. *)
LEMMA SiftingAgrees ==
  ASSUME NEW s, NEW S, NEW h, Sifting(h, s, S),
         NEW s2, NEW S2, NEW h2, Sifting(h2, s2, S2),
         NEW n \in Nat, Len(s) \in Nat, Len(s2) \in Nat, n <= Len(s), n <= Len(s2),
         \A k \in 1..n : s[k] = s2[k] /\ (s[k] \in S <=> s2[k] \in S2)
  PROVE  h[n] = h2[n]
<1> DEFINE Good == {k \in Nat : k <= n => h[k] = h2[k]}
<1>1. 0 \in Good
  BY DEF Sifting
<1>2. ASSUME NEW k \in Nat, k \in Good PROVE k + 1 \in Good
  <2> SUFFICES ASSUME k + 1 <= n PROVE h[k + 1] = h2[k + 1]
    OBVIOUS
  <2>1. h[k] = h2[k] /\ k + 1 \in 1..n /\ k + 1 \in 1..Len(s) /\ k + 1 \in 1..Len(s2)
        /\ (k + 1) - 1 = k
    BY <1>2
  <2>2. h[k + 1] = IF s[k + 1] \in S THEN Append(h[k], s[k + 1]) ELSE h[k]
    BY <2>1 DEF Sifting
  <2>3. h2[k + 1] = IF s2[k + 1] \in S2 THEN Append(h2[k], s2[k + 1]) ELSE h2[k]
    BY <2>1 DEF Sifting
  <2> QED
    BY <2>1, <2>2, <2>3
<1>3. Nat \subseteq Good
  <2> HIDE DEF Good
  <2> QED
    BY <1>1, <1>2, NatInd
<1> QED
  BY <1>3

LEMMA ThoseSame ==
  ASSUME NEW T, NEW s \in Seq(T), NEW S, NEW S2,
         \A k \in 1..Len(s) : s[k] \in S <=> s[k] \in S2
  PROVE  Those(s, S) = Those(s, S2)
<1>1. Len(s) \in Nat
  BY LenProperties
<1>2. PICK h : Sifting(h, s, S) /\ Those(s, S) = h[Len(s)]
  BY ThoseDef
<1>3. PICK h2 : Sifting(h2, s, S2) /\ Those(s, S2) = h2[Len(s)]
  BY ThoseDef
<1> QED
  BY <1>1, <1>2, <1>3, SiftingAgrees

LEMMA ThoseEmpty ==
  ASSUME NEW S
  PROVE  Those(<<>>, S) = <<>>
<1>1. <<>> \in Seq({}) /\ Len(<<>>) = 0
  BY EmptySeq
<1>2. PICK h : Sifting(h, <<>>, S) /\ Those(<<>>, S) = h[0]
  BY <1>1, ThoseDef
<1> QED
  BY <1>2 DEF Sifting

LEMMA ThoseAppend ==
  ASSUME NEW T, NEW s \in Seq(T), NEW x \in T, NEW S
  PROVE  Those(Append(s, x), S) =
           IF x \in S THEN Append(Those(s, S), x) ELSE Those(s, S)
<1> DEFINE sx == Append(s, x)
<1>1. /\ Len(s) \in Nat /\ sx \in Seq(T) /\ Len(sx) = Len(s) + 1
      /\ sx[Len(s) + 1] = x /\ \A k \in 1..Len(s) : sx[k] = s[k]
  BY LenProperties, AppendProperties
<1>2. PICK h : Sifting(h, s, S) /\ Those(s, S) = h[Len(s)]
  BY ThoseDef
<1> HIDE DEF sx
<1>3. PICK h2 : Sifting(h2, sx, S) /\ Those(sx, S) = h2[Len(sx)]
  BY <1>1, ThoseDef
<1>4. h2[Len(s)] = h[Len(s)]
  BY <1>1, <1>2, <1>3, SiftingAgrees
<1>5. Len(s) + 1 \in 1..Len(sx) /\ (Len(s) + 1) - 1 = Len(s)
  BY <1>1
<1>6. h2[Len(s) + 1] = IF x \in S THEN Append(h2[Len(s)], x) ELSE h2[Len(s)]
  BY <1>1, <1>3, <1>5 DEF Sifting
<1> QED
  BY <1>1, <1>2, <1>3, <1>4, <1>6 DEF sx

(* What is kept of the first n elements and where it was: f leads back, one *)
(* to one and onto what is in the set.                                     *)
Origin(f, t, s, S, n) ==
  /\ f \in [1..Len(t) -> 1..n]
  /\ \A i \in 1..Len(t) : t[i] = s[f[i]] /\ t[i] \in S
  /\ \A i, j \in 1..Len(t) : f[i] = f[j] => i = j
  /\ \A k \in 1..n : s[k] \in S => \E i \in 1..Len(t) : f[i] = k

LEMMA OriginSkip ==
  ASSUME NEW s, NEW S, NEW t, NEW f, NEW n \in Nat, Origin(f, t, s, S, n), s[n + 1] \notin S
  PROVE  Origin(f, t, s, S, n + 1)
<1>1. \A i \in 1..Len(t) : f[i] \in 1..n + 1
  BY DEF Origin
<1>2. \A k \in 1..n + 1 : s[k] \in S => k \in 1..n
  OBVIOUS
<1> QED
  BY <1>1, <1>2 DEF Origin

LEMMA OriginAppend ==
  ASSUME NEW T, NEW s, NEW S, NEW t \in Seq(T), NEW f, NEW n \in Nat,
         Origin(f, t, s, S, n), s[n + 1] \in S, s[n + 1] \in T
  PROVE  \E f2 : Origin(f2, Append(t, s[n + 1]), s, S, n + 1)
<1> DEFINE L == Len(t)
           t2 == Append(t, s[n + 1])
           f2 == [i \in 1..L + 1 |-> IF i = L + 1 THEN n + 1 ELSE f[i]]
<1>1. /\ L \in Nat /\ Len(t2) = L + 1 /\ t2[L + 1] = s[n + 1]
      /\ \A i \in 1..L : t2[i] = t[i]
  BY LenProperties, AppendProperties
<1>2. /\ f \in [1..L -> 1..n]
      /\ \A i \in 1..L : t[i] = s[f[i]] /\ t[i] \in S
      /\ \A i, j \in 1..L : f[i] = f[j] => i = j
      /\ \A k \in 1..n : s[k] \in S => \E i \in 1..L : f[i] = k
  BY DEF Origin
<1> HIDE DEF L, t2
<1>3. f2 \in [1..L + 1 -> 1..n + 1]
  BY <1>1, <1>2
<1>4. f2[L + 1] = n + 1 /\ \A i \in 1..L : f2[i] = f[i] /\ i # L + 1
  BY <1>1
<1>5. \A i \in 1..L + 1 : i = L + 1 \/ i \in 1..L
  BY <1>1
<1> HIDE DEF f2
<1>6. \A i \in 1..L + 1 : t2[i] = s[f2[i]] /\ t2[i] \in S
  BY <1>1, <1>2, <1>4, <1>5
<1>7. \A i \in 1..L : f2[i] # n + 1
  BY <1>2, <1>4
<1>8. \A i, j \in 1..L + 1 : f2[i] = f2[j] => i = j
  BY <1>2, <1>4, <1>5, <1>7
<1>9. \A k \in 1..n + 1 : s[k] \in S => \E i \in 1..L + 1 : f2[i] = k
  <2> SUFFICES ASSUME NEW k \in 1..n + 1, s[k] \in S
               PROVE  \E i \in 1..L + 1 : f2[i] = k
    OBVIOUS
  <2>1. CASE k = n + 1
    BY <1>1, <1>4, <2>1
  <2>2. CASE k # n + 1
    <3>1. PICK i \in 1..L : f[i] = k
      BY <1>2, <2>2
    <3>2. i \in 1..L + 1 /\ f2[i] = k
      BY <1>1, <1>4, <3>1
    <3> QED
      BY <3>2
  <2> QED
    BY <2>1, <2>2
<1>10. Origin(f2, t2, s, S, n + 1)
  BY <1>1, <1>3, <1>6, <1>8, <1>9 DEF Origin
<1> QED
  BY <1>10 DEF t2

LEMMA ThoseOrigin ==
  ASSUME NEW T, NEW s \in Seq(T), NEW S
  PROVE  Those(s, S) \in Seq(T) /\ \E f : Origin(f, Those(s, S), s, S, Len(s))
<1>1. Len(s) \in Nat /\ \A k \in 1..Len(s) : s[k] \in T
  BY LenProperties, ElementOfSeq
<1>2. PICK h \in [0..Len(s) -> Seq(T)] : Sifting(h, s, S) /\ Those(s, S) = h[Len(s)]
  BY ThoseDef
<1> DEFINE Good == {n \in Nat : n <= Len(s) => \E f : Origin(f, h[n], s, S, n)}
<1>3. 0 \in Good
  <2>1. h[0] = <<>> /\ Len(<<>>) = 0
    BY <1>2 DEF Sifting
  <2>2. Origin([i \in 1..0 |-> i], h[0], s, S, 0)
    BY <2>1 DEF Origin
  <2> QED
    BY <2>2
<1>4. ASSUME NEW n \in Nat, n \in Good PROVE n + 1 \in Good
  <2> SUFFICES ASSUME n + 1 <= Len(s) PROVE \E f : Origin(f, h[n + 1], s, S, n + 1)
    OBVIOUS
  <2>1. PICK f : Origin(f, h[n], s, S, n)
    BY <1>1, <1>4
  <2>2. n + 1 \in 1..Len(s) /\ n \in 0..Len(s) /\ (n + 1) - 1 = n
    BY <1>1
  <2>3. h[n + 1] = IF s[n + 1] \in S THEN Append(h[n], s[n + 1]) ELSE h[n]
    BY <1>2, <2>2 DEF Sifting
  <2>4. h[n] \in Seq(T) /\ s[n + 1] \in T
    BY <1>1, <2>2
  <2> QED
    BY <2>1, <2>3, <2>4, OriginSkip, OriginAppend
<1>5. \E f : Origin(f, h[Len(s)], s, S, Len(s))
  <2>1. Nat \subseteq Good
    <3> HIDE DEF Good
    <3> QED
      BY <1>3, <1>4, NatInd
  <2>2. Len(s) \in Good
    <3> HIDE DEF Good
    <3> QED
      BY <1>1, <2>1
  <2> QED
    BY <1>1, <2>2
<1> QED
  BY <1>1, <1>2, <1>5

-----------------------------------------------------------------------------
(* Adjacency: the edge list seen from one end. *)
Edge == Nat \X Nat

(* Nothing is kept when nothing is in the set. *)
LEMMA ThoseNone ==
  ASSUME NEW T, NEW s \in Seq(T), NEW S, \A k \in 1..Len(s) : s[k] \notin S
  PROVE  Those(s, S) = <<>>
<1>1. PICK f : Origin(f, Those(s, S), s, S, Len(s)) /\ Those(s, S) \in Seq(T)
  BY ThoseOrigin
<1>2. Len(Those(s, S)) \in Nat /\ Len(s) \in Nat
  BY <1>1, LenProperties
<1>3. ~ (1 \in 1..Len(Those(s, S)))
  BY <1>1 DEF Origin
<1>4. Len(Those(s, S)) = 0
  BY <1>2, <1>3
<1> QED
  BY <1>1, <1>4, EmptySeq

LEMMA NeighboursType ==
  ASSUME NEW es \in Seq(Edge), NEW id, NEW near \in {1, 2}, NEW far \in {1, 2}
  PROVE  Neighbours(es, id, near, far) \in Seq(Nat)
<1> DEFINE t == Those(es, {e \in ToSet(es) : e[near] = id})
<1>1. t \in Seq(Edge)
  BY ThoseOrigin
<1>2. Len(t) \in Nat /\ DOMAIN t = 1..Len(t) /\ \A i \in 1..Len(t) : t[i] \in Edge
  BY <1>1, LenProperties, ElementOfSeq
<1>3. Neighbours(es, id, near, far) = [i \in 1..Len(t) |-> t[i][far]]
  BY <1>2 DEF Neighbours
<1> HIDE DEF t
<1>4. \A i \in 1..Len(t) : t[i][far] \in Nat
  BY <1>2 DEF Edge
<1> QED
  BY <1>2, <1>3, <1>4, IsASeq

LEMMA NeighboursAppend ==
  ASSUME NEW es \in Seq(Edge), NEW e \in Edge, NEW id, NEW near \in {1, 2}, NEW far \in {1, 2}
  PROVE  Neighbours(Append(es, e), id, near, far) =
           IF e[near] = id THEN Append(Neighbours(es, id, near, far), e[far])
           ELSE Neighbours(es, id, near, far)
<1> DEFINE ees == Append(es, e)
           S == {x \in ToSet(es) : x[near] = id}
           S2 == {x \in ToSet(ees) : x[near] = id}
           t == Those(es, S)
           t2 == Those(ees, S2)
<1>1. /\ ees \in Seq(Edge) /\ Len(es) \in Nat /\ Len(ees) = Len(es) + 1
      /\ ees[Len(es) + 1] = e /\ \A i \in 1..Len(es) : ees[i] = es[i]
      /\ DOMAIN es = 1..Len(es) /\ DOMAIN ees = 1..Len(ees)
  BY LenProperties, AppendProperties
<1>2. \A k \in 1..Len(es) : es[k] \in S <=> es[k] \in S2
  <2> HIDE DEF ees
  <2>1. \A k \in 1..Len(es) : es[k] \in ToSet(es) /\ es[k] \in ToSet(ees)
    BY <1>1 DEF ToSet
  <2> QED
    BY <2>1
<1>3. e \in S2 <=> e[near] = id
  <2> HIDE DEF ees
  <2>1. e \in ToSet(ees)
    BY <1>1 DEF ToSet
  <2> QED
    BY <2>1
<1>4. t2 = IF e[near] = id THEN Append(t, e) ELSE t
  <2>1. t2 = IF e \in S2 THEN Append(Those(es, S2), e) ELSE Those(es, S2)
    <3> HIDE DEF S2
    <3> QED
      BY ThoseAppend
  <2>2. Those(es, S2) = t
    <3> HIDE DEF S, S2
    <3> QED
      BY <1>2, ThoseSame
  <2> QED
    BY <1>3, <2>1, <2>2
<1>5. t \in Seq(Edge)
  BY ThoseOrigin
<1>6. /\ Neighbours(es, id, near, far) = [i \in DOMAIN t |-> t[i][far]]
      /\ Neighbours(ees, id, near, far) = [i \in DOMAIN t2 |-> t2[i][far]]
  BY DEF Neighbours
<1> HIDE DEF t, t2, ees
<1>7. CASE e[near] # id
  BY <1>4, <1>6, <1>7 DEF ees
<1>8. CASE e[near] = id
  <2> DEFINE n == Len(t)
             u == [i \in 1..n |-> t[i][far]]
             u2 == [i \in 1..n + 1 |-> t2[i][far]]
  <2>1. /\ n \in Nat /\ DOMAIN t = 1..n /\ DOMAIN t2 = 1..n + 1
        /\ t2[n + 1] = e /\ \A i \in 1..n : t2[i] = t[i] /\ t[i] \in Edge
    BY <1>4, <1>5, <1>8, LenProperties, AppendProperties, ElementOfSeq
  <2>2. u \in Seq(Nat) /\ Len(u) = n
    <3>1. \A i \in 1..n : t[i][far] \in Nat
      BY <2>1 DEF Edge
    <3> HIDE DEF n
    <3> QED
      BY <2>1, <3>1, IsASeq, LenProperties
  <2>3. e[far] \in Nat
    BY DEF Edge
  <2> HIDE DEF n
  <2>4. \A i \in 1..n + 1 : u2[i] = IF i = n + 1 THEN e[far] ELSE u[i]
    BY <2>1
  <2>5. /\ Append(u, e[far]) \in Seq(Nat) /\ Len(Append(u, e[far])) = n + 1
        /\ Append(u, e[far])[n + 1] = e[far] /\ \A i \in 1..n : Append(u, e[far])[i] = u[i]
    <3> HIDE DEF u
    <3> QED
      BY <2>2, <2>3, AppendProperties
  <2>6. Append(u, e[far]) = u2
    <3>1. Append(u, e[far]) \in [1..n + 1 -> Nat]
      <4> HIDE DEF u
      <4> QED
        BY <2>5, LenProperties
    <3>2. \A i \in 1..n + 1 : Append(u, e[far])[i] = u2[i]
      <4> HIDE DEF u, u2
      <4> QED
        BY <2>1, <2>4, <2>5
    <3>3. u2 = [i \in 1..n + 1 |-> u2[i]]
      OBVIOUS
    <3> HIDE DEF u, u2
    <3> QED
      BY <3>1, <3>2, <3>3
  <2> QED
    BY <1>6, <1>8, <2>1, <2>6 DEF ees
<1> QED
  BY <1>7, <1>8

LEMMA AdjacencyType ==
  ASSUME NEW es \in Seq(Edge), NEW near \in {1, 2}, NEW far \in {1, 2}
  PROVE  /\ DOMAIN Adjacency(es, near, far) = {es[i][near] : i \in 1..Len(es)}
         /\ DOMAIN Adjacency(es, near, far) \in SUBSET Nat
         /\ Adjacency(es, near, far) \in [DOMAIN Adjacency(es, near, far) -> Seq(Nat)]
<1>1. DOMAIN es = 1..Len(es) /\ \A i \in 1..Len(es) : es[i] \in Edge
  BY LenProperties, ElementOfSeq
<1>2. \A i \in 1..Len(es) : es[i][near] \in Nat
  BY <1>1 DEF Edge
<1> QED
  BY <1>1, <1>2, NeighboursType DEF Adjacency

(* What a lookup finds, the nodes without edges included. *)
LEMMA AtAdjacency ==
  ASSUME NEW es \in Seq(Edge), NEW id, NEW near \in {1, 2}, NEW far \in {1, 2}
  PROVE  AtKey(Adjacency(es, near, far), id) = Neighbours(es, id, near, far)
<1>1. DOMAIN es = 1..Len(es)
  BY LenProperties
<1>2. CASE id \in DOMAIN Adjacency(es, near, far)
  BY <1>2 DEF AtKey, Adjacency
<1>3. CASE id \notin DOMAIN Adjacency(es, near, far)
  <2> DEFINE S == {e \in ToSet(es) : e[near] = id}
  <2>0. DOMAIN Adjacency(es, near, far) = {es[i][near] : i \in 1..Len(es)}
    BY AdjacencyType
  <2>1. \A i \in 1..Len(es) : es[i][near] # id
    BY <1>3, <2>0
  <2>2. \A i \in 1..Len(es) : es[i] \notin S
    BY <2>1
  <2>3. Those(es, S) = <<>>
    <3> HIDE DEF S
    <3> QED
      BY <2>2, ThoseNone
  <2>4. [i \in DOMAIN <<>> |-> <<>>[i][far]] = <<>>
    OBVIOUS
  <2> QED
    BY <1>3, <2>3, <2>4 DEF AtKey, Neighbours
<1> QED
  BY <1>2, <1>3

LEMMA PushAdjacency ==
  ASSUME NEW V, NEW es \in Seq(Edge), NEW e \in Edge, NEW near \in {1, 2}, NEW far \in {1, 2}
  PROVE  PushAt(Adjacency(es, near, far), e[near], e[far]) = Adjacency(Append(es, e), near, far)
<1> DEFINE ees == Append(es, e)
           old == Adjacency(es, near, far)
           new == Adjacency(ees, near, far)
<1>1. /\ ees \in Seq(Edge) /\ Len(es) \in Nat /\ Len(ees) = Len(es) + 1
      /\ ees[Len(es) + 1] = e /\ \A i \in 1..Len(es) : ees[i] = es[i]
  BY LenProperties, AppendProperties
<1>2. DOMAIN new = DOMAIN old \cup {e[near]}
  <2> HIDE DEF ees
  <2>1. DOMAIN new = {ees[i][near] : i \in 1..Len(es) + 1}
    BY <1>1, AdjacencyType
  <2>2. DOMAIN old = {es[i][near] : i \in 1..Len(es)}
    BY AdjacencyType
  <2>3. \A i \in 1..Len(es) + 1 : i = Len(es) + 1 \/ i \in 1..Len(es)
    BY <1>1
  <2>4. Len(es) + 1 \in 1..Len(es) + 1 /\ \A i \in 1..Len(es) : i \in 1..Len(es) + 1
    BY <1>1
  <2> HIDE DEF old, new
  <2> QED
    BY <1>1, <2>1, <2>2, <2>3, <2>4
<1>3. \A id \in DOMAIN new :
        new[id] = IF id = e[near] THEN Append(AtKey(old, e[near]), e[far]) ELSE old[id]
  <2> SUFFICES ASSUME NEW id \in DOMAIN new
               PROVE  new[id] = IF id = e[near] THEN Append(AtKey(old, e[near]), e[far])
                                ELSE old[id]
    OBVIOUS
  <2>1. new[id] = Neighbours(ees, id, near, far)
    BY DEF Adjacency
  <2>2. id # e[near] => old[id] = Neighbours(es, id, near, far)
    <3>1. \A x \in DOMAIN old : old[x] = Neighbours(es, x, near, far)
      BY DEF Adjacency
    <3> HIDE DEF old, new
    <3> QED
      BY <1>2, <3>1
  <2>3. AtKey(old, e[near]) = Neighbours(es, e[near], near, far)
    BY AtAdjacency
  <2>4. Neighbours(ees, id, near, far) =
          IF e[near] = id THEN Append(Neighbours(es, id, near, far), e[far])
          ELSE Neighbours(es, id, near, far)
    BY NeighboursAppend
  <2> HIDE DEF old, new, ees
  <2> QED
    BY <2>1, <2>2, <2>3, <2>4
<1>4. new = [id \in DOMAIN new |-> new[id]]
  BY DEF Adjacency
<1> HIDE DEF old, new
<1> QED
  BY <1>2, <1>3, <1>4 DEF PushAt, Put, old, new

-----------------------------------------------------------------------------
(* Graphs over a vocabulary V of names, clocks and logic types.  A node    *)
(* has an id that was handed out, and the two index maps   *)
(* name its place; an edge joins two nodes there are, is listed once and   *)
(* has its key in the set if it fits; the adjacency maps are the edge list *)
(* seen from either end.                                                   *)
Kinds == {"Register", "Port", "Net", "Combinational"}

NodeType(V) ==
  [id : Nat, hier_name : V.names, kind : Kinds, clock_domain : V.clocks \cup {NoClock},
   logic_type : V.logics \cup {"None"}, logic_inputs : Seq(Nat),
   reset_signal : {NoClock}]

Maps(K, T) == UNION {[S -> T] : S \in SUBSET K}

GraphType(V) ==
  [nodes : Seq(NodeType(V)), edges : Seq(Edge),
   id_to_idx : Maps(Nat, Nat), name_to_idx : Maps(V.names, Nat),
   adj : Maps(Nat, Seq(Nat)), radj : Maps(Nat, Seq(Nat)), edge_set : SUBSET Nat,
   next_id : Nat, generation : Nat, truncated : BOOLEAN, dirty : BOOLEAN,
   max_nodes : Nat, max_edges : Nat]

(* One past the last id handed out. *)
Top(h) == IF h.next_id = 0 THEN IdModulus ELSE h.next_id

Ids(h) == {h.nodes[i].id : i \in 1..Len(h.nodes)}

IdsInv(h) ==
  /\ h.next_id < IdModulus
  /\ \A i \in 1..Len(h.nodes) : 0 < h.nodes[i].id /\ h.nodes[i].id < Top(h)
  /\ DOMAIN h.id_to_idx = Ids(h)
  /\ \A i \in 1..Len(h.nodes) : h.id_to_idx[h.nodes[i].id] = i

NamesInv(h) ==
  /\ DOMAIN h.name_to_idx = {h.nodes[i].hier_name : i \in 1..Len(h.nodes)}
  /\ \A i \in 1..Len(h.nodes) : h.name_to_idx[h.nodes[i].hier_name] = i

EdgesInv(h) ==
  /\ \A i \in 1..Len(h.edges) :
       /\ h.edges[i][1] # h.edges[i][2]
       /\ h.edges[i][1] \in Ids(h) /\ h.edges[i][2] \in Ids(h)
  /\ \A i, j \in 1..Len(h.edges) : h.edges[i] = h.edges[j] => i = j
  /\ h.edge_set = Keys(h.edges)

AdjInv(h) ==
  h.adj = Adjacency(h.edges, 1, 2) /\ h.radj = Adjacency(h.edges, 2, 1)

Sound(h) == IdsInv(h) /\ NamesInv(h) /\ EdgesInv(h) /\ AdjInv(h)

SoundGraphs(V) == {h \in GraphType(V) : Sound(h)}

-----------------------------------------------------------------------------
(* Two edges that fit have two keys. *)
LEMMA KeyOrder ==
  ASSUME NEW M \in Nat, NEW a \in 0..M, NEW b \in 0..M, NEW c \in 0..M, NEW d \in 0..M,
         a < c
  PROVE  a * (M + 1) + b < c * (M + 1) + d
<1> DEFINE e == c - (a + 1)
<1>1. e \in Nat /\ c = a + 1 + e
  OBVIOUS
<1> HIDE DEF e
<1>2. e * (M + 1) \in Nat /\ a * (M + 1) \in Nat
  BY <1>1
<1>3. (a + 1 + e) * (M + 1) = a * (M + 1) + (M + 1) + e * (M + 1)
  BY <1>1
<1> QED
  BY <1>1, <1>2, <1>3

LEMMA KeyInjective ==
  ASSUME NEW a \in Nat, NEW b \in Nat, NEW c \in Nat, NEW d \in Nat,
         ~Wide(a, b), ~Wide(c, d), EdgeKey(a, b) = EdgeKey(c, d)
  PROVE  a = c /\ b = d
<1> DEFINE M == UINT32_MAX
<1>1. M \in Nat /\ a \in 0..M /\ b \in 0..M /\ c \in 0..M /\ d \in 0..M
  BY IRGraphAssumption DEF Wide
<1>2. a * (M + 1) + b = c * (M + 1) + d
  BY DEF EdgeKey
<1>3. ~(a < c)
  BY <1>1, <1>2, KeyOrder
<1>4. ~(c < a)
  BY <1>1, <1>2, KeyOrder
<1>5. a = c /\ a * (M + 1) \in Nat
  BY <1>1, <1>3, <1>4
<1> QED
  BY <1>1, <1>2, <1>5

LEMMA KeysAppend ==
  ASSUME NEW es \in Seq(Edge), NEW e \in Edge
  PROVE  /\ Keys(es) \in SUBSET Nat
         /\ Keys(Append(es, e)) =
              IF Wide(e[1], e[2]) THEN Keys(es) ELSE Keys(es) \cup {EdgeKey(e[1], e[2])}
         /\ ~Wide(e[1], e[2]) =>
              (EdgeKey(e[1], e[2]) \in Keys(es) <=> \E i \in 1..Len(es) : es[i] = e)
<1>1. /\ DOMAIN es = 1..Len(es) /\ Len(es) \in Nat
      /\ \A i \in 1..Len(es) : es[i] \in Edge /\ es[i] = <<es[i][1], es[i][2]>>
  BY LenProperties, ElementOfSeq DEF Edge
<1>2. ASSUME NEW a \in Nat, NEW b \in Nat PROVE EdgeKey(a, b) \in Nat
  <2>1. a * (UINT32_MAX + 1) \in Nat
    BY IRGraphAssumption
  <2> QED
    BY <2>1 DEF EdgeKey
<1>3. ToSet(es) = {es[i] : i \in 1..Len(es)} /\ ToSet(es) \in SUBSET Edge
  BY <1>1 DEF ToSet
<1>4. Keys(es) \in SUBSET Nat
  BY <1>2, <1>3 DEF Keys, Edge
<1>5. ToSet(Append(es, e)) = ToSet(es) \cup {e}
  <2> DEFINE ees == Append(es, e)
  <2>1. /\ ees \in Seq(Edge) /\ Len(ees) = Len(es) + 1 /\ DOMAIN ees = 1..Len(es) + 1
        /\ ees[Len(es) + 1] = e /\ \A i \in 1..Len(es) : ees[i] = es[i]
    BY <1>1, LenProperties, AppendProperties
  <2>2. \A i \in 1..Len(es) + 1 : i = Len(es) + 1 \/ i \in 1..Len(es)
    BY <1>1
  <2>3. Len(es) + 1 \in 1..Len(es) + 1 /\ \A i \in 1..Len(es) : i \in 1..Len(es) + 1
    BY <1>1
  <2> HIDE DEF ees
  <2>4. ToSet(ees) = ToSet(es) \cup {e}
    BY <1>1, <2>1, <2>2, <2>3 DEF ToSet
  <2> QED
    BY <2>4 DEF ees
<1>6. Keys(Append(es, e)) =
        IF Wide(e[1], e[2]) THEN Keys(es) ELSE Keys(es) \cup {EdgeKey(e[1], e[2])}
  BY <1>5 DEF Keys
<1>7. ASSUME ~Wide(e[1], e[2]), EdgeKey(e[1], e[2]) \in Keys(es)
      PROVE  \E i \in 1..Len(es) : es[i] = e
  <2>1. PICK f \in ToSet(es) : ~Wide(f[1], f[2]) /\ EdgeKey(f[1], f[2]) = EdgeKey(e[1], e[2])
    BY <1>7 DEF Keys
  <2>2. f \in Edge
    BY <1>3
  <2>3. /\ f[1] \in Nat /\ f[2] \in Nat /\ e[1] \in Nat /\ e[2] \in Nat
        /\ f = <<f[1], f[2]>> /\ e = <<e[1], e[2]>>
    BY <2>2 DEF Edge
  <2>4. f[1] = e[1] /\ f[2] = e[2]
    BY <1>7, <2>1, <2>3, KeyInjective
  <2>5. f = e
    BY <2>3, <2>4
  <2> QED
    BY <1>3, <2>5
<1>8. ASSUME ~Wide(e[1], e[2]), NEW i \in 1..Len(es), es[i] = e
      PROVE  EdgeKey(e[1], e[2]) \in Keys(es)
  BY <1>3, <1>8 DEF Keys
<1> QED
  BY <1>4, <1>6, <1>7, <1>8

-----------------------------------------------------------------------------
(* What a call may do to the graph. *)
Accounted(h, k) ==
  /\ k.nodes # h.nodes \/ k.edges # h.edges => k.generation > h.generation /\ k.dirty
  /\ h.truncated => k.truncated
  /\ \A id \in Ids(k) \ Ids(h) : id = h.next_id /\ id # 0
  /\ k.next_id = h.next_id \/ k.next_id = (h.next_id + 1) % IdModulus

(* What adding edges leaves alone. *)
Wired(h, k) ==
  /\ k.nodes = h.nodes /\ k.next_id = h.next_id
  /\ k.generation >= h.generation
  /\ k.edges # h.edges => k.generation > h.generation /\ k.dirty
  /\ h.dirty => k.dirty
  /\ h.truncated => k.truncated

LEMMA GraphFields ==
  ASSUME NEW V, NEW h \in GraphType(V)
  PROVE  /\ h.nodes \in Seq(NodeType(V)) /\ h.edges \in Seq(Edge)
         /\ Len(h.nodes) \in Nat /\ DOMAIN h.nodes = 1..Len(h.nodes)
         /\ Len(h.edges) \in Nat /\ DOMAIN h.edges = 1..Len(h.edges)
         /\ \A i \in 1..Len(h.nodes) : h.nodes[i] \in NodeType(V)
         /\ \A i \in 1..Len(h.edges) : h.edges[i] \in Edge
         /\ NodeIds(h) = Ids(h) /\ Ids(h) \in SUBSET Nat
<1>1. h.nodes \in Seq(NodeType(V)) /\ h.edges \in Seq(Edge)
  BY DEF GraphType
<1>2. /\ Len(h.nodes) \in Nat /\ DOMAIN h.nodes = 1..Len(h.nodes)
      /\ Len(h.edges) \in Nat /\ DOMAIN h.edges = 1..Len(h.edges)
      /\ \A i \in 1..Len(h.nodes) : h.nodes[i] \in NodeType(V)
      /\ \A i \in 1..Len(h.edges) : h.edges[i] \in Edge
  BY <1>1, LenProperties, ElementOfSeq
<1>3. NodeIds(h) = Ids(h) /\ Ids(h) \in SUBSET Nat
  BY <1>2 DEF NodeIds, Ids, NodeType
<1> QED
  BY <1>1, <1>2, <1>3

LEMMA EdgesType ==
  ASSUME NEW V, NEW h \in GraphType(V), NEW es \in Seq(Edge), NEW ks \in SUBSET Nat,
         NEW a \in Maps(Nat, Seq(Nat)), NEW b \in Maps(Nat, Seq(Nat))
  PROVE  [h EXCEPT !.edges = es, !.edge_set = ks, !.adj = a, !.radj = b,
                   !.generation = @ + 1, !.dirty = TRUE] \in GraphType(V)
<1> DEFINE next == h.generation + 1
<1>1. next \in Nat
  BY DEF GraphType
<1> HIDE DEF next
<1>2. [h EXCEPT !.edges = es, !.edge_set = ks, !.adj = a, !.radj = b,
                !.generation = next, !.dirty = TRUE] \in GraphType(V)
  BY <1>1 DEF GraphType
<1> QED
  BY <1>2 DEF next

LEMMA AddEdgeSound ==
  ASSUME NEW V, NEW h \in SoundGraphs(V), NEW from \in Nat, NEW to \in Nat
  PROVE  AddEdge(h, from, to) \in SoundGraphs(V) /\ Wired(h, AddEdge(h, from, to))
<1> DEFINE k == AddEdge(h, from, to)
           e == <<from, to>>
<1>1. h \in GraphType(V) /\ Sound(h)
  BY DEF SoundGraphs
<1>2. CASE k = h
  BY <1>1, <1>2 DEF Wired, GraphType
<1>3. CASE k = [h EXCEPT !.truncated = TRUE]
  <2>1. /\ k \in GraphType(V) /\ k.nodes = h.nodes /\ k.edges = h.edges
        /\ k.id_to_idx = h.id_to_idx /\ k.name_to_idx = h.name_to_idx
        /\ k.adj = h.adj /\ k.radj = h.radj /\ k.edge_set = h.edge_set
        /\ k.next_id = h.next_id /\ k.generation = h.generation /\ k.dirty = h.dirty
        /\ k.truncated /\ h.generation \in Nat
    BY <1>1, <1>3 DEF GraphType
  <2> HIDE DEF k
  <2>2. Sound(k)
    BY <1>1, <2>1 DEF Sound, IdsInv, Ids, Top, NamesInv, EdgesInv, AdjInv
  <2> QED
    BY <2>1, <2>2 DEF Wired, SoundGraphs, k
<1>4. CASE /\ from # to /\ HasNode(h, from) /\ HasNode(h, to)
           /\ ~(IF Wide(from, to) THEN EdgeListed(h, from, to)
                ELSE EdgeKey(from, to) \in h.edge_set)
           /\ k = [h EXCEPT
                    !.edges = Append(@, e),
                    !.edge_set = IF Wide(from, to) THEN @ ELSE @ \cup {EdgeKey(from, to)},
                    !.adj = PushAt(@, from, to),
                    !.radj = PushAt(@, to, from),
                    !.generation = @ + 1,
                    !.dirty = TRUE]
  <2>1. /\ k.nodes = h.nodes /\ k.edges = Append(h.edges, e)
        /\ k.id_to_idx = h.id_to_idx /\ k.name_to_idx = h.name_to_idx
        /\ k.adj = PushAt(h.adj, from, to) /\ k.radj = PushAt(h.radj, to, from)
        /\ k.edge_set = (IF Wide(from, to) THEN h.edge_set
                         ELSE h.edge_set \cup {EdgeKey(from, to)})
        /\ k.next_id = h.next_id /\ k.generation = h.generation + 1 /\ k.dirty = TRUE
        /\ k.truncated = h.truncated
    BY <1>1, <1>4 DEF GraphType
  <2>2. e \in Edge /\ e[1] = from /\ e[2] = to /\ h.edges \in Seq(Edge) /\ h.generation \in Nat
    BY <1>1 DEF Edge, GraphType
  <2> HIDE DEF e
  <2>3. /\ k.edges \in Seq(Edge) /\ Len(h.edges) \in Nat /\ Len(k.edges) = Len(h.edges) + 1
        /\ k.edges[Len(h.edges) + 1] = e
        /\ \A i \in 1..Len(h.edges) : k.edges[i] = h.edges[i]
    BY <2>1, <2>2, LenProperties, AppendProperties
  <2>4. AdjInv(k)
    BY <1>1, <2>1, <2>2, PushAdjacency DEF Sound, AdjInv
  <2>5. k.edge_set = Keys(k.edges) /\ k.edge_set \in SUBSET Nat
    <3>1. h.edge_set = Keys(h.edges)
      BY <1>1 DEF Sound, EdgesInv
    <3>2. k.edge_set = Keys(k.edges)
      <4>1. Keys(Append(h.edges, e)) =
              IF Wide(e[1], e[2]) THEN Keys(h.edges)
              ELSE Keys(h.edges) \cup {EdgeKey(e[1], e[2])}
        BY <2>2, KeysAppend
      <4> QED
        BY <2>1, <2>2, <3>1, <4>1
    <3>3. Keys(k.edges) \in SUBSET Nat
      BY <2>2, <2>3, KeysAppend
    <3> QED
      BY <3>2, <3>3
  <2>6. \A i \in 1..Len(h.edges) : h.edges[i] # e
    <3>1. CASE Wide(from, to)
      BY <1>1, <1>4, <3>1, GraphFields DEF EdgeListed, e
    <3>2. CASE ~Wide(from, to)
      <4>1. EdgeKey(from, to) \notin Keys(h.edges)
        BY <1>1, <1>4, <3>2 DEF Sound, EdgesInv
      <4> QED
        BY <2>2, <3>2, <4>1, KeysAppend
    <3> QED
      BY <3>1, <3>2
  <2>7. from \in Ids(h) /\ to \in Ids(h)
    BY <1>1, <1>4 DEF HasNode, Sound, IdsInv
  <2> HIDE DEF k, e
  <2>8. EdgesInv(k)
    <3>1. \A i \in 1..Len(k.edges) : i = Len(h.edges) + 1 \/ i \in 1..Len(h.edges)
      BY <2>3
    <3>2. Ids(k) = Ids(h)
      BY <2>1 DEF Ids
    <3>3. \A i \in 1..Len(k.edges) :
            /\ k.edges[i][1] # k.edges[i][2]
            /\ k.edges[i][1] \in Ids(k) /\ k.edges[i][2] \in Ids(k)
      BY <1>1, <1>4, <2>2, <2>3, <2>7, <3>1, <3>2 DEF Sound, EdgesInv
    <3>4. \A i, j \in 1..Len(k.edges) : k.edges[i] = k.edges[j] => i = j
      BY <1>1, <2>3, <2>6, <3>1 DEF Sound, EdgesInv
    <3> QED
      BY <2>5, <3>3, <3>4 DEF EdgesInv
  <2>9. IdsInv(k) /\ NamesInv(k)
    BY <1>1, <2>1 DEF Sound, IdsInv, Ids, Top, NamesInv
  <2>10. k \in GraphType(V)
    <3>1. k.adj \in Maps(Nat, Seq(Nat)) /\ k.radj \in Maps(Nat, Seq(Nat))
      <4>1. ASSUME NEW near \in {1, 2}, NEW far \in {1, 2}
            PROVE  Adjacency(k.edges, near, far) \in Maps(Nat, Seq(Nat))
        <5> DEFINE A == Adjacency(k.edges, near, far)
        <5>1. DOMAIN A \in SUBSET Nat /\ A \in [DOMAIN A -> Seq(Nat)]
          BY <2>3, AdjacencyType
        <5> HIDE DEF A
        <5>2. A \in Maps(Nat, Seq(Nat))
          BY <5>1 DEF Maps
        <5> QED
          BY <5>2 DEF A
      <4> QED
        BY <2>4, <4>1 DEF AdjInv
    <3>2. k = [h EXCEPT !.edges = k.edges, !.edge_set = k.edge_set, !.adj = k.adj,
                        !.radj = k.radj, !.generation = @ + 1, !.dirty = TRUE]
      BY <1>4, <2>1
    <3>3. [h EXCEPT !.edges = k.edges, !.edge_set = k.edge_set, !.adj = k.adj,
                    !.radj = k.radj, !.generation = @ + 1, !.dirty = TRUE] \in GraphType(V)
      BY <1>1, <2>3, <2>5, <3>1, EdgesType
    <3> QED
      BY <3>2, <3>3
  <2>11. Wired(h, k)
    BY <2>1, <2>2 DEF Wired
  <2> QED
    BY <2>4, <2>8, <2>9, <2>10, <2>11 DEF SoundGraphs, Sound, k
<1> QED
  BY <1>2, <1>3, <1>4 DEF AddEdge

(* An edge that was asked for is there, could not be one, or is owned up to. *)
Accepted(k, from, to) ==
  \/ from = to \/ ~HasNode(k, from) \/ ~HasNode(k, to)
  \/ EdgeListed(k, from, to) \/ k.truncated

LEMMA AddEdgeAccepts ==
  ASSUME NEW V, NEW h \in SoundGraphs(V), NEW from \in Nat, NEW to \in Nat
  PROVE  LET k == AddEdge(h, from, to) IN
         /\ Accepted(k, from, to)
         /\ \A a, b : Accepted(h, a, b) => Accepted(k, a, b)
<1> DEFINE k == AddEdge(h, from, to)
           e == <<from, to>>
<1>1. h \in GraphType(V) /\ Sound(h)
  BY DEF SoundGraphs
<1>2. CASE k = h /\ (from = to \/ ~HasNode(h, from) \/ ~HasNode(h, to))
  BY <1>2 DEF Accepted
<1>3. CASE k = [h EXCEPT !.truncated = TRUE]
  <2>1. k.truncated
    BY <1>1, <1>3 DEF GraphType
  <2> QED
    BY <2>1 DEF Accepted
<1>4. CASE k = h /\ (IF Wide(from, to) THEN EdgeListed(h, from, to)
                     ELSE EdgeKey(from, to) \in h.edge_set)
  <2>1. EdgeListed(h, from, to)
    <3>1. CASE Wide(from, to)
      BY <1>4, <3>1
    <3>2. CASE ~Wide(from, to)
      <4>1. EdgeKey(from, to) \in Keys(h.edges)
        BY <1>1, <1>4, <3>2 DEF Sound, EdgesInv
      <4>2. e \in Edge /\ e[1] = from /\ e[2] = to /\ h.edges \in Seq(Edge)
        BY <1>1 DEF Edge, GraphType
      <4> HIDE DEF e
      <4>3. \E i \in 1..Len(h.edges) : h.edges[i] = e
        BY <3>2, <4>1, <4>2, KeysAppend
      <4> QED
        BY <1>1, <4>3, GraphFields DEF EdgeListed, e
    <3> QED
      BY <3>1, <3>2
  <2> QED
    BY <1>4, <2>1 DEF Accepted
<1>5. CASE k = [h EXCEPT
                 !.edges = Append(@, e),
                 !.edge_set = IF Wide(from, to) THEN @ ELSE @ \cup {EdgeKey(from, to)},
                 !.adj = PushAt(@, from, to),
                 !.radj = PushAt(@, to, from),
                 !.generation = @ + 1,
                 !.dirty = TRUE]
  <2>1. /\ k.edges = Append(h.edges, e) /\ k.id_to_idx = h.id_to_idx
        /\ k.truncated = h.truncated
    BY <1>1, <1>5 DEF GraphType
  <2>2. e \in Edge /\ h.edges \in Seq(Edge)
    BY <1>1 DEF Edge, GraphType
  <2> HIDE DEF k, e
  <2>3. /\ k.edges \in Seq(Edge) /\ Len(h.edges) \in Nat /\ Len(k.edges) = Len(h.edges) + 1
        /\ k.edges[Len(h.edges) + 1] = e
        /\ \A i \in 1..Len(h.edges) : k.edges[i] = h.edges[i]
        /\ DOMAIN k.edges = 1..Len(k.edges) /\ DOMAIN h.edges = 1..Len(h.edges)
    BY <2>1, <2>2, LenProperties, AppendProperties
  <2>4. EdgeListed(k, from, to)
    BY <2>3 DEF EdgeListed, e
  <2>5. ASSUME NEW a, NEW b, Accepted(h, a, b) PROVE Accepted(k, a, b)
    BY <2>1, <2>3, <2>5 DEF Accepted, EdgeListed, HasNode
  <2> QED
    BY <2>4, <2>5 DEF Accepted, k
<1> QED
  BY <1>2, <1>3, <1>4, <1>5 DEF AddEdge

(* add_combinational wires its inputs one by one. *)
LEMMA AddInputsSound ==
  ASSUME NEW V, NEW h \in SoundGraphs(V), NEW inputs \in Seq(Nat), NEW id \in Nat
  PROVE  /\ AddInputs(h, inputs, id) \in SoundGraphs(V)
         /\ Wired(h, AddInputs(h, inputs, id))
         /\ \A n \in 1..Len(inputs) : Accepted(AddInputs(h, inputs, id), inputs[n], id)
<1> DEFINE S == {k \in SoundGraphs(V) : Wired(h, k)}
           N == Len(inputs)
           step == [p \in S \X (1..N) |-> AddEdge(p[1], inputs[p[2]], id)]
<1>1. N = Len(inputs) /\ N \in Nat /\ \A n \in 1..N : inputs[n] \in Nat
  BY LenProperties, ElementOfSeq
<1> HIDE DEF N
<1>2. h \in S
  <2>1. h.generation \in Nat
    BY DEF SoundGraphs, GraphType
  <2> QED
    BY <2>1 DEF Wired
<1>3. ASSUME NEW k \in S, NEW n \in 1..N PROVE AddEdge(k, inputs[n], id) \in S
  <2> DEFINE l == AddEdge(k, inputs[n], id)
  <2>1. l \in SoundGraphs(V) /\ Wired(k, l)
    BY <1>1, AddEdgeSound
  <2>2. h.generation \in Nat /\ k.generation \in Nat /\ l.generation \in Nat
    BY <2>1 DEF SoundGraphs, GraphType
  <2> HIDE DEF l
  <2>3. Wired(h, l)
    BY <2>1, <2>2 DEF Wired
  <2> QED
    BY <2>1, <2>3 DEF l
<1>4. step \in [S \X (1..N) -> S]
  <2> HIDE DEF S
  <2> QED
    BY <1>3
<1>5. PICK w \in [0..N -> S] : Recursion(w, h, step, N)
  <2> HIDE DEF step, S
  <2> QED
    BY <1>1, <1>2, <1>4, RecFcn
<1> HIDE DEF S
<1>6. w[0] = h /\ \A n \in 1..N : w[n] = AddEdge(w[n - 1], inputs[n], id)
  <2> SUFFICES ASSUME NEW n \in 1..N PROVE w[n] = AddEdge(w[n - 1], inputs[n], id)
    BY <1>5 DEF Recursion
  <2>1. w[n] = step[<<w[n - 1], n>>]
    BY <1>5 DEF Recursion
  <2>2. w[n - 1] \in S
    BY <1>1
  <2> QED
    BY <2>1, <2>2
<1> HIDE DEF step
<1> DEFINE Solves(f) ==
             f = [n \in 0..N |-> IF n = 0 THEN h ELSE AddEdge(f[n - 1], inputs[n], id)]
<1>7. Solves(w)
  <2>1. ASSUME NEW n \in 0..N
        PROVE  w[n] = IF n = 0 THEN h ELSE AddEdge(w[n - 1], inputs[n], id)
    <3>1. CASE n = 0
      BY <1>6, <3>1
    <3>2. CASE n # 0
      <4>1. n \in 1..N
        BY <1>1, <3>2
      <4> QED
        BY <1>6, <3>2, <4>1
    <3> QED
      BY <3>1, <3>2
  <2> QED
    BY <2>1
<1>8. ASSUME NEW f, Solves(f)
      PROVE  f = w
  <2> DEFINE Good == {n \in Nat : n <= N => f[n] = w[n]}
  <2>1. 0 \in Good
    BY <1>1, <1>6, <1>8
  <2>2. ASSUME NEW n \in Nat, n \in Good PROVE n + 1 \in Good
    <3> SUFFICES ASSUME n + 1 <= N PROVE f[n + 1] = w[n + 1]
      OBVIOUS
    <3>1. f[n] = w[n] /\ n + 1 \in 1..N /\ n + 1 \in 0..N /\ n + 1 # 0 /\ (n + 1) - 1 = n
      BY <1>1, <2>2
    <3>2. w[n + 1] = AddEdge(w[n], inputs[n + 1], id)
      BY <1>6, <3>1
    <3>3. f[n + 1] = AddEdge(f[n], inputs[n + 1], id)
      BY <1>8, <3>1
    <3> QED
      BY <3>1, <3>2, <3>3
  <2>3. Nat \subseteq Good
    <3> HIDE DEF Good
    <3> QED
      BY <2>1, <2>2, NatInd
  <2>4. \A n \in 0..N : f[n] = w[n]
    BY <2>3
  <2> QED
    BY <1>8, <2>4
<1>9. AddInputs(h, inputs, id) = w[N]
  BY <1>1, <1>7, <1>8 DEF AddInputs
<1>10. w[N] \in S
  BY <1>1
<1> DEFINE Wanted(n) == \A m \in 1..N : m <= n => Accepted(w[n], inputs[m], id)
           Met == {n \in Nat : n <= N => Wanted(n)}
<1>11. 0 \in Met
  BY <1>1
<1>12. ASSUME NEW n \in Nat, n \in Met PROVE n + 1 \in Met
  <2> SUFFICES ASSUME n + 1 <= N PROVE Wanted(n + 1)
    OBVIOUS
  <2>1. Wanted(n) /\ n + 1 \in 1..N /\ n \in 0..N /\ (n + 1) - 1 = n
    BY <1>1, <1>12
  <2>2. w[n + 1] = AddEdge(w[n], inputs[n + 1], id) /\ w[n] \in SoundGraphs(V)
    BY <1>6, <2>1 DEF S
  <2>3. inputs[n + 1] \in Nat
    BY <1>1, <2>1
  <2>4. /\ Accepted(w[n + 1], inputs[n + 1], id)
        /\ \A a, b : Accepted(w[n], a, b) => Accepted(w[n + 1], a, b)
    BY <2>2, <2>3, AddEdgeAccepts
  <2> SUFFICES ASSUME NEW m \in 1..N, m <= n + 1 PROVE Accepted(w[n + 1], inputs[m], id)
    OBVIOUS
  <2>5. m = n + 1 \/ m <= n
    BY <1>1
  <2> QED
    BY <2>1, <2>4, <2>5
<1>13. Nat \subseteq Met
  <2> HIDE DEF Met
  <2> QED
    BY <1>11, <1>12, NatInd
<1>14. \A n \in 1..N : Accepted(w[N], inputs[n], id)
  BY <1>1, <1>13
<1> QED
  BY <1>1, <1>9, <1>10, <1>14 DEF S

-----------------------------------------------------------------------------
LEMMA PutMaps ==
  ASSUME NEW K, NEW T, NEW f \in Maps(K, T), NEW k \in K, NEW v \in T
  PROVE  Put(f, k, v) \in Maps(K, T)
<1>1. PICK S \in SUBSET K : f \in [S -> T]
  BY DEF Maps
<1>2. Put(f, k, v) \in [S \cup {k} -> T]
  BY <1>1 DEF Put
<1>3. S \cup {k} \in SUBSET K
  OBVIOUS
<1> QED
  BY <1>2, <1>3 DEF Maps

(* The counter of ids goes on, and wraps to the 0 that Full tests. *)
LEMMA NextId ==
  ASSUME NEW M \in Nat, NEW x \in 0..M - 1
  PROVE  (x + 1) % M = IF x + 1 = M THEN 0 ELSE x + 1
OBVIOUS

LEMMA InsertType ==
  ASSUME NEW V, NEW h \in GraphType(V), NEW ns \in Seq(NodeType(V)), NEW n \in Nat,
         NEW is \in Maps(Nat, Nat), NEW ms \in Maps(V.names, Nat)
  PROVE  [h EXCEPT !.next_id = n, !.nodes = ns, !.id_to_idx = is, !.name_to_idx = ms,
                   !.generation = @ + 1, !.dirty = TRUE] \in GraphType(V)
<1> DEFINE next == h.generation + 1
<1>1. next \in Nat
  BY DEF GraphType
<1> HIDE DEF next
<1>2. [h EXCEPT !.next_id = n, !.nodes = ns, !.id_to_idx = is, !.name_to_idx = ms,
                !.generation = next, !.dirty = TRUE] \in GraphType(V)
  BY <1>1 DEF GraphType
<1> QED
  BY <1>2 DEF next

(* What adding a node does to the rest. *)
Inserted(h, k) ==
  /\ Ids(k) = Ids(h) \cup {h.next_id} /\ k.edges = h.edges
  /\ k.generation = h.generation + 1 /\ k.dirty = TRUE /\ k.truncated = h.truncated
  /\ k.next_id = (h.next_id + 1) % IdModulus

LEMMA InsertSound ==
  ASSUME NEW V, NEW h \in SoundGraphs(V), h.next_id # 0,
         NEW name \in V.names, ~HasName(h, name), NEW kind \in Kinds,
         NEW clock \in V.clocks \cup {NoClock}, NEW logic \in V.logics \cup {"None"},
         NEW inputs \in Seq(Nat)
  PROVE  /\ Insert(h, name, kind, clock, logic, inputs) \in SoundGraphs(V)
         /\ Inserted(h, Insert(h, name, kind, clock, logic, inputs))
<1> DEFINE k == Insert(h, name, kind, clock, logic, inputs)
           id == h.next_id
           L == Len(h.nodes)
           n == Node(id, name, kind, clock, logic, inputs)
<1>1. h \in GraphType(V) /\ Sound(h)
  BY DEF SoundGraphs
<1>2. /\ h.next_id \in Nat /\ h.generation \in Nat
      /\ h.id_to_idx \in Maps(Nat, Nat) /\ h.name_to_idx \in Maps(V.names, Nat)
  BY <1>1 DEF GraphType
<1>3. n \in NodeType(V) /\ n.id = id /\ n.hier_name = name
  BY <1>2 DEF Node, NodeType
<1>4. k = [h EXCEPT !.next_id = (id + 1) % IdModulus, !.nodes = Append(h.nodes, n),
                    !.id_to_idx = Put(h.id_to_idx, id, L + 1),
                    !.name_to_idx = Put(h.name_to_idx, name, L + 1),
                    !.generation = @ + 1, !.dirty = TRUE]
  BY DEF Insert
<1> HIDE DEF n
<1>5. /\ k.nodes = Append(h.nodes, n) /\ k.edges = h.edges
      /\ k.id_to_idx = Put(h.id_to_idx, id, L + 1)
      /\ k.name_to_idx = Put(h.name_to_idx, name, L + 1)
      /\ k.adj = h.adj /\ k.radj = h.radj /\ k.edge_set = h.edge_set
      /\ k.next_id = (id + 1) % IdModulus
      /\ k.generation = h.generation + 1 /\ k.dirty = TRUE /\ k.truncated = h.truncated
  BY <1>1, <1>4 DEF GraphType
<1> HIDE DEF k
<1>6. /\ L \in Nat /\ Len(k.nodes) = L + 1 /\ k.nodes[L + 1] = n /\ k.nodes \in Seq(NodeType(V))
      /\ \A i \in 1..L : k.nodes[i] = h.nodes[i]
  BY <1>1, <1>3, <1>5, GraphFields, AppendProperties
<1>7. /\ \A i \in 1..L + 1 : i = L + 1 \/ i \in 1..L
      /\ L + 1 \in 1..L + 1 /\ \A i \in 1..L : i \in 1..L + 1 /\ i # L + 1
  BY <1>6
<1>8. L = Len(h.nodes)
  OBVIOUS
<1> HIDE DEF L
<1>9. Ids(k) = Ids(h) \cup {id}
  <2>1. Ids(k) = {k.nodes[i].id : i \in 1..L + 1}
    BY <1>6 DEF Ids
  <2>2. Ids(h) = {h.nodes[i].id : i \in 1..L}
    BY <1>8 DEF Ids
  <2>3. \A i \in 1..L : k.nodes[i].id = h.nodes[i].id
    BY <1>6
  <2>4. k.nodes[L + 1].id = id
    BY <1>3, <1>6
  <2> QED
    BY <1>7, <2>1, <2>2, <2>3, <2>4
<1>10. k.next_id \in Nat /\ k.next_id < IdModulus /\ id < Top(k)
       /\ \A i \in Nat : i < id => i < Top(k)
  <2>1. id \in 0..IdModulus - 1 /\ IdModulus \in Nat
    BY <1>1, <1>2, IRGraphAssumption DEF Sound, IdsInv
  <2>2. k.next_id = IF id + 1 = IdModulus THEN 0 ELSE id + 1
    BY <1>5, <2>1, NextId
  <2> HIDE DEF id
  <2> QED
    BY <2>1, <2>2 DEF Top
<1>11. IdsInv(k)
  <2>1. \A i \in 1..L : 0 < h.nodes[i].id /\ h.nodes[i].id < id /\ h.nodes[i].id \in Nat
    BY <1>1, <1>8, GraphFields DEF Sound, IdsInv, Top, NodeType
  <2>2. \A i \in 1..L + 1 : 0 < k.nodes[i].id /\ k.nodes[i].id < Top(k)
    BY <1>2, <1>3, <1>6, <1>7, <1>10, <2>1
  <2>3. DOMAIN h.id_to_idx = Ids(h) /\ \A i \in 1..L : h.id_to_idx[h.nodes[i].id] = i
    BY <1>1, <1>8 DEF Sound, IdsInv
  <2>4. /\ DOMAIN k.id_to_idx = DOMAIN h.id_to_idx \cup {id} /\ k.id_to_idx[id] = L + 1
        /\ \A x \in DOMAIN h.id_to_idx : x # id => k.id_to_idx[x] = h.id_to_idx[x]
    BY <1>5 DEF Put
  <2>5. DOMAIN k.id_to_idx = Ids(k)
    BY <1>9, <2>3, <2>4
  <2>6. \A i \in 1..L : h.nodes[i].id \in DOMAIN h.id_to_idx /\ h.nodes[i].id # id
    BY <1>2, <1>8, <2>1, <2>3 DEF Ids
  <2>7. \A i \in 1..L + 1 : k.id_to_idx[k.nodes[i].id] = i
    BY <1>3, <1>6, <1>7, <2>3, <2>4, <2>6
  <2> QED
    BY <1>6, <1>10, <2>2, <2>5, <2>7 DEF IdsInv
<1>12. NamesInv(k)
  <2>1. /\ DOMAIN h.name_to_idx = {h.nodes[i].hier_name : i \in 1..L}
        /\ \A i \in 1..L : h.name_to_idx[h.nodes[i].hier_name] = i
    BY <1>1, <1>8 DEF Sound, NamesInv
  <2>2. /\ DOMAIN k.name_to_idx = DOMAIN h.name_to_idx \cup {name}
        /\ k.name_to_idx[name] = L + 1
        /\ \A x \in DOMAIN h.name_to_idx : x # name => k.name_to_idx[x] = h.name_to_idx[x]
    BY <1>5 DEF Put
  <2>3. name \notin DOMAIN h.name_to_idx
    BY DEF HasName
  <2>4. \A i \in 1..L : h.nodes[i].hier_name \in DOMAIN h.name_to_idx
                          /\ h.nodes[i].hier_name # name
    BY <2>1, <2>3
  <2>5. {k.nodes[i].hier_name : i \in 1..L + 1} = {h.nodes[i].hier_name : i \in 1..L} \cup {name}
    BY <1>3, <1>6, <1>7
  <2>6. \A i \in 1..L : k.name_to_idx[k.nodes[i].hier_name] = i
    BY <1>6, <2>1, <2>2, <2>4
  <2>7. k.name_to_idx[k.nodes[L + 1].hier_name] = L + 1
    BY <1>3, <1>6, <2>2
  <2>8. \A i \in 1..L + 1 : k.name_to_idx[k.nodes[i].hier_name] = i
    BY <1>7, <2>6, <2>7
  <2> QED
    BY <1>6, <2>1, <2>2, <2>5, <2>8 DEF NamesInv
<1>13. EdgesInv(k) /\ AdjInv(k)
  BY <1>1, <1>5, <1>9 DEF Sound, EdgesInv, AdjInv
<1>14. k \in GraphType(V)
  <2>1. k.id_to_idx \in Maps(Nat, Nat) /\ k.name_to_idx \in Maps(V.names, Nat)
    <3>1. L + 1 \in Nat /\ id \in Nat
      BY <1>2, <1>6
    <3> HIDE DEF id
    <3>2. Put(h.id_to_idx, id, L + 1) \in Maps(Nat, Nat)
      BY <1>2, <3>1, PutMaps
    <3>3. Put(h.name_to_idx, name, L + 1) \in Maps(V.names, Nat)
      BY <1>2, <3>1, PutMaps
    <3> QED
      BY <1>5, <3>2, <3>3
  <2>2. k = [h EXCEPT !.next_id = k.next_id, !.nodes = k.nodes, !.id_to_idx = k.id_to_idx,
                      !.name_to_idx = k.name_to_idx, !.generation = @ + 1, !.dirty = TRUE]
    BY <1>4, <1>5, <1>8
  <2>3. [h EXCEPT !.next_id = k.next_id, !.nodes = k.nodes, !.id_to_idx = k.id_to_idx,
                  !.name_to_idx = k.name_to_idx, !.generation = @ + 1, !.dirty = TRUE]
          \in GraphType(V)
    BY <1>1, <1>6, <1>10, <2>1, InsertType
  <2> QED
    BY <2>2, <2>3
<1> QED
  BY <1>5, <1>9, <1>11, <1>12, <1>13, <1>14 DEF SoundGraphs, Sound, Inserted, k

(* What the invariant says is about these fields. *)
LEMMA FieldsSound ==
  ASSUME NEW V, NEW h \in SoundGraphs(V), NEW k \in GraphType(V),
         k.nodes = h.nodes, k.edges = h.edges, k.id_to_idx = h.id_to_idx,
         k.name_to_idx = h.name_to_idx, k.adj = h.adj, k.radj = h.radj,
         k.edge_set = h.edge_set, k.next_id = h.next_id
  PROVE  k \in SoundGraphs(V) /\ Ids(k) = Ids(h)
<1>1. Ids(k) = Ids(h) /\ Top(k) = Top(h)
  BY DEF Ids, Top
<1>2. IdsInv(k) /\ NamesInv(k)
  BY <1>1 DEF SoundGraphs, Sound, IdsInv, NamesInv
<1>3. EdgesInv(k) /\ AdjInv(k)
  BY <1>1 DEF SoundGraphs, Sound, EdgesInv, AdjInv
<1> QED
  BY <1>1, <1>2, <1>3 DEF SoundGraphs, Sound

LEMMA TruncatedSound ==
  ASSUME NEW V, NEW h \in SoundGraphs(V)
  PROVE  LET k == [h EXCEPT !.truncated = TRUE] IN
         k \in SoundGraphs(V) /\ Accounted(h, k) /\ k.truncated
<1> DEFINE k == [h EXCEPT !.truncated = TRUE]
<1>1. h \in GraphType(V)
  BY DEF SoundGraphs
<1>2. /\ k \in GraphType(V) /\ k.nodes = h.nodes /\ k.edges = h.edges
      /\ k.id_to_idx = h.id_to_idx /\ k.name_to_idx = h.name_to_idx
      /\ k.adj = h.adj /\ k.radj = h.radj /\ k.edge_set = h.edge_set
      /\ k.next_id = h.next_id /\ k.truncated
  BY <1>1 DEF GraphType
<1> HIDE DEF k
<1>3. k \in SoundGraphs(V) /\ Ids(k) = Ids(h)
  BY <1>2, FieldsSound
<1> QED
  BY <1>2, <1>3 DEF Accounted, k

LEMMA SetLimitsSound ==
  ASSUME NEW V, NEW h \in SoundGraphs(V), NEW n \in Nat, NEW e \in Nat
  PROVE  SetLimits(h, n, e) \in SoundGraphs(V) /\ Accounted(h, SetLimits(h, n, e))
<1> DEFINE k == SetLimits(h, n, e)
           c == IF n > UINT32_MAX THEN UINT32_MAX ELSE n
           mn == IF n > 0 THEN c ELSE h.max_nodes
           me == IF e > 0 THEN e ELSE h.max_edges
<1>1. h \in GraphType(V)
  BY DEF SoundGraphs
<1>2. mn \in Nat /\ me \in Nat
  BY <1>1, IRGraphAssumption DEF GraphType
<1>3. k = [h EXCEPT !.max_nodes = mn, !.max_edges = me]
  BY <1>1 DEF SetLimits, GraphType
<1> HIDE DEF mn, me, k
<1>4. /\ k \in GraphType(V) /\ k.nodes = h.nodes /\ k.edges = h.edges
      /\ k.id_to_idx = h.id_to_idx /\ k.name_to_idx = h.name_to_idx
      /\ k.adj = h.adj /\ k.radj = h.radj /\ k.edge_set = h.edge_set
      /\ k.next_id = h.next_id /\ k.truncated = h.truncated
  BY <1>1, <1>2, <1>3 DEF GraphType
<1>5. k \in SoundGraphs(V) /\ Ids(k) = Ids(h)
  BY <1>4, FieldsSound
<1> QED
  BY <1>4, <1>5 DEF Accounted, k

(* The node found by its name is one of the graph's. *)
LEMMA NameFound ==
  ASSUME NEW V, NEW h \in SoundGraphs(V), NEW name, HasName(h, name)
  PROVE  h.name_to_idx[name] \in 1..Len(h.nodes)
         /\ FindByName(h, name) = h.nodes[h.name_to_idx[name]]
         /\ FindByName(h, name).id \in Nat /\ FindByName(h, name).id # 0
<1>1. h \in GraphType(V) /\ Sound(h)
  BY DEF SoundGraphs
<1>2. PICK i \in 1..Len(h.nodes) : h.nodes[i].hier_name = name
  BY <1>1 DEF HasName, Sound, NamesInv
<1>3. h.name_to_idx[name] = i
  BY <1>1, <1>2 DEF Sound, NamesInv
<1>4. h.nodes[i].id \in Nat /\ h.nodes[i].id > 0
  BY <1>1, GraphFields DEF NodeType, Sound, IdsInv
<1> QED
  BY <1>3, <1>4 DEF FindByName

(* What every add_* answers. *)
Answer(V, h, r) ==
  /\ r.graph \in SoundGraphs(V) /\ Accounted(h, r.graph)
  /\ r.id \in Nat /\ (r.id = 0 => r.graph.truncated)

LEMMA SameAccounted ==
  ASSUME NEW h PROVE Accounted(h, h)
BY DEF Accounted

LEMMA InsertAccounted ==
  ASSUME NEW V, NEW h \in SoundGraphs(V), h.next_id # 0,
         NEW name \in V.names, ~HasName(h, name), NEW kind \in Kinds,
         NEW clock \in V.clocks \cup {NoClock}, NEW logic \in V.logics \cup {"None"},
         NEW inputs \in Seq(Nat)
  PROVE  LET k == Insert(h, name, kind, clock, logic, inputs) IN
         k \in SoundGraphs(V) /\ Accounted(h, k)
<1> DEFINE k == Insert(h, name, kind, clock, logic, inputs)
<1>1. k \in SoundGraphs(V) /\ Inserted(h, k)
  BY InsertSound
<1>2. h.generation \in Nat
  BY DEF SoundGraphs, GraphType
<1> HIDE DEF k
<1>3. Accounted(h, k)
  BY <1>1, <1>2 DEF Accounted, Inserted
<1> QED
  BY <1>1, <1>3 DEF k

LEMMA AddPlainSound ==
  ASSUME NEW V, NEW h \in SoundGraphs(V), NEW name \in V.names, NEW kind \in Kinds
  PROVE  Answer(V, h, AddPlain(h, name, kind))
<1>1. CASE HasName(h, name)
  BY <1>1, NameFound, SameAccounted DEF AddPlain, Answer
<1>2. CASE ~HasName(h, name) /\ Full(h)
  BY <1>2, TruncatedSound DEF AddPlain, Answer
<1>3. CASE ~HasName(h, name) /\ ~Full(h)
  <2>1. h.next_id # 0 /\ h.next_id \in Nat
    BY <1>3 DEF Full, SoundGraphs, GraphType
  <2> DEFINE k == Insert(h, name, kind, NoClock, "None", <<>>)
  <2>2. k \in SoundGraphs(V) /\ Accounted(h, k)
    BY <1>3, <2>1, InsertAccounted, EmptySeq
  <2>3. AddPlain(h, name, kind) = [graph |-> k, id |-> h.next_id]
    BY <1>3 DEF AddPlain
  <2> HIDE DEF k
  <2> QED
    BY <2>1, <2>2, <2>3 DEF Answer
<1> QED
  BY <1>1, <1>2, <1>3

LEMMA AddCombinationalSound ==
  ASSUME NEW V, NEW h \in SoundGraphs(V), NEW name \in V.names, NEW logic \in V.logics,
         NEW inputs \in Seq(Nat)
  PROVE  LET r == AddCombinational(h, name, logic, inputs) IN
         /\ Answer(V, h, r)
         /\ ~HasName(h, name) =>
              \A n \in 1..Len(inputs) : Accepted(r.graph, inputs[n], r.id)
<1> DEFINE i == Insert(h, name, "Combinational", NoClock, logic, inputs)
           k == AddInputs(i, inputs, h.next_id)
<1>1. CASE HasName(h, name)
  BY <1>1, NameFound, SameAccounted DEF AddCombinational, Answer
<1>2. CASE ~HasName(h, name) /\ Full(h)
  BY <1>2, TruncatedSound DEF AddCombinational, Answer, Accepted
<1>3. CASE ~HasName(h, name) /\ ~Full(h)
  <2>1. h.next_id # 0 /\ h.next_id \in Nat /\ h.generation \in Nat
    BY <1>3 DEF Full, SoundGraphs, GraphType
  <2>2. i \in SoundGraphs(V) /\ Inserted(h, i)
    BY <1>3, <2>1, InsertSound DEF Kinds
  <2>3. AddCombinational(h, name, logic, inputs) = [graph |-> k, id |-> h.next_id]
    BY <1>3 DEF AddCombinational
  <2> HIDE DEF i
  <2>4. /\ k \in SoundGraphs(V) /\ Wired(i, k)
        /\ \A n \in 1..Len(inputs) : Accepted(k, inputs[n], h.next_id)
    BY <2>1, <2>2, AddInputsSound
  <2> HIDE DEF k
  <2>5. k.generation \in Nat
    BY <2>4 DEF SoundGraphs, GraphType
  <2>6. Ids(k) = Ids(i)
    BY <2>4 DEF Wired, Ids
  <2>7. Accounted(h, k)
    BY <2>1, <2>2, <2>4, <2>5, <2>6 DEF Inserted, Wired, Accounted
  <2> QED
    BY <2>1, <2>3, <2>4, <2>7 DEF Answer
<1> QED
  BY <1>1, <1>2, <1>3

LEMMA AddEdgeAccounted ==
  ASSUME NEW V, NEW h \in SoundGraphs(V), NEW from \in Nat, NEW to \in Nat
  PROVE  AddEdge(h, from, to) \in SoundGraphs(V) /\ Accounted(h, AddEdge(h, from, to))
<1> DEFINE k == AddEdge(h, from, to)
<1>1. k \in SoundGraphs(V) /\ Wired(h, k)
  BY AddEdgeSound
<1> HIDE DEF k
<1>2. Ids(k) = Ids(h)
  BY <1>1 DEF Wired, Ids
<1>3. Accounted(h, k)
  BY <1>1, <1>2 DEF Wired, Accounted
<1> QED
  BY <1>1, <1>3 DEF k

(* A register declared again keeps its place, its id and its name. *)
LEMMA RedeclareSound ==
  ASSUME NEW V, NEW h \in SoundGraphs(V), NEW name \in V.names, HasName(h, name),
         NEW clock \in V.clocks
  PROVE  Redeclare(h, name, clock) \in SoundGraphs(V) /\ Accounted(h, Redeclare(h, name, clock))
<1> DEFINE k == Redeclare(h, name, clock)
           L == Len(h.nodes)
           x == h.name_to_idx[name]
           c == IF h.nodes[x].clock_domain = NoClock THEN clock ELSE h.nodes[x].clock_domain
           ns == [h.nodes EXCEPT ![x] = [h.nodes[x] EXCEPT !.clock_domain = c]]
           next == h.generation + 1
<1>1. h \in GraphType(V) /\ Sound(h)
  BY DEF SoundGraphs
<1>2. x \in 1..L /\ L \in Nat
  BY <1>1, NameFound, GraphFields
<1>3. /\ h.nodes \in Seq(NodeType(V)) /\ h.nodes[x] \in NodeType(V) /\ next \in Nat
      /\ DOMAIN h.nodes = 1..L /\ \A i \in 1..L : h.nodes[i] \in NodeType(V)
  <2>1. h.generation \in Nat
    BY <1>1 DEF GraphType
  <2>2. next \in Nat
    BY <2>1
  <2> QED
    BY <1>1, <1>2, <2>2, GraphFields
<1>4. k = [h EXCEPT !.nodes = ns, !.generation = next, !.dirty = TRUE]
  BY <1>1, <1>2, <1>3 DEF Redeclare, GraphType
<1>5. c \in V.clocks \cup {NoClock}
  BY <1>3 DEF NodeType
<1> HIDE DEF c
<1>6. [h.nodes[x] EXCEPT !.clock_domain = c] \in NodeType(V)
  BY <1>3, <1>5 DEF NodeType
<1>7. \A i \in 1..L : /\ ns[i].id = h.nodes[i].id
                      /\ ns[i].hier_name = h.nodes[i].hier_name
                      /\ ns[i] \in NodeType(V)
  BY <1>2, <1>3, <1>6 DEF NodeType
<1>8. DOMAIN ns = 1..L /\ ns = [i \in 1..L |-> ns[i]]
  BY <1>3
<1> HIDE DEF ns, next, L, x
<1>9. ns \in Seq(NodeType(V)) /\ Len(ns) = L
  BY <1>2, <1>7, <1>8, IsASeq, LenProperties
<1>10. /\ k \in GraphType(V) /\ k.nodes = ns /\ k.edges = h.edges
      /\ k.id_to_idx = h.id_to_idx /\ k.name_to_idx = h.name_to_idx
      /\ k.adj = h.adj /\ k.radj = h.radj /\ k.edge_set = h.edge_set
      /\ k.next_id = h.next_id /\ k.truncated = h.truncated /\ k.generation = next
      /\ k.dirty = TRUE
  <2> HIDE DEF k
  <2> QED
    BY <1>1, <1>3, <1>4, <1>9 DEF GraphType
<1> HIDE DEF k
<1>11. Ids(k) = Ids(h)
  BY <1>7, <1>9, <1>10 DEF Ids, L
<1>12. IdsInv(k)
  BY <1>1, <1>7, <1>9, <1>10, <1>11 DEF Sound, IdsInv, Top, L
<1>13. NamesInv(k)
  <2>1. /\ DOMAIN h.name_to_idx = {h.nodes[i].hier_name : i \in 1..L}
        /\ \A i \in 1..L : h.name_to_idx[h.nodes[i].hier_name] = i
    BY <1>1 DEF Sound, NamesInv, L
  <2>2. {ns[i].hier_name : i \in 1..L} = {h.nodes[i].hier_name : i \in 1..L}
    BY <1>7
  <2>3. \A i \in 1..L : h.name_to_idx[ns[i].hier_name] = i
    BY <1>7, <2>1
  <2> QED
    <3>1. k.nodes = ns /\ Len(k.nodes) = L /\ k.name_to_idx = h.name_to_idx
      BY <1>9, <1>10
    <3>2. {k.nodes[i].hier_name : i \in 1..Len(k.nodes)} = {ns[i].hier_name : i \in 1..L}
      BY <3>1
    <3>3. \A i \in 1..Len(k.nodes) : k.name_to_idx[k.nodes[i].hier_name] = i
      BY <2>3, <3>1
    <3> QED
      BY <2>1, <2>2, <3>1, <3>2, <3>3 DEF NamesInv
<1>14. EdgesInv(k) /\ AdjInv(k)
  BY <1>1, <1>10, <1>11 DEF Sound, EdgesInv, AdjInv
<1>15. h.generation \in Nat
  BY <1>1 DEF GraphType
<1>16. Accounted(h, k)
  BY <1>10, <1>11, <1>15 DEF Accounted, next
<1> QED
  BY <1>10, <1>12, <1>13, <1>14, <1>16 DEF SoundGraphs, Sound, k

LEMMA AddRegisterSound ==
  ASSUME NEW V, NEW h \in SoundGraphs(V), NEW name \in V.names, NEW clock \in V.clocks
  PROVE  Answer(V, h, AddRegister(h, name, clock))
<1>1. CASE HasName(h, name)
  BY <1>1, NameFound, RedeclareSound DEF AddRegister, Answer
<1>2. CASE ~HasName(h, name) /\ Full(h)
  BY <1>2, TruncatedSound DEF AddRegister, Answer
<1>3. CASE ~HasName(h, name) /\ ~Full(h)
  <2>1. h.next_id # 0 /\ h.next_id \in Nat
    BY <1>3 DEF Full, SoundGraphs, GraphType
  <2> DEFINE k == Insert(h, name, "Register", clock, "None", <<>>)
  <2>2. k \in SoundGraphs(V) /\ Accounted(h, k)
    BY <1>3, <2>1, InsertAccounted, EmptySeq DEF Kinds
  <2>3. AddRegister(h, name, clock) = [graph |-> k, id |-> h.next_id]
    BY <1>3 DEF AddRegister
  <2> HIDE DEF k
  <2> QED
    BY <2>1, <2>2, <2>3 DEF Answer
<1> QED
  BY <1>1, <1>2, <1>3

-----------------------------------------------------------------------------
(* The empty graph. *)
LEMMA EmptySound == ASSUME NEW V PROVE EmptyGraph \in SoundGraphs(V)
<1> DEFINE h == EmptyGraph
<1>2. /\ h.nodes = <<>> /\ h.edges = <<>> /\ h.id_to_idx = <<>> /\ h.name_to_idx = <<>>
      /\ h.adj = <<>> /\ h.radj = <<>> /\ h.edge_set = {} /\ h.next_id = 1
  BY DEF EmptyGraph
<1>3. /\ Len(<<>>) = 0 /\ DOMAIN <<>> = {} /\ ToSet(<<>>) = {}
      /\ \A K, T : <<>> \in Maps(K, T)
      /\ \A T : <<>> \in Seq(T)
  <2>1. Len(<<>>) = 0 /\ \A T : <<>> \in Seq(T)
    BY EmptySeq
  <2>2. DOMAIN <<>> = {} /\ ToSet(<<>>) = {}
    BY DEF ToSet
  <2>3. ASSUME NEW K, NEW T PROVE <<>> \in Maps(K, T)
    <3>1. <<>> \in [{} -> T] /\ {} \in SUBSET K
      OBVIOUS
    <3> QED
      BY <3>1 DEF Maps
  <2> QED
    BY <2>1, <2>2, <2>3
<1>4. h \in GraphType(V)
  BY <1>3, IRGraphAssumption DEF EmptyGraph, GraphType
<1> HIDE DEF h
<1>5. IdsInv(h)
  <2>1. Ids(h) = {} /\ 1 < IdModulus
    BY <1>2, <1>3, IRGraphAssumption DEF Ids
  <2> QED
    BY <1>2, <1>3, <2>1 DEF IdsInv
<1>6. NamesInv(h)
  BY <1>2, <1>3 DEF NamesInv
<1>7. EdgesInv(h)
  <2>1. Keys(<<>>) = {}
    BY <1>3 DEF Keys
  <2> QED
    BY <1>2, <1>3, <2>1 DEF EdgesInv
<1>8. AdjInv(h)
  <2>1. ASSUME NEW near \in {1, 2}, NEW far \in {1, 2}
        PROVE  Adjacency(<<>>, near, far) = <<>>
    BY <1>3 DEF Adjacency
  <2> QED
    BY <1>2, <2>1 DEF AdjInv
<1> QED
  BY <1>4, <1>5, <1>6, <1>7, <1>8 DEF h, SoundGraphs, Sound

-----------------------------------------------------------------------------
(* What a walk reaches: the least set that has the first nodes and, with a *)
(* node that may be gone through, the other ends of its edges; nodes that  *)
(* were visited before are left out.                                       *)
Closed(E, I, v, T) == \A e \in E : e[1] \in T /\ e[1] \in I => e[2] \in T \/ e[2] \in v

Enclosures(E, I, v, F) ==
  {T \in SUBSET Nat : (\A n \in F : n \in T \/ n \in v) /\ Closed(E, I, v, T)}

Least(E, I, v, F) == {n \in Nat : \A T \in Enclosures(E, I, v, F) : n \in T}

(* Nothing that was visited is in it. *)
LEMMA LeastApart ==
  ASSUME NEW E \in SUBSET Edge, NEW I, NEW v, NEW F \in SUBSET Nat, NEW n \in v
  PROVE  n \notin Least(E, I, v, F)
<1> DEFINE T == Nat \ v
<1>1. T \in Enclosures(E, I, v, F)
  BY DEF Enclosures, Closed, Edge
<1> QED
  BY <1>1 DEF Least

LEMMA LeastSpread ==
  ASSUME NEW E \in SUBSET Edge, NEW I, NEW v, NEW F \in SUBSET Nat
  PROVE  Least(E, I, v, F) \in Enclosures(E, I, v, F)
<1> DEFINE L == Least(E, I, v, F)
<1>1. \A n \in F : n \in L \/ n \in v
  BY DEF Least, Enclosures
<1>2. ASSUME NEW e \in E, e[1] \in L, e[1] \in I, e[2] \notin v PROVE e[2] \in L
  <2>1. e[2] \in Nat
    BY DEF Edge
  <2>2. ASSUME NEW T \in Enclosures(E, I, v, F) PROVE e[2] \in T
    BY <1>2 DEF Least, Enclosures, Closed
  <2> QED
    BY <2>1, <2>2 DEF Least
<1>3. L \in SUBSET Nat
  BY DEF Least
<1> HIDE DEF L
<1>4. Closed(E, I, v, L)
  BY <1>2 DEF Closed
<1>5. L \in Enclosures(E, I, v, F)
  BY <1>1, <1>3, <1>4 DEF Enclosures
<1> QED
  BY <1>5 DEF L

(* The least set is the one that is in every other. *)
LEMMA LeastIs ==
  ASSUME NEW E, NEW I, NEW v, NEW F,
         NEW L \in Enclosures(E, I, v, F), \A T \in Enclosures(E, I, v, F) : L \subseteq T
  PROVE  L = Least(E, I, v, F)
BY DEF Least, Enclosures

LEMMA LeastBelow ==
  ASSUME NEW E, NEW I, NEW v, NEW F, NEW T \in Enclosures(E, I, v, F)
  PROVE  Least(E, I, v, F) \subseteq T
BY DEF Least

(* One node is visited: F2 is what was left with the node's successors, if *)
(* it may be gone through.                                                 *)
Visits(E, I, v, F, id, F2) ==
  /\ \A n \in F2 : n \in F \/ (id \in I /\ <<id, n>> \in E)
  /\ \A n \in F : n \in F2 \/ n = id
  /\ id \in I => \A e \in E : e[1] = id => e[2] \in F2 \/ e[2] \in v \cup {id}

LEMMA LeastVisit ==
  ASSUME NEW E \in SUBSET Edge, NEW I, NEW v \in SUBSET Nat,
         NEW F \in SUBSET Nat, NEW id \in Nat, id \notin v, NEW F2 \in SUBSET Nat,
         Visits(E, I, v, F, id, F2)
  PROVE  Least(E, I, v, F \cup {id}) = {id} \cup Least(E, I, v \cup {id}, F2)
<1> USE DEF Visits
<1> DEFINE A == Least(E, I, v, F \cup {id})
           w == v \cup {id}
           B == Least(E, I, w, F2)
<1>1. A \in Enclosures(E, I, v, F \cup {id}) /\ B \in Enclosures(E, I, w, F2)
  BY LeastSpread
<1>2. id \in A
  BY <1>1 DEF Enclosures
<1>3. {id} \cup B \in Enclosures(E, I, v, F \cup {id})
  <2> HIDE DEF A, B
  <2>1. \A n \in F \cup {id} : n \in {id} \cup B \/ n \in v
    BY <1>1 DEF Enclosures
  <2>2. ASSUME NEW e \in E, e[1] \in {id} \cup B, e[1] \in I
        PROVE  e[2] \in {id} \cup B \/ e[2] \in v
    <3>1. CASE e[1] = id
      BY <1>1, <2>2, <3>1 DEF Enclosures
    <3>2. CASE e[1] \in B
      BY <1>1, <2>2, <3>2 DEF Enclosures, Closed
    <3> QED
      BY <2>2, <3>1, <3>2
  <2> QED
    BY <1>1, <2>1, <2>2 DEF Enclosures, Closed
<1>4. A \subseteq {id} \cup B
  BY <1>3, LeastBelow
<1>5. A \ {id} \in Enclosures(E, I, w, F2)
  <2> HIDE DEF A, B
  <2>1. ASSUME NEW n \in F2, n \notin w PROVE n \in A
    <3>1. CASE n \in F
      BY <1>1, <2>1, <3>1 DEF Enclosures
    <3>2. CASE id \in I /\ <<id, n>> \in E
      BY <1>1, <1>2, <2>1, <3>2 DEF Enclosures, Closed
    <3> QED
      BY <3>1, <3>2
  <2>2. ASSUME NEW e \in E, e[1] \in A \ {id}, e[1] \in I, e[2] \notin w PROVE e[2] \in A
    BY <1>1, <2>2 DEF Enclosures, Closed
  <2> QED
    BY <1>1, <2>1, <2>2 DEF Enclosures, Closed
<1>6. B \subseteq A \ {id}
  BY <1>5, LeastBelow
<1> QED
  BY <1>2, <1>4, <1>6

LEMMA LeastSkip ==
  ASSUME NEW E, NEW I, NEW v, NEW F, NEW id \in v
  PROVE  Least(E, I, v, F \cup {id}) = Least(E, I, v, F)
BY DEF Least, Enclosures

LEMMA LeastNone ==
  ASSUME NEW E, NEW I, NEW v
  PROVE  Least(E, I, v, {}) = {}
<1>1. {} \in Enclosures(E, I, v, {})
  BY DEF Enclosures, Closed
<1> QED
  BY <1>1 DEF Least

(* A start that nothing is gone through may be left out or visited before. *)
LEMMA LeastStart ==
  ASSUME NEW E \in SUBSET Edge, NEW I, NEW F \in SUBSET Nat, NEW id \in Nat, id \notin I
  PROVE  Least(E, I, {}, F) \ {id} = Least(E, I, {id}, F)
<1> DEFINE A == Least(E, I, {}, F)
           B == Least(E, I, {id}, F)
<1>1. A \in Enclosures(E, I, {}, F) /\ B \in Enclosures(E, I, {id}, F) /\ id \notin B
  BY LeastSpread, LeastApart
<1>2. A \ {id} \in Enclosures(E, I, {id}, F)
  <2> HIDE DEF A, B
  <2> QED
    BY <1>1 DEF Enclosures, Closed
<1>3. B \cup {id} \in Enclosures(E, I, {}, F)
  <2> HIDE DEF A, B
  <2> QED
    BY <1>1 DEF Enclosures, Closed
<1>4. B \subseteq A \ {id} /\ A \subseteq B \cup {id}
  BY <1>2, <1>3, LeastBelow
<1> QED
  BY <1>1, <1>4

(* A walk back finds where a walk forward came from. *)
LEMMA LeastBack ==
  ASSUME NEW E \in SUBSET Edge, NEW R \in SUBSET Edge,
         \A m, n \in Nat : <<m, n>> \in E => <<n, m>> \in R,
         NEW I, NEW a \in Nat, NEW b \in Nat,
         b \in Least(E, I, {}, {n \in Nat : <<a, n>> \in E})
  PROVE  a \in Least(R, I, {}, {n \in Nat : <<b, n>> \in R})
<1> SUFFICES ASSUME NEW S \in Enclosures(R, I, {}, {n \in Nat : <<b, n>> \in R}), a \notin S
             PROVE  FALSE
  BY DEF Least
<1> DEFINE T == {n \in Nat : n # b /\ ~(n \in S /\ n \in I)}
<1>1. S \in SUBSET Nat /\ (\A n \in Nat : <<b, n>> \in R => n \in S) /\ Closed(R, I, {}, S)
  BY DEF Enclosures
<1>2. \A m, n \in Nat : <<m, n>> \in R /\ m \in S /\ m \in I => n \in S
  BY <1>1 DEF Closed
<1>3. ASSUME NEW n \in Nat, <<a, n>> \in E PROVE n \in T
  <2>1. <<n, a>> \in R
    BY <1>3
  <2> QED
    BY <1>1, <1>2, <2>1
<1>4. ASSUME NEW e \in E, e[1] \in T, e[1] \in I PROVE e[2] \in T
  <2>1. /\ e[1] \in Nat /\ e[2] \in Nat /\ <<e[1], e[2]>> \in E
    BY DEF Edge
  <2>2. <<e[2], e[1]>> \in R
    BY <2>1
  <2> QED
    BY <1>1, <1>2, <1>4, <2>1, <2>2
<1>5. T \in Enclosures(E, I, {}, {n \in Nat : <<a, n>> \in E})
  <2>1. T \in SUBSET Nat
    OBVIOUS
  <2> HIDE DEF T
  <2> QED
    BY <1>3, <1>4, <2>1 DEF Enclosures, Closed
<1>6. b \in T
  BY <1>5 DEF Least
<1> QED
  BY <1>6

-----------------------------------------------------------------------------
(* Sequences taken apart and put together. *)
LEMMA UpTo ==
  ASSUME NEW n \in Nat
  PROVE  IsFiniteSet(1..n) /\ Cardinality(1..n) = n
BY FS_Interval

LEMMA SetOfSeq ==
  ASSUME NEW T, NEW s \in Seq(T)
  PROVE  /\ DOMAIN s = 1..Len(s) /\ Len(s) \in Nat
         /\ \A i \in 1..Len(s) : s[i] \in T /\ s[i] \in ToSet(s)
         /\ \A x : x \in ToSet(s) <=> \E i \in 1..Len(s) : s[i] = x
         /\ ToSet(s) \in SUBSET T /\ IsFiniteSet(ToSet(s))
<1>1. DOMAIN s = 1..Len(s) /\ Len(s) \in Nat /\ \A i \in 1..Len(s) : s[i] \in T
  BY LenProperties, ElementOfSeq
<1>2. \A x : x \in ToSet(s) <=> \E i \in 1..Len(s) : s[i] = x
  BY <1>1 DEF ToSet
<1>3. ToSet(s) \in SUBSET T
  BY <1>1, <1>2
<1>4. IsFiniteSet(ToSet(s))
  <2> DEFINE f == [i \in 1..Len(s) |-> s[i]]
  <2>1. f \in Surjection(1..Len(s), ToSet(s))
    BY <1>1, <1>2 DEF Surjection
  <2>2. IsFiniteSet(1..Len(s))
    BY <1>1, FS_Interval
  <2> HIDE DEF f
  <2> QED
    BY <2>1, <2>2, FS_Surjection
<1> QED
  BY <1>1, <1>2, <1>3, <1>4

LEMMA SetOfAppend ==
  ASSUME NEW T, NEW s \in Seq(T), NEW x \in T
  PROVE  /\ Append(s, x) \in Seq(T) /\ Len(Append(s, x)) = Len(s) + 1
         /\ ToSet(Append(s, x)) = ToSet(s) \cup {x}
         /\ Append(s, x)[Len(s) + 1] = x /\ \A i \in 1..Len(s) : Append(s, x)[i] = s[i]
         /\ x \notin ToSet(s) /\ IsInjective(s) => IsInjective(Append(s, x))
<1> DEFINE t == Append(s, x)
<1>1. /\ t \in Seq(T) /\ Len(t) = Len(s) + 1 /\ t[Len(s) + 1] = x
      /\ \A i \in 1..Len(s) : t[i] = s[i]
  BY AppendProperties
<1> HIDE DEF t
<1>2. Len(s) \in Nat /\ DOMAIN s = 1..Len(s) /\ DOMAIN t = 1..Len(s) + 1
      /\ \A i \in 1..Len(s) + 1 : i = Len(s) + 1 \/ i \in 1..Len(s)
  BY <1>1, SetOfSeq
<1>3. ToSet(t) = ToSet(s) \cup {x}
  BY <1>1, <1>2 DEF ToSet
<1>4. ASSUME x \notin ToSet(s), IsInjective(s) PROVE IsInjective(t)
  <2>1. \A i \in 1..Len(s) : s[i] # x
    BY <1>2, <1>4 DEF ToSet
  <2>2. \A i, j \in 1..Len(s) : s[i] = s[j] => i = j
    BY <1>2, <1>4 DEF IsInjective
  <2>3. \A i, j \in 1..Len(s) + 1 : t[i] = t[j] => i = j
    BY <1>1, <1>2, <2>1, <2>2
  <2> QED
    BY <1>2, <2>3 DEF IsInjective
<1> QED
  BY <1>1, <1>3, <1>4 DEF t

LEMMA SetOfConcat ==
  ASSUME NEW T, NEW s \in Seq(T), NEW t \in Seq(T)
  PROVE  /\ s \o t \in Seq(T) /\ Len(s \o t) = Len(s) + Len(t)
         /\ ToSet(s \o t) = ToSet(s) \cup ToSet(t)
<1> DEFINE u == s \o t
<1>1. /\ u \in Seq(T) /\ Len(u) = Len(s) + Len(t)
      /\ \A i \in 1..Len(s) + Len(t) : u[i] = IF i <= Len(s) THEN s[i] ELSE t[i - Len(s)]
  BY ConcatProperties
<1> HIDE DEF u
<1>2. Len(s) \in Nat /\ Len(t) \in Nat
  BY LenProperties
<1>3. ASSUME NEW x \in ToSet(u) PROVE x \in ToSet(s) \cup ToSet(t)
  <2>1. PICK i \in 1..Len(s) + Len(t) : u[i] = x
    BY <1>1, SetOfSeq
  <2>2. CASE i <= Len(s)
    <3>1. i \in 1..Len(s) /\ s[i] = x
      BY <1>1, <1>2, <2>1, <2>2
    <3> QED
      BY <3>1, SetOfSeq
  <2>3. CASE ~(i <= Len(s))
    <3>1. i - Len(s) \in 1..Len(t) /\ t[i - Len(s)] = x
      BY <1>1, <1>2, <2>1, <2>3
    <3> QED
      BY <3>1, SetOfSeq
  <2> QED
    BY <2>2, <2>3
<1>4. ASSUME NEW x \in ToSet(s) PROVE x \in ToSet(u)
  <2>1. PICK i \in 1..Len(s) : s[i] = x
    BY SetOfSeq
  <2>2. i \in 1..Len(u) /\ u[i] = x
    BY <1>1, <1>2, <2>1
  <2> QED
    BY <1>1, <2>2, SetOfSeq
<1>5. ASSUME NEW x \in ToSet(t) PROVE x \in ToSet(u)
  <2>1. PICK i \in 1..Len(t) : t[i] = x
    BY SetOfSeq
  <2>2. i + Len(s) \in 1..Len(u) /\ (i + Len(s)) - Len(s) = i /\ ~(i + Len(s) <= Len(s))
    BY <1>1, <1>2, <2>1
  <2>3. u[i + Len(s)] = x
    BY <1>1, <2>1, <2>2
  <2> QED
    BY <1>1, <2>2, <2>3, SetOfSeq
<1> QED
  BY <1>1, <1>3, <1>4, <1>5 DEF u

LEMMA FrontLast ==
  ASSUME NEW T, NEW s \in Seq(T), s # <<>>
  PROVE  /\ Front(s) \in Seq(T) /\ Len(Front(s)) = Len(s) - 1 /\ Len(s) - 1 \in Nat
         /\ Last(s) \in T
         /\ ToSet(s) = ToSet(Front(s)) \cup {Last(s)}
         /\ \A i \in 1..Len(s) - 1 : Front(s)[i] = s[i]
<1>1. Len(s) \in Nat /\ Len(s) # 0
  BY LenProperties, EmptySeq
<1>2. 1 \in 1..Len(s) + 1 /\ Len(s) - 1 \in 0..Len(s) /\ Len(s) \in 1..Len(s)
  BY <1>1
<1> DEFINE f == Front(s)
<1>3. /\ f \in Seq(T) /\ Len(f) = Len(s) - 1
      /\ \A i \in 1..Len(s) - 1 : f[i] = s[i]
  <2>1. /\ SubSeq(s, 1, Len(s) - 1) \in Seq(T)
        /\ Len(SubSeq(s, 1, Len(s) - 1)) = (IF 1 <= Len(s) - 1 THEN Len(s) - 1 - 1 + 1 ELSE 0)
        /\ \A i \in 1..Len(s) - 1 - 1 + 1 : SubSeq(s, 1, Len(s) - 1)[i] = s[1 + i - 1]
    BY <1>2, SubSeqProperties
  <2>4. \A i \in 1..Len(s) - 1 : i \in 1..Len(s) - 1 - 1 + 1 /\ 1 + i - 1 = i
    BY <1>1
  <2>5. \A n \in Nat : n # 0 => (IF 1 <= n - 1 THEN n - 1 - 1 + 1 ELSE 0) = n - 1
    OBVIOUS
  <2>2. (IF 1 <= Len(s) - 1 THEN Len(s) - 1 - 1 + 1 ELSE 0) = Len(s) - 1
    BY <1>1, <2>5
  <2>3. f = SubSeq(s, 1, Len(s) - 1)
    BY DEF Front
  <2> HIDE DEF f
  <2> QED
    BY <2>1, <2>2, <2>3, <2>4
<1> HIDE DEF f
<1>4. Last(s) \in T
  BY <1>2, ElementOfSeq DEF Last
<1>5. \A i \in 1..Len(s) : i = Len(s) \/ i \in 1..Len(s) - 1
  BY <1>1
<1>6. \A i \in 1..Len(s) - 1 : i \in 1..Len(s)
  BY <1>1
<1>7. DOMAIN f = 1..Len(s) - 1 /\ DOMAIN s = 1..Len(s)
  BY <1>3, LenProperties
<1>8. ToSet(s) = ToSet(f) \cup {Last(s)}
  BY <1>2, <1>3, <1>5, <1>6, <1>7 DEF ToSet, Last
<1> QED
  BY <1>1, <1>3, <1>4, <1>8 DEF f

(* The length of a sequence without repetition is the number of elements. *)
LEMMA CardinalityOfSeq ==
  ASSUME NEW T, NEW s \in Seq(T), IsInjective(s)
  PROVE  Cardinality(ToSet(s)) = Len(s)
<1> DEFINE f == [i \in 1..Len(s) |-> s[i]]
<1>1. /\ DOMAIN s = 1..Len(s) /\ Len(s) \in Nat
      /\ \A i \in 1..Len(s) : s[i] \in ToSet(s)
      /\ \A x : x \in ToSet(s) <=> \E i \in 1..Len(s) : s[i] = x
  BY SetOfSeq
<1>2. \A i, j \in 1..Len(s) : s[i] = s[j] => i = j
  BY <1>1 DEF IsInjective
<1>3. f \in Surjection(1..Len(s), ToSet(s)) /\ f \in Injection(1..Len(s), ToSet(s))
  BY <1>1, <1>2 DEF Surjection, Injection
<1>4. IsFiniteSet(1..Len(s)) /\ Cardinality(1..Len(s)) = Len(s)
  BY <1>1, UpTo
<1> HIDE DEF f
<1>5. Cardinality(ToSet(s)) = Cardinality(1..Len(s))
  BY <1>3, <1>4, FS_Surjection
<1> QED
  BY <1>4, <1>5

LEMMA ThoseFacts ==
  ASSUME NEW T, NEW s \in Seq(T), NEW S
  PROVE  /\ Those(s, S) \in Seq(T) /\ Len(Those(s, S)) <= Len(s)
         /\ \A x : x \in ToSet(Those(s, S)) <=> x \in ToSet(s) /\ x \in S
         /\ IsInjective(s) => IsInjective(Those(s, S))
<1> DEFINE t == Those(s, S)
<1>1. PICK f : t \in Seq(T) /\ Origin(f, t, s, S, Len(s))
  BY ThoseOrigin
<1> HIDE DEF t
<1>2. /\ DOMAIN s = 1..Len(s) /\ Len(s) \in Nat /\ DOMAIN t = 1..Len(t) /\ Len(t) \in Nat
  BY <1>1, SetOfSeq
<1>3. /\ f \in [1..Len(t) -> 1..Len(s)]
      /\ \A i \in 1..Len(t) : t[i] = s[f[i]] /\ t[i] \in S
      /\ \A i, j \in 1..Len(t) : f[i] = f[j] => i = j
      /\ \A k \in 1..Len(s) : s[k] \in S => \E i \in 1..Len(t) : f[i] = k
  BY <1>1 DEF Origin
<1>4. Len(t) <= Len(s)
  <2>1. f \in Injection(1..Len(t), 1..Len(s))
    BY <1>3 DEF Injection, IsInjective
  <2>2. IsFiniteSet(1..Len(s)) /\ Cardinality(1..Len(s)) = Len(s)
    BY <1>2, UpTo
  <2>3. Cardinality(1..Len(t)) = Len(t)
    BY <1>2, UpTo
  <2>4. Cardinality(1..Len(t)) <= Cardinality(1..Len(s))
    BY <2>1, <2>2, FS_Injection
  <2> QED
    BY <2>2, <2>3, <2>4
<1>5. ASSUME NEW x PROVE x \in ToSet(t) <=> x \in ToSet(s) /\ x \in S
  <2>1. ASSUME x \in ToSet(t) PROVE x \in ToSet(s) /\ x \in S
    BY <1>2, <1>3, <2>1 DEF ToSet
  <2>2. ASSUME x \in ToSet(s), x \in S PROVE x \in ToSet(t)
    <3>1. PICK k \in 1..Len(s) : s[k] = x
      BY <1>2, <2>2 DEF ToSet
    <3>2. PICK i \in 1..Len(t) : f[i] = k
      BY <1>3, <2>2, <3>1
    <3> QED
      BY <1>2, <1>3, <3>1, <3>2 DEF ToSet
  <2> QED
    BY <2>1, <2>2
<1>6. ASSUME IsInjective(s) PROVE IsInjective(t)
  BY <1>2, <1>3, <1>6 DEF IsInjective
<1> QED
  BY <1>1, <1>4, <1>5, <1>6 DEF t

LEMMA WithoutFacts ==
  ASSUME NEW T, NEW s \in Seq(T), NEW S
  PROVE  /\ Without(s, S) \in Seq(T) /\ Len(Without(s, S)) <= Len(s)
         /\ \A x : x \in ToSet(Without(s, S)) <=> x \in ToSet(s) /\ x \notin S
         /\ IsInjective(s) => IsInjective(Without(s, S))
<1> DEFINE R == ToSet(s) \ S
<1>1. /\ Those(s, R) \in Seq(T) /\ Len(Those(s, R)) <= Len(s)
      /\ \A x : x \in ToSet(Those(s, R)) <=> x \in ToSet(s) /\ x \in R
      /\ IsInjective(s) => IsInjective(Those(s, R))
  <2> HIDE DEF R
  <2> QED
    BY ThoseFacts
<1> QED
  BY <1>1 DEF Without

-----------------------------------------------------------------------------
(* The edges as a walk sees them. *)
Ends(g, forward) ==
  IF forward THEN ToSet(g.edges) ELSE {<<e[2], e[1]>> : e \in ToSet(g.edges)}

LEMMA NeighboursFacts ==
  ASSUME NEW es \in Seq(Edge), IsInjective(es), NEW id, NEW near \in {1, 2},
         NEW far \in {1, 2}, near # far
  PROVE  /\ Neighbours(es, id, near, far) \in Seq(Nat)
         /\ Len(Neighbours(es, id, near, far)) <= Len(es)
         /\ \A n : n \in ToSet(Neighbours(es, id, near, far)) <=>
                     \E e \in ToSet(es) : e[near] = id /\ e[far] = n
         /\ IsInjective(Neighbours(es, id, near, far))
<1> DEFINE S == {e \in ToSet(es) : e[near] = id}
           t == Those(es, S)
           u == Neighbours(es, id, near, far)
<1>1. /\ t \in Seq(Edge) /\ Len(t) <= Len(es) /\ IsInjective(t)
      /\ \A e : e \in ToSet(t) <=> e \in ToSet(es) /\ e[near] = id
  <2>1. /\ t \in Seq(Edge) /\ Len(t) <= Len(es) /\ IsInjective(t)
        /\ \A e : e \in ToSet(t) <=> e \in ToSet(es) /\ e \in S
    <3> HIDE DEF S
    <3> QED
      BY ThoseFacts
  <2> QED
    BY <2>1
<1>2. u = [i \in DOMAIN t |-> t[i][far]] /\ u \in Seq(Nat)
  <2>1. u = [i \in DOMAIN t |-> t[i][far]]
    BY DEF Neighbours
  <2>2. u \in Seq(Nat)
    BY NeighboursType
  <2> QED
    BY <2>1, <2>2
<1> HIDE DEF t, u
<1>3. /\ DOMAIN t = 1..Len(t) /\ Len(t) \in Nat /\ DOMAIN u = 1..Len(u) /\ Len(u) \in Nat
      /\ \A i \in 1..Len(t) : t[i] \in Edge /\ t[i] \in ToSet(t)
  BY <1>1, <1>2, SetOfSeq
<1>4. DOMAIN u = 1..Len(t)
  BY <1>2, <1>3
<1>5. Len(u) = Len(t)
  <2>1. Cardinality(1..Len(t)) = Len(t)
    BY <1>3, UpTo
  <2>2. Cardinality(1..Len(u)) = Len(u)
    BY <1>3, UpTo
  <2> QED
    BY <1>3, <1>4, <2>1, <2>2
<1>6. ASSUME NEW n PROVE n \in ToSet(u) <=> \E e \in ToSet(es) : e[near] = id /\ e[far] = n
  <2>1. n \in ToSet(u) <=> \E i \in 1..Len(t) : t[i][far] = n
    BY <1>2, <1>4 DEF ToSet
  <2>2. \A e : e \in ToSet(t) <=> \E i \in 1..Len(t) : t[i] = e
    BY <1>3 DEF ToSet
  <2> QED
    BY <1>1, <2>1, <2>2
<1>7. IsInjective(u)
  <2> SUFFICES ASSUME NEW i \in 1..Len(t), NEW j \in 1..Len(t), u[i] = u[j] PROVE i = j
    BY <1>4 DEF IsInjective
  <2>1. t[i][far] = t[j][far] /\ t[i][near] = t[j][near]
    BY <1>1, <1>2, <1>3
  <2>2. t[i] \in Nat \X Nat /\ t[j] \in Nat \X Nat
    BY <1>3 DEF Edge
  <2>3. t[i][1] = t[j][1] /\ t[i][2] = t[j][2]
    BY <2>1
  <2>4. t[i] = t[j]
    BY <2>2, <2>3
  <2> QED
    BY <1>1, <1>3, <2>4 DEF IsInjective
<1> QED
  BY <1>1, <1>2, <1>5, <1>6, <1>7 DEF u

LEMMA StepFacts ==
  ASSUME NEW V, NEW h \in SoundGraphs(V), NEW forward \in BOOLEAN, NEW id
  PROVE  /\ Step(h, forward, id) \in Seq(Nat) /\ Len(Step(h, forward, id)) <= Len(h.edges)
         /\ \A n : n \in ToSet(Step(h, forward, id)) <=> <<id, n>> \in Ends(h, forward)
         /\ IsInjective(Step(h, forward, id))
<1>1. h \in GraphType(V) /\ EdgesInv(h) /\ AdjInv(h)
  BY DEF SoundGraphs, Sound
<1>2. h.edges \in Seq(Edge)
  BY <1>1, GraphFields
<1>3. \A e \in ToSet(h.edges) : e \in Edge /\ e = <<e[1], e[2]>>
  <2>1. ToSet(h.edges) \in SUBSET Edge
    BY <1>2, SetOfSeq
  <2> QED
    BY <2>1 DEF Edge
<1>4. IsInjective(h.edges)
  <2>1. DOMAIN h.edges = 1..Len(h.edges)
    BY <1>2, SetOfSeq
  <2> QED
    BY <1>1, <2>1 DEF EdgesInv, IsInjective
<1>5. CASE forward
  <2>1. Step(h, forward, id) = Neighbours(h.edges, id, 1, 2)
    BY <1>1, <1>2, <1>5, AtAdjacency DEF Step, Successors, AdjInv
  <2>2. \A n : <<id, n>> \in Ends(h, forward) <=> \E e \in ToSet(h.edges) : e[1] = id /\ e[2] = n
    BY <1>3, <1>5 DEF Ends
  <2> QED
    BY <1>2, <1>4, <2>1, <2>2, NeighboursFacts
<1>6. CASE ~forward
  <2>1. Step(h, forward, id) = Neighbours(h.edges, id, 2, 1)
    BY <1>1, <1>2, <1>6, AtAdjacency DEF Step, Predecessors, AdjInv
  <2>2. \A n : <<id, n>> \in Ends(h, forward) <=> \E e \in ToSet(h.edges) : e[2] = id /\ e[1] = n
    BY <1>3, <1>6 DEF Ends
  <2> QED
    BY <1>2, <1>4, <2>1, <2>2, NeighboursFacts
<1> QED
  BY <1>5, <1>6

LEMMA EndsFacts ==
  ASSUME NEW V, NEW h \in SoundGraphs(V), NEW forward \in BOOLEAN
  PROVE  /\ Ends(h, forward) \in SUBSET Edge
         /\ \A a, b : <<a, b>> \in Ends(h, forward) <=> <<b, a>> \in Ends(h, ~forward)
         /\ \A e \in Ends(h, forward) : e = <<e[1], e[2]>> /\ e[1] \in NodeIds(h)
                                         /\ e[2] \in NodeIds(h) /\ e[1] # e[2]
         /\ NodeIds(h) \in SUBSET Nat /\ IsFiniteSet(NodeIds(h))
         /\ \A id \in NodeIds(h) : KindOf(h, id) \in Kinds
<1>1. /\ h \in GraphType(V) /\ EdgesInv(h) /\ IdsInv(h) /\ h.edges \in Seq(Edge)
      /\ NodeIds(h) = Ids(h) /\ Ids(h) \in SUBSET Nat
      /\ h.nodes \in Seq(NodeType(V)) /\ Len(h.nodes) \in Nat
      /\ \A i \in 1..Len(h.nodes) : h.nodes[i] \in NodeType(V)
  BY GraphFields DEF SoundGraphs, Sound
<1>2. \A e \in ToSet(h.edges) : /\ e \in Edge /\ e = <<e[1], e[2]>> /\ e[1] \in Nat /\ e[2] \in Nat
                                /\ e[1] \in Ids(h) /\ e[2] \in Ids(h) /\ e[1] # e[2]
  <2>1. ToSet(h.edges) \in SUBSET Edge /\ DOMAIN h.edges = 1..Len(h.edges)
    BY <1>1, SetOfSeq
  <2> QED
    BY <1>1, <2>1 DEF Edge, EdgesInv, ToSet
<1>3. Ends(h, forward) \in SUBSET Edge
  BY <1>2 DEF Ends, Edge
<1>4. \A a, b : <<a, b>> \in Ends(h, forward) <=> <<b, a>> \in Ends(h, ~forward)
  BY <1>2 DEF Ends
<1>5. \A e \in Ends(h, forward) : e = <<e[1], e[2]>> /\ e[1] \in NodeIds(h)
                                         /\ e[2] \in NodeIds(h) /\ e[1] # e[2]
  BY <1>1, <1>2 DEF Ends
<1>6. IsFiniteSet(NodeIds(h))
  <2> DEFINE f == [i \in 1..Len(h.nodes) |-> h.nodes[i].id]
  <2>1. f \in Surjection(1..Len(h.nodes), Ids(h))
    BY DEF Surjection, Ids
  <2>2. IsFiniteSet(1..Len(h.nodes))
    BY <1>1, UpTo
  <2> HIDE DEF f
  <2> QED
    BY <1>1, <2>1, <2>2, FS_Surjection
<1>7. ASSUME NEW id \in NodeIds(h) PROVE KindOf(h, id) \in Kinds
  <2>1. PICK i \in 1..Len(h.nodes) : h.nodes[i].id = id
    BY <1>1 DEF Ids
  <2>2. h.id_to_idx[id] = i
    BY <1>1, <2>1 DEF IdsInv
  <2>3. h.nodes[i] \in NodeType(V)
    BY <1>1
  <2> QED
    BY <2>2, <2>3 DEF KindOf, FindNode, NodeType
<1> QED
  BY <1>1, <1>3, <1>4, <1>5, <1>6, <1>7

-----------------------------------------------------------------------------
(* Walks.                                                                  *)
LEMMA InnerFacts ==
  ASSUME NEW V, NEW h \in SoundGraphs(V), NEW comb \in BOOLEAN
  PROVE  /\ Inner(h, comb) \in SUBSET NodeIds(h) /\ Registers(h) \in SUBSET NodeIds(h)
         /\ \A id \in NodeIds(h) : id \in Inner(h, comb) <=> Passes(h, id, comb)
         /\ \A id \in Registers(h) : id \notin Inner(h, comb)
<1>1. \A id \in NodeIds(h) : KindOf(h, id) \in Kinds
  BY EndsFacts
<1>2. \A id \in NodeIds(h) : id \in Inner(h, comb) <=> Passes(h, id, comb)
  BY <1>1 DEF Inner, Passes, IsDataNode, Kinds
<1> QED
  BY <1>2 DEF Inner, Registers, IsRegister

LEMMA WalkStepType ==
  ASSUME NEW V, NEW h \in SoundGraphs(V), NEW forward \in BOOLEAN, NEW comb,
         NEW w \in WalkStates, w.stack # <<>>
  PROVE  WalkStep(h, forward, comb, w) \in WalkStates
<1> DEFINE id == Last(w.stack)
           seen == w.visited \cup {id}
           pushed == IF Passes(h, id, comb) THEN Without(Step(h, forward, id), seen) ELSE <<>>
<1>1. /\ w = [stack |-> w.stack, visited |-> w.visited, found |-> w.found]
      /\ w.stack \in Seq(Nat) /\ w.visited \in SUBSET Nat /\ w.found \in Seq(Nat)
  BY DEF WalkStates
<1>2. Front(w.stack) \in Seq(Nat) /\ id \in Nat
  BY <1>1, FrontLast
<1>3. pushed \in Seq(Nat)
  BY StepFacts, WithoutFacts, EmptySeq
<1> HIDE DEF id, pushed
<1>4. seen \in SUBSET Nat
  BY <1>1, <1>2
<1> HIDE DEF seen
<1>5. Front(w.stack) \o pushed \in Seq(Nat) /\ Append(w.found, id) \in Seq(Nat)
  BY <1>1, <1>2, <1>3, ConcatProperties, AppendProperties
<1>6. WalkStep(h, forward, comb, w) \in
        {[stack |-> Front(w.stack), visited |-> w.visited, found |-> w.found],
         [stack |-> Front(w.stack), visited |-> seen, found |-> Append(w.found, id)],
         [stack |-> Front(w.stack) \o pushed, visited |-> seen, found |-> w.found]}
  BY <1>1 DEF WalkStep, id, seen, pushed
<1>7. \A s, f \in Seq(Nat), v \in SUBSET Nat :
        [stack |-> s, visited |-> v, found |-> f] \in WalkStates
  BY DEF WalkStates
<1> QED
  BY <1>1, <1>2, <1>4, <1>5, <1>6, <1>7

(* A walk ends: each turn visits a node, or takes one from the stack.      *)
WalkRank(h) ==
  [w \in WalkStates |->
     (Len(h.edges) + 1) * Cardinality((NodeIds(h) \cup ToSet(w.stack)) \ w.visited)
       + Len(w.stack)]

LEMMA Fewer ==
  ASSUME NEW b \in Nat, NEW c \in Nat, NEW d \in Nat, d < c
  PROVE  (b + 1) * d + (b + 1) <= (b + 1) * c
<1> DEFINE e == c - (d + 1)
<1>1. e \in Nat /\ c = d + 1 + e
  OBVIOUS
<1> HIDE DEF e
<1>2. (b + 1) * e \in Nat /\ (b + 1) * d \in Nat
  BY <1>1
<1>3. (b + 1) * (d + 1 + e) = (b + 1) * d + (b + 1) + (b + 1) * e
  BY <1>1
<1> QED
  BY <1>1, <1>2, <1>3

LEMMA WalkRankType ==
  ASSUME NEW V, NEW h \in SoundGraphs(V)
  PROVE  WalkRank(h) \in [WalkStates -> Nat]
<1>1. Len(h.edges) \in Nat
  BY GraphFields DEF SoundGraphs
<1>2. ASSUME NEW w \in WalkStates
      PROVE  /\ Cardinality((NodeIds(h) \cup ToSet(w.stack)) \ w.visited) \in Nat
             /\ Len(w.stack) \in Nat
  <2>1. w.stack \in Seq(Nat)
    BY DEF WalkStates
  <2>2. IsFiniteSet(NodeIds(h)) /\ IsFiniteSet(ToSet(w.stack)) /\ Len(w.stack) \in Nat
    BY <2>1, EndsFacts, SetOfSeq
  <2>3. IsFiniteSet((NodeIds(h) \cup ToSet(w.stack)) \ w.visited)
    BY <2>2, FS_Union, FS_Difference
  <2> QED
    BY <2>2, <2>3, FS_CardinalityType
<1>3. \A c \in Nat : (Len(h.edges) + 1) * c \in Nat
  BY <1>1
<1> QED
  BY <1>2, <1>3 DEF WalkRank

LEMMA WalkShrinks ==
  ASSUME NEW V, NEW h \in SoundGraphs(V), NEW forward \in BOOLEAN, NEW comb,
         NEW w \in WalkStates, w.stack # <<>>
  PROVE  WalkRank(h)[WalkStep(h, forward, comb, w)] < WalkRank(h)[w]
<1> DEFINE k == WalkStep(h, forward, comb, w)
           id == Last(w.stack)
           rest == Front(w.stack)
           seen == w.visited \cup {id}
           pushed == IF Passes(h, id, comb) THEN Without(Step(h, forward, id), seen) ELSE <<>>
           B == Len(h.edges)
           A == (NodeIds(h) \cup ToSet(w.stack)) \ w.visited
           C == (NodeIds(h) \cup ToSet(k.stack)) \ k.visited
<1>1. /\ w = [stack |-> w.stack, visited |-> w.visited, found |-> w.found]
      /\ w.stack \in Seq(Nat) /\ w.visited \in SUBSET Nat /\ w.found \in Seq(Nat)
  BY DEF WalkStates
<1>2. /\ rest \in Seq(Nat) /\ id \in Nat /\ Len(rest) = Len(w.stack) - 1
      /\ ToSet(w.stack) = ToSet(rest) \cup {id}
  BY <1>1, FrontLast
<1>3. /\ pushed \in Seq(Nat) /\ Len(pushed) <= B
      /\ \A x \in ToSet(pushed) : x \in NodeIds(h)
  <2> DEFINE s == Step(h, forward, id)
  <2>1. s \in Seq(Nat) /\ Len(s) <= B /\ \A n : n \in ToSet(s) <=> <<id, n>> \in Ends(h, forward)
    BY StepFacts
  <2>2. \A n : n \in ToSet(s) => n \in NodeIds(h)
    <3>1. \A e \in Ends(h, forward) : e[2] \in NodeIds(h)
      BY EndsFacts
    <3>2. \A n : <<id, n>> \in Ends(h, forward) => n \in NodeIds(h)
      BY <3>1
    <3> QED
      BY <2>1, <3>2
  <2> HIDE DEF s
  <2>3. /\ Without(s, seen) \in Seq(Nat) /\ Len(Without(s, seen)) <= Len(s)
        /\ \A x : x \in ToSet(Without(s, seen)) <=> x \in ToSet(s) /\ x \notin seen
    BY <2>1, WithoutFacts
  <2>4. <<>> \in Seq(Nat) /\ Len(<<>>) = 0 /\ ToSet(<<>>) = {}
    BY EmptySeq DEF ToSet
  <2>5. B \in Nat /\ Len(s) \in Nat /\ Len(Without(s, seen)) \in Nat
    BY <2>1, <2>3, GraphFields, LenProperties DEF SoundGraphs
  <2>6. pushed = Without(s, seen) \/ pushed = <<>>
    BY DEF s
  <2> DEFINE r == Without(s, seen)
  <2> HIDE DEF pushed, B, seen, r
  <2>7. r \in Seq(Nat) /\ Len(r) <= B /\ \A x \in ToSet(r) : x \in NodeIds(h)
    BY <2>1, <2>2, <2>3, <2>5 DEF r
  <2>8. CASE pushed = r
    BY <2>7, <2>8
  <2>9. CASE pushed = <<>>
    BY <2>4, <2>5, <2>9
  <2> QED
    BY <2>6, <2>8, <2>9 DEF r
<1>4. /\ k \in WalkStates
      /\ \/ k.stack = rest /\ k.visited = w.visited /\ id \in w.visited
         \/ k.stack = rest /\ k.visited = seen /\ id \notin w.visited
         \/ k.stack = rest \o pushed /\ k.visited = seen /\ id \notin w.visited
  <2>1. k \in WalkStates
    BY WalkStepType
  <2> QED
    BY <1>1, <2>1 DEF WalkStep
<1>5. WalkRank(h)[k] = (B + 1) * Cardinality(C) + Len(k.stack)
  BY <1>4 DEF WalkRank
<1>6. WalkRank(h)[w] = (B + 1) * Cardinality(A) + Len(w.stack)
  BY DEF WalkRank
<1>7. IsFiniteSet(A) /\ IsFiniteSet(C)
  <2>1. k.stack \in Seq(Nat)
    BY <1>4 DEF WalkStates
  <2>2. IsFiniteSet(NodeIds(h)) /\ IsFiniteSet(ToSet(w.stack)) /\ IsFiniteSet(ToSet(k.stack))
    BY <1>1, <2>1, EndsFacts, SetOfSeq
  <2> QED
    BY <2>2, FS_Union, FS_Difference
<1>8. B \in Nat /\ Len(rest) \in Nat /\ Len(pushed) \in Nat
  BY <1>2, <1>3, GraphFields, LenProperties DEF SoundGraphs
<1>9. /\ rest \o pushed \in Seq(Nat) /\ Len(rest \o pushed) = Len(rest) + Len(pushed)
      /\ ToSet(rest \o pushed) = ToSet(rest) \cup ToSet(pushed)
  <2> HIDE DEF rest, pushed
  <2>1. rest \in Seq(Nat) /\ pushed \in Seq(Nat)
    BY <1>2, <1>3
  <2> QED
    BY <2>1, SetOfConcat
<1>20. SUFFICES WalkRank(h)[k] < WalkRank(h)[w]
  OBVIOUS
<1>10. CASE id \in w.visited
  <2>1. k.stack = rest /\ k.visited = w.visited
    BY <1>4, <1>10
  <2>2. C = A
    BY <1>2, <1>10, <2>1
  <2>3. (B + 1) * Cardinality(A) \in Nat
    BY <1>7, <1>8, FS_CardinalityType
  <2> HIDE DEF B, A, C, k, rest
  <2>4. Len(w.stack) \in Nat
    BY <1>1, LenProperties
  <2> QED
    BY <1>2, <1>5, <1>6, <1>8, <2>1, <2>2, <2>3, <2>4
<1>11. CASE id \notin w.visited
  <2>1. k.visited = seen /\ (k.stack = rest \/ k.stack = rest \o pushed)
    BY <1>4, <1>11
  <2> HIDE DEF k, pushed, rest, id
  <2>2. C \subseteq A \ {id} /\ id \in A
    BY <1>2, <1>3, <1>9, <1>11, <2>1
  <2> HIDE DEF B, A, C
  <2>3. IsFiniteSet(A \ {id}) /\ Cardinality(A \ {id}) = Cardinality(A) - 1
    BY <1>7, <2>2, FS_RemoveElement
  <2>4. Cardinality(C) <= Cardinality(A \ {id})
    BY <2>2, <2>3, FS_Subset
  <2>5. Cardinality(C) \in Nat /\ Cardinality(A) \in Nat
    BY <1>7, FS_CardinalityType
  <2>6. Cardinality(C) < Cardinality(A)
    BY <2>3, <2>4, <2>5
  <2>7. (B + 1) * Cardinality(C) + (B + 1) <= (B + 1) * Cardinality(A)
    BY <1>8, <2>5, <2>6, Fewer
  <2>8. Len(k.stack) <= Len(rest) + B /\ Len(k.stack) \in Nat
    BY <1>3, <1>8, <1>9, <2>1
  <2>9. (B + 1) * Cardinality(C) \in Nat /\ (B + 1) * Cardinality(A) \in Nat
    BY <1>8, <2>5
  <2>10. Len(w.stack) \in Nat
    BY <1>1, LenProperties
  <2> QED
    BY <1>2, <1>5, <1>6, <1>8, <2>7, <2>8, <2>9, <2>10
<1> QED
  BY <1>10, <1>11

(* The function that a walk is defined by. *)
Walks(walk, h, forward, comb) ==
  /\ walk \in [WalkStates -> Seq(Nat)]
  /\ \A w \in WalkStates : w.stack = <<>> => walk[w] = w.found
  /\ \A w \in WalkStates : w.stack # <<>> => walk[w] = walk[WalkStep(h, forward, comb, w)]

WalkNext(h, forward, comb) ==
  [w \in WalkStates |-> IF w.stack = <<>> THEN w ELSE WalkStep(h, forward, comb, w)]

WalkEnd == {w \in WalkStates : w.stack = <<>>}

LEMMA WalkLoop ==
  ASSUME NEW V, NEW h \in SoundGraphs(V), NEW forward \in BOOLEAN, NEW comb
  PROVE  /\ WalkNext(h, forward, comb) \in [WalkStates -> WalkStates]
         /\ \A w \in WalkStates \ WalkEnd : WalkNext(h, forward, comb)[w] = WalkStep(h, forward, comb, w)
         /\ Shrinks(WalkRank(h), WalkStates, WalkEnd, WalkNext(h, forward, comb))
<1>1. \A w \in WalkStates : w.stack # <<>> =>
        /\ WalkStep(h, forward, comb, w) \in WalkStates
        /\ WalkRank(h)[WalkStep(h, forward, comb, w)] < WalkRank(h)[w]
  BY WalkStepType, WalkShrinks
<1>2. \A w \in WalkStates \ WalkEnd : /\ w.stack # <<>>
                                      /\ WalkNext(h, forward, comb)[w] = WalkStep(h, forward, comb, w)
  BY DEF WalkNext, WalkEnd
<1>3. WalkNext(h, forward, comb) \in [WalkStates -> WalkStates]
  BY <1>1 DEF WalkNext
<1>4. \A w \in WalkStates \ WalkEnd :
         WalkRank(h)[WalkNext(h, forward, comb)[w]] < WalkRank(h)[w]
  BY <1>1, <1>2
<1> QED
  BY <1>2, <1>3, <1>4 DEF Shrinks

WalkStart(first, start) == [stack |-> first, visited |-> start, found |-> <<>>]

LEMMA WalkDef ==
  ASSUME NEW V, NEW h \in SoundGraphs(V), NEW forward \in BOOLEAN, NEW comb,
         NEW first \in Seq(Nat), NEW start \in SUBSET Nat
  PROVE  \E walk :
           /\ Walks(walk, h, forward, comb)
           /\ RegisterWalk(h, forward, comb, first, start) =
                walk[WalkStart(first, start)]
<1> DEFINE Turn(f, w) == IF w.stack = <<>> THEN w.found ELSE f[WalkStep(h, forward, comb, w)]
           Solves(f) == f = [w \in WalkStates |-> Turn(f, w)]
           out == [w \in WalkStates |-> w.found]
           next == WalkNext(h, forward, comb)
           w0 == WalkStart(first, start)
<1>1. out \in [WalkStates -> Seq(Nat)] /\ Seq(Nat) # {}
  BY EmptySeq DEF WalkStates
<1>2. /\ next \in [WalkStates -> WalkStates] /\ Shrinks(WalkRank(h), WalkStates, WalkEnd, next)
      /\ WalkRank(h) \in [WalkStates -> Nat]
      /\ \A w \in WalkStates \ WalkEnd : next[w] = WalkStep(h, forward, comb, w)
  BY WalkLoop, WalkRankType
<1>3. \A w \in WalkStates : out[w] = w.found
  OBVIOUS
<1>4. \A w \in WalkStates : w \in WalkEnd <=> w.stack = <<>>
  BY DEF WalkEnd
<1> HIDE DEF next, out
<1>5. PICK f \in [WalkStates -> Seq(Nat)] : Returns(f, WalkStates, WalkEnd, out, next)
  BY <1>1, <1>2, LoopRec
<1>6. \A w \in WalkStates : f[w] = Turn(f, w)
  BY <1>2, <1>3, <1>4, <1>5 DEF Returns
<1>7. Solves(f)
  <2> HIDE DEF Turn
  <2> QED
    BY <1>6
<1> DEFINE walk == CHOOSE x : Solves(x)
<1>8. Solves(walk)
  BY <1>7
<1>9. RegisterWalk(h, forward, comb, first, start) = walk[w0]
  BY DEF RegisterWalk, WalkStart
<1> HIDE DEF walk
<1>10. \A w \in WalkStates : walk[w] = Turn(walk, w)
  <2> HIDE DEF Turn
  <2> QED
    BY <1>8
<1>11. Returns(walk, WalkStates, WalkEnd, out, next)
  BY <1>2, <1>3, <1>4, <1>10 DEF Returns
<1> DEFINE P == {w \in WalkStates : walk[w] \in Seq(Nat)}
<1>12. WalkStates \subseteq P
  <2>1. WalkStates \cap WalkEnd \subseteq P
    BY <1>1, <1>11 DEF Returns
  <2>2. Precedes(next, WalkStates, WalkEnd, P)
    BY <1>2, <1>11 DEF Returns, Precedes
  <2> HIDE DEF P
  <2> QED
    BY <1>2, <2>1, <2>2, LoopInd
<1>13. walk \in [WalkStates -> Seq(Nat)]
  <2>1. walk = [w \in WalkStates |-> walk[w]]
    <3> HIDE DEF Turn
    <3> QED
      BY <1>8, <1>10
  <2> QED
    BY <1>12, <2>1
<1> QED
  BY <1>9, <1>10, <1>13 DEF Walks

(* One turn leaves what is found and still to be found the same. *)
WalkGood(h, w) ==
  /\ ToSet(w.stack) \subseteq NodeIds(h)
  /\ ToSet(w.found) \subseteq w.visited /\ IsInjective(w.found)

WalkTotal(h, forward, comb, w) ==
  ToSet(w.found) \cup (Registers(h) \cap
    Least(Ends(h, forward), Inner(h, comb), w.visited, ToSet(w.stack)))

LEMMA WalkTurn ==
  ASSUME NEW V, NEW h \in SoundGraphs(V), NEW forward \in BOOLEAN, NEW comb \in BOOLEAN,
         NEW w \in WalkStates, w.stack # <<>>, WalkGood(h, w)
  PROVE  /\ WalkGood(h, WalkStep(h, forward, comb, w))
         /\ WalkTotal(h, forward, comb, WalkStep(h, forward, comb, w)) =
              WalkTotal(h, forward, comb, w)
<1> DEFINE k == WalkStep(h, forward, comb, w)
           id == Last(w.stack)
           rest == Front(w.stack)
           seen == w.visited \cup {id}
           out == Without(Step(h, forward, id), seen)
           pushed == IF Passes(h, id, comb) THEN out ELSE <<>>
           E == Ends(h, forward)
           I == Inner(h, comb)
           F == ToSet(rest)
<1>1. /\ w = [stack |-> w.stack, visited |-> w.visited, found |-> w.found]
      /\ w.stack \in Seq(Nat) /\ w.visited \in SUBSET Nat /\ w.found \in Seq(Nat)
  BY DEF WalkStates
<1>2. /\ rest \in Seq(Nat) /\ id \in Nat
      /\ ToSet(w.stack) = F \cup {id}
  BY <1>1, FrontLast
<1>3. id \in NodeIds(h) /\ F \subseteq NodeIds(h)
  BY <1>2 DEF WalkGood
<1>4. E \in SUBSET Edge /\ NodeIds(h) \in SUBSET Nat
      /\ \A e \in E : e = <<e[1], e[2]>> /\ e[2] \in NodeIds(h)
  BY EndsFacts
<1>5. (id \in I <=> Passes(h, id, comb)) /\ (IsRegister(h, id) <=> id \in Registers(h))
      /\ (id \in Registers(h) => id \notin I)
  BY <1>3, InnerFacts DEF Registers
<1>6. out \in Seq(Nat) /\ \A x : x \in ToSet(out) <=> <<id, x>> \in E /\ x \notin seen
  <2> DEFINE s == Step(h, forward, id)
  <2>1. s \in Seq(Nat) /\ \A n : n \in ToSet(s) <=> <<id, n>> \in E
    BY StepFacts
  <2>2. /\ Without(s, seen) \in Seq(Nat)
        /\ \A x : x \in ToSet(Without(s, seen)) <=> x \in ToSet(s) /\ x \notin seen
    <3> HIDE DEF s, seen
    <3> QED
      BY <2>1, WithoutFacts
  <2> QED
    BY <2>1, <2>2
<1>7. pushed \in Seq(Nat) /\ ToSet(<<>>) = {}
  BY <1>6, EmptySeq DEF ToSet
<1>8. /\ rest \o pushed \in Seq(Nat)
      /\ ToSet(rest \o pushed) = F \cup ToSet(pushed)
  <2>1. rest \in Seq(Nat) /\ pushed \in Seq(Nat)
    BY <1>2, <1>7
  <2> HIDE DEF rest, pushed
  <2> QED
    BY <2>1, SetOfConcat DEF F
<1>20. /\ id \in w.visited => k = [stack |-> rest, visited |-> w.visited, found |-> w.found]
       /\ id \notin w.visited /\ id \in Registers(h) =>
            k = [stack |-> rest, visited |-> seen, found |-> Append(w.found, id)]
       /\ id \notin w.visited /\ id \notin Registers(h) =>
            k = [stack |-> rest \o pushed, visited |-> seen, found |-> w.found]
  BY <1>1, <1>5 DEF WalkStep
<1>21. SUFFICES WalkGood(h, k) /\ WalkTotal(h, forward, comb, k) = WalkTotal(h, forward, comb, w)
  OBVIOUS
<1>22. ToSet(pushed) \subseteq NodeIds(h)
  <2>1. \A x \in ToSet(out) : x \in NodeIds(h)
    <3> HIDE DEF out, E, I, F, rest, pushed, id, k, seen
    <3> QED
      BY <1>4, <1>6
  <2> HIDE DEF out
  <2> QED
    BY <1>7, <2>1
<1> HIDE DEF k, id, rest, E, I, F, pushed
<1>9. CASE id \in w.visited
  <2>1. k.stack = rest /\ k.visited = w.visited /\ k.found = w.found
    BY <1>9, <1>20
  <2>2. Least(E, I, w.visited, F \cup {id}) = Least(E, I, w.visited, F)
    BY <1>9, LeastSkip
  <2>3. WalkGood(h, k)
    BY <1>3, <2>1 DEF WalkGood, F
  <2> QED
    BY <1>2, <2>1, <2>2, <2>3 DEF WalkTotal, E, I, F
<1>10. CASE id \notin w.visited /\ id \in Registers(h)
  <2>1. k.stack = rest /\ k.visited = seen /\ k.found = Append(w.found, id)
    BY <1>10, <1>20
  <2>2. F \in SUBSET Nat
    BY <1>3, <1>4
  <2>3. Least(E, I, w.visited, F \cup {id}) = {id} \cup Least(E, I, w.visited \cup {id}, F)
    <3>1. Visits(E, I, w.visited, F, id, F)
      BY <1>5, <1>10 DEF Visits
    <3>2. E \in SUBSET Edge /\ w.visited \in SUBSET Nat /\ id \in Nat /\ id \notin w.visited
      BY <1>1, <1>2, <1>4, <1>10
    <3> DEFINE v == w.visited
               F2 == F
    <3>3. Visits(E, I, v, F, id, F2)
      BY <3>1
    <3>4. E \in SUBSET Edge /\ v \in SUBSET Nat /\ id \in Nat /\ id \notin v
      BY <3>2
    <3>5. F2 \in SUBSET Nat
      BY <2>2
    <3> HIDE DEF seen, out, v, F2
    <3>6. Least(E, I, v, F \cup {id}) = {id} \cup Least(E, I, v \cup {id}, F2)
      BY <2>2, <3>3, <3>4, <3>5, LeastVisit
    <3> QED
      BY <3>6 DEF v, F2
  <2>4. id \notin ToSet(w.found) /\ IsInjective(w.found)
    BY <1>10 DEF WalkGood
  <2>5. ToSet(k.found) = ToSet(w.found) \cup {id} /\ IsInjective(k.found)
    BY <1>1, <1>2, <2>1, <2>4, SetOfAppend
  <2>6. WalkGood(h, k)
    BY <1>3, <2>1, <2>5 DEF WalkGood, F
  <2>7. WalkTotal(h, forward, comb, k) = ToSet(k.found) \cup (Registers(h) \cap Least(E, I, seen, F))
    BY <2>1 DEF WalkTotal, E, I, F
  <2>8. WalkTotal(h, forward, comb, w) =
          ToSet(w.found) \cup (Registers(h) \cap Least(E, I, w.visited, F \cup {id}))
    BY <1>2 DEF WalkTotal, E, I, F
  <2> QED
    BY <1>10, <2>3, <2>5, <2>6, <2>7, <2>8
<1>11. CASE id \notin w.visited /\ id \notin Registers(h)
  <2> DEFINE F2 == F \cup ToSet(pushed)
  <2>1. k.stack = rest \o pushed /\ k.visited = seen /\ k.found = w.found
    BY <1>11, <1>20
  <2>2. F \in SUBSET Nat /\ F2 \in SUBSET Nat
    BY <1>3, <1>4, <1>22
  <2>3. \A x : x \in ToSet(pushed) <=> id \in I /\ <<id, x>> \in E /\ x \notin seen
    BY <1>5, <1>6, <1>7 DEF pushed
  <2>4. id \in I => \A e \in E : e[1] = id => e[2] \in F2 \/ e[2] \in w.visited \cup {id}
    BY <1>4, <2>3
  <2>5. /\ \A n \in F2 : n \in F \/ (id \in I /\ <<id, n>> \in E)
        /\ \A n \in F : n \in F2 \/ n = id
    BY <2>3
  <2> HIDE DEF F2
  <2>6. Least(E, I, w.visited, F \cup {id}) = {id} \cup Least(E, I, w.visited \cup {id}, F2)
    <3>1. Visits(E, I, w.visited, F, id, F2)
      BY <2>4, <2>5 DEF Visits
    <3>2. E \in SUBSET Edge /\ w.visited \in SUBSET Nat /\ id \in Nat /\ id \notin w.visited
      BY <1>1, <1>2, <1>4, <1>11
    <3> QED
      BY <2>2, <3>1, <3>2, LeastVisit
  <2>7. WalkGood(h, k)
    BY <1>3, <1>8, <1>22, <2>1 DEF WalkGood, F
  <2>8. WalkTotal(h, forward, comb, k) = ToSet(w.found) \cup (Registers(h) \cap Least(E, I, seen, F2))
    BY <1>8, <2>1 DEF WalkTotal, E, I, F2
  <2>9. WalkTotal(h, forward, comb, w) =
          ToSet(w.found) \cup (Registers(h) \cap Least(E, I, w.visited, F \cup {id}))
    BY <1>2 DEF WalkTotal, E, I
  <2> QED
    BY <1>11, <2>6, <2>7, <2>8, <2>9
<1> QED
  BY <1>9, <1>10, <1>11

(* A walk lists what it reaches, each register once. *)
LEMMA WalkFinds ==
  ASSUME NEW V, NEW h \in SoundGraphs(V), NEW forward \in BOOLEAN, NEW comb \in BOOLEAN,
         NEW first \in Seq(Nat), ToSet(first) \subseteq NodeIds(h), NEW start \in SUBSET Nat
  PROVE  /\ RegisterWalk(h, forward, comb, first, start) \in Seq(Nat)
         /\ IsInjective(RegisterWalk(h, forward, comb, first, start))
         /\ ToSet(RegisterWalk(h, forward, comb, first, start)) =
              Registers(h) \cap Least(Ends(h, forward), Inner(h, comb), start, ToSet(first))
<1> DEFINE w0 == WalkStart(first, start)
           next == WalkNext(h, forward, comb)
<1>1. PICK walk :
           /\ Walks(walk, h, forward, comb)
           /\ RegisterWalk(h, forward, comb, first, start) = walk[w0]
  BY WalkDef
<1>2. /\ next \in [WalkStates -> WalkStates] /\ Shrinks(WalkRank(h), WalkStates, WalkEnd, next)
      /\ WalkRank(h) \in [WalkStates -> Nat]
      /\ \A w \in WalkStates \ WalkEnd : next[w] = WalkStep(h, forward, comb, w)
  BY WalkLoop, WalkRankType
<1> DEFINE Right(w) == /\ IsInjective(walk[w])
                       /\ ToSet(walk[w]) = WalkTotal(h, forward, comb, w)
           P == {w \in WalkStates : WalkGood(h, w) => Right(w)}
<1>3. WalkStates \cap WalkEnd \subseteq P
  <2> SUFFICES ASSUME NEW w \in WalkStates, w.stack = <<>>, WalkGood(h, w) PROVE Right(w)
    BY DEF WalkEnd
  <2>1. walk[w] = w.found
    BY <1>1 DEF Walks
  <2>2. ToSet(w.stack) = {}
    BY DEF ToSet
  <2> QED
    BY <2>1, <2>2, LeastNone DEF WalkGood, WalkTotal
<1>4. ASSUME NEW w \in WalkStates \ WalkEnd, next[w] \in P PROVE w \in P
  <2> SUFFICES ASSUME WalkGood(h, w) PROVE Right(w)
    OBVIOUS
  <2>1. w.stack # <<>> /\ w \in WalkStates
    BY DEF WalkEnd
  <2>2. walk[w] = walk[next[w]] /\ next[w] = WalkStep(h, forward, comb, w)
    BY <1>1, <1>2, <2>1 DEF Walks
  <2>3. WalkGood(h, next[w]) /\ WalkTotal(h, forward, comb, next[w]) = WalkTotal(h, forward, comb, w)
    BY <2>1, <2>2, WalkTurn
  <2>4. Right(next[w])
    BY <1>4, <2>3
  <2> QED
    BY <2>2, <2>3, <2>4
<1>5. WalkStates \subseteq P
  <2>1. Precedes(next, WalkStates, WalkEnd, P)
    BY <1>4 DEF Precedes
  <2> HIDE DEF P, next
  <2> QED
    BY <1>2, <1>3, <2>1, LoopInd
<1>6. w0 \in WalkStates /\ ToSet(<<>>) = {} /\ IsInjective(<<>>)
  BY EmptySeq DEF WalkStart, WalkStates, ToSet, IsInjective
<1>7. WalkGood(h, w0)
  BY <1>6 DEF WalkGood, WalkStart
<1>8. Right(w0)
  BY <1>5, <1>6, <1>7
<1>9. WalkTotal(h, forward, comb, w0) =
        Registers(h) \cap Least(Ends(h, forward), Inner(h, comb), start, ToSet(first))
  BY <1>6 DEF WalkTotal, WalkStart
<1>10. walk[w0] \in Seq(Nat)
  BY <1>1, <1>6 DEF Walks
<1> QED
  BY <1>1, <1>8, <1>9, <1>10

-----------------------------------------------------------------------------
(* The definition by sets comes to the same.                               *)
OneFurther(E, I, from) == from \cup {e[2] : e \in {d \in E : d[1] \in from \cap I}}

LEMMA FurtherSame ==
  ASSUME NEW E \in SUBSET Edge, NEW I, NEW from \in SUBSET Nat
  PROVE  /\ OneFurther(E, I, from) \in SUBSET Nat /\ from \subseteq OneFurther(E, I, from)
         /\ Least(E, I, {}, OneFurther(E, I, from)) = Least(E, I, {}, from)
         /\ OneFurther(E, I, from) = from => Least(E, I, {}, from) = from
         /\ \A n \in OneFurther(E, I, from) \ from : \E e \in E : e[2] = n
<1> DEFINE next == OneFurther(E, I, from)
<1>1. \A n : n \in next <=> n \in from \/ \E e \in E : e[1] \in from /\ e[1] \in I /\ e[2] = n
  BY DEF OneFurther
<1>2. next \in SUBSET Nat /\ from \subseteq next
  <2>1. \A e \in E : e[2] \in Nat
    BY DEF Edge
  <2> QED
    BY <1>1, <2>1
<1> HIDE DEF next
<1>3. ASSUME NEW T PROVE T \in Enclosures(E, I, {}, next) <=> T \in Enclosures(E, I, {}, from)
  <2>1. ASSUME T \in Enclosures(E, I, {}, from) PROVE T \in Enclosures(E, I, {}, next)
    <3>1. T \in SUBSET Nat /\ from \subseteq T /\ \A e \in E : e[1] \in T /\ e[1] \in I => e[2] \in T
      BY <2>1 DEF Enclosures, Closed
    <3>2. \A n \in next : n \in T
      BY <1>1, <3>1
    <3> QED
      BY <3>1, <3>2 DEF Enclosures, Closed
  <2>2. ASSUME T \in Enclosures(E, I, {}, next) PROVE T \in Enclosures(E, I, {}, from)
    BY <1>1, <2>2 DEF Enclosures, Closed
  <2> QED
    BY <2>1, <2>2
<1>4. Least(E, I, {}, next) = Least(E, I, {}, from)
  BY <1>3 DEF Least
<1>5. ASSUME next = from PROVE Least(E, I, {}, from) = from
  <2>1. from \in Enclosures(E, I, {}, from)
    BY <1>1, <1>5 DEF Enclosures, Closed
  <2>2. \A T \in Enclosures(E, I, {}, from) : from \subseteq T
    BY DEF Enclosures
  <2> QED
    BY <2>1, <2>2, LeastIs
<1> QED
  BY <1>1, <1>2, <1>4, <1>5 DEF next

LEMMA ReachedIsLeast ==
  ASSUME NEW E \in SUBSET Edge, IsFiniteSet(E), NEW I, NEW first \in SUBSET Nat
  PROVE  Reached(E, I, first) = Least(E, I, {}, first)
<1> DEFINE X == SUBSET Nat
           Stop == {from \in X : OneFurther(E, I, from) = from}
           out == [from \in X |-> from]
           next == [from \in X |-> OneFurther(E, I, from)]
           Left(from) == {e \in E : e[2] \notin from}
           rank == [from \in X |-> Cardinality(Left(from))]
           Turn(f, from) == IF OneFurther(E, I, from) = from THEN from
                            ELSE f[OneFurther(E, I, from)]
           Solves(f) == f = [from \in X |-> Turn(f, from)]
<1>1. next \in [X -> X] /\ out \in [X -> X] /\ X # {}
  BY FurtherSame
<1>2. \A from \in X : IsFiniteSet(Left(from)) /\ Cardinality(Left(from)) \in Nat
  <2> SUFFICES ASSUME NEW from \in X PROVE IsFiniteSet(Left(from)) /\ Cardinality(Left(from)) \in Nat
    OBVIOUS
  <2>1. Left(from) \subseteq E
    OBVIOUS
  <2> HIDE DEF Left
  <2> QED
    BY <2>1, FS_Subset, FS_CardinalityType
<1>3. rank \in [X -> Nat]
  BY <1>2
<1>4. ASSUME NEW from \in X \ Stop PROVE rank[next[from]] < rank[from]
  <2> DEFINE onward == OneFurther(E, I, from)
             A == Left(from)
             B == Left(onward)
  <2>1. onward \in X /\ from \subseteq onward /\ onward # from
        /\ \A n \in onward \ from : \E e \in E : e[2] = n
    BY FurtherSame
  <2>2. PICK e \in E : e[2] \in onward /\ e[2] \notin from
    <3> HIDE DEF onward
    <3> QED
      BY <2>1
  <2>3. B \subseteq A /\ e \in A /\ e \notin B
    <3> HIDE DEF onward
    <3> QED
      BY <2>1, <2>2
  <2>4. IsFiniteSet(A) /\ Cardinality(A) \in Nat /\ Cardinality(B) \in Nat
    BY <1>2, <2>1
  <2>5. rank[next[from]] = Cardinality(B) /\ rank[from] = Cardinality(A)
    BY <2>1
  <2> HIDE DEF A, B, rank, next
  <2>6. Cardinality(B) <= Cardinality(A) /\ (Cardinality(B) = Cardinality(A) => A = B)
    BY <2>3, <2>4, FS_Subset
  <2>7. Cardinality(B) < Cardinality(A)
    BY <2>3, <2>4, <2>6
  <2> QED
    BY <2>5, <2>7
<1>5. Shrinks(rank, X, Stop, next)
  BY <1>4 DEF Shrinks
<1> HIDE DEF rank
<1>6. \A from \in X : next[from] = OneFurther(E, I, from) /\ out[from] = from
                      /\ (from \in Stop <=> OneFurther(E, I, from) = from)
  OBVIOUS
<1> HIDE DEF X, Stop, next, out
<1>7. PICK f \in [X -> X] : Returns(f, X, Stop, out, next)
  BY <1>1, <1>3, <1>5, LoopRec
<1>8. \A from \in X : f[from] = Turn(f, from)
  BY <1>6, <1>7 DEF Returns
<1>9. Solves(f)
  <2> HIDE DEF Turn
  <2> QED
    BY <1>8
<1> DEFINE reached == CHOOSE x : Solves(x)
<1>10. Solves(reached)
  BY <1>9
<1>11. Reached(E, I, first) = reached[first]
  BY DEF Reached, OneFurther, X
<1> HIDE DEF reached
<1>12. \A from \in X : reached[from] = Turn(reached, from)
  <2> HIDE DEF Turn
  <2> QED
    BY <1>10
<1> DEFINE P == {from \in X : reached[from] = Least(E, I, {}, from)}
<1>13. X \cap Stop \subseteq P
  <2> SUFFICES ASSUME NEW from \in X, from \in Stop PROVE reached[from] = Least(E, I, {}, from)
    OBVIOUS
  <2>1. reached[from] = from
    BY <1>6, <1>12
  <2>2. Least(E, I, {}, from) = from
    BY <1>6, FurtherSame DEF X
  <2> QED
    BY <2>1, <2>2
<1>14. ASSUME NEW from \in X \ Stop, next[from] \in P PROVE from \in P
  <2>1. reached[from] = reached[next[from]] /\ next[from] = OneFurther(E, I, from)
    BY <1>6, <1>12
  <2>2. Least(E, I, {}, next[from]) = Least(E, I, {}, from)
    BY <2>1, FurtherSame DEF X
  <2> QED
    BY <1>14, <2>1, <2>2
<1>15. Precedes(next, X, Stop, P)
  BY <1>14 DEF Precedes
<1>16. X \subseteq P
  <2> HIDE DEF P
  <2> QED
    BY <1>1, <1>3, <1>5, <1>13, <1>15, LoopInd
<1>17. first \in P
  BY <1>16 DEF X
<1> QED
  BY <1>11, <1>17

(* What a walk from a register finds, whichever way it goes. *)
Ahead(h, forward, comb, id) ==
  Least(Ends(h, forward), Inner(h, comb), {}, {n \in Nat : <<id, n>> \in Ends(h, forward)})

LEMMA WalkSet ==
  ASSUME NEW V, NEW h \in SoundGraphs(V), NEW forward \in BOOLEAN, NEW comb \in BOOLEAN,
         NEW id \in Registers(h)
  PROVE  /\ RegisterWalk(h, forward, comb, Step(h, forward, id), {id}) \in Seq(Nat)
         /\ IsInjective(RegisterWalk(h, forward, comb, Step(h, forward, id), {id}))
         /\ \A b : b \in ToSet(RegisterWalk(h, forward, comb, Step(h, forward, id), {id})) <=>
              b \in Registers(h) /\ b # id /\ b \in Ahead(h, forward, comb, id)
<1> DEFINE E == Ends(h, forward)
           I == Inner(h, comb)
           s == Step(h, forward, id)
           first == {n \in Nat : <<id, n>> \in E}
<1>1. /\ E \in SUBSET Edge /\ \A e \in E : e = <<e[1], e[2]>> /\ e[2] \in NodeIds(h)
      /\ NodeIds(h) \in SUBSET Nat
  BY EndsFacts
<1>2. id \in Nat /\ id \notin I
  BY <1>1, InnerFacts
<1>3. s \in Seq(Nat) /\ \A n : n \in ToSet(s) <=> <<id, n>> \in E
  BY StepFacts
<1> HIDE DEF E, I, s
<1>5. ToSet(s) = first
  BY <1>1, <1>3
<1>6. first \subseteq NodeIds(h) /\ first \in SUBSET Nat
  BY <1>1
<1> HIDE DEF first
<1>7. /\ RegisterWalk(h, forward, comb, s, {id}) \in Seq(Nat)
      /\ IsInjective(RegisterWalk(h, forward, comb, s, {id}))
      /\ ToSet(RegisterWalk(h, forward, comb, s, {id})) = Registers(h) \cap Least(E, I, {id}, first)
  <2>1. {id} \in SUBSET Nat /\ ToSet(s) \subseteq NodeIds(h)
    BY <1>2, <1>5, <1>6
  <2> QED
    BY <1>3, <1>5, <2>1, WalkFinds DEF E, I
<1>9. Least(E, I, {}, first) \ {id} = Least(E, I, {id}, first)
  BY <1>1, <1>2, <1>6, LeastStart
<1> QED
  BY <1>7, <1>9 DEF E, I, s, first, Ahead

LEMMA WalkSets ==
  ASSUME NEW V, NEW h \in SoundGraphs(V), NEW comb \in BOOLEAN, NEW id \in Registers(h)
  PROVE  /\ RegisterSuccessors(h, id, comb) \in Seq(Nat)
         /\ IsInjective(RegisterSuccessors(h, id, comb))
         /\ \A b : b \in ToSet(RegisterSuccessors(h, id, comb)) <=>
              b \in Registers(h) /\ b # id /\ b \in Ahead(h, TRUE, comb, id)
         /\ RegisterPredecessors(h, id, comb) \in Seq(Nat)
         /\ IsInjective(RegisterPredecessors(h, id, comb))
         /\ \A b : b \in ToSet(RegisterPredecessors(h, id, comb)) <=>
              b \in Registers(h) /\ b # id /\ b \in Ahead(h, FALSE, comb, id)
<1> DEFINE T == TRUE
           F == FALSE
<1>1. T \in BOOLEAN /\ F \in BOOLEAN
  OBVIOUS
<1> HIDE DEF T, F
<1>2. /\ RegisterWalk(h, T, comb, Step(h, T, id), {id}) \in Seq(Nat)
      /\ IsInjective(RegisterWalk(h, T, comb, Step(h, T, id), {id}))
      /\ \A b : b \in ToSet(RegisterWalk(h, T, comb, Step(h, T, id), {id})) <=>
              b \in Registers(h) /\ b # id /\ b \in Ahead(h, T, comb, id)
  BY <1>1, WalkSet
<1>3. /\ RegisterWalk(h, F, comb, Step(h, F, id), {id}) \in Seq(Nat)
      /\ IsInjective(RegisterWalk(h, F, comb, Step(h, F, id), {id}))
      /\ \A b : b \in ToSet(RegisterWalk(h, F, comb, Step(h, F, id), {id})) <=>
              b \in Registers(h) /\ b # id /\ b \in Ahead(h, F, comb, id)
  BY <1>1, WalkSet
<1>4. /\ RegisterSuccessors(h, id, comb) = RegisterWalk(h, T, comb, Step(h, T, id), {id})
      /\ RegisterPredecessors(h, id, comb) = RegisterWalk(h, F, comb, Step(h, F, id), {id})
  BY DEF RegisterSuccessors, RegisterPredecessors, Step, T, F
<1>5. Ahead(h, TRUE, comb, id) = Ahead(h, T, comb, id) /\ Ahead(h, FALSE, comb, id) = Ahead(h, F, comb, id)
  BY DEF T, F
<1> QED
  BY <1>2, <1>3, <1>4, <1>5

(* register_successors and register_predecessors find what the definition  *)
(* says, each register once.                                               *)
LEMMA SuccessorsExact ==
  ASSUME NEW V, NEW h \in SoundGraphs(V), NEW comb \in BOOLEAN, NEW id \in Registers(h)
  PROVE  /\ RegisterSuccessors(h, id, comb) \in Seq(Nat)
         /\ IsInjective(RegisterSuccessors(h, id, comb))
         /\ ToSet(RegisterSuccessors(h, id, comb)) = RegistersReached(h, comb, id)
<1> DEFINE E == Ends(h, TRUE)
           I == Inner(h, comb)
           first == {e[2] : e \in {d \in E : d[1] = id}}
<1>1. /\ E \in SUBSET Edge /\ \A e \in E : e = <<e[1], e[2]>> /\ e[2] \in Nat
  <2>1. /\ E \in SUBSET Edge /\ \A e \in E : e = <<e[1], e[2]>> /\ e[2] \in NodeIds(h)
        /\ NodeIds(h) \in SUBSET Nat
    BY EndsFacts
  <2> QED
    BY <2>1
<1>2. E = ToSet(h.edges) /\ IsFiniteSet(E)
  BY GraphFields, SetOfSeq DEF Ends, SoundGraphs
<1> HIDE DEF E, I
<1>3. first = {n \in Nat : <<id, n>> \in E}
  <2>1. \A n : n \in first <=> \E e \in E : e[1] = id /\ e[2] = n
    OBVIOUS
  <2>2. \A n : n \in first <=> n \in Nat /\ <<id, n>> \in E
    BY <1>1, <2>1
  <2> QED
    BY <2>2
<1> HIDE DEF first
<1>4. first \in SUBSET Nat
  BY <1>3
<1>5. Reached(E, I, first) = Ahead(h, TRUE, comb, id)
  BY <1>1, <1>2, <1>3, <1>4, ReachedIsLeast DEF Ahead, E, I
<1>6. RegistersReached(h, comb, id) = (Registers(h) \cap Reached(E, I, first)) \ {id}
  BY <1>2 DEF RegistersReached, I, first
<1>8. /\ RegisterSuccessors(h, id, comb) \in Seq(Nat)
      /\ IsInjective(RegisterSuccessors(h, id, comb))
      /\ \A b : b \in ToSet(RegisterSuccessors(h, id, comb)) <=>
              b \in Registers(h) /\ b # id /\ b \in Ahead(h, TRUE, comb, id)
  BY WalkSets
<1> QED
  BY <1>5, <1>6, <1>8

(* One way sees what the other does. *)
LEMMA WalksAgree ==
  ASSUME NEW V, NEW h \in SoundGraphs(V), NEW comb \in BOOLEAN,
         NEW a \in Registers(h), NEW b \in Registers(h)
  PROVE  b \in ToSet(RegisterSuccessors(h, a, comb)) <=>
           a \in ToSet(RegisterPredecessors(h, b, comb))
<1> DEFINE E == Ends(h, TRUE)
           R == Ends(h, FALSE)
           I == Inner(h, comb)
<1>2. /\ E \in SUBSET Edge /\ R \in SUBSET Edge
      /\ \A m, n \in Nat : <<m, n>> \in E <=> <<n, m>> \in R
      /\ a \in Nat /\ b \in Nat
  <2>1. E \in SUBSET Edge /\ (\A m, n : <<m, n>> \in E <=> <<n, m>> \in Ends(h, ~TRUE))
        /\ NodeIds(h) \in SUBSET Nat
    BY EndsFacts
  <2>2. R \in SUBSET Edge /\ R = Ends(h, ~TRUE)
    BY EndsFacts
  <2>3. a \in NodeIds(h) /\ b \in NodeIds(h)
    BY DEF Registers
  <2> HIDE DEF E, R
  <2> QED
    BY <2>1, <2>2, <2>3
<1>3. b \in ToSet(RegisterSuccessors(h, a, comb)) <=> b # a /\ b \in Ahead(h, TRUE, comb, a)
  BY WalkSets
<1>4. a \in ToSet(RegisterPredecessors(h, b, comb)) <=> a # b /\ a \in Ahead(h, FALSE, comb, b)
  BY WalkSets
<1>7. /\ Ahead(h, TRUE, comb, a) = Least(E, I, {}, {n \in Nat : <<a, n>> \in E})
      /\ Ahead(h, FALSE, comb, b) = Least(R, I, {}, {n \in Nat : <<b, n>> \in R})
  BY DEF Ahead
<1> HIDE DEF E, R, I
<1>5. b \in Least(E, I, {}, {n \in Nat : <<a, n>> \in E}) =>
        a \in Least(R, I, {}, {n \in Nat : <<b, n>> \in R})
  BY <1>2, LeastBack
<1>6. a \in Least(R, I, {}, {n \in Nat : <<b, n>> \in R}) =>
        b \in Least(E, I, {}, {n \in Nat : <<a, n>> \in E})
  BY <1>2, LeastBack
<1> QED
  BY <1>3, <1>4, <1>5, <1>6, <1>7

-----------------------------------------------------------------------------
(* The search for paths ends: a frame weighs as much as it can still put   *)
(* on the stack, and a turn makes the stack lighter.                       *)
Grow(w, b) == w[0] = 1 /\ \A k \in Nat : w[k + 1] = 1 + b * w[k]

LEMMA Product ==
  ASSUME NEW a \in Nat, NEW b \in Nat
  PROVE  a * b \in Nat
OBVIOUS

LEMMA WeightsExist ==
  ASSUME NEW b \in Nat
  PROVE  \E w \in [Nat -> Nat] : Grow(w, b)
<1> DEFINE rank == [n \in Nat |-> n]
           step == [p \in Nat \X [Nat -> Nat] |->
                      IF p[1] = 0 THEN 1 ELSE 1 + b * p[2][p[1] - 1]]
<1>1. rank \in [Nat -> Nat]
  OBVIOUS
<1>2. step \in [Nat \X [Nat -> Nat] -> Nat]
  <2> SUFFICES ASSUME NEW n \in Nat, NEW f \in [Nat -> Nat]
               PROVE  (IF n = 0 THEN 1 ELSE 1 + b * f[n - 1]) \in Nat
    OBVIOUS
  <2>1. CASE n = 0
    BY <2>1
  <2>2. CASE n # 0
    <3>1. f[n - 1] \in Nat
      BY <2>2
    <3> QED
      BY <2>2, <3>1, Product
  <2> QED
    BY <2>1, <2>2
<1>3. \A n \in Nat, f \in [Nat -> Nat] :
         step[<<n, f>>] = IF n = 0 THEN 1 ELSE 1 + b * f[n - 1]
  OBVIOUS
<1>4. \A n \in Nat : rank[n] = n
  OBVIOUS
<1> HIDE DEF step, rank
<1>5. LooksBelow(step, rank, Nat, Nat)
  <2> SUFFICES ASSUME NEW n \in Nat, NEW f \in [Nat -> Nat], NEW h \in [Nat -> Nat],
                      \A m \in Nat : m < n => f[m] = h[m]
               PROVE  step[<<n, f>>] = step[<<n, h>>]
    BY <1>4 DEF LooksBelow
  <2>1. CASE n = 0
    BY <1>3, <2>1
  <2>2. CASE n # 0
    <3>1. n - 1 \in Nat /\ n - 1 < n
      BY <2>2
    <3>2. f[n - 1] = h[n - 1]
      BY <3>1
    <3> QED
      BY <1>3, <3>2
  <2> QED
    BY <2>1, <2>2
<1>6. PICK w \in [Nat -> Nat] : Satisfies(w, step, Nat)
  BY <1>1, <1>2, <1>5, RankRec
<1>7. \A n \in Nat : w[n] = IF n = 0 THEN 1 ELSE 1 + b * w[n - 1]
  BY <1>3, <1>6 DEF Satisfies
<1>8. ASSUME NEW k \in Nat PROVE w[k + 1] = 1 + b * w[k]
  <2>1. k + 1 \in Nat /\ k + 1 # 0 /\ (k + 1) - 1 = k
    OBVIOUS
  <2> QED
    BY <1>7, <2>1
<1> QED
  BY <1>7, <1>8 DEF Grow

Adds(sum, weight, X) ==
  /\ sum[<<>>] = 0
  /\ \A s \in Seq(X) : s # <<>> => sum[s] = sum[Front(s)] + weight[Last(s)]

LEMMA SumExists ==
  ASSUME NEW X, NEW weight \in [X -> Nat]
  PROVE  \E sum \in [Seq(X) -> Nat] : Adds(sum, weight, X)
<1> DEFINE S == Seq(X)
           rank == [s \in S |-> Len(s)]
           step == [p \in S \X [S -> Nat] |->
                      IF p[1] = <<>> THEN 0 ELSE p[2][Front(p[1])] + weight[Last(p[1])]]
<1>1. rank \in [S -> Nat] /\ <<>> \in S
  BY EmptySeq
<1>2. ASSUME NEW s \in S, s # <<>>
      PROVE  Front(s) \in S /\ Last(s) \in X /\ rank[Front(s)] < rank[s]
  <2>1. Front(s) \in Seq(X) /\ Len(Front(s)) = Len(s) - 1 /\ Len(s) - 1 \in Nat /\ Last(s) \in X
    BY <1>2, FrontLast
  <2>2. rank[Front(s)] = Len(Front(s)) /\ rank[s] = Len(s)
    BY <2>1
  <2> QED
    BY <2>1, <2>2
<1> HIDE DEF S
<1>3. step \in [S \X [S -> Nat] -> Nat]
  <2> SUFFICES ASSUME NEW s \in S, NEW f \in [S -> Nat]
               PROVE  (IF s = <<>> THEN 0 ELSE f[Front(s)] + weight[Last(s)]) \in Nat
    OBVIOUS
  <2>1. CASE s # <<>>
    <3>1. f[Front(s)] \in Nat /\ weight[Last(s)] \in Nat
      BY <1>2, <2>1
    <3> QED
      BY <2>1, <3>1
  <2> QED
    BY <2>1
<1>4. \A s \in S, f \in [S -> Nat] :
         step[<<s, f>>] = IF s = <<>> THEN 0 ELSE f[Front(s)] + weight[Last(s)]
  OBVIOUS
<1> HIDE DEF step, rank
<1>5. LooksBelow(step, rank, S, Nat)
  <2> SUFFICES ASSUME NEW s \in S, NEW f \in [S -> Nat], NEW h \in [S -> Nat],
                      \A r \in S : rank[r] < rank[s] => f[r] = h[r]
               PROVE  step[<<s, f>>] = step[<<s, h>>]
    BY DEF LooksBelow
  <2>1. CASE s # <<>>
    <3>1. f[Front(s)] = h[Front(s)]
      BY <1>2, <2>1
    <3> QED
      BY <1>4, <2>1, <3>1
  <2> QED
    BY <1>4, <2>1
<1>6. PICK sum \in [S -> Nat] : Satisfies(sum, step, S)
  BY <1>1, <1>3, <1>5, RankRec
<1>7. \A s \in S : sum[s] = IF s = <<>> THEN 0 ELSE sum[Front(s)] + weight[Last(s)]
  BY <1>4, <1>6 DEF Satisfies
<1> QED
  BY <1>1, <1>7 DEF Adds, S

LEMMA FrontOfAppend ==
  ASSUME NEW X, NEW s \in Seq(X), NEW x \in X
  PROVE  Append(s, x) # <<>> /\ Front(Append(s, x)) = s /\ Last(Append(s, x)) = x
<1> DEFINE t == Append(s, x)
<1>1. t \in Seq(X) /\ Len(t) = Len(s) + 1 /\ t[Len(s) + 1] = x
      /\ \A i \in 1..Len(s) : t[i] = s[i]
  BY SetOfAppend
<1>2. Len(s) \in Nat
  OBVIOUS
<1>3. t # <<>>
  BY <1>1, <1>2
<1>4. Last(t) = x
  BY <1>1 DEF Last
<1>5. /\ Front(t) \in Seq(X) /\ Len(Front(t)) = Len(t) - 1
      /\ \A i \in 1..Len(t) - 1 : Front(t)[i] = t[i]
  BY <1>1, <1>3, FrontLast
<1>6. Front(t) = s
  <2> HIDE DEF t
  <2>1. Len(t) - 1 = Len(s) /\ \A i \in 1..Len(s) : Front(t)[i] = s[i]
    BY <1>1, <1>2, <1>5
  <2> QED
    BY <1>2, <1>5, <2>1, SeqEqual
<1> QED
  BY <1>3, <1>4, <1>6

LEMMA AddsAppend ==
  ASSUME NEW X, NEW weight, NEW sum, Adds(sum, weight, X), NEW s \in Seq(X), NEW x \in X
  PROVE  sum[Append(s, x)] = sum[s] + weight[x]
<1>1. Append(s, x) # <<>> /\ Front(Append(s, x)) = s /\ Last(Append(s, x)) = x
      /\ Append(s, x) \in Seq(X)
  BY FrontOfAppend, SetOfAppend
<1> QED
  BY <1>1 DEF Adds

(* What the frame's own length leaves it. *)
Remaining(f) == IF Len(f.path) > MAX_PATH_DEPTH THEN 0 ELSE MAX_PATH_DEPTH + 1 - Len(f.path)

Weights(h) == CHOOSE w \in [Nat -> Nat] : Grow(w, Len(h.edges))
FrameWeight(h) == [f \in Frames |-> Weights(h)[Remaining(f)]]
StackWeight(h) ==
  CHOOSE sum \in [Seq(Frames) -> Nat] : Adds(sum, FrameWeight(h), Frames)

LEMMA WeightFacts ==
  ASSUME NEW V, NEW h \in SoundGraphs(V)
  PROVE  /\ Weights(h) \in [Nat -> Nat] /\ Grow(Weights(h), Len(h.edges))
         /\ FrameWeight(h) \in [Frames -> Nat]
         /\ StackWeight(h) \in [Seq(Frames) -> Nat]
         /\ Adds(StackWeight(h), FrameWeight(h), Frames)
<1>1. Len(h.edges) \in Nat
  BY GraphFields DEF SoundGraphs
<1>2. Weights(h) \in [Nat -> Nat] /\ Grow(Weights(h), Len(h.edges))
  BY <1>1, WeightsExist DEF Weights
<1>3. \A f \in Frames : Remaining(f) \in Nat
  BY TraversalAssumption DEF Frames, Remaining
<1>4. FrameWeight(h) \in [Frames -> Nat]
  BY <1>2, <1>3 DEF FrameWeight
<1>5. StackWeight(h) \in [Seq(Frames) -> Nat] /\ Adds(StackWeight(h), FrameWeight(h), Frames)
  BY <1>4, SumExists DEF StackWeight
<1> QED
  BY <1>2, <1>4, <1>5


(* A frame is extended by one successor after the other. *)
Extending(x, h, f, limit, first, next) ==
  /\ x \in [0..Len(next) -> SearchStates]
  /\ x[0] = first
  /\ \A n \in 1..Len(next) : x[n] = Extend(h, f, limit, x[n - 1], next[n])

Popped(w) == [w EXCEPT !.stack = Front(@)]

LEMMA StateFields ==
  ASSUME NEW w \in SearchStates
  PROVE  /\ w.stack \in Seq(Frames) /\ w.paths \in Seq(Frames)
         /\ w.truncated \in BOOLEAN /\ w.full \in BOOLEAN
         /\ w = [stack |-> w.stack, paths |-> w.paths, truncated |-> w.truncated,
                 full |-> w.full]
BY DEF SearchStates

(* What one successor adds: nothing, a path that is found, or a frame. *)
Added(h, f, s) == Frame(Append(f.path, s), f.comb \/ KindOf(h, s) = "Combinational")

PathFrame(f, s) == Frame(Append(f.path, s), f.comb)

(* The three things that can happen to a successor. *)
Finds(h, f, w, s) == ~w.full /\ s \notin ToSet(f.path) /\ IsRegister(h, s)
Pushes(h, f, w, s) ==
  ~w.full /\ s \notin ToSet(f.path) /\ ~IsRegister(h, s) /\ IsDataNode(KindOf(h, s))
Ignores(h, f, w, s) ==
  w.full \/ s \in ToSet(f.path) \/ (~IsRegister(h, s) /\ ~IsDataNode(KindOf(h, s)))

WithPath(w, frame, limit) ==
  [stack |-> w.stack, paths |-> Append(w.paths, frame),
   truncated |-> (w.truncated \/ Len(w.paths) + 1 >= limit),
   full |-> Len(w.paths) + 1 >= limit]
WithFrame(w, frame) ==
  [stack |-> Append(w.stack, frame), paths |-> w.paths, truncated |-> w.truncated,
   full |-> w.full]

LEMMA ExtendCases ==
  ASSUME NEW h, NEW f \in Frames, NEW limit \in Nat, NEW w \in SearchStates, NEW s \in Nat
  PROVE  /\ Extend(h, f, limit, w, s) \in SearchStates
         /\ PathFrame(f, s) \in Frames /\ Added(h, f, s) \in Frames
         /\ Ignores(h, f, w, s) => Extend(h, f, limit, w, s) = w
         /\ Finds(h, f, w, s) => Extend(h, f, limit, w, s) = WithPath(w, PathFrame(f, s), limit)
         /\ Pushes(h, f, w, s) => Extend(h, f, limit, w, s) = WithFrame(w, Added(h, f, s))
         /\ Ignores(h, f, w, s) \/ Finds(h, f, w, s) \/ Pushes(h, f, w, s)
<1> DEFINE k == Extend(h, f, limit, w, s)
           found == PathFrame(f, s)
           full == Len(w.paths) + 1 >= limit
           added == Added(h, f, s)
           reg == IsRegister(h, s)
           data == IsDataNode(KindOf(h, s))
           comb == f.comb \/ KindOf(h, s) = "Combinational"
<1>1. f.path \in Seq(Nat) /\ f.comb \in BOOLEAN /\ comb \in BOOLEAN
  BY DEF Frames
<1>2. Append(f.path, s) \in Seq(Nat)
  BY <1>1
<1>3. found \in Frames /\ added \in Frames
  <2>1. added = [path |-> Append(f.path, s), comb |-> comb]
    BY DEF Added, Frame
  <2>2. found = [path |-> Append(f.path, s), comb |-> f.comb]
    BY DEF PathFrame, Frame
  <2> HIDE DEF added, found, comb
  <2> QED
    BY <1>1, <1>2, <2>1, <2>2 DEF Frames
<1>4. /\ w.stack \in Seq(Frames) /\ w.paths \in Seq(Frames)
      /\ w.truncated \in BOOLEAN /\ w.full \in BOOLEAN
      /\ w = [stack |-> w.stack, paths |-> w.paths, truncated |-> w.truncated,
              full |-> w.full]
  BY StateFields
<1>5. full \in BOOLEAN
  OBVIOUS
<1>6. /\ w.full \/ s \in ToSet(f.path) => k = w
      /\ ~w.full /\ s \notin ToSet(f.path) /\ reg =>
           k = [w EXCEPT !.paths = Append(@, found), !.full = full, !.truncated = @ \/ full]
      /\ ~w.full /\ s \notin ToSet(f.path) /\ ~reg /\ data =>
           k = [w EXCEPT !.stack = Append(@, added)]
      /\ ~reg /\ ~data => k = w
  BY DEF Extend, Added, PathFrame
<1> HIDE DEF k, found, full, added, reg, data
<1>7. /\ [w EXCEPT !.paths = Append(@, found), !.full = full, !.truncated = @ \/ full] =
           [stack |-> w.stack, paths |-> Append(w.paths, found),
                   truncated |-> (w.truncated \/ full), full |-> full]
      /\ [w EXCEPT !.stack = Append(@, added)] =
           [stack |-> Append(w.stack, added), paths |-> w.paths,
                   truncated |-> w.truncated, full |-> w.full]
  <2> DEFINE cut == w.truncated \/ full
             paths == Append(w.paths, found)
             stack == Append(w.stack, added)
  <2> HIDE DEF cut, paths, stack
  <2>1. [w EXCEPT !.paths = paths, !.full = full, !.truncated = cut] =
           [stack |-> w.stack, paths |-> paths, truncated |-> cut, full |-> full]
    <3> DEFINE v == [w EXCEPT !.paths = paths, !.full = full, !.truncated = cut]
    <3>1. /\ DOMAIN v = {"stack", "paths", "truncated", "full"}
          /\ v = [field \in DOMAIN v |-> v[field]]
      BY <1>4
    <3>2. v.stack = w.stack /\ v.paths = paths /\ v.truncated = cut /\ v.full = full
      BY <1>4
    <3> HIDE DEF v
    <3>3. v = [stack |-> w.stack, paths |-> paths, truncated |-> cut, full |-> full]
      BY <3>1, <3>2
    <3> QED
      BY <3>3 DEF v
  <2>2. [w EXCEPT !.stack = stack] =
           [stack |-> stack, paths |-> w.paths, truncated |-> w.truncated, full |-> w.full]
    BY <1>4
  <2> QED
    BY <2>1, <2>2 DEF cut, paths, stack
<1>8. Append(w.paths, found) \in Seq(Frames) /\ Append(w.stack, added) \in Seq(Frames)
  BY <1>3, <1>4
<1>9. /\ w.full \/ s \in ToSet(f.path) => k = w
      /\ ~w.full /\ s \notin ToSet(f.path) /\ reg =>
              k = [stack |-> w.stack, paths |-> Append(w.paths, found),
                   truncated |-> (w.truncated \/ full), full |-> full]
      /\ ~w.full /\ s \notin ToSet(f.path) /\ ~reg /\ data =>
              k = [stack |-> Append(w.stack, added), paths |-> w.paths,
                   truncated |-> w.truncated, full |-> w.full]
      /\ ~reg /\ ~data => k = w
  BY <1>6, <1>7
<1>11. [stack |-> w.stack, paths |-> Append(w.paths, found),
        truncated |-> (w.truncated \/ full), full |-> full] \in SearchStates
  BY <1>4, <1>5, <1>8 DEF SearchStates
<1>12. [stack |-> Append(w.stack, added), paths |-> w.paths,
        truncated |-> w.truncated, full |-> w.full] \in SearchStates
  BY <1>4, <1>8 DEF SearchStates
<1>10. k \in SearchStates
  BY <1>9, <1>11, <1>12
<1> QED
  BY <1>3, <1>9, <1>10 DEF k, found, full, added, reg, data, Finds, Pushes, Ignores,
                           WithPath, WithFrame

LEMMA PoppedType ==
  ASSUME NEW w \in SearchStates, w.stack # <<>>
  PROVE  /\ Popped(w) \in SearchStates /\ Last(w.stack) \in Frames
         /\ Popped(w) = [stack |-> Front(w.stack), paths |-> w.paths,
                         truncated |-> w.truncated, full |-> w.full]
         /\ [Popped(w) EXCEPT !.truncated = TRUE] =
              [stack |-> Front(w.stack), paths |-> w.paths, truncated |-> TRUE, full |-> w.full]
         /\ [Popped(w) EXCEPT !.truncated = TRUE] \in SearchStates
<1>1. Front(w.stack) \in Seq(Frames) /\ Last(w.stack) \in Frames
  BY FrontLast, StateFields
<1> QED
  BY <1>1, StateFields DEF SearchStates, Popped

LEMMA SearchStepDef ==
  ASSUME NEW V, NEW h \in SoundGraphs(V), NEW limit \in Nat,
         NEW w \in SearchStates, w.stack # <<>>, Len(Last(w.stack).path) <= MAX_PATH_DEPTH
  PROVE  LET f == Last(w.stack)
             next == Successors(h, Last(f.path)) IN
         /\ next \in Seq(Nat)
         /\ \E x : /\ Extending(x, h, f, limit, Popped(w), next)
                   /\ SearchStep(h, limit, w) = x[Len(next)]
<1> DEFINE S == SearchStates
           f == Last(w.stack)
           next == Successors(h, Last(f.path))
           N == Len(next)
           a == Popped(w)
           step == [p \in S \X (1..N) |-> Extend(h, f, limit, p[1], next[p[2]])]
<1>1. a \in S /\ f \in Frames
  BY PoppedType
<1>2. next \in Seq(Nat) /\ N \in Nat /\ \A n \in 1..N : next[n] \in Nat
  <2>1. next \in Seq(Nat)
    <3>1. Step(h, TRUE, Last(f.path)) \in Seq(Nat)
      BY StepFacts
    <3> QED
      BY <3>1 DEF Step
  <2> HIDE DEF next
  <2> QED
    BY <2>1, ElementOfSeq, LenProperties
<1> DEFINE Turn(e, n) == IF n = 0 THEN a ELSE Extend(h, f, limit, e[n - 1], next[n])
           Solves(e) == e = [n \in 0..N |-> Turn(e, n)]
           x == CHOOSE e : Solves(e)
<1>3. SearchStep(h, limit, w) = x[N]
  BY TraversalAssumption DEF SearchStep, Popped
<1> HIDE DEF a, f, next
<1>4. \A k \in S, n \in 1..N : Extend(h, f, limit, k, next[n]) \in S
  BY <1>1, <1>2, ExtendCases
<1> HIDE DEF S
<1>5. step \in [S \X (1..N) -> S]
  BY <1>4
<1>6. \A k \in S, n \in 1..N : step[<<k, n>>] = Extend(h, f, limit, k, next[n])
  OBVIOUS
<1> HIDE DEF N, step
<1>7. PICK e \in [0..N -> S] : Recursion(e, a, step, N)
  BY <1>1, <1>2, <1>5, RecFcn DEF N
<1>8. \A n \in 1..N : e[n] = Extend(h, f, limit, e[n - 1], next[n])
  <2> SUFFICES ASSUME NEW n \in 1..N PROVE e[n] = Extend(h, f, limit, e[n - 1], next[n])
    OBVIOUS
  <2>1. e[n - 1] \in S
    BY <1>2, <1>7 DEF N
  <2> QED
    BY <1>6, <1>7, <2>1 DEF Recursion
<1>9. e[0] = a
  BY <1>7 DEF Recursion
<1>10. Solves(e)
  <2>1. ASSUME NEW n \in 0..N PROVE e[n] = Turn(e, n)
    <3>1. CASE n = 0
      BY <1>9, <3>1
    <3>2. CASE n # 0
      <4>1. n \in 1..N
        BY <1>2, <3>2 DEF N
      <4> QED
        BY <1>8, <3>2, <4>1
    <3> QED
      BY <3>1, <3>2
  <2> HIDE DEF Turn
  <2> QED
    BY <1>7, <2>1
<1>11. Solves(x)
  BY <1>10
<1> HIDE DEF x
<1>12. x = [n \in 0..N |-> Turn(x, n)] /\ \A n \in 0..N : x[n] = Turn(x, n)
  <2> HIDE DEF Turn
  <2> QED
    BY <1>11
<1> DEFINE Good == {n \in Nat : n <= N => x[n] \in S}
<1>13. 0 \in Good
  BY <1>1, <1>2, <1>12 DEF N
<1>14. ASSUME NEW n \in Nat, n \in Good PROVE n + 1 \in Good
  <2> SUFFICES ASSUME n + 1 <= N PROVE x[n + 1] \in S
    OBVIOUS
  <2>1. n + 1 \in 0..N /\ n + 1 \in 1..N /\ n + 1 # 0 /\ (n + 1) - 1 = n /\ x[n] \in S
    BY <1>2, <1>14 DEF N
  <2>2. x[n + 1] = Extend(h, f, limit, x[n], next[n + 1])
    BY <1>12, <2>1
  <2> QED
    BY <1>4, <2>1, <2>2
<1>15. Nat \subseteq Good
  <2> HIDE DEF Good
  <2> QED
    BY <1>13, <1>14, NatInd
<1>16. x \in [0..N -> S]
  <2>1. \A n \in 0..N : x[n] \in S
    BY <1>2, <1>15 DEF N
  <2> HIDE DEF Turn
  <2> QED
    BY <1>12, <2>1
<1>17. x[0] = a /\ \A n \in 1..N : x[n] = Extend(h, f, limit, x[n - 1], next[n])
  <2>1. 0 \in 0..N /\ \A n \in 1..N : n \in 0..N /\ n # 0
    BY <1>2 DEF N
  <2> QED
    BY <1>12, <2>1
<1>18. Extending(x, h, f, limit, a, next)
  BY <1>16, <1>17 DEF Extending, N, S
<1> QED
  BY <1>2, <1>3, <1>18 DEF a, f, next, N


LEMMA ProductGrows ==
  ASSUME NEW a \in Nat, NEW b \in Nat, NEW c \in Nat, a <= b
  PROVE  a * c \in Nat /\ b * c \in Nat /\ a * c <= b * c /\ (a + 1) * c = a * c + c
<1> DEFINE e == b - a
<1>1. e \in Nat /\ b = a + e
  OBVIOUS
<1> HIDE DEF e
<1>2. e * c \in Nat /\ a * c \in Nat /\ b * c \in Nat
  BY <1>1, Product
<1>3. b * c = a * c + e * c
  BY <1>1
<1>4. (a + 1) * c = a * c + c
  OBVIOUS
<1> QED
  BY <1>2, <1>3, <1>4

LEMMA ExtendWeight ==
  ASSUME NEW V, NEW h \in SoundGraphs(V), NEW limit \in Nat, NEW f \in Frames,
         Len(f.path) <= MAX_PATH_DEPTH, NEW w \in SearchStates, NEW s \in Nat
  PROVE  StackWeight(h)[Extend(h, f, limit, w, s).stack] <=
           StackWeight(h)[w.stack] + Weights(h)[MAX_PATH_DEPTH - Len(f.path)]
<1> DEFINE c == Weights(h)[MAX_PATH_DEPTH - Len(f.path)]
           k == Extend(h, f, limit, w, s)
           added == Added(h, f, s)
           W == StackWeight(h)
<1>1. /\ Weights(h) \in [Nat -> Nat] /\ FrameWeight(h) \in [Frames -> Nat]
      /\ W \in [Seq(Frames) -> Nat] /\ Adds(W, FrameWeight(h), Frames)
  BY WeightFacts
<1>2. f.path \in Seq(Nat) /\ Len(f.path) \in Nat
  BY DEF Frames
<1>3. MAX_PATH_DEPTH - Len(f.path) \in Nat /\ c \in Nat
  <2> DEFINE m == MAX_PATH_DEPTH - Len(f.path)
  <2>1. m \in Nat
    BY <1>2, TraversalAssumption
  <2> HIDE DEF m
  <2>2. Weights(h)[m] \in Nat
    BY <1>1, <2>1
  <2> QED
    BY <2>1, <2>2 DEF m
<1>4. added \in Frames /\ Len(added.path) = Len(f.path) + 1
  <2>1. added.path = Append(f.path, s)
    BY DEF Added, Frame
  <2>2. Len(Append(f.path, s)) = Len(f.path) + 1
    BY <1>2, SetOfAppend
  <2>3. added \in Frames
    BY ExtendCases
  <2> QED
    BY <2>1, <2>2, <2>3
<1> HIDE DEF added
<1>5. FrameWeight(h)[added] = c
  <2>1. Remaining(added) = MAX_PATH_DEPTH - Len(f.path)
    <3> DEFINE l == Len(f.path)
               m == Len(added.path)
    <3> HIDE DEF l, m
    <3>1. l \in Nat /\ l <= MAX_PATH_DEPTH /\ m = l + 1
      BY <1>2, <1>4 DEF l, m
    <3>2. Remaining(added) = MAX_PATH_DEPTH - l
      BY <3>1, TraversalAssumption DEF Remaining, m
    <3> QED
      BY <3>2 DEF l
  <2> QED
    BY <1>4, <2>1 DEF FrameWeight
<1>6. w.stack \in Seq(Frames)
  BY StateFields
<1> HIDE DEF c, k, W
<1>7. W[Append(w.stack, added)] = W[w.stack] + c
  <2> DEFINE F == Frames
             weight == FrameWeight(h)
             stack == w.stack
  <2>1. weight \in [F -> Nat]
    BY <1>1
  <2>3. W \in [Seq(F) -> Nat]
    BY <1>1
  <2>4. Adds(W, weight, F)
    BY <1>1
  <2>5. stack \in Seq(F)
    BY <1>6
  <2>6. added \in F
    BY <1>4
  <2> HIDE DEF F, weight, stack
  <2>2. W[Append(stack, added)] = W[stack] + weight[added]
    BY <2>4, <2>5, <2>6, AddsAppend
  <2> QED
    BY <1>5, <2>2 DEF weight, stack
<1>8. k.stack = w.stack \/ k.stack = Append(w.stack, added)
  <2>1. Ignores(h, f, w, s) => k = w
    BY ExtendCases DEF k
  <2>2. Finds(h, f, w, s) => k = WithPath(w, PathFrame(f, s), limit)
    BY ExtendCases DEF k
  <2>3. Pushes(h, f, w, s) => k = WithFrame(w, added)
    BY ExtendCases DEF k, added
  <2>4. Ignores(h, f, w, s) \/ Finds(h, f, w, s) \/ Pushes(h, f, w, s)
    BY ExtendCases
  <2> QED
    BY <2>1, <2>2, <2>3, <2>4 DEF WithPath, WithFrame
<1>9. W[w.stack] \in Nat
  BY <1>1, <1>6
<1>10. W[k.stack] <= W[w.stack] + c
  <2>1. CASE k.stack = w.stack
    BY <1>3, <1>9, <2>1
  <2>2. CASE k.stack = Append(w.stack, added)
    <3>1. W[k.stack] = W[w.stack] + c
      BY <1>7, <2>2
    <3> QED
      BY <1>3, <1>9, <3>1
  <2> QED
    BY <1>8, <2>1, <2>2
<1> QED
  BY <1>10 DEF c, k, W

LEMMA SearchShrinks ==
  ASSUME NEW V, NEW h \in SoundGraphs(V), NEW limit \in Nat,
         NEW w \in SearchStates, w.stack # <<>>
  PROVE  /\ SearchStep(h, limit, w) \in SearchStates
         /\ StackWeight(h)[SearchStep(h, limit, w).stack] < StackWeight(h)[w.stack]
<1> DEFINE f == Last(w.stack)
           k == SearchStep(h, limit, w)
           W == StackWeight(h)
           front == Front(w.stack)
           next == Successors(h, Last(f.path))
           N == Len(next)
           B == Len(h.edges)
<1>1. /\ Weights(h) \in [Nat -> Nat] /\ FrameWeight(h) \in [Frames -> Nat]
      /\ W \in [Seq(Frames) -> Nat] /\ Adds(W, FrameWeight(h), Frames)
      /\ Grow(Weights(h), B)
  BY WeightFacts
<1>2. /\ Popped(w) \in SearchStates /\ f \in Frames
      /\ Popped(w) = [stack |-> front, paths |-> w.paths, truncated |-> w.truncated,
                      full |-> w.full]
      /\ [Popped(w) EXCEPT !.truncated = TRUE].stack = front
      /\ [Popped(w) EXCEPT !.truncated = TRUE] \in SearchStates
  BY PoppedType
<1>3. w.stack \in Seq(Frames) /\ front \in Seq(Frames)
  BY FrontLast, StateFields
<1>4. W[w.stack] = W[front] + FrameWeight(h)[f] /\ W[front] \in Nat
  BY <1>1, <1>3 DEF Adds
<1>5. f.path \in Seq(Nat) /\ Len(f.path) \in Nat
  BY <1>2 DEF Frames
<1>6. CASE Len(f.path) > MAX_PATH_DEPTH
  <2>1. k = [Popped(w) EXCEPT !.truncated = TRUE]
    BY <1>6 DEF SearchStep, Popped
  <2>2. FrameWeight(h)[f] = 1
    BY <1>1, <1>2, <1>6 DEF FrameWeight, Remaining, Grow
  <2> HIDE DEF k, f, front, W
  <2> QED
    BY <1>2, <1>4, <2>1, <2>2 DEF k, W
<1>7. CASE ~(Len(f.path) > MAX_PATH_DEPTH)
  <2> DEFINE m == MAX_PATH_DEPTH - Len(f.path)
             c == Weights(h)[m]
  <2>1. m \in Nat /\ Remaining(f) = m + 1 /\ Len(f.path) <= MAX_PATH_DEPTH
    BY <1>5, <1>7, TraversalAssumption DEF Remaining
  <2>2. c \in Nat /\ FrameWeight(h)[f] = 1 + B * c
    BY <1>1, <1>2, <2>1 DEF FrameWeight, Grow
  <2>3. next \in Seq(Nat) /\ N <= B /\ B \in Nat /\ N \in Nat
    <3>1. Step(h, TRUE, Last(f.path)) \in Seq(Nat) /\ Len(Step(h, TRUE, Last(f.path))) <= Len(h.edges)
      BY StepFacts
    <3>2. Step(h, TRUE, Last(f.path)) = next
      BY DEF Step
    <3>3. B \in Nat
      BY GraphFields DEF SoundGraphs
    <3> HIDE DEF next, B
    <3>4. next \in Seq(Nat) /\ Len(next) <= B
      BY <3>1, <3>2 DEF B
    <3> QED
      BY <3>3, <3>4
  <2>4. PICK x : Extending(x, h, f, limit, Popped(w), next) /\ k = x[N]
    BY <2>1, SearchStepDef
  <2> HIDE DEF next, f, k, W
  <2>5. /\ x \in [0..N -> SearchStates] /\ x[0] = Popped(w)
        /\ \A n \in 1..N : x[n] = Extend(h, f, limit, x[n - 1], next[n])
    BY <2>4 DEF Extending
  <2>6. \A n \in 1..N : next[n] \in Nat
    BY <2>3, ElementOfSeq
  <2> HIDE DEF N, B
  <2> DEFINE Good == {n \in Nat : n <= N => W[x[n].stack] <= W[front] + n * c}
  <2>7. 0 \in Good
    <3>1. W[x[0].stack] = W[front] /\ 0 * c = 0
      BY <1>2, <2>2, <2>5
    <3> QED
      BY <1>4, <3>1
  <2>8. ASSUME NEW n \in Nat, n \in Good PROVE n + 1 \in Good
    <3> SUFFICES ASSUME n + 1 <= N PROVE W[x[n + 1].stack] <= W[front] + (n + 1) * c
      OBVIOUS
    <3>1. n + 1 \in 1..N /\ (n + 1) - 1 = n /\ n \in 0..N /\ n + 1 \in 0..N
      BY <2>3
    <3>2. W[x[n].stack] <= W[front] + n * c
      BY <2>3, <2>8
    <3>3. x[n + 1] = Extend(h, f, limit, x[n], next[n + 1]) /\ x[n] \in SearchStates
          /\ next[n + 1] \in Nat /\ x[n + 1] \in SearchStates
      BY <2>5, <2>6, <3>1
    <3>4. W[x[n + 1].stack] <= W[x[n].stack] + c
      BY <1>2, <2>1, <3>3, ExtendWeight DEF W
    <3>5. W[x[n].stack] \in Nat /\ W[x[n + 1].stack] \in Nat
      BY <1>1, <3>3, StateFields
    <3>6. n * c \in Nat /\ (n + 1) * c = n * c + c
      BY <2>2, ProductGrows
    <3> DEFINE p == n * c
               q == (n + 1) * c
               before == W[x[n].stack]
               after == W[x[n + 1].stack]
               rest == W[front]
    <3>7. /\ p \in Nat /\ q = p + c /\ c \in Nat /\ rest \in Nat /\ before \in Nat
          /\ after \in Nat /\ before <= rest + p /\ after <= before + c
      BY <1>4, <2>2, <3>2, <3>4, <3>5, <3>6
    <3> HIDE DEF c, p, q, before, after, rest
    <3>8. after <= rest + q
      BY <3>7
    <3> QED
      BY <3>8 DEF q, after, rest
  <2>9. Nat \subseteq Good
    <3> HIDE DEF Good
    <3> QED
      BY <2>7, <2>8, NatInd
  <2>10. W[k.stack] <= W[front] + N * c
    BY <2>3, <2>4, <2>9
  <2>11. N * c <= B * c /\ N * c \in Nat /\ B * c \in Nat
    BY <2>2, <2>3, ProductGrows
  <2>12. k \in SearchStates
    BY <2>3, <2>4, <2>5
  <2>13. W[k.stack] \in Nat
    BY <1>1, <2>12, StateFields
  <2> HIDE DEF c
  <2>14. W[k.stack] < W[w.stack]
    BY <1>4, <2>2, <2>10, <2>11, <2>13
  <2> QED
    BY <2>12, <2>14 DEF k, W
<1> QED
  BY <1>6, <1>7

(* The function that a search is defined by. *)
Results == [paths : Seq(Frames), truncated : BOOLEAN]

Searches(search, h, limit) ==
  /\ search \in [SearchStates -> Results]
  /\ \A w \in SearchStates : w.full \/ w.stack = <<>> =>
       search[w] = [paths |-> w.paths, truncated |-> w.truncated]
  /\ \A w \in SearchStates : ~w.full /\ w.stack # <<>> =>
       search[w] = search[SearchStep(h, limit, w)]

SearchEnd == {w \in SearchStates : w.full \/ w.stack = <<>>}
SearchNext(h, limit) ==
  [w \in SearchStates |-> IF w.stack = <<>> THEN w ELSE SearchStep(h, limit, w)]
SearchRank(h) == [w \in SearchStates |-> StackWeight(h)[w.stack]]
SearchStart(src) ==
  [stack |-> <<Frame(<<src>>, FALSE)>>, paths |-> <<>>, truncated |-> FALSE, full |-> FALSE]

LEMMA SearchLoop ==
  ASSUME NEW V, NEW h \in SoundGraphs(V), NEW limit \in Nat
  PROVE  /\ SearchNext(h, limit) \in [SearchStates -> SearchStates]
         /\ \A w \in SearchStates \ SearchEnd :
              SearchNext(h, limit)[w] = SearchStep(h, limit, w)
         /\ SearchRank(h) \in [SearchStates -> Nat]
         /\ Shrinks(SearchRank(h), SearchStates, SearchEnd, SearchNext(h, limit))
<1>1. \A w \in SearchStates : w.stack # <<>> =>
        /\ SearchStep(h, limit, w) \in SearchStates
        /\ StackWeight(h)[SearchStep(h, limit, w).stack] < StackWeight(h)[w.stack]
  BY SearchShrinks
<1>2. \A w \in SearchStates \ SearchEnd :
         w.stack # <<>> /\ SearchNext(h, limit)[w] = SearchStep(h, limit, w)
  BY DEF SearchNext, SearchEnd
<1>3. SearchNext(h, limit) \in [SearchStates -> SearchStates]
  BY <1>1 DEF SearchNext
<1>4. SearchRank(h) \in [SearchStates -> Nat]
  <2>1. StackWeight(h) \in [Seq(Frames) -> Nat]
    BY WeightFacts
  <2> QED
    BY <2>1, StateFields DEF SearchRank
<1>5. \A w \in SearchStates \ SearchEnd :
         SearchRank(h)[SearchNext(h, limit)[w]] < SearchRank(h)[w]
  BY <1>1, <1>2 DEF SearchRank
<1> QED
  BY <1>2, <1>3, <1>4, <1>5 DEF Shrinks

LEMMA SearchDef ==
  ASSUME NEW V, NEW h \in SoundGraphs(V), NEW limit \in Nat, NEW src \in Nat
  PROVE  /\ SearchStart(src) \in SearchStates
         /\ \E search : /\ Searches(search, h, limit)
                        /\ FindRegisterPaths(h, src, limit) = search[SearchStart(src)]
<1> DEFINE X == SearchStates
           R(w) == [paths |-> w.paths, truncated |-> w.truncated]
           Turn(f, w) == IF w.full \/ w.stack = <<>> THEN R(w) ELSE f[SearchStep(h, limit, w)]
           Solves(f) == f = [w \in X |-> Turn(f, w)]
           out == [w \in X |-> R(w)]
           next == SearchNext(h, limit)
           w0 == SearchStart(src)
<1>0. w0 \in X
  <2>1. Frame(<<src>>, FALSE) \in Frames
    BY DEF Frame, Frames
  <2> DEFINE first == Frame(<<src>>, FALSE)
  <2> HIDE DEF first
  <2>2. <<first>> \in Seq(Frames) /\ <<>> \in Seq(Frames)
    <3>1. first \in Frames
      BY <2>1 DEF first
    <3> HIDE DEF X
    <3> QED
      BY <3>1
  <2> QED
    BY <2>2 DEF SearchStart, SearchStates, first
<1>1. \A w \in X : R(w) \in Results
  BY StateFields DEF Results
<1>2. out \in [X -> Results] /\ Results # {}
  BY <1>0, <1>1
<1>3. /\ next \in [X -> X] /\ Shrinks(SearchRank(h), X, SearchEnd, next)
      /\ SearchRank(h) \in [X -> Nat]
      /\ \A w \in X \ SearchEnd : next[w] = SearchStep(h, limit, w)
  BY SearchLoop
<1>4. \A w \in X : out[w] = R(w)
  OBVIOUS
<1>5. \A w \in X : w \in SearchEnd <=> (w.full \/ w.stack = <<>>)
  BY DEF SearchEnd
<1> HIDE DEF next, out, R
<1>6. PICK f \in [X -> Results] : Returns(f, X, SearchEnd, out, next)
  BY <1>2, <1>3, LoopRec
<1>7. \A w \in X : f[w] = Turn(f, w)
  BY <1>3, <1>4, <1>5, <1>6 DEF Returns
<1>8. Solves(f)
  <2> HIDE DEF Turn
  <2> QED
    BY <1>6, <1>7
<1> DEFINE search == CHOOSE x : Solves(x)
<1>9. Solves(search)
  BY <1>8
<1>10. FindRegisterPaths(h, src, limit) = search[w0]
  BY DEF FindRegisterPaths, PathSearch, SearchStart, R
<1> HIDE DEF search
<1>11. search = [w \in X |-> Turn(search, w)] /\ \A w \in X : search[w] = Turn(search, w)
  <2> HIDE DEF Turn
  <2> QED
    BY <1>9
<1>12. Returns(search, X, SearchEnd, out, next)
  BY <1>3, <1>4, <1>5, <1>11 DEF Returns
<1> DEFINE P == {w \in X : search[w] \in Results}
<1>13. X \subseteq P
  <2>1. X \cap SearchEnd \subseteq P
    BY <1>2, <1>12 DEF Returns
  <2>2. Precedes(next, X, SearchEnd, P)
    BY <1>3, <1>12 DEF Returns, Precedes
  <2> HIDE DEF P
  <2> QED
    BY <1>3, <2>1, <2>2, LoopInd
<1>14. search \in [X -> Results]
  <2> HIDE DEF Turn
  <2> QED
    BY <1>11, <1>13
<1>15. /\ \A w \in X : w.full \/ w.stack = <<>> => search[w] = R(w)
       /\ \A w \in X : ~w.full /\ w.stack # <<>> => search[w] = search[SearchStep(h, limit, w)]
  BY <1>11
<1> QED
  BY <1>0, <1>10, <1>14, <1>15 DEF Searches, R


-----------------------------------------------------------------------------
(* The simple paths by their definition: a tree of paths, each with the    *)
(* complete ones that begin with it.                                       *)
Complete(h, path) == Len(path) > 1 /\ IsRegister(h, Last(path))

Onward(h, path) == {e \in ToSet(h.edges) : e[1] = Last(path) /\ e[2] \notin ToSet(path)}

Turns(h, path, t) ==
  IF Complete(h, path) THEN {path} ELSE UNION {t[Append(path, e[2])] : e \in Onward(h, path)}

PathTree(h) == CHOOSE t : t = [path \in Seq(Nat) |-> Turns(h, path, t)]

Grows(h, t) ==
  /\ \A path \in Seq(Nat) : t[path] \in SUBSET Seq(Nat)
  /\ \A path \in Seq(Nat) : Complete(h, path) => t[path] = {path}
  /\ \A path \in Seq(Nat) : ~Complete(h, path) => \A q :
       q \in t[path] <=> \E e \in Onward(h, path) : q \in t[Append(path, e[2])]

LEMMA OnwardFacts ==
  ASSUME NEW V, NEW h \in SoundGraphs(V), NEW path \in Seq(Nat), NEW e \in Onward(h, path)
  PROVE  /\ e[2] \in Nat /\ e[2] \in NodeIds(h) /\ e[2] \notin ToSet(path)
         /\ Append(path, e[2]) \in Seq(Nat)
         /\ ToSet(Append(path, e[2])) = ToSet(path) \cup {e[2]}
<1> DEFINE T == TRUE
<1>1. T \in BOOLEAN /\ Ends(h, T) = ToSet(h.edges)
  BY DEF Ends
<1> HIDE DEF T
<1>2. /\ \A d \in Ends(h, T) : d[2] \in NodeIds(h)
      /\ NodeIds(h) \in SUBSET Nat
  BY <1>1, EndsFacts
<1>3. e[2] \in Nat /\ e[2] \in NodeIds(h) /\ e[2] \notin ToSet(path)
  BY <1>1, <1>2 DEF Onward
<1> QED
  BY <1>3, SetOfAppend

LEMMA PathTreeDef ==
  ASSUME NEW V, NEW h \in SoundGraphs(V)
  PROVE  /\ Grows(h, PathTree(h))
         /\ \A src : SimplePaths(h, src) = PathTree(h)[<<src>>]
<1> DEFINE X == Seq(Nat)
           T == SUBSET X
           Left(path) == NodeIds(h) \ ToSet(path)
           rank == [path \in X |-> Cardinality(Left(path))]
           step == [p \in X \X [X -> T] |-> Turns(h, p[1], p[2])]
<1>1. IsFiniteSet(NodeIds(h))
  <2> DEFINE B == TRUE
  <2>1. B \in BOOLEAN
    OBVIOUS
  <2> HIDE DEF B
  <2> QED
    BY <2>1, EndsFacts
<1>2. ASSUME NEW path \in X
      PROVE  IsFiniteSet(Left(path)) /\ Cardinality(Left(path)) \in Nat
  <2>1. Left(path) \subseteq NodeIds(h)
    OBVIOUS
  <2> HIDE DEF Left
  <2> QED
    BY <1>1, <2>1, FS_Subset, FS_CardinalityType
<1>3. rank \in [X -> Nat]
  BY <1>2
<1>4. ASSUME NEW path \in X, NEW e \in Onward(h, path)
      PROVE  Append(path, e[2]) \in X /\ rank[Append(path, e[2])] < rank[path]
  <2> DEFINE A == Left(path)
             p == Append(path, e[2])
             B == Left(p)
  <2>1. /\ e[2] \in NodeIds(h) /\ e[2] \notin ToSet(path) /\ p \in X
        /\ ToSet(p) = ToSet(path) \cup {e[2]}
    BY OnwardFacts
  <2>2. B \subseteq A /\ e[2] \in A /\ e[2] \notin B
    BY <2>1
  <2>3. IsFiniteSet(A) /\ Cardinality(A) \in Nat /\ Cardinality(B) \in Nat
    BY <1>2, <2>1
  <2>4. rank[path] = Cardinality(A) /\ rank[p] = Cardinality(B)
    BY <2>1
  <2> HIDE DEF A, B, rank, p
  <2>5. Cardinality(B) <= Cardinality(A) /\ (Cardinality(B) = Cardinality(A) => A = B)
    BY <2>2, <2>3, FS_Subset
  <2>6. Cardinality(B) < Cardinality(A)
    BY <2>2, <2>3, <2>5
  <2> QED
    BY <2>1, <2>4, <2>6 DEF p
<1> HIDE DEF X
<1>5. \A path \in X, f \in [X -> T] : Turns(h, path, f) \in T
  BY <1>4 DEF Turns
<1>6. T # {} /\ step \in [X \X [X -> T] -> T]
  <2> HIDE DEF T
  <2>1. step \in [X \X [X -> T] -> T]
    BY <1>5
  <2> QED
    BY <2>1 DEF T
<1>7. \A path \in X, f \in [X -> T] : step[<<path, f>>] = Turns(h, path, f)
  OBVIOUS
<1> HIDE DEF step, rank, T
<1>8. LooksBelow(step, rank, X, T)
  <2> SUFFICES ASSUME NEW path \in X, NEW f \in [X -> T], NEW k \in [X -> T],
                      \A p \in X : rank[p] < rank[path] => f[p] = k[p]
               PROVE  step[<<path, f>>] = step[<<path, k>>]
    BY DEF LooksBelow
  <2>1. \A e \in Onward(h, path) : f[Append(path, e[2])] = k[Append(path, e[2])]
    BY <1>4
  <2>2. Turns(h, path, f) = Turns(h, path, k)
    <3>1. {f[Append(path, e[2])] : e \in Onward(h, path)} =
            {k[Append(path, e[2])] : e \in Onward(h, path)}
      BY <2>1
    <3> QED
      BY <3>1 DEF Turns
  <2> QED
    BY <1>7, <2>2
<1>9. PICK f \in [X -> T] : Satisfies(f, step, X)
  BY <1>3, <1>6, <1>8, RankRec
<1>10. \A path \in X : f[path] = Turns(h, path, f)
  BY <1>7, <1>9 DEF Satisfies
<1> DEFINE Solves(t) == t = [path \in X |-> Turns(h, path, t)]
<1>11. Solves(f)
  BY <1>10
<1> DEFINE t == CHOOSE u : Solves(u)
<1>12. Solves(t)
  BY <1>11
<1>13. PathTree(h) = t
  BY DEF PathTree, X
<1>14. ASSUME NEW src PROVE SimplePaths(h, src) = t[<<src>>]
  BY DEF SimplePaths, X, Turns, Complete, Onward
<1> HIDE DEF t
<1>15. t = [path \in X |-> t[path]] /\ \A path \in X : t[path] = Turns(h, path, t)
  BY <1>12
<1> DEFINE P == {path \in X : t[path] \in T}
<1>16. ASSUME NEW path \in X, \A p \in X : rank[p] < rank[path] => p \in P
       PROVE  path \in P
  <2>1. \A e \in Onward(h, path) : t[Append(path, e[2])] \in T
    BY <1>4, <1>16
  <2>2. Turns(h, path, t) \in T
    BY <2>1 DEF Turns, T
  <2> QED
    BY <1>15, <2>2
<1>17. X \subseteq P
  <2> HIDE DEF P
  <2> QED
    BY <1>3, <1>16, RankInd
<1>18. \A path \in X : t[path] \in SUBSET X
  BY <1>17 DEF T
<1>19. ASSUME NEW path \in X, Complete(h, path) PROVE t[path] = {path}
  BY <1>15, <1>19 DEF Turns
<1>20. ASSUME NEW path \in X, NEW q, ~Complete(h, path)
       PROVE  q \in t[path] <=> \E e \in Onward(h, path) : q \in t[Append(path, e[2])]
  BY <1>15, <1>20 DEF Turns
<1> QED
  BY <1>13, <1>14, <1>18, <1>19, <1>20 DEF Grows, X

-----------------------------------------------------------------------------
(* Frames that lead to different paths.                                    *)
Apart(p, q) == \E i \in 1..Len(p) : i <= Len(q) /\ p[i] # q[i]

LEMMA ApartFacts ==
  ASSUME NEW p \in Seq(Nat), NEW q \in Seq(Nat)
  PROVE  /\ Apart(p, q) => Apart(q, p)
         /\ \A s \in Nat : Apart(p, q) => Apart(p, Append(q, s))
         /\ \A s, t \in Nat : s # t => Apart(Append(p, s), Append(p, t))
         /\ ~Apart(p, p)
<1>0. Len(p) \in Nat /\ Len(q) \in Nat
  OBVIOUS
<1>1. Apart(p, q) => Apart(q, p)
  BY <1>0 DEF Apart
<1>2. ASSUME NEW s \in Nat, Apart(p, q) PROVE Apart(p, Append(q, s))
  <2>1. PICK i \in 1..Len(p) : i <= Len(q) /\ p[i] # q[i]
    BY <1>2 DEF Apart
  <2>2. Append(q, s)[i] = q[i] /\ Len(Append(q, s)) = Len(q) + 1
    <3>1. i \in 1..Len(q)
      BY <1>0, <2>1
    <3> QED
      BY <3>1, SetOfAppend
  <2> QED
    BY <1>0, <2>1, <2>2 DEF Apart
<1>3. ASSUME NEW s \in Nat, NEW t \in Nat, s # t PROVE Apart(Append(p, s), Append(p, t))
  <2>1. /\ Append(p, s)[Len(p) + 1] = s /\ Append(p, t)[Len(p) + 1] = t
        /\ Len(Append(p, s)) = Len(p) + 1 /\ Len(Append(p, t)) = Len(p) + 1
    BY SetOfAppend
  <2> DEFINE a == Append(p, s)
             b == Append(p, t)
             i == Len(p) + 1
  <2> HIDE DEF a, b, i
  <2>2. i \in Nat /\ i >= 1 /\ Len(a) = i /\ Len(b) = i /\ a[i] # b[i]
    BY <1>0, <1>3, <2>1 DEF a, b, i
  <2>3. Apart(a, b)
    BY <2>2 DEF Apart
  <2> QED
    BY <2>3 DEF a, b
<1>4. ~Apart(p, p)
  BY DEF Apart
<1> QED
  BY <1>1, <1>2, <1>3, <1>4

Scattered(s) == \A i, j \in 1..Len(s) : i # j => Apart(s[i].path, s[j].path)
AllApart(s, path) == \A e \in ToSet(s) : Apart(e.path, path)

LEMMA ScatteredAppend ==
  ASSUME NEW s \in Seq(Frames), NEW f \in Frames, Scattered(s), AllApart(s, f.path)
  PROVE  Scattered(Append(s, f))
<1> DEFINE t == Append(s, f)
           N == Len(s)
<1>1. N \in Nat /\ Len(t) = N + 1 /\ t[N + 1] = f
      /\ \A i \in 1..N : t[i] = s[i] /\ s[i] \in Frames /\ s[i] \in ToSet(s)
  <2>1. \A i \in 1..N : s[i] \in Frames /\ s[i] \in ToSet(s)
    BY SetOfSeq
  <2> QED
    BY <2>1, SetOfAppend
<1>2. \A i \in 1..N : Apart(s[i].path, f.path) /\ Apart(f.path, s[i].path)
  <2> SUFFICES ASSUME NEW i \in 1..N
               PROVE  Apart(s[i].path, f.path) /\ Apart(f.path, s[i].path)
    OBVIOUS
  <2>1. Apart(s[i].path, f.path)
    BY <1>1 DEF AllApart
  <2>2. s[i].path \in Seq(Nat) /\ f.path \in Seq(Nat)
    BY <1>1 DEF Frames
  <2> QED
    BY <2>1, <2>2, ApartFacts
<1> HIDE DEF t, N
<1>3. ASSUME NEW i \in 1..N + 1, NEW j \in 1..N + 1, i # j
      PROVE  Apart(t[i].path, t[j].path)
  <2>1. CASE i = N + 1
    <3>1. j \in 1..N
      BY <1>1, <1>3, <2>1
    <3> QED
      BY <1>1, <1>2, <2>1, <3>1
  <2>2. CASE j = N + 1
    <3>1. i \in 1..N
      BY <1>1, <1>3, <2>2
    <3> QED
      BY <1>1, <1>2, <2>2, <3>1
  <2>3. CASE i # N + 1 /\ j # N + 1
    <3>1. i \in 1..N /\ j \in 1..N
      BY <1>1, <2>3
    <3> QED
      BY <1>1, <1>3, <3>1 DEF Scattered, N
  <2> QED
    BY <2>1, <2>2, <2>3
<1> QED
  BY <1>1, <1>3 DEF Scattered, t

LEMMA ScatteredFront ==
  ASSUME NEW s \in Seq(Frames), s # <<>>, Scattered(s)
  PROVE  Scattered(Front(s)) /\ AllApart(Front(s), Last(s).path)
<1> DEFINE t == Front(s)
           N == Len(t)
<1>1. /\ t \in Seq(Frames) /\ N = Len(s) - 1 /\ Len(s) - 1 \in Nat
      /\ \A i \in 1..Len(s) - 1 : t[i] = s[i]
  BY FrontLast
<1>2. Last(s) = s[Len(s)] /\ Len(s) \in Nat
  BY DEF Last
<1>3. \A e : e \in ToSet(t) <=> \E i \in 1..N : t[i] = e
  BY <1>1, SetOfSeq
<1> HIDE DEF t, N
<1>4. Scattered(t)
  BY <1>1, <1>2 DEF Scattered, N
<1>5. ASSUME NEW e \in ToSet(t) PROVE Apart(e.path, Last(s).path)
  <2>1. PICK i \in 1..N : t[i] = e
    BY <1>3
  <2>2. s[i] = e /\ i \in 1..Len(s) /\ Len(s) \in 1..Len(s) /\ i # Len(s)
    BY <1>1, <1>2, <2>1
  <2> QED
    BY <1>2, <2>2 DEF Scattered
<1> QED
  BY <1>4, <1>5 DEF AllApart, t


-----------------------------------------------------------------------------
(* What holds of a search at every turn.                                   *)
Combined(h, path) == \E id \in ToSet(path) : KindOf(h, id) = "Combinational"

GoodFrame(h, f) ==
  /\ f.path # <<>> /\ ToSet(f.path) \subseteq NodeIds(h)
  /\ f.comb <=> Combined(h, f.path)

SearchGood(h, w) ==
  /\ \A f \in ToSet(w.stack) : GoodFrame(h, f) /\ ~Complete(h, f.path)
  /\ \A f \in ToSet(w.paths) : GoodFrame(h, f) /\ Complete(h, f.path)
  /\ Scattered(w.stack) /\ Scattered(w.paths)
  /\ \A f \in ToSet(w.paths) : AllApart(w.stack, f.path)
  /\ w.full => w.truncated

(* The paths found and still to be found. *)
InTotal(h, w, q) ==
  \/ \E f \in ToSet(w.paths) : f.path = q
  \/ \E f \in ToSet(w.stack) : q \in PathTree(h)[f.path]

(* The frames of k are those of w and perhaps one with the path. *)
Grown(w, k, path) ==
  \A e \in ToSet(k.stack) \cup ToSet(k.paths) :
    e \in ToSet(w.stack) \cup ToSet(w.paths) \/ e.path = path

LEMMA ExtendFacts ==
  ASSUME NEW V, NEW h \in SoundGraphs(V), NEW limit \in Nat, NEW f \in Frames,
         NEW w \in SearchStates, NEW s \in Nat,
         GoodFrame(h, f), SearchGood(h, w), s \in NodeIds(h),
         AllApart(w.stack, Append(f.path, s)), AllApart(w.paths, Append(f.path, s))
  PROVE  /\ Extend(h, f, limit, w, s) \in SearchStates
         /\ SearchGood(h, Extend(h, f, limit, w, s))
         /\ Grown(w, Extend(h, f, limit, w, s), Append(f.path, s))
         /\ w.truncated => Extend(h, f, limit, w, s).truncated
         /\ s \in ToSet(f.path) => Extend(h, f, limit, w, s) = w
         /\ w.full => Extend(h, f, limit, w, s) = w
         /\ s \notin ToSet(f.path) /\ ~w.full => \A q :
              InTotal(h, Extend(h, f, limit, w, s), q) <=>
                InTotal(h, w, q) \/ q \in PathTree(h)[Append(f.path, s)]
<1> DEFINE k == Extend(h, f, limit, w, s)
           path == Append(f.path, s)
           T == PathTree(h)
           found == PathFrame(f, s)
           added == Added(h, f, s)
<1>1. /\ k \in SearchStates /\ found \in Frames /\ added \in Frames
      /\ Ignores(h, f, w, s) => k = w
      /\ Finds(h, f, w, s) => k = WithPath(w, found, limit)
      /\ Pushes(h, f, w, s) => k = WithFrame(w, added)
      /\ Ignores(h, f, w, s) \/ Finds(h, f, w, s) \/ Pushes(h, f, w, s)
  BY ExtendCases
<1>2. f.path \in Seq(Nat) /\ f.comb \in BOOLEAN /\ Len(f.path) \in Nat
  BY DEF Frames
<1>3. /\ path \in Seq(Nat) /\ Len(path) = Len(f.path) + 1 /\ path # <<>> /\ Last(path) = s
      /\ ToSet(path) = ToSet(f.path) \cup {s}
  BY <1>2, SetOfAppend, FrontOfAppend
<1>4. Len(path) > 1
  <2>1. Len(f.path) # 0
    BY <1>2 DEF GoodFrame
  <2> QED
    BY <1>2, <1>3, <2>1
<1>5. found.path = path /\ found.comb = f.comb
      /\ added.path = path /\ added.comb = (f.comb \/ KindOf(h, s) = "Combinational")
  BY DEF PathFrame, Added, Frame
<1>6. Grows(h, T)
  BY PathTreeDef
<1>7. Complete(h, path) <=> IsRegister(h, s)
  BY <1>3, <1>4 DEF Complete
<1>8. Combined(h, path) <=> Combined(h, f.path) \/ KindOf(h, s) = "Combinational"
  BY <1>3 DEF Combined
<1>9. ToSet(path) \subseteq NodeIds(h)
  BY <1>3 DEF GoodFrame
<1>10. IsRegister(h, s) \/ IsDataNode(KindOf(h, s))
  <2> DEFINE B == TRUE
  <2>1. B \in BOOLEAN
    OBVIOUS
  <2> HIDE DEF B
  <2>2. KindOf(h, s) \in Kinds
    BY <2>1, EndsFacts
  <2> QED
    BY <2>2 DEF Kinds, IsRegister, IsDataNode
<1>11. w.stack \in Seq(Frames) /\ w.paths \in Seq(Frames)
  BY StateFields
<1>12. added.comb <=> Combined(h, path)
  BY <1>2, <1>5, <1>8 DEF GoodFrame
<1> HIDE DEF k, found, added, T
<1>13. GoodFrame(h, added)
  BY <1>3, <1>5, <1>9, <1>12 DEF GoodFrame
<1>20. CASE Ignores(h, f, w, s)
  <2>1. k = w /\ (w.full \/ s \in ToSet(f.path))
    BY <1>1, <1>10, <1>20 DEF Ignores
  <2> QED
    BY <1>1, <2>1 DEF Grown, k
<1>21. CASE Finds(h, f, w, s)
  <2>1. ~w.full /\ s \notin ToSet(f.path) /\ IsRegister(h, s)
    BY <1>21 DEF Finds
  <2>2. /\ k.stack = w.stack /\ k.paths = Append(w.paths, found)
        /\ w.truncated => k.truncated
        /\ k.full => k.truncated
    <3> DEFINE full == Len(w.paths) + 1 >= limit
               cut == w.truncated \/ full
    <3>1. k = [stack |-> w.stack, paths |-> Append(w.paths, found), truncated |-> cut,
               full |-> full]
      BY <1>1, <1>21 DEF WithPath
    <3>2. (w.truncated => cut) /\ (full => cut)
      OBVIOUS
    <3> HIDE DEF cut, full
    <3>3. /\ k.stack = w.stack /\ k.paths = Append(w.paths, found)
          /\ k.truncated = cut /\ k.full = full
      BY <3>1
    <3> QED
      BY <3>2, <3>3
  <2>3. ToSet(k.paths) = ToSet(w.paths) \cup {found}
    BY <1>1, <1>11, <2>2, SetOfAppend
  <2>4. GoodFrame(h, found)
    <3>1. KindOf(h, s) # "Combinational"
      BY <2>1 DEF IsRegister
    <3> QED
      BY <1>2, <1>3, <1>5, <1>8, <1>9, <3>1 DEF GoodFrame
  <2>5. Scattered(k.paths)
    <3>1. AllApart(w.paths, found.path) /\ Scattered(w.paths)
      BY <1>5 DEF SearchGood
    <3> QED
      BY <1>1, <1>11, <2>2, <3>1, ScatteredAppend
  <2>6. SearchGood(h, k)
    BY <1>5, <1>7, <2>1, <2>2, <2>3, <2>4, <2>5 DEF SearchGood
  <2>7. Grown(w, k, path)
    BY <1>5, <2>2, <2>3 DEF Grown
  <2>8. T[path] = {path}
    BY <1>3, <1>6, <1>7, <2>1 DEF Grows
  <2>9. \A q : InTotal(h, k, q) <=> InTotal(h, w, q) \/ q \in T[path]
    BY <1>5, <2>2, <2>3, <2>8 DEF InTotal
  <2> QED
    BY <1>1, <2>1, <2>2, <2>6, <2>7, <2>9 DEF k, T
<1>22. CASE Pushes(h, f, w, s)
  <2>1. ~w.full /\ s \notin ToSet(f.path) /\ ~IsRegister(h, s)
    BY <1>22 DEF Pushes
  <2>2. /\ k.stack = Append(w.stack, added) /\ k.paths = w.paths
        /\ k.truncated = w.truncated /\ k.full = w.full
    BY <1>1, <1>22 DEF WithFrame
  <2>3. ToSet(k.stack) = ToSet(w.stack) \cup {added}
    BY <1>1, <1>11, <2>2, SetOfAppend
  <2>5. Scattered(k.stack)
    <3>1. AllApart(w.stack, added.path) /\ Scattered(w.stack)
      BY <1>5 DEF SearchGood
    <3> QED
      BY <1>1, <1>11, <2>2, <3>1, ScatteredAppend
  <2>4. ASSUME NEW e \in ToSet(w.paths) PROVE Apart(added.path, e.path)
    <3>1. Apart(e.path, path)
      BY DEF AllApart
    <3>2. e.path \in Seq(Nat)
      <4>1. e \in Frames
        BY <1>11, SetOfSeq
      <4> QED
        BY <4>1 DEF Frames
    <3> HIDE DEF path
    <3> QED
      BY <1>3, <1>5, <3>1, <3>2, ApartFacts
  <2>6. SearchGood(h, k)
    <3>1. \A e \in ToSet(k.paths) : AllApart(k.stack, e.path)
      BY <2>2, <2>3, <2>4 DEF SearchGood, AllApart
    <3>2. \A e \in ToSet(k.stack) : GoodFrame(h, e) /\ ~Complete(h, e.path)
      BY <1>5, <1>7, <1>13, <2>1, <2>3 DEF SearchGood
    <3> QED
      BY <2>2, <2>5, <3>1, <3>2 DEF SearchGood
  <2>7. Grown(w, k, path)
    BY <1>5, <2>2, <2>3 DEF Grown
  <2>9. \A q : InTotal(h, k, q) <=> InTotal(h, w, q) \/ q \in T[path]
    BY <1>5, <2>2, <2>3 DEF InTotal, T
  <2> QED
    BY <1>1, <2>1, <2>2, <2>6, <2>7, <2>9 DEF k, T
<1> QED
  BY <1>1, <1>20, <1>21, <1>22

(* What a turn keeps. *)
Keeps(h, w, k) ==
  /\ SearchGood(h, k)
  /\ w.truncated => k.truncated
  /\ \A q : InTotal(h, k, q) => InTotal(h, w, q)
  /\ ~k.truncated => \A q : InTotal(h, w, q) => InTotal(h, k, q)

(* In the middle of a turn: the first n successors of f are done. *)
Midway(h, v, f, next, n, k) ==
  /\ k \in SearchStates /\ SearchGood(h, k)
  /\ \A e \in ToSet(k.stack) \cup ToSet(k.paths) :
       Apart(e.path, f.path) \/ \E i \in 1..n : e.path = Append(f.path, next[i])
  /\ v.truncated => k.truncated
  /\ \A q : InTotal(h, k, q) =>
       InTotal(h, v, q) \/ \E i \in 1..n : /\ next[i] \notin ToSet(f.path)
                                           /\ q \in PathTree(h)[Append(f.path, next[i])]
  /\ ~k.truncated => \A q :
       InTotal(h, v, q) \/ (\E i \in 1..n : /\ next[i] \notin ToSet(f.path)
                                            /\ q \in PathTree(h)[Append(f.path, next[i])])
         => InTotal(h, k, q)

LEMMA MidwayOn ==
  ASSUME NEW V, NEW h \in SoundGraphs(V), NEW limit \in Nat, NEW f \in Frames,
         GoodFrame(h, f), NEW next \in Seq(Nat), ToSet(next) \subseteq NodeIds(h),
         IsInjective(next), NEW v, NEW w \in SearchStates,
         NEW n \in Nat, n + 1 \in 1..Len(next), Midway(h, v, f, next, n, w)
  PROVE  Midway(h, v, f, next, n + 1, Extend(h, f, limit, w, next[n + 1]))
<1> DEFINE s == next[n + 1]
           path == Append(f.path, s)
           k == Extend(h, f, limit, w, s)
           T == PathTree(h)
<1>1. s \in Nat /\ s \in NodeIds(h) /\ f.path \in Seq(Nat)
      /\ \A i \in 1..n : next[i] # s /\ next[i] \in Nat
  <2>1. DOMAIN next = 1..Len(next) /\ Len(next) \in Nat
        /\ \A i \in 1..Len(next) : next[i] \in Nat /\ next[i] \in ToSet(next)
    BY SetOfSeq
  <2>2. \A i \in 1..n : i \in 1..Len(next) /\ i # n + 1
    BY <2>1
  <2> QED
    BY <2>1, <2>2 DEF IsInjective, Frames
<1>2. ASSUME NEW e \in ToSet(w.stack) \cup ToSet(w.paths) PROVE Apart(e.path, path)
  <2>1. e \in Frames
    BY StateFields, SetOfSeq
  <2>2. e.path \in Seq(Nat)
    BY <2>1 DEF Frames
  <2>3. CASE Apart(e.path, f.path)
    BY <1>1, <2>2, <2>3, ApartFacts
  <2>4. CASE \E i \in 1..n : e.path = Append(f.path, next[i])
    BY <1>1, <2>4, ApartFacts
  <2> QED
    BY <2>3, <2>4 DEF Midway
<1>3. AllApart(w.stack, path) /\ AllApart(w.paths, path)
  BY <1>2 DEF AllApart
<1>4. SearchGood(h, w)
  BY DEF Midway
<1>5. /\ k \in SearchStates /\ SearchGood(h, k) /\ Grown(w, k, path)
      /\ w.truncated => k.truncated
      /\ s \in ToSet(f.path) => k = w
      /\ w.full => k = w
      /\ s \notin ToSet(f.path) /\ ~w.full =>
           \A q : InTotal(h, k, q) <=> InTotal(h, w, q) \/ q \in T[path]
  BY <1>1, <1>3, <1>4, ExtendFacts
<1>6. w.full => w.truncated
  BY <1>4 DEF SearchGood
<1>7. \A i \in 1..n + 1 : i \in 1..n \/ i = n + 1
  OBVIOUS
<1>8. n + 1 \in 1..n + 1 /\ \A i \in 1..n : i \in 1..n + 1
  OBVIOUS
<1> DEFINE Done(m, q) == \E i \in 1..m : next[i] \notin ToSet(f.path) /\ q \in T[Append(f.path, next[i])]
<1>9. \A q : Done(n + 1, q) <=> Done(n, q) \/ (s \notin ToSet(f.path) /\ q \in T[path])
  BY <1>7, <1>8
<1>10. /\ \A q : InTotal(h, w, q) => InTotal(h, v, q) \/ Done(n, q)
       /\ ~w.truncated => \A q : InTotal(h, v, q) \/ Done(n, q) => InTotal(h, w, q)
       /\ v.truncated => w.truncated
  BY DEF Midway
<1>11. \A e \in ToSet(k.stack) \cup ToSet(k.paths) :
         Apart(e.path, f.path) \/ \E i \in 1..n + 1 : e.path = Append(f.path, next[i])
  <2> SUFFICES ASSUME NEW e \in ToSet(k.stack) \cup ToSet(k.paths)
               PROVE  Apart(e.path, f.path) \/ \E i \in 1..n + 1 : e.path = Append(f.path, next[i])
    OBVIOUS
  <2>1. e \in ToSet(w.stack) \cup ToSet(w.paths) \/ e.path = path
    BY <1>5 DEF Grown
  <2>2. CASE e \in ToSet(w.stack) \cup ToSet(w.paths)
    BY <1>8, <2>2 DEF Midway
  <2> QED
    BY <1>8, <2>1, <2>2
<1> HIDE DEF k, Done
<1>12. \A q : InTotal(h, k, q) => InTotal(h, v, q) \/ Done(n + 1, q)
  BY <1>5, <1>9, <1>10
<1>13. ~k.truncated => \A q : InTotal(h, v, q) \/ Done(n + 1, q) => InTotal(h, k, q)
  BY <1>5, <1>6, <1>9, <1>10
<1>14. v.truncated => k.truncated
  BY <1>5, <1>10
<1> QED
  BY <1>5, <1>11, <1>12, <1>13, <1>14 DEF Midway, k, Done


LEMMA PoppedFields ==
  ASSUME NEW w \in SearchStates, w.stack # <<>>
  PROVE  /\ Popped(w).stack = Front(w.stack) /\ Popped(w).paths = w.paths
         /\ Popped(w).truncated = w.truncated /\ Popped(w).full = w.full
         /\ [Popped(w) EXCEPT !.truncated = TRUE].stack = Front(w.stack)
         /\ [Popped(w) EXCEPT !.truncated = TRUE].paths = w.paths
         /\ [Popped(w) EXCEPT !.truncated = TRUE].truncated = TRUE
         /\ [Popped(w) EXCEPT !.truncated = TRUE].full = w.full
<1> DEFINE v == Popped(w)
           B == TRUE
           cut == [v EXCEPT !.truncated = B]
           front == Front(w.stack)
           a == w.paths
           t == w.truncated
           u == w.full
<1>1. /\ v = [stack |-> front, paths |-> a, truncated |-> t, full |-> u]
      /\ cut = [stack |-> front, paths |-> a, truncated |-> B, full |-> u]
  BY PoppedType
<1> HIDE DEF v, cut, front, a, t, u, B
<1>2. v.stack = front /\ v.paths = a /\ v.truncated = t /\ v.full = u
  BY <1>1
<1>3. cut.stack = front /\ cut.paths = a /\ cut.truncated = B /\ cut.full = u
  BY <1>1
<1> QED
  BY <1>2, <1>3 DEF v, cut, front, a, t, u, B

LEMMA SetOfOne == ASSUME NEW x PROVE ToSet(<<x>>) = {x} /\ Len(<<x>>) = 1 /\ <<x>>[1] = x
<1>1. DOMAIN <<x>> = 1..1 /\ <<x>>[1] = x /\ Len(<<x>>) = 1
  OBVIOUS
<1> DEFINE s == <<x>>
<1> HIDE DEF s
<1>2. DOMAIN s = 1..1 /\ s[1] = x
  BY <1>1 DEF s
<1>3. ToSet(s) = {x}
  BY <1>2 DEF ToSet
<1> QED
  BY <1>1, <1>3 DEF s

LEMMA SetOfNone == ToSet(<<>>) = {} /\ Len(<<>>) = 0
BY DEF ToSet

LEMMA SearchTurn ==
  ASSUME NEW V, NEW h \in SoundGraphs(V), NEW limit \in Nat,
         NEW w \in SearchStates, w.stack # <<>>, SearchGood(h, w)
  PROVE  Keeps(h, w, SearchStep(h, limit, w))
<1> DEFINE f == Last(w.stack)
           k == SearchStep(h, limit, w)
           front == Front(w.stack)
           v == Popped(w)
           cut == [v EXCEPT !.truncated = TRUE]
           next == Successors(h, Last(f.path))
           T == PathTree(h)
<1>1. /\ v \in SearchStates /\ f \in Frames /\ cut \in SearchStates
      /\ v.stack = front /\ v.paths = w.paths /\ v.truncated = w.truncated /\ v.full = w.full
      /\ cut.stack = front /\ cut.paths = w.paths /\ cut.truncated = TRUE /\ cut.full = w.full
  <2>1. v \in SearchStates /\ f \in Frames /\ cut \in SearchStates
    BY PoppedType
  <2>2. /\ v.stack = front /\ v.paths = w.paths /\ v.truncated = w.truncated /\ v.full = w.full
        /\ cut.stack = front /\ cut.paths = w.paths /\ cut.truncated = TRUE /\ cut.full = w.full
    BY PoppedFields
  <2> HIDE DEF f, v, cut, front
  <2> QED
    BY <2>1, <2>2
<1>2. w.stack \in Seq(Frames) /\ w.paths \in Seq(Frames)
  BY StateFields
<1>3. ToSet(w.stack) = ToSet(front) \cup {f} /\ front \in Seq(Frames)
  BY <1>2, FrontLast
<1>4. Scattered(front) /\ AllApart(front, f.path)
  BY <1>2, ScatteredFront DEF SearchGood
<1>5. GoodFrame(h, f) /\ ~Complete(h, f.path)
  BY <1>3 DEF SearchGood
<1>6. f.path \in Seq(Nat) /\ Len(f.path) \in Nat
  BY <1>1 DEF Frames
<1>7. AllApart(w.paths, f.path)
  <2> SUFFICES ASSUME NEW e \in ToSet(w.paths) PROVE Apart(e.path, f.path)
    BY DEF AllApart
  <2>1. Apart(f.path, e.path)
    BY <1>3 DEF SearchGood, AllApart
  <2>2. e.path \in Seq(Nat)
    <3>1. e \in Frames
      BY <1>2, SetOfSeq
    <3> QED
      BY <3>1 DEF Frames
  <2> QED
    BY <1>6, <2>1, <2>2, ApartFacts
<1> HIDE DEF f, k, front, v, cut, next, T
<1>8. /\ \A e \in ToSet(front) : GoodFrame(h, e) /\ ~Complete(h, e.path)
      /\ \A e \in ToSet(w.paths) : GoodFrame(h, e) /\ Complete(h, e.path)
      /\ Scattered(w.paths) /\ \A e \in ToSet(w.paths) : AllApart(front, e.path)
      /\ w.full => w.truncated
  BY <1>3 DEF SearchGood, AllApart
<1>9. SearchGood(h, v) /\ SearchGood(h, cut)
  BY <1>1, <1>4, <1>8 DEF SearchGood
<1>10. \A q : InTotal(h, w, q) <=> InTotal(h, v, q) \/ q \in T[f.path]
  BY <1>1, <1>3 DEF InTotal, T
<1>11. CASE Len(f.path) > MAX_PATH_DEPTH
  <2>1. k = cut
    BY <1>11 DEF SearchStep, k, cut, v, f, Popped
  <2>2. \A q : InTotal(h, cut, q) => InTotal(h, w, q)
    BY <1>1, <1>3 DEF InTotal
  <2> QED
    BY <1>1, <1>9, <2>1, <2>2 DEF Keeps, k
<1>12. CASE ~(Len(f.path) > MAX_PATH_DEPTH)
  <2> DEFINE N == Len(next)
             B == TRUE
  <2>1. B \in BOOLEAN /\ next = Step(h, B, Last(f.path)) /\ ToSet(h.edges) = Ends(h, B)
    BY DEF next, Step, Ends
  <2> HIDE DEF B
  <2>2. /\ next \in Seq(Nat) /\ IsInjective(next) /\ N \in Nat
        /\ \A n : n \in ToSet(next) <=> <<Last(f.path), n>> \in ToSet(h.edges)
    BY <2>1, StepFacts
  <2>3. /\ \A e \in ToSet(h.edges) : e = <<e[1], e[2]>> /\ e[2] \in NodeIds(h)
        /\ NodeIds(h) \in SUBSET Nat
    BY <2>1, EndsFacts
  <2>4. ToSet(next) \subseteq NodeIds(h)
    BY <2>2, <2>3
  <2>5. Len(f.path) <= MAX_PATH_DEPTH
    BY <1>6, <1>12, TraversalAssumption
  <2>6. PICK x : Extending(x, h, f, limit, v, next) /\ k = x[N]
    BY <2>5, SearchStepDef DEF f, k, v, next
  <2>7. /\ x \in [0..N -> SearchStates] /\ x[0] = v
        /\ \A n \in 1..N : x[n] = Extend(h, f, limit, x[n - 1], next[n])
    BY <2>6 DEF Extending
  <2> HIDE DEF N
  <2> DEFINE Good == {n \in Nat : n <= N => Midway(h, v, f, next, n, x[n])}
  <2>8. Midway(h, v, f, next, 0, v)
    <3>1. \A e \in ToSet(v.stack) \cup ToSet(v.paths) : Apart(e.path, f.path)
      BY <1>1, <1>4, <1>7 DEF AllApart
    <3>2. \A i \in 1..0 : FALSE
      OBVIOUS
    <3> QED
      BY <1>1, <1>9, <3>1, <3>2 DEF Midway
  <2>9. 0 \in Good
    BY <2>7, <2>8
  <2>10. ASSUME NEW n \in Nat, n \in Good PROVE n + 1 \in Good
    <3> SUFFICES ASSUME n + 1 <= N PROVE Midway(h, v, f, next, n + 1, x[n + 1])
      OBVIOUS
    <3>1. n + 1 \in 1..N /\ (n + 1) - 1 = n /\ n \in 0..N
      BY <2>2
    <3>2. Midway(h, v, f, next, n, x[n]) /\ x[n] \in SearchStates
      BY <2>2, <2>7, <2>10, <3>1
    <3>3. x[n + 1] = Extend(h, f, limit, x[n], next[n + 1])
      BY <2>7, <3>1
    <3> DEFINE w2 == x[n]
    <3>4. Midway(h, v, f, next, n + 1, Extend(h, f, limit, w2, next[n + 1]))
      <4>1. n + 1 \in 1..Len(next)
        BY <3>1 DEF N
      <4>2. w2 \in SearchStates /\ Midway(h, v, f, next, n, w2)
        BY <3>2
      <4> HIDE DEF w2
      <4> QED
        BY <1>1, <1>5, <2>2, <2>4, <4>1, <4>2, MidwayOn
    <3> QED
      BY <3>3, <3>4
  <2>11. Nat \subseteq Good
    <3> HIDE DEF Good
    <3> QED
      BY <2>9, <2>10, NatInd
  <2>12. Midway(h, v, f, next, N, k)
    BY <2>2, <2>6, <2>11
  <2> DEFINE Done(q) == \E i \in 1..N : next[i] \notin ToSet(f.path) /\ q \in T[Append(f.path, next[i])]
  <2>13. \A q : q \in T[f.path] <=> Done(q)
    <3>1. Grows(h, T)
      BY PathTreeDef DEF T
    <3>2. \A q : q \in T[f.path] <=> \E e \in Onward(h, f.path) : q \in T[Append(f.path, e[2])]
      BY <1>5, <1>6, <3>1 DEF Grows
    <3>3. \A n : n \in ToSet(next) <=> \E i \in 1..N : next[i] = n
      BY <2>2, SetOfSeq DEF N
    <3>4. \A e : e \in Onward(h, f.path) <=>
            /\ e = <<Last(f.path), e[2]>> /\ e[2] \in ToSet(next) /\ e[2] \notin ToSet(f.path)
      BY <2>2, <2>3 DEF Onward
    <3>5. ASSUME NEW q, Done(q) PROVE q \in T[f.path]
      <4>1. PICK i \in 1..N : next[i] \notin ToSet(f.path) /\ q \in T[Append(f.path, next[i])]
        BY <3>5
      <4> DEFINE e == <<Last(f.path), next[i]>>
      <4>2. e[2] = next[i] /\ e[1] = Last(f.path)
        OBVIOUS
      <4>3. e \in Onward(h, f.path)
        <5>1. next[i] \in ToSet(next)
          BY <3>3
        <5> QED
          BY <3>4, <4>1, <4>2, <5>1
      <4> HIDE DEF e
      <4> QED
        BY <3>2, <4>1, <4>2, <4>3
    <3>6. ASSUME NEW q, q \in T[f.path] PROVE Done(q)
      <4>1. PICK e \in Onward(h, f.path) : q \in T[Append(f.path, e[2])]
        BY <3>2, <3>6
      <4>2. PICK i \in 1..N : next[i] = e[2]
        BY <3>3, <3>4, <4>1
      <4> QED
        BY <3>4, <4>1, <4>2
    <3> QED
      BY <3>5, <3>6
  <2>14. /\ SearchGood(h, k)
         /\ v.truncated => k.truncated
         /\ \A q : InTotal(h, k, q) => InTotal(h, v, q) \/ Done(q)
         /\ ~k.truncated => \A q : InTotal(h, v, q) \/ Done(q) => InTotal(h, k, q)
    BY <2>12 DEF Midway, T
  <2> HIDE DEF Done
  <2>15. /\ \A q : InTotal(h, k, q) => InTotal(h, w, q)
         /\ ~k.truncated => \A q : InTotal(h, w, q) => InTotal(h, k, q)
    BY <1>10, <2>13, <2>14
  <2> QED
    BY <1>1, <2>14, <2>15 DEF Keeps, k
<1> QED
  BY <1>11, <1>12

(* What a search returns: only simple paths, each once; and all of them    *)
(* unless it says that it was truncated.                                   *)
Answers(h, src, r) ==
  /\ r \in Results
  /\ Scattered(r.paths)
  /\ \A p \in ToSet(r.paths) : /\ GoodFrame(h, p) /\ Complete(h, p.path)
                               /\ p.path \in SimplePaths(h, src)
  /\ ~r.truncated => \A q \in SimplePaths(h, src) : \E p \in ToSet(r.paths) : p.path = q

LEMMA SearchExact ==
  ASSUME NEW V, NEW h \in SoundGraphs(V), NEW limit \in Nat, NEW src \in Registers(h)
  PROVE  Answers(h, src, FindRegisterPaths(h, src, limit))
<1> DEFINE w0 == SearchStart(src)
           next == SearchNext(h, limit)
           X == SearchStates
<1>1. src \in NodeIds(h) /\ src \in Nat /\ IsRegister(h, src)
  BY GraphFields DEF Registers, SoundGraphs
<1>2. w0 \in X
  BY <1>1, SearchDef
<1>3. PICK search : /\ Searches(search, h, limit)
                    /\ FindRegisterPaths(h, src, limit) = search[w0]
  BY <1>1, SearchDef
<1>4. /\ next \in [X -> X] /\ Shrinks(SearchRank(h), X, SearchEnd, next)
      /\ SearchRank(h) \in [X -> Nat]
      /\ \A w \in X \ SearchEnd : next[w] = SearchStep(h, limit, w)
  BY SearchLoop
<1> HIDE DEF next
<1> DEFINE Right(w, r) ==
             /\ Scattered(r.paths)
             /\ \A p \in ToSet(r.paths) : GoodFrame(h, p) /\ Complete(h, p.path)
             /\ \A p \in ToSet(r.paths) : InTotal(h, w, p.path)
             /\ w.truncated => r.truncated
             /\ ~r.truncated => \A q : InTotal(h, w, q) => \E p \in ToSet(r.paths) : p.path = q
           P == {w \in X : SearchGood(h, w) => Right(w, search[w])}
<1>5. X \cap SearchEnd \subseteq P
  <2> SUFFICES ASSUME NEW w \in X, w \in SearchEnd, SearchGood(h, w) PROVE Right(w, search[w])
    OBVIOUS
  <2>1. search[w] = [paths |-> w.paths, truncated |-> w.truncated]
    BY <1>3 DEF Searches, SearchEnd
  <2>2. w.truncated \/ w.stack = <<>>
    BY DEF SearchEnd, SearchGood
  <2>3. ToSet(<<>>) = {}
    BY DEF ToSet
  <2>4. search[w].paths = w.paths /\ search[w].truncated = w.truncated
    BY <2>1
  <2> HIDE DEF X
  <2>5. \A p \in ToSet(w.paths) : InTotal(h, w, p.path)
    BY DEF InTotal
  <2>6. ~w.truncated => \A q : InTotal(h, w, q) => \E p \in ToSet(w.paths) : p.path = q
    BY <2>2, <2>3 DEF InTotal
  <2> QED
    BY <2>4, <2>5, <2>6 DEF SearchGood
<1>6. ASSUME NEW w \in X \ SearchEnd, next[w] \in P PROVE w \in P
  <2> SUFFICES ASSUME SearchGood(h, w) PROVE Right(w, search[w])
    OBVIOUS
  <2> DEFINE k == next[w]
             r == search[w]
  <2>1. ~w.full /\ w.stack # <<>>
    BY DEF SearchEnd
  <2>2. search[w] = search[k] /\ k = SearchStep(h, limit, w)
    BY <1>3, <1>4, <2>1 DEF Searches
  <2>3. Keeps(h, w, k)
    BY <2>1, <2>2, SearchTurn
  <2>4. Right(k, r)
    BY <1>6, <2>2, <2>3 DEF Keeps
  <2> HIDE DEF k, r
  <2>5. Right(w, r)
    BY <2>3, <2>4 DEF Keeps
  <2> QED
    BY <2>5 DEF r
<1>7. X \subseteq P
  <2>1. Precedes(next, X, SearchEnd, P)
    BY <1>6 DEF Precedes
  <2> HIDE DEF P, X
  <2> QED
    BY <1>4, <1>5, <2>1, LoopInd
<1> DEFINE first == Frame(<<src>>, FALSE)
<1>8. /\ w0.stack = <<first>> /\ w0.paths = <<>> /\ w0.full = FALSE /\ w0.truncated = FALSE
      /\ first.path = <<src>> /\ first.comb = FALSE
  BY DEF SearchStart, Frame
<1>9. ToSet(<<first>>) = {first} /\ ToSet(<<src>>) = {src} /\ ToSet(<<>>) = {}
      /\ Len(<<first>>) = 1 /\ Len(<<src>>) = 1 /\ Len(<<>>) = 0
  <2> HIDE DEF first
  <2> QED
    BY SetOfOne, SetOfNone
<1> HIDE DEF first, w0
<1>10. GoodFrame(h, first) /\ ~Complete(h, first.path)
  <2>1. ~Combined(h, <<src>>)
    BY <1>1, <1>9 DEF Combined, IsRegister
  <2> QED
    BY <1>1, <1>8, <1>9, <2>1 DEF GoodFrame, Complete
<1>11. SearchGood(h, w0)
  <2>1. Scattered(<<>>) /\ Scattered(<<first>>)
    BY <1>9 DEF Scattered
  <2> QED
    BY <1>8, <1>9, <1>10, <2>1 DEF SearchGood
<1>12. \A q : InTotal(h, w0, q) <=> q \in SimplePaths(h, src)
  <2>1. SimplePaths(h, src) = PathTree(h)[<<src>>]
    BY PathTreeDef
  <2> QED
    BY <1>8, <1>9, <2>1 DEF InTotal
<1> DEFINE r == search[w0]
<1>13. Right(w0, r)
  BY <1>2, <1>7, <1>11
<1>14. r \in Results
  BY <1>2, <1>3 DEF Searches
<1> HIDE DEF r
<1>15. Answers(h, src, r)
  BY <1>12, <1>13, <1>14 DEF Answers
<1> QED
  BY <1>3, <1>15 DEF r

(* The paths of a result are as many as there are in it. *)
LEMMA PathsCounted ==
  ASSUME NEW s \in Seq(Frames), Scattered(s)
  PROVE  Len(s) = Cardinality({p.path : p \in ToSet(s)})
<1> DEFINE N == Len(s)
           t == [i \in 1..N |-> s[i].path]
           S == Seq(Nat)
<1>1. /\ N \in Nat /\ \A i \in 1..N : s[i] \in Frames
      /\ \A x : x \in ToSet(s) <=> \E i \in 1..N : s[i] = x
  BY SetOfSeq
<1>2. \A i \in 1..N : s[i].path \in S
  BY <1>1 DEF Frames
<1> HIDE DEF S, N
<1>3. t \in Seq(S) /\ Len(t) = N
  BY <1>1, <1>2, IsASeq, LenProperties
<1>4. IsInjective(t)
  <2> SUFFICES ASSUME NEW i \in 1..N, NEW j \in 1..N, t[i] = t[j] PROVE i = j
    BY DEF IsInjective
  <2>1. ~Apart(s[i].path, s[j].path)
    BY <1>2, ApartFacts DEF S
  <2> QED
    BY <2>1 DEF Scattered, N
<1>5. Cardinality(ToSet(t)) = Len(t)
  BY <1>3, <1>4, CardinalityOfSeq
<1>6. \A x : x \in ToSet(t) <=> \E i \in 1..N : t[i] = x
  BY <1>3, SetOfSeq
<1>7. \A x : x \in ToSet(t) <=> x \in {p.path : p \in ToSet(s)}
  BY <1>1, <1>6
<1>8. ToSet(t) = {p.path : p \in ToSet(s)}
  BY <1>7
<1> QED
  BY <1>3, <1>5, <1>8 DEF N

-----------------------------------------------------------------------------
(* The values of a function on a finite set are finitely many. *)
LEMMA FiniteImage ==
  ASSUME NEW S, IsFiniteSet(S), NEW f
  PROVE  IsFiniteSet({f[x] : x \in S})
<1> DEFINE T == {f[x] : x \in S}
           h == [x \in S |-> f[x]]
<1>1. h \in Surjection(S, T)
  BY DEF Surjection
<1> QED
  BY <1>1, FS_Surjection

-----------------------------------------------------------------------------
(* The graph: its nodes are a sequence, so it has finitely many of them.   *)

(* The nodes of a graph are a sequence.                                    *)
Sized(g) == "nodes" \in DOMAIN g /\ \E X : g.nodes \in Seq(X)

(* A sequence of nodes names finitely many nodes and registers.            *)
LEMMA SizedIsFinite ==
  ASSUME NEW g, Sized(g)
  PROVE  IsFiniteSet(NodeIds(g)) /\ IsFiniteSet(Registers(g))
<1>1. PICK X : g.nodes \in Seq(X)
  BY DEF Sized
<1>2. IsFiniteSet(1..Len(g.nodes)) /\ DOMAIN g.nodes = 1..Len(g.nodes)
  BY <1>1, FS_Interval
<1>3. IsFiniteSet(NodeIds(g))
  <2> DEFINE f == [i \in DOMAIN g.nodes |-> g.nodes[i].id]
             D == DOMAIN g.nodes
  <2>1. NodeIds(g) = {f[i] : i \in D}
    BY DEF NodeIds
  <2>2. IsFiniteSet({f[i] : i \in D})
    <3> HIDE DEF f
    <3> QED
      BY <1>2, FiniteImage
  <2> QED
    BY <2>1, <2>2
<1>4. Registers(g) \subseteq NodeIds(g)
  BY DEF Registers
<1> QED
  BY <1>3, <1>4, FS_Subset

-----------------------------------------------------------------------------
(* Findings: finitely many records of one shape.                           *)

(* The fields of a finding.                                                *)
IsFinding(f) ==
  f = [rule |-> f.rule, severity |-> f.severity, src |-> f.src, dst |-> f.dst,
       path |-> f.path, status |-> f.status, why |-> f.why]

Findings(F) == IsFiniteSet(F) /\ \A f \in F : IsFinding(f)

(* A finding that a rule writes has the fields of a finding.               *)
LEMMA FindingIsOne ==
  \A rule, severity, src, dst, path, status :
    IsFinding(Finding(rule, severity, src, dst, path, status))
BY DEF IsFinding, Finding

(* A finding that is suppressed or set back remains one.                   *)
LEMMA BecauseIsOne ==
  ASSUME NEW f, IsFinding(f), NEW why, NEW severity, NEW status
  PROVE  /\ IsFinding(Because(f, why))
         /\ IsFinding([f EXCEPT !.severity = severity])
         /\ IsFinding([f EXCEPT !.severity = severity, !.status = status])
<1>1. PICK r, s, a, b, p, t, w :
        f = [rule |-> r, severity |-> s, src |-> a, dst |-> b, path |-> p,
             status |-> t, why |-> w]
  BY DEF IsFinding
<1>2. Because(f, why) = [rule |-> r, severity |-> s, src |-> a, dst |-> b, path |-> p,
                         status |-> t, why |-> why]
  BY <1>1 DEF Because
<1>3. [f EXCEPT !.severity = severity]
        = [rule |-> r, severity |-> severity, src |-> a, dst |-> b, path |-> p,
           status |-> t, why |-> w]
  BY <1>1
<1>4. [f EXCEPT !.severity = severity, !.status = status]
        = [rule |-> r, severity |-> severity, src |-> a, dst |-> b, path |-> p,
           status |-> status, why |-> w]
  <2> DEFINE g == [f EXCEPT !.severity = severity]
  <2>1. [g EXCEPT !.status = status]
          = [rule |-> r, severity |-> severity, src |-> a, dst |-> b, path |-> p,
             status |-> status, why |-> w]
    <3>1. g = [rule |-> r, severity |-> severity, src |-> a, dst |-> b, path |-> p,
               status |-> t, why |-> w]
      BY <1>3
    <3> HIDE DEF g
    <3> QED
      BY <3>1
  <2>2. [f EXCEPT !.severity = severity, !.status = status] = [g EXCEPT !.status = status]
    OBVIOUS
  <2> QED
    BY <2>1, <2>2
<1> QED
  BY <1>2, <1>3, <1>4 DEF IsFinding

(* The findings of two rules.                                              *)
LEMMA FindingsUnion ==
  ASSUME NEW F, Findings(F), NEW G, Findings(G)
  PROVE  Findings(F \cup G)
BY FS_Union DEF Findings

(* The findings that a filter keeps.                                       *)
LEMMA FindingsSubset ==
  ASSUME NEW F, Findings(F), NEW G \in SUBSET F
  PROVE  Findings(G)
BY FS_Subset DEF Findings

(* One finding for each of finitely many things.                           *)
LEMMA FindingsImage ==
  ASSUME NEW S, IsFiniteSet(S), NEW f, \A x \in S : IsFinding(f[x])
  PROVE  Findings({f[x] : x \in S})
BY FiniteImage DEF Findings

(* The findings of finitely many loops.                                    *)
LEMMA FindingsUNION ==
  ASSUME NEW S, IsFiniteSet(S), NEW f, \A x \in S : Findings(f[x])
  PROVE  Findings(UNION {f[x] : x \in S})
<1>1. IsFiniteSet({f[x] : x \in S})
  BY FiniteImage
<1>2. \A T \in {f[x] : x \in S} : IsFiniteSet(T)
  BY DEF Findings
<1>3. IsFiniteSet(UNION {f[x] : x \in S})
  BY <1>1, <1>2, FS_UNION
<1> QED
  BY <1>3 DEF Findings

(* No finding, and one.                                                    *)
LEMMA FewFindings ==
  /\ Findings({})
  /\ \A f : IsFinding(f) => Findings({f})
BY FS_EmptySet, FS_Singleton DEF Findings

(* What goes with a crossing: CDC002 to CDC004.                            *)
LEMMA CompanionsFew ==
  ASSUME NEW D, NEW src, NEW dst, NEW path
  PROVE  Findings(Companions(D, src, dst, path))
<1> DEFINE F(rule, severity) == Finding(rule, severity, src, dst, path, "Unknown")
           all == {F("CDC002", "error")} \cup {F("CDC004", "warning")}
                  \cup {F("CDC005", "warning")}
                  \cup {F("CDC007", "warning")} \cup {F("CDC007", "info")}
<1>1. \A rule, severity : Findings({F(rule, severity)})
  BY FindingIsOne, FewFindings
<1>2. Companions(D, src, dst, path) \subseteq all
  <2> HIDE DEF F
  <2> QED
    BY DEF Companions, F
<1>3. Findings(all)
  <2> HIDE DEF F
  <2> QED
    BY <1>1, FindingsUnion
<1> QED
  BY <1>2, <1>3, FindingsSubset

(* The judgement of a crossing is one finding.                             *)
LEMMA JudgedIsOne ==
  ASSUME NEW D, NEW src, NEW dst, NEW path
  PROVE  IsFinding(Judged(D, src, dst, path))
BY FindingIsOne, BecauseIsOne DEF Judged

(* One path of a register, process_path.                                   *)
LEMMA ProcessPathFew ==
  ASSUME NEW D, NEW src, NEW path
  PROVE  Findings(ProcessPath(D, src, path))
<1> DEFINE dst == Last(path)
           f == Judged(D, src, dst, path)
           F(why, status) ==
             Because(Finding("CDC001", "info", src, dst, path, status), why)
<1>1. Findings({f} \cup Companions(D, src, dst, path))
  BY JudgedIsOne, FewFindings, CompanionsFew, FindingsUnion
<1>2. Findings({[f EXCEPT !.severity = "info", !.status = "Ambiguous"]})
  BY JudgedIsOne, BecauseIsOne, FewFindings
<1>3. \A why, status : Findings({F(why, status)})
  BY FindingIsOne, BecauseIsOne, FewFindings
<1> HIDE DEF f
<1> QED
  BY <1>1, <1>2, <1>3 DEF ProcessPath, f

(* MaxPaths bounds the paths of a register.                                *)
LEMMA CrossingPathsFew ==
  ASSUME NEW D, NEW src, NEW paths
  PROVE  IsFiniteSet(CrossingPaths(D, src, paths))
<1> DEFINE end(i) == Last(paths[i].path)
           leaving == {i \in 1..MaxPaths : i \in DOMAIN paths /\ Crosses(D, src, end(i))}
           first == {i \in leaving : \A j \in leaving : end(j) = end(i) => i <= j}
           f == [i \in first |-> paths[i].path]
<1>1. IsFiniteSet(1..MaxPaths)
  BY CrossingAssumption, FS_Interval
<1>2. IsFiniteSet(first)
  <2>1. first \in SUBSET (1..MaxPaths)
    OBVIOUS
  <2> HIDE DEF first
  <2> QED
    BY <1>1, <2>1, FS_Subset
<1>3. CrossingPaths(D, src, paths) = {f[i] : i \in first}
  BY DEF CrossingPaths
<1>4. IsFiniteSet({f[i] : i \in first})
  <2> HIDE DEF f, first
  <2> QED
    BY <1>2, FiniteImage
<1> QED
  BY <1>3, <1>4

(* One source register, process_register.                                  *)
LEMMA ProcessRegisterFew ==
  ASSUME NEW D, NEW src
  PROVE  Findings(ProcessRegister(D, src))
<1> DEFINE found == FindRegisterPaths(D.g, src, MaxPaths)
           paths == CrossingPaths(D, src, found.paths)
           truncated == Finding("CDC010", "warning", src, NoId, <<>>, "Ambiguous")
           f == [path \in paths |-> ProcessPath(D, src, path)]
<1>1. IsFiniteSet(paths)
  BY CrossingPathsFew
<1>2. \A path \in paths : Findings(f[path])
  BY ProcessPathFew
<1>3. Findings(UNION {f[path] : path \in paths})
  <2> HIDE DEF f, paths
  <2> QED
    BY <1>1, <1>2, FindingsUNION
<1>4. Findings(IF found.truncated THEN {truncated} ELSE {})
  BY FindingIsOne, FewFindings
<1>5. UNION {f[path] : path \in paths} = UNION {ProcessPath(D, src, path) : path \in paths}
  OBVIOUS
<1>6. Findings((UNION {ProcessPath(D, src, path) : path \in paths})
               \cup (IF found.truncated THEN {truncated} ELSE {}))
  BY <1>3, <1>4, <1>5, FindingsUnion
<1> QED
  BY <1>6, FewFindings DEF ProcessRegister

(* All source registers, CrossingAnalyzer::analyze.                        *)
LEMMA AnalyzeFew ==
  ASSUME NEW D, Sized(D.g)
  PROVE  Findings(Analyze(D))
<1> DEFINE regs == Registers(D.g)
           f == [src \in regs |-> ProcessRegister(D, src)]
           domain == [id \in Registers(D.g) |-> Domain(D, id)]
           starts == {src \in regs : /\ IsLineStart(D, src)
                                     /\ \E line \in Lines(LineSteps(D), src) :
                                          Cardinality({domain[id] : id \in ToSet(line)}) >= 3}
           g == [src \in starts |-> Finding("CDC008", "warning", src, NoId, <<>>, "Candidate")]
<1>1. IsFiniteSet(regs)
  BY SizedIsFinite
<1>2. IsFiniteSet(starts)
  <2>1. starts \in SUBSET regs
    OBVIOUS
  <2> HIDE DEF starts, regs
  <2> QED
    BY <1>1, <2>1, FS_Subset
<1>3. Findings(UNION {f[src] : src \in regs})
  <2>1. \A src \in regs : Findings(f[src])
    BY ProcessRegisterFew
  <2> HIDE DEF f, regs
  <2> QED
    BY <1>1, <2>1, FindingsUNION
<1>4. Findings({g[src] : src \in starts})
  <2>1. \A src \in starts : IsFinding(g[src])
    BY FindingIsOne
  <2> HIDE DEF g, starts
  <2> QED
    BY <1>2, <2>1, FindingsImage
<1>5. DaisyChains(D) = {g[src] : src \in starts}
  BY DEF DaisyChains
<1>6. UNION {ProcessRegister(D, src) : src \in Registers(D.g)} = UNION {f[src] : src \in regs}
  OBVIOUS
<1> HIDE DEF f, g, regs, starts
<1> QED
  BY <1>3, <1>4, <1>5, <1>6, FindingsUnion DEF Analyze

(* The CDC010 findings and what they are added to.                         *)
LEMMA PropagateUncertaintyFew ==
  ASSUME NEW D, Sized(D.g), NEW F, Findings(F)
  PROVE  Findings(PropagateUncertainty(D, F))
<1> DEFINE marks == Marks(D, F)
           named == UNION {{f.src, f.dst} : f \in F}
           marked == {r \in Registers(D.g) \ named : marks[r] = "propagated"}
           g == [id \in marked |-> Finding("CDC013", "warning", id, NoId, <<id>>, "Candidate")]
<1>1. IsFiniteSet(marked)
  <2>1. marked \in SUBSET Registers(D.g)
    OBVIOUS
  <2> HIDE DEF marked
  <2> QED
    BY <2>1, SizedIsFinite, FS_Subset
<1>2. Findings({g[id] : id \in marked})
  <2>1. \A id \in marked : IsFinding(g[id])
    BY FindingIsOne
  <2> HIDE DEF g, marked
  <2> QED
    BY <1>1, <2>1, FindingsImage
<1>3. PropagateUncertainty(D, F) = F \cup {g[id] : id \in marked}
  BY DEF PropagateUncertainty
<1> HIDE DEF g, marked
<1> QED
  BY <1>2, <1>3, FindingsUnion

(* CDC005 for every pair of synchronizers that meet.                       *)
LEMMA ReconvergenceFew ==
  ASSUME NEW D, Sized(D.g), NEW F, Findings(F)
  PROVE  Findings(Reconvergence(D, F))
<1> DEFINE Of(src) == [pair \in CheckPairs(D, F, src) |->
                         Finding("CDC003", "warning", src, NoId, SetToSeq(pair), "Unknown")]
           sources == FindFanoutSources(D)
           f == [src \in sources |->
                   {Finding("CDC003", "warning", src, NoId, SetToSeq(pair), "Unknown") :
                      pair \in CheckPairs(D, F, src)}]
<1>1. ASSUME NEW src PROVE IsFiniteSet(CheckPairs(D, F, src))
  <2> DEFINE from == {e \in F : e.rule = "CDC001" /\ e.src = src}
             dst == [e \in from |-> e.dst]
             dsts == {e.dst : e \in from}
  <2>1. IsFiniteSet(from)
    <3>1. from \in SUBSET F /\ IsFiniteSet(F)
      BY DEF Findings
    <3> HIDE DEF from
    <3> QED
      BY <3>1, FS_Subset
  <2>2. IsFiniteSet(dsts)
    <3>1. dsts = {dst[e] : e \in from}
      OBVIOUS
    <3>2. IsFiniteSet({dst[e] : e \in from})
      <4> HIDE DEF dst, from
      <4> QED
        BY <2>1, FiniteImage
    <3> QED
      BY <3>1, <3>2
  <2>3. CheckPairs(D, F, src) \in SUBSET SUBSET dsts
    BY DEF CheckPairs, Compared, kSubset
  <2> HIDE DEF dsts
  <2> QED
    BY <2>2, <2>3, FS_SUBSET, FS_Subset
<1>2. ASSUME NEW src \in sources PROVE Findings(f[src])
  <2> DEFINE g == Of(src)
             pairs == CheckPairs(D, F, src)
  <2>1. f[src] = {g[pair] : pair \in pairs}
    OBVIOUS
  <2>2. \A pair \in pairs : IsFinding(g[pair])
    BY FindingIsOne
  <2>3. Findings({g[pair] : pair \in pairs})
    <3> HIDE DEF g
    <3> QED
      BY <1>1, <2>2, FindingsImage
  <2> QED
    BY <2>1, <2>3
<1>3. IsFiniteSet(sources)
  <2>1. sources \in SUBSET Registers(D.g)
    BY DEF FindFanoutSources
  <2> QED
    BY <2>1, SizedIsFinite, FS_Subset
<1>4. Reconvergence(D, F) = UNION {f[src] : src \in sources}
  BY DEF Reconvergence
<1>5. Findings(UNION {f[src] : src \in sources})
  <2> HIDE DEF f, sources
  <2> QED
    BY <1>2, <1>3, FindingsUNION
<1> QED
  BY <1>4, <1>5

(* CDC006 for every chain of logic.                                        *)
LEMMA Cdc006Few ==
  ASSUME NEW D, Sized(D.g)
  PROVE  Findings(Cdc006(D))
<1> DEFINE Logic(s) == \E p \in ToSet(Predecessors(D.g, s)) :
                         KindOf(D.g, p) = "Combinational"
           Sources(stages, last) ==
             LET Other(p) == Clock(D, p) # Clock(D, last) IN
             SelectSeq(RegisterPredecessors(D.g, stages[1], TRUE), Other)
           FirstDriven(stages) == {i \in 1..(MaxStages + 1) :
                                     /\ i \in DOMAIN stages /\ Logic(stages[i])
                                     /\ \A j \in 1..(i - 1) : ~Logic(stages[j])}
           At(stages, i) == Finding("CDC006", "error", Head(Sources(stages, stages[i])),
                                    stages[i], <<>>, "VerifiedUnsafe")
           Found(stages) == {At(stages, i) : i \in FirstDriven(stages)}
           regs == Registers(D.g)
           Of(d) == {[source |-> p, stages |-> Chain(D, d, FALSE, TRUE)] :
                       p \in regs \cap CrossPreds(D, d)}
           ends == {d \in regs : FindPatternForDest(D, d, TRUE) # "None"}
<1>1. IsFiniteSet(regs)
  BY SizedIsFinite
<1>2. IsFiniteSet(Match(D))
  <2> DEFINE of == [d \in ends |-> Of(d)]
  <2>1. IsFiniteSet(ends)
    <3>1. ends \in SUBSET regs
      OBVIOUS
    <3> HIDE DEF ends, regs
    <3> QED
      BY <1>1, <3>1, FS_Subset
  <2>2. ASSUME NEW d \in ends PROVE IsFiniteSet(of[d])
    <3> DEFINE from == regs \cap CrossPreds(D, d)
               h == [p \in from |-> [source |-> p, stages |-> Chain(D, d, FALSE, TRUE)]]
    <3>1. of[d] = {h[p] : p \in from}
      OBVIOUS
    <3>2. IsFiniteSet(from)
      BY <1>1, FS_Intersection
    <3>3. IsFiniteSet({h[p] : p \in from})
      <4> HIDE DEF h, from
      <4> QED
        BY <3>2, FiniteImage
    <3> QED
      BY <3>1, <3>3
  <2>3. Match(D) = UNION {of[d] : d \in ends}
    BY DEF Match
  <2> HIDE DEF of, ends
  <2>4. IsFiniteSet({of[d] : d \in ends})
    BY <2>1, FiniteImage
  <2> QED
    BY <2>2, <2>3, <2>4, FS_UNION
<1>3. ASSUME NEW stages PROVE Findings(Found(stages))
  <2> DEFINE first == FirstDriven(stages)
             h == [i \in first |-> At(stages, i)]
  <2>1. IsFiniteSet(first)
    <3>1. first \in SUBSET (1..(MaxStages + 1))
      OBVIOUS
    <3>2. IsFiniteSet(1..(MaxStages + 1))
      <4>1. MaxStages + 1 \in Int
        BY DEF MaxStages
      <4> QED
        BY <4>1, FS_Interval
    <3> HIDE DEF first
    <3> QED
      BY <3>1, <3>2, FS_Subset
  <2>2. \A i \in first : IsFinding(h[i])
    BY FindingIsOne
  <2>3. Found(stages) = {h[i] : i \in first}
    OBVIOUS
  <2>4. Findings({h[i] : i \in first})
    <3> HIDE DEF h, first
    <3> QED
      BY <2>1, <2>2, FindingsImage
  <2> QED
    BY <2>3, <2>4
<1> DEFINE chains == Match(D)
           found == [c \in chains |-> Found(c.stages)]
<1>4. \A c \in chains : Findings(found[c])
  BY <1>3
<1>5. Findings(UNION {found[c] : c \in chains})
  <2> HIDE DEF found, chains
  <2> QED
    BY <1>2, <1>4, FindingsUNION DEF chains
<1>6. Cdc006(D) = UNION {Found(c.stages) : c \in chains}
  BY DEF Cdc006
<1>7. {Found(c.stages) : c \in chains} = {found[c] : c \in chains}
  OBVIOUS
<1> QED
  BY <1>5, <1>6, <1>7

(* CDC007 and CDC008 for every register with a reset.                      *)
LEMMA CheckResetCrossingsFew ==
  ASSUME NEW D, Sized(D.g)
  PROVE  Findings(CheckResetCrossings(D))
<1> DEFINE regs == Registers(D.g)
           pairs == {e \in regs \X regs : ResetCrosses(D, e[1], e[2])}
           f == [e \in pairs |->
                   LET async == D.at[e[1]].async \/ D.at[e[2]].async IN
                   Finding("CDC009", IF async THEN "error" ELSE "warning", e[1], e[2],
                           <<e[1], e[2]>>, "VerifiedUnsafe")]
<1>1. IsFiniteSet(pairs)
  <2>1. IsFiniteSet(regs \X regs)
    BY SizedIsFinite, FS_Product
  <2>2. pairs \in SUBSET (regs \X regs)
    OBVIOUS
  <2> HIDE DEF pairs
  <2> QED
    BY <2>1, <2>2, FS_Subset
<1>2. \A e \in pairs : IsFinding(f[e])
  BY FindingIsOne
<1>3. CheckResetCrossings(D) = {f[e] : e \in pairs}
  BY DEF CheckResetCrossings
<1>4. Findings({f[e] : e \in pairs})
  <2> HIDE DEF f, pairs
  <2> QED
    BY <1>1, <1>2, FindingsImage
<1> QED
  BY <1>3, <1>4

(* CDC009 and what it sets back.                                           *)
LEMMA IsolateFew ==
  ASSUME NEW D, NEW F, Findings(F)
  PROVE  Findings(Isolate(D, F))
<1> DEFINE g == [f \in F |->
                   IF /\ f.rule = "CDC001" /\ f.severity = "error"
                      /\ \E id \in ToSet(f.path) : D.at[id].isolation
                   THEN Because([f EXCEPT !.severity = "info", !.status = "VerifiedSafe"],
                                "isolation")
                   ELSE f]
<1>1. ASSUME NEW f \in F PROVE IsFinding(g[f])
  <2>1. IsFinding(f)
    BY DEF Findings
  <2>2. IsFinding([f EXCEPT !.severity = "info", !.status = "VerifiedSafe"])
    BY <2>1, BecauseIsOne
  <2>3. IsFinding(Because([f EXCEPT !.severity = "info", !.status = "VerifiedSafe"],
                          "isolation"))
    BY <2>2, BecauseIsOne
  <2> QED
    BY <2>1, <2>3
<1>2. Isolate(D, F) = {g[f] : f \in F}
  BY DEF Isolate
<1>3. IsFiniteSet(F)
  BY DEF Findings
<1>4. Findings({g[f] : f \in F})
  <2> HIDE DEF g
  <2> QED
    BY <1>1, <1>3, FindingsImage
<1> QED
  BY <1>2, <1>4

(* All rules over a graph: finitely many findings.                         *)
LEMMA AnalysisFindsFew ==
  ASSUME NEW D, Sized(D.g)
  PROVE  Findings(FindingsFrom(D, Analyze(D)))
<1> DEFINE resets == IF D.suppress_resets THEN {} ELSE CheckResetCrossings(D)
           all == PropagateUncertainty(D, Analyze(D)) \cup Reconvergence(D, Analyze(D))
                  \cup Cdc006(D) \cup resets
<1>1. Findings(resets)
  BY CheckResetCrossingsFew, FewFindings
<1>2. Findings(PropagateUncertainty(D, Analyze(D))) /\ Findings(Reconvergence(D, Analyze(D)))
  BY AnalyzeFew, PropagateUncertaintyFew, ReconvergenceFew
<1>3. Findings(all)
  <2> HIDE DEF resets
  <2> QED
    BY <1>1, <1>2, Cdc006Few, FindingsUnion
<1>4. FindingsFrom(D, Analyze(D)) = Isolate(D, all)
  BY DEF FindingsFrom
<1> HIDE DEF all
<1> QED
  BY <1>3, <1>4, IsolateFew

(* A search stops at the limit.                                            *)
Limited(limit, w) == Len(w.paths) <= limit /\ (~w.full => Len(w.paths) < limit)

LEMMA LimitedExtend ==
  ASSUME NEW h, NEW f \in Frames, NEW limit \in Nat, NEW w \in SearchStates, NEW s \in Nat,
         Limited(limit, w)
  PROVE  Limited(limit, Extend(h, f, limit, w, s))
<1> DEFINE k == Extend(h, f, limit, w, s)
           found == PathFrame(f, s)
           paths == Append(w.paths, found)
           full == Len(w.paths) + 1 >= limit
<1>1. /\ Ignores(h, f, w, s) => k = w
      /\ Finds(h, f, w, s) => k = WithPath(w, found, limit)
      /\ Pushes(h, f, w, s) => k = WithFrame(w, Added(h, f, s))
      /\ Ignores(h, f, w, s) \/ Finds(h, f, w, s) \/ Pushes(h, f, w, s)
      /\ found \in Frames
  <2>1. Ignores(h, f, w, s) => k = w
    BY ExtendCases
  <2>2. Finds(h, f, w, s) => k = WithPath(w, found, limit)
    BY ExtendCases
  <2>3. Pushes(h, f, w, s) => k = WithFrame(w, Added(h, f, s))
    BY ExtendCases
  <2>4. Ignores(h, f, w, s) \/ Finds(h, f, w, s) \/ Pushes(h, f, w, s)
    BY ExtendCases
  <2>5. found \in Frames
    BY ExtendCases
  <2> HIDE DEF k, found
  <2> QED
    BY <2>1, <2>2, <2>3, <2>4, <2>5
<1>2. w.paths \in Seq(Frames)
  BY StateFields
<1>3. Len(w.paths) \in Nat /\ Len(paths) = Len(w.paths) + 1
  <2> HIDE DEF found
  <2> QED
    BY <1>1, <1>2
<1> HIDE DEF k, found
<1>4. CASE Ignores(h, f, w, s)
  BY <1>1, <1>4 DEF k
<1>5. CASE Pushes(h, f, w, s)
  <2>1. k.paths = w.paths /\ k.full = w.full
    BY <1>1, <1>5 DEF WithFrame
  <2> QED
    BY <2>1 DEF Limited, k
<1>6. CASE Finds(h, f, w, s)
  <2>1. k.paths = paths /\ (k.full <=> full) /\ ~w.full
    <3>1. k = WithPath(w, found, limit)
      BY <1>1, <1>6
    <3>2. k.paths = paths
      BY <3>1 DEF WithPath
    <3>3. k.full <=> full
      BY <3>1 DEF WithPath
    <3> QED
      BY <1>6, <3>2, <3>3 DEF Finds
  <2>2. Len(w.paths) < limit
    BY <2>1 DEF Limited
  <2>3. Len(k.paths) <= limit
    BY <1>3, <2>1, <2>2
  <2>4. ~k.full => Len(k.paths) < limit
    BY <1>3, <2>1
  <2> QED
    BY <2>3, <2>4 DEF Limited, k
<1> QED
  BY <1>1, <1>4, <1>5, <1>6

LEMMA LimitedTurn ==
  ASSUME NEW V, NEW h \in SoundGraphs(V), NEW limit \in Nat,
         NEW w \in SearchStates, w.stack # <<>>, Limited(limit, w), ~w.full
  PROVE  Limited(limit, SearchStep(h, limit, w))
<1> DEFINE f == Last(w.stack)
           k == SearchStep(h, limit, w)
           v == Popped(w)
           cut == [v EXCEPT !.truncated = TRUE]
           next == Successors(h, Last(f.path))
           N == Len(next)
<1>1. v \in SearchStates /\ f \in Frames
  BY PoppedType
<1>2. v.paths = w.paths /\ v.full = w.full /\ cut.paths = w.paths /\ cut.full = w.full
  BY PoppedFields
<1>3. f.path \in Seq(Nat) /\ Len(f.path) \in Nat
  BY <1>1 DEF Frames
<1> HIDE DEF f, k, v, cut, next
<1>4. Limited(limit, v) /\ Limited(limit, cut)
  BY <1>2 DEF Limited
<1>5. CASE Len(f.path) > MAX_PATH_DEPTH
  <2>1. k = cut
    BY <1>5 DEF SearchStep, k, cut, v, f, Popped
  <2> QED
    BY <1>4, <2>1 DEF k
<1>6. CASE ~(Len(f.path) > MAX_PATH_DEPTH)
  <2>1. Len(f.path) <= MAX_PATH_DEPTH
    BY <1>3, <1>6, TraversalAssumption
  <2>2. next \in Seq(Nat)
    BY <2>1, SearchStepDef DEF f, next
  <2>3. PICK x : Extending(x, h, f, limit, v, next) /\ k = x[N]
    BY <2>1, SearchStepDef DEF f, k, v, next
  <2>4. N \in Nat /\ \A n \in 1..N : next[n] \in Nat
    BY <2>2, ElementOfSeq, LenProperties
  <2>5. /\ x \in [0..N -> SearchStates] /\ x[0] = v
        /\ \A n \in 1..N : x[n] = Extend(h, f, limit, x[n - 1], next[n])
    BY <2>3 DEF Extending
  <2> HIDE DEF N
  <2> DEFINE Good == {n \in Nat : n <= N => Limited(limit, x[n])}
  <2>6. 0 \in Good
    BY <1>4, <2>5
  <2>7. ASSUME NEW n \in Nat, n \in Good PROVE n + 1 \in Good
    <3> SUFFICES ASSUME n + 1 <= N PROVE Limited(limit, x[n + 1])
      OBVIOUS
    <3>1. n + 1 \in 1..N /\ (n + 1) - 1 = n /\ n \in 0..N /\ Limited(limit, x[n])
      BY <2>4, <2>7
    <3>2. x[n + 1] = Extend(h, f, limit, x[n], next[n + 1]) /\ x[n] \in SearchStates
          /\ next[n + 1] \in Nat
      BY <2>4, <2>5, <3>1
    <3> QED
      BY <1>1, <3>1, <3>2, LimitedExtend
  <2>8. Nat \subseteq Good
    <3> HIDE DEF Good
    <3> QED
      BY <2>6, <2>7, NatInd
  <2>9. Limited(limit, x[N])
    BY <2>4, <2>8
  <2> QED
    BY <2>3, <2>9 DEF k
<1> QED
  BY <1>5, <1>6

(* find_register_paths returns no more than max_paths paths.               *)
LEMMA SearchLimited ==
  ASSUME NEW V, NEW h \in SoundGraphs(V), NEW limit \in Nat \ {0}, NEW src \in Registers(h)
  PROVE  Len(FindRegisterPaths(h, src, limit).paths) <= limit
<1> DEFINE w0 == SearchStart(src)
           next == SearchNext(h, limit)
           X == SearchStates
<1>1. src \in Nat
  BY GraphFields DEF Registers, SoundGraphs
<1>2. w0 \in X
  BY <1>1, SearchDef
<1>3. PICK search : /\ Searches(search, h, limit)
                    /\ FindRegisterPaths(h, src, limit) = search[w0]
  BY <1>1, SearchDef
<1>4. /\ next \in [X -> X] /\ Shrinks(SearchRank(h), X, SearchEnd, next)
      /\ SearchRank(h) \in [X -> Nat]
      /\ \A w \in X \ SearchEnd : next[w] = SearchStep(h, limit, w)
  BY SearchLoop
<1> HIDE DEF next
<1> DEFINE P == {w \in X : Limited(limit, w) => Len(search[w].paths) <= limit}
<1>5. X \cap SearchEnd \subseteq P
  <2> SUFFICES ASSUME NEW w \in X, w \in SearchEnd, Limited(limit, w)
               PROVE  Len(search[w].paths) <= limit
    OBVIOUS
  <2>1. search[w] = [paths |-> w.paths, truncated |-> w.truncated]
    BY <1>3 DEF Searches, SearchEnd
  <2> QED
    BY <2>1 DEF Limited
<1>6. ASSUME NEW w \in X \ SearchEnd, next[w] \in P PROVE w \in P
  <2> SUFFICES ASSUME Limited(limit, w) PROVE Len(search[w].paths) <= limit
    OBVIOUS
  <2>1. ~w.full /\ w.stack # <<>>
    BY DEF SearchEnd
  <2>2. search[w] = search[next[w]] /\ next[w] = SearchStep(h, limit, w)
    BY <1>3, <1>4, <2>1 DEF Searches
  <2>3. Limited(limit, next[w])
    BY <2>1, <2>2, LimitedTurn
  <2> QED
    BY <1>6, <2>2, <2>3
<1>7. X \subseteq P
  <2>1. Precedes(next, X, SearchEnd, P)
    BY <1>6 DEF Precedes
  <2> HIDE DEF P, X
  <2> QED
    BY <1>4, <1>5, <2>1, LoopInd
<1>8. Limited(limit, w0)
  <2>1. w0.paths = <<>>
    BY DEF SearchStart
  <2> QED
    BY <2>1, SetOfNone DEF Limited
<1> QED
  BY <1>2, <1>3, <1>7, <1>8

-----------------------------------------------------------------------------
(* The crossings.                                                          *)

(* One path for each destination in another domain.                        *)
LEMMA CrossingPathsFacts ==
  ASSUME NEW D, NEW src, NEW paths \in Seq(Frames), Len(paths) <= MaxPaths
  PROVE  /\ \A p \in CrossingPaths(D, src, paths) :
              Crosses(D, src, Last(p)) /\ \E q \in ToSet(paths) : q.path = p
         /\ \A p, q \in CrossingPaths(D, src, paths) : Last(p) = Last(q) => p = q
         /\ \A q \in ToSet(paths) : Crosses(D, src, Last(q.path)) =>
              \E p \in CrossingPaths(D, src, paths) : Last(p) = Last(q.path)
<1> DEFINE end(i) == Last(paths[i].path)
           leaving == {i \in 1..MaxPaths : i \in DOMAIN paths /\ Crosses(D, src, end(i))}
           first == {i \in leaving : \A j \in leaving : end(j) = end(i) => i <= j}
           C == CrossingPaths(D, src, paths)
<1>1. C = {paths[i].path : i \in first}
  BY DEF CrossingPaths
<1>2. /\ Len(paths) \in Nat /\ DOMAIN paths = 1..Len(paths)
      /\ \A x : x \in ToSet(paths) <=> \E i \in 1..Len(paths) : paths[i] = x
  BY SetOfSeq
<1>3. leaving \in SUBSET Nat /\ MaxPaths \in Nat
  BY CrossingAssumption
<1>4. \A i : i \in leaving <=> i \in 1..Len(paths) /\ Crosses(D, src, end(i))
  BY <1>2, <1>3
<1> HIDE DEF C, end, leaving
<1>5. \A p \in C : \E i \in first : p = paths[i].path /\ end(i) = Last(p)
  BY <1>1 DEF end
<1>6. \A p \in C : Crosses(D, src, Last(p)) /\ \E q \in ToSet(paths) : q.path = p
  BY <1>2, <1>4, <1>5
<1>7. \A p, q \in C : Last(p) = Last(q) => p = q
  <2> SUFFICES ASSUME NEW p \in C, NEW q \in C, Last(p) = Last(q) PROVE p = q
    OBVIOUS
  <2>1. PICK i \in first : p = paths[i].path /\ end(i) = Last(p)
    BY <1>5
  <2>2. PICK j \in first : q = paths[j].path /\ end(j) = Last(q)
    BY <1>5
  <2>3. i <= j /\ j <= i /\ i \in Nat /\ j \in Nat
    BY <1>3, <2>1, <2>2
  <2>4. i = j
    BY <2>3
  <2> QED
    BY <2>1, <2>2, <2>4
<1>8. \A q \in ToSet(paths) : Crosses(D, src, Last(q.path)) => \E p \in C : Last(p) = Last(q.path)
  <2> SUFFICES ASSUME NEW q \in ToSet(paths), Crosses(D, src, Last(q.path))
               PROVE  \E p \in C : Last(p) = Last(q.path)
    OBVIOUS
  <2>1. PICK k \in 1..Len(paths) : paths[k] = q
    BY <1>2
  <2> DEFINE T == {i \in leaving : end(i) = Last(q.path)}
  <2>2. k \in T
    BY <1>4, <2>1 DEF end
  <2>3. PICK i \in T : \A j \in T : i <= j
    <3>1. T \in SUBSET Nat /\ T # {}
      BY <1>3, <2>2
    <3> HIDE DEF T
    <3> QED
      BY <3>1, NatMin
  <2>4. i \in first /\ end(i) = Last(q.path)
    BY <2>3
  <2>5. paths[i].path \in C /\ Last(paths[i].path) = Last(q.path)
    BY <1>1, <2>4 DEF end
  <2> QED
    BY <2>5
<1> QED
  BY <1>6, <1>7, <1>8 DEF C

-----------------------------------------------------------------------------
(* The fields of the findings.                                             *)

IsAbout(f, rule, src, dst, path) ==
  IsFinding(f) /\ f.rule = rule /\ f.src = src /\ f.dst = dst /\ f.path = path

LEMMA FindingFields ==
  ASSUME NEW rule, NEW severity, NEW src, NEW dst, NEW path, NEW status
  PROVE  /\ IsAbout(Finding(rule, severity, src, dst, path, status), rule, src, dst, path)
         /\ Finding(rule, severity, src, dst, path, status).severity = severity
         /\ Finding(rule, severity, src, dst, path, status).status = status
         /\ Finding(rule, severity, src, dst, path, status).why = "none"
<1> DEFINE f == Finding(rule, severity, src, dst, path, status)
<1>1. f = [rule |-> rule, severity |-> severity, src |-> src, dst |-> dst, path |-> path,
           status |-> status, why |-> "none"]
  BY DEF Finding
<1>2. IsFinding(f)
  BY FindingIsOne
<1> HIDE DEF f
<1>3. /\ f.rule = rule /\ f.severity = severity /\ f.src = src /\ f.dst = dst
      /\ f.path = path /\ f.status = status /\ f.why = "none"
  BY <1>1
<1> QED
  BY <1>2, <1>3 DEF IsAbout, f

LEMMA BecauseFields ==
  ASSUME NEW f, NEW rule, NEW src, NEW dst, NEW path, IsAbout(f, rule, src, dst, path),
         NEW why, NEW severity, NEW status
  PROVE  /\ IsAbout(Because(f, why), rule, src, dst, path)
         /\ Because(f, why).why = why /\ Because(f, why).severity = f.severity
         /\ Because(f, why).status = f.status
         /\ IsAbout([f EXCEPT !.severity = severity, !.status = status], rule, src, dst, path)
         /\ [f EXCEPT !.severity = severity, !.status = status].why = f.why
         /\ [f EXCEPT !.severity = severity, !.status = status].severity = severity
         /\ [f EXCEPT !.severity = severity, !.status = status].status = status
<1>0. IsFinding(f) /\ f.rule = rule /\ f.src = src /\ f.dst = dst /\ f.path = path
  BY DEF IsAbout
<1>1. PICK s, t, w :
        f = [rule |-> rule, severity |-> s, src |-> src, dst |-> dst, path |-> path,
             status |-> t, why |-> w]
  BY <1>0 DEF IsFinding
<1>2. Because(f, why) = [rule |-> rule, severity |-> s, src |-> src, dst |-> dst,
                         path |-> path, status |-> t, why |-> why]
  BY <1>1 DEF Because
<1>3. [f EXCEPT !.severity = severity, !.status = status]
        = [rule |-> rule, severity |-> severity, src |-> src, dst |-> dst, path |-> path,
           status |-> status, why |-> w]
  <2> DEFINE g == [f EXCEPT !.severity = severity]
  <2>1. [g EXCEPT !.status = status]
          = [rule |-> rule, severity |-> severity, src |-> src, dst |-> dst, path |-> path,
             status |-> status, why |-> w]
    <3>1. g = [rule |-> rule, severity |-> severity, src |-> src, dst |-> dst, path |-> path,
               status |-> t, why |-> w]
      BY <1>1
    <3> HIDE DEF g
    <3> QED
      BY <3>1
  <2>2. [f EXCEPT !.severity = severity, !.status = status] = [g EXCEPT !.status = status]
    OBVIOUS
  <2> QED
    BY <2>1, <2>2
<1> DEFINE k == Because(f, why)
           l == [f EXCEPT !.severity = severity, !.status = status]
<1>4. IsFinding(k) /\ IsFinding(l)
  BY <1>0, BecauseIsOne
<1> HIDE DEF k, l
<1>5. IsAbout(k, rule, src, dst, path) /\ k.why = why /\ k.severity = f.severity
      /\ k.status = f.status
  BY <1>1, <1>2, <1>4 DEF IsAbout, k
<1>6. IsAbout(l, rule, src, dst, path) /\ l.why = f.why /\ l.severity = severity
      /\ l.status = status
  BY <1>1, <1>3, <1>4 DEF IsAbout, l
<1> QED
  BY <1>5, <1>6 DEF k, l

(* What process_path reports of a path: one CDC001 and its companions.     *)
OneCrossing(F, src, path) ==
  /\ \E f \in F : f.rule = "CDC001"
  /\ \A f, e \in F : f.rule = "CDC001" /\ e.rule = "CDC001" => f = e
  /\ \A f \in F : \E rule \in {"CDC001", "CDC002", "CDC004", "CDC005", "CDC007"} :
                    IsAbout(f, rule, src, Last(path), path)

LEMMA CompanionsFields ==
  ASSUME NEW D, NEW src, NEW dst, NEW path, NEW f \in Companions(D, src, dst, path)
  PROVE  \E rule \in {"CDC002", "CDC004", "CDC005", "CDC007"} : IsAbout(f, rule, src, dst, path)
<1> DEFINE F(rule, severity) == Finding(rule, severity, src, dst, path, "Unknown")
           all == {F("CDC002", "error")} \cup {F("CDC004", "warning")}
                  \cup {F("CDC005", "warning")}
                  \cup {F("CDC007", "warning")} \cup {F("CDC007", "info")}
<1>1. \A rule, severity : IsAbout(F(rule, severity), rule, src, dst, path)
  BY FindingFields
<1>2. Companions(D, src, dst, path) \subseteq all
  <2> HIDE DEF F
  <2> QED
    BY DEF Companions, F
<1> HIDE DEF F
<1> QED
  BY <1>1, <1>2

LEMMA JudgedFields ==
  ASSUME NEW D, NEW src, NEW dst, NEW path
  PROVE  IsAbout(Judged(D, src, dst, path), "CDC001", src, dst, path)
<1> DEFINE F(severity, status) == Finding("CDC001", severity, src, dst, path, status)
<1>1. \A severity, status : IsAbout(F(severity, status), "CDC001", src, dst, path)
  BY FindingFields
<1>2. \E severity, status, why :
        Judged(D, src, dst, path) = Because(F(severity, status), why)
  BY DEF Judged
<1> HIDE DEF F
<1>3. \A severity, status, why :
        IsAbout(Because(F(severity, status), why), "CDC001", src, dst, path)
  BY <1>1, BecauseFields
<1> QED
  BY <1>2, <1>3

LEMMA ProcessPathOne ==
  ASSUME NEW D, NEW src, NEW path
  PROVE  OneCrossing(ProcessPath(D, src, path), src, path)
<1> DEFINE dst == Last(path)
           f == Judged(D, src, dst, path)
           G(status) == Finding("CDC001", "info", src, dst, path, status)
           F(why, status) == Because(G(status), why)
           low == [f EXCEPT !.severity = "info", !.status = "Ambiguous"]
           Fits001(k) == IsAbout(k, "CDC001", src, Last(path), path)
<1>1. ASSUME NEW k, Fits001(k) PROVE OneCrossing({k}, src, path)
  BY <1>1 DEF OneCrossing, IsAbout
<1>2. ASSUME NEW why, NEW status PROVE Fits001(F(why, status))
  <2>1. Fits001(G(status))
    BY FindingFields
  <2> HIDE DEF G
  <2> QED
    BY <2>1, BecauseFields
<1>3. Fits001(f)
  BY JudgedFields
<1>4. Fits001(low)
  <2> HIDE DEF f
  <2> QED
    BY <1>3, BecauseFields
<1>5. OneCrossing({f} \cup Companions(D, src, dst, path), src, path)
  <2>1. \A e \in Companions(D, src, dst, path) :
          \E rule \in {"CDC002", "CDC004", "CDC005", "CDC007"} : IsAbout(e, rule, src, dst, path)
    BY CompanionsFields
  <2> DEFINE A == Companions(D, src, dst, path)
  <2> HIDE DEF f, A
  <2>2. \A e \in A : e.rule # "CDC001"
    BY <2>1 DEF IsAbout, A
  <2>3. f.rule = "CDC001"
    BY <1>3 DEF IsAbout
  <2>4. \A e \in {f} \cup A :
          \E rule \in {"CDC001", "CDC002", "CDC004", "CDC005", "CDC007"} :
            IsAbout(e, rule, src, Last(path), path)
    BY <1>3, <2>1 DEF A
  <2>5. OneCrossing({f} \cup A, src, path)
    BY <2>2, <2>3, <2>4 DEF OneCrossing, IsAbout
  <2> QED
    BY <2>5 DEF A
<1>6. \/ \E why, status : ProcessPath(D, src, path) = {F(why, status)}
      \/ ProcessPath(D, src, path) = {low}
      \/ ProcessPath(D, src, path) = {f} \cup Companions(D, src, dst, path)
  <2> HIDE DEF f
  <2> QED
    BY DEF ProcessPath, f
<1> HIDE DEF f, F, low, Fits001
<1> QED
  BY <1>1, <1>2, <1>4, <1>5, <1>6

-----------------------------------------------------------------------------
(* What the findings say of the crossings.                                 *)

Search(D, src) == FindRegisterPaths(D.g, src, MaxPaths)

(* The pairs that a path found by the search joins, and the sources whose  *)
(* search was cut short.                                                   *)
CrossedPairs(D) ==
  {e \in Registers(D.g) \X Registers(D.g) :
     /\ Crosses(D, e[1], e[2])
     /\ \E p \in ToSet(Search(D, e[1]).paths) : Last(p.path) = e[2]}
CutShort(D) == {src \in Registers(D.g) : HasDomain(D, src) /\ Search(D, src).truncated}

(* One CDC001 for each such pair, one CDC010 for each such source.         *)
Tells(D, F) ==
  /\ \A f \in F : f.rule = "CDC001" => <<f.src, f.dst>> \in CrossedPairs(D)
  /\ \A f, e \in F : f.rule = "CDC001" /\ e.rule = "CDC001" /\ f.src = e.src /\ f.dst = e.dst
                       => f = e
  /\ \A p \in CrossedPairs(D) :
       \E f \in F : f.rule = "CDC001" /\ f.src = p[1] /\ f.dst = p[2]
  /\ \A f \in F : f.rule = "CDC010" => f.src \in CutShort(D)
  /\ \A f, e \in F : f.rule = "CDC010" /\ e.rule = "CDC010" /\ f.src = e.src => f = e
  /\ \A s \in CutShort(D) : \E f \in F : f.rule = "CDC010" /\ f.src = s

LEMMA ProcessRegisterTells ==
  ASSUME NEW V, NEW D, D.g \in SoundGraphs(V), NEW src \in Registers(D.g)
  PROVE  LET F == ProcessRegister(D, src) IN
         /\ \A f \in F : f.src = src /\ IsFinding(f) /\ f.rule # "CDC008"
         /\ \A f \in F : f.rule = "CDC001" => <<f.src, f.dst>> \in CrossedPairs(D)
         /\ \A f, e \in F : f.rule = "CDC001" /\ e.rule = "CDC001" /\ f.dst = e.dst => f = e
         /\ \A dst : <<src, dst>> \in CrossedPairs(D) =>
              \E f \in F : f.rule = "CDC001" /\ f.dst = dst
         /\ \A f \in F : f.rule = "CDC010" => src \in CutShort(D)
         /\ \A f, e \in F : f.rule = "CDC010" /\ e.rule = "CDC010" => f = e
         /\ src \in CutShort(D) => \E f \in F : f.rule = "CDC010"
<1> DEFINE h == D.g
           r == Search(D, src)
           C == CrossingPaths(D, src, r.paths)
           cut == Finding("CDC010", "warning", src, NoId, <<>>, "Ambiguous")
           F == ProcessRegister(D, src)
<1>1. Answers(h, src, r) /\ Len(r.paths) <= MaxPaths
  <2>1. h \in SoundGraphs(V) /\ src \in Registers(h)
    OBVIOUS
  <2>2. MaxPaths \in Nat \ {0}
    BY CrossingAssumption
  <2> HIDE DEF h
  <2>3. Answers(h, src, FindRegisterPaths(h, src, MaxPaths))
    BY <2>1, <2>2, SearchExact
  <2>4. Len(FindRegisterPaths(h, src, MaxPaths).paths) <= MaxPaths
    BY <2>1, <2>2, SearchLimited
  <2> QED
    BY <2>3, <2>4 DEF Search, r, h
<1>2. F = IF ~HasDomain(D, src) THEN {}
          ELSE (UNION {ProcessPath(D, src, path) : path \in C})
               \cup (IF r.truncated THEN {cut} ELSE {})
  BY DEF ProcessRegister, Search
<1>3. /\ IsFinding(cut) /\ cut.rule = "CDC010" /\ cut.src = src
  BY FindingFields DEF IsAbout
<1> HIDE DEF r, C, cut, F
<1>4. r.paths \in Seq(Frames) /\ \A p \in ToSet(r.paths) : p.path \in SimplePaths(h, src)
      /\ Complete(h, p.path) /\ GoodFrame(h, p)
  BY <1>1 DEF Answers, Results
<1>5. /\ \A p \in C : Crosses(D, src, Last(p)) /\ \E q \in ToSet(r.paths) : q.path = p
      /\ \A p, q \in C : Last(p) = Last(q) => p = q
      /\ \A q \in ToSet(r.paths) : Crosses(D, src, Last(q.path)) =>
           \E p \in C : Last(p) = Last(q.path)
  BY <1>1, <1>4, CrossingPathsFacts DEF C
<1>6. \A p \in ToSet(r.paths) : Last(p.path) \in Registers(h)
  <2> SUFFICES ASSUME NEW p \in ToSet(r.paths) PROVE Last(p.path) \in Registers(h)
    OBVIOUS
  <2>1. p \in Frames
    BY <1>4, SetOfSeq
  <2>2. p.path \in Seq(Nat) /\ p.path # <<>> /\ ToSet(p.path) \subseteq NodeIds(h)
        /\ IsRegister(h, Last(p.path))
    BY <1>4, <2>1 DEF Frames, GoodFrame, Complete
  <2>3. Last(p.path) \in ToSet(p.path)
    BY <2>2, FrontLast
  <2> QED
    BY <2>2, <2>3 DEF Registers
<1>7. \A f : f \in F <=> /\ HasDomain(D, src)
                         /\ \/ \E p \in C : f \in ProcessPath(D, src, p)
                            \/ r.truncated /\ f = cut
  BY <1>2
<1>8. \A p : OneCrossing(ProcessPath(D, src, p), src, p)
  BY ProcessPathOne
<1>9. \A f \in F : f.src = src /\ IsFinding(f) /\ f.rule # "CDC008"
  BY <1>3, <1>7, <1>8 DEF OneCrossing, IsAbout
<1>10. \A dst : <<src, dst>> \in CrossedPairs(D) <=>
         /\ dst \in Registers(h) /\ Crosses(D, src, dst)
         /\ \E p \in ToSet(r.paths) : Last(p.path) = dst
  BY DEF CrossedPairs, r
<1>11. src \in CutShort(D) <=> HasDomain(D, src) /\ r.truncated
  BY DEF CutShort, r
<1>12. ASSUME NEW f \in F, f.rule = "CDC001"
       PROVE  \E p \in C : f \in ProcessPath(D, src, p) /\ Last(p) = f.dst
  BY <1>3, <1>7, <1>8, <1>12 DEF OneCrossing, IsAbout
<1>13. ASSUME NEW f \in F, f.rule = "CDC001" PROVE <<f.src, f.dst>> \in CrossedPairs(D)
  <2>1. PICK p \in C : f \in ProcessPath(D, src, p) /\ Last(p) = f.dst
    BY <1>12, <1>13
  <2>2. PICK q \in ToSet(r.paths) : q.path = p
    BY <1>5
  <2> QED
    BY <1>5, <1>6, <1>9, <1>10, <2>1, <2>2
<1>14. ASSUME NEW f \in F, NEW e \in F, f.rule = "CDC001", e.rule = "CDC001", f.dst = e.dst
       PROVE  f = e
  <2>1. PICK p \in C : f \in ProcessPath(D, src, p) /\ Last(p) = f.dst
    BY <1>12, <1>14
  <2>2. PICK q \in C : e \in ProcessPath(D, src, q) /\ Last(q) = e.dst
    BY <1>12, <1>14
  <2>3. p = q
    BY <1>5, <1>14, <2>1, <2>2
  <2> QED
    BY <1>8, <1>14, <2>1, <2>2, <2>3 DEF OneCrossing, IsAbout
<1>15. ASSUME NEW dst, <<src, dst>> \in CrossedPairs(D)
       PROVE  \E f \in F : f.rule = "CDC001" /\ f.dst = dst
  <2>1. PICK p \in C : Last(p) = dst
    BY <1>5, <1>10, <1>15
  <2>2. PICK f \in ProcessPath(D, src, p) : f.rule = "CDC001"
    BY <1>8 DEF OneCrossing, IsAbout
  <2>3. f.dst = dst
    BY <1>8, <2>1, <2>2 DEF OneCrossing, IsAbout
  <2>4. HasDomain(D, src)
    BY <1>10, <1>15 DEF Crosses
  <2>5. f \in F
    BY <1>7, <2>2, <2>4
  <2> QED
    BY <2>2, <2>3, <2>5
<1>16. \A f \in F : f.rule = "CDC010" => src \in CutShort(D) /\ f = cut
  BY <1>7, <1>8, <1>11 DEF OneCrossing, IsAbout
<1>17. src \in CutShort(D) => cut \in F
  BY <1>7, <1>11
<1> QED
  BY <1>3, <1>9, <1>13, <1>14, <1>15, <1>16, <1>17 DEF F

LEMMA AnalyzeTells ==
  ASSUME NEW V, NEW D, D.g \in SoundGraphs(V)
  PROVE  Tells(D, Analyze(D)) /\ Findings(Analyze(D))
<1> DEFINE R == Registers(D.g)
           F == Analyze(D)
           P(src) == ProcessRegister(D, src)
<1>1. \A f : f \in F <=> (\E src \in R : f \in P(src)) \/ f \in DaisyChains(D)
  BY DEF Analyze
<1>2. \A f \in DaisyChains(D) : f.rule = "CDC008"
  BY FindingFields DEF DaisyChains, IsAbout
<1>3. \A src \in R : \A f \in P(src) : f.src = src /\ f.rule # "CDC008"
  BY ProcessRegisterTells
<1>4. \A src \in R : \A f \in P(src) : f.rule = "CDC001" => <<f.src, f.dst>> \in CrossedPairs(D)
  BY ProcessRegisterTells
<1>5. \A src \in R : \A f, e \in P(src) :
        f.rule = "CDC001" /\ e.rule = "CDC001" /\ f.dst = e.dst => f = e
  BY ProcessRegisterTells
<1>6. \A src \in R : \A dst : <<src, dst>> \in CrossedPairs(D) =>
        \E f \in P(src) : f.rule = "CDC001" /\ f.dst = dst
  BY ProcessRegisterTells
<1>7. \A src \in R : \A f \in P(src) : f.rule = "CDC010" => src \in CutShort(D)
  BY ProcessRegisterTells
<1>8. \A src \in R : \A f, e \in P(src) : f.rule = "CDC010" /\ e.rule = "CDC010" => f = e
  BY ProcessRegisterTells
<1>9. \A src \in R : src \in CutShort(D) => \E f \in P(src) : f.rule = "CDC010"
  BY ProcessRegisterTells
<1>10. CutShort(D) \subseteq R /\ \A p \in CrossedPairs(D) : p = <<p[1], p[2]>> /\ p[1] \in R
  BY DEF CutShort, CrossedPairs
<1>11. Findings(F)
  <2>1. Sized(D.g)
    BY GraphFields DEF SoundGraphs, Sized, GraphType
  <2> QED
    BY <2>1, AnalyzeFew
<1> HIDE DEF F, P, R
<1>12. \A f \in F : f.rule \in {"CDC001", "CDC010"} => \E src \in R : f \in P(src) /\ f.src = src
  BY <1>1, <1>2, <1>3
<1>13. \A f \in F : f.rule = "CDC001" => <<f.src, f.dst>> \in CrossedPairs(D)
  BY <1>4, <1>12
<1>14. \A f, e \in F : f.rule = "CDC001" /\ e.rule = "CDC001" /\ f.src = e.src /\ f.dst = e.dst
                       => f = e
  BY <1>5, <1>12
<1>15. \A p \in CrossedPairs(D) : \E f \in F : f.rule = "CDC001" /\ f.src = p[1] /\ f.dst = p[2]
  <2> SUFFICES ASSUME NEW p \in CrossedPairs(D)
               PROVE  \E f \in F : f.rule = "CDC001" /\ f.src = p[1] /\ f.dst = p[2]
    OBVIOUS
  <2>1. PICK f \in P(p[1]) : f.rule = "CDC001" /\ f.dst = p[2]
    BY <1>6, <1>10
  <2> QED
    BY <1>1, <1>3, <1>10, <2>1
<1>16. \A f \in F : f.rule = "CDC010" => f.src \in CutShort(D)
  BY <1>7, <1>12
<1>17. \A f, e \in F : f.rule = "CDC010" /\ e.rule = "CDC010" /\ f.src = e.src => f = e
  BY <1>8, <1>12
<1>18. \A s \in CutShort(D) : \E f \in F : f.rule = "CDC010" /\ f.src = s
  BY <1>1, <1>3, <1>9, <1>10
<1>19. Tells(D, F)
  BY <1>13, <1>14, <1>15, <1>16, <1>17, <1>18 DEF Tells
<1> QED
  BY <1>11, <1>19 DEF F

(* The rules that come after the crossings write no CDC001 and no CDC010.  *)
Others == {"CDC003", "CDC006", "CDC009", "CDC013"}

LEMMA OtherRules ==
  ASSUME NEW D, NEW F
  PROVE  /\ F \subseteq PropagateUncertainty(D, F)
         /\ \A f \in PropagateUncertainty(D, F) \ F : f.rule = "CDC013"
         /\ \A f \in Reconvergence(D, F) : f.rule = "CDC003"
         /\ \A f \in Cdc006(D) : f.rule = "CDC006"
         /\ \A f \in CheckResetCrossings(D) : f.rule = "CDC009"
<1>1. \A rule, severity, src, dst, path, status :
        Finding(rule, severity, src, dst, path, status).rule = rule
  BY FindingFields DEF IsAbout
<1>2. F \subseteq PropagateUncertainty(D, F)
  BY DEF PropagateUncertainty
<1>3. \A f \in PropagateUncertainty(D, F) \ F : f.rule = "CDC013"
  <2> DEFINE G(id) == Finding("CDC013", "warning", id, NoId, <<id>>, "Candidate")
             S == {r \in Registers(D.g) \ UNION {{f.src, f.dst} : f \in F} :
                     Marks(D, F)[r] = "propagated"}
  <2>1. PropagateUncertainty(D, F) = F \cup {G(id) : id \in S}
    BY DEF PropagateUncertainty
  <2>2. \A id : G(id).rule = "CDC013"
    BY <1>1
  <2> HIDE DEF G, S
  <2> QED
    BY <2>1, <2>2
<1>4. \A f \in Reconvergence(D, F) : f.rule = "CDC003"
  BY <1>1 DEF Reconvergence
<1>5. \A f \in Cdc006(D) : f.rule = "CDC006"
  <2> DEFINE G(src, dst) == Finding("CDC006", "error", src, dst, <<>>, "VerifiedUnsafe")
  <2>1. \A f \in Cdc006(D) : \E src, dst : f = G(src, dst)
    <3> HIDE DEF G
    <3> QED
      BY DEF Cdc006, G
  <2>2. \A src, dst : G(src, dst).rule = "CDC006"
    BY <1>1
  <2> HIDE DEF G
  <2> QED
    BY <2>1, <2>2
<1>6. \A f \in CheckResetCrossings(D) : f.rule = "CDC009"
  <2> DEFINE G(severity, e) ==
               Finding("CDC009", severity, e[1], e[2], <<e[1], e[2]>>, "VerifiedUnsafe")
  <2>1. \A f \in CheckResetCrossings(D) : \E severity, e : f = G(severity, e)
    <3> HIDE DEF G
    <3> QED
      BY DEF CheckResetCrossings, G
  <2>2. \A severity, e : G(severity, e).rule = "CDC009"
    BY <1>1
  <2> HIDE DEF G
  <2> QED
    BY <2>1, <2>2
<1> QED
  BY <1>2, <1>3, <1>4, <1>5, <1>6

(* What an isolation cell makes of a finding.                              *)
Lowered(D, f) ==
  IF /\ f.rule = "CDC001" /\ f.severity = "error"
     /\ \E id \in ToSet(f.path) : D.at[id].isolation
  THEN Because([f EXCEPT !.severity = "info", !.status = "VerifiedSafe"], "isolation")
  ELSE f

LEMMA LoweredFields ==
  ASSUME NEW D, NEW f, IsFinding(f)
  PROVE  IsAbout(Lowered(D, f), f.rule, f.src, f.dst, f.path)
<1> DEFINE l == [f EXCEPT !.severity = "info", !.status = "VerifiedSafe"]
           r == f.rule
           s == f.src
           d == f.dst
           p == f.path
<1>1. IsAbout(f, r, s, d, p)
  BY DEF IsAbout
<1> HIDE DEF r, s, d, p
<1>2. IsAbout(l, r, s, d, p)
  BY <1>1, BecauseFields
<1> HIDE DEF l
<1>3. IsAbout(Because(l, "isolation"), r, s, d, p)
  BY <1>2, BecauseFields
<1>4. Lowered(D, f) = f \/ Lowered(D, f) = Because(l, "isolation")
  BY DEF Lowered, l
<1>5. IsAbout(Lowered(D, f), r, s, d, p)
  BY <1>1, <1>3, <1>4
<1> QED
  BY <1>5 DEF r, s, d, p

(* All the findings about crossings come from the crossing analysis.       *)
LEMMA StructuralAre ==
  ASSUME NEW D, NEW F, Findings(F)
  PROVE  /\ \A f \in FindingsFrom(D, F) : f.rule \notin Others =>
              \E e \in F : f = Lowered(D, e) /\ e.rule = f.rule
         /\ \A e \in F : Lowered(D, e) \in FindingsFrom(D, F)
<1> DEFINE resets == IF D.suppress_resets THEN {} ELSE CheckResetCrossings(D)
           all == PropagateUncertainty(D, F) \cup Reconvergence(D, F) \cup Cdc006(D) \cup resets
<1>1. FindingsFrom(D, F) = {Lowered(D, f) : f \in all}
  BY DEF FindingsFrom, Isolate, Lowered
<1>2. F \subseteq all /\ \A f \in all \ F : f.rule \in Others
  <2>1. F \subseteq PropagateUncertainty(D, F)
    BY OtherRules
  <2>2. \A f \in PropagateUncertainty(D, F) \ F : f.rule = "CDC013"
    BY OtherRules
  <2>3. \A f \in Reconvergence(D, F) : f.rule = "CDC003"
    BY OtherRules
  <2>4. \A f \in Cdc006(D) : f.rule = "CDC006"
    BY OtherRules
  <2>5. \A f \in resets : f.rule = "CDC009"
    BY OtherRules
  <2> HIDE DEF resets
  <2> QED
    BY <2>1, <2>2, <2>3, <2>4, <2>5 DEF Others
<1> HIDE DEF all
<1>3. \A f \in F : Lowered(D, f).rule = f.rule
  BY LoweredFields DEF Findings, IsAbout
<1>4. \A f \in all : f.rule \in Others => Lowered(D, f) = f
  BY DEF Lowered, Others
<1>5. ASSUME NEW f \in FindingsFrom(D, F), f.rule \notin Others
      PROVE  \E e \in F : f = Lowered(D, e) /\ e.rule = f.rule
  <2>1. PICK e \in all : f = Lowered(D, e)
    BY <1>1
  <2>2. e \in F
    BY <1>2, <1>4, <1>5, <2>1
  <2> QED
    BY <1>3, <2>1, <2>2
<1> QED
  BY <1>1, <1>2, <1>5

LEMMA StructuralTells ==
  ASSUME NEW V, NEW D, D.g \in SoundGraphs(V)
  PROVE  Tells(D, StructuralFindings(D))
<1> DEFINE F == Analyze(D)
           G == FindingsFrom(D, F)
<1>1. StructuralFindings(D) = G
  BY DEF StructuralFindings
<1>2. Tells(D, F) /\ Findings(F)
  BY AnalyzeTells
<1> HIDE DEF F
<1>3. \A f \in G : f.rule \notin Others => \E e \in F : f = Lowered(D, e) /\ e.rule = f.rule
  BY <1>2, StructuralAre
<1>4. \A e \in F : Lowered(D, e) \in G
  BY <1>2, StructuralAre
<1>5. \A e \in F : Lowered(D, e).rule = e.rule /\ Lowered(D, e).src = e.src
                   /\ Lowered(D, e).dst = e.dst
  BY <1>2, LoweredFields DEF Findings, IsAbout
<1> HIDE DEF G
<1>6. \A f \in G : f.rule \in {"CDC001", "CDC010"} =>
        \E e \in F : f = Lowered(D, e) /\ e.rule = f.rule /\ e.src = f.src /\ e.dst = f.dst
  BY <1>3, <1>5 DEF Others
<1>7. /\ \A f \in F : f.rule = "CDC001" => <<f.src, f.dst>> \in CrossedPairs(D)
      /\ \A f, e \in F : f.rule = "CDC001" /\ e.rule = "CDC001" /\ f.src = e.src
                           /\ f.dst = e.dst => f = e
      /\ \A p \in CrossedPairs(D) :
           \E f \in F : f.rule = "CDC001" /\ f.src = p[1] /\ f.dst = p[2]
      /\ \A f \in F : f.rule = "CDC010" => f.src \in CutShort(D)
      /\ \A f, e \in F : f.rule = "CDC010" /\ e.rule = "CDC010" /\ f.src = e.src => f = e
      /\ \A s \in CutShort(D) : \E f \in F : f.rule = "CDC010" /\ f.src = s
  BY <1>2 DEF Tells
<1>8. \A f \in G : f.rule = "CDC001" => <<f.src, f.dst>> \in CrossedPairs(D)
  BY <1>6, <1>7
<1>9. \A f, e \in G : f.rule = "CDC001" /\ e.rule = "CDC001" /\ f.src = e.src /\ f.dst = e.dst
                       => f = e
  <2> SUFFICES ASSUME NEW f \in G, NEW e \in G, f.rule = "CDC001", e.rule = "CDC001",
                      f.src = e.src, f.dst = e.dst
               PROVE  f = e
    OBVIOUS
  <2>1. PICK a \in F : f = Lowered(D, a) /\ a.rule = f.rule /\ a.src = f.src /\ a.dst = f.dst
    BY <1>6
  <2>2. PICK b \in F : e = Lowered(D, b) /\ b.rule = e.rule /\ b.src = e.src /\ b.dst = e.dst
    BY <1>6
  <2>3. a = b
    BY <1>7, <2>1, <2>2
  <2> QED
    BY <2>1, <2>2, <2>3
<1>10. \A p \in CrossedPairs(D) : \E f \in G : f.rule = "CDC001" /\ f.src = p[1] /\ f.dst = p[2]
  BY <1>4, <1>5, <1>7
<1>11. \A f \in G : f.rule = "CDC010" => f.src \in CutShort(D)
  BY <1>6, <1>7
<1>12. \A f, e \in G : f.rule = "CDC010" /\ e.rule = "CDC010" /\ f.src = e.src => f = e
  <2> SUFFICES ASSUME NEW f \in G, NEW e \in G, f.rule = "CDC010", e.rule = "CDC010",
                      f.src = e.src
               PROVE  f = e
    OBVIOUS
  <2>1. PICK a \in F : f = Lowered(D, a) /\ a.rule = f.rule /\ a.src = f.src
    BY <1>6
  <2>2. PICK b \in F : e = Lowered(D, b) /\ b.rule = e.rule /\ b.src = e.src
    BY <1>6
  <2>3. a = b
    BY <1>7, <2>1, <2>2
  <2> QED
    BY <2>1, <2>2, <2>3
<1>13. \A s \in CutShort(D) : \E f \in G : f.rule = "CDC010" /\ f.src = s
  BY <1>4, <1>5, <1>7
<1> QED
  BY <1>1, <1>8, <1>9, <1>10, <1>11, <1>12, <1>13 DEF Tells

(* A pair that a simple path joins is crossed, or the search from its      *)
(* source was cut short; and a crossed pair is joined by a simple path.    *)
LEMMA CrossedExact ==
  ASSUME NEW V, NEW D, D.g \in SoundGraphs(V),
         NEW src \in Registers(D.g), NEW dst \in Registers(D.g)
  PROVE  /\ <<src, dst>> \in CrossedPairs(D) =>
              Crosses(D, src, dst) /\ \E p \in SimplePaths(D.g, src) : Last(p) = dst
         /\ Crosses(D, src, dst) /\ (\E p \in SimplePaths(D.g, src) : Last(p) = dst) =>
              <<src, dst>> \in CrossedPairs(D) \/ src \in CutShort(D)
<1> DEFINE h == D.g
           r == Search(D, src)
<1>1. Answers(h, src, r)
  <2>1. h \in SoundGraphs(V) /\ src \in Registers(h) /\ MaxPaths \in Nat
    BY CrossingAssumption
  <2> HIDE DEF h
  <2>2. Answers(h, src, FindRegisterPaths(h, src, MaxPaths))
    BY <2>1, SearchExact
  <2> QED
    BY <2>2 DEF Search, r, h
<1>2. <<src, dst>> \in CrossedPairs(D) <=>
        Crosses(D, src, dst) /\ \E p \in ToSet(r.paths) : Last(p.path) = dst
  BY DEF CrossedPairs, r
<1>3. src \in CutShort(D) <=> HasDomain(D, src) /\ r.truncated
  BY DEF CutShort, r
<1> HIDE DEF r
<1>4. /\ \A p \in ToSet(r.paths) : p.path \in SimplePaths(h, src)
      /\ ~r.truncated => \A q \in SimplePaths(h, src) : \E p \in ToSet(r.paths) : p.path = q
  BY <1>1 DEF Answers
<1>5. Crosses(D, src, dst) => HasDomain(D, src)
  BY DEF Crosses
<1> QED
  BY <1>2, <1>3, <1>4, <1>5

(* Induction over paths: from the longest back to the start. *)
LEMMA PathInd ==
  ASSUME NEW V, NEW h \in SoundGraphs(V), NEW P,
         \A path \in Seq(Nat) : (\A e \in Onward(h, path) : Append(path, e[2]) \in P) => path \in P
  PROVE  Seq(Nat) \subseteq P
<1> DEFINE X == Seq(Nat)
           Left(path) == NodeIds(h) \ ToSet(path)
           rank == [path \in X |-> Cardinality(Left(path))]
<1>1. IsFiniteSet(NodeIds(h))
  <2> DEFINE B == TRUE
  <2>1. B \in BOOLEAN
    OBVIOUS
  <2> HIDE DEF B
  <2> QED
    BY <2>1, EndsFacts
<1>2. ASSUME NEW path \in X
      PROVE  IsFiniteSet(Left(path)) /\ Cardinality(Left(path)) \in Nat
  <2>1. Left(path) \subseteq NodeIds(h)
    OBVIOUS
  <2> HIDE DEF Left
  <2> QED
    BY <1>1, <2>1, FS_Subset, FS_CardinalityType
<1>3. rank \in [X -> Nat]
  BY <1>2
<1>4. ASSUME NEW path \in X, NEW e \in Onward(h, path)
      PROVE  Append(path, e[2]) \in X /\ rank[Append(path, e[2])] < rank[path]
  <2> DEFINE A == Left(path)
             p == Append(path, e[2])
             B == Left(p)
  <2>1. /\ e[2] \in NodeIds(h) /\ e[2] \notin ToSet(path) /\ p \in X
        /\ ToSet(p) = ToSet(path) \cup {e[2]}
    BY OnwardFacts
  <2>2. B \subseteq A /\ e[2] \in A /\ e[2] \notin B
    BY <2>1
  <2>3. IsFiniteSet(A) /\ Cardinality(A) \in Nat /\ Cardinality(B) \in Nat
    BY <1>2, <2>1
  <2>4. rank[path] = Cardinality(A) /\ rank[p] = Cardinality(B)
    BY <2>1
  <2> HIDE DEF A, B, rank, p
  <2>5. Cardinality(B) <= Cardinality(A) /\ (Cardinality(B) = Cardinality(A) => A = B)
    BY <2>2, <2>3, FS_Subset
  <2>6. Cardinality(B) < Cardinality(A)
    BY <2>2, <2>3, <2>5
  <2> QED
    BY <2>1, <2>4, <2>6 DEF p
<1>5. ASSUME NEW path \in X, \A y \in X : rank[y] < rank[path] => y \in P
      PROVE  path \in P
  BY <1>4, <1>5
<1> HIDE DEF rank, X
<1>6. X \subseteq P
  BY <1>3, <1>5, RankInd
<1> QED
  BY <1>6 DEF X

(* A simple path ends where a walk forward through logic gets to. *)
LEMMA PathsGoAhead ==
  ASSUME NEW V, NEW h \in SoundGraphs(V), NEW src \in Registers(h),
         NEW q \in SimplePaths(h, src)
  PROVE  Last(q) \in Ahead(h, TRUE, TRUE, src)
<1> DEFINE B == TRUE
           E == Ends(h, B)
           I == Inner(h, B)
           first == {n \in Nat : <<src, n>> \in E}
           A == Ahead(h, B, B, src)
           t == PathTree(h)
<1>1. Grows(h, t) /\ q \in t[<<src>>]
  BY PathTreeDef
<1>2. B \in BOOLEAN /\ E = ToSet(h.edges)
  BY DEF Ends
<1> HIDE DEF B
<1>3. /\ E \in SUBSET Edge /\ \A e \in E : e = <<e[1], e[2]>> /\ e[1] \in NodeIds(h) /\ e[2] \in NodeIds(h)
      /\ NodeIds(h) \in SUBSET Nat /\ src \in Nat
  BY <1>2, EndsFacts DEF Registers
<1>4. \A id \in NodeIds(h) : IsRegister(h, id) \/ id \in I
  <2>1. \A id \in NodeIds(h) : KindOf(h, id) \in Kinds
    BY <1>2, EndsFacts
  <2> QED
    BY <2>1 DEF Inner, IsRegister, Kinds, I, B
<1>5. A \in Enclosures(E, I, {}, first)
  <2>1. first \in SUBSET Nat /\ A = Least(E, I, {}, first)
    BY DEF Ahead
  <2> HIDE DEF E, I, first, A
  <2> QED
    BY <1>3, <2>1, LeastSpread
<1>6. /\ \A n \in first : n \in A
      /\ \A e \in E : e[1] \in A /\ e[1] \in I => e[2] \in A
  <2> HIDE DEF E, I, first, A
  <2> QED
    BY <1>5 DEF Enclosures, Closed
<1> HIDE DEF A, E, I, t
<1> DEFINE P == {path \in Seq(Nat) :
                   Len(path) > 1 /\ Last(path) \in A /\ Last(path) \in NodeIds(h) =>
                     \A p \in t[path] : Last(p) \in A}
<1>7. ASSUME NEW path \in Seq(Nat), \A e \in Onward(h, path) : Append(path, e[2]) \in P
      PROVE  path \in P
  <2> SUFFICES ASSUME Len(path) > 1, Last(path) \in A, Last(path) \in NodeIds(h),
                      NEW p \in t[path]
               PROVE  Last(p) \in A
    OBVIOUS
  <2>1. CASE Complete(h, path)
    BY <1>1, <2>1 DEF Grows
  <2>2. CASE ~Complete(h, path)
    <3>1. PICK e \in Onward(h, path) : p \in t[Append(path, e[2])]
      BY <1>1, <2>2 DEF Grows
    <3>2. e \in E /\ e[1] = Last(path)
      BY <1>2 DEF Onward
    <3>3. Last(path) \in I
      BY <1>4, <2>2 DEF Complete
    <3>4. e[2] \in A /\ e[2] \in NodeIds(h) /\ e[2] \in Nat
      BY <1>3, <1>6, <3>2, <3>3
    <3>5. Len(Append(path, e[2])) > 1 /\ Last(Append(path, e[2])) = e[2]
      BY <3>4, AppendProperties, LenProperties DEF Last
    <3> QED
      BY <1>7, <3>1, <3>4, <3>5
  <2> QED
    BY <2>1, <2>2
<1>8. Seq(Nat) \subseteq P
  <2> HIDE DEF P
  <2> QED
    BY <1>7, PathInd
<1>9. PICK e \in Onward(h, <<src>>) : q \in t[Append(<<src>>, e[2])]
  <2> DEFINE s == <<src>>
  <2>1. s \in Seq(Nat) /\ Len(s) = 1
    BY <1>3
  <2> HIDE DEF s
  <2>2. ~Complete(h, s) /\ q \in t[s]
    BY <1>1, <2>1 DEF Complete, s
  <2>3. PICK e \in Onward(h, s) : q \in t[Append(s, e[2])]
    BY <1>1, <2>1, <2>2 DEF Grows
  <2> QED
    BY <2>3 DEF s
<1>10. e \in E /\ e[1] = src
  BY <1>2, <1>3 DEF Onward, Last
<1>11. e[2] \in A /\ e[2] \in NodeIds(h) /\ e[2] \in Nat
  BY <1>3, <1>6, <1>10
<1>12. /\ Append(<<src>>, e[2]) \in Seq(Nat) /\ Len(Append(<<src>>, e[2])) > 1
       /\ Last(Append(<<src>>, e[2])) = e[2]
  BY <1>3, <1>11, AppendProperties, LenProperties DEF Last
<1> QED
  BY <1>8, <1>9, <1>11, <1>12 DEF A, B

(* The chain of stages.                                                    *)

(* The registers a chain may go on with from cur. *)
Fitting(D, dest, cur, guarded, strict) ==
  Those(Direct(D, cur), {s \in ToSet(Direct(D, cur)) : Fits(D, dest, cur, s, guarded, strict)})

LEMMA WalkType ==
  ASSUME NEW V, NEW h \in SoundGraphs(V), NEW forward \in BOOLEAN, NEW comb,
         NEW first \in Seq(Nat), NEW start \in SUBSET Nat
  PROVE  RegisterWalk(h, forward, comb, first, start) \in Seq(Nat)
<1> DEFINE w0 == WalkStart(first, start)
<1>1. PICK walk :
           /\ Walks(walk, h, forward, comb)
           /\ RegisterWalk(h, forward, comb, first, start) = walk[w0]
  BY WalkDef
<1>2. w0 \in WalkStates
  BY EmptySeq DEF WalkStart, WalkStates
<1> QED
  BY <1>1, <1>2 DEF Walks

LEMMA FittingFacts ==
  ASSUME NEW V, NEW D, D.g \in SoundGraphs(V), NEW dest, NEW cur \in Nat,
         NEW guarded, NEW strict
  PROVE  /\ Direct(D, cur) \in Seq(Nat)
         /\ Fitting(D, dest, cur, guarded, strict) \in Seq(Nat)
         /\ \A s : s \in ToSet(Fitting(D, dest, cur, guarded, strict)) <=>
              s \in ToSet(Direct(D, cur)) /\ Fits(D, dest, cur, s, guarded, strict)
<1> DEFINE h == D.g
           T == TRUE
           N == FALSE
           first == Step(h, T, cur)
           start == {cur}
<1>1. T \in BOOLEAN /\ N \in BOOLEAN /\ h \in SoundGraphs(V)
  OBVIOUS
<1> HIDE DEF T, N, h
<1>2. first \in Seq(Nat) /\ start \in SUBSET Nat
  BY <1>1, StepFacts
<1> HIDE DEF first, start
<1>3. RegisterWalk(h, T, N, first, start) \in Seq(Nat)
  BY <1>1, <1>2, WalkType
<1>5. Direct(D, cur) = RegisterWalk(h, T, N, first, start)
  BY DEF Direct, RegisterSuccessors, first, start, Step, T, N, h
<1>6. Direct(D, cur) \in Seq(Nat)
  BY <1>3, <1>5
<1> DEFINE near == Direct(D, cur)
           S == {s \in ToSet(near) : Fits(D, dest, cur, s, guarded, strict)}
<1>7. \A s : s \in S <=> s \in ToSet(near) /\ Fits(D, dest, cur, s, guarded, strict)
  OBVIOUS
<1>8. Fitting(D, dest, cur, guarded, strict) = Those(near, S)
  BY DEF Fitting
<1> HIDE DEF near, S
<1>9. near \in Seq(Nat)
  BY <1>6 DEF near
<1>10. Those(near, S) \in Seq(Nat) /\ \A x : x \in ToSet(Those(near, S)) <=> x \in ToSet(near) /\ x \in S
  BY <1>9, ThoseFacts
<1> QED
  BY <1>7, <1>8, <1>9, <1>10 DEF near

(* The first so many stages of a chain: each is the first that fits. *)
StageWalk(D, dest, c, guarded, strict) ==
  /\ c \in Seq(Nat) /\ Len(c) \in 1..(MaxStages + 1) /\ c[1] = dest
  /\ \A i \in 1..(Len(c) - 1) :
       /\ Fitting(D, dest, c[i], guarded, strict) # <<>>
       /\ c[i + 1] = Head(Fitting(D, dest, c[i], guarded, strict))

(* All of them. *)
WholeChain(D, dest, c, guarded, strict) ==
  /\ StageWalk(D, dest, c, guarded, strict)
  /\ Len(c) <= MaxStages => Fitting(D, dest, c[Len(c)], guarded, strict) = <<>>

LEMMA ChainIs ==
  ASSUME NEW V, NEW D, D.g \in SoundGraphs(V), NEW dest \in Nat, NEW guarded, NEW strict
  PROVE  WholeChain(D, dest, Chain(D, dest, guarded, strict), guarded, strict)
<1> DEFINE X == Seq(Nat) \ {<<>>}
           fit(c) == Fitting(D, dest, Last(c), guarded, strict)
           Stop == {c \in X : Len(c) > MaxStages \/ fit(c) = <<>>}
           next == [c \in X |-> IF c \in Stop THEN c ELSE Append(c, Head(fit(c)))]
           out == [c \in X |-> c]
           rank == [c \in X |-> IF Len(c) > MaxStages THEN 0 ELSE MaxStages + 1 - Len(c)]
           Turn(f, c) == IF Len(c) > MaxStages \/ fit(c) = <<>> THEN c
                         ELSE f[Append(c, Head(fit(c)))]
           Solves(f) == f = [c \in X |-> Turn(f, c)]
           longest == CHOOSE f : Solves(f)
           w == <<dest>>
<1>1. MaxStages = 10
  BY DEF MaxStages
<1>2. ASSUME NEW c \in X
      PROVE  /\ Len(c) \in Nat /\ Len(c) >= 1 /\ Last(c) = c[Len(c)] /\ Last(c) \in Nat
             /\ fit(c) \in Seq(Nat)
             /\ fit(c) # <<>> => /\ Head(fit(c)) \in Nat
                                 /\ Append(c, Head(fit(c))) \in X
                                 /\ Len(Append(c, Head(fit(c)))) = Len(c) + 1
  <2>1. c \in Seq(Nat) /\ c # <<>>
    BY <1>2
  <2>2. Len(c) \in Nat /\ Len(c) >= 1 /\ Last(c) = c[Len(c)] /\ Last(c) \in Nat
    BY <2>1, FrontLast, LenProperties, EmptySeq DEF Last
  <2>3. fit(c) \in Seq(Nat)
    BY <2>2, FittingFacts
  <2> HIDE DEF fit
  <2>4. ASSUME fit(c) # <<>> PROVE Head(fit(c)) \in Nat
    BY <2>3, <2>4, HeadTailProperties
  <2>5. ASSUME NEW x \in Nat
        PROVE  Append(c, x) \in Seq(Nat) /\ Append(c, x) # <<>> /\ Len(Append(c, x)) = Len(c) + 1
    BY <2>1, AppendProperties
  <2> QED
    BY <2>2, <2>3, <2>4, <2>5
<1>3. /\ next \in [X -> X] /\ out \in [X -> X] /\ X # {} /\ rank \in [X -> Nat]
  <2>1. w \in X
    OBVIOUS
  <2> HIDE DEF X, fit
  <2>2. \A c \in X : rank[c] \in Nat
    BY <1>1, <1>2
  <2>3. \A c \in X : next[c] \in X
    BY <1>2 DEF Stop
  <2> QED
    BY <2>1, <2>2, <2>3
<1>4. \A c \in X : c \in Stop <=> Len(c) > MaxStages \/ fit(c) = <<>>
  OBVIOUS
<1>5. \A c \in X \ Stop : next[c] = Append(c, Head(fit(c)))
  OBVIOUS
<1>6. Shrinks(rank, X, Stop, next)
  <2> HIDE DEF X, fit, next, Stop
  <2> SUFFICES ASSUME NEW c \in X \ Stop PROVE rank[next[c]] < rank[c]
    BY DEF Shrinks
  <2>1. Len(next[c]) = Len(c) + 1 /\ ~(Len(c) > MaxStages) /\ next[c] \in X /\ Len(c) \in Nat
    BY <1>2, <1>3, <1>4, <1>5
  <2> QED
    BY <1>1, <2>1
<1>7. \A c \in X : out[c] = c
  OBVIOUS
<1> HIDE DEF next, out, rank, Stop, X
<1>8. PICK f \in [X -> X] : Returns(f, X, Stop, out, next)
  BY <1>3, <1>6, LoopRec
<1>9. Solves(f)
  <2>1. \A c \in X : f[c] = Turn(f, c)
    <3> HIDE DEF fit
    <3> QED
      BY <1>4, <1>5, <1>7, <1>8 DEF Returns
  <2> HIDE DEF Turn
  <2> QED
    BY <2>1
<1>10. Solves(longest)
  BY <1>9
<1>11. Chain(D, dest, guarded, strict) = longest[w]
  BY DEF Chain, X, Fitting
<1> HIDE DEF longest
<1>12. \A c \in X : longest[c] = Turn(longest, c)
  <2> HIDE DEF Turn
  <2> QED
    BY <1>10
<1> DEFINE P == {c \in X : StageWalk(D, dest, c, guarded, strict) =>
                             WholeChain(D, dest, longest[c], guarded, strict)}
<1>13. X \cap Stop \subseteq P
  <2> SUFFICES ASSUME NEW c \in X, c \in Stop, StageWalk(D, dest, c, guarded, strict)
               PROVE  WholeChain(D, dest, longest[c], guarded, strict)
    OBVIOUS
  <2>1. longest[c] = c
    BY <1>4, <1>12
  <2>2. Len(c) <= MaxStages => fit(c) = <<>>
    BY <1>1, <1>2, <1>4
  <2> QED
    BY <1>2, <2>1, <2>2 DEF WholeChain
<1>14. Precedes(next, X, Stop, P)
  <2> SUFFICES ASSUME NEW c \in X \ Stop, next[c] \in P, StageWalk(D, dest, c, guarded, strict)
               PROVE  WholeChain(D, dest, longest[c], guarded, strict)
    BY DEF Precedes
  <2> DEFINE s == Head(fit(c))
             d == Append(c, s)
  <2>1. next[c] = d /\ longest[c] = longest[d] /\ Len(c) <= MaxStages /\ fit(c) # <<>>
    BY <1>1, <1>2, <1>4, <1>5, <1>12
  <2>2. d \in X /\ s \in Nat /\ Len(d) = Len(c) + 1 /\ Len(c) \in Nat /\ Len(c) >= 1
        /\ Last(c) = c[Len(c)]
    BY <1>2, <2>1
  <2>3. c \in Seq(Nat)
    BY DEF StageWalk
  <2>4. d \in Seq(Nat) /\ d[Len(c) + 1] = s /\ \A i \in 1..Len(c) : d[i] = c[i]
    <3> HIDE DEF s
    <3> QED
      BY <2>2, <2>3, AppendProperties
  <2>5. s = Head(Fitting(D, dest, c[Len(c)], guarded, strict))
        /\ Fitting(D, dest, c[Len(c)], guarded, strict) # <<>>
    BY <2>1, <2>2
  <2> HIDE DEF s, d, fit
  <2>6. StageWalk(D, dest, d, guarded, strict)
    <3>1. Len(d) \in 1..(MaxStages + 1)
      BY <1>1, <2>1, <2>2
    <3>4. d[1] = dest
      <4>1. 1 \in 1..Len(c) /\ c[1] = dest
        BY <2>2 DEF StageWalk
      <4> QED
        BY <2>4, <4>1
    <3>2. ASSUME NEW i \in 1..(Len(d) - 1)
          PROVE  /\ Fitting(D, dest, d[i], guarded, strict) # <<>>
                 /\ d[i + 1] = Head(Fitting(D, dest, d[i], guarded, strict))
      <4>1. CASE i = Len(c)
        BY <2>2, <2>4, <2>5, <4>1
      <4>2. CASE i # Len(c)
        <5>1. i \in 1..(Len(c) - 1) /\ i + 1 \in 1..Len(c) /\ i \in 1..Len(c)
          BY <2>2, <4>2
        <5> QED
          BY <2>4, <5>1 DEF StageWalk
      <4> QED
        BY <4>1, <4>2
    <3> QED
      BY <2>4, <3>1, <3>2, <3>4 DEF StageWalk
  <2> QED
    BY <2>1, <2>6
<1>15. X \subseteq P
  <2> HIDE DEF P
  <2> QED
    BY <1>3, <1>6, <1>13, <1>14, LoopInd
<1>16. w \in X /\ StageWalk(D, dest, w, guarded, strict)
  <2>1. w \in Seq(Nat) /\ Len(w) = 1 /\ w[1] = dest /\ w # <<>>
    OBVIOUS
  <2> HIDE DEF w
  <2> QED
    BY <1>1, <2>1 DEF StageWalk, X
<1> HIDE DEF w
<1> QED
  BY <1>11, <1>15, <1>16

(* Connections over nets only, seen from either end. *)
LEMMA DirectFacts ==
  ASSUME NEW V, NEW D, D.g \in SoundGraphs(V), NEW a \in Registers(D.g)
  PROVE  /\ ToSet(Direct(D, a)) = RegistersReached(D.g, FALSE, a)
         /\ ToSet(Direct(D, a)) \subseteq Registers(D.g) \ {a}
         /\ ToSet(DirectBack(D, a)) \subseteq Registers(D.g) \ {a}
         /\ IsFiniteSet(ToSet(Direct(D, a))) /\ IsFiniteSet(ToSet(DirectBack(D, a)))
         /\ \A b \in Registers(D.g) : b \in ToSet(DirectBack(D, a)) <=> a \in ToSet(Direct(D, b))
<1> DEFINE h == D.g
           N == FALSE
<1>1. N \in BOOLEAN /\ h \in SoundGraphs(V) /\ a \in Registers(h)
  OBVIOUS
<1>2. /\ \A b : Direct(D, b) = RegisterSuccessors(h, b, N)
      /\ \A b : DirectBack(D, b) = RegisterPredecessors(h, b, N)
  BY DEF Direct, DirectBack
<1> HIDE DEF N, h
<1>3. /\ RegisterSuccessors(h, a, N) \in Seq(Nat) /\ RegisterPredecessors(h, a, N) \in Seq(Nat)
      /\ \A b : b \in ToSet(RegisterSuccessors(h, a, N)) => b \in Registers(h) /\ b # a
      /\ \A b : b \in ToSet(RegisterPredecessors(h, a, N)) => b \in Registers(h) /\ b # a
  BY <1>1, WalkSets
<1>4. \A b \in Registers(h) : a \in ToSet(RegisterSuccessors(h, b, N)) <=>
                                b \in ToSet(RegisterPredecessors(h, a, N))
  BY <1>1, WalksAgree
<1>5. ToSet(RegisterSuccessors(h, a, N)) = RegistersReached(h, N, a)
  BY <1>1, SuccessorsExact
<1>6. IsFiniteSet(ToSet(RegisterSuccessors(h, a, N)))
      /\ IsFiniteSet(ToSet(RegisterPredecessors(h, a, N)))
  BY <1>3, SetOfSeq
<1> QED
  BY <1>2, <1>3, <1>4, <1>5, <1>6 DEF N, h

(* The registers of its own clock that drive a register, or that it drives. *)
OwnDrivers(D, a) ==
  {r \in Registers(D.g) : Clock(D, r) = Clock(D, a) /\ a \in RegistersReached(D.g, FALSE, r)}
OwnDriven(D, a) ==
  {r \in Registers(D.g) : Clock(D, r) = Clock(D, a) /\ r \in RegistersReached(D.g, FALSE, a)}

LEMMA OwnFacts ==
  ASSUME NEW V, NEW D, D.g \in SoundGraphs(V), NEW a \in Registers(D.g)
  PROVE  /\ OwnPreds(D, a) = OwnDrivers(D, a) /\ IsFiniteSet(OwnDrivers(D, a))
         /\ {s \in ToSet(Direct(D, a)) : Clock(D, s) = Clock(D, a)} = OwnDriven(D, a)
         /\ IsFiniteSet(OwnDriven(D, a))
         /\ \A b \in Registers(D.g) : a \in OwnDrivers(D, b) <=> b \in OwnDriven(D, a)
<1> DEFINE R == Registers(D.g)
<1>1. \A b \in R : ToSet(Direct(D, b)) = RegistersReached(D.g, FALSE, b)
  BY DirectFacts
<1>2. /\ ToSet(Direct(D, a)) \subseteq R /\ ToSet(DirectBack(D, a)) \subseteq R
      /\ IsFiniteSet(ToSet(Direct(D, a))) /\ IsFiniteSet(ToSet(DirectBack(D, a)))
      /\ \A b \in R : b \in ToSet(DirectBack(D, a)) <=> a \in ToSet(Direct(D, b))
  BY DirectFacts
<1> HIDE DEF R
<1>3. \A b : b \in OwnPreds(D, a) <=> b \in OwnDrivers(D, a)
  BY <1>1, <1>2 DEF OwnPreds, OwnDrivers, R
<1>4. \A b : b \in {s \in ToSet(Direct(D, a)) : Clock(D, s) = Clock(D, a)} <=> b \in OwnDriven(D, a)
  BY <1>1, <1>2 DEF OwnDriven, R
<1>5. OwnDrivers(D, a) \subseteq ToSet(DirectBack(D, a)) /\ OwnDriven(D, a) \subseteq ToSet(Direct(D, a))
  BY <1>3, <1>4 DEF OwnPreds
<1> QED
  BY <1>2, <1>3, <1>4, <1>5, FS_Subset DEF OwnDrivers, OwnDriven, R

LEMMA AtMostOne ==
  ASSUME NEW S, IsFiniteSet(S), Cardinality(S) <= 1, NEW x \in S
  PROVE  S = {x}
<1>1. \A y \in S : y = x
  <2> SUFFICES ASSUME NEW y \in S, y # x PROVE FALSE
    OBVIOUS
  <2>1. IsFiniteSet({x, y}) /\ Cardinality({x, y}) = 2
    <3>1. {x, y} = {x} \cup {y} /\ y \notin {x}
      OBVIOUS
    <3>2. IsFiniteSet({x}) /\ Cardinality({x}) = 1
      BY FS_Singleton
    <3>3. IsFiniteSet({x} \cup {y}) /\ Cardinality({x} \cup {y}) = 1 + 1
      BY <3>1, <3>2, FS_AddElement
    <3> QED
      BY <3>1, <3>3
  <2>2. Cardinality({x, y}) <= Cardinality(S)
    <3>1. {x, y} \subseteq S
      OBVIOUS
    <3> QED
      BY <3>1, FS_Subset
  <2>3. Cardinality(S) \in Nat
    BY FS_CardinalityType
  <2> QED
    BY <2>1, <2>2, <2>3
<1> QED
  BY <1>1

(* StageWalk are registers of one clock, each driven by the one before. *)
Linked(D, dest, c, guarded, strict) ==
  /\ \A i \in 1..Len(c) : c[i] \in Registers(D.g) /\ Clock(D, c[i]) = Clock(D, dest)
  /\ \A i \in 1..(Len(c) - 1) :
       /\ c[i + 1] \in ToSet(Direct(D, c[i])) /\ c[i] \in OwnDrivers(D, c[i + 1])
       /\ Fits(D, dest, c[i], c[i + 1], guarded, strict)

LEMMA StagesLinked ==
  ASSUME NEW V, NEW D, D.g \in SoundGraphs(V), NEW dest \in Registers(D.g),
         NEW guarded, NEW strict, NEW c, StageWalk(D, dest, c, guarded, strict)
  PROVE  Linked(D, dest, c, guarded, strict)
<1> DEFINE R == Registers(D.g)
           Good == {n \in Nat : n + 1 <= Len(c) => c[n + 1] \in R /\ Clock(D, c[n + 1]) = Clock(D, dest)}
<1>1. c \in Seq(Nat) /\ Len(c) \in Nat /\ Len(c) >= 1 /\ c[1] = dest
  BY LenProperties DEF StageWalk, MaxStages
<1>2. ASSUME NEW i \in 1..(Len(c) - 1), c[i] \in R
      PROVE  c[i + 1] \in ToSet(Direct(D, c[i])) /\ Fits(D, dest, c[i], c[i + 1], guarded, strict)
  <2> DEFINE f == Fitting(D, dest, c[i], guarded, strict)
  <2>1. f # <<>> /\ c[i + 1] = Head(f)
    BY DEF StageWalk
  <2>2. c[i] \in Nat
    BY <1>1, <1>2, ElementOfSeq
  <2>3. /\ f \in Seq(Nat)
        /\ \A s : s \in ToSet(f) <=>
              s \in ToSet(Direct(D, c[i])) /\ Fits(D, dest, c[i], s, guarded, strict)
    BY <2>2, FittingFacts
  <2> HIDE DEF f
  <2>4. Head(f) \in ToSet(f)
    <3>1. Len(f) \in Nat /\ Len(f) # 0 /\ \A j \in 1..Len(f) : f[j] \in ToSet(f)
      BY <2>1, <2>3, SetOfSeq, EmptySeq
    <3> QED
      BY <2>3, <3>1, HeadTailProperties
  <2> QED
    BY <2>1, <2>3, <2>4
<1>3. 0 \in Good
  BY <1>1
<1>4. ASSUME NEW n \in Nat, n \in Good PROVE n + 1 \in Good
  <2> SUFFICES ASSUME n + 1 + 1 <= Len(c)
               PROVE  c[n + 1 + 1] \in R /\ Clock(D, c[n + 1 + 1]) = Clock(D, dest)
    OBVIOUS
  <2>1. n + 1 \in 1..(Len(c) - 1) /\ c[n + 1] \in R
    BY <1>1, <1>4
  <2>2. c[n + 1 + 1] \in ToSet(Direct(D, c[n + 1])) /\ Fits(D, dest, c[n + 1], c[n + 1 + 1], guarded, strict)
    BY <1>2, <2>1
  <2>3. ToSet(Direct(D, c[n + 1])) \subseteq R
    BY <2>1, DirectFacts
  <2> QED
    BY <2>2, <2>3 DEF Fits
<1>5. Nat \subseteq Good
  <2> HIDE DEF Good
  <2> QED
    BY <1>3, <1>4, NatInd
<1>6. ASSUME NEW i \in 1..Len(c) PROVE c[i] \in R /\ Clock(D, c[i]) = Clock(D, dest)
  <2>1. i - 1 \in Nat /\ (i - 1) + 1 = i /\ i <= Len(c)
    BY <1>1
  <2>2. i - 1 \in Good
    BY <1>5, <2>1
  <2> QED
    BY <2>1, <2>2
<1>7. ASSUME NEW i \in 1..(Len(c) - 1) PROVE c[i] \in OwnDrivers(D, c[i + 1])
  <2>1. i \in 1..Len(c) /\ i + 1 \in 1..Len(c)
    BY <1>1
  <2>2. c[i] \in R /\ c[i + 1] \in R /\ Clock(D, c[i]) = Clock(D, c[i + 1])
        /\ c[i + 1] \in ToSet(Direct(D, c[i]))
    BY <1>2, <1>6, <2>1
  <2>3. ToSet(Direct(D, c[i])) = RegistersReached(D.g, FALSE, c[i])
    BY <2>2, DirectFacts
  <2> QED
    BY <2>2, <2>3 DEF OwnDrivers
<1>8. \A i \in 1..(Len(c) - 1) : i \in 1..Len(c)
  BY <1>1
<1> QED
  BY <1>2, <1>6, <1>7, <1>8 DEF Linked

(* Why a crossing is what its finding says. *)
Judges(D, f) ==
  \/ f.why = "false_path" /\ f.severity = "info" /\ IsFalsePath(D, f.src, f.dst, f.path)
  \/ f.why = "blackbox" /\ f.severity = "info" /\ IsPathThroughSafeBlackbox(D, f.path)
  \/ <<Domain(D, f.src), Domain(D, f.dst)>> \in D.multicycle /\ D.suppress
     /\ f.status = "Ambiguous" /\ f.severity = "info"
     /\ f.why = Judged(D, f.src, f.dst, f.path).why
  \/ f = Judged(D, f.src, f.dst, f.path)

Given(f, severity, status) == [f EXCEPT !.severity = severity, !.status = status]

LEMMA BecauseSays ==
  ASSUME NEW f, IsFinding(f), NEW why, NEW severity, NEW status
  PROVE  /\ Because(f, why).why = why /\ Because(f, why).severity = f.severity
         /\ Because(f, why).status = f.status
         /\ Given(f, severity, status).why = f.why
         /\ Given(f, severity, status).severity = severity
         /\ Given(f, severity, status).status = status
<1>1. PICK r, v, s, d, p, t, w :
        f = [rule |-> r, severity |-> v, src |-> s, dst |-> d, path |-> p,
             status |-> t, why |-> w]
  BY DEF IsFinding
<1>2. Because(f, why) = [rule |-> r, severity |-> v, src |-> s, dst |-> d,
                         path |-> p, status |-> t, why |-> why]
  BY <1>1 DEF Because
<1>3. Given(f, severity, status) = [rule |-> r, severity |-> severity, src |-> s, dst |-> d,
                                    path |-> p, status |-> status, why |-> w]
  <2> DEFINE g == [f EXCEPT !.severity = severity]
  <2>1. g = [rule |-> r, severity |-> severity, src |-> s, dst |-> d, path |-> p,
             status |-> t, why |-> w]
    BY <1>1
  <2>2. Given(f, severity, status) = [g EXCEPT !.status = status]
    BY DEF Given
  <2> HIDE DEF g
  <2> QED
    BY <2>1, <2>2
<1> DEFINE k == Because(f, why)
           l == Given(f, severity, status)
<1> HIDE DEF k, l
<1>4. k.why = why /\ k.severity = f.severity /\ k.status = f.status
  BY <1>1, <1>2 DEF k
<1>5. l.why = f.why /\ l.severity = severity /\ l.status = status
  BY <1>1, <1>3 DEF l
<1> QED
  BY <1>4, <1>5 DEF k, l

LEMMA ProcessPathSays ==
  ASSUME NEW D, NEW src, NEW path, NEW f \in ProcessPath(D, src, path)
  PROVE  IF f.rule = "CDC001" THEN Judges(D, f) ELSE f.why = "none"
<1> DEFINE dst == Last(path)
           j == Judged(D, src, dst, path)
           G(status) == Finding("CDC001", "info", src, dst, path, status)
           F(why, status) == Because(G(status), why)
           low == Given(j, "info", "Ambiguous")
           C == Companions(D, src, dst, path)
           many == <<Domain(D, src), Domain(D, dst)>> \in D.multicycle /\ D.suppress
<1>1. \/ f = F("false_path", "Ambiguous") /\ IsFalsePath(D, src, dst, path)
      \/ f = F("blackbox", "VerifiedSafe") /\ IsPathThroughSafeBlackbox(D, path)
      \/ f = low /\ many
      \/ f = j
      \/ f \in C
  <2> HIDE DEF j, C
  <2> QED
    BY DEF ProcessPath, Given, j, C
<1>2. ASSUME NEW why, NEW status
      PROVE  /\ IsAbout(F(why, status), "CDC001", src, dst, path)
             /\ F(why, status).why = why /\ F(why, status).severity = "info"
  <2>1. IsAbout(G(status), "CDC001", src, dst, path) /\ G(status).severity = "info"
    BY FindingFields
  <2> HIDE DEF G, dst
  <2>2. IsAbout(Because(G(status), why), "CDC001", src, dst, path)
    BY <2>1, BecauseFields
  <2>3. Because(G(status), why).why = why
    BY <2>1, BecauseSays DEF IsAbout
  <2>4. Because(G(status), why).severity = G(status).severity
    BY <2>1, BecauseSays DEF IsAbout
  <2> QED
    BY <2>1, <2>2, <2>3, <2>4
<1>3. IsAbout(j, "CDC001", src, dst, path)
  BY JudgedFields
<1>4. /\ IsAbout(low, "CDC001", src, dst, path) /\ low.why = j.why
      /\ low.severity = "info" /\ low.status = "Ambiguous"
  <2> HIDE DEF j, dst
  <2>1. IsAbout(low, "CDC001", src, dst, path)
    BY <1>3, BecauseFields DEF Given
  <2>2. low.why = j.why
    BY <1>3, BecauseSays DEF IsAbout
  <2>3. low.severity = "info"
    BY <1>3, BecauseSays DEF IsAbout
  <2>4. low.status = "Ambiguous"
    BY <1>3, BecauseSays DEF IsAbout
  <2> QED
    BY <2>1, <2>2, <2>3, <2>4
<1>5. ASSUME f \in C PROVE f.rule # "CDC001" /\ f.why = "none"
  <2>1. f.rule # "CDC001"
    BY <1>5, CompanionsFields DEF IsAbout
  <2>2. \A rule, severity : Finding(rule, severity, src, dst, path, "Unknown").why = "none"
    BY FindingFields
  <2>3. \E rule, severity : f = Finding(rule, severity, src, dst, path, "Unknown")
    BY <1>5 DEF Companions
  <2> QED
    BY <2>1, <2>2, <2>3
<1> HIDE DEF F, j, low, C, dst
<1>6. CASE f = F("false_path", "Ambiguous") /\ IsFalsePath(D, src, dst, path)
  BY <1>2, <1>6 DEF Judges, IsAbout
<1>7. CASE f = F("blackbox", "VerifiedSafe") /\ IsPathThroughSafeBlackbox(D, path)
  BY <1>2, <1>7 DEF Judges, IsAbout
<1>8. CASE f = low /\ many
  BY <1>4, <1>8 DEF Judges, IsAbout, j
<1>9. CASE f = j
  BY <1>3, <1>9 DEF Judges, IsAbout, j
<1> QED
  BY <1>1, <1>5, <1>6, <1>7, <1>8, <1>9

(* What a finding of the crossing analysis is about. *)
CrossingSays(D, f) ==
  /\ Judges(D, f)
  /\ f.src \in Registers(D.g) /\ f.dst \in Registers(D.g) /\ Crosses(D, f.src, f.dst)
  /\ f.path \in SimplePaths(D.g, f.src) /\ Last(f.path) = f.dst

LEMMA AnalyzeSays ==
  ASSUME NEW V, NEW D, D.g \in SoundGraphs(V), NEW f \in Analyze(D)
  PROVE  IF f.rule = "CDC001" THEN CrossingSays(D, f) ELSE f.why = "none"
<1> DEFINE R == Registers(D.g)
           h == D.g
           cut(src) == Finding("CDC010", "warning", src, NoId, <<>>, "Ambiguous")
           line(src) == Finding("CDC008", "warning", src, NoId, <<>>, "Candidate")
<1>1. \A src : /\ cut(src).rule = "CDC010" /\ cut(src).why = "none"
               /\ line(src).rule = "CDC008" /\ line(src).why = "none"
  BY FindingFields DEF IsAbout
<1>2. (\E src \in R : f \in ProcessRegister(D, src)) \/ \E src : f = line(src)
  BY DEF Analyze, DaisyChains
<1>3. ASSUME NEW src \in R, f \in ProcessRegister(D, src)
      PROVE  IF f.rule = "CDC001" THEN CrossingSays(D, f) ELSE f.why = "none"
  <2> DEFINE r == Search(D, src)
             C == CrossingPaths(D, src, r.paths)
  <2>1. f = cut(src) \/ \E p \in C : f \in ProcessPath(D, src, p)
    <3> HIDE DEF cut
    <3> QED
      BY <1>3 DEF ProcessRegister, Search, cut
  <2>2. CASE f = cut(src)
    BY <1>1, <2>2
  <2>3. CASE \E p \in C : f \in ProcessPath(D, src, p)
    <3>1. PICK p \in C : f \in ProcessPath(D, src, p)
      BY <2>3
    <3>2. IF f.rule = "CDC001" THEN Judges(D, f) ELSE f.why = "none"
      BY <3>1, ProcessPathSays
    <3>3. f.src = src /\ f.dst = Last(p) /\ f.path = p
      BY <3>1, ProcessPathOne DEF OneCrossing, IsAbout
    <3>4. Answers(h, src, r) /\ Len(r.paths) <= MaxPaths
      <4>1. h \in SoundGraphs(V) /\ src \in Registers(h)
        OBVIOUS
      <4>2. MaxPaths \in Nat \ {0}
        BY CrossingAssumption
      <4> HIDE DEF h
      <4>3. Answers(h, src, FindRegisterPaths(h, src, MaxPaths))
        BY <4>1, <4>2, SearchExact
      <4>4. Len(FindRegisterPaths(h, src, MaxPaths).paths) <= MaxPaths
        BY <4>1, <4>2, SearchLimited
      <4> QED
        BY <4>3, <4>4 DEF Search, r, h
    <3> HIDE DEF r
    <3>5. /\ r.paths \in Seq(Frames)
          /\ \A q \in ToSet(r.paths) : q.path \in SimplePaths(h, src)
      BY <3>4 DEF Answers, Results
    <3>6. Crosses(D, src, Last(p)) /\ \E q \in ToSet(r.paths) : q.path = p
      BY <3>1, <3>4, <3>5, CrossingPathsFacts
    <3>7. p \in SimplePaths(h, src)
      BY <3>5, <3>6
    <3>8. ASSUME f.rule = "CDC001" PROVE f.dst \in R
      <4>1. f \in Analyze(D) /\ Tells(D, Analyze(D))
        BY AnalyzeTells
      <4>2. <<f.src, f.dst>> \in CrossedPairs(D)
        BY <3>8, <4>1 DEF Tells
      <4> QED
        BY <4>2 DEF CrossedPairs
    <3> QED
      BY <3>2, <3>3, <3>6, <3>7, <3>8 DEF CrossingSays
  <2> QED
    BY <2>1, <2>2, <2>3
<1> QED
  BY <1>1, <1>2, <1>3

(* The rules beside the crossing analysis give no reason.                  *)
LEMMA OtherReasons ==
  ASSUME NEW D, NEW F
  PROVE  /\ \A f \in PropagateUncertainty(D, F) \ F : f.why = "none"
         /\ \A f \in Reconvergence(D, F) : f.why = "none"
         /\ \A f \in Cdc006(D) : f.why = "none"
         /\ \A f \in CheckResetCrossings(D) : f.why = "none"
<1>1. \A rule, severity, src, dst, path, status :
        Finding(rule, severity, src, dst, path, status).why = "none"
  BY FindingFields
<1>2. \A f \in PropagateUncertainty(D, F) \ F : f.why = "none"
  <2> DEFINE G(id) == Finding("CDC013", "warning", id, NoId, <<id>>, "Candidate")
             S == {r \in Registers(D.g) \ UNION {{f.src, f.dst} : f \in F} :
                     Marks(D, F)[r] = "propagated"}
  <2>1. PropagateUncertainty(D, F) = F \cup {G(id) : id \in S}
    BY DEF PropagateUncertainty
  <2>2. \A id : G(id).why = "none"
    BY <1>1
  <2> HIDE DEF G, S
  <2> QED
    BY <2>1, <2>2
<1>3. \A f \in Reconvergence(D, F) : f.why = "none"
  BY <1>1 DEF Reconvergence
<1>4. \A f \in Cdc006(D) : f.why = "none"
  <2> DEFINE G(src, dst) == Finding("CDC006", "error", src, dst, <<>>, "VerifiedUnsafe")
  <2>1. \A f \in Cdc006(D) : \E src, dst : f = G(src, dst)
    <3> HIDE DEF G
    <3> QED
      BY DEF Cdc006, G
  <2>2. \A src, dst : G(src, dst).why = "none"
    BY <1>1
  <2> HIDE DEF G
  <2> QED
    BY <2>1, <2>2
<1>5. \A f \in CheckResetCrossings(D) : f.why = "none"
  <2> DEFINE G(severity, e) ==
               Finding("CDC009", severity, e[1], e[2], <<e[1], e[2]>>, "VerifiedUnsafe")
  <2>1. \A f \in CheckResetCrossings(D) : \E severity, e : f = G(severity, e)
    <3> HIDE DEF G
    <3> QED
      BY DEF CheckResetCrossings, G
  <2>2. \A severity, e : G(severity, e).why = "none"
    BY <1>1
  <2> HIDE DEF G
  <2> QED
    BY <2>1, <2>2
<1> QED
  BY <1>2, <1>3, <1>4, <1>5

(* What any finding of the structural analysis says.                       *)
LEMMA StructuralSays ==
  ASSUME NEW V, NEW D, D.g \in SoundGraphs(V), NEW f \in StructuralFindings(D)
  PROVE  IF f.rule = "CDC001"
         THEN \E e \in Analyze(D) :
                e.rule = "CDC001" /\ CrossingSays(D, e) /\ f = Lowered(D, e)
         ELSE f.why = "none"
<1> DEFINE F == Analyze(D)
           resets == IF D.suppress_resets THEN {} ELSE CheckResetCrossings(D)
           all == PropagateUncertainty(D, F) \cup Reconvergence(D, F) \cup Cdc006(D) \cup resets
<1>1. StructuralFindings(D) = {Lowered(D, e) : e \in all}
  BY DEF StructuralFindings, FindingsFrom, Isolate, Lowered
<1>2. \A e \in all \ F : e.rule # "CDC001" /\ e.why = "none"
  <2>1. \A e \in PropagateUncertainty(D, F) \ F : e.rule = "CDC013" /\ e.why = "none"
    BY OtherRules, OtherReasons
  <2>2. \A e \in Reconvergence(D, F) : e.rule = "CDC003" /\ e.why = "none"
    BY OtherRules, OtherReasons
  <2>3. \A e \in Cdc006(D) : e.rule = "CDC006" /\ e.why = "none"
    BY OtherRules, OtherReasons
  <2>4. \A e \in resets : e.rule = "CDC009" /\ e.why = "none"
    BY OtherRules, OtherReasons
  <2> HIDE DEF resets, F
  <2> QED
    BY <2>1, <2>2, <2>3, <2>4
<1>3. \A e \in F : /\ IsFinding(e)
                   /\ IF e.rule = "CDC001" THEN CrossingSays(D, e) ELSE e.why = "none"
  <2>1. \A e \in F : IF e.rule = "CDC001" THEN CrossingSays(D, e) ELSE e.why = "none"
    BY AnalyzeSays
  <2>2. Findings(F)
    BY AnalyzeTells
  <2> HIDE DEF F
  <2> QED
    BY <2>1, <2>2 DEF Findings
<1> HIDE DEF all, F
<1>4. PICK e \in all : f = Lowered(D, e)
  BY <1>1
<1>5. CASE e.rule = "CDC001"
  <2>1. e \in F /\ IsFinding(e) /\ CrossingSays(D, e)
    BY <1>2, <1>3, <1>5
  <2>2. f.rule = "CDC001"
    BY <1>4, <1>5, <2>1, LoweredFields DEF IsAbout
  <2> QED
    BY <1>4, <1>5, <2>1, <2>2 DEF F
<1>6. CASE e.rule # "CDC001"
  <2>1. f = e /\ e.why = "none"
    BY <1>2, <1>3, <1>4, <1>6 DEF Lowered
  <2> QED
    BY <1>6, <2>1
<1> QED
  BY <1>5, <1>6

(* The chain with the test for other drivers is the beginning of the one   *)
(* without it, where that one never has two ways to go on.                 *)
Begins(c, w) == \A i \in 1..Len(c) : i <= Len(w) /\ c[i] = w[i]

LEMMA CleanStart ==
  ASSUME NEW V, NEW D, D.g \in SoundGraphs(V), NEW dest \in Registers(D.g), NEW strict,
         NEW T, NEW N, T, ~N,
         NEW c, StageWalk(D, dest, c, T, strict),
         NEW w, WholeChain(D, dest, w, N, strict), ~WarnsOn(D, w)
  PROVE  Begins(c, w)
<1> DEFINE R == Registers(D.g)
           P(i) == i \in 1..Len(c) => i <= Len(w) /\ c[i] = w[i]
<1>0. Registers(D.g) \subseteq Nat
  <2> DEFINE B == TRUE
  <2>1. B \in BOOLEAN
    OBVIOUS
  <2> HIDE DEF B
  <2>2. Registers(D.g) \in SUBSET NodeIds(D.g) /\ NodeIds(D.g) \in SUBSET Nat
    BY <2>1, EndsFacts, InnerFacts
  <2> QED
    BY <2>2
<1>1. StageWalk(D, dest, w, N, strict) /\ Linked(D, dest, w, N, strict)
  BY StagesLinked DEF WholeChain
<1>2. Linked(D, dest, c, T, strict) /\ StageWalk(D, dest, c, T, strict)
  BY StagesLinked
<1>3. Len(c) \in Nat /\ Len(w) \in Nat /\ Len(w) >= 1 /\ Len(c) <= MaxStages + 1 /\ MaxStages \in Nat
      /\ c \in Seq(Nat) /\ w \in Seq(Nat)
      /\ c[1] = dest /\ w[1] = dest
  <2>1. MaxStages \in Nat /\ MaxStages = 10
    BY DEF MaxStages
  <2>2. /\ c \in Seq(Nat) /\ Len(c) \in 1..(MaxStages + 1) /\ c[1] = dest
        /\ w \in Seq(Nat) /\ Len(w) \in 1..(MaxStages + 1) /\ w[1] = dest
    BY <1>1, <1>2 DEF StageWalk
  <2> DEFINE n == Len(c)
             k == Len(w)
  <2>3. n \in 1..(MaxStages + 1) /\ k \in 1..(MaxStages + 1)
    BY <2>2
  <2> HIDE DEF n, k
  <2>4. n \in Nat /\ k \in Nat /\ k >= 1 /\ n <= MaxStages + 1
    BY <2>1, <2>3
  <2> QED
    BY <2>1, <2>2, <2>4 DEF n, k
<1>4. WholeChain(D, dest, w, N, strict)
  OBVIOUS
<1>5. T /\ ~N
  OBVIOUS
<1>6. P(0)
  OBVIOUS
<1>7. ASSUME NEW i \in Nat, P(i) PROVE P(i + 1)
  <2> SUFFICES ASSUME i + 1 \in 1..Len(c) PROVE i + 1 <= Len(w) /\ c[i + 1] = w[i + 1]
    OBVIOUS
  <2>1. CASE i = 0
    BY <1>3, <2>1
  <2>2. CASE i # 0
    <3>1. i \in 1..Len(c) /\ i \in 1..(Len(c) - 1) /\ i <= Len(w) /\ c[i] = w[i] /\ i \in 1..Len(w)
      <4> DEFINE n == Len(c)
                 k == Len(w)
      <4>1. n \in Nat /\ k \in Nat /\ i + 1 \in 1..n
        BY <1>3
      <4> HIDE DEF n, k
      <4>2. i \in 1..n /\ i \in 1..(n - 1)
        BY <2>2, <4>1
      <4>3. i <= k /\ c[i] = w[i]
        BY <1>7, <4>2 DEF n, k
      <4>4. i \in 1..k
        BY <2>2, <4>1, <4>3
      <4> QED
        BY <4>2, <4>3, <4>4 DEF n, k
    <3>2. /\ c[i + 1] \in ToSet(Direct(D, c[i])) /\ c[i] \in OwnDrivers(D, c[i + 1])
          /\ Fits(D, dest, c[i], c[i + 1], T, strict)
          /\ c[i] \in Registers(D.g) /\ c[i + 1] \in Registers(D.g)
      BY <1>2, <2>2, <3>1 DEF Linked
    <3>3. Fits(D, dest, c[i], c[i + 1], N, strict)
      BY <1>5, <3>2 DEF Fits
    <3>4. Fitting(D, dest, w[i], N, strict) # <<>>
      <4>1. c[i] \in Nat
        BY <1>0, <3>2
      <4>2. \A s : s \in ToSet(Fitting(D, dest, c[i], N, strict)) <=>
              s \in ToSet(Direct(D, c[i])) /\ Fits(D, dest, c[i], s, N, strict)
        BY <4>1, FittingFacts
      <4>3. c[i + 1] \in ToSet(Fitting(D, dest, c[i], N, strict))
        BY <3>2, <3>3, <4>2
      <4>4. ToSet(<<>>) = {}
        BY DEF ToSet
      <4> HIDE DEF Fitting
      <4> QED
        BY <3>1, <4>3, <4>4
    <3>5. i + 1 <= Len(w)
      <4> SUFFICES ASSUME Len(w) = i PROVE FALSE
        BY <1>3, <3>1
      <4>1. Len(w) <= MaxStages
        BY <1>3, <3>1
      <4> QED
        BY <1>4, <3>4, <4>1 DEF WholeChain
    <3>6. i \in 1..(Len(w) - 1)
      BY <1>3, <3>1, <3>5
    <3>7. w[i + 1] \in OwnDriven(D, w[i]) /\ w[i + 1] \in Registers(D.g)
      <4>1. w[i] \in Registers(D.g) /\ w[i + 1] \in Registers(D.g) /\ w[i] \in OwnDrivers(D, w[i + 1])
        BY <1>1, <1>3, <3>1, <3>6 DEF Linked
      <4> QED
        BY <4>1, OwnFacts
    <3>8. c[i + 1] \in OwnDriven(D, c[i])
      BY <3>2, OwnFacts
    <3>9. OwnDriven(D, w[i]) = {w[i + 1]}
      <4>1. ValidateStageFanout(D, w[i])
        BY <3>6 DEF WarnsOn
      <4>2. {s \in ToSet(Direct(D, w[i])) : Clock(D, s) = Clock(D, w[i])} = OwnDriven(D, w[i])
            /\ IsFiniteSet(OwnDriven(D, w[i]))
        BY <3>1, <3>2, OwnFacts
      <4>3. Cardinality(OwnDriven(D, w[i])) <= 1
        BY <4>1, <4>2 DEF ValidateStageFanout
      <4> QED
        BY <3>7, <4>2, <4>3, AtMostOne
    <3> QED
      BY <3>1, <3>5, <3>8, <3>9
  <2> QED
    BY <2>1, <2>2
<1>8. \A i \in Nat : P(i)
  <2> DEFINE S == {i \in Nat : P(i)}
  <2> HIDE DEF P
  <2>1. 0 \in S /\ \A n \in Nat : n \in S => n + 1 \in S
    BY <1>6, <1>7
  <2> QED
    BY <2>1, NatInd
<1> QED
  BY <1>3, <1>8 DEF Begins

-----------------------------------------------------------------------------
(* Designs that differ in nothing the crossing analysis reads.             *)

AlikeAt(a, b) ==
  /\ a.width = b.width /\ a.packed = b.packed
  /\ a.reset = b.reset /\ a.async = b.async /\ a.pol = b.pol
  /\ a.root = b.root /\ a.gated = b.gated /\ a.muxed = b.muxed
  /\ a.safe_box = b.safe_box

Alike(D, E) ==
  /\ E.g = D.g
  /\ \A id \in NodeIds(D.g) : AlikeAt(E.at[id], D.at[id])
  /\ E.false_paths = D.false_paths /\ E.multicycle = D.multicycle
  /\ E.suppress = D.suppress /\ E.proven = D.proven
  /\ E.min_stages = D.min_stages /\ E.require_reset = D.require_reset
  /\ E.check_same_clock = D.check_same_clock
  /\ E.detect_synchronizer = D.detect_synchronizer
  /\ E.max_hops = D.max_hops

LEMMA RegistersAreNodes ==
  ASSUME NEW V, NEW h \in SoundGraphs(V)
  PROVE  Registers(h) \subseteq NodeIds(h) /\ NodeIds(h) \subseteq Nat
<1> DEFINE B == TRUE
<1>1. B \in BOOLEAN
  OBVIOUS
<1> HIDE DEF B
<1>2. Registers(h) \in SUBSET NodeIds(h) /\ NodeIds(h) \in SUBSET Nat
  BY <1>1, EndsFacts, InnerFacts
<1> QED
  BY <1>2

(* What depends on the graph alone. *)
LEMMA AlikeGraph ==
  ASSUME NEW D, NEW E, E.g = D.g
  PROVE  /\ \A id : Clock(E, id) = Clock(D, id)
         /\ \A id : Direct(E, id) = Direct(D, id) /\ DirectBack(E, id) = DirectBack(D, id)
         /\ \A id : OwnPreds(E, id) = OwnPreds(D, id) /\ CrossPreds(E, id) = CrossPreds(D, id)
         /\ \A id : ValidateStageFanout(E, id) <=> ValidateStageFanout(D, id)
<1>1. \A id : Clock(E, id) = Clock(D, id)
  BY DEF Clock
<1>2. \A id : Direct(E, id) = Direct(D, id) /\ DirectBack(E, id) = DirectBack(D, id)
  BY DEF Direct, DirectBack
<1>3. \A id : OwnPreds(E, id) = OwnPreds(D, id)
  BY <1>1, <1>2 DEF OwnPreds
<1>4. \A id : CrossPreds(E, id) = CrossPreds(D, id)
  BY <1>2, <1>3 DEF CrossPreds
<1>5. \A id : ValidateStageFanout(E, id) <=> ValidateStageFanout(D, id)
  BY <1>1, <1>2 DEF ValidateStageFanout
<1> QED
  BY <1>1, <1>2, <1>3, <1>4, <1>5

(* Domains, resets and chains of a register. *)
LEMMA AlikeNodes ==
  ASSUME NEW D, NEW E, Alike(D, E)
  PROVE  /\ \A a \in NodeIds(D.g) : Domain(E, a) = Domain(D, a)
         /\ \A a \in NodeIds(D.g) : HasDomain(E, a) <=> HasDomain(D, a)
         /\ \A a \in NodeIds(D.g), b \in NodeIds(D.g) : Crosses(E, a, b) <=> Crosses(D, a, b)
         /\ \A a \in NodeIds(D.g) : HasReset(E, a) <=> HasReset(D, a)
         /\ \A a \in NodeIds(D.g) : IsEntry(E, a) <=> IsEntry(D, a)
         /\ \A a \in NodeIds(D.g), b \in NodeIds(D.g) :
              ValidateStageReset(E, a, b) <=> ValidateStageReset(D, a, b)
<1>1. \A a \in NodeIds(D.g) : Domain(E, a) = Domain(D, a)
  BY AlikeGraph DEF Alike, AlikeAt, Domain
<1>2. \A a \in NodeIds(D.g) : HasDomain(E, a) <=> HasDomain(D, a)
  BY <1>1 DEF HasDomain
<1>3. \A a \in NodeIds(D.g), b \in NodeIds(D.g) : Crosses(E, a, b) <=> Crosses(D, a, b)
  BY <1>1, <1>2 DEF Crosses
<1>4. \A a \in NodeIds(D.g) : HasReset(E, a) <=> HasReset(D, a)
  BY DEF Alike, AlikeAt, HasReset
<1>5. \A a \in NodeIds(D.g) : IsEntry(E, a) <=> IsEntry(D, a)
  BY AlikeGraph DEF Alike, AlikeAt, IsEntry
<1>6. \A a \in NodeIds(D.g), b \in NodeIds(D.g) :
        ValidateStageReset(E, a, b) <=> ValidateStageReset(D, a, b)
  <2> SUFFICES ASSUME NEW a \in NodeIds(D.g), NEW b \in NodeIds(D.g)
               PROVE  ValidateStageReset(E, a, b) <=> ValidateStageReset(D, a, b)
    OBVIOUS
  <2>1. AlikeAt(E.at[a], D.at[a]) /\ AlikeAt(E.at[b], D.at[b])
    BY DEF Alike
  <2> QED
    BY <1>4, <2>1 DEF ValidateStageReset, AlikeAt
<1> QED
  BY <1>1, <1>2, <1>3, <1>4, <1>5, <1>6

(* Two chains that fit the same are the same. *)
LEMMA ChainUnique ==
  ASSUME NEW D, NEW E, NEW dest, NEW guarded, NEW strict,
         NEW c, WholeChain(D, dest, c, guarded, strict),
         NEW w, WholeChain(E, dest, w, guarded, strict),
         \A i \in 1..Len(c) : Fitting(E, dest, c[i], guarded, strict)
                                = Fitting(D, dest, c[i], guarded, strict)
  PROVE  w = c
<1> DEFINE n == Len(c)
           k == Len(w)
           fc(x) == Fitting(D, dest, x, guarded, strict)
           fw(x) == Fitting(E, dest, x, guarded, strict)
           M == MaxStages
           P(i) == i \in 1..n => i <= k /\ c[i] = w[i]
<1>1. M \in Nat
  BY DEF MaxStages
<1>2. /\ c \in Seq(Nat) /\ n \in 1..(M + 1) /\ c[1] = dest
      /\ \A i \in 1..(n - 1) : fc(c[i]) # <<>> /\ c[i + 1] = Head(fc(c[i]))
      /\ n <= M => fc(c[n]) = <<>>
  BY DEF WholeChain, StageWalk
<1>3. /\ w \in Seq(Nat) /\ k \in 1..(M + 1) /\ w[1] = dest
      /\ \A i \in 1..(k - 1) : fw(w[i]) # <<>> /\ w[i + 1] = Head(fw(w[i]))
      /\ k <= M => fw(w[k]) = <<>>
  BY DEF WholeChain, StageWalk
<1>4. \A i \in 1..n : fw(c[i]) = fc(c[i])
  OBVIOUS
<1> HIDE DEF n, k, fc, fw, M
<1>5. P(0)
  OBVIOUS
<1>6. ASSUME NEW i \in Nat, P(i) PROVE P(i + 1)
  <2> SUFFICES ASSUME i + 1 \in 1..n PROVE i + 1 <= k /\ c[i + 1] = w[i + 1]
    OBVIOUS
  <2>1. CASE i = 0
    BY <1>2, <1>3, <2>1
  <2>2. CASE i # 0
    <3>1. i \in 1..n /\ i \in 1..(n - 1) /\ i <= M
      BY <1>1, <1>2, <2>2
    <3>2. i <= k /\ c[i] = w[i]
      BY <1>6, <3>1
    <3>3. fw(w[i]) # <<>> /\ fw(w[i]) = fc(c[i])
      BY <1>2, <1>4, <3>1, <3>2
    <3>4. i + 1 <= k
      <4> SUFFICES ASSUME k = i PROVE FALSE
        BY <1>1, <1>3, <3>2
      <4> QED
        BY <1>3, <3>1, <3>3
    <3>5. i \in 1..(k - 1)
      BY <1>1, <1>3, <2>2, <3>4
    <3> QED
      BY <1>2, <1>3, <3>1, <3>3, <3>4, <3>5
  <2> QED
    BY <2>1, <2>2
<1>7. \A i \in Nat : P(i)
  <2> DEFINE S == {i \in Nat : P(i)}
  <2> HIDE DEF P
  <2>1. 0 \in S /\ \A i \in Nat : i \in S => i + 1 \in S
    BY <1>5, <1>6
  <2> QED
    BY <2>1, NatInd
<1>8. n <= k /\ \A i \in 1..n : c[i] = w[i]
  BY <1>1, <1>2, <1>3, <1>7
<1>9. n = k
  <2> SUFFICES ASSUME n < k PROVE FALSE
    BY <1>1, <1>2, <1>3, <1>8
  <2>1. n \in 1..n /\ n \in 1..(k - 1) /\ n <= M
    BY <1>1, <1>2, <1>3
  <2>2. c[n] = w[n] /\ fc(c[n]) = <<>>
    BY <1>2, <1>8, <2>1
  <2> QED
    BY <1>3, <1>4, <2>1, <2>2
<1> QED
  BY <1>2, <1>3, <1>8, <1>9, SeqEqual DEF n, k

LEMMA AlikeChain ==
  ASSUME NEW V, NEW D, NEW E, D.g \in SoundGraphs(V), Alike(D, E),
         NEW dest \in Registers(D.g), NEW guarded, NEW strict
  PROVE  Chain(E, dest, guarded, strict) = Chain(D, dest, guarded, strict)
<1> DEFINE c == Chain(D, dest, guarded, strict)
           w == Chain(E, dest, guarded, strict)
<1>1. E.g = D.g /\ dest \in Nat
  BY RegistersAreNodes DEF Alike
<1>2. WholeChain(D, dest, c, guarded, strict)
  BY <1>1, ChainIs
<1>3. WholeChain(E, dest, w, guarded, strict)
  <2>1. E.g \in SoundGraphs(V)
    BY <1>1
  <2> QED
    BY <1>1, <2>1, ChainIs
<1> HIDE DEF c, w
<1>4. Linked(D, dest, c, guarded, strict)
  BY <1>2, StagesLinked DEF WholeChain
<1>5. ASSUME NEW i \in 1..Len(c)
      PROVE  Fitting(E, dest, c[i], guarded, strict) = Fitting(D, dest, c[i], guarded, strict)
  <2>1. c[i] \in Registers(D.g)
    BY <1>4 DEF Linked
  <2>2. Direct(E, c[i]) = Direct(D, c[i]) /\ ToSet(Direct(D, c[i])) \subseteq NodeIds(D.g)
    <3>1. ToSet(Direct(D, c[i])) \subseteq Registers(D.g) \ {c[i]}
      BY <2>1, DirectFacts
    <3>2. Direct(E, c[i]) = Direct(D, c[i])
      BY <1>1, AlikeGraph
    <3> QED
      BY <3>1, <3>2, RegistersAreNodes
  <2>3. ASSUME NEW s \in ToSet(Direct(D, c[i]))
        PROVE  Fits(E, dest, c[i], s, guarded, strict) <=> Fits(D, dest, c[i], s, guarded, strict)
    <3>1. Clock(E, s) = Clock(D, s) /\ Clock(E, dest) = Clock(D, dest)
          /\ OwnPreds(E, s) = OwnPreds(D, s)
      BY <1>1, AlikeGraph
    <3>2. E.at[s].width = D.at[s].width
      BY <2>2 DEF Alike, AlikeAt
    <3> QED
      BY <3>1, <3>2 DEF Fits
  <2>4. {s \in ToSet(Direct(E, c[i])) : Fits(E, dest, c[i], s, guarded, strict)}
          = {s \in ToSet(Direct(D, c[i])) : Fits(D, dest, c[i], s, guarded, strict)}
    BY <2>2, <2>3
  <2> QED
    BY <2>2, <2>4 DEF Fitting
<1>6. w = c
  BY <1>2, <1>3, <1>5, ChainUnique
<1> QED
  BY <1>6 DEF c, w

-----------------------------------------------------------------------------
(* The graphs a frontend draws.                                            *)

(* The vocabulary of the graphs drawn over a sketch: a node is named by    *)
(* its place.                                                              *)
Drawn(s) ==
  [names |-> Nat, clocks |-> {s.nodes[i].clock : i \in DOMAIN s.nodes}, logics |-> {"Unknown"}]

(* A node of the sketch is inserted, or dropped at the limit. *)
LEMMA AddNodeSound ==
  ASSUME NEW V, V.names = Nat, "Unknown" \in V.logics,
         NEW h \in SoundGraphs(V), NEW node, node.kind \in Kinds, node.clock \in V.clocks
  PROVE  AddNode(h, node) \in SoundGraphs(V) /\ Accounted(h, AddNode(h, node))
<1> DEFINE name == Len(h.nodes) + 1
<1>1. name \in V.names
  BY GraphFields DEF SoundGraphs
<1> HIDE DEF name
<1>2. AddRegister(h, name, node.clock).graph \in SoundGraphs(V)
      /\ Accounted(h, AddRegister(h, name, node.clock).graph)
  BY <1>1, AddRegisterSound DEF Answer
<1>3. AddCombinational(h, name, "Unknown", <<>>).graph \in SoundGraphs(V)
      /\ Accounted(h, AddCombinational(h, name, "Unknown", <<>>).graph)
  BY <1>1, AddCombinationalSound, EmptySeq DEF Answer
<1>4. AddPlain(h, name, node.kind).graph \in SoundGraphs(V)
      /\ Accounted(h, AddPlain(h, name, node.kind).graph)
  BY <1>1, AddPlainSound DEF Answer
<1> QED
  BY <1>2, <1>3, <1>4 DEF AddNode, name

(* The ids of the first n nodes are places of the list. *)
Within(h, n) ==
  /\ \A id \in Ids(h) : id \in 1..n
  /\ h.next_id # 0 => h.next_id \in 1..(n + 1)

LEMMA AddNodeWithin ==
  ASSUME NEW V, NEW h \in SoundGraphs(V), NEW k \in SoundGraphs(V), Accounted(h, k),
         NEW n \in Nat, Within(h, n)
  PROVE  Within(k, n + 1)
<1>1. h.next_id \in Nat /\ h.next_id < IdModulus /\ IdModulus \in Nat
  BY IRGraphAssumption DEF SoundGraphs, GraphType, Sound, IdsInv
<1>2. \A id \in Ids(k) : id \in Ids(h) \/ (id = h.next_id /\ id # 0)
  BY DEF Accounted
<1>3. \A id \in Ids(k) : id \in 1..(n + 1)
  BY <1>2 DEF Within
<1>4. ASSUME k.next_id # 0 PROVE k.next_id \in 1..((n + 1) + 1)
  <2> DEFINE x == h.next_id
             M == IdModulus
  <2>1. x \in 0..(M - 1) /\ M \in Nat /\ (x # 0 => x \in 1..(n + 1))
    BY <1>1 DEF Within
  <2>2. k.next_id = x \/ k.next_id = (x + 1) % M
    BY DEF Accounted
  <2> HIDE DEF x, M
  <2>3. (x + 1) % M = IF x + 1 = M THEN 0 ELSE x + 1
    BY <2>1, NextId
  <2> QED
    BY <1>4, <2>1, <2>2, <2>3
<1> QED
  BY <1>3, <1>4 DEF Within

LEMMA PlacedSound ==
  ASSUME NEW V, V.names = Nat, "Unknown" \in V.logics,
         NEW nodes, Len(nodes) \in Nat, DOMAIN nodes = 1..Len(nodes),
         \A i \in DOMAIN nodes : nodes[i].kind \in Kinds /\ nodes[i].clock \in V.clocks
  PROVE  Placed(nodes) \in SoundGraphs(V) /\ NodeIds(Placed(nodes)) \subseteq DOMAIN nodes
<1> DEFINE S == SoundGraphs(V)
           N == Len(nodes)
           step == [p \in S \X (1..N) |-> AddNode(p[1], nodes[p[2]])]
<1>1. EmptyGraph \in S
  BY EmptySound
<1>2. ASSUME NEW h \in S, NEW n \in 1..N PROVE AddNode(h, nodes[n]) \in S /\ Accounted(h, AddNode(h, nodes[n]))
  BY AddNodeSound
<1> HIDE DEF S
<1>3. N \in Nat /\ step \in [S \X (1..N) -> S]
  BY <1>2
<1>4. \A h \in S, n \in 1..N : step[<<h, n>>] = AddNode(h, nodes[n])
  OBVIOUS
<1> HIDE DEF N, step
<1>5. PICK w \in [0..N -> S] : Recursion(w, EmptyGraph, step, N)
  BY <1>1, <1>3, RecFcn
<1>6. \A n \in 1..N : w[n] = AddNode(w[n - 1], nodes[n])
  <2> SUFFICES ASSUME NEW n \in 1..N PROVE w[n] = AddNode(w[n - 1], nodes[n])
    OBVIOUS
  <2>1. w[n - 1] \in S
    BY <1>3, <1>5
  <2> QED
    BY <1>4, <1>5, <2>1 DEF Recursion
<1>7. w[0] = EmptyGraph
  BY <1>5 DEF Recursion
<1> DEFINE Turn(f, n) == IF n = 0 THEN EmptyGraph ELSE AddNode(f[n - 1], nodes[n])
           Solves(f) == f = [n \in 0..N |-> Turn(f, n)]
           placed == CHOOSE f : Solves(f)
<1>8. Solves(w)
  <2>1. ASSUME NEW n \in 0..N PROVE w[n] = Turn(w, n)
    <3>1. CASE n = 0
      BY <1>7, <3>1
    <3>2. CASE n # 0
      <4>1. n \in 1..N
        BY <1>3, <3>2
      <4> QED
        BY <1>6, <3>2, <4>1
    <3> QED
      BY <3>1, <3>2
  <2> HIDE DEF Turn
  <2> QED
    BY <2>1
<1>9. Solves(placed)
  BY <1>8
<1>10. Placed(nodes) = placed[N]
  BY DEF Placed, N
<1> HIDE DEF placed
<1>11. \A n \in 0..N : placed[n] = Turn(placed, n)
  <2> HIDE DEF Turn
  <2> QED
    BY <1>9
<1> DEFINE Good == {n \in Nat : n <= N => placed[n] \in S /\ Within(placed[n], n)}
<1>12. 0 \in Good
  <2>1. EmptyGraph.nodes = <<>> /\ EmptyGraph.next_id = 1 /\ Len(<<>>) = 0
    BY EmptySeq DEF EmptyGraph
  <2>2. Within(EmptyGraph, 0)
    BY <2>1 DEF Within, Ids
  <2>3. placed[0] = EmptyGraph
    BY <1>3, <1>11
  <2> QED
    BY <1>1, <2>2, <2>3
<1>13. ASSUME NEW n \in Nat, n \in Good PROVE n + 1 \in Good
  <2> SUFFICES ASSUME n + 1 <= N PROVE placed[n + 1] \in S /\ Within(placed[n + 1], n + 1)
    OBVIOUS
  <2>1. n + 1 \in 0..N /\ n + 1 \in 1..N /\ n + 1 # 0 /\ (n + 1) - 1 = n /\ placed[n] \in S
        /\ Within(placed[n], n)
    BY <1>3, <1>13
  <2>2. placed[n + 1] = AddNode(placed[n], nodes[n + 1])
    BY <1>11, <2>1
  <2>3. placed[n + 1] \in S /\ Accounted(placed[n], placed[n + 1])
    BY <1>2, <2>1, <2>2 DEF N
  <2> QED
    BY <1>13, <2>1, <2>3, AddNodeWithin DEF S
<1>14. Nat \subseteq Good
  <2> HIDE DEF Good
  <2> QED
    BY <1>12, <1>13, NatInd
<1>15. placed[N] \in S /\ Within(placed[N], N)
  BY <1>3, <1>14
<1>16. NodeIds(placed[N]) = Ids(placed[N])
  BY <1>15, GraphFields DEF S, SoundGraphs
<1> QED
  BY <1>10, <1>15, <1>16 DEF S, Within, N

LEMMA ConnectedSound ==
  ASSUME NEW V, NEW h \in SoundGraphs(V), NEW edges \in Seq(Nat \X Nat)
  PROVE  Connected(h, edges) \in SoundGraphs(V) /\ NodeIds(Connected(h, edges)) = NodeIds(h)
<1> DEFINE S == {k \in SoundGraphs(V) : k.nodes = h.nodes}
           N == Len(edges)
           step == [p \in S \X (1..N) |-> AddEdge(p[1], edges[p[2]][1], edges[p[2]][2])]
<1>1. \A n \in 1..N : edges[n][1] \in Nat /\ edges[n][2] \in Nat
  <2>1. \A n \in 1..N : edges[n] \in Nat \X Nat
    BY ElementOfSeq
  <2> QED
    BY <2>1
<1>2. ASSUME NEW k \in S, NEW n \in 1..N PROVE AddEdge(k, edges[n][1], edges[n][2]) \in S
  BY <1>1, AddEdgeSound DEF Wired
<1> HIDE DEF S
<1>3. N \in Nat /\ step \in [S \X (1..N) -> S] /\ h \in S
  BY <1>2, LenProperties DEF S
<1>4. \A k \in S, n \in 1..N : step[<<k, n>>] = AddEdge(k, edges[n][1], edges[n][2])
  OBVIOUS
<1> HIDE DEF N, step
<1>5. PICK w \in [0..N -> S] : Recursion(w, h, step, N)
  BY <1>3, RecFcn
<1>6. \A n \in 1..N : w[n] = AddEdge(w[n - 1], edges[n][1], edges[n][2])
  <2> SUFFICES ASSUME NEW n \in 1..N
               PROVE  w[n] = AddEdge(w[n - 1], edges[n][1], edges[n][2])
    OBVIOUS
  <2>1. w[n - 1] \in S
    BY <1>3, <1>5
  <2> QED
    BY <1>4, <1>5, <2>1 DEF Recursion
<1>7. w[0] = h
  BY <1>5 DEF Recursion
<1> DEFINE Turn(f, n) == IF n = 0 THEN h ELSE AddEdge(f[n - 1], edges[n][1], edges[n][2])
           Solves(f) == f = [n \in 0..N |-> Turn(f, n)]
           joined == CHOOSE f : Solves(f)
<1>8. Solves(w)
  <2>1. ASSUME NEW n \in 0..N PROVE w[n] = Turn(w, n)
    <3>1. CASE n = 0
      BY <1>7, <3>1
    <3>2. CASE n # 0
      <4>1. n \in 1..N
        BY <1>3, <3>2
      <4> QED
        BY <1>6, <3>2, <4>1
    <3> QED
      BY <3>1, <3>2
  <2> HIDE DEF Turn
  <2> QED
    BY <2>1
<1>9. Solves(joined)
  BY <1>8
<1>10. Connected(h, edges) = joined[N]
  BY DEF Connected, N
<1> HIDE DEF joined
<1>11. \A n \in 0..N : joined[n] = Turn(joined, n)
  <2> HIDE DEF Turn
  <2> QED
    BY <1>9
<1> DEFINE Good == {n \in Nat : n <= N => joined[n] \in S}
<1>12. 0 \in Good
  BY <1>3, <1>11
<1>13. ASSUME NEW n \in Nat, n \in Good PROVE n + 1 \in Good
  <2> SUFFICES ASSUME n + 1 <= N PROVE joined[n + 1] \in S
    OBVIOUS
  <2>1. n + 1 \in 0..N /\ n + 1 \in 1..N /\ n + 1 # 0 /\ (n + 1) - 1 = n /\ joined[n] \in S
    BY <1>3, <1>13
  <2>2. joined[n + 1] = AddEdge(joined[n], edges[n + 1][1], edges[n + 1][2])
    BY <1>11, <2>1
  <2> QED
    BY <1>2, <2>1, <2>2 DEF N
<1>14. Nat \subseteq Good
  <2> HIDE DEF Good
  <2> QED
    BY <1>12, <1>13, NatInd
<1>15. joined[N] \in S
  BY <1>3, <1>14
<1> QED
  BY <1>10, <1>15 DEF S, NodeIds

LEMMA AlikePattern ==
  ASSUME NEW V, NEW D, NEW E, D.g \in SoundGraphs(V), Alike(D, E),
         NEW dst \in Registers(D.g), NEW strict
  PROVE  FindPatternForDest(E, dst, strict) = FindPatternForDest(D, dst, strict)
<1> DEFINE T == TRUE
           N == FALSE
<1>1. /\ Chain(E, dst, T, strict) = Chain(D, dst, T, strict)
      /\ Chain(E, dst, N, strict) = Chain(D, dst, N, strict)
      /\ Chain(E, dst, N, N) = Chain(D, dst, N, N)
  <2> HIDE DEF T, N
  <2>1. \A a, b : Chain(E, dst, a, b) = Chain(D, dst, a, b)
    BY AlikeChain
  <2> QED
    BY <2>1
<1>2. E.g = D.g /\ dst \in NodeIds(D.g) /\ AlikeAt(E.at[dst], D.at[dst])
  BY RegistersAreNodes DEF Alike
<1>3. IsEntry(E, dst) <=> IsEntry(D, dst)
  BY <1>2, AlikeNodes
<1>4. OwnPreds(E, dst) = OwnPreds(D, dst)
  BY <1>2, AlikeGraph
<1> QED
  BY <1>1, <1>2, <1>3, <1>4 DEF FindPatternForDest, AlikeAt

LEMMA AlikeDepth ==
  ASSUME NEW V, NEW D, NEW E, D.g \in SoundGraphs(V), Alike(D, E),
         NEW dst \in Registers(D.g)
  PROVE  ChainDepth(E, dst) = ChainDepth(D, dst)
<1> DEFINE T == TRUE
           N == FALSE
<1>1. Chain(E, dst, N, N) = Chain(D, dst, N, N)
  <2> HIDE DEF T, N
  <2>1. \A a, b : Chain(E, dst, a, b) = Chain(D, dst, a, b)
    BY AlikeChain
  <2> QED
    BY <2>1
<1>2. E.g = D.g /\ dst \in NodeIds(D.g) /\ AlikeAt(E.at[dst], D.at[dst])
  BY RegistersAreNodes DEF Alike
<1>3. IsEntry(E, dst) <=> IsEntry(D, dst)
  BY <1>2, AlikeNodes
<1>4. OwnPreds(E, dst) = OwnPreds(D, dst)
  BY <1>2, AlikeGraph
<1> QED
  BY <1>1, <1>2, <1>3 DEF ChainDepth, AlikeAt

LEMMA AlikeWarnings ==
  ASSUME NEW V, NEW D, NEW E, D.g \in SoundGraphs(V), Alike(D, E),
         NEW dst \in Registers(D.g), NEW strict
  PROVE  HasChainWarnings(E, dst, strict) <=> HasChainWarnings(D, dst, strict)
<1> DEFINE T == TRUE
           N == FALSE
<1>1. /\ Chain(E, dst, T, strict) = Chain(D, dst, T, strict)
      /\ Chain(E, dst, N, strict) = Chain(D, dst, N, strict)
      /\ Chain(E, dst, N, N) = Chain(D, dst, N, N)
  <2> HIDE DEF T, N
  <2>1. \A a, b : Chain(E, dst, a, b) = Chain(D, dst, a, b)
    BY AlikeChain
  <2> QED
    BY <2>1
<1>2. E.g = D.g /\ dst \in NodeIds(D.g) /\ AlikeAt(E.at[dst], D.at[dst])
  BY RegistersAreNodes DEF Alike
<1>7. HasChainWarnings(E, dst, strict) <=> HasChainWarnings(D, dst, strict)
  <2> DEFINE c == Chain(D, dst, N, strict)
  <2>1. HasChainWarnings(E, dst, strict) = WarnsOn(E, c)
        /\ HasChainWarnings(D, dst, strict) = WarnsOn(D, c)
    BY <1>1 DEF HasChainWarnings
  <2>2. \A i \in 1..Len(c) : c[i] \in NodeIds(D.g)
    <3> HIDE DEF N
    <3>1. dst \in Nat
      BY RegistersAreNodes
    <3>2. WholeChain(D, dst, c, N, strict)
      BY <3>1, ChainIs
    <3>3. Linked(D, dst, c, N, strict)
      BY <3>2, StagesLinked DEF WholeChain
    <3> HIDE DEF c
    <3> QED
      BY <3>3, RegistersAreNodes DEF Linked
  <2>3. Len(c) \in Nat
    <3> HIDE DEF N
    <3>1. dst \in Nat
      BY RegistersAreNodes
    <3>2. WholeChain(D, dst, c, N, strict)
      BY <3>1, ChainIs
    <3> HIDE DEF c
    <3> QED
      BY <3>2, LenProperties DEF WholeChain, StageWalk
  <2> HIDE DEF c, N
  <2>4. ASSUME NEW i \in 1..(Len(c) - 1)
        PROVE  /\ ValidateStageReset(E, c[i + 1], c[i]) <=> ValidateStageReset(D, c[i + 1], c[i])
               /\ ValidateStageFanout(E, c[i]) <=> ValidateStageFanout(D, c[i])
    <3>1. i \in 1..Len(c) /\ i + 1 \in 1..Len(c)
      BY <2>3
    <3>2. c[i] \in NodeIds(D.g) /\ c[i + 1] \in NodeIds(D.g)
      BY <2>2, <3>1
    <3> QED
      BY <1>2, <3>2, AlikeNodes, AlikeGraph
  <2>5. WarnsOn(E, c) <=> WarnsOn(D, c)
    BY <2>4 DEF WarnsOn
  <2> QED
    BY <2>1, <2>5
<1> QED
  BY <1>7

LEMMA AlikeJudged ==
  ASSUME NEW V, NEW D, NEW E, D.g \in SoundGraphs(V), Alike(D, E),
         NEW src \in Registers(D.g), NEW dst \in Registers(D.g), NEW path
  PROVE  Judged(E, src, dst, path) = Judged(D, src, dst, path)
<1> DEFINE T == TRUE
<1>1. /\ FindPatternForDest(E, dst, T) = FindPatternForDest(D, dst, T)
      /\ HasChainWarnings(E, dst, T) <=> HasChainWarnings(D, dst, T)
      /\ ChainDepth(E, dst) = ChainDepth(D, dst)
  <2> HIDE DEF T
  <2> QED
    BY AlikePattern, AlikeWarnings, AlikeDepth
<1>2. E.min_stages = D.min_stages /\ E.require_reset = D.require_reset /\ E.proven = D.proven
  BY DEF Alike
<1>3. BelowMinStages(E, dst, E.min_stages) <=> BelowMinStages(D, dst, D.min_stages)
  BY <1>1, <1>2 DEF BelowMinStages
<1>4. Judged(E, src, dst, path) = Judged(D, src, dst, path)
  BY <1>1, <1>3 DEF Judged
<1> QED
  BY <1>4

LEMMA AlikeCompanions ==
  ASSUME NEW V, NEW D, NEW E, D.g \in SoundGraphs(V), Alike(D, E),
         NEW src \in Registers(D.g), NEW dst \in Registers(D.g), NEW path
  PROVE  Companions(E, src, dst, path) = Companions(D, src, dst, path)
<1>2. E.min_stages = D.min_stages /\ E.require_reset = D.require_reset /\ E.proven = D.proven
  BY DEF Alike
<1>5. \A e \in {src, dst} : /\ AlikeAt(E.at[e], D.at[e])
                            /\ HasReset(E, e) <=> HasReset(D, e)
  <2>1. {src, dst} \subseteq NodeIds(D.g)
    BY RegistersAreNodes
  <2> QED
    BY <2>1, AlikeNodes DEF Alike
<1>6. Companions(E, src, dst, path) = Companions(D, src, dst, path)
  <2> DEFINE F(rule, severity) == Finding(rule, severity, src, dst, path, "Unknown")
             ends == {src, dst}
             bareD == {id \in ends : ~HasReset(D, id)}
             bareE == {id \in ends : ~HasReset(E, id)}
             wideD == IF D.at[src].width > 1 /\ <<src, dst>> \notin D.proven
                      THEN {F("CDC002", "error")} ELSE {}
             wideE == IF E.at[src].width > 1 /\ <<src, dst>> \notin E.proven
                      THEN {F("CDC002", "error")} ELSE {}
             gatedD == {F("CDC004", "warning") : id \in {e \in ends : D.at[e].gated}}
             gatedE == {F("CDC004", "warning") : id \in {e \in ends : E.at[e].gated}}
             muxedD == {F("CDC005", "warning") : id \in {e \in bareD : D.at[e].muxed}}
             muxedE == {F("CDC005", "warning") : id \in {e \in bareE : E.at[e].muxed}}
             lostD == {F("CDC007", IF D.require_reset /\ bareD = ends THEN "warning" ELSE "info")
                         : id \in bareD}
             lostE == {F("CDC007", IF E.require_reset /\ bareE = ends THEN "warning" ELSE "info")
                         : id \in bareE}
  <2>1. Companions(D, src, dst, path) = wideD \cup gatedD \cup muxedD \cup lostD
    BY DEF Companions
  <2>2. Companions(E, src, dst, path) = wideE \cup gatedE \cup muxedE \cup lostE
    BY DEF Companions
  <2> HIDE DEF F
  <2>3. bareE = bareD
    BY <1>5
  <2>4. wideE = wideD
    BY <1>2, <1>5 DEF AlikeAt
  <2> HIDE DEF bareD, bareE, wideD, wideE
  <2>5. {e \in ends : D.at[e].gated} = {e \in ends : E.at[e].gated}
    BY <1>5 DEF AlikeAt
  <2>6. {e \in bareE : E.at[e].muxed} = {e \in bareD : D.at[e].muxed}
    <3>1. bareD \subseteq ends
      BY DEF bareD
    <3> QED
      BY <1>5, <2>3, <3>1 DEF AlikeAt
  <2>7. lostE = lostD
    BY <1>2, <2>3
  <2>8. gatedE = gatedD
    BY <2>5
  <2>9. muxedE = muxedD
    BY <2>6
  <2> HIDE DEF gatedD, gatedE, muxedD, muxedE, lostD, lostE
  <2> QED
    BY <2>1, <2>2, <2>4, <2>7, <2>8, <2>9
<1> QED
  BY <1>6

Arrives(h, path) == ToSet(path) \subseteq NodeIds(h) /\ Last(path) \in Registers(h)

LEMMA AlikeProcessPath ==
  ASSUME NEW V, NEW D, NEW E, D.g \in SoundGraphs(V), Alike(D, E),
         NEW src \in Registers(D.g), NEW path, Arrives(D.g, path)
  PROVE  ProcessPath(E, src, path) = ProcessPath(D, src, path)
<1> DEFINE dst == Last(path)
<1>0. dst \in Registers(D.g) /\ ToSet(path) \subseteq NodeIds(D.g)
  BY DEF Arrives
<1> HIDE DEF dst
<1>1. src \in NodeIds(D.g) /\ dst \in NodeIds(D.g)
  BY <1>0, RegistersAreNodes
<1>2. Domain(E, src) = Domain(D, src) /\ Domain(E, dst) = Domain(D, dst)
  BY <1>1, AlikeNodes
<1>3. IsFalsePath(E, src, dst, path) <=> IsFalsePath(D, src, dst, path)
  BY <1>2 DEF IsFalsePath, Alike
<1>4. IsPathThroughSafeBlackbox(E, path) <=> IsPathThroughSafeBlackbox(D, path)
  BY <1>0 DEF IsPathThroughSafeBlackbox, Alike, AlikeAt
<1>5. /\ Judged(E, src, dst, path) = Judged(D, src, dst, path)
      /\ Companions(E, src, dst, path) = Companions(D, src, dst, path)
  <2>1. Judged(E, src, dst, path) = Judged(D, src, dst, path)
    BY <1>0, AlikeJudged
  <2>2. Companions(E, src, dst, path) = Companions(D, src, dst, path)
    BY <1>0, AlikeCompanions
  <2> QED
    BY <2>1, <2>2
<1>6. E.multicycle = D.multicycle /\ E.suppress = D.suppress
  BY DEF Alike
<1> DEFINE j == Judged(D, src, dst, path)
           F(why, status) == Because(Finding("CDC001", "info", src, dst, path, status), why)
           many == <<Domain(D, src), Domain(D, dst)>> \in D.multicycle /\ D.suppress
           R == IF many THEN {[j EXCEPT !.severity = "info", !.status = "Ambiguous"]}
                ELSE {j} \cup Companions(D, src, dst, path)
<1>7. ProcessPath(D, src, path) =
        IF IsFalsePath(D, src, dst, path) THEN {F("false_path", "Ambiguous")}
        ELSE IF IsPathThroughSafeBlackbox(D, path) THEN {F("blackbox", "VerifiedSafe")}
        ELSE R
  BY DEF ProcessPath, dst
<1>8. ProcessPath(E, src, path) =
        IF IsFalsePath(E, src, dst, path) THEN {F("false_path", "Ambiguous")}
        ELSE IF IsPathThroughSafeBlackbox(E, path) THEN {F("blackbox", "VerifiedSafe")}
        ELSE R
  BY <1>2, <1>5, <1>6 DEF ProcessPath, dst
<1> HIDE DEF R, F
<1> QED
  BY <1>3, <1>4, <1>7, <1>8

(* What the graph alone decides. *)
ClockIn(h, id) == FindNode(h, id).clock_domain
DownstreamIn(h, id) ==
  {s \in ToSet(Successors(h, id)) \cup ToSet(RegisterSuccessors(h, id, FALSE)) :
     ClockIn(h, s) = ClockIn(h, id)}
SpreadIn(h, from) ==
  LET hops[n \in 0..MAX_PATH_DEPTH] ==
        IF n = 0 THEN from
        ELSE LET marked == hops[n - 1] IN
             marked \cup UNION {DownstreamIn(h, id) : id \in marked}
  IN hops[MAX_PATH_DEPTH]
FanoutSourcesIn(h) ==
  {src \in Registers(h) :
     LET succs == RegisterSuccessors(h, src, TRUE) IN
     /\ Len(succs) >= 2
     /\ \E s \in ToSet(succs) : ClockIn(h, s) # ClockIn(h, src)}
LogicDriven(h, chains) ==
  LET Logic(s) == \E p \in ToSet(Predecessors(h, s)) : KindOf(h, p) = "Combinational"
      Sources(stages, stage) ==
        LET Other(p) == ClockIn(h, p) # ClockIn(h, stage) IN
        SelectSeq(RegisterPredecessors(h, stages[1], TRUE), Other)
      FirstDriven(stages) ==
        {i \in 1..(MaxStages + 1) :
           /\ i \in DOMAIN stages /\ Logic(stages[i])
           /\ \A j \in 1..(i - 1) : ~Logic(stages[j])}
      Found(stages) ==
        {Finding("CDC006", "error", Head(Sources(stages, stages[i])), stages[i],
                 <<>>, "VerifiedUnsafe") : i \in FirstDriven(stages)}
  IN UNION {Found(c.stages) : c \in chains}

LEMMA GraphDecides ==
  ASSUME NEW D
  PROVE  /\ \A from : Spread(D, from) = SpreadIn(D.g, from)
         /\ FindFanoutSources(D) = FanoutSourcesIn(D.g)
         /\ \A id : Descendants(D, id) = Breadth(D.g, D.max_hops, id)
         /\ Cdc006(D) = LogicDriven(D.g, Match(D))
<1>1. \A from : Spread(D, from) = SpreadIn(D.g, from)
  BY DEF Spread, SpreadIn, Downstream, DownstreamIn, Clock, ClockIn, Direct
<1>2. FindFanoutSources(D) = FanoutSourcesIn(D.g)
  BY DEF FindFanoutSources, FanoutSourcesIn, Clock, ClockIn
<1>3. \A id : Descendants(D, id) = Breadth(D.g, D.max_hops, id)
  BY DEF Descendants
<1>4. Cdc006(D) = LogicDriven(D.g, Match(D))
  BY DEF Cdc006, LogicDriven, Clock, ClockIn
<1> QED
  BY <1>1, <1>2, <1>3, <1>4

(* Every path a search returns ends in a register. *)
LEMMA PathsArrive ==
  ASSUME NEW V, NEW h \in SoundGraphs(V), NEW src \in Registers(h)
  PROVE  /\ FindRegisterPaths(h, src, MaxPaths).paths \in Seq(Frames)
         /\ \A p \in ToSet(FindRegisterPaths(h, src, MaxPaths).paths) : Arrives(h, p.path)
<1> DEFINE r == FindRegisterPaths(h, src, MaxPaths)
<1>1. Answers(h, src, r)
  BY CrossingAssumption, SearchExact
<1> HIDE DEF r
<1>2. r.paths \in Seq(Frames)
      /\ \A p \in ToSet(r.paths) : Complete(h, p.path) /\ GoodFrame(h, p)
  BY <1>1 DEF Answers, Results
<1>3. ASSUME NEW p \in ToSet(r.paths) PROVE Arrives(h, p.path)
  <2>1. p \in Frames
    BY <1>2, SetOfSeq
  <2>2. p.path \in Seq(Nat) /\ p.path # <<>> /\ ToSet(p.path) \subseteq NodeIds(h)
        /\ IsRegister(h, Last(p.path))
    BY <1>2, <2>1 DEF Frames, GoodFrame, Complete
  <2>3. Last(p.path) \in ToSet(p.path)
    BY <2>2, FrontLast
  <2> QED
    BY <2>2, <2>3 DEF Registers, Arrives
<1> QED
  BY <1>2, <1>3 DEF r

LEMMA AlikeProcessRegister ==
  ASSUME NEW V, NEW D, NEW E, D.g \in SoundGraphs(V), Alike(D, E),
         NEW src \in Registers(D.g)
  PROVE  ProcessRegister(E, src) = ProcessRegister(D, src)
<1> DEFINE found == FindRegisterPaths(D.g, src, MaxPaths)
           paths == found.paths
           cut == Finding("CDC010", "warning", src, NoId, <<>>, "Ambiguous")
<1>1. paths \in Seq(Frames) /\ \A p \in ToSet(paths) : Arrives(D.g, p.path)
  BY PathsArrive
<1>2. E.g = D.g /\ src \in NodeIds(D.g) /\ Registers(D.g) \subseteq NodeIds(D.g)
  BY RegistersAreNodes DEF Alike
<1>3. /\ ProcessRegister(D, src) =
           IF ~HasDomain(D, src) THEN {}
           ELSE (UNION {ProcessPath(D, src, path) : path \in CrossingPaths(D, src, paths)})
                \cup (IF found.truncated THEN {cut} ELSE {})
      /\ ProcessRegister(E, src) =
           IF ~HasDomain(E, src) THEN {}
           ELSE (UNION {ProcessPath(E, src, path) : path \in CrossingPaths(E, src, paths)})
                \cup (IF found.truncated THEN {cut} ELSE {})
  BY <1>2 DEF ProcessRegister
<1>4. HasDomain(E, src) <=> HasDomain(D, src)
  BY <1>2, AlikeNodes
<1> DEFINE end(i) == Last(paths[i].path)
           inD == {i \in 1..MaxPaths : i \in DOMAIN paths /\ Crosses(D, src, end(i))}
           inE == {i \in 1..MaxPaths : i \in DOMAIN paths /\ Crosses(E, src, end(i))}
<1> HIDE DEF found, cut
<1>5. inE = inD
  <2>1. ASSUME NEW i \in DOMAIN paths PROVE end(i) \in Registers(D.g)
    <3>1. paths[i] \in ToSet(paths)
      BY <1>1, SetOfSeq
    <3> QED
      BY <1>1, <3>1 DEF Arrives
  <2> HIDE DEF paths, end
  <2>2. \A i \in DOMAIN paths : Crosses(E, src, end(i)) <=> Crosses(D, src, end(i))
    BY <1>2, <2>1, AlikeNodes
  <2> QED
    BY <2>2
<1>6. CrossingPaths(E, src, paths) = CrossingPaths(D, src, paths)
  <2>1. /\ CrossingPaths(D, src, paths) =
             {paths[i].path : i \in {i \in inD : \A j \in inD : end(j) = end(i) => i <= j}}
        /\ CrossingPaths(E, src, paths) =
             {paths[i].path : i \in {i \in inE : \A j \in inE : end(j) = end(i) => i <= j}}
    BY DEF CrossingPaths
  <2> HIDE DEF inD, inE, paths, end
  <2> QED
    BY <1>5, <2>1
<1>7. ASSUME NEW path \in CrossingPaths(D, src, paths)
      PROVE  ProcessPath(E, src, path) = ProcessPath(D, src, path)
  <2>1. PICK i \in inD : path = paths[i].path
    BY DEF CrossingPaths
  <2>2. paths[i] \in ToSet(paths)
    BY <1>1, <2>1, SetOfSeq
  <2>3. Arrives(D.g, path)
    BY <1>1, <2>1, <2>2
  <2> QED
    BY <2>3, AlikeProcessPath
<1> HIDE DEF paths
<1>8. {ProcessPath(E, src, path) : path \in CrossingPaths(D, src, paths)}
        = {ProcessPath(D, src, path) : path \in CrossingPaths(D, src, paths)}
  BY <1>7
<1> QED
  BY <1>3, <1>4, <1>6, <1>8

LEMMA AlikeDaisyChains ==
  ASSUME NEW V, NEW D, NEW E, D.g \in SoundGraphs(V), Alike(D, E)
  PROVE  DaisyChains(E) = DaisyChains(D)
<1> DEFINE R == Registers(D.g)
           T == TRUE
           nextD == LineSteps(D)
           nextE == LineSteps(E)
           domD == [id \in R |-> Domain(D, id)]
           domE == [id \in R |-> Domain(E, id)]
<1>1. E.g = D.g /\ R \subseteq NodeIds(D.g)
  BY RegistersAreNodes DEF Alike
<1>2. /\ \A id \in R : Domain(E, id) = Domain(D, id)
      /\ \A id \in R : HasDomain(E, id) <=> HasDomain(D, id)
      /\ \A a, b \in R : Crosses(E, a, b) <=> Crosses(D, a, b)
  BY <1>1, AlikeNodes
<1>3. nextE = nextD
  <2>1. ASSUME NEW id \in R
        PROVE  {s \in ToSet(RegisterSuccessors(D.g, id, T)) : HasDomain(E, s)}
                 = {s \in ToSet(RegisterSuccessors(D.g, id, T)) : HasDomain(D, s)}
    <3>1. T \in BOOLEAN
      OBVIOUS
    <3> HIDE DEF T
    <3>2. \A b : b \in ToSet(RegisterSuccessors(D.g, id, T)) => b \in R
      BY <3>1, WalkSets
    <3> QED
      BY <1>2, <3>2
  <2>2. /\ nextD = [id \in R |-> {s \in ToSet(RegisterSuccessors(D.g, id, T)) : HasDomain(D, s)}]
        /\ nextE = [id \in R |-> {s \in ToSet(RegisterSuccessors(D.g, id, T)) : HasDomain(E, s)}]
    BY <1>1 DEF LineSteps
  <2> HIDE DEF T, R, nextD, nextE
  <2> QED
    BY <2>1, <2>2
<1>4. domE = domD
  BY <1>2
<1>5. ASSUME NEW src \in R PROVE IsLineStart(E, src) <=> IsLineStart(D, src)
  <2>1. DirectBack(E, src) = DirectBack(D, src) /\ ToSet(DirectBack(D, src)) \subseteq R
    <3>1. DirectBack(E, src) = DirectBack(D, src)
      BY <1>1, AlikeGraph
    <3>2. ToSet(DirectBack(D, src)) \subseteq R \ {src}
      BY DirectFacts
    <3> QED
      BY <3>1, <3>2
  <2> QED
    BY <1>2, <2>1 DEF IsLineStart
<1> DEFINE Long(next, domain, src) ==
             \E line \in Lines(next, src) : Cardinality({domain[id] : id \in ToSet(line)}) >= 3
           Told(src) == Finding("CDC008", "warning", src, NoId, <<>>, "Candidate")
<1>6. /\ DaisyChains(D) = {Told(src) : src \in {s \in R : IsLineStart(D, s) /\ Long(nextD, domD, s)}}
      /\ DaisyChains(E) = {Told(src) : src \in {s \in R : IsLineStart(E, s) /\ Long(nextE, domE, s)}}
  <2>1. DaisyChains(D) = {Told(src) : src \in {s \in R : IsLineStart(D, s) /\ Long(nextD, domD, s)}}
    BY DEF DaisyChains
  <2>2. DaisyChains(E) = {Told(src) : src \in {s \in R : IsLineStart(E, s) /\ Long(nextE, domE, s)}}
    <3>1. Registers(E.g) = R
      BY <1>1
    <3> HIDE DEF R
    <3> QED
      BY <3>1 DEF DaisyChains
  <2> QED
    BY <2>1, <2>2
<1> HIDE DEF R, nextD, nextE, domD, domE, Told, Long
<1> QED
  BY <1>3, <1>4, <1>5, <1>6

LEMMA AlikeAnalyze ==
  ASSUME NEW V, NEW D, NEW E, D.g \in SoundGraphs(V), Alike(D, E)
  PROVE  Analyze(E) = Analyze(D)
<1>1. E.g = D.g
  BY DEF Alike
<1>2. \A src \in Registers(D.g) : ProcessRegister(E, src) = ProcessRegister(D, src)
  BY AlikeProcessRegister
<1>3. DaisyChains(E) = DaisyChains(D)
  BY AlikeDaisyChains
<1>4. {ProcessRegister(E, src) : src \in Registers(D.g)}
        = {ProcessRegister(D, src) : src \in Registers(D.g)}
  BY <1>2
<1> QED
  BY <1>1, <1>3, <1>4 DEF Analyze

LEMMA AlikeMatch ==
  ASSUME NEW V, NEW D, NEW E, D.g \in SoundGraphs(V), Alike(D, E)
  PROVE  Match(E) = Match(D)
<1> DEFINE R == Registers(D.g)
           T == TRUE
           N == FALSE
           OfD(d) == {[source |-> p, stages |-> Chain(D, d, N, T)] : p \in R \cap CrossPreds(D, d)}
           OfE(d) == {[source |-> p, stages |-> Chain(E, d, N, T)] : p \in R \cap CrossPreds(E, d)}
           onD == {d \in R : FindPatternForDest(D, d, T) # "None"}
           onE == {d \in R : FindPatternForDest(E, d, T) # "None"}
<1>1. E.g = D.g
  BY DEF Alike
<1>2. Match(D) = UNION {OfD(d) : d \in onD} /\ Match(E) = UNION {OfE(d) : d \in onE}
  <2>1. Match(D) = UNION {OfD(d) : d \in onD}
    BY DEF Match
  <2>2. Match(E) = UNION {OfE(d) : d \in onE}
    <3>1. Registers(E.g) = R
      BY <1>1
    <3> HIDE DEF R
    <3> QED
      BY <3>1 DEF Match
  <2> QED
    BY <2>1, <2>2
<1> HIDE DEF T, N
<1>3. \A d \in R : FindPatternForDest(E, d, T) = FindPatternForDest(D, d, T)
  BY AlikePattern
<1>4. \A d \in R : Chain(E, d, N, T) = Chain(D, d, N, T)
  BY AlikeChain
<1>5. \A d : CrossPreds(E, d) = CrossPreds(D, d)
  BY <1>1, AlikeGraph
<1>6. onE = onD
  BY <1>3
<1>7. \A d \in R : OfE(d) = OfD(d)
  BY <1>4, <1>5
<1>8. onD \subseteq R
  OBVIOUS
<1> HIDE DEF R, OfD, OfE, onD, onE
<1> QED
  BY <1>2, <1>6, <1>7, <1>8

LEMMA AlikeCdc006 ==
  ASSUME NEW V, NEW D, NEW E, D.g \in SoundGraphs(V), Alike(D, E)
  PROVE  Cdc006(E) = Cdc006(D)
<1>1. E.g = D.g /\ Match(E) = Match(D)
  BY AlikeMatch DEF Alike
<1>2. Cdc006(E) = LogicDriven(E.g, Match(E)) /\ Cdc006(D) = LogicDriven(D.g, Match(D))
  BY GraphDecides
<1> QED
  BY <1>1, <1>2

LEMMA AlikeResets ==
  ASSUME NEW V, NEW D, NEW E, D.g \in SoundGraphs(V), Alike(D, E)
  PROVE  CheckResetCrossings(E) = CheckResetCrossings(D)
<1> DEFINE R == Registers(D.g)
           T == TRUE
           Told(e, asynchronous) ==
             Finding("CDC009", IF asynchronous THEN "error" ELSE "warning", e[1], e[2],
                     <<e[1], e[2]>>, "VerifiedUnsafe")
           onD == {e \in R \X R : ResetCrosses(D, e[1], e[2])}
           onE == {e \in R \X R : ResetCrosses(E, e[1], e[2])}
<1>1. E.g = D.g /\ R \subseteq NodeIds(D.g)
  BY RegistersAreNodes DEF Alike
<1>2. \A id \in R : AlikeAt(E.at[id], D.at[id])
  BY <1>1 DEF Alike
<1>3. /\ \A id \in R : Domain(E, id) = Domain(D, id)
      /\ \A id \in R : HasDomain(E, id) <=> HasDomain(D, id)
      /\ \A id \in R : HasReset(E, id) <=> HasReset(D, id)
  BY <1>1, AlikeNodes
<1>4. \A id \in R : DirectBack(E, id) = DirectBack(D, id) /\ ToSet(DirectBack(D, id)) \subseteq R
  <2> TAKE id \in R
  <2>1. DirectBack(E, id) = DirectBack(D, id)
    BY <1>1, AlikeGraph
  <2>2. ToSet(DirectBack(D, id)) \subseteq R \ {id}
    BY DirectFacts
  <2> QED
    BY <2>1, <2>2
<1>5. \A id \in R : HasResetSynchronizer(E, id) <=> HasResetSynchronizer(D, id)
  <2> HIDE DEF R
  <2> QED
    BY <1>2, <1>4 DEF HasResetSynchronizer, AlikeAt
<1>6. ASSUME NEW a \in R, NEW b \in R PROVE ResetCrosses(E, a, b) <=> ResetCrosses(D, a, b)
  <2>1. SameReset(E, a, b) <=> SameReset(D, a, b)
    BY <1>2 DEF SameReset, AlikeAt
  <2>2. E.check_same_clock = D.check_same_clock /\ E.detect_synchronizer = D.detect_synchronizer
    BY DEF Alike
  <2> HIDE DEF R
  <2> QED
    BY <1>1, <1>3, <1>5, <2>1, <2>2 DEF ResetCrosses
<1>7. /\ CheckResetCrossings(D) = {Told(e, D.at[e[1]].async \/ D.at[e[2]].async) : e \in onD}
      /\ CheckResetCrossings(E) = {Told(e, E.at[e[1]].async \/ E.at[e[2]].async) : e \in onE}
  <2>1. CheckResetCrossings(D) = {Told(e, D.at[e[1]].async \/ D.at[e[2]].async) : e \in onD}
    BY DEF CheckResetCrossings
  <2>2. CheckResetCrossings(E) = {Told(e, E.at[e[1]].async \/ E.at[e[2]].async) : e \in onE}
    <3>1. Registers(E.g) = R
      BY <1>1
    <3> HIDE DEF R
    <3> QED
      BY <3>1 DEF CheckResetCrossings
  <2> QED
    BY <2>1, <2>2
<1>8. onE = onD
  BY <1>6
<1>9. ASSUME NEW e \in onD
      PROVE  Told(e, E.at[e[1]].async \/ E.at[e[2]].async) = Told(e, D.at[e[1]].async \/ D.at[e[2]].async)
  <2>1. e[1] \in R /\ e[2] \in R
    OBVIOUS
  <2>2. E.at[e[1]].async = D.at[e[1]].async /\ E.at[e[2]].async = D.at[e[2]].async
    BY <1>2, <2>1 DEF AlikeAt
  <2> HIDE DEF Told
  <2> QED
    BY <2>2
<1> HIDE DEF Told, onD, onE
<1> QED
  BY <1>7, <1>8, <1>9

(* What reconvergence takes from the crossings. *)
Lands(h, F) == \A f \in F : f.rule = "CDC001" => f.dst \in Registers(h)

LEMMA AlikeReconvergence ==
  ASSUME NEW V, NEW D, NEW E, D.g \in SoundGraphs(V), Alike(D, E), NEW F, Lands(D.g, F)
  PROVE  Reconvergence(E, F) = Reconvergence(D, F)
<1>1. E.g = D.g /\ E.max_hops = D.max_hops
  BY DEF Alike
<1>2. FindFanoutSources(E) = FindFanoutSources(D)
  <2>1. FindFanoutSources(E) = FanoutSourcesIn(E.g) /\ FindFanoutSources(D) = FanoutSourcesIn(D.g)
    BY GraphDecides
  <2> QED
    BY <1>1, <2>1
<1>3. ASSUME NEW src \in Registers(D.g) PROVE CheckPairs(E, F, src) = CheckPairs(D, F, src)
  <2> DEFINE dsts == {f.dst : f \in {f \in F : f.rule = "CDC001" /\ f.src = src}}
             pairs == Compared(D.g, src, dsts)
  <2>1. /\ CheckPairs(D, F, src) =
             {pair \in pairs : /\ ~(D.at[src].width <= 1 /\ \A dst \in pair : HasSyncChain(D, dst))
                               /\ \E a, b \in pair : a # b /\ Descendants(D, a) \cap Descendants(D, b) # {}}
        /\ CheckPairs(E, F, src) =
             {pair \in pairs : /\ ~(E.at[src].width <= 1 /\ \A dst \in pair : HasSyncChain(E, dst))
                               /\ \E a, b \in pair : a # b /\ Descendants(E, a) \cap Descendants(E, b) # {}}
    BY <1>1 DEF CheckPairs
  <2>2. dsts \subseteq Registers(D.g)
    BY DEF Lands
  <2>3. \A pair \in pairs : pair \subseteq dsts
    BY DEF Compared, kSubset
  <2> HIDE DEF dsts, pairs
  <2>4. E.at[src].width = D.at[src].width
    BY RegistersAreNodes DEF Alike, AlikeAt
  <2>5. \A dst \in Registers(D.g) : HasSyncChain(E, dst) <=> HasSyncChain(D, dst)
    <3> DEFINE N == FALSE
    <3> HIDE DEF N
    <3>1. \A dst \in Registers(D.g) : FindPatternForDest(E, dst, N) = FindPatternForDest(D, dst, N)
      BY AlikePattern
    <3> QED
      BY <3>1 DEF HasSyncChain, N
  <2>6. \A id : Descendants(E, id) = Descendants(D, id)
    <3>1. \A id : Descendants(E, id) = Breadth(E.g, E.max_hops, id)
      BY GraphDecides
    <3>2. \A id : Descendants(D, id) = Breadth(D.g, D.max_hops, id)
      BY GraphDecides
    <3> QED
      BY <1>1, <3>1, <3>2
  <2>7. \A pair \in pairs :
          (\A dst \in pair : HasSyncChain(E, dst)) <=> (\A dst \in pair : HasSyncChain(D, dst))
    BY <2>2, <2>3, <2>5
  <2> QED
    BY <2>1, <2>4, <2>6, <2>7
<1>4. FindFanoutSources(D) \subseteq Registers(D.g)
  BY DEF FindFanoutSources
<1> DEFINE Told(src, pair) == Finding("CDC003", "warning", src, NoId, SetToSeq(pair), "Unknown")
           ofD(src) == {Told(src, pair) : pair \in CheckPairs(D, F, src)}
           ofE(src) == {Told(src, pair) : pair \in CheckPairs(E, F, src)}
<1>5. /\ Reconvergence(D, F) = UNION {ofD(src) : src \in FindFanoutSources(D)}
      /\ Reconvergence(E, F) = UNION {ofE(src) : src \in FindFanoutSources(E)}
  BY DEF Reconvergence
<1> HIDE DEF Told
<1>6. \A src \in FindFanoutSources(D) : ofE(src) = ofD(src)
  BY <1>3, <1>4
<1> HIDE DEF ofD, ofE
<1> QED
  BY <1>2, <1>5, <1>6

(* A crossing goes over nodes of the graph. *)
LEMMA CrossingsArrive ==
  ASSUME NEW V, NEW D, D.g \in SoundGraphs(V), NEW f \in Analyze(D), f.rule = "CDC001"
  PROVE  Arrives(D.g, f.path)
<1> DEFINE R == Registers(D.g)
           cut(src) == Finding("CDC010", "warning", src, NoId, <<>>, "Ambiguous")
           line(src) == Finding("CDC008", "warning", src, NoId, <<>>, "Candidate")
<1>1. \A src : cut(src).rule = "CDC010" /\ line(src).rule = "CDC008"
  BY FindingFields DEF IsAbout
<1>2. (\E src \in R : f \in ProcessRegister(D, src)) \/ \E src : f = line(src)
  BY DEF Analyze, DaisyChains
<1>3. PICK src \in R : f \in ProcessRegister(D, src)
  BY <1>1, <1>2
<1> DEFINE paths == FindRegisterPaths(D.g, src, MaxPaths).paths
<1>4. f = cut(src) \/ \E p \in CrossingPaths(D, src, paths) : f \in ProcessPath(D, src, p)
  <2> HIDE DEF cut
  <2> QED
    BY <1>3 DEF ProcessRegister, cut
<1>5. PICK p \in CrossingPaths(D, src, paths) : f \in ProcessPath(D, src, p)
  BY <1>1, <1>4
<1>6. paths \in Seq(Frames) /\ \A q \in ToSet(paths) : Arrives(D.g, q.path)
  BY PathsArrive
<1> HIDE DEF paths
<1>7. PICK i \in DOMAIN paths : p = paths[i].path
  BY DEF CrossingPaths
<1>8. paths[i] \in ToSet(paths)
  BY <1>6, <1>7, SetOfSeq
<1>9. f.path = p
  BY <1>5, ProcessPathOne DEF OneCrossing, IsAbout
<1> QED
  BY <1>6, <1>7, <1>8, <1>9

(* The marks of uncertain values, if the marks before were the same. *)
SameMarks(D, E) ==
  DOMAIN E.at = DOMAIN D.at /\ \A id \in DOMAIN D.at : E.at[id].uncertain = D.at[id].uncertain

LEMMA AlikePropagate ==
  ASSUME NEW D, NEW E, E.g = D.g, SameMarks(D, E), NEW F
  PROVE  PropagateUncertainty(E, F) = PropagateUncertainty(D, F)
<1> DEFINE from == Uncertain(F) \cup {id \in DOMAIN D.at : D.at[id].uncertain # "no"}
           fromE == Uncertain(F) \cup {id \in DOMAIN E.at : E.at[id].uncertain # "no"}
           marked == SpreadIn(D.g, from)
           Mark(was, id) == IF was # "no" THEN was
                            ELSE IF id \in Uncertain(F) THEN "crossing"
                            ELSE IF id \in marked THEN "propagated" ELSE "no"
<1>1. fromE = from
  BY DEF SameMarks
<1>2. Spread(D, from) = marked /\ Spread(E, fromE) = marked
  <2>1. Spread(D, from) = SpreadIn(D.g, from)
    BY GraphDecides
  <2>2. Spread(E, fromE) = SpreadIn(E.g, fromE)
    BY GraphDecides
  <2> HIDE DEF from, fromE
  <2> QED
    BY <1>1, <2>1, <2>2
<1>3. /\ Marks(D, F) = [id \in DOMAIN D.at |-> Mark(D.at[id].uncertain, id)]
      /\ Marks(E, F) = [id \in DOMAIN E.at |-> Mark(E.at[id].uncertain, id)]
  <2> HIDE DEF marked
  <2> QED
    BY <1>2 DEF Marks
<1> HIDE DEF from, fromE, marked, Mark
<1>4. Marks(E, F) = Marks(D, F)
  BY <1>3 DEF SameMarks
<1> DEFINE named == UNION {{f.src, f.dst} : f \in F}
           Told(id) == Finding("CDC013", "warning", id, NoId, <<id>>, "Candidate")
           onD == {r \in Registers(D.g) \ named : Marks(D, F)[r] = "propagated"}
           onE == {r \in Registers(E.g) \ named : Marks(E, F)[r] = "propagated"}
<1>5. /\ PropagateUncertainty(D, F) = F \cup {Told(id) : id \in onD}
      /\ PropagateUncertainty(E, F) = F \cup {Told(id) : id \in onE}
  BY DEF PropagateUncertainty
<1>6. onE = onD
  <2> HIDE DEF named
  <2> QED
    BY <1>4
<1> HIDE DEF onD, onE, Told
<1> QED
  BY <1>5, <1>6

(* What is found before isolation cells are looked at. *)
BeforeIsolation(D, F) ==
  PropagateUncertainty(D, F) \cup Reconvergence(D, F) \cup Cdc006(D)
  \cup (IF D.suppress_resets THEN {} ELSE CheckResetCrossings(D))

LEMMA AllLowered ==
  ASSUME NEW D, NEW F
  PROVE  FindingsFrom(D, F) = {Lowered(D, f) : f \in BeforeIsolation(D, F)}
<1> QED
  BY DEF FindingsFrom, Isolate, Lowered, BeforeIsolation

LEMMA AlikeBefore ==
  ASSUME NEW V, NEW D, NEW E, D.g \in SoundGraphs(V), Alike(D, E), SameMarks(D, E),
         E.suppress_resets = D.suppress_resets, NEW F, Lands(D.g, F)
  PROVE  BeforeIsolation(E, F) = BeforeIsolation(D, F)
<1>1. E.g = D.g
  BY DEF Alike
<1>2. PropagateUncertainty(E, F) = PropagateUncertainty(D, F)
  BY <1>1, AlikePropagate
<1>3. Reconvergence(E, F) = Reconvergence(D, F)
  BY AlikeReconvergence
<1>4. Cdc006(E) = Cdc006(D)
  BY AlikeCdc006
<1>5. CheckResetCrossings(E) = CheckResetCrossings(D)
  BY AlikeResets
<1> QED
  BY <1>2, <1>3, <1>4, <1>5 DEF BeforeIsolation

LEMMA AnalyzeLands ==
  ASSUME NEW V, NEW D, D.g \in SoundGraphs(V) PROVE Lands(D.g, Analyze(D))
<1>1. Tells(D, Analyze(D))
  BY AnalyzeTells
<1> QED
  BY <1>1 DEF Tells, CrossedPairs, Lands

(* The only CDC001 there are come from the crossing analysis. *)
LEMMA BeforeCrossings ==
  ASSUME NEW D, NEW F, NEW f \in BeforeIsolation(D, F), f.rule \notin Others
  PROVE  f \in F
<1>1. \A e \in PropagateUncertainty(D, F) \ F : e.rule = "CDC013"
  BY OtherRules
<1>2. \A e \in Reconvergence(D, F) : e.rule = "CDC003"
  BY OtherRules
<1>3. \A e \in Cdc006(D) : e.rule = "CDC006"
  BY OtherRules
<1>4. \A e \in CheckResetCrossings(D) : e.rule = "CDC009"
  BY OtherRules
<1> QED
  BY <1>1, <1>2, <1>3, <1>4 DEF BeforeIsolation, Others

-----------------------------------------------------------------------------
(* The marks of uncertain values.                                          *)

(* A walk from any node finds numbers.                                     *)
LEMMA DownstreamType ==
  ASSUME NEW V, NEW D, D.g \in SoundGraphs(V), NEW id \in Nat
  PROVE  Downstream(D, id) \in SUBSET Nat
<1> DEFINE h == D.g
           T == TRUE
           F == FALSE
           s == Step(h, T, id)
<1>1. T \in BOOLEAN /\ F \in BOOLEAN /\ h \in SoundGraphs(V)
  OBVIOUS
<1>2. Successors(h, id) = s /\ RegisterSuccessors(h, id, FALSE) = RegisterWalk(h, T, F, s, {id})
  BY DEF RegisterSuccessors, Step
<1> HIDE DEF T, F, h
<1>3. s \in Seq(Nat) /\ \A n : n \in ToSet(s) <=> <<id, n>> \in Ends(h, T)
  BY <1>1, StepFacts
<1>4. \A n : <<id, n>> \in Ends(h, T) => n \in NodeIds(h)
  <2>1. \A e \in Ends(h, T) : e[2] \in NodeIds(h)
    BY <1>1, EndsFacts
  <2> QED
    BY <2>1
<1>5. NodeIds(h) \subseteq Nat
  BY <1>1, RegistersAreNodes
<1> HIDE DEF s
<1>6. ToSet(s) \subseteq NodeIds(h)
  BY <1>3, <1>4
<1>7. RegisterWalk(h, T, F, s, {id}) \in Seq(Nat)
  <2>1. {id} \in SUBSET Nat
    OBVIOUS
  <2> QED
    BY <1>1, <1>3, <1>6, <2>1, WalkFinds
<1>8. ToSet(RegisterWalk(h, T, F, s, {id})) \subseteq Nat
  BY <1>7, SetOfSeq
<1> QED
  BY <1>2, <1>5, <1>6, <1>8 DEF Downstream, Direct, h

(* The hops of a spread, one after the other.                              *)
HopsOf(D, from, h) ==
  /\ h[0] = from /\ Spread(D, from) = h[MAX_PATH_DEPTH]
  /\ \A n \in 1..MAX_PATH_DEPTH :
       h[n] = h[n - 1] \cup UNION {Downstream(D, id) : id \in h[n - 1]}

LEMMA SpreadHops ==
  ASSUME NEW V, NEW D, D.g \in SoundGraphs(V), NEW from \in SUBSET Nat
  PROVE  \E h \in [0..MAX_PATH_DEPTH -> SUBSET Nat] : HopsOf(D, from, h)
<1> DEFINE M == MAX_PATH_DEPTH
           After(marked) == marked \cup UNION {Downstream(D, id) : id \in marked}
           step == [p \in (SUBSET Nat) \X (1..M) |-> After(p[1])]
           Solves(f) == f = [n \in 0..M |-> IF n = 0 THEN from ELSE After(f[n - 1])]
           h == CHOOSE f : Solves(f)
<1>1. M \in Nat
  BY TraversalAssumption
<1>2. ASSUME NEW marked \in SUBSET Nat PROVE After(marked) \in SUBSET Nat
  <2>1. \A id \in marked : Downstream(D, id) \in SUBSET Nat
    BY DownstreamType
  <2> QED
    BY <2>1
<1>3. Spread(D, from) = h[M]
  BY DEF Spread
<1> HIDE DEF After, M
<1>4. \E f : Solves(f)
  <2>1. step \in [(SUBSET Nat) \X (1..M) -> SUBSET Nat]
    BY <1>2
  <2>2. PICK f \in [0..M -> SUBSET Nat] : Recursion(f, from, step, M)
    <3> HIDE DEF step
    <3> QED
      BY <1>1, <2>1, RecFcn
  <2>3. f[0] = from /\ \A k \in 1..M : f[k] = step[<<f[k - 1], k>>]
    BY <2>2 DEF Recursion
  <2>4. ASSUME NEW n \in 0..M
        PROVE  f[n] = IF n = 0 THEN from ELSE After(f[n - 1])
    <3>1. CASE n = 0
      BY <2>3, <3>1
    <3>2. CASE n # 0
      <4>1. n \in 1..M /\ n - 1 \in 0..M
        BY <1>1, <3>2
      <4>2. <<f[n - 1], n>> \in (SUBSET Nat) \X (1..M)
        BY <4>1
      <4> QED
        BY <2>3, <3>2, <4>1, <4>2
    <3> QED
      BY <3>1, <3>2
  <2>5. f = [n \in 0..M |-> f[n]]
    OBVIOUS
  <2> HIDE DEF step
  <2>6. Solves(f)
    BY <2>4, <2>5
  <2> QED
    BY <2>6
<1>5. Solves(h)
  <2> HIDE DEF Solves
  <2> QED
    BY <1>4
<1> HIDE DEF h
<1>6. h[0] = from /\ \A n \in 1..M : h[n] = After(h[n - 1])
  BY <1>1, <1>5
<1>7. h \in [0..M -> SUBSET Nat]
  <2> DEFINE Good == {n \in Nat : n <= M => h[n] \in SUBSET Nat}
  <2>1. 0 \in Good
    BY <1>6
  <2>2. ASSUME NEW n \in Nat, n \in Good PROVE n + 1 \in Good
    <3>1. n + 1 <= M => n + 1 \in 1..M /\ (n + 1) - 1 = n /\ n <= M
      BY <1>1
    <3> QED
      BY <1>2, <1>6, <2>2, <3>1
  <2> HIDE DEF Good
  <2>3. Nat \subseteq Good
    BY <2>1, <2>2, NatInd
  <2>4. \A n \in 0..M : h[n] \in SUBSET Nat
    BY <1>1, <2>3 DEF Good
  <2> QED
    BY <1>5, <2>4
<1> QED
  BY <1>3, <1>6, <1>7 DEF After, M, HopsOf

(* More marks spread further. *)
LEMMA SpreadGrows ==
  ASSUME NEW V, NEW D, D.g \in SoundGraphs(V), NEW from \in SUBSET Nat, NEW more \in SUBSET Nat,
         from \subseteq more
  PROVE  Spread(D, from) \subseteq Spread(D, more)
<1> DEFINE M == MAX_PATH_DEPTH
<1>1. M \in Nat
  BY TraversalAssumption
<1>2. PICK a \in [0..M -> SUBSET Nat] : HopsOf(D, from, a)
  BY SpreadHops
<1>3. PICK b \in [0..M -> SUBSET Nat] : HopsOf(D, more, b)
  BY SpreadHops
<1>4. a[0] = from /\ Spread(D, from) = a[M] /\ b[0] = more /\ Spread(D, more) = b[M]
  BY <1>2, <1>3 DEF HopsOf
<1>5. \A n \in 1..M : a[n] = a[n - 1] \cup UNION {Downstream(D, id) : id \in a[n - 1]}
  BY <1>2 DEF HopsOf
<1>6. \A n \in 1..M : b[n] = b[n - 1] \cup UNION {Downstream(D, id) : id \in b[n - 1]}
  BY <1>3 DEF HopsOf
<1> HIDE DEF M
<1> DEFINE Good == {n \in Nat : n <= M => a[n] \subseteq b[n]}
<1>7. 0 \in Good
  BY <1>4
<1>8. ASSUME NEW n \in Nat, n \in Good PROVE n + 1 \in Good
  <2> SUFFICES ASSUME n + 1 <= M PROVE a[n + 1] \subseteq b[n + 1]
    OBVIOUS
  <2>1. n + 1 \in 1..M /\ (n + 1) - 1 = n /\ n <= M
    BY <1>1
  <2>2. a[n] \subseteq b[n]
    BY <1>8, <2>1
  <2>3. /\ a[n + 1] = a[n] \cup UNION {Downstream(D, id) : id \in a[n]}
        /\ b[n + 1] = b[n] \cup UNION {Downstream(D, id) : id \in b[n]}
    BY <1>5, <1>6, <2>1
  <2> QED
    BY <2>2, <2>3
<1> HIDE DEF Good
<1>9. Nat \subseteq Good
  BY <1>7, <1>8, NatInd
<1>10. a[M] \subseteq b[M]
  BY <1>1, <1>9 DEF Good
<1> QED
  BY <1>4, <1>10

(* What an added edge leaves of a graph: its nodes and how they are found, *)
(* and the edges there were.                                               *)
Extended(h, k) ==
  /\ k.nodes = h.nodes /\ k.id_to_idx = h.id_to_idx
  /\ ToSet(h.edges) \subseteq ToSet(k.edges)

LEMMA AddEdgeExtends ==
  ASSUME NEW V, NEW h \in SoundGraphs(V), NEW from, NEW to
  PROVE  Extended(h, AddEdge(h, from, to))
<1> DEFINE k == AddEdge(h, from, to)
           more == Append(h.edges, <<from, to>>)
<1>1. h \in GraphType(V)
  BY DEF SoundGraphs
<1>2. h.edges \in Seq(Edge)
  BY <1>1, GraphFields
<1>3. k.nodes = h.nodes /\ k.id_to_idx = h.id_to_idx /\ (k.edges = h.edges \/ k.edges = more)
  BY <1>1 DEF AddEdge, GraphType
<1>4. \A i \in DOMAIN h.edges : i \in DOMAIN more /\ more[i] = h.edges[i]
  BY <1>2
<1>5. ToSet(h.edges) \subseteq ToSet(more)
  <2> HIDE DEF more
  <2> QED
    BY <1>4 DEF ToSet
<1> HIDE DEF k, more
<1> QED
  BY <1>3, <1>5 DEF Extended, k

(* The nodes are the same, each with its kind and clock. *)
LEMMA ExtendedNodes ==
  ASSUME NEW h, NEW k, Extended(h, k)
  PROVE  /\ NodeIds(k) = NodeIds(h) /\ Registers(k) = Registers(h)
         /\ \A id : FindNode(k, id) = FindNode(h, id)
         /\ \A id : IsRegister(k, id) <=> IsRegister(h, id)
<1>1. NodeIds(k) = NodeIds(h) /\ \A id : FindNode(k, id) = FindNode(h, id)
  BY DEF Extended, NodeIds, FindNode
<1>2. \A id : IsRegister(k, id) <=> IsRegister(h, id)
  BY <1>1 DEF IsRegister, KindOf
<1>3. Registers(k) = Registers(h)
  BY <1>1, <1>2 DEF Registers
<1> QED
  BY <1>1, <1>2, <1>3

(* A simple path is one of a graph with more edges, too. *)
LEMMA PathsStay ==
  ASSUME NEW V, NEW h \in SoundGraphs(V), NEW W, NEW k \in SoundGraphs(W), Extended(h, k),
         NEW src \in Nat
  PROVE  SimplePaths(h, src) \subseteq SimplePaths(k, src)
<1> DEFINE s == PathTree(h)
           t == PathTree(k)
           X == Seq(Nat)
           P == {path \in X : s[path] \subseteq t[path]}
<1>1. Grows(h, s) /\ SimplePaths(h, src) = s[<<src>>]
  BY PathTreeDef
<1>2. Grows(k, t) /\ SimplePaths(k, src) = t[<<src>>]
  BY PathTreeDef
<1> HIDE DEF s, t
<1>3. \A path : Complete(k, path) <=> Complete(h, path)
  BY ExtendedNodes DEF Complete
<1>4. \A path : Onward(h, path) \subseteq Onward(k, path)
  BY DEF Onward, Extended
<1>5. ASSUME NEW path \in X, \A e \in Onward(h, path) : Append(path, e[2]) \in P
      PROVE  path \in P
  <2>1. CASE Complete(h, path)
    BY <1>1, <1>2, <1>3, <2>1 DEF Grows
  <2>2. CASE ~Complete(h, path)
    <3> SUFFICES ASSUME NEW q \in s[path] PROVE q \in t[path]
      OBVIOUS
    <3>1. PICK e \in Onward(h, path) : q \in s[Append(path, e[2])]
      BY <1>1, <2>2 DEF Grows
    <3>2. q \in t[Append(path, e[2])]
      BY <1>5, <3>1
    <3>3. e \in Onward(k, path) /\ ~Complete(k, path)
      BY <1>3, <1>4, <2>2, <3>1
    <3> QED
      BY <1>2, <3>2, <3>3 DEF Grows
  <2> QED
    BY <2>1, <2>2
<1> HIDE DEF P
<1>6. X \subseteq P
  BY <1>5, PathInd
<1>7. <<src>> \in P
  BY <1>6
<1> QED
  BY <1>1, <1>2, <1>7 DEF P

(* E has the marks of D and more, of a crossing only behind a crossing.    *)
MoreMarks(D, E) ==
  /\ DOMAIN E.at = DOMAIN D.at
  /\ \A id \in DOMAIN D.at :
       IF D.at[id].uncertain # "no" THEN E.at[id].uncertain = D.at[id].uncertain
       ELSE /\ E.at[id].uncertain \in {"no", "crossing", "propagated"}
            /\ E.at[id].uncertain = "crossing" =>
                 \E src \in Registers(D.g) : <<src, id>> \in CrossedPairs(D)

(* More marks before make more registers uncertain behind them, and those  *)
(* that are not are named by a finding of the crossing they are behind.    *)
LEMMA MarksGrow ==
  ASSUME NEW V, NEW D, NEW E, D.g \in SoundGraphs(V), E.g = D.g,
         NodeIds(D.g) \subseteq DOMAIN D.at, DOMAIN D.at \subseteq Nat, MoreMarks(D, E),
         NEW F, Tells(D, F)
  PROVE  PropagateUncertainty(D, F) \subseteq PropagateUncertainty(E, F)
<1> DEFINE R == Registers(D.g)
           direct == Uncertain(F)
           fromD == direct \cup {id \in DOMAIN D.at : D.at[id].uncertain # "no"}
           fromE == direct \cup {id \in DOMAIN E.at : E.at[id].uncertain # "no"}
           markedD == Spread(D, fromD)
           markedE == Spread(E, fromE)
           named == UNION {{f.src, f.dst} : f \in F}
           T(id) == Finding("CDC013", "warning", id, NoId, <<id>>, "Candidate")
           onD == {r \in R \ named : Marks(D, F)[r] = "propagated"}
           onE == {r \in R \ named : Marks(E, F)[r] = "propagated"}
<1>1. R \subseteq NodeIds(D.g) /\ R \subseteq DOMAIN D.at /\ R \subseteq Nat
  BY RegistersAreNodes
<1>2. direct \subseteq R
  <2> SUFFICES ASSUME NEW f \in F, f.rule = "CDC001" PROVE f.dst \in R
    BY DEF Uncertain
  <2>1. <<f.src, f.dst>> \in CrossedPairs(D)
    BY DEF Tells
  <2>2. <<f.src, f.dst>> \in R \X R
    BY <2>1 DEF CrossedPairs
  <2> HIDE DEF R
  <2> QED
    BY <2>2
<1>3. fromD \subseteq fromE /\ fromD \subseteq Nat /\ fromE \subseteq Nat
  BY <1>1, <1>2 DEF MoreMarks
<1>4. markedD \subseteq markedE
  <2> HIDE DEF fromD, fromE
  <2>1. Spread(E, fromE) = SpreadIn(E.g, fromE) /\ Spread(D, fromE) = SpreadIn(D.g, fromE)
    BY GraphDecides
  <2>2. Spread(D, fromD) \subseteq Spread(D, fromE)
    BY <1>3, SpreadGrows
  <2> QED
    BY <2>1, <2>2
<1>5. \A id \in DOMAIN D.at :
        Marks(D, F)[id] = IF D.at[id].uncertain # "no" THEN D.at[id].uncertain
                          ELSE IF id \in direct THEN "crossing"
                          ELSE IF id \in markedD THEN "propagated" ELSE "no"
  <2> HIDE DEF markedD
  <2> QED
    BY DEF Marks, markedD
<1>6. \A id \in DOMAIN D.at :
        Marks(E, F)[id] = IF E.at[id].uncertain # "no" THEN E.at[id].uncertain
                          ELSE IF id \in direct THEN "crossing"
                          ELSE IF id \in markedE THEN "propagated" ELSE "no"
  <2>1. DOMAIN E.at = DOMAIN D.at
    BY DEF MoreMarks
  <2> HIDE DEF markedE
  <2> QED
    BY <2>1 DEF Marks, markedE
<1>7. /\ PropagateUncertainty(D, F) = F \cup {T(id) : id \in onD}
      /\ PropagateUncertainty(E, F) = F \cup {T(id) : id \in onE}
  BY DEF PropagateUncertainty
<1> HIDE DEF fromD, fromE, markedD, markedE, direct
<1>8. ASSUME NEW r \in R, r \notin named, Marks(D, F)[r] = "propagated"
      PROVE  Marks(E, F)[r] = "propagated"
  <2>1. r \in DOMAIN D.at
    BY <1>1
  <2>2. CASE D.at[r].uncertain # "no"
    <3>1. D.at[r].uncertain = "propagated" /\ E.at[r].uncertain = D.at[r].uncertain
      BY <1>5, <1>8, <2>1, <2>2 DEF MoreMarks
    <3> QED
      BY <1>6, <2>1, <3>1
  <2>3. CASE D.at[r].uncertain = "no"
    <3>1. r \notin direct /\ r \in markedD
      BY <1>5, <1>8, <2>1, <2>3
    <3>2. r \in markedE
      BY <1>4, <3>1
    <3>3. E.at[r].uncertain # "crossing"
      <4> SUFFICES ASSUME E.at[r].uncertain = "crossing" PROVE FALSE
        OBVIOUS
      <4>1. PICK src \in R : <<src, r>> \in CrossedPairs(D)
        BY <2>1, <2>3 DEF MoreMarks
      <4>2. PICK f \in F : f.rule = "CDC001" /\ f.src = src /\ f.dst = r
        <5>1. \A p \in CrossedPairs(D) : \E f \in F : f.rule = "CDC001" /\ f.src = p[1] /\ f.dst = p[2]
          BY DEF Tells
        <5> QED
          BY <4>1, <5>1
      <4> QED
        BY <1>8, <4>2
    <3>4. E.at[r].uncertain \in {"no", "propagated"}
      BY <2>1, <2>3, <3>3 DEF MoreMarks
    <3> QED
      BY <1>6, <2>1, <3>1, <3>2, <3>4
  <2> QED
    BY <2>2, <2>3
<1>9. onD \subseteq onE
  <2> HIDE DEF named, R
  <2> QED
    BY <1>8
<1> HIDE DEF onD, onE, T
<1> QED
  BY <1>7, <1>9

(* All the rules: what they find differs in CDC013 at most, and nothing is *)
(* missing if the marks are more.                                          *)
But013(F) == {f \in F : f.rule # "CDC013"}

LEMMA StructuralAlike ==
  ASSUME NEW V, NEW D, NEW E, D.g \in SoundGraphs(V), Alike(D, E),
         E.suppress_resets = D.suppress_resets,
         \A id \in NodeIds(D.g) : E.at[id].isolation = D.at[id].isolation
  PROVE  /\ But013(StructuralFindings(E)) = But013(StructuralFindings(D))
         /\ PropagateUncertainty(D, Analyze(D)) \subseteq PropagateUncertainty(E, Analyze(D)) =>
              StructuralFindings(D) \subseteq StructuralFindings(E)
<1> DEFINE F == Analyze(D)
           PD == PropagateUncertainty(D, F)
           PE == PropagateUncertainty(E, F)
           rest == Reconvergence(D, F) \cup Cdc006(D)
                   \cup (IF D.suppress_resets THEN {} ELSE CheckResetCrossings(D))
           GD == BeforeIsolation(D, F)
           GE == BeforeIsolation(E, F)
<1>1. Analyze(E) = F
  BY AlikeAnalyze
<1>2. StructuralFindings(D) = {Lowered(D, f) : f \in GD} /\ StructuralFindings(E) = {Lowered(E, f) : f \in GE}
  <2>1. StructuralFindings(D) = FindingsFrom(D, F) /\ StructuralFindings(E) = FindingsFrom(E, F)
    BY <1>1 DEF StructuralFindings
  <2> HIDE DEF F
  <2> QED
    BY <2>1, AllLowered
<1>3. GD = PD \cup rest
  BY DEF BeforeIsolation
<1>4. GE = PE \cup rest
  <2>1. Lands(D.g, F)
    BY AnalyzeLands
  <2> HIDE DEF F
  <2>2. Reconvergence(E, F) = Reconvergence(D, F)
    BY <2>1, AlikeReconvergence
  <2>3. Cdc006(E) = Cdc006(D)
    BY AlikeCdc006
  <2>4. CheckResetCrossings(E) = CheckResetCrossings(D)
    BY AlikeResets
  <2> QED
    BY <2>2, <2>3, <2>4 DEF BeforeIsolation
<1>5. /\ F \subseteq PD /\ \A f \in PD \ F : f.rule = "CDC013"
      /\ F \subseteq PE /\ \A f \in PE \ F : f.rule = "CDC013"
  BY OtherRules
<1>6. \A f \in F : f.rule = "CDC001" => Arrives(D.g, f.path)
  BY CrossingsArrive
<1>7. \A f \in GD \cup GE : f.rule = "CDC001" => f \in F
  <2> HIDE DEF F
  <2> QED
    BY BeforeCrossings DEF Others
<1> HIDE DEF F, PD, PE, GD, GE, rest
<1>8. \A f \in GD \cup GE : Lowered(E, f) = Lowered(D, f)
  <2> SUFFICES ASSUME NEW f \in GD \cup GE PROVE Lowered(E, f) = Lowered(D, f)
    OBVIOUS
  <2>1. CASE f.rule # "CDC001"
    BY <2>1 DEF Lowered
  <2>2. CASE f.rule = "CDC001"
    <3>1. \A id \in ToSet(f.path) : E.at[id].isolation = D.at[id].isolation
      BY <1>6, <1>7, <2>2 DEF Arrives
    <3> QED
      BY <3>1 DEF Lowered
  <2> QED
    BY <2>1, <2>2
<1>9. Findings(F)
  BY AnalyzeTells DEF F
<1>10. \A f \in GD \cup GE : Lowered(D, f).rule = f.rule
  <2> SUFFICES ASSUME NEW f \in GD \cup GE PROVE Lowered(D, f).rule = f.rule
    OBVIOUS
  <2>1. CASE f.rule # "CDC001"
    BY <2>1 DEF Lowered
  <2>2. CASE f.rule = "CDC001"
    <3>1. IsFinding(f)
      BY <1>7, <1>9, <2>2 DEF Findings
    <3> QED
      BY <3>1, LoweredFields DEF IsAbout
  <2> QED
    BY <2>1, <2>2
<1> DEFINE L(f) == Lowered(D, f)
<1>11. StructuralFindings(D) = {L(f) : f \in GD} /\ StructuralFindings(E) = {L(f) : f \in GE}
  BY <1>2, <1>8
<1>12. \A f \in GD \cup GE : L(f).rule = f.rule
  BY <1>10
<1> HIDE DEF L
<1>13. \A f : f.rule # "CDC013" => (f \in GD <=> f \in GE)
  BY <1>3, <1>4, <1>5
<1>14. But013(StructuralFindings(E)) = But013(StructuralFindings(D))
  BY <1>11, <1>12, <1>13 DEF But013
<1>15. PD \subseteq PE => GD \subseteq GE
  BY <1>3, <1>4
<1>16. PD \subseteq PE => StructuralFindings(D) \subseteq StructuralFindings(E)
  BY <1>11, <1>15
<1> QED
  BY <1>14, <1>16 DEF PD, PE, F
=============================================================================
