----------------------- MODULE GraphTraversal_proofs -----------------------
(***************************************************************************)
(* What GraphTraversal returns, for every graph: each vertex once.  The    *)
(* search is a recursive function; that it is defined, and what it does,   *)
(* follows from the fact that the calls it makes have fewer vertices left. *)
(***************************************************************************)
EXTENDS GraphTraversal, FiniteSetTheorems, SequenceTheorems, NaturalsInduction, WellFoundedInduction, TLAPS

\* A set of numbers has a smallest one.
LEMMA SmallestNumber ==
  ASSUME NEW S, S \subseteq Nat, S # {}
  PROVE  \E x \in S : \A y \in S : x <= y
PROOF
  <1> DEFINE less == OpToRel(<, Nat)
  <1>1. less = {p \in Nat \X Nat : p[1] < p[2]}
    BY DEF OpToRel
  <1>2. IsWellFoundedOn(less, Nat)
    BY NatLessThanWellFounded
  <1> HIDE DEF less
  <1>3. PICK x \in S : \A y \in S : <<y, x>> \notin less
    BY <1>2, WFMin
  <1>4. ASSUME NEW y \in S
        PROVE  x <= y
    <2>1. x \in Nat /\ y \in Nat /\ <<y, x>> \notin less
      BY <1>3, <1>4
    <2> QED
      BY <2>1, <1>1
  <1> QED
    BY <1>4

-----------------------------------------------------------------------------
(* Concatenation of a sequence of sequences                                *)

Flattened(s, m, w) == w = [i \in 1 .. m |-> IF i = 1 THEN s[i] ELSE w[i - 1] \o s[i]]

(* Concatenating from the left has a result.                               *)
LEMMA FlattenedExists ==
  ASSUME NEW s, NEW n \in Nat
  PROVE  \E w : Flattened(s, n, w)
PROOF
  <1> DEFINE Bad == {m \in Nat : ~ \E w : Flattened(s, m, w)}
  <1> SUFFICES ASSUME Bad # {}
               PROVE  FALSE
    OBVIOUS
  <1>1. PICK m \in Bad : \A y \in Bad : m <= y
    BY SmallestNumber
  <1>2. m # 0
    <2> DEFINE w == [i \in 1 .. 0 |-> s]
    <2>1. Flattened(s, 0, w)
      BY DEF Flattened
    <2> QED
      BY <2>1
  <1>3. m \in Nat /\ m - 1 \in Nat /\ m - 1 \notin Bad
    BY <1>1, <1>2
  <1>4. PICK w : Flattened(s, m - 1, w)
    BY <1>3
  <1> DEFINE x == [i \in 1 .. m |-> IF i = m THEN (IF i = 1 THEN s[i] ELSE w[i - 1] \o s[i]) ELSE w[i]]
  <1>5. \A i \in 1 .. m - 1 : w[i] = IF i = 1 THEN s[i] ELSE w[i - 1] \o s[i]
    BY <1>4 DEF Flattened
  <1>6. ASSUME NEW i \in 1 .. m
        PROVE  x[i] = IF i = 1 THEN s[i] ELSE x[i - 1] \o s[i]
    <2>1. i # 1 => i - 1 \in 1 .. m /\ i - 1 # m
      BY <1>3
    <2>2. i # m => i \in 1 .. m - 1
      BY <1>3
    <2> QED
      BY <2>1, <2>2, <1>5
  <1>7. Flattened(s, m, x)
    <2>1. x = [i \in 1 .. m |-> x[i]]
      OBVIOUS
    <2> HIDE DEF x
    <2> QED
      BY <2>1, <1>6 DEF Flattened
  <1> QED
    BY <1>1, <1>7

(* FlattenSeq takes the last of the concatenations.                        *)
LEMMA FlattenValue ==
  ASSUME NEW T, NEW s \in Seq(Seq(T)), Len(s) # 0
  PROVE  \E w : Flattened(s, Len(s), w) /\ FlattenSeq(s) = w[Len(s)]
PROOF
  <1>1. FlattenSeq(s) = (CHOOSE w : Flattened(s, Len(s), w))[Len(s)]
    BY Zenon DEF FlattenSeq, Flattened
  <1>2. \E w : Flattened(s, Len(s), w)
    <2>1. PICK m \in Nat : m = Len(s)
      OBVIOUS
    <2> QED
      BY <2>1, FlattenedExists
  <1> QED
    BY <1>1, <1>2

(* FlattenSeq makes sequences, one element after the other.                *)
LEMMA FlattenAppend ==
  ASSUME NEW T, NEW s \in Seq(Seq(T)), NEW x \in Seq(T), FlattenSeq(s) \in Seq(T)
  PROVE  FlattenSeq(Append(s, x)) = FlattenSeq(s) \o x
PROOF
  <1> DEFINE m == Len(s)
             u == Append(s, x)
  <1>1. /\ m \in Nat /\ u \in Seq(Seq(T)) /\ Len(u) = m + 1 /\ u[m + 1] = x
        /\ \A i \in 1 .. m : u[i] = s[i] /\ i \in 1 .. m + 1
    <2>1. PICK S : S = Seq(T) /\ s \in Seq(S) /\ x \in S
      OBVIOUS
    <2>2. m \in Nat
      BY <2>1
    <2>3. u \in Seq(S) /\ Len(u) = m + 1 /\ u[m + 1] = x /\ \A i \in 1 .. m : u[i] = s[i]
      BY <2>1, AppendProperties
    <2> HIDE DEF u
    <2> QED
      BY <2>1, <2>2, <2>3
  <1> HIDE DEF u
  <1>2. PICK v : Flattened(u, m + 1, v) /\ FlattenSeq(u) = v[m + 1]
    BY <1>1, FlattenValue
  <1>3. \A i \in 1 .. m + 1 : v[i] = IF i = 1 THEN u[i] ELSE v[i - 1] \o u[i]
    BY <1>2 DEF Flattened
  <1>4. CASE m = 0
    <2>1. s = <<>> /\ FlattenSeq(s) = s
      BY <1>4, EmptySeq, Zenon DEF FlattenSeq
    <2>2. 1 \in 1 .. m + 1 /\ v[1] = x
      BY <1>1, <1>3, <1>4
    <2>3. <<>> \o x = x
      OBVIOUS
    <2>4. FlattenSeq(u) = x
      BY <1>2, <1>4, <2>2
    <2> QED
      BY <2>1, <2>3, <2>4, Zenon DEF u
  <1>5. CASE m # 0
    <2>1. PICK w : Flattened(s, m, w) /\ FlattenSeq(s) = w[m]
      BY <1>5, FlattenValue
    <2>2. \A i \in 1 .. m : w[i] = IF i = 1 THEN s[i] ELSE w[i - 1] \o s[i]
      BY <2>1 DEF Flattened
    <2> DEFINE Bad == {i \in 1 .. m : v[i] # w[i]}
    <2>3. Bad = {}
      <3> SUFFICES ASSUME Bad # {}
                   PROVE  FALSE
        OBVIOUS
      <3>1. PICK i \in Bad : \A y \in Bad : i <= y
        <4>1. Bad \subseteq Nat
          OBVIOUS
        <4> HIDE DEF Bad
        <4> QED
          BY <4>1, SmallestNumber
      <3>2. i \in 1 .. m /\ i \in 1 .. m + 1 /\ u[i] = s[i] /\ v[i] # w[i]
        BY <1>1
      <3>3. i # 1
        BY <1>3, <2>2, <3>2
      <3>4. i - 1 \in 1 .. m /\ ~ i <= i - 1
        BY <3>2, <3>3
      <3>5. v[i - 1] = w[i - 1]
        BY <3>1, <3>4
      <3> QED
        BY <1>3, <2>2, <3>2, <3>3, <3>5
    <2>4. m \in 1 .. m /\ v[m] = w[m]
      BY <1>1, <1>5, <2>3
    <2>5. m + 1 \in 1 .. m + 1 /\ m + 1 # 1 /\ m + 1 - 1 = m
      BY <1>1, <1>5
    <2>6. v[m + 1] = v[m] \o u[m + 1]
      <3>1. PICK k \in 1 .. m + 1 : k = m + 1 /\ k # 1 /\ k - 1 = m
        BY <2>5
      <3>2. v[k] = v[k - 1] \o u[k]
        BY <1>3, <3>1, Zenon
      <3> QED
        BY <3>1, <3>2, Zenon
    <2> QED
      BY <1>1, <1>2, <2>1, <2>4, <2>6 DEF u
  <1> QED
    BY <1>4, <1>5

(* A list of lists in one list.                                          *)
LEMMA FlattenHasAll ==
  ASSUME NEW T, NEW s \in Seq(Seq(T))
  PROVE  /\ FlattenSeq(s) \in Seq(T)
         /\ \A i \in DOMAIN s : \A j \in DOMAIN s[i] : \E k \in DOMAIN FlattenSeq(s) : FlattenSeq(s)[k] = s[i][j]
PROOF
  <1>1. PICK m \in Nat : m = Len(s) /\ DOMAIN s = 1 .. m
    <2>1. Len(s) \in Nat /\ DOMAIN s = 1 .. Len(s)
      OBVIOUS
    <2> QED
      BY <2>1
  <1>2. CASE m = 0
    <2>1. FlattenSeq(s) = s /\ s = <<>>
      BY <1>1, <1>2, EmptySeq, Zenon DEF FlattenSeq
    <2> QED
      BY <2>1, <1>1, <1>2
  <1>3. CASE m # 0
    <2>1. FlattenSeq(s) = (CHOOSE w : Flattened(s, m, w))[m]
      BY <1>1, <1>3, Zenon DEF FlattenSeq, Flattened
    <2>2. PICK w : w = CHOOSE v : Flattened(s, m, v)
      OBVIOUS
    <2>3. Flattened(s, m, w)
      <3>1. \E v : Flattened(s, m, v)
        BY FlattenedExists
      <3> QED
        BY <3>1, <2>2
    <2> DEFINE Has(r, i) == \A j \in DOMAIN s[i] : \E k \in DOMAIN r : r[k] = s[i][j]
               Good(k) == w[k] \in Seq(T) /\ \A i \in 1 .. k : Has(w[k], i)
               Bad == {k \in 1 .. m : ~ Good(k)}
    <2>4. Bad = {}
      <3> SUFFICES ASSUME Bad # {} PROVE FALSE
        OBVIOUS
      <3>0. Bad \subseteq Nat
        OBVIOUS
      <3>1. PICK k \in Bad : \A y \in Bad : k <= y
        <4> HIDE DEF Bad
        <4> QED
          BY <3>0, SmallestNumber
      <3>2. k \in 1 .. m /\ k \in Nat /\ s[k] \in Seq(T)
        <4>1. k \in 1 .. m
          OBVIOUS
        <4> QED
          BY <4>1, <1>1, ElementOfSeq
      <3>3. k # 1
        <4> SUFFICES ASSUME k = 1 PROVE FALSE
          OBVIOUS
        <4>1. w[1] = s[1]
          BY <2>3, <3>2 DEF Flattened
        <4>2. Good(1)
          BY <4>1, <3>2
        <4> QED
          BY <4>2, <3>1
      <3>4. k - 1 \in 1 .. m /\ k - 1 \notin Bad
        <4> HIDE DEF Bad
        <4>1. k - 1 \in 1 .. m /\ ~ (k <= k - 1)
          BY <3>2, <3>3
        <4> QED
          BY <4>1, <3>1
      <3>5. Good(k - 1)
        <4> HIDE DEF Good
        <4> QED
          BY <3>4
      <3>6. w[k] = w[k - 1] \o s[k]
        BY <2>3, <3>2, <3>3 DEF Flattened
      <3>7. PICK a, c : a = w[k - 1] /\ c = s[k] /\ a \in Seq(T) /\ c \in Seq(T)
        BY <3>2, <3>5
      <3>8. /\ a \o c \in Seq(T) /\ Len(a \o c) = Len(a) + Len(c)
            /\ \A i \in 1 .. Len(a) + Len(c) : (a \o c)[i] = IF i <= Len(a) THEN a[i] ELSE c[i - Len(a)]
        BY ONLY <3>7, ConcatProperties
      <3>9. PICK p \in Nat, q \in Nat : p = Len(a) /\ q = Len(c) /\ DOMAIN a = 1 .. p /\ DOMAIN c = 1 .. q
        BY <3>7
      <3>10. DOMAIN (a \o c) = 1 .. p + q
        BY <3>8, <3>9
      <3>11. \A x \in 1 .. p : x \in 1 .. p + q /\ (a \o c)[x] = a[x]
        BY <3>8, <3>9
      <3>12. \A x \in 1 .. q : p + x \in 1 .. p + q /\ (a \o c)[p + x] = c[x]
        <4>1. ASSUME NEW x \in 1 .. q
              PROVE  p + x \in 1 .. p + q /\ ~ (p + x <= p) /\ p + x - p = x
          BY <3>9
        <4> QED
          BY <4>1, <3>8, <3>9
      <3>13. ASSUME NEW i \in 1 .. k
             PROVE  Has(w[k], i)
        <4>0. w[k] = a \o c
          BY <3>6, <3>7
        <4>1. CASE i = k
          <5>1. s[i] = c
            BY <4>1, <3>7
          <5>2. \A j \in DOMAIN c : \E x \in DOMAIN (a \o c) : (a \o c)[x] = c[j]
            BY <3>9, <3>10, <3>12
          <5> QED
            BY <5>1, <5>2, <4>0
        <4>2. CASE i # k
          <5>1. i \in 1 .. k - 1
            BY <4>2, <3>2
          <5>2. \A j \in DOMAIN s[i] : \E x \in DOMAIN a : a[x] = s[i][j]
            BY <5>1, <3>5, <3>7
          <5>3. \A x \in DOMAIN a : x \in DOMAIN (a \o c) /\ (a \o c)[x] = a[x]
            BY <3>9, <3>10, <3>11
          <5> QED
            BY <5>2, <5>3, <4>0
        <4> QED
          BY <4>1, <4>2
      <3>14. w[k] \in Seq(T)
        BY <3>6, <3>7, <3>8
      <3> QED
        BY <3>1, <3>13, <3>14
    <2>5. Good(m)
      <3>1. m \in 1 .. m
        BY <1>3
      <3> HIDE DEF Good
      <3> QED
        BY <3>1, <2>4
    <2>6. FlattenSeq(s) = w[m]
      BY <2>1, <2>2
    <2> QED
      BY <2>5, <2>6, <1>1
  <1> QED
    BY <1>2, <1>3

-----------------------------------------------------------------------------
(* Folding a function of two arguments over a list                         *)

Folded(f, base, list) == FoldLeft(LAMBDA x, v : f[<<v, x>>], base, list)

\* The results of the calls that FoldLeft makes, by the positions it has got over.
CallsUpTo(f, base, list, m, w) ==
  w = [s \in SUBSET (1 .. m) |-> IF s = {} THEN base ELSE f[<<list[Max(s)], w[s \ {Max(s)}]>>]]

\* The intermediate results, one for each position of the list.
IsTrace(f, base, list, m, w) == w = [k \in 0 .. m |-> IF k = 0 THEN base ELSE f[<<list[k], w[k - 1]>>]]

\* The maximum of a set of numbers up to m that has m.
LEMMA MaxIsLast ==
  ASSUME NEW m \in Nat, NEW s \in SUBSET (1 .. m), m \in s
  PROVE  Max(s) = m
PROOF
  <1>1. \A y \in s : m >= y
    OBVIOUS
  <1>2. \E x \in s : \A y \in s : x >= y
    BY <1>1
  <1>3. Max(s) \in s /\ \A y \in s : Max(s) >= y
    BY <1>2 DEF Max
  <1>4. Max(s) \in 1 .. m /\ Max(s) >= m
    BY <1>3
  <1> QED
    BY <1>4

\* FoldLeft is defined by recursion on sets of positions; that function exists.
LEMMA CallsExist ==
  ASSUME NEW f, NEW base, NEW list, NEW n \in Nat
  PROVE  \E w : CallsUpTo(f, base, list, n, w)
PROOF
  <1> DEFINE Bad == {m \in Nat : ~ \E w : CallsUpTo(f, base, list, m, w)}
  <1> SUFFICES ASSUME Bad # {} PROVE FALSE
    OBVIOUS
  <1>1. PICK m \in Bad : \A y \in Bad : m <= y
    BY SmallestNumber
  <1>2. m # 0
    <2> DEFINE w == [s \in SUBSET (1 .. 0) |-> base]
    <2>1. \A s \in SUBSET (1 .. 0) : s = {}
      OBVIOUS
    <2>2. CallsUpTo(f, base, list, 0, w)
      BY <2>1 DEF CallsUpTo
    <2> QED
      BY <2>2
  <1>3. m \in Nat /\ m - 1 \in Nat /\ m - 1 \notin Bad
    BY <1>1, <1>2
  <1>4. PICK w : CallsUpTo(f, base, list, m - 1, w)
    BY <1>3
  <1> DEFINE x == [s \in SUBSET (1 .. m) |-> IF m \in s THEN f[<<list[m], w[s \ {m}]>>] ELSE w[s]]
  <1>5. ASSUME NEW s \in SUBSET (1 .. m), s # {}
        PROVE  x[s] = f[<<list[Max(s)], x[s \ {Max(s)}]>>]
    <2>1. CASE m \in s
      <3>1. Max(s) = m /\ s \ {m} \in SUBSET (1 .. m) /\ m \notin s \ {m}
        BY <2>1, <1>3, MaxIsLast
      <3> QED
        BY <2>1, <3>1
    <2>2. CASE m \notin s
      <3>1. s \in SUBSET (1 .. m - 1)
        BY <2>2, <1>3
      <3>2. w[s] = f[<<list[Max(s)], w[s \ {Max(s)}]>>]
        BY <3>1, <1>4, <1>5 DEF CallsUpTo
      <3>3. s \ {Max(s)} \in SUBSET (1 .. m) /\ m \notin s \ {Max(s)}
        BY <2>2
      <3> QED
        BY <2>2, <3>2, <3>3
    <2> QED
      BY <2>1, <2>2
  <1>6. x[{}] = base
    <2>1. w[{}] = base
      BY <1>4 DEF CallsUpTo
    <2> QED
      BY <2>1
  <1>7. CallsUpTo(f, base, list, m, x)
    <2>1. x = [s \in SUBSET (1 .. m) |-> x[s]]
      OBVIOUS
    <2> HIDE DEF x
    <2> QED
      BY <2>1, <1>5, <1>6 DEF CallsUpTo
  <1> QED
    BY <1>1, <1>7

\* FoldLeft goes through the list from its beginning, one call for each position.
LEMMA FoldTrace ==
  ASSUME NEW f, NEW base, NEW list, NEW m \in Nat, DOMAIN list = 1 .. m
  PROVE  \E w : IsTrace(f, base, list, m, w) /\ Folded(f, base, list) = w[m]
PROOF
  <1>1. Folded(f, base, list) = (CHOOSE w : CallsUpTo(f, base, list, m, w))[1 .. m]
    BY Zenon DEF Folded, FoldLeft, MapThenFoldSet, CallsUpTo
  <1>2. PICK x : x = CHOOSE w : CallsUpTo(f, base, list, m, w)
    OBVIOUS
  <1>3. CallsUpTo(f, base, list, m, x)
    <2>1. \E w : CallsUpTo(f, base, list, m, w)
      BY CallsExist
    <2> QED
      BY <2>1, <1>2
  <1> DEFINE w == [k \in 0 .. m |-> x[1 .. k]]
  <1>4. ASSUME NEW k \in 0 .. m
        PROVE  w[k] = IF k = 0 THEN base ELSE f[<<list[k], w[k - 1]>>]
    <2>1. CASE k = 0
      <3>1. 1 .. 0 = {} /\ x[{}] = base
        BY <1>3 DEF CallsUpTo
      <3> QED
        BY <2>1, <3>1
    <2>2. CASE k # 0
      <3>1. 1 .. k \in SUBSET (1 .. m) /\ 1 .. k # {} /\ (1 .. k) \ {k} = 1 .. k - 1 /\ k - 1 \in 0 .. m /\ k \in Nat
        BY <2>2
      <3>2. Max(1 .. k) = k
        BY <2>2, MaxIsLast
      <3>3. x[1 .. k] = f[<<list[k], x[1 .. k - 1]>>]
        BY <3>1, <3>2, <1>3 DEF CallsUpTo
      <3> QED
        BY <2>2, <3>1, <3>3
    <2> QED
      BY <2>1, <2>2
  <1>5. IsTrace(f, base, list, m, w)
    <2>1. w = [k \in 0 .. m |-> w[k]]
      OBVIOUS
    <2> HIDE DEF w
    <2> QED
      BY <2>1, <1>4 DEF IsTrace
  <1>6. Folded(f, base, list) = w[m]
    BY <1>1, <1>2
  <1> QED
    BY <1>5, <1>6

\* What a trace looks like at its beginning, and from step to step.
LEMMA TraceBegins ==
  ASSUME NEW f, NEW base, NEW list, NEW m \in Nat, NEW w, IsTrace(f, base, list, m, w)
  PROVE  w[0] = base
PROOF
  BY DEF IsTrace

\* The call at position k.
CallAt(f, list, w, k) == f[<<list[k], w[k - 1]>>]

LEMMA TraceStep ==
  ASSUME NEW f, NEW base, NEW list, NEW m \in Nat, NEW w, IsTrace(f, base, list, m, w), NEW k \in 1 .. m
  PROVE  w[k] = CallAt(f, list, w, k)
PROOF
  <1>1. k \in 0 .. m /\ k # 0
    OBVIOUS
  <1> QED
    BY <1>1 DEF IsTrace, CallAt

\* Two functions that agree on the calls that one of them makes give the same result.
LEMMA FoldsAgree ==
  ASSUME NEW f, NEW g, NEW base, NEW list, NEW m \in Nat, DOMAIN list = 1 .. m,
         NEW w, IsTrace(f, base, list, m, w),
         \A k \in 1 .. m : CallAt(g, list, w, k) = CallAt(f, list, w, k)
  PROVE  Folded(g, base, list) = w[m]
PROOF
  <1>1. PICK x : IsTrace(g, base, list, m, x) /\ Folded(g, base, list) = x[m]
    BY FoldTrace
  <1>2. x[0] = base /\ w[0] = base
    <2>1. x[0] = base
      BY <1>1, TraceBegins
    <2>2. w[0] = base
      BY TraceBegins
    <2> QED
      BY <2>1, <2>2
  <1>3. ASSUME NEW k \in 1 .. m
        PROVE  x[k] = CallAt(g, list, x, k) /\ w[k] = CallAt(g, list, w, k)
    BY <1>1, TraceStep
  <1> DEFINE Bad == {k \in 0 .. m : x[k] # w[k]}
  <1>4. Bad = {}
    <2> SUFFICES ASSUME Bad # {} PROVE FALSE
      OBVIOUS
    <2>1. PICK k \in Bad : \A y \in Bad : k <= y
      <3>1. Bad \subseteq Nat
        OBVIOUS
      <3> HIDE DEF Bad
      <3> QED
        BY <3>1, SmallestNumber
    <2>2. k # 0
      BY <2>1, <1>2
    <2>3. k \in 1 .. m /\ k - 1 \in 0 .. m /\ ~ k <= k - 1
      BY <2>1, <2>2
    <2>4. x[k - 1] = w[k - 1]
      BY <2>1, <2>3
    <2>5. x[k] = w[k]
      BY <2>3, <2>4, <1>3 DEF CallAt
    <2> QED
      BY <2>1, <2>5
  <1>5. m \in 0 .. m
    OBVIOUS
  <1> QED
    BY <1>1, <1>4, <1>5

-----------------------------------------------------------------------------
(* One call of the search                                                  *)

\* States of the search, and the parts of Visit.
Searches(n) == [seen : SUBSET (0 .. n - 1), postorder : Seq(0 .. n - 1)]
EnterVertex(v, s) == [s EXCEPT !.seen = @ \cup {v}]
LeaveVertex(v, s) == [s EXCEPT !.postorder = Append(@, v)]
VisitFrom(f, outEdges, v, s) ==
  IF v \in s.seen THEN s ELSE LeaveVertex(v, Folded(f, EnterVertex(v, s), outEdges[v]))
IsVisit(n, outEdges, f) ==
  f = [c \in (0 .. n - 1) \X Searches(n) |-> VisitFrom(f, outEdges, c[1], c[2])]

\* The search is the function that PostOrder defines by recursion.
LEMMA PostOrderVisits ==
  ASSUME NEW n, NEW outEdges
  PROVE  PostOrder(n, outEdges) =
           Folded(CHOOSE f : IsVisit(n, outEdges, f), [seen |-> {}, postorder |-> <<>>],
                  [i \in 1 .. n |-> i - 1]).postorder
PROOF
  BY Zenon DEF PostOrder, IsVisit, VisitFrom, Searches, EnterVertex, LeaveVertex, Folded

\* The graph has the vertices 0 .. n-1.
OutEdgesOK(n, outEdges) == outEdges \in [0 .. n - 1 -> Seq(0 .. n - 1)]

\* The calls with fewer than k vertices left.
CallsBelow(n, k) ==
  {c \in (0 .. n - 1) \X Searches(n) : Cardinality((0 .. n - 1) \ c[2].seen) < k}

\* No vertex was finished twice, and each was entered before.
InOrder(s) ==
  /\ \A i, j \in DOMAIN s.postorder : s.postorder[i] = s.postorder[j] => i = j
  /\ \A i \in DOMAIN s.postorder : s.postorder[i] \in s.seen

\* From state s to state r the search finished the vertices it entered, and no other.
Progress(s, r) ==
  /\ s.seen \subseteq r.seen
  /\ InOrder(s) => InOrder(r)
  /\ Range(r.postorder) = Range(s.postorder) \cup (r.seen \ s.seen)

\* What a call promises: it visits its vertex.
VisitsVertex(n, c, r) == r \in Searches(n) /\ c[1] \in r.seen /\ Progress(c[2], r)

\* A state, as a record.
LEMMA SearchType ==
  ASSUME NEW n, NEW s \in Searches(n)
  PROVE  s = [seen |-> s.seen, postorder |-> s.postorder] /\ s.seen \subseteq 0 .. n - 1 /\ s.postorder \in Seq(0 .. n - 1)
PROOF
  BY DEF Searches

LEMMA ProgressTransitive ==
  ASSUME NEW s, NEW r, NEW q, Progress(s, r), Progress(r, q)
  PROVE  Progress(s, q)
PROOF
  BY DEF Progress

\* Entering a vertex.
LEMMA EnterVertexState ==
  ASSUME NEW n, NEW s \in Searches(n), NEW v \in 0 .. n - 1
  PROVE  /\ EnterVertex(v, s) \in Searches(n)
         /\ EnterVertex(v, s).seen = s.seen \cup {v} /\ EnterVertex(v, s).postorder = s.postorder
         /\ InOrder(s) => InOrder(EnterVertex(v, s))
PROOF
  <1>1. s = [seen |-> s.seen, postorder |-> s.postorder] /\ s.seen \subseteq 0 .. n - 1 /\ s.postorder \in Seq(0 .. n - 1)
    BY SearchType
  <1>2. EnterVertex(v, s) = [seen |-> s.seen \cup {v}, postorder |-> s.postorder]
    <2>1. PICK a, p : a = s.seen /\ p = s.postorder
      OBVIOUS
    <2>2. s = [seen |-> a, postorder |-> p]
      BY <1>1, <2>1
    <2>3. EnterVertex(v, s) = [seen |-> a \cup {v}, postorder |-> p]
      BY ONLY <2>2 DEF EnterVertex
    <2> QED
      BY <2>1, <2>3
  <1>3. s.seen \cup {v} \in SUBSET (0 .. n - 1)
    BY <1>1
  <1> QED
    BY <1>1, <1>2, <1>3 DEF Searches, InOrder

\* Leaving it, once the search is through with the vertices below.
LEMMA LeaveVertexState ==
  ASSUME NEW n, NEW s \in Searches(n), NEW v \in 0 .. n - 1, v \notin s.seen,
         NEW b \in Searches(n), Progress(EnterVertex(v, s), b)
  PROVE  VisitsVertex(n, <<v, s>>, LeaveVertex(v, b))
PROOF
  <1> DEFINE r == LeaveVertex(v, b)
  <1>1. /\ s.seen \subseteq 0 .. n - 1 /\ s.postorder \in Seq(0 .. n - 1)
        /\ b = [seen |-> b.seen, postorder |-> b.postorder] /\ b.seen \subseteq 0 .. n - 1 /\ b.postorder \in Seq(0 .. n - 1)
    BY SearchType
  <1>2. r = [seen |-> b.seen, postorder |-> Append(b.postorder, v)]
    <2>1. PICK a, p : a = b.seen /\ p = b.postorder
      OBVIOUS
    <2>2. b = [seen |-> a, postorder |-> p]
      BY <1>1, <2>1, Zenon
    <2>3. PICK q : q = Append(b.postorder, v)
      OBVIOUS
    <2>4. [b EXCEPT !.postorder = q] = [seen |-> a, postorder |-> q]
      BY ONLY <2>2
    <2>5. r = [b EXCEPT !.postorder = q]
      BY <2>3, Zenon DEF LeaveVertex
    <2> QED
      BY <2>1, <2>3, <2>4, <2>5, Zenon
  <1>3. PICK m \in Nat : /\ DOMAIN b.postorder = 1 .. m /\ m = Len(b.postorder)
    BY <1>1
  <1>4. /\ Append(b.postorder, v) \in Seq(0 .. n - 1)
        /\ DOMAIN Append(b.postorder, v) = 1 .. m + 1
        /\ \A i \in 1 .. m : Append(b.postorder, v)[i] = b.postorder[i]
        /\ Append(b.postorder, v)[m + 1] = v
    BY <1>1, <1>3
  <1> HIDE DEF r
  <1>5. r \in Searches(n) /\ r.seen = b.seen /\ r.postorder = Append(b.postorder, v)
    BY <1>1, <1>2, <1>4 DEF Searches
  <1>6. /\ s.seen \cup {v} \subseteq b.seen
        /\ InOrder(s) => InOrder(b)
        /\ Range(b.postorder) = Range(s.postorder) \cup (b.seen \ (s.seen \cup {v}))
    BY EnterVertexState DEF Progress
  <1>7. Range(r.postorder) = Range(b.postorder) \cup {v}
    <2>1. DOMAIN r.postorder = (1 .. m) \cup {m + 1}
      BY <1>4, <1>5
    <2> QED
      BY <2>1, <1>3, <1>4, <1>5 DEF Range
  <1>8. Range(r.postorder) = Range(s.postorder) \cup (r.seen \ s.seen)
    BY <1>5, <1>6, <1>7
  <1>9. ASSUME InOrder(s)
        PROVE  InOrder(r)
    <2>1. InOrder(b)
      BY <1>6, <1>9
    <2>2. ASSUME NEW i \in 1 .. m
          PROVE  b.postorder[i] # v
      <3>1. b.postorder[i] \in Range(s.postorder) \cup (b.seen \ (s.seen \cup {v}))
        BY <1>3, <1>6 DEF Range
      <3>2. Range(s.postorder) \subseteq s.seen
        BY <1>9 DEF InOrder, Range
      <3> QED
        BY <3>1, <3>2
    <2>3. DOMAIN r.postorder = (1 .. m) \cup {m + 1}
      BY <1>4, <1>5
    <2>4. ASSUME NEW i \in DOMAIN r.postorder
          PROVE  r.postorder[i] \in r.seen
      BY <2>1, <2>3, <1>3, <1>4, <1>5, <1>6 DEF InOrder
    <2>5. ASSUME NEW i \in DOMAIN r.postorder, NEW j \in DOMAIN r.postorder, r.postorder[i] = r.postorder[j]
          PROVE  i = j
      BY <2>1, <2>2, <2>3, <2>5, <1>3, <1>4, <1>5 DEF InOrder
    <2> QED
      BY <2>4, <2>5 DEF InOrder
  <1>10. v \in r.seen /\ s.seen \subseteq r.seen
    BY <1>5, <1>6
  <1> QED
    BY <1>5, <1>8, <1>9, <1>10 DEF VisitsVertex, Progress, r

-----------------------------------------------------------------------------
(* The calls for the vertices below                                        *)

\* As the search goes on, no vertex is left that was not left before.
LEMMA FewerLeft ==
  ASSUME NEW n \in Nat, NEW s, NEW r \in Searches(n), s.seen \subseteq r.seen, NEW v \in 0 .. n - 1, NEW k \in Nat,
         Cardinality((0 .. n - 1) \ s.seen) < k
  PROVE  <<v, r>> \in CallsBelow(n, k)
PROOF
  <1> DEFINE V == 0 .. n - 1
  <1>1. IsFiniteSet(V)
    BY FS_Interval
  <1> HIDE DEF V
  <1>2. IsFiniteSet(V \ s.seen) /\ V \ r.seen \in SUBSET (V \ s.seen)
    BY <1>1, FS_Subset
  <1>3. /\ Cardinality(V \ r.seen) <= Cardinality(V \ s.seen)
        /\ Cardinality(V \ r.seen) \in Nat /\ Cardinality(V \ s.seen) \in Nat
    BY <1>1, <1>2, FS_Subset, FS_CardinalityType
  <1>4. Cardinality(V \ r.seen) < k
    BY <1>3 DEF V
  <1> QED
    BY <1>4 DEF CallsBelow, V

\* All calls with fewer than k vertices left keep their promise.
VisitsBelow(n, k, f) == \A c \in CallsBelow(n, k) : VisitsVertex(n, c, f[c])

\* After i calls each of the first i vertices of the list was entered.
ThroughList(n, base, list, w, i) ==
  /\ w[i] \in Searches(n)
  /\ Progress(base, w[i])
  /\ \A j \in 1 .. i : list[j] \in w[i].seen

LEMMA ListVisited ==
  ASSUME NEW n \in Nat, NEW k \in Nat, NEW f, VisitsBelow(n, k, f),
         NEW base \in Searches(n), Cardinality((0 .. n - 1) \ base.seen) < k,
         NEW m \in Nat, NEW list \in [1 .. m -> 0 .. n - 1],
         NEW w, IsTrace(f, base, list, m, w)
  PROVE  \A i \in 0 .. m : ThroughList(n, base, list, w, i)
PROOF
  <1> DEFINE Bad == {i \in 0 .. m : ~ ThroughList(n, base, list, w, i)}
  <1> SUFFICES ASSUME Bad # {} PROVE FALSE
    OBVIOUS
  <1>1. PICK i \in Bad : \A y \in Bad : i <= y
    <2>1. Bad \subseteq Nat
      OBVIOUS
    <2> HIDE DEF Bad
    <2> QED
      BY <2>1, SmallestNumber
  <1>2. i # 0
    <2>1. w[0] = base
      BY TraceBegins
    <2>2. Progress(base, base)
      BY DEF Progress
    <2>3. ThroughList(n, base, list, w, 0)
      BY <2>1, <2>2 DEF ThroughList
    <2> QED
      BY <2>3, <1>1
  <1>3. i \in 1 .. m /\ i - 1 \in 0 .. m /\ ~ i <= i - 1
    BY <1>1, <1>2
  <1>4. ThroughList(n, base, list, w, i - 1)
    BY <1>1, <1>3
  <1>5. list[i] \in 0 .. n - 1
    BY <1>3
  <1>6. w[i] = f[<<list[i], w[i - 1]>>]
    <2>1. w[i] = CallAt(f, list, w, i)
      BY <1>3, TraceStep
    <2> QED
      BY <2>1 DEF CallAt
  <1> HIDE DEF Bad
  <1>7. PICK s : s = w[i - 1]
    OBVIOUS
  <1>8. s \in Searches(n) /\ Progress(base, s) /\ \A j \in 1 .. i - 1 : list[j] \in s.seen
    BY <1>4, <1>7 DEF ThroughList
  <1>9. VisitsVertex(n, <<list[i], s>>, w[i])
    <2>1. <<list[i], s>> \in CallsBelow(n, k)
      BY <1>5, <1>8, FewerLeft DEF Progress
    <2> QED
      BY <2>1, <1>6, <1>7 DEF VisitsBelow
  <1>10. w[i] \in Searches(n) /\ list[i] \in w[i].seen /\ Progress(s, w[i])
    BY <1>9 DEF VisitsVertex
  <1>11. Progress(base, w[i])
    BY <1>8, <1>10, ProgressTransitive
  <1>12. ASSUME NEW j \in 1 .. i
         PROVE  list[j] \in w[i].seen
    <2>1. CASE j = i
      BY <2>1, <1>10
    <2>2. CASE j # i
      <3>1. j \in 1 .. i - 1
        BY <2>2, <1>3
      <3> QED
        BY <3>1, <1>8, <1>10 DEF Progress
    <2> QED
      BY <2>1, <2>2
  <1>13. ThroughList(n, base, list, w, i)
    BY <1>10, <1>11, <1>12 DEF ThroughList
  <1> QED
    BY <1>1, <1>13 DEF Bad

\* A call with k vertices left makes calls with fewer left: if these keep their
\* promise it does too, and its result depends on nothing else.
LEMMA CallVisits ==
  ASSUME NEW n \in Nat, NEW outEdges, OutEdgesOK(n, outEdges), NEW k \in Nat, NEW f, VisitsBelow(n, k, f),
         NEW v \in 0 .. n - 1, NEW s \in Searches(n), Cardinality((0 .. n - 1) \ s.seen) < k + 1,
         NEW g, \A c \in CallsBelow(n, k) : g[c] = f[c]
  PROVE  /\ VisitsVertex(n, <<v, s>>, VisitFrom(f, outEdges, v, s))
         /\ VisitFrom(g, outEdges, v, s) = VisitFrom(f, outEdges, v, s)
PROOF
  <1> DEFINE V == 0 .. n - 1
             base == EnterVertex(v, s)
             list == outEdges[v]
  <1>1. CASE v \in s.seen
    <2>1. VisitFrom(f, outEdges, v, s) = s /\ VisitFrom(g, outEdges, v, s) = s
      BY <1>1 DEF VisitFrom
    <2>2. Progress(s, s)
      BY DEF Progress
    <2> QED
      BY <2>1, <2>2, <1>1 DEF VisitsVertex
  <1>2. CASE v \notin s.seen
    <2>1. base \in Searches(n) /\ base.seen = s.seen \cup {v}
      BY EnterVertexState
    <2>2. Cardinality(V \ base.seen) < k
      <3>1. IsFiniteSet(V \ s.seen)
        <4>1. IsFiniteSet(V)
          BY FS_Interval
        <4> HIDE DEF V
        <4> QED
          BY <4>1, FS_Subset
      <3>2. V \ base.seen = (V \ s.seen) \ {v} /\ v \in V \ s.seen
        BY <2>1, <1>2
      <3>3. Cardinality((V \ s.seen) \ {v}) = Cardinality(V \ s.seen) - 1 /\ Cardinality(V \ s.seen) \in Nat
        BY <3>1, <3>2, FS_RemoveElement, FS_CardinalityType
      <3>4. Cardinality(V \ s.seen) < k + 1
        OBVIOUS
      <3> HIDE DEF V
      <3>5. Cardinality((V \ s.seen) \ {v}) < k
        BY <3>3, <3>4
      <3> QED
        BY <3>2, <3>5
    <2>3. list \in Seq(V)
      BY DEF OutEdgesOK
    <2>4. PICK m \in Nat : list \in [1 .. m -> V] /\ DOMAIN list = 1 .. m
      <3>1. Len(list) \in Nat /\ list \in [1 .. Len(list) -> V] /\ DOMAIN list = 1 .. Len(list)
        BY <2>3
      <3> QED
        BY <3>1
    <2> HIDE DEF list, base, V
    <2>5. PICK w : IsTrace(f, base, list, m, w) /\ Folded(f, base, list) = w[m]
      BY <2>4, FoldTrace
    <2>6. \A i \in 0 .. m : ThroughList(n, base, list, w, i)
      BY <2>1, <2>2, <2>4, <2>5, ListVisited DEF V
    <2>7. w[m] \in Searches(n) /\ Progress(base, w[m])
      <3>1. m \in 0 .. m
        OBVIOUS
      <3> QED
        BY <3>1, <2>6 DEF ThroughList
    <2>8. ASSUME NEW i \in 1 .. m
          PROVE  CallAt(g, list, w, i) = CallAt(f, list, w, i)
      <3>1. i - 1 \in 0 .. m
        OBVIOUS
      <3>2. w[i - 1] \in Searches(n) /\ base.seen \subseteq w[i - 1].seen
        BY <3>1, <2>6 DEF ThroughList, Progress
      <3>3. list[i] \in V
        BY <2>4
      <3>4. <<list[i], w[i - 1]>> \in CallsBelow(n, k)
        BY <3>2, <3>3, <2>2, FewerLeft DEF V
      <3> QED
        BY <3>4 DEF CallAt
    <2>9. Folded(g, base, list) = w[m]
      BY <2>4, <2>5, <2>8, FoldsAgree
    <2>10. VisitFrom(f, outEdges, v, s) = LeaveVertex(v, w[m]) /\ VisitFrom(g, outEdges, v, s) = LeaveVertex(v, w[m])
      BY <1>2, <2>5, <2>9 DEF VisitFrom, base, list
    <2>11. VisitsVertex(n, <<v, s>>, LeaveVertex(v, w[m]))
      BY <1>2, <2>7, LeaveVertexState DEF base
    <2> QED
      BY <2>10, <2>11
  <1> QED
    BY <1>1, <1>2

-----------------------------------------------------------------------------
(* The search                                                              *)

\* A function that is the search on all calls with fewer than k vertices left.
IsVisitBelow(n, outEdges, k, f) ==
  /\ VisitsBelow(n, k, f)
  /\ \A c \in CallsBelow(n, k) : f[c] = VisitFrom(f, outEdges, c[1], c[2])

LEMMA VisitBelowExists ==
  ASSUME NEW n \in Nat, NEW outEdges, OutEdgesOK(n, outEdges), NEW k \in Nat
  PROVE  \E f : IsVisitBelow(n, outEdges, k, f)
PROOF
  <1> DEFINE Bad == {l \in Nat : ~ \E f : IsVisitBelow(n, outEdges, l, f)}
  <1> SUFFICES ASSUME Bad # {} PROVE FALSE
    OBVIOUS
  <1>1. PICK l \in Bad : \A y \in Bad : l <= y
    BY SmallestNumber
  <1>2. l # 0
    <2>1. ASSUME NEW c \in CallsBelow(n, 0)
          PROVE  FALSE
      <3>1. Cardinality((0 .. n - 1) \ c[2].seen) < 0
        BY DEF CallsBelow
      <3>2. IsFiniteSet(0 .. n - 1)
        BY FS_Interval
      <3>3. Cardinality((0 .. n - 1) \ c[2].seen) \in Nat
        BY <3>2, FS_Subset, FS_CardinalityType
      <3> QED
        BY <3>1, <3>3
    <2> DEFINE f == [c \in {} |-> 0]
    <2>2. IsVisitBelow(n, outEdges, 0, f)
      BY <2>1 DEF IsVisitBelow, VisitsBelow
    <2> QED
      BY <2>2, <1>1
  <1>3. l \in Nat /\ l - 1 \in Nat /\ l - 1 \notin Bad
    BY <1>1, <1>2
  <1>4. PICK f : IsVisitBelow(n, outEdges, l - 1, f)
    BY <1>3
  <1>5. PICK j \in Nat : j = l - 1 /\ l = j + 1
    BY <1>3
  <1> DEFINE g == [c \in CallsBelow(n, l) |-> VisitFrom(f, outEdges, c[1], c[2])]
  <1>6. ASSUME NEW c \in CallsBelow(n, l)
        PROVE  /\ c[1] \in 0 .. n - 1 /\ c[2] \in Searches(n) /\ c = <<c[1], c[2]>>
               /\ Cardinality((0 .. n - 1) \ c[2].seen) < j + 1
    BY <1>5 DEF CallsBelow
  <1>7. VisitsBelow(n, j, f)
    BY <1>4, <1>5 DEF IsVisitBelow
  <1>8. ASSUME NEW c \in CallsBelow(n, j)
        PROVE  g[c] = f[c]
    <2>1. IsFiniteSet(0 .. n - 1)
      BY FS_Interval
    <2>2. Cardinality((0 .. n - 1) \ c[2].seen) \in Nat
      BY <2>1, FS_Subset, FS_CardinalityType
    <2>3. c \in CallsBelow(n, l)
      BY <2>2, <1>5 DEF CallsBelow
    <2>4. f[c] = VisitFrom(f, outEdges, c[1], c[2])
      BY <1>4, <1>5 DEF IsVisitBelow
    <2> QED
      BY <2>3, <2>4
  <1> HIDE DEF g
  <1>9. ASSUME NEW c \in CallsBelow(n, l)
        PROVE  VisitsVertex(n, c, g[c]) /\ g[c] = VisitFrom(g, outEdges, c[1], c[2])
    <2>1. PICK v, s : v = c[1] /\ s = c[2]
      OBVIOUS
    <2>2. v \in 0 .. n - 1 /\ s \in Searches(n) /\ c = <<v, s>> /\ Cardinality((0 .. n - 1) \ s.seen) < j + 1
      BY <1>6, <2>1
    <2>3. VisitsVertex(n, <<v, s>>, VisitFrom(f, outEdges, v, s)) /\ VisitFrom(g, outEdges, v, s) = VisitFrom(f, outEdges, v, s)
      BY <2>2, <1>7, <1>8, CallVisits
    <2>4. g[c] = VisitFrom(f, outEdges, v, s)
      BY <2>1 DEF g
    <2> QED
      BY <2>1, <2>2, <2>3, <2>4
  <1>10. IsVisitBelow(n, outEdges, l, g)
    BY <1>9 DEF IsVisitBelow, VisitsBelow
  <1> QED
    BY <1>1, <1>10

\* Every call has at most n vertices left.
LEMMA AllCalls ==
  ASSUME NEW n \in Nat
  PROVE  CallsBelow(n, n + 1) = (0 .. n - 1) \X Searches(n)
PROOF
  <1>1. ASSUME NEW c
        PROVE  Cardinality((0 .. n - 1) \ c[2].seen) < n + 1
    <2>1. IsFiniteSet(0 .. n - 1) /\ Cardinality(0 .. n - 1) = n
      BY FS_Interval
    <2> DEFINE V == 0 .. n - 1
    <2> HIDE DEF V
    <2>2. PICK S : S = c[2].seen
      OBVIOUS
    <2>3. V \ S \in SUBSET V
      OBVIOUS
    <2>4. Cardinality(V \ S) <= Cardinality(V) /\ Cardinality(V \ S) \in Nat
      BY <2>1, <2>3, FS_Subset, FS_CardinalityType DEF V
    <2>5. Cardinality(V \ S) < n + 1
      BY <2>1, <2>4 DEF V
    <2> QED
      BY <2>2, <2>5 DEF V
  <1> QED
    BY <1>1 DEF CallsBelow

\* The recursive definition of the search has a solution ...
LEMMA VisitExists ==
  ASSUME NEW n \in Nat, NEW outEdges, OutEdgesOK(n, outEdges)
  PROVE  \E f : IsVisit(n, outEdges, f)
PROOF
  <1>1. n + 1 \in Nat
    OBVIOUS
  <1>2. PICK f : IsVisitBelow(n, outEdges, n + 1, f)
    BY <1>1, VisitBelowExists
  <1> DEFINE C == (0 .. n - 1) \X Searches(n)
             g == [c \in C |-> f[c]]
  <1>3. \A c \in C : g[c] = f[c] /\ f[c] = VisitFrom(f, outEdges, c[1], c[2])
    BY <1>2, AllCalls DEF IsVisitBelow
  <1>4. VisitsBelow(n, n + 1, f)
    BY <1>2 DEF IsVisitBelow
  <1>5. \A c \in CallsBelow(n, n + 1) : g[c] = f[c]
    BY AllCalls
  <1>6. g = [c \in C |-> g[c]]
    OBVIOUS
  <1> HIDE DEF g
  <1>7. ASSUME NEW c \in C
        PROVE  g[c] = VisitFrom(g, outEdges, c[1], c[2])
    <2>1. PICK v, s : v = c[1] /\ s = c[2] /\ v \in 0 .. n - 1 /\ s \in Searches(n) /\ c = <<v, s>>
      OBVIOUS
    <2>2. Cardinality((0 .. n - 1) \ s.seen) < n + 1
      <3>1. c \in CallsBelow(n, n + 1)
        BY AllCalls
      <3> QED
        BY <3>1, <2>1 DEF CallsBelow
    <2>3. Cardinality((0 .. n - 1) \ s.seen) < (n + 1) + 1
      <3>1. IsFiniteSet(0 .. n - 1)
        BY FS_Interval
      <3>2. Cardinality((0 .. n - 1) \ s.seen) \in Nat
        BY <3>1, FS_Subset, FS_CardinalityType
      <3> QED
        BY <3>2, <2>2
    <2>4. VisitFrom(g, outEdges, v, s) = VisitFrom(f, outEdges, v, s)
      <3>1. PICK k \in Nat : k = n + 1
        BY <1>1
      <3>2. VisitsBelow(n, k, f) /\ (\A d \in CallsBelow(n, k) : g[d] = f[d]) /\ Cardinality((0 .. n - 1) \ s.seen) < k + 1
        BY <3>1, <1>4, <1>5, <2>3
      <3>3. v \in 0 .. n - 1 /\ s \in Searches(n)
        BY <2>1
      <3>4. VisitsVertex(n, <<v, s>>, VisitFrom(f, outEdges, v, s)) /\ VisitFrom(g, outEdges, v, s) = VisitFrom(f, outEdges, v, s)
        BY ONLY <3>2, <3>3, CallVisits, OutEdgesOK(n, outEdges), n \in Nat, k \in Nat
      <3> QED
        BY <3>4
    <2> QED
      BY <2>1, <2>4, <1>3
  <1>8. IsVisit(n, outEdges, g)
    BY <1>6, <1>7 DEF IsVisit
  <1> QED
    BY <1>8

\* ... and every solution keeps the promise in each of its calls.
LEMMA EveryCallVisits ==
  ASSUME NEW n \in Nat, NEW outEdges, OutEdgesOK(n, outEdges), NEW f, IsVisit(n, outEdges, f), NEW k \in Nat
  PROVE  VisitsBelow(n, k, f)
PROOF
  <1> DEFINE Bad == {l \in Nat : ~ VisitsBelow(n, l, f)}
  <1> SUFFICES ASSUME Bad # {} PROVE FALSE
    OBVIOUS
  <1>1. PICK l \in Bad : \A y \in Bad : l <= y
    BY SmallestNumber
  <1>2. PICK c \in CallsBelow(n, l) : ~ VisitsVertex(n, c, f[c])
    BY <1>1 DEF VisitsBelow
  <1>3. PICK v, s : v = c[1] /\ s = c[2] /\ v \in 0 .. n - 1 /\ s \in Searches(n) /\ c = <<v, s>>
    BY DEF CallsBelow
  <1>4. Cardinality((0 .. n - 1) \ s.seen) < l
    BY <1>3 DEF CallsBelow
  <1>5. Cardinality((0 .. n - 1) \ s.seen) \in Nat
    <2>1. IsFiniteSet(0 .. n - 1)
      BY FS_Interval
    <2> QED
      BY <2>1, FS_Subset, FS_CardinalityType
  <1>6. PICK j \in Nat : l = j + 1 /\ j \notin Bad
    <2>1. l \in Nat /\ l # 0
      BY <1>1, <1>4, <1>5
    <2>2. l - 1 \in Nat /\ l = (l - 1) + 1 /\ ~ l <= l - 1
      BY <2>1
    <2> QED
      BY <2>2, <1>1
  <1>7. VisitsBelow(n, j, f)
    BY <1>6
  <1>8. VisitsVertex(n, <<v, s>>, VisitFrom(f, outEdges, v, s))
    BY <1>3, <1>4, <1>6, <1>7, CallVisits
  <1>9. f[c] = VisitFrom(f, outEdges, v, s)
    BY <1>3 DEF IsVisit
  <1> QED
    BY <1>2, <1>3, <1>8, <1>9

\* An order of the vertices in which each of them is once.
IsOrder(n, order) ==
  /\ order \in Seq(0 .. n - 1) /\ DOMAIN order = 1 .. n /\ Len(order) = n
  /\ \A i, j \in 1 .. n : order[i] = order[j] => i = j
  /\ \A v \in 0 .. n - 1 : \E i \in 1 .. n : order[i] = v

\* GraphTraversal finishes each vertex of the graph once, those that cannot be reached
\* from vertex 0 among them.
THEOREM PostOrderComplete ==
  ASSUME NEW n \in Nat, NEW outEdges, OutEdgesOK(n, outEdges)
  PROVE  IsOrder(n, PostOrder(n, outEdges))
PROOF
  <1> DEFINE V == 0 .. n - 1
             start == [seen |-> {}, postorder |-> <<>>]
             list == [i \in 1 .. n |-> i - 1]
  <1>1. PICK f : f = CHOOSE g : IsVisit(n, outEdges, g)
    OBVIOUS
  <1>2. IsVisit(n, outEdges, f)
    BY <1>1, VisitExists
  <1>3. PostOrder(n, outEdges) = Folded(f, start, list).postorder
    BY <1>1, PostOrderVisits
  <1>4. VisitsBelow(n, n + 1, f)
    <2>1. n + 1 \in Nat
      OBVIOUS
    <2> QED
      BY <2>1, <1>2, EveryCallVisits
  <1>5. start \in Searches(n) /\ start.seen = {} /\ start.postorder = <<>>
    BY DEF Searches
  <1>6. list \in [1 .. n -> V] /\ DOMAIN list = 1 .. n
    OBVIOUS
  <1>7. Cardinality(V \ start.seen) < n + 1
    <2>1. Cardinality(0 .. n - 1) = n
      BY FS_Interval
    <2>2. V \ {} = V
      OBVIOUS
    <2> QED
      BY <2>1, <2>2, <1>5
  <1>8. \A v \in V : v + 1 \in 1 .. n /\ list[v + 1] = v
    OBVIOUS
  <1> HIDE DEF start, list, V
  <1>9. PICK w : IsTrace(f, start, list, n, w) /\ Folded(f, start, list) = w[n]
    BY <1>6, FoldTrace
  <1>10. ThroughList(n, start, list, w, n)
    <2>1. n \in 0 .. n /\ n + 1 \in Nat
      OBVIOUS
    <2> QED
      BY <2>1, <1>4, <1>5, <1>6, <1>7, <1>9, ListVisited DEF V
  <1>11. PICK r : r = w[n]
    OBVIOUS
  <1>12. r \in Searches(n) /\ Progress(start, r) /\ \A j \in 1 .. n : list[j] \in r.seen
    BY <1>10, <1>11 DEF ThroughList
  <1>13. r.seen = V
    <2>1. r.seen \subseteq V
      BY <1>12, SearchType, Zenon DEF V
    <2>2. \A v \in V : v \in r.seen
      <3> SUFFICES ASSUME NEW v \in V
                   PROVE  v \in r.seen
        OBVIOUS
      <3>1. PICK j \in 1 .. n : list[j] = v
        BY <1>8, Zenon
      <3> QED
        BY <1>12, <3>1, Zenon
    <2> QED
      BY <2>1, <2>2, Zenon
  <1>14. InOrder(r)
    <2>1. InOrder(start)
      BY <1>5 DEF InOrder
    <2> QED
      BY <2>1, <1>12 DEF Progress
  <1>15. Range(r.postorder) = V
    <2>1. Range(<<>>) = {}
      BY DEF Range
    <2> QED
      BY <2>1, <1>5, <1>12, <1>13 DEF Progress
  <1>16. PICK o : o = r.postorder
    OBVIOUS
  <1>17. o \in Seq(V) /\ PostOrder(n, outEdges) = o
    BY <1>3, <1>9, <1>11, <1>12, <1>16, SearchType DEF V
  <1>18. PICK m \in Nat : m = Len(o) /\ DOMAIN o = 1 .. m /\ o \in [1 .. m -> V]
    BY <1>17
  <1>19. /\ \A i, j \in 1 .. m : o[i] = o[j] => i = j
         /\ \A v \in V : \E i \in 1 .. m : o[i] = v
    <2>1. \A i, j \in 1 .. m : o[i] = o[j] => i = j
      BY <1>14, <1>16, <1>18 DEF InOrder
    <2>2. ASSUME NEW v \in V
          PROVE  \E i \in 1 .. m : o[i] = v
      <3>1. v \in Range(o)
        BY <1>15, <1>16
      <3> QED
        BY <3>1, <1>18 DEF Range
    <2> QED
      BY <2>1, <2>2
  <1>20. m = n
    <2>1. IsFiniteSet(1 .. m) /\ Cardinality(1 .. m) = m
      BY FS_Interval
    <2>2. IsFiniteSet(V) /\ Cardinality(V) = n
      BY FS_Interval DEF V
    <2>3. o \in Bijection(1 .. m, V)
      BY <1>18, <1>19 DEF Bijection, Injection, Surjection, IsInjective
    <2>4. ExistsBijection(1 .. m, V)
      BY <2>3 DEF ExistsBijection
    <2>5. Cardinality(V) = Cardinality(1 .. m)
      BY <2>1, <2>4, FS_Bijection
    <2> QED
      BY <2>1, <2>2, <2>5
  <1> QED
    BY <1>17, <1>18, <1>19, <1>20 DEF IsOrder, V

=============================================================================
