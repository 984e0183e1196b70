---------------------- MODULE IspParamsAssemblerProofs ----------------------
(***************************************************************************)
(* Proofs about IspParamsAssembler, for any number of result types, any    *)
(* limit of the map, and any order in which the types arrive.              *)
(*                                                                         *)
(* The types and the order of the results are proved for every mode, the   *)
(* order of the frames for all but a consumer that stalls while frames are *)
(* forced.  That nothing is lost and that the impossible case is one is    *)
(* for assemblers no frame of which is forced (Good), the count for a      *)
(* consumer that keeps up as well (StepInv).                               *)
(***************************************************************************)
EXTENDS IspParamsAssembler, FiniteSetTheorems, SequenceTheorems, WellFoundedInduction, TLAPS

-----------------------------------------------------------------------------
(* The assembler p, and the frame nx[k] from which on type k may come *)

\* The ready frames.
Full(p) == {i \in DOMAIN p.map : p.map[i].ready}

\* What kind of value the assembler is.
Shape(p) ==
  /\ p = [map |-> p.map, latest |-> p.latest, ready |-> p.ready]
  /\ DOMAIN p.map \in SUBSET Nat /\ \E b \in Nat : \A i \in DOMAIN p.map : i =< b
  /\ \A i \in DOMAIN p.map :
       p.map[i] \in [params : Seq(Results), flags : SUBSET Kinds, ready : BOOLEAN]
  /\ p.latest \in Nat \cup {-1} /\ p.ready \in Nat

\* A frame is ready if and only if nothing is missing; the latest ready one stays
\* until the frames before it are gone.
Ordered(p) ==
  /\ \A i \in DOMAIN p.map : p.map[i].ready <=> p.map[i].flags = Kinds
  /\ \A i \in Full(p) : i =< p.latest
  /\ \A i \in DOMAIN p.map : i =< p.latest => p.latest \in Full(p)

\* Type k will not come for frame i any more, nor late; and where it is in a later
\* frame it came for that frame.
Missed(p, nx, k, i) ==
  /\ nx[k] > p.latest /\ nx[k] > i
  /\ \A j \in DOMAIN p.map : j > i /\ k \in p.map[j].flags => nx[k] > j

\* An incomplete frame has everything the later frames have, or lacks a type it will
\* never get.
NeverFull(p, nx) ==
  \A i \in DOMAIN p.map \ Full(p) :
    \/ \A j \in DOMAIN p.map : j > i => p.map[j].flags \subseteq p.map[i].flags
    \/ \E k \in Kinds \ p.map[i].flags : Missed(p, nx, k, i)

\* So does a frame that is not there yet.
Holes(p, nx) ==
  \A h \in Nat \ DOMAIN p.map :
    h > p.latest /\ (\E j \in DOMAIN p.map : j > h) => \E k \in Kinds : Missed(p, nx, k, h)

\* The invariant where no frame is forced.
Good(p, nx) == Ordered(p) /\ NeverFull(p, nx) /\ Holes(p, nx)

-----------------------------------------------------------------------------
(* Lemmas about sets of frames and about maps *)

\* A nonempty set of natural numbers has a least element: Least.
LEMMA LeastFacts ==
  ASSUME NEW S \in SUBSET Nat, S /= {}
  PROVE  Least(S) \in S /\ \A y \in S : Least(S) =< y
<1>1. PICK k \in S : \A i \in S : <<i, k>> \notin OpToRel(<, Nat)
  BY WFMin, NatLessThanWellFounded
<1>2. \A i \in S : ~(i < k)
  <2> SUFFICES ASSUME NEW i \in S, i < k PROVE <<i, k>> \in OpToRel(<, Nat)
    BY <1>1
  <2>1. <<i, k>> \in Nat \X Nat /\ <<i, k>>[1] < <<i, k>>[2]
    OBVIOUS
  <2>2. QED
    BY <2>1 DEF OpToRel
<1>3. \A y \in S : k =< y
  BY <1>2
<1>4. QED
  BY <1>3 DEF Least

\* One that is bounded above has a greatest element: Greatest.
LEMMA GreatestFacts ==
  ASSUME NEW S \in SUBSET Nat, S /= {}, NEW b \in Nat, \A x \in S : x =< b
  PROVE  Greatest(S) \in S /\ \A y \in S : y =< Greatest(S)
<1> DEFINE N == {b - x : x \in S}
<1>1. N \in SUBSET Nat /\ N /= {}
  <2>1. \A x \in S : b - x \in Nat
    OBVIOUS
  <2>2. QED
    BY <2>1
<1>2. Least(N) \in N /\ \A y \in N : Least(N) =< y
  BY <1>1, LeastFacts
<1>3. PICK m \in S : Least(N) = b - m
  BY <1>2
<1>4. \A y \in S : y =< m
  <2> SUFFICES ASSUME NEW y \in S PROVE y =< m
    OBVIOUS
  <2>1. b - y \in N
    OBVIOUS
  <2>2. b - m =< b - y
    BY <2>1, <1>2, <1>3
  <2>3. m \in Int /\ y \in Int /\ b \in Int
    OBVIOUS
  <2>4. QED
    BY <2>2, <2>3
<1>5. QED
  BY <1>4 DEF Greatest

\* The map is finite.
LEMMA MapFinite ==
  ASSUME NEW p, Shape(p)
  PROVE  /\ IsFiniteSet(DOMAIN p.map)
         /\ \A S \in SUBSET DOMAIN p.map : IsFiniteSet(S) /\ Cardinality(S) \in Nat
<1>1. PICK b \in Nat : \A i \in DOMAIN p.map : i =< b
  BY DEF Shape
<1>2. DOMAIN p.map \in SUBSET Nat
  BY DEF Shape
<1>3. IsFiniteSet(DOMAIN p.map)
  BY <1>1, <1>2, FS_BoundedSetOfNaturals
<1>4. QED
  BY <1>3, FS_Subset, FS_CardinalityType

-----------------------------------------------------------------------------
(* Concat *)

\* The results of the frames in S up to i, from those up to i - 1.
Cat(map, S, prev, i) ==
  (IF i = 0 THEN << >> ELSE prev) \o (IF i \in S THEN map[i].params ELSE << >>)

\* Function g is as Concat defines it, up to frame n.
IsCat(map, S, n, g) == g = [i \in 0..n |-> Cat(map, S, g[i - 1], i)]

\* There is such a function.
LEMMA CatExists ==
  ASSUME NEW map, NEW S, NEW n \in Nat
  PROVE  \E g : IsCat(map, S, n, g)
<1> DEFINE Is(g, m) == IsCat(map, S, m, g)
           T == {m \in Nat : ~ \E g : Is(g, m)}
<1> HIDE DEF Is
<1>1. SUFFICES ASSUME T /= {} PROVE FALSE
  BY DEF Is
<1>2. Least(T) \in T /\ \A y \in T : Least(T) =< y
  BY <1>1, LeastFacts
<1> DEFINE m == Least(T)
<1>3. m \in Nat /\ ~(\E g : Is(g, m)) /\ \A y \in Nat : y < m => y \notin T
  BY <1>2
<1> HIDE DEF m
<1>4. CASE m = 0
  <2> DEFINE g == [i \in 0..0 |-> Cat(map, S, 0, i)]
  <2> HIDE DEF g
  <2>1. \A i \in 0..0 : Cat(map, S, 0, i) = Cat(map, S, g[i - 1], i)
    <3>1. \A i \in 0..0 : i = 0
      OBVIOUS
    <3>2. \A x, y : Cat(map, S, x, 0) = Cat(map, S, y, 0)
      BY DEF Cat
    <3>3. QED
      BY <3>1, <3>2
  <2>2. Is(g, 0)
    BY <2>1 DEF Is, IsCat, g
  <2>3. QED
    BY <2>2, <1>3, <1>4
<1>5. CASE m /= 0
  <2>1. m - 1 \in Nat /\ m - 1 < m
    BY <1>5, <1>3
  <2>2. PICK h : Is(h, m - 1)
    BY <2>1, <1>3 DEF T
  <2> DEFINE g == [i \in 0..m |-> IF i = m THEN Cat(map, S, h[m - 1], m) ELSE h[i]]
  <2>3. \A i \in 0..m : g[i] = Cat(map, S, g[i - 1], i)
    <3> SUFFICES ASSUME NEW i \in 0..m PROVE g[i] = Cat(map, S, g[i - 1], i)
      OBVIOUS
    <3>1. CASE i = m
      <4>1. m - 1 \in 0..m /\ m - 1 /= m
        BY <1>3, <2>1
      <4>2. g[m - 1] = h[m - 1] /\ g[m] = Cat(map, S, h[m - 1], m)
        BY <4>1, <1>3
      <4>3. QED
        BY <4>2, <3>1
    <3>2. CASE i /= m
      <4>1. i \in 0..(m - 1)
        BY <3>2, <1>3
      <4>2. g[i] = Cat(map, S, h[i - 1], i)
        BY <4>1, <3>2, <2>2 DEF Is, IsCat
      <4>3. CASE i = 0
        BY <4>2, <4>3 DEF Cat
      <4>4. CASE i /= 0
        <5>1. i - 1 \in 0..m /\ i - 1 /= m
          BY <4>4, <4>1, <1>3
        <5>2. g[i - 1] = h[i - 1]
          BY <5>1
        <5>3. QED
          BY <5>2, <4>2
      <4>5. QED
        BY <4>3, <4>4
    <3>3. QED
      BY <3>1, <3>2
  <2>4. g = [i \in 0..m |-> Cat(map, S, g[i - 1], i)]
    <3> DEFINE c == [i \in 0..m |-> Cat(map, S, g[i - 1], i)]
    <3>1. DOMAIN g = 0..m /\ DOMAIN c = 0..m /\ \A i \in 0..m : g[i] = c[i]
      BY <2>3
    <3> HIDE DEF c
    <3>2. g = [i \in 0..m |-> g[i]] /\ c = [i \in 0..m |-> c[i]]
      BY DEF c
    <3>3. QED
      BY <3>1, <3>2 DEF c
  <2>5. QED
    BY <2>4, <1>3 DEF Is, IsCat
<1>6. QED
  BY <1>4, <1>5
\* Concat by the steps of its definition.
LEMMA ConcatSteps ==
  ASSUME NEW map, NEW S \in SUBSET Nat, S /= {}, NEW b \in Nat, \A x \in S : x =< b
  PROVE  \E g : /\ Concat(map, S) = g[Greatest(S)]
                /\ \A i \in 0..Greatest(S) : g[i] = Cat(map, S, g[i - 1], i)
<1> DEFINE last == Greatest(S)
<1>1. last \in Nat
  BY GreatestFacts
<1> HIDE DEF last
<1> DEFINE Is(g) == IsCat(map, S, last, g)
           c == CHOOSE g : Is(g)
<1>2. c = [i \in 0..last |-> Cat(map, S, c[i - 1], i)]
  <2>1. \E g : Is(g)
    BY <1>1, CatExists
  <2> HIDE DEF Is
  <2>2. Is(c)
    BY <2>1
  <2> HIDE DEF c
  <2>3. QED
    BY <2>2 DEF Is, IsCat
<1>3. Concat(map, S) = c[last]
  BY DEF Concat, Cat, IsCat, last
<1> HIDE DEF c
<1>4. \A i \in 0..last : c[i] = Cat(map, S, c[i - 1], i)
  BY <1>2
<1>5. QED
  BY <1>3, <1>4 DEF last

-----------------------------------------------------------------------------
(* Lists of results, and their order *)

\* With the types in L late, x may come before y.
Precedes(L, x, y) == x.kind = y.kind /\ x.kind \notin L => x.number < y.number

\* List s is in order.
Sorted(L, s) == \A m, n \in DOMAIN s : m < n => Precedes(L, s[m], s[n])

\* Two lists in a row.
LEMMA ConcatenationFacts ==
  ASSUME NEW X, NEW s \in Seq(X), NEW t \in Seq(X)
  PROVE  /\ s \o t \in Seq(X)
         /\ Elements(s \o t) = Elements(s) \cup Elements(t)
         /\ \A L : Sorted(L, s) /\ Sorted(L, t)
                   /\ (\A x \in Elements(s), y \in Elements(t) : Precedes(L, x, y))
                   => Sorted(L, s \o t)
<1>1. /\ s \o t \in Seq(X) /\ Len(s \o t) = Len(s) + Len(t)
      /\ Len(s) \in Nat /\ Len(t) \in Nat
      /\ DOMAIN s = 1..Len(s) /\ DOMAIN t = 1..Len(t) /\ DOMAIN (s \o t) = 1..(Len(s) + Len(t))
  OBVIOUS
<1>2. \A n \in DOMAIN s : n \in DOMAIN (s \o t) /\ (s \o t)[n] = s[n]
  BY <1>1
<1>3. \A n \in DOMAIN t : n + Len(s) \in DOMAIN (s \o t) /\ (s \o t)[n + Len(s)] = t[n]
  BY <1>1
<1> DEFINE c == s \o t
<1>4. \A n \in DOMAIN c : \/ n =< Len(s) /\ n \in DOMAIN s /\ c[n] = s[n]
                          \/ n > Len(s) /\ n - Len(s) \in DOMAIN t /\ c[n] = t[n - Len(s)]
  <2> SUFFICES ASSUME NEW n \in 1..(Len(s) + Len(t))
               PROVE  \/ n =< Len(s) /\ n \in DOMAIN s /\ c[n] = s[n]
                      \/ n > Len(s) /\ n - Len(s) \in DOMAIN t /\ c[n] = t[n - Len(s)]
    BY <1>1
  <2>1. CASE n =< Len(s)
    BY <2>1, <1>1
  <2>2. CASE n > Len(s)
    BY <2>2, <1>1
  <2>3. QED
    BY <2>1, <2>2, <1>1
<1> HIDE DEF c
<1>5. Elements(c) = Elements(s) \cup Elements(t)
  <2>1. Elements(c) \subseteq Elements(s) \cup Elements(t)
    BY <1>4 DEF Elements
  <2>2. Elements(s) \subseteq Elements(c)
    BY <1>2 DEF Elements, c
  <2>3. Elements(t) \subseteq Elements(c)
    BY <1>3 DEF Elements, c
  <2>4. QED
    BY <2>1, <2>2, <2>3
<1>6. ASSUME NEW L, Sorted(L, s), Sorted(L, t),
             \A x \in Elements(s), y \in Elements(t) : Precedes(L, x, y)
      PROVE  Sorted(L, c)
  <2> SUFFICES ASSUME NEW m \in DOMAIN c, NEW n \in DOMAIN c, m < n
               PROVE  Precedes(L, c[m], c[n])
    BY DEF Sorted
  <2>1. m \in Nat /\ n \in Nat
    BY <1>1 DEF c
  <2>2. CASE n =< Len(s)
    <3>1. m =< Len(s)
      BY <2>1, <2>2, <1>1
    <3>2. m \in DOMAIN s /\ c[m] = s[m] /\ n \in DOMAIN s /\ c[n] = s[n]
      BY <2>1, <2>2, <3>1, <1>1, <1>4
    <3>3. QED
      BY <3>2, <1>6 DEF Sorted
  <2>3. CASE n > Len(s)
    <3>1. n - Len(s) \in DOMAIN t /\ c[n] = t[n - Len(s)]
      BY <2>1, <2>3, <1>1, <1>4
    <3>2. CASE m =< Len(s)
      <4>1. m \in DOMAIN s /\ c[m] = s[m]
        BY <2>1, <3>2, <1>1, <1>4
      <4>2. c[m] \in Elements(s) /\ c[n] \in Elements(t)
        BY <3>1, <4>1 DEF Elements
      <4>3. QED
        BY <4>2, <1>6
    <3>3. CASE m > Len(s)
      <4>1. m - Len(s) \in DOMAIN t /\ c[m] = t[m - Len(s)]
        BY <2>1, <3>3, <1>1, <1>4
      <4>2. m - Len(s) < n - Len(s)
        BY <2>1, <1>1
      <4>3. QED
        BY <3>1, <4>1, <4>2, <1>6 DEF Sorted
    <3>4. QED
      BY <3>2, <3>3, <2>1, <1>1
  <2>4. QED
    BY <2>2, <2>3, <2>1, <1>1
<1>7. QED
  BY <1>1, <1>5, <1>6 DEF c

\* A list and one result more.
LEMMA AppendFacts ==
  ASSUME NEW X, NEW s \in Seq(X), NEW r \in X
  PROVE  /\ Elements(Append(s, r)) = Elements(s) \cup {r}
         /\ \A L : Sorted(L, s) /\ (\A x \in Elements(s) : Precedes(L, x, r))
                   => Sorted(L, Append(s, r))
<1> DEFINE u == <<r>>
           a == Append(s, r)
<1>1. a = s \o u /\ u \in Seq(X)
  OBVIOUS
<1>2. Elements(u) = {r} /\ \A L : Sorted(L, u)
  BY DEF Elements, Sorted
<1> HIDE DEF u, a
<1>3. Elements(s \o u) = Elements(s) \cup Elements(u)
  BY <1>1, ConcatenationFacts
<1>4. \A L : Sorted(L, s) /\ (\A x \in Elements(s), y \in Elements(u) : Precedes(L, x, y))
              => Sorted(L, s \o u)
  BY <1>1, <1>2, ConcatenationFacts
<1>5. Elements(a) = Elements(s) \cup {r}
  BY <1>1, <1>2, <1>3
<1>6. ASSUME NEW L, Sorted(L, s), \A x \in Elements(s) : Precedes(L, x, r)
      PROVE  Sorted(L, a)
  BY <1>1, <1>2, <1>4, <1>6
<1>7. QED
  BY <1>5, <1>6 DEF a

\* Concat's elements are those of the frames, and in order if those are.
LEMMA ConcatFacts ==
  ASSUME NEW map, NEW S \in SUBSET Nat, S /= {}, NEW b \in Nat, \A x \in S : x =< b,
         NEW X, \A i \in S : map[i].params \in Seq(X)
  PROVE  /\ Concat(map, S) \in Seq(X)
         /\ Elements(Concat(map, S)) = UNION {Elements(map[i].params) : i \in S}
         /\ \A L : /\ \A i \in S : Sorted(L, map[i].params)
                   /\ \A i, j \in S : i < j =>
                        \A x \in Elements(map[i].params), y \in Elements(map[j].params) :
                          Precedes(L, x, y)
                   => Sorted(L, Concat(map, S))
<1> DEFINE last == Greatest(S)
           Up(i) == UNION {Elements(map[x].params) : x \in {y \in S : y =< i}}
           Fit(L) == /\ \A i \in S : Sorted(L, map[i].params)
                     /\ \A i, j \in S : i < j =>
                          \A x \in Elements(map[i].params), y \in Elements(map[j].params) :
                            Precedes(L, x, y)
           Is(s, i) == s \in Seq(X) /\ Elements(s) = Up(i) /\ \A L : Fit(L) => Sorted(L, s)
<1>1. last \in Nat /\ \A x \in S : x =< last
  BY GreatestFacts
<1> HIDE DEF last
<1>2. PICK g : /\ Concat(map, S) = g[last]
               /\ \A i \in 0..last : g[i] = Cat(map, S, g[i - 1], i)
  BY ConcatSteps DEF last
<1> DEFINE T == {i \in 0..last : ~Is(g[i], i)}
<1> HIDE DEF Is, Fit
<1>3. T = {}
  <2> SUFFICES ASSUME T /= {} PROVE FALSE
    OBVIOUS
  <2> DEFINE i == Least(T)
  <2>1. i \in T /\ \A y \in T : i =< y
    <3>1. T \in SUBSET Nat
      BY <1>1
    <3>2. QED
      BY <3>1, LeastFacts
  <2>0. \A y \in S : y \in Nat
    OBVIOUS
  <2>2. i \in 0..last /\ ~Is(g[i], i) /\ i \in Int
    BY <2>1, <1>1
  <2>3. i > 0 => Is(g[i - 1], i - 1)
    <3> HAVE i > 0
    <3>1. i - 1 \in 0..last /\ ~(i =< i - 1)
      BY <2>2, <1>1
    <3>2. i - 1 \notin T
      BY <2>1, <3>1
    <3>3. QED
      BY <3>1, <3>2
  <2> HIDE DEF i, T
  <2> DEFINE s == IF i = 0 THEN << >> ELSE g[i - 1]
             t == IF i \in S THEN map[i].params ELSE << >>
             A == UNION {Elements(map[x].params) : x \in {y \in S : y < i}}
             B == IF i \in S THEN Elements(map[i].params) ELSE {}
  <2>4. g[i] = s \o t
    BY <1>2, <2>2 DEF Cat
  <2>5. s \in Seq(X) /\ Elements(s) = A /\ \A L : Fit(L) => Sorted(L, s)
    <3>1. CASE i = 0
      <4>1. s = << >> /\ \A y \in S : ~(y < i)
        <5>1. s = << >>
          BY <3>1
        <5>2. \A y \in S : ~(y < 0)
          <6> SUFFICES ASSUME NEW y \in S PROVE ~(y < 0)
            OBVIOUS
          <6>1. y \in Nat
            BY <2>0
          <6>2. QED
            BY <6>1
        <5>3. QED
          BY <5>1, <5>2, <3>1
      <4>2. A = {}
        BY <4>1
      <4>3. Elements(<< >>) = {} /\ \A L : Sorted(L, << >>)
        BY DEF Elements, Sorted
      <4>4. << >> \in Seq(X)
        OBVIOUS
      <4> HIDE DEF s, A
      <4>5. QED
        BY <4>1, <4>2, <4>3, <4>4
    <3>2. CASE i /= 0
      <4>1. i > 0
        BY <3>2, <2>2
      <4>2. {y \in S : y < i} = {y \in S : y =< i - 1}
        <5>1. \A y \in S : y < i <=> y =< i - 1
          BY <2>2, <2>0
        <5>2. QED
          BY <5>1
      <4>3. s = g[i - 1] /\ A = Up(i - 1)
        BY <4>1, <4>2
      <4>4. QED
        BY <4>1, <4>3, <2>3 DEF Is
    <3>3. QED
      BY <3>1, <3>2
  <2>6. t \in Seq(X) /\ Elements(t) = B /\ \A L : Fit(L) => Sorted(L, t)
    <3>1. CASE i \in S
      BY <3>1 DEF Fit
    <3>2. CASE i \notin S
      BY <3>2 DEF Elements, Sorted
    <3>3. QED
      BY <3>1, <3>2
  <2>7. \A L : Fit(L) => \A x \in A, y \in B : Precedes(L, x, y)
    <3> SUFFICES ASSUME NEW L, Fit(L), NEW x \in A, NEW y \in B PROVE Precedes(L, x, y)
      OBVIOUS
    <3>1. i \in S /\ y \in Elements(map[i].params)
      OBVIOUS
    <3>2. PICK z \in S : z < i /\ x \in Elements(map[z].params)
      OBVIOUS
    <3>3. QED
      BY <3>1, <3>2 DEF Fit
  <2>8. Up(i) = A \cup B
    <3>1. CASE i \in S
      <4>1. {y \in S : y =< i} = {y \in S : y < i} \cup {i}
        <5>1. \A y \in S : y =< i <=> (y < i \/ y = i)
          BY <2>2, <2>0
        <5>2. QED
          BY <5>1, <3>1
      <4>2. B = Elements(map[i].params)
        BY <3>1
      <4> HIDE DEF B
      <4>3. QED
        BY <4>1, <4>2
    <3>2. CASE i \notin S
      <4>1. {y \in S : y =< i} = {y \in S : y < i}
        <5>1. \A y \in S : y =< i <=> y < i
          BY <2>2, <2>0, <3>2
        <5>2. QED
          BY <5>1
      <4>2. QED
        BY <4>1, <3>2
    <3>3. QED
      BY <3>1, <3>2
  <2> HIDE DEF s, t, A, B
  <2>9. /\ s \o t \in Seq(X) /\ Elements(s \o t) = Elements(s) \cup Elements(t)
        /\ \A L : Fit(L) => Sorted(L, s \o t)
    BY <2>5, <2>6, <2>7, ConcatenationFacts
  <2>10. QED
    BY <2>2, <2>4, <2>5, <2>6, <2>8, <2>9 DEF Is
<1>4. Is(g[last], last)
  BY <1>3, <1>1
<1>5. {y \in S : y =< last} = S
  BY <1>1
<1>6. QED
  BY <1>2, <1>4, <1>5 DEF Is, Fit

-----------------------------------------------------------------------------
(* queue_locked: where a result goes *)

\* What Shape says, in the forms the provers use.
LEMMA ShapeFacts ==
  ASSUME NEW p, Shape(p)
  PROVE  /\ DOMAIN p.map \in SUBSET Nat /\ \A i \in DOMAIN p.map : i \in Nat
         /\ \A i \in DOMAIN p.map : /\ p.map[i].params \in Seq(Results)
                                    /\ p.map[i].flags \in SUBSET Kinds
                                    /\ p.map[i].ready \in BOOLEAN
         /\ p.latest \in Int /\ p.latest >= -1 /\ p.ready \in Nat
         /\ Full(p) \in SUBSET DOMAIN p.map
         /\ DOMAIN p.map /= {} => /\ Least(DOMAIN p.map) \in DOMAIN p.map
                                  /\ Greatest(DOMAIN p.map) \in DOMAIN p.map
                                  /\ \A i \in DOMAIN p.map : /\ Least(DOMAIN p.map) =< i
                                                             /\ i =< Greatest(DOMAIN p.map)
<1>1. DOMAIN p.map \in SUBSET Nat
  BY DEF Shape
<1>2. PICK b \in Nat : \A i \in DOMAIN p.map : i =< b
  BY DEF Shape
<1>3. \A i \in DOMAIN p.map : /\ p.map[i].params \in Seq(Results)
                              /\ p.map[i].flags \in SUBSET Kinds
                              /\ p.map[i].ready \in BOOLEAN
  BY DEF Shape
<1>4. p.latest \in Int /\ p.latest >= -1 /\ p.ready \in Nat
  BY DEF Shape
<1>5. DOMAIN p.map /= {} => /\ Least(DOMAIN p.map) \in DOMAIN p.map
                            /\ \A i \in DOMAIN p.map : Least(DOMAIN p.map) =< i
  BY <1>1, LeastFacts
<1>6. DOMAIN p.map /= {} => /\ Greatest(DOMAIN p.map) \in DOMAIN p.map
                            /\ \A i \in DOMAIN p.map : i =< Greatest(DOMAIN p.map)
  BY <1>1, <1>2, GreatestFacts
<1>7. Full(p) \in SUBSET DOMAIN p.map
  BY DEF Full
<1>8. QED
  BY <1>1, <1>3, <1>4, <1>5, <1>6, <1>7

\* What a result is.
LEMMA ResultFacts ==
  ASSUME NEW r \in Results
  PROVE  r.kind \in Kinds /\ r.frame \in Nat /\ r.frame \in Int
BY AssemblerAssumption DEF Results

\* The frame of a result is a natural number, in every mode.
LEMMA TargetNat ==
  ASSUME NEW p, Shape(p), NEW r \in Results
  PROVE  Target(p, r) \in Nat
<1> DEFINE lacking == {i \in DOMAIN p.map : r.kind \notin p.map[i].flags}
<1>1. lacking /= {} => Least(lacking) \in Nat
  BY ShapeFacts, LeastFacts
<1>2. DOMAIN p.map /= {} => Greatest(DOMAIN p.map) \in Nat
  BY ShapeFacts
<1>3. r.frame \in Nat /\ p.latest \in Int /\ p.latest >= -1
  BY ShapeFacts, ResultFacts
<1>4. 1 + (IF DOMAIN p.map = {} THEN p.latest ELSE Greatest(DOMAIN p.map)) \in Nat
  BY <1>2, <1>3
<1>5. QED
  BY <1>1, <1>3, <1>4 DEF Target

\* The frame of a result, once a frame was ready: its own if it comes in time, else
\* the oldest that lacks its type, else one behind all others.
LEMMA TargetFacts ==
  ASSUME NEW p, Shape(p), Ordered(p), p.latest >= 0, NEW r \in Results
  PROVE  /\ Target(p, r) \in Nat /\ Target(p, r) \notin Full(p)
         /\ r.frame > p.latest => Target(p, r) = r.frame
         /\ r.frame =< p.latest =>
              \/ /\ Target(p, r) \in DOMAIN p.map /\ r.kind \notin p.map[Target(p, r)].flags
                 /\ \A i \in DOMAIN p.map : i < Target(p, r) => r.kind \in p.map[i].flags
              \/ /\ Target(p, r) > p.latest
                 /\ \A i \in DOMAIN p.map : i < Target(p, r) /\ r.kind \in p.map[i].flags
                 /\ Target(p, r) - 1 = p.latest \/ Target(p, r) - 1 \in DOMAIN p.map
<1> DEFINE lacking == {i \in DOMAIN p.map : r.kind \notin p.map[i].flags}
           t == Target(p, r)
<1>1. t \in Nat
  BY TargetNat
<1>2. r.frame \in Nat /\ p.latest \in Int /\ r.kind \in Kinds
  BY ShapeFacts, ResultFacts
<1>3. r.frame > p.latest => t = r.frame
  BY <1>2 DEF Target
<1>4. r.frame =< p.latest /\ lacking /= {} => t = Least(lacking)
  BY <1>2 DEF Target
<1>5. r.frame =< p.latest /\ lacking = {} =>
        t = 1 + (IF DOMAIN p.map = {} THEN p.latest ELSE Greatest(DOMAIN p.map))
  BY <1>2 DEF Target
<1> HIDE DEF t, lacking
<1>6. ASSUME r.frame =< p.latest, lacking /= {}
      PROVE  /\ t \in DOMAIN p.map /\ r.kind \notin p.map[t].flags
             /\ \A i \in DOMAIN p.map : i < t => r.kind \in p.map[i].flags
  <2>1. lacking \in SUBSET Nat /\ lacking \in SUBSET DOMAIN p.map
    BY ShapeFacts DEF lacking
  <2>2. t \in lacking /\ \A y \in lacking : t =< y
    BY <1>4, <1>6, <2>1, LeastFacts
  <2>3. \A i \in DOMAIN p.map : i \in Nat
    BY ShapeFacts
  <2>4. \A i \in DOMAIN p.map : i < t => i \notin lacking
    BY <1>1, <2>2, <2>3
  <2>5. QED
    BY <2>2, <2>4 DEF lacking
<1>7. ASSUME r.frame =< p.latest, lacking = {}
      PROVE  /\ t > p.latest
             /\ \A i \in DOMAIN p.map : i < t /\ r.kind \in p.map[i].flags
             /\ t - 1 = p.latest \/ t - 1 \in DOMAIN p.map
  <2>1. \A i \in DOMAIN p.map : r.kind \in p.map[i].flags
    BY <1>7 DEF lacking
  <2>2. CASE DOMAIN p.map = {}
    <3>1. t = 1 + p.latest
      BY <1>5, <1>7, <2>2
    <3>2. QED
      BY <3>1, <2>2, <1>2
  <2>3. CASE DOMAIN p.map /= {}
    <3> DEFINE g == Greatest(DOMAIN p.map)
    <3>1. g \in DOMAIN p.map /\ g \in Nat /\ \A i \in DOMAIN p.map : i \in Nat /\ i =< g
      BY <2>3, ShapeFacts
    <3>2. t = 1 + g
      BY <1>5, <1>7, <2>3
    <3> HIDE DEF g
    <3>3. g >= p.latest
      <4> SUFFICES ASSUME g =< p.latest PROVE p.latest =< g
        BY <3>1, <1>2
      <4>1. p.latest \in Full(p)
        BY <3>1 DEF Ordered
      <4>2. p.latest \in DOMAIN p.map
        BY <4>1, ShapeFacts
      <4>3. QED
        BY <4>2, <3>1
    <3>4. \A i \in DOMAIN p.map : i < t
      BY <3>1, <3>2
    <3>5. t > p.latest /\ t - 1 = g
      BY <3>1, <3>2, <3>3, <1>2
    <3>6. QED
      BY <3>1, <3>4, <3>5, <2>1
  <2>4. QED
    BY <2>2, <2>3
<1>8. t \notin Full(p)
  <2>1. \A i \in Full(p) : i \in DOMAIN p.map /\ i \in Nat /\ i =< p.latest
                           /\ p.map[i].flags = Kinds
    BY ShapeFacts DEF Ordered, Full
  <2>2. CASE r.frame > p.latest
    <3>1. t > p.latest
      BY <2>2, <1>3
    <3>2. QED
      BY <3>1, <2>1, <1>1, <1>2
  <2>3. CASE r.frame =< p.latest /\ lacking /= {}
    BY <2>3, <1>6, <2>1, <1>2
  <2>4. CASE r.frame =< p.latest /\ lacking = {}
    <3>1. t > p.latest
      BY <2>4, <1>7
    <3>2. QED
      BY <3>1, <2>1, <1>1, <1>2
  <2>5. QED
    BY <2>2, <2>3, <2>4, <1>2
<1>9. QED
  BY <1>1, <1>3, <1>6, <1>7, <1>8 DEF t

\* The entry of a frame that is there, and of one that is not, with another result.
LEMMA EntryOld ==
  ASSUME mask = Kinds, NEW p, NEW i \in DOMAIN p.map, NEW r \in Results
  PROVE  /\ Entry(p, i, r).params = Append(p.map[i].params, r)
         /\ Entry(p, i, r).flags = p.map[i].flags \cup {r.kind}
<1>1. {r.kind} \cap mask = {r.kind}
  BY ResultFacts
<1>2. /\ Entry(p, i, r).params = Append(p.map[i].params, r)
      /\ Entry(p, i, r).flags = p.map[i].flags \cup ({r.kind} \cap mask)
  BY DEF Entry
<1>3. QED
  BY <1>1, <1>2

\* As EntryOld.
LEMMA EntryNew ==
  ASSUME mask = Kinds, NEW p, NEW i, i \notin DOMAIN p.map, NEW r \in Results
  PROVE  /\ Entry(p, i, r).params = Append(<< >>, r)
         /\ Entry(p, i, r).flags = {r.kind}
<1>1. {r.kind} \cap mask = {r.kind}
  BY ResultFacts
<1>2. /\ Entry(p, i, r).params = Append(<< >>, r)
      /\ Entry(p, i, r).flags = {} \cup ({r.kind} \cap mask)
  BY DEF Entry
<1>3. QED
  BY <1>1, <1>2

\* In both cases the entry is ready when nothing is missing.
LEMMA EntryFacts ==
  ASSUME mask = Kinds, NEW p, Shape(p), NEW i \in Nat, NEW r \in Results
  PROVE  /\ Entry(p, i, r) \in [params : Seq(Results), flags : SUBSET Kinds, ready : BOOLEAN]
         /\ i \in DOMAIN p.map => /\ Entry(p, i, r).params = Append(p.map[i].params, r)
                                  /\ Entry(p, i, r).flags = p.map[i].flags \cup {r.kind}
         /\ i \notin DOMAIN p.map => /\ Entry(p, i, r).params = Append(<< >>, r)
                                     /\ Entry(p, i, r).flags = {r.kind}
         /\ Entry(p, i, r).ready <=> Entry(p, i, r).flags = Kinds
<1> DEFINE old == IF i \in DOMAIN p.map THEN p.map[i]
                                        ELSE [params |-> << >>, flags |-> {}, ready |-> FALSE]
           fl  == old.flags \cup ({r.kind} \cap mask)
           e   == [params |-> Append(old.params, r), flags |-> fl, ready |-> fl = mask]
<1>1. Entry(p, i, r) = e
  BY DEF Entry
<1>2. r.kind \in Kinds
  BY ResultFacts
<1>3. i \in DOMAIN p.map => old = p.map[i]
  OBVIOUS
<1>4. i \notin DOMAIN p.map => old.params = << >> /\ old.flags = {}
  OBVIOUS
<1>5. i \in DOMAIN p.map => p.map[i].params \in Seq(Results) /\ p.map[i].flags \in SUBSET Kinds
  BY ShapeFacts
<1> HIDE DEF old
<1>6. old.params \in Seq(Results) /\ old.flags \in SUBSET Kinds
  <2>1. << >> \in Seq(Results)
    OBVIOUS
  <2>2. QED
    BY <1>3, <1>4, <1>5, <2>1
<1>7. fl = old.flags \cup {r.kind} /\ fl \in SUBSET Kinds
  BY <1>2, <1>6
<1>8. Append(old.params, r) \in Seq(Results)
  BY <1>6
<1> HIDE DEF fl
<1>9. e.params = Append(old.params, r) /\ e.flags = fl /\ (e.ready <=> fl = Kinds)
  OBVIOUS
<1>10. e \in [params : Seq(Results), flags : SUBSET Kinds, ready : BOOLEAN]
  BY <1>7, <1>8
<1> HIDE DEF e
<1>11. QED
  BY <1>1, <1>3, <1>4, <1>7, <1>9, <1>10

-----------------------------------------------------------------------------
(* queue_locked: the entry *)

\* Put changes one entry, and keeps the shape.
LEMMA PutFacts ==
  ASSUME mask = Kinds, NEW p, Shape(p), NEW r \in Results
  PROVE  LET q == Put(p, r)
             t == Target(p, r)
             e == Entry(p, t, r)
         IN  /\ Shape(q)
             /\ DOMAIN q.map = DOMAIN p.map \cup {t}
             /\ q.map[t] = e
             /\ \A j \in DOMAIN p.map : j /= t => q.map[j] = p.map[j]
             /\ e.ready => q.latest = t /\ q.ready = p.ready + 1
             /\ ~e.ready => q.latest = p.latest /\ q.ready = p.ready
<1> DEFINE t == Target(p, r)
           e == Entry(p, t, r)
           q == Put(p, r)
<1>1. t \in Nat
  BY TargetNat
<1>2. e \in [params : Seq(Results), flags : SUBSET Kinds, ready : BOOLEAN]
  BY <1>1, EntryFacts
<1>3. /\ q.map = With(p.map, t, e)
      /\ q.latest = IF e.ready THEN t ELSE p.latest
      /\ q.ready = IF e.ready THEN p.ready + 1 ELSE p.ready
  BY DEF Put
<1>0. q = [map |-> q.map, latest |-> q.latest, ready |-> q.ready]
  BY DEF Put
<1> HIDE DEF t, e, q
<1>4. /\ DOMAIN q.map = DOMAIN p.map \cup {t}
      /\ q.map[t] = e
      /\ \A j \in DOMAIN p.map : j /= t => q.map[j] = p.map[j]
  BY <1>3 DEF With
<1>5. Shape(q)
  <2>1. PICK b \in Nat : \A i \in DOMAIN p.map : i =< b
    BY DEF Shape
  <2>2. DOMAIN p.map \in SUBSET Nat
    BY DEF Shape
  <2>3. \E c \in Nat : \A i \in DOMAIN q.map : i =< c
    <3>1. b + t \in Nat /\ t =< b + t /\ b =< b + t
      BY <1>1
    <3>2. \A i \in DOMAIN p.map : i \in Nat /\ i =< b
      BY <2>1, <2>2
    <3>3. \A i \in DOMAIN p.map : i =< b + t
      BY <3>1, <3>2, <1>1
    <3>4. QED
      BY <3>1, <3>3, <1>4
  <2>4. DOMAIN q.map \in SUBSET Nat
    BY <2>2, <1>1, <1>4
  <2>5. \A i \in DOMAIN q.map :
          q.map[i] \in [params : Seq(Results), flags : SUBSET Kinds, ready : BOOLEAN]
    <3>1. \A i \in DOMAIN p.map :
            p.map[i] \in [params : Seq(Results), flags : SUBSET Kinds, ready : BOOLEAN]
      BY DEF Shape
    <3>2. QED
      BY <3>1, <1>2, <1>4
  <2>6. q.latest \in Nat \cup {-1} /\ q.ready \in Nat
    <3>1. p.latest \in Nat \cup {-1} /\ p.ready \in Nat
      BY DEF Shape
    <3>2. QED
      BY <3>1, <1>1, <1>3
  <2>7. QED
    BY <1>0, <2>3, <2>4, <2>5, <2>6 DEF Shape
<1>6. QED
  BY <1>3, <1>4, <1>5 DEF t, e, q

\* A result r for the assembler p, no earlier than nx says; and what nx says then.
Arriving(p, nx, r) ==
  /\ Shape(p) /\ Good(p, nx) /\ p.latest >= 0
  /\ nx \in [Kinds -> Nat] /\ r \in Results /\ r.frame >= nx[r.kind]

\* The frames from which on the types may come, once result r came.
After(nx, r) == [nx EXCEPT ![r.kind] = r.frame + 1]

\* The facts of all that follows: the type is expected no later than its result and,
\* if that is late, no later than the latest ready frame.
LEMMA ArrivingFacts ==
  ASSUME NEW p, NEW nx, NEW r, Arriving(p, nx, r)
  PROVE  LET k0 == r.kind
             t  == Target(p, r)
         IN  /\ k0 \in Kinds /\ t \in Nat /\ t \notin Full(p) /\ p.latest \in Nat
             /\ nx[k0] \in Nat /\ nx[k0] =< r.frame /\ r.frame \in Nat
             /\ After(nx, r) \in [Kinds -> Nat] /\ After(nx, r)[k0] = r.frame + 1
             /\ \A k \in Kinds : /\ nx[k] \in Nat
                                 /\ k /= k0 => After(nx, r)[k] = nx[k]
                                 /\ nx[k] =< After(nx, r)[k]
<1>1. r.kind \in Kinds /\ r.frame \in Nat
  BY ResultFacts DEF Arriving
<1>2. Target(p, r) \in Nat /\ Target(p, r) \notin Full(p) /\ p.latest \in Nat
  BY TargetFacts, ShapeFacts DEF Arriving, Good
<1>3. nx \in [Kinds -> Nat] /\ nx[r.kind] =< r.frame
  BY <1>1 DEF Arriving
<1>4. /\ After(nx, r) \in [Kinds -> Nat] /\ After(nx, r)[r.kind] = r.frame + 1
      /\ \A k \in Kinds : k /= r.kind => After(nx, r)[k] = nx[k]
  BY <1>1, <1>3 DEF After
<1>5. \A k \in Kinds : nx[k] \in Nat
  BY <1>3
<1>6. \A k \in Kinds : nx[k] =< After(nx, r)[k]
  BY <1>1, <1>3, <1>4, <1>5
<1>7. QED
  BY <1>1, <1>2, <1>3, <1>4, <1>5, <1>6

\* The impossible case is impossible: a frame before the latest ready one lacks a
\* type that will not come late any more.
LEMMA NeverImpossible ==
  ASSUME mask = Kinds, NEW p, NEW nx, NEW r, Arriving(p, nx, r)
  PROVE  ~Impossible(p, r)
<1> DEFINE t  == Target(p, r)
           e  == Entry(p, t, r)
           k0 == r.kind
<1> SUFFICES ASSUME e.ready, t =< p.latest PROVE FALSE
  BY DEF Impossible
<1>1. /\ Shape(p) /\ Ordered(p) /\ NeverFull(p, nx) /\ p.latest >= 0 /\ r \in Results
  BY DEF Arriving, Good
<1>2. /\ k0 \in Kinds /\ t \in Nat /\ t \notin Full(p) /\ p.latest \in Nat
      /\ nx[k0] \in Nat /\ nx[k0] =< r.frame /\ r.frame \in Nat
      /\ \A k \in Kinds : nx[k] \in Nat
  BY ArrivingFacts
<1>3. r.frame =< p.latest
  <2> SUFFICES ASSUME r.frame > p.latest PROVE FALSE
    BY <1>2
  <2>1. t = r.frame
    BY <1>1, TargetFacts
  <2>2. QED
    BY <2>1, <1>2
<1>4. t \in DOMAIN p.map /\ k0 \notin p.map[t].flags
  <2>1. ~(t > p.latest)
    BY <1>2
  <2>2. QED
    BY <2>1, <1>1, <1>3, TargetFacts
<1>5. e.flags = Kinds /\ e.flags = p.map[t].flags \cup {k0}
  BY <1>1, <1>2, <1>4, EntryFacts
<1>6. p.latest \in Full(p)
  BY <1>1, <1>4 DEF Ordered
<1>7. p.latest \in DOMAIN p.map /\ p.map[p.latest].flags = Kinds
  BY <1>1, <1>6 DEF Ordered, Full
<1>8. t < p.latest
  BY <1>2, <1>6
<1>9. ~(p.map[p.latest].flags \subseteq p.map[t].flags)
  BY <1>2, <1>4, <1>7
<1>10. PICK k \in Kinds \ p.map[t].flags : Missed(p, nx, k, t)
  <2>1. t \in DOMAIN p.map \ Full(p)
    BY <1>2, <1>4
  <2>2. p.latest > t
    BY <1>8, <1>2
  <2> HIDE DEF t
  <2>3. QED
    BY <2>1, <2>2, <1>1, <1>7, <1>9 DEF NeverFull
<1>11. nx[k] > p.latest
  BY <1>10 DEF Missed
<1>12. k = k0
  BY <1>5, <1>10
<1>13. QED
  BY <1>2, <1>3, <1>11, <1>12

\* The assembler p before a result r with which the impossible case does not happen.
Possible(p, r) ==
  Shape(p) /\ Ordered(p) /\ p.latest >= 0 /\ r \in Results /\ ~Impossible(p, r)

\* No result that arrives as nx says is impossible.
LEMMA ArrivingPossible ==
  ASSUME mask = Kinds, NEW p, NEW nx, NEW r, Arriving(p, nx, r)
  PROVE  Possible(p, r)
BY NeverImpossible DEF Possible, Arriving, Good

\* What a result in time or late changes: the flags of one frame, which is ready if
\* that completes them, and is the latest then.
LEMMA PutPossible ==
  ASSUME mask = Kinds, NEW p, NEW r, Possible(p, r)
  PROVE  LET q  == Put(p, r)
             t  == Target(p, r)
             k0 == r.kind
         IN  /\ Shape(q)
             /\ DOMAIN q.map = DOMAIN p.map \cup {t}
             /\ \A j \in DOMAIN p.map : j /= t => q.map[j] = p.map[j]
             /\ t \in DOMAIN p.map => q.map[t].flags = p.map[t].flags \cup {k0}
             /\ t \notin DOMAIN p.map => q.map[t].flags = {k0}
             /\ \A j \in DOMAIN p.map : p.map[j].ready <=> p.map[j].flags = Kinds
             /\ q.map[t].ready <=> q.map[t].flags = Kinds
             /\ q.map[t].ready => /\ Full(q) = Full(p) \cup {t} /\ t > p.latest
                                  /\ q.latest = t /\ q.ready = p.ready + 1
             /\ ~q.map[t].ready => /\ Full(q) = Full(p)
                                   /\ q.latest = p.latest /\ q.ready = p.ready
             /\ q.latest >= p.latest
<1> DEFINE t  == Target(p, r)
           e  == Entry(p, t, r)
           q  == Put(p, r)
           k0 == r.kind
<1>1. Shape(p) /\ Ordered(p) /\ r \in Results
  BY DEF Possible
<1>2. t \in Nat /\ t \notin Full(p) /\ p.latest \in Nat
  BY TargetFacts, ShapeFacts DEF Possible
<1>3. /\ Shape(q)
      /\ DOMAIN q.map = DOMAIN p.map \cup {t}
      /\ q.map[t] = e
      /\ \A j \in DOMAIN p.map : j /= t => q.map[j] = p.map[j]
      /\ e.ready => q.latest = t /\ q.ready = p.ready + 1
      /\ ~e.ready => q.latest = p.latest /\ q.ready = p.ready
  BY <1>1, PutFacts
<1> HIDE DEF t
<1>4. /\ t \in DOMAIN p.map => e.flags = p.map[t].flags \cup {k0}
      /\ t \notin DOMAIN p.map => e.flags = {k0}
      /\ e.ready <=> e.flags = Kinds
  <2> HIDE DEF e, q
  <2>0. Shape(p) /\ t \in Nat /\ r \in Results
    BY <1>1, <1>2
  <2>1. t \in DOMAIN p.map => e.flags = p.map[t].flags \cup {k0}
    BY <2>0, EntryOld DEF e
  <2>2. t \notin DOMAIN p.map => e.flags = {k0}
    BY <2>0, EntryNew DEF e
  <2>3. e.ready <=> e.flags = Kinds
    BY <2>0, EntryFacts DEF e
  <2>4. QED
    BY <2>1, <2>2, <2>3
<1>5. e.ready => t > p.latest
  BY <1>2 DEF Possible, Impossible, t
<1>6. \A j \in DOMAIN p.map : p.map[j].ready <=> p.map[j].flags = Kinds
  BY <1>1 DEF Ordered
<1> HIDE DEF e, q
<1>7. e.ready => Full(q) = Full(p) \cup {t}
  BY <1>2, <1>3 DEF Full
<1>8. ~e.ready => Full(q) = Full(p)
  BY <1>2, <1>3 DEF Full
<1>9. q.latest >= p.latest
  BY <1>2, <1>3, <1>5
<1>10. QED
  BY <1>3, <1>4, <1>5, <1>6, <1>7, <1>8, <1>9 DEF t, q

\* A frame that lacks for ever a type it will never get still does so.
LEMMA MissedKept ==
  ASSUME mask = Kinds, NEW p, NEW nx, NEW r, Arriving(p, nx, r),
         NEW k \in Kinds, NEW i \in Nat, Missed(p, nx, k, i),
         i = Target(p, r) => ~Put(p, r).map[i].ready
  PROVE  Missed(Put(p, r), After(nx, r), k, i)
<1> DEFINE t  == Target(p, r)
           q  == Put(p, r)
           k0 == r.kind
           nn == After(nx, r)
<1>1. /\ k0 \in Kinds /\ t \in Nat /\ t \notin Full(p) /\ p.latest \in Nat
      /\ nx[k0] \in Nat /\ nx[k0] =< r.frame /\ r.frame \in Nat
      /\ nn[k0] = r.frame + 1 /\ nn[k] \in Nat
      /\ nx[k] \in Nat /\ nx[k] =< nn[k]
  <2>1. nn \in [Kinds -> Nat]
    BY ArrivingFacts
  <2>2. nn[k] \in Nat
    BY <2>1
  <2>3. QED
    BY <2>2, ArrivingFacts
<1>2. /\ DOMAIN q.map = DOMAIN p.map \cup {t}
      /\ \A j \in DOMAIN p.map : j /= t => q.map[j] = p.map[j]
      /\ t \in DOMAIN p.map => q.map[t].flags = p.map[t].flags \cup {k0}
      /\ t \notin DOMAIN p.map => q.map[t].flags = {k0}
      /\ q.map[t].ready <=> q.map[t].flags = Kinds
      /\ q.map[t].ready => q.latest = t
      /\ ~q.map[t].ready => q.latest = p.latest
  BY ArrivingPossible, PutPossible
<1>3. /\ nx[k] > p.latest /\ nx[k] > i
      /\ \A j \in DOMAIN p.map : j > i /\ k \in p.map[j].flags => nx[k] > j
  BY DEF Missed
<1>4. r.frame > p.latest => t = r.frame
  BY TargetFacts DEF Arriving, Good
<1>5. DOMAIN p.map \in SUBSET Nat
  BY ShapeFacts DEF Arriving
<1> HIDE DEF t, q, nn
<1>6. k = k0 => nn[k] > t
  <2> HAVE k = k0
  <2>1. r.frame > p.latest
    BY <1>1, <1>3
  <2>2. QED
    BY <2>1, <1>1, <1>4
<1>7. t > i /\ k \in q.map[t].flags => nn[k] > t
  <2> HAVE t > i /\ k \in q.map[t].flags
  <2>1. CASE k = k0
    BY <2>1, <1>6
  <2>2. CASE k /= k0
    <3>1. t \in DOMAIN p.map /\ k \in p.map[t].flags
      BY <2>2, <1>2
    <3>2. nx[k] > t
      BY <3>1, <1>3
    <3>3. QED
      BY <3>2, <1>1
  <2>3. QED
    BY <2>1, <2>2
<1>8. \A j \in DOMAIN q.map : j > i /\ k \in q.map[j].flags => nn[k] > j
  <2> SUFFICES ASSUME NEW j \in DOMAIN q.map, j > i, k \in q.map[j].flags, j /= t
               PROVE  nn[k] > j
    BY <1>7
  <2>1. j \in DOMAIN p.map /\ j \in Nat /\ k \in p.map[j].flags
    BY <1>2, <1>5
  <2>2. nx[k] > j
    BY <2>1, <1>3
  <2>3. QED
    BY <2>1, <2>2, <1>1
<1>9. nn[k] > q.latest
  <2>1. CASE q.map[t].ready
    <3>1. k \in q.map[t].flags /\ q.latest = t /\ i /= t
      BY <2>1, <1>2 DEF t, q
    <3>2. CASE t > i
      BY <3>1, <3>2, <1>7
    <3>3. CASE ~(t > i)
      BY <3>1, <3>3, <1>1, <1>3
    <3>4. QED
      BY <3>2, <3>3
  <2>2. CASE ~q.map[t].ready
    BY <2>2, <1>1, <1>2, <1>3
  <2>3. QED
    BY <2>1, <2>2
<1>10. nn[k] > i
  BY <1>1, <1>3
<1>11. QED
  BY <1>8, <1>9, <1>10 DEF Missed, q, nn

\* So the ready frames stay as Ordered says.
LEMMA OrderedPut ==
  ASSUME mask = Kinds, NEW p, NEW r, Possible(p, r)
  PROVE  Ordered(Put(p, r))
<1> DEFINE t  == Target(p, r)
           q  == Put(p, r)
           k0 == r.kind
<1>1. t \in Nat /\ t \notin Full(p) /\ p.latest \in Nat /\ r.frame \in Nat
  BY TargetFacts, ShapeFacts, ResultFacts DEF Possible
<1>2. /\ DOMAIN q.map = DOMAIN p.map \cup {t}
      /\ \A j \in DOMAIN p.map : j /= t => q.map[j] = p.map[j]
      /\ \A j \in DOMAIN p.map : p.map[j].ready <=> p.map[j].flags = Kinds
      /\ q.map[t].ready <=> q.map[t].flags = Kinds
      /\ q.map[t].ready => Full(q) = Full(p) \cup {t} /\ t > p.latest /\ q.latest = t
      /\ ~q.map[t].ready => Full(q) = Full(p) /\ q.latest = p.latest
  BY PutPossible
<1>3. /\ \A i \in Full(p) : i =< p.latest /\ i \in Nat
      /\ \A i \in DOMAIN p.map : i =< p.latest => p.latest \in Full(p)
  BY ShapeFacts DEF Possible, Ordered
<1>4. t =< p.latest => t \in DOMAIN p.map
  <2> HAVE t =< p.latest
  <2>1. ~(t > p.latest)
    BY <1>1
  <2>2. CASE r.frame > p.latest
    BY <2>1, <2>2, TargetFacts DEF Possible
  <2>3. CASE r.frame =< p.latest
    BY <2>1, <2>3, TargetFacts DEF Possible
  <2>4. QED
    BY <2>2, <2>3, <1>1
<1> HIDE DEF t, q
<1>5. \A i \in DOMAIN q.map : q.map[i].ready <=> q.map[i].flags = Kinds
  BY <1>2
<1>6. \A i \in Full(q) : i =< q.latest
  BY <1>1, <1>2, <1>3
<1>7. \A i \in DOMAIN q.map : i =< q.latest => q.latest \in Full(q)
  <2>1. CASE q.map[t].ready
    BY <2>1, <1>2
  <2>2. CASE ~q.map[t].ready
    BY <2>2, <1>2, <1>3, <1>4
  <2>3. QED
    BY <2>1, <2>2
<1>8. QED
  BY <1>5, <1>6, <1>7 DEF Ordered, q

\* And an incomplete frame still has what the later ones have, or lacks a type for ever.
LEMMA NeverFullPut ==
  ASSUME mask = Kinds, NEW p, NEW nx, NEW r, Arriving(p, nx, r)
  PROVE  NeverFull(Put(p, r), After(nx, r))
<1> DEFINE t  == Target(p, r)
           q  == Put(p, r)
           k0 == r.kind
           nn == After(nx, r)
<1>1. /\ k0 \in Kinds /\ t \in Nat /\ t \notin Full(p) /\ p.latest \in Nat
      /\ nx[k0] \in Nat /\ nx[k0] =< r.frame /\ r.frame \in Nat
      /\ nn[k0] = r.frame + 1 /\ \A k \in Kinds : nx[k] \in Nat
  BY ArrivingFacts
<1>2. /\ DOMAIN q.map = DOMAIN p.map \cup {t}
      /\ \A j \in DOMAIN p.map : j /= t => q.map[j] = p.map[j]
      /\ t \in DOMAIN p.map => q.map[t].flags = p.map[t].flags \cup {k0}
      /\ t \notin DOMAIN p.map => q.map[t].flags = {k0}
      /\ q.map[t].ready => Full(q) = Full(p) \cup {t} /\ t > p.latest /\ q.latest = t
      /\ ~q.map[t].ready => Full(q) = Full(p) /\ q.latest = p.latest
  BY ArrivingPossible, PutPossible
<1>3. /\ r.frame > p.latest => t = r.frame
      /\ r.frame =< p.latest =>
           \/ /\ t \in DOMAIN p.map /\ k0 \notin p.map[t].flags
              /\ \A i \in DOMAIN p.map : i < t => k0 \in p.map[i].flags
           \/ /\ t > p.latest
              /\ \A i \in DOMAIN p.map : i < t /\ k0 \in p.map[i].flags
  BY TargetFacts DEF Arriving, Good
<1>4. NeverFull(p, nx) /\ Holes(p, nx)
  BY DEF Arriving, Good
<1>5. \A i \in DOMAIN p.map : i \in Nat
  BY ShapeFacts DEF Arriving
<1>6. \A k \in Kinds, i \in Nat : Missed(p, nx, k, i) /\ (i = t => ~q.map[i].ready)
                                    => Missed(q, nn, k, i)
  BY MissedKept
<1>7. \A k \in Kinds, i \in Nat : Missed(p, nx, k, i) => nx[k] > p.latest /\ nx[k] > i
  BY DEF Missed
<1> HIDE DEF t, q, nn, k0
<1> SUFFICES ASSUME NEW i \in DOMAIN q.map \ Full(q)
             PROVE  \/ \A j \in DOMAIN q.map : j > i => q.map[j].flags \subseteq q.map[i].flags
                    \/ \E k \in Kinds \ q.map[i].flags : Missed(q, nn, k, i)
  BY DEF NeverFull, q, nn
<1>8. i \in Nat
  BY <1>1, <1>2, <1>5
<1>9. CASE i /= t
  <2>1. i \in DOMAIN p.map \ Full(p) /\ q.map[i] = p.map[i]
    BY <1>2, <1>9
  <2>2. CASE \E k \in Kinds \ p.map[i].flags : Missed(p, nx, k, i)
    BY <2>1, <2>2, <1>6, <1>8, <1>9
  <2>3. CASE \A j \in DOMAIN p.map : j > i => p.map[j].flags \subseteq p.map[i].flags
    <3>1. CASE t > i => k0 \in p.map[i].flags
      <4> SUFFICES ASSUME NEW j \in DOMAIN q.map, j > i PROVE q.map[j].flags \subseteq q.map[i].flags
        OBVIOUS
      <4>1. CASE j /= t
        <5>1. j \in DOMAIN p.map /\ q.map[j] = p.map[j]
          BY <4>1, <1>2
        <5>2. QED
          BY <5>1, <2>1, <2>3
      <4>2. CASE j = t
        <5>1. k0 \in p.map[i].flags
          BY <4>2, <3>1
        <5>2. CASE t \in DOMAIN p.map
          <6>1. p.map[t].flags \subseteq p.map[i].flags
            BY <5>2, <4>2, <2>3
          <6>2. q.map[t].flags = p.map[t].flags \cup {k0}
            BY <5>2, <1>2
          <6>3. q.map[j].flags = p.map[t].flags \cup {k0} /\ q.map[i].flags = p.map[i].flags
            BY <6>2, <4>2, <2>1
          <6>4. QED
            BY <6>1, <6>3, <5>1
        <5>3. CASE t \notin DOMAIN p.map
          <6>1. q.map[j].flags = {k0} /\ q.map[i].flags = p.map[i].flags
            BY <5>3, <4>2, <1>2, <2>1
          <6>2. QED
            BY <6>1, <5>1
        <5>4. QED
          BY <5>2, <5>3
      <4>3. QED
        BY <4>1, <4>2
    <3>2. CASE t > i /\ k0 \notin p.map[i].flags
      <4>1. i < t
        BY <3>2, <1>1, <1>8
      <4>2. ~(r.frame =< p.latest)
        <5> SUFFICES ASSUME r.frame =< p.latest PROVE FALSE
          OBVIOUS
        <5>1. \A y \in DOMAIN p.map : y < t => k0 \in p.map[y].flags
          BY <1>3
        <5>2. QED
          BY <5>1, <4>1, <2>1, <3>2
      <4>3. r.frame > p.latest /\ t = r.frame
        BY <4>2, <1>1, <1>3
      <4>4. nn[k0] > i /\ nn[k0] > q.latest /\ nn[k0] > t
        BY <4>1, <4>3, <1>1, <1>2, <1>8
      <4>5. \A j \in DOMAIN q.map : j > i /\ k0 \in q.map[j].flags => nn[k0] > j
        <5> SUFFICES ASSUME NEW j \in DOMAIN q.map, j > i, k0 \in q.map[j].flags, j /= t
                     PROVE  FALSE
          BY <4>4
        <5>1. j \in DOMAIN p.map /\ q.map[j] = p.map[j]
          BY <1>2
        <5>2. p.map[j].flags \subseteq p.map[i].flags
          BY <5>1, <2>3
        <5>3. QED
          BY <5>1, <5>2, <3>2
      <4>6. Missed(q, nn, k0, i)
        BY <4>4, <4>5 DEF Missed
      <4>7. k0 \in Kinds \ q.map[i].flags
        BY <1>1, <2>1, <3>2
      <4>8. QED
        BY <4>6, <4>7
    <3>3. QED
      BY <3>1, <3>2
  <2>4. QED
    BY <2>1, <2>2, <2>3, <1>4 DEF NeverFull
<1>10. CASE i = t
  <2>1. ~q.map[t].ready
    BY <1>2, <1>10
  <2>2. \A k \in Kinds : Missed(p, nx, k, t) => Missed(q, nn, k, t)
    BY <2>1, <1>1, <1>6
  <2>3. \A k \in Kinds : Missed(p, nx, k, t) => k /= k0
    <3> SUFFICES ASSUME NEW k \in Kinds, Missed(p, nx, k, t), k = k0 PROVE FALSE
      OBVIOUS
    <3>1. nx[k0] > p.latest /\ nx[k0] > t
      BY <1>1, <1>7
    <3>2. QED
      BY <3>1, <1>1, <1>3
  <2>4. CASE t \in DOMAIN p.map
    <3>1. q.map[t].flags = p.map[t].flags \cup {k0} /\ t \in DOMAIN p.map \ Full(p)
      BY <2>4, <1>1, <1>2
    <3>2. CASE \E k \in Kinds \ p.map[t].flags : Missed(p, nx, k, t)
      <4>1. PICK k \in Kinds \ p.map[t].flags : Missed(p, nx, k, t)
        BY <3>2
      <4>2. k /= k0 /\ Missed(q, nn, k, t)
        BY <4>1, <2>2, <2>3
      <4>3. k \in Kinds \ q.map[t].flags
        BY <4>1, <4>2, <3>1
      <4>4. QED
        BY <4>2, <4>3, <1>10
    <3>3. CASE \A j \in DOMAIN p.map : j > t => p.map[j].flags \subseteq p.map[t].flags
      <4> SUFFICES ASSUME NEW j \in DOMAIN q.map, j > t PROVE q.map[j].flags \subseteq q.map[t].flags
        BY <1>10
      <4>1. j /= t
        BY <1>1
      <4>2. j \in DOMAIN p.map /\ q.map[j] = p.map[j]
        BY <4>1, <1>2
      <4>3. p.map[j].flags \subseteq p.map[t].flags
        BY <4>2, <3>3
      <4>4. QED
        BY <4>2, <4>3, <3>1
    <3>4. QED
      BY <3>1, <3>2, <3>3, <1>4 DEF NeverFull
  <2>5. CASE t \notin DOMAIN p.map
    <3>1. q.map[t].flags = {k0}
      BY <2>5, <1>2
    <3>2. CASE \E j \in DOMAIN p.map : j > t
      <4>1. r.frame > p.latest
        <5> SUFFICES ASSUME r.frame =< p.latest PROVE FALSE
          BY <1>1
        <5>1. \A y \in DOMAIN p.map : y < t
          BY <1>3, <2>5
        <5>2. QED
          BY <5>1, <3>2, <1>1, <1>5
      <4>2. t > p.latest
        BY <4>1, <1>3
      <4>3. PICK k \in Kinds : Missed(p, nx, k, t)
        BY <4>2, <3>2, <2>5, <1>1, <1>4 DEF Holes
      <4>4. k /= k0 /\ Missed(q, nn, k, t)
        BY <4>3, <2>2, <2>3
      <4>5. k \in Kinds \ q.map[t].flags
        BY <4>3, <4>4, <3>1
      <4>6. QED
        BY <4>4, <4>5, <1>10
    <3>3. CASE ~ \E j \in DOMAIN p.map : j > t
      <4>1. \A j \in DOMAIN q.map : ~(j > t)
        BY <3>3, <1>1, <1>2
      <4>2. QED
        BY <4>1, <1>10
    <3>4. QED
      BY <3>2, <3>3
  <2>6. QED
    BY <2>4, <2>5
<1>11. QED
  BY <1>9, <1>10

\* And a frame that is not there yet lacks a type for ever, if it could be overtaken.
LEMMA HolesPut ==
  ASSUME mask = Kinds, NEW p, NEW nx, NEW r, Arriving(p, nx, r)
  PROVE  Holes(Put(p, r), After(nx, r))
<1> DEFINE t  == Target(p, r)
           q  == Put(p, r)
           k0 == r.kind
           nn == After(nx, r)
<1>1. /\ k0 \in Kinds /\ t \in Nat /\ p.latest \in Nat /\ r.frame \in Nat
      /\ nn[k0] = r.frame + 1
  BY ArrivingFacts
<1>2. /\ DOMAIN q.map = DOMAIN p.map \cup {t}
      /\ q.map[t].ready => t > p.latest /\ q.latest = t
      /\ ~q.map[t].ready => q.latest = p.latest
  BY ArrivingPossible, PutPossible
<1>3. /\ r.frame > p.latest => t = r.frame
      /\ r.frame =< p.latest => t \in DOMAIN p.map \/ t - 1 = p.latest \/ t - 1 \in DOMAIN p.map
  BY TargetFacts DEF Arriving, Good
<1>4. Holes(p, nx)
  BY DEF Arriving, Good
<1>5. \A i \in DOMAIN p.map : i \in Nat
  BY ShapeFacts DEF Arriving
<1>6. \A k \in Kinds, i \in Nat : Missed(p, nx, k, i) /\ i /= t => Missed(q, nn, k, i)
  BY MissedKept
<1> HIDE DEF t, q, nn, k0
<1> SUFFICES ASSUME NEW h \in Nat \ DOMAIN q.map, h > q.latest,
                    NEW j \in DOMAIN q.map, j > h
             PROVE  \E k \in Kinds : Missed(q, nn, k, h)
  BY DEF Holes, q, nn
<1>7. h \in Nat \ DOMAIN p.map /\ h /= t /\ h > p.latest
  <2>1. h \in Nat \ DOMAIN p.map /\ h /= t
    BY <1>2
  <2>2. h > p.latest
    BY <1>1, <1>2
  <2>3. QED
    BY <2>1, <2>2
<1>8. CASE \E y \in DOMAIN p.map : y > h
  <2>1. PICK k \in Kinds : Missed(p, nx, k, h)
    BY <1>4, <1>7, <1>8 DEF Holes
  <2>2. QED
    BY <2>1, <1>6, <1>7
<1>9. CASE ~ \E y \in DOMAIN p.map : y > h
  <2>1. j = t /\ t > h /\ t \notin DOMAIN p.map
    BY <1>2, <1>9
  <2>2. r.frame > p.latest
    <3> SUFFICES ASSUME r.frame =< p.latest PROVE FALSE
      BY <1>1
    <3>1. CASE t - 1 = p.latest
      BY <3>1, <2>1, <1>1, <1>7
    <3>2. CASE t - 1 \in DOMAIN p.map
      <4>1. t - 1 /= h /\ t - 1 >= h
        BY <3>2, <2>1, <1>1, <1>7
      <4>2. t - 1 > h
        BY <4>1, <1>1, <1>7
      <4>3. QED
        BY <4>2, <3>2, <1>9
    <3>3. QED
      BY <3>1, <3>2, <2>1, <1>3
  <2>3. nn[k0] > h /\ nn[k0] > t /\ nn[k0] > q.latest
    BY <2>1, <2>2, <1>1, <1>2, <1>3, <1>7
  <2>4. \A y \in DOMAIN q.map : y > h => y = t
    BY <1>2, <1>9
  <2>5. Missed(q, nn, k0, h)
    BY <2>3, <2>4 DEF Missed
  <2>6. QED
    BY <2>5, <1>1
<1>10. QED
  BY <1>8, <1>9

-----------------------------------------------------------------------------
(* queue_locked: the merge *)

\* The frames before the first ready one, and the last of them.
LEMMA UnreadyFacts ==
  ASSUME NEW q, Shape(q)
  PROVE  LET S == Unready(q)
         IN  /\ S \in SUBSET DOMAIN q.map /\ S \in SUBSET Nat
             /\ \A i \in S : i \notin Full(q) /\ \A j \in Full(q) : i < j
             /\ \A i \in DOMAIN q.map \ S : \E j \in Full(q) : j =< i
             /\ \E b \in Nat : \A i \in S : i =< b
             /\ S /= {} => Greatest(S) \in S /\ \A i \in S : i =< Greatest(S)
<1> DEFINE S == Unready(q)
<1>1. \A i \in DOMAIN q.map : i \in Nat
  BY ShapeFacts
<1>2. S \in SUBSET DOMAIN q.map /\ S \in SUBSET Nat
  BY <1>1 DEF Unready
<1>3. PICK b \in Nat : \A i \in DOMAIN q.map : i =< b
  BY DEF Shape
<1>4. S /= {} => Greatest(S) \in S /\ \A i \in S : i =< Greatest(S)
  <2>1. \A i \in S : i =< b
    BY <1>2, <1>3
  <2> HIDE DEF S
  <2>2. QED
    BY <2>1, <1>2, GreatestFacts
<1>5. \A i \in S : i \notin Full(q) /\ \A j \in Full(q) : i < j
  <2> SUFFICES ASSUME NEW i \in S PROVE i \notin Full(q) /\ \A j \in Full(q) : i < j
    OBVIOUS
  <2>1. i \in DOMAIN q.map /\ i \in Nat /\ \A j \in DOMAIN q.map : j =< i => ~q.map[j].ready
    BY <1>1 DEF Unready
  <2>2. \A j \in Full(q) : j \in DOMAIN q.map /\ j \in Nat /\ q.map[j].ready
    BY <1>1 DEF Full
  <2>3. QED
    BY <2>1, <2>2
<1>6. \A i \in DOMAIN q.map \ S : \E j \in Full(q) : j =< i
  BY DEF Unready, Full
<1>7. \E c \in Nat : \A i \in S : i =< c
  BY <1>2, <1>3
<1>8. QED
  BY <1>2, <1>4, <1>5, <1>6, <1>7

\* MergeInto makes them one ready frame, and keeps the shape.
LEMMA MergeFacts ==
  ASSUME mask = Kinds, NEW q, Shape(q), Unready(q) /= {}
  PROVE  LET S    == Unready(q)
             last == Greatest(S)
             m    == MergeInto(q, S)
         IN  /\ Shape(m)
             /\ DOMAIN m.map = (DOMAIN q.map \ S) \cup {last}
             /\ \A j \in DOMAIN q.map \ S : j /= last /\ m.map[j] = q.map[j]
             /\ m.map[last].ready /\ m.map[last].flags = Kinds
             /\ m.map[last].params = Concat(q.map, S)
             /\ Full(m) = Full(q) \cup {last}
             /\ m.latest = (IF last > q.latest THEN last ELSE q.latest)
             /\ m.ready = q.ready + 1
<1> DEFINE S    == Unready(q)
           last == Greatest(S)
           m    == MergeInto(q, S)
           all  == [params |-> Concat(q.map, S), flags |-> mask, ready |-> TRUE]
           rest == Restrict(q.map, DOMAIN q.map \ S)
<1>1. /\ S \in SUBSET DOMAIN q.map /\ S \in SUBSET Nat
      /\ last \in S /\ \A i \in S : i =< last /\ i \notin Full(q)
  BY UnreadyFacts
<1>2. PICK b \in Nat : \A i \in S : i =< b
  BY UnreadyFacts
<1>3. /\ m.map = With(rest, last, all)
      /\ m.latest = IF last > q.latest THEN last ELSE q.latest
      /\ m.ready = q.ready + 1
      /\ m = [map |-> m.map, latest |-> m.latest, ready |-> m.ready]
  BY DEF MergeInto
<1>4. Concat(q.map, S) \in Seq(Results)
  <2>1. \A i \in S : q.map[i].params \in Seq(Results)
    BY <1>1, ShapeFacts
  <2> HIDE DEF S
  <2>2. QED
    BY <2>1, <1>1, <1>2, ConcatFacts
<1>5. /\ all \in [params : Seq(Results), flags : SUBSET Kinds, ready : BOOLEAN]
      /\ all.ready = TRUE /\ all.flags = Kinds /\ all.params = Concat(q.map, S)
  BY <1>4
<1>6. DOMAIN rest = DOMAIN q.map \ S /\ \A j \in DOMAIN q.map \ S : rest[j] = q.map[j]
  BY DEF Restrict
<1> HIDE DEF S, last, all, rest, m
<1>7. /\ DOMAIN m.map = (DOMAIN q.map \ S) \cup {last}
      /\ m.map[last] = all
      /\ \A j \in DOMAIN q.map \ S : j /= last /\ m.map[j] = q.map[j]
  BY <1>1, <1>3, <1>6 DEF With
<1>8. /\ m.map[last].ready /\ m.map[last].flags = Kinds
      /\ m.map[last].params = Concat(q.map, S)
  BY <1>5, <1>7
<1>9. Full(m) = Full(q) \cup {last}
  <2>1. \A j \in Full(q) : j \in DOMAIN q.map \ S
    BY <1>1 DEF Full
  <2>2. \A j \in DOMAIN m.map : j /= last => j \in DOMAIN q.map /\ m.map[j] = q.map[j]
    BY <1>7
  <2>3. \A j : j \in Full(m) <=> j \in Full(q) \cup {last}
    <3>1. ASSUME NEW j \in Full(q) PROVE j \in Full(m)
      BY <2>1, <2>2, <1>7 DEF Full
    <3>2. last \in Full(m)
      BY <1>7, <1>8 DEF Full
    <3>3. ASSUME NEW j \in Full(m), j /= last PROVE j \in Full(q)
      <4>1. j \in DOMAIN m.map /\ m.map[j].ready
        BY DEF Full
      <4>2. j \in DOMAIN q.map /\ m.map[j] = q.map[j]
        BY <4>1, <3>3, <2>2
      <4>3. QED
        BY <4>1, <4>2 DEF Full
    <3>4. QED
      BY <3>1, <3>2, <3>3
  <2>4. QED
    BY <2>3
<1>10. Shape(m)
  <2>1. PICK c \in Nat : \A i \in DOMAIN q.map : i =< c
    BY DEF Shape
  <2>2. DOMAIN m.map \in SUBSET Nat /\ \A i \in DOMAIN m.map : i =< c
    <3>1. DOMAIN m.map \in SUBSET DOMAIN q.map
      BY <1>1, <1>7
    <3>2. QED
      BY <3>1, <2>1, ShapeFacts
  <2>3. \A i \in DOMAIN m.map :
          m.map[i] \in [params : Seq(Results), flags : SUBSET Kinds, ready : BOOLEAN]
    <3>1. \A i \in DOMAIN q.map :
            q.map[i] \in [params : Seq(Results), flags : SUBSET Kinds, ready : BOOLEAN]
      BY DEF Shape
    <3>2. QED
      BY <3>1, <1>5, <1>7
  <2>4. m.latest \in Nat \cup {-1} /\ m.ready \in Nat
    <3>1. q.latest \in Nat \cup {-1} /\ q.ready \in Nat
      BY DEF Shape
    <3>2. QED
      BY <3>1, <1>1, <1>3
  <2>5. QED
    BY <2>1, <2>2, <2>3, <2>4, <1>3 DEF Shape
<1>11. QED
  BY <1>3, <1>7, <1>8, <1>9, <1>10 DEF S, last, m

\* The ready frames stay as Ordered says.
LEMMA MergeOrdered ==
  ASSUME mask = Kinds, NEW q, Shape(q), Unready(q) /= {}, Ordered(q)
  PROVE  Ordered(MergeInto(q, Unready(q)))
<1> DEFINE S    == Unready(q)
           last == Greatest(S)
           m    == MergeInto(q, S)
<1>1. /\ S \in SUBSET DOMAIN q.map /\ S \in SUBSET Nat
      /\ \A i \in S : i \notin Full(q) /\ \A j \in Full(q) : i < j
      /\ \A i \in DOMAIN q.map \ S : \E j \in Full(q) : j =< i
      /\ last \in S /\ \A i \in S : i =< last
  BY UnreadyFacts
<1>2. /\ DOMAIN m.map = (DOMAIN q.map \ S) \cup {last}
      /\ \A j \in DOMAIN q.map \ S : j /= last /\ m.map[j] = q.map[j]
      /\ m.map[last].ready /\ m.map[last].flags = Kinds
      /\ Full(m) = Full(q) \cup {last}
      /\ m.latest = (IF last > q.latest THEN last ELSE q.latest)
  BY MergeFacts
<1>3. /\ q.latest \in Int /\ \A i \in DOMAIN q.map : i \in Nat
      /\ Full(q) \in SUBSET DOMAIN q.map
  BY ShapeFacts
<1>4. /\ \A i \in DOMAIN q.map : q.map[i].ready <=> q.map[i].flags = Kinds
      /\ \A i \in Full(q) : i =< q.latest
      /\ \A i \in DOMAIN q.map : i =< q.latest => q.latest \in Full(q)
  BY DEF Ordered
<1> HIDE DEF S, last, m
<1>5. last \in Nat /\ last \in DOMAIN q.map
  BY <1>1, <1>2, <1>3
<1>6. \A i \in DOMAIN m.map : m.map[i].ready <=> m.map[i].flags = Kinds
  BY <1>2, <1>4
<1>7. CASE last > q.latest
  <2>1. Full(q) = {}
    <3> SUFFICES ASSUME NEW j \in Full(q) PROVE FALSE
      OBVIOUS
    <3>1. j \in Nat /\ last < j /\ j =< q.latest
      BY <1>1, <1>3, <1>4
    <3>2. QED
      BY <3>1, <1>3, <1>5, <1>7
  <2>2. DOMAIN m.map = {last} /\ Full(m) = {last} /\ m.latest = last
    BY <2>1, <1>1, <1>2, <1>7
  <2>3. QED
    BY <2>2, <1>5, <1>6 DEF Ordered, m, S
<1>8. CASE ~(last > q.latest)
  <2>1. m.latest = q.latest /\ last =< q.latest
    BY <1>2, <1>3, <1>5, <1>8
  <2>2. q.latest \in Full(q) /\ q.latest \in Full(m)
    BY <2>1, <1>2, <1>4, <1>5
  <2>3. Ordered(m)
    BY <2>1, <2>2, <1>2, <1>4, <1>6 DEF Ordered
  <2>4. QED
    BY <2>3 DEF m, S
<1>9. QED
  BY <1>7, <1>8

\* What is good stays good when the frames before the first ready one are merged.
LEMMA MergeGood ==
  ASSUME mask = Kinds, NEW q, Shape(q), Unready(q) /= {},
         NEW nx \in [Kinds -> Nat], Good(q, nx)
  PROVE  /\ Good(MergeInto(q, Unready(q)), nx)
         /\ MergeInto(q, Unready(q)).latest >= q.latest
<1> DEFINE S    == Unready(q)
           last == Greatest(S)
           m    == MergeInto(q, S)
<1>1. /\ S \in SUBSET DOMAIN q.map /\ S \in SUBSET Nat
      /\ \A i \in S : i \notin Full(q) /\ \A j \in Full(q) : i < j
      /\ \A i \in DOMAIN q.map \ S : \E j \in Full(q) : j =< i
      /\ last \in S /\ \A i \in S : i =< last
  BY UnreadyFacts
<1>2. /\ DOMAIN m.map = (DOMAIN q.map \ S) \cup {last}
      /\ \A j \in DOMAIN q.map \ S : j /= last /\ m.map[j] = q.map[j]
      /\ m.map[last].ready /\ m.map[last].flags = Kinds
      /\ Full(m) = Full(q) \cup {last}
      /\ m.latest = (IF last > q.latest THEN last ELSE q.latest)
  BY MergeFacts
<1>3. /\ q.latest \in Int /\ \A i \in DOMAIN q.map : i \in Nat
      /\ Full(q) \in SUBSET DOMAIN q.map
  BY ShapeFacts
<1>4. /\ \A i \in DOMAIN q.map : q.map[i].ready <=> q.map[i].flags = Kinds
      /\ \A i \in Full(q) : i =< q.latest
      /\ \A i \in DOMAIN q.map : i =< q.latest => q.latest \in Full(q)
  BY DEF Good, Ordered
<1>5. NeverFull(q, nx) /\ Holes(q, nx)
  BY DEF Good
<1> HIDE DEF S, last, m
<1>6. last \in Nat /\ last \in DOMAIN q.map /\ m.latest >= q.latest
  BY <1>1, <1>2, <1>3
<1>7. Ordered(m)
  BY MergeOrdered DEF Good, m, S
<1>8. CASE last > q.latest
  <2>1. Full(q) = {}
    <3> SUFFICES ASSUME NEW j \in Full(q) PROVE FALSE
      OBVIOUS
    <3>1. j \in Nat /\ last < j /\ j =< q.latest
      BY <1>1, <1>3, <1>4
    <3>2. QED
      BY <3>1, <1>3, <1>6, <1>8
  <2>2. DOMAIN m.map = {last} /\ Full(m) = {last} /\ m.latest = last
    BY <2>1, <1>1, <1>2, <1>8
  <2>4. NeverFull(m, nx)
    BY <2>2 DEF NeverFull
  <2>5. Holes(m, nx)
    BY <2>2, <1>6 DEF Holes
  <2>6. QED
    BY <2>4, <2>5, <1>6, <1>7 DEF Good, m, S
<1>9. CASE ~(last > q.latest)
  <2>1. m.latest = q.latest /\ last =< q.latest
    BY <1>2, <1>3, <1>6, <1>9
  <2>4. \A j \in DOMAIN m.map : j > last => j \in DOMAIN q.map \ S /\ m.map[j] = q.map[j]
    BY <1>2, <1>6
  <2>5. \A i \in Nat, k \in Kinds : i >= last /\ Missed(q, nx, k, i) => Missed(m, nx, k, i)
    <3> SUFFICES ASSUME NEW i \in Nat, NEW k \in Kinds, i >= last, Missed(q, nx, k, i)
                 PROVE  Missed(m, nx, k, i)
      OBVIOUS
    <3>1. /\ nx[k] > q.latest /\ nx[k] > i
          /\ \A j \in DOMAIN q.map : j > i /\ k \in q.map[j].flags => nx[k] > j
      BY DEF Missed
    <3>2. \A j \in DOMAIN m.map : j > i /\ k \in m.map[j].flags => nx[k] > j
      <4> SUFFICES ASSUME NEW j \in DOMAIN m.map, j > i, k \in m.map[j].flags PROVE nx[k] > j
        OBVIOUS
      <4>1. j \in Nat
        BY <1>2, <1>3, <1>6
      <4>2. j > last
        BY <4>1, <1>6
      <4>3. QED
        BY <4>2, <2>4, <3>1
    <3>3. QED
      BY <3>1, <3>2, <2>1 DEF Missed
  <2>6. NeverFull(m, nx)
    <3> SUFFICES ASSUME NEW i \in DOMAIN m.map \ Full(m)
                 PROVE  \/ \A j \in DOMAIN m.map : j > i => m.map[j].flags \subseteq m.map[i].flags
                        \/ \E k \in Kinds \ m.map[i].flags : Missed(m, nx, k, i)
      BY DEF NeverFull
    <3>1. i /= last /\ i \in DOMAIN q.map \ S /\ m.map[i] = q.map[i] /\ i \notin Full(q) /\ i \in Nat
      BY <1>2, <1>3
    <3>2. i > last
      <4>1. PICK y \in Full(q) : y =< i
        BY <3>1, <1>1
      <4>2. last < y /\ y \in Nat
        BY <1>1, <1>3
      <4>3. QED
        BY <4>1, <4>2, <3>1, <1>6
    <3>3. CASE \A j \in DOMAIN q.map : j > i => q.map[j].flags \subseteq q.map[i].flags
      <4> SUFFICES ASSUME NEW j \in DOMAIN m.map, j > i PROVE m.map[j].flags \subseteq m.map[i].flags
        OBVIOUS
      <4>1. j \in Nat
        BY <1>2, <1>3, <1>6
      <4>2. j > last
        BY <4>1, <3>1, <3>2, <1>6
      <4>3. QED
        BY <4>2, <2>4, <3>1, <3>3
    <3>4. CASE \E k \in Kinds \ q.map[i].flags : Missed(q, nx, k, i)
      <4>1. i >= last
        BY <3>1, <3>2, <1>6
      <4>2. QED
        BY <4>1, <3>1, <3>4, <2>5
    <3>5. QED
      BY <3>1, <3>3, <3>4, <1>5 DEF NeverFull
  <2>7. Holes(m, nx)
    <3> SUFFICES ASSUME NEW h \in Nat \ DOMAIN m.map, h > m.latest,
                        NEW j \in DOMAIN m.map, j > h
                 PROVE  \E k \in Kinds : Missed(m, nx, k, h)
      BY DEF Holes
    <3>1. h > q.latest /\ h > last /\ j \in Nat
      BY <2>1, <1>2, <1>3, <1>6
    <3>2. h \notin DOMAIN q.map
      <4>1. h \notin S
        BY <3>1, <1>1, <1>6
      <4>2. QED
        BY <4>1, <1>2
    <3>3. j \in DOMAIN q.map
      BY <1>2, <1>6
    <3>4. PICK k \in Kinds : Missed(q, nx, k, h)
      BY <3>1, <3>2, <3>3, <1>5 DEF Holes
    <3>5. h >= last
      BY <3>1, <1>6
    <3>6. QED
      BY <3>4, <3>5, <2>5
  <2>8. QED
    BY <2>6, <2>7, <1>6, <1>7 DEF Good, m, S
<1>10. QED
  BY <1>8, <1>9

-----------------------------------------------------------------------------
(* queue_locked as a whole *)

\* In every mode the shape is kept, and the latest ready frame does not go back.
LEMMA QueuedShape ==
  ASSUME mask = Kinds, NEW p, Shape(p), NEW r \in Results
  PROVE  Shape(Queued(p, r)) /\ Queued(p, r).latest >= p.latest
<1> DEFINE t == Target(p, r)
           e == Entry(p, t, r)
           q == Put(p, r)
<1>1. t \in Nat /\ p.latest \in Int
  BY TargetNat, ShapeFacts
<1>2. CASE Impossible(p, r)
  <2> DEFINE s == [map |-> Restrict(p.map, DOMAIN p.map \ {t}),
                   latest |-> p.latest, ready |-> p.ready + 1]
  <2>1. Queued(p, r) = s
    BY <1>2 DEF Queued
  <2> HIDE DEF t
  <2>2. /\ DOMAIN s.map = DOMAIN p.map \ {t}
        /\ \A j \in DOMAIN s.map : s.map[j] = p.map[j]
        /\ s.latest = p.latest /\ s.ready = p.ready + 1
        /\ s = [map |-> s.map, latest |-> s.latest, ready |-> s.ready]
    BY DEF Restrict
  <2> HIDE DEF s
  <2>3. Shape(s)
    BY <2>2 DEF Shape
  <2>4. QED
    BY <2>1, <2>2, <2>3, <1>1
<1>3. CASE ~Impossible(p, r)
  <2>1. Queued(p, r) = Merged(q)
    BY <1>3 DEF Queued
  <2>2. /\ Shape(q)
        /\ e.ready => q.latest = t /\ q.ready = p.ready + 1
        /\ ~e.ready => q.latest = p.latest /\ q.ready = p.ready
    BY PutFacts
  <2>3. e.ready => t > p.latest
    BY <1>1, <1>3 DEF Impossible
  <2> HIDE DEF t, e, q
  <2>4. q.latest \in Int /\ q.latest >= p.latest
    BY <2>2, <2>3, <1>1
  <2>5. CASE Merged(q) = q
    BY <2>1, <2>2, <2>4, <2>5
  <2>6. CASE Merged(q) /= q
    <3>1. Unready(q) /= {} /\ Merged(q) = MergeInto(q, Unready(q))
      BY <2>6 DEF Merged
    <3> DEFINE last == Greatest(Unready(q))
               m    == MergeInto(q, Unready(q))
    <3>2. Shape(m) /\ m.latest = (IF last > q.latest THEN last ELSE q.latest)
      BY <3>1, <2>2, MergeFacts
    <3>3. last \in Nat
      BY <3>1, <2>2, UnreadyFacts
    <3> HIDE DEF last, m
    <3>4. m.latest >= p.latest
      BY <3>2, <3>3, <2>4, <1>1
    <3>5. QED
      BY <3>1, <3>2, <3>4, <2>1 DEF m
  <2>7. QED
    BY <2>5, <2>6
<1>4. QED
  BY <1>2, <1>3

\* But for the impossible case the ready frames stay as Ordered says and none is missing
\* from the count; the result is in a frame that was there or is not past.
LEMMA QueuedOrdered ==
  ASSUME mask = Kinds, NEW p, NEW r, Possible(p, r)
  PROVE  LET s == Queued(p, r)
             t == Target(p, r)
         IN  /\ Ordered(s) /\ s.latest >= p.latest /\ t \in Nat
             /\ DOMAIN s.map \in SUBSET (DOMAIN p.map \cup {t})
             /\ t \in DOMAIN p.map \/ t > p.latest
             /\ s.ready - Cardinality(Full(s)) = p.ready - Cardinality(Full(p))
<1> DEFINE t == Target(p, r)
           q == Put(p, r)
           s == Queued(p, r)
<1>1. Shape(p) /\ Shape(q) /\ Ordered(p) /\ p.latest >= 0 /\ r \in Results
  BY PutPossible DEF Possible
<1>2. t \in Nat /\ t \notin Full(p) /\ p.latest \in Int /\ r.frame \in Int
  BY <1>1, TargetFacts, ShapeFacts, ResultFacts
<1>3. s = Merged(q) /\ s.latest >= p.latest
  BY <1>1, QueuedShape DEF Queued, Possible
<1>4. Ordered(q)
  BY OrderedPut
<1>5. /\ DOMAIN q.map = DOMAIN p.map \cup {t}
      /\ q.map[t].ready => Full(q) = Full(p) \cup {t} /\ q.ready = p.ready + 1
      /\ ~q.map[t].ready => Full(q) = Full(p) /\ q.ready = p.ready
  BY PutPossible
<1>6. t \in DOMAIN p.map \/ t > p.latest
  <2>1. CASE r.frame > p.latest
    BY <2>1, <1>1, TargetFacts
  <2>2. CASE r.frame =< p.latest
    BY <2>2, <1>1, TargetFacts
  <2>3. QED
    BY <2>1, <2>2, <1>2
<1> HIDE DEF t, q, s
<1>7. /\ IsFiniteSet(Full(p)) /\ Cardinality(Full(p)) \in Nat /\ p.ready \in Nat
      /\ IsFiniteSet(Full(q)) /\ Cardinality(Full(q)) \in Nat /\ q.ready \in Nat
  BY <1>1, ShapeFacts, MapFinite
<1>8. q.ready - Cardinality(Full(q)) = p.ready - Cardinality(Full(p))
  <2>1. CASE q.map[t].ready
    <3>1. Cardinality(Full(q)) = Cardinality(Full(p)) + 1
      BY <2>1, <1>2, <1>5, <1>7, FS_AddElement
    <3>2. QED
      BY <3>1, <2>1, <1>5, <1>7
  <2>2. CASE ~q.map[t].ready
    BY <2>2, <1>5
  <2>3. QED
    BY <2>1, <2>2
<1>9. CASE Merged(q) = q
  <2>1. s = q
    BY <1>3, <1>9
  <2>2. QED
    BY <2>1, <1>2, <1>3, <1>4, <1>5, <1>6, <1>8 DEF t, s
<1>10. CASE Merged(q) /= q
  <2> DEFINE last == Greatest(Unready(q))
             m    == MergeInto(q, Unready(q))
  <2>1. Unready(q) /= {} /\ s = m
    BY <1>3, <1>10 DEF Merged
  <2>2. /\ DOMAIN m.map = (DOMAIN q.map \ Unready(q)) \cup {last}
        /\ Full(m) = Full(q) \cup {last} /\ m.ready = q.ready + 1
    BY <2>1, <1>1, MergeFacts
  <2>3. last \in DOMAIN q.map /\ last \notin Full(q)
    BY <2>1, <1>1, UnreadyFacts
  <2>4. Ordered(m)
    BY <2>1, <1>1, <1>4, MergeOrdered
  <2> HIDE DEF last, m
  <2>5. Cardinality(Full(m)) = Cardinality(Full(q)) + 1
    BY <2>2, <2>3, <1>7, FS_AddElement
  <2>6. m.ready - Cardinality(Full(m)) = p.ready - Cardinality(Full(p))
    BY <2>2, <2>5, <1>7, <1>8
  <2>7. DOMAIN m.map \in SUBSET (DOMAIN p.map \cup {t})
    BY <2>2, <2>3, <1>5
  <2>8. QED
    BY <2>1, <2>4, <2>6, <2>7, <1>2, <1>3, <1>6 DEF t, s
<1>11. QED
  BY <1>9, <1>10

\* In the impossible case the frame is gone that became ready, and counted.
LEMMA QueuedImpossible ==
  ASSUME mask = Kinds, NEW p, Shape(p), Ordered(p), p.latest >= 0, NEW r \in Results,
         Impossible(p, r)
  PROVE  LET s == Queued(p, r)
         IN  /\ Ordered(s) /\ s.latest = p.latest /\ s.ready = p.ready + 1
             /\ DOMAIN s.map \in SUBSET DOMAIN p.map
             /\ Full(s) = Full(p) /\ p.latest \in Full(p) /\ Full(p) /= DOMAIN p.map
<1> DEFINE t == Target(p, r)
           s == Queued(p, r)
<1>1. t \in Nat /\ t \notin Full(p) /\ p.latest \in Int /\ r.frame \in Int
  BY TargetFacts, ShapeFacts, ResultFacts
<1>2. t =< p.latest
  BY DEF Impossible
<1>3. t \in DOMAIN p.map
  <2>1. ~(t > p.latest)
    BY <1>1, <1>2
  <2>2. CASE r.frame > p.latest
    BY <2>1, <2>2, TargetFacts
  <2>3. CASE r.frame =< p.latest
    BY <2>1, <2>3, TargetFacts
  <2>4. QED
    BY <2>2, <2>3, <1>1
<1>4. /\ s.map = Restrict(p.map, DOMAIN p.map \ {t})
      /\ s.latest = p.latest /\ s.ready = p.ready + 1
  BY DEF Queued
<1> HIDE DEF t, s
<1>5. DOMAIN s.map = DOMAIN p.map \ {t} /\ \A j \in DOMAIN s.map : s.map[j] = p.map[j]
  BY <1>4 DEF Restrict
<1>6. Full(s) = Full(p)
  BY <1>1, <1>5 DEF Full
<1>7. p.latest \in Full(p)
  BY <1>2, <1>3 DEF Ordered
<1>8. Ordered(s)
  BY <1>4, <1>5, <1>6, <1>7 DEF Ordered
<1>9. QED
  BY <1>1, <1>3, <1>4, <1>5, <1>6, <1>7, <1>8 DEF s

\* Without forced frames what is good stays good.
LEMMA QueuedGood ==
  ASSUME mask = Kinds, NEW p, NEW nx, NEW r, Arriving(p, nx, r)
  PROVE  Good(Queued(p, r), After(nx, r))
<1> DEFINE q == Put(p, r)
           nn == After(nx, r)
<1>1. Shape(q) /\ nn \in [Kinds -> Nat]
  BY ArrivingFacts, ArrivingPossible, PutPossible
<1>2. Queued(p, r) = Merged(q)
  BY NeverImpossible DEF Queued
<1>3. Good(q, nn)
  BY ArrivingPossible, OrderedPut, NeverFullPut, HolesPut DEF Good
<1> HIDE DEF q, nn
<1>4. CASE Merged(q) = q
  BY <1>2, <1>3, <1>4 DEF nn
<1>5. CASE Merged(q) /= q
  <2>1. Unready(q) /= {} /\ Merged(q) = MergeInto(q, Unready(q))
    BY <1>5 DEF Merged
  <2>2. QED
    BY <2>1, <1>1, <1>2, <1>3, MergeGood DEF nn
<1>6. QED
  BY <1>4, <1>5

\* ReadyFirst, of the assembler p.
InOrder(p) == \A i, j \in DOMAIN p.map : p.map[i].ready /\ ~p.map[j].ready => i < j

\* The merge leaves the ready frames first when at most one of them was not.
LEMMA MergedInOrder ==
  ASSUME mask = Kinds, NEW q, Shape(q), q.ready = Cardinality(Full(q)),
         InOrder(q) \/ \E x : Full(q) = {x}
  PROVE  InOrder(Merged(q))
<1> DEFINE S == Unready(q)
           last == Greatest(S)
           m == MergeInto(q, S)
<1>1. /\ \A i \in S : i \in DOMAIN q.map /\ i \notin Full(q) /\ \A j \in Full(q) : i < j
      /\ \A i \in DOMAIN q.map \ S : \E j \in Full(q) : j =< i
      /\ S /= {} => last \in S /\ \A i \in S : i =< last
  BY UnreadyFacts
<1>2. S /= {} => /\ DOMAIN m.map = (DOMAIN q.map \ S) \cup {last}
                 /\ \A j \in DOMAIN q.map \ S : j /= last /\ m.map[j] = q.map[j]
                 /\ m.map[last].ready
                 /\ Full(m) = Full(q) \cup {last}
  BY MergeFacts
<1>3. \A i \in DOMAIN q.map : i \in Nat
  BY ShapeFacts
<1>4. Merged(q) = q \/ (S /= {} /\ Merged(q) = m)
  BY DEF Merged
<1>5. IsFiniteSet(Full(q))
  BY ShapeFacts, MapFinite
<1>6. \A j \in DOMAIN q.map : q.map[j].ready <=> j \in Full(q)
  BY DEF Full
<1>7. \A j \in DOMAIN m.map : m.map[j].ready <=> j \in Full(m)
  BY DEF Full
<1>8. q.ready > 0 /\ S /= {} => Merged(q) = m
  BY DEF Merged
<1> HIDE DEF S, last, m
<1>9. CASE InOrder(q) /\ Full(q) = {}
  <2>1. DOMAIN q.map \ S = {}
    BY <1>1, <1>9
  <2>2. S /= {} => DOMAIN m.map = {last} /\ m.map[last].ready
    BY <2>1, <1>2
  <2>3. S /= {} => InOrder(m)
    BY <2>2 DEF InOrder
  <2>4. QED
    BY <2>3, <1>4, <1>9
<1>10. CASE InOrder(q) /\ Full(q) /= {}
  <2>1. PICK j \in Full(q) : TRUE
    BY <1>10
  <2>2. j \in DOMAIN q.map /\ q.map[j].ready
    BY <2>1 DEF Full
  <2>3. S = {}
    <3> SUFFICES ASSUME NEW i \in S PROVE FALSE
      OBVIOUS
    <3>1. i < j /\ i \in DOMAIN q.map /\ ~q.map[i].ready
      BY <2>1, <1>1, <1>6
    <3>2. j < i
      BY <3>1, <2>2, <1>10 DEF InOrder
    <3>3. i \in Nat /\ j \in Nat
      BY <3>1, <2>2, <1>3
    <3>4. QED
      BY <3>1, <3>2, <3>3
  <2>4. QED
    BY <2>3, <1>4, <1>10
<1>11. ASSUME NEW x, Full(q) = {x}
       PROVE  InOrder(Merged(q))
  <2>1. x \in DOMAIN q.map /\ x \in Nat
    <3>1. Full(q) \in SUBSET DOMAIN q.map
      BY DEF Full
    <3>2. QED
      BY <3>1, <1>3, <1>11
  <2>2. q.ready > 0
    <3>1. Cardinality(Full(q)) = 1
      BY <1>5, <1>11, FS_Singleton
    <3>2. QED
      BY <3>1
  <2>3. \A j \in DOMAIN q.map \ S : j \notin Full(q) => x < j
    <3> SUFFICES ASSUME NEW j \in DOMAIN q.map \ S, j \notin Full(q) PROVE x < j
      OBVIOUS
    <3>1. x =< j /\ x /= j
      BY <1>1, <1>11
    <3>2. QED
      BY <3>1, <2>1, <1>3
  <2>4. CASE S = {}
    <3>1. Merged(q) = q
      BY <2>4, <1>4
    <3>2. InOrder(q)
      <4> SUFFICES ASSUME NEW i \in DOMAIN q.map, NEW j \in DOMAIN q.map,
                          q.map[i].ready, ~q.map[j].ready
                   PROVE  i < j
        BY DEF InOrder
      <4>1. i = x /\ j \notin Full(q)
        BY <1>6, <1>11
      <4>2. QED
        BY <4>1, <2>3, <2>4
    <3>3. QED
      BY <3>1, <3>2
  <2>5. CASE S /= {}
    <3>1. Merged(q) = m
      BY <2>2, <2>5, <1>8
    <3>2. last < x /\ last \in Nat
      BY <2>5, <1>1, <1>3, <1>11
    <3>3. InOrder(m)
      <4> SUFFICES ASSUME NEW i \in DOMAIN m.map, NEW j \in DOMAIN m.map,
                          m.map[i].ready, ~m.map[j].ready
                   PROVE  i < j
        BY DEF InOrder
      <4>1. i \in {x, last} /\ j \notin Full(m)
        BY <2>5, <1>2, <1>7, <1>11
      <4>2. j \in DOMAIN q.map \ S /\ j \notin Full(q)
        BY <4>1, <2>5, <1>2
      <4>3. x < j /\ j \in Nat
        BY <4>2, <2>3, <1>3
      <4>4. QED
        BY <4>1, <4>3, <3>2, <2>1
    <3>4. QED
      BY <3>1, <3>3
  <2>6. QED
    BY <2>4, <2>5
<1>12. QED
  BY <1>9, <1>10, <1>11

\* So does queue_locked when no frame, or every frame, was ready: those are what a
\* consumer leaves that takes the ready ones at once.
LEMMA QueuedInOrder ==
  ASSUME mask = Kinds, NEW p, NEW nx, NEW r, Arriving(p, nx, r),
         p.ready = Cardinality(Full(p)), Full(p) = {} \/ Full(p) = DOMAIN p.map
  PROVE  InOrder(Queued(p, r))
<1> DEFINE t == Target(p, r)
           q == Put(p, r)
           k0 == r.kind
<1>1. Shape(p) /\ Ordered(p) /\ p.latest >= 0 /\ r \in Results
  BY DEF Arriving, Good
<1>2. t \in Nat /\ t \notin Full(p) /\ p.latest \in Nat /\ r.frame \in Nat
  BY ArrivingFacts
<1>3. /\ Shape(q) /\ DOMAIN q.map = DOMAIN p.map \cup {t}
      /\ q.map[t].ready => Full(q) = Full(p) \cup {t} /\ q.ready = p.ready + 1
      /\ ~q.map[t].ready => Full(q) = Full(p) /\ q.ready = p.ready
  BY ArrivingPossible, PutPossible
<1>4. /\ r.frame > p.latest => t = r.frame
      /\ r.frame =< p.latest => t \in DOMAIN p.map \/ \A i \in DOMAIN p.map : i < t
  BY <1>1, TargetFacts
<1>5. Queued(p, r) = Merged(q)
  BY NeverImpossible DEF Queued
<1>6. \A i \in Full(p) : i \in Nat /\ i =< p.latest /\ i \in DOMAIN p.map
  BY <1>1, ShapeFacts DEF Ordered
<1> HIDE DEF t, q
<1>7. \A j \in DOMAIN q.map : q.map[j].ready <=> j \in Full(q)
  BY DEF Full
<1>8. IsFiniteSet(Full(p)) /\ Cardinality(Full(p)) \in Nat
  BY <1>1, ShapeFacts, MapFinite
<1>9. q.ready = Cardinality(Full(q))
  <2>1. CASE q.map[t].ready
    <3>1. Cardinality(Full(q)) = Cardinality(Full(p)) + 1
      BY <2>1, <1>2, <1>3, <1>8, FS_AddElement
    <3>2. QED
      BY <3>1, <2>1, <1>3, <1>8
  <2>2. CASE ~q.map[t].ready
    BY <2>2, <1>3
  <2>3. QED
    BY <2>1, <2>2
<1>10. InOrder(q) \/ \E x : Full(q) = {x}
  <2>1. CASE Full(p) = {} /\ q.map[t].ready
    BY <2>1, <1>3
  <2>2. CASE Full(p) = {} /\ ~q.map[t].ready
    BY <2>2, <1>3, <1>7 DEF InOrder
  <2>3. CASE Full(p) = DOMAIN p.map /\ q.map[t].ready
    BY <2>3, <1>3, <1>7 DEF InOrder
  <2>4. CASE Full(p) = DOMAIN p.map /\ ~q.map[t].ready
    <3>1. \A i \in Full(p) : i < t
      BY <2>4, <1>2, <1>4, <1>6
    <3>2. \A j \in DOMAIN q.map : ~q.map[j].ready => j = t
      BY <2>4, <1>3, <1>7
    <3>3. \A i \in DOMAIN q.map : q.map[i].ready => i \in Full(p)
      BY <2>4, <1>3, <1>7
    <3>4. InOrder(q)
      BY <3>1, <3>2, <3>3 DEF InOrder
    <3>5. QED
      BY <3>4
  <2>5. QED
    BY <2>1, <2>2, <2>3, <2>4
<1>11. QED
  BY <1>3, <1>5, <1>9, <1>10, MergedInOrder

-----------------------------------------------------------------------------
(* start(): the results of prepare() are queued *)

\* The assembler after i of the results of L, from that after i - 1.
Queues(p0, L, prev, i) == IF i = 0 THEN p0 ELSE Queued(prev, L[i])

\* Function g is as Start defines it, up to the n-th result.
IsAll(p0, L, n, g) == g = [i \in 0..n |-> Queues(p0, L, g[i - 1], i)]

\* There is such a function.
LEMMA AllExists ==
  ASSUME NEW p0, NEW L, NEW n \in Nat
  PROVE  \E g : IsAll(p0, L, n, g)
<1> DEFINE Is(g, m) == IsAll(p0, L, m, g)
           T == {m \in Nat : ~ \E g : Is(g, m)}
<1> HIDE DEF Is
<1>1. SUFFICES ASSUME T /= {} PROVE FALSE
  BY DEF Is
<1>2. Least(T) \in T /\ \A y \in T : Least(T) =< y
  BY <1>1, LeastFacts
<1> DEFINE m == Least(T)
<1>3. m \in Nat /\ ~(\E g : Is(g, m)) /\ \A y \in Nat : y < m => y \notin T
  BY <1>2
<1> HIDE DEF m
<1>4. CASE m = 0
  <2> DEFINE g == [i \in 0..0 |-> Queues(p0, L, 0, i)]
  <2> HIDE DEF g
  <2>1. \A i \in 0..0 : Queues(p0, L, 0, i) = Queues(p0, L, g[i - 1], i)
    <3>1. \A i \in 0..0 : i = 0
      OBVIOUS
    <3>2. \A x, y : Queues(p0, L, x, 0) = Queues(p0, L, y, 0)
      BY DEF Queues
    <3>3. QED
      BY <3>1, <3>2
  <2>2. Is(g, 0)
    BY <2>1 DEF Is, IsAll, g
  <2>3. QED
    BY <2>2, <1>3, <1>4
<1>5. CASE m /= 0
  <2>1. m - 1 \in Nat /\ m - 1 < m
    BY <1>5, <1>3
  <2>2. PICK h : Is(h, m - 1)
    BY <2>1, <1>3 DEF T
  <2> DEFINE g == [i \in 0..m |-> IF i = m THEN Queues(p0, L, h[m - 1], m) ELSE h[i]]
  <2>3. \A i \in 0..m : g[i] = Queues(p0, L, g[i - 1], i)
    <3> SUFFICES ASSUME NEW i \in 0..m PROVE g[i] = Queues(p0, L, g[i - 1], i)
      OBVIOUS
    <3>1. CASE i = m
      <4>1. m - 1 \in 0..m /\ m - 1 /= m
        BY <1>3, <2>1
      <4>2. g[m - 1] = h[m - 1] /\ g[m] = Queues(p0, L, h[m - 1], m)
        BY <4>1, <1>3
      <4>3. QED
        BY <4>2, <3>1
    <3>2. CASE i /= m
      <4>1. i \in 0..(m - 1)
        BY <3>2, <1>3
      <4>2. g[i] = Queues(p0, L, h[i - 1], i)
        BY <4>1, <3>2, <2>2 DEF Is, IsAll
      <4>3. CASE i = 0
        BY <4>2, <4>3 DEF Queues
      <4>4. CASE i /= 0
        <5>1. i - 1 \in 0..m /\ i - 1 /= m
          BY <4>4, <4>1, <1>3
        <5>2. g[i - 1] = h[i - 1]
          BY <5>1
        <5>3. QED
          BY <5>2, <4>2
      <4>5. QED
        BY <4>3, <4>4
    <3>3. QED
      BY <3>1, <3>2
  <2>4. g = [i \in 0..m |-> Queues(p0, L, g[i - 1], i)]
    <3> DEFINE c == [i \in 0..m |-> Queues(p0, L, g[i - 1], i)]
    <3>1. DOMAIN g = 0..m /\ DOMAIN c = 0..m /\ \A i \in 0..m : g[i] = c[i]
      BY <2>3
    <3> HIDE DEF c
    <3>2. g = [i \in 0..m |-> g[i]] /\ c = [i \in 0..m |-> c[i]]
      BY DEF c
    <3>3. QED
      BY <3>1, <3>2 DEF c
  <2>5. QED
    BY <2>4, <1>3 DEF Is, IsAll
<1>6. QED
  BY <1>4, <1>5
\* Start by the steps of its definition.
LEMMA StartSteps ==
  ASSUME Start, initList \in Seq(Results)
  PROVE  \E g : /\ g[0] = pending /\ pending' = g[Len(initList)]
                /\ \A i \in 1..Len(initList) : g[i] = Queued(g[i - 1], initList[i])
<1> DEFINE n == Len(initList)
           Is(g) == IsAll(pending, initList, n, g)
           c == CHOOSE g : Is(g)
<1>1. n \in Nat
  OBVIOUS
<1>2. pending' = c[n]
  BY DEF Start, Queues, IsAll
<1> HIDE DEF n
<1>3. c = [i \in 0..n |-> Queues(pending, initList, c[i - 1], i)]
  <2>1. \E g : Is(g)
    BY <1>1, AllExists
  <2> HIDE DEF Is
  <2>2. Is(c)
    BY <2>1
  <2> HIDE DEF c
  <2>3. QED
    BY <2>2 DEF Is, IsAll
<1> HIDE DEF c
<1>4. \A i \in 0..n : c[i] = Queues(pending, initList, c[i - 1], i)
  BY <1>3
<1>5. c[0] = pending
  BY <1>1, <1>4 DEF Queues
<1>6. \A i \in 1..n : c[i] = Queued(c[i - 1], initList[i])
  <2> SUFFICES ASSUME NEW i \in 1..n PROVE c[i] = Queued(c[i - 1], initList[i])
    OBVIOUS
  <2>1. i \in 0..n /\ i /= 0
    BY <1>1
  <2>2. QED
    BY <2>1, <1>4 DEF Queues
<1>7. QED
  BY <1>2, <1>5, <1>6 DEF n

\* The list of the initial results: one of each type, for frame 0.
OneOfEach(L) ==
  /\ L \in Seq(Results) /\ \A n \in DOMAIN L : L[n].frame = 0
  /\ Kinds = {L[n].kind : n \in DOMAIN L}
  /\ \A m, n \in DOMAIN L : L[m].kind = L[n].kind => m = n

\* The assembler with the first n of them: all in frame 0, which is ready with the last.
Gathered(p, L, n) ==
  /\ Shape(p)
  /\ DOMAIN p.map = (IF n = 0 THEN {} ELSE {0})
  /\ n > 0 => /\ p.map[0].flags = {L[i].kind : i \in 1..n}
              /\ Len(p.map[0].params) = n /\ \A i \in 1..n : p.map[0].params[i] = L[i]
              /\ p.map[0].ready <=> n = Len(L)
  /\ p.latest = (IF n = Len(L) THEN 0 ELSE -1)
  /\ p.ready = (IF n = Len(L) THEN 1 ELSE 0)

\* Each further one joins frame 0.
LEMMA GatherNext ==
  ASSUME mask = Kinds, NEW L, OneOfEach(L), NEW n \in 1..Len(L),
         NEW p, Gathered(p, L, n - 1)
  PROVE  Gathered(Queued(p, L[n]), L, n)
<1> DEFINE r == L[n]
           q == Put(p, r)
           e == Entry(p, 0, r)
           K(x) == {L[i].kind : i \in 1..x}
<1>1. /\ L \in Seq(Results) /\ r \in Results /\ n \in Nat /\ Len(L) \in Nat
      /\ n >= 1 /\ n =< Len(L) /\ r.frame = 0
  BY DEF OneOfEach
<1>2. /\ Shape(p) /\ p.latest = -1 /\ p.ready = 0
      /\ DOMAIN p.map = (IF n = 1 THEN {} ELSE {0})
      /\ n > 1 => /\ p.map[0].flags = K(n - 1)
                  /\ Len(p.map[0].params) = n - 1 /\ p.map[0].params \in Seq(Results)
                  /\ \A i \in 1..(n - 1) : p.map[0].params[i] = L[i]
  <2>1. n - 1 /= Len(L) /\ (n - 1 = 0 <=> n = 1) /\ (n - 1 > 0 <=> n > 1)
    BY <1>1
  <2>2. /\ Shape(p) /\ p.latest = -1 /\ p.ready = 0
        /\ DOMAIN p.map = (IF n = 1 THEN {} ELSE {0})
        /\ n > 1 => /\ p.map[0].flags = K(n - 1)
                    /\ Len(p.map[0].params) = n - 1
                    /\ \A i \in 1..(n - 1) : p.map[0].params[i] = L[i]
    BY <2>1 DEF Gathered
  <2>3. n > 1 => p.map[0].params \in Seq(Results)
    <3> HAVE n > 1
    <3>1. 0 \in DOMAIN p.map
      BY <2>2
    <3>2. QED
      BY <2>2, <3>1, ShapeFacts
  <2>4. QED
    BY <2>2, <2>3
<1>3. Target(p, r) = 0
  BY <1>1, <1>2 DEF Target
<1>4. K(n) = K(n - 1) \cup {r.kind}
  <2>1. 1..n = 1..(n - 1) \cup {n}
    BY <1>1
  <2>2. QED
    BY <2>1
<1>5. K(n) = Kinds <=> n = Len(L)
  <2>1. DOMAIN L = 1..Len(L) /\ Len(L) \in 1..Len(L)
    BY <1>1
  <2>2. K(Len(L)) = Kinds
    BY <2>1 DEF OneOfEach
  <2>3. ASSUME n /= Len(L) PROVE K(n) /= Kinds
    <3>1. L[Len(L)].kind \in Kinds
      BY <2>1, <2>2
    <3>2. \A i \in 1..n : i \in 1..Len(L) /\ i /= Len(L)
      BY <1>1, <2>3
    <3>3. \A i \in 1..n : L[i].kind /= L[Len(L)].kind
      BY <2>1, <3>2 DEF OneOfEach
    <3>4. L[Len(L)].kind \notin K(n)
      BY <3>3
    <3> HIDE DEF K
    <3>5. QED
      BY <3>1, <3>4
  <2> HIDE DEF K
  <2>4. QED
    BY <2>2, <2>3
<1>6. /\ e.params = (IF n = 1 THEN Append(<< >>, r) ELSE Append(p.map[0].params, r))
      /\ e.flags = K(n) /\ e \in [params : Seq(Results), flags : SUBSET Kinds, ready : BOOLEAN]
      /\ e.ready <=> n = Len(L)
  <2> HIDE DEF r
  <2>1. 0 \in Nat /\ Shape(p) /\ r \in Results
    BY <1>1, <1>2
  <2>2. /\ e \in [params : Seq(Results), flags : SUBSET Kinds, ready : BOOLEAN]
        /\ e.ready <=> e.flags = Kinds
    BY <2>1, EntryFacts
  <2>3. CASE n = 1
    <3>1. 0 \notin DOMAIN p.map
      BY <2>3, <1>2
    <3>2. e.params = Append(<< >>, r) /\ e.flags = {r.kind}
      BY <2>1, <3>1, EntryNew
    <3>3. K(n - 1) = {}
      BY <2>3
    <3> HIDE DEF K, e
    <3>4. e.flags = K(n)
      BY <3>2, <3>3, <1>4
    <3>5. QED
      BY <2>2, <2>3, <3>2, <3>4, <1>5 DEF e
  <2>4. CASE n /= 1
    <3>1. 0 \in DOMAIN p.map /\ p.map[0].flags = K(n - 1)
      BY <2>4, <1>1, <1>2
    <3> HIDE DEF K, e
    <3>2. e.params = Append(p.map[0].params, r) /\ e.flags = p.map[0].flags \cup {r.kind}
      BY <2>1, <3>1, EntryOld DEF e
    <3>3. e.flags = K(n)
      BY <3>1, <3>2, <1>4
    <3>4. QED
      BY <2>2, <2>4, <3>2, <3>3, <1>5 DEF e
  <2>5. QED
    BY <2>3, <2>4
<1>7. Len(e.params) = n /\ \A i \in 1..n : e.params[i] = L[i]
  <2> HIDE DEF e, q, K
  <2>1. CASE n = 1
    <3>1. e.params = <<r>>
      BY <2>1, <1>6
    <3>2. QED
      BY <3>1, <2>1
  <2>2. CASE n /= 1
    <3>1. n > 1
      BY <2>2, <1>1
    <3> DEFINE s == p.map[0].params
    <3>2. s \in Seq(Results) /\ Len(s) = n - 1 /\ \A i \in 1..(n - 1) : s[i] = L[i]
      BY <3>1, <1>2
    <3>3. e.params = Append(s, r)
      BY <2>2, <1>6
    <3> HIDE DEF s
    <3>4. Len(Append(s, r)) = n /\ Append(s, r)[n] = r
      BY <3>2, <1>1
    <3>5. \A i \in 1..(n - 1) : Append(s, r)[i] = s[i]
      BY <3>2, <1>1
    <3>6. \A i \in 1..n : i = n \/ i \in 1..(n - 1)
      BY <1>1
    <3>7. QED
      BY <3>2, <3>3, <3>4, <3>5, <3>6
  <2>3. QED
    BY <2>1, <2>2
<1>8. /\ Shape(q) /\ DOMAIN q.map = {0} /\ q.map[0] = e
      /\ e.ready => q.latest = 0 /\ q.ready = 1
      /\ ~e.ready => q.latest = -1 /\ q.ready = 0
  <2>1. /\ Shape(q)
        /\ DOMAIN q.map = DOMAIN p.map \cup {0}
        /\ q.map[0] = e
        /\ e.ready => q.latest = 0 /\ q.ready = p.ready + 1
        /\ ~e.ready => q.latest = p.latest /\ q.ready = p.ready
    <3> DEFINE t == Target(p, r)
               d == Entry(p, t, r)
    <3>1. Shape(p) /\ r \in Results
      BY <1>1, <1>2
    <3> HIDE DEF r
    <3>2. /\ Shape(q)
          /\ DOMAIN q.map = DOMAIN p.map \cup {t}
          /\ q.map[t] = d
          /\ d.ready => q.latest = t /\ q.ready = p.ready + 1
          /\ ~d.ready => q.latest = p.latest /\ q.ready = p.ready
      BY <3>1, PutFacts
    <3>3. t = 0 /\ d = e
      BY <1>3
    <3> HIDE DEF t, d, e, q
    <3>4. QED
      BY <3>2, <3>3
  <2> HIDE DEF q, e
  <2>2. DOMAIN q.map = {0}
    BY <2>1, <1>2
  <2>3. QED
    BY <2>1, <2>2, <1>2
<1>9. Queued(p, r) = Merged(q)
  BY <1>2, <1>3 DEF Queued, Impossible
<1>10. Merged(q) = q
  <2>1. Cardinality(DOMAIN q.map) = 1
    BY <1>8, FS_Singleton
  <2>2. CASE e.ready
    <3>1. Unready(q) = {}
      BY <2>2, <1>8 DEF Unready
    <3>2. QED
      BY <3>1 DEF Merged
  <2>3. CASE ~e.ready
    <3>1. ~(q.ready > 0)
      BY <2>3, <1>8
    <3>2. ~(Cardinality(DOMAIN q.map) > MaxPending)
      BY <2>1, AssemblerAssumption
    <3>3. QED
      BY <3>1, <3>2 DEF Merged
  <2>4. QED
    BY <2>2, <2>3
<1> HIDE DEF q, e
<1>11. Gathered(q, L, n)
  <2>1. /\ q.map[0].flags = {L[i].kind : i \in 1..n}
        /\ Len(q.map[0].params) = n /\ \A i \in 1..n : q.map[0].params[i] = L[i]
        /\ q.map[0].ready <=> n = Len(L)
    BY <1>6, <1>7, <1>8
  <2>2. q.latest = (IF n = Len(L) THEN 0 ELSE -1) /\ q.ready = (IF n = Len(L) THEN 1 ELSE 0)
    BY <1>6, <1>8
  <2>3. DOMAIN q.map = (IF n = 0 THEN {} ELSE {0})
    BY <1>1, <1>8
  <2>4. Shape(q)
    BY <1>8
  <2>5. QED
    BY <2>1, <2>2, <2>3, <2>4 DEF Gathered
<1>12. QED
  BY <1>9, <1>10, <1>11

\* start() leaves one frame, ready, with the initial results.
LEMMA StartGathers ==
  ASSUME Start, pending = Nothing, OneOfEach(initList)
  PROVE  Gathered(pending', initList, Len(initList))
<1> DEFINE L == initList
<1>1. L \in Seq(Results) /\ Len(L) \in Nat /\ mask = Kinds
  BY DEF OneOfEach, Start
<1>2. PICK g : /\ g[0] = pending /\ pending' = g[Len(L)]
               /\ \A i \in 1..Len(L) : g[i] = Queued(g[i - 1], L[i])
  BY <1>1, StartSteps
<1>3. Len(L) > 0
  <2> SUFFICES ASSUME Len(L) = 0 PROVE FALSE
    BY <1>1
  <2>1. DOMAIN L = {}
    BY <1>1
  <2>2. Kinds = {}
    BY <2>1 DEF OneOfEach
  <2>3. QED
    BY <2>2, AssemblerAssumption
<1>4. Gathered(g[0], L, 0)
  <2>1. Nothing.map = << >> /\ Nothing.latest = -1 /\ Nothing.ready = 0
    BY DEF Nothing
  <2>2. DOMAIN << >> = {}
    OBVIOUS
  <2>3. DOMAIN Nothing.map = {}
    BY <2>1, <2>2
  <2>4. Shape(Nothing)
    BY <2>1, <2>3 DEF Shape, Nothing
  <2>5. QED
    BY <2>1, <2>3, <2>4, <1>2, <1>3, <1>1 DEF Gathered
<1> HIDE DEF L
<1> DEFINE T == {n \in 0..Len(L) : ~Gathered(g[n], L, n)}
<1>5. T = {}
  <2> SUFFICES ASSUME T /= {} PROVE FALSE
    OBVIOUS
  <2> DEFINE n == Least(T)
  <2>1. n \in T /\ \A y \in T : n =< y
    <3>1. T \in SUBSET Nat
      BY <1>1
    <3>2. QED
      BY <3>1, LeastFacts
  <2>2. n \in 0..Len(L) /\ ~Gathered(g[n], L, n)
    BY <2>1
  <2>3. n /= 0
    BY <2>2, <1>4
  <2>4. n - 1 \in 0..Len(L) /\ ~(n =< n - 1) /\ n \in 1..Len(L)
    BY <2>2, <2>3, <1>1
  <2>5. Gathered(g[n - 1], L, n - 1)
    BY <2>1, <2>4
  <2> HIDE DEF n, T
  <2>6. Gathered(Queued(g[n - 1], L[n]), L, n)
    BY <2>4, <2>5, <1>1, GatherNext DEF L
  <2>7. QED
    BY <2>2, <2>4, <2>6, <1>2
<1>6. QED
  BY <1>2, <1>5, <1>1 DEF L

-----------------------------------------------------------------------------
(* The results in the frames *)

\* The results in frame i, and those in any frame.
In(p, i) == Elements(p.map[i].params)

Held(p) == UNION {In(p, i) : i \in DOMAIN p.map}

\* No result is in two frames.
Apart(p) == \A i, j \in DOMAIN p.map : i /= j => In(p, i) \cap In(p, j) = {}

\* Of a type that was never late the results are in order, in a frame and from a
\* frame to the next.
Lined(L, p) ==
  /\ \A i \in DOMAIN p.map : Sorted(L, p.map[i].params)
  /\ \A i, j \in DOMAIN p.map : i < j => \A x \in In(p, i), y \in In(p, j) : Precedes(L, x, y)

\* They are in frames before the next one of the type, or no later than the latest ready.
Placed(L, nx, p) ==
  \A i \in DOMAIN p.map : \A x \in In(p, i) :
    x.kind \notin L => i < nx[x.kind] \/ i =< p.latest

\* They are results.
LEMMA InFacts ==
  ASSUME NEW p, Shape(p)
  PROVE  /\ Held(p) \in SUBSET Results
         /\ \A i \in DOMAIN p.map : In(p, i) \in SUBSET Held(p)
         /\ \A x : x \in Held(p) <=> \E i \in DOMAIN p.map : x \in In(p, i)
<1>1. \A i \in DOMAIN p.map : p.map[i].params \in Seq(Results)
  BY ShapeFacts
<1>2. \A s \in Seq(Results) : Elements(s) \in SUBSET Results
  BY DEF Elements
<1>3. \A i \in DOMAIN p.map : In(p, i) \in SUBSET Results
  BY <1>1, <1>2 DEF In
<1>4. QED
  BY <1>3 DEF Held

\* The result is put in order into its frame, if it is behind those of its type.
LEMMA PutContents ==
  ASSUME mask = Kinds, NEW p, Shape(p), NEW r \in Results
  PROVE  LET q == Put(p, r)
             t == Target(p, r)
         IN  /\ Held(q) = Held(p) \cup {r}
             /\ \A i \in DOMAIN p.map : i /= t => In(q, i) = In(p, i)
             /\ t \in DOMAIN p.map => In(q, t) = In(p, t) \cup {r}
             /\ t \notin DOMAIN p.map => In(q, t) = {r}
             /\ Apart(p) /\ r \notin Held(p) => Apart(q)
             /\ \A L : /\ Lined(L, p)
                       /\ \A i \in DOMAIN p.map : \A x \in In(p, i) :
                            x.kind = r.kind /\ r.kind \notin L => i < t /\ x.number < r.number
                       => Lined(L, q)
<1> DEFINE t == Target(p, r)
           q == Put(p, r)
           e == Entry(p, t, r)
<1>1. /\ Shape(q)
      /\ DOMAIN q.map = DOMAIN p.map \cup {t}
      /\ q.map[t] = e
      /\ \A j \in DOMAIN p.map : j /= t => q.map[j] = p.map[j]
  BY PutFacts
<1>2. t \in Nat
  BY TargetNat
<1> HIDE DEF t, q
<1>3. t \in DOMAIN p.map => e.params = Append(p.map[t].params, r)
  BY EntryOld
<1>4. t \notin DOMAIN p.map => e.params = Append(<< >>, r)
  BY EntryNew
<1> HIDE DEF e
<1>5. /\ \A i \in DOMAIN p.map : p.map[i].params \in Seq(Results)
      /\ \A i \in DOMAIN p.map : i \in Nat
  BY ShapeFacts
<1>6. \A i \in DOMAIN p.map : i /= t => In(q, i) = In(p, i)
  BY <1>1 DEF In
<1>7. t \in DOMAIN p.map => In(q, t) = In(p, t) \cup {r}
  <2> HAVE t \in DOMAIN p.map
  <2>1. p.map[t].params \in Seq(Results)
    BY <1>5
  <2>2. Elements(Append(p.map[t].params, r)) = Elements(p.map[t].params) \cup {r}
    BY <2>1, AppendFacts
  <2>3. QED
    BY <2>2, <1>1, <1>3 DEF In
<1>8. t \notin DOMAIN p.map => In(q, t) = {r}
  <2> HAVE t \notin DOMAIN p.map
  <2>1. q.map[t].params = <<r>>
    BY <1>1, <1>4
  <2>2. Elements(<<r>>) = {r}
    BY DEF Elements
  <2>3. QED
    BY <2>1, <2>2 DEF In
<1>9. Held(q) = Held(p) \cup {r}
  <2>1. \A x : x \in Held(q) <=> \E i \in DOMAIN q.map : x \in In(q, i)
    BY <1>1, InFacts
  <2>2. \A x : x \in Held(p) <=> \E i \in DOMAIN p.map : x \in In(p, i)
    BY InFacts
  <2>3. CASE t \in DOMAIN p.map
    BY <2>1, <2>2, <2>3, <1>1, <1>6, <1>7
  <2>4. CASE t \notin DOMAIN p.map
    BY <2>1, <2>2, <2>4, <1>1, <1>6, <1>8
  <2>5. QED
    BY <2>3, <2>4
<1>10. ASSUME Apart(p), r \notin Held(p)
       PROVE  Apart(q)
  <2>1. \A i \in DOMAIN p.map : r \notin In(p, i)
    BY <1>10, InFacts
  <2> SUFFICES ASSUME NEW i \in DOMAIN q.map, NEW j \in DOMAIN q.map, i /= j
               PROVE  In(q, i) \cap In(q, j) = {}
    BY DEF Apart
  <2>2. \A k \in DOMAIN p.map, l \in DOMAIN p.map : k /= l => In(p, k) \cap In(p, l) = {}
    BY <1>10 DEF Apart
  <2>3. CASE i /= t /\ j /= t
    BY <2>2, <2>3, <1>1, <1>6
  <2>4. CASE i = t
    <3>1. j \in DOMAIN p.map /\ In(q, j) = In(p, j) /\ r \notin In(p, j) /\ j /= t
      BY <2>1, <2>4, <1>1, <1>6
    <3>2. CASE t \in DOMAIN p.map
      BY <3>1, <3>2, <2>2, <2>4, <1>7
    <3>3. CASE t \notin DOMAIN p.map
      BY <3>1, <3>3, <2>4, <1>8
    <3>4. QED
      BY <3>2, <3>3
  <2>5. CASE j = t
    <3>1. i \in DOMAIN p.map /\ In(q, i) = In(p, i) /\ r \notin In(p, i) /\ i /= t
      BY <2>1, <2>5, <1>1, <1>6
    <3>2. CASE t \in DOMAIN p.map
      BY <3>1, <3>2, <2>2, <2>5, <1>7
    <3>3. CASE t \notin DOMAIN p.map
      BY <3>1, <3>3, <2>5, <1>8
    <3>4. QED
      BY <3>2, <3>3
  <2>6. QED
    BY <2>3, <2>4, <2>5
<1>11. ASSUME NEW L, Lined(L, p),
              \A i \in DOMAIN p.map : \A x \in In(p, i) :
                x.kind = r.kind /\ r.kind \notin L => i < t /\ x.number < r.number
       PROVE  Lined(L, q)
  <2>1. /\ \A i \in DOMAIN p.map : Sorted(L, p.map[i].params)
        /\ \A i, j \in DOMAIN p.map : i < j =>
             \A x \in In(p, i), y \in In(p, j) : Precedes(L, x, y)
    BY <1>11 DEF Lined
  <2>2. \A i \in DOMAIN p.map : \A x \in In(p, i) : Precedes(L, x, r)
    BY <1>11 DEF Precedes
  <2>3. \A i \in DOMAIN p.map : i > t => \A x \in In(p, i) : Precedes(L, r, x)
    <3> SUFFICES ASSUME NEW i \in DOMAIN p.map, i > t, NEW x \in In(p, i),
                        r.kind = x.kind, r.kind \notin L
                 PROVE  FALSE
      BY DEF Precedes
    <3>1. i < t
      BY <1>11
    <3>2. QED
      BY <3>1, <1>2, <1>5
  <2>4. Sorted(L, q.map[t].params)
    <3>1. CASE t \in DOMAIN p.map
      <4>1. p.map[t].params \in Seq(Results) /\ Sorted(L, p.map[t].params)
        BY <3>1, <2>1, <1>5
      <4>2. \A x \in Elements(p.map[t].params) : Precedes(L, x, r)
        BY <3>1, <2>2 DEF In
      <4>3. Sorted(L, Append(p.map[t].params, r))
        BY <4>1, <4>2, AppendFacts
      <4>4. QED
        BY <4>3, <3>1, <1>1, <1>3
    <3>2. CASE t \notin DOMAIN p.map
      <4>1. q.map[t].params = <<r>>
        BY <3>2, <1>1, <1>4
      <4>2. Sorted(L, <<r>>)
        BY DEF Sorted
      <4>3. QED
        BY <4>1, <4>2
    <3>3. QED
      BY <3>1, <3>2
  <2>5. \A i \in DOMAIN q.map : Sorted(L, q.map[i].params)
    BY <2>1, <2>4, <1>1
  <2>6. ASSUME NEW i \in DOMAIN q.map, NEW j \in DOMAIN q.map, i < j,
               NEW x \in In(q, i), NEW y \in In(q, j)
        PROVE  Precedes(L, x, y)
    <3>1. i /= j /\ i \in Nat /\ j \in Nat
      BY <2>6, <1>1, <1>2, <1>5
    <3>2. CASE i /= t /\ j /= t
      BY <3>2, <2>1, <2>6, <1>1, <1>6
    <3>3. CASE i = t
      <4>1. j \in DOMAIN p.map /\ y \in In(p, j) /\ j > t
        BY <3>1, <3>3, <2>6, <1>1, <1>6
      <4>2. CASE x = r
        BY <4>1, <4>2, <2>3
      <4>3. CASE x /= r
        <5>1. t \in DOMAIN p.map /\ x \in In(p, t)
          BY <4>3, <3>3, <1>7, <1>8
        <5>2. QED
          BY <5>1, <4>1, <3>3, <2>1, <2>6
      <4>4. QED
        BY <4>2, <4>3
    <3>4. CASE j = t
      <4>1. i \in DOMAIN p.map /\ x \in In(p, i)
        BY <3>1, <3>4, <1>1, <1>6
      <4>2. CASE y = r
        BY <4>1, <4>2, <2>2
      <4>3. CASE y /= r
        <5>1. t \in DOMAIN p.map /\ y \in In(p, t)
          BY <4>3, <3>4, <1>7, <1>8
        <5>2. QED
          BY <5>1, <4>1, <3>4, <2>1, <2>6
      <4>4. QED
        BY <4>2, <4>3
    <3>5. QED
      BY <3>2, <3>3, <3>4
  <2>7. QED
    BY <2>5, <2>6 DEF Lined
<1>12. QED
  BY <1>6, <1>7, <1>8, <1>9, <1>10, <1>11 DEF q, t

\* The merge keeps the results and their order.
LEMMA MergeContents ==
  ASSUME mask = Kinds, NEW q, Shape(q), Unready(q) /= {}
  PROVE  LET m == MergeInto(q, Unready(q))
         IN  /\ Held(m) = Held(q)
             /\ Apart(q) => Apart(m)
             /\ \A L : Lined(L, q) => Lined(L, m)
             /\ \A L, nx : Placed(L, nx, q) => Placed(L, nx, m)
<1> DEFINE S    == Unready(q)
           last == Greatest(S)
           m    == MergeInto(q, S)
<1>1. /\ S \in SUBSET DOMAIN q.map /\ S \in SUBSET Nat
      /\ \A i \in S : \A j \in Full(q) : i < j
      /\ \A i \in DOMAIN q.map \ S : \E j \in Full(q) : j =< i
      /\ last \in S /\ \A i \in S : i =< last
  BY UnreadyFacts
<1>2. /\ Shape(m)
      /\ DOMAIN m.map = (DOMAIN q.map \ S) \cup {last}
      /\ \A j \in DOMAIN q.map \ S : j /= last /\ m.map[j] = q.map[j]
      /\ m.map[last].params = Concat(q.map, S)
      /\ m.latest = (IF last > q.latest THEN last ELSE q.latest)
  BY MergeFacts
<1>3. /\ \A i \in DOMAIN q.map : q.map[i].params \in Seq(Results)
      /\ \A i \in DOMAIN q.map : i \in Nat
      /\ q.latest \in Int /\ Full(q) \in SUBSET DOMAIN q.map
  BY ShapeFacts
<1>4. PICK b \in Nat : \A i \in S : i =< b
  BY UnreadyFacts
<1> HIDE DEF S, last, m
<1>5. \A i \in DOMAIN q.map \ S : last < i
  <2> SUFFICES ASSUME NEW i \in DOMAIN q.map \ S PROVE last < i
    OBVIOUS
  <2>1. PICK j \in Full(q) : j =< i
    BY <1>1
  <2>2. last < j /\ j \in Nat /\ i \in Nat /\ last \in Nat
    BY <1>1, <1>3
  <2>3. QED
    BY <2>1, <2>2
<1>6. \A i \in S : q.map[i].params \in Seq(Results)
  BY <1>1, <1>3
<1>7. In(m, last) = UNION {In(q, i) : i \in S}
  <2>1. Elements(Concat(q.map, S)) = UNION {Elements(q.map[i].params) : i \in S}
    BY <1>1, <1>4, <1>6, ConcatFacts
  <2>2. QED
    BY <2>1, <1>2 DEF In
<1>8. \A i \in DOMAIN q.map \ S : In(m, i) = In(q, i)
  BY <1>2 DEF In
<1>9. Held(m) = Held(q)
  <2>1. \A x : x \in Held(m) <=> \E i \in DOMAIN m.map : x \in In(m, i)
    BY <1>2, InFacts
  <2>2. \A x : x \in Held(q) <=> \E i \in DOMAIN q.map : x \in In(q, i)
    BY InFacts
  <2>3. \A x : x \in In(m, last) <=> \E i \in S : x \in In(q, i)
    BY <1>7
  <2>4. ASSUME NEW x \in Held(m) PROVE x \in Held(q)
    <3>1. PICK i \in DOMAIN m.map : x \in In(m, i)
      BY <2>1
    <3>2. CASE i = last
      BY <3>1, <3>2, <2>2, <2>3, <1>1
    <3>3. CASE i /= last
      BY <3>1, <3>3, <2>2, <1>2, <1>8
    <3>4. QED
      BY <3>2, <3>3
  <2>5. ASSUME NEW x \in Held(q) PROVE x \in Held(m)
    <3>1. PICK i \in DOMAIN q.map : x \in In(q, i)
      BY <2>2
    <3>2. CASE i \in S
      BY <3>1, <3>2, <2>1, <2>3, <1>2
    <3>3. CASE i \notin S
      BY <3>1, <3>3, <2>1, <1>2, <1>8
    <3>4. QED
      BY <3>2, <3>3
  <2>6. QED
    BY <2>4, <2>5
<1>10. ASSUME Apart(q) PROVE Apart(m)
  <2>1. \A i, j \in DOMAIN q.map : i /= j => In(q, i) \cap In(q, j) = {}
    BY <1>10 DEF Apart
  <2>2. \A i \in DOMAIN q.map \ S : In(m, last) \cap In(m, i) = {}
    <3> SUFFICES ASSUME NEW i \in DOMAIN q.map \ S, NEW x \in In(m, last), x \in In(m, i) PROVE FALSE
      OBVIOUS
    <3>1. PICK j \in S : x \in In(q, j)
      BY <1>7
    <3>2. x \in In(q, i) /\ i /= j /\ j \in DOMAIN q.map
      BY <3>1, <1>1, <1>8
    <3>3. QED
      BY <3>1, <3>2, <2>1
  <2>3. \A i, j \in DOMAIN q.map \ S : i /= j => In(m, i) \cap In(m, j) = {}
    BY <2>1, <1>8
  <2>4. QED
    BY <2>2, <2>3, <1>2 DEF Apart
<1>11. ASSUME NEW L, Lined(L, q) PROVE Lined(L, m)
  <2>1. /\ \A i \in DOMAIN q.map : Sorted(L, q.map[i].params)
        /\ \A i, j \in DOMAIN q.map : i < j =>
             \A x \in In(q, i), y \in In(q, j) : Precedes(L, x, y)
    BY <1>11 DEF Lined
  <2>2. Sorted(L, Concat(q.map, S))
    <3>1. \A i \in S : Sorted(L, q.map[i].params)
      BY <2>1, <1>1
    <3>2. \A i, j \in S : i < j =>
            \A x \in Elements(q.map[i].params), y \in Elements(q.map[j].params) : Precedes(L, x, y)
      BY <2>1, <1>1 DEF In
    <3>3. QED
      BY <3>1, <3>2, <1>1, <1>4, <1>6, ConcatFacts
  <2>3. \A i \in DOMAIN m.map : Sorted(L, m.map[i].params)
    BY <2>1, <2>2, <1>2
  <2>4. ASSUME NEW i \in DOMAIN m.map, NEW j \in DOMAIN m.map, i < j,
               NEW x \in In(m, i), NEW y \in In(m, j)
        PROVE  Precedes(L, x, y)
    <3>1. j /= last
      <4> SUFFICES ASSUME j = last PROVE FALSE
        OBVIOUS
      <4>1. last < i \/ i = last
        BY <1>2, <1>5
      <4>2. i \in Nat /\ last \in Nat
        BY <1>1, <1>2, <1>3
      <4>3. QED
        BY <4>1, <4>2, <2>4
    <3>2. j \in DOMAIN q.map \ S /\ y \in In(q, j)
      BY <3>1, <2>4, <1>2, <1>8
    <3>3. CASE i = last
      <4>1. PICK k \in S : x \in In(q, k)
        BY <3>3, <2>4, <1>7
      <4>2. k < j
        <5>1. k =< last /\ last < j /\ k \in Nat /\ last \in Nat /\ j \in Nat
          BY <3>2, <1>1, <1>3, <1>5
        <5>2. QED
          BY <5>1
      <4>3. QED
        BY <4>1, <4>2, <3>2, <2>1, <1>1
    <3>4. CASE i /= last
      <4>1. i \in DOMAIN q.map /\ x \in In(q, i)
        BY <3>4, <2>4, <1>2, <1>8
      <4>2. QED
        BY <4>1, <3>2, <2>1, <2>4
    <3>5. QED
      BY <3>3, <3>4
  <2>5. QED
    BY <2>3, <2>4 DEF Lined
<1>12. ASSUME NEW L, NEW nx, Placed(L, nx, q) PROVE Placed(L, nx, m)
  <2> SUFFICES ASSUME NEW i \in DOMAIN m.map, NEW x \in In(m, i), x.kind \notin L
               PROVE  i < nx[x.kind] \/ i =< m.latest
    BY DEF Placed
  <2>1. m.latest \in Int /\ last =< m.latest /\ q.latest =< m.latest /\ last \in Nat
    BY <1>1, <1>2, <1>3
  <2>2. CASE i = last
    BY <2>1, <2>2
  <2>3. CASE i /= last
    <3>1. i \in DOMAIN q.map /\ x \in In(q, i) /\ i \in Nat
      BY <2>3, <1>2, <1>3, <1>8
    <3>2. i < nx[x.kind] \/ i =< q.latest
      BY <3>1, <1>12 DEF Placed
    <3>3. i =< q.latest => i =< m.latest
      BY <3>1, <2>1, <1>3
    <3>4. QED
      BY <3>2, <3>3
  <2>4. QED
    BY <2>2, <2>3
<1>13. QED
  BY <1>9, <1>10, <1>11, <1>12 DEF m, S

\* Of queue_locked: with L late before and M after it, the order is kept in every
\* mode; all the results are but for the impossible case.
LEMMA QueuedContents ==
  ASSUME mask = Kinds, NEW p, Shape(p), p.latest >= 0, NEW r \in Results,
         NEW nx \in [Kinds -> Nat], nx[r.kind] =< r.frame,
         NEW L, NEW M, L \subseteq M, r.frame =< p.latest => r.kind \in M,
         Lined(L, p), Placed(L, nx, p), \A x \in Held(p) : x.number < r.number
  PROVE  LET s == Queued(p, r)
         IN  /\ Lined(M, s) /\ Placed(M, After(nx, r), s)
             /\ Held(s) \in SUBSET (Held(p) \cup {r})
             /\ ~Impossible(p, r) => Held(s) = Held(p) \cup {r} /\ (Apart(p) => Apart(s))
<1> DEFINE t == Target(p, r)
           q == Put(p, r)
           s == Queued(p, r)
           nn == After(nx, r)
<1>1. /\ t \in Nat /\ p.latest \in Int /\ r.frame \in Nat /\ r.kind \in Kinds
      /\ r.frame > p.latest => t = r.frame
  <2>1. r.frame \in Nat /\ p.latest \in Int /\ r.kind \in Kinds
    BY ShapeFacts, ResultFacts
  <2>2. r.frame > p.latest => t = r.frame
    BY <2>1 DEF Target
  <2>3. QED
    BY <2>1, <2>2, TargetNat
<1>2. /\ \A i \in DOMAIN p.map : i \in Nat /\ \A x \in In(p, i) : x \in Results /\ x \in Held(p)
      /\ \A x \in Results : x.kind \in Kinds /\ x.number \in Int
  <2>1. \A i \in DOMAIN p.map : i \in Nat /\ \A x \in In(p, i) : x \in Results /\ x \in Held(p)
    BY ShapeFacts, InFacts
  <2>2. \A x \in Results : x.kind \in Kinds /\ x.number \in Int
    BY DEF Results
  <2>3. QED
    BY <2>1, <2>2
<1>3. Lined(M, p) /\ Placed(M, nx, p)
  <2>1. \A x, y : Precedes(L, x, y) => Precedes(M, x, y)
    BY DEF Precedes
  <2>2. Lined(M, p)
    BY <2>1 DEF Lined, Sorted
  <2>3. Placed(M, nx, p)
    BY DEF Placed
  <2>4. QED
    BY <2>2, <2>3
<1>4. /\ \A k \in Kinds : nx[k] \in Nat /\ nn[k] \in Nat /\ nx[k] =< nn[k]
      /\ nn[r.kind] = r.frame + 1
  <2>1. nn \in [Kinds -> Nat] /\ \A k \in Kinds : nn[k] = IF k = r.kind THEN r.frame + 1 ELSE nx[k]
    BY <1>1 DEF After
  <2>2. \A k \in Kinds : nx[k] \in Nat /\ nn[k] \in Nat
    BY <2>1
  <2>3. \A k \in Kinds : nx[k] =< nn[k]
    BY <2>1, <2>2, <1>1
  <2>4. QED
    BY <2>1, <2>2, <2>3, <1>1
<1>5. r.kind \notin M => t = r.frame /\ r.frame > p.latest
  BY <1>1
<1>6. \A i \in DOMAIN p.map : \A x \in In(p, i) :
        x.kind = r.kind /\ r.kind \notin M => i < t /\ x.number < r.number
  <2> SUFFICES ASSUME NEW i \in DOMAIN p.map, NEW x \in In(p, i),
                      x.kind = r.kind, r.kind \notin M
               PROVE  i < t /\ x.number < r.number
    OBVIOUS
  <2>1. i < nx[r.kind] \/ i =< p.latest
    BY <1>3 DEF Placed
  <2>2. t = r.frame /\ r.frame > p.latest /\ i \in Nat /\ nx[r.kind] \in Nat
    BY <1>1, <1>2, <1>4, <1>5
  <2>3. i < t
    BY <2>1, <2>2, <1>1
  <2>4. QED
    BY <2>3, <1>2
<1>7. CASE Impossible(p, r)
  <2>1. s.map = Restrict(p.map, DOMAIN p.map \ {t}) /\ s.latest = p.latest
    BY <1>7 DEF Queued
  <2> HIDE DEF s, nn, t
  <2>2. DOMAIN s.map = DOMAIN p.map \ {t} /\ \A i \in DOMAIN s.map : s.map[i] = p.map[i]
    BY <2>1 DEF Restrict
  <2>3. \A i \in DOMAIN s.map : In(s, i) = In(p, i)
    BY <2>2 DEF In
  <2>4. Held(s) \in SUBSET Held(p)
    BY <2>2, <2>3 DEF Held
  <2>5. Lined(M, s)
    BY <2>2, <2>3, <1>3 DEF Lined
  <2>6. Placed(M, nn, s)
    <3> SUFFICES ASSUME NEW i \in DOMAIN s.map, NEW x \in In(s, i), x.kind \notin M
                 PROVE  i < nn[x.kind] \/ i =< s.latest
      BY DEF Placed
    <3>1. i \in DOMAIN p.map /\ x \in In(p, i) /\ i \in Nat
      BY <2>2, <2>3, <1>2
    <3>2. i < nx[x.kind] \/ i =< p.latest
      BY <3>1, <1>3 DEF Placed
    <3>3. x.kind \in Kinds
      BY <3>1, <1>2
    <3>4. nx[x.kind] \in Nat /\ nn[x.kind] \in Nat /\ nx[x.kind] =< nn[x.kind]
      BY <3>3, <1>4
    <3>5. QED
      BY <3>1, <3>2, <3>4, <2>1
  <2>7. QED
    BY <2>4, <2>5, <2>6, <1>7 DEF s, nn
<1>8. CASE ~Impossible(p, r)
  <2>1. s = Merged(q)
    BY <1>8 DEF Queued
  <2>2. /\ Held(q) = Held(p) \cup {r}
        /\ \A i \in DOMAIN p.map : i /= t => In(q, i) = In(p, i)
        /\ t \in DOMAIN p.map => In(q, t) = In(p, t) \cup {r}
        /\ t \notin DOMAIN p.map => In(q, t) = {r}
        /\ Apart(p) /\ r \notin Held(p) => Apart(q)
    BY PutContents
  <2>3. Lined(M, q)
    BY <1>3, <1>6, PutContents
  <2>4. /\ Shape(q) /\ DOMAIN q.map = DOMAIN p.map \cup {t} /\ q.latest >= p.latest
        /\ q.latest \in Int
    <3>1. /\ Shape(q) /\ DOMAIN q.map = DOMAIN p.map \cup {t}
          /\ Entry(p, t, r).ready => q.latest = t
          /\ ~Entry(p, t, r).ready => q.latest = p.latest
      BY PutFacts
    <3>2. Entry(p, t, r).ready => t > p.latest
      BY <1>1, <1>8 DEF Impossible
    <3> HIDE DEF q, t
    <3>3. q.latest >= p.latest /\ q.latest \in Int
      BY <3>1, <3>2, <1>1
    <3>4. QED
      BY <3>1, <3>3
  <2> HIDE DEF t, q, s, nn
  <2>5. Placed(M, nn, q)
    <3> SUFFICES ASSUME NEW i \in DOMAIN q.map, NEW x \in In(q, i), x.kind \notin M
                 PROVE  i < nn[x.kind] \/ i =< q.latest
      BY DEF Placed
    <3>1. CASE i \in DOMAIN p.map /\ x \in In(p, i)
      <4>1. i < nx[x.kind] \/ i =< p.latest
        BY <3>1, <1>3 DEF Placed
      <4>2. x.kind \in Kinds /\ i \in Nat
        BY <3>1, <1>2
      <4>3. nx[x.kind] \in Nat /\ nn[x.kind] \in Nat /\ nx[x.kind] =< nn[x.kind]
        BY <4>2, <1>4
      <4>4. QED
        BY <4>1, <4>2, <4>3, <2>4, <1>1
    <3>2. CASE i = t /\ x = r
      <4>1. i = r.frame /\ nn[x.kind] = r.frame + 1
        BY <3>2, <1>4, <1>5
      <4>2. QED
        BY <4>1, <1>1
    <3>3. QED
      BY <3>1, <3>2, <2>2, <2>4
  <2>6. Apart(p) => Apart(q)
    <3>1. r \notin Held(p)
      <4>1. ~(r.number < r.number)
        BY <1>2
      <4>2. QED
        BY <4>1
    <3>2. QED
      BY <3>1, <2>2
  <2>7. CASE Merged(q) = q
    BY <2>1, <2>2, <2>3, <2>5, <2>6, <2>7 DEF s, nn
  <2>8. CASE Merged(q) /= q
    <3>1. Unready(q) /= {} /\ s = MergeInto(q, Unready(q))
      BY <2>1, <2>8 DEF Merged
    <3>2. /\ Held(s) = Held(q) /\ (Apart(q) => Apart(s))
          /\ Lined(M, s) /\ Placed(M, nn, s)
      BY <3>1, <2>3, <2>4, <2>5, MergeContents
    <3>3. QED
      BY <3>2, <2>2, <2>6 DEF s, nn
  <2>9. QED
    BY <2>7, <2>8
<1>9. QED
  BY <1>7, <1>8

-----------------------------------------------------------------------------
(* The invariants *)

\* Before start() there is one result of each ready condition, all for frame 0.
Initials ==
  /\ \A n \in DOMAIN initList : initList[n].frame = 0
  /\ mask = {initList[n].kind : n \in DOMAIN initList}
  /\ \A m, n \in DOMAIN initList : initList[m].kind = initList[n].kind => m = n

\* Before start() nothing is pending, while streaming some frame has been ready.
Session ==
  /\ ~started => /\ pending = Nothing /\ next = [k \in Kinds |-> 0] /\ Initials
                 /\ frames = << >> /\ out = << >> /\ late = {} /\ stats = -1
  /\ started => mask = Kinds /\ initList = << >> /\ pending.latest >= 0

\* The types of the other variables.
Types ==
  /\ mode \in Modes /\ started \in BOOLEAN /\ mask \subseteq Kinds
  /\ initList \in Seq(Results)
  /\ next \in [Kinds -> 0..(MaxFrame + 1)] /\ stats \in -1..MaxFrame /\ late \subseteq Kinds
  /\ made \in 0..MaxResults /\ base \in 0..made
  /\ out \in Seq(Results) /\ frames \in Seq(Nat) /\ stops \in 0..MaxSessions

\* The type invariant.
TypeInv == Types /\ Shape(pending) /\ Session

\* The frames taken are in order, no later than the latest ready one, and before those
\* that are pending.
FrameInv ==
  /\ \A m, n \in DOMAIN frames : m < n => frames[m] < frames[n]
  /\ \A n \in DOMAIN frames : /\ frames[n] =< pending.latest
                              /\ \A i \in DOMAIN pending.map : frames[n] < i

\* The frames are taken in order, and as many are ready as are counted, or more.
Steady ==
  Ordered(pending) /\ FrameInv /\ pending.ready =< Cardinality(Full(pending))

\* Where frames are forced the result that comes next finds no frame counted, or
\* nothing has come yet.
ForcedInv ==
  mode.noReadback /\ mode.prompt =>
    /\ Steady
    /\ next = [k \in Kinds |-> 0] => Full(pending) = DOMAIN pending.map

\* Where no frame is forced none is completed too late.
ReadbackInv ==
  ~mode.noReadback => /\ Good(pending, next) /\ FrameInv
                      /\ pending.ready =< Cardinality(Full(pending))

\* A consumer that keeps up takes complete frames, and all that are counted.
StepInv ==
  InStep => /\ pending.ready = Cardinality(Full(pending))
            /\ ReadyFirst
            /\ next = [k \in Kinds |-> 0] => Full(pending) = DOMAIN pending.map

\* Each result is in one place.
KeptInv ==
  ~mode.noReadback =>
    /\ {r.number : r \in Elements(initList) \cup Elements(out) \cup Held(pending)} = base + 1..made
    /\ Elements(out) \cap Held(pending) = {}
    /\ Apart(pending)

\* The results of a type that was never late are in order, from those taken to the
\* last frame.
OrderInv ==
  /\ Sorted(late, out) /\ Lined(late, pending) /\ Placed(late, next, pending)
  /\ \A x \in Elements(out), y \in Held(pending) : Precedes(late, x, y)
  /\ \A x \in Elements(initList) \cup Elements(out) \cup Held(pending) : x.number =< made

-----------------------------------------------------------------------------
(* Type correctness *)

\* Nothing is an assembler without frames.
LEMMA NothingFacts ==
  /\ Shape(Nothing) /\ DOMAIN Nothing.map = {} /\ Nothing.latest = -1 /\ Nothing.ready = 0
  /\ Full(Nothing) = {} /\ Held(Nothing) = {}
<1>1. Nothing.map = << >> /\ Nothing.latest = -1 /\ Nothing.ready = 0
  BY DEF Nothing
<1>2. DOMAIN << >> = {}
  OBVIOUS
<1>3. DOMAIN Nothing.map = {}
  BY <1>1, <1>2
<1>4. QED
  BY <1>1, <1>3 DEF Shape, Full, Held, Nothing

\* The types are right in the beginning.
LEMMA TypeInit == Init => TypeInv
<1> SUFFICES ASSUME Init PROVE TypeInv
  OBVIOUS
<1>1. Types
  <2>1. << >> \in Seq(Results) /\ << >> \in Seq(Nat)
    OBVIOUS
  <2>2. next \in [Kinds -> 0..(MaxFrame + 1)] /\ stats \in -1..MaxFrame
    BY AssemblerAssumption DEF Init
  <2>3. made \in 0..MaxResults /\ base \in 0..made /\ stops \in 0..MaxSessions
    BY AssemblerAssumption DEF Init
  <2>4. QED
    BY <2>1, <2>2, <2>3 DEF Init, Types
<1>2. pending = Nothing /\ Shape(pending)
  BY NothingFacts DEF Init
<1>3. Initials
  BY DEF Init, Initials
<1>4. QED
  BY <1>1, <1>2, <1>3 DEF TypeInv, Session, Init

\* The result of a step of Queue.
LEMMA QueueFacts ==
  ASSUME TypeInv, NEW k \in Kinds, Queue(k)
  PROVE  /\ made' = made + 1 /\ made' \in 1..MaxResults /\ made \in Nat /\ mask = Kinds
         /\ pending.latest >= 0
         /\ \E f \in 0..MaxFrame :
              LET r == [kind |-> k, frame |-> f, number |-> made']
              IN  /\ r \in Results /\ r.kind = k /\ r.frame = f /\ r.number = made'
                  /\ next[k] =< f /\ f \in Nat
                  /\ next' = After(next, r) /\ next' \in [Kinds -> 0..(MaxFrame + 1)]
                  /\ late' = (IF f > pending.latest THEN late ELSE late \cup {k})
                  /\ pending' = Queued(pending, r)
<1>1. /\ made' = made + 1 /\ made' \in 1..MaxResults /\ made \in Nat
  BY AssemblerAssumption DEF Queue, TypeInv, Types
<1>2. PICK f \in next[k]..MaxFrame :
        /\ next' = [next EXCEPT ![k] = f + 1]
        /\ late' = IF f > pending.latest THEN late ELSE late \cup {k}
        /\ pending' = Queued(pending, [kind |-> k, frame |-> f, number |-> made'])
  BY DEF Queue
<1>3. f \in 0..MaxFrame /\ next[k] =< f /\ f \in Nat /\ next[k] \in Nat /\ f + 1 \in 0..(MaxFrame + 1)
  BY AssemblerAssumption DEF TypeInv, Types
<1> DEFINE r == [kind |-> k, frame |-> f, number |-> made']
<1>4. r \in Results /\ r.kind = k /\ r.frame = f /\ r.number = made'
  BY <1>1, <1>3 DEF Results
<1>5. next' \in [Kinds -> 0..(MaxFrame + 1)]
  BY <1>2, <1>3 DEF TypeInv, Types
<1>6. next' = After(next, r)
  BY <1>2 DEF After
<1>7. started /\ mask = Kinds /\ pending.latest >= 0
  BY DEF Queue, TypeInv, Session
<1> HIDE DEF r
<1>8. QED
  BY <1>1, <1>2, <1>3, <1>4, <1>5, <1>6, <1>7 DEF r

\* The first frame of a step of DeQueOne.
LEMMA DeQueFacts ==
  ASSUME TypeInv, DeQueOne
  PROVE  LET i == Least(DOMAIN pending.map)
         IN  /\ i \in DOMAIN pending.map /\ i \in Nat /\ \A j \in DOMAIN pending.map : i =< j
             /\ out' = out \o pending.map[i].params /\ frames' = Append(frames, i)
             /\ DOMAIN pending'.map = DOMAIN pending.map \ {i}
             /\ \A j \in DOMAIN pending'.map : pending'.map[j] = pending.map[j]
             /\ pending'.latest = pending.latest
             /\ pending'.ready = pending.ready - 1 /\ pending.ready > 0
             /\ Full(pending') = Full(pending) \ {i}
             /\ Shape(pending')
<1> DEFINE i == Least(DOMAIN pending.map)
           s == [pending EXCEPT !.map = Restrict(@, DOMAIN @ \ {i}), !.ready = @ - 1]
<1>1. Shape(pending) /\ DOMAIN pending.map /= {}
  BY DEF TypeInv, DeQueOne
<1>2. i \in DOMAIN pending.map /\ \A j \in DOMAIN pending.map : i =< j /\ j \in Nat
  BY <1>1, ShapeFacts
<1>3. /\ out' = out \o pending.map[i].params /\ frames' = Append(frames, i)
      /\ pending' = s /\ pending.ready > 0
  BY DEF DeQueOne
<1>4. pending = [map |-> pending.map, latest |-> pending.latest, ready |-> pending.ready]
  BY <1>1 DEF Shape
<1> HIDE DEF i
<1>5. /\ s.map = Restrict(pending.map, DOMAIN pending.map \ {i})
      /\ s.latest = pending.latest /\ s.ready = pending.ready - 1
      /\ s = [map |-> s.map, latest |-> s.latest, ready |-> s.ready]
  <2> DEFINE a == pending.map
             b == pending.latest
             c == pending.ready
             x == Restrict(a, DOMAIN a \ {i})
  <2>1. s = [pending EXCEPT !.map = x, !.ready = c - 1]
    BY <1>4
  <2> HIDE DEF a, b, c, x, s
  <2>2. pending = [map |-> a, latest |-> b, ready |-> c]
    BY <1>4 DEF a, b, c
  <2>3. s = [map |-> x, latest |-> b, ready |-> c - 1]
    BY <2>1, <2>2
  <2>4. s.map = x /\ s.latest = b /\ s.ready = c - 1
    BY <2>3
  <2>5. QED
    BY <2>3, <2>4 DEF a, b, c, x
<1> HIDE DEF s
<1>6. /\ DOMAIN s.map = DOMAIN pending.map \ {i}
      /\ \A j \in DOMAIN s.map : s.map[j] = pending.map[j]
  BY <1>5 DEF Restrict
<1>7. Full(s) = Full(pending) \ {i}
  BY <1>6 DEF Full
<1>8. Shape(s)
  <2>1. s.ready \in Nat
    BY <1>1, <1>3, <1>5, ShapeFacts
  <2>2. QED
    BY <1>1, <1>5, <1>6, <2>1 DEF Shape
<1>9. QED
  BY <1>2, <1>3, <1>5, <1>6, <1>7, <1>8 DEF i

\* A frame is forced to be ready: no result is touched, and if the frame was not there
\* or was ready nothing is.
LEMMA ForceFacts ==
  ASSUME TypeInv, ForceReady
  PROVE  /\ Shape(pending') /\ pending'.latest >= pending.latest
         /\ DOMAIN pending'.map = DOMAIN pending.map
         /\ \A i \in DOMAIN pending.map : pending'.map[i].params = pending.map[i].params
         /\ mode.noReadback /\ mode' = mode
         /\ \/ pending' = pending
            \/ \E i \in DOMAIN pending.map :
                 /\ ~pending.map[i].ready
                 /\ pending'.map[i].ready /\ pending'.map[i].flags = Kinds
                 /\ \A j \in DOMAIN pending.map : j /= i => pending'.map[j] = pending.map[j]
                 /\ pending'.latest = (IF i > pending.latest THEN i ELSE pending.latest)
                 /\ pending'.ready = pending.ready + 1
<1>1. Shape(pending) /\ mask = Kinds /\ mode.noReadback /\ mode' = mode
  BY DEF TypeInv, Session, ForceReady
<1>2. stats' + 1 \in Nat
  <2>1. PICK f \in stats + 1..MaxFrame : stats' = f
    BY DEF ForceReady
  <2>2. stats \in -1..MaxFrame /\ MaxFrame \in Nat
    BY AssemblerAssumption DEF TypeInv, Types
  <2>3. QED
    BY <2>1, <2>2
<1> DEFINE i == stats' + 1
           old == pending.map
           new == [old EXCEPT ![i].flags = mask, ![i].ready = TRUE]
           l == IF i > pending.latest THEN i ELSE pending.latest
           s == [map |-> new, latest |-> l, ready |-> pending.ready + 1]
<1>3. i \in Nat /\ pending.latest \in Int
  <2>1. i \in Nat
    BY <1>2
  <2>2. pending.latest \in Int
    BY <1>1, ShapeFacts
  <2>3. QED
    BY <2>1, <2>2
<1>4. \/ pending' = pending
      \/ i \in DOMAIN old /\ ~old[i].ready /\ pending' = s
  BY DEF ForceReady
<1> HIDE DEF i
<1>5. CASE pending' = pending
  BY <1>1, <1>3, <1>5
<1>6. CASE i \in DOMAIN old /\ ~old[i].ready /\ pending' = s
  <2>1. \A j \in DOMAIN old : old[j] \in [params : Seq(Results), flags : SUBSET Kinds, ready : BOOLEAN]
    BY <1>1 DEF Shape
  <2> HIDE DEF old
  <2>2. /\ DOMAIN new = DOMAIN old
        /\ \A j \in DOMAIN old : j /= i => new[j] = old[j]
        /\ new[i] = [old[i] EXCEPT !.flags = mask, !.ready = TRUE]
    BY <1>6
  <2> HIDE DEF new
  <2>3. /\ new[i] \in [params : Seq(Results), flags : SUBSET Kinds, ready : BOOLEAN]
        /\ new[i].params = old[i].params /\ new[i].ready /\ new[i].flags = Kinds
    BY <2>1, <2>2, <1>1, <1>6
  <2>4. \A j \in DOMAIN old : /\ new[j] \in [params : Seq(Results), flags : SUBSET Kinds, ready : BOOLEAN]
                              /\ new[j].params = old[j].params
    BY <2>1, <2>2, <2>3
  <2>5. l \in Nat \cup {-1} /\ l >= pending.latest
    <3>1. pending.latest \in Nat \cup {-1}
      BY <1>1 DEF Shape
    <3>2. QED
      BY <3>1, <1>3
  <2>6. pending.ready + 1 \in Nat
    BY <1>1, ShapeFacts
  <2>10. l = (IF i > pending.latest THEN i ELSE pending.latest)
    OBVIOUS
  <2> HIDE DEF l
  <2>7. /\ s.map = new /\ s.latest = l /\ s.ready = pending.ready + 1
        /\ s = [map |-> s.map, latest |-> s.latest, ready |-> s.ready]
    OBVIOUS
  <2> HIDE DEF s
  <2>8. Shape(s)
    BY <2>2, <2>4, <2>5, <2>6, <2>7, <1>1 DEF Shape, old
  <2>9. /\ ~pending.map[i].ready /\ i \in DOMAIN pending.map
        /\ pending'.map[i].ready /\ pending'.map[i].flags = Kinds
        /\ \A j \in DOMAIN pending.map : j /= i => pending'.map[j] = pending.map[j]
        /\ pending'.latest = (IF i > pending.latest THEN i ELSE pending.latest)
        /\ pending'.ready = pending.ready + 1
    BY <2>2, <2>3, <2>7, <2>10, <1>6 DEF old
  <2>11. QED
    BY <2>2, <2>4, <2>5, <2>7, <2>8, <2>9, <1>1, <1>6 DEF old
<1>7. QED
  BY <1>4, <1>5, <1>6

\* Session after the steps that do not begin or end one.
LEMMA SessionKept ==
  ASSUME Session, started, UNCHANGED <<started, mask, initList>>,
         pending.latest \in Int, pending'.latest \in Int, pending'.latest >= pending.latest
  PROVE  Session'
BY DEF Session

\* So is a list of initial results with another type.
LEMMA InitialsNext ==
  ASSUME TypeInv, NEW k \in Kinds, QueueInitial(k)
  PROVE  Initials' /\ initList' \in Seq(Results)
<1> DEFINE r == [kind |-> k, frame |-> 0, number |-> made']
<1>1. /\ ~started /\ k \notin mask /\ initList \in Seq(Results) /\ Initials
      /\ mask' = mask \cup {k} /\ initList' = Append(initList, r)
  BY DEF TypeInv, Types, Session, QueueInitial
<1>2. made' \in 1..MaxResults
  BY AssemblerAssumption DEF QueueInitial, TypeInv, Types
<1>3. r \in Results /\ r.kind = k /\ r.frame = 0
  BY <1>2, AssemblerAssumption DEF Results
<1> HIDE DEF r
<1> DEFINE n == Len(initList) + 1
<1>4. /\ initList' \in Seq(Results) /\ DOMAIN initList' = DOMAIN initList \cup {n}
      /\ initList'[n] = r /\ \A m \in DOMAIN initList : m /= n /\ initList'[m] = initList[m]
  BY <1>1, <1>3
<1> HIDE DEF n
<1>5. \A m \in DOMAIN initList : initList[m].kind /= k
  BY <1>1 DEF Initials
<1>6. \A m \in DOMAIN initList' : initList'[m].frame = 0
  BY <1>1, <1>3, <1>4 DEF Initials
<1>7. mask' = {initList'[m].kind : m \in DOMAIN initList'}
  <2>1. \A m \in DOMAIN initList' : initList'[m].kind \in mask'
    BY <1>1, <1>3, <1>4 DEF Initials
  <2>2. \A x \in mask : \E m \in DOMAIN initList' : x = initList'[m].kind
    BY <1>1, <1>4 DEF Initials
  <2>3. \E m \in DOMAIN initList' : k = initList'[m].kind
    BY <1>3, <1>4
  <2>4. QED
    BY <2>1, <2>2, <2>3, <1>1
<1>8. \A m, l \in DOMAIN initList' : initList'[m].kind = initList'[l].kind => m = l
  BY <1>1, <1>3, <1>4, <1>5 DEF Initials
<1>9. QED
  BY <1>4, <1>6, <1>7, <1>8 DEF Initials

\* And stay right.
LEMMA TypeStep == TypeInv /\ [Next]_vars => TypeInv'
<1> SUFFICES ASSUME TypeInv, [Next]_vars PROVE TypeInv'
  OBVIOUS
<1>1. Types /\ Shape(pending) /\ Session
  BY DEF TypeInv
<1>2. pending.latest \in Int
  BY <1>1, ShapeFacts
<1>3. ASSUME NEW k \in Kinds, QueueInitial(k) PROVE TypeInv'
  <2>1. made' \in 0..MaxResults /\ base' \in 0..made' /\ mask' \subseteq Kinds
    BY <1>1, <1>3, AssemblerAssumption DEF QueueInitial, Types
  <2>2. Initials' /\ initList' \in Seq(Results)
    BY <1>3, InitialsNext
  <2>3. Types'
    BY <1>1, <1>3, <2>1, <2>2 DEF QueueInitial, Types
  <2>4. ~started /\ UNCHANGED <<pending, next, frames, out, late, stats, started>>
    BY <1>3 DEF QueueInitial
  <2>5. Session'
    BY <1>1, <2>2, <2>4 DEF Session
  <2>6. QED
    BY <1>1, <2>3, <2>4, <2>5 DEF TypeInv
<1>4. ASSUME NEW k \in Kinds, Queue(k) PROVE TypeInv'
  <2>1. /\ made' = made + 1 /\ made' \in 1..MaxResults /\ mask = Kinds
        /\ next' \in [Kinds -> 0..(MaxFrame + 1)] /\ late' \subseteq Kinds
    <3>1. made' = made + 1 /\ made' \in 1..MaxResults /\ mask = Kinds
      BY <1>4, QueueFacts
    <3>2. next' \in [Kinds -> 0..(MaxFrame + 1)]
      BY <1>4, QueueFacts
    <3>3. late' \subseteq Kinds
      <4>1. PICK f \in 0..MaxFrame : late' = (IF f > pending.latest THEN late ELSE late \cup {k})
        BY <1>4, QueueFacts
      <4>2. late \subseteq Kinds
        BY <1>1 DEF Types
      <4>3. QED
        BY <4>1, <4>2
    <3>4. QED
      BY <3>1, <3>2, <3>3
  <2>2. PICK r \in Results : pending' = Queued(pending, r)
    BY <1>4, QueueFacts
  <2>3. Shape(pending') /\ pending'.latest >= pending.latest
    BY <1>1, <2>1, <2>2, QueuedShape
  <2>4. base' \in 0..made' /\ made' \in 0..MaxResults
    BY <1>1, <1>4, <2>1 DEF Types, Queue
  <2>5. Types'
    BY <1>1, <1>4, <2>1, <2>4 DEF Types, Queue
  <2>6. started /\ UNCHANGED <<started, mask, initList>> /\ pending'.latest \in Int
    BY <1>4, <2>3, ShapeFacts DEF Queue
  <2>7. Session'
    BY <1>1, <1>2, <2>3, <2>6, SessionKept
  <2>8. QED
    BY <2>3, <2>5, <2>7 DEF TypeInv
<1>5. ASSUME Start PROVE TypeInv'
  <2>1. pending = Nothing /\ OneOfEach(initList) /\ mask = Kinds
    BY <1>1, <1>5 DEF Start, Session, Initials, Types, OneOfEach
  <2>2. Gathered(pending', initList, Len(initList))
    BY <1>5, <2>1, StartGathers
  <2>3. Shape(pending') /\ pending'.latest = 0
    BY <2>2 DEF Gathered
  <2>4. << >> \in Seq(Results)
    OBVIOUS
  <2>5. Types'
    BY <1>1, <1>5, <2>4 DEF Types, Start
  <2>6. Session'
    BY <1>5, <2>1, <2>3 DEF Session, Start
  <2>7. QED
    BY <2>3, <2>5, <2>6 DEF TypeInv
<1>6. ASSUME ForceReady PROVE TypeInv'
  <2>1. Shape(pending') /\ pending'.latest >= pending.latest
    BY <1>6, ForceFacts
  <2>2. stats' \in -1..MaxFrame
    BY <1>1, <1>6, AssemblerAssumption DEF Types, ForceReady
  <2>3. Types'
    BY <1>1, <1>6, <2>2 DEF Types, ForceReady
  <2>4. started /\ UNCHANGED <<started, mask, initList>> /\ pending'.latest \in Int
    BY <1>6, <2>1, ShapeFacts DEF ForceReady
  <2>5. Session'
    BY <1>1, <1>2, <2>1, <2>4, SessionKept
  <2>6. QED
    BY <2>1, <2>3, <2>5 DEF TypeInv
<1>7. ASSUME DeQueOne PROVE TypeInv'
  <2> DEFINE i == Least(DOMAIN pending.map)
  <2>1. /\ i \in DOMAIN pending.map /\ i \in Nat
        /\ out' = out \o pending.map[i].params /\ frames' = Append(frames, i)
        /\ Shape(pending') /\ pending'.latest = pending.latest
    BY <1>7, DeQueFacts
  <2> HIDE DEF i
  <2>2. pending.map[i].params \in Seq(Results)
    BY <1>1, <2>1, ShapeFacts
  <2>3. out' \in Seq(Results) /\ frames' \in Seq(Nat)
    BY <1>1, <2>1, <2>2 DEF Types
  <2>4. Types'
    BY <1>1, <1>7, <2>3 DEF Types, DeQueOne
  <2>5. started /\ UNCHANGED <<started, mask, initList>> /\ pending'.latest >= pending.latest
    BY <1>2, <1>7, <2>1 DEF DeQueOne
  <2>6. Session'
    BY <1>1, <1>2, <2>1, <2>5, SessionKept
  <2>7. QED
    BY <2>1, <2>4, <2>6 DEF TypeInv
<1>8. ASSUME Stop PROVE TypeInv'
  <2>1. << >> \in Seq(Results) /\ << >> \in Seq(Nat)
    OBVIOUS
  <2>2. next' \in [Kinds -> 0..(MaxFrame + 1)] /\ stats' \in -1..MaxFrame
    BY <1>8, AssemblerAssumption DEF Stop
  <2>3. made' \in 0..MaxResults /\ base' \in 0..made' /\ stops' \in 0..MaxSessions
    BY <1>1, <1>8, AssemblerAssumption DEF Stop, Types
  <2>4. Types'
    BY <1>1, <1>8, <2>1, <2>2, <2>3 DEF Stop, Types
  <2>5. Initials'
    BY <1>8 DEF Stop, Initials
  <2>6. Session' /\ Shape(pending')
    BY <1>8, <2>5, NothingFacts DEF Stop, Session
  <2>7. QED
    BY <2>4, <2>6 DEF TypeInv
<1>9. CASE UNCHANGED vars
  BY <1>1, <1>9 DEF vars, TypeInv, Types, Session, Initials
<1>10. QED
  BY <1>3, <1>4, <1>5, <1>6, <1>7, <1>8, <1>9 DEF Next

\* The type invariant, with the record's fields and what a session has.
THEOREM TypeInvariant == Spec => []TypeInv
<1>1. TypeInv /\ [Next]_vars => TypeInv'
  BY TypeStep
<1>2. QED
  BY <1>1, TypeInit, PTL DEF Spec

\* Type correctness: TypeOK, in every mode, for any types and limit; frames that
\* lack a result, forced ones and merged ones are as well formed as the others.
THEOREM TypeCorrect == Spec => []TypeOK
<1>1. TypeInv => TypeOK
  <2> SUFFICES ASSUME TypeInv PROVE TypeOK
    OBVIOUS
  <2>1. Types /\ Shape(pending) /\ Session
    BY DEF TypeInv
  <2>2. DOMAIN pending.map \in SUBSET Nat /\ pending.latest \in Nat \cup {-1} /\ pending.ready \in Nat
    BY <2>1 DEF Shape
  <2>3. \A i \in DOMAIN pending.map :
          pending.map[i] \in [params : Seq(Results), flags : SUBSET mask, ready : BOOLEAN]
    <3>1. CASE started
      BY <3>1, <2>1 DEF Session, Shape
    <3>2. CASE ~started
      <4>1. DOMAIN pending.map = {}
        BY <3>2, <2>1, NothingFacts DEF Session
      <4>2. QED
        BY <4>1
    <3>3. QED
      BY <3>1, <3>2
  <2>4. QED
    BY <2>1, <2>2, <2>3 DEF Types, TypeOK
<1>2. QED
  BY <1>1, TypeInvariant, PTL

-----------------------------------------------------------------------------
(* The order of the frames, the count and the impossible case *)

\* The mode never changes.
LEMMA ModeKept ==
  ASSUME [Next]_vars
  PROVE  mode' = mode
BY DEF Next, vars, QueueInitial, Queue, Start, ForceReady, DeQueOne, Stop

\* An assembler without frames is good.
LEMMA NothingGood ==
  ASSUME NEW nx
  PROVE  Good(Nothing, nx)
BY NothingFacts DEF Good, Ordered, NeverFull, Holes

\* A step of Queue where no frame is forced.
LEMMA QueueArrives ==
  ASSUME TypeInv, ReadbackInv, ~mode.noReadback, NEW k \in Kinds, Queue(k)
  PROVE  \E r : /\ Arriving(pending, next, r) /\ next' = After(next, r)
                /\ pending' = Queued(pending, r) /\ r.kind = k /\ r.number = made'
                /\ late' = (IF r.frame > pending.latest THEN late ELSE late \cup {k})
<1>1. PICK f \in 0..MaxFrame :
        LET r == [kind |-> k, frame |-> f, number |-> made']
        IN  /\ r \in Results /\ r.kind = k /\ r.frame = f /\ r.number = made'
            /\ next[k] =< f /\ f \in Nat
            /\ next' = After(next, r) /\ next' \in [Kinds -> 0..(MaxFrame + 1)]
            /\ late' = (IF f > pending.latest THEN late ELSE late \cup {k})
            /\ pending' = Queued(pending, r)
  BY QueueFacts
<1> DEFINE r == [kind |-> k, frame |-> f, number |-> made']
<1>2. /\ r \in Results /\ r.kind = k /\ r.frame = f /\ r.number = made'
      /\ next[k] =< f /\ f \in Nat
      /\ next' = After(next, r)
      /\ late' = (IF f > pending.latest THEN late ELSE late \cup {k})
      /\ pending' = Queued(pending, r)
  BY <1>1
<1> HIDE DEF r
<1>3. Shape(pending) /\ Good(pending, next) /\ pending.latest >= 0
  BY QueueFacts DEF TypeInv, ReadbackInv
<1>4. next \in [Kinds -> Nat]
  <2>1. next \in [Kinds -> 0..(MaxFrame + 1)] /\ \A n \in 0..(MaxFrame + 1) : n \in Nat
    BY DEF TypeInv, Types
  <2>2. QED
    BY <2>1
<1>5. next[r.kind] =< r.frame /\ r.frame \in Nat /\ next[r.kind] \in Nat
  BY <1>2, <1>4
<1>6. Arriving(pending, next, r)
  BY <1>2, <1>3, <1>4, <1>5 DEF Arriving
<1>7. QED
  BY <1>2, <1>6

\* What start() leaves.
LEMMA StartFacts ==
  ASSUME TypeInv, Start
  PROVE  /\ DOMAIN pending'.map = {0} /\ Full(pending') = {0}
         /\ pending'.latest = 0 /\ pending'.ready = 1
         /\ pending'.map[0].flags = Kinds
         /\ pending'.map[0].params \in Seq(Results)
         /\ Len(pending'.map[0].params) = Len(initList)
         /\ \A i \in 1..Len(initList) : pending'.map[0].params[i] = initList[i]
         /\ OneOfEach(initList)
<1>1. pending = Nothing /\ OneOfEach(initList)
  BY DEF TypeInv, Start, Session, Initials, Types, OneOfEach
<1>2. Gathered(pending', initList, Len(initList))
  BY <1>1, StartGathers
<1> DEFINE n == Len(initList)
<1>3. n \in Nat /\ DOMAIN initList = 1..n
  BY <1>1 DEF OneOfEach
<1>4. n /= 0
  <2> SUFFICES ASSUME n = 0 PROVE FALSE
    OBVIOUS
  <2>1. DOMAIN initList = {}
    BY <1>3
  <2>2. Kinds = {}
    BY <2>1, <1>1 DEF OneOfEach
  <2>3. QED
    BY <2>2, AssemblerAssumption
<1> HIDE DEF n
<1>5. /\ Shape(pending') /\ DOMAIN pending'.map = {0}
      /\ pending'.map[0].flags = {initList[i].kind : i \in 1..n}
      /\ Len(pending'.map[0].params) = n /\ \A i \in 1..n : pending'.map[0].params[i] = initList[i]
      /\ pending'.map[0].ready
      /\ pending'.latest = 0 /\ pending'.ready = 1
  <2>1. n > 0
    BY <1>3, <1>4
  <2>2. Gathered(pending', initList, n)
    BY <1>2 DEF n
  <2>3. n = Len(initList)
    BY DEF n
  <2>4. QED
    BY <2>1, <2>2, <2>3, <1>4 DEF Gathered
<1>6. pending'.map[0].flags = Kinds
  BY <1>1, <1>3, <1>5 DEF OneOfEach
<1>7. Full(pending') = {0}
  BY <1>5 DEF Full
<1>8. pending'.map[0].params \in Seq(Results)
  BY <1>5, ShapeFacts
<1>9. QED
  BY <1>1, <1>5, <1>6, <1>7, <1>8 DEF n

\* A step that takes no frame keeps those taken before the others.
LEMMA FramesKept ==
  ASSUME TypeInv, TypeInv', FrameInv, frames' = frames, pending'.latest >= pending.latest,
         NEW t \in Nat, t \in DOMAIN pending.map \/ t > pending.latest,
         DOMAIN pending'.map \in SUBSET (DOMAIN pending.map \cup {t})
  PROVE  FrameInv'
<1>1. pending.latest \in Int /\ pending'.latest \in Int /\ frames \in Seq(Nat)
  BY ShapeFacts DEF TypeInv, Types
<1>2. ASSUME NEW n \in DOMAIN frames
      PROVE  frames[n] =< pending'.latest /\ \A i \in DOMAIN pending'.map : frames[n] < i
  <2>1. /\ frames[n] \in Nat /\ frames[n] =< pending.latest
        /\ \A i \in DOMAIN pending.map : frames[n] < i
    BY <1>1 DEF FrameInv
  <2>2. frames[n] =< pending'.latest
    BY <2>1, <1>1
  <2>3. frames[n] < t
    BY <2>1, <1>1
  <2>4. QED
    BY <2>1, <2>2, <2>3
<1>3. QED
  BY <1>2 DEF FrameInv

\* The assembler is steady before the first result, and after start().
LEMMA SteadyNothing ==
  ASSUME pending = Nothing, frames = << >>
  PROVE  Steady /\ Full(pending) = DOMAIN pending.map
<1>1. Ordered(pending)
  BY NothingGood DEF Good
<1>2. FrameInv
  BY DEF FrameInv
<1>3. pending.ready =< Cardinality(Full(pending)) /\ Full(pending) = DOMAIN pending.map
  BY NothingFacts, FS_EmptySet
<1>4. QED
  BY <1>1, <1>2, <1>3 DEF Steady

\* As SteadyNothing, after start().
LEMMA SteadyStart ==
  ASSUME TypeInv, Start
  PROVE  Steady' /\ Full(pending') = DOMAIN pending'.map
<1>1. /\ DOMAIN pending'.map = {0} /\ Full(pending') = {0}
      /\ pending'.latest = 0 /\ pending'.ready = 1 /\ pending'.map[0].flags = Kinds
  BY StartFacts
<1>2. frames' = << >>
  BY DEF Start, TypeInv, Session
<1>3. FrameInv'
  BY <1>2 DEF FrameInv
<1>4. pending'.map[0].ready
  BY <1>1 DEF Full
<1>5. Ordered(pending')
  BY <1>1, <1>4 DEF Ordered
<1>6. Cardinality(Full(pending')) = 1
  BY <1>1, FS_Singleton
<1>7. QED
  BY <1>1, <1>3, <1>5, <1>6 DEF Steady

\* The frame taken is not after the latest ready one, and the assembler stays steady.
LEMMA SteadyDeQue ==
  ASSUME TypeInv, TypeInv', Steady, DeQueOne
  PROVE  Steady' /\ Least(DOMAIN pending.map) =< pending.latest
<1> DEFINE i == Least(DOMAIN pending.map)
           q == pending'
<1>1. Ordered(pending) /\ FrameInv /\ pending.ready =< Cardinality(Full(pending))
  BY DEF Steady
<1>2. Shape(pending) /\ Shape(pending') /\ frames \in Seq(Nat) /\ frames' \in Seq(Nat)
  BY DEF TypeInv, Types
<1>3. /\ IsFiniteSet(Full(pending)) /\ Cardinality(Full(pending)) \in Nat
      /\ Cardinality(Full(q)) \in Nat
      /\ pending.ready \in Nat /\ q.ready \in Nat
      /\ pending.latest \in Int
      /\ \A j \in DOMAIN pending.map : j \in Nat
      /\ Full(pending) \in SUBSET DOMAIN pending.map
  BY <1>2, ShapeFacts, MapFinite
<1>4. /\ \A m, n \in DOMAIN frames : m < n => frames[m] < frames[n]
      /\ \A n \in DOMAIN frames : /\ frames[n] \in Nat /\ frames[n] =< pending.latest
                                  /\ \A j \in DOMAIN pending.map : frames[n] < j
  BY <1>1, <1>2 DEF FrameInv
<1>5. /\ i \in DOMAIN pending.map /\ i \in Nat /\ \A j \in DOMAIN pending.map : i =< j
      /\ frames' = Append(frames, i)
      /\ DOMAIN q.map = DOMAIN pending.map \ {i}
      /\ \A j \in DOMAIN q.map : q.map[j] = pending.map[j]
      /\ q.latest = pending.latest
      /\ q.ready = pending.ready - 1 /\ pending.ready > 0
      /\ Full(q) = Full(pending) \ {i}
  BY DeQueFacts
<1> HIDE DEF i, q
<1>6. i =< pending.latest
  <2>1. Full(pending) /= {}
    <3> SUFFICES ASSUME Full(pending) = {} PROVE FALSE
      OBVIOUS
    <3>1. Cardinality(Full(pending)) = 0
      BY FS_EmptySet
    <3>2. QED
      BY <3>1, <1>1, <1>3, <1>5
  <2>2. PICK j \in Full(pending) : TRUE
    BY <2>1
  <2>3. i =< j /\ j =< pending.latest /\ j \in Nat
    BY <2>2, <1>1, <1>3, <1>5 DEF Ordered
  <2>4. QED
    BY <2>3, <1>3, <1>5
<1>7. Ordered(q)
  <2>1. /\ \A j \in DOMAIN pending.map : pending.map[j].ready <=> pending.map[j].flags = Kinds
        /\ \A j \in Full(pending) : j =< pending.latest
        /\ \A j \in DOMAIN pending.map : j =< pending.latest => pending.latest \in Full(pending)
    BY <1>1 DEF Ordered
  <2>2. \A j \in DOMAIN q.map : j =< q.latest => q.latest \in Full(q)
    <3> SUFFICES ASSUME NEW j \in DOMAIN q.map, j =< q.latest PROVE q.latest \in Full(q)
      OBVIOUS
    <3>1. j \in DOMAIN pending.map /\ j /= i /\ j \in Nat /\ i =< j
      BY <1>3, <1>5
    <3>2. pending.latest \in Full(pending) /\ pending.latest /= i
      BY <3>1, <2>1, <1>3, <1>5
    <3>3. QED
      BY <3>2, <1>5
  <2>3. QED
    BY <2>1, <2>2, <1>5 DEF Ordered
<1>8. FrameInv'
  <2> DEFINE n0 == Len(frames) + 1
  <2>1. /\ DOMAIN frames' = DOMAIN frames \cup {n0} /\ frames'[n0] = i
        /\ \A n \in DOMAIN frames : n < n0 /\ n \in Nat /\ frames'[n] = frames[n]
    BY <1>2, <1>5
  <2>2. n0 \in Nat
    BY <1>2
  <2> HIDE DEF n0
  <2>3. \A m, n \in DOMAIN frames' : m < n => frames'[m] < frames'[n]
    <3> SUFFICES ASSUME NEW m \in DOMAIN frames', NEW n \in DOMAIN frames', m < n
                 PROVE  frames'[m] < frames'[n]
      OBVIOUS
    <3>1. CASE n = n0
      <4>1. m \in DOMAIN frames
        BY <3>1, <2>1, <2>2
      <4>2. QED
        BY <4>1, <3>1, <2>1, <1>4, <1>5
    <3>2. CASE n /= n0
      <4>1. n \in DOMAIN frames /\ m \in DOMAIN frames
        BY <3>2, <2>1, <2>2
      <4>2. QED
        BY <4>1, <2>1, <1>4
    <3>3. QED
      BY <3>1, <3>2
  <2>4. \A n \in DOMAIN frames' : /\ frames'[n] =< q.latest
                                  /\ \A j \in DOMAIN q.map : frames'[n] < j
    <3> SUFFICES ASSUME NEW n \in DOMAIN frames'
                 PROVE  frames'[n] =< q.latest /\ \A j \in DOMAIN q.map : frames'[n] < j
      OBVIOUS
    <3>1. CASE n = n0
      <4>1. \A j \in DOMAIN q.map : i < j
        BY <1>3, <1>5
      <4>2. QED
        BY <4>1, <3>1, <2>1, <1>5, <1>6
    <3>2. CASE n /= n0
      BY <3>2, <2>1, <1>4, <1>5
    <3>3. QED
      BY <3>1, <3>2
  <2>5. QED
    BY <2>3, <2>4 DEF FrameInv, q
<1>9. q.ready =< Cardinality(Full(q))
  <2>1. Cardinality(Full(q)) >= Cardinality(Full(pending)) - 1
    <3> DEFINE F == Full(pending)
               c == Cardinality(F)
    <3>1. IsFiniteSet(F) /\ Full(q) = F \ {i} /\ c \in Nat
      BY <1>3, <1>5
    <3> HIDE DEF F
    <3>2. CASE i \in F
      <4>1. Cardinality(F \ {i}) = c - 1
        BY <3>1, <3>2, FS_RemoveElement
      <4>2. c - 1 >= c - 1
        <5> HIDE DEF c
        <5>1. c \in Nat => c - 1 >= c - 1
          OBVIOUS
        <5>2. QED
          BY <5>1, <3>1
      <4>3. QED
        BY <4>1, <4>2, <3>1 DEF F
    <3>3. CASE i \notin F
      <4>1. Full(q) = F
        BY <3>1, <3>3
      <4>2. c >= c - 1
        <5> HIDE DEF c
        <5>1. c \in Nat => c >= c - 1
          OBVIOUS
        <5>2. QED
          BY <5>1, <3>1
      <4>3. QED
        BY <4>1, <4>2 DEF F
    <3>4. QED
      BY <3>2, <3>3
  <2>2. QED
    BY <2>1, <1>1, <1>3, <1>5
<1>10. QED
  BY <1>6, <1>7, <1>8, <1>9 DEF Steady, i, q

\* A result for which the impossible case does not happen keeps the assembler steady.
LEMMA SteadyQueue ==
  ASSUME TypeInv, TypeInv', Steady, NEW k \in Kinds, Queue(k),
         NEW r, pending' = Queued(pending, r), Possible(pending, r)
  PROVE  Steady'
<1>1. mask = Kinds /\ frames' = frames
  BY QueueFacts DEF Queue
<1> DEFINE t == Target(pending, r)
<1>2. /\ Ordered(pending') /\ pending'.latest >= pending.latest /\ t \in Nat
      /\ DOMAIN pending'.map \in SUBSET (DOMAIN pending.map \cup {t})
      /\ t \in DOMAIN pending.map \/ t > pending.latest
      /\ pending'.ready - Cardinality(Full(pending')) = pending.ready - Cardinality(Full(pending))
  BY <1>1, QueuedOrdered
<1> HIDE DEF t
<1>3. FrameInv /\ pending.ready =< Cardinality(Full(pending))
  BY DEF Steady
<1>4. FrameInv'
  BY <1>1, <1>2, <1>3, FramesKept
<1>5. /\ Cardinality(Full(pending)) \in Nat /\ Cardinality(Full(pending')) \in Nat
      /\ pending.ready \in Nat /\ pending'.ready \in Nat
  BY ShapeFacts, MapFinite DEF TypeInv
<1>6. pending'.ready =< Cardinality(Full(pending'))
  BY <1>2, <1>3, <1>5
<1>7. QED
  BY <1>2, <1>4, <1>6 DEF Steady

\* Without forced frames everything is good in the beginning.
LEMMA ReadbackInit == Init => ReadbackInv
BY NothingGood, SteadyNothing DEF Init, ReadbackInv, Steady

\* And stays so.
LEMMA ReadbackStep == TypeInv /\ TypeInv' /\ ReadbackInv /\ [Next]_vars => ReadbackInv'
<1> SUFFICES ASSUME TypeInv, TypeInv', ReadbackInv, [Next]_vars, ~mode.noReadback
             PROVE  Good(pending', next') /\ Steady'
  BY ModeKept DEF ReadbackInv, Steady
<1>1. Good(pending, next) /\ Steady
  BY DEF ReadbackInv, Steady, Good
<1>2. /\ pending.latest \in Int /\ \A i \in DOMAIN pending.map : i \in Nat
  BY ShapeFacts DEF TypeInv
<1>3. ASSUME NEW k \in Kinds, QueueInitial(k) PROVE Good(pending', next') /\ Steady'
  BY <1>1, <1>3 DEF QueueInitial, Steady, FrameInv
<1>4. ASSUME NEW k \in Kinds, Queue(k) PROVE Good(pending', next') /\ Steady'
  <2>1. mask = Kinds
    BY <1>4, QueueFacts
  <2>2. PICK r : /\ Arriving(pending, next, r) /\ next' = After(next, r)
                 /\ pending' = Queued(pending, r)
    BY <1>4, QueueArrives
  <2>3. Good(pending', next')
    BY <2>1, <2>2, QueuedGood
  <2>4. Possible(pending, r)
    BY <2>1, <2>2, ArrivingPossible
  <2>5. Steady'
    BY <2>2, <2>4, <1>1, <1>4, SteadyQueue
  <2>6. QED
    BY <2>3, <2>5
<1>5. CASE Start
  <2>1. Steady' /\ DOMAIN pending'.map = {0} /\ Full(pending') = {0}
    BY <1>5, SteadyStart, StartFacts
  <2>2. pending'.latest = 0 /\ NeverFull(pending', next')
    BY <2>1, <1>5, StartFacts DEF NeverFull
  <2>3. Holes(pending', next')
    BY <2>1, <2>2 DEF Holes
  <2>4. QED
    BY <2>1, <2>2, <2>3 DEF Good, Steady
<1>6. ASSUME ForceReady PROVE FALSE
  BY <1>6 DEF ForceReady
<1>7. ASSUME DeQueOne PROVE Good(pending', next') /\ Steady'
  <2> DEFINE i == Least(DOMAIN pending.map)
             q == pending'
  <2>1. /\ i \in DOMAIN pending.map /\ i \in Nat
        /\ DOMAIN q.map = DOMAIN pending.map \ {i}
        /\ \A j \in DOMAIN q.map : q.map[j] = pending.map[j]
        /\ q.latest = pending.latest
        /\ Full(q) = Full(pending) \ {i}
    BY <1>7, DeQueFacts
  <2>2. next' = next
    BY <1>7 DEF DeQueOne
  <2>3. Steady' /\ i =< pending.latest
    BY <1>1, <1>7, SteadyDeQue
  <2>4. Ordered(q)
    BY <2>3 DEF Steady
  <2> HIDE DEF i, q
  <2>5. \A h \in Nat, k \in Kinds : Missed(pending, next, k, h) => Missed(q, next, k, h)
    BY <2>1 DEF Missed
  <2>6. NeverFull(q, next)
    <3> SUFFICES ASSUME NEW h \in DOMAIN q.map \ Full(q)
                 PROVE  \/ \A j \in DOMAIN q.map : j > h => q.map[j].flags \subseteq q.map[h].flags
                        \/ \E k \in Kinds \ q.map[h].flags : Missed(q, next, k, h)
      BY DEF NeverFull
    <3>1. h \in DOMAIN pending.map \ Full(pending) /\ q.map[h] = pending.map[h] /\ h \in Nat
      BY <2>1, <1>2
    <3>2. \/ \A j \in DOMAIN pending.map : j > h => pending.map[j].flags \subseteq pending.map[h].flags
          \/ \E k \in Kinds \ pending.map[h].flags : Missed(pending, next, k, h)
      BY <3>1, <1>1 DEF Good, NeverFull
    <3>3. QED
      BY <3>1, <3>2, <2>1, <2>5
  <2>7. Holes(q, next)
    <3> SUFFICES ASSUME NEW h \in Nat \ DOMAIN q.map, h > q.latest, NEW j \in DOMAIN q.map, j > h
                 PROVE  \E k \in Kinds : Missed(q, next, k, h)
      BY DEF Holes
    <3>1. h /= i
      BY <2>1, <2>3, <1>2
    <3>2. h \in Nat \ DOMAIN pending.map /\ h > pending.latest /\ j \in DOMAIN pending.map
      BY <3>1, <2>1
    <3>3. QED
      BY <3>2, <2>5, <1>1 DEF Good, Holes
  <2>8. QED
    BY <2>2, <2>3, <2>4, <2>6, <2>7 DEF Good, q
<1>8. CASE Stop
  <2>1. pending' = Nothing /\ frames' = << >>
    BY <1>8 DEF Stop
  <2>2. Good(pending', next')
    BY <2>1, NothingGood
  <2>3. Steady'
    BY <2>1, <2>2, NothingFacts, FS_EmptySet DEF Steady, FrameInv, Good
  <2>4. QED
    BY <2>2, <2>3
<1>9. CASE UNCHANGED vars
  BY <1>1, <1>9 DEF vars, FrameInv, Steady
<1>10. QED
  BY <1>3, <1>4, <1>5, <1>6, <1>7, <1>8, <1>9 DEF Next

\* Without forced frames the frames stay good and are taken in order; with any
\* number of results and however the consumer stalls.
THEOREM ReadbackInvariant == Spec => []ReadbackInv
<1>1. TypeInv /\ TypeInv' /\ ReadbackInv /\ [Next]_vars => ReadbackInv'
  BY ReadbackStep
<1>2. QED
  BY <1>1, TypeInvariant, ReadbackInit, PTL DEF Spec

\* The impossible case, with forced frames: a consumer that keeps up has left no frame
\* counted, and the latest ready frame is there, so the count is not too high.
LEMMA SteadyImpossible ==
  ASSUME TypeInv, TypeInv', ForcedInv, mode.noReadback, mode.prompt, NEW k \in Kinds, Queue(k),
         NEW r \in Results, pending' = Queued(pending, r), Impossible(pending, r)
  PROVE  Steady'
<1>1. mask = Kinds /\ pending.latest >= 0 /\ frames' = frames /\ Drained
  BY QueueFacts DEF Queue
<1>2. Shape(pending) /\ Ordered(pending) /\ FrameInv /\ pending.latest \in Nat
  <2>1. Shape(pending) /\ Ordered(pending) /\ FrameInv
    BY DEF TypeInv, ForcedInv, Steady
  <2>2. QED
    BY <2>1, <1>1, ShapeFacts
<1>3. /\ Ordered(pending') /\ pending'.latest = pending.latest
      /\ pending'.ready = pending.ready + 1
      /\ DOMAIN pending'.map \in SUBSET DOMAIN pending.map
      /\ Full(pending') = Full(pending)
      /\ pending.latest \in Full(pending) /\ Full(pending) /= DOMAIN pending.map
  BY <1>1, <1>2, QueuedImpossible
<1>4. pending.latest \in DOMAIN pending.map
  BY <1>3 DEF Full
<1>5. FrameInv'
  <2>1. pending'.latest >= pending.latest
    BY <1>2, <1>3
  <2>2. QED
    BY <2>1, <1>1, <1>2, <1>3, <1>4, FramesKept
<1>6. pending.ready = 0
  <2>1. pending.map /= << >>
    BY <1>4
  <2>2. next /= [l \in Kinds |-> 0]
    BY <1>3 DEF ForcedInv
  <2>3. QED
    BY <2>1, <2>2, <1>1 DEF Drained
<1>7. pending'.ready =< Cardinality(Full(pending'))
  <2>1. IsFiniteSet(Full(pending)) /\ Cardinality(Full(pending)) \in Nat
    BY <1>2, ShapeFacts, MapFinite
  <2>2. Cardinality(Full(pending)) /= 0
    BY <2>1, <1>3, FS_EmptySet
  <2>3. 1 =< Cardinality(Full(pending))
    BY <2>1, <2>2
  <2>4. QED
    BY <2>3, <1>3, <1>6
<1>8. QED
  BY <1>3, <1>5, <1>7 DEF Steady

\* A forced frame becomes ready and is counted.
LEMMA SteadyForce ==
  ASSUME TypeInv, TypeInv', Steady, ForceReady
  PROVE  Steady' /\ (Full(pending) = DOMAIN pending.map => Full(pending') = DOMAIN pending'.map)
<1>1. Ordered(pending) /\ FrameInv /\ pending.ready =< Cardinality(Full(pending))
  BY DEF Steady
<1>2. frames' = frames
  BY DEF ForceReady
<1>3. CASE pending' = pending
  BY <1>1, <1>2, <1>3 DEF Steady, FrameInv
<1>4. CASE pending' /= pending
  <2>1. DOMAIN pending'.map = DOMAIN pending.map /\ pending'.latest >= pending.latest
    BY ForceFacts
  <2>2. PICK i \in DOMAIN pending.map :
          /\ ~pending.map[i].ready
          /\ pending'.map[i].ready /\ pending'.map[i].flags = Kinds
          /\ \A j \in DOMAIN pending.map : j /= i => pending'.map[j] = pending.map[j]
          /\ pending'.latest = (IF i > pending.latest THEN i ELSE pending.latest)
          /\ pending'.ready = pending.ready + 1
    BY <1>4, ForceFacts
  <2>3. /\ pending.latest \in Int /\ \A j \in DOMAIN pending.map : j \in Nat
        /\ pending.ready \in Nat /\ IsFiniteSet(Full(pending))
        /\ Cardinality(Full(pending)) \in Nat
    BY ShapeFacts, MapFinite DEF TypeInv
  <2>4. Full(pending') = Full(pending) \cup {i} /\ i \notin Full(pending)
    BY <2>1, <2>2 DEF Full
  <2>5. Ordered(pending')
    <3>1. /\ \A j \in DOMAIN pending.map : pending.map[j].ready <=> pending.map[j].flags = Kinds
          /\ \A j \in Full(pending) : j =< pending.latest /\ j \in Nat
          /\ \A j \in DOMAIN pending.map : j =< pending.latest => pending.latest \in Full(pending)
      BY <1>1, <2>3 DEF Ordered, Full
    <3>2. \A j \in DOMAIN pending'.map : pending'.map[j].ready <=> pending'.map[j].flags = Kinds
      BY <2>1, <2>2, <3>1
    <3>3. \A j \in Full(pending') : j =< pending'.latest
      BY <2>2, <2>3, <2>4, <3>1
    <3>4. pending'.latest \in Full(pending')
      <4>1. CASE i > pending.latest
        BY <4>1, <2>2, <2>4
      <4>2. CASE ~(i > pending.latest)
        <5>1. i =< pending.latest
          BY <4>2, <2>3
        <5>2. QED
          BY <5>1, <4>2, <2>2, <2>4, <3>1
      <4>3. QED
        BY <4>1, <4>2
    <3>5. QED
      BY <3>2, <3>3, <3>4 DEF Ordered
  <2>6. FrameInv'
    <3>1. i \in Nat
      BY <2>3
    <3>2. QED
      BY <3>1, <1>1, <1>2, <2>1, FramesKept
  <2>7. pending'.ready =< Cardinality(Full(pending'))
    <3>1. Cardinality(Full(pending')) = Cardinality(Full(pending)) + 1
      BY <2>3, <2>4, FS_AddElement
    <3>2. QED
      BY <3>1, <1>1, <2>2, <2>3
  <2>8. Full(pending) /= DOMAIN pending.map
    BY <2>4
  <2>9. QED
    BY <2>5, <2>6, <2>7, <2>8 DEF Steady
<1>5. QED
  BY <1>3, <1>4

\* Each step keeps ForcedInv.
LEMMA ForcedStep == TypeInv /\ TypeInv' /\ ForcedInv /\ [Next]_vars => ForcedInv'
<1> SUFFICES ASSUME TypeInv, TypeInv', ForcedInv, [Next]_vars, mode.noReadback, mode.prompt
             PROVE  /\ Steady'
                    /\ next' = [l \in Kinds |-> 0] => Full(pending') = DOMAIN pending'.map
  BY ModeKept DEF ForcedInv
<1>1. /\ Steady
      /\ next = [l \in Kinds |-> 0] => Full(pending) = DOMAIN pending.map
  BY DEF ForcedInv
<1>2. ASSUME NEW k \in Kinds, QueueInitial(k)
      PROVE  /\ Steady'
             /\ next' = [l \in Kinds |-> 0] => Full(pending') = DOMAIN pending'.map
  BY <1>1, <1>2 DEF QueueInitial, Steady, FrameInv
<1>3. ASSUME NEW k \in Kinds, Queue(k)
      PROVE  /\ Steady'
             /\ next' = [l \in Kinds |-> 0] => Full(pending') = DOMAIN pending'.map
  <2>1. PICK f \in 0..MaxFrame :
          LET r == [kind |-> k, frame |-> f, number |-> made']
          IN  /\ r \in Results /\ r.kind = k /\ r.frame = f /\ r.number = made'
              /\ next[k] =< f /\ f \in Nat
              /\ next' = After(next, r) /\ next' \in [Kinds -> 0..(MaxFrame + 1)]
              /\ late' = (IF f > pending.latest THEN late ELSE late \cup {k})
              /\ pending' = Queued(pending, r)
    BY <1>3, QueueFacts
  <2> DEFINE r == [kind |-> k, frame |-> f, number |-> made']
  <2>2. /\ r \in Results /\ r.kind = k /\ r.frame = f /\ f \in Nat
        /\ next' = After(next, r) /\ pending' = Queued(pending, r)
    BY <2>1
  <2> HIDE DEF r
  <2>3. Shape(pending) /\ Ordered(pending) /\ pending.latest >= 0
    BY <1>1, <1>3, QueueFacts DEF TypeInv, Steady
  <2>4. Steady'
    <3>1. CASE Impossible(pending, r)
      BY <3>1, <2>2, <1>3, SteadyImpossible
    <3>2. CASE ~Impossible(pending, r)
      <4>1. Possible(pending, r)
        BY <3>2, <2>2, <2>3 DEF Possible
      <4>2. QED
        BY <4>1, <2>2, <1>1, <1>3, SteadyQueue
    <3>3. QED
      BY <3>1, <3>2
  <2>5. next' /= [l \in Kinds |-> 0]
    <3>1. k \in DOMAIN next
      BY DEF TypeInv, Types
    <3>2. next'[k] = f + 1
      BY <3>1, <2>2 DEF After
    <3>3. f + 1 /= 0
      BY <2>2
    <3>4. QED
      BY <3>2, <3>3
  <2>6. QED
    BY <2>4, <2>5
<1>4. CASE Start
  BY <1>4, SteadyStart
<1>5. CASE ForceReady
  <2>1. next' = next
    BY <1>5 DEF ForceReady
  <2>2. QED
    BY <2>1, <1>1, <1>5, SteadyForce
<1>6. CASE DeQueOne
  <2>1. Steady'
    BY <1>1, <1>6, SteadyDeQue
  <2>2. next' = next
    BY <1>6 DEF DeQueOne
  <2>3. Full(pending) = DOMAIN pending.map => Full(pending') = DOMAIN pending'.map
    BY <1>6, DeQueFacts
  <2>4. QED
    BY <2>1, <2>2, <2>3, <1>1
<1>7. CASE Stop
  <2>1. pending' = Nothing /\ frames' = << >>
    BY <1>7 DEF Stop
  <2>2. Ordered(pending')
    BY <2>1, NothingGood DEF Good
  <2>3. QED
    BY <2>1, <2>2, NothingFacts, FS_EmptySet DEF Steady, FrameInv
<1>8. CASE UNCHANGED vars
  BY <1>1, <1>8 DEF vars, FrameInv, Steady
<1>9. QED
  BY <1>2, <1>3, <1>4, <1>5, <1>6, <1>7, <1>8 DEF Next

\* ForcedInv is an invariant.
THEOREM ForcedInvariant == Spec => []ForcedInv
<1>1. Init => ForcedInv
  BY SteadyNothing DEF Init, ForcedInv
<1>2. TypeInv /\ TypeInv' /\ ForcedInv /\ [Next]_vars => ForcedInv'
  BY ForcedStep
<1>3. QED
  BY <1>1, <1>2, TypeInvariant, PTL DEF Spec

\* FramesInOrder: the drivers get frames in increasing order, whatever was late, merged
\* or dropped, and what is pending comes after them; where frames are forced, for a
\* consumer that keeps up.
THEOREM FramesOrdered == Spec => []((mode.noReadback => mode.prompt) => FramesInOrder)
<1>1. ReadbackInv /\ ForcedInv => ((mode.noReadback => mode.prompt) => FramesInOrder)
  BY DEF ReadbackInv, ForcedInv, Steady, FrameInv, FramesInOrder
<1>2. QED
  BY <1>1, ReadbackInvariant, ForcedInvariant, PTL

\* ReadbackImpossibleCase: where no frame is forced, no result completes a frame that
\* is not after the latest ready one, so none is dropped after it was counted.
THEOREM ImpossibleNever == Spec => ReadbackImpossibleCase
<1> DEFINE A == \A k \in Kinds, f \in 0..MaxFrame :
                  Queue(k) /\ next'[k] = f + 1 /\ ~mode.noReadback
                    => ~Impossible(pending, [kind |-> k, frame |-> f, number |-> made + 1])
<1>1. TypeInv /\ ReadbackInv => A
  <2> SUFFICES ASSUME TypeInv, ReadbackInv, NEW k \in Kinds, NEW f \in 0..MaxFrame,
                      Queue(k), next'[k] = f + 1, ~mode.noReadback
               PROVE  ~Impossible(pending, [kind |-> k, frame |-> f, number |-> made + 1])
    OBVIOUS
  <2>1. PICK g \in 0..MaxFrame :
             LET r == [kind |-> k, frame |-> g, number |-> made']
             IN  /\ r \in Results /\ r.kind = k /\ r.frame = g /\ r.number = made'
                 /\ next[k] =< g /\ g \in Nat
                 /\ next' = After(next, r) /\ next' \in [Kinds -> 0..(MaxFrame + 1)]
                 /\ late' = (IF g > pending.latest THEN late ELSE late \cup {k})
                 /\ pending' = Queued(pending, r)
    BY QueueFacts
  <2>2. made' = made + 1 /\ mask = Kinds /\ pending.latest >= 0
    BY QueueFacts
  <2>3. next \in [Kinds -> Nat]
    <3>1. next \in [Kinds -> 0..(MaxFrame + 1)]
      BY DEF TypeInv, Types
    <3>2. QED
      BY <3>1
  <2>4. next'[k] = g + 1
    BY <2>1, <2>3 DEF After
  <2>5. g = f
    BY <2>4
  <2> DEFINE r == [kind |-> k, frame |-> f, number |-> made + 1]
  <2>6. /\ r \in Results /\ r.kind = k /\ r.frame = f /\ next[k] =< f
    BY <2>1, <2>2, <2>5
  <2>7. Shape(pending) /\ Good(pending, next)
    BY DEF TypeInv, ReadbackInv
  <2> HIDE DEF r
  <2>8. Arriving(pending, next, r)
    BY <2>2, <2>3, <2>6, <2>7, AssemblerAssumption DEF Arriving
  <2>9. ~Impossible(pending, r)
    BY <2>2, <2>8, NeverImpossible
  <2>10. QED
    BY <2>9 DEF r
<1>2. TypeInv /\ ReadbackInv /\ [Next]_vars => [A]_vars
  BY <1>1
<1>3. ReadbackImpossibleCase <=> [][A]_vars
  BY DEF ReadbackImpossibleCase
<1> HIDE DEF A
<1>4. Spec => [][A]_vars
  BY <1>2, TypeInvariant, ReadbackInvariant, PTL DEF Spec
<1>5. QED
  BY <1>3, <1>4

-----------------------------------------------------------------------------
(* The count of ready frames, for a consumer that keeps up *)

\* Before the first step nothing is ready.
LEMMA StepInit == Init => StepInv
<1> SUFFICES ASSUME Init
             PROVE  /\ pending.ready = Cardinality(Full(pending)) /\ ReadyFirst
                    /\ Full(pending) = DOMAIN pending.map
  BY DEF StepInv
<1>1. pending = Nothing
  BY DEF Init
<1>2. QED
  BY <1>1, NothingFacts, FS_EmptySet DEF ReadyFirst

\* A consumer that keeps up finds, when a result is queued, that no frame is ready or
\* that all are.
LEMMA DrainedFacts ==
  ASSUME TypeInv, StepInv, InStep, Drained
  PROVE  Full(pending) = {} \/ Full(pending) = DOMAIN pending.map
<1>1. Shape(pending) /\ pending.ready = Cardinality(Full(pending))
  BY DEF TypeInv, StepInv
<1>2. CASE pending.ready = 0
  <2>1. IsFiniteSet(Full(pending))
    BY <1>1, ShapeFacts, MapFinite
  <2>2. Cardinality(Full(pending)) = 0
    BY <1>1, <1>2
  <2>3. QED
    BY <2>1, <2>2, FS_EmptySet
<1>3. CASE pending.map = << >>
  BY <1>3 DEF Full
<1>4. CASE next = [k \in Kinds |-> 0]
  BY <1>4 DEF StepInv
<1>5. QED
  BY <1>2, <1>3, <1>4 DEF Drained

\* Each step keeps the count and the order of the ready frames.
LEMMA StepStep ==
  TypeInv /\ TypeInv' /\ ReadbackInv /\ StepInv /\ [Next]_vars => StepInv'
<1> SUFFICES ASSUME TypeInv, TypeInv', ReadbackInv, StepInv, [Next]_vars, InStep
             PROVE  /\ pending'.ready = Cardinality(Full(pending')) /\ InOrder(pending')
                    /\ next' = [k \in Kinds |-> 0] => Full(pending') = DOMAIN pending'.map
  BY ModeKept DEF StepInv, InStep, ReadyFirst, InOrder
<1>1. /\ pending.ready = Cardinality(Full(pending)) /\ InOrder(pending)
      /\ next = [k \in Kinds |-> 0] => Full(pending) = DOMAIN pending.map
  BY DEF StepInv, ReadyFirst, InOrder
<1>2. mode.prompt /\ ~mode.noReadback
  BY DEF InStep
<1>3. Shape(pending) /\ Shape(pending')
  BY DEF TypeInv
<1>4. /\ IsFiniteSet(Full(pending)) /\ Cardinality(Full(pending)) \in Nat
      /\ Cardinality(Full(pending')) \in Nat
      /\ pending.ready \in Nat /\ pending'.ready \in Nat
      /\ \A i \in DOMAIN pending.map : i \in Nat
      /\ Full(pending) \in SUBSET DOMAIN pending.map
  BY <1>3, ShapeFacts, MapFinite
<1>5. ASSUME NEW k \in Kinds, QueueInitial(k)
      PROVE  /\ pending'.ready = Cardinality(Full(pending')) /\ InOrder(pending')
             /\ next' = [l \in Kinds |-> 0] => Full(pending') = DOMAIN pending'.map
  BY <1>1, <1>5 DEF QueueInitial
<1>6. ASSUME NEW k \in Kinds, Queue(k)
      PROVE  /\ pending'.ready = Cardinality(Full(pending')) /\ InOrder(pending')
             /\ next' = [l \in Kinds |-> 0] => Full(pending') = DOMAIN pending'.map
  <2>1. mask = Kinds
    BY <1>6, QueueFacts
  <2>2. Drained
    BY <1>2, <1>6 DEF Queue
  <2>3. Full(pending) = {} \/ Full(pending) = DOMAIN pending.map
    BY <2>2, DrainedFacts
  <2>4. PICK r : /\ Arriving(pending, next, r) /\ next' = After(next, r)
                 /\ pending' = Queued(pending, r) /\ r.kind = k
    BY <1>2, <1>6, QueueArrives
  <2>5. InOrder(pending')
    BY <2>1, <2>3, <2>4, <1>1, QueuedInOrder
  <2>6. pending'.ready - Cardinality(Full(pending')) = pending.ready - Cardinality(Full(pending))
    BY <2>1, <2>4, QueuedOrdered, ArrivingPossible
  <2>7. pending'.ready = Cardinality(Full(pending'))
    BY <2>6, <1>1, <1>4
  <2>8. next'[k] = r.frame + 1 /\ r.frame \in Nat
    BY <2>4, ArrivingFacts
  <2>9. next' /= [l \in Kinds |-> 0]
    BY <2>8
  <2>10. QED
    BY <2>5, <2>7, <2>9
<1>7. ASSUME Start
      PROVE  /\ pending'.ready = Cardinality(Full(pending')) /\ InOrder(pending')
             /\ Full(pending') = DOMAIN pending'.map
  <2>1. DOMAIN pending'.map = {0} /\ Full(pending') = {0} /\ pending'.ready = 1
    BY <1>7, StartFacts
  <2>2. Cardinality(Full(pending')) = 1
    BY <2>1, FS_Singleton
  <2>3. InOrder(pending')
    BY <2>1 DEF InOrder, Full
  <2>4. QED
    BY <2>1, <2>2, <2>3
<1>8. ASSUME ForceReady PROVE FALSE
  BY <1>8, <1>2 DEF ForceReady
<1>9. ASSUME DeQueOne
      PROVE  /\ pending'.ready = Cardinality(Full(pending')) /\ InOrder(pending')
             /\ next' = [l \in Kinds |-> 0] => Full(pending') = DOMAIN pending'.map
  <2> DEFINE i == Least(DOMAIN pending.map)
             F == Full(pending)
  <2>1. /\ i \in DOMAIN pending.map /\ \A j \in DOMAIN pending.map : i =< j
        /\ DOMAIN pending'.map = DOMAIN pending.map \ {i}
        /\ \A j \in DOMAIN pending'.map : pending'.map[j] = pending.map[j]
        /\ pending'.ready = pending.ready - 1 /\ pending.ready > 0
        /\ Full(pending') = F \ {i}
    BY <1>9, DeQueFacts
  <2>2. next' = next
    BY <1>9 DEF DeQueOne
  <2>3. F \in SUBSET DOMAIN pending.map /\ IsFiniteSet(F) /\ pending.ready = Cardinality(F)
        /\ Cardinality(F) \in Nat
    BY <1>1, <1>4
  <2> HIDE DEF i
  <2>4. F /= {}
    BY <2>1, <2>3, FS_EmptySet
  <2>5. PICK j \in DOMAIN pending.map : pending.map[j].ready
    BY <2>4 DEF Full
  <2>6. pending.map[i].ready
    <3> SUFFICES ASSUME ~pending.map[i].ready PROVE FALSE
      OBVIOUS
    <3>1. j < i
      BY <2>1, <2>5, <1>1 DEF InOrder
    <3>2. i =< j /\ i \in Nat /\ j \in Nat
      BY <2>1, <2>5, <1>4
    <3>3. QED
      BY <3>1, <3>2
  <2>7. i \in F
    BY <2>1, <2>6 DEF Full
  <2> HIDE DEF F
  <2>8. Cardinality(F \ {i}) = Cardinality(F) - 1
    BY <2>3, <2>7, FS_RemoveElement
  <2>9. pending'.ready = Cardinality(Full(pending'))
    BY <2>1, <2>3, <2>8
  <2>10. InOrder(pending')
    BY <2>1, <1>1 DEF InOrder
  <2>11. next' = [l \in Kinds |-> 0] => Full(pending') = DOMAIN pending'.map
    BY <2>1, <2>2, <1>1 DEF F
  <2>12. QED
    BY <2>9, <2>10, <2>11
<1>10. ASSUME Stop
       PROVE  /\ pending'.ready = Cardinality(Full(pending')) /\ InOrder(pending')
              /\ Full(pending') = DOMAIN pending'.map
  <2>1. pending' = Nothing
    BY <1>10 DEF Stop
  <2>2. QED
    BY <2>1, NothingFacts, FS_EmptySet DEF InOrder
<1>11. CASE UNCHANGED vars
  BY <1>1, <1>11 DEF vars
<1>12. QED
  BY <1>5, <1>6, <1>7, <1>8, <1>9, <1>10, <1>11 DEF Next

\* StepInv is an invariant.
THEOREM StepInvariant == Spec => []StepInv
<1>1. TypeInv /\ TypeInv' /\ ReadbackInv /\ StepInv /\ [Next]_vars => StepInv'
  BY StepStep
<1>2. QED
  BY <1>1, TypeInvariant, ReadbackInvariant, StepInit, PTL DEF Spec

\* ReadyCounted: mReadyNums is the number of the ready frames as long as the consumer
\* keeps up and no frame is forced.
THEOREM CountTrue == Spec => []ReadyCounted
<1>1. StepInv => ReadyCounted
  BY DEF StepInv, ReadyCounted, Full
<1>2. QED
  BY <1>1, StepInvariant, PTL

\* InStepReadyFirst: the frame taken is a complete one, as the comments say, for such
\* a consumer.
THEOREM FirstIsReady == Spec => []InStepReadyFirst
<1>1. StepInv => InStepReadyFirst
  BY DEF StepInv, InStepReadyFirst
<1>2. QED
  BY <1>1, StepInvariant, PTL

-----------------------------------------------------------------------------
(* The order of the results *)

\* Another late type only lifts a condition.
LEMMA LateGrows ==
  ASSUME NEW L, NEW M, L \subseteq M
  PROVE  /\ \A x, y : Precedes(L, x, y) => Precedes(M, x, y)
         /\ \A s : Sorted(L, s) => Sorted(M, s)
<1>1. \A x, y : Precedes(L, x, y) => Precedes(M, x, y)
  BY DEF Precedes
<1>2. QED
  BY <1>1 DEF Sorted

\* There is nothing to order in the beginning, nor when nothing is pending or taken.
LEMMA NothingOrdered ==
  ASSUME NEW L, NEW nx
  PROVE  /\ Sorted(L, << >>) /\ Lined(L, Nothing) /\ Placed(L, nx, Nothing)
         /\ Elements(<< >>) = {}
<1>1. DOMAIN << >> = {}
  OBVIOUS
<1>2. QED
  BY <1>1, NothingFacts DEF Sorted, Lined, Placed, Elements

\* OrderInv holds in the beginning.
LEMMA OrderInit == Init => OrderInv
<1> SUFFICES ASSUME Init PROVE OrderInv
  OBVIOUS
<1>1. pending = Nothing /\ out = << >> /\ initList = << >>
  BY DEF Init
<1>2. QED
  BY <1>1, NothingOrdered, NothingFacts DEF OrderInv

\* A result that is queued is numbered after all others.
LEMMA OrderQueue ==
  ASSUME TypeInv, OrderInv, NEW k \in Kinds, Queue(k)
  PROVE  OrderInv'
<1>1. PICK f \in 0..MaxFrame :
        LET r == [kind |-> k, frame |-> f, number |-> made']
        IN  /\ r \in Results /\ r.kind = k /\ r.frame = f /\ r.number = made'
            /\ next[k] =< f /\ f \in Nat
            /\ next' = After(next, r) /\ next' \in [Kinds -> 0..(MaxFrame + 1)]
            /\ late' = (IF f > pending.latest THEN late ELSE late \cup {k})
            /\ pending' = Queued(pending, r)
  BY QueueFacts
<1> DEFINE r == [kind |-> k, frame |-> f, number |-> made']
<1>2. /\ r \in Results /\ r.kind = k /\ r.frame = f /\ r.number = made'
      /\ next[k] =< f /\ f \in Nat
      /\ next' = After(next, r)
      /\ late' = (IF f > pending.latest THEN late ELSE late \cup {k})
      /\ pending' = Queued(pending, r)
  BY <1>1
<1> HIDE DEF r
<1>3. made' = made + 1 /\ made \in Nat /\ mask = Kinds /\ pending.latest >= 0
  BY QueueFacts
<1>4. Shape(pending) /\ pending.latest \in Int
  BY ShapeFacts DEF TypeInv
<1>5. next \in [Kinds -> Nat]
  <2>1. next \in [Kinds -> 0..(MaxFrame + 1)] /\ \A n \in 0..(MaxFrame + 1) : n \in Nat
    BY DEF TypeInv, Types
  <2>2. QED
    BY <2>1
<1>6. late \subseteq late'
  BY <1>2
<1>7. r.frame =< pending.latest => r.kind \in late'
  BY <1>2, <1>4
<1>8. Held(pending) \in SUBSET Results /\ Elements(out) \in SUBSET Results
      /\ \A x \in Results : x.number \in Nat
  <2>1. Held(pending) \in SUBSET Results
    BY <1>4, InFacts
  <2>2. Elements(out) \in SUBSET Results
    BY DEF TypeInv, Types, Elements
  <2>3. \A x \in Results : x.number \in Nat
    BY DEF Results
  <2>4. QED
    BY <2>1, <2>2, <2>3
<1>9. \A x \in Elements(out) \cup Held(pending) : x.number < r.number
  <2> SUFFICES ASSUME NEW x \in Elements(out) \cup Held(pending) PROVE x.number < r.number
    OBVIOUS
  <2>1. x.number =< made
    BY DEF OrderInv
  <2>2. x.number \in Nat
    BY <1>8
  <2>3. QED
    BY <2>1, <2>2, <1>2, <1>3
<1>10. Lined(late, pending) /\ Placed(late, next, pending) /\ Sorted(late, out)
       /\ \A x \in Elements(out), y \in Held(pending) : Precedes(late, x, y)
  BY DEF OrderInv
<1>11. next[r.kind] =< r.frame
  BY <1>2
<1>12. /\ Lined(late', pending') /\ Placed(late', next', pending')
       /\ Held(pending') \in SUBSET (Held(pending) \cup {r})
  <2> DEFINE M == late'
  <2>1. late \subseteq M /\ (r.frame =< pending.latest => r.kind \in M)
    BY <1>6, <1>7
  <2>2. \A x \in Held(pending) : x.number < r.number
    BY <1>9
  <2> HIDE DEF M
  <2>3. /\ Lined(M, Queued(pending, r)) /\ Placed(M, After(next, r), Queued(pending, r))
        /\ Held(Queued(pending, r)) \in SUBSET (Held(pending) \cup {r})
    BY <1>2, <1>3, <1>4, <1>5, <1>10, <1>11, <2>1, <2>2, QueuedContents
  <2>4. QED
    BY <2>3, <1>2 DEF M
<1>13. out' = out /\ initList' = initList /\ initList = << >>
  BY DEF Queue, TypeInv, Session
<1>14. Sorted(late', out')
  BY <1>6, <1>10, <1>13, LateGrows
<1>15. \A x \in Elements(out'), y \in Held(pending') : Precedes(late', x, y)
  <2> SUFFICES ASSUME NEW x \in Elements(out), NEW y \in Held(pending')
               PROVE  Precedes(late', x, y)
    BY <1>13
  <2>1. CASE y = r
    BY <2>1, <1>9 DEF Precedes
  <2>2. CASE y \in Held(pending)
    BY <2>2, <1>6, <1>10 DEF Precedes
  <2>3. QED
    BY <2>1, <2>2, <1>12
<1>16. \A x \in Elements(initList') \cup Elements(out') \cup Held(pending') : x.number =< made'
  <2> SUFFICES ASSUME NEW x \in Elements(out) \cup Held(pending')
               PROVE  x.number =< made'
    BY <1>13, NothingOrdered
  <2>1. CASE x = r
    BY <2>1, <1>2, <1>3
  <2>2. CASE x \in Elements(out) \cup Held(pending)
    <3>1. x.number =< made /\ x.number \in Nat
      BY <2>2, <1>8 DEF OrderInv
    <3>2. QED
      BY <3>1, <1>3
  <2>3. QED
    BY <2>1, <2>2, <1>12
<1>17. QED
  BY <1>12, <1>14, <1>15, <1>16 DEF OrderInv

\* The first frame follows those taken before and precedes the others.
LEMMA OrderDeQue ==
  ASSUME TypeInv, OrderInv, DeQueOne
  PROVE  OrderInv'
<1> DEFINE i == Least(DOMAIN pending.map)
           ps == pending.map[i].params
<1>1. /\ i \in DOMAIN pending.map /\ i \in Nat /\ \A j \in DOMAIN pending.map : i =< j
      /\ out' = out \o ps
      /\ DOMAIN pending'.map = DOMAIN pending.map \ {i}
      /\ \A j \in DOMAIN pending'.map : pending'.map[j] = pending.map[j]
      /\ pending'.latest = pending.latest
      /\ Shape(pending')
  BY DeQueFacts
<1>2. /\ next' = next /\ late' = late /\ made' = made /\ initList' = initList
  BY DEF DeQueOne
<1> HIDE DEF i
<1>3. Shape(pending) /\ out \in Seq(Results)
  BY DEF TypeInv, Types
<1>4. /\ \A j \in DOMAIN pending.map : j \in Nat
      /\ ps \in Seq(Results)
  BY <1>1, <1>3, ShapeFacts
<1>5. \A j \in DOMAIN pending'.map : j \in DOMAIN pending.map /\ i < j /\ In(pending', j) = In(pending, j)
  BY <1>1, <1>4 DEF In
<1>6. Elements(ps) = In(pending, i) /\ In(pending, i) \in SUBSET Held(pending)
  BY <1>1, <1>3, InFacts DEF In
<1> HIDE DEF ps
<1>7. /\ Sorted(late, out) /\ Lined(late, pending) /\ Placed(late, next, pending)
      /\ \A x \in Elements(out), y \in Held(pending) : Precedes(late, x, y)
      /\ \A x \in Elements(initList) \cup Elements(out) \cup Held(pending) : x.number =< made
  BY DEF OrderInv
<1>8. Sorted(late, ps)
  BY <1>1, <1>7 DEF Lined, ps
<1>9. Sorted(late, out') /\ Elements(out') = Elements(out) \cup In(pending, i)
  <2>1. \A x \in Elements(out), y \in Elements(ps) : Precedes(late, x, y)
    BY <1>6, <1>7
  <2>2. Sorted(late, out \o ps) /\ Elements(out \o ps) = Elements(out) \cup Elements(ps)
    BY <2>1, <1>3, <1>4, <1>7, <1>8, ConcatenationFacts
  <2>3. QED
    BY <2>2, <1>1, <1>6
<1>10. Held(pending') \in SUBSET Held(pending)
  BY <1>5 DEF Held
<1>11. \A y \in Held(pending') : \E j \in DOMAIN pending'.map : y \in In(pending, j)
  BY <1>5 DEF Held
<1>12. Lined(late, pending')
  <2>1. \A j \in DOMAIN pending'.map : Sorted(late, pending'.map[j].params)
    BY <1>1, <1>7 DEF Lined
  <2>2. \A j, l \in DOMAIN pending'.map : j < l =>
          \A x \in In(pending', j), y \in In(pending', l) : Precedes(late, x, y)
    BY <1>5, <1>7 DEF Lined
  <2>3. QED
    BY <2>1, <2>2 DEF Lined
<1>13. Placed(late, next, pending')
  BY <1>1, <1>5, <1>7 DEF Placed
<1>14. \A x \in Elements(out'), y \in Held(pending') : Precedes(late, x, y)
  <2> SUFFICES ASSUME NEW x \in Elements(out'), NEW y \in Held(pending')
               PROVE  Precedes(late, x, y)
    OBVIOUS
  <2>1. CASE x \in Elements(out)
    BY <2>1, <1>7, <1>10
  <2>2. CASE x \in In(pending, i)
    <3>1. PICK j \in DOMAIN pending'.map : y \in In(pending, j)
      BY <1>11
    <3>2. QED
      BY <3>1, <2>2, <1>1, <1>5, <1>7 DEF Lined
  <2>3. QED
    BY <2>1, <2>2, <1>9
<1>15. \A x \in Elements(initList) \cup Elements(out') \cup Held(pending') : x.number =< made
  BY <1>6, <1>7, <1>9, <1>10
<1>16. QED
  BY <1>2, <1>9, <1>12, <1>13, <1>14, <1>15 DEF OrderInv

\* A forced frame has the results it had.
LEMMA OrderForce ==
  ASSUME TypeInv, OrderInv, ForceReady
  PROVE  OrderInv'
<1>1. /\ pending'.latest >= pending.latest
      /\ DOMAIN pending'.map = DOMAIN pending.map
      /\ \A i \in DOMAIN pending.map : pending'.map[i].params = pending.map[i].params
  BY ForceFacts
<1>2. /\ next' = next /\ late' = late /\ made' = made /\ initList' = initList /\ out' = out
  BY DEF ForceReady
<1>3. \A i \in DOMAIN pending.map : In(pending', i) = In(pending, i)
  BY <1>1 DEF In
<1>4. Held(pending') = Held(pending)
  BY <1>1, <1>3 DEF Held
<1>5. Lined(late, pending')
  BY <1>1, <1>3 DEF OrderInv, Lined
<1>6. Placed(late, next, pending')
  <2> SUFFICES ASSUME NEW i \in DOMAIN pending.map, NEW x \in In(pending, i), x.kind \notin late
               PROVE  i < next[x.kind] \/ i =< pending'.latest
    BY <1>1, <1>3 DEF Placed
  <2>1. i < next[x.kind] \/ i =< pending.latest
    BY DEF OrderInv, Placed
  <2>2. i \in Nat /\ pending.latest \in Int /\ pending'.latest \in Int
    BY ShapeFacts, ForceFacts DEF TypeInv
  <2>3. QED
    BY <2>1, <2>2, <1>1
<1>7. QED
  BY <1>2, <1>4, <1>5, <1>6 DEF OrderInv

\* The initial results are of different types, all in frame 0.
LEMMA OrderStart ==
  ASSUME TypeInv, OrderInv, Start
  PROVE  /\ OrderInv' /\ Held(pending') = Elements(initList) /\ Apart(pending')
         /\ Elements(initList') = {} /\ Elements(out') = {}
<1> DEFINE ps == pending'.map[0].params
<1>1. /\ DOMAIN pending'.map = {0} /\ pending'.latest = 0 /\ ps \in Seq(Results)
      /\ Len(ps) = Len(initList) /\ \A i \in 1..Len(initList) : ps[i] = initList[i]
      /\ OneOfEach(initList)
  BY StartFacts
<1>2. /\ initList' = << >> /\ out' = << >> /\ late' = {} /\ next' = next /\ made' = made
      /\ initList \in Seq(Results)
  BY DEF Start, TypeInv, Types, Session
<1>3. Held(pending') = Elements(ps) /\ In(pending', 0) = Elements(ps)
  BY <1>1 DEF Held, In
<1> HIDE DEF ps
<1>4. DOMAIN ps = 1..Len(initList) /\ DOMAIN initList = 1..Len(initList)
  BY <1>1, <1>2
<1>5. Elements(ps) = Elements(initList)
  BY <1>1, <1>4 DEF Elements
<1>6. Sorted({}, ps)
  <2>1. \A m, n \in DOMAIN ps : ps[m].kind = ps[n].kind => m = n
    BY <1>1, <1>4 DEF OneOfEach
  <2>2. \A m \in DOMAIN ps : m \in Nat
    BY <1>4
  <2>3. QED
    BY <2>1, <2>2 DEF Sorted, Precedes
<1>7. Lined({}, pending')
  BY <1>1, <1>6 DEF Lined, ps
<1>8. Placed({}, next, pending')
  BY <1>1 DEF Placed
<1>9. Apart(pending')
  BY <1>1 DEF Apart
<1>10. \A x \in Held(pending') : x.number =< made
  BY <1>3, <1>5 DEF OrderInv
<1>11. OrderInv'
  BY <1>2, <1>7, <1>8, <1>10, NothingOrdered DEF OrderInv
<1>12. QED
  BY <1>2, <1>3, <1>5, <1>9, <1>11, NothingOrdered

\* Each step keeps the order.
LEMMA OrderStep == TypeInv /\ OrderInv /\ [Next]_vars => OrderInv'
<1> SUFFICES ASSUME TypeInv, OrderInv, [Next]_vars PROVE OrderInv'
  OBVIOUS
<1>1. ASSUME NEW k \in Kinds, QueueInitial(k) PROVE OrderInv'
  <2>1. /\ initList' = Append(initList, [kind |-> k, frame |-> 0, number |-> made'])
        /\ pending' = pending /\ next' = next /\ late' = late /\ out' = out
        /\ made' = made + 1 /\ made < MaxResults
    BY <1>1 DEF QueueInitial
  <2>2. pending = Nothing /\ out = << >> /\ initList \in Seq(Results) /\ made \in Nat
    BY <1>1, AssemblerAssumption DEF QueueInitial, TypeInv, Types, Session
  <2> DEFINE r == [kind |-> k, frame |-> 0, number |-> made']
  <2>3. r \in Results /\ r.number = made'
    BY <2>1, <2>2, AssemblerAssumption DEF Results
  <2> HIDE DEF r
  <2>4. Elements(initList') = Elements(initList) \cup {r}
    BY <2>1, <2>2, <2>3, AppendFacts DEF r
  <2>5. \A x \in Elements(initList') : x.number =< made'
    <3> SUFFICES ASSUME NEW x \in Elements(initList') PROVE x.number =< made'
      OBVIOUS
    <3>1. CASE x = r
      BY <3>1, <2>1, <2>2, <2>3
    <3>2. CASE x \in Elements(initList)
      <4>1. x.number =< made
        BY <3>2 DEF OrderInv
      <4>2. x.number \in Nat
        <5>1. x \in Results
          BY <3>2, <2>2 DEF Elements
        <5>2. QED
          BY <5>1 DEF Results
      <4>3. QED
        BY <4>1, <4>2, <2>1, <2>2
    <3>3. QED
      BY <3>1, <3>2, <2>4
  <2>6. Elements(out) = {} /\ Held(pending) = {}
    BY <2>2, NothingOrdered, NothingFacts
  <2>7. QED
    BY <2>1, <2>5, <2>6 DEF OrderInv
<1>2. ASSUME NEW k \in Kinds, Queue(k) PROVE OrderInv'
  BY <1>2, OrderQueue
<1>3. CASE Start
  BY <1>3, OrderStart
<1>4. CASE ForceReady
  BY <1>4, OrderForce
<1>5. CASE DeQueOne
  BY <1>5, OrderDeQue
<1>6. CASE Stop
  <2>1. pending' = Nothing /\ out' = << >> /\ initList' = << >>
    BY <1>6 DEF Stop
  <2>2. QED
    BY <2>1, NothingOrdered, NothingFacts DEF OrderInv
<1>7. CASE UNCHANGED vars
  BY <1>7 DEF vars, OrderInv
<1>8. QED
  BY <1>1, <1>2, <1>3, <1>4, <1>5, <1>6, <1>7 DEF Next

\* OrderInv is an invariant.
THEOREM OrderInvariant == Spec => []OrderInv
<1>1. TypeInv /\ OrderInv /\ [Next]_vars => OrderInv'
  BY OrderStep
<1>2. QED
  BY <1>1, TypeInvariant, OrderInit, PTL DEF Spec

\* NewestLast: of a type that was never late the drivers get the newest result last;
\* in every mode, with frames merged, forced, or dropped as impossible.
THEOREM NewestIsLast == Spec => []NewestLast
<1>1. OrderInv => NewestLast
  BY DEF OrderInv, NewestLast, Sorted, Precedes
<1>2. QED
  BY <1>1, OrderInvariant, PTL

-----------------------------------------------------------------------------
(* No result is lost or applied twice *)

\* The numbers of the results in S.
Numbers(S) == {r.number : r \in S}

\* The results of this session, wherever they are.
Everywhere == Elements(initList) \cup Elements(out) \cup Held(pending)

\* The next number.
LEMMA NumbersNext ==
  ASSUME NEW S, NEW r, NEW b \in Nat, NEW m \in Nat, b =< m,
         Numbers(S) = b + 1..m, r.number = m + 1
  PROVE  Numbers(S \cup {r}) = b + 1..m + 1
<1>1. Numbers(S \cup {r}) = Numbers(S) \cup {m + 1}
  BY DEF Numbers
<1>2. (b + 1..m) \cup {m + 1} = b + 1..m + 1
  OBVIOUS
<1>3. QED
  BY <1>1, <1>2

\* KeptInv holds in the beginning.
LEMMA KeptInit == Init => KeptInv
<1> SUFFICES ASSUME Init PROVE KeptInv
  OBVIOUS
<1>1. pending = Nothing /\ out = << >> /\ initList = << >> /\ made = 0 /\ base = 0
  BY DEF Init
<1>2. Elements(out) = {} /\ Elements(initList) = {} /\ Held(pending) = {} /\ Apart(pending)
  BY <1>1, NothingOrdered, NothingFacts DEF Apart
<1>3. base + 1..made = {}
  BY <1>1
<1>4. QED
  BY <1>2, <1>3 DEF KeptInv

\* The numbers given are at least those of the last sessions.
LEMMA KeptTypes ==
  ASSUME TypeInv
  PROVE  /\ made \in Nat /\ base \in Nat /\ base =< made
         /\ initList \in Seq(Results) /\ out \in Seq(Results) /\ Shape(pending)
         /\ Everywhere \in SUBSET Results /\ \A x \in Results : x.number \in Nat
<1>1. made \in Nat /\ base \in Nat /\ base =< made
  BY AssemblerAssumption DEF TypeInv, Types
<1>2. initList \in Seq(Results) /\ out \in Seq(Results) /\ Shape(pending)
  BY DEF TypeInv, Types
<1>3. Elements(initList) \in SUBSET Results /\ Elements(out) \in SUBSET Results
  BY <1>2 DEF Elements
<1>4. Held(pending) \in SUBSET Results
  BY <1>2, InFacts
<1>5. \A x \in Results : x.number \in Nat
  BY DEF Results
<1>6. QED
  BY <1>1, <1>2, <1>3, <1>4, <1>5 DEF Everywhere

\* A result that is queued is a new one, and in one place.
LEMMA KeptQueue ==
  ASSUME TypeInv, ReadbackInv, OrderInv, KeptInv, ~mode.noReadback, NEW k \in Kinds, Queue(k)
  PROVE  /\ Numbers(Everywhere') = base' + 1..made'
         /\ Elements(out') \cap Held(pending') = {} /\ Apart(pending')
<1>1. PICK f \in 0..MaxFrame :
        LET r == [kind |-> k, frame |-> f, number |-> made']
        IN  /\ r \in Results /\ r.kind = k /\ r.frame = f /\ r.number = made'
            /\ next[k] =< f /\ f \in Nat
            /\ next' = After(next, r) /\ next' \in [Kinds -> 0..(MaxFrame + 1)]
            /\ late' = (IF f > pending.latest THEN late ELSE late \cup {k})
            /\ pending' = Queued(pending, r)
  BY QueueFacts
<1> DEFINE r == [kind |-> k, frame |-> f, number |-> made']
<1>2. /\ r \in Results /\ r.kind = k /\ r.frame = f /\ r.number = made'
      /\ next[k] =< f /\ f \in Nat
      /\ next' = After(next, r)
      /\ late' = (IF f > pending.latest THEN late ELSE late \cup {k})
      /\ pending' = Queued(pending, r)
  BY <1>1
<1> HIDE DEF r
<1>3. made' = made + 1 /\ mask = Kinds /\ pending.latest >= 0
  BY QueueFacts
<1>4. Shape(pending) /\ pending.latest \in Int /\ Good(pending, next)
  BY ShapeFacts DEF TypeInv, ReadbackInv
<1>5. next \in [Kinds -> Nat]
  <2>1. next \in [Kinds -> 0..(MaxFrame + 1)] /\ \A n \in 0..(MaxFrame + 1) : n \in Nat
    BY DEF TypeInv, Types
  <2>2. QED
    BY <2>1
<1>6. Arriving(pending, next, r)
  <2>1. next[r.kind] =< r.frame /\ r.frame \in Nat /\ next[r.kind] \in Nat
    BY <1>2, <1>5
  <2>2. QED
    BY <2>1, <1>2, <1>3, <1>4, <1>5 DEF Arriving
<1>7. ~Impossible(pending, r)
  BY <1>3, <1>6, NeverImpossible
<1>8. \A x \in Everywhere : x.number < r.number
  <2> SUFFICES ASSUME NEW x \in Everywhere PROVE x.number < r.number
    OBVIOUS
  <2>1. x.number =< made
    BY DEF OrderInv, Everywhere
  <2>2. x.number \in Nat /\ made \in Nat
    BY KeptTypes
  <2>3. QED
    BY <2>1, <2>2, <1>2, <1>3
<1>9. /\ Numbers(Everywhere) = base + 1..made
      /\ Elements(out) \cap Held(pending) = {} /\ Apart(pending)
  BY DEF KeptInv, Numbers, Everywhere
<1>10. Held(pending') = Held(pending) \cup {r} /\ Apart(pending')
  <2> DEFINE M == late'
  <2>1. late \subseteq M /\ (r.frame =< pending.latest => r.kind \in M)
    BY <1>2, <1>4
  <2>2. \A x \in Held(pending) : x.number < r.number
    BY <1>8 DEF Everywhere
  <2>3. Lined(late, pending) /\ Placed(late, next, pending) /\ next[r.kind] =< r.frame
    BY <1>2 DEF OrderInv
  <2> HIDE DEF M
  <2>4. ~Impossible(pending, r) =>
          /\ Held(Queued(pending, r)) = Held(pending) \cup {r}
          /\ Apart(pending) => Apart(Queued(pending, r))
    BY <1>2, <1>3, <1>4, <1>5, <2>1, <2>2, <2>3, QueuedContents
  <2>5. QED
    BY <2>4, <1>2, <1>7, <1>9
<1>11. out' = out /\ initList' = initList /\ base' = base
  BY DEF Queue
<1>12. Everywhere' = Everywhere \cup {r}
  BY <1>10, <1>11 DEF Everywhere
<1>13. Numbers(Everywhere') = base' + 1..made'
  <2>1. made \in Nat /\ base \in Nat /\ base =< made
    BY KeptTypes
  <2> DEFINE E == Everywhere
  <2>2. Numbers(E) = base + 1..made /\ r.number = made + 1
    BY <1>2, <1>3, <1>9
  <2> HIDE DEF E
  <2>3. Numbers(E \cup {r}) = base + 1..made + 1
    BY <2>1, <2>2, NumbersNext
  <2>4. QED
    BY <2>3, <1>3, <1>11, <1>12 DEF E
<1>14. Elements(out') \cap Held(pending') = {}
  <2>1. r \notin Elements(out)
    <3> SUFFICES ASSUME r \in Elements(out) PROVE FALSE
      OBVIOUS
    <3>1. r.number < r.number /\ r.number \in Nat
      BY <1>2, <1>8, KeptTypes DEF Everywhere
    <3>2. QED
      BY <3>1
  <2>2. QED
    BY <2>1, <1>9, <1>10, <1>11
<1>15. QED
  BY <1>10, <1>13, <1>14

\* A frame that is taken is in the drivers and nowhere else.
LEMMA KeptDeQue ==
  ASSUME TypeInv, KeptInv, ~mode.noReadback, DeQueOne
  PROVE  /\ Numbers(Everywhere') = base' + 1..made'
         /\ Elements(out') \cap Held(pending') = {} /\ Apart(pending')
<1> DEFINE i == Least(DOMAIN pending.map)
           ps == pending.map[i].params
<1>1. /\ i \in DOMAIN pending.map /\ out' = out \o ps
      /\ DOMAIN pending'.map = DOMAIN pending.map \ {i}
      /\ \A j \in DOMAIN pending'.map : pending'.map[j] = pending.map[j]
  BY DeQueFacts
<1>2. made' = made /\ base' = base /\ initList' = initList
  BY DEF DeQueOne
<1> HIDE DEF i
<1>3. out \in Seq(Results) /\ ps \in Seq(Results) /\ Elements(ps) = In(pending, i)
  BY <1>1, KeptTypes, ShapeFacts DEF In
<1> HIDE DEF ps
<1>4. Elements(out') = Elements(out) \cup In(pending, i)
  BY <1>1, <1>3, ConcatenationFacts
<1>5. \A j \in DOMAIN pending'.map : /\ j \in DOMAIN pending.map /\ j /= i
                                     /\ In(pending', j) = In(pending, j)
  BY <1>1 DEF In
<1>6. Held(pending) = In(pending, i) \cup Held(pending')
  BY <1>1, <1>5 DEF Held
<1>7. /\ Numbers(Everywhere) = base + 1..made
      /\ Elements(out) \cap Held(pending) = {} /\ Apart(pending)
  BY DEF KeptInv, Numbers, Everywhere
<1>8. Everywhere' = Everywhere
  BY <1>2, <1>4, <1>6 DEF Everywhere
<1>9. In(pending, i) \cap Held(pending') = {}
  BY <1>1, <1>5, <1>7 DEF Held, Apart
<1>10. Apart(pending')
  BY <1>5, <1>7 DEF Apart
<1>11. QED
  BY <1>2, <1>4, <1>6, <1>7, <1>8, <1>9, <1>10

\* Each step keeps the results.
LEMMA KeptStep ==
  TypeInv /\ ReadbackInv /\ OrderInv /\ KeptInv /\ [Next]_vars => KeptInv'
<1> SUFFICES ASSUME TypeInv, ReadbackInv, OrderInv, KeptInv, [Next]_vars, ~mode.noReadback
             PROVE  /\ Numbers(Everywhere') = base' + 1..made'
                    /\ Elements(out') \cap Held(pending') = {} /\ Apart(pending')
  BY ModeKept DEF KeptInv, Numbers, Everywhere
<1>1. /\ Numbers(Everywhere) = base + 1..made
      /\ Elements(out) \cap Held(pending) = {} /\ Apart(pending)
  BY DEF KeptInv, Numbers, Everywhere
<1>2. made \in Nat /\ base \in Nat /\ base =< made
  BY KeptTypes
<1>3. ASSUME NEW k \in Kinds, QueueInitial(k)
      PROVE  /\ Numbers(Everywhere') = base' + 1..made'
             /\ Elements(out') \cap Held(pending') = {} /\ Apart(pending')
  <2> DEFINE r == [kind |-> k, frame |-> 0, number |-> made']
             E == Everywhere
  <2>1. /\ initList' = Append(initList, r) /\ pending' = pending /\ out' = out
        /\ made' = made + 1 /\ base' = base /\ made < MaxResults
    BY <1>3 DEF QueueInitial
  <2>2. initList \in Seq(Results)
    BY KeptTypes
  <2>3. r \in Results /\ r.number = made'
    BY <2>1, <1>2, AssemblerAssumption DEF Results
  <2> HIDE DEF r
  <2>4. Elements(Append(initList, r)) = Elements(initList) \cup {r}
    BY <2>2, <2>3, AppendFacts
  <2>5. Everywhere' = E \cup {r}
    BY <2>1, <2>4 DEF Everywhere
  <2>6. Numbers(E) = base + 1..made /\ r.number = made + 1
    BY <2>1, <2>3, <1>1
  <2> HIDE DEF E
  <2>7. Numbers(E \cup {r}) = base + 1..made + 1
    BY <2>6, <1>2, NumbersNext
  <2>8. QED
    BY <2>1, <2>5, <2>7, <1>1
<1>4. ASSUME NEW k \in Kinds, Queue(k)
      PROVE  /\ Numbers(Everywhere') = base' + 1..made'
             /\ Elements(out') \cap Held(pending') = {} /\ Apart(pending')
  BY <1>4, KeptQueue
<1>5. CASE Start
  <2>1. /\ Held(pending') = Elements(initList) /\ Apart(pending')
        /\ Elements(initList') = {} /\ Elements(out') = {}
    BY <1>5, OrderStart
  <2>2. pending = Nothing /\ out = << >> /\ made' = made /\ base' = base
    BY <1>5 DEF Start, TypeInv, Session
  <2>3. Elements(out) = {} /\ Held(pending) = {}
    BY <2>2, NothingOrdered, NothingFacts
  <2>4. Everywhere' = Everywhere
    BY <2>1, <2>3 DEF Everywhere
  <2>5. QED
    BY <2>1, <2>2, <2>4, <1>1
<1>6. ASSUME ForceReady PROVE FALSE
  BY <1>6 DEF ForceReady
<1>7. CASE DeQueOne
  BY <1>7, KeptDeQue
<1>8. CASE Stop
  <2>1. pending' = Nothing /\ out' = << >> /\ initList' = << >> /\ base' = made /\ made' = made
    BY <1>8 DEF Stop
  <2>2. /\ Elements(out') = {} /\ Elements(initList') = {} /\ Held(pending') = {}
        /\ Apart(pending')
    BY <2>1, NothingOrdered, NothingFacts DEF Apart
  <2>3. Everywhere' = {}
    BY <2>2 DEF Everywhere
  <2>4. Numbers({}) = {} /\ made + 1..made = {}
    BY <1>2 DEF Numbers
  <2>5. QED
    BY <2>1, <2>2, <2>3, <2>4
<1>9. CASE UNCHANGED vars
  BY <1>1, <1>9 DEF vars, Everywhere
<1>10. QED
  BY <1>3, <1>4, <1>5, <1>6, <1>7, <1>8, <1>9 DEF Next

\* KeptInv is an invariant.
THEOREM KeptInvariant == Spec => []KeptInv
<1>1. TypeInv /\ ReadbackInv /\ OrderInv /\ KeptInv /\ [Next]_vars => KeptInv'
  BY KeptStep
<1>2. QED
  BY <1>1, TypeInvariant, ReadbackInvariant, OrderInvariant, KeptInit, PTL DEF Spec

\* ResultsKept: where no frame is forced, each result queued is in exactly one place
\* until it reaches the drivers; the moves and merges neither lose nor repeat one.
THEOREM NothingLost == Spec => []ResultsKept
<1>1. KeptInv => ResultsKept
  BY DEF KeptInv, ResultsKept, Held, In
<1>2. QED
  BY <1>1, KeptInvariant, PTL
=============================================================================
