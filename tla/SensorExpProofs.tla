-------------------------- MODULE SensorExpProofs --------------------------
(***************************************************************************)
(* Proofs about SensorExp, for any number of exposures, frames and         *)
(* sessions, and any size of the map.  The types and the order of the list *)
(* hold for any delays.  That the registers end on one exposure needs a    *)
(* time delay that is not negative; that the exposure reported is the real *)
(* one needs delays the driver can make up for: it holds a register back   *)
(* by one frame, and one kind of register at a time (OneFrame).            *)
(***************************************************************************)
EXTENDS SensorExp, FiniteSetTheorems, SequenceTheorems, WellFoundedInduction, TLAPS

-----------------------------------------------------------------------------
(* The invariant *)

\* What the thread does, and what there is, before and after the first exposure.
Session ==
  /\ streaming => ~first
  /\ ~streaming => pc = "idle" /\ sof = -1 /\ delayed = [r \in {"gain", "dcg"} |-> << >>]
  /\ pc /= "idle" => sof >= 0 /\ delayed = [r \in {"gain", "dcg"} |-> << >>]
  /\ first => expList = << >> /\ effecting = Empty /\ written = Empty /\ owed = {} /\ applied = {}
  /\ ~first => last["time"] \in Exposures

\* The map of the exposures in effect is bounded.
MapInv ==
  /\ DOMAIN effecting \in SUBSET Int /\ IsFiniteSet(DOMAIN effecting)
  /\ \A i \in DOMAIN effecting : effecting[i] \in Exposures
  /\ Cardinality(DOMAIN effecting) =< IF pc = "idle" THEN MaxMap + 1 ELSE MaxMap

\* What was written in which frame.
WrittenInv ==
  /\ DOMAIN written \in SUBSET (-1..MaxFrame)
  /\ \A s \in DOMAIN written : written[s] \in [Registers -> 0..MaxExp]

\* The types of the other variables.
Basic ==
  /\ delay \in [Registers -> Int]
  /\ gainDelayed \in BOOLEAN /\ dcgDelayed \in BOOLEAN /\ dcgWithTime \in BOOLEAN
  /\ first \in BOOLEAN /\ streaming \in BOOLEAN /\ lost \in BOOLEAN
  /\ expList \in Seq(Exposures \X BOOLEAN)
  /\ delayed \in [{"gain", "dcg"} -> Seq(Exposures)]
  /\ \A r \in {"gain", "dcg"} : Len(delayed[r]) =< 1
  /\ last \in [Registers -> 0..MaxExp]
  /\ pc \in {"idle", "write", "record"}
  /\ sof \in -1..MaxFrame /\ set \subseteq Registers
  /\ made \in 0..MaxExp /\ stops \in 0..MaxSessions
  /\ owed \subseteq Exposures /\ applied \subseteq Exposures

\* The type invariant.
TypeInv == Basic /\ Session /\ MapInv /\ WrittenInv

\* The list is in the order asked for, and behind what was applied.
ListInv ==
  /\ \A i, j \in DOMAIN expList : i < j => expList[i][1] < expList[j][1]
  /\ \A i \in DOMAIN expList : expList[i][1] =< made
  /\ \A e \in applied : e =< made /\ \A i \in DOMAIN expList : e < expList[i][1]
  /\ \A e \in owed : e \in applied \/ \E i \in Firsts : expList[i][1] = e

-----------------------------------------------------------------------------
(* What the sensor got, and what the map says *)

\* The registers that are held back, by the flags.
Held == {r \in {"gain", "dcg"} : IF r = "gain" THEN gainDelayed ELSE dcgDelayed}

\* The registers composeExpParam takes from a list, and the list.
Late == IF dcgDelayed THEN {"dcg"}
        ELSE IF ~gainDelayed THEN {} ELSE IF dcgWithTime THEN {"gain"} ELSE {"gain", "dcg"}
Source == IF dcgDelayed THEN "dcg" ELSE "gain"

\* The last frame handle_sof is done with.
Done == IF pc = "idle" THEN sof ELSE sof - 1

\* The newest entry of the map.
NewestKey == Latest(DOMAIN effecting)
NewestWrite == Latest(DOMAIN written)

\* Nothing written or recorded is ahead of the frames; before the first of them there
\* is only the first exposure.
Placed ==
  /\ -1 \in DOMAIN written /\ \A s \in DOMAIN written : s =< (IF pc = "write" THEN sof - 1 ELSE sof)
  /\ DOMAIN effecting /= {}
  /\ \A i \in DOMAIN effecting : i =< 0 \/ i =< Done + delay["time"]
  /\ ~streaming => last = All(last["time"]) /\ DOMAIN written = {-1} /\ DOMAIN effecting = {0}

\* The last write and the last entry of the map are of the last exposure popped.
LastWritten == \A r \in Registers : written[NewestWrite][r] = last[IF r \in Late THEN Source ELSE "time"]
LastRecorded == effecting[NewestKey] = last["time"]

\* What is held back is the exposure of the frame before, the newest in the map, and
\* nothing else is.
HeldBack ==
  /\ pc /= "idle" => \A r \in Held : last[r] = effecting[NewestKey]
  /\ \A r \in {"gain", "dcg"} \ Held : delayed[r] = << >>
  /\ pc = "idle" => \A r \in Held : \/ delayed[r] = << >> /\ last[r] = last["time"]
                                    \/ delayed[r] = <<last["time"]>>

\* What was written last.
LastInv ==
  ~first =>
    /\ Placed
    /\ pc /= "write" => LastWritten
    /\ pc = "idle" \/ "time" \notin set => LastRecorded
    /\ HeldBack

\* set_exp_delay_info took the delays, and all its flags are of these.
Sound ==
  /\ delay["time"] >= delay["gain"] /\ delay["time"] >= delay["dcg"]
  /\ dcgDelayed => DcgFaster(delay)

\* A register is held back if and only if it is one frame faster than the time.
Fitting == Sound => \A r \in Used : delay[r] = IF r \in Late THEN delay["time"] - 1 ELSE delay["time"]

\* The first frame the map still has an entry for.
Low == IF sof + delay["time"] < MaxMap THEN 0 ELSE sof + delay["time"] - MaxMap

\* The map still covers the frames from Low on, and says the truth of each frame
\* whose registers are decided.
TrueInv ==
  streaming /\ ~lost /\ Sound =>
    /\ \E i \in DOMAIN effecting : i =< Low
    /\ \A r \in Used, f \in Int :
         Low =< f /\ f =< Done + delay[r] => InEffect(r, f) = Reported(f)

\* The delays the driver can make up for.
OneFrame(d) ==
  d["time"] >= d["gain"] /\ d["time"] >= d["dcg"] =>
    /\ d["gain"] \in {d["time"] - 1, d["time"]}
    /\ \/ d["dcg"] < 0
       \/ d["dcg"] \in {d["time"], d["gain"]}
       \/ d["gain"] = d["time"] /\ d["dcg"] = d["time"] - 1 /\ d["dcg"] > 0

-----------------------------------------------------------------------------
(* Lemmas about sets of frames and about maps *)

\* A set of integers that is bounded above has a greatest element: Latest.
LEMMA LatestFacts ==
  ASSUME NEW S \in SUBSET Int, S /= {}, NEW b \in Int, \A x \in S : x =< b
  PROVE  Latest(S) \in S /\ \A y \in S : y =< Latest(S)
<1> DEFINE N == {b - x : x \in S}
<1>1. N \in SUBSET Nat /\ N /= {}
  <2>1. \A x \in S : b - x \in Nat
    OBVIOUS
  <2>2. QED
    BY <2>1
<1>2. PICK k \in N : \A i \in N : <<i, k>> \notin OpToRel(<, Nat)
  BY <1>1, WFMin, NatLessThanWellFounded
<1>3. \A i \in N : ~(i < k)
  <2> SUFFICES ASSUME NEW i \in N, i < k PROVE <<i, k>> \in OpToRel(<, Nat)
    BY <1>2
  <2>1. <<i, k>> \in Nat \X Nat /\ <<i, k>>[1] < <<i, k>>[2]
    BY <1>1
  <2>2. QED
    BY <2>1 DEF OpToRel
<1>4. PICK m \in S : k = b - m
  OBVIOUS
<1>5. \A y \in S : y =< m
  <2> SUFFICES ASSUME NEW y \in S PROVE y =< m
    OBVIOUS
  <2>1. b - y \in N /\ ~(b - y < b - m)
    BY <1>3, <1>4
  <2>2. y \in Int /\ m \in Int
    OBVIOUS
  <2> HIDE DEF N
  <2>3. QED
    BY <2>1, <2>2
<1>6. QED
  BY <1>5 DEF Latest

\* The greatest element is the only one.
LEMMA LatestIs ==
  ASSUME NEW S \in SUBSET Int, NEW m \in S, \A y \in S : y =< m
  PROVE  Latest(S) = m
<1>1. Latest(S) \in S /\ \A y \in S : y =< Latest(S)
  BY DEF Latest
<1>2. Latest(S) \in Int /\ m \in Int /\ m =< Latest(S) /\ Latest(S) =< m
  BY <1>1
<1>3. QED
  BY <1>2

\* Trimming keeps at most MaxMap entries, with every entry those above it.
LEMMA TrimmedFacts ==
  ASSUME NEW map, DOMAIN map \in SUBSET Int, IsFiniteSet(DOMAIN map)
  PROVE  /\ DOMAIN Trimmed(map) \in SUBSET DOMAIN map
         /\ \A i \in DOMAIN Trimmed(map) : Trimmed(map)[i] = map[i]
         /\ \A i \in DOMAIN Trimmed(map), j \in DOMAIN map : i =< j => j \in DOMAIN Trimmed(map)
         /\ IsFiniteSet(DOMAIN Trimmed(map))
         /\ Cardinality(DOMAIN Trimmed(map)) =< MaxMap
<1> DEFINE D == DOMAIN map
           Up(i) == {j \in D : j >= i}
           K == DOMAIN Trimmed(map)
<1>1. K = {i \in D : Cardinality(Up(i)) =< MaxMap} /\ \A i \in K : Trimmed(map)[i] = map[i]
  BY DEF Trimmed, Restrict
<1>2. \A i \in D : IsFiniteSet(Up(i)) /\ Cardinality(Up(i)) \in Nat
  <2> SUFFICES ASSUME NEW i \in D PROVE IsFiniteSet(Up(i)) /\ Cardinality(Up(i)) \in Nat
    OBVIOUS
  <2>1. Up(i) \in SUBSET D
    OBVIOUS
  <2>2. QED
    BY <2>1, FS_Subset, FS_CardinalityType
<1>3. \A i, j \in D : i =< j => Cardinality(Up(j)) =< Cardinality(Up(i))
  <2> SUFFICES ASSUME NEW i \in D, NEW j \in D, i =< j PROVE Cardinality(Up(j)) =< Cardinality(Up(i))
    OBVIOUS
  <2>1. Up(j) \in SUBSET Up(i)
    OBVIOUS
  <2>2. QED
    BY <2>1, <1>2, FS_Subset
<1>4. \A i, j \in D : i < j => Cardinality(Up(j)) < Cardinality(Up(i))
  <2> SUFFICES ASSUME NEW i \in D, NEW j \in D, i < j PROVE Cardinality(Up(j)) < Cardinality(Up(i))
    OBVIOUS
  <2>1. Up(j) \in SUBSET Up(i) /\ i \in Up(i) /\ i \notin Up(j)
    OBVIOUS
  <2>2. Cardinality(Up(j)) =< Cardinality(Up(i)) /\ Cardinality(Up(j)) /= Cardinality(Up(i))
    BY <2>1, <1>2, FS_Subset
  <2>3. QED
    BY <2>2, <1>2
<1>5. K \in SUBSET D /\ IsFiniteSet(K) /\ Cardinality(K) \in Nat
  <2>1. K \in SUBSET D
    BY <1>1
  <2>2. QED
    BY <2>1, FS_Subset, FS_CardinalityType
<1>6. MaxMap \in Nat
  BY SensorAssumption
<1>7. \A i \in K, j \in D : i =< j => j \in K
  <2> SUFFICES ASSUME NEW i \in K, NEW j \in D, i =< j PROVE Cardinality(Up(j)) =< MaxMap
    BY <1>1
  <2>1. i \in D /\ Cardinality(Up(i)) =< MaxMap
    BY <1>1
  <2>2. Cardinality(Up(j)) =< Cardinality(Up(i))
    BY <1>3, <2>1
  <2>3. Cardinality(Up(i)) \in Nat /\ Cardinality(Up(j)) \in Nat
    BY <1>2, <2>1
  <2> HIDE DEF Up, K
  <2>4. QED
    BY <1>6, <2>1, <2>2, <2>3
<1>8. Cardinality(K) =< MaxMap
  <2>1. CASE K = {}
    BY <2>1, <1>6, FS_EmptySet
  <2>2. CASE K /= {}
    <3> DEFINE C == {Cardinality(Up(i)) : i \in K}
    <3>1. C \in SUBSET Int /\ C /= {} /\ \A x \in C : x =< MaxMap
      <4>1. \A i \in K : Cardinality(Up(i)) \in Int /\ Cardinality(Up(i)) =< MaxMap
        BY <1>1, <1>2
      <4> HIDE DEF Up, K
      <4>2. QED
        BY <2>2, <4>1
    <3>2. Latest(C) \in C /\ \A x \in C : x =< Latest(C)
      <4>1. MaxMap \in Int
        BY <1>6
      <4> HIDE DEF C
      <4>2. QED
        BY <3>1, <4>1, LatestFacts
    <3>3. PICK i \in K : Latest(C) = Cardinality(Up(i))
      BY <3>2
    <3>4. \A k \in K : k \in Up(i)
      <4> SUFFICES ASSUME NEW k \in K, k \notin Up(i) PROVE FALSE
        OBVIOUS
      <4>1. k \in D /\ i \in D /\ k < i
        BY <1>5
      <4>2. Cardinality(Up(i)) < Cardinality(Up(k))
        BY <4>1, <1>4
      <4>3. Cardinality(Up(k)) \in C
        OBVIOUS
      <4>4. Cardinality(Up(k)) \in Nat /\ Cardinality(Up(i)) \in Nat
        BY <4>1, <1>2
      <4>5. Cardinality(Up(k)) =< Latest(C)
        BY <3>2, <4>3
      <4> HIDE DEF Up, K, C
      <4>6. QED
        BY <3>3, <4>2, <4>4, <4>5
    <3>5. K \in SUBSET Up(i) /\ i \in D
      BY <3>4, <1>5
    <3>6. Cardinality(K) =< Cardinality(Up(i)) /\ Cardinality(Up(i)) =< MaxMap
      BY <3>5, <1>1, <1>2, FS_Subset
    <3>7. QED
      BY <3>5, <3>6, <1>2, <1>5, <1>6
  <2>3. QED
    BY <2>1, <2>2
<1>9. QED
  BY <1>1, <1>5, <1>7, <1>8

\* The newest entry stays; and if an entry goes there are MaxMap left, so that the
\* oldest of them is at most MaxMap - 1 below any bound of the frames.
LEMMA TrimmedLow ==
  ASSUME NEW map, DOMAIN map \in SUBSET Int, IsFiniteSet(DOMAIN map), DOMAIN map /= {},
         NEW b \in Int, \A i \in DOMAIN map : i =< b
  PROVE  /\ Latest(DOMAIN map) \in DOMAIN Trimmed(map)
         /\ Latest(DOMAIN Trimmed(map)) = Latest(DOMAIN map)
         /\ DOMAIN Trimmed(map) = DOMAIN map \/ \E i \in DOMAIN Trimmed(map) : i =< b + 1 - MaxMap
<1> DEFINE D == DOMAIN map
           Up(i) == {j \in D : j >= i}
           K == DOMAIN Trimmed(map)
           m == Latest(D)
<1>1. m \in D /\ \A y \in D : y =< m
  BY LatestFacts
<1>2. K = {i \in D : Cardinality(Up(i)) =< MaxMap}
  BY DEF Trimmed, Restrict
<1>3. MaxMap \in Nat \ {0}
  BY SensorAssumption
<1>4. m \in K
  <2>1. Up(m) = {m}
    BY <1>1
  <2>2. Cardinality(Up(m)) = 1
    BY <2>1, FS_Singleton
  <2>3. QED
    BY <1>1, <1>2, <1>3, <2>2
<1>5. K \in SUBSET D
  BY <1>2
<1>6. Latest(K) = m
  <2>1. K \in SUBSET Int /\ \A y \in K : y =< m
    BY <1>1, <1>5
  <2>2. QED
    <3> HIDE DEF K, m
    <3> QED
      BY <2>1, <1>4, LatestIs
<1>7. K = D \/ \E i \in K : i =< b + 1 - MaxMap
  <2> SUFFICES ASSUME K /= D, \A i \in K : ~(i =< b + 1 - MaxMap) PROVE FALSE
    OBVIOUS
  <2> DEFINE G == D \ K
             x == Latest(G)
  <2>1. G \in SUBSET Int /\ G /= {} /\ \A y \in G : y =< b
    BY <1>5
  <2>2. x \in G /\ \A y \in G : y =< x
    <3> HIDE DEF G
    <3> QED
      BY <2>1, LatestFacts
  <2> HIDE DEF x
  <2>3. \A j \in Up(x) : j \in K \cup {x}
    <3> SUFFICES ASSUME NEW j \in Up(x), j \notin K PROVE j = x
      OBVIOUS
    <3>1. j \in G
      OBVIOUS
    <3>2. QED
      BY <3>1, <2>2
  <2>4. IsFiniteSet(K) /\ Cardinality(K) \in Nat /\ IsFiniteSet(Up(x)) /\ Cardinality(Up(x)) \in Nat
    <3>1. K \in SUBSET D /\ Up(x) \in SUBSET D
      BY <1>5
    <3>2. QED
      <4> HIDE DEF K, Up, D
      <4> QED
        BY <3>1, FS_Subset, FS_CardinalityType DEF D
  <2>5. ~(Cardinality(Up(x)) =< MaxMap)
    BY <1>2, <2>2
  <2>6. /\ IsFiniteSet(K \cup {x}) /\ Cardinality(K \cup {x}) =< Cardinality(K) + 1
        /\ Cardinality(K \cup {x}) \in Nat
    <3> HIDE DEF K
    <3>1. /\ IsFiniteSet(K \cup {x})
          /\ Cardinality(K \cup {x}) = IF x \in K THEN Cardinality(K) ELSE Cardinality(K) + 1
      BY <2>4, FS_AddElement
    <3>2. QED
      BY <2>4, <3>1, FS_CardinalityType
  <2>7. Cardinality(Up(x)) =< Cardinality(K \cup {x})
    <3> HIDE DEF K, Up
    <3>1. Up(x) \in SUBSET (K \cup {x})
      BY <2>3
    <3>2. QED
      BY <3>1, <2>6, FS_Subset
  <2>8. Cardinality(K) >= MaxMap
    <3> HIDE DEF K, Up
    <3> QED
      BY <2>4, <2>5, <2>6, <2>7, <1>3
  <2>9. K \in SUBSET ((b + 2 - MaxMap)..b)
    BY <1>3, <1>5
  <2>10. /\ IsFiniteSet((b + 2 - MaxMap)..b)
         /\ Cardinality((b + 2 - MaxMap)..b) = IF b + 2 - MaxMap > b THEN 0 ELSE b - (b + 2 - MaxMap) + 1
    BY <1>3, FS_Interval
  <2>11. Cardinality(K) =< Cardinality((b + 2 - MaxMap)..b)
    <3> HIDE DEF K
    <3> QED
      BY <2>9, <2>10, FS_Subset
  <2>12. QED
    <3> HIDE DEF K
    <3> QED
      BY <2>4, <2>8, <2>10, <2>11, <1>3
<1>8. QED
  BY <1>4, <1>6, <1>7

-----------------------------------------------------------------------------
(* Types *)

\* The list after a table was set: the firsts of the old one, in their order, and
\* the new exposures.
LEMMA TableFacts ==
  ASSUME Basic, NEW n \in 0..MaxTable, NEW at \in [1..Cardinality(Firsts) -> Firsts],
         \A i, j \in DOMAIN at : i < j => at[i] < at[j],
         made + n =< MaxExp,
         expList' = [i \in DOMAIN at |-> expList[at[i]]] \o [i \in 1..n |-> <<made + i, i = 1>>]
  PROVE  \E c \in Nat :
           /\ expList' \in Seq(Exposures \X BOOLEAN) /\ DOMAIN expList' = 1..(c + n)
           /\ \A i \in 1..c : at[i] \in Firsts /\ expList'[i] = expList[at[i]]
           /\ \A i \in 1..c, j \in 1..c : i < j => at[i] < at[j]
           /\ \A i \in (c + 1)..(c + n) : expList'[i] = <<made + i - c, i - c = 1>>
           /\ \A k \in Firsts : \E i \in 1..c : at[i] = k
<1> DEFINE c == Cardinality(Firsts)
           old == [i \in DOMAIN at |-> expList[at[i]]]
           new == [i \in 1..n |-> <<made + i, i = 1>>]
<1>1. /\ expList \in Seq(Exposures \X BOOLEAN) /\ Firsts \in SUBSET (1..Len(expList))
      /\ Len(expList) \in Nat /\ made \in Nat /\ MaxExp \in Nat /\ n \in Nat
  BY SensorAssumption DEF Basic, Firsts
<1>2. IsFiniteSet(Firsts) /\ c \in Nat
  <2>1. IsFiniteSet(1..Len(expList))
    BY <1>1, FS_Interval
  <2>2. QED
    BY <1>1, <2>1, FS_Subset, FS_CardinalityType
<1>3. \A k \in Firsts : \E i \in 1..c : at[i] = k
  <2>1. \A i, j \in 1..c : i /= j => at[i] /= at[j]
    <3> SUFFICES ASSUME NEW i \in 1..c, NEW j \in 1..c, i < j PROVE at[i] /= at[j]
      BY <1>2
    <3>1. at[i] < at[j] /\ at[i] \in Firsts /\ at[j] \in Firsts
      OBVIOUS
    <3>2. \A x \in Firsts : x \in Int
      BY <1>1
    <3>3. QED
      BY <3>1, <3>2
  <2>2. at \in Injection(1..c, Firsts)
    BY <2>1 DEF Injection, IsInjective
  <2>3. Cardinality(1..c) = c
    BY <1>2, FS_Interval
  <2>4. at \in Surjection(1..c, Firsts)
    BY <1>2, <2>2, <2>3, FS_Injection
  <2>5. QED
    BY <2>4 DEF Surjection
<1>4. old \in Seq(Exposures \X BOOLEAN) /\ Len(old) = c
  <2>1. \A i \in 1..c : expList[at[i]] \in Exposures \X BOOLEAN
    <3> SUFFICES ASSUME NEW i \in 1..c PROVE expList[at[i]] \in Exposures \X BOOLEAN
      OBVIOUS
    <3>1. at[i] \in 1..Len(expList)
      BY <1>1
    <3>2. QED
      BY <1>1, <3>1
  <2>2. QED
    BY <1>2, <2>1
<1>5. new \in Seq(Exposures \X BOOLEAN) /\ Len(new) = n
  <2>1. \A i \in 1..n : <<made + i, i = 1>> \in Exposures \X BOOLEAN
    <3> SUFFICES ASSUME NEW i \in 1..n PROVE <<made + i, i = 1>> \in Exposures \X BOOLEAN
      OBVIOUS
    <3>1. made + i \in 1..MaxExp
      BY <1>1
    <3>2. QED
      BY <3>1 DEF Exposures
  <2>2. QED
    BY <1>1, <2>1
<1> HIDE DEF old, new
<1>6. /\ old \o new \in Seq(Exposures \X BOOLEAN) /\ Len(old \o new) = c + n
      /\ \A i \in 1..(c + n) : (old \o new)[i] = IF i =< c THEN old[i] ELSE new[i - c]
  <2>1. /\ old \o new \in Seq(Exposures \X BOOLEAN) /\ Len(old \o new) = Len(old) + Len(new)
        /\ \A i \in 1..(Len(old) + Len(new)) :
             (old \o new)[i] = IF i <= Len(old) THEN old[i] ELSE new[i - Len(old)]
    BY <1>4, <1>5, ConcatProperties
  <2> HIDE DEF c
  <2>2. QED
    BY <1>4, <1>5, <2>1
<1>7. expList' = old \o new
  BY DEF old, new
<1>8. \A i \in 1..c : at[i] \in Firsts /\ expList'[i] = expList[at[i]]
  <2> SUFFICES ASSUME NEW i \in 1..c PROVE expList'[i] = expList[at[i]]
    OBVIOUS
  <2>1. i \in 1..(c + n) /\ i =< c
    BY <1>1, <1>2
  <2>2. expList'[i] = old[i]
    BY <2>1, <1>6, <1>7
  <2>3. QED
    BY <2>2 DEF old
<1>9. \A i \in (c + 1)..(c + n) : expList'[i] = <<made + i - c, i - c = 1>>
  <2> SUFFICES ASSUME NEW i \in (c + 1)..(c + n) PROVE expList'[i] = <<made + i - c, i - c = 1>>
    OBVIOUS
  <2>1. i \in 1..(c + n) /\ ~(i =< c) /\ i - c \in 1..n /\ made + (i - c) = made + i - c
    BY <1>1, <1>2
  <2>2. expList'[i] = new[i - c]
    BY <2>1, <1>6, <1>7
  <2>3. QED
    BY <2>1, <2>2 DEF new
<1>10. DOMAIN expList' = 1..(c + n)
  BY <1>6, <1>7, LenProperties
<1>11. \A i \in 1..c, j \in 1..c : i < j => at[i] < at[j]
  OBVIOUS
<1> HIDE DEF c
<1>12. QED
  BY <1>2, <1>3, <1>6, <1>7, <1>8, <1>9, <1>10, <1>11

\* The lists and the map are empty before the first exposure.
LEMMA TypeStart == ASSUME Init PROVE TypeInv
<1>1. /\ << >> \in Seq(Exposures \X BOOLEAN) /\ << >> \in Seq(Exposures) /\ Len(<< >>) = 0
      /\ IsFiniteSet({}) /\ Cardinality({}) = 0 /\ DOMAIN Empty = {}
  BY EmptySeq, FS_EmptySet DEF Empty
<1>2. MaxExp \in Nat /\ MaxSessions \in Nat /\ MaxFrame \in Nat /\ MaxMap \in Nat
  BY SensorAssumption
<1>3. Basic
  <2> DEFINE none == [r \in {"gain", "dcg"} |-> << >>]
  <2>1. All(0) \in [Registers -> Int] /\ All(0) \in [Registers -> 0..MaxExp]
    BY <1>2 DEF All
  <2>2. none \in [{"gain", "dcg"} -> Seq(Exposures)] /\ \A r \in {"gain", "dcg"} : Len(none[r]) =< 1
    BY <1>1
  <2>3. 0 \in 0..MaxExp /\ 0 \in 0..MaxSessions /\ -1 \in -1..MaxFrame
    BY <1>2
  <2>4. delay = All(0) /\ last = All(0) /\ delayed = none /\ expList = << >> /\ pc = "idle"
    BY DEF Init
  <2> HIDE DEF none
  <2>5. /\ gainDelayed \in BOOLEAN /\ dcgDelayed \in BOOLEAN /\ dcgWithTime \in BOOLEAN
        /\ first \in BOOLEAN /\ streaming \in BOOLEAN /\ lost \in BOOLEAN
    BY DEF Init
  <2>6. sof \in -1..MaxFrame /\ set \subseteq Registers /\ made \in 0..MaxExp /\ stops \in 0..MaxSessions
        /\ owed \subseteq Exposures /\ applied \subseteq Exposures
    BY <2>3 DEF Init
  <2>7. QED
    BY <1>1, <2>1, <2>2, <2>4, <2>5, <2>6 DEF Basic
<1>4. Session
  BY DEF Init, Session
<1>5. MapInv
  <2>1. pc = "idle" /\ DOMAIN effecting = {}
    BY <1>1 DEF Init
  <2>2. QED
    BY <1>1, <1>2, <2>1 DEF MapInv
<1>6. WrittenInv
  BY <1>1 DEF Init, WrittenInv
<1>7. QED
  BY <1>3, <1>4, <1>5, <1>6 DEF TypeInv

\* What handle_sof pops is the exposures of before.
LEMMA PopFacts ==
  ASSUME Basic
  PROVE  /\ \A r \in Registers : Popped(r) \in 0..MaxExp
         /\ "time" \in Waiting <=> expList /= << >>
         /\ \A r \in {"gain", "dcg"} : r \in Waiting <=> delayed[r] /= << >>
         /\ "time" \in Waiting => Popped("time") = Head(expList)[1] /\ Popped("time") \in Exposures
         /\ \A r \in {"gain", "dcg"} : r \in Waiting => Popped(r) = Head(delayed[r])
         /\ \A r \in Registers : r \notin Waiting => Popped(r) = last[r]
         /\ Waiting \subseteq Registers
<1>1. /\ expList \in Seq(Exposures \X BOOLEAN) /\ last \in [Registers -> 0..MaxExp]
      /\ \A r \in {"gain", "dcg"} : delayed[r] \in Seq(Exposures)
  BY DEF Basic
<1>2. "time" \in Waiting <=> expList /= << >>
  BY DEF Waiting
<1>3. \A r \in {"gain", "dcg"} : r \in Waiting <=> delayed[r] /= << >>
  BY DEF Waiting
<1>4. "time" \in Waiting => Popped("time") = Head(expList)[1] /\ Popped("time") \in Exposures
  <2> SUFFICES ASSUME "time" \in Waiting PROVE Popped("time") = Head(expList)[1] /\ Head(expList)[1] \in Exposures
    OBVIOUS
  <2>1. Head(expList) \in Exposures \X BOOLEAN
    BY <1>1, <1>2, HeadTailProperties
  <2>2. QED
    BY <2>1 DEF Popped
<1>5. \A r \in {"gain", "dcg"} : r \in Waiting => Popped(r) = Head(delayed[r]) /\ Popped(r) \in Exposures
  <2> SUFFICES ASSUME NEW r \in {"gain", "dcg"}, r \in Waiting
               PROVE  Popped(r) = Head(delayed[r]) /\ Head(delayed[r]) \in Exposures
    OBVIOUS
  <2>1. Head(delayed[r]) \in Exposures
    BY <1>1, <1>3, HeadTailProperties
  <2>2. r /= "time"
    OBVIOUS
  <2>3. QED
    BY <2>1, <2>2 DEF Popped
<1>6. \A r \in Registers : r \notin Waiting => Popped(r) = last[r]
  BY DEF Popped
<1>7. \A r \in Registers : Popped(r) \in 0..MaxExp
  BY <1>1, <1>4, <1>5, <1>6 DEF Registers, Exposures
<1>8. QED
  BY <1>2, <1>3, <1>4, <1>5, <1>6, <1>7 DEF Waiting, Registers

\* Every step keeps the types.
LEMMA TypeNext == ASSUME TypeInv, [Next]_vars PROVE TypeInv'
<1> USE DEF TypeInv
<1>1. CASE SetDelays
  <2>1. PICK d \in Configs :
          /\ delay' = d
          /\ IF d["gain"] > d["time"]
             THEN UNCHANGED <<gainDelayed, dcgDelayed, dcgWithTime>>
             ELSE /\ gainDelayed' = (d["time"] > d["gain"])
                  /\ CASE d["dcg"] > d["time"] -> UNCHANGED <<dcgDelayed, dcgWithTime>>
                       [] d["dcg"] =< d["time"] /\ DcgFaster(d) ->
                            dcgDelayed' = TRUE /\ UNCHANGED dcgWithTime
                       [] OTHER ->
                            dcgWithTime' = (d["dcg"] = d["time"]) /\ UNCHANGED dcgDelayed
    BY <1>1 DEF SetDelays
  <2>2. d \in [Registers -> Int]
    BY SensorAssumption
  <2>3. gainDelayed' \in BOOLEAN /\ dcgDelayed' \in BOOLEAN /\ dcgWithTime' \in BOOLEAN
    <3>1. gainDelayed \in BOOLEAN /\ dcgDelayed \in BOOLEAN /\ dcgWithTime \in BOOLEAN
      BY DEF Basic
    <3>2. gainDelayed' = gainDelayed \/ gainDelayed' = (d["time"] > d["gain"])
      BY <2>1
    <3>3. (dcgDelayed' = dcgDelayed \/ dcgDelayed' = TRUE)
          /\ (dcgWithTime' = dcgWithTime \/ dcgWithTime' = (d["dcg"] = d["time"]))
      <4>1. CASE d["gain"] > d["time"]
        BY <2>1, <4>1
      <4>2. CASE ~(d["gain"] > d["time"]) /\ d["dcg"] > d["time"]
        BY <2>1, <4>2
      <4>3. CASE ~(d["gain"] > d["time"]) /\ d["dcg"] =< d["time"] /\ DcgFaster(d)
        <5>1. ~(d["dcg"] > d["time"])
          BY <2>2, <4>3 DEF Registers
        <5>2. QED
          BY <2>1, <4>3, <5>1
      <4>4. CASE ~(d["gain"] > d["time"]) /\ ~(d["dcg"] > d["time"])
                   /\ ~(d["dcg"] =< d["time"] /\ DcgFaster(d))
        BY <2>1, <4>4
      <4>5. d["dcg"] > d["time"] \/ d["dcg"] =< d["time"]
        BY <2>2 DEF Registers
      <4>6. QED
        BY <4>1, <4>2, <4>3, <4>4, <4>5
    <3>4. gainDelayed' \in BOOLEAN
      <4> DEFINE b == d["time"] > d["gain"]
      <4>1. b \in BOOLEAN
        OBVIOUS
      <4>2. gainDelayed' = gainDelayed \/ gainDelayed' = b
        BY <3>2
      <4> HIDE DEF b
      <4>3. QED
        BY <3>1, <4>1, <4>2
    <3>5. dcgDelayed' \in BOOLEAN
      BY <3>1, <3>3
    <3>6. dcgWithTime' \in BOOLEAN
      BY <3>1, <3>3
    <3>7. QED
      BY <3>4, <3>5, <3>6
  <2>4. UNCHANGED <<queues, thread, history>>
    BY <1>1 DEF SetDelays
  <2>5. QED
    BY <2>1, <2>2, <2>3, <2>4 DEF queues, thread, history, Basic, Session, MapInv, WrittenInv
<1>2. CASE SetFirst
  <2>1. /\ first /\ ~streaming /\ made' = made + 1 /\ made + 1 \in Exposures /\ ~first'
        /\ last' = All(made + 1) /\ made + 1 \in 0..MaxExp
        /\ effecting' = With(effecting, 0, made + 1) /\ written' = With(written, -1, All(made + 1))
        /\ UNCHANGED <<config, expList, delayed, thread, stops, owed, applied, lost>>
    BY <1>2, SensorAssumption DEF SetFirst, Basic, Exposures
  <2>2. DOMAIN effecting = {} /\ DOMAIN written = {} /\ pc = "idle"
    BY <2>1 DEF Session, Empty
  <2>3. /\ DOMAIN effecting' = {0} /\ effecting'[0] = made + 1
        /\ DOMAIN written' = {-1} /\ written'[-1] = All(made + 1)
    <3>1. DOMAIN effecting' = {} \cup {0} /\ effecting'[0] = made + 1
      BY <2>1, <2>2 DEF With
    <3>2. DOMAIN written' = {} \cup {-1} /\ written'[-1] = All(made + 1)
      BY <2>1, <2>2 DEF With
    <3>3. QED
      BY <3>1, <3>2
  <2>4. MapInv'
    <3>1. IsFiniteSet({0}) /\ Cardinality({0}) = 1
      BY FS_Singleton
    <3>2. pc' = "idle"
      BY <2>1, <2>2 DEF thread
    <3>3. QED
      BY <2>1, <2>3, <3>1, <3>2, SensorAssumption DEF MapInv
  <2>5. WrittenInv'
    <3>1. -1 \in -1..MaxFrame
      BY SensorAssumption
    <3>2. All(made + 1) \in [Registers -> 0..MaxExp]
      BY <2>1 DEF All
    <3>3. QED
      BY <2>3, <3>1, <3>2 DEF WrittenInv
  <2>6. Basic' /\ Session'
    <3>1. last' \in [Registers -> 0..MaxExp] /\ last'["time"] \in Exposures
      BY <2>1 DEF All, Registers
    <3>2. Basic'
      <4>1. UNCHANGED <<config, expList, delayed, thread, stops, owed, applied, lost>>
        BY <2>1
      <4>2. first' \in BOOLEAN /\ made' \in 0..MaxExp
        BY <1>2, <2>1 DEF SetFirst
      <4>3. QED
        BY <3>1, <4>1, <4>2 DEF config, thread, Basic
    <3>3. Session'
      BY <2>1, <3>1 DEF thread, Session
    <3>4. QED
      BY <3>2, <3>3
  <2>7. QED
    BY <2>4, <2>5, <2>6
<1>3. CASE SetOne
  <2>1. /\ ~first /\ made + 1 \in Exposures /\ made + 1 \in 0..MaxExp /\ made' = made + 1
        /\ expList' = Append(expList, <<made + 1, TRUE>>) /\ owed' = owed \cup {made + 1}
        /\ UNCHANGED <<config, first, delayed, last, effecting, thread, stops, applied, written, lost>>
    BY <1>3, SensorAssumption DEF SetOne, Basic, Exposures
  <2>2. expList' \in Seq(Exposures \X BOOLEAN)
    <3>1. <<made + 1, TRUE>> \in Exposures \X BOOLEAN /\ expList \in Seq(Exposures \X BOOLEAN)
      BY <2>1 DEF Basic
    <3>2. QED
      BY <2>1, <3>1, AppendProperties
  <2>3. QED
    BY <2>1, <2>2 DEF config, thread, Basic, Session, MapInv, WrittenInv
<1>4. CASE SetTable
  <2>1. PICK n \in 0..MaxTable, at \in [1..Cardinality(Firsts) -> Firsts] :
          /\ \A i, j \in DOMAIN at : i < j => at[i] < at[j]
          /\ made + n =< MaxExp /\ made' = made + n
          /\ expList' = [i \in DOMAIN at |-> expList[at[i]]] \o [i \in 1..n |-> <<made + i, i = 1>>]
          /\ owed' = IF n = 0 THEN owed ELSE owed \cup {made + 1}
    BY <1>4 DEF SetTable
  <2>2. expList' \in Seq(Exposures \X BOOLEAN)
    BY <2>1, TableFacts
  <2>3. made' \in 0..MaxExp /\ owed' \subseteq Exposures
    BY <2>1, SensorAssumption DEF Basic, Exposures
  <2>4. ~first /\ UNCHANGED <<config, first, delayed, last, effecting, thread, stops, applied, written, lost>>
    BY <1>4 DEF SetTable
  <2>5. QED
    BY <2>2, <2>3, <2>4 DEF config, thread, Basic, Session, MapInv, WrittenInv
<1>5. CASE StreamOn
  BY <1>5 DEF StreamOn, config, queues, history, Basic, Session, MapInv, WrittenInv
<1>6. CASE Stop
  <2>1. /\ << >> \in Seq(Exposures \X BOOLEAN) /\ << >> \in Seq(Exposures) /\ Len(<< >>) = 0
        /\ IsFiniteSet({}) /\ Cardinality({}) = 0 /\ DOMAIN Empty = {}
    BY EmptySeq, FS_EmptySet DEF Empty
  <2>2. MaxExp \in Nat /\ MaxSessions \in Nat /\ MaxFrame \in Nat /\ MaxMap \in Nat
    BY SensorAssumption
  <2>3. Basic'
    <3> DEFINE none == [r \in {"gain", "dcg"} |-> << >>]
    <3>1. All(0) \in [Registers -> 0..MaxExp]
      BY <2>2 DEF All
    <3>2. none \in [{"gain", "dcg"} -> Seq(Exposures)] /\ \A r \in {"gain", "dcg"} : Len(none[r]) =< 1
      BY <2>1
    <3>3. last' = All(0) /\ delayed' = none /\ expList' = << >> /\ pc' = pc /\ made' = made /\ UNCHANGED config
      BY <1>6 DEF Stop
    <3> HIDE DEF none
    <3>4. first' \in BOOLEAN /\ streaming' \in BOOLEAN /\ lost' \in BOOLEAN
      BY <1>6 DEF Stop
    <3>5. sof' \in -1..MaxFrame /\ set' \subseteq Registers /\ stops' \in 0..MaxSessions
          /\ owed' \subseteq Exposures /\ applied' \subseteq Exposures
      BY <1>6, <2>2 DEF Stop, Basic
    <3>6. QED
      BY <2>1, <3>1, <3>2, <3>3, <3>4, <3>5 DEF Basic, config
  <2>4. Session'
    BY <1>6 DEF Stop, Session
  <2>5. MapInv' /\ WrittenInv'
    <3>1. pc' = "idle" /\ DOMAIN effecting' = {} /\ DOMAIN written' = {}
      BY <1>6, <2>1 DEF Stop
    <3>2. QED
      BY <2>1, <2>2, <3>1 DEF MapInv, WrittenInv
  <2>6. QED
    BY <2>3, <2>4, <2>5
<1>7. CASE SofPop
  <2>1. /\ streaming /\ pc = "idle" /\ ~first
        /\ effecting' = Trimmed(effecting) /\ set' = Waiting
        /\ last' = [r \in Registers |-> Popped(r)]
        /\ expList' = IF "time" \in Waiting THEN Tail(expList) ELSE expList
        /\ delayed' = [r \in {"gain", "dcg"} |-> IF r \in Waiting THEN Tail(delayed[r]) ELSE << >>]
        /\ applied' = IF "time" \in Waiting THEN applied \cup {Popped("time")} ELSE applied
        /\ pc' = IF Waiting = {} THEN "idle" ELSE "write"
        /\ UNCHANGED <<config, first, streaming, made, stops, owed, written>>
    BY <1>7 DEF SofPop, Session
  <2>2. sof' \in 0..MaxFrame /\ lost' \in BOOLEAN
    BY <1>7, SensorAssumption DEF SofPop, Basic
  <2>3. expList' \in Seq(Exposures \X BOOLEAN)
    <3>1. expList \in Seq(Exposures \X BOOLEAN)
      BY DEF Basic
    <3>2. QED
      BY <2>1, <3>1, PopFacts, HeadTailProperties
  <2>4. delayed' = [r \in {"gain", "dcg"} |-> << >>]
    <3>1. ASSUME NEW r \in {"gain", "dcg"}, r \in Waiting PROVE Tail(delayed[r]) = << >>
      <4>1. delayed[r] \in Seq(Exposures) /\ Len(delayed[r]) =< 1 /\ delayed[r] /= << >>
        BY <3>1, PopFacts DEF Basic
      <4>2. Len(delayed[r]) \in Nat \ {0}
        BY <4>1, EmptySeq
      <4>3. Tail(delayed[r]) \in Seq(Exposures) /\ Len(Tail(delayed[r])) = Len(delayed[r]) - 1
        BY <4>1, HeadTailProperties
      <4>4. Len(Tail(delayed[r])) = 0
        <5> DEFINE n == Len(delayed[r])
        <5>1. n \in Nat \ {0} /\ n =< 1
          BY <4>1, <4>2
        <5>2. Len(Tail(delayed[r])) = n - 1
          BY <4>3
        <5> HIDE DEF n
        <5>3. n = 1
          BY <5>1
        <5>4. QED
          BY <5>2, <5>3
      <4>5. QED
        BY <4>3, <4>4, EmptySeq
    <3>2. QED
      BY <2>1, <3>1
  <2>5. Basic'
    <3>1. << >> \in Seq(Exposures) /\ Len(<< >>) = 0
      BY EmptySeq
    <3>2. delayed' \in [{"gain", "dcg"} -> Seq(Exposures)] /\ \A r \in {"gain", "dcg"} : Len(delayed'[r]) =< 1
      BY <2>4, <3>1
    <3>3. last' \in [Registers -> 0..MaxExp] /\ applied' \subseteq Exposures /\ set' \subseteq Registers
      BY <2>1, PopFacts DEF Basic
    <3>4. sof' \in -1..MaxFrame
      BY <2>2
    <3>5. QED
      BY <2>1, <2>2, <2>3, <3>2, <3>3, <3>4 DEF Basic, config
  <2>6. Session'
    <3>1. last'["time"] \in Exposures
      BY <2>1, PopFacts DEF Session, Registers
    <3>2. QED
      BY <2>1, <2>2, <2>4, <3>1 DEF Session
  <2>7. MapInv'
    <3>1. DOMAIN effecting \in SUBSET Int /\ IsFiniteSet(DOMAIN effecting)
      BY DEF MapInv
    <3>2. /\ DOMAIN effecting' \in SUBSET DOMAIN effecting
          /\ \A i \in DOMAIN effecting' : effecting'[i] = effecting[i]
          /\ IsFiniteSet(DOMAIN effecting')
          /\ Cardinality(DOMAIN effecting') =< MaxMap
      BY <2>1, <3>1, TrimmedFacts
    <3>3. Cardinality(DOMAIN effecting') \in Nat /\ MaxMap \in Nat
      BY <3>2, FS_CardinalityType, SensorAssumption
    <3>4. QED
      BY <3>2, <3>3 DEF MapInv
  <2>8. WrittenInv'
    BY <2>1 DEF WrittenInv
  <2>9. QED
    BY <2>5, <2>6, <2>7, <2>8
<1>8. CASE SofWrite
  <2>1. /\ pc = "write" /\ written' = With(written, sof, Composed)
        /\ pc' = IF "time" \in set THEN "record" ELSE "idle"
        /\ UNCHANGED <<config, queues, streaming, sof, set, made, stops, owed, applied, lost>>
    BY <1>8 DEF SofWrite
  <2>2. Composed \in [Registers -> 0..MaxExp]
    BY DEF Composed, Basic, All, Registers
  <2>3. WrittenInv'
    <3>1. sof \in -1..MaxFrame
      BY DEF Basic
    <3>2. /\ DOMAIN written' = DOMAIN written \cup {sof} /\ written'[sof] = Composed
          /\ \A s \in DOMAIN written : s /= sof => written'[s] = written[s]
      BY <2>1 DEF With
    <3>3. QED
      BY <2>2, <3>1, <3>2 DEF WrittenInv
  <2>4. MapInv'
    <3>1. Cardinality(DOMAIN effecting) \in Nat /\ MaxMap \in Nat
      BY FS_CardinalityType, SensorAssumption DEF MapInv
    <3>2. QED
      BY <2>1, <3>1 DEF MapInv, queues
  <2>5. Basic' /\ Session'
    BY <2>1 DEF config, queues, Basic, Session
  <2>6. QED
    BY <2>3, <2>4, <2>5
<1>9. CASE SofRecord
  <2>1. /\ pc = "record" /\ pc' = "idle"
        /\ delayed' = [r \in {"gain", "dcg"} |->
                         IF (r = "gain" /\ gainDelayed) \/ (r = "dcg" /\ dcgDelayed)
                         THEN Append(delayed[r], last["time"]) ELSE delayed[r]]
        /\ effecting' = With(effecting, sof + delay["time"], last["time"])
        /\ UNCHANGED <<config, first, expList, last, streaming, sof, set, history>>
    BY <1>9 DEF SofRecord
  <2>2. streaming /\ ~first /\ last["time"] \in Exposures /\ \A r \in {"gain", "dcg"} : delayed[r] = << >>
    BY <2>1 DEF Session
  <2>3. Append(<< >>, last["time"]) = <<last["time"]>> /\ Len(<<last["time"]>>) = 1 /\ Len(<< >>) = 0
    OBVIOUS
  <2>4. delayed' \in [{"gain", "dcg"} -> Seq(Exposures)] /\ \A r \in {"gain", "dcg"} : Len(delayed'[r]) =< 1
    <3>1. << >> \in Seq(Exposures) /\ <<last["time"]>> \in Seq(Exposures)
      BY <2>2
    <3>2. \A r \in {"gain", "dcg"} : delayed'[r] = << >> \/ delayed'[r] = <<last["time"]>>
      BY <2>1, <2>2, <2>3
    <3>3. \A r \in {"gain", "dcg"} : delayed'[r] \in Seq(Exposures) /\ Len(delayed'[r]) =< 1
      <4> SUFFICES ASSUME NEW r \in {"gain", "dcg"} PROVE delayed'[r] \in Seq(Exposures) /\ Len(delayed'[r]) =< 1
        OBVIOUS
      <4>1. CASE delayed'[r] = << >>
        BY <2>3, <3>1, <4>1
      <4>2. CASE delayed'[r] = <<last["time"]>>
        BY <2>3, <3>1, <4>2
      <4>3. QED
        BY <3>2, <4>1, <4>2
    <3>4. delayed' = [r \in {"gain", "dcg"} |-> delayed'[r]]
      BY <2>1
    <3>5. QED
      BY <3>3, <3>4
  <2>5. MapInv'
    <3> DEFINE k == sof + delay["time"]
    <3>1. k \in Int
      BY DEF Basic, Registers
    <3> HIDE DEF k
    <3>2. DOMAIN effecting' = DOMAIN effecting \cup {k} /\ effecting'[k] = last["time"]
          /\ \A i \in DOMAIN effecting : i /= k => effecting'[i] = effecting[i]
      <4>1. effecting' = With(effecting, k, last["time"])
        BY <2>1 DEF k
      <4>2. QED
        BY <4>1 DEF With
    <3>3. IsFiniteSet(DOMAIN effecting) /\ Cardinality(DOMAIN effecting) =< MaxMap
      BY <2>1 DEF MapInv
    <3>4. /\ IsFiniteSet(DOMAIN effecting \cup {k})
          /\ Cardinality(DOMAIN effecting \cup {k}) =
               IF k \in DOMAIN effecting THEN Cardinality(DOMAIN effecting) ELSE Cardinality(DOMAIN effecting) + 1
          /\ Cardinality(DOMAIN effecting) \in Nat /\ MaxMap \in Nat
      BY <3>3, FS_AddElement, FS_CardinalityType, SensorAssumption
    <3>5. Cardinality(DOMAIN effecting') =< MaxMap + 1
      BY <3>2, <3>3, <3>4
    <3>6. QED
      BY <2>1, <2>2, <3>1, <3>2, <3>4, <3>5 DEF MapInv
  <2>6. Basic' /\ Session' /\ WrittenInv'
    BY <2>1, <2>2, <2>4 DEF Basic, Session, WrittenInv, config, history
  <2>7. QED
    BY <2>5, <2>6
<1>10. CASE UNCHANGED vars
  BY <1>10 DEF vars, config, queues, thread, history, Basic, Session, MapInv, WrittenInv
<1>11. QED
  BY <1>1, <1>2, <1>3, <1>4, <1>5, <1>6, <1>7, <1>8, <1>9, <1>10 DEF Next

\* The types hold in every behaviour; the map is never more than one entry above
\* its limit, whatever the delays, and no more than one gain or dcg mode is held
\* back.
THEOREM TypeCorrect == Spec => []TypeOK
<1>1. TypeInv => TypeOK
  <2> SUFFICES ASSUME TypeInv PROVE TypeOK
    OBVIOUS
  <2>1. Cardinality(DOMAIN effecting) =< MaxMap + 1
    <3>1. Cardinality(DOMAIN effecting) \in Nat /\ MaxMap \in Nat
      BY FS_CardinalityType, SensorAssumption DEF TypeInv, MapInv
    <3>2. QED
      BY <3>1 DEF TypeInv, MapInv
  <2>2. QED
    BY <2>1 DEF TypeInv, Basic, MapInv, WrittenInv, TypeOK, Range
<1>2. QED
  BY <1>1, TypeStart, TypeNext, PTL DEF Spec

-----------------------------------------------------------------------------
(* The list of exposures *)

\* What the lists hold, element by element.
LEMMA ListTypes ==
  ASSUME Basic
  PROVE  /\ Len(expList) \in Nat /\ DOMAIN expList = 1..Len(expList)
         /\ \A i \in DOMAIN expList : expList[i][1] \in Exposures /\ expList[i][2] \in BOOLEAN
         /\ made \in Nat /\ MaxExp \in Nat
         /\ \A e \in Exposures : e \in Nat
<1>1. expList \in Seq(Exposures \X BOOLEAN) /\ made \in 0..MaxExp /\ MaxExp \in Nat
  BY SensorAssumption DEF Basic
<1>2. Len(expList) \in Nat /\ DOMAIN expList = 1..Len(expList)
  BY <1>1, LenProperties
<1>3. \A i \in DOMAIN expList : expList[i] \in Exposures \X BOOLEAN
  BY <1>1, <1>2, ElementOfSeq
<1>4. QED
  BY <1>1, <1>2, <1>3 DEF Exposures

\* Every step keeps the order.
LEMMA ListNext == ASSUME TypeInv, ListInv, [Next]_vars PROVE ListInv'
<1> DEFINE Name(i) == expList[i][1]
<1>0. /\ Len(expList) \in Nat /\ DOMAIN expList = 1..Len(expList)
      /\ \A i \in DOMAIN expList : expList[i][1] \in Exposures /\ expList[i][2] \in BOOLEAN
      /\ made \in Nat /\ \A e \in Exposures : e \in Nat
      /\ applied \subseteq Exposures /\ owed \subseteq Exposures
      /\ expList \in Seq(Exposures \X BOOLEAN)
  BY ListTypes DEF TypeInv, Basic
<1>1. ASSUME UNCHANGED <<expList, applied, owed, made>> PROVE ListInv'
  BY <1>1 DEF ListInv, Firsts
<1>2. CASE SetDelays \/ StreamOn \/ SofWrite \/ SofRecord \/ UNCHANGED vars
  <2>1. UNCHANGED <<expList, applied, owed, made>>
    BY <1>2 DEF SetDelays, StreamOn, SofWrite, SofRecord, vars, queues, history
  <2>2. QED
    BY <2>1, <1>1
<1>3. ASSUME expList' = << >>, applied' = {}, owed' = {} PROVE ListInv'
  BY <1>3 DEF ListInv
<1>4. CASE SetFirst
  <2>1. expList' = << >> /\ applied' = {} /\ owed' = {}
    BY <1>4 DEF SetFirst, TypeInv, Session
  <2>2. QED
    BY <2>1, <1>3
<1>5. CASE Stop
  BY <1>3, <1>5 DEF Stop
<1>6. CASE SetOne
  <2> DEFINE n == Len(expList)
             pair == <<made + 1, TRUE>>
  <2>1. /\ made' = made + 1 /\ expList' = Append(expList, pair)
        /\ owed' = owed \cup {made + 1} /\ applied' = applied /\ made + 1 \in Exposures
    BY <1>0, <1>6, SensorAssumption DEF SetOne, Exposures
  <2>2. pair \in Exposures \X BOOLEAN /\ pair[1] = made + 1 /\ pair[2]
    BY <2>1
  <2>3. n \in Nat /\ DOMAIN expList = 1..n
    BY <1>0
  <2> HIDE DEF pair
  <2>4. /\ DOMAIN expList' = 1..(n + 1)
        /\ \A i \in 1..n : expList'[i] = expList[i]
        /\ expList'[n + 1] = pair
    <3>1. /\ Append(expList, pair) \in Seq(Exposures \X BOOLEAN)
          /\ Len(Append(expList, pair)) = Len(expList) + 1
          /\ \A i \in 1..Len(expList) : Append(expList, pair)[i] = expList[i]
          /\ Append(expList, pair)[Len(expList) + 1] = pair
      BY <1>0, <2>2, AppendProperties
    <3>2. DOMAIN expList' = 1..Len(expList')
      BY <2>1, <3>1, LenProperties
    <3>3. QED
      BY <2>1, <3>1, <3>2
  <2> HIDE DEF n
  <2>5. /\ n + 1 \in 1..(n + 1) /\ expList'[n + 1][1] = made + 1
        /\ \A i \in 1..(n + 1) :
             \/ i = n + 1
             \/ /\ i \in 1..n /\ expList'[i][1] = expList[i][1]
                /\ expList[i][1] \in Nat /\ expList[i][1] =< made
    <3>1. \A i \in 1..(n + 1) : i = n + 1 \/ i \in 1..n
      BY <2>3
    <3>2. \A i \in 1..n : expList'[i][1] = expList[i][1]
      BY <2>4
    <3>3. \A i \in 1..n : expList[i][1] \in Nat /\ expList[i][1] =< made
      BY <1>0, <2>3 DEF ListInv
    <3>4. n + 1 \in 1..(n + 1)
      BY <2>3
    <3>5. QED
      <4>1. expList'[n + 1][1] = made + 1
        BY <2>2, <2>4
      <4>2. QED
        BY <3>1, <3>2, <3>3, <3>4, <4>1
  <2>6. \A i, j \in DOMAIN expList' : i < j => expList'[i][1] < expList'[j][1]
    <3> SUFFICES ASSUME NEW i \in 1..(n + 1), NEW j \in 1..(n + 1), i < j PROVE expList'[i][1] < expList'[j][1]
      BY <2>4
    <3>1. i /= n + 1
      BY <2>3
    <3>2. i \in 1..n /\ expList'[i][1] = expList[i][1] /\ expList[i][1] \in Nat /\ expList[i][1] =< made
      BY <2>5, <3>1
    <3>3. CASE j = n + 1
      <4>1. expList'[j][1] = made + 1
        BY <2>5, <3>3
      <4>2. QED
        BY <1>0, <3>2, <4>1
    <3>4. CASE j /= n + 1
      <4>1. j \in 1..n /\ expList'[j][1] = expList[j][1]
        BY <2>5, <3>4
      <4>2. expList[i][1] < expList[j][1]
        BY <2>3, <3>2, <4>1 DEF ListInv
      <4>3. QED
        BY <3>2, <4>1, <4>2
    <3>5. QED
      BY <3>3, <3>4
  <2>7. \A i \in DOMAIN expList' : expList'[i][1] =< made'
    <3> SUFFICES ASSUME NEW i \in 1..(n + 1) PROVE expList'[i][1] =< made + 1
      BY <2>1, <2>4
    <3>1. expList'[i][1] = made + 1 \/ (expList'[i][1] \in Nat /\ expList'[i][1] =< made)
      BY <2>5
    <3>2. QED
      BY <1>0, <3>1
  <2>8. \A e \in applied' : e =< made' /\ \A i \in DOMAIN expList' : e < expList'[i][1]
    <3> SUFFICES ASSUME NEW e \in applied
                 PROVE  e =< made + 1 /\ \A i \in 1..(n + 1) : e < expList'[i][1]
      BY <2>1, <2>4
    <3>1. e \in Nat /\ e =< made /\ \A i \in 1..n : e < expList[i][1]
      BY <1>0, <2>3 DEF ListInv
    <3>2. e < made + 1 /\ e =< made + 1
      BY <1>0, <3>1
    <3>3. QED
      BY <2>5, <3>1, <3>2
  <2>9. \A e \in owed' : e \in applied' \/ \E i \in Firsts' : expList'[i][1] = e
    <3> SUFFICES ASSUME NEW e \in owed', e \notin applied PROVE \E i \in Firsts' : expList'[i][1] = e
      BY <2>1
    <3>1. CASE e = made + 1
      <4>1. n + 1 \in Firsts'
        BY <2>2, <2>4, <2>5 DEF Firsts
      <4>2. QED
        BY <2>5, <3>1, <4>1
    <3>2. CASE e \in owed
      <4>1. PICK i \in Firsts : expList[i][1] = e
        BY <3>2 DEF ListInv
      <4>2. i \in 1..n /\ i \in 1..(n + 1) /\ expList[i][2]
        BY <2>3 DEF Firsts
      <4>3. i \in Firsts' /\ expList'[i][1] = e
        BY <2>4, <4>1, <4>2 DEF Firsts
      <4>4. QED
        BY <4>3
    <3>3. QED
      BY <2>1, <3>1, <3>2
  <2>10. QED
    BY <2>6, <2>7, <2>8, <2>9 DEF ListInv
<1>7. CASE SetTable
  <2>1. PICK n \in 0..MaxTable, at \in [1..Cardinality(Firsts) -> Firsts] :
          /\ \A i, j \in DOMAIN at : i < j => at[i] < at[j]
          /\ made + n =< MaxExp /\ made' = made + n
          /\ expList' = [i \in DOMAIN at |-> expList[at[i]]] \o [i \in 1..n |-> <<made + i, i = 1>>]
          /\ owed' = IF n = 0 THEN owed ELSE owed \cup {made + 1}
          /\ applied' = applied
    BY <1>7 DEF SetTable
  <2>2. PICK c \in Nat :
           /\ DOMAIN expList' = 1..(c + n)
           /\ \A i \in 1..c : at[i] \in Firsts /\ expList'[i] = expList[at[i]]
           /\ \A i \in 1..c, j \in 1..c : i < j => at[i] < at[j]
           /\ \A i \in (c + 1)..(c + n) : expList'[i] = <<made + i - c, i - c = 1>>
           /\ \A k \in Firsts : \E i \in 1..c : at[i] = k
    BY <2>1, TableFacts DEF TypeInv
  <2>3. n \in Nat
    BY SensorAssumption
  <2>4. ASSUME NEW i \in 1..c
        PROVE  /\ at[i] \in DOMAIN expList /\ expList'[i] = expList[at[i]] /\ expList[at[i]][2]
               /\ expList'[i][1] \in Nat /\ expList'[i][1] =< made
    BY <1>0, <2>2 DEF ListInv, Firsts
  <2>5. ASSUME NEW i \in (c + 1)..(c + n)
        PROVE  /\ expList'[i][1] = made + i - c /\ expList'[i][2] = (i - c = 1)
               /\ made + i - c > made /\ made + i - c =< made + n /\ i \in Int
    <3>1. expList'[i] = <<made + i - c, i - c = 1>>
      BY <2>2
    <3>2. QED
      BY <1>0, <2>3, <3>1
  <2>6. \A i \in 1..(c + n) : i \in 1..c \/ i \in (c + 1)..(c + n)
    BY <2>3
  <2>7. \A i, j \in DOMAIN expList' : i < j => expList'[i][1] < expList'[j][1]
    <3> SUFFICES ASSUME NEW i \in 1..(c + n), NEW j \in 1..(c + n), i < j PROVE expList'[i][1] < expList'[j][1]
      BY <2>2
    <3>1. CASE i \in 1..c /\ j \in 1..c
      <4>1. at[i] < at[j]
        BY <2>2, <3>1
      <4>2. QED
        BY <2>4, <3>1, <4>1 DEF ListInv
    <3>2. CASE i \in 1..c /\ j \in (c + 1)..(c + n)
      <4>1. expList'[i][1] \in Nat /\ expList'[i][1] =< made
        BY <2>4, <3>2
      <4>2. expList'[j][1] = made + j - c /\ made + j - c > made /\ j \in Int
        BY <2>5, <3>2
      <4>3. QED
        BY <1>0, <4>1, <4>2
    <3>3. CASE i \in (c + 1)..(c + n)
      <4>1. j \in (c + 1)..(c + n)
        BY <2>3, <3>3
      <4>2. expList'[i][1] = made + i - c /\ expList'[j][1] = made + j - c
        BY <2>5, <3>3, <4>1
      <4>3. QED
        BY <1>0, <2>3, <4>2
    <3>4. QED
      BY <2>6, <3>1, <3>2, <3>3
  <2>8. \A i \in DOMAIN expList' : expList'[i][1] =< made'
    <3> SUFFICES ASSUME NEW i \in 1..(c + n) PROVE expList'[i][1] =< made + n
      BY <2>1, <2>2
    <3>1. CASE i \in 1..c
      <4>1. expList'[i][1] \in Nat /\ expList'[i][1] =< made
        BY <2>4, <3>1
      <4>2. QED
        BY <1>0, <2>3, <4>1
    <3>2. CASE i \in (c + 1)..(c + n)
      BY <2>5, <3>2
    <3>3. QED
      BY <2>6, <3>1, <3>2
  <2>9. \A e \in applied' : e =< made' /\ \A i \in DOMAIN expList' : e < expList'[i][1]
    <3> SUFFICES ASSUME NEW e \in applied
                 PROVE  e =< made + n /\ \A i \in 1..(c + n) : e < expList'[i][1]
      BY <2>1, <2>2
    <3>1. e \in Nat /\ e =< made /\ \A i \in DOMAIN expList : e < expList[i][1]
      BY <1>0 DEF ListInv
    <3>2. ASSUME NEW i \in 1..c PROVE e < expList'[i][1]
      BY <2>4, <3>1, <3>2
    <3>3. ASSUME NEW i \in (c + 1)..(c + n) PROVE e < expList'[i][1]
      <4>1. expList'[i][1] = made + i - c /\ made + i - c > made /\ i \in Int
        BY <2>5, <3>3
      <4>2. QED
        BY <1>0, <3>1, <4>1
    <3>4. e =< made + n
      BY <1>0, <2>3, <3>1
    <3>5. QED
      BY <2>6, <3>2, <3>3, <3>4
  <2>10. \A e \in owed' : e \in applied' \/ \E i \in Firsts' : expList'[i][1] = e
    <3> SUFFICES ASSUME NEW e \in owed', e \notin applied PROVE \E i \in Firsts' : expList'[i][1] = e
      BY <2>1
    <3>1. CASE e \in owed
      <4>1. PICK k \in Firsts : expList[k][1] = e
        BY <3>1 DEF ListInv
      <4>2. PICK i \in 1..c : at[i] = k
        BY <2>2
      <4>3. i \in 1..(c + n)
        BY <2>3
      <4>4. i \in Firsts' /\ expList'[i][1] = e
        BY <2>2, <2>4, <4>1, <4>2, <4>3 DEF Firsts
      <4>5. QED
        BY <4>4
    <3>2. CASE e \notin owed
      <4>1. n /= 0 /\ e = made + 1
        BY <2>1, <3>2
      <4>2. c + 1 \in (c + 1)..(c + n) /\ c + 1 \in 1..(c + n)
        BY <2>3, <4>1
      <4>3. expList'[c + 1][1] = made + (c + 1) - c /\ expList'[c + 1][2] = ((c + 1) - c = 1)
        BY <2>5, <4>2
      <4>4. (c + 1) - c = 1 /\ made + (c + 1) - c = made + 1
        BY <1>0
      <4>5. expList'[c + 1][1] = e /\ expList'[c + 1][2]
        BY <4>1, <4>3, <4>4
      <4>6. c + 1 \in Firsts'
        BY <2>2, <4>2, <4>5 DEF Firsts
      <4>7. QED
        BY <4>5, <4>6
    <3>3. QED
      BY <3>1, <3>2
  <2>11. QED
    BY <2>7, <2>8, <2>9, <2>10 DEF ListInv
<1>8. CASE SofPop
  <2>1. /\ expList' = IF "time" \in Waiting THEN Tail(expList) ELSE expList
        /\ applied' = IF "time" \in Waiting THEN applied \cup {Popped("time")} ELSE applied
        /\ made' = made /\ owed' = owed
    BY <1>8 DEF SofPop
  <2>2. CASE "time" \notin Waiting
    BY <1>1, <2>1, <2>2
  <2>3. CASE "time" \in Waiting
    <3> DEFINE n == Len(expList)
    <3>1. expList /= << >> /\ Popped("time") = Head(expList)[1]
      BY <2>3, PopFacts DEF TypeInv
    <3>2. Head(expList) = expList[1]
      BY <1>0, <3>1
    <3>3. n \in Nat \ {0}
      BY <1>0, <3>1, EmptySeq
    <3>4. DOMAIN expList' = 1..(n - 1) /\ \A i \in 1..(n - 1) : expList'[i] = expList[i + 1]
      <4>1. /\ Tail(expList) \in Seq(Exposures \X BOOLEAN) /\ Len(Tail(expList)) = Len(expList) - 1
            /\ \A i \in 1..Len(Tail(expList)) : Tail(expList)[i] = expList[i + 1]
        BY <1>0, <3>1, HeadTailProperties
      <4>2. QED
        BY <2>1, <2>3, <4>1, LenProperties
    <3>5. DOMAIN expList = 1..n /\ applied' = applied \cup {expList[1][1]}
      BY <1>0, <2>1, <2>3, <3>1, <3>2
    <3> HIDE DEF n
    <3>6. \A i \in 1..(n - 1) : i + 1 \in 1..n /\ 1 < i + 1 /\ \A j \in 1..(n - 1) : i < j => i + 1 < j + 1
      BY <3>3
    <3>7. 1 \in 1..n
      BY <3>3
    <3>8. \A i, j \in DOMAIN expList' : i < j => expList'[i][1] < expList'[j][1]
      BY <3>4, <3>5, <3>6 DEF ListInv
    <3>9. \A i \in DOMAIN expList' : expList'[i][1] =< made'
      BY <2>1, <3>4, <3>5, <3>6 DEF ListInv
    <3>10. \A e \in applied' : e =< made' /\ \A i \in DOMAIN expList' : e < expList'[i][1]
      <4>1. \A i \in 1..(n - 1) : expList[1][1] < expList'[i][1]
        <5>1. \A i \in 1..(n - 1) : 1 < i + 1 => expList[1][1] < expList[i + 1][1]
          BY <3>5, <3>6, <3>7 DEF ListInv
        <5>2. QED
          BY <3>4, <3>6, <5>1
      <4>2. expList[1][1] =< made
        BY <3>5, <3>7 DEF ListInv
      <4>3. \A e \in applied : e =< made /\ \A i \in 1..(n - 1) : e < expList'[i][1]
        BY <3>4, <3>5, <3>6 DEF ListInv
      <4>4. QED
        BY <2>1, <3>4, <3>5, <4>1, <4>2, <4>3
    <3>11. \A e \in owed' : e \in applied' \/ \E i \in Firsts' : expList'[i][1] = e
      <4> SUFFICES ASSUME NEW e \in owed, e \notin applied' PROVE \E i \in Firsts' : expList'[i][1] = e
        BY <2>1
      <4>1. PICK k \in Firsts : expList[k][1] = e
        BY <3>5 DEF ListInv
      <4>2. k \in 1..n /\ expList[k][2] /\ k /= 1
        BY <3>5, <4>1 DEF Firsts
      <4>3. k - 1 \in 1..(n - 1) /\ (k - 1) + 1 = k
        BY <3>3, <4>2
      <4>4. expList'[k - 1] = expList[k]
        BY <3>4, <4>3
      <4>5. k - 1 \in Firsts' /\ expList'[k - 1][1] = e
        BY <3>4, <4>1, <4>2, <4>3, <4>4 DEF Firsts
      <4>6. QED
        BY <4>5
    <3>12. QED
      BY <3>8, <3>9, <3>10, <3>11 DEF ListInv
  <2>4. QED
    BY <2>2, <2>3
<1>9. QED
  BY <1>2, <1>4, <1>5, <1>6, <1>7, <1>8 DEF Next

\* No exposure that must reach the sensor gets lost: the first of every table, and
\* every single one, stays in the list until it is popped, in the order asked for,
\* whatever tables come in between.
THEOREM FirstsReach == Spec => []FirstsApplied
<1>1. Init => ListInv
  BY DEF Init, ListInv
<1>2. ASSUME ListInv PROVE FirstsApplied
  <2> DEFINE listed == {expList[i][1] : i \in DOMAIN expList}
  <2>1. owed \subseteq applied \cup listed
    BY <1>2 DEF ListInv, Firsts
  <2>2. \A e \in applied, l \in listed : e < l
    BY <1>2 DEF ListInv
  <2>3. QED
    BY <1>2, <2>1, <2>2 DEF ListInv, FirstsApplied
<1>3. QED
  BY <1>1, <1>2, TypeStart, TypeNext, ListNext, PTL DEF Spec

-----------------------------------------------------------------------------
(* The last exposure *)

\* The newest entries of the map and of the history of writes.
LEMMA NewestFacts ==
  ASSUME TypeInv, Placed
  PROVE  /\ NewestKey \in DOMAIN effecting /\ \A i \in DOMAIN effecting : i =< NewestKey
         /\ NewestWrite \in DOMAIN written /\ \A s \in DOMAIN written : s =< NewestWrite
         /\ NewestKey \in Int /\ NewestWrite \in Int
<1> DEFINE b == IF Done + delay["time"] >= 0 THEN Done + delay["time"] ELSE 0
<1>1. sof \in Int /\ delay["time"] \in Int /\ Done \in Int /\ MaxFrame \in Int
  BY SensorAssumption DEF TypeInv, Basic, Done, Registers
<1>2. DOMAIN effecting \in SUBSET Int /\ DOMAIN written \in SUBSET Int
      /\ \A s \in DOMAIN written : s =< MaxFrame
  BY <1>1 DEF TypeInv, MapInv, WrittenInv
<1>3. b \in Int /\ \A i \in DOMAIN effecting : i =< b
  BY <1>1, <1>2 DEF Placed
<1> HIDE DEF b
<1>4. NewestKey \in DOMAIN effecting /\ \A i \in DOMAIN effecting : i =< NewestKey
  <2>1. DOMAIN effecting /= {}
    BY DEF Placed
  <2>2. QED
    BY <1>2, <1>3, <2>1, LatestFacts DEF NewestKey
<1>5. NewestWrite \in DOMAIN written /\ \A s \in DOMAIN written : s =< NewestWrite
  <2>1. DOMAIN written /= {}
    BY DEF Placed
  <2>2. QED
    BY <1>1, <1>2, <2>1, LatestFacts DEF NewestWrite
<1>6. QED
  BY <1>2, <1>4, <1>5

\* composeExpParam takes each register from a list or from the time's exposure.
LEMMA ComposedIs ==
  ASSUME Basic
  PROVE  \A r \in Registers : Composed[r] = last[IF r \in Late THEN Source ELSE "time"]
<1>1. gainDelayed \in BOOLEAN /\ dcgDelayed \in BOOLEAN /\ dcgWithTime \in BOOLEAN
  BY DEF Basic
<1>2. CASE dcgDelayed
  BY <1>2 DEF Composed, Late, Source, All, Registers
<1>3. CASE ~dcgDelayed /\ gainDelayed
  BY <1>3 DEF Composed, Late, Source, All, Registers
<1>4. CASE ~dcgDelayed /\ ~gainDelayed
  BY <1>4 DEF Composed, Late, Source, All, Registers
<1>5. QED
  BY <1>2, <1>3, <1>4

\* Trimming leaves the newest entry what it is.
LEMMA TrimmedNewest ==
  ASSUME TypeInv, Placed
  PROVE  /\ DOMAIN Trimmed(effecting) /= {} /\ DOMAIN Trimmed(effecting) \in SUBSET DOMAIN effecting
         /\ Latest(DOMAIN Trimmed(effecting)) = NewestKey
         /\ Trimmed(effecting)[NewestKey] = effecting[NewestKey]
<1>1. DOMAIN effecting \in SUBSET Int /\ IsFiniteSet(DOMAIN effecting)
  BY DEF TypeInv, MapInv
<1>2. DOMAIN effecting /= {} /\ NewestKey \in Int /\ \A i \in DOMAIN effecting : i =< NewestKey
  BY NewestFacts DEF Placed
<1>3. /\ Latest(DOMAIN effecting) \in DOMAIN Trimmed(effecting)
      /\ Latest(DOMAIN Trimmed(effecting)) = Latest(DOMAIN effecting)
  BY <1>1, <1>2, TrimmedLow
<1>4. /\ DOMAIN Trimmed(effecting) \in SUBSET DOMAIN effecting
      /\ \A i \in DOMAIN Trimmed(effecting) : Trimmed(effecting)[i] = effecting[i]
  BY <1>1, TrimmedFacts
<1>5. QED
  BY <1>3, <1>4 DEF NewestKey

\* After a pop nothing waits in the lists of what was held back.
LEMMA PopEmpties ==
  ASSUME TypeInv, TypeInv', SofPop
  PROVE  delayed' = [r \in {"gain", "dcg"} |-> << >>]
<1>1. CASE Waiting = {}
  BY <1>1 DEF SofPop
<1>2. CASE Waiting /= {}
  BY <1>2 DEF SofPop, TypeInv, Session
<1>3. QED
  BY <1>1, <1>2

\* Every step keeps it, with a time delay that is not negative.
LEMMA LastNext ==
  ASSUME TypeInv, TypeInv', delay["time"] >= 0, LastInv, [Next]_vars
  PROVE  LastInv'
<1>0. /\ delay \in [Registers -> Int] /\ delay["time"] \in Int /\ last \in [Registers -> 0..MaxExp]
      /\ pc \in {"idle", "write", "record"} /\ sof \in Int /\ Done \in Int
      /\ gainDelayed \in BOOLEAN /\ dcgDelayed \in BOOLEAN /\ dcgWithTime \in BOOLEAN
      /\ DOMAIN effecting \in SUBSET Int /\ DOMAIN written \in SUBSET Int
  <2>1. DOMAIN effecting \in SUBSET Int /\ DOMAIN written \in SUBSET Int
    BY DEF TypeInv, MapInv, WrittenInv
  <2>2. /\ delay \in [Registers -> Int] /\ last \in [Registers -> 0..MaxExp]
        /\ pc \in {"idle", "write", "record"} /\ sof \in Int
        /\ gainDelayed \in BOOLEAN /\ dcgDelayed \in BOOLEAN /\ dcgWithTime \in BOOLEAN
    BY DEF TypeInv, Basic
  <2>3. delay["time"] \in Int /\ Done \in Int
    BY <2>2 DEF Registers, Done
  <2>4. QED
    BY <2>1, <2>2, <2>3
<1>1. ASSUME UNCHANGED <<config, first, delayed, last, effecting, thread, written>> PROVE LastInv'
  BY <1>1 DEF config, thread, LastInv, Placed, LastWritten, LastRecorded, HeldBack, NewestKey, NewestWrite,
              Done, Late, Source, Held
<1>2. CASE SetOne \/ SetTable \/ UNCHANGED vars
  <2>1. UNCHANGED <<config, first, delayed, last, effecting, thread, written>>
    BY <1>2 DEF SetOne, SetTable, vars, queues, history
  <2>2. QED
    BY <1>1, <2>1
<1>3. CASE Stop
  BY <1>3 DEF Stop, LastInv
<1>4. CASE SetDelays
  <2> SUFFICES ASSUME ~first' PROVE LastInv'
    BY DEF LastInv
  <2>1. ~streaming /\ UNCHANGED <<queues, thread, history>> /\ ~first
    BY <1>4 DEF SetDelays, queues
  <2>2. /\ pc = "idle" /\ sof = -1 /\ delayed = [r \in {"gain", "dcg"} |-> << >>]
        /\ last = All(last["time"]) /\ DOMAIN written = {-1} /\ DOMAIN effecting = {0}
        /\ LastWritten /\ LastRecorded
    BY <2>1 DEF TypeInv, Session, LastInv, Placed
  <2>3. \A r \in Registers : last[r] = last["time"]
    BY <2>2 DEF All
  <2>4. Placed'
    BY <2>1, <2>2 DEF Placed, queues, thread, history
  <2>5. LastWritten'
    <3>1. Late \subseteq Registers /\ Source \in Registers /\ "time" \in Registers /\ Source' \in Registers
      BY DEF Late, Source, Registers
    <3>2. \A r \in Registers : written[NewestWrite][r] = last["time"]
      BY <2>2, <2>3, <3>1 DEF LastWritten
    <3>3. UNCHANGED <<written, last, NewestWrite>>
      BY <2>1 DEF queues, history, NewestWrite
    <3>4. QED
      BY <2>3, <3>1, <3>2, <3>3 DEF LastWritten
  <2>6. LastRecorded'
    BY <2>1, <2>2 DEF LastRecorded, queues, NewestKey
  <2>7. HeldBack'
    <3>1. pc' = "idle" /\ UNCHANGED <<delayed, last>>
      BY <2>1, <2>2 DEF queues, thread
    <3>2. Held' \subseteq {"gain", "dcg"}
      BY DEF Held
    <3>3. \A r \in {"gain", "dcg"} : delayed[r] = << >> /\ last[r] = last["time"]
      BY <2>2, <2>3 DEF Registers
    <3>4. QED
      BY <3>1, <3>2, <3>3 DEF HeldBack
  <2>8. QED
    BY <2>4, <2>5, <2>6, <2>7 DEF LastInv
<1>5. CASE SetFirst
  <2>1. /\ first /\ ~streaming /\ last' = All(made') /\ UNCHANGED <<config, delayed, thread>>
        /\ effecting' = With(effecting, 0, made') /\ written' = With(written, -1, All(made'))
    BY <1>5 DEF SetFirst
  <2>2. /\ pc = "idle" /\ sof = -1 /\ delayed = [r \in {"gain", "dcg"} |-> << >>]
        /\ DOMAIN effecting = {} /\ DOMAIN written = {}
    BY <2>1 DEF TypeInv, Session, Empty
  <2>3. DOMAIN effecting' = {} \cup {0} /\ effecting'[0] = made'
    BY <2>1, <2>2 DEF With
  <2>4. DOMAIN written' = {} \cup {-1} /\ written'[-1] = All(made')
    BY <2>1, <2>2 DEF With
  <2>5. NewestKey' = 0 /\ NewestWrite' = -1
    <3>1. DOMAIN effecting' = {0} /\ DOMAIN written' = {-1}
      BY <2>3, <2>4
    <3>2. Latest({0}) = 0 /\ Latest({-1}) = -1
      BY LatestIs
    <3>3. QED
      BY <3>1, <3>2 DEF NewestKey, NewestWrite
  <2>6. pc' = "idle" /\ sof' = -1 /\ ~streaming' /\ delayed' = [r \in {"gain", "dcg"} |-> << >>]
    BY <2>1, <2>2 DEF thread
  <2>7. \A r \in Registers : last'[r] = made' /\ All(made')[r] = made'
    BY <2>1 DEF All
  <2>8. Placed'
    <3>1. last' = All(last'["time"])
      BY <2>1, <2>7 DEF Registers
    <3>2. QED
      BY <2>3, <2>4, <2>6, <3>1 DEF Placed
  <2>9. LastWritten'
    <3>1. Source' \in Registers /\ "time" \in Registers
      BY DEF Source, Registers
    <3>2. QED
      BY <2>4, <2>5, <2>7, <3>1 DEF LastWritten
  <2>10. LastRecorded'
    BY <2>3, <2>5, <2>7 DEF LastRecorded, Registers
  <2>11. HeldBack'
    <3>1. Held' \subseteq {"gain", "dcg"}
      BY DEF Held
    <3>2. \A r \in {"gain", "dcg"} : delayed'[r] = << >> /\ last'[r] = last'["time"]
      BY <2>6, <2>7 DEF Registers
    <3>3. QED
      BY <2>6, <3>1, <3>2 DEF HeldBack
  <2>12. QED
    BY <2>8, <2>9, <2>10, <2>11 DEF LastInv
<1>6. CASE StreamOn
  <2>1. /\ ~first /\ streaming' /\ UNCHANGED <<config, queues, pc, sof, set, history>>
    BY <1>6 DEF StreamOn
  <2>2. Placed' /\ UNCHANGED <<LastWritten, LastRecorded, HeldBack>>
    BY <2>1 DEF LastInv, config, queues, history, Placed, LastWritten, LastRecorded, HeldBack, NewestKey,
                NewestWrite, Done, Late, Source, Held
  <2>3. QED
    BY <2>1, <2>2 DEF LastInv, queues
<1>7. CASE SofPop
  <2>1. /\ streaming /\ pc = "idle" /\ ~first
        /\ effecting' = Trimmed(effecting) /\ set' = Waiting
        /\ last' = [r \in Registers |-> Popped(r)]
        /\ pc' = IF Waiting = {} THEN "idle" ELSE "write"
        /\ UNCHANGED <<config, first, streaming, written>>
    BY <1>7 DEF SofPop, TypeInv, Session
  <2>2. sof' \in Int /\ sof + 1 =< sof'
    BY <1>0, <1>7 DEF SofPop
  <2>3. Placed /\ LastWritten /\ LastRecorded /\ HeldBack
    BY <2>1 DEF LastInv
  <2>4. /\ NewestKey' = NewestKey /\ effecting'[NewestKey'] = effecting[NewestKey]
        /\ DOMAIN effecting' /= {} /\ DOMAIN effecting' \in SUBSET DOMAIN effecting
    BY <2>1, <2>3, TrimmedNewest DEF NewestKey
  <2>5. \A r \in {"gain", "dcg"} : delayed'[r] = << >>
    BY <1>7, PopEmpties
  <2>6. UNCHANGED <<Held, Late, Source, delay, NewestWrite>> /\ Held \subseteq {"gain", "dcg"}
        /\ Source \in {"gain", "dcg"}
    BY <2>1 DEF config, Held, Late, Source, NewestWrite
  <2>7. Placed'
    <3>1. \A s \in DOMAIN written : s =< sof' - 1 /\ s =< sof'
      BY <1>0, <2>1, <2>2, <2>3 DEF Placed
    <3>2. \A i \in DOMAIN effecting' : i =< 0 \/ i =< Done' + delay["time"]
      <4>1. Done = sof /\ Done' >= sof /\ Done' \in Int
        <5>1. Done = sof /\ (Done' = sof' \/ Done' = sof' - 1)
          BY <2>1 DEF Done
        <5>2. QED
          BY <1>0, <2>2, <5>1
      <4>2. QED
        BY <1>0, <2>3, <2>4, <4>1 DEF Placed
    <3>3. QED
      BY <2>1, <2>3, <2>4, <2>6, <3>1, <3>2 DEF Placed
  <2>8. ASSUME Waiting = {} PROVE last' = last
    BY <1>0, <2>1, <2>8, PopFacts DEF TypeInv
  <2>9. pc' /= "write" => LastWritten'
    BY <2>1, <2>3, <2>6, <2>8 DEF LastWritten
  <2>10. pc' = "idle" \/ "time" \notin set' => LastRecorded'
    <3>1. "time" \notin Waiting => last'["time"] = last["time"]
      BY <2>1, PopFacts DEF TypeInv, Registers
    <3>2. pc' = "idle" => Waiting = {}
      BY <2>1
    <3>3. QED
      BY <2>1, <2>3, <2>4, <3>1, <3>2 DEF LastRecorded
  <2>11. HeldBack'
    <3>1. ASSUME pc' /= "idle", NEW r \in Held PROVE last'[r] = effecting[NewestKey]
      <4>1. r \in {"gain", "dcg"} /\ r \in Registers /\ last'[r] = Popped(r)
        BY <2>1, <2>6 DEF Registers
      <4>2. CASE delayed[r] = << >> /\ last[r] = last["time"]
        <5>1. Popped(r) = last[r]
          BY <4>1, <4>2, PopFacts DEF TypeInv
        <5>2. QED
          BY <2>3, <4>1, <4>2, <5>1 DEF LastRecorded
      <4>3. CASE delayed[r] = <<last["time"]>>
        <5>1. delayed[r] /= << >> /\ Head(delayed[r]) = last["time"]
          BY <4>3
        <5>2. Popped(r) = last["time"]
          BY <4>1, <5>1, PopFacts DEF TypeInv
        <5>3. QED
          BY <2>3, <4>1, <5>2 DEF LastRecorded
      <4>4. QED
        BY <2>1, <2>3, <4>2, <4>3 DEF HeldBack
    <3>2. ASSUME pc' = "idle", NEW r \in Held PROVE last'[r] = last'["time"]
      <4>1. Waiting = {} /\ r \in {"gain", "dcg"}
        BY <2>1, <2>6, <3>2
      <4>2. delayed[r] = << >>
        BY <4>1, PopFacts DEF TypeInv
      <4>3. <<last["time"]>> /= << >>
        OBVIOUS
      <4>4. last[r] = last["time"]
        BY <2>1, <2>3, <4>2, <4>3 DEF HeldBack
      <4>5. QED
        BY <2>8, <4>1, <4>4
    <3>3. QED
      BY <2>4, <2>5, <2>6, <3>1, <3>2 DEF HeldBack
  <2>12. QED
    BY <2>7, <2>9, <2>10, <2>11 DEF LastInv
<1>8. CASE SofWrite
  <2>1. /\ pc = "write" /\ written' = With(written, sof, Composed)
        /\ pc' = IF "time" \in set THEN "record" ELSE "idle"
        /\ UNCHANGED <<config, queues, streaming, sof, set>>
    BY <1>8 DEF SofWrite
  <2>2. sof >= 0 /\ ~first /\ streaming /\ delayed = [r \in {"gain", "dcg"} |-> << >>]
    BY <2>1 DEF TypeInv, Session
  <2>3. Placed /\ HeldBack /\ ("time" \notin set => LastRecorded)
    BY <2>1, <2>2 DEF LastInv
  <2>4. DOMAIN written' = DOMAIN written \cup {sof} /\ written'[sof] = Composed
    BY <2>1 DEF With
  <2>5. NewestWrite' = sof
    <3>1. DOMAIN written' \in SUBSET Int /\ sof \in DOMAIN written' /\ \A s \in DOMAIN written' : s =< sof
      BY <1>0, <2>1, <2>3, <2>4 DEF Placed
    <3>2. QED
      BY <3>1, LatestIs DEF NewestWrite
  <2>6. UNCHANGED <<Held, Late, Source, delay, NewestKey, effecting, last, delayed>>
        /\ Held \subseteq {"gain", "dcg"} /\ Source \in {"gain", "dcg"}
    BY <2>1 DEF config, queues, Held, Late, Source, NewestKey
  <2>7. Placed'
    <3>1. \A i \in DOMAIN effecting' : i =< 0 \/ i =< Done' + delay["time"]
      <4>1. Done = sof - 1 /\ Done' >= sof - 1 /\ Done' \in Int
        BY <1>0, <2>1 DEF Done
      <4>2. QED
        BY <1>0, <2>3, <2>6, <4>1 DEF Placed
    <3>2. \A s \in DOMAIN written' : s =< sof
      BY <1>0, <2>1, <2>3, <2>4 DEF Placed
    <3>3. QED
      BY <2>1, <2>2, <2>3, <2>4, <2>6, <3>1, <3>2 DEF Placed
  <2>8. LastWritten'
    BY <2>4, <2>5, <2>6, ComposedIs DEF LastWritten, TypeInv
  <2>9. pc' = "idle" \/ "time" \notin set' => LastRecorded'
    BY <2>1, <2>3, <2>6 DEF LastRecorded
  <2>10. HeldBack'
    <3>1. \A r \in Held : last[r] = effecting[NewestKey]
      BY <2>1, <2>3 DEF HeldBack
    <3>2. \A r \in {"gain", "dcg"} : delayed'[r] = << >>
      BY <2>2, <2>6
    <3>3. pc' = "idle" => effecting[NewestKey] = last["time"]
      BY <2>1, <2>3 DEF LastRecorded
    <3>4. QED
      BY <2>6, <3>1, <3>2, <3>3 DEF HeldBack
  <2>11. QED
    BY <2>7, <2>8, <2>9, <2>10 DEF LastInv
<1>9. CASE SofRecord
  <2> DEFINE k == sof + delay["time"]
  <2>1. /\ pc = "record" /\ pc' = "idle"
        /\ delayed' = [r \in {"gain", "dcg"} |->
                         IF (r = "gain" /\ gainDelayed) \/ (r = "dcg" /\ dcgDelayed)
                         THEN Append(delayed[r], last["time"]) ELSE delayed[r]]
        /\ effecting' = With(effecting, k, last["time"])
        /\ UNCHANGED <<config, first, last, streaming, sof, set, written>>
    BY <1>9 DEF SofRecord, history
  <2>2. sof >= 0 /\ ~first /\ streaming /\ \A r \in {"gain", "dcg"} : delayed[r] = << >>
    BY <2>1 DEF TypeInv, Session
  <2>3. Placed /\ LastWritten
    BY <2>1, <2>2 DEF LastInv
  <2>4. k \in Int /\ k >= 0 /\ \A i \in DOMAIN effecting : i =< k
    <3>1. Done = sof - 1
      BY <2>1 DEF Done
    <3>2. QED
      BY <1>0, <2>2, <2>3, <3>1 DEF Placed
  <2>5. UNCHANGED <<Held, Late, Source, delay, NewestWrite>>
    BY <2>1 DEF config, Held, Late, Source, NewestWrite
  <2>6. Done' = sof /\ Done' + delay'["time"] = k
    BY <2>1, <2>5 DEF Done
  <2> HIDE DEF k
  <2>7. DOMAIN effecting' = DOMAIN effecting \cup {k} /\ effecting'[k] = last["time"]
    BY <2>1 DEF With
  <2>8. NewestKey' = k
    <3>1. DOMAIN effecting' \in SUBSET Int /\ k \in DOMAIN effecting' /\ \A i \in DOMAIN effecting' : i =< k
      BY <1>0, <2>4, <2>7
    <3>2. QED
      BY <3>1, LatestIs DEF NewestKey
  <2>9. Placed'
    <3>1. \A i \in DOMAIN effecting' : i =< 0 \/ i =< Done' + delay'["time"]
      BY <2>4, <2>6, <2>7
    <3>2. -1 \in DOMAIN written' /\ \A s \in DOMAIN written' : s =< sof'
      BY <2>1, <2>3 DEF Placed
    <3>3. streaming' /\ pc' = "idle" /\ DOMAIN effecting' /= {}
      BY <2>1, <2>2, <2>7
    <3>4. QED
      BY <3>1, <3>2, <3>3 DEF Placed
  <2>10. LastWritten'
    BY <2>1, <2>3, <2>5 DEF LastWritten
  <2>11. LastRecorded'
    BY <2>1, <2>7, <2>8 DEF LastRecorded
  <2>12. HeldBack'
    <3>1. ASSUME NEW r \in {"gain", "dcg"}
          PROVE  delayed'[r] = IF r \in Held THEN <<last["time"]>> ELSE << >>
      <4>1. delayed[r] = << >> /\ Append(<< >>, last["time"]) = <<last["time"]>>
        BY <2>2
      <4>2. delayed'[r] = IF r \in Held THEN Append(delayed[r], last["time"]) ELSE delayed[r]
        BY <2>1 DEF Held
      <4>3. QED
        BY <4>1, <4>2
    <3>2. Held \subseteq {"gain", "dcg"}
      BY DEF Held
    <3>3. QED
      BY <2>1, <2>5, <3>1, <3>2 DEF HeldBack
  <2>13. QED
    BY <2>9, <2>10, <2>11, <2>12 DEF LastInv
<1>10. QED
  BY <1>2, <1>3, <1>4, <1>5, <1>6, <1>7, <1>8, <1>9 DEF Next

\* Whatever start-of-frame events are lost: once nothing waits any more, all
\* registers come from one exposure, the one reported for the latest frame.  The
\* calibration's time delay is between 0 and 10.
THEOREM Settled ==
  ASSUME \A d \in Configs : d["time"] >= 0
  PROVE  Spec => []RegistersSettle
<1> DEFINE TimeInv == delay["time"] >= 0
<1>1. ASSUME Init PROVE TimeInv /\ LastInv
  BY <1>1 DEF Init, All, Registers, LastInv
<1>2. TimeInv /\ [Next]_vars => TimeInv'
  BY DEF Next, SetDelays, SetFirst, SetOne, SetTable, StreamOn, Stop, SofPop, SofWrite, SofRecord, vars, config
<1>3. ASSUME TypeInv, LastInv PROVE RegistersSettle
  <2> SUFFICES ASSUME streaming, pc = "idle", Waiting = {}, NEW r \in Used
               PROVE  written[NewestWrite][r] = effecting[NewestKey]
    BY DEF RegistersSettle, NewestWrite, NewestKey
  <2>1. LastWritten /\ LastRecorded /\ HeldBack
    BY <1>3 DEF TypeInv, Session, LastInv
  <2>2. \A x \in Held : last[x] = last["time"]
    <3>1. \A x \in Held : delayed[x] = << >>
      BY <1>3, PopFacts DEF TypeInv, Held
    <3>2. <<last["time"]>> /= << >>
      OBVIOUS
    <3>3. QED
      BY <2>1, <3>1, <3>2 DEF HeldBack
  <2>3. r \in Late => Source \in Held
    BY DEF Late, Source, Held
  <2>4. r \in Registers
    BY DEF Used
  <2>5. QED
    BY <2>1, <2>2, <2>3, <2>4 DEF LastWritten, LastRecorded
<1>4. TypeInv /\ TypeInv' /\ TimeInv /\ LastInv /\ [Next]_vars => LastInv'
  BY LastNext
<1> HIDE DEF TimeInv
<1>5. QED
  BY <1>1, <1>2, <1>3, <1>4, TypeStart, TypeNext, PTL DEF Spec

-----------------------------------------------------------------------------
(* The exposure of a frame *)

\* The map's answer for a frame is its latest entry up to it.
LEMMA ReportedIs ==
  ASSUME DOMAIN effecting \in SUBSET Int, NEW f \in Int, NEW k \in DOMAIN effecting, k =< f,
         \A i \in DOMAIN effecting : i =< f => i =< k
  PROVE  Reported(f) = effecting[k]
<1> DEFINE upto == {i \in DOMAIN effecting : i =< f}
<1>1. upto \in SUBSET Int /\ k \in upto /\ \A i \in upto : i =< k
  OBVIOUS
<1>2. Reported(f) = effecting[IF upto /= {} THEN Latest(upto) ELSE Earliest(DOMAIN effecting)]
  BY DEF Reported
<1> HIDE DEF upto
<1>3. Latest(upto) = k
  BY <1>1, LatestIs
<1>4. QED
  BY <1>1, <1>2, <1>3

\* There is such an entry if the map has one up to the frame.
LEMMA ReportedAt ==
  ASSUME DOMAIN effecting \in SUBSET Int, NEW f \in Int, NEW i \in DOMAIN effecting, i =< f
  PROVE  \E k \in DOMAIN effecting : /\ i =< k /\ k =< f
                                     /\ \A j \in DOMAIN effecting : j =< f => j =< k
                                     /\ Reported(f) = effecting[k]
<1> DEFINE upto == {j \in DOMAIN effecting : j =< f}
<1>1. upto \in SUBSET Int /\ upto /= {} /\ \A j \in upto : j =< f
  OBVIOUS
<1>2. Latest(upto) \in upto /\ \A j \in upto : j =< Latest(upto)
  <2> HIDE DEF upto
  <2> QED
    BY <1>1, LatestFacts
<1>3. PICK k \in upto : \A j \in upto : j =< k
  <2> HIDE DEF upto
  <2> QED
    BY <1>2
<1>4. k \in DOMAIN effecting /\ k =< f /\ i =< k /\ \A j \in DOMAIN effecting : j =< f => j =< k
  BY <1>3
<1>5. Reported(f) = effecting[k]
  BY <1>4, ReportedIs
<1>6. QED
  BY <1>4, <1>5

\* What a register has in a frame was written by the latest write that is in effect.
LEMMA InEffectIs ==
  ASSUME NEW r \in Registers, NEW f \in Int, DOMAIN written \in SUBSET Int, NEW s \in DOMAIN written,
         s = -1 \/ s + delay[r] =< f,
         \A x \in DOMAIN written : x = -1 \/ x + delay[r] =< f => x =< s
  PROVE  InEffect(r, f) = written[s][r]
<1> DEFINE S == {x \in DOMAIN written : x = -1 \/ x + delay[r] =< f}
<1>1. S \in SUBSET Int /\ s \in S /\ \A x \in S : x =< s
  OBVIOUS
<1>2. InEffect(r, f) = written[Latest(S)][r]
  BY DEF InEffect
<1> HIDE DEF S
<1>3. Latest(S) = s
  BY <1>1, LatestIs
<1>4. QED
  BY <1>2, <1>3

\* Once every write is in effect it is the newest.
LEMMA InEffectNewest ==
  ASSUME TypeInv, Placed, NEW r \in Registers, NEW f \in Int,
         \A x \in DOMAIN written : x = -1 \/ x + delay[r] =< f
  PROVE  InEffect(r, f) = written[NewestWrite][r]
<1>1. /\ NewestWrite \in DOMAIN written /\ \A s \in DOMAIN written : s =< NewestWrite
      /\ DOMAIN written \in SUBSET Int
  BY NewestFacts DEF TypeInv, WrittenInv
<1>2. QED
  BY <1>1, InEffectIs

\* Once every entry of the map is reached it is the newest.
LEMMA ReportedNewest ==
  ASSUME TypeInv, Placed, NEW f \in Int, f >= 0, Done + delay["time"] =< f
  PROVE  Reported(f) = effecting[NewestKey]
<1>1. /\ NewestKey \in DOMAIN effecting /\ \A i \in DOMAIN effecting : i =< NewestKey
      /\ DOMAIN effecting \in SUBSET Int
  BY NewestFacts DEF TypeInv, MapInv
<1>2. Done + delay["time"] \in Int
  BY DEF TypeInv, Basic, Done, Registers
<1>3. NewestKey \in Int /\ NewestKey =< f
  BY <1>1, <1>2 DEF Placed
<1>4. QED
  BY <1>1, <1>3, ReportedIs

\* The flags are those of the delays: with delays one frame apart, a register is held
\* back if and only if it is the faster one.
LEMMA FittingNext ==
  ASSUME TypeInv, \A d \in Configs : OneFrame(d), Fitting, [Next]_vars
  PROVE  Fitting'
<1>1. CASE SetDelays
  <2>1. PICK d \in Configs :
          /\ delay' = d
          /\ IF d["gain"] > d["time"]
             THEN UNCHANGED <<gainDelayed, dcgDelayed, dcgWithTime>>
             ELSE /\ gainDelayed' = (d["time"] > d["gain"])
                  /\ CASE d["dcg"] > d["time"] -> UNCHANGED <<dcgDelayed, dcgWithTime>>
                       [] d["dcg"] =< d["time"] /\ DcgFaster(d) ->
                            dcgDelayed' = TRUE /\ UNCHANGED dcgWithTime
                       [] OTHER ->
                            dcgWithTime' = (d["dcg"] = d["time"]) /\ UNCHANGED dcgDelayed
    BY <1>1 DEF SetDelays
  <2>2. d \in [Registers -> Int] /\ d["time"] \in Int /\ d["gain"] \in Int /\ d["dcg"] \in Int
    BY SensorAssumption DEF Registers
  <2> SUFFICES ASSUME Sound', NEW r \in Used'
               PROVE  d[r] = IF r \in Late' THEN d["time"] - 1 ELSE d["time"]
    BY <2>1 DEF Fitting
  <2>3. d["time"] >= d["gain"] /\ d["time"] >= d["dcg"] /\ (dcgDelayed' => DcgFaster(d))
    BY <2>1 DEF Sound
  <2>4. /\ d["gain"] \in {d["time"] - 1, d["time"]}
        /\ \/ d["dcg"] < 0
           \/ d["dcg"] \in {d["time"], d["gain"]}
           \/ d["gain"] = d["time"] /\ d["dcg"] = d["time"] - 1 /\ d["dcg"] > 0
    BY <2>3 DEF OneFrame
  <2>5. ~(d["gain"] > d["time"]) /\ ~(d["dcg"] > d["time"]) /\ d["dcg"] =< d["time"]
    BY <2>2, <2>3
  <2>6. gainDelayed' <=> d["time"] > d["gain"]
    BY <2>1, <2>5
  <2>7. r \in Registers /\ d[r] >= 0
    BY <2>1 DEF Used
  <2>8. CASE DcgFaster(d)
    <3>1. dcgDelayed'
      BY <2>1, <2>5, <2>8
    <3>2. Late' = {"dcg"}
      BY <3>1 DEF Late
    <3>3. d["dcg"] = d["time"] - 1 /\ d["gain"] = d["time"]
      BY <2>2, <2>4, <2>8 DEF DcgFaster
    <3>4. QED
      BY <2>7, <3>2, <3>3 DEF Registers
  <2>9. CASE ~DcgFaster(d)
    <3>1. ~dcgDelayed' /\ (dcgWithTime' <=> d["dcg"] = d["time"])
      <4>1. dcgWithTime' = (d["dcg"] = d["time"])
        BY <2>1, <2>5, <2>9
      <4>2. QED
        BY <2>3, <2>9, <4>1
    <3>2. d["dcg"] < 0 \/ d["dcg"] \in {d["time"], d["gain"]}
      BY <2>2, <2>4, <2>9 DEF DcgFaster
    <3>3. CASE d["gain"] = d["time"]
      <4>1. Late' = {}
        BY <2>2, <2>6, <3>1, <3>3 DEF Late
      <4>2. QED
        BY <2>2, <2>7, <3>2, <3>3, <4>1 DEF Registers
    <3>4. CASE d["gain"] = d["time"] - 1
      <4>1. Late' = IF d["dcg"] = d["time"] THEN {"gain"} ELSE {"gain", "dcg"}
        BY <2>2, <2>6, <3>1, <3>4 DEF Late
      <4>2. CASE r = "time"
        BY <4>1, <4>2
      <4>3. CASE r = "gain"
        BY <3>4, <4>1, <4>3
      <4>4. CASE r = "dcg"
        <5>1. d["dcg"] = d["time"] \/ d["dcg"] = d["time"] - 1
          BY <2>2, <2>7, <3>2, <3>4, <4>4
        <5>2. QED
          BY <2>2, <4>1, <4>4, <5>1
      <4>5. QED
        BY <2>7, <4>2, <4>3, <4>4 DEF Registers
    <3>5. QED
      BY <2>4, <3>3, <3>4
  <2>10. QED
    BY <2>8, <2>9
<1>2. CASE UNCHANGED config
  BY <1>2 DEF config, Fitting, Sound, Used, Late
<1>3. QED
  BY <1>1, <1>2 DEF Next, SetFirst, SetOne, SetTable, StreamOn, Stop, SofPop, SofWrite, SofRecord, vars

\* Trimming does not change the answer for a frame the map still covers.
LEMMA TrimmedReported ==
  ASSUME DOMAIN effecting \in SUBSET Int, IsFiniteSet(DOMAIN effecting), effecting' = Trimmed(effecting),
         NEW f \in Int, NEW i \in DOMAIN effecting', i =< f
  PROVE  Reported(f)' = Reported(f)
<1>1. /\ DOMAIN effecting' \in SUBSET DOMAIN effecting
      /\ \A k \in DOMAIN effecting' : effecting'[k] = effecting[k]
      /\ \A k \in DOMAIN effecting', j \in DOMAIN effecting : k =< j => j \in DOMAIN effecting'
  BY TrimmedFacts
<1>2. PICK k \in DOMAIN effecting : /\ i =< k /\ k =< f
                                    /\ \A j \in DOMAIN effecting : j =< f => j =< k
                                    /\ Reported(f) = effecting[k]
  <2>1. i \in DOMAIN effecting
    BY <1>1
  <2>2. QED
    BY <2>1, ReportedAt
<1>3. k \in DOMAIN effecting' /\ effecting'[k] = effecting[k]
  BY <1>1, <1>2
<1>4. Reported(f)' = effecting'[k]
  <2> DEFINE upto == {j \in DOMAIN effecting' : j =< f}
  <2>1. upto \in SUBSET Int /\ k \in upto /\ \A j \in upto : j =< k
    BY <1>1, <1>2, <1>3
  <2>2. Reported(f)' = effecting'[IF upto /= {} THEN Latest(upto) ELSE Earliest(DOMAIN effecting')]
    BY DEF Reported
  <2> HIDE DEF upto
  <2>3. Latest(upto) = k
    BY <2>1, LatestIs
  <2>4. QED
    BY <2>1, <2>2, <2>3
<1>5. QED
  BY <1>2, <1>3, <1>4

\* What is true at the ends: the registers of a frame to which all that was written
\* and recorded applies are those of the newest entry.
LEMMA NewestTrue ==
  ASSUME TypeInv, Placed, LastWritten, NEW r \in Used,
         NEW f \in Int, f >= 0, Done + delay["time"] =< f,
         \A s \in DOMAIN written : s = -1 \/ s + delay[r] =< f,
         last[IF r \in Late THEN Source ELSE "time"] = effecting[NewestKey]
  PROVE  InEffect(r, f) = Reported(f)
<1>1. r \in Registers
  BY DEF Used
<1>2. InEffect(r, f) = written[NewestWrite][r]
  BY <1>1, InEffectNewest
<1>3. Reported(f) = effecting[NewestKey]
  BY ReportedNewest
<1>4. QED
  BY <1>1, <1>2, <1>3 DEF LastWritten

\* Every step keeps the map true.
LEMMA TrueNext ==
  ASSUME TypeInv, TypeInv', delay["time"] >= 0, LastInv, LastInv', Fitting, TrueInv, [Next]_vars
  PROVE  TrueInv'
<1> SUFFICES ASSUME streaming', ~lost', Sound' PROVE TrueInv'
  BY DEF TrueInv
<1> DEFINE Covered == \E i \in DOMAIN effecting : i =< Low
           Answer(r, f) == InEffect(r, f) = Reported(f)
<1>0. /\ delay \in [Registers -> Int] /\ delay["time"] \in Int /\ last \in [Registers -> 0..MaxExp]
      /\ pc \in {"idle", "write", "record"} /\ sof \in Int /\ sof >= -1
      /\ DOMAIN effecting \in SUBSET Int /\ DOMAIN written \in SUBSET Int
      /\ MaxMap \in Nat \ {0} /\ Low \in Int /\ Low >= 0
  <2>1. DOMAIN effecting \in SUBSET Int /\ DOMAIN written \in SUBSET Int
    BY DEF TypeInv, MapInv, WrittenInv
  <2>2. /\ delay \in [Registers -> Int] /\ last \in [Registers -> 0..MaxExp]
        /\ pc \in {"idle", "write", "record"} /\ sof \in Int /\ sof >= -1
    BY SensorAssumption DEF TypeInv, Basic
  <2>3. delay["time"] \in Int /\ MaxMap \in Nat \ {0}
    BY <2>2, SensorAssumption DEF Registers
  <2>4. Low \in Int /\ Low >= 0
    BY <2>2, <2>3 DEF Low
  <2>5. QED
    BY <2>1, <2>2, <2>3, <2>4
<1>1. ASSUME UNCHANGED <<config, effecting, streaming, pc, sof, written, lost>> PROVE TrueInv'
  BY <1>1 DEF config, TrueInv, Sound, DcgFaster, Low, Done, InEffect, Reported, Used
<1>2. CASE SetOne \/ SetTable \/ UNCHANGED vars
  <2>1. UNCHANGED <<config, effecting, streaming, pc, sof, written, lost>>
    BY <1>2 DEF SetOne, SetTable, vars, queues, thread, history
  <2>2. QED
    BY <1>1, <2>1
<1>3. CASE SetDelays \/ SetFirst \/ Stop
  <2>1. ~streaming'
    BY <1>3 DEF SetDelays, SetFirst, Stop, thread
  <2>2. QED
    BY <2>1
<1>4. CASE StreamOn
  <2>1. /\ ~first /\ ~streaming /\ UNCHANGED <<config, queues, pc, sof, set, history>>
    BY <1>4 DEF StreamOn
  <2>2. /\ pc = "idle" /\ sof = -1 /\ last = All(last["time"]) /\ DOMAIN written = {-1}
        /\ DOMAIN effecting = {0} /\ Placed /\ LastWritten /\ LastRecorded
    BY <2>1 DEF TypeInv, Session, LastInv, Placed
  <2>3. UNCHANGED <<Low, Done, Used, DOMAIN effecting>>
        /\ \A r, f : (InEffect(r, f))' = InEffect(r, f) /\ (Reported(f))' = Reported(f)
    BY <2>1 DEF config, queues, history, Low, Done, Used, InEffect, Reported
  <2>4. delay' = delay
    BY <2>1 DEF config
  <2>5. ASSUME NEW r \in Used, NEW f \in Int, Low =< f PROVE Answer(r, f)
    <3>1. f >= 0
      BY <1>0, <2>5
    <3>2. 0 \in DOMAIN effecting /\ \A i \in DOMAIN effecting : i = 0
      BY <2>2
    <3>3. Reported(f) = effecting[0]
      BY <1>0, <3>1, <3>2, ReportedIs
    <3>4. NewestKey = 0
      BY <1>0, <3>2, LatestIs DEF NewestKey
    <3>5. r \in Registers /\ -1 \in DOMAIN written /\ \A s \in DOMAIN written : s = -1
      BY <2>2 DEF Used
    <3>6. InEffect(r, f) = written[NewestWrite][r]
      BY <2>2, <3>5, InEffectNewest
    <3>7. last[IF r \in Late THEN Source ELSE "time"] = last["time"]
      <4>1. \A x \in Registers : last[x] = last["time"]
        BY <2>2 DEF All
      <4>2. Source \in Registers /\ "time" \in Registers
        BY DEF Source, Registers
      <4>3. QED
        BY <4>1, <4>2
    <3>8. QED
      BY <2>2, <3>3, <3>4, <3>5, <3>6, <3>7 DEF LastWritten, LastRecorded
  <2>6. Covered
    BY <1>0, <2>2
  <2>7. QED
    BY <2>3, <2>4, <2>5, <2>6 DEF TrueInv
<1>5. CASE SofPop
  <2>1. /\ streaming /\ pc = "idle" /\ ~first
        /\ effecting' = Trimmed(effecting)
        /\ last' = [r \in Registers |-> Popped(r)]
        /\ pc' = IF Waiting = {} THEN "idle" ELSE "write"
        /\ UNCHANGED <<config, first, streaming, written>>
    BY <1>5 DEF SofPop, TypeInv, Session
  <2>2. sof' = sof + 1 /\ ~lost
    <3>1. sof' \in Int /\ sof + 1 =< sof' /\ lost' = (lost \/ sof' > sof + 1)
      BY <1>0, <1>5 DEF SofPop
    <3>2. ~lost /\ ~(sof' > sof + 1)
      BY <3>1
    <3>3. QED
      BY <1>0, <3>1, <3>2
  <2>3. delay' = delay /\ Sound /\ Used' = Used /\ Late' = Late /\ Source' = Source
        /\ \A r, f : (InEffect(r, f))' = InEffect(r, f)
    BY <2>1 DEF config, Sound, DcgFaster, Used, Late, Source, InEffect
  <2>4. Covered /\ \A r \in Used, f \in Int : Low =< f /\ f =< Done + delay[r] => Answer(r, f)
    BY <2>1, <2>2, <2>3 DEF TrueInv
  <2>5. Placed /\ LastWritten /\ LastRecorded /\ HeldBack
    BY <2>1 DEF LastInv
  <2>6. Done = sof
    BY <2>1 DEF Done
  <2>7. Low' \in Int /\ Low =< Low' /\ Low' >= sof + 1 + delay["time"] - MaxMap /\ Low' >= 0
    <3>1. Low' = IF sof + 1 + delay["time"] < MaxMap THEN 0 ELSE sof + 1 + delay["time"] - MaxMap
      BY <2>2, <2>3 DEF Low
    <3>2. QED
      BY <1>0, <3>1 DEF Low
  <2>8. \E i \in DOMAIN effecting' : i =< Low'
    <3> DEFINE b == IF sof + delay["time"] >= 0 THEN sof + delay["time"] ELSE 0
    <3>1. b \in Int /\ b + 1 - MaxMap =< Low' /\ (b = 0 \/ b = sof + delay["time"])
      BY <1>0, <2>7
    <3>2. \A i \in DOMAIN effecting : i =< b
      <4>1. b >= 0 /\ b >= sof + delay["time"]
        BY <1>0
      <4> HIDE DEF b
      <4>2. QED
        BY <1>0, <2>5, <2>6, <3>1, <4>1 DEF Placed
    <3>3. IsFiniteSet(DOMAIN effecting) /\ DOMAIN effecting /= {}
      BY <2>5 DEF TypeInv, MapInv, Placed
    <3> HIDE DEF b
    <3>4. DOMAIN effecting' = DOMAIN effecting \/ \E i \in DOMAIN effecting' : i =< b + 1 - MaxMap
      BY <1>0, <2>1, <3>1, <3>2, <3>3, TrimmedLow
    <3>5. CASE DOMAIN effecting' = DOMAIN effecting
      <4>1. PICK i \in DOMAIN effecting : i =< Low
        BY <2>4
      <4>2. i \in Int /\ i =< Low'
        BY <1>0, <2>7, <4>1
      <4>3. QED
        BY <3>5, <4>2
    <3>6. CASE \E i \in DOMAIN effecting' : i =< b + 1 - MaxMap
      <4>1. PICK i \in DOMAIN effecting' : i =< b + 1 - MaxMap
        BY <3>6
      <4>2. i \in Int
        BY DEF TypeInv, MapInv
      <4>3. i =< Low'
        BY <1>0, <2>7, <3>1, <4>1, <4>2
      <4>4. QED
        BY <4>3
    <3>7. QED
      BY <3>4, <3>5, <3>6
  <2>9. ASSUME NEW r \in Used, NEW f \in Int, Low' =< f, f =< Done' + delay[r]
        PROVE  InEffect(r, f) = (Reported(f))'
    <3>1. PICK i \in DOMAIN effecting' : i =< Low'
      BY <2>8
    <3>2. i \in Int /\ i =< f
      <4>1. i \in Int
        BY DEF TypeInv, MapInv
      <4>2. QED
        BY <2>7, <2>9, <3>1, <4>1
    <3>3. IsFiniteSet(DOMAIN effecting)
      BY DEF TypeInv, MapInv
    <3>4. (Reported(f))' = Reported(f)
      BY <1>0, <2>1, <3>2, <3>3, TrimmedReported
    <3>5. delay[r] \in Int /\ delay[r] >= 0 /\ r \in Registers
      BY <1>0 DEF Used
    <3>6. CASE f =< sof + delay[r]
      <4>1. Low =< f
        BY <1>0, <2>7, <2>9
      <4>2. QED
        BY <2>4, <2>6, <3>4, <3>6, <4>1
    <3>7. CASE ~(f =< sof + delay[r])
      <4>1. Done' = sof + 1 \/ Done' = sof
        <5>1. Done' = sof' \/ (pc' /= "idle" /\ Done' = sof' - 1)
          BY DEF Done
        <5>2. QED
          BY <1>0, <2>2, <5>1
      <4>2. f = sof + 1 + delay[r] /\ Done' = sof + 1
        BY <1>0, <2>9, <3>5, <3>7, <4>1
      <4>3. pc' = "idle"
        <5>1. Done' = IF pc' = "idle" THEN sof + 1 ELSE (sof + 1) - 1
          BY <2>2 DEF Done
        <5>2. QED
          BY <1>0, <4>2, <5>1
      <4>4. Waiting = {}
        BY <2>1, <4>3
      <4>5. \A x \in Held : last[x] = last["time"]
        <5>1. \A x \in Held : delayed[x] = << >>
          BY <4>4, PopFacts DEF TypeInv, Held
        <5>2. <<last["time"]>> /= << >>
          OBVIOUS
        <5>3. QED
          BY <2>1, <2>5, <5>1, <5>2 DEF HeldBack
      <4>6. last[IF r \in Late THEN Source ELSE "time"] = effecting[NewestKey]
        <5>1. r \in Late => Source \in Held
          BY DEF Late, Source, Held
        <5>2. QED
          BY <2>5, <4>5, <5>1 DEF LastRecorded
      <4>7. delay[r] >= delay["time"] - 1
        <5>1. delay[r] = IF r \in Late THEN delay["time"] - 1 ELSE delay["time"]
          BY <2>3 DEF Fitting
        <5>2. QED
          BY <1>0, <5>1
      <4>8. f >= 0 /\ Done + delay["time"] =< f
        BY <1>0, <2>6, <3>5, <4>2, <4>7
      <4>9. \A s \in DOMAIN written : s = -1 \/ s + delay[r] =< f
        <5>1. \A s \in DOMAIN written : s \in Int /\ s =< sof
          BY <1>0, <2>1, <2>5 DEF Placed
        <5>2. QED
          BY <1>0, <3>5, <4>2, <5>1
      <4>10. InEffect(r, f) = Reported(f)
        BY <2>5, <4>6, <4>8, <4>9, NewestTrue
      <4>11. QED
        BY <3>4, <4>10
    <3>8. QED
      BY <3>6, <3>7
  <2>10. QED
    BY <2>3, <2>8, <2>9 DEF TrueInv
<1>6. CASE SofWrite
  <2>1. /\ pc = "write" /\ written' = With(written, sof, Composed)
        /\ pc' = IF "time" \in set THEN "record" ELSE "idle"
        /\ UNCHANGED <<config, queues, streaming, sof, set, lost>>
    BY <1>6 DEF SofWrite
  <2>2. sof >= 0 /\ ~first /\ streaming
    BY <2>1 DEF TypeInv, Session
  <2>3. /\ delay' = delay /\ Sound /\ Used' = Used /\ Late' = Late /\ Source' = Source /\ Low' = Low
        /\ last' = last /\ effecting' = effecting /\ NewestKey' = NewestKey
        /\ \A f : (Reported(f))' = Reported(f)
    BY <2>1 DEF config, queues, Sound, DcgFaster, Used, Late, Source, Low, Reported, NewestKey
  <2>4. Covered /\ \A r \in Used, f \in Int : Low =< f /\ f =< Done + delay[r] => Answer(r, f)
    BY <2>1, <2>2, <2>3 DEF TrueInv
  <2>5. Placed /\ HeldBack /\ ("time" \notin set => LastRecorded)
    BY <2>1, <2>2 DEF LastInv
  <2>6. Placed' /\ LastWritten'
    <3>1. ~first' /\ pc' /= "write"
      BY <2>1, <2>2 DEF queues
    <3>2. QED
      BY <3>1 DEF LastInv
  <2>7. Done = sof - 1
    BY <2>1 DEF Done
  <2>8. /\ DOMAIN written' = DOMAIN written \cup {sof}
        /\ \A s \in DOMAIN written : s =< sof - 1 /\ s /= sof /\ s \in Int
        /\ \A s \in DOMAIN written : written'[s] = written[s]
    <3>1. \A s \in DOMAIN written : s =< sof - 1 /\ s /= sof /\ s \in Int
      BY <1>0, <2>1, <2>5 DEF Placed
    <3>2. QED
      BY <2>1, <3>1 DEF With
  <2>9. ASSUME NEW r \in Used, NEW f \in Int, Low =< f, f =< Done' + delay[r]
        PROVE  (InEffect(r, f))' = Reported(f)
    <3>1. delay[r] \in Int /\ delay[r] >= 0 /\ r \in Registers
      BY <1>0 DEF Used
    <3>2. CASE f =< sof - 1 + delay[r]
      <4> DEFINE S == {s \in DOMAIN written : s = -1 \/ s + delay[r] =< f}
                 T == {s \in DOMAIN written' : s = -1 \/ s + delay[r] =< f}
      <4>1. ~(sof + delay[r] =< f) /\ sof /= -1
        BY <1>0, <2>2, <3>1, <3>2
      <4>2. T = S
        BY <2>8, <4>1
      <4>3. (InEffect(r, f))' = written'[Latest(T)][r] /\ InEffect(r, f) = written[Latest(S)][r]
        BY <2>3 DEF InEffect
      <4>4. Latest(S) \in DOMAIN written
        <5>1. S \in SUBSET Int /\ S /= {} /\ \A x \in S : x =< sof
          <6>1. -1 \in S
            BY <2>5 DEF Placed
          <6>2. \A x \in DOMAIN written : x =< sof
            BY <1>0, <2>8
          <6>3. QED
            BY <1>0, <6>1, <6>2
        <5>2. Latest(S) \in S
          <6> HIDE DEF S
          <6> QED
            BY <1>0, <5>1, LatestFacts
        <5>3. QED
          BY <5>2
      <4>5. InEffect(r, f) = Reported(f)
        BY <2>4, <2>7, <2>9, <3>2
      <4> HIDE DEF S, T
      <4>6. QED
        BY <2>8, <4>2, <4>3, <4>4, <4>5
    <3>3. CASE ~(f =< sof - 1 + delay[r])
      <4>1. Done' = IF pc' = "idle" THEN sof ELSE sof - 1
        BY <2>1 DEF Done
      <4>2. pc' = "idle" /\ Done' = sof /\ f = sof + delay[r]
        BY <1>0, <2>9, <3>1, <3>3, <4>1
      <4>3. LastRecorded
        BY <2>1, <2>5, <4>2
      <4>4. last[IF r \in Late THEN Source ELSE "time"] = effecting[NewestKey]
        <5>1. r \in Late => Source \in Held
          BY DEF Late, Source, Held
        <5>2. \A x \in Held : last[x] = effecting[NewestKey]
          BY <2>1, <2>5 DEF HeldBack
        <5>3. QED
          BY <4>3, <5>1, <5>2 DEF LastRecorded
      <4>5. delay[r] >= delay["time"] - 1
        <5>1. delay[r] = IF r \in Late THEN delay["time"] - 1 ELSE delay["time"]
          BY <2>3 DEF Fitting
        <5>2. QED
          BY <1>0, <5>1
      <4>6. f >= 0 /\ Done + delay["time"] =< f
        BY <1>0, <2>2, <2>7, <3>1, <4>2, <4>5
      <4>7. Reported(f) = effecting[NewestKey]
        BY <2>5, <4>6, ReportedNewest
      <4>8. \A s \in DOMAIN written' : s + delay[r] =< f
        BY <1>0, <2>8, <3>1, <4>2
      <4>9. (InEffect(r, f))' = written'[NewestWrite'][r]
        <5> DEFINE T == {s \in DOMAIN written' : s = -1 \/ s + delay[r] =< f}
        <5>1. T = DOMAIN written'
          BY <4>8
        <5>2. (InEffect(r, f))' = written'[Latest(T)][r]
          BY <2>3 DEF InEffect
        <5> HIDE DEF T
        <5>3. QED
          BY <5>1, <5>2 DEF NewestWrite
      <4>10. written'[NewestWrite'][r] = last[IF r \in Late THEN Source ELSE "time"]
        BY <2>3, <2>6, <3>1 DEF LastWritten
      <4>11. QED
        BY <4>4, <4>7, <4>9, <4>10
    <3>4. QED
      BY <3>2, <3>3
  <2>10. QED
    BY <2>3, <2>4, <2>9 DEF TrueInv
<1>7. CASE SofRecord
  <2> DEFINE k == sof + delay["time"]
  <2>1. /\ pc = "record" /\ pc' = "idle" /\ effecting' = With(effecting, k, last["time"])
        /\ UNCHANGED <<config, first, last, streaming, sof, set, written, lost>>
    BY <1>7 DEF SofRecord, history
  <2>2. sof >= 0 /\ ~first /\ streaming
    BY <2>1 DEF TypeInv, Session
  <2>3. /\ delay' = delay /\ Sound /\ Used' = Used /\ Late' = Late /\ Source' = Source /\ Low' = Low
        /\ \A r, f : (InEffect(r, f))' = InEffect(r, f)
    BY <2>1 DEF config, Sound, DcgFaster, Used, Late, Source, Low, InEffect
  <2>4. Covered /\ \A r \in Used, f \in Int : Low =< f /\ f =< Done + delay[r] => Answer(r, f)
    BY <2>1, <2>2, <2>3 DEF TrueInv
  <2>5. Placed /\ LastWritten /\ HeldBack
    BY <2>1, <2>2 DEF LastInv
  <2>6. Done = sof - 1 /\ Done' = sof /\ k \in Int /\ Done + delay["time"] = k - 1 /\ k - 1 >= -1
    <3>1. Done = sof - 1 /\ Done' = sof
      BY <2>1 DEF Done
    <3>2. QED
      BY <1>0, <2>2, <3>1
  <2>7. /\ DOMAIN effecting' = DOMAIN effecting \cup {k} /\ effecting'[k] = last["time"]
        /\ \A i \in DOMAIN effecting : i /= k => effecting'[i] = effecting[i]
    <3> HIDE DEF k
    <3> QED
      BY <2>1 DEF With
  <2>8. \E i \in DOMAIN effecting' : i =< Low'
    BY <2>3, <2>4, <2>7
  <2>9. ASSUME NEW f \in Int, f < k, NEW i \in DOMAIN effecting, i =< f PROVE (Reported(f))' = Reported(f)
    <3> DEFINE S == {j \in DOMAIN effecting : j =< f}
               T == {j \in DOMAIN effecting' : j =< f}
    <3>1. ~(k =< f)
      BY <2>6, <2>9
    <3> HIDE DEF k
    <3>2. T = S /\ i \in S
      BY <2>7, <2>9, <3>1
    <3>3. S \in SUBSET Int /\ \A x \in S : x =< f
      BY <1>0
    <3>4. Latest(S) \in S
      <4> HIDE DEF S
      <4> QED
        BY <3>2, <3>3, LatestFacts
    <3>5. Latest(S) \in DOMAIN effecting /\ Latest(S) /= k
      BY <3>1, <3>4
    <3>6. effecting'[Latest(S)] = effecting[Latest(S)]
      BY <2>7, <3>5
    <3>7. /\ Reported(f) = effecting[IF S /= {} THEN Latest(S) ELSE Earliest(DOMAIN effecting)]
          /\ (Reported(f))' = effecting'[IF T /= {} THEN Latest(T) ELSE Earliest(DOMAIN effecting')]
      BY DEF Reported
    <3> HIDE DEF S, T
    <3>8. QED
      BY <3>2, <3>6, <3>7
  <2>10. ASSUME NEW r \in Used, NEW f \in Int, Low =< f, f =< Done' + delay[r]
        PROVE  InEffect(r, f) = (Reported(f))'
    <3>1. delay[r] \in Int /\ delay[r] >= 0 /\ r \in Registers
      BY <1>0 DEF Used
    <3>2. delay[r] = IF r \in Late THEN delay["time"] - 1 ELSE delay["time"]
      BY <2>3 DEF Fitting
    <3>3. PICK i \in DOMAIN effecting : i =< Low
      BY <2>4
    <3>4. i \in Int /\ i =< f
      BY <1>0, <2>10, <3>3
    <3>5. CASE f =< sof - 1 + delay[r]
      <4>1. f < k
        BY <1>0, <3>1, <3>2, <3>5
      <4>2. (Reported(f))' = Reported(f)
        BY <2>9, <3>4, <4>1
      <4>3. QED
        BY <2>4, <2>6, <2>10, <3>5, <4>2
    <3>6. CASE ~(f =< sof - 1 + delay[r])
      <4>1. f = sof + delay[r] /\ f >= 0
        BY <1>0, <2>2, <2>6, <2>10, <3>1, <3>6
      <4>2. \A s \in DOMAIN written : s \in Int /\ s + delay[r] =< f
        BY <1>0, <2>1, <2>5, <3>1, <4>1 DEF Placed
      <4>3. InEffect(r, f) = last[IF r \in Late THEN Source ELSE "time"]
        <5>1. InEffect(r, f) = written[NewestWrite][r]
          BY <2>5, <3>1, <4>2, InEffectNewest
        <5>2. QED
          BY <2>5, <3>1, <5>1 DEF LastWritten
      <4>4. CASE r \in Late
        <5>1. f = k - 1 /\ f < k
          BY <1>0, <3>2, <4>1, <4>4
        <5>2. (Reported(f))' = Reported(f)
          BY <2>9, <3>4, <5>1
        <5>3. Done + delay["time"] =< f
          BY <2>6, <5>1
        <5>4. Reported(f) = effecting[NewestKey]
          BY <2>5, <4>1, <5>3, ReportedNewest
        <5>5. Source \in Held
          BY <4>4 DEF Late, Source, Held
        <5>6. last[Source] = effecting[NewestKey]
          BY <2>1, <2>5, <5>5 DEF HeldBack
        <5>7. QED
          BY <4>3, <4>4, <5>2, <5>4, <5>6
      <4>5. CASE r \notin Late
        <5>1. f = k
          BY <3>2, <4>1, <4>5
        <5>2. (Reported(f))' = effecting'[k]
          <6> DEFINE T == {j \in DOMAIN effecting' : j =< f}
          <6>1. T \in SUBSET Int /\ k \in T /\ \A j \in T : j =< k
            BY <1>0, <2>6, <2>7, <5>1
          <6>2. (Reported(f))' = effecting'[IF T /= {} THEN Latest(T) ELSE Earliest(DOMAIN effecting')]
            BY DEF Reported
          <6> HIDE DEF T, k
          <6>3. Latest(T) = k
            BY <6>1, LatestIs
          <6>4. QED
            BY <6>1, <6>2, <6>3
        <5>3. QED
          BY <2>7, <4>3, <4>5, <5>2
      <4>6. QED
        BY <4>4, <4>5
    <3>7. QED
      BY <3>5, <3>6
  <2>11. QED
    BY <2>3, <2>8, <2>10 DEF TrueInv
<1>8. QED
  BY <1>2, <1>3, <1>4, <1>5, <1>6, <1>7 DEF Next

\* The exposure reported for a frame is the one its registers really have, in every
\* frame that is decided and still covered, across restarts, for every queue of
\* exposures and whatever tables come in between: if the calibrations give delays
\* the driver can make up for.
THEOREM ReportsTrue ==
  ASSUME \A d \in Configs : d["time"] >= 0 /\ OneFrame(d)
  PROVE  Spec => []ReportedIsReal
<1> DEFINE TimeInv == delay["time"] >= 0
<1>1. ASSUME Init PROVE TimeInv /\ LastInv /\ Fitting /\ TrueInv
  <2>1. TimeInv /\ LastInv /\ TrueInv
    BY <1>1 DEF Init, All, Registers, LastInv, TrueInv
  <2>2. Fitting
    <3>1. Late = {} /\ \A r \in Registers : delay[r] = 0
      BY <1>1 DEF Init, All, Late
    <3>2. Used \subseteq Registers /\ "time" \in Registers
      BY DEF Used, Registers
    <3>3. QED
      BY <3>1, <3>2 DEF Fitting
  <2>3. QED
    BY <2>1, <2>2
<1>2. TimeInv /\ [Next]_vars => TimeInv'
  BY DEF Next, SetDelays, SetFirst, SetOne, SetTable, StreamOn, Stop, SofPop, SofWrite, SofRecord, vars, config
<1>3. ASSUME TypeInv, Fitting, TrueInv PROVE ReportedIsReal
  <2> SUFFICES ASSUME streaming, ~lost, Sound, NEW f \in Decided, NEW r \in Used
               PROVE  InEffect(r, f) = Reported(f)
    BY DEF ReportedIsReal, Sound
  <2>1. /\ delay \in [Registers -> Int] /\ delay["time"] \in Int /\ sof \in Int
        /\ MaxMap \in Nat /\ Done \in Int
    <3>1. delay \in [Registers -> Int] /\ sof \in Int /\ MaxMap \in Nat
      BY <1>3, SensorAssumption DEF TypeInv, Basic
    <3>2. QED
      BY <3>1 DEF Registers, Done
  <2> DEFINE S == {delay[x] : x \in Used}
  <2>2. \A x \in Used : delay[x] \in Int /\ (delay[x] = delay["time"] \/ delay[x] = delay["time"] - 1)
    BY <1>3, <2>1 DEF Fitting, Used
  <2>3. delay[r] \in S /\ S \subseteq {delay["time"] - 1, delay["time"]}
    BY <2>2
  <2>4. \E x \in S : \A y \in S : x =< y
    <3> HIDE DEF S
    <3>1. CASE delay["time"] - 1 \in S
      BY <2>1, <2>3, <3>1
    <3>2. CASE delay["time"] - 1 \notin S
      <4>1. \A y \in S : y = delay["time"]
        BY <2>3, <3>2
      <4>2. delay["time"] \in S
        BY <2>3, <4>1
      <4>3. delay["time"] =< delay["time"]
        BY <2>1
      <4>4. QED
        BY <4>1, <4>2, <4>3
    <3>3. QED
      BY <3>1, <3>2
  <2>5. Earliest(S) \in S /\ \A y \in S : Earliest(S) =< y
    <3> HIDE DEF S
    <3> QED
      BY <2>4 DEF Earliest
  <2>6. Earliest(S) \in Int /\ Earliest(S) =< delay[r] /\ delay[r] \in Int
    BY <2>2, <2>3, <2>5
  <2>7. f \in (IF sof + delay["time"] - MaxMap < 0 THEN 0 ELSE sof + delay["time"] - MaxMap)..(Done + Earliest(S))
    BY DEF Decided, Done
  <2>8. f \in Int /\ Low =< f /\ f =< Done + delay[r]
    <3> HIDE DEF S
    <3>1. Low = IF sof + delay["time"] - MaxMap < 0 THEN 0 ELSE sof + delay["time"] - MaxMap
      BY <2>1 DEF Low
    <3>2. QED
      BY <2>1, <2>6, <2>7, <3>1
  <2>9. QED
    BY <1>3, <2>8 DEF TrueInv
<1>4. TypeInv /\ TypeInv' /\ TimeInv /\ LastInv /\ [Next]_vars => LastInv'
  BY LastNext
<1>5. TypeInv /\ Fitting /\ [Next]_vars => Fitting'
  BY FittingNext
<1>6. TypeInv /\ TypeInv' /\ TimeInv /\ LastInv /\ LastInv' /\ Fitting /\ TrueInv /\ [Next]_vars => TrueInv'
  BY TrueNext
<1> HIDE DEF TimeInv
<1>7. QED
  BY <1>1, <1>2, <1>3, <1>4, <1>5, <1>6, TypeStart, TypeNext, PTL DEF Spec
=============================================================================
