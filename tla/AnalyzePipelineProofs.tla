------------------------ MODULE AnalyzePipelineProofs ------------------------
(***************************************************************************)
(* Proofs about AnalyzePipeline for any frames, sessions and thresholds:   *)
(* each of the four groups implements AnalyzerGroup, so that the theorems  *)
(* of AnalyzerGroupProofs hold of them, and with these what the groups     *)
(* promise together.  The two go hand in hand: a group publishes as        *)
(* AnalyzerGroup asks only because its own frames are in order, which that *)
(* module proves of a group whose publishers do; so there is one invariant *)
(* for all four.  Lemmas about an instance come four times, once for each  *)
(* group; from GroupKnown and GroupsKeep on everything is said of any      *)
(* group.                                                                  *)
(***************************************************************************)
EXTENDS AnalyzePipeline, FiniteSetTheorems, SequenceTheorems, TLAPS

\* What is proved of each group.
AeP == INSTANCE AnalyzerGroupProofs WITH
  Deps <- Conds("AE"), Delay <- Delays("AE"), First <- Firsts("AE"),
  up <- up["AE"], queue <- queue["AE"], pending <- pending["AE"],
  next <- next["AE"], close <- close["AE"],
  arrived <- arrived["AE"], analysed <- analysed["AE"], lost <- lost["AE"]
AwbP == INSTANCE AnalyzerGroupProofs WITH
  Deps <- Conds("AWB"), Delay <- Delays("AWB"), First <- Firsts("AWB"),
  up <- up["AWB"], queue <- queue["AWB"], pending <- pending["AWB"],
  next <- next["AWB"], close <- close["AWB"],
  arrived <- arrived["AWB"], analysed <- analysed["AWB"], lost <- lost["AWB"]
Grp0P == INSTANCE AnalyzerGroupProofs WITH
  Deps <- Conds("GRP0"), Delay <- Delays("GRP0"), First <- Firsts("GRP0"),
  up <- up["GRP0"], queue <- queue["GRP0"], pending <- pending["GRP0"],
  next <- next["GRP0"], close <- close["GRP0"],
  arrived <- arrived["GRP0"], analysed <- analysed["GRP0"], lost <- lost["GRP0"]
Grp1P == INSTANCE AnalyzerGroupProofs WITH
  Deps <- Conds("GRP1"), Delay <- Delays("GRP1"), First <- Firsts("GRP1"),
  up <- up["GRP1"], queue <- queue["GRP1"], pending <- pending["GRP1"],
  next <- next["GRP1"], close <- close["GRP1"],
  arrived <- arrived["GRP1"], analysed <- analysed["GRP1"], lost <- lost["GRP1"]

-----------------------------------------------------------------------------
(* The inductive invariant *)

\* The types a thread posts.
Posts(a) == IF a = "sof" THEN {"SOF"} ELSE IF a = "stats" THEN Statistics ELSE Results(a)

\* Each variable of the groups is a function over them.
Shape ==
  /\ DOMAIN up = Groups /\ DOMAIN queue = Groups /\ DOMAIN pending = Groups
  /\ DOMAIN next = Groups /\ DOMAIN close = Groups
  /\ DOMAIN arrived = Groups /\ DOMAIN analysed = Groups /\ DOMAIN lost = Groups

\* A push is of a type of its thread, to a group that waits for it, and not behind
\* what the group has been sent; a thread posts for one frame at a time.
PushesReady ==
  \A a \in Threads :
    /\ \A m \in todo[a] : /\ m.type \in Posts(a) /\ m.type \in Conds(m.to)
                          /\ next[m.to][m.type] =< m.frame /\ UserId(m) =< MaxFrame
    /\ \A m, n \in todo[a] : m.frame = n.frame

\* What the sensor's threads posted is of frames they have passed.
SensorAhead ==
  \A a \in Sensor :
    /\ \A m \in todo[a] : m.frame < at[a]
    /\ streaming => \A g \in Groups : \A t \in Posts(a) \cap Conds(g) : next[g][t] =< at[a]

\* Results are of frames their group has analysed.
ResultsAfter ==
  /\ \A h \in Groups : \A m \in todo[h] : m.frame \in analysed[h]
  /\ \A g, h \in Groups : \A t \in Results(h) \cap Conds(g) :
       /\ arrived[g][t] \subseteq analysed[h]
       /\ \A k \in DOMAIN queue[g] : queue[g][k].type = t => queue[g][k].frame \in analysed[h]
       /\ next[g][t] = 2 \/ next[g][t] - 1 \in analysed[h]

\* Messages count for frames of the session from their delay on.
IdsBounded ==
  \A g \in Groups :
    /\ \A t \in Conds(g) : \A i \in arrived[g][t] : DelayOf(t) =< i /\ i =< MaxFrame
    /\ \A k \in DOMAIN queue[g] : UserId(queue[g][k]) =< MaxFrame

\* A group is stopped after the sensor's threads have finished, and when it has
\* nothing left to push.
Phases ==
  /\ streaming => session >= 1
  /\ \A g \in Groups : ~up[g] => ~streaming /\ \A a \in Sensor \cup {g} : todo[a] = {}

Served(a) == IF a = "sof" THEN 1..(at[a] - 1) ELSE IF a = "stats" THEN 0..(at[a] - 1) ELSE analysed[a]

\* The message of type t for frame f has been handled by g, waits in its queue, or
\* is one that thread a has yet to push.
Underway(a, g, t, f) ==
  \/ f + DelayOf(t) \in arrived[g][t]
  \/ \E k \in DOMAIN queue[g] : queue[g][k].type = t /\ queue[g][k].frame = f
  \/ \E m \in todo[a] : m.to = g /\ m.type = t /\ m.frame = f

\* No message that was not left out is lost on its way to a running group.
Delivered ==
  skipped = 0 =>
    \A a \in Threads, g \in Groups : up[g] =>
      \A t \in Posts(a) \cap Conds(g) : \A f \in Served(a) : Underway(a, g, t, f)

EachInv == AeP!GroupInv /\ AwbP!GroupInv /\ Grp0P!GroupInv /\ Grp1P!GroupInv

\* The part of the invariant that is about the groups together.
Together ==
  /\ Shape /\ PushesReady /\ SensorAhead /\ ResultsAfter /\ IdsBounded /\ Phases /\ Delivered

PipelineInv == TypeOK /\ EachInv /\ Together

-----------------------------------------------------------------------------
(* The tables *)

\* What the tables say, type by type.
LEMMA Tables ==
  /\ \A g \in Groups : Conds(g) \subseteq Types /\ Conds(g) /= {}
  /\ IsFiniteSet(Types)
  /\ \A a \in Threads : Posts(a) \subseteq Types
  /\ \A a, b \in Threads : \A t \in Posts(a) : t \in Posts(b) => a = b
  /\ \A t \in Types : DelayOf(t) \in 0..2 /\ FirstOf(t) \in 0..2
  /\ \A h \in Groups : \A t \in Results(h) : DelayOf(t) = 0 /\ FirstOf(t) = 2
<1> USE DEF Groups, Threads, Sensor, Conds, AeCond, AwbCond, Grp0Cond, Grp1Cond, Types, Posts,
            Statistics, Results, DelayOf, FirstOf
<1>1. IsFiniteSet(Types)
  <2>1. IsFiniteSet({} \cup {"SOF"})
    BY FS_EmptySet, FS_AddElement
  <2>2. IsFiniteSet(({} \cup {"SOF"}) \cup {"AEC_STATS"})
    BY <2>1, FS_AddElement
  <2>3. IsFiniteSet((({} \cup {"SOF"}) \cup {"AEC_STATS"}) \cup {"AWB_STATS"})
    BY <2>2, FS_AddElement
  <2>4. IsFiniteSet(((({} \cup {"SOF"}) \cup {"AEC_STATS"}) \cup {"AWB_STATS"}) \cup {"AE_PRE_RES"})
    BY <2>3, FS_AddElement
  <2> DEFINE S == ((({} \cup {"SOF"}) \cup {"AEC_STATS"}) \cup {"AWB_STATS"}) \cup {"AE_PRE_RES"}
  <2>5. IsFiniteSet((S \cup {"AE_PROC_RES"}) \cup {"AWB_PROC_RES"})
    <3> HIDE DEF S
    <3>1. IsFiniteSet(S \cup {"AE_PROC_RES"})
      BY <2>4, FS_AddElement DEF S
    <3>2. QED
      BY <3>1, FS_AddElement
  <2>6. Types = (S \cup {"AE_PROC_RES"}) \cup {"AWB_PROC_RES"}
    OBVIOUS
  <2>7. QED
    BY <2>5, <2>6
<1>2. \A g \in Groups : Conds(g) \subseteq Types /\ Conds(g) /= {}
  OBVIOUS
<1>3. \A a \in Threads : Posts(a) \subseteq Types
  OBVIOUS
<1>4. \A a, b \in Threads : \A t \in Posts(a) : t \in Posts(b) => a = b
  OBVIOUS
<1>5. \A t \in Types : DelayOf(t) \in 0..2 /\ FirstOf(t) \in 0..2
  OBVIOUS
<1>6. \A h \in Groups : \A t \in Results(h) : DelayOf(t) = 0 /\ FirstOf(t) = 2
  OBVIOUS
<1>7. QED
  BY <1>1, <1>2, <1>3, <1>4, <1>5, <1>6

\* Numbers.
LEMMA Constants ==
  /\ MaxFrame \in Nat /\ MaxFrame >= 2 /\ MaxSessions \in Nat
  /\ \A s \in 1..MaxSessions : LastFrame[s] \in 2..MaxFrame /\ MaxSkipped[s] \in Nat
BY PipelineAssumption DEF MaxSessions

\* The delays and first frames of a group.
LEMMA GroupConstants ==
  ASSUME NEW g \in Groups
  PROVE  /\ IsFiniteSet(Conds(g)) /\ Conds(g) /= {}
         /\ Delays(g) \in [Conds(g) -> Nat]
         /\ Firsts(g) \in [Conds(g) -> 0..(MaxFrame + 1)]
         /\ \A t \in Conds(g) : Delays(g)[t] = DelayOf(t) /\ Firsts(g)[t] = FirstOf(t)
         /\ MaxPending \in Nat /\ KeepPending \in 1..MaxPending
         /\ MaxSkew \in Nat /\ MaxFrame \in Nat /\ MaxQueue \in Nat /\ MaxSessions \in Nat
<1>1. \A t \in Conds(g) : DelayOf(t) \in Nat /\ FirstOf(t) \in 0..(MaxFrame + 1)
  BY Tables, Constants
<1>2. QED
  BY <1>1, Tables, FS_Subset, Constants, PipelineAssumption DEF Delays, Firsts

\* The assumption of AnalyzerGroup holds for group AE.
LEMMA AeAssumption == AeP!GroupAssumption
<1>1. AeP!IsFiniteSet(Conds("AE")) <=> IsFiniteSet(Conds("AE"))
  BY Zenon DEF AeP!IsFiniteSet, IsFiniteSet
<1>2. "AE" \in Groups
  BY DEF Groups
<1>3. QED
  BY <1>1, <1>2, GroupConstants DEF AeP!GroupAssumption

\* The assumption of AnalyzerGroup holds for group AWB.
LEMMA AwbAssumption == AwbP!GroupAssumption
<1>1. AwbP!IsFiniteSet(Conds("AWB")) <=> IsFiniteSet(Conds("AWB"))
  BY Zenon DEF AwbP!IsFiniteSet, IsFiniteSet
<1>2. "AWB" \in Groups
  BY DEF Groups
<1>3. QED
  BY <1>1, <1>2, GroupConstants DEF AwbP!GroupAssumption

\* The assumption of AnalyzerGroup holds for group GRP0.
LEMMA Grp0Assumption == Grp0P!GroupAssumption
<1>1. Grp0P!IsFiniteSet(Conds("GRP0")) <=> IsFiniteSet(Conds("GRP0"))
  BY Zenon DEF Grp0P!IsFiniteSet, IsFiniteSet
<1>2. "GRP0" \in Groups
  BY DEF Groups
<1>3. QED
  BY <1>1, <1>2, GroupConstants DEF Grp0P!GroupAssumption

\* The assumption of AnalyzerGroup holds for group GRP1.
LEMMA Grp1Assumption == Grp1P!GroupAssumption
<1>1. Grp1P!IsFiniteSet(Conds("GRP1")) <=> IsFiniteSet(Conds("GRP1"))
  BY Zenon DEF Grp1P!IsFiniteSet, IsFiniteSet
<1>2. "GRP1" \in Groups
  BY DEF Groups
<1>3. QED
  BY <1>1, <1>2, GroupConstants DEF Grp1P!GroupAssumption

-----------------------------------------------------------------------------
(* Types *)

Message(g) == [type : Conds(g), frame : 0..MaxFrame, session : 0..MaxSessions]

\* The types of the variables of group g.
GroupTypeOK(g) ==
  /\ up[g] \in BOOLEAN
  /\ queue[g] \in Seq(Message(g))
  /\ DOMAIN pending[g] \subseteq Nat
  /\ \A i \in DOMAIN pending[g] : pending[g][i] \subseteq Message(g)
  /\ next[g] \in [Conds(g) -> 0..(MaxFrame + 1)]
  /\ close[g] \in BOOLEAN
  /\ session \in 0..MaxSessions
  /\ arrived[g] \in [Conds(g) -> SUBSET Nat]
  /\ analysed[g] \subseteq Nat
  /\ lost[g] \subseteq Nat

\* The types of the other variables.
OwnTypes ==
  /\ streaming \in BOOLEAN
  /\ at \in [Sensor -> 0..(MaxFrame + 1)]
  /\ todo \in [Threads -> SUBSET Push]
  /\ skipped \in Nat

\* The types, group by group.
LEMMA GroupTypes ==
  TypeOK <=> OwnTypes /\ \A g \in Groups : GroupTypeOK(g)
<1>1. GroupTypeOK("AE") <=> Ae!TypeOK
  BY DEF GroupTypeOK, Message, Ae!TypeOK, Ae!Message
<1>2. GroupTypeOK("AWB") <=> Awb!TypeOK
  BY DEF GroupTypeOK, Message, Awb!TypeOK, Awb!Message
<1>3. GroupTypeOK("GRP0") <=> Grp0!TypeOK
  BY DEF GroupTypeOK, Message, Grp0!TypeOK, Grp0!Message
<1>4. GroupTypeOK("GRP1") <=> Grp1!TypeOK
  BY DEF GroupTypeOK, Message, Grp1!TypeOK, Grp1!Message
<1>5. QED
  BY <1>1, <1>2, <1>3, <1>4 DEF TypeOK, OwnTypes, Groups

\* The instance of the proofs is of the same group.
LEMMA AeSame ==
  /\ AeP!TypeOK <=> Ae!TypeOK
  /\ AeP!Next <=> Ae!Next
  /\ AeP!vars = Ae!vars
  /\ AeP!Init <=> Ae!Init
<1>1. AeP!TypeOK <=> Ae!TypeOK
  BY DEF Ae!TypeOK, AeP!TypeOK, Ae!Message, AeP!Message
<1>2. AeP!Next <=> Ae!Next
  <2>1. \A t : AeP!Publish(t) <=> Ae!Publish(t)
    BY DEF Ae!Publish, AeP!Publish, Ae!WithinSkew, AeP!WithinSkew, Ae!history, AeP!history
  <2>2. \A m : AeP!UserId(m) = Ae!UserId(m) /\ AeP!Collect(m) = Ae!Collect(m)
    BY DEF Ae!UserId, AeP!UserId, Ae!Collect, AeP!Collect, Ae!Filed, AeP!Filed
  <2>3. \A m : AeP!Pop(m) <=> Ae!Pop(m)
    BY <2>2 DEF Ae!Pop, AeP!Pop
  <2>4. \A S : AeP!Complete(S) <=> Ae!Complete(S)
    BY DEF Ae!Complete, AeP!Complete, Ae!Types, AeP!Types
  <2>5. AeP!Range(queue["AE"]) = Ae!Range(queue["AE"])
    BY DEF Ae!Range, AeP!Range
  <2>6. \A f, S : AeP!Restrict(f, S) = Ae!Restrict(f, S)
    BY DEF Ae!Restrict, AeP!Restrict
  <2>7. \A S : AeP!Reduced(S) = Ae!Reduced(S)
    <3>1. \A T : AeP!Cardinality(T) = Ae!Cardinality(T)
      BY DEF Ae!Cardinality, AeP!Cardinality
    <3>2. QED
      BY <3>1 DEF Ae!Reduced, AeP!Reduced, Ae!Dropped, AeP!Dropped
  <2>8. AeP!Analyse <=> Ae!Analyse
    BY <2>2, <2>3, <2>4, <2>5, <2>6 DEF Ae!Analyse, AeP!Analyse
  <2>9. AeP!Store <=> Ae!Store
    BY <2>2, <2>3, <2>4, <2>5, <2>6, <2>7 DEF Ae!Store, AeP!Store
  <2>10. AeP!Start <=> Ae!Start
    BY DEF Ae!Start, AeP!Start
  <2>11. AeP!Stop <=> Ae!Stop
    BY DEF Ae!Stop, AeP!Stop, Ae!Empty, AeP!Empty, Ae!history, AeP!history
  <2>12. QED
    BY <2>1, <2>8, <2>9, <2>10, <2>11 DEF Ae!Next, AeP!Next
<1>3. AeP!vars = Ae!vars
  BY DEF Ae!vars, AeP!vars
<1>4. AeP!Init <=> Ae!Init
  BY DEF Ae!Init, AeP!Init, Ae!Empty, AeP!Empty
<1>5. QED
  BY <1>1, <1>2, <1>3, <1>4

\* The instance of the proofs is of the same group.
LEMMA AwbSame ==
  /\ AwbP!TypeOK <=> Awb!TypeOK
  /\ AwbP!Next <=> Awb!Next
  /\ AwbP!vars = Awb!vars
  /\ AwbP!Init <=> Awb!Init
<1>1. AwbP!TypeOK <=> Awb!TypeOK
  BY DEF Awb!TypeOK, AwbP!TypeOK, Awb!Message, AwbP!Message
<1>2. AwbP!Next <=> Awb!Next
  <2>1. \A t : AwbP!Publish(t) <=> Awb!Publish(t)
    BY DEF Awb!Publish, AwbP!Publish, Awb!WithinSkew, AwbP!WithinSkew, Awb!history, AwbP!history
  <2>2. \A m : AwbP!UserId(m) = Awb!UserId(m) /\ AwbP!Collect(m) = Awb!Collect(m)
    BY DEF Awb!UserId, AwbP!UserId, Awb!Collect, AwbP!Collect, Awb!Filed, AwbP!Filed
  <2>3. \A m : AwbP!Pop(m) <=> Awb!Pop(m)
    BY <2>2 DEF Awb!Pop, AwbP!Pop
  <2>4. \A S : AwbP!Complete(S) <=> Awb!Complete(S)
    BY DEF Awb!Complete, AwbP!Complete, Awb!Types, AwbP!Types
  <2>5. AwbP!Range(queue["AWB"]) = Awb!Range(queue["AWB"])
    BY DEF Awb!Range, AwbP!Range
  <2>6. \A f, S : AwbP!Restrict(f, S) = Awb!Restrict(f, S)
    BY DEF Awb!Restrict, AwbP!Restrict
  <2>7. \A S : AwbP!Reduced(S) = Awb!Reduced(S)
    <3>1. \A T : AwbP!Cardinality(T) = Awb!Cardinality(T)
      BY DEF Awb!Cardinality, AwbP!Cardinality
    <3>2. QED
      BY <3>1 DEF Awb!Reduced, AwbP!Reduced, Awb!Dropped, AwbP!Dropped
  <2>8. AwbP!Analyse <=> Awb!Analyse
    BY <2>2, <2>3, <2>4, <2>5, <2>6 DEF Awb!Analyse, AwbP!Analyse
  <2>9. AwbP!Store <=> Awb!Store
    BY <2>2, <2>3, <2>4, <2>5, <2>6, <2>7 DEF Awb!Store, AwbP!Store
  <2>10. AwbP!Start <=> Awb!Start
    BY DEF Awb!Start, AwbP!Start
  <2>11. AwbP!Stop <=> Awb!Stop
    BY DEF Awb!Stop, AwbP!Stop, Awb!Empty, AwbP!Empty, Awb!history, AwbP!history
  <2>12. QED
    BY <2>1, <2>8, <2>9, <2>10, <2>11 DEF Awb!Next, AwbP!Next
<1>3. AwbP!vars = Awb!vars
  BY DEF Awb!vars, AwbP!vars
<1>4. AwbP!Init <=> Awb!Init
  BY DEF Awb!Init, AwbP!Init, Awb!Empty, AwbP!Empty
<1>5. QED
  BY <1>1, <1>2, <1>3, <1>4

\* The instance of the proofs is of the same group.
LEMMA Grp0Same ==
  /\ Grp0P!TypeOK <=> Grp0!TypeOK
  /\ Grp0P!Next <=> Grp0!Next
  /\ Grp0P!vars = Grp0!vars
  /\ Grp0P!Init <=> Grp0!Init
<1>1. Grp0P!TypeOK <=> Grp0!TypeOK
  BY DEF Grp0!TypeOK, Grp0P!TypeOK, Grp0!Message, Grp0P!Message
<1>2. Grp0P!Next <=> Grp0!Next
  <2>1. \A t : Grp0P!Publish(t) <=> Grp0!Publish(t)
    BY DEF Grp0!Publish, Grp0P!Publish, Grp0!WithinSkew, Grp0P!WithinSkew, Grp0!history, Grp0P!history
  <2>2. \A m : Grp0P!UserId(m) = Grp0!UserId(m) /\ Grp0P!Collect(m) = Grp0!Collect(m)
    BY DEF Grp0!UserId, Grp0P!UserId, Grp0!Collect, Grp0P!Collect, Grp0!Filed, Grp0P!Filed
  <2>3. \A m : Grp0P!Pop(m) <=> Grp0!Pop(m)
    BY <2>2 DEF Grp0!Pop, Grp0P!Pop
  <2>4. \A S : Grp0P!Complete(S) <=> Grp0!Complete(S)
    BY DEF Grp0!Complete, Grp0P!Complete, Grp0!Types, Grp0P!Types
  <2>5. Grp0P!Range(queue["GRP0"]) = Grp0!Range(queue["GRP0"])
    BY DEF Grp0!Range, Grp0P!Range
  <2>6. \A f, S : Grp0P!Restrict(f, S) = Grp0!Restrict(f, S)
    BY DEF Grp0!Restrict, Grp0P!Restrict
  <2>7. \A S : Grp0P!Reduced(S) = Grp0!Reduced(S)
    <3>1. \A T : Grp0P!Cardinality(T) = Grp0!Cardinality(T)
      BY DEF Grp0!Cardinality, Grp0P!Cardinality
    <3>2. QED
      BY <3>1 DEF Grp0!Reduced, Grp0P!Reduced, Grp0!Dropped, Grp0P!Dropped
  <2>8. Grp0P!Analyse <=> Grp0!Analyse
    BY <2>2, <2>3, <2>4, <2>5, <2>6 DEF Grp0!Analyse, Grp0P!Analyse
  <2>9. Grp0P!Store <=> Grp0!Store
    BY <2>2, <2>3, <2>4, <2>5, <2>6, <2>7 DEF Grp0!Store, Grp0P!Store
  <2>10. Grp0P!Start <=> Grp0!Start
    BY DEF Grp0!Start, Grp0P!Start
  <2>11. Grp0P!Stop <=> Grp0!Stop
    BY DEF Grp0!Stop, Grp0P!Stop, Grp0!Empty, Grp0P!Empty, Grp0!history, Grp0P!history
  <2>12. QED
    BY <2>1, <2>8, <2>9, <2>10, <2>11 DEF Grp0!Next, Grp0P!Next
<1>3. Grp0P!vars = Grp0!vars
  BY DEF Grp0!vars, Grp0P!vars
<1>4. Grp0P!Init <=> Grp0!Init
  BY DEF Grp0!Init, Grp0P!Init, Grp0!Empty, Grp0P!Empty
<1>5. QED
  BY <1>1, <1>2, <1>3, <1>4

\* The instance of the proofs is of the same group.
LEMMA Grp1Same ==
  /\ Grp1P!TypeOK <=> Grp1!TypeOK
  /\ Grp1P!Next <=> Grp1!Next
  /\ Grp1P!vars = Grp1!vars
  /\ Grp1P!Init <=> Grp1!Init
<1>1. Grp1P!TypeOK <=> Grp1!TypeOK
  BY DEF Grp1!TypeOK, Grp1P!TypeOK, Grp1!Message, Grp1P!Message
<1>2. Grp1P!Next <=> Grp1!Next
  <2>1. \A t : Grp1P!Publish(t) <=> Grp1!Publish(t)
    BY DEF Grp1!Publish, Grp1P!Publish, Grp1!WithinSkew, Grp1P!WithinSkew, Grp1!history, Grp1P!history
  <2>2. \A m : Grp1P!UserId(m) = Grp1!UserId(m) /\ Grp1P!Collect(m) = Grp1!Collect(m)
    BY DEF Grp1!UserId, Grp1P!UserId, Grp1!Collect, Grp1P!Collect, Grp1!Filed, Grp1P!Filed
  <2>3. \A m : Grp1P!Pop(m) <=> Grp1!Pop(m)
    BY <2>2 DEF Grp1!Pop, Grp1P!Pop
  <2>4. \A S : Grp1P!Complete(S) <=> Grp1!Complete(S)
    BY DEF Grp1!Complete, Grp1P!Complete, Grp1!Types, Grp1P!Types
  <2>5. Grp1P!Range(queue["GRP1"]) = Grp1!Range(queue["GRP1"])
    BY DEF Grp1!Range, Grp1P!Range
  <2>6. \A f, S : Grp1P!Restrict(f, S) = Grp1!Restrict(f, S)
    BY DEF Grp1!Restrict, Grp1P!Restrict
  <2>7. \A S : Grp1P!Reduced(S) = Grp1!Reduced(S)
    <3>1. \A T : Grp1P!Cardinality(T) = Grp1!Cardinality(T)
      BY DEF Grp1!Cardinality, Grp1P!Cardinality
    <3>2. QED
      BY <3>1 DEF Grp1!Reduced, Grp1P!Reduced, Grp1!Dropped, Grp1P!Dropped
  <2>8. Grp1P!Analyse <=> Grp1!Analyse
    BY <2>2, <2>3, <2>4, <2>5, <2>6 DEF Grp1!Analyse, Grp1P!Analyse
  <2>9. Grp1P!Store <=> Grp1!Store
    BY <2>2, <2>3, <2>4, <2>5, <2>6, <2>7 DEF Grp1!Store, Grp1P!Store
  <2>10. Grp1P!Start <=> Grp1!Start
    BY DEF Grp1!Start, Grp1P!Start
  <2>11. Grp1P!Stop <=> Grp1!Stop
    BY DEF Grp1!Stop, Grp1P!Stop, Grp1!Empty, Grp1P!Empty, Grp1!history, Grp1P!history
  <2>12. QED
    BY <2>1, <2>8, <2>9, <2>10, <2>11 DEF Grp1!Next, Grp1P!Next
<1>3. Grp1P!vars = Grp1!vars
  BY DEF Grp1!vars, Grp1P!vars
<1>4. Grp1P!Init <=> Grp1!Init
  BY DEF Grp1!Init, Grp1P!Init, Grp1!Empty, Grp1P!Empty
<1>5. QED
  BY <1>1, <1>2, <1>3, <1>4

-----------------------------------------------------------------------------
(* The step of a group *)

\* A step of the groups together is one of the AE group, or leaves it alone.
LEMMA AeStep ==
  ASSUME PipelineInv, [Next]_vars
  PROVE  Ae!Next \/ UNCHANGED Ae!vars
<1> USE "AE" \in Groups DEF Groups
<1>0. Shape /\ TypeOK /\ GroupTypeOK("AE") /\ todo \in [Threads -> SUBSET Push]
  BY GroupTypes DEF PipelineInv, Together, OwnTypes
<1>1. CASE Sof \/ Stats \/ StopSensor
  BY <1>1 DEF Sof, Stats, Serve, StopSensor, published, collected, Ae!vars, Ae!history
<1>2. ASSUME NEW a \in Threads, PushNext(a) PROVE Ae!Next \/ UNCHANGED Ae!vars
  <2>1. PICK m \in todo[a] :
          /\ Len(queue[m.to]) < MaxQueue
          /\ queue' = [queue EXCEPT ![m.to] =
               Append(@, [type |-> m.type, frame |-> m.frame, session |-> session])]
          /\ next' = [next EXCEPT ![m.to][m.type] = m.frame + 1]
          /\ close' = [close EXCEPT ![m.to] =
               @ /\ m.frame = next[m.to][m.type] /\ WithinSkew(m.to, m.type, m.frame)]
          /\ UNCHANGED <<up, collected, session>>
    BY <1>2 DEF PushNext
  <2>2. /\ m \in Push /\ m.type \in Conds(m.to)
        /\ next[m.to][m.type] =< m.frame
    BY <1>0 DEF PipelineInv, Together, PushesReady
  <2>3. CASE m.to = "AE"
    <3>1. m.frame \in next["AE"][m.type]..MaxFrame
      BY <2>2, <2>3, <1>0, Constants DEF Push, GroupTypeOK
    <3>2. WithinSkew(m.to, m.type, m.frame) <=> Ae!WithinSkew(m.type, m.frame)
      BY <2>2, <2>3, GroupConstants DEF WithinSkew, Ae!WithinSkew
    <3>3. Ae!Publish(m.type)
      BY <2>1, <2>2, <2>3, <3>1, <3>2, <1>0 DEF Ae!Publish, Shape, collected, Ae!history
    <3>4. QED
      BY <3>3, <2>2, <2>3 DEF Ae!Next
  <2>4. CASE m.to /= "AE"
    BY <2>1, <2>4, <1>0 DEF Shape, collected, Ae!vars
  <2>5. QED
    BY <2>3, <2>4
<1>3. ASSUME NEW g \in Groups, NEW m, Pop(g, m), g /= "AE",
             UNCHANGED <<pending["AE"], analysed["AE"], lost["AE"]>>
      PROVE  UNCHANGED Ae!vars
  BY <1>0, <1>3 DEF Pop, Shape, published, Ae!vars
<1>4. ASSUME NEW m \in Range(queue["AE"]), Pop("AE", m)
      PROVE  /\ Ae!Pop(m) /\ Ae!UserId(m) = UserId(m) /\ Ae!Collect(m) = Collect("AE", m)
             /\ Ae!Complete(Ae!Collect(m)[Ae!UserId(m)]) <=> Complete("AE", Collect("AE", m)[UserId(m)])
  <2>1. m \in Message("AE")
    BY <1>0 DEF GroupTypeOK, Range
  <2>2. Ae!UserId(m) = UserId(m)
    BY <2>1, GroupConstants DEF Message, UserId, Ae!UserId
  <2>3. Ae!Pop(m)
    BY <1>0, <1>4, <2>1, <2>2 DEF Pop, Ae!Pop, Shape, published
  <2>4. QED
    BY <2>2, <2>3 DEF Ae!Collect, Collect, Ae!Filed, Filed, Ae!Complete, Complete, Ae!Types
<1>5. ASSUME NEW g \in Groups, Analyse(g) PROVE Ae!Next \/ UNCHANGED Ae!vars
  <2>1. PICK m \in Range(queue[g]) :
          LET id == UserId(m)  map == Collect(g, m)
          IN  /\ Pop(g, m)
              /\ Complete(g, map[id])
              /\ pending' = [pending EXCEPT ![g] = Restrict(map, {i \in DOMAIN @ : i > id})]
              /\ analysed' = [analysed EXCEPT ![g] = @ \cup {id}]
              /\ UNCHANGED lost
    BY <1>5 DEF Analyse
  <2>2. CASE g = "AE"
    <3>1. /\ Ae!Pop(m) /\ Ae!UserId(m) = UserId(m) /\ Ae!Collect(m) = Collect("AE", m)
          /\ Ae!Complete(Ae!Collect(m)[Ae!UserId(m)])
      BY <2>1, <2>2, <1>4
    <3>2. /\ pending["AE"]' = Ae!Restrict(Ae!Collect(m), {i \in DOMAIN pending["AE"] : i > Ae!UserId(m)})
          /\ analysed["AE"]' = analysed["AE"] \cup {Ae!UserId(m)} /\ lost["AE"]' = lost["AE"]
      BY <2>1, <2>2, <3>1, <1>0 DEF Shape, Ae!Restrict, Restrict
    <3>3. m \in Ae!Range(queue["AE"])
      BY <2>2 DEF Range, Ae!Range
    <3>4. QED
      BY <3>1, <3>2, <3>3 DEF Ae!Analyse, Ae!Next
  <2>3. CASE g /= "AE"
    <3>1. Pop(g, m) /\ UNCHANGED <<pending["AE"], analysed["AE"], lost["AE"]>>
      BY <2>1, <2>3, <1>0 DEF Shape
    <3>2. QED
      BY <3>1, <2>3, <1>3
  <2>4. QED
    BY <2>2, <2>3
<1>6. ASSUME NEW g \in Groups, Store(g) PROVE Ae!Next \/ UNCHANGED Ae!vars
  <2>1. PICK m \in Range(queue[g]) :
          LET map == Collect(g, m)  dropped == Dropped(DOMAIN map, MaxPending, KeepPending)
          IN  /\ Pop(g, m)
              /\ ~Complete(g, map[UserId(m)])
              /\ pending' = [pending EXCEPT ![g] = Restrict(map, DOMAIN map \ dropped)]
              /\ lost' = [lost EXCEPT ![g] = @ \cup dropped]
              /\ UNCHANGED analysed
    BY <1>6 DEF Store
  <2>2. CASE g = "AE"
    <3>1. /\ Ae!Pop(m) /\ Ae!UserId(m) = UserId(m) /\ Ae!Collect(m) = Collect("AE", m)
          /\ ~Ae!Complete(Ae!Collect(m)[Ae!UserId(m)])
      BY <2>1, <2>2, <1>4
    <3> DEFINE ids == DOMAIN Ae!Collect(m)
    <3>2. Ae!Reduced(ids) = Dropped(ids, MaxPending, KeepPending)
      <4>1. \A T : Ae!Cardinality(T) = Cardinality(T)
        BY DEF Ae!Cardinality, Cardinality
      <4>2. QED
        BY <4>1 DEF Ae!Reduced, Ae!Dropped, Dropped
    <3>3. /\ pending["AE"]' = Ae!Restrict(Ae!Collect(m), ids \ Ae!Reduced(ids))
          /\ lost["AE"]' = lost["AE"] \cup Ae!Reduced(ids) /\ analysed["AE"]' = analysed["AE"]
      BY <2>1, <2>2, <3>1, <3>2, <1>0 DEF Shape, Ae!Restrict, Restrict
    <3>4. m \in Ae!Range(queue["AE"])
      BY <2>2 DEF Range, Ae!Range
    <3>5. QED
      BY <3>1, <3>3, <3>4 DEF Ae!Store, Ae!Next
  <2>3. CASE g /= "AE"
    <3>1. Pop(g, m) /\ UNCHANGED <<pending["AE"], analysed["AE"], lost["AE"]>>
      BY <2>1, <2>3, <1>0 DEF Shape
    <3>2. QED
      BY <3>1, <2>3, <1>3
  <2>4. QED
    BY <2>2, <2>3
<1>7. CASE Start
  <2>1. Ae!Start
    BY <1>7 DEF Start, Ae!Start
  <2>2. QED
    BY <2>1 DEF Ae!Next
<1>8. ASSUME NEW g \in Groups, Stop(g) PROVE Ae!Next \/ UNCHANGED Ae!vars
  <2>1. CASE g = "AE"
    <3>1. Ae!Stop
      BY <1>8, <2>1, <1>0 DEF Stop, Ae!Stop, Ae!Empty, Ae!history, Shape, published
    <3>2. QED
      BY <3>1 DEF Ae!Next
  <2>2. CASE g /= "AE"
    BY <1>8, <2>2, <1>0 DEF Stop, Ae!vars, Shape, published
  <2>3. QED
    BY <2>1, <2>2
<1>9. CASE UNCHANGED vars
  BY <1>9 DEF vars, collected, published, Ae!vars
<1>10. QED
  BY <1>1, <1>2, <1>5, <1>6, <1>7, <1>8, <1>9 DEF Next, Work, Handle

\* A step of the groups together is one of the AWB group, or leaves it alone.
LEMMA AwbStep ==
  ASSUME PipelineInv, [Next]_vars
  PROVE  Awb!Next \/ UNCHANGED Awb!vars
<1> USE "AWB" \in Groups DEF Groups
<1>0. Shape /\ TypeOK /\ GroupTypeOK("AWB") /\ todo \in [Threads -> SUBSET Push]
  BY GroupTypes DEF PipelineInv, Together, OwnTypes
<1>1. CASE Sof \/ Stats \/ StopSensor
  BY <1>1 DEF Sof, Stats, Serve, StopSensor, published, collected, Awb!vars, Awb!history
<1>2. ASSUME NEW a \in Threads, PushNext(a) PROVE Awb!Next \/ UNCHANGED Awb!vars
  <2>1. PICK m \in todo[a] :
          /\ Len(queue[m.to]) < MaxQueue
          /\ queue' = [queue EXCEPT ![m.to] =
               Append(@, [type |-> m.type, frame |-> m.frame, session |-> session])]
          /\ next' = [next EXCEPT ![m.to][m.type] = m.frame + 1]
          /\ close' = [close EXCEPT ![m.to] =
               @ /\ m.frame = next[m.to][m.type] /\ WithinSkew(m.to, m.type, m.frame)]
          /\ UNCHANGED <<up, collected, session>>
    BY <1>2 DEF PushNext
  <2>2. /\ m \in Push /\ m.type \in Conds(m.to)
        /\ next[m.to][m.type] =< m.frame
    BY <1>0 DEF PipelineInv, Together, PushesReady
  <2>3. CASE m.to = "AWB"
    <3>1. m.frame \in next["AWB"][m.type]..MaxFrame
      BY <2>2, <2>3, <1>0, Constants DEF Push, GroupTypeOK
    <3>2. WithinSkew(m.to, m.type, m.frame) <=> Awb!WithinSkew(m.type, m.frame)
      BY <2>2, <2>3, GroupConstants DEF WithinSkew, Awb!WithinSkew
    <3>3. Awb!Publish(m.type)
      BY <2>1, <2>2, <2>3, <3>1, <3>2, <1>0 DEF Awb!Publish, Shape, collected, Awb!history
    <3>4. QED
      BY <3>3, <2>2, <2>3 DEF Awb!Next
  <2>4. CASE m.to /= "AWB"
    BY <2>1, <2>4, <1>0 DEF Shape, collected, Awb!vars
  <2>5. QED
    BY <2>3, <2>4
<1>3. ASSUME NEW g \in Groups, NEW m, Pop(g, m), g /= "AWB",
             UNCHANGED <<pending["AWB"], analysed["AWB"], lost["AWB"]>>
      PROVE  UNCHANGED Awb!vars
  BY <1>0, <1>3 DEF Pop, Shape, published, Awb!vars
<1>4. ASSUME NEW m \in Range(queue["AWB"]), Pop("AWB", m)
      PROVE  /\ Awb!Pop(m) /\ Awb!UserId(m) = UserId(m) /\ Awb!Collect(m) = Collect("AWB", m)
             /\ Awb!Complete(Awb!Collect(m)[Awb!UserId(m)]) <=> Complete("AWB", Collect("AWB", m)[UserId(m)])
  <2>1. m \in Message("AWB")
    BY <1>0 DEF GroupTypeOK, Range
  <2>2. Awb!UserId(m) = UserId(m)
    BY <2>1, GroupConstants DEF Message, UserId, Awb!UserId
  <2>3. Awb!Pop(m)
    BY <1>0, <1>4, <2>1, <2>2 DEF Pop, Awb!Pop, Shape, published
  <2>4. QED
    BY <2>2, <2>3 DEF Awb!Collect, Collect, Awb!Filed, Filed, Awb!Complete, Complete, Awb!Types
<1>5. ASSUME NEW g \in Groups, Analyse(g) PROVE Awb!Next \/ UNCHANGED Awb!vars
  <2>1. PICK m \in Range(queue[g]) :
          LET id == UserId(m)  map == Collect(g, m)
          IN  /\ Pop(g, m)
              /\ Complete(g, map[id])
              /\ pending' = [pending EXCEPT ![g] = Restrict(map, {i \in DOMAIN @ : i > id})]
              /\ analysed' = [analysed EXCEPT ![g] = @ \cup {id}]
              /\ UNCHANGED lost
    BY <1>5 DEF Analyse
  <2>2. CASE g = "AWB"
    <3>1. /\ Awb!Pop(m) /\ Awb!UserId(m) = UserId(m) /\ Awb!Collect(m) = Collect("AWB", m)
          /\ Awb!Complete(Awb!Collect(m)[Awb!UserId(m)])
      BY <2>1, <2>2, <1>4
    <3>2. /\ pending["AWB"]' = Awb!Restrict(Awb!Collect(m), {i \in DOMAIN pending["AWB"] : i > Awb!UserId(m)})
          /\ analysed["AWB"]' = analysed["AWB"] \cup {Awb!UserId(m)} /\ lost["AWB"]' = lost["AWB"]
      BY <2>1, <2>2, <3>1, <1>0 DEF Shape, Awb!Restrict, Restrict
    <3>3. m \in Awb!Range(queue["AWB"])
      BY <2>2 DEF Range, Awb!Range
    <3>4. QED
      BY <3>1, <3>2, <3>3 DEF Awb!Analyse, Awb!Next
  <2>3. CASE g /= "AWB"
    <3>1. Pop(g, m) /\ UNCHANGED <<pending["AWB"], analysed["AWB"], lost["AWB"]>>
      BY <2>1, <2>3, <1>0 DEF Shape
    <3>2. QED
      BY <3>1, <2>3, <1>3
  <2>4. QED
    BY <2>2, <2>3
<1>6. ASSUME NEW g \in Groups, Store(g) PROVE Awb!Next \/ UNCHANGED Awb!vars
  <2>1. PICK m \in Range(queue[g]) :
          LET map == Collect(g, m)  dropped == Dropped(DOMAIN map, MaxPending, KeepPending)
          IN  /\ Pop(g, m)
              /\ ~Complete(g, map[UserId(m)])
              /\ pending' = [pending EXCEPT ![g] = Restrict(map, DOMAIN map \ dropped)]
              /\ lost' = [lost EXCEPT ![g] = @ \cup dropped]
              /\ UNCHANGED analysed
    BY <1>6 DEF Store
  <2>2. CASE g = "AWB"
    <3>1. /\ Awb!Pop(m) /\ Awb!UserId(m) = UserId(m) /\ Awb!Collect(m) = Collect("AWB", m)
          /\ ~Awb!Complete(Awb!Collect(m)[Awb!UserId(m)])
      BY <2>1, <2>2, <1>4
    <3> DEFINE ids == DOMAIN Awb!Collect(m)
    <3>2. Awb!Reduced(ids) = Dropped(ids, MaxPending, KeepPending)
      <4>1. \A T : Awb!Cardinality(T) = Cardinality(T)
        BY DEF Awb!Cardinality, Cardinality
      <4>2. QED
        BY <4>1 DEF Awb!Reduced, Awb!Dropped, Dropped
    <3>3. /\ pending["AWB"]' = Awb!Restrict(Awb!Collect(m), ids \ Awb!Reduced(ids))
          /\ lost["AWB"]' = lost["AWB"] \cup Awb!Reduced(ids) /\ analysed["AWB"]' = analysed["AWB"]
      BY <2>1, <2>2, <3>1, <3>2, <1>0 DEF Shape, Awb!Restrict, Restrict
    <3>4. m \in Awb!Range(queue["AWB"])
      BY <2>2 DEF Range, Awb!Range
    <3>5. QED
      BY <3>1, <3>3, <3>4 DEF Awb!Store, Awb!Next
  <2>3. CASE g /= "AWB"
    <3>1. Pop(g, m) /\ UNCHANGED <<pending["AWB"], analysed["AWB"], lost["AWB"]>>
      BY <2>1, <2>3, <1>0 DEF Shape
    <3>2. QED
      BY <3>1, <2>3, <1>3
  <2>4. QED
    BY <2>2, <2>3
<1>7. CASE Start
  <2>1. Awb!Start
    BY <1>7 DEF Start, Awb!Start
  <2>2. QED
    BY <2>1 DEF Awb!Next
<1>8. ASSUME NEW g \in Groups, Stop(g) PROVE Awb!Next \/ UNCHANGED Awb!vars
  <2>1. CASE g = "AWB"
    <3>1. Awb!Stop
      BY <1>8, <2>1, <1>0 DEF Stop, Awb!Stop, Awb!Empty, Awb!history, Shape, published
    <3>2. QED
      BY <3>1 DEF Awb!Next
  <2>2. CASE g /= "AWB"
    BY <1>8, <2>2, <1>0 DEF Stop, Awb!vars, Shape, published
  <2>3. QED
    BY <2>1, <2>2
<1>9. CASE UNCHANGED vars
  BY <1>9 DEF vars, collected, published, Awb!vars
<1>10. QED
  BY <1>1, <1>2, <1>5, <1>6, <1>7, <1>8, <1>9 DEF Next, Work, Handle

\* A step of the groups together is one of the GRP0 group, or leaves it alone.
LEMMA Grp0Step ==
  ASSUME PipelineInv, [Next]_vars
  PROVE  Grp0!Next \/ UNCHANGED Grp0!vars
<1> USE "GRP0" \in Groups DEF Groups
<1>0. Shape /\ TypeOK /\ GroupTypeOK("GRP0") /\ todo \in [Threads -> SUBSET Push]
  BY GroupTypes DEF PipelineInv, Together, OwnTypes
<1>1. CASE Sof \/ Stats \/ StopSensor
  BY <1>1 DEF Sof, Stats, Serve, StopSensor, published, collected, Grp0!vars, Grp0!history
<1>2. ASSUME NEW a \in Threads, PushNext(a) PROVE Grp0!Next \/ UNCHANGED Grp0!vars
  <2>1. PICK m \in todo[a] :
          /\ Len(queue[m.to]) < MaxQueue
          /\ queue' = [queue EXCEPT ![m.to] =
               Append(@, [type |-> m.type, frame |-> m.frame, session |-> session])]
          /\ next' = [next EXCEPT ![m.to][m.type] = m.frame + 1]
          /\ close' = [close EXCEPT ![m.to] =
               @ /\ m.frame = next[m.to][m.type] /\ WithinSkew(m.to, m.type, m.frame)]
          /\ UNCHANGED <<up, collected, session>>
    BY <1>2 DEF PushNext
  <2>2. /\ m \in Push /\ m.type \in Conds(m.to)
        /\ next[m.to][m.type] =< m.frame
    BY <1>0 DEF PipelineInv, Together, PushesReady
  <2>3. CASE m.to = "GRP0"
    <3>1. m.frame \in next["GRP0"][m.type]..MaxFrame
      BY <2>2, <2>3, <1>0, Constants DEF Push, GroupTypeOK
    <3>2. WithinSkew(m.to, m.type, m.frame) <=> Grp0!WithinSkew(m.type, m.frame)
      BY <2>2, <2>3, GroupConstants DEF WithinSkew, Grp0!WithinSkew
    <3>3. Grp0!Publish(m.type)
      BY <2>1, <2>2, <2>3, <3>1, <3>2, <1>0 DEF Grp0!Publish, Shape, collected, Grp0!history
    <3>4. QED
      BY <3>3, <2>2, <2>3 DEF Grp0!Next
  <2>4. CASE m.to /= "GRP0"
    BY <2>1, <2>4, <1>0 DEF Shape, collected, Grp0!vars
  <2>5. QED
    BY <2>3, <2>4
<1>3. ASSUME NEW g \in Groups, NEW m, Pop(g, m), g /= "GRP0",
             UNCHANGED <<pending["GRP0"], analysed["GRP0"], lost["GRP0"]>>
      PROVE  UNCHANGED Grp0!vars
  BY <1>0, <1>3 DEF Pop, Shape, published, Grp0!vars
<1>4. ASSUME NEW m \in Range(queue["GRP0"]), Pop("GRP0", m)
      PROVE  /\ Grp0!Pop(m) /\ Grp0!UserId(m) = UserId(m) /\ Grp0!Collect(m) = Collect("GRP0", m)
             /\ Grp0!Complete(Grp0!Collect(m)[Grp0!UserId(m)]) <=> Complete("GRP0", Collect("GRP0", m)[UserId(m)])
  <2>1. m \in Message("GRP0")
    BY <1>0 DEF GroupTypeOK, Range
  <2>2. Grp0!UserId(m) = UserId(m)
    BY <2>1, GroupConstants DEF Message, UserId, Grp0!UserId
  <2>3. Grp0!Pop(m)
    BY <1>0, <1>4, <2>1, <2>2 DEF Pop, Grp0!Pop, Shape, published
  <2>4. QED
    BY <2>2, <2>3 DEF Grp0!Collect, Collect, Grp0!Filed, Filed, Grp0!Complete, Complete, Grp0!Types
<1>5. ASSUME NEW g \in Groups, Analyse(g) PROVE Grp0!Next \/ UNCHANGED Grp0!vars
  <2>1. PICK m \in Range(queue[g]) :
          LET id == UserId(m)  map == Collect(g, m)
          IN  /\ Pop(g, m)
              /\ Complete(g, map[id])
              /\ pending' = [pending EXCEPT ![g] = Restrict(map, {i \in DOMAIN @ : i > id})]
              /\ analysed' = [analysed EXCEPT ![g] = @ \cup {id}]
              /\ UNCHANGED lost
    BY <1>5 DEF Analyse
  <2>2. CASE g = "GRP0"
    <3>1. /\ Grp0!Pop(m) /\ Grp0!UserId(m) = UserId(m) /\ Grp0!Collect(m) = Collect("GRP0", m)
          /\ Grp0!Complete(Grp0!Collect(m)[Grp0!UserId(m)])
      BY <2>1, <2>2, <1>4
    <3>2. /\ pending["GRP0"]' = Grp0!Restrict(Grp0!Collect(m), {i \in DOMAIN pending["GRP0"] : i > Grp0!UserId(m)})
          /\ analysed["GRP0"]' = analysed["GRP0"] \cup {Grp0!UserId(m)} /\ lost["GRP0"]' = lost["GRP0"]
      BY <2>1, <2>2, <3>1, <1>0 DEF Shape, Grp0!Restrict, Restrict
    <3>3. m \in Grp0!Range(queue["GRP0"])
      BY <2>2 DEF Range, Grp0!Range
    <3>4. QED
      BY <3>1, <3>2, <3>3 DEF Grp0!Analyse, Grp0!Next
  <2>3. CASE g /= "GRP0"
    <3>1. Pop(g, m) /\ UNCHANGED <<pending["GRP0"], analysed["GRP0"], lost["GRP0"]>>
      BY <2>1, <2>3, <1>0 DEF Shape
    <3>2. QED
      BY <3>1, <2>3, <1>3
  <2>4. QED
    BY <2>2, <2>3
<1>6. ASSUME NEW g \in Groups, Store(g) PROVE Grp0!Next \/ UNCHANGED Grp0!vars
  <2>1. PICK m \in Range(queue[g]) :
          LET map == Collect(g, m)  dropped == Dropped(DOMAIN map, MaxPending, KeepPending)
          IN  /\ Pop(g, m)
              /\ ~Complete(g, map[UserId(m)])
              /\ pending' = [pending EXCEPT ![g] = Restrict(map, DOMAIN map \ dropped)]
              /\ lost' = [lost EXCEPT ![g] = @ \cup dropped]
              /\ UNCHANGED analysed
    BY <1>6 DEF Store
  <2>2. CASE g = "GRP0"
    <3>1. /\ Grp0!Pop(m) /\ Grp0!UserId(m) = UserId(m) /\ Grp0!Collect(m) = Collect("GRP0", m)
          /\ ~Grp0!Complete(Grp0!Collect(m)[Grp0!UserId(m)])
      BY <2>1, <2>2, <1>4
    <3> DEFINE ids == DOMAIN Grp0!Collect(m)
    <3>2. Grp0!Reduced(ids) = Dropped(ids, MaxPending, KeepPending)
      <4>1. \A T : Grp0!Cardinality(T) = Cardinality(T)
        BY DEF Grp0!Cardinality, Cardinality
      <4>2. QED
        BY <4>1 DEF Grp0!Reduced, Grp0!Dropped, Dropped
    <3>3. /\ pending["GRP0"]' = Grp0!Restrict(Grp0!Collect(m), ids \ Grp0!Reduced(ids))
          /\ lost["GRP0"]' = lost["GRP0"] \cup Grp0!Reduced(ids) /\ analysed["GRP0"]' = analysed["GRP0"]
      BY <2>1, <2>2, <3>1, <3>2, <1>0 DEF Shape, Grp0!Restrict, Restrict
    <3>4. m \in Grp0!Range(queue["GRP0"])
      BY <2>2 DEF Range, Grp0!Range
    <3>5. QED
      BY <3>1, <3>3, <3>4 DEF Grp0!Store, Grp0!Next
  <2>3. CASE g /= "GRP0"
    <3>1. Pop(g, m) /\ UNCHANGED <<pending["GRP0"], analysed["GRP0"], lost["GRP0"]>>
      BY <2>1, <2>3, <1>0 DEF Shape
    <3>2. QED
      BY <3>1, <2>3, <1>3
  <2>4. QED
    BY <2>2, <2>3
<1>7. CASE Start
  <2>1. Grp0!Start
    BY <1>7 DEF Start, Grp0!Start
  <2>2. QED
    BY <2>1 DEF Grp0!Next
<1>8. ASSUME NEW g \in Groups, Stop(g) PROVE Grp0!Next \/ UNCHANGED Grp0!vars
  <2>1. CASE g = "GRP0"
    <3>1. Grp0!Stop
      BY <1>8, <2>1, <1>0 DEF Stop, Grp0!Stop, Grp0!Empty, Grp0!history, Shape, published
    <3>2. QED
      BY <3>1 DEF Grp0!Next
  <2>2. CASE g /= "GRP0"
    BY <1>8, <2>2, <1>0 DEF Stop, Grp0!vars, Shape, published
  <2>3. QED
    BY <2>1, <2>2
<1>9. CASE UNCHANGED vars
  BY <1>9 DEF vars, collected, published, Grp0!vars
<1>10. QED
  BY <1>1, <1>2, <1>5, <1>6, <1>7, <1>8, <1>9 DEF Next, Work, Handle

\* A step of the groups together is one of the GRP1 group, or leaves it alone.
LEMMA Grp1Step ==
  ASSUME PipelineInv, [Next]_vars
  PROVE  Grp1!Next \/ UNCHANGED Grp1!vars
<1> USE "GRP1" \in Groups DEF Groups
<1>0. Shape /\ TypeOK /\ GroupTypeOK("GRP1") /\ todo \in [Threads -> SUBSET Push]
  BY GroupTypes DEF PipelineInv, Together, OwnTypes
<1>1. CASE Sof \/ Stats \/ StopSensor
  BY <1>1 DEF Sof, Stats, Serve, StopSensor, published, collected, Grp1!vars, Grp1!history
<1>2. ASSUME NEW a \in Threads, PushNext(a) PROVE Grp1!Next \/ UNCHANGED Grp1!vars
  <2>1. PICK m \in todo[a] :
          /\ Len(queue[m.to]) < MaxQueue
          /\ queue' = [queue EXCEPT ![m.to] =
               Append(@, [type |-> m.type, frame |-> m.frame, session |-> session])]
          /\ next' = [next EXCEPT ![m.to][m.type] = m.frame + 1]
          /\ close' = [close EXCEPT ![m.to] =
               @ /\ m.frame = next[m.to][m.type] /\ WithinSkew(m.to, m.type, m.frame)]
          /\ UNCHANGED <<up, collected, session>>
    BY <1>2 DEF PushNext
  <2>2. /\ m \in Push /\ m.type \in Conds(m.to)
        /\ next[m.to][m.type] =< m.frame
    BY <1>0 DEF PipelineInv, Together, PushesReady
  <2>3. CASE m.to = "GRP1"
    <3>1. m.frame \in next["GRP1"][m.type]..MaxFrame
      BY <2>2, <2>3, <1>0, Constants DEF Push, GroupTypeOK
    <3>2. WithinSkew(m.to, m.type, m.frame) <=> Grp1!WithinSkew(m.type, m.frame)
      BY <2>2, <2>3, GroupConstants DEF WithinSkew, Grp1!WithinSkew
    <3>3. Grp1!Publish(m.type)
      BY <2>1, <2>2, <2>3, <3>1, <3>2, <1>0 DEF Grp1!Publish, Shape, collected, Grp1!history
    <3>4. QED
      BY <3>3, <2>2, <2>3 DEF Grp1!Next
  <2>4. CASE m.to /= "GRP1"
    BY <2>1, <2>4, <1>0 DEF Shape, collected, Grp1!vars
  <2>5. QED
    BY <2>3, <2>4
<1>3. ASSUME NEW g \in Groups, NEW m, Pop(g, m), g /= "GRP1",
             UNCHANGED <<pending["GRP1"], analysed["GRP1"], lost["GRP1"]>>
      PROVE  UNCHANGED Grp1!vars
  BY <1>0, <1>3 DEF Pop, Shape, published, Grp1!vars
<1>4. ASSUME NEW m \in Range(queue["GRP1"]), Pop("GRP1", m)
      PROVE  /\ Grp1!Pop(m) /\ Grp1!UserId(m) = UserId(m) /\ Grp1!Collect(m) = Collect("GRP1", m)
             /\ Grp1!Complete(Grp1!Collect(m)[Grp1!UserId(m)]) <=> Complete("GRP1", Collect("GRP1", m)[UserId(m)])
  <2>1. m \in Message("GRP1")
    BY <1>0 DEF GroupTypeOK, Range
  <2>2. Grp1!UserId(m) = UserId(m)
    BY <2>1, GroupConstants DEF Message, UserId, Grp1!UserId
  <2>3. Grp1!Pop(m)
    BY <1>0, <1>4, <2>1, <2>2 DEF Pop, Grp1!Pop, Shape, published
  <2>4. QED
    BY <2>2, <2>3 DEF Grp1!Collect, Collect, Grp1!Filed, Filed, Grp1!Complete, Complete, Grp1!Types
<1>5. ASSUME NEW g \in Groups, Analyse(g) PROVE Grp1!Next \/ UNCHANGED Grp1!vars
  <2>1. PICK m \in Range(queue[g]) :
          LET id == UserId(m)  map == Collect(g, m)
          IN  /\ Pop(g, m)
              /\ Complete(g, map[id])
              /\ pending' = [pending EXCEPT ![g] = Restrict(map, {i \in DOMAIN @ : i > id})]
              /\ analysed' = [analysed EXCEPT ![g] = @ \cup {id}]
              /\ UNCHANGED lost
    BY <1>5 DEF Analyse
  <2>2. CASE g = "GRP1"
    <3>1. /\ Grp1!Pop(m) /\ Grp1!UserId(m) = UserId(m) /\ Grp1!Collect(m) = Collect("GRP1", m)
          /\ Grp1!Complete(Grp1!Collect(m)[Grp1!UserId(m)])
      BY <2>1, <2>2, <1>4
    <3>2. /\ pending["GRP1"]' = Grp1!Restrict(Grp1!Collect(m), {i \in DOMAIN pending["GRP1"] : i > Grp1!UserId(m)})
          /\ analysed["GRP1"]' = analysed["GRP1"] \cup {Grp1!UserId(m)} /\ lost["GRP1"]' = lost["GRP1"]
      BY <2>1, <2>2, <3>1, <1>0 DEF Shape, Grp1!Restrict, Restrict
    <3>3. m \in Grp1!Range(queue["GRP1"])
      BY <2>2 DEF Range, Grp1!Range
    <3>4. QED
      BY <3>1, <3>2, <3>3 DEF Grp1!Analyse, Grp1!Next
  <2>3. CASE g /= "GRP1"
    <3>1. Pop(g, m) /\ UNCHANGED <<pending["GRP1"], analysed["GRP1"], lost["GRP1"]>>
      BY <2>1, <2>3, <1>0 DEF Shape
    <3>2. QED
      BY <3>1, <2>3, <1>3
  <2>4. QED
    BY <2>2, <2>3
<1>6. ASSUME NEW g \in Groups, Store(g) PROVE Grp1!Next \/ UNCHANGED Grp1!vars
  <2>1. PICK m \in Range(queue[g]) :
          LET map == Collect(g, m)  dropped == Dropped(DOMAIN map, MaxPending, KeepPending)
          IN  /\ Pop(g, m)
              /\ ~Complete(g, map[UserId(m)])
              /\ pending' = [pending EXCEPT ![g] = Restrict(map, DOMAIN map \ dropped)]
              /\ lost' = [lost EXCEPT ![g] = @ \cup dropped]
              /\ UNCHANGED analysed
    BY <1>6 DEF Store
  <2>2. CASE g = "GRP1"
    <3>1. /\ Grp1!Pop(m) /\ Grp1!UserId(m) = UserId(m) /\ Grp1!Collect(m) = Collect("GRP1", m)
          /\ ~Grp1!Complete(Grp1!Collect(m)[Grp1!UserId(m)])
      BY <2>1, <2>2, <1>4
    <3> DEFINE ids == DOMAIN Grp1!Collect(m)
    <3>2. Grp1!Reduced(ids) = Dropped(ids, MaxPending, KeepPending)
      <4>1. \A T : Grp1!Cardinality(T) = Cardinality(T)
        BY DEF Grp1!Cardinality, Cardinality
      <4>2. QED
        BY <4>1 DEF Grp1!Reduced, Grp1!Dropped, Dropped
    <3>3. /\ pending["GRP1"]' = Grp1!Restrict(Grp1!Collect(m), ids \ Grp1!Reduced(ids))
          /\ lost["GRP1"]' = lost["GRP1"] \cup Grp1!Reduced(ids) /\ analysed["GRP1"]' = analysed["GRP1"]
      BY <2>1, <2>2, <3>1, <3>2, <1>0 DEF Shape, Grp1!Restrict, Restrict
    <3>4. m \in Grp1!Range(queue["GRP1"])
      BY <2>2 DEF Range, Grp1!Range
    <3>5. QED
      BY <3>1, <3>3, <3>4 DEF Grp1!Store, Grp1!Next
  <2>3. CASE g /= "GRP1"
    <3>1. Pop(g, m) /\ UNCHANGED <<pending["GRP1"], analysed["GRP1"], lost["GRP1"]>>
      BY <2>1, <2>3, <1>0 DEF Shape
    <3>2. QED
      BY <3>1, <2>3, <1>3
  <2>4. QED
    BY <2>2, <2>3
<1>7. CASE Start
  <2>1. Grp1!Start
    BY <1>7 DEF Start, Grp1!Start
  <2>2. QED
    BY <2>1 DEF Grp1!Next
<1>8. ASSUME NEW g \in Groups, Stop(g) PROVE Grp1!Next \/ UNCHANGED Grp1!vars
  <2>1. CASE g = "GRP1"
    <3>1. Grp1!Stop
      BY <1>8, <2>1, <1>0 DEF Stop, Grp1!Stop, Grp1!Empty, Grp1!history, Shape, published
    <3>2. QED
      BY <3>1 DEF Grp1!Next
  <2>2. CASE g /= "GRP1"
    BY <1>8, <2>2, <1>0 DEF Stop, Grp1!vars, Shape, published
  <2>3. QED
    BY <2>1, <2>2
<1>9. CASE UNCHANGED vars
  BY <1>9 DEF vars, collected, published, Grp1!vars
<1>10. QED
  BY <1>1, <1>2, <1>5, <1>6, <1>7, <1>8, <1>9 DEF Next, Work, Handle

-----------------------------------------------------------------------------
(* What the proofs of AnalyzerGroup say of each group *)

\* What the invariant says of the AE group.
LEMMA AeKnown ==
  ASSUME PipelineInv
  PROVE  /\ \A t \in Conds("AE") : analysed["AE"] \subseteq arrived["AE"][t]
         /\ \A k \in DOMAIN queue["AE"] : \A i \in arrived["AE"][queue["AE"][k].type] :
              i < UserId(queue["AE"][k])
         /\ \A i \in Nat :
              (\A t \in Conds("AE") : i \in arrived["AE"][t]) => i \in analysed["AE"] \cup lost["AE"]
<1>1. AeP!GroupInv /\ GroupTypeOK("AE")
  BY GroupTypes DEF PipelineInv, EachInv, Groups
<1>2. \A m \in Message("AE") : AeP!UserId(m) = UserId(m)
  BY GroupConstants, "AE" \in Groups DEF Groups, Message, UserId, AeP!UserId
<1>3. \A k \in DOMAIN queue["AE"] : queue["AE"][k] \in Message("AE")
  BY <1>1 DEF GroupTypeOK
<1>4. Conds("AE") /= {}
  BY Tables DEF Groups
<1>5. QED
  BY <1>1, <1>2, <1>3, <1>4 DEF AeP!GroupInv, AeP!AnalysedArrived, AeP!InputInOrder, AeP!CompleteIsAnalysed

\* The AE group starts as AnalyzerGroup does.
LEMMA AeStarts == Init => Ae!Init /\ Ae!TypeOK /\ AeP!GroupInv
<1> SUFFICES ASSUME Init PROVE Ae!Init /\ Ae!TypeOK /\ AeP!GroupInv
  OBVIOUS
<1>1. Ae!Init
  BY DEF Init, Ae!Init, Ae!Empty, Groups
<1>2. AeP!Init
  BY <1>1, AeSame
<1>3. AeP!TypeOK /\ AeP!GroupInv
  BY <1>2, AeP!TypeInit, AeP!GroupInvInit, AeAssumption DEF AeP!GroupAssumption
<1>4. QED
  BY <1>1, <1>3, AeSame

\* The AE group keeps its types and the invariant of a group, and analyses in order.
LEMMA AeKeeps ==
  ASSUME PipelineInv, [Next]_vars
  PROVE  /\ Ae!TypeOK' /\ AeP!GroupInv'
         /\ [\A i \in analysed["AE"]' \ analysed["AE"], j \in analysed["AE"] : i > j]_(Ae!vars)
         /\ \A t \in Conds("AE") : analysed'["AE"] \subseteq arrived'["AE"][t]
<1>1. [AeP!Next]_(AeP!vars) /\ AeP!TypeOK /\ AeP!GroupInv
  BY AeStep, AeSame DEF PipelineInv, EachInv, TypeOK, Ae!vars, AeP!vars
<1>2. AeP!TypeOK'
  BY <1>1, AeP!TypeStep, AeAssumption DEF AeP!GroupAssumption
<1>3. AeP!GroupInv'
  BY <1>1, AeP!GroupStep, AeAssumption DEF AeP!GroupAssumption
<1>4. Ae!TypeOK'
  <2>1. (AeP!TypeOK <=> Ae!TypeOK)'
    BY DEF Ae!TypeOK, AeP!TypeOK, Ae!Message, AeP!Message
  <2>2. QED
    BY <1>2, <2>1
<1>5. [\A i \in analysed["AE"]' \ analysed["AE"], j \in analysed["AE"] : i > j]_(Ae!vars)
  BY <1>1, AeP!OrderStep, AeAssumption DEF AeP!GroupAssumption, Ae!vars, AeP!vars
<1>6. QED
  BY <1>3, <1>4, <1>5 DEF AeP!GroupInv, AeP!AnalysedArrived

\* What the invariant says of the AWB group.
LEMMA AwbKnown ==
  ASSUME PipelineInv
  PROVE  /\ \A t \in Conds("AWB") : analysed["AWB"] \subseteq arrived["AWB"][t]
         /\ \A k \in DOMAIN queue["AWB"] : \A i \in arrived["AWB"][queue["AWB"][k].type] :
              i < UserId(queue["AWB"][k])
         /\ \A i \in Nat :
              (\A t \in Conds("AWB") : i \in arrived["AWB"][t]) => i \in analysed["AWB"] \cup lost["AWB"]
<1>1. AwbP!GroupInv /\ GroupTypeOK("AWB")
  BY GroupTypes DEF PipelineInv, EachInv, Groups
<1>2. \A m \in Message("AWB") : AwbP!UserId(m) = UserId(m)
  BY GroupConstants, "AWB" \in Groups DEF Groups, Message, UserId, AwbP!UserId
<1>3. \A k \in DOMAIN queue["AWB"] : queue["AWB"][k] \in Message("AWB")
  BY <1>1 DEF GroupTypeOK
<1>4. Conds("AWB") /= {}
  BY Tables DEF Groups
<1>5. QED
  BY <1>1, <1>2, <1>3, <1>4 DEF AwbP!GroupInv, AwbP!AnalysedArrived, AwbP!InputInOrder, AwbP!CompleteIsAnalysed

\* The AWB group starts as AnalyzerGroup does.
LEMMA AwbStarts == Init => Awb!Init /\ Awb!TypeOK /\ AwbP!GroupInv
<1> SUFFICES ASSUME Init PROVE Awb!Init /\ Awb!TypeOK /\ AwbP!GroupInv
  OBVIOUS
<1>1. Awb!Init
  BY DEF Init, Awb!Init, Awb!Empty, Groups
<1>2. AwbP!Init
  BY <1>1, AwbSame
<1>3. AwbP!TypeOK /\ AwbP!GroupInv
  BY <1>2, AwbP!TypeInit, AwbP!GroupInvInit, AwbAssumption DEF AwbP!GroupAssumption
<1>4. QED
  BY <1>1, <1>3, AwbSame

\* The AWB group keeps its types and the invariant of a group, and analyses in order.
LEMMA AwbKeeps ==
  ASSUME PipelineInv, [Next]_vars
  PROVE  /\ Awb!TypeOK' /\ AwbP!GroupInv'
         /\ [\A i \in analysed["AWB"]' \ analysed["AWB"], j \in analysed["AWB"] : i > j]_(Awb!vars)
         /\ \A t \in Conds("AWB") : analysed'["AWB"] \subseteq arrived'["AWB"][t]
<1>1. [AwbP!Next]_(AwbP!vars) /\ AwbP!TypeOK /\ AwbP!GroupInv
  BY AwbStep, AwbSame DEF PipelineInv, EachInv, TypeOK, Awb!vars, AwbP!vars
<1>2. AwbP!TypeOK'
  BY <1>1, AwbP!TypeStep, AwbAssumption DEF AwbP!GroupAssumption
<1>3. AwbP!GroupInv'
  BY <1>1, AwbP!GroupStep, AwbAssumption DEF AwbP!GroupAssumption
<1>4. Awb!TypeOK'
  <2>1. (AwbP!TypeOK <=> Awb!TypeOK)'
    BY DEF Awb!TypeOK, AwbP!TypeOK, Awb!Message, AwbP!Message
  <2>2. QED
    BY <1>2, <2>1
<1>5. [\A i \in analysed["AWB"]' \ analysed["AWB"], j \in analysed["AWB"] : i > j]_(Awb!vars)
  BY <1>1, AwbP!OrderStep, AwbAssumption DEF AwbP!GroupAssumption, Awb!vars, AwbP!vars
<1>6. QED
  BY <1>3, <1>4, <1>5 DEF AwbP!GroupInv, AwbP!AnalysedArrived

\* What the invariant says of the GRP0 group.
LEMMA Grp0Known ==
  ASSUME PipelineInv
  PROVE  /\ \A t \in Conds("GRP0") : analysed["GRP0"] \subseteq arrived["GRP0"][t]
         /\ \A k \in DOMAIN queue["GRP0"] : \A i \in arrived["GRP0"][queue["GRP0"][k].type] :
              i < UserId(queue["GRP0"][k])
         /\ \A i \in Nat :
              (\A t \in Conds("GRP0") : i \in arrived["GRP0"][t]) => i \in analysed["GRP0"] \cup lost["GRP0"]
<1>1. Grp0P!GroupInv /\ GroupTypeOK("GRP0")
  BY GroupTypes DEF PipelineInv, EachInv, Groups
<1>2. \A m \in Message("GRP0") : Grp0P!UserId(m) = UserId(m)
  BY GroupConstants, "GRP0" \in Groups DEF Groups, Message, UserId, Grp0P!UserId
<1>3. \A k \in DOMAIN queue["GRP0"] : queue["GRP0"][k] \in Message("GRP0")
  BY <1>1 DEF GroupTypeOK
<1>4. Conds("GRP0") /= {}
  BY Tables DEF Groups
<1>5. QED
  BY <1>1, <1>2, <1>3, <1>4 DEF Grp0P!GroupInv, Grp0P!AnalysedArrived, Grp0P!InputInOrder, Grp0P!CompleteIsAnalysed

\* The GRP0 group starts as AnalyzerGroup does.
LEMMA Grp0Starts == Init => Grp0!Init /\ Grp0!TypeOK /\ Grp0P!GroupInv
<1> SUFFICES ASSUME Init PROVE Grp0!Init /\ Grp0!TypeOK /\ Grp0P!GroupInv
  OBVIOUS
<1>1. Grp0!Init
  BY DEF Init, Grp0!Init, Grp0!Empty, Groups
<1>2. Grp0P!Init
  BY <1>1, Grp0Same
<1>3. Grp0P!TypeOK /\ Grp0P!GroupInv
  BY <1>2, Grp0P!TypeInit, Grp0P!GroupInvInit, Grp0Assumption DEF Grp0P!GroupAssumption
<1>4. QED
  BY <1>1, <1>3, Grp0Same

\* The GRP0 group keeps its types and the invariant of a group, and analyses in order.
LEMMA Grp0Keeps ==
  ASSUME PipelineInv, [Next]_vars
  PROVE  /\ Grp0!TypeOK' /\ Grp0P!GroupInv'
         /\ [\A i \in analysed["GRP0"]' \ analysed["GRP0"], j \in analysed["GRP0"] : i > j]_(Grp0!vars)
         /\ \A t \in Conds("GRP0") : analysed'["GRP0"] \subseteq arrived'["GRP0"][t]
<1>1. [Grp0P!Next]_(Grp0P!vars) /\ Grp0P!TypeOK /\ Grp0P!GroupInv
  BY Grp0Step, Grp0Same DEF PipelineInv, EachInv, TypeOK, Grp0!vars, Grp0P!vars
<1>2. Grp0P!TypeOK'
  BY <1>1, Grp0P!TypeStep, Grp0Assumption DEF Grp0P!GroupAssumption
<1>3. Grp0P!GroupInv'
  BY <1>1, Grp0P!GroupStep, Grp0Assumption DEF Grp0P!GroupAssumption
<1>4. Grp0!TypeOK'
  <2>1. (Grp0P!TypeOK <=> Grp0!TypeOK)'
    BY DEF Grp0!TypeOK, Grp0P!TypeOK, Grp0!Message, Grp0P!Message
  <2>2. QED
    BY <1>2, <2>1
<1>5. [\A i \in analysed["GRP0"]' \ analysed["GRP0"], j \in analysed["GRP0"] : i > j]_(Grp0!vars)
  BY <1>1, Grp0P!OrderStep, Grp0Assumption DEF Grp0P!GroupAssumption, Grp0!vars, Grp0P!vars
<1>6. QED
  BY <1>3, <1>4, <1>5 DEF Grp0P!GroupInv, Grp0P!AnalysedArrived

\* What the invariant says of the GRP1 group.
LEMMA Grp1Known ==
  ASSUME PipelineInv
  PROVE  /\ \A t \in Conds("GRP1") : analysed["GRP1"] \subseteq arrived["GRP1"][t]
         /\ \A k \in DOMAIN queue["GRP1"] : \A i \in arrived["GRP1"][queue["GRP1"][k].type] :
              i < UserId(queue["GRP1"][k])
         /\ \A i \in Nat :
              (\A t \in Conds("GRP1") : i \in arrived["GRP1"][t]) => i \in analysed["GRP1"] \cup lost["GRP1"]
<1>1. Grp1P!GroupInv /\ GroupTypeOK("GRP1")
  BY GroupTypes DEF PipelineInv, EachInv, Groups
<1>2. \A m \in Message("GRP1") : Grp1P!UserId(m) = UserId(m)
  BY GroupConstants, "GRP1" \in Groups DEF Groups, Message, UserId, Grp1P!UserId
<1>3. \A k \in DOMAIN queue["GRP1"] : queue["GRP1"][k] \in Message("GRP1")
  BY <1>1 DEF GroupTypeOK
<1>4. Conds("GRP1") /= {}
  BY Tables DEF Groups
<1>5. QED
  BY <1>1, <1>2, <1>3, <1>4 DEF Grp1P!GroupInv, Grp1P!AnalysedArrived, Grp1P!InputInOrder, Grp1P!CompleteIsAnalysed

\* The GRP1 group starts as AnalyzerGroup does.
LEMMA Grp1Starts == Init => Grp1!Init /\ Grp1!TypeOK /\ Grp1P!GroupInv
<1> SUFFICES ASSUME Init PROVE Grp1!Init /\ Grp1!TypeOK /\ Grp1P!GroupInv
  OBVIOUS
<1>1. Grp1!Init
  BY DEF Init, Grp1!Init, Grp1!Empty, Groups
<1>2. Grp1P!Init
  BY <1>1, Grp1Same
<1>3. Grp1P!TypeOK /\ Grp1P!GroupInv
  BY <1>2, Grp1P!TypeInit, Grp1P!GroupInvInit, Grp1Assumption DEF Grp1P!GroupAssumption
<1>4. QED
  BY <1>1, <1>3, Grp1Same

\* The GRP1 group keeps its types and the invariant of a group, and analyses in order.
LEMMA Grp1Keeps ==
  ASSUME PipelineInv, [Next]_vars
  PROVE  /\ Grp1!TypeOK' /\ Grp1P!GroupInv'
         /\ [\A i \in analysed["GRP1"]' \ analysed["GRP1"], j \in analysed["GRP1"] : i > j]_(Grp1!vars)
         /\ \A t \in Conds("GRP1") : analysed'["GRP1"] \subseteq arrived'["GRP1"][t]
<1>1. [Grp1P!Next]_(Grp1P!vars) /\ Grp1P!TypeOK /\ Grp1P!GroupInv
  BY Grp1Step, Grp1Same DEF PipelineInv, EachInv, TypeOK, Grp1!vars, Grp1P!vars
<1>2. Grp1P!TypeOK'
  BY <1>1, Grp1P!TypeStep, Grp1Assumption DEF Grp1P!GroupAssumption
<1>3. Grp1P!GroupInv'
  BY <1>1, Grp1P!GroupStep, Grp1Assumption DEF Grp1P!GroupAssumption
<1>4. Grp1!TypeOK'
  <2>1. (Grp1P!TypeOK <=> Grp1!TypeOK)'
    BY DEF Grp1!TypeOK, Grp1P!TypeOK, Grp1!Message, Grp1P!Message
  <2>2. QED
    BY <1>2, <2>1
<1>5. [\A i \in analysed["GRP1"]' \ analysed["GRP1"], j \in analysed["GRP1"] : i > j]_(Grp1!vars)
  BY <1>1, Grp1P!OrderStep, Grp1Assumption DEF Grp1P!GroupAssumption, Grp1!vars, Grp1P!vars
<1>6. QED
  BY <1>3, <1>4, <1>5 DEF Grp1P!GroupInv, Grp1P!AnalysedArrived

\* The same for any group.
LEMMA GroupKnown ==
  ASSUME PipelineInv, NEW g \in Groups
  PROVE  /\ \A t \in Conds(g) : analysed[g] \subseteq arrived[g][t]
         /\ \A k \in DOMAIN queue[g] : \A i \in arrived[g][queue[g][k].type] : i < UserId(queue[g][k])
         /\ \A i \in Nat : (\A t \in Conds(g) : i \in arrived[g][t]) => i \in analysed[g] \cup lost[g]
<1>1. g = "AE" \/ g = "AWB" \/ g = "GRP0" \/ g = "GRP1"
  BY DEF Groups
<1>2. QED
  BY <1>1, AeKnown, AwbKnown, Grp0Known, Grp1Known

\* Each group keeps its types and the invariant of a group.
LEMMA GroupsKeep ==
  ASSUME PipelineInv, [Next]_vars
  PROVE  /\ Ae!TypeOK' /\ Awb!TypeOK' /\ Grp0!TypeOK' /\ Grp1!TypeOK' /\ EachInv'
         /\ \A g \in Groups : \A t \in Conds(g) : analysed'[g] \subseteq arrived'[g][t]
BY AeKeeps, AwbKeeps, Grp0Keeps, Grp1Keeps DEF EachInv, Groups

-----------------------------------------------------------------------------
(* The steps of the groups together *)

\* What the invariant says of the types.
LEMMA Typed ==
  ASSUME PipelineInv
  PROVE  OwnTypes /\ Together /\ \A g \in Groups : GroupTypeOK(g)
BY GroupTypes DEF PipelineInv

\* The pushes of a post.
LEMMA PushesFacts ==
  ASSUME NEW S \in SUBSET Types, NEW f \in 0..MaxFrame
  PROVE  /\ Pushes(S, f) \subseteq Push
         /\ \A m \in Pushes(S, f) : m.type \in S /\ m.frame = f /\ m.type \in Conds(m.to)
         /\ \A t \in S, g \in Groups :
              t \in Conds(g) => [type |-> t, frame |-> f, to |-> g] \in Pushes(S, f)
BY DEF Pushes, Push

\* A post that leaves nothing out counts none.
LEMMA PostFacts ==
  ASSUME NEW a \in Threads, NEW f, NEW before \in Nat, skipped \in Nat,
         PostSome(a, Posts(a), f, before)
  PROVE  \E S \in SUBSET Posts(a) :
           /\ todo' = [todo EXCEPT ![a] = Pushes(S, f)]
           /\ skipped' \in Nat
           /\ skipped' = 0 => skipped = 0 /\ before = 0 /\ S = Posts(a)
<1>1. PICK S \in SUBSET Posts(a) : /\ skipped' = skipped + before + Cardinality(Posts(a) \ S)
                                   /\ todo' = [todo EXCEPT ![a] = Pushes(S, f)]
  BY DEF PostSome
<1>2. IsFiniteSet(Posts(a) \ S)
  <2>1. Posts(a) \ S \subseteq Types /\ IsFiniteSet(Types)
    BY Tables
  <2>2. QED
    BY <2>1, FS_Subset
<1>3. /\ Cardinality(Posts(a) \ S) \in Nat
      /\ Cardinality(Posts(a) \ S) = 0 => Posts(a) \ S = {}
  BY <1>2, FS_CardinalityType, FS_EmptySet
<1> DEFINE c == Cardinality(Posts(a) \ S)
<1>4. skipped' = skipped + before + c /\ c \in Nat
  BY <1>1, <1>3
<1>5. skipped' \in Nat /\ (skipped' = 0 => skipped = 0 /\ before = 0 /\ c = 0)
  <2> HIDE DEF c
  <2>1. QED
    BY <1>4
<1>6. c = 0 => S = Posts(a)
  BY <1>3
<1>7. QED
  BY <1>1, <1>5, <1>6

\* The push of a message.
LEMMA PushKeeps ==
  ASSUME PipelineInv, NEW a \in Threads, PushNext(a)
  PROVE  OwnTypes' /\ Together'
<1>0. /\ OwnTypes /\ \A g \in Groups : GroupTypeOK(g)
      /\ Shape /\ PushesReady /\ SensorAhead /\ ResultsAfter /\ IdsBounded /\ Phases /\ Delivered
  BY Typed DEF Together
<1>1. PICK m \in todo[a] :
        /\ queue' = [queue EXCEPT ![m.to] =
             Append(@, [type |-> m.type, frame |-> m.frame, session |-> session])]
        /\ next' = [next EXCEPT ![m.to][m.type] = m.frame + 1]
        /\ DOMAIN close' = DOMAIN close
        /\ todo' = [todo EXCEPT ![a] = @ \ {m}]
        /\ UNCHANGED <<streaming, at, up, collected, session, skipped>>
  BY DEF PushNext
<1>2. /\ m \in Push /\ m.to \in Groups /\ m.type \in Posts(a) /\ m.type \in Conds(m.to)
      /\ m.frame \in Nat /\ next[m.to][m.type] =< m.frame /\ UserId(m) =< MaxFrame
  BY <1>0, Constants DEF OwnTypes, PushesReady, Push
<1>3. /\ DOMAIN queue' = Groups /\ DOMAIN next' = Groups
      /\ \A g \in Groups : g /= m.to => queue'[g] = queue[g] /\ next'[g] = next[g]
      /\ queue'[m.to] = Append(queue[m.to], [type |-> m.type, frame |-> m.frame, session |-> session])
      /\ next'[m.to] = [next[m.to] EXCEPT ![m.type] = m.frame + 1]
  BY <1>0, <1>1, <1>2 DEF Shape
<1>4. /\ \A b \in Threads : todo'[b] \subseteq todo[b]
      /\ \A b \in Threads : b /= a => todo'[b] = todo[b]
      /\ todo'[a] = todo[a] \ {m}
  BY <1>0, <1>1 DEF OwnTypes
<1>5. /\ next'[m.to][m.type] = m.frame + 1
      /\ \A g \in Groups : \A t \in Conds(g) :
           g /= m.to \/ t /= m.type => next'[g][t] = next[g][t]
  BY <1>0, <1>2, <1>3 DEF GroupTypeOK
<1>6. /\ \A g \in Groups : \A k \in DOMAIN queue[g] : k \in DOMAIN queue'[g] /\ queue'[g][k] = queue[g][k]
      /\ \A g \in Groups : \A k \in DOMAIN queue'[g] :
           \/ k \in DOMAIN queue[g] /\ queue'[g][k] = queue[g][k]
           \/ g = m.to /\ queue'[g][k] = [type |-> m.type, frame |-> m.frame, session |-> session]
      /\ \E k \in DOMAIN queue'[m.to] :
           queue'[m.to][k] = [type |-> m.type, frame |-> m.frame, session |-> session]
  <2> DEFINE r == [type |-> m.type, frame |-> m.frame, session |-> session]
  <2> HIDE DEF r
  <2>1. queue[m.to] \in Seq(Message(m.to)) /\ queue'[m.to] = Append(queue[m.to], r)
    BY <1>0, <1>2, <1>3 DEF GroupTypeOK, r
  <2>2. /\ \A k \in DOMAIN queue[m.to] : k \in DOMAIN queue'[m.to] /\ queue'[m.to][k] = queue[m.to][k]
        /\ \A k \in DOMAIN queue'[m.to] :
             \/ k \in DOMAIN queue[m.to] /\ queue'[m.to][k] = queue[m.to][k]
             \/ queue'[m.to][k] = r
        /\ Len(queue[m.to]) + 1 \in DOMAIN queue'[m.to] /\ queue'[m.to][Len(queue[m.to]) + 1] = r
    BY <2>1
  <2>3. QED
    BY <1>3, <2>2 DEF r
<1>7. OwnTypes'
  BY <1>0, <1>1 DEF OwnTypes
<1>8. Shape'
  BY <1>0, <1>1, <1>3 DEF Shape, collected
<1>9. PushesReady'
  <2>1. ASSUME NEW b \in Threads, NEW n \in todo'[b]
        PROVE  /\ n.type \in Posts(b) /\ n.type \in Conds(n.to)
               /\ next'[n.to][n.type] =< n.frame /\ UserId(n) =< MaxFrame
    <3>1. /\ n \in Push /\ n.to \in Groups /\ n.type \in Posts(b) /\ n.type \in Conds(n.to)
          /\ next[n.to][n.type] =< n.frame /\ UserId(n) =< MaxFrame
      BY <2>1, <1>0, <1>4 DEF OwnTypes, PushesReady, Push
    <3>2. n.to /= m.to \/ n.type /= m.type
      <4>1. SUFFICES ASSUME n.to = m.to, n.type = m.type PROVE FALSE
        OBVIOUS
      <4>2. a = b
        BY <4>1, <3>1, <1>2, Tables
      <4>3. n.frame = m.frame /\ n /= m
        BY <4>2, <2>1, <1>0, <1>4 DEF PushesReady
      <4>4. QED
        BY <4>1, <4>3, <3>1, <1>2 DEF Push
    <3>3. QED
      BY <3>1, <3>2, <1>5
  <2>2. \A b \in Threads : \A n, o \in todo'[b] : n.frame = o.frame
    BY <1>0, <1>4 DEF PushesReady
  <2>3. QED
    BY <2>1, <2>2 DEF PushesReady, UserId
<1>10. SensorAhead'
  <2>1. \A b \in Sensor : \A n \in todo'[b] : n.frame < at[b]
    BY <1>0, <1>4 DEF SensorAhead, Threads
  <2>2. ASSUME NEW b \in Sensor, streaming, NEW g \in Groups, NEW t \in Posts(b) \cap Conds(g)
        PROVE  next'[g][t] =< at[b]
    <3>1. CASE g /= m.to \/ t /= m.type
      BY <2>2, <3>1, <1>0, <1>5 DEF SensorAhead
    <3>2. CASE g = m.to /\ t = m.type
      <4>1. a = b
        BY <3>2, <1>2, Tables DEF Threads
      <4>2. m.frame < at[b] /\ at[b] \in Nat
        BY <4>1, <1>0 DEF SensorAhead, OwnTypes
      <4>3. QED
        BY <4>2, <3>2, <1>2, <1>5
    <3>3. QED
      BY <3>1, <3>2
  <2>3. QED
    BY <2>1, <2>2, <1>1 DEF SensorAhead
<1>11. ResultsAfter'
  <2>1. \A h \in Groups : \A n \in todo'[h] : n.frame \in analysed[h]
    BY <1>0, <1>4 DEF ResultsAfter, Threads
  <2>2. ASSUME NEW g \in Groups, NEW h \in Groups, NEW t \in Results(h) \cap Conds(g)
        PROVE  /\ \A k \in DOMAIN queue'[g] : queue'[g][k].type = t => queue'[g][k].frame \in analysed[h]
               /\ next'[g][t] = 2 \/ next'[g][t] - 1 \in analysed[h]
    <3>1. m.type = t => m.frame \in analysed[h]
      <4>1. m.type = t => a = h
        BY <1>2, Tables DEF Threads, Posts, Groups
      <4>2. QED
        BY <4>1, <1>0 DEF ResultsAfter
    <3>2. \A k \in DOMAIN queue'[g] : queue'[g][k].type = t => queue'[g][k].frame \in analysed[h]
      BY <3>1, <1>6, <1>0 DEF ResultsAfter
    <3>3. next'[g][t] = 2 \/ next'[g][t] - 1 \in analysed[h]
      BY <3>1, <1>2, <1>5, <1>0 DEF ResultsAfter
    <3>4. QED
      BY <3>2, <3>3
  <2>3. QED
    BY <2>1, <2>2, <1>0, <1>1 DEF ResultsAfter, collected
<1>12. IdsBounded'
  <2>1. \A g \in Groups : \A k \in DOMAIN queue'[g] : UserId(queue'[g][k]) =< MaxFrame
    BY <1>0, <1>2, <1>6 DEF IdsBounded, UserId
  <2>2. QED
    BY <2>1, <1>0, <1>1 DEF IdsBounded, collected, UserId
<1>13. Phases'
  BY <1>0, <1>1, <1>4 DEF Phases, Threads
<1>14. Delivered'
  <2> SUFFICES ASSUME skipped = 0, NEW b \in Threads, NEW g \in Groups, up[g],
                      NEW t \in Posts(b) \cap Conds(g), NEW f \in Served(b)
               PROVE  Underway(b, g, t, f)'
    BY <1>1 DEF Delivered, Served, collected
  <2>1. Underway(b, g, t, f)
    BY <1>0 DEF Delivered
  <2>2. CASE \E n \in todo[b] : n.to = g /\ n.type = t /\ n.frame = f
    <3>1. PICK n \in todo[b] : n.to = g /\ n.type = t /\ n.frame = f
      BY <2>2
    <3>2. CASE n = m
      BY <3>1, <3>2, <1>6 DEF Underway
    <3>3. CASE n /= m
      BY <3>1, <3>3, <1>4 DEF Underway
    <3>4. QED
      BY <3>2, <3>3
  <2>3. CASE f + DelayOf(t) \in arrived[g][t]
    BY <2>3, <1>1 DEF Underway, collected
  <2>4. CASE \E k \in DOMAIN queue[g] : queue[g][k].type = t /\ queue[g][k].frame = f
    BY <2>4, <1>6 DEF Underway
  <2>5. QED
    BY <2>1, <2>2, <2>3, <2>4 DEF Underway
<1>15. QED
  BY <1>7, <1>8, <1>9, <1>10, <1>11, <1>12, <1>13, <1>14 DEF Together

\* A thread of the sensor serves a frame.
LEMMA ServeKeeps ==
  ASSUME PipelineInv, NEW a \in Sensor, NEW last \in Int,
         streaming => \A t \in Posts(a) : last + DelayOf(t) =< MaxFrame,
         Serve(a, Posts(a), last)
  PROVE  OwnTypes' /\ Together'
<1>0. /\ OwnTypes /\ \A g \in Groups : GroupTypeOK(g)
      /\ Shape /\ PushesReady /\ SensorAhead /\ ResultsAfter /\ IdsBounded /\ Phases /\ Delivered
      /\ a \in Threads /\ a \notin Groups /\ at[a] \in Nat
  BY Typed, Constants DEF Together, Threads, Sensor, Groups, OwnTypes
<1>1. PICK f \in at[a]..last :
        /\ PostSome(a, Posts(a), f, (f - at[a]) * Cardinality(Posts(a)))
        /\ at' = [at EXCEPT ![a] = f + 1]
  BY DEF Serve
<1>2. /\ streaming /\ todo[a] = {}
      /\ UNCHANGED <<streaming, up, queue, collected, published, session>>
  BY DEF Serve
<1>3. f \in Nat /\ f \in 0..MaxFrame /\ at[a] =< f /\ \A t \in Posts(a) : f + DelayOf(t) =< MaxFrame
  <2>1. \E t : t \in Posts(a) /\ t \in Types
    BY DEF Posts, Statistics, Sensor, Types
  <2>2. \A t \in Posts(a) : DelayOf(t) \in Nat
    BY <1>0, Tables
  <2>3. QED
    BY <2>1, <2>2, <1>0, <1>1, <1>2, Constants
<1>4. /\ (f - at[a]) * Cardinality(Posts(a)) \in Nat
      /\ (f - at[a]) * Cardinality(Posts(a)) = 0 => f = at[a]
  <2>1. Cardinality(Posts(a)) = 1 \/ Cardinality(Posts(a)) = 2
    <3>1. CASE a = "sof"
      BY <3>1, FS_Singleton DEF Posts
    <3>2. CASE a = "stats"
      <4>1. IsFiniteSet({"AEC_STATS"}) /\ Cardinality({"AEC_STATS"}) = 1
        BY FS_Singleton
      <4>2. Cardinality({"AEC_STATS"} \cup {"AWB_STATS"}) = 2
        BY <4>1, FS_AddElement
      <4>3. Posts(a) = {"AEC_STATS"} \cup {"AWB_STATS"}
        BY <3>2 DEF Posts, Statistics
      <4>4. QED
        BY <4>2, <4>3
    <3>3. QED
      BY <3>1, <3>2 DEF Sensor
  <2>2. f - at[a] \in Nat
    BY <1>0, <1>3
  <2>3. QED
    BY <2>1, <2>2, <1>0, <1>3
<1>5. PICK S \in SUBSET Posts(a) :
        /\ todo' = [todo EXCEPT ![a] = Pushes(S, f)]
        /\ skipped' \in Nat
        /\ skipped' = 0 => skipped = 0 /\ f = at[a] /\ S = Posts(a)
  <2>1. PICK S \in SUBSET Posts(a) :
          /\ todo' = [todo EXCEPT ![a] = Pushes(S, f)]
          /\ skipped' \in Nat
          /\ skipped' = 0 => /\ skipped = 0 /\ (f - at[a]) * Cardinality(Posts(a)) = 0
                             /\ S = Posts(a)
    BY <1>0, <1>1, <1>4, PostFacts DEF OwnTypes
  <2>2. QED
    BY <2>1, <1>4
<1>6. /\ Pushes(S, f) \subseteq Push
      /\ \A m \in Pushes(S, f) : m.type \in S /\ m.frame = f /\ m.type \in Conds(m.to)
      /\ \A t \in S, g \in Groups : t \in Conds(g) => [type |-> t, frame |-> f, to |-> g] \in Pushes(S, f)
  <2>1. S \in SUBSET Types
    BY <1>0, Tables
  <2>2. QED
    BY <2>1, <1>3, PushesFacts
<1>7. /\ todo'[a] = Pushes(S, f) /\ \A b \in Threads : b /= a => todo'[b] = todo[b]
      /\ at'[a] = f + 1 /\ \A b \in Sensor : b /= a => at'[b] = at[b]
  BY <1>0, <1>1, <1>5 DEF OwnTypes
<1>8. OwnTypes'
  BY <1>0, <1>1, <1>2, <1>3, <1>5, <1>6, Constants DEF OwnTypes
<1>9. Shape' /\ IdsBounded'
  BY <1>0, <1>2 DEF Shape, IdsBounded, collected, published, UserId
<1>10. PushesReady'
  <2>1. ASSUME NEW m \in todo'[a]
        PROVE  /\ m.type \in Posts(a) /\ m.type \in Conds(m.to)
               /\ next[m.to][m.type] =< m.frame /\ UserId(m) =< MaxFrame
    <3>1. m \in Push /\ m.to \in Groups /\ m.type \in Posts(a) /\ m.type \in Conds(m.to) /\ m.frame = f
      BY <2>1, <1>6, <1>7 DEF Push
    <3>2. next[m.to][m.type] =< at[a] /\ next[m.to][m.type] \in Nat
      BY <3>1, <1>0, <1>2, Constants DEF SensorAhead, GroupTypeOK
    <3>3. QED
      BY <3>1, <3>2, <1>0, <1>3 DEF UserId
  <2>2. \A m, n \in todo'[a] : m.frame = n.frame
    BY <1>6, <1>7
  <2>3. next' = next
    BY <1>2 DEF published
  <2>4. QED
    BY <2>1, <2>2, <2>3, <1>0, <1>7 DEF PushesReady, UserId
<1>11. SensorAhead'
  <2>1. \A m \in todo'[a] : m.frame < at'[a]
    BY <1>3, <1>6, <1>7
  <2>2. \A g \in Groups : \A t \in Posts(a) \cap Conds(g) : next[g][t] =< at'[a]
    <3> SUFFICES ASSUME NEW g \in Groups, NEW t \in Posts(a) \cap Conds(g) PROVE next[g][t] =< at'[a]
      OBVIOUS
    <3>1. next[g][t] =< at[a] /\ next[g][t] \in Nat
      BY <1>0, <1>2, Constants DEF SensorAhead, GroupTypeOK
    <3>2. QED
      BY <3>1, <1>0, <1>3, <1>7
  <2>3. QED
    BY <2>1, <2>2, <1>0, <1>2, <1>7 DEF SensorAhead, published, Threads
<1>12. ResultsAfter'
  <2>1. \A h \in Groups : todo'[h] = todo[h]
    BY <1>0, <1>7 DEF Threads
  <2>2. QED
    BY <2>1, <1>0, <1>2 DEF ResultsAfter, collected, published
<1>13. Phases'
  BY <1>0, <1>2 DEF Phases
<1>14. Delivered'
  <2> SUFFICES ASSUME skipped' = 0, NEW b \in Threads, NEW g \in Groups, up[g],
                      NEW t \in Posts(b) \cap Conds(g), NEW i \in Served(b)'
               PROVE  Underway(b, g, t, i)'
    BY <1>2 DEF Delivered
  <2>1. CASE i \in Served(b)
    <3>1. Underway(b, g, t, i)
      BY <2>1, <1>0, <1>5 DEF Delivered
    <3>2. \A m \in todo[b] : m \in todo'[b]
      BY <1>2, <1>7
    <3>3. QED
      BY <3>1, <3>2, <1>2 DEF Underway, collected
  <2>2. CASE i \notin Served(b)
    <3>1. b = a /\ i = f
      BY <2>2, <1>0, <1>2, <1>3, <1>5, <1>7 DEF Served, Sensor, Threads, collected
    <3>2. [type |-> t, frame |-> f, to |-> g] \in todo'[a]
      BY <3>1, <1>5, <1>6, <1>7
    <3>3. QED
      BY <3>1, <3>2 DEF Underway
  <2>3. QED
    BY <2>1, <2>2
<1>15. QED
  BY <1>8, <1>9, <1>10, <1>11, <1>12, <1>13, <1>14 DEF Together

\* What popping a message of group g leaves true, whatever follows.
LEMMA PopFacts ==
  ASSUME PipelineInv, NEW g \in Groups, NEW m, Pop(g, m)
  PROVE  /\ m \in Message(g) /\ UserId(m) \in 0..MaxFrame /\ up[g] /\ todo[g] = {}
         /\ DOMAIN queue' = Groups /\ DOMAIN arrived' = Groups
         /\ \A i \in analysed[g] : i < UserId(m)
         /\ \A h \in Groups : \A t \in Conds(h) :
              /\ arrived[h][t] \subseteq arrived'[h][t]
              /\ arrived'[h][t] \subseteq
                   arrived[h][t] \cup (IF h = g /\ t = m.type THEN {UserId(m)} ELSE {})
         /\ UserId(m) \in arrived'[g][m.type]
         /\ \A h \in Groups : \A k \in DOMAIN queue'[h] :
              \E l \in DOMAIN queue[h] : queue'[h][k] = queue[h][l]
         /\ \A h \in Groups : \A k \in DOMAIN queue[h] :
              \/ h = g /\ queue[h][k] = m
              \/ \E l \in DOMAIN queue'[h] : queue'[h][l] = queue[h][k]
         /\ \E k \in DOMAIN queue[g] : queue[g][k] = m
<1>0. /\ \A h \in Groups : GroupTypeOK(h)
      /\ Shape /\ IdsBounded
  BY Typed DEF Together
<1>1. /\ queue[g] \in Seq(Message(g)) /\ queue[g] /= << >> /\ m = Head(queue[g])
      /\ queue' = [queue EXCEPT ![g] = Tail(@)]
      /\ arrived' = [arrived EXCEPT ![g][m.type] = @ \cup {UserId(m)}]
      /\ up[g] /\ todo[g] = {}
  BY <1>0 DEF Pop, GroupTypeOK
<1>2. /\ 1 \in DOMAIN queue[g] /\ m = queue[g][1] /\ m \in Message(g)
      /\ \A k \in DOMAIN Tail(queue[g]) : k + 1 \in DOMAIN queue[g] /\ Tail(queue[g])[k] = queue[g][k + 1]
      /\ \A k \in DOMAIN queue[g] :
           k = 1 \/ (k - 1 \in DOMAIN Tail(queue[g]) /\ Tail(queue[g])[k - 1] = queue[g][k])
  BY <1>1
<1>3. /\ DOMAIN queue' = Groups /\ queue'[g] = Tail(queue[g])
      /\ \A h \in Groups : h /= g => queue'[h] = queue[h]
      /\ DOMAIN arrived' = Groups
      /\ arrived'[g] = [arrived[g] EXCEPT ![m.type] = @ \cup {UserId(m)}]
      /\ \A h \in Groups : h /= g => arrived'[h] = arrived[h]
  BY <1>0, <1>1 DEF Shape
<1>4. m.type \in Conds(g) /\ DelayOf(m.type) \in Nat /\ UserId(m) \in 0..MaxFrame
  <2>1. m.type \in Conds(g) /\ m.frame \in Nat /\ UserId(m) =< MaxFrame
    BY <1>0, <1>2, Constants DEF Message, IdsBounded
  <2>2. DelayOf(m.type) \in Nat
    BY <2>1, Tables
  <2>3. QED
    BY <2>1, <2>2, Constants DEF UserId
<1>5. \A i \in analysed[g] : i < UserId(m)
  BY <1>2, <1>4, GroupKnown
<1>6. /\ \A h \in Groups : \A t \in Conds(h) :
           /\ arrived[h][t] \subseteq arrived'[h][t]
           /\ arrived'[h][t] \subseteq
                arrived[h][t] \cup (IF h = g /\ t = m.type THEN {UserId(m)} ELSE {})
      /\ UserId(m) \in arrived'[g][m.type]
  BY <1>0, <1>3, <1>4 DEF GroupTypeOK
<1>7. \A h \in Groups : \A k \in DOMAIN queue'[h] :
        \E l \in DOMAIN queue[h] : queue'[h][k] = queue[h][l]
  <2> DEFINE tail == Tail(queue[g])
  <2>1. \A k \in DOMAIN tail : k + 1 \in DOMAIN queue[g] /\ tail[k] = queue[g][k + 1]
    BY <1>2
  <2>2. queue'[g] = tail
    BY <1>3
  <2> HIDE DEF tail
  <2>3. \A k \in DOMAIN queue'[g] : \E l \in DOMAIN queue[g] : queue'[g][k] = queue[g][l]
    BY <2>1, <2>2
  <2>4. \A h \in Groups : h /= g => queue'[h] = queue[h]
    BY <1>3
  <2>5. QED
    BY <2>3, <2>4
<1>8. \A h \in Groups : \A k \in DOMAIN queue[h] :
        \/ h = g /\ queue[h][k] = m
        \/ \E l \in DOMAIN queue'[h] : queue'[h][l] = queue[h][k]
  <2>1. \A k \in DOMAIN queue[g] :
          queue[g][k] = m \/ (k - 1 \in DOMAIN queue'[g] /\ queue'[g][k - 1] = queue[g][k])
    BY <1>2, <1>3
  <2>2. QED
    BY <2>1, <1>3
<1>9. QED
  BY <1>1, <1>2, <1>3, <1>4, <1>5, <1>6, <1>7, <1>8

\* What the handling of a message leaves true of the groups, when no analysed frame is
\* forgotten.
LEMMA PopKeeps ==
  ASSUME PipelineInv, NEW g \in Groups, NEW m, Pop(g, m),
         DOMAIN pending' = DOMAIN pending, DOMAIN lost' = DOMAIN lost,
         DOMAIN analysed' = DOMAIN analysed,
         \A h \in Groups : analysed[h] \subseteq analysed'[h]
  PROVE  /\ Shape' /\ IdsBounded'
         /\ \A f, h \in Groups : \A t \in Results(h) \cap Conds(f) :
              /\ arrived'[f][t] \subseteq analysed'[h]
              /\ \A k \in DOMAIN queue'[f] :
                   queue'[f][k].type = t => queue'[f][k].frame \in analysed'[h]
              /\ next'[f][t] = 2 \/ next'[f][t] - 1 \in analysed'[h]
         /\ \A b \in Threads, h \in Groups : \A t \in Conds(h) : \A f :
              (/\ f \in Nat /\ todo[b] \subseteq todo'[b]
               /\ Underway(b, h, t, f)) => Underway(b, h, t, f)'
<1>0. /\ \A h \in Groups : GroupTypeOK(h)
      /\ Shape /\ ResultsAfter /\ IdsBounded
  BY Typed DEF Together
<1> USE PopFacts
<1>1. UNCHANGED <<up, next, close>>
  BY DEF Pop, published
<1>2. Shape'
  BY <1>0, <1>1 DEF Shape
<1>3. IdsBounded'
  <2>1. \A h \in Groups : \A t \in Conds(h) : \A i \in arrived'[h][t] : DelayOf(t) =< i /\ i =< MaxFrame
    <3> SUFFICES ASSUME NEW h \in Groups, NEW t \in Conds(h), NEW i \in arrived'[h][t]
                 PROVE  DelayOf(t) =< i /\ i =< MaxFrame
      OBVIOUS
    <3>1. CASE i \in arrived[h][t]
      BY <3>1, <1>0 DEF IdsBounded
    <3>2. CASE i \notin arrived[h][t]
      <4>1. t = m.type /\ i = UserId(m) /\ m \in Message(g) /\ UserId(m) \in 0..MaxFrame
        BY <3>2
      <4>2. DelayOf(t) \in Nat /\ m.frame \in Nat
        BY <4>1, Tables, Constants DEF Message
      <4>3. QED
        BY <4>1, <4>2, Constants DEF UserId
    <3>3. QED
      BY <3>1, <3>2
  <2>2. \A h \in Groups : \A k \in DOMAIN queue'[h] : UserId(queue'[h][k]) =< MaxFrame
    BY <1>0 DEF IdsBounded, UserId
  <2>3. QED
    BY <2>1, <2>2 DEF IdsBounded, UserId
<1>4. ASSUME NEW f \in Groups, NEW h \in Groups, NEW t \in Results(h) \cap Conds(f)
      PROVE  /\ arrived'[f][t] \subseteq analysed'[h]
             /\ \A k \in DOMAIN queue'[f] :
                  queue'[f][k].type = t => queue'[f][k].frame \in analysed'[h]
             /\ next'[f][t] = 2 \/ next'[f][t] - 1 \in analysed'[h]
  <2>1. /\ arrived[f][t] \subseteq analysed[h]
        /\ \A k \in DOMAIN queue[f] : queue[f][k].type = t => queue[f][k].frame \in analysed[h]
        /\ next[f][t] = 2 \/ next[f][t] - 1 \in analysed[h]
    BY <1>0 DEF ResultsAfter
  <2>2. f = g /\ t = m.type => UserId(m) \in analysed[h]
    <3>1. t = m.type => UserId(m) = m.frame
      <4>1. DelayOf(t) = 0
        BY Tables
      <4>2. m \in Message(g)
        OBVIOUS
      <4>3. m.frame \in Int
        BY <4>2, Constants DEF Message
      <4>4. QED
        BY <4>1, <4>3 DEF UserId
    <3>2. \E k \in DOMAIN queue[g] : queue[g][k] = m
      OBVIOUS
    <3>3. QED
      BY <2>1, <3>1, <3>2
  <2>3. arrived'[f][t] \subseteq analysed[h]
    BY <2>1, <2>2
  <2>4. \A k \in DOMAIN queue'[f] : queue'[f][k].type = t => queue'[f][k].frame \in analysed[h]
    BY <2>1
  <2>5. QED
    BY <2>1, <2>3, <2>4, <1>1
<1>5. ASSUME NEW b \in Threads, NEW h \in Groups, NEW t \in Conds(h), NEW f \in Nat,
             todo[b] \subseteq todo'[b], Underway(b, h, t, f)
      PROVE  Underway(b, h, t, f)'
  <2>1. CASE f + DelayOf(t) \in arrived[h][t]
    BY <2>1 DEF Underway
  <2>2. CASE \E k \in DOMAIN queue[h] : queue[h][k].type = t /\ queue[h][k].frame = f
    <3>1. PICK k \in DOMAIN queue[h] : queue[h][k].type = t /\ queue[h][k].frame = f
      BY <2>2
    <3>2. CASE h = g /\ queue[h][k] = m
      <4>1. UserId(m) = f + DelayOf(t) /\ t = m.type
        BY <3>1, <3>2 DEF UserId
      <4>2. QED
        BY <3>2, <4>1 DEF Underway
    <3>3. CASE \E l \in DOMAIN queue'[h] : queue'[h][l] = queue[h][k]
      BY <3>1, <3>3 DEF Underway
    <3>4. QED
      BY <3>2, <3>3
  <2>3. CASE \E n \in todo[b] : n.to = h /\ n.type = t /\ n.frame = f
    BY <2>3, <1>5 DEF Underway
  <2>4. QED
    BY <1>5, <2>1, <2>2, <2>3 DEF Underway
<1>6. QED
  BY <1>2, <1>3, <1>4, <1>5

\* A message that does not complete its frame.
LEMMA StoreKeeps ==
  ASSUME PipelineInv, NEW g \in Groups, Store(g)
  PROVE  OwnTypes' /\ Together'
<1>0. /\ OwnTypes /\ \A h \in Groups : GroupTypeOK(h)
      /\ Shape /\ PushesReady /\ SensorAhead /\ ResultsAfter /\ Phases /\ Delivered
  BY Typed DEF Together
<1>1. PICK m : /\ Pop(g, m)
               /\ DOMAIN pending' = DOMAIN pending /\ DOMAIN lost' = DOMAIN lost
               /\ UNCHANGED <<analysed, todo, skipped>>
  BY DEF Store
<1>2. UNCHANGED <<streaming, at, up, next, close, session>>
  BY <1>1 DEF Pop, published
<1>3. /\ Shape' /\ IdsBounded'
      /\ \A f, h \in Groups : \A t \in Results(h) \cap Conds(f) :
           /\ arrived'[f][t] \subseteq analysed'[h]
           /\ \A k \in DOMAIN queue'[f] : queue'[f][k].type = t => queue'[f][k].frame \in analysed'[h]
           /\ next'[f][t] = 2 \/ next'[f][t] - 1 \in analysed'[h]
      /\ \A b \in Threads, h \in Groups : \A t \in Conds(h) : \A f \in Nat :
           Underway(b, h, t, f) => Underway(b, h, t, f)'
  BY <1>1, PopKeeps
<1>4. OwnTypes' /\ PushesReady' /\ SensorAhead' /\ Phases'
  BY <1>0, <1>1, <1>2 DEF OwnTypes, PushesReady, SensorAhead, Phases, UserId
<1>5. ResultsAfter'
  BY <1>0, <1>1, <1>3 DEF ResultsAfter
<1>6. Delivered'
  <2>1. \A b \in Threads : Served(b)' = Served(b) /\ Served(b) \subseteq Nat
    BY <1>0, <1>1, <1>2 DEF Served, OwnTypes, GroupTypeOK, Threads, Sensor
  <2>2. QED
    BY <2>1, <1>0, <1>1, <1>2, <1>3 DEF Delivered
<1>7. QED
  BY <1>3, <1>4, <1>5, <1>6 DEF Together

\* The group analyses a frame, and posts results of it.
LEMMA AnalyseKeeps ==
  ASSUME PipelineInv, NEW g \in Groups, Analyse(g),
         \A t \in Conds(g) : analysed'[g] \subseteq arrived'[g][t]
  PROVE  OwnTypes' /\ Together'
<1>0. /\ OwnTypes /\ (\A h \in Groups : GroupTypeOK(h)) /\ g \in Threads
      /\ Shape /\ PushesReady /\ SensorAhead /\ ResultsAfter /\ Phases /\ Delivered
  BY Typed DEF Together, Threads
<1>1. PICK m : /\ Pop(g, m)
               /\ DOMAIN pending' = DOMAIN pending /\ lost' = lost
               /\ analysed' = [analysed EXCEPT ![g] = @ \cup {UserId(m)}]
               /\ PostSome(g, Results(g), UserId(m), 0)
  BY DEF Analyse
<1> DEFINE id == UserId(m)
<1>2. UNCHANGED <<streaming, at, up, next, close, session>>
  BY <1>1 DEF Pop, published
<1>3. /\ DOMAIN analysed' = DOMAIN analysed
      /\ analysed'[g] = analysed[g] \cup {id}
      /\ \A h \in Groups : h /= g => analysed'[h] = analysed[h]
      /\ \A h \in Groups : analysed[h] \subseteq analysed'[h]
  BY <1>0, <1>1 DEF Shape
<1>4. /\ id \in 0..MaxFrame /\ up[g] /\ todo[g] = {}
      /\ \A i \in analysed[g] : i < id
  BY <1>1, PopFacts
<1>5. /\ Shape' /\ IdsBounded'
      /\ \A f, h \in Groups : \A t \in Results(h) \cap Conds(f) :
           /\ arrived'[f][t] \subseteq analysed'[h]
           /\ \A k \in DOMAIN queue'[f] : queue'[f][k].type = t => queue'[f][k].frame \in analysed'[h]
           /\ next'[f][t] = 2 \/ next'[f][t] - 1 \in analysed'[h]
      /\ \A b \in Threads, h \in Groups : \A t \in Conds(h) : \A f \in Nat :
           todo[b] \subseteq todo'[b] /\ Underway(b, h, t, f) => Underway(b, h, t, f)'
  BY <1>1, <1>3, PopKeeps
<1>6. Posts(g) = Results(g)
  BY DEF Posts, Groups
<1>7. PICK S \in SUBSET Results(g) :
        /\ todo' = [todo EXCEPT ![g] = Pushes(S, id)]
        /\ skipped' \in Nat
        /\ skipped' = 0 => skipped = 0 /\ S = Results(g)
  BY <1>0, <1>1, <1>6, PostFacts DEF OwnTypes
<1>8. /\ Pushes(S, id) \subseteq Push
      /\ \A n \in Pushes(S, id) : n.type \in S /\ n.frame = id /\ n.type \in Conds(n.to)
      /\ \A t \in S, h \in Groups : t \in Conds(h) => [type |-> t, frame |-> id, to |-> h] \in Pushes(S, id)
  <2>1. S \in SUBSET Types
    BY <1>0, <1>6, Tables
  <2>2. QED
    BY <2>1, <1>4, PushesFacts
<1>9. /\ todo'[g] = Pushes(S, id) /\ \A b \in Threads : b /= g => todo'[b] = todo[b]
      /\ \A b \in Threads : todo[b] \subseteq todo'[b]
  BY <1>0, <1>4, <1>7 DEF OwnTypes
<1>10. ASSUME Results(g) /= {} PROVE id >= 2
  <2>1. \E t \in Conds(g) : t \in Types /\ DelayOf(t) = 2
    BY <1>10 DEF Results, Conds, AeCond, AwbCond, Grp0Cond, Grp1Cond, DelayOf, Statistics, Types, Groups
  <2>2. PICK t \in Conds(g) : DelayOf(t) = 2
    BY <2>1
  <2>3. id \in arrived'[g][t]
    BY <1>3
  <2>4. QED
    BY <2>2, <2>3, <1>5 DEF IdsBounded
<1>11. OwnTypes'
  BY <1>0, <1>2, <1>7, <1>8 DEF OwnTypes
<1>12. PushesReady'
  <2>1. ASSUME NEW n \in todo'[g]
        PROVE  /\ n.type \in Posts(g) /\ n.type \in Conds(n.to)
               /\ next[n.to][n.type] =< n.frame /\ UserId(n) =< MaxFrame
    <3>1. /\ n \in Push /\ n.to \in Groups /\ n.type \in Results(g) /\ n.type \in Conds(n.to)
          /\ n.frame = id
      BY <2>1, <1>8, <1>9 DEF Push
    <3>2. DelayOf(n.type) = 0
      BY <3>1, Tables
    <3>3. next[n.to][n.type] = 2 \/ next[n.to][n.type] - 1 \in analysed[g]
      BY <3>1, <1>0 DEF ResultsAfter
    <3>4. next[n.to][n.type] \in Nat
      BY <3>1, <1>0, Constants DEF GroupTypeOK
    <3>5. next[n.to][n.type] =< id
      BY <3>1, <3>3, <3>4, <1>4, <1>10, Constants
    <3>6. UserId(n) =< MaxFrame
      BY <3>1, <3>2, <1>4, Constants DEF UserId
    <3>7. QED
      BY <3>1, <3>5, <3>6, <1>6
  <2>2. \A n, o \in todo'[g] : n.frame = o.frame
    BY <1>8, <1>9
  <2>3. QED
    BY <2>1, <2>2, <1>0, <1>2, <1>9 DEF PushesReady, UserId
<1>13. SensorAhead'
  <2>1. \A b \in Sensor : todo'[b] = todo[b]
    BY <1>9 DEF Sensor, Threads, Groups
  <2>2. QED
    BY <2>1, <1>0, <1>2 DEF SensorAhead
<1>14. ResultsAfter'
  <2>1. \A h \in Groups : \A n \in todo'[h] : n.frame \in analysed'[h]
    BY <1>0, <1>3, <1>8, <1>9 DEF ResultsAfter, Threads
  <2>2. QED
    BY <2>1, <1>5 DEF ResultsAfter
<1>15. Phases'
  <2>1. \A h \in Groups : ~up[h] => h /= g
    BY <1>4
  <2>2. g \notin Sensor
    BY DEF Groups, Sensor
  <2>3. QED
    BY <2>1, <2>2, <1>0, <1>2, <1>9 DEF Phases, Threads
<1>16. Delivered'
  <2> SUFFICES ASSUME skipped' = 0, NEW b \in Threads, NEW h \in Groups, up[h],
                      NEW t \in Posts(b) \cap Conds(h), NEW f \in Served(b)'
               PROVE  Underway(b, h, t, f)'
    BY <1>2 DEF Delivered
  <2>1. CASE f \in Served(b)
    <3>1. Underway(b, h, t, f)
      BY <2>1, <1>0, <1>7 DEF Delivered
    <3>2. f \in Nat
      BY <2>1, <1>0 DEF Served, OwnTypes, GroupTypeOK, Threads, Sensor
    <3>3. QED
      BY <3>1, <3>2, <1>5, <1>9
  <2>2. CASE f \notin Served(b)
    <3>1. b = g /\ f = id
      BY <2>2, <1>2, <1>3 DEF Served, Threads, Groups, Sensor
    <3>2. [type |-> t, frame |-> id, to |-> h] \in todo'[g]
      BY <3>1, <1>6, <1>7, <1>8, <1>9
    <3>3. QED
      BY <3>1, <3>2 DEF Underway
  <2>3. QED
    BY <2>1, <2>2
<1>17. QED
  BY <1>5, <1>11, <1>12, <1>13, <1>14, <1>15, <1>16 DEF Together

\* Start: nothing of the session before is left.
LEMMA StartKeeps ==
  ASSUME PipelineInv, Start
  PROVE  OwnTypes' /\ Together'
<1>0. OwnTypes /\ Shape /\ Phases /\ \A g \in Groups : GroupTypeOK(g)
  BY Typed DEF Together
<1>1. \A a \in Threads : todo[a] = {}
  BY <1>0 DEF Start, Phases, Threads, Groups
<1>2. /\ todo' = todo /\ streaming' = TRUE /\ session' = session + 1 /\ skipped' = 0
      /\ at' = [a \in Sensor |-> IF a = "sof" THEN 1 ELSE 0]
      /\ next' = [g \in Groups |-> Firsts(g)]
      /\ \A g \in Groups : /\ up'[g] /\ queue'[g] = << >> /\ analysed'[g] = {}
                           /\ \A t \in Conds(g) : arrived'[g][t] = {} /\ next'[g][t] = FirstOf(t)
  BY GroupConstants DEF Start
<1>3. OwnTypes'
  BY <1>0, <1>2, Constants DEF OwnTypes
<1>4. Shape'
  BY <1>0 DEF Start, Shape
<1>5. PushesReady'
  BY <1>1, <1>2 DEF PushesReady
<1>6. SensorAhead'
  <2>1. \A a \in Sensor : \A t \in Posts(a) : FirstOf(t) =< at'[a]
    BY <1>2 DEF Posts, Sensor, FirstOf, Statistics
  <2>2. QED
    BY <2>1, <1>1, <1>2 DEF SensorAhead, Threads
<1>7. ResultsAfter'
  <2>1. \A h \in Groups : \A t \in Results(h) : FirstOf(t) = 2
    BY Tables
  <2>2. QED
    BY <2>1, <1>1, <1>2 DEF ResultsAfter, Threads
<1>8. IdsBounded'
  BY <1>2 DEF IdsBounded
<1>9. Phases'
  BY <1>0, <1>2, Constants, "AE" \in Groups DEF Phases, GroupTypeOK, Groups
<1>10. Delivered'
  <2>1. \A a \in Threads : Served(a)' = {}
    BY <1>2 DEF Served, Threads, Sensor
  <2>2. QED
    BY <2>1 DEF Delivered
<1>11. QED
  BY <1>3, <1>4, <1>5, <1>6, <1>7, <1>8, <1>9, <1>10 DEF Together

\* The stop of the sensor's threads, and of a group.
LEMMA StopKeeps ==
  ASSUME PipelineInv, StopSensor \/ \E g \in Groups : Stop(g)
  PROVE  OwnTypes' /\ Together'
<1>0. /\ OwnTypes /\ \A h \in Groups : GroupTypeOK(h)
      /\ Shape /\ PushesReady /\ SensorAhead /\ ResultsAfter /\ IdsBounded /\ Phases /\ Delivered
  BY Typed DEF Together
<1>1. CASE StopSensor
  <2>1. /\ streaming' = FALSE
        /\ UNCHANGED <<at, todo, up, queue, pending, arrived, analysed, lost, next, close, session, skipped>>
    BY <1>1 DEF StopSensor, collected, published
  <2>2. OwnTypes' /\ Shape' /\ PushesReady' /\ SensorAhead' /\ Phases'
    BY <2>1, <1>0 DEF OwnTypes, Shape, PushesReady, SensorAhead, Phases, UserId
  <2>3. ResultsAfter' /\ IdsBounded'
    BY <2>1, <1>0 DEF ResultsAfter, IdsBounded, UserId
  <2>4. Delivered'
    BY <2>1, <1>0 DEF Delivered, Served, Underway
  <2>5. QED
    BY <2>2, <2>3, <2>4 DEF Together
<1>2. ASSUME NEW g \in Groups, Stop(g) PROVE OwnTypes' /\ Together'
  <2>1. /\ ~streaming /\ \A a \in Sensor \cup {g} : todo[a] = {}
        /\ up' = [up EXCEPT ![g] = FALSE]
        /\ queue' = [queue EXCEPT ![g] = << >>]
        /\ DOMAIN pending' = DOMAIN pending
        /\ UNCHANGED <<streaming, at, todo, next, close, arrived, analysed, lost, session, skipped>>
    BY <1>2 DEF Stop, published
  <2>2. /\ DOMAIN up' = Groups /\ DOMAIN queue' = Groups
        /\ ~up'[g] /\ queue'[g] = << >>
        /\ \A h \in Groups : h /= g => up'[h] = up[h] /\ queue'[h] = queue[h]
    BY <2>1, <1>0 DEF Shape
  <2>3. OwnTypes' /\ Shape' /\ PushesReady' /\ SensorAhead'
    BY <2>1, <2>2, <1>0 DEF OwnTypes, Shape, PushesReady, SensorAhead, UserId
  <2>4. Phases'
    BY <2>1, <2>2, <1>0 DEF Phases
  <2>5. ResultsAfter' /\ IdsBounded'
    <3>1. \A h \in Groups : \A k \in DOMAIN queue'[h] : k \in DOMAIN queue[h] /\ queue'[h][k] = queue[h][k]
      BY <2>2
    <3>2. QED
      BY <3>1, <2>1, <1>0 DEF ResultsAfter, IdsBounded, UserId
  <2>6. Delivered'
    <3> SUFFICES ASSUME skipped = 0, NEW b \in Threads, NEW h \in Groups, up'[h],
                        NEW t \in Posts(b) \cap Conds(h), NEW f \in Served(b)
                 PROVE  Underway(b, h, t, f)'
      BY <2>1 DEF Delivered, Served
    <3>1. h /= g /\ up[h] /\ queue'[h] = queue[h]
      BY <2>2
    <3>2. Underway(b, h, t, f)
      BY <3>1, <1>0 DEF Delivered
    <3>3. QED
      BY <3>1, <3>2, <2>1 DEF Underway
  <2>7. QED
    BY <2>3, <2>4, <2>5, <2>6 DEF Together
<1>3. QED
  BY <1>1, <1>2

-----------------------------------------------------------------------------
(* The invariant, and what follows from it *)

\* The invariant holds at first.
LEMMA InvInit == Init => PipelineInv
<1> SUFFICES ASSUME Init PROVE PipelineInv
  OBVIOUS
<1>1. Ae!TypeOK /\ Awb!TypeOK /\ Grp0!TypeOK /\ Grp1!TypeOK /\ EachInv
  BY AeStarts, AwbStarts, Grp0Starts, Grp1Starts DEF EachInv
<1>2. /\ streaming = FALSE /\ skipped = 0 /\ at = [a \in Sensor |-> 0]
      /\ \A a \in Threads : todo[a] = {}
      /\ \A g \in Groups : /\ up[g] = FALSE /\ queue[g] = << >> /\ analysed[g] = {}
                           /\ \A t \in Conds(g) : arrived[g][t] = {} /\ next[g][t] = FirstOf(t)
  BY GroupConstants DEF Init
<1>3. OwnTypes /\ Shape
  <2>1. streaming \in BOOLEAN /\ skipped \in Nat /\ at \in [Sensor -> 0..(MaxFrame + 1)]
    <3>1. 0 \in 0..(MaxFrame + 1)
      BY Constants
    <3>2. QED
      BY <1>2, <3>1
  <2>2. todo \in [Threads -> SUBSET Push]
    BY DEF Init
  <2>3. Shape
    BY DEF Init, Shape
  <2>4. QED
    BY <2>1, <2>2, <2>3 DEF OwnTypes
<1>4. TypeOK
  BY <1>1, <1>3 DEF TypeOK, OwnTypes
<1>5. PushesReady /\ SensorAhead /\ IdsBounded /\ Phases
  BY <1>2 DEF PushesReady, SensorAhead, IdsBounded, Phases, Sensor, Threads
<1>6. ResultsAfter
  <2>1. \A h \in Groups : \A t \in Results(h) : FirstOf(t) = 2
    BY Tables
  <2>2. QED
    BY <2>1, <1>2 DEF ResultsAfter, Threads
<1>7. Delivered
  BY <1>2 DEF Delivered
<1>8. QED
  BY <1>1, <1>3, <1>4, <1>5, <1>6, <1>7 DEF PipelineInv, Together

\* Every step keeps what it says of the groups together.
LEMMA TogetherStep ==
  ASSUME PipelineInv, [Next]_vars
  PROVE  OwnTypes' /\ Together'
<1>0. OwnTypes /\ Together
  BY Typed
<1>1. CASE Sof
  <2>1. \A t \in Posts("sof") : DelayOf(t) = 0
    BY DEF Posts, DelayOf, Statistics
  <2>2. streaming => session \in 1..MaxSessions /\ LastFrame[session] \in 2..MaxFrame
    BY Typed, Constants, "AE" \in Groups DEF Groups, Together, Phases, GroupTypeOK
  <2>3. /\ streaming => \A t \in Posts("sof") : LastFrame[session] + DelayOf(t) =< MaxFrame
        /\ streaming
        /\ LastFrame[session] \in Int /\ "sof" \in Sensor
    BY <2>1, <2>2, <1>1, Constants DEF Sensor, Sof, Serve
  <2>4. Serve("sof", Posts("sof"), LastFrame[session])
    BY <1>1 DEF Sof, Posts
  <2>5. QED
    BY <2>3, <2>4, ServeKeeps
<1>2. CASE Stats
  <2>1. \A t \in Posts("stats") : DelayOf(t) = 2
    BY DEF Posts, DelayOf, Statistics
  <2>2. streaming => session \in 1..MaxSessions /\ LastFrame[session] \in 2..MaxFrame
    BY Typed, Constants, "AE" \in Groups DEF Groups, Together, Phases, GroupTypeOK
  <2>3. /\ streaming => \A t \in Posts("stats") : (LastFrame[session] - 2) + DelayOf(t) =< MaxFrame
        /\ streaming
        /\ LastFrame[session] - 2 \in Int /\ "stats" \in Sensor
    BY <2>1, <2>2, <1>2, Constants DEF Sensor, Stats, Serve
  <2>4. Serve("stats", Posts("stats"), LastFrame[session] - 2)
    BY <1>2 DEF Stats, Posts
  <2>5. QED
    BY <2>3, <2>4, ServeKeeps
<1>3. CASE \E a \in Threads : PushNext(a)
  BY <1>3, PushKeeps
<1>4. ASSUME NEW g \in Groups, Analyse(g) PROVE OwnTypes' /\ Together'
  <2>1. \A t \in Conds(g) : analysed'[g] \subseteq arrived'[g][t]
    BY GroupsKeep
  <2>2. QED
    BY <1>4, <2>1, AnalyseKeeps
<1>5. ASSUME NEW g \in Groups, Store(g) PROVE OwnTypes' /\ Together'
  BY <1>5, StoreKeeps
<1>6. CASE Start
  BY <1>6, StartKeeps
<1>7. CASE StopSensor \/ \E g \in Groups : Stop(g)
  BY <1>7, StopKeeps
<1>8. CASE UNCHANGED vars
  <2>1. UNCHANGED <<streaming, at, todo, up, queue, pending, arrived, analysed, lost, next, close, session, skipped>>
    BY <1>8 DEF vars, collected, published
  <2>2. OwnTypes' /\ Shape' /\ PushesReady' /\ SensorAhead' /\ Phases'
    BY <2>1, <1>0 DEF OwnTypes, Together, Shape, PushesReady, SensorAhead, Phases, UserId
  <2>3. ResultsAfter' /\ IdsBounded' /\ Delivered'
    BY <2>1, <1>0 DEF Together, ResultsAfter, IdsBounded, Delivered, Served, Underway, UserId
  <2>4. QED
    BY <2>2, <2>3 DEF Together
<1>9. QED
  BY <1>1, <1>2, <1>3, <1>4, <1>5, <1>6, <1>7, <1>8 DEF Next, Work, Handle

\* Every step keeps the invariant.
LEMMA InvStep == PipelineInv /\ [Next]_vars => PipelineInv'
<1> SUFFICES ASSUME PipelineInv, [Next]_vars PROVE PipelineInv'
  OBVIOUS
<1>1. Ae!TypeOK' /\ Awb!TypeOK' /\ Grp0!TypeOK' /\ Grp1!TypeOK' /\ EachInv'
  BY GroupsKeep
<1>2. OwnTypes' /\ Together'
  BY TogetherStep
<1>3. TypeOK'
  BY <1>1, <1>2 DEF TypeOK, OwnTypes
<1>4. QED
  BY <1>1, <1>2, <1>3 DEF PipelineInv

\* The invariant always holds.
LEMMA Invariant == Spec => []PipelineInv
BY InvInit, InvStep, PTL DEF Spec

\* Every variable of the four groups, of the threads and of the history keeps its type;
\* in particular nobody posts for a frame after the last of the session.
THEOREM TypeCorrect == Spec => []TypeOK
<1>1. PipelineInv => TypeOK
  BY DEF PipelineInv
<1>2. QED
  BY <1>1, Invariant, PTL

\* Each group of RkAiqCore, whose publishers are the sensor's threads and the other
\* groups, behaves as AnalyzerGroup says: what is proved there of any group with well
\* behaved publishers is true of these four.
THEOREM EachIsGroup == Spec => EachGroup
<1>1. Init => Ae!Init /\ Awb!Init /\ Grp0!Init /\ Grp1!Init
  BY AeStarts, AwbStarts, Grp0Starts, Grp1Starts
<1>2. PipelineInv /\ [Next]_vars => [Ae!Next]_(Ae!vars)
  BY AeStep
<1>3. PipelineInv /\ [Next]_vars => [Awb!Next]_(Awb!vars)
  BY AwbStep
<1>4. PipelineInv /\ [Next]_vars => [Grp0!Next]_(Grp0!vars)
  BY Grp0Step
<1>5. PipelineInv /\ [Next]_vars => [Grp1!Next]_(Grp1!vars)
  BY Grp1Step
<1>6. QED
  BY <1>1, <1>2, <1>3, <1>4, <1>5, Invariant, PTL DEF Spec, EachGroup, Ae!Spec, Awb!Spec, Grp0!Spec, Grp1!Spec

\* A group runs on a frame only after every group whose results it takes has, in the
\* same session, whatever the threads do and wherever stop comes in between.
THEOREM ResultsComeFirst == Spec => []ResultsFirst
<1>1. PipelineInv => ResultsFirst
  <2> SUFFICES ASSUME PipelineInv, NEW g \in Groups, NEW h \in Groups,
                      NEW t \in Results(h) \cap Conds(g)
               PROVE  analysed[g] \subseteq analysed[h]
    BY DEF ResultsFirst
  <2>1. arrived[g][t] \subseteq analysed[h]
    BY Typed DEF Together, ResultsAfter
  <2>2. analysed[g] \subseteq arrived[g][t]
    BY GroupKnown
  <2>3. QED
    BY <2>1, <2>2
<1>2. QED
  BY <1>1, Invariant, PTL

\* When all is handled, a frame that was served without a post left out has been
\* analysed by all groups or dropped by msgReduction in one: the condition tables make
\* no group wait for itself, and no message is lost on its way.
THEOREM NobodyWaitsInVain == Spec => []NobodyWaits
<1>1. PipelineInv => NobodyWaits
  <2> SUFFICES ASSUME PipelineInv, streaming, skipped = 0,
                      \A a \in Threads : todo[a] = {},
                      \A g \in Groups : queue[g] = << >>,
                      NEW i \in 2..MaxFrame, at["sof"] > i, at["stats"] > i - 2,
                      \A g \in Groups : i \notin lost[g]
               PROVE  \A g \in Groups : i \in analysed[g]
    BY DEF NobodyWaits
  <2>1. /\ Phases /\ Delivered /\ i \in Nat
        /\ at["sof"] \in Nat /\ at["stats"] \in Nat
    BY Typed, Constants DEF Together, OwnTypes, Sensor
  <2>2. \A g \in Groups : up[g]
    BY <2>1 DEF Phases
  <2>3. \A a \in Threads, g \in Groups : \A t \in Posts(a) \cap Conds(g) : \A f \in Served(a) :
          f + DelayOf(t) \in arrived[g][t]
    BY <2>1, <2>2 DEF Delivered, Underway
  <2>4. \A g \in Groups : "SOF" \in Conds(g) => i \in arrived[g]["SOF"]
    <3>1. "sof" \in Threads /\ "SOF" \in Posts("sof") /\ i \in Served("sof") /\ i + DelayOf("SOF") = i
      BY <2>1 DEF Threads, Sensor, Posts, Served, DelayOf, Statistics
    <3>2. QED
      BY <3>1, <2>3
  <2>5. \A g \in Groups : \A t \in Statistics \cap Conds(g) : i \in arrived[g][t]
    <3>1. "stats" \in Threads /\ Posts("stats") = Statistics /\ i - 2 \in Served("stats")
      BY <2>1 DEF Threads, Sensor, Posts, Served
    <3>2. \A t \in Statistics : (i - 2) + DelayOf(t) = i
      BY <2>1 DEF DelayOf
    <3>3. QED
      BY <3>1, <3>2, <2>3
  <2>6. \A g, h \in Groups : i \in analysed[h] => \A t \in Results(h) \cap Conds(g) : i \in arrived[g][t]
    <3> SUFFICES ASSUME NEW g \in Groups, NEW h \in Groups, i \in analysed[h],
                        NEW t \in Results(h) \cap Conds(g)
                 PROVE  i \in arrived[g][t]
      OBVIOUS
    <3>1. h \in Threads /\ Posts(h) = Results(h) /\ Served(h) = analysed[h]
      BY DEF Threads, Groups, Posts, Served
    <3>2. i + DelayOf(t) = i
      BY <2>1, Tables
    <3>3. QED
      BY <3>1, <3>2, <2>3
  <2>7. \A g \in Groups : (\A t \in Conds(g) : i \in arrived[g][t]) => i \in analysed[g]
    BY <2>1, GroupKnown
  <2>8. i \in analysed["AE"]
    <3>1. \A t \in Conds("AE") : t \in Statistics
      BY DEF Conds, AeCond, Statistics
    <3>2. QED
      BY <3>1, <2>5, <2>7, "AE" \in Groups DEF Groups
  <2>9. i \in analysed["AWB"]
    <3>1. \A t \in Conds("AWB") : t = "SOF" \/ t \in Statistics \/ t \in Results("AE")
      BY DEF Conds, AwbCond, Statistics, Results
    <3>2. QED
      BY <3>1, <2>4, <2>5, <2>6, <2>7, <2>8, "AE" \in Groups, "AWB" \in Groups DEF Groups
  <2>10. i \in analysed["GRP0"]
    <3>1. \A t \in Conds("GRP0") : t = "SOF" \/ t \in Statistics \/ t \in Results("AE")
      BY DEF Conds, Grp0Cond, Statistics, Results
    <3>2. QED
      BY <3>1, <2>4, <2>5, <2>6, <2>7, <2>8, "AE" \in Groups, "GRP0" \in Groups DEF Groups
  <2>11. i \in analysed["GRP1"]
    <3>1. \A t \in Conds("GRP1") : t = "SOF" \/ t \in Results("AWB")
      BY DEF Conds, Grp1Cond, Results
    <3>2. QED
      BY <3>1, <2>4, <2>6, <2>7, <2>9, "AWB" \in Groups, "GRP1" \in Groups DEF Groups
  <2>12. QED
    BY <2>8, <2>9, <2>10, <2>11 DEF Groups
<1>2. QED
  BY <1>1, Invariant, PTL

-----------------------------------------------------------------------------
(* What the theorems on AnalyzerGroup say of the groups together *)

\* No group holds a message of an earlier session, though the groups stopped first are
\* pushed to by those still up.
THEOREM SessionsSeparateTogether ==
  Spec => [](Ae!NoStaleMessage /\ Awb!NoStaleMessage /\ Grp0!NoStaleMessage /\ Grp1!NoStaleMessage)
<1>1. PipelineInv => Ae!NoStaleMessage /\ Awb!NoStaleMessage /\ Grp0!NoStaleMessage /\ Grp1!NoStaleMessage
  <2> SUFFICES ASSUME PipelineInv
               PROVE  Ae!NoStaleMessage /\ Awb!NoStaleMessage /\ Grp0!NoStaleMessage /\ Grp1!NoStaleMessage
    OBVIOUS
  <2>1. AeP!NoStaleMessage /\ AwbP!NoStaleMessage /\ Grp0P!NoStaleMessage /\ Grp1P!NoStaleMessage
    BY DEF PipelineInv, EachInv, AeP!GroupInv, AwbP!GroupInv, Grp0P!GroupInv, Grp1P!GroupInv
  <2>2. Ae!NoStaleMessage
    BY <2>1 DEF Ae!NoStaleMessage, AeP!NoStaleMessage, Ae!Range, AeP!Range
  <2>3. Awb!NoStaleMessage
    BY <2>1 DEF Awb!NoStaleMessage, AwbP!NoStaleMessage, Awb!Range, AwbP!Range
  <2>4. Grp0!NoStaleMessage
    BY <2>1 DEF Grp0!NoStaleMessage, Grp0P!NoStaleMessage, Grp0!Range, Grp0P!Range
  <2>5. Grp1!NoStaleMessage
    BY <2>1 DEF Grp1!NoStaleMessage, Grp1P!NoStaleMessage, Grp1!Range, Grp1P!Range
  <2>6. QED
    BY <2>2, <2>3, <2>4, <2>5
<1>2. QED
  BY <1>1, Invariant, PTL

\* The algorithms of each group run on ever later frames of a session, with the other
\* groups for publishers.
THEOREM InOrderTogether ==
  Spec => /\ Ae!AnalysisInOrder /\ Awb!AnalysisInOrder
          /\ Grp0!AnalysisInOrder /\ Grp1!AnalysisInOrder
<1>1. PipelineInv /\ [Next]_vars =>
        /\ [\A i \in analysed["AE"]' \ analysed["AE"], j \in analysed["AE"] : i > j]_(Ae!vars)
        /\ [\A i \in analysed["AWB"]' \ analysed["AWB"], j \in analysed["AWB"] : i > j]_(Awb!vars)
        /\ [\A i \in analysed["GRP0"]' \ analysed["GRP0"], j \in analysed["GRP0"] : i > j]_(Grp0!vars)
        /\ [\A i \in analysed["GRP1"]' \ analysed["GRP1"], j \in analysed["GRP1"] : i > j]_(Grp1!vars)
  BY AeKeeps, AwbKeeps, Grp0Keeps, Grp1Keeps
<1>2. QED
  BY <1>1, Invariant, PTL DEF Spec, Ae!AnalysisInOrder, Awb!AnalysisInOrder, Grp0!AnalysisInOrder, Grp1!AnalysisInOrder
=============================================================================
