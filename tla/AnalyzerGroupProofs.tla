------------------------- MODULE AnalyzerGroupProofs -------------------------
(***************************************************************************)
(* Proofs about AnalyzerGroup for any dependencies, delays, thresholds and *)
(* sessions.  Everything hangs on one fact about the input: the messages   *)
(* of a type are handled in the order of their frames (InputInOrder).      *)
(***************************************************************************)
EXTENDS AnalyzerGroup, FiniteSetTheorems, WellFoundedInduction, SequenceTheorems, TLAPS

\* A message of the queue is for a later frame than every handled message, and
\* every message queued before it, of its type.
InputInOrder ==
  /\ \A t \in Deps : \A i \in arrived[t] : i < next[t] + Delay[t]
  /\ \A k \in DOMAIN queue : queue[k].frame < next[queue[k].type]
  /\ \A k \in DOMAIN queue : \A i \in arrived[queue[k].type] : i < UserId(queue[k])
  /\ \A k, l \in DOMAIN queue :
       k < l /\ queue[k].type = queue[l].type => UserId(queue[k]) < UserId(queue[l])

\* What was analysed had arrived completely, what is pending came after it.
AnalysedArrived == \A t \in Deps : analysed \subseteq arrived[t]
PendingAfter == \A i \in DOMAIN pending, j \in analysed : i > j

\* While the group runs, an arrived message is in the map unless its frame was
\* dropped, or is no later than one analysed.
Collected ==
  up => \A t \in Deps : \A i \in arrived[t] :
          \/ i \in lost
          \/ \E j \in analysed : j >= i
          \/ i \in DOMAIN pending /\ t \in Types(pending[i])

\* The map is never ahead of the arrivals.
PendingArrived == \A i \in DOMAIN pending : \A t \in Types(pending[i]) : i \in arrived[t]

\* A stopped group has an empty map.
StoppedEmpty == ~up => DOMAIN pending = {}

GroupInv ==
  /\ InputInOrder
  /\ AnalysedArrived
  /\ PendingAfter
  /\ PendingArrived
  /\ Collected
  /\ StoppedEmpty
  /\ CompleteIsAnalysed
  /\ NoStaleMessage

-----------------------------------------------------------------------------
(* Lemmas about the operators *)

\* A message's frame id is a natural number.
LEMMA UserIdNat == ASSUME NEW m \in Message PROVE UserId(m) \in Nat
BY GroupAssumption DEF UserId, Message

\* What popping does to the queue.
LEMMA PopFacts ==
  ASSUME TypeOK, NEW m, Pop(m)
  PROVE  /\ m \in Message /\ m = queue[1] /\ 1 \in DOMAIN queue
         /\ queue' \in Seq(Message)
         /\ \A k \in DOMAIN queue' : k + 1 \in DOMAIN queue /\ queue'[k] = queue[k + 1]
<1>1. queue \in Seq(Message) /\ queue /= << >> /\ m = Head(queue) /\ queue' = Tail(queue)
  BY DEF Pop, TypeOK
<1>2. QED
  BY <1>1

\* The domain and the entries of the map after a message was collected.
LEMMA CollectFacts ==
  ASSUME NEW m
  PROVE  /\ DOMAIN Collect(m) = DOMAIN pending \cup {UserId(m)}
         /\ \A i \in DOMAIN pending : i /= UserId(m) => Collect(m)[i] = pending[i]
         /\ UserId(m) \in DOMAIN pending =>
              Collect(m)[UserId(m)] = pending[UserId(m)] \cup {m}
         /\ UserId(m) \notin DOMAIN pending => Collect(m)[UserId(m)] = {m}
BY DEF Collect, Filed

\* Restrict of the community module Functions.
LEMMA RestrictFacts ==
  ASSUME NEW f, NEW S
  PROVE  DOMAIN Restrict(f, S) = S /\ \A i \in S : Restrict(f, S)[i] = f[i]
BY DEF Restrict

-----------------------------------------------------------------------------
(* Type correctness *)

\* The initial state is of the types.
LEMMA TypeInit == Init => TypeOK
<1> SUFFICES ASSUME Init PROVE TypeOK
  OBVIOUS
<1>1. queue \in Seq(Message)
  BY EmptySeq DEF Init
<1>2. DOMAIN pending = {}
  BY DEF Init, Empty
<1>3. /\ next \in [Deps -> 0..(MaxFrame + 1)]
      /\ arrived \in [Deps -> SUBSET Nat]
      /\ session \in 0..MaxSessions
  BY GroupAssumption DEF Init
<1>4. QED
  BY <1>1, <1>2, <1>3 DEF Init, TypeOK

\* So is every next one.
LEMMA TypeStep == TypeOK /\ [Next]_vars => TypeOK'
<1> SUFFICES ASSUME TypeOK, [Next]_vars PROVE TypeOK'
  OBVIOUS
<1>0. << >> \in Seq(Message) /\ DOMAIN Empty = {}
  BY EmptySeq DEF Empty
<1>1. ASSUME NEW t \in Deps, Publish(t) PROVE TypeOK'
  <2>1. PICK f \in next[t]..MaxFrame :
          /\ queue' = Append(queue, [type |-> t, frame |-> f, session |-> session])
          /\ next' = [next EXCEPT ![t] = f + 1]
    BY <1>1 DEF Publish
  <2>2. f \in 0..MaxFrame /\ f + 1 \in 0..(MaxFrame + 1)
    BY <2>1, GroupAssumption DEF TypeOK
  <2>3. [type |-> t, frame |-> f, session |-> session] \in Message
    BY <2>2 DEF TypeOK, Message
  <2>4. queue' \in Seq(Message) /\ next' \in [Deps -> 0..(MaxFrame + 1)]
    BY <2>1, <2>2, <2>3 DEF TypeOK
  <2>5. QED
    BY <1>1, <2>4 DEF Publish, TypeOK, history
<1>2. ASSUME NEW m, Pop(m)
      PROVE  /\ UserId(m) \in Nat /\ up' \in BOOLEAN /\ close' \in BOOLEAN
             /\ queue' \in Seq(Message)
             /\ next' \in [Deps -> 0..(MaxFrame + 1)] /\ session' \in 0..MaxSessions
             /\ arrived' \in [Deps -> SUBSET Nat]
             /\ DOMAIN Collect(m) \subseteq Nat
             /\ \A i \in DOMAIN Collect(m) : Collect(m)[i] \subseteq Message
  <2>1. m \in Message /\ queue' \in Seq(Message)
    BY <1>2, PopFacts
  <2>2. UserId(m) \in Nat
    BY <2>1, UserIdNat
  <2>3. arrived' \in [Deps -> SUBSET Nat]
    BY <1>2, <2>1, <2>2 DEF Pop, TypeOK, Message
  <2>4. /\ DOMAIN Collect(m) \subseteq Nat
        /\ \A i \in DOMAIN Collect(m) : Collect(m)[i] \subseteq Message
    <3>0. /\ DOMAIN Collect(m) = DOMAIN pending \cup {UserId(m)}
          /\ \A i \in DOMAIN pending : i /= UserId(m) => Collect(m)[i] = pending[i]
          /\ UserId(m) \in DOMAIN pending => Collect(m)[UserId(m)] = pending[UserId(m)] \cup {m}
          /\ UserId(m) \notin DOMAIN pending => Collect(m)[UserId(m)] = {m}
      BY CollectFacts
    <3>1. ASSUME NEW i \in DOMAIN Collect(m) PROVE i \in Nat /\ Collect(m)[i] \subseteq Message
      <4>1. CASE i = UserId(m)
        BY <3>0, <4>1, <2>1, <2>2 DEF TypeOK
      <4>2. CASE i /= UserId(m)
        BY <3>0, <4>2 DEF TypeOK
      <4>3. QED
        BY <4>1, <4>2
    <3>2. QED
      BY <3>1
  <2>5. QED
    BY <1>2, <2>1, <2>2, <2>3, <2>4 DEF Pop, TypeOK
<1>3. CASE Analyse
  <2>1. PICK m : /\ Pop(m)
                 /\ pending' = Restrict(Collect(m), {i \in DOMAIN pending : i > UserId(m)})
                 /\ analysed' = analysed \cup {UserId(m)} /\ lost' = lost
    BY <1>3 DEF Analyse
  <2>2. DOMAIN pending' \subseteq Nat /\ \A i \in DOMAIN pending' : pending'[i] \subseteq Message
    <3>1. DOMAIN pending' = {i \in DOMAIN pending : i > UserId(m)}
      BY <2>1, RestrictFacts
    <3>2. \A i \in DOMAIN pending' : pending'[i] = Collect(m)[i] /\ i \in DOMAIN Collect(m)
      <4>1. \A i \in DOMAIN pending' : pending'[i] = Collect(m)[i]
        BY <2>1, <3>1, RestrictFacts
      <4>2. DOMAIN pending \subseteq DOMAIN Collect(m)
        BY CollectFacts
      <4>3. QED
        BY <3>1, <4>1, <4>2
    <3>3. QED
      BY <1>2, <2>1, <3>1, <3>2
  <2>3. QED
    BY <1>2, <2>1, <2>2 DEF TypeOK
<1>4. CASE Store
  <2>1. PICK m : /\ Pop(m)
                 /\ pending' = Restrict(Collect(m), DOMAIN Collect(m) \ Reduced(DOMAIN Collect(m)))
                 /\ lost' = lost \cup Reduced(DOMAIN Collect(m)) /\ analysed' = analysed
    BY <1>4 DEF Store
  <2>2. DOMAIN pending' \subseteq Nat /\ \A i \in DOMAIN pending' : pending'[i] \subseteq Message
    BY <1>2, <2>1, RestrictFacts
  <2>3. Reduced(DOMAIN Collect(m)) \subseteq Nat
    BY <1>2, <2>1 DEF Reduced, Dropped
  <2>4. QED
    BY <1>2, <2>1, <2>2, <2>3 DEF TypeOK
<1>5. CASE Start
  BY <1>5, <1>0, GroupAssumption DEF Start, TypeOK
<1>6. CASE Stop
  BY <1>6, <1>0 DEF Stop, TypeOK, history
<1>7. CASE UNCHANGED vars
  BY <1>7 DEF vars, TypeOK
<1>8. QED
  BY <1>1, <1>3, <1>4, <1>5, <1>6, <1>7 DEF Next

\* Every step keeps the variables in their types.
THEOREM TypeInvariant == Spec => []TypeOK
BY TypeInit, TypeStep, PTL DEF Spec

\* Handling a message keeps the input in order; the message is later than all
\* handled before it of its type.
LEMMA PopKeepsOrder ==
  ASSUME TypeOK, InputInOrder, NEW m, Pop(m)
  PROVE  /\ InputInOrder'
         /\ \A i \in arrived[m.type] : i < UserId(m)
<1> USE GroupAssumption
<1>1. /\ m \in Message /\ m = queue[1] /\ 1 \in DOMAIN queue
      /\ queue' \in Seq(Message)
      /\ \A k \in DOMAIN queue' : k + 1 \in DOMAIN queue /\ queue'[k] = queue[k + 1]
  BY PopFacts
<1>2. /\ m.type \in Deps
      /\ arrived'[m.type] = arrived[m.type] \cup {UserId(m)}
      /\ \A t \in Deps : t /= m.type => arrived'[t] = arrived[t]
      /\ next' = next
  BY <1>1 DEF Pop, TypeOK, Message
<1>3. \A i \in arrived[m.type] : i < UserId(m)
  BY <1>1 DEF InputInOrder
<1>4. \A t \in Deps : \A i \in arrived'[t] : i < next'[t] + Delay[t]
  <2>1. UserId(m) < next[m.type] + Delay[m.type]
    BY <1>1 DEF InputInOrder, UserId, Message, TypeOK
  <2>2. QED
    BY <1>2, <2>1 DEF InputInOrder
<1>5. \A k \in DOMAIN queue' : queue'[k].frame < next'[queue'[k].type]
  BY <1>1, <1>2 DEF InputInOrder
<1>6. \A k \in DOMAIN queue' : \A i \in arrived'[queue'[k].type] : i < UserId(queue'[k])
  <2> SUFFICES ASSUME NEW k \in DOMAIN queue', NEW i \in arrived'[queue'[k].type]
               PROVE  i < UserId(queue'[k])
    OBVIOUS
  <2>1. k + 1 \in DOMAIN queue /\ queue'[k] = queue[k + 1] /\ 1 < k + 1 /\ queue[k + 1] \in Message
    BY <1>1 DEF TypeOK
  <2>2. queue[k + 1].type \in Deps
    BY <2>1 DEF Message
  <2>3. CASE i \in arrived[queue[k + 1].type]
    BY <2>1, <2>3 DEF InputInOrder
  <2>4. CASE i \notin arrived[queue[k + 1].type]
    <3>1. i = UserId(queue[1]) /\ queue[k + 1].type = queue[1].type
      BY <1>1, <1>2, <2>1, <2>2, <2>4
    <3>2. QED
      BY <1>1, <2>1, <3>1 DEF InputInOrder
  <2>5. QED
    BY <2>3, <2>4
<1>7. \A k, l \in DOMAIN queue' :
        k < l /\ queue'[k].type = queue'[l].type => UserId(queue'[k]) < UserId(queue'[l])
  <2> SUFFICES ASSUME NEW k \in DOMAIN queue', NEW l \in DOMAIN queue', k < l,
                      queue'[k].type = queue'[l].type
               PROVE  UserId(queue'[k]) < UserId(queue'[l])
    OBVIOUS
  <2>1. /\ k + 1 \in DOMAIN queue /\ l + 1 \in DOMAIN queue /\ k + 1 < l + 1
        /\ queue'[k] = queue[k + 1] /\ queue'[l] = queue[l + 1]
    BY <1>1
  <2>2. QED
    BY <2>1 DEF InputInOrder
<1>8. QED
  BY <1>3, <1>4, <1>5, <1>6, <1>7 DEF InputInOrder, UserId

\* Publishing keeps the input in order.
LEMMA PublishKeepsOrder ==
  ASSUME TypeOK, InputInOrder, NEW t \in Deps, Publish(t)
  PROVE  InputInOrder'
<1> USE GroupAssumption
<1>1. PICK f \in next[t]..MaxFrame :
        /\ queue' = Append(queue, [type |-> t, frame |-> f, session |-> session])
        /\ next' = [next EXCEPT ![t] = f + 1]
  BY DEF Publish
<1>2. arrived' = arrived
  BY DEF Publish, history
<1>3. next[t] \in Nat /\ f \in Nat /\ f >= next[t] /\ Delay[t] \in Nat
  BY <1>1 DEF TypeOK
<1> DEFINE m == [type |-> t, frame |-> f, session |-> session]
           n == Len(queue) + 1
<1>4. /\ DOMAIN queue' = DOMAIN queue \cup {n} /\ queue'[n] = m
      /\ \A k \in DOMAIN queue : queue'[k] = queue[k] /\ queue[k] \in Message /\ k < n /\ n \notin DOMAIN queue
  <2>1. queue \in Seq(Message)
    BY DEF TypeOK
  <2> HIDE GroupAssumption
  <2>2. queue' = Append(queue, m)
    BY <1>1
  <2> HIDE DEF m
  <2>3. QED
    BY <2>1, <2>2
<1>4a. n \in Nat /\ \A k \in DOMAIN queue : k \in Nat
  BY DEF TypeOK
<1>5. UserId(m) = f + Delay[t]
  BY DEF UserId
<1>6. \A u \in Deps : next'[u] >= next[u] /\ next'[u] \in Int /\ next[u] \in Int /\ Delay[u] \in Int
  BY <1>1, <1>3 DEF TypeOK
<1>6a. next'[t] = f + 1 /\ m.type = t /\ m.frame = f
  BY <1>1 DEF TypeOK
<1>7. \A u \in Deps : \A i \in arrived'[u] : i < next'[u] + Delay[u]
  <2> SUFFICES ASSUME NEW u \in Deps, NEW i \in arrived[u] PROVE i < next'[u] + Delay[u]
    BY <1>2
  <2>1. i < next[u] + Delay[u] /\ i \in Nat
    BY DEF InputInOrder, TypeOK
  <2>2. QED
    BY <1>6, <2>1
<1>8. \A k \in DOMAIN queue' : queue'[k].frame < next'[queue'[k].type]
  <2>1. \A k \in DOMAIN queue : queue[k].frame < next'[queue[k].type]
    <3> SUFFICES ASSUME NEW k \in DOMAIN queue PROVE queue[k].frame < next'[queue[k].type]
      OBVIOUS
    <3>1. queue[k].type \in Deps /\ queue[k].frame \in Int /\ queue[k].frame < next[queue[k].type]
      BY <1>4 DEF InputInOrder, Message
    <3>2. QED
      BY <1>6, <3>1
  <2>2. m.frame < next'[m.type]
    BY <1>3, <1>6a
  <2>3. QED
    BY <1>4, <2>1, <2>2
<1>9. \A k \in DOMAIN queue' : \A i \in arrived'[queue'[k].type] : i < UserId(queue'[k])
  <2>1. \A i \in arrived[t] : i < UserId(m)
    <3> SUFFICES ASSUME NEW i \in arrived[t] PROVE i < f + Delay[t]
      BY <1>5
    <3>1. i < next[t] + Delay[t] /\ i \in Nat
      BY DEF InputInOrder, TypeOK
    <3>2. QED
      BY <1>3, <3>1
  <2>2. QED
    BY <1>2, <1>4, <1>6a, <2>1 DEF InputInOrder
<1>10. \A k, l \in DOMAIN queue' :
         k < l /\ queue'[k].type = queue'[l].type => UserId(queue'[k]) < UserId(queue'[l])
  <2>1. \A k \in DOMAIN queue : queue[k].type = t => UserId(queue[k]) < UserId(m)
    <3> SUFFICES ASSUME NEW k \in DOMAIN queue, queue[k].type = t
                 PROVE  queue[k].frame + Delay[t] < f + Delay[t]
      BY <1>5 DEF UserId
    <3>1. queue[k].frame < next[t] /\ queue[k].frame \in Nat
      BY <1>4 DEF InputInOrder, Message
    <3>2. QED
      BY <1>3, <3>1
  <2> SUFFICES ASSUME NEW k \in DOMAIN queue', NEW l \in DOMAIN queue', k < l,
                      queue'[k].type = queue'[l].type
               PROVE  UserId(queue'[k]) < UserId(queue'[l])
    OBVIOUS
  <2>2. k \in DOMAIN queue
    BY <1>4, <1>4a
  <2>3. CASE l = n
    BY <1>4, <1>6a, <2>1, <2>2, <2>3
  <2>4. CASE l \in DOMAIN queue
    BY <1>4, <2>2, <2>4 DEF InputInOrder
  <2>5. QED
    BY <1>4, <2>3, <2>4
<1>11. QED
  BY <1>7, <1>8, <1>9, <1>10 DEF InputInOrder, UserId
-----------------------------------------------------------------------------
(* The invariant *)

LEMMA GroupInvInit == Init => GroupInv
<1> SUFFICES ASSUME Init PROVE GroupInv
  OBVIOUS
<1>1. /\ DOMAIN queue = {} /\ DOMAIN pending = {} /\ up = FALSE /\ Range(queue) = {}
      /\ \A t \in Deps : arrived[t] = {}
  BY DEF Init, Empty, Range
<1>2. analysed = {}
  BY DEF Init
<1>3. UNION {arrived[t] : t \in Deps} = {}
  BY <1>1
<1>4. InputInOrder /\ AnalysedArrived /\ PendingAfter
  BY <1>1, <1>2 DEF InputInOrder, AnalysedArrived, PendingAfter
<1>5. PendingArrived /\ Collected /\ StoppedEmpty /\ CompleteIsAnalysed /\ NoStaleMessage
  BY <1>1, <1>3 DEF PendingArrived, Collected, StoppedEmpty, CompleteIsAnalysed, NoStaleMessage
<1>6. QED
  BY <1>4, <1>5 DEF GroupInv

\* What both outcomes of msgHandle do to the arrivals.
LEMMA PopArrives ==
  ASSUME TypeOK, NEW m, Pop(m)
  PROVE  /\ up /\ up' = up /\ session' = session
         /\ m.type \in Deps /\ m \in Range(queue)
         /\ arrived'[m.type] = arrived[m.type] \cup {UserId(m)}
         /\ \A t \in Deps : t /= m.type => arrived'[t] = arrived[t]
         /\ Range(queue') \subseteq Range(queue)
<1>1. /\ m \in Message /\ m = queue[1] /\ 1 \in DOMAIN queue
      /\ \A k \in DOMAIN queue' : k + 1 \in DOMAIN queue /\ queue'[k] = queue[k + 1]
  BY PopFacts
<1>2. m.type \in Deps
  BY <1>1 DEF Message
<1>3. QED
  BY <1>1, <1>2 DEF Pop, TypeOK, Range

\* An analysis keeps the invariant.
LEMMA AnalyseKeepsInv ==
  ASSUME TypeOK, GroupInv, Analyse
  PROVE  GroupInv'
<1> USE DEF GroupInv
<1>1. PICK m : /\ Pop(m)
               /\ Complete(Collect(m)[UserId(m)])
               /\ pending' = Restrict(Collect(m), {i \in DOMAIN pending : i > UserId(m)})
               /\ analysed' = analysed \cup {UserId(m)} /\ lost' = lost
  BY DEF Analyse
<1> DEFINE id == UserId(m)
<1>2. InputInOrder' /\ \A i \in arrived[m.type] : i < id
  BY <1>1, PopKeepsOrder
<1>3. /\ up /\ up' = up /\ session' = session
      /\ m.type \in Deps /\ m \in Range(queue)
      /\ arrived'[m.type] = arrived[m.type] \cup {id}
      /\ \A t \in Deps : t /= m.type => arrived'[t] = arrived[t]
      /\ Range(queue') \subseteq Range(queue)
  BY <1>1, PopArrives
<1>4. id \in Nat
  BY <1>1, PopFacts, UserIdNat
<1>5. /\ DOMAIN Collect(m) = DOMAIN pending \cup {id}
      /\ \A i \in DOMAIN pending : i /= id => Collect(m)[i] = pending[i]
      /\ id \in DOMAIN pending => Collect(m)[id] = pending[id] \cup {m}
      /\ id \notin DOMAIN pending => Collect(m)[id] = {m}
  BY CollectFacts
<1>6. /\ DOMAIN pending' = {i \in DOMAIN pending : i > id}
      /\ \A i \in DOMAIN pending' : pending'[i] = Collect(m)[i]
  BY <1>1, RestrictFacts
<1>7. \A i \in DOMAIN pending' : i \in DOMAIN pending /\ i > id /\ pending'[i] = pending[i]
  BY <1>4, <1>5, <1>6 DEF TypeOK
<1>8. \A j \in analysed : j < id /\ j \in Nat
  BY <1>2, <1>3 DEF AnalysedArrived, TypeOK
<1>9. \A t \in Deps : id \in arrived'[t]
  <2> SUFFICES ASSUME NEW t \in Deps PROVE id \in arrived'[t]
    OBVIOUS
  <2>1. PICK x \in Collect(m)[id] : x.type = t
    BY <1>1 DEF Complete, Types
  <2>2. CASE x = m
    BY <1>3, <2>1, <2>2
  <2>3. CASE x /= m
    <3>1. id \in DOMAIN pending /\ t \in Types(pending[id])
      BY <1>5, <2>1, <2>3 DEF Types
    <3>2. QED
      BY <1>3, <3>1 DEF PendingArrived
  <2>4. QED
    BY <2>2, <2>3
<1>10. AnalysedArrived'
  <2> SUFFICES ASSUME NEW t \in Deps, NEW j \in analysed' PROVE j \in arrived'[t]
    BY DEF AnalysedArrived
  <2>1. CASE j \in analysed
    BY <1>3, <2>1 DEF AnalysedArrived
  <2>2. CASE j = id
    BY <1>9, <2>2
  <2>3. QED
    BY <1>1, <2>1, <2>2
<1>11. PendingAfter'
  <2> SUFFICES ASSUME NEW i \in DOMAIN pending', NEW j \in analysed' PROVE i > j
    BY DEF PendingAfter
  <2>1. i > id /\ i \in Nat /\ (j = id \/ (j < id /\ j \in Nat))
    BY <1>1, <1>7, <1>8 DEF TypeOK
  <2>2. QED
    BY <1>4, <2>1
<1>12. PendingArrived'
  <2> SUFFICES ASSUME NEW i \in DOMAIN pending', NEW t \in Types(pending'[i])
               PROVE  i \in arrived'[t]
    BY DEF PendingArrived, Types
  <2>1. i \in DOMAIN pending /\ t \in Types(pending[i]) /\ t \in Deps
    BY <1>7 DEF Types, TypeOK, Message
  <2>2. QED
    BY <1>3, <2>1 DEF PendingArrived
<1>13. Collected'
  <2> SUFFICES ASSUME NEW t \in Deps, NEW i \in arrived'[t]
               PROVE  \/ i \in lost'
                      \/ \E j \in analysed' : j >= i
                      \/ i \in DOMAIN pending' /\ t \in Types(pending'[i])
    BY DEF Collected, Types
  <2>1. id \in analysed' /\ analysed \subseteq analysed' /\ lost' = lost
    BY <1>1
  <2>2. CASE i = id
    BY <1>4, <2>1, <2>2
  <2>3. CASE i /= id
    <3>1. i \in arrived[t] /\ i \in Nat
      BY <1>3, <2>3 DEF TypeOK
    <3>2. \/ i \in lost
          \/ \E j \in analysed : j >= i
          \/ i \in DOMAIN pending /\ t \in Types(pending[i])
      BY <1>3, <3>1 DEF Collected
    <3>3. CASE i \in DOMAIN pending /\ t \in Types(pending[i])
      <4>1. CASE i > id
        BY <1>6, <1>7, <3>3, <4>1 DEF Types
      <4>2. CASE ~(i > id)
        BY <1>4, <2>1, <3>1, <4>2
      <4>3. QED
        BY <4>1, <4>2
    <3>4. QED
      BY <2>1, <3>2, <3>3
  <2>4. QED
    BY <2>2, <2>3
<1>14. StoppedEmpty'
  BY <1>3 DEF StoppedEmpty
<1>15. CompleteIsAnalysed'
  <2> SUFFICES ASSUME NEW i, \A t \in Deps : i \in arrived'[t]
               PROVE  i \in analysed' \cup lost'
    BY DEF CompleteIsAnalysed
  <2>1. CASE i = id
    BY <1>1, <2>1
  <2>2. CASE i /= id
    <3>1. \A t \in Deps : i \in arrived[t]
      BY <1>3, <2>2
    <3>2. i \in analysed \cup lost
      BY <1>3, <3>1 DEF CompleteIsAnalysed
    <3>3. QED
      BY <1>1, <3>2
  <2>3. QED
    BY <2>1, <2>2
<1>16. NoStaleMessage'
  BY <1>3, <1>7 DEF NoStaleMessage
<1>17. QED
  BY <1>2, <1>10, <1>11, <1>12, <1>13, <1>14, <1>15, <1>16

\* A message that does not complete its frame is not the last one of it to arrive,
\* unless the frame was dropped.
LEMMA StoredIncomplete ==
  ASSUME TypeOK, GroupInv, NEW m, Pop(m), ~Complete(Collect(m)[UserId(m)]),
         UserId(m) \notin lost, \A t \in Deps : UserId(m) \in arrived'[t]
  PROVE  FALSE
<1> USE DEF GroupInv
<1> DEFINE id == UserId(m)
<1>1. /\ up /\ m.type \in Deps /\ m \in Range(queue)
      /\ arrived'[m.type] = arrived[m.type] \cup {id}
      /\ \A t \in Deps : t /= m.type => arrived'[t] = arrived[t]
  BY PopArrives
<1>2. id \in Nat /\ \A j \in analysed : j < id /\ j \in Nat
  <2>1. id \in Nat /\ \A j \in arrived[m.type] : j < id
    BY PopFacts, UserIdNat, PopKeepsOrder
  <2>2. QED
    BY <1>1, <2>1 DEF AnalysedArrived, TypeOK
<1>3. /\ id \in DOMAIN pending => Collect(m)[id] = pending[id] \cup {m}
      /\ id \notin DOMAIN pending => Collect(m)[id] = {m}
  BY CollectFacts
<1>4. \A t \in Deps : t \in Types(Collect(m)[id])
  <2> SUFFICES ASSUME NEW t \in Deps, t /= m.type PROVE t \in Types(Collect(m)[id])
    BY <1>1, <1>3 DEF Types
  <2>1. id \in arrived[t] /\ ~\E j \in analysed : j >= id
    BY <1>1, <1>2
  <2>2. id \in DOMAIN pending /\ t \in Types(pending[id])
    BY <1>1, <2>1 DEF Collected
  <2>3. QED
    BY <1>3, <2>2 DEF Types
<1>5. Types(Collect(m)[id]) \subseteq Deps
  <2>1. m \in Message
    BY PopFacts
  <2>2. \A x \in Collect(m)[id] : x.type \in Deps
    BY <1>3, <2>1 DEF TypeOK, Message
  <2>3. QED
    BY <2>2 DEF Types
<1>6. QED
  BY <1>4, <1>5 DEF Complete

\* Storing a message, with or without a reduction, keeps the invariant.
LEMMA StoreKeepsInv ==
  ASSUME TypeOK, GroupInv, Store
  PROVE  GroupInv'
<1> USE DEF GroupInv
<1>1. PICK m : /\ Pop(m)
               /\ ~Complete(Collect(m)[UserId(m)])
               /\ pending' = Restrict(Collect(m), DOMAIN Collect(m) \ Reduced(DOMAIN Collect(m)))
               /\ lost' = lost \cup Reduced(DOMAIN Collect(m)) /\ analysed' = analysed
  BY DEF Store
<1> DEFINE id   == UserId(m)
           gone == Reduced(DOMAIN Collect(m))
<1>2. InputInOrder' /\ \A i \in arrived[m.type] : i < id
  BY <1>1, PopKeepsOrder
<1>3. /\ up /\ up' = up /\ session' = session
      /\ m.type \in Deps /\ m \in Range(queue)
      /\ arrived'[m.type] = arrived[m.type] \cup {id}
      /\ \A t \in Deps : t /= m.type => arrived'[t] = arrived[t]
      /\ Range(queue') \subseteq Range(queue)
  BY <1>1, PopArrives
<1>4. id \in Nat
  BY <1>1, PopFacts, UserIdNat
<1>5. /\ DOMAIN Collect(m) = DOMAIN pending \cup {id}
      /\ \A i \in DOMAIN pending : i /= id => Collect(m)[i] = pending[i]
      /\ id \in DOMAIN pending => Collect(m)[id] = pending[id] \cup {m}
      /\ id \notin DOMAIN pending => Collect(m)[id] = {m}
  BY CollectFacts
<1>6. /\ DOMAIN pending' = (DOMAIN pending \cup {id}) \ gone
      /\ \A i \in DOMAIN pending' : pending'[i] = Collect(m)[i]
  BY <1>1, <1>5, RestrictFacts
<1>7. /\ \A i \in DOMAIN pending' : i /= id => i \in DOMAIN pending /\ pending'[i] = pending[i]
      /\ id \in DOMAIN pending' => pending'[id] = Collect(m)[id]
      /\ lost' = lost \cup gone
  BY <1>1, <1>5, <1>6
<1>7a. \A i \in DOMAIN pending' : \A x \in pending'[i] :
         \/ x = m /\ i = id
         \/ i \in DOMAIN pending /\ x \in pending[i]
  BY <1>5, <1>7
<1>8. \A j \in analysed : j < id /\ j \in Nat
  BY <1>2, <1>3 DEF AnalysedArrived, TypeOK
<1>10. AnalysedArrived'
  BY <1>1, <1>3 DEF AnalysedArrived
<1>11. PendingAfter'
  BY <1>1, <1>4, <1>7, <1>8 DEF PendingAfter
<1>12. PendingArrived'
  <2> SUFFICES ASSUME NEW i \in DOMAIN pending', NEW x \in pending'[i]
               PROVE  i \in arrived'[x.type]
    BY DEF PendingArrived, Types
  <2>1. CASE x = m /\ i = id
    BY <1>3, <2>1
  <2>2. CASE i \in DOMAIN pending /\ x \in pending[i]
    <3>1. i \in arrived[x.type] /\ x.type \in Deps
      BY <2>2 DEF PendingArrived, Types, TypeOK, Message
    <3>2. QED
      BY <1>3, <3>1
  <2>3. QED
    BY <1>7a, <2>1, <2>2
<1>13. Collected'
  <2> SUFFICES ASSUME NEW t \in Deps, NEW i \in arrived'[t]
               PROVE  \/ i \in lost'
                      \/ \E j \in analysed' : j >= i
                      \/ i \in DOMAIN pending' /\ t \in Types(pending'[i])
    BY DEF Collected, Types
  <2>1. CASE i \in gone
    BY <1>7, <2>1
  <2>2. CASE i \notin gone /\ i = id /\ t = m.type
    <3>1. id \in DOMAIN pending' /\ m \in pending'[id]
      BY <1>5, <1>6, <2>2
    <3>2. QED
      BY <2>2, <3>1 DEF Types
  <2>3. CASE i \notin gone /\ ~(i = id /\ t = m.type)
    <3>1. i \in arrived[t]
      BY <1>3, <2>3
    <3>2. \/ i \in lost
          \/ \E j \in analysed : j >= i
          \/ i \in DOMAIN pending /\ t \in Types(pending[i])
      BY <1>3, <3>1 DEF Collected
    <3>3. ASSUME i \in DOMAIN pending, t \in Types(pending[i])
          PROVE  i \in DOMAIN pending' /\ t \in Types(pending'[i])
      <4>1. i \in DOMAIN pending' /\ pending[i] \subseteq pending'[i]
        BY <1>5, <1>6, <2>3, <3>3
      <4>2. QED
        BY <3>3, <4>1 DEF Types
    <3>4. QED
      BY <1>1, <3>2, <3>3
  <2>4. QED
    BY <2>1, <2>2, <2>3
<1>14. StoppedEmpty'
  BY <1>3 DEF StoppedEmpty
<1>15. CompleteIsAnalysed'
  <2> SUFFICES ASSUME NEW i, \A t \in Deps : i \in arrived'[t], i \notin lost'
               PROVE  i \in analysed'
    BY DEF CompleteIsAnalysed
  <2>1. i /= id
    BY <1>1, <1>7, StoredIncomplete
  <2>2. \A t \in Deps : i \in arrived[t]
    BY <1>3, <2>1
  <2>3. i \in analysed \cup lost
    BY <1>3, <2>2 DEF CompleteIsAnalysed
  <2>4. QED
    BY <1>1, <2>3
<1>16. NoStaleMessage'
  <2>1. m.session = session
    BY <1>3 DEF NoStaleMessage
  <2>2. QED
    BY <1>3, <1>7a, <2>1 DEF NoStaleMessage
<1>17. QED
  BY <1>2, <1>10, <1>11, <1>12, <1>13, <1>14, <1>15, <1>16

\* Every step keeps the invariant.
LEMMA GroupStep == TypeOK /\ GroupInv /\ [Next]_vars => GroupInv'
<1> SUFFICES ASSUME TypeOK, GroupInv, [Next]_vars PROVE GroupInv'
  OBVIOUS
<1>1. ASSUME NEW t \in Deps, Publish(t) PROVE GroupInv'
  <2>1. InputInOrder'
    BY <1>1, PublishKeepsOrder DEF GroupInv
  <2>2. UNCHANGED <<up, pending, session, arrived, analysed, lost>>
    BY <1>1 DEF Publish, history
  <2>3. up => \A x \in Range(queue') : x.session = session
    <3>1. PICK x : queue' = Append(queue, x) /\ x.session = session
      BY <1>1 DEF Publish
    <3>2. Range(queue') = Range(queue) \cup {x}
      <4>1. /\ DOMAIN queue' = DOMAIN queue \cup {Len(queue) + 1}
            /\ queue'[Len(queue) + 1] = x
            /\ \A k \in DOMAIN queue : queue'[k] = queue[k]
        BY <3>1 DEF TypeOK
      <4>2. QED
        BY <4>1 DEF Range
    <3>3. QED
      BY <3>1, <3>2 DEF GroupInv, NoStaleMessage
  <2>4. QED
    BY <2>1, <2>2, <2>3 DEF GroupInv, AnalysedArrived, PendingAfter, PendingArrived,
      Collected, StoppedEmpty, CompleteIsAnalysed, NoStaleMessage, Types
<1>2. CASE Analyse
  BY <1>2, AnalyseKeepsInv
<1>3. CASE Store
  BY <1>3, StoreKeepsInv
<1>4. CASE Start
  <2>1. /\ DOMAIN pending = {} /\ pending' = pending /\ analysed' = {} /\ up'
        /\ \A t \in Deps : arrived'[t] = {}
        /\ DOMAIN queue' = {} /\ Range(queue') = {}
    BY <1>4 DEF Start, GroupInv, StoppedEmpty, Range
  <2>2. UNION {arrived'[t] : t \in Deps} = {}
    BY <2>1
  <2>3. InputInOrder' /\ AnalysedArrived' /\ PendingAfter'
    BY <2>1 DEF InputInOrder, AnalysedArrived, PendingAfter
  <2>4. PendingArrived' /\ Collected' /\ StoppedEmpty' /\ CompleteIsAnalysed' /\ NoStaleMessage'
    BY <2>1, <2>2 DEF PendingArrived, Collected, StoppedEmpty, CompleteIsAnalysed, NoStaleMessage
  <2>5. QED
    BY <2>3, <2>4 DEF GroupInv
<1>5. CASE Stop
  <2>1. /\ DOMAIN pending' = {} /\ up' = FALSE
        /\ DOMAIN queue' = {} /\ UNCHANGED <<next, session, arrived, analysed, lost>>
    BY <1>5 DEF Stop, Empty, history
  <2>2. InputInOrder' /\ AnalysedArrived' /\ PendingAfter'
    BY <2>1 DEF GroupInv, InputInOrder, AnalysedArrived, PendingAfter
  <2>3. PendingArrived' /\ Collected' /\ StoppedEmpty' /\ CompleteIsAnalysed' /\ NoStaleMessage'
    BY <2>1 DEF GroupInv, PendingArrived, Collected, StoppedEmpty, CompleteIsAnalysed,
      NoStaleMessage
  <2>4. QED
    BY <2>2, <2>3 DEF GroupInv
<1>6. CASE UNCHANGED vars
  BY <1>6 DEF vars, GroupInv, InputInOrder, AnalysedArrived, PendingAfter, PendingArrived,
    Collected, StoppedEmpty, CompleteIsAnalysed, NoStaleMessage, UserId, Types
<1>7. QED
  BY <1>1, <1>2, <1>3, <1>4, <1>5, <1>6 DEF Next

\* The invariant of a group.
LEMMA GroupInvariant == Spec => []GroupInv
BY GroupStep, GroupInvInit, TypeInvariant, PTL DEF Spec

-----------------------------------------------------------------------------
(* The size of the map *)

PendingBounded == IsFiniteSet(DOMAIN pending) /\ Cardinality(DOMAIN pending) =< MaxPending

LEMMA LeastElement ==
  ASSUME NEW S \in SUBSET Nat, S /= {}
  PROVE  \E k \in S : \A i \in S : k =< i
<1>1. PICK k \in S : \A i \in S : <<i, k>> \notin OpToRel(<, Nat)
  BY WFMin, NatLessThanWellFounded
<1>2. \A i \in S : ~(i < k)
  <2> SUFFICES ASSUME NEW i \in S, i < k PROVE <<i, k>> \in OpToRel(<, Nat)
    BY <1>1
  <2>1. <<i, k>> \in Nat \X Nat /\ <<i, k>>[1] < <<i, k>>[2]
    OBVIOUS
  <2>2. QED
    BY <2>1 DEF OpToRel
<1>3. QED
  BY <1>2

\* What msgReduction leaves is never more than MaxPending entries.
LEMMA ReducedBound ==
  ASSUME NEW ids \in SUBSET Nat, IsFiniteSet(ids)
  PROVE  /\ IsFiniteSet(ids \ Reduced(ids))
         /\ Cardinality(ids \ Reduced(ids)) =< MaxPending
<1> USE GroupAssumption
<1>1. IsFiniteSet(ids \ Reduced(ids)) /\ Cardinality(ids) \in Nat
  BY FS_Subset, FS_CardinalityType
<1>2. CASE Cardinality(ids) =< MaxPending
  <2>1. ids \ Reduced(ids) = ids
    BY <1>1, <1>2 DEF Reduced, Dropped
  <2>2. QED
    BY <1>1, <1>2, <2>1
<1>3. CASE Cardinality(ids) > MaxPending
  <2> DEFINE above(i) == {j \in ids : j >= i}
             kept     == ids \ Reduced(ids)
  <2>1. kept = {i \in ids : ~(Cardinality(above(i)) > KeepPending)}
    BY <1>3 DEF Reduced, Dropped
  <2>2. CASE kept = {}
    BY <1>1, <2>2, FS_EmptySet
  <2>3. CASE kept /= {}
    <3>1. PICK k \in kept : \A i \in kept : k =< i
      BY <2>3, LeastElement
    <3>2. kept \in SUBSET above(k)
      BY <3>1
    <3>3. IsFiniteSet(above(k)) /\ Cardinality(above(k)) \in Nat
      BY FS_Subset, FS_CardinalityType
    <3>4. Cardinality(above(k)) =< KeepPending
      BY <2>1, <3>1, <3>3
    <3>5. Cardinality(kept) =< Cardinality(above(k)) /\ Cardinality(kept) \in Nat
      BY <1>1, <3>2, <3>3, FS_Subset, FS_CardinalityType
    <3>6. QED
      BY <1>1, <3>3, <3>4, <3>5
  <2>4. QED
    BY <2>2, <2>3
<1>4. QED
  BY <1>1, <1>2, <1>3

LEMMA BoundInvariant == Spec => []PendingBounded
<1>1. Init => PendingBounded
  BY FS_EmptySet, GroupAssumption DEF Init, Empty, PendingBounded
<1>2. TypeOK /\ PendingBounded /\ [Next]_vars => PendingBounded'
  <2> SUFFICES ASSUME TypeOK, PendingBounded, [Next]_vars PROVE PendingBounded'
    OBVIOUS
  <2>1. CASE Analyse
    <3>1. PICK m : pending' = Restrict(Collect(m), {i \in DOMAIN pending : i > UserId(m)})
      BY <2>1 DEF Analyse
    <3>2. DOMAIN pending' \in SUBSET DOMAIN pending
      BY <3>1, RestrictFacts
    <3>3. /\ IsFiniteSet(DOMAIN pending') /\ Cardinality(DOMAIN pending') \in Nat
          /\ Cardinality(DOMAIN pending') =< Cardinality(DOMAIN pending)
          /\ Cardinality(DOMAIN pending) \in Nat
      BY <3>2, FS_Subset, FS_CardinalityType DEF PendingBounded
    <3>4. QED
      BY <3>3, GroupAssumption DEF PendingBounded
  <2>2. CASE Store
    <3>1. PICK m : /\ Pop(m)
                   /\ pending' = Restrict(Collect(m), DOMAIN Collect(m) \ Reduced(DOMAIN Collect(m)))
      BY <2>2 DEF Store
    <3>2. DOMAIN Collect(m) \in SUBSET Nat /\ IsFiniteSet(DOMAIN Collect(m))
      <4>1. DOMAIN Collect(m) = DOMAIN pending \cup {UserId(m)}
        BY CollectFacts
      <4>2. UserId(m) \in Nat
        BY <3>1, PopFacts, UserIdNat
      <4>3. IsFiniteSet(DOMAIN pending \cup {UserId(m)})
        BY FS_AddElement DEF PendingBounded
      <4>4. QED
        BY <4>1, <4>2, <4>3 DEF TypeOK
    <3>3. DOMAIN pending' = DOMAIN Collect(m) \ Reduced(DOMAIN Collect(m))
      BY <3>1, RestrictFacts
    <3>4. QED
      BY <3>2, <3>3, ReducedBound DEF PendingBounded
  <2>3. CASE Stop
    BY <2>3, FS_EmptySet, GroupAssumption DEF Stop, Empty, PendingBounded
  <2>4. CASE Start \/ (\E t \in Deps : Publish(t)) \/ UNCHANGED vars
    BY <2>4 DEF Start, Publish, vars, PendingBounded
  <2>5. QED
    BY <2>1, <2>2, <2>3, <2>4 DEF Next
<1>3. QED
  BY <1>1, <1>2, TypeInvariant, PTL DEF Spec

-----------------------------------------------------------------------------
(* Theorems *)

\* The map of a group holds at most MaxPending frames, all later than the last
\* analysed one.
THEOREM PendingNew == Spec => []PendingIsNew
<1>1. GroupInv /\ PendingBounded => PendingIsNew
  BY DEF GroupInv, PendingAfter, PendingBounded, PendingIsNew
<1>2. QED
  BY <1>1, GroupInvariant, BoundInvariant, PTL

\* A frame whose messages all arrived is analysed unless msgReduction dropped it.
THEOREM CompleteFrames == Spec => []CompleteIsAnalysed
<1>1. GroupInv => CompleteIsAnalysed
  BY DEF GroupInv
<1>2. QED
  BY <1>1, GroupInvariant, PTL

\* No message of an earlier session is handled or kept.
THEOREM SessionsSeparate == Spec => []NoStaleMessage
<1>1. GroupInv => NoStaleMessage
  BY DEF GroupInv
<1>2. QED
  BY <1>1, GroupInvariant, PTL

\* What a step adds to the analysed frames is later than all of them.
LEMMA OrderStep ==
  TypeOK /\ GroupInv /\ [Next]_vars => [\A i \in analysed' \ analysed, j \in analysed : i > j]_vars
<1> SUFFICES ASSUME TypeOK, GroupInv, [Next]_vars,
                    NEW i \in analysed' \ analysed, NEW j \in analysed
             PROVE  i > j
  OBVIOUS
<1>1. CASE Analyse
  <2>1. PICK m : Pop(m) /\ analysed' = analysed \cup {UserId(m)}
    BY <1>1 DEF Analyse
  <2>2. i = UserId(m) /\ m.type \in Deps
    BY <2>1, PopArrives
  <2>3. \A k \in arrived[m.type] : k < i
    BY <2>1, <2>2, PopKeepsOrder DEF GroupInv
  <2>4. j < i /\ j \in Nat /\ i \in Nat
    BY <2>1, <2>2, <2>3, PopFacts, UserIdNat DEF GroupInv, AnalysedArrived, TypeOK
  <2>5. QED
    BY <2>4
<1>2. CASE Start
  BY <1>2 DEF Start
<1>3. CASE Store \/ Stop \/ (\E t \in Deps : Publish(t)) \/ UNCHANGED vars
  BY <1>3 DEF Store, Stop, Publish, history, vars
<1>4. QED
  BY <1>1, <1>2, <1>3 DEF Next

\* The algorithms of a group run on ever later frames.
THEOREM InOrder == Spec => AnalysisInOrder
BY OrderStep, TypeInvariant, GroupInvariant, PTL DEF Spec, AnalysisInOrder

-----------------------------------------------------------------------------
(* msgReduction drops nothing while the publishers stay close: the frames in   *)
(* the map are then too few, for any number of types, delays and first frames. *)

\* The message of type u for id i was handled, or waits before place k.
Before(i, u, k) ==
  \/ i \in arrived[u]
  \/ \E l \in DOMAIN queue : l < k /\ queue[l].type = u /\ UserId(queue[l]) = i

\* The first id of type u.
Origin(u) == First[u] + Delay[u]

\* What was published has come, or is in the queue.
Published ==
  \A u \in Deps : \A i \in Nat :
    Origin(u) =< i /\ i < next[u] + Delay[u] => Before(i, u, Len(queue) + 1)

\* A message has every message before it that is MaxSkew frames behind.
QueueClose ==
  \A k \in DOMAIN queue : \A u \in Deps : \A i \in Nat :
    Origin(u) =< i /\ i + MaxSkew =< UserId(queue[k]) => Before(i, u, k)

\* So has every message that was handled.
ArrivedClose ==
  \A t, u \in Deps : \A j \in arrived[t] : \A i \in Nat :
    Origin(u) =< i /\ i + MaxSkew =< j => i \in arrived[u]

\* The inductive invariant.
SkewInv == up /\ close => Published /\ QueueClose /\ ArrivedClose

\* The map has room for the frames that may wait.
Room == \A t \in Deps : MaxSkew + First[t] + Delay[t] =< MaxPending

-----------------------------------------------------------------------------
(* The invariant *)

\* Sums of the constants are natural numbers.
LEMMA Naturals0 ==
  ASSUME NEW u \in Deps
  PROVE  Origin(u) \in Nat /\ Delay[u] \in Nat /\ First[u] \in Nat /\ MaxSkew \in Nat
BY GroupAssumption DEF Origin

\* A message that is published is close to the others.
LEMMA PublishKeepsSkew ==
  ASSUME TypeOK, SkewInv, NEW t \in Deps, Publish(t)
  PROVE  SkewInv'
<1> SUFFICES ASSUME up, close' PROVE Published' /\ QueueClose' /\ ArrivedClose'
  BY DEF SkewInv, Publish
<1>1. PICK f \in next[t]..MaxFrame :
        /\ close' = (close /\ f = next[t] /\ WithinSkew(t, f))
        /\ queue' = Append(queue, [type |-> t, frame |-> f, session |-> session])
        /\ next' = [next EXCEPT ![t] = f + 1]
  BY DEF Publish
<1>2. arrived' = arrived
  BY DEF Publish, history
<1>3. close /\ f = next[t] /\ WithinSkew(t, f)
  BY <1>1, Zenon
<1>4. Published /\ QueueClose /\ ArrivedClose
  BY <1>3 DEF SkewInv
<1> DEFINE m == [type |-> t, frame |-> f, session |-> session]
           n == Len(queue) + 1
<1>5. f \in Nat /\ n \in Nat /\ \A u \in Deps : next[u] \in Nat
  BY <1>3, GroupAssumption DEF TypeOK
<1>6. UserId(m) = f + Delay[t] /\ m.type = t
  BY DEF UserId
<1>7. /\ DOMAIN queue' = DOMAIN queue \cup {n} /\ queue'[n] = m
      /\ \A k \in DOMAIN queue : queue'[k] = queue[k] /\ k < n /\ k \in Nat
      /\ Len(queue') = n
  <2>1. queue \in Seq(Message) /\ queue' = Append(queue, m)
    BY <1>1 DEF TypeOK
  <2> HIDE DEF m
  <2>2. QED
    BY <2>1
<1> HIDE DEF m
<1>8. \A i \in Nat, u \in Deps, k \in DOMAIN queue \cup {n} : Before(i, u, k) => Before(i, u, k)'
  BY <1>2, <1>7 DEF Before, UserId
<1>9. \A u \in Deps : next'[u] = IF u = t THEN f + 1 ELSE next[u]
  BY <1>1 DEF TypeOK
<1>10. Published'
  <2> SUFFICES ASSUME NEW u \in Deps, NEW i \in Nat, Origin(u) =< i, i < next'[u] + Delay[u]
               PROVE  \/ i \in arrived[u]
                      \/ \E l \in DOMAIN queue' :
                           l < n + 1 /\ queue'[l].type = u /\ UserId(queue'[l]) = i
    BY <1>2, <1>7 DEF Published, Before, Origin, UserId
  <2>1. CASE i < next[u] + Delay[u]
    <3>1. Before(i, u, n)
      BY <1>4, <2>1 DEF Published
    <3>2. QED
      BY <1>5, <1>7, <3>1 DEF Before
  <2>2. CASE ~(i < next[u] + Delay[u])
    <3>0. Delay[u] \in Nat /\ next[u] \in Nat /\ f \in Nat /\ f = next[t]
      BY <1>3, <1>5, Naturals0
    <3>1. u = t /\ i = f + Delay[t]
      <4>1. CASE u /= t
        BY <1>9, <2>2, <4>1
      <4>2. CASE u = t
        BY <1>9, <2>2, <3>0, <4>2
      <4>3. QED
        BY <4>1, <4>2
    <3>2. n \in DOMAIN queue' /\ n < n + 1 /\ queue'[n].type = u /\ UserId(queue'[n]) = i
      BY <1>5, <1>6, <1>7, <3>1
    <3>3. QED
      BY <3>2
  <2>3. QED
    BY <2>1, <2>2
<1>11. QueueClose'
  <2> SUFFICES ASSUME NEW k \in DOMAIN queue', NEW u \in Deps, NEW i \in Nat,
                      Origin(u) =< i, i + MaxSkew =< UserId(queue'[k])
               PROVE  Before(i, u, k)
    BY <1>7, <1>8 DEF QueueClose, Origin, UserId
  <2>1. CASE k \in DOMAIN queue
    BY <1>4, <1>7, <2>1 DEF QueueClose
  <2>2. CASE k = n
    <3>1. f + Delay[t] < next[u] + Delay[u] + MaxSkew
      BY <1>3 DEF WithinSkew
    <3>2. i < next[u] + Delay[u]
      BY <1>5, <1>6, <1>7, <2>2, <3>1, Naturals0
    <3>3. QED
      BY <1>4, <2>2, <3>2 DEF Published
  <2>3. QED
    BY <1>7, <2>1, <2>2
<1>12. ArrivedClose'
  BY <1>2, <1>4 DEF ArrivedClose, Origin
<1>13. QED
  BY <1>10, <1>11, <1>12

\* The first message of the queue has everything before it handled.
LEMMA PopKeepsSkew ==
  ASSUME TypeOK, SkewInv, NEW m, Pop(m)
  PROVE  SkewInv'
<1> SUFFICES ASSUME up, close PROVE Published' /\ QueueClose' /\ ArrivedClose'
  BY DEF SkewInv, Pop
<1>1. Published /\ QueueClose /\ ArrivedClose
  BY DEF SkewInv
<1>2. /\ m = queue[1] /\ 1 \in DOMAIN queue
      /\ \A k \in DOMAIN queue' : k + 1 \in DOMAIN queue /\ queue'[k] = queue[k + 1]
  BY PopFacts
<1>3. /\ m.type \in Deps /\ next' = next
      /\ arrived'[m.type] = arrived[m.type] \cup {UserId(m)}
      /\ \A t \in Deps : t /= m.type => arrived'[t] = arrived[t]
  BY PopArrives DEF Pop
<1>4. /\ DOMAIN queue \subseteq Nat /\ DOMAIN queue' \subseteq Nat
      /\ \A l \in DOMAIN queue : l = 1 \/ (l - 1 \in DOMAIN queue' /\ l = (l - 1) + 1)
      /\ Len(queue) \in Nat /\ Len(queue') = Len(queue) - 1
  BY DEF Pop, TypeOK
<1>5. \A i \in Nat, u \in Deps, k \in Nat :
        Before(i, u, k + 1) =>
          \/ i \in arrived'[u]
          \/ \E l \in DOMAIN queue' : l < k /\ queue'[l].type = u /\ UserId(queue'[l]) = i
  <2> SUFFICES ASSUME NEW i \in Nat, NEW u \in Deps, NEW k \in Nat, Before(i, u, k + 1)
               PROVE  \/ i \in arrived'[u]
                      \/ \E l \in DOMAIN queue' : l < k /\ queue'[l].type = u /\ UserId(queue'[l]) = i
    OBVIOUS
  <2>1. CASE i \in arrived[u]
    BY <1>3, <2>1
  <2>2. ASSUME NEW l \in DOMAIN queue, l < k + 1, queue[l].type = u, UserId(queue[l]) = i
        PROVE  \/ i \in arrived'[u]
               \/ \E j \in DOMAIN queue' : j < k /\ queue'[j].type = u /\ UserId(queue'[j]) = i
    <3>1. CASE l = 1
      BY <1>2, <1>3, <2>2, <3>1
    <3>2. CASE l /= 1
      <4>1. l - 1 \in DOMAIN queue' /\ queue'[l - 1] = queue[l] /\ l - 1 < k
        BY <1>2, <1>4, <2>2, <3>2
      <4>2. QED
        BY <2>2, <4>1
    <3>3. QED
      BY <3>1, <3>2
  <2>3. QED
    BY <2>1, <2>2 DEF Before
<1>6. Published'
  <2> SUFFICES ASSUME NEW u \in Deps, NEW i \in Nat, Origin(u) =< i, i < next[u] + Delay[u]
               PROVE  \/ i \in arrived'[u]
                      \/ \E l \in DOMAIN queue' :
                           l < Len(queue') + 1 /\ queue'[l].type = u /\ UserId(queue'[l]) = i
    BY <1>3 DEF Published, Before, Origin, UserId
  <2>1. Before(i, u, Len(queue) + 1)
    BY <1>1 DEF Published
  <2>2. Len(queue) \in Nat /\ Len(queue) = Len(queue') + 1
    BY <1>4
  <2>3. QED
    BY <1>5, <2>1, <2>2
<1>7. QueueClose'
  <2> SUFFICES ASSUME NEW k \in DOMAIN queue', NEW u \in Deps, NEW i \in Nat,
                      Origin(u) =< i, i + MaxSkew =< UserId(queue'[k])
               PROVE  Before(i, u, k)'
    BY DEF QueueClose, Origin, UserId
  <2>1. k + 1 \in DOMAIN queue /\ queue'[k] = queue[k + 1] /\ k \in Nat
    BY <1>2, <1>4
  <2>2. Before(i, u, k + 1)
    BY <1>1, <2>1 DEF QueueClose
  <2>3. QED
    BY <1>5, <2>1, <2>2 DEF Before, UserId
<1>8. ArrivedClose'
  <2> SUFFICES ASSUME NEW t \in Deps, NEW u \in Deps, NEW j \in arrived'[t], NEW i \in Nat,
                      Origin(u) =< i, i + MaxSkew =< j
               PROVE  i \in arrived[u]
    BY <1>3 DEF ArrivedClose, Origin
  <2>1. CASE j \in arrived[t]
    BY <1>1, <2>1 DEF ArrivedClose
  <2>2. CASE j = UserId(m)
    <3>1. Before(i, u, 1)
      BY <1>1, <1>2, <2>2 DEF QueueClose
    <3>2. \A l \in DOMAIN queue : ~(l < 1)
      BY DEF TypeOK
    <3>3. QED
      BY <3>1, <3>2 DEF Before
  <2>3. QED
    BY <1>3, <2>1, <2>2
<1>9. QED
  BY <1>6, <1>7, <1>8

\* The invariant holds in every state.
LEMMA SkewInvariant == Spec => []SkewInv
<1>1. Init => SkewInv
  BY DEF Init, SkewInv
<1>2. TypeOK /\ SkewInv /\ [Next]_vars => SkewInv'
  <2> SUFFICES ASSUME TypeOK, SkewInv, [Next]_vars PROVE SkewInv'
    OBVIOUS
  <2>1. ASSUME NEW t \in Deps, Publish(t) PROVE SkewInv'
    BY <2>1, PublishKeepsSkew
  <2>2. CASE Analyse \/ Store
    <3>1. PICK m : Pop(m)
      BY <2>2 DEF Analyse, Store
    <3>2. QED
      BY <3>1, PopKeepsSkew
  <2>3. CASE Start
    <3>1. /\ next' = First /\ DOMAIN queue' = {}
          /\ \A t \in Deps : arrived'[t] = {}
      BY <2>3 DEF Start
    <3>2. Published'
      <4>1. \A u \in Deps, i \in Nat : ~(Origin(u) =< i /\ i < next'[u] + Delay[u])
        BY <3>1, GroupAssumption DEF Origin
      <4>2. QED
        BY <4>1 DEF Published, Origin
    <3>3. QueueClose' /\ ArrivedClose'
      BY <3>1 DEF QueueClose, ArrivedClose
    <3>4. QED
      BY <3>2, <3>3 DEF SkewInv
  <2>4. CASE Stop
    BY <2>4 DEF Stop, SkewInv
  <2>5. CASE UNCHANGED vars
    BY <2>5 DEF vars, SkewInv, Published, QueueClose, ArrivedClose, Before, Origin, UserId
  <2>6. QED
    BY <2>1, <2>2, <2>3, <2>4, <2>5 DEF Next
<1>3. QED
  BY <1>1, <1>2, TypeInvariant, PTL DEF Spec

-----------------------------------------------------------------------------
(* The theorem *)

\* A frame of the map has a message.
NonEmpty == \A i \in DOMAIN pending : pending[i] /= {}

\* The entries of the map are never empty.
LEMMA NonEmptyInvariant == Spec => []NonEmpty
<1>1. Init => NonEmpty
  BY DEF Init, Empty, NonEmpty
<1>2. NonEmpty /\ [Next]_vars => NonEmpty'
  <2> SUFFICES ASSUME NonEmpty, [Next]_vars PROVE NonEmpty'
    OBVIOUS
  <2>1. ASSUME NEW m, NEW S, S \subseteq DOMAIN Collect(m), pending' = Restrict(Collect(m), S)
        PROVE  NonEmpty'
    <3>1. DOMAIN pending' = S /\ \A i \in S : pending'[i] = Collect(m)[i]
      BY <2>1, RestrictFacts
    <3>2. \A i \in DOMAIN Collect(m) : Collect(m)[i] /= {}
      BY DEF Collect, Filed, NonEmpty
    <3>3. QED
      BY <2>1, <3>1, <3>2 DEF NonEmpty
  <2>2. CASE Analyse
    <3>1. PICK m : pending' = Restrict(Collect(m), {i \in DOMAIN pending : i > UserId(m)})
      BY <2>2 DEF Analyse
    <3>2. {i \in DOMAIN pending : i > UserId(m)} \subseteq DOMAIN Collect(m)
      BY CollectFacts
    <3>3. QED
      BY <2>1, <3>1, <3>2
  <2>3. CASE Store
    <3>1. PICK m : pending' = Restrict(Collect(m), DOMAIN Collect(m) \ Reduced(DOMAIN Collect(m)))
      BY <2>3 DEF Store
    <3>2. QED
      BY <2>1, <3>1
  <2>4. CASE Stop
    BY <2>4 DEF Stop, Empty, NonEmpty
  <2>5. CASE Start \/ (\E t \in Deps : Publish(t)) \/ UNCHANGED vars
    BY <2>5 DEF Start, Publish, vars, NonEmpty
  <2>6. QED
    BY <2>2, <2>3, <2>4, <2>5 DEF Next
<1>3. QED
  BY <1>1, <1>2, PTL DEF Spec

\* Of two frames that wait, the later one is among the first frames or less than
\* MaxSkew ahead: what is MaxSkew behind it is complete, hence analysed.
LEMMA FramesAreClose ==
  ASSUME TypeOK, GroupInv, SkewInv', NonEmpty, close, lost = {},
         NEW m, Pop(m), ~Complete(Collect(m)[UserId(m)]),
         NEW i \in DOMAIN Collect(m), NEW h \in DOMAIN Collect(m),
         \A u \in Deps : Origin(u) + MaxSkew =< h
  PROVE  h < i + MaxSkew
<1> DEFINE id == UserId(m)
<1>1. DOMAIN Collect(m) = DOMAIN pending \cup {id}
  BY CollectFacts
<1>2. /\ up /\ up' /\ close' = close /\ m.type \in Deps
      /\ arrived'[m.type] = arrived[m.type] \cup {id}
      /\ \A t \in Deps : t /= m.type => arrived'[t] = arrived[t]
  BY PopArrives DEF Pop
<1>3. id \in Nat /\ i \in Nat /\ h \in Nat /\ MaxSkew \in Nat
  BY <1>1, PopFacts, UserIdNat, GroupAssumption DEF TypeOK
<1>4. PICK t \in Deps : h \in arrived'[t]
  <2>1. CASE h = id
    BY <1>2, <2>1
  <2>2. CASE h \in DOMAIN pending
    <3>1. PICK x \in pending[h] : TRUE
      BY <2>2 DEF NonEmpty
    <3>2. x.type \in Deps /\ h \in arrived[x.type]
      BY <2>2, <3>1 DEF GroupInv, PendingArrived, Types, TypeOK, Message
    <3>3. QED
      BY <1>2, <3>2
  <2>3. QED
    BY <1>1, <2>1, <2>2
<1> DEFINE old == h - MaxSkew
<1>5. old \in Nat /\ old + MaxSkew =< h /\ \A u \in Deps : Origin(u) =< old
  <2>1. \A u \in Deps : Origin(u) \in Nat
    BY Naturals0
  <2>2. Deps /= {}
    BY GroupAssumption
  <2>3. QED
    BY <1>3, <2>1, <2>2
<1>6. \A u \in Deps : old \in arrived'[u]
  <2>1. \A u \in Deps : \A k \in Nat : Origin(u) =< k /\ k + MaxSkew =< h => k \in arrived'[u]
    BY <1>2, <1>4 DEF SkewInv, ArrivedClose, Origin
  <2>2. QED
    BY <1>5, <2>1
<1>7. old /= id
  BY <1>6, StoredIncomplete
<1>8. old \in analysed
  <2>1. \A u \in Deps : old \in arrived[u]
    BY <1>2, <1>6, <1>7
  <2>2. QED
    BY <2>1, GroupAssumption DEF GroupInv, CompleteIsAnalysed
<1>9. old < i
  <2>1. CASE i \in DOMAIN pending
    BY <1>8, <2>1, <1>3, <1>5 DEF GroupInv, PendingAfter
  <2>2. CASE i = id
    BY <1>2, <1>8, <2>2, PopKeepsOrder DEF GroupInv, AnalysedArrived
  <2>3. QED
    BY <1>1, <2>1, <2>2
<1>10. QED
  BY <1>3, <1>9

\* So the map has room for all frames that wait.
LEMMA MapIsSmall ==
  ASSUME TypeOK, GroupInv, SkewInv', NonEmpty, PendingBounded, Room, close, lost = {},
         NEW m, Pop(m), ~Complete(Collect(m)[UserId(m)])
  PROVE  Cardinality(DOMAIN Collect(m)) =< MaxPending
<1> DEFINE ids == DOMAIN Collect(m)
<1>1. ids \in SUBSET Nat /\ ids /= {} /\ MaxSkew \in Nat /\ MaxPending \in Nat
  <2>1. UserId(m) \in Nat /\ ids = DOMAIN pending \cup {UserId(m)}
    BY CollectFacts, PopFacts, UserIdNat
  <2>2. QED
    BY <2>1, GroupAssumption DEF TypeOK
<1>2. \A u \in Deps : Origin(u) + MaxSkew =< MaxPending /\ Origin(u) \in Nat
  BY <1>1, Naturals0 DEF Room, Origin
<1>3. PICK least \in ids : \A i \in ids : least =< i
  BY <1>1, LeastElement
<1>4. MaxSkew =< MaxPending
  <2>1. PICK u \in Deps : TRUE
    BY GroupAssumption
  <2>2. QED
    BY <1>1, <1>2, <2>1
<1>5. CASE \E h \in ids : \A u \in Deps : Origin(u) + MaxSkew =< h
  <2>1. PICK h \in ids : \A u \in Deps : Origin(u) + MaxSkew =< h
    BY <1>5
  <2>2. h < least + MaxSkew
    BY <1>3, <2>1, FramesAreClose
  <2>3. ASSUME NEW i \in ids PROVE i < least + MaxSkew
    <3>1. CASE \A u \in Deps : Origin(u) + MaxSkew =< i
      BY <1>3, <3>1, FramesAreClose
    <3>2. CASE \E u \in Deps : ~(Origin(u) + MaxSkew =< i)
      <4>1. i < h
        BY <1>1, <1>2, <2>1, <3>2
      <4>2. QED
        BY <1>1, <1>3, <2>2, <4>1
    <3>3. QED
      BY <3>1, <3>2
  <2> DEFINE last == least + MaxSkew - 1
  <2>4. least \in Int /\ last \in Int /\ ids \in SUBSET (least .. last)
    BY <1>1, <1>3, <2>3
  <2>5. IsFiniteSet(least .. last) /\ Cardinality(least .. last) =< MaxSkew
    BY <1>1, <2>4, FS_Interval
  <2>6. Cardinality(ids) =< Cardinality(least .. last) /\ Cardinality(ids) \in Nat
        /\ Cardinality(least .. last) \in Nat
    BY <2>4, <2>5, FS_Subset, FS_CardinalityType
  <2>7. QED
    BY <1>1, <1>4, <2>5, <2>6
<1>6. CASE \A h \in ids : \E u \in Deps : ~(Origin(u) + MaxSkew =< h)
  <2>1. ids \in SUBSET (0 .. (MaxPending - 1))
    <3>1. ASSUME NEW h \in ids PROVE h \in 0 .. (MaxPending - 1)
      <4>1. PICK u \in Deps : ~(Origin(u) + MaxSkew =< h)
        BY <1>6
      <4>2. QED
        BY <1>1, <1>2, <4>1
    <3>2. QED
      BY <3>1
  <2>2. IsFiniteSet(0 .. (MaxPending - 1)) /\ Cardinality(0 .. (MaxPending - 1)) = MaxPending
    <3>1. 0 \in Int /\ MaxPending - 1 \in Int /\ (MaxPending - 1) - 0 + 1 = MaxPending
          /\ (0 > MaxPending - 1 => MaxPending = 0)
      BY <1>1
    <3>2. /\ IsFiniteSet(0 .. (MaxPending - 1))
          /\ Cardinality(0 .. (MaxPending - 1)) =
               IF 0 > MaxPending - 1 THEN 0 ELSE (MaxPending - 1) - 0 + 1
      BY <3>1, FS_Interval
    <3>3. QED
      BY <3>1, <3>2
  <2>3. QED
    BY <2>1, <2>2, FS_Subset
<1>7. QED
  BY <1>5, <1>6

\* msgReduction drops no frame as long as nothing is skipped and the types stay
\* close, if the map has room for MaxSkew frames after the first complete one.
THEOREM NoFrameLost == Spec => []NothingLost
<1>1. Init => NothingLost
  BY DEF Init, NothingLost
<1>2. /\ TypeOK /\ GroupInv /\ SkewInv' /\ NonEmpty /\ PendingBounded /\ NothingLost
      /\ [Next]_vars
      => NothingLost'
  <2> SUFFICES ASSUME TypeOK, GroupInv, SkewInv', NonEmpty, PendingBounded, NothingLost,
                      [Next]_vars, close', Room
               PROVE  lost' = {}
    BY DEF NothingLost, Room
  <2>1. CASE Store
    <3>1. PICK m : /\ Pop(m)
                   /\ ~Complete(Collect(m)[UserId(m)])
                   /\ lost' = lost \cup Reduced(DOMAIN Collect(m))
      BY <2>1 DEF Store
    <3>2. close /\ lost = {}
      BY <3>1 DEF Pop, NothingLost, Room
    <3>3. Cardinality(DOMAIN Collect(m)) =< MaxPending
      BY <3>1, <3>2, MapIsSmall
    <3>4. Cardinality(DOMAIN Collect(m)) \in Nat
      <4>1. IsFiniteSet(DOMAIN pending \cup {UserId(m)})
        BY FS_AddElement DEF PendingBounded
      <4>2. QED
        BY <4>1, CollectFacts, FS_CardinalityType
    <3>5. Reduced(DOMAIN Collect(m)) = {}
      BY <3>3, <3>4, GroupAssumption DEF Reduced, Dropped
    <3>6. QED
      BY <3>1, <3>2, <3>5
  <2>2. ASSUME NEW t \in Deps, Publish(t) PROVE lost' = {}
    <3>1. close /\ lost' = lost
      BY <2>2, Zenon DEF Publish, history
    <3>2. QED
      BY <3>1 DEF NothingLost, Room
  <2>3. CASE Analyse
    BY <2>3 DEF Analyse, Pop, NothingLost, Room
  <2>4. CASE Start
    BY <2>4 DEF Start
  <2>5. CASE Stop \/ UNCHANGED vars
    BY <2>5 DEF Stop, vars, history, NothingLost, Room
  <2>6. QED
    BY <2>1, <2>2, <2>3, <2>4, <2>5 DEF Next
<1>3. QED
  BY <1>1, <1>2, TypeInvariant, GroupInvariant, SkewInvariant, NonEmptyInvariant, BoundInvariant,
     PTL DEF Spec
=============================================================================
