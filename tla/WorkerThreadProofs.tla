-------------------------- MODULE WorkerThreadProofs --------------------------
(***************************************************************************)
(* Proofs about WorkerThread for any number of pthreads, objects and       *)
(* restarts.  The invariant is LoopInv: OneLoopThread is not inductive,    *)
(* because start() creates a pthread on the strength of _started alone.    *)
(* Two further facts close it: outside of stop(), a worker with            *)
(* _started = FALSE has no pthread in its loop, and loop() returns false   *)
(* only during a stop().                                                   *)
(***************************************************************************)
EXTENDS WorkerThread, SequenceTheorems, TLAPS

Quiet == \A t \in Threads : pc[t] \notin LoopPcs

\* _stopped is what stop() waits for: nothing loops once it is set.
StoppedIsQuiet == stopped => Quiet

\* _started is what start() tests: outside of stop() it is false only if
\* nothing loops, so start() never adds a second pthread.
NotStartedIsQuiet == ~started /\ opc \notin StopPcs => Quiet

\* Between the pause and the next resume the worker is being stopped or has no
\* pthread, hence loop() returns false only in a stop().
PausedInStop ==
  /\ paused => opc \in StopPcs \/ ~started
  /\ opc \in {"create", "on"} => ~paused
  /\ opc \in {"off", "join", "joinwait"} => ~started
  /\ opc = "off" => stopped

FalseInStop == \A t \in Threads : pc[t] \in LoopPcs /\ ~ret[t] => opc \in StopPcs

LoopInv ==
  /\ OneLoopThread
  /\ StoppedIsQuiet
  /\ NotStartedIsQuiet
  /\ PausedInStop
  /\ FalseInStop

\* With triger_start clearing the list, it holds objects of this session only.
SessionInv ==
  /\ first <= pushed + 1
  /\ ClearOnStart => \A k \in DOMAIN list : list[k] >= first

-----------------------------------------------------------------------------
(* Type correctness *)

\* Every step keeps the variables in their types, for all constants.
THEOREM TypeInvariant == Spec => []TypeOK
<1> USE WorkerAssumption DEF Pcs, LoopPcs, OwnerPcs, StartPcs, StopPcs
<1>0. << >> \in Seq(Items)
  BY EmptySeq
<1>1. Init => TypeOK
  <2>1. ASSUME Init PROVE ret \in [Threads -> BOOLEAN]
    BY <2>1, Zenon DEF Init
  <2>2. ASSUME Init PROVE item \in [Threads -> 0..MaxItems] /\ pc \in [Threads -> Pcs]
    BY <2>2 DEF Init
  <2>3. 1 \in 1..(MaxItems + 1) /\ 0 \in 0..MaxItems /\ 0 \in 0..MaxStarts
    OBVIOUS
  <2>4. QED
    BY <1>0, <2>1, <2>2, <2>3 DEF Init, TypeOK
<1>2. TypeOK /\ [Next]_vars => TypeOK'
  <2> SUFFICES ASSUME TypeOK, [Next]_vars PROVE TypeOK'
    OBVIOUS
  <2> USE DEF TypeOK
  <2>1. CASE \E t \in Threads : Continue(t) \/ Leave(t) \/ PopNull(t) \/ PopWait(t) \/ SpuriousPop(t)
    BY <2>1 DEF Continue, Leave, PopNull, PopWait, SpuriousPop, Goto
  <2>2. CASE \E t \in Threads : StoppedHook(t) \/ MarkStopped(t) \/ ExitBroadcast(t)
    BY <1>0, <2>2 DEF StoppedHook, MarkStopped, ExitBroadcast, Goto
  <2>10. ASSUME NEW t \in Threads, Handle(t) PROVE TypeOK'
    <3>1. ret' \in [Threads -> BOOLEAN]
      BY <2>10, Zenon DEF Handle
    <3>2. QED
      BY <2>10, <3>1 DEF Handle, Goto
  <2>3. ASSUME NEW t \in Threads, PopItem(t) PROVE TypeOK'
    <3>1. Head(list) \in Items /\ Tail(list) \in Seq(Items)
      BY <2>3 DEF PopItem
    <3>2. item' \in [Threads -> 0..MaxItems]
      BY <2>3, <3>1 DEF PopItem, Items
    <3>3. QED
      BY <2>3, <3>1, <3>2 DEF PopItem, Goto
  <2>4. CASE StartResume \/ StartAlready \/ StartFails
    BY <2>4 DEF StartResume, StartAlready, StartFails, tvars
  <2>11. CASE StartClear
    <3>1. list' \in Seq(Items)
      BY <1>0, <2>11 DEF StartClear
    <3>2. QED
      BY <2>11, <3>1 DEF StartClear, tvars
  <2>12. CASE StopPause
    BY <2>12 DEF StopPause
  <2>5. CASE EmitStop \/ StopWait \/ StopReturn \/ SpuriousJoin
    BY <2>5 DEF EmitStop, StopWait, StopReturn, SpuriousJoin, tvars
  <2>6. ASSUME NEW t \in Threads, StartCreate(t) PROVE TypeOK'
    <3>1. ret' \in [Threads -> BOOLEAN]
      BY <2>6, Zenon DEF StartCreate
    <3>2. item' \in [Threads -> 0..MaxItems] /\ pc' \in [Threads -> Pcs]
      BY <2>6 DEF StartCreate, Goto
    <3>3. /\ started' \in BOOLEAN /\ stopped' \in BOOLEAN /\ opc' \in OwnerPcs
          /\ UNCHANGED <<list, paused, pushed, first, starts>>
      BY <2>6 DEF StartCreate
    <3>4. QED
      BY <3>1, <3>2, <3>3
  <2>7. CASE Push
    <3>1. pushed + 1 \in Items /\ list' \in Seq(Items)
      BY <2>7 DEF Push, Items
    <3>2. pushed' \in 0..MaxItems
      BY <2>7 DEF Push
    <3>3. pc' \in [Threads -> Pcs]
      BY <2>7 DEF Push, Goto
    <3>4. UNCHANGED <<started, stopped, paused, item, ret, opc, first, starts>>
      BY <2>7 DEF Push
    <3>5. QED
      BY <3>1, <3>2, <3>3, <3>4
  <2>8. CASE UNCHANGED vars
    BY <2>8 DEF vars
  <2>9. QED
    BY <2>1, <2>2, <2>3, <2>4, <2>5, <2>6, <2>7, <2>8, <2>10, <2>11, <2>12 DEF Next, ThreadRun, OwnerRun
<1>3. QED
  BY <1>1, <1>2, PTL DEF Spec

-----------------------------------------------------------------------------
(* The invariant of the loop *)

LEMMA LoopInvInit == Init => LoopInv
BY DEF Init, LoopInv, OneLoopThread, StoppedIsQuiet, NotStartedIsQuiet, PausedInStop,
       FalseInStop, Quiet, LoopPcs, StopPcs

\* Every step keeps LoopInv.
LEMMA LoopInvStep == TypeOK /\ LoopInv /\ [Next]_vars => LoopInv'
<1> SUFFICES ASSUME TypeOK, LoopInv, [Next]_vars PROVE LoopInv'
  OBVIOUS
<1> USE DEF LoopInv, OneLoopThread, StoppedIsQuiet, NotStartedIsQuiet, PausedInStop,
            FalseInStop, Quiet, LoopPcs, StopPcs, TypeOK, Goto
<1>1. ASSUME NEW t \in Threads, Continue(t) \/ PopWait(t) \/ SpuriousPop(t) PROVE LoopInv'
  <2>1. CASE Continue(t)
    BY <2>1 DEF Continue
  <2>2. CASE PopWait(t)
    BY <2>2 DEF PopWait
  <2>3. CASE SpuriousPop(t)
    BY <2>3 DEF SpuriousPop
  <2>4. QED
    BY <1>1, <2>1, <2>2, <2>3
<1>2. ASSUME NEW t \in Threads, Leave(t) PROVE LoopInv'
  \* Either stop() is under way, or _started and ret would both have to hold.
  <2>1. opc \in StopPcs
    BY <1>2 DEF Leave
  <2>2. QED
    BY <1>2, <2>1 DEF Leave
<1>3. ASSUME NEW t \in Threads, PopNull(t) PROVE LoopInv'
  <2>1. opc \in StopPcs
    BY <1>3 DEF PopNull
  <2>2. QED
    BY <1>3, <2>1 DEF PopNull
<1>4. ASSUME NEW t \in Threads, PopItem(t) \/ Handle(t) \/ StoppedHook(t) PROVE LoopInv'
  <2>1. CASE PopItem(t)
    BY <2>1 DEF PopItem
  <2>2. CASE Handle(t)
    BY <2>2 DEF Handle
  <2>3. CASE StoppedHook(t)
    BY <2>3 DEF StoppedHook
  <2>4. QED
    BY <1>4, <2>1, <2>2, <2>3
<1>5. ASSUME NEW t \in Threads, MarkStopped(t) PROVE LoopInv'
  BY <1>5 DEF MarkStopped
<1>6. ASSUME NEW t \in Threads, ExitBroadcast(t) PROVE LoopInv'
  BY <1>6 DEF ExitBroadcast
<1>7. CASE StartClear \/ StartResume \/ StartAlready \/ StartFails
  BY <1>7 DEF StartClear, StartResume, StartAlready, StartFails, Between, tvars
<1>8. ASSUME NEW t \in Threads, StartCreate(t) PROVE LoopInv'
  BY <1>8 DEF StartCreate
<1>9. CASE StopPause
  BY <1>9 DEF StopPause, Between
<1>10. CASE EmitStop \/ StopWait \/ StopReturn \/ SpuriousJoin
  BY <1>10 DEF EmitStop, StopWait, StopReturn, SpuriousJoin, tvars
<1>11. CASE Push
  BY <1>11 DEF Push
<1>12. CASE UNCHANGED vars
  BY <1>12 DEF vars
<1>13. QED
  BY <1>1, <1>2, <1>3, <1>4, <1>5, <1>6, <1>7, <1>8, <1>9, <1>10, <1>11, <1>12
  DEF Next, ThreadRun, OwnerRun

LEMMA LoopInvariant == Spec => []LoopInv
<1>1. QED
  BY LoopInvInit, LoopInvStep, TypeInvariant, PTL DEF Spec

\* loop() and stopped() of one worker never run in two pthreads at once.
THEOREM OneLoop == Spec => []OneLoopThread
<1>1. LoopInv => OneLoopThread
  BY DEF LoopInv
<1>2. QED
  BY <1>1, LoopInvariant, PTL

\* When stop() has returned, nothing of the worker but its last broadcast runs.
THEOREM QuietAfterStop == Spec => []QuietWhenOff
<1>1. LoopInv => QuietWhenOff
  BY DEF LoopInv, PausedInStop, StoppedIsQuiet, Quiet, QuietWhenOff
<1>2. QED
  BY <1>1, LoopInvariant, PTL
-----------------------------------------------------------------------------
(* Wake-ups *)

\* What NoLostWakeUp needs besides: the list is paused throughout a stop(), and a
\* worker that has not stopped has a pthread in its loop.
WakeInv ==
  /\ NoLostWakeUp
  /\ opc \in StopPcs => paused
  /\ stopped \/ ~Quiet

\* A pthread leaves its loop by way of the broadcast, and whoever makes a waiting
\* pthread's condition true wakes it: there is only one to wake.
LEMMA WakeInvStep == TypeOK /\ LoopInv /\ WakeInv /\ [Next]_vars => WakeInv'
<1> SUFFICES ASSUME TypeOK, LoopInv, WakeInv, [Next]_vars PROVE WakeInv'
  OBVIOUS
<1> USE DEF WakeInv, NoLostWakeUp, Quiet, LoopPcs, StopPcs, TypeOK, Goto
<1>1. ASSUME NEW t \in Threads, Continue(t) \/ Leave(t) \/ PopNull(t) \/ SpuriousPop(t) \/ Handle(t)
      PROVE  WakeInv'
  <2>1. CASE Continue(t)
    BY <2>1 DEF Continue
  <2>2. CASE Leave(t)
    BY <2>2 DEF Leave
  <2>3. CASE PopNull(t)
    BY <2>3 DEF PopNull
  <2>4. CASE SpuriousPop(t)
    BY <2>4 DEF SpuriousPop
  <2>5. CASE Handle(t)
    BY <2>5 DEF Handle
  <2>6. QED
    BY <1>1, <2>1, <2>2, <2>3, <2>4, <2>5
<1>2. ASSUME NEW t \in Threads, PopWait(t) PROVE WakeInv'
  BY <1>2 DEF PopWait
<1>3. ASSUME NEW t \in Threads, PopItem(t) PROVE WakeInv'
  <2>1. \A u \in Threads : pc[u] /= "wait"
    BY <1>3 DEF PopItem
  <2>2. QED
    BY <1>3, <2>1 DEF PopItem
<1>4. ASSUME NEW t \in Threads, StoppedHook(t) PROVE WakeInv'
  BY <1>4 DEF StoppedHook
<1>5. ASSUME NEW t \in Threads, MarkStopped(t) PROVE WakeInv'
  BY <1>5 DEF MarkStopped
<1>6. ASSUME NEW t \in Threads, ExitBroadcast(t) PROVE WakeInv'
  BY <1>6 DEF ExitBroadcast
<1>7. CASE StartClear \/ StartResume \/ StartAlready \/ StartFails
  BY <1>7 DEF StartClear, StartResume, StartAlready, StartFails, Between, tvars
<1>8. ASSUME NEW t \in Threads, StartCreate(t) PROVE WakeInv'
  BY <1>8 DEF StartCreate
<1>9. CASE StopPause
  BY <1>9 DEF StopPause, Between
<1>10. CASE EmitStop \/ StopReturn \/ SpuriousJoin
  BY <1>10 DEF EmitStop, StopReturn, SpuriousJoin, tvars
<1>11. CASE StopWait
  \* The pthread that has not stopped does not wait: the list is paused.
  BY <1>11 DEF StopWait, tvars
<1>12. CASE Push
  <2>1. \A t, u \in Threads : pc[t] = "wait" /\ pc[u] = "wait" => t = u
    BY DEF LoopInv, OneLoopThread
  <2>2. \A t \in Threads : pc'[t] /= "wait"
    BY <1>12, <2>1 DEF Push
  <2>3. QED
    BY <1>12, <2>2 DEF Push
<1>13. CASE UNCHANGED vars
  BY <1>13 DEF vars
<1>14. QED
  BY <1>1, <1>2, <1>3, <1>4, <1>5, <1>6, <1>7, <1>8, <1>9, <1>10, <1>11, <1>12, <1>13
  DEF Next, ThreadRun, OwnerRun

\* However start, stop, push and the pthreads interleave, whoever waits on a
\* condition variable is woken when what it waits for has come.
THEOREM WakeUps == Spec => []NoLostWakeUp
<1>1. Init => WakeInv
  BY DEF Init, WakeInv, NoLostWakeUp, StopPcs
<1>2. WakeInv => NoLostWakeUp
  BY DEF WakeInv
<1>3. QED
  BY <1>1, <1>2, WakeInvStep, LoopInvariant, TypeInvariant, PTL DEF Spec

-----------------------------------------------------------------------------
(* Sessions *)

\* Every step keeps SessionInv.
LEMMA SessionInvariant == Spec => []SessionInv
<1> USE WorkerAssumption DEF SessionInv
<1>1. Init => SessionInv
  BY DEF Init
<1>2. TypeOK /\ SessionInv /\ [Next]_vars => SessionInv'
  <2> SUFFICES ASSUME TypeOK, SessionInv, [Next]_vars PROVE SessionInv'
    OBVIOUS
  <2> USE DEF TypeOK
  <2>1. ASSUME NEW t \in Threads, PopItem(t) PROVE SessionInv'
    <3>1. \A k \in DOMAIN list' : k + 1 \in DOMAIN list /\ list'[k] = list[k + 1]
      BY <2>1 DEF PopItem
    <3>2. first' = first /\ pushed' = pushed
      BY <2>1 DEF PopItem
    <3>3. QED
      BY <3>1, <3>2
  <2>2. ASSUME NEW t \in Threads, StoppedHook(t) PROVE SessionInv'
    BY <2>2 DEF StoppedHook
  <2>3. CASE StartClear
    BY <2>3 DEF StartClear
  <2>4. CASE Push
    <3>1. /\ DOMAIN list' = DOMAIN list \cup {Len(list) + 1}
          /\ \A k \in DOMAIN list : list'[k] = list[k]
          /\ list'[Len(list) + 1] = pushed + 1
      BY <2>4 DEF Push
    <3>2. first' = first /\ pushed' = pushed + 1
      BY <2>4 DEF Push
    <3>3. QED
      BY <3>1, <3>2
  <2>5. ASSUME UNCHANGED <<list, pushed, first>> PROVE SessionInv'
    BY <2>5
  <2>6. ASSUME NEW t \in Threads,
               \/ Continue(t) \/ Leave(t) \/ PopNull(t) \/ PopWait(t) \/ SpuriousPop(t)
               \/ Handle(t) \/ MarkStopped(t) \/ ExitBroadcast(t) \/ StartCreate(t)
        PROVE  UNCHANGED <<list, pushed, first>>
    BY <2>6 DEF Continue, Leave, PopNull, PopWait, SpuriousPop, Handle, MarkStopped,
                ExitBroadcast, StartCreate
  <2>7. ASSUME \/ StopPause \/ StartResume \/ StartAlready \/ StartFails
               \/ EmitStop \/ StopWait \/ StopReturn \/ SpuriousJoin \/ UNCHANGED vars
        PROVE  UNCHANGED <<list, pushed, first>>
    BY <2>7 DEF StopPause, StartResume, StartAlready, StartFails, EmitStop, StopWait,
                StopReturn, SpuriousJoin, vars
  <2>8. QED
    BY <2>1, <2>2, <2>3, <2>4, <2>5, <2>6, <2>7 DEF Next, ThreadRun, OwnerRun
<1>3. QED
  BY <1>1, <1>2, TypeInvariant, PTL DEF Spec

\* Where triger_start clears the list, no object crosses a restart.
THEOREM SessionsSeparate == ClearOnStart => (Spec => OnlyThisSession)
<1> SUFFICES ASSUME ClearOnStart PROVE Spec => OnlyThisSession
  OBVIOUS
<1>1. TypeOK /\ SessionInv /\ [Next]_vars
        => [\A t \in Threads : PopItem(t) => item'[t] >= first]_vars
  <2> SUFFICES ASSUME TypeOK, SessionInv, NEW t \in Threads, PopItem(t)
               PROVE  item'[t] >= first
    OBVIOUS
  <2>1. 1 \in DOMAIN list /\ Head(list) = list[1]
    BY DEF PopItem, TypeOK
  <2>2. item'[t] = Head(list)
    BY DEF PopItem, TypeOK
  <2>3. QED
    BY <2>1, <2>2 DEF SessionInv
<1>2. QED
  BY <1>1, TypeInvariant, SessionInvariant, PTL DEF Spec, OnlyThisSession
-----------------------------------------------------------------------------
(* Refinement *)

\* A pthread that handles holds an object.
HandlesItem == \A t \in Threads : pc[t] = "handle" => item[t] \in Items

LEMMA HandlesItemInvariant == Spec => []HandlesItem
<1>1. Init => HandlesItem
  BY DEF Init, HandlesItem
<1>2. TypeOK /\ HandlesItem /\ [Next]_vars => HandlesItem'
  <2> SUFFICES ASSUME TypeOK, HandlesItem, [Next]_vars, NEW t \in Threads, pc'[t] = "handle"
               PROVE  item'[t] \in Items
    BY DEF HandlesItem
  <2> USE DEF TypeOK, HandlesItem, Goto
  <2>1. ASSUME NEW u \in Threads, PopItem(u) PROVE item'[t] \in Items
    <3>1. Head(list) \in Items
      BY <2>1 DEF PopItem
    <3>2. QED
      BY <2>1, <3>1 DEF PopItem
  <2>2. ASSUME NEW u \in Threads, Continue(u) \/ Leave(u) \/ PopNull(u) \/ PopWait(u)
               \/ SpuriousPop(u) \/ StoppedHook(u) \/ MarkStopped(u) \/ ExitBroadcast(u)
        PROVE  item'[t] \in Items
    BY <2>2 DEF Continue, Leave, PopNull, PopWait, SpuriousPop, StoppedHook, MarkStopped,
                ExitBroadcast
  <2>3. ASSUME NEW u \in Threads, Handle(u) \/ StartCreate(u) PROVE item'[t] \in Items
    BY <2>3 DEF Handle, StartCreate
  <2>4. CASE StopPause
    BY <2>4 DEF StopPause
  <2>5. CASE Push
    BY <2>5 DEF Push
  <2>6. CASE StartClear \/ StartResume \/ StartAlready \/ StartFails
             \/ EmitStop \/ StopWait \/ StopReturn \/ SpuriousJoin \/ UNCHANGED vars
    BY <2>6 DEF StartClear, StartResume, StartAlready, StartFails, EmitStop, StopWait,
                StopReturn, SpuriousJoin, vars, tvars
  <2>7. QED
    BY <2>1, <2>2, <2>3, <2>4, <2>5, <2>6 DEF Next, ThreadRun, OwnerRun
<1>3. QED
  BY <1>1, <1>2, TypeInvariant, PTL DEF Spec

\* The mapped variable is the object of the one pthread that handles.
LEMMA BusyIsTheItem ==
  ASSUME OneLoopThread, NEW t \in Threads, pc[t] = "handle"
  PROVE  BusyItem = item[t]
<1>1. Busy = {t}
  BY DEF OneLoopThread, Busy, LoopPcs
<1>2. QED
  BY <1>1 DEF BusyItem

LEMMA NotBusy ==
  ASSUME \A t \in Threads : pc[t] /= "handle"
  PROVE  BusyItem = 0
BY DEF Busy, BusyItem

\* A step that touches neither the pthreads in "handle" nor their objects
\* leaves the mapped variable alone.
LEMMA BusyUnchanged ==
  ASSUME \A t \in Threads : (pc'[t] = "handle") <=> (pc[t] = "handle"),
         \A t \in Threads : pc[t] = "handle" => item'[t] = item[t]
  PROVE  BusyItem' = BusyItem
<1>1. Busy' = Busy
  BY DEF Busy
<1>2. CASE Busy = {}
  BY <1>1, <1>2 DEF BusyItem
<1>3. CASE Busy /= {}
  <2>1. (CHOOSE t \in Busy : TRUE) \in Busy
    BY <1>3
  <2>2. QED
    BY <1>1, <1>3, <2>1 DEF BusyItem, Busy
<1>4. QED
  BY <1>2, <1>3

FifoVars == <<opc /= "off", list, BusyItem, pushed>>

\* Every step of the worker is a step of the FIFO or leaves it unchanged.
LEMMA FifoStep ==
  TypeOK /\ LoopInv /\ LoopInv' /\ HandlesItem /\ [Next]_vars => [Fifo!ANext]_FifoVars
<1> SUFFICES ASSUME TypeOK, LoopInv, LoopInv', HandlesItem, [Next]_vars
             PROVE  Fifo!ANext \/ UNCHANGED FifoVars
  OBVIOUS
<1> USE DEF TypeOK, Goto
<1>a. \A t \in Threads : pc[t] \in LoopPcs => opc /= "off"
  BY DEF LoopInv, PausedInStop, StoppedIsQuiet, Quiet
<1>1. ASSUME NEW t \in Threads, PopItem(t) PROVE Fifo!Take
  <2>1. /\ opc /= "off" /\ opc' = opc
        /\ list /= << >> /\ list' = Tail(list) /\ pushed' = pushed
    BY <1>1, <1>a DEF PopItem, LoopPcs
  <2>2. BusyItem = 0
    <3>1. \A u \in Threads : pc[u] /= "handle"
      BY <1>1 DEF PopItem, LoopInv, OneLoopThread, LoopPcs
    <3>2. QED
      BY <3>1, NotBusy
  <2>3. BusyItem' = Head(list)
    <3>1. Busy' = {t}
      BY <1>1 DEF PopItem, LoopInv, OneLoopThread, LoopPcs, Busy
    <3>2. item'[t] = Head(list)
      BY <1>1 DEF PopItem
    <3>3. QED
      BY <3>1, <3>2 DEF BusyItem
  <2>4. QED
    BY <2>1, <2>2, <2>3 DEF Fifo!Take
<1>2. ASSUME NEW t \in Threads, Handle(t) PROVE Fifo!Finish
  <2>1. BusyItem = item[t] /\ item[t] /= 0
    BY <1>2, BusyIsTheItem, WorkerAssumption DEF Handle, LoopInv, HandlesItem, Items
  <2>2. Busy' = {}
    BY <1>2 DEF Handle, LoopInv, OneLoopThread, LoopPcs, Busy
  <2>3. QED
    BY <1>2, <2>1, <2>2 DEF Handle, BusyItem, Fifo!Finish
<1>3. ASSUME NEW t \in Threads, StoppedHook(t) PROVE Fifo!Drop
  BY <1>3, BusyUnchanged DEF StoppedHook, Fifo!Drop
<1>4. ASSUME NEW t \in Threads, Continue(t) \/ Leave(t) \/ PopNull(t) \/ PopWait(t)
             \/ SpuriousPop(t) \/ MarkStopped(t)
      PROVE  UNCHANGED FifoVars
  BY <1>4, BusyUnchanged
  DEF Continue, Leave, PopNull, PopWait, SpuriousPop, MarkStopped, FifoVars
<1>5. ASSUME NEW t \in Threads, ExitBroadcast(t) PROVE UNCHANGED FifoVars
  BY <1>5, BusyUnchanged DEF ExitBroadcast, FifoVars
<1>6. ASSUME NEW t \in Threads, StartCreate(t) PROVE UNCHANGED FifoVars
  <2>1. \A u \in Threads : (pc'[u] = "handle") <=> (pc[u] = "handle")
    BY <1>6 DEF StartCreate
  <2>2. \A u \in Threads : pc[u] = "handle" => item'[u] = item[u]
    BY <1>6 DEF StartCreate
  <2>3. QED
    BY <1>6, <2>1, <2>2, BusyUnchanged DEF StartCreate, FifoVars
<1>7. CASE StartResume \/ StartAlready \/ StartFails \/ EmitStop \/ StopWait \/ SpuriousJoin
  BY <1>7, BusyUnchanged
  DEF StartResume, StartAlready, StartFails, EmitStop, StopWait, SpuriousJoin, FifoVars, tvars
<1>8. CASE StartClear
  <2>1. BusyItem' = BusyItem
    BY <1>8, BusyUnchanged DEF StartClear, tvars
  <2>2. CASE opc = "off"
    BY <1>8, <2>1, <2>2 DEF StartClear, Fifo!ANext, Fifo!Open
  <2>3. CASE opc /= "off"
    BY <1>8, <2>1, <2>3 DEF StartClear, Fifo!ANext, Fifo!Drop, FifoVars
  <2>4. QED
    BY <2>2, <2>3
<1>9. CASE StopPause
  <2>1. BusyItem' = BusyItem
    BY <1>9, BusyUnchanged DEF StopPause
  <2>2. CASE opc = "off"
    BY <1>9, <2>1, <2>2 DEF StopPause, Fifo!ANext, Fifo!Open
  <2>3. CASE opc /= "off"
    BY <1>9, <2>1, <2>3 DEF StopPause, FifoVars
  <2>4. QED
    BY <2>2, <2>3
<1>10. CASE StopReturn
  \* The heart of the refinement: stop returns only when nothing is handled.
  <2>1. BusyItem = 0
    BY <1>10, NotBusy DEF StopReturn, LoopInv, StoppedIsQuiet, Quiet, LoopPcs
  <2>2. BusyItem' = BusyItem
    BY <1>10, BusyUnchanged DEF StopReturn, tvars
  <2>3. QED
    BY <1>10, <2>1, <2>2 DEF StopReturn, Fifo!ANext, Fifo!Close
<1>11. CASE Push
  <2>1. BusyItem' = BusyItem
    BY <1>11, BusyUnchanged DEF Push
  <2>2. QED
    BY <1>11, <2>1 DEF Push, Fifo!ANext, Fifo!Enqueue
<1>12. CASE UNCHANGED vars
  BY <1>12, BusyUnchanged DEF vars, FifoVars
<1>13. QED
  BY <1>1, <1>2, <1>3, <1>4, <1>5, <1>6, <1>7, <1>8, <1>9, <1>10, <1>11, <1>12
  DEF Next, ThreadRun, OwnerRun, Fifo!ANext

\* The pthreads, flags, locks and conditions of a worker implement the FIFO.
THEOREM WorkerIsFifo == Spec => ImplementsFifo
<1>1. Init => Fifo!AInit
  BY NotBusy DEF Init, Fifo!AInit
<1>2. TypeOK /\ LoopInv /\ LoopInv' /\ HandlesItem /\ [Next]_vars => [Fifo!ANext]_(Fifo!avars)
  BY FifoStep DEF FifoVars, Fifo!avars
<1>3. QED
  BY <1>1, <1>2, TypeInvariant, LoopInvariant, HandlesItemInvariant, PTL
  DEF Spec, ImplementsFifo, Fifo!ASpec
=============================================================================
