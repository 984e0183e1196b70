----------------------------- MODULE WorkerThread -----------------------------
(***************************************************************************)
(* A worker of the engine: a subclass of XCam::Thread that pops objects    *)
(* from an XCam::SafeList and handles each in its loop().  The analyzer    *)
(* groups, the stats and event threads of RkAiqCore, the command and       *)
(* result threads of RkAiqManager, the luma, lens and camgroup threads all *)
(* have this shape.                                                        *)
(*                                                                         *)
(* Three kinds of process interleave: the pthreads that run thread_func,   *)
(* the owner, which starts and stops the worker (one call at a time, as    *)
(* the application is expected to: the API lock is compiled out), and the  *)
(* producers, which push at any time.                                      *)
(* A critical section of _mutex (of the thread) or of SafeList::_mutex is  *)
(* one atomic step; a condition variable may wake spuriously.              *)
(***************************************************************************)
EXTENDS Naturals, Sequences, FiniteSets

CONSTANTS
  Threads,       \* identities of the pthreads that may exist at one time
  MaxItems,      \* bound: objects pushed in a behaviour
  MaxStarts,     \* bound: calls of triger_start in a behaviour
  ClearOnStart   \* triger_start clears the list (not so in RkAiqMngCmdThread)

ASSUME WorkerAssumption ==
  /\ MaxItems \in Nat
  /\ MaxStarts \in Nat
  /\ ClearOnStart \in BOOLEAN

VARIABLES
  started,   \* Thread::_started
  stopped,   \* Thread::_stopped
  list,      \* SafeList::_obj_list, as the numbers of the objects in it
  paused,    \* SafeList::_pop_paused
  pc,        \* pc[t]: where pthread t is in thread_func; "none": it is not there
  item,      \* item[t]: the object t popped last (0: none)
  ret,       \* ret[t]: the local ret of thread_func
  opc,       \* where the owner is in its calls; "off"/"on": between two calls
  pushed,    \* history: number of objects pushed
  first,     \* history: the first object pushed after the last clear of a start
  starts     \* history: calls of triger_start

tvars == <<pc, item, ret>>
vars  == <<started, stopped, list, paused, pc, item, ret, opc, pushed, first, starts>>

Items   == 1..MaxItems
LoopPcs == {"check", "pop", "wait", "handle", "hook", "mark"}
Pcs     == LoopPcs \cup {"none", "bcast"}
StartPcs == {"resume", "create"}
StopPcs  == {"emit", "join", "joinwait"}
OwnerPcs == {"off", "on"} \cup StartPcs \cup StopPcs

TypeOK ==
  /\ started \in BOOLEAN
  /\ stopped \in BOOLEAN
  /\ list \in Seq(Items)
  /\ paused \in BOOLEAN
  /\ pc \in [Threads -> Pcs]
  /\ item \in [Threads -> 0..MaxItems]
  /\ ret \in [Threads -> BOOLEAN]
  /\ opc \in OwnerPcs
  /\ pushed \in 0..MaxItems
  /\ first \in 1..(MaxItems + 1)
  /\ starts \in 0..MaxStarts

Init ==
  /\ started = FALSE
  /\ stopped = TRUE
  /\ list = << >>
  /\ paused = FALSE
  /\ pc = [t \in Threads |-> "none"]
  /\ item = [t \in Threads |-> 0]
  /\ ret = [t \in Threads |-> TRUE]
  /\ opc = "off"
  /\ pushed = 0
  /\ first = 1
  /\ starts = 0

-----------------------------------------------------------------------------
(* thread_func, as run by pthread t *)

Goto(t, here, there) == /\ pc[t] = here
                        /\ pc' = [pc EXCEPT ![t] = there]

\* The test at the head of the while loop: leave when stop was asked for or
\* the last loop() returned false.
Continue(t) ==
  /\ Goto(t, "check", "pop")
  /\ started /\ ret[t]
  /\ UNCHANGED <<started, stopped, list, paused, item, ret, opc, pushed, first, starts>>

Leave(t) ==
  /\ Goto(t, "check", "hook")
  /\ ~started \/ ~ret[t]
  /\ started' = FALSE
  /\ ret' = [ret EXCEPT ![t] = FALSE]
  /\ UNCHANGED <<stopped, list, paused, item, opc, pushed, first, starts>>

\* loop() calls pop(): a paused list yields NULL even when it has objects, and
\* loop() then returns false.
PopNull(t) ==
  /\ Goto(t, "pop", "check")
  /\ paused
  /\ ret' = [ret EXCEPT ![t] = FALSE]
  /\ UNCHANGED <<started, stopped, list, paused, item, opc, pushed, first, starts>>

PopWait(t) ==
  /\ Goto(t, "pop", "wait")
  /\ ~paused /\ list = << >>
  /\ UNCHANGED <<started, stopped, list, paused, item, ret, opc, pushed, first, starts>>

\* Mutant: the newest object is popped.
PopItem_Newest(t) ==
  /\ Goto(t, "pop", "handle")
  /\ ~paused /\ list /= << >>
  /\ item' = [item EXCEPT ![t] = list[Len(list)]]
  /\ list' = SubSeq(list, 1, Len(list) - 1)
  /\ UNCHANGED <<started, stopped, paused, ret, opc, pushed, first, starts>>

PopItem(t) ==
  /\ Goto(t, "pop", "handle")
  /\ ~paused /\ list /= << >>
  /\ item' = [item EXCEPT ![t] = Head(list)]
  /\ list' = Tail(list)
  /\ UNCHANGED <<started, stopped, paused, ret, opc, pushed, first, starts>>

\* pthread_cond_wait may return without a signal.
SpuriousPop(t) ==
  /\ Goto(t, "wait", "pop")
  /\ UNCHANGED <<started, stopped, list, paused, item, ret, opc, pushed, first, starts>>

\* The rest of loop(): the object is handled, loop() returns true.
Handle(t) ==
  /\ Goto(t, "handle", "check")
  /\ item' = [item EXCEPT ![t] = 0]
  /\ ret' = [ret EXCEPT ![t] = TRUE]
  /\ UNCHANGED <<started, stopped, list, paused, opc, pushed, first, starts>>

\* The hook stopped() of the workers clears their list.
StoppedHook(t) ==
  /\ Goto(t, "hook", "mark")
  /\ list' = << >>
  /\ UNCHANGED <<started, stopped, paused, item, ret, opc, pushed, first, starts>>

MarkStopped(t) ==
  /\ Goto(t, "mark", "bcast")
  /\ stopped' = TRUE
  /\ UNCHANGED <<started, list, paused, item, ret, opc, pushed, first, starts>>

\* The broadcast is outside the critical section that set _stopped.
ExitBroadcast(t) ==
  /\ Goto(t, "bcast", "none")
  /\ opc' = IF opc = "joinwait" THEN "join" ELSE opc
  /\ UNCHANGED <<started, stopped, list, paused, item, ret, pushed, first, starts>>

-----------------------------------------------------------------------------
(* The owner: start is triger_start(); start().  stop is triger_stop(); stop(). *)

Between == opc \in {"off", "on"}

\* Mutant: the list is only resumed.
StartClear_KeepsList ==
  /\ Between
  /\ starts < MaxStarts
  /\ starts' = starts + 1
  /\ first' = pushed + 1
  /\ opc' = "resume"
  /\ UNCHANGED <<started, stopped, list, paused, tvars, pushed>>

\* triger_start clears the list and resumes it in two critical sections.
StartClear ==
  /\ Between
  /\ starts < MaxStarts
  /\ starts' = starts + 1
  /\ list' = IF ClearOnStart THEN << >> ELSE list
  /\ first' = pushed + 1
  /\ opc' = "resume"
  /\ UNCHANGED <<started, stopped, paused, tvars, pushed>>

StartResume ==
  /\ opc = "resume"
  /\ paused' = FALSE
  /\ opc' = "create"
  /\ UNCHANGED <<started, stopped, list, tvars, pushed, first, starts>>

\* Thread::start, all under _mutex.
StartAlready ==
  /\ opc = "create"
  /\ started
  /\ opc' = "on"
  /\ UNCHANGED <<started, stopped, list, paused, tvars, pushed, first, starts>>

\* Mutant: _started is not tested.
StartCreate_Always(t) ==
  /\ opc = "create"
  /\ Goto(t, "none", "check")
  /\ item' = [item EXCEPT ![t] = 0]
  /\ ret' = [ret EXCEPT ![t] = TRUE]
  /\ started' = TRUE
  /\ stopped' = FALSE
  /\ opc' = "on"
  /\ UNCHANGED <<list, paused, pushed, first, starts>>

StartCreate(t) ==
  /\ opc = "create"
  /\ ~started
  /\ Goto(t, "none", "check")
  /\ item' = [item EXCEPT ![t] = 0]
  /\ ret' = [ret EXCEPT ![t] = TRUE]
  /\ started' = TRUE
  /\ stopped' = FALSE
  /\ opc' = "on"
  /\ UNCHANGED <<list, paused, pushed, first, starts>>

\* pthread_create fails: start() returns false, which the callers ignore.
StartFails ==
  /\ opc = "create"
  /\ ~started
  /\ opc' = "on"
  /\ UNCHANGED <<started, stopped, list, paused, tvars, pushed, first, starts>>

\* Mutant: pause_pop does not broadcast.
StopPause_Silent ==
  /\ Between
  /\ paused' = TRUE
  /\ opc' = "emit"
  /\ UNCHANGED <<started, stopped, list, tvars, pushed, first, starts>>

\* pause_pop sets the flag and wakes every waiter in one critical section.
StopPause ==
  /\ Between
  /\ paused' = TRUE
  /\ pc' = [t \in Threads |-> IF pc[t] = "wait" THEN "pop" ELSE pc[t]]
  /\ opc' = "emit"
  /\ UNCHANGED <<started, stopped, list, item, ret, pushed, first, starts>>

EmitStop ==
  /\ opc = "emit"
  /\ started' = FALSE
  /\ opc' = "join"
  /\ UNCHANGED <<stopped, list, paused, tvars, pushed, first, starts>>

\* Mutant: _stopped is not tested under the lock.
StopWait_Unchecked ==
  /\ opc = "join"
  /\ opc' = "joinwait"
  /\ UNCHANGED <<started, stopped, list, paused, tvars, pushed, first, starts>>

StopWait ==
  /\ opc = "join"
  /\ ~stopped
  /\ opc' = "joinwait"
  /\ UNCHANGED <<started, stopped, list, paused, tvars, pushed, first, starts>>

\* Mutant: stop does not wait for _stopped.
StopReturn_NoWait ==
  /\ opc = "join"
  /\ opc' = "off"
  /\ UNCHANGED <<started, stopped, list, paused, tvars, pushed, first, starts>>

StopReturn ==
  /\ opc = "join"
  /\ stopped
  /\ opc' = "off"
  /\ UNCHANGED <<started, stopped, list, paused, tvars, pushed, first, starts>>

SpuriousJoin ==
  /\ opc = "joinwait"
  /\ opc' = "join"
  /\ UNCHANGED <<started, stopped, list, paused, tvars, pushed, first, starts>>

-----------------------------------------------------------------------------
\* Mutant: the condition variable is not signalled.
Push_NoSignal ==
  /\ pushed < MaxItems
  /\ pushed' = pushed + 1
  /\ list' = Append(list, pushed + 1)
  /\ UNCHANGED <<started, stopped, paused, tvars, opc, first, starts>>

\* A producer pushes the next object, whatever the worker is doing, and signals
\* one waiter if there is one.
Push ==
  /\ pushed < MaxItems
  /\ pushed' = pushed + 1
  /\ list' = Append(list, pushed + 1)
  /\ \/ \E t \in Threads : Goto(t, "wait", "pop")
     \/ (\A t \in Threads : pc[t] /= "wait") /\ pc' = pc
  /\ UNCHANGED <<started, stopped, paused, item, ret, opc, first, starts>>

ThreadRun(t) ==
  \/ Continue(t) \/ Leave(t) \/ PopNull(t) \/ PopWait(t) \/ PopItem(t)
  \/ Handle(t) \/ StoppedHook(t) \/ MarkStopped(t) \/ ExitBroadcast(t)

OwnerRun ==
  \/ StartResume \/ StartAlready \/ (\E t \in Threads : StartCreate(t)) \/ StartFails
  \/ EmitStop \/ StopWait \/ StopReturn

Next ==
  \/ \E t \in Threads : ThreadRun(t) \/ SpuriousPop(t)
  \/ StartClear \/ StopPause \/ OwnerRun \/ SpuriousJoin
  \/ Push

Spec == Init /\ [][Next]_vars

\* The scheduler runs every runnable pthread, handlers return, and an owner
\* that entered a call goes on with it; nobody is obliged to call or to push.
Fairness == /\ \A t \in Threads : WF_vars(ThreadRun(t))
            /\ WF_vars(OwnerRun)

FairSpec == Spec /\ Fairness

-----------------------------------------------------------------------------
(* Properties *)

\* Whatever the interleaving of start, stop and the exit of a pthread, loop()
\* and the hook stopped() never run in two pthreads at once (Thread::start and
\* the _started/_stopped hand-over in thread_func).
OneLoopThread ==
  \A t, u \in Threads : pc[t] \in LoopPcs /\ pc[u] \in LoopPcs => t = u

\* Once stop() has returned no pthread is in loop() or in the hook: the caller
\* may free what the handlers use.  (A pthread may still be about to broadcast
\* on _exit_cond: the window between the unlock and the broadcast.)
QuietWhenOff == opc = "off" => \A t \in Threads : pc[t] \notin LoopPcs

\* No wake-up is lost: a pthread waits only while there is nothing for it in the list
\* and nobody stops the worker, and the owner waits only while some pthread is on its
\* way to the broadcast on _exit_cond.
NoLostWakeUp ==
  /\ \A t \in Threads : pc[t] = "wait" => ~paused /\ list = << >>
  /\ opc = "joinwait" => \E t \in Threads : pc[t] \in (LoopPcs \cup {"bcast"}) \ {"wait"}

\* A list cleared by triger_start hands out only objects pushed since: an
\* object of an earlier session never reaches the handler of a later one.
OnlyThisSession ==
  [][\A t \in Threads : PopItem(t) => item'[t] >= first]_vars

\* stop() returns: no wake-up of the popping pthread or of the owner is lost.
StopTerminates == opc \in StopPcs ~> opc = "off"

\* While the worker runs, an object in the list does not stay there.
Drains == \A i \in Items :
            (opc = "on" /\ started /\ i \in {list[k] : k \in DOMAIN list})
              ~> (i \notin {list[k] : k \in DOMAIN list})

-----------------------------------------------------------------------------
\* Refinement: the worker implements the FIFO its callers rely on.
Busy == {t \in Threads : pc[t] = "handle"}

BusyItem == IF Busy = {} THEN 0 ELSE item[CHOOSE t \in Busy : TRUE]

Fifo == INSTANCE FifoWorker WITH open <- opc /= "off", queue <- list, busy <- BusyItem

\* Every behaviour of pthreads, owner and producers is one of the FIFO.
ImplementsFifo == Fifo!ASpec
=============================================================================
