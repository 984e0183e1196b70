---------------------------- MODULE AnalyzerGroup ----------------------------
(***************************************************************************)
(* One RkAiqAnalyzerGroup: it collects, for each frame, one message of     *)
(* every type its algorithms depend on, and runs them on the frame once    *)
(* the set is complete.  Messages reach it through its worker, a FIFO (the *)
(* theorem WorkerIsFifo of WorkerThreadProofs); so pop and msgHandle are   *)
(* one step here, and stop() finds nothing being handled.                  *)
(*                                                                         *)
(* A message of frame f counts for frame f + Delay[type]: statistics of a  *)
(* frame are used for a later one.  Each type has one publisher, which     *)
(* publishes frames in increasing order and may skip some; the start of    *)
(* frame 0 is not published, and results follow the statistics they are    *)
(* computed from.                                                          *)
(***************************************************************************)
EXTENDS Integers, Sequences, FiniteSets, Functions, FrameMap

CONSTANTS
  Deps,          \* mDepsFlag: the message types the group waits for
  Delay,         \* Delay[t]: RkAiqGrpConditions_t, the delay of type t
  First,         \* First[t]: the first frame published with type t in a session
  MaxPending,    \* msgReduction starts above this many frames (12)
  KeepPending,   \* and keeps this many (6)
  MaxSkew,       \* how far ahead of another a type is published at most, see close
  MaxFrame,      \* bound: last frame of a session
  MaxQueue,      \* bound: messages waiting in the worker
  MaxSessions    \* bound: starts

ASSUME GroupAssumption ==
  /\ IsFiniteSet(Deps) /\ Deps /= {}
  /\ Delay \in [Deps -> Nat]
  /\ First \in [Deps -> 0..(MaxFrame + 1)]
  /\ MaxPending \in Nat /\ KeepPending \in 1..MaxPending
  /\ MaxSkew \in Nat /\ MaxFrame \in Nat /\ MaxQueue \in Nat /\ MaxSessions \in Nat

VARIABLES
  up,        \* the worker has been started and not stopped since
  queue,     \* mMsgsQueue of the worker
  pending,   \* mGroupMsgMap: frame id -> the messages collected for it
  next,      \* next[t]: no frame below it will be published with type t
  close,     \* history: no type was MaxSkew frames ahead of another and none
             \* skipped a frame, this session
  session,   \* history: number of starts
  arrived,   \* history: arrived[t]: ids for which a message of type t was handled
  analysed,  \* history: ids the algorithms ran on
  lost       \* history: ids dropped by msgReduction

history == <<arrived, analysed, lost>>
vars == <<up, queue, pending, next, close, session, arrived, analysed, lost>>

Message == [type : Deps, frame : 0..MaxFrame, session : 0..MaxSessions]

\* The frame the message counts for.
UserId(m) == m.frame + Delay[m.type]

TypeOK ==
  /\ up \in BOOLEAN
  /\ queue \in Seq(Message)
  /\ DOMAIN pending \subseteq Nat
  /\ \A i \in DOMAIN pending : pending[i] \subseteq Message
  /\ next \in [Deps -> 0..(MaxFrame + 1)]
  /\ close \in BOOLEAN
  /\ session \in 0..MaxSessions
  /\ arrived \in [Deps -> SUBSET Nat]
  /\ analysed \subseteq Nat
  /\ lost \subseteq Nat

Empty == << >>    \* the map without entries

Init ==
  /\ up = FALSE
  /\ queue = << >>
  /\ pending = Empty
  /\ next = First
  /\ close = TRUE
  /\ session = 0
  /\ arrived = [t \in Deps |-> {}]
  /\ analysed = {}
  /\ lost = {}

-----------------------------------------------------------------------------
(* Publishers *)

\* Frame f of type t is less than MaxSkew frames ahead of the other types.
WithinSkew(t, f) ==
  \A u \in Deps : f + Delay[t] < next[u] + Delay[u] + MaxSkew

\* handleMessage pushes a message of a type the group depends on, whether the
\* worker runs or not: the thread of another group may still be at it when this
\* one has been stopped.
Publish(t) ==
  /\ Len(queue) < MaxQueue
  /\ \E f \in next[t]..MaxFrame :
       /\ close' = (close /\ f = next[t] /\ WithinSkew(t, f))
       /\ queue' = Append(queue, [type |-> t, frame |-> f, session |-> session])
       /\ next' = [next EXCEPT ![t] = f + 1]
  /\ UNCHANGED <<up, pending, session, history>>

-----------------------------------------------------------------------------
(* msgHandle *)

Types(msgs) == {m.type : m \in msgs}

\* Mutant: one message of the frame is enough.
Complete_Any(msgs) == Types(msgs) \cap Deps /= {}

\* !(msg_flags ^ mDepsFlag)
Complete(msgs) == Types(msgs) = Deps

\* The map with message m added to the entry of its frame.
Collect(m) == Filed(pending, UserId(m), m)

\* Mutant: reduction starts at KeepPending.
Reduced_Early(ids) == Dropped(ids, KeepPending, KeepPending)

\* msgReduction: the ids it drops, the smallest ones.
Reduced(ids) == Dropped(ids, MaxPending, KeepPending)

Pop(m) ==
  /\ up
  /\ queue /= << >>
  /\ m = Head(queue)
  /\ queue' = Tail(queue)
  /\ arrived' = [arrived EXCEPT ![m.type] = @ \cup {UserId(m)}]
  /\ UNCHANGED <<up, next, close, session>>

\* Mutant: entries older than the complete frame stay.
Analyse_KeepsOlder ==
  \E m \in Range(queue) :
    /\ Pop(m)
    /\ Complete(Collect(m)[UserId(m)])
    /\ pending' = Restrict(Collect(m), DOMAIN Collect(m) \ {UserId(m)})
    /\ analysed' = analysed \cup {UserId(m)}
    /\ UNCHANGED lost

\* Mutant: the whole map is cleared after the algorithms ran.
Analyse_ClearsAll ==
  \E m \in Range(queue) :
    /\ Pop(m)
    /\ Complete(Collect(m)[UserId(m)])
    /\ pending' = Empty
    /\ analysed' = analysed \cup {UserId(m)}
    /\ UNCHANGED lost

\* The message completes its frame: older frames are dropped, the algorithms
\* run, and the entry of the frame goes.
Analyse ==
  \E m \in Range(queue) :
    /\ Pop(m)
    /\ Complete(Collect(m)[UserId(m)])
    /\ pending' = Restrict(Collect(m), {i \in DOMAIN pending : i > UserId(m)})
    /\ analysed' = analysed \cup {UserId(m)}
    /\ UNCHANGED lost

\* The frame still misses messages: the map may have grown too large.
Store ==
  \E m \in Range(queue) :
    /\ Pop(m)
    /\ ~Complete(Collect(m)[UserId(m)])
    /\ LET ids == DOMAIN Collect(m)
       IN  /\ pending' = Restrict(Collect(m), ids \ Reduced(ids))
           /\ lost' = lost \cup Reduced(ids)
    /\ UNCHANGED analysed

-----------------------------------------------------------------------------
(* start and stop *)

\* The worker's triger_start clears its list.  The sensor and the publishers
\* start after the groups, at their first frame.
Start ==
  /\ ~up
  /\ session < MaxSessions
  /\ up' = TRUE
  /\ queue' = << >>
  /\ session' = session + 1
  /\ close' = TRUE
  /\ next' = First
  /\ arrived' = [t \in Deps |-> {}]
  /\ analysed' = {}
  /\ lost' = {}
  /\ UNCHANGED pending

\* Mutant: mGroupMsgMap is not cleared.
Stop_KeepsMap ==
  /\ up
  /\ up' = FALSE
  /\ queue' = << >>
  /\ UNCHANGED <<pending, next, close, session, history>>

\* The worker has left its loop and cleared its list; the map is cleared.
Stop ==
  /\ up
  /\ up' = FALSE
  /\ queue' = << >>
  /\ pending' = Empty
  /\ UNCHANGED <<next, close, session, history>>

Next == (\E t \in Deps : Publish(t)) \/ Analyse \/ Store \/ Start \/ Stop

Spec == Init /\ [][Next]_vars

-----------------------------------------------------------------------------
(* Properties *)

\* The algorithms of a group run on ever later frames, never twice on one: what
\* they keep from frame to frame (the converging exposure, the filters) relies
\* on it.  It hangs on the order of each type and on the test of completeness.
AnalysisInOrder ==
  [][\A i \in analysed' \ analysed, j \in analysed : i > j]_vars

\* The map holds frames after the last one analysed, and not too many of them:
\* a frame that can no longer be completed does not stay behind.
PendingIsNew ==
  /\ \A i \in DOMAIN pending, j \in analysed : i > j
  /\ Cardinality(DOMAIN pending) =< MaxPending

\* A frame all of whose messages were handled was analysed, unless msgReduction
\* had dropped it: finishing a later frame first never costs an earlier one.
CompleteIsAnalysed ==
  \A i \in UNION {arrived[t] : t \in Deps} :
    (\A t \in Deps : i \in arrived[t]) => i \in analysed \cup lost

\* The algorithms never see a message of an earlier session: frame numbers
\* start again, and a left-over message would complete or displace new frames.
NoStaleMessage ==
  /\ up => \A m \in Range(queue) : m.session = session
  /\ \A i \in DOMAIN pending : \A m \in pending[i] : m.session = session

\* While the publishers skip nothing and stay close together, msgReduction never
\* drops a frame.  The delays count: while the statistics of the first frames
\* serve later ones, frames up to Delay[t] wait for messages nobody sends.
NothingLost ==
  close /\ (\A t \in Deps : MaxSkew + First[t] + Delay[t] =< MaxPending) => lost = {}
=============================================================================
