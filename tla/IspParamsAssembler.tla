-------------------------- MODULE IspParamsAssembler --------------------------
(***************************************************************************)
(* IspParamsAssembler: the result thread queues the results of the         *)
(* algorithms one by one, each for a frame; a frame is ready when it has a *)
(* result of every type in mReadyMask, and the consumer (setIspConfig, the *)
(* TNR, NR and FEC units) takes the frames out to the drivers.  Results    *)
(* that come too late are moved to a later frame, frames overtaken by a    *)
(* ready one are merged, and without readback the poll thread of the       *)
(* statistics forces the next frame to be ready.  Every method holds       *)
(* mParamsMutex and is one step.                                           *)
(*                                                                         *)
(* The consumer asks ready() before it calls deQueOne, and it is alone, so *)
(* deQueOne is modelled for mReadyNums > 0.  Nobody calls rmReadyCondition *)
(* or reset().  A result without frame (id -1) is ignored.  Every type has *)
(* initial parameters, hence a ready condition.                            *)
(***************************************************************************)
EXTENDS Integers, Sequences, FiniteSets, Functions

CONSTANTS
  Kinds,          \* result types that reach the assembler
  MaxPending,     \* MAX_PENDING_PARAMS (10)
  Modes,          \* the modes to consider, see mode
  MaxFrame,       \* bound: last frame a result or statistics is for
  MaxResults,     \* bound: results queued
  MaxSessions     \* bound: calls of stop()

ASSUME AssemblerAssumption ==
  /\ IsFiniteSet(Kinds) /\ Kinds /= {}
  /\ MaxPending \in Nat \ {0} /\ MaxFrame \in Nat /\ MaxResults \in Nat /\ MaxSessions \in Nat
  /\ Modes \subseteq [noReadback : BOOLEAN, prompt : BOOLEAN]

VARIABLES
  mode,       \* noReadback: mNoReadBack, statistics force frames to be ready;
              \* prompt: the drivers have buffers, so that queueing drains the ready frames
  started,    \* started
  mask,       \* mReadyMask and mCondMaskMap: the types a frame must have
  initList,   \* mInitParamsList
  pending,    \* [map |-> mParamsMap, latest |-> mLatestReadyFrmId, ready |-> mReadyNums]
  next,       \* next[k]: no frame below it will get a result of type k
  stats,      \* last frame whose statistics arrived
  late,       \* history: types with a result for a frame that was past, this session
  made,       \* history: results queued; they are numbered 1..made
  base,       \* history: results queued before the last stop()
  out,        \* history: results dequeued this session
  frames,     \* history: frames dequeued this session
  stops       \* history: calls of stop()

vars == <<mode, started, mask, initList, pending, next, stats, late, made, base, out, frames, stops>>

Results == [kind : Kinds, frame : 0..MaxFrame, number : 1..MaxResults]

Nothing == [map |-> << >>, latest |-> -1, ready |-> 0]

TypeOK ==
  /\ mode \in Modes
  /\ started \in BOOLEAN
  /\ mask \subseteq Kinds
  /\ initList \in Seq(Results)
  /\ DOMAIN pending.map \subseteq Nat
  /\ \A i \in DOMAIN pending.map :
       pending.map[i] \in [params : Seq(Results), flags : SUBSET mask, ready : BOOLEAN]
  /\ pending.latest \in Nat \cup {-1}
  /\ pending.ready \in Nat
  /\ next \in [Kinds -> 0..(MaxFrame + 1)]
  /\ stats \in -1..MaxFrame
  /\ late \subseteq Kinds
  /\ made \in 0..MaxResults /\ base \in 0..made
  /\ out \in Seq(Results)
  /\ frames \in Seq(Nat)
  /\ stops \in 0..MaxSessions

Init ==
  /\ mode \in Modes
  /\ started = FALSE /\ mask = {} /\ initList = << >> /\ pending = Nothing
  /\ next = [k \in Kinds |-> 0] /\ stats = -1 /\ late = {}
  /\ made = 0 /\ base = 0 /\ out = << >> /\ frames = << >> /\ stops = 0

-----------------------------------------------------------------------------
(* queue_locked, as a function of the state p of the assembler *)

Least(S) == CHOOSE x \in S : \A y \in S : x =< y
Greatest(S) == CHOOSE x \in S : \A y \in S : y =< x

\* map[i] = e
With(map, i, e) == [j \in DOMAIN map \cup {i} |-> IF j = i THEN e ELSE map[j]]

\* Mutant: a late result stays in its frame.
Target_Unmoved(p, r) == IF p.latest = -1 THEN 0 ELSE r.frame

\* The frame result r is put in: a late one goes to the oldest frame that still
\* lacks its type, else to a new frame behind all others; the first ones to frame 0.
Target(p, r) ==
  LET lacking == {i \in DOMAIN p.map : r.kind \notin p.map[i].flags}
  IN  CASE r.frame > p.latest /\ p.latest = -1 -> 0
        [] r.frame > p.latest /\ p.latest /= -1 -> r.frame
        [] r.frame =< p.latest /\ lacking /= {} -> Least(lacking)
        [] OTHER -> 1 + (IF DOMAIN p.map = {} THEN p.latest ELSE Greatest(DOMAIN p.map))

\* The entry of frame i with result r.
Entry(p, i, r) ==
  LET old == IF i \in DOMAIN p.map THEN p.map[i]
                                   ELSE [params |-> << >>, flags |-> {}, ready |-> FALSE]
      flags == old.flags \cup ({r.kind} \cap mask)
  IN  [params |-> Append(old.params, r), flags |-> flags, ready |-> flags = mask]

\* Mutant: the frames are merged in the wrong order.
Concat_Backwards(map, S) ==
  LET cat[i \in 0..Greatest(S)] ==
        (IF i \in S THEN map[i].params ELSE << >>) \o (IF i = 0 THEN << >> ELSE cat[i - 1])
  IN  cat[Greatest(S)]

\* The results of the frames in S, in the order of the frames.
Concat(map, S) ==
  LET cat[i \in 0..Greatest(S)] ==
        (IF i = 0 THEN << >> ELSE cat[i - 1]) \o (IF i \in S THEN map[i].params ELSE << >>)
  IN  cat[Greatest(S)]

\* The frames before the first ready one.
Unready(p) == {i \in DOMAIN p.map : \A j \in DOMAIN p.map : j =< i => ~p.map[j].ready}

\* Mutant: the merged frame is not counted.
MergeInto_NotCounted(p, S) ==
  LET last == Greatest(S)
      all  == [params |-> Concat(p.map, S), flags |-> mask, ready |-> TRUE]
  IN  [map    |-> With(Restrict(p.map, DOMAIN p.map \ S), last, all),
       latest |-> IF last > p.latest THEN last ELSE p.latest,
       ready  |-> p.ready]

\* Mutant: the last of the merged frames keeps its own results only.
MergeInto_LastOnly(p, S) ==
  LET last == Greatest(S)
      all  == [params |-> p.map[last].params, flags |-> mask, ready |-> TRUE]
  IN  [map    |-> With(Restrict(p.map, DOMAIN p.map \ S), last, all),
       latest |-> IF last > p.latest THEN last ELSE p.latest,
       ready  |-> p.ready + 1]

\* The frames in S become one ready frame, the last of them.
MergeInto(p, S) ==
  LET last == Greatest(S)
      all  == [params |-> Concat(p.map, S), flags |-> mask, ready |-> TRUE]
  IN  [map    |-> With(Restrict(p.map, DOMAIN p.map \ S), last, all),
       latest |-> IF last > p.latest THEN last ELSE p.latest,
       ready  |-> p.ready + 1]

\* Mutant: an overtaken frame is not merged.
Merged_OverflowOnly(p) ==
  IF Unready(p) /= {} /\ Cardinality(DOMAIN p.map) > MaxPending
  THEN MergeInto(p, Unready(p))
  ELSE p

\* Exception case 2: with too many frames, or a ready frame behind the first, the
\* frames before the first ready one become a single ready frame.
Merged(p) ==
  IF Unready(p) /= {} /\ (Cardinality(DOMAIN p.map) > MaxPending \/ p.ready > 0)
  THEN MergeInto(p, Unready(p))
  ELSE p

\* A frame made ready that is not after the latest ready one: "impossible case",
\* it is dropped, though it was counted.
Impossible(p, r) == Entry(p, Target(p, r), r).ready /\ Target(p, r) =< p.latest

\* Result r is in the frame, which may be ready now.
Put(p, r) ==
  LET i == Target(p, r)
      e == Entry(p, i, r)
  IN  [map    |-> With(p.map, i, e),
       latest |-> IF e.ready THEN i ELSE p.latest,
       ready  |-> IF e.ready THEN p.ready + 1 ELSE p.ready]

Queued(p, r) ==
  IF Impossible(p, r)
  THEN [map    |-> Restrict(p.map, DOMAIN p.map \ {Target(p, r)}),
        latest |-> p.latest, ready |-> p.ready + 1]
  ELSE Merged(Put(p, r))

-----------------------------------------------------------------------------
\* handleIsp3aReslut before start(): the type becomes a ready condition, the
\* result goes to frame 0.  prepare() sends one result of each type.
QueueInitial(k) ==
  /\ ~started
  /\ k \notin mask
  /\ made < MaxResults
  /\ made' = made + 1
  /\ mask' = mask \cup {k}
  /\ initList' = Append(initList, [kind |-> k, frame |-> 0, number |-> made'])
  /\ UNCHANGED <<mode, started, pending, next, stats, late, base, out, frames, stops>>

Start ==
  /\ ~started
  /\ mask = Kinds
  /\ started' = TRUE
  /\ LET all[n \in 0..Len(initList)] ==
           IF n = 0 THEN pending ELSE Queued(all[n - 1], initList[n])
     IN  pending' = all[Len(initList)]
  /\ initList' = << >>
  /\ UNCHANGED <<mode, mask, next, stats, late, made, base, out, frames, stops>>

\* The loop of config_params after the last queue is over: each call queues and
\* then takes the ready frames, start() takes one.
Drained == pending.ready = 0 \/ pending.map = << >> \/ next = [k \in Kinds |-> 0]

\* A result of type k for a frame; each type comes in the order of the frames.
Queue(k) ==
  /\ started
  /\ mode.prompt => Drained
  /\ made < MaxResults
  /\ made' = made + 1
  /\ \E f \in next[k]..MaxFrame :
       /\ next' = [next EXCEPT ![k] = f + 1]
       /\ late' = IF f > pending.latest THEN late ELSE late \cup {k}
       /\ pending' = Queued(pending, [kind |-> k, frame |-> f, number |-> made'])
  /\ UNCHANGED <<mode, started, mask, initList, stats, base, out, frames, stops>>

\* Mutant: mLatestReadyFrmId is not updated.
ForceReady_KeepsLatest ==
  /\ mode.noReadback /\ started
  /\ \E f \in stats + 1..MaxFrame : stats' = f
  /\ LET i == stats' + 1
     IN  pending' = IF i \in DOMAIN pending.map /\ ~pending.map[i].ready
                    THEN [pending EXCEPT !.map[i].flags = mask, !.map[i].ready = TRUE,
                                         !.ready = @ + 1]
                    ELSE pending
  /\ UNCHANGED <<mode, started, mask, initList, next, late, made, base, out, frames, stops>>

\* poll_buffer_ready: statistics of a frame arrive, so that the next frame starts.
ForceReady ==
  /\ mode.noReadback /\ started
  /\ \E f \in stats + 1..MaxFrame : stats' = f
  /\ LET i == stats' + 1
     IN  pending' = IF i \in DOMAIN pending.map /\ ~pending.map[i].ready
                    THEN [map    |-> [pending.map EXCEPT ![i].flags = mask, ![i].ready = TRUE],
                          latest |-> IF i > pending.latest THEN i ELSE pending.latest,
                          ready  |-> pending.ready + 1]
                    ELSE pending
  /\ UNCHANGED <<mode, started, mask, initList, next, late, made, base, out, frames, stops>>

\* The first frame is taken, whether it is the ready one or not.
DeQueOne ==
  /\ started /\ pending.ready > 0 /\ DOMAIN pending.map /= {}
  /\ LET i == Least(DOMAIN pending.map)
     IN  /\ out' = out \o pending.map[i].params
         /\ frames' = Append(frames, i)
         /\ pending' = [pending EXCEPT !.map = Restrict(@, DOMAIN @ \ {i}), !.ready = @ - 1]
  /\ UNCHANGED <<mode, started, mask, initList, next, stats, late, made, base, stops>>

\* Mutant: the ready conditions are kept, the frames too.
Stop_KeepsFrames ==
  /\ started
  /\ stops < MaxSessions
  /\ stops' = stops + 1
  /\ started' = FALSE /\ mask' = {} /\ initList' = << >>
  /\ pending' = [Nothing EXCEPT !.map = pending.map]
  /\ next' = [k \in Kinds |-> 0] /\ stats' = -1 /\ late' = {}
  /\ base' = made /\ out' = << >> /\ frames' = << >>
  /\ UNCHANGED <<mode, made>>

Stop ==
  /\ started
  /\ stops < MaxSessions
  /\ stops' = stops + 1
  /\ started' = FALSE /\ mask' = {} /\ initList' = << >> /\ pending' = Nothing
  /\ next' = [k \in Kinds |-> 0] /\ stats' = -1 /\ late' = {}
  /\ base' = made /\ out' = << >> /\ frames' = << >>
  /\ UNCHANGED <<mode, made>>

Next ==
  \/ \E k \in Kinds : QueueInitial(k) \/ Queue(k)
  \/ Start \/ ForceReady \/ DeQueOne \/ Stop

Spec == Init /\ [][Next]_vars

-----------------------------------------------------------------------------
(* Properties *)

\* The drivers get frames in increasing order and none twice, whatever was late,
\* merged or forced, and what is pending comes after them: readers match
\* parameters to frames by the number.
FramesInOrder ==
  /\ \A m, n \in DOMAIN frames : m < n => frames[m] < frames[n]
  /\ \A n \in DOMAIN frames, i \in DOMAIN pending.map : frames[n] < i

Elements(s) == {s[n] : n \in DOMAIN s}

\* No result is lost or applied twice by the moves and merges: each is in exactly
\* one place until it reaches the drivers.  (Not with forced frames: see
\* NoImpossibleCase.)
ResultsKept ==
  LET held == Elements(initList) \cup Elements(out)
                \cup UNION {Elements(pending.map[i].params) : i \in DOMAIN pending.map}
  IN  ~mode.noReadback =>
        /\ {r.number : r \in held} = base + 1..made
        /\ \A r \in Elements(out), i \in DOMAIN pending.map :
             r \notin Elements(pending.map[i].params)

\* Of each type the drivers get the newest result last: an older one never
\* overwrites it, within a merged frame or from a frame to the next.  A type with
\* late results is excepted: the next result may join a frame before theirs.
NewestLast ==
  \A m, n \in DOMAIN out :
    m < n /\ out[m].kind = out[n].kind /\ out[m].kind \notin late
      => out[m].number < out[n].number

\* The consumer keeps up and no frame is forced (the TNR, NR and FEC units).
InStep == mode.prompt /\ ~mode.noReadback

\* mReadyNums, by which consumers decide to take a frame, is the number of ready
\* frames: ready() neither hides one nor hands out an incomplete one.
ReadyCounted ==
  InStep => pending.ready = Cardinality({i \in DOMAIN pending.map : pending.map[i].ready})

\* The comments in queue_locked and deQueOne: frames before a ready one are merged
\* into a ready one, so that the next frame taken, the first in the map, is ready.
ReadyFirst ==
  \A i, j \in DOMAIN pending.map : pending.map[i].ready /\ ~pending.map[j].ready => i < j

\* ReadyFirst holds as long as the consumer keeps up: no frame is handed out
\* incomplete.
InStepReadyFirst == InStep => ReadyFirst

\* The comment in queue_locked: that a frame becomes ready when a later one
\* already was is an "impossible case".
NoImpossibleCase ==
  [][\A k \in Kinds, f \in 0..MaxFrame :
       Queue(k) /\ next'[k] = f + 1
         => ~Impossible(pending, [kind |-> k, frame |-> f, number |-> made + 1])]_vars

\* The case is impossible indeed where no frame is forced, though the consumer
\* stalls and frames are merged: no result and no count is lost to it.
ReadbackImpossibleCase ==
  [][\A k \in Kinds, f \in 0..MaxFrame :
       Queue(k) /\ next'[k] = f + 1 /\ ~mode.noReadback
         => ~Impossible(pending, [kind |-> k, frame |-> f, number |-> made + 1])]_vars
=============================================================================
