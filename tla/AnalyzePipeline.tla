-------------------------- MODULE AnalyzePipeline --------------------------
(***************************************************************************)
(* The analyzer groups of RkAiqCore together, by the condition tables of   *)
(* the ISP 3.x: one thread posts starts of frames, one posts statistics,   *)
(* and the AE and AWB groups, while they analyse a frame, post results     *)
(* that other groups wait for.  AnalyzerGroup takes the publishers of a    *)
(* group at their word; here they are the other groups, and every group is *)
(* shown to implement AnalyzerGroup.                                       *)
(***************************************************************************)
EXTENDS Integers, Sequences, FiniteSets, Functions, FrameMap

CONSTANTS
  MaxPending, KeepPending,  \* msgReduction, see AnalyzerGroup
  MaxSkew,                  \* see AnalyzerGroup
  MaxFrame,                 \* bound: last frame the groups come to,
  LastFrame,                \* and in each session
  MaxQueue,                 \* bound: messages waiting in a worker
  MaxSkipped                \* bound: posts left out in each session

ASSUME PipelineAssumption ==
  /\ MaxPending \in Nat /\ KeepPending \in 1..MaxPending
  /\ MaxSkew \in Nat /\ MaxQueue \in Nat /\ MaxFrame \in Nat /\ MaxFrame >= 2
  /\ LastFrame \in Seq(2..MaxFrame)
  /\ MaxSkipped \in Seq(Nat) /\ Len(MaxSkipped) = Len(LastFrame)

\* Bound: starts.
MaxSessions == Len(LastFrame)

VARIABLES
  streaming, \* the threads that post starts of frames and statistics run
  at,        \* the frame each of these threads comes to next
  todo,      \* the pushes a thread has yet to make, each of a message to one group
  up, queue, pending, next,             \* of each group, see AnalyzerGroup
  close, arrived, analysed, lost,       \* history of each group, see AnalyzerGroup
  session,   \* history: number of starts
  skipped    \* history: posts left out this session

collected == <<pending, arrived, analysed, lost>>
published == <<next, close>>
vars == <<streaming, at, todo, up, queue, collected, published, session, skipped>>

-----------------------------------------------------------------------------
(* The condition tables *)

Types == {"SOF", "AEC_STATS", "AWB_STATS", "AE_PRE_RES", "AE_PROC_RES", "AWB_PROC_RES"}

Groups == {"GRP1", "AE", "AWB", "GRP0"}

\* The place of a group in mGroupMap, which is sorted by the masks.
Place == [GRP1 |-> 1, AE |-> 2, AWB |-> 3, GRP0 |-> 4]

\* Mutant: AE waits for the result of AWB.
AeCond_Cycle == {"AEC_STATS", "AWB_PROC_RES"}

AeCond == {"AEC_STATS"}
AwbCond == {"SOF", "AE_PRE_RES", "AWB_STATS"}
Grp0Cond == {"SOF", "AE_PRE_RES", "AE_PROC_RES", "AEC_STATS", "AWB_STATS"}
Grp1Cond == {"SOF", "AWB_PROC_RES"}

\* The mask of the group an algorithm belongs to.
Conds(g) ==
  CASE g = "AE" -> AeCond [] g = "AWB" -> AwbCond [] g = "GRP0" -> Grp0Cond [] g = "GRP1" -> Grp1Cond

Statistics == {"AEC_STATS", "AWB_STATS"}

DelayOf(t) == IF t \in Statistics THEN 2 ELSE 0

\* What the algorithms of a group post while they run.
Results(g) ==
  CASE g = "AE"  -> {"AE_PRE_RES", "AE_PROC_RES"}
    [] g = "AWB" -> {"AWB_PROC_RES"}
    [] OTHER     -> {}

\* The types that a thread posts after another one.
Second == {"AWB_STATS", "AE_PROC_RES"}

\* The start of frame 0 is not posted; results start with the statistics of
\* frame 0, which serve frame 2.
FirstOf(t) == IF t = "SOF" THEN 1 ELSE IF t \in Statistics THEN 0 ELSE 2

Sensor == {"sof", "stats"}
Threads == Groups \cup Sensor

Delays(g) == [t \in Conds(g) |-> DelayOf(t)]
Firsts(g) == [t \in Conds(g) |-> FirstOf(t)]

\* Each group as AnalyzerGroup describes it.
Ae == INSTANCE AnalyzerGroup WITH
  Deps <- Conds("AE"), Delay <- Delays("AE"), First <- Firsts("AE"),
  up <- up["AE"], queue <- queue["AE"], pending <- pending["AE"],
  next <- next["AE"], close <- close["AE"],
  arrived <- arrived["AE"], analysed <- analysed["AE"], lost <- lost["AE"]
Awb == INSTANCE AnalyzerGroup WITH
  Deps <- Conds("AWB"), Delay <- Delays("AWB"), First <- Firsts("AWB"),
  up <- up["AWB"], queue <- queue["AWB"], pending <- pending["AWB"],
  next <- next["AWB"], close <- close["AWB"],
  arrived <- arrived["AWB"], analysed <- analysed["AWB"], lost <- lost["AWB"]
Grp0 == INSTANCE AnalyzerGroup WITH
  Deps <- Conds("GRP0"), Delay <- Delays("GRP0"), First <- Firsts("GRP0"),
  up <- up["GRP0"], queue <- queue["GRP0"], pending <- pending["GRP0"],
  next <- next["GRP0"], close <- close["GRP0"],
  arrived <- arrived["GRP0"], analysed <- analysed["GRP0"], lost <- lost["GRP0"]
Grp1 == INSTANCE AnalyzerGroup WITH
  Deps <- Conds("GRP1"), Delay <- Delays("GRP1"), First <- Firsts("GRP1"),
  up <- up["GRP1"], queue <- queue["GRP1"], pending <- pending["GRP1"],
  next <- next["GRP1"], close <- close["GRP1"],
  arrived <- arrived["GRP1"], analysed <- analysed["GRP1"], lost <- lost["GRP1"]

Push == [type : Types, frame : 0..MaxFrame, to : Groups]

TypeOK ==
  /\ streaming \in BOOLEAN
  /\ at \in [Sensor -> 0..(MaxFrame + 1)]
  /\ todo \in [Threads -> SUBSET Push]
  /\ Ae!TypeOK /\ Awb!TypeOK /\ Grp0!TypeOK /\ Grp1!TypeOK
  /\ skipped \in Nat

Init ==
  /\ streaming = FALSE /\ session = 0 /\ skipped = 0
  /\ at = [a \in Sensor |-> 0] /\ todo = [a \in Threads |-> {}]
  /\ up = [g \in Groups |-> FALSE]
  /\ queue = [g \in Groups |-> << >>] /\ pending = [g \in Groups |-> << >>]
  /\ next = [g \in Groups |-> Firsts(g)]
  /\ close = [g \in Groups |-> TRUE]
  /\ arrived = [g \in Groups |-> [t \in Conds(g) |-> {}]]
  /\ analysed = [g \in Groups |-> {}] /\ lost = [g \in Groups |-> {}]

-----------------------------------------------------------------------------
(* post_message *)

\* The pushes that posting messages of these types for frame f takes, one to each
\* group that waits for the type.
Pushes(types, f) ==
  {m \in [type : types, frame : {f}, to : Groups] : m.type \in Conds(m.to)}

\* handleMessage goes through the groups in the order of the map and pushes to one
\* after the other, while other threads go on.
Before(m, n) ==
  \/ m.type = n.type /\ Place[m.to] < Place[n.to]
  \/ m.type /= n.type /\ n.type \in Second

\* Thread a sets out to post messages of some of these types for frame f: no
\* message comes of a type whose pool is empty or whose algorithm fails.
PostSome(a, types, f, before) ==
  \E S \in SUBSET types :
    /\ skipped' = skipped + before + Cardinality(types \ S)
    /\ skipped' =< MaxSkipped[session]
    /\ todo' = [todo EXCEPT ![a] = Pushes(S, f)]

\* Frame f of type t is less than MaxSkew frames ahead of the other types of g.
WithinSkew(g, t, f) ==
  \A u \in Conds(g) : f + DelayOf(t) < next[g][u] + DelayOf(u) + MaxSkew

PushNext(a) ==
  \E m \in todo[a] :
    /\ \A n \in todo[a] \ {m} : Before(m, n)
    /\ Len(queue[m.to]) < MaxQueue
    /\ queue' = [queue EXCEPT ![m.to] =
         Append(@, [type |-> m.type, frame |-> m.frame, session |-> session])]
    /\ next' = [next EXCEPT ![m.to][m.type] = m.frame + 1]
    /\ close' = [close EXCEPT ![m.to] =
         @ /\ m.frame = next[m.to][m.type] /\ WithinSkew(m.to, m.type, m.frame)]
    /\ todo' = [todo EXCEPT ![a] = @ \ {m}]
    /\ UNCHANGED <<streaming, at, up, collected, session, skipped>>

-----------------------------------------------------------------------------
(* The sensor *)

\* The thread that serves frame f of the sensor; frames before it are missed.
Serve(a, types, last) ==
  /\ streaming
  /\ todo[a] = {}
  /\ \E f \in at[a]..last :
       /\ PostSome(a, types, f, (f - at[a]) * Cardinality(types))
       /\ at' = [at EXCEPT ![a] = f + 1]
  /\ UNCHANGED <<streaming, up, queue, collected, published, session>>

\* events_analyze.
Sof == Serve("sof", {"SOF"}, LastFrame[session])

\* analyze: handleAecStats, handleAwbStats.
Stats == Serve("stats", Statistics, LastFrame[session] - 2)

-----------------------------------------------------------------------------
(* The groups *)

UserId(m) == m.frame + DelayOf(m.type)

Pop(g, m) ==
  /\ up[g]
  /\ todo[g] = {}
  /\ queue[g] /= << >>
  /\ m = Head(queue[g])
  /\ queue' = [queue EXCEPT ![g] = Tail(@)]
  /\ arrived' = [arrived EXCEPT ![g][m.type] = @ \cup {UserId(m)}]
  /\ UNCHANGED <<streaming, at, up, published, session>>

\* The map of group g with message m added.
Collect(g, m) == Filed(pending[g], UserId(m), m)

Complete(g, msgs) == {m.type : m \in msgs} = Conds(g)

\* The frame is complete: its algorithms run, and post their results as they go.
Analyse(g) ==
  \E m \in Range(queue[g]) :
    LET id == UserId(m)  map == Collect(g, m)
    IN  /\ Pop(g, m)
        /\ Complete(g, map[id])
        /\ pending' = [pending EXCEPT ![g] = Restrict(map, {i \in DOMAIN @ : i > id})]
        /\ analysed' = [analysed EXCEPT ![g] = @ \cup {id}]
        /\ PostSome(g, Results(g), id, 0)
        /\ UNCHANGED lost

Store(g) ==
  \E m \in Range(queue[g]) :
    LET map == Collect(g, m)  dropped == Dropped(DOMAIN map, MaxPending, KeepPending)
    IN  /\ Pop(g, m)
        /\ ~Complete(g, map[UserId(m)])
        /\ pending' = [pending EXCEPT ![g] = Restrict(map, DOMAIN map \ dropped)]
        /\ lost' = [lost EXCEPT ![g] = @ \cup dropped]
        /\ UNCHANGED <<analysed, todo, skipped>>

-----------------------------------------------------------------------------
(* start and stop *)

\* Mutant: the worker's list is not cleared on start.
Start_KeepsList ==
  /\ \A g \in Groups : ~up[g]
  /\ session < MaxSessions
  /\ session' = session + 1
  /\ streaming' = TRUE
  /\ at' = [a \in Sensor |-> IF a = "sof" THEN 1 ELSE 0]
  /\ up' = [g \in Groups |-> TRUE]
  /\ next' = [g \in Groups |-> Firsts(g)]
  /\ close' = [g \in Groups |-> TRUE]
  /\ arrived' = [g \in Groups |-> [t \in Conds(g) |-> {}]]
  /\ analysed' = [g \in Groups |-> {}] /\ lost' = [g \in Groups |-> {}]
  /\ skipped' = 0
  /\ UNCHANGED <<pending, todo, queue>>

\* RkAiqCore::start: no frame comes before it is through.
Start ==
  /\ \A g \in Groups : ~up[g]
  /\ session < MaxSessions
  /\ session' = session + 1
  /\ streaming' = TRUE
  /\ at' = [a \in Sensor |-> IF a = "sof" THEN 1 ELSE 0]
  /\ up' = [g \in Groups |-> TRUE]
  /\ queue' = [g \in Groups |-> << >>]
  /\ next' = [g \in Groups |-> Firsts(g)]
  /\ close' = [g \in Groups |-> TRUE]
  /\ arrived' = [g \in Groups |-> [t \in Conds(g) |-> {}]]
  /\ analysed' = [g \in Groups |-> {}] /\ lost' = [g \in Groups |-> {}]
  /\ skipped' = 0
  /\ UNCHANGED <<pending, todo>>

\* RkAiqCore::stop tells the threads of the sensor to stop,
StopSensor ==
  /\ streaming
  /\ streaming' = FALSE
  /\ UNCHANGED <<at, todo, up, queue, collected, published, session, skipped>>

\* Mutant: the threads of the sensor are not joined.
Stop_NoJoin(g) ==
  /\ ~streaming
  /\ todo[g] = {}
  /\ up[g]
  /\ \A h \in Groups : Place[h] < Place[g] => ~up[h]
  /\ up' = [up EXCEPT ![g] = FALSE]
  /\ queue' = [queue EXCEPT ![g] = << >>]
  /\ pending' = [pending EXCEPT ![g] = << >>]
  /\ UNCHANGED <<streaming, at, todo, published, arrived, analysed, lost, session, skipped>>

\* joins them, and stops the groups one after the other: those still up analyse
\* on, and push to groups already stopped.
Stop(g) ==
  /\ ~streaming
  /\ \A a \in Sensor \cup {g} : todo[a] = {}
  /\ up[g]
  /\ \A h \in Groups : Place[h] < Place[g] => ~up[h]
  /\ up' = [up EXCEPT ![g] = FALSE]
  /\ queue' = [queue EXCEPT ![g] = << >>]
  /\ pending' = [pending EXCEPT ![g] = << >>]
  /\ UNCHANGED <<streaming, at, todo, published, arrived, analysed, lost, session, skipped>>

-----------------------------------------------------------------------------
Handle(g) == Analyse(g) \/ Store(g)

\* A thread that has something to do does it.
Work == (\E a \in Threads : PushNext(a)) \/ (\E g \in Groups : Handle(g))

Next == Sof \/ Stats \/ Work \/ Start \/ StopSensor \/ (\E g \in Groups : Stop(g))

\* The work does not rest while a thread has some: what the sensor served in a
\* session makes finitely much, so each thread comes to its own.  The sensor may
\* fall silent, and nobody has to start or stop.
Fairness == WF_vars(Work)

Spec == Init /\ [][Next]_vars /\ Fairness

-----------------------------------------------------------------------------
(* Properties *)

\* Every group sees what AnalyzerGroup assumes of its publishers: with the other
\* groups for publishers, each type comes in increasing frames, and the stop of
\* the groups one by one leaves none of them a message of another session.
EachGroup == Ae!Spec /\ Awb!Spec /\ Grp0!Spec /\ Grp1!Spec

\* A group analyses a frame only after the groups whose results it takes have:
\* it never runs on a result of an earlier session that has the same number.
ResultsFirst ==
  \A g, h \in Groups :
    Results(h) \cap Conds(g) /= {} => analysed[g] \subseteq analysed[h]

\* When all messages have been handled, each group has analysed every frame that was
\* served without a post left out, or msgReduction dropped it in some group: no
\* group waits for itself, for a type nobody posts, or for an answer of another.
NobodyWaits ==
  /\ streaming /\ skipped = 0
  /\ \A a \in Threads : todo[a] = {}
  /\ \A g \in Groups : queue[g] = << >>
  => \A i \in 2..MaxFrame :
       at["sof"] > i /\ at["stats"] > i - 2
         => (\E g \in Groups : i \in lost[g]) \/ (\A g \in Groups : i \in analysed[g])

\* The tables make no group wait for itself: when the sensor has served frame i
\* and the statistics two frames before, and no post was left out, every group
\* comes to analyse frame i, unless the core is stopped or msgReduction drops the
\* frame in some group; the groups that take its result then wait in vain.
FrameFlows ==
  \A s \in 1..MaxSessions, i \in 2..MaxFrame :
    (session = s /\ at["sof"] > i /\ at["stats"] > i - 2)
      ~> \/ session /= s \/ ~streaming \/ skipped > 0
         \/ \E g \in Groups : i \in lost[g]
         \/ \A g \in Groups : i \in analysed[g]
=============================================================================
