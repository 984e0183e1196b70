------------------------------ MODULE SensorExp ------------------------------
(***************************************************************************)
(* SensorHw without exp_i2c_params: the exposures the AE algorithm asks    *)
(* for are queued, one is written to the sensor at each start of frame,    *)
(* and a map tells which exposure is in effect in which frame.             *)
(*                                                                         *)
(* An exposure has three registers: integration time, analog gain and dcg  *)
(* mode.  A register written at the start of frame f has effect from frame *)
(* f + delay, with a delay of its own; the driver holds the faster ones    *)
(* back so that the three come into effect together, and records that      *)
(* frame in _effecting_exp_map.  The sensor itself is outside the program: *)
(* it is the operator InEffect over the history of the writes.             *)
(*                                                                         *)
(* The poll thread runs handle_sof in three steps, of which the first and  *)
(* the last hold _mutex; the result thread calls setExposureParams between *)
(* any two of them.  The owner joins the poll thread before stop().        *)
(***************************************************************************)
EXTENDS Integers, Sequences, FiniteSets, Functions

CONSTANTS
  Configs,       \* the delays a calibration may give: functions on Registers
  MaxMap,        \* _effecting_exp_map is trimmed to this many entries (10)
  MaxTable,      \* longest exp_tbl
  LoseSof,       \* start-of-frame events may be lost
  MaxExp,        \* bound: exposures asked for
  MaxFrame,      \* bound: last frame of a session
  MaxSessions    \* bound: calls of stop()

Registers == {"time", "gain", "dcg"}

ASSUME SensorAssumption ==
  /\ Configs \subseteq [Registers -> Int]
  /\ MaxMap \in Nat \ {0} /\ MaxTable \in Nat /\ LoseSof \in BOOLEAN
  /\ MaxExp \in Nat /\ MaxFrame \in Nat /\ MaxSessions \in Nat

VARIABLES
  delay,       \* _time_delay, _gain_delay, _dcg_gain_mode_delay
  gainDelayed, \* _gain_delayed
  dcgDelayed,  \* _dcg_gain_mode_delayed
  dcgWithTime, \* _dcg_gain_mode_with_time
  first,       \* _first: no exposure has been set since stop()
  expList,     \* _exp_list: exposures, and whether each is the first of a table
  delayed,     \* _delayed_gain_list and _delayed_dcg_gain_mode_list
  last,        \* _last_exp_time, _last_exp_gain, _last_dcg_gain_mode (0: none)
  effecting,   \* _effecting_exp_map: frame -> exposure
  streaming,   \* start-of-frame events are coming
  pc,          \* the poll thread in handle_sof: "idle", "write", "record"
  sof,         \* frameid of its current or last call
  set,         \* the registers it popped a new exposure for
  made,        \* history: number of exposures asked for; they are 1..made
  stops,       \* history: calls of stop()
  owed,        \* history: exposures that must not be skipped, this session
  applied,     \* history: exposures whose time was popped, this session
  written,     \* history: frame -> the exposures written (-1: before frame 0)
  lost         \* history: a start of frame was lost, this session

config == <<delay, gainDelayed, dcgDelayed, dcgWithTime>>
queues == <<first, expList, delayed, last, effecting>>
thread == <<streaming, pc, sof, set>>
history == <<made, stops, owed, applied, written, lost>>
vars == <<config, queues, thread, history>>

Exposures == 1..MaxExp
Empty == << >>    \* the map without entries
All(e) == [r \in Registers |-> e]

\* map[k] = e
With(map, k, e) == [i \in DOMAIN map \cup {k} |-> IF i = k THEN e ELSE map[i]]

Latest(S) == CHOOSE x \in S : \A y \in S : y =< x
Earliest(S) == CHOOSE x \in S : \A y \in S : x =< y

TypeOK ==
  /\ delay \in [Registers -> Int]
  /\ gainDelayed \in BOOLEAN /\ dcgDelayed \in BOOLEAN /\ dcgWithTime \in BOOLEAN
  /\ first \in BOOLEAN
  /\ expList \in Seq(Exposures \X BOOLEAN)
  /\ delayed \in [{"gain", "dcg"} -> Seq(Exposures)]
  /\ \A r \in {"gain", "dcg"} : Len(delayed[r]) =< 1
  /\ last \in [Registers -> 0..MaxExp]
  /\ DOMAIN effecting \subseteq Int /\ Range(effecting) \subseteq Exposures
  /\ Cardinality(DOMAIN effecting) =< MaxMap + 1
  /\ streaming \in BOOLEAN
  /\ pc \in {"idle", "write", "record"}
  /\ sof \in -1..MaxFrame
  /\ set \subseteq Registers
  /\ made \in 0..MaxExp /\ stops \in 0..MaxSessions
  /\ owed \subseteq Exposures /\ applied \subseteq Exposures
  /\ DOMAIN written \subseteq -1..MaxFrame
  /\ Range(written) \subseteq [Registers -> 0..MaxExp]
  /\ lost \in BOOLEAN

Init ==
  /\ delay = All(0)
  /\ gainDelayed = FALSE /\ dcgDelayed = FALSE /\ dcgWithTime \in BOOLEAN
  /\ first = TRUE /\ expList = << >>
  /\ delayed = [r \in {"gain", "dcg"} |-> << >>]
  /\ last = All(0) /\ effecting = Empty
  /\ streaming = FALSE /\ pc = "idle" /\ sof = -1 /\ set = {}
  /\ made = 0 /\ stops = 0 /\ owed = {} /\ applied = {} /\ written = Empty
  /\ lost = FALSE

-----------------------------------------------------------------------------
(* The owner, and the results of AE *)

\* The dcg mode has a delay of its own.
DcgFaster(d) == d["dcg"] > 0 /\ d["dcg"] \notin {d["time"], d["gain"]}

\* set_exp_delay_info, at prepare or when the working mode changes.  A gain or
\* dcg delay above the time delay is refused after the delays were stored.
SetDelays ==
  /\ ~streaming
  /\ \E d \in Configs :
       /\ delay' = d
       /\ IF d["gain"] > d["time"]
          THEN UNCHANGED <<gainDelayed, dcgDelayed, dcgWithTime>>
          ELSE /\ gainDelayed' = (d["time"] > d["gain"])
               /\ CASE d["dcg"] > d["time"] -> UNCHANGED <<dcgDelayed, dcgWithTime>>
                    [] d["dcg"] =< d["time"] /\ DcgFaster(d) ->
                         dcgDelayed' = TRUE /\ UNCHANGED dcgWithTime
                    [] OTHER ->
                         dcgWithTime' = (d["dcg"] = d["time"]) /\ UNCHANGED dcgDelayed
  /\ UNCHANGED <<queues, thread, history>>

\* setExposureParams, the first after stop(): written at once.
SetFirst ==
  /\ first /\ ~streaming
  /\ made < MaxExp
  /\ made' = made + 1
  /\ first' = FALSE
  /\ last' = All(made')
  /\ effecting' = With(effecting, 0, made')
  /\ written' = With(written, -1, All(made'))
  /\ UNCHANGED <<config, expList, delayed, thread, stops, owed, applied, lost>>

\* A manual or a customer's exposure (algo_id /= 0).
SetOne ==
  /\ ~first
  /\ made < MaxExp
  /\ made' = made + 1
  /\ expList' = Append(expList, <<made', TRUE>>)
  /\ owed' = owed \cup {made'}
  /\ UNCHANGED <<config, first, delayed, last, effecting, thread, stops, applied, written, lost>>

\* Mutant: the new table replaces the list.
SetTable_Replaces ==
  /\ ~first
  /\ \E n \in 0..MaxTable :
       /\ made + n =< MaxExp
       /\ made' = made + n
       /\ expList' = [i \in 1..n |-> <<made + i, i = 1>>]
       /\ owed' = IF n = 0 THEN owed ELSE owed \cup {made + 1}
  /\ UNCHANGED <<config, first, delayed, last, effecting, thread, stops, applied, written, lost>>

\* Where the first exposures of tables, and the single ones, are in the list.
Firsts == {i \in DOMAIN expList : expList[i][2]}

\* A table of AE: what is left of earlier tables goes, except the first of each;
\* of the new one the elements the buffer pool has room for are appended.
\* at: the places of those that stay, in their order.
SetTable ==
  /\ ~first
  /\ \E n \in 0..MaxTable, at \in [1..Cardinality(Firsts) -> Firsts] :
       /\ \A i, j \in DOMAIN at : i < j => at[i] < at[j]
       /\ made + n =< MaxExp
       /\ made' = made + n
       /\ expList' = [i \in DOMAIN at |-> expList[at[i]]]
                       \o [i \in 1..n |-> <<made + i, i = 1>>]
       /\ owed' = IF n = 0 THEN owed ELSE owed \cup {made + 1}
  /\ UNCHANGED <<config, first, delayed, last, effecting, thread, stops, applied, written, lost>>

StreamOn ==
  /\ ~first /\ ~streaming
  /\ streaming' = TRUE
  /\ UNCHANGED <<config, queues, pc, sof, set, history>>

\* Mutant: the delayed gain outlives the session.
Stop_KeepsGain ==
  /\ pc = "idle"
  /\ stops < MaxSessions
  /\ stops' = stops + 1
  /\ first' = TRUE /\ expList' = << >>
  /\ delayed' = [delayed EXCEPT !["dcg"] = << >>]
  /\ last' = All(0) /\ effecting' = Empty
  /\ streaming' = FALSE /\ sof' = -1 /\ set' = {}
  /\ owed' = {} /\ applied' = {} /\ written' = Empty /\ lost' = FALSE
  /\ UNCHANGED <<config, pc, made>>

\* stop(), after the poll thread was joined.
Stop ==
  /\ pc = "idle"
  /\ stops < MaxSessions
  /\ stops' = stops + 1
  /\ first' = TRUE /\ expList' = << >>
  /\ delayed' = [r \in {"gain", "dcg"} |-> << >>]
  /\ last' = All(0) /\ effecting' = Empty
  /\ streaming' = FALSE /\ sof' = -1 /\ set' = {}
  /\ owed' = {} /\ applied' = {} /\ written' = Empty /\ lost' = FALSE
  /\ UNCHANGED <<config, pc, made>>

-----------------------------------------------------------------------------
(* handle_sof *)

\* The MaxMap entries of the highest frames.
Trimmed(map) ==
  Restrict(map, {i \in DOMAIN map : Cardinality({j \in DOMAIN map : j >= i}) =< MaxMap})

\* The registers with something to pop.
Waiting == {r \in {"gain", "dcg"} : delayed[r] /= << >>}
             \cup (IF expList /= << >> THEN {"time"} ELSE {})

\* The exposure a register's list yields: its head, or the last one again.
Popped(r) == CASE r \notin Waiting -> last[r]
               [] r \in Waiting /\ r = "time" -> Head(expList)[1]
               [] r \in Waiting /\ r /= "time" -> Head(delayed[r])

\* Mutant: nothing is done at a frame without a new exposure.
SofPop_OnlyTime ==
  /\ streaming /\ pc = "idle"
  /\ \E f \in sof + 1..MaxFrame : (LoseSof \/ f = sof + 1) /\ sof' = f
  /\ lost' = (lost \/ sof' > sof + 1)
  /\ effecting' = Trimmed(effecting)
  /\ set' = IF "time" \in Waiting THEN Waiting ELSE {}
  /\ last' = [r \in Registers |-> Popped(r)]
  /\ expList' = IF "time" \in Waiting THEN Tail(expList) ELSE expList
  /\ delayed' = [r \in {"gain", "dcg"} |-> IF r \in Waiting THEN Tail(delayed[r]) ELSE << >>]
  /\ applied' = IF "time" \in Waiting THEN applied \cup {Popped("time")} ELSE applied
  /\ pc' = IF "time" \in Waiting THEN "write" ELSE "idle"
  /\ UNCHANGED <<config, first, streaming, made, stops, owed, written>>

\* The first critical section.  exp_time, exp_gain and dcg_gain_mode are the new
\* values of last: nobody else writes those while the poll thread runs.
SofPop ==
  /\ streaming /\ pc = "idle"
  /\ \E f \in sof + 1..MaxFrame : (LoseSof \/ f = sof + 1) /\ sof' = f
  /\ lost' = (lost \/ sof' > sof + 1)
  /\ effecting' = Trimmed(effecting)
  /\ set' = Waiting
  /\ last' = [r \in Registers |-> Popped(r)]
  /\ expList' = IF "time" \in Waiting THEN Tail(expList) ELSE expList
  /\ delayed' = [r \in {"gain", "dcg"} |-> IF r \in Waiting THEN Tail(delayed[r]) ELSE << >>]
  /\ applied' = IF "time" \in Waiting THEN applied \cup {Popped("time")} ELSE applied
  /\ pc' = IF Waiting = {} THEN "idle" ELSE "write"
  /\ UNCHANGED <<config, first, streaming, made, stops, owed, written>>

\* composeExpParam: the exposure each register is written from.
Composed ==
  CASE dcgDelayed -> [All(last["time"]) EXCEPT !["dcg"] = last["dcg"]]
    [] ~dcgDelayed /\ gainDelayed ->
         [time |-> last["time"], gain |-> last["gain"],
          dcg |-> IF dcgWithTime THEN last["time"] ELSE last["gain"]]
    [] OTHER -> All(last["time"])

\* setLinearSensorExposure or setHdrSensorExposure, with no lock held.
SofWrite ==
  /\ pc = "write"
  /\ written' = With(written, sof, Composed)
  /\ pc' = IF "time" \in set THEN "record" ELSE "idle"
  /\ UNCHANGED <<config, queues, streaming, sof, set, made, stops, owed, applied, lost>>

\* The second critical section.
SofRecord ==
  /\ pc = "record"
  /\ delayed' = [r \in {"gain", "dcg"} |->
                   IF (r = "gain" /\ gainDelayed) \/ (r = "dcg" /\ dcgDelayed)
                   THEN Append(delayed[r], last["time"]) ELSE delayed[r]]
  /\ effecting' = With(effecting, sof + delay["time"], last["time"])
  /\ pc' = "idle"
  /\ UNCHANGED <<config, first, expList, last, streaming, sof, set, history>>

Next ==
  \/ SetDelays \/ SetFirst \/ SetOne \/ SetTable \/ StreamOn \/ Stop
  \/ SofPop \/ SofWrite \/ SofRecord

Spec == Init /\ [][Next]_vars

-----------------------------------------------------------------------------
(* Properties *)

\* getEffectiveExpParams: the exposure recorded for the frame, else for the
\* latest earlier one, else the earliest there is.
Reported(f) ==
  LET upto == {i \in DOMAIN effecting : i =< f}
  IN  effecting[IF upto /= {} THEN Latest(upto) ELSE Earliest(DOMAIN effecting)]

\* The exposure register r really has in frame f, by the delay of the sensor.
InEffect(r, f) ==
  written[Latest({s \in DOMAIN written : s = -1 \/ s + delay[r] =< f})][r]

\* Registers the sensor has: no dcg mode if its delay is negative.
Used == {r \in Registers : delay[r] >= 0}

\* The frames whose registers are decided and which the map still covers.
Decided ==
  LET low == sof + delay["time"] - MaxMap
  IN  (IF low < 0 THEN 0 ELSE low)
        ..((IF pc = "idle" THEN sof ELSE sof - 1) + Earliest({delay[r] : r \in Used}))

\* The exposure reported for a frame is the one all its registers really have:
\* AE computes the next exposure from it, and the ISP parameters depend on it.
\* It says that the map, the two delayed lists and the three delays fit, across
\* restarts too.  (A lost start of frame defers the second write of an exposure, and
\* refused delays are nobody's; then RegistersSettle remains.  _dcg_gain_mode_delayed
\* is never reset: left from another mode it breaks the property, see DcgExcludesGain.)
ReportedIsReal ==
  streaming /\ ~lost /\ delay["time"] >= delay["gain"] /\ delay["time"] >= delay["dcg"]
    /\ (dcgDelayed => DcgFaster(delay))
    => \A f \in Decided : \A r \in Used : InEffect(r, f) = Reported(f)

\* Even if start-of-frame events are lost: when nothing waits any more, the
\* registers all come from one exposure, the one reported for the latest frame.
RegistersSettle ==
  streaming /\ pc = "idle" /\ Waiting = {}
    => \A r \in Used : written[Latest(DOMAIN written)][r]
                         = effecting[Latest(DOMAIN effecting)]

\* A manual exposure and the first of every table reach the sensor, however fast
\* new tables come: until then they are in the list, in the order asked for.
FirstsApplied ==
  LET listed == {expList[i][1] : i \in DOMAIN expList}
  IN  /\ owed \subseteq applied \cup listed
      /\ \A i, j \in DOMAIN expList : i < j => expList[i][1] < expList[j][1]
      /\ \A e \in applied, l \in listed : e < l

\* The comment in handle_sof on the branch for a delayed dcg mode: there the
\* gain is not delayed (it is written together with the time).
DcgExcludesGain == streaming /\ dcgDelayed => ~gainDelayed
=============================================================================
